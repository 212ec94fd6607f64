------------------------------ MODULE Delivery ------------------------------
(***************************************************************************)
(* The bodies of all download tasks: one task, of any kind, from its first *)
(* attempt to its end.  The kinds exclude each other, so the states of the *)
(* platforms add up.                                                       *)
(***************************************************************************)
EXTENDS TranslateJob

vars == <<jobVars, mediaVars, videoVars, article, page>>

Init == JobInit /\ article = "none" /\ page = NoPage

Body ==
    \/ (SenderNext \/ YouTubeNext \/ LinkNext \/ PinterestNext \/ TikTokNext \/ InstagramNext)
       /\ UNCHANGED <<article, page>>
    \/ RedditNext /\ UNCHANGED page
    \/ TranslateNext

Next ==
    \/ Body
    \/ Again /\ page' = NoPage /\ UNCHANGED article
    \/ Crash /\ UNCHANGED <<article, page>>
    \/ task \in {"done", "archived"} /\ UNCHANGED vars

\* A running body always goes on, and asynq starts a task that is due again.
Fairness == WF_vars(Body) /\ WF_vars(Again /\ page' = NoPage /\ UNCHANGED article)

Spec == Init /\ [][Next]_vars /\ Fairness

(***************************************************************************)
(* Properties.                                                             *)
(***************************************************************************)
\* runTikTok only logs it when the sound of a post without images cannot be sent.
SoundLost ==
    kind = "tiktok" /\ row = "completed" /\ \A i \in DOMAIN files : files[i].type # "image"

Shown == sent # <<>> \/ article = "shown" \/ SoundLost

\* Every platform's body implements the promise of JobPromise: at most two
\* attempts, at most one row, and "completed" only after something reached the
\* chat (the lost sound of an audio-only TikTok post excepted).
Promise == INSTANCE JobPromise WITH shown <- Shown
KeepsPromise == Promise!Spec

\* The albums keep the order of the post and no item is sent twice in the first
\* attempt, through chunking, the fallback to single photos and the resend
\* without caption of SendPhotoAlbum.
ShownInOrder ==
    attempt = 1 =>
        \A i, j \in DOMAIN sent : \A a \in DOMAIN sent[i], b \in DOMAIN sent[j] :
            i < j \/ (i = j /\ a < b) =>
                /\ sent[i][a] # sent[j][b]
                /\ kind \notin {"pinterest", "reddit"} => sent[i][a] < sent[j][b]

Ids(fs) == {fs[i].id : i \in DOMAIN fs}

\* The positions of the items that the loops of sendPinterestItems and
\* sendRedditMedia do not skip.
Fits ==
    {i \in DOMAIN files :
        IF kind = "pinterest" THEN files[i].size \in 1..Limit(files[i])
        ELSE files[i].size <= RedditLimit(files[i])}

\* The items a body means to deliver.
Wanted ==
    LET images == OfType(files, "image")
        videos == OfType(files, "video")
    IN  CASE kind \in {"link", "x", "instagram"} /\ videos # <<>> -> {LargestVideo(videos).id}
          [] kind = "instagram" /\ videos = <<>> -> Ids(SubSeq(images, 1, Least(Len(images), MaxItems)))
          [] kind = "pinterest" -> {files[i].id : i \in Fits}
          [] kind = "reddit" -> {files[i].id : i \in {k \in Fits :
                                    Cardinality({j \in Fits : j < k}) < MaxItems}}
          [] kind \in {"youtube", "audio"} -> {1}
          [] kind = "tiktok" /\ files = <<>> -> {1}
          [] OTHER -> Ids(files)

\* When no call failed and nothing was above Telegram's own limit, "completed"
\* means that every wanted item is in the chat: cutting, chunking, skipping and
\* picking (sendPinterestItems, sendRedditMedia, SendPhotoAlbum) drop nothing else.
CompletedDropsNothing ==
    row = "completed" /\ faults = 0 /\ (\A i \in DOMAIN files : ~TooBig(files[i]))
        => InChat = Wanted

\* Two bodies delete the placeholder after a failed upload (runInstagram, and
\* runDownload for an album), so the user sees nothing at all.
Silent == kind \in {"link", "x", "instagram"} /\ row = "failed"

\* A task that ends leaves no placeholder behind, deletes it only when there is
\* something to see, and tells the user when a published article could not be
\* shown; only an archived task (two retryable errors) may leave it hanging.
AnsweredAtEnd ==
    task = "done" =>
        /\ status \notin {"placeholder", "downloading"}
        /\ status = "deleted" => Shown \/ Silent
        /\ kind = "reddit" /\ article = "published" => status = "errors.generic"

\* Through transcoding, compression, muxing and their swaps of files, with any of
\* the removes and renames failing, some copy of the video stays on disk.
VideoNeverLost ==
    task = "run" /\ pc \in {"ratio", "compress", "fit", "mux", "sar"} =>
        \E n \in Names : disk[n] > 0

\* The translated page is the whole text in its order, whatever order the
\* concurrent requests of translateBlock finish in and wherever chunkRunes cuts.
TranslationComplete ==
    status = "article_ru" =>
        /\ Joined(page.translated) = page.text
        /\ \A i \in DOMAIN page.chunks : Len(page.chunks[i]) \in 1..MaxChunk

\* Every task ends: it is done, or archived after its second attempt.
JobEnds == <>(task \in {"done", "archived"})
=============================================================================
