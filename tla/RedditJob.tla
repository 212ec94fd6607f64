----------------------------- MODULE RedditJob -----------------------------
(***************************************************************************)
(* worker/reddit.go: a thread is delivered as its media and as a Telegraph *)
(* page with its text and comments.                                        *)
(***************************************************************************)
EXTENDS InstagramJob

VARIABLE article  \* "none", "published" (a page nobody was shown) or "shown"

Reddit == {"reddit"}

RedditStart == Begin(Reddit, "thread") /\ UNCHANGED article

\* No thread id in the link, or the thread cannot be had: nothing is retried.
RedditFailed ==
    /\ At(Reddit, "thread")
    /\ \E notice \in {"errors.not_found", "errors.rate_limited", "errors.generic"} : Fail(notice)
    /\ UNCHANGED <<faults, mediaVars, videoVars, article>>

\* extractMedia: a gallery of images and gifs, or one item, or text only.
RedditMedia == Posts({"image", "gif"}) \cup {<<[id |-> 1, type |-> "video", size |-> s]>> : s \in Sizes}

RedditThread ==
    /\ At(Reddit, "thread")
    /\ \E fs \in RedditMedia : files' = fs /\ loop' = [NoLoop EXCEPT !.items = fs]
    /\ Goto("items")
    /\ UNCHANGED <<status, faults, sent, call, videoVars, article>>

(***************************************************************************)
(* sendRedditMedia: an item that cannot be downloaded or is too large is   *)
(* skipped and does not count against max_media_items.  Videos and gifs    *)
(* are sent at once, images collected.  A gif has no size limit.           *)
(***************************************************************************)
RedditLimit(f) ==
    CASE f.type = "video" -> PlatformLimit
      [] f.type = "image" -> DocumentLimit
      [] OTHER -> f.size

ItemsLeft == loop.items # <<>> /\ loop.handled < MaxItems

RedditItem ==
    /\ Returned(Reddit, "items") /\ ItemsLeft
    /\ \/ /\ Fault \/ (NoFault /\ NextItem.size > RedditLimit(NextItem))
          /\ loop' = [loop EXCEPT !.items = Tail(@)] /\ UNCHANGED <<pc, call>>
       \/ /\ NoFault /\ NextItem.size <= RedditLimit(NextItem) /\ NextItem.type # "image"
          /\ SendFile(NextItem) /\ pc' = "itemsent" /\ UNCHANGED loop
       \/ /\ NoFault /\ NextItem.size <= RedditLimit(NextItem) /\ NextItem.type = "image"
          /\ loop' = [loop EXCEPT !.items = Tail(@), !.images = Append(@, NextItem),
                                  !.handled = @ + 1]
          /\ UNCHANGED <<pc, call>>
    /\ UNCHANGED <<kind, task, attempt, status, row, files, sent, videoVars, article>>

RedditItemSent ==
    /\ Returned(Reddit, "itemsent")
    /\ loop' = [loop EXCEPT !.items = Tail(@),
                            !.any = @ \/ call.result = "ok",
                            !.handled = IF call.result = "ok" THEN @ + 1 ELSE @]
    /\ Goto("items")
    /\ UNCHANGED <<status, faults, files, sent, call, videoVars, article>>

RedditAlbum ==
    /\ Returned(Reddit, "items") /\ ~ItemsLeft
    /\ SendPhotoAlbum(loop.images)
    /\ Goto("album")
    /\ UNCHANGED <<status, faults, files, sent, loop, videoVars, article>>

RedditAlbumSent ==
    /\ Returned(Reddit, "album")
    /\ loop' = [loop EXCEPT !.any = @ \/ (loop.images # <<>> /\ call.result = "ok")]
    /\ Goto("article")
    /\ UNCHANGED <<status, faults, files, sent, call, videoVars, article>>

(***************************************************************************)
(* deliverRedditArticle and the end of runReddit.  With media in the chat  *)
(* the article is a message of its own, without it the placeholder becomes *)
(* the article.  The page may be published and its link not shown.         *)
(***************************************************************************)
\* Mutant of Finish: the article's error is forgotten once media were sent.
FinishForgetsError(articleErr) ==
    \/ ~loop.any /\ articleErr = "failed" /\ Fail("errors.generic")
    \/ ~loop.any /\ articleErr = "disabled" /\ Fail("reddit.no_content")
    \/ ~loop.any /\ articleErr = "none" /\ Return("completed", "article")
    \/ loop.any /\ Return("completed", "deleted")

Finish(articleErr) ==
    \/ ~loop.any /\ articleErr = "failed" /\ Fail("errors.generic")
    \/ ~loop.any /\ articleErr = "disabled" /\ Fail("reddit.no_content")
    \/ ~loop.any /\ articleErr = "none" /\ Return("completed", "article")
    \/ loop.any /\ articleErr = "failed" /\ Return("completed", "errors.generic")
    \/ loop.any /\ articleErr # "failed" /\ Return("completed", "deleted")

deliverRedditArticle ==
    /\ At(Reddit, "article")
    /\ \/ NoFault /\ Finish("disabled") /\ UNCHANGED article
       \/ NoFault /\ Finish("none") /\ article' = "shown"
       \/ Fault /\ Finish("failed") /\ article' \in {article, "published"}
    /\ UNCHANGED <<mediaVars, videoVars>>

RedditNext ==
    \/ RedditStart \/ RedditFailed \/ RedditThread \/ RedditItem \/ RedditItemSent
    \/ RedditAlbum \/ RedditAlbumSent \/ deliverRedditArticle
=============================================================================
