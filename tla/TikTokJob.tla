----------------------------- MODULE TikTokJob -----------------------------
(***************************************************************************)
(* worker/tiktok.go runTikTok with internal/tiktok: a slideshow is         *)
(* delivered as its images and sound, everything else as what yt-dlp       *)
(* leaves on disk.                                                         *)
(***************************************************************************)
EXTENDS PinterestJob

TikTok == {"tiktok"}

TikTokStart == Begin(TikTok, "info")

(***************************************************************************)
(* The post as extractInfo and the page dump describe it: how many image   *)
(* URLs there are, whether they come from the page, whether yt-dlp's JSON  *)
(* says slideshow (flag or entries), has a photo-mode thumbnail, or lists  *)
(* a playable video.                                                       *)
(***************************************************************************)
Infos == [urls : 0..MaxFiles, fromPage : BOOLEAN, slides : BOOLEAN,
          photoMode : BOOLEAN, playable : BOOLEAN]

isSlideshow(info) ==
    info.slides \/ info.photoMode \/ (info.fromPage /\ info.urls >= 2)
hasImages(info) == info.urls >= 2 \/ (info.photoMode /\ info.urls >= 1)
AsCarousel(info) == isSlideshow(info) /\ hasImages(info) /\ ~info.playable

\* A slide is requested twice before it is given up (size 0).
downloadHTTP == {0, 1}

\* The first carousel_max_items slides; one that did not come down is left out.
downloadImages(info) ==
    {Picked([i \in DOMAIN f |-> [id |-> i, type |-> "image", size |-> f[i]]],
          {i \in DOMAIN f : f[i] > 0}) : f \in [1..Least(info.urls, MaxItems) -> downloadHTTP]}

AudioOf(s) == [id |-> MaxFiles + 1, type |-> "audio", size |-> s]

\* yt-dlp fails on the JSON or on the download.
TikTokFailed ==
    /\ At(TikTok, "info")
    /\ \E e \in Errors : DownloadFailed(e)
    /\ UNCHANGED <<faults, mediaVars, videoVars>>

\* downloadAudio failed or is switched off: the images go without sound.
TikTokCarousel ==
    /\ At(TikTok, "info")
    /\ \E info \in Infos, sound \in {<<>>, <<AudioOf(1)>>} :
          /\ AsCarousel(info)
          /\ \E ps \in downloadImages(info) \ {<<>>} :
                files' = ps \o sound /\ SendPhotoAlbum(ps)
    /\ Goto("carousel")
    /\ UNCHANGED <<status, faults, sent, loop, videoVars>>

(***************************************************************************)
(* No slideshow, or none of its images came down: yt-dlp downloads the     *)
(* post and detectPostType looks at the files.  A video is repaired twice: *)
(* sound from the watermarked rendition, square pixels.                    *)
(***************************************************************************)
TikTokDownloaded ==
    /\ At(TikTok, "info")
    /\ \/ /\ \E s \in Sizes, name \in {"webm", "mp4"} :
                disk' = [NoDisk EXCEPT ![name] = s] /\ cur' = name
          /\ Goto("mux") /\ UNCHANGED <<status, files, call>>
       \/ \E images \in Posts({"image"}), sound \in {<<>>, <<AudioOf(1)>>} :
             /\ files' = images \o sound
             /\ \/ files' = <<>> /\ Fail("errors.generic") /\ UNCHANGED call
                \/ /\ files' # <<>> /\ SendPhotoAlbum(images)
                   /\ Goto("carousel") /\ UNCHANGED status
             /\ UNCHANGED videoVars
    /\ UNCHANGED <<faults, sent, loop>>

ensureAudio ==
    /\ At(TikTok, "mux")
    /\ (NoFault /\ Untouched) \/ MuxAudioFrom
    /\ Goto("sar")
    /\ UNCHANGED <<status, mediaVars>>

TikTokSquare ==
    /\ At(TikTok, "sar")
    /\ NormalizeSAR
    /\ Goto("send")
    /\ UNCHANGED <<status, mediaVars>>

\* No size limit here: Telegram refuses what is too large.
TikTokSend ==
    /\ At(TikTok, "send")
    /\ SendFile(Video)
    /\ Goto("tiksent")
    /\ UNCHANGED <<status, faults, files, sent, loop, videoVars>>

TikTokSent ==
    /\ Returned(TikTok, "tiksent")
    /\ IF call.result = "ok" THEN Complete ELSE Fail("errors.generic")
    /\ UNCHANGED <<faults, mediaVars, videoVars>>

\* The images are out; the sound follows, and its failure is only logged.
TikTokCarouselSent ==
    /\ Returned(TikTok, "carousel")
    /\ \/ call.result = "err" /\ Fail("errors.generic") /\ UNCHANGED call
       \/ /\ call.result = "ok" /\ OfType(files, "audio") # <<>>
          /\ SendAudio(OfType(files, "audio")[1]) /\ Goto("sound") /\ UNCHANGED status
       \/ call.result = "ok" /\ OfType(files, "audio") = <<>> /\ Complete /\ UNCHANGED call
    /\ UNCHANGED <<faults, files, sent, loop, videoVars>>

TikTokSound ==
    /\ Returned(TikTok, "sound")
    /\ Complete
    /\ UNCHANGED <<faults, mediaVars, videoVars>>

TikTokNext ==
    \/ TikTokStart \/ TikTokFailed \/ TikTokCarousel \/ TikTokDownloaded \/ ensureAudio
    \/ TikTokSquare \/ TikTokSend \/ TikTokSent \/ TikTokCarouselSent \/ TikTokSound
=============================================================================
