---------------------------- MODULE InstagramJob ----------------------------
(* worker/instagram.go: one video, or the photos of a post as an album. *)
EXTENDS TikTokJob

Instagram == {"instagram"}

InstagramStart == Begin(Instagram, "download")

InstagramFailed ==
    /\ At(Instagram, "download")
    /\ \E e \in Errors : DownloadFailed(e)
    /\ UNCHANGED <<faults, mediaVars, videoVars>>

\* instagram.carousel_max_items cuts the list.
CutPhotos(images) ==
    IF Len(images) <= MaxItems THEN images ELSE [i \in 1..MaxItems |-> images[i]]

runInstagram ==
    /\ At(Instagram, "download")
    /\ \E fs \in Posts({"image", "video"}) :
          LET videos == OfType(fs, "video")
              images == OfType(fs, "image")
          IN  /\ files' = fs
              /\ \/ fs = <<>> /\ Fail("instagram.no_media") /\ UNCHANGED call
                 \/ videos # <<>> /\ SendFile(LargestVideo(videos)) /\ Goto("insta") /\ UNCHANGED status
                 \/ /\ videos = <<>> /\ images # <<>>
                    /\ SendPhotoAlbum(CutPhotos(images))
                    /\ Goto("insta") /\ UNCHANGED status
    /\ UNCHANGED <<faults, sent, loop, videoVars>>

\* The error text is edited in and then deleted with the placeholder.
InstagramSent ==
    /\ Returned(Instagram, "insta")
    /\ Return(IF call.result = "ok" THEN "completed" ELSE "failed", "deleted")
    /\ UNCHANGED <<faults, mediaVars, videoVars>>

InstagramNext == InstagramStart \/ InstagramFailed \/ runInstagram \/ InstagramSent
=============================================================================
