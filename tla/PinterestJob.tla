---------------------------- MODULE PinterestJob ----------------------------
(***************************************************************************)
(* worker/download.go runPinterest with internal/pinterest: a pin is one   *)
(* item, a board up to max_items_per_board of them.                        *)
(***************************************************************************)
EXTENDS LinkJob

Pin == {"pinterest"}

PinterestStart == Begin(Pin, "download")

(***************************************************************************)
(* A pin as the API answers it: the renditions of its own video, one set   *)
(* of renditions per page of a story pin, and perhaps a cover image.       *)
(***************************************************************************)
Lists == SUBSET {"mp4", "hls"}
Pins == [videos : Lists, pages : {<<>>} \cup {<<l>> : l \in Lists} , cover : BOOLEAN]

\* A direct file wins over an HLS playlist.
bestVideoURL(list) ==
    CASE "mp4" \in list -> "mp4"
      [] list = {"hls"} -> "hls"
      [] OTHER -> "none"

storyPinVideoLists(pin) == SelectSeq(pin.pages, LAMBDA l : l # {})

\* Any video wins over the cover image.
pinMedia(pin) ==
    LET lists == <<pin.videos>> \o storyPinVideoLists(pin)
    IN  IF \E i \in DOMAIN lists : bestVideoURL(lists[i]) # "none" THEN "video"
        ELSE IF pin.cover THEN "image" ELSE "none"

\* What a pin of the feed comes to: its kind, whether the request (or, for a
\* playlist, ffmpeg) worked, and the size of the file.
downloadFile == [type : {pinMedia(pin) : pin \in Pins}, came : BOOLEAN, size : Sizes \cup {0}]

Usable(wanted, p) == p.type \in wanted /\ p.came

\* The pins of the feed that have no media, whose kind is switched off or that
\* do not come down are skipped; the rest is cut at max_items_per_board.
downloadBoard(feed, wanted) ==
    LET ps == Picked(feed, {i \in DOMAIN feed : Usable(wanted, feed[i])})
    IN  [i \in 1..Least(Len(ps), MaxItems) |-> [id |-> i, type |-> ps[i].type, size |-> ps[i].size]]

\* A single pin that is not usable is an error.
downloadPin(p, wanted) ==
    IF Usable(wanted, p) THEN <<[id |-> 1, type |-> p.type, size |-> p.size]>> ELSE <<>>

Downloads == [wanted \in SUBSET {"image", "video"} |->
    {downloadPin(p, wanted) : p \in downloadFile} \cup
    {downloadBoard(feed, wanted) : feed \in UNION {[1..n -> downloadFile] : n \in 1..MaxFiles}}]

Limit(f) == IF f.type = "image" THEN DocumentLimit ELSE PlatformLimit

\* ErrNoMedia and every other error of the client: none is retried.
PinterestFailed ==
    /\ At(Pin, "download")
    /\ \E notice \in {"pinterest.no_media", "errors.generic"} : Fail(notice)
    /\ UNCHANGED <<faults, mediaVars, videoVars>>

PinterestDownloaded ==
    /\ At(Pin, "download")
    /\ \E wanted \in SUBSET {"image", "video"} :
       \E fs \in Downloads[wanted] \ {<<>>} :
          /\ files' = fs
          /\ \/ /\ Len(fs) > 1
                /\ loop' = [NoLoop EXCEPT !.items = fs] /\ Goto("items")
                /\ UNCHANGED <<status, call>>
             \/ Len(fs) = 1 /\ fs[1].size > Limit(fs[1])
                /\ Fail("pinterest.all_too_large") /\ UNCHANGED <<loop, call>>
             \/ Len(fs) = 1 /\ fs[1].size <= Limit(fs[1])
                /\ SendFile(fs[1]) /\ Goto("pin") /\ UNCHANGED <<status, loop>>
    /\ UNCHANGED <<faults, sent, videoVars>>

\* A missing file is reported the same way as a failed upload.
PinSent ==
    /\ Returned(Pin, "pin")
    /\ IF call.result = "ok" THEN Complete ELSE Fail("errors.generic")
    /\ UNCHANGED <<faults, mediaVars, videoVars>>

(***************************************************************************)
(* sendPinterestItems: videos go out as they come, images are collected    *)
(* for one album; an item that is missing, too large or fails is skipped.  *)
(***************************************************************************)
NextItem == Head(loop.items)

PinterestItem ==
    /\ Returned(Pin, "items") /\ loop.items # <<>>
    /\ \/ /\ Missing(NextItem) \/ NextItem.size > Limit(NextItem)
          /\ loop' = [loop EXCEPT !.items = Tail(@)] /\ UNCHANGED <<call, pc>>
       \/ /\ NextItem.type = "video" /\ ~Missing(NextItem) /\ NextItem.size <= Limit(NextItem)
          /\ SendFile(NextItem) /\ pc' = "itemsent" /\ UNCHANGED loop
       \/ /\ NextItem.type = "image" /\ ~Missing(NextItem) /\ NextItem.size <= Limit(NextItem)
          /\ loop' = [loop EXCEPT !.items = Tail(@), !.images = Append(@, NextItem)]
          /\ UNCHANGED <<call, pc>>
    /\ UNCHANGED <<kind, task, attempt, status, row, faults, files, sent, videoVars>>

PinterestItemSent ==
    /\ Returned(Pin, "itemsent")
    /\ loop' = [loop EXCEPT !.items = Tail(@), !.any = @ \/ call.result = "ok"]
    /\ Goto("items")
    /\ UNCHANGED <<status, faults, files, sent, call, videoVars>>

\* Mutant of PinterestAlbum: no album when a video was already sent.
PinterestAlbumUnlessSent ==
    /\ Returned(Pin, "items") /\ loop.items = <<>>
    /\ SendPhotoAlbum(IF loop.any THEN <<>> ELSE loop.images)
    /\ Goto("done")
    /\ UNCHANGED <<status, faults, files, sent, loop, videoVars>>

PinterestAlbum ==
    /\ Returned(Pin, "items") /\ loop.items = <<>>
    /\ SendPhotoAlbum(loop.images)
    /\ Goto("done")
    /\ UNCHANGED <<status, faults, files, sent, loop, videoVars>>

PinterestDone ==
    /\ Returned(Pin, "done")
    /\ IF loop.any \/ (loop.images # <<>> /\ call.result = "ok")
       THEN Complete ELSE Fail("pinterest.all_too_large")
    /\ UNCHANGED <<faults, mediaVars, videoVars>>

PinterestNext ==
    \/ PinterestStart \/ PinterestFailed \/ PinterestDownloaded \/ PinSent
    \/ PinterestItem \/ PinterestItemSent \/ PinterestAlbum \/ PinterestDone
=============================================================================
