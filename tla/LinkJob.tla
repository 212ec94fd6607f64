------------------------------ MODULE LinkJob ------------------------------
(***************************************************************************)
(* worker/download.go runDownload: any link yt-dlp understands, and posts  *)
(* on X, whose photos come from the public mirrors (internal/xphotos) when *)
(* yt-dlp finds no video.                                                  *)
(***************************************************************************)
EXTENDS YouTubeJob

Link == {"link", "x"}

\* Photos and videos a post may hold, in the order of their names on disk.
Posts(types) ==
    UNION {{[i \in 1..n |-> [id |-> i, type |-> f[i][1], size |-> f[i][2]]]
            : f \in [1..n -> types \X Sizes]} : n \in 0..MaxFiles}

\* A loop that appends the items at the positions P (SelectSeq, written so that
\* TLAPS can look inside).
Picked(s, P) ==
    LET picked[n \in 0..Len(s)] ==
            CASE n = 0 -> <<>>
              [] n # 0 /\ n \in P -> Append(picked[n - 1], s[n])
              [] OTHER -> picked[n - 1]
    IN  picked[Len(s)]

OfType(fs, type) == Picked(fs, {i \in DOMAIN fs : fs[i].type = type})

\* The first of the largest videos.
LargestVideo(vs) ==
    vs[CHOOSE i \in DOMAIN vs : \A j \in DOMAIN vs :
          vs[i].size > vs[j].size \/ (vs[i].size = vs[j].size /\ i <= j)]

LinkStart == Begin(Link, "download")

\* Nothing usable on disk: X posts may still have photos.
NoMedia(notice) ==
    \/ kind = "x" /\ Goto("photos") /\ UNCHANGED status
    \/ kind # "x" /\ Fail(notice)

LinkFailed ==
    /\ At(Link, "download")
    /\ \E e \in Errors :
          \/ kind = "x" /\ Goto("photos") /\ UNCHANGED status
          \/ kind # "x" /\ DownloadFailed(e)
    /\ UNCHANGED <<faults, mediaVars, videoVars>>

LinkDownloaded ==
    /\ At(Link, "download")
    /\ \E fs \in Posts({"image", "video"}) :
          LET videos == OfType(fs, "video")
              images == OfType(fs, "image")
          IN  /\ files' = fs
              /\ \/ fs = <<>> /\ NoMedia("errors.not_found") /\ UNCHANGED call
                 \/ /\ videos = <<>> /\ images # <<>>
                    /\ SendPhotoAlbum(images) /\ Goto("album") /\ UNCHANGED status
                 \/ videos # <<>> /\ SendVideo(LargestVideo(videos))
    /\ UNCHANGED <<faults, sent, loop, videoVars>>

\* The placeholder goes away whether or not the album arrived.
LinkAlbumSent ==
    /\ Returned(Link, "album")
    /\ Return(IF call.result = "ok" THEN "completed" ELSE "failed", "deleted")
    /\ UNCHANGED <<faults, mediaVars, videoVars>>

(***************************************************************************)
(* The mirrors fxtwitter and vxtwitter: a tweet with its text (or author), *)
(* its photos and perhaps the tweet it replies to; an error counts like an *)
(* empty tweet.                                                            *)
(***************************************************************************)
NotFound == [text |-> FALSE, photos |-> 0, reply |-> FALSE]

\* fxtwitter lists photos and all media: the photos of the second list count
\* only when the first has none.
parseFxTwitter ==
    {[text |-> t, photos |-> IF ps > 0 THEN ps ELSE all, reply |-> r]
        : t, r \in BOOLEAN, ps, all \in 0..MaxFiles}

\* vxtwitter lists media twice as well: what is new in the second is added.
parseVxTwitter ==
    {[text |-> t, photos |-> ps + new, reply |-> r]
        : t, r \in BOOLEAN, ps, new \in 0..(MaxFiles \div 2)}

fetchFromAPI(parsed) == parsed \cup {NotFound}

\* The first mirror with a useful answer.
Useful(a) == a.text \/ a.photos > 0
fetchTweet(fx, vx) ==
    CASE Useful(fx) -> fx
      [] ~Useful(fx) /\ Useful(vx) -> vx
      [] OTHER -> NotFound

\* A reply without photos borrows those of its parent, one hop only.
fetchPhotoURLs(tweet, parent) ==
    IF tweet.photos = 0 /\ tweet.reply THEN parent.photos ELSE tweet.photos

Tweets == {fetchTweet(fx, vx) : fx \in fetchFromAPI(parseFxTwitter), vx \in fetchFromAPI(parseVxTwitter)}

Least(a, b) == IF a < b THEN a ELSE b

\* The size of the file a photo leaves: 0 when the request fails or is empty.
downloadImage == {0, 1}

\* Photos that cannot be fetched are left out of the album.
DownloadPhotos(n) ==
    {Picked([i \in DOMAIN f |-> [id |-> i, type |-> "image", size |-> f[i]]],
          {i \in DOMAIN f : f[i] > 0}) : f \in [1..Least(n, MaxItems) -> downloadImage]}

runXPhotos ==
    /\ At({"x"}, "photos")
    /\ \E tweet, parent \in Tweets :
          LET n == fetchPhotoURLs(tweet, parent)
          IN  \/ n = 0 /\ Fail("x.text_only") /\ UNCHANGED <<files, call>>
              \/ n > 0 /\ \E ps \in DownloadPhotos(n) :
                    /\ files' = ps
                    /\ \/ ps = <<>> /\ Fail("errors.generic") /\ UNCHANGED call
                       \/ /\ ps # <<>> /\ SendPhotoAlbum(ps)
                          /\ Goto("xalbum") /\ UNCHANGED status
    /\ UNCHANGED <<faults, sent, loop, videoVars>>

XAlbumSent ==
    /\ Returned({"x"}, "xalbum")
    /\ IF call.result = "ok" THEN Complete ELSE Fail("errors.generic")
    /\ UNCHANGED <<faults, mediaVars, videoVars>>

LinkNext ==
    \/ LinkStart \/ LinkFailed \/ LinkDownloaded \/ LinkAlbumSent \/ runXPhotos \/ XAlbumSent
=============================================================================
