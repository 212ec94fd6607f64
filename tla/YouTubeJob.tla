----------------------------- MODULE YouTubeJob -----------------------------
(* worker/download.go: runYouTubeDownload, runYouTubeAudio, sendVideoResult. *)
EXTENDS Sender, VideoProcessor

YouTube == {"youtube"}

\* The menu keeps its own text on the placeholder.
YouTubeStart ==
    \/ At(YouTube, "start") /\ MkdirTemp("download") /\ UNCHANGED status
    \/ At({"audio"}, "start") /\ MkdirTemp("audio") /\ UNCHANGED status

(***************************************************************************)
(* A format error is tried once more after two seconds with the generic    *)
(* selector, unless the deadline comes first.                              *)
(***************************************************************************)
VideoFound ==
    \/ \E name \in {"webm", "mp4"}, s \in Sizes :
          /\ disk' = [NoDisk EXCEPT ![name] = s] /\ cur' = name
          /\ Goto("ratio") /\ UNCHANGED status
    \/ Fail("errors.not_found") /\ UNCHANGED videoVars   \* no video file

\* Mutant of downloadYouTubeVideo: the generic selector is not the last try.
downloadYouTubeVideoLoops ==
    /\ pc \in {"download", "again"} /\ At(YouTube, pc)
    /\ \/ VideoFound
       \/ /\ Goto(IF pc = "download" THEN "again" ELSE "download")
          /\ UNCHANGED <<status, videoVars>>
    /\ UNCHANGED <<faults, mediaVars>>

downloadYouTubeVideo ==
    /\ \/ At(YouTube, "download")
          /\ \/ VideoFound
             \/ \E e \in Errors :
                   /\ UNCHANGED videoVars
                   /\ \/ IsFormatUnavailableError(e) /\ Goto("again") /\ UNCHANGED status
                      \/ DownloadFailed(e)
       \/ At(YouTube, "again")
          /\ \/ VideoFound
             \/ \E e \in Errors : DownloadFailed(e) /\ UNCHANGED videoVars
    /\ UNCHANGED <<faults, mediaVars>>

\* Only when a ratio was chosen and youtube.transcode_enabled is on.
YouTubeRatio ==
    /\ At(YouTube, "ratio")
    /\ \/ NoFault /\ Untouched /\ Goto("compress") /\ UNCHANGED status
       \/ NoFault /\ (\E s \in Sizes : ApplyAspectRatio(s)) /\ Goto("compress") /\ UNCHANGED status
       \/ Fault /\ Untouched /\ Fail("errors.generic")
    /\ UNCHANGED mediaVars

YouTubeCompress ==
    /\ At(YouTube, "compress")
    /\ CompressIfOversized
    /\ Goto("fit")
    /\ UNCHANGED <<status, mediaVars>>

ensureFitsUpload ==
    /\ At(YouTube, "fit")
    /\ IF EffectiveLimit <= 0 \/ fileSize(cur) <= EffectiveLimit
       THEN NoFault /\ Untouched
       ELSE CompressToFit(EffectiveLimit)
    /\ Goto("send")
    /\ UNCHANGED <<status, mediaVars>>

\* sendVideoResult: refuse or upload; a file that is gone has size 0 and is not refused.
SendVideo(f) ==
    \/ f.size > EffectiveLimit /\ Fail("too_large") /\ UNCHANGED call
    \/ f.size <= EffectiveLimit /\ SendFile(f) /\ Goto("sent") /\ UNCHANGED status

YouTubeSend ==
    /\ At(YouTube, "send")
    /\ SendVideo(Video)
    /\ UNCHANGED <<faults, files, sent, loop, videoVars>>

sendVideoResult ==
    /\ Returned({"youtube", "link", "x"}, "sent")
    /\ IF call.result = "ok" THEN Complete ELSE Fail("errors.generic")
    /\ UNCHANGED <<faults, mediaVars, videoVars>>

(***************************************************************************)
(* The Mp3 button.                                                         *)
(***************************************************************************)
runYouTubeAudio ==
    /\ At({"audio"}, "audio")
    /\ \/ \E s \in Sizes :
             \/ s > EffectiveLimit /\ Fail("too_large") /\ UNCHANGED call
             \/ /\ s <= EffectiveLimit /\ Goto("played") /\ UNCHANGED status
                /\ SendAudio([id |-> 1, type |-> "audio", size |-> s])
       \/ \E e \in Errors : DownloadFailed(e) /\ UNCHANGED call
    /\ UNCHANGED <<faults, files, sent, loop, videoVars>>

AudioSent ==
    /\ Returned({"audio"}, "played")
    /\ IF call.result = "ok" THEN Complete ELSE Fail("errors.generic")
    /\ UNCHANGED <<faults, mediaVars, videoVars>>

YouTubeNext ==
    \/ YouTubeStart \/ downloadYouTubeVideo \/ YouTubeRatio \/ YouTubeCompress
    \/ ensureFitsUpload \/ YouTubeSend \/ sendVideoResult \/ runYouTubeAudio \/ AudioSent
=============================================================================
