--------------------------- MODULE VideoProcessor ---------------------------
(***************************************************************************)
(* internal/video: ffmpeg passes over the downloaded video.  Every pass    *)
(* writes a temporary file next to the source and then swaps it in under   *)
(* the source's base name with the extension mp4, so that a webm source is *)
(* removed before the rename.                                              *)
(***************************************************************************)
EXTENDS Job

Final(name) == IF name = "webm" THEN "mp4" ELSE name

\* fileSize: a path that is not there has size 0.
fileSize(name) == disk[name]

\* The downloaded video as the sender gets it.
Video == [id |-> 1, type |-> "video", size |-> fileSize(cur)]

\* Nothing was written, or what was written is removed again.
Untouched == disk' = disk /\ cur' = cur

(***************************************************************************)
(* The swap after a pass that wrote tmp with size s.  The source is        *)
(* removed when the new name differs (or always), then tmp is renamed.     *)
(* Each of the two can fail; the caller is given the source's path then.   *)
(***************************************************************************)
\* Mutant of SwapIn: the temporary file is removed when the rename fails.
SwapInCleansUp(s, always) ==
    LET removes == always \/ Final(cur) # cur
        gone == IF removes THEN [disk EXCEPT ![cur] = 0] ELSE disk
    IN  \/ NoFault
           /\ disk' = [gone EXCEPT ![Final(cur)] = s]
           /\ cur' = Final(cur)
        \/ Fault /\ removes /\ Untouched
        \/ Fault /\ disk' = gone /\ cur' = cur

SwapIn(s, always) ==
    LET removes == always \/ Final(cur) # cur
        gone == IF removes THEN [disk EXCEPT ![cur] = 0] ELSE disk
    IN  \/ NoFault
           /\ disk' = [gone EXCEPT ![Final(cur)] = s]
           /\ cur' = Final(cur)
        \/ Fault /\ removes /\ Untouched                              \* os.Remove fails
        \/ Fault /\ disk' = [gone EXCEPT !["tmp"] = s] /\ cur' = cur  \* os.Rename fails

\* ffmpeg fails or is killed by its timeout; the temporary file is removed.
EncodeFails == Fault /\ Untouched

(***************************************************************************)
(* CompressIfOversized: short or efficiently encoded videos, and those     *)
(* that cannot be probed, are left alone; it never reports an error.       *)
(***************************************************************************)
CompressIfOversized ==
    \/ NoFault /\ Untouched
    \/ EncodeFails
    \/ fileSize(cur) > 0 /\ \E s \in Sizes : SwapIn(s, FALSE)

(***************************************************************************)
(* CompressToFit: the budget may be too small or the video impossible to   *)
(* measure; a result above the limit is thrown away.                       *)
(***************************************************************************)
CompressToFit(limit) ==
    \/ NoFault /\ Untouched
    \/ EncodeFails
    \/ \E s \in Sizes : s <= limit /\ SwapIn(s, FALSE)

\* MuxAudioFrom and NormalizeSAR remove the source whatever its name.
MuxAudioFrom == EncodeFails \/ SwapIn(fileSize(cur), TRUE)
NormalizeSAR ==
    \/ NoFault /\ Untouched
    \/ EncodeFails
    \/ fileSize(cur) > 0 /\ \E s \in Sizes : SwapIn(s, TRUE)

\* ApplyAspectRatio writes a new file and keeps the source; both encodes may fail.
ApplyAspectRatio(s) == disk' = [disk EXCEPT !["ratio"] = s] /\ cur' = "ratio"
=============================================================================
