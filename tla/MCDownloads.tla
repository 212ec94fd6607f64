----------------------------- MODULE MCDownloads -----------------------------
(* Small instances of Downloads for TLC: two links of one user, or one    *)
(* link of each of two users.                                              *)
EXTENDS Downloads, TLC

CONSTANTS u1, u2, j1, j2

OneUser == {u1}
TwoUsers == {u1, u2}
TwoJobs == {j1, j2}
SameOwner == [j \in Jobs |-> u1]

\* Both jobs take the lock; only the second fails an upload silently.
TwoKinds == j1 :> "tiktok" @@ j2 :> "download"
\* Both jobs take the lock; /clear does not know their task types.
UnlistedKinds == j1 :> "reddit" @@ j2 :> "instagram"
\* Two transcodes picked in the YouTube menus.
VideoKinds == [j \in Jobs |-> "youtube"]

NoBatch == {}
\* The second link came with others in one message.
SecondInBatch == {j2}

DownloadQueue == [j \in Jobs |-> "download"]
TranscodeQueue == [j \in Jobs |-> "transcode"]

\* ClearUserTasks of the main bot gets no queue and falls back to "default";
\* a fleet bot passes the one queue it enqueues on.
MainClear == {"default"}
FleetClear == {"download"}
=============================================================================
