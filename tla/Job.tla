-------------------------------- MODULE Job --------------------------------
(***************************************************************************)
(* One download task on a worker (internal/worker): what every platform's  *)
(* run function shares.  Downloads.tla models the locks, queues and        *)
(* cancels around a task; here the task's body runs, one attempt after the *)
(* other, against programs and services that may answer anything.          *)
(*                                                                         *)
(* status is the last edit or deletion of the placeholder message the body *)
(* asked Telegram for and row the download row it asked the database for:  *)
(* the code ignores the result of both calls.                              *)
(***************************************************************************)
EXTENDS Integers, Sequences, FiniteSets

CONSTANTS
    Kinds,          \* the task kinds of this instance
    MaxFaults,      \* bound: calls that fail although they need not, and crashes
    MaxFiles,       \* bound: media items of one post
    Sizes,          \* file sizes, positive numbers
    PlatformLimit,  \* <platform>.max_file_mb
    UploadLimit,    \* global.telegram_upload_limit_mb, 0 = not configured
    DocumentLimit,  \* global.document_limit_mb
    MaxItems,       \* the platforms' max_items settings
    AlbumChunk      \* photos per media group, 10 in the code

AllKinds == {"youtube", "audio", "link", "x", "pinterest", "tiktok",
             "instagram", "reddit", "translate"}

ASSUME JobAssumption ==
    /\ Kinds \subseteq AllKinds
    /\ MaxFaults \in Nat /\ MaxFiles \in Nat \ {0}
    /\ Sizes \subseteq Nat \ {0}
    /\ PlatformLimit \in Nat /\ UploadLimit \in Nat /\ DocumentLimit \in Nat
    /\ MaxItems \in Nat \ {0} /\ AlbumChunk \in Nat \ {0}

VARIABLES
    kind,    \* which handler runs the task
    task,    \* "run", "retry", "done" or "archived"
    attempt, \* 1 or 2
    pc,      \* where the body is
    status,  \* the placeholder message
    row,     \* the download row: "none", "completed", "failed"
    faults,  \* calls that failed so far
    files,   \* what the downloader produced in this attempt
    sent,    \* messages with media in the chat: sequences of item ids
    call,    \* the running call of the sender
    loop,    \* locals of the loops over a post's items
    disk,    \* sizes of the video files of the attempt, 0 = no such file
    cur      \* the path the body works on

jobVars == <<kind, task, attempt, pc, status, row, faults>>
mediaVars == <<files, sent, call, loop>>
videoVars == <<disk, cur>>

MaxRetry == 1

Names == {"webm", "mp4", "ratio", "tmp"}

Idle == [op |-> "idle", todo |-> <<>>, single |-> <<>>, caption |-> FALSE, result |-> "ok"]
NoLoop == [items |-> <<>>, images |-> <<>>, any |-> FALSE, handled |-> 0]
NoDisk == [n \in Names |-> 0]

JobInit ==
    /\ kind \in Kinds
    /\ task = "run" /\ attempt = 1 /\ pc = "start"
    /\ status = IF kind = "translate" THEN "article" ELSE "placeholder"
    /\ row = "none" /\ faults = 0
    /\ files = <<>> /\ sent = <<>> /\ call = Idle /\ loop = NoLoop
    /\ disk = NoDisk /\ cur = "mp4"

(***************************************************************************)
(* A call either works, or it fails and spends one of the faults.          *)
(***************************************************************************)
NoFault == UNCHANGED faults
Fault == faults < MaxFaults /\ faults' = faults + 1

At(k, p) == kind \in k /\ task = "run" /\ pc = p

\* The body goes on.
Goto(p) == pc' = p /\ UNCHANGED <<kind, task, attempt, row>>

\* The body ends with its notice, its row and nil.
Return(outcome, notice) ==
    /\ task' = "done" /\ pc' = "end"
    /\ row' = outcome /\ status' = notice
    /\ UNCHANGED <<kind, attempt>>

Fail(notice) == Return("failed", notice)
Complete == Return("completed", "deleted")

\* Mutant of ReturnError: one attempt too many.
ReturnErrorOnceMore ==
    /\ task' = IF attempt <= MaxRetry + 1 THEN "retry" ELSE "archived"
    /\ pc' = "end"
    /\ UNCHANGED <<kind, attempt, row>>

\* The body returns an error: asynq runs the task again, at most MaxRetry times.
ReturnError ==
    /\ task' = IF attempt <= MaxRetry THEN "retry" ELSE "archived"
    /\ pc' = "end"
    /\ UNCHANGED <<kind, attempt, row>>

(***************************************************************************)
(* yt-dlp's error text, as the set of signatures it contains.  The first   *)
(* one in the order of the switch decides what the user is told and        *)
(* whether the task is worth another attempt.                              *)
(***************************************************************************)
Signatures == {"timeout", "format", "webpage", "gone", "rate", "net"}
Errors == SUBSET Signatures

KeyOrder == << <<{"timeout"}, "download.timeout">>,
               <<{"format", "webpage"}, "errors.format_unavailable">>,
               <<{"gone"}, "errors.not_found">>,
               <<{"rate"}, "errors.rate_limited">>,
               <<{"net"}, "errors.network">> >>

UserFacingErrorKey(e) ==
    LET hits == {i \in DOMAIN KeyOrder : e \cap KeyOrder[i][1] # {}}
    IN  IF hits = {} THEN "errors.generic"
        ELSE KeyOrder[CHOOSE i \in hits : \A j \in hits : i <= j][2]

IsNetworkError(e) == UserFacingErrorKey(e) = "errors.network"
IsTimeoutError(e) == UserFacingErrorKey(e) = "download.timeout"
IsRetryableError(e) == IsNetworkError(e) \/ IsTimeoutError(e)
IsFormatUnavailableError(e) == "format" \in e

\* What run functions do with a download error.
DownloadFailed(e) ==
    \/ IsRetryableError(e) /\ ReturnError /\ UNCHANGED status
    \/ ~IsRetryableError(e) /\ Fail(UserFacingErrorKey(e))

(***************************************************************************)
(* Every body makes its temporary directory first and returns the error    *)
(* when it cannot; most edit the placeholder to "downloading" before that. *)
(***************************************************************************)
MkdirTemp(next) ==
    /\ \/ NoFault /\ Goto(next)
       \/ Fault /\ ReturnError
    /\ UNCHANGED <<mediaVars, videoVars>>

Begin(k, next) ==
    /\ At(k, "start")
    /\ status' = "downloading"
    /\ MkdirTemp(next)

EffectiveLimit ==
    IF UploadLimit > 0 /\ PlatformLimit > UploadLimit THEN UploadLimit ELSE PlatformLimit

(***************************************************************************)
(* The worker process dies, or the task's lease runs out otherwise: asynq  *)
(* treats the task as failed.  What was sent stays sent.                   *)
(***************************************************************************)
Crash ==
    /\ task = "run"
    /\ Fault /\ ReturnError
    /\ UNCHANGED <<status, mediaVars, videoVars>>

\* The second attempt starts with an empty temporary directory.
Again ==
    /\ task = "retry"
    /\ task' = "run" /\ attempt' = attempt + 1 /\ pc' = "start"
    /\ files' = <<>> /\ call' = Idle /\ loop' = NoLoop /\ disk' = NoDisk /\ cur' = "mp4"
    /\ UNCHANGED <<kind, status, row, faults, sent>>
=============================================================================
