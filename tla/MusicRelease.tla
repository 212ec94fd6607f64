---------------------------- MODULE MusicRelease ----------------------------
(***************************************************************************)
(* Album and playlist downloads from Spotify, Yandex Music and SoundCloud: *)
(* the handler that shows the card and enqueues the task, and the worker   *)
(* that downloads and sends one track after the other.  Besides the lock   *)
(* of the user there is a lock per release, a Redis key without an owner,  *)
(* that keeps two workers from downloading the same release at once.       *)
(*                                                                         *)
(* Music tasks are enqueued with MaxRetry(0) and their handlers always     *)
(* return nil: a request is executed at most once.                         *)
(***************************************************************************)
EXTENDS Integers, FiniteSets

CONSTANTS
    Users,
    Requests,   \* links sent; a request is also the token of its user lock
    User,       \* [Requests -> Users]
    Releases,   \* what releaseLockKey tells apart
    Release,    \* [Requests -> Releases]
    Tracks,     \* [Releases -> number of tracks]
    Exempt,     \* requests of the admin, who takes no user lock
    Workers,    \* asynq.Config.Concurrency
    Env,        \* which of EnvEvents may happen
    None

EnvEvents == {"expire", "relexpire", "cancel", "redis", "database", "disk",
              "deadline", "crash"}

ASSUME MusicAssumption ==
    /\ User \in [Requests -> Users]
    /\ Release \in [Requests -> Releases]
    /\ Tracks \in [Releases -> Nat \ {0}]
    /\ Exempt \in SUBSET Requests
    /\ Workers \in Nat \ {0}
    /\ Env \in SUBSET EnvEvents
    /\ None \notin Requests

VARIABLES
    userLock,   \* user_busy:<uid>: a request, or None
    relLock,    \* <platform>:processing:<release> is set
    flag,       \* requests with a cancel key
    tapped,     \* cancel taps that have yet to release the lock
    stage,      \* how far a request is
    index,      \* tracks the worker has gone through
    sent,       \* tracks sent
    late,       \* history: tracks sent after the cancel key was set
    notice,     \* what the status message shows
    record,     \* the row RecordDownload wrote
    broken,     \* requests whose download...Release returned an error
    unsaved,    \* history: requests whose RecordDownload failed
    done,       \* executions whose context is done
    hurt,       \* history: requests disturbed by Redis, a deadline, a crash
    lapsed      \* history: releases whose key ran out its TTL

vars == <<userLock, relLock, flag, tapped, stage, index, sent, late, notice,
          record, broken, unsaved, done, hurt, lapsed>>

Stages == {"idle", "admitted", "posted", "pending", "started", "loop", "fetch",
           "send", "finish", "leave", "unlock", "report", "ended", "refused",
           "lost"}
Notices == {"none", "downloading", "cancelled", "busy", "failed", "gone"}

\* Between TryAcquireReleaseLock and the deferred ReleaseReleaseLock.
Critical(q) == stage[q] \in {"loop", "fetch", "send", "finish", "leave"}
Executing(q) == Critical(q) \/ stage[q] \in {"started", "unlock", "report"}

TypeOK ==
    /\ userLock \in [Users -> Requests \cup {None}]
    /\ relLock \in [Releases -> BOOLEAN]
    /\ flag \in SUBSET Requests
    /\ tapped \in SUBSET Requests
    /\ stage \in [Requests -> Stages]
    /\ index \in [Requests -> Nat]
    /\ \A q \in Requests : index[q] <= Tracks[Release[q]]
    /\ sent \in [Requests -> Nat]
    /\ late \in [Requests -> Nat]
    /\ notice \in [Requests -> Notices]
    /\ record \in [Requests -> {"none", "failed", "completed"}]
    /\ broken \in SUBSET Requests
    /\ unsaved \in SUBSET Requests
    /\ done \in SUBSET Requests
    /\ hurt \in SUBSET Requests
    /\ lapsed \in SUBSET Releases

Init ==
    /\ userLock = [u \in Users |-> None]
    /\ relLock = [k \in Releases |-> FALSE]
    /\ flag = {}
    /\ tapped = {}
    /\ stage = [q \in Requests |-> "idle"]
    /\ index = [q \in Requests |-> 0]
    /\ sent = [q \in Requests |-> 0]
    /\ late = [q \in Requests |-> 0]
    /\ notice = [q \in Requests |-> "none"]
    /\ record = [q \in Requests |-> "none"]
    /\ broken = {}
    /\ unsaved = {}
    /\ done = {}
    /\ hurt = {}
    /\ lapsed = {}

keyVars == <<userLock, relLock, flag, tapped, lapsed>>
trackVars == <<index, sent, late, record, broken, unsaved>>

Goto(q, s) == stage' = [stage EXCEPT ![q] = s]
Show(q, n) == notice' = [notice EXCEPT ![q] = n]

\* ReleaseUserLock compares tokens; the admin has none.
FreeUser(q) ==
    userLock' = IF q \notin Exempt /\ userLock[User[q]] = q
                THEN [userLock EXCEPT ![User[q]] = None] ELSE userLock
-----------------------------------------------------------------------------
(* The bot: handleSpotifyLink, handleYandexMusicLink, handleSoundCloudLink *)

Admit(q) ==
    /\ stage[q] = "idle"
    /\ \/ /\ q \in Exempt
          /\ Goto(q, "admitted")
          /\ UNCHANGED userLock
       \/ /\ q \notin Exempt /\ userLock[User[q]] = None
          /\ userLock' = [userLock EXCEPT ![User[q]] = q]
          /\ Goto(q, "admitted")
       \/ /\ q \notin Exempt /\ (userLock[User[q]] # None \/ "redis" \in Env)
          /\ Goto(q, "refused")
          /\ UNCHANGED userLock
    /\ UNCHANGED <<relLock, flag, tapped, lapsed, notice, trackVars, done, hurt>>

\* Disabled, not configured, not found, nothing to download, or an error of
\* Telegram or of the queue: the lock is given back.
GiveUp(q) ==
    /\ stage[q] \in {"admitted", "posted"}
    /\ FreeUser(q)
    /\ Goto(q, "refused")
    /\ IF stage[q] = "posted" THEN Show(q, "failed") ELSE UNCHANGED notice
    /\ UNCHANGED <<relLock, flag, tapped, lapsed, trackVars, done, hurt>>

\* The card and the status message are sent, then the task is enqueued.
Post(q) ==
    /\ stage[q] = "admitted"
    /\ Goto(q, "posted")
    /\ Show(q, "downloading")
    /\ UNCHANGED <<keyVars, trackVars, done, hurt>>

Enqueue(q) ==
    /\ stage[q] = "posted"
    /\ Goto(q, "pending")
    /\ UNCHANGED <<keyVars, notice, trackVars, done, hurt>>

\* onCancelDownload, in its two Redis commands.
CancelFlag(q) ==
    /\ "cancel" \in Env
    /\ q \notin Exempt /\ notice[q] = "downloading"
    /\ flag' = flag \cup {q}
    /\ tapped' = tapped \cup {q}
    /\ UNCHANGED <<userLock, relLock, lapsed, stage, notice, trackVars, done, hurt>>

CancelRelease(q) ==
    /\ q \in tapped
    /\ tapped' = tapped \ {q}
    /\ FreeUser(q)
    /\ Show(q, "cancelled") \/ (notice[q] # "downloading" /\ UNCHANGED notice)
    /\ UNCHANGED <<relLock, flag, lapsed, stage, trackVars, done, hurt>>
-----------------------------------------------------------------------------
(* The worker: runMusicDownload and the three download...Release loops.    *)

Dequeue(q) ==
    /\ stage[q] = "pending"
    /\ Cardinality({p \in Requests : Executing(p) /\ p \notin done}) < Workers
    /\ Goto(q, "started")
    /\ UNCHANGED <<keyVars, notice, trackVars, done, hurt>>

\* A command the request issues fails: Redis is away or its context is done.
RedisFails(q) == "redis" \in Env \/ q \in done

\* Mutant: an error of SETNX counts as won.
TryAcquireFailsOpen(q) ==
    /\ stage[q] = "started"
    /\ \/ /\ ~relLock[Release[q]] \/ RedisFails(q)
          /\ relLock' = [relLock EXCEPT ![Release[q]] = TRUE]
          /\ Goto(q, "loop") /\ Show(q, "downloading")
       \/ /\ relLock[Release[q]]
          /\ Goto(q, "unlock") /\ Show(q, "busy") /\ UNCHANGED relLock
    /\ UNCHANGED <<userLock, flag, tapped, lapsed, trackVars, done, hurt>>

\* Mutant: the busy branch returns without releasing the user's lock.
TryAcquireKeepsUser(q) ==
    /\ stage[q] = "started"
    /\ IF relLock[Release[q]]
       THEN Goto(q, "ended") /\ Show(q, "busy") /\ UNCHANGED relLock
       ELSE /\ relLock' = [relLock EXCEPT ![Release[q]] = TRUE]
            /\ Goto(q, "loop") /\ Show(q, "downloading")
    /\ UNCHANGED <<userLock, flag, tapped, lapsed, trackVars, done, hurt>>

\* SETNX on the release key.  An error counts as busy, also where the key was
\* set and only the reply got lost.  A payload that does not decode and a
\* directory that cannot be made end the request before its first track.
TryAcquireReleaseLock(q) ==
    /\ stage[q] = "started"
    /\ \/ /\ ~relLock[Release[q]] /\ q \notin done
          /\ relLock' = [relLock EXCEPT ![Release[q]] = TRUE]
          /\ \/ Goto(q, "loop") /\ UNCHANGED broken
             \/ "disk" \in Env /\ Goto(q, "leave") /\ broken' = broken \cup {q}
          /\ Show(q, "downloading")
          /\ UNCHANGED hurt
       \/ /\ relLock[Release[q]] \/ RedisFails(q)
          /\ Goto(q, "unlock")
          /\ Show(q, "busy")
          /\ UNCHANGED <<relLock, broken, hurt>>
       \/ /\ ~relLock[Release[q]] /\ "redis" \in Env
          /\ relLock' = [relLock EXCEPT ![Release[q]] = TRUE]
          /\ hurt' = hurt \cup {q}
          /\ Goto(q, "unlock")
          /\ Show(q, "busy")
          /\ UNCHANGED broken
    /\ UNCHANGED <<userLock, flag, tapped, lapsed, index, sent, late, record, unsaved, done>>

\* Mutant: the flag is read before the first track only.
NextTrackChecksOnce(q) ==
    /\ stage[q] = "loop"
    /\ IF index[q] = Tracks[Release[q]] THEN Goto(q, "finish") /\ UNCHANGED notice
       ELSE IF index[q] = 0 /\ q \in flag THEN Goto(q, "leave") /\ Show(q, "cancelled")
       ELSE Goto(q, "fetch") /\ Show(q, "downloading")
    /\ UNCHANGED <<keyVars, trackVars, done, hurt>>

\* Mutant: the cancelled branch forgets the release key.
NextTrackLeaksKey(q) ==
    /\ stage[q] = "loop"
    /\ IF index[q] = Tracks[Release[q]] THEN Goto(q, "finish") /\ UNCHANGED notice
       ELSE IF q \in flag THEN Goto(q, "unlock") /\ Show(q, "cancelled")
       ELSE Goto(q, "fetch") /\ Show(q, "downloading")
    /\ UNCHANGED <<keyVars, trackVars, done, hurt>>

\* The top of the loop.  An error reads as "not cancelled".
NextTrack(q) ==
    /\ stage[q] = "loop"
    /\ \/ /\ index[q] = Tracks[Release[q]]
          /\ Goto(q, "finish")
          /\ UNCHANGED <<notice, hurt>>
       \/ /\ index[q] < Tracks[Release[q]]
          /\ q \in flag /\ q \notin done
          /\ Goto(q, "leave")
          /\ Show(q, "cancelled")
          /\ UNCHANGED hurt
       \/ /\ index[q] < Tracks[Release[q]]
          /\ q \notin flag \/ RedisFails(q)
          /\ hurt' = IF q \in flag THEN hurt \cup {q} ELSE hurt
          /\ Goto(q, "fetch")
          /\ Show(q, "downloading")
    /\ UNCHANGED <<keyVars, trackVars, done>>

\* A track that cannot be downloaded is skipped.
FetchTrack(q) ==
    /\ stage[q] = "fetch"
    /\ \/ /\ q \notin done
          /\ Goto(q, "send")
          /\ UNCHANGED index
       \/ /\ Goto(q, "loop")
          /\ index' = [index EXCEPT ![q] = @ + 1]
    /\ UNCHANGED <<keyVars, notice, sent, late, record, broken, unsaved, done, hurt>>

\* So is one that cannot be sent.
SendTrack(q) ==
    /\ stage[q] = "send"
    /\ Goto(q, "loop")
    /\ index' = [index EXCEPT ![q] = @ + 1]
    /\ \/ /\ sent' = [sent EXCEPT ![q] = @ + 1]
          /\ late' = IF q \in flag THEN [late EXCEPT ![q] = @ + 1] ELSE late
       \/ UNCHANGED <<sent, late>>
    /\ UNCHANGED <<keyVars, notice, record, broken, unsaved, done, hurt>>

\* Mutant: a release whose tracks were all skipped counts as completed.
FinishCompleted(q) ==
    /\ stage[q] = "finish"
    /\ Show(q, "gone")
    /\ record' = [record EXCEPT ![q] = "completed"]
    /\ Goto(q, "leave")
    /\ UNCHANGED <<keyVars, index, sent, late, broken, unsaved, done, hurt>>

\* finishMusicDownload; RecordDownload runs under the task's context, and its
\* error is ignored.
Finish(q) ==
    /\ stage[q] = "finish"
    /\ Show(q, IF sent[q] = 0 THEN "failed" ELSE "gone")
    /\ \/ /\ q \notin done
          /\ record' = [record EXCEPT ![q] = IF sent[q] = 0 THEN "failed"
                                             ELSE "completed"]
          /\ UNCHANGED unsaved
       \/ /\ q \in done \/ "database" \in Env
          /\ unsaved' = unsaved \cup {q}
          /\ UNCHANGED record
    /\ Goto(q, "leave")
    /\ UNCHANGED <<keyVars, index, sent, late, broken, done, hurt>>

\* ReleaseReleaseLock: a DEL, even of a key another worker has set since.
ReleaseReleaseLock(q) ==
    /\ stage[q] = "leave"
    /\ Goto(q, "unlock")
    /\ \/ /\ q \notin done
          /\ relLock' = [relLock EXCEPT ![Release[q]] = FALSE]
          /\ UNCHANGED hurt
       \/ /\ RedisFails(q)
          /\ hurt' = hurt \cup {q}
          /\ UNCHANGED relLock
    /\ UNCHANGED <<userLock, flag, tapped, lapsed, notice, trackVars, done>>

\* releaseMusicUserLock and the return of runMusicDownload.
Return(q) ==
    /\ stage[q] = "unlock"
    /\ Goto(q, IF q \in broken THEN "report" ELSE "ended")
    /\ \/ q \notin done /\ FreeUser(q) /\ UNCHANGED hurt
       \/ RedisFails(q) /\ hurt' = hurt \cup {q} /\ UNCHANGED userLock
    /\ UNCHANGED <<relLock, flag, tapped, lapsed, notice, trackVars, done>>

\* The handler tells the user of the error; it writes no row.
Report(q) ==
    /\ stage[q] = "report"
    /\ Goto(q, "ended")
    /\ Show(q, "failed")
    /\ UNCHANGED <<keyVars, trackVars, done, hurt>>
-----------------------------------------------------------------------------
\* asynq.Timeout, or CancelProcessing by /clear: the goroutine runs on.
CtxDone(q) ==
    /\ "deadline" \in Env
    /\ Executing(q) /\ q \notin done
    /\ done' = done \cup {q}
    /\ hurt' = hurt \cup {q}
    /\ UNCHANGED <<keyVars, stage, notice, trackVars>>

\* The worker process dies: nothing is executed twice, no key is deleted.
Crash ==
    /\ "crash" \in Env
    /\ \E q \in Requests : Executing(q)
    /\ stage' = [q \in Requests |-> IF Executing(q) THEN "lost" ELSE stage[q]]
    /\ hurt' = hurt \cup {q \in Requests : Executing(q)}
    /\ UNCHANGED <<keyVars, notice, trackVars, done>>

ExpireUser(u) ==
    /\ "expire" \in Env
    /\ userLock[u] # None
    /\ userLock' = [userLock EXCEPT ![u] = None]
    /\ UNCHANGED <<relLock, flag, tapped, lapsed, stage, notice, trackVars, done, hurt>>

\* releaseLockTTL counts the download timeouts of the tracks, not the uploads,
\* nor the timeouts the admin can raise at run time.
ExpireRelease(k) ==
    /\ "relexpire" \in Env
    /\ relLock[k]
    /\ relLock' = [relLock EXCEPT ![k] = FALSE]
    /\ lapsed' = lapsed \cup {k}
    /\ UNCHANGED <<userLock, flag, tapped, stage, notice, trackVars, done, hurt>>
-----------------------------------------------------------------------------
BotStep(q) == GiveUp(q) \/ Post(q) \/ Enqueue(q) \/ CancelRelease(q)
WorkerStep(q) == \/ TryAcquireReleaseLock(q) \/ NextTrack(q) \/ FetchTrack(q)
                 \/ SendTrack(q) \/ Finish(q) \/ ReleaseReleaseLock(q) \/ Return(q)
                 \/ Report(q)

RequestStep(q) == \/ Admit(q) \/ BotStep(q) \/ CancelFlag(q) \/ Dequeue(q)
                  \/ WorkerStep(q) \/ CtxDone(q)

Next == \/ \E q \in Requests : RequestStep(q)
        \/ \E u \in Users : ExpireUser(u)
        \/ \E k \in Releases : ExpireRelease(k)
        \/ Crash

Spec == Init /\ [][Next]_vars

\* The goroutines of the bot and of the worker, and asynq's dequeuing, go on.
Fairness == \A q \in Requests : /\ WF_vars(BotStep(q)) /\ WF_vars(Dequeue(q))
                                /\ WF_vars(WorkerStep(q))
FairSpec == Spec /\ Fairness
-----------------------------------------------------------------------------
\* Two workers download the same release at once only after its key ran out
\* its TTL: the busy branch returns before the deferred DEL is registered, so
\* a refused worker never frees the key of the one at work.
OneDownloadPerRelease ==
    \A p, q \in Requests :
        Critical(p) /\ Critical(q) /\ Release[p] = Release[q]
            => p = q \/ Release[q] \in lapsed

\* After the cancel button at most the track at hand still arrives.
CancelStopsAlbum == \A q \in Requests : q \notin hurt => late[q] <= 1

\* A key that is set belongs to a worker that will delete it, unless one of the
\* workers of that release was disturbed; later links to it are not refused.
ReleaseNotLeaked ==
    \A k \in Releases : relLock[k] =>
        \E q \in Requests : Release[q] = k /\ (Critical(q) \/ q \in hurt)

\* The history of downloads, the tracks in the chat and the status message tell
\* the same story: a failure is reported only where no track arrived, and where
\* the status is gone tracks arrived and their row is there, unless the insert
\* itself failed.  Refusals, cancels and errors before the first track write none.
RecordMatchesChat ==
    \A q \in Requests : stage[q] = "ended" /\ q \notin hurt =>
        /\ notice[q] \in {"gone", "failed", "busy", "cancelled"}
        /\ record[q] = "completed" => sent[q] > 0 /\ notice[q] \in {"gone", "cancelled"}
        /\ record[q] = "failed" => sent[q] = 0 /\ notice[q] \in {"failed", "cancelled"}
        /\ notice[q] = "gone" => record[q] = "completed" \/ (q \in unsaved /\ sent[q] > 0)
        /\ notice[q] \in {"failed", "busy"} => sent[q] = 0

\* Every queued request is answered and, unless disturbed, gives the user's
\* lock back without waiting for its TTL.
RequestsEnd ==
    \A q \in Requests : stage[q] = "pending"
        ~> \/ q \in hurt
           \/ /\ stage[q] = "ended" /\ userLock[User[q]] # q
              /\ notice[q] # "downloading"
-----------------------------------------------------------------------------
(* The inductive invariant.                                                *)

\* A worker inside holds the key as long as the TTL leaves it alone.
HoldsKey == \A q \in Requests : Critical(q) => relLock[Release[q]]
                                               \/ Release[q] \in lapsed
\* A late track was the one at hand when the flag came up.
LateIsFlagged ==
    \A q \in Requests :
        /\ late[q] > 0 => q \in flag
        /\ stage[q] \in {"fetch", "send"} /\ q \notin hurt => late[q] = 0

\* The track at hand is one of the release.
TrackAtHand ==
    \A q \in Requests : stage[q] \in {"fetch", "send"}
                          => index[q] < Tracks[Release[q]]

IInv == TypeOK /\ TrackAtHand /\ HoldsKey /\ OneDownloadPerRelease /\ LateIsFlagged
            /\ CancelStopsAlbum
=============================================================================
