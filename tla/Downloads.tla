------------------------------ MODULE Downloads ------------------------------
(***************************************************************************)
(* The life of a download job: the per-user busy lock in Redis, the bot    *)
(* handler that takes it and enqueues an asynq task, the worker that runs  *)
(* the task and releases the lock, the cancel button and the /clear        *)
(* command.  A job is one link of one message; the token of the lock a job *)
(* takes is a fresh uuid, so the job itself stands for its token.          *)
(*                                                                         *)
(* A Redis command, a Telegram request and an asynq state change are each  *)
(* one step; the handlers of different updates, the workers and asynq's    *)
(* own goroutines interleave freely.                                       *)
(***************************************************************************)
EXTENDS Integers, FiniteSets

CONSTANTS
    Users,          \* Telegram users
    Jobs,           \* links sent, each once
    Owner,          \* [Jobs -> Users]
    Kind,           \* [Jobs -> Kinds], the handler that runs the job
    Batch,          \* jobs of multi-link messages and of the admin
    Queue,          \* [Jobs -> queue names], chosen at enqueue time
    ClearedQueues,  \* the queues /clear passes to ClearUserTasks
    Concurrency,    \* asynq.Config.Concurrency
    PageSize,       \* tasks of a queue the inspector lists (asynq: 30)
    MaxStops,       \* bound: how often the worker process stops
    Env,            \* which of EnvEvents may happen
    None            \* no lock

\* What the environment and the users may do besides sending links.
EnvEvents == {"expire", "forget", "cancel", "clear", "deadline", "redis",
              "telegram", "shutdown", "crash", "botcrash"}

Kinds == {"download", "tiktok", "pinterest", "instagram", "reddit", "youtube"}

ASSUME DownloadsAssumption ==
    /\ Owner \in [Jobs -> Users]
    /\ Kind \in [Jobs -> Kinds]
    /\ Batch \in SUBSET Jobs
    /\ Concurrency \in Nat \ {0}
    /\ PageSize \in Nat \ {0}
    /\ MaxStops \in Nat
    /\ Env \in SUBSET EnvEvents
    /\ None \notin Jobs

\* Every download task is enqueued with asynq.MaxRetry(1).
MaxRetry == 1
Attempts == 0..MaxRetry

\* shouldAcquireUserLock; the YouTube flow never takes the lock.
TakesLock(j) == Kind[j] # "youtube" /\ j \notin Batch

\* userTaskTypes: the task types /clear recognises as a user's.
UserTask(j) == Kind[j] \notin {"instagram", "reddit"}

\* Handlers that may answer a failed upload by deleting the placeholder.
SilentFailure(j) == Kind[j] \in {"download", "instagram"}

VARIABLES
    lock,       \* user_busy:<uid>, the job whose token is stored, or None
    flag,       \* download:cancel:<scene>:<uid>:<token>
    tapped,     \* cancel taps between SetDownloadCancelled and the release
    task,       \* where the job is: handler, asynq queue state, or ended
    retried,    \* asynq's retry count, also the number of the attempt
    exec,       \* the handler goroutine of each attempt
    dead,       \* attempts whose context is done
    killreq,    \* CancelProcessing published, not yet acted upon
    notice,     \* what the placeholder message shows
    delivered,  \* how many times the media was sent
    clr,        \* progress of each user's /clear
    cleared,    \* whether that /clear found something to clear
    refs,       \* the lock references it collected
    snap,       \* history: what stayed pending since it began
    missed,     \* history: what it did not list or failed to delete
    stops,      \* worker stops so far
    hurt,       \* history: jobs whose execution was disturbed
    lapsed,     \* history: jobs whose lock entry was given up
    raced       \* history: attempts past the cancel check when cancelled

vars == <<lock, flag, tapped, task, retried, exec, dead, killreq, notice,
          delivered, clr, cleared, refs, snap, missed, stops, hurt, lapsed,
          raced>>

redisVars == <<lock, flag, tapped, lapsed, raced>>
clearVars == <<clr, cleared, refs, snap, missed>>
workerVars == <<retried, exec, dead, killreq, delivered, stops>>

TaskStates == {"idle", "admitted", "posted", "pending", "active", "retry",
               "completed", "archived", "deleted", "refused", "lost"}
Phases == {"none", "started", "checked", "fetching", "fetched", "sent",
           "retnil", "reterr", "nil", "err"}
Notices == {"none", "downloading", "cancelled", "error", "gone"}
ClearSteps == {"idle", "seen", "freed", "active", "pending", "retry", "done",
               "failed"}

\* A job some handler, queue or worker still has to work on.
Live(j) == task[j] \in {"admitted", "posted", "pending", "active", "retry"}
InBody(j, r) == exec[j][r] \in {"checked", "fetching", "fetched", "sent"}
Running(j) == task[j] = "active" /\ exec[j][retried[j]] # "none"

TypeOK ==
    /\ lock \in [Users -> Jobs \cup {None}]
    /\ flag \in [Jobs -> BOOLEAN]
    /\ tapped \in SUBSET Jobs
    /\ task \in [Jobs -> TaskStates]
    /\ retried \in [Jobs -> Attempts]
    /\ exec \in [Jobs -> [Attempts -> Phases]]
    /\ dead \in [Jobs -> SUBSET Attempts]
    /\ killreq \in SUBSET Jobs
    /\ notice \in [Jobs -> Notices]
    /\ delivered \in [Jobs -> Nat]
    /\ clr \in [Users -> ClearSteps]
    /\ cleared \in [Users -> BOOLEAN]
    /\ refs \in [Users -> SUBSET Jobs]
    /\ snap \in [Users -> SUBSET Jobs]
    /\ missed \in SUBSET Jobs
    /\ stops \in Nat
    /\ hurt \in SUBSET Jobs
    /\ lapsed \in SUBSET Jobs
    /\ raced \in [Jobs -> SUBSET Attempts]

Init ==
    /\ lock = [u \in Users |-> None]
    /\ flag = [j \in Jobs |-> FALSE]
    /\ tapped = {}
    /\ task = [j \in Jobs |-> "idle"]
    /\ retried = [j \in Jobs |-> 0]
    /\ exec = [j \in Jobs |-> [r \in Attempts |-> "none"]]
    /\ dead = [j \in Jobs |-> {}]
    /\ killreq = {}
    /\ notice = [j \in Jobs |-> "none"]
    /\ delivered = [j \in Jobs |-> 0]
    /\ clr = [u \in Users |-> "idle"]
    /\ cleared = [u \in Users |-> FALSE]
    /\ refs = [u \in Users |-> {}]
    /\ snap = [u \in Users |-> {}]
    /\ missed = {}
    /\ stops = 0
    /\ hurt = {}
    /\ lapsed = {}
    /\ raced = [j \in Jobs |-> {}]
-----------------------------------------------------------------------------
(* The Redis commands of redisx/client.go, as the handlers use them.       *)

\* AcquireUserLock: SETNX.
AcquireUserLock(j) ==
    /\ lock[Owner[j]] = None
    /\ lock' = [lock EXCEPT ![Owner[j]] = j]

\* Mutant: a plain DEL instead of the compare-and-delete script.
ReleaseUserLockDel(j) ==
    /\ lock' = [lock EXCEPT ![Owner[j]] = None]
    /\ lapsed' = lapsed \cup {j}

\* ReleaseUserLock: the compare-and-delete script.
ReleaseUserLock(j) ==
    /\ lock' = IF lock[Owner[j]] = j THEN [lock EXCEPT ![Owner[j]] = None]
               ELSE lock
    /\ lapsed' = lapsed \cup {j}

\* The jobs of S are marked cancelled; what is already past its check races.
SetDownloadCancelled(S) ==
    /\ flag' = [j \in Jobs |-> j \in S \/ flag[j]]
    /\ raced' = [j \in Jobs |->
                    IF j \in S THEN raced[j] \cup {r \in Attempts : InBody(j, r)}
                    ELSE raced[j]]

\* The lock and cancel keys run out their TTL.  lockTTL does not cover the
\* time a task waits in its queue, so a lock can expire under a live job.
ExpireLock(u) ==
    /\ "expire" \in Env
    /\ lock[u] # None
    /\ lock' = [lock EXCEPT ![u] = None]
    /\ lapsed' = lapsed \cup {lock[u]}
    /\ UNCHANGED <<flag, tapped, task, notice, clearVars, hurt, raced, workerVars>>

ExpireCancel(j) ==
    /\ "forget" \in Env
    /\ flag[j]
    /\ flag' = [flag EXCEPT ![j] = FALSE]
    /\ UNCHANGED <<lock, tapped, lapsed, raced, task, notice, clearVars, hurt,
                   workerVars>>
-----------------------------------------------------------------------------
(* The bot: enqueue(), one step per request it makes.                      *)

Admit(j) ==
    /\ task[j] = "idle"
    /\ \/ /\ TakesLock(j)
          /\ \/ AcquireUserLock(j) /\ task' = [task EXCEPT ![j] = "admitted"]
             \/ /\ lock[Owner[j]] # None \/ "redis" \in Env
                /\ task' = [task EXCEPT ![j] = "refused"]
                /\ UNCHANGED lock
       \/ /\ ~TakesLock(j)
          /\ task' = [task EXCEPT ![j] = "admitted"]
          /\ UNCHANGED lock
    /\ UNCHANGED <<flag, tapped, lapsed, raced, notice, clearVars, hurt, workerVars>>

\* Mutant: the error path returns without releasing the lock.
GiveUpKeepsLock(j) ==
    /\ task' = [task EXCEPT ![j] = "refused"]
    /\ UNCHANGED <<redisVars, notice, clearVars, hurt, workerVars>>

\* An error of SendMessage or Enqueue gives the lock back.
GiveUp(j) ==
    /\ task' = [task EXCEPT ![j] = "refused"]
    /\ IF TakesLock(j) THEN ReleaseUserLock(j) ELSE UNCHANGED <<lock, lapsed>>
    /\ UNCHANGED <<flag, tapped, raced, notice, clearVars, hurt, workerVars>>

PostStatus(j) ==
    /\ task[j] = "admitted"
    /\ \/ /\ task' = [task EXCEPT ![j] = "posted"]
          /\ notice' = [notice EXCEPT ![j] = "downloading"]
          /\ UNCHANGED <<redisVars, clearVars, hurt, workerVars>>
       \/ GiveUp(j)

Submit(j) ==
    /\ task[j] = "posted"
    /\ \/ /\ task' = [task EXCEPT ![j] = "pending"]
          /\ UNCHANGED <<redisVars, notice, clearVars, hurt, workerVars>>
       \/ GiveUp(j)

\* The bot process dies in the middle of enqueue().
BotCrash(j) ==
    /\ "botcrash" \in Env
    /\ task[j] \in {"admitted", "posted"}
    /\ task' = [task EXCEPT ![j] = "lost"]
    /\ hurt' = hurt \cup {j}
    /\ UNCHANGED <<redisVars, notice, clearVars, workerVars>>
-----------------------------------------------------------------------------
(* The cancel button, on the placeholder or on the queue screen; the       *)
(* screen's keyboard outlives the job.                                     *)

CancelFlag(j) ==
    /\ "cancel" \in Env
    /\ TakesLock(j)
    /\ lock[Owner[j]] = j \/ notice[j] # "none"
    /\ SetDownloadCancelled({j})
    /\ tapped' = tapped \cup {j}
    /\ UNCHANGED <<lock, lapsed, task, notice, clearVars, hurt, workerVars>>

CancelRelease(j) ==
    /\ j \in tapped
    /\ tapped' = tapped \ {j}
    /\ ReleaseUserLock(j)
    /\ \/ notice[j] = "downloading" /\ notice' = [notice EXCEPT ![j] = "cancelled"]
       \/ UNCHANGED notice
    /\ UNCHANGED <<flag, raced, task, clearVars, hurt, workerVars>>
-----------------------------------------------------------------------------
(* asynq, as the worker process configures it.                             *)

\* The server takes a pending task; the handler goroutine starts.
Dequeue(j) ==
    /\ task[j] = "pending"
    /\ Cardinality({k \in Jobs : Running(k)}) < Concurrency
    /\ task' = [task EXCEPT ![j] = "active"]
    /\ exec' = [exec EXCEPT ![j][retried[j]] = "started"]
    /\ snap' = [u \in Users |-> snap[u] \ {j}]
    /\ UNCHANGED <<redisVars, retried, dead, killreq, notice, delivered, stops,
                   hurt, clr, cleared, refs, missed>>

\* Mutant: one retry too many.
FailTaskOnceMore(j) ==
    /\ task' = [task EXCEPT ![j] = "retry"]
    /\ retried' = [retried EXCEPT ![j] = @ + 1]

\* A failed task is retried once, then archived.
FailTask(j) ==
    \/ /\ retried[j] < MaxRetry
       /\ task' = [task EXCEPT ![j] = "retry"]
       /\ retried' = [retried EXCEPT ![j] = @ + 1]
    \/ /\ retried[j] = MaxRetry
       /\ task' = [task EXCEPT ![j] = "archived"]
       /\ UNCHANGED retried

\* The retry delay is over.
Forward(j) ==
    /\ task[j] = "retry"
    /\ task' = [task EXCEPT ![j] = "pending"]
    /\ UNCHANGED <<redisVars, notice, clearVars, hurt, workerVars>>

\* The result of the handler reaches the server, unless the server has
\* already given the attempt up.
Settle(j, r) ==
    /\ exec[j][r] \in {"nil", "err"}
    /\ exec' = [exec EXCEPT ![j][r] = "none"]
    /\ \/ /\ r \in dead[j]
          /\ UNCHANGED <<task, retried, killreq>>
       \/ /\ r \notin dead[j]
          /\ killreq' = killreq \ {j}
          /\ \/ /\ exec[j][r] = "nil"
                /\ task' = [task EXCEPT ![j] = "completed"]
                /\ UNCHANGED retried
             \/ exec[j][r] = "err" /\ FailTask(j)
    /\ UNCHANGED <<redisVars, dead, notice, delivered, clearVars, stops, hurt>>

\* asynq.Timeout passes, or CancelProcessing arrives: the context is done and
\* the task failed at once, while the handler goroutine runs on.
CtxDone(j) ==
    /\ "deadline" \in Env \/ j \in killreq
    /\ Running(j)
    /\ dead' = [dead EXCEPT ![j] = @ \cup {retried[j]}]
    /\ killreq' = killreq \ {j}
    /\ hurt' = hurt \cup {j}
    /\ FailTask(j)
    /\ UNCHANGED <<redisVars, exec, notice, delivered, clearVars, stops>>

\* Every goroutine of the worker process is gone.
KillWorkers ==
    /\ stops < MaxStops
    /\ stops' = stops + 1
    /\ exec' = [j \in Jobs |-> [r \in Attempts |-> "none"]]
    /\ dead' = [j \in Jobs |-> {}]
    /\ raced' = [j \in Jobs |-> {}]
    /\ killreq' = {}
    /\ hurt' = hurt \cup {j \in Jobs : \E r \in Attempts : exec[j][r] # "none"}
    /\ UNCHANGED <<lock, flag, tapped, lapsed, retried, notice, delivered, clearVars>>

\* srv.Shutdown pushes what is running back to its queue.
Shutdown ==
    /\ "shutdown" \in Env
    /\ KillWorkers
    /\ task' = [j \in Jobs |-> IF Running(j) THEN "pending" ELSE task[j]]

\* A crash leaves active tasks behind; they fail when their lease expires.
Crash ==
    /\ "crash" \in Env
    /\ KillWorkers
    /\ UNCHANGED task

Recover(j) ==
    /\ task[j] = "active" /\ ~Running(j)
    /\ FailTask(j)
    /\ UNCHANGED <<redisVars, exec, dead, killreq, notice, delivered, clearVars,
                   stops, hurt>>
-----------------------------------------------------------------------------
(* The worker's handler: handleDownload, handleTikTok, handlePinterest,    *)
(* handleInstagram and handleReddit have this shape.                       *)

Goto(j, r, phase) == exec' = [exec EXCEPT ![j][r] = phase]

\* Replace the placeholder; an error of the request is ignored.
Show(j, shown) ==
    \/ notice' = [notice EXCEPT ![j] = shown] /\ UNCHANGED hurt
    \/ "telegram" \in Env /\ hurt' = hurt \cup {j} /\ UNCHANGED notice

workerRest == <<lock, flag, tapped, lapsed, raced, task, retried, dead,
                killreq, clearVars, stops>>

\* Mutant: a retry does not look at the cancel flag again.
CheckCancelledOnce(j, r) ==
    /\ exec[j][r] = "started"
    /\ IF TakesLock(j) /\ flag[j] /\ r = 0
       THEN Goto(j, r, "retnil") /\ notice' = [notice EXCEPT ![j] = "cancelled"]
       ELSE Goto(j, r, "checked") /\ UNCHANGED notice
    /\ UNCHANGED <<workerRest, delivered, hurt>>

\* Mutant: the worker first waits for the user's lock, which a retry lost.
CheckCancelledAwaitsLock(j, r) ==
    /\ exec[j][r] = "started"
    /\ lock[Owner[j]] = j
    /\ Goto(j, r, "checked")
    /\ UNCHANGED <<workerRest, delivered, hurt, notice>>

\* checkCancelled: a Redis error, or a context that is done, reads as "no".
CheckCancelled(j, r) ==
    /\ exec[j][r] = "started"
    /\ \/ /\ TakesLock(j) /\ flag[j] /\ r \notin dead[j]
          /\ Show(j, "cancelled")
          /\ Goto(j, r, "retnil")
       \/ /\ ~TakesLock(j) \/ (~flag[j] /\ r \notin dead[j])
          /\ Goto(j, r, "checked")
          /\ UNCHANGED <<notice, hurt>>
       \/ /\ TakesLock(j) /\ ("redis" \in Env \/ r \in dead[j])
          /\ Goto(j, r, "checked")
          /\ hurt' = hurt \cup {j}
          /\ UNCHANGED notice
    /\ UNCHANGED <<workerRest, delivered>>

\* The status is set to "downloading" again, except by the YouTube path.
Begin(j, r) ==
    /\ exec[j][r] = "checked"
    /\ \/ /\ Kind[j] # "youtube"
          /\ notice' = [notice EXCEPT ![j] = "downloading"]
       \/ /\ Kind[j] = "youtube" \/ "telegram" \in Env
          /\ UNCHANGED notice
    /\ Goto(j, r, "fetching")
    /\ UNCHANGED <<workerRest, delivered, hurt>>

\* Mutant: a fetch that cannot succeed ends the job without a word.
FetchSilent(j, r) ==
    /\ exec[j][r] = "fetching"
    /\ Goto(j, r, "fetched") \/ Goto(j, r, "retnil") \/ Goto(j, r, "reterr")
    /\ UNCHANGED <<workerRest, delivered, hurt, notice>>

\* The fetch runs under the task's context.
Fetch(j, r) ==
    /\ exec[j][r] = "fetching"
    /\ \/ /\ r \notin dead[j]
          /\ Goto(j, r, "fetched")
          /\ UNCHANGED <<notice, hurt>>
       \/ Show(j, "error") /\ Goto(j, r, "retnil")
       \/ /\ Goto(j, r, "reterr")      \* retryable: no word to the user
          /\ UNCHANGED <<notice, hurt>>
    /\ UNCHANGED <<workerRest, delivered>>

\* The upload does not look at the context.
Send(j, r) ==
    /\ exec[j][r] = "fetched"
    /\ \/ /\ delivered' = [delivered EXCEPT ![j] = @ + 1]
          /\ Goto(j, r, "sent")
          /\ UNCHANGED <<notice, hurt>>
       \/ /\ Show(j, "error") \/ (SilentFailure(j) /\ Show(j, "gone"))
          /\ Goto(j, r, "retnil")
          /\ UNCHANGED delivered
    /\ UNCHANGED workerRest

\* Mutant: failing to delete the placeholder fails the task after the upload.
ConcludeFails(j, r) ==
    /\ exec[j][r] = "sent"
    /\ Goto(j, r, "reterr")
    /\ UNCHANGED <<workerRest, delivered, hurt, notice>>

Conclude(j, r) ==
    /\ exec[j][r] = "sent"
    /\ Show(j, "gone")
    /\ Goto(j, r, "retnil")
    /\ UNCHANGED <<workerRest, delivered>>

\* Mutant: the release is not deferred, so the error return skips it.
ReturnKeepsLock(j, r) ==
    /\ exec[j][r] \in {"retnil", "reterr"}
    /\ Goto(j, r, IF exec[j][r] = "retnil" THEN "nil" ELSE "err")
    /\ IF TakesLock(j) /\ exec[j][r] = "retnil" THEN ReleaseUserLock(j)
       ELSE UNCHANGED <<lock, lapsed>>
    /\ UNCHANGED <<flag, tapped, raced, task, retried, dead, killreq, notice,
                   delivered, clearVars, stops, hurt>>

\* The deferred releaseLock, under the task's context, and the return.
Return(j, r) ==
    /\ exec[j][r] \in {"retnil", "reterr"}
    /\ Goto(j, r, IF exec[j][r] = "retnil" THEN "nil" ELSE "err")
    /\ \/ /\ ~TakesLock(j)
          /\ UNCHANGED <<lock, lapsed, hurt>>
       \/ /\ TakesLock(j) /\ r \notin dead[j]
          /\ ReleaseUserLock(j)
          /\ UNCHANGED hurt
       \/ /\ TakesLock(j) /\ ("redis" \in Env \/ r \in dead[j])
          /\ hurt' = hurt \cup {j}
          /\ UNCHANGED <<lock, lapsed>>
    /\ UNCHANGED <<flag, tapped, raced, task, retried, dead, killreq, notice,
                   delivered, clearVars, stops>>
-----------------------------------------------------------------------------
(* /clear: onClear and queue.ClearUserTasks, once per user.                *)

\* The first page of tasks in one state, of each queue; asynq's order within a
\* queue is left open.
FirstPages(state) ==
    LET listable(q) == {j \in Jobs : task[j] = state /\ Queue[j] = q}
    IN  {page \in SUBSET UNION {listable(q) : q \in ClearedQueues} :
            \A q \in ClearedQueues :
                /\ Cardinality(page \cap listable(q)) <= PageSize
                /\ \/ listable(q) \subseteq page
                   \/ Cardinality(page \cap listable(q)) = PageSize}

\* The tasks in that state that ClearUserTasks would take for the user's.
UserTasks(u, state) ==
    {j \in Jobs : /\ Owner[j] = u /\ UserTask(j) /\ Queue[j] \in ClearedQueues
                  /\ task[j] = state}

\* What may go wrong with the requests for the tasks in S, one by one.
Failing(S) == IF "redis" \in Env THEN SUBSET S ELSE {{}}

\* GetActiveDownload, and the cancel flag of what it saw.
ClearSee(u) ==
    /\ "clear" \in Env
    /\ clr[u] = "idle"
    /\ \E seen \in {lock[u]} \cup (IF "redis" \in Env THEN {None} ELSE {}) :
          /\ cleared' = [cleared EXCEPT ![u] = seen # None]
          /\ SetDownloadCancelled({seen} \ {None})
    /\ clr' = [clr EXCEPT ![u] = "seen"]
    /\ snap' = [snap EXCEPT ![u] = {j \in Jobs : Owner[j] = u /\ task[j] = "pending"}]
    /\ UNCHANGED <<refs, missed, lock, tapped, lapsed, task, notice, hurt, workerVars>>

\* ForceReleaseUserLock: an unconditional DEL, whoever holds the lock by now.
ClearFree(u) ==
    /\ clr[u] = "seen"
    /\ clr' = [clr EXCEPT ![u] = "freed"]
    /\ UNCHANGED <<cleared, refs, snap, missed>>
    /\ \/ /\ lapsed' = lapsed \cup ({lock[u]} \ {None})
          /\ lock' = [lock EXCEPT ![u] = None]
       \/ "redis" \in Env /\ UNCHANGED <<lock, lapsed>>
    /\ UNCHANGED <<flag, tapped, raced, task, notice, hurt, workerVars>>

\* ListActiveTasks: remember the lock references, ask asynq to cancel; an error
\* of CancelProcessing is ignored.
ClearActive(u) ==
    /\ clr[u] = "freed"
    /\ clr' = [clr EXCEPT ![u] = "active"]
    /\ \E page \in FirstPages("active") :
       \E failed \in Failing(UserTasks(u, "active") \cap page) :
          LET listed == UserTasks(u, "active") \cap page
          IN  /\ cleared' = [cleared EXCEPT ![u] = @ \/ listed # failed]
              /\ refs' = [refs EXCEPT ![u] = {j \in listed : TakesLock(j)}]
              /\ killreq' = killreq \cup {j \in listed \ failed : Running(j)}
    /\ UNCHANGED <<redisVars, task, retried, exec, dead, notice, delivered,
                   stops, hurt, snap, missed>>

\* Mutant: a task without a lock token is skipped.
DeleteLockedTasks(u, from, state) ==
    LET waiting == UserTasks(u, state)
    IN  /\ clr[u] = from
        /\ clr' = [clr EXCEPT ![u] = state]
        /\ \E page \in FirstPages(state) : \E failed \in Failing(waiting \cap page) :
              LET deleted == {j \in (waiting \cap page) \ failed : TakesLock(j)}
              IN  /\ cleared' = [cleared EXCEPT ![u] = @ \/ deleted # {}]
                  /\ task' = [j \in Jobs |-> IF j \in deleted THEN "deleted" ELSE task[j]]
                  /\ hurt' = hurt \cup deleted
                  /\ missed' = missed \cup (waiting \ page) \cup failed
        /\ UNCHANGED <<redisVars, notice, refs, snap, workerVars>>

\* DeleteTask for everything of the user that is listed in one queue state; a
\* task whose deletion fails stays, without a word.
DeleteTasks(u, from, state) ==
    LET waiting == UserTasks(u, state)
    IN  /\ clr[u] = from
        /\ clr' = [clr EXCEPT ![u] = state]
        /\ \E page \in FirstPages(state) : \E failed \in Failing(waiting \cap page) :
              LET deleted == (waiting \cap page) \ failed
              IN  /\ cleared' = [cleared EXCEPT ![u] = @ \/ deleted # {}]
                  /\ task' = [j \in Jobs |-> IF j \in deleted THEN "deleted" ELSE task[j]]
                  /\ hurt' = hurt \cup deleted
                  /\ missed' = missed \cup (waiting \ page) \cup failed
        /\ UNCHANGED <<redisVars, notice, refs, snap, workerVars>>

ClearPending(u) == DeleteTasks(u, "active", "pending")
ClearRetry(u) == DeleteTasks(u, "pending", "retry")

\* The inspector fails: the user gets the generic error.
ClearFail(u) ==
    /\ "redis" \in Env
    /\ clr[u] \in {"freed", "active", "pending"}
    /\ clr' = [clr EXCEPT ![u] = "failed"]
    /\ UNCHANGED <<cleared, refs, snap, missed, redisVars, task, notice, hurt, workerVars>>

\* The collected references are marked cancelled and the reply is sent.
ClearReply(u) ==
    /\ clr[u] = "retry"
    /\ clr' = [clr EXCEPT ![u] = "done"]
    /\ SetDownloadCancelled(refs[u])
    /\ UNCHANGED <<cleared, refs, snap, missed, lock, tapped, lapsed, task, notice, hurt,
                   workerVars>>
-----------------------------------------------------------------------------
BotStep(j) == PostStatus(j) \/ Submit(j) \/ CancelRelease(j)
WorkerStep(j, r) == \/ CheckCancelled(j, r) \/ Begin(j, r) \/ Fetch(j, r)
                    \/ Send(j, r) \/ Conclude(j, r) \/ Return(j, r)
                    \/ Settle(j, r)
AsynqStep(j) == Dequeue(j) \/ Forward(j) \/ Recover(j)
ClearStep(u) == \/ ClearFree(u) \/ ClearActive(u) \/ ClearPending(u)
                \/ ClearRetry(u) \/ ClearReply(u) \/ ClearFail(u)

JobStep(j) == \/ Admit(j) \/ BotStep(j) \/ BotCrash(j) \/ CancelFlag(j)
              \/ ExpireCancel(j) \/ AsynqStep(j) \/ CtxDone(j)
              \/ \E r \in Attempts : WorkerStep(j, r)
UserStep(u) == ExpireLock(u) \/ ClearSee(u) \/ ClearStep(u)

Next == \/ \E j \in Jobs : JobStep(j)
        \/ \E u \in Users : UserStep(u)
        \/ Shutdown
        \/ Crash

Spec == Init /\ [][Next]_vars

\* Handlers, workers and asynq keep going; nothing is asked of the user, of
\* failures, or of the lock's TTL.
Fairness ==
    /\ \A j \in Jobs : WF_vars(BotStep(j)) /\ WF_vars(AsynqStep(j))
    /\ \A j \in Jobs : \A r \in Attempts : WF_vars(WorkerStep(j, r))
    /\ \A u \in Users : WF_vars(ClearStep(u))

FairSpec == Spec /\ Fairness
-----------------------------------------------------------------------------
\* A job that took the lock keeps it until it gives it up itself, its owner
\* cancels or clears it, or the TTL runs out: nobody else's release, retry or
\* stale cancel button takes it away (redisx ReleaseUserLock compares tokens).
OwnerKeepsLock ==
    \A j \in Jobs : TakesLock(j) /\ Live(j) /\ j \notin lapsed
                       => lock[Owner[j]] = j

\* A lock that is held belongs to a job somebody still works on: every way out
\* of the handlers of the bot and of the worker gives it back, unless the job's
\* execution was disturbed (context done, Redis error, crash, task deleted).
NoOrphanLock ==
    \A u \in Users : lock[u] # None /\ lock[u] \notin hurt
                        => Owner[lock[u]] = u /\ Live(lock[u])

\* asynq runs a task again after an error, but the handlers return an error
\* only before anything was uploaded: undisturbed media is sent at most once.
DeliveredOnce ==
    \A j \in Jobs : j \notin hurt => delivered[j] <= 1

\* A job whose cancel flag is up is not worked on, unless it was already past
\* checkCancelled when the flag was raised: neither a first attempt nor a retry.
CancelHonoured ==
    \A j \in Jobs : \A r \in Attempts :
        TakesLock(j) /\ flag[j] /\ InBody(j, r) /\ j \notin hurt => r \in raced[j]

\* When asynq counts a job as completed, its placeholder no longer says
\* "downloading": it became a cancel or error notice, or is gone.
CompletedIsAnswered ==
    \A j \in Jobs : task[j] = "completed" /\ j \notin hurt
                       => notice[j] \in {"cancelled", "error", "gone"}

\* Once /clear has said so, no task of the user that sat in the queue all the
\* while is still in it (locale clear.success, "Queue cleared.").
ClearEmptiesQueue ==
    \A u \in Users : clr[u] = "done" /\ cleared[u]
        => \A j \in snap[u] : task[j] # "pending"

\* The same, but for what onClear cannot know of: a task asynq did not delete
\* when asked, or one behind the first page of its queue.  Single links and
\* links of a batch, first attempts and retries are all taken.
ClearTakesWhatItSees ==
    \A u \in Users : clr[u] = "done"
        => \A j \in snap[u] \ missed : task[j] # "pending"

\* Once /clear has replied, the user is not locked out by a job that no longer
\* exists (locale clear.success, "You can send a new link.").
ClearUnblocks ==
    \A u \in Users : clr[u] = "done" /\ cleared[u] /\ lock[u] # None
        => Live(lock[u])

\* At most one transcode task runs at a time (app.go, "stays serialized").
TranscodeSerialized ==
    Cardinality({j \in Jobs : Queue[j] = "transcode" /\ Running(j)}) <= 1

\* An accepted job leaves the queue for good: it is completed, archived after
\* its one retry, or deleted by /clear.
JobsEnd ==
    \A j \in Jobs : task[j] = "pending"
                      ~> task[j] \in {"completed", "archived", "deleted"}

\* Without waiting for its TTL, a lock is given back by the code, or the job
\* that holds it was disturbed.
LocksAreReturned ==
    \A j \in Jobs : lock[Owner[j]] = j ~> (lock[Owner[j]] # j \/ j \in hurt)
-----------------------------------------------------------------------------
(* The inductive invariant behind the safety properties.                   *)

\* A held lock is its owner's, was taken by a job that takes locks, and is an
\* orphan only if that job was disturbed.
LockBelongs ==
    \A u \in Users : lock[u] # None =>
        /\ Owner[lock[u]] = u
        /\ TakesLock(lock[u])
        /\ task[lock[u]] # "idle"
        /\ lock[u] \notin hurt => Live(lock[u])

\* A link not yet handled has left no trace, so a token is never reused.
IdleIsFresh ==
    \A j \in Jobs : task[j] = "idle" =>
        /\ j \notin lapsed /\ j \notin tapped /\ notice[j] = "none"
        /\ \A r \in Attempts : exec[j][r] = "none"

LapsedIsGone == \A j \in lapsed : lock[Owner[j]] # j

\* An execution whose context is not done is the current attempt of a task that
\* asynq calls active: the server never has two of them for one job.
CurrentExec ==
    \A j \in Jobs : \A r \in Attempts :
        exec[j][r] # "none" /\ r \notin dead[j]
            => task[j] = "active" /\ r = retried[j]

\* An undisturbed job has one execution, exactly while asynq calls it active;
\* the execution returns only after the release, and after answering the user.
Answered(j) == notice[j] \in {"cancelled", "error", "gone"}
Orderly(j) ==
    /\ dead[j] = {}
    /\ \A r \in Attempts : exec[j][r] # "none" => r = retried[j]
    /\ exec[j][retried[j]] # "none" <=> task[j] = "active"
    /\ TakesLock(j) /\ exec[j][retried[j]] \in {"nil", "err"} => j \in lapsed
    /\ delivered[j] <= 1
    /\ delivered[j] # 0 => \/ task[j] = "completed"
                           \/ exec[j][retried[j]] \in {"sent", "retnil", "nil"}
    /\ exec[j][retried[j]] \in {"retnil", "nil"} => Answered(j)
    /\ task[j] = "completed" => Answered(j)

LockInv == OwnerKeepsLock /\ LockBelongs /\ IdleIsFresh /\ LapsedIsGone
OrderlyInv == \A j \in Jobs : j \notin hurt => Orderly(j)

IInv == TypeOK /\ LockInv /\ OrderlyInv /\ CancelHonoured
=============================================================================
