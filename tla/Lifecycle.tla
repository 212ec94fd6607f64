----------------------------- MODULE Lifecycle -----------------------------
(***************************************************************************)
(* A process from its start to its end (internal/app/app.go, Run and       *)
(* RunFleet of internal/botkit), and the two things it does for what       *)
(* earlier processes left behind: the recovery of asynq's active list      *)
(* before a worker starts (queue/recovery.go) and the sweep of temporary   *)
(* directories (worker/maintenance.go).                                    *)
(*                                                                         *)
(* Other processes work on the same queue and the same temporary directory *)
(* meanwhile: the old one during a deployment, the fleet next to the main  *)
(* bot.  A supervisor starts the process again when it has ended.  A tick  *)
(* is half an hour.                                                        *)
(***************************************************************************)
EXTENDS Integers, FiniteSets

CONSTANTS
    Parts,        \* goroutines that report to errCh; "worker" among them
    StartSteps,   \* calls in RunFleet that end it when they fail
    QueueIds,     \* task ids
    TempJobs,     \* job -> [total, quiet : ticks it may last and go without a new file]
    SweepAge,     \* ticks after which a directory is stale
    MaxEvents,    \* bound: failures, signals and losses
    MaxTicks      \* bound: time

ASSUME LifecycleAssumption ==
    /\ StartSteps \in Nat /\ "worker" \in Parts /\ IsFiniteSet(Parts)
    /\ SweepAge \in Nat /\ MaxEvents \in Nat /\ MaxTicks \in Nat
    /\ \A j \in DOMAIN TempJobs : TempJobs[j].quiet \in Nat /\ TempJobs[j].quiet < SweepAge

VARIABLES
    proc,      \* "down", "starting", "up"
    step,      \* start steps done
    parts,     \* [Parts -> "off", "on", "failed", "stopped"]
    errCh,     \* reports in the channel
    ctxDone,   \* the signal context is done
    queued,    \* [QueueIds -> where the id is: "new", "pending", "active", "removed", "done"]
    taskData,  \* [QueueIds -> its task key: "none", "ok", "broken"]
    recovery,  \* the worker's look at the active list: [stage, todo, id]
    blamed,    \* history: ids whose inspection failed or whose key was lost
    dirs,      \* [job -> its directory: [state, age, life]]
    events, ticks

lifeVars == <<proc, step, parts, errCh, ctxDone, queued, taskData, recovery, blamed, dirs, events, ticks>>
processVars == <<proc, step, parts, errCh, ctxDone>>
queueVars == <<queued, taskData, recovery, blamed>>

Jobs == DOMAIN TempJobs
NoDir == [state |-> "none", age |-> 0, life |-> 0]
NoRecovery == [stage |-> "none", todo |-> {}, id |-> "none"]

LifecycleTypeOK ==
    /\ proc \in {"down", "starting", "up"} /\ step \in 0..StartSteps
    /\ parts \in [Parts -> {"off", "on", "failed", "stopped"}]
    /\ errCh \in 0..Cardinality(Parts) /\ ctxDone \in BOOLEAN
    /\ queued \in [QueueIds -> {"new", "pending", "active", "removed", "done"}]
    /\ taskData \in [QueueIds -> {"none", "ok", "broken"}]
    /\ recovery.stage \in {"none", "next", "inspect", "remove", "erase", "finished"} /\ recovery.todo \subseteq QueueIds
    /\ blamed \subseteq QueueIds
    /\ \A j \in Jobs : dirs[j].state \in {"none", "used", "left", "lost"}
    /\ events \in 0..MaxEvents /\ ticks \in 0..MaxTicks

(* A queue the last process left: any ids may be active, with their data, *)
(* without it or with data that no longer decodes.                        *)
LifecycleInit ==
    /\ proc = "down" /\ step = 0
    /\ parts = [p \in Parts |-> "off"]
    /\ errCh = 0 /\ ctxDone = FALSE
    /\ queued \in [QueueIds -> {"new", "active"}]
    /\ taskData \in [QueueIds -> {"none", "ok", "broken"}]
    /\ \A i \in QueueIds : queued[i] = "new" => taskData[i] = "none"
    /\ recovery = NoRecovery
    /\ blamed = {i \in QueueIds : queued[i] = "active" /\ taskData[i] # "ok"}
    /\ dirs = [j \in Jobs |-> NoDir]
    /\ events = 0 /\ ticks = 0

Event == events < MaxEvents /\ events' = events + 1

(***************************************************************************)
(* The process.                                                            *)
(***************************************************************************)
Supervise ==
    /\ proc = "down"
    /\ proc' = "starting" /\ step' = 0 /\ ctxDone' = FALSE /\ errCh' = 0
    /\ UNCHANGED <<parts, events, ticks, dirs>> /\ UNCHANGED queueVars

Exit ==
    /\ proc' = "down"
    /\ parts' = [p \in Parts |-> "off"]
    /\ errCh' = 0 /\ step' = 0 /\ ctxDone' = FALSE
    /\ recovery' = NoRecovery

(* Database, Redis, queue, then the bots of the fleet one by one: a step     *)
(* that fails returns from RunFleet although the bots before it are running. *)
RunFleet ==
    /\ proc = "starting"
    /\ \/ /\ step < StartSteps /\ step' = step + 1
          /\ UNCHANGED <<proc, parts, errCh, ctxDone, recovery, events>>
       \/ /\ step < StartSteps /\ Event /\ Exit
       \/ /\ step = StartSteps /\ proc' = "up"
          /\ UNCHANGED <<step, parts, errCh, ctxDone, recovery, events>>
    /\ UNCHANGED <<queued, taskData, blamed, dirs, ticks>>

(* A goroutine of its own for every part; the worker's begins with the      *)
(* recovery and is served only after it.                                    *)
runPart(p) ==
    /\ proc = "up" /\ parts[p] = "off"
    /\ p = "worker" => recovery.stage = "finished"
    /\ parts' = [parts EXCEPT ![p] = "on"]
    /\ UNCHANGED <<proc, step, errCh, ctxDone, dirs, events, ticks>> /\ UNCHANGED queueVars

\* Mutant: the part logs its error and returns.
ReportQuietly == UNCHANGED errCh

Report == errCh' = errCh + 1

(* A part ends with an error (a port that is taken, Redis gone), or because *)
(* the context is done; what it returns is reported in both cases.          *)
PartEnds(p, how) ==
    /\ parts[p] = "on"
    /\ \/ how = "failed" /\ Event
       \/ how = "stopped" /\ ctxDone /\ UNCHANGED events
    /\ parts' = [parts EXCEPT ![p] = how]
    /\ Report
    /\ UNCHANGED <<proc, step, ctxDone, dirs, ticks>> /\ UNCHANGED queueVars

NotifyContext ==
    /\ proc = "up" /\ ~ctxDone /\ Event
    /\ ctxDone' = TRUE
    /\ UNCHANGED <<proc, step, parts, errCh, dirs, ticks>> /\ UNCHANGED queueVars

(* The select at the end of Run: it does not wait for the parts, so the      *)
(* process may be gone before asynq has put its active tasks back.           *)
Select ==
    /\ proc = "up" /\ (ctxDone \/ errCh > 0)
    /\ Exit
    /\ UNCHANGED <<queued, taskData, blamed, dirs, events, ticks>>

(***************************************************************************)
(* The queue, as the other processes and asynq's recoverer change it.      *)
(***************************************************************************)
Move(i, from, to, data) ==
    /\ queued[i] = from
    /\ queued' = [queued EXCEPT ![i] = to]
    /\ taskData' = [taskData EXCEPT ![i] = data]
    /\ UNCHANGED <<recovery, blamed, dirs, events, ticks>> /\ UNCHANGED processVars

AsynqEnqueue(i) == Move(i, "new", "pending", "ok")
AsynqDequeue(i) == taskData[i] = "ok" /\ Move(i, "pending", "active", "ok")
AsynqDone(i) == taskData[i] = "ok" /\ Move(i, "active", "done", "none")
AsynqRequeue(i) == taskData[i] = "ok" /\ Move(i, "active", "pending", "ok")

(* A key deleted by hand, as the comment of the recovery has it. *)
KeyLost(i) ==
    /\ queued[i] = "active" /\ taskData[i] = "ok" /\ Event
    /\ taskData' = [taskData EXCEPT ![i] = "none"]
    /\ blamed' = blamed \cup {i}
    /\ UNCHANGED <<queued, recovery, dirs, ticks>> /\ UNCHANGED processVars

(***************************************************************************)
(* recoverOrphanedActiveTasks: LRANGE, then for every id EXISTS and, where *)
(* the key exists, an inspection; an id that fails is removed.  Every call *)
(* is a step; an error of LRANGE, EXISTS, LREM or ZREM ends it with a      *)
(* warning, an error of the inspection counts as an orphan.                *)
(***************************************************************************)
LRange ==
    /\ proc = "up" /\ recovery.stage = "none"
    /\ \/ /\ recovery' = [NoRecovery EXCEPT !.stage = "next",
                                           !.todo = {i \in QueueIds : queued[i] = "active"}]
          /\ UNCHANGED events
       \/ Event /\ recovery' = [NoRecovery EXCEPT !.stage = "finished"]
    /\ UNCHANGED <<queued, taskData, blamed, dirs, ticks>> /\ UNCHANGED processVars

recoverNext ==
    /\ recovery.stage = "next"
    /\ \/ /\ recovery.todo = {}
          /\ recovery' = [recovery EXCEPT !.stage = "finished"]
          /\ UNCHANGED events
       \/ \E i \in recovery.todo :
            /\ recovery' = [recovery EXCEPT !.id = i,
                               !.stage = IF taskData[i] = "none" THEN "remove" ELSE "inspect"]
            /\ UNCHANGED events
       \/ /\ recovery.todo # {} /\ Event
          /\ recovery' = [recovery EXCEPT !.stage = "finished"]
    /\ UNCHANGED <<queued, taskData, blamed, dirs, ticks>> /\ UNCHANGED processVars

\* Mutant: an id whose data can be read is removed, the others are kept.
OrphanInverted(i) == taskData[i] = "ok"

Orphan(i) == taskData[i] # "ok"

NextId == [recovery EXCEPT !.stage = "next", !.todo = @ \ {recovery.id}, !.id = "none"]

GetTaskInfo ==
    LET i == recovery.id
    IN /\ recovery.stage = "inspect"
       /\ \/ /\ recovery' = IF Orphan(i) THEN [recovery EXCEPT !.stage = "remove"] ELSE NextId
             /\ UNCHANGED <<events, blamed>>
          \/ /\ Event /\ blamed' = blamed \cup {i}
             /\ recovery' = [recovery EXCEPT !.stage = "remove"]
       /\ UNCHANGED <<queued, taskData, dirs, ticks>> /\ UNCHANGED processVars

(* LREM finds nothing when the id has left the active list meanwhile.  With *)
(* ZREM, which takes the lease: an error of either ends the recovery, and   *)
(* that of ZREM leaves a task that is in no list.                           *)
LRem ==
    LET i == recovery.id
        taken == IF queued[i] = "active" THEN [queued EXCEPT ![i] = "removed"] ELSE queued
    IN /\ recovery.stage = "remove"
       /\ \/ /\ queued' = taken /\ recovery' = [recovery EXCEPT !.stage = "erase"]
             /\ UNCHANGED events
          \/ /\ Event /\ queued' \in {queued, taken}
             /\ recovery' = [recovery EXCEPT !.stage = "finished"]
       /\ UNCHANGED <<taskData, blamed, dirs, ticks>> /\ UNCHANGED processVars

(* DEL, wherever the task is by now; its error is ignored.  The code leaves *)
(* it out for an id without a key, where it would change nothing.           *)
Del ==
    /\ recovery.stage = "erase"
    /\ \/ taskData' = [taskData EXCEPT ![recovery.id] = "none"] /\ UNCHANGED events
       \/ Event /\ UNCHANGED taskData
    /\ recovery' = NextId
    /\ UNCHANGED <<queued, blamed, dirs, ticks>> /\ UNCHANGED processVars

(***************************************************************************)
(* Temporary directories.  A job of any process makes one, adds files to   *)
(* it, which renews its modification time, and removes it at its end; a    *)
(* crash leaves it.                                                        *)
(***************************************************************************)
BecomeDir(j, d) ==
    /\ dirs' = [dirs EXCEPT ![j] = d]
    /\ UNCHANGED <<events, ticks>> /\ UNCHANGED processVars /\ UNCHANGED queueVars

MkdirTemp(j) == dirs[j].state = "none" /\ BecomeDir(j, [NoDir EXCEPT !.state = "used"])
JobWrites(j) == dirs[j].state = "used" /\ dirs[j].age > 0 /\ BecomeDir(j, [dirs[j] EXCEPT !.age = 0])
RemoveAll(j) == dirs[j].state \in {"used", "lost"} /\ BecomeDir(j, NoDir)
JobCrashes(j) ==
    /\ dirs[j].state = "used" /\ Event
    /\ dirs' = [dirs EXCEPT ![j].state = "left"]
    /\ UNCHANGED ticks /\ UNCHANGED processVars /\ UNCHANGED queueVars

(* A job goes on neither beyond its deadline nor for longer without a file  *)
(* than the timeout of one download lets it.                                *)
HalfHour ==
    /\ ticks < MaxTicks /\ ticks' = ticks + 1
    /\ \A j \in Jobs : dirs[j].state = "used" =>
          dirs[j].life < TempJobs[j].total /\ dirs[j].age < TempJobs[j].quiet
    /\ dirs' = [j \in Jobs |-> IF dirs[j].state \in {"used", "left"}
                               THEN [dirs[j] EXCEPT !.age = @ + 1, !.life = @ + 1] ELSE dirs[j]]
    /\ UNCHANGED events /\ UNCHANGED processVars /\ UNCHANGED queueVars

\* Mutant: the age of a directory is taken from when it was made.
StaleSinceMade(d) == d.life >= SweepAge

Stale(d) == d.age >= SweepAge

(* At the start of a process and every hour after it, so at any time. *)
sweepStaleTempfiles ==
    /\ proc = "up"
    /\ \E j \in Jobs : dirs[j].state \in {"used", "left"} /\ Stale(dirs[j])
    /\ dirs' = [j \in Jobs |->
          IF dirs[j].state \in {"used", "left"} /\ Stale(dirs[j])
          THEN IF dirs[j].state = "used" THEN [dirs[j] EXCEPT !.state = "lost"] ELSE NoDir
          ELSE dirs[j]]
    /\ UNCHANGED <<events, ticks>> /\ UNCHANGED processVars /\ UNCHANGED queueVars

LifecycleNext ==
    \/ Supervise \/ RunFleet \/ NotifyContext \/ Select
    \/ \E p \in Parts : runPart(p) \/ \E how \in {"failed", "stopped"} : PartEnds(p, how)
    \/ \E i \in QueueIds : \/ AsynqEnqueue(i) \/ AsynqDequeue(i) \/ AsynqDone(i)
                           \/ AsynqRequeue(i) \/ KeyLost(i)
    \/ LRange \/ recoverNext \/ GetTaskInfo \/ LRem \/ Del
    \/ \E j \in Jobs : MkdirTemp(j) \/ JobWrites(j) \/ RemoveAll(j) \/ JobCrashes(j)
    \/ HalfHour \/ sweepStaleTempfiles

-----------------------------------------------------------------------------
(* A task with intact data is never taken from the queue by the recovery,   *)
(* also while other processes enqueue, run, requeue and finish tasks        *)
(* between its calls, unless the inspection of that id failed               *)
(* (recoverOrphanedActiveTasks).                                            *)
RecoveryKeepsTasks ==
    \A i \in QueueIds \ blamed :
        queued[i] # "removed" /\ (queued[i] \in {"pending", "active"} => taskData[i] = "ok")

(* The directory of a running job is there until the job removes it,        *)
(* whoever sweeps: no job goes without a new file for as long as the sweep  *)
(* waits (sweepStaleTempfiles, the timeouts of the queue and of a track).   *)
JobKeepsItsDir == \A j \in Jobs : dirs[j].state # "lost"

(* However parts fail, calls of the start fail or signals come, the worker  *)
(* serves again: a failed part ends the process instead of leaving it half  *)
(* alive (the buffered errCh of Run), and a failing recovery does not keep  *)
(* the worker from starting.                                                *)
WorkerServesAgain ==
    (proc = "starting" \/ \E p \in Parts : parts[p] = "failed")
    ~> (parts["worker"] = "on" /\ \A p \in Parts : parts[p] # "failed")
=============================================================================
