-------------------------- MODULE Lifecycle_proofs --------------------------
(***************************************************************************)
(* Proofs about the life of a process: no step of it, of the recovery of   *)
(* the queue or of the sweep breaks LifeInv, for any set of parts, tasks   *)
(* and jobs.  Services_proofs carries the result over to its Spec.         *)
(***************************************************************************)
EXTENDS Lifecycle, FiniteSetTheorems, TLAPS

-----------------------------------------------------------------------------
(* The process: the channel holds one report of every part that has ended,   *)
(* and nothing runs outside a process that is up.                            *)
PartStates == {"off", "on", "failed", "stopped"}

Ended == {p \in Parts : parts[p] \in {"failed", "stopped"}}

ProcInv ==
    /\ proc \in {"down", "starting", "up"} /\ step \in 0..StartSteps
    /\ parts \in [Parts -> PartStates]
    /\ ctxDone \in BOOLEAN
    /\ events \in 0..MaxEvents /\ ticks \in 0..MaxTicks
    /\ proc # "up" => \A p \in Parts : parts[p] = "off"
    /\ errCh = Cardinality(Ended)

(* The queue: the tasks the recovery has no reason to touch keep their data. *)
QueueStates == {"new", "pending", "active", "removed", "done"}
DataStates == {"none", "ok", "broken"}
Recoveries ==
    [stage : {"none", "next", "inspect", "remove", "erase", "finished"},
     todo : SUBSET QueueIds, id : QueueIds \cup {"none"}]

(* The ids looked at were active once, so their data does not come back, and *)
(* what is about to be removed had none, or is blamed.                       *)
RecoveryInv ==
    /\ recovery \in Recoveries
    /\ \A i \in recovery.todo : queued[i] # "new"
    /\ recovery.stage \in {"inspect", "remove", "erase"} =>
          recovery.id \in QueueIds /\ queued[recovery.id] # "new"
    /\ recovery.stage \in {"remove", "erase"} =>
          taskData[recovery.id] # "ok" \/ recovery.id \in blamed

QueueInv ==
    /\ queued \in [QueueIds -> QueueStates]
    /\ taskData \in [QueueIds -> DataStates]
    /\ RecoveryInv
    /\ blamed \subseteq QueueIds
    /\ RecoveryKeepsTasks

(* The directories: one in use is younger than what the sweep takes.         *)
Directories == [state : {"none", "used", "left", "lost"}, age : Nat, life : Nat]

DirInv ==
    /\ dirs \in [Jobs -> Directories]
    /\ \A j \in Jobs : dirs[j].state = "used" => dirs[j].age =< TempJobs[j].quiet
    /\ JobKeepsItsDir

LifeInv == ProcInv /\ QueueInv /\ DirInv

-----------------------------------------------------------------------------
(* What a step of one kind leaves alone.                                     *)
QueueSame == UNCHANGED queueVars
DirSame == UNCHANGED dirs
ProcSame == UNCHANGED processVars /\ UNCHANGED ticks /\ (UNCHANGED events \/ Event)

\* A step that leaves the queue alone, or only forgets the recovery, keeps QueueInv.
LEMMA QueueKept ==
  ASSUME QueueInv, UNCHANGED <<queued, taskData, blamed>>,
         recovery' = recovery \/ recovery' = NoRecovery
  PROVE  QueueInv'
  <1>1. NoRecovery \in Recoveries /\ NoRecovery.stage = "none" /\ NoRecovery.todo = {}
    BY DEF NoRecovery, Recoveries
  <1>2. RecoveryInv'
    BY <1>1 DEF QueueInv, RecoveryInv
  <1> QED
    BY <1>2 DEF QueueInv, RecoveryKeepsTasks

\* A step that leaves the directories alone keeps DirInv.
LEMMA DirKept == DirInv /\ UNCHANGED dirs => DirInv'
  BY DEF DirInv, JobKeepsItsDir

\* An event is counted below its bound.
LEMMA EventsBounded == ProcInv /\ (UNCHANGED events \/ Event) => events' \in 0..MaxEvents
  BY LifecycleAssumption DEF ProcInv, Event

\* A step that leaves the process alone, but for the count of events, keeps ProcInv.
LEMMA ProcKept == ProcInv /\ ProcSame => ProcInv'
  <1> SUFFICES ASSUME ProcInv, ProcSame PROVE ProcInv'
    OBVIOUS
  <1>1. events' \in 0..MaxEvents
    BY EventsBounded DEF ProcSame
  <1>2. Ended' = Ended
    BY DEF ProcSame, processVars, Ended
  <1> QED
    BY <1>1, <1>2 DEF ProcInv, ProcSame, processVars

\* A process that has ended has no parts and an empty channel.
LEMMA ProcExits ==
  ASSUME ProcInv, Exit, UNCHANGED ticks, UNCHANGED events \/ Event
  PROVE  ProcInv'
  <1>1. events' \in 0..MaxEvents
    BY EventsBounded
  <1>2. parts' \in [Parts -> PartStates] /\ \A p \in Parts : parts'[p] = "off"
    BY DEF Exit, PartStates
  <1>3. Ended' = {}
    BY <1>2 DEF Ended
  <1>4. errCh' = Cardinality(Ended')
    BY <1>3, FS_EmptySet DEF Exit
  <1>5. 0 \in 0..StartSteps
    BY LifecycleAssumption
  <1> QED
    BY <1>1, <1>2, <1>4, <1>5 DEF ProcInv, Exit

-----------------------------------------------------------------------------
\* A part that ends puts exactly one report in the channel.
LEMMA PartEndsOnce ==
  ASSUME ProcInv, NEW p \in Parts, NEW how \in {"failed", "stopped"}, PartEnds(p, how)
  PROVE  ProcInv'
  <1>1. /\ parts[p] = "on" /\ parts' = [parts EXCEPT ![p] = how]
        /\ errCh' = errCh + 1
        /\ UNCHANGED <<proc, step, ctxDone, ticks>> /\ (UNCHANGED events \/ Event)
    BY DEF PartEnds, Report
  <1>2. Ended' = Ended \cup {p} /\ p \notin Ended
    BY <1>1 DEF Ended, ProcInv
  <1>3. IsFiniteSet(Ended)
    BY LifecycleAssumption, FS_Subset DEF Ended
  <1>4. Cardinality(Ended') = Cardinality(Ended) + 1
    BY <1>2, <1>3, FS_AddElement
  <1>5. parts' \in [Parts -> PartStates]
    BY <1>1 DEF ProcInv, PartStates
  <1>6. events' \in 0..MaxEvents
    BY <1>1, EventsBounded
  <1>7. proc' = "up"
    BY <1>1 DEF ProcInv
  <1> QED
    BY <1>1, <1>4, <1>5, <1>6, <1>7 DEF ProcInv

\* The steps of a process keep the invariant of the process.
LEMMA ProcNext == ProcInv /\ LifecycleNext => ProcInv'
  <1> SUFFICES ASSUME ProcInv, LifecycleNext PROVE ProcInv'
    OBVIOUS
  <1>1. CASE Supervise
    <2>1. /\ proc = "down" /\ proc' = "starting" /\ step' = 0 /\ ctxDone' = FALSE /\ errCh' = 0
          /\ UNCHANGED <<parts, events, ticks>>
      BY <1>1 DEF Supervise
    <2>2. Ended' = {}
      BY <2>1 DEF Ended, ProcInv
    <2>3. errCh' = Cardinality(Ended') /\ 0 \in 0..StartSteps
      BY <2>1, <2>2, FS_EmptySet, LifecycleAssumption
    <2> QED
      BY <2>1, <2>3 DEF ProcInv
  <1>2. CASE RunFleet
    <2>1. CASE Exit
      <3>1. UNCHANGED ticks /\ (UNCHANGED events \/ Event)
        BY <1>2 DEF RunFleet
      <3> QED
        BY <2>1, <3>1, ProcExits
    <2>2. CASE ~Exit
      <3>1. /\ UNCHANGED <<parts, errCh, ctxDone, events, ticks>>
            /\ proc = "starting" /\ proc' \in {"starting", "up"} /\ step' \in 0..StartSteps
        BY <1>2, <2>2, LifecycleAssumption DEF RunFleet, ProcInv
      <3>2. Ended' = Ended
        BY <3>1 DEF Ended
      <3> QED
        BY <3>1, <3>2 DEF ProcInv
    <2> QED
      BY <2>1, <2>2
  <1>3. CASE NotifyContext
    <2>1. /\ proc = "up" /\ ctxDone' = TRUE /\ UNCHANGED <<proc, step, parts, errCh, ticks>> /\ Event
      BY <1>3 DEF NotifyContext
    <2>2. Ended' = Ended /\ events' \in 0..MaxEvents
      BY <2>1, EventsBounded DEF Ended
    <2> QED
      BY <2>1, <2>2 DEF ProcInv
  <1>4. CASE Select
    BY <1>4, ProcExits DEF Select
  <1>5. ASSUME NEW p \in Parts, runPart(p) PROVE ProcInv'
    <2>1. /\ proc = "up" /\ parts[p] = "off" /\ parts' = [parts EXCEPT ![p] = "on"]
          /\ UNCHANGED <<proc, step, errCh, ctxDone, events, ticks>>
      BY <1>5 DEF runPart
    <2>2. Ended' = Ended
      BY <2>1 DEF Ended, ProcInv
    <2>3. parts' \in [Parts -> PartStates]
      BY <2>1 DEF ProcInv, PartStates
    <2> QED
      BY <2>1, <2>2, <2>3 DEF ProcInv
  <1>6. ASSUME NEW p \in Parts, NEW how \in {"failed", "stopped"}, PartEnds(p, how) PROVE ProcInv'
    BY <1>6, PartEndsOnce
  <1>7. ASSUME NEW i \in QueueIds,
               AsynqEnqueue(i) \/ AsynqDequeue(i) \/ AsynqDone(i) \/ AsynqRequeue(i) \/ KeyLost(i)
        PROVE  ProcInv'
    <2>1. ProcSame
      BY <1>7 DEF AsynqEnqueue, AsynqDequeue, AsynqDone, AsynqRequeue, KeyLost, Move, ProcSame
    <2> QED
      BY <2>1, ProcKept
  <1>8. CASE LRange \/ recoverNext \/ GetTaskInfo \/ LRem \/ Del
    <2>1. ProcSame
      BY <1>8 DEF LRange, recoverNext, GetTaskInfo, LRem, Del, ProcSame
    <2> QED
      BY <2>1, ProcKept
  <1>9. ASSUME NEW j \in Jobs, MkdirTemp(j) \/ JobWrites(j) \/ RemoveAll(j) \/ JobCrashes(j)
        PROVE  ProcInv'
    <2>1. ProcSame
      BY <1>9 DEF MkdirTemp, JobWrites, RemoveAll, JobCrashes, BecomeDir, ProcSame
    <2> QED
      BY <2>1, ProcKept
  <1>10. CASE HalfHour
    <2>1. /\ UNCHANGED processVars /\ UNCHANGED events
          /\ ticks < MaxTicks /\ ticks' = ticks + 1 /\ MaxTicks \in Nat
      BY <1>10, LifecycleAssumption DEF HalfHour
    <2>3. ticks' \in 0..MaxTicks
      BY <2>1 DEF ProcInv
    <2>2. Ended' = Ended
      BY <2>1 DEF Ended, processVars
    <2> QED
      BY <2>1, <2>2, <2>3 DEF ProcInv, processVars
  <1>11. CASE sweepStaleTempfiles
    BY <1>11, ProcKept DEF sweepStaleTempfiles, ProcSame
  <1> QED
    BY <1>1, <1>2, <1>3, <1>4, <1>5, <1>6, <1>7, <1>8, <1>9, <1>10, <1>11 DEF LifecycleNext

-----------------------------------------------------------------------------
\* The recovery takes an id out of the queue, and deletes its data, only when
\* the data was gone or unreadable or the inspection of that id failed.
LEMMA QueueNext == QueueInv /\ LifecycleNext => QueueInv'
  <1> SUFFICES ASSUME QueueInv, LifecycleNext PROVE QueueInv'
    OBVIOUS
  <1>1. CASE Supervise \/ RunFleet \/ NotifyContext \/ Select
    <2>1. /\ UNCHANGED <<queued, taskData, blamed>>
          /\ recovery' = recovery \/ recovery' = NoRecovery
      BY <1>1 DEF Supervise, RunFleet, NotifyContext, Select, Exit, queueVars
    <2> QED
      BY <2>1, QueueKept
  <1>2. ASSUME NEW p \in Parts, runPart(p) \/ \E how \in {"failed", "stopped"} : PartEnds(p, how)
        PROVE  QueueInv'
    BY <1>2, QueueKept DEF runPart, PartEnds, queueVars
  <1>3. ASSUME NEW i \in QueueIds, NEW from \in QueueStates, NEW to \in {"pending", "active", "done"},
               NEW data \in DataStates, Move(i, from, to, data),
               to = "done" \/ data = "ok",
               from = "new" \/ taskData[i] = "ok"
        PROVE  QueueInv'
    <2>1. /\ queued' = [queued EXCEPT ![i] = to] /\ taskData' = [taskData EXCEPT ![i] = data]
          /\ UNCHANGED <<recovery, blamed>>
      BY <1>3 DEF Move
    <2>2. queued' \in [QueueIds -> QueueStates] /\ taskData' \in [QueueIds -> DataStates]
      BY <1>3, <2>1 DEF QueueInv, QueueStates
    <2>3. RecoveryKeepsTasks'
      BY <1>3, <2>1 DEF QueueInv, RecoveryKeepsTasks
    <2>4. RecoveryInv'
      <3>1. queued[i] = from /\ \A j \in QueueIds : queued[j] # "new" => queued'[j] # "new"
        BY <1>3, <2>1 DEF QueueInv, Move
      <3>2. ASSUME NEW j \in QueueIds, queued[j] # "new", taskData[j] # "ok"
            PROVE  taskData'[j] # "ok"
        BY <1>3, <2>1, <3>1, <3>2 DEF QueueInv
      <3> QED
        BY <2>1, <3>1, <3>2 DEF QueueInv, RecoveryInv, Recoveries
    <2> QED
      BY <2>1, <2>2, <2>3, <2>4 DEF QueueInv
  <1>4. ASSUME NEW i \in QueueIds,
               AsynqEnqueue(i) \/ AsynqDequeue(i) \/ AsynqDone(i) \/ AsynqRequeue(i)
        PROVE  QueueInv'
    BY <1>3, <1>4 DEF AsynqEnqueue, AsynqDequeue, AsynqDone, AsynqRequeue, QueueStates, DataStates
  <1>5. ASSUME NEW i \in QueueIds, KeyLost(i) PROVE QueueInv'
    <2>1. /\ taskData' = [taskData EXCEPT ![i] = "none"] /\ blamed' = blamed \cup {i}
          /\ UNCHANGED <<queued, recovery>>
      BY <1>5 DEF KeyLost
    <2>2. RecoveryKeepsTasks'
      BY <2>1 DEF QueueInv, RecoveryKeepsTasks
    <2>3. taskData' \in [QueueIds -> DataStates]
      BY <2>1 DEF QueueInv, DataStates
    <2>4. RecoveryInv'
      BY <2>1 DEF QueueInv, RecoveryInv
    <2> QED
      BY <2>1, <2>2, <2>3, <2>4 DEF QueueInv
  <1>6. CASE LRange
    <2>1. /\ recovery' \in Recoveries /\ recovery'.stage \in {"next", "finished"}
          /\ \A i \in recovery'.todo : queued[i] # "new"
      BY <1>6 DEF LRange, NoRecovery, Recoveries
    <2> QED
      BY <1>6, <2>1 DEF LRange, QueueInv, RecoveryInv, RecoveryKeepsTasks
  <1>7. CASE recoverNext
    <2>1. UNCHANGED <<queued, taskData, blamed>>
      BY <1>7 DEF recoverNext
    <2>2. RecoveryInv'
      <3>1. recovery \in Recoveries /\ recovery.todo \subseteq QueueIds
        BY DEF QueueInv, RecoveryInv, Recoveries
      <3>2. CASE recovery' = [recovery EXCEPT !.stage = "finished"]
        BY <2>1, <3>1, <3>2 DEF QueueInv, RecoveryInv, Recoveries
      <3>3. ASSUME NEW i \in recovery.todo,
                   recovery' = [recovery EXCEPT !.id = i,
                                  !.stage = IF taskData[i] = "none" THEN "remove" ELSE "inspect"]
            PROVE  RecoveryInv'
        BY <2>1, <3>1, <3>3 DEF QueueInv, RecoveryInv, Recoveries
      <3> QED
        BY <1>7, <3>2, <3>3 DEF recoverNext
    <2> QED
      BY <2>1, <2>2 DEF QueueInv, RecoveryKeepsTasks
  <1>8. CASE GetTaskInfo
    <2> DEFINE i == recovery.id
    <2>1. /\ i \in QueueIds /\ queued[i] # "new" /\ recovery \in Recoveries
          /\ UNCHANGED <<queued, taskData>> /\ blamed' \in {blamed, blamed \cup {i}}
      BY <1>8 DEF GetTaskInfo, QueueInv, RecoveryInv
    <2>2. \/ recovery' = NextId
          \/ /\ recovery' = [recovery EXCEPT !.stage = "remove"]
             /\ taskData[i] # "ok" \/ i \in blamed'
      BY <1>8 DEF GetTaskInfo, Orphan
    <2>3. RecoveryInv'
      BY <2>1, <2>2 DEF QueueInv, RecoveryInv, Recoveries, NextId
    <2>4. RecoveryKeepsTasks' /\ blamed' \subseteq QueueIds
      BY <2>1 DEF QueueInv, RecoveryKeepsTasks
    <2> QED
      BY <2>1, <2>3, <2>4 DEF QueueInv
  <1>11. CASE LRem
    <2> DEFINE i == recovery.id
    <2>1. /\ i \in QueueIds /\ recovery \in Recoveries /\ UNCHANGED <<taskData, blamed>>
          /\ taskData[i] # "ok" \/ i \in blamed
          /\ queued' \in {queued, [queued EXCEPT ![i] = "removed"]}
          /\ \/ recovery' = [recovery EXCEPT !.stage = "erase"]
             \/ recovery' = [recovery EXCEPT !.stage = "finished"]
      BY <1>11 DEF LRem, QueueInv, RecoveryInv
    <2>2. queued' \in [QueueIds -> QueueStates] /\ \A j \in QueueIds : queued[j] # "new" => queued'[j] # "new"
      BY <2>1 DEF QueueInv, QueueStates
    <2>3. queued[i] # "new"
      BY <1>11 DEF LRem, QueueInv, RecoveryInv
    <2>4. RecoveryInv'
      BY <2>1, <2>2, <2>3 DEF QueueInv, RecoveryInv, Recoveries
    <2>5. CASE queued' = queued
      BY <2>1, <2>4, <2>5 DEF QueueInv, RecoveryKeepsTasks
    <2>6. CASE queued' = [queued EXCEPT ![i] = "removed"] /\ i \in blamed
      BY <2>1, <2>2, <2>4, <2>6 DEF QueueInv, RecoveryKeepsTasks
    <2>7. queued' = queued \/ i \in blamed \/ queued[i] = "active"
      BY <1>11 DEF LRem
    <2>8. ~(queued[i] = "active" /\ taskData[i] # "ok") \/ i \in blamed
      BY <2>1 DEF QueueInv, RecoveryKeepsTasks
    <2> QED
      BY <2>1, <2>5, <2>6, <2>7, <2>8
  <1>12. CASE Del
    <2> DEFINE i == recovery.id
    <2>1. /\ i \in QueueIds /\ queued[i] # "new" /\ recovery \in Recoveries /\ UNCHANGED <<queued, blamed>>
          /\ taskData[i] # "ok" \/ i \in blamed
          /\ taskData' \in {taskData, [taskData EXCEPT ![i] = "none"]}
          /\ recovery' = NextId
      BY <1>12 DEF Del, QueueInv, RecoveryInv
    <2>2. taskData' \in [QueueIds -> DataStates]
      BY <2>1 DEF QueueInv, DataStates
    <2>3. RecoveryInv'
      BY <2>1 DEF QueueInv, RecoveryInv, Recoveries, NextId
    <2>4. RecoveryKeepsTasks'
      BY <2>1 DEF QueueInv, RecoveryKeepsTasks
    <2> QED
      BY <2>1, <2>2, <2>3, <2>4 DEF QueueInv
  <1>9. ASSUME NEW j \in Jobs, MkdirTemp(j) \/ JobWrites(j) \/ RemoveAll(j) \/ JobCrashes(j)
        PROVE  QueueInv'
    BY <1>9, QueueKept DEF MkdirTemp, JobWrites, RemoveAll, JobCrashes, BecomeDir, queueVars
  <1>10. CASE HalfHour \/ sweepStaleTempfiles
    BY <1>10, QueueKept DEF HalfHour, sweepStaleTempfiles, queueVars
  <1> QED
    BY <1>1, <1>2, <1>4, <1>5, <1>6, <1>7, <1>8, <1>9, <1>10, <1>11, <1>12 DEF LifecycleNext

-----------------------------------------------------------------------------
\* A directory in use is written to before the sweep may take it for stale.
LEMMA DirNext == DirInv /\ LifecycleNext => DirInv'
  <1> SUFFICES ASSUME DirInv, LifecycleNext PROVE DirInv'
    OBVIOUS
  <1>1. CASE Supervise \/ RunFleet \/ NotifyContext \/ Select \/ LRange \/ recoverNext \/ GetTaskInfo
            \/ LRem \/ Del
    BY <1>1, DirKept DEF Supervise, RunFleet, NotifyContext, Select, LRange, recoverNext, GetTaskInfo, LRem, Del
  <1>2. ASSUME NEW p \in Parts, runPart(p) \/ \E how \in {"failed", "stopped"} : PartEnds(p, how)
        PROVE  DirInv'
    BY <1>2, DirKept DEF runPart, PartEnds
  <1>3. ASSUME NEW i \in QueueIds,
               AsynqEnqueue(i) \/ AsynqDequeue(i) \/ AsynqDone(i) \/ AsynqRequeue(i) \/ KeyLost(i)
        PROVE  DirInv'
    BY <1>3, DirKept DEF AsynqEnqueue, AsynqDequeue, AsynqDone, AsynqRequeue, KeyLost, Move
  <1>4. ASSUME NEW j \in Jobs, NEW d \in Directories, dirs' = [dirs EXCEPT ![j] = d],
               d.state # "lost", d.state = "used" => d.age =< TempJobs[j].quiet
        PROVE  DirInv'
    BY <1>4 DEF DirInv, JobKeepsItsDir
  <1>5. ASSUME NEW j \in Jobs, MkdirTemp(j) \/ JobWrites(j) \/ RemoveAll(j) \/ JobCrashes(j)
        PROVE  DirInv'
    <2>1. dirs[j] \in Directories /\ 0 =< TempJobs[j].quiet
      BY LifecycleAssumption DEF DirInv, Jobs
    <2>2. CASE MkdirTemp(j)
      <3>1. /\ [NoDir EXCEPT !.state = "used"] \in Directories
            /\ [NoDir EXCEPT !.state = "used"].age = 0
            /\ [NoDir EXCEPT !.state = "used"].state # "lost"
        BY DEF NoDir, Directories
      <3> QED
        BY <1>4, <2>1, <2>2, <3>1 DEF MkdirTemp, BecomeDir
    <2>3. CASE JobWrites(j)
      <3>1. /\ [dirs[j] EXCEPT !.age = 0] \in Directories
            /\ [dirs[j] EXCEPT !.age = 0].age = 0
            /\ [dirs[j] EXCEPT !.age = 0].state = "used"
        BY <2>1, <2>3 DEF JobWrites, Directories
      <3> QED
        BY <1>4, <2>1, <2>3, <3>1 DEF JobWrites, BecomeDir
    <2>4. CASE RemoveAll(j)
      <3>1. NoDir \in Directories /\ NoDir.state = "none"
        BY DEF NoDir, Directories
      <3> QED
        BY <1>4, <2>4, <3>1 DEF RemoveAll, BecomeDir
    <2>5. CASE JobCrashes(j)
      <3>1. dirs' = [dirs EXCEPT ![j] = [dirs[j] EXCEPT !.state = "left"]]
        BY <2>5 DEF JobCrashes
      <3>2. /\ [dirs[j] EXCEPT !.state = "left"] \in Directories
            /\ [dirs[j] EXCEPT !.state = "left"].state = "left"
        BY <2>1 DEF Directories
      <3> QED
        BY <1>4, <3>1, <3>2
    <2> QED
      BY <1>5, <2>2, <2>3, <2>4, <2>5
  <1>6. CASE HalfHour
    <2>1. /\ dirs' = [j \in Jobs |-> IF dirs[j].state \in {"used", "left"}
                        THEN [dirs[j] EXCEPT !.age = @ + 1, !.life = @ + 1] ELSE dirs[j]]
          /\ \A j \in Jobs : dirs[j].state = "used" => dirs[j].age < TempJobs[j].quiet
      BY <1>6 DEF HalfHour
    <2>2. ASSUME NEW j \in Jobs
          PROVE  /\ dirs'[j] \in Directories
                 /\ dirs'[j].state = "used" => dirs'[j].age =< TempJobs[j].quiet
                 /\ dirs'[j].state # "lost"
      <3>1. dirs[j] \in Directories /\ dirs[j].state # "lost" /\ TempJobs[j].quiet \in Nat
        BY LifecycleAssumption DEF DirInv, JobKeepsItsDir, Jobs
      <3>2. CASE dirs[j].state \in {"used", "left"}
        <4>1. dirs'[j] = [dirs[j] EXCEPT !.age = dirs[j].age + 1, !.life = dirs[j].life + 1]
          BY <2>1, <3>2
        <4>2. dirs[j].age \in Nat /\ dirs[j].age + 1 \in Nat /\ dirs[j].life + 1 \in Nat
          BY <3>1 DEF Directories
        <4>3. dirs'[j] \in Directories /\ dirs'[j].state = dirs[j].state
              /\ dirs'[j].age = dirs[j].age + 1
          <5> DEFINE a == dirs[j].age + 1
                     l == dirs[j].life + 1
          <5>1. a \in Nat /\ l \in Nat /\ dirs'[j] = [dirs[j] EXCEPT !.age = a, !.life = l]
            BY <4>1, <4>2
          <5> HIDE DEF a, l
          <5>2. dirs'[j] \in Directories /\ dirs'[j].state = dirs[j].state /\ dirs'[j].age = a
            BY <3>1, <5>1 DEF Directories
          <5> QED
            BY <5>2 DEF a
        <4>4. dirs[j].state = "used" => dirs[j].age + 1 =< TempJobs[j].quiet
          <5>1. dirs[j].state = "used" => dirs[j].age < TempJobs[j].quiet
            BY <2>1
          <5> QED
            BY <3>1, <4>2, <5>1
        <4> QED
          BY <3>1, <4>3, <4>4
      <3>3. CASE dirs[j].state \notin {"used", "left"}
        BY <2>1, <3>1, <3>3
      <3> QED
        BY <3>2, <3>3
    <2>3. dirs' \in [Jobs -> Directories]
      BY <2>1, <2>2
    <2> QED
      BY <2>2, <2>3 DEF DirInv, JobKeepsItsDir
  <1>7. CASE sweepStaleTempfiles
    <2>1. dirs' = [j \in Jobs |->
            IF dirs[j].state \in {"used", "left"} /\ Stale(dirs[j])
            THEN IF dirs[j].state = "used" THEN [dirs[j] EXCEPT !.state = "lost"] ELSE NoDir
            ELSE dirs[j]]
      BY <1>7 DEF sweepStaleTempfiles
    <2>2. ASSUME NEW j \in Jobs PROVE dirs'[j] = dirs[j] \/ dirs'[j] = NoDir
      <3>1. dirs[j] \in Directories /\ TempJobs[j].quiet \in Nat /\ TempJobs[j].quiet < SweepAge
            /\ SweepAge \in Nat
        BY LifecycleAssumption DEF DirInv, Jobs
      <3>2. dirs[j].state = "used" => ~Stale(dirs[j])
        BY <3>1 DEF DirInv, Directories, Stale
      <3> QED
        BY <2>1, <3>2
    <2>3. NoDir \in Directories /\ NoDir.state = "none"
      BY DEF NoDir, Directories
    <2>4. dirs' \in [Jobs -> Directories]
      BY <2>1, <2>2, <2>3 DEF DirInv
    <2> QED
      BY <2>2, <2>3, <2>4 DEF DirInv, JobKeepsItsDir
  <1> QED
    BY <1>1, <1>2, <1>3, <1>5, <1>6, <1>7 DEF LifecycleNext

-----------------------------------------------------------------------------
\* A process that has not been started finds whatever queue the last one left.
LEMMA LifeInit == LifecycleInit => LifeInv
  <1> SUFFICES ASSUME LifecycleInit PROVE LifeInv
    OBVIOUS
  <1>1. ProcInv
    <2>1. Ended = {}
      BY DEF LifecycleInit, Ended
    <2>2. errCh = Cardinality(Ended)
      BY <2>1, FS_EmptySet DEF LifecycleInit
    <2>3. parts \in [Parts -> PartStates] /\ \A p \in Parts : parts[p] = "off"
      BY DEF LifecycleInit, PartStates
    <2> QED
      <3>1. 0 \in 0..StartSteps /\ 0 \in 0..MaxEvents /\ 0 \in 0..MaxTicks
        BY LifecycleAssumption
      <3> QED
        BY <2>2, <2>3, <3>1 DEF LifecycleInit, ProcInv
  <1>2. QueueInv
    <2>1. NoRecovery \in Recoveries /\ NoRecovery.stage = "none" /\ NoRecovery.todo = {}
      BY DEF NoRecovery, Recoveries
    <2>2. RecoveryKeepsTasks
      BY DEF LifecycleInit, RecoveryKeepsTasks
    <2>3. queued \in [QueueIds -> QueueStates] /\ taskData \in [QueueIds -> DataStates]
      BY DEF LifecycleInit, QueueStates, DataStates
    <2> QED
      BY <2>1, <2>2, <2>3 DEF LifecycleInit, QueueInv, RecoveryInv
  <1>3. DirInv
    <2>1. NoDir \in Directories /\ NoDir.state = "none"
      BY DEF NoDir, Directories
    <2> QED
      BY <2>1 DEF LifecycleInit, DirInv, JobKeepsItsDir
  <1> QED
    BY <1>1, <1>2, <1>3 DEF LifeInv

\* LifeInv is inductive.
LEMMA LifeStep == LifeInv /\ LifecycleNext => LifeInv'
  BY ProcNext, QueueNext, DirNext DEF LifeInv

\* LifeInv speaks of the variables of this part only.
LEMMA LifeSame == LifeInv /\ UNCHANGED lifeVars => LifeInv'
  <1> SUFFICES ASSUME LifeInv, UNCHANGED lifeVars PROVE LifeInv'
    OBVIOUS
  <1>1. ProcInv'
    BY ProcKept DEF LifeInv, lifeVars, ProcSame, processVars
  <1>2. QueueInv'
    BY QueueKept DEF LifeInv, lifeVars
  <1>3. DirInv'
    BY DirKept DEF LifeInv, lifeVars
  <1> QED
    BY <1>1, <1>2, <1>3 DEF LifeInv

\* The variables of the part have their types; the channel never holds more
\* reports than there are parts, which is what it is made for.
LEMMA LifeTypes == LifeInv => LifecycleTypeOK
  <1> SUFFICES ASSUME LifeInv PROVE LifecycleTypeOK
    OBVIOUS
  <1>1. Ended \subseteq Parts
    BY DEF Ended
  <1>2. /\ Cardinality(Ended) \in Nat /\ Cardinality(Parts) \in Nat
        /\ Cardinality(Ended) =< Cardinality(Parts)
    BY <1>1, LifecycleAssumption, FS_Subset, FS_CardinalityType
  <1>3. errCh \in 0..Cardinality(Parts)
    BY <1>2 DEF LifeInv, ProcInv
  <1>4. /\ recovery.stage \in {"none", "next", "inspect", "remove", "erase", "finished"}
        /\ recovery.todo \subseteq QueueIds
    BY DEF LifeInv, QueueInv, RecoveryInv, Recoveries
  <1>5. \A j \in Jobs : dirs[j].state \in {"none", "used", "left", "lost"}
    BY DEF LifeInv, DirInv, Directories
  <1> QED
    BY <1>3, <1>4, <1>5 DEF LifeInv, ProcInv, QueueInv, LifecycleTypeOK, PartStates, QueueStates, DataStates
=============================================================================
