--------------------------- MODULE Downloads_proofs ---------------------------
(***************************************************************************)
(* Proofs about Downloads, for any users, jobs, queues and environment.    *)
(***************************************************************************)
EXTENDS Downloads, TLAPS

\* Attempts are the two executions asynq.MaxRetry(1) allows.
LEMMA AttemptsAre == Attempts = {0, 1} /\ MaxRetry = 1
  BY DEF Attempts, MaxRetry

-----------------------------------------------------------------------------
(* Type correctness.                                                       *)

\* The first state is well typed.
LEMMA InitType == Init => TypeOK
  BY AttemptsAre, DownloadsAssumption
  DEF Init, TypeOK, TaskStates, Phases, Notices, ClearSteps

\* The handler, its crash and the cancel tap keep the types.
LEMMA BotType ==
  ASSUME TypeOK, NEW j \in Jobs,
         Admit(j) \/ BotStep(j) \/ BotCrash(j) \/ CancelFlag(j) \/ ExpireCancel(j)
  PROVE  TypeOK'
  <1> USE DownloadsAssumption
  <1>1. CASE Admit(j)
    <2>1. task' \in [Jobs -> TaskStates]
      <3>1. \/ task' = [task EXCEPT ![j] = "admitted"]
            \/ task' = [task EXCEPT ![j] = "refused"]
        BY <1>1 DEF Admit
      <3>2. task \in [Jobs -> TaskStates] /\ {"admitted", "refused"} \subseteq TaskStates
        BY DEF TypeOK, TaskStates
      <3> QED
        BY <3>1, <3>2
    <2>2. lock' \in [Users -> Jobs \cup {None}]
      <3>1. CASE AcquireUserLock(j)
        BY <3>1 DEF AcquireUserLock, TypeOK
      <3>2. CASE UNCHANGED lock
        BY <3>2 DEF TypeOK
      <3> QED
        BY <1>1, <3>1, <3>2 DEF Admit
    <2> QED
      BY <1>1, <2>1, <2>2 DEF Admit, TypeOK, workerVars, clearVars
  <1>2. ASSUME GiveUp(j) PROVE TypeOK'
    BY <1>2 DEF GiveUp, ReleaseUserLock, TypeOK, TaskStates, workerVars, clearVars
  <1>3. CASE PostStatus(j)
    <2>1. CASE GiveUp(j)
      BY <1>2, <2>1
    <2>2. CASE ~GiveUp(j)
      <3>1. /\ task' = [task EXCEPT ![j] = "posted"]
            /\ notice' = [notice EXCEPT ![j] = "downloading"]
            /\ UNCHANGED <<redisVars, clearVars, hurt, workerVars>>
        BY <1>3, <2>2 DEF PostStatus
      <3> QED
        BY <3>1 DEF TypeOK, TaskStates, Notices, workerVars, clearVars, redisVars
    <2> QED
      BY <2>1, <2>2
  <1>4. CASE Submit(j)
    <2>1. CASE GiveUp(j)
      BY <1>2, <2>1
    <2>2. CASE ~GiveUp(j)
      <3>1. /\ task' = [task EXCEPT ![j] = "pending"]
            /\ UNCHANGED <<redisVars, notice, clearVars, hurt, workerVars>>
        BY <1>4, <2>2 DEF Submit
      <3> QED
        BY <3>1 DEF TypeOK, TaskStates, workerVars, clearVars, redisVars
    <2> QED
      BY <2>1, <2>2
  <1>5. CASE CancelRelease(j)
    <2>1. lock' \in [Users -> Jobs \cup {None}] /\ lapsed' \in SUBSET Jobs
      BY <1>5 DEF CancelRelease, ReleaseUserLock, TypeOK
    <2>2. tapped' \in SUBSET Jobs
      BY <1>5 DEF CancelRelease, TypeOK
    <2>3. notice' \in [Jobs -> Notices]
      <3>1. notice' = [notice EXCEPT ![j] = "cancelled"] \/ UNCHANGED notice
        BY <1>5 DEF CancelRelease
      <3> QED
        BY <3>1 DEF TypeOK, Notices
    <2> QED
      BY <1>5, <2>1, <2>2, <2>3 DEF CancelRelease, TypeOK, workerVars, clearVars
  <1>6. CASE BotCrash(j)
    BY <1>6 DEF BotCrash, TypeOK, TaskStates, workerVars, clearVars, redisVars
  <1>7. CASE CancelFlag(j)
    BY <1>7 DEF CancelFlag, SetDownloadCancelled, TypeOK, workerVars, clearVars
  <1>8. CASE ExpireCancel(j)
    BY <1>8 DEF ExpireCancel, TypeOK, workerVars, clearVars
  <1> QED
    BY <1>1, <1>3, <1>4, <1>5, <1>6, <1>7, <1>8 DEF BotStep

\* A failed task is retried at most MaxRetry times.
LEMMA FailTaskType ==
  ASSUME TypeOK, NEW j \in Jobs, FailTask(j)
  PROVE  /\ task' \in [Jobs -> TaskStates]
         /\ retried' \in [Jobs -> Attempts]
  <1>1. CASE retried[j] < MaxRetry
    <2>1. /\ task' = [task EXCEPT ![j] = "retry"]
          /\ retried' = [retried EXCEPT ![j] = @ + 1]
      BY <1>1, AttemptsAre DEF FailTask, TypeOK
    <2>2. retried[j] + 1 \in Attempts
      BY <1>1, AttemptsAre DEF TypeOK
    <2> QED
      BY <2>1, <2>2 DEF TypeOK, TaskStates
  <1>2. CASE ~(retried[j] < MaxRetry)
    BY <1>2, AttemptsAre DEF FailTask, TypeOK, TaskStates
  <1> QED
    BY <1>1, <1>2

\* asynq's own steps on a task, a deadline included, keep the types.
LEMMA AsynqType ==
  ASSUME TypeOK, NEW j \in Jobs, AsynqStep(j) \/ CtxDone(j)
  PROVE  TypeOK'
  <1> USE DownloadsAssumption, AttemptsAre
  <1>1. CASE Dequeue(j)
    BY <1>1 DEF Dequeue, TypeOK, TaskStates, Phases, redisVars
  <1>2. CASE Forward(j)
    BY <1>2 DEF Forward, TypeOK, TaskStates, redisVars, workerVars, clearVars
  <1>3. CASE Recover(j)
    BY <1>3, FailTaskType DEF Recover, TypeOK, redisVars, clearVars
  <1>4. CASE CtxDone(j)
    BY <1>4, FailTaskType DEF CtxDone, TypeOK, redisVars, clearVars
  <1> QED
    BY <1>1, <1>2, <1>3, <1>4 DEF AsynqStep

\* Moving one attempt keeps the table of attempts well typed.
LEMMA GotoType ==
  ASSUME TypeOK, NEW j \in Jobs, NEW r \in Attempts,
         NEW phase \in Phases, Goto(j, r, phase)
  PROVE  exec' \in [Jobs -> [Attempts -> Phases]]
  BY DEF TypeOK, Goto

\* A shown notice, or a failed edit, keeps the types.
LEMMA ShowType ==
  ASSUME TypeOK, NEW j \in Jobs,
         \/ \E shown \in Notices : Show(j, shown)
         \/ notice' = notice /\ hurt' \in SUBSET Jobs
  PROVE  notice' \in [Jobs -> Notices] /\ hurt' \in SUBSET Jobs
  <1>1. CASE \E shown \in Notices : Show(j, shown)
    <2>1. PICK shown \in Notices : Show(j, shown)
      BY <1>1
    <2>2. CASE notice' = [notice EXCEPT ![j] = shown] /\ UNCHANGED hurt
      BY <2>2 DEF TypeOK
    <2>3. CASE hurt' = hurt \cup {j} /\ UNCHANGED notice
      BY <2>3 DEF TypeOK
    <2> QED
      BY <2>1, <2>2, <2>3 DEF Show
  <1>2. CASE notice' = notice /\ hurt' \in SUBSET Jobs
    BY <1>2 DEF TypeOK
  <1> QED
    BY <1>1, <1>2

\* The worker's steps keep the types.
LEMMA WorkerType ==
  ASSUME TypeOK, NEW j \in Jobs, NEW r \in Attempts, WorkerStep(j, r)
  PROVE  TypeOK'
  <1> USE DownloadsAssumption, AttemptsAre
  <1>0. exec' \in [Jobs -> [Attempts -> Phases]]
    <2>1. CASE Settle(j, r)
      BY <2>1 DEF Settle, TypeOK, Phases
    <2>2. CASE ~Settle(j, r)
      <3>1. \E phase \in Phases : Goto(j, r, phase)
        BY <2>2 DEF WorkerStep, CheckCancelled, Begin, Fetch, Send, Conclude, Show,
                    Return, Phases
      <3> QED
        BY <3>1, GotoType
    <2> QED
      BY <2>1, <2>2
  <1>1. CASE CheckCancelled(j, r)
    <2>1. \/ \E shown \in Notices : Show(j, shown)
          \/ notice' = notice /\ hurt' \in SUBSET Jobs
      BY <1>1 DEF CheckCancelled, TypeOK, Notices
    <2>2. notice' \in [Jobs -> Notices] /\ hurt' \in SUBSET Jobs
      BY <2>1, ShowType
    <2> QED
      BY <1>0, <1>1, <2>2
      DEF CheckCancelled, TypeOK, workerRest, clearVars
  <1>2. CASE Begin(j, r)
    BY <1>0, <1>2 DEF Begin, TypeOK, Notices, workerRest, clearVars
  <1>3. CASE Fetch(j, r)
    <2>1. \/ \E shown \in Notices : Show(j, shown)
          \/ notice' = notice /\ hurt' \in SUBSET Jobs
      BY <1>3 DEF Fetch, TypeOK, Notices
    <2>2. notice' \in [Jobs -> Notices] /\ hurt' \in SUBSET Jobs
      BY <2>1, ShowType
    <2> QED
      BY <1>0, <1>3, <2>2
      DEF Fetch, TypeOK, workerRest, clearVars
  <1>4. CASE Send(j, r)
    <2>1. \/ \E shown \in Notices : Show(j, shown)
          \/ notice' = notice /\ hurt' \in SUBSET Jobs
      BY <1>4 DEF Send, TypeOK, Notices
    <2>2. notice' \in [Jobs -> Notices] /\ hurt' \in SUBSET Jobs
      BY <2>1, ShowType
    <2>3. delivered' \in [Jobs -> Nat]
      <3>1. CASE UNCHANGED delivered
        BY <3>1 DEF TypeOK
      <3>2. CASE delivered' = [delivered EXCEPT ![j] = @ + 1]
        BY <3>2 DEF TypeOK
      <3> QED
        BY <1>4, <3>1, <3>2 DEF Send
    <2> QED
      BY <1>0, <1>4, <2>2, <2>3
      DEF Send, TypeOK, workerRest, clearVars
  <1>5. CASE Conclude(j, r)
    <2>1. notice' \in [Jobs -> Notices] /\ hurt' \in SUBSET Jobs
      BY <1>5, ShowType DEF Conclude, Notices
    <2> QED
      BY <1>0, <1>5, <2>1 DEF Conclude, TypeOK, workerRest, clearVars
  <1>6. CASE Return(j, r)
    BY <1>0, <1>6 DEF Return, ReleaseUserLock, TypeOK, clearVars
  <1>7. CASE Settle(j, r)
    <2>1. task' \in [Jobs -> TaskStates] /\ retried' \in [Jobs -> Attempts]
      <3>1. \/ UNCHANGED <<task, retried>>
            \/ task' = [task EXCEPT ![j] = "completed"] /\ UNCHANGED retried
            \/ FailTask(j)
        BY <1>7 DEF Settle
      <3>2. /\ task \in [Jobs -> TaskStates] /\ "completed" \in TaskStates
            /\ retried \in [Jobs -> Attempts]
        BY DEF TypeOK, TaskStates
      <3> QED
        BY <3>1, <3>2, FailTaskType
    <2>2. killreq' \in SUBSET Jobs
      BY <1>7 DEF Settle, TypeOK
    <2> QED
      BY <1>0, <1>7, <2>1, <2>2 DEF Settle, TypeOK, redisVars, clearVars
  <1> QED
    BY <1>1, <1>2, <1>3, <1>4, <1>5, <1>6, <1>7 DEF WorkerStep

\* /clear deletes tasks of its user that wait in one state, and what it leaves
\* of them is noted as missed.
LEMMA DeletesWaiting ==
  ASSUME NEW u \in Users, NEW from, NEW state, DeleteTasks(u, from, state)
  PROVE  \E deleted \in SUBSET UserTasks(u, state), left \in SUBSET UserTasks(u, state) :
           /\ task' = [j \in Jobs |-> IF j \in deleted THEN "deleted" ELSE task[j]]
           /\ hurt' = hurt \cup deleted
           /\ missed' = missed \cup left
           /\ left = UserTasks(u, state) \ deleted
           /\ cleared' = [cleared EXCEPT ![u] = @ \/ deleted # {}]
  <1> DEFINE waiting == UserTasks(u, state)
  <1>1. PICK page \in FirstPages(state) : \E failed \in Failing(waiting \cap page) :
          LET deleted == (waiting \cap page) \ failed
          IN  /\ cleared' = [cleared EXCEPT ![u] = @ \/ deleted # {}]
              /\ task' = [j \in Jobs |-> IF j \in deleted THEN "deleted" ELSE task[j]]
              /\ hurt' = hurt \cup deleted
              /\ missed' = missed \cup (waiting \ page) \cup failed
    BY DEF DeleteTasks
  <1>2. PICK failed \in Failing(waiting \cap page) :
          LET deleted == (waiting \cap page) \ failed
          IN  /\ cleared' = [cleared EXCEPT ![u] = @ \/ deleted # {}]
              /\ task' = [j \in Jobs |-> IF j \in deleted THEN "deleted" ELSE task[j]]
              /\ hurt' = hurt \cup deleted
              /\ missed' = missed \cup (waiting \ page) \cup failed
    BY <1>1
  <1> DEFINE gone == (waiting \cap page) \ failed
             left == waiting \ gone
  <1>3. failed \subseteq waiting \cap page
    BY DEF Failing
  <1>4. left = (waiting \ page) \cup failed
    BY <1>3
  <1>5. missed' = missed \cup left
    BY <1>2, <1>4
  <1>6. /\ cleared' = [cleared EXCEPT ![u] = @ \/ gone # {}]
        /\ task' = [j \in Jobs |-> IF j \in gone THEN "deleted" ELSE task[j]]
        /\ hurt' = hurt \cup gone
    BY <1>2
  <1>7. gone \in SUBSET waiting /\ left \in SUBSET waiting
    OBVIOUS
  <1> HIDE DEF gone, left, waiting
  <1>8. left = waiting \ gone
    BY DEF left
  <1> QED
    BY <1>5, <1>6, <1>7, <1>8 DEF waiting

\* The steps of /clear and the expiring lock keep the types.
LEMMA UserType ==
  ASSUME TypeOK, NEW u \in Users, UserStep(u)
  PROVE  TypeOK'
  <1> USE DownloadsAssumption
  <1>1. CASE ExpireLock(u)
    BY <1>1 DEF ExpireLock, TypeOK, workerVars, clearVars
  <1>2. CASE ClearSee(u)
    BY <1>2 DEF ClearSee, SetDownloadCancelled, TypeOK, ClearSteps, workerVars, clearVars
  <1>3. CASE ClearFree(u)
    <2>1. clr' \in [Users -> ClearSteps]
      BY <1>3 DEF ClearFree, TypeOK, ClearSteps
    <2>2. lock' \in [Users -> Jobs \cup {None}]
      BY <1>3 DEF ClearFree, TypeOK
    <2>3. lapsed' \in SUBSET Jobs
      <3>1. lock[u] \in Jobs \cup {None} /\ lapsed \in SUBSET Jobs
        BY DEF TypeOK
      <3> QED
        BY <1>3, <3>1 DEF ClearFree
    <2> QED
      BY <1>3, <2>1, <2>2, <2>3 DEF ClearFree, TypeOK, workerVars
  <1>4. CASE ClearActive(u)
    <2>1. killreq' \in SUBSET Jobs
      BY <1>4 DEF ClearActive, UserTasks, TypeOK
    <2>2. refs' \in [Users -> SUBSET Jobs] /\ cleared' \in [Users -> BOOLEAN]
      BY <1>4 DEF ClearActive, UserTasks, TypeOK
    <2>3. /\ clr' = [clr EXCEPT ![u] = "active"]
          /\ UNCHANGED <<redisVars, task, retried, exec, dead, notice, delivered,
                         stops, hurt, snap, missed>>
      BY <1>4 DEF ClearActive
    <2> QED
      BY <2>1, <2>2, <2>3 DEF TypeOK, ClearSteps, redisVars
  <1>5. ASSUME NEW from, NEW state \in {"pending", "retry"}, DeleteTasks(u, from, state)
        PROVE  TypeOK'
    <2>1. UserTasks(u, state) \subseteq Jobs
      BY DEF UserTasks
    <2>2. PICK deleted \in SUBSET UserTasks(u, state), left \in SUBSET UserTasks(u, state) :
           /\ task' = [j \in Jobs |-> IF j \in deleted THEN "deleted" ELSE task[j]]
           /\ hurt' = hurt \cup deleted
           /\ missed' = missed \cup left
           /\ cleared' = [cleared EXCEPT ![u] = @ \/ deleted # {}]
      BY <1>5, DeletesWaiting
    <2>3. /\ hurt' \in SUBSET Jobs /\ missed' \in SUBSET Jobs
          /\ cleared' \in [Users -> BOOLEAN] /\ task' \in [Jobs -> TaskStates]
      BY <2>1, <2>2 DEF TypeOK, TaskStates
    <2>4. /\ clr' = [clr EXCEPT ![u] = state]
          /\ UNCHANGED <<redisVars, notice, refs, snap, workerVars>>
      BY <1>5 DEF DeleteTasks
    <2> QED
      BY <2>3, <2>4 DEF TypeOK, ClearSteps, redisVars, workerVars
  <1>6. CASE ClearPending(u) \/ ClearRetry(u)
    BY <1>5, <1>6 DEF ClearPending, ClearRetry
  <1>7. CASE ClearFail(u)
    BY <1>7 DEF ClearFail, TypeOK, ClearSteps, redisVars, workerVars, clearVars
  <1>8. CASE ClearReply(u)
    BY <1>8 DEF ClearReply, SetDownloadCancelled, TypeOK, ClearSteps, workerVars, clearVars
  <1> QED
    BY <1>1, <1>2, <1>3, <1>4, <1>6, <1>7, <1>8 DEF UserStep, ClearStep

\* A shutdown or a crash of the worker keeps the types.
LEMMA StopType ==
  ASSUME TypeOK, Shutdown \/ Crash
  PROVE  TypeOK'
  BY DownloadsAssumption, AttemptsAre
  DEF Shutdown, Crash, KillWorkers, TypeOK, Phases, TaskStates, clearVars

\* TypeOK is inductive.
LEMMA NextType == TypeOK /\ [Next]_vars => TypeOK'
  <1> SUFFICES ASSUME TypeOK, [Next]_vars PROVE TypeOK'
    OBVIOUS
  <1>1. ASSUME NEW j \in Jobs, JobStep(j) PROVE TypeOK'
    BY <1>1, BotType, AsynqType, WorkerType DEF JobStep
  <1>2. CASE UNCHANGED vars
    BY <1>2 DEF vars, TypeOK
  <1> QED
    BY <1>1, <1>2, UserType, StopType DEF Next

\* Every reachable state is well typed: in particular asynq's retry count never
\* leaves the two attempts MaxRetry(1) allows, so no task is run a third time
\* because of errors.
THEOREM TypeCorrect == Spec => []TypeOK
  BY InitType, NextType, PTL DEF Spec
-----------------------------------------------------------------------------
(* asynq's bookkeeping, which needs nothing but the types.                 *)

\* CurrentExec is inductive relative to TypeOK: an attempt starts only
\* when the one before it ended or its context was done.
LEMMA CurrentNext == TypeOK /\ CurrentExec /\ [Next]_vars => CurrentExec'
  <1> USE DownloadsAssumption
  <1> SUFFICES ASSUME TypeOK, CurrentExec, [Next]_vars PROVE CurrentExec'
    OBVIOUS
  <1>0. TypeOK'
    BY NextType
  \* The job keeps its executions and its attempt, and is not taken from active.
  <1>1. ASSUME UNCHANGED <<exec, dead, retried>>,
               \A j \in Jobs : task[j] = "active" => task'[j] = "active"
        PROVE  CurrentExec'
    BY <1>1 DEF CurrentExec
  <1>2. ASSUME NEW j \in Jobs, JobStep(j) PROVE CurrentExec'
    <2>1. CASE Admit(j) \/ BotStep(j) \/ BotCrash(j) \/ CancelFlag(j) \/ ExpireCancel(j)
      <3>1. UNCHANGED <<exec, dead, retried>>
        BY <2>1 DEF Admit, BotStep, PostStatus, Submit, GiveUp, CancelRelease,
                    BotCrash, CancelFlag, ExpireCancel, workerVars
      <3>2. \A k \in Jobs : task[k] = "active" => task'[k] = "active"
        BY <2>1 DEF Admit, BotStep, PostStatus, Submit, GiveUp, CancelRelease,
                    BotCrash, CancelFlag, ExpireCancel, TypeOK
      <3> QED
        BY <1>1, <3>1, <3>2
    <2>2. CASE Dequeue(j)
      BY <2>2 DEF Dequeue, CurrentExec, TypeOK
    <2>3. CASE Forward(j)
      <3>1. UNCHANGED <<exec, dead, retried>>
        BY <2>3 DEF Forward, workerVars
      <3>2. \A k \in Jobs : task[k] = "active" => task'[k] = "active"
        BY <2>3 DEF Forward, TypeOK
      <3> QED
        BY <1>1, <3>1, <3>2
    <2>4. CASE Recover(j) \/ CtxDone(j)
      <3>1. \A k \in Jobs : k # j => task'[k] = task[k] /\ retried'[k] = retried[k]
                                      /\ dead'[k] = dead[k]
        BY <2>4 DEF Recover, CtxDone, FailTask, TypeOK
      <3>2. exec' = exec
        BY <2>4 DEF Recover, CtxDone
      <3>3. \A r \in Attempts : exec[j][r] # "none" => r \in dead'[j]
        BY <2>4 DEF Recover, CtxDone, Running, CurrentExec, TypeOK
      <3> QED
        BY <3>1, <3>2, <3>3 DEF CurrentExec
    <2>5. ASSUME NEW r \in Attempts, WorkerStep(j, r) PROVE CurrentExec'
      <3>1. CASE Settle(j, r)
        <4>1. /\ \A k \in Jobs : k # j => task'[k] = task[k] /\ retried'[k] = retried[k]
              /\ dead' = dead
          BY <3>1 DEF Settle, FailTask, TypeOK
        <4>2. /\ \A k \in Jobs : k # j => exec'[k] = exec[k]
              /\ \A q \in Attempts : q # r => exec'[j][q] = exec[j][q]
              /\ exec'[j][r] = "none" /\ exec[j][r] # "none"
          BY <3>1 DEF Settle, TypeOK
        <4>3. r \in dead[j] => UNCHANGED <<task, retried>>
          BY <3>1 DEF Settle
        <4> QED
          BY <4>1, <4>2, <4>3 DEF CurrentExec
      <3>2. CASE ~Settle(j, r)
        <4>1. UNCHANGED <<task, retried, dead>> /\ exec[j][r] # "none"
          BY <2>5, <3>2 DEF WorkerStep, CheckCancelled, Begin, Fetch, Send, Conclude, Show,
                            Return, workerRest
        <4>2. \E phase \in Phases : Goto(j, r, phase)
          BY <2>5, <3>2 DEF WorkerStep, CheckCancelled, Begin, Fetch, Send, Conclude, Show,
                            Return, Phases
        <4>3. /\ \A k \in Jobs : k # j => exec'[k] = exec[k]
              /\ \A q \in Attempts : q # r => exec'[j][q] = exec[j][q]
          BY <4>2 DEF Goto, TypeOK
        <4> QED
          BY <4>1, <4>3 DEF CurrentExec
      <3> QED
        BY <3>1, <3>2
    <2> QED
      BY <1>2, <2>1, <2>2, <2>3, <2>4, <2>5 DEF JobStep, AsynqStep
  <1>3. ASSUME NEW u \in Users, UserStep(u) PROVE CurrentExec'
    <2>1. UNCHANGED <<exec, dead, retried>>
      BY <1>3 DEF UserStep, ExpireLock, ClearSee, ClearStep, ClearFree, ClearActive,
                  ClearPending, ClearRetry, DeleteTasks, ClearFail, ClearReply, workerVars
    <2>2. CASE ClearPending(u) \/ ClearRetry(u)
      <3>1. \A k \in Jobs : task[k] = "active" => task'[k] = "active"
        <4>1. PICK state \in {"pending", "retry"} : \E from : DeleteTasks(u, from, state)
          BY <2>2 DEF ClearPending, ClearRetry
        <4>2. PICK deleted \in SUBSET UserTasks(u, state) :
                task' = [j \in Jobs |-> IF j \in deleted THEN "deleted" ELSE task[j]]
          BY <4>1, DeletesWaiting
        <4> QED
          BY <4>2 DEF UserTasks
      <3> QED
        BY <1>1, <2>1, <3>1
    <2>3. CASE ~(ClearPending(u) \/ ClearRetry(u))
      <3>1. task' = task
        BY <1>3, <2>3 DEF UserStep, ExpireLock, ClearSee, ClearStep, ClearFree,
                          ClearActive, ClearFail, ClearReply
      <3> QED
        BY <1>1, <2>1, <3>1
    <2> QED
      BY <2>2, <2>3
  <1>4. CASE Shutdown \/ Crash
    BY <1>4 DEF Shutdown, Crash, KillWorkers, CurrentExec
  <1>5. CASE UNCHANGED vars
    BY <1>1, <1>5 DEF vars
  <1> QED
    BY <1>2, <1>3, <1>4, <1>5 DEF Next

\* asynq never has two executions of one task that are both allowed to run: an
\* execution that is not the current attempt of an active task has a context
\* that is done, whatever deadlines, retries, shutdowns and crashes came before.
THEOREM OneExecution == Spec => []CurrentExec
  <1>1. Init => CurrentExec
    BY DEF Init, CurrentExec
  <1> QED
    BY <1>1, TypeCorrect, CurrentNext, PTL DEF Spec
-----------------------------------------------------------------------------
(* Frames: what a step may do to the parts of IInv without breaking them.  *)

\* The first state satisfies IInv.
LEMMA InitInv == Init => IInv
  <1> SUFFICES ASSUME Init PROVE IInv
    OBVIOUS
  <1>1. TypeOK
    BY InitType
  <1>2. LockInv
    BY DownloadsAssumption
    DEF Init, LockInv, OwnerKeepsLock, LockBelongs, IdleIsFresh, LapsedIsGone, Live
  <1>3. OrderlyInv
    BY AttemptsAre DEF Init, OrderlyInv, Orderly
  <1>4. CancelHonoured
    BY DEF Init, CancelHonoured
  <1> QED
    BY <1>1, <1>2, <1>3, <1>4 DEF IInv

\* A step that takes no lock, and records whatever lock entry it removes as
\* lapsed, preserves LockInv if it keeps undisturbed lock holders live.
LEMMA LockFrame ==
  ASSUME IInv, TypeOK', lapsed \subseteq lapsed', hurt \subseteq hurt',
         \A u \in Users : lock'[u] \in {lock[u], None},
         \A u \in Users : lock'[u] # lock[u] => lock[u] \in lapsed',
         \A j \in lapsed' : lock'[Owner[j]] # j,
         \A j \in Jobs : task'[j] = "idle" <=> task[j] = "idle",
         \A j \in Jobs : task[j] = "idle" =>
             /\ j \notin lapsed' /\ j \notin tapped' /\ notice'[j] = "none"
             /\ \A r \in Attempts : exec'[j][r] = "none",
         \A j \in Jobs : Live(j)' => Live(j),
         \A j \in Jobs : j \notin hurt' /\ Live(j) /\ lock'[Owner[j]] = j
             => Live(j)'
  PROVE  LockInv'
  <1> USE DownloadsAssumption
  <1>1. OwnerKeepsLock'
    BY DEF IInv, LockInv, OwnerKeepsLock, LockBelongs, TypeOK, TakesLock
  <1>2. LockBelongs'
    BY DEF IInv, LockInv, LockBelongs, TypeOK, TakesLock
  <1>3. IdleIsFresh' /\ LapsedIsGone'
    BY DEF IdleIsFresh, LapsedIsGone
  <1> QED
    BY <1>1, <1>2, <1>3 DEF LockInv

\* The common case: the lock table is not touched at all.
LEMMA LockUntouched ==
  ASSUME IInv, TypeOK', UNCHANGED <<lock, lapsed>>, hurt \subseteq hurt',
         \A j \in Jobs : task'[j] = "idle" <=> task[j] = "idle",
         \A j \in Jobs : task[j] = "idle" =>
             /\ j \notin tapped' /\ notice'[j] = "none"
             /\ \A r \in Attempts : exec'[j][r] = "none",
         \A j \in Jobs : Live(j)' => Live(j),
         \A j \in Jobs : j \notin hurt' /\ Live(j) /\ lock[Owner[j]] = j
             => Live(j)'
  PROVE  LockInv'
  <1>1. \A j \in Jobs : task[j] = "idle" => j \notin lapsed'
    BY DEF IInv, LockInv, IdleIsFresh
  <1>2. \A j \in lapsed' : lock'[Owner[j]] # j
    BY DEF IInv, LockInv, LapsedIsGone
  <1> QED
    BY <1>1, <1>2, LockFrame

\* ReleaseUserLock of a job that has been handled.
LEMMA LockReleased ==
  ASSUME IInv, TypeOK', NEW k \in Jobs, ReleaseUserLock(k), task[k] # "idle",
         hurt \subseteq hurt',
         \A j \in Jobs : task'[j] = "idle" <=> task[j] = "idle",
         \A j \in Jobs : task[j] = "idle" =>
             /\ j \notin tapped' /\ notice'[j] = "none"
             /\ \A r \in Attempts : exec'[j][r] = "none",
         \A j \in Jobs : Live(j)' => Live(j),
         \A j \in Jobs : j # k /\ Live(j) => Live(j)'
  PROVE  LockInv'
  <1> USE DownloadsAssumption
  <1>1. lapsed' = lapsed \cup {k}
    BY DEF ReleaseUserLock
  <1>2. \A u \in Users : lock'[u] \in {lock[u], None}
    BY DEF ReleaseUserLock, IInv, TypeOK
  <1>3. \A u \in Users : lock'[u] # lock[u] => lock[u] \in lapsed'
    BY <1>1 DEF ReleaseUserLock, IInv, TypeOK
  <1>4. lock'[Owner[k]] # k
    BY DEF ReleaseUserLock, IInv, TypeOK
  <1>5. \A j \in lapsed' : lock'[Owner[j]] # j
    <2>1. \A j \in lapsed : j \in Jobs /\ lock[Owner[j]] # j
      BY DEF IInv, LockInv, LapsedIsGone, TypeOK
    <2> QED
      BY <1>1, <1>2, <1>4, <2>1
  <1>6. \A j \in Jobs : task[j] = "idle" => j \notin lapsed'
    BY <1>1 DEF IInv, LockInv, IdleIsFresh
  <1> QED
    BY <1>1, <1>2, <1>3, <1>4, <1>5, <1>6, LockFrame

\* A job the step does not work on stays orderly.
LEMMA OrderlyFrame ==
  ASSUME IInv, NEW k \in Jobs, k \notin hurt,
         dead'[k] = dead[k], exec'[k] = exec[k], retried'[k] = retried[k],
         delivered'[k] = delivered[k], lapsed \subseteq lapsed',
         task'[k] = "active" <=> task[k] = "active",
         task'[k] = "completed" <=> task[k] = "completed",
         notice'[k] = notice[k] \/ Answered(k)'
  PROVE  Orderly(k)'
  <1>1. Orderly(k)
    BY DEF IInv, OrderlyInv
  <1> QED
    BY <1>1 DEF Orderly, Answered, TakesLock

\* No cancel flag is raised and no handler passes its check.
LEMMA CancelFrame ==
  ASSUME IInv, hurt \subseteq hurt',
         \A j \in Jobs : flag'[j] => flag[j],
         \A j \in Jobs : raced[j] \subseteq raced'[j],
         \A j \in Jobs : \A r \in Attempts :
             InBody(j, r)' /\ flag'[j] /\ j \notin hurt' /\ TakesLock(j)
                 => InBody(j, r)
  PROVE  CancelHonoured'
  BY DEF IInv, CancelHonoured, TakesLock

\* Raising the cancel flag excuses exactly the attempts past the check.
LEMMA CancelSet ==
  ASSUME IInv, NEW S \in SUBSET Jobs, SetDownloadCancelled(S),
         UNCHANGED <<exec, hurt>>
  PROVE  CancelHonoured'
  BY DEF IInv, CancelHonoured, SetDownloadCancelled, InBody, TakesLock, TypeOK
-----------------------------------------------------------------------------
(* One lemma per group of actions: each preserves IInv.                    *)

\* Taking the lock with a fresh token keeps IInv.
LEMMA AdmitInv ==
  ASSUME IInv, NEW j \in Jobs, Admit(j)
  PROVE  IInv'
  <1> USE DownloadsAssumption
  <1>1. TypeOK'
    BY BotType DEF IInv
  <1>2. LockInv'
    <2>0. task[j] = "idle" /\ j \notin lapsed /\ j \notin tapped
      BY DEF Admit, IInv, LockInv, IdleIsFresh
    <2>1. CASE AcquireUserLock(j) /\ TakesLock(j)
      <3>0. /\ lock[Owner[j]] = None
            /\ lock' = [lock EXCEPT ![Owner[j]] = j]
            /\ task' = [task EXCEPT ![j] = "admitted"]
            /\ UNCHANGED <<lapsed, tapped, notice, hurt, exec>>
        BY <2>1 DEF Admit, AcquireUserLock, IInv, TypeOK, workerVars
      <3>1. OwnerKeepsLock'
        BY <2>0, <3>0 DEF IInv, LockInv, OwnerKeepsLock, TypeOK, Live, TakesLock
      <3>2. LockBelongs'
        BY <2>0, <2>1, <3>0 DEF IInv, LockInv, LockBelongs, TypeOK, Live, TakesLock
      <3>3. IdleIsFresh' /\ LapsedIsGone'
        BY <2>0, <3>0 DEF IInv, LockInv, IdleIsFresh, LapsedIsGone, TypeOK
      <3> QED
        BY <3>1, <3>2, <3>3 DEF LockInv
    <2>2. CASE ~(AcquireUserLock(j) /\ TakesLock(j))
      <3>0. /\ \/ task' = [task EXCEPT ![j] = "refused"]
               \/ task' = [task EXCEPT ![j] = "admitted"] /\ ~TakesLock(j)
            /\ UNCHANGED <<lock, lapsed, tapped, notice, hurt, exec>>
        BY <2>2 DEF Admit, workerVars
      <3>1. OwnerKeepsLock'
        BY <2>0, <3>0 DEF IInv, LockInv, OwnerKeepsLock, TypeOK, Live, TakesLock
      <3>2. LockBelongs'
        <4>1. \A k \in Jobs : k # j => task'[k] = task[k]
          BY <3>0 DEF IInv, TypeOK
        <4>2. \A u \in Users : lock[u] # None => lock[u] \in Jobs /\ lock[u] # j
          BY <2>0 DEF IInv, LockInv, LockBelongs, TypeOK
        <4> QED
          BY <3>0, <4>1, <4>2 DEF IInv, LockInv, LockBelongs, Live, TakesLock
      <3>3. IdleIsFresh' /\ LapsedIsGone'
        BY <2>0, <3>0 DEF IInv, LockInv, IdleIsFresh, LapsedIsGone, TypeOK
      <3> QED
        BY <3>1, <3>2, <3>3 DEF LockInv
    <2> QED
      BY <2>1, <2>2
  <1>3. OrderlyInv'
    <2>1. \A k \in Jobs : task'[k] = task[k] \/ (task[k] = "idle" /\
                             task'[k] \in {"admitted", "refused"})
      BY DEF Admit, IInv, TypeOK
    <2>2. UNCHANGED <<dead, exec, retried, delivered, lapsed, notice, hurt>>
      BY DEF Admit, workerVars
    <2> QED
      BY <2>1, <2>2, OrderlyFrame DEF OrderlyInv
  <1>4. CancelHonoured'
    BY CancelFrame DEF Admit, workerVars, InBody
  <1> QED
    BY <1>1, <1>2, <1>3, <1>4 DEF IInv

\* A handler that fails gives its own lock back.
LEMMA GiveUpInv ==
  ASSUME IInv, NEW j \in Jobs, GiveUp(j), task[j] \in {"admitted", "posted"}
  PROVE  LockInv' /\ OrderlyInv' /\ CancelHonoured'
  <1> USE DownloadsAssumption
  <1>0. /\ task' = [task EXCEPT ![j] = "refused"]
        /\ UNCHANGED <<tapped, notice, hurt, flag, raced, workerVars>>
    BY DEF GiveUp
  <1>1. TypeOK'
    BY DEF GiveUp, ReleaseUserLock, IInv, TypeOK, TaskStates, workerVars, clearVars
  <1>2. \A k \in Jobs : /\ k # j => task'[k] = task[k]
                        /\ task'[j] = "refused"
    BY <1>0 DEF IInv, TypeOK
  <1>3. LockInv'
    <2>1. \A k \in Jobs : task[k] = "idle" =>
             /\ k \notin tapped' /\ notice'[k] = "none"
             /\ \A r \in Attempts : exec'[k][r] = "none"
      BY <1>0 DEF IInv, LockInv, IdleIsFresh, workerVars
    <2>2. CASE TakesLock(j)
      <3>1. ReleaseUserLock(j)
        BY <2>2 DEF GiveUp
      <3> QED
        BY <1>0, <1>1, <1>2, <2>1, <3>1, LockReleased DEF Live
    <2>3. CASE ~TakesLock(j)
      <3>1. UNCHANGED <<lock, lapsed>>
        BY <2>3 DEF GiveUp
      <3>2. lock[Owner[j]] # j
        BY <2>3 DEF IInv, LockInv, LockBelongs
      <3> QED
        BY <1>0, <1>1, <1>2, <2>1, <3>1, <3>2, LockUntouched DEF Live
    <2> QED
      BY <2>2, <2>3
  <1>4. OrderlyInv'
    <2>1. lapsed \subseteq lapsed'
      BY DEF GiveUp, ReleaseUserLock
    <2> QED
      BY <1>0, <1>2, <2>1, OrderlyFrame DEF OrderlyInv, workerVars
  <1>5. CancelHonoured'
    BY <1>0, CancelFrame DEF workerVars, InBody
  <1> QED
    BY <1>3, <1>4, <1>5

\* The handler's steps and the cancel tap keep IInv.
LEMMA BotInv ==
  ASSUME IInv, NEW j \in Jobs,
         BotStep(j) \/ BotCrash(j) \/ CancelFlag(j) \/ ExpireCancel(j)
  PROVE  IInv'
  <1> USE DownloadsAssumption
  <1>0. TypeOK' /\ TypeOK
    BY BotType DEF IInv
  <1>1. CASE PostStatus(j)
    <2>1. CASE GiveUp(j)
      BY <1>0, <1>1, <2>1, GiveUpInv DEF PostStatus, IInv
    <2>2. CASE ~GiveUp(j)
      <3>0. /\ task[j] = "admitted"
            /\ task' = [task EXCEPT ![j] = "posted"]
            /\ notice' = [notice EXCEPT ![j] = "downloading"]
            /\ UNCHANGED <<redisVars, hurt, workerVars>>
        BY <1>1, <2>2 DEF PostStatus
      <3>1. LockInv'
        BY <1>0, <3>0, LockUntouched
        DEF IInv, LockInv, IdleIsFresh, TypeOK, Live, redisVars, workerVars
      <3>2. ASSUME NEW k \in Jobs, k \notin hurt' PROVE Orderly(k)'
        <4>1. CASE k # j
          BY <3>0, <3>2, <4>1, OrderlyFrame DEF IInv, TypeOK, redisVars, workerVars
        <4>2. CASE k = j
          <5>1. Orderly(j)
            BY <3>0, <3>2, <4>2 DEF IInv, OrderlyInv
          <5> QED
            BY <1>0, <3>0, <4>2, <5>1
            DEF Orderly, TypeOK, redisVars, workerVars
        <4> QED
          BY <4>1, <4>2
      <3>3. CancelHonoured'
        BY <3>0, CancelFrame DEF redisVars, workerVars, InBody
      <3> QED
        BY <1>0, <3>1, <3>2, <3>3 DEF IInv, OrderlyInv
    <2> QED
      BY <2>1, <2>2
  <1>2. CASE Submit(j)
    <2>1. CASE GiveUp(j)
      BY <1>0, <1>2, <2>1, GiveUpInv DEF Submit, IInv
    <2>2. CASE ~GiveUp(j)
      <3>0. /\ task[j] = "posted"
            /\ task' = [task EXCEPT ![j] = "pending"]
            /\ UNCHANGED <<redisVars, notice, hurt, workerVars>>
        BY <1>2, <2>2 DEF Submit
      <3>1. LockInv'
        BY <1>0, <3>0, LockUntouched
        DEF IInv, LockInv, IdleIsFresh, TypeOK, Live, redisVars, workerVars
      <3>2. OrderlyInv'
        BY <1>0, <3>0, OrderlyFrame DEF OrderlyInv, TypeOK, redisVars, workerVars
      <3>3. CancelHonoured'
        BY <3>0, CancelFrame DEF redisVars, workerVars, InBody
      <3> QED
        BY <1>0, <3>1, <3>2, <3>3 DEF IInv
    <2> QED
      BY <2>1, <2>2
  <1>3. CASE CancelRelease(j)
    <2>1. LockInv'
      BY <1>0, <1>3, LockReleased
      DEF CancelRelease, IInv, LockInv, IdleIsFresh, TypeOK, Live, workerVars
    <2>2. lapsed \subseteq lapsed'
      BY <1>3 DEF CancelRelease, ReleaseUserLock
    <2>3. \A k \in Jobs : notice'[k] = notice[k] \/ Answered(k)'
      BY <1>0, <1>3 DEF CancelRelease, TypeOK, Answered
    <2>4. OrderlyInv'
      BY <1>3, <2>2, <2>3, OrderlyFrame DEF OrderlyInv, CancelRelease, workerVars
    <2>5. CancelHonoured'
      BY <1>3, CancelFrame DEF CancelRelease, workerVars, InBody
    <2> QED
      BY <1>0, <2>1, <2>4, <2>5 DEF IInv
  <1>4. CASE BotCrash(j)
    <2>1. LockInv'
      BY <1>0, <1>4, LockUntouched
      DEF BotCrash, IInv, LockInv, IdleIsFresh, TypeOK, Live, redisVars, workerVars
    <2>2. OrderlyInv'
      BY <1>0, <1>4, OrderlyFrame
      DEF BotCrash, OrderlyInv, TypeOK, redisVars, workerVars
    <2>3. CancelHonoured'
      BY <1>4, CancelFrame DEF BotCrash, redisVars, workerVars, InBody
    <2> QED
      BY <1>0, <2>1, <2>2, <2>3 DEF IInv
  <1>5. CASE CancelFlag(j)
    <2>1. task[j] # "idle"
      BY <1>5 DEF CancelFlag, IInv, LockInv, IdleIsFresh, LockBelongs, TypeOK
    <2>2. LockInv'
      BY <1>0, <1>5, <2>1, LockUntouched
      DEF CancelFlag, IInv, LockInv, IdleIsFresh, TypeOK, Live, workerVars
    <2>3. OrderlyInv'
      BY <1>5, OrderlyFrame DEF CancelFlag, OrderlyInv, workerVars
    <2>4. CancelHonoured'
      BY <1>5, CancelSet DEF CancelFlag, workerVars
    <2> QED
      BY <1>0, <2>2, <2>3, <2>4 DEF IInv
  <1>6. CASE ExpireCancel(j)
    <2>1. LockInv'
      BY <1>0, <1>6, LockUntouched
      DEF ExpireCancel, IInv, LockInv, IdleIsFresh, TypeOK, Live, workerVars
    <2>2. OrderlyInv'
      BY <1>6, OrderlyFrame DEF ExpireCancel, OrderlyInv, workerVars
    <2>3. CancelHonoured'
      BY <1>0, <1>6, CancelFrame DEF ExpireCancel, TypeOK, workerVars, InBody
    <2> QED
      BY <1>0, <2>1, <2>2, <2>3 DEF IInv
  <1> QED
    BY <1>1, <1>2, <1>3, <1>4, <1>5, <1>6 DEF BotStep

\* asynq's own steps on a task, a deadline included, keep IInv.
LEMMA AsynqInv ==
  ASSUME IInv, NEW j \in Jobs, AsynqStep(j) \/ CtxDone(j)
  PROVE  IInv'
  <1> USE DownloadsAssumption
  <1>0. TypeOK' /\ TypeOK
    BY AsynqType DEF IInv
  <1>1. CASE Dequeue(j)
    <2>0. /\ task[j] = "pending"
          /\ task' = [task EXCEPT ![j] = "active"]
          /\ exec' = [exec EXCEPT ![j][retried[j]] = "started"]
          /\ UNCHANGED <<redisVars, retried, dead, notice, delivered, hurt>>
      BY <1>1 DEF Dequeue
    <2>1. LockInv'
      BY <1>0, <2>0, LockUntouched
      DEF IInv, LockInv, IdleIsFresh, TypeOK, Live, redisVars, workerVars
    <2>2. ASSUME NEW k \in Jobs, k \notin hurt' PROVE Orderly(k)'
      <3>1. CASE k # j
        BY <1>0, <2>0, <2>2, <3>1, OrderlyFrame DEF TypeOK, redisVars
      <3>2. CASE k = j
        <4>1. Orderly(j)
          BY <2>0, <2>2, <3>2 DEF IInv, OrderlyInv
        <4> QED
          BY <1>0, <2>0, <3>2, <4>1 DEF Orderly, TypeOK, redisVars
      <3> QED
        BY <3>1, <3>2
    <2>3. CancelHonoured'
      BY <1>0, <2>0, CancelFrame DEF redisVars, InBody, TypeOK
    <2> QED
      BY <1>0, <2>1, <2>2, <2>3 DEF IInv, OrderlyInv
  <1>2. CASE Forward(j)
    <2>1. LockInv'
      BY <1>0, <1>2, LockUntouched
      DEF Forward, IInv, LockInv, IdleIsFresh, TypeOK, Live, redisVars, workerVars
    <2>2. OrderlyInv'
      BY <1>0, <1>2, OrderlyFrame
      DEF Forward, OrderlyInv, TypeOK, redisVars, workerVars
    <2>3. CancelHonoured'
      BY <1>2, CancelFrame DEF Forward, redisVars, workerVars, InBody
    <2> QED
      BY <1>0, <2>1, <2>2, <2>3 DEF IInv
  <1>3. ASSUME FailTask(j), task[j] = "active", j \in hurt',
               UNCHANGED <<redisVars, exec, notice, delivered>>,
               hurt' = hurt \cup {j}, \A k \in Jobs : k # j => dead'[k] = dead[k]
        PROVE  IInv'
    <2>1. \A k \in Jobs : /\ k # j => task'[k] = task[k] /\ retried'[k] = retried[k]
                          /\ task'[j] \in {"retry", "archived"}
      BY <1>0, <1>3 DEF FailTask, TypeOK
    <2>2. LockInv'
      BY <1>0, <1>3, <2>1, LockUntouched
      DEF IInv, LockInv, IdleIsFresh, Live, redisVars
    <2>3. OrderlyInv'
      BY <1>0, <1>3, <2>1, OrderlyFrame DEF OrderlyInv, redisVars
    <2>4. CancelHonoured'
      BY <1>3, CancelFrame DEF redisVars, InBody
    <2> QED
      BY <1>0, <2>2, <2>3, <2>4 DEF IInv
  <1>4. CASE Recover(j)
    \* Only a crash leaves an active task without its goroutine.
    <2>1. j \in hurt
      BY <1>0, <1>4 DEF Recover, Running, IInv, OrderlyInv, Orderly
    <2> QED
      BY <1>0, <1>3, <1>4, <2>1 DEF Recover
  <1>5. CASE CtxDone(j)
    BY <1>0, <1>3, <1>5 DEF CtxDone, Running, TypeOK
  <1> QED
    BY <1>1, <1>2, <1>4, <1>5 DEF AsynqStep

\* The handler steps before the release leave the lock and the queue alone.
LEMMA BodyInv ==
  ASSUME IInv, NEW j \in Jobs, NEW r \in Attempts,
         \/ CheckCancelled(j, r) \/ Begin(j, r) \/ Fetch(j, r) \/ Send(j, r)
         \/ Conclude(j, r)
  PROVE  IInv'
  <1> USE DownloadsAssumption
  <1>0. TypeOK' /\ TypeOK
    BY WorkerType DEF WorkerStep, IInv
  <1>1. PICK phase \in Phases \ {"none", "nil", "err"} : Goto(j, r, phase)
    BY DEF CheckCancelled, Begin, Fetch, Send, Conclude, Show, Phases
  <1>2. /\ UNCHANGED workerRest
        /\ exec[j][r] \in {"started", "checked", "fetching", "fetched", "sent"}
        /\ hurt \subseteq hurt' /\ hurt' \subseteq hurt \cup {j}
    BY DEF CheckCancelled, Begin, Fetch, Send, Conclude, Show
  <1>3. /\ \A k \in Jobs : k # j => exec'[k] = exec[k]
        /\ \A q \in Attempts : q # r => exec'[j][q] = exec[j][q]
        /\ exec'[j][r] = phase
    BY <1>0, <1>1 DEF Goto, TypeOK
  <1>4. \A k \in Jobs : k # j => notice'[k] = notice[k]
    BY <1>0 DEF CheckCancelled, Begin, Fetch, Send, Conclude, Show, TypeOK
  <1>5. \A k \in Jobs : k # j => delivered'[k] = delivered[k]
    BY <1>0 DEF CheckCancelled, Begin, Fetch, Send, Conclude, Show, TypeOK
  <1>6. task[j] # "idle"
    BY <1>2 DEF IInv, LockInv, IdleIsFresh
  <1>7. LockInv'
    BY <1>0, <1>2, <1>3, <1>4, <1>6, LockUntouched
    DEF IInv, LockInv, IdleIsFresh, Live, workerRest
  <1>8. ASSUME NEW k \in Jobs, k \notin hurt' PROVE Orderly(k)'
    <2>1. CASE k # j
      BY <1>2, <1>3, <1>4, <1>5, <1>8, <2>1, OrderlyFrame DEF workerRest
    <2>2. CASE k = j
      <3>1. /\ Orderly(j) /\ r = retried[j] /\ retried'[j] = retried[j]
            /\ task[j] = "active" /\ task'[j] = "active"
            /\ dead'[j] = {} /\ delivered[j] \in Nat
        BY <1>0, <1>2, <1>8, <2>2
        DEF IInv, OrderlyInv, Orderly, workerRest, TypeOK
      <3>2. phase = "retnil" => Answered(j)'
        <4>1. ASSUME NEW shown \in {"cancelled", "error", "gone"}, Show(j, shown)
              PROVE  Answered(j)'
          BY <1>0, <1>8, <2>2, <4>1 DEF Show, Answered, TypeOK
        <4>2. phase = "retnil" =>
                \E shown \in {"cancelled", "error", "gone"} : Show(j, shown)
          BY <1>0, <1>3 DEF CheckCancelled, Begin, Fetch, Send, Conclude, Goto, TypeOK
        <4> QED
          BY <4>1, <4>2
      <3>3. delivered'[j] <= 1 /\ (delivered'[j] # 0 => phase \in {"sent", "retnil"})
        BY <1>0, <1>2, <1>3, <3>1
        DEF CheckCancelled, Begin, Fetch, Send, Conclude, Show, Orderly, Goto, TypeOK
      <3> QED
        BY <1>1, <1>3, <2>2, <3>1, <3>2, <3>3 DEF Orderly
    <2> QED
      BY <2>1, <2>2
  <1>9. CancelHonoured'
    <2>1. flag' = flag /\ raced' = raced
      BY <1>2 DEF workerRest
    <2>2. phase \in {"checked", "fetching", "fetched", "sent"} /\ flag[j]
            /\ TakesLock(j) /\ j \notin hurt' => exec[j][r] # "started"
      BY <1>0, <1>3 DEF CheckCancelled, Begin, Fetch, Send, Conclude, Show, Goto, TypeOK
    <2>3. \A k \in Jobs : \A q \in Attempts :
            InBody(k, q)' /\ flag'[k] /\ k \notin hurt' /\ TakesLock(k) => InBody(k, q)
      BY <1>2, <1>3, <2>1, <2>2 DEF InBody
    <2> QED
      BY <1>2, <2>1, <2>3, CancelFrame
  <1> QED
    BY <1>0, <1>7, <1>8, <1>9 DEF IInv, OrderlyInv

\* The deferred release of the worker frees only its own job's lock.
LEMMA ReturnInv ==
  ASSUME IInv, NEW j \in Jobs, NEW r \in Attempts, Return(j, r)
  PROVE  IInv'
  <1> USE DownloadsAssumption
  <1>0. TypeOK' /\ TypeOK
    BY WorkerType DEF WorkerStep, IInv
  <1>1. /\ exec[j][r] \in {"retnil", "reterr"}
        /\ Goto(j, r, IF exec[j][r] = "retnil" THEN "nil" ELSE "err")
        /\ UNCHANGED <<flag, tapped, raced, task, retried, dead, notice, delivered>>
    BY DEF Return
  <1>2. /\ \A k \in Jobs : k # j => exec'[k] = exec[k]
        /\ \A q \in Attempts : q # r => exec'[j][q] = exec[j][q]
        /\ exec'[j][r] = IF exec[j][r] = "retnil" THEN "nil" ELSE "err"
    BY <1>0, <1>1 DEF Goto, TypeOK
  <1>3. \/ /\ ~TakesLock(j) \/ j \in hurt'
           /\ UNCHANGED <<lock, lapsed>> /\ hurt \subseteq hurt'
        \/ ReleaseUserLock(j) /\ UNCHANGED hurt
    BY DEF Return
  <1>4. lapsed \subseteq lapsed' /\ hurt \subseteq hurt'
    BY <1>3 DEF ReleaseUserLock
  <1>5. task[j] # "idle"
    BY <1>1 DEF IInv, LockInv, IdleIsFresh
  <1>6. \A k \in Jobs : task[k] = "idle" =>
             /\ k \notin tapped' /\ notice'[k] = "none"
             /\ \A q \in Attempts : exec'[k][q] = "none"
    BY <1>1, <1>2, <1>5 DEF IInv, LockInv, IdleIsFresh
  <1>7. LockInv'
    <2>1. CASE UNCHANGED <<lock, lapsed>>
      BY <1>0, <1>1, <1>4, <1>6, <2>1, LockUntouched DEF Live
    <2>2. CASE ReleaseUserLock(j)
      BY <1>0, <1>1, <1>4, <1>5, <1>6, <2>2, LockReleased DEF Live
    <2> QED
      BY <1>3, <2>1, <2>2
  <1>8. ASSUME NEW k \in Jobs, k \notin hurt' PROVE Orderly(k)'
    <2>1. CASE k # j
      BY <1>1, <1>2, <1>4, <1>8, <2>1, OrderlyFrame
    <2>2. CASE k = j
      <3>1. Orderly(j) /\ r = retried[j]
        BY <1>1, <1>4, <1>8, <2>2 DEF IInv, OrderlyInv, Orderly
      <3>2. TakesLock(j) => j \in lapsed'
        BY <1>3, <1>8, <2>2 DEF ReleaseUserLock
      <3> QED
        BY <1>1, <1>2, <2>2, <3>1, <3>2 DEF Orderly, Answered, TakesLock
    <2> QED
      BY <2>1, <2>2
  <1>9. CancelHonoured'
    BY <1>1, <1>2, <1>4, CancelFrame DEF InBody
  <1> QED
    BY <1>0, <1>7, <1>8, <1>9 DEF IInv, OrderlyInv

\* asynq settles a task only after its handler released and answered.
LEMMA SettleInv ==
  ASSUME IInv, CurrentExec, NEW j \in Jobs, NEW r \in Attempts, Settle(j, r)
  PROVE  IInv'
  <1> USE DownloadsAssumption
  <1>0. TypeOK' /\ TypeOK
    BY WorkerType DEF WorkerStep, IInv
  <1>1. /\ exec[j][r] \in {"nil", "err"}
        /\ UNCHANGED <<redisVars, dead, notice, delivered, hurt>>
    BY DEF Settle
  <1>2. /\ \A k \in Jobs : k # j => exec'[k] = exec[k]
        /\ \A q \in Attempts : q # r => exec'[j][q] = exec[j][q]
        /\ exec'[j][r] = "none"
    BY <1>0 DEF Settle, TypeOK
  <1>3. \/ UNCHANGED <<task, retried>> /\ r \in dead[j]
        \/ /\ exec[j][r] = "nil" /\ UNCHANGED retried /\ r \notin dead[j]
           /\ task' = [task EXCEPT ![j] = "completed"]
        \/ exec[j][r] = "err" /\ FailTask(j) /\ r \notin dead[j]
    BY DEF Settle
  <1>4. \A k \in Jobs : k # j => task'[k] = task[k] /\ retried'[k] = retried[k]
    BY <1>0, <1>3 DEF FailTask, TypeOK
  <1>5. \/ UNCHANGED task /\ r \in dead[j]
        \/ task'[j] = "completed" /\ exec[j][r] = "nil" /\ retried'[j] = retried[j]
        \/ task'[j] \in {"retry", "archived"} /\ exec[j][r] = "err"
    BY <1>0, <1>3 DEF FailTask, TypeOK
  <1>6. task[j] # "idle" /\ (r \notin dead[j] => task[j] = "active")
    BY <1>1 DEF IInv, LockInv, IdleIsFresh, CurrentExec
  <1>7. j \notin hurt => Orderly(j) /\ r = retried[j] /\ r \notin dead[j]
                          /\ task[j] = "active"
    BY <1>1 DEF IInv, OrderlyInv, Orderly
  <1>8. LockInv'
    <2>1. j \notin hurt => lock[Owner[j]] # j
      <3>1. ASSUME TakesLock(j), j \notin hurt PROVE lock[Owner[j]] # j
        BY <1>1, <1>7, <3>1 DEF Orderly, IInv, LockInv, LapsedIsGone
      <3>2. ASSUME ~TakesLock(j) PROVE lock[Owner[j]] # j
        BY <3>2 DEF IInv, LockInv, LockBelongs
      <3> QED
        BY <3>1, <3>2
    <2>2. Live(j)' => Live(j)
      BY <1>3, <1>6 DEF Live
    <2>3. \A k \in Jobs : k # j => (Live(k)' <=> Live(k))
      BY <1>4 DEF Live
    <2>4. \A k \in Jobs : task'[k] = "idle" <=> task[k] = "idle"
      BY <1>4, <1>5, <1>6
    <2>5. \A k \in Jobs : task[k] = "idle" =>
             /\ k \notin tapped' /\ notice'[k] = "none"
             /\ \A q \in Attempts : exec'[k][q] = "none"
      BY <1>1, <1>2, <1>6 DEF IInv, LockInv, IdleIsFresh, redisVars
    <2>6. UNCHANGED <<lock, lapsed>> /\ hurt \subseteq hurt'
      BY <1>1 DEF redisVars
    <2>7. \A k \in Jobs : k \notin hurt' /\ Live(k) /\ lock[Owner[k]] = k => Live(k)'
      BY <1>1, <2>1, <2>3
    <2> QED
      BY <1>0, <2>2, <2>3, <2>4, <2>5, <2>6, <2>7, LockUntouched
  <1>9. ASSUME NEW k \in Jobs, k \notin hurt' PROVE Orderly(k)'
    <2>1. CASE k # j
      BY <1>1, <1>2, <1>4, <1>9, <2>1, OrderlyFrame DEF redisVars
    <2>2. CASE k = j
      <3>1. Orderly(j) /\ r = retried[j] /\ r \notin dead[j] /\ task[j] = "active"
        BY <1>1, <1>7, <1>9, <2>2
      <3>2. \A q \in Attempts : exec'[j][q] = "none"
        BY <1>2, <3>1 DEF Orderly
      <3>3. retried'[j] \in Attempts
        BY <1>0 DEF TypeOK
      <3>4. CASE exec[j][r] = "nil"
        BY <1>1, <1>5, <2>2, <3>1, <3>2, <3>3, <3>4 DEF Orderly, Answered
      <3>5. CASE exec[j][r] = "err"
        BY <1>1, <1>5, <2>2, <3>1, <3>2, <3>3, <3>5 DEF Orderly, Answered
      <3> QED
        BY <1>1, <3>4, <3>5
    <2> QED
      BY <2>1, <2>2
  <1>10. CancelHonoured'
    BY <1>1, <1>2, CancelFrame DEF redisVars, InBody
  <1> QED
    BY <1>0, <1>8, <1>9, <1>10 DEF IInv, OrderlyInv

\* The user's commands and the TTL of the lock.
LEMMA UserInv ==
  ASSUME IInv, NEW u \in Users, UserStep(u)
  PROVE  IInv'
  <1> USE DownloadsAssumption
  <1>0. TypeOK' /\ TypeOK
    BY UserType DEF IInv
  \* The lock entry of u is deleted, whoever holds it.
  <1>1. ASSUME lock' = [lock EXCEPT ![u] = None],
               lapsed' = lapsed \cup ({lock[u]} \ {None}),
               UNCHANGED <<flag, tapped, raced, task, notice, hurt, workerVars>>
        PROVE  IInv'
    <2>1. LockInv'
      <3>1. \A v \in Users : lock'[v] \in {lock[v], None}
        BY <1>0, <1>1 DEF TypeOK
      <3>2. \A v \in Users : lock'[v] # lock[v] => lock[v] \in lapsed'
        BY <1>0, <1>1 DEF TypeOK
      <3>3. \A j \in lapsed' : lock'[Owner[j]] # j
        <4>1. \A j \in lapsed : j \in Jobs /\ lock[Owner[j]] # j
          BY <1>0 DEF IInv, LockInv, LapsedIsGone, TypeOK
        <4>2. lock[u] # None => Owner[lock[u]] = u /\ lock'[u] = None /\ lock[u] \in Jobs
          BY <1>0, <1>1 DEF IInv, LockInv, LockBelongs, TypeOK
        <4> QED
          BY <1>1, <3>1, <4>1, <4>2
      <3>4. \A j \in Jobs : task[j] = "idle" =>
               /\ j \notin lapsed' /\ j \notin tapped' /\ notice'[j] = "none"
               /\ \A r \in Attempts : exec'[j][r] = "none"
        BY <1>0, <1>1 DEF IInv, LockInv, IdleIsFresh, LockBelongs, workerVars
      <3> QED
        BY <1>0, <1>1, <3>1, <3>2, <3>3, <3>4, LockFrame DEF Live
    <2>2. OrderlyInv'
      BY <1>1, OrderlyFrame DEF OrderlyInv, workerVars
    <2>3. CancelHonoured'
      BY <1>1, CancelFrame DEF workerVars, InBody
    <2> QED
      BY <1>0, <2>1, <2>2, <2>3 DEF IInv
  \* Only flags, and what /clear remembers, change.
  <1>2. ASSUME UNCHANGED <<lock, tapped, lapsed, task, retried, exec, dead, notice,
                           delivered, hurt>>,
               CancelHonoured'
        PROVE  IInv'
    <2>1. LockInv'
      BY <1>0, <1>2, LockUntouched DEF IInv, LockInv, IdleIsFresh, Live
    <2>2. OrderlyInv'
      BY <1>2, OrderlyFrame DEF OrderlyInv
    <2> QED
      BY <1>0, <1>2, <2>1, <2>2 DEF IInv
  <1>3. CASE ExpireLock(u)
    BY <1>1, <1>3 DEF ExpireLock
  <1>4. CASE ClearSee(u)
    <2>1. PICK seen \in {lock[u], None} : SetDownloadCancelled({seen} \ {None})
      BY <1>4 DEF ClearSee
    <2>2. {seen} \ {None} \in SUBSET Jobs
      BY <1>0, <2>1 DEF TypeOK
    <2>3. CancelHonoured'
      BY <1>4, <2>1, <2>2, CancelSet DEF ClearSee, workerVars
    <2> QED
      BY <1>2, <1>4, <2>3 DEF ClearSee, workerVars
  <1>5. CASE ClearFree(u)
    <2>1. CASE lock' = [lock EXCEPT ![u] = None]
                 /\ lapsed' = lapsed \cup ({lock[u]} \ {None})
      BY <1>1, <1>5, <2>1 DEF ClearFree
    <2>2. CASE UNCHANGED <<lock, lapsed>>
      <3>1. CancelHonoured'
        BY <1>5, CancelFrame DEF ClearFree, workerVars, InBody
      <3> QED
        BY <1>2, <1>5, <2>2, <3>1 DEF ClearFree, workerVars
    <2> QED
      BY <1>5, <2>1, <2>2 DEF ClearFree
  <1>6. CASE ClearActive(u)
    <2>1. CancelHonoured'
      BY <1>6, CancelFrame DEF ClearActive, redisVars, InBody
    <2> QED
      BY <1>2, <1>6, <2>1 DEF ClearActive, redisVars
  <1>7. ASSUME NEW from, NEW state \in {"pending", "retry"}, DeleteTasks(u, from, state)
        PROVE  IInv'
    <2>5. PICK deleted \in SUBSET UserTasks(u, state) :
           /\ task' = [j \in Jobs |-> IF j \in deleted THEN "deleted" ELSE task[j]]
           /\ hurt' = hurt \cup deleted
      BY <1>7, DeletesWaiting
    <2>0. UNCHANGED <<redisVars, notice, workerVars>> /\ hurt \subseteq hurt'
      BY <1>7, <2>5 DEF DeleteTasks
    <2>1. \A j \in Jobs : /\ task'[j] = task[j] \/ j \in hurt'
                          /\ task'[j] = task[j]
                               \/ (task[j] = state /\ task'[j] = "deleted")
      BY <2>5 DEF UserTasks
    <2>2. LockInv'
      BY <1>0, <2>0, <2>1, LockUntouched
      DEF IInv, LockInv, IdleIsFresh, Live, redisVars, workerVars
    <2>3. OrderlyInv'
      BY <2>0, <2>1, OrderlyFrame DEF OrderlyInv, redisVars, workerVars
    <2>4. CancelHonoured'
      BY <2>0, CancelFrame DEF redisVars, workerVars, InBody
    <2> QED
      BY <1>0, <2>2, <2>3, <2>4 DEF IInv
  <1>8. CASE ClearFail(u)
    <2>1. CancelHonoured'
      BY <1>8, CancelFrame DEF ClearFail, redisVars, workerVars, InBody
    <2> QED
      BY <1>2, <1>8, <2>1 DEF ClearFail, redisVars, workerVars
  <1>9. CASE ClearReply(u)
    <2>1. refs[u] \in SUBSET Jobs
      BY <1>0 DEF TypeOK
    <2>2. CancelHonoured'
      BY <1>9, <2>1, CancelSet DEF ClearReply, workerVars
    <2> QED
      BY <1>2, <1>9, <2>2 DEF ClearReply, workerVars
  <1> QED
    BY <1>3, <1>4, <1>5, <1>6, <1>7, <1>8, <1>9
    DEF UserStep, ClearStep, ClearPending, ClearRetry

\* A stop of the worker process disturbs every job that has an execution.
LEMMA StopInv ==
  ASSUME IInv, Shutdown \/ Crash
  PROVE  IInv'
  <1> USE DownloadsAssumption
  <1>0. TypeOK' /\ TypeOK
    BY StopType DEF IInv
  <1>1. KillWorkers
    BY DEF Shutdown, Crash
  <1>2. \A j \in Jobs : \/ task'[j] = task[j]
                        \/ Running(j) /\ task'[j] = "pending"
    BY DEF Shutdown, Crash
  <1>3. /\ UNCHANGED <<lock, flag, tapped, lapsed, retried, notice, delivered>>
        /\ hurt \subseteq hurt'
        /\ \A j \in Jobs : \A r \in Attempts : exec'[j][r] = "none"
        /\ \A j \in Jobs : dead'[j] = {}
    BY <1>1 DEF KillWorkers
  <1>4. \A j \in Jobs : j \notin hurt' => \A r \in Attempts : exec[j][r] = "none"
    BY <1>1 DEF KillWorkers
  <1>5. LockInv'
    BY <1>0, <1>2, <1>3, LockUntouched
    DEF IInv, LockInv, IdleIsFresh, Live, Running
  <1>6. ASSUME NEW j \in Jobs, j \notin hurt' PROVE Orderly(j)'
    <2>1. Orderly(j) /\ retried[j] \in Attempts
      BY <1>0, <1>3, <1>6 DEF IInv, OrderlyInv, TypeOK
    <2>2. exec[j][retried[j]] = "none" /\ task'[j] = task[j]
      BY <1>2, <1>4, <1>6, <2>1 DEF Running
    <2> QED
      BY <1>3, <2>1, <2>2 DEF Orderly, Answered, TakesLock
  <1>7. CancelHonoured'
    BY <1>3 DEF CancelHonoured, InBody
  <1> QED
    BY <1>0, <1>5, <1>6, <1>7 DEF IInv, OrderlyInv

\* IInv is inductive, relative to CurrentExec.
LEMMA NextInv == IInv /\ CurrentExec /\ [Next]_vars => IInv'
  <1> SUFFICES ASSUME IInv, CurrentExec, [Next]_vars PROVE IInv'
    OBVIOUS
  <1>1. ASSUME NEW j \in Jobs, JobStep(j) PROVE IInv'
    BY <1>1, AdmitInv, BotInv, AsynqInv, BodyInv, ReturnInv, SettleInv
    DEF JobStep, WorkerStep
  <1>2. CASE UNCHANGED vars
    <2>1. TypeOK'
      BY <1>2 DEF IInv, vars, TypeOK
    <2>2. LockInv'
      BY <1>2 DEF IInv, vars, LockInv, OwnerKeepsLock, LockBelongs, IdleIsFresh,
                  LapsedIsGone, Live, TakesLock
    <2>3. OrderlyInv' /\ CancelHonoured'
      BY <1>2 DEF IInv, vars, OrderlyInv, Orderly, Answered, CancelHonoured, InBody,
                  TakesLock
    <2> QED
      BY <2>1, <2>2, <2>3 DEF IInv
  <1> QED
    BY <1>1, <1>2, UserInv, StopInv DEF Next

\* The conjunction that makes the safety properties inductive.
THEOREM Invariant == Spec => []IInv
  BY InitInv, OneExecution, NextInv, PTL DEF Spec
-----------------------------------------------------------------------------
(* The safety properties, each from IInv.                                  *)

\* Whatever interleaves, a job that took the user's lock keeps it until it is
\* released on its own behalf, cleared, cancelled or expired: the compare-and-
\* delete of redisx ReleaseUserLock protects it from stale releases.
THEOREM LockIsKept == Spec => []OwnerKeepsLock
  <1>1. IInv => OwnerKeepsLock
    BY DEF IInv, LockInv
  <1> QED
    BY <1>1, Invariant, PTL

\* A held lock belongs to a job some handler, queue or worker still has, unless
\* that job was disturbed: no path through enqueue() or the worker's handlers
\* forgets the release.
THEOREM LockIsNotLeaked == Spec => []NoOrphanLock
  <1>1. IInv => NoOrphanLock
    BY DEF IInv, LockInv, LockBelongs, NoOrphanLock
  <1> QED
    BY <1>1, Invariant, PTL

\* asynq's retry never sends the media of an undisturbed job a second time.
THEOREM NoDoubleDelivery == Spec => []DeliveredOnce
  <1>1. IInv => DeliveredOnce
    BY DEF IInv, OrderlyInv, Orderly, DeliveredOnce
  <1> QED
    BY <1>1, Invariant, PTL

\* A cancelled job is not worked on, unless checkCancelled had already passed.
THEOREM CancelWorks == Spec => []CancelHonoured
  <1>1. IInv => CancelHonoured
    BY DEF IInv
  <1> QED
    BY <1>1, Invariant, PTL

\* A job asynq counts as completed has been answered in the chat.
THEOREM CompletionIsVisible == Spec => []CompletedIsAnswered
  <1>1. IInv => CompletedIsAnswered
    BY DEF IInv, OrderlyInv, Orderly, Answered, CompletedIsAnswered
  <1> QED
    BY <1>1, Invariant, PTL

-----------------------------------------------------------------------------
(* /clear and what waits in the queue.                                     *)

\* /clear knows the type of a job's task and looks into its queue.
Reached(j) == UserTask(j) /\ Queue[j] \in ClearedQueues

\* What was pending when /clear began, and was not taken by a worker since, is
\* pending or deleted; past ListPendingTasks it is deleted, if /clear reaches it,
\* lists it and its deletion does not fail.
SnapInv ==
    \A u \in Users : \A j \in snap[u] :
        /\ Owner[j] = u /\ task[j] \in {"pending", "deleted"}
        /\ clr[u] \in {"pending", "retry", "done"} /\ Reached(j) /\ j \notin missed
              => task[j] = "deleted"

\* Steps that leave waiting and deleted tasks alone.
LEMMA SnapFrame ==
  ASSUME TypeOK, SnapInv, UNCHANGED <<clr, missed>>, \A u \in Users : snap'[u] \subseteq snap[u],
         \A j \in Jobs : task[j] \in {"pending", "deleted"} =>
             task'[j] = task[j] \/ \A u \in Users : j \notin snap'[u]
  PROVE  SnapInv'
  BY DEF SnapInv, TypeOK

\* Only a worker and /clear take a waiting task from the queue.
LEMMA SnapNext == TypeOK /\ CurrentExec /\ SnapInv /\ [Next]_vars => SnapInv'
  <1> USE DownloadsAssumption
  <1> SUFFICES ASSUME TypeOK, CurrentExec, SnapInv, [Next]_vars PROVE SnapInv'
    OBVIOUS
  <1>1. ASSUME UNCHANGED <<clr, snap, missed>>,
               \A j \in Jobs : task[j] \in {"pending", "deleted"} => task'[j] = task[j]
        PROVE  SnapInv'
    BY <1>1, SnapFrame
  <1>2. ASSUME NEW j \in Jobs, JobStep(j) PROVE SnapInv'
    <2>1. CASE Admit(j) \/ BotStep(j) \/ BotCrash(j) \/ CancelFlag(j) \/ ExpireCancel(j)
      <3>1. UNCHANGED <<clr, snap, missed>>
        BY <2>1 DEF Admit, BotStep, PostStatus, Submit, GiveUp, CancelRelease,
                    BotCrash, CancelFlag, ExpireCancel, clearVars
      <3>2. \A k \in Jobs : task[k] \in {"pending", "deleted"} => task'[k] = task[k]
        BY <2>1 DEF Admit, BotStep, PostStatus, Submit, GiveUp, CancelRelease,
                    BotCrash, CancelFlag, ExpireCancel, TypeOK
      <3> QED
        BY <1>1, <3>1, <3>2
    <2>2. CASE Dequeue(j)
      <3>1. UNCHANGED <<clr, missed>> /\ \A u \in Users : snap'[u] = snap[u] \ {j}
        BY <2>2 DEF Dequeue
      <3>2. \A k \in Jobs \ {j} : task'[k] = task[k]
        BY <2>2 DEF Dequeue, TypeOK
      <3> QED
        BY <3>1, <3>2, SnapFrame
    <2>3. CASE Forward(j)
      <3>1. UNCHANGED <<clr, snap, missed>> /\ \A k \in Jobs : task[k] # "retry" => task'[k] = task[k]
        BY <2>3 DEF Forward, clearVars, TypeOK
      <3> QED
        BY <1>1, <3>1
    <2>4. CASE Recover(j) \/ CtxDone(j)
      <3>1. task[j] = "active" /\ UNCHANGED <<clr, snap, missed>>
        BY <2>4 DEF Recover, CtxDone, Running, clearVars
      <3>2. \A k \in Jobs \ {j} : task'[k] = task[k]
        BY <2>4 DEF Recover, CtxDone, FailTask, TypeOK
      <3> QED
        BY <1>1, <3>1, <3>2
    <2>5. ASSUME NEW r \in Attempts, WorkerStep(j, r) PROVE SnapInv'
      <3>1. CASE Settle(j, r)
        <4>1. UNCHANGED <<clr, snap, missed>> /\ \A k \in Jobs \ {j} : task'[k] = task[k]
          BY <3>1 DEF Settle, FailTask, TypeOK, clearVars
        <4>2. task[j] = "active" \/ task' = task
          BY <3>1 DEF Settle, CurrentExec
        <4> QED
          BY <1>1, <4>1, <4>2
      <3>2. CASE ~Settle(j, r)
        <4>1. UNCHANGED <<task, clr, snap, missed>>
          BY <2>5, <3>2 DEF WorkerStep, CheckCancelled, Begin, Fetch, Send, Conclude,
                            Return, workerRest, clearVars
        <4> QED
          BY <1>1, <4>1
      <3> QED
        BY <3>1, <3>2
    <2> QED
      BY <1>2, <2>1, <2>2, <2>3, <2>4, <2>5 DEF JobStep, AsynqStep
  <1>3. ASSUME NEW u \in Users, UserStep(u) PROVE SnapInv'
    <2>1. CASE ExpireLock(u)
      BY <1>1, <2>1 DEF ExpireLock, clearVars
    <2>2. CASE ClearSee(u)
      <3>1. /\ clr'[u] = "seen" /\ snap'[u] = {j \in Jobs : Owner[j] = u /\ task[j] = "pending"}
            /\ UNCHANGED <<task, missed>>
            /\ \A v \in Users \ {u} : clr'[v] = clr[v] /\ snap'[v] = snap[v]
        BY <2>2 DEF ClearSee, TypeOK
      <3> QED
        BY <3>1 DEF SnapInv
    <2>3. CASE ClearFree(u) \/ ClearActive(u) \/ ClearFail(u)
      <3>1. /\ UNCHANGED <<task, snap, missed>> /\ clr'[u] \in {"freed", "active", "failed"}
            /\ \A v \in Users \ {u} : clr'[v] = clr[v]
        BY <2>3 DEF ClearFree, ClearActive, ClearFail, TypeOK
      <3> QED
        BY <3>1 DEF SnapInv
    <2>4. CASE ClearReply(u)
      <3>1. /\ UNCHANGED <<task, snap, missed>> /\ clr[u] = "retry"
            /\ \A v \in Users \ {u} : clr'[v] = clr[v]
        BY <2>4 DEF ClearReply, TypeOK
      <3> QED
        BY <3>1 DEF SnapInv
    <2>5. CASE ClearPending(u)
      <3>1. PICK deleted \in SUBSET UserTasks(u, "pending"),
                 left \in SUBSET UserTasks(u, "pending") :
                  /\ task' = [j \in Jobs |-> IF j \in deleted THEN "deleted" ELSE task[j]]
                  /\ missed' = missed \cup left
                  /\ left = UserTasks(u, "pending") \ deleted
        BY <2>5, DeletesWaiting DEF ClearPending
      <3>2. UNCHANGED snap /\ \A v \in Users \ {u} : clr'[v] = clr[v]
        BY <2>5 DEF ClearPending, DeleteTasks, TypeOK
      <3>3. /\ \A k \in Jobs : task'[k] \in {task[k], "deleted"}
            /\ missed \subseteq missed'
        BY <3>1
      <3>4. \A k \in UserTasks(u, "pending") : k \notin missed' => task'[k] = "deleted"
        BY <3>1 DEF UserTasks
      <3>5. \A k \in snap[u] : k \in Jobs /\ (Reached(k) /\ task[k] = "pending"
                                             => k \in UserTasks(u, "pending"))
        BY DEF SnapInv, TypeOK, Reached, UserTasks
      <3>6. \A v \in Users : \A k \in snap[v] : k \in Jobs
        BY DEF TypeOK
      <3>7. \A k \in snap'[u] : Reached(k) /\ k \notin missed' => task'[k] = "deleted"
        BY <3>2, <3>3, <3>4, <3>5 DEF SnapInv
      <3> QED
        BY <3>2, <3>3, <3>6, <3>7 DEF SnapInv
    <2>6. CASE ClearRetry(u)
      <3>1. /\ UNCHANGED snap /\ \A v \in Users \ {u} : clr'[v] = clr[v]
            /\ clr[u] = "pending" /\ clr'[u] = "retry"
        BY <2>6 DEF ClearRetry, DeleteTasks, TypeOK
      <3>3. PICK deleted \in SUBSET UserTasks(u, "retry"),
                 left \in SUBSET UserTasks(u, "retry") :
                  /\ task' = [j \in Jobs |-> IF j \in deleted THEN "deleted" ELSE task[j]]
                  /\ missed' = missed \cup left
        <4>1. DeleteTasks(u, "pending", "retry")
          BY <2>6 DEF ClearRetry
        <4>2. \E deleted \in SUBSET UserTasks(u, "retry"),
                 left \in SUBSET UserTasks(u, "retry") :
                  /\ task' = [j \in Jobs |-> IF j \in deleted THEN "deleted" ELSE task[j]]
                  /\ hurt' = hurt \cup deleted
                  /\ missed' = missed \cup left
                  /\ left = UserTasks(u, "retry") \ deleted
                  /\ cleared' = [cleared EXCEPT ![u] = @ \/ deleted # {}]
          BY ONLY <4>1, DeletesWaiting, u \in Users
        <4> QED
          BY <4>2
      <3>4. missed \subseteq missed'
        BY <3>3
      <3>5. \A k \in Jobs : task[k] # "retry" => task'[k] = task[k]
        BY <3>3 DEF UserTasks
      <3>6. ASSUME NEW v \in Users, NEW k \in snap[v]
            PROVE  /\ Owner[k] = v /\ task'[k] = task[k]
                   /\ task[k] \in {"pending", "deleted"}
                   /\ clr'[v] \in {"pending", "retry", "done"} /\ Reached(k)
                        /\ k \notin missed' => task'[k] = "deleted"
        <4>1. k \in Jobs
          BY DEF TypeOK
        <4>2. /\ Owner[k] = v /\ task[k] \in {"pending", "deleted"}
              /\ clr[v] \in {"pending", "retry", "done"} /\ Reached(k) /\ k \notin missed
                   => task[k] = "deleted"
          BY DEF SnapInv
        <4>3. task'[k] = task[k]
          BY <4>1, <4>2, <3>5
        <4> QED
          BY <4>2, <4>3, <3>1, <3>4
      <3> QED
        BY <3>1, <3>6 DEF SnapInv
    <2> QED
      BY <1>3, <2>1, <2>2, <2>3, <2>4, <2>5, <2>6 DEF UserStep, ClearStep
  <1>4. CASE Shutdown \/ Crash
    <2>1. UNCHANGED <<clr, snap, missed>>
      BY <1>4 DEF Shutdown, Crash, KillWorkers, clearVars
    <2>2. \A k \in Jobs : task[k] # "active" => task'[k] = task[k]
      BY <1>4 DEF Shutdown, Crash, Running
    <2> QED
      BY <1>1, <2>1, <2>2
  <1>5. CASE UNCHANGED vars
    BY <1>1, <1>5 DEF vars
  <1> QED
    BY <1>2, <1>3, <1>4, <1>5 DEF Next

\* Whatever else runs meanwhile, /clear deletes what it reaches and finds
\* waiting (ClearUserTasks).
THEOREM ClearReaches == Spec => []SnapInv
  <1>1. Init => SnapInv
    BY DEF Init, SnapInv
  <1> QED
    BY <1>1, SnapNext, TypeCorrect, OneExecution, PTL DEF Spec

\* Where every link goes to a queue that /clear is given, under a type it knows,
\* the tasks that waited when /clear began are gone once it has replied, but for
\* those asynq failed to delete or did not list on its page (ClearUserTasks).
\* The hypothesis is needed: the main bot gives /clear no queue, and
\* userTaskTypes leaves Instagram and Reddit out.
THEOREM ClearWorks ==
  ASSUME \A j \in Jobs : Reached(j)
  PROVE  Spec => []ClearTakesWhatItSees
  <1>1. TypeOK /\ SnapInv => ClearTakesWhatItSees
    BY DEF TypeOK, SnapInv, ClearTakesWhatItSees
  <1> QED
    BY <1>1, TypeCorrect, ClearReaches, PTL
=============================================================================
