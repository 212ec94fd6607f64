-------------------------- MODULE Broadcast_proofs --------------------------
(***************************************************************************)
(* Proofs about Broadcast, for any number of recipients, taps and stops.   *)
(***************************************************************************)
EXTENDS Broadcast, FiniteSetTheorems, TLAPS

\* What SaveBroadcastDelivery leaves of a recipient's rows: outcomes, and at
\* least one of them unless an UPDATE met no row.
LEMMA RowFacts ==
  ASSUME NEW q \in Seq(Outcomes), NEW o \in Outcomes
  PROVE  /\ Append(q, o) \in Seq(Outcomes) /\ Append(q, o) # <<>>
         /\ [i \in DOMAIN q |-> o] \in Seq(Outcomes)
         /\ q # <<>> => [i \in DOMAIN q |-> o] # <<>>
  <1>1. Append(q, o) \in Seq(Outcomes) /\ Append(q, o) # <<>>
    <2>1. Len(Append(q, o)) = Len(q) + 1 /\ Len(q) \in Nat
      OBVIOUS
    <2>2. Len(<<>>) = 0
      OBVIOUS
    <2>3. Append(q, o) \in Seq(Outcomes)
      OBVIOUS
    <2> QED
      BY <2>1, <2>2, <2>3
  <1>2. [i \in DOMAIN q |-> o] \in Seq(Outcomes)
    OBVIOUS
  <1>3. ASSUME q # <<>> PROVE [i \in DOMAIN q |-> o] # <<>>
    <2>1. 1 \in DOMAIN q
      BY <1>3
    <2> QED
      BY <2>1
  <1> QED
    BY <1>1, <1>2, <1>3

\* No statement of the worker takes the last row of a recipient away.
RowsKept == \A r \in Recipients : rows[r] # <<>> => rows'[r] # <<>>

\* Store keeps the rows well typed and fills the row of the recipient at hand.
LEMMA StoreFacts ==
  ASSUME TypeOK, NEW s \in Sends, idx[s] \in Recipients, Store(s),
         seen[s] => rows[idx[s]] # <<>>
  PROVE  /\ rows' \in [Recipients -> Seq(Outcomes)]
         /\ RowsKept
         /\ rows'[idx[s]] # <<>>
  <1> DEFINE q == rows[idx[s]]
  <1>1. q \in Seq(Outcomes) /\ out[s] \in Outcomes
    BY DEF TypeOK
  <1>2. rows' = [rows EXCEPT ![idx[s]] = IF seen[s] THEN [i \in DOMAIN q |-> out[s]]
                                         ELSE Append(q, out[s])]
    BY DEF Store
  <1> DEFINE n == IF seen[s] THEN [i \in DOMAIN q |-> out[s]] ELSE Append(q, out[s])
  <1>3. n \in Seq(Outcomes) /\ n # <<>>
    BY <1>1, RowFacts
  <1>4. rows' = [rows EXCEPT ![idx[s]] = n]
    BY <1>2
  <1> HIDE DEF n
  <1> QED
    BY <1>3, <1>4 DEF TypeOK, RowsKept

\* Store keeps the rows well typed whether or not it found a row.
LEMMA StoreType ==
  ASSUME TypeOK, NEW s \in Sends, idx[s] \in Recipients, Store(s)
  PROVE  rows' \in [Recipients -> Seq(Outcomes)]
  <1> DEFINE q == rows[idx[s]]
             n == IF seen[s] THEN [i \in DOMAIN q |-> out[s]] ELSE Append(q, out[s])
  <1>1. q \in Seq(Outcomes) /\ out[s] \in Outcomes
    BY DEF TypeOK
  <1>2. n \in Seq(Outcomes)
    BY <1>1, RowFacts
  <1>3. rows' = [rows EXCEPT ![idx[s]] = n]
    BY DEF Store
  <1> HIDE DEF n
  <1> QED
    BY <1>2, <1>3 DEF TypeOK
-----------------------------------------------------------------------------
(* Type correctness, with the place of each run: together they are         *)
(* inductive, because the counters stay below N only while the loop does.  *)

\* The first state is well typed and no run is under way.
LEMMA InitInv == Init => IInv
  <1> SUFFICES ASSUME Init PROVE IInv
    OBVIOUS
  <1>1. TypeOK
    <2>1. NoTally \in [Outcomes -> 0..N] /\ 1 \in 1..N+1 /\ 0 \in 0..MaxStops
      BY BroadcastAssumption DEF NoTally
    <2>2. <<>> \in Seq(Outcomes) /\ "SENT" \in Outcomes
      BY DEF Outcomes
    <2>3. faulty \in BOOLEAN /\ told \in SUBSET Sends /\ seen \in [Sends -> BOOLEAN]
      BY DEF Init
    <2>4. rows \in [Recipients -> Seq(Outcomes)]
      BY <2>2 DEF Init
    <2> QED
      BY <2>1, <2>2, <2>3, <2>4 DEF Init, TypeOK, Statuses, Steps, MaxRetry
  <1>2. PlaceInv
    BY DEF Init, PlaceInv, Looping, NoTally
  <1>3. BehindInv /\ CompletedSkipsNobody
    BY DEF Init, BehindInv, Behind, CompletedSkipsNobody, Looping
  <1> QED
    BY <1>1, <1>2, <1>3 DEF IInv

\* The taps and the cancel button keep the types.
LEMMA BotType ==
  ASSUME TypeOK,
         Cancel \/ \E s \in Sends : Mark(s) \/ BotStep(s) \/ BotCrash(s)
  PROVE  TypeOK'
  <1>1. CASE Cancel
    BY <1>1 DEF Cancel, Tapped, UpdateBroadcastStatus, Statement, TypeOK,
       Statuses, rowVars, queueVars, localVars
  <1>2. ASSUME NEW s \in Sends, Mark(s) PROVE TypeOK'
    BY <1>2 DEF Mark, UpdateBroadcastStatus, Statement, TypeOK, Statuses,
       rowVars, queueVars, localVars
  <1>3. ASSUME NEW s \in Sends, Enqueue(s) PROVE TypeOK'
    BY <1>3 DEF Enqueue, TypeOK, rowVars, localVars
  <1>4. ASSUME NEW s \in Sends, EnqueueFails(s) PROVE TypeOK'
    BY <1>4 DEF EnqueueFails, UpdateBroadcastStatus, Statement, TypeOK,
       Statuses, rowVars, queueVars, localVars
  <1>5. ASSUME NEW s \in Sends, BotCrash(s) PROVE TypeOK'
    BY <1>5 DEF BotCrash, TypeOK, rowVars, queueVars, localVars
  <1> QED
    BY <1>1, <1>2, <1>3, <1>4, <1>5 DEF BotStep

\* A failed task is retried at most MaxRetry times.
LEMMA FailTaskType ==
  ASSUME TypeOK, NEW s \in Sends, FailTask(s)
  PROVE  /\ task' \in [Sends -> {"none", "pending", "active", "retry",
                                 "completed", "archived"}]
         /\ retried' \in [Sends -> 0..MaxRetry]
         /\ faulty' \in BOOLEAN
  <1>1. faulty' \in BOOLEAN
    BY DEF FailTask, TypeOK
  <1>2. task' \in [Sends -> {"none", "pending", "active", "retry", "completed",
                             "archived"}]
    BY DEF FailTask, TypeOK
  <1>3. retried' \in [Sends -> 0..MaxRetry]
    <2>1. retried[s] \in 0..1 /\ MaxRetry = 1
      BY DEF TypeOK, MaxRetry
    <2>2. retried[s] < 1 => retried[s] + 1 \in 0..1
      BY <2>1
    <2> QED
      BY <2>1, <2>2 DEF FailTask, TypeOK
  <1> QED
    BY <1>1, <1>2, <1>3

\* Ending a handler resets its local variables to typed values.
LEMMA ForgetType ==
  ASSUME TypeOK, NEW S, Forget(S)
  PROVE  /\ idx' \in [Sends -> 1..N+1]
         /\ count' \in [Sends -> [Outcomes -> 0..N]]
         /\ out' \in [Sends -> Outcomes]
         /\ seen' \in [Sends -> BOOLEAN]
  <1>1. NoTally \in [Outcomes -> 0..N] /\ 1 \in 1..N+1 /\ "SENT" \in Outcomes
    BY BroadcastAssumption DEF NoTally, Outcomes
  <1> QED
    BY <1>1 DEF Forget, TypeOK

\* asynq's steps and the stops of the worker keep the types.
LEMMA AsynqType ==
  ASSUME TypeOK, Shutdown \/ Crash \/ \E s \in Sends : AsynqStep(s)
  PROVE  TypeOK'
  <1>1. ASSUME StopWorkers PROVE /\ stops' \in 0..MaxStops
                                 /\ pc' \in [Sends -> Steps]
    BY <1>1, BroadcastAssumption DEF StopWorkers, TypeOK, Steps
  <1>2. CASE Shutdown
    <2>1. task' \in [Sends -> {"none", "pending", "active", "retry",
                               "completed", "archived"}]
      BY <1>2 DEF Shutdown, TypeOK
    <2> QED
      BY <1>1, <1>2, <2>1, ForgetType DEF Shutdown, StopWorkers, TypeOK,
         rowVars, botVars
  <1>3. CASE Crash
    BY <1>1, <1>3, ForgetType DEF Crash, StopWorkers, TypeOK, rowVars, botVars
  <1>4. ASSUME NEW s \in Sends, Dequeue(s) PROVE TypeOK'
    BY <1>4 DEF Dequeue, TypeOK, Steps, rowVars, botVars, localVars
  <1>5. ASSUME NEW s \in Sends, Forward(s) PROVE TypeOK'
    BY <1>5 DEF Forward, TypeOK, rowVars, botVars, localVars
  <1>6. ASSUME NEW s \in Sends, Recover(s) PROVE TypeOK'
    BY <1>6, FailTaskType DEF Recover, TypeOK, rowVars, botVars, localVars
  <1> QED
    BY <1>2, <1>3, <1>4, <1>5, <1>6 DEF AsynqStep

\* A handler that counts an outcome stays within N counted recipients.
LEMMA CountedType ==
  ASSUME TypeOK, PlaceInv, NEW s \in Sends, pc[s] \in {"send", "again"},
         NEW o \in Outcomes, Counted(s, o)
  PROVE  /\ out' \in [Sends -> Outcomes]
         /\ count' \in [Sends -> [Outcomes -> 0..N]]
         /\ pc' \in [Sends -> Steps]
  <1>1. count[s] \in [Outcomes -> 0..N] /\ idx[s] \in 1..N+1
    BY DEF TypeOK
  <1>2. count[s][o] < idx[s] /\ idx[s] <= N
    BY DEF PlaceInv, Looping
  <1>3. count[s][o] + 1 \in 0..N
    BY <1>1, <1>2, BroadcastAssumption
  <1>4. [count[s] EXCEPT ![o] = @ + 1] \in [Outcomes -> 0..N]
    BY <1>1, <1>3
  <1>5. count' = [count EXCEPT ![s] = [count[s] EXCEPT ![o] = @ + 1]]
    BY DEF Counted, TypeOK
  <1>6. count' \in [Sends -> [Outcomes -> 0..N]]
    BY <1>4, <1>5 DEF TypeOK
  <1> QED
    BY <1>6 DEF Counted, Goto, TypeOK, Steps

\* The next recipient, or the end of the loop.
LEMMA AdvanceType ==
  ASSUME TypeOK, PlaceInv, NEW s \in Sends, pc[s] \in Looping, Advance(s)
  PROVE  /\ idx' \in [Sends -> 1..N+1]
         /\ pc' \in [Sends -> Steps]
  <1>1. idx[s] <= N /\ idx[s] \in 1..N+1
    BY DEF PlaceInv, TypeOK
  <1>2. idx[s] + 1 \in 1..N+1
    BY <1>1, BroadcastAssumption
  <1> QED
    BY <1>2 DEF Advance, Goto, TypeOK, Steps

\* The worker's steps keep the types.
LEMMA WorkerType ==
  ASSUME TypeOK, PlaceInv, NEW s \in Sends, WorkerStep(s)
  PROVE  TypeOK'
  <1>1. CASE Load(s)
    <2>1. pc' \in [Sends -> Steps]
      <3>1. \/ pc' = [pc EXCEPT ![s] = "mark"]
            \/ pc' = [pc EXCEPT ![s] = "none"]
        BY <1>1 DEF Load, Goto
      <3>2. pc \in [Sends -> Steps] /\ {"mark", "none"} \subseteq Steps
        BY DEF TypeOK, Steps
      <3> QED
        BY <3>1, <3>2
    <2> QED
      BY <1>1, <2>1, FailTaskType DEF Load, TypeOK, rowVars, botVars, localVars
  <1>2. CASE Run(s)
    <2>1. NoTally \in [Outcomes -> 0..N] /\ 1 \in 1..N+1
      BY BroadcastAssumption DEF NoTally
    <2>2. pc' \in [Sends -> Steps]
      BY <1>2 DEF Run, Goto, TypeOK, Steps
    <2>3. status' \in Statuses /\ tally' = tally
      BY <1>2 DEF Run, UpdateBroadcastStatus, Statement, TypeOK, Statuses, rowVars
    <2>4. faulty' \in BOOLEAN
      BY <1>2 DEF Run, UpdateBroadcastStatus, Statement, TypeOK
    <2>5. idx' \in [Sends -> 1..N+1] /\ count' \in [Sends -> [Outcomes -> 0..N]]
      BY <1>2, <2>1 DEF Run, TypeOK
    <2> QED
      BY <1>2, <2>2, <2>3, <2>4, <2>5 DEF Run, TypeOK, botVars, queueVars
  <1>3. ASSUME Receives(s), pc[s] \in {"send", "again"}
        PROVE  got' \in SUBSET Recipients
    <2>1. idx[s] \in Recipients
      BY <1>3 DEF PlaceInv, Looping, TypeOK, Recipients
    <2> QED
      BY <1>3, <2>1 DEF Receives, TypeOK
  <1>4. CASE Send(s)
    <2>1. got' \in SUBSET Recipients
      BY <1>3, <1>4 DEF Send, TypeOK
    <2>2. /\ out' \in [Sends -> Outcomes]
          /\ count' \in [Sends -> [Outcomes -> 0..N]]
          /\ pc' \in [Sends -> Steps]
      <3>1. CASE \E o \in Outcomes : Counted(s, o)
        BY <1>4, <3>1, CountedType DEF Send
      <3>2. CASE ~\E o \in Outcomes : Counted(s, o)
        <4>1. Goto(s, "again") /\ UNCHANGED <<got, out, count>>
          BY <1>4, <3>2 DEF Send, Outcomes
        <4> QED
          BY <4>1 DEF Goto, TypeOK, Steps
      <3> QED
        BY <3>1, <3>2
    <2> QED
      BY <1>4, <2>1, <2>2 DEF Send, TypeOK, rowVars, botVars, queueVars
  <1>5. CASE SendAgain(s)
    <2>1. got' \in SUBSET Recipients
      BY <1>3, <1>5 DEF SendAgain, TypeOK
    <2>2. /\ out' \in [Sends -> Outcomes]
          /\ count' \in [Sends -> [Outcomes -> 0..N]]
          /\ pc' \in [Sends -> Steps]
      BY <1>5, CountedType DEF SendAgain, Outcomes
    <2> QED
      BY <1>5, <2>1, <2>2 DEF SendAgain, TypeOK, rowVars, botVars, queueVars
  <1>6. CASE Look(s)
    <2>1. pc' \in [Sends -> Steps]
      BY <1>6 DEF Look, Goto, TypeOK, Steps
    <2>2. seen' \in [Sends -> BOOLEAN] /\ faulty' \in BOOLEAN
      BY <1>6 DEF Look, TypeOK
    <2> QED
      BY <1>6, <2>1, <2>2 DEF Look, TypeOK, rowVars, botVars, queueVars
  <1>7. CASE Save(s)
    <2>1. idx[s] \in Recipients
      BY <1>7 DEF Save, PlaceInv, Looping, TypeOK, Recipients
    <2>2. rows' \in [Recipients -> Seq(Outcomes)] /\ faulty' \in BOOLEAN
      BY <1>7, <2>1, StoreType DEF Save, Statement, TypeOK
    <2>3. idx' \in [Sends -> 1..N+1] /\ pc' \in [Sends -> Steps]
      <3>1. CASE Advance(s)
        BY <1>7, <3>1, AdvanceType DEF Save, Looping
      <3>2. CASE Goto(s, "progress") /\ UNCHANGED idx
        BY <3>2 DEF Goto, TypeOK, Steps
      <3> QED
        BY <1>7, <3>1, <3>2 DEF Save
    <2> QED
      BY <1>7, <2>2, <2>3 DEF Save, TypeOK, rowVars, botVars, queueVars
  <1>8. CASE Progress(s)
    <2>1. idx' \in [Sends -> 1..N+1] /\ pc' \in [Sends -> Steps]
      BY <1>8, AdvanceType DEF Progress, Looping
    <2>2. tally' \in [Outcomes -> 0..N] /\ status' = status
      BY <1>8 DEF Progress, UpdateBroadcastProgress, Statement, TypeOK, rowVars
    <2>3. faulty' \in BOOLEAN
      BY <1>8 DEF Progress, UpdateBroadcastProgress, Statement, TypeOK
    <2> QED
      BY <1>8, <2>1, <2>2, <2>3 DEF Progress, TypeOK, botVars, queueVars
  <1>9. CASE Complete(s)
    <2>1. tally' \in [Outcomes -> 0..N] /\ status' \in Statuses
      BY <1>9 DEF Complete, CompleteBroadcast, Statement, TypeOK, Statuses, rowVars
    <2>2. pc' \in [Sends -> Steps]
      BY <1>9 DEF Complete, Goto, TypeOK, Steps
    <2>3. faulty' \in BOOLEAN
      BY <1>9 DEF Complete, CompleteBroadcast, Statement, TypeOK
    <2> QED
      BY <1>9, <2>1, <2>2, <2>3 DEF Complete, TypeOK, botVars, queueVars, localVars
  <1>10. CASE Return(s)
    <2>1. pc' \in [Sends -> Steps]
      BY <1>10 DEF Return, Goto, TypeOK, Steps
    <2>2. task' \in [Sends -> {"none", "pending", "active", "retry",
                               "completed", "archived"}]
      BY <1>10 DEF Return, TypeOK
    <2> QED
      BY <1>10, <2>1, <2>2, ForgetType DEF Return, TypeOK, rowVars, botVars
  <1>11. CASE Panic(s)
    <2>1. pc' \in [Sends -> Steps]
      BY <1>11 DEF Panic, Goto, TypeOK, Steps
    <2> QED
      BY <1>11, <2>1, FailTaskType, ForgetType DEF Panic, TypeOK, rowVars, botVars
  <1> QED
    BY <1>1, <1>2, <1>4, <1>5, <1>6, <1>7, <1>8, <1>9, <1>10, <1>11 DEF WorkerStep
-----------------------------------------------------------------------------
(* The place of each run.                                                  *)

\* Nothing changes for a run whose variables stay.
LEMMA PlaceFrame ==
  ASSUME PlaceInv, UNCHANGED <<pc, idx, count>>
  PROVE  PlaceInv'
  BY DEF PlaceInv

\* Counting the recipient at hand.
LEMMA CountedPlace ==
  ASSUME TypeOK, PlaceInv, NEW s \in Sends, pc[s] \in {"send", "again"},
         NEW o \in Outcomes, Counted(s, o), UNCHANGED idx
  PROVE  PlaceInv'
  <1> SUFFICES ASSUME NEW t \in Sends
      PROVE  /\ pc'[t] \in Looping => idx'[t] <= N
             /\ \A p \in Outcomes : count'[t][p] <= idx'[t]
             /\ pc'[t] \in {"send", "again"} =>
                    \A p \in Outcomes : count'[t][p] < idx'[t]
    BY DEF PlaceInv
  <1>1. CASE t # s
    BY <1>1 DEF Counted, Goto, PlaceInv, TypeOK
  <1>2. CASE t = s
    <2>1. pc'[s] = "look" /\ idx[s] <= N /\ idx[s] \in Nat
      BY DEF Counted, Goto, PlaceInv, Looping, TypeOK
    <2>2. \A p \in Outcomes : /\ count[s][p] < idx[s]
                              /\ count[s][p] \in Nat
      <3>1. \A p \in Outcomes : count[s][p] < idx[s]
        BY DEF PlaceInv
      <3>2. count[s] \in [Outcomes -> 0..N]
        BY DEF TypeOK
      <3> QED
        BY <3>1, <3>2, BroadcastAssumption
    <2>3. \A p \in Outcomes :
             count'[s][p] = IF p = o THEN count[s][p] + 1 ELSE count[s][p]
      BY DEF Counted, TypeOK
    <2>4. \A p \in Outcomes : count'[s][p] <= idx[s]
      BY <2>1, <2>2, <2>3
    <2> QED
      BY <1>2, <2>1, <2>4
  <1> QED
    BY <1>1, <1>2

\* Going on to the next recipient.
LEMMA AdvancePlace ==
  ASSUME TypeOK, PlaceInv, NEW s \in Sends, Advance(s), UNCHANGED count
  PROVE  PlaceInv'
  <1> SUFFICES ASSUME NEW t \in Sends
      PROVE  /\ pc'[t] \in Looping => idx'[t] <= N
             /\ \A p \in Outcomes : count'[t][p] <= idx'[t]
             /\ pc'[t] \in {"send", "again"} =>
                    \A p \in Outcomes : count'[t][p] < idx'[t]
    BY DEF PlaceInv
  <1>1. CASE t # s
    BY <1>1 DEF Advance, Goto, PlaceInv, TypeOK
  <1>2. CASE t = s
    <2>1. \A p \in Outcomes : /\ count'[s][p] <= idx[s]
                              /\ count'[s][p] \in Nat
      BY DEF PlaceInv, TypeOK
    <2>2. idx'[s] = idx[s] + 1 /\ idx[s] \in Nat
      BY DEF Advance, TypeOK
    <2>3. pc'[s] = IF idx[s] < N THEN "send" ELSE "complete"
      BY DEF Advance, Goto, TypeOK
    <2>4. pc'[s] \in Looping => idx'[s] <= N
      BY <2>2, <2>3, BroadcastAssumption DEF Looping
    <2> QED
      BY <1>2, <2>1, <2>2, <2>4
  <1> QED
    BY <1>1, <1>2

\* A run that moves without counting, to a step outside the sending ones.
LEMMA MovePlace ==
  ASSUME TypeOK, PlaceInv, NEW s \in Sends, NEW step, Goto(s, step),
         step \in Looping => pc[s] \in Looping,
         step \in {"send", "again"} => pc[s] \in {"send", "again"},
         UNCHANGED <<idx, count>>
  PROVE  PlaceInv'
  BY DEF Goto, PlaceInv, TypeOK

\* Handlers that end, or are outside the loop, are nowhere.
LEMMA ForgetPlace ==
  ASSUME PlaceInv, TypeOK, NEW S, Forget(S),
         \A s \in Sends : \/ s \in S /\ pc'[s] = "none"
                          \/ s \notin S /\ pc'[s] = pc[s]
  PROVE  PlaceInv'
  BY BroadcastAssumption DEF Forget, PlaceInv, TypeOK, NoTally, Looping

\* The place of each run is kept by every step.
LEMMA NextPlace ==
  ASSUME TypeOK, PlaceInv, [Next]_vars
  PROVE  PlaceInv'
  <1>1. CASE UNCHANGED vars
    BY <1>1, PlaceFrame DEF vars
  <1>2. CASE Cancel \/ \E s \in Sends : Mark(s) \/ BotStep(s) \/ BotCrash(s)
    BY <1>2, PlaceFrame DEF Cancel, Mark, BotStep, Enqueue, EnqueueFails,
       BotCrash, localVars
  <1>3. CASE Shutdown \/ Crash
    <2>1. /\ Forget(Sends)
          /\ \A s \in Sends : pc'[s] = "none"
      BY <1>3 DEF Shutdown, Crash, StopWorkers
    <2> QED
      BY <2>1, ForgetPlace
  <1>4. ASSUME NEW s \in Sends, AsynqStep(s) PROVE PlaceInv'
    <2>1. CASE Dequeue(s)
      BY <2>1 DEF Dequeue, PlaceInv, TypeOK, Looping, localVars
    <2>2. CASE Forward(s) \/ Recover(s)
      BY <2>2, PlaceFrame DEF Forward, Recover, localVars
    <2> QED
      BY <1>4, <2>1, <2>2 DEF AsynqStep
  <1>5. ASSUME NEW s \in Sends, WorkerStep(s) PROVE PlaceInv'
    <2>1. CASE Load(s)
      <3>1. CASE Goto(s, "mark")
        BY <2>1, <3>1, MovePlace DEF Load, Looping, localVars
      <3>2. CASE Goto(s, "none")
        BY <2>1, <3>2, MovePlace DEF Load, Looping, localVars
      <3> QED
        BY <2>1, <3>1, <3>2 DEF Load
    <2>2. CASE Run(s)
      <3> SUFFICES ASSUME NEW t \in Sends
          PROVE  /\ pc'[t] \in Looping => idx'[t] <= N
                 /\ \A p \in Outcomes : count'[t][p] <= idx'[t]
                 /\ pc'[t] \in {"send", "again"} =>
                        \A p \in Outcomes : count'[t][p] < idx'[t]
        BY DEF PlaceInv
      <3>1. CASE t # s
        BY <2>2, <3>1 DEF Run, Goto, PlaceInv, TypeOK
      <3>2. CASE t = s
        <4>1. idx'[s] = 1 /\ \A p \in Outcomes : count'[s][p] = 0
          BY <2>2 DEF Run, TypeOK, NoTally
        <4>2. pc'[s] \in Looping => N # 0
          BY <2>2 DEF Run, Goto, TypeOK, Looping
        <4> QED
          BY <3>2, <4>1, <4>2, BroadcastAssumption
      <3> QED
        BY <3>1, <3>2
    <2>3. CASE Send(s)
      <3>1. CASE \E o \in Outcomes : Counted(s, o)
        BY <2>3, <3>1, CountedPlace DEF Send
      <3>2. CASE ~\E o \in Outcomes : Counted(s, o)
        <4>1. Goto(s, "again") /\ UNCHANGED <<idx, count>> /\ pc[s] = "send"
          BY <2>3, <3>2 DEF Send, Outcomes
        <4> QED
          BY <4>1, MovePlace DEF Looping
      <3> QED
        BY <3>1, <3>2
    <2>4. CASE SendAgain(s)
      <3>1. \E o \in Outcomes : Counted(s, o)
        BY <2>4 DEF SendAgain, Outcomes
      <3> QED
        BY <2>4, <3>1, CountedPlace DEF SendAgain
    <2>5. CASE Look(s)
      BY <2>5, MovePlace DEF Look, Looping
    <2>6. CASE Save(s)
      <3>1. CASE Advance(s)
        BY <2>6, <3>1, AdvancePlace DEF Save
      <3>2. CASE Goto(s, "progress") /\ UNCHANGED idx
        BY <2>6, <3>2, MovePlace DEF Save, Looping
      <3> QED
        BY <2>6, <3>1, <3>2 DEF Save
    <2>7. CASE Progress(s)
      BY <2>7, AdvancePlace DEF Progress
    <2>8. CASE Complete(s)
      BY <2>8, MovePlace DEF Complete, Looping, localVars
    <2>9. CASE Return(s)
      <3>1. \A t \in Sends : \/ t \in {s} /\ pc'[t] = "none"
                             \/ t \notin {s} /\ pc'[t] = pc[t]
        BY <2>9 DEF Return, Goto, TypeOK
      <3> QED
        BY <2>9, <3>1, ForgetPlace DEF Return
    <2>10. CASE Panic(s)
      <3>1. \A t \in Sends : \/ t \in {s} /\ pc'[t] = "none"
                             \/ t \notin {s} /\ pc'[t] = pc[t]
        BY <2>10 DEF Panic, Goto, TypeOK
      <3> QED
        BY <2>10, <3>1, ForgetPlace DEF Panic
    <2> QED
      BY <1>5, <2>1, <2>2, <2>3, <2>4, <2>5, <2>6, <2>7, <2>8, <2>9, <2>10
      DEF WorkerStep
  <1> QED
    BY <1>1, <1>2, <1>3, <1>4, <1>5 DEF Next
-----------------------------------------------------------------------------
(* Nobody is skipped.                                                      *)

\* The rows behind a run stay while the run does not move.
LEMMA BehindKept ==
  ASSUME TypeOK, PlaceInv, RowsKept, NEW t \in Sends, Behind(t),
         pc'[t] = pc[t], idx'[t] = idx[t], seen'[t] = seen[t]
  PROVE  Behind(t)'
  <1>1. pc[t] \in {"save", "progress"} => idx[t] \in Recipients
    BY DEF PlaceInv, Looping, TypeOK, Recipients
  <1> QED
    BY <1>1 DEF Behind, RowsKept

\* The same for all runs, when a run that moves is outside its loop.
LEMMA BehindFrame ==
  ASSUME TypeOK, PlaceInv, BehindInv, RowsKept, ~faulty' => ~faulty,
         \A t \in Sends : \/ pc'[t] \notin Looping \cup {"complete"}
                          \/ /\ pc'[t] = pc[t] /\ idx'[t] = idx[t]
                             /\ seen'[t] = seen[t]
  PROVE  BehindInv'
  <1> SUFFICES ASSUME ~faulty', NEW t \in Sends PROVE Behind(t)'
    BY DEF BehindInv
  <1>1. Behind(t)
    BY DEF BehindInv
  <1>2. CASE pc'[t] \notin Looping \cup {"complete"}
    BY <1>2 DEF Behind, Looping
  <1>3. CASE pc'[t] = pc[t] /\ idx'[t] = idx[t] /\ seen'[t] = seen[t]
    BY <1>1, <1>3, BehindKept
  <1> QED
    BY <1>2, <1>3

\* A status other than COMPLETED, or the old one, claims nothing new.
LEMMA CompletedFrame ==
  ASSUME CompletedSkipsNobody, RowsKept, ~faulty' => ~faulty,
         status' = status \/ status' # "COMPLETED"
  PROVE  CompletedSkipsNobody'
  BY DEF CompletedSkipsNobody, RowsKept

\* The end of the body: the recipient at hand has its row, the loop goes on.
LEMMA AdvanceBehind ==
  ASSUME TypeOK, PlaceInv, NEW s \in Sends, pc[s] \in Looping, Behind(s),
         Advance(s), RowsKept, rows'[idx[s]] # <<>>
  PROVE  Behind(s)'
  <1>1. idx[s] <= N /\ idx[s] \in Nat /\ N \in Nat
    BY BroadcastAssumption DEF PlaceInv, TypeOK
  <1>2. idx'[s] = idx[s] + 1
    BY DEF Advance, TypeOK
  <1>3. pc'[s] = IF idx[s] < N THEN "send" ELSE "complete"
    BY DEF Advance, Goto, TypeOK
  <1>4. ASSUME NEW r \in Recipients, r < idx'[s] PROVE rows'[r] # <<>>
    <2>1. CASE r = idx[s]
      BY <2>1
    <2>2. CASE r # idx[s]
      <3>1. r < idx[s]
        BY <1>1, <1>2, <1>4, <2>2 DEF Recipients
      <3> QED
        BY <3>1 DEF Behind, RowsKept
    <2> QED
      BY <2>1, <2>2
  <1>5. pc'[s] = "complete" => idx'[s] = N + 1
    BY <1>1, <1>2, <1>3
  <1> QED
    BY <1>3, <1>4, <1>5 DEF Behind

\* The steps of the bot, of asynq and of the stops write no row and move no run
\* into its loop.
LEMMA OutsideBehind ==
  ASSUME IInv,
         \/ Cancel \/ Shutdown \/ Crash
         \/ \E s \in Sends : Mark(s) \/ BotStep(s) \/ BotCrash(s) \/ AsynqStep(s)
  PROVE  BehindInv' /\ CompletedSkipsNobody'
  <1>1. rows' = rows
    BY DEF Cancel, Shutdown, Crash, Mark, BotStep, Enqueue, EnqueueFails,
       BotCrash, AsynqStep, Dequeue, Forward, Recover
  <1>2. ~faulty' => ~faulty
    BY DEF Cancel, Shutdown, Crash, Mark, BotStep, Enqueue, EnqueueFails,
       BotCrash, AsynqStep, Dequeue, Forward, Recover, FailTask,
       UpdateBroadcastStatus, Statement
  <1>3. status' = status \/ status' # "COMPLETED"
    BY DEF Cancel, Shutdown, Crash, Mark, BotStep, Enqueue, EnqueueFails,
       BotCrash, AsynqStep, Dequeue, Forward, Recover, UpdateBroadcastStatus,
       Statement, rowVars
  <1>4. RowsKept
    BY <1>1 DEF RowsKept
  <1>5. \A t \in Sends : \/ pc'[t] \notin Looping \cup {"complete"}
                         \/ /\ pc'[t] = pc[t] /\ idx'[t] = idx[t]
                            /\ seen'[t] = seen[t]
    <2>1. CASE Shutdown \/ Crash
      BY <2>1 DEF Shutdown, Crash, StopWorkers, Looping
    <2>2. ASSUME NEW s \in Sends, Dequeue(s)
          PROVE  \A t \in Sends : \/ pc'[t] \notin Looping \cup {"complete"}
                                  \/ /\ pc'[t] = pc[t] /\ idx'[t] = idx[t]
                                     /\ seen'[t] = seen[t]
      BY <2>2 DEF Dequeue, IInv, TypeOK, Looping, localVars
    <2>3. CASE UNCHANGED <<pc, idx, seen>>
      BY <2>3
    <2> QED
      BY <2>1, <2>2, <2>3 DEF Cancel, Mark, BotStep, Enqueue, EnqueueFails,
         BotCrash, AsynqStep, Forward, Recover, localVars
  <1> QED
    BY <1>2, <1>3, <1>4, <1>5, BehindFrame, CompletedFrame DEF IInv

\* The worker's steps: a recipient is left behind only with a row.
LEMMA WorkerBehind ==
  ASSUME IInv, NEW s \in Sends, WorkerStep(s)
  PROVE  BehindInv' /\ CompletedSkipsNobody'
  <1> USE DEF IInv
  <1>1. ~faulty' => ~faulty
    BY DEF WorkerStep, Load, Run, Send, Panic, SendAgain, Look, Save, Progress,
       Complete, Return, FailTask, UpdateBroadcastStatus,
       UpdateBroadcastProgress, CompleteBroadcast, Statement
  <1>2. ASSUME NEW t \in Sends, t # s
        PROVE  pc'[t] = pc[t] /\ idx'[t] = idx[t] /\ seen'[t] = seen[t]
    <2>1. CASE Load(s) \/ Run(s) \/ Complete(s)
      BY <1>2, <2>1 DEF Load, Run, Complete, Goto, TypeOK, localVars
    <2>2. CASE Send(s) \/ SendAgain(s)
      BY <1>2, <2>2 DEF Send, SendAgain, Counted, Goto, TypeOK
    <2>3. CASE Look(s)
      BY <1>2, <2>3 DEF Look, Goto, TypeOK
    <2>4. CASE Save(s) \/ Progress(s)
      BY <1>2, <2>4 DEF Save, Progress, Advance, Goto, TypeOK
    <2>5. CASE Return(s) \/ Panic(s)
      BY <1>2, <2>5 DEF Return, Panic, Goto, Forget, TypeOK
    <2> QED
      BY <2>1, <2>2, <2>3, <2>4, <2>5 DEF WorkerStep
  <1>3. ASSUME RowsKept, ~faulty' => Behind(s)' PROVE BehindInv'
    <2> SUFFICES ASSUME ~faulty', NEW t \in Sends PROVE Behind(t)'
      BY DEF BehindInv
    <2>1. CASE t = s
      BY <1>3, <2>1
    <2>2. CASE t # s
      BY <1>1, <1>2, <1>3, <2>2, BehindKept DEF BehindInv
    <2> QED
      BY <2>1, <2>2
  <1>4. ASSUME rows' = rows PROVE RowsKept
    BY <1>4 DEF RowsKept
  <1>5. ~faulty => Behind(s)
    BY DEF BehindInv
  <1>6. CASE Load(s)
    <2>1. Behind(s)'
      BY <1>6 DEF Load, Goto, Behind, Looping, TypeOK
    <2> QED
      BY <1>1, <1>3, <1>4, <1>6, <2>1, CompletedFrame DEF Load, rowVars
  <1>7. CASE Run(s)
    <2>1. idx'[s] = 1 /\ pc'[s] = IF N = 0 THEN "complete" ELSE "send"
      BY <1>7 DEF Run, Goto, TypeOK
    <2>2. Behind(s)'
      BY <2>1, BroadcastAssumption DEF Behind, Recipients
    <2>3. status' = status \/ status' # "COMPLETED"
      BY <1>7 DEF Run, UpdateBroadcastStatus, Statement, rowVars
    <2> QED
      BY <1>1, <1>3, <1>4, <1>7, <2>2, <2>3, CompletedFrame DEF Run
  <1>8. CASE Send(s) \/ SendAgain(s)
    <2>1. /\ pc[s] \in {"send", "again"} /\ pc'[s] \in {"again", "look"}
          /\ idx'[s] = idx[s] /\ rows' = rows /\ status' = status
      BY <1>8 DEF Send, SendAgain, Counted, Goto, TypeOK, rowVars
    <2>2. ~faulty' => Behind(s)'
      BY <1>1, <1>5, <2>1 DEF Behind, Looping
    <2> QED
      BY <1>1, <1>3, <1>4, <2>1, <2>2, CompletedFrame
  <1>9. CASE Look(s)
    <2>1. /\ pc[s] = "look" /\ pc'[s] = "save" /\ idx'[s] = idx[s]
          /\ rows' = rows /\ status' = status
      BY <1>9 DEF Look, Goto, TypeOK, rowVars
    <2>2. seen'[s] => rows[idx[s]] # <<>>
      BY <1>9 DEF Look, TypeOK
    <2>3. ~faulty' => Behind(s)'
      BY <1>1, <1>5, <2>1, <2>2 DEF Behind, Looping
    <2> QED
      BY <1>1, <1>3, <1>4, <2>1, <2>3, CompletedFrame
  <1>10. CASE Save(s)
    <2>1. idx[s] \in Recipients /\ pc[s] \in Looping
      BY <1>10 DEF Save, PlaceInv, Looping, TypeOK, Recipients
    <2>2. CASE faulty'
      BY <1>10, <2>2 DEF BehindInv, CompletedSkipsNobody
    <2>3. CASE ~faulty'
      <3>1. Store(s) /\ (seen[s] => rows[idx[s]] # <<>>)
        BY <1>1, <1>5, <1>10, <2>3 DEF Save, Statement, Behind
      <3>2. RowsKept /\ rows'[idx[s]] # <<>>
        BY <2>1, <3>1, StoreFacts
      <3>3. CASE Advance(s)
        BY <1>1, <1>3, <1>5, <1>10, <2>1, <2>3, <3>2, <3>3, AdvanceBehind,
           CompletedFrame DEF Save, rowVars
      <3>4. CASE Goto(s, "progress") /\ UNCHANGED idx
        <4>1. Behind(s)'
          <5>1. pc'[s] = "progress" /\ idx'[s] = idx[s]
            BY <3>4 DEF Goto, TypeOK
          <5> QED
            BY <1>1, <1>5, <2>1, <2>3, <3>2, <5>1 DEF Behind, RowsKept, Looping
        <4> QED
          BY <1>1, <1>3, <1>10, <3>2, <4>1, CompletedFrame DEF Save, rowVars
      <3> QED
        BY <1>10, <3>3, <3>4 DEF Save
    <2> QED
      BY <2>2, <2>3
  <1>11. CASE Progress(s)
    <2>1. pc[s] = "progress" /\ rows' = rows /\ status' = status /\ Advance(s)
      BY <1>11 DEF Progress, UpdateBroadcastProgress, Statement, rowVars
    <2>2. ~faulty' => Behind(s)'
      BY <1>1, <1>4, <1>5, <2>1, AdvanceBehind DEF Behind, Looping
    <2> QED
      BY <1>1, <1>3, <1>4, <2>1, <2>2, CompletedFrame
  <1>12. CASE Complete(s)
    <2>1. pc[s] = "complete" /\ pc'[s] = "return" /\ rows' = rows
      BY <1>12 DEF Complete, Goto, TypeOK
    <2>2. Behind(s)'
      BY <2>1 DEF Behind, Looping
    <2>3. ~faulty' => \A r \in Recipients : rows[r] # <<>>
      <3>1. ~faulty' => idx[s] = N + 1
        BY <1>1, <1>5, <2>1 DEF Behind
      <3>2. \A r \in Recipients : r < N + 1
        BY BroadcastAssumption DEF Recipients
      <3> QED
        BY <1>1, <1>5, <2>1, <3>1, <3>2 DEF Behind
    <2> QED
      BY <1>3, <1>4, <2>1, <2>2, <2>3 DEF CompletedSkipsNobody
  <1>13. CASE Return(s) \/ Panic(s)
    <2>1. pc'[s] = "none" /\ rows' = rows /\ status' = status
      BY <1>13 DEF Return, Panic, Goto, TypeOK, rowVars
    <2>2. Behind(s)'
      BY <2>1 DEF Behind, Looping
    <2> QED
      BY <1>1, <1>3, <1>4, <2>1, <2>2, CompletedFrame
  <1> QED
    BY <1>6, <1>7, <1>8, <1>9, <1>10, <1>11, <1>12, <1>13 DEF WorkerStep

\* IInv is inductive.
LEMMA NextInv == IInv /\ [Next]_vars => IInv'
  <1> SUFFICES ASSUME IInv, [Next]_vars PROVE IInv'
    OBVIOUS
  <1>1. CASE UNCHANGED vars
    BY <1>1 DEF vars, IInv, TypeOK, PlaceInv, BehindInv, Behind,
       CompletedSkipsNobody
  <1>2. CASE Next
    <2>1. PlaceInv'
      BY NextPlace DEF IInv
    <2>2. CASE Cancel \/ \E s \in Sends : Mark(s) \/ BotStep(s) \/ BotCrash(s)
      BY <2>1, <2>2, BotType, OutsideBehind DEF IInv
    <2>3. CASE Shutdown \/ Crash \/ \E s \in Sends : AsynqStep(s)
      BY <2>1, <2>3, AsynqType, OutsideBehind DEF IInv
    <2>4. CASE \E s \in Sends : WorkerStep(s)
      BY <2>1, <2>4, WorkerType, WorkerBehind DEF IInv
    <2> QED
      BY <1>2, <2>2, <2>3, <2>4 DEF Next
  <1> QED
    BY <1>1, <1>2

\* Every reachable state satisfies IInv.
THEOREM Invariant == Spec => []IInv
  BY InitInv, NextInv, PTL DEF Spec

\* For any number of recipients, Send taps and stops of the worker: COMPLETED is
\* in the row only once SaveBroadcastDelivery has run for every recipient.
THEOREM NobodyIsSkipped == Spec => []CompletedSkipsNobody
  <1>1. IInv => CompletedSkipsNobody
    BY DEF IInv
  <1> QED
    BY <1>1, Invariant, PTL

-----------------------------------------------------------------------------
(* The report.  A single task is the only one to touch the rows; it counts *)
(* what it stores, and a restart begins both from the first recipient.     *)

\* Every task that runs was enqueued.
Working == \A s \in Sends : pc[s] # "none" => task[s] # "none"

\* No recipient has two rows.
SingleRows == \A r \in Recipients : rows[r] # <<>> => \E o \in Outcomes : rows[r] = <<o>>

\* The recipients before a place with one outcome, and a run's count of them:
\* the outcome at hand is counted before it is stored.
Before(table, n, o) == {r \in Recipients : r < n /\ table[r] = <<o>>}

CountsRows(s) ==
    /\ pc[s] \in {"send", "again", "complete"} =>
           \A o \in Outcomes : count[s][o] = Cardinality(Before(rows, idx[s], o))
    /\ pc[s] \in {"look", "save"} =>
           \A o \in Outcomes :
               count[s][o] = Cardinality(Before(rows, idx[s], o)) + (IF o = out[s] THEN 1 ELSE 0)
    /\ pc[s] = "progress" =>
           \A o \in Outcomes : count[s][o] = Cardinality(Before(rows, idx[s] + 1, o))
    /\ pc[s] = "save" /\ ~seen[s] => rows[idx[s]] = <<>>
    /\ pc[s] \in Looping \cup {"complete"} => status # "COMPLETED"

TallyFits == status = "COMPLETED" => \A o \in Outcomes : tally[o] = Cardinality(Result(o))

ReportInv ==
    /\ Working
    /\ OneTask /\ ~faulty => SingleRows /\ TallyFits /\ \A s \in Sends : CountsRows(s)

\* A table with one more recipient behind: the outcome stored for it counts.
LEMMA BeforeFacts ==
  ASSUME NEW f, NEW g, NEW n \in Recipients, NEW p \in Outcomes,
         g[n] = <<p>>, \A r \in Recipients \ {n} : g[r] = f[r]
  PROVE  \A o \in Outcomes : Cardinality(Before(g, n + 1, o))
                             = Cardinality(Before(f, n, o)) + (IF o = p THEN 1 ELSE 0)
  <1>1. N \in Nat /\ n \in Nat
    BY BroadcastAssumption DEF Recipients
  <1>2. ASSUME NEW o \in Outcomes
        PROVE  Cardinality(Before(g, n + 1, o))
               = Cardinality(Before(f, n, o)) + (IF o = p THEN 1 ELSE 0)
    <2>1. PICK B : B = Before(f, n, o)
      OBVIOUS
    <2>2. IsFiniteSet(Recipients)
      BY <1>1, FS_Interval DEF Recipients
    <2>3. B \subseteq Recipients /\ n \notin B
      BY <1>1, <2>1 DEF Before, Recipients
    <2>4. IsFiniteSet(B)
      BY <2>2, <2>3, FS_Subset
    <2>5. Cardinality(B) \in Nat /\ Cardinality(B \cup {n}) = Cardinality(B) + 1
      BY <2>3, <2>4, FS_AddElement, FS_CardinalityType
    <2>6. <<p>> = <<o>> <=> o = p
      OBVIOUS
    <2>7. \A r \in Recipients : r < n + 1 <=> r < n \/ r = n
      BY <1>1 DEF Recipients
    <2>8. o = p => Before(g, n + 1, o) = B \cup {n}
      BY <1>1, <2>1, <2>6, <2>7 DEF Before, Recipients
    <2>9. o # p => Before(g, n + 1, o) = B
      BY <1>1, <2>1, <2>6, <2>7 DEF Before, Recipients
    <2> QED
      BY <2>1, <2>5, <2>8, <2>9
  <1> QED
    BY <1>2

\* At the start of the list nobody is behind, at its end everybody.
LEMMA BeforeEnds ==
  ASSUME NEW o
  PROVE  Cardinality(Before(rows, 1, o)) = 0 /\ Before(rows, N + 1, o) = Result(o)
  <1>1. N \in Nat
    BY BroadcastAssumption
  <1>2. Before(rows, 1, o) = {}
    BY <1>1 DEF Before, Recipients
  <1>3. \A r \in Recipients : r < N + 1
    BY <1>1 DEF Recipients
  <1>4. Before(rows, N + 1, o) = Result(o)
    BY <1>3 DEF Before, Result
  <1> QED
    BY <1>2, <1>4, FS_EmptySet

\* A task that was enqueued stays so, and a fault is not forgotten.
LEMMA TaskStays ==
  ASSUME TypeOK, Working, [Next]_vars
  PROVE  /\ \A s \in Sends : task[s] # "none" => task'[s] # "none"
         /\ faulty => faulty'
         /\ Working'
  <1>1. CASE Cancel
    BY <1>1 DEF Cancel, UpdateBroadcastStatus, Statement, queueVars, Working
  <1>2. CASE Shutdown \/ Crash
    BY <1>2 DEF Shutdown, Crash, StopWorkers, Working, TypeOK
  <1>3. ASSUME NEW s \in Sends, Mark(s) \/ EnqueueFails(s) \/ BotCrash(s)
        PROVE  UNCHANGED <<task, pc>> /\ (faulty => faulty')
    BY <1>3 DEF Mark, EnqueueFails, BotCrash, UpdateBroadcastStatus, Statement, queueVars
  <1>4. ASSUME NEW s \in Sends, Enqueue(s) \/ Forward(s) \/ Recover(s)
        PROVE  UNCHANGED pc /\ (faulty => faulty') /\ \A t \in Sends : task[t] # "none" => task'[t] # "none"
    BY <1>4 DEF Enqueue, Forward, Recover, FailTask, TypeOK
  <1>5. ASSUME NEW s \in Sends, Dequeue(s)
        PROVE  /\ UNCHANGED faulty /\ \A t \in Sends : task[t] # "none" => task'[t] # "none"
               /\ task'[s] # "none" /\ \A t \in Sends \ {s} : pc'[t] = pc[t]
    BY <1>5 DEF Dequeue, TypeOK
  <1>6. ASSUME NEW s \in Sends, WorkerStep(s)
        PROVE  /\ faulty => faulty'
               /\ \A t \in Sends : task[t] # "none" => task'[t] # "none"
               /\ pc[s] # "none" /\ \A t \in Sends \ {s} : pc'[t] = pc[t]
    <2>1. CASE Load(s)
      BY <2>1 DEF Load, FailTask, Goto, TypeOK
    <2>2. CASE Return(s) \/ Panic(s)
      BY <2>2 DEF Return, Panic, FailTask, Goto, TypeOK
    <2>3. CASE Run(s) \/ Send(s) \/ SendAgain(s) \/ Look(s) \/ Save(s) \/ Progress(s) \/ Complete(s)
      <3>1. UNCHANGED task /\ pc[s] # "none"
        BY <2>3 DEF Run, Send, SendAgain, Look, Save, Progress, Complete, queueVars
      <3>2. faulty => faulty'
        BY <2>3 DEF Run, Send, SendAgain, Look, Save, Progress, Complete, UpdateBroadcastStatus,
                    UpdateBroadcastProgress, CompleteBroadcast, Statement
      <3>3. \E step : Goto(s, step)
        BY <2>3 DEF Run, Send, SendAgain, Look, Save, Progress, Complete, Counted, Advance
      <3>4. \A t \in Sends \ {s} : pc'[t] = pc[t]
        BY <3>3 DEF Goto, TypeOK
      <3> QED
        BY <3>1, <3>2, <3>4
    <2> QED
      BY <1>6, <2>1, <2>2, <2>3 DEF WorkerStep
  <1>7. CASE UNCHANGED vars
    BY <1>7 DEF vars, Working
  <1>8. CASE \E s \in Sends : Mark(s) \/ EnqueueFails(s) \/ BotCrash(s)
    BY <1>3, <1>8 DEF Working
  <1>9. CASE \E s \in Sends : Enqueue(s) \/ Forward(s) \/ Recover(s)
    BY <1>4, <1>9 DEF Working
  <1>10. CASE \E s \in Sends : Dequeue(s)
    BY <1>5, <1>10 DEF Working
  <1>11. CASE \E s \in Sends : WorkerStep(s)
    BY <1>6, <1>11 DEF Working
  <1> QED
    BY <1>1, <1>2, <1>7, <1>8, <1>9, <1>10, <1>11 DEF Next, BotStep, AsynqStep

\* Steps that store nothing and begin no run.
LEMMA ReportFrame ==
  ASSUME SingleRows, TallyFits, \A s \in Sends : CountsRows(s), UNCHANGED rows,
         (status' = status /\ tally' = tally) \/ status' # "COMPLETED",
         \A s \in Sends :
             \/ pc'[s] \in {"none", "load", "mark", "return"}
             \/ /\ pc'[s] = pc[s] /\ idx'[s] = idx[s] /\ count'[s] = count[s]
                /\ out'[s] = out[s] /\ seen'[s] = seen[s]
  PROVE  SingleRows' /\ TallyFits' /\ \A s \in Sends : CountsRows(s)'
  <1>1. SingleRows'
    BY DEF SingleRows
  <1>2. TallyFits'
    BY DEF TallyFits, Result
  <1>3. ASSUME NEW s \in Sends PROVE CountsRows(s)'
    <2>1. CASE pc'[s] \in {"none", "load", "mark", "return"}
      BY <2>1 DEF CountsRows, Looping
    <2>2. CASE /\ pc'[s] = pc[s] /\ idx'[s] = idx[s] /\ count'[s] = count[s]
               /\ out'[s] = out[s] /\ seen'[s] = seen[s]
      BY <2>2 DEF CountsRows
    <2> QED
      BY <2>1, <2>2
  <1> QED
    BY <1>1, <1>2, <1>3

\* The bot, asynq and stops leave the report as it is.
LEMMA OutsideReport ==
  ASSUME TypeOK, SingleRows, TallyFits, \A s \in Sends : CountsRows(s), ~faulty',
         \/ Cancel \/ Shutdown \/ Crash
         \/ \E s \in Sends : Mark(s) \/ BotStep(s) \/ BotCrash(s) \/ AsynqStep(s)
         \/ UNCHANGED vars
  PROVE  SingleRows' /\ TallyFits' /\ \A s \in Sends : CountsRows(s)'
  <1>1. ASSUME UNCHANGED <<rows, pc, localVars>>,
               (status' = status /\ tally' = tally) \/ status' # "COMPLETED"
        PROVE  SingleRows' /\ TallyFits' /\ \A s \in Sends : CountsRows(s)'
    BY <1>1, ReportFrame DEF localVars
  <1>2. CASE Cancel \/ \E s \in Sends : Mark(s) \/ EnqueueFails(s)
    <2>1. UNCHANGED <<rows, pc, localVars>>
      BY <1>2 DEF Cancel, Mark, EnqueueFails
    <2>2. status' # "COMPLETED" \/ UNCHANGED <<status, tally>>
      BY <1>2 DEF Cancel, Mark, EnqueueFails, UpdateBroadcastStatus, Statement, rowVars
    <2> QED
      BY <1>1, <2>1, <2>2
  <1>3. CASE UNCHANGED vars \/ \E s \in Sends : Enqueue(s) \/ BotCrash(s) \/ Forward(s) \/ Recover(s)
    <2>1. UNCHANGED <<rows, pc, localVars, status, tally>>
      BY <1>3 DEF vars, Enqueue, BotCrash, Forward, Recover, rowVars, localVars
    <2> QED
      BY <1>1, <2>1
  <1>4. CASE Shutdown \/ Crash
    <2>1. UNCHANGED <<rows, status, tally>> /\ \A s \in Sends : pc'[s] = "none"
      BY <1>4 DEF Shutdown, Crash, StopWorkers, rowVars
    <2> QED
      BY <2>1, ReportFrame
  <1>5. ASSUME NEW s \in Sends, Dequeue(s)
        PROVE  SingleRows' /\ TallyFits' /\ \A t \in Sends : CountsRows(t)'
    <2>1. UNCHANGED <<rows, status, tally, idx, count, out, seen>>
      BY <1>5 DEF Dequeue, rowVars, localVars
    <2>2. pc'[s] = "load" /\ \A t \in Sends \ {s} : pc'[t] = pc[t]
      BY <1>5 DEF Dequeue, TypeOK
    <2> QED
      BY <2>1, <2>2, ReportFrame
  <1> QED
    BY <1>2, <1>3, <1>4, <1>5 DEF BotStep, AsynqStep

\* The rows after the single task stored an outcome: one row for its recipient.
LEMMA StoreSingle ==
  ASSUME IInv, SingleRows, ~faulty, NEW s \in Sends, CountsRows(s), pc[s] = "save", Store(s)
  PROVE  /\ idx[s] \in Recipients /\ out[s] \in Outcomes /\ rows'[idx[s]] = <<out[s]>>
         /\ \A r \in Recipients \ {idx[s]} : rows'[r] = rows[r]
  <1>1. idx[s] \in Recipients
    BY BroadcastAssumption DEF IInv, TypeOK, PlaceInv, Looping, Recipients
  <1>2. out[s] \in Outcomes /\ seen[s] \in BOOLEAN /\ DOMAIN rows = Recipients
    BY DEF IInv, TypeOK
  <1>3. PICK q : q = rows[idx[s]]
    OBVIOUS
  <1>4. rows' = [rows EXCEPT ![idx[s]] = IF seen[s] THEN [i \in DOMAIN q |-> out[s]] ELSE Append(q, out[s])]
    BY <1>3 DEF Store
  <1>5. \A r \in Recipients \ {idx[s]} : rows'[r] = rows[r]
    BY <1>1, <1>2, <1>4
  <1>6. CASE seen[s]
    <2>1. q # <<>>
      BY <1>3, <1>6 DEF IInv, BehindInv, Behind
    <2>2. PICK o \in Outcomes : q = <<o>>
      BY <1>1, <1>3, <2>1 DEF SingleRows
    <2>3. DOMAIN q = 1..1
      BY <2>2
    <2>4. [i \in DOMAIN q |-> out[s]] = <<out[s]>>
      BY <2>3
    <2> QED
      BY <1>1, <1>2, <1>4, <1>5, <1>6, <2>4
  <1>7. CASE ~seen[s]
    <2>1. q = <<>>
      BY <1>3, <1>7 DEF CountsRows
    <2>2. Append(q, out[s]) = <<out[s]>>
      BY <2>1
    <2> QED
      BY <1>1, <1>2, <1>4, <1>5, <1>7, <2>2
  <1> QED
    BY <1>2, <1>6, <1>7

\* The end of the loop's body, with what a run has behind it counted.
LEMMA AdvanceReport ==
  ASSUME IInv, NEW s \in Sends, Advance(s), status' # "COMPLETED",
         \A o \in Outcomes : count'[s][o] = Cardinality(Before(rows', idx[s] + 1, o))
  PROVE  CountsRows(s)'
  <1>1. idx'[s] = idx[s] + 1 /\ pc'[s] \in {"send", "complete"}
    BY DEF Advance, Goto, IInv, TypeOK
  <1> QED
    BY <1>1 DEF CountsRows

\* The steps of the one task.
LEMMA WorkerReport ==
  ASSUME IInv, Working, OneTask, ~faulty, SingleRows, TallyFits, \A t \in Sends : CountsRows(t),
         NEW s \in Sends, WorkerStep(s), ~faulty'
  PROVE  SingleRows' /\ TallyFits' /\ \A t \in Sends : CountsRows(t)'
  <1>0. TypeOK /\ CountsRows(s) /\ count[s] \in [Outcomes -> Nat]
    BY BroadcastAssumption DEF IInv, TypeOK
  <1>1. pc[s] # "none" /\ \E step : Goto(s, step)
    BY DEF WorkerStep, Load, Run, Send, Panic, SendAgain, Look, Save, Progress, Complete, Return,
           Counted, Advance
  <1>2. \A t \in Sends \ {s} : pc[t] = "none" /\ pc'[t] = "none"
    BY <1>0, <1>1 DEF Working, OneTask, Goto, TypeOK
  <1>3. ASSUME SingleRows', TallyFits', CountsRows(s)'
        PROVE  SingleRows' /\ TallyFits' /\ \A t \in Sends : CountsRows(t)'
    <2>1. ASSUME NEW t \in Sends \ {s} PROVE CountsRows(t)'
      BY <1>2 DEF CountsRows, Looping
    <2> QED
      BY <1>3, <2>1
  <1>4. CASE Load(s) \/ Return(s) \/ Panic(s)
    <2>1. UNCHANGED <<rows, status, tally>>
      BY <1>4 DEF Load, Return, Panic, rowVars
    <2>2. pc'[s] \in {"none", "mark"}
      BY <1>0, <1>4 DEF Load, Return, Panic, Goto, TypeOK
    <2> QED
      BY <1>2, <2>1, <2>2, ReportFrame
  <1>5. ASSUME UNCHANGED rows, status' # "COMPLETED", CountsRows(s)'
        PROVE  SingleRows' /\ TallyFits' /\ \A t \in Sends : CountsRows(t)'
    <2>1. SingleRows' /\ TallyFits'
      BY <1>5 DEF SingleRows, TallyFits
    <2> QED
      BY <1>3, <1>5, <2>1
  <1>6. CASE Run(s)
    <2>1. status' = "RUNNING" /\ rows' = rows
      BY <1>6 DEF Run, UpdateBroadcastStatus, Statement
    <2>2. idx'[s] = 1 /\ count'[s] = NoTally /\ pc'[s] \in {"send", "complete"}
      BY <1>0, <1>6 DEF Run, Goto, TypeOK
    <2>3. \A o \in Outcomes : count'[s][o] = Cardinality(Before(rows', idx'[s], o))
      BY <2>1, <2>2, BeforeEnds DEF NoTally
    <2>4. CountsRows(s)'
      BY <2>1, <2>2, <2>3 DEF CountsRows
    <2> QED
      BY <1>5, <2>1, <2>4
  <1>7. CASE Send(s) \/ SendAgain(s)
    <2>1. UNCHANGED <<rows, idx, status>> /\ pc[s] \in {"send", "again"}
      BY <1>7 DEF Send, SendAgain, rowVars
    <2>2. status # "COMPLETED" /\ \A o \in Outcomes : count[s][o] = Cardinality(Before(rows, idx[s], o))
      BY <1>0, <2>1 DEF CountsRows, Looping
    <2>3. CASE Goto(s, "again") /\ UNCHANGED <<out, count>>
      <3>1. pc'[s] = "again"
        BY <1>0, <2>3 DEF Goto, TypeOK
      <3>2. CountsRows(s)'
        BY <2>1, <2>2, <2>3, <3>1 DEF CountsRows
      <3> QED
        BY <1>5, <2>1, <2>2, <3>2
    <2>4. ASSUME NEW p \in Outcomes, Counted(s, p)
          PROVE  SingleRows' /\ TallyFits' /\ \A t \in Sends : CountsRows(t)'
      <3>1. pc'[s] = "look" /\ out'[s] = p
        BY <1>0, <2>4 DEF Counted, Goto, TypeOK
      <3>2. \A o \in Outcomes : count'[s][o] = count[s][o] + (IF o = p THEN 1 ELSE 0)
        BY <1>0, <2>4 DEF Counted, TypeOK
      <3>3. CountsRows(s)'
        BY <2>1, <2>2, <3>1, <3>2 DEF CountsRows
      <3> QED
        BY <1>5, <2>1, <2>2, <3>3
    <2> QED
      BY <1>7, <2>3, <2>4 DEF Send, SendAgain, Outcomes
  <1>8. CASE Look(s)
    <2>1. UNCHANGED <<rows, idx, count, out, status>> /\ pc[s] = "look"
      BY <1>8 DEF Look, rowVars
    <2>2. pc'[s] = "save" /\ (~seen'[s] => rows[idx[s]] = <<>>)
      BY <1>0, <1>8 DEF Look, Goto, TypeOK
    <2>3. status # "COMPLETED" /\ \A o \in Outcomes :
             count[s][o] = Cardinality(Before(rows, idx[s], o)) + (IF o = out[s] THEN 1 ELSE 0)
      BY <1>0, <2>1 DEF CountsRows, Looping
    <2>4. CountsRows(s)'
      BY <2>1, <2>2, <2>3 DEF CountsRows
    <2> QED
      BY <1>5, <2>1, <2>3, <2>4
  <1>9. CASE Save(s)
    <2>1. Store(s) /\ pc[s] = "save" /\ UNCHANGED <<status, count>>
      BY <1>9 DEF Save, Statement, rowVars
    <2>2. /\ idx[s] \in Recipients /\ out[s] \in Outcomes /\ rows'[idx[s]] = <<out[s]>>
          /\ \A r \in Recipients \ {idx[s]} : rows'[r] = rows[r]
      BY <1>0, <2>1, StoreSingle
    <2>3. status # "COMPLETED" /\ \A o \in Outcomes :
             count[s][o] = Cardinality(Before(rows, idx[s], o)) + (IF o = out[s] THEN 1 ELSE 0)
      BY <1>0, <2>1 DEF CountsRows, Looping
    <2>4. \A o \in Outcomes : count'[s][o] = Cardinality(Before(rows', idx[s] + 1, o))
      <3>1. PICK f, g, n, p : f = rows /\ g = rows' /\ n = idx[s] /\ p = out[s]
        OBVIOUS
      <3>2. /\ n \in Recipients /\ p \in Outcomes /\ g[n] = <<p>>
            /\ \A r \in Recipients \ {n} : g[r] = f[r]
        BY <2>2, <3>1
      <3>3. \A o \in Outcomes : Cardinality(Before(g, n + 1, o))
                                = Cardinality(Before(f, n, o)) + (IF o = p THEN 1 ELSE 0)
        BY ONLY <3>2, BeforeFacts
      <3> QED
        BY <2>1, <2>3, <3>1, <3>3
    <2>5. CountsRows(s)'
      <3>1. CASE Goto(s, "progress") /\ UNCHANGED idx
        <4>1. pc'[s] = "progress"
          BY <1>0, <3>1 DEF Goto, TypeOK
        <4> QED
          BY <2>1, <2>3, <2>4, <3>1, <4>1 DEF CountsRows
      <3>2. CASE Advance(s)
        BY <2>1, <2>3, <2>4, <3>2, AdvanceReport
      <3> QED
        BY <1>9, <3>1, <3>2 DEF Save
    <2>6. SingleRows'
      BY <2>2 DEF SingleRows
    <2>7. TallyFits'
      BY <2>1, <2>3 DEF TallyFits
    <2> QED
      BY <1>3, <2>5, <2>6, <2>7
  <1>10. CASE Progress(s)
    <2>1. UNCHANGED <<rows, status, count>> /\ pc[s] = "progress" /\ Advance(s)
      BY <1>10 DEF Progress, UpdateBroadcastProgress, Statement, rowVars
    <2>2. status # "COMPLETED" /\ \A o \in Outcomes : count[s][o] = Cardinality(Before(rows, idx[s] + 1, o))
      BY <1>0, <2>1 DEF CountsRows, Looping
    <2>3. CountsRows(s)'
      BY <2>1, <2>2, AdvanceReport
    <2> QED
      BY <1>5, <2>1, <2>2, <2>3
  <1>11. CASE Complete(s)
    <2>1. UNCHANGED rows /\ pc[s] = "complete" /\ tally' = count[s]
      BY <1>11 DEF Complete, CompleteBroadcast, Statement
    <2>2. pc'[s] = "return"
      BY <1>0, <1>11 DEF Complete, Goto, TypeOK
    <2>3. CountsRows(s)'
      BY <2>2 DEF CountsRows, Looping
    <2>4. idx[s] = N + 1
      BY <2>1 DEF IInv, BehindInv, Behind
    <2>5. \A o \in Outcomes : count[s][o] = Cardinality(Result(o))
      BY <1>0, <2>1, <2>4, BeforeEnds DEF CountsRows
    <2>6. TallyFits'
      BY <2>1, <2>5 DEF TallyFits, Result
    <2>7. SingleRows'
      BY <2>1 DEF SingleRows
    <2> QED
      BY <1>3, <2>3, <2>6, <2>7
  <1> QED
    BY <1>4, <1>6, <1>7, <1>8, <1>9, <1>10, <1>11 DEF WorkerStep

\* ReportInv is inductive relative to IInv.
LEMMA ReportNext == IInv /\ ReportInv /\ [Next]_vars => ReportInv'
  <1> SUFFICES ASSUME IInv, ReportInv, [Next]_vars PROVE ReportInv'
    OBVIOUS
  <1>1. TypeOK /\ Working
    BY DEF IInv, ReportInv
  <1>2. /\ \A s \in Sends : task[s] # "none" => task'[s] # "none"
        /\ faulty => faulty'
        /\ Working'
    BY <1>1, TaskStays
  <1>3. ASSUME OneTask', ~faulty'
        PROVE  SingleRows' /\ TallyFits' /\ \A s \in Sends : CountsRows(s)'
    <2>1. OneTask /\ ~faulty
      BY <1>2, <1>3 DEF OneTask
    <2>2. SingleRows /\ TallyFits /\ \A s \in Sends : CountsRows(s)
      BY <2>1 DEF ReportInv
    <2>3. CASE \E s \in Sends : WorkerStep(s)
      BY <1>1, <1>3, <2>1, <2>2, <2>3, WorkerReport
    <2>4. CASE \/ Cancel \/ Shutdown \/ Crash
               \/ \E s \in Sends : Mark(s) \/ BotStep(s) \/ BotCrash(s) \/ AsynqStep(s)
               \/ UNCHANGED vars
      BY <1>1, <1>3, <2>2, <2>4, OutsideReport
    <2> QED
      BY <2>3, <2>4 DEF Next
  <1> QED
    BY <1>2, <1>3 DEF ReportInv

\* The report of a completed broadcast counts its delivery rows, for any number
\* of recipients, however often the task was stopped, retried and begun again.
THEOREM ReportIsRight == Spec => []ReportMatchesRows
  <1>1. Init => ReportInv
    BY DEF Init, ReportInv, Working, SingleRows, TallyFits, CountsRows, Looping
  <1>2. IInv /\ ReportInv => ReportMatchesRows
    <2> SUFFICES ASSUME IInv, ReportInv, status = "COMPLETED", OneTask, ~faulty
                 PROVE  /\ \A r \in Recipients : Len(rows[r]) = 1
                        /\ \A o \in Outcomes : tally[o] = Cardinality(Result(o))
      BY DEF ReportMatchesRows
    <2>1. SingleRows /\ TallyFits
      BY DEF ReportInv
    <2>2. \A r \in Recipients : \E o \in Outcomes : rows[r] = <<o>>
      BY <2>1 DEF IInv, CompletedSkipsNobody, SingleRows
    <2>3. \A o \in Outcomes : Len(<<o>>) = 1
      OBVIOUS
    <2> QED
      BY <2>1, <2>2, <2>3 DEF TallyFits
  <1> QED
    BY <1>1, <1>2, ReportNext, Invariant, PTL DEF Spec
=============================================================================
