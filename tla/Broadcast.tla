------------------------------ MODULE Broadcast ------------------------------
(***************************************************************************)
(* One broadcast: its database row, the admin's send and cancel buttons,   *)
(* and the asynq task that writes to the recipients one after the other.   *)
(* Every tap on Send enqueues a task of its own, so several tasks may work *)
(* on the same row and on the same delivery rows.                          *)
(*                                                                         *)
(* A SQL statement, a Telegram request and an asynq state change are each  *)
(* one step.  The recipients are the ids 1..N every tap loads.             *)
(***************************************************************************)
EXTENDS Naturals, Sequences, FiniteSets

CONSTANTS
    N,          \* number of recipients
    Sends,      \* taps on the Send button
    BatchSize,  \* global.broadcast_batch_size, 0 for no progress report
    MaxStops,   \* bound: how often the worker process stops
    Env         \* which of EnvEvents may happen

\* What may happen besides taps on Send.
EnvEvents == {"cancel", "db", "enqueue", "botcrash", "shutdown", "crash"}

ASSUME BroadcastAssumption ==
    /\ N \in Nat
    /\ BatchSize \in Nat
    /\ MaxStops \in Nat
    /\ Env \in SUBSET EnvEvents

Recipients == 1..N
Outcomes == {"SENT", "FAILED", "BLOCKED"}
NoTally == [o \in Outcomes |-> 0]

\* EnqueueBroadcast: asynq.MaxRetry(1).
MaxRetry == 1

VARIABLES
    status,     \* broadcasts.status
    tally,      \* sent_count, failed_count, blocked_count
    rows,       \* broadcast_deliveries of each recipient, in insertion order
    got,        \* the recipients the message reached
    tap,        \* the callback handler of each send tap
    task,       \* asynq's state of the tap's task
    retried,    \* asynq's retry count
    pc,         \* the worker's handler goroutine of the task
    idx,        \* its place in the list of recipients
    count,      \* its counters sent, failed, blocked
    out,        \* the outcome at hand
    seen,       \* SaveBroadcastDelivery found a row
    stops,      \* worker stops so far
    told,       \* the taps on Send the admin was told are cancelled
    faulty      \* history: a statement failed, or a step was lost for good

vars == <<status, tally, rows, got, tap, task, retried, pc, idx, count, out,
          seen, stops, told, faulty>>
rowVars == <<status, tally>>
botVars == <<tap, told>>
queueVars == <<task, retried, stops>>
localVars == <<idx, count, out, seen>>

Statuses == {"DRAFT", "QUEUED", "RUNNING", "COMPLETED", "FAILED", "CANCELLED"}
Steps == {"none", "load", "mark", "send", "again", "look", "save", "progress",
          "complete", "return"}

TypeOK ==
    /\ status \in Statuses
    /\ tally \in [Outcomes -> 0..N]
    /\ rows \in [Recipients -> Seq(Outcomes)]
    /\ got \in SUBSET Recipients
    /\ tap \in [Sends -> {"idle", "marked", "done", "lost"}]
    /\ told \in SUBSET Sends
    /\ task \in [Sends -> {"none", "pending", "active", "retry", "completed",
                           "archived"}]
    /\ retried \in [Sends -> 0..MaxRetry]
    /\ stops \in 0..MaxStops
    /\ pc \in [Sends -> Steps]
    /\ idx \in [Sends -> 1..N+1]
    /\ count \in [Sends -> [Outcomes -> 0..N]]
    /\ out \in [Sends -> Outcomes]
    /\ seen \in [Sends -> BOOLEAN]
    /\ faulty \in BOOLEAN

Init ==
    /\ status = "DRAFT"
    /\ tally = NoTally
    /\ rows = [r \in Recipients |-> <<>>]
    /\ got = {}
    /\ tap = [s \in Sends |-> "idle"]
    /\ told = {}
    /\ task = [s \in Sends |-> "none"]
    /\ retried = [s \in Sends |-> 0]
    /\ stops = 0
    /\ pc = [s \in Sends |-> "none"]
    /\ idx = [s \in Sends |-> 1]
    /\ count = [s \in Sends |-> NoTally]
    /\ out = [s \in Sends |-> "SENT"]
    /\ seen = [s \in Sends |-> FALSE]
    /\ faulty = FALSE
-----------------------------------------------------------------------------
\* A statement either takes effect (A) or fails, its error ignored.
Statement(A, unchanged) ==
    \/ A /\ faulty' = faulty
    \/ "db" \in Env /\ UNCHANGED unchanged /\ faulty' = TRUE

UpdateBroadcastStatus(s) ==
    Statement(status' = s /\ UNCHANGED tally, rowVars)

UpdateBroadcastProgress(c) ==
    Statement(tally' = c /\ UNCHANGED status, rowVars)

\* Mutant: the counters are written, the status is forgotten.
CompleteCountsOnly(c) ==
    Statement(tally' = c /\ UNCHANGED status, rowVars)

CompleteBroadcast(c) ==
    Statement(status' = "COMPLETED" /\ tally' = c, rowVars)
-----------------------------------------------------------------------------
(* The bot. *)

\* queueBroadcast up to the status; if the recipients cannot be loaded the tap
\* ends there and nothing is changed.
Mark(s) ==
    /\ tap[s] = "idle"
    /\ tap' = [tap EXCEPT ![s] = "marked"]
    /\ UpdateBroadcastStatus("QUEUED")
    /\ UNCHANGED <<rows, got, told, queueVars, pc, localVars>>

\* queueBroadcast: EnqueueBroadcast.
Enqueue(s) ==
    /\ tap[s] = "marked"
    /\ tap' = [tap EXCEPT ![s] = "done"]
    /\ task' = [task EXCEPT ![s] = "pending"]
    /\ UNCHANGED <<rowVars, rows, got, told, retried, stops, pc, localVars, faulty>>

\* queueBroadcast: EnqueueBroadcast fails, FailBroadcast.
EnqueueFails(s) ==
    /\ "enqueue" \in Env
    /\ tap[s] = "marked"
    /\ tap' = [tap EXCEPT ![s] = "done"]
    /\ UpdateBroadcastStatus("FAILED")
    /\ UNCHANGED <<rows, got, told, queueVars, pc, localVars>>

\* The bot process dies between the status and the queue.
BotCrash(s) ==
    /\ "botcrash" \in Env
    /\ tap[s] = "marked"
    /\ tap' = [tap EXCEPT ![s] = "lost"]
    /\ faulty' = TRUE
    /\ UNCHANGED <<rowVars, rows, got, told, queueVars, pc, localVars>>

Tapped == {s \in Sends : tap[s] # "idle"}

\* onBroadcastCallback, "cancel": whatever the status, the row is CANCELLED and
\* the admin is told so, before a tap on Send as well as after it (bound: once
\* told, the admin does not tap Cancel again).
Cancel ==
    /\ "cancel" \in Env
    /\ told = {}
    /\ told' = Tapped
    /\ UpdateBroadcastStatus("CANCELLED")
    /\ UNCHANGED <<rows, got, tap, queueVars, pc, localVars>>
-----------------------------------------------------------------------------
(* asynq. *)

\* The local variables of a handler end with it.
Forget(S) ==
    /\ idx' = [s \in Sends |-> IF s \in S THEN 1 ELSE idx[s]]
    /\ count' = [s \in Sends |-> IF s \in S THEN NoTally ELSE count[s]]
    /\ out' = [s \in Sends |-> IF s \in S THEN "SENT" ELSE out[s]]
    /\ seen' = [s \in Sends |-> IF s \in S THEN FALSE ELSE seen[s]]

Dequeue(s) ==
    /\ task[s] = "pending"
    /\ task' = [task EXCEPT ![s] = "active"]
    /\ pc' = [pc EXCEPT ![s] = "load"]
    /\ UNCHANGED <<rowVars, rows, got, botVars, retried, stops, localVars, faulty>>

\* A failed task is retried until MaxRetry, then archived: nothing writes the
\* row any more.
FailTask(s) ==
    IF retried[s] < MaxRetry
    THEN /\ task' = [task EXCEPT ![s] = "retry"]
         /\ retried' = [retried EXCEPT ![s] = @ + 1]
         /\ faulty' = faulty
    ELSE /\ task' = [task EXCEPT ![s] = "archived"]
         /\ retried' = retried
         /\ faulty' = TRUE

Forward(s) ==
    /\ task[s] = "retry"
    /\ task' = [task EXCEPT ![s] = "pending"]
    /\ UNCHANGED <<rowVars, rows, got, botVars, retried, stops, pc, localVars, faulty>>

\* The process stops and with it every handler.
StopWorkers ==
    /\ stops < MaxStops
    /\ stops' = stops + 1
    /\ pc' = [s \in Sends |-> "none"]
    /\ Forget(Sends)

\* Shutdown requeues what is running, as if it had never started.
Shutdown ==
    /\ "shutdown" \in Env
    /\ StopWorkers
    /\ task' = [s \in Sends |-> IF task[s] = "active" THEN "pending"
                                ELSE task[s]]
    /\ UNCHANGED <<rowVars, rows, got, botVars, retried, faulty>>

Crash ==
    /\ "crash" \in Env
    /\ StopWorkers
    /\ UNCHANGED <<rowVars, rows, got, botVars, task, retried, faulty>>

\* The recoverer fails an active task whose lease ran out.
Recover(s) ==
    /\ task[s] = "active"
    /\ pc[s] = "none"
    /\ FailTask(s)
    /\ UNCHANGED <<rowVars, rows, got, botVars, stops, pc, localVars>>
-----------------------------------------------------------------------------
(* handleBroadcast. *)

Goto(s, step) == pc' = [pc EXCEPT ![s] = step]

\* GetBroadcast: its error is returned and the task fails.
Load(s) ==
    /\ pc[s] = "load"
    /\ \/ /\ Goto(s, "mark")
          /\ UNCHANGED <<task, retried, faulty>>
       \/ /\ "db" \in Env
          /\ Goto(s, "none")
          /\ FailTask(s)
    /\ UNCHANGED <<rowVars, rows, got, botVars, stops, localVars>>

\* The status RUNNING, whatever it was; counters and list start from nothing.
Run(s) ==
    /\ pc[s] = "mark"
    /\ UpdateBroadcastStatus("RUNNING")
    /\ idx' = [idx EXCEPT ![s] = 1]
    /\ count' = [count EXCEPT ![s] = NoTally]
    /\ Goto(s, IF N = 0 THEN "complete" ELSE "send")
    /\ UNCHANGED <<rows, got, botVars, queueVars, out, seen>>

Counted(s, o) ==
    /\ out' = [out EXCEPT ![s] = o]
    /\ count' = [count EXCEPT ![s][o] = @ + 1]
    /\ Goto(s, "look")

Receives(s) == got' = got \cup {idx[s]}

\* sendBroadcastMessage and the switch on its error.  FAILED is an error that is
\* not Telegram's, and may be the lost answer to a message that did arrive; only
\* Telegram's own retry-after, which refuses the message, leads to a second
\* request.
Send(s) ==
    /\ pc[s] = "send"
    /\ \/ Counted(s, "SENT") /\ Receives(s)
       \/ Counted(s, "BLOCKED") /\ UNCHANGED got
       \/ Counted(s, "FAILED") /\ (Receives(s) \/ UNCHANGED got)
       \/ Goto(s, "again") /\ UNCHANGED <<got, out, count>>
    /\ UNCHANGED <<rowVars, rows, botVars, queueVars, idx, seen, faulty>>

\* Telegram refuses the message with an error that is neither a 403 nor a
\* retry-after: extractRetryAfter follows the nil Parameters of that error and
\* the handler panics.  asynq catches the panic and fails the task.
Panic(s) ==
    /\ pc[s] = "send"
    /\ Goto(s, "none")
    /\ FailTask(s)
    /\ Forget({s})
    /\ UNCHANGED <<rowVars, rows, got, botVars, stops>>

\* The second request after the retry-after pause; its error is only counted.
SendAgain(s) ==
    /\ pc[s] = "again"
    /\ \/ Counted(s, "SENT") /\ Receives(s)
       \/ Counted(s, "FAILED") /\ (Receives(s) \/ UNCHANGED got)
    /\ UNCHANGED <<rowVars, rows, botVars, queueVars, idx, seen, faulty>>

\* SaveBroadcastDelivery: SELECT EXISTS; a failed query reads as "no row".
Look(s) ==
    /\ pc[s] = "look"
    /\ \/ seen' = [seen EXCEPT ![s] = rows[idx[s]] # <<>>] /\ faulty' = faulty
       \/ "db" \in Env /\ seen' = [seen EXCEPT ![s] = FALSE] /\ faulty' = TRUE
    /\ Goto(s, "save")
    /\ UNCHANGED <<rowVars, rows, got, botVars, queueVars, idx, count, out>>

\* Mutants: a row is always inserted; only a delivered message has a row.
StoreInserts(s) ==
    rows' = [rows EXCEPT ![idx[s]] = Append(@, out[s])]
StoreSent(s) ==
    rows' = [rows EXCEPT ![idx[s]] =
                IF seen[s] \/ out[s] # "SENT" THEN @ ELSE <<"SENT">>]

\* UPDATE of every row of the recipient, or INSERT: no key keeps two rows
\* apart.
Store(s) ==
    rows' = [rows EXCEPT ![idx[s]] =
                IF seen[s] THEN [i \in DOMAIN @ |-> out[s]]
                ELSE Append(@, out[s])]

\* The end of the loop's body.
Advance(s) ==
    /\ idx' = [idx EXCEPT ![s] = @ + 1]
    /\ Goto(s, IF idx[s] < N THEN "send" ELSE "complete")

Save(s) ==
    /\ pc[s] = "save"
    /\ Statement(Store(s), rows)
    /\ IF BatchSize > 0 /\ idx[s] % BatchSize = 0
       THEN Goto(s, "progress") /\ UNCHANGED idx
       ELSE Advance(s)
    /\ UNCHANGED <<rowVars, got, botVars, queueVars, count, out, seen>>

Progress(s) ==
    /\ pc[s] = "progress"
    /\ UpdateBroadcastProgress(count[s])
    /\ Advance(s)
    /\ UNCHANGED <<rows, got, botVars, queueVars, count, out, seen>>

Complete(s) ==
    /\ pc[s] = "complete"
    /\ CompleteBroadcast(count[s])
    /\ Goto(s, "return")
    /\ UNCHANGED <<rows, got, botVars, queueVars, localVars>>

Return(s) ==
    /\ pc[s] = "return"
    /\ Goto(s, "none")
    /\ task' = [task EXCEPT ![s] = "completed"]
    /\ Forget({s})
    /\ UNCHANGED <<rowVars, rows, got, botVars, retried, stops, faulty>>
-----------------------------------------------------------------------------
BotStep(s) == Enqueue(s) \/ EnqueueFails(s)
AsynqStep(s) == Dequeue(s) \/ Forward(s) \/ Recover(s)
WorkerStep(s) == \/ Load(s) \/ Run(s) \/ Send(s) \/ Panic(s) \/ SendAgain(s)
                 \/ Look(s) \/ Save(s) \/ Progress(s) \/ Complete(s) \/ Return(s)

Next == \/ Cancel \/ Shutdown \/ Crash
        \/ \E s \in Sends : \/ Mark(s) \/ BotStep(s) \/ BotCrash(s)
                            \/ AsynqStep(s) \/ WorkerStep(s)

Spec == Init /\ [][Next]_vars

\* The bot's and the worker's goroutines and asynq go on.
Fairness == \A s \in Sends : WF_vars(BotStep(s)) /\ WF_vars(AsynqStep(s))
                             /\ WF_vars(WorkerStep(s))
FairSpec == Spec /\ Fairness
-----------------------------------------------------------------------------
\* At most one task of this broadcast was ever enqueued.
OneTask == \A s, t \in Sends : task[s] # "none" /\ task[t] # "none" => s = t

Result(o) == {r \in Recipients : rows[r] = <<o>>}

\* The report of a completed broadcast agrees with its delivery rows, although
\* a restart counts from nothing and overwrites the rows of the run before:
\* each recipient has one row, and the counters count them.
ReportMatchesRows ==
    status = "COMPLETED" /\ OneTask /\ ~faulty =>
        /\ \A r \in Recipients : Len(rows[r]) = 1
        /\ \A o \in Outcomes : tally[o] = Cardinality(Result(o))

\* COMPLETED is written only after every recipient was dealt with, however many
\* tasks share the row and wherever a run was cut off.
CompletedSkipsNobody ==
    status = "COMPLETED" /\ ~faulty => \A r \in Recipients : rows[r] # <<>>

\* A broadcast that is queued ends, unless the database or the bot failed it or
\* its task is archived: after a panic or a crash on both of its runs nobody
\* writes the row any more.
BroadcastEnds ==
    status = "QUEUED" ~> (status \notin {"QUEUED", "RUNNING"} \/ faulty)

\* A broadcast the status screen shows as active is going to be worked on.
\* Violated: two panics on a recipient Telegram refuses leave it RUNNING.
ActiveIsWorkedOn ==
    status = "RUNNING" =>
        \E s \in Sends : task[s] \in {"pending", "active", "retry"}

\* "Broadcast cancelled.", said after the last tap on Send: the broadcast reaches
\* nobody any more.
CancelledIsNotSent ==
    [][Tapped # {} /\ Tapped \subseteq told => UNCHANGED got]_vars
-----------------------------------------------------------------------------
(* The inductive invariant behind CompletedSkipsNobody.                    *)

Looping == {"send", "again", "look", "save", "progress"}

\* A run in its loop is at a recipient, and has counted no more than it met.
PlaceInv ==
    \A s \in Sends :
        /\ pc[s] \in Looping => idx[s] <= N
        /\ \A o \in Outcomes : count[s][o] <= idx[s]
        /\ pc[s] \in {"send", "again"} =>
               \A o \in Outcomes : count[s][o] < idx[s]

\* The recipients a run has behind it have rows, and so has the one at hand
\* when an UPDATE is about to be made or its result is about to be reported.
Behind(s) ==
    /\ pc[s] \in Looping \cup {"complete"} =>
           \A r \in Recipients : r < idx[s] => rows[r] # <<>>
    /\ pc[s] = "save" /\ seen[s] => rows[idx[s]] # <<>>
    /\ pc[s] = "progress" => rows[idx[s]] # <<>>
    /\ pc[s] = "complete" => idx[s] = N + 1

BehindInv == ~faulty => \A s \in Sends : Behind(s)

IInv == TypeOK /\ PlaceInv /\ BehindInv /\ CompletedSkipsNobody
=============================================================================
