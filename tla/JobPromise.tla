----------------------------- MODULE JobPromise -----------------------------
(***************************************************************************)
(* What the queue, the database and the user may rely on, whatever the     *)
(* platform: a task runs at most twice, ends with at most one row, and the *)
(* row says "completed" only when something reached the chat.              *)
(***************************************************************************)
EXTENDS Naturals

VARIABLES task, attempt, shown, row

Init == task = "run" /\ attempt = 1 /\ shown = FALSE /\ row = "none"

\* Media or an article appear in the chat.
Deliver == task = "run" /\ shown' = TRUE /\ UNCHANGED <<task, attempt, row>>

\* The body returns nil; the last message and the row may be one step.
Finish ==
    /\ task = "run" /\ task' = "done"
    /\ shown' \in {shown, TRUE}
    /\ row' \in {"none", "failed"} \cup (IF shown' THEN {"completed"} ELSE {})
    /\ UNCHANGED attempt

\* The body returns an error or its worker dies.
GiveUp ==
    /\ task = "run"
    /\ \/ attempt = 1 /\ task' = "retry"
       \/ attempt = 2 /\ task' = "archived"
    /\ UNCHANGED <<attempt, shown, row>>

Again ==
    /\ task = "retry" /\ task' = "run"
    /\ attempt' = attempt + 1
    /\ UNCHANGED <<shown, row>>

Next == Deliver \/ Finish \/ GiveUp \/ Again

Spec == Init /\ [][Next]_<<task, attempt, shown, row>>
=============================================================================
