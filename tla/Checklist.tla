----------------------------- MODULE Checklist -----------------------------
(***************************************************************************)
(* The checklist of test links: the dashboard adds, removes and requeues   *)
(* rows of test_urls (internal/dash, internal/db), a loop in every worker  *)
(* process claims one row at a time and runs it through its platform's     *)
(* downloader without sending anything (internal/worker/test_urls.go).     *)
(* A row that stays RUNNING for 15 minutes is claimed again: its runner    *)
(* may have crashed, or may just be slow, since the timeout of a platform  *)
(* can be set to an hour.                                                  *)
(***************************************************************************)
EXTENDS Integers, Sequences, FiniteSets

CONSTANTS
    TestPlatform,  \* url -> platform
    Runners,       \* worker processes
    StaleAfter,    \* ticks after which a RUNNING row is claimed again
    MaxCrashes, MaxEdits   \* bounds: crashes, changes from the dashboard

ASSUME ChecklistAssumption ==
    /\ StaleAfter \in Nat \ {0} /\ "none" \notin DOMAIN TestPlatform
    /\ MaxCrashes \in Nat /\ MaxEdits \in Nat

VARIABLES
    checklist, \* url -> row; a missing url is not on the list
    runner,    \* [Runners -> the run under way; lost is history: its row was stale,
               \*  deleted or finished by another while it ran]
    crashes, edits

checkVars == <<checklist, runner, crashes, edits>>

TestURLs == DOMAIN TestPlatform
NoRow == [status |-> "none", error |-> FALSE, media |-> "", files |-> FALSE, age |-> 0]
Pending == [NoRow EXCEPT !.status = "PENDING"]
Resting == [url |-> "none", lost |-> FALSE]

ChecklistTypeOK ==
    /\ checklist \in [TestURLs -> [status : {"none", "PENDING", "RUNNING", "PASSED", "FAILED"},
                                   error : BOOLEAN, media : {"", "video", "photos", "text"},
                                   files : BOOLEAN, age : 0..StaleAfter]]
    /\ runner \in [Runners -> [url : TestURLs \cup {"none"}, lost : BOOLEAN]]
    /\ crashes \in 0..MaxCrashes /\ edits \in 0..MaxEdits

ChecklistInit ==
    /\ checklist = [u \in TestURLs |-> NoRow]
    /\ runner = [r \in Runners |-> Resting]
    /\ crashes = 0 /\ edits = 0

(***************************************************************************)
(* The dashboard.                                                          *)
(***************************************************************************)
Edit == edits < MaxEdits /\ edits' = edits + 1

Testable == {"youtube", "tiktok", "instagram", "x", "pinterest", "reddit"}

handleTestURLCreate(u) ==
    /\ TestPlatform[u] \in Testable /\ checklist[u] = NoRow
    /\ Edit
    /\ checklist' = [checklist EXCEPT ![u] = Pending]
    /\ UNCHANGED <<runner, crashes>>

(* Deleting does not ask whether the row is being run. *)
handleTestURLDelete(u) ==
    /\ checklist[u] # NoRow
    /\ Edit
    /\ checklist' = [checklist EXCEPT ![u] = NoRow]
    /\ runner' = [r \in Runners |-> IF runner[r].url = u THEN [runner[r] EXCEPT !.lost = TRUE] ELSE runner[r]]
    /\ UNCHANGED crashes

Finished(row) == row.status \in {"PASSED", "FAILED"}

\* Mutant: the result of the last run is kept.
RequeueTestURLsKeeping(urls) ==
    checklist' = [u \in TestURLs |->
        IF u \in urls /\ Finished(checklist[u]) THEN [checklist[u] EXCEPT !.status = "PENDING"]
        ELSE checklist[u]]

RequeueTestURLs(urls) ==
    checklist' = [u \in TestURLs |->
        IF u \in urls /\ Finished(checklist[u]) THEN Pending ELSE checklist[u]]

handleTestURLRun ==
    /\ \E u \in TestURLs : Finished(checklist[u])
    /\ Edit
    /\ RequeueTestURLs(TestURLs)
    /\ UNCHANGED <<runner, crashes>>

handleTestURLRerun(u) ==
    /\ Finished(checklist[u])
    /\ Edit
    /\ RequeueTestURLs({u})
    /\ UNCHANGED <<runner, crashes>>

(***************************************************************************)
(* The runner.  One statement finds the first runnable row, locks it and   *)
(* marks it RUNNING.                                                       *)
(***************************************************************************)
\* Mutants: rows left RUNNING by a crash are not looked at; or at any age.
RunnablePendingOnly(row) == row.status = "PENDING"
RunnableAtAnyAge(row) == row.status \in {"PENDING", "RUNNING"}

Runnable(row) ==
    \/ row.status = "PENDING"
    \/ row.status = "RUNNING" /\ row.age >= StaleAfter

ClaimNextTestURL(r, u) ==
    /\ runner[r] = Resting
    /\ Runnable(checklist[u])
    /\ checklist' = [checklist EXCEPT ![u].status = "RUNNING", ![u].age = 0]
    /\ runner' = [runner EXCEPT ![r] = [url |-> u, lost |-> FALSE]]
    /\ UNCHANGED <<crashes, edits>>

(* The rows are taken in the order of their ids; which that is does not      *)
(* matter to a single runner's next claim, only that some runnable row is    *)
(* taken.                                                                    *)
drainTestURLs(r) == \E u \in TestURLs : ClaimNextTestURL(r, u)

(* What the downloaders may answer. *)
World == [ytdlp : BOOLEAN, left : SUBSET {"video", "image"}, photos : {"error", "none", "some"},
          thread : {"error", "empty", "text", "video", "image"}]
Passed(media, files) == [status |-> "PASSED", error |-> FALSE, media |-> media, files |-> files]
Failed == [status |-> "FAILED", error |-> TRUE, media |-> "", files |-> FALSE]

(* A video wins, otherwise the images count as a set of photos. *)
testDirMedia(left) ==
    CASE "video" \in left -> Passed("video", TRUE)
      [] left = {"image"} -> Passed("photos", TRUE)
      [] OTHER -> Failed

testYtdlpPlatform(w) == IF w.ytdlp THEN testDirMedia(w.left) ELSE Failed

testX(w) ==
    IF w.ytdlp /\ testDirMedia(w.left).status = "PASSED" THEN testDirMedia(w.left)
    ELSE IF w.photos = "some" THEN Passed("photos", TRUE) ELSE Failed

testPinterest(w) ==
    IF w.photos # "some" THEN Failed
    ELSE Passed(IF "video" \in w.left THEN "video" ELSE "photos", TRUE)

(* A thread without media passes on its text alone. *)
testReddit(w) ==
    CASE w.thread \in {"error", "empty"} -> Failed
      [] w.thread = "text" -> Passed("text", FALSE)
      [] w.thread = "video" -> testYtdlpPlatform(w)
      [] OTHER -> IF w.photos = "some" THEN Passed("photos", TRUE) ELSE Failed

executeTestURL(u, w) ==
    CASE TestPlatform[u] \in {"youtube", "tiktok", "instagram"} -> testYtdlpPlatform(w)
      [] TestPlatform[u] = "x" -> testX(w)
      [] TestPlatform[u] = "pinterest" -> testPinterest(w)
      [] TestPlatform[u] = "reddit" -> testReddit(w)
      [] OTHER -> Failed

Results == [u \in TestURLs |-> {executeTestURL(u, w) : w \in World}]

(* UPDATE ... WHERE id: it asks neither for the status nor for the runner,   *)
(* and a row deleted meanwhile is not brought back.                          *)
FinishTestURL(u, result) ==
    checklist' = IF checklist[u] = NoRow THEN checklist
                 ELSE [checklist EXCEPT ![u] = [status |-> result.status, error |-> result.error,
                          media |-> result.media, files |-> result.files, age |-> 0]]

runTestURL(r) ==
    /\ runner[r] # Resting
    /\ \E result \in Results[runner[r].url] : FinishTestURL(runner[r].url, result)
    /\ runner' = [q \in Runners |->
          IF q = r THEN Resting
          ELSE IF runner[q].url = runner[r].url THEN [runner[q] EXCEPT !.lost = TRUE]
          ELSE runner[q]]
    /\ UNCHANGED <<crashes, edits>>

(* The process dies, or its last UPDATE fails: the row stays RUNNING. *)
RunnerDies(r) ==
    /\ runner[r] # Resting /\ crashes < MaxCrashes
    /\ crashes' = crashes + 1
    /\ runner' = [runner EXCEPT ![r] = Resting]
    /\ UNCHANGED <<checklist, edits>>

(* Time passes. *)
Aging ==
    /\ \E u \in TestURLs : checklist[u].status = "RUNNING" /\ checklist[u].age < StaleAfter
    /\ checklist' = [u \in TestURLs |->
          IF checklist[u].status = "RUNNING" /\ checklist[u].age < StaleAfter
          THEN [checklist[u] EXCEPT !.age = @ + 1] ELSE checklist[u]]
    /\ runner' = [r \in Runners |->
          IF runner[r].url # "none" /\ checklist'[runner[r].url].age = StaleAfter
          THEN [runner[r] EXCEPT !.lost = TRUE] ELSE runner[r]]
    /\ UNCHANGED <<crashes, edits>>

ChecklistNext ==
    \/ \E u \in TestURLs : handleTestURLCreate(u) \/ handleTestURLDelete(u) \/ handleTestURLRerun(u)
    \/ handleTestURLRun
    \/ \E r \in Runners : drainTestURLs(r) \/ runTestURL(r) \/ RunnerDies(r)
    \/ Aging

-----------------------------------------------------------------------------
(* Whatever overlaps, a row's columns tell one story: nothing of an old     *)
(* result is left on a row that waits or runs, a failure has its reason, a  *)
(* pass has its media type and, unless the post was text, files that        *)
(* landed (FinishTestURL, RequeueTestURLs, executeTestURL).                 *)
ResultMatchesStatus ==
    \A u \in TestURLs :
        LET row == checklist[u]
        IN CASE row.status = "PASSED" -> /\ ~row.error /\ row.media # ""
                                         /\ row.media # "text" => row.files
             [] row.status = "FAILED" -> row.error /\ row.media = ""
             [] OTHER -> ~row.error /\ row.media = ""

(* Two processes work on the same row only if one of them had it for longer *)
(* than the stale limit, or the row was deleted or finished by another      *)
(* under it (ClaimNextTestURL locks and skips; a requeue only takes         *)
(* finished rows).                                                          *)
OneRunnerPerRow ==
    \A q, r \in Runners :
        (q # r /\ runner[q].url = runner[r].url /\ runner[q].url # "none")
        => runner[q].lost \/ runner[r].lost

(* A row that waits or runs is finished or deleted in the end, crashes or   *)
(* not: no row is stuck (the stale clause of ClaimNextTestURL).             *)
RowsEnd ==
    \A u \in TestURLs :
        checklist[u].status \in {"PENDING", "RUNNING"} ~> (Finished(checklist[u]) \/ checklist[u] = NoRow)
=============================================================================
