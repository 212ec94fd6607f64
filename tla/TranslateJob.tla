---------------------------- MODULE TranslateJob ----------------------------
(***************************************************************************)
(* worker/telegraph.go: the button under a thread's article asks for a     *)
(* Russian page.  The message of this task is the article itself.          *)
(***************************************************************************)
EXTENDS RedditJob

CONSTANTS
    MaxText,   \* bound: length of a text to translate
    MaxChunk   \* longest text per translation request, 3500 in the code

ASSUME TextAssumption == MaxText \in Nat /\ MaxChunk \in Nat \ {0, 1}

VARIABLE page  \* the text, its pieces, and the answers that have arrived

Translate == {"translate"}

Letters == {"a", " "}
Texts == UNION {[1..n -> Letters] : n \in 1..MaxText}
NoPage == [text |-> <<>>, chunks |-> <<>>, translated |-> <<>>]

(***************************************************************************)
(* chunkRunes cuts a long paragraph at the last space in the second half   *)
(* of the window, or at its end.                                           *)
(***************************************************************************)
Spaces(r) == {i \in (MaxChunk \div 2 + 1)..MaxChunk : r[i] = " "}

CutAt(r) == IF Spaces(r) = {} THEN MaxChunk
            ELSE CHOOSE i \in Spaces(r) : \A j \in Spaces(r) : j <= i

chunkRunes[r \in Seq(Letters)] ==
    IF Len(r) <= MaxChunk THEN <<r>>
    ELSE <<SubSeq(r, 1, CutAt(r))>> \o chunkRunes[SubSeq(r, CutAt(r) + 1, Len(r))]

translateFrame == <<mediaVars, videoVars, article>>

\* The cached thread, or the thread fetched anew; no row, no retry.
TranslateStart ==
    /\ At(Translate, "start")
    /\ \/ \E t \in Texts :
             /\ page' = [text |-> t, chunks |-> chunkRunes[t],
                         translated |-> [i \in DOMAIN chunkRunes[t] |-> <<>>]]
             /\ NoFault /\ Goto("pieces") /\ UNCHANGED status
       \/ Fault /\ Return("none", "errors.generic") /\ UNCHANGED page
    /\ UNCHANGED translateFrame

\* Mutant of translateBlock: the goroutine reads the loop's variable when it runs.
translateBlockLoopVariable ==
    /\ At(Translate, "pieces")
    /\ \E i, j \in DOMAIN page.chunks :
          /\ i <= j /\ page.translated[i] = <<>>
          /\ page' = [page EXCEPT !.translated[i] = page.chunks[j]]
    /\ UNCHANGED <<jobVars, translateFrame>>

\* A goroutine per piece writes its own slot; a failed request gives the piece itself.
translateBlock ==
    /\ At(Translate, "pieces")
    /\ \E i \in DOMAIN page.chunks :
          /\ page.translated[i] = <<>>
          /\ page' = [page EXCEPT !.translated[i] = page.chunks[i]]
    /\ UNCHANGED <<jobVars, translateFrame>>

Joined(ps) == LET join[n \in 0..Len(ps)] == IF n = 0 THEN <<>> ELSE join[n - 1] \o ps[n]
              IN  join[Len(ps)]

\* Publish, then edit the article message; a failed edit leaves a page nobody sees.
handleTelegraphTranslate ==
    /\ At(Translate, "pieces")
    /\ \A i \in DOMAIN page.chunks : page.translated[i] # <<>>
    /\ \/ NoFault /\ Return("none", "article_ru")
       \/ Fault /\ Return("none", "telegraph.failed")
       \/ Fault /\ Return("none", "article")
    /\ UNCHANGED <<translateFrame, page>>

TranslateNext == TranslateStart \/ translateBlock \/ handleTelegraphTranslate
=============================================================================
