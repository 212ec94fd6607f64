-------------------------- MODULE Delivery_proofs --------------------------
(***************************************************************************)
(* Proofs about the bodies of the download tasks: they implement           *)
(* JobPromise, answer the user at their end and lose no video, for all     *)
(* limits, sizes, numbers of items and of faults.                          *)
(*                                                                         *)
(* The argument has two levels.  A step of any body goes on, ends the task *)
(* or gives it up (Goes, Ends, GivesUp): shown platform by platform.  And  *)
(* those three keep the invariant and are steps of the promise.            *)
(***************************************************************************)
EXTENDS Delivery, FiniteSetTheorems, SequenceTheorems, WellFoundedInduction, TLAPS

-----------------------------------------------------------------------------
(* The records of the sender's call and of the loops have all their fields.  *)
IsCall(c) ==
    c = [op |-> c.op, todo |-> c.todo, single |-> c.single, caption |-> c.caption, result |-> c.result]

IsLoop(l) ==
    /\ l = [items |-> l.items, images |-> l.images, any |-> l.any, handled |-> l.handled]
    /\ l.any \in BOOLEAN

IsSeq(s) == \E S : s \in Seq(S)

Delivered == sent # <<>>
Answered == call.result = "ok"
NoImage == \A i \in DOMAIN files : files[i].type # "image"

(* Where the body has asked for an upload of at least one file.              *)
Uploads == {"sent", "played", "pin", "xalbum", "insta", "itemsent", "tiksent"}

(* What the body may conclude from an answer without error.                  *)
Conclusions ==
    /\ loop.any => Delivered
    /\ pc \in Uploads /\ Answered => Delivered
    /\ pc = "album" /\ Answered => Delivered \/ (kind = "reddit" /\ loop.images = <<>>)
    /\ pc = "done" /\ Answered => Delivered \/ loop.images = <<>>
    /\ pc = "carousel" /\ Answered => Delivered \/ NoImage
    /\ pc = "sound" => Delivered \/ NoImage

(* The video: a copy of it is on disk between the passes, and before the     *)
(* first one the body's path leads to it.                                    *)
VideoShape == disk \in [Names -> Nat] /\ cur \in Names

VideoKept ==
    /\ pc \in {"ratio", "compress", "fit", "sar"} => \E n \in Names : disk[n] > 0
    /\ pc = "mux" => disk[cur] > 0

(* A task that ended has told the user, and its row is true.                 *)
EndIsTold ==
    /\ status \notin {"placeholder", "downloading"}
    /\ status = "deleted" => Shown \/ Silent
    /\ kind = "reddit" /\ article = "published" => status = "errors.generic"
    /\ row = "completed" => Shown

Records == IsSeq(sent) /\ IsCall(call) /\ IsLoop(loop) /\ VideoShape

JobInv ==
    /\ task \in {"run", "retry", "done", "archived"}
    /\ attempt \in {1, 2} /\ (task = "retry" => attempt = 1)
    /\ row \in {"none", "completed", "failed"}
    /\ task # "done" => row = "none" /\ article = "none"
    /\ task = "done" => EndIsTold
    /\ Records /\ Conclusions /\ VideoKept

-----------------------------------------------------------------------------
(* What a step of a body may do.                                             *)
SentGrows == sent' = sent \/ \E m : sent' = Append(sent, m)

Goes ==
    /\ task = "run" /\ UNCHANGED <<kind, task, attempt, row, article>>
    /\ SentGrows
    /\ IsCall(call)' /\ IsLoop(loop)' /\ VideoShape'
    /\ Conclusions' /\ VideoKept'

Ends ==
    /\ task = "run" /\ task' = "done" /\ pc' = "end"
    /\ UNCHANGED <<kind, attempt, sent, call, loop>>
    /\ row' \in {"none", "completed", "failed"}
    /\ EndIsTold' /\ VideoShape'

GivesUp ==
    /\ task = "run" /\ pc' = "end"
    /\ task' = IF attempt <= MaxRetry THEN "retry" ELSE "archived"
    /\ UNCHANGED <<kind, attempt, row, article, sent, call, loop>>
    /\ VideoShape'

JobStep == Goes \/ Ends \/ GivesUp

-----------------------------------------------------------------------------
\* A message more makes a chat that is not empty.
LEMMA SeqGrows ==
  ASSUME NEW s, IsSeq(s), NEW m PROVE IsSeq(Append(s, m)) /\ Append(s, m) # <<>>
  <1>1. PICK S : s \in Seq(S)
    BY DEF IsSeq
  <1>2. s \in Seq(S \cup {m})
    BY <1>1
  <1>3. Append(s, m) \in Seq(S \cup {m})
    BY <1>2
  <1>4. Append(s, m) # <<>>
    <2>1. Len(s) \in Nat /\ Len(Append(s, m)) = Len(s) + 1
      BY <1>2
    <2>2. Len(<<>>) = 0
      OBVIOUS
    <2>3. Len(s) + 1 # 0
      BY <2>1
    <2> QED
      BY <2>1, <2>2, <2>3, Zenon
  <1> QED
    BY <1>3, <1>4 DEF IsSeq

\* What is in the chat stays there.
LEMMA DeliveredStays ==
  ASSUME IsSeq(sent), SentGrows PROVE IsSeq(sent)' /\ (Delivered => Delivered')
  BY SeqGrows DEF SentGrows, Delivered, IsSeq

\* The three ways a step of a body can go keep the invariant.
LEMMA StepKeeps == ASSUME JobInv, JobStep PROVE JobInv'
  <1>1. CASE Goes
    <2>1. IsSeq(sent)'
      BY <1>1, DeliveredStays DEF Goes, JobInv, Records
    <2> QED
      BY <1>1, <2>1 DEF Goes, JobInv, Records
  <1>2. CASE Ends
    <2>1. Records'
      BY <1>2 DEF Ends, JobInv, Records, IsSeq, IsCall, IsLoop
    <2>2. Conclusions' /\ VideoKept'
      BY <1>2 DEF Ends, JobInv, Conclusions, Delivered, Uploads, VideoKept
    <2> QED
      BY <1>2, <2>1, <2>2 DEF Ends, JobInv
  <1>3. CASE GivesUp
    <2>1. Records'
      BY <1>3 DEF GivesUp, JobInv, Records, IsSeq, IsCall, IsLoop
    <2>2. Conclusions' /\ VideoKept'
      BY <1>3 DEF GivesUp, JobInv, Conclusions, Delivered, Uploads, VideoKept
    <2> QED
      BY <1>3, <2>1, <2>2 DEF GivesUp, JobInv, MaxRetry
  <1> QED
    BY <1>1, <1>2, <1>3 DEF JobStep

\* And they are steps of the promise, or none that it can see.
LEMMA StepPromised ==
  ASSUME JobInv, JobStep
  PROVE  [Promise!Next]_<<task, attempt, Shown, row>>
  <1>1. CASE Goes
    <2>1. ~SoundLost /\ ~SoundLost'
      BY <1>1 DEF Goes, JobInv, SoundLost
    <2>2. Shown => Shown'
      BY <1>1, <2>1, DeliveredStays DEF Goes, JobInv, Records, Shown, Delivered
    <2>3. Shown \in BOOLEAN /\ Shown' \in BOOLEAN
      BY DEF Shown, SoundLost
    <2>4. Shown' = Shown \/ Shown' = TRUE
      BY <2>2, <2>3
    <2> QED
      BY <1>1, <2>4 DEF Goes, Promise!Next, Promise!Deliver
  <1>2. CASE Ends
    <2>1. ~SoundLost
      BY <1>2 DEF Ends, JobInv, SoundLost
    <2>2. Shown => Shown'
      BY <1>2, <2>1 DEF Ends, JobInv, Shown
    <2>3. Shown \in BOOLEAN /\ Shown' \in BOOLEAN
      BY DEF Shown, SoundLost
    <2>4. Shown' \in {Shown, TRUE}
      BY <2>2, <2>3
    <2>5. row' = "completed" => Shown'
      BY <1>2 DEF Ends, EndIsTold
    <2>6. row' \in {"none", "failed"} \cup (IF Shown' THEN {"completed"} ELSE {})
      BY <1>2, <2>5 DEF Ends
    <2>7. Promise!Finish
      BY <1>2, <2>4, <2>6 DEF Ends, Promise!Finish
    <2> QED
      BY <2>7 DEF Promise!Next
  <1>3. CASE GivesUp
    <2>1. ~SoundLost /\ ~SoundLost'
      BY <1>3 DEF GivesUp, JobInv, SoundLost
    <2>2. Shown' = Shown
      BY <1>3, <2>1 DEF GivesUp, Shown
    <2>3. Promise!GiveUp
      BY <1>3, <2>2 DEF GivesUp, JobInv, MaxRetry, Promise!GiveUp
    <2> QED
      BY <2>3 DEF Promise!Next
  <1> QED
    BY <1>1, <1>2, <1>3 DEF JobStep

-----------------------------------------------------------------------------
(* What the statements that all bodies share come to.                        *)

\* Where the body waits for no answer and no pass over the video.
Quiet == {"start", "download", "again", "audio", "send", "photos", "items", "info",
          "thread", "article", "pieces"}

\* Where the body waits for an album.
Albums == {"album", "done", "carousel"}

\* No text of an error is one of the placeholder's own, its deletion or a translated page.
LEMMA ErrorIsText ==
  ASSUME NEW e
  PROVE  UserFacingErrorKey(e) \notin {"placeholder", "downloading", "deleted", "article_ru"}
  <1> DEFINE hits == {i \in DOMAIN KeyOrder : e \cap KeyOrder[i][1] # {}}
             first == CHOOSE i \in hits : \A j \in hits : i <= j
  <1>1. DOMAIN KeyOrder = 1..5
    BY DEF KeyOrder
  <1>2. \A i \in 1..5 : KeyOrder[i][2] \in {"download.timeout", "errors.format_unavailable",
              "errors.not_found", "errors.rate_limited", "errors.network"}
    <2>1. /\ KeyOrder[1][2] = "download.timeout" /\ KeyOrder[2][2] = "errors.format_unavailable"
          /\ KeyOrder[3][2] = "errors.not_found" /\ KeyOrder[4][2] = "errors.rate_limited"
          /\ KeyOrder[5][2] = "errors.network"
      BY DEF KeyOrder
    <2>2. \A i \in 1..5 : i = 1 \/ i = 2 \/ i = 3 \/ i = 4 \/ i = 5
      OBVIOUS
    <2> HIDE DEF KeyOrder
    <2> QED
      BY <2>1, <2>2
  <1>3. CASE hits = {}
    BY <1>3 DEF UserFacingErrorKey
  <1>4. CASE hits # {}
    <2>1. hits \subseteq 1..5
      BY <1>1
    <2>2. \E i \in hits : \A j \in hits : i <= j
      <3> HIDE DEF hits
      <3>1. CASE 1 \in hits
        BY <2>1, <3>1
      <3>2. CASE 1 \notin hits /\ 2 \in hits
        BY <2>1, <3>2
      <3>3. CASE 1 \notin hits /\ 2 \notin hits /\ 3 \in hits
        BY <2>1, <3>3
      <3>4. CASE 1 \notin hits /\ 2 \notin hits /\ 3 \notin hits /\ 4 \in hits
        BY <2>1, <3>4
      <3>5. CASE 1 \notin hits /\ 2 \notin hits /\ 3 \notin hits /\ 4 \notin hits
        <4>1. \A i \in hits : i = 5
          BY <2>1, <3>5
        <4>2. PICK i \in hits : TRUE
          BY <1>4
        <4> QED
          BY <4>1, <4>2
      <3> QED
        BY <3>1, <3>2, <3>3, <3>4, <3>5
    <2>3. first \in 1..5
      BY <2>1, <2>2
    <2>4. UserFacingErrorKey(e) = KeyOrder[first][2]
      BY <1>4 DEF UserFacingErrorKey
    <2> HIDE DEF first
    <2> QED
      BY <1>2, <2>3, <2>4
  <1> QED
    BY <1>3, <1>4

\* A failure that is told ends the task.
LEMMA FailEnds ==
  ASSUME JobInv, task = "run", NEW notice, Fail(notice),
         notice \notin {"placeholder", "downloading", "deleted"},
         UNCHANGED <<sent, call, loop, article>>, VideoShape'
  PROVE  JobStep
  <1>1. /\ task' = "done" /\ pc' = "end" /\ row' = "failed" /\ status' = notice
        /\ UNCHANGED <<kind, attempt>>
    BY DEF Fail, Return
  <1>2. article' = "none"
    BY DEF JobInv
  <1>3. EndIsTold'
    BY <1>1, <1>2 DEF EndIsTold
  <1> QED
    BY <1>1, <1>3 DEF Ends, JobStep

\* A completed task has something in the chat, or is a post with nothing but sound.
LEMMA CompleteEnds ==
  ASSUME JobInv, task = "run", Complete, Delivered \/ (kind = "tiktok" /\ NoImage),
         UNCHANGED <<files, sent, call, loop, article>>, VideoShape'
  PROVE  JobStep
  <1>1. /\ task' = "done" /\ pc' = "end" /\ row' = "completed" /\ status' = "deleted"
        /\ UNCHANGED <<kind, attempt>>
    BY DEF Complete, Return
  <1>2. article' = "none"
    BY DEF JobInv
  <1>3. Shown'
    BY <1>1 DEF Shown, SoundLost, Delivered, NoImage
  <1>4. EndIsTold'
    BY <1>1, <1>2, <1>3 DEF EndIsTold
  <1> QED
    BY <1>1, <1>4 DEF Ends, JobStep

\* An error that is returned is given back to the queue.
LEMMA ErrorGivesUp ==
  ASSUME JobInv, task = "run", ReturnError, UNCHANGED <<sent, call, loop, article>>, VideoShape'
  PROVE  JobStep
  BY DEF ReturnError, GivesUp, JobStep

\* A download that failed is told or tried again.
LEMMA DownloadFailedSteps ==
  ASSUME JobInv, task = "run", NEW e, DownloadFailed(e),
         UNCHANGED <<sent, call, loop, article>>, VideoShape'
  PROVE  JobStep
  BY ErrorIsText, FailEnds, ErrorGivesUp DEF DownloadFailed

\* The body goes on to where it waits for nothing.
LEMMA QuietGoes ==
  ASSUME JobInv, task = "run", NEW p \in Quiet, Goto(p), UNCHANGED <<sent, article>>,
         IsCall(call)', IsLoop(loop)', loop'.any => Delivered, VideoShape'
  PROVE  JobStep
  <1>1. pc' = p /\ UNCHANGED <<kind, task, attempt, row>>
    BY DEF Goto
  <1>2. Conclusions' /\ VideoKept'
    BY <1>1 DEF Quiet, Uploads, Conclusions, Delivered, VideoKept
  <1> QED
    BY <1>1, <1>2 DEF Goes, JobStep, SentGrows

\* The body has asked for an upload and waits for its answer.
LEMMA AskGoes ==
  ASSUME JobInv, task = "run", NEW p \in Uploads \cup Albums, Goto(p),
         UNCHANGED <<sent, loop, article>>,
         IsCall(call)', call'.result = "pending", VideoShape'
  PROVE  JobStep
  <1>1. pc' = p /\ UNCHANGED <<kind, task, attempt, row>>
    BY DEF Goto
  <1>2. Conclusions' /\ VideoKept'
    BY <1>1 DEF Uploads, Albums, Conclusions, Answered, Delivered, VideoKept, JobInv
  <1>3. IsLoop(loop)'
    BY DEF JobInv, Records, IsLoop
  <1> QED
    BY <1>1, <1>2, <1>3 DEF Goes, JobStep, SentGrows

\* A field that is replaced leaves the other fields of a call alone.
LEMMA CallChanges ==
  ASSUME NEW c, IsCall(c), NEW x
  PROVE  /\ IsCall([c EXCEPT !.result = x]) /\ [c EXCEPT !.result = x].result = x
         /\ IsCall([c EXCEPT !.caption = x]) /\ [c EXCEPT !.caption = x].result = c.result
         /\ IsCall([c EXCEPT !.single = x]) /\ [c EXCEPT !.single = x].result = c.result
         /\ IsCall([c EXCEPT !.todo = x]) /\ [c EXCEPT !.todo = x].result = c.result
  <1>1. IsCall([c EXCEPT !.result = x]) /\ [c EXCEPT !.result = x].result = x
    BY DEF IsCall
  <1>2. IsCall([c EXCEPT !.caption = x]) /\ [c EXCEPT !.caption = x].result = c.result
    BY DEF IsCall
  <1>3. IsCall([c EXCEPT !.single = x]) /\ [c EXCEPT !.single = x].result = c.result
    BY DEF IsCall
  <1>4. IsCall([c EXCEPT !.todo = x]) /\ [c EXCEPT !.todo = x].result = c.result
    BY DEF IsCall
  <1> QED
    BY <1>1, <1>2, <1>3, <1>4

\* Two fields likewise.
LEMMA CallChangesTwice ==
  ASSUME NEW c, IsCall(c), NEW x, NEW y
  PROVE  /\ IsCall([c EXCEPT !.single = x, !.todo = y])
         /\ [c EXCEPT !.single = x, !.todo = y].result = c.result
         /\ IsCall([c EXCEPT !.single = x, !.caption = y])
  <1>1. [c EXCEPT !.single = x, !.todo = y] = [[c EXCEPT !.single = x] EXCEPT !.todo = y]
    OBVIOUS
  <1>2. [c EXCEPT !.single = x, !.caption = y] = [[c EXCEPT !.single = x] EXCEPT !.caption = y]
    OBVIOUS
  <1>3. IsCall([c EXCEPT !.single = x]) /\ [c EXCEPT !.single = x].result = c.result
    BY CallChanges
  <1> QED
    BY <1>1, <1>2, <1>3, CallChanges

\* A call of the sender has its fields; it waits unless there is nothing to send.
LEMMA CallShapes ==
  /\ IsCall(Idle) /\ IsCall(Error) /\ Error.result = "err"
  /\ \A f : SendFile(f) => IsCall(call)' /\ call'.result = "pending"
  /\ \A f : SendAudio(f) => IsCall(call)' /\ call'.result = "pending"
  /\ \A fs : SendPhotoAlbum(fs) => IsCall(call)' /\ (fs # <<>> => call'.result = "pending")
  <1>0. \A a, b, c, d, e : IsCall([op |-> a, todo |-> b, single |-> c, caption |-> d, result |-> e])
    BY DEF IsCall
  <1>1. \A op, todo, c : /\ IsCall(Pending(op, todo, c))
                         /\ Pending(op, todo, c).result = "pending"
    BY <1>0 DEF Pending
  <1>2. IsCall(Idle) /\ IsCall(Error) /\ Error.result = "err"
    <2>1. IsCall(Idle)
      BY <1>0 DEF Idle
    <2> QED
      BY <2>1, CallChanges DEF Error
  <1>6. \A c : call' = c /\ IsCall(c) => IsCall(call)'
    BY DEF IsCall
  <1>3. \A f : SendFile(f) => IsCall(call)' /\ call'.result = "pending"
    BY <1>1, <1>6 DEF SendFile
  <1>4. \A f : SendAudio(f) => IsCall(call)' /\ call'.result = "pending"
    BY <1>1, <1>6 DEF SendAudio
  <1>5. \A fs : SendPhotoAlbum(fs) => IsCall(call)' /\ (fs # <<>> => call'.result = "pending")
    BY <1>1, <1>2, <1>6 DEF SendPhotoAlbum
  <1> QED
    BY <1>2, <1>3, <1>4, <1>5

\* Making the directory either works or is given back.
LEMMA MkdirSteps ==
  ASSUME JobInv, task = "run", NEW p \in Quiet, MkdirTemp(p), UNCHANGED article
  PROVE  JobStep
  <1>1. UNCHANGED <<sent, call, loop>> /\ VideoShape'
    BY DEF MkdirTemp, mediaVars, videoVars, JobInv, Records, VideoShape
  <1>2. IsCall(call)' /\ IsLoop(loop)' /\ (loop'.any => Delivered)
    BY <1>1 DEF JobInv, Records, IsCall, IsLoop, Conclusions
  <1> QED
    BY <1>1, <1>2, QuietGoes, ErrorGivesUp DEF MkdirTemp

\* What a step leaves alone keeps its shape.
LEMMA FrameKept ==
  ASSUME JobInv
  PROVE  /\ call' = call => IsCall(call)'
         /\ loop' = loop => IsLoop(loop)' /\ (loop'.any => Delivered)
         /\ UNCHANGED videoVars => VideoShape'
  BY DEF JobInv, Records, IsCall, IsLoop, Conclusions, VideoShape, videoVars

-----------------------------------------------------------------------------
(* The sender.                                                               *)

\* One request: an answer without error means that something is in the chat.
LEMMA SendOneSteps ==
  ASSUME JobInv, NEW f, NEW next, IsCall(next), call.result = "pending", SendOne(f, next)
  PROVE  SentGrows /\ IsCall(call)' /\ (Answered => Delivered)'
  <1>1. \A c : call' = c /\ IsCall(c) => IsCall(call)'
    BY DEF IsCall
  <1>2. CASE call' = Error /\ UNCHANGED sent
    BY <1>1, <1>2, CallShapes DEF SentGrows, Answered
  <1>3. CASE call' = [call EXCEPT !.caption = FALSE] /\ UNCHANGED sent
    <2>1. IsCall([call EXCEPT !.caption = FALSE]) /\ [call EXCEPT !.caption = FALSE].result = "pending"
      BY CallChanges DEF JobInv, Records
    <2> HIDE DEF IsCall
    <2>2. IsCall(call)' /\ call'.result = "pending"
      BY <1>1, <1>3, <2>1
    <2> QED
      BY <1>3, <2>2 DEF SentGrows, Answered
  <1>4. CASE sent' = Append(sent, <<f.id>>) /\ call' \in {next, Error}
    <2>1. IsCall(call)'
      BY <1>1, <1>4, CallShapes
    <2>2. Delivered'
      BY <1>4, SeqGrows DEF JobInv, Records, Delivered
    <2> QED
      BY <1>4, <2>1, <2>2 DEF SentGrows
  <1> QED
    BY <1>2, <1>3, <1>4 DEF SendOne, Upload

\* A step of the sender goes on.
LEMMA SenderSteps == ASSUME JobInv, SenderNext, UNCHANGED article PROVE JobStep
  <1>1. task = "run" /\ call.result = "pending" /\ UNCHANGED senderFrame
    BY DEF SenderNext, sendFile, sendAudio, sendMediaGroup, sendPhoto, Sending
  <1>2. SentGrows /\ IsCall(call)' /\ (Answered => Delivered)'
    <2>1. CASE sendFile \/ sendAudio
      BY <1>1, <2>1, SendOneSteps, CallShapes DEF sendFile, sendAudio
    <2>2. CASE sendMediaGroup
      <3>1. PICK a, b : call' = Error \/ call' = [call EXCEPT !.single = a, !.todo = b]
        BY <2>2 DEF sendMediaGroup
      <3>2. \A c : call' = c /\ IsCall(c) => IsCall(call)'
        BY DEF IsCall
      <3>3. IsCall([call EXCEPT !.single = a, !.todo = b])
            /\ [call EXCEPT !.single = a, !.todo = b].result = "pending"
        BY <1>1, CallChangesTwice DEF JobInv, Records
      <3>4. CASE call' = Error
        BY <2>2, <3>2, <3>4, CallShapes DEF sendMediaGroup, SentGrows, Answered
      <3>5. CASE call' = [call EXCEPT !.single = a, !.todo = b]
        <4>1. IsCall(call)' /\ call'.result = "pending"
          BY <3>2, <3>3, <3>5
        <4> QED
          BY <2>2, <4>1 DEF sendMediaGroup, SentGrows, Answered
      <3> QED
        BY <3>1, <3>4, <3>5
    <2>3. CASE sendPhoto
      <3>1. PICK n : n = IF Len(call.single) = 1 /\ call.todo = <<>> THEN Idle
                         ELSE [call EXCEPT !.single = Tail(@), !.caption = FALSE]
        OBVIOUS
      <3>2. IsCall([call EXCEPT !.single = Tail(@), !.caption = FALSE])
        BY CallChangesTwice DEF JobInv, Records
      <3>3. IsCall(n)
        BY <3>1, <3>2, CallShapes
      <3>4. SendOne(Head(call.single), n)
        BY <2>3, <3>1 DEF sendPhoto
      <3> QED
        BY <1>1, <3>3, <3>4, SendOneSteps
    <2> QED
      BY <2>1, <2>2, <2>3 DEF SenderNext
  <1>3. Delivered => Delivered'
    BY <1>2, DeliveredStays DEF JobInv, Records
  <1>4. Conclusions'
    BY <1>1, <1>2, <1>3 DEF senderFrame, JobInv, Conclusions, NoImage
  <1>5. IsLoop(loop)' /\ VideoShape' /\ VideoKept'
    BY <1>1 DEF senderFrame, videoVars, JobInv, Records, IsLoop, VideoShape, VideoKept
  <1> QED
    BY <1>1, <1>2, <1>4, <1>5 DEF senderFrame, Goes, JobStep

-----------------------------------------------------------------------------
(* Videos.                                                                   *)

\* A swap leaves the video on disk, under its old or its new name.
LEMMA SwapKeeps ==
  ASSUME VideoShape, NEW s \in Nat \ {0}, NEW always \in BOOLEAN, SwapIn(s, always),
         \E n \in Names : disk[n] > 0
  PROVE  VideoShape' /\ \E n \in Names : disk'[n] > 0
  <1> DEFINE gone == IF always \/ Final(cur) # cur THEN [disk EXCEPT ![cur] = 0] ELSE disk
  <1>1. gone \in [Names -> Nat] /\ Final(cur) \in Names /\ "tmp" \in Names
    BY DEF VideoShape, Final, Names
  <1>2. \/ disk' = [gone EXCEPT ![Final(cur)] = s] /\ cur' = Final(cur)
        \/ Untouched
        \/ disk' = [gone EXCEPT !["tmp"] = s] /\ cur' = cur
    BY DEF SwapIn
  <1> HIDE DEF gone
  <1>3. \A g, n : g \in [Names -> Nat] /\ n \in Names =>
            [g EXCEPT ![n] = s] \in [Names -> Nat] /\ [g EXCEPT ![n] = s][n] > 0
    OBVIOUS
  <1>4. CASE disk' = [gone EXCEPT ![Final(cur)] = s] /\ cur' = Final(cur)
    BY <1>1, <1>3, <1>4 DEF VideoShape
  <1>5. CASE Untouched
    BY <1>5 DEF Untouched, VideoShape
  <1>6. CASE disk' = [gone EXCEPT !["tmp"] = s] /\ cur' = cur
    BY <1>1, <1>3, <1>6 DEF VideoShape
  <1> QED
    BY <1>2, <1>4, <1>5, <1>6

\* And so does every pass.
LEMMA PassKeeps ==
  ASSUME VideoShape, \E n \in Names : disk[n] > 0
  PROVE  LET Kept == VideoShape' /\ \E n \in Names : disk'[n] > 0
         IN  /\ Untouched => Kept
             /\ CompressIfOversized => Kept
             /\ \A limit : CompressToFit(limit) => Kept
             /\ disk[cur] > 0 /\ MuxAudioFrom => Kept
             /\ NormalizeSAR => Kept
             /\ \A s \in Sizes : ApplyAspectRatio(s) => Kept
  <1> DEFINE Kept == VideoShape' /\ \E n \in Names : disk'[n] > 0
  <1>1. Untouched => Kept
    BY DEF Untouched, VideoShape
  <1>2. \A s \in Nat \ {0}, always \in BOOLEAN : SwapIn(s, always) => Kept
    BY SwapKeeps
  <1>3. Sizes \subseteq Nat \ {0}
    BY JobAssumption
  <1>4. \A s \in Sizes : ApplyAspectRatio(s) => Kept
    <2> SUFFICES ASSUME NEW s \in Sizes, ApplyAspectRatio(s) PROVE Kept
      OBVIOUS
    <2>1. "ratio" \in Names /\ s \in Nat \ {0}
      BY <1>3 DEF Names
    <2>2. disk' \in [Names -> Nat] /\ disk'["ratio"] > 0
      BY <2>1 DEF ApplyAspectRatio, VideoShape
    <2> QED
      BY <2>1, <2>2 DEF ApplyAspectRatio, VideoShape
  <1>5. disk[cur] > 0 /\ MuxAudioFrom => Kept
    <2>1. disk[cur] \in Nat
      BY DEF VideoShape
    <2>2. disk[cur] > 0 => disk[cur] \in Nat \ {0}
      BY <2>1
    <2> QED
      BY <1>1, <1>2, <2>2 DEF MuxAudioFrom, EncodeFails, fileSize
  <1> HIDE DEF Kept
  <1>6. CompressIfOversized => Kept
    BY <1>1, <1>2, <1>3 DEF CompressIfOversized, EncodeFails
  <1>7. \A limit : CompressToFit(limit) => Kept
    BY <1>1, <1>2, <1>3 DEF CompressToFit, EncodeFails
  <1>8. NormalizeSAR => Kept
    BY <1>1, <1>2, <1>3 DEF NormalizeSAR, EncodeFails
  <1> QED
    BY <1>1, <1>4, <1>5, <1>6, <1>7, <1>8 DEF Kept

\* After a pass the body goes on to the next one with the video on disk.
LEMMA PassGoes ==
  ASSUME JobInv, task = "run", NEW p \in {"ratio", "compress", "fit", "sar"}, Goto(p),
         UNCHANGED <<sent, call, loop, article>>,
         VideoShape', \E n \in Names : disk'[n] > 0
  PROVE  JobStep
  <1>1. pc' = p /\ UNCHANGED <<kind, task, attempt, row>>
    BY DEF Goto
  <1>2. VideoKept'
    BY <1>1 DEF VideoKept
  <1>3. Conclusions'
    BY <1>1 DEF Uploads, Conclusions, Delivered, JobInv
  <1> QED
    BY <1>1, <1>2, <1>3, FrameKept DEF Goes, JobStep, SentGrows

\* A downloaded video is on disk where the body looks for it.
LEMMA FoundOnDisk ==
  ASSUME NEW name \in {"webm", "mp4"}, NEW s \in Sizes,
         disk' = [NoDisk EXCEPT ![name] = s], cur' = name
  PROVE  VideoShape' /\ disk'[cur'] > 0 /\ \E n \in Names : disk'[n] > 0
  <1>1. NoDisk \in [Names -> Nat] /\ name \in Names
    BY DEF NoDisk, Names
  <1>2. s \in Nat \ {0}
    BY JobAssumption
  <1>3. disk' \in [Names -> Nat] /\ disk'[name] = s
    BY <1>1, <1>2
  <1> QED
    BY <1>1, <1>2, <1>3 DEF VideoShape

\* The answer to an upload is the end of the task.
LEMMA AnswerEnds ==
  ASSUME JobInv, task = "run", pc \in Uploads,
         IF call.result = "ok" THEN Complete ELSE Fail("errors.generic"),
         UNCHANGED <<mediaVars, videoVars, article>>
  PROVE  JobStep
  <1>1. VideoShape' /\ UNCHANGED <<files, sent, call, loop, article>>
    BY FrameKept DEF mediaVars
  <1>2. CASE call.result = "ok"
    <2>1. Delivered
      BY <1>2 DEF JobInv, Conclusions, Answered
    <2> QED
      BY <1>1, <1>2, <2>1, CompleteEnds
  <1>3. CASE call.result # "ok"
    BY <1>1, <1>3, FailEnds
  <1> QED
    BY <1>2, <1>3

\* The download found a video, or no file.
LEMMA VideoFoundSteps ==
  ASSUME JobInv, task = "run", VideoFound, UNCHANGED <<mediaVars, article>>
  PROVE  JobStep
  <1>1. UNCHANGED <<sent, call, loop, article>>
    BY DEF mediaVars
  <1>2. CASE \E name \in {"webm", "mp4"}, s \in Sizes :
               /\ disk' = [NoDisk EXCEPT ![name] = s] /\ cur' = name
               /\ Goto("ratio") /\ UNCHANGED status
    BY <1>1, <1>2, FoundOnDisk, PassGoes
  <1>3. CASE Fail("errors.not_found") /\ UNCHANGED videoVars
    BY <1>1, <1>3, FailEnds, FrameKept
  <1> QED
    BY <1>2, <1>3 DEF VideoFound

\* A video is refused, or asked to be uploaded.
LEMMA SendVideoSteps ==
  ASSUME JobInv, task = "run", NEW f, SendVideo(f), UNCHANGED <<sent, loop, videoVars, article>>
  PROVE  JobStep
  <1>1. VideoShape'
    BY FrameKept
  <1>2. CASE Fail("too_large") /\ UNCHANGED call
    BY <1>1, <1>2, FailEnds
  <1>3. CASE SendFile(f) /\ Goto("sent")
    <2>1. IsCall(call)' /\ call'.result = "pending"
      BY <1>3, CallShapes
    <2> QED
      BY <1>1, <1>3, <2>1, AskGoes DEF Uploads
  <1> QED
    BY <1>2, <1>3 DEF SendVideo

LEMMA YouTubeSteps == ASSUME JobInv, YouTubeNext, UNCHANGED article PROVE JobStep
  <1>1. CASE YouTubeStart
    BY <1>1, MkdirSteps DEF YouTubeStart, At, Quiet
  <1>2. CASE downloadYouTubeVideo
    <2>1. task = "run" /\ UNCHANGED <<mediaVars, sent, call, loop, article>>
      BY <1>2 DEF downloadYouTubeVideo, At, mediaVars
    <2>2. \/ VideoFound
          \/ \E e : DownloadFailed(e) /\ UNCHANGED videoVars
          \/ Goto("again") /\ UNCHANGED videoVars
      BY <1>2 DEF downloadYouTubeVideo
    <2> QED
      BY <2>1, <2>2, VideoFoundSteps, DownloadFailedSteps, QuietGoes, FrameKept DEF Quiet
  <1>3. CASE YouTubeRatio
    <2>1. task = "run" /\ pc = "ratio" /\ UNCHANGED <<sent, call, loop, article>>
      BY <1>3 DEF YouTubeRatio, At, mediaVars
    <2>2. VideoShape /\ \E n \in Names : disk[n] > 0
      BY <2>1 DEF JobInv, Records, VideoKept
    <2>3. \/ Untouched /\ Goto("compress")
          \/ (\E s \in Sizes : ApplyAspectRatio(s)) /\ Goto("compress")
          \/ Untouched /\ Fail("errors.generic")
      BY <1>3 DEF YouTubeRatio
    <2>4. VideoShape' /\ \E n \in Names : disk'[n] > 0
      BY <2>2, <2>3, PassKeeps
    <2> QED
      BY <2>1, <2>3, <2>4, PassGoes, FailEnds
  <1>4. CASE YouTubeCompress
    <2>1. task = "run" /\ pc = "compress" /\ UNCHANGED <<sent, call, loop, article>> /\ Goto("fit")
      BY <1>4 DEF YouTubeCompress, At, mediaVars
    <2>2. VideoShape /\ \E n \in Names : disk[n] > 0
      BY <2>1 DEF JobInv, Records, VideoKept
    <2>3. VideoShape' /\ \E n \in Names : disk'[n] > 0
      BY <1>4, <2>2, PassKeeps DEF YouTubeCompress
    <2> QED
      BY <2>1, <2>3, PassGoes
  <1>5. CASE ensureFitsUpload
    <2>1. task = "run" /\ pc = "fit" /\ UNCHANGED <<sent, call, loop, article>> /\ Goto("send")
      BY <1>5 DEF ensureFitsUpload, At, mediaVars
    <2>2. VideoShape /\ \E n \in Names : disk[n] > 0
      BY <2>1 DEF JobInv, Records, VideoKept
    <2>3. VideoShape'
      BY <1>5, <2>2, PassKeeps DEF ensureFitsUpload
    <2> QED
      BY <2>1, <2>3, QuietGoes, FrameKept DEF Quiet
  <1>6. CASE YouTubeSend
    BY <1>6, SendVideoSteps DEF YouTubeSend, At
  <1>7. CASE sendVideoResult
    BY <1>7, AnswerEnds DEF sendVideoResult, Returned, At, Uploads
  <1>8. CASE runYouTubeAudio
    <2>1. task = "run" /\ UNCHANGED <<sent, loop, article>> /\ VideoShape'
      BY <1>8, FrameKept DEF runYouTubeAudio, At
    <2>2. \/ Fail("too_large") /\ UNCHANGED call
          \/ \E f : Goto("played") /\ SendAudio(f)
          \/ \E e : DownloadFailed(e) /\ UNCHANGED call
      BY <1>8 DEF runYouTubeAudio
    <2>3. CASE \E f : Goto("played") /\ SendAudio(f)
      <3>1. IsCall(call)' /\ call'.result = "pending"
        BY <2>3, CallShapes
      <3> QED
        BY <2>1, <2>3, <3>1, AskGoes DEF Uploads
    <2> QED
      BY <2>1, <2>2, <2>3, FailEnds, DownloadFailedSteps
  <1>9. CASE AudioSent
    BY <1>9, AnswerEnds DEF AudioSent, Returned, At, Uploads
  <1> QED
    BY <1>1, <1>2, <1>3, <1>4, <1>5, <1>6, <1>7, <1>8, <1>9 DEF YouTubeNext

-----------------------------------------------------------------------------
(* Links and posts on X.                                                     *)

\* Two bodies delete the placeholder whatever the answer was.
LEMMA DeletedEnds ==
  ASSUME JobInv, task = "run", kind \in {"link", "x", "instagram"},
         call.result = "ok" => Delivered,
         Return(IF call.result = "ok" THEN "completed" ELSE "failed", "deleted"),
         UNCHANGED <<mediaVars, videoVars, article>>
  PROVE  JobStep
  <1>1. /\ task' = "done" /\ pc' = "end" /\ status' = "deleted" /\ UNCHANGED <<kind, attempt>>
        /\ row' = IF call.result = "ok" THEN "completed" ELSE "failed"
        /\ UNCHANGED <<sent, call, loop>> /\ VideoShape'
    BY FrameKept DEF Return, mediaVars
  <1>2. article' = "none"
    BY DEF JobInv
  <1>3. row' = "completed" => Shown'
    BY <1>1 DEF Shown, Delivered
  <1>4. Shown' \/ Silent'
    BY <1>1, <1>3 DEF Silent
  <1>5. EndIsTold'
    BY <1>1, <1>2, <1>3, <1>4 DEF EndIsTold
  <1> QED
    BY <1>1, <1>5 DEF Ends, JobStep

\* A body that tells the user it downloads, and makes its directory.
LEMMA BeginSteps ==
  ASSUME JobInv, NEW k, NEW p \in Quiet, Begin(k, p), UNCHANGED article PROVE JobStep
  BY MkdirSteps DEF Begin, At

LEMMA LinkSteps == ASSUME JobInv, LinkNext, UNCHANGED article PROVE JobStep
  <1>1. CASE LinkStart
    BY <1>1, BeginSteps DEF LinkStart, Quiet
  <1>2. CASE LinkFailed
    <2>1. task = "run" /\ UNCHANGED <<sent, call, loop, article, videoVars>>
      BY <1>2 DEF LinkFailed, At, mediaVars
    <2>2. Goto("photos") \/ \E e : DownloadFailed(e)
      BY <1>2 DEF LinkFailed
    <2> QED
      BY <2>1, <2>2, DownloadFailedSteps, QuietGoes, FrameKept DEF Quiet
  <1>3. CASE LinkDownloaded
    <2>1. task = "run" /\ UNCHANGED <<sent, loop, videoVars, article>> /\ VideoShape'
      BY <1>3, FrameKept DEF LinkDownloaded, At
    <2>2. \/ NoMedia("errors.not_found") /\ UNCHANGED call
          \/ \E images : images # <<>> /\ SendPhotoAlbum(images) /\ Goto("album")
          \/ \E f : SendVideo(f)
      BY <1>3 DEF LinkDownloaded
    <2>3. CASE NoMedia("errors.not_found") /\ UNCHANGED call
      BY <2>1, <2>3, FailEnds, QuietGoes, FrameKept DEF NoMedia, Quiet
    <2>4. CASE \E images : images # <<>> /\ SendPhotoAlbum(images) /\ Goto("album")
      <3>1. IsCall(call)' /\ call'.result = "pending"
        BY <2>4, CallShapes
      <3> QED
        BY <2>1, <2>4, <3>1, AskGoes DEF Albums
    <2>5. CASE \E f : SendVideo(f)
      BY <2>1, <2>5, SendVideoSteps
    <2> QED
      BY <2>2, <2>3, <2>4, <2>5
  <1>4. CASE LinkAlbumSent
    <2>1. task = "run" /\ pc = "album" /\ kind \in {"link", "x"}
      BY <1>4 DEF LinkAlbumSent, Returned, At, Link
    <2>2. call.result = "ok" => Delivered
      BY <2>1 DEF JobInv, Conclusions, Answered
    <2> QED
      BY <1>4, <2>1, <2>2, DeletedEnds DEF LinkAlbumSent
  <1>5. CASE runXPhotos
    <2>1. task = "run" /\ UNCHANGED <<sent, loop, videoVars, article>> /\ VideoShape'
      BY <1>5, FrameKept DEF runXPhotos, At
    <2>2. \/ Fail("x.text_only") /\ UNCHANGED call
          \/ Fail("errors.generic") /\ UNCHANGED call
          \/ \E ps : ps # <<>> /\ SendPhotoAlbum(ps) /\ Goto("xalbum")
      BY <1>5 DEF runXPhotos
    <2>3. CASE \E ps : ps # <<>> /\ SendPhotoAlbum(ps) /\ Goto("xalbum")
      <3>1. IsCall(call)' /\ call'.result = "pending"
        BY <2>3, CallShapes
      <3> QED
        BY <2>1, <2>3, <3>1, AskGoes DEF Uploads
    <2> QED
      BY <2>1, <2>2, <2>3, FailEnds
  <1>6. CASE XAlbumSent
    BY <1>6, AnswerEnds DEF XAlbumSent, Returned, At, Uploads
  <1> QED
    BY <1>1, <1>2, <1>3, <1>4, <1>5, <1>6 DEF LinkNext

-----------------------------------------------------------------------------
(* The loops over the items of a post.                                       *)

\* A field that is replaced leaves the other fields of a loop alone.
LEMMA LoopChanges ==
  ASSUME NEW l, IsLoop(l), NEW x
  PROVE  /\ IsLoop([l EXCEPT !.items = x]) /\ [l EXCEPT !.items = x].any = l.any
         /\ IsLoop([l EXCEPT !.images = x]) /\ [l EXCEPT !.images = x].any = l.any
         /\ IsLoop([l EXCEPT !.handled = x]) /\ [l EXCEPT !.handled = x].any = l.any
         /\ x \in BOOLEAN => IsLoop([l EXCEPT !.any = x]) /\ [l EXCEPT !.any = x].any = x
  <1>1. IsLoop([l EXCEPT !.items = x]) /\ [l EXCEPT !.items = x].any = l.any
    BY DEF IsLoop
  <1>2. IsLoop([l EXCEPT !.images = x]) /\ [l EXCEPT !.images = x].any = l.any
    BY DEF IsLoop
  <1>3. IsLoop([l EXCEPT !.handled = x]) /\ [l EXCEPT !.handled = x].any = l.any
    BY DEF IsLoop
  <1>4. x \in BOOLEAN => IsLoop([l EXCEPT !.any = x]) /\ [l EXCEPT !.any = x].any = x
    BY DEF IsLoop
  <1> QED
    BY <1>1, <1>2, <1>3, <1>4

\* A loop starts with nothing sent.
LEMMA LoopStarts ==
  ASSUME NEW x
  PROVE  IsLoop(NoLoop) /\ ~NoLoop.any
         /\ IsLoop([NoLoop EXCEPT !.items = x]) /\ ~[NoLoop EXCEPT !.items = x].any
  <1>1. IsLoop(NoLoop) /\ ~NoLoop.any
    BY DEF NoLoop, IsLoop
  <1> QED
    BY <1>1, LoopChanges

\* What a body sees when it takes up its loop.
LEMMA LoopKept ==
  ASSUME JobInv PROVE IsLoop(loop) /\ (loop.any => Delivered)
                      /\ \A l : loop' = l /\ IsLoop(l) => IsLoop(loop)'
  BY DEF JobInv, Records, Conclusions, IsLoop

\* The loop after one of its assignments.
LEMMA LoopGoesOn ==
  ASSUME JobInv, NEW x, NEW y, NEW z, NEW b \in BOOLEAN
  PROVE  /\ loop' = [loop EXCEPT !.items = x] => IsLoop(loop)' /\ loop'.any = loop.any
         /\ loop' = [loop EXCEPT !.items = x, !.images = y] => IsLoop(loop)' /\ loop'.any = loop.any
         /\ loop' = [loop EXCEPT !.items = x, !.images = y, !.handled = z]
                => IsLoop(loop)' /\ loop'.any = loop.any
         /\ loop' = [loop EXCEPT !.any = b] => IsLoop(loop)' /\ loop'.any = b
         /\ loop' = [loop EXCEPT !.items = x, !.any = b] => IsLoop(loop)' /\ loop'.any = b
         /\ loop' = [loop EXCEPT !.items = x, !.any = b, !.handled = z]
                => IsLoop(loop)' /\ loop'.any = b
  <1>1. IsLoop(loop) /\ \A l : loop' = l /\ IsLoop(l) => IsLoop(loop)' /\ loop'.any = l.any
    BY LoopKept
  <1>2. PICK l1 : l1 = [loop EXCEPT !.items = x]
    OBVIOUS
  <1>3. IsLoop(l1) /\ l1.any = loop.any
    BY <1>1, <1>2, LoopChanges
  <1>4. PICK l2 : l2 = [l1 EXCEPT !.images = y]
    OBVIOUS
  <1>5. IsLoop(l2) /\ l2.any = loop.any
    BY <1>3, <1>4, LoopChanges
  <1>6. PICK l3 : l3 = [l2 EXCEPT !.handled = z]
    OBVIOUS
  <1>7. IsLoop(l3) /\ l3.any = loop.any
    BY <1>5, <1>6, LoopChanges
  <1>8. PICK l4 : l4 = [loop EXCEPT !.any = b]
    OBVIOUS
  <1>9. IsLoop(l4) /\ l4.any = b
    BY <1>1, <1>8, LoopChanges
  <1>10. PICK l5 : l5 = [l1 EXCEPT !.any = b]
    OBVIOUS
  <1>11. IsLoop(l5) /\ l5.any = b
    BY <1>3, <1>10, LoopChanges
  <1>12. PICK l6 : l6 = [l5 EXCEPT !.handled = z]
    OBVIOUS
  <1>13. IsLoop(l6) /\ l6.any = b
    BY <1>11, <1>12, LoopChanges
  <1>14. /\ [loop EXCEPT !.items = x, !.images = y] = l2
         /\ [loop EXCEPT !.items = x, !.images = y, !.handled = z] = l3
         /\ [loop EXCEPT !.items = x, !.any = b] = l5
         /\ [loop EXCEPT !.items = x, !.any = b, !.handled = z] = l6
    BY <1>2, <1>4, <1>6, <1>10, <1>12
  <1>15. /\ loop' = l1 => IsLoop(loop)' /\ loop'.any = loop.any
         /\ loop' = l2 => IsLoop(loop)' /\ loop'.any = loop.any
         /\ loop' = l3 => IsLoop(loop)' /\ loop'.any = loop.any
         /\ loop' = l4 => IsLoop(loop)' /\ loop'.any = b
         /\ loop' = l5 => IsLoop(loop)' /\ loop'.any = b
         /\ loop' = l6 => IsLoop(loop)' /\ loop'.any = b
    BY <1>1, <1>3, <1>5, <1>7, <1>9, <1>11, <1>13
  <1> QED
    BY <1>2, <1>8, <1>14, <1>15, Zenon

\* An item is skipped, collected or asked to be uploaded.
LEMMA ItemSteps ==
  ASSUME JobInv, task = "run", pc = "items",
         UNCHANGED <<kind, task, attempt, row, sent, videoVars, article>>,
         \/ pc' = pc /\ UNCHANGED call /\ IsLoop(loop)' /\ loop'.any = loop.any
         \/ pc' = "itemsent" /\ UNCHANGED loop /\ \E f : SendFile(f)
  PROVE  JobStep
  <1>1. VideoShape'
    BY FrameKept
  <1>2. CASE pc' = pc /\ UNCHANGED call /\ IsLoop(loop)' /\ loop'.any = loop.any
    <2>1. Goto("items")
      BY <1>2 DEF Goto
    <2> QED
      BY <1>1, <1>2, <2>1, LoopKept, FrameKept, QuietGoes DEF Quiet
  <1>3. CASE pc' = "itemsent" /\ UNCHANGED loop /\ \E f : SendFile(f)
    <2>1. Goto("itemsent")
      BY <1>3 DEF Goto
    <2>2. IsCall(call)' /\ call'.result = "pending"
      BY <1>3, CallShapes
    <2> QED
      BY <1>1, <1>3, <2>1, <2>2, AskGoes DEF Uploads
  <1> QED
    BY <1>2, <1>3

\* The answer for an item is noted in the loop.
LEMMA ItemSentSteps ==
  ASSUME JobInv, task = "run", pc = "itemsent", Goto("items"),
         IsLoop(loop)', loop'.any = (loop.any \/ call.result = "ok"),
         UNCHANGED <<sent, call, videoVars, article>>
  PROVE  JobStep
  <1>1. loop'.any => Delivered
    BY DEF JobInv, Conclusions, Uploads, Answered
  <1> QED
    BY <1>1, FrameKept, QuietGoes DEF Quiet

\* The collected images are asked for as an album; without any, that is no error.
LEMMA AlbumSteps ==
  ASSUME JobInv, task = "run", NEW p, p = "done" \/ (p = "album" /\ kind = "reddit"), Goto(p),
         SendPhotoAlbum(loop.images), UNCHANGED <<sent, loop, videoVars, article>>
  PROVE  JobStep
  <1>1. pc' = p /\ UNCHANGED <<kind, task, attempt, row>>
    BY DEF Goto
  <1>2. IsCall(call)' /\ (loop.images # <<>> => call'.result = "pending")
    BY CallShapes
  <1>3. Conclusions'
    BY <1>1, <1>2 DEF Uploads, Conclusions, Answered, Delivered, JobInv
  <1>4. VideoKept'
    BY <1>1 DEF VideoKept
  <1> QED
    BY <1>1, <1>2, <1>3, <1>4, FrameKept DEF Goes, JobStep, SentGrows

-----------------------------------------------------------------------------
(* Pinterest.                                                                *)
LEMMA PinterestSteps == ASSUME JobInv, PinterestNext, UNCHANGED article PROVE JobStep
  <1>1. CASE PinterestStart
    BY <1>1, BeginSteps DEF PinterestStart, Quiet
  <1>2. CASE PinterestFailed
    <2>1. task = "run" /\ UNCHANGED <<sent, call, loop, article, videoVars>>
      BY <1>2 DEF PinterestFailed, At, mediaVars
    <2>2. Fail("pinterest.no_media") \/ Fail("errors.generic")
      BY <1>2 DEF PinterestFailed
    <2> QED
      BY <2>1, <2>2, FailEnds, FrameKept
  <1>3. CASE PinterestDownloaded
    <2>1. task = "run" /\ UNCHANGED <<sent, videoVars, article>> /\ VideoShape'
      BY <1>3, FrameKept DEF PinterestDownloaded, At
    <2>2. \/ \E fs : loop' = [NoLoop EXCEPT !.items = fs] /\ Goto("items") /\ UNCHANGED call
          \/ Fail("pinterest.all_too_large") /\ UNCHANGED <<loop, call>>
          \/ \E f : SendFile(f) /\ Goto("pin") /\ UNCHANGED loop
      BY <1>3 DEF PinterestDownloaded
    <2>3. CASE \E fs : loop' = [NoLoop EXCEPT !.items = fs] /\ Goto("items") /\ UNCHANGED call
      <3>1. IsLoop(loop)' /\ ~loop'.any
        BY <2>3, LoopStarts, LoopKept
      <3> QED
        BY <2>1, <2>3, <3>1, FrameKept, QuietGoes DEF Quiet
    <2>4. CASE \E f : SendFile(f) /\ Goto("pin") /\ UNCHANGED loop
      <3>1. IsCall(call)' /\ call'.result = "pending"
        BY <2>4, CallShapes
      <3> QED
        BY <2>1, <2>4, <3>1, AskGoes DEF Uploads
    <2> QED
      BY <2>1, <2>2, <2>3, <2>4, FailEnds
  <1>4. CASE PinSent
    BY <1>4, AnswerEnds DEF PinSent, Returned, At, Uploads
  <1>5. CASE PinterestItem
    <2>1. task = "run" /\ pc = "items" /\ UNCHANGED <<kind, task, attempt, row, sent, videoVars, article>>
      BY <1>5 DEF PinterestItem, Returned, At
    <2>2. \/ /\ pc' = pc /\ UNCHANGED call
             /\ \/ \E x : loop' = [loop EXCEPT !.items = x]
                \/ \E x, y : loop' = [loop EXCEPT !.items = x, !.images = y]
          \/ pc' = "itemsent" /\ UNCHANGED loop /\ \E f : SendFile(f)
      BY <1>5 DEF PinterestItem
    <2>3. \A x : loop' = [loop EXCEPT !.items = x] => IsLoop(loop)' /\ loop'.any = loop.any
      BY LoopGoesOn
    <2>4. \A x, y : loop' = [loop EXCEPT !.items = x, !.images = y]
                        => IsLoop(loop)' /\ loop'.any = loop.any
      BY LoopGoesOn
    <2> QED
      BY <2>1, <2>2, <2>3, <2>4, ItemSteps
  <1>6. CASE PinterestItemSent
    <2>1. task = "run" /\ pc = "itemsent" /\ Goto("items") /\ UNCHANGED <<sent, call, videoVars, article>>
      BY <1>6 DEF PinterestItemSent, Returned, At
    <2>2. PICK x, b : b = (loop.any \/ call.result = "ok") /\ loop' = [loop EXCEPT !.items = x, !.any = b]
      BY <1>6 DEF PinterestItemSent
    <2>3. b \in BOOLEAN
      BY <2>2
    <2>4. IsLoop(loop)' /\ loop'.any = b
      BY <2>2, <2>3, LoopGoesOn
    <2> QED
      BY <2>1, <2>2, <2>4, ItemSentSteps
  <1>7. CASE PinterestAlbum
    BY <1>7, AlbumSteps DEF PinterestAlbum, Returned, At
  <1>8. CASE PinterestDone
    <2>1. task = "run" /\ pc = "done" /\ UNCHANGED <<files, sent, call, loop, article>> /\ VideoShape'
      BY <1>8, FrameKept DEF PinterestDone, Returned, At, mediaVars
    <2>2. CASE loop.any \/ (loop.images # <<>> /\ call.result = "ok")
      <3>1. Delivered
        BY <2>1, <2>2 DEF JobInv, Conclusions, Answered
      <3>2. Complete
        BY <1>8, <2>2 DEF PinterestDone
      <3> QED
        BY <2>1, <3>1, <3>2, CompleteEnds
    <2>3. CASE ~(loop.any \/ (loop.images # <<>> /\ call.result = "ok"))
      <3>1. Fail("pinterest.all_too_large")
        BY <1>8, <2>3 DEF PinterestDone
      <3> QED
        BY <2>1, <3>1, FailEnds
    <2> QED
      BY <2>2, <2>3
  <1> QED
    BY <1>1, <1>2, <1>3, <1>4, <1>5, <1>6, <1>7, <1>8 DEF PinterestNext

-----------------------------------------------------------------------------
(* TikTok and Instagram.                                                     *)

\* A post whose downloader left no image is nothing or a sound.
LEMMA NoImageAlone ==
  ASSUME NEW sound \in {<<>>, <<AudioOf(1)>>}, files' = <<>> \o sound PROVE NoImage'
  <1>1. CASE sound = <<>>
    <2>1. files' = <<>>
      BY <1>1
    <2> QED
      BY <2>1 DEF NoImage
  <1>2. CASE sound = <<AudioOf(1)>>
    <2>1. PICK a : a = AudioOf(1)
      OBVIOUS
    <2>2. a.type # "image"
      BY <2>1 DEF AudioOf
    <2>3. files' = <<a>>
      BY <1>2, <2>1
    <2> QED
      BY <2>2, <2>3 DEF NoImage
  <1> QED
    BY <1>1, <1>2

LEMMA TikTokSteps == ASSUME JobInv, TikTokNext, UNCHANGED article PROVE JobStep
  <1>1. CASE TikTokStart
    BY <1>1, BeginSteps DEF TikTokStart, Quiet
  <1>2. CASE TikTokFailed
    <2>1. task = "run" /\ UNCHANGED <<sent, call, loop, article, videoVars>> /\ VideoShape'
      BY <1>2, FrameKept DEF TikTokFailed, At, mediaVars
    <2> QED
      BY <1>2, <2>1, DownloadFailedSteps DEF TikTokFailed
  <1>3. CASE TikTokCarousel
    <2>1. task = "run" /\ UNCHANGED <<sent, loop, videoVars, article>> /\ VideoShape' /\ Goto("carousel")
      BY <1>3, FrameKept DEF TikTokCarousel, At
    <2>2. \E ps : ps # <<>> /\ SendPhotoAlbum(ps)
      BY <1>3 DEF TikTokCarousel
    <2>3. IsCall(call)' /\ call'.result = "pending"
      BY <2>2, CallShapes
    <2> QED
      BY <2>1, <2>3, AskGoes DEF Albums
  <1>4. CASE TikTokDownloaded
    <2>1. task = "run" /\ UNCHANGED <<sent, loop, article>>
      BY <1>4 DEF TikTokDownloaded, At
    <2>2. CASE /\ \E s \in Sizes, name \in {"webm", "mp4"} :
                    disk' = [NoDisk EXCEPT ![name] = s] /\ cur' = name
               /\ Goto("mux") /\ UNCHANGED <<status, files, call>>
      <3>1. VideoShape' /\ disk'[cur'] > 0
        BY <2>2, FoundOnDisk
      <3>2. pc' = "mux" /\ UNCHANGED <<kind, task, attempt, row>>
        BY <2>2 DEF Goto
      <3>3. Conclusions' /\ VideoKept'
        BY <2>1, <3>1, <3>2 DEF Conclusions, Uploads, Delivered, VideoKept, JobInv
      <3> QED
        BY <2>1, <2>2, <3>1, <3>2, <3>3, FrameKept DEF Goes, JobStep, SentGrows
    <2>3. ASSUME NEW images, NEW sound \in {<<>>, <<AudioOf(1)>>}, files' = images \o sound,
                 \/ Fail("errors.generic") /\ UNCHANGED call
                 \/ SendPhotoAlbum(images) /\ Goto("carousel"),
                 UNCHANGED videoVars
          PROVE  JobStep
      <3>1. VideoShape'
        BY <2>3, FrameKept
      <3>2. CASE Fail("errors.generic") /\ UNCHANGED call
        BY <2>1, <3>1, <3>2, FailEnds
      <3>3. CASE SendPhotoAlbum(images) /\ Goto("carousel")
        <4>1. IsCall(call)' /\ (images # <<>> => call'.result = "pending")
          BY <3>3, CallShapes
        <4>2. CASE images # <<>>
          BY <2>1, <3>1, <3>3, <4>1, <4>2, AskGoes DEF Albums
        <4>3. CASE images = <<>>
          <5>1. NoImage'
            BY <2>3, <4>3, NoImageAlone
          <5>2. pc' = "carousel" /\ UNCHANGED <<kind, task, attempt, row>>
            BY <3>3 DEF Goto
          <5>3. Conclusions' /\ VideoKept'
            BY <2>1, <5>1, <5>2 DEF Conclusions, Uploads, Delivered, VideoKept, JobInv
          <5> QED
            BY <2>1, <3>1, <4>1, <5>2, <5>3, FrameKept DEF Goes, JobStep, SentGrows
        <4> QED
          BY <4>2, <4>3
      <3> QED
        BY <2>3, <3>2, <3>3
    <2> QED
      BY <1>4, <2>2, <2>3 DEF TikTokDownloaded
  <1>5. CASE ensureAudio
    <2>1. task = "run" /\ pc = "mux" /\ UNCHANGED <<sent, call, loop, article>> /\ Goto("sar")
      BY <1>5 DEF ensureAudio, At, mediaVars
    <2>2. VideoShape /\ disk[cur] > 0 /\ \E n \in Names : disk[n] > 0
      BY <2>1 DEF JobInv, Records, VideoKept, VideoShape
    <2>3. VideoShape' /\ \E n \in Names : disk'[n] > 0
      BY <1>5, <2>2, PassKeeps DEF ensureAudio
    <2> QED
      BY <2>1, <2>3, PassGoes
  <1>6. CASE TikTokSquare
    <2>1. task = "run" /\ pc = "sar" /\ UNCHANGED <<sent, call, loop, article>> /\ Goto("send")
      BY <1>6 DEF TikTokSquare, At, mediaVars
    <2>2. VideoShape /\ \E n \in Names : disk[n] > 0
      BY <2>1 DEF JobInv, Records, VideoKept
    <2>3. VideoShape'
      BY <1>6, <2>2, PassKeeps DEF TikTokSquare
    <2> QED
      BY <2>1, <2>3, QuietGoes, FrameKept DEF Quiet
  <1>7. CASE TikTokSend
    <2>1. task = "run" /\ UNCHANGED <<sent, loop, videoVars, article>> /\ VideoShape' /\ Goto("tiksent")
      BY <1>7, FrameKept DEF TikTokSend, At
    <2>2. IsCall(call)' /\ call'.result = "pending"
      BY <1>7, CallShapes DEF TikTokSend
    <2> QED
      BY <2>1, <2>2, AskGoes DEF Uploads
  <1>8. CASE TikTokSent
    BY <1>8, AnswerEnds DEF TikTokSent, Returned, At, Uploads
  <1>9. CASE TikTokCarouselSent
    <2>1. /\ task = "run" /\ pc = "carousel" /\ kind = "tiktok"
          /\ UNCHANGED <<files, sent, loop, videoVars, article>> /\ VideoShape'
      BY <1>9, FrameKept DEF TikTokCarouselSent, Returned, At, TikTok
    <2>2. call.result = "ok" => Delivered \/ NoImage
      BY <2>1 DEF JobInv, Conclusions, Answered
    <2>3. \/ Fail("errors.generic") /\ UNCHANGED call
          \/ call.result = "ok" /\ Complete /\ UNCHANGED call
          \/ call.result = "ok" /\ Goto("sound") /\ \E f : SendAudio(f)
      BY <1>9 DEF TikTokCarouselSent
    <2>4. CASE call.result = "ok" /\ Goto("sound") /\ \E f : SendAudio(f)
      <3>1. IsCall(call)'
        BY <2>4, CallShapes
      <3>2. pc' = "sound" /\ UNCHANGED <<kind, task, attempt, row>>
        BY <2>4 DEF Goto
      <3>3. Conclusions' /\ VideoKept'
        BY <2>1, <2>2, <2>4, <3>2 DEF Conclusions, Uploads, Delivered, NoImage, VideoKept, JobInv
      <3> QED
        BY <2>1, <3>1, <3>2, <3>3, FrameKept DEF Goes, JobStep, SentGrows
    <2> QED
      BY <2>1, <2>2, <2>3, <2>4, FailEnds, CompleteEnds
  <1>10. CASE TikTokSound
    <2>1. /\ task = "run" /\ pc = "sound" /\ kind = "tiktok" /\ Complete
          /\ UNCHANGED <<files, sent, call, loop, article>> /\ VideoShape'
      BY <1>10, FrameKept DEF TikTokSound, Returned, At, TikTok, mediaVars
    <2>2. Delivered \/ NoImage
      BY <2>1 DEF JobInv, Conclusions
    <2> QED
      BY <2>1, <2>2, CompleteEnds
  <1> QED
    BY <1>1, <1>2, <1>3, <1>4, <1>5, <1>6, <1>7, <1>8, <1>9, <1>10 DEF TikTokNext

\* The cut leaves at least one photo.
LEMMA CutLeavesSome == ASSUME NEW images, images # <<>> PROVE CutPhotos(images) # <<>>
  <1>1. MaxItems \in Nat /\ MaxItems >= 1
    BY JobAssumption
  <1>2. [i \in 1..MaxItems |-> images[i]] # <<>>
    <2>1. 1 \in DOMAIN [i \in 1..MaxItems |-> images[i]]
      BY <1>1
    <2>2. DOMAIN <<>> = {}
      OBVIOUS
    <2> QED
      BY <2>1, <2>2, Zenon
  <1> QED
    BY <1>2 DEF CutPhotos

LEMMA InstagramSteps == ASSUME JobInv, InstagramNext, UNCHANGED article PROVE JobStep
  <1>1. CASE InstagramStart
    BY <1>1, BeginSteps DEF InstagramStart, Quiet
  <1>2. CASE InstagramFailed
    <2>1. task = "run" /\ UNCHANGED <<sent, call, loop, article, videoVars>> /\ VideoShape'
      BY <1>2, FrameKept DEF InstagramFailed, At, mediaVars
    <2> QED
      BY <1>2, <2>1, DownloadFailedSteps DEF InstagramFailed
  <1>3. CASE runInstagram
    <2>1. task = "run" /\ UNCHANGED <<sent, loop, videoVars, article>> /\ VideoShape'
      BY <1>3, FrameKept DEF runInstagram, At
    <2>2. \/ Fail("instagram.no_media") /\ UNCHANGED call
          \/ Goto("insta") /\ \E f : SendFile(f)
          \/ Goto("insta") /\ \E images : images # <<>> /\ SendPhotoAlbum(CutPhotos(images))
      BY <1>3 DEF runInstagram
    <2>3. CASE Fail("instagram.no_media") /\ UNCHANGED call
      BY <2>1, <2>3, FailEnds
    <2>4. CASE \/ Goto("insta") /\ \E f : SendFile(f)
               \/ Goto("insta") /\ \E images : images # <<>> /\ SendPhotoAlbum(CutPhotos(images))
      <3>1. IsCall(call)' /\ call'.result = "pending"
        BY <2>4, CallShapes, CutLeavesSome
      <3> QED
        BY <2>1, <2>4, <3>1, AskGoes DEF Uploads
    <2> QED
      BY <2>2, <2>3, <2>4
  <1>4. CASE InstagramSent
    <2>1. task = "run" /\ pc = "insta" /\ kind = "instagram"
      BY <1>4 DEF InstagramSent, Returned, At, Instagram
    <2>2. call.result = "ok" => Delivered
      BY <2>1 DEF JobInv, Conclusions, Answered, Uploads
    <2> QED
      BY <1>4, <2>1, <2>2, DeletedEnds DEF InstagramSent
  <1> QED
    BY <1>1, <1>2, <1>3, <1>4 DEF InstagramNext

-----------------------------------------------------------------------------
(* Reddit threads and their articles.                                        *)

\* The task ends with media in the chat, with its article, or with an error.
LEMMA ArticleSteps == ASSUME JobInv, deliverRedditArticle PROVE JobStep
  <1>1. /\ task = "run" /\ kind = "reddit" /\ article = "none"
        /\ UNCHANGED <<files, sent, call, loop, disk, cur>>
    BY DEF deliverRedditArticle, At, Reddit, JobInv, mediaVars, videoVars
  <1>2. loop.any => Delivered
    BY DEF JobInv, Conclusions
  <1>3. \/ ~loop.any /\ Fail("errors.generic") /\ article' \in {"none", "published"}
        \/ ~loop.any /\ Fail("reddit.no_content") /\ article' = "none"
        \/ ~loop.any /\ Return("completed", "article") /\ article' = "shown"
        \/ loop.any /\ Return("completed", "errors.generic") /\ article' \in {"none", "published"}
        \/ loop.any /\ Return("completed", "deleted") /\ article' \in {"none", "shown"}
    BY <1>1 DEF deliverRedditArticle, Finish
  <1>4. /\ task' = "done" /\ pc' = "end" /\ UNCHANGED <<kind, attempt>>
        /\ row' \in {"failed", "completed"}
        /\ status' \in {"errors.generic", "reddit.no_content", "article", "deleted"}
        /\ status' = "deleted" => loop.any
        /\ article' = "published" => status' = "errors.generic"
        /\ row' = "completed" => loop.any \/ article' = "shown"
    BY <1>3 DEF Fail, Return
  <1>5. loop.any \/ article' = "shown" => Shown'
    BY <1>1, <1>2 DEF Shown, Delivered
  <1>6. EndIsTold'
    BY <1>4, <1>5 DEF EndIsTold
  <1>7. VideoShape'
    BY <1>1 DEF JobInv, Records, VideoShape
  <1> QED
    BY <1>1, <1>4, <1>6, <1>7 DEF Ends, JobStep

LEMMA RedditSteps == ASSUME JobInv, RedditNext PROVE JobStep
  <1>1. CASE RedditStart
    BY <1>1, BeginSteps DEF RedditStart, Quiet
  <1>2. CASE RedditFailed
    <2>1. task = "run" /\ UNCHANGED <<sent, call, loop, article, videoVars>> /\ VideoShape'
      BY <1>2, FrameKept DEF RedditFailed, At, mediaVars
    <2>2. Fail("errors.not_found") \/ Fail("errors.rate_limited") \/ Fail("errors.generic")
      BY <1>2 DEF RedditFailed
    <2> QED
      BY <2>1, <2>2, FailEnds
  <1>3. CASE RedditThread
    <2>1. /\ task = "run" /\ UNCHANGED <<sent, call, article, videoVars>> /\ Goto("items")
          /\ \E fs : loop' = [NoLoop EXCEPT !.items = fs]
      BY <1>3 DEF RedditThread, At
    <2>2. IsLoop(loop)' /\ ~loop'.any
      BY <2>1, LoopStarts, LoopKept
    <2> QED
      BY <2>1, <2>2, FrameKept, QuietGoes DEF Quiet
  <1>4. CASE RedditItem
    <2>1. task = "run" /\ pc = "items" /\ UNCHANGED <<kind, task, attempt, row, sent, videoVars, article>>
      BY <1>4 DEF RedditItem, Returned, At
    <2>2. \/ /\ pc' = pc /\ UNCHANGED call
             /\ \/ \E x : loop' = [loop EXCEPT !.items = x]
                \/ \E x, y, z : loop' = [loop EXCEPT !.items = x, !.images = y, !.handled = z]
          \/ pc' = "itemsent" /\ UNCHANGED loop /\ \E f : SendFile(f)
      BY <1>4 DEF RedditItem
    <2>3. \A x : loop' = [loop EXCEPT !.items = x] => IsLoop(loop)' /\ loop'.any = loop.any
      BY LoopGoesOn
    <2>4. \A x, y, z : loop' = [loop EXCEPT !.items = x, !.images = y, !.handled = z]
                          => IsLoop(loop)' /\ loop'.any = loop.any
      <3> SUFFICES ASSUME NEW x, NEW y, NEW z,
                          loop' = [loop EXCEPT !.items = x, !.images = y, !.handled = z]
                   PROVE  IsLoop(loop)' /\ loop'.any = loop.any
        OBVIOUS
      <3> QED
        BY LoopGoesOn
    <2> QED
      BY <2>1, <2>2, <2>3, <2>4, ItemSteps
  <1>5. CASE RedditItemSent
    <2>1. task = "run" /\ pc = "itemsent" /\ Goto("items") /\ UNCHANGED <<sent, call, videoVars, article>>
      BY <1>5 DEF RedditItemSent, Returned, At
    <2>2. PICK x, b, z : /\ b = (loop.any \/ call.result = "ok")
                         /\ loop' = [loop EXCEPT !.items = x, !.any = b, !.handled = z]
      BY <1>5 DEF RedditItemSent
    <2>3. b \in BOOLEAN
      BY <2>2
    <2>4. IsLoop(loop)' /\ loop'.any = b
      BY <2>2, <2>3, LoopGoesOn
    <2> QED
      BY <2>1, <2>2, <2>4, ItemSentSteps
  <1>6. CASE RedditAlbum
    BY <1>6, AlbumSteps DEF RedditAlbum, Returned, At, Reddit
  <1>7. CASE RedditAlbumSent
    <2>1. /\ task = "run" /\ pc = "album" /\ kind = "reddit" /\ Goto("article")
          /\ UNCHANGED <<sent, call, videoVars, article>>
      BY <1>7 DEF RedditAlbumSent, Returned, At, Reddit
    <2>2. PICK b : /\ b = (loop.any \/ (loop.images # <<>> /\ call.result = "ok"))
                   /\ loop' = [loop EXCEPT !.any = b]
      BY <1>7 DEF RedditAlbumSent
    <2>3. b \in BOOLEAN
      BY <2>2
    <2>4. IsLoop(loop)' /\ loop'.any = b
      BY <2>2, <2>3, LoopGoesOn
    <2>5. b => Delivered
      BY <2>1, <2>2 DEF JobInv, Conclusions, Answered
    <2> QED
      BY <2>1, <2>4, <2>5, FrameKept, QuietGoes DEF Quiet
  <1>8. CASE deliverRedditArticle
    BY <1>8, ArticleSteps
  <1> QED
    BY <1>1, <1>2, <1>3, <1>4, <1>5, <1>6, <1>7, <1>8 DEF RedditNext

\* The task behind the translation button writes no row.
LEMMA TranslateSteps == ASSUME JobInv, TranslateNext PROVE JobStep
  <1>1. /\ task = "run" /\ kind = "translate" /\ UNCHANGED <<sent, call, loop, article, videoVars>>
        /\ VideoShape' /\ IsCall(call)' /\ IsLoop(loop)'
    BY FrameKept DEF TranslateNext, TranslateStart, translateBlock, handleTelegraphTranslate,
                     At, Translate, translateFrame, mediaVars
  <1>2. ASSUME NEW notice \in {"errors.generic", "article_ru", "telegraph.failed", "article"},
               Return("none", notice)
        PROVE  JobStep
    <2>1. /\ task' = "done" /\ pc' = "end" /\ row' = "none" /\ status' = notice
          /\ UNCHANGED <<kind, attempt>>
      BY <1>2 DEF Return
    <2>2. EndIsTold'
      BY <1>1, <2>1 DEF EndIsTold
    <2> QED
      BY <1>1, <2>1, <2>2 DEF Ends, JobStep
  <1>3. CASE TranslateStart
    BY <1>1, <1>2, <1>3, FrameKept, QuietGoes DEF TranslateStart, Quiet
  <1>4. CASE translateBlock
    <2>1. /\ pc = "pieces" /\ UNCHANGED <<kind, task, attempt, pc, row>>
      BY <1>4 DEF translateBlock, At, jobVars
    <2>2. Conclusions' /\ VideoKept'
      BY <1>1, <2>1 DEF Conclusions, Uploads, Delivered, VideoKept, JobInv
    <2> QED
      BY <1>1, <2>1, <2>2 DEF Goes, JobStep, SentGrows
  <1>5. CASE handleTelegraphTranslate
    BY <1>2, <1>5 DEF handleTelegraphTranslate
  <1> QED
    BY <1>3, <1>4, <1>5 DEF TranslateNext

-----------------------------------------------------------------------------
(* The whole task.                                                           *)
LEMMA BodySteps == ASSUME JobInv, Body PROVE JobStep
  BY SenderSteps, YouTubeSteps, LinkSteps, PinterestSteps, TikTokSteps, InstagramSteps,
     RedditSteps, TranslateSteps DEF Body

LEMMA CrashSteps == ASSUME JobInv, Crash, UNCHANGED article PROVE JobStep
  <1>1. UNCHANGED <<sent, call, loop, article>> /\ VideoShape'
    BY FrameKept DEF Crash, mediaVars
  <1> QED
    BY <1>1, ErrorGivesUp DEF Crash

\* The second attempt starts from nothing but the chat and the placeholder.
LEMMA AgainSteps ==
  ASSUME JobInv, Again, UNCHANGED article
  PROVE  JobInv' /\ [Promise!Next]_<<task, attempt, Shown, row>>
  <1>1. /\ task = "retry" /\ attempt = 1 /\ row = "none" /\ article = "none"
        /\ task' = "run" /\ attempt' = 2 /\ pc' = "start" /\ UNCHANGED <<kind, row, sent, article>>
    BY DEF Again, JobInv
  <1>2. call' = Idle /\ loop' = NoLoop /\ disk' = NoDisk /\ cur' = "mp4"
    BY DEF Again
  <1>3. Records'
    <2>1. IsCall(call)'
      BY <1>2, CallShapes DEF IsCall
    <2>2. IsLoop(loop)' /\ ~loop'.any
      BY <1>2, LoopStarts, LoopKept
    <2>3. VideoShape'
      BY <1>2 DEF VideoShape, NoDisk, Names
    <2> QED
      BY <1>1, <2>1, <2>2, <2>3 DEF JobInv, Records, IsSeq
  <1>4. Conclusions' /\ VideoKept'
    <2>1. ~loop'.any
      BY <1>2, LoopStarts, LoopKept
    <2> QED
      BY <1>1, <2>1 DEF Conclusions, Uploads, VideoKept
  <1>5. JobInv'
    BY <1>1, <1>3, <1>4 DEF JobInv
  <1>6. Shown' = Shown
    BY <1>1 DEF Shown, SoundLost
  <1> QED
    BY <1>1, <1>5, <1>6 DEF Promise!Next, Promise!Again

LEMMA InitKeeps == ASSUME Init PROVE JobInv /\ Promise!Init
  <1>1. /\ task = "run" /\ attempt = 1 /\ pc = "start" /\ row = "none" /\ article = "none"
        /\ sent = <<>> /\ call = Idle /\ loop = NoLoop /\ disk = NoDisk /\ cur = "mp4"
    BY DEF Init, JobInit
  <1>2. IsSeq(sent)
    <2>1. sent \in Seq({})
      BY <1>1
    <2> QED
      BY <2>1 DEF IsSeq
  <1>3. IsCall(call) /\ IsLoop(loop) /\ ~loop.any
    BY <1>1, CallShapes, LoopStarts
  <1>4. VideoShape
    BY <1>1 DEF VideoShape, NoDisk, Names
  <1>5. Conclusions /\ VideoKept
    BY <1>1, <1>3 DEF Conclusions, Uploads, VideoKept
  <1>6. JobInv
    BY <1>1, <1>2, <1>3, <1>4, <1>5 DEF JobInv, Records
  <1>7. Shown = FALSE
    BY <1>1 DEF Shown, SoundLost
  <1> QED
    BY <1>1, <1>6, <1>7 DEF Promise!Init

\* Every step of the specification keeps the invariant and is one of the promise.
LEMMA NextKeeps ==
  ASSUME JobInv, [Next]_vars
  PROVE  JobInv' /\ [Promise!Next]_<<task, attempt, Shown, row>>
  <1>1. CASE Body
    BY <1>1, BodySteps, StepKeeps, StepPromised
  <1>2. CASE Again /\ UNCHANGED article
    BY <1>2, AgainSteps
  <1>3. CASE Crash /\ UNCHANGED article
    BY <1>3, CrashSteps, StepKeeps, StepPromised
  <1>4. CASE UNCHANGED vars
    <2>1. UNCHANGED <<kind, task, attempt, pc, status, row, files, sent, call, loop, disk, cur, article>>
      BY <1>4 DEF vars, jobVars, mediaVars, videoVars
    <2>2. Records' /\ Conclusions' /\ VideoKept'
      BY <2>1 DEF JobInv, Records, IsSeq, IsCall, IsLoop, VideoShape, Conclusions, Delivered,
                  Answered, NoImage, VideoKept
    <2>3. EndIsTold => EndIsTold'
      BY <2>1 DEF EndIsTold, Shown, SoundLost, Silent
    <2>4. JobInv'
      BY <2>1, <2>2, <2>3 DEF JobInv
    <2>5. Shown' = Shown
      BY <2>1 DEF Shown, SoundLost
    <2> QED
      BY <2>1, <2>4, <2>5
  <1> QED
    BY <1>1, <1>2, <1>3, <1>4 DEF Next

\* What the bodies rely on holds in every state, whatever the programs and
\* services they call answer and wherever the worker dies.
THEOREM BodiesKeepInvariant == Spec => []JobInv
  <1>1. Init => JobInv
    BY InitKeeps
  <1>2. JobInv /\ [Next]_vars => JobInv'
    BY NextKeeps
  <1> QED
    BY <1>1, <1>2, PTL DEF Spec

\* Every body implements the promise: at most two attempts, one row at most, and
\* "completed" only after something reached the chat.
THEOREM BodiesKeepPromise == Spec => KeepsPromise
  <1>1. Init => Promise!Init
    BY InitKeeps
  <1>2. JobInv /\ [Next]_vars => [Promise!Next]_<<task, attempt, Shown, row>>
    BY NextKeeps
  <1> QED
    BY <1>1, <1>2, BodiesKeepInvariant, PTL DEF Spec, KeepsPromise, Promise!Spec

\* No task that ended leaves the user with a placeholder, or without it and with
\* nothing to see.
THEOREM UsersAreAnswered == Spec => []AnsweredAtEnd
  <1>1. JobInv => AnsweredAtEnd
    BY DEF JobInv, EndIsTold, AnsweredAtEnd
  <1> QED
    BY <1>1, BodiesKeepInvariant, PTL

\* No pass over a video loses it, whichever of its removes and renames fail.
THEOREM VideosAreKept == Spec => []VideoNeverLost
  <1>1. JobInv => VideoNeverLost
    BY DEF JobInv, Records, VideoShape, VideoKept, VideoNeverLost
  <1> QED
    BY <1>1, BodiesKeepInvariant, PTL
-----------------------------------------------------------------------------
(* Induction, stated over a set of numbers: the library's own theorems take   *)
(* a predicate, which cannot be instantiated here.                           *)
\* Every set of numbers that is not empty has a least one.
LEMMA LeastNumber ==
    ASSUME NEW T, T \subseteq Nat, T # {} PROVE \E n \in T : \A m \in T : n <= m
  <1>1. PICK R : R = OpToRel(<, Nat)
    OBVIOUS
  <1>2. IsWellFoundedOn(R, Nat)
    BY <1>1, NatLessThanWellFounded
  <1>3. PICK n \in T : \A m \in T : ~(<<m, n>> \in R)
    BY <1>2, WFMin
  <1>4. \A m \in T : m < n => <<m, n>> \in R
    BY <1>1 DEF OpToRel
  <1>5. \A m \in T : ~(m < n)
    BY <1>3, <1>4
  <1>6. \A m \in T : m \in Nat /\ n \in Nat
    OBVIOUS
  <1> QED
    BY <1>5, <1>6

\* Induction from n to n + 1.
LEMMA CountingUp ==
    ASSUME NEW T, 0 \in T, \A n \in Nat : n \in T => n + 1 \in T
    PROVE  Nat \subseteq T
  <1>1. SUFFICES ASSUME NEW k \in Nat, k \notin T PROVE FALSE
    OBVIOUS
  <1>2. PICK n \in Nat \ T : \A m \in Nat \ T : n <= m
    BY <1>1, LeastNumber
  <1>3. n # 0 /\ n - 1 \in Nat
    BY <1>2
  <1>4. n - 1 \in T
    BY <1>2, <1>3
  <1> QED
    BY <1>2, <1>3, <1>4

\* Induction from all smaller numbers.
LEMMA FromSmaller ==
    ASSUME NEW T, \A n \in Nat : (\A m \in Nat : m < n => m \in T) => n \in T
    PROVE  Nat \subseteq T
  <1>1. SUFFICES ASSUME NEW k \in Nat, k \notin T PROVE FALSE
    OBVIOUS
  <1>2. PICK n \in Nat \ T : \A m \in Nat \ T : n <= m
    BY <1>1, LeastNumber
  <1> QED
    BY <1>2

(* f is what step makes of x, over and over.                                 *)
Iterates(f, S, x, step) ==
    f \in [Nat -> S] /\ f[0] = x /\ \A n \in Nat : f[n + 1] = step[n][f[n]]

\* Recursion over numbers defines a function.
LEMMA Iterated ==
    ASSUME NEW S, NEW x, x \in S, NEW step, step \in [Nat -> [S -> S]]
    PROVE  \E f : Iterates(f, S, x, step)
  <1> DEFINE Part(n, f) == /\ f \in [0..n -> S] /\ f[0] = x
                           /\ \A m \in Nat : m < n => f[m + 1] = step[m][f[m]]
             T == {n \in Nat : \E f : Part(n, f)}
  <1>1. 0 \in T
    <2>1. Part(0, [i \in 0..0 |-> x])
      OBVIOUS
    <2> QED
      BY <2>1
  <1>2. ASSUME NEW n \in Nat, n \in T PROVE n + 1 \in T
    <2>1. PICK f : Part(n, f)
      BY <1>2
    <2>2. PICK g : g = [i \in 0..(n + 1) |-> IF i = n + 1 THEN step[n][f[n]] ELSE f[i]]
      OBVIOUS
    <2>3. f[n] \in S
      BY <2>1
    <2>4. g \in [0..(n + 1) -> S] /\ g[0] = x
      BY <2>1, <2>2, <2>3
    <2>5. ASSUME NEW m \in Nat, m < n + 1 PROVE g[m + 1] = step[m][g[m]]
      <3>1. g[m] = f[m]
        BY <2>2, <2>5
      <3>2. CASE m = n
        BY <3>1, <3>2, <2>2
      <3>3. CASE m < n
        BY <3>1, <3>3, <2>1, <2>2
      <3> QED
        BY <3>2, <3>3, <2>5
    <2> QED
      BY <2>4, <2>5
  <1>3. Nat \subseteq T
    <2> HIDE DEF T
    <2> QED
      BY <1>1, <1>2, CountingUp
  <1>4. ASSUME NEW n \in Nat, NEW k \in Nat, NEW f, NEW g, n <= k, Part(n, f), Part(k, g)
        PROVE  f[n] = g[n]
    <2> DEFINE U == {m \in Nat : m <= n => f[m] = g[m]}
    <2>1. 0 \in U
      BY <1>4
    <2>2. ASSUME NEW m \in Nat, m \in U PROVE m + 1 \in U
      <3>1. SUFFICES ASSUME m + 1 <= n PROVE f[m + 1] = g[m + 1]
        OBVIOUS
      <3>2. f[m] = g[m]
        BY <3>1, <2>2
      <3>3. m < n /\ m < k
        BY <3>1, <1>4
      <3> QED
        BY <3>2, <3>3, <1>4
    <2>3. Nat \subseteq U
      <3> HIDE DEF U
      <3> QED
        BY <2>1, <2>2, CountingUp
    <2> QED
      BY <2>3
  <1>5. PICK G : G = [n \in Nat |-> CHOOSE f : Part(n, f)]
    OBVIOUS
  <1>6. \A n \in Nat : Part(n, G[n])
    <2>1. ASSUME NEW n \in Nat PROVE Part(n, G[n])
      <3>1. \E f : Part(n, f)
        BY <1>3
      <3>2. G[n] = CHOOSE f : Part(n, f)
        BY <1>5
      <3> HIDE DEF Part
      <3> QED
        BY <3>1, <3>2
    <2> QED
      BY <2>1
  <1>7. PICK F : F = [n \in Nat |-> G[n][n]]
    OBVIOUS
  <1>8. F \in [Nat -> S] /\ F[0] = x
    BY <1>6, <1>7
  <1>9. ASSUME NEW n \in Nat PROVE F[n + 1] = step[n][F[n]]
    <2>1. Part(n, G[n]) /\ Part(n + 1, G[n + 1])
      BY <1>6
    <2>2. G[n][n] = G[n + 1][n]
      <3> HIDE DEF Part
      <3> QED
        BY <2>1, <1>4
    <2>3. G[n + 1][n + 1] = step[n][G[n + 1][n]]
      BY <2>1
    <2> QED
      BY <2>2, <2>3, <1>7
  <1> QED
    BY <1>8, <1>9 DEF Iterates
(* f unfolds by next until it comes to a leaf.                               *)
Shrinks(f, D, V, leaf, base, next, comb) ==
    f \in [D -> V] /\ \A d \in D : f[d] = IF d \in leaf THEN base[d] ELSE comb[<<d, f[next[d]]>>]

\* Recursion over anything whose size shrinks defines a function.
LEMMA ShrinkingDefined ==
    ASSUME NEW D, NEW V, NEW size, size \in [D -> Nat], NEW leaf,
           NEW base, base \in [D -> V], NEW next, next \in [D -> D],
           NEW comb, comb \in [D \X V -> V],
           \A d \in D : d \notin leaf => size[next[d]] < size[d]
    PROVE  \E f : Shrinks(f, D, V, leaf, base, next, comb)
  <1> DEFINE Unfold(g) == [d \in D |-> IF d \in leaf THEN base[d] ELSE comb[<<d, g[next[d]]>>]]
  <1>1. PICK U : U = [g \in [D -> V] |-> Unfold(g)]
    OBVIOUS
  <1>2. U \in [[D -> V] -> [D -> V]]
    BY <1>1
  <1>3. PICK step : step = [n \in Nat |-> U]
    OBVIOUS
  <1>4. PICK F : Iterates(F, [D -> V], base, step)
    <2>1. PICK S : S = [D -> V]
      OBVIOUS
    <2>2. step \in [Nat -> [S -> S]] /\ base \in S
      BY <1>2, <1>3, <2>1
    <2> QED
      BY <2>1, <2>2, Iterated
  <1>5. ASSUME NEW n \in Nat PROVE F[n + 1] = Unfold(F[n])
    <2>1. F[n + 1] = U[F[n]]
      BY <1>4, <1>3 DEF Iterates
    <2> QED
      BY <2>1, <1>1, <1>4 DEF Iterates
  <1> DEFINE T == {n \in Nat : \A d \in D : size[d] <= n => F[n + 1][d] = F[n][d]}
  <1>6. Nat \subseteq T
    <2>1. 0 \in T
      <3>1. ASSUME NEW d \in D, size[d] <= 0 PROVE F[0 + 1][d] = F[0][d]
        <4>1. d \in leaf
          BY <3>1
        <4>2. F[0 + 1] = Unfold(F[0])
          BY <1>5
        <4> QED
          BY <4>1, <4>2, <1>4 DEF Iterates
      <3> QED
        BY <3>1
    <2>2. ASSUME NEW n \in Nat, n \in T PROVE n + 1 \in T
      <3>1. ASSUME NEW d \in D, size[d] <= n + 1 PROVE F[(n + 1) + 1][d] = F[n + 1][d]
        <4>1. F[n + 1] = Unfold(F[n]) /\ F[(n + 1) + 1] = Unfold(F[n + 1])
          BY <1>5
        <4>2. CASE d \in leaf
          BY <4>1, <4>2
        <4>3. CASE d \notin leaf
          <5>1. size[next[d]] <= n /\ next[d] \in D
            BY <4>3, <3>1
          <5>2. F[n + 1][next[d]] = F[n][next[d]]
            BY <5>1, <2>2
          <5>3. F[n + 1][d] = comb[<<d, F[n][next[d]]>>]
            BY <4>1, <4>3
          <5>4. F[(n + 1) + 1][d] = comb[<<d, F[n + 1][next[d]]>>]
            BY <4>1, <4>3
          <5> QED
            BY <5>2, <5>3, <5>4
        <4> QED
          BY <4>2, <4>3
      <3> QED
        BY <3>1
    <2> HIDE DEF T
    <2> QED
      BY <2>1, <2>2, CountingUp
  <1> DEFINE W == {n \in Nat : \A d \in D : size[d] <= n => F[n][d] = F[size[d]][d]}
  <1>7. Nat \subseteq W
    <2>1. 0 \in W
      <3>1. \A d \in D : size[d] <= 0 => size[d] = 0
        OBVIOUS
      <3> QED
        BY <3>1
    <2>2. ASSUME NEW n \in Nat, n \in W PROVE n + 1 \in W
      <3>1. ASSUME NEW d \in D, size[d] <= n + 1 PROVE F[n + 1][d] = F[size[d]][d]
        <4>1. CASE size[d] = n + 1
          BY <4>1
        <4>2. CASE size[d] <= n
          BY <4>2, <1>6, <2>2
        <4> QED
          BY <4>1, <4>2, <3>1
      <3> QED
        BY <3>1
    <2> HIDE DEF W
    <2> QED
      BY <2>1, <2>2, CountingUp
  <1>8. PICK f : f = [d \in D |-> F[size[d]][d]]
    OBVIOUS
  <1>9. f \in [D -> V]
    BY <1>4, <1>8 DEF Iterates
  <1>10. ASSUME NEW d \in D
         PROVE  f[d] = IF d \in leaf THEN base[d] ELSE comb[<<d, f[next[d]]>>]
    <2>1. CASE d \in leaf
      <3>1. CASE size[d] = 0
        BY <3>1, <2>1, <1>4, <1>8 DEF Iterates
      <3>2. CASE size[d] # 0
        <4>1. size[d] - 1 \in Nat /\ (size[d] - 1) + 1 = size[d]
          BY <3>2
        <4>2. F[size[d]] = Unfold(F[size[d] - 1])
          BY <4>1, <1>5
        <4> QED
          BY <4>2, <2>1, <1>8
      <3> QED
        BY <3>1, <3>2
    <2>2. CASE d \notin leaf
      <3>1. size[d] - 1 \in Nat /\ (size[d] - 1) + 1 = size[d] /\ size[next[d]] <= size[d] - 1
        BY <2>2
      <3>2. F[size[d]] = Unfold(F[size[d] - 1])
        BY <3>1, <1>5
      <3>3. F[size[d] - 1][next[d]] = F[size[next[d]]][next[d]]
        BY <3>1, <1>7
      <3> QED
        BY <3>2, <3>3, <2>2, <1>8
    <2> QED
      BY <2>1, <2>2
  <1> QED
    BY <1>9, <1>10 DEF Shrinks
-----------------------------------------------------------------------------
(* The pieces of chunkRunes put together are the text.                       *)
Strings == Seq(Letters)
\* chunkRunes takes at least one rune and at most a window from a long text.
LEMMA CutInside == ASSUME NEW r PROVE CutAt(r) \in 1..MaxChunk
  <1>1. PICK S : S = Spaces(r)
    OBVIOUS
  <1>a. MaxChunk \in Nat /\ MaxChunk > 1
    BY TextAssumption
  <1>b. PICK h \in Nat : h = MaxChunk \div 2
    BY <1>a
  <1>2. S \subseteq 1..MaxChunk
    <2>1. S \subseteq (h + 1)..MaxChunk
      BY <1>1, <1>b DEF Spaces
    <2> QED
      BY <2>1, <1>a, <1>b
  <1>c. CutAt(r) = IF S = {} THEN MaxChunk ELSE CHOOSE i \in S : \A j \in S : j <= i
    BY <1>1 DEF CutAt
  <1>3. CASE S = {}
    BY <1>c, <1>3, <1>a
  <1>4. CASE S # {}
    <2>1. \E i \in S : \A j \in S : j <= i
      <3>1. PICK T : T = {k \in Nat : \A j \in S : j <= k}
        OBVIOUS
      <3>2. MaxChunk \in T /\ T \subseteq Nat
        BY <1>2, <3>1, TextAssumption
      <3>3. PICK n \in T : \A m \in T : n <= m
        BY <3>2, LeastNumber
      <3>4. CASE n \in S
        BY <3>3, <3>4, <3>1
      <3>5. CASE n \notin S
        <4>1. \A j \in S : j <= n - 1 /\ j \in Nat
          BY <3>5, <3>3, <3>1, <1>2, TextAssumption
        <4>a. \A k \in S : k \in Nat /\ k >= 1
          BY <1>2, <1>a
        <4>2. PICK j : j \in S /\ j \in Nat /\ j >= 1
          BY <1>4, <4>a
        <4>3. n \in Nat /\ n - 1 >= j
          BY <4>1, <4>2, <3>2, <3>3
        <4>4. n - 1 \in T
          BY <4>1, <4>2, <4>3, <3>1
        <4> QED
          BY <4>3, <4>4, <3>3
      <3> QED
        BY <3>4, <3>5
    <2>2. CutAt(r) = CHOOSE i \in S : \A j \in S : j <= i
      BY <1>c, <1>4
    <2>3. CutAt(r) \in S
      BY <2>1, <2>2
    <2> QED
      BY <2>3, <1>2
  <1> QED
    BY <1>3, <1>4

Piece(r) == SubSeq(r, 1, CutAt(r))
Rest(r) == SubSeq(r, CutAt(r) + 1, Len(r))

\* What one round of the loop of chunkRunes cuts off and what it leaves.
LEMMA PieceAndRest ==
    ASSUME NEW r \in Strings
    PROVE  /\ Rest(r) \in Strings
           /\ Len(r) > MaxChunk =>
                 /\ Piece(r) \in Strings /\ Len(Piece(r)) = CutAt(r) /\ Len(Rest(r)) = Len(r) - CutAt(r)
                 /\ \A i \in 1..CutAt(r) : Piece(r)[i] = r[i]
                 /\ \A i \in 1..(Len(r) - CutAt(r)) : Rest(r)[i] = r[i + CutAt(r)]
  <1>1. CutAt(r) \in 1..MaxChunk /\ MaxChunk \in Nat /\ Len(r) \in Nat
    BY CutInside, TextAssumption DEF Strings
  <1>2. Rest(r) \in Strings
    BY <1>1, SubSeqProperties DEF Strings, Rest
  <1>3. ASSUME Len(r) > MaxChunk
        PROVE  /\ Piece(r) \in Strings /\ Len(Piece(r)) = CutAt(r)
               /\ \A i \in 1..CutAt(r) : Piece(r)[i] = r[i]
    BY <1>1, <1>3, SubSeqProperties DEF Strings, Piece
  <1>4. ASSUME Len(r) > MaxChunk
        PROVE  /\ Len(Rest(r)) = Len(r) - CutAt(r)
               /\ \A i \in 1..(Len(r) - CutAt(r)) : Rest(r)[i] = r[i + CutAt(r)]
    BY <1>1, <1>4, SubSeqProperties DEF Strings, Rest
  <1> QED
    BY <1>2, <1>3, <1>4

\* The recursion of chunkRunes ends for every text, so its equation holds.
LEMMA ChunkEquation ==
    /\ chunkRunes \in [Strings -> Seq(Strings)]
    /\ \A r \in Strings : chunkRunes[r] =
          IF Len(r) <= MaxChunk THEN <<r>> ELSE <<Piece(r)>> \o chunkRunes[Rest(r)]
  <1>1. PICK V : V = Seq(Strings)
    OBVIOUS
  <1>2. PICK leaf : leaf = {r \in Strings : Len(r) <= MaxChunk}
    OBVIOUS
  <1>3. PICK size : size = [r \in Strings |-> Len(r)]
    OBVIOUS
  <1>4. PICK base : base = [r \in Strings |-> <<r>>]
    OBVIOUS
  <1>5. PICK next : next = [r \in Strings |-> Rest(r)]
    OBVIOUS
  <1>6. PICK comb : comb = [p \in Strings \X V |->
                              IF p[1] \in leaf THEN p[2] ELSE <<Piece(p[1])>> \o p[2]]
    OBVIOUS
  <1>7. size \in [Strings -> Nat] /\ base \in [Strings -> V] /\ next \in [Strings -> Strings]
    <2>1. size \in [Strings -> Nat]
      BY <1>3 DEF Strings
    <2>2. base \in [Strings -> V]
      BY <1>1, <1>4
    <2> QED
      BY <2>1, <2>2, <1>5, PieceAndRest
  <1>8. comb \in [Strings \X V -> V]
    <2>1. ASSUME NEW r \in Strings, NEW v \in V, r \notin leaf PROVE <<Piece(r)>> \o v \in V
      <3>1. Piece(r) \in Strings
        BY <2>1, <1>2, PieceAndRest, TextAssumption DEF Strings
      <3> QED
        BY <3>1, <1>1
    <2> QED
      BY <2>1, <1>6
  <1>9. ASSUME NEW d \in Strings, d \notin leaf PROVE size[next[d]] < size[d]
    <2>1. Len(d) > MaxChunk
      BY <1>9, <1>2, TextAssumption DEF Strings
    <2>2. Len(Rest(d)) = Len(d) - CutAt(d) /\ Rest(d) \in Strings
      BY <2>1, PieceAndRest
    <2> QED
      BY <2>2, <1>3, <1>5, CutInside, TextAssumption DEF Strings
  <1>10. PICK f : Shrinks(f, Strings, V, leaf, base, next, comb)
    BY <1>7, <1>8, <1>9, ShrinkingDefined
  <1>11. f \in [Strings -> V]
    BY <1>10 DEF Shrinks
  <1>12. ASSUME NEW r \in Strings
         PROVE  f[r] = IF Len(r) <= MaxChunk THEN <<r>> ELSE <<Piece(r)>> \o f[Rest(r)]
    <2>1. f[r] = IF r \in leaf THEN base[r] ELSE comb[<<r, f[next[r]]>>]
      BY <1>10 DEF Shrinks
    <2>2. CASE r \in leaf
      BY <2>1, <2>2, <1>2, <1>4
    <2>3. CASE r \notin leaf
      <3>1. next[r] = Rest(r) /\ Rest(r) \in Strings /\ f[Rest(r)] \in V
        BY <1>5, <1>11, PieceAndRest
      <3>2. comb[<<r, f[Rest(r)]>>] = <<Piece(r)>> \o f[Rest(r)]
        BY <1>6, <2>3, <3>1
      <3>3. ~(Len(r) <= MaxChunk)
        BY <1>2, <2>3
      <3> QED
        BY <2>1, <2>3, <3>1, <3>2, <3>3
    <2> QED
      BY <2>2, <2>3
  <1>13. f = [r \in Seq(Letters) |->
                IF Len(r) <= MaxChunk THEN <<r>>
                ELSE <<SubSeq(r, 1, CutAt(r))>> \o f[SubSeq(r, CutAt(r) + 1, Len(r))]]
    BY <1>11, <1>12 DEF Strings, Piece, Rest
  <1>14. chunkRunes = [r \in Seq(Letters) |->
                IF Len(r) <= MaxChunk THEN <<r>>
                ELSE <<SubSeq(r, 1, CutAt(r))>> \o chunkRunes[SubSeq(r, CutAt(r) + 1, Len(r))]]
    BY <1>13 DEF chunkRunes
  <1>15. ASSUME NEW r \in Strings
         PROVE  chunkRunes[r] = IF Len(r) <= MaxChunk THEN <<r>>
                                ELSE <<Piece(r)>> \o chunkRunes[Rest(r)]
    BY <1>14 DEF Strings, Piece, Rest
  <1> DEFINE T == {n \in Nat : \A r \in Strings : Len(r) = n => chunkRunes[r] = f[r]}
  <1>16. Nat \subseteq T
    <2>1. ASSUME NEW n \in Nat, \A m \in Nat : m < n => m \in T PROVE n \in T
      <3>1. SUFFICES ASSUME NEW r \in Strings, Len(r) = n PROVE chunkRunes[r] = f[r]
        OBVIOUS
      <3>2. CASE Len(r) <= MaxChunk
        BY <3>2, <1>12, <1>15
      <3>3. CASE ~(Len(r) <= MaxChunk)
        <4>1. Len(r) > MaxChunk /\ Len(r) \in Nat
          BY <3>3, TextAssumption DEF Strings
        <4>2. Rest(r) \in Strings /\ Len(Rest(r)) = Len(r) - CutAt(r)
          BY <4>1, PieceAndRest
        <4>3. Len(Rest(r)) \in Nat /\ Len(Rest(r)) < n
          BY <4>1, <4>2, <3>1, CutInside, TextAssumption
        <4>4. chunkRunes[Rest(r)] = f[Rest(r)]
          BY <4>2, <4>3, <2>1
        <4> QED
          BY <4>4, <3>3, <1>12, <1>15
      <3> QED
        BY <3>2, <3>3
    <2> HIDE DEF T
    <2> QED
      BY <2>1, FromSmaller
  <1>17. \A r \in Strings : chunkRunes[r] = f[r]
    BY <1>16 DEF Strings
  <1>18. chunkRunes = f
    BY <1>14, <1>17, <1>11 DEF Strings
  <1> QED
    BY <1>15, <1>18, <1>11, <1>1
(* j[n] is the text of the first n pieces.                                   *)
Joins(j, ps) ==
    /\ j \in [0..Len(ps) -> Strings] /\ j[0] = <<>>
    /\ \A n \in 1..Len(ps) : j[n] = j[n - 1] \o ps[n]

\* Joined is computed by running through the pieces.
LEMMA JoinDefined ==
    ASSUME NEW ps \in Seq(Strings)
    PROVE  \E j : Joins(j, ps) /\ Joined(ps) = j[Len(ps)]
  <1>1. Len(ps) \in Nat /\ <<>> \in Strings /\ \A n \in 1..Len(ps) : ps[n] \in Strings
    BY DEF Strings
  <1>2. PICK step : step = [n \in Nat |-> [x \in Strings |->
                              IF n < Len(ps) THEN x \o ps[n + 1] ELSE x]]
    OBVIOUS
  <1>3. step \in [Nat -> [Strings -> Strings]]
    <2>1. ASSUME NEW n \in Nat, NEW x \in Strings, n < Len(ps) PROVE x \o ps[n + 1] \in Strings
      <3>1. ps[n + 1] \in Strings
        BY <2>1, <1>1
      <3> QED
        BY <3>1 DEF Strings
    <2> QED
      BY <2>1, <1>2
  <1>4. PICK F : Iterates(F, Strings, <<>>, step)
    BY <1>1, <1>3, Iterated
  <1>5. PICK j : j = [n \in 0..Len(ps) |-> F[n]]
    OBVIOUS
  <1>6. j \in [0..Len(ps) -> Strings] /\ j[0] = <<>>
    BY <1>1, <1>4, <1>5 DEF Iterates
  <1>7. ASSUME NEW n \in 1..Len(ps) PROVE j[n] = j[n - 1] \o ps[n]
    <2>1. n - 1 \in Nat /\ n - 1 < Len(ps) /\ (n - 1) + 1 = n
      BY <1>1
    <2>2. F[n] = step[n - 1][F[n - 1]] /\ F[n - 1] \in Strings
      BY <2>1, <1>4 DEF Iterates
    <2>3. F[n] = F[n - 1] \o ps[n]
      BY <2>1, <2>2, <1>2
    <2>4. n \in 0..Len(ps) /\ n - 1 \in 0..Len(ps)
      BY <1>1
    <2> QED
      BY <2>3, <2>4, <1>5
  <1>8. j = [n \in 0..Len(ps) |-> IF n = 0 THEN <<>> ELSE j[n - 1] \o ps[n]]
    BY <1>1, <1>6, <1>7
  <1>9. PICK h : /\ h = [n \in 0..Len(ps) |-> IF n = 0 THEN <<>> ELSE h[n - 1] \o ps[n]]
                 /\ Joined(ps) = h[Len(ps)]
    BY <1>8 DEF Joined
  <1>10. h[0] = <<>> /\ \A n \in 1..Len(ps) : h[n] = h[n - 1] \o ps[n]
    <2>1. 0 \in 0..Len(ps) /\ \A n \in 1..Len(ps) : n \in 0..Len(ps) /\ n # 0
      BY <1>1
    <2>2. \A n \in 0..Len(ps) : h[n] = IF n = 0 THEN <<>> ELSE h[n - 1] \o ps[n]
      BY <1>9
    <2> QED
      BY <2>1, <2>2
  <1> DEFINE T == {n \in Nat : n <= Len(ps) => h[n] = j[n]}
  <1>11. Nat \subseteq T
    <2>1. 0 \in T
      BY <1>10, <1>6
    <2>2. ASSUME NEW n \in Nat, n \in T PROVE n + 1 \in T
      <3>1. SUFFICES ASSUME n + 1 <= Len(ps) PROVE h[n + 1] = j[n + 1]
        OBVIOUS
      <3>2. h[n] = j[n] /\ n + 1 \in 1..Len(ps) /\ (n + 1) - 1 = n
        BY <3>1, <2>2, <1>1
      <3> QED
        BY <3>2, <1>7, <1>10
    <2> HIDE DEF T
    <2> QED
      BY <2>1, <2>2, CountingUp
  <1> QED
    BY <1>1, <1>6, <1>7, <1>9, <1>11 DEF Joins

\* Concatenation is associative.
LEMMA StringsAssociate ==
    ASSUME NEW a \in Strings, NEW b \in Strings, NEW c \in Strings
    PROVE  (a \o b) \o c = a \o (b \o c)
  BY ConcatAssociative DEF Strings

\* A piece in front of others comes first in the text.
LEMMA JoinedHead ==
    ASSUME NEW a \in Strings, NEW ps \in Seq(Strings)
    PROVE  Joined(<<a>> \o ps) = a \o Joined(ps)
  <1>1. PICK qs : qs = <<a>> \o ps
    OBVIOUS
  <1>2. /\ qs \in Seq(Strings) /\ Len(qs) = Len(ps) + 1 /\ Len(ps) \in Nat /\ qs[1] = a
        /\ \A n \in 1..Len(ps) : qs[n + 1] = ps[n] /\ ps[n] \in Strings
    BY <1>1
  <1>3. PICK j : Joins(j, ps) /\ Joined(ps) = j[Len(ps)]
    BY JoinDefined
  <1>4. PICK k : Joins(k, qs) /\ Joined(qs) = k[Len(qs)]
    BY <1>2, JoinDefined
  <1> DEFINE T == {n \in Nat : n <= Len(ps) => k[n + 1] = a \o j[n]}
  <1>5. Nat \subseteq T
    <2>1. 0 \in T
      <3>1. 1 \in 1..Len(qs) /\ 1 - 1 = 0
        BY <1>2
      <3>2. k[1] = <<>> \o a
        BY <3>1, <1>2, <1>4 DEF Joins
      <3>3. <<>> \o a = a /\ a \o <<>> = a
        BY DEF Strings
      <3>4. k[0 + 1] = a \o j[0]
        BY <3>2, <3>3, <1>3 DEF Joins
      <3> QED
        BY <3>4
    <2>2. ASSUME NEW n \in Nat, n \in T PROVE n + 1 \in T
      <3>1. SUFFICES ASSUME n + 1 <= Len(ps) PROVE k[(n + 1) + 1] = a \o j[n + 1]
        OBVIOUS
      <3>2. /\ k[n + 1] = a \o j[n] /\ n \in 0..Len(ps) /\ n + 1 \in 1..Len(ps) /\ (n + 1) - 1 = n
            /\ (n + 1) + 1 \in 1..Len(qs) /\ ((n + 1) + 1) - 1 = n + 1
        BY <3>1, <2>2, <1>2
      <3>3. k[(n + 1) + 1] = k[n + 1] \o ps[n + 1] /\ j[n + 1] = j[n] \o ps[n + 1]
        BY <3>2, <1>2, <1>3, <1>4 DEF Joins
      <3>4. j[n] \in Seq(Letters) /\ ps[n + 1] \in Seq(Letters) /\ a \in Seq(Letters)
        BY <3>2, <1>2, <1>3 DEF Joins, Strings
      <3>5. (a \o j[n]) \o ps[n + 1] = a \o (j[n] \o ps[n + 1])
        BY <3>4, StringsAssociate DEF Strings
      <3> QED
        BY <3>2, <3>3, <3>5
    <2> HIDE DEF T
    <2> QED
      BY <2>1, <2>2, CountingUp
  <1> QED
    <2>1. Len(ps) \in T
      BY <1>2, <1>5
    <2>2. k[Len(ps) + 1] = a \o j[Len(ps)]
      BY <2>1, <1>2
    <2> QED
      BY <2>2, <1>1, <1>2, <1>3, <1>4

\* A single piece is the text.
LEMMA JoinedOne ==
    ASSUME NEW a \in Strings
    PROVE  Joined(<<a>>) = a
  <1>1. PICK j : Joins(j, <<a>>) /\ Joined(<<a>>) = j[Len(<<a>>)]
    <2>1. <<a>> \in Seq(Strings)
      OBVIOUS
    <2> QED
      BY <2>1, JoinDefined
  <1>2. j[1] = <<>> \o a
    BY <1>1 DEF Joins
  <1> QED
    BY <1>1, <1>2 DEF Strings

\* Cutting loses nothing.
LEMMA PieceThenRest ==
    ASSUME NEW r \in Strings, Len(r) > MaxChunk PROVE Piece(r) \o Rest(r) = r
  <1>1. PICK p \in Strings : p = Piece(r)
    BY PieceAndRest
  <1>2. PICK q \in Strings : q = Rest(r)
    BY PieceAndRest
  <1>3. PICK c \in Nat : c = CutAt(r) /\ c < Len(r) /\ Len(r) \in Nat
    BY CutInside, TextAssumption DEF Strings
  <1>4. /\ Len(p) = c /\ Len(q) = Len(r) - c
        /\ \A i \in 1..c : p[i] = r[i]
        /\ \A i \in 1..(Len(r) - c) : q[i] = r[i + c]
    BY <1>1, <1>2, <1>3, PieceAndRest
  <1>5. /\ p \o q \in Strings /\ Len(p \o q) = Len(r)
        /\ \A i \in 1..Len(r) : (p \o q)[i] = IF i <= c THEN p[i] ELSE q[i - c]
    BY <1>3, <1>4, ConcatProperties DEF Strings
  <1>6. ASSUME NEW i \in 1..Len(r) PROVE (p \o q)[i] = r[i]
    <2>1. CASE i <= c
      BY <2>1, <1>3, <1>4, <1>5
    <2>2. CASE ~(i <= c)
      <3>1. i - c \in 1..(Len(r) - c) /\ (i - c) + c = i
        BY <2>2, <1>3
      <3> QED
        BY <3>1, <2>2, <1>4, <1>5
    <2> QED
      BY <2>1, <2>2
  <1>7. p \o q = r
    BY <1>5, <1>6, SeqEqual DEF Strings
  <1> QED
    BY <1>1, <1>2, <1>7

Cut(r) ==
    /\ Joined(chunkRunes[r]) = r
    /\ \A i \in DOMAIN chunkRunes[r] : Len(chunkRunes[r][i]) \in 1..MaxChunk

\* Wherever chunkRunes cuts a text, its pieces are the text in its order, and
\* each is short enough for a request and not empty.
LEMMA ChunksAreTheText == ASSUME NEW r \in Strings, r # <<>> PROVE Cut(r)
  <1> DEFINE T == {n \in Nat : \A t \in Strings : t # <<>> /\ Len(t) = n => Cut(t)}
  <1>1. ASSUME NEW n \in Nat, \A m \in Nat : m < n => m \in T PROVE n \in T
    <2>1. SUFFICES ASSUME NEW t \in Strings, t # <<>>, Len(t) = n PROVE Cut(t)
      OBVIOUS
    <2>2. Len(t) \in Nat /\ Len(t) >= 1 /\ MaxChunk \in Nat
      BY <2>1, TextAssumption DEF Strings
    <2>3. CASE Len(t) <= MaxChunk
      <3>1. chunkRunes[t] = <<t>>
        BY <2>3, ChunkEquation
      <3> QED
        BY <3>1, <2>2, <2>3, JoinedOne DEF Cut
    <2>4. CASE Len(t) > MaxChunk
      <3>1. Rest(t) \in Strings /\ Piece(t) \in Strings
        BY <2>4, PieceAndRest
      <3>2. /\ Len(Piece(t)) = CutAt(t) /\ Len(Rest(t)) = Len(t) - CutAt(t)
            /\ CutAt(t) \in 1..MaxChunk
        BY <2>4, PieceAndRest, CutInside
      <3>3. Len(Rest(t)) \in Nat /\ Len(Rest(t)) < n /\ Len(Rest(t)) > 0
        BY <2>1, <2>2, <2>4, <3>2
      <3>4. Cut(Rest(t))
        BY <1>1, <3>1, <3>3
      <3>5. chunkRunes[t] = <<Piece(t)>> \o chunkRunes[Rest(t)]
        BY <2>2, <2>4, ChunkEquation
      <3>6. PICK ps : ps = chunkRunes[Rest(t)] /\ ps \in Seq(Strings)
        BY <3>1, ChunkEquation
      <3>7. Joined(<<Piece(t)>> \o ps) = Piece(t) \o Joined(ps)
        BY <3>1, <3>6, JoinedHead
      <3>8. Joined(chunkRunes[t]) = t
        BY <3>4, <3>5, <3>6, <3>7, <2>4, PieceThenRest DEF Cut
      <3>9. ASSUME NEW i \in DOMAIN chunkRunes[t] PROVE Len(chunkRunes[t][i]) \in 1..MaxChunk
        <4>1. chunkRunes[t] = <<Piece(t)>> \o ps /\ \A k \in DOMAIN ps : Len(ps[k]) \in 1..MaxChunk
          BY <3>4, <3>5, <3>6 DEF Cut
        <4>2. CASE i = 1
          BY <4>1, <4>2, <3>2, <3>6
        <4>3. CASE i # 1
          <5>1. i - 1 \in DOMAIN ps /\ chunkRunes[t][i] = ps[i - 1]
            BY <4>1, <4>3, <3>6, <3>9
          <5> QED
            BY <5>1, <4>1
        <4> QED
          BY <4>2, <4>3
      <3> QED
        BY <3>8, <3>9 DEF Cut
    <2> QED
      BY <2>2, <2>3, <2>4
  <1>2. Nat \subseteq T
    <2> HIDE DEF T
    <2> QED
      BY <1>1, FromSmaller
  <1> QED
    BY <1>2 DEF Strings

-----------------------------------------------------------------------------
(* The translated page: every slot is empty or holds its own piece, and the  *)
(* page is published when none is empty.                                     *)
IsPage == page = [text |-> page.text, chunks |-> page.chunks, translated |-> page.translated]

Pieces ==
    /\ IsPage /\ page.text \in Strings /\ page.text # <<>> /\ page.chunks = chunkRunes[page.text]
    /\ DOMAIN page.translated = DOMAIN page.chunks
    /\ page.translated = [i \in DOMAIN page.chunks |-> page.translated[i]]
    /\ \A i \in DOMAIN page.chunks : page.translated[i] \in {<<>>, page.chunks[i]}

Published == Pieces /\ page.translated = page.chunks

PageInv ==
    /\ kind = "translate" /\ task = "run" /\ pc = "pieces" => Pieces
    /\ status = "article_ru" => task = "done" /\ Published

\* No other body says that a page is translated.
LEMMA OtherNotices ==
  ASSUME status # "article_ru",
         YouTubeNext \/ LinkNext \/ PinterestNext \/ TikTokNext \/ InstagramNext \/ RedditNext
  PROVE  kind # "translate" /\ kind' = kind /\ status' # "article_ru"
  <1>1. ASSUME NEW notice, notice # "article_ru", Fail(notice)
        PROVE  kind' = kind /\ status' # "article_ru"
    BY <1>1 DEF Fail, Return
  <1>2. ASSUME NEW e, DownloadFailed(e) PROVE kind' = kind /\ status' # "article_ru"
    BY <1>1, <1>2, ErrorIsText DEF DownloadFailed, ReturnError
  <1>3. ASSUME Complete PROVE kind' = kind /\ status' # "article_ru"
    BY <1>3 DEF Complete, Return
  <1>4. ASSUME NEW p, Goto(p) PROVE kind' = kind
    BY <1>4 DEF Goto
  <1>5. ASSUME NEW k, NEW p, Begin(k, p), "translate" \notin k
        PROVE  kind # "translate" /\ kind' = kind /\ status' # "article_ru"
    BY <1>4, <1>5 DEF Begin, MkdirTemp, ReturnError, At
  <1>6. CASE YouTubeNext
    <2>1. CASE YouTubeStart
      BY <2>1, <1>4 DEF YouTubeStart, MkdirTemp, ReturnError, YouTube, At
    <2>2. ASSUME VideoFound PROVE kind' = kind /\ status' # "article_ru"
      BY <2>2, <1>1, <1>4 DEF VideoFound
    <2>3. CASE downloadYouTubeVideo
      BY <2>2, <2>3, <1>2, <1>4 DEF downloadYouTubeVideo, YouTube, At
    <2>4. CASE YouTubeRatio
      BY <2>4, <1>1, <1>4 DEF YouTubeRatio, YouTube, At
    <2>5. CASE YouTubeCompress \/ ensureFitsUpload
      BY <2>5, <1>4 DEF YouTubeCompress, ensureFitsUpload, YouTube, At
    <2>6. CASE YouTubeSend
      BY <2>6, <1>1, <1>4 DEF YouTubeSend, SendVideo, YouTube, At
    <2>7. CASE sendVideoResult
      BY <2>7, <1>1, <1>3 DEF sendVideoResult, Returned, At
    <2>8. CASE runYouTubeAudio
      BY <2>8, <1>1, <1>2, <1>4 DEF runYouTubeAudio, At
    <2>9. CASE AudioSent
      BY <2>9, <1>1, <1>3 DEF AudioSent, Returned, At
    <2> QED
      BY <1>6, <2>1, <2>3, <2>4, <2>5, <2>6, <2>7, <2>8, <2>9 DEF YouTubeNext
  <1>7. CASE LinkNext
    <2>1. CASE LinkStart
      BY <2>1, <1>5 DEF LinkStart, Link
    <2>2. CASE LinkFailed
      BY <2>2, <1>2, <1>4 DEF LinkFailed, Link, At
    <2>3. CASE LinkDownloaded
      BY <2>3, <1>1, <1>4 DEF LinkDownloaded, NoMedia, SendVideo, Link, At
    <2>4. CASE LinkAlbumSent
      BY <2>4 DEF LinkAlbumSent, Return, Returned, Link, At
    <2>5. CASE runXPhotos
      BY <2>5, <1>1, <1>4 DEF runXPhotos, At
    <2>6. CASE XAlbumSent
      BY <2>6, <1>1, <1>3 DEF XAlbumSent, Returned, At
    <2> QED
      BY <1>7, <2>1, <2>2, <2>3, <2>4, <2>5, <2>6 DEF LinkNext
  <1>8. CASE PinterestNext
    <2>1. CASE PinterestStart
      BY <2>1, <1>5 DEF PinterestStart, Pin
    <2>2. CASE PinterestFailed
      BY <2>2, <1>1 DEF PinterestFailed, Pin, At
    <2>3. CASE PinterestDownloaded
      BY <2>3, <1>1, <1>4 DEF PinterestDownloaded, Pin, At
    <2>4. CASE PinSent
      BY <2>4, <1>1, <1>3 DEF PinSent, Returned, Pin, At
    <2>5. CASE PinterestItem
      BY <2>5 DEF PinterestItem, Returned, Pin, At
    <2>6. CASE PinterestItemSent \/ PinterestAlbum
      BY <2>6, <1>4 DEF PinterestItemSent, PinterestAlbum, Returned, Pin, At
    <2>7. CASE PinterestDone
      BY <2>7, <1>1, <1>3 DEF PinterestDone, Returned, Pin, At
    <2> QED
      BY <1>8, <2>1, <2>2, <2>3, <2>4, <2>5, <2>6, <2>7 DEF PinterestNext
  <1>9. CASE TikTokNext
    <2>1. CASE TikTokStart
      BY <2>1, <1>5 DEF TikTokStart, TikTok
    <2>2. CASE TikTokFailed
      BY <2>2, <1>2 DEF TikTokFailed, TikTok, At
    <2>3. CASE TikTokCarousel
      BY <2>3, <1>4 DEF TikTokCarousel, TikTok, At
    <2>4. CASE TikTokDownloaded
      BY <2>4, <1>1, <1>4 DEF TikTokDownloaded, TikTok, At
    <2>5. CASE ensureAudio \/ TikTokSquare \/ TikTokSend
      BY <2>5, <1>4 DEF ensureAudio, TikTokSquare, TikTokSend, TikTok, At
    <2>6. CASE TikTokSent
      BY <2>6, <1>1, <1>3 DEF TikTokSent, Returned, TikTok, At
    <2>7. CASE TikTokCarouselSent
      BY <2>7, <1>1, <1>3, <1>4 DEF TikTokCarouselSent, Returned, TikTok, At
    <2>8. CASE TikTokSound
      BY <2>8, <1>3 DEF TikTokSound, Returned, TikTok, At
    <2> QED
      BY <1>9, <2>1, <2>2, <2>3, <2>4, <2>5, <2>6, <2>7, <2>8 DEF TikTokNext
  <1>10. CASE InstagramNext
    <2>1. CASE InstagramStart
      BY <2>1, <1>5 DEF InstagramStart, Instagram
    <2>2. CASE InstagramFailed
      BY <2>2, <1>2 DEF InstagramFailed, Instagram, At
    <2>3. CASE runInstagram
      BY <2>3, <1>1, <1>4 DEF runInstagram, Instagram, At
    <2>4. CASE InstagramSent
      BY <2>4 DEF InstagramSent, Return, Returned, Instagram, At
    <2> QED
      BY <1>10, <2>1, <2>2, <2>3, <2>4 DEF InstagramNext
  <1>11. CASE RedditNext
    <2>1. CASE RedditStart
      BY <2>1, <1>5 DEF RedditStart, Reddit
    <2>2. CASE RedditFailed
      BY <2>2, <1>1 DEF RedditFailed, Reddit, At
    <2>3. CASE RedditThread
      BY <2>3, <1>4 DEF RedditThread, Reddit, At
    <2>4. CASE RedditItem
      BY <2>4 DEF RedditItem, Returned, Reddit, At
    <2>5. CASE RedditItemSent \/ RedditAlbum \/ RedditAlbumSent
      BY <2>5, <1>4 DEF RedditItemSent, RedditAlbum, RedditAlbumSent, Returned, Reddit, At
    <2>6. ASSUME NEW err, Finish(err) PROVE kind' = kind /\ status' # "article_ru"
      BY <2>6, <1>1 DEF Finish, Return
    <2>7. CASE deliverRedditArticle
      BY <2>6, <2>7 DEF deliverRedditArticle, Reddit, At
    <2> QED
      BY <1>11, <2>1, <2>2, <2>3, <2>4, <2>5, <2>7 DEF RedditNext
  <1> QED
    BY <1>6, <1>7, <1>8, <1>9, <1>10, <1>11

\* Each goroutine of translateBlock fills its own slot, in any order.
LEMMA PageSteps == ASSUME PageInv, TranslateNext PROVE PageInv'
  <1>1. kind = "translate" /\ task = "run" /\ status # "article_ru"
    BY DEF TranslateNext, TranslateStart, translateBlock, handleTelegraphTranslate, At, Translate, PageInv
  <1>2. CASE TranslateStart
    <2>1. CASE \E t \in Texts :
             /\ page' = [text |-> t, chunks |-> chunkRunes[t],
                         translated |-> [i \in DOMAIN chunkRunes[t] |-> <<>>]]
             /\ UNCHANGED status
      <3>1. PICK t \in Texts :
               /\ page' = [text |-> t, chunks |-> chunkRunes[t],
                           translated |-> [i \in DOMAIN chunkRunes[t] |-> <<>>]]
               /\ UNCHANGED status
        BY <2>1
      <3>2. t \in Strings /\ t # <<>>
        <4>1. PICK n \in 1..MaxText : t \in [1..n -> Letters]
          BY DEF Texts
        <4>2. t \in Seq(Letters) /\ Len(t) = n /\ n >= 1
          BY <4>1, TextAssumption
        <4> QED
          BY <4>2 DEF Strings
      <3>3. Pieces'
        BY <3>1, <3>2 DEF Pieces, IsPage
      <3> QED
        BY <3>1, <3>3, <1>1 DEF PageInv
    <2>2. CASE Return("none", "errors.generic")
      BY <2>2 DEF Return, PageInv
    <2> QED
      BY <1>2, <2>1, <2>2 DEF TranslateStart
  <1>3. CASE translateBlock
    <2>1. Pieces /\ UNCHANGED <<kind, task, pc, status>>
      BY <1>3, <1>1 DEF translateBlock, At, PageInv, jobVars
    <2>2. PICK i \in DOMAIN page.chunks : page' = [page EXCEPT !.translated[i] = page.chunks[i]]
      BY <1>3 DEF translateBlock
    <2>3. /\ page'.text = page.text /\ page'.chunks = page.chunks
          /\ page'.translated = [page.translated EXCEPT ![i] = page.chunks[i]]
          /\ page' = [text |-> page'.text, chunks |-> page'.chunks, translated |-> page'.translated]
      BY <2>1, <2>2 DEF Pieces, IsPage
    <2>4. Pieces'
      BY <2>1, <2>2, <2>3 DEF Pieces, IsPage
    <2> QED
      BY <2>1, <2>4, <1>1 DEF PageInv
  <1>4. CASE handleTelegraphTranslate
    <2>1. Pieces /\ task' = "done" /\ UNCHANGED page
      BY <1>4, <1>1 DEF handleTelegraphTranslate, At, PageInv, Return
    <2>2. \A i \in DOMAIN page.chunks : page.translated[i] = page.chunks[i]
      BY <1>4, <2>1 DEF handleTelegraphTranslate, Pieces
    <2>3. page.chunks = [i \in DOMAIN page.chunks |-> page.chunks[i]]
      BY <2>1, ChunkEquation DEF Pieces
    <2>4. page.translated = page.chunks
      BY <2>1, <2>2, <2>3 DEF Pieces
    <2>5. Published'
      BY <2>1, <2>4 DEF Published, Pieces, IsPage
    <2> QED
      BY <2>1, <2>5 DEF PageInv
  <1> QED
    BY <1>2, <1>3, <1>4 DEF TranslateNext

\* No step loses a piece or publishes a page that is not whole.
LEMMA PageKept == ASSUME JobInv, PageInv, [Next]_vars PROVE PageInv'
  <1>1. CASE TranslateNext
    BY <1>1, PageSteps
  <1>2. CASE /\ UNCHANGED page
             /\ YouTubeNext \/ LinkNext \/ PinterestNext \/ TikTokNext \/ InstagramNext \/ RedditNext
             /\ Body
    <2>1. task = "run"
      BY <1>2, BodySteps DEF JobStep, Goes, Ends, GivesUp
    <2>2. status # "article_ru"
      BY <2>1 DEF PageInv
    <2> QED
      BY <1>2, <2>2, OtherNotices DEF PageInv
  <1>3. CASE SenderNext /\ UNCHANGED page
    <2>1. UNCHANGED <<kind, task, pc, status, page>>
      BY <1>3 DEF SenderNext, sendFile, sendAudio, sendMediaGroup, sendPhoto, senderFrame
    <2> QED
      BY <2>1 DEF PageInv, Published, Pieces, IsPage
  <1>4. CASE Again
    <2>1. task = "retry" /\ pc' = "start" /\ UNCHANGED status
      BY <1>4 DEF Again
    <2> QED
      BY <2>1 DEF PageInv
  <1>5. CASE Crash
    <2>1. task = "run" /\ pc' = "end" /\ UNCHANGED status
      BY <1>5 DEF Crash, ReturnError
    <2> QED
      BY <2>1 DEF PageInv
  <1>6. CASE UNCHANGED vars
    <2>1. UNCHANGED <<kind, task, pc, status, page>>
      BY <1>6 DEF vars, jobVars
    <2> QED
      BY <2>1 DEF PageInv, Published, Pieces, IsPage
  <1> QED
    BY <1>1, <1>2, <1>3, <1>4, <1>5, <1>6 DEF Next, Body

\* The page behind the translation button is the whole text, in order and in
\* pieces a request can hold, for every text, every size of the window and every
\* order in which the goroutines of translateBlock finish (TranslationComplete).
THEOREM PagesAreComplete == Spec => []TranslationComplete
  <1>1. Init => PageInv
    BY DEF Init, JobInit, PageInv
  <1>2. JobInv /\ PageInv /\ [Next]_vars => PageInv'
    BY PageKept
  <1>3. PageInv => TranslationComplete
    BY ChunksAreTheText DEF PageInv, Published, Pieces, TranslationComplete, Cut
  <1> QED
    BY <1>1, <1>2, <1>3, BodiesKeepInvariant, PTL DEF Spec

-----------------------------------------------------------------------------
(* k[n] is what the loop of Picked has collected after n items.                *)
Keeps(k, s, P, S) ==
    /\ k \in [0..Len(s) -> Seq(S)] /\ k[0] = <<>>
    /\ \A n \in 1..Len(s) : k[n] = IF n \in P THEN Append(k[n - 1], s[n]) ELSE k[n - 1]

\* Picked is computed by running through the items.
LEMMA PickedDefined ==
  ASSUME NEW S, NEW s \in Seq(S), NEW P
  PROVE  \E k : Keeps(k, s, P, S) /\ Picked(s, P) = k[Len(s)]
  <1>1. Len(s) \in Nat /\ <<>> \in Seq(S) /\ \A n \in 1..Len(s) : s[n] \in S
    OBVIOUS
  <1>2. PICK V : V = Seq(S)
    OBVIOUS
  <1>3. PICK step : step = [n \in Nat |-> [x \in V |->
                       IF n < Len(s) /\ n + 1 \in P THEN Append(x, s[n + 1]) ELSE x]]
    OBVIOUS
  <1>4. step \in [Nat -> [V -> V]]
    <2>1. ASSUME NEW n \in Nat, NEW x \in V, n < Len(s) PROVE Append(x, s[n + 1]) \in V
      <3>1. s[n + 1] \in S
        BY <2>1, <1>1
      <3> QED
        BY <3>1, <1>2
    <2> QED
      BY <2>1, <1>3
  <1>5. PICK F : Iterates(F, V, <<>>, step)
    BY <1>1, <1>2, <1>4, Iterated
  <1>6. PICK j : j = [n \in 0..Len(s) |-> F[n]]
    OBVIOUS
  <1>7. j \in [0..Len(s) -> Seq(S)] /\ j[0] = <<>>
    BY <1>1, <1>2, <1>5, <1>6 DEF Iterates
  <1>8. ASSUME NEW n \in 1..Len(s) PROVE j[n] = IF n \in P THEN Append(j[n - 1], s[n]) ELSE j[n - 1]
    <2>1. n - 1 \in Nat /\ n - 1 < Len(s) /\ (n - 1) + 1 = n
      BY <1>1
    <2>2. F[n] = step[n - 1][F[n - 1]] /\ F[n - 1] \in V
      BY <2>1, <1>5 DEF Iterates
    <2>3. F[n] = IF n \in P THEN Append(F[n - 1], s[n]) ELSE F[n - 1]
      BY <2>1, <2>2, <1>3
    <2>4. n \in 0..Len(s) /\ n - 1 \in 0..Len(s)
      BY <1>1
    <2> QED
      BY <2>3, <2>4, <1>6
  <1>9. j = [n \in 0..Len(s) |-> CASE n = 0 -> <<>>
                                   [] n # 0 /\ n \in P -> Append(j[n - 1], s[n])
                                   [] OTHER -> j[n - 1]]
    <2>1. ASSUME NEW n \in 0..Len(s)
          PROVE  j[n] = CASE n = 0 -> <<>>
                          [] n # 0 /\ n \in P -> Append(j[n - 1], s[n])
                          [] OTHER -> j[n - 1]
      <3>1. CASE n = 0
        BY <3>1, <1>7
      <3>2. CASE n # 0
        <4>1. n \in 1..Len(s)
          BY <3>2, <1>1
        <4> QED
          BY <3>2, <4>1, <1>8
      <3> QED
        BY <3>1, <3>2
    <2> QED
      BY <2>1, <1>7
  <1>10. PICK h : /\ h = [n \in 0..Len(s) |-> CASE n = 0 -> <<>>
                                   [] n # 0 /\ n \in P -> Append(h[n - 1], s[n])
                                   [] OTHER -> h[n - 1]]
                  /\ Picked(s, P) = h[Len(s)]
    BY <1>9 DEF Picked
  <1>11. h[0] = <<>> /\ \A n \in 1..Len(s) : h[n] = IF n \in P THEN Append(h[n - 1], s[n]) ELSE h[n - 1]
    <2>1. 0 \in 0..Len(s) /\ \A n \in 1..Len(s) : n \in 0..Len(s) /\ n # 0
      BY <1>1
    <2>2. \A n \in 0..Len(s) : h[n] = CASE n = 0 -> <<>>
                                   [] n # 0 /\ n \in P -> Append(h[n - 1], s[n])
                                   [] OTHER -> h[n - 1]
      BY <1>10
    <2> QED
      BY <2>1, <2>2
  <1> DEFINE T == {n \in Nat : n <= Len(s) => h[n] = j[n]}
  <1>12. Nat \subseteq T
    <2>1. 0 \in T
      BY <1>11, <1>7
    <2>2. ASSUME NEW n \in Nat, n \in T PROVE n + 1 \in T
      <3>1. SUFFICES ASSUME n + 1 <= Len(s) PROVE h[n + 1] = j[n + 1]
        OBVIOUS
      <3>2. h[n] = j[n] /\ n + 1 \in 1..Len(s) /\ (n + 1) - 1 = n
        BY <3>1, <2>2, <1>1
      <3> QED
        BY <3>2, <1>8, <1>11
    <2> HIDE DEF T
    <2> QED
      BY <2>1, <2>2, CountingUp
  <1>13. h[Len(s)] = j[Len(s)]
    <2>1. Len(s) \in T
      BY <1>1, <1>12
    <2> QED
      BY <2>1
  <1>14. Keeps(j, s, P, S)
    BY <1>7, <1>8 DEF Keeps
  <1> QED
    BY <1>10, <1>13, <1>14

(* Files of a post.                                                          *)
Types == {"image", "video", "gif", "audio"}
Item == [id : Nat, type : Types, size : Nat]
Rising(s) == \A i, j \in DOMAIN s : i < j => s[i].id < s[j].id

\* What Picked leaves: the items at the positions P, and no others.
LEMMA PickedRange ==
  ASSUME NEW S, NEW s \in Seq(S), NEW P
  PROVE  /\ Picked(s, P) \in Seq(S)
         /\ \A i \in DOMAIN Picked(s, P) : \E m \in DOMAIN s : m \in P /\ Picked(s, P)[i] = s[m]
         /\ \A m \in DOMAIN s : m \in P => \E i \in DOMAIN Picked(s, P) : Picked(s, P)[i] = s[m]
  <1>1. PICK k : Keeps(k, s, P, S) /\ Picked(s, P) = k[Len(s)]
    BY PickedDefined
  <1>2. Len(s) \in Nat /\ DOMAIN s = 1..Len(s) /\ \A m \in 1..Len(s) : s[m] \in S
    OBVIOUS
  <1> DEFINE Good(n) ==
          /\ \A i \in DOMAIN k[n] : \E m \in 1..n : m \in P /\ k[n][i] = s[m]
          /\ \A m \in 1..n : m \in P => \E i \in DOMAIN k[n] : k[n][i] = s[m]
        T == {n \in Nat : n <= Len(s) => Good(n)}
  <1>3. 0 \in T
    <2>1. k[0] = <<>>
      BY <1>1 DEF Keeps
    <2> QED
      BY <2>1
  <1>4. ASSUME NEW n \in Nat, n \in T PROVE n + 1 \in T
    <2>1. SUFFICES ASSUME n + 1 <= Len(s) PROVE Good(n + 1)
      OBVIOUS
    <2>2. n + 1 \in 1..Len(s) /\ (n + 1) - 1 = n /\ n \in 0..Len(s) /\ Good(n)
      BY <2>1, <1>4, <1>2
    <2>3. PICK a : a = k[n] /\ a \in Seq(S)
      BY <2>2, <1>1 DEF Keeps
    <2>4. PICK b : b = k[n + 1] /\ b = IF n + 1 \in P THEN Append(a, s[n + 1]) ELSE a
      BY <2>2, <2>3, <1>1 DEF Keeps
    <2>5. /\ \A i \in DOMAIN a : \E m \in 1..n : m \in P /\ a[i] = s[m]
          /\ \A m \in 1..n : m \in P => \E i \in DOMAIN a : a[i] = s[m]
      BY <2>2, <2>3
    <2>6. s[n + 1] \in S
      BY <2>2, <1>2
    <2>7. /\ \A i \in DOMAIN b : \E m \in 1..(n + 1) : m \in P /\ b[i] = s[m]
          /\ \A m \in 1..(n + 1) : m \in P => \E i \in DOMAIN b : b[i] = s[m]
      <3>1. CASE n + 1 \in P
        <4>1. /\ DOMAIN b = 1..(Len(a) + 1) /\ Len(a) \in Nat /\ DOMAIN a = 1..Len(a)
              /\ b[Len(a) + 1] = s[n + 1] /\ \A i \in 1..Len(a) : b[i] = a[i]
          BY <3>1, <2>3, <2>4, <2>6
        <4>2. ASSUME NEW i \in DOMAIN b PROVE \E m \in 1..(n + 1) : m \in P /\ b[i] = s[m]
          <5>1. CASE i = Len(a) + 1
            BY <5>1, <4>1, <3>1
          <5>2. CASE i \in 1..Len(a)
            BY <5>2, <4>1, <2>5
          <5> QED
            BY <5>1, <5>2, <4>1
        <4>3. ASSUME NEW m \in 1..(n + 1), m \in P PROVE \E i \in DOMAIN b : b[i] = s[m]
          <5>1. CASE m = n + 1
            BY <5>1, <4>1
          <5>2. CASE m \in 1..n
            <6>1. PICK i \in 1..Len(a) : a[i] = s[m]
              BY <5>2, <4>3, <2>5, <4>1
            <6> QED
              BY <6>1, <4>1
          <5> QED
            BY <5>1, <5>2
        <4> QED
          BY <4>2, <4>3
      <3>2. CASE n + 1 \notin P
        <4>1. b = a
          BY <3>2, <2>4
        <4>2. \A m \in 1..(n + 1) : m \in P => m \in 1..n
          BY <3>2
        <4>3. \A m \in 1..n : m \in 1..(n + 1)
          OBVIOUS
        <4> QED
          BY <4>1, <4>2, <4>3, <2>5
      <3> QED
        BY <3>1, <3>2
    <2> QED
      BY <2>4, <2>7
  <1>5. Nat \subseteq T
    <2> HIDE DEF T
    <2> QED
      BY <1>3, <1>4, CountingUp
  <1>6. Good(Len(s))
    BY <1>5, <1>2
  <1>7. k[Len(s)] \in Seq(S)
    BY <1>1, <1>2 DEF Keeps
  <1> QED
    BY <1>1, <1>2, <1>6, <1>7

\* Picked keeps the order.
LEMMA PickedRising ==
  ASSUME NEW s \in Seq(Item), Rising(s), NEW P
  PROVE  Rising(Picked(s, P))
  <1>1. PICK k : Keeps(k, s, P, Item) /\ Picked(s, P) = k[Len(s)]
    BY PickedDefined
  <1>2. Len(s) \in Nat /\ DOMAIN s = 1..Len(s) /\ \A m \in 1..Len(s) : s[m] \in Item
    OBVIOUS
  <1> DEFINE Good(n) ==
          Rising(k[n]) /\ \A i \in DOMAIN k[n] : \E m \in 1..n : k[n][i] = s[m]
        T == {n \in Nat : n <= Len(s) => Good(n)}
  <1>3. 0 \in T
    <2>1. k[0] = <<>>
      BY <1>1 DEF Keeps
    <2> QED
      BY <2>1 DEF Rising
  <1>4. ASSUME NEW n \in Nat, n \in T PROVE n + 1 \in T
    <2>1. SUFFICES ASSUME n + 1 <= Len(s) PROVE Good(n + 1)
      OBVIOUS
    <2>2. n + 1 \in 1..Len(s) /\ (n + 1) - 1 = n /\ n \in 0..Len(s) /\ Good(n)
      BY <2>1, <1>4, <1>2
    <2>3. PICK a : a = k[n] /\ a \in Seq(Item)
      BY <2>2, <1>1 DEF Keeps
    <2>4. PICK b : b = k[n + 1] /\ b = IF n + 1 \in P THEN Append(a, s[n + 1]) ELSE a
      BY <2>2, <2>3, <1>1 DEF Keeps
    <2>5. Rising(a) /\ \A i \in DOMAIN a : \E m \in 1..n : a[i] = s[m]
      BY <2>2, <2>3
    <2>6. s[n + 1] \in Item
      BY <2>2, <1>2
    <2>7. Rising(b) /\ \A i \in DOMAIN b : \E m \in 1..(n + 1) : b[i] = s[m]
      <3>1. CASE n + 1 \in P
        <4>1. /\ DOMAIN b = 1..(Len(a) + 1) /\ Len(a) \in Nat /\ DOMAIN a = 1..Len(a)
              /\ b[Len(a) + 1] = s[n + 1] /\ \A i \in 1..Len(a) : b[i] = a[i]
          BY <3>1, <2>3, <2>4, <2>6
        <4>2. ASSUME NEW i \in DOMAIN b PROVE \E m \in 1..(n + 1) : b[i] = s[m]
          <5>1. CASE i = Len(a) + 1
            BY <5>1, <4>1, <3>1
          <5>2. CASE i \in 1..Len(a)
            BY <5>2, <4>1, <2>5
          <5> QED
            BY <5>1, <5>2, <4>1
        <4>3. ASSUME NEW i \in DOMAIN b, NEW j \in DOMAIN b, i < j PROVE b[i].id < b[j].id
          <5>1. i \in 1..Len(a)
            BY <4>1, <4>3
          <5>2. CASE j = Len(a) + 1
            <6>1. PICK m \in 1..n : a[i] = s[m]
              BY <5>1, <4>1, <2>5
            <6>2. m \in DOMAIN s /\ n + 1 \in DOMAIN s /\ m < n + 1
              BY <2>1, <1>2
            <6>3. s[m].id < s[n + 1].id
              BY <6>2 DEF Rising
            <6> QED
              BY <6>1, <6>3, <5>1, <5>2, <4>1
          <5>3. CASE j \in 1..Len(a)
            BY <5>1, <5>3, <4>1, <4>3, <2>5 DEF Rising
          <5> QED
            BY <5>2, <5>3, <4>1
        <4> QED
          BY <4>2, <4>3 DEF Rising
      <3>2. CASE n + 1 \notin P
        <4>1. b = a
          BY <3>2, <2>4
        <4>2. \A m \in 1..n : m \in 1..(n + 1)
          OBVIOUS
        <4> QED
          BY <4>1, <4>2, <2>5
      <3> QED
        BY <3>1, <3>2
    <2> QED
      BY <2>4, <2>7
  <1>5. Nat \subseteq T
    <2> HIDE DEF T
    <2> QED
      BY <1>3, <1>4, CountingUp
  <1>6. Good(Len(s))
    BY <1>5, <1>2
  <1> QED
    BY <1>1, <1>6

\* LargestVideo picks one of the videos.
LEMMA LargestIsOne ==
  ASSUME NEW vs \in Seq(Item), vs # <<>>
  PROVE  \E i \in DOMAIN vs : LargestVideo(vs) = vs[i]
  <1> DEFINE First(n, i) == \A j \in 1..n : vs[i].size > vs[j].size \/ (vs[i].size = vs[j].size /\ i <= j)
             T == {n \in Nat : n + 1 <= Len(vs) => \E i \in 1..(n + 1) : First(n + 1, i)}
  <1>1. Len(vs) \in Nat /\ Len(vs) >= 1 /\ DOMAIN vs = 1..Len(vs) /\ \A i \in 1..Len(vs) : vs[i].size \in Nat
    <2>1. \A i \in 1..Len(vs) : vs[i] \in Item
      OBVIOUS
    <2> QED
      BY <2>1 DEF Item
  <1>2. 0 \in T
    <2>1. First(1, 1)
      BY <1>1
    <2> QED
      BY <2>1
  <1>3. ASSUME NEW n \in Nat, n \in T PROVE n + 1 \in T
    <2>1. SUFFICES ASSUME (n + 1) + 1 <= Len(vs)
                   PROVE  \E i \in 1..((n + 1) + 1) : First((n + 1) + 1, i)
      OBVIOUS
    <2>2. PICK i \in 1..(n + 1) : First(n + 1, i)
      BY <2>1, <1>1, <1>3
    <2>3. PICK l \in Nat : l = (n + 1) + 1 /\ l \in 1..Len(vs) /\ i \in 1..Len(vs) /\ i < l
      BY <2>1, <2>2, <1>1
    <2>4. vs[l].size \in Nat /\ vs[i].size \in Nat /\ \A j \in 1..l : vs[j].size \in Nat
      BY <1>1, <2>3
    <2>5. \A j \in 1..l : j \in 1..(n + 1) \/ j = l
      BY <2>3
    <2>6. CASE vs[l].size > vs[i].size
      <3>1. First(l, l)
        BY <2>2, <2>3, <2>4, <2>5, <2>6
      <3> QED
        BY <2>3, <3>1
    <2>7. CASE ~(vs[l].size > vs[i].size)
      <3>1. First(l, i)
        BY <2>2, <2>3, <2>4, <2>5, <2>7
      <3> QED
        BY <2>3, <3>1
    <2> QED
      BY <2>6, <2>7
  <1>4. Nat \subseteq T
    <2> HIDE DEF T
    <2> QED
      BY <1>2, <1>3, CountingUp
  <1>5. PICK i \in DOMAIN vs : First(Len(vs), i)
    <2>1. Len(vs) - 1 \in Nat /\ (Len(vs) - 1) + 1 = Len(vs)
      BY <1>1
    <2>2. Len(vs) - 1 \in T
      BY <2>1, <1>4
    <2>3. \E i \in 1..((Len(vs) - 1) + 1) : First((Len(vs) - 1) + 1, i)
      BY <2>1, <2>2, <1>1
    <2> QED
      BY <2>1, <2>3, <1>1
  <1>6. \E m \in DOMAIN vs : \A j \in DOMAIN vs :
            vs[m].size > vs[j].size \/ (vs[m].size = vs[j].size /\ m <= j)
    BY <1>1, <1>5
  <1> QED
    BY <1>6 DEF LargestVideo

\* A sequence without its head, in front of another one.
LEMMA TailOfJoin ==
  ASSUME NEW S, NEW a \in Seq(S), NEW b \in Seq(S), a # <<>>
  PROVE  /\ a \o b \in Seq(S) /\ a \o b # <<>> /\ (a \o b)[1] = Head(a)
         /\ Tail(a) \in Seq(S) /\ Tail(a) \o b = Tail(a \o b)
         /\ Len(a \o b) = Len(a) + Len(b)
  <1>1. /\ Len(a) \in Nat /\ Len(b) \in Nat /\ Len(a) >= 1
        /\ Tail(a) \in Seq(S) /\ Len(Tail(a)) = Len(a) - 1 /\ Head(a) = a[1]
        /\ \A i \in 1..(Len(a) - 1) : Tail(a)[i] = a[i + 1]
    OBVIOUS
  <1>2. PICK c : c = a \o b
    OBVIOUS
  <1>3. /\ c \in Seq(S) /\ Len(c) = Len(a) + Len(b)
        /\ \A i \in 1..(Len(a) + Len(b)) : c[i] = IF i <= Len(a) THEN a[i] ELSE b[i - Len(a)]
    BY <1>2, ConcatProperties
  <1>4. c # <<>> /\ c[1] = Head(a)
    BY <1>1, <1>3
  <1>5. PICK d : d = Tail(a) \o b
    OBVIOUS
  <1>6. PICK ta \in Seq(S) : ta = Tail(a) /\ Len(ta) = Len(a) - 1 /\ \A i \in 1..(Len(a) - 1) : ta[i] = a[i + 1]
    BY <1>1
  <1>7. /\ d \in Seq(S) /\ Len(d) = (Len(a) - 1) + Len(b)
        /\ \A i \in 1..((Len(a) - 1) + Len(b)) : d[i] = IF i <= Len(a) - 1 THEN ta[i] ELSE b[i - (Len(a) - 1)]
    BY <1>5, <1>6, ConcatProperties
  <1>8. PICK e \in Seq(S) : e = Tail(c) /\ Len(e) = Len(c) - 1 /\ \A i \in 1..(Len(c) - 1) : e[i] = c[i + 1]
    <2>1. /\ Tail(c) \in Seq(S) /\ Len(Tail(c)) = Len(c) - 1
          /\ \A i \in 1..(Len(c) - 1) : Tail(c)[i] = c[i + 1]
      BY <1>3, <1>4
    <2> QED
      BY <2>1
  <1>9. Len(d) = Len(e)
    BY <1>1, <1>3, <1>7, <1>8
  <1>10. ASSUME NEW i \in 1..Len(d) PROVE d[i] = e[i]
    <2>1. i \in 1..((Len(a) - 1) + Len(b)) /\ i \in 1..(Len(c) - 1) /\ i + 1 \in 1..(Len(a) + Len(b))
      BY <1>1, <1>3, <1>7
    <2>2. e[i] = IF i + 1 <= Len(a) THEN a[i + 1] ELSE b[(i + 1) - Len(a)]
      BY <2>1, <1>3, <1>8
    <2>3. d[i] = IF i <= Len(a) - 1 THEN ta[i] ELSE b[i - (Len(a) - 1)]
      BY <2>1, <1>7
    <2>4. CASE i <= Len(a) - 1
      BY <2>2, <2>3, <2>4, <2>1, <1>1, <1>6
    <2>5. CASE ~(i <= Len(a) - 1)
      <3>1. ~(i + 1 <= Len(a)) /\ (i + 1) - Len(a) = i - (Len(a) - 1)
        BY <2>5, <2>1, <1>1
      <3> QED
        BY <3>1, <2>2, <2>3, <2>5
    <2> QED
      BY <2>4, <2>5
  <1>11. d = e
    BY <1>7, <1>8, <1>9, <1>10, SeqEqual
  <1> QED
    BY <1>1, <1>2, <1>3, <1>4, <1>5, <1>6, <1>8, <1>11

\* A sequence is its first n elements and the others.
LEMMA SplitJoin ==
  ASSUME NEW S, NEW t \in Seq(S), NEW n \in Nat, n <= Len(t)
  PROVE  /\ SubSeq(t, 1, n) \in Seq(S) /\ SubSeq(t, n + 1, Len(t)) \in Seq(S)
         /\ Len(SubSeq(t, 1, n)) = n /\ \A i \in 1..n : SubSeq(t, 1, n)[i] = t[i]
         /\ SubSeq(t, 1, n) \o SubSeq(t, n + 1, Len(t)) = t
  <1>1. Len(t) \in Nat /\ \A i \in 1..Len(t) : t[i] \in S
    OBVIOUS
  <1>2. PICK l \in Nat : l = Len(t)
    BY <1>1
  <1>3. PICK p : p = SubSeq(t, 1, n)
    OBVIOUS
  <1>4. PICK q : q = SubSeq(t, n + 1, l)
    OBVIOUS
  <1>5. p \in Seq(S) /\ Len(p) = n /\ \A i \in 1..n : p[i] = t[i]
    <2>1. \A i \in 1..n : t[i] \in S
      BY <1>1
    <2> QED
      BY <2>1, <1>3, SubSeqProperties
  <1>6. q \in Seq(S) /\ Len(q) = l - n /\ \A i \in 1..(l - n) : q[i] = t[i + n]
    <2>1. \A i \in (n + 1)..l : t[i] \in S
      BY <1>1, <1>2
    <2> QED
      BY <2>1, <1>2, <1>4, SubSeqProperties
  <1>7. /\ p \o q \in Seq(S) /\ Len(p \o q) = l
        /\ \A i \in 1..l : (p \o q)[i] = IF i <= n THEN p[i] ELSE q[i - n]
    BY <1>2, <1>5, <1>6, ConcatProperties
  <1>8. ASSUME NEW i \in 1..l PROVE (p \o q)[i] = t[i]
    <2>1. CASE i <= n
      BY <2>1, <1>2, <1>5, <1>7
    <2>2. CASE ~(i <= n)
      <3>1. i - n \in 1..(l - n) /\ (i - n) + n = i
        BY <2>2, <1>2
      <3> QED
        BY <3>1, <2>2, <1>6, <1>7
    <2> QED
      BY <2>1, <2>2
  <1>9. p \o q = t
    BY <1>2, <1>7, <1>8, SeqEqual
  <1> QED
    BY <1>2, <1>3, <1>4, <1>5, <1>6, <1>9

-----------------------------------------------------------------------------
(* The items a running call has not sent yet.                                *)
Waiting == call.result = "pending"
Queue == call.single \o call.todo

Shape ==
    /\ call.single \in Seq(Item) /\ call.todo \in Seq(Item) /\ Queue # <<>>
    /\ call.op \in {"file", "audio", "album"}
    /\ call.op # "album" => call.single = <<>> /\ Len(call.todo) = 1

(* What a step of the sender does: the call goes on, gives up because of an  *)
(* item, puts its next item into the chat, or a request fails.               *)
Stays == Waiting' /\ Shape' /\ Queue' = Queue /\ UNCHANGED <<sent, faults>>
Refuses ==
    /\ call' = Error /\ UNCHANGED <<sent, faults>>
    /\ \E i \in DOMAIN Queue : Queue[i].size = 0 \/ TooBig(Queue[i])
Sends ==
    /\ sent' = Append(sent, <<Queue[1].id>>) /\ UNCHANGED faults /\ Queue[1].size # 0
    /\ \/ Len(Queue) = 1 /\ call' = Idle
       \/ Len(Queue) > 1 /\ Waiting' /\ Shape' /\ Queue' = Tail(Queue)
Breaks ==
    /\ call' = Error /\ faults' = faults + 1
    /\ sent' = sent \/ sent' = Append(sent, <<Queue[1].id>>)

\* One file: checked, then uploaded or refused.
LEMMA OneFile ==
  ASSUME IsCall(call), Waiting, Shape, call.op # "album",
         SendOne(Head(call.todo), Idle)
  PROVE  Stays \/ Refuses \/ Sends \/ Breaks
  <1>1. call.single = <<>> /\ Len(call.todo) = 1 /\ call.todo \in Seq(Item)
    BY DEF Shape
  <1>2. Queue = call.todo
    BY <1>1 DEF Queue
  <1>3. Head(call.todo) = Queue[1] /\ Len(Queue) = 1 /\ DOMAIN Queue = 1..1
    BY <1>1, <1>2
  <1>4. CASE (Missing(Queue[1]) \/ TooBig(Queue[1])) /\ call' = Error /\ UNCHANGED <<sent, faults>>
    BY <1>4, <1>3 DEF Refuses, Missing
  <1>5. CASE call' = [call EXCEPT !.caption = FALSE] /\ UNCHANGED <<sent, faults>>
    <2>1. /\ call'.result = call.result /\ call'.single = call.single /\ call'.todo = call.todo
          /\ call'.op = call.op
      BY <1>5 DEF IsCall
    <2> QED
      BY <2>1, <1>5 DEF Stays, Shape, Queue, Waiting
  <1>6. CASE ~Missing(Queue[1]) /\ Upload(<<Queue[1].id>>, Idle)
    BY <1>6, <1>3 DEF Upload, NoFault, Fault, Sends, Breaks, Missing
  <1> QED
    BY <1>3, <1>4, <1>5, <1>6 DEF SendOne

\* One photo of the fallback to single photos.
LEMMA OnePhoto ==
  ASSUME IsCall(call), Waiting, Shape, Sending("album"), sendPhoto
  PROVE  Stays \/ Refuses \/ Sends \/ Breaks
  <1>1. PICK a : a = call.single
    OBVIOUS
  <1>2. PICK b : b = call.todo
    OBVIOUS
  <1>3. a \in Seq(Item) /\ b \in Seq(Item) /\ a # <<>> /\ call.op = "album"
    BY <1>1, <1>2 DEF Shape, sendPhoto, Sending
  <1>4. PICK q : q = a \o b /\ q = Queue
    BY <1>1, <1>2 DEF Queue
  <1>5. /\ q \in Seq(Item) /\ q # <<>> /\ q[1] = Head(a) /\ Len(q) = Len(a) + Len(b)
        /\ Tail(a) \in Seq(Item) /\ Tail(a) \o b = Tail(q)
    <2>1. /\ a \o b \in Seq(Item) /\ a \o b # <<>> /\ (a \o b)[1] = Head(a)
          /\ Tail(a) \in Seq(Item) /\ Tail(a) \o b = Tail(a \o b)
          /\ Len(a \o b) = Len(a) + Len(b)
      BY <1>3, TailOfJoin
    <2> QED
      BY <2>1, <1>4
  <1>6. PICK next : next = IF Len(a) = 1 /\ b = <<>> THEN Idle
                           ELSE [call EXCEPT !.single = Tail(@), !.caption = FALSE]
    OBVIOUS
  <1>7. SendOne(q[1], next)
    BY <1>1, <1>2, <1>5, <1>6 DEF sendPhoto
  <1>8. CASE (Missing(q[1]) \/ TooBig(q[1])) /\ call' = Error /\ UNCHANGED <<sent, faults>>
    <2>1. 1 \in DOMAIN q
      BY <1>5
    <2> QED
      BY <2>1, <1>4, <1>8 DEF Refuses, Missing
  <1>9. CASE call' = [call EXCEPT !.caption = FALSE] /\ UNCHANGED <<sent, faults>>
    <2>1. /\ call'.result = call.result /\ call'.single = call.single /\ call'.todo = call.todo
          /\ call'.op = call.op
      BY <1>9 DEF IsCall
    <2> QED
      BY <2>1, <1>9 DEF Stays, Shape, Queue, Waiting
  <1>10. CASE ~Missing(q[1]) /\ sent' = Append(sent, <<q[1].id>>) /\ UNCHANGED faults /\ call' = next
    <2>1. CASE Len(a) = 1 /\ b = <<>>
      BY <2>1, <1>4, <1>5, <1>6, <1>10 DEF Sends, Missing
    <2>2. CASE ~(Len(a) = 1 /\ b = <<>>)
      <3>1. call' = [call EXCEPT !.single = Tail(@), !.caption = FALSE]
        BY <2>2, <1>6, <1>10
      <3>2. call'.result = "pending" /\ call'.single = Tail(a) /\ call'.todo = b /\ call'.op = "album"
        BY <3>1, <1>1, <1>2, <1>3 DEF IsCall, Waiting
      <3>3. Queue' = Tail(q)
        BY <3>2, <1>5 DEF Queue
      <3>4. Len(q) > 1
        <4>1. Len(a) \in Nat /\ Len(b) \in Nat /\ Len(a) # 0 /\ (Len(b) = 0 => b = <<>>)
          BY <1>3
        <4>2. PICK m \in Nat : m = Len(a)
          BY <4>1
        <4>3. PICK n \in Nat : n = Len(b)
          BY <4>1
        <4>4. m # 0 /\ (n = 0 => b = <<>>) /\ ~(m = 1 /\ b = <<>>) /\ Len(q) = m + n
          BY <4>1, <4>2, <4>3, <2>2, <1>5
        <4> QED
          BY <4>4
      <3>5. Tail(q) # <<>>
        <4>1. Len(Tail(q)) = Len(q) - 1
          BY <1>5
        <4>2. Len(Tail(q)) # 0
          BY <4>1, <3>4, <1>5
        <4>3. Len(<<>>) = 0
          OBVIOUS
        <4> QED
          BY <4>2, <4>3, Zenon
      <3> QED
        BY <3>2, <3>3, <3>4, <3>5, <1>3, <1>4, <1>5, <1>10 DEF Sends, Waiting, Shape, Missing
    <2> QED
      BY <2>1, <2>2
  <1>11. CASE Fault /\ sent' \in {sent, Append(sent, <<q[1].id>>)} /\ call' = Error
    BY <1>11, <1>4 DEF Breaks, Fault
  <1> QED
    BY <1>7, <1>8, <1>9, <1>10, <1>11 DEF SendOne, Upload, NoFault

\* One chunk of an album, with its fallback and its resend.
LEMMA OneChunk ==
  ASSUME IsCall(call), Waiting, Shape, sendMediaGroup
  PROVE  Stays \/ Refuses
  <1>1. PICK t : t = call.todo
    OBVIOUS
  <1>2. t \in Seq(Item) /\ Len(t) \in Nat /\ call.single = <<>> /\ call.op = "album"
    BY <1>1 DEF Shape, sendMediaGroup, Sending
  <1>3. Queue = t /\ t # <<>>
    BY <1>1, <1>2 DEF Queue, Shape
  <1>4. PICK n \in Nat : n = (IF Len(t) < AlbumChunk THEN Len(t) ELSE AlbumChunk) /\ n <= Len(t)
    BY <1>2, JobAssumption
  <1>5. PICK p : p = SubSeq(t, 1, n)
    OBVIOUS
  <1>6. PICK q : q = SubSeq(t, n + 1, Len(t))
    OBVIOUS
  <1>7. /\ p \in Seq(Item) /\ q \in Seq(Item) /\ Len(p) = n /\ p \o q = t
        /\ \A i \in 1..n : p[i] = t[i]
    BY <1>2, <1>4, <1>5, <1>6, SplitJoin
  <1>8. NextChunk = p
    BY <1>1, <1>4, <1>5 DEF NextChunk
  <1>9. UNCHANGED <<sent, faults>>
    BY DEF sendMediaGroup
  <1>10. CASE \E i \in DOMAIN p : Missing(p[i])
    <2>1. PICK i \in DOMAIN p : Missing(p[i])
      BY <1>10
    <2>2. i \in DOMAIN t /\ t[i] = p[i]
      BY <1>2, <1>4, <1>7
    <2>3. call' = Error
      BY <1>8, <1>10 DEF sendMediaGroup
    <2> QED
      BY <2>1, <2>2, <2>3, <1>3, <1>9 DEF Refuses, Missing
  <1>11. CASE ~\E i \in DOMAIN p : Missing(p[i])
    <2>1. call' = [call EXCEPT !.single = p, !.todo = q]
      BY <1>1, <1>6, <1>7, <1>8, <1>11 DEF sendMediaGroup
    <2>2. call'.result = "pending" /\ call'.single = p /\ call'.todo = q /\ call'.op = "album"
      BY <2>1, <1>2 DEF IsCall, Waiting
    <2>3. Queue' = t
      BY <2>2, <1>7 DEF Queue
    <2> QED
      BY <2>2, <2>3, <1>3, <1>7, <1>9 DEF Stays, Shape, Waiting
  <1> QED
    BY <1>10, <1>11

\* Every step of the sender is one of the four.
LEMMA SenderEffect ==
  ASSUME IsCall(call), Waiting => Shape, SenderNext
  PROVE  /\ Waiting /\ Shape /\ UNCHANGED senderFrame
         /\ Stays \/ Refuses \/ Sends \/ Breaks
  <1>1. CASE sendFile \/ sendAudio
    BY <1>1, OneFile DEF sendFile, sendAudio, Sending, Waiting
  <1>2. CASE sendMediaGroup
    BY <1>2, OneChunk DEF sendMediaGroup, Sending, Waiting
  <1>3. CASE sendPhoto
    <2>1. Sending("album")
      BY <1>3 DEF sendPhoto
    <2> QED
      BY <1>3, <2>1, OnePhoto DEF sendPhoto, Sending, Waiting
  <1> QED
    BY <1>1, <1>2, <1>3 DEF SenderNext

-----------------------------------------------------------------------------
(* What reaches the chat.  Before the first upload of an attempt nothing is  *)
(* on its way; then the items of the running call, and those the loops still *)
(* have before them, are not in the chat yet.                                *)
Before == {"start", "download", "again", "audio", "ratio", "compress", "fit", "send", "photos",
           "info", "mux", "sar", "thread", "pieces"}
Looping == {"pinterest", "reddit"}

Clean == attempt = 1 \/ faults = 0
Smooth == faults = 0 /\ \A i \in DOMAIN files : ~TooBig(files[i])

InOrder ==
    \A i, j \in DOMAIN sent : i < j =>
        sent[i][1] # sent[j][1] /\ (kind \notin Looping => sent[i][1] < sent[j][1])

(* The running call holds its items in their order, above those in the chat. *)
CallOK ==
    /\ call.result \in {"pending", "ok", "err"}
    /\ Waiting => Shape /\ Rising(Queue)

Apart ==
    Waiting => \A x \in InChat : \A y \in Ids(Queue) : x # y /\ (kind \notin Looping => x < y)

(* The loops of sendPinterestItems and sendRedditMedia: the first Pos items  *)
(* are behind them, the images among these collected for the album.          *)
Pos == Len(files) - Len(loop.items)

Collecting == pc \in {"items", "itemsent", "done"} \/ (pc = "album" /\ kind = "reddit")

Post == files \in Seq(Item) /\ \A i \in DOMAIN files : files[i].id = i

Ahead == loop.items \in Seq(Item) /\ Len(loop.items) <= Len(files)
         /\ \A i \in DOMAIN loop.items : loop.items[i] = files[i + Pos]

Collected ==
    /\ loop.images \in Seq(Item) /\ Rising(loop.images)
    /\ \A i \in DOMAIN loop.images :
          loop.images[i].id \in Fits /\ loop.images[i].id <= Pos /\ loop.images[i] = files[loop.images[i].id]

LoopOK ==
    /\ pc \in {"items", "itemsent"} => kind \in Looping
    /\ Collecting => Post /\ Ahead /\ Collected
    /\ Collecting /\ kind = "reddit" => \A i \in DOMAIN files : files[i].size # 0
    /\ pc \in {"items", "article"} => ~Waiting
    /\ pc = "itemsent" => /\ loop.items # <<>> /\ Pos + 1 \in Fits
                          /\ Waiting => Queue = <<files[Pos + 1]>>

LoopApart ==
    /\ pc \in {"items", "itemsent"} => InChat \cap Ids(loop.images) = {}
    /\ pc = "items" \/ (pc = "itemsent" /\ Waiting) => \A x \in InChat : x \in 1..Pos
    /\ pc = "itemsent" => \A x \in InChat : x \in 1..(Pos + 1)

(* The images of a TikTok carousel and its sound.                            *)
CarouselOK ==
    pc = "carousel" =>
        /\ kind = "tiktok" /\ files \in Seq(Item)
        /\ \A i \in DOMAIN files :
              files[i].size # 0 /\ (files[i].type = "audio" => files[i].id = MaxFiles + 1)
        /\ Waiting => \A y \in Ids(Queue) : y <= MaxFiles
        /\ Clean => \A x \in InChat : x <= MaxFiles

Sounds == Ids(OfType(files, "audio"))
OneShot == {"sent", "played", "pin", "xalbum", "insta", "tiksent", "sound", "done", "album"}

(* Where the body goes on whether or not the upload worked.                  *)
Sure == pc \in {"itemsent", "done", "sound"} \/ (pc = "album" /\ kind = "reddit")

There(q) == \A i \in DOMAIN q : q[i].size # 0
Small(q) == \A i \in DOMAIN q : ~TooBig(q[i])

(* Without failing calls what is in the chat, on its way and before the loop *)
(* is what the body means to deliver.                                        *)
WholePost ==
    /\ pc \in OneShot /\ Waiting /\ There(Queue) => InChat \cup Ids(Queue) = Wanted
    /\ pc \in OneShot /\ call.result = "ok" => InChat = Wanted
    /\ pc = "carousel" /\ Waiting => InChat \cup Ids(Queue) \cup Sounds = Wanted
    /\ pc = "carousel" /\ call.result = "ok" => InChat \cup Sounds = Wanted
    /\ pc = "article" => InChat = Wanted

WholeLoop ==
    /\ pc = "items" \/ (pc = "itemsent" /\ Waiting) =>
          InChat \cup Ids(loop.images) = Fits \cap 1..Pos
    /\ pc = "itemsent" /\ call.result = "ok" =>
          InChat \cup Ids(loop.images) = Fits \cap 1..(Pos + 1)
    /\ pc \in {"items", "itemsent"} /\ kind = "reddit" =>
          loop.handled = Cardinality(Fits \cap 1..Pos) /\ loop.handled <= MaxItems
    /\ pc = "itemsent" /\ kind = "reddit" => loop.handled < MaxItems

WholeCall == Sure => call.result # "err" /\ (Waiting => There(Queue) /\ Small(Queue))

Blank == call = Idle /\ files = <<>> /\ (Clean => sent = <<>>)

OnTheWay ==
    /\ CallOK /\ LoopOK /\ CarouselOK
    /\ Clean => Apart /\ LoopApart
    /\ Smooth => WholePost /\ WholeLoop /\ WholeCall

Chat ==
    /\ faults \in Nat
    /\ sent \in Seq(Seq(Nat)) /\ \A i \in DOMAIN sent : Len(sent[i]) = 1
    /\ task = "retry" /\ faults = 0 => sent = <<>>
    /\ Clean => InOrder
    /\ row = "completed" /\ Smooth => InChat = Wanted

FlowInv ==
    /\ Chat
    /\ task = "run" /\ pc \in Before => Blank
    /\ task = "run" /\ pc \notin Before => OnTheWay

-----------------------------------------------------------------------------
\* The head of a queue and the others.
LEMMA QueueHead ==
  ASSUME NEW q \in Seq(Item), q # <<>>, Rising(q)
  PROVE  /\ Tail(q) \in Seq(Item) /\ Rising(Tail(q))
         /\ q[1].id \in Nat /\ q[1].id \in Ids(q)
         /\ Ids(q) = {q[1].id} \cup Ids(Tail(q))
         /\ \A y \in Ids(Tail(q)) : q[1].id < y /\ y \in Nat
         /\ Len(q) = 1 => Ids(q) = {q[1].id}
         /\ \A y \in Ids(q) : y \in Nat
  <1>1. /\ Len(q) \in Nat /\ Len(q) >= 1 /\ DOMAIN q = 1..Len(q) /\ \A i \in 1..Len(q) : q[i] \in Item
    OBVIOUS
  <1>2. PICK t : t = Tail(q)
    OBVIOUS
  <1>3. t \in Seq(Item) /\ Len(t) = Len(q) - 1 /\ \A i \in 1..(Len(q) - 1) : t[i] = q[i + 1]
    BY <1>1, <1>2
  <1>4. DOMAIN t = 1..(Len(q) - 1)
    BY <1>3, <1>1
  <1>5. \A i \in 1..Len(q) : q[i].id \in Nat
    BY <1>1 DEF Item
  <1>6. ASSUME NEW i \in DOMAIN t PROVE t[i] = q[i + 1] /\ i + 1 \in DOMAIN q /\ 1 \in DOMAIN q /\ 1 < i + 1
    BY <1>1, <1>3, <1>4
  <1>7. Rising(t)
    <2>1. ASSUME NEW i \in DOMAIN t, NEW j \in DOMAIN t, i < j PROVE t[i].id < t[j].id
      <3>1. i + 1 < j + 1
        BY <2>1, <1>1, <1>4
      <3>2. q[i + 1].id < q[j + 1].id
        BY <3>1, <1>6 DEF Rising
      <3> QED
        BY <3>2, <1>6
    <2> QED
      BY <2>1 DEF Rising
  <1>8. \A y \in Ids(t) : q[1].id < y /\ y \in Nat
    <2>1. ASSUME NEW i \in DOMAIN t PROVE q[1].id < t[i].id /\ t[i].id \in Nat
      <3>1. q[1].id < q[i + 1].id
        BY <1>6 DEF Rising
      <3> QED
        BY <3>1, <1>5, <1>6, <1>1
    <2> QED
      BY <2>1 DEF Ids
  <1>9. Ids(q) = {q[1].id} \cup Ids(t)
    <2>1. ASSUME NEW i \in DOMAIN q PROVE q[i].id \in {q[1].id} \cup Ids(t)
      <3>1. CASE i = 1
        BY <3>1
      <3>2. CASE i # 1
        <4>1. i - 1 \in DOMAIN t /\ (i - 1) + 1 = i
          BY <3>2, <1>1, <1>4
        <4>2. t[i - 1] = q[i]
          BY <4>1, <1>6
        <4> QED
          BY <4>1, <4>2 DEF Ids
      <3> QED
        BY <3>1, <3>2
    <2>2. ASSUME NEW i \in DOMAIN t PROVE t[i].id \in Ids(q)
      BY <1>6 DEF Ids
    <2>3. q[1].id \in Ids(q)
      BY <1>1 DEF Ids
    <2> QED
      BY <2>1, <2>2, <2>3 DEF Ids
  <1>10. Len(q) = 1 => Ids(q) = {q[1].id}
    BY <1>1 DEF Ids
  <1>11. \A y \in Ids(q) : y \in Nat
    BY <1>1, <1>5 DEF Ids
  <1> QED
    BY <1>1, <1>2, <1>3, <1>5, <1>7, <1>8, <1>9, <1>10, <1>11

\* One more message in the chat.
LEMMA ChatGrows ==
  ASSUME sent \in Seq(Seq(Nat)), \A i \in DOMAIN sent : Len(sent[i]) = 1,
         NEW x \in Nat, sent' = Append(sent, <<x>>), UNCHANGED kind
  PROVE  /\ sent' \in Seq(Seq(Nat)) /\ (\A i \in DOMAIN sent' : Len(sent'[i]) = 1)
         /\ InChat' = InChat \cup {x}
         /\ InOrder /\ (\A y \in InChat : y # x /\ (kind \notin Looping => y < x)) => InOrder'
  <1>1. /\ Len(sent) \in Nat /\ DOMAIN sent = 1..Len(sent)
        /\ sent' \in Seq(Seq(Nat)) /\ DOMAIN sent' = 1..(Len(sent) + 1)
        /\ sent'[Len(sent) + 1] = <<x>> /\ \A i \in 1..Len(sent) : sent'[i] = sent[i]
    OBVIOUS
  <1>2. \A i \in DOMAIN sent' : Len(sent'[i]) = 1
    <2>1. Len(<<x>>) = 1
      OBVIOUS
    <2> QED
      BY <2>1, <1>1
  <1>3. \A i \in DOMAIN sent : DOMAIN sent[i] = 1..1 /\ sent[i][1] \in InChat
    <2>1. \A i \in DOMAIN sent : DOMAIN sent[i] = 1..1
      OBVIOUS
    <2> QED
      BY <2>1 DEF InChat
  <1>4. DOMAIN <<x>> = 1..1 /\ <<x>>[1] = x
    OBVIOUS
  <1>5. InChat' = InChat \cup {x}
    <2>1. ASSUME NEW y \in InChat PROVE y \in InChat'
      <3>1. PICK i \in DOMAIN sent : y \in {sent[i][a] : a \in DOMAIN sent[i]}
        BY DEF InChat
      <3>2. i \in DOMAIN sent' /\ sent'[i] = sent[i]
        BY <1>1
      <3> QED
        BY <3>1, <3>2 DEF InChat
    <2>2. x \in InChat'
      <3>1. PICK n \in Nat : n = Len(sent) + 1
        BY <1>1
      <3>2. n \in DOMAIN sent' /\ sent'[n] = <<x>>
        BY <3>1, <1>1
      <3>3. 1 \in DOMAIN sent'[n] /\ sent'[n][1] = x
        BY <3>2
      <3>4. \E a \in DOMAIN sent'[n] : sent'[n][a] = x
        BY <3>3
      <3>5. \A i \in DOMAIN sent' : \A a \in DOMAIN sent'[i] : sent'[i][a] \in InChat'
        BY DEF InChat
      <3> QED
        BY ONLY <3>2, <3>4, <3>5
    <2>3. ASSUME NEW y \in InChat' PROVE y \in InChat \cup {x}
      <3>1. PICK i \in DOMAIN sent' : y \in {sent'[i][a] : a \in DOMAIN sent'[i]}
        BY DEF InChat
      <3>2. CASE i = Len(sent) + 1
        BY <3>1, <3>2, <1>1, <1>4
      <3>3. CASE i \in 1..Len(sent)
        BY <3>1, <3>3, <1>1 DEF InChat
      <3> QED
        BY <3>2, <3>3, <1>1
    <2> QED
      BY <2>1, <2>2, <2>3
  <1>6. ASSUME InOrder, \A y \in InChat : y # x /\ (kind \notin Looping => y < x)
        PROVE  InOrder'
    <2>1. ASSUME NEW i \in DOMAIN sent', NEW j \in DOMAIN sent', i < j
          PROVE  sent'[i][1] # sent'[j][1] /\ (kind' \notin Looping => sent'[i][1] < sent'[j][1])
      <3>1. i \in DOMAIN sent
        BY <2>1, <1>1
      <3>2. CASE j = Len(sent) + 1
        BY <3>1, <3>2, <1>1, <1>3, <1>4, <1>6
      <3>3. CASE j \in DOMAIN sent
        BY <3>1, <3>3, <2>1, <1>1, <1>6 DEF InOrder
      <3> QED
        BY <3>2, <3>3, <1>1
    <2> QED
      BY <2>1 DEF InOrder
  <1> QED
    BY <1>1, <1>2, <1>5, <1>6

\* What the body means to deliver depends on the kind and the files only, what
\* the loops have before them on the loop's locals as well.
LEMMA FilesKept ==
  ASSUME UNCHANGED <<kind, files>>
  PROVE  UNCHANGED <<Wanted, Fits, Sounds>> /\ (Post => Post')
  <1>1. UNCHANGED Fits
    BY DEF Fits
  <1> QED
    BY <1>1 DEF Wanted, Sounds, Post

\* The loop's position depends on its items.
LEMMA LoopKeptAhead ==
  ASSUME UNCHANGED <<kind, files, loop>>
  PROVE  UNCHANGED Pos /\ (Ahead => Ahead') /\ (Collected => Collected')
         /\ UNCHANGED Ids(loop.images)
  <1>1. UNCHANGED Fits
    BY FilesKept
  <1>2. UNCHANGED Pos
    BY DEF Pos
  <1>3. Ahead => Ahead'
    BY <1>2 DEF Ahead
  <1>4. Collected => Collected'
    BY <1>1, <1>2 DEF Collected
  <1> QED
    BY <1>2, <1>3, <1>4

\* The chat is in order as long as nothing is sent.
LEMMA ChatKept ==
  ASSUME UNCHANGED sent PROVE UNCHANGED InChat /\ (UNCHANGED kind => (InOrder => InOrder'))
  BY DEF InChat, InOrder

\* A step of the sender moves one item from the running call to the chat, or none.
LEMMA SenderFlow ==
  ASSUME IsCall(call), row = "none", FlowInv, SenderNext PROVE FlowInv'
  <1>1. task = "run" /\ Waiting
    BY DEF SenderNext, sendFile, sendAudio, sendMediaGroup, sendPhoto, Sending, Waiting
  <1>2. pc \notin Before
    BY <1>1 DEF FlowInv, Blank, Idle, Waiting
  <1>3. OnTheWay /\ Chat
    BY <1>1, <1>2 DEF FlowInv
  <1>4. Shape /\ Rising(Queue)
    BY <1>1, <1>3 DEF OnTheWay, CallOK
  <1>5. UNCHANGED senderFrame /\ (Stays \/ Refuses \/ Sends \/ Breaks)
    BY <1>4, SenderEffect
  <1>6. UNCHANGED <<kind, task, attempt, pc, row, files, loop>>
    BY <1>5 DEF senderFrame
  <1>7. /\ UNCHANGED <<Wanted, Fits, Sounds, Pos>> /\ (Ahead => Ahead') /\ (Post => Post')
        /\ (Collected => Collected') /\ UNCHANGED Ids(loop.images)
    BY <1>6, FilesKept, LoopKeptAhead
  <1>8. faults' \in Nat /\ (faults' = 0 => faults = 0 /\ ~Breaks)
    BY <1>3, <1>5 DEF Chat, Stays, Refuses, Sends, Breaks
  <1>9. (Clean' => Clean) /\ (Smooth' => Smooth /\ ~Breaks)
    BY <1>6, <1>8 DEF Clean, Smooth
  <1>10. PICK q : q = Queue /\ q \in Seq(Item) /\ q # <<>> /\ Rising(q)
    BY <1>4, ConcatProperties DEF Queue, Shape
  <1>11. PICK h \in Nat : h = q[1].id
    BY <1>10, QueueHead
  <1>12. /\ Ids(q) = {h} \cup Ids(Tail(q)) /\ h \in Ids(q)
         /\ \A y \in Ids(Tail(q)) : h < y /\ y \in Nat
         /\ Tail(q) \in Seq(Item) /\ Rising(Tail(q)) /\ (Len(q) = 1 => Ids(q) = {h})
    BY <1>10, <1>11, QueueHead
  <1>13. Clean => \A x \in InChat : \A y \in Ids(q) : x # y /\ (kind \notin Looping => x < y)
    BY <1>1, <1>3, <1>10 DEF OnTheWay, Apart
  <1>14. ASSUME sent' = sent \/ (sent' = Append(sent, <<h>>))
         PROVE  /\ Chat'
                /\ InChat' = InChat \/ InChat' = InChat \cup {h}
                /\ sent' = Append(sent, <<h>>) => InChat' = InChat \cup {h}
    <2>1. CASE sent' = Append(sent, <<h>>)
      <3>1. sent \in Seq(Seq(Nat)) /\ \A i \in DOMAIN sent : Len(sent[i]) = 1
        BY <1>3 DEF Chat
      <3>2. /\ sent' \in Seq(Seq(Nat)) /\ (\A i \in DOMAIN sent' : Len(sent'[i]) = 1)
            /\ InChat' = InChat \cup {h}
            /\ InOrder /\ (\A y \in InChat : y # h /\ (kind \notin Looping => y < h)) => InOrder'
        BY <2>1, <3>1, <1>6, ChatGrows
      <3>3. Clean' => InOrder'
        BY <3>2, <1>3, <1>9, <1>12, <1>13 DEF Chat
      <3>4. task' = "run" /\ row' = "none"
        BY <1>1, <1>6
      <3>5. Chat'
        BY <3>2, <3>3, <3>4, <1>8 DEF Chat
      <3> QED
        BY <3>2, <3>5
    <2>2. CASE sent' = sent /\ sent' # Append(sent, <<h>>)
      <3>1. UNCHANGED InChat /\ (InOrder => InOrder')
        BY <2>2, <1>6, ChatKept
      <3>2. Chat'
        BY <2>2, <3>1, <1>1, <1>3, <1>6, <1>8, <1>9 DEF Chat
      <3> QED
        BY <2>2, <3>1, <3>2
    <2> QED
      BY <1>14, <2>1, <2>2
  <1>15. CASE Stays
    <2>1. Waiting' /\ Shape' /\ Queue' = q /\ UNCHANGED sent /\ UNCHANGED faults
      BY <1>10, <1>15 DEF Stays
    <2>2. UNCHANGED InChat /\ Chat'
      BY <2>1, <1>14, ChatKept
    <2>3. CallOK'
      BY <2>1, <1>10 DEF CallOK, Waiting
    <2>4. LoopOK'
      BY <2>1, <1>1, <1>3, <1>6, <1>7, <1>10 DEF OnTheWay, LoopOK, Collecting
    <2>5. CarouselOK'
      BY <2>1, <2>2, <1>1, <1>3, <1>6, <1>9, <1>10 DEF OnTheWay, CarouselOK
    <2>6. Clean' => Apart' /\ LoopApart'
      BY <2>1, <2>2, <1>1, <1>3, <1>6, <1>7, <1>9, <1>10 DEF OnTheWay, Apart, LoopApart
    <2>7. Smooth' => WholePost' /\ WholeLoop' /\ WholeCall'
      <3>1. SUFFICES ASSUME Smooth' PROVE WholePost' /\ WholeLoop' /\ WholeCall'
        OBVIOUS
      <3>2. WholePost /\ WholeLoop /\ WholeCall /\ Waiting' /\ call'.result = "pending"
        BY <3>1, <2>1, <1>3, <1>9 DEF OnTheWay, Waiting
      <3>3. WholePost'
        BY <3>2, <2>1, <2>2, <1>1, <1>6, <1>7, <1>10 DEF WholePost
      <3>4. WholeLoop'
        BY <3>2, <2>1, <2>2, <1>1, <1>6, <1>7, <1>10 DEF WholeLoop
      <3>5. WholeCall'
        BY <3>2, <2>1, <2>2, <1>1, <1>6, <1>7, <1>10 DEF WholeCall, Sure
      <3> QED
        BY <3>3, <3>4, <3>5
    <2> QED
      BY <2>2, <2>3, <2>4, <2>5, <2>6, <2>7, <1>2, <1>6 DEF FlowInv, OnTheWay
  <1>16. CASE Refuses \/ Breaks
    <2>1. call' = Error /\ (sent' = sent \/ (sent' = Append(sent, <<h>>)))
      BY <1>10, <1>11, <1>16 DEF Refuses, Breaks
    <2>2. call'.result = "err" /\ ~Waiting'
      BY <2>1 DEF Error, Idle, Waiting
    <2>3. Chat' /\ (InChat' = InChat \/ InChat' = InChat \cup {h})
      BY <2>1, <1>14
    <2>4. CallOK'
      BY <2>2 DEF CallOK
    <2>5. LoopOK'
      BY <2>2, <1>1, <1>3, <1>6, <1>7 DEF OnTheWay, LoopOK, Collecting
    <2>6. CarouselOK'
      BY <2>2, <2>3, <1>1, <1>3, <1>6, <1>9, <1>10, <1>12 DEF OnTheWay, CarouselOK
    <2>7. Clean' => Apart' /\ LoopApart'
      <3>1. pc \in {"items", "itemsent"} =>
               /\ pc = "itemsent" /\ Pos + 1 \in Fits /\ Post /\ Ahead /\ Collected
               /\ q = <<files[Pos + 1]>>
        BY <1>1, <1>3, <1>10 DEF OnTheWay, LoopOK, Collecting
      <3>2. pc = "itemsent" => h = Pos + 1 /\ h \in 1..(Pos + 1) /\ h \notin Ids(loop.images)
        <4>1. SUFFICES ASSUME pc = "itemsent" PROVE h = Pos + 1 /\ h \in 1..(Pos + 1) /\ h \notin Ids(loop.images)
          OBVIOUS
        <4>2. Pos + 1 \in DOMAIN files /\ q[1] = files[Pos + 1]
          BY <4>1, <3>1 DEF Fits
        <4>3. h = Pos + 1
          BY <4>2, <4>1, <3>1, <1>11 DEF Post
        <4>4. Pos \in Nat
          BY <4>1, <3>1 DEF Pos, Post, Ahead
        <4>5. h \notin Ids(loop.images)
          BY <4>1, <4>3, <4>4, <3>1 DEF Collected, Ids
        <4> QED
          BY <4>3, <4>4, <4>5
      <3> QED
        BY <3>1, <3>2, <2>2, <2>3, <1>1, <1>3, <1>6, <1>7, <1>9 DEF OnTheWay, Apart, LoopApart
    <2>8. Smooth' => WholePost' /\ WholeLoop' /\ WholeCall'
      <3>1. SUFFICES ASSUME Smooth' PROVE WholePost' /\ WholeLoop' /\ WholeCall'
        OBVIOUS
      <3>2. Refuses /\ WholeCall
        BY <3>1, <1>3, <1>9, <1>16 DEF OnTheWay
      <3>3. ~Sure
        BY <3>2, <1>1, <1>10 DEF WholeCall, Refuses, There, Small
      <3>4. pc # "items" /\ pc # "article"
        BY <1>1, <1>3 DEF OnTheWay, LoopOK, Waiting
      <3> QED
        BY <3>3, <3>4, <2>2, <1>6 DEF WholePost, WholeLoop, WholeCall, Sure
    <2> QED
      BY <2>3, <2>4, <2>5, <2>6, <2>7, <2>8, <1>2, <1>6 DEF FlowInv, OnTheWay
  <1>17. CASE Sends
    <2>1. sent' = Append(sent, <<h>>) /\ UNCHANGED faults
      BY <1>10, <1>11, <1>17 DEF Sends
    <2>2. Chat' /\ InChat' = InChat \cup {h}
      BY <2>1, <1>14
    <2>3. pc # "items" /\ pc # "article"
      BY <1>1, <1>3 DEF OnTheWay, LoopOK, Waiting
    <2>4. pc = "itemsent" =>
             /\ Pos + 1 \in Fits /\ Post /\ Ahead /\ Collected /\ Pos \in Nat
             /\ q = <<files[Pos + 1]>> /\ h = Pos + 1 /\ h \notin Ids(loop.images)
             /\ Len(q) = 1
      <3>1. SUFFICES ASSUME pc = "itemsent" PROVE
             /\ Pos + 1 \in Fits /\ Post /\ Ahead /\ Collected /\ Pos \in Nat
             /\ q = <<files[Pos + 1]>> /\ h = Pos + 1 /\ h \notin Ids(loop.images)
             /\ Len(q) = 1
        OBVIOUS
      <3>2. Pos + 1 \in Fits /\ Post /\ Ahead /\ Collected /\ q = <<files[Pos + 1]>>
        BY <3>1, <1>1, <1>3, <1>10 DEF OnTheWay, LoopOK, Collecting
      <3>3. Pos + 1 \in DOMAIN files /\ q[1] = files[Pos + 1] /\ Len(q) = 1
        BY <3>2 DEF Fits
      <3>4. h = Pos + 1
        BY <3>2, <3>3, <1>11 DEF Post
      <3>5. Pos \in Nat
        BY <3>2 DEF Pos, Post, Ahead
      <3>6. h \notin Ids(loop.images)
        BY <3>4, <3>5, <3>2 DEF Collected, Ids
      <3> QED
        BY <3>2, <3>3, <3>4, <3>5, <3>6
    <2>5. LoopOK'
      <3>1. Len(q) = 1 => ~Waiting'
        BY <1>10, <1>17 DEF Sends, Idle, Waiting
      <3> QED
        BY <2>3, <2>4, <3>1, <1>1, <1>3, <1>6, <1>7 DEF OnTheWay, LoopOK, Collecting
    <2>6. CASE Len(q) = 1 /\ call' = Idle
      <3>1. call'.result = "ok" /\ ~Waiting' /\ Ids(q) = {h}
        BY <2>6, <1>12 DEF Idle, Waiting
      <3>2. CallOK'
        BY <3>1 DEF CallOK
      <3>3. CarouselOK'
        BY <3>1, <2>2, <1>1, <1>3, <1>6, <1>9, <1>10, <1>12 DEF OnTheWay, CarouselOK
      <3>4. Clean' => Apart' /\ LoopApart'
        BY <3>1, <2>2, <2>3, <2>4, <1>1, <1>3, <1>6, <1>7, <1>9 DEF OnTheWay, Apart, LoopApart
      <3>5. Smooth' => WholePost' /\ WholeLoop' /\ WholeCall'
        <4>1. SUFFICES ASSUME Smooth' PROVE WholePost' /\ WholeLoop' /\ WholeCall'
          OBVIOUS
        <4>2. WholePost /\ WholeLoop /\ WholeCall /\ Waiting
          BY <4>1, <1>1, <1>3, <1>9 DEF OnTheWay
        <4>3. There(q)
          BY <1>10, <1>17, <2>6 DEF There, Sends
        <4>4. WholePost'
          BY <4>2, <4>3, <3>1, <2>2, <2>3, <1>6, <1>7, <1>10 DEF WholePost
        <4>5. WholeLoop'
          <5>1. pc = "itemsent" => InChat' \cup Ids(loop.images) = Fits \cap 1..(Pos + 1)
            <6>1. pc = "itemsent" => InChat \cup Ids(loop.images) = Fits \cap 1..Pos
              BY <4>2 DEF WholeLoop
            <6> QED
              BY <6>1, <2>2, <2>4
          <5> QED
            BY <5>1, <4>2, <3>1, <2>3, <1>6, <1>7 DEF WholeLoop
        <4>6. WholeCall'
          BY <3>1 DEF WholeCall
        <4> QED
          BY <4>4, <4>5, <4>6
      <3> QED
        BY <2>2, <2>5, <3>2, <3>3, <3>4, <3>5, <1>2, <1>6 DEF FlowInv, OnTheWay
    <2>7. CASE Len(q) > 1 /\ Waiting' /\ Shape' /\ Queue' = Tail(q)
      <3>1. pc # "itemsent"
        BY <2>4, <2>7
      <3>2. CallOK'
        BY <2>7, <1>12 DEF CallOK, Waiting
      <3>3. CarouselOK'
        BY <2>7, <2>2, <1>1, <1>3, <1>6, <1>9, <1>10, <1>12 DEF OnTheWay, CarouselOK
      <3>4. Clean' => Apart' /\ LoopApart'
        <4>1. Clean' => Apart'
          <5>1. ASSUME Clean', NEW x \in InChat', NEW y \in Ids(Tail(q))
                PROVE  x # y /\ (kind \notin Looping => x < y)
            <6>1. y \in Ids(q) /\ h < y /\ y \in Nat
              BY <5>1, <1>12
            <6>2. x \in InChat \/ x = h
              BY <5>1, <2>2
            <6> QED
              BY <6>1, <6>2, <5>1, <1>9, <1>13
          <5> QED
            BY <5>1, <2>7, <1>6 DEF Apart
        <4> QED
          BY <4>1, <3>1, <2>3, <1>6 DEF LoopApart
      <3>5. Smooth' => WholePost' /\ WholeLoop' /\ WholeCall'
        <4>1. SUFFICES ASSUME Smooth' PROVE WholePost' /\ WholeLoop' /\ WholeCall'
          OBVIOUS
        <4>2. WholePost /\ WholeLoop /\ WholeCall /\ Waiting
          BY <4>1, <1>1, <1>3, <1>9 DEF OnTheWay
        <4>3. There(Tail(q)) => There(q)
          <5>1. ASSUME There(Tail(q)), NEW i \in DOMAIN q PROVE q[i].size # 0
            <6>1. q[1].size # 0
              BY <1>10, <1>17 DEF Sends
            <6>2. i # 1 => i - 1 \in DOMAIN Tail(q) /\ Tail(q)[i - 1] = q[i]
              BY <5>1, <1>10
            <6> QED
              BY <6>1, <6>2, <5>1 DEF There
          <5> QED
            BY <5>1 DEF There
        <4>4. call'.result = "pending" /\ Waiting'
          BY <2>7 DEF Waiting
        <4>5. InChat' \cup Ids(Tail(q)) = InChat \cup Ids(q)
          BY <2>2, <1>12
        <4>6. WholePost'
          BY <4>2, <4>3, <4>4, <4>5, <2>3, <2>7, <1>6, <1>7, <1>10 DEF WholePost
        <4>7. WholeLoop'
          BY <3>1, <2>3, <1>6 DEF WholeLoop
        <4>8. WholeCall'
          <5>1. Sure' => There(Tail(q)) /\ Small(Tail(q))
            <6>1. Sure' => There(q) /\ Small(q)
              BY <4>2, <1>6, <1>10 DEF WholeCall, Sure
            <6>2. \A i \in DOMAIN Tail(q) : i + 1 \in DOMAIN q /\ Tail(q)[i] = q[i + 1]
              BY <1>10
            <6> QED
              BY <6>1, <6>2 DEF There, Small
          <5> QED
            BY <5>1, <4>4, <2>7 DEF WholeCall
        <4> QED
          BY <4>6, <4>7, <4>8
      <3> QED
        BY <2>2, <2>5, <3>2, <3>3, <3>4, <3>5, <1>2, <1>6 DEF FlowInv, OnTheWay
    <2> QED
      BY <2>6, <2>7, <1>10, <1>17 DEF Sends
  <1> QED
    BY <1>5, <1>15, <1>16, <1>17

-----------------------------------------------------------------------------
\* More faults only: what was clean before.
LEMMA MoreFaults ==
  ASSUME faults \in Nat, faults' \in Nat, faults' >= faults, UNCHANGED attempt
  PROVE  (Clean' => Clean) /\ (faults' = 0 => faults = 0)
  BY DEF Clean

\* A task that ends, or gives the attempt up.
LEMMA EndsFlow ==
  ASSUME FlowInv, task = "run", task' # "run", UNCHANGED <<kind, attempt, sent>>,
         faults' \in Nat, faults' >= faults,
         task' = "retry" /\ faults' = 0 => pc \in Before,
         row' = "completed" /\ Smooth' => UNCHANGED files /\ InChat = Wanted
  PROVE  FlowInv'
  <1>1. Chat /\ faults \in Nat
    BY DEF FlowInv, Chat
  <1>2. (Clean' => Clean) /\ (faults' = 0 => faults = 0)
    BY <1>1, MoreFaults
  <1>3. UNCHANGED InChat /\ (InOrder => InOrder')
    BY ChatKept
  <1>4. task' = "retry" /\ faults' = 0 => sent' = <<>>
    BY <1>2 DEF FlowInv, Blank, Clean
  <1>5. UNCHANGED files => UNCHANGED Wanted
    BY FilesKept
  <1>6. Chat'
    BY <1>1, <1>2, <1>3, <1>4, <1>5 DEF Chat
  <1> QED
    BY <1>6 DEF FlowInv

\* A step before the first upload.
LEMMA QuietFlow ==
  ASSUME FlowInv, task = "run", row = "none", pc \in Before, pc' \in Before,
         UNCHANGED <<kind, task, attempt, row, sent, files, call>>,
         faults' \in Nat, faults' >= faults
  PROVE  FlowInv'
  <1>1. Chat /\ Blank /\ faults \in Nat
    BY DEF FlowInv, Chat
  <1>2. (Clean' => Clean) /\ (faults' = 0 => faults = 0)
    BY <1>1, MoreFaults
  <1>3. UNCHANGED InChat /\ (InOrder => InOrder')
    BY ChatKept
  <1>4. Chat'
    BY <1>1, <1>2, <1>3 DEF Chat
  <1>5. Blank'
    BY <1>1, <1>2 DEF Blank, Idle
  <1> QED
    BY <1>4, <1>5 DEF FlowInv

\* A step that leaves the chat alone and goes on with what is on its way.
LEMMA GoesFlow ==
  ASSUME FlowInv, task = "run", row = "none", pc' \notin Before,
         UNCHANGED <<kind, task, attempt, row, sent>>,
         faults' \in Nat, faults' >= faults, OnTheWay'
  PROVE  FlowInv'
  <1>1. Chat /\ faults \in Nat
    BY DEF FlowInv, Chat
  <1>2. (Clean' => Clean) /\ (faults' = 0 => faults = 0)
    BY <1>1, MoreFaults
  <1>3. UNCHANGED InChat /\ (InOrder => InOrder')
    BY ChatKept
  <1>4. Chat'
    BY <1>1, <1>2, <1>3 DEF Chat
  <1> QED
    BY <1>4 DEF FlowInv

\* Nothing is in the chat before the first upload of a clean attempt.
LEMMA NothingYet ==
  ASSUME FlowInv, task = "run", pc \in Before, UNCHANGED sent
  PROVE  call = Idle /\ files = <<>> /\ (Clean => InChat = {} /\ InChat' = {})
  <1>1. Blank
    BY DEF FlowInv
  <1>2. UNCHANGED InChat
    BY ChatKept
  <1>3. sent = <<>> => InChat = {}
    BY DEF InChat
  <1> QED
    BY <1>1, <1>2, <1>3 DEF Blank

\* The first upload of an attempt.
Begun == {"sent", "played", "pin", "xalbum", "insta", "tiksent"}

Asked(q) ==
    /\ call'.single = <<>> /\ call'.todo = q /\ call'.result = "pending"
    /\ call'.op \in {"file", "audio", "album"} /\ (call'.op # "album" => Len(q) = 1)

\* What was just asked for waits in the call.
LEMMA AskedQueue ==
  ASSUME NEW q \in Seq(Item), q # <<>>, Asked(q)
  PROVE  Waiting' /\ Shape' /\ Queue' = q
  <1>1. Queue' = <<>> \o q
    BY DEF Asked, Queue
  <1>2. <<>> \o q = q
    OBVIOUS
  <1> QED
    BY <1>1, <1>2 DEF Asked, Waiting, Shape

\* The first upload of an attempt is asked for.
LEMMA AskFlow ==
  ASSUME FlowInv, task = "run", row = "none", pc \in Before,
         pc' \in Begun \/ (pc' = "album" /\ kind # "reddit"),
         UNCHANGED <<kind, task, attempt, row, sent, faults>>,
         NEW q \in Seq(Item), q # <<>>, Rising(q), Asked(q),
         There(q) => Ids(q) = Wanted'
  PROVE  FlowInv'
  <1>1. faults \in Nat /\ pc' \notin Before
    BY DEF FlowInv, Chat, Before, Begun
  <1>2. (Clean' => Clean) /\ (Clean => InChat' = {})
    BY NothingYet DEF Clean
  <1>3. Waiting' /\ Shape' /\ Queue' = q /\ call'.result = "pending"
    BY AskedQueue DEF Asked
  <1>4. CallOK'
    BY <1>3 DEF CallOK
  <1>5. LoopOK'
    BY DEF LoopOK, Collecting, Begun
  <1>6. CarouselOK'
    BY DEF CarouselOK, Begun
  <1>7. Clean' => Apart' /\ LoopApart'
    BY <1>2 DEF Apart, LoopApart, Begun
  <1>8. Smooth' => Clean'
    BY DEF Smooth, Clean
  <1>9. Smooth' => WholePost' /\ WholeLoop' /\ WholeCall'
    <2>1. Smooth' => WholePost'
      BY <1>2, <1>3, <1>8 DEF WholePost, Begun
    <2>2. WholeLoop'
      BY DEF WholeLoop, Begun
    <2>3. WholeCall'
      BY DEF WholeCall, Sure, Begun
    <2> QED
      BY <2>1, <2>2, <2>3
  <1>10. OnTheWay'
    BY <1>4, <1>5, <1>6, <1>7, <1>9 DEF OnTheWay
  <1> QED
    BY <1>1, <1>10, GoesFlow

-----------------------------------------------------------------------------
\* Calls fail, but failures are not taken back.
LEMMA Spending ==
  ASSUME faults \in Nat, NoFault \/ Fault
  PROVE  faults' \in Nat /\ faults' >= faults
  BY DEF NoFault, Fault

\* Making the temporary directory.
LEMMA MkdirFlow ==
  ASSUME FlowInv, task = "run", row = "none", pc \in Before, NEW p \in Before, MkdirTemp(p)
  PROVE  FlowInv'
  <1>1. faults \in Nat /\ UNCHANGED <<files, sent, call, loop>>
    BY DEF FlowInv, Chat, MkdirTemp, mediaVars
  <1>2. CASE NoFault /\ Goto(p)
    <2>1. faults' \in Nat /\ faults' >= faults /\ pc' \in Before /\ UNCHANGED <<kind, task, attempt, row>>
      BY <1>1, <1>2, Spending DEF Goto
    <2> QED
      BY <1>1, <2>1, QuietFlow
  <1>3. CASE Fault /\ ReturnError
    <2>1. /\ faults' \in Nat /\ faults' >= faults /\ task' # "run" /\ row' = "none"
          /\ UNCHANGED <<kind, attempt>>
      BY <1>1, <1>3, Spending DEF ReturnError
    <2> QED
      BY <1>1, <2>1, EndsFlow
  <1> QED
    BY <1>2, <1>3 DEF MkdirTemp

\* The body goes on before its first upload.
LEMMA GotoFlow ==
  ASSUME FlowInv, task = "run", row = "none", pc \in Before, NEW p \in Before, Goto(p),
         UNCHANGED <<files, sent, call>>, NoFault \/ Fault
  PROVE  FlowInv'
  <1>1. faults' \in Nat /\ faults' >= faults
    BY Spending DEF FlowInv, Chat
  <1>2. pc' \in Before /\ UNCHANGED <<kind, task, attempt, row>>
    BY DEF Goto
  <1> QED
    BY <1>1, <1>2, QuietFlow

\* The task ends without a completed row.
LEMMA FailFlow ==
  ASSUME FlowInv, task = "run", NEW n, NEW r, Return(r, n), r # "completed",
         UNCHANGED sent, NoFault \/ Fault
  PROVE  FlowInv'
  <1>1. faults' \in Nat /\ faults' >= faults
    BY Spending DEF FlowInv, Chat
  <1>2. task' = "done" /\ row' # "completed" /\ UNCHANGED <<kind, attempt>>
    BY DEF Return
  <1> QED
    BY <1>1, <1>2, EndsFlow

\* A download that failed.
LEMMA DownloadFailedFlow ==
  ASSUME FlowInv, task = "run", row = "none", pc \in Before, NEW e, DownloadFailed(e),
         UNCHANGED <<sent, faults>>
  PROVE  FlowInv'
  <1>1. faults \in Nat
    BY DEF FlowInv, Chat
  <1>2. CASE ReturnError
    <2>1. task' # "run" /\ row' = "none" /\ UNCHANGED <<kind, attempt>>
      BY <1>2 DEF ReturnError
    <2> QED
      BY <1>1, <2>1, EndsFlow
  <1>3. CASE Fail(UserFacingErrorKey(e))
    BY <1>3, FailFlow DEF Fail, NoFault
  <1> QED
    BY <1>2, <1>3 DEF DownloadFailed

\* The task ends with what the upload came to.
LEMMA AnswerFlow ==
  ASSUME FlowInv, task = "run", row = "none", pc \in OneShot, NEW r, NEW n, Return(r, n),
         r = "completed" => call.result = "ok", UNCHANGED <<files, sent, faults>>
  PROVE  FlowInv'
  <1>1. faults \in Nat /\ OnTheWay
    BY DEF FlowInv, Chat, Before, OneShot
  <1>2. task' = "done" /\ row' = r /\ UNCHANGED <<kind, attempt>>
    BY DEF Return
  <1>3. Smooth' => Smooth
    BY DEF Smooth
  <1>4. row' = "completed" /\ Smooth' => InChat = Wanted
    BY <1>1, <1>2, <1>3 DEF OnTheWay, WholePost
  <1> QED
    BY <1>1, <1>2, <1>4, EndsFlow

\* What a call asks for.
LEMMA OneAsked ==
  ASSUME NEW f \in Item, SendFile(f) \/ SendAudio(f)
  PROVE  /\ Asked(<<f>>) /\ <<f>> \in Seq(Item) /\ <<f>> # <<>> /\ Rising(<<f>>)
         /\ Ids(<<f>>) = {f.id} /\ (There(<<f>>) => f.size # 0)
         /\ <<f>>[1] = f /\ DOMAIN <<f>> = 1..1
  <1>1. PICK q : q = <<f>>
    OBVIOUS
  <1>2. q \in Seq(Item) /\ q # <<>> /\ Len(q) = 1 /\ DOMAIN q = 1..1 /\ q[1] = f
    BY <1>1
  <1>3. /\ call'.single = <<>> /\ call'.todo = <<f>> /\ call'.result = "pending"
        /\ call'.op \in {"file", "audio"}
    BY DEF SendFile, SendAudio, Pending
  <1>4. Asked(q)
    BY <1>1, <1>2, <1>3 DEF Asked
  <1>5. Rising(q)
    BY <1>2 DEF Rising
  <1>6. Ids(q) = {f.id}
    BY <1>2 DEF Ids
  <1>7. There(q) => f.size # 0
    BY <1>2 DEF There
  <1> QED
    BY <1>1, <1>2, <1>4, <1>5, <1>6, <1>7

\* SendPhotoAlbum asks for its photos in one call.
LEMMA AlbumAsked ==
  ASSUME NEW q \in Seq(Item), q # <<>>, SendPhotoAlbum(q)
  PROVE  Asked(q)
  <1>1. call' = Pending(IF Len(q) = 1 THEN "file" ELSE "album", q, TRUE)
    BY DEF SendPhotoAlbum
  <1> QED
    BY <1>1 DEF Asked, Pending

\* One file is asked to be uploaded.
LEMMA SoloFlow ==
  ASSUME FlowInv, task = "run", row = "none", pc \in Before, NEW p \in Begun, Goto(p),
         UNCHANGED <<sent, faults>>, NEW f \in Item, SendFile(f) \/ SendAudio(f),
         f.size # 0 => Wanted' = {f.id}
  PROVE  FlowInv'
  <1>1. PICK q : q = <<f>>
    OBVIOUS
  <1>2. /\ q \in Seq(Item) /\ q # <<>> /\ Rising(q) /\ Asked(q)
        /\ Ids(q) = {f.id} /\ (There(q) => f.size # 0)
    BY <1>1, OneAsked
  <1>3. There(q) => Ids(q) = Wanted'
    BY <1>2
  <1>4. pc' \in Begun /\ UNCHANGED <<kind, task, attempt, row>>
    BY DEF Goto
  <1> QED
    BY <1>2, <1>3, <1>4, AskFlow

-----------------------------------------------------------------------------
(* YouTube and its audio.                                                    *)

\* The processed video is item 1.
LEMMA VideoIsItem == ASSUME VideoShape PROVE Video \in Item /\ Video.id = 1
  BY DEF VideoShape, Video, Item, Types, fileSize

\* YouTube's bodies deliver one file.
LEMMA OneIsWanted == ASSUME kind' \in {"youtube", "audio"} PROVE Wanted' = {1}
  BY DEF Wanted

\* The steps of YouTube's bodies.
LEMMA YouTubeFlow == ASSUME JobInv, FlowInv, YouTubeNext PROVE FlowInv'
  <1> task = "run" /\ row = "none" /\ VideoShape
    BY DEF JobInv, Records, YouTubeNext, YouTubeStart, downloadYouTubeVideo, YouTubeRatio, YouTubeCompress,
           ensureFitsUpload, YouTubeSend, sendVideoResult, runYouTubeAudio, AudioSent, Returned, At
  <1>1. CASE YouTubeStart
    BY <1>1, MkdirFlow DEF YouTubeStart, At, Before
  <1>2. CASE downloadYouTubeVideo
    <2>1. pc \in Before /\ UNCHANGED <<files, sent, call, faults>>
      BY <1>2 DEF downloadYouTubeVideo, At, mediaVars, Before
    <2>2. \/ Goto("ratio") \/ Goto("again")
          \/ Fail("errors.not_found")
          \/ \E e : DownloadFailed(e)
      BY <1>2 DEF downloadYouTubeVideo, VideoFound
    <2>3. NoFault
      BY <2>1 DEF NoFault
    <2>4. "ratio" \in Before /\ "again" \in Before
      BY DEF Before
    <2> QED
      BY <2>1, <2>2, <2>3, <2>4, GotoFlow, FailFlow, DownloadFailedFlow DEF Fail
  <1>3. CASE YouTubeRatio
    <2>1. pc \in Before /\ UNCHANGED <<files, sent, call>> /\ (NoFault \/ Fault) /\ "compress" \in Before
      BY <1>3 DEF YouTubeRatio, At, mediaVars, Before
    <2>2. Goto("compress") \/ Fail("errors.generic")
      BY <1>3 DEF YouTubeRatio
    <2> QED
      BY <2>1, <2>2, GotoFlow, FailFlow DEF Fail
  <1>4. CASE YouTubeCompress
    <2>1. pc \in Before /\ UNCHANGED <<files, sent, call>> /\ Goto("fit") /\ "fit" \in Before
      BY <1>4 DEF YouTubeCompress, At, mediaVars, Before
    <2>2. NoFault \/ Fault
      BY <1>4 DEF YouTubeCompress, CompressIfOversized, EncodeFails, SwapIn
    <2> QED
      BY <2>1, <2>2, GotoFlow
  <1>5. CASE ensureFitsUpload
    <2>1. pc \in Before /\ UNCHANGED <<files, sent, call>> /\ Goto("send") /\ "send" \in Before
      BY <1>5 DEF ensureFitsUpload, At, mediaVars, Before
    <2>2. NoFault \/ Fault
      BY <1>5 DEF ensureFitsUpload, CompressToFit, EncodeFails, SwapIn
    <2> QED
      BY <2>1, <2>2, GotoFlow
  <1>6. CASE YouTubeSend
    <2>1. pc \in Before /\ UNCHANGED <<files, sent, faults>> /\ NoFault /\ kind = "youtube"
      BY <1>6 DEF YouTubeSend, At, YouTube, Before, NoFault
    <2>2. Fail("too_large") \/ (SendFile(Video) /\ Goto("sent"))
      BY <1>6 DEF YouTubeSend, SendVideo
    <2>3. Video \in Item /\ Video.id = 1 /\ "sent" \in Begun
      BY VideoIsItem DEF Begun
    <2>4. CASE Fail("too_large")
      BY <2>1, <2>4, FailFlow DEF Fail
    <2>5. CASE SendFile(Video) /\ Goto("sent")
      <3>1. Wanted' = {1}
        BY <2>1, <2>5, OneIsWanted DEF Goto
      <3>2. PICK v : v = Video
        OBVIOUS
      <3> QED
        BY <2>1, <2>3, <2>5, <3>1, <3>2, SoloFlow
    <2> QED
      BY <2>2, <2>4, <2>5
  <1>7. CASE sendVideoResult
    <2>1. pc \in OneShot /\ UNCHANGED <<files, sent, faults>>
      BY <1>7 DEF sendVideoResult, Returned, At, mediaVars, OneShot
    <2> QED
      BY <1>7, <2>1, AnswerFlow DEF sendVideoResult, Complete, Fail
  <1>8. CASE runYouTubeAudio
    <2>1. pc \in Before /\ UNCHANGED <<files, sent, faults>> /\ NoFault /\ kind = "audio"
      BY <1>8 DEF runYouTubeAudio, At, Before, NoFault
    <2>2. \/ Fail("too_large")
          \/ \E s \in Sizes : Goto("played") /\ SendAudio([id |-> 1, type |-> "audio", size |-> s])
          \/ \E e : DownloadFailed(e)
      BY <1>8 DEF runYouTubeAudio
    <2>3. CASE \E s \in Sizes : Goto("played") /\ SendAudio([id |-> 1, type |-> "audio", size |-> s])
      <3>1. PICK s \in Sizes : Goto("played") /\ SendAudio([id |-> 1, type |-> "audio", size |-> s])
        BY <2>3
      <3>2. PICK f : f = [id |-> 1, type |-> "audio", size |-> s]
        OBVIOUS
      <3>3. f \in Item /\ f.id = 1 /\ "played" \in Begun
        BY <3>2, JobAssumption DEF Item, Types, Begun
      <3>4. Wanted' = {1}
        BY <2>1, <3>1, OneIsWanted DEF Goto
      <3> QED
        BY <2>1, <3>1, <3>2, <3>3, <3>4, SoloFlow
    <2> QED
      BY <2>1, <2>2, <2>3, FailFlow, DownloadFailedFlow DEF Fail
  <1>9. CASE AudioSent
    <2>1. pc \in OneShot /\ UNCHANGED <<files, sent, faults>>
      BY <1>9 DEF AudioSent, Returned, At, mediaVars, OneShot
    <2> QED
      BY <1>9, <2>1, AnswerFlow DEF AudioSent, Complete, Fail
  <1> QED
    BY <1>1, <1>2, <1>3, <1>4, <1>5, <1>6, <1>7, <1>8, <1>9 DEF YouTubeNext

-----------------------------------------------------------------------------
(* Posts and what is picked from them.                                       *)

\* Items in a post are numbered in their order and not empty.
InPost(fs, T) ==
    /\ fs \in Seq(Item) /\ Rising(fs)
    /\ \A i \in DOMAIN fs : fs[i].id = i /\ i <= MaxFiles /\ fs[i].type \in T /\ fs[i].size # 0

\* The posts the downloaders produce.
LEMMA PostItems ==
  ASSUME NEW T, T \subseteq Types, NEW fs \in Posts(T)
  PROVE  InPost(fs, T)
  <1>0. PICK n \in 0..MaxFiles : \E f \in [1..n -> T \X Sizes] :
           fs = [i \in 1..n |-> [id |-> i, type |-> f[i][1], size |-> f[i][2]]]
    <2>1. PICK n \in 0..MaxFiles :
             fs \in {[i \in 1..n |-> [id |-> i, type |-> f[i][1], size |-> f[i][2]]]
                       : f \in [1..n -> T \X Sizes]}
      BY DEF Posts
    <2> QED
      BY <2>1
  <1>1. PICK f \in [1..n -> T \X Sizes] :
           fs = [i \in 1..n |-> [id |-> i, type |-> f[i][1], size |-> f[i][2]]]
    BY <1>0
  <1>2. n \in Nat
    BY <1>1, JobAssumption
  <1>3. ASSUME NEW i \in 1..n
        PROVE  /\ fs[i] \in Item /\ fs[i].id = i /\ fs[i].type \in T /\ fs[i].size # 0
    <2>1. f[i] \in T \X Sizes
      BY <1>1, <1>3
    <2>2. f[i][1] \in T /\ f[i][2] \in Sizes
      BY <2>1
    <2>3. fs[i] = [id |-> i, type |-> f[i][1], size |-> f[i][2]]
      BY <1>1, <1>3
    <2>4. f[i][2] \in Nat /\ f[i][2] # 0
      BY <2>2, JobAssumption
    <2>5. f[i][1] \in Types
      BY <2>2
    <2>6. i \in Nat
      BY <1>2
    <2> QED
      BY <2>2, <2>3, <2>4, <2>5, <2>6 DEF Item
  <1>4. DOMAIN fs = 1..n
    BY <1>1
  <1>5. fs \in Seq(Item)
    <2>1. fs \in [1..n -> Item]
      BY <1>1, <1>3
    <2> QED
      BY <2>1, <1>2
  <1>6. Rising(fs)
    <2>1. ASSUME NEW i \in DOMAIN fs, NEW j \in DOMAIN fs, i < j PROVE fs[i].id < fs[j].id
      BY <2>1, <1>3, <1>4
    <2> QED
      BY <2>1 DEF Rising
  <1> QED
    BY <1>0, <1>2, <1>3, <1>4, <1>5, <1>6, JobAssumption DEF InPost

\* The items of one type.
LEMMA TypePicked ==
  ASSUME NEW fs \in Seq(Item), Rising(fs), NEW t
  PROVE  /\ OfType(fs, t) \in Seq(Item) /\ Rising(OfType(fs, t))
         /\ \A i \in DOMAIN OfType(fs, t) :
               OfType(fs, t)[i].type = t /\ \E m \in DOMAIN fs : OfType(fs, t)[i] = fs[m]
         /\ \A m \in DOMAIN fs : fs[m].type = t => OfType(fs, t) # <<>> /\ fs[m].id \in Ids(OfType(fs, t))
  <1>1. PICK P : P = {i \in DOMAIN fs : fs[i].type = t}
    OBVIOUS
  <1>2. PICK g : g = OfType(fs, t)
    OBVIOUS
  <1>3. g = Picked(fs, P)
    BY <1>1, <1>2 DEF OfType
  <1>4. /\ g \in Seq(Item) /\ Rising(g)
        /\ \A i \in DOMAIN g : \E m \in DOMAIN fs : m \in P /\ g[i] = fs[m]
        /\ \A m \in DOMAIN fs : m \in P => \E i \in DOMAIN g : g[i] = fs[m]
    <2>1. /\ Picked(fs, P) \in Seq(Item)
          /\ \A i \in DOMAIN Picked(fs, P) : \E m \in DOMAIN fs : m \in P /\ Picked(fs, P)[i] = fs[m]
          /\ \A m \in DOMAIN fs : m \in P => \E i \in DOMAIN Picked(fs, P) : Picked(fs, P)[i] = fs[m]
      BY PickedRange
    <2>2. Rising(Picked(fs, P))
      BY PickedRising
    <2> QED
      BY <2>1, <2>2, <1>3
  <1>5. ASSUME NEW i \in DOMAIN g PROVE g[i].type = t /\ \E m \in DOMAIN fs : g[i] = fs[m]
    BY <1>1, <1>4, <1>5
  <1>6. ASSUME NEW m \in DOMAIN fs, fs[m].type = t PROVE g # <<>> /\ fs[m].id \in Ids(g)
    <2>1. PICK i \in DOMAIN g : g[i] = fs[m]
      BY <1>1, <1>4, <1>6
    <2> QED
      BY <2>1 DEF Ids
  <1> QED
    BY <1>2, <1>4, <1>5, <1>6

\* A post of two types without items of one of them holds the other only.
LEMMA OtherType ==
  ASSUME NEW t, NEW u, NEW fs, InPost(fs, {t, u}), OfType(fs, t) = <<>>
  PROVE  Ids(OfType(fs, u)) = Ids(fs)
  <1>1. PICK g : g = OfType(fs, u)
    OBVIOUS
  <1>2. fs \in Seq(Item) /\ Rising(fs)
    BY DEF InPost
  <1>3. \A m \in DOMAIN fs : fs[m].type # t
    BY <1>2, TypePicked
  <1>4. \A m \in DOMAIN fs : fs[m].type = u
    BY <1>3 DEF InPost
  <1>5. /\ \A i \in DOMAIN g : \E m \in DOMAIN fs : g[i] = fs[m]
        /\ \A m \in DOMAIN fs : fs[m].type = u => fs[m].id \in Ids(g)
    BY <1>1, <1>2, TypePicked
  <1>6. Ids(fs) \subseteq Ids(g)
    BY <1>4, <1>5 DEF Ids
  <1>7. Ids(g) \subseteq Ids(fs)
    BY <1>5 DEF Ids
  <1> QED
    BY <1>1, <1>6, <1>7

\* Photos that are fetched one by one; those that did not come are left out.
LEMMA PhotosPicked ==
  ASSUME NEW n \in Nat, NEW f \in [1..n -> {0, 1}], NEW ps,
         ps = Picked([i \in DOMAIN f |-> [id |-> i, type |-> "image", size |-> f[i]]],
                     {i \in DOMAIN f : f[i] > 0})
  PROVE  /\ ps \in Seq(Item) /\ Rising(ps)
         /\ \A i \in DOMAIN ps : ps[i].type = "image" /\ ps[i].size # 0 /\ ps[i].id \in 1..n
  <1>1. PICK s : s = [i \in DOMAIN f |-> [id |-> i, type |-> "image", size |-> f[i]]]
    OBVIOUS
  <1>2. PICK P : P = {i \in DOMAIN f : f[i] > 0}
    OBVIOUS
  <1>3. DOMAIN s = 1..n /\ \A i \in 1..n : s[i] = [id |-> i, type |-> "image", size |-> f[i]] /\ f[i] \in {0, 1}
    BY <1>1
  <1>4. ASSUME NEW i \in 1..n
        PROVE  s[i] \in Item /\ s[i].id = i /\ s[i].type = "image" /\ (i \in P => s[i].size # 0)
    BY <1>2, <1>3, <1>4 DEF Item, Types
  <1>5. s \in Seq(Item)
    <2>1. s \in [1..n -> Item]
      BY <1>1, <1>3, <1>4
    <2> QED
      BY <2>1
  <1>6. Rising(s)
    BY <1>3, <1>4 DEF Rising
  <1>7. ps = Picked(s, P)
    BY <1>1, <1>2
  <1>8. /\ Picked(s, P) \in Seq(Item)
        /\ \A i \in DOMAIN Picked(s, P) : \E m \in DOMAIN s : m \in P /\ Picked(s, P)[i] = s[m]
    BY <1>5, PickedRange
  <1>9. Rising(Picked(s, P))
    BY <1>5, <1>6, PickedRising
  <1>10. ASSUME NEW i \in DOMAIN ps PROVE ps[i].type = "image" /\ ps[i].size # 0 /\ ps[i].id \in 1..n
    <2>1. PICK m \in DOMAIN s : m \in P /\ ps[i] = s[m]
      BY <1>7, <1>8, <1>10
    <2> QED
      BY <2>1, <1>3, <1>4
  <1> QED
    BY <1>7, <1>8, <1>9, <1>10

\* The largest video is one of the post's items.
LEMMA LargestItem ==
  ASSUME NEW fs \in Seq(Item), Rising(fs), OfType(fs, "video") # <<>>
  PROVE  LargestVideo(OfType(fs, "video")) \in Item
  <1>1. PICK v : v = OfType(fs, "video")
    OBVIOUS
  <1>2. v \in Seq(Item) /\ v # <<>>
    BY <1>1, TypePicked
  <1>3. PICK i \in DOMAIN v : LargestVideo(v) = v[i]
    BY <1>2, LargestIsOne
  <1>4. v[i] \in Item
    BY <1>2, <1>3
  <1> QED
    BY <1>1, <1>3, <1>4

\* An album is asked to be uploaded.
LEMMA GroupFlow ==
  ASSUME FlowInv, task = "run", row = "none", pc \in Before, NEW p, Goto(p),
         p \in Begun \/ (p = "album" /\ kind # "reddit"),
         UNCHANGED <<sent, faults>>, NEW q \in Seq(Item), q # <<>>, Rising(q), SendPhotoAlbum(q),
         Ids(q) = Wanted'
  PROVE  FlowInv'
  <1>1. Asked(q)
    BY AlbumAsked
  <1>2. pc' = p /\ UNCHANGED <<kind, task, attempt, row>>
    BY DEF Goto
  <1>3. There(q) => Ids(q) = Wanted'
    OBVIOUS
  <1> QED
    BY <1>1, <1>2, <1>3, AskFlow

\* A post with a video stands for its largest one.
LEMMA LargestWanted ==
  ASSUME kind' \in {"link", "x", "instagram"}, OfType(files', "video") # <<>>
  PROVE  Wanted' = {LargestVideo(OfType(files', "video")).id}
  BY DEF Wanted

\* A post without one stands for all its items.
LEMMA AllWanted ==
  ASSUME kind' \in {"link", "x"}, OfType(files', "video") = <<>>
  PROVE  Wanted' = Ids(files')
  BY DEF Wanted

-----------------------------------------------------------------------------
(* Links and posts on X.                                                     *)

\* The files of a link are there.
LEMMA LinkDownloadedFlow ==
  ASSUME FlowInv, task = "run", row = "none", LinkDownloaded PROVE FlowInv'
  <1>1. pc \in Before /\ UNCHANGED <<sent, faults>> /\ NoFault /\ kind \in {"link", "x"}
    BY DEF LinkDownloaded, At, Link, Before, NoFault
  <1>2. PICK fs \in Posts({"image", "video"}) :
           /\ files' = fs
           /\ \/ fs = <<>> /\ NoMedia("errors.not_found") /\ UNCHANGED call
              \/ /\ OfType(fs, "video") = <<>> /\ OfType(fs, "image") # <<>>
                 /\ SendPhotoAlbum(OfType(fs, "image")) /\ Goto("album")
              \/ OfType(fs, "video") # <<>> /\ SendVideo(LargestVideo(OfType(fs, "video")))
    BY DEF LinkDownloaded
  <1>3. InPost(fs, {"image", "video"}) /\ fs \in Seq(Item) /\ Rising(fs)
    <2>1. {"image", "video"} \subseteq Types
      BY DEF Types
    <2> QED
      BY <1>2, <2>1, PostItems DEF InPost
  <1>4. CASE fs = <<>> /\ NoMedia("errors.not_found") /\ UNCHANGED call
    <2>1. files = <<>> /\ files' = <<>>
      BY <1>1, <1>2, <1>4, NothingYet
    <2>2. Goto("photos") \/ Fail("errors.not_found")
      BY <1>4 DEF NoMedia
    <2>3. "photos" \in Before
      BY DEF Before
    <2> QED
      BY <1>1, <1>4, <2>1, <2>2, <2>3, GotoFlow, FailFlow DEF Fail
  <1>5. CASE /\ OfType(fs, "video") = <<>> /\ OfType(fs, "image") # <<>>
             /\ SendPhotoAlbum(OfType(fs, "image")) /\ Goto("album")
    <2>1. PICK q : q = OfType(fs, "image")
      OBVIOUS
    <2>2. q \in Seq(Item) /\ Rising(q)
      BY <1>3, <2>1, TypePicked
    <2>3. InPost(fs, {"video", "image"})
      BY <1>3 DEF InPost
    <2>4. Ids(q) = Ids(fs)
      BY <1>5, <2>1, <2>3, OtherType
    <2>5. Wanted' = Ids(fs)
      BY <1>1, <1>2, <1>5, AllWanted DEF Goto
    <2>6. Ids(q) = Wanted' /\ q # <<>> /\ SendPhotoAlbum(q) /\ Goto("album")
      BY <1>5, <2>1, <2>4, <2>5
    <2> QED
      BY <1>1, <2>2, <2>6, GroupFlow
  <1>6. CASE OfType(fs, "video") # <<>> /\ SendVideo(LargestVideo(OfType(fs, "video")))
    <2>1. PICK f : f = LargestVideo(OfType(fs, "video"))
      OBVIOUS
    <2>2. f \in Item
      BY <1>3, <1>6, <2>1, LargestItem
    <2>3. Fail("too_large") \/ (SendFile(f) /\ Goto("sent"))
      BY <1>6, <2>1 DEF SendVideo
    <2>4. CASE SendFile(f) /\ Goto("sent")
      <3>1. Wanted' = {f.id}
        BY <1>1, <1>2, <1>6, <2>1, <2>4, LargestWanted DEF Goto
      <3>2. "sent" \in Begun
        BY DEF Begun
      <3> QED
        BY <1>1, <2>2, <2>4, <3>1, <3>2, SoloFlow
    <2> QED
      BY <1>1, <2>3, <2>4, FailFlow DEF Fail
  <1> QED
    BY <1>2, <1>4, <1>5, <1>6

\* A tweet has some number of photos.
LEMMA TweetPhotos == ASSUME NEW t \in Tweets PROVE t.photos \in Nat
  <1>1. PICK fx \in fetchFromAPI(parseFxTwitter) : \E vx \in fetchFromAPI(parseVxTwitter) : t = fetchTweet(fx, vx)
    BY DEF Tweets
  <1>2. PICK vx \in fetchFromAPI(parseVxTwitter) : t = fetchTweet(fx, vx)
    BY <1>1
  <1>3. fx.photos \in Nat
    BY JobAssumption DEF fetchFromAPI, parseFxTwitter, NotFound
  <1>4. vx.photos \in Nat
    BY JobAssumption DEF fetchFromAPI, parseVxTwitter, NotFound
  <1>5. NotFound.photos \in Nat
    BY DEF NotFound
  <1> QED
    BY <1>2, <1>3, <1>4, <1>5 DEF fetchTweet

\* runXPhotos.
LEMMA PhotosFlow == ASSUME FlowInv, task = "run", row = "none", runXPhotos PROVE FlowInv'
  <1>1. pc \in Before /\ UNCHANGED <<sent, faults>> /\ NoFault /\ kind = "x"
    BY DEF runXPhotos, At, Before, NoFault
  <1>2. PICK tweet \in Tweets : \E parent \in Tweets :
          LET n == fetchPhotoURLs(tweet, parent)
          IN  \/ n = 0 /\ Fail("x.text_only")
              \/ n > 0 /\ \E ps \in DownloadPhotos(n) :
                    /\ files' = ps
                    /\ \/ ps = <<>> /\ Fail("errors.generic")
                       \/ ps # <<>> /\ SendPhotoAlbum(ps) /\ Goto("xalbum")
    BY DEF runXPhotos
  <1>3. PICK n \in Nat :
          \/ n = 0 /\ Fail("x.text_only")
          \/ n > 0 /\ \E ps \in DownloadPhotos(n) :
                /\ files' = ps
                /\ \/ ps = <<>> /\ Fail("errors.generic")
                   \/ ps # <<>> /\ SendPhotoAlbum(ps) /\ Goto("xalbum")
    <2>1. PICK parent \in Tweets :
          LET n == fetchPhotoURLs(tweet, parent)
          IN  \/ n = 0 /\ Fail("x.text_only")
              \/ n > 0 /\ \E ps \in DownloadPhotos(n) :
                    /\ files' = ps
                    /\ \/ ps = <<>> /\ Fail("errors.generic")
                       \/ ps # <<>> /\ SendPhotoAlbum(ps) /\ Goto("xalbum")
      BY <1>2
    <2>2. fetchPhotoURLs(tweet, parent) \in Nat
      BY TweetPhotos DEF fetchPhotoURLs
    <2> QED
      BY <2>1, <2>2
  <1>4. CASE \E ps \in DownloadPhotos(n) : files' = ps /\ ps # <<>> /\ SendPhotoAlbum(ps) /\ Goto("xalbum")
    <2>1. PICK ps \in DownloadPhotos(n) : files' = ps /\ ps # <<>> /\ SendPhotoAlbum(ps) /\ Goto("xalbum")
      BY <1>4
    <2>2. PICK m \in Nat : m = Least(n, MaxItems)
      BY JobAssumption DEF Least
    <2>3. PICK f \in [1..m -> {0, 1}] :
             ps = Picked([i \in DOMAIN f |-> [id |-> i, type |-> "image", size |-> f[i]]],
                         {i \in DOMAIN f : f[i] > 0})
      BY <2>1, <2>2 DEF DownloadPhotos, downloadImage
    <2>4. ps \in Seq(Item) /\ Rising(ps) /\ \A i \in DOMAIN ps : ps[i].type = "image"
      BY <2>3, PhotosPicked
    <2>5. OfType(ps, "video") = <<>>
      <3>1. PICK v : v = OfType(ps, "video")
        OBVIOUS
      <3>2. v \in Seq(Item) /\ \A i \in DOMAIN v : FALSE
        BY <2>4, <3>1, TypePicked
      <3>3. v = <<>>
        BY <3>2
      <3> QED
        BY <3>1, <3>3
    <2>6. Wanted' = Ids(ps)
      BY <1>1, <2>1, <2>5, AllWanted DEF Goto
    <2>7. "xalbum" \in Begun
      BY DEF Begun
    <2> QED
      BY <1>1, <2>1, <2>4, <2>6, <2>7, GroupFlow
  <1> QED
    BY <1>1, <1>3, <1>4, FailFlow DEF Fail

\* The steps of runDownload and runXPhotos.
LEMMA LinkFlow == ASSUME JobInv, FlowInv, LinkNext PROVE FlowInv'
  <1> task = "run" /\ row = "none"
    BY DEF JobInv, LinkNext, LinkStart, Begin, LinkFailed, LinkDownloaded, LinkAlbumSent, runXPhotos,
           XAlbumSent, Returned, At
  <1>1. CASE LinkStart
    BY <1>1, MkdirFlow DEF LinkStart, Begin, At, Before
  <1>2. CASE LinkFailed
    <2>1. pc \in Before /\ UNCHANGED <<files, sent, call, faults>> /\ NoFault /\ "photos" \in Before
      BY <1>2 DEF LinkFailed, At, mediaVars, Before, NoFault
    <2>2. Goto("photos") \/ \E e : DownloadFailed(e)
      BY <1>2 DEF LinkFailed
    <2> QED
      BY <2>1, <2>2, GotoFlow, DownloadFailedFlow
  <1>3. CASE LinkDownloaded
    BY <1>3, LinkDownloadedFlow
  <1>4. CASE LinkAlbumSent
    <2>1. pc \in OneShot /\ UNCHANGED <<files, sent, faults>>
      BY <1>4 DEF LinkAlbumSent, Returned, At, mediaVars, OneShot
    <2> QED
      BY <1>4, <2>1, AnswerFlow DEF LinkAlbumSent
  <1>5. CASE runXPhotos
    BY <1>5, PhotosFlow
  <1>6. CASE XAlbumSent
    <2>1. pc \in OneShot /\ UNCHANGED <<files, sent, faults>>
      BY <1>6 DEF XAlbumSent, Returned, At, mediaVars, OneShot
    <2> QED
      BY <1>6, <2>1, AnswerFlow DEF XAlbumSent, Complete, Fail
  <1> QED
    BY <1>1, <1>2, <1>3, <1>4, <1>5, <1>6 DEF LinkNext

-----------------------------------------------------------------------------
(* Instagram.                                                                *)

\* runInstagram cuts a long post at its end.
LEMMA CutIsPrefix ==
  ASSUME NEW images \in Seq(Item), images # <<>>, Rising(images), NEW q, q = CutPhotos(images)
  PROVE  /\ q \in Seq(Item) /\ q # <<>> /\ Rising(q)
         /\ Ids(q) = Ids(SubSeq(images, 1, Least(Len(images), MaxItems)))
  <1>1. Len(images) \in Nat /\ Len(images) >= 1 /\ \A i \in 1..Len(images) : images[i] \in Item
    OBVIOUS
  <1>2. PICK n \in Nat : n = Len(images)
    BY <1>1
  <1>3. PICK m \in Nat : m = Least(n, MaxItems) /\ m <= n /\ m >= 1
    BY <1>1, <1>2, JobAssumption DEF Least
  <1>4. DOMAIN images = 1..n
    BY <1>2
  <1>5. q \in Seq(Item) /\ Len(q) = m /\ DOMAIN q = 1..m /\ \A i \in 1..m : q[i] = images[i]
    <2>1. CASE n <= MaxItems
      <3>1. m = n
        BY <2>1, <1>2, <1>3, JobAssumption DEF Least
      <3>2. q = images
        BY <2>1, <1>2 DEF CutPhotos
      <3> QED
        BY <3>1, <3>2, <1>2, <1>4
    <2>2. CASE ~(n <= MaxItems)
      <3>1. m = MaxItems
        BY <2>2, <1>2, <1>3, JobAssumption DEF Least
      <3>2. q = [i \in 1..m |-> images[i]]
        BY <2>2, <3>1, <1>2 DEF CutPhotos
      <3>3. q \in [1..m -> Item]
        BY <3>2, <1>1, <1>2, <1>3
      <3>4. q \in Seq(Item) /\ Len(q) = m
        BY <3>3, <1>3, <3>2
      <3> QED
        BY <3>2, <3>4
    <2> QED
      BY <2>1, <2>2
  <1>6. PICK s : s = SubSeq(images, 1, m)
    OBVIOUS
  <1>7. Len(s) = m /\ DOMAIN s = 1..m /\ \A i \in 1..m : s[i] = images[i]
    <2>1. SubSeq(images, 1, m) \in Seq(Item) /\ Len(SubSeq(images, 1, m)) = m
          /\ \A i \in 1..m : SubSeq(images, 1, m)[i] = images[i]
      BY <1>2, <1>3, SplitJoin
    <2> QED
      BY <2>1, <1>6
  <1>8. Ids(q) = Ids(s)
    BY <1>5, <1>7 DEF Ids
  <1>9. Rising(q)
    BY <1>3, <1>4, <1>5 DEF Rising
  <1>10. q # <<>>
    BY <1>3, <1>5
  <1> QED
    BY <1>2, <1>3, <1>5, <1>6, <1>8, <1>9, <1>10

\* What is left is what the body means to deliver.
LEMMA CutWanted ==
  ASSUME kind' = "instagram", OfType(files', "video") = <<>>
  PROVE  Wanted' = Ids(SubSeq(OfType(files', "image"), 1, Least(Len(OfType(files', "image")), MaxItems)))
  BY DEF Wanted

\* The steps of runInstagram.
LEMMA InstagramFlow == ASSUME JobInv, FlowInv, InstagramNext PROVE FlowInv'
  <1> task = "run" /\ row = "none"
    BY DEF JobInv, InstagramNext, InstagramStart, Begin, InstagramFailed, runInstagram, InstagramSent,
           Returned, At
  <1>1. CASE InstagramStart
    BY <1>1, MkdirFlow DEF InstagramStart, Begin, At, Before
  <1>2. CASE InstagramFailed
    <2>1. pc \in Before /\ UNCHANGED <<sent, faults>> /\ \E e : DownloadFailed(e)
      BY <1>2 DEF InstagramFailed, At, mediaVars, Before
    <2> QED
      BY <2>1, DownloadFailedFlow
  <1>3. CASE runInstagram
    <2>1. pc \in Before /\ UNCHANGED <<sent, faults>> /\ NoFault /\ kind = "instagram" /\ "insta" \in Begun
      BY <1>3 DEF runInstagram, At, Instagram, Before, NoFault, Begun
    <2>2. PICK fs \in Posts({"image", "video"}) :
             /\ files' = fs
             /\ \/ fs = <<>> /\ Fail("instagram.no_media")
                \/ /\ OfType(fs, "video") # <<>>
                   /\ SendFile(LargestVideo(OfType(fs, "video"))) /\ Goto("insta")
                \/ /\ OfType(fs, "video") = <<>> /\ OfType(fs, "image") # <<>>
                   /\ SendPhotoAlbum(CutPhotos(OfType(fs, "image"))) /\ Goto("insta")
      BY <1>3 DEF runInstagram
    <2>3. fs \in Seq(Item) /\ Rising(fs)
      <3>1. {"image", "video"} \subseteq Types
        BY DEF Types
      <3> QED
        BY <2>2, <3>1, PostItems DEF InPost
    <2>4. CASE Fail("instagram.no_media")
      BY <2>1, <2>4, FailFlow DEF Fail
    <2>5. CASE /\ OfType(fs, "video") # <<>>
               /\ SendFile(LargestVideo(OfType(fs, "video"))) /\ Goto("insta")
      <3>1. PICK f : f = LargestVideo(OfType(fs, "video"))
        OBVIOUS
      <3>2. f \in Item
        BY <2>3, <2>5, <3>1, LargestItem
      <3>3. Wanted' = {f.id}
        BY <2>1, <2>2, <2>5, <3>1, LargestWanted DEF Goto
      <3> QED
        BY <2>1, <2>5, <3>1, <3>2, <3>3, SoloFlow
    <2>6. CASE /\ OfType(fs, "video") = <<>> /\ OfType(fs, "image") # <<>>
               /\ SendPhotoAlbum(CutPhotos(OfType(fs, "image"))) /\ Goto("insta")
      <3>1. PICK g : g = OfType(fs, "image")
        OBVIOUS
      <3>2. g \in Seq(Item) /\ g # <<>> /\ Rising(g)
        BY <2>3, <2>6, <3>1, TypePicked
      <3>3. PICK q : q = CutPhotos(g)
        OBVIOUS
      <3>4. /\ q \in Seq(Item) /\ q # <<>> /\ Rising(q)
            /\ Ids(q) = Ids(SubSeq(g, 1, Least(Len(g), MaxItems)))
        BY <3>2, <3>3, CutIsPrefix
      <3>5. Ids(q) = Wanted'
        BY <2>1, <2>2, <2>6, <3>1, <3>4, CutWanted DEF Goto
      <3>6. SendPhotoAlbum(q) /\ Goto("insta")
        BY <2>6, <3>1, <3>3
      <3> QED
        BY <2>1, <3>4, <3>5, <3>6, GroupFlow
    <2> QED
      BY <2>2, <2>4, <2>5, <2>6
  <1>4. CASE InstagramSent
    <2>1. pc \in OneShot /\ UNCHANGED <<files, sent, faults>>
      BY <1>4 DEF InstagramSent, Returned, At, mediaVars, OneShot
    <2> QED
      BY <1>4, <2>1, AnswerFlow DEF InstagramSent
  <1> QED
    BY <1>1, <1>2, <1>3, <1>4 DEF InstagramNext

-----------------------------------------------------------------------------
(* TikTok: the images of a carousel, then its sound.                         *)

\* Items are numbers.
LEMMA ChatNumbers == ASSUME sent \in Seq(Seq(Nat)) PROVE InChat \subseteq Nat
  <1>1. ASSUME NEW i \in DOMAIN sent, NEW a \in DOMAIN sent[i] PROVE sent[i][a] \in Nat
    <2>1. sent[i] \in Seq(Nat)
      BY <1>1
    <2> QED
      BY <2>1, <1>1
  <1> QED
    BY <1>1 DEF InChat

\* Images of a carousel.
Slides(ps) ==
    /\ ps \in Seq(Item) /\ Rising(ps)
    /\ \A i \in DOMAIN ps : ps[i].type = "image" /\ ps[i].size # 0 /\ ps[i].id <= MaxFiles

\* A carousel is its images and its sound.
LEMMA SlidesAndSound ==
  ASSUME NEW ps, Slides(ps), NEW sound \in {<<>>, <<AudioOf(1)>>}, NEW fs, fs = ps \o sound
  PROVE  /\ fs \in Seq(Item)
         /\ \A i \in DOMAIN fs : fs[i].size # 0 /\ (fs[i].type = "audio" => fs[i].id = MaxFiles + 1)
         /\ Ids(ps) \cup Ids(OfType(fs, "audio")) = Ids(fs)
         /\ \A y \in Ids(ps) : y <= MaxFiles
  <1>1. ps \in Seq(Item) /\ Len(ps) \in Nat /\ DOMAIN ps = 1..Len(ps)
    BY DEF Slides
  <1>2. PICK n \in Nat : n = Len(ps)
    BY <1>1
  <1>3. PICK a : a = AudioOf(1)
    OBVIOUS
  <1>4. a \in Item /\ a.type = "audio" /\ a.size # 0 /\ a.id = MaxFiles + 1
    BY <1>3, JobAssumption DEF AudioOf, Item, Types
  <1>5. \A i \in 1..n : ps[i] \in Item /\ ps[i].type = "image" /\ ps[i].size # 0 /\ ps[i].id <= MaxFiles
    BY <1>1, <1>2 DEF Slides
  <1>6. \A i \in 1..n : ps[i].id \in Nat
    BY <1>5 DEF Item
  <1>7. PICK m \in {0, 1} : /\ fs \in Seq(Item) /\ Len(fs) = n + m
                            /\ \A i \in 1..(n + m) : fs[i] = IF i <= n THEN ps[i] ELSE a
    <2>1. CASE sound = <<>>
      <3>1. fs = ps
        BY <2>1, <1>1
      <3>2. n + 0 = n
        BY <1>2
      <3>3. /\ fs \in Seq(Item) /\ Len(fs) = n
            /\ \A i \in 1..n : fs[i] = IF i <= n THEN ps[i] ELSE a
        BY <3>1, <1>1, <1>2
      <3> QED
        BY <3>2, <3>3
    <2>2. CASE sound = <<a>>
      <3>1. sound \in Seq(Item) /\ Len(sound) = 1 /\ sound[1] = a
        BY <2>2, <1>4
      <3>4. PICK b : b = ps \o sound
        OBVIOUS
      <3>5. /\ b \in Seq(Item) /\ Len(b) = Len(ps) + Len(sound)
            /\ \A i \in 1..(Len(ps) + Len(sound)) :
                  b[i] = IF i <= Len(ps) THEN ps[i] ELSE sound[i - Len(ps)]
        BY <3>1, <3>4, <1>1, ConcatProperties
      <3>2. /\ fs \in Seq(Item) /\ Len(fs) = n + 1
            /\ \A i \in 1..(n + 1) : fs[i] = IF i <= n THEN ps[i] ELSE sound[i - n]
        BY <3>1, <3>4, <3>5, <1>2
      <3>3. \A i \in 1..(n + 1) : fs[i] = IF i <= n THEN ps[i] ELSE a
        <4>1. \A i \in 1..(n + 1) : ~(i <= n) => i - n = 1
          OBVIOUS
        <4> QED
          BY <4>1, <3>1, <3>2
      <3> QED
        BY <3>2, <3>3
    <2> QED
      BY <2>1, <2>2, <1>3
  <1>8. DOMAIN fs = 1..(n + m)
    BY <1>7
  <1>9. \A i \in DOMAIN fs : fs[i].size # 0 /\ (fs[i].type = "audio" => fs[i] = a)
    <2>1. ASSUME NEW i \in DOMAIN fs PROVE (i \in 1..n /\ fs[i] = ps[i]) \/ fs[i] = a
      BY <1>7, <1>8
    <2>2. ASSUME NEW i \in 1..n, fs[i] = ps[i] PROVE fs[i].size # 0 /\ fs[i].type # "audio"
      BY <1>5, <2>2
    <2> QED
      BY <2>1, <2>2, <1>4
  <1>10. Rising(fs)
    <2>1. ASSUME NEW i \in DOMAIN fs, NEW j \in DOMAIN fs, i < j PROVE fs[i].id < fs[j].id
      <3>1. i \in 1..n /\ fs[i] = ps[i]
        BY <2>1, <1>7, <1>8
      <3>2. CASE j \in 1..n
        <4>1. fs[j] = ps[j]
          BY <3>2, <1>7, <1>8
        <4> QED
          BY <2>1, <3>1, <3>2, <4>1, <1>1, <1>2 DEF Slides, Rising
      <3>3. CASE ~(j \in 1..n)
        <4>1. fs[j] = a
          BY <2>1, <3>3, <1>7, <1>8
        <4> QED
          BY <3>1, <4>1, <1>4, <1>5, <1>6, JobAssumption
      <3> QED
        BY <3>2, <3>3
    <2> QED
      BY <2>1 DEF Rising
  <1>11. PICK g : g = OfType(fs, "audio")
    OBVIOUS
  <1>12. /\ \A i \in DOMAIN g : \E k \in DOMAIN fs : g[i] = fs[k]
         /\ \A k \in DOMAIN fs : fs[k].type = "audio" => fs[k].id \in Ids(g)
    <2>1. PICK t : t = "audio"
      OBVIOUS
    <2>2. g = OfType(fs, t)
      BY <2>1, <1>11
    <2>3. /\ \A i \in DOMAIN g : \E k \in DOMAIN fs : g[i] = fs[k]
          /\ \A k \in DOMAIN fs : fs[k].type = t => fs[k].id \in Ids(g)
      <3>1. fs \in Seq(Item) /\ Rising(fs)
        BY <1>7, <1>10
      <3>2. /\ \A i \in DOMAIN OfType(fs, t) : \E k \in DOMAIN fs : OfType(fs, t)[i] = fs[k]
            /\ \A k \in DOMAIN fs : fs[k].type = t => fs[k].id \in Ids(OfType(fs, t))
        BY ONLY <3>1, TypePicked
      <3> QED
        BY ONLY <2>2, <3>2
    <2> QED
      BY <2>1, <2>3
  <1>13. Ids(ps) \subseteq Ids(fs)
    <2>1. \A i \in DOMAIN ps : i \in DOMAIN fs /\ fs[i] = ps[i]
      BY <1>1, <1>2, <1>7, <1>8
    <2> QED
      BY <2>1 DEF Ids
  <1>14. Ids(g) \subseteq Ids(fs)
    BY <1>12 DEF Ids
  <1>15. Ids(fs) \subseteq Ids(ps) \cup Ids(g)
    <2>1. ASSUME NEW k \in DOMAIN fs PROVE fs[k].id \in Ids(ps) \cup Ids(g)
      <3>1. CASE k \in 1..n
        <4>1. k \in DOMAIN ps /\ fs[k] = ps[k]
          BY <3>1, <1>1, <1>2, <1>7, <1>8
        <4> QED
          BY <4>1 DEF Ids
      <3>2. CASE ~(k \in 1..n)
        <4>1. fs[k] = a
          BY <3>2, <1>7, <1>8
        <4> QED
          BY <4>1, <1>4, <1>12
      <3> QED
        BY <3>1, <3>2
    <2> QED
      BY <2>1 DEF Ids
  <1>16. \A y \in Ids(ps) : y <= MaxFiles
    BY <1>1, <1>2, <1>5 DEF Ids
  <1> QED
    BY <1>4, <1>7, <1>9, <1>11, <1>13, <1>14, <1>15, <1>16

\* All of a TikTok post is wanted.
LEMMA PostWanted ==
  ASSUME kind' = "tiktok" PROVE Wanted' = IF files' = <<>> THEN {1} ELSE Ids(files')
  BY DEF Wanted

\* The images of a carousel are asked to be uploaded.
LEMMA CarouselFlow ==
  ASSUME FlowInv, task = "run", row = "none", pc \in Before, kind = "tiktok", Goto("carousel"),
         UNCHANGED <<sent, faults>>, NEW ps, Slides(ps), NEW sound \in {<<>>, <<AudioOf(1)>>},
         files' = ps \o sound, files' # <<>>, SendPhotoAlbum(ps)
  PROVE  FlowInv'
  <1>1. /\ files' \in Seq(Item)
        /\ \A i \in DOMAIN files' :
              files'[i].size # 0 /\ (files'[i].type = "audio" => files'[i].id = MaxFiles + 1)
        /\ Ids(ps) \cup Ids(OfType(files', "audio")) = Ids(files')
        /\ \A y \in Ids(ps) : y <= MaxFiles
    <2>1. PICK fs : fs = files'
      OBVIOUS
    <2>2. fs = ps \o sound
      BY <2>1
    <2> QED
      BY <2>1, <2>2, SlidesAndSound
  <1>2. pc' = "carousel" /\ UNCHANGED <<kind, task, attempt, row>>
    BY DEF Goto
  <1>3. (Clean' => Clean) /\ (Clean => InChat' = {}) /\ faults \in Nat /\ (Smooth' => Clean')
    BY <1>2, NothingYet DEF Clean, FlowInv, Chat, Smooth
  <1>4. Wanted' = Ids(files') /\ Sounds' = Ids(OfType(files', "audio"))
    BY <1>2, PostWanted DEF Sounds
  <1>5. \/ ps = <<>> /\ call' = Idle /\ ~Waiting' /\ call'.result = "ok"
        \/ Waiting' /\ Shape' /\ Queue' = ps /\ call'.result = "pending"
    <2>1. CASE ps = <<>>
      BY <2>1 DEF SendPhotoAlbum, Idle, Waiting
    <2>2. CASE ps # <<>>
      <3>1. ps \in Seq(Item)
        BY DEF Slides
      <3>2. Asked(ps)
        BY <2>2, <3>1, AlbumAsked
      <3> QED
        BY <2>2, <3>1, <3>2, AskedQueue DEF Waiting
    <2> QED
      BY <2>1, <2>2
  <1>6. ps = <<>> => Ids(ps) = {}
    BY DEF Ids
  <1>7. CallOK'
    BY <1>5 DEF CallOK, Slides
  <1>8. LoopOK'
    BY <1>2 DEF LoopOK, Collecting
  <1>9. CarouselOK'
    BY <1>1, <1>2, <1>3, <1>5 DEF CarouselOK
  <1>10. Clean' => Apart' /\ LoopApart'
    BY <1>2, <1>3 DEF Apart, LoopApart
  <1>11. Smooth' => WholePost' /\ WholeLoop' /\ WholeCall'
    <2>1. Smooth' => WholePost'
      BY <1>1, <1>2, <1>3, <1>4, <1>5, <1>6 DEF WholePost, OneShot
    <2>2. WholeLoop'
      BY <1>2 DEF WholeLoop
    <2>3. WholeCall'
      BY <1>2 DEF WholeCall, Sure
    <2> QED
      BY <2>1, <2>2, <2>3
  <1>12. OnTheWay'
    BY <1>7, <1>8, <1>9, <1>10, <1>11 DEF OnTheWay
  <1>13. pc' \notin Before
    BY <1>2 DEF Before
  <1> QED
    BY <1>2, <1>3, <1>12, <1>13, GoesFlow

\* The sound follows the images.
LEMMA SoundFlow ==
  ASSUME FlowInv, task = "run", row = "none", pc = "carousel", call.result = "ok",
         Goto("sound"), UNCHANGED <<files, sent, loop, faults>>,
         NEW g, g = OfType(files, "audio"), g # <<>>, SendAudio(g[1])
  PROVE  FlowInv'
  <1>1. OnTheWay /\ Chat /\ CarouselOK
    BY DEF FlowInv, Before, OnTheWay
  <1>2. /\ kind = "tiktok" /\ files \in Seq(Item)
        /\ \A i \in DOMAIN files :
              files[i].size # 0 /\ (files[i].type = "audio" => files[i].id = MaxFiles + 1)
        /\ Clean => \A x \in InChat : x <= MaxFiles
    BY <1>1 DEF CarouselOK
  <1>3. pc' = "sound" /\ UNCHANGED <<kind, task, attempt, row>> /\ faults \in Nat
    BY <1>1 DEF Goto, Chat
  <1>4. (Clean' => Clean) /\ (Smooth' => Smooth) /\ UNCHANGED InChat /\ UNCHANGED <<Wanted, Sounds>>
    BY <1>3, ChatKept, FilesKept DEF Clean, Smooth
  <1>5. InChat \subseteq Nat
    BY <1>1, ChatNumbers DEF Chat
  <1>6. PICK P : P = {i \in DOMAIN files : files[i].type = "audio"}
    OBVIOUS
  <1>7. PICK fs : fs = files
    OBVIOUS
  <1>8. g = Picked(fs, P) /\ fs \in Seq(Item)
    BY <1>2, <1>6, <1>7 DEF OfType
  <1>9. g \in Seq(Item) /\ \A i \in DOMAIN g : \E m \in DOMAIN fs : m \in P /\ g[i] = fs[m]
    <2>1. /\ Picked(fs, P) \in Seq(Item)
          /\ \A i \in DOMAIN Picked(fs, P) : \E m \in DOMAIN fs : m \in P /\ Picked(fs, P)[i] = fs[m]
      BY ONLY <1>8, PickedRange
    <2> QED
      BY ONLY <1>8, <2>1
  <1>10. \A i \in DOMAIN g : /\ g[i].id = MaxFiles + 1 /\ g[i].size # 0
                             /\ \E m \in DOMAIN files : g[i] = files[m]
    BY <1>2, <1>6, <1>7, <1>9
  <1>11. 1 \in DOMAIN g
    BY <1>9
  <1>12. PICK a : a = g[1] /\ a \in Item /\ a.id = MaxFiles + 1 /\ a.size # 0
                  /\ \E m \in DOMAIN files : a = files[m]
    BY <1>9, <1>10, <1>11
  <1>13. Sounds = {a.id}
    <2>1. Sounds = Ids(g)
      BY DEF Sounds
    <2> QED
      BY <2>1, <1>10, <1>11, <1>12 DEF Ids
  <1>14. PICK q : q = <<a>>
    OBVIOUS
  <1>15. /\ q \in Seq(Item) /\ q # <<>> /\ Rising(q) /\ Asked(q)
         /\ Ids(q) = {a.id} /\ q[1] = a /\ DOMAIN q = 1..1
    BY <1>12, <1>14, OneAsked
  <1>16. Waiting' /\ Shape' /\ Queue' = q /\ call'.result = "pending"
    BY <1>15, AskedQueue DEF Asked
  <1>17. CallOK'
    BY <1>15, <1>16 DEF CallOK
  <1>18. LoopOK' /\ CarouselOK'
    BY <1>3 DEF LoopOK, Collecting, CarouselOK
  <1>19. Clean' => Apart' /\ LoopApart'
    <2>1. Clean => \A x \in InChat : x # a.id /\ x < a.id
      BY <1>2, <1>5, <1>12, JobAssumption
    <2> QED
      BY <2>1, <1>3, <1>4, <1>15, <1>16 DEF Apart, LoopApart
  <1>20. Smooth' => WholePost' /\ WholeLoop' /\ WholeCall'
    <2>1. Smooth => InChat \cup Sounds = Wanted
      BY <1>1 DEF OnTheWay, WholePost
    <2>2. Smooth' => WholePost'
      BY <2>1, <1>3, <1>4, <1>13, <1>15, <1>16 DEF WholePost
    <2>3. WholeLoop'
      BY <1>3 DEF WholeLoop
    <2>4. Smooth => There(q) /\ Small(q)
      <3>1. PICK m \in DOMAIN files : a = files[m]
        BY <1>12
      <3>2. Smooth => ~TooBig(a)
        BY <3>1 DEF Smooth
      <3>3. \A i \in DOMAIN q : q[i] = a
        BY <1>15
      <3> QED
        BY <1>12, <3>2, <3>3 DEF There, Small
    <2>5. Smooth' => WholeCall'
      BY <2>4, <1>4, <1>16 DEF WholeCall
    <2> QED
      BY <2>2, <2>3, <2>5
  <1>21. OnTheWay' /\ pc' \notin Before
    BY <1>3, <1>17, <1>18, <1>19, <1>20 DEF OnTheWay, Before
  <1> QED
    BY <1>3, <1>21, GoesFlow

\* The last call was sure to work.
LEMMA SureFlow ==
  ASSUME FlowInv, task = "run", row = "none", Sure, pc \in OneShot, call.result # "pending",
         NEW r, NEW n, Return(r, n), UNCHANGED <<files, sent, faults>>
  PROVE  FlowInv'
  <1>1. faults \in Nat /\ OnTheWay /\ call.result \in {"ok", "err"}
    BY DEF FlowInv, Chat, Before, OneShot, OnTheWay, CallOK
  <1>2. task' = "done" /\ row' = r /\ UNCHANGED <<kind, attempt>>
    BY DEF Return
  <1>3. Smooth' => Smooth
    BY DEF Smooth
  <1>4. Smooth' => InChat = Wanted
    BY <1>1, <1>3 DEF OnTheWay, WholePost, WholeCall
  <1> QED
    BY <1>1, <1>2, <1>4, EndsFlow

\* The images were answered: the sound follows, or the task ends.
LEMMA TikTokCarouselSentFlow ==
  ASSUME FlowInv, task = "run", row = "none", TikTokCarouselSent PROVE FlowInv'
  <1>1. /\ pc = "carousel" /\ kind = "tiktok" /\ UNCHANGED <<files, sent, loop, faults>>
        /\ NoFault /\ faults \in Nat
    BY DEF TikTokCarouselSent, Returned, At, TikTok, NoFault, FlowInv, Chat
  <1>2. CASE call.result = "err" /\ Fail("errors.generic")
    BY <1>1, <1>2, FailFlow DEF Fail
  <1>3. CASE call.result = "ok" /\ OfType(files, "audio") # <<>>
             /\ SendAudio(OfType(files, "audio")[1]) /\ Goto("sound")
    <2>1. PICK g : g = OfType(files, "audio")
      OBVIOUS
    <2> QED
      BY <1>1, <1>3, <2>1, SoundFlow
  <1>4. CASE call.result = "ok" /\ OfType(files, "audio") = <<>> /\ Complete
    <2>1. task' = "done" /\ UNCHANGED <<kind, attempt>>
      BY <1>4 DEF Complete, Return
    <2>2. Sounds = {}
      BY <1>4 DEF Sounds, Ids
    <2>3. OnTheWay /\ (Smooth' => Smooth)
      BY <1>1 DEF FlowInv, Before, Smooth
    <2>4. Smooth' => InChat = Wanted
      BY <1>1, <1>4, <2>2, <2>3 DEF OnTheWay, WholePost
    <2> QED
      BY <1>1, <2>1, <2>4, EndsFlow
  <1> QED
    BY <1>2, <1>3, <1>4 DEF TikTokCarouselSent

\* What a post comes to: images and sound, from the page or from the disk.
LEMMA TikTokCarouselFlow ==
  ASSUME FlowInv, task = "run", row = "none", TikTokCarousel PROVE FlowInv'
  <1>1. pc \in Before /\ kind = "tiktok" /\ UNCHANGED <<sent, faults>> /\ Goto("carousel")
    BY DEF TikTokCarousel, At, TikTok, Before
  <1>2. PICK info \in Infos : \E sound \in {<<>>, <<AudioOf(1)>>} :
          \E ps \in downloadImages(info) \ {<<>>} : files' = ps \o sound /\ SendPhotoAlbum(ps)
    BY DEF TikTokCarousel
  <1>3. PICK sound \in {<<>>, <<AudioOf(1)>>} :
          \E ps \in downloadImages(info) \ {<<>>} : files' = ps \o sound /\ SendPhotoAlbum(ps)
    BY <1>2
  <1>4. PICK ps \in downloadImages(info) : ps # <<>> /\ files' = ps \o sound /\ SendPhotoAlbum(ps)
    BY <1>3
  <1>5. info.urls \in 0..MaxFiles
    BY <1>2 DEF Infos
  <1>6. PICK m \in Nat : m = Least(info.urls, MaxItems) /\ m <= MaxFiles
    BY <1>5, JobAssumption DEF Least
  <1>7. PICK f \in [1..m -> {0, 1}] :
           ps = Picked([i \in DOMAIN f |-> [id |-> i, type |-> "image", size |-> f[i]]],
                       {i \in DOMAIN f : f[i] > 0})
    BY <1>4, <1>6 DEF downloadImages, downloadHTTP
  <1>8. Slides(ps)
    <2>1. /\ ps \in Seq(Item) /\ Rising(ps)
          /\ \A i \in DOMAIN ps : ps[i].type = "image" /\ ps[i].size # 0 /\ ps[i].id \in 1..m
      BY <1>7, PhotosPicked
    <2>2. \A k \in 1..m : k <= MaxFiles
      BY <1>6, JobAssumption
    <2> QED
      BY <2>1, <2>2 DEF Slides
  <1>9. files' # <<>>
    <2>1. sound \in Seq({AudioOf(1)})
      <3>1. PICK a : a = AudioOf(1)
        OBVIOUS
      <3>2. <<>> \in Seq({a}) /\ <<a>> \in Seq({a})
        OBVIOUS
      <3> QED
        BY <1>3, <3>1, <3>2
    <2>2. Len(ps) \in Nat /\ Len(ps) # 0 /\ Len(sound) \in Nat
      BY <1>4, <1>8, <2>1 DEF Slides
    <2>3. Len(ps \o sound) = Len(ps) + Len(sound)
      BY <1>8, <2>1 DEF Slides
    <2>4. Len(files') # 0
      BY <1>4, <2>2, <2>3
    <2>5. Len(<<>>) = 0
      OBVIOUS
    <2> QED
      BY <2>4, <2>5, Zenon
  <1> QED
    BY <1>1, <1>3, <1>4, <1>8, <1>9, CarouselFlow

\* The files of a TikTok post are there.
LEMMA TikTokDownloadedFlow ==
  ASSUME FlowInv, task = "run", row = "none", TikTokDownloaded PROVE FlowInv'
  <1>1. pc \in Before /\ kind = "tiktok" /\ UNCHANGED <<sent, faults>> /\ NoFault /\ "mux" \in Before
    BY DEF TikTokDownloaded, At, TikTok, Before, NoFault
  <1>2. CASE Goto("mux") /\ UNCHANGED <<files, call>>
    BY <1>1, <1>2, GotoFlow
  <1>3. CASE \E images \in Posts({"image"}) : \E sound \in {<<>>, <<AudioOf(1)>>} :
             /\ files' = images \o sound
             /\ \/ files' = <<>> /\ Fail("errors.generic")
                \/ files' # <<>> /\ SendPhotoAlbum(images) /\ Goto("carousel")
    <2>1. PICK images \in Posts({"image"}) : \E sound \in {<<>>, <<AudioOf(1)>>} :
             /\ files' = images \o sound
             /\ \/ files' = <<>> /\ Fail("errors.generic")
                \/ files' # <<>> /\ SendPhotoAlbum(images) /\ Goto("carousel")
      BY <1>3
    <2>2. PICK sound \in {<<>>, <<AudioOf(1)>>} :
             /\ files' = images \o sound
             /\ \/ files' = <<>> /\ Fail("errors.generic")
                \/ files' # <<>> /\ SendPhotoAlbum(images) /\ Goto("carousel")
      BY <2>1
    <2>3. InPost(images, {"image"})
      <3>1. {"image"} \subseteq Types
        BY DEF Types
      <3> QED
        BY <2>1, <3>1, PostItems
    <2>4. Slides(images)
      BY <2>3 DEF InPost, Slides
    <2>5. CASE Fail("errors.generic")
      BY <1>1, <2>5, FailFlow DEF Fail
    <2>6. CASE files' # <<>> /\ SendPhotoAlbum(images) /\ Goto("carousel")
      BY <1>1, <2>2, <2>4, <2>6, CarouselFlow
    <2> QED
      BY <2>2, <2>5, <2>6
  <1> QED
    BY <1>2, <1>3 DEF TikTokDownloaded

\* The steps of runTikTok.
LEMMA TikTokFlow == ASSUME JobInv, FlowInv, TikTokNext PROVE FlowInv'
  <1> task = "run" /\ row = "none" /\ VideoShape
    BY DEF JobInv, Records, TikTokNext, TikTokStart, Begin, TikTokFailed, TikTokCarousel, TikTokDownloaded,
           ensureAudio, TikTokSquare, TikTokSend, TikTokSent, TikTokCarouselSent, TikTokSound, Returned, At
  <1>1. CASE TikTokStart
    BY <1>1, MkdirFlow DEF TikTokStart, Begin, At, Before
  <1>2. CASE TikTokFailed
    <2>1. pc \in Before /\ UNCHANGED <<sent, faults>> /\ \E e : DownloadFailed(e)
      BY <1>2 DEF TikTokFailed, At, mediaVars, Before
    <2> QED
      BY <2>1, DownloadFailedFlow
  <1>3. CASE ensureAudio
    <2>1. pc \in Before /\ UNCHANGED <<files, sent, call>> /\ Goto("sar") /\ "sar" \in Before
      BY <1>3 DEF ensureAudio, At, mediaVars, Before
    <2>2. NoFault \/ Fault
      BY <1>3 DEF ensureAudio, MuxAudioFrom, EncodeFails, SwapIn
    <2> QED
      BY <2>1, <2>2, GotoFlow
  <1>4. CASE TikTokSquare
    <2>1. pc \in Before /\ UNCHANGED <<files, sent, call>> /\ Goto("send") /\ "send" \in Before
      BY <1>4 DEF TikTokSquare, At, mediaVars, Before
    <2>2. NoFault \/ Fault
      BY <1>4 DEF TikTokSquare, NormalizeSAR, EncodeFails, SwapIn
    <2> QED
      BY <2>1, <2>2, GotoFlow
  <1>5. CASE TikTokSend
    <2>1. /\ pc \in Before /\ kind = "tiktok" /\ UNCHANGED <<files, sent, faults>>
          /\ SendFile(Video) /\ Goto("tiksent") /\ "tiksent" \in Begun
      BY <1>5 DEF TikTokSend, At, TikTok, Before, Begun
    <2>2. files' = <<>>
      BY <2>1, NothingYet
    <2>3. Wanted' = {1}
      BY <2>1, <2>2, PostWanted DEF Goto
    <2>4. PICK v : v = Video
      OBVIOUS
    <2>5. v \in Item /\ v.id = 1 /\ SendFile(v)
      BY <2>1, <2>4, VideoIsItem
    <2> QED
      BY <2>1, <2>3, <2>5, SoloFlow
  <1>6. CASE TikTokSent
    <2>1. pc \in OneShot /\ UNCHANGED <<files, sent, faults>>
      BY <1>6 DEF TikTokSent, Returned, At, mediaVars, OneShot
    <2> QED
      BY <1>6, <2>1, AnswerFlow DEF TikTokSent, Complete, Fail
  <1>7. CASE TikTokSound
    <2>1. pc \in OneShot /\ Sure /\ call.result # "pending" /\ UNCHANGED <<files, sent, faults>>
      BY <1>7 DEF TikTokSound, Returned, At, mediaVars, OneShot, Sure
    <2> QED
      BY <1>7, <2>1, SureFlow DEF TikTokSound, Complete
  <1> QED
    BY <1>1, <1>2, <1>3, <1>4, <1>5, <1>6, <1>7, TikTokCarouselFlow, TikTokDownloadedFlow,
       TikTokCarouselSentFlow DEF TikTokNext

-----------------------------------------------------------------------------
(* The loops over the items of a board and of a thread.                      *)

\* Writing a field of the loop's locals leaves the others.
LEMMA LoopFields ==
  ASSUME NEW l, IsLoop(l), NEW x, NEW y, NEW b, NEW z
  PROVE  /\ [l EXCEPT !.items = x].items = x /\ [l EXCEPT !.items = x].images = l.images
         /\ [l EXCEPT !.items = x].handled = l.handled
         /\ [l EXCEPT !.items = x, !.images = y].items = x
         /\ [l EXCEPT !.items = x, !.images = y].images = y
         /\ [l EXCEPT !.items = x, !.images = y].handled = l.handled
         /\ [l EXCEPT !.items = x, !.images = y, !.handled = z].items = x
         /\ [l EXCEPT !.items = x, !.images = y, !.handled = z].images = y
         /\ [l EXCEPT !.items = x, !.images = y, !.handled = z].handled = z
         /\ [l EXCEPT !.items = x, !.any = b].items = x
         /\ [l EXCEPT !.items = x, !.any = b].images = l.images
         /\ [l EXCEPT !.items = x, !.any = b].handled = l.handled
         /\ [l EXCEPT !.items = x, !.any = b, !.handled = z].items = x
         /\ [l EXCEPT !.items = x, !.any = b, !.handled = z].images = l.images
         /\ [l EXCEPT !.items = x, !.any = b, !.handled = z].handled = z
         /\ [l EXCEPT !.any = b].items = l.items
  <1>1. l = [items |-> l.items, images |-> l.images, any |-> l.any, handled |-> l.handled]
    BY DEF IsLoop
  <1> QED
    BY ONLY <1>1

\* The item the loop is at is the next one of the post.
LEMMA NextIsFile ==
  ASSUME Post, Ahead, loop.items # <<>>
  PROVE  /\ Pos \in Nat /\ Pos + 1 \in DOMAIN files /\ NextItem = files[Pos + 1]
         /\ files[Pos + 1] \in Item /\ files[Pos + 1].id = Pos + 1
         /\ Tail(loop.items) \in Seq(Item) /\ Len(Tail(loop.items)) = Len(loop.items) - 1
         /\ \A i \in DOMAIN Tail(loop.items) : Tail(loop.items)[i] = files[i + (Pos + 1)]
  <1>1. /\ files \in Seq(Item) /\ Len(files) \in Nat /\ DOMAIN files = 1..Len(files)
        /\ \A i \in DOMAIN files : files[i].id = i /\ files[i] \in Item
    BY DEF Post
  <1>2. PICK t : t = loop.items
    OBVIOUS
  <1>3. /\ t \in Seq(Item) /\ t # <<>> /\ Len(t) <= Len(files)
        /\ \A i \in DOMAIN t : t[i] = files[i + Pos]
    BY <1>2 DEF Ahead
  <1>4. Len(t) \in Nat /\ Len(t) >= 1 /\ DOMAIN t = 1..Len(t)
    BY <1>3
  <1>5. Pos = Len(files) - Len(t)
    BY <1>2 DEF Pos
  <1>6. PICK p \in Nat : p = Pos /\ p = Len(files) - Len(t)
    <2>1. PICK a \in Nat : a = Len(files)
      BY <1>1
    <2>2. PICK b \in Nat : b = Len(t)
      BY <1>4
    <2>3. a - b \in Nat
      BY <2>1, <2>2, <1>3
    <2> QED
      BY <2>1, <2>2, <2>3, <1>5
  <1>7. p + 1 \in DOMAIN files
    BY <1>1, <1>3, <1>4, <1>6
  <1>8. Head(t) = files[p + 1]
    <2>1. 1 \in DOMAIN t /\ Head(t) = t[1] /\ 1 + p = p + 1
      BY <1>3, <1>4
    <2> QED
      BY <2>1, <1>3, <1>6
  <1>9. PICK r : r = Tail(t)
    OBVIOUS
  <1>10. r \in Seq(Item) /\ Len(r) = Len(t) - 1 /\ \A i \in 1..(Len(t) - 1) : r[i] = t[i + 1]
    BY <1>3, <1>4, <1>9
  <1>11. DOMAIN r = 1..(Len(t) - 1)
    BY <1>4, <1>10
  <1>12. ASSUME NEW i \in DOMAIN r PROVE r[i] = files[i + (p + 1)]
    <2>1. i + 1 \in DOMAIN t /\ (i + 1) + p = i + (p + 1)
      BY <1>4, <1>11
    <2> QED
      BY <2>1, <1>3, <1>6, <1>10, <1>11
  <1> QED
    BY <1>1, <1>2, <1>6, <1>7, <1>8, <1>9, <1>10, <1>12 DEF NextItem

\* One item further.
LEMMA LoopAdvances ==
  ASSUME Post, Ahead, Collected, loop.items # <<>>, UNCHANGED <<kind, files>>,
         loop'.items = Tail(loop.items),
         \/ loop'.images = loop.images
         \/ loop'.images = Append(loop.images, files[Pos + 1]) /\ Pos + 1 \in Fits
  PROVE  Pos' = Pos + 1 /\ Post' /\ Ahead' /\ Collected'
  <1>1. /\ Pos \in Nat /\ Pos + 1 \in DOMAIN files
        /\ files[Pos + 1] \in Item /\ files[Pos + 1].id = Pos + 1
        /\ Tail(loop.items) \in Seq(Item) /\ Len(Tail(loop.items)) = Len(loop.items) - 1
        /\ \A i \in DOMAIN Tail(loop.items) : Tail(loop.items)[i] = files[i + (Pos + 1)]
    BY NextIsFile
  <1>2. Len(files) \in Nat /\ Len(loop.items) \in Nat /\ Len(loop.items) <= Len(files)
    BY DEF Post, Ahead
  <1>3. PICK p \in Nat : p = Pos
    BY <1>1
  <1>4. Pos' = p + 1
    <2>1. PICK a \in Nat : a = Len(files)
      BY <1>2
    <2>2. PICK b \in Nat : b = Len(loop.items)
      BY <1>2
    <2>3. Len(files') = a /\ Len(loop'.items) = b - 1
      BY <2>1, <2>2, <1>1
    <2>4. p = a - b
      BY <2>1, <2>2, <1>3 DEF Pos
    <2>5. a - (b - 1) = p + 1
      BY <2>4
    <2> QED
      BY <2>3, <2>5 DEF Pos
  <1>5. UNCHANGED Fits /\ Post'
    BY FilesKept
  <1>6. Ahead'
    BY <1>1, <1>2, <1>3, <1>4 DEF Ahead
  <1>7. Collected'
    <2>1. PICK m : m = loop.images
      OBVIOUS
    <2>2. /\ m \in Seq(Item) /\ Rising(m)
          /\ \A i \in DOMAIN m : m[i].id \in Fits /\ m[i].id <= p /\ m[i] = files[m[i].id]
      BY <2>1, <1>3 DEF Collected
    <2>3. \A i \in DOMAIN m : m[i].id \in Nat
      <3>1. \A i \in DOMAIN m : m[i] \in Item
        BY <2>2
      <3> QED
        BY <3>1 DEF Item
    <2>4. CASE loop'.images = m
      <3>1. \A i \in DOMAIN m : m[i].id <= p + 1
        BY <2>2, <2>3
      <3> QED
        BY <2>2, <2>4, <3>1, <1>4, <1>5 DEF Collected
    <2>5. CASE loop'.images = Append(m, files[p + 1]) /\ p + 1 \in Fits
      <3>1. PICK f : f = files[p + 1] /\ f \in Item /\ f.id = p + 1
        BY <1>1, <1>3
      <3>2. PICK a : a = Append(m, f)
        OBVIOUS
      <3>3. /\ a \in Seq(Item) /\ Len(m) \in Nat /\ DOMAIN m = 1..Len(m) /\ DOMAIN a = 1..(Len(m) + 1)
            /\ a[Len(m) + 1] = f /\ \A i \in 1..Len(m) : a[i] = m[i]
        BY <2>2, <3>1, <3>2
      <3>4. Rising(a)
        <4>1. ASSUME NEW i \in DOMAIN a, NEW j \in DOMAIN a, i < j PROVE a[i].id < a[j].id
          <5>1. i \in DOMAIN m /\ a[i] = m[i]
            BY <4>1, <3>3
          <5>2. CASE j \in DOMAIN m
            BY <4>1, <5>1, <5>2, <3>3, <2>2 DEF Rising
          <5>3. CASE j \notin DOMAIN m
            <6>1. a[j] = f
              BY <4>1, <5>3, <3>3
            <6>2. m[i].id <= p /\ m[i].id \in Nat
              BY <5>1, <2>2, <2>3
            <6> QED
              BY <5>1, <6>1, <6>2, <3>1
          <5> QED
            BY <5>2, <5>3
        <4> QED
          BY <4>1 DEF Rising
      <3>5. ASSUME NEW i \in DOMAIN a
            PROVE  a[i].id \in Fits /\ a[i].id <= p + 1 /\ a[i] = files[a[i].id]
        <4>1. CASE i \in DOMAIN m
          BY <4>1, <3>3, <2>2, <2>3
        <4>2. CASE i \notin DOMAIN m
          <5>1. a[i] = f
            BY <3>5, <4>2, <3>3
          <5> QED
            BY <5>1, <3>1, <2>5
        <4> QED
          BY <4>1, <4>2
      <3>6. loop'.images = a
        BY <2>5, <3>1, <3>2
      <3> QED
        BY <3>3, <3>4, <3>5, <3>6, <1>4, <1>5 DEF Collected
    <2> QED
      BY <2>1, <2>4, <2>5, <1>3
  <1> QED
    BY <1>3, <1>4, <1>5, <1>6, <1>7

\* The items behind the loop, one further.
LEMMA FitsFurther ==
  ASSUME NEW n \in Nat
  PROVE  /\ Fits \cap 1..(n + 1) = IF n + 1 \in Fits THEN (Fits \cap 1..n) \cup {n + 1} ELSE Fits \cap 1..n
         /\ IsFiniteSet(Fits \cap 1..n) /\ Cardinality(Fits \cap 1..n) \in Nat
         /\ n + 1 \in Fits => Cardinality(Fits \cap 1..(n + 1)) = Cardinality(Fits \cap 1..n) + 1
  <1>1. 1..(n + 1) = (1..n) \cup {n + 1} /\ n + 1 \notin 1..n
    OBVIOUS
  <1>2. PICK S : S = Fits
    OBVIOUS
  <1>3. S \cap 1..(n + 1) = IF n + 1 \in S THEN (S \cap 1..n) \cup {n + 1} ELSE S \cap 1..n
    BY <1>1
  <1>4. PICK A : A = S \cap 1..n
    OBVIOUS
  <1>5. IsFiniteSet(1..n)
    BY FS_Interval
  <1>6. IsFiniteSet(A)
    BY <1>4, <1>5, FS_Subset
  <1>7. Cardinality(A) \in Nat
    BY <1>6, FS_CardinalityType
  <1>8. n + 1 \notin A
    BY <1>1, <1>4
  <1>9. Cardinality(A \cup {n + 1}) = Cardinality(A) + 1
    BY <1>6, <1>8, FS_AddElement
  <1> QED
    BY <1>2, <1>3, <1>4, <1>6, <1>7, <1>9

\* A loop begins with the whole post before it.
LEMMA LoopBegins ==
  ASSUME FlowInv, task = "run", row = "none", pc \in Before, kind \in Looping, Goto("items"),
         UNCHANGED <<sent, call, faults>>,
         files' \in Seq(Item), \A i \in DOMAIN files' : files'[i].id = i,
         kind = "reddit" => \A i \in DOMAIN files' : files'[i].size # 0,
         loop'.items = files', loop'.images = <<>>, loop'.handled = 0
  PROVE  FlowInv'
  <1>1. pc' = "items" /\ UNCHANGED <<kind, task, attempt, row>>
    BY DEF Goto
  <1>2. /\ (Clean' => Clean) /\ (Clean => InChat' = {}) /\ faults \in Nat /\ (Smooth' => Clean')
        /\ call' = Idle
    BY <1>1, NothingYet DEF Clean, FlowInv, Chat, Smooth
  <1>3. call'.result = "ok" /\ ~Waiting'
    BY <1>2 DEF Idle, Waiting
  <1>4. Pos' = 0
    <2>1. PICK fs : fs = files'
      OBVIOUS
    <2>2. Len(fs) - Len(fs) = 0
      BY <2>1
    <2> QED
      BY <2>1, <2>2 DEF Pos
  <1>5. Ids(loop'.images) = {}
    BY DEF Ids
  <1>6. Post' /\ Ahead' /\ Collected'
    <2>1. Post'
      BY DEF Post
    <2>2. Ahead'
      <3>1. PICK fs : fs = files' /\ fs \in Seq(Item)
        OBVIOUS
      <3>2. Len(fs) <= Len(fs) /\ \A i \in DOMAIN fs : i + 0 = i
        BY <3>1
      <3> QED
        BY <3>1, <3>2, <1>4 DEF Ahead
    <2>3. Collected'
      BY DEF Collected, Rising
    <2> QED
      BY <2>1, <2>2, <2>3
  <1>7. CallOK' /\ CarouselOK'
    BY <1>1, <1>3 DEF CallOK, CarouselOK
  <1>8. LoopOK'
    BY <1>1, <1>3, <1>6 DEF LoopOK
  <1>9. Clean' => Apart' /\ LoopApart'
    BY <1>1, <1>2, <1>3 DEF Apart, LoopApart
  <1>10. Smooth' => WholePost' /\ WholeLoop' /\ WholeCall'
    <2>1. WholePost' /\ WholeCall'
      BY <1>1 DEF WholePost, OneShot, WholeCall, Sure
    <2>2. Fits' \cap 1..Pos' = {}
      BY <1>4
    <2>3. Cardinality({}) = 0
      BY FS_EmptySet
    <2>4. Smooth' => WholeLoop'
      <3>1. Smooth' => InChat' \cup Ids(loop'.images) = Fits' \cap 1..Pos'
        BY <1>2, <1>5, <2>2
      <3>2. loop'.handled = Cardinality(Fits' \cap 1..Pos')
        BY <2>2, <2>3
      <3>3. loop'.handled <= MaxItems
        BY JobAssumption
      <3> QED
        BY <3>1, <3>2, <3>3, <1>1 DEF WholeLoop
    <2> QED
      BY <2>1, <2>4
  <1>11. OnTheWay' /\ pc' \notin Before
    BY <1>1, <1>7, <1>8, <1>9, <1>10 DEF OnTheWay, Before
  <1> QED
    BY <1>1, <1>2, <1>11, GoesFlow

\* What holds at an item.
LEMMA AtItem ==
  ASSUME FlowInv, task = "run", pc = "items"
  PROVE  /\ OnTheWay /\ faults \in Nat /\ kind \in Looping /\ ~Waiting /\ call.result \in {"ok", "err"}
         /\ Post /\ Ahead /\ Collected
         /\ kind = "reddit" => \A i \in DOMAIN files : files[i].size # 0
         /\ Clean => InChat \cap Ids(loop.images) = {} /\ \A x \in InChat : x \in 1..Pos
         /\ Smooth => InChat \cup Ids(loop.images) = Fits \cap 1..Pos
         /\ Smooth /\ kind = "reddit" =>
               loop.handled = Cardinality(Fits \cap 1..Pos) /\ loop.handled <= MaxItems
  <1>1. OnTheWay /\ faults \in Nat
    BY DEF FlowInv, Before, Chat
  <1> QED
    BY <1>1 DEF OnTheWay, CallOK, LoopOK, Collecting, LoopApart, WholeLoop, Waiting

\* An item is skipped, or an image collected.
LEMMA ItemBehind ==
  ASSUME FlowInv, task = "run", row = "none", pc = "items", loop.items # <<>>, pc' = "items",
         UNCHANGED <<kind, task, attempt, row, files, sent, call>>,
         faults' \in Nat, faults' >= faults, loop'.items = Tail(loop.items),
         \/ loop'.images = loop.images /\ loop'.handled = loop.handled
            /\ (Smooth' => Pos + 1 \notin Fits)
         \/ loop'.images = Append(loop.images, files[Pos + 1]) /\ Pos + 1 \in Fits
            /\ (kind = "reddit" => loop'.handled = loop.handled + 1 /\ loop.handled < MaxItems)
  PROVE  FlowInv'
  <1>1. /\ OnTheWay /\ faults \in Nat /\ kind \in Looping /\ ~Waiting /\ call.result \in {"ok", "err"}
        /\ Post /\ Ahead /\ Collected
        /\ kind = "reddit" => \A i \in DOMAIN files : files[i].size # 0
        /\ Clean => InChat \cap Ids(loop.images) = {} /\ \A x \in InChat : x \in 1..Pos
        /\ Smooth => InChat \cup Ids(loop.images) = Fits \cap 1..Pos
        /\ Smooth /\ kind = "reddit" =>
              loop.handled = Cardinality(Fits \cap 1..Pos) /\ loop.handled <= MaxItems
    BY AtItem
  <1>2. PICK p \in Nat : /\ p = Pos /\ files[p + 1] \in Item /\ files[p + 1].id = p + 1
    BY <1>1, NextIsFile
  <1>3. Pos' = p + 1 /\ Post' /\ Ahead' /\ Collected'
    BY <1>1, <1>2, LoopAdvances
  <1>4. (Clean' => Clean) /\ (faults' = 0 => faults = 0) /\ UNCHANGED InChat /\ UNCHANGED Fits
    BY <1>1, MoreFaults, ChatKept, FilesKept
  <1>5. Smooth' => Smooth /\ Clean
    BY <1>4 DEF Smooth, Clean
  <1>6. ~Waiting' /\ call'.result \in {"ok", "err"}
    BY <1>1 DEF Waiting
  <1>7. CallOK' /\ CarouselOK' /\ LoopOK'
    BY <1>1, <1>3, <1>6 DEF CallOK, CarouselOK, LoopOK
  <1>8. \/ loop'.images = loop.images /\ Ids(loop'.images) = Ids(loop.images)
           /\ loop'.handled = loop.handled /\ (Smooth' => p + 1 \notin Fits)
        \/ p + 1 \in Fits /\ Ids(loop'.images) = Ids(loop.images) \cup {p + 1}
           /\ (kind = "reddit" => loop'.handled = loop.handled + 1 /\ loop.handled < MaxItems)
    <2>1. CASE loop'.images = loop.images /\ loop'.handled = loop.handled
               /\ (Smooth' => Pos + 1 \notin Fits)
      BY <2>1, <1>2
    <2>2. CASE loop'.images = Append(loop.images, files[Pos + 1]) /\ Pos + 1 \in Fits
               /\ (kind = "reddit" => loop'.handled = loop.handled + 1 /\ loop.handled < MaxItems)
      <3>1. PICK m : m = loop.images /\ m \in Seq(Item)
        BY <1>1 DEF Collected
      <3>2. PICK f : f = files[p + 1] /\ f \in Item /\ f.id = p + 1
        BY <1>2
      <3>3. PICK a : a = Append(m, f)
        OBVIOUS
      <3>4. /\ Len(m) \in Nat /\ DOMAIN m = 1..Len(m) /\ DOMAIN a = 1..(Len(m) + 1)
            /\ a[Len(m) + 1] = f /\ \A i \in 1..Len(m) : a[i] = m[i]
        BY <3>1, <3>2, <3>3
      <3>5. Ids(a) = Ids(m) \cup {p + 1}
        BY <3>2, <3>4 DEF Ids
      <3>6. loop'.images = a
        BY <2>2, <1>2, <3>1, <3>2, <3>3
      <3> QED
        BY <2>2, <3>1, <3>5, <3>6, <1>2
    <2> QED
      BY <2>1, <2>2
  <1>9. Clean' => Apart' /\ LoopApart'
    <2>1. Clean => \A x \in InChat : x \in 1..p
      BY <1>1, <1>2
    <2>2. Clean => InChat \cap Ids(loop'.images) = {}
      <3>1. p + 1 \notin 1..p
        BY <1>2
      <3> QED
        BY <2>1, <3>1, <1>1, <1>8
    <2>3. \A x \in 1..p : x \in 1..(p + 1)
      BY <1>2
    <2> QED
      BY <2>1, <2>2, <2>3, <1>3, <1>4, <1>6 DEF Apart, LoopApart
  <1>10. Smooth' => WholePost' /\ WholeLoop' /\ WholeCall'
    <2>1. WholePost' /\ WholeCall'
      BY DEF WholePost, OneShot, WholeCall, Sure
    <2>2. /\ Fits \cap 1..(p + 1) = IF p + 1 \in Fits THEN (Fits \cap 1..p) \cup {p + 1} ELSE Fits \cap 1..p
          /\ Cardinality(Fits \cap 1..p) \in Nat
          /\ p + 1 \in Fits => Cardinality(Fits \cap 1..(p + 1)) = Cardinality(Fits \cap 1..p) + 1
      BY FitsFurther
    <2>3. Smooth' => InChat \cup Ids(loop'.images) = Fits \cap 1..(p + 1)
      <3>1. Smooth' => InChat \cup Ids(loop.images) = Fits \cap 1..p
        BY <1>1, <1>2, <1>5
      <3> QED
        BY <3>1, <2>2, <1>8
    <2>4. Smooth' /\ kind = "reddit" =>
             loop'.handled = Cardinality(Fits \cap 1..(p + 1)) /\ loop'.handled <= MaxItems
      <3>1. Smooth' /\ kind = "reddit" => loop.handled = Cardinality(Fits \cap 1..p) /\ loop.handled <= MaxItems
        BY <1>1, <1>2, <1>5
      <3>2. PICK c \in Nat : c = Cardinality(Fits \cap 1..p)
        BY <2>2
      <3>3. MaxItems \in Nat
        BY JobAssumption
      <3>4. CASE ~(p + 1 \in Fits)
        <4>1. Smooth' => loop'.handled = loop.handled
          BY <3>4, <1>8
        <4>2. Fits \cap 1..(p + 1) = Fits \cap 1..p
          BY <3>4, <2>2
        <4> QED
          BY <3>1, <4>1, <4>2
      <3>5. CASE p + 1 \in Fits
        <4>1. Smooth' /\ kind = "reddit" => loop'.handled = loop.handled + 1 /\ loop.handled < MaxItems
          BY <3>5, <1>8
        <4>2. Cardinality(Fits \cap 1..(p + 1)) = c + 1
          BY <3>5, <3>2, <2>2
        <4> QED
          BY <3>1, <3>2, <3>3, <4>1, <4>2
      <3> QED
        BY <3>4, <3>5
    <2>5. Smooth' => WholeLoop'
      BY <2>3, <2>4, <1>3, <1>4 DEF WholeLoop
    <2> QED
      BY <2>1, <2>5
  <1>11. OnTheWay' /\ pc' \notin Before
    BY <1>7, <1>9, <1>10 DEF OnTheWay, Before
  <1> QED
    BY <1>11, GoesFlow

\* What fits is there.
LEMMA FitsThere ==
  ASSUME kind \in Looping, kind = "reddit" => \A i \in DOMAIN files : files[i].size # 0,
         NEW i \in Fits
  PROVE  i \in DOMAIN files /\ files[i].size # 0 /\ (Smooth => ~TooBig(files[i]))
  <1>1. i \in DOMAIN files
    BY DEF Fits
  <1>2. kind = "pinterest" => files[i].size \in 1..Limit(files[i])
    BY DEF Fits
  <1>3. kind = "pinterest" => files[i].size # 0
    BY <1>2
  <1> QED
    BY <1>1, <1>3 DEF Looping, Smooth

\* An item is asked to be uploaded.
LEMMA ItemAsked ==
  ASSUME FlowInv, task = "run", row = "none", pc = "items", loop.items # <<>>, pc' = "itemsent",
         UNCHANGED <<kind, task, attempt, row, files, sent, loop, faults>>,
         Pos + 1 \in Fits, kind = "reddit" => loop.handled < MaxItems,
         SendFile(files[Pos + 1])
  PROVE  FlowInv'
  <1>1. /\ OnTheWay /\ faults \in Nat /\ kind \in Looping /\ ~Waiting
        /\ Post /\ Ahead /\ Collected
        /\ kind = "reddit" => \A i \in DOMAIN files : files[i].size # 0
        /\ Clean => InChat \cap Ids(loop.images) = {} /\ \A x \in InChat : x \in 1..Pos
        /\ Smooth => InChat \cup Ids(loop.images) = Fits \cap 1..Pos
        /\ Smooth /\ kind = "reddit" =>
              loop.handled = Cardinality(Fits \cap 1..Pos) /\ loop.handled <= MaxItems
    BY AtItem
  <1>2. PICK p \in Nat : p = Pos /\ p + 1 \in DOMAIN files /\ files[p + 1] \in Item /\ files[p + 1].id = p + 1
    BY <1>1, NextIsFile
  <1>3. PICK f : f = files[p + 1] /\ f \in Item /\ f.id = p + 1
    BY <1>2
  <1>4. f.size # 0 /\ (Smooth => ~TooBig(f))
    BY <1>1, <1>2, <1>3, FitsThere
  <1>5. PICK q : q = <<f>>
    OBVIOUS
  <1>6. /\ q \in Seq(Item) /\ q # <<>> /\ Rising(q) /\ Asked(q)
        /\ Ids(q) = {p + 1} /\ q[1] = f /\ DOMAIN q = 1..1
    <2>1. SendFile(f)
      BY <1>2, <1>3
    <2> QED
      BY <2>1, <1>3, <1>5, OneAsked
  <1>7. Waiting' /\ Shape' /\ Queue' = q /\ call'.result = "pending"
    BY <1>6, AskedQueue DEF Asked
  <1>8. UNCHANGED InChat /\ UNCHANGED Fits /\ UNCHANGED Pos /\ Post' /\ Ahead' /\ Collected'
        /\ UNCHANGED Ids(loop.images)
    BY <1>1, ChatKept, FilesKept, LoopKeptAhead
  <1>9. (Clean' => Clean) /\ (Smooth' => Smooth)
    BY DEF Clean, Smooth
  <1>10. CallOK' /\ CarouselOK'
    BY <1>6, <1>7 DEF CallOK, CarouselOK
  <1>11. LoopOK'
    <2>1. Queue' = <<files'[Pos' + 1]>>
      BY <1>2, <1>3, <1>5, <1>7, <1>8
    <2> QED
      BY <2>1, <1>1, <1>8 DEF LoopOK
  <1>12. Clean' => Apart' /\ LoopApart'
    <2>1. Clean => \A x \in InChat : x \in 1..p
      BY <1>1, <1>2
    <2>2. p + 1 \notin 1..p /\ \A x \in 1..p : x \in 1..(p + 1)
      BY <1>2
    <2>3. Clean' => Apart'
      BY <2>1, <2>2, <1>1, <1>6, <1>7, <1>8, <1>9 DEF Apart
    <2>4. Clean' => LoopApart'
      BY <2>1, <2>2, <1>1, <1>2, <1>8, <1>9 DEF LoopApart
    <2> QED
      BY <2>3, <2>4
  <1>13. Smooth' => WholePost' /\ WholeLoop' /\ WholeCall'
    <2>1. WholePost'
      BY DEF WholePost, OneShot
    <2>2. Smooth' => WholeLoop'
      BY <1>1, <1>7, <1>8, <1>9 DEF WholeLoop
    <2>3. \A i \in DOMAIN q : q[i] = f
      BY <1>6
    <2>4. Smooth' => There(q) /\ Small(q)
      BY <2>3, <1>4, <1>9 DEF There, Small
    <2>5. Smooth' => WholeCall'
      BY <2>4, <1>7 DEF WholeCall
    <2> QED
      BY <2>1, <2>2, <2>5
  <1>14. OnTheWay' /\ pc' \notin Before
    BY <1>10, <1>11, <1>12, <1>13 DEF OnTheWay, Before
  <1> QED
    BY <1>1, <1>14, GoesFlow

\* The answer for an item is there.
LEMMA ItemDone ==
  ASSUME FlowInv, task = "run", row = "none", pc = "itemsent", call.result # "pending", pc' = "items",
         UNCHANGED <<kind, task, attempt, row, files, sent, call, faults>>,
         loop'.items = Tail(loop.items), loop'.images = loop.images,
         kind = "reddit" /\ call.result = "ok" => loop'.handled = loop.handled + 1
  PROVE  FlowInv'
  <1>1. /\ OnTheWay /\ faults \in Nat /\ kind \in Looping /\ ~Waiting /\ call.result \in {"ok", "err"}
        /\ Post /\ Ahead /\ Collected /\ loop.items # <<>> /\ Pos + 1 \in Fits
        /\ kind = "reddit" => \A i \in DOMAIN files : files[i].size # 0
    <2>1. OnTheWay /\ faults \in Nat
      BY DEF FlowInv, Before, Chat
    <2> QED
      BY <2>1 DEF OnTheWay, CallOK, LoopOK, Collecting, Waiting
  <1>2. PICK p \in Nat : p = Pos /\ files[p + 1] \in Item /\ files[p + 1].id = p + 1
    BY <1>1, NextIsFile
  <1>3. Pos' = p + 1 /\ Post' /\ Ahead' /\ Collected'
    BY <1>1, <1>2, LoopAdvances
  <1>4. (Clean' => Clean) /\ (Smooth' => Smooth) /\ UNCHANGED InChat /\ UNCHANGED Fits
    BY ChatKept, FilesKept DEF Clean, Smooth
  <1>5. ~Waiting' /\ call'.result \in {"ok", "err"}
    BY <1>1 DEF Waiting
  <1>6. CallOK' /\ CarouselOK' /\ LoopOK'
    BY <1>1, <1>3, <1>5 DEF CallOK, CarouselOK, LoopOK
  <1>7. Clean' => Apart' /\ LoopApart'
    BY <1>1, <1>2, <1>3, <1>4, <1>5 DEF OnTheWay, Apart, LoopApart
  <1>8. Smooth' => WholePost' /\ WholeLoop' /\ WholeCall'
    <2>1. WholePost' /\ WholeCall'
      BY DEF WholePost, OneShot, WholeCall, Sure
    <2>2. Smooth => /\ call.result = "ok" /\ InChat \cup Ids(loop.images) = Fits \cap 1..(p + 1)
                    /\ kind = "reddit" => /\ loop.handled = Cardinality(Fits \cap 1..p)
                                          /\ loop.handled < MaxItems
      BY <1>1, <1>2 DEF OnTheWay, WholeLoop, WholeCall, Sure
    <2>3. /\ Cardinality(Fits \cap 1..p) \in Nat
          /\ Cardinality(Fits \cap 1..(p + 1)) = Cardinality(Fits \cap 1..p) + 1
      BY <1>1, <1>2, FitsFurther
    <2>4. Smooth /\ kind = "reddit" =>
             loop'.handled = Cardinality(Fits \cap 1..(p + 1)) /\ loop'.handled <= MaxItems
      BY <2>2, <2>3, JobAssumption
    <2>5. Smooth' => WholeLoop'
      BY <2>2, <2>4, <1>3, <1>4 DEF WholeLoop
    <2> QED
      BY <2>1, <2>5
  <1>9. OnTheWay' /\ pc' \notin Before
    BY <1>6, <1>7, <1>8 DEF OnTheWay, Before
  <1> QED
    BY <1>1, <1>9, GoesFlow

\* A board is wanted as far as it fits.
LEMMA BoardWanted ==
  ASSUME kind = "pinterest", Post, Ahead, loop.items = <<>>
  PROVE  Wanted = Fits \cap 1..Pos
  <1>1. Wanted = {files[i].id : i \in Fits}
    BY DEF Wanted
  <1>2. \A i \in Fits : i \in DOMAIN files /\ files[i].id = i
    BY DEF Fits, Post
  <1>3. DOMAIN files = 1..Pos
    <2>1. Len(files) \in Nat /\ DOMAIN files = 1..Len(files)
      BY DEF Post
    <2>2. Len(files) - 0 = Len(files) /\ Len(<<>>) = 0
      BY <2>1
    <2>3. Pos = Len(files)
      BY <2>2 DEF Pos
    <2> QED
      BY <2>1, <2>3
  <1>4. Wanted = Fits
    BY <1>1, <1>2
  <1> QED
    BY <1>2, <1>3, <1>4

\* Of a thread the first MaxItems items that fit are wanted.
LEMMA ThreadWanted ==
  ASSUME kind = "reddit", Post, Ahead,
         Cardinality(Fits \cap 1..Pos) <= MaxItems,
         loop.items = <<>> \/ Cardinality(Fits \cap 1..Pos) = MaxItems
  PROVE  Wanted = Fits \cap 1..Pos
  <1> DEFINE Below(k) == {j \in Fits : j < k}
             First == {k \in Fits : Cardinality(Below(k)) < MaxItems}
  <1>1. Wanted = {files[i].id : i \in First}
    BY DEF Wanted
  <1>2. PICK n \in Nat : n = Len(files) /\ DOMAIN files = 1..n
    BY DEF Post
  <1>3. PICK l \in Nat : l = Len(loop.items) /\ l <= n /\ (loop.items = <<>> => l = 0)
    BY <1>2 DEF Ahead
  <1>4. PICK p \in Nat : p = Pos /\ p = n - l
    <2>1. n - l \in Nat
      BY <1>2, <1>3
    <2> QED
      BY <2>1, <1>2, <1>3 DEF Pos
  <1>5. PICK F : F = Fits /\ F \subseteq 1..n /\ \A i \in F : files[i].id = i
    BY <1>2 DEF Fits, Post
  <1>6. IsFiniteSet(F)
    <2>1. IsFiniteSet(1..n)
      BY FS_Interval
    <2> QED
      BY <2>1, <1>5, FS_Subset
  <1>7. PICK A : A = F \cap 1..p
    OBVIOUS
  <1>8. IsFiniteSet(A) /\ Cardinality(A) \in Nat /\ Cardinality(A) <= MaxItems
    <2>1. IsFiniteSet(A)
      BY <1>6, <1>7, FS_Subset
    <2> QED
      BY <2>1, <1>4, <1>5, <1>7, FS_CardinalityType
  <1>9. ASSUME NEW k \in F
        PROVE  k \in First <=> k \in A
    <2>1. PICK R : R = Below(k)
      OBVIOUS
    <2>2. R = {j \in F : j < k} /\ k \in Nat
      BY <2>1, <1>5, <1>9
    <2>3. IsFiniteSet(R)
      BY <2>2, <1>6, FS_Subset
    <2>4. Cardinality(R) \in Nat
      BY <2>3, FS_CardinalityType
    <2>5. CASE k \in A
      <3>1. R \in SUBSET A
        <4>1. ASSUME NEW j \in R PROVE j \in A
          <5>1. j \in F /\ j < k /\ j \in 1..n /\ k \in 1..p
            BY <4>1, <2>2, <2>5, <1>5, <1>7
          <5>2. j \in 1..p
            BY <5>1, <1>2, <1>4
          <5> QED
            BY <5>1, <5>2, <1>7
        <4> QED
          BY <4>1
      <3>2. k \notin R
        BY <2>2
      <3>3. Cardinality(R) <= Cardinality(A) /\ Cardinality(R) # Cardinality(A)
        BY <3>1, <3>2, <2>5, <1>8, FS_Subset
      <3>4. Cardinality(R) < MaxItems
        BY <3>3, <2>4, <1>8, JobAssumption
      <3> QED
        BY <3>4, <2>1, <2>5, <1>5, <1>9
    <2>6. CASE k \notin A
      <3>1. k > p /\ k <= n
        BY <2>2, <2>6, <1>5, <1>7, <1>9
      <3>2. l # 0
        BY <3>1, <2>2, <1>4
      <3>3. Cardinality(A) = MaxItems
        BY <3>2, <1>3, <1>4, <1>5, <1>7
      <3>4. A \in SUBSET R
        BY <2>2, <3>1, <1>5, <1>7
      <3>5. Cardinality(A) <= Cardinality(R)
        BY <3>4, <2>3, FS_Subset
      <3>6. ~(Cardinality(R) < MaxItems)
        BY <3>3, <3>5, <2>4, <1>8
      <3> QED
        BY <3>6, <2>1, <2>6
    <2> QED
      BY <2>5, <2>6
  <1>10. First = A
    <2>1. First \subseteq F /\ A \subseteq F
      BY <1>5, <1>7
    <2> HIDE DEF First
    <2> QED
      BY <2>1, <1>9
  <1>11. Wanted = A
    <2> HIDE DEF First
    <2>1. \A i \in First : files[i].id = i
      BY <1>5, <1>7, <1>10
    <2> QED
      BY <2>1, <1>1, <1>10
  <1> QED
    BY <1>4, <1>5, <1>7, <1>11

\* The images that were collected go out at the end.
LEMMA LoopEnds ==
  ASSUME FlowInv, task = "run", row = "none", pc = "items",
         pc' = "done" \/ (pc' = "album" /\ kind = "reddit"),
         UNCHANGED <<kind, task, attempt, row, files, sent, loop, faults>>,
         SendPhotoAlbum(loop.images), Smooth => Wanted = Fits \cap 1..Pos
  PROVE  FlowInv'
  <1>1. /\ OnTheWay /\ faults \in Nat /\ kind \in Looping /\ ~Waiting
        /\ Post /\ Ahead /\ Collected
        /\ kind = "reddit" => \A i \in DOMAIN files : files[i].size # 0
        /\ Clean => InChat \cap Ids(loop.images) = {} /\ \A x \in InChat : x \in 1..Pos
        /\ Smooth => InChat \cup Ids(loop.images) = Fits \cap 1..Pos
    BY AtItem
  <1>2. PICK q : q = loop.images /\ q \in Seq(Item) /\ Rising(q)
                 /\ \A i \in DOMAIN q : q[i].id \in Fits /\ q[i] = files[q[i].id]
    BY <1>1 DEF Collected
  <1>3. \/ q = <<>> /\ call' = Idle /\ ~Waiting' /\ call'.result = "ok" /\ Ids(q) = {}
        \/ Waiting' /\ Shape' /\ Queue' = q /\ call'.result = "pending"
    <2>1. CASE q = <<>>
      <3>1. call' = Idle
        BY <2>1, <1>2 DEF SendPhotoAlbum
      <3>2. Ids(<<>>) = {}
        BY DEF Ids
      <3> QED
        BY <2>1, <3>1, <3>2 DEF Idle, Waiting
    <2>2. CASE q # <<>>
      <3>1. Asked(q)
        BY <2>2, <1>2, AlbumAsked
      <3> QED
        BY <2>2, <3>1, <1>2, AskedQueue DEF Waiting
    <2> QED
      BY <2>1, <2>2
  <1>4. UNCHANGED InChat /\ UNCHANGED <<Fits, Wanted>> /\ UNCHANGED Pos /\ Post' /\ Ahead' /\ Collected'
    BY <1>1, ChatKept, FilesKept, LoopKeptAhead
  <1>5. (Clean' => Clean) /\ (Smooth' => Smooth)
    BY DEF Clean, Smooth
  <1>6. CallOK' /\ CarouselOK'
    BY <1>2, <1>3 DEF CallOK, CarouselOK
  <1>7. LoopOK'
    BY <1>1, <1>4 DEF LoopOK
  <1>8. Clean' => Apart' /\ LoopApart'
    BY <1>1, <1>2, <1>3, <1>4, <1>5 DEF Apart, LoopApart
  <1>9. Smooth' => WholePost' /\ WholeLoop' /\ WholeCall'
    <2>1. Smooth => InChat \cup Ids(q) = Wanted
      BY <1>1, <1>2
    <2>2. Smooth' => WholePost'
      BY <2>1, <1>3, <1>4, <1>5 DEF WholePost
    <2>3. WholeLoop'
      BY DEF WholeLoop
    <2>4. ASSUME NEW i \in DOMAIN q PROVE q[i].size # 0 /\ (Smooth => ~TooBig(q[i]))
      <3>1. PICK k \in Fits : k = q[i].id /\ q[i] = files[k]
        BY <1>2, <2>4
      <3> QED
        BY <3>1, <1>1, FitsThere
    <2>5. There(q) /\ (Smooth => Small(q))
      BY <2>4 DEF There, Small
    <2>6. Smooth' => WholeCall'
      BY <2>5, <1>3, <1>5 DEF WholeCall
    <2> QED
      BY <2>2, <2>3, <2>6
  <1>10. OnTheWay' /\ pc' \notin Before
    BY <1>6, <1>7, <1>8, <1>9 DEF OnTheWay, Before
  <1> QED
    BY <1>1, <1>10, GoesFlow

-----------------------------------------------------------------------------
(* Pinterest.                                                                *)

\* The files of a board are a post.
LEMMA BoardItems ==
  ASSUME NEW wanted \in SUBSET {"image", "video"}, NEW fs \in Downloads[wanted]
  PROVE  /\ fs \in Seq(Item) /\ \A i \in DOMAIN fs : fs[i].id = i
         /\ \A i \in DOMAIN fs : fs[i].type \in {"image", "video"}
  <1> DEFINE Good(p) == p.type \in {"image", "video"} /\ p.size \in Nat
  <1>1. \A p \in downloadFile : Usable(wanted, p) => Good(p)
    <2>1. ASSUME NEW p \in downloadFile, Usable(wanted, p) PROVE Good(p)
      <3>1. p.type \in {"image", "video"}
        BY <2>1 DEF Usable
      <3>2. p.size \in Sizes \cup {0}
        BY <2>1 DEF downloadFile
      <3>3. Sizes \cup {0} \subseteq Nat
        BY JobAssumption
      <3>4. p.size \in Nat
        BY ONLY <3>2, <3>3
      <3> QED
        BY <3>1, <3>4
    <2> QED
      BY <2>1
  <1>2. \/ fs \in {downloadPin(p, wanted) : p \in downloadFile}
        \/ fs \in {downloadBoard(feed, wanted) : feed \in UNION {[1..n -> downloadFile] : n \in 1..MaxFiles}}
    BY DEF Downloads
  <1>3. CASE fs \in {downloadPin(p, wanted) : p \in downloadFile}
    <2>1. PICK p \in downloadFile : fs = downloadPin(p, wanted)
      BY <1>3
    <2>2. CASE Usable(wanted, p)
      <3>1. PICK f : f = [id |-> 1, type |-> p.type, size |-> p.size]
        OBVIOUS
      <3>2. f \in Item /\ f.id = 1 /\ f.type \in {"image", "video"}
        BY <3>1, <2>1, <2>2, <1>1 DEF Item, Types
      <3>3. fs = <<f>>
        BY <2>1, <2>2, <3>1 DEF downloadPin
      <3> QED
        BY <3>2, <3>3
    <2>3. CASE ~Usable(wanted, p)
      BY <2>1, <2>3 DEF downloadPin
    <2> QED
      BY <2>2, <2>3
  <1>4. CASE fs \in {downloadBoard(feed, wanted) : feed \in UNION {[1..n -> downloadFile] : n \in 1..MaxFiles}}
    <2>1. PICK feed \in UNION {[1..n -> downloadFile] : n \in 1..MaxFiles} : fs = downloadBoard(feed, wanted)
      BY <1>4
    <2>2. PICK n \in 1..MaxFiles : feed \in [1..n -> downloadFile]
      BY <2>1
    <2>3. feed \in Seq(downloadFile) /\ n \in Nat
      BY <2>2, JobAssumption
    <2>4. PICK P : P = {i \in DOMAIN feed : Usable(wanted, feed[i])}
      OBVIOUS
    <2>5. PICK ps : ps = Picked(feed, P)
      OBVIOUS
    <2>6. ps \in Seq(downloadFile) /\ \A i \in DOMAIN ps : \E m \in DOMAIN feed : m \in P /\ ps[i] = feed[m]
      <3>1. /\ Picked(feed, P) \in Seq(downloadFile)
            /\ \A i \in DOMAIN Picked(feed, P) : \E m \in DOMAIN feed : m \in P /\ Picked(feed, P)[i] = feed[m]
        BY <2>3, PickedRange
      <3> QED
        BY <2>5, <3>1
    <2>7. \A i \in DOMAIN ps : Good(ps[i])
      <3>1. ASSUME NEW i \in DOMAIN ps PROVE Good(ps[i])
        <4>1. PICK m \in DOMAIN feed : m \in P /\ ps[i] = feed[m]
          BY <2>6, <3>1
        <4>2. feed[m] \in downloadFile /\ Usable(wanted, feed[m])
          BY <4>1, <2>2, <2>4
        <4> QED
          BY <4>1, <4>2, <1>1
      <3> QED
        BY <3>1
    <2>8. PICK k \in Nat : k = Least(Len(ps), MaxItems) /\ 1..k \subseteq DOMAIN ps
      <3>1. PICK l \in Nat : l = Len(ps) /\ DOMAIN ps = 1..l
        BY <2>6
      <3>2. Least(l, MaxItems) \in Nat /\ Least(l, MaxItems) <= l
        BY <3>1, JobAssumption DEF Least
      <3> QED
        BY <3>1, <3>2
    <2>9. fs = [i \in 1..k |-> [id |-> i, type |-> ps[i].type, size |-> ps[i].size]]
      BY <2>1, <2>4, <2>5, <2>8 DEF downloadBoard
    <2>10. \A i \in 1..k : fs[i] \in Item /\ fs[i].id = i /\ fs[i].type \in {"image", "video"}
      <3>1. ASSUME NEW i \in 1..k
            PROVE  fs[i] \in Item /\ fs[i].id = i /\ fs[i].type \in {"image", "video"}
        <4>1. Good(ps[i]) /\ i \in Nat
          BY <2>7, <2>8
        <4>2. fs[i] = [id |-> i, type |-> ps[i].type, size |-> ps[i].size]
          BY <2>9
        <4> QED
          BY <4>1, <4>2 DEF Item, Types
      <3> QED
        BY <3>1
    <2>11. fs \in [1..k -> Item] /\ DOMAIN fs = 1..k
      BY <2>9, <2>10
    <2>12. fs \in Seq(Item)
      BY <2>8, <2>11
    <2> QED
      BY <2>10, <2>11, <2>12
  <1> QED
    BY <1>2, <1>3, <1>4

\* A single pin is wanted.
LEMMA PinWanted ==
  ASSUME kind' = "pinterest", NEW fs \in Seq(Item), files' = fs, Len(fs) = 1, fs[1].id = 1,
         fs[1].size # 0, fs[1].size <= Limit(fs[1])
  PROVE  Wanted' = {1}
  <1>1. DOMAIN fs = 1..1 /\ fs[1] \in Item
    OBVIOUS
  <1>2. fs[1].size \in Nat
    BY <1>1 DEF Item
  <1>3. Limit(fs[1]) \in Nat
    BY JobAssumption DEF Limit
  <1>4. fs[1].size \in 1..Limit(fs[1])
    BY <1>2, <1>3
  <1>5. Fits' = {1}
    BY <1>1, <1>4 DEF Fits
  <1>6. Wanted' = {files'[i].id : i \in Fits'}
    BY DEF Wanted
  <1> QED
    BY <1>5, <1>6

\* The files of a pin or of a board are there.
LEMMA PinterestDownloadedFlow ==
  ASSUME JobInv, FlowInv, task = "run", row = "none", PinterestDownloaded PROVE FlowInv'
  <1>1. /\ pc \in Before /\ kind = "pinterest" /\ UNCHANGED <<sent, faults>> /\ NoFault
        /\ kind \in Looping /\ kind # "reddit" /\ "pin" \in Begun
    BY DEF PinterestDownloaded, At, Pin, Before, NoFault, Looping, Begun
  <1>2. PICK wanted \in SUBSET {"image", "video"} : \E fs \in Downloads[wanted] \ {<<>>} :
          /\ files' = fs
          /\ \/ /\ Len(fs) > 1
                /\ loop' = [NoLoop EXCEPT !.items = fs] /\ Goto("items") /\ UNCHANGED call
             \/ Fail("pinterest.all_too_large")
             \/ Len(fs) = 1 /\ fs[1].size <= Limit(fs[1]) /\ SendFile(fs[1]) /\ Goto("pin")
    BY DEF PinterestDownloaded
  <1>3. PICK fs \in Downloads[wanted] :
          /\ fs # <<>> /\ files' = fs
          /\ \/ /\ Len(fs) > 1
                /\ loop' = [NoLoop EXCEPT !.items = fs] /\ Goto("items") /\ UNCHANGED call
             \/ Fail("pinterest.all_too_large")
             \/ Len(fs) = 1 /\ fs[1].size <= Limit(fs[1]) /\ SendFile(fs[1]) /\ Goto("pin")
    BY <1>2
  <1>4. fs \in Seq(Item) /\ \A i \in DOMAIN fs : fs[i].id = i
    BY <1>3, BoardItems
  <1>5. CASE loop' = [NoLoop EXCEPT !.items = fs] /\ Goto("items") /\ UNCHANGED call
    <2>1. loop'.items = fs /\ loop'.images = <<>> /\ loop'.handled = 0
      BY <1>5 DEF NoLoop
    <2> QED
      BY <1>1, <1>3, <1>4, <1>5, <2>1, LoopBegins
  <1>6. CASE Fail("pinterest.all_too_large")
    BY <1>1, <1>6, FailFlow DEF Fail
  <1>7. CASE Len(fs) = 1 /\ fs[1].size <= Limit(fs[1]) /\ SendFile(fs[1]) /\ Goto("pin")
    <2>1. PICK f : f = fs[1]
      OBVIOUS
    <2>2. f \in Item /\ f.id = 1 /\ SendFile(f)
      <3>1. 1 \in DOMAIN fs
        BY <1>4, <1>7
      <3> QED
        BY <1>4, <1>7, <2>1, <3>1
    <2>3. f.size # 0 => Wanted' = {f.id}
      BY <1>1, <1>3, <1>4, <1>7, <2>1, <2>2, PinWanted DEF Goto
    <2> QED
      BY <1>1, <1>7, <2>2, <2>3, SoloFlow
  <1> QED
    BY <1>3, <1>5, <1>6, <1>7

\* One turn of the loop of sendPinterestItems.
LEMMA PinterestItemFlow ==
  ASSUME JobInv, FlowInv, task = "run", row = "none", PinterestItem PROVE FlowInv'
  <1>1. /\ pc = "items" /\ kind = "pinterest" /\ loop.items # <<>>
        /\ UNCHANGED <<kind, task, attempt, row, faults, files, sent>>
    BY DEF PinterestItem, Returned, At, Pin
  <1>2. faults' \in Nat /\ faults' >= faults /\ IsLoop(loop) /\ Post /\ Ahead
    BY <1>1, AtItem DEF JobInv, Records
  <1>3. PICK f : f = files[Pos + 1] /\ f = NextItem /\ f \in Item /\ Pos + 1 \in DOMAIN files
    BY <1>1, <1>2, NextIsFile
  <1>4. Pos + 1 \in Fits <=> f.size \in 1..Limit(f)
    BY <1>1, <1>3 DEF Fits
  <1>5. f.size \in Nat /\ Limit(f) \in Nat
    BY <1>3, JobAssumption DEF Item, Limit
  <1>6. CASE /\ Missing(f) \/ f.size > Limit(f)
             /\ loop' = [loop EXCEPT !.items = Tail(@)] /\ UNCHANGED <<call, pc>>
    <2>1. Pos + 1 \notin Fits
      BY <1>4, <1>5, <1>6 DEF Missing
    <2>2. PICK x : x = Tail(loop.items)
      OBVIOUS
    <2>3. loop' = [loop EXCEPT !.items = x]
      BY <1>6, <2>2
    <2>4. loop'.items = x /\ loop'.images = loop.images /\ loop'.handled = loop.handled
      BY <1>2, <2>3, LoopFields
    <2> QED
      BY <1>1, <1>2, <1>6, <2>1, <2>2, <2>4, ItemBehind
  <1>7. CASE ~Missing(f) /\ f.size <= Limit(f) /\ SendFile(f) /\ pc' = "itemsent" /\ UNCHANGED loop
    <2>1. Pos + 1 \in Fits
      BY <1>4, <1>5, <1>7 DEF Missing
    <2> QED
      BY <1>1, <1>3, <1>7, <2>1, ItemAsked
  <1>8. CASE /\ ~Missing(f) /\ f.size <= Limit(f)
             /\ loop' = [loop EXCEPT !.items = Tail(@), !.images = Append(@, f)]
             /\ UNCHANGED <<call, pc>>
    <2>1. Pos + 1 \in Fits
      BY <1>4, <1>5, <1>8 DEF Missing
    <2>2. PICK x : x = Tail(loop.items)
      OBVIOUS
    <2>3. PICK y : y = Append(loop.images, f)
      OBVIOUS
    <2>4. loop' = [loop EXCEPT !.items = x, !.images = y]
      BY <1>8, <2>2, <2>3
    <2>5. loop'.items = x /\ loop'.images = y
      BY <1>2, <2>4, LoopFields
    <2> QED
      BY <1>1, <1>2, <1>3, <1>8, <2>1, <2>2, <2>3, <2>5, ItemBehind
  <1> QED
    BY <1>3, <1>6, <1>7, <1>8 DEF PinterestItem

\* The steps of runPinterest.
LEMMA PinterestFlow == ASSUME JobInv, FlowInv, PinterestNext PROVE FlowInv'
  <1> task = "run" /\ row = "none" /\ IsLoop(loop)
    BY DEF JobInv, Records, PinterestNext, PinterestStart, Begin, PinterestFailed, PinterestDownloaded, PinSent,
           PinterestItem, PinterestItemSent, PinterestAlbum, PinterestDone, Returned, At
  <1>1. CASE PinterestStart
    BY <1>1, MkdirFlow DEF PinterestStart, Begin, At, Before
  <1>2. CASE PinterestFailed
    <2>1. UNCHANGED <<sent, faults>> /\ NoFault /\ \E notice : Fail(notice)
      BY <1>2 DEF PinterestFailed, mediaVars, NoFault
    <2> QED
      BY <2>1, FailFlow DEF Fail
  <1>3. CASE PinSent
    <2>1. pc \in OneShot /\ UNCHANGED <<files, sent, faults>>
      BY <1>3 DEF PinSent, Returned, At, mediaVars, OneShot
    <2> QED
      BY <1>3, <2>1, AnswerFlow DEF PinSent, Complete, Fail
  <1>4. CASE PinterestItemSent
    <2>1. /\ pc = "itemsent" /\ kind = "pinterest" /\ kind # "reddit" /\ call.result # "pending" /\ pc' = "items"
          /\ UNCHANGED <<kind, task, attempt, row, files, sent, call, faults>>
      BY <1>4 DEF PinterestItemSent, Returned, At, Pin, Goto
    <2>2. PICK x : x = Tail(loop.items)
      OBVIOUS
    <2>3. PICK b : loop' = [loop EXCEPT !.items = x, !.any = b]
      BY <1>4, <2>2 DEF PinterestItemSent
    <2>4. loop'.items = x /\ loop'.images = loop.images
      BY <2>3, LoopFields
    <2> QED
      BY <2>1, <2>2, <2>4, ItemDone
  <1>5. CASE PinterestAlbum
    <2>1. /\ pc = "items" /\ kind = "pinterest" /\ loop.items = <<>> /\ pc' = "done"
          /\ UNCHANGED <<kind, task, attempt, row, files, sent, loop, faults>>
          /\ SendPhotoAlbum(loop.images)
      BY <1>5 DEF PinterestAlbum, Returned, At, Pin, Goto
    <2>2. Wanted = Fits \cap 1..Pos
      BY <2>1, AtItem, BoardWanted
    <2> QED
      BY <2>1, <2>2, LoopEnds
  <1>6. CASE PinterestDone
    <2>1. pc \in OneShot /\ Sure /\ call.result # "pending" /\ UNCHANGED <<files, sent, faults>>
      BY <1>6 DEF PinterestDone, Returned, At, mediaVars, OneShot, Sure
    <2> QED
      BY <1>6, <2>1, SureFlow DEF PinterestDone, Complete, Fail
  <1> QED
    BY <1>1, <1>2, <1>3, <1>4, <1>5, <1>6, PinterestDownloadedFlow, PinterestItemFlow DEF PinterestNext

-----------------------------------------------------------------------------
(* Reddit.                                                                   *)

\* The media of a thread are a post.
LEMMA ThreadItems ==
  ASSUME NEW fs \in RedditMedia
  PROVE  fs \in Seq(Item) /\ \A i \in DOMAIN fs : fs[i].id = i /\ fs[i].size # 0
  <1>1. CASE fs \in Posts({"image", "gif"})
    <2>1. {"image", "gif"} \subseteq Types
      BY DEF Types
    <2> QED
      BY <1>1, <2>1, PostItems DEF InPost
  <1>2. CASE fs \in {<<[id |-> 1, type |-> "video", size |-> s]>> : s \in Sizes}
    <2>1. PICK s \in Sizes : fs = <<[id |-> 1, type |-> "video", size |-> s]>>
      BY <1>2
    <2>2. PICK f : f = [id |-> 1, type |-> "video", size |-> s]
      OBVIOUS
    <2>3. f \in Item /\ f.id = 1 /\ f.size # 0
      BY <2>2, JobAssumption DEF Item, Types
    <2>4. fs = <<f>>
      BY <2>1, <2>2
    <2> QED
      BY <2>3, <2>4
  <1> QED
    BY <1>1, <1>2 DEF RedditMedia

\* One turn of the loop of sendRedditMedia.
LEMMA RedditItemFlow ==
  ASSUME JobInv, FlowInv, task = "run", row = "none", RedditItem PROVE FlowInv'
  <1>1. /\ pc = "items" /\ kind = "reddit" /\ loop.items # <<>> /\ loop.handled < MaxItems
        /\ UNCHANGED <<kind, task, attempt, row, files, sent>>
    BY DEF RedditItem, Returned, At, Reddit, ItemsLeft
  <1>2. faults \in Nat /\ IsLoop(loop) /\ Post /\ Ahead
    BY <1>1, AtItem DEF JobInv, Records
  <1>3. PICK f : f = files[Pos + 1] /\ f = NextItem /\ f \in Item /\ Pos + 1 \in DOMAIN files
    BY <1>1, <1>2, NextIsFile
  <1>4. Pos + 1 \in Fits <=> f.size <= RedditLimit(f)
    BY <1>1, <1>3 DEF Fits
  <1>5. f.size \in Nat /\ RedditLimit(f) \in Nat
    <2>1. f.size \in Nat
      BY <1>3 DEF Item
    <2> QED
      BY <2>1, JobAssumption DEF RedditLimit
  <1>6. CASE /\ Fault \/ (NoFault /\ f.size > RedditLimit(f))
             /\ loop' = [loop EXCEPT !.items = Tail(@)] /\ UNCHANGED <<pc, call>>
    <2>1. faults' \in Nat /\ faults' >= faults
      BY <1>2, <1>6, Spending
    <2>2. Smooth' => Pos + 1 \notin Fits
      <3>1. Fault => faults' # 0
        BY <1>2 DEF Fault
      <3> QED
        BY <3>1, <1>4, <1>5, <1>6 DEF Smooth
    <2>3. PICK x : x = Tail(loop.items)
      OBVIOUS
    <2>4. loop' = [loop EXCEPT !.items = x]
      BY <1>6, <2>3
    <2>5. loop'.items = x /\ loop'.images = loop.images /\ loop'.handled = loop.handled
      BY <1>2, <2>4, LoopFields
    <2> QED
      BY <1>1, <1>6, <2>1, <2>2, <2>3, <2>5, ItemBehind
  <1>7. CASE /\ NoFault /\ f.size <= RedditLimit(f)
             /\ SendFile(f) /\ pc' = "itemsent" /\ UNCHANGED loop
    BY <1>1, <1>3, <1>4, <1>7, ItemAsked DEF NoFault
  <1>8. CASE /\ NoFault /\ f.size <= RedditLimit(f)
             /\ loop' = [loop EXCEPT !.items = Tail(@), !.images = Append(@, f), !.handled = @ + 1]
             /\ UNCHANGED <<pc, call>>
    <2>1. faults' \in Nat /\ faults' >= faults
      BY <1>2, <1>8, Spending
    <2>2. PICK x : x = Tail(loop.items)
      OBVIOUS
    <2>3. PICK y : y = Append(loop.images, f)
      OBVIOUS
    <2>4. PICK z : z = loop.handled + 1
      OBVIOUS
    <2>5. loop' = [loop EXCEPT !.items = x, !.images = y, !.handled = z]
      BY <1>8, <2>2, <2>3, <2>4
    <2>6. loop'.items = x /\ loop'.images = y /\ loop'.handled = z
      BY <1>2, <2>5, LoopFields
    <2> QED
      BY <1>1, <1>3, <1>4, <1>8, <2>1, <2>2, <2>3, <2>4, <2>6, ItemBehind
  <1> QED
    BY <1>3, <1>6, <1>7, <1>8 DEF RedditItem

\* The album is there; the article comes next.
LEMMA RedditAlbumSentFlow ==
  ASSUME FlowInv, task = "run", row = "none", RedditAlbumSent PROVE FlowInv'
  <1>1. /\ pc = "album" /\ kind = "reddit" /\ call.result # "pending" /\ pc' = "article"
        /\ UNCHANGED <<kind, task, attempt, row, files, sent, call, faults>>
    BY DEF RedditAlbumSent, Returned, At, Reddit, Goto
  <1>2. OnTheWay /\ faults \in Nat /\ call.result \in {"ok", "err"}
    BY <1>1 DEF FlowInv, Before, Chat, OnTheWay, CallOK
  <1>3. ~Waiting' /\ call'.result \in {"ok", "err"}
    BY <1>1, <1>2 DEF Waiting
  <1>4. (Clean' => Clean) /\ (Smooth' => Smooth) /\ UNCHANGED InChat /\ UNCHANGED Wanted
    BY <1>1, ChatKept, FilesKept DEF Clean, Smooth
  <1>5. CallOK' /\ CarouselOK' /\ LoopOK'
    BY <1>1, <1>3 DEF CallOK, CarouselOK, LoopOK, Collecting
  <1>6. Clean' => Apart' /\ LoopApart'
    BY <1>1, <1>3 DEF Apart, LoopApart
  <1>7. Smooth' => WholePost' /\ WholeLoop' /\ WholeCall'
    <2>1. Smooth => InChat = Wanted
      BY <1>1, <1>2 DEF OnTheWay, WholePost, WholeCall, Sure, OneShot
    <2>2. Smooth' => WholePost'
      BY <2>1, <1>1, <1>4 DEF WholePost, OneShot
    <2> QED
      BY <2>2, <1>1 DEF WholeLoop, WholeCall, Sure
  <1>8. OnTheWay' /\ pc' \notin Before
    BY <1>1, <1>5, <1>6, <1>7 DEF OnTheWay, Before
  <1> QED
    BY <1>1, <1>2, <1>8, GoesFlow

\* The article is published after the media.
LEMMA ArticleFlow ==
  ASSUME FlowInv, task = "run", row = "none", deliverRedditArticle PROVE FlowInv'
  <1>1. /\ pc = "article" /\ UNCHANGED <<files, sent>> /\ (NoFault \/ Fault)
        /\ \E e : Finish(e)
    BY DEF deliverRedditArticle, At, mediaVars
  <1>2. task' = "done" /\ UNCHANGED <<kind, attempt>>
    BY <1>1 DEF Finish, Fail, Return
  <1>3. faults \in Nat /\ OnTheWay
    BY <1>1 DEF FlowInv, Chat, Before
  <1>4. faults' \in Nat /\ faults' >= faults
    BY <1>1, <1>3, Spending
  <1>5. Smooth' => Smooth
    BY <1>1, <1>3, <1>4 DEF Smooth
  <1>6. Smooth' => InChat = Wanted
    BY <1>1, <1>3, <1>5 DEF OnTheWay, WholePost
  <1> QED
    BY <1>1, <1>2, <1>4, <1>6, EndsFlow

\* The steps of runReddit.
LEMMA RedditFlow == ASSUME JobInv, FlowInv, RedditNext PROVE FlowInv'
  <1> task = "run" /\ row = "none" /\ IsLoop(loop)
    BY DEF JobInv, Records, RedditNext, RedditStart, Begin, RedditFailed, RedditThread, RedditItem,
           RedditItemSent, RedditAlbum, RedditAlbumSent, deliverRedditArticle, Returned, At
  <1>1. CASE RedditStart
    BY <1>1, MkdirFlow DEF RedditStart, Begin, At, Before
  <1>2. CASE RedditFailed
    <2>1. UNCHANGED <<sent, faults>> /\ NoFault /\ \E notice : Fail(notice)
      BY <1>2 DEF RedditFailed, mediaVars, NoFault
    <2> QED
      BY <2>1, FailFlow DEF Fail
  <1>3. CASE RedditThread
    <2>1. /\ pc \in Before /\ kind = "reddit" /\ kind \in Looping /\ Goto("items")
          /\ UNCHANGED <<sent, call, faults>>
      BY <1>3 DEF RedditThread, At, Reddit, Before, Looping
    <2>2. PICK fs \in RedditMedia : files' = fs /\ loop' = [NoLoop EXCEPT !.items = fs]
      BY <1>3 DEF RedditThread
    <2>3. fs \in Seq(Item) /\ \A i \in DOMAIN fs : fs[i].id = i /\ fs[i].size # 0
      BY <2>2, ThreadItems
    <2>4. loop'.items = fs /\ loop'.images = <<>> /\ loop'.handled = 0
      BY <2>2 DEF NoLoop
    <2> QED
      BY <2>1, <2>2, <2>3, <2>4, LoopBegins
  <1>4. CASE RedditItemSent
    <2>1. /\ pc = "itemsent" /\ kind = "reddit" /\ call.result # "pending" /\ pc' = "items"
          /\ UNCHANGED <<kind, task, attempt, row, files, sent, call, faults>>
      BY <1>4 DEF RedditItemSent, Returned, At, Reddit, Goto
    <2>2. PICK x : x = Tail(loop.items)
      OBVIOUS
    <2>3. PICK z : z = IF call.result = "ok" THEN loop.handled + 1 ELSE loop.handled
      OBVIOUS
    <2>4. PICK b : loop' = [loop EXCEPT !.items = x, !.any = b, !.handled = z]
      BY <1>4, <2>2, <2>3 DEF RedditItemSent
    <2>5. loop'.items = x /\ loop'.images = loop.images /\ loop'.handled = z
      BY <2>4, LoopFields
    <2> QED
      BY <2>1, <2>2, <2>3, <2>5, ItemDone
  <1>5. CASE RedditAlbum
    <2>1. /\ pc = "items" /\ kind = "reddit" /\ pc' = "album" /\ ~ItemsLeft
          /\ UNCHANGED <<kind, task, attempt, row, files, sent, loop, faults>>
          /\ SendPhotoAlbum(loop.images)
      BY <1>5 DEF RedditAlbum, Returned, At, Reddit, Goto
    <2>2. /\ Post /\ Ahead /\ Pos \in Int
          /\ Smooth => loop.handled = Cardinality(Fits \cap 1..Pos) /\ loop.handled <= MaxItems
      BY <2>1, AtItem DEF Post, Ahead, Pos
    <2>3. Smooth => Wanted = Fits \cap 1..Pos
      <3>1. SUFFICES ASSUME Smooth PROVE Wanted = Fits \cap 1..Pos
        OBVIOUS
      <3>2. PICK c : c = Cardinality(Fits \cap 1..Pos)
        OBVIOUS
      <3>3. c \in Nat /\ c <= MaxItems /\ (loop.items = <<>> \/ ~(c < MaxItems))
        <4>1. IsFiniteSet(Fits \cap 1..Pos)
          <5>1. IsFiniteSet(1..Pos)
            BY <2>2, FS_Interval
          <5> QED
            BY <5>1, FS_Subset
        <4>2. c \in Nat
          BY <3>2, <4>1, FS_CardinalityType
        <4> QED
          BY <2>1, <2>2, <3>1, <3>2, <4>2 DEF ItemsLeft
      <3>4. c <= MaxItems /\ (loop.items = <<>> \/ c = MaxItems)
        BY <3>3, JobAssumption
      <3> QED
        BY <2>1, <2>2, <3>2, <3>4, ThreadWanted
    <2> QED
      BY <2>1, <2>3, LoopEnds
  <1> QED
    BY <1>1, <1>2, <1>3, <1>4, <1>5, RedditItemFlow, RedditAlbumSentFlow, ArticleFlow DEF RedditNext

-----------------------------------------------------------------------------
(* The other steps.                                                          *)

\* The translation button: nothing is uploaded.
LEMMA TranslateFlow == ASSUME JobInv, FlowInv, TranslateNext PROVE FlowInv'
  <1>1. /\ task = "run" /\ row = "none" /\ pc \in Before /\ "pieces" \in Before
        /\ UNCHANGED <<files, sent, call, loop>>
    BY DEF JobInv, TranslateNext, TranslateStart, translateBlock, handleTelegraphTranslate, At,
           Before, translateFrame, mediaVars
  <1>2. CASE TranslateStart
    <2>1. (NoFault /\ Goto("pieces")) \/ (Fault /\ Return("none", "errors.generic"))
      BY <1>2 DEF TranslateStart
    <2> QED
      BY <1>1, <2>1, GotoFlow, FailFlow
  <1>3. CASE translateBlock
    <2>1. UNCHANGED <<kind, task, attempt, pc, row, faults>>
      BY <1>3 DEF translateBlock, jobVars
    <2>2. faults' \in Nat /\ faults' >= faults
      BY <2>1 DEF FlowInv, Chat
    <2> QED
      BY <1>1, <2>1, <2>2, QuietFlow
  <1>4. CASE handleTelegraphTranslate
    <2>1. PICK n : Return("none", n) /\ (NoFault \/ Fault)
      BY <1>4 DEF handleTelegraphTranslate
    <2> QED
      BY <1>1, <2>1, FailFlow
  <1> QED
    BY <1>2, <1>3, <1>4 DEF TranslateNext

\* The process dies.
LEMMA CrashFlow == ASSUME JobInv, FlowInv, Crash PROVE FlowInv'
  <1>1. /\ task = "run" /\ row = "none" /\ UNCHANGED <<kind, attempt, row, sent>>
        /\ task' \in {"retry", "archived"} /\ faults \in Nat /\ faults' = faults + 1
    BY DEF JobInv, FlowInv, Chat, Crash, Fault, ReturnError, mediaVars
  <1>2. faults' \in Nat /\ faults' >= faults /\ faults' # 0 /\ row' # "completed" /\ task' # "run"
    BY <1>1
  <1> QED
    BY <1>1, <1>2, EndsFlow

\* The second attempt begins; without a failed call nothing is in the chat yet.
LEMMA AgainFlow == ASSUME JobInv, FlowInv, Again PROVE FlowInv'
  <1>1. /\ task = "retry" /\ task' = "run" /\ attempt = 1 /\ attempt' = 2 /\ pc' = "start"
        /\ files' = <<>> /\ call' = Idle /\ row = "none" /\ UNCHANGED <<kind, row, faults, sent>>
    BY DEF JobInv, Again
  <1>2. Chat
    BY DEF FlowInv
  <1>3. Clean' => sent' = <<>>
    BY <1>1, <1>2 DEF Chat, Clean
  <1>4. InOrder => InOrder'
    BY <1>1, ChatKept
  <1>5. Clean
    BY <1>1 DEF Clean
  <1>6. Chat'
    BY <1>1, <1>2, <1>4, <1>5 DEF Chat
  <1>7. Idle' = Idle
    BY DEF Idle
  <1>8. Blank'
    BY <1>1, <1>3, <1>7 DEF Blank
  <1> QED
    BY <1>1, <1>6, <1>8 DEF FlowInv, Before

\* Nothing happens.
LEMMA StutterFlow == ASSUME FlowInv, UNCHANGED vars PROVE FlowInv'
  <1>1. UNCHANGED <<kind, task, attempt, pc, row, faults, files, sent, call, loop>>
    BY DEF vars, jobVars, mediaVars
  <1>2. UNCHANGED <<Wanted, Fits, Sounds, Pos, InChat, Waiting, Queue, Clean, Smooth, Sure, Collecting>>
    BY <1>1, FilesKept, LoopKeptAhead, ChatKept DEF Waiting, Queue, Clean, Smooth, Sure, Collecting
  <1>3. UNCHANGED <<Ids(loop.images), Ids(Queue)>>
    BY <1>1, <1>2 DEF Ids
  <1>4. CallOK => CallOK'
    BY <1>1, <1>2 DEF CallOK, Shape, Rising
  <1>5. LoopOK => LoopOK'
    BY <1>1, <1>2, FilesKept, LoopKeptAhead DEF LoopOK
  <1>6. CarouselOK => CarouselOK'
    BY <1>1, <1>2, <1>3 DEF CarouselOK
  <1>7. (Apart => Apart') /\ (LoopApart => LoopApart')
    BY <1>1, <1>2, <1>3 DEF Apart, LoopApart
  <1>8. UNCHANGED <<There(Queue), Small(Queue)>>
    BY <1>2 DEF There, Small, TooBig
  <1>9. (WholePost => WholePost') /\ (WholeLoop => WholeLoop') /\ (WholeCall => WholeCall')
    BY <1>1, <1>2, <1>3, <1>8 DEF WholePost, WholeLoop, WholeCall
  <1>10. OnTheWay => OnTheWay'
    BY <1>2, <1>4, <1>5, <1>6, <1>7, <1>9 DEF OnTheWay
  <1>11. Chat => Chat'
    BY <1>1, <1>2, ChatKept DEF Chat
  <1>12. Blank => Blank'
    BY <1>1, <1>2 DEF Blank, Idle
  <1> QED
    BY <1>1, <1>10, <1>11, <1>12 DEF FlowInv

\* A task begins with nothing in the chat.
LEMMA InitFlow == Init => FlowInv
  <1> SUFFICES ASSUME Init PROVE FlowInv
    OBVIOUS
  <1>1. /\ task = "run" /\ pc \in Before /\ row = "none" /\ faults = 0 /\ files = <<>> /\ sent = <<>>
        /\ call = Idle
    BY DEF Init, JobInit, Before
  <1>2. sent \in Seq(Seq(Nat)) /\ DOMAIN sent = {}
    BY <1>1
  <1>3. Chat
    BY <1>1, <1>2 DEF Chat, InOrder
  <1> QED
    BY <1>1, <1>3 DEF FlowInv, Blank

\* The invariant of the items, over all steps.
LEMMA NextFlow == ASSUME JobInv, FlowInv, [Next]_vars PROVE FlowInv'
  <1>1. CASE SenderNext
    <2>1. task = "run"
      BY <1>1 DEF SenderNext, sendFile, sendAudio, sendMediaGroup, sendPhoto, Sending
    <2>2. IsCall(call) /\ row = "none"
      BY <2>1 DEF JobInv, Records
    <2> QED
      BY <1>1, <2>2, SenderFlow
  <1>2. CASE YouTubeNext \/ LinkNext \/ PinterestNext \/ TikTokNext \/ InstagramNext
    BY <1>2, YouTubeFlow, LinkFlow, PinterestFlow, TikTokFlow, InstagramFlow
  <1>3. CASE RedditNext \/ TranslateNext
    BY <1>3, RedditFlow, TranslateFlow
  <1>4. CASE Again \/ Crash
    BY <1>4, AgainFlow, CrashFlow
  <1>5. CASE UNCHANGED vars
    BY <1>5, StutterFlow
  <1> QED
    BY <1>1, <1>2, <1>3, <1>4, <1>5 DEF Next, Body

\* What the invariant says of the chat.
LEMMA FlowShows == ASSUME FlowInv PROVE ShownInOrder /\ CompletedDropsNothing
  <1>1. Chat
    BY DEF FlowInv
  <1>2. \A i \in DOMAIN sent : \A a \in DOMAIN sent[i] : a = 1
    <2>1. \A i \in DOMAIN sent : DOMAIN sent[i] = 1..1
      BY <1>1 DEF Chat
    <2> QED
      BY <2>1
  <1>3. ShownInOrder
    <2>1. SUFFICES ASSUME attempt = 1, NEW i \in DOMAIN sent, NEW j \in DOMAIN sent,
                          NEW a \in DOMAIN sent[i], NEW b \in DOMAIN sent[j],
                          i < j \/ (i = j /\ a < b)
                   PROVE  /\ sent[i][a] # sent[j][b]
                          /\ kind \notin {"pinterest", "reddit"} => sent[i][a] < sent[j][b]
      BY DEF ShownInOrder
    <2>2. a = 1 /\ b = 1 /\ i < j
      BY <1>2, <2>1
    <2>3. InOrder
      BY <1>1, <2>1 DEF Chat, Clean
    <2> QED
      BY <2>2, <2>3 DEF InOrder, Looping
  <1>4. CompletedDropsNothing
    BY <1>1 DEF Chat, Smooth, CompletedDropsNothing
  <1> QED
    BY <1>3, <1>4

\* The items of a post arrive in the post's order and none twice, as long as the
\* task runs for the first time: however sendMediaGroup chunks an album, falls
\* back to single photos and sends again without a caption, and whatever the loops
\* of sendPinterestItems and sendRedditMedia skip (ShownInOrder).
THEOREM ItemsStayInOrder == Spec => []ShownInOrder
  <1>1. Init => FlowInv
    BY InitFlow
  <1>2. JobInv /\ FlowInv /\ [Next]_vars => FlowInv'
    BY NextFlow
  <1>3. FlowInv => ShownInOrder
    BY FlowShows
  <1> QED
    BY <1>1, <1>2, <1>3, BodiesKeepInvariant, PTL DEF Spec

\* A download reported as completed has put every item of the post that the body
\* means to deliver into the chat, and nothing else, unless a call failed or an
\* item is above Telegram's limit (CompletedDropsNothing).
THEOREM NothingIsDropped == Spec => []CompletedDropsNothing
  <1>1. Init => FlowInv
    BY InitFlow
  <1>2. JobInv /\ FlowInv /\ [Next]_vars => FlowInv'
    BY NextFlow
  <1>3. FlowInv => CompletedDropsNothing
    BY FlowShows
  <1> QED
    BY <1>1, <1>2, <1>3, BodiesKeepInvariant, PTL DEF Spec
=============================================================================
