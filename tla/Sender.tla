------------------------------- MODULE Sender -------------------------------
(***************************************************************************)
(* internal/sender: the calls that put media into the chat.  The body      *)
(* starts a call (SendFile, SendAudio, SendPhotoAlbum) and goes on when    *)
(* call.result is there.  An upload can be refused, and it can go through  *)
(* with its answer lost on the way, which the code cannot tell apart.      *)
(***************************************************************************)
EXTENDS Job

\* openInputFile: a path that is not there, or not any more.
Missing(f) == f.size = 0

\* api.telegram.org refuses larger uploads whatever the method.
TooBig(f) == UploadLimit > 0 /\ f.size > UploadLimit

Sending(op) == task = "run" /\ call.result = "pending" /\ call.op = op

Returned(k, p) == At(k, p) /\ call.result # "pending"

Pending(op, todo, caption) ==
    [op |-> op, todo |-> todo, single |-> <<>>, caption |-> caption, result |-> "pending"]

SendFile(f) == call' = Pending("file", <<f>>, TRUE)
SendAudio(f) == call' = Pending("audio", <<f>>, FALSE)

\* No photo is no error, one photo needs no album.
SendPhotoAlbum(fs) ==
    call' = IF fs = <<>> THEN Idle
            ELSE Pending(IF Len(fs) = 1 THEN "file" ELSE "album", fs, TRUE)

Error == [Idle EXCEPT !.result = "err"]

\* One request to Telegram: it works, or it fails with or without effect.
Upload(msg, next) ==
    \/ NoFault /\ sent' = Append(sent, msg) /\ call' = next
    \/ Fault /\ sent' \in {sent, Append(sent, msg)} /\ call' = Error

(***************************************************************************)
(* resendWithoutCaption: a caption that is too long is refused; the same   *)
(* upload is repeated once without it.                                     *)
(***************************************************************************)
SendOne(f, next) ==
    \/ (Missing(f) \/ TooBig(f)) /\ call' = Error /\ UNCHANGED <<sent, faults>>
    \/ ~Missing(f) /\ ~TooBig(f) /\ call.caption
       /\ call' = [call EXCEPT !.caption = FALSE] /\ UNCHANGED <<sent, faults>>
    \/ ~Missing(f) /\ ~TooBig(f) /\ Upload(<<f.id>>, next)

senderFrame == <<kind, task, attempt, pc, status, row, files, loop, videoVars>>

sendFile ==
    /\ Sending("file")
    /\ SendOne(Head(call.todo), Idle)
    /\ UNCHANGED senderFrame

sendAudio ==
    /\ Sending("audio")
    /\ SendOne(Head(call.todo), Idle)
    /\ UNCHANGED senderFrame

(***************************************************************************)
(* The next ten photos: all are opened and their handles closed again      *)
(* before SendMediaGroup reads them, so the group fails whenever every     *)
(* photo could be opened, and the photos of the chunk go out one by one.   *)
(***************************************************************************)
NextChunk == SubSeq(call.todo, 1, IF Len(call.todo) < AlbumChunk THEN Len(call.todo) ELSE AlbumChunk)

\* Mutant of sendMediaGroup: the next chunk starts at the last photo of this one.
sendMediaGroupOverlaps ==
    /\ Sending("album") /\ call.single = <<>>
    /\ call' = IF \E i \in DOMAIN NextChunk : Missing(NextChunk[i]) THEN Error
               ELSE [call EXCEPT !.single = NextChunk,
                                 !.todo = SubSeq(@, Len(NextChunk), Len(@))]
    /\ UNCHANGED <<sent, faults, senderFrame>>

sendMediaGroup ==
    /\ Sending("album") /\ call.single = <<>>
    /\ call' = IF \E i \in DOMAIN NextChunk : Missing(NextChunk[i]) THEN Error
               ELSE [call EXCEPT !.single = NextChunk,
                                 !.todo = SubSeq(@, Len(NextChunk) + 1, Len(@))]
    /\ UNCHANGED <<sent, faults, senderFrame>>

sendPhoto ==
    /\ Sending("album") /\ call.single # <<>>
    /\ SendOne(Head(call.single),
               IF Len(call.single) = 1 /\ call.todo = <<>> THEN Idle
               ELSE [call EXCEPT !.single = Tail(@), !.caption = FALSE])
    /\ UNCHANGED senderFrame

SenderNext == sendFile \/ sendAudio \/ sendMediaGroup \/ sendPhoto

\* The items in the chat.
InChat == UNION {{sent[i][a] : a \in DOMAIN sent[i]} : i \in DOMAIN sent}
=============================================================================
