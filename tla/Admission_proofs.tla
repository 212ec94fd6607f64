-------------------------- MODULE Admission_proofs --------------------------
(***************************************************************************)
(* The inductive invariant behind DedupOnce, RateBound, PrivateIsAnswered  *)
(* and RefusalsHold, for all inboxes, limits, windows and settings.        *)
(* Services_proofs makes them theorems of the whole specification.         *)
(*                                                                         *)
(* A step at the door is a step of one message (Moves): its handler goes   *)
(* on, marks a link, counts its user's or chat's messages, adds itself to  *)
(* them, or hands a link on.  Each part of the invariant looks at the kind *)
(* of step it depends on.                                                  *)
(***************************************************************************)
EXTENDS Admission, FiniteSetTheorems, TLAPS

Fields == {"stage", "link", "counting", "under", "now", "tried", "passed", "admitted", "at",
           "before", "served", "replies", "failed"}

(* A handler counts at the two rate limits only, and has been admitted by   *)
(* the first when it is at the second.                                      *)
DoorOK(d) ==
    /\ DOMAIN d = Fields
    /\ d.stage \in 0..5 \cup {Over}
    /\ d.counting => d.stage \in {3, 4}
    /\ d.now \in Nat /\ d.at \in Nat
    /\ (d.counting /\ d.stage = 3) => d.now = d.at
    /\ d.admitted => d.stage >= 4
    /\ d.stage = 4 => d.admitted
    /\ d.stage = 0 => d.served = {}

DoorInv ==
    /\ DOMAIN door = Msgs /\ clock \in Nat
    /\ \A m \in Msgs : DoorOK(door[m])

(* The mark of a link is as young as the last message that tried it.        *)
TriedInv ==
    /\ \A k \in DOMAIN marks : marks[k] \in Nat /\ marks[k] <= clock
    /\ \A m \in Msgs : \A t \in door[m].tried :
          /\ t[2] \in Nat /\ <<Msg(m).bot, t[1]>> \in DOMAIN marks
          /\ t[2] <= marks[<<Msg(m).bot, t[1]>>]

TriedApart ==
    \A m, n \in Msgs : m # n /\ Msg(m).bot = Msg(n).bot =>
        \A t \in door[m].tried, u \in door[n].tried :
            t[1] = u[1] => t[2] - u[2] >= DedupWindow \/ u[2] - t[2] >= DedupWindow

(* The sorted set of a user has one hit per message, with the time at which *)
(* that message was counted; a handler past its check is counted no more.   *)
HitsInv ==
    \A k \in DOMAIN hits :
        /\ IsFiniteSet(hits[k])
        /\ k[2] = "user" => \A h \in hits[k] :
              h[2] \in Msgs /\ door[h[2]].stage >= 4 /\ h[1] = door[h[2]].at

InWindow(m) == {n \in door[m].before : door[m].at - door[n].at < RateWindow}

RateInv ==
    \A m \in Msgs :
        /\ \A n \in door[m].before : n \in Msgs /\ door[n].stage >= 4
        /\ (door[m].counting /\ door[m].stage = 3 /\ door[m].under) \/ door[m].admitted =>
              IsFiniteSet(InWindow(m)) /\ Cardinality(InWindow(m)) < UserLimit

(* A message that got past the ban check found its user not banned, unless  *)
(* Redis failed or it is the admin's; a link that was handed on found its   *)
(* platform's switch on.                                                    *)
MayBeIn(m) == door[m].failed \/ Msg(m).user = Admin \/ "in" \in chances[m]

ChanceInv ==
    \A m \in Msgs :
        /\ door[m].stage \in 1..5 \/ door[m].served # {} => MayBeIn(m)
        /\ \A l \in door[m].served :
              door[m].failed \/ (Switched(LinkPlatform[l]) => SwitchOf[LinkPlatform[l]] \in chances[m])

(* The answers in private chats.  A message that is refused in silence was   *)
(* counted after a crowd of others; the chat's sorted set holds each message *)
(* once, with the time it was counted there.                                 *)
InChatSet(n, k) ==
    /\ door[n].stage >= 5 /\ door[n].admitted
    /\ k = <<Msg(n).bot, "chat", ChatId(n)>>

ChatHitsInv ==
    \A k \in DOMAIN hits : k[2] = "chat" =>
        \A h \in hits[k] : \E n \in Msgs : h = <<door[n].now, n>> /\ InChatSet(n, k)

Crowded(m) == door[m].admitted /\ Cardinality(Crowd(m)) >= ChatLimit

Excused(m) == Crowded(m) \/ Overlooked(m)

\* Once overlooked, a message stays so.
StillOverlooked == \A n \in Msgs : Overlooked(n) => Overlooked(n)'

Asks(m) == Private(m) /\ Worded(m) /\ Links(m) # <<>>

Answered(m, d, excused) ==
    /\ d.stage \in 0..4 => d.link = 1 /\ d.replies = 0
    /\ d.stage = 5 => d.link \in 1..(Len(Links(m)) + 1) /\ d.replies = d.link - 1
    /\ d.stage = 4 /\ d.counting /\ ~d.under => excused
    /\ d.stage = Over => \/ d.replies = IF d.link > 1 THEN Len(Links(m)) ELSE 1
                         \/ d.replies = 0 /\ excused

AnsweredInv ==
    /\ scenario \in Scenarios
    /\ \A m \in Msgs : /\ door[m].now <= clock
                       /\ Asks(m) => Answered(m, door[m], Excused(m))

AdmissionInv ==
    /\ DoorInv /\ TriedInv /\ TriedApart /\ HitsInv /\ RateInv /\ ChanceInv
    /\ ChatHitsInv /\ AnsweredInv

-----------------------------------------------------------------------------
(* The steps of a message m whose handler becomes r.                         *)
Becomes(m, r) ==
    /\ Become(m, r) /\ DoorOK(r) /\ clock' = clock
    /\ r.stage >= door[m].stage /\ r.stage # 0
    /\ door[m].failed => r.failed

Kept(m, r) == r.before = door[m].before /\ r.at = door[m].at

GoesOn(m, r) ==
    /\ Kept(m, r) /\ r.tried = door[m].tried /\ r.served = door[m].served
    /\ ~r.counting /\ r.admitted = door[m].admitted
    /\ door[m].stage = 0 /\ r.stage # Over => r.failed \/ isAdmin(Msg(m).user) \/ Msg(m).user \notin banned
    /\ UNCHANGED <<marks, hits>>

Marks(m, r) ==
    /\ Kept(m, r) /\ r.served = door[m].served
    /\ door[m].stage = 1 /\ r.stage = 1 /\ ~r.counting /\ r.admitted = door[m].admitted
    /\ \E l : AllowURLDedup(Msg(m).bot, l) /\ r.tried = door[m].tried \cup {<<l, clock>>}
    /\ UNCHANGED hits

Counts(m, r) ==
    /\ r.tried = door[m].tried /\ r.served = door[m].served
    /\ door[m].stage \in {3, 4} /\ r.stage = door[m].stage /\ r.admitted = door[m].admitted
    /\ hits' = PutKey(hits, RateKey(m), Recent(RateKey(m)))
    /\ r.stage = 4 => Kept(m, r)
    /\ r.stage = 3 => /\ r.at = clock /\ r.before = {h[2] : h \in Hits(RateKey(m))}
                      /\ r.under <=> Cardinality(Recent(RateKey(m))) < UserLimit
    /\ UNCHANGED marks

Adds(m, r) ==
    /\ Kept(m, r) /\ r.tried = door[m].tried /\ r.served = door[m].served
    /\ door[m].counting /\ r.stage >= 4 /\ ~r.counting
    /\ r.admitted => door[m].admitted \/ door[m].under
    /\ hits' = PutKey(hits, RateKey(m), Hits(RateKey(m)) \cup {<<door[m].now, m>>})
    /\ UNCHANGED marks

HandsOn(m, r) ==
    /\ Kept(m, r) /\ r.tried = door[m].tried /\ r.admitted = door[m].admitted
    /\ door[m].stage = 5 /\ r.stage = 5 /\ ~r.counting
    /\ \A l \in r.served \ door[m].served :
          r.failed \/ (Switched(LinkPlatform[l]) =>
                          valueIn(stored, SwitchOf[LinkPlatform[l]], FALSE) = Flag(TRUE))
    /\ UNCHANGED <<marks, hits>>

Moves(m, r) ==
    Becomes(m, r) /\ (GoesOn(m, r) \/ Marks(m, r) \/ Counts(m, r) \/ Adds(m, r) \/ HandsOn(m, r))

-----------------------------------------------------------------------------
LEMMA FreshFields == DOMAIN Fresh = Fields
  BY DEF Fresh, Fields

\* The stage of a handler is the number it is at.
LEMMA StageIs ==
  ASSUME NEW m
  PROVE  /\ Stage(m) = "links" => door[m].stage = 1
         /\ Stage(m) = "prompts" => door[m].stage = 2
         /\ Stage(m) = "user" <=> door[m].stage = 3
         /\ Stage(m) = "chat" => door[m].stage = 4
         /\ Stage(m) = "dispatch" => door[m].stage = 5
         /\ Len(onText) = 5
  <1>1. DOMAIN onText = 1..5 /\ Len(onText) = 5
    BY DEF onText
  <1>2. /\ onText[1] = "links" /\ onText[2] = "prompts" /\ onText[3] = "user"
        /\ onText[4] = "chat" /\ onText[5] = "dispatch"
    BY DEF onText
  <1>3. \A i \in 1..5 : i = 1 \/ i = 2 \/ i = 3 \/ i = 4 \/ i = 5
    OBVIOUS
  <1> HIDE DEF onText
  <1> QED
    BY <1>1, <1>2, <1>3 DEF Stage

\* The next stage, and the end.
LEMMA PassDrop ==
  ASSUME DoorInv, NEW m \in Msgs, NEW n
  PROVE  /\ Pass(m).stage = door[m].stage + 1 /\ ~Pass(m).counting
         /\ Drop(m, n).stage = Over /\ ~Drop(m, n).counting
         /\ DOMAIN Pass(m) = Fields /\ DOMAIN Drop(m, n) = Fields
         /\ Kept(m, Pass(m)) /\ Kept(m, Drop(m, n))
         /\ \A r \in {Pass(m), Drop(m, n)} :
               /\ r.tried = door[m].tried /\ r.served = door[m].served /\ r.failed = door[m].failed
               /\ r.admitted = door[m].admitted /\ r.now = door[m].now /\ r.under = door[m].under
  <1>1. DOMAIN door[m] = Fields
    BY DEF DoorInv, DoorOK
  <1> QED
    BY <1>1 DEF Pass, Drop, Kept, Fields

\* A step of a kind that is listed.
LEMMA KnownMove ==
  ASSUME NEW m \in Msgs, NEW r, Become(m, r), clock' = clock, DoorOK(r),
         r.stage >= door[m].stage, r.stage # 0, door[m].failed => r.failed,
         GoesOn(m, r) \/ Marks(m, r) \/ Counts(m, r) \/ Adds(m, r) \/ HandsOn(m, r)
  PROVE  \E q : Moves(m, q)
  BY DEF Moves, Becomes

\* A handler goes on to the next stage without a mark, a count or a link.
LEMMA PassMoves ==
  ASSUME DoorInv, NEW m \in Msgs, Become(m, Pass(m)), ~door[m].counting, door[m].stage \in 0..2,
         door[m].stage = 0 => isAdmin(Msg(m).user) \/ Msg(m).user \notin banned,
         UNCHANGED <<clock, marks, hits>>
  PROVE  \E r : Moves(m, r)
  <1>1. DoorOK(door[m])
    BY DEF DoorInv
  <1>2. PICK r : r = Pass(m)
    OBVIOUS
  <1>3. /\ r.stage = door[m].stage + 1 /\ r.stage \in 1..3 /\ DOMAIN r = Fields /\ ~r.counting
        /\ r.at = door[m].at /\ r.now = door[m].now /\ r.before = door[m].before
        /\ r.tried = door[m].tried /\ r.served = door[m].served /\ r.failed = door[m].failed
        /\ r.admitted = door[m].admitted
    BY <1>2, PassDrop DEF Kept
  <1>4. DoorOK(r)
    BY <1>1, <1>3 DEF DoorOK, Over
  <1>5. GoesOn(m, r)
    BY <1>3 DEF GoesOn, Kept
  <1>6. Become(m, r) /\ r.stage >= door[m].stage /\ r.stage # 0
    BY <1>2, <1>3 DEF Over
  <1> QED
    BY <1>3, <1>4, <1>5, <1>6, KnownMove

\* It ends.
LEMMA DropMoves ==
  ASSUME DoorInv, NEW m \in Msgs, NEW n, Become(m, Drop(m, n)), ~door[m].counting,
         door[m].stage \in 0..5, UNCHANGED <<clock, marks, hits>>
  PROVE  \E r : Moves(m, r)
  <1>1. DoorOK(door[m])
    BY DEF DoorInv
  <1>2. PICK r : r = Drop(m, n)
    OBVIOUS
  <1>3. /\ r.stage = 9 /\ r.stage = Over /\ DOMAIN r = Fields /\ ~r.counting
        /\ r.at = door[m].at /\ r.now = door[m].now /\ r.before = door[m].before
        /\ r.tried = door[m].tried /\ r.served = door[m].served /\ r.failed = door[m].failed
        /\ r.admitted = door[m].admitted
    BY <1>2, PassDrop DEF Kept, Over
  <1>4. DoorOK(r)
    BY <1>1, <1>3 DEF DoorOK
  <1>5. GoesOn(m, r)
    BY <1>3 DEF GoesOn, Kept
  <1>6. Become(m, r) /\ r.stage >= door[m].stage /\ r.stage # 0
    BY <1>2, <1>3 DEF Over
  <1> QED
    BY <1>3, <1>4, <1>5, <1>6, KnownMove

\* It goes straight to the dispatch.
LEMMA SkipMoves ==
  ASSUME DoorInv, NEW m \in Msgs, Become(m, [door[m] EXCEPT !.stage = 5]), ~door[m].counting,
         door[m].stage \in 3..5, UNCHANGED <<clock, marks, hits>>
  PROVE  \E r : Moves(m, r)
  <1>1. DoorOK(door[m])
    BY DEF DoorInv
  <1>2. PICK r : r = [door[m] EXCEPT !.stage = 5]
    OBVIOUS
  <1>3. /\ r.stage = 5 /\ DOMAIN r = Fields /\ ~r.counting
        /\ r.at = door[m].at /\ r.now = door[m].now /\ r.before = door[m].before
        /\ r.tried = door[m].tried /\ r.served = door[m].served /\ r.failed = door[m].failed
        /\ r.admitted = door[m].admitted
    BY <1>1, <1>2 DEF DoorOK, Fields
  <1>4. DoorOK(r)
    BY <1>1, <1>3 DEF DoorOK
  <1>5. GoesOn(m, r)
    BY <1>3 DEF GoesOn, Kept
  <1>6. Become(m, r) /\ r.stage >= door[m].stage /\ r.stage # 0
    BY <1>2, <1>3 DEF Over
  <1> QED
    BY <1>3, <1>4, <1>5, <1>6, KnownMove

\* The same when Redis failed.
LEMMA FailedMoves ==
  ASSUME DoorInv, NEW m \in Msgs, NEW q, Become(m, [q EXCEPT !.failed = TRUE]), ~door[m].counting,
         UNCHANGED <<clock, marks, hits>>,
         \/ q = Pass(m) /\ door[m].stage \in 0..2
         \/ q = [door[m] EXCEPT !.stage = 5] /\ door[m].stage \in 3..5
         \/ q = [door[m] EXCEPT !.link = @ + 1] /\ door[m].stage \in 1..5
  PROVE  \E r : Moves(m, r)
  <1>1. DoorOK(door[m])
    BY DEF DoorInv
  <1>5. PICK r : r = [q EXCEPT !.failed = TRUE]
    OBVIOUS
  <1>2. /\ DOMAIN q = Fields /\ q.stage \in 1..5 /\ ~q.counting /\ Kept(m, q)
        /\ q.tried = door[m].tried /\ q.served = door[m].served
        /\ q.admitted = door[m].admitted /\ q.now = door[m].now
        /\ q.stage >= door[m].stage /\ (q.stage = 4 => door[m].stage = 4)
    <2>1. CASE q = Pass(m) /\ door[m].stage \in 0..2
      BY <1>1, <2>1, PassDrop
    <2>2. CASE q = [door[m] EXCEPT !.stage = 5] /\ door[m].stage \in 3..5
      BY <1>1, <2>2 DEF DoorOK, Fields, Kept
    <2>3. CASE q = [door[m] EXCEPT !.link = @ + 1] /\ door[m].stage \in 1..5
      BY <1>1, <2>3 DEF DoorOK, Fields, Kept
    <2> QED
      BY <2>1, <2>2, <2>3
  <1>3. /\ DOMAIN r = Fields /\ r.stage = q.stage /\ ~r.counting /\ Kept(m, r)
        /\ r.tried = door[m].tried /\ r.served = door[m].served /\ r.failed
        /\ r.admitted = door[m].admitted /\ r.now = door[m].now
    BY <1>2, <1>5 DEF Fields, Kept
  <1>4. DoorOK(r)
    BY <1>1, <1>2, <1>3 DEF DoorOK, Kept, Over
  <1>6. Become(m, r) /\ r.stage >= door[m].stage /\ r.stage # 0
    BY <1>2, <1>3, <1>5
  <1>7. GoesOn(m, r)
    BY <1>3 DEF GoesOn
  <1> QED
    BY <1>3, <1>4, <1>6, <1>7, KnownMove

-----------------------------------------------------------------------------
(* What each handler's step is.                                              *)
LEMMA ArrivalMoves ==
  ASSUME DoorInv, NEW m \in Msgs, Register(m) \/ checkBanned(m) \/ promptConsumes(m)
  PROVE  \E r : Moves(m, r)
  <1>1. DoorOK(door[m])
    BY DEF DoorInv
  <1>2. CASE Register(m)
    <2>1. door[m].stage = 0 /\ ~door[m].counting /\ UNCHANGED <<clock, marks, hits>>
      BY <1>1, <1>2 DEF Register, DoorOK
    <2>2. \E n : Become(m, Drop(m, n))
      BY <1>2 DEF Register
    <2> QED
      BY <2>1, <2>2, DropMoves
  <1>3. CASE checkBanned(m)
    <2>1. door[m].stage = 0 /\ ~door[m].counting /\ UNCHANGED <<clock, marks, hits>>
      BY <1>1, <1>3 DEF checkBanned, DoorOK
    <2>2. \/ Become(m, Drop(m, 1))
          \/ Become(m, Pass(m)) /\ (isAdmin(Msg(m).user) \/ Msg(m).user \notin banned)
          \/ Become(m, [Pass(m) EXCEPT !.failed = TRUE])
      BY <1>3 DEF checkBanned
    <2>3. CASE Become(m, [Pass(m) EXCEPT !.failed = TRUE])
      BY <2>1, <2>3, FailedMoves
    <2> QED
      BY <2>1, <2>2, <2>3, DropMoves, PassMoves
  <1>4. CASE promptConsumes(m)
    <2>1. door[m].stage = 2 /\ ~door[m].counting /\ UNCHANGED <<clock, marks, hits>>
      BY <1>1, <1>4, StageIs DEF promptConsumes, DoorOK
    <2>2. (\E n : Become(m, Drop(m, n))) \/ Become(m, Pass(m))
      BY <1>4 DEF promptConsumes
    <2> QED
      BY <2>1, <2>2, DropMoves, PassMoves
  <1> QED
    BY <1>2, <1>3, <1>4

LEMMA LinksMove ==
  ASSUME DoorInv, NEW m \in Msgs, allowGroupLinks(m) PROVE \E r : Moves(m, r)
  <1>1. DoorOK(door[m])
    BY DEF DoorInv
  <1>2. door[m].stage = 1 /\ ~door[m].counting /\ UNCHANGED <<clock, hits>>
    BY <1>1, StageIs DEF allowGroupLinks, DoorOK
  <1>3. \/ \E b : Become(m, [Pass(m) EXCEPT !.passed = b]) /\ UNCHANGED marks
        \/ Become(m, Drop(m, 0)) /\ UNCHANGED marks
        \/ \E l : /\ AllowURLDedup(Msg(m).bot, l)
                  /\ Become(m, [door[m] EXCEPT !.link = @ + 1, !.tried = @ \cup {<<l, clock>>}])
        \/ Become(m, [door[m] EXCEPT !.link = @ + 1, !.failed = TRUE]) /\ UNCHANGED marks
    BY DEF allowGroupLinks
  <1>4. CASE \E b : Become(m, [Pass(m) EXCEPT !.passed = b]) /\ UNCHANGED marks
    <2>1. PICK b, r : r = [Pass(m) EXCEPT !.passed = b] /\ Become(m, r) /\ UNCHANGED marks
      BY <1>4
    <2>2. DOMAIN Pass(m) = Fields
      BY PassDrop
    <2>3. /\ DOMAIN r = Fields /\ r.stage = Pass(m).stage /\ (r.counting <=> Pass(m).counting)
          /\ r.at = Pass(m).at /\ r.before = Pass(m).before /\ r.now = Pass(m).now
          /\ r.tried = Pass(m).tried /\ r.served = Pass(m).served /\ r.failed = Pass(m).failed
          /\ r.admitted = Pass(m).admitted
      BY <2>1, <2>2 DEF Fields
    <2>4. /\ DOMAIN r = Fields /\ r.stage = 2 /\ ~r.counting /\ r.at = door[m].at
          /\ r.before = door[m].before /\ r.now = door[m].now /\ r.tried = door[m].tried
          /\ r.served = door[m].served /\ r.failed = door[m].failed /\ r.admitted = door[m].admitted
      BY <1>2, <2>3, PassDrop DEF Kept
    <2>5. DoorOK(r)
      BY <1>1, <1>2, <2>4 DEF DoorOK
    <2>6. GoesOn(m, r)
      BY <1>2, <2>1, <2>4 DEF GoesOn, Kept
    <2>7. r.stage >= door[m].stage /\ r.stage # 0
      BY <1>2, <2>4
    <2> QED
      BY <1>2, <2>1, <2>4, <2>5, <2>6, <2>7, KnownMove
  <1>5. CASE Become(m, Drop(m, 0)) /\ UNCHANGED marks
    BY <1>2, <1>5, DropMoves
  <1>6. CASE \E l : /\ AllowURLDedup(Msg(m).bot, l)
                    /\ Become(m, [door[m] EXCEPT !.link = @ + 1, !.tried = @ \cup {<<l, clock>>}])
    <2>1. PICK l, r : /\ AllowURLDedup(Msg(m).bot, l) /\ Become(m, r)
                      /\ r = [door[m] EXCEPT !.link = @ + 1, !.tried = @ \cup {<<l, clock>>}]
      BY <1>6
    <2>2. /\ DOMAIN r = Fields /\ r.stage = 1 /\ ~r.counting /\ r.at = door[m].at
          /\ r.before = door[m].before /\ r.now = door[m].now /\ r.failed = door[m].failed
          /\ r.tried = door[m].tried \cup {<<l, clock>>}
          /\ r.served = door[m].served /\ r.admitted = door[m].admitted
      BY <1>1, <1>2, <2>1 DEF DoorOK, Fields
    <2>3. DoorOK(r)
      BY <1>1, <1>2, <2>2 DEF DoorOK
    <2>4. Marks(m, r)
      BY <1>2, <2>1, <2>2 DEF Marks, Kept
    <2>5. r.stage >= door[m].stage /\ r.stage # 0
      BY <1>2, <2>2
    <2> QED
      BY <1>2, <2>1, <2>2, <2>3, <2>4, <2>5, KnownMove
  <1>7. CASE Become(m, [door[m] EXCEPT !.link = @ + 1, !.failed = TRUE]) /\ UNCHANGED marks
    <2>1. PICK q : q = [door[m] EXCEPT !.link = @ + 1]
      OBVIOUS
    <2>2. [door[m] EXCEPT !.link = @ + 1, !.failed = TRUE] = [q EXCEPT !.failed = TRUE]
      BY <2>1
    <2>3. Become(m, [q EXCEPT !.failed = TRUE])
      BY <1>7, <2>2, Zenon
    <2>4. door[m].stage \in 1..5 /\ UNCHANGED <<clock, marks, hits>>
      BY <1>2, <1>7
    <2> QED
      BY <1>2, <2>1, <2>3, <2>4, FailedMoves
  <1> QED
    BY <1>3, <1>4, <1>5, <1>6, <1>7

LEMMA CountMoves ==
  ASSUME DoorInv, NEW m \in Msgs, rateCount(m) PROVE \E r : Moves(m, r)
  <1>1. DoorOK(door[m])
    BY DEF DoorInv
  <1>2. door[m].stage \in {3, 4} /\ ~door[m].counting /\ UNCHANGED <<clock, marks>>
    BY StageIs DEF rateCount
  <1>3. \/ Become(m, [door[m] EXCEPT !.stage = 5]) /\ UNCHANGED hits
        \/ \E now, under, at, before :
              /\ hits' = PutKey(hits, RateKey(m), Recent(RateKey(m)))
              /\ now = clock
              /\ under = (Cardinality(Recent(RateKey(m))) < Limit(m))
              /\ at = IF Stage(m) = "user" THEN clock ELSE door[m].at
              /\ before = IF Stage(m) = "user" THEN {h[2] : h \in Hits(RateKey(m))} ELSE door[m].before
              /\ Become(m, [door[m] EXCEPT !.counting = TRUE, !.now = now, !.under = under,
                                           !.at = at, !.before = before])
        \/ Become(m, [door[m] EXCEPT !.stage = 5, !.failed = TRUE]) /\ UNCHANGED hits
    BY StageIs DEF rateCount
  <1>4. CASE Become(m, [door[m] EXCEPT !.stage = 5]) /\ UNCHANGED hits
    BY <1>2, <1>4, SkipMoves
  <1>5. CASE Become(m, [door[m] EXCEPT !.stage = 5, !.failed = TRUE]) /\ UNCHANGED hits
    <2>1. PICK q : q = [door[m] EXCEPT !.stage = 5]
      OBVIOUS
    <2>2. [door[m] EXCEPT !.stage = 5, !.failed = TRUE] = [q EXCEPT !.failed = TRUE]
      BY <2>1
    <2>3. Become(m, [q EXCEPT !.failed = TRUE])
      BY <1>5, <2>2, Zenon
    <2>4. door[m].stage \in 3..5 /\ UNCHANGED <<clock, marks, hits>>
      BY <1>2, <1>5
    <2> QED
      BY <1>2, <2>1, <2>3, <2>4, FailedMoves
  <1>6. ASSUME NEW now, NEW under, NEW at, NEW before,
               hits' = PutKey(hits, RateKey(m), Recent(RateKey(m))),
               now = clock,
               under = (Cardinality(Recent(RateKey(m))) < Limit(m)),
               at = IF Stage(m) = "user" THEN clock ELSE door[m].at,
               before = IF Stage(m) = "user" THEN {h[2] : h \in Hits(RateKey(m))} ELSE door[m].before,
               Become(m, [door[m] EXCEPT !.counting = TRUE, !.now = now, !.under = under,
                                         !.at = at, !.before = before])
        PROVE  \E r : Moves(m, r)
    <2>1. PICK r : r = [door[m] EXCEPT !.counting = TRUE, !.now = now, !.under = under,
                                       !.at = at, !.before = before]
      OBVIOUS
    <2>2. Become(m, r)
      BY <1>6, <2>1, Zenon
    <2>3. /\ DOMAIN r = Fields /\ r.stage = door[m].stage /\ r.counting /\ r.at = at /\ r.now = now
          /\ r.before = before /\ r.under = under /\ r.failed = door[m].failed
          /\ r.tried = door[m].tried /\ r.served = door[m].served /\ r.admitted = door[m].admitted
      BY <1>1, <2>1 DEF DoorOK, Fields
    <2>4. now \in Nat /\ at \in Nat /\ (door[m].stage = 3 => at = clock /\ at = now)
      <3>1. clock \in Nat /\ door[m].at \in Nat
        BY <1>1 DEF DoorInv, DoorOK
      <3> QED
        BY <1>6, <3>1, StageIs
    <2>5. DoorOK(r)
      BY <1>1, <1>2, <2>3, <2>4 DEF DoorOK
    <2>6. /\ door[m].stage = 4 => at = door[m].at /\ before = door[m].before
          /\ door[m].stage = 3 => before = {h[2] : h \in Hits(RateKey(m))}
          /\ door[m].stage = 3 => Limit(m) = UserLimit
      BY <1>6, StageIs DEF Limit
    <2>7. r.stage = 3 => (r.under <=> Cardinality(Recent(RateKey(m))) < UserLimit)
      BY <1>6, <2>3, <2>6
    <2>8. Counts(m, r)
      BY <1>2, <1>6, <2>3, <2>4, <2>6, <2>7 DEF Counts, Kept
    <2>9. r.stage >= door[m].stage /\ r.stage # 0
      BY <1>2, <2>3
    <2> QED
      BY <1>2, <2>2, <2>3, <2>5, <2>8, <2>9, KnownMove
  <1> QED
    BY <1>3, <1>4, <1>5, <1>6

LEMMA AddMoves ==
  ASSUME DoorInv, NEW m \in Msgs, allowRateLimit(m) PROVE \E r : Moves(m, r)
  <1>1. DoorOK(door[m]) /\ DOMAIN door[m] = Fields
    BY DEF DoorInv, DoorOK
  <1>2. /\ door[m].counting /\ door[m].stage \in {3, 4} /\ UNCHANGED <<clock, marks>>
        /\ hits' = PutKey(hits, RateKey(m), Hits(RateKey(m)) \cup {<<door[m].now, m>>})
    BY <1>1 DEF allowRateLimit, DoorOK
  <1>3. \/ door[m].under /\ Become(m, [Pass(m) EXCEPT !.admitted = TRUE])
        \/ \E n : Become(m, Drop(m, n))
    BY DEF allowRateLimit
  <1>4. CASE door[m].under /\ Become(m, [Pass(m) EXCEPT !.admitted = TRUE])
    <2>1. PICK p, r : p = Pass(m) /\ r = [p EXCEPT !.admitted = TRUE]
      OBVIOUS
    <2>2. Become(m, r)
      BY <1>4, <2>1, Zenon
    <2>3. /\ DOMAIN p = Fields /\ p.stage = door[m].stage + 1 /\ ~p.counting
          /\ p.at = door[m].at /\ p.now = door[m].now /\ p.before = door[m].before
          /\ p.tried = door[m].tried /\ p.served = door[m].served /\ p.failed = door[m].failed
      BY <2>1, PassDrop DEF Kept
    <2>4. /\ DOMAIN r = Fields /\ r.stage = p.stage /\ (r.counting <=> p.counting)
          /\ r.at = p.at /\ r.now = p.now /\ r.before = p.before /\ r.admitted
          /\ r.tried = p.tried /\ r.served = p.served /\ r.failed = p.failed
      BY <2>1, <2>3 DEF Fields
    <2>5. DoorOK(r) /\ r.stage >= 4
      BY <1>1, <1>2, <2>3, <2>4 DEF DoorOK
    <2>6. Adds(m, r)
      BY <1>2, <1>4, <2>3, <2>4, <2>5 DEF Adds, Kept
    <2>7. r.stage >= door[m].stage /\ r.stage # 0
      BY <1>2, <2>3, <2>4
    <2> QED
      BY <1>2, <2>2, <2>3, <2>4, <2>5, <2>6, <2>7, KnownMove
  <1>5. CASE \E n : Become(m, Drop(m, n))
    <2>1. PICK n, r : r = Drop(m, n) /\ Become(m, r)
      BY <1>5
    <2>2. /\ r.stage = 9 /\ DOMAIN r = Fields /\ ~r.counting
          /\ r.at = door[m].at /\ r.now = door[m].now /\ r.before = door[m].before
          /\ r.tried = door[m].tried /\ r.served = door[m].served /\ r.failed = door[m].failed
          /\ r.admitted = door[m].admitted
      BY <2>1, PassDrop DEF Kept, Over
    <2>3. DoorOK(r)
      BY <1>1, <2>2 DEF DoorOK, Over
    <2>4. Adds(m, r)
      BY <1>2, <2>2 DEF Adds, Kept
    <2>5. r.stage >= door[m].stage /\ r.stage # 0
      BY <1>2, <2>2
    <2> QED
      BY <1>2, <2>1, <2>2, <2>3, <2>4, <2>5, KnownMove
  <1> QED
    BY <1>3, <1>4, <1>5

LEMMA DispatchMoves ==
  ASSUME DoorInv, NEW m \in Msgs, dispatchLink(m) PROVE \E r : Moves(m, r)
  <1>1. DoorOK(door[m]) /\ DOMAIN door[m] = Fields
    BY DEF DoorInv, DoorOK
  <1>2. door[m].stage = 5 /\ ~door[m].counting /\ UNCHANGED <<clock, marks, hits>>
    <2>1. Stage(m) = "dispatch" /\ UNCHANGED <<hits, marks, clock>>
      BY Zenon DEF dispatchLink
    <2> QED
      BY <1>1, <2>1, StageIs DEF DoorOK
  <1>3. CASE door[m].link > Len(Links(m))
    <2>1. Become(m, Drop(m, 0))
      BY <1>3 DEF dispatchLink
    <2> QED
      BY <1>2, <2>1, DropMoves
  <1>4. ASSUME NEW redisFails \in BOOLEAN, NEW l, NEW taken,
               taken /\ Switched(LinkPlatform[l]) => PlatformEnabled(SwitchOf[LinkPlatform[l]], redisFails),
               NEW failed, failed = (door[m].failed \/ redisFails),
               NEW served, served = IF taken THEN door[m].served \cup {l} ELSE door[m].served,
               Become(m, [door[m] EXCEPT !.link = @ + 1, !.replies = @ + 1,
                                         !.failed = failed, !.served = served])
        PROVE  \E r : Moves(m, r)
    <2>1. PICK r : r = [door[m] EXCEPT !.link = @ + 1, !.replies = @ + 1,
                                       !.failed = failed, !.served = served]
      OBVIOUS
    <2>2. Become(m, r)
      BY <1>4, <2>1, Zenon
    <2>3. /\ DOMAIN r = Fields /\ r.stage = 5 /\ (r.counting <=> door[m].counting)
          /\ r.at = door[m].at /\ r.now = door[m].now /\ r.before = door[m].before
          /\ r.tried = door[m].tried /\ r.admitted = door[m].admitted
          /\ r.failed = failed /\ r.served = served
      BY <1>1, <1>2, <2>1 DEF Fields
    <2>4. DoorOK(r)
      BY <1>1, <1>2, <2>3 DEF DoorOK
    <2>5. \A x \in r.served \ door[m].served :
             r.failed \/ (Switched(LinkPlatform[x]) =>
                             valueIn(stored, SwitchOf[LinkPlatform[x]], FALSE) = Flag(TRUE))
      <3> SUFFICES ASSUME NEW x \in r.served \ door[m].served, ~r.failed, Switched(LinkPlatform[x])
                   PROVE  valueIn(stored, SwitchOf[LinkPlatform[x]], FALSE) = Flag(TRUE)
        OBVIOUS
      <3>1. taken /\ x = l /\ redisFails = FALSE
        BY <1>4, <2>3
      <3>2. SwitchOf[LinkPlatform[x]] \in Keys
        BY AdmissionAssumption DEF Switched
      <3> QED
        BY <1>4, <3>1, <3>2 DEF PlatformEnabled, CurrentValue
    <2>6. HandsOn(m, r)
      BY <1>2, <2>3, <2>5 DEF HandsOn, Kept
    <2>7. r.stage >= door[m].stage /\ r.stage # 0
      BY <1>2, <2>3
    <2>8. door[m].failed => r.failed
      BY <1>4, <2>3, Zenon
    <2> QED
      BY <1>2, <2>2, <2>4, <2>6, <2>7, <2>8, KnownMove
  <1>5. CASE ~(door[m].link > Len(Links(m)))
    <2>1. PICK redisFails \in BOOLEAN :
             LET l == Links(m)[door[m].link]
                 p == LinkPlatform[l]
                 taken == IF Msg(m).bot = "main" THEN dispatchMain(p, redisFails)
                          ELSE dispatchFleet(p, redisFails)
             IN  Become(m, [door[m] EXCEPT !.link = @ + 1, !.replies = @ + 1,
                                           !.failed = @ \/ redisFails,
                                           !.served = IF taken THEN @ \cup {l} ELSE @])
      BY <1>5, Zenon DEF dispatchLink
    <2>2. PICK l : l = Links(m)[door[m].link]
      OBVIOUS
    <2>3. PICK taken : taken = IF Msg(m).bot = "main" THEN dispatchMain(LinkPlatform[l], redisFails)
                               ELSE dispatchFleet(LinkPlatform[l], redisFails)
      OBVIOUS
    <2>4. PICK failed, served : /\ failed = (door[m].failed \/ redisFails)
                                /\ served = IF taken THEN door[m].served \cup {l} ELSE door[m].served
      OBVIOUS
    <2>5. Become(m, [door[m] EXCEPT !.link = @ + 1, !.replies = @ + 1, !.failed = failed, !.served = served])
      BY <2>1, <2>2, <2>3, <2>4, Zenon
    <2>6. taken /\ Switched(LinkPlatform[l]) => PlatformEnabled(SwitchOf[LinkPlatform[l]], redisFails)
      BY <2>3 DEF dispatchMain, dispatchFleet
    <2> QED
      BY <1>4, <2>4, <2>5, <2>6, Zenon
  <1> QED
    BY <1>3, <1>5

-----------------------------------------------------------------------------
(* Each part of the invariant is kept by a step of a message.                *)
LEMMA DoorAfter ==
  ASSUME DoorInv, NEW m \in Msgs, NEW r, Moves(m, r), UNCHANGED scenario
  PROVE  /\ door'[m] = r /\ \A n \in Msgs \ {m} : door'[n] = door[n]
         /\ Msgs' = Msgs /\ \A n : Msg(n)' = Msg(n)
         /\ clock' = clock /\ DoorInv'
  <1>1. door' = [door EXCEPT ![m] = r] /\ DoorOK(r) /\ clock' = clock /\ DOMAIN door = Msgs
    BY DEF Moves, Becomes, Become, DoorInv
  <1>2. door'[m] = r /\ (\A n \in Msgs \ {m} : door'[n] = door[n]) /\ DOMAIN door' = Msgs
    BY <1>1
  <1>3. Msgs' = Msgs /\ \A n : Msg(n)' = Msg(n)
    BY DEF Msgs, Msg
  <1>4. \A n \in Msgs : DoorOK(door'[n])
    BY <1>1, <1>2 DEF DoorInv
  <1>5. DoorInv'
    BY <1>1, <1>2, <1>3, <1>4 DEF DoorInv
  <1> QED
    BY <1>1, <1>2, <1>3, <1>5

\* The marks and the links tried, which only one kind of step touches.
LEMMA TriedStep ==
  ASSUME DoorInv, TriedInv, TriedApart, NEW m \in Msgs, NEW r, Moves(m, r), UNCHANGED scenario
  PROVE  TriedInv' /\ TriedApart'
  <1>1. /\ door'[m] = r /\ (\A n \in Msgs \ {m} : door'[n] = door[n])
        /\ Msgs' = Msgs /\ (\A n : Msg(n)' = Msg(n)) /\ clock' = clock /\ clock \in Nat
    BY DoorAfter DEF DoorInv
  <1>2. CASE UNCHANGED marks /\ r.tried = door[m].tried
    <2>1. \A n \in Msgs : door'[n].tried = door[n].tried
      BY <1>1, <1>2
    <2>2. TriedInv'
      BY <1>1, <1>2, <2>1 DEF TriedInv
    <2>3. TriedApart'
      BY <1>1, <2>1 DEF TriedApart
    <2> QED
      BY <2>2, <2>3
  <1>3. CASE Marks(m, r)
    <2>1. PICK l : AllowURLDedup(Msg(m).bot, l) /\ r.tried = door[m].tried \cup {<<l, clock>>}
      BY <1>3 DEF Marks
    <2>2. PICK k : k = <<Msg(m).bot, l>>
      OBVIOUS
    <2>3. marks' = PutKey(marks, k, clock) /\ (k \in DOMAIN marks => ~(clock - marks[k] < DedupWindow))
      BY <2>1, <2>2 DEF AllowURLDedup, Marked
    <2>4. /\ DOMAIN marks' = DOMAIN marks \cup {k} /\ marks'[k] = clock
          /\ \A j \in DOMAIN marks \ {k} : marks'[j] = marks[j]
      BY <2>3 DEF PutKey
    <2>5. \A j \in DOMAIN marks' : marks'[j] \in Nat /\ marks'[j] <= clock'
      BY <1>1, <2>4 DEF TriedInv
    <2>6. \A j \in DOMAIN marks : marks[j] <= marks'[j]
      BY <1>1, <2>4 DEF TriedInv
    <2>7. ASSUME NEW n \in Msgs, NEW t \in door'[n].tried
          PROVE  \/ t \in door[n].tried
                 \/ n = m /\ t[1] = l /\ t[2] = clock
      BY <1>1, <2>1, <2>7
    <2>8. ASSUME NEW n \in Msgs, NEW t \in door'[n].tried
          PROVE  /\ t[2] \in Nat /\ <<Msg(n).bot, t[1]>> \in DOMAIN marks'
                 /\ t[2] <= marks'[<<Msg(n).bot, t[1]>>]
      <3>1. CASE t \in door[n].tried
        <4>1. PICK j : j = <<Msg(n).bot, t[1]>>
          OBVIOUS
        <4>2. t[2] \in Nat /\ j \in DOMAIN marks /\ t[2] <= marks[j] /\ marks[j] \in Nat
          BY <3>1, <4>1 DEF TriedInv
        <4>3. j \in DOMAIN marks' /\ marks[j] <= marks'[j] /\ marks'[j] \in Nat
          BY <2>4, <2>5, <2>6, <4>2
        <4>4. t[2] <= marks'[j]
          BY <4>2, <4>3
        <4> QED
          BY <4>1, <4>2, <4>3, <4>4
      <3>2. CASE n = m /\ t[1] = l /\ t[2] = clock
        BY <1>1, <2>2, <2>4, <3>2
      <3> QED
        BY <2>7, <2>8, <3>1, <3>2
    <2>9. TriedInv'
      BY <1>1, <2>5, <2>8 DEF TriedInv
    <2>10. ASSUME NEW n \in Msgs \ {m}, Msg(m).bot = Msg(n).bot,
                  NEW t \in door'[m].tried, NEW u \in door'[n].tried, t[1] = u[1]
           PROVE  t[2] - u[2] >= DedupWindow \/ u[2] - t[2] >= DedupWindow
      <3>1. u \in door[n].tried
        BY <1>1, <2>10
      <3>2. CASE t \in door[m].tried
        BY <2>10, <3>1, <3>2 DEF TriedApart
      <3>3. CASE t[1] = l /\ t[2] = clock
        <4>1. k = <<Msg(n).bot, u[1]>>
          BY <2>2, <2>10, <3>3
        <4>2. u[2] \in Nat /\ k \in DOMAIN marks /\ u[2] <= marks[k] /\ marks[k] \in Nat
          BY <3>1, <4>1 DEF TriedInv
        <4>3. clock - marks[k] >= DedupWindow
          BY <1>1, <2>3, <4>2, AdmissionAssumption
        <4>4. clock - u[2] >= DedupWindow
          BY <1>1, <4>2, <4>3, AdmissionAssumption
        <4> QED
          BY <3>3, <4>4
      <3> QED
        BY <2>7, <2>10, <3>2, <3>3
    <2>11. ASSUME NEW i \in Msgs, NEW j \in Msgs, i # j, Msg(i).bot = Msg(j).bot,
                  NEW t \in door'[i].tried, NEW u \in door'[j].tried, t[1] = u[1]
           PROVE  t[2] - u[2] >= DedupWindow \/ u[2] - t[2] >= DedupWindow
      <3>1. CASE i = m
        BY <2>10, <2>11, <3>1
      <3>2. CASE j = m
        BY <2>10, <2>11, <3>2
      <3>3. CASE i # m /\ j # m
        BY <1>1, <2>11, <3>3 DEF TriedApart
      <3> QED
        BY <3>1, <3>2, <3>3
    <2>12. TriedApart'
      BY <1>1, <2>11 DEF TriedApart
    <2> QED
      BY <2>9, <2>12
  <1>4. (UNCHANGED marks /\ r.tried = door[m].tried) \/ Marks(m, r)
    BY DEF Moves, GoesOn, Counts, Adds, HandsOn
  <1> QED
    BY <1>2, <1>3, <1>4

\* A set whose members are second components of another set's is no larger.
LEMMA SecondsFewer ==
  ASSUME NEW S, NEW T, IsFiniteSet(S), \A t \in T : \E s \in S : s[2] = t
  PROVE  IsFiniteSet(T) /\ Cardinality(T) <= Cardinality(S)
  <1>1. PICK I : I = {s[2] : s \in S}
    OBVIOUS
  <1>2. PICK f : f = [s \in S |-> s[2]]
    OBVIOUS
  <1>3. f \in Surjection(S, I)
    BY <1>1, <1>2 DEF Surjection
  <1>4. IsFiniteSet(I) /\ Cardinality(I) <= Cardinality(S)
    BY <1>3, FS_Surjection
  <1>5. T \subseteq I
    BY <1>1
  <1>6. IsFiniteSet(T) /\ Cardinality(T) <= Cardinality(I)
    BY <1>4, <1>5, FS_Subset
  <1>7. Cardinality(S) \in Nat /\ Cardinality(I) \in Nat /\ Cardinality(T) \in Nat
    BY <1>4, <1>6, FS_CardinalityType
  <1> QED
    BY <1>4, <1>6, <1>7

\* A handler past the check of its user keeps the time and stays past it.
LEMMA PastStays ==
  ASSUME DoorInv, NEW m \in Msgs, NEW r, Moves(m, r), UNCHANGED scenario,
         NEW n \in Msgs, door[n].stage >= 4
  PROVE  door'[n].stage >= 4 /\ door'[n].at = door[n].at /\ door'[n].before = door[n].before
  <1>1. /\ door'[m] = r /\ (\A i \in Msgs \ {m} : door'[i] = door[i])
    BY DoorAfter
  <1>2. CASE n # m
    BY <1>1, <1>2
  <1>3. CASE n = m
    <2>1. r.stage >= door[m].stage /\ DoorOK(door[m]) /\ DoorOK(r)
      BY DEF Moves, Becomes, DoorInv
    <2>2. r.stage \in Nat /\ door[m].stage \in Nat
      BY <2>1 DEF DoorOK, Over
    <2>3. r.stage >= 4
      BY <1>3, <2>1, <2>2
    <2>4. CASE Counts(m, r)
      <3>1. r.stage \in {3, 4} /\ (r.stage = 4 => Kept(m, r))
        BY <2>4 DEF Counts
      <3> QED
        BY <1>1, <1>3, <2>3, <3>1 DEF Kept
    <2>5. CASE Kept(m, r)
      BY <1>1, <1>3, <2>3, <2>5 DEF Kept
    <2>6. Counts(m, r) \/ Kept(m, r)
      BY DEF Moves, GoesOn, Marks, Adds, HandsOn
    <2> QED
      BY <2>4, <2>5, <2>6
  <1> QED
    BY <1>2, <1>3

\* Counting forgets hits; adding enters the message with the time it counted at.
LEMMA HitsStep ==
  ASSUME DoorInv, HitsInv, NEW m \in Msgs, NEW r, Moves(m, r), UNCHANGED scenario
  PROVE  HitsInv'
  <1>1. /\ door'[m] = r /\ Msgs' = Msgs /\ DoorOK(r) /\ DoorOK(door[m])
    BY DoorAfter DEF Moves, Becomes, DoorInv
  <1>2. \A n \in Msgs : door[n].stage >= 4 => door'[n].stage >= 4 /\ door'[n].at = door[n].at
    BY PastStays
  <1>3. CASE UNCHANGED hits
    BY <1>1, <1>2, <1>3 DEF HitsInv
  <1>4. ASSUME NEW k, NEW S, hits' = PutKey(hits, k, S), IsFiniteSet(S),
               k[2] = "user" => \A h \in S : h[2] \in Msgs /\ door'[h[2]].stage >= 4 /\ h[1] = door'[h[2]].at
        PROVE  HitsInv'
    <2>1. /\ DOMAIN hits' = DOMAIN hits \cup {k} /\ hits'[k] = S
          /\ \A j \in DOMAIN hits \ {k} : hits'[j] = hits[j]
      BY <1>4 DEF PutKey
    <2> QED
      BY <1>1, <1>2, <1>4, <2>1 DEF HitsInv
  <1>5. PICK k : k = RateKey(m)
    OBVIOUS
  <1>6. PICK H : H = Hits(k)
    OBVIOUS
  <1>7. /\ IsFiniteSet(H)
        /\ k[2] = "user" => \A h \in H : h[2] \in Msgs /\ door[h[2]].stage >= 4 /\ h[1] = door[h[2]].at
    BY <1>6, FS_EmptySet DEF Hits, HitsInv
  <1>8. CASE Counts(m, r)
    <2>1. PICK S : S = Recent(k)
      OBVIOUS
    <2>2. hits' = PutKey(hits, k, S) /\ S \subseteq H
      BY <1>5, <1>6, <1>8, <2>1 DEF Counts, Recent
    <2>3. IsFiniteSet(S)
      BY <1>7, <2>2, FS_Subset
    <2>4. k[2] = "user" => \A h \in S : h[2] \in Msgs /\ door'[h[2]].stage >= 4 /\ h[1] = door'[h[2]].at
      BY <1>2, <1>7, <2>2
    <2> QED
      BY <1>4, <2>2, <2>3, <2>4
  <1>9. CASE Adds(m, r)
    <2>1. PICK a : a = <<door[m].now, m>>
      OBVIOUS
    <2>2. PICK S : S = H \cup {a}
      OBVIOUS
    <2>3. hits' = PutKey(hits, k, S)
      BY <1>5, <1>6, <1>9, <2>1, <2>2 DEF Adds
    <2>4. IsFiniteSet(S)
      BY <1>7, <2>2, FS_AddElement
    <2>5. k[2] = "user" => door[m].stage = 3
      BY <1>5, StageIs DEF RateKey
    <2>6. k[2] = "user" => a[1] = r.at /\ a[2] = m /\ r.stage >= 4
      BY <1>1, <1>9, <2>1, <2>5 DEF Adds, Kept, DoorOK
    <2>7. k[2] = "user" => \A h \in S : h[2] \in Msgs /\ door'[h[2]].stage >= 4 /\ h[1] = door'[h[2]].at
      BY <1>1, <1>2, <1>7, <2>2, <2>6
    <2> QED
      BY <1>4, <2>3, <2>4, <2>7
  <1> QED
    BY <1>3, <1>8, <1>9 DEF Moves, GoesOn, Marks, HandsOn

\* A handler's count is of the hits in its window; later steps add none to it.
LEMMA RateStep ==
  ASSUME DoorInv, HitsInv, RateInv, NEW m \in Msgs, NEW r, Moves(m, r), UNCHANGED scenario
  PROVE  RateInv'
  <1>1. /\ door'[m] = r /\ (\A n \in Msgs \ {m} : door'[n] = door[n])
        /\ Msgs' = Msgs /\ DoorOK(r) /\ DoorOK(door[m]) /\ clock \in Nat
    BY DoorAfter DEF Moves, Becomes, DoorInv
  <1>2. \A n \in Msgs : door[n].stage >= 4 => door'[n].stage >= 4 /\ door'[n].at = door[n].at
    BY PastStays
  <1>3. ASSUME NEW n \in Msgs, door'[n].before = door[n].before, door'[n].at = door[n].at
        PROVE  /\ \A i \in door'[n].before : i \in Msgs /\ door'[i].stage >= 4
               /\ InWindow(n)' = InWindow(n)
    <2>1. \A i \in door[n].before : i \in Msgs /\ door[i].stage >= 4
      BY DEF RateInv
    <2>2. \A i \in door[n].before : door'[i].stage >= 4 /\ door'[i].at = door[i].at
      BY <1>2, <2>1
    <2> QED
      BY <1>3, <2>1, <2>2 DEF InWindow
  <1>4. ASSUME NEW n \in Msgs, door'[n].before = door[n].before, door'[n].at = door[n].at,
               (door'[n].counting /\ door'[n].stage = 3 /\ door'[n].under) \/ door'[n].admitted
                  => (door[n].counting /\ door[n].stage = 3 /\ door[n].under) \/ door[n].admitted
        PROVE  /\ \A i \in door'[n].before : i \in Msgs /\ door'[i].stage >= 4
               /\ (door'[n].counting /\ door'[n].stage = 3 /\ door'[n].under) \/ door'[n].admitted =>
                     IsFiniteSet(InWindow(n)') /\ Cardinality(InWindow(n)') < UserLimit
    BY <1>3, <1>4 DEF RateInv
  <1>5. ASSUME NEW n \in Msgs \ {m}
        PROVE  /\ \A i \in door'[n].before : i \in Msgs /\ door'[i].stage >= 4
               /\ (door'[n].counting /\ door'[n].stage = 3 /\ door'[n].under) \/ door'[n].admitted =>
                     IsFiniteSet(InWindow(n)') /\ Cardinality(InWindow(n)') < UserLimit
    <2>1. door'[n] = door[n]
      BY <1>1
    <2> QED
      BY <1>4, <2>1
  <1>6. CASE Kept(m, r) /\ ~r.counting /\ (r.admitted => door[m].admitted \/ (door[m].counting /\ door[m].stage = 3 /\ door[m].under))
    <2>1. /\ \A i \in door'[m].before : i \in Msgs /\ door'[i].stage >= 4
          /\ (door'[m].counting /\ door'[m].stage = 3 /\ door'[m].under) \/ door'[m].admitted =>
                IsFiniteSet(InWindow(m)') /\ Cardinality(InWindow(m)') < UserLimit
      BY <1>1, <1>4, <1>6 DEF Kept
    <2> QED
      BY <1>1, <1>5, <2>1 DEF RateInv
  <1>7. CASE Counts(m, r) /\ r.stage = 4
    <2>1. Kept(m, r) /\ r.admitted = door[m].admitted
      BY <1>7 DEF Counts
    <2>2. /\ \A i \in door'[m].before : i \in Msgs /\ door'[i].stage >= 4
          /\ (door'[m].counting /\ door'[m].stage = 3 /\ door'[m].under) \/ door'[m].admitted =>
                IsFiniteSet(InWindow(m)') /\ Cardinality(InWindow(m)') < UserLimit
      BY <1>1, <1>4, <1>7, <2>1 DEF Kept
    <2> QED
      BY <1>1, <1>5, <2>2 DEF RateInv
  <1>8. CASE Counts(m, r) /\ r.stage = 3
    <2>1. door[m].stage = 3 /\ r.at = clock /\ ~r.admitted
      BY <1>1, <1>8 DEF Counts, DoorOK
    <2>2. PICK k : k = RateKey(m)
      OBVIOUS
    <2>3. k[2] = "user"
      BY <2>1, <2>2, StageIs DEF RateKey
    <2>4. PICK H : H = Hits(k)
      OBVIOUS
    <2>5. PICK S : S = {h \in H : h[1] > clock - RateWindow}
      OBVIOUS
    <2>6. r.before = {h[2] : h \in H} /\ (r.under <=> Cardinality(S) < UserLimit)
      BY <1>8, <2>2, <2>4, <2>5 DEF Counts, Recent
    <2>7. IsFiniteSet(H) /\ \A h \in H : h[2] \in Msgs /\ door[h[2]].stage >= 4 /\ h[1] = door[h[2]].at
      BY <2>3, <2>4, FS_EmptySet DEF Hits, HitsInv
    <2>8. IsFiniteSet(S)
      BY <2>5, <2>7, FS_Subset
    <2>9. \A i \in r.before : i \in Msgs /\ door'[i].stage >= 4 /\ i # m
      BY <1>2, <2>1, <2>6, <2>7
    <2>10. PICK W : W = InWindow(m)'
      OBVIOUS
    <2>11. ASSUME NEW i \in W
           PROVE  \E h \in S : h[2] = i
      <3>1. i \in r.before /\ r.at - door'[i].at < RateWindow
        BY <1>1, <2>10 DEF InWindow
      <3>2. PICK h \in H : h[2] = i
        BY <2>6, <3>1
      <3>3. i \in Msgs /\ i # m /\ door'[i] = door[i] /\ h[1] = door[i].at /\ door[i].at \in Nat
        BY <1>1, <2>7, <2>9, <3>1, <3>2 DEF DoorInv, DoorOK
      <3>4. clock - h[1] < RateWindow /\ h[1] \in Nat
        BY <2>1, <3>1, <3>3
      <3>5. h[1] > clock - RateWindow
        BY <1>1, <3>4, AdmissionAssumption
      <3> QED
        BY <2>5, <3>2, <3>5
    <2>12. IsFiniteSet(W) /\ Cardinality(W) <= Cardinality(S)
      BY <2>8, <2>11, SecondsFewer
    <2>13. Cardinality(W) \in Nat /\ Cardinality(S) \in Nat
      BY <2>8, <2>12, FS_CardinalityType
    <2>14. r.under => Cardinality(W) < UserLimit
      BY <2>6, <2>12, <2>13, AdmissionAssumption
    <2>15. /\ \A i \in door'[m].before : i \in Msgs /\ door'[i].stage >= 4
           /\ (door'[m].counting /\ door'[m].stage = 3 /\ door'[m].under) \/ door'[m].admitted =>
                 IsFiniteSet(InWindow(m)') /\ Cardinality(InWindow(m)') < UserLimit
      BY <1>1, <2>1, <2>9, <2>10, <2>12, <2>14
    <2> QED
      BY <1>1, <1>5, <2>15 DEF RateInv
  <1>9. Counts(m, r) => r.stage = 3 \/ r.stage = 4
    BY DEF Counts
  <1>10. Adds(m, r) => Kept(m, r) /\ ~r.counting /\ (r.admitted => door[m].admitted \/ (door[m].counting /\ door[m].stage = 3 /\ door[m].under))
    BY <1>1 DEF Adds, DoorOK
  <1>11. GoesOn(m, r) \/ Marks(m, r) \/ HandsOn(m, r) => Kept(m, r) /\ ~r.counting /\ (r.admitted => door[m].admitted)
    BY DEF GoesOn, Marks, HandsOn
  <1> QED
    BY <1>6, <1>7, <1>8, <1>9, <1>10, <1>11 DEF Moves

\* What was allowed at some time since a message arrived is not forgotten.
LEMMA ChancesGrow ==
  ASSUME Observe, NEW n \in Msgs, door'[n].stage # 0
  PROVE  /\ chances[n] \subseteq chances'[n]
         /\ Msg(n).user \notin banned' => "in" \in chances'[n]
         /\ \A k \in Keys : valueIn(stored', k, FALSE) = Flag(TRUE) => k \in chances'[n]
         /\ isAdmin(Msg(n).user) /\ fsm'[Msg(n).bot] # NoPrompt => "prompt" \in chances'[n]
  <1>1. chances'[n] = chances[n]
                      \cup (IF Msg(n).user \in banned' THEN {} ELSE {"in"})
                      \cup (IF isAdmin(Msg(n).user) /\ fsm'[Msg(n).bot] # NoPrompt THEN {"prompt"} ELSE {})
                      \cup {k \in Keys : valueIn(stored', k, FALSE) = Flag(TRUE)}
    BY DEF Observe
  <1> QED
    BY <1>1

\* A handler that stays where it is, and whose message may gain chances.
LEMMA ChanceKept ==
  ASSUME DoorInv, ChanceInv, UNCHANGED scenario, NEW n \in Msgs, door'[n] = door[n],
         door[n].stage # 0 => chances[n] \subseteq chances'[n]
  PROVE  /\ door'[n].stage \in 1..5 \/ door'[n].served # {} => MayBeIn(n)'
         /\ \A l \in door'[n].served :
               door'[n].failed \/ (Switched(LinkPlatform[l]) => SwitchOf[LinkPlatform[l]] \in chances'[n])
  <1>1. Msg(n)' = Msg(n)
    BY DEF Msg
  <1>2. door[n].stage = 0 => door[n].served = {}
    BY DEF DoorInv, DoorOK
  <1>3. door[n].stage # 0 /\ MayBeIn(n) => MayBeIn(n)'
    BY <1>1 DEF MayBeIn
  <1> QED
    BY <1>2, <1>3 DEF ChanceInv

\* The ban is looked up on arrival, the switch when a link is handed on.
LEMMA ChanceStep ==
  ASSUME DoorInv, ChanceInv, NEW m \in Msgs, NEW r, Moves(m, r), UNCHANGED scenario,
         Observe, UNCHANGED <<banned, stored>>
  PROVE  ChanceInv'
  <1>1. /\ door'[m] = r /\ (\A n \in Msgs \ {m} : door'[n] = door[n])
        /\ Msgs' = Msgs /\ (\A n : Msg(n)' = Msg(n)) /\ DoorOK(r) /\ DoorOK(door[m])
        /\ r.stage # 0 /\ r.stage >= door[m].stage /\ (door[m].failed => r.failed)
    BY DoorAfter DEF Moves, Becomes, DoorInv
  <1>2. ASSUME NEW n \in Msgs \ {m}
        PROVE  /\ door'[n].stage \in 1..5 \/ door'[n].served # {} => MayBeIn(n)'
               /\ \A l \in door'[n].served :
                     door'[n].failed \/ (Switched(LinkPlatform[l]) => SwitchOf[LinkPlatform[l]] \in chances'[n])
    <2>1. door'[n] = door[n]
      BY <1>1
    <2>2. door[n].stage # 0 => chances[n] \subseteq chances'[n]
      BY <2>1, ChancesGrow
    <2> QED
      BY <2>1, <2>2, ChanceKept
  <1>3. /\ chances[m] \subseteq chances'[m]
        /\ Msg(m).user \notin banned => "in" \in chances'[m]
        /\ \A k \in Keys : valueIn(stored, k, FALSE) = Flag(TRUE) => k \in chances'[m]
    <2>1. door'[m].stage # 0 /\ banned' = banned /\ stored' = stored
      BY <1>1
    <2>2. /\ chances[m] \subseteq chances'[m]
          /\ Msg(m).user \notin banned' => "in" \in chances'[m]
          /\ \A k \in Keys : valueIn(stored', k, FALSE) = Flag(TRUE) => k \in chances'[m]
      BY <2>1, ChancesGrow
    <2> QED
      BY <2>1, <2>2
  <1>4. MayBeIn(m) => MayBeIn(m)'
    BY <1>1, <1>3 DEF MayBeIn
  <1>5. r.stage \in 1..5 \/ r.served # {} => MayBeIn(m)'
    <2>1. CASE door[m].stage = 0
      <3>1. GoesOn(m, r) /\ door[m].served = {}
        BY <1>1, <2>1 DEF Moves, Marks, Counts, Adds, HandsOn, DoorOK
      <3>2. r.served = {}
        BY <3>1 DEF GoesOn
      <3>3. r.stage \in 1..5 => r.stage # Over
        BY DEF Over
      <3>4. r.stage \in 1..5 => r.failed \/ Msg(m).user = Admin \/ Msg(m).user \notin banned
        BY <2>1, <3>1, <3>3 DEF GoesOn, isAdmin
      <3> QED
        BY <1>1, <1>3, <3>2, <3>4 DEF MayBeIn
    <2>2. CASE door[m].stage \in 1..5
      BY <1>4, <2>2 DEF ChanceInv
    <2>3. CASE door[m].stage = Over
      <3>1. r.stage \notin 1..5
        BY <1>1, <2>3 DEF Over
      <3>2. r.served = door[m].served
        BY <2>3 DEF Moves, GoesOn, Marks, Counts, Adds, HandsOn, Over
      <3> QED
        BY <1>4, <3>1, <3>2 DEF ChanceInv
    <2> QED
      BY <1>1, <2>1, <2>2, <2>3 DEF DoorOK
  <1>6. ASSUME NEW l \in r.served
        PROVE  r.failed \/ (Switched(LinkPlatform[l]) => SwitchOf[LinkPlatform[l]] \in chances'[m])
    <2>1. CASE l \in door[m].served
      BY <1>1, <1>3, <2>1 DEF ChanceInv
    <2>2. CASE l \notin door[m].served
      <3>1. HandsOn(m, r)
        BY <1>6, <2>2 DEF Moves, GoesOn, Marks, Counts, Adds
      <3>2. r.failed \/ (Switched(LinkPlatform[l]) =>
                            valueIn(stored, SwitchOf[LinkPlatform[l]], FALSE) = Flag(TRUE))
        BY <1>6, <2>2, <3>1 DEF HandsOn
      <3>3. Switched(LinkPlatform[l]) => SwitchOf[LinkPlatform[l]] \in Keys
        BY AdmissionAssumption DEF Switched
      <3> QED
        BY <1>3, <3>2, <3>3
    <2> QED
      BY <2>1, <2>2
  <1>7. /\ door'[m].stage \in 1..5 \/ door'[m].served # {} => MayBeIn(m)'
        /\ \A l \in door'[m].served :
              door'[m].failed \/ (Switched(LinkPlatform[l]) => SwitchOf[LinkPlatform[l]] \in chances'[m])
    BY <1>1, <1>5, <1>6
  <1> QED
    BY <1>1, <1>2, <1>7 DEF ChanceInv

-----------------------------------------------------------------------------
\* What a step of a message's handler leaves of the others.
LEMMA OthersStay ==
  ASSUME DoorInv, NEW m \in Msgs, NEW r, Become(m, r), UNCHANGED scenario
  PROVE  /\ door'[m] = r /\ \A n \in Msgs \ {m} : door'[n] = door[n]
         /\ Msgs' = Msgs /\ \A n : /\ Msg(n)' = Msg(n) /\ Private(n)' = Private(n) /\ Links(n)' = Links(n)
                                   /\ ChatId(n)' = ChatId(n) /\ Asks(n)' = Asks(n)
  <1>1. door' = [door EXCEPT ![m] = r] /\ DOMAIN door = Msgs
    BY DEF Become, DoorInv
  <1>2. Msgs' = Msgs /\ \A n : Msg(n)' = Msg(n)
    BY DEF Msgs, Msg
  <1>3. \A n : Private(n)' = Private(n) /\ Links(n)' = Links(n)
    BY <1>2 DEF Private, Links
  <1>4. \A n : ChatId(n)' = ChatId(n) /\ Asks(n)' = Asks(n)
    BY <1>2, <1>3 DEF ChatId, Asks, Worded
  <1> QED
    BY <1>1, <1>2, <1>3, <1>4

\* The messages of a run are finitely many.
LEMMA CrowdIsFinite ==
  ASSUME scenario \in Scenarios, NEW m
  PROVE  /\ IsFiniteSet(Crowd(m)) /\ Cardinality(Crowd(m)) \in Nat
         /\ m \in Msgs => Links(m) \in Seq(DOMAIN LinkPlatform)
  <1>1. IsFiniteSet(Msgs) /\ Crowd(m) \subseteq Msgs
    BY AdmissionAssumption DEF Msgs, Crowd
  <1>2. IsFiniteSet(Crowd(m)) /\ Cardinality(Crowd(m)) \in Nat
    BY <1>1, FS_Subset, FS_CardinalityType
  <1>3. m \in Msgs => Links(m) \in Seq(DOMAIN LinkPlatform)
    BY AdmissionAssumption DEF Msgs, Links, Msg
  <1> QED
    BY <1>2, <1>3

\* A crowd only grows.
LEMMA CrowdGrows ==
  ASSUME AnsweredInv, DoorInv, NEW m \in Msgs, UNCHANGED scenario, Msgs' = Msgs,
         door'[m].now = door[m].now, door[m].admitted => door'[m].admitted,
         \A n \in Msgs : /\ door[n].admitted => door'[n].admitted
                         /\ door'[n].now \in Nat /\ door'[n].now >= door[n].now
  PROVE  Crowded(m) => Crowded(m)'
  <1>1. \A n : Msg(n)' = Msg(n) /\ Private(n)' = Private(n)
    BY DEF Msg, Private
  <1>2. \A n \in Msgs : door[n].now \in Nat
    BY DEF DoorInv, DoorOK
  <1>3. ASSUME NEW n \in Crowd(m) PROVE n \in Crowd(m)'
    <2>1. /\ n \in Msgs /\ n # m /\ Private(n) /\ Msg(n).bot = Msg(m).bot /\ Msg(n).user = Msg(m).user
          /\ door[n].admitted /\ door[m].now - door[n].now < RateWindow
      BY DEF Crowd
    <2>2. door'[m].now - door'[n].now < RateWindow
      BY <1>2, <2>1, AdmissionAssumption
    <2> QED
      BY <1>1, <2>1, <2>2 DEF Crowd
  <1>4. PICK C, D : C = Crowd(m) /\ D = Crowd(m)'
    OBVIOUS
  <1>5. scenario \in Scenarios /\ scenario' \in Scenarios
    BY DEF AnsweredInv
  <1>6. IsFiniteSet(C) /\ IsFiniteSet(D) /\ Cardinality(C) \in Nat /\ Cardinality(D) \in Nat
    <2>1. IsFiniteSet(Msgs) /\ C \subseteq Msgs /\ D \subseteq Msgs
      BY <1>4, <1>5, AdmissionAssumption DEF Msgs, Crowd
    <2> QED
      BY <2>1, FS_Subset, FS_CardinalityType
  <1>7. Cardinality(C) <= Cardinality(D)
    BY <1>3, <1>4, <1>6, FS_Subset
  <1>8. Cardinality(C) >= ChatLimit => Cardinality(D) >= ChatLimit
    BY <1>6, <1>7, AdmissionAssumption
  <1> QED
    BY <1>4, <1>8 DEF Crowded

\* A step of one message keeps the answers of the others.
LEMMA AnsweredByStep ==
  ASSUME AnsweredInv, DoorInv, StillOverlooked, NEW m \in Msgs, NEW r, Become(m, r), DoorOK(r),
         UNCHANGED <<scenario, clock>>, door[m].admitted => r.admitted,
         r.now = door[m].now \/ r.now = clock,
         Asks(m) => Answered(m, r, Excused(m)')
  PROVE  AnsweredInv'
  <1>1. /\ door'[m] = r /\ (\A n \in Msgs \ {m} : door'[n] = door[n])
        /\ Msgs' = Msgs /\ \A n : Asks(n)' = Asks(n) /\ Links(n)' = Links(n)
    BY OthersStay
  <1>2. \A n \in Msgs : DoorOK(door[n]) /\ door[n].now \in Nat /\ door[n].now <= clock /\ clock \in Nat
    BY DEF DoorInv, DoorOK, AnsweredInv
  <1>3. \A n \in Msgs : /\ door'[n].now \in Nat /\ door'[n].now >= door[n].now /\ door'[n].now <= clock
                        /\ door[n].admitted => door'[n].admitted
    <2>1. ASSUME NEW n \in Msgs, n # m
          PROVE  door'[n].now \in Nat /\ door'[n].now >= door[n].now /\ door'[n].now <= clock
                 /\ (door[n].admitted => door'[n].admitted)
      BY <1>1, <1>2, <2>1
    <2>2. /\ door'[m].now \in Nat /\ door'[m].now >= door[m].now /\ door'[m].now <= clock
          /\ (door[m].admitted => door'[m].admitted)
      BY <1>1, <1>2
    <2> QED
      BY <2>1, <2>2
  <1>4. ASSUME NEW n \in Msgs, Asks(n) PROVE Answered(n, door[n], Excused(n))'
    <2>1. CASE n = m
      <3>1. Answered(m, r, Excused(m)')
        BY <1>4, <2>1
      <3> QED
        BY <1>1, <2>1, <3>1 DEF Answered
    <2>2. CASE n # m
      <3>1. door'[n] = door[n]
        BY <1>1, <2>2
      <3>2. Excused(n) => Excused(n)'
        BY <1>1, <1>3, <3>1, CrowdGrows DEF Excused, StillOverlooked
      <3>3. Answered(n, door[n], Excused(n))
        BY <1>4 DEF AnsweredInv
      <3> QED
        BY <1>1, <3>1, <3>2, <3>3 DEF Answered
    <2> QED
      BY <2>1, <2>2
  <1> QED
    BY <1>1, <1>3, <1>4 DEF AnsweredInv

\* A step that does not count.
LEMMA AnsweredQuietly ==
  ASSUME AnsweredInv, DoorInv, StillOverlooked, NEW m \in Msgs, NEW r, Become(m, r), DoorOK(r),
         UNCHANGED <<scenario, clock>>, door[m].admitted => r.admitted, r.now = door[m].now,
         Asks(m) /\ Answered(m, door[m], Excused(m)) => Answered(m, r, Excused(m))
  PROVE  AnsweredInv'
  <1>1. /\ door'[m] = r /\ (\A n \in Msgs \ {m} : door'[n] = door[n]) /\ Msgs' = Msgs
    BY OthersStay
  <1>2. \A n \in Msgs : door[n].now \in Nat
    BY DEF DoorInv, DoorOK
  <1>3. \A n \in Msgs : /\ door[n].admitted => door'[n].admitted
                        /\ door'[n].now \in Nat /\ door'[n].now >= door[n].now
    BY <1>1, <1>2
  <1>4. Excused(m) => Excused(m)'
    BY <1>1, <1>3, CrowdGrows DEF Excused, StillOverlooked
  <1>5. Asks(m) => Answered(m, r, Excused(m))
    BY DEF AnsweredInv
  <1>6. Asks(m) => Answered(m, r, Excused(m)')
    BY <1>4, <1>5 DEF Answered
  <1> QED
    BY <1>6, AnsweredByStep

\* The sets of the chats after a step of one message.
LEMMA ChatHitsStep ==
  ASSUME ChatHitsInv, DoorInv, NEW m \in Msgs, NEW r, Become(m, r), UNCHANGED scenario,
         r.stage >= door[m].stage, DoorOK(r), door[m].admitted => r.admitted,
         door[m].stage >= 5 => r.now = door[m].now,
         \/ UNCHANGED hits
         \/ \E k, S : /\ hits' = PutKey(hits, k, S)
                      /\ k[2] = "chat" => \A h \in S :
                            \/ k \in DOMAIN hits /\ h \in hits[k]
                            \/ /\ h = <<r.now, m>> /\ r.stage >= 5 /\ r.admitted
                               /\ k = <<Msg(m).bot, "chat", ChatId(m)>>
  PROVE  ChatHitsInv'
  <1>1. /\ door'[m] = r /\ (\A n \in Msgs \ {m} : door'[n] = door[n])
        /\ Msgs' = Msgs /\ \A n : Msg(n)' = Msg(n) /\ ChatId(n)' = ChatId(n)
    BY OthersStay
  <1>2. r.stage \in Nat /\ door[m].stage \in Nat
    BY DEF DoorInv, DoorOK, Over
  <1>3. ASSUME NEW n \in Msgs, NEW k, InChatSet(n, k) PROVE InChatSet(n, k)' /\ door'[n].now = door[n].now
    <2>1. CASE n = m
      BY <1>1, <1>2, <1>3, <2>1 DEF InChatSet
    <2>2. CASE n # m
      BY <1>1, <1>3, <2>2 DEF InChatSet
    <2> QED
      BY <2>1, <2>2
  <1>4. ASSUME NEW k \in DOMAIN hits, k[2] = "chat", NEW h \in hits[k]
        PROVE  \E n \in Msgs : h = <<door'[n].now, n>> /\ InChatSet(n, k)'
    <2>1. PICK n \in Msgs : h = <<door[n].now, n>> /\ InChatSet(n, k)
      BY <1>4 DEF ChatHitsInv
    <2> QED
      BY <1>3, <2>1
  <1>5. CASE UNCHANGED hits
    BY <1>1, <1>4, <1>5 DEF ChatHitsInv
  <1>6. ASSUME NEW k, NEW S, hits' = PutKey(hits, k, S),
               k[2] = "chat" => \A h \in S :
                  \/ k \in DOMAIN hits /\ h \in hits[k]
                  \/ /\ h = <<r.now, m>> /\ r.stage >= 5 /\ r.admitted
                     /\ k = <<Msg(m).bot, "chat", ChatId(m)>>
        PROVE  ChatHitsInv'
    <2>1. /\ DOMAIN hits' = DOMAIN hits \cup {k} /\ hits'[k] = S
          /\ \A j \in DOMAIN hits \ {k} : hits'[j] = hits[j]
      BY <1>6 DEF PutKey
    <2>2. ASSUME k[2] = "chat", NEW h \in S
          PROVE  \E n \in Msgs : h = <<door'[n].now, n>> /\ InChatSet(n, k)'
      <3>1. CASE k \in DOMAIN hits /\ h \in hits[k]
        BY <1>4, <2>2, <3>1
      <3>2. CASE /\ h = <<r.now, m>> /\ r.stage >= 5 /\ r.admitted
                 /\ k = <<Msg(m).bot, "chat", ChatId(m)>>
        <4>1. InChatSet(m, k)'
          BY <1>1, <3>2 DEF InChatSet
        <4> QED
          BY <1>1, <3>2, <4>1
      <3> QED
        BY <1>6, <2>2, <3>1, <3>2
    <2>3. ASSUME NEW j \in DOMAIN hits', j[2] = "chat", NEW h \in hits'[j]
          PROVE  \E n \in Msgs : h = <<door'[n].now, n>> /\ InChatSet(n, j)'
      BY <1>4, <2>1, <2>2, <2>3
    <2> QED
      BY <1>1, <2>3 DEF ChatHitsInv
  <1> QED
    BY <1>5, <1>6

\* The record that a known step gives a handler.
LEMMA MoveIs ==
  ASSUME DoorInv, NEW m \in Msgs, NEW r, Become(m, r), \E q : Moves(m, q)
  PROVE  DoorOK(r) /\ r.stage >= door[m].stage /\ clock' = clock
  <1>1. PICK q : Moves(m, q)
    OBVIOUS
  <1>2. door' = [door EXCEPT ![m] = q] /\ door' = [door EXCEPT ![m] = r] /\ m \in DOMAIN door
    BY <1>1 DEF Moves, Becomes, Become, DoorInv
  <1>3. q = r
    BY <1>2
  <1> QED
    BY <1>1, <1>3 DEF Moves, Becomes

\* A step that neither counts nor adds itself to a set.
LEMMA QuietKeeps ==
  ASSUME AnsweredInv, ChatHitsInv, DoorInv, StillOverlooked, NEW m \in Msgs, NEW r, Become(m, r),
         \E q : Moves(m, q), UNCHANGED <<scenario, hits>>,
         r.admitted = door[m].admitted, r.now = door[m].now,
         Asks(m) /\ Answered(m, door[m], Excused(m)) => Answered(m, r, Excused(m))
  PROVE  AnsweredInv' /\ ChatHitsInv'
  <1>1. DoorOK(r) /\ r.stage >= door[m].stage /\ clock' = clock
    BY MoveIs
  <1>2. AnsweredInv'
    BY <1>1, AnsweredQuietly
  <1>3. ChatHitsInv'
    BY <1>1, ChatHitsStep
  <1> QED
    BY <1>2, <1>3

\* What the next stage and the end are, for the answers.
LEMMA PassDropAnswers ==
  ASSUME DoorInv, NEW m \in Msgs, NEW n
  PROVE  /\ Pass(m).link = 1 /\ Pass(m).replies = door[m].replies
         /\ Drop(m, n).link = door[m].link /\ Drop(m, n).replies = door[m].replies + n
  <1>1. DOMAIN door[m] = Fields
    BY DEF DoorInv, DoorOK
  <1> QED
    BY <1>1 DEF Pass, Drop, Fields

\* The next stage.
LEMMA PassAnswers ==
  ASSUME DoorInv, NEW m \in Msgs, door[m].stage \in 0..2, NEW r,
         r.stage = Pass(m).stage, r.link = Pass(m).link, r.replies = Pass(m).replies,
         Answered(m, door[m], Excused(m))
  PROVE  Answered(m, r, Excused(m))
  <1>1. r.stage \in 1..3 /\ r.link = 1 /\ r.replies = door[m].replies
    BY PassDrop, PassDropAnswers
  <1> QED
    BY <1>1 DEF Answered, Over

\* The end, with an answer.
LEMMA ToldAnswers ==
  ASSUME DoorInv, NEW m \in Msgs, door[m].stage \in 0..4, Answered(m, door[m], Excused(m))
  PROVE  Answered(m, Drop(m, 1), Excused(m))
  <1>1. PICK r : r = Drop(m, 1)
    OBVIOUS
  <1>2. r.stage = 9 /\ r.link = 1 /\ r.replies = 1
    BY <1>1, PassDrop, PassDropAnswers DEF Answered, Over
  <1> QED
    BY <1>1, <1>2 DEF Answered

\* Arrival and prompts.
LEMMA ArrivalAnswers ==
  ASSUME AnsweredInv, ChatHitsInv, DoorInv, StillOverlooked, NEW m \in Msgs, UNCHANGED <<scenario, fsm>>, Observe,
         Register(m) \/ checkBanned(m) \/ promptConsumes(m)
  PROVE  AnsweredInv' /\ ChatHitsInv'
  <1>1. (\E q : Moves(m, q)) /\ UNCHANGED hits
    BY ArrivalMoves DEF Register, checkBanned, promptConsumes
  <1>2. door[m].stage \in 0..2
    BY StageIs DEF Register, checkBanned, promptConsumes
  <1>3. CASE Register(m)
    <2>1. ~Asks(m)
      BY <1>3 DEF Register, Asks, Worded
    <2>2. PICK n : Become(m, Drop(m, n))
      BY <1>3 DEF Register
    <2>3. PICK r : r = Drop(m, n)
      OBVIOUS
    <2>4. r.admitted = door[m].admitted /\ r.now = door[m].now /\ Become(m, r)
      BY <2>2, <2>3, PassDrop
    <2> QED
      BY <1>1, <2>1, <2>4, QuietKeeps
  <1>4. CASE Become(m, Drop(m, 1))
    <2>1. PICK r : r = Drop(m, 1)
      OBVIOUS
    <2>2. r.admitted = door[m].admitted /\ r.now = door[m].now /\ Become(m, r)
      BY <1>4, <2>1, PassDrop
    <2>3. Answered(m, door[m], Excused(m)) => Answered(m, r, Excused(m))
      BY <1>2, <2>1, ToldAnswers
    <2> QED
      BY <1>1, <2>2, <2>3, QuietKeeps
  <1>5. CASE Become(m, Pass(m))
    <2>1. PICK r : r = Pass(m)
      OBVIOUS
    <2>2. r.admitted = door[m].admitted /\ r.now = door[m].now /\ Become(m, r)
      BY <1>5, <2>1, PassDrop
    <2>3. Answered(m, door[m], Excused(m)) => Answered(m, r, Excused(m))
      BY <1>2, <2>1, PassAnswers
    <2> QED
      BY <1>1, <2>2, <2>3, QuietKeeps
  <1>6. CASE Become(m, [Pass(m) EXCEPT !.failed = TRUE])
    <2>1. PICK r : r = [Pass(m) EXCEPT !.failed = TRUE]
      OBVIOUS
    <2>2. DOMAIN Pass(m) = Fields
      BY PassDrop
    <2>3. /\ r.admitted = Pass(m).admitted /\ r.now = Pass(m).now /\ r.stage = Pass(m).stage
          /\ r.link = Pass(m).link /\ r.replies = Pass(m).replies
      BY <2>1, <2>2 DEF Fields
    <2>4. r.admitted = door[m].admitted /\ r.now = door[m].now /\ Become(m, r)
      BY <1>6, <2>1, <2>3, PassDrop
    <2>5. Answered(m, door[m], Excused(m)) => Answered(m, r, Excused(m))
      BY <1>2, <2>3, PassAnswers
    <2> QED
      BY <1>1, <2>4, <2>5, QuietKeeps
  <1>7. CASE promptConsumes(m) /\ Prompted(m) /\ Msg(m).body # "text"
    <2>1. PICK r : r = Drop(m, 0)
      OBVIOUS
    <2>2. Become(m, r)
      BY <1>7, <2>1 DEF promptConsumes
    <2>3. r.admitted = door[m].admitted /\ r.now = door[m].now /\ r.stage = 9 /\ r.link = door[m].link
          /\ r.replies = door[m].replies + 0
      BY <2>1, PassDrop, PassDropAnswers DEF Over
    <2>4. DoorOK(r) /\ r.stage >= door[m].stage /\ clock' = clock
      BY <1>1, <2>2, MoveIs
    <2>5. door'[m] = r /\ Msg(m)' = Msg(m)
      BY <2>2, OthersStay
    <2>6. Asks(m) => Overlooked(m)'
      <3>1. "prompt" \in chances'[m]
        <4>1. isAdmin(Msg(m).user) /\ fsm'[Msg(m).bot] # NoPrompt
          BY <1>7 DEF Prompted
        <4>2. door'[m].stage # 0
          BY <2>3, <2>5
        <4> QED
          BY <4>1, <4>2, ChancesGrow
      <3> QED
        BY <1>7, <2>3, <2>5, <3>1 DEF Asks, Worded, Overlooked
    <2>7. Asks(m) => Answered(m, r, Excused(m)')
      <3>1. Asks(m) => Answered(m, door[m], Excused(m))
        BY DEF AnsweredInv
      <3>2. Asks(m) => r.replies = 0
        BY <1>2, <2>3, <3>1 DEF Answered
      <3> QED
        BY <2>3, <2>6, <3>2 DEF Answered, Excused
    <2>8. AnsweredInv'
      BY <2>2, <2>3, <2>4, <2>7, AnsweredByStep
    <2>9. door[m].stage >= 5 => r.now = door[m].now
      BY <2>3
    <2>10. ChatHitsInv'
      BY <1>1, <2>2, <2>3, <2>4, <2>9, ChatHitsStep
    <2> QED
      BY <2>8, <2>10
  <1> QED
    BY <1>3, <1>4, <1>5, <1>6, <1>7 DEF checkBanned, promptConsumes

\* The links of a group message; a private one passes.
LEMMA LinksAnswer ==
  ASSUME AnsweredInv, ChatHitsInv, DoorInv, StillOverlooked, NEW m \in Msgs, UNCHANGED scenario, allowGroupLinks(m)
  PROVE  AnsweredInv' /\ ChatHitsInv'
  <1>1. (\E q : Moves(m, q)) /\ UNCHANGED hits /\ door[m].stage = 1 /\ DOMAIN door[m] = Fields
    BY LinksMove, StageIs DEF allowGroupLinks, DoorInv, DoorOK
  <1>2. \/ \E b : Become(m, [Pass(m) EXCEPT !.passed = b])
        \/ ~Private(m) /\ Become(m, Drop(m, 0))
        \/ ~Private(m) /\ \E l, t : Become(m, [door[m] EXCEPT !.link = l, !.tried = t])
        \/ ~Private(m) /\ \E l : Become(m, [door[m] EXCEPT !.link = l, !.failed = TRUE])
    BY DEF allowGroupLinks
  <1>3. CASE \E b : Become(m, [Pass(m) EXCEPT !.passed = b])
    <2>1. PICK b, r : r = [Pass(m) EXCEPT !.passed = b] /\ Become(m, r)
      BY <1>3
    <2>2. DOMAIN Pass(m) = Fields
      BY PassDrop
    <2>3. /\ r.admitted = Pass(m).admitted /\ r.now = Pass(m).now /\ r.stage = Pass(m).stage
          /\ r.link = Pass(m).link /\ r.replies = Pass(m).replies
      BY <2>1, <2>2 DEF Fields
    <2>4. r.admitted = door[m].admitted /\ r.now = door[m].now
      BY <2>3, PassDrop
    <2>5. Answered(m, door[m], Excused(m)) => Answered(m, r, Excused(m))
      BY <1>1, <2>3, PassAnswers
    <2> QED
      BY <1>1, <2>1, <2>4, <2>5, QuietKeeps
  <1>4. ASSUME ~Private(m), NEW r, Become(m, r), r.admitted = door[m].admitted, r.now = door[m].now
        PROVE  AnsweredInv' /\ ChatHitsInv'
    <2>1. ~Asks(m)
      BY <1>4 DEF Asks
    <2> QED
      BY <1>1, <1>4, <2>1, QuietKeeps
  <1>5. CASE ~Private(m) /\ Become(m, Drop(m, 0))
    <2>1. PICK r : r = Drop(m, 0)
      OBVIOUS
    <2>2. r.admitted = door[m].admitted /\ r.now = door[m].now /\ Become(m, r)
      BY <1>5, <2>1, PassDrop
    <2> QED
      BY <1>4, <1>5, <2>2
  <1>6. CASE ~Private(m) /\ \E l, t : Become(m, [door[m] EXCEPT !.link = l, !.tried = t])
    <2>1. PICK l, t, r : r = [door[m] EXCEPT !.link = l, !.tried = t] /\ Become(m, r)
      BY <1>6
    <2>2. r.admitted = door[m].admitted /\ r.now = door[m].now
      BY <1>1, <2>1 DEF Fields
    <2> QED
      BY <1>4, <1>6, <2>1, <2>2
  <1>7. CASE ~Private(m) /\ \E l : Become(m, [door[m] EXCEPT !.link = l, !.failed = TRUE])
    <2>1. PICK l, r : r = [door[m] EXCEPT !.link = l, !.failed = TRUE] /\ Become(m, r)
      BY <1>7
    <2>2. r.admitted = door[m].admitted /\ r.now = door[m].now
      BY <1>1, <2>1 DEF Fields
    <2> QED
      BY <1>4, <1>7, <2>1, <2>2
  <1> QED
    BY <1>2, <1>3, <1>5, <1>6, <1>7

\* Dispatch: one reply per link.
LEMMA DispatchAnswers ==
  ASSUME AnsweredInv, ChatHitsInv, DoorInv, StillOverlooked, NEW m \in Msgs, UNCHANGED scenario, dispatchLink(m)
  PROVE  AnsweredInv' /\ ChatHitsInv'
  <1>1. (\E q : Moves(m, q)) /\ UNCHANGED hits /\ DOMAIN door[m] = Fields
    BY DispatchMoves, Zenon DEF dispatchLink, DoorInv, DoorOK
  <1>2. door[m].stage = 5
    <2>1. Stage(m) = "dispatch"
      BY Zenon DEF dispatchLink
    <2> QED
      BY <2>1, StageIs
  <1>3. PICK L : L = Len(Links(m))
    OBVIOUS
  <1>4. L \in Nat /\ (Links(m) # <<>> => L >= 1)
    <2>1. Links(m) \in Seq(DOMAIN LinkPlatform)
      BY CrowdIsFinite DEF AnsweredInv
    <2> QED
      BY <1>3, <2>1
  <1>5. CASE door[m].link > Len(Links(m))
    <2>1. PICK r : r = Drop(m, 0)
      OBVIOUS
    <2>2. Become(m, r)
      BY <1>5, <2>1 DEF dispatchLink
    <2>3. /\ r.admitted = door[m].admitted /\ r.now = door[m].now
          /\ r.stage = 9 /\ r.link = door[m].link /\ r.replies = door[m].replies + 0
      BY <2>1, PassDrop, PassDropAnswers DEF Over
    <2>4. ASSUME Asks(m), Answered(m, door[m], Excused(m)) PROVE Answered(m, r, Excused(m))
      <3>1. door[m].link \in 1..(L + 1) /\ door[m].replies = door[m].link - 1 /\ L >= 1 /\ door[m].link > L
        BY <1>2, <1>3, <1>4, <1>5, <2>4 DEF Answered, Asks
      <3>2. r.link > 1 /\ r.replies = L
        BY <1>4, <2>3, <3>1
      <3> QED
        BY <1>3, <2>3, <3>2 DEF Answered
    <2> QED
      BY <1>1, <2>2, <2>3, <2>4, QuietKeeps
  <1>6. CASE ~(door[m].link > Len(Links(m)))
    <2>1. PICK failed, served :
             Become(m, [door[m] EXCEPT !.link = @ + 1, !.replies = @ + 1, !.failed = failed, !.served = served])
      BY <1>6, Zenon DEF dispatchLink
    <2>2. PICK r : r = [door[m] EXCEPT !.link = @ + 1, !.replies = @ + 1, !.failed = failed, !.served = served]
      OBVIOUS
    <2>3. Become(m, r)
      BY <2>1, <2>2, Zenon
    <2>4. /\ r.admitted = door[m].admitted /\ r.now = door[m].now
          /\ r.stage = 5 /\ r.link = door[m].link + 1 /\ r.replies = door[m].replies + 1
      BY <1>1, <1>2, <2>2 DEF Fields
    <2>5. ASSUME Asks(m), Answered(m, door[m], Excused(m)) PROVE Answered(m, r, Excused(m))
      <3>1. door[m].link \in 1..(L + 1) /\ door[m].replies = door[m].link - 1 /\ ~(door[m].link > L)
        BY <1>2, <1>3, <1>6, <2>5 DEF Answered
      <3>2. r.link \in 1..(L + 1) /\ r.replies = r.link - 1
        BY <1>4, <2>4, <3>1
      <3> QED
        BY <1>3, <2>4, <3>2 DEF Answered, Over
    <2> QED
      BY <1>1, <2>3, <2>4, <2>5, QuietKeeps
  <1> QED
    BY <1>5, <1>6

\* A message that finds the set of its private chat full comes after a crowd.
LEMMA FullSetIsCrowd ==
  ASSUME AnsweredInv, ChatHitsInv, DoorInv, HitsInv, NEW m \in Msgs, NEW r, Become(m, r), UNCHANGED scenario,
         door[m].stage = 4, r.now = clock, r.admitted, Private(m),
         ~(Cardinality(Recent(RateKey(m))) < ChatLimit)
  PROVE  Crowded(m)'
  <1>1. /\ door'[m] = r /\ (\A n \in Msgs \ {m} : door'[n] = door[n])
        /\ Msgs' = Msgs /\ \A n : Msg(n)' = Msg(n) /\ Private(n)' = Private(n)
    BY OthersStay
  <1>2. PICK k : k = RateKey(m)
    OBVIOUS
  <1>3. k = <<Msg(m).bot, "chat", <<"private", Msg(m).user>> >> /\ k[2] = "chat"
    BY <1>2, StageIs DEF RateKey, ChatId
  <1>4. PICK S : S = Recent(k)
    OBVIOUS
  <1>5. PICK C : C = Crowd(m)'
    OBVIOUS
  <1>6. ASSUME NEW h \in S
        PROVE  \E n \in C : h = <<door'[n].now, n>>
    <2>1. h \in Hits(k) /\ h[1] > clock - RateWindow
      BY <1>4 DEF Recent
    <2>2. k \in DOMAIN hits /\ h \in hits[k]
      BY <2>1 DEF Hits
    <2>3. PICK n \in Msgs : h = <<door[n].now, n>> /\ InChatSet(n, k)
      BY <1>3, <2>2 DEF ChatHitsInv
    <2>4. n # m /\ door'[n] = door[n] /\ door[n].admitted
      BY <1>1, <2>3 DEF InChatSet
    <2>5. <<Msg(n).bot, "chat", ChatId(n)>> = <<Msg(m).bot, "chat", <<"private", Msg(m).user>> >>
      BY <1>3, <2>3 DEF InChatSet
    <2>6. Msg(n).bot = Msg(m).bot /\ ChatId(n) = <<"private", Msg(m).user>>
      BY <2>5
    <2>7. Private(n) /\ Msg(n).user = Msg(m).user
      <3>1. CASE Private(n)
        <4>1. <<"private", Msg(n).user>> = <<"private", Msg(m).user>>
          BY <2>6, <3>1 DEF ChatId
        <4> QED
          BY <3>1, <4>1
      <3>2. CASE ~Private(n)
        <4>1. <<"group", Msg(n).chat>> = <<"private", Msg(m).user>>
          BY <2>6, <3>2 DEF ChatId
        <4>2. "group" = "private"
          BY <4>1
        <4> QED
          BY <4>2
      <3> QED
        BY <3>1, <3>2
    <2>8. h[1] = door[n].now
      BY <2>3
    <2>9. door[n].now \in Nat /\ clock \in Nat
      BY DEF DoorInv, DoorOK
    <2>10. door'[m].now - door'[n].now < RateWindow
      BY <1>1, <2>1, <2>4, <2>8, <2>9, AdmissionAssumption
    <2>11. n \in C
      BY <1>1, <1>5, <2>4, <2>6, <2>7, <2>10 DEF Crowd
    <2> QED
      BY <2>3, <2>4, <2>11
  <1>7. IsFiniteSet(C) /\ Cardinality(C) \in Nat
    <2>1. IsFiniteSet(Msgs) /\ C \subseteq Msgs
      BY <1>1, <1>5, AdmissionAssumption DEF Msgs, Crowd, AnsweredInv
    <2> QED
      BY <2>1, FS_Subset, FS_CardinalityType
  <1>8. PICK f : f = [n \in C |-> <<door'[n].now, n>>]
    OBVIOUS
  <1>9. PICK I : I = {f[n] : n \in C}
    OBVIOUS
  <1>10. f \in Surjection(C, I)
    BY <1>8, <1>9 DEF Surjection
  <1>11. IsFiniteSet(I) /\ Cardinality(I) <= Cardinality(C)
    BY <1>7, <1>10, FS_Surjection
  <1>12. S \subseteq I
    BY <1>6, <1>8, <1>9
  <1>13. IsFiniteSet(S) /\ Cardinality(S) <= Cardinality(I)
    BY <1>11, <1>12, FS_Subset
  <1>14. Cardinality(S) \in Nat /\ Cardinality(I) \in Nat
    BY <1>11, <1>13, FS_CardinalityType
  <1>15. Cardinality(C) >= ChatLimit
    BY <1>2, <1>4, <1>7, <1>11, <1>13, <1>14, AdmissionAssumption
  <1> QED
    BY <1>1, <1>5, <1>15 DEF Crowded

\* Straight to the dispatch.
LEMMA SkipAnswers ==
  ASSUME AnsweredInv, ChatHitsInv, DoorInv, StillOverlooked, NEW m \in Msgs, UNCHANGED <<scenario, hits>>,
         \E q : Moves(m, q), door[m].stage \in {3, 4}, NEW r, Become(m, r),
         r.stage = 5, r.link = door[m].link, r.replies = door[m].replies,
         r.admitted = door[m].admitted, r.now = door[m].now
  PROVE  AnsweredInv' /\ ChatHitsInv'
  <1>1. Len(Links(m)) \in Nat
    <2>1. Links(m) \in Seq(DOMAIN LinkPlatform)
      BY CrowdIsFinite DEF AnsweredInv
    <2> QED
      BY <2>1
  <1>2. ASSUME Answered(m, door[m], Excused(m)) PROVE Answered(m, r, Excused(m))
    <2>1. r.link = 1 /\ r.replies = 0
      BY <1>2 DEF Answered
    <2>2. 1 \in 1..(Len(Links(m)) + 1) /\ 0 = 1 - 1
      BY <1>1
    <2> QED
      BY <2>1, <2>2 DEF Answered, Over
  <1> QED
    BY <1>2, QuietKeeps

\* Counting.
LEMMA CountAnswers ==
  ASSUME AnsweredInv, ChatHitsInv, DoorInv, StillOverlooked, HitsInv, NEW m \in Msgs, UNCHANGED scenario, rateCount(m)
  PROVE  AnsweredInv' /\ ChatHitsInv'
  <1>1. /\ \E q : Moves(m, q)
        /\ DoorOK(door[m]) /\ DOMAIN door[m] = Fields /\ door[m].stage \in {3, 4} /\ UNCHANGED clock
    BY CountMoves, StageIs DEF rateCount, DoorInv, DoorOK
  <1>2. \/ Become(m, [door[m] EXCEPT !.stage = 5]) /\ UNCHANGED hits
        \/ \E now, under, at, before :
              /\ hits' = PutKey(hits, RateKey(m), Recent(RateKey(m)))
              /\ now = clock
              /\ under = (Cardinality(Recent(RateKey(m))) < Limit(m))
              /\ Become(m, [door[m] EXCEPT !.counting = TRUE, !.now = now, !.under = under,
                                           !.at = at, !.before = before])
        \/ Become(m, [door[m] EXCEPT !.stage = 5, !.failed = TRUE]) /\ UNCHANGED hits
    BY StageIs DEF rateCount
  <1>3. CASE Become(m, [door[m] EXCEPT !.stage = 5]) /\ UNCHANGED hits
    <2>1. PICK r : r = [door[m] EXCEPT !.stage = 5]
      OBVIOUS
    <2>2. Become(m, r)
      BY <1>3, <2>1, Zenon
    <2>3. /\ r.stage = 5 /\ r.link = door[m].link /\ r.replies = door[m].replies
          /\ r.admitted = door[m].admitted /\ r.now = door[m].now
      BY <1>1, <2>1 DEF Fields
    <2> QED
      BY <1>1, <1>3, <2>2, <2>3, SkipAnswers
  <1>4. CASE Become(m, [door[m] EXCEPT !.stage = 5, !.failed = TRUE]) /\ UNCHANGED hits
    <2>1. PICK r : r = [door[m] EXCEPT !.stage = 5, !.failed = TRUE]
      OBVIOUS
    <2>2. Become(m, r)
      BY <1>4, <2>1, Zenon
    <2>3. /\ r.stage = 5 /\ r.link = door[m].link /\ r.replies = door[m].replies
          /\ r.admitted = door[m].admitted /\ r.now = door[m].now
      BY <1>1, <2>1 DEF Fields
    <2> QED
      BY <1>1, <1>4, <2>2, <2>3, SkipAnswers
  <1>5. ASSUME NEW now, NEW under, NEW at, NEW before,
               hits' = PutKey(hits, RateKey(m), Recent(RateKey(m))),
               now = clock,
               under = (Cardinality(Recent(RateKey(m))) < Limit(m)),
               Become(m, [door[m] EXCEPT !.counting = TRUE, !.now = now, !.under = under,
                                         !.at = at, !.before = before])
        PROVE  AnsweredInv' /\ ChatHitsInv'
    <2>1. PICK r : r = [door[m] EXCEPT !.counting = TRUE, !.now = now, !.under = under,
                                       !.at = at, !.before = before]
      OBVIOUS
    <2>2. Become(m, r)
      BY <1>5, <2>1, Zenon
    <2>3. /\ r.stage = door[m].stage /\ r.link = door[m].link /\ r.replies = door[m].replies
          /\ r.admitted = door[m].admitted /\ r.now = clock /\ r.under = under
      BY <1>1, <1>5, <2>1 DEF Fields
    <2>4. DoorOK(r) /\ r.stage >= door[m].stage
      BY <1>1, <2>2, MoveIs
    <2>5. ASSUME Asks(m), r.stage = 4, ~r.under PROVE Crowded(m)'
      <3>1. door[m].stage = 4
        BY <2>3, <2>5
      <3>2. Stage(m) # "user"
        BY <3>1, StageIs
      <3>3. Limit(m) = ChatLimit
        BY <3>2 DEF Limit
      <3>4. ~(Cardinality(Recent(RateKey(m))) < ChatLimit)
        BY <1>5, <2>3, <2>5, <3>3
      <3>5. r.admitted /\ Private(m)
        BY <1>1, <2>3, <2>5 DEF DoorOK, Asks
      <3> QED
        BY <2>2, <2>3, <2>5, <3>4, <3>5, FullSetIsCrowd
    <2>6. Asks(m) => Answered(m, r, Excused(m)')
      <3>1. Asks(m) => Answered(m, door[m], Excused(m))
        BY DEF AnsweredInv
      <3>2. Asks(m) => r.link = 1 /\ r.replies = 0
        BY <1>1, <2>3, <3>1 DEF Answered
      <3>3. r.stage \in {3, 4}
        BY <1>1, <2>3
      <3> QED
        BY <2>5, <3>2, <3>3 DEF Answered, Excused, Over
    <2>7. AnsweredInv'
      BY <1>1, <2>2, <2>3, <2>4, <2>6, AnsweredByStep
    <2>8. PICK k, S : k = RateKey(m) /\ S = Recent(k)
      OBVIOUS
    <2>9. \A h \in S : k \in DOMAIN hits /\ h \in hits[k]
      BY <2>8 DEF Recent, Hits
    <2>10. hits' = PutKey(hits, k, S)
      BY <1>5, <2>8
    <2>11. door[m].stage >= 5 => r.now = door[m].now
      BY <1>1
    <2>12. ChatHitsInv'
      BY <2>2, <2>3, <2>4, <2>9, <2>10, <2>11, ChatHitsStep
    <2> QED
      BY <2>7, <2>12
  <1> QED
    BY <1>2, <1>3, <1>4, <1>5

\* Adding the message to the set, and refusing it or letting it through.
LEMMA AddAnswers ==
  ASSUME AnsweredInv, ChatHitsInv, DoorInv, StillOverlooked, NEW m \in Msgs, UNCHANGED scenario, allowRateLimit(m)
  PROVE  AnsweredInv' /\ ChatHitsInv'
  <1>1. /\ \E q : Moves(m, q)
        /\ DoorOK(door[m]) /\ DOMAIN door[m] = Fields /\ door[m].stage \in {3, 4} /\ UNCHANGED clock
        /\ door[m].counting
        /\ hits' = PutKey(hits, RateKey(m), Hits(RateKey(m)) \cup {<<door[m].now, m>>})
    BY AddMoves DEF allowRateLimit, DoorInv, DoorOK
  <1>2. Len(Links(m)) \in Nat
    <2>1. Links(m) \in Seq(DOMAIN LinkPlatform)
      BY CrowdIsFinite DEF AnsweredInv
    <2> QED
      BY <2>1
  <1>3. ASSUME NEW r, Become(m, r), r.now = door[m].now, door[m].admitted => r.admitted,
               door[m].stage = 4 => r.stage >= 5,
               Asks(m) /\ Answered(m, door[m], Excused(m)) => Answered(m, r, Excused(m))
        PROVE  AnsweredInv' /\ ChatHitsInv'
    <2>1. DoorOK(r) /\ r.stage >= door[m].stage
      BY <1>1, <1>3, MoveIs
    <2>2. AnsweredInv'
      BY <1>1, <1>3, <2>1, AnsweredQuietly
    <2>3. PICK k, a : k = RateKey(m) /\ a = <<door[m].now, m>>
      OBVIOUS
    <2>4. PICK S : S = Hits(k) \cup {a}
      OBVIOUS
    <2>5. hits' = PutKey(hits, k, S)
      BY <1>1, <2>3, <2>4
    <2>6. k[2] = "chat" => door[m].stage = 4 /\ k = <<Msg(m).bot, "chat", ChatId(m)>>
      BY <1>1, <2>3, StageIs DEF RateKey
    <2>7. k[2] = "chat" => r.stage >= 5 /\ r.admitted /\ a = <<r.now, m>>
      BY <1>1, <1>3, <2>3, <2>6 DEF DoorOK
    <2>8. \A h \in S : (k \in DOMAIN hits /\ h \in hits[k]) \/ h = a
      BY <2>4 DEF Hits
    <2>9. k[2] = "chat" => \A h \in S :
             \/ k \in DOMAIN hits /\ h \in hits[k]
             \/ /\ h = <<r.now, m>> /\ r.stage >= 5 /\ r.admitted
                /\ k = <<Msg(m).bot, "chat", ChatId(m)>>
      BY <2>6, <2>7, <2>8
    <2>10. ChatHitsInv'
      BY <1>3, <2>1, <2>5, <2>9, ChatHitsStep
    <2> QED
      BY <2>2, <2>10
  <1>4. CASE door[m].under /\ Become(m, [Pass(m) EXCEPT !.admitted = TRUE])
    <2>1. PICK p, r : p = Pass(m) /\ r = [p EXCEPT !.admitted = TRUE]
      OBVIOUS
    <2>2. Become(m, r)
      BY <1>4, <2>1, Zenon
    <2>3. DOMAIN p = Fields
      BY <2>1, PassDrop
    <2>4. /\ r.admitted /\ r.now = p.now /\ r.stage = p.stage /\ (r.counting <=> p.counting)
          /\ r.link = p.link /\ r.replies = p.replies
      BY <2>1, <2>3 DEF Fields
    <2>5. /\ r.now = door[m].now /\ r.stage = door[m].stage + 1 /\ ~r.counting
          /\ r.link = 1 /\ r.replies = door[m].replies
      BY <2>1, <2>4, PassDrop, PassDropAnswers
    <2>6. ASSUME Answered(m, door[m], Excused(m)) PROVE Answered(m, r, Excused(m))
      <3>1. r.replies = 0 /\ r.stage \in {4, 5}
        BY <1>1, <2>5, <2>6 DEF Answered
      <3>2. 1 \in 1..(Len(Links(m)) + 1) /\ 0 = 1 - 1
        BY <1>2
      <3> QED
        BY <2>5, <3>1, <3>2 DEF Answered, Over
    <2> QED
      BY <1>3, <2>2, <2>4, <2>5, <2>6
  <1>5. CASE ~door[m].under /\ Become(m, Drop(m, IF ToldWhenRefused(m) THEN 1 ELSE 0))
    <2>1. PICK n : n = IF ToldWhenRefused(m) THEN 1 ELSE 0
      OBVIOUS
    <2>2. PICK r : r = Drop(m, n)
      OBVIOUS
    <2>3. Become(m, r)
      BY <1>5, <2>1, <2>2, Zenon
    <2>4. /\ r.now = door[m].now /\ r.stage = 9 /\ r.admitted = door[m].admitted
          /\ r.link = door[m].link /\ r.replies = door[m].replies + n
      BY <2>2, PassDrop, PassDropAnswers DEF Over
    <2>5. ASSUME Asks(m), Answered(m, door[m], Excused(m)) PROVE Answered(m, r, Excused(m))
      <3>1. r.link = 1 /\ door[m].replies = 0
        BY <1>1, <2>4, <2>5 DEF Answered
      <3>2. CASE door[m].stage = 3
        <4>1. n = 1
          BY <2>1, <2>5, <3>2, StageIs DEF ToldWhenRefused, Asks
        <4> QED
          BY <2>4, <3>1, <4>1 DEF Answered
      <3>3. CASE door[m].stage = 4
        <4>1. n = 0
          BY <2>1, <2>5, <3>3, StageIs DEF ToldWhenRefused, Asks
        <4>2. Excused(m)
          BY <1>1, <1>5, <2>5, <3>3 DEF Answered
        <4> QED
          BY <2>4, <3>1, <4>1, <4>2 DEF Answered
      <3> QED
        BY <1>1, <3>2, <3>3
    <2> QED
      BY <1>3, <2>3, <2>4, <2>5
  <1> QED
    BY <1>4, <1>5 DEF allowRateLimit

\* What the invariant says of the answers.
LEMMA AnsweredShows == ASSUME AnsweredInv, DoorInv PROVE PrivateIsAnswered
  BY DEF AnsweredInv, Asks, Answered, Excused, Crowded, PrivateIsAnswered

-----------------------------------------------------------------------------
\* At the start no handler has begun, and there are no marks and no hits.
LEMMA AdmissionStart ==
  ASSUME AdmissionInit
  PROVE  AdmissionInv
  <1>1. DOMAIN door = Msgs /\ (\A m \in Msgs : door[m] = Fresh) /\ clock = 0
    BY DEF AdmissionInit
  <1>2. /\ Fresh.stage = 0 /\ ~Fresh.counting /\ Fresh.now = 0 /\ Fresh.at = 0 /\ ~Fresh.admitted
        /\ Fresh.served = {} /\ Fresh.tried = {} /\ Fresh.before = {}
    BY DEF Fresh
  <1>3. DoorOK(Fresh)
    BY <1>2, FreshFields DEF DoorOK
  <1>4. DoorInv
    BY <1>1, <1>3 DEF DoorInv
  <1>5. DOMAIN marks = {} /\ DOMAIN hits = {}
    BY DEF AdmissionInit
  <1>6. TriedInv /\ TriedApart
    BY <1>1, <1>2, <1>5 DEF TriedInv, TriedApart
  <1>7. HitsInv
    BY <1>5 DEF HitsInv
  <1>8. RateInv
    BY <1>1, <1>2 DEF RateInv
  <1>9. ChanceInv
    BY <1>1, <1>2 DEF ChanceInv
  <1>10. scenario \in Scenarios /\ Fresh.link = 1 /\ Fresh.replies = 0
    BY DEF AdmissionInit, Fresh
  <1>11. AnsweredInv /\ ChatHitsInv
    BY <1>1, <1>2, <1>5, <1>10 DEF AnsweredInv, Answered, ChatHitsInv, Over
  <1> QED
    BY <1>4, <1>6, <1>7, <1>8, <1>9, <1>11 DEF AdmissionInv

\* Steps that leave every handler where it is: the clock's and the panel's.
LEMMA AdmissionStays ==
  ASSUME AdmissionInv, UNCHANGED <<door, hits, marks, scenario>>, clock' \in Nat, clock' >= clock,
         \A n \in Msgs : door[n].stage # 0 => chances[n] \subseteq chances'[n]
  PROVE  AdmissionInv'
  <1>1. Msgs' = Msgs /\ (\A n : Msg(n)' = Msg(n)) /\ clock \in Nat
    BY DEF AdmissionInv, DoorInv, Msgs, Msg
  <1>2. DoorInv'
    BY <1>1 DEF AdmissionInv, DoorInv
  <1>3. \A k \in DOMAIN marks' : marks'[k] \in Nat /\ marks'[k] <= clock'
    BY <1>1 DEF AdmissionInv, TriedInv
  <1>4. TriedInv' /\ TriedApart'
    BY <1>1, <1>3 DEF AdmissionInv, TriedInv, TriedApart
  <1>5. HitsInv'
    BY <1>1 DEF AdmissionInv, HitsInv
  <1>6. RateInv'
    BY <1>1 DEF AdmissionInv, RateInv, InWindow
  <1>7. ASSUME NEW n \in Msgs
        PROVE  /\ door'[n].stage \in 1..5 \/ door'[n].served # {} => MayBeIn(n)'
               /\ \A l \in door'[n].served :
                     door'[n].failed \/ (Switched(LinkPlatform[l]) => SwitchOf[LinkPlatform[l]] \in chances'[n])
    <2>1. door'[n] = door[n] /\ DoorInv /\ ChanceInv
      BY DEF AdmissionInv
    <2> QED
      BY <2>1, ChanceKept
  <1>8. ChanceInv'
    BY <1>1, <1>7 DEF ChanceInv
  <1>9. \A n : /\ Private(n)' = Private(n) /\ Links(n)' = Links(n) /\ Asks(n)' = Asks(n)
              /\ ChatId(n)' = ChatId(n) /\ Crowded(n)' = Crowded(n)
    BY <1>1 DEF Private, Links, Asks, Worded, ChatId, Crowded, Crowd
  <1>10. ChatHitsInv'
    BY <1>1, <1>9 DEF AdmissionInv, ChatHitsInv, InChatSet
  <1>11. \A n \in Msgs : door[n].now \in Nat /\ door[n].now <= clock
    BY DEF AdmissionInv, DoorInv, DoorOK, AnsweredInv
  <1>12. \A n \in Msgs : door'[n].now <= clock'
    BY <1>1, <1>11
  <1>13. ASSUME NEW n \in Msgs, Asks(n)' PROVE Answered(n, door[n], Excused(n))'
    <2>1. Excused(n) => Excused(n)'
      BY <1>1, <1>9 DEF Excused, Overlooked
    <2>2. Answered(n, door[n], Excused(n))
      BY <1>9, <1>13 DEF AdmissionInv, AnsweredInv
    <2> QED
      BY <1>1, <1>9, <2>1, <2>2 DEF Answered
  <1>14. AnsweredInv'
    BY <1>1, <1>12, <1>13 DEF AdmissionInv, AnsweredInv
  <1> QED
    BY <1>2, <1>4, <1>5, <1>6, <1>8, <1>10, <1>14 DEF AdmissionInv

\* Every step at the door and of the admin meanwhile keeps the invariant.
LEMMA AdmissionStep ==
  ASSUME AdmissionInv, AdmissionNext
  PROVE  AdmissionInv'
  <1>1. /\ DoorInv /\ TriedInv /\ TriedApart /\ HitsInv /\ RateInv /\ ChanceInv
        /\ ChatHitsInv /\ AnsweredInv /\ Observe /\ UNCHANGED scenario
    BY DEF AdmissionInv, AdmissionNext
  <1>2. ASSUME NEW m \in Msgs, NEW r, Moves(m, r), UNCHANGED <<banned, stored>>,
               AnsweredInv', ChatHitsInv'
        PROVE  AdmissionInv'
    <2>1. DoorInv'
      BY <1>1, <1>2, DoorAfter
    <2>2. TriedInv' /\ TriedApart'
      BY <1>1, <1>2, TriedStep
    <2>3. HitsInv'
      BY <1>1, <1>2, HitsStep
    <2>4. RateInv'
      BY <1>1, <1>2, RateStep
    <2>5. ChanceInv'
      BY <1>1, <1>2, ChanceStep
    <2> QED
      BY <1>2, <2>1, <2>2, <2>3, <2>4, <2>5 DEF AdmissionInv
  <1>3. ASSUME UNCHANGED <<door, hits, marks>>, clock' \in Nat, clock' >= clock
        PROVE  AdmissionInv'
    <2>1. \A n \in Msgs : door[n].stage # 0 => chances[n] \subseteq chances'[n]
      BY <1>1, <1>3, ChancesGrow
    <2> QED
      BY <1>1, <1>3, <2>1, AdmissionStays
  <1>4. CASE DoorStep /\ UNCHANGED panelVars
    <2>1. UNCHANGED <<banned, stored, fsm>>
      BY <1>4 DEF panelVars
    <2>2. CASE Tick
      <3>1. clock \in Nat /\ clock' = clock + 1 /\ UNCHANGED <<door, hits, marks>>
        BY <1>1, <2>2 DEF Tick, DoorInv
      <3>2. clock' \in Nat /\ clock' >= clock
        BY <3>1
      <3> QED
        BY <1>3, <3>1, <3>2
    <2>3. ASSUME NEW m \in Msgs,
                 \/ Register(m) \/ checkBanned(m) \/ allowGroupLinks(m) \/ promptConsumes(m)
                 \/ rateCount(m) \/ allowRateLimit(m) \/ dispatchLink(m)
          PROVE  (\E r : Moves(m, r)) /\ AnsweredInv' /\ ChatHitsInv'
      <3>1. \E r : Moves(m, r)
        BY <1>1, <2>3, ArrivalMoves, LinksMove, CountMoves, AddMoves, DispatchMoves
      <3>2. StillOverlooked
        <4>1. PICK r : Moves(m, r)
          BY <3>1
        <4>2. r.stage # 0 /\ Become(m, r)
          BY <4>1 DEF Moves, Becomes
        <4>3. /\ door'[m] = r /\ (\A n \in Msgs \ {m} : door'[n] = door[n])
              /\ \A n : Msg(n)' = Msg(n)
          BY <1>1, <4>2, OthersStay
        <4>4. ASSUME NEW n \in Msgs, Overlooked(n) PROVE Overlooked(n)'
          <5>1. door'[n].stage # 0
            BY <4>2, <4>3, <4>4 DEF Overlooked
          <5>2. chances[n] \subseteq chances'[n]
            BY <1>1, <5>1, ChancesGrow
          <5> QED
            BY <4>3, <4>4, <5>1, <5>2 DEF Overlooked
        <4> QED
          BY <4>4 DEF StillOverlooked
      <3>3. AnsweredInv' /\ ChatHitsInv'
        BY <1>1, <2>1, <2>3, <3>2, ArrivalAnswers, LinksAnswer, CountAnswers, AddAnswers, DispatchAnswers
      <3> QED
        BY <3>1, <3>3
    <2> QED
      BY <1>2, <1>4, <2>1, <2>2, <2>3 DEF DoorStep
  <1>5. CASE AdminMeanwhile /\ UNCHANGED doorVars
    <2>1. UNCHANGED <<door, hits, marks>> /\ clock' = clock /\ clock \in Nat
      BY <1>1, <1>5 DEF doorVars, DoorInv
    <2>2. clock' \in Nat /\ clock' >= clock
      BY <2>1
    <2> QED
      BY <1>3, <2>1, <2>2
  <1> QED
    BY <1>4, <1>5 DEF AdmissionNext

\* Steps of other parts leave the door and the chances as they are.
LEMMA AdmissionSame ==
  ASSUME AdmissionInv, UNCHANGED <<doorVars, scenario, chances>>
  PROVE  AdmissionInv'
  <1>1. UNCHANGED <<door, hits, marks, scenario>> /\ clock' = clock /\ chances' = chances /\ clock \in Nat
    BY DEF doorVars, AdmissionInv, DoorInv
  <1>2. clock' \in Nat /\ clock' >= clock
    BY <1>1
  <1> QED
    BY <1>1, <1>2, AdmissionStays

-----------------------------------------------------------------------------
\* What the invariant says of the properties.
LEMMA AdmissionKeeps ==
  ASSUME AdmissionInv
  PROVE  DedupOnce /\ RateBound /\ PrivateIsAnswered /\ RefusalsHold
  <1>1. DedupOnce
    BY DEF AdmissionInv, TriedApart, DedupOnce
  <1>2. ASSUME NEW m \in Msgs, door[m].admitted
        PROVE  Cardinality({n \in door[m].before :
                   n # m /\ door[n].admitted /\ door[m].at - door[n].at < RateWindow}) < UserLimit
    <2>1. PICK W : W = InWindow(m)
      OBVIOUS
    <2>2. PICK A : A = {n \in door[m].before :
                         n # m /\ door[n].admitted /\ door[m].at - door[n].at < RateWindow}
      OBVIOUS
    <2>3. IsFiniteSet(W) /\ Cardinality(W) < UserLimit /\ A \subseteq W
      BY <1>2, <2>1, <2>2 DEF AdmissionInv, RateInv, InWindow
    <2>4. IsFiniteSet(A) /\ Cardinality(A) <= Cardinality(W)
      BY <2>3, FS_Subset
    <2>5. Cardinality(A) \in Nat /\ Cardinality(W) \in Nat
      BY <2>3, <2>4, FS_CardinalityType
    <2>6. Cardinality(A) < UserLimit
      BY <2>3, <2>4, <2>5, AdmissionAssumption
    <2> QED
      BY <2>2, <2>6
  <1>3. RateBound
    BY <1>2 DEF RateBound
  <1>4. RefusalsHold
    BY DEF AdmissionInv, ChanceInv, MayBeIn, RefusalsHold
  <1>5. PrivateIsAnswered
    BY AnsweredShows DEF AdmissionInv
  <1> QED
    BY <1>1, <1>3, <1>4, <1>5

-----------------------------------------------------------------------------
(* The settings.  Whatever is stored is a text that serialise made of a value *)
(* Validate let through, and reads as a value of its setting.                 *)
Reads(def, raw) ==
    /\ def.type = "enum" => raw \in def.allowed
    /\ def.type = "int" => InBounds(def, Atoi(raw))
    /\ def.type = "list" => raw = "" \/ (splitList(raw) # <<>> /\ SplitsWithin(raw, def.allowed))

\* The handlers under way: a toggle of a switch, a reset of settings, an answer
\* to the prompt its handler has read.
Toggles(h) == \E k \in Keys, c \in BOOLEAN : Registry[k].type = "bool" /\ h = [op |-> "toggle", key |-> k, cur |-> c]
Resets(h) == \E T \in SUBSET Keys : h = [op |-> "reset", todo |-> T]
TakesText(h) == \E b \in PanelBots, t \in Texts, p \in Prompts :
                  h = [op |-> "text", bot |-> b, text |-> t, state |-> p]
Handler(h) == h = IdleSlot \/ Toggles(h) \/ Resets(h) \/ TakesText(h)

HashInv == DOMAIN stored \subseteq Keys /\ \A k \in DOMAIN stored : Reads(Registry[k], stored[k])
HandlersInv == DOMAIN running = Slots /\ \A s \in Slots : Handler(running[s])
PromptsInv == banned \subseteq KnownUsers \cup {Admin} /\ fsm \in [PanelBots -> Prompts]

PanelInv == HashInv /\ HandlersInv /\ PromptsInv /\ moves \in 0..MaxMoves

\* The text of a number reads as that number again (strconv.Itoa, strconv.Atoi).
LEMMA NumberReads ==
  ASSUME NEW raw, IsInt(raw)
  PROVE  Atoi(Itoa(Atoi(raw))) = Atoi(raw)
  <1>1. raw \in DOMAIN AtoiTable /\ Atoi(raw) = AtoiTable[raw]
    BY DEF IsInt, Atoi
  <1>2. PICK n : n = Atoi(raw)
    OBVIOUS
  <1>3. Itoa(n) \in DOMAIN AtoiTable /\ AtoiTable[Itoa(n)] = n
    BY <1>1, <1>2 DEF Itoa
  <1> QED
    BY <1>2, <1>3 DEF Atoi, IsInt

\* The joined parts of a list split into the same parts, or give no text.
LEMMA ListReads ==
  ASSUME NEW raw, raw # ""
  PROVE  \/ joinList(splitList(raw)) = ""
         \/ /\ splitList(joinList(splitList(raw))) = splitList(raw)
            /\ splitList(raw) # <<>>
  <1>1. CASE raw = ","
    BY <1>1 DEF splitList, joinList
  <1>2. CASE raw \in {"hd,sd", "hd,,sd"}
    <2>1. splitList(raw) = <<"hd", "sd">>
      BY <1>2 DEF splitList
    <2>2. joinList(<<"hd", "sd">>) = "hd,sd"
      BY DEF joinList
    <2>3. splitList("hd,sd") = <<"hd", "sd">>
      BY DEF splitList
    <2>4. <<"hd", "sd">> # <<>>
      OBVIOUS
    <2> QED
      BY <2>1, <2>2, <2>3, <2>4
  <1>3. CASE raw = "hd,uhd"
    <2>1. splitList(raw) = <<"hd", "uhd">>
      BY <1>3 DEF splitList
    <2>2. joinList(<<"hd", "uhd">>) = raw
      BY <1>3 DEF joinList
    <2>3. <<"hd", "uhd">> # <<>>
      OBVIOUS
    <2> QED
      BY <2>1, <2>2, <2>3
  <1>4. CASE raw \notin {"", ",", "hd,sd", "hd,,sd", "hd,uhd"}
    <2>1. splitList(raw) = <<raw>>
      BY <1>4 DEF splitList
    <2>2. joinList(<<raw>>) = raw
      BY DEF joinList
    <2>3. <<raw>> # <<>>
      OBVIOUS
    <2> QED
      BY <2>1, <2>2, <2>3
  <1> QED
    BY <1>1, <1>2, <1>3, <1>4

\* What is stored of a text that Validate lets through reads as a value of its
\* setting (adminSaveEdit, adminSetEnum).
LEMMA SavedReads ==
  ASSUME NEW k \in Keys, NEW raw, Validate(Registry[k], raw)
  PROVE  Reads(Registry[k], serialise(Parse(Registry[k], raw), Registry[k]))
  <1>1. PICK def : def = Registry[k]
    OBVIOUS
  <1>2. def.type \in {"bool", "int", "enum", "list"} /\ Validate(def, raw)
    BY <1>1, RegistryAssumption
  <1>3. CASE def.type = "bool"
    BY <1>1, <1>3 DEF Reads
  <1>4. CASE def.type = "enum"
    <2>1. Parse(def, raw) = Word(raw) /\ raw \in def.allowed
      BY <1>2, <1>4 DEF Parse, Validate
    <2>2. serialise(Word(raw), def) = raw
      BY <1>4 DEF serialise, Word
    <2> QED
      BY <1>1, <1>4, <2>1, <2>2 DEF Reads
  <1>5. CASE def.type = "int"
    <2>1. Parse(def, raw) = Number(Atoi(raw)) /\ IsInt(raw) /\ InBounds(def, Atoi(raw))
      BY <1>2, <1>5 DEF Parse, Validate
    <2>2. PICK n : n = Atoi(raw)
      OBVIOUS
    <2>3. serialise(Number(n), def) = Itoa(n)
      BY <1>5 DEF serialise, Number
    <2>4. Atoi(Itoa(n)) = n
      BY <2>1, <2>2, NumberReads
    <2>5. serialise(Parse(def, raw), def) = Itoa(n) /\ InBounds(def, Atoi(Itoa(n)))
      BY <2>1, <2>2, <2>3, <2>4
    <2> QED
      BY <1>1, <1>5, <2>5 DEF Reads
  <1>6. CASE def.type = "list"
    <2>1. Parse(def, raw) = Word(joinList(splitList(raw))) /\ SplitsWithin(raw, def.allowed) /\ raw # ""
      BY <1>2, <1>6 DEF Parse, Validate
    <2>2. PICK t : t = joinList(splitList(raw))
      OBVIOUS
    <2>3. serialise(Word(t), def) = t
      BY <1>6 DEF serialise, Word
    <2>4. t = "" \/ (splitList(t) = splitList(raw) /\ splitList(raw) # <<>>)
      BY <2>1, <2>2, ListReads
    <2>5. t = "" \/ (splitList(t) # <<>> /\ SplitsWithin(t, def.allowed))
      BY <2>1, <2>4 DEF SplitsWithin
    <2>6. serialise(Parse(def, raw), def) = t
      BY <2>1, <2>2, <2>3
    <2> QED
      BY <1>1, <1>6, <2>5, <2>6 DEF Reads
  <1> QED
    BY <1>2, <1>3, <1>4, <1>5, <1>6

\* A hash whose texts read as values of their settings is usable.
LEMMA ReadsUsable ==
  ASSUME HashInv
  PROVE  SettingsUsable
  <1> SUFFICES ASSUME NEW k \in DOMAIN stored
               PROVE  LET def == Registry[k]
                      IN CASE def.type = "bool" -> CurrentBool(k, TRUE, FALSE) = CurrentBool(k, FALSE, FALSE)
                           [] def.type = "enum" -> CurrentString(k, "fallback", FALSE) \in def.allowed
                           [] def.type = "int" -> LET n == CurrentInt(k, 0, FALSE)
                                                  IN /\ n = CurrentInt(k, 1, FALSE)
                                                     /\ def.min > 0 => n >= def.min
                                                     /\ def.max > 0 => n =< def.max
                           [] OTHER -> LET got == CurrentStringList(k, <<"fallback">>, FALSE)
                                       IN /\ got # <<>>
                                          /\ got = <<"fallback">> \/ \A i \in DOMAIN got : got[i] \in def.allowed
    BY DEF SettingsUsable
  <1>1. PICK def, raw : def = Registry[k] /\ raw = stored[k]
    OBVIOUS
  <1>2. k \in Keys /\ def.type \in {"bool", "int", "enum", "list"} /\ Reads(def, raw)
        /\ CurrentValue(k, FALSE) = deserialise(raw, def)
        /\ (def.type = "enum" => "" \notin def.allowed)
    BY <1>1, RegistryAssumption DEF HashInv, CurrentValue, valueIn
  <1>3. PICK v : v = CurrentValue(k, FALSE)
    OBVIOUS
  <1>4. v = deserialise(raw, def)
    BY <1>2, <1>3
  <1>5. CASE def.type = "bool"
    <2>1. \E b : v = <<"bool", b>>
      BY <1>4, <1>5 DEF deserialise, Flag
    <2>2. v[1] = "bool"
      BY <2>1
    <2>3. CurrentBool(k, TRUE, FALSE) = v[2] /\ CurrentBool(k, FALSE, FALSE) = v[2]
      BY <1>2, <1>3, <2>2, Zenon DEF CurrentBool
    <2> QED
      BY <1>1, <1>5, <2>3
  <1>6. CASE def.type = "enum"
    <2>1. v = <<"string", raw>> /\ raw \in def.allowed /\ raw # ""
      BY <1>2, <1>4, <1>6 DEF deserialise, Word, Reads
    <2>2. IsText(v) /\ v[2] = raw
      BY <2>1 DEF IsText, Word
    <2>3. CurrentString(k, "fallback", FALSE) = raw
      BY <1>2, <1>3, <2>2, Zenon DEF CurrentString
    <2> QED
      BY <1>1, <1>6, <2>1, <2>3
  <1>7. CASE def.type = "int"
    <2>1. v = <<"int", Atoi(raw)>> /\ InBounds(def, Atoi(raw))
      BY <1>2, <1>4, <1>7 DEF deserialise, Number, Reads
    <2>2. v[1] = "int" /\ v[2] = Atoi(raw)
      BY <2>1
    <2>3. CurrentInt(k, 0, FALSE) = Atoi(raw) /\ CurrentInt(k, 1, FALSE) = Atoi(raw)
      BY <1>2, <1>3, <2>2, Zenon DEF CurrentInt
    <2> QED
      BY <1>1, <1>7, <2>1, <2>3 DEF InBounds
  <1>8. CASE def.type = "list"
    <2>1. v = <<"string", raw>>
      BY <1>4, <1>8 DEF deserialise, Word
    <2>2. v[2] = raw /\ (IsText(v) <=> raw # "")
      BY <2>1 DEF IsText, Word
    <2>3. PICK got : got = CurrentStringList(k, <<"fallback">>, FALSE)
      OBVIOUS
    <2>4. (got = splitList(raw) /\ raw # "") \/ got = <<"fallback">>
      BY <1>2, <1>3, <2>2, <2>3, Zenon DEF CurrentStringList
    <2>5. raw # "" => splitList(raw) # <<>> /\ \A i \in DOMAIN splitList(raw) : splitList(raw)[i] \in def.allowed
      BY <1>2, <1>8 DEF Reads, SplitsWithin
    <2>6. <<"fallback">> # <<>>
      OBVIOUS
    <2>7. got # <<>> /\ (got = <<"fallback">> \/ \A i \in DOMAIN got : got[i] \in def.allowed)
      BY <2>4, <2>5, <2>6
    <2> QED
      BY <1>1, <1>8, <2>3, <2>7
  <1> QED
    BY <1>2, <1>5, <1>6, <1>7, <1>8

\* A write of a text that reads as a value of its setting.
LEMMA HashWrite ==
  ASSUME HashInv, NEW k \in Keys, NEW value,
         SetValue(k, value), Reads(Registry[k], serialise(value, Registry[k]))
  PROVE  HashInv'
  <1>1. PICK raw : raw = serialise(value, Registry[k])
    OBVIOUS
  <1>2. Reads(Registry[k], raw)
    BY <1>1
  <1>3. stored' = [j \in DOMAIN stored \cup {k} |-> IF j = k THEN raw ELSE stored[j]]
    BY <1>1 DEF SetValue, PutKey
  <1>4. \A j \in DOMAIN stored' : Reads(Registry[j], stored'[j])
    BY <1>2, <1>3 DEF HashInv
  <1> QED
    BY <1>3, <1>4 DEF HashInv

\* Fields taken out of the hash, or none.
LEMMA HashDrops ==
  ASSUME HashInv, UNCHANGED stored \/ ResetAll \/ \E k : Reset(k)
  PROVE  HashInv'
  <1>1. CASE UNCHANGED stored
    BY <1>1 DEF HashInv
  <1>2. CASE ResetAll
    BY <1>2 DEF HashInv, ResetAll
  <1>3. CASE \E k : Reset(k)
    BY <1>3 DEF HashInv, Reset
  <1> QED
    BY <1>1, <1>2, <1>3

\* A handler begins in an idle slot.
LEMMA HandlerBegins ==
  ASSUME HandlersInv, NEW h, Handler(h), Begin(h)
  PROVE  HandlersInv'
  BY DEF HandlersInv, Begin

\* A handler ends.
LEMMA HandlerEnds ==
  ASSUME HandlersInv, NEW s \in Slots, End(s)
  PROVE  HandlersInv'
  <1>1. Handler(IdleSlot)
    BY DEF Handler
  <1>2. PICK h : h = IdleSlot
    OBVIOUS
  <1>3. running' = [running EXCEPT ![s] = h] /\ Handler(h)
    BY <1>1, <1>2 DEF End
  <1> QED
    BY <1>3 DEF HandlersInv

\* The slots as they were.
LEMMA HandlersSame == HandlersInv /\ UNCHANGED running => HandlersInv'
  BY DEF HandlersInv

\* The prompt of a bot is cleared, or set to one of the prompts.
LEMMA PromptChanges ==
  ASSUME PromptsInv, NEW b \in PanelBots, banned' \subseteq KnownUsers \cup {Admin},
         \/ UNCHANGED fsm
         \/ Clear(b)
         \/ \E k \in Keys : Set(b, "admin_edit", k)
         \/ Set(b, "admin_ban", "none")
         \/ Set(b, "broadcast_text", "none")
  PROVE  PromptsInv'
  <1>1. CASE UNCHANGED fsm
    BY <1>1 DEF PromptsInv
  <1>2. ASSUME NEW p \in Prompts, fsm' = [fsm EXCEPT ![b] = p]
        PROVE  PromptsInv'
    BY <1>2 DEF PromptsInv
  <1>3. CASE Clear(b)
    <2>1. NoPrompt \in Prompts
      BY DEF Prompts
    <2> QED
      BY <1>2, <1>3, <2>1 DEF Clear
  <1>4. ASSUME NEW k \in Keys, Set(b, "admin_edit", k) PROVE PromptsInv'
    <2>1. [kind |-> "admin_edit", key |-> k] \in Prompts
      BY DEF Prompts
    <2> QED
      BY <1>2, <1>4, <2>1 DEF Set
  <1>5. ASSUME NEW d \in {"admin_ban", "broadcast_text"}, Set(b, d, "none") PROVE PromptsInv'
    <2>1. [kind |-> d, key |-> "none"] \in Prompts
      BY DEF Prompts
    <2> QED
      BY <1>2, <1>5, <2>1 DEF Set
  <1> QED
    BY <1>1, <1>3, <1>4, <1>5

\* Only a switch has a button that toggles it (serviceKeyboard).
LEMMA OnlySwitchesToggle ==
  ASSUME NEW p \in Buttons, p[1] = "edit_bool"
  PROVE  p[2] \in Keys /\ Registry[p[2]].type = "bool"
  <1>1. p \notin adminMainKeyboard
    BY DEF adminMainKeyboard
  <1>2. p \notin bansKeyboard(KnownUsers)
    BY DEF bansKeyboard
  <1>3. p \notin confirmKeyboard
    BY DEF confirmKeyboard
  <1>4. PICK s \in ServiceNames : p \in serviceKeyboard(s)
    BY <1>1, <1>2, <1>3 DEF Buttons
  <1>5. p \notin {<<"edit", k>> : k \in {j \in ServiceSettings(s) : Registry[j].type \in {"int", "list"}}}
    OBVIOUS
  <1>6. p \notin {<<"confirm", "reset_svc", s>>, <<"menu">>}
    OBVIOUS
  <1>7. p \notin UNION {{<<"set_enum", k, v>> : v \in Registry[k].allowed} :
                           k \in {j \in ServiceSettings(s) : Registry[j].type = "enum"}}
    OBVIOUS
  <1>8. p \in {<<"edit_bool", k>> : k \in {j \in ServiceSettings(s) : Registry[j].type = "bool"}}
    BY <1>4, <1>5, <1>6, <1>7 DEF serviceKeyboard
  <1>9. PICK k \in {j \in ServiceSettings(s) : Registry[j].type = "bool"} : p = <<"edit_bool", k>>
    BY <1>8
  <1> QED
    BY <1>9 DEF ServiceSettings

\* A handler's record by what it does.
LEMMA HandlerKinds ==
  ASSUME NEW h, Handler(h)
  PROVE  /\ h.op = "toggle" => h.key \in Keys /\ Registry[h.key].type = "bool"
         /\ h.op = "reset" => h = [op |-> "reset", todo |-> h.todo] /\ h.todo \subseteq Keys
         /\ h.op = "text" => h.bot \in PanelBots /\ h.text \in Texts /\ h.state \in Prompts
  <1>1. CASE h = IdleSlot
    BY <1>1 DEF IdleSlot
  <1>2. CASE Toggles(h)
    BY <1>2 DEF Toggles
  <1>3. CASE Resets(h)
    BY <1>3 DEF Resets
  <1>4. CASE TakesText(h)
    BY <1>4 DEF TakesText
  <1> QED
    BY <1>1, <1>2, <1>3, <1>4 DEF Handler

\* The panel's variables but the count of updates.
Panel == HashInv /\ HandlersInv /\ PromptsInv

\* A step that leaves a variable of the panel alone keeps what is said of it.
LEMMA PanelFrame ==
  /\ HashInv /\ UNCHANGED stored => HashInv'
  /\ PromptsInv /\ UNCHANGED <<banned, fsm>> => PromptsInv'
  BY DEF HashInv, PromptsInv

\* The toggle of a switch reads it.
LEMMA ToggleKeeps ==
  ASSUME Panel, NEW k, Registry[k].type = "bool", NEW f, adminToggleBool(k, f)
  PROVE  Panel'
  <1>1. PICK c \in BOOLEAN : Begin([op |-> "toggle", key |-> k, cur |-> c])
    BY Zenon DEF adminToggleBool
  <1>2. k \in Keys /\ UNCHANGED <<stored, banned, fsm>>
    BY DEF adminToggleBool
  <1>3. PICK h : h = [op |-> "toggle", key |-> k, cur |-> c]
    OBVIOUS
  <1>4. Handler(h)
    BY <1>2, <1>3 DEF Handler, Toggles
  <1>5. HandlersInv'
    BY <1>1, <1>3, <1>4, HandlerBegins DEF Panel
  <1> QED
    BY <1>2, <1>5, PanelFrame DEF Panel

\* It is written back to a switch.
LEMMA ToggledKeeps ==
  ASSUME Panel, NEW s \in Slots, NEW f \in BOOLEAN, toggleWrite(s, f)
  PROVE  Panel'
  <1>1. /\ running[s].key \in Keys /\ Registry[running[s].key].type = "bool"
        /\ End(s) /\ UNCHANGED <<banned, fsm>>
    BY HandlerKinds DEF toggleWrite, Panel, HandlersInv
  <1>2. UNCHANGED stored \/ SetValue(running[s].key, Flag(~running[s].cur))
    BY DEF toggleWrite
  <1>3. HashInv'
    <2>1. ASSUME NEW raw PROVE Reads(Registry[running[s].key], raw)
      BY <1>1 DEF Reads
    <2>2. CASE UNCHANGED stored
      BY <2>2, PanelFrame DEF Panel
    <2>3. ASSUME NEW v, SetValue(running[s].key, v) PROVE HashInv'
      BY <1>1, <2>1, <2>3, HashWrite DEF Panel
    <2> QED
      BY <1>2, <2>2, <2>3
  <1>4. HandlersInv'
    BY <1>1, HandlerEnds DEF Panel
  <1> QED
    BY <1>1, <1>3, <1>4, PanelFrame DEF Panel

\* A reset of a service's settings goes on.
LEMMA ResetKeeps ==
  ASSUME Panel, NEW s \in Slots, NEW f \in BOOLEAN, resetNext(s, f)
  PROVE  Panel'
  <1>1. PICK h : h = running[s]
    OBVIOUS
  <1>2. h = [op |-> "reset", todo |-> h.todo] /\ h.todo \subseteq Keys /\ UNCHANGED <<banned, fsm>>
    BY <1>1, HandlerKinds DEF resetNext, Panel, HandlersInv
  <1>3. CASE End(s) /\ UNCHANGED stored
    BY <1>2, <1>3, HandlerEnds, PanelFrame DEF Panel
  <1>4. CASE /\ UNCHANGED stored \/ \E k : Reset(k)
             /\ \E k : running' = [running EXCEPT ![s].todo = @ \ {k}]
    <2>1. HashInv'
      BY <1>4, HashDrops DEF Panel
    <2>2. PICK k : running' = [running EXCEPT ![s].todo = @ \ {k}]
      BY <1>4
    <2>3. PICK g : g = [op |-> "reset", todo |-> h.todo \ {k}]
      OBVIOUS
    <2>4. running'[s] = g /\ DOMAIN running' = DOMAIN running
          /\ \A t \in Slots \ {s} : running'[t] = running[t]
      BY <1>1, <1>2, <2>2, <2>3 DEF Panel, HandlersInv
    <2>5. Handler(g)
      BY <1>2, <2>3 DEF Handler, Resets
    <2>6. HandlersInv'
      BY <2>4, <2>5 DEF Panel, HandlersInv
    <2> QED
      BY <1>2, <2>1, <2>6, PanelFrame DEF Panel
  <1> QED
    BY <1>3, <1>4 DEF resetNext

\* An answer to a prompt for a value, for a user or for a broadcast's text.
LEMMA EditKeeps ==
  ASSUME Panel, NEW s \in Slots, NEW f \in BOOLEAN, adminSaveEdit(s, f)
  PROVE  Panel'
  <1>1. PICK h : h = running[s]
    OBVIOUS
  <1>2. /\ h.op = "text" /\ h.state.kind = "admin_edit" /\ End(s) /\ UNCHANGED banned
        /\ \/ UNCHANGED <<stored, fsm>>
           \/ /\ Validate(Registry[h.state.key], h.text) /\ Clear(h.bot)
              /\ UNCHANGED stored \/ SetValue(h.state.key, Parse(Registry[h.state.key], h.text))
    BY <1>1 DEF adminSaveEdit
  <1>3. h.bot \in PanelBots /\ h.state \in Prompts
    BY <1>1, <1>2, HandlerKinds DEF Panel, HandlersInv
  <1>4. h.state.key \in Keys
    BY <1>2, <1>3 DEF Prompts, NoPrompt
  <1>5. HandlersInv'
    BY <1>2, HandlerEnds DEF Panel
  <1>6. HashInv'
    <2>1. CASE UNCHANGED stored
      BY <2>1, PanelFrame DEF Panel
    <2>2. CASE Validate(Registry[h.state.key], h.text) /\ SetValue(h.state.key, Parse(Registry[h.state.key], h.text))
      <3>1. PICK k \in Keys : k = h.state.key
        BY <1>4
      <3>2. PICK raw : raw = h.text
        OBVIOUS
      <3>3. Validate(Registry[k], raw) /\ SetValue(k, Parse(Registry[k], raw))
        BY <2>2, <3>1, <3>2
      <3>4. PICK v : v = Parse(Registry[k], raw)
        OBVIOUS
      <3>5. SetValue(k, v) /\ Reads(Registry[k], serialise(v, Registry[k]))
        BY <3>3, <3>4, SavedReads
      <3> QED
        BY <3>5, HashWrite DEF Panel
    <2> QED
      BY <1>2, <2>1, <2>2
  <1>7. PromptsInv'
    BY <1>2, <1>3, PromptChanges DEF Panel, PromptsInv
  <1> QED
    BY <1>5, <1>6, <1>7 DEF Panel

LEMMA BanKeeps ==
  ASSUME Panel, NEW s \in Slots, NEW f \in BOOLEAN, adminSaveBan(s, f)
  PROVE  Panel'
  <1>1. PICK h : h = running[s]
    OBVIOUS
  <1>2. /\ h.op = "text" /\ End(s) /\ UNCHANGED stored
        /\ \/ UNCHANGED <<banned, fsm>>
           \/ /\ IsInt(h.text) /\ Atoi(h.text) > 0 /\ Clear(h.bot)
              /\ banned' = banned \/ banned' = banned \cup {Atoi(h.text)}
    BY <1>1 DEF adminSaveBan, MayBan
  <1>3. h.bot \in PanelBots /\ h.text \in Texts
    BY <1>1, <1>2, HandlerKinds DEF Panel, HandlersInv
  <1>4. banned' \subseteq KnownUsers \cup {Admin}
    BY <1>2, <1>3, AdminPanelAssumption DEF Panel, PromptsInv
  <1>5. PromptsInv'
    BY <1>2, <1>3, <1>4, PromptChanges DEF Panel
  <1> QED
    BY <1>2, <1>5, HandlerEnds, PanelFrame DEF Panel

LEMMA BroadcastTextKeeps ==
  ASSUME Panel, NEW s \in Slots, broadcastSaveText(s)
  PROVE  Panel'
  <1>1. running[s].bot \in PanelBots /\ Clear(running[s].bot) /\ End(s) /\ UNCHANGED <<stored, banned>>
    BY HandlerKinds DEF Panel, HandlersInv, broadcastSaveText
  <1>2. PromptsInv'
    BY <1>1, PromptChanges DEF Panel, PromptsInv
  <1> QED
    BY <1>1, <1>2, HandlerEnds, PanelFrame DEF Panel

\* A text of the admin is read with its prompt.
LEMMA TextKeeps ==
  ASSUME Panel, NEW b \in PanelBots, NEW t \in Texts, handleAdminFSM(b, t)
  PROVE  Panel'
  <1>1. PICK p \in Prompts : p = fsm[b]
    BY DEF Panel, PromptsInv
  <1>2. PICK h : h = [op |-> "text", bot |-> b, text |-> t, state |-> p]
    OBVIOUS
  <1>3. UNCHANGED <<stored, banned, fsm>> /\ (UNCHANGED running \/ Begin(h))
    BY <1>1, <1>2 DEF handleAdminFSM
  <1>4. Handler(h)
    BY <1>2 DEF Handler, TakesText
  <1> QED
    BY <1>3, <1>4, HandlerBegins, HandlersSame, PanelFrame DEF Panel

\* A button at work.
LEMMA CallbackKeeps ==
  ASSUME Panel, NEW b \in PanelBots, NEW p \in Buttons, NEW f \in BOOLEAN, onAdminCallback(b, p, f)
  PROVE  Panel'
  <1>1. CASE onAdmin(b)
    BY <1>1, PromptChanges, HandlersSame, PanelFrame DEF onAdmin, Panel, PromptsInv
  <1>2. CASE UNCHANGED slotVars
    BY <1>2, HandlersSame, PanelFrame DEF slotVars, Panel
  <1>3. CASE Set(b, "admin_ban", "none") /\ UNCHANGED <<stored, banned, running>>
    BY <1>3, PromptChanges, HandlersSame, PanelFrame DEF Panel, PromptsInv
  <1>4. CASE unban(p[2], f)
    <2>1. banned' \subseteq KnownUsers \cup {Admin} /\ UNCHANGED <<stored, fsm, running>>
      BY <1>4 DEF unban, Panel, PromptsInv
    <2> QED
      BY <2>1, PromptChanges, HandlersSame, PanelFrame DEF Panel
  <1>5. CASE adminStartEdit(b, p[2])
    BY <1>5, PromptChanges, HandlersSame, PanelFrame DEF adminStartEdit, Panel, PromptsInv
  <1>6. CASE p[1] = "edit_bool" /\ adminToggleBool(p[2], f)
    BY <1>6, OnlySwitchesToggle, ToggleKeeps
  <1>7. CASE adminSetEnum(p[2], p[3], f)
    <2>1. PICK k \in Keys : k = p[2]
      BY <1>7 DEF adminSetEnum
    <2>2. PICK raw : raw = p[3]
      OBVIOUS
    <2>3. /\ Registry[k].type = "enum" /\ Validate(Registry[k], raw)
          /\ UNCHANGED stored \/ SetValue(k, Word(raw))
          /\ UNCHANGED <<banned, fsm, running>>
      BY <1>7, <2>1, <2>2 DEF adminSetEnum
    <2>4. Parse(Registry[k], raw) = Word(raw)
      BY <2>3 DEF Parse
    <2>5. Reads(Registry[k], serialise(Word(raw), Registry[k]))
      BY <2>3, <2>4, SavedReads
    <2>6. PICK v : v = Word(raw)
      OBVIOUS
    <2>7. UNCHANGED stored \/ SetValue(k, v)
      BY <2>3, <2>6
    <2>8. Reads(Registry[k], serialise(v, Registry[k]))
      BY <2>5, <2>6
    <2>9. HashInv'
      BY <2>7, <2>8, HashWrite, PanelFrame DEF Panel
    <2> QED
      BY <2>3, <2>9, HandlersSame, PanelFrame DEF Panel
  <1>8. CASE adminConfirm(b, p, f)
    <2>1. CASE /\ UNCHANGED stored \/ ResetAll
               /\ Clear(b) /\ UNCHANGED <<banned, running>>
      BY <2>1, HashDrops, PromptChanges, HandlersSame DEF Panel, PromptsInv
    <2>2. CASE /\ Begin([op |-> "reset", todo |-> ServiceSettings(p[3])])
               /\ UNCHANGED <<stored, banned, fsm>>
      <3>1. PICK h : h = [op |-> "reset", todo |-> ServiceSettings(p[3])]
        OBVIOUS
      <3>2. ServiceSettings(p[3]) \in SUBSET Keys
        BY DEF ServiceSettings
      <3>3. Handler(h)
        BY <3>1, <3>2 DEF Handler, Resets
      <3> QED
        BY <2>2, <3>1, <3>3, HandlerBegins, PanelFrame DEF Panel
    <2> QED
      BY <1>2, <1>8, <2>1, <2>2 DEF adminConfirm
  <1> QED
    BY <1>1, <1>2, <1>3, <1>4, <1>5, <1>6, <1>7, <1>8 DEF onAdminCallback

\* An update of the admin, and a step of a handler.
LEMMA UpdateKeeps ==
  ASSUME Panel, AdminUpdate
  PROVE  Panel'
  <1>1. ASSUME NEW b \in PanelBots, onAdmin(b) \/ onBroadcastCreate(b) PROVE Panel'
    BY <1>1, PromptChanges, HandlersSame, PanelFrame DEF onAdmin, onBroadcastCreate, Panel, PromptsInv
  <1>2. ASSUME NEW b \in PanelBots, NEW f \in BOOLEAN, adminReset(b, f) PROVE Panel'
    BY <1>2, HashDrops, HandlersSame, PanelFrame DEF adminReset, Panel
  <1> QED
    BY <1>1, <1>2, TextKeeps, CallbackKeeps DEF AdminUpdate

LEMMA HandlerStepKeeps ==
  ASSUME Panel, AdminHandlerStep
  PROVE  Panel'
  BY ToggledKeeps, ResetKeeps, EditKeeps, BanKeeps, BroadcastTextKeeps DEF AdminHandlerStep

\* The panel starts without settings; its bans and its prompt are the scenario's.
LEMMA PanelStart ==
  ASSUME scenario \in Scenarios, AdminPanelInit(scenario.banned, scenario.prompt)
  PROVE  PanelInv
  <1>1. HashInv
    BY DEF AdminPanelInit, HashInv
  <1>2. PromptsInv /\ moves \in 0..MaxMoves
    BY AdmissionAssumption, AdminPanelAssumption DEF AdminPanelInit, PromptsInv
  <1>3. PICK h : h = IdleSlot
    OBVIOUS
  <1>4. Handler(h)
    BY <1>3 DEF Handler
  <1>5. running = [s \in Slots |-> h]
    BY <1>3 DEF AdminPanelInit
  <1>6. HandlersInv
    BY <1>4, <1>5 DEF HandlersInv
  <1> QED
    BY <1>1, <1>2, <1>6 DEF PanelInv

LEMMA PanelSame == PanelInv /\ UNCHANGED panelVars => PanelInv'
  BY HandlersSame, PanelFrame DEF PanelInv, panelVars

\* The admin alone at the panel.
LEMMA PanelStep ==
  ASSUME PanelInv, AdminPanelNext
  PROVE  PanelInv'
  <1>1. Panel /\ moves \in 0..MaxMoves
    BY DEF PanelInv, Panel
  <1>2. moves' \in 0..MaxMoves
    BY <1>1, AdminPanelAssumption DEF AdminPanelNext
  <1>3. Panel'
    BY <1>1, UpdateKeeps, HandlerStepKeeps DEF AdminPanelNext
  <1> QED
    BY <1>2, <1>3 DEF PanelInv, Panel

\* The admin at the panel while messages are handled, which leave it alone.
LEMMA MeanwhileStep ==
  ASSUME PanelInv, AdmissionNext
  PROVE  PanelInv'
  <1>1. CASE UNCHANGED panelVars
    BY <1>1, PanelSame
  <1>2. CASE AdminMeanwhile
    <2>1. Panel /\ moves \in 0..MaxMoves
      BY DEF PanelInv, Panel
    <2>2. moves' \in 0..MaxMoves
      <3>1. moves' = moves \/ (moves < MaxMoves /\ moves' = moves + 1)
        BY <1>2, Zenon DEF AdminMeanwhile
      <3> QED
        BY <2>1, <3>1, AdminPanelAssumption
    <2>3. ASSUME NEW p \in DOMAIN SwitchOf, adminToggleBool(SwitchOf[p], FALSE) PROVE Panel'
      BY <2>1, <2>3, AdmissionAssumption, ToggleKeeps
    <2>4. ASSUME NEW u, unban(u, FALSE) PROVE Panel'
      <3>1. banned' \subseteq KnownUsers \cup {Admin} /\ UNCHANGED <<stored, fsm, running>>
        BY <2>1, <2>4 DEF unban, Panel, PromptsInv
      <3> QED
        BY <2>1, <3>1, AdminPanelAssumption, PromptChanges, HandlersSame, PanelFrame DEF Panel
    <2>5. ASSUME NEW t \in Texts, handleAdminFSM("main", t) PROVE Panel'
      BY <2>1, <2>5, AdminPanelAssumption, TextKeeps
    <2>6. ASSUME NEW s \in Slots, toggleWrite(s, FALSE) \/ adminSaveBan(s, FALSE) PROVE Panel'
      BY <2>1, <2>6, ToggledKeeps, BanKeeps
    <2>7. Panel'
      BY <1>2, <2>3, <2>4, <2>5, <2>6 DEF AdminMeanwhile
    <2> QED
      BY <2>2, <2>7 DEF PanelInv, Panel
  <1> QED
    BY <1>1, <1>2 DEF AdmissionNext
=============================================================================
