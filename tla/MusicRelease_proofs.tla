------------------------- MODULE MusicRelease_proofs -------------------------
(* Proofs of the invariants of MusicRelease, for any number of requests,   *)
(* releases, tracks and workers.                                           *)
EXTENDS MusicRelease, TLAPS

\* The first state satisfies IInv.
LEMMA InitInv == Init => IInv
  <1> USE MusicAssumption
  <1> SUFFICES ASSUME Init PROVE IInv
    OBVIOUS
  <1>1. TypeOK
    BY DEF Init, TypeOK, Stages, Notices
  <1>2. TrackAtHand /\ HoldsKey /\ OneDownloadPerRelease
    BY DEF Init, TrackAtHand, HoldsKey, OneDownloadPerRelease, Critical
  <1>3. LateIsFlagged /\ CancelStopsAlbum
    BY DEF Init, LateIsFlagged, CancelStopsAlbum
  <1> QED
    BY <1>1, <1>2, <1>3 DEF IInv
-----------------------------------------------------------------------------
(* Types.                                                                  *)

\* Moving one request keeps the types.
LEMMA GotoType ==
  ASSUME TypeOK, NEW q \in Requests, NEW s \in Stages, Goto(q, s)
  PROVE  /\ stage' \in [Requests -> Stages]
         /\ \A p \in Requests : p # q => stage'[p] = stage[p]
         /\ stage'[q] = s
  BY DEF Goto, TypeOK

\* A shown notice keeps the types.
LEMMA ShowType ==
  ASSUME TypeOK, NEW q \in Requests,
         (\E n \in Notices : Show(q, n)) \/ UNCHANGED notice
  PROVE  notice' \in [Requests -> Notices]
  BY DEF Show, TypeOK

\* What the steps outside the worker's loop leave alone.
LEMMA BotType ==
  ASSUME IInv, NEW q \in Requests,
         \/ Admit(q) \/ BotStep(q) \/ CancelFlag(q) \/ Dequeue(q) \/ CtxDone(q)
  PROVE  TypeOK'
  <1> USE MusicAssumption DEF IInv
  <1>1. CASE Admit(q)
    <2>1. stage' \in [Requests -> Stages]
      BY <1>1, GotoType DEF Admit, Stages
    <2>2. userLock' \in [Users -> Requests \cup {None}]
      BY <1>1 DEF Admit, TypeOK
    <2> QED
      BY <1>1, <2>1, <2>2 DEF Admit, TypeOK, trackVars
  <1>2. CASE GiveUp(q)
    <2>1. stage' \in [Requests -> Stages]
      BY <1>2, GotoType DEF GiveUp, Stages
    <2>2. userLock' \in [Users -> Requests \cup {None}]
      BY <1>2 DEF GiveUp, FreeUser, TypeOK
    <2>3. notice' \in [Requests -> Notices]
      BY <1>2, ShowType DEF GiveUp, Notices
    <2> QED
      BY <1>2, <2>1, <2>2, <2>3 DEF GiveUp, TypeOK, trackVars
  <1>3. CASE Post(q)
    <2>1. stage' \in [Requests -> Stages]
      BY <1>3, GotoType DEF Post, Stages
    <2>2. notice' \in [Requests -> Notices]
      BY <1>3, ShowType DEF Post, Notices
    <2> QED
      BY <1>3, <2>1, <2>2 DEF Post, TypeOK, keyVars, trackVars
  <1>4. CASE Enqueue(q) \/ Dequeue(q)
    <2>1. stage' \in [Requests -> Stages]
      BY <1>4, GotoType DEF Enqueue, Dequeue, Stages
    <2> QED
      BY <1>4, <2>1 DEF Enqueue, Dequeue, TypeOK, keyVars, trackVars
  <1>5. CASE CancelFlag(q)
    BY <1>5 DEF CancelFlag, TypeOK, trackVars
  <1>6. CASE CancelRelease(q)
    <2>1. userLock' \in [Users -> Requests \cup {None}]
      BY <1>6 DEF CancelRelease, FreeUser, TypeOK
    <2>2. notice' \in [Requests -> Notices]
      BY <1>6, ShowType DEF CancelRelease, Notices
    <2> QED
      BY <1>6, <2>1, <2>2 DEF CancelRelease, TypeOK, trackVars
  <1>7. CASE CtxDone(q)
    BY <1>7 DEF CtxDone, TypeOK, keyVars, trackVars
  <1> QED
    BY <1>1, <1>2, <1>3, <1>4, <1>5, <1>6, <1>7 DEF BotStep

\* The worker's steps keep the types.
LEMMA WorkerType ==
  ASSUME IInv, NEW q \in Requests, WorkerStep(q)
  PROVE  TypeOK'
  <1> USE MusicAssumption DEF IInv
  <1>1. stage' \in [Requests -> Stages]
    <2>1. \E s \in Stages : Goto(q, s)
      BY DEF WorkerStep, TryAcquireReleaseLock, NextTrack, FetchTrack, SendTrack,
             Finish, ReleaseReleaseLock, Return, Report, Stages
    <2> QED
      BY <2>1, GotoType
  <1>2. CASE TryAcquireReleaseLock(q)
    <2>1. notice' \in [Requests -> Notices]
      BY <1>2, ShowType DEF TryAcquireReleaseLock, Notices
    <2>2. relLock' \in [Releases -> BOOLEAN]
      BY <1>2 DEF TryAcquireReleaseLock, TypeOK
    <2>3. broken' \in SUBSET Requests /\ hurt' \in SUBSET Requests
      BY <1>2 DEF TryAcquireReleaseLock, TypeOK
    <2> QED
      BY <1>1, <1>2, <2>1, <2>2, <2>3 DEF TryAcquireReleaseLock, TypeOK
  <1>3. CASE NextTrack(q)
    <2>1. notice' \in [Requests -> Notices]
      BY <1>3, ShowType DEF NextTrack, Notices
    <2>2. hurt' \in SUBSET Requests
      BY <1>3 DEF NextTrack, TypeOK
    <2> QED
      BY <1>1, <1>3, <2>1, <2>2 DEF NextTrack, TypeOK, keyVars, trackVars
  <1>4. ASSUME index' = [index EXCEPT ![q] = @ + 1], stage[q] \in {"fetch", "send"}
        PROVE  /\ index' \in [Requests -> Nat]
               /\ \A p \in Requests : index'[p] <= Tracks[Release[p]]
    <2>1. index[q] + 1 <= Tracks[Release[q]]
      BY <1>4 DEF TrackAtHand, TypeOK
    <2> QED
      BY <1>4, <2>1 DEF TypeOK
  <1>5. CASE FetchTrack(q)
    <2>1. /\ index' \in [Requests -> Nat]
          /\ \A p \in Requests : index'[p] <= Tracks[Release[p]]
      <3>1. CASE UNCHANGED index
        BY <3>1 DEF TypeOK
      <3> QED
        BY <1>4, <1>5, <3>1 DEF FetchTrack
    <2> QED
      BY <1>1, <1>5, <2>1 DEF FetchTrack, TypeOK, keyVars
  <1>6. CASE SendTrack(q)
    <2>1. /\ index' \in [Requests -> Nat]
          /\ \A p \in Requests : index'[p] <= Tracks[Release[p]]
      BY <1>4, <1>6 DEF SendTrack
    <2>2. sent' \in [Requests -> Nat]
      <3>1. CASE UNCHANGED sent
        BY <3>1 DEF TypeOK
      <3>2. CASE sent' = [sent EXCEPT ![q] = @ + 1]
        BY <3>2 DEF TypeOK
      <3> QED
        BY <1>6, <3>1, <3>2 DEF SendTrack
    <2>3. late' \in [Requests -> Nat]
      <3>1. CASE UNCHANGED late
        BY <3>1 DEF TypeOK
      <3>2. CASE late' = [late EXCEPT ![q] = @ + 1]
        BY <3>2 DEF TypeOK
      <3> QED
        BY <1>6, <3>1, <3>2 DEF SendTrack
    <2> QED
      BY <1>1, <1>6, <2>1, <2>2, <2>3 DEF SendTrack, TypeOK, keyVars
  <1>7. CASE Finish(q)
    <2>1. notice' \in [Requests -> Notices]
      BY <1>7, ShowType DEF Finish, Notices
    <2>2. record' \in [Requests -> {"none", "failed", "completed"}]
      BY <1>7 DEF Finish, TypeOK
    <2>3. unsaved' \in SUBSET Requests
      BY <1>7 DEF Finish, TypeOK
    <2> QED
      BY <1>1, <1>7, <2>1, <2>2, <2>3 DEF Finish, TypeOK, keyVars
  <1>8. CASE ReleaseReleaseLock(q)
    <2>1. relLock' \in [Releases -> BOOLEAN] /\ hurt' \in SUBSET Requests
      BY <1>8 DEF ReleaseReleaseLock, TypeOK
    <2> QED
      BY <1>1, <1>8, <2>1 DEF ReleaseReleaseLock, TypeOK, trackVars
  <1>9. CASE Return(q)
    <2>1. userLock' \in [Users -> Requests \cup {None}]
      BY <1>9 DEF Return, FreeUser, TypeOK
    <2>2. hurt' \in SUBSET Requests
      BY <1>9 DEF Return, TypeOK
    <2> QED
      BY <1>1, <1>9, <2>1, <2>2 DEF Return, TypeOK, trackVars
  <1>10. CASE Report(q)
    <2>1. notice' \in [Requests -> Notices]
      BY <1>10, ShowType DEF Report, Notices
    <2> QED
      BY <1>1, <1>10, <2>1 DEF Report, TypeOK, keyVars, trackVars
  <1> QED
    BY <1>2, <1>3, <1>5, <1>6, <1>7, <1>8, <1>9, <1>10 DEF WorkerStep

\* Crashes and expiring keys keep the types.
LEMMA EnvType ==
  ASSUME IInv,
         \/ \E u \in Users : ExpireUser(u)
         \/ \E k \in Releases : ExpireRelease(k)
         \/ Crash
  PROVE  TypeOK'
  <1> USE MusicAssumption DEF IInv
  <1>1. ASSUME NEW u \in Users, ExpireUser(u) PROVE TypeOK'
    BY <1>1 DEF ExpireUser, TypeOK, trackVars
  <1>2. ASSUME NEW k \in Releases, ExpireRelease(k) PROVE TypeOK'
    BY <1>2 DEF ExpireRelease, TypeOK, trackVars
  <1>3. CASE Crash
    BY <1>3 DEF Crash, TypeOK, Stages, keyVars, trackVars
  <1> QED
    BY <1>1, <1>2, <1>3
-----------------------------------------------------------------------------
(* Frames: the parts of IInv a step may not disturb.                       *)

\* Nobody enters or moves within the loop, and no key changes.
LEMMA LoopFrame ==
  ASSUME IInv, UNCHANGED <<relLock, lapsed, index, late>>,
         \A p \in Requests : \/ stage'[p] = stage[p]
                             \/ ~Critical(p)',
         flag \subseteq flag', hurt \subseteq hurt'
  PROVE  /\ TrackAtHand' /\ HoldsKey' /\ OneDownloadPerRelease'
         /\ LateIsFlagged' /\ CancelStopsAlbum'
  <1>1. \A p \in Requests : Critical(p)' => Critical(p) /\ stage'[p] = stage[p]
    BY DEF Critical
  <1>2. TrackAtHand'
    BY <1>1 DEF IInv, TrackAtHand, Critical
  <1>3. HoldsKey' /\ OneDownloadPerRelease'
    BY <1>1 DEF IInv, HoldsKey, OneDownloadPerRelease
  <1>4. LateIsFlagged'
    BY <1>1 DEF IInv, LateIsFlagged, Critical
  <1>5. CancelStopsAlbum'
    BY DEF IInv, CancelStopsAlbum
  <1> QED
    BY <1>2, <1>3, <1>4, <1>5

\* The worker moves within the critical section without touching the keys.
LEMMA MoveFrame ==
  ASSUME IInv, NEW q \in Requests, Critical(q),
         UNCHANGED <<relLock, lapsed>>,
         \A p \in Requests : p # q => stage'[p] = stage[p]
  PROVE  HoldsKey' /\ OneDownloadPerRelease'
  BY DEF IInv, HoldsKey, OneDownloadPerRelease, Critical

\* The handler, the cancel tap, a dequeue and a deadline keep IInv.
LEMMA BotInv ==
  ASSUME IInv, NEW q \in Requests,
         \/ Admit(q) \/ BotStep(q) \/ CancelFlag(q) \/ Dequeue(q) \/ CtxDone(q)
  PROVE  IInv'
  <1>1. TypeOK'
    BY BotType
  <1>2. UNCHANGED <<relLock, lapsed, index, late>>
    BY DEF Admit, BotStep, GiveUp, Post, Enqueue, CancelRelease, CancelFlag, Dequeue,
           CtxDone, keyVars, trackVars
  <1>3. flag \subseteq flag' /\ hurt \subseteq hurt'
    BY DEF Admit, BotStep, GiveUp, Post, Enqueue, CancelRelease, CancelFlag, Dequeue,
           CtxDone, keyVars
  <1>4. \/ \E s \in {"admitted", "refused", "posted", "pending", "started"} : Goto(q, s)
        \/ UNCHANGED stage
    BY DEF Admit, BotStep, GiveUp, Post, Enqueue, CancelRelease, CancelFlag, Dequeue,
           CtxDone
  <1>5. \A p \in Requests : stage'[p] = stage[p] \/ ~Critical(p)'
    BY <1>4 DEF Goto, Critical, IInv, TypeOK
  <1> QED
    BY <1>1, <1>2, <1>3, <1>5, LoopFrame DEF IInv

\* The worker's steps keep IInv: the key is taken before the loop and freed
\* after it, and each track is preceded by a look at the flag.
LEMMA WorkerInv ==
  ASSUME IInv, NEW q \in Requests, WorkerStep(q)
  PROVE  IInv'
  <1> USE MusicAssumption
  <1>0. TypeOK' /\ TypeOK
    BY WorkerType DEF IInv
  <1>1. CASE TryAcquireReleaseLock(q)
    <2>0. /\ UNCHANGED <<flag, lapsed, index, late>> /\ hurt \subseteq hurt'
          /\ stage[q] = "started"
      BY <1>1 DEF TryAcquireReleaseLock
    <2>1. CASE Goto(q, "unlock") /\ UNCHANGED relLock
      BY <1>0, <2>0, <2>1, LoopFrame DEF Goto, Critical, TypeOK, IInv
    <2>2. CASE /\ ~relLock[Release[q]]
               /\ relLock' = [relLock EXCEPT ![Release[q]] = TRUE]
               /\ \E s \in {"loop", "leave", "unlock"} : Goto(q, s)
      <3>0. /\ \A p \in Requests : p # q => stage'[p] = stage[p]
            /\ stage'[q] \in {"loop", "leave", "unlock"}
        BY <1>0, <2>2 DEF Goto, TypeOK
      <3>1. relLock'[Release[q]] /\ (\A k \in Releases : relLock[k] => relLock'[k])
        BY <1>0, <2>2 DEF TypeOK
      <3>2. HoldsKey'
        BY <2>0, <3>0, <3>1 DEF IInv, HoldsKey, Critical
      \* Whoever is inside without its key has lost it to the TTL.
      <3>3. \A p \in Requests : Critical(p) /\ Release[p] = Release[q]
                                  => Release[q] \in lapsed
        BY <2>2 DEF IInv, HoldsKey
      <3>4. OneDownloadPerRelease'
        BY <2>0, <3>0, <3>3 DEF IInv, OneDownloadPerRelease, Critical
      <3>5. TrackAtHand' /\ LateIsFlagged' /\ CancelStopsAlbum'
        BY <2>0, <3>0 DEF IInv, TrackAtHand, LateIsFlagged, CancelStopsAlbum
      <3> QED
        BY <1>0, <3>2, <3>4, <3>5 DEF IInv
    <2> QED
      BY <1>1, <2>1, <2>2 DEF TryAcquireReleaseLock
  <1>2. CASE NextTrack(q)
    <2>0. /\ UNCHANGED <<relLock, lapsed, flag, index, late>>
          /\ stage[q] = "loop" /\ hurt \subseteq hurt'
      BY <1>2 DEF NextTrack, keyVars, trackVars
    <2>1. PICK s \in {"finish", "leave", "fetch"} : Goto(q, s)
      BY <1>2 DEF NextTrack
    <2>2. \A p \in Requests : p # q => stage'[p] = stage[p]
      BY <1>0, <2>1 DEF Goto, TypeOK
    <2>3. stage'[q] = s
      BY <1>0, <2>1 DEF Goto, TypeOK
    <2>4. s = "fetch" => /\ index[q] < Tracks[Release[q]]
                         /\ q \in hurt' \/ q \notin flag
      BY <1>2, <2>3, <1>0 DEF NextTrack, Goto, TypeOK
    <2>5. HoldsKey' /\ OneDownloadPerRelease'
      BY <2>0, <2>2, MoveFrame DEF Critical
    <2>6. TrackAtHand'
      BY <2>0, <2>2, <2>3, <2>4 DEF IInv, TrackAtHand
    <2>7. LateIsFlagged'
      BY <1>0, <2>0, <2>2, <2>3, <2>4 DEF IInv, LateIsFlagged, TypeOK
    <2>8. CancelStopsAlbum'
      BY <2>0 DEF IInv, CancelStopsAlbum
    <2> QED
      BY <1>0, <2>5, <2>6, <2>7, <2>8 DEF IInv
  <1>3. CASE FetchTrack(q)
    <2>0. /\ UNCHANGED <<relLock, lapsed, flag, late, hurt>>
          /\ stage[q] = "fetch"
      BY <1>3 DEF FetchTrack, keyVars
    <2>1. \/ Goto(q, "send") /\ UNCHANGED index
          \/ Goto(q, "loop") /\ index' = [index EXCEPT ![q] = @ + 1]
      BY <1>3 DEF FetchTrack
    <2>2. /\ \A p \in Requests : p # q => stage'[p] = stage[p] /\ index'[p] = index[p]
          /\ stage'[q] = "loop" \/ (stage'[q] = "send" /\ index'[q] = index[q])
      BY <1>0, <2>1 DEF Goto, TypeOK
    <2>3. HoldsKey' /\ OneDownloadPerRelease'
      BY <2>0, <2>2, MoveFrame DEF Critical
    <2>4. TrackAtHand'
      BY <2>0, <2>2 DEF IInv, TrackAtHand
    <2>5. LateIsFlagged' /\ CancelStopsAlbum'
      BY <2>0, <2>2 DEF IInv, LateIsFlagged, CancelStopsAlbum
    <2> QED
      BY <1>0, <2>3, <2>4, <2>5 DEF IInv
  <1>4. CASE SendTrack(q)
    <2>0. /\ UNCHANGED <<relLock, lapsed, flag, hurt>>
          /\ stage[q] = "send" /\ Goto(q, "loop")
          /\ index' = [index EXCEPT ![q] = @ + 1]
      BY <1>4 DEF SendTrack, keyVars
    <2>1. /\ \A p \in Requests : p # q => stage'[p] = stage[p] /\ index'[p] = index[p]
          /\ stage'[q] = "loop"
      BY <1>0, <2>0 DEF Goto, TypeOK
    <2>2. /\ \A p \in Requests : p # q => late'[p] = late[p]
          /\ late'[q] = late[q] \/ (late'[q] = late[q] + 1 /\ q \in flag)
      BY <1>0, <1>4 DEF SendTrack, TypeOK
    <2>3. HoldsKey' /\ OneDownloadPerRelease'
      BY <2>0, <2>1, MoveFrame DEF Critical
    <2>4. TrackAtHand'
      BY <2>1 DEF IInv, TrackAtHand
    <2>5. LateIsFlagged'
      BY <1>0, <2>0, <2>1, <2>2 DEF IInv, LateIsFlagged, TypeOK
    <2>6. CancelStopsAlbum'
      BY <1>0, <2>0, <2>2 DEF IInv, LateIsFlagged, CancelStopsAlbum, TypeOK
    <2> QED
      BY <1>0, <2>3, <2>4, <2>5, <2>6 DEF IInv
  <1>5. CASE Finish(q)
    <2>0. /\ UNCHANGED <<relLock, lapsed, flag, index, late, hurt>>
          /\ stage[q] = "finish" /\ Goto(q, "leave")
      BY <1>5 DEF Finish, keyVars
    <2>1. /\ \A p \in Requests : p # q => stage'[p] = stage[p]
          /\ stage'[q] = "leave"
      BY <1>0, <2>0 DEF Goto, TypeOK
    <2>2. HoldsKey' /\ OneDownloadPerRelease'
      BY <2>0, <2>1, MoveFrame DEF Critical
    <2>3. TrackAtHand' /\ LateIsFlagged' /\ CancelStopsAlbum'
      BY <2>0, <2>1 DEF IInv, TrackAtHand, LateIsFlagged, CancelStopsAlbum
    <2> QED
      BY <1>0, <2>2, <2>3 DEF IInv
  <1>6. CASE ReleaseReleaseLock(q)
    <2>0. /\ UNCHANGED <<lapsed, flag, index, late>> /\ hurt \subseteq hurt'
          /\ stage[q] = "leave" /\ Goto(q, "unlock")
          /\ \/ relLock' = [relLock EXCEPT ![Release[q]] = FALSE]
             \/ UNCHANGED relLock
      BY <1>6 DEF ReleaseReleaseLock, trackVars
    <2>1. /\ \A p \in Requests : p # q => stage'[p] = stage[p]
          /\ stage'[q] = "unlock"
      BY <1>0, <2>0 DEF Goto, TypeOK
    <2>2. \A k \in Releases : k # Release[q] => relLock'[k] = relLock[k]
      BY <1>0, <2>0 DEF TypeOK
    \* The key that is deleted is the worker's own, or some key had expired.
    <2>3. \A p \in Requests : p # q /\ Critical(p) /\ Release[p] = Release[q]
                                => Release[p] \in lapsed
      BY <2>0 DEF IInv, OneDownloadPerRelease, Critical
    <2>4. HoldsKey'
      BY <2>0, <2>1, <2>2, <2>3 DEF IInv, HoldsKey, Critical
    <2>5. OneDownloadPerRelease'
      BY <2>0, <2>1 DEF IInv, OneDownloadPerRelease, Critical
    <2>6. TrackAtHand' /\ LateIsFlagged' /\ CancelStopsAlbum'
      BY <2>0, <2>1 DEF IInv, TrackAtHand, LateIsFlagged, CancelStopsAlbum
    <2> QED
      BY <1>0, <2>4, <2>5, <2>6 DEF IInv
  <1>7. CASE Return(q)
    <2>1. /\ UNCHANGED <<relLock, lapsed, flag, index, late>> /\ hurt \subseteq hurt'
          /\ \E s \in {"ended", "report"} : Goto(q, s)
      BY <1>7 DEF Return, trackVars
    <2> QED
      BY <1>0, <2>1, LoopFrame DEF Goto, Critical, TypeOK, IInv
  <1>8. CASE Report(q)
    <2>1. UNCHANGED <<relLock, lapsed, flag, index, late, hurt>> /\ Goto(q, "ended")
      BY <1>8 DEF Report, keyVars, trackVars
    <2> QED
      BY <1>0, <2>1, LoopFrame DEF Goto, Critical, TypeOK, IInv
  <1> QED
    BY <1>1, <1>2, <1>3, <1>4, <1>5, <1>6, <1>7, <1>8 DEF WorkerStep

\* Crashes and expiring keys keep IInv.
LEMMA EnvInv ==
  ASSUME IInv,
         \/ \E u \in Users : ExpireUser(u)
         \/ \E k \in Releases : ExpireRelease(k)
         \/ Crash
  PROVE  IInv'
  <1> USE MusicAssumption
  <1>0. TypeOK' /\ TypeOK
    BY EnvType DEF IInv
  <1>1. ASSUME NEW u \in Users, ExpireUser(u) PROVE IInv'
    BY <1>0, <1>1, LoopFrame DEF ExpireUser, trackVars, IInv
  <1>2. ASSUME NEW k \in Releases, ExpireRelease(k) PROVE IInv'
    <2>0. /\ UNCHANGED <<flag, stage, index, late, hurt>>
          /\ lapsed' = lapsed \cup {k}
          /\ \A m \in Releases : m # k => relLock'[m] = relLock[m]
      BY <1>0, <1>2 DEF ExpireRelease, trackVars, TypeOK
    <2>1. HoldsKey' /\ OneDownloadPerRelease'
      BY <2>0 DEF IInv, HoldsKey, OneDownloadPerRelease, Critical
    <2>2. TrackAtHand' /\ LateIsFlagged' /\ CancelStopsAlbum'
      BY <2>0 DEF IInv, TrackAtHand, LateIsFlagged, CancelStopsAlbum
    <2> QED
      BY <1>0, <2>1, <2>2 DEF IInv
  <1>3. CASE Crash
    <2>1. \A p \in Requests : stage'[p] = stage[p] \/ ~Critical(p)'
      BY <1>3 DEF Crash, Critical
    <2> QED
      BY <1>0, <1>3, <2>1, LoopFrame DEF Crash, keyVars, trackVars, IInv
  <1> QED
    BY <1>1, <1>2, <1>3

\* IInv is inductive.
LEMMA NextInv == IInv /\ [Next]_vars => IInv'
  <1> SUFFICES ASSUME IInv, [Next]_vars PROVE IInv'
    OBVIOUS
  <1>1. ASSUME NEW q \in Requests, RequestStep(q) PROVE IInv'
    BY <1>1, BotInv, WorkerInv DEF RequestStep
  <1>2. CASE UNCHANGED vars
    <2>1. TypeOK'
      BY <1>2 DEF IInv, vars, TypeOK
    <2> QED
      BY <1>2, <2>1, LoopFrame DEF IInv, vars
  <1> QED
    BY <1>1, <1>2, EnvInv DEF Next

\* The invariant the properties below are read off.
THEOREM Invariant == Spec => []IInv
  BY InitInv, NextInv, PTL DEF Spec

\* For any number of requests and workers, the release key of runMusicDownload
\* keeps two of them from downloading one release, until its TTL runs out.
THEOREM Exclusion == Spec => []OneDownloadPerRelease
  <1>1. IInv => OneDownloadPerRelease
    BY DEF IInv
  <1> QED
    BY <1>1, Invariant, PTL

\* However long the album, the cancel button lets at most one more track out.
THEOREM CancelIsPrompt == Spec => []CancelStopsAlbum
  <1>1. IInv => CancelStopsAlbum
    BY DEF IInv
  <1> QED
    BY <1>1, Invariant, PTL

-----------------------------------------------------------------------------
(* The keys of the releases and the rows of the requests.                  *)

\* The stages of a request before and after its tracks.
Early == {"idle", "admitted", "posted", "pending", "started"}
Before == Early \cup {"loop", "fetch", "send", "finish"}
After == {"leave", "unlock", "report", "ended"}

\* A request that has not come to its end has no row and no error, one that did
\* not come to its tracks has sent none.
NothingYet(q) ==
    /\ stage[q] \in Before => record[q] = "none" /\ q \notin broken
    /\ stage[q] \in Early \/ q \in broken => sent[q] = 0 /\ record[q] = "none"

\* One that has ended undisturbed has the row that fits what the user was left
\* with; an error has yet to be reported when the locks are free.
RowFits(q) ==
    /\ q \in broken \/ notice[q] \in {"gone", "failed", "busy", "cancelled"}
    /\ record[q] = "completed" => sent[q] > 0 /\ notice[q] \in {"gone", "cancelled"}
    /\ record[q] = "failed" => sent[q] = 0 /\ notice[q] \in {"failed", "cancelled"}
    /\ notice[q] = "gone" => record[q] = "completed" \/ (q \in unsaved /\ sent[q] > 0)
    /\ notice[q] \in {"failed", "busy"} => sent[q] = 0
    /\ stage[q] = "report" => q \in broken
    /\ stage[q] = "ended" => notice[q] \in {"gone", "failed", "busy", "cancelled"}

\* A context that is done disturbs its request.
RowInv ==
    /\ done \subseteq hurt
    /\ \A q \in Requests : NothingYet(q)
    /\ \A q \in Requests : stage[q] \in After /\ q \notin hurt => RowFits(q)

\* A step may take the key of a release from it, or leave the workers that
\* account for it inside or disturbed.
LEMMA KeyFrame ==
  ASSUME ReleaseNotLeaked, hurt \subseteq hurt',
         \A k \in Releases : relLock'[k] => relLock[k],
         \A q \in Requests : Critical(q) => Critical(q)' \/ q \in hurt' \/ ~relLock'[Release[q]]
  PROVE  ReleaseNotLeaked'
  BY DEF ReleaseNotLeaked

\* Every key that is set has a worker that will delete it or was disturbed.
LEMMA NotLeakedStep == IInv /\ ReleaseNotLeaked /\ [Next]_vars => ReleaseNotLeaked'
  <1> SUFFICES ASSUME IInv, ReleaseNotLeaked, [Next]_vars PROVE ReleaseNotLeaked'
    OBVIOUS
  <1> USE MusicAssumption
  <1>0. TypeOK
    BY DEF IInv
  <1>1. ASSUME NEW q \in Requests, NEW s \in Stages, Goto(q, s), UNCHANGED <<relLock, hurt>>,
               ~Critical(q) \/ s \in {"loop", "fetch", "send", "finish", "leave"}
        PROVE  ReleaseNotLeaked'
    <2>1. \A p \in Requests : Critical(p) => Critical(p)'
      BY <1>0, <1>1, GotoType DEF Critical
    <2> QED
      BY <1>1, <2>1, KeyFrame
  <1>2. ASSUME NEW q \in Requests, TryAcquireReleaseLock(q) PROVE ReleaseNotLeaked'
    <2>1. CASE /\ relLock' = [relLock EXCEPT ![Release[q]] = TRUE]
               /\ \/ (Goto(q, "loop") \/ Goto(q, "leave")) /\ UNCHANGED hurt
                  \/ Goto(q, "unlock") /\ hurt' = hurt \cup {q}
      <3>1. stage[q] = "started" /\ hurt \subseteq hurt'
        BY <1>2, <2>1 DEF TryAcquireReleaseLock
      <3>2. stage'[q] \in {"loop", "leave"} \/ q \in hurt'
        BY <1>0, <2>1, GotoType DEF Stages
      <3>3. \A p \in Requests : Critical(p) => Critical(p)'
        BY <1>0, <2>1, <3>1, GotoType DEF Critical, Stages
      <3>4. \A k \in Releases \ {Release[q]} : relLock'[k] = relLock[k]
        BY <1>0, <2>1 DEF TypeOK
      <3> QED
        BY <3>1, <3>2, <3>3, <3>4 DEF ReleaseNotLeaked, Critical
    <2>2. CASE Goto(q, "unlock") /\ UNCHANGED <<relLock, hurt>>
      BY <1>1, <1>2, <2>2 DEF TryAcquireReleaseLock, Critical, Stages
    <2> QED
      BY <1>2, <2>1, <2>2 DEF TryAcquireReleaseLock
  <1>3. ASSUME NEW q \in Requests, NextTrack(q) PROVE ReleaseNotLeaked'
    <2>1. \E s \in {"finish", "leave", "fetch"} : Goto(q, s)
      BY <1>3 DEF NextTrack
    <2>2. \A p \in Requests : Critical(p) => Critical(p)'
      BY <1>0, <2>1, GotoType DEF Critical, Stages
    <2>3. UNCHANGED relLock /\ hurt \subseteq hurt'
      BY <1>3 DEF NextTrack, keyVars
    <2> QED
      BY <2>2, <2>3, KeyFrame
  <1>4. ASSUME NEW q \in Requests, FetchTrack(q) \/ SendTrack(q) \/ Finish(q) PROVE ReleaseNotLeaked'
    BY <1>1, <1>4 DEF FetchTrack, SendTrack, Finish, keyVars, Stages
  <1>5. ASSUME NEW q \in Requests, ReleaseReleaseLock(q) PROVE ReleaseNotLeaked'
    <2>1. Goto(q, "unlock")
      BY <1>5 DEF ReleaseReleaseLock
    <2>2. \A p \in Requests \ {q} : Critical(p) => Critical(p)'
      BY <1>0, <2>1, GotoType DEF Critical, Stages
    <2>3. CASE relLock' = [relLock EXCEPT ![Release[q]] = FALSE] /\ UNCHANGED hurt
      <3>1. ~relLock'[Release[q]] /\ \A k \in Releases : relLock'[k] => relLock[k]
        BY <1>0, <2>3 DEF TypeOK
      <3> QED
        BY <2>2, <2>3, <3>1, KeyFrame
    <2>4. CASE hurt' = hurt \cup {q} /\ UNCHANGED relLock
      BY <2>2, <2>4, KeyFrame
    <2> QED
      BY <1>5, <2>3, <2>4 DEF ReleaseReleaseLock
  <1>6. ASSUME NEW q \in Requests, Return(q) \/ Report(q) PROVE ReleaseNotLeaked'
    <2>1. /\ \E s \in {"ended", "report"} : Goto(q, s)
          /\ ~Critical(q) /\ UNCHANGED relLock /\ hurt \subseteq hurt'
      BY <1>6 DEF Return, Report, Critical, keyVars
    <2>2. \A p \in Requests : Critical(p) => Critical(p)'
      BY <1>0, <2>1, GotoType DEF Critical, Stages
    <2> QED
      BY <2>1, <2>2, KeyFrame
  <1>7. ASSUME NEW q \in Requests, Admit(q) \/ GiveUp(q) \/ Post(q) \/ Enqueue(q) \/ Dequeue(q)
        PROVE  ReleaseNotLeaked'
    <2>1. ~Critical(q) /\ UNCHANGED <<relLock, hurt>> /\ \E s \in Stages : Goto(q, s)
      BY <1>7 DEF Admit, GiveUp, Post, Enqueue, Dequeue, Critical, keyVars, Stages
    <2> QED
      BY <1>1, <2>1
  <1>8. CASE UNCHANGED <<stage, relLock>> /\ hurt \subseteq hurt'
    BY <1>8, KeyFrame DEF Critical
  <1>9. ASSUME NEW q \in Requests, CancelFlag(q) \/ CancelRelease(q) \/ CtxDone(q) PROVE ReleaseNotLeaked'
    BY <1>8, <1>9 DEF CancelFlag, CancelRelease, CtxDone, keyVars
  <1>10. ASSUME NEW k \in Releases, ExpireRelease(k) PROVE ReleaseNotLeaked'
    <2>1. \A j \in Releases : relLock'[j] => relLock[j]
      BY <1>0, <1>10 DEF ExpireRelease, TypeOK
    <2>2. UNCHANGED <<stage, hurt>>
      BY <1>10 DEF ExpireRelease
    <2> QED
      BY <2>1, <2>2, KeyFrame DEF Critical
  <1>11. CASE Crash
    <2>1. UNCHANGED relLock /\ hurt \subseteq hurt' /\ \A p \in Requests : Critical(p) => p \in hurt'
      BY <1>11 DEF Crash, keyVars, Executing
    <2> QED
      BY <2>1, KeyFrame
  <1>12. ASSUME NEW u \in Users, ExpireUser(u) PROVE ReleaseNotLeaked'
    BY <1>8, <1>12 DEF ExpireUser
  <1>13. CASE UNCHANGED vars
    BY <1>8, <1>13 DEF vars
  <1> QED
    BY <1>2, <1>3, <1>4, <1>5, <1>6, <1>7, <1>9, <1>10, <1>11, <1>12, <1>13
       DEF Next, RequestStep, BotStep, WorkerStep

\* One request moves, all others are as they were.
OnlyMoves(q) ==
    \A p \in Requests \ {q} :
        /\ stage'[p] = stage[p] /\ notice'[p] = notice[p]
        /\ sent'[p] = sent[p] /\ record'[p] = record[p]
        /\ (p \in broken' <=> p \in broken) /\ (p \in unsaved' <=> p \in unsaved)

\* Then RowInv has to be shown for that one.
LEMMA RowFrame ==
  ASSUME RowInv, NEW q \in Requests, OnlyMoves(q),
         hurt \subseteq hurt', done' \subseteq hurt',
         NothingYet(q)', stage'[q] \in After /\ q \notin hurt' => RowFits(q)'
  PROVE  RowInv'
  <1>1. ASSUME NEW p \in Requests \ {q}
        PROVE  /\ NothingYet(p)'
               /\ stage'[p] \in After /\ p \notin hurt' => RowFits(p)'
    <2>1. /\ stage'[p] = stage[p] /\ notice'[p] = notice[p]
          /\ sent'[p] = sent[p] /\ record'[p] = record[p]
          /\ (p \in broken' <=> p \in broken) /\ (p \in unsaved' <=> p \in unsaved)
      BY DEF OnlyMoves
    <2>2. NothingYet(p)'
      BY <2>1 DEF RowInv, NothingYet
    <2>3. ASSUME stage'[p] \in After, p \notin hurt' PROVE RowFits(p)'
      BY <2>1, <2>3 DEF RowInv, RowFits
    <2> QED
      BY <2>2, <2>3
  <1> QED
    BY <1>1 DEF RowInv

\* A step to stage s that sends nothing and writes no row.
LEMMA RowMove ==
  ASSUME TypeOK, RowInv, NEW q \in Requests, NEW s \in Stages, Goto(q, s),
         UNCHANGED <<record, sent, broken, unsaved>>,
         UNCHANGED notice \/ \E n \in Notices : Show(q, n)
  PROVE  /\ OnlyMoves(q) /\ stage'[q] = s
         /\ sent'[q] = sent[q] /\ record'[q] = record[q]
         /\ (q \in broken' <=> q \in broken) /\ (q \in unsaved' <=> q \in unsaved)
  <1>1. stage'[q] = s /\ \A p \in Requests \ {q} : stage'[p] = stage[p]
    BY GotoType
  <1>2. \A p \in Requests \ {q} : notice'[p] = notice[p]
    BY DEF Show, TypeOK
  <1> QED
    BY <1>1, <1>2 DEF OnlyMoves

\* Only finishMusicDownload writes a row, and it shows what it wrote.
LEMMA RowStep == IInv /\ RowInv /\ [Next]_vars => RowInv'
  <1> SUFFICES ASSUME IInv, RowInv, [Next]_vars PROVE RowInv'
    OBVIOUS
  <1> USE MusicAssumption
  <1>0. TypeOK /\ done \subseteq hurt
    BY DEF IInv, RowInv
  <1>1. ASSUME NEW q \in Requests,
               Admit(q) \/ GiveUp(q) \/ Post(q) \/ Enqueue(q) \/ Dequeue(q)
        PROVE  RowInv'
    <2>1. /\ UNCHANGED <<record, sent, broken, unsaved, done, hurt>>
          /\ stage[q] \in Early
      BY <1>1 DEF Admit, GiveUp, Post, Enqueue, Dequeue, trackVars, keyVars, Early
    <2>2. PICK s \in (Early \ {"idle"}) \cup {"refused"} : Goto(q, s)
      BY <1>1 DEF Admit, GiveUp, Post, Enqueue, Dequeue, Early
    <2>3. UNCHANGED notice \/ \E n \in Notices : Show(q, n)
      BY <1>1 DEF Admit, GiveUp, Post, Enqueue, Dequeue, Notices
    <2>4. /\ OnlyMoves(q) /\ stage'[q] = s /\ sent'[q] = sent[q] /\ record'[q] = record[q]
          /\ (q \in broken' <=> q \in broken)
      BY <1>0, <2>1, <2>2, <2>3, RowMove DEF Early, Stages
    <2>5. NothingYet(q)' /\ stage'[q] \notin After
      BY <2>1, <2>2, <2>4 DEF RowInv, NothingYet, Early, Before, After
    <2> QED
      BY <1>0, <2>1, <2>4, <2>5, RowFrame
  <1>2. ASSUME NEW q \in Requests, TryAcquireReleaseLock(q) PROVE RowInv'
    <2>1. /\ UNCHANGED <<record, sent, unsaved, done>> /\ hurt \subseteq hurt'
          /\ stage[q] = "started"
      BY <1>2 DEF TryAcquireReleaseLock
    <2>2. PICK s \in {"loop", "leave", "unlock"} : Goto(q, s)
      BY <1>2 DEF TryAcquireReleaseLock
    <2>3. stage'[q] = s /\ \A p \in Requests \ {q} : stage'[p] = stage[p]
      BY <1>0, <2>2, GotoType DEF Stages
    <2>4. /\ \A p \in Requests \ {q} : notice'[p] = notice[p]
          /\ notice'[q] \in {"busy", "downloading"}
      BY <1>0, <1>2 DEF TryAcquireReleaseLock, Show, TypeOK
    <2>5. OnlyMoves(q)
      BY <1>2, <2>1, <2>3, <2>4 DEF TryAcquireReleaseLock, OnlyMoves
    <2>6. sent'[q] = 0 /\ record'[q] = "none" /\ q \notin broken
      BY <2>1 DEF RowInv, NothingYet, Early, Before
    <2>7. \/ s = "loop" /\ q \notin broken'
          \/ s = "leave" /\ q \in broken' /\ notice'[q] = "downloading"
          \/ s = "unlock" /\ q \notin broken' /\ notice'[q] = "busy"
      <3>1. \/ Goto(q, "loop") /\ broken' = broken
            \/ Goto(q, "leave") /\ broken' = broken \cup {q} /\ Show(q, "downloading")
            \/ Goto(q, "unlock") /\ broken' = broken /\ Show(q, "busy")
        BY <1>2 DEF TryAcquireReleaseLock
      <3> QED
        BY <1>0, <2>2, <2>3, <2>6, <3>1 DEF Goto, Show, TypeOK
    <2>8. NothingYet(q)'
      BY <2>3, <2>6, <2>7 DEF NothingYet, Early, Before
    <2>9. RowFits(q)' \/ stage'[q] \notin After
      BY <2>3, <2>6, <2>7 DEF RowFits, After
    <2> QED
      BY <1>0, <2>1, <2>5, <2>8, <2>9, RowFrame
  <1>3. ASSUME NEW q \in Requests, NextTrack(q) \/ FetchTrack(q) PROVE RowInv'
    <2>1. /\ UNCHANGED <<record, sent, broken, unsaved, done>> /\ hurt \subseteq hurt'
          /\ stage[q] \in {"loop", "fetch"}
      BY <1>3 DEF NextTrack, FetchTrack, trackVars
    <2>2. PICK s \in {"loop", "fetch", "send", "finish", "leave"} : Goto(q, s)
      BY <1>3 DEF NextTrack, FetchTrack
    <2>3. UNCHANGED notice \/ \E n \in Notices : Show(q, n)
      BY <1>3 DEF NextTrack, FetchTrack, Notices
    <2>4. /\ OnlyMoves(q) /\ stage'[q] = s /\ sent'[q] = sent[q] /\ record'[q] = record[q]
          /\ (q \in broken' <=> q \in broken)
      BY <1>0, <2>1, <2>2, <2>3, RowMove DEF Stages
    <2>5. record[q] = "none" /\ q \notin broken
      BY <2>1 DEF RowInv, NothingYet, Before
    <2>6. NothingYet(q)'
      BY <2>2, <2>4, <2>5 DEF NothingYet, Early
    <2>7. s = "leave" => notice'[q] = "cancelled"
      <3>1. Goto(q, "leave") => Show(q, "cancelled")
        BY <1>0, <1>3 DEF NextTrack, FetchTrack, Goto, TypeOK
      <3> QED
        BY <1>0, <2>2, <3>1 DEF Show, TypeOK
    <2>8. stage'[q] \in After => RowFits(q)'
      BY <2>2, <2>4, <2>5, <2>7 DEF RowFits, After
    <2> QED
      BY <1>0, <2>1, <2>4, <2>6, <2>8, RowFrame
  <1>4. ASSUME NEW q \in Requests, SendTrack(q) PROVE RowInv'
    <2>1. /\ Goto(q, "loop") /\ UNCHANGED <<record, broken, unsaved, notice, done, hurt>>
          /\ stage[q] = "send"
      BY <1>4 DEF SendTrack
    <2>2. stage'[q] = "loop" /\ \A p \in Requests \ {q} : stage'[p] = stage[p]
      BY <1>0, <2>1, GotoType DEF Stages
    <2>3. \A p \in Requests \ {q} : sent'[p] = sent[p]
      BY <1>0, <1>4 DEF SendTrack, TypeOK
    <2>4. OnlyMoves(q)
      BY <2>1, <2>2, <2>3 DEF OnlyMoves
    <2>5. NothingYet(q)' /\ stage'[q] \notin After
      BY <2>1, <2>2 DEF RowInv, NothingYet, Early, Before, After
    <2> QED
      BY <1>0, <2>1, <2>4, <2>5, RowFrame
  <1>5. ASSUME NEW q \in Requests, Finish(q) PROVE RowInv'
    <2>1. Goto(q, "leave") /\ UNCHANGED <<sent, broken, done, hurt>> /\ stage[q] = "finish"
      BY <1>5 DEF Finish
    <2>2. stage'[q] = "leave" /\ \A p \in Requests \ {q} : stage'[p] = stage[p]
      BY <1>0, <2>1, GotoType DEF Stages
    <2>3. \A p \in Requests \ {q} : /\ record'[p] = record[p] /\ notice'[p] = notice[p]
                                    /\ p \in unsaved' <=> p \in unsaved
      BY <1>0, <1>5 DEF Finish, Show, TypeOK
    <2>4. OnlyMoves(q)
      BY <2>1, <2>2, <2>3 DEF OnlyMoves
    <2>5. q \notin broken /\ record[q] = "none" /\ sent'[q] = sent[q] /\ sent[q] \in Nat
      BY <1>0, <2>1 DEF RowInv, NothingYet, Before, TypeOK
    <2>6. NothingYet(q)'
      BY <2>1, <2>2, <2>5 DEF NothingYet, Early, Before
    <2>7. /\ notice'[q] = IF sent[q] = 0 THEN "failed" ELSE "gone"
          /\ \/ record'[q] = IF sent[q] = 0 THEN "failed" ELSE "completed"
             \/ record'[q] = "none" /\ q \in unsaved'
      BY <1>0, <1>5, <2>5 DEF Finish, Show, TypeOK
    <2>8. RowFits(q)'
      BY <2>2, <2>5, <2>7 DEF RowFits
    <2> QED
      BY <1>0, <2>1, <2>4, <2>6, <2>8, RowFrame
  <1>6. ASSUME NEW q \in Requests, ReleaseReleaseLock(q) \/ Return(q) PROVE RowInv'
    <2>1. /\ UNCHANGED <<record, sent, broken, unsaved, done, notice>> /\ hurt \subseteq hurt'
          /\ stage[q] \in {"leave", "unlock"}
      BY <1>6 DEF ReleaseReleaseLock, Return, trackVars
    <2>2. PICK s \in {"unlock", "report", "ended"} :
            /\ Goto(q, s)
            /\ s = "report" => q \in broken
            /\ s = "ended" => q \notin broken
      BY <1>6 DEF ReleaseReleaseLock, Return
    <2>3. /\ OnlyMoves(q) /\ stage'[q] = s /\ sent'[q] = sent[q] /\ record'[q] = record[q]
          /\ (q \in broken' <=> q \in broken) /\ (q \in unsaved' <=> q \in unsaved)
      BY <1>0, <2>1, <2>2, RowMove DEF Stages
    <2>4. NothingYet(q)'
      BY <2>1, <2>2, <2>3 DEF RowInv, NothingYet, Early, Before
    <2>5. q \notin hurt' => RowFits(q)
      BY <2>1 DEF RowInv, After
    <2>6. q \notin hurt' => RowFits(q)'
      BY <2>1, <2>2, <2>3, <2>5 DEF RowFits
    <2> QED
      BY <1>0, <2>1, <2>3, <2>4, <2>6, RowFrame
  <1>7. ASSUME NEW q \in Requests, Report(q) PROVE RowInv'
    <2>1. /\ UNCHANGED <<record, sent, broken, unsaved, done, hurt>>
          /\ stage[q] = "report" /\ Goto(q, "ended") /\ Show(q, "failed")
      BY <1>7 DEF Report, trackVars
    <2>2. /\ OnlyMoves(q) /\ stage'[q] = "ended" /\ sent'[q] = sent[q] /\ record'[q] = record[q]
          /\ (q \in broken' <=> q \in broken)
      BY <1>0, <2>1, RowMove DEF Stages, Notices
    <2>3. notice'[q] = "failed"
      BY <1>0, <2>1 DEF Show, TypeOK
    <2>4. NothingYet(q)'
      BY <2>1, <2>2 DEF RowInv, NothingYet, Early, Before
    <2>5. q \notin hurt => q \in broken
      BY <2>1 DEF RowInv, RowFits, After
    <2>6. q \in broken => sent[q] = 0 /\ record[q] = "none"
      BY DEF RowInv, NothingYet
    <2>7. q \notin hurt' => RowFits(q)'
      BY <2>1, <2>2, <2>3, <2>5, <2>6 DEF RowFits
    <2> QED
      BY <1>0, <2>1, <2>2, <2>4, <2>7, RowFrame
  <1>8. ASSUME NEW q \in Requests, CancelRelease(q) PROVE RowInv'
    <2>1. UNCHANGED <<stage, record, sent, broken, unsaved, done, hurt>>
      BY <1>8 DEF CancelRelease, trackVars
    <2>2. notice'[q] \in {notice[q], "cancelled"} /\ \A p \in Requests \ {q} : notice'[p] = notice[p]
      BY <1>0, <1>8 DEF CancelRelease, Show, TypeOK
    <2>3. OnlyMoves(q)
      BY <2>1, <2>2 DEF OnlyMoves
    <2>4. NothingYet(q)'
      BY <2>1 DEF RowInv, NothingYet
    <2>5. stage[q] \in After /\ q \notin hurt => RowFits(q)
      BY DEF RowInv
    <2>6. stage'[q] \in After /\ q \notin hurt' => RowFits(q)'
      BY <2>1, <2>2, <2>5 DEF RowFits
    <2> QED
      BY <1>0, <2>1, <2>3, <2>4, <2>6, RowFrame
  <1>9. ASSUME UNCHANGED <<stage, trackVars, notice>>, hurt \subseteq hurt', done' \subseteq hurt'
        PROVE  RowInv'
    BY <1>9 DEF RowInv, NothingYet, RowFits, trackVars
  <1>10. ASSUME NEW q \in Requests, CancelFlag(q) PROVE RowInv'
    BY <1>0, <1>9, <1>10 DEF CancelFlag
  <1>11. ASSUME NEW q \in Requests, CtxDone(q) PROVE RowInv'
    BY <1>0, <1>9, <1>11 DEF CtxDone
  <1>12. ASSUME NEW u \in Users, ExpireUser(u) PROVE RowInv'
    BY <1>0, <1>9, <1>12 DEF ExpireUser
  <1>13. ASSUME NEW k \in Releases, ExpireRelease(k) PROVE RowInv'
    BY <1>0, <1>9, <1>13 DEF ExpireRelease
  <1>14. CASE Crash
    <2>1. UNCHANGED <<trackVars, notice, done>> /\ hurt \subseteq hurt'
      BY <1>14 DEF Crash
    <2>2. \A p \in Requests : stage'[p] = stage[p] \/ stage'[p] = "lost"
      BY <1>14 DEF Crash
    <2>3. \A p \in Requests : NothingYet(p)'
      BY <2>1, <2>2 DEF RowInv, NothingYet, Before, Early, trackVars
    <2>4. \A p \in Requests : stage'[p] \in After /\ p \notin hurt' => RowFits(p)'
      BY <2>1, <2>2 DEF RowInv, RowFits, After, trackVars
    <2> QED
      BY <1>0, <2>1, <2>3, <2>4 DEF RowInv
  <1>15. CASE UNCHANGED vars
    BY <1>0, <1>9, <1>15 DEF vars, trackVars
  <1> QED
    BY <1>1, <1>2, <1>3, <1>4, <1>5, <1>6, <1>7, <1>8, <1>10, <1>11, <1>12, <1>13, <1>14, <1>15
       DEF Next, RequestStep, BotStep, WorkerStep

\* A release key is never left behind by undisturbed workers, for any number
\* of them (TryAcquireReleaseLock, ReleaseReleaseLock).
THEOREM KeysAreReturned == Spec => []ReleaseNotLeaked
  <1>1. Init => ReleaseNotLeaked
    BY MusicAssumption DEF Init, ReleaseNotLeaked
  <1> QED
    BY <1>1, NotLeakedStep, Invariant, PTL DEF Spec

\* The history of downloads, the tracks sent and the status message agree,
\* whether the request is refused, is cancelled, breaks before its first track,
\* skips tracks or fails to write its row (runMusicDownload, finishMusicDownload).
THEOREM RowsMatchChat == Spec => []RecordMatchesChat
  <1>1. Init => RowInv
    BY DEF Init, RowInv, NothingYet, After
  <1>2. RowInv => RecordMatchesChat
    BY DEF RowInv, RowFits, After, RecordMatchesChat
  <1> QED
    BY <1>1, <1>2, RowStep, Invariant, PTL DEF Spec
=============================================================================
