------------------------- MODULE YouTubeCard_proofs -------------------------
(***************************************************************************)
(* Proofs about the format card: whatever cards, taps, texts and saves     *)
(* overlap, a task fits its video.  The sessions that the handlers under   *)
(* way carry are copies of sessions that were saved; all copies of one     *)
(* card's session agree on what the probe of that card told.               *)
(***************************************************************************)
EXTENDS YouTubeCard, TLAPS

-----------------------------------------------------------------------------
(* What the probe of a card told; probed[c] says whether card c's succeeded. *)
Told(c, probed) == probed[c] /\ Heights(shown[c]) # {}
Length(c, probed) == IF probed[c] THEN Videos[shown[c]].duration ELSE 0

(* A fragment is a proper one, within the length if that is known.           *)
Fits(range, length) == range[1] < range[2] /\ (length > 0 => range[2] =< length)

Options == [height : Nat, format : {<<>>} \cup ((DOMAIN Videos) \X Nat)]
SessionRecords ==
    [url : DOMAIN Videos, duration : Nat, options : SUBSET Options, awaiting : BOOLEAN,
     trim : Nat \X Nat, card : Nat, typedFor : Nat, blind : BOOLEAN]

Offered(o, v) == o.height \in Heights(v) /\ o.format = <<v, o.height>>

(* A session, saved or carried by a handler, agrees with the card it is of.  *)
SessionFits(sess, probed) ==
    /\ sess \in SessionRecords
    /\ sess.card \in DOMAIN shown /\ sess.typedFor \in DOMAIN shown
    /\ sess.url = shown[sess.card]
    /\ sess.duration = Length(sess.card, probed)
    /\ sess.blind = ~Told(sess.card, probed)
    /\ sess.blind \/ \A o \in sess.options : Offered(o, sess.url)
    /\ sess.trim # <<0, 0>> => Fits(sess.trim, Length(sess.typedFor, probed))

(* A range that is about to be set fits the card it was typed for.           *)
SetFits(set, probed) ==
    set # <<>> =>
        /\ set[1] \in Nat \X Nat
        /\ \/ set[1] = <<0, 0>> /\ set[2] = 0
           \/ set[2] \in DOMAIN shown /\ set[2] # 0 /\ Fits(set[1], Length(set[2], probed))

FlightFits(f, probed) ==
    /\ f.op \in {"none", "probe", "start", "get", "save"}
    /\ f.op = "probe" => f.card \in DOMAIN shown /\ f.url = shown[f.card]
    /\ f.op \in {"start", "save"} => SessionFits(f.session, probed)
    /\ f.op = "start" => /\ f.option \in Options /\ f.audio \in BOOLEAN
                         /\ f.audio \/ f.option \in f.session.options
    /\ f.op = "get" => f.awaiting \in BOOLEAN /\ SetFits(f.set, probed)

(* While a card is being probed, nothing else knows of it.                   *)
SessionWithout(sess, c) == sess.card # c /\ sess.typedFor # c
FlightWithout(f, c) ==
    /\ f.op = "probe" => f.card # c
    /\ f.op \in {"start", "save"} => SessionWithout(f.session, c)
    /\ f.op = "get" => (f.set # <<>> => f.set[2] # c)

ProbeIsFirst ==
    \A s \in CardSlots : flights[s].op = "probe" =>
        /\ session = NoSession \/ SessionWithout(session, flights[s].card)
        /\ \A t \in CardSlots \ {s} : FlightWithout(flights[t], flights[s].card)

CopiesFit(probed) ==
    /\ session = NoSession \/ SessionFits(session, probed)
    /\ \A s \in CardSlots : FlightFits(flights[s], probed)

CardShape ==
    /\ shown \in Seq(DOMAIN Videos)
    /\ metaCache \subseteq DOMAIN Videos
    /\ DOMAIN flights = CardSlots /\ flights = [s \in CardSlots |-> flights[s]]
    /\ taps \in 0..MaxTaps

(* The tasks: TaskFitsVideo says of each of them that it fits.               *)
TaskRecords ==
    [url : DOMAIN Videos, height : Nat, format : {<<>>} \cup ((DOMAIN Videos) \X Nat), audio : BOOLEAN,
     trim : Nat \X Nat, mixed : BOOLEAN, blind : BOOLEAN]

CardInv ==
    /\ CardShape
    /\ tasks \in Seq(TaskRecords)
    /\ TaskFitsVideo
    /\ ProbeIsFirst
    /\ \E probed \in [DOMAIN shown -> BOOLEAN] : CopiesFit(probed)

-----------------------------------------------------------------------------
(* Lemmas about the copies.                                                  *)

\* A slot without a handler fits and knows of no card.
LEMMA LandedFits ==
  ASSUME NEW probed PROVE FlightFits(Landed, probed) /\ \A c : FlightWithout(Landed, c)
  BY DEF Landed, FlightFits, FlightWithout

\* What a session says of its card does not depend on other cards.
LEMMA OtherProbe ==
  ASSUME NEW probed \in [DOMAIN shown -> BOOLEAN], NEW c \in DOMAIN shown, NEW ok \in BOOLEAN
  PROVE  LET later == [probed EXCEPT ![c] = ok]
         IN /\ \A sess : SessionFits(sess, probed) /\ SessionWithout(sess, c) => SessionFits(sess, later)
            /\ \A f : FlightFits(f, probed) /\ FlightWithout(f, c) => FlightFits(f, later)
  <1> DEFINE later == [probed EXCEPT ![c] = ok]
  <1>1. \A d \in DOMAIN shown : d # c => Told(d, later) = Told(d, probed) /\ Length(d, later) = Length(d, probed)
    BY DEF Told, Length
  <1> HIDE DEF later
  <1>2. ASSUME NEW sess, SessionFits(sess, probed), SessionWithout(sess, c) PROVE SessionFits(sess, later)
    BY <1>1, <1>2 DEF SessionFits, SessionWithout
  <1>3. ASSUME NEW f, FlightFits(f, probed), FlightWithout(f, c) PROVE FlightFits(f, later)
    <2>1. f.op = "get" => SetFits(f.set, later)
      BY <1>1, <1>3 DEF FlightFits, FlightWithout, SetFits
    <2>2. f.op \in {"start", "save"} => SessionFits(f.session, later)
      BY <1>2, <1>3 DEF FlightFits, FlightWithout
    <2> QED
      BY <1>3, <2>1, <2>2 DEF FlightFits
  <1> QED
    BY <1>2, <1>3 DEF later

\* A further card changes nothing about the cards before it.
LEMMA OneMoreCard ==
  ASSUME shown \in Seq(DOMAIN Videos), NEW v \in DOMAIN Videos, shown' = Append(shown, v),
         NEW probed \in [DOMAIN shown -> BOOLEAN], NEW later \in [DOMAIN shown' -> BOOLEAN],
         \A c \in DOMAIN shown : later[c] = probed[c]
  PROVE  /\ \A sess : SessionFits(sess, probed) => SessionFits(sess, later)'
         /\ \A f : FlightFits(f, probed) => FlightFits(f, later)'
  <1>1. \A c \in DOMAIN shown : /\ c \in DOMAIN shown' /\ shown'[c] = shown[c]
                                /\ Told(c, later)' = Told(c, probed)
                                /\ Length(c, later)' = Length(c, probed)
    BY DEF Told, Length
  <1>2. ASSUME NEW sess, SessionFits(sess, probed) PROVE SessionFits(sess, later)'
    BY <1>1, <1>2 DEF SessionFits
  <1>3. ASSUME NEW f, FlightFits(f, probed) PROVE FlightFits(f, later)'
    <2>1. f.op = "get" => SetFits(f.set, later)'
      BY <1>1, <1>3 DEF FlightFits, SetFits
    <2>2. f.op \in {"start", "save"} => SessionFits(f.session, later)'
      BY <1>2, <1>3 DEF FlightFits
    <2>3. f.op = "probe" => f.card \in DOMAIN shown' /\ f.url = shown'[f.card]
      BY <1>1, <1>3 DEF FlightFits
    <2> QED
      BY <1>3, <2>1, <2>2, <2>3 DEF FlightFits
  <1> QED
    BY <1>2, <1>3

\* A handler that starts, goes on or ends keeps the copies consistent when what
\* it carries fits and knows of no card that is still being probed.
LEMMA HandlerMoves ==
  ASSUME CardShape, ProbeIsFirst, UNCHANGED shown, NEW probed, CopiesFit(probed),
         NEW s \in CardSlots, NEW f, flights' = [flights EXCEPT ![s] = f],
         f.op # "probe", FlightFits(f, probed),
         session' = NoSession \/ SessionFits(session', probed),
         \A t \in CardSlots \ {s} : flights[t].op = "probe" =>
            /\ FlightWithout(f, flights[t].card)
            /\ session' = NoSession \/ SessionWithout(session', flights[t].card)
  PROVE  CopiesFit(probed)' /\ ProbeIsFirst'
  <1>1. /\ flights'[s] = f
        /\ \A t \in CardSlots \ {s} : flights'[t] = flights[t]
    BY DEF CardShape
  <1>2. \A g : FlightFits(g, probed) => FlightFits(g, probed)'
    BY DEF FlightFits, SessionFits, SetFits, Told, Length
  <1>3. \A t \in CardSlots : FlightFits(flights'[t], probed)
    BY <1>1 DEF CopiesFit
  <1>4. session' = NoSession \/ SessionFits(session, probed)'
    BY DEF SessionFits, Told, Length
  <1>5. CopiesFit(probed)'
    BY <1>2, <1>3, <1>4 DEF CopiesFit
  <1>6. ProbeIsFirst'
    <2> SUFFICES ASSUME NEW t \in CardSlots, flights'[t].op = "probe"
                 PROVE  /\ session' = NoSession \/ SessionWithout(session', flights'[t].card)
                        /\ \A u \in CardSlots \ {t} : FlightWithout(flights'[u], flights'[t].card)
      BY DEF ProbeIsFirst
    <2>1. t # s /\ flights'[t] = flights[t]
      BY <1>1
    <2>2. \A u \in CardSlots \ {t} : FlightWithout(flights'[u], flights[t].card)
      BY <1>1, <2>1 DEF ProbeIsFirst
    <2> QED
      BY <2>1, <2>2
  <1> QED
    BY <1>5, <1>6

\* What a handler made of the session alone carries fits: every tap and every text.
LEMMA TapTakesOff ==
  ASSUME CardInv, session # NoSession, UNCHANGED <<session, shown, metaCache, tasks>>,
         taps' \in 0..MaxTaps, NEW f, TakeOff(f), f.op # "probe",
         \A probed \in [DOMAIN shown -> BOOLEAN] : SessionFits(session, probed) => FlightFits(f, probed),
         \A c \in DOMAIN shown : SessionWithout(session, c) => FlightWithout(f, c)
  PROVE  CardInv'
  <1>1. PICK probed \in [DOMAIN shown -> BOOLEAN] : CopiesFit(probed)
    BY DEF CardInv
  <1>2. PICK s \in CardSlots : flights[s] = Landed /\ flights' = [flights EXCEPT ![s] = f]
    BY DEF TakeOff
  <1>3. FlightFits(f, probed) /\ SessionFits(session', probed)
    BY <1>1 DEF CopiesFit
  <1>4. \A t \in CardSlots \ {s} : flights[t].op = "probe" =>
            /\ FlightWithout(f, flights[t].card)
            /\ SessionWithout(session', flights[t].card)
    <2> SUFFICES ASSUME NEW t \in CardSlots, flights[t].op = "probe"
                 PROVE  FlightWithout(f, flights[t].card) /\ SessionWithout(session', flights[t].card)
      OBVIOUS
    <2>1. flights[t].card \in DOMAIN shown
      BY <1>1 DEF CopiesFit, FlightFits
    <2>2. SessionWithout(session, flights[t].card)
      BY DEF CardInv, ProbeIsFirst
    <2> QED
      BY <2>1, <2>2
  <1>5. CopiesFit(probed)' /\ ProbeIsFirst'
    BY <1>1, <1>2, <1>3, <1>4, HandlerMoves DEF CardInv
  <1>6. CardShape'
    BY <1>2 DEF CardInv, CardShape
  <1>7. tasks' \in Seq(TaskRecords) /\ TaskFitsVideo'
    BY DEF CardInv, TaskFitsVideo
  <1> QED
    BY <1>1, <1>5, <1>6, <1>7 DEF CardInv

-----------------------------------------------------------------------------
(* Lemmas about the tasks.                                                   *)
TaskFits(t) ==
    /\ t.audio \/ t.blind \/ (t.height \in Heights(t.url) /\ t.format = <<t.url, t.height>>)
    /\ (t.trim # <<0, 0>> /\ ~t.mixed) =>
         /\ t.trim[1] < t.trim[2]
         /\ (~t.blind /\ Videos[t.url].duration > 0) => t.trim[2] =< Videos[t.url].duration

\* A task that fits may be enqueued.
LEMMA OneMoreTask ==
  ASSUME tasks \in Seq(TaskRecords), TaskFitsVideo,
         NEW t \in TaskRecords, TaskFits(t), tasks' = Append(tasks, t)
  PROVE  tasks' \in Seq(TaskRecords) /\ TaskFitsVideo'
  <1>1. tasks' \in Seq(TaskRecords)
    OBVIOUS
  <1>2. \A i \in DOMAIN tasks' : tasks'[i] = t \/ (i \in DOMAIN tasks /\ tasks'[i] = tasks[i])
    OBVIOUS
  <1>3. \A i \in DOMAIN tasks : TaskFits(tasks[i])
    BY DEF TaskFitsVideo, TaskFits
  <1>4. \A i \in DOMAIN tasks' : TaskFits(tasks'[i])
    BY <1>2, <1>3
  <1>5. TaskFitsVideo'
    BY <1>4 DEF TaskFitsVideo, TaskFits
  <1> QED
    BY <1>1, <1>5

\* The payload made of a session that fits, with one of its options or for the
\* sound alone, fits the video (buildYouTubePayload).
LEMMA PayloadFits ==
  ASSUME NEW probed, NEW sess, SessionFits(sess, probed), NEW o \in Options, NEW audio \in BOOLEAN,
         audio \/ o \in sess.options
  PROVE  /\ buildYouTubePayload(sess, o, audio) \in TaskRecords
         /\ TaskFits(buildYouTubePayload(sess, o, audio))
  <1> DEFINE t == buildYouTubePayload(sess, o, audio)
  <1>1. /\ t.url = sess.url /\ t.height = o.height /\ t.format = o.format /\ t.audio = audio
        /\ t.trim = sess.trim /\ t.mixed = (sess.typedFor # sess.card) /\ t.blind = sess.blind
    BY DEF buildYouTubePayload
  <1>2. t \in TaskRecords
    BY DEF buildYouTubePayload, TaskRecords, SessionFits, SessionRecords, Options
  <1> HIDE DEF t
  <1>3. t.audio \/ t.blind \/ (t.height \in Heights(t.url) /\ t.format = <<t.url, t.height>>)
    BY <1>1 DEF SessionFits, Offered
  <1>4. ASSUME t.trim # <<0, 0>>, ~t.mixed
        PROVE  /\ t.trim[1] < t.trim[2]
               /\ (~t.blind /\ Videos[t.url].duration > 0) => t.trim[2] =< Videos[t.url].duration
    <2>1. Fits(sess.trim, Length(sess.card, probed))
      BY <1>1, <1>4 DEF SessionFits
    <2>2. ~t.blind => Length(sess.card, probed) = Videos[t.url].duration
      BY <1>1 DEF SessionFits, Told, Length
    <2> QED
      BY <1>1, <2>1, <2>2 DEF Fits
  <1> QED
    BY <1>2, <1>3, <1>4 DEF TaskFits, t

\* A typed range that is accepted is a proper one within the session's length.
LEMMA ParsedFits ==
  ASSUME NEW range \in Ranges \cup {NoRange}, NEW length \in Nat, ParseRange(range, length) # NoRange
  PROVE  /\ ParseRange(range, length) \in Nat \X Nat
         /\ Fits(ParseRange(range, length), length)
  <1> DEFINE end == IF length > 0 /\ range[2] > length THEN length ELSE range[2]
  <1>1. range # NoRange /\ range \in Nat \X Nat
    BY YouTubeCardAssumption DEF ParseRange
  <1>2. range[1] \in Nat /\ range[2] \in Nat /\ end \in Nat
    BY <1>1
  <1>3. /\ ParseRange(range, length) = <<range[1], end>>
        /\ ~(length > 0 /\ range[1] >= length) /\ ~(end =< range[1])
    BY <1>1 DEF ParseRange
  <1>4. length > 0 => end =< length
    BY <1>2
  <1> QED
    BY <1>2, <1>3, <1>4 DEF Fits

-----------------------------------------------------------------------------
(* One lemma per group of actions.                                           *)

\* A link makes a card; nothing knows of it before its probe has ended.
LEMMA LinkKeeps == ASSUME CardInv, NEW v \in DOMAIN Videos, handleYouTubeLink(v) PROVE CardInv'
  <1>12. PICK n : n = Len(shown) + 1
    OBVIOUS
  <1>13. PICK f : f = [op |-> "probe", url |-> v, card |-> n]
    OBVIOUS
  <1>1. PICK probed \in [DOMAIN shown -> BOOLEAN] : CopiesFit(probed)
    BY DEF CardInv
  <1>2. PICK s \in CardSlots : flights[s] = Landed /\ flights' = [flights EXCEPT ![s] = f]
    BY <1>12, <1>13 DEF handleYouTubeLink, TakeOff
  <1>3. shown' = Append(shown, v) /\ UNCHANGED <<session, metaCache, tasks, taps>>
    BY DEF handleYouTubeLink
  <1>4. /\ shown \in Seq(DOMAIN Videos) /\ shown' \in Seq(DOMAIN Videos)
        /\ n \in DOMAIN shown' /\ shown'[n] = v /\ n \notin DOMAIN shown
        /\ DOMAIN shown \subseteq DOMAIN shown'
    BY <1>3, <1>12 DEF CardInv, CardShape
  <1>5. PICK later \in [DOMAIN shown' -> BOOLEAN] : \A c \in DOMAIN shown : later[c] = probed[c]
    <2> DEFINE g == [c \in DOMAIN shown' |-> IF c \in DOMAIN shown THEN probed[c] ELSE FALSE]
    <2>1. g \in [DOMAIN shown' -> BOOLEAN] /\ \A c \in DOMAIN shown : g[c] = probed[c]
      BY <1>1, <1>4
    <2> QED
      BY <2>1
  <1>6. /\ \A sess : SessionFits(sess, probed) => SessionFits(sess, later)'
        /\ \A g : FlightFits(g, probed) => FlightFits(g, later)'
    BY <1>1, <1>3, <1>4, <1>5, OneMoreCard
  <1>7. /\ flights'[s] = f
        /\ \A t \in CardSlots \ {s} : flights'[t] = flights[t]
        /\ f.op = "probe" /\ f.card = n /\ f.url = v
    BY <1>2, <1>13 DEF CardInv, CardShape
  <1>8. CopiesFit(later)'
    <2>1. session' = NoSession \/ SessionFits(session, later)'
      <3>1. session = NoSession \/ SessionFits(session, probed)
        BY <1>1 DEF CopiesFit
      <3> QED
        BY <1>3, <1>6, <3>1 DEF SessionFits
    <2>2. FlightFits(f, later)'
      BY <1>4, <1>7 DEF FlightFits
    <2>3. ASSUME NEW t \in CardSlots PROVE FlightFits(flights[t], later)'
      <3>1. CASE t = s
        BY <1>7, <2>2, <3>1 DEF FlightFits
      <3>2. CASE t # s
        <4>1. FlightFits(flights[t], probed)
          BY <1>1 DEF CopiesFit
        <4> QED
          BY <1>6, <1>7, <3>2, <4>1 DEF FlightFits
      <3> QED
        BY <3>1, <3>2
    <2> QED
      BY <2>1, <2>3 DEF CopiesFit
  <1>9. ProbeIsFirst'
    <2>1. session = NoSession \/ SessionWithout(session, n)
      BY <1>1, <1>4 DEF CopiesFit, SessionFits, SessionWithout
    <2>2. \A t \in CardSlots : FlightWithout(flights[t], n)
      <3> SUFFICES ASSUME NEW t \in CardSlots PROVE FlightWithout(flights[t], n)
        OBVIOUS
      <3>1. FlightFits(flights[t], probed) /\ n # 0
        BY <1>1, <1>4 DEF CopiesFit
      <3> QED
        BY <1>4, <3>1 DEF FlightFits, FlightWithout, SessionFits, SessionWithout, SetFits
    <2>3. \A t \in CardSlots : flights[t].op = "probe" => flights[t].card # n
      BY <2>2 DEF FlightWithout
    <2>4. \A t \in CardSlots : flights[t].op = "probe" => FlightWithout(f, flights[t].card)
      BY <1>7, <2>3 DEF FlightWithout
    <2>5. ASSUME NEW t \in CardSlots, flights'[t].op = "probe"
          PROVE  /\ session' = NoSession \/ SessionWithout(session', flights'[t].card)
                 /\ \A u \in CardSlots \ {t} : FlightWithout(flights'[u], flights'[t].card)
      <3>1. CASE t = s
        BY <1>3, <1>7, <2>1, <2>2, <3>1
      <3>2. CASE t # s
        <4>1. flights'[t] = flights[t] /\ flights[t].op = "probe"
          BY <1>7, <2>5, <3>2
        <4>2. session' = NoSession \/ SessionWithout(session', flights[t].card)
          BY <1>3, <4>1 DEF CardInv, ProbeIsFirst
        <4>3. \A u \in CardSlots \ {t} : FlightWithout(flights'[u], flights[t].card)
          BY <1>7, <2>4, <4>1 DEF CardInv, ProbeIsFirst
        <4> QED
          BY <4>1, <4>2, <4>3
      <3> QED
        BY <3>1, <3>2
    <2> QED
      BY <2>5 DEF ProbeIsFirst
  <1>10. CardShape'
    BY <1>2, <1>3, <1>4 DEF CardInv, CardShape
  <1>11. tasks' \in Seq(TaskRecords) /\ TaskFitsVideo'
    BY <1>3 DEF CardInv, TaskFitsVideo
  <1> QED
    BY <1>5, <1>8, <1>9, <1>10, <1>11 DEF CardInv

\* The probe ends: what it told is what every later copy of the session says.
LEMMA ProbeKeeps ==
  ASSUME CardInv, NEW s \in CardSlots, NEW ok \in BOOLEAN, probeYouTube(s, ok) PROVE CardInv'
  <1>1. PICK probed \in [DOMAIN shown -> BOOLEAN] : CopiesFit(probed)
    BY DEF CardInv
  <1>2. PICK c : c = flights[s].card
    OBVIOUS
  <1>3. PICK v : v = flights[s].url
    OBVIOUS
  <1>4. c \in DOMAIN shown /\ shown[c] = v /\ v \in DOMAIN Videos /\ flights[s].op = "probe" /\ c \in Nat
    <2>1. flights[s].op = "probe" /\ FlightFits(flights[s], probed)
      BY <1>1 DEF probeYouTube, CopiesFit
    <2> QED
      BY <1>2, <1>3, <2>1 DEF FlightFits, CardInv, CardShape
  <1>5. /\ session' = [url |-> v, duration |-> IF ok THEN Videos[v].duration ELSE 0,
                       options |-> youtubeOptions(v, ok), awaiting |-> FALSE,
                       trim |-> <<0, 0>>, card |-> c, typedFor |-> c,
                       blind |-> ~(ok /\ Heights(v) # {})]
        /\ metaCache' \in {metaCache, metaCache \cup {v}}
        /\ flights' = [flights EXCEPT ![s] = Landed]
        /\ UNCHANGED <<shown, tasks, taps>>
    BY <1>2, <1>3 DEF probeYouTube, Land, Continue
  <1>6. PICK later \in [DOMAIN shown -> BOOLEAN] : later = [probed EXCEPT ![c] = ok]
    <2>1. [probed EXCEPT ![c] = ok] \in [DOMAIN shown -> BOOLEAN]
      BY <1>1
    <2> QED
      BY <2>1
  <1>7. later[c] = ok
    BY <1>1, <1>4, <1>6
  <1>8. youtubeOptions(v, ok) \subseteq Options
    <2> SUFFICES ASSUME NEW o \in youtubeOptions(v, ok) PROVE o \in Options
      OBVIOUS
    <2>1. PICK h \in AllowedHeights : \/ o = [height |-> h, format |-> <<v, h>>]
                                      \/ o = [height |-> h, format |-> <<>>]
      BY DEF youtubeOptions, Heights
    <2>2. h \in Nat
      BY YouTubeCardAssumption
    <2>3. <<v, h>> \in (DOMAIN Videos) \X Nat
      BY <1>4, <2>2
    <2> QED
      BY <2>1, <2>2, <2>3 DEF Options
  <1>9. ~(ok /\ Heights(v) # {}) \/ \A o \in youtubeOptions(v, ok) : Offered(o, v)
    BY DEF youtubeOptions, Offered
  <1>10. session' \in SessionRecords
    <2>1. (IF ok THEN Videos[v].duration ELSE 0) \in Nat
      BY <1>4, YouTubeCardAssumption
    <2> QED
      BY <1>4, <1>5, <1>8, <2>1 DEF SessionRecords
  <1>11. SessionFits(session', later)
    <2>1. /\ session'.card = c /\ session'.typedFor = c /\ session'.url = v
          /\ session'.duration = (IF ok THEN Videos[v].duration ELSE 0)
          /\ session'.blind = ~(ok /\ Heights(v) # {})
          /\ session'.options = youtubeOptions(v, ok)
          /\ session'.trim = <<0, 0>>
      BY <1>5
    <2>2. Length(c, later) = (IF ok THEN Videos[v].duration ELSE 0)
      BY <1>4, <1>7 DEF Length
    <2>3. Told(c, later) = (ok /\ Heights(v) # {})
      BY <1>4, <1>7 DEF Told
    <2> QED
      BY <1>4, <1>9, <1>10, <2>1, <2>2, <2>3 DEF SessionFits
  <1>12. \A t \in CardSlots \ {s} : FlightWithout(flights[t], c) /\ FlightFits(flights[t], later)
    <2>1. \A t \in CardSlots \ {s} : FlightWithout(flights[t], c)
      BY <1>2, <1>4 DEF CardInv, ProbeIsFirst
    <2>2. \A f : FlightFits(f, probed) /\ FlightWithout(f, c) => FlightFits(f, later)
      BY <1>1, <1>4, <1>6, OtherProbe
    <2> QED
      BY <1>1, <2>1, <2>2 DEF CopiesFit
  <1>13. /\ flights'[s] = Landed
         /\ \A t \in CardSlots \ {s} : flights'[t] = flights[t]
    BY <1>5 DEF CardInv, CardShape
  <1>14. CopiesFit(later)'
    <2>1. \A t \in CardSlots : FlightFits(flights'[t], later)
      BY <1>12, <1>13, LandedFits
    <2>2. \A g : FlightFits(g, later) => FlightFits(g, later)'
      BY <1>5 DEF FlightFits, SessionFits, SetFits, Told, Length
    <2>3. SessionFits(session, later)'
      BY <1>5, <1>11 DEF SessionFits, Told, Length
    <2> QED
      BY <2>1, <2>2, <2>3 DEF CopiesFit
  <1>15. ProbeIsFirst'
    <2> SUFFICES ASSUME NEW t \in CardSlots, flights'[t].op = "probe"
                 PROVE  /\ SessionWithout(session', flights'[t].card)
                        /\ \A u \in CardSlots \ {t} : FlightWithout(flights'[u], flights'[t].card)
      BY DEF ProbeIsFirst
    <2>1. t # s /\ flights'[t] = flights[t]
      BY <1>13 DEF Landed
    <2>2. flights[t].card # c
      BY <1>12, <2>1 DEF FlightWithout
    <2>3. SessionWithout(session', flights[t].card)
      BY <1>5, <2>2 DEF SessionWithout
    <2>4. \A u \in CardSlots \ {t} : FlightWithout(flights[u], flights[t].card)
      BY <2>1 DEF CardInv, ProbeIsFirst
    <2>5. \A u \in CardSlots \ {t} : FlightWithout(flights'[u], flights[t].card)
      BY <1>13, <2>4, LandedFits
    <2> QED
      BY <2>1, <2>3, <2>5
  <1>16. CardShape'
    BY <1>4, <1>5 DEF CardInv, CardShape
  <1>17. tasks' \in Seq(TaskRecords) /\ TaskFitsVideo'
    BY <1>5 DEF CardInv, TaskFitsVideo
  <1> QED
    BY <1>5, <1>14, <1>15, <1>16, <1>17 DEF CardInv

\* A tap without effect, or on an expired session, changes nothing but the count.
LEMMA Unheard ==
  ASSUME CardInv, UNCHANGED <<session, shown, metaCache, flights, tasks>>, taps' \in 0..MaxTaps
  PROVE  CardInv'
  <1>1. CardShape' /\ TaskFitsVideo' /\ ProbeIsFirst'
    BY DEF CardInv, CardShape, TaskFitsVideo, ProbeIsFirst
  <1>2. ASSUME NEW probed, CopiesFit(probed) PROVE CopiesFit(probed)'
    BY <1>2 DEF CopiesFit, SessionFits, FlightFits, SetFits, Told, Length
  <1> QED
    BY <1>1, <1>2 DEF CardInv

LEMMA TapsBounded == CardInv /\ UserActs => taps' \in 0..MaxTaps
  BY YouTubeCardAssumption DEF CardInv, CardShape, UserActs

\* A tap on a quality, a button or a text: the handler carries the session it
\* read, whatever card was tapped.
LEMMA TapKeeps ==
  ASSUME CardInv,
         \/ \E c \in DOMAIN shown, h \in AllowedHeights : onQualityChoice(c, h)
         \/ \E c \in DOMAIN shown, a \in {"mp3", "trim", "trimoff"} : onYouTubeAction(c, a)
         \/ \E r \in Ranges \cup {NoRange} : handleYouTubeTrimInput(r)
         \/ linkInstead
  PROVE  CardInv'
  <1>1. UNCHANGED <<session, shown, metaCache, tasks>> /\ taps' \in 0..MaxTaps
    BY TapsBounded DEF onQualityChoice, onYouTubeAction, handleYouTubeTrimInput, linkInstead
  <1>2. CASE UNCHANGED flights
    BY <1>1, <1>2, Unheard
  <1>3. ASSUME NEW o \in session.options, session # NoSession,
               TakeOff([op |-> "start", session |-> session, option |-> o, audio |-> FALSE])
        PROVE  CardInv'
    <2> DEFINE f == [op |-> "start", session |-> session, option |-> o, audio |-> FALSE]
    <2>1. f.op = "start" /\ f.session = session /\ f.option = o /\ f.audio = FALSE
      OBVIOUS
    <2>2. TakeOff(f)
      BY <1>3
    <2> HIDE DEF f
    <2>3. \A probed : SessionFits(session, probed) => FlightFits(f, probed)
      BY <1>3, <2>1 DEF FlightFits, SessionFits, SessionRecords
    <2>4. \A c : SessionWithout(session, c) => FlightWithout(f, c)
      BY <2>1 DEF FlightWithout
    <2> QED
      BY <1>1, <1>3, <2>1, <2>2, <2>3, <2>4, TapTakesOff
  <1>4. ASSUME session # NoSession,
               TakeOff([op |-> "start", session |-> session, audio |-> TRUE,
                        option |-> [height |-> 0, format |-> <<>>]])
        PROVE  CardInv'
    <2> DEFINE f == [op |-> "start", session |-> session, audio |-> TRUE,
                     option |-> [height |-> 0, format |-> <<>>]]
    <2>1. f.op = "start" /\ f.session = session /\ f.option \in Options /\ f.audio = TRUE
      BY DEF Options
    <2>2. TakeOff(f)
      BY <1>4
    <2> HIDE DEF f
    <2>3. \A probed : SessionFits(session, probed) => FlightFits(f, probed)
      BY <2>1 DEF FlightFits
    <2>4. \A c : SessionWithout(session, c) => FlightWithout(f, c)
      BY <2>1 DEF FlightWithout
    <2> QED
      BY <1>1, <1>4, <2>1, <2>2, <2>3, <2>4, TapTakesOff
  <1>5. ASSUME session # NoSession, NEW a \in BOOLEAN, NEW set,
               TakeOff([op |-> "get", awaiting |-> a, set |-> set]),
               \A probed \in [DOMAIN shown -> BOOLEAN] : SessionFits(session, probed) => SetFits(set, probed),
               \A c \in DOMAIN shown : SessionWithout(session, c) /\ set # <<>> => set[2] # c
        PROVE  CardInv'
    <2> DEFINE f == [op |-> "get", awaiting |-> a, set |-> set]
    <2>1. f.op = "get" /\ f.awaiting = a /\ f.set = set
      OBVIOUS
    <2>2. TakeOff(f)
      BY <1>5
    <2> HIDE DEF f
    <2>3. \A probed \in [DOMAIN shown -> BOOLEAN] : SessionFits(session, probed) => FlightFits(f, probed)
      BY <1>5, <2>1 DEF FlightFits
    <2>4. \A c \in DOMAIN shown : SessionWithout(session, c) => FlightWithout(f, c)
      BY <1>5, <2>1 DEF FlightWithout
    <2> QED
      BY <1>1, <1>5, <2>1, <2>2, <2>3, <2>4, TapTakesOff
  <1>6. 0 \notin DOMAIN shown
    BY DEF CardInv, CardShape
  <1>7. ASSUME NEW c \in DOMAIN shown, NEW h \in AllowedHeights, onQualityChoice(c, h) PROVE CardInv'
    BY <1>2, <1>3, <1>7 DEF onQualityChoice, OptionFor
  <1>8. ASSUME NEW c \in DOMAIN shown, NEW b \in {"mp3", "trim", "trimoff"}, onYouTubeAction(c, b)
        PROVE  CardInv'
    <2>1. \/ UNCHANGED flights
          \/ /\ session # NoSession
             /\ \/ TakeOff([op |-> "start", session |-> session, audio |-> TRUE,
                            option |-> [height |-> 0, format |-> <<>>]])
                \/ TakeOff([op |-> "get", awaiting |-> TRUE, set |-> <<>>])
                \/ TakeOff([op |-> "get", awaiting |-> FALSE, set |-> <<<<0, 0>>, 0>>])
      BY <1>8 DEF onYouTubeAction
    <2>2. CASE session # NoSession /\ TakeOff([op |-> "get", awaiting |-> TRUE, set |-> <<>>])
      BY <1>5, <2>2 DEF SetFits
    <2>3. CASE session # NoSession /\ TakeOff([op |-> "get", awaiting |-> FALSE, set |-> <<<<0, 0>>, 0>>])
      <3>1. \A probed : SetFits(<<<<0, 0>>, 0>>, probed)
        BY DEF SetFits
      <3>2. \A d \in DOMAIN shown : <<<<0, 0>>, 0>>[2] # d
        BY <1>6
      <3> QED
        BY <1>5, <2>3, <3>1, <3>2
    <2> QED
      BY <1>2, <1>4, <2>1, <2>2, <2>3
  <1>9. ASSUME NEW r \in Ranges \cup {NoRange}, handleYouTubeTrimInput(r) PROVE CardInv'
    <2> DEFINE parsed == ParseRange(r, session.duration)
               set == <<parsed, session.card>>
    <2>1. /\ session # NoSession
          /\ \/ UNCHANGED flights
             \/ parsed # NoRange /\ TakeOff([op |-> "get", awaiting |-> FALSE, set |-> set])
      BY <1>9 DEF handleYouTubeTrimInput
    <2>2. CASE parsed # NoRange /\ TakeOff([op |-> "get", awaiting |-> FALSE, set |-> set])
      <3>1. set[1] = parsed /\ set[2] = session.card
        OBVIOUS
      <3>2. ASSUME NEW probed, SessionFits(session, probed) PROVE SetFits(set, probed)
        <4>1. /\ session.duration \in Nat /\ session.duration = Length(session.card, probed)
              /\ session.card \in DOMAIN shown
          BY <3>2 DEF SessionFits, SessionRecords
        <4>2. parsed \in Nat \X Nat /\ Fits(parsed, session.duration)
          BY <2>2, <4>1, ParsedFits
        <4> HIDE DEF parsed, set
        <4>3. session.card # 0
          BY <1>6, <4>1
        <4> QED
          BY <3>1, <4>1, <4>2, <4>3 DEF SetFits
      <3>3. \A c : SessionWithout(session, c) => set[2] # c
        BY <3>1 DEF SessionWithout
      <3> HIDE DEF set, parsed
      <3> QED
        BY <1>5, <2>1, <2>2, <3>2, <3>3
    <2> QED
      BY <1>2, <2>1, <2>2
  <1>10. CASE linkInstead
    <2>1. session # NoSession /\ TakeOff([op |-> "get", awaiting |-> FALSE, set |-> <<>>])
      BY <1>10 DEF linkInstead
    <2> QED
      BY <1>5, <2>1 DEF SetFits
  <1> QED
    BY <1>7, <1>8, <1>9, <1>10

\* A download starts with the session its handler carries; a Short without one.
LEMMA StartKeeps ==
  ASSUME CardInv,
         \/ \E s \in CardSlots, ok \in BOOLEAN : startYouTubeDownload(s, ok)
         \/ \E v \in DOMAIN Videos : startYouTubeShortsDownload(v)
  PROVE  CardInv'
  <1>1. ASSUME NEW s \in CardSlots, NEW ok \in BOOLEAN, startYouTubeDownload(s, ok) PROVE CardInv'
    <2>1. PICK probed \in [DOMAIN shown -> BOOLEAN] : CopiesFit(probed)
      BY DEF CardInv
    <2> DEFINE f == flights[s]
               t == buildYouTubePayload(f.session, f.option, f.audio)
    <2>2. /\ f.op = "start" /\ session' = NoSession
          /\ tasks' = tasks \/ tasks' = Append(tasks, t)
          /\ flights' = [flights EXCEPT ![s] = Landed]
          /\ UNCHANGED <<shown, metaCache, taps>>
      BY <1>1 DEF startYouTubeDownload, Land, Continue
    <2>3. FlightFits(f, probed)
      BY <2>1 DEF CopiesFit
    <2>4. t \in TaskRecords /\ TaskFits(t)
      BY <2>2, <2>3, PayloadFits DEF FlightFits
    <2> HIDE DEF t
    <2>5. tasks' \in Seq(TaskRecords) /\ TaskFitsVideo'
      <3>1. CASE tasks' = tasks
        BY <3>1 DEF CardInv, TaskFitsVideo
      <3>2. CASE tasks' = Append(tasks, t)
        BY <2>4, <3>2, OneMoreTask DEF CardInv
      <3> QED
        BY <2>2, <3>1, <3>2
    <2>6. Landed.op # "probe"
      BY DEF Landed
    <2>7. CopiesFit(probed)' /\ ProbeIsFirst'
      BY <2>1, <2>2, <2>6, LandedFits, HandlerMoves DEF CardInv
    <2>8. CardShape'
      BY <2>2 DEF CardInv, CardShape
    <2> QED
      BY <2>1, <2>2, <2>5, <2>7, <2>8 DEF CardInv
  <1>2. ASSUME NEW v \in DOMAIN Videos, startYouTubeShortsDownload(v) PROVE CardInv'
    <2> DEFINE t == [url |-> v, height |-> topAllowedQuality, format |-> <<>>, audio |-> FALSE,
                     trim |-> <<0, 0>>, mixed |-> FALSE, blind |-> TRUE]
    <2>1. /\ tasks' = Append(tasks, t) /\ taps' \in 0..MaxTaps
          /\ UNCHANGED <<session, shown, metaCache, flights>>
      BY <1>2, TapsBounded DEF startYouTubeShortsDownload
    <2>2. topAllowedQuality \in Nat
      BY YouTubeCardAssumption DEF topAllowedQuality
    <2>3. t \in TaskRecords
      BY <2>2 DEF TaskRecords
    <2>4. TaskFits(t)
      BY DEF TaskFits
    <2> HIDE DEF t
    <2>5. tasks' \in Seq(TaskRecords) /\ TaskFitsVideo'
      BY <2>1, <2>3, <2>4, OneMoreTask DEF CardInv
    <2>6. CardShape' /\ ProbeIsFirst'
      BY <2>1 DEF CardInv, CardShape, ProbeIsFirst
    <2>7. ASSUME NEW probed, CopiesFit(probed) PROVE CopiesFit(probed)'
      BY <2>1, <2>7 DEF CopiesFit, SessionFits, FlightFits, SetFits, Told, Length
    <2> QED
      BY <2>1, <2>5, <2>6, <2>7 DEF CardInv
  <1> QED
    BY <1>1, <1>2

\* SetTrim and SetAwaitingTrim: a range is set in the session read at that
\* moment, under the name of the card it was typed for.
LEMMA MutateKeeps ==
  ASSUME CardInv, NEW s \in CardSlots, mutateGet(s) \/ mutateSave(s) PROVE CardInv'
  <1>1. PICK probed \in [DOMAIN shown -> BOOLEAN] : CopiesFit(probed)
    BY DEF CardInv
  <1>2. FlightFits(flights[s], probed)
    BY <1>1 DEF CopiesFit
  <1>3. UNCHANGED <<shown, metaCache, tasks, taps>>
    BY DEF mutateGet, mutateSave
  <1>4. ASSUME NEW f, flights' = [flights EXCEPT ![s] = f], f.op # "probe", FlightFits(f, probed),
               session' = NoSession \/ SessionFits(session', probed),
               \A t \in CardSlots \ {s} : flights[t].op = "probe" =>
                  /\ FlightWithout(f, flights[t].card)
                  /\ session' = NoSession \/ SessionWithout(session', flights[t].card)
        PROVE  CardInv'
    <2>1. CopiesFit(probed)' /\ ProbeIsFirst'
      BY <1>1, <1>3, <1>4, HandlerMoves DEF CardInv
    <2>2. CardShape' /\ TaskFitsVideo'
      BY <1>3, <1>4 DEF CardInv, CardShape, TaskFitsVideo
    <2> QED
      BY <1>1, <1>3, <2>1, <2>2 DEF CardInv
  <1>5. \A t \in CardSlots \ {s} : flights[t].op = "probe" =>
           /\ flights[t].card \in DOMAIN shown
           /\ session = NoSession \/ SessionWithout(session, flights[t].card)
           /\ FlightWithout(flights[s], flights[t].card)
    BY <1>1 DEF CardInv, ProbeIsFirst, CopiesFit, FlightFits
  <1>6. Landed.op # "probe"
    BY DEF Landed
  <1>7. CASE mutateSave(s)
    <2>1. /\ flights[s].op = "save" /\ session' = flights[s].session
          /\ flights' = [flights EXCEPT ![s] = Landed]
      BY <1>7 DEF mutateSave, Land, Continue
    <2>2. SessionFits(session', probed)
      BY <1>2, <2>1 DEF FlightFits
    <2>3. \A t \in CardSlots \ {s} : flights[t].op = "probe" => SessionWithout(session', flights[t].card)
      BY <1>5, <2>1 DEF FlightWithout
    <2> QED
      BY <1>4, <1>6, <2>1, <2>2, <2>3, LandedFits
  <1>8. CASE mutateGet(s) /\ session = NoSession
    <2>1. session' = NoSession /\ flights' = [flights EXCEPT ![s] = Landed]
      BY <1>8 DEF mutateGet, Land, Continue
    <2> QED
      BY <1>4, <1>6, <2>1, LandedFits
  <1>9. CASE mutateGet(s) /\ session # NoSession
    <2> DEFINE set == flights[s].set
               kept == [session EXCEPT !.awaiting = flights[s].awaiting]
    <2>1. PICK sess : sess = IF set = <<>> THEN kept
                             ELSE [kept EXCEPT !.trim = set[1],
                                               !.typedFor = IF set[2] = 0 THEN @ ELSE set[2]]
      OBVIOUS
    <2>2. PICK f : f = [op |-> "save", session |-> sess]
      OBVIOUS
    <2>3. session' = session /\ flights[s].op = "get" /\ flights' = [flights EXCEPT ![s] = f]
      BY <1>9, <2>1, <2>2 DEF mutateGet, Continue
    <2>4. SessionFits(session, probed) /\ flights[s].awaiting \in BOOLEAN /\ SetFits(set, probed)
      BY <1>1, <1>2, <1>9, <2>3 DEF CopiesFit, FlightFits
    <2>5. kept \in SessionRecords /\ SessionFits(kept, probed)
          /\ kept.card = session.card /\ kept.typedFor = session.typedFor
      <3>1. /\ kept \in SessionRecords
            /\ kept.url = session.url /\ kept.duration = session.duration /\ kept.options = session.options
            /\ kept.trim = session.trim /\ kept.card = session.card /\ kept.typedFor = session.typedFor
            /\ kept.blind = session.blind
        BY <2>4 DEF SessionFits, SessionRecords
      <3> HIDE DEF kept
      <3> QED
        BY <2>4, <3>1 DEF SessionFits
    <2> HIDE DEF kept
    <2>6. /\ SessionFits(sess, probed) /\ sess.card = session.card
          /\ sess.typedFor = session.typedFor \/ (set # <<>> /\ sess.typedFor = set[2])
      <3>1. CASE set = <<>>
        BY <2>1, <2>5, <3>1
      <3>2. CASE set # <<>> /\ set[1] = <<0, 0>> /\ set[2] = 0
        <4>1. sess = [kept EXCEPT !.trim = <<0, 0>>, !.typedFor = kept.typedFor]
          BY <2>1, <2>5, <3>2 DEF SessionRecords
        <4>2. /\ sess \in SessionRecords
              /\ sess.url = kept.url /\ sess.duration = kept.duration /\ sess.options = kept.options
              /\ sess.trim = <<0, 0>> /\ sess.card = kept.card /\ sess.typedFor = kept.typedFor
              /\ sess.blind = kept.blind
          BY <2>5, <4>1 DEF SessionRecords
        <4> QED
          BY <2>5, <4>2 DEF SessionFits
      <3>3. CASE set # <<>> /\ set[2] \in DOMAIN shown /\ set[2] # 0 /\ Fits(set[1], Length(set[2], probed))
        <4>1. sess = [kept EXCEPT !.trim = set[1], !.typedFor = set[2]]
          BY <2>1, <2>5, <3>3 DEF SessionRecords
        <4>2. set[1] \in Nat \X Nat /\ set[2] \in Nat
          BY <2>4, <3>3 DEF SetFits, CardInv, CardShape
        <4>3. /\ sess \in SessionRecords
              /\ sess.url = kept.url /\ sess.duration = kept.duration /\ sess.options = kept.options
              /\ sess.trim = set[1] /\ sess.card = kept.card /\ sess.typedFor = set[2]
              /\ sess.blind = kept.blind
          BY <2>5, <4>1, <4>2 DEF SessionRecords
        <4> QED
          BY <2>5, <3>3, <4>3 DEF SessionFits
      <3> QED
        BY <2>4, <3>1, <3>2, <3>3 DEF SetFits
    <2>7. f.op = "save" /\ f.session = sess
      BY <2>2
    <2>8. FlightFits(f, probed)
      BY <2>6, <2>7 DEF FlightFits
    <2>9. \A t \in CardSlots \ {s} : flights[t].op = "probe" =>
             /\ FlightWithout(f, flights[t].card)
             /\ SessionWithout(session, flights[t].card)
      BY <1>5, <1>9, <2>3, <2>6, <2>7 DEF FlightWithout, SessionWithout
    <2> QED
      BY <1>4, <2>3, <2>4, <2>7, <2>8, <2>9
  <1> QED
    BY <1>7, <1>8, <1>9

\* An expired session is gone; the handlers keep their copies.
LEMMA ExpiryKeeps == ASSUME CardInv, SessionExpires PROVE CardInv'
  <1>1. session' = NoSession /\ UNCHANGED <<shown, metaCache, flights, tasks, taps>>
    BY DEF SessionExpires
  <1>2. CardShape' /\ TaskFitsVideo' /\ ProbeIsFirst'
    BY <1>1 DEF CardInv, CardShape, TaskFitsVideo, ProbeIsFirst
  <1>3. ASSUME NEW probed, CopiesFit(probed) PROVE CopiesFit(probed)'
    BY <1>1, <1>3 DEF CopiesFit, SessionFits, FlightFits, SetFits, Told, Length
  <1> QED
    BY <1>1, <1>2, <1>3 DEF CardInv

-----------------------------------------------------------------------------
\* Before the first link there is nothing to fit.
LEMMA CardInit == YouTubeCardInit => CardInv
  <1> SUFFICES ASSUME YouTubeCardInit PROVE CardInv
    OBVIOUS
  <1>1. CardShape /\ tasks \in Seq(TaskRecords) /\ TaskFitsVideo
    BY YouTubeCardAssumption DEF YouTubeCardInit, CardShape, TaskFitsVideo
  <1>2. ProbeIsFirst
    BY DEF YouTubeCardInit, ProbeIsFirst, Landed
  <1>3. \A probed : CopiesFit(probed)
    BY LandedFits DEF YouTubeCardInit, CopiesFit
  <1>4. [c \in DOMAIN shown |-> FALSE] \in [DOMAIN shown -> BOOLEAN]
    OBVIOUS
  <1> QED
    BY <1>1, <1>2, <1>3, <1>4 DEF CardInv

\* CardInv is inductive.
LEMMA CardStep == CardInv /\ YouTubeCardNext => CardInv'
  BY LinkKeeps, ProbeKeeps, TapKeeps, StartKeeps, MutateKeeps, ExpiryKeeps DEF YouTubeCardNext

\* CardInv speaks of the variables of the card only.
LEMMA CardSame == CardInv /\ UNCHANGED cardVars => CardInv'
  BY Unheard DEF cardVars, CardInv, CardShape

\* The variables of the card have their types.
LEMMA CardTypes == CardInv => YouTubeCardTypeOK
  <1> SUFFICES ASSUME CardInv PROVE YouTubeCardTypeOK
    OBVIOUS
  <1>1. session = NoSession \/ session.url \in DOMAIN Videos
    BY DEF CardInv, CopiesFit, SessionFits, SessionRecords
  <1>2. \A i \in DOMAIN tasks : tasks[i].url \in DOMAIN Videos
    <2> SUFFICES ASSUME NEW i \in DOMAIN tasks PROVE tasks[i].url \in DOMAIN Videos
      OBVIOUS
    <2>1. tasks[i] \in TaskRecords
      BY DEF CardInv
    <2> QED
      BY <2>1 DEF TaskRecords
  <1> QED
    BY <1>1, <1>2 DEF CardInv, CardShape, YouTubeCardTypeOK
=============================================================================
