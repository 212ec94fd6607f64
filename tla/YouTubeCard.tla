---------------------------- MODULE YouTubeCard ----------------------------
(***************************************************************************)
(* The format card of a YouTube link (internal/handler/youtube.go,         *)
(* internal/youtube).  A link is probed, its options are saved in the      *)
(* user's session in Redis and shown on a card whose buttons choose a      *)
(* quality, the sound track or a fragment.  There is one session per user, *)
(* not per card: a tap on any card uses the session of the newest link.    *)
(* The session is changed by reading, changing and writing it back, so two *)
(* handlers may undo each other; it expires after 15 minutes.              *)
(*                                                                         *)
(* One user; ids of heights and times are small numbers.                   *)
(***************************************************************************)
EXTENDS Integers, Sequences, FiniteSets

CONSTANTS
    Videos,        \* video -> [heights : what it offers, duration : 0 if unknown]
    AllowedHeights,\* youtube.allowed_qualities
    Ranges,        \* typed fragments: <<start, end>>
    CardSlots,     \* bound: handlers under way at once
    MaxCards,      \* bound: cards sent
    MaxTaps        \* bound: taps and texts of the user

ASSUME YouTubeCardAssumption ==
    /\ MaxTaps \in Nat /\ Ranges \subseteq Nat \X Nat /\ AllowedHeights \subseteq Nat
    /\ \E h \in AllowedHeights : \A g \in AllowedHeights : g =< h
    /\ \A v \in DOMAIN Videos : Videos[v].duration \in Nat

VARIABLES
    session,   \* yt_pending:<user>, NoSession when missing
    shown,     \* cards sent: sequence of videos
    metaCache, \* yt_meta:*: videos whose probe is cached
    flights,   \* [CardSlots -> handler under way]
    tasks,     \* payloads enqueued
    taps       \* taps and texts so far

cardVars == <<session, shown, metaCache, flights, tasks, taps>>

(* The session; typedFor and blind are history: the card its fragment was   *)
(* typed for, and whether its options were offered without a probe.         *)
NoSession == [url |-> "none"]
NoRange == <<>>     \* a text that is no fragment
Landed == [op |-> "none"]
Heights(v) == Videos[v].heights \cap AllowedHeights

YouTubeCardTypeOK ==
    /\ session = NoSession \/ session.url \in DOMAIN Videos
    /\ \A i \in DOMAIN shown : shown[i] \in DOMAIN Videos
    /\ metaCache \subseteq DOMAIN Videos
    /\ DOMAIN flights = CardSlots
    /\ \A i \in DOMAIN tasks : tasks[i].url \in DOMAIN Videos
    /\ taps \in 0..MaxTaps

YouTubeCardInit ==
    /\ session = NoSession
    /\ shown = <<>>
    /\ metaCache = {}
    /\ flights = [s \in CardSlots |-> Landed]
    /\ tasks = <<>>
    /\ taps = 0

TakeOff(f) == \E s \in CardSlots : /\ flights[s] = Landed
                                   /\ flights' = [flights EXCEPT ![s] = f]
Continue(s, f) == flights' = [flights EXCEPT ![s] = f]
Land(s) == Continue(s, Landed)
UserActs == taps < MaxTaps /\ taps' = taps + 1

(***************************************************************************)
(* A link: the message "fetching info" goes out first, the probe may take  *)
(* its time or fail; only then is the session saved and the card drawn.    *)
(***************************************************************************)
handleYouTubeLink(v) ==
    /\ Len(shown) < MaxCards
    /\ shown' = Append(shown, v)
    /\ TakeOff([op |-> "probe", url |-> v, card |-> Len(shown) + 1])
    /\ UNCHANGED <<session, metaCache, tasks, taps>>

(* The qualities the video has, and every allowed one where the probe told   *)
(* nothing.                                                                  *)
youtubeOptions(v, probed) ==
    IF probed /\ Heights(v) # {}
    THEN {[height |-> h, format |-> <<v, h>>] : h \in Heights(v)}
    ELSE {[height |-> h, format |-> <<>>] : h \in AllowedHeights}

probeYouTube(s, probed) ==
    LET v == flights[s].url
    IN /\ flights[s].op = "probe"
       /\ v \in metaCache => probed
       /\ metaCache' = IF probed THEN metaCache \cup {v} ELSE metaCache
       /\ session' = [url |-> v, duration |-> IF probed THEN Videos[v].duration ELSE 0,
                      options |-> youtubeOptions(v, probed), awaiting |-> FALSE,
                      trim |-> <<0, 0>>, card |-> flights[s].card, typedFor |-> flights[s].card,
                      blind |-> ~(probed /\ Heights(v) # {})]
       /\ Land(s)
       /\ UNCHANGED <<shown, tasks, taps>>

(* A Short is enqueued at once, capped at the best allowed quality. *)
topAllowedQuality == CHOOSE h \in AllowedHeights : \A g \in AllowedHeights : g =< h

startYouTubeShortsDownload(v) ==
    /\ UserActs
    /\ tasks' = Append(tasks, [url |-> v, height |-> topAllowedQuality, format |-> <<>>, audio |-> FALSE,
                               trim |-> <<0, 0>>, mixed |-> FALSE, blind |-> TRUE])
    /\ UNCHANGED <<session, shown, metaCache, flights>>

(***************************************************************************)
(* Taps.  youtubeSession reads the user's session whatever card was        *)
(* tapped; without one the user is told that it has expired.               *)
(***************************************************************************)
Tappable(card) == card \in DOMAIN shown

\* Mutant: the button's own height is used without asking the session.
OptionForAny(sess, height) == {[height |-> height, format |-> <<>>]}

OptionFor(sess, height) == {o \in sess.options : o.height = height}

(* Any allowed height: a card drawn without a probe offers them all, and the *)
(* handler asks the session, not the card.                                   *)
onQualityChoice(card, height) ==
    /\ Tappable(card) /\ UserActs
    /\ IF session # NoSession /\ OptionFor(session, height) # {}
       THEN \E o \in OptionFor(session, height) :
              TakeOff([op |-> "start", session |-> session, option |-> o, audio |-> FALSE])
       ELSE UNCHANGED flights
    /\ UNCHANGED <<session, shown, metaCache, tasks>>

(* "mp3" starts a download, "trim" asks for a fragment, "trimoff" drops it. *)
onYouTubeAction(card, action) ==
    /\ Tappable(card) /\ UserActs
    /\ IF session = NoSession
       THEN UNCHANGED flights
       ELSE \/ /\ action = "mp3"
               /\ TakeOff([op |-> "start", session |-> session, audio |-> TRUE,
                           option |-> [height |-> 0, format |-> <<>>]])
            \/ /\ action = "trim"
               /\ TakeOff([op |-> "get", awaiting |-> TRUE, set |-> <<>>])
            \/ /\ action = "trimoff"
               /\ TakeOff([op |-> "get", awaiting |-> FALSE, set |-> <<<<0, 0>>, 0>>])
    /\ UNCHANGED <<session, shown, metaCache, tasks>>

buildYouTubePayload(sess, option, audioOnly) ==
    [url |-> sess.url, height |-> option.height, format |-> option.format, audio |-> audioOnly,
     trim |-> sess.trim, mixed |-> sess.typedFor # sess.card, blind |-> sess.blind]

startYouTubeDownload(s, enqueued) ==
    LET f == flights[s]
    IN /\ f.op = "start"
       /\ session' = NoSession
       /\ tasks' = IF enqueued THEN Append(tasks, buildYouTubePayload(f.session, f.option, f.audio)) ELSE tasks
       /\ Land(s)
       /\ UNCHANGED <<shown, metaCache, taps>>

(***************************************************************************)
(* A text while a fragment is asked for.  It is parsed against the session *)
(* read here; SetTrim reads the session again.                             *)
(***************************************************************************)
ParseRange(range, duration) ==
    IF range = NoRange THEN NoRange
    ELSE LET end == IF duration > 0 /\ range[2] > duration THEN duration ELSE range[2]
         IN IF (duration > 0 /\ range[1] >= duration) \/ end =< range[1]
            THEN NoRange ELSE <<range[1], end>>

handleYouTubeTrimInput(text) ==
    /\ UserActs
    /\ session # NoSession /\ session.awaiting
    /\ LET parsed == ParseRange(text, session.duration)
       IN IF parsed = NoRange
          THEN UNCHANGED flights
          ELSE TakeOff([op |-> "get", awaiting |-> FALSE, set |-> <<parsed, session.card>>])
    /\ UNCHANGED <<session, shown, metaCache, tasks>>

(* A link instead of a fragment ends the waiting and is dispatched. *)
linkInstead ==
    /\ UserActs
    /\ session # NoSession /\ session.awaiting
    /\ TakeOff([op |-> "get", awaiting |-> FALSE, set |-> <<>>])
    /\ UNCHANGED <<session, shown, metaCache, tasks>>

(* SetAwaitingTrim and SetTrim: mutate reads, changes and saves. *)
mutateGet(s) ==
    /\ flights[s].op = "get"
    /\ IF session = NoSession THEN Land(s)
       ELSE LET f == flights[s]
                kept == [session EXCEPT !.awaiting = f.awaiting]
            IN Continue(s, [op |-> "save", session |->
                   IF f.set = <<>> THEN kept
                   ELSE [kept EXCEPT !.trim = f.set[1],
                                     !.typedFor = IF f.set[2] = 0 THEN @ ELSE f.set[2]]])
    /\ UNCHANGED <<session, shown, metaCache, tasks, taps>>

mutateSave(s) ==
    /\ flights[s].op = "save"
    /\ session' = flights[s].session
    /\ Land(s)
    /\ UNCHANGED <<shown, metaCache, tasks, taps>>

SessionExpires ==
    /\ session # NoSession
    /\ session' = NoSession
    /\ UNCHANGED <<shown, metaCache, flights, tasks, taps>>

YouTubeCardNext ==
    \/ \E v \in DOMAIN Videos : handleYouTubeLink(v) \/ startYouTubeShortsDownload(v)
    \/ \E c \in DOMAIN shown :
         \/ \E h \in AllowedHeights : onQualityChoice(c, h)
         \/ \E a \in {"mp3", "trim", "trimoff"} : onYouTubeAction(c, a)
    \/ \E r \in Ranges \cup {NoRange} : handleYouTubeTrimInput(r)
    \/ linkInstead
    \/ \E s \in CardSlots :
         \/ \E ok \in BOOLEAN : probeYouTube(s, ok) \/ startYouTubeDownload(s, ok)
         \/ mutateGet(s) \/ mutateSave(s)
    \/ SessionExpires

-----------------------------------------------------------------------------
(* What a task asks for belongs to the video of its link, even when an old  *)
(* card is tapped while the session is that of a newer one: its height and  *)
(* format are among that video's, and its fragment is a proper one within   *)
(* the video's length.  Only a video whose probe failed is asked for blind, *)
(* and only a range typed for another card, whose session was replaced      *)
(* between the two reads of handleYouTubeTrimInput, may not fit (Options,   *)
(* OptionFor, buildYouTubePayload).                                         *)
TaskFitsVideo ==
    \A i \in DOMAIN tasks :
        LET t == tasks[i]
        IN /\ t.audio \/ t.blind \/ (t.height \in Heights(t.url) /\ t.format = <<t.url, t.height>>)
           /\ (t.trim # <<0, 0>> /\ ~t.mixed) =>
                /\ t.trim[1] < t.trim[2]
                /\ (~t.blind /\ Videos[t.url].duration > 0) => t.trim[2] =< Videos[t.url].duration
=============================================================================
