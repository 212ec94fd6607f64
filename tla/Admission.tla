----------------------------- MODULE Admission -----------------------------
(***************************************************************************)
(* The way of a message from Telegram to the download handlers: onText of  *)
(* the main bot (internal/handler/bot.go) and of the fleet's bots          *)
(* (internal/botkit/bot.go).  A message passes the ban check, the check of *)
(* links posted in groups, the admin's prompt, the trim prompt (main bot   *)
(* only) and the rate limits of its user and its chat, and is dispatched   *)
(* link by link.  Handlers of several messages run at the same time; every *)
(* Redis call is a step of its own.                                        *)
(*                                                                         *)
(* Bans and settings are shared by all bots, dedup marks and rate counters *)
(* carry the bot's key prefix.  What a dispatched link becomes (lock,      *)
(* placeholder, task) is Downloads.tla; here it is one reply.              *)
(***************************************************************************)
EXTENDS AdminPanel

CONSTANTS
    Scenarios,     \* [inbox : id -> message, admin : whether the admin is busy too,
                   \*  banned, prompt : the state of the panel at the start,
                   \*  ticks, outages : bounds on the clock and on failing calls]
    LinkPlatform,  \* link -> platform
    SwitchOf,      \* platform -> key of its switch
    FleetPlatforms,\* platforms of the fleet's bot
    BannedLinks,   \* rows of banned_links
    UserLimit, ChatLimit,      \* messages per window
    RateWindow, DedupWindow    \* ticks

ASSUME AdmissionAssumption ==
    /\ UserLimit \in Nat \ {0} /\ ChatLimit \in Nat \ {0}
    /\ RateWindow \in Nat \ {0} /\ DedupWindow \in Nat \ {0}
    /\ \A p \in DOMAIN SwitchOf : SwitchOf[p] \in Keys /\ Registry[SwitchOf[p]].type = "bool"
    /\ \A c \in Scenarios : /\ c.ticks \in Nat /\ c.outages \in Nat
                            /\ c.banned \subseteq KnownUsers \cup {Admin} /\ c.prompt \in Prompts
                            /\ IsFiniteSet(DOMAIN c.inbox)
                            /\ \A m \in DOMAIN c.inbox : c.inbox[m].links \in Seq(DOMAIN LinkPlatform)

VARIABLES
    scenario,  \* the messages of this run
    door,      \* id -> where its handler is
    hits,      \* sorted sets of the rate limiter: <<bot, scope, id>> -> set of <<score, message>>
    marks,     \* dedup keys: <<bot, link>> -> time of the SETNX that made it
    clock,
    outages,   \* calls that failed so far
    chances    \* history: id -> what was allowed at some time since the message arrived

doorVars == <<door, hits, marks, clock, outages>>

Msgs == DOMAIN scenario.inbox
Msg(m) == scenario.inbox[m]
Private(m) == Msg(m).chat = "private"
ChatId(m) == IF Private(m) THEN <<"private", Msg(m).user>> ELSE <<"group", Msg(m).chat>>

(* The stages of onText after the ban check, in their order. *)
onText == <<"links", "prompts", "user", "chat", "dispatch">>

(* stage, link, counting, under and now are the handler's locals; the others *)
(* are history for the properties: links tried at the group check with their *)
(* time, whether the check and the user's limit were passed, when and after  *)
(* which messages, the links handed on, the replies.                         *)
Fresh == [stage |-> 0, link |-> 1, counting |-> FALSE, under |-> FALSE, now |-> 0,
          tried |-> {}, passed |-> FALSE, admitted |-> FALSE, at |-> 0, before |-> {},
          served |-> {}, replies |-> 0, failed |-> FALSE]

Over == 9
Stage(m) == IF door[m].stage \in DOMAIN onText THEN onText[door[m].stage] ELSE "none"
Links(m) == Msg(m).links

Become(m, r) == door' = [door EXCEPT ![m] = r]
Pass(m) == [door[m] EXCEPT !.stage = @ + 1, !.link = 1, !.counting = FALSE]
Drop(m, n) == [door[m] EXCEPT !.stage = Over, !.counting = FALSE, !.replies = @ + n]
Outage == outages < scenario.outages /\ outages' = outages + 1

AdmissionTypeOK ==
    /\ scenario \in Scenarios
    /\ DOMAIN door = Msgs /\ \A m \in Msgs : DOMAIN door[m] = DOMAIN Fresh
    /\ \A k \in DOMAIN marks : marks[k] \in 0..scenario.ticks
    /\ clock \in 0..scenario.ticks /\ outages \in 0..scenario.outages

AdmissionInit ==
    /\ scenario \in Scenarios
    /\ door = [m \in Msgs |-> Fresh]
    /\ hits = <<>>
    /\ marks = <<>>
    /\ clock = 0
    /\ outages = 0
    /\ chances = [m \in Msgs |-> {}]

(***************************************************************************)
(* Arrival.  The first handler of Register whose predicate matches takes   *)
(* the update: media without a caption is answered by onDirectMedia, a     *)
(* text that starts with a slash and is no command of the bot is skipped;  *)
(* texts and captioned media go to onText, which looks for links in both.  *)
(* Then its ban check; a failing lookup lets the message in.               *)
(***************************************************************************)
Worded(m) == Msg(m).body \in {"text", "caption"}

Register(m) ==
    /\ door[m].stage = 0 /\ ~Worded(m)
    /\ Become(m, IF Msg(m).body = "media" THEN Drop(m, 1) ELSE Drop(m, 0))
    /\ UNCHANGED <<hits, marks, clock, outages>>

checkBanned(m) ==
    /\ door[m].stage = 0 /\ Worded(m)
    /\ \/ /\ Become(m, IF ~isAdmin(Msg(m).user) /\ Msg(m).user \in banned THEN Drop(m, 1) ELSE Pass(m))
          /\ UNCHANGED outages
       \/ /\ ~isAdmin(Msg(m).user) /\ Outage
          /\ Become(m, [Pass(m) EXCEPT !.failed = TRUE])
    /\ UNCHANGED <<hits, marks, clock>>

\* Mutant: the key is given a shorter time to live.
MarkedBriefly(bot, link) ==
    <<bot, link>> \in DOMAIN marks /\ clock - marks[<<bot, link>>] < DedupWindow - 1

(* SETNX with a time to live: the mark of an earlier message has expired or  *)
(* the call does not set one.                                                *)
Marked(bot, link) ==
    <<bot, link>> \in DOMAIN marks /\ clock - marks[<<bot, link>>] < DedupWindow

AllowURLDedup(bot, link) ==
    /\ ~Marked(bot, link)
    /\ marks' = PutKey(marks, <<bot, link>>, clock)

(* Links of a group message one by one; the marks of the links before a      *)
(* refused one stay.  A banned link is refused before its mark is set; a     *)
(* failing lookup or SETNX goes on.                                          *)
allowGroupLinks(m) ==
    /\ Stage(m) = "links"
    /\ IF Private(m) \/ door[m].link > Len(Links(m))
       THEN /\ Become(m, [Pass(m) EXCEPT !.passed = ~Private(m)])
            /\ UNCHANGED <<marks, outages>>
       ELSE LET l == Links(m)[door[m].link]
                next == [door[m] EXCEPT !.link = @ + 1, !.tried = @ \cup {<<l, clock>>}]
            IN \E dbFails, redisFails \in BOOLEAN :
                 /\ IF dbFails \/ redisFails THEN Outage ELSE UNCHANGED outages
                 /\ \/ /\ (l \in BannedLinks /\ ~dbFails) \/ (Marked(Msg(m).bot, l) /\ ~redisFails)
                       /\ Become(m, Drop(m, 0))
                       /\ UNCHANGED marks
                    \/ /\ (l \notin BannedLinks \/ dbFails) /\ ~redisFails
                       /\ AllowURLDedup(Msg(m).bot, l)
                       /\ Become(m, next)
                    \/ /\ (l \notin BannedLinks \/ dbFails) /\ redisFails
                       /\ Become(m, [door[m] EXCEPT !.link = @ + 1, !.failed = TRUE])
                       /\ UNCHANGED marks
    /\ UNCHANGED <<hits, clock>>

(* The admin's prompt, then, in the main bot, the trim prompt.  A link is no *)
(* answer to a prompt for a number, a list or a user id: the prompt stays    *)
(* and the message is consumed (AdminPanel has the other texts).  The prompt *)
(* reads the text only: a caption is consumed without a word.  A message     *)
(* with a link is no fragment either and goes on; range marks a text typed   *)
(* for a card, with no link in it (YouTubeCard has the session).             *)
Prompted(m) == isAdmin(Msg(m).user) /\ fsm[Msg(m).bot] # NoPrompt

promptConsumes(m) ==
    /\ Stage(m) = "prompts"
    /\ \/ Prompted(m) /\ Become(m, Drop(m, IF Msg(m).body = "text" THEN 1 ELSE 0))
       \/ ~Prompted(m) /\ Become(m, IF Msg(m).bot = "main" /\ Msg(m).range THEN Drop(m, 1)
                                    ELSE Pass(m))
    /\ UNCHANGED <<hits, marks, clock, outages>>

(***************************************************************************)
(* Rate limits.  AllowRateLimit is a pipeline, not a transaction: other    *)
(* clients' commands may come between its ZCARD and its ZADD.  The hit is  *)
(* added even when the message is refused.                                 *)
(***************************************************************************)
RateKey(m) ==
    IF Stage(m) = "user" THEN <<Msg(m).bot, "user", Msg(m).user>>
    ELSE <<Msg(m).bot, "chat", ChatId(m)>>
Limit(m) == IF Stage(m) = "user" THEN UserLimit ELSE ChatLimit
Hits(k) == IF k \in DOMAIN hits THEN hits[k] ELSE {}

\* Mutant: the range removed ends at now instead of now - window.
RecentAll(k) == {}

Recent(k) == {h \in Hits(k) : h[1] > clock - RateWindow}

rateCount(m) ==
    /\ Stage(m) \in {"user", "chat"} /\ ~door[m].counting
    /\ IF isAdmin(Msg(m).user)
       THEN /\ Become(m, [door[m] EXCEPT !.stage = Len(onText)])
            /\ UNCHANGED <<hits, outages>>
       ELSE \/ /\ hits' = PutKey(hits, RateKey(m), Recent(RateKey(m)))
               /\ Become(m, [door[m] EXCEPT
                     !.counting = TRUE, !.now = clock,
                     !.under = Cardinality(Recent(RateKey(m))) < Limit(m),
                     !.at = IF Stage(m) = "user" THEN clock ELSE @,
                     !.before = IF Stage(m) = "user" THEN {h[2] : h \in Hits(RateKey(m))} ELSE @])
               /\ UNCHANGED outages
            \/ /\ Outage
               /\ Become(m, [door[m] EXCEPT !.stage = Len(onText), !.failed = TRUE])
               /\ UNCHANGED hits
    /\ UNCHANGED <<marks, clock>>

\* Mutant: the two conditions are swapped.
ToldWhenRefusedSwapped(m) == IF Stage(m) = "user" THEN ~Private(m) ELSE Private(m)

(* A refusal by the user's limit is told in private chats, one by the        *)
(* chat's limit in groups.                                                   *)
ToldWhenRefused(m) == IF Stage(m) = "user" THEN Private(m) ELSE ~Private(m)

allowRateLimit(m) ==
    /\ door[m].counting
    /\ hits' = PutKey(hits, RateKey(m), Hits(RateKey(m)) \cup {<<door[m].now, m>>})
    /\ Become(m, IF door[m].under THEN [Pass(m) EXCEPT !.admitted = TRUE]
                 ELSE Drop(m, IF ToldWhenRefused(m) THEN 1 ELSE 0))
    /\ UNCHANGED <<marks, clock, outages>>

(***************************************************************************)
(* Dispatch, link by link: the platform's switch, then the platform's      *)
(* handler or a refusal; every branch sends one message.                   *)
(***************************************************************************)
Switched(platform) == platform \in DOMAIN SwitchOf

\* Mutant: the switch of a platform is not asked for.
dispatchMainUnswitched(platform, redisFails) == platform # "unknown"

dispatchMain(platform, redisFails) ==
    /\ platform # "unknown"
    /\ Switched(platform) => PlatformEnabled(SwitchOf[platform], redisFails)

dispatchFleet(platform, redisFails) ==
    /\ platform \in FleetPlatforms
    /\ Switched(platform) => PlatformEnabled(SwitchOf[platform], redisFails)

dispatchLink(m) ==
    /\ Stage(m) = "dispatch"
    /\ IF door[m].link > Len(Links(m))
       THEN Become(m, Drop(m, 0)) /\ UNCHANGED outages
       ELSE \E redisFails \in BOOLEAN :
              LET l == Links(m)[door[m].link]
                  p == LinkPlatform[l]
                  taken == IF Msg(m).bot = "main" THEN dispatchMain(p, redisFails)
                           ELSE dispatchFleet(p, redisFails)
              IN /\ redisFails => Switched(p)
                 /\ IF redisFails THEN Outage ELSE UNCHANGED outages
                 /\ Become(m, [door[m] EXCEPT
                        !.link = @ + 1, !.replies = @ + 1,
                        !.failed = @ \/ redisFails,
                        !.served = IF taken THEN @ \cup {l} ELSE @])
    /\ UNCHANGED <<hits, marks, clock>>

Tick ==
    /\ clock < scenario.ticks /\ clock' = clock + 1
    /\ UNCHANGED <<door, hits, marks, outages>>

DoorStep ==
    \/ \E m \in Msgs : \/ Register(m) \/ checkBanned(m) \/ allowGroupLinks(m) \/ promptConsumes(m)
                       \/ rateCount(m) \/ allowRateLimit(m) \/ dispatchLink(m)
    \/ Tick

(* What the admin does while the messages are handled: the switch of a      *)
(* platform, the ban of a user whose prompt is pending, an unban.           *)
AdminMeanwhile ==
    \/ /\ scenario.admin /\ moves < MaxMoves /\ moves' = moves + 1
       /\ \/ \E p \in DOMAIN SwitchOf : adminToggleBool(SwitchOf[p], FALSE)
          \/ \E u \in banned : unban(u, FALSE)
          \/ \E t \in Texts : IsInt(t) /\ handleAdminFSM("main", t)
    \/ /\ \E s \in Slots : toggleWrite(s, FALSE) \/ adminSaveBan(s, FALSE)
       /\ UNCHANGED moves

(* History: "in" while the user is not banned, "prompt" while a prompt waits *)
(* for the admin who wrote the message, the keys of the switches on.        *)
Observe ==
    chances' = [m \in Msgs |->
        IF door'[m].stage = 0 THEN {}
        ELSE chances[m]
             \cup (IF Msg(m).user \in banned' THEN {} ELSE {"in"})
             \cup (IF isAdmin(Msg(m).user) /\ fsm'[Msg(m).bot] # NoPrompt THEN {"prompt"} ELSE {})
             \cup {k \in Keys : valueIn(stored', k, FALSE) = Flag(TRUE)}]

AdmissionNext ==
    /\ \/ DoorStep /\ UNCHANGED panelVars
       \/ AdminMeanwhile /\ UNCHANGED doorVars
    /\ Observe
    /\ UNCHANGED scenario

-----------------------------------------------------------------------------
(* A link passes the group check of a bot at most once per dedup window,    *)
(* also when it comes with others, in another group or while the first      *)
(* message is still being handled (allowGroupLinks, AllowURLDedup).         *)
DedupOnce ==
    \A m, n \in Msgs :
        (m # n /\ Msg(m).bot = Msg(n).bot /\ door[m].passed /\ door[n].passed) =>
            \A t \in door[m].tried, u \in door[n].tried :
                t[1] = u[1] => t[2] - u[2] >= DedupWindow \/ u[2] - t[2] >= DedupWindow

(* Messages of a user whose rate checks follow each other get no more than  *)
(* the limit through per window; only checks that overlap can add to it     *)
(* (AllowRateLimit counts and adds in a pipeline).                          *)
RateBound ==
    \A m \in Msgs : door[m].admitted =>
        Cardinality({n \in door[m].before :
            /\ n # m /\ door[n].admitted
            /\ door[m].at - door[n].at < RateWindow}) < UserLimit

(* The other private messages of its user that passed the user's limit and   *)
(* were counted in the same window.                                          *)
Crowd(m) ==
    {n \in Msgs \ {m} : /\ Private(n) /\ Msg(n).bot = Msg(m).bot /\ Msg(n).user = Msg(m).user
                        /\ door[n].admitted /\ door[m].now - door[n].now < RateWindow}

(* A captioned message of the admin that came while a prompt was pending.   *)
Overlooked(m) ==
    Msg(m).body = "caption" /\ door[m].stage # 0 /\ "prompt" \in chances[m]

(* Every message with links in a private chat is answered: refused by a     *)
(* ban, consumed by a prompt, over the limit or dispatched, the user hears  *)
(* of it, and of each link of a dispatched message (onText).  Two go        *)
(* unanswered.  The chat's limit refuses in silence, but only when as many  *)
(* others of the user passed the user's limit in the same window, which     *)
(* takes checks that overlap as long as the chat's limit is the higher one. *)
(* And a prompt that waits for a text swallows the admin's caption          *)
(* (handleAdminFSM).                                                        *)
PrivateIsAnswered ==
    \A m \in Msgs :
        (door[m].stage = Over /\ Private(m) /\ Worded(m) /\ Links(m) # <<>>)
        => \/ door[m].replies = (IF door[m].link > 1 THEN Len(Links(m)) ELSE 1)
           \/ /\ door[m].replies = 0
              /\ \/ door[m].admitted /\ Cardinality(Crowd(m)) >= ChatLimit
                 \/ Overlooked(m)

(* Whatever the admin does meanwhile, a link is only handed to a platform   *)
(* that was switched on, and only for a user who was not banned, at some    *)
(* time between the arrival of the message and then, unless Redis failed    *)
(* (checkBanned, dispatchLink).                                             *)
RefusalsHold ==
    \A m \in Msgs : \A l \in door[m].served :
        \/ door[m].failed
        \/ /\ Msg(m).user = Admin \/ "in" \in chances[m]
           /\ Switched(LinkPlatform[l]) => SwitchOf[LinkPlatform[l]] \in chances[m]
=============================================================================
