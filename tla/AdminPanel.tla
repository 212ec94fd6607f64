----------------------------- MODULE AdminPanel -----------------------------
(***************************************************************************)
(* The admin panel (internal/handler/admin.go, its copy in internal/botkit *)
(* for the fleet).  A tap on a button either acts at once or asks for a    *)
(* text: the pending prompt is kept in the memory of the bot (fsmStore)    *)
(* and the next text the admin sends to that bot answers it.  Telego runs  *)
(* every update in a goroutine of its own, so a text may have read its     *)
(* prompt and not have saved yet when the next tap is handled, and a       *)
(* handler that reads and writes Redis may be overtaken in between.        *)
(*                                                                         *)
(* All bots share the settings hash and the set of banned users; each has  *)
(* its own prompts.  Buttons of old messages stay alive, so any button a   *)
(* keyboard ever showed may be tapped at any time.                         *)
(***************************************************************************)
EXTENDS RuntimeSettings, FiniteSets

CONSTANTS
    PanelBots,    \* the bots with a panel; "main" has the reset callbacks too
    Admin,        \* AdminTelegramID
    KnownUsers,   \* other user ids
    Slots,        \* bound: handlers under way at once
    MaxMoves      \* bound: updates of the admin

VARIABLES
    banned,    \* the set saveinator:banned_users
    fsm,       \* [PanelBots -> pending prompt or NoPrompt]
    running,   \* [Slots -> handler under way or IdleSlot]
    moves      \* updates of the admin so far

panelVars == <<stored, banned, fsm, running, moves>>
slotVars == <<stored, banned, fsm, running>>

NoPrompt == [kind |-> "none", key |-> "none"]
Prompts == {NoPrompt}
           \cup [kind : {"admin_edit"}, key : Keys]
           \cup [kind : {"admin_ban", "broadcast_text"}, key : {"none"}]

IdleSlot == [op |-> "idle"]
ServiceNames == {Registry[k].service : k \in Keys}

(* The ids an admin types are among those of the model. *)
ASSUME AdminPanelAssumption ==
    /\ MaxMoves \in Nat /\ "main" \in PanelBots
    /\ \A t \in Texts : IsInt(t) /\ Atoi(t) > 0 => Atoi(t) \in KnownUsers \cup {Admin}

isAdmin(user) == user = Admin

(* The buttons of the panel's keyboards, by the callback data behind them. *)
adminMainKeyboard ==
    {<<"svc", s>> : s \in ServiceNames} \cup {<<"broadcasts">>, <<"stats">>, <<"bans">>, <<"confirm", "reset_all">>}

serviceKeyboard(service) ==
    {<<"edit_bool", k>> : k \in {j \in ServiceSettings(service) : Registry[j].type = "bool"}}
    \cup (UNION {{<<"set_enum", k, v>> : v \in Registry[k].allowed} :
                  k \in {j \in ServiceSettings(service) : Registry[j].type = "enum"}})
    \cup {<<"edit", k>> : k \in {j \in ServiceSettings(service) : Registry[j].type \in {"int", "list"}}}
    \cup {<<"confirm", "reset_svc", service>>, <<"menu">>}

bansKeyboard(ids) == {<<"unban", u>> : u \in ids} \cup {<<"ban", "add">>, <<"menu">>}

confirmKeyboard ==
    {<<"confirm", "reset_all_yes">>} \cup {<<"confirm", "reset_svc_yes", s>> : s \in ServiceNames}

Buttons == adminMainKeyboard \cup (UNION {serviceKeyboard(s) : s \in ServiceNames})
           \cup bansKeyboard(KnownUsers) \cup confirmKeyboard

Clear(bot) == fsm' = [fsm EXCEPT ![bot] = NoPrompt]

\* Mutant: the two fields are swapped.
SetSwapped(bot, kind, key) == fsm' = [fsm EXCEPT ![bot] = [kind |-> key, key |-> kind]]

Set(bot, kind, key) == fsm' = [fsm EXCEPT ![bot] = [kind |-> kind, key |-> key]]

Begin(handler) ==
    \E s \in Slots : /\ running[s] = IdleSlot
                     /\ running' = [running EXCEPT ![s] = handler]
End(s) == running' = [running EXCEPT ![s] = IdleSlot]

AdminPanelTypeOK ==
    /\ DOMAIN stored \subseteq Keys
    /\ banned \subseteq KnownUsers \cup {Admin}
    /\ fsm \in [PanelBots -> Prompts]
    /\ DOMAIN running = Slots
    /\ moves \in 0..MaxMoves

AdminPanelInit(bans, prompt) ==
    /\ stored = <<>>
    /\ banned = bans
    /\ fsm = [b \in PanelBots |-> prompt]
    /\ running = [s \in Slots |-> IdleSlot]
    /\ moves = 0

(***************************************************************************)
(* Commands and taps.  onAdmin and onStats clear the prompt; of the taps   *)
(* "stats" and the first "confirm" screens leave it alone.                 *)
(***************************************************************************)
onAdmin(bot) ==
    /\ Clear(bot)
    /\ UNCHANGED <<stored, banned, running>>

adminStartEdit(bot, key) ==
    /\ key \in Keys
    /\ Set(bot, "admin_edit", key)
    /\ UNCHANGED <<stored, banned, running>>

(* The value of an enum is written at once; it comes from a button. *)
adminSetEnum(key, value, redisFails) ==
    /\ key \in Keys /\ Registry[key].type = "enum" /\ Validate(Registry[key], value)
    /\ IF redisFails THEN UNCHANGED stored ELSE SetValue(key, Word(value))
    /\ UNCHANGED <<banned, fsm, running>>

(* The switch is read here and written back by toggleWrite. *)
adminToggleBool(key, redisFails) ==
    /\ key \in Keys
    /\ Begin([op |-> "toggle", key |-> key,
              cur |-> CurrentValue(key, redisFails) = Flag(TRUE)])
    /\ UNCHANGED <<stored, banned, fsm>>

toggleWrite(s, redisFails) ==
    /\ running[s].op = "toggle"
    /\ IF redisFails THEN UNCHANGED stored ELSE SetValue(running[s].key, Flag(~running[s].cur))
    /\ End(s)
    /\ UNCHANGED <<banned, fsm>>

(* Everything at once, with the prompt; or the settings of a service one by *)
(* one, without it.                                                         *)
adminConfirm(bot, parts, redisFails) ==
    \/ /\ parts[2] = "reset_all_yes"
       /\ IF redisFails THEN UNCHANGED stored ELSE ResetAll
       /\ Clear(bot)
       /\ UNCHANGED <<banned, running>>
    \/ /\ parts[2] = "reset_svc_yes"
       /\ Begin([op |-> "reset", todo |-> ServiceSettings(parts[3])])
       /\ UNCHANGED <<stored, banned, fsm>>
    \/ /\ parts[2] \in {"reset_all", "reset_svc"}
       /\ UNCHANGED slotVars

(* The callback admin|reset, which no button of this version carries, exists *)
(* in the main bot only.                                                     *)
adminReset(bot, redisFails) ==
    /\ bot = "main"
    /\ IF redisFails THEN UNCHANGED stored ELSE ResetAll
    /\ UNCHANGED <<banned, fsm, running>>

resetNext(s, redisFails) ==
    /\ running[s].op = "reset"
    /\ IF running[s].todo = {}
       THEN End(s) /\ UNCHANGED stored
       ELSE \E k \in running[s].todo :
              /\ IF redisFails THEN UNCHANGED stored ELSE Reset(k)
              /\ running' = [running EXCEPT ![s].todo = @ \ {k}]
    /\ UNCHANGED <<banned, fsm>>

unban(user, redisFails) ==
    /\ banned' = IF redisFails THEN banned ELSE banned \ {user}
    /\ UNCHANGED <<stored, fsm, running>>

onAdminCallback(bot, parts, redisFails) ==
    \/ parts[1] \in {"menu", "svc", "bans", "broadcasts"} /\ onAdmin(bot)
    \/ parts[1] = "stats" /\ UNCHANGED slotVars
    \/ /\ parts[1] = "ban"
       /\ Set(bot, "admin_ban", "none")
       /\ UNCHANGED <<stored, banned, running>>
    \/ parts[1] = "unban" /\ unban(parts[2], redisFails)
    \/ parts[1] = "edit" /\ adminStartEdit(bot, parts[2])
    \/ parts[1] = "edit_bool" /\ adminToggleBool(parts[2], redisFails)
    \/ parts[1] = "set_enum" /\ adminSetEnum(parts[2], parts[3], redisFails)
    \/ parts[1] = "confirm" /\ adminConfirm(bot, parts, redisFails)

(* The broadcast menu asks for a text in the same way. *)
onBroadcastCreate(bot) ==
    /\ Set(bot, "broadcast_text", "none")
    /\ UNCHANGED <<stored, banned, running>>

(***************************************************************************)
(* A text of the admin.  handleAdminFSM reads the prompt; the save follows *)
(* on the copy it read.                                                    *)
(***************************************************************************)
handleAdminFSM(bot, text) ==
    /\ fsm[bot] # NoPrompt
    /\ IF text = ""
       THEN UNCHANGED running
       ELSE Begin([op |-> "text", bot |-> bot, text |-> text, state |-> fsm[bot]])
    /\ UNCHANGED <<stored, banned, fsm>>

(* A text the setting does not allow leaves the prompt pending.  The result *)
(* of the write is ignored: the value is confirmed in any case.             *)
adminSaveEdit(s, redisFails) ==
    LET h == running[s]
        key == h.state.key
        def == Registry[key]
        parsed == Parse(def, h.text)
    IN /\ h.op = "text" /\ h.state.kind = "admin_edit"
       /\ IF ~Validate(def, h.text)
          THEN UNCHANGED <<stored, fsm>>
          ELSE /\ IF redisFails THEN UNCHANGED stored ELSE SetValue(key, parsed)
               /\ Clear(h.bot)
       /\ End(s)
       /\ UNCHANGED banned

MayBan(uid) == uid > 0 /\ uid # Admin

adminSaveBan(s, redisFails) ==
    LET h == running[s]
        uid == Atoi(h.text)
    IN /\ h.op = "text" /\ h.state.kind = "admin_ban"
       /\ IF ~(IsInt(h.text) /\ MayBan(uid))
          THEN UNCHANGED <<banned, fsm>>
          ELSE /\ banned' = IF redisFails THEN banned ELSE banned \cup {uid}
               /\ Clear(h.bot)
       /\ End(s)
       /\ UNCHANGED <<stored>>

(* broadcastSaveText clears first; Broadcast.tla follows the draft. *)
broadcastSaveText(s) ==
    /\ running[s].op = "text" /\ running[s].state.kind = "broadcast_text"
    /\ Clear(running[s].bot)
    /\ End(s)
    /\ UNCHANGED <<stored, banned>>

AdminUpdate ==
    \/ \E b \in PanelBots : onAdmin(b) \/ onBroadcastCreate(b)
    \/ \E b \in PanelBots, t \in Texts : handleAdminFSM(b, t)
    \/ \E b \in PanelBots, p \in Buttons, f \in BOOLEAN : onAdminCallback(b, p, f)
    \/ \E b \in PanelBots, f \in BOOLEAN : adminReset(b, f)

AdminHandlerStep ==
    \E s \in Slots, f \in BOOLEAN :
        \/ toggleWrite(s, f) \/ resetNext(s, f)
        \/ adminSaveEdit(s, f) \/ adminSaveBan(s, f) \/ broadcastSaveText(s)

AdminPanelNext ==
    \/ moves < MaxMoves /\ moves' = moves + 1 /\ AdminUpdate
    \/ AdminHandlerStep /\ UNCHANGED moves

-----------------------------------------------------------------------------
(* Whatever texts and taps arrive, in whatever order, every field of the    *)
(* hash is read by the workers and menus as a value its setting allows, and *)
(* not passed over for the caller's fallback: a switch, a number within     *)
(* bounds, a word of the list, parts that are all allowed; and the lists    *)
(* the YouTube menu is built from are never empty (runtime.Validate,        *)
(* serialise, deserialise, CurrentBool, CurrentInt, CurrentString,          *)
(* CurrentStringList).                                                      *)
SettingsUsable ==
    \A k \in DOMAIN stored :
        LET def == Registry[k]
        IN CASE def.type = "bool" -> CurrentBool(k, TRUE, FALSE) = CurrentBool(k, FALSE, FALSE)
             [] def.type = "enum" -> CurrentString(k, "fallback", FALSE) \in def.allowed
             [] def.type = "int" -> LET n == CurrentInt(k, 0, FALSE)
                                    IN /\ n = CurrentInt(k, 1, FALSE)
                                       /\ def.min > 0 => n >= def.min
                                       /\ def.max > 0 => n =< def.max
             [] OTHER -> LET got == CurrentStringList(k, <<"fallback">>, FALSE)
                         IN /\ got # <<>>
                            /\ got = <<"fallback">> \/ \A i \in DOMAIN got : got[i] \in def.allowed
=============================================================================
