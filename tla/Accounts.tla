------------------------------ MODULE Accounts ------------------------------
(***************************************************************************)
(* What the database keeps of a user (internal/db/store.go) and the        *)
(* handlers that change it: onboarding and language (internal/handler and  *)
(* internal/botkit), the settings menu, and the one-time purchase that     *)
(* lets a user hide the footer of the bot (handler/payments.go).  Telegram *)
(* delivers the update of a payment again when the bot died before it was  *)
(* done.                                                                   *)
(***************************************************************************)
EXTENDS Integers, FiniteSets

CONSTANTS
    People,        \* users
    Boss,          \* the admin among them
    Bots,          \* "saveinator" and the fleet's bots
    Languages,     \* what the bots' keyboards offer
    Ratios,        \* "ask" and the ratios of the menu
    Charges,       \* [charge id -> [user, payload]]
    MaxActs, MaxMishaps   \* bounds: acts of users, failing statements and crashes

ASSUME AccountsAssumption ==
    /\ "ask" \in Ratios /\ "en" \in Languages /\ "none" \notin Languages
    /\ \A c \in DOMAIN Charges : Charges[c].user \in People
    /\ MaxActs \in Nat /\ MaxMishaps \in Nat

VARIABLES
    userLang,   \* users.language, "none" without a row
    botLang,    \* user_bot_settings.language per user and bot, "none" without a row
    prefs,      \* user_settings: [ratio, hide], NoPrefs without a row
    purchases,  \* charge ids of the table purchases
    payments,   \* [charge -> where its update is]
    told,       \* charges whose "purchased" message was sent, each with its failures
    chosen,     \* history: the language last chosen in a bot of which a store call
                \* returned no error, "none" before
    acts, mishaps

accountVars == <<userLang, botLang, prefs, purchases, payments, told, chosen, acts, mishaps>>

NoPrefs == [ratio |-> "none", hide |-> FALSE]
DefaultPrefs == [ratio |-> "ask", hide |-> FALSE]

AccountsTypeOK ==
    /\ userLang \in [People -> Languages \cup {"none"}]
    /\ botLang \in [People \X Bots -> Languages \cup {"none"}]
    /\ prefs \in [People -> [ratio : Ratios \cup {"none"}, hide : BOOLEAN]]
    /\ purchases \subseteq DOMAIN Charges
    /\ payments \in [DOMAIN Charges -> {"unpaid", "sent", "recorded", "again", "done"}]
    /\ told \subseteq (DOMAIN Charges) \X BOOLEAN
    /\ chosen \in [People \X Bots -> Languages \cup {"none"}]
    /\ acts \in 0..MaxActs /\ mishaps \in 0..MaxMishaps

AccountsInit ==
    /\ userLang = [u \in People |-> "none"]
    /\ botLang = [k \in People \X Bots |-> "none"]
    /\ prefs = [u \in People |-> NoPrefs]
    /\ purchases = {}
    /\ payments = [c \in DOMAIN Charges |-> "unpaid"]
    /\ told = {}
    /\ chosen = [k \in People \X Bots |-> "none"]
    /\ acts = 0 /\ mishaps = 0

UserAct == acts < MaxActs /\ acts' = acts + 1
Mishap == mishaps < MaxMishaps /\ mishaps' = mishaps + 1

\* Mutant: the row of the user is asked first.
GetUserLanguageGlobal(user, bot) ==
    IF userLang[user] # "none" THEN userLang[user] ELSE botLang[<<user, bot>>]

(* The row of the bot if there is one, else the language of the user. *)
GetUserLanguage(user, bot) ==
    IF botLang[<<user, bot>>] # "none" THEN botLang[<<user, bot>>] ELSE userLang[user]

UserExists(user) == userLang[user] # "none"
Ensured(user) == IF UserExists(user) THEN userLang ELSE [userLang EXCEPT ![user] = "en"]

(* What CreateUser and SetUserLanguage make of the rows of a user and a bot.  *)
(* Each is two statements, and an error ends it: the first n got through.     *)
LangRows(user, bot) == [user |-> userLang[user], bot |-> botLang[<<user, bot>>]]
setUserBotLanguage(old, lang, n) == IF n = 2 THEN lang ELSE old

(* ON CONFLICT DO NOTHING: the language of an existing user is kept. *)
CreateUser(rows, lang, n) ==
    [user |-> IF n >= 1 /\ rows.user = "none" THEN lang ELSE rows.user,
     bot |-> setUserBotLanguage(rows.bot, lang, n)]

SetUserLanguage(rows, lang, n) ==
    [user |-> IF n >= 1 THEN lang ELSE rows.user,
     bot |-> setUserBotLanguage(rows.bot, lang, n)]

(* The handlers confirm the choice whether or not it was stored.  *)
Choose(user, bot, lang, rows, kept, fails) ==
    /\ UserAct
    /\ IF fails THEN Mishap ELSE UNCHANGED mishaps
    /\ userLang' = [userLang EXCEPT ![user] = rows.user]
    /\ botLang' = [botLang EXCEPT ![<<user, bot>>] = rows.bot]
    /\ chosen' = [chosen EXCEPT ![<<user, bot>>] = IF kept THEN lang ELSE @]
    /\ UNCHANGED <<prefs, purchases, payments, told>>

(* The main bot only creates.  The fleet's bots create a user they do not    *)
(* know, or whose lookup failed, and set the language also after that failed.*)
onLanguageChosen(user, bot, lang) ==
    \E m, n \in 0..2, unknown \in BOOLEAN :
        IF bot = "saveinator"
        THEN Choose(user, bot, lang, CreateUser(LangRows(user, bot), lang, m), m = 2, m < 2)
        ELSE /\ ~UserExists(user) => unknown
             /\ Choose(user, bot, lang,
                       SetUserLanguage(IF unknown THEN CreateUser(LangRows(user, bot), lang, m)
                                       ELSE LangRows(user, bot), lang, n),
                       n = 2 \/ (unknown /\ m = 2),
                       n < 2 \/ (unknown /\ (m < 2 \/ UserExists(user))))

(* A download, and the first look at the settings, make a row in English for *)
(* a user who never chose; /start then greets instead of asking.             *)
RecordDownload(user) ==
    /\ UserAct /\ ~UserExists(user)
    /\ userLang' = Ensured(user)
    /\ UNCHANGED <<botLang, prefs, purchases, payments, told, chosen, mishaps>>

GetOrCreateUserSettings(user) ==
    /\ UserAct /\ prefs[user] = NoPrefs
    /\ userLang' = Ensured(user)
    /\ prefs' = [prefs EXCEPT ![user] = DefaultPrefs]
    /\ UNCHANGED <<botLang, purchases, payments, told, chosen, mishaps>>

upsertSetting(user, row) ==
    /\ userLang' = Ensured(user)
    /\ prefs' = [prefs EXCEPT ![user] = row]

HasPurchase(user) == \E c \in purchases : Charges[c].user = user

(* A failing lookup counts as no purchase. *)
wmEntitled(user, dbFails) == user = Boss \/ (HasPurchase(user) /\ ~dbFails)

Filled(user) == IF prefs[user] = NoPrefs THEN DefaultPrefs ELSE prefs[user]

(* The settings menu.  The fleet's bots offer the language only.  A reset    *)
(* sets the language of the user to English and leaves those kept per bot.   *)
settingsLang(user, bot, lang) ==
    \E n \in 0..2 :
        Choose(user, bot, lang, SetUserLanguage(LangRows(user, bot), lang, n), n = 2, n < 2)

settingsRatio(user, ratio) ==
    /\ UserAct
    /\ upsertSetting(user, [Filled(user) EXCEPT !.ratio = ratio])
    /\ UNCHANGED <<botLang, purchases, payments, told, chosen, mishaps>>

settingsWatermark(user, hide, dbFails) ==
    /\ UserAct
    /\ IF dbFails THEN Mishap ELSE UNCHANGED mishaps
    /\ IF wmEntitled(user, dbFails)
       THEN upsertSetting(user, [Filled(user) EXCEPT !.hide = hide])
       ELSE UNCHANGED <<userLang, prefs>>
    /\ UNCHANGED <<botLang, purchases, payments, told, chosen>>

ResetUserSettings(user) ==
    /\ UserAct
    /\ userLang' = IF UserExists(user) THEN [userLang EXCEPT ![user] = "en"] ELSE userLang
    /\ prefs' = [prefs EXCEPT ![user] = DefaultPrefs]
    /\ UNCHANGED <<botLang, purchases, payments, told, chosen, mishaps>>

(* The invoice and the pre-checkout answer come before; here the user has   *)
(* paid and Telegram has an update for the bot.                             *)
Pay(c) ==
    /\ payments[c] = "unpaid"
    /\ payments' = [payments EXCEPT ![c] = "sent"]
    /\ UNCHANGED <<userLang, botLang, prefs, purchases, told, chosen, acts, mishaps>>

\* Mutant: the conflict is on the product instead of the charge.
RecordPurchaseOnce(c) == purchases' = IF purchases = {} THEN {c} ELSE purchases

RecordPurchase(c) == purchases' = purchases \cup {c}

(* The first half of onSuccessfulPayment: the payload is checked and the    *)
(* charge recorded; "again" means that nothing was inserted, because the    *)
(* charge is known or the statement failed.                                 *)
onSuccessfulPayment(c) ==
    /\ payments[c] = "sent"
    /\ \/ /\ Charges[c].payload # "no_watermark"
          /\ payments' = [payments EXCEPT ![c] = "done"]
          /\ UNCHANGED <<purchases, told, mishaps>>
       \/ /\ Charges[c].payload = "no_watermark"
          /\ RecordPurchase(c)
          /\ payments' = [payments EXCEPT ![c] = IF c \in purchases THEN "again" ELSE "recorded"]
          /\ UNCHANGED <<told, mishaps>>
       \/ /\ Charges[c].payload = "no_watermark"
          /\ Mishap
          /\ payments' = [payments EXCEPT ![c] = "again"]
          /\ told' = told \cup {<<c, TRUE>>}
          /\ UNCHANGED purchases
    /\ UNCHANGED <<userLang, botLang, prefs, chosen, acts>>

(* The second half: the preference, whose failure is logged, and the        *)
(* confirmation, which is sent in any case.                                 *)
purchaseTakesEffect(c) ==
    LET user == Charges[c].user
    IN /\ payments[c] \in {"recorded", "again"}
       /\ \/ /\ payments[c] = "recorded"
             /\ \/ /\ upsertSetting(user, [Filled(user) EXCEPT !.hide = TRUE])
                   /\ UNCHANGED mishaps
                \/ Mishap /\ UNCHANGED <<userLang, prefs>>
          \/ payments[c] = "again" /\ UNCHANGED <<userLang, prefs, mishaps>>
       /\ payments' = [payments EXCEPT ![c] = "done"]
       /\ told' = told \cup {<<c, FALSE>>}
       /\ UNCHANGED <<botLang, purchases, chosen, acts>>

(* The bot dies before the update is acknowledged; it comes again. *)
BotDies(c) ==
    /\ payments[c] \in {"recorded", "again", "done"} /\ Mishap
    /\ payments' = [payments EXCEPT ![c] = "sent"]
    /\ UNCHANGED <<userLang, botLang, prefs, purchases, told, chosen, acts>>

AccountsNext ==
    \/ \E u \in People, b \in Bots, l \in Languages :
         settingsLang(u, b, l) \/ onLanguageChosen(u, b, l)
    \/ \E u \in People : \/ RecordDownload(u) \/ GetOrCreateUserSettings(u) \/ ResetUserSettings(u)
                         \/ \E r \in Ratios : settingsRatio(u, r)
                         \/ \E h, f \in BOOLEAN : settingsWatermark(u, h, f)
    \/ \E c \in DOMAIN Charges : \/ Pay(c) \/ onSuccessfulPayment(c)
                                 \/ purchaseTakesEffect(c) \/ BotDies(c)

-----------------------------------------------------------------------------
(* Whatever shows a user the effect of a purchase, the hidden footer or the *)
(* confirmation, there is a recorded purchase behind it, through toggles,   *)
(* resets, redelivered payments and crashes between the two statements; the *)
(* preference may be lost, the entitlement is not.  Excepted are the admin, *)
(* and a confirmation after the recording statement itself failed           *)
(* (onSettingsCallback, onSuccessfulPayment).                               *)
EffectIsRecorded ==
    /\ \A u \in People : prefs[u].hide => u = Boss \/ HasPurchase(u)
    /\ \A t \in told : t[2] \/ <<t[1], TRUE>> \in told \/ HasPurchase(Charges[t[1]].user)

(* A bot keeps speaking the language last chosen in it of which a call of   *)
(* the store returned without an error, whatever the user chooses in other  *)
(* bots, downloads or resets, and whatever a later choice leaves that       *)
(* failed.  Such a choice is confirmed to the user all the same             *)
(* (GetUserLanguage, SetUserLanguage, CreateUser).                          *)
LanguageSticks ==
    \A k \in People \X Bots : chosen[k] # "none" => GetUserLanguage(k[1], k[2]) = chosen[k]
=============================================================================
