-------------------------- MODULE Services_proofs --------------------------
(***************************************************************************)
(* Proofs about the parts around the downloads: each part has an inductive *)
(* invariant over its own variables, which the steps of the other parts    *)
(* leave alone.                                                            *)
(***************************************************************************)
EXTENDS Services, Lifecycle_proofs, YouTubeCard_proofs, Admission_proofs

-----------------------------------------------------------------------------
(* Accounts: an update that got past its first half has left the charge in   *)
(* the table, or a failed statement in told; a chosen language has its row.  *)
PrefsShape == prefs \in [People -> [ratio : Ratios \cup {"none"}, hide : BOOLEAN]]

PaymentsShape == payments \in [DOMAIN Charges -> {"unpaid", "sent", "recorded", "again", "done"}]

HalfwayIsRecorded ==
    \A c \in DOMAIN Charges :
        /\ payments[c] = "recorded" => c \in purchases
        /\ payments[c] = "again" => c \in purchases \/ <<c, TRUE>> \in told

PurchaseInv ==
    /\ PrefsShape /\ PaymentsShape
    /\ HalfwayIsRecorded /\ EffectIsRecorded

\* No step of a user or of a payment breaks it: the preference is set only
\* behind the record, the confirmation sent only behind the record or its failure.
LEMMA PurchaseNext == PurchaseInv /\ AccountsNext => PurchaseInv'
  <1> SUFFICES ASSUME PurchaseInv, AccountsNext PROVE PurchaseInv'
    OBVIOUS
  <1> USE AccountsAssumption
  <1>1. ASSUME NEW u \in People, NEW b \in Bots, NEW l \in Languages,
               settingsLang(u, b, l) \/ onLanguageChosen(u, b, l)
        PROVE  PurchaseInv'
    BY <1>1 DEF settingsLang, onLanguageChosen, Choose, PurchaseInv, PrefsShape, PaymentsShape,
                HalfwayIsRecorded, EffectIsRecorded, HasPurchase
  <1>2. ASSUME NEW u \in People, RecordDownload(u) PROVE PurchaseInv'
    BY <1>2 DEF RecordDownload, PurchaseInv, PrefsShape, PaymentsShape,
                HalfwayIsRecorded, EffectIsRecorded, HasPurchase
  <1>3. ASSUME NEW u \in People,
               GetOrCreateUserSettings(u) \/ ResetUserSettings(u)
        PROVE  PurchaseInv'
    <2>1. prefs' = [prefs EXCEPT ![u] = DefaultPrefs]
      BY <1>3 DEF GetOrCreateUserSettings, ResetUserSettings
    <2>2. UNCHANGED <<purchases, payments, told>>
      BY <1>3 DEF GetOrCreateUserSettings, ResetUserSettings
    <2> QED
      BY <2>1, <2>2 DEF DefaultPrefs, PurchaseInv, PrefsShape, PaymentsShape,
                        HalfwayIsRecorded, EffectIsRecorded, HasPurchase
  <1>4. ASSUME NEW u \in People, NEW r \in Ratios, settingsRatio(u, r) PROVE PurchaseInv'
    <2>1. /\ prefs' = [prefs EXCEPT ![u] = [Filled(u) EXCEPT !.ratio = r]]
          /\ UNCHANGED <<purchases, payments, told>>
      BY <1>4 DEF settingsRatio, upsertSetting
    <2>2. /\ Filled(u) \in [ratio : Ratios \cup {"none"}, hide : BOOLEAN]
          /\ Filled(u).hide => prefs[u].hide
      BY DEF PurchaseInv, PrefsShape, Filled, DefaultPrefs, NoPrefs
    <2> QED
      BY <2>1, <2>2 DEF PurchaseInv, PrefsShape, PaymentsShape,
                        HalfwayIsRecorded, EffectIsRecorded, HasPurchase
  <1>5. ASSUME NEW u \in People, NEW h \in BOOLEAN, NEW f \in BOOLEAN,
               settingsWatermark(u, h, f)
        PROVE  PurchaseInv'
    <2>1. UNCHANGED <<purchases, payments, told>>
      BY <1>5 DEF settingsWatermark
    <2>2. \/ prefs' = prefs
          \/ /\ u = Boss \/ HasPurchase(u)
             /\ prefs' = [prefs EXCEPT ![u] = [Filled(u) EXCEPT !.hide = h]]
      BY <1>5 DEF settingsWatermark, wmEntitled, upsertSetting
    <2>3. Filled(u) \in [ratio : Ratios \cup {"none"}, hide : BOOLEAN]
      BY DEF PurchaseInv, PrefsShape, Filled, DefaultPrefs, NoPrefs
    <2>4. PrefsShape'
      BY <2>2, <2>3 DEF PurchaseInv, PrefsShape
    <2>5. \A v \in People : prefs'[v].hide => v = Boss \/ HasPurchase(v)
      BY <2>2, <2>3 DEF PurchaseInv, PrefsShape, EffectIsRecorded
    <2> QED
      BY <2>1, <2>4, <2>5 DEF PurchaseInv, PaymentsShape,
                              HalfwayIsRecorded, EffectIsRecorded, HasPurchase
  <1>6. ASSUME NEW c \in DOMAIN Charges, Pay(c) \/ BotDies(c) PROVE PurchaseInv'
    BY <1>6 DEF Pay, BotDies, PurchaseInv, PrefsShape, PaymentsShape,
                HalfwayIsRecorded, EffectIsRecorded, HasPurchase
  <1>7. ASSUME NEW c \in DOMAIN Charges, onSuccessfulPayment(c) PROVE PurchaseInv'
    <2>1. prefs' = prefs /\ purchases \subseteq purchases' /\ told \subseteq told'
      BY <1>7 DEF onSuccessfulPayment, RecordPurchase
    <2>2. told' \subseteq told \cup {<<c, TRUE>>}
      BY <1>7 DEF onSuccessfulPayment, RecordPurchase
    <2>3. \E p \in {"recorded", "again", "done"} :
             /\ payments' = [payments EXCEPT ![c] = p]
             /\ p = "recorded" => c \in purchases'
             /\ p = "again" => c \in purchases' \/ <<c, TRUE>> \in told'
      BY <1>7 DEF onSuccessfulPayment, RecordPurchase
    <2>4. PrefsShape' /\ PaymentsShape'
      BY <2>1, <2>3 DEF PurchaseInv, PrefsShape, PaymentsShape
    <2>5. HalfwayIsRecorded'
      BY <2>1, <2>3 DEF PurchaseInv, PaymentsShape, HalfwayIsRecorded
    <2>6. ASSUME NEW t \in told'
          PROVE  t[2] \/ <<t[1], TRUE>> \in told' \/ HasPurchase(Charges[t[1]].user)'
      <3>1. CASE t \in told
        BY <2>1, <3>1 DEF PurchaseInv, EffectIsRecorded, HasPurchase
      <3>2. CASE t = <<c, TRUE>>
        BY <3>2
      <3> QED
        BY <2>2, <3>1, <3>2
    <2>7. \A u \in People : prefs'[u].hide => u = Boss \/ HasPurchase(u)'
      BY <2>1 DEF PurchaseInv, EffectIsRecorded, HasPurchase
    <2> QED
      BY <2>4, <2>5, <2>6, <2>7 DEF PurchaseInv, EffectIsRecorded
  <1>8. ASSUME NEW c \in DOMAIN Charges, purchaseTakesEffect(c) PROVE PurchaseInv'
    <2> DEFINE user == Charges[c].user
    <2>1. /\ payments[c] \in {"recorded", "again"}
          /\ payments' = [payments EXCEPT ![c] = "done"]
          /\ told' = told \cup {<<c, FALSE>>}
          /\ purchases' = purchases
      BY <1>8 DEF purchaseTakesEffect
    <2>2. \/ prefs' = prefs
          \/ /\ payments[c] = "recorded"
             /\ prefs' = [prefs EXCEPT ![user] = [Filled(user) EXCEPT !.hide = TRUE]]
      BY <1>8 DEF purchaseTakesEffect, upsertSetting
    <2>3. Filled(user) \in [ratio : Ratios \cup {"none"}, hide : BOOLEAN]
      BY DEF PurchaseInv, PrefsShape, Filled, DefaultPrefs, NoPrefs
    <2>4. c \in purchases => HasPurchase(user)
      BY DEF HasPurchase
    <2>5. payments[c] = "recorded" => c \in purchases
      BY DEF PurchaseInv, HalfwayIsRecorded
    <2>6. c \in purchases \/ <<c, TRUE>> \in told
      BY <2>1 DEF PurchaseInv, HalfwayIsRecorded
    <2>7. PrefsShape'
      <3>1. [Filled(user) EXCEPT !.hide = TRUE] \in [ratio : Ratios \cup {"none"}, hide : BOOLEAN]
        BY <2>3
      <3> QED
        BY <2>2, <3>1 DEF PurchaseInv, PrefsShape
    <2>11. PaymentsShape'
      BY <2>1 DEF PurchaseInv, PaymentsShape
    <2>8. HalfwayIsRecorded'
      BY <2>1 DEF PurchaseInv, PaymentsShape, HalfwayIsRecorded
    <2>9. \A u \in People : prefs'[u].hide => u = Boss \/ HasPurchase(u)'
      BY <2>1, <2>2, <2>3, <2>4, <2>5 DEF PurchaseInv, PrefsShape, EffectIsRecorded, HasPurchase
    <2>10. ASSUME NEW t \in told'
           PROVE  t[2] \/ <<t[1], TRUE>> \in told' \/ HasPurchase(Charges[t[1]].user)'
      <3>1. CASE t \in told
        BY <2>1, <3>1 DEF PurchaseInv, EffectIsRecorded, HasPurchase
      <3>2. CASE t = <<c, FALSE>>
        BY <2>1, <2>4, <2>6, <3>2 DEF HasPurchase
      <3> QED
        BY <2>1, <3>1, <3>2
    <2> QED
      BY <2>7, <2>8, <2>9, <2>10, <2>11 DEF PurchaseInv, EffectIsRecorded
  <1> QED
    BY <1>1, <1>2, <1>3, <1>4, <1>5, <1>6, <1>7, <1>8 DEF AccountsNext

\* A language of which a call returned without an error has its row in
\* user_bot_settings.
ChosenHasRow ==
    /\ userLang \in [People -> Languages \cup {"none"}]
    /\ botLang \in [People \X Bots -> Languages \cup {"none"}]
    /\ chosen \in [People \X Bots -> Languages \cup {"none"}]
    /\ \A k \in People \X Bots :
          chosen[k] # "none" => botLang[k] = chosen[k]

TwoRows == [user : Languages \cup {"none"}, bot : Languages \cup {"none"}]

\* What the two statements leave, as far as they got.
LEMMA RowsWritten ==
  ASSUME NEW rows \in TwoRows, NEW l \in Languages, NEW n \in 0..2, NEW after,
         after = CreateUser(rows, l, n) \/ after = SetUserLanguage(rows, l, n)
  PROVE  /\ after \in TwoRows
         /\ after.bot = IF n = 2 THEN l ELSE rows.bot
  <1>2. rows.user \in Languages \cup {"none"} /\ rows.bot \in Languages \cup {"none"}
    BY DEF TwoRows
  <1>3. PICK w \in Languages \cup {"none"} :
           after = [user |-> w, bot |-> IF n = 2 THEN l ELSE rows.bot]
    <2>1. CASE after = CreateUser(rows, l, n)
      BY <1>2, <2>1 DEF CreateUser, setUserBotLanguage
    <2>2. CASE after = SetUserLanguage(rows, l, n)
      BY <1>2, <2>2 DEF SetUserLanguage, setUserBotLanguage
    <2> QED
      BY <2>1, <2>2
  <1> QED
    BY <1>2, <1>3 DEF TwoRows

\* The outcome of a choice: the bot's row is the chosen language if a call
\* returned without an error, else what it was.
Outcome(u, b, l, rows, kept, fails) ==
    /\ Choose(u, b, l, rows, kept, fails)
    /\ rows.bot = IF kept THEN l ELSE botLang[<<u, b>>]

LEMMA ChoiceRows ==
  ASSUME userLang \in [People -> Languages \cup {"none"}],
         botLang \in [People \X Bots -> Languages \cup {"none"}],
         NEW u \in People, NEW b \in Bots, NEW l \in Languages,
         settingsLang(u, b, l) \/ onLanguageChosen(u, b, l)
  PROVE  \E rows \in TwoRows, kept, fails \in BOOLEAN : Outcome(u, b, l, rows, kept, fails)
  <1> DEFINE old == LangRows(u, b)
  <1>1. old \in TwoRows /\ old.bot = botLang[<<u, b>>]
    BY DEF LangRows, TwoRows
  <1> HIDE DEF old
  <1>2. CASE settingsLang(u, b, l)
    <2>1. PICK n \in 0..2 : Choose(u, b, l, SetUserLanguage(old, l, n), n = 2, n < 2)
      BY <1>2 DEF settingsLang, old
    <2> DEFINE after == SetUserLanguage(old, l, n)
    <2>2. after \in TwoRows /\ after.bot = IF n = 2 THEN l ELSE old.bot
      BY <1>1, RowsWritten
    <2>3. Outcome(u, b, l, after, n = 2, n < 2)
      BY <1>1, <2>1, <2>2 DEF Outcome
    <2>4. (n = 2) \in BOOLEAN /\ (n < 2) \in BOOLEAN
      OBVIOUS
    <2> HIDE DEF after
    <2> QED
      BY <2>2, <2>3, <2>4
  <1>3. CASE onLanguageChosen(u, b, l) /\ b = "saveinator"
    <2>1. PICK m \in 0..2 : Choose(u, b, l, CreateUser(old, l, m), m = 2, m < 2)
      BY <1>3 DEF onLanguageChosen, old
    <2> DEFINE after == CreateUser(old, l, m)
    <2>2. after \in TwoRows /\ after.bot = IF m = 2 THEN l ELSE old.bot
      BY <1>1, RowsWritten
    <2>3. Outcome(u, b, l, after, m = 2, m < 2)
      BY <1>1, <2>1, <2>2 DEF Outcome
    <2>4. (m = 2) \in BOOLEAN /\ (m < 2) \in BOOLEAN
      OBVIOUS
    <2> HIDE DEF after
    <2> QED
      BY <2>2, <2>3, <2>4
  <1>4. CASE onLanguageChosen(u, b, l) /\ b # "saveinator"
    <2>1. PICK m \in 0..2, n \in 0..2, unknown \in BOOLEAN :
             Choose(u, b, l,
                    SetUserLanguage(IF unknown THEN CreateUser(old, l, m) ELSE old, l, n),
                    n = 2 \/ (unknown /\ m = 2),
                    n < 2 \/ (unknown /\ (m < 2 \/ UserExists(u))))
      BY <1>4 DEF onLanguageChosen, old
    <2> DEFINE mid == IF unknown THEN CreateUser(old, l, m) ELSE old
               after == SetUserLanguage(mid, l, n)
               kept == n = 2 \/ (unknown /\ m = 2)
               fails == n < 2 \/ (unknown /\ (m < 2 \/ UserExists(u)))
    <2>2. /\ CreateUser(old, l, m) \in TwoRows
          /\ CreateUser(old, l, m).bot = IF m = 2 THEN l ELSE old.bot
      BY <1>1, RowsWritten
    <2>3. mid \in TwoRows /\ mid.bot = IF unknown /\ m = 2 THEN l ELSE old.bot
      BY <1>1, <2>2
    <2>4. Choose(u, b, l, after, kept, fails)
      BY <2>1
    <2> HIDE DEF mid
    <2>5. after \in TwoRows /\ after.bot = IF n = 2 THEN l ELSE mid.bot
      BY <2>3, RowsWritten
    <2>6. kept \in BOOLEAN /\ fails \in BOOLEAN
      OBVIOUS
    <2>7. after.bot = IF kept THEN l ELSE botLang[<<u, b>>]
      BY <1>1, <2>3, <2>5
    <2> HIDE DEF after, kept, fails
    <2>8. Outcome(u, b, l, after, kept, fails)
      BY <2>4, <2>7 DEF Outcome
    <2> QED
      BY <2>5, <2>6, <2>8
  <1> QED
    BY <1>2, <1>3, <1>4

\* Only a choice in a bot writes the bot's row, and no step removes a user.
LEMMA LanguageNext == ChosenHasRow /\ AccountsNext => ChosenHasRow'
  <1> SUFFICES ASSUME ChosenHasRow, AccountsNext PROVE ChosenHasRow'
    OBVIOUS
  <1>1. CASE \E u \in People, b \in Bots, l \in Languages :
                settingsLang(u, b, l) \/ onLanguageChosen(u, b, l)
    <2>1. PICK u \in People, b \in Bots, l \in Languages :
             settingsLang(u, b, l) \/ onLanguageChosen(u, b, l)
      BY <1>1
    <2>2. PICK rows \in TwoRows, kept \in BOOLEAN, fails \in BOOLEAN :
             Outcome(u, b, l, rows, kept, fails)
      BY <2>1, ChoiceRows DEF ChosenHasRow
    <2>3. PICK k \in People \X Bots : k = <<u, b>>
      OBVIOUS
    <2>4. /\ userLang' = [userLang EXCEPT ![u] = rows.user]
          /\ botLang' = [botLang EXCEPT ![k] = rows.bot]
          /\ chosen' = [chosen EXCEPT ![k] = IF kept THEN l ELSE chosen[k]]
      BY <2>2, <2>3 DEF Outcome, Choose, ChosenHasRow
    <2>5. rows.user \in Languages \cup {"none"} /\ rows.bot \in Languages \cup {"none"}
      BY DEF TwoRows
    <2>6. rows.bot = IF kept THEN l ELSE botLang[k]
      BY <2>2, <2>3 DEF Outcome
    <2>7. ASSUME NEW j \in People \X Bots, chosen'[j] # "none"
          PROVE  botLang'[j] = chosen'[j]
      <3>1. CASE j = k
        BY <2>4, <2>6, <2>7, <3>1 DEF ChosenHasRow
      <3>2. CASE j # k
        BY <2>4, <2>7, <3>2 DEF ChosenHasRow
      <3> QED
        BY <3>1, <3>2
    <2> QED
      BY <2>4, <2>5, <2>7 DEF ChosenHasRow
  <1>2. ASSUME UNCHANGED <<botLang, chosen>>,
               \/ UNCHANGED userLang
               \/ \E u \in People : userLang' = Ensured(u) \/ userLang' = [userLang EXCEPT ![u] = "en"]
        PROVE  ChosenHasRow'
    <2>1. "en" \in Languages
      BY AccountsAssumption
    <2>2. userLang' \in [People -> Languages \cup {"none"}]
      BY <1>2, <2>1 DEF Ensured, ChosenHasRow
    <2> QED
      BY <1>2, <2>2 DEF ChosenHasRow
  <1>3. ASSUME NEW u \in People,
               \/ RecordDownload(u) \/ GetOrCreateUserSettings(u) \/ ResetUserSettings(u)
               \/ \E r \in Ratios : settingsRatio(u, r)
               \/ \E h, f \in BOOLEAN : settingsWatermark(u, h, f)
        PROVE  ChosenHasRow'
    <2>1. /\ UNCHANGED <<botLang, chosen>>
          /\ \/ UNCHANGED userLang
             \/ userLang' = Ensured(u)
             \/ userLang' = [userLang EXCEPT ![u] = "en"]
      BY <1>3 DEF RecordDownload, GetOrCreateUserSettings, ResetUserSettings, settingsRatio,
                  settingsWatermark, upsertSetting
    <2> QED
      BY <1>2, <2>1
  <1>4. ASSUME NEW c \in DOMAIN Charges,
               Pay(c) \/ onSuccessfulPayment(c) \/ purchaseTakesEffect(c) \/ BotDies(c)
        PROVE  ChosenHasRow'
    <2>1. Charges[c].user \in People
      BY AccountsAssumption
    <2>2. /\ UNCHANGED <<botLang, chosen>>
          /\ UNCHANGED userLang \/ userLang' = Ensured(Charges[c].user)
      BY <1>4 DEF Pay, onSuccessfulPayment, purchaseTakesEffect, BotDies, upsertSetting
    <2> QED
      BY <1>2, <2>1, <2>2
  <1> QED
    BY <1>1, <1>3, <1>4 DEF AccountsNext

-----------------------------------------------------------------------------
(* Checklist: a runner that has not lost its row has it fresh and RUNNING.   *)
Statuses == {"none", "PENDING", "RUNNING", "PASSED", "FAILED"}
Media == {"", "video", "photos", "text"}
Rows == [status : Statuses, error : BOOLEAN, media : Media, files : BOOLEAN, age : 0..StaleAfter]

RowsShape == checklist \in [TestURLs -> Rows]

Runs == [url : TestURLs \cup {"none"}, lost : BOOLEAN]

RunnersShape ==
    /\ runner \in [Runners -> Runs]
    /\ \A r \in Runners : runner[r].url = "none" => ~runner[r].lost

FreshRow(row) == row.status = "RUNNING" /\ row.age < StaleAfter

RowIsHeld ==
    \A r \in Runners : runner[r].url # "none" /\ ~runner[r].lost => FreshRow(checklist[runner[r].url])

ChecklistInv == RowsShape /\ RunnersShape /\ RowIsHeld /\ OneRunnerPerRow

\* A row that stays as it is stays held.
LEMMA SameRunners ==
  ASSUME ChecklistInv, RowsShape', UNCHANGED runner,
         \A u \in TestURLs : FreshRow(checklist[u]) => checklist'[u] = checklist[u]
  PROVE  ChecklistInv'
  BY DEF ChecklistInv, RunnersShape, Runs, RowIsHeld, OneRunnerPerRow, FreshRow

\* Runners that are marked lost, or stop, hold nothing any more.
LEMMA FewerHolders ==
  ASSUME ChecklistInv, RowsShape',
         runner' \in [Runners -> Runs],
         \A r \in Runners : runner'[r] = Resting \/ runner'[r].url = runner[r].url,
         \A r \in Runners : runner[r].lost => runner'[r].lost \/ runner'[r] = Resting,
         \A r \in Runners : runner'[r].url = "none" => ~runner'[r].lost,
         \A r \in Runners : ~runner'[r].lost /\ runner'[r].url # "none"
                            => FreshRow(checklist'[runner'[r].url])
  PROVE  ChecklistInv'
  BY DEF ChecklistInv, RunnersShape, RowIsHeld, OneRunnerPerRow, Resting

\* A missing row and one that waits are rows, and nobody holds them.
LEMMA RowTypes ==
  /\ NoRow \in Rows /\ Pending \in Rows
  /\ ~FreshRow(NoRow) /\ ~FreshRow(Pending)
  <1>1. 0 \in 0..StaleAfter
    BY ChecklistAssumption
  <1> DEFINE S == Statuses
             M == Media
  <1>2. "none" \in S /\ "PENDING" \in S /\ "" \in M
    BY DEF Statuses, Media
  <1>3. NoRow \in [status : S, error : BOOLEAN, media : M, files : BOOLEAN, age : 0..StaleAfter]
    <2> HIDE DEF S, M
    <2> QED
      BY <1>1, <1>2 DEF NoRow
  <1>4. NoRow \in Rows /\ NoRow.status = "none"
    BY <1>3 DEF Rows, NoRow
  <1>5. Pending \in Rows /\ Pending.status = "PENDING"
    BY <1>2, <1>4 DEF Pending, Rows
  <1> QED
    BY <1>4, <1>5 DEF FreshRow

Answers == [status : Statuses, error : BOOLEAN, media : Media, files : BOOLEAN]

\* What executeTestURL answers fits the columns.
LEMMA ResultTypes ==
  ASSUME NEW u \in TestURLs, NEW w \in World
  PROVE  executeTestURL(u, w) \in Answers
  <1>1. Failed \in Answers /\ \A m \in Media, f \in BOOLEAN : Passed(m, f) \in Answers
    BY DEF Failed, Passed, Answers, Statuses, Media
  <1>2. testDirMedia(w.left) \in Answers
    BY <1>1 DEF testDirMedia, Media
  <1>3. testYtdlpPlatform(w) \in Answers /\ testX(w) \in Answers /\ testPinterest(w) \in Answers
    BY <1>1, <1>2 DEF testYtdlpPlatform, testX, testPinterest, Media
  <1>4. testReddit(w) \in Answers
    BY <1>1, <1>3 DEF testReddit, Media
  <1> QED
    BY <1>1, <1>3, <1>4 DEF executeTestURL

\* A row can be claimed only when nobody holds it fresh; whatever takes it from
\* its runner (deletion, age, another's result) marks the runner.
LEMMA ChecklistStep == ChecklistInv /\ ChecklistNext => ChecklistInv'
  <1> SUFFICES ASSUME ChecklistInv, ChecklistNext PROVE ChecklistInv'
    OBVIOUS
  <1>0. "none" \notin TestURLs
    BY ChecklistAssumption DEF TestURLs
  <1>1. ASSUME NEW u \in TestURLs, handleTestURLCreate(u) PROVE ChecklistInv'
    BY <1>1, SameRunners, RowTypes DEF handleTestURLCreate, ChecklistInv, RowsShape
  <1>2. ASSUME NEW u \in TestURLs, handleTestURLDelete(u) PROVE ChecklistInv'
    <2>1. /\ checklist' = [checklist EXCEPT ![u] = NoRow]
          /\ runner' = [r \in Runners |->
                IF runner[r].url = u THEN [runner[r] EXCEPT !.lost = TRUE] ELSE runner[r]]
      BY <1>2 DEF handleTestURLDelete
    <2>2. RowsShape'
      BY <2>1, RowTypes DEF ChecklistInv, RowsShape
    <2>3. runner' \in [Runners -> Runs]
      BY <2>1 DEF ChecklistInv, RunnersShape, Runs
    <2>4. \A r \in Runners : /\ runner'[r].url = runner[r].url
                             /\ runner[r].lost => runner'[r].lost
                             /\ runner[r].url = u => runner'[r].lost
                             /\ runner[r].url # u => runner'[r] = runner[r]
      BY <2>1 DEF ChecklistInv, RunnersShape, Runs
    <2>5. \A v \in TestURLs : v # u => checklist'[v] = checklist[v]
      BY <2>1 DEF ChecklistInv, RowsShape
    <2>6. \A r \in Runners : runner'[r].url = "none" => ~runner'[r].lost
      BY <1>0, <2>4 DEF ChecklistInv, RunnersShape
    <2>7. \A r \in Runners : ~runner'[r].lost /\ runner'[r].url # "none"
                             => FreshRow(checklist'[runner'[r].url])
      BY <2>4, <2>5 DEF ChecklistInv, RunnersShape, Runs, RowIsHeld
    <2> QED
      BY <2>2, <2>3, <2>4, <2>6, <2>7, FewerHolders
  <1>3. ASSUME NEW us \in SUBSET TestURLs, RequeueTestURLs(us), UNCHANGED runner
        PROVE  ChecklistInv'
    <2>1. \A u \in TestURLs : checklist'[u] = Pending \/ checklist'[u] = checklist[u]
      BY <1>3 DEF RequeueTestURLs
    <2>2. \A u \in TestURLs : FreshRow(checklist[u]) => checklist'[u] = checklist[u]
      BY <1>3 DEF RequeueTestURLs, Finished, FreshRow
    <2>3. RowsShape'
      BY <1>3, RowTypes DEF RequeueTestURLs, ChecklistInv, RowsShape
    <2> QED
      BY <1>3, <2>2, <2>3, SameRunners
  <1>4. ASSUME NEW r \in Runners, NEW u \in TestURLs, ClaimNextTestURL(r, u)
        PROVE  ChecklistInv'
    <2>1. /\ checklist' = [checklist EXCEPT ![u] = [checklist[u] EXCEPT !.status = "RUNNING", !.age = 0]]
          /\ runner' = [runner EXCEPT ![r] = [url |-> u, lost |-> FALSE]]
          /\ ~FreshRow(checklist[u])
      <3>1. checklist' = [checklist EXCEPT ![u].status = "RUNNING", ![u].age = 0]
            /\ Runnable(checklist[u])
        BY <1>4 DEF ClaimNextTestURL
      <3>2. checklist[u].age \in 0..StaleAfter
        BY DEF ChecklistInv, RowsShape, Rows
      <3>3. ~FreshRow(checklist[u])
        BY <3>1, <3>2, ChecklistAssumption DEF Runnable, FreshRow
      <3>4. runner' = [runner EXCEPT ![r] = [url |-> u, lost |-> FALSE]]
        BY <1>4 DEF ClaimNextTestURL
      <3> QED
        BY <3>1, <3>3, <3>4 DEF ChecklistInv, RowsShape
    <2>2. \A q \in Runners : runner[q].url = u => runner[q].lost
      BY <1>0, <2>1 DEF ChecklistInv, RowIsHeld
    <2>3. RowsShape' /\ FreshRow(checklist'[u]) /\ \A v \in TestURLs : v # u => checklist'[v] = checklist[v]
      <3> DEFINE row == [checklist[u] EXCEPT !.status = "RUNNING", !.age = 0]
      <3>1. 0 \in 0..StaleAfter /\ 0 < StaleAfter
        BY ChecklistAssumption
      <3>2. row \in Rows /\ row.status = "RUNNING" /\ row.age = 0
        <4>1. "RUNNING" \in Statuses /\ checklist[u] \in Rows
          BY DEF ChecklistInv, RowsShape, Statuses
        <4> QED
          BY <3>1, <4>1 DEF Rows
      <3> HIDE DEF row
      <3> QED
        BY <2>1, <3>1, <3>2 DEF ChecklistInv, RowsShape, FreshRow, row
    <2>4. RunnersShape' /\ \A q \in Runners : IF q = r THEN runner'[q] = [url |-> u, lost |-> FALSE]
                                              ELSE runner'[q] = runner[q]
      BY <1>0, <2>1 DEF ChecklistInv, RunnersShape, Runs
    <2>5. RowIsHeld'
      BY <2>2, <2>3, <2>4 DEF ChecklistInv, RunnersShape, Runs, RowIsHeld
    <2>6. OneRunnerPerRow'
      BY <2>2, <2>4 DEF ChecklistInv, OneRunnerPerRow
    <2> QED
      BY <2>3, <2>4, <2>5, <2>6 DEF ChecklistInv
  <1>5. ASSUME NEW r \in Runners, runTestURL(r) PROVE ChecklistInv'
    <2>1. PICK result \in Results[runner[r].url] : FinishTestURL(runner[r].url, result)
      BY <1>5 DEF runTestURL
    <2> DEFINE u == runner[r].url
    <2>2. u \in TestURLs
      BY <1>5 DEF runTestURL, ChecklistInv, RunnersShape, Runs, Resting
    <2>3. result \in Answers
      <3>1. Results[u] = {executeTestURL(u, w) : w \in World}
        BY <2>2 DEF Results
      <3>2. PICK w \in World : result = executeTestURL(u, w)
        BY <2>1, <3>1
      <3> QED
        BY <2>2, <3>2, ResultTypes
    <2>4. RowsShape'
      <3>1. 0 \in 0..StaleAfter
        BY ChecklistAssumption
      <3>2. [status |-> result.status, error |-> result.error, media |-> result.media,
             files |-> result.files, age |-> 0] \in Rows
        BY <2>3, <3>1 DEF Answers, Rows
      <3> QED
        BY <2>1, <2>2, <3>2 DEF FinishTestURL, ChecklistInv, RowsShape
    <2>5. \A v \in TestURLs : v # u => checklist'[v] = checklist[v]
      BY <2>1 DEF FinishTestURL, ChecklistInv, RowsShape
    <2>6. runner' = [q \in Runners |->
              IF q = r THEN Resting
              ELSE IF runner[q].url = runner[r].url THEN [runner[q] EXCEPT !.lost = TRUE]
              ELSE runner[q]]
      BY <1>5 DEF runTestURL
    <2>7. \A q \in Runners : /\ q = r => runner'[q] = Resting
                             /\ q # r /\ runner[q].url = u => runner'[q] = [runner[q] EXCEPT !.lost = TRUE]
                             /\ q # r /\ runner[q].url # u => runner'[q] = runner[q]
      BY <2>6
    <2>8. ASSUME NEW q \in Runners
          PROVE  /\ runner'[q] \in Runs
                 /\ runner'[q] = Resting \/ runner'[q].url = runner[q].url
                 /\ runner[q].lost => runner'[q].lost \/ runner'[q] = Resting
                 /\ runner'[q].url = "none" => ~runner'[q].lost
      <3>1. CASE q = r
        <4>1. runner'[q] = Resting
          BY <2>7, <3>1
        <4>2. Resting \in Runs /\ ~Resting.lost
          BY DEF Runs, Resting
        <4> QED
          BY <4>1, <4>2
      <3>2. CASE q # r /\ runner[q].url = u
        <4>1. runner'[q] = [runner[q] EXCEPT !.lost = TRUE] /\ runner[q] \in Runs
          BY <2>7, <3>2 DEF ChecklistInv, RunnersShape
        <4>2. runner'[q] \in Runs /\ runner'[q].url = runner[q].url /\ runner'[q].lost
          BY <4>1 DEF Runs
        <4> QED
          BY <1>0, <2>2, <3>2, <4>2
      <3>3. CASE q # r /\ runner[q].url # u
        BY <2>7, <3>3 DEF ChecklistInv, RunnersShape
      <3> QED
        BY <3>1, <3>2, <3>3
    <2>9. runner' \in [Runners -> Runs]
      BY <2>6, <2>8
    <2>10. ASSUME NEW q \in Runners, ~runner'[q].lost, runner'[q].url # "none"
           PROVE  FreshRow(checklist'[runner'[q].url])
      <3>1. q # r
        <4>1. Resting.url = "none"
          BY DEF Resting
        <4>2. runner'[r] = Resting
          BY <2>7
        <4> QED
          BY <2>10, <4>1, <4>2
      <3>2. runner[q].url # u
        BY <2>7, <2>10, <3>1 DEF ChecklistInv, RunnersShape, Runs
      <3>3. runner'[q] = runner[q] /\ runner[q].url \in TestURLs
        <4>1. runner'[q] = runner[q]
          BY <2>7, <3>1, <3>2
        <4> QED
          BY <2>10, <4>1 DEF ChecklistInv, RunnersShape, Runs
      <3> QED
        BY <2>5, <2>10, <3>2, <3>3 DEF ChecklistInv, RowIsHeld
    <2> QED
      BY <2>4, <2>8, <2>9, <2>10, FewerHolders
  <1>6. ASSUME NEW r \in Runners, RunnerDies(r) PROVE ChecklistInv'
    <2>1. runner' = [runner EXCEPT ![r] = Resting] /\ checklist' = checklist
      BY <1>6 DEF RunnerDies
    <2>2. runner' \in [Runners -> Runs]
      BY <2>1 DEF ChecklistInv, RunnersShape, Runs, Resting
    <2> QED
      BY <2>1, <2>2, FewerHolders DEF ChecklistInv, RowsShape, RunnersShape, RowIsHeld, Resting
  <1>7. CASE Aging
    <2>1. /\ checklist' = [u \in TestURLs |->
                IF checklist[u].status = "RUNNING" /\ checklist[u].age < StaleAfter
                THEN [checklist[u] EXCEPT !.age = @ + 1] ELSE checklist[u]]
          /\ runner' = [r \in Runners |->
                IF runner[r].url # "none" /\ checklist'[runner[r].url].age = StaleAfter
                THEN [runner[r] EXCEPT !.lost = TRUE] ELSE runner[r]]
      BY <1>7 DEF Aging
    <2>2. \A u \in TestURLs : checklist'[u] \in Rows /\ checklist'[u].status = checklist[u].status
      <3> SUFFICES ASSUME NEW u \in TestURLs
                   PROVE  checklist'[u] \in Rows /\ checklist'[u].status = checklist[u].status
        OBVIOUS
      <3>1. checklist[u] \in Rows
        BY DEF ChecklistInv, RowsShape
      <3>2. checklist[u].age < StaleAfter => checklist[u].age + 1 \in 0..StaleAfter
        BY <3>1, ChecklistAssumption DEF Rows
      <3>3. CASE checklist[u].status = "RUNNING" /\ checklist[u].age < StaleAfter
        <4>1. checklist'[u] = [checklist[u] EXCEPT !.age = checklist[u].age + 1]
          BY <2>1, <3>1, <3>3 DEF Rows
        <4> QED
          BY <3>1, <3>2, <3>3, <4>1 DEF Rows
      <3>4. CASE ~(checklist[u].status = "RUNNING" /\ checklist[u].age < StaleAfter)
        BY <2>1, <3>1, <3>4
      <3> QED
        BY <3>3, <3>4
    <2>3. RowsShape'
      BY <2>1, <2>2 DEF RowsShape
    <2>4. \A r \in Runners : /\ runner'[r] \in Runs
                             /\ runner'[r].url = runner[r].url
                             /\ runner[r].lost => runner'[r].lost
                             /\ runner'[r].url = "none" => ~runner'[r].lost
                             /\ ~runner'[r].lost /\ runner[r].url # "none" =>
                                  ~runner[r].lost /\ checklist'[runner[r].url].age # StaleAfter
      BY <2>1 DEF ChecklistInv, RunnersShape, Runs
    <2>5. runner' \in [Runners -> Runs]
      BY <2>1, <2>4
    <2>6. ASSUME NEW r \in Runners, ~runner'[r].lost, runner'[r].url # "none"
          PROVE  FreshRow(checklist'[runner'[r].url])
      <3>1. /\ runner[r].url \in TestURLs /\ runner'[r].url = runner[r].url
            /\ FreshRow(checklist[runner[r].url])
        BY <2>4, <2>6 DEF ChecklistInv, RunnersShape, Runs, RowIsHeld
      <3>2. checklist'[runner[r].url].age # StaleAfter
        BY <2>4, <2>6
      <3> QED
        <4>1. /\ checklist'[runner[r].url].age \in 0..StaleAfter
              /\ checklist'[runner[r].url].status = "RUNNING"
          BY <2>2, <3>1 DEF Rows, FreshRow
        <4> QED
          BY <3>1, <3>2, <4>1, ChecklistAssumption DEF FreshRow
    <2> QED
      BY <2>3, <2>4, <2>5, <2>6, FewerHolders
  <1> QED
    BY <1>1, <1>2, <1>3, <1>4, <1>5, <1>6, <1>7
    DEF ChecklistNext, handleTestURLRun, handleTestURLRerun, drainTestURLs

\* The columns of a row tell one story, whatever its status.
OneStory(row) ==
    /\ row.status = "PASSED" => ~row.error /\ row.media # "" /\ (row.media # "text" => row.files)
    /\ row.status = "FAILED" => row.error /\ row.media = ""
    /\ row.status \notin {"PASSED", "FAILED"} => ~row.error /\ row.media = ""

StoryInv == \A u \in TestURLs : OneStory(checklist[u])

\* The property and its form without cases.
LEMMA StoryIsResult == StoryInv <=> ResultMatchesStatus
  BY DEF StoryInv, OneStory, ResultMatchesStatus

\* A failure has its reason, a pass its media and files: whatever the downloaders answer.
LEMMA ResultTellsStory ==
  ASSUME NEW u \in TestURLs, NEW w \in World
  PROVE  OneStory(executeTestURL(u, w)) /\ executeTestURL(u, w).status \in {"PASSED", "FAILED"}
  <1> DEFINE Good(a) == OneStory(a) /\ a.status \in {"PASSED", "FAILED"}
  <1>1. /\ Good(Failed) /\ Good(Passed("text", FALSE))
        /\ Good(Passed("video", TRUE)) /\ Good(Passed("photos", TRUE))
    BY DEF Failed, Passed, OneStory
  <1> HIDE DEF Good
  <1>2. Good(testDirMedia(w.left))
    BY <1>1 DEF testDirMedia
  <1>3. Good(testYtdlpPlatform(w)) /\ Good(testX(w)) /\ Good(testPinterest(w))
    BY <1>1, <1>2 DEF testYtdlpPlatform, testX, testPinterest
  <1>4. Good(testReddit(w))
    BY <1>1, <1>3 DEF testReddit
  <1>5. Good(executeTestURL(u, w))
    BY <1>1, <1>3, <1>4 DEF executeTestURL
  <1> QED
    BY <1>5 DEF Good

\* A requeue, a claim and the passing of time leave nothing of an old result
\* behind, and a result is written as a whole.
LEMMA StoryStep == ChecklistInv /\ StoryInv /\ ChecklistNext => StoryInv'
  <1> SUFFICES ASSUME ChecklistInv, StoryInv, ChecklistNext PROVE StoryInv'
    OBVIOUS
  <1>0. OneStory(NoRow) /\ OneStory(Pending)
    BY DEF NoRow, Pending, OneStory
  <1>1. ASSUME NEW u \in TestURLs, handleTestURLCreate(u) \/ handleTestURLDelete(u) PROVE StoryInv'
    <2>1. checklist' = [checklist EXCEPT ![u] = Pending] \/ checklist' = [checklist EXCEPT ![u] = NoRow]
      BY <1>1 DEF handleTestURLCreate, handleTestURLDelete
    <2> QED
      BY <1>0, <2>1 DEF StoryInv, ChecklistInv, RowsShape
  <1>2. ASSUME NEW us, RequeueTestURLs(us) PROVE StoryInv'
    BY <1>0, <1>2 DEF RequeueTestURLs, StoryInv
  <1>3. ASSUME NEW r \in Runners, NEW u \in TestURLs, ClaimNextTestURL(r, u) PROVE StoryInv'
    <2>1. /\ checklist' = [checklist EXCEPT ![u] = [checklist[u] EXCEPT !.status = "RUNNING", !.age = 0]]
          /\ checklist[u].status \in {"PENDING", "RUNNING"}
      BY <1>3 DEF ClaimNextTestURL, Runnable, ChecklistInv, RowsShape
    <2> DEFINE row == [checklist[u] EXCEPT !.status = "RUNNING", !.age = 0]
    <2>2. checklist[u] \in Rows /\ OneStory(checklist[u])
      BY DEF ChecklistInv, RowsShape, StoryInv
    <2>3. row.status = "RUNNING" /\ row.error = checklist[u].error /\ row.media = checklist[u].media
      BY <2>2 DEF Rows
    <2>4. OneStory(row)
      BY <2>1, <2>2, <2>3 DEF OneStory
    <2> HIDE DEF row
    <2> QED
      BY <2>1, <2>4 DEF StoryInv, ChecklistInv, RowsShape, row
  <1>4. ASSUME NEW r \in Runners, runTestURL(r) PROVE StoryInv'
    <2>1. PICK result \in Results[runner[r].url] : FinishTestURL(runner[r].url, result)
      BY <1>4 DEF runTestURL
    <2> DEFINE u == runner[r].url
               row == [status |-> result.status, error |-> result.error, media |-> result.media,
                       files |-> result.files, age |-> 0]
    <2>2. u \in TestURLs
      BY <1>4 DEF runTestURL, ChecklistInv, RunnersShape, Runs, Resting
    <2>3. Results[u] = {executeTestURL(u, w) : w \in World}
      BY <2>2 DEF Results
    <2>4. PICK w \in World : result = executeTestURL(u, w)
      BY <2>1, <2>3
    <2>5. OneStory(result)
      BY <2>2, <2>4, ResultTellsStory
    <2>6. OneStory(row)
      BY <2>5 DEF OneStory
    <2>7. checklist' = checklist \/ checklist' = [checklist EXCEPT ![u] = row]
      BY <2>1 DEF FinishTestURL
    <2> HIDE DEF row
    <2> QED
      BY <2>2, <2>6, <2>7 DEF StoryInv, ChecklistInv, RowsShape
  <1>5. ASSUME NEW r \in Runners, RunnerDies(r) PROVE StoryInv'
    BY <1>5 DEF RunnerDies, StoryInv
  <1>6. CASE Aging
    <2> SUFFICES ASSUME NEW u \in TestURLs PROVE OneStory(checklist'[u])
      BY DEF StoryInv
    <2>1. checklist[u] \in Rows /\ OneStory(checklist[u])
      BY DEF ChecklistInv, RowsShape, StoryInv
    <2>2. checklist'[u] = checklist[u] \/ checklist'[u] = [checklist[u] EXCEPT !.age = @ + 1]
      BY <1>6 DEF Aging
    <2>3. /\ checklist'[u].status = checklist[u].status /\ checklist'[u].error = checklist[u].error
          /\ checklist'[u].media = checklist[u].media /\ checklist'[u].files = checklist[u].files
      BY <2>1, <2>2 DEF Rows
    <2> QED
      BY <2>1, <2>3 DEF OneStory
  <1> QED
    BY <1>1, <1>2, <1>3, <1>4, <1>5, <1>6
    DEF ChecklistNext, handleTestURLRun, handleTestURLRerun, drainTestURLs

-----------------------------------------------------------------------------
(* Dashboard: a session in memory is one of an admin's logins that has not   *)
(* ended, and it expires when that login does.                               *)
Logins == [user : DashAdmins, at : Nat, ended : BOOLEAN]

LoginsShape ==
    /\ tokens \in Nat /\ dashTime \in Nat
    /\ origin \in [1..tokens -> Logins]

SessionIsLogin ==
    \A t \in DOMAIN sessions :
        /\ t \in 1..tokens
        /\ sessions[t].user = origin[t].user
        /\ sessions[t].expires = origin[t].at + SessionTTL
        /\ ~origin[t].ended

AnswerIsKnown == answer.token = NoToken \/ answer.token \in 1..tokens

DashInv == LoginsShape /\ SessionIsLogin /\ AnswerIsKnown /\ DataForLiveSessions

\* Sessions may be forgotten at any time.
LEMMA FewerSessions ==
  ASSUME DashInv, UNCHANGED <<tokens, dashTime, origin, answer>>,
         \A t \in DOMAIN sessions' : t \in DOMAIN sessions /\ sessions'[t] = sessions[t]
  PROVE  DashInv'
  BY DEF DashInv, LoginsShape, SessionIsLogin, AnswerIsKnown, DataForLiveSessions

\* A login adds a session of its own, a logout takes its session along, and what
\* is shown was looked up in a session that is there.
LEMMA DashStep == DashInv /\ DashAuthNext => DashInv'
  <1> SUFFICES ASSUME DashInv, DashAuthNext PROVE DashInv'
    OBVIOUS
  <1>1. ASSUME NEW v \in Visitors, NEW form, handleAuthLogin(v, form) PROVE DashInv'
    <2>1. CASE UNCHANGED <<sessions, tokens, origin>>
      BY <1>1, <2>1, FewerSessions DEF handleAuthLogin
    <2>2. CASE dashAdmin(v) /\ issue(v)
      <3> DEFINE n == tokens + 1
                 login == [user |-> v, at |-> dashTime, ended |-> FALSE]
                 sess == [user |-> v, expires |-> dashTime + SessionTTL]
      <3>1. /\ tokens' = n /\ n \in 1..n /\ n \notin 1..tokens /\ 1..n = {n} \cup 1..tokens
            /\ dashTime' = dashTime /\ answer' = answer
        BY <1>1, <2>2 DEF handleAuthLogin, issue, DashInv, LoginsShape
      <3>2. /\ sessions' = Put(cleanupLocked, n, sess)
            /\ origin' = Put(origin, n, login)
        BY <2>2 DEF issue
      <3>3. login \in Logins
        BY <2>2 DEF dashAdmin, Logins, DashInv, LoginsShape
      <3>4. /\ origin' = [s \in {n} \cup DOMAIN origin |-> origin'[s]]
            /\ origin'[n] = login
            /\ \A s \in DOMAIN origin : s # n => origin'[s] = origin[s]
        BY <3>2 DEF Put
      <3>5. \A s \in 1..tokens : origin'[s] = origin[s] /\ origin[s] \in Logins
        BY <3>1, <3>4 DEF DashInv, LoginsShape
      <3>6. origin' \in [1..n -> Logins]
        BY <3>1, <3>3, <3>4, <3>5 DEF DashInv, LoginsShape
      <3>7. /\ DOMAIN sessions' = {n} \cup DOMAIN cleanupLocked
            /\ sessions'[n] = sess
            /\ \A s \in DOMAIN cleanupLocked : s # n => sessions'[s] = cleanupLocked[s]
        BY <3>2 DEF Put
      <3>8. \A s \in DOMAIN cleanupLocked : s \in DOMAIN sessions /\ cleanupLocked[s] = sessions[s]
        BY DEF cleanupLocked
      <3>9. ASSUME NEW s \in DOMAIN sessions'
            PROVE  /\ s \in 1..n
                   /\ sessions'[s].user = origin'[s].user
                   /\ sessions'[s].expires = origin'[s].at + SessionTTL
                   /\ ~origin'[s].ended
        <4>1. CASE s = n
          BY <3>1, <3>4, <3>7, <4>1
        <4>2. CASE s # n
          <5>1. s \in DOMAIN sessions /\ sessions'[s] = sessions[s]
            BY <3>7, <3>8, <4>2
          <5> QED
            BY <3>1, <3>5, <5>1 DEF DashInv, SessionIsLogin
        <4> QED
          BY <4>1, <4>2
      <3>10. AnswerIsKnown' /\ DataForLiveSessions'
        BY <3>1, <3>5 DEF DashInv, AnswerIsKnown, DataForLiveSessions
      <3>11. LoginsShape'
        BY <3>1, <3>6 DEF DashInv, LoginsShape
      <3> QED
        BY <3>1, <3>9, <3>10, <3>11 DEF DashInv, SessionIsLogin
    <2> QED
      BY <1>1, <2>1, <2>2 DEF handleAuthLogin
  <1>2. ASSUME NEW v \in Visitors, handleAuthLogout(v) PROVE DashInv'
    <2> DEFINE c == cookie[v]
    <2>1. /\ sessions' = [u \in DOMAIN sessions \ {c} |-> sessions[u]]
          /\ origin' = [origin EXCEPT ![c].ended = TRUE]
          /\ UNCHANGED <<tokens, dashTime, answer>>
      BY <1>2 DEF handleAuthLogout, revoke, Forget
    <2>2. \A t \in 1..tokens : /\ origin'[t] \in Logins
                               /\ origin'[t].user = origin[t].user /\ origin'[t].at = origin[t].at
                               /\ t # c => origin'[t] = origin[t]
      BY <2>1 DEF DashInv, LoginsShape, Logins
    <2>3. LoginsShape'
      BY <2>1, <2>2 DEF DashInv, LoginsShape
    <2>4. SessionIsLogin'
      BY <2>1, <2>2 DEF DashInv, SessionIsLogin
    <2>5. AnswerIsKnown' /\ DataForLiveSessions'
      BY <2>1, <2>2 DEF DashInv, AnswerIsKnown, DataForLiveSessions
    <2> QED
      BY <2>3, <2>4, <2>5 DEF DashInv
  <1>3. ASSUME NEW v \in Visitors, SendRequest(v) PROVE DashInv'
    BY <1>3, FewerSessions DEF SendRequest
  <1>4. ASSUME NEW v \in Visitors, NEW d \in BOOLEAN, requireAuth(v, d) PROVE DashInv'
    <2> DEFINE t == request[v]
    <2>1. /\ UNCHANGED <<tokens, dashTime, origin>>
          /\ \A s \in DOMAIN sessions' : s \in DOMAIN sessions /\ sessions'[s] = sessions[s]
      BY <1>4 DEF requireAuth, Forget
    <2>2. CASE answer' = answer
      BY <2>1, <2>2, FewerSessions
    <2>3. CASE lookup(t) /\ answer' = [token |-> t, user |-> sessions[t].user,
                                       at |-> dashTime, ended |-> origin[t].ended]
      <3>1. /\ t \in 1..tokens /\ origin[t] \in Logins
            /\ sessions[t].user = origin[t].user /\ ~origin[t].ended
            /\ sessions[t].expires = origin[t].at + SessionTTL
        BY <2>3 DEF lookup, DashInv, SessionIsLogin, LoginsShape
      <3>2. dashTime - origin[t].at =< SessionTTL
        BY <2>3, <3>1, DashAuthAssumption DEF lookup, Expired, DashInv, LoginsShape, Logins
      <3>3. AnswerIsKnown' /\ DataForLiveSessions'
        BY <2>1, <2>3, <3>1, <3>2 DEF AnswerIsKnown, DataForLiveSessions, Logins
      <3> QED
        BY <2>1, <3>3 DEF DashInv, LoginsShape, SessionIsLogin
    <2> QED
      BY <1>4, <2>2, <2>3 DEF requireAuth
  <1>5. CASE DashRestarts
    <2>1. /\ DOMAIN sessions' = {} /\ UNCHANGED <<tokens, dashTime, answer>>
          /\ origin' = [t \in DOMAIN origin |-> [origin[t] EXCEPT !.ended = TRUE]]
      BY <1>5 DEF DashRestarts
    <2>2. \A t \in 1..tokens : /\ origin'[t] \in Logins
                               /\ origin'[t].user = origin[t].user /\ origin'[t].at = origin[t].at
      BY <2>1 DEF DashInv, LoginsShape, Logins
    <2>3. LoginsShape'
      BY <2>1, <2>2 DEF DashInv, LoginsShape
    <2> QED
      BY <2>1, <2>2, <2>3 DEF DashInv, SessionIsLogin, AnswerIsKnown, DataForLiveSessions
  <1>6. CASE DashTick
    BY <1>6 DEF DashTick, DashInv, LoginsShape, SessionIsLogin, AnswerIsKnown, DataForLiveSessions
  <1> QED
    BY <1>1, <1>2, <1>3, <1>4, <1>5, <1>6 DEF DashAuthNext

-----------------------------------------------------------------------------
(* The types of what the invariants above do not speak of.                   *)
AccountTypes ==
    /\ userLang \in [People -> Languages \cup {"none"}]
    /\ botLang \in [People \X Bots -> Languages \cup {"none"}]
    /\ chosen \in [People \X Bots -> Languages \cup {"none"}]
    /\ purchases \subseteq DOMAIN Charges
    /\ told \subseteq (DOMAIN Charges) \X BOOLEAN
    /\ acts \in 0..MaxActs /\ mishaps \in 0..MaxMishaps

CheckBounds == crashes \in 0..MaxCrashes /\ edits \in 0..MaxEdits

DashTypes ==
    /\ cookie \in [Visitors -> Tokens \cup {NoToken}]
    /\ request \in [Visitors -> Tokens \cup {NoToken, Idle}]
    /\ tokens \in 0..MaxLogins /\ dashTime \in 0..MaxDashTime

DoorTypes ==
    /\ scenario \in Scenarios
    /\ \A k \in DOMAIN marks : marks[k] \in 0..scenario.ticks
    /\ clock \in 0..scenario.ticks /\ outages \in 0..scenario.outages

\* An act of a user, or a failing statement, is counted below its bound.
LEMMA ActsBounded ==
  ASSUME AccountTypes
  PROVE  /\ UserAct => acts' \in 0..MaxActs
         /\ Mishap => mishaps' \in 0..MaxMishaps
  BY AccountsAssumption DEF AccountTypes, UserAct, Mishap

\* A row made in English is a row.
LEMMA EnsuredIs ==
  ASSUME AccountTypes, NEW u \in People
  PROVE  Ensured(u) \in [People -> Languages \cup {"none"}]
  BY AccountsAssumption DEF AccountTypes, Ensured

LEMMA AccountTypesStep ==
  ASSUME AccountTypes, AccountsNext
  PROVE  AccountTypes'
  <1>1. ASSUME NEW u \in People, NEW b \in Bots, NEW l \in Languages,
               settingsLang(u, b, l) \/ onLanguageChosen(u, b, l)
        PROVE  AccountTypes'
    <2>1. PICK rows \in TwoRows, kept \in BOOLEAN, fails \in BOOLEAN :
             Outcome(u, b, l, rows, kept, fails)
      BY <1>1, ChoiceRows DEF AccountTypes
    <2>2. /\ userLang' = [userLang EXCEPT ![u] = rows.user]
          /\ botLang' = [botLang EXCEPT ![<<u, b>>] = rows.bot]
          /\ \/ chosen' = [chosen EXCEPT ![<<u, b>>] = l]
             \/ chosen' = [chosen EXCEPT ![<<u, b>>] = chosen[<<u, b>>]]
          /\ UserAct /\ (Mishap \/ UNCHANGED mishaps) /\ UNCHANGED <<purchases, told>>
      BY <2>1 DEF Outcome, Choose
    <2>3. rows.user \in Languages \cup {"none"} /\ rows.bot \in Languages \cup {"none"}
      BY DEF TwoRows
    <2> QED
      BY <2>2, <2>3, ActsBounded DEF AccountTypes
  <1>2. ASSUME NEW u \in People,
               \/ RecordDownload(u) \/ GetOrCreateUserSettings(u) \/ ResetUserSettings(u)
               \/ \E r \in Ratios : settingsRatio(u, r)
               \/ \E h, f \in BOOLEAN : settingsWatermark(u, h, f)
        PROVE  AccountTypes'
    <2>1. /\ \/ UNCHANGED userLang
             \/ userLang' = Ensured(u)
             \/ userLang' = [userLang EXCEPT ![u] = "en"]
          /\ UserAct /\ (Mishap \/ UNCHANGED mishaps)
          /\ UNCHANGED <<botLang, chosen, purchases, told>>
      BY <1>2 DEF RecordDownload, GetOrCreateUserSettings, ResetUserSettings, settingsRatio,
                  settingsWatermark, upsertSetting
    <2>2. userLang' \in [People -> Languages \cup {"none"}]
      BY <2>1, EnsuredIs, AccountsAssumption DEF AccountTypes
    <2> QED
      BY <2>1, <2>2, ActsBounded DEF AccountTypes
  <1>3. ASSUME NEW c \in DOMAIN Charges, Pay(c) \/ BotDies(c)
        PROVE  AccountTypes'
    BY <1>3, ActsBounded DEF Pay, BotDies, AccountTypes
  <1>4. ASSUME NEW c \in DOMAIN Charges, onSuccessfulPayment(c) PROVE AccountTypes'
    <2>1. told' = told \/ \E b \in BOOLEAN : told' = told \cup {<<c, b>>}
      BY <1>4, Zenon DEF onSuccessfulPayment
    <2>2. told' \subseteq (DOMAIN Charges) \X BOOLEAN
      BY <2>1 DEF AccountTypes
    <2>3. purchases' = purchases \/ purchases' = purchases \cup {c}
      BY <1>4, Zenon DEF onSuccessfulPayment, RecordPurchase
    <2>4. Mishap \/ UNCHANGED mishaps
      BY <1>4, Zenon DEF onSuccessfulPayment
    <2>5. UNCHANGED <<userLang, botLang, chosen, acts>>
      BY <1>4 DEF onSuccessfulPayment
    <2> QED
      BY <2>2, <2>3, <2>4, <2>5, ActsBounded DEF AccountTypes
  <1>5. ASSUME NEW c \in DOMAIN Charges, purchaseTakesEffect(c) PROVE AccountTypes'
    <2>1. Charges[c].user \in People
      BY AccountsAssumption
    <2>2. \E b \in BOOLEAN : told' = told \cup {<<c, b>>}
      BY <1>5, Zenon DEF purchaseTakesEffect
    <2>3. told' \subseteq (DOMAIN Charges) \X BOOLEAN
      BY <2>2 DEF AccountTypes
    <2>4. /\ UNCHANGED userLang \/ userLang' = Ensured(Charges[c].user)
          /\ Mishap \/ UNCHANGED mishaps
      BY <1>5 DEF purchaseTakesEffect, upsertSetting
    <2>5. UNCHANGED <<botLang, purchases, chosen, acts>>
      BY <1>5 DEF purchaseTakesEffect
    <2>6. userLang' \in [People -> Languages \cup {"none"}]
      BY <2>1, <2>4, EnsuredIs DEF AccountTypes
    <2> QED
      BY <2>3, <2>4, <2>5, <2>6, ActsBounded DEF AccountTypes
  <1> QED
    BY <1>1, <1>2, <1>3, <1>4, <1>5 DEF AccountsNext

LEMMA CheckBoundsStep ==
  ASSUME CheckBounds, ChecklistNext
  PROVE  CheckBounds'
  <1>1. \/ UNCHANGED <<crashes, edits>>
        \/ Edit /\ UNCHANGED crashes
        \/ crashes < MaxCrashes /\ crashes' = crashes + 1 /\ UNCHANGED edits
    BY DEF ChecklistNext, handleTestURLCreate, handleTestURLDelete, handleTestURLRerun, handleTestURLRun,
           drainTestURLs, ClaimNextTestURL, runTestURL, RunnerDies, Aging
  <1> QED
    BY <1>1, ChecklistAssumption DEF CheckBounds, Edit

LEMMA DashTypesStep ==
  ASSUME DashTypes, DashAuthNext
  PROVE  DashTypes'
  <1> USE DashAuthAssumption DEF DashTypes, Tokens, NoToken, Idle
  <1>1. ASSUME NEW v \in Visitors, NEW form, handleAuthLogin(v, form) PROVE DashTypes'
    <2>1. CASE UNCHANGED <<tokens, cookie>>
      BY <1>1, <2>1 DEF handleAuthLogin
    <2>2. CASE tokens < MaxLogins /\ tokens' = tokens + 1 /\ cookie' = [cookie EXCEPT ![v] = tokens']
      <3>1. tokens' \in 1..MaxLogins
        BY <2>2
      <3> QED
        BY <1>1, <2>2, <3>1 DEF handleAuthLogin
    <2> QED
      BY <1>1, <2>1, <2>2 DEF handleAuthLogin, issue
  <1>2. ASSUME NEW v \in Visitors, handleAuthLogout(v) PROVE DashTypes'
    BY <1>2 DEF handleAuthLogout
  <1>3. ASSUME NEW v \in Visitors, SendRequest(v) PROVE DashTypes'
    BY <1>3 DEF SendRequest
  <1>4. ASSUME NEW v \in Visitors, NEW d \in BOOLEAN, requireAuth(v, d) PROVE DashTypes'
    BY <1>4 DEF requireAuth
  <1>5. CASE DashRestarts
    BY <1>5 DEF DashRestarts
  <1>6. CASE DashTick
    BY <1>6 DEF DashTick
  <1> QED
    BY <1>1, <1>2, <1>3, <1>4, <1>5, <1>6 DEF DashAuthNext

LEMMA DoorTypesStep ==
  ASSUME DoorTypes, AdmissionNext
  PROVE  DoorTypes'
  <1>1. UNCHANGED scenario /\ scenario.ticks \in Nat /\ scenario.outages \in Nat
    BY AdmissionAssumption DEF DoorTypes, AdmissionNext
  <1>2. ASSUME UNCHANGED <<marks, clock>> \/ (UNCHANGED clock /\ \E k : marks' = PutKey(marks, k, clock))
               \/ (UNCHANGED marks /\ clock < scenario.ticks /\ clock' = clock + 1),
               UNCHANGED outages \/ Outage
        PROVE  DoorTypes'
    <2>1. outages' \in 0..scenario.outages /\ clock' \in 0..scenario.ticks
      BY <1>1, <1>2 DEF DoorTypes, Outage
    <2>2. \A k \in DOMAIN marks' : marks'[k] \in 0..scenario.ticks
      BY <1>2 DEF DoorTypes, PutKey
    <2> QED
      BY <1>1, <2>1, <2>2 DEF DoorTypes
  <1>3. ASSUME NEW m \in Msgs,
               \/ Register(m) \/ checkBanned(m) \/ promptConsumes(m)
               \/ rateCount(m) \/ allowRateLimit(m)
        PROVE  UNCHANGED <<marks, clock>> /\ (UNCHANGED outages \/ Outage)
    BY <1>3, Zenon DEF Register, checkBanned, promptConsumes, rateCount, allowRateLimit
  <1>4. ASSUME NEW m \in Msgs, dispatchLink(m)
        PROVE  UNCHANGED <<marks, clock>> /\ (UNCHANGED outages \/ Outage)
    BY <1>4, Zenon DEF dispatchLink
  <1>5. ASSUME NEW m \in Msgs, allowGroupLinks(m)
        PROVE  /\ UNCHANGED clock /\ (UNCHANGED outages \/ Outage)
               /\ UNCHANGED marks \/ \E k : marks' = PutKey(marks, k, clock)
    BY <1>5, Zenon DEF allowGroupLinks, AllowURLDedup
  <1>6. CASE DoorStep
    <2>1. CASE Tick
      BY <1>2, <2>1 DEF Tick
    <2> QED
      BY <1>2, <1>3, <1>4, <1>5, <1>6, <2>1 DEF DoorStep
  <1>7. CASE UNCHANGED doorVars
    BY <1>2, <1>7 DEF doorVars
  <1> QED
    BY <1>6, <1>7 DEF AdmissionNext

-----------------------------------------------------------------------------
(* The parts together: each step belongs to one part.                        *)
PartsInv ==
    /\ PurchaseInv /\ ChosenHasRow /\ ChecklistInv /\ StoryInv /\ DashInv /\ LifeInv /\ CardInv
    /\ AdmissionInv /\ PanelInv

\* Nothing has happened yet.
LEMMA PartsInit == Init => PartsInv
  <1> SUFFICES ASSUME Init PROVE PartsInv
    OBVIOUS
  <1>1. AccountsInit /\ ChecklistInit /\ DashAuthInit
    BY DEF Init
  <1>2. PurchaseInv /\ ChosenHasRow
    BY <1>1 DEF AccountsInit, NoPrefs, PurchaseInv, PrefsShape, PaymentsShape,
                HalfwayIsRecorded, EffectIsRecorded, ChosenHasRow
  <1>3. ChecklistInv
    <2>1. RowsShape
      BY <1>1, RowTypes DEF ChecklistInit, RowsShape
    <2>2. RunnersShape /\ RowIsHeld /\ OneRunnerPerRow
      BY <1>1 DEF ChecklistInit, Resting, RunnersShape, Runs, RowIsHeld, OneRunnerPerRow
    <2> QED
      BY <2>1, <2>2 DEF ChecklistInv
  <1>4. DashInv
    <2>1. tokens = 0 /\ dashTime = 0 /\ origin = <<>> /\ sessions = <<>> /\ answer = NoAnswer
      BY <1>1 DEF DashAuthInit
    <2>2. LoginsShape
      BY <2>1 DEF LoginsShape
    <2>3. SessionIsLogin /\ AnswerIsKnown /\ DataForLiveSessions
      BY <2>1 DEF SessionIsLogin, AnswerIsKnown, DataForLiveSessions, NoAnswer
    <2> QED
      BY <2>2, <2>3 DEF DashInv
  <1>5. StoryInv
    <2>1. OneStory(NoRow)
      BY DEF NoRow, OneStory
    <2> QED
      BY <1>1, <2>1 DEF ChecklistInit, StoryInv
  <1>6. LifeInv /\ CardInv /\ AdmissionInv
    BY LifeInit, CardInit, AdmissionStart DEF Init
  <1>7. PanelInv
    BY PanelStart DEF Init, AdmissionInit
  <1> QED
    BY <1>2, <1>3, <1>4, <1>5, <1>6, <1>7 DEF PartsInv

\* A step that leaves a part's variables alone keeps its invariant.
LEMMA PartsSame ==
  /\ PurchaseInv /\ ChosenHasRow /\ UNCHANGED accountVars => PurchaseInv' /\ ChosenHasRow'
  /\ ChecklistInv /\ StoryInv /\ UNCHANGED checkVars => ChecklistInv' /\ StoryInv'
  /\ DashInv /\ UNCHANGED dashVars => DashInv'
  <1>1. PurchaseInv /\ ChosenHasRow /\ UNCHANGED accountVars => PurchaseInv' /\ ChosenHasRow'
    BY DEF accountVars, PurchaseInv, PrefsShape, PaymentsShape, HalfwayIsRecorded,
           EffectIsRecorded, HasPurchase, ChosenHasRow
  <1>2. ChecklistInv /\ StoryInv /\ UNCHANGED checkVars => ChecklistInv' /\ StoryInv'
    BY DEF checkVars, ChecklistInv, RowsShape, RunnersShape, RowIsHeld, OneRunnerPerRow, FreshRow, StoryInv
  <1>3. DashInv /\ UNCHANGED dashVars => DashInv'
    BY DEF dashVars, DashInv, LoginsShape, SessionIsLogin, AnswerIsKnown, DataForLiveSessions
  <1> QED
    BY <1>1, <1>2, <1>3

\* PartsInv is inductive.
LEMMA PartsNext == PartsInv /\ [Next]_vars => PartsInv'
  <1> SUFFICES ASSUME PartsInv, [Next]_vars PROVE PartsInv'
    OBVIOUS
  <1> USE DEF PartsInv
  <1>0. UNCHANGED frontVars => AdmissionInv' /\ PanelInv'
    BY AdmissionSame, PanelSame DEF frontVars
  <1>1. CASE UNCHANGED vars
    BY <1>0, <1>1, PartsSame, LifeSame, CardSame DEF vars
  <1>2. CASE FrontNext
    <2>1. CASE AdminPanelNext /\ UNCHANGED <<doorVars, scenario, chances>>
      BY <1>2, <2>1, PartsSame, LifeSame, CardSame, AdmissionSame, PanelStep DEF FrontNext
    <2>2. CASE AdmissionNext
      BY <1>2, <2>2, PartsSame, LifeSame, CardSame, AdmissionStep, MeanwhileStep DEF FrontNext
    <2> QED
      BY <1>2, <2>1, <2>2 DEF FrontNext
  <1>3. CASE CheckNext
    BY <1>0, <1>3, PartsSame, LifeSame, CardSame, ChecklistStep, StoryStep DEF CheckNext
  <1>4. CASE AccountNext
    BY <1>0, <1>4, PartsSame, LifeSame, CardSame, PurchaseNext, LanguageNext DEF AccountNext
  <1>5. CASE DashNext
    BY <1>0, <1>5, PartsSame, LifeSame, CardSame, DashStep DEF DashNext
  <1>6. CASE LifeNext
    BY <1>0, <1>6, PartsSame, CardSame, LifeStep DEF LifeNext
  <1>7. CASE CardNext
    BY <1>0, <1>7, PartsSame, LifeSame, CardStep DEF CardNext
  <1> QED
    BY <1>1, <1>2, <1>3, <1>4, <1>5, <1>6, <1>7 DEF Next

\* The invariant the theorems below rest on.
THEOREM Invariant == Spec => []PartsInv
  BY PartsInit, PartsNext, PTL DEF Spec

\* Whatever shows a user a purchase, the hidden footer or the confirmation of
\* onSuccessfulPayment, a recorded purchase is behind it.
THEOREM PurchaseIsRecorded == Spec => []EffectIsRecorded
  <1>1. PartsInv => EffectIsRecorded
    BY DEF PartsInv, PurchaseInv
  <1> QED
    BY <1>1, Invariant, PTL

\* A bot keeps speaking the language last chosen in it without an error, also
\* after a choice of which only the first statement, or neither, got through
\* (GetUserLanguage, SetUserLanguage, CreateUser).
THEOREM LanguageIsKept == Spec => []LanguageSticks
  <1>1. PartsInv => LanguageSticks
    BY DEF PartsInv, ChosenHasRow, LanguageSticks, GetUserLanguage
  <1> QED
    BY <1>1, Invariant, PTL

\* Two worker processes share a test link only after one of them lost it
\* (ClaimNextTestURL, FinishTestURL).
THEOREM RowHasOneRunner == Spec => []OneRunnerPerRow
  <1>1. PartsInv => OneRunnerPerRow
    BY DEF PartsInv, ChecklistInv
  <1> QED
    BY <1>1, Invariant, PTL

\* The dashboard's data routes answer only tokens of admins that are neither
\* logged out nor expired (requireAuth, lookup, revoke).
THEOREM DataIsGuarded == Spec => []DataForLiveSessions
  <1>1. PartsInv => DataForLiveSessions
    BY DEF PartsInv, DashInv
  <1> QED
    BY <1>1, Invariant, PTL

\* Whatever overlaps, a row's columns tell one story (FinishTestURL,
\* RequeueTestURLs, executeTestURL).
THEOREM ColumnsAgree == Spec => []ResultMatchesStatus
  <1>1. PartsInv => ResultMatchesStatus
    BY StoryIsResult DEF PartsInv
  <1> QED
    BY <1>1, Invariant, PTL

\* A task asks for what its video offers, whatever card was tapped while the
\* session was replaced, changed or saved by other handlers (OptionFor,
\* buildYouTubePayload, SetTrim).
THEOREM TasksFit == Spec => []TaskFitsVideo
  <1>1. PartsInv => TaskFitsVideo
    BY DEF PartsInv, CardInv
  <1> QED
    BY <1>1, Invariant, PTL

\* The recovery takes no task with intact data from the queue, whatever other
\* processes do between its calls (recoverOrphanedActiveTasks).
THEOREM TasksAreKept == Spec => []RecoveryKeepsTasks
  <1>1. PartsInv => RecoveryKeepsTasks
    BY DEF PartsInv, LifeInv, QueueInv
  <1> QED
    BY <1>1, Invariant, PTL

\* The sweep takes no directory from a running job (sweepStaleTempfiles).
THEOREM DirsAreKept == Spec => []JobKeepsItsDir
  <1>1. PartsInv => JobKeepsItsDir
    BY DEF PartsInv, LifeInv, DirInv
  <1> QED
    BY <1>1, Invariant, PTL

\* A link passes the group check of a bot once per dedup window, however many
\* messages bring it at the same time (allowGroupLinks, AllowURLDedup).
THEOREM LinksPassOnce == Spec => []DedupOnce
  <1>1. PartsInv => DedupOnce
    BY AdmissionKeeps DEF PartsInv
  <1> QED
    BY <1>1, Invariant, PTL

\* Of the messages whose hits a user's check found in its window fewer than the
\* limit were admitted, when it admits another one (AllowRateLimit).
THEOREM LimitsHold == Spec => []RateBound
  <1>1. PartsInv => RateBound
    BY AdmissionKeeps DEF PartsInv
  <1> QED
    BY <1>1, Invariant, PTL

\* A private message is answered once, or once per link, unless the chat's limit
\* refuses it: then at least as many others of its user passed the user's limit and
\* were counted in the same window (onText, allowRateLimit, dispatchLink).
THEOREM PrivateMessagesAreAnswered == Spec => []PrivateIsAnswered
  <1>1. PartsInv => PrivateIsAnswered
    BY AdmissionKeeps DEF PartsInv
  <1> QED
    BY <1>1, Invariant, PTL

\* A link handed on found its platform on and its user not banned at some time
\* since the message arrived, unless Redis failed (checkBanned, dispatchLink).
THEOREM RefusalsAreKept == Spec => []RefusalsHold
  <1>1. PartsInv => RefusalsHold
    BY AdmissionKeeps DEF PartsInv
  <1> QED
    BY <1>1, Invariant, PTL

\* Whatever texts and taps arrive, every stored setting is read as a value its
\* registry entry allows (Validate, serialise, deserialise, adminToggleBool).
THEOREM SettingsStayUsable == Spec => []SettingsUsable
  <1>1. PartsInv => SettingsUsable
    BY ReadsUsable DEF PartsInv, PanelInv
  <1> QED
    BY <1>1, Invariant, PTL

-----------------------------------------------------------------------------
(* The types.                                                                *)
Types == scope \in Parties /\ AccountTypes /\ CheckBounds /\ DashTypes /\ DoorTypes

LEMMA TypesInit == Init => Types
  <1> SUFFICES ASSUME Init PROVE Types
    OBVIOUS
  <1>1. AccountTypes
    BY AccountsAssumption DEF Init, AccountsInit, AccountTypes
  <1>2. CheckBounds
    BY ChecklistAssumption DEF Init, ChecklistInit, CheckBounds
  <1>3. DashTypes
    BY DashAuthAssumption DEF Init, DashAuthInit, DashTypes, Tokens
  <1>4. DoorTypes
    BY AdmissionAssumption DEF Init, AdmissionInit, DoorTypes
  <1> QED
    BY <1>1, <1>2, <1>3, <1>4 DEF Types, Init

LEMMA TypesNext == Types /\ [Next]_vars => Types'
  <1> SUFFICES ASSUME Types, [Next]_vars PROVE Types'
    OBVIOUS
  <1> USE DEF Types
  <1>1. UNCHANGED scope
    BY DEF Next, vars
  <1>2. /\ UNCHANGED accountVars => AccountTypes'
        /\ UNCHANGED checkVars => CheckBounds'
        /\ UNCHANGED dashVars => DashTypes'
        /\ UNCHANGED <<doorVars, scenario>> => DoorTypes'
    BY DEF accountVars, checkVars, dashVars, doorVars, AccountTypes, CheckBounds, DashTypes, DoorTypes
  <1>3. UNCHANGED frontVars => UNCHANGED <<doorVars, scenario>>
    BY DEF frontVars
  <1>4. CASE UNCHANGED vars
    BY <1>1, <1>2, <1>3, <1>4 DEF vars
  <1>5. CASE FrontNext
    <2>1. DoorTypes'
      BY <1>2, <1>5, DoorTypesStep DEF FrontNext
    <2> QED
      BY <1>1, <1>2, <1>5, <2>1 DEF FrontNext
  <1>6. CASE CardNext \/ LifeNext
    BY <1>1, <1>2, <1>3, <1>6 DEF CardNext, LifeNext
  <1>7. CASE CheckNext
    BY <1>1, <1>2, <1>3, <1>7, CheckBoundsStep DEF CheckNext
  <1>8. CASE AccountNext
    BY <1>1, <1>2, <1>3, <1>8, AccountTypesStep DEF AccountNext
  <1>9. CASE DashNext
    BY <1>1, <1>2, <1>3, <1>9, DashTypesStep DEF DashNext
  <1> QED
    BY <1>4, <1>5, <1>6, <1>7, <1>8, <1>9 DEF Next

\* The variables of every part keep their types: the rows, the hash, the prompts
\* and the counters of all handlers.
THEOREM TypeCorrect == Spec => []TypeOK
  <1>1. Spec => []Types
    BY TypesInit, TypesNext, PTL DEF Spec
  <1>2. PartsInv /\ Types => TypeOK
    <2> SUFFICES ASSUME PartsInv, Types PROVE TypeOK
      OBVIOUS
    <2> USE DEF PartsInv, Types
    <2>1. AdminPanelTypeOK
      BY DEF PanelInv, HashInv, HandlersInv, PromptsInv, AdminPanelTypeOK
    <2>2. AdmissionTypeOK
      BY FreshFields DEF AdmissionInv, DoorInv, DoorOK, DoorTypes, AdmissionTypeOK
    <2>3. YouTubeCardTypeOK /\ LifecycleTypeOK
      BY CardTypes, LifeTypes
    <2>4. ChecklistTypeOK
      <3>1. checklist \in [TestURLs -> Rows] /\ runner \in [Runners -> Runs] /\ CheckBounds
        BY DEF ChecklistInv, RowsShape, RunnersShape
      <3> QED
        BY <3>1 DEF Runs, Rows, Statuses, Media, CheckBounds, ChecklistTypeOK
    <2>5. AccountsTypeOK
      BY DEF PurchaseInv, PrefsShape, PaymentsShape, AccountTypes, AccountsTypeOK
    <2>6. DashAuthTypeOK
      BY DashAuthAssumption DEF DashInv, LoginsShape, SessionIsLogin, DashTypes, Tokens, DashAuthTypeOK
    <2> QED
      BY <2>1, <2>2, <2>3, <2>4, <2>5, <2>6 DEF TypeOK
  <1> QED
    BY <1>1, <1>2, Invariant, PTL
=============================================================================
