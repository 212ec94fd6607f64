# saveinator: verification project

saveinator is a Telegram bot (Go) that downloads media for links users send.
A bot process answers updates and enqueues tasks; a worker process runs them
under asynq (Redis); a PostgreSQL database keeps records; a dashboard shows
them. A fleet of further bots runs copies of the handlers (`botkit`). This
directory models the parts that change state, each with the interleavings,
failures and restarts its code is exposed to.

## Inventory

Paths are relative to `src/go/internal/`.

| Component | State it keeps | Operations | Hard behaviour |
|---|---|---|---|
| User lock, cancel flag (`redisx/client.go`) | `user_busy:<uid>` with a token and a TTL; cancel flag; release keys; rate counters, dedup marks | acquire, owner-checked release, forced release, set and read the flag, count | TTL shorter than a queued job; a late release; pipelines that are no transactions |
| Way of a message (`handler/bot.go`, `ban.go`, `spam.go`, `fsm.go`, `botkit/bot.go`) | the admin's and the trim prompt | ban check, group check, prompts, rate limits, dispatch | settings and bans change in between; failing calls let the message in |
| Enqueueing (`handler/bot.go`) | – | lock, placeholder, enqueue, undo on failure | failure or crash between the steps |
| Cancel tap (`handler/cancel.go`) | – | set flag, release lock, edit message | races with the worker's check and with retries |
| `/clear` (`handler/clear.go`, `queue/clear.go`) | – | free lock, cancel active, delete pending and retry tasks | several listings, not atomic; which queues |
| Task queue (`app/app.go`, `queue/client.go`; asynq) | task states, retry counts, leases | dequeue, retry, archive, deadline, shutdown, recover | an abandoned handler next to its retry |
| Download workers (`worker/*.go`) | placeholder message, download row, files | fetch with fallbacks, send, conclude, release | retry after upload; silent failures; partial albums |
| Media sender, video processing (`sender/`, `video/`) | files of the task directory | single and album uploads, transcode, compress | fallbacks that resend; remove before rename |
| Telegraph articles (`worker/telegraph.go`, `translate/`) | page, cached translations | publish, translate | concurrent pieces |
| Music (`handler/music.go`, `worker/music.go`) | release key per album and destination | acquire key, per-track loop, finish | exclusion between users; cancel in an album |
| Broadcast (`handler/broadcast.go`, `worker/broadcast.go`, `db/broadcast.go`) | row, counters, delivery rows | send, cancel, run, report | restart from the first recipient; two tasks on one row; cancel |
| YouTube card (`handler/youtube.go`, `youtube/session.go`) | one session per user | probe, taps and texts that read, change, write back | lost updates; old cards |
| Test links (`worker/test_urls.go`, `db/test_urls.go`, `dash/`) | rows PENDING, RUNNING, PASSED, FAILED | claim, run, finish, reclaim stale, requeue | two finishers, crashes |
| Runtime settings, admin panel (`runtime/`, `handler/admin.go`, `botkit/admin.go`) | one hash in Redis, a prompt per bot | taps, typed values, bans, resets | overlapping handlers; conversions |
| Accounts and payments (`db/store.go`, `handler/payments.go`, settings menus) | users, languages, preferences, purchases | onboarding, menus, purchase | redelivered update after a crash |
| Process life (`app/app.go`, `botkit/fleet.go`, `queue/recovery.go`, `worker/maintenance.go`) | goroutines, `errCh`, asynq's active list, temporary directories | start, fail, stop, recover, sweep | other processes on the same queue and directory |
| Dashboard sessions (`dash/auth.go`) | sessions in memory | login, logout, guard | requests overtaken by a logout or a restart |

The remaining parts (statistics, HTTP API, API clients, link parsing, texts,
metrics, configuration) are stateless or pure I/O; `PROJECT.json` lists each
with the reason.

How they interact: the handler writes Redis and asynq, the worker reads both and
writes Redis, Telegram and the database; cancel and `/clear` write Redis and
asynq from the bot process while the worker is at work; the panel changes what
the door and the workers read. Nothing but single Redis commands, single SQL
statements and asynq's own scripts is atomic.

## Modules

| Module | Models |
|---|---|
| `Downloads` | lock, enqueueing, cancel, `/clear`, asynq and the control all workers share, for several jobs |
| `MusicRelease` | music requests, release keys, the per-track loop |
| `Broadcast` | one broadcast: row, delivery rows, buttons, worker |
| `Job` | what the body of every download task shares: attempts, error classes, placeholder, row |
| `Sender`, `VideoProcessor` | uploads with their fallbacks; ffmpeg passes over the files of a task |
| `YouTubeJob`, `LinkJob`, `PinterestJob`, `TikTokJob`, `InstagramJob`, `RedditJob`, `TranslateJob` | the body of each kind of task |
| `Delivery` | one task of any kind, from its first attempt to its end |
| `JobPromise` | abstract: what queue, database and user may rely on, whatever the platform |
| `RuntimeSettings`, `AdminPanel`, `Admission` | settings, panel and prompts, and the door, which reads both; each extends the one before |
| `YouTubeCard`, `Checklist`, `Accounts`, `Lifecycle`, `DashAuth` | parts that share no state with the others |
| `Services` | the composition of the last two rows |
| `*_proofs` | the theorems |
| `MC*` | the constants of the runs |

Definitions keep the names of the functions they translate; `PROJECT.json`
("map") gives the lines. The main bot and `botkit` have copies of many
functions; a definition that models both is mapped to one copy, and the places
where the copies differ are alternatives in the definition (`AdminUpdate`,
`dispatchMain`, `onLanguageChosen`). Definitions marked *Mutant* in a comment
are faulty variants used to see that the properties can fail; no specification
uses them.

### Downloads

A job is one link; its lock token is a fresh uuid, so the job stands for it.
The handler runs `Admit` (lock), `PostStatus` (placeholder), `Submit`
(enqueue), each of which may fail into `GiveUp`, and `BotCrash` may cut it off
in between. asynq moves the task through `pending`, `active`, `retry`,
`completed`, `archived`; an *attempt* is `(job, retry count)`, and `exec` keeps
the handler goroutine of each attempt, because asynq abandons a goroutine at its
deadline (`CtxDone`) without stopping it. The worker's steps are
`CheckCancelled`, `Begin`, `Fetch`, `Send`, `Conclude`, `Return` (the deferred
release). `Shutdown` requeues, `Crash` leaves a lease to `Recover`. `/clear`
is `ClearSee`, `ClearFree`, `ClearActive`, `ClearPending`, `ClearRetry`,
`ClearReply` or `ClearFail`. The inspector lists one page of each state, 30
tasks in asynq and `PageSize` here: `FirstPages` are the pages it may list, as
asynq's order is not modelled, and of the user's tasks on them any may fail to
be deleted (`Failing`). What a `/clear` did not list or failed to delete is kept
in the history `missed`.

`hurt` is a history variable: the jobs whose execution was disturbed by
something the code does not recover from at once (deadline, worker stop, a
failing Redis or Telegram call, a crash of the bot). The properties say what
holds for the undisturbed ones, and the disturbances happen to the others at the
same time. `lapsed` remembers the jobs whose lock was given up: released, force
deleted, cancelled or expired.

What is abstracted: media, formats and fallbacks (a step succeeds or fails; the
`Delivery` modules have them); the text of messages (the placeholder shows
"downloading", a cancel or error notice, or is gone); time (a TTL, a deadline
and a lease end at any moment).

### MusicRelease

A request is one link to a release; several requests may share the release.
`Admit`, `Post`, `Enqueue` are the handler; `TryAcquireReleaseLock`,
`NextTrack`, `FetchTrack`, `SendTrack`, `Finish`, `ReleaseReleaseLock`,
`Return` the worker, with `Report` for an error before the first track (a
payload or a temporary directory that fails), which shows "download failed" and
records nothing. Music tasks have `MaxRetry(0)`, so there is one attempt. The
insert of the outcome may fail unnoticed (history `unsaved`).
Edits of the status message are taken to succeed; a track is sent or not.

### Broadcast

One row, `Sends` taps on Send, each with a task of its own. `Mark` and `Enqueue`
(or `EnqueueFails`) are `queueBroadcast`; `Cancel` is the cancel button. The
worker's loop is `Send`, `SendAgain` (after Telegram's retry-after), `Look` and
`Save` (the two statements of `SaveBroadcastDelivery`), `Progress`, `Complete`.
`Panic` is an API error without parameters, which `extractRetryAfter`
dereferences; asynq catches it and fails the task. An error that does not come
from the API counts as FAILED. The history `told` has the taps on Send that had
been made when the admin was told of a cancel.
`broadcast_deliveries` has no unique key (`db/migrations/versions/0002`), so a
recipient's rows are a sequence. Any ignored SQL error is a failed `Statement`
and sets the history variable `faulty`. Not modelled: the test message and the
read-only screens; the 24 h deadline is taken as never reached; all taps load
the same recipients.

### Delivery

One task, of a kind chosen at the start; the kinds exclude each other, so their
states add up instead of multiplying. `pc` is the place in the body, `files` the
items found, `call` an upload under way, `sent` the messages in the chat, `disk`
the files of the task directory, `status` and `row` the last edit and the row the
body asked for (the code ignores the results of both calls). Every program and
service may answer anything; at most `MaxFaults` calls fail or lose their
answer. An item is an id, a type and a size class; a size is compared with three
limits (platform, upload, document). `Again` is asynq's second attempt, `Crash`
the death of the worker.

The exceptions in the properties are what the code does: `SoundLost` (a TikTok
post that is only sound is recorded as completed although the sound could not be
sent), `Silent` (a failed Instagram upload deletes the placeholder), and the
first attempt in `ShownInOrder` (a second one may repeat what a crash cut off).

### Services

`Admission` composes door and panel: a message goes through `onText` step by
step (`door[m].stage`), each Redis call a step that may fail, while the admin
taps and types. Handlers of several messages overlap. `chances` is history: what
was switched on and whether the user was free of bans at some time since the
message arrived; `before` are the messages whose rate check was over when this
one's began. A setting's text is parsed, validated, serialised and read back by
the rules of `runtime`; a value is a pair of its Go type and its content,
because a failed type assertion is one of the cases.

`YouTubeCard` keeps the session, the cards shown and the handlers under way;
`typedFor` and `blind` are history. `Checklist` has one row per link with its
columns, and counts a row's age only up to the stale limit. `Accounts` splits a
payment into its two statements with a crash in between; a choice of language
writes two rows and any of its statements may fail, which the handlers do not
tell the user. A prompt of the admin takes his next message, and answers it
unless its words are in a caption (`promptConsumes`). `Lifecycle` has the
start of a process, its goroutines and `errCh`, the recovery of the active list
call by call (LRANGE, EXISTS, the inspection, LREM with ZREM, DEL) against tasks that other processes finish and requeue, and the
sweep against directories of running jobs. `DashAuth` has requests on their way
that carry the cookie of the time they were sent.

These parts share no state, so interleaving them adds no behaviour to any of
them: `Services` picks one in `Init` (`scope`) and runs it while the others stay
in their initial state. The states of the run are the sum of the parts'.

## Runs

| Run | Instance | Shows |
|---|---|---|
| `liveness` | 2 jobs of a user; cancels, TTLs, one shutdown or crash, fair processes | `TypeOK`, `OwnerKeepsLock`, `CancelHonoured`, `JobsEnd`, `LocksAreReturned` |
| `worker_faults` | 2 jobs, deadlines, one shutdown or crash | `NoOrphanLock`, `DeliveredOnce` |
| `clear_fleet` | `/clear` on the bot's own queue with a page of one task, failing requests and edits, bot crash | `ClearTakesWhatItSees`, `CompletedIsAnswered` |
| `music_album` | 2 requests, 1 release of 2 tracks, every disturbance, fair processes | `CancelStopsAlbum`, `ReleaseNotLeaked`, `RecordMatchesChat`, `OneDownloadPerRelease`, `RequestsEnd` |
| `broadcast_restart` | 1 tap, 2 recipients, SQL errors, one stop, fair processes | `CompletedSkipsNobody`, `ReportMatchesRows`, `BroadcastEnds` |
| `delivery` | one task of every kind, up to 3 items, 2 faults | `ShownInOrder`, `CompletedDropsNothing`, `AnsweredAtEnd`, `VideoNeverLost`, `TranslationComplete`, `KeepsPromise` (refinement), `JobEnds` |
| `services` | door and panel, card, checklist, accounts, process, dashboard | see below |
| `clear_main` | `/clear` of the main bot | violates `ClearEmptiesQueue` |
| `clear_race` | a link during `/clear` of a fleet bot | violates `ClearUnblocks` |
| `transcode_serial` | two transcodes, concurrency 5 | violates `TranscodeSerialized` |
| `broadcast_cancel` | a tap on Cancel after the tap on Send | violates `CancelledIsNotSent` |
| `broadcast_panic` | a message that fails with an API error without parameters | violates `ActiveIsWorkedOn` |

`services` checks, besides `TypeOK`: `SettingsUsable` (what is stored always
reads back as an allowed value), `DedupOnce`, `RateBound`, `PrivateIsAnswered`,
`RefusalsHold` (the door), `TaskFitsVideo` (card), `ResultMatchesStatus`,
`OneRunnerPerRow`, `RowsEnd` (checklist), `EffectIsRecorded`, `LanguageSticks`
(accounts), `RecoveryKeepsTasks`, `JobKeepsItsDir`, `WorkerServesAgain`
(process), `DataForLiveSessions` (dashboard).

Bounds. Two jobs of one user are what it takes for a late release to meet a
newer holder; users share nothing in `Downloads` but workers, and two are
enough to run both jobs or to keep one waiting. One stop of the worker
(`MaxStops`) with one retry reaches every combination of a cut-off first
attempt and a second one. Two requests for one release are a holder and a
refused request or a newcomer after the key ran out; two tracks are a first and
a last one. In `delivery` three items exceed both the album chunk and the item
limit of two, three sizes lie below, between and above the limits, and two
faults are a failing call and the failure of its fallback. In `services` the
scenarios of `MCServices` are the pairs of messages that meet in a counter, a
mark, a prompt or a ban, and with the chat's limit of two three messages of one
chat reach the refusal that says nothing (`PrivateIsAnswered`); three moves of the admin on two handler slots are a
prompt, an answer and a tap that overtakes it; two cards and three taps are an
old card used after a new one; the settings registry has one setting of each
type, bounds and list rule; two runners and two crashes let a row be claimed
again twice; one failing statement or crash falls anywhere in a payment; clocks
run just past each window or time to live. A page of one task stands for
asynq's 30: the second task of a list is the one that is not seen. In
`Broadcast` the admin taps Cancel no more once he was told that a tap on Send is
cancelled.
`CHECK_DEADLOCK FALSE` is set where an instance has finitely many links, taps or
messages and may come to rest; `delivery` checks for deadlock.

Fairness is weak and per process: the goroutine of a handler, asynq's loops and
the goroutine of a worker continue. No fairness is assumed of users, of TTLs, of
crashes. The steps that call Telegram or a site are fair because each has a
deadline of its own in the code and then counts as failed. In `Delivery` a
running body goes on and a task due again is started; in `Services` the
checklist's loop ticks and its runs end by their timeouts (`CheckFairness`), and
a process that has ended is started by its supervisor (`LifeFairness`, the
restart policies of `docker-compose.yml` and `systemd/ytbot.service`).

Refinement. `Delivery` implements `JobPromise` (`KeepsPromise`): under the
mapping of `shown` to "a message, or an article, is in the chat", each platform's
body takes at most two attempts, writes at most one row, and writes "completed"
only after something was shown.

### Where the code and its texts disagree

The violating runs state what a comment or a message of the bot says:
`/clear` of the main bot searches only the queue `default` and still answers
that the queue is cleared; a link accepted between the steps of a fleet bot's
`/clear` keeps its lock and loses its task; the transcode queue is not serialized
by its weight; a broadcast cancelled after the tap on Send is still sent; an
ordinary API error makes the broadcast worker panic, and the admin's screen goes
on calling the row active. `PROJECT.json` ("findings") quotes the lines.

Two more show in the models without a run of their own. `/clear` of a fleet bot
sees one page of its queue, so a task behind it, or one whose deletion fails,
outlives the answer that the queue is cleared: `ClearTakesWhatItSees` excepts
them, `ClearEmptiesQueue` would not. `SendPhotoAlbum` closes an album's files
before it uploads them (`sender/telegram.go:340`), so the group always fails and
the photos go out one by one (`Sender`).

## Proofs

`tlapm` checks every leaf. The theorems hold for all values of the constants
that satisfy the modules' `ASSUME`s (mostly types of the constants).

* `TypeCorrect`, `OneExecution`: `TypeOK` and `CurrentExec` are inductive (the
  second relative to the first).
* `Invariant` of `Downloads`: `IInv` is `TypeOK`, `LockInv`, `OrderlyInv` and
  `CancelHonoured`. `LockInv` adds to `OwnerKeepsLock` that a held lock is its
  owner's and held by a live job, that an unhandled link left no trace (a token
  is never reused) and that a given-up lock is not held. `OrderlyInv` says of an
  undisturbed job that it has one execution exactly while asynq calls it active,
  that this execution returns only after its release and its answer, and that it
  has sent at most once. Without it neither `NoOrphanLock` nor `DeliveredOnce`
  is inductive: a retry would be possible after an upload. From `IInv` follow
  `LockIsKept`, `LockIsNotLeaked`, `NoDoubleDelivery`, `CancelWorks` and
  `CompletionIsVisible`.
* `ClearReaches` and `ClearWorks` (`/clear`): `SnapInv` says that a task that was
  pending when `/clear` began, and was not taken by a worker since, is pending or deleted,
  and once the pending tasks have been listed deleted or `missed`, if `/clear` knows its type
  and searches its queue (`Reached`). `ClearReaches` holds without a hypothesis;
  `ClearTakesWhatItSees` follows where every job is reached, as in the run
  `clear_fleet`, for every page size. `ClearEmptiesQueue`, without the exception of
  the missed tasks, is what the reply says and fails (run `clear_main`, a finding). The types of Instagram and Reddit are unknown to `/clear`.
* `Invariant` of `MusicRelease` gives `Exclusion` (a worker inside holds the
  key until it lapses) and `CancelIsPrompt` (a loop that was past its check when
  the flag rose sends one more track and then meets the check). `KeysAreReturned`
  is inductive by itself. `RowsMatchChat` needs `RowInv`: a request before its
  end has no row, one that reports an error before its first track has sent
  nothing, one that has ended undisturbed has the row that fits what the user was
  left with unless its insert failed, and a context that is done disturbs its request.
* `Invariant` of `Broadcast`: `IInv` adds to `TypeOK` the place of each run
  (`PlaceInv`: the counters stay below N because they stay below the place in
  the list) and the rows behind it (`BehindInv`: every recipient before the
  place has a row, and no statement removes a recipient's last row, whichever
  run makes it). It gives `NobodyIsSkipped`. `ReportIsRight` (the report's
  counters are the numbers of rows) needs `ReportInv`: with one task
  and no failed statement no recipient has two rows, and the counters of the run
  are the cardinalities of the rows before its place, plus the outcome at hand
  until it is stored (by the theorems on finite sets).
* `JobInv` of `Delivery` is inductive under every step of every platform's body:
  `Conclusions` says what a body may conclude at each control point from an answer
  without error (something is in the chat, or there was nothing to send),
  `VideoKept` that a copy of the video is on disk between the passes, `EndIsTold`
  that a task that ended has told its user. It gives `UsersAreAnswered` (`AnsweredAtEnd`),
  `VideosAreKept` (`VideoNeverLost`) and `BodiesKeepPromise`, the refinement
  of `JobPromise` for every list of items.
* `FlowInv` of `Delivery` follows the items of a post from the download to the
  chat. Before the first upload of an attempt nothing is on its way (`Blank`);
  after it `OnTheWay` says where every item is: in the chat (`InChat`), in the
  running call of the sender (`Queue`, the single photos of the fallback in front
  of the chunks to come), among the images a loop has collected, or still before
  the loop (`Pos`). The parts do not overlap and rise in the order of the
  post (`Apart`, `LoopApart`, `CallOK`), and without a failed call their union is
  what the body means to deliver (`WholePost`, `WholeLoop`). One lemma
  (`SenderFlow`) covers all steps of the sender: each moves the head of the queue
  to the chat, gives up, or changes nothing. One lemma per platform covers the
  bodies. It gives `ItemsStayInOrder` (`ShownInOrder`) and `NothingIsDropped`
  (`CompletedDropsNothing`). TLC checked `FlowInv` on the instance of `delivery`
  before it was proved. That `Picked` keeps the order of what it picks and
  `LargestVideo` is one of the videos is proved by induction over the length, as
  the inductiveness of a set of numbers (the library's induction theorems take
  an operator, which the provers here cannot instantiate).
* `PageInv` of `Delivery`: what has been translated of a page is the pieces that
  `chunkRunes` cut. That the pieces joined are the text, and that none is empty or
  longer than the window, is an induction over the length of the text by the same
  means. It gives `PagesAreComplete` (`TranslationComplete`).
* `Invariant` of `Services`: `PartsInv` is one invariant per part over the part's
  own variables, which the steps of the other parts leave alone.
  - `PurchaseInv` adds to `EffectIsRecorded` that a payment between its two
    statements has left its charge in the table or a failure in `told`;
    `ChosenHasRow` that a language of which a call returned without an error has
    its row, since no failed call gets as far as the row (`ChoiceRows`). They give
    `PurchaseIsRecorded` and `LanguageIsKept`.
  - `ChecklistInv` adds to `OneRunnerPerRow` that a runner that has not lost its
    row has it RUNNING and younger than the stale limit, so that nobody can claim
    it (`RowHasOneRunner`); `StoryInv` relates the columns of a row to each other
    through every claim, result and reset (`ColumnsAgree`).
  - `DashInv` adds to `DataForLiveSessions` that every session in memory is a
    login that has not ended and expires with it (`DataIsGuarded`).
  - `LifeInv` (process start and end): the channel holds one report per part
    that ended, the recovery takes only ids whose data was lost or whose inspection failed
    (`RecoveryInv`: what was gone when it was looked at does not come back before
    it is removed), and
    a directory in use is no older than its job's longest pause, which is below
    the sweep's age (`TasksAreKept`, `DirsAreKept`).
  - `CardInv`: every copy of a session, saved or in the hands of a handler, fits
    the video of the card it was made for, and while a card is being probed
    nothing else knows of it (`TasksFit`).
  - `AdmissionInv`: `DoorInv` says which history a handler has at each stage;
    `TriedInv` that the mark of a link is as young as the last message that tried
    it, so that two tries that found it unmarked are a window apart
    (`TriedApart`); `HitsInv` that a hit carries the time its message was counted
    at, so that the messages admitted in a window are among the hits of it
    (`RateInv`); `ChanceInv` that a message past the ban check found its user not
    banned, and a link handed on its switch on. Each move of the door is
    classified as a step of one message that keeps the others' records. They give
    `LinksPassOnce` (`DedupOnce`), `LimitsHold` (`RateBound`) and
    `RefusalsAreKept` (`RefusalsHold`). `AnsweredInv` counts the replies at each
    stage, one per link from the dispatch on; `ChatHitsInv` says that the set of a
    private chat holds each message of its user once, past the user's limit, with
    the time it was counted there. So the set a refused message found full is a
    crowd of that size, and that is the only silence besides a captioned message
    used up by a prompt (`Overlooked`; `Excused` and `StillOverlooked` in the proof)
    (`PrivateMessagesAreAnswered`, for `PrivateIsAnswered`).
  - `PanelInv`: every text of the hash reads as a value of its setting (`Reads`),
    because `Validate` lets through only texts whose parsed and serialised form
    reads as the same value again (`SavedReads`, with the round trips of numbers
    and lists); a handler under way toggles a switch and nothing else, which
    rests on the buttons, since `adminToggleBool` does not ask for the type
    (`OnlySwitchesToggle`). It gives `SettingsStayUsable`.
  - `Types` adds the types the invariants above do not speak of; together they
    give `TypeCorrect`, the `TypeOK` of all parts.

Assumptions: types of the constants, and facts of the code or of its deployment:
the ratios of the menu contain "ask", every charge belongs to a user, the stale
limit is positive, "none" is no link, a platform's switch is a setting of the
registry of type bool, the words of an enum are not empty, English is among the
languages, the ids an admin types are those of the model's users, a job's pauses
are shorter than the sweep's age (`LifecycleAssumption`), the allowed heights
have a highest one (`YouTubeCardAssumption`), the messages of a scenario are
finitely many and their links known ones (`AdmissionAssumption`).

Only model-checked:

* liveness (`JobsEnd`, `LocksAreReturned`, `RequestsEnd`, `BroadcastEnds`,
  `JobEnds`, `RowsEnd`, `WorkerServesAgain`): fairness is out of the prover's
  reach;
* the properties of the runs that expect a violation.

Excepted by the properties because the code does so: `BroadcastEnds` leaves out
rows with a failed statement, a bot that died before it enqueued, and a task that
was archived after panics, failed lookups or crashes on both of its runs; `LanguageSticks` speaks of choices that were stored, though others
are confirmed as well; the record of a music request may be missing where its
insert failed.

Every invariant and action property of the passing runs has a theorem, or is a
conjunct of one's invariant.

## Not modelled

* Pure I/O and string handling: link parser, HTML and JSON of the platforms, the
  API clients of the music services, subprocess arguments, captions, texts,
  metrics, configuration. Their outcomes are choices of the models.
* Read-only screens: statistics, queue and history screens, the dashboard's
  pages, the HTTP API.
* The TikTok carousel session: no code ever saves one, so its callbacks only
  answer that it is gone.
* The platform packages of the fleet (`internal/<platform>`'s own workers): their
  bodies repeat those of the main worker.
* asynq's scheduling between unrelated task types, and its own storage.
* The cache that lets a failed translation stand for a day: which of the pieces
  are translated is not told apart.

## Plan

1. Done: `Downloads`, `MusicRelease`, `Broadcast`; the `Delivery` modules with
   the refinement of `JobPromise`; the `Services` modules.
2. Done: theorems for every safety property of the passing runs, and the
   refinement of `JobPromise`.
3. `Downloads` composed with `Admission`, so that a dispatched link is the job
   it becomes.
