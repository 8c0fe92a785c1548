# A verification of the Binance signal scanner

TLA+ modules, TLC runs and TLAPS proofs for the scanner application of this
repository (`src/src/signalbot/app.py` and what it starts). Paths below are
relative to `src/signalbot/`.

## 1. The system

One process per deployment, an asyncio event loop, one SQL database shared
with the operator's command line and, while restarts overlap, with a second
process. For each market a scanner picks a universe of symbols, consumes
Binance WebSocket streams, evaluates rules at every close of the primary
interval, persists the resulting decisions together with an outbox row, and
follows confirmed entries as PAPER positions. A drain task posts the outbox to
a Discord webhook.

| Part | State | Operations | Talks to |
| --- | --- | --- | --- |
| Discord outbox (`alerts/discord.py`, `persistence/repository.py`, `outbox_cli.py`) | `alert_outbox` rows (status, attempts, times), `alerts` history, embargo in memory | enqueue, drain, expire, claim, post, mark, record, recover at start, resolve | database, Discord |
| Signal state machine (`signals/state_machine.py`) | stage and cooldown per symbol and rule family | process, prune, checkpoint/restore, restore from rows | runtime, `signals` table |
| PAPER lifecycle (`signals/positions.py`, `signals/paper_recovery.py`) | pending entry, position, pending exit per symbol; memory only | on_closed_candle, reset_for_gap, prune_symbols, restart notices | runtime, rotation, `signals` table, outbox |
| Universe rotation (`scanner.py`, `data/funding.py`) | universe, confirmations, stream tasks, funding histories | prepare, poll, activate, funding refresh | REST, runtime stores, PAPER lifecycle |
| Candle store, gap recovery (`data/candles.py`, `runtime.py`) | bounded series per symbol and interval | add, detect gap, recover | REST, lifecycle |
| Application supervisor (`app.py`) | tasks, stop event | supervise, fail closed, drain, cancel, bounded teardown | everything |
| WebSocket consumer (`exchange/binance/websocket.py`) | one connection per market | connect, recycle, back off, hand frames on | recorder, runtime, supervisor |
| Raw event recorder (`data/raw_events.py`) | queue, writer task, thread and day files per market; byte quota | append, write a batch, fail, close with a sentinel | consumers, disk, supervisor |
| Evidence capture (`capture/storage.py`, `handoff.py`, `pipeline.py`, `pump_fade_v3/collector.py`) | segment files, manifests, receipts, bounded handoff | append, rotate, seal, recover, close a generation | disk |
| Local book (`capture/local_book.py`, `depth_sequence.py`) | order book rebuilt from captured records | bridge a snapshot, apply, invalidate, reconnect | captured records |
| REST client, heartbeat, retention, API | connections, evidence rows | retry, write, delete, read | Binance, database |
| Rules, gates, indicators, regime, microstructure, anomalies | rolling numeric windows | score | runtime |
| Other pump-fade services, R4B v2, backtests, prospective ledgers | their own files and ledgers | research, separate from the scanner | disk, Binance |

What is hard here:

- *Three transactions around one HTTP request.* Claim, mark and record are
  separate commits; the process may die between any two, Discord may process a
  request whose client has given up, an operator may settle the row in between.
- *Awaits in the middle of a decision.* A gap recovery is awaited after the
  lifecycle was reset; a rotation checks PAPER state and prunes it two awaits
  later; the funding loop writes to the stores that rotation prunes.
- *Memory that a restart loses.* Stage and cooldown are rebuilt from rows, the
  PAPER lifecycle is not rebuilt at all and reported instead.
- *Limits that fail closed.* A full outbox ends the process, also during the
  start-up that would have led to its being drained; a full queue or quota of
  the recorder ends ingestion.
- *A shutdown that may not wait.* Tasks, threads and files that hang are
  abandoned after deadlines, while others still use what is being closed.
- *Files that a crash cuts anywhere.* A capture directory must be readable, and
  its receipts true, whichever of write, sync, rename and manifest came last.
- *Streams that skip, repeat and reconnect.* A book rebuilt from depth events
  is right only if every break between snapshot and events is noticed.

`PROJECT.json` lists every component and, under `hazards`, each such place with
the properties that watch it.

## 2. Modules

| Module | Models | Steps are |
| --- | --- | --- |
| `DiscordOutbox` | outbox, drain workers, operators, process starts and ends, network | transactions and awaits |
| `MessageFate` | what the outbox promises for one alert | |
| `SignalLifecycle` | state machine, runtime protocol around it, restart, rotation | evaluations of a key at a close |
| `PaperTracking` | lifecycle, the closes that drive it, gaps, restart notices | the commits and awaits of `_handle_candle` |
| `UniverseRotation` | scanner of a futures market, funding loop | what runs between two awaits |
| `RawEventRecorder` | the recorder's operations; no specification of its own | what runs between two awaits, and a thread's lines |
| `Application` | composes the recorder with consumers, scanners, supervisor and teardown | what runs between two awaits |
| `SegmentedCapture` | segment files, writer memory, recovery; no specification of its own | file operations a crash can separate |
| `CaptureGeneration` | composes the storage with handoff, pipeline worker and collector | file operations and queue steps |
| `EvidenceLog` | what capture promises of one generation | |
| `LocalBook` | one book of the materializer | records, and the events of a replayed buffer |
| `MC*` | the instances TLC checks | |
| `*Proofs` | theorems and their proofs | |

Operators named as slips (the comment says "Slip") are plausible mistakes in
the definition that follows them; putting one in its place must break a
property, which is how the properties themselves are tested.

### DiscordOutbox

`status`, `attempts`, `created` and `manual` are the columns of `alert_outbox`,
`alerts` is the history table. `pc[p]` is the point at which process `p`'s
drain loop is: `idle` between polls, `next` inside a batch, `claim`, `posting`
(the awaited POST), `mark`, `record`, `sleep` (the 429 back-off), `retry`.
`net` holds requests that Discord may still process and `posted` counts the
messages it created; both are invisible to the code. `Answered` is a reply in
time; `TransportError` gives up on a request that stays in `net`;
`ProcessedUnseen` and `RequestLost` are what then becomes of it. `MarkOf` is
`deliver_event`'s split of replies: 2xx with a message id is delivered, 429
goes back to pending, another 4xx is dead, everything else is uncertain.
`RecoverInflight` quarantines what a dead process had claimed; with two
processes it also hits rows a living one holds, and `MarkOutbox`'s expected
status decides what that one's late reply does. `ResolveRead`, `ResolveMark`
and `ResolveAudit` are the three transactions of the operator's command.

`save_signal_and_enqueue` is two steps: `Enqueue` makes its reads (no row yet,
fewer active rows than the limit), `EnqueueCommit` inserts and commits. The call
is synchronous, so the event loop of its process waits (`saving[p]` holds the
row in hand, and no other step of `p` is taken but a crash); no lock spans the
two, so another process may commit, claim or settle in between. `EnqueueFails` is a commit
that raises: another process inserted the same row, or the database fails;
either is a `FATAL_PIPELINE_ERRORS` member and stops the application.
`EnqueueRefused` is `OutboxCapacityError`. `CapacityRespected` says what this
gives: the limit for one process, and one row more for each further process.

Left out: the wording of embeds, and the branch for a stored payload that is
not a JSON object, which the code never writes.

### SignalLifecycle

A key is a symbol with a rule family; an evaluation is the threshold its score
reaches, whether it triggered and whether it may confirm. `Outcome` and
`Advance` are `process`; a decision that cannot be made durable ends the
process (`Stop`), one whose row exists already restores the checkpoint
(`EvaluateAgain`). `Start` restores stage and cooldown from the newest
`RestoreLimit` rows, `Prepare` and `Rotate` prune.

### PaperTracking

Time is counted in closes of the primary interval. A close is two steps, as in
`_handle_candle`: `HandleCandle` or `GapRecovered` commits the rule decisions,
`PaperTransition` commits the lifecycle's exits; `Stop` may come between. A
close without a feature ends before its decisions (`HandleWithoutFeature`,
`GapRecoveredWithoutFeature`), and a recovery that fails may have stored some of
the missing bars (`GapUnrecovered`).
`Prices` is the relation of a candle to the active stop that decides control
(open beyond it, touch within the bar, neither); `fails` stands for the count
of trend failures having reached its limit. `Start` writes all notices of the
holding window or `StartAborts` writes those that fit. Events on the same
symbol wait while its gap recovery is awaited, because one consumer feeds them;
rotation cancels it.

Left out: secondary intervals, spot-specific direction rules, the limits of
500 entries and 2,000 exits per start.

### UniverseRotation

`pc` is where `MarketScanner.run` is suspended. `Prepare`, the `Poll*` actions
and `Activate` are what happens when an await returns; `Rank` changes the
exchange's ranking at any time. `loads` are funding requests under way, owned
by the scanner task or by the refresh loop. `paper` is
`continuation_symbols()`. Context symbols are constant and left out.

### RawEventRecorder and Application

`accepted`, `queue`, `batch`, `unwritten`, `tape` and `durable` follow a record
from `append` to its day file. The writer task and the thread of its
`to_thread` are separate: cancelling or timing out the task leaves the thread
writing. `exited` is the end of the event loop's work; that the interpreter
then joins a thread that hangs is outside the model. `closeStep` is where the
coroutine of `close` stands; it may be abandoned by the teardown's deadline,
which `Application` counts in waits. `Application` adds the consumers (`conn`),
the supervised tasks, the monitor that turns a recorder failure into a stop,
and `phase`, the place of `SignalApplication.run`: supervising, draining,
cancelling, tearing down, closing scanners, recorder, notifier and repository
in that order.

Abstractions: a record has size one, waits have no length and may end or time
out, the closes of scanners and notifier are taken not to raise.

### SegmentedCapture, CaptureGeneration and EvidenceLog

`segs` are the segment files: their frames, a torn tail, whether they are
synced, renamed and sealed; `op` is the file operation the
writer's thread is in, so that `Crash` can fall between any two. `Places` are
the frames in the files, and `DirectorySize` counts them, the torn ones and the
manifests. A crash leaves a segment that was synced as it is; one that was not
may be missing, or keep any number of its frames with or without a torn one
behind them (`Cut`), a torn one behind all of them only if a further frame was
begun (`MayKeep`). `StepFails` is an operation that raises and changes nothing,
`PublishFails` an `os.replace` that took effect before the fsync of the
directory raised: the file has its new name, the segment may even be sealed, and
the writer ends with an error all the same. The next start verifies the chain
and recovers the tail, or refuses. `CaptureGeneration` puts the bounded handoff
and the pipeline worker in front and the collector's shutdown, receipts and
recovery around it. `EvidenceLog` is the promise: numbers without a gap,
nothing synced is lost, nothing changes after the receipt. The log of the
mapping are the numbers of the stored frames, each at its rank among `Places`.

Abstractions: a digest is the frames it is taken over, sizes are fixed, one
directory, receipts are not counted against the quota, a renamed file's
directory entry is taken to be durable, `maximum_frames` does not bite before
the byte limit, and `recover_partials=False` is left out.

### LocalBook

The venue is a constant history of updates; events and snapshots are any
ranges and positions of it, from any connection and in any order. `Content`
names the true quantity of a level after an update, which makes `ValidIsTrue`
a statement about the venue and not about the arithmetic of the model.
`broke`, `usedStart` and `sources` are auxiliary: the last break, the start of
the request under the book, and the receipts the book was built from.

Abstractions: one book (books share only malformed frames and ingest gaps);
whether an event overflows the band and how far the boundary tightens is chosen
freely; so is whether an event exceeds the buffer's bound on bytes or on level
changes, while the bound on its length is `MaxBuffered`; intervals, generations, reasons and metrics of gaps are left out.

## 3. Runs

| Run | Instance | Shows |
| --- | --- | --- |
| `outbox_overlap` | 1 alert, 2 processes, 2 operators, 1 fault, 2 attempts, delivery on or off | `AtMostOnce`, `ExpiredNeverSent`, `SettledTruthfully`, `SettledForGood`, `ImplementsMessageFate` |
| `outbox_live` | 2 alerts of two classes, 1 process, batch of 1, limit 1, fair | `RetryBudget`, `CapacityRespected`, `NothingWaitsForever` |
| `outbox_audit` | 1 alert, 1 process, 1 operator | violates `AlertsAppendOnly` |
| `signal_cooldown` | 1 key, closes 0 to 4, 2 starts | `CooldownSpacing`, `NoRepeatedAlert`, `CooldownRemembered` |
| `signal_rotation` | 1 key, 2 starts | violates `NotResurrected` |
| `paper_tracking` | 2 symbols, top 1, holding limit 2, 3 starts, outbox limit 2, fair | `OneOutcome`, `NextBarOnly`, `HoldingBounded`, `BoundNeverRaises`, `NoSilentExit`, `StartupRecovers` |
| `paper_orphans` | 1 symbol, holding limit 2, 2 starts | violates `OrphansNoticed` |
| `rotation` | 2 symbols, top 1, 2 confirmations, 3 ranking changes, fair | `RotationInv`, `StreamsOnSettledUniverse`, `PaperSurvivesRotation`, `RankingAdopted` |
| `rotation_funding` | 2 symbols, top 1 | violates `FundingWithinUniverse` |
| `application` | 1 market, 1 supervised task, 3 frames over 2 days, queue of 2, quota 4 with 1 used, fair | `RecorderInv`, `TapeIsPrefix`, `DiskWithinQuota`, `CleanExitIsComplete`, `FailureReported`, `RepositoryReached`, `ShutdownEnds`, `RecorderFailureStops` |
| `capture` | 4 records over 2 rotation buckets, segments of 2, quota 11, 2 crashes, fair | `TypeOK`, `ChainVerifies`, `VerdictIsTrue`, `DiskWithinQuota`, `IsEvidenceLog`, `GenerationDecided` |
| `local_book` | 4 updates on 2 levels, buffer of 2, 2 connections, 2 receipt stamps | `ValidIsTrue`, `NoLookAhead`, `SnapshotAfterBreak`, `AskedUntilValid`, `DebtClearedByBridge` |

*Why these bounds are enough to be interesting.* One alert with two processes
and a fault reaches every pair of claim, crash, recovery, late reply and
resolve; a second alert adds only the batch and the limit, which `outbox_live`
has. A holding limit of two bars has an entry bar, a last bar and the bar of
the exit, and four closes let an entry leave the window; two symbols for one
place make every rotation drop one. Five closes hold two cooldowns. Three
frames and a queue of two fill the queue while a batch is written, and two days
split a batch over two files. Two crashes interrupt a generation and its
recovery; segments of two records rotate by size and by time. Four updates make
a range that starts before, at and after a snapshot, and a break between two
ranges. Where the safety result is proved for every value of the constants
(section 5), the instance only has to be large enough to refute the slips.

`MaxTime`, `MaxFaults`, `MaxStarts`, `LastEntry`, `MaxRanks`, `MaxRecords`,
`MaxCrashes` and `MaxId` bound the instances and appear in guards; all other
constants are settings of the code. `local_book` switches the deadlock check
off because a replay that failed admits no further record; the other
runs that do say in their configuration where the system stops.

*Fairness.* `DiscordOutbox`: the event loop runs the worker, the HTTP client's
timeout ends each post, the driver's timeouts end each commit, the restart policy of the container starts a process
again, shutdown is bounded by its deadlines, and time passes. Scanners,
operators, faults and the network owe nothing. `PaperTracking`: starts are
repeated by the restart policy, and time passes. `UniverseRotation`: the
scanner task runs, its own REST requests end by timeout, and a poll that is
repeated for ever does not fail every time (strong fairness of the successful
poll: no ranking can be adopted from an exchange that never answers).
`Application`: the event loop runs `run`, the monitor and the coroutine of
`close`, whose waits time out; writers, threads, connections and other tasks
owe nothing, they may hang for ever. `CaptureGeneration`: the thread that is in
an operation, the worker and the shutdown make progress; nobody has to start a
process or to offer records.

## 4. Disagreements between code and documents

- `outbox_audit`: `record_alert` upserts on the event and the attempt number
  after `mark_outbox` was committed. An operator who resolves the uncertain row
  in between gets an audit row with that number, and loses it again;
  `docs/OPERATIONS.md` calls the history append-only.
- `signal_rotation`: `prune_directional_states` says pruned state must not be
  resurrected when a symbol is tradable again; a restart rebuilds it.
- `paper_orphans`: the holding window of the restart notices is
  `max_holding_bars` intervals, a position that reaches its time limit lives
  one bar longer. A restart in that bar is reported by nobody.
- `rotation_funding`: a funding answer awaited across a rotation is stored for
  a symbol outside the active universe and takes up capacity;
  `docs/ARCHITECTURE.md` says that every store accepts active symbols only.

Not a run: `docs/ARCHITECTURE.md` (lines 82 to 84) has a batch of the outbox
dispatched before the scanners start; `app.py` (lines 112 and 113) and
`docs/OPERATIONS.md` (lines 148 to 151) say that start-up dispatches nothing.
The models follow the code.

Not a run either: `docs/OPERATIONS.md` (line 186) calls
`outbox_max_active_items` "a hard limit over `pending`, `sending`, and
`uncertain`". It is one for a single process. `save_signal_and_enqueue`
(`persistence/repository.py`, lines 1304 to 1350) does not lock between the
`SELECT` and the `INSERT`, so two processes on one database can both pass the
check; with two processes, two alerts and a limit of one TLC finds two active
rows after seven steps. The document speaks of one service and does not say
what two of them on one database may do, so `CapacityRespected` states the bound
that holds for any number of processes.

Not a run either: the comment at `data/raw_events.py` (lines 126 to 135) calls
the count of lost evidence exact, but it subtracts the durable count of one
market's writer from the accepted count of all of them; it is exact with one
market only. The count is a log field that no modelled state depends on.

## 5. Proofs

Safety proofs, each by an inductive invariant. The inductive invariants are
proved and therefore not listed in the runs; the runs check what they imply.

*`DiscordOutboxProofs`.* `AtMostOnce` alone is not inductive: a claim needs to
know that a pending row has no message and no request under way. `OutboxInv`
adds `RowsMatchDiscord` (unsent rows have neither; every request in `net` is
its row's latest attempt and unanswered), `HoldersOwnAttempt` (a worker between
claim and mark owns the latest attempt alone, and what it was told is true) and
`JobsNamed`. One lemma per conjunct, one case per action. Theorems:
`OutboxInvariant`, `TypeCorrect`, `DeliveredAtMostOnce`,
`ExpiredNeverDelivered`, `SettledIsTrue`, the action property
`SettledStaysSettled`, `CapacityHolds`, and `OutboxImplementsMessageFate`: the fate of
an alert is a function of row, messages and requests, a message stays, an alert
enters without one, and a given-up alert has no worker that could still return
its row to pending (`NeverStays`, the lemma that needs the invariant).
`CapacityHolds` counts the active rows together with the processes that have
passed the check and not yet inserted (`Savers`): a check needs fewer active
rows than the limit and adds one saver, an insert turns a saver into a row, and
nothing else adds either (`SavingSteps`, `CapacityStep`). With one process the
bound is `outbox_max_active_items` itself.
`RetriesWithinBudget` has an invariant of its own, `RetryInv`: every attempt
has an earliest instant, `Due`, one later than the last one's unless a fault was
spent, and a pending row waits for it behind the embargo of the worker or behind
the clock; a row about to be inserted is still absent (`SavedAlone`). It has
the premise `OneProcess`: the embargo is memory of one process, and a second one
would not know of it.

*`PaperTrackingProofs`.* `PaperInv` says that what is tracked has no exit row
yet and belongs to its symbol, that a pending entry is of the last bar, and
that entries between the two commits of a close are open and not tracked; with
`mode = "down" => Tracked = {}` this is why notices and exits never meet. The
pure operators have lemmas of their own (`CloseRowsCases`, `PositionCases`,
`CloseTrackType`, `LimitSchedulesExit`, `CloseReportsExit`). `WithinUniverse`
adds that closes under way and awaited recoveries are of tradable symbols,
which is what a rotation has to cancel for the bound to hold. Theorems:
`PaperInvariant`, `OneOutcomePerEntry`, `FilledNextBarOnly`,
`HoldingIsBounded`, `LifecycleWithinBound`, and the action property
`NoPositionDroppedSilently`.

*`SignalLifecycleProofs`.* A restart rebuilds memory from rows, so the three
properties need to know what memory owes to the rows and the rows to each
other: `SignalInv` says that no row falls into the cooldown of its key, that a
process which has restored remembers each cooldown, and that the unique newest
row of a key, if no confirmation, is the stage. Theorems: `SignalInvariant`,
`SignalTypes`, `ConfirmationsSpaced`, `AlertsAreChanges`, `RowsRemembered`. All
hold as long as the restore reads all rows (`RestoreLimit`), which is a premise
of the properties.

*`UniverseRotationProofs`.* `PlaceInv` ties the runtime's active symbols, the
streams and the PAPER check to the place `run` is suspended at. Theorems:
`RotationInvariant`, `SettledWhileStreaming`, `PaperOutlivesRotation`.

*`ApplicationProofs`.* `AppInv` is the types of the recorder, `RecorderInv`
(each accepted record is durable, in the batch or in the queue; a writer ends
empty or with a fatal error), that a writer is cancelled only by the end of
the event loop, that a failure before any stop is kept by the supervisor until
it is raised, and that the repository is closed. Theorems: `AppInvariant`,
`RecordsAccounted`, `FailuresReported`, `RepositoryAlwaysClosed`.

*`RecorderFilesProofs`* builds on it and proves what the files hold. A thread
writes a batch grouped by day, so the order of the lines is not that of the
queue: `WriteOrder` is shown to be a permutation of the batch that keeps the
order within a day (by counting: the rank of a line among those that come
before it; the library offers no induction over sequences that the provers can
use). `FilesInv` says of each market that durable records, batch and queue
follow on one another in the order of admission (`Numbered`), that a file has
lines of its day in ascending order (`Ordered`), that the lines a thread has
left come behind them (`Leaving`) and that no record handed to a thread is
forgotten (`Kept`), also when the task that waited for the thread was cancelled
(`Threaded`); `Counted` equates accepted records with the bytes that are durable
or reserved, and `ClosedInFull` says what a returned `close` guarantees.
Theorems: `FilesInvariant`, `TapeAlwaysPrefix`, `DiskAlwaysWithinQuota`,
`CleanExitAlwaysComplete`, for any markets, days, queue size and quota.

*`LocalBookProofs`.* `BookInv` adds to the properties how status,
connection and the replay of the buffer go together (`Linked`), that a pending
snapshot was asked for after the last break (`Fresh`), and what is owed while
the book is not valid, in the middle of a bridge too (`Owing`). The lemma `RetainedIsDecided`
shows on the way that the "impossible ordering" branch of the bridge cannot be
reached. Theorems: `BookInvariant`, `BookTypes`, `BookIsTrue`,
`BookNeverLooksAhead`, `BookRestsOnFreshSnapshot`, `BookAsksUntilValid`,
`BookDebtClearedByBridge`.

*`CaptureGenerationProofs`.* That the chain verifies is not inductive: it is a
property of the files, and the next manifest is made from the writer's memory.
`CaptureInv` therefore has three layers. Of the files: `Chain` (only the last
segment may be unfinished, each begins where its predecessor ended, a sealed one
has the manifest that describes it and links to the one before) and `Numbered` (a
frame's number is its rank among all frames of the directory, and a data frame
is what the handoff accepted under this number). Of the writer: `Stages` (which
operation goes with which worker and phase), `Holds` and `Between` (what memory
says of the open segment, or of the gap between two), `Sealing`, `Appending` and
`Recovering` (what has been synced and renamed at each step, also when recovery
does it). Of the generation: `Handling`, `Queued` and `Handoff` (the record in
hand, the queue behind it and the accepted ones follow on one another; a stop or
a fatal transition comes last), `Quota` (the writer's count bounds the directory,
the temporary manifest and the recovery copy included) and `Receipts`. A crash is
the hard case: each of the files it may leave has to satisfy the first layer
again with nothing known of the writer. The operators on files have lemmas of
their own (what an append, a cut, a removed last segment and a seal do to places,
ranks and sizes); then there is one lemma per action. Theorems:
`CaptureInvariant`, `CaptureTypes`, `ChainAlwaysVerifies`, `DirectoryWithinQuota`,
`VerdictAlwaysTrue`, and the refinement `ImplementsEvidenceLog`: ranks make the
mapped log `1..n`, so a step only has to be shown to change `n` and the synced
prefix in a way that `EvidenceLog` allows.

Assumptions are the named `ASSUME`s of the modules: limits are positive, event
identifiers are a finite set of numbers, symbols are finite, `None` is no entry,
a venue's history is a function of its update ids, a frame has at least two
bytes (so that it can be torn), and the reserve has room for the fatal journal
and leaves room for data, which the constructors check or the default settings
satisfy.

Only model-checked: liveness (`NothingWaitsForever`, `StartupRecovers`,
`RankingAdopted`, `ShutdownEnds`, `RecorderFailureStops`, `GenerationDecided`),
which is out of the prover's reach. Every invariant, every action property and
both refinements of the passing runs are proved. The four violations are
counterexamples of TLC.

## 6. Not modelled, and the plan

Numeric code (rules, indicators, regime, microstructure), formatting (embeds,
API views) and configuration have no concurrency, or no state that alerts
depend on. The repository holds some 246,000 lines of Python, of which the
scanner and its live capture are a small part; backtests, historical studies
and the R4B v2 strategy families are sequential computations over stored data,
for which a state machine would only repeat the code. The models therefore
cover a small share of the lines and most of what runs concurrently in the
scanner. Next, in this order:

1. `CandlePipeline`: candle store with conflicts and history limit, gap
   recovery across the secondary intervals.
2. Capture: the live raw depth monitor with the REST scheduler that answers its
   snapshot requests, composed with `LocalBook`'s rules; `writer_lease`; several
   connections of `ws_owner`.
3. The listen-key and REST budget of `pump_fade_v3`; the attempt ledger and
   write-ahead logs of `r4b_v2`.
4. A composition of `PaperTracking`'s outbox counter with `DiscordOutbox`.
5. Proofs: the premise of the cooldown properties (`RestoreLimit`) made a bound
   on the rows between two restarts, and theorems for the modules above.

## 7. Running it

    tlc -workers 2 -config MCDiscordOutbox_overlap.cfg MCDiscordOutbox
    tlapm DiscordOutboxProofs.tla

Each run takes less than two minutes on two workers. The proofs take a few
minutes, those of `CaptureGenerationProofs` some ten.
