# Axon Pulse: TLA+ models, checks and proofs

Axon Pulse is a network sensor. A background service measures the connection,
keeps the results in a local database and, when the device is enrolled, uploads
them to a controller. The development in this directory models the parts of it
that have to be right over crashes, lost messages and concurrent callers, and
the pure policies whose rules interact.

## The system

| Component | State | Operations | Used by |
|---|---|---|---|
| Spool (`internal/spool`) | SQLite tables `records`, `pending_batch`, `history`, counters `next_seq` and `dropped` | append, prune, NextBatch, Ack, Clear, Open | flush (append), uploader (NextBatch, Ack), privacy cleanup (Clear) |
| Uploader (`internal/uploader`) | next attempt, backoff, revocation latch, last heartbeat, one pending speed request | Tick, Force, revoke, ResetPrivacyBlock | the scheduler, once a second |
| State store (`internal/state`) | `state.json`, the purge sentinel, the copy in memory, budget ledger, handled nonces | one setter per field, BeginPrivacyPurge, CompleteSSIDPurge, WipeCredentials, reserve, reconcile, AcceptSpeedTestRequest, Open | service, uploader |
| Service (`internal/service/service.go`) | mode lock `modeRun`, running producers, aggregator, lifecycle | Run, tick, flush, IPC handlers, completeSSIDPurgeLocked, stage_update, Close | process |
| Activity gate (`internal/service/activity.go`) | `active`, `quiescing`, `drained` | begin, release, quiesce, resume | ticks, uploads, speed tests, updates |
| Aggregator (`internal/aggregate`) | open minutes, events, sealed boundary | Add..., Flush, Restore, Reset | producers, flush |
| Speed tests (service, store, uploader) | request slot, nonce table, data-budget ledger, `speedBusy` | queue, validate, accept, reserve, run, reconcile, resolve | tick, IPC, controller |
| Update (`internal/update`, `package_restart.go`) | available version, `updateBusy`, `updateRun`, the executable and its neighbours | check, set channel, stage, activate, package restart | IPC, tick |
| IPC server (`internal/ipc`) | connections, streams, closed flag | Serve, handle, stream, Close, drain | desktop shell, CLI |
| Quality test (`internal/qualitytest`) | phase, byte budgets, counters | phases, claims, transfers, probes | speed tests |
| Policies (`internal/measurement`, `internal/protocol/types.go`, `quality`) | none | schedule, normalise, plan, detect, score, judge | tick, uploader, quality test |

How they interact: the scheduler's tick takes `modeRun` for reading, collects
and flushes into the spool, and starts uploader Ticks that also hold `modeRun`
for reading. IPC handlers that change mode, consent or enrollment take it for
writing, so they wait for the Tick under way. The spool serialises its own
transactions on one connection, so appends interleave with a Tick at
transaction boundaries. The uploader reports a revocation by writing the purge
marker to the store; the service cleans up on the next occasion. A controller's
speed request arrives with an upload's answer, waits in the uploader's slot and
is taken by a tick. Updates close the activity gate, wait for admitted work to
leave, flush, and replace the process. Shutdown waits for the IPC server and
the workers up to a deadline.

What is hard here:

* a batch is retried over lost answers, failed acknowledgements and restarts
  while retention and the byte budget work on the same rows;
* a withdrawal of consent has to win over failing disks, unsynced renames,
  power loss, and over a weaker or a stronger request that is half done;
* events and samples cross a mode switch, a flush failure or a crash;
* a speed request has a nonce to consume, bytes to reserve and a verdict to
  deliver, with crashes and changes of enrollment in between;
* three updaters share one gate, and the executable is replaced by renames
  that may stop half way;
* handlers and workers may outlive every deadline of a shutdown;
* streams and probes of a test claim bytes from shared budgets at once.

`PROJECT.json` lists each of these as hazards at their lines.

## Modules

**`Spool`** is the database. Each Go operation is one transaction, hence one
action; errors and crashes before COMMIT are stuttering steps. `records`,
`pending`, `history` are sets of rows; `PruneTx` is `pruneTx` statement by
statement; `Selected` is NextBatch's scan with its three limits. A payload is
its length. `Reopen` is process death and `Open`. The variables `issued`,
`epoch`, `firstId`, `acked` and `lastPrune` only record the past.

**`Delivery`** extends `Spool` with the uploader's Tick, one action per request,
answer and transaction, the controller (external, modelled from how the client
uses it: it stores a batch id once per enrollment), a network that loses
answers and delivers abandoned requests late, revocation, disconnect,
re-enrollment, and crashes at every point. It leaves open when the next Tick
starts and whether a heartbeat is due, so every backoff is covered. Modes are
not in it: local-only rows are, and `PrivacyPurge` has the mode guard.

**`TelemetryLedger`** is the abstract specification of what `Delivery` promises
about rows: the controller takes each at most once, and a row leaves the sensor
only if the controller has it, as a counted loss, or in a wipe. `Delivery`
implements it through the mapping at `Ledger` (rows by id; the controller's
copies as upload and row pairs; `lost` is `dropped`).

**`PrivacyPurge`** is the store's two-file protocol, the cleanup in the service
and the uploader's latch. A file replacement has three outcomes: failed,
visible but not durable (an error to the caller), durable. `disk` records for
each file what is visible and what a power loss may leave. The cleanup has one
action for each place it can return, so a crash between two of its steps is the
action that ends there followed by `Crash` or `PowerLoss`. Telemetry is
abstracted to who owns it and whether it carries an SSID. A tick or an upload
tests the marker before it has the mode lock: `SeeMarker` remembers such a
caller and `PurgeStale` is its cleanup after somebody else finished the purge,
perhaps with a new enrollment in between. `Delivery` has the same two steps.
`connect` has two steps as well: its checks, made under `enrollRun` before the
exchange with the controller (`EnrollBegin`), and the flush and commit under the
mode lock, which do not repeat them (`EnrollFails`, `Enroll`); disconnects,
withdrawals and cleanups come in between. The history variable `powerLost` is
what the two properties about stored data depend on (see Proofs).

**`Collection`** is how measurements become spool rows: the scheduler's tick,
its producers, `flush` with its two halves (extraction under the lifecycle
mutex, append afterwards), `set_mode` and `connect` as handlers that wait for
`modeRun`, pause, purge, the flushes before an update and at shutdown, crashes,
and the aggregator's open and sealed minutes. A sample is its target, minute and
the mode it was measured in; DNS, HTTP, link and speed results are one kind of
record; the latency producer is apart because `flush` treats it apart. What a
tick does under the read lock up to an append is one action: it shares nothing
with other goroutines but the mode, which the lock protects, and the pause flag,
which is read once. `broadcastLive` comes after the lock is released and is two
actions, the read and the event. Whether the portal is captive, uploads fail, or
a producer is due is left open. The variable `adjustable` is chosen once and says
whether the clock may be set back in this behaviour. The drop of records with a
time before the epoch (`service.go:849-861`) is left out: model time starts at
zero. How the writers of `modeRun` get their turn is in `Shutdown`.

**`SpeedTests`** follows a test from its trigger (schedule, user, controller) to
its result and verdict: the uploader's slot, the checks on a request, the nonce
table with expiry and eviction, deferral, the durable reservation, the run, the
reconciliation and the two flushes. `job` is the one test that `speedBusy`
admits and the step it is at, so that a crash, a failed write (also one that
was committed all the same) or midnight can come between any two. The writers
of `modeRun` change enrollment and mode only while nothing holds the lock.
Records of a run carry the nonce and the number of the run. A disconnect empties
the ledgers and the nonce table (`store.go:675-679`) and a connect the table
again (`store.go:282`), so the history variables `spent` and `spentIn` count
since the last disconnect. They count what the runner counts; the bytes of
refused uploads (`runner.go:715`) are in `QualityRun`.

**`ActivityGate`** is `activity.go` with workers and updaters; a critical
section under the mutex is one action. Each quiesce call owns a channel, and
closing a nil or closed channel is recorded as a panic.

**`Update`** extends `ActivityGate` with its users: `stage_update` called by the
user or by the automatic updater, and the restart after a package upgrade. They
serialise on `updateRun` (`run`), drain the gate, download, flush and activate.
The files are three names (the executable, `.pulse-new`, `.pulse-previous`) with
the version each holds; `.pulse-failed` is only ever written and is left out.
`Copy`, `Archive`, `Install` and `Rollback` are the file operations, used by
Activate on unix and by the helper process on Windows (`ActivateX`, `HelperX`).
Each may fail, and service and helper may die between any two. A version in
`Broken` fails its probe and does not start. `unflushed` tells what admitted
work has completed from what comes late: the open minute, which `flushForUpdate`
keeps (`service.go:794-796`), and the events of `trackLifecycle`, which a tick
that the gate refuses adds all the same (`service.go:398`, `:743`).

**`Shutdown`** is the IPC server and the end of the service: the accept loop,
slots for connections and streams, Close in its two steps (flag and snapshot
under the lock, then the sockets), the drains with their deadlines,
`trackUnsafeDrain`, the last flush and `Service.Close`. Handlers and workers
may run for ever. Run sees a stop request only between two ticks, and a tick
takes `modeRun`: for reading (`TickReads`), or for writing when it has a cleanup
to complete (`CleanupDone`). Workers and the handlers of speed tests and uploads
hold it for reading (`Share`), the handlers that change mode, consent, enrollment
or version ask for it as writers (`AskLock`). So Run can hang in a tick behind a
reader that hangs. Left out are the cleanup an upload worker may do itself and
the goroutine of the restart timer (`service.go:1656`); the cleanup at the start
of Run is like that of a tick.

**`QualityRun`** is one run of either profile: the phases of `Runner.Run` and
`runHousehold`, the streams that claim from a phase's allocation or whole units
from the household ledger, transfers that end early or are refused, and probes
that share the response budget with upload answers. `wire` holds the bytes that
went out and that nobody counts: those of an upload the endpoint refused
(`UploadRefused`), and those the HTTP transport reads from a body after the call
has returned (`StrayRead`, also after the run's report). Rates enter only as the
bytes they ask for; stability only as the moment a phase ends.

**Policies** are pure functions. `SpeedSchedule`: windows, cadence slots, when a
profile is due and when the next test is announced. `SpeedProfiles`: what
`NormalizeConfig` makes of a controller's configuration, and what the runners
ask of a profile and of the bytes that remain for the test (`Runnable`).
`Household`: mix, plan, status, cards and confidence of a household run.
`Evidence`: stable regions, scorable applications and confidence of a saturation
run, with ratios multiplied out, so that no comparison depends on rounding.
`MCPolicies` gives them bounded inputs: every state is one input.

`MCSpool` and `MCDelivery` hold the symmetry set and function-valued constants
of their instances, `MCCollection` the bounds that depend on the clock;
`*Proofs` modules hold the theorems. `DeliveryProofs` has those of `Spool` and
`Delivery`, `UpdateProofs` those of `ActivityGate` and `Update`, `PolicyProofs`
those of the policies.

## Runs

| Run | Checks | Instance |
|---|---|---|
| `spool` | reservations intact, byte budget, expiry, exact count of losses | 3 row ids, 2 kinds with caps 1 and 2, sizes 1 and 2 in a budget of 3, 3 batches, 3 clock values with retention 1, clock set back, 1 Clear |
| `privacy` | durability of the purge, no sending, no downgrade, an overtaken cleanup spares a new enrollment; until the power fails, nothing with an SSID left and queues do not cross enrollments | 2 enrollments, crashes and power loss |
| `delivery` | refinement of `TelemetryLedger`, retry stability, every waiting row leaves the queue | 2 rows of equal size, 2 batches, 2 enrollments, 3 clock values with retention 1, 2 config versions, 3 wipes, fairness |
| `collection` | records reach the spool once, unmixed, under their mode, none dropped; one summary per minute | 1 target, 2 minutes; 1 check or event and 1 restart while the clock goes forward, 1 wipe where it may be set back |
| `speed` | one run per nonce; between disconnects the ledger covers what was spent and scheduled tests stay in the budget; no directive of an earlier enrollment, an acceptance has its result | 2 nonces, a table of 1, envelope 2, limits 1 a day and 2 a month, 3 days over two months, 2 tests, 2 enrollments, 1 fault |
| `update` | updates run alone, a runnable version is kept, quiet until the restart, admission reopens | 1 worker, 3 updaters, 3 versions of which one is broken, 2 channels, 3 platforms, 2 faults, fairness |
| `shutdown` | the spool outlives its users, a clean exit has persisted everything, Run returns, a mode switch is answered, calls are served beside streams | 3 connections, 2 slots, 1 stream, 1 worker, fairness |
| `quality` | counted bytes stay in the envelope, every byte accounted for | both profiles, 2 streams, budgets of a few requests, 1 upload with uncounted bytes |
| `policies` | announced and due times agree, plans are the longest that fit, verdicts agree, evidence is sound, normalised configurations are runnable and stable | days of 8 ticks with every window; 8 caps, 9 times and 47 mixes; 2 activities; 3 to 5 buckets; over 700 profile lists |
| `quiet_hours` | *violated*: a scheduled test is due only inside a window | as `policies` |
| `retention` | *violated*: no row is kept longer than the retention time | as `spool`, clock forward only |
| `envelope` | *violated*: all bytes of a run together stay in the envelope | as `quality` |

Why the bounds are enough to be interesting. In `spool` three rows let a batch
be pending while a further row is skipped by a kind cap, overflows the
budget or expires; three clock values separate a row's time, its batch's
creation and the prune; sizes differ, so shedding can overshoot; three batch
ids allow an expired, an acknowledged and a pending one; Clear happens with a
batch outstanding. In `delivery` a request can be late, retried, stored,
expired under way and followed by a new enrollment in one behaviour. Two
enrollments are what it takes to mix two; the outcomes of the two files and
three actions cover the lattice of purge states completely, because nothing
else in `PrivacyPurge` counts. In `collection` the first minute can close while
its probe round is still publishing, during an append, a failed switch or a
restart; targets do not interact except through one flush, so one is enough.
In `speed` a table of one entry is full after one request, an envelope larger
than the daily limit makes every user test an overdraft, and days and months
change within a test. In `update` two faults allow a crash inside the recovery
from a failure (`RunnableKept` promises something for one), and three versions
a second update after a rollback. In `shutdown` a stream, a call and a
connection waiting for a slot are there together. In `quality` the budgets are
uneven, so that halves, shares and blocks leave remainders, and two slots a
direction make claims concurrent.

`CHECK_DEADLOCK` is off in `update`, where a machine without a runnable
executable after two faults stops, and in the two runs of `MCPolicies`, whose
states are inputs without a successor.

### The violated runs

**`quiet_hours`.** The comment on `SpeedProfileDue` says that "Windows therefore
double as quiet-hour exclusions", and the methodology document that the
complement of the windows "acts as quiet hours". With a cadence the windows
decide only which instant of a slot is drawn; from then on the test is due to
the end of the slot (at most a day), inside a window or not. A sensor that was
asleep, paused, busy or backing off at the instant starts it in the excluded
hours. The run finds such an instant. Without a cadence the property holds.

**`retention`.** `docs/privacy.md:40-43` says that an SSID can remain in the
queue or history "for at most seven days", also offline. An expired row is
deleted only when no pending batch reserves it (`spool.go:279`), and a batch lives
for seven days from its own creation (`:276`). A row that is first batched near
the end of its life and cannot be delivered stays for almost fourteen days. The
run shows such a row right after a prune. `ExpiryCovered` states what holds.

**`envelope`.** `quality/quality.go:15` calls the budget the "hard, locally
enforced envelope for one test". A refused upload is reported with no bytes
although its body was sent (`runner.go:715`, `household.go:687-689`), and its
unit goes back to the household ledger and is sent again; what the transport
reads after a call has returned (`runner.go:73-75`) is not counted either. The
run shows counted and uncounted bytes above the cap. `EnvelopeKept` states what
holds: what is counted stays within it.

### Other disagreements seen while modelling

These are smaller and have no run of their own.

* `uploader.go:124`: "Tick performs at most one network request". After an
  answer that announces a newer config the same Tick pulls it (`:192`, `:236`).
* `store.go:290-291`: local-only records "can never be uploaded after the
  switch". The lifecycle event at the end of a tick is recorded after the mode
  lock is released (`service.go:743`); with a switch in between, an event about
  standalone operation becomes an uploadable row. Measurements are not affected
  (`MeasuredModeKept`).
* `service.go:994-995`: the verdict is flushed at once "so a crash cannot lose
  it". A crash after the nonce is consumed and before that flush leaves none,
  and a redelivery is then refused as replayed, so one verdict does arrive if
  the controller repeats the request.
* `docs/internet-quality-methodology.md:30-31` calls the data budget a hard spend
  bound. Tests asked for by the user or the controller may overdraw it, which the
  same document allows, and a disconnect forgets what was spent
  (`store.go:675-678`): scheduled tests may then use the whole day's and month's
  limit again. `LedgerCoversSpend` and `ScheduledWithinBudget` state what holds
  between two disconnects.
* `docs/architecture.md` promises durable replay protection of requests. The table
  is emptied at a disconnect and at a connect; after that the signature with the
  new enrollment's secret protects (`RunOncePerNonce`).
* `service.go:1090-1091`: "never stop an explicitly requested test". `RunTest`
  refuses less than 1 MiB of remaining bytes (`measurement.go:364`), and a
  requested test is given its own envelope as the remaining bytes
  (`service.go:1104-1105`). A profile of 512 KiB down and 256 KiB up is kept by
  `NormalizeConfig` and refused whenever the controller asks for it, as "daily
  data budget exhausted"; on schedule it runs, and the user's own tests have
  larger ceilings.
  `NormalizedRunnable` states exactly which tests are accepted.
* `activate_unix.go:16`: Activate "atomically replaces" the executable. Between
  the two renames there is none under its name; after a crash there the previous
  one is left beside it (`RunnableKept`).
* `NextSpeedWindow` samples windows every hour (`measurement.go:189`) and does
  not announce one that is shorter and lies between two samples; the test itself
  is started. `NextIsDue` is stated for windows of an hour or more.

### Fairness

* `Delivery`: the scheduler calls Tick every second, so Ticks that can start do
  (WF); a batch that is retried forever is answered and acknowledged at some
  time (SF), since attempts fail in between but the condition recurs; a hanging
  request ends by its client timeout (WF); the cleanup is retried by every tick
  and succeeds at some time (SF). A permanently refused batch violates the
  second assumption; it leaves by retention only.
* `Update`: the handler that holds `updateRun` goes on, its drain timeout
  expires (WF), and the restart timer ends Run, which closes the endpoint that
  new handlers come from (SF). Workers are not assumed to finish.
* `Shutdown`: the server's and Run's goroutines go on and their timers fire
  (WF); the accept backlog is first in, first out (SF on each connection); a
  read has a deadline and a stream ends with the context. Run's `select` picks at
  random among a tick and a stop request, and `sync.RWMutex` lets waiting readers
  in when a writer leaves and no new ones while a writer waits, so the loop and
  its ticks get their turn (SF on `Stop`, `TickReads`, `CleanupDone`). The handler
  that has the lock as a writer only flushes and writes files, and ends (WF).
  Nothing is assumed of other handlers and of workers: `RunReturns` and
  `SwitchAnswered` have the hypothesis that no reader of `modeRun` hangs
  (`ReadersReturn`), `CallsServed` that no handler does.

## Proofs

The theorems hold for every value of the constants under the `ASSUME`s of the
modules (limits are natural numbers, the worker set is finite, and so on). Every
safety invariant and action property of the runs `spool`, `privacy`,
`delivery`, `collection`, `speed`, `update`, `shutdown` and `quality` is a
theorem, and so is the refinement of `TelemetryLedger`. Of the five properties of
`policies` three are proved for every input, one in part. Two theorems have a
hypothesis on the clock, and two properties are stated for as long as the power
has not failed; it is said below why. The parts of each inductive invariant
were checked with TLC on the instances of the runs before they were proved.

**`DeliveryProofs`, the spool on its own.** `TypeCorrect`. `Reservations`
(`OnePending`, `ReservationIntact`, `LocalNeverBatched`, `ShownOnce`) and
`RetentionHeld` (`ExpiryCovered`), also for a clock that goes back. They are not
inductive alone: the strengthening says that all row ids are below `nextId` and
unique, that a pending batch is among the issued ones, and that ids in batches
and in history were handed out before. The central lemma is `PruneReservation`,
what `PruneTx` preserves. `RowsBatchedOnce` (`NeverRebatched`) has the
hypothesis that the clock does not go back; here the invariant also says that an
issued row that is still in the table is in the pending batch, which needs that
a batch is created no earlier than its rows, so that batches expire no earlier
than their rows. With a clock that is set back the statement is false.
`DropsCounted` (`DroppedExact`) needs that acknowledged ids were handed out and
are gone. `BudgetKept` (`BudgetHeld`) rests on a small theory of sums over
finite sets. `Bytes` is a fold, so its laws are inductive; the induction is made
first-order by taking a smallest subset without the property (`SmallestSubset`,
`LeastNumber`). From `SumDefined` (the recursion has a solution) follow
`SumRemove` and `SumSplit`, and from these that shedding in order of age stops
at a set that fits.

**`DeliveryProofs`, the composition.** `RetriesStable` (`RetryStable`), for any
clock: whatever is pending, on the wire or stored is what was issued under its
id. `DeliveryImplementsLedger`: while the clock does not go back (it rests on
`NeverRebatched`), every step of `Delivery` is a step of `TelemetryLedger` or a
stutter under the mapping at `Ledger`. `SpoolStep` shows that a step of the
delivery is a step of the spool, so that its invariants carry over. Above them
`OwnerInv` says whose batches there are: a Tick sends one batch, an id is issued
once, all uploads of an id are of the enrollment that reserved it, and what is
being acknowledged has been stored. The last is what makes `Ack` a retirement
and not a loss; the second and third make the controller's deduplication by id a
deduplication by row.

**`PrivacyPurgeProofs`.** `PurgePromises` (`TypeOK`, `IntentSurvives`,
`ConsentStaysWithdrawn`, `CredentialsStayWiped`) and `NothingSent`. The inductive
invariant `PromiseInv` has three parts: what every pair of files a power loss
may leave has to satisfy, what memory has to satisfy while the process runs, and
that memory is at least as strong as what is promised. `Recovered` is never
expanded in the steps: `RecoveredEffect` says what `Open` makes of two files,
and the writes have lemmas for each outcome. `PurgeNeverDowngraded` and
`EnrollmentKept` are action properties, from the same invariant. `SSIDGone` and
`QueueOwned` (`DataInv`) are about the data: memory and the state file agree
while data is collected, so a restart opens a state that is as clean as the one
in memory. They say something only until the power first fails (`powerLost`): when
the directory cannot be synced after a replacement, the new state is visible and
in memory but not durable. After a consent given that way, and rows collected
under it, a power loss brings back the state without consent beside the rows, so
that the statements are false.

**`CollectionProofs`.** `MinutesStayUnmixed`, `MeasuredModesKept`,
`MinutesSummarisedOnce`, and the action property `RecordsKept`
(`NothingDropped`). The argument is about `modeRun` (`LockInv`): whoever reads
under the lock measures in the mode the service is in, and a switch that has
flushed excludes every reader. So all that is in memory, events apart, was
measured in the current mode (`ModeInv`), and a switch leaves only events. That
a minute is summarised once rests on its seal (`MadeInv`): a summarised minute
is sealed for as long as a sample of it can still arrive. `RecordsKept` goes
through `HeldWell`, what a step may do to the records held, which the flushes
satisfy because what they extract is in `taken` until the append or the restore.

**`SpeedTestsProofs`.** `OneRunPerNonce` (a request that was run is spent,
`Spent`: its nonce is in the table, or it has expired, was evicted, or is signed
with the secret of an earlier enrollment, which is what remains after a
disconnect has emptied the table), `DirectivesStayInEnrollment` (a controller's
test holds the lock that keeps the enrollment), `AcceptanceAfterResult` (a
verdict is behind its result in memory as well as in the spool),
`LedgerNeverForgets` and `ScheduledStayInBudget`. The last two share
`LedgerInv`: the ledger holds what was spent and what the test under way may
still spend (`Owed`); it is dated no later than that test; and nothing was spent
after its day and month. The history variables `spent` and `spentIn` count the
bytes by day and by month apart from the ledger, since the last disconnect.

**`UpdateProofs`, the gate on its own.** `GateSafe`: `TypeOK`, `UpdateAlone`,
`NeverPanics` and `NoLostWakeup`. `GateInv` ties the counter to the set of
workers (`active = Cardinality(working)`), the gate's channel to the one updater
that is not idle, and "closed" to "nobody is working".

**`UpdateProofs`, its users.** `UpdatesRunAlone`: the steps of `Update` are
steps of the gate, apart from the end of the process, so the gate's invariant
holds. `QuietBeforeRestart` (`QuietUntilRestart`): the holder of `updateRun` has
the gate closed from its drain on, and an exit that is due has an updater that
keeps it closed; so nobody completes work after the flush, and what is left in
memory is late: the open minute and lifecycle events. `RunnableVersionKept`
(`RunnableKept`): in the middle of a swap the archived executable runs, outside
it the installed one does, unless the one fault has left none, or a broken one
that nobody will archive over the good one.

**`ShutdownProofs`.** `SpoolOutlives` (`SpoolOutlivesUsers`) and `CleanExit`
(`CleanExitPersisted`). Close looks only at tracked drains, so the invariant
carries that a handler or worker that Serve or Run no longer waits for is behind
one, and that nobody becomes a user once the one who would wait has returned. In
the model a flush takes all there is. In the code the flush at shutdown drops the
minute that is not over (`aggregate.go:136-138`), by design; `CleanExitPersisted`
is about all the rest.

**`QualityRunProofs`.** `EnvelopeHeld` (`EnvelopeKept`) and `BytesAccounted`
(`Accounted`), for any limits, shares and number of streams, whatever rates are
measured and whatever goes out uncounted. `EnvelopeKept` looks only at
what was counted and is not inductive: `WithinLimit` adds, for each direction,
what is claimed by a stream, what is unclaimed in the phase's allocation and
what is kept back for the bidirectional phase, and says that all of it together
is within the limit. `Shaped` says what an idle slot or probe holds, `Phased`
who may be at work in which phase, and `Unspent` that a warm-up is the first
transfer of its direction, which its share of the limit relies on. The claims
are sums over slots; `SumRemove` and `SumChange` say that a sum changes by what
one slot changes, so the step of one stream is an equation between numbers.
Every claim, answer and probe then moves bytes between two terms.

**`PolicyProofs`.** The invariants of `MCPolicies` for every input, not only the
enumerated ones. `EvidenceIsSound` (`EvidenceSound`): bucket sequences of any
length; a detected region is the first steady window, extended while it stays
whole. `VerdictsAgree` (`VerdictAgrees`): any number of activities; the weakest
score is attained by an activity, whose card cannot show more. `PlansLongest`
(`PlanLongest`): any mix, cap and limit; the attempts have falling windows
(`AttemptOrder`), the reference only adds to the cost of the same window
(`AttemptCosts`), so the first attempt that fits is the longest window that
does. Nothing is assumed about how the cost depends on the window. Of
`NormalizedRunnable`, what it says of one mix (`MixesNormalised`) and of one
profile (`ProfilesRunnable`: accepted by the runners whenever the remaining
bytes cover its envelope and 1 MiB, and in a test that was asked for exactly
when the envelope is that large; no opt-in; the numbers stable under a second
pass) is proved for all numbers. `DeviceSound`, that the sensor's own profiles
are within the bounds they replace, is what makes the second pass harmless.
`PolicyProofs` and `QualityRunProofs` each have their own lemmas on sums, since
they extend different specifications.

Model-checked only:

* liveness (`RowsDrain`, `AdmissionReopens`, `SwitchAnswered`, `RunReturns`,
  `CallsServed`): the prover supports neither fairness nor ENABLED;
* `NextIsDue`: a search over days, slots and windows with divisions by `Day`
  and `Hour`, which are parameters, and offsets counted through a filtered
  sequence of intervals; the prover has no decision procedure for the first and
  no facts about `SelectSeq` for the second;
* the rest of `NormalizedRunnable`, the lists: which profiles and windows are
  kept is `SelectSeq`, which takes an operator and is defined by recursion over
  the sequence.

## Not modelled

Payload contents and their encoding; SQLite itself; HTTP, signing and TLS; the
network probes and transfers; operating-system queries (link, counters,
metering, battery); the score curves, which are floating-point formulas; the
support log and bundle; the desktop shell and command line; build and release
tools. Durations of backoff and polling are left open rather than modelled: the
actions they delay may happen at any time. Daylight-saving days are not in
`SpeedSchedule`, and the pacing of household activities not in `QualityRun`. The
sections above say what single modules leave out: records from before the epoch
in `Collection`, refused bytes in `SpeedTests`, two users of the mode lock in
`Shutdown`.

## Open

What would extend this development: a `SelectSeq` free statement of the profile
and window lists, so that `NormalizedRunnable` can be proved as a whole; the
pacing of household activities in `QualityRun`; daylight-saving days in
`SpeedSchedule`.
