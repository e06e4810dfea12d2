----------------------------- MODULE SpeedTests -----------------------------
(***************************************************************************)
(* Speed tests: who may start one, what it may spend and what is reported. *)
(*                                                                         *)
(* A test is started by the scheduler's tick, by a user (the "test" call   *)
(* of the local IPC) or by a controller whose signed one-off request came  *)
(* with an upload's answer and waits in the uploader's single slot.  Its   *)
(* nonce is consumed durably, its bytes are reserved in the durable ledger *)
(* before it runs and reconciled after, its result and the verdict on the  *)
(* request go to the aggregator and from there to the spool.  The process  *)
(* may die between any two of these steps, and writes may fail.            *)
(*                                                                         *)
(* A tick, a test and an upload hold modeRun for reading; connect,         *)
(* set_mode and disconnect for writing.  Bytes are counted in MB, the unit *)
(* of the budgets; the clock goes forward.  Whether a scheduled test is    *)
(* due (windows, cadence, spacing, backoff) is left open.  What a test     *)
(* transfers is what its runner counts: the bytes of an upload that the    *)
(* endpoint refuses are sent and not counted (QualityRun).                 *)
(***************************************************************************)
EXTENDS Integers, FiniteSets, FiniteSetsExt

CONSTANTS
  Nonces,        \* nonces of the controller's requests
  TableSize,     \* entries of HandledSpeedRequests (32)
  Window,        \* oldest issue time and farthest expiry accepted (10 minutes)
  Envelope,      \* MaxDownloadBytes + MaxUploadBytes of the profile
  DailyLimit,    \* DailyDataBudgetMB
  MonthlyLimit,  \* MonthlyDataBudgetMB
  TicksPerDay, DaysPerMonth,
  MaxTime,       \* bound: the clock
  MaxTests,      \* bound: tests started
  MaxFaults,     \* bound: crashes and failed writes
  MaxClaims      \* bound: enrollments

ASSUME SpeedAssumption ==
  /\ {TableSize, Envelope, TicksPerDay, DaysPerMonth} \subseteq Nat \ {0}
  /\ {Window, DailyLimit, MonthlyLimit, MaxTime, MaxTests, MaxFaults, MaxClaims} \subseteq Nat

VARIABLES
  now,       \* the wall clock
  claim,     \* the enrollment in use, 0 if none
  claims,    \* number of enrollments so far
  mode,      \* State.Mode
  purging,   \* State.SSIDPurgePending
  issued,    \* requests the controller has signed
  slot,      \* Uploader.speedRequest, as a set of at most one
  uploading, \* Service.uploadBusy
  handled,   \* State.HandledSpeedRequests: nonces and their expiry
  job,       \* the test under way (Service.speedBusy) and how far it is
  ledger,    \* State.BudgetDay, BudgetBytes, BudgetMonth, MonthlyBudgetBytes
  memory,    \* results and verdicts in the aggregator
  spooled,   \* those in the spool
  runs,      \* history variable: tests run per nonce
  evicted,   \* history variable: nonces evicted from a full table
  spent,     \* history variable: bytes counted per day since the last disconnect
  spentIn,   \* history variable: and per month
  tests,     \* history variable: tests started
  faults     \* history variable: crashes and failed writes

enrollment == <<claim, claims, mode, purging>>
requests == <<issued, slot, handled>>
records == <<memory, spooled>>
history == <<runs, evicted, spent, spentIn, tests>>
vars == <<now, enrollment, requests, uploading, job, ledger, records, history, faults>>

Times == 0..MaxTime
Day(t) == t \div TicksPerDay
Month(t) == Day(t) \div DaysPerMonth
Days == {Day(t) : t \in Times}
Months == {Month(t) : t \in Times}

Requests == [nonce : Nonces, claim : 1..MaxClaims, issued : Times, expires : Nat]
Triggers == {"scheduled", "manual", "controller"}
Stages == {"idle", "admitted", "check", "reserve", "running", "ran", "reconciled", "resolve"}
Records == [what : {"result", "accepted", "rejected"}, nonce : Nonces, run : Nat]
Idle == [stage |-> "idle", trigger |-> "scheduled", req |-> {}, at |-> 0,
         reserved |-> 0, used |-> 0, ok |-> FALSE]

TypeOK ==
  /\ now \in Times /\ {claim, claims} \subseteq 0..MaxClaims
  /\ mode \in {"standalone", "connected"} /\ {purging, uploading} \subseteq BOOLEAN
  /\ issued \subseteq Requests /\ slot \subseteq issued /\ Cardinality(slot) <= 1
  /\ handled \subseteq [nonce : Nonces, expires : Nat]
  /\ Cardinality(handled) <= TableSize
  /\ job \in [stage : Stages, trigger : Triggers, req : SUBSET Requests, at : Times,
              reserved : 0..Envelope, used : 0..Envelope, ok : BOOLEAN]
  /\ ledger \in [day : Days, daily : Nat, month : Months, monthly : Nat]
  /\ memory \subseteq Records /\ spooled \subseteq Records
  /\ runs \in [Nonces -> Nat] /\ evicted \subseteq Nonces
  /\ spent \in [Days -> Nat] /\ spentIn \in [Months -> Nat]
  /\ tests \in 0..MaxTests /\ faults \in 0..MaxFaults

\* A new state file, and what a disconnect leaves of the ledgers and of their
\* history.
NoLedger == [day |-> 0, daily |-> 0, month |-> 0, monthly |-> 0]
NothingSpent == [d \in Days |-> 0]
NothingSpentIn == [m \in Months |-> 0]

Init ==
  /\ now = 0 /\ claim = 0 /\ claims = 0 /\ mode = "standalone" /\ purging = FALSE
  /\ issued = {} /\ slot = {} /\ uploading = FALSE /\ handled = {}
  /\ job = Idle
  /\ ledger = NoLedger
  /\ memory = {} /\ spooled = {}
  /\ runs = [n \in Nonces |-> 0] /\ evicted = {}
  /\ spent = NothingSpent /\ spentIn = NothingSpentIn /\ tests = 0 /\ faults = 0

----------------------------------------------------------------------------
\* A step that fails, if not ok, as far as the bound on faults allows.
Outcome(ok) == (ok \/ faults < MaxFaults) /\ faults' = IF ok THEN faults ELSE faults + 1

----------------------------------------------------------------------------
(* The durable state of the store. *)

\* remainingDataBudgetsLocked, at most the smaller of the two
Left(limit, current, charged) == IF current THEN Max({limit - charged, 0}) ELSE limit
DailyLeft(t) == Left(DailyLimit, ledger.day = Day(t), ledger.daily)

\* mutant: the month's ledger is taken for empty on a new day
MonthlyLeftByDay(t) == Left(MonthlyLimit, ledger.day = Day(t), ledger.monthly)

MonthlyLeft(t) == Left(MonthlyLimit, ledger.month = Month(t), ledger.monthly)
Remaining(t) == Min({DailyLeft(t), MonthlyLeft(t)})

\* reserveSpeedTestBytes: rollBudgets, then the charge
Reserved(t, bytes) ==
  [day |-> Day(t), month |-> Month(t),
   daily |-> bytes + (IF ledger.day = Day(t) THEN ledger.daily ELSE 0),
   monthly |-> bytes + (IF ledger.month = Month(t) THEN ledger.monthly ELSE 0)]

\* ReconcileSpeedTestProfile
Reconciled(t, reserved, used) ==
  LET refund == reserved - Min({used, reserved})
  IN  [ledger EXCEPT
        !.daily = IF ledger.day = Day(t) THEN @ - Min({refund, @}) ELSE @,
        !.monthly = IF ledger.month = Month(t) THEN @ - Min({refund, @}) ELSE @]

\* AcceptSpeedTestRequest: expired entries go first, then, from a full table, one
\* that expires first.
Live == {h \in handled : h.expires >= now}

Evictable ==
  IF Cardinality(Live) < TableSize THEN {{}}
  ELSE {{h} : h \in {e \in Live : \A o \in Live : e.expires <= o.expires}}
Known(n) == \E h \in Live : h.nonce = n

----------------------------------------------------------------------------
(* The aggregator and the spool: a flush moves everything or nothing. *)

Publish(new, ok) ==
  /\ Outcome(ok)
  /\ memory' = IF ok THEN {} ELSE memory \union new
  /\ spooled' = IF ok THEN spooled \union memory \union new ELSE spooled

\* resolveControllerSpeedTest
Resolve(r, what, ok) == Publish({[what |-> what, nonce |-> r.nonce, run |-> runs[r.nonce]]}, ok)

----------------------------------------------------------------------------
(* The controller and the uploader. *)

\* The controller (external) signs a request that is valid for the longest time
\* allowed; its clock is the sensor's.
Issue(n) ==
  /\ claim # 0 /\ \A r \in issued : r.nonce # n
  /\ issued' = issued \union {[nonce |-> n, claim |-> claim, issued |-> now, expires |-> now + Window]}
  /\ UNCHANGED <<now, enrollment, slot, handled, uploading, job, ledger, records, history, faults>>

\* startUpload, tickUploadNow
StartUpload ==
  /\ job = Idle /\ ~uploading /\ ~purging
  /\ uploading' = TRUE
  /\ UNCHANGED <<now, enrollment, requests, job, ledger, records, history, faults>>

\* mutant: the signature is not checked
VerifiedNot(r) == claim # 0

\* VerifySpeedTestRequest: the secret is that of the current enrollment.
Verified(r) == r.claim = claim

\* queueSpeedTestRequest: an answer carries any request the controller has signed,
\* first or again.
UploadAnswered(answer) ==
  /\ uploading
  /\ slot' = IF mode = "connected" /\ answer # {} /\ \A r \in answer : Verified(r)
             THEN answer ELSE slot
  /\ uploading' = FALSE
  /\ UNCHANGED <<now, enrollment, issued, handled, job, ledger, records, history, faults>>

----------------------------------------------------------------------------
(* The scheduler's tick. *)

\* validateControllerSpeedRequest, for a well-formed nonce and profile
Invalid(r) ==
  \/ r.issued < now - Window \/ r.issued > now
  \/ r.expires <= r.issued \/ r.expires <= now \/ r.expires > now + Window

Refused(r, enabled) == Invalid(r) \/ ~enabled
MayTick == ~purging
Free == job = Idle /\ ~uploading

TickRefuse(r, ok) ==
  /\ MayTick /\ mode = "connected" /\ r \in slot /\ \E enabled \in BOOLEAN : Refused(r, enabled)
  /\ slot' = {}
  /\ Resolve(r, "rejected", ok)
  /\ UNCHANGED <<now, enrollment, issued, handled, uploading, job, ledger, history>>

Start(trigger, req) ==
  /\ tests < MaxTests
  /\ tests' = tests + 1
  /\ job' = [Idle EXCEPT !.trigger = trigger, !.req = req, !.at = now,
                         !.stage = IF trigger = "manual" THEN "admitted" ELSE "check"]

\* mutant: the nonce is remembered only in memory, so it is not consumed
TickAcceptUnrecorded(r, gone) ==
  /\ MayTick /\ mode = "connected" /\ r \in slot /\ ~Refused(r, TRUE) /\ Free /\ ~Known(r.nonce)
  /\ gone \in Evictable
  /\ handled' = Live \ gone /\ evicted' = evicted \union {h.nonce : h \in gone}
  /\ slot' = {}
  /\ Start("controller", {r})
  /\ runs' = [runs EXCEPT ![r.nonce] = @ + 1]
  /\ UNCHANGED <<now, enrollment, issued, uploading, ledger, records, spent, spentIn, faults>>

TickAccept(r, gone) ==
  /\ MayTick /\ mode = "connected" /\ r \in slot /\ ~Refused(r, TRUE) /\ Free /\ ~Known(r.nonce)
  /\ gone \in Evictable
  /\ handled' = (Live \ gone) \union {[nonce |-> r.nonce, expires |-> r.expires]}
  /\ evicted' = evicted \union {h.nonce : h \in gone}
  /\ slot' = {}
  /\ Start("controller", {r})
  /\ runs' = [runs EXCEPT ![r.nonce] = @ + 1]
  /\ UNCHANGED <<now, enrollment, issued, uploading, ledger, records, spent, spentIn, faults>>

\* The write of the state fails, or succeeds but is reported as failed: no test
\* starts and the request stays in the slot.
TickAcceptFails(r, gone, committed) ==
  /\ Outcome(FALSE)
  /\ MayTick /\ mode = "connected" /\ r \in slot /\ ~Refused(r, TRUE) /\ Free /\ ~Known(r.nonce)
  /\ gone \in Evictable
  /\ handled' = IF committed
                THEN (Live \ gone) \union {[nonce |-> r.nonce, expires |-> r.expires]} ELSE handled
  /\ evicted' = IF committed THEN evicted \union {h.nonce : h \in gone} ELSE evicted
  /\ UNCHANGED <<now, enrollment, issued, slot, uploading, job, ledger, records, runs, spent, spentIn, tests>>

\* The nonce is known: reason "replayed_nonce".
TickReplay(r, ok) ==
  /\ MayTick /\ mode = "connected" /\ r \in slot /\ ~Refused(r, TRUE) /\ Free /\ Known(r.nonce)
  /\ slot' = {}
  /\ Resolve(r, "rejected", ok)
  /\ UNCHANGED <<now, enrollment, issued, handled, uploading, job, ledger, history>>

\* A scheduled test is due, and no request of the controller comes first.
TickSchedule ==
  /\ MayTick /\ Free
  /\ mode = "connected" => \A r \in slot : Refused(r, TRUE)
  /\ Start("scheduled", {})
  /\ UNCHANGED <<now, enrollment, requests, uploading, ledger, records, runs, evicted, spent, spentIn, faults>>

\* The "test" call of the local IPC takes speedBusy, then (runSpeedTest) the lock.
ManualTest ==
  /\ Free
  /\ Start("manual", {})
  /\ UNCHANGED <<now, enrollment, requests, uploading, ledger, records, runs, evicted, spent, spentIn, faults>>

ManualLocked ==
  /\ job.stage = "admitted"
  /\ job' = [job EXCEPT !.stage = "check", !.at = now]
  /\ UNCHANGED <<now, enrollment, requests, uploading, ledger, records, history, faults>>

----------------------------------------------------------------------------
(* runSpeedTestLocked. *)

Override == job.trigger # "scheduled"
JobLeaves == UNCHANGED <<now, enrollment, requests, uploading, runs, evicted, tests>>

\* A failed test ends: a controller's request still gets its verdict.
EndFailed == job' = IF job.req = {} THEN Idle ELSE [job EXCEPT !.stage = "resolve", !.ok = FALSE]

\* speedBudgetReason
Deferrable == ~Override /\ Remaining(job.at) < 1

\* The traffic sample is taken; the test goes on, or is deferred: cross traffic,
\* metering and battery (speedTestDeferral) hold back scheduled tests only.
Checked ==
  /\ job.stage = "check"
  /\ \/ ~Deferrable /\ job' = [job EXCEPT !.stage = "reserve"]
     \/ ~Override /\ EndFailed
  /\ UNCHANGED <<ledger, records, spent, spentIn, faults>> /\ JobLeaves

Reservation == IF Override THEN Envelope ELSE Min({Envelope, Remaining(job.at)})

\* mutant: the test runs although the ledger was not written
ReserveUnchecked(ok, committed) ==
  /\ job.stage = "reserve" /\ Outcome(ok)
  /\ ledger' = IF committed THEN Reserved(job.at, Reservation) ELSE ledger
  /\ job' = [job EXCEPT !.stage = "running", !.reserved = Reservation]
  /\ UNCHANGED <<records, spent, spentIn>> /\ JobLeaves

\* ReserveSpeedTestOverdraw or ReserveSpeedTestProfileFor; a write may fail, and
\* may have been committed all the same.
Reserve(ok, committed) ==
  /\ job.stage = "reserve" /\ (ok => committed) /\ Outcome(ok)
  /\ ledger' = IF committed THEN Reserved(job.at, Reservation) ELSE ledger
  /\ Override \/ Reservation <= Remaining(job.at)
  /\ IF ok THEN job' = [job EXCEPT !.stage = "running", !.reserved = Reservation] ELSE EndFailed
  /\ UNCHANGED <<records, spent, spentIn>> /\ JobLeaves

\* RunTest transfers up to its share of the envelope and succeeds or fails.
RunTest(bytes, ok) ==
  /\ job.stage = "running" /\ bytes <= job.reserved
  /\ job' = [job EXCEPT !.stage = "ran", !.used = bytes, !.ok = ok]
  /\ spent' = [spent EXCEPT ![Day(job.at)] = @ + bytes]
  /\ spentIn' = [spentIn EXCEPT ![Month(job.at)] = @ + bytes]
  /\ UNCHANGED <<ledger, records, faults>> /\ JobLeaves

Reconcile(ok, committed) ==
  /\ job.stage = "ran" /\ (ok => committed) /\ Outcome(ok)
  /\ ledger' = IF committed THEN Reconciled(job.at, job.reserved, job.used) ELSE ledger
  /\ IF ok /\ job.ok THEN job' = [job EXCEPT !.stage = "reconciled"] ELSE EndFailed
  /\ UNCHANGED <<records, spent, spentIn>> /\ JobLeaves

\* mutant: the acceptance is reported before the result is recorded
PublishVerdictFirst(ok) ==
  /\ job.stage = "reconciled"
  /\ IF job.req = {} THEN Publish({}, ok)
     ELSE \E r \in job.req : Resolve(r, "accepted", ok)
  /\ job' = IF job.req = {} THEN Idle ELSE [job EXCEPT !.stage = "resolve"]
  /\ UNCHANGED <<ledger, spent, spentIn>> /\ JobLeaves

\* AddSpeedTest and flush
Result == {[what |-> "result", nonce |-> r.nonce, run |-> runs[r.nonce]] : r \in job.req}
PublishResult(ok) ==
  /\ job.stage = "reconciled"
  /\ Publish(Result, ok)
  /\ job' = IF job.req = {} THEN Idle ELSE [job EXCEPT !.stage = "resolve"]
  /\ UNCHANGED <<ledger, spent, spentIn>> /\ JobLeaves

\* The producer's last steps: the verdict, then clearBusy and the read lock.
ResolveJob(r, ok) ==
  /\ job.stage = "resolve" /\ r \in job.req
  /\ Resolve(r, IF job.ok THEN "accepted" ELSE "rejected", ok)
  /\ job' = Idle
  /\ UNCHANGED <<ledger, spent, spentIn>> /\ JobLeaves

----------------------------------------------------------------------------
(* The trust boundary: writers of modeRun. *)

Unlocked == job.stage \in {"idle", "admitted"} /\ ~uploading
BoundaryLeaves == UNCHANGED <<now, issued, uploading, job, runs, evicted, tests>>

\* connect: SetEnrollment, which starts a new table of nonces, then
\* ClearSpeedTestRequests
Connect ==
  /\ Unlocked /\ claim = 0 /\ claims < MaxClaims /\ ~purging
  /\ claims' = claims + 1 /\ claim' = claims + 1 /\ mode' = "connected"
  /\ slot' = {} /\ handled' = {}
  /\ UNCHANGED <<purging, ledger, records, spent, spentIn, faults>> /\ BoundaryLeaves

\* set_mode; a sensor is enrolled before it can be connected.
SetMode(m) ==
  /\ Unlocked /\ claim # 0 /\ m # mode /\ ~purging
  /\ mode' = m
  /\ slot' = IF m = "standalone" THEN {} ELSE slot
  /\ UNCHANGED <<claim, claims, purging, handled, ledger, records, spent, spentIn, faults>>
  /\ BoundaryLeaves

\* disconnect or a revocation, completed, or failing after the credentials are
\* gone: then the marker stays and the slot is cleared by the retry.
\* WipeCredentials empties the table of nonces and both ledgers.
Disconnect(done) ==
  /\ Unlocked /\ (claim # 0 \/ purging) /\ Outcome(done)
  /\ claim' = 0 /\ mode' = "standalone"
  /\ purging' = ~done /\ slot' = IF done THEN {} ELSE slot
  /\ handled' = {} /\ ledger' = NoLedger
  /\ memory' = {} /\ spooled' = {}
  /\ spent' = NothingSpent /\ spentIn' = NothingSpentIn
  /\ UNCHANGED claims /\ BoundaryLeaves

----------------------------------------------------------------------------
\* The process dies and starts again: the slot, the flags, the test and the
\* aggregator are gone; the state file and the spool stay.
Crash ==
  /\ Outcome(FALSE)
  /\ slot' = {} /\ uploading' = FALSE /\ job' = Idle /\ memory' = {}
  /\ UNCHANGED <<now, enrollment, issued, handled, ledger, spooled, history>>

Tick ==
  /\ now < MaxTime
  /\ now' = now + 1
  /\ UNCHANGED <<enrollment, requests, uploading, job, ledger, records, history, faults>>

Next ==
  \/ Tick \/ Crash \/ StartUpload 
  \/ \E n \in Nonces : Issue(n)
  \/ \E answer \in {{}} \union {{r} : r \in issued} : UploadAnswered(answer)
  \/ \E r \in slot :
       \/ \E ok \in BOOLEAN : TickRefuse(r, ok) \/ TickReplay(r, ok)
       \/ \E gone \in Evictable :
            TickAccept(r, gone) \/ \E c \in BOOLEAN : TickAcceptFails(r, gone, c)
  \/ TickSchedule \/ ManualTest \/ ManualLocked \/ Checked
  \/ \E ok, c \in BOOLEAN : Reserve(ok, c) \/ Reconcile(ok, c)
  \/ \E bytes \in 0..Envelope, ok \in BOOLEAN : RunTest(bytes, ok)
  \/ \E ok \in BOOLEAN : PublishResult(ok) \/ \E r \in job.req : ResolveJob(r, ok)
  \/ Connect \/ \E m \in {"standalone", "connected"} : SetMode(m)
  \/ \E done \in BOOLEAN : Disconnect(done)

Spec == Init /\ [][Next]_vars

----------------------------------------------------------------------------
(* Correctness. *)

\* "durable replay protection" (docs/architecture.md): over crashes, restarts,
\* failed writes and any number of deliveries a nonce starts one test, unless 32
\* younger requests have pushed it out of the table.  A disconnect and a new
\* enrollment empty the table; then only the signature, which is made with the
\* secret of one enrollment, keeps an old request from a second test.
RunOncePerNonce == \A n \in Nonces : runs[n] > 1 => n \in evicted

\* "Instead of silently forgetting bytes": whatever fails and whenever the process
\* dies, the ledger holds at least what the runner counted in its day and month
\* since the last disconnect.  (A disconnect or revocation does forget it.)
LedgerCoversSpend ==
  ledger.daily >= spent[ledger.day] /\ ledger.monthly >= spentIn[ledger.month]

\* Between two disconnects no scheduled test takes a day or a month over its
\* budget, also when tests started by hand have overdrawn it or crashed tests left
\* their reservation.  (After a disconnect the whole budget is there again.)
ScheduledWithinBudget ==
  job.trigger = "scheduled" /\ job.stage = "ran" /\ job.used > 0 =>
    spent[Day(job.at)] <= DailyLimit /\ spentIn[Month(job.at)] <= MonthlyLimit

\* ClearSpeedTestRequests: "a request authenticated under a previous enrollment
\* must never survive a disconnect, revocation, or local-only mode": neither in the
\* slot, once the cleanup is complete, nor in a running test.
DirectivesOfThisEnrollment ==
  \A r \in job.req \union (IF purging THEN {} ELSE slot) : r.claim = claim /\ mode = "connected"

\* An acceptance names a measurement: it is never durable before its result is.
AcceptedHasResult ==
  \A v \in spooled : v.what = "accepted" => [v EXCEPT !.what = "result"] \in spooled
=============================================================================
