-------------------------- MODULE SpeedTestsProofs --------------------------
(***************************************************************************)
(* Speed tests, for any nonces, table size, budgets and calendar: one run  *)
(* per nonce, no directive of another enrollment, no acceptance without    *)
(* its result, a ledger that covers what was spent since the last          *)
(* disconnect and scheduled tests that stay in the budget.                 *)
(*                                                                         *)
(* Each invariant rests on the types (that of the nonces on the directives *)
(* too) and says what the test under way still owes.                       *)
(***************************************************************************)
EXTENDS SpeedTests, FiniteSetTheorems, TLAPS

----------------------------------------------------------------------------
(* The inductive invariants. *)

\* The table is finite, which its bound is about.
Types == TypeOK /\ IsFiniteSet(handled)

\* A nonce that was run and not evicted was run once, and its only request can run
\* no more: it has expired, is in the table until it does, or was signed for another
\* enrollment, whose number does not come again.
Spent(r) ==
  \/ r.expires <= now
  \/ [nonce |-> r.nonce, expires |-> r.expires] \in handled
  \/ r.claim # claim
RunRemembered ==
  /\ claim <= claims /\ \A r \in issued : r.claim <= claims
  /\ \A r, q \in issued : r.nonce = q.nonce => r = q
  /\ \A n \in Nonces : runs[n] > 0 /\ n \notin evicted =>
       runs[n] = 1 /\ \E r \in issued : r.nonce = n /\ Spent(r)

\* A controller's test is past its admission, so that it holds the lock which keeps
\* the enrollment.
DirectivesHeld ==
  /\ job.stage \in {"idle", "admitted"} => job.req = {}
  /\ DirectivesOfThisEnrollment

\* A verdict waits in memory or is durable only after its result, and so is the one
\* that the test under way is about to give.
ResultOf(n) == [what |-> "result", nonce |-> n, run |-> runs[n]]
ResultsFirst ==
  /\ AcceptedHasResult
  /\ \A v \in memory : v.what = "accepted" => [v EXCEPT !.what = "result"] \in memory \union spooled
  /\ job.stage = "resolve" /\ job.ok => \A r \in job.req : ResultOf(r.nonce) \in memory \union spooled

\* What a test may still transfer, or has not transferred and was not refunded.
Owed(j) == CASE j.stage = "running" -> j.reserved
             [] j.stage = "ran" -> j.reserved - j.used
             [] OTHER -> 0

\* The ledger's day and month are not ahead of the test's, they are the test's from
\* its reservation on, and nothing was transferred after them.
LedgerDated ==
  /\ job.at <= now
  /\ ledger.day <= Day(now) /\ ledger.month <= Month(now)
  /\ job.stage # "idle" => ledger.day <= Day(job.at) /\ ledger.month <= Month(job.at)
  /\ job.stage \in {"running", "ran"} => ledger.day = Day(job.at) /\ ledger.month = Month(job.at)
  /\ \A d \in Days : d > ledger.day => spent[d] = 0
  /\ \A m \in Months : m > ledger.month => spentIn[m] = 0

LedgerCovers ==
  /\ job.stage = "ran" => job.used <= job.reserved
  /\ ledger.daily >= spent[ledger.day] + Owed(job)
  /\ ledger.monthly >= spentIn[ledger.month] + Owed(job)

\* A scheduled test that may transfer anything was reserved within the budget.
ReservedWithinBudget ==
  job.trigger = "scheduled" /\ job.stage \in {"running", "ran"} /\ job.reserved > 0 =>
    ledger.daily <= DailyLimit /\ ledger.monthly <= MonthlyLimit

LedgerInv == LedgerDated /\ LedgerCovers /\ ReservedWithinBudget

----------------------------------------------------------------------------
(* The calendar and the smaller of two amounts. *)

LEMMA DivMonotone ==
  ASSUME NEW k \in Nat \ {0}, NEW a \in Nat, NEW b \in Nat, a <= b
  PROVE  a \div k \in Nat /\ b \div k \in Nat /\ a \div k <= b \div k
<1>1. a \div k \in Nat /\ b \div k \in Nat
  OBVIOUS
<1> DEFINE p == a \div k
           q == b \div k
<1>2. a = k * p + (a % k) /\ b = k * q + (b % k) /\ a % k \in 0..(k - 1) /\ b % k \in 0..(k - 1)
  OBVIOUS
<1>3. p \in Nat /\ q \in Nat
  BY <1>1
<1> HIDE DEF p, q
<1>4. ASSUME q + 1 <= p PROVE FALSE
  <2>1. k * (q + 1) <= k * p
    BY <1>3, <1>4
  <2>2. k * (q + 1) = k * q + k
    BY <1>3
  <2>3. k * p \in Nat /\ k * q \in Nat
    BY <1>3
  <2> QED
    BY <1>2, <2>1, <2>2, <2>3
<1>5. p <= q
  BY <1>3, <1>4
<1> QED
  BY <1>1, <1>5 DEF p, q

LEMMA Calendar ==
  ASSUME NEW t \in Times
  PROVE  /\ Day(t) \in Nat /\ Month(t) \in Nat /\ Day(t) \in Days /\ Month(t) \in Months
         /\ \A u \in Times : t <= u => Day(t) <= Day(u) /\ Month(t) <= Month(u)
<1>1. TicksPerDay \in Nat \ {0} /\ DaysPerMonth \in Nat \ {0} /\ Times \subseteq Nat
  BY SpeedAssumption DEF Times
<1>2. \A u \in Times : Day(u) \in Nat /\ Month(u) \in Nat
  BY <1>1 DEF Day, Month
<1>3. ASSUME NEW u \in Times, t <= u PROVE Day(t) <= Day(u)
  BY <1>1, <1>3, DivMonotone DEF Day
<1>4. ASSUME NEW u \in Times, t <= u PROVE Month(t) <= Month(u)
  BY <1>1, <1>2, <1>3, <1>4, DivMonotone DEF Month
<1> QED
  BY <1>2, <1>3, <1>4 DEF Days, Months

LEMMA DaysNat == Days \subseteq Nat /\ Months \subseteq Nat
  BY Calendar DEF Days, Months

LEMMA MaxMin ==
  ASSUME NEW a \in Int, NEW b \in Int
  PROVE  /\ Max({a, b}) = IF a >= b THEN a ELSE b
         /\ Min({a, b}) = IF a <= b THEN a ELSE b
<1>1. \E x \in {a, b} : \A y \in {a, b} : x >= y
  OBVIOUS
<1>2. \E x \in {a, b} : \A y \in {a, b} : x <= y
  OBVIOUS
<1>3. Max({a, b}) \in {a, b} /\ \A y \in {a, b} : Max({a, b}) >= y
  BY <1>1 DEF Max
<1>4. Min({a, b}) \in {a, b} /\ \A y \in {a, b} : Min({a, b}) <= y
  BY <1>2 DEF Min
<1> QED
  BY <1>3, <1>4

----------------------------------------------------------------------------
(* Types: what the ledger's operators return, and the bound of the table. *)

JobType == [stage : Stages, trigger : Triggers, req : SUBSET Requests, at : Times,
            reserved : 0..Envelope, used : 0..Envelope, ok : BOOLEAN]
LedgerType == [day : Days, daily : Nat, month : Months, monthly : Nat]

LEMMA IdleType == Idle \in JobType
  BY SpeedAssumption DEF Idle, JobType, Stages, Triggers, Times

LEMMA Budgets ==
  ASSUME ledger \in LedgerType, NEW t \in Times
  PROVE  /\ DailyLeft(t) \in Nat /\ MonthlyLeft(t) \in Nat
         /\ Remaining(t) \in Nat /\ Remaining(t) <= DailyLeft(t) /\ Remaining(t) <= MonthlyLeft(t)
         /\ DailyLeft(t) > 0 /\ ledger.day = Day(t) => DailyLeft(t) = DailyLimit - ledger.daily
         /\ MonthlyLeft(t) > 0 /\ ledger.month = Month(t) => MonthlyLeft(t) = MonthlyLimit - ledger.monthly
         /\ DailyLeft(t) <= DailyLimit /\ MonthlyLeft(t) <= MonthlyLimit
<1>1. DailyLimit \in Nat /\ MonthlyLimit \in Nat /\ ledger.daily \in Nat /\ ledger.monthly \in Nat
  BY SpeedAssumption DEF LedgerType
<1>2. ASSUME NEW limit \in Nat, NEW charged \in Nat, NEW current
      PROVE  /\ Left(limit, current, charged) \in Nat
             /\ Left(limit, current, charged) > 0 /\ current => Left(limit, current, charged) = limit - charged
             /\ Left(limit, current, charged) <= limit
  <2>1. Max({limit - charged, 0}) = IF limit - charged >= 0 THEN limit - charged ELSE 0
    BY MaxMin
  <2> QED
    BY <2>1 DEF Left
<1>3. DailyLeft(t) \in Nat /\ MonthlyLeft(t) \in Nat
  BY <1>1, <1>2 DEF DailyLeft, MonthlyLeft
<1>4. Remaining(t) = IF DailyLeft(t) <= MonthlyLeft(t) THEN DailyLeft(t) ELSE MonthlyLeft(t)
  BY <1>3, MaxMin DEF Remaining
<1>5. /\ DailyLeft(t) > 0 /\ ledger.day = Day(t) => DailyLeft(t) = DailyLimit - ledger.daily
      /\ DailyLeft(t) <= DailyLimit
  BY <1>1, <1>2 DEF DailyLeft
<1>6. /\ MonthlyLeft(t) > 0 /\ ledger.month = Month(t) => MonthlyLeft(t) = MonthlyLimit - ledger.monthly
      /\ MonthlyLeft(t) <= MonthlyLimit
  BY <1>1, <1>2 DEF MonthlyLeft
<1> QED
  BY <1>3, <1>4, <1>5, <1>6

LEMMA ReservationType ==
  ASSUME ledger \in LedgerType, job \in JobType
  PROVE  Reservation \in 0..Envelope /\ (job.trigger = "scheduled" => Reservation <= Remaining(job.at))
<1>1. Envelope \in Nat /\ job.at \in Times
  BY SpeedAssumption DEF JobType
<1>2. Remaining(job.at) \in Nat
  BY <1>1, Budgets
<1>3. Min({Envelope, Remaining(job.at)}) = IF Envelope <= Remaining(job.at) THEN Envelope ELSE Remaining(job.at)
  BY <1>1, <1>2, MaxMin
<1> QED
  BY <1>1, <1>2, <1>3 DEF Reservation, Override

\* A refund never takes more than there is, and exactly the rest of the reservation
\* from a period that holds it.
LEMMA ReconciledType ==
  ASSUME ledger \in LedgerType, NEW t \in Times, NEW reserved \in Nat, NEW used \in Nat
  PROVE  LET new == Reconciled(t, reserved, used)
         IN  /\ new \in LedgerType /\ new.day = ledger.day /\ new.month = ledger.month
             /\ new.daily <= ledger.daily /\ new.monthly <= ledger.monthly
             /\ used <= reserved => /\ new.daily >= ledger.daily - (reserved - used)
                                    /\ new.monthly >= ledger.monthly - (reserved - used)
<1> DEFINE refund == reserved - Min({used, reserved})
<1>1. refund \in Nat /\ (used <= reserved => refund = reserved - used)
  <2>1. Min({used, reserved}) = IF used <= reserved THEN used ELSE reserved
    BY MaxMin
  <2> QED
    BY <2>1
<1> HIDE DEF refund
<1>2. ASSUME NEW x \in Nat
      PROVE  x - Min({refund, x}) \in Nat /\ x - Min({refund, x}) <= x /\ x - Min({refund, x}) >= x - refund
  <2>1. refund \in Int /\ x \in Int
    BY <1>1
  <2>2. Min({refund, x}) = IF refund <= x THEN refund ELSE x
    BY <2>1, MaxMin
  <2> QED
    BY <1>1, <2>2
<1>3. ledger.daily \in Nat /\ ledger.monthly \in Nat
  BY DEF LedgerType
<1> DEFINE daily == IF ledger.day = Day(t) THEN ledger.daily - Min({refund, ledger.daily}) ELSE ledger.daily
           monthly == IF ledger.month = Month(t) THEN ledger.monthly - Min({refund, ledger.monthly}) ELSE ledger.monthly
<1>4. Reconciled(t, reserved, used) = [ledger EXCEPT !.daily = daily, !.monthly = monthly]
  BY DEF Reconciled, refund
<1>5. /\ daily \in Nat /\ daily <= ledger.daily /\ daily >= ledger.daily - refund
      /\ monthly \in Nat /\ monthly <= ledger.monthly /\ monthly >= ledger.monthly - refund
  BY <1>1, <1>2, <1>3
<1> HIDE DEF daily, monthly
<1> QED
  BY <1>1, <1>4, <1>5 DEF LedgerType

LEMMA ReservedType ==
  ASSUME ledger \in LedgerType, NEW t \in Times, NEW bytes \in Nat
  PROVE  Reserved(t, bytes) \in LedgerType
  BY Calendar DEF Reserved, LedgerType

\* The table of nonces stays finite and within its bound: an entry is only added
\* below it, or after an eviction.
LEMMA TableBounded ==
  ASSUME IsFiniteSet(handled), NEW gone \in Evictable, NEW entry,
         Cardinality(handled) <= TableSize
  PROVE  LET table == (Live \ gone) \union {entry}
         IN  IsFiniteSet(table) /\ Cardinality(table) <= TableSize
<1>1. IsFiniteSet(Live) /\ Cardinality(Live) \in Nat /\ Cardinality(Live) <= Cardinality(handled)
      /\ Cardinality(handled) \in Nat /\ TableSize \in Nat
  BY FS_Subset, FS_CardinalityType, SpeedAssumption DEF Live
<1>2. IsFiniteSet(Live \ gone) /\ Cardinality(Live \ gone) \in Nat /\ Cardinality(Live \ gone) < TableSize
  <2>1. CASE Cardinality(Live) < TableSize
    <3>1. gone = {}
      BY <2>1 DEF Evictable
    <3>2. Live \ gone = Live
      BY <3>1
    <3> QED
      BY <1>1, <2>1, <3>2
  <2>2. CASE ~(Cardinality(Live) < TableSize)
    <3>1. PICK h \in Live : gone = {h}
      BY <2>2 DEF Evictable
    <3>2. IsFiniteSet(Live \ {h}) /\ Cardinality(Live \ {h}) = Cardinality(Live) - 1
      BY <1>1, FS_RemoveElement
    <3>3. Cardinality(Live \ {h}) \in Nat
      BY <3>2, FS_CardinalityType
    <3> QED
      BY <1>1, <3>1, <3>2, <3>3
  <2> QED
    BY <2>1, <2>2
<1>3. entry \in Live \ gone => (Live \ gone) \union {entry} = Live \ gone
  OBVIOUS
<1>4. entry \notin Live \ gone => /\ IsFiniteSet((Live \ gone) \union {entry})
                                  /\ Cardinality((Live \ gone) \union {entry}) = Cardinality(Live \ gone) + 1
  BY <1>2, FS_AddElement
<1> QED
  BY <1>1, <1>2, <1>3, <1>4

LEMMA TypesInit == Init => Types
<1> SUFFICES ASSUME Init PROVE Types
  OBVIOUS
<1>1. 0 \in Times /\ 0 \in Days /\ 0 \in Months
  <2>1. 0 \in Times /\ Day(0) = 0 /\ Month(0) = 0
    BY SpeedAssumption DEF Times, Day, Month
  <2> QED
    BY <2>1 DEF Days, Months
<1>2. IsFiniteSet({}) /\ Cardinality({}) = 0
  BY FS_EmptySet
<1>3. job \in JobType
  BY IdleType DEF Init
<1>4. /\ MaxClaims \in Nat /\ MaxTests \in Nat /\ MaxFaults \in Nat /\ TableSize \in Nat
  BY SpeedAssumption
<1>5. ledger \in LedgerType /\ Cardinality(slot) <= 1 /\ Cardinality(handled) <= TableSize /\ IsFiniteSet(handled)
  BY <1>1, <1>2, <1>4 DEF Init, NoLedger, LedgerType
<1>6. runs \in [Nonces -> Nat] /\ spent \in [Days -> Nat] /\ spentIn \in [Months -> Nat]
  BY DEF Init, NothingSpent, NothingSpentIn
<1>7. claim \in 0..MaxClaims /\ claims \in 0..MaxClaims /\ tests \in 0..MaxTests /\ faults \in 0..MaxFaults
  BY <1>4 DEF Init
<1>8. purging \in BOOLEAN /\ uploading \in BOOLEAN
  BY DEF Init
<1>9. /\ issued \subseteq Requests /\ slot \subseteq issued /\ handled \subseteq [nonce : Nonces, expires : Nat]
      /\ memory \subseteq Records /\ spooled \subseteq Records /\ evicted \subseteq Nonces
      /\ mode \in {"standalone", "connected"} /\ now \in Times
  BY <1>1 DEF Init
<1> QED
  BY <1>3, <1>5, <1>6, <1>7, <1>8, <1>9 DEF Types, TypeOK, JobType, LedgerType

\* The types of the test under way, over the steps that change it.
LEMMA JobTypeStep ==
  ASSUME TypeOK, [Next]_vars
  PROVE  job' \in JobType
<1> USE DEF JobType
<1>0. job \in JobType /\ now \in Times /\ slot \subseteq Requests /\ ledger \in LedgerType
  BY DEF TypeOK, LedgerType
<1>1. ASSUME NEW trigger \in Triggers, NEW req \in SUBSET Requests, Start(trigger, req) PROVE job' \in JobType
  BY <1>0, <1>1, IdleType DEF Start, Stages
<1>2. EndFailed => job' \in JobType
  BY <1>0, IdleType DEF EndFailed, Stages
<1>3. CASE UNCHANGED job
  BY <1>0, <1>3
<1>4. CASE Crash
  BY <1>4, IdleType DEF Crash
<1>5. ASSUME NEW r \in slot, NEW gone, TickAccept(r, gone) PROVE job' \in JobType
  BY <1>0, <1>1, <1>5 DEF TickAccept, Triggers
<1>6. CASE TickSchedule \/ ManualTest
  BY <1>1, <1>6 DEF TickSchedule, ManualTest, Triggers
<1>7. CASE ManualLocked \/ Checked
  BY <1>0, <1>2, <1>7 DEF ManualLocked, Checked, Stages
<1>8. ASSUME NEW ok \in BOOLEAN, NEW c \in BOOLEAN, Reserve(ok, c) \/ Reconcile(ok, c) PROVE job' \in JobType
  BY <1>0, <1>2, <1>8, ReservationType DEF Reserve, Reconcile, Stages
<1>9. ASSUME NEW bytes \in 0..Envelope, NEW ok \in BOOLEAN, RunTest(bytes, ok) PROVE job' \in JobType
  BY <1>0, <1>9 DEF RunTest, Stages
<1>10. ASSUME NEW ok \in BOOLEAN, PublishResult(ok) \/ \E r \in job.req : ResolveJob(r, ok) PROVE job' \in JobType
  BY <1>0, <1>10, IdleType DEF PublishResult, ResolveJob, Stages
<1>11. ASSUME \/ Tick \/ StartUpload \/ Connect
              \/ \E n \in Nonces : Issue(n)
              \/ \E answer \in {{}} \union {{r} : r \in issued} : UploadAnswered(answer)
              \/ \E r \in slot : \/ \E ok \in BOOLEAN : TickRefuse(r, ok) \/ TickReplay(r, ok)
                                 \/ \E gone \in Evictable : \E c \in BOOLEAN : TickAcceptFails(r, gone, c)
              \/ \E m \in {"standalone", "connected"} : SetMode(m)
              \/ \E done \in BOOLEAN : Disconnect(done)
       PROVE  UNCHANGED job
  BY <1>11 DEF Tick, StartUpload, Connect, Issue, UploadAnswered, TickRefuse, TickReplay, TickAcceptFails,
     SetMode, Disconnect, BoundaryLeaves
<1> QED
  BY <1>3, <1>4, <1>5, <1>6, <1>7, <1>8, <1>9, <1>10, <1>11 DEF Next, vars

LEMMA TypesStep == Types /\ [Next]_vars => Types'
<1> SUFFICES ASSUME Types, [Next]_vars PROVE Types'
  OBVIOUS
<1> USE DEF LedgerType
<1>j. TypeOK /\ job \in JobType /\ job' \in JobType /\ ledger \in LedgerType
  BY JobTypeStep DEF Types, TypeOK, JobType
<1>n. /\ MaxClaims \in Nat /\ MaxTests \in Nat /\ MaxFaults \in Nat /\ MaxTime \in Nat /\ Window \in Nat
      /\ TableSize \in Nat /\ Envelope \in Nat
  BY SpeedAssumption
<1> DEFINE Scalars == /\ claim \in 0..MaxClaims /\ claims \in 0..MaxClaims /\ now \in Times
                      /\ purging \in BOOLEAN /\ uploading \in BOOLEAN
                      /\ mode \in {"standalone", "connected"}
                      /\ tests \in 0..MaxTests /\ faults \in 0..MaxFaults
           Sets == /\ issued \subseteq Requests /\ slot \subseteq issued /\ Cardinality(slot) <= 1
                   /\ handled \subseteq [nonce : Nonces, expires : Nat] /\ evicted \subseteq Nonces
                   /\ memory \subseteq Records /\ spooled \subseteq Records
           Table == IsFiniteSet(handled) /\ Cardinality(handled) <= TableSize
           Sums == /\ ledger \in LedgerType /\ runs \in [Nonces -> Nat]
                   /\ spent \in [Days -> Nat] /\ spentIn \in [Months -> Nat]
<1>0. Scalars /\ Sets /\ Table /\ Sums
  BY <1>j DEF Types, TypeOK
<1> SUFFICES Scalars' /\ Sets' /\ Table' /\ Sums'
  BY <1>j DEF Types, TypeOK, JobType
<1>e. Cardinality({}) = 0 /\ \A r : Cardinality({r}) = 1
  BY FS_EmptySet, FS_Singleton
<1>o. ASSUME NEW ok \in BOOLEAN, Outcome(ok) PROVE faults' \in 0..MaxFaults
  BY <1>0, <1>n, <1>o DEF Outcome
<1>p. ASSUME NEW ok \in BOOLEAN, NEW new \in SUBSET Records, Publish(new, ok)
      PROVE  faults' \in 0..MaxFaults /\ memory' \subseteq Records /\ spooled' \subseteq Records
  BY <1>0, <1>o, <1>p DEF Publish
<1>r. ASSUME NEW r \in Requests, NEW what \in {"result", "accepted", "rejected"}
      PROVE  {[what |-> what, nonce |-> r.nonce, run |-> runs[r.nonce]]} \in SUBSET Records
  BY <1>0 DEF Requests, Records
<1>q. ASSUME NEW r \in slot, NEW ok \in BOOLEAN, Resolve(r, "rejected", ok)
      PROVE  faults' \in 0..MaxFaults /\ memory' \subseteq Records /\ spooled' \subseteq Records
  BY <1>0, <1>p, <1>q, <1>r DEF Resolve
<1>t. ASSUME NEW r \in slot
      PROVE  /\ r.nonce \in Nonces /\ [nonce |-> r.nonce, expires |-> r.expires] \in [nonce : Nonces, expires : Nat]
             /\ [runs EXCEPT ![r.nonce] = @ + 1] \in [Nonces -> Nat]
             /\ Live \subseteq [nonce : Nonces, expires : Nat]
             /\ \A gone \in Evictable : {h.nonce : h \in gone} \subseteq Nonces
  <2>1. r.nonce \in Nonces /\ r.expires \in Nat
    BY <1>0 DEF Requests
  <2>2. Live \subseteq [nonce : Nonces, expires : Nat]
    BY <1>0 DEF Live
  <2>3. \A gone \in Evictable : gone \subseteq Live
    BY DEF Evictable
  <2> QED
    BY <1>0, <2>1, <2>2, <2>3
<1>a. /\ job.at \in Times /\ job.reserved \in Nat /\ job.used \in Nat /\ job.req \subseteq Requests
      /\ Day(job.at) \in Days /\ Month(job.at) \in Months
  BY <1>j, <1>n, Calendar DEF JobType
<1>u. Result \in SUBSET Records
  BY <1>a, <1>r DEF Result
<1>1. CASE UNCHANGED vars
  BY <1>0, <1>1 DEF vars, enrollment, requests, records, history
<1>2. CASE Tick \/ StartUpload
  <2>1. Scalars'
    <3>1. now' \in Times
      BY <1>0, <1>n, <1>2 DEF Tick, StartUpload, Times
    <3> QED
      BY <1>0, <1>2, <3>1 DEF Tick, StartUpload, enrollment, history
  <2>2. Sets'
    BY <1>0, <1>2 DEF Tick, StartUpload, enrollment, requests, records, history
  <2>3. Table'
    BY <1>0, <1>2 DEF Tick, StartUpload, enrollment, requests, records, history
  <2>4. Sums'
    BY <1>0, <1>2 DEF Tick, StartUpload, enrollment, requests, records, history
  <2> QED
    BY <2>1, <2>2, <2>3, <2>4
<1>3. CASE Crash
  <2>1. Scalars'
    BY <1>0, <1>o, <1>3 DEF Crash, enrollment, history
  <2>2. Sets'
    BY <1>0, <1>e, <1>3 DEF Crash, enrollment, history
  <2>3. Table'
    BY <1>0, <1>3 DEF Crash, enrollment, history
  <2>4. Sums'
    BY <1>0, <1>3 DEF Crash, enrollment, history
  <2> QED
    BY <2>1, <2>2, <2>3, <2>4
<1>4. ASSUME NEW n \in Nonces, Issue(n) PROVE Scalars' /\ Sets' /\ Table' /\ Sums'
  BY <1>0, <1>n, <1>4 DEF Issue, Requests, Times, enrollment, records, history
<1>5. ASSUME NEW answer \in {{}} \union {{r} : r \in issued}, UploadAnswered(answer)
      PROVE  Scalars' /\ Sets' /\ Table' /\ Sums'
  <2>1. Scalars'
    BY <1>0, <1>5 DEF UploadAnswered, enrollment, records, history
  <2>2. Sets'
    <3>1. answer \subseteq issued /\ Cardinality(answer) <= 1
      <4>1. answer = {} \/ \E r \in issued : answer = {r}
        OBVIOUS
      <4>2. Cardinality(answer) \in {0, 1}
        BY <1>e, <4>1
      <4> QED
        BY <4>1, <4>2
    <3>2. slot' \in {answer, slot} /\ UNCHANGED <<issued, handled, evicted, memory, spooled>>
      BY <1>5 DEF UploadAnswered, records, history
    <3> QED
      BY <1>0, <3>1, <3>2
  <2>3. Table'
    BY <1>0, <1>5 DEF UploadAnswered, enrollment, records, history
  <2>4. Sums'
    BY <1>0, <1>5 DEF UploadAnswered, enrollment, records, history
  <2> QED
    BY <2>1, <2>2, <2>3, <2>4
<1>6. ASSUME NEW r \in slot, NEW ok \in BOOLEAN, TickRefuse(r, ok) \/ TickReplay(r, ok)
      PROVE  Scalars' /\ Sets' /\ Table' /\ Sums'
  <2>1. Scalars'
    BY <1>0, <1>q, <1>6 DEF TickRefuse, TickReplay, enrollment, history
  <2>2. Sets'
    <3>1. slot' = {} /\ UNCHANGED <<issued, handled, evicted>>
      BY <1>6 DEF TickRefuse, TickReplay, history
    <3>2. memory' \subseteq Records /\ spooled' \subseteq Records
      BY <1>q, <1>6 DEF TickRefuse, TickReplay
    <3> QED
      BY <1>0, <1>e, <3>1, <3>2
  <2>3. Table'
    BY <1>0, <1>6 DEF TickRefuse, TickReplay, enrollment, history
  <2>4. Sums'
    BY <1>0, <1>6 DEF TickRefuse, TickReplay, enrollment, history
  <2> QED
    BY <2>1, <2>2, <2>3, <2>4
<1>7. ASSUME NEW r \in slot, NEW gone \in Evictable, TickAccept(r, gone)
      PROVE  Scalars' /\ Sets' /\ Table' /\ Sums'
  <2>1. Scalars'
    BY <1>0, <1>n, <1>7 DEF TickAccept, enrollment, records, Start
  <2>2. Sets'
    BY <1>0, <1>e, <1>t, <1>7 DEF TickAccept, enrollment, records
  <2>3. Table'
    BY <1>0, TableBounded, <1>7 DEF TickAccept, enrollment, records
  <2>4. Sums'
    BY <1>0, <1>t, <1>7 DEF TickAccept, enrollment, records
  <2> QED
    BY <2>1, <2>2, <2>3, <2>4
<1>8. ASSUME NEW r \in slot, NEW gone \in Evictable, NEW c \in BOOLEAN, TickAcceptFails(r, gone, c)
      PROVE  Scalars' /\ Sets' /\ Table' /\ Sums'
  <2>1. Scalars'
    BY <1>0, <1>o, <1>8 DEF TickAcceptFails, enrollment, records
  <2>2. Sets'
    BY <1>0, <1>e, <1>t, <1>8 DEF TickAcceptFails, enrollment, records
  <2>3. Table'
    BY <1>0, TableBounded, <1>8 DEF TickAcceptFails, enrollment, records
  <2>4. Sums'
    BY <1>0, <1>8 DEF TickAcceptFails, enrollment, records
  <2> QED
    BY <2>1, <2>2, <2>3, <2>4
<1>9. CASE TickSchedule \/ ManualTest
  <2>1. Scalars'
    <3>1. tests < MaxTests /\ tests' = tests + 1
      BY <1>9 DEF TickSchedule, ManualTest, Start
    <3>2. tests' \in 0..MaxTests
      BY <1>0, <1>n, <3>1
    <3> QED
      BY <1>0, <1>9, <3>2 DEF TickSchedule, ManualTest, enrollment
  <2>2. Sets'
    BY <1>0, <1>9 DEF TickSchedule, ManualTest, enrollment, requests, records
  <2>3. Table'
    BY <1>0, <1>9 DEF TickSchedule, ManualTest, enrollment, requests, records
  <2>4. Sums'
    BY <1>0, <1>9 DEF TickSchedule, ManualTest, enrollment, requests, records
  <2> QED
    BY <2>1, <2>2, <2>3, <2>4
<1>10. CASE ManualLocked \/ Checked
  <2>1. Scalars'
    BY <1>0, <1>10 DEF ManualLocked, Checked, JobLeaves, enrollment, requests, records, history
  <2>2. Sets'
    BY <1>0, <1>10 DEF ManualLocked, Checked, JobLeaves, enrollment, requests, records, history
  <2>3. Table'
    BY <1>0, <1>10 DEF ManualLocked, Checked, JobLeaves, enrollment, requests, records, history
  <2>4. Sums'
    BY <1>0, <1>10 DEF ManualLocked, Checked, JobLeaves, enrollment, requests, records, history
  <2> QED
    BY <2>1, <2>2, <2>3, <2>4
<1>11. ASSUME NEW ok \in BOOLEAN, NEW c \in BOOLEAN, Reserve(ok, c)
      PROVE  Scalars' /\ Sets' /\ Table' /\ Sums'
  <2>1. Scalars'
    BY <1>0, <1>o, <1>11 DEF Reserve, JobLeaves, enrollment, requests, records
  <2>2. Sets'
    BY <1>0, <1>11 DEF Reserve, JobLeaves, enrollment, requests, records
  <2>3. Table'
    BY <1>0, <1>11 DEF Reserve, JobLeaves, enrollment, requests, records
  <2>4. Sums'
    BY <1>0, <1>a, <1>j, ReservationType, ReservedType, <1>11 DEF Reserve, JobLeaves, enrollment, requests, records
  <2> QED
    BY <2>1, <2>2, <2>3, <2>4
<1>12. ASSUME NEW ok \in BOOLEAN, NEW c \in BOOLEAN, Reconcile(ok, c)
      PROVE  Scalars' /\ Sets' /\ Table' /\ Sums'
  <2>1. Scalars'
    BY <1>0, <1>o, <1>12 DEF Reconcile, JobLeaves, enrollment, requests, records
  <2>2. Sets'
    BY <1>0, <1>12 DEF Reconcile, JobLeaves, enrollment, requests, records
  <2>3. Table'
    BY <1>0, <1>12 DEF Reconcile, JobLeaves, enrollment, requests, records
  <2>4. Sums'
    BY <1>0, <1>a, <1>j, ReconciledType, <1>12 DEF Reconcile, JobLeaves, enrollment, requests, records
  <2> QED
    BY <2>1, <2>2, <2>3, <2>4
<1>13. ASSUME NEW bytes \in 0..Envelope, NEW ok \in BOOLEAN, RunTest(bytes, ok)
      PROVE  Scalars' /\ Sets' /\ Table' /\ Sums'
  <2>1. Scalars'
    BY <1>0, <1>13 DEF RunTest, JobLeaves, enrollment, requests, records
  <2>2. Sets'
    BY <1>0, <1>13 DEF RunTest, JobLeaves, enrollment, requests, records
  <2>3. Table'
    BY <1>0, <1>13 DEF RunTest, JobLeaves, enrollment, requests, records
  <2>4. Sums'
    BY <1>0, <1>a, <1>13 DEF RunTest, JobLeaves, enrollment, requests, records
  <2> QED
    BY <2>1, <2>2, <2>3, <2>4
<1>14. ASSUME NEW ok \in BOOLEAN, PublishResult(ok)
      PROVE  Scalars' /\ Sets' /\ Table' /\ Sums'
  <2>1. Scalars'
    BY <1>0, <1>p, <1>u, <1>14 DEF PublishResult, JobLeaves, enrollment, requests
  <2>2. Sets'
    BY <1>0, <1>p, <1>u, <1>14 DEF PublishResult, JobLeaves, enrollment, requests
  <2>3. Table'
    BY <1>0, <1>14 DEF PublishResult, JobLeaves, enrollment, requests
  <2>4. Sums'
    BY <1>0, <1>14 DEF PublishResult, JobLeaves, enrollment, requests
  <2> QED
    BY <2>1, <2>2, <2>3, <2>4
<1>15. ASSUME NEW ok \in BOOLEAN, NEW r \in job.req, ResolveJob(r, ok)
      PROVE  Scalars' /\ Sets' /\ Table' /\ Sums'
  <2>1. Scalars'
    BY <1>0, <1>p, <1>r, <1>a, <1>15 DEF ResolveJob, Resolve, JobLeaves, enrollment, requests
  <2>2. Sets'
    BY <1>0, <1>p, <1>r, <1>a, <1>15 DEF ResolveJob, Resolve, JobLeaves, enrollment, requests
  <2>3. Table'
    BY <1>0, <1>15 DEF ResolveJob, Resolve, JobLeaves, enrollment, requests
  <2>4. Sums'
    BY <1>0, <1>15 DEF ResolveJob, Resolve, JobLeaves, enrollment, requests
  <2> QED
    BY <2>1, <2>2, <2>3, <2>4
<1>f. IsFiniteSet({}) /\ NoLedger \in LedgerType /\ NothingSpent \in [Days -> Nat] /\ NothingSpentIn \in [Months -> Nat]
  <2>1. 0 \in Days /\ 0 \in Months
    <3>1. 0 \in Times /\ Day(0) = 0 /\ Month(0) = 0
      BY SpeedAssumption DEF Times, Day, Month
    <3> QED
      BY <3>1 DEF Days, Months
  <2> QED
    BY <2>1, FS_EmptySet DEF NoLedger, NothingSpent, NothingSpentIn
<1>16. CASE Connect \/ \E m \in {"standalone", "connected"} : SetMode(m)
  <2>1. Scalars'
    BY <1>0, <1>n, <1>16 DEF Connect, SetMode, BoundaryLeaves
  <2>2. Sets'
    <3>1. slot' = {} \/ slot' = slot
      BY <1>16 DEF Connect, SetMode
    <3>2. handled' = {} \/ handled' = handled
      BY <1>16 DEF Connect, SetMode
    <3>3. UNCHANGED <<issued, evicted, memory, spooled>>
      BY <1>16 DEF Connect, SetMode, BoundaryLeaves, records
    <3>4. Cardinality(slot') <= 1
      <4>1. CASE slot' = {}
        BY <1>e, <4>1
      <4>2. CASE slot' = slot
        BY <1>0, <4>2
      <4> QED
        BY <3>1, <4>1, <4>2
    <3> QED
      BY <1>0, <3>1, <3>2, <3>3, <3>4
  <2>3. Table'
    <3>1. handled' = {} \/ handled' = handled
      BY <1>16 DEF Connect, SetMode
    <3>2. CASE handled' = {}
      BY <1>n, <1>e, <1>f, <3>2
    <3>3. CASE handled' = handled
      BY <1>0, <3>3
    <3> QED
      BY <3>1, <3>2, <3>3
  <2>4. Sums'
    BY <1>0, <1>16 DEF Connect, SetMode, BoundaryLeaves
  <2> QED
    BY <2>1, <2>2, <2>3, <2>4
<1>17. ASSUME NEW done \in BOOLEAN, Disconnect(done) PROVE Scalars' /\ Sets' /\ Table' /\ Sums'
  <2>1. Scalars'
    BY <1>0, <1>n, <1>o, <1>17 DEF Disconnect, BoundaryLeaves
  <2>2. Sets'
    BY <1>0, <1>e, <1>17 DEF Disconnect, BoundaryLeaves
  <2>3. Table'
    BY <1>n, <1>e, <1>f, <1>17 DEF Disconnect
  <2>4. Sums'
    BY <1>0, <1>f, <1>17 DEF Disconnect, BoundaryLeaves
  <2> QED
    BY <2>1, <2>2, <2>3, <2>4
<1> QED
  BY <1>1, <1>2, <1>3, <1>4, <1>5, <1>6, <1>7, <1>8, <1>9, <1>10, <1>11, <1>12, <1>13, <1>14, <1>15,
     <1>16, <1>17 DEF Next

LEMMA TypesInvariant == Spec => []Types
  BY TypesInit, TypesStep, PTL DEF Spec

----------------------------------------------------------------------------
(* Directives and the enrollment. *)

LEMMA DirectivesStep ==
  ASSUME Types, DirectivesHeld, [Next]_vars
  PROVE  DirectivesHeld'
<1> USE DEF DirectivesHeld, DirectivesOfThisEnrollment
<1>0. job \in JobType /\ slot \subseteq Requests
  BY DEF Types, TypeOK, JobType
<1>i. Idle.req = {} /\ Idle.stage = "idle"
  BY DEF Idle
<1>1. ASSUME UNCHANGED <<claim, mode, purging>>, slot' \subseteq slot,
             job'.req \subseteq job.req, job'.stage \in {"idle", "admitted"} => job'.req = {}
      PROVE  DirectivesHeld'
  BY <1>1
<1>2. EndFailed => job'.req \subseteq job.req /\ (job'.stage \in {"idle", "admitted"} => job'.req = {})
  BY <1>0, <1>i DEF EndFailed, JobType
<1>3. ASSUME NEW trigger \in Triggers, NEW req, Start(trigger, req)
      PROVE  job'.req = req /\ (job'.stage \in {"idle", "admitted"} => trigger = "manual")
  BY <1>3 DEF Start, Idle
<1>4. CASE UNCHANGED vars
  BY <1>4 DEF vars, enrollment, requests
<1>5. CASE Tick \/ StartUpload \/ \E n \in Nonces : Issue(n)
  BY <1>5 DEF Tick, StartUpload, Issue, enrollment, requests
<1>6. CASE Crash
  BY <1>1, <1>6, <1>i DEF Crash, enrollment
<1>7. ASSUME NEW answer \in {{}} \union {{r} : r \in issued}, UploadAnswered(answer) PROVE DirectivesHeld'
  BY <1>7 DEF UploadAnswered, Verified, enrollment
<1>8. ASSUME NEW r \in slot, NEW ok \in BOOLEAN, TickRefuse(r, ok) \/ TickReplay(r, ok) PROVE DirectivesHeld'
  BY <1>8 DEF TickRefuse, TickReplay, enrollment
<1>9. ASSUME NEW r \in slot, NEW gone \in Evictable, TickAccept(r, gone) PROVE DirectivesHeld'
  BY <1>3, <1>9 DEF TickAccept, MayTick, Triggers, enrollment
<1>10. ASSUME NEW r \in slot, NEW gone \in Evictable, NEW c \in BOOLEAN, TickAcceptFails(r, gone, c)
       PROVE  DirectivesHeld'
  BY <1>10 DEF TickAcceptFails, enrollment
<1>11. CASE TickSchedule \/ ManualTest
  <2>1. Start("scheduled", {}) \/ Start("manual", {})
    BY <1>11 DEF TickSchedule, ManualTest
  <2>2. job'.req = {}
    BY <1>3, <2>1 DEF Triggers
  <2>3. UNCHANGED <<claim, mode, purging, slot>>
    BY <1>11 DEF TickSchedule, ManualTest, enrollment, requests
  <2> QED
    BY <1>1, <2>2, <2>3
<1>12. CASE ManualLocked \/ Checked
  BY <1>0, <1>1, <1>2, <1>12 DEF ManualLocked, Checked, JobLeaves, JobType, enrollment, requests
<1>13. ASSUME NEW ok \in BOOLEAN, NEW c \in BOOLEAN, Reserve(ok, c) \/ Reconcile(ok, c) PROVE DirectivesHeld'
  BY <1>0, <1>1, <1>2, <1>13 DEF Reserve, Reconcile, JobLeaves, JobType, enrollment, requests
<1>14. ASSUME NEW bytes \in 0..Envelope, NEW ok \in BOOLEAN, RunTest(bytes, ok) PROVE DirectivesHeld'
  BY <1>0, <1>1, <1>14 DEF RunTest, JobLeaves, JobType, enrollment, requests
<1>15. ASSUME NEW ok \in BOOLEAN, PublishResult(ok) \/ \E r \in job.req : ResolveJob(r, ok) PROVE DirectivesHeld'
  BY <1>0, <1>1, <1>i, <1>15 DEF PublishResult, ResolveJob, JobLeaves, JobType, enrollment, requests
<1>16. CASE Connect \/ \E m \in {"standalone", "connected"} : SetMode(m)
  BY <1>16 DEF Connect, SetMode, Unlocked, BoundaryLeaves
<1>17. ASSUME NEW done \in BOOLEAN, Disconnect(done) PROVE DirectivesHeld'
  BY <1>17 DEF Disconnect, Unlocked, BoundaryLeaves
<1> QED
  BY <1>4, <1>5, <1>6, <1>7, <1>8, <1>9, <1>10, <1>11, <1>12, <1>13, <1>14, <1>15, <1>16, <1>17 DEF Next

LEMMA DirectivesInvariant == Spec => []DirectivesHeld
<1>1. Init => DirectivesHeld
  BY DEF Init, Idle, DirectivesHeld, DirectivesOfThisEnrollment
<1>2. Types /\ DirectivesHeld /\ [Next]_vars => DirectivesHeld'
  BY DirectivesStep
<1> QED
  BY <1>1, <1>2, TypesInvariant, PTL DEF Spec

\* No request outlives the enrollment it was signed for, in the slot or in a running
\* test: whoever ends the enrollment waits for the test, and empties the slot or
\* leaves the purge to be finished before anything is taken from it.
THEOREM DirectivesStayInEnrollment == Spec => []DirectivesOfThisEnrollment
<1>1. DirectivesHeld => DirectivesOfThisEnrollment
  BY DEF DirectivesHeld
<1> QED
  BY <1>1, DirectivesInvariant, PTL

----------------------------------------------------------------------------
(* One run per nonce. *)

\* What an admission does to the table: entries that have not expired stay, or are
\* among the evicted ones.
LEMMA TableKeeps ==
  ASSUME NEW gone \in Evictable, NEW h \in handled, h.expires >= now
  PROVE  h \in Live \ gone \/ h.nonce \in {e.nonce : e \in gone}
  BY DEF Live

LEMMA RememberedStep ==
  ASSUME Types, DirectivesHeld, RunRemembered, [Next]_vars
  PROVE  RunRemembered'
<1>0. /\ issued \subseteq Requests /\ slot \subseteq issued /\ now \in Nat /\ now' \in Nat
      /\ runs \in [Nonces -> Nat] /\ \A h \in handled : h.expires \in Nat
  <2>1. now \in Times /\ now' \in Times
    BY TypesStep DEF Types, TypeOK
  <2> QED
    BY <2>1 DEF Types, TypeOK, Times
<1>r. \A r \in Requests : r.nonce \in Nonces /\ r.expires \in Nat /\ r.claim \in 1..MaxClaims
  BY DEF Requests
<1>m. claim \in Nat /\ claims \in Nat /\ claims' \in Nat
  BY TypesStep, SpeedAssumption DEF Types, TypeOK
<1> DEFINE Entry(r) == [nonce |-> r.nonce, expires |-> r.expires]
\* Steps in which a spent request stays spent
<1>1. ASSUME UNCHANGED <<issued, runs, evicted, claim, claims>>, \A r \in issued : Spent(r) => Spent(r)'
      PROVE  RunRemembered'
  BY <1>1 DEF RunRemembered
<1>u. ASSUME UNCHANGED <<issued, runs, evicted, claim, claims, handled>>, now' >= now PROVE RunRemembered'
  <2>1. \A r \in issued : Spent(r) => Spent(r)'
    BY <1>0, <1>r, <1>u DEF Spent
  <2> QED
    BY <1>1, <1>u, <2>1
<1>2. ASSUME NEW n \in Nonces, Issue(n) PROVE RunRemembered'
  <2> DEFINE new == [nonce |-> n, claim |-> claim, issued |-> now, expires |-> now + Window]
  <2>1. /\ issued' = issued \union {new} /\ UNCHANGED <<runs, evicted, claim, claims, handled, now>>
        /\ \A r \in issued : r.nonce # n
    BY <1>2 DEF Issue, history, enrollment
  <2>2. new.nonce = n /\ new.claim = claim
    OBVIOUS
  <2> HIDE DEF new
  <2>3. \A r \in issued : Spent(r) => Spent(r)'
    BY <2>1 DEF Spent
  <2>4. \A r, q \in issued' : r.nonce = q.nonce => r = q
    BY <2>1, <2>2 DEF RunRemembered
  <2>5. claim' <= claims' /\ \A r \in issued' : r.claim <= claims'
    BY <2>1, <2>2 DEF RunRemembered
  <2>6. \A k \in Nonces : runs'[k] > 0 /\ k \notin evicted' =>
          runs'[k] = 1 /\ \E r \in issued' : r.nonce = k /\ Spent(r)'
    BY <2>1, <2>3 DEF RunRemembered
  <2> QED
    BY <2>4, <2>5, <2>6 DEF RunRemembered
<1>3. ASSUME NEW r \in slot, NEW gone \in Evictable, UNCHANGED <<issued, now, claim, claims>>,
             handled' = (Live \ gone) \union {Entry(r)}, evicted' = evicted \union {h.nonce : h \in gone},
             ~Known(r.nonce), ~Refused(r, TRUE), MayTick,
             runs' = runs \/ runs' = [runs EXCEPT ![r.nonce] = @ + 1]
      PROVE  RunRemembered'
  <2>0. r \in issued /\ r.nonce \in Nonces /\ r.expires \in Nat /\ r.expires > now /\ r.claim = claim
    BY <1>0, <1>3, <1>r DEF Refused, Invalid, MayTick, DirectivesHeld, DirectivesOfThisEnrollment
  <2>1. ASSUME NEW n \in Nonces, runs'[n] > 0, n \notin evicted', runs[n] > 0
        PROVE  n # r.nonce /\ runs'[n] = 1 /\ \E q \in issued : q.nonce = n /\ Spent(q)'
    <3>1. PICK q \in issued : q.nonce = n /\ Spent(q)
      BY <1>3, <2>1 DEF RunRemembered
    <3>2. runs[n] = 1
      BY <1>3, <2>1 DEF RunRemembered
    <3>3. CASE q.expires <= now \/ q.claim # claim
      <4>1. q # r
        BY <1>0, <1>r, <2>0, <3>3
      <4>2. n # r.nonce
        BY <2>0, <3>1, <4>1 DEF RunRemembered
      <4>3. Spent(q)'
        BY <1>3, <3>3 DEF Spent
      <4> QED
        BY <1>0, <1>3, <2>0, <3>1, <3>2, <4>2, <4>3
    <3>4. CASE q.expires > now /\ Entry(q) \in handled
      <4> DEFINE h == Entry(q)
      <4>1. h \in handled /\ h.expires >= now /\ h.nonce = n
        BY <1>0, <1>r, <3>1, <3>4
      <4>2. h \in Live
        BY <4>1 DEF Live
      <4>3. n # r.nonce
        BY <1>3, <4>1, <4>2 DEF Known
      <4>4. h \in Live \ gone
        BY <1>3, <2>1, <4>1, TableKeeps
      <4>5. Spent(q)'
        BY <1>3, <4>4 DEF Spent
      <4> QED
        BY <1>0, <1>3, <2>0, <3>1, <3>2, <4>3, <4>5
    <3> QED
      BY <1>0, <1>r, <3>1, <3>3, <3>4 DEF Spent
  <2>2. ASSUME NEW n \in Nonces, runs'[n] > 0, n \notin evicted', ~(runs[n] > 0)
        PROVE  runs'[n] = 1 /\ \E q \in issued : q.nonce = n /\ Spent(q)'
    <3>1. n = r.nonce /\ runs'[n] = 1
      BY <1>0, <1>3, <2>0, <2>2
    <3>2. Spent(r)'
      BY <1>3 DEF Spent
    <3> QED
      BY <2>0, <3>1, <3>2
  <2> QED
    BY <1>3, <2>1, <2>2 DEF RunRemembered
<1>4. ASSUME NEW r \in slot, NEW gone \in Evictable, TickAccept(r, gone) PROVE RunRemembered'
  BY <1>3, <1>4 DEF TickAccept, enrollment
<1>5. ASSUME NEW r \in slot, NEW gone \in Evictable, NEW c \in BOOLEAN, TickAcceptFails(r, gone, c)
      PROVE  RunRemembered'
  <2>1. CASE c
    BY <1>3, <1>5, <2>1 DEF TickAcceptFails, enrollment
  <2>2. CASE ~c
    <3>1. UNCHANGED <<issued, runs, evicted, handled, now, claim, claims>>
      BY <1>5, <2>2 DEF TickAcceptFails, enrollment
    <3> QED
      BY <1>0, <1>u, <3>1
  <2> QED
    BY <2>1, <2>2
<1>6. CASE Tick
  BY <1>0, <1>u, <1>6 DEF Tick, requests, history, enrollment
\* The table is emptied with the enrollment whose requests it guards.
<1>7. CASE Connect
  <2>1. /\ claim = 0 /\ claims' = claims + 1 /\ claim' = claims + 1
        /\ UNCHANGED <<issued, runs, evicted>>
    BY <1>7 DEF Connect, BoundaryLeaves
  <2>2. \A r \in issued : r.claim \in Nat /\ r.claim <= claims
    BY <1>0, <1>r DEF RunRemembered
  <2>3. \A r \in issued : r.claim <= claims' /\ Spent(r)'
    BY <1>m, <2>1, <2>2 DEF Spent
  <2> QED
    BY <1>m, <2>1, <2>3 DEF RunRemembered
<1>8. ASSUME NEW done \in BOOLEAN, Disconnect(done) PROVE RunRemembered'
  <2>1. claim' = 0 /\ UNCHANGED <<issued, runs, evicted, claims>>
    BY <1>8 DEF Disconnect, BoundaryLeaves
  <2>2. \A r \in issued : Spent(r)'
    BY <1>0, <1>r, <2>1 DEF Spent
  <2> QED
    BY <1>m, <2>1, <2>2 DEF RunRemembered
<1>9. CASE \/ UNCHANGED vars \/ Crash \/ StartUpload \/ TickSchedule \/ ManualTest \/ ManualLocked \/ Checked
           \/ \E answer \in {{}} \union {{r} : r \in issued} : UploadAnswered(answer)
           \/ \E r \in slot : \E ok \in BOOLEAN : TickRefuse(r, ok) \/ TickReplay(r, ok)
           \/ \E ok, c \in BOOLEAN : Reserve(ok, c) \/ Reconcile(ok, c)
           \/ \E bytes \in 0..Envelope, ok \in BOOLEAN : RunTest(bytes, ok)
           \/ \E ok \in BOOLEAN : PublishResult(ok) \/ \E r \in job.req : ResolveJob(r, ok)
           \/ \E m \in {"standalone", "connected"} : SetMode(m)
  <2>1. UNCHANGED <<issued, runs, evicted, handled, now, claim, claims>>
    BY <1>9 DEF vars, Crash, StartUpload, TickSchedule, ManualTest, ManualLocked, Checked, UploadAnswered,
       TickRefuse, TickReplay, Reserve, Reconcile, RunTest, PublishResult, ResolveJob, SetMode,
       JobLeaves, BoundaryLeaves, requests, history, enrollment
  <2> QED
    BY <1>0, <1>u, <2>1
<1> QED
  BY <1>2, <1>4, <1>5, <1>6, <1>7, <1>8, <1>9 DEF Next

\* Replay protection: whatever crashes, fails or is delivered again, a nonce starts
\* one test, unless it was pushed out of a full table.  The durable table keeps it
\* while its enrollment lasts; over a disconnect, which empties the table, the
\* enrollment that the request is signed for does.
THEOREM OneRunPerNonce == Spec => []RunOncePerNonce
<1>1. Init => RunRemembered
  BY DEF Init, RunRemembered
<1>2. Types /\ DirectivesHeld /\ RunRemembered /\ [Next]_vars => RunRemembered'
  BY RememberedStep
<1>3. Types /\ RunRemembered => RunOncePerNonce
  BY DEF Types, TypeOK, RunRemembered, RunOncePerNonce
<1> QED
  BY <1>1, <1>2, <1>3, TypesInvariant, DirectivesInvariant, PTL DEF Spec

----------------------------------------------------------------------------
(* Verdicts and results. *)

\* A flush that moves everything or nothing keeps every verdict behind its result,
\* if the new records bring no acceptance without one.
LEMMA PublishKeeps ==
  ASSUME ResultsFirst, NEW ok \in BOOLEAN, NEW new, Publish(new, ok),
         \A v \in new : v.what = "accepted" => [v EXCEPT !.what = "result"] \in memory \union spooled
  PROVE  /\ AcceptedHasResult'
         /\ \A v \in memory' : v.what = "accepted" => [v EXCEPT !.what = "result"] \in memory' \union spooled'
         /\ memory \union spooled \union new = memory' \union spooled'
<1>1. CASE ok
  <2>1. memory' = {} /\ spooled' = spooled \union memory \union new
    BY <1>1 DEF Publish
  <2> QED
    BY <2>1 DEF ResultsFirst, AcceptedHasResult
<1>2. CASE ~ok
  <2>1. memory' = memory \union new /\ spooled' = spooled
    BY <1>2 DEF Publish
  <2> QED
    BY <2>1 DEF ResultsFirst, AcceptedHasResult
<1> QED
  BY <1>1, <1>2

LEMMA ResultsStep ==
  ASSUME Types, ResultsFirst, [Next]_vars
  PROVE  ResultsFirst'
<1>0. job \in JobType /\ runs \in [Nonces -> Nat] /\ slot \subseteq Requests /\ memory \subseteq Records
  BY DEF Types, TypeOK, JobType
<1>i. Idle.stage = "idle"
  BY DEF Idle
<1>1. ASSUME UNCHANGED <<memory, spooled, runs>>, job' = job \/ job'.stage # "resolve" \/ ~job'.ok
      PROVE  ResultsFirst'
  BY <1>1 DEF ResultsFirst, AcceptedHasResult, ResultOf
<1>2. EndFailed => job'.stage # "resolve" \/ ~job'.ok
  BY <1>0, <1>i DEF EndFailed, JobType
<1>3. ASSUME NEW trigger, NEW req, Start(trigger, req) PROVE job'.stage # "resolve"
  BY <1>3 DEF Start, Idle
<1>4. CASE UNCHANGED vars
  BY <1>1, <1>4 DEF vars, records, history
<1>5. CASE Tick \/ StartUpload \/ Connect \/ \E n \in Nonces : Issue(n)
  BY <1>1, <1>5 DEF Tick, StartUpload, Issue, Connect, BoundaryLeaves, records, history
<1>6. CASE Crash
  <2>1. memory' = {} /\ spooled' = spooled /\ job'.stage # "resolve"
    BY <1>6, <1>i DEF Crash
  <2> QED
    BY <2>1 DEF ResultsFirst, AcceptedHasResult
<1>7. CASE \/ \E answer \in {{}} \union {{r} : r \in issued} : UploadAnswered(answer)
           \/ \E r \in slot : \E gone \in Evictable : \E c \in BOOLEAN : TickAcceptFails(r, gone, c)
           \/ \E m \in {"standalone", "connected"} : SetMode(m)
  BY <1>1, <1>7 DEF UploadAnswered, TickAcceptFails, SetMode, BoundaryLeaves, records, history
<1>8. ASSUME NEW r \in slot, NEW ok \in BOOLEAN, TickRefuse(r, ok) \/ TickReplay(r, ok) PROVE ResultsFirst'
  <2>1. Resolve(r, "rejected", ok) /\ UNCHANGED <<job, runs>>
    BY <1>8 DEF TickRefuse, TickReplay, history
  <2> QED
    BY <2>1, PublishKeeps DEF Resolve, ResultsFirst, ResultOf
<1>9. ASSUME NEW r \in slot, NEW gone \in Evictable, TickAccept(r, gone) PROVE ResultsFirst'
  <2>1. UNCHANGED <<memory, spooled>> /\ job'.stage # "resolve"
    BY <1>3, <1>9 DEF TickAccept, records
  <2> QED
    BY <2>1 DEF ResultsFirst, AcceptedHasResult
<1>10. CASE TickSchedule \/ ManualTest
  BY <1>1, <1>3, <1>10 DEF TickSchedule, ManualTest, records
<1>11. CASE ManualLocked \/ Checked
  BY <1>0, <1>1, <1>2, <1>11 DEF ManualLocked, Checked, JobLeaves, JobType, records, history
<1>12. ASSUME NEW ok \in BOOLEAN, NEW c \in BOOLEAN, Reserve(ok, c) \/ Reconcile(ok, c) PROVE ResultsFirst'
  BY <1>0, <1>1, <1>2, <1>12 DEF Reserve, Reconcile, JobLeaves, JobType, records
<1>13. ASSUME NEW bytes \in 0..Envelope, NEW ok \in BOOLEAN, RunTest(bytes, ok) PROVE ResultsFirst'
  BY <1>0, <1>1, <1>13 DEF RunTest, JobLeaves, JobType, records
<1>14. ASSUME NEW ok \in BOOLEAN, PublishResult(ok) PROVE ResultsFirst'
  <2>1. Publish(Result, ok) /\ UNCHANGED runs
    BY <1>14 DEF PublishResult, JobLeaves
  <2>2. job' = Idle \/ job'.req = job.req
    BY <1>0, <1>14 DEF PublishResult, JobType
  <2>3. \A v \in Result : v.what # "accepted"
    BY DEF Result
  <2>4. \A r \in job.req : ResultOf(r.nonce) \in Result
    BY DEF Result, ResultOf
  <2>5. /\ AcceptedHasResult'
        /\ \A v \in memory' : v.what = "accepted" => [v EXCEPT !.what = "result"] \in memory' \union spooled'
        /\ memory \union spooled \union Result = memory' \union spooled'
    BY <2>1, <2>3, PublishKeeps
  <2>6. \A r \in job.req : ResultOf(r.nonce)' \in memory' \union spooled'
    BY <2>1, <2>4, <2>5 DEF ResultOf
  <2> QED
    BY <1>i, <2>2, <2>5, <2>6 DEF ResultsFirst, ResultOf
<1>15. ASSUME NEW ok \in BOOLEAN, NEW r \in job.req, ResolveJob(r, ok) PROVE ResultsFirst'
  <2>1. Resolve(r, IF job.ok THEN "accepted" ELSE "rejected", ok) /\ job' = Idle /\ job.stage = "resolve"
    BY <1>15 DEF ResolveJob
  <2> DEFINE v == [what |-> IF job.ok THEN "accepted" ELSE "rejected", nonce |-> r.nonce, run |-> runs[r.nonce]]
  <2>2. v.what = "accepted" => [v EXCEPT !.what = "result"] = ResultOf(r.nonce) /\ job.ok
    BY DEF ResultOf
  <2>3. v.what = "accepted" => [v EXCEPT !.what = "result"] \in memory \union spooled
    BY <2>1, <2>2 DEF ResultsFirst
  <2>4. Publish({v}, ok)
    BY <2>1 DEF Resolve
  <2> HIDE DEF v
  <2>5. /\ AcceptedHasResult'
        /\ \A x \in memory' : x.what = "accepted" => [x EXCEPT !.what = "result"] \in memory' \union spooled'
    BY <2>3, <2>4, PublishKeeps
  <2> QED
    BY <1>i, <2>1, <2>5 DEF ResultsFirst
<1>16. ASSUME NEW done \in BOOLEAN, Disconnect(done) PROVE ResultsFirst'
  <2>1. memory' = {} /\ spooled' = {} /\ job' = job /\ job.stage # "resolve"
    BY <1>16 DEF Disconnect, Unlocked, BoundaryLeaves
  <2> QED
    BY <2>1 DEF ResultsFirst, AcceptedHasResult
<1> QED
  BY <1>4, <1>5, <1>6, <1>7, <1>8, <1>9, <1>10, <1>11, <1>12, <1>13, <1>14, <1>15, <1>16 DEF Next

\* An acceptance is never durable before its result, over crashes, failed flushes
\* and enrollments that end in between.
THEOREM AcceptanceAfterResult == Spec => []AcceptedHasResult
<1>1. Init => ResultsFirst
  BY DEF Init, Idle, ResultsFirst, AcceptedHasResult
<1>2. Types /\ ResultsFirst /\ [Next]_vars => ResultsFirst'
  BY ResultsStep
<1>3. ResultsFirst => AcceptedHasResult
  BY DEF ResultsFirst
<1> QED
  BY <1>1, <1>2, <1>3, TypesInvariant, PTL DEF Spec

----------------------------------------------------------------------------
(* The ledger. *)

LEMMA OwedValue ==
  ASSUME NEW j \in JobType
  PROVE  /\ j.stage = "running" => Owed(j) = j.reserved
         /\ j.stage = "ran" => Owed(j) = j.reserved - j.used
         /\ j.stage \notin {"running", "ran"} => Owed(j) = 0
         /\ Owed(j) \in Int /\ ((j.stage = "ran" => j.used <= j.reserved) => Owed(j) >= 0)
<1>1. j.reserved \in Nat /\ j.used \in Nat
  BY SpeedAssumption DEF JobType
<1> QED
  BY <1>1 DEF Owed

\* A reservation rolls a ledger of an earlier day or month, of which nothing was
\* transferred since, and covers what was transferred and what is reserved.
LEMMA ReservedCovers ==
  ASSUME Types, LedgerInv, job.stage = "reserve"
  PROVE  LET new == Reserved(job.at, Reservation)
         IN  /\ new.day = Day(job.at) /\ new.month = Month(job.at)
             /\ new.daily >= spent[new.day] + Reservation
             /\ new.monthly >= spentIn[new.month] + Reservation
             /\ job.trigger = "scheduled" /\ Reservation > 0 =>
                  new.daily <= DailyLimit /\ new.monthly <= MonthlyLimit
<1> DEFINE t == job.at
           R == Reservation
           new == Reserved(t, R)
<1>0. /\ job \in JobType /\ ledger \in LedgerType /\ t \in Times
      /\ spent \in [Days -> Nat] /\ spentIn \in [Months -> Nat]
  BY DEF Types, TypeOK, JobType, LedgerType
<1>1. /\ ledger.daily \in Nat /\ ledger.monthly \in Nat /\ ledger.day \in Days /\ ledger.month \in Months
      /\ ledger.day \in Nat /\ ledger.month \in Nat
  BY <1>0, DaysNat DEF LedgerType
<1>2. Day(t) \in Days /\ Month(t) \in Months /\ Day(t) \in Nat /\ Month(t) \in Nat
  BY <1>0, Calendar
<1>3. R \in Nat /\ DailyLimit \in Nat /\ MonthlyLimit \in Nat
  BY <1>0, ReservationType, SpeedAssumption
<1>4. ledger.day <= Day(t) /\ ledger.month <= Month(t)
  BY DEF LedgerInv, LedgerDated
<1>5. Owed(job) = 0
  BY <1>0, OwedValue
<1>6. ledger.daily >= spent[ledger.day] /\ ledger.monthly >= spentIn[ledger.month]
  BY <1>0, <1>1, <1>5 DEF LedgerInv, LedgerCovers
<1>7. /\ ledger.day # Day(t) => spent[Day(t)] = 0
      /\ ledger.month # Month(t) => spentIn[Month(t)] = 0
  BY <1>1, <1>2, <1>4 DEF LedgerInv, LedgerDated
<1>8. /\ new.day = Day(t) /\ new.month = Month(t)
      /\ new.daily = R + (IF ledger.day = Day(t) THEN ledger.daily ELSE 0)
      /\ new.monthly = R + (IF ledger.month = Month(t) THEN ledger.monthly ELSE 0)
  BY DEF Reserved
<1>9. spent[Day(t)] \in Nat /\ spentIn[Month(t)] \in Nat
  BY <1>0, <1>2
<1>10. job.trigger = "scheduled" => R <= Remaining(t)
  BY <1>0, ReservationType
<1> HIDE DEF R, new, t
<1>11. new.daily >= spent[new.day] + R
  BY <1>1, <1>3, <1>6, <1>7, <1>8, <1>9
<1>12. new.monthly >= spentIn[new.month] + R
  BY <1>1, <1>3, <1>6, <1>7, <1>8, <1>9
<1>13. ASSUME job.trigger = "scheduled", R > 0 PROVE new.daily <= DailyLimit /\ new.monthly <= MonthlyLimit
  <2>1. /\ DailyLeft(t) \in Nat /\ MonthlyLeft(t) \in Nat /\ Remaining(t) \in Nat
        /\ Remaining(t) <= DailyLeft(t) /\ Remaining(t) <= MonthlyLeft(t)
    BY <1>0, Budgets
  <2>2. /\ DailyLeft(t) > 0 /\ ledger.day = Day(t) => DailyLeft(t) = DailyLimit - ledger.daily
        /\ MonthlyLeft(t) > 0 /\ ledger.month = Month(t) => MonthlyLeft(t) = MonthlyLimit - ledger.monthly
        /\ DailyLeft(t) <= DailyLimit /\ MonthlyLeft(t) <= MonthlyLimit
    BY <1>0, Budgets
  <2>3. R <= DailyLeft(t) /\ R <= MonthlyLeft(t)
    BY <1>3, <1>10, <1>13, <2>1
  <2> QED
    BY <1>1, <1>3, <1>8, <1>13, <2>1, <2>2, <2>3
<1> QED
  BY <1>8, <1>11, <1>12, <1>13 DEF R, new, t

LEMMA LedgerStep ==
  ASSUME Types, LedgerInv, [Next]_vars
  PROVE  LedgerInv'
<1>0. /\ job \in JobType /\ ledger \in LedgerType /\ now \in Times
      /\ spent \in [Days -> Nat] /\ spentIn \in [Months -> Nat]
  BY DEF Types, TypeOK, JobType, LedgerType
<1>p. /\ job' \in JobType /\ ledger' \in LedgerType /\ now' \in Times
  BY TypesStep DEF Types, TypeOK, JobType, LedgerType
<1>n. Times \subseteq Nat /\ job.at \in Times /\ job'.at \in Times
  BY <1>0, <1>p, SpeedAssumption DEF Times, JobType
<1>l. /\ ledger.daily \in Nat /\ ledger.monthly \in Nat /\ ledger.day \in Days /\ ledger.month \in Months
      /\ ledger.day \in Nat /\ ledger.month \in Nat
  BY <1>0, DaysNat DEF LedgerType
<1>s. spent[ledger.day] \in Nat /\ spentIn[ledger.month] \in Nat
  BY <1>0, <1>l
<1>i. Idle.stage = "idle" /\ Idle.at = 0
  BY DEF Idle
<1>o. Owed(job) \in Int /\ Owed(job) >= 0
  BY <1>0, OwedValue DEF LedgerInv, LedgerCovers
<1>d. /\ now <= now' => Day(now) <= Day(now') /\ Month(now) <= Month(now')
      /\ Day(now) \in Nat /\ Month(now) \in Nat /\ Day(now') \in Nat /\ Month(now') \in Nat
  BY <1>0, <1>p, Calendar
\* A step that neither charges nor transfers, and leaves the test as it was
<1>1. ASSUME UNCHANGED <<job, ledger, spent, spentIn>>, now <= now' PROVE LedgerInv'
  <2>0. job.at <= now /\ ledger.day <= Day(now) /\ ledger.month <= Month(now)
    BY DEF LedgerInv, LedgerDated
  <2>1. job'.at <= now' /\ ledger'.day <= Day(now') /\ ledger'.month <= Month(now')
    <3>1. now \in Nat /\ now' \in Nat /\ job.at \in Nat
      BY <1>0, <1>n, <1>p
    <3>2. job.at <= now'
      BY <1>1, <2>0, <3>1
    <3>3. ledger.day <= Day(now') /\ ledger.month <= Month(now')
      BY <1>1, <1>d, <1>l, <2>0
    <3> QED
      BY <1>1, <3>2, <3>3
  <2> QED
    BY <1>1, <2>1 DEF LedgerInv, LedgerDated, LedgerCovers, ReservedWithinBudget, Owed
\* or takes it to a stage in which it transfers nothing, having charged or refunded
\* no more than what it owed.
<1>2. ASSUME UNCHANGED <<now, spent, spentIn>>, job'.stage \notin {"running", "ran"},
             job'.stage = "idle" \/ job'.at = now \/ (job.stage # "idle" /\ job'.at = job.at),
             job'.at <= now,
             ledger'.day = ledger.day /\ ledger'.month = ledger.month,
             ledger'.daily >= spent[ledger.day] /\ ledger'.monthly >= spentIn[ledger.month]
      PROVE  LedgerInv'
  <2>1. Owed(job') = 0
    BY <1>2, <1>p, OwedValue
  <2>2. LedgerCovers'
    BY <1>2, <1>s, <2>1 DEF LedgerCovers
  <2>3. LedgerDated'
    BY <1>2 DEF LedgerInv, LedgerDated
  <2> QED
    BY <1>2, <2>2, <2>3 DEF LedgerInv, ReservedWithinBudget
<1>c. ledger.daily >= spent[ledger.day] /\ ledger.monthly >= spentIn[ledger.month]
  BY <1>l, <1>o, <1>s DEF LedgerInv, LedgerCovers
<1>3. ASSUME UNCHANGED <<now, ledger, spent, spentIn>>, job'.stage \notin {"running", "ran"},
             job'.stage = "idle" \/ job'.at = now \/ (job.stage # "idle" /\ job'.at = job.at),
             job'.at <= now
      PROVE  LedgerInv'
  BY <1>2, <1>3, <1>c
<1>e. ASSUME EndFailed, job.stage # "idle"
      PROVE  /\ job'.stage \notin {"running", "ran"} /\ job'.at <= now
             /\ job'.stage = "idle" \/ (job.stage # "idle" /\ job'.at = job.at)
  <2>1. job.at <= now /\ 0 <= now
    BY <1>0, <1>n DEF LedgerInv, LedgerDated
  <2> QED
    BY <1>0, <1>e, <1>i, <2>1 DEF EndFailed, JobType
<1>t. ASSUME NEW trigger, NEW req, Start(trigger, req)
      PROVE  job'.stage \notin {"running", "ran"} /\ job'.at = now
  BY <1>t DEF Start, Idle
<1>z. now <= now /\ 0 <= now /\ job.at <= now
  BY <1>0, <1>n DEF LedgerInv, LedgerDated
<1>4. CASE UNCHANGED vars
  BY <1>1, <1>4, <1>z DEF vars, history
<1>5. CASE Tick
  <2>1. now <= now' /\ UNCHANGED <<job, ledger, spent, spentIn>>
    BY <1>0, <1>n, <1>5 DEF Tick, history
  <2> QED
    BY <1>1, <2>1
<1>6. CASE \/ StartUpload \/ Connect \/ \E n \in Nonces : Issue(n)
           \/ \E answer \in {{}} \union {{r} : r \in issued} : UploadAnswered(answer)
           \/ \E r \in slot : \/ \E ok \in BOOLEAN : TickRefuse(r, ok) \/ TickReplay(r, ok)
                              \/ \E gone \in Evictable : \E c \in BOOLEAN : TickAcceptFails(r, gone, c)
           \/ \E m \in {"standalone", "connected"} : SetMode(m)
  <2>1. UNCHANGED <<job, ledger, spent, spentIn, now>>
    BY <1>6 DEF StartUpload, Connect, Issue, UploadAnswered, TickRefuse, TickReplay, TickAcceptFails,
       SetMode, BoundaryLeaves, history
  <2> QED
    BY <1>1, <1>z, <2>1
<1>7. CASE Crash
  <2>1. UNCHANGED <<now, ledger, spent, spentIn>> /\ job' = Idle
    BY <1>7 DEF Crash, history
  <2> QED
    BY <1>3, <1>i, <1>z, <2>1
<1>8. ASSUME NEW r \in slot, NEW gone \in Evictable, TickAccept(r, gone) PROVE LedgerInv'
  <2>1. UNCHANGED <<now, ledger, spent, spentIn>> /\ job'.stage \notin {"running", "ran"} /\ job'.at = now
    BY <1>8, <1>t DEF TickAccept
  <2> QED
    BY <1>3, <1>z, <2>1
<1>9. CASE TickSchedule \/ ManualTest
  <2>1. UNCHANGED <<now, ledger, spent, spentIn>> /\ job'.stage \notin {"running", "ran"} /\ job'.at = now
    BY <1>9, <1>t DEF TickSchedule, ManualTest
  <2> QED
    BY <1>3, <1>z, <2>1
<1>10. CASE ManualLocked
  <2>1. UNCHANGED <<now, ledger, spent, spentIn>> /\ job'.stage = "check" /\ job'.at = now
    BY <1>0, <1>10 DEF ManualLocked, JobType, history
  <2> QED
    BY <1>3, <1>z, <2>1
<1>11. CASE Checked
  <2>1. UNCHANGED <<now, ledger, spent, spentIn>> /\ job.stage = "check"
    BY <1>11 DEF Checked, JobLeaves
  <2>2. CASE job' = [job EXCEPT !.stage = "reserve"]
    BY <1>0, <1>3, <1>z, <2>1, <2>2 DEF JobType
  <2>3. CASE EndFailed
    BY <1>3, <1>e, <2>1, <2>3
  <2> QED
    BY <1>11, <2>2, <2>3 DEF Checked
<1>12. ASSUME NEW ok \in BOOLEAN, NEW c \in BOOLEAN, Reserve(ok, c) PROVE LedgerInv'
  <2>1. UNCHANGED <<now, spent, spentIn>> /\ job.stage = "reserve"
    BY <1>12 DEF Reserve, JobLeaves
  <2>2. CASE ~c
    <3>1. UNCHANGED ledger /\ EndFailed
      BY <1>12, <2>2 DEF Reserve
    <3> QED
      BY <1>3, <1>e, <2>1, <3>1
  <2>3. CASE c
    <3>1. ledger' = Reserved(job.at, Reservation)
      BY <1>12, <2>3 DEF Reserve
    <3>2. /\ ledger'.day = Day(job.at) /\ ledger'.month = Month(job.at)
          /\ ledger'.daily >= spent[ledger'.day] + Reservation
          /\ ledger'.monthly >= spentIn[ledger'.month] + Reservation
          /\ job.trigger = "scheduled" /\ Reservation > 0 =>
               ledger'.daily <= DailyLimit /\ ledger'.monthly <= MonthlyLimit
      BY <2>1, <3>1, ReservedCovers
    <3>3. Reservation \in Nat
      BY <1>0, ReservationType, SpeedAssumption
    <3>4. ledger'.day \in Days /\ ledger'.month \in Months /\ ledger'.day \in Nat /\ ledger'.month \in Nat
          /\ ledger'.daily \in Nat /\ ledger'.monthly \in Nat
      BY <1>p, DaysNat DEF LedgerType
    <3>5. ledger.day <= ledger'.day /\ ledger.month <= ledger'.month
      BY <2>1, <3>2 DEF LedgerInv, LedgerDated
    <3>6. spent[ledger'.day] \in Nat /\ spentIn[ledger'.month] \in Nat
      BY <1>0, <3>4
    <3>7. Day(job.at) <= Day(now) /\ Month(job.at) <= Month(now)
      BY <1>0, <1>n, <1>z, Calendar
    <3>8. \A d \in Days : d > ledger'.day => spent[d] = 0
      BY <1>l, <3>4, <3>5, DaysNat DEF LedgerInv, LedgerDated
    <3>9. \A m \in Months : m > ledger'.month => spentIn[m] = 0
      BY <1>l, <3>4, <3>5, DaysNat DEF LedgerInv, LedgerDated
    <3>10. CASE ok
      <4>1. job' = [job EXCEPT !.stage = "running", !.reserved = Reservation]
        BY <1>12, <3>10 DEF Reserve
      <4>2. job'.stage = "running" /\ job'.at = job.at /\ job'.reserved = Reservation /\ job'.trigger = job.trigger
        BY <1>0, <4>1 DEF JobType
      <4>3. Owed(job') = Reservation
        BY <1>p, <4>2, OwedValue
      <4>4. LedgerCovers'
        BY <2>1, <3>2, <4>2, <4>3 DEF LedgerCovers
      <4>5. LedgerDated'
        BY <1>z, <2>1, <3>2, <3>4, <3>7, <3>8, <3>9, <4>2 DEF LedgerDated
      <4>6. ReservedWithinBudget'
        BY <3>2, <4>2 DEF ReservedWithinBudget
      <4> QED
        BY <4>4, <4>5, <4>6 DEF LedgerInv
    <3>11. CASE ~ok
      <4>1. EndFailed
        BY <1>12, <3>11 DEF Reserve
      <4>2. /\ job'.stage \notin {"running", "ran"} /\ job'.at <= now
            /\ job'.stage = "idle" \/ job'.at = job.at
        BY <1>e, <2>1, <4>1
      <4>3. Owed(job') = 0
        BY <1>p, <4>2, OwedValue
      <4>4. ledger'.daily >= spent[ledger'.day] + 0 /\ ledger'.monthly >= spentIn[ledger'.month] + 0
        BY <3>2, <3>3, <3>4, <3>6
      <4>5. LedgerCovers'
        BY <2>1, <4>2, <4>3, <4>4 DEF LedgerCovers
      <4>6. LedgerDated'
        BY <2>1, <3>2, <3>4, <3>7, <3>8, <3>9, <4>2 DEF LedgerDated
      <4> QED
        BY <4>2, <4>5, <4>6 DEF LedgerInv, ReservedWithinBudget
    <3> QED
      BY <3>10, <3>11
  <2> QED
    BY <2>2, <2>3
<1>13. ASSUME NEW ok \in BOOLEAN, NEW c \in BOOLEAN, Reconcile(ok, c) PROVE LedgerInv'
  <2>1. UNCHANGED <<now, spent, spentIn>> /\ job.stage = "ran"
    BY <1>13 DEF Reconcile, JobLeaves
  <2>2. job.reserved \in Nat /\ job.used \in Nat /\ job.used <= job.reserved /\ Owed(job) = job.reserved - job.used
    BY <1>0, <2>1, OwedValue, SpeedAssumption DEF JobType, LedgerInv, LedgerCovers
  <2>3. /\ job'.stage \notin {"running", "ran"} /\ job'.at <= now
        /\ job'.stage = "idle" \/ job'.at = job.at
    <3>1. CASE job' = [job EXCEPT !.stage = "reconciled"]
      BY <1>0, <1>z, <3>1 DEF JobType
    <3>2. CASE EndFailed
      BY <1>e, <2>1, <3>2
    <3> QED
      BY <1>13, <3>1, <3>2 DEF Reconcile
  <2>4. CASE ~c
    <3>1. UNCHANGED ledger
      BY <1>13, <2>4 DEF Reconcile
    <3> QED
      BY <1>3, <2>1, <2>3, <3>1
  <2>5. CASE c
    <3>1. ledger' = Reconciled(job.at, job.reserved, job.used)
      BY <1>13, <2>5 DEF Reconcile
    <3>2. /\ ledger'.day = ledger.day /\ ledger'.month = ledger.month
          /\ ledger'.daily >= ledger.daily - (job.reserved - job.used)
          /\ ledger'.monthly >= ledger.monthly - (job.reserved - job.used)
      BY <1>0, <1>n, <2>2, <3>1, ReconciledType
    <3>3. ledger'.daily \in Nat /\ ledger'.monthly \in Nat
      BY <1>p DEF LedgerType
    <3>4. /\ ledger.daily >= spent[ledger.day] + (job.reserved - job.used)
          /\ ledger.monthly >= spentIn[ledger.month] + (job.reserved - job.used)
      BY <2>2 DEF LedgerInv, LedgerCovers
    <3>5. ledger'.daily >= spent[ledger.day] /\ ledger'.monthly >= spentIn[ledger.month]
      BY <1>l, <1>s, <2>2, <3>2, <3>3, <3>4
    <3> QED
      BY <1>2, <2>1, <2>3, <3>2, <3>5
  <2> QED
    BY <2>4, <2>5
<1>14. ASSUME NEW bytes \in 0..Envelope, NEW ok \in BOOLEAN, RunTest(bytes, ok) PROVE LedgerInv'
  <2>1. /\ UNCHANGED <<now, ledger>> /\ job.stage = "running" /\ bytes <= job.reserved
        /\ spent' = [spent EXCEPT ![Day(job.at)] = @ + bytes]
        /\ spentIn' = [spentIn EXCEPT ![Month(job.at)] = @ + bytes]
        /\ job' = [job EXCEPT !.stage = "ran", !.used = bytes, !.ok = ok]
    BY <1>14 DEF RunTest, JobLeaves
  <2>2. /\ job'.stage = "ran" /\ job'.used = bytes /\ job'.reserved = job.reserved
        /\ job'.at = job.at /\ job'.trigger = job.trigger
    BY <1>0, <2>1 DEF JobType
  <2>3. ledger.day = Day(job.at) /\ ledger.month = Month(job.at)
    BY <2>1 DEF LedgerInv, LedgerDated
  <2>4. spent'[ledger.day] = spent[ledger.day] + bytes /\ spentIn'[ledger.month] = spentIn[ledger.month] + bytes
    BY <1>0, <1>l, <2>1, <2>3
  <2>5. bytes \in Nat /\ job.reserved \in Nat
    BY <1>0, SpeedAssumption DEF JobType
  <2>6. Owed(job) = job.reserved /\ Owed(job') = job.reserved - bytes
    BY <1>0, <1>p, <2>1, <2>2, OwedValue
  <2>7. LedgerCovers'
    BY <1>l, <1>s, <2>1, <2>2, <2>4, <2>5, <2>6 DEF LedgerInv, LedgerCovers
  <2>8. \A d \in Days : d > ledger.day => spent'[d] = 0
    BY <1>0, <1>l, <2>1, <2>3, DaysNat DEF LedgerInv, LedgerDated
  <2>9. \A m \in Months : m > ledger.month => spentIn'[m] = 0
    BY <1>0, <1>l, <2>1, <2>3, DaysNat DEF LedgerInv, LedgerDated
  <2>10. LedgerDated'
    BY <2>1, <2>2, <2>3, <2>8, <2>9 DEF LedgerInv, LedgerDated
  <2>11. ReservedWithinBudget'
    BY <2>1, <2>2 DEF LedgerInv, ReservedWithinBudget
  <2> QED
    BY <2>7, <2>10, <2>11 DEF LedgerInv
<1>15. ASSUME NEW ok \in BOOLEAN, PublishResult(ok) \/ \E r \in job.req : ResolveJob(r, ok) PROVE LedgerInv'
  <2>1. UNCHANGED <<now, ledger, spent, spentIn>> /\ job.stage \in {"reconciled", "resolve"}
    BY <1>15 DEF PublishResult, ResolveJob, JobLeaves
  <2>2. /\ job'.stage \notin {"running", "ran"} /\ job'.at <= now
        /\ job'.stage = "idle" \/ job'.at = job.at
    BY <1>0, <1>15, <1>i, <1>z DEF PublishResult, ResolveJob, JobType
  <2> QED
    BY <1>3, <2>1, <2>2
\* A disconnect empties the ledger, and what it covers is counted from there.
<1>16. ASSUME NEW done \in BOOLEAN, Disconnect(done) PROVE LedgerInv'
  <2>1. /\ UNCHANGED <<job, now>> /\ job.stage \in {"idle", "admitted"}
        /\ ledger' = NoLedger /\ spent' = NothingSpent /\ spentIn' = NothingSpentIn
    BY <1>16 DEF Disconnect, BoundaryLeaves, Unlocked
  <2>2. /\ ledger'.day = 0 /\ ledger'.month = 0 /\ ledger'.daily = 0 /\ ledger'.monthly = 0
        /\ ledger'.day \in Days /\ ledger'.month \in Months
    BY <1>p, <2>1 DEF NoLedger, LedgerType
  <2>3. (\A d \in Days : spent'[d] = 0) /\ (\A m \in Months : spentIn'[m] = 0)
    BY <2>1 DEF NothingSpent, NothingSpentIn
  <2>4. Day(job.at) \in Nat /\ Month(job.at) \in Nat
    BY <1>n, Calendar
  <2>5. Owed(job') = 0
    BY <1>p, <2>1, OwedValue
  <2>6. LedgerDated'
    BY <1>d, <1>z, <2>1, <2>2, <2>3, <2>4 DEF LedgerDated
  <2>7. LedgerCovers'
    BY <2>1, <2>2, <2>3, <2>5 DEF LedgerCovers
  <2> QED
    BY <2>1, <2>6, <2>7 DEF LedgerInv, ReservedWithinBudget
<1> QED
  BY <1>4, <1>5, <1>6, <1>7, <1>8, <1>9, <1>10, <1>11, <1>12, <1>13, <1>14, <1>15, <1>16 DEF Next

LEMMA LedgerInvariant == Spec => []LedgerInv
<1>1. Init => LedgerInv
  <2> SUFFICES ASSUME Init PROVE LedgerInv
    OBVIOUS
  <2>1. Day(0) = 0 /\ Month(0) = 0 /\ 0 \in Days /\ 0 \in Months
    <3>1. 0 \in Times /\ Day(0) = 0 /\ Month(0) = 0
      BY SpeedAssumption DEF Times, Day, Month
    <3> QED
      BY <3>1 DEF Days, Months
  <2>2. job = Idle /\ job.stage = "idle" /\ job.at = 0 /\ Owed(job) = 0
    BY IdleType, OwedValue DEF Init, Idle
  <2>3. LedgerDated
    BY <2>1, <2>2 DEF Init, NoLedger, NothingSpent, NothingSpentIn, LedgerDated
  <2>4. LedgerCovers
    BY <2>1, <2>2 DEF Init, NoLedger, NothingSpent, NothingSpentIn, LedgerCovers
  <2> QED
    BY <2>2, <2>3, <2>4 DEF LedgerInv, ReservedWithinBudget
<1>2. Types /\ LedgerInv /\ [Next]_vars => LedgerInv'
  BY LedgerStep
<1> QED
  BY <1>1, <1>2, TypesInvariant, PTL DEF Spec

\* Short of a disconnect the ledger never forgets counted bytes: it holds at least
\* what the runner counted in its day and its month since the last one, whatever
\* crashes or fails between a reservation, the transfer and the refund, and however
\* the day and the month turn.
THEOREM LedgerNeverForgets == Spec => []LedgerCoversSpend
<1>1. Types /\ LedgerInv => LedgerCoversSpend
  <2> SUFFICES ASSUME Types, LedgerInv PROVE LedgerCoversSpend
    OBVIOUS
  <2>1. job \in JobType /\ ledger \in LedgerType /\ spent \in [Days -> Nat] /\ spentIn \in [Months -> Nat]
    BY DEF Types, TypeOK, JobType, LedgerType
  <2>2. Owed(job) \in Int /\ Owed(job) >= 0
    BY <2>1, OwedValue DEF LedgerInv, LedgerCovers
  <2>3. /\ ledger.daily \in Nat /\ ledger.monthly \in Nat
        /\ spent[ledger.day] \in Nat /\ spentIn[ledger.month] \in Nat
    BY <2>1 DEF LedgerType
  <2> QED
    BY <2>2, <2>3 DEF LedgerInv, LedgerCovers, LedgerCoversSpend
<1> QED
  BY <1>1, LedgerInvariant, TypesInvariant, PTL

\* Between two disconnects a scheduled test never takes its day or its month over the
\* budget, whatever tests started by hand or by a controller have overdrawn before.
THEOREM ScheduledStayInBudget == Spec => []ScheduledWithinBudget
<1>1. Types /\ LedgerInv => ScheduledWithinBudget
  <2> SUFFICES ASSUME Types, LedgerInv, job.trigger = "scheduled", job.stage = "ran", job.used > 0
               PROVE  spent[Day(job.at)] <= DailyLimit /\ spentIn[Month(job.at)] <= MonthlyLimit
    BY DEF ScheduledWithinBudget
  <2>1. job \in JobType /\ ledger \in LedgerType /\ spent \in [Days -> Nat] /\ spentIn \in [Months -> Nat]
    BY DEF Types, TypeOK, JobType, LedgerType
  <2>2. Owed(job) \in Int /\ Owed(job) >= 0
    BY <2>1, OwedValue DEF LedgerInv, LedgerCovers
  <2>3. /\ ledger.daily \in Nat /\ ledger.monthly \in Nat /\ DailyLimit \in Nat /\ MonthlyLimit \in Nat
        /\ spent[ledger.day] \in Nat /\ spentIn[ledger.month] \in Nat
        /\ job.used \in Nat /\ job.reserved \in Nat
    BY <2>1, SpeedAssumption DEF LedgerType, JobType
  <2>4. job.used <= job.reserved /\ ledger.day = Day(job.at) /\ ledger.month = Month(job.at)
    BY DEF LedgerInv, LedgerCovers, LedgerDated
  <2>5. job.reserved > 0
    BY <2>3, <2>4
  <2>6. ledger.daily <= DailyLimit /\ ledger.monthly <= MonthlyLimit
    BY <2>5 DEF LedgerInv, ReservedWithinBudget
  <2>7. /\ ledger.daily >= spent[ledger.day] + Owed(job)
        /\ ledger.monthly >= spentIn[ledger.month] + Owed(job)
    BY DEF LedgerInv, LedgerCovers
  <2> QED
    BY <2>2, <2>3, <2>4, <2>6, <2>7
<1> QED
  BY <1>1, LedgerInvariant, TypesInvariant, PTL
=============================================================================
