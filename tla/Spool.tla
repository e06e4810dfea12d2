------------------------------- MODULE Spool -------------------------------
(***************************************************************************)
(* The durable telemetry spool (internal/spool/spool.go): one SQLite       *)
(* database with the tables records, pending_batch, history and metadata.  *)
(*                                                                         *)
(* Every operation of the Go type runs in one transaction over the only    *)
(* connection, in WAL mode with synchronous=FULL, so each operation is one *)
(* action here: a crash or an error before COMMIT leaves the tables as     *)
(* they were, which is a stuttering step, and a crash after it is followed *)
(* by Reopen.  A record's payload is abstracted to its length.             *)
(***************************************************************************)
EXTENDS Integers, FiniteSets, FiniteSetsExt

CONSTANTS
  Kinds,           \* record kinds (minute_metric, dns_check, ..., event)
  KindCap,         \* how many rows of a kind one batch holds (60, 8 or 100)
  BatchLimit,      \* maxBatchRecords (200)
  SelectLimit,     \* rows NextBatch looks at (400)
  HistoryChunk,    \* history rows removed per overflow round (128)
  MaxBytes,        \* payload budget (50 MiB)
  MaxAge,          \* retention (seven days)
  BatchIds,        \* the batch identifiers protocol.NewBatchID can return
  ClockStepsBack,  \* whether the wall clock may be set back
  Sizes,           \* payload lengths the instance uses
  MaxTime,         \* bound: last clock value
  MaxRowId,        \* bound: last row id
  MaxAppend,       \* bound: records in one append call
  MaxClears        \* bound: Clear calls

ASSUME LimitsAssumption ==
  /\ KindCap \in [Kinds -> Nat \ {0}]
  /\ {BatchLimit, SelectLimit, HistoryChunk} \subseteq Nat \ {0}
  /\ {MaxBytes, MaxAge, MaxTime, MaxRowId, MaxAppend, MaxClears} \subseteq Nat
  /\ Sizes \subseteq Nat \ {0}
  /\ ClockStepsBack \in BOOLEAN

VARIABLES
  now,        \* the wall clock, Spool.now
  records,    \* table records
  pending,    \* table pending_batch
  history,    \* table history: acknowledged rows kept for the local UI
  nextSeq,    \* metadata next_seq
  dropped,    \* metadata dropped
  nextId,     \* AUTOINCREMENT counter of records, which DELETE never resets
  issued,     \* history variable: every batch NextBatch ever reserved
  epoch,      \* history variable: number of Clear calls so far
  firstId,    \* history variable: nextId when the spool was last cleared
  acked,      \* history variable: rows acknowledged since the last Clear
  lastPrune   \* history variable: clock of the last pruneTx

ghosts == <<issued, epoch, firstId, acked, lastPrune>>
vars == <<now, records, pending, history, nextSeq, dropped, nextId, ghosts>>

Rows == [id : Nat, kind : Kinds, ts : Nat, size : Sizes, local : BOOLEAN]
HistoryRows == [id : Nat, ts : Nat, size : Sizes, seq : Nat]
PendingRows == [batch : BatchIds, seq : Nat, ids : SUBSET Nat, created : Nat]
IssuedBatches == [batch : BatchIds, seq : Nat, ids : SUBSET Nat, epoch : Nat]

TypeOK ==
  /\ now \in Nat
  /\ records \subseteq Rows
  /\ pending \subseteq PendingRows
  /\ history \subseteq HistoryRows
  /\ nextSeq \in Nat
  /\ dropped \in Nat
  /\ nextId \in Nat
  /\ issued \subseteq IssuedBatches
  /\ epoch \in Nat
  /\ firstId \in Nat
  /\ acked \subseteq Nat
  /\ lastPrune \in Nat

----------------------------------------------------------------------------
(* Helpers: what the SQL statements select. *)

Ids(S) == {r.id : r \in S}
Bytes(S) == MapThenSumSet(LAMBDA r : r.size, S)

\* Rows of S that come before r in id order.
Older(S, r) == {q \in S : q.id < r.id}

\* NOT unreservedRecordPredicate: the ids named by some pending batch.
Reserved(P) == UNION {b.ids : b \in P}
UnreservedIgnoringBatches(R, P) == R          \* mutant: predicate forgotten
Unreserved(R, P) == {r \in R : r.id \notin Reserved(P)}

Cutoff == now - MaxAge

\* history.id order is acknowledgement order: by batch, then by source id.
Before(g, h) == g.seq < h.seq \/ (g.seq = h.seq /\ g.id < h.id)
ChunkOf(H, h) == Cardinality({g \in H : Before(g, h)}) \div HistoryChunk

\* History is shed whole chunks at a time, oldest first: h goes when the
\* payload is over budget even with every earlier chunk gone.
HistoryOverflow(R, H) ==
  {h \in H : Bytes(R) + Bytes({g \in H : ChunkOf(H, g) >= ChunkOf(H, h)}) > MaxBytes}

\* mutant: local-only rows are spared
RecordOverflowSparingLocal(R, H, P) ==
  {r \in Unreserved(R, P) : ~r.local /\
     Bytes(H) + Bytes(R) - Bytes(Older(Unreserved(R, P), r)) > MaxBytes}

\* Then unreserved records, local-only ones included, one by one, oldest first.
RecordOverflow(R, H, P) ==
  {r \in Unreserved(R, P) :
     Bytes(H) + Bytes(R) - Bytes(Older(Unreserved(R, P), r)) > MaxBytes}

\* mutant: rows are expired before the batches that reserve them
PruneTxRowsFirst(R, P, H) ==
  LET R1 == R \ {r \in Unreserved(R, P) : r.ts < Cutoff}
      P1 == {b \in P : b.created >= Cutoff}
      H1 == {h \in H : h.ts >= Cutoff}
      H2 == H1 \ HistoryOverflow(R1, H1)
      R2 == R1 \ RecordOverflow(R1, H2, P1)
  IN  /\ pending' = P1 /\ records' = R2 /\ history' = H2
      /\ dropped' = dropped + Cardinality(R \ R2)
      /\ lastPrune' = now

\* mutant: only overflow is counted, expired rows are not
PruneTxExpiryUncounted(R, P, H) ==
  LET P1 == {b \in P : b.created >= Cutoff}
      R1 == R \ {r \in Unreserved(R, P1) : r.ts < Cutoff}
      H1 == {h \in H : h.ts >= Cutoff}
      H2 == H1 \ HistoryOverflow(R1, H1)
      R2 == R1 \ RecordOverflow(R1, H2, P1)
  IN  /\ pending' = P1 /\ records' = R2 /\ history' = H2
      /\ dropped' = dropped + Cardinality(R1 \ R2)
      /\ lastPrune' = now

\* pruneTx: expire batches, then unreserved rows, then history; shed overflow.
PruneTx(R, P, H) ==
  LET P1 == {b \in P : b.created >= Cutoff}
      R1 == R \ {r \in Unreserved(R, P1) : r.ts < Cutoff}
      H1 == {h \in H : h.ts >= Cutoff}
      H2 == H1 \ HistoryOverflow(R1, H1)
      R2 == R1 \ RecordOverflow(R1, H2, P1)
  IN  /\ pending' = P1
      /\ records' = R2
      /\ history' = H2
      /\ dropped' = dropped + Cardinality(R \ R2)
      /\ lastPrune' = now

\* NextBatch's scan: the first SelectLimit uploadable rows, in id order, each
\* taken while its kind has room, until the batch is full.
Uploadable == {r \in records : ~r.local}
Scanned == {r \in Uploadable : Cardinality(Older(Uploadable, r)) < SelectLimit}
WithRoom == {r \in Scanned :
  Cardinality({q \in Older(Scanned, r) : q.kind = r.kind}) < KindCap[r.kind]}
Selected == {r \in WithRoom : Cardinality(Older(WithRoom, r)) < BatchLimit}

----------------------------------------------------------------------------
Init ==
  /\ now = 1
  /\ records = {} /\ pending = {} /\ history = {}
  /\ nextSeq = 1 /\ dropped = 0 /\ nextId = 1
  /\ issued = {} /\ epoch = 0 /\ firstId = 1 /\ acked = {} /\ lastPrune = 1

\* Wall-clock time passes.
Advance ==
  /\ now < MaxTime
  /\ now' = now + 1
  /\ UNCHANGED <<records, pending, history, nextSeq, dropped, nextId, ghosts>>

\* The wall clock is set back (NTP, a user, a suspended virtual machine).
StepBack ==
  /\ ClockStepsBack
  /\ now > 1
  /\ now' = now - 1
  /\ UNCHANGED <<records, pending, history, nextSeq, dropped, nextId, ghosts>>

\* A record a producer hands over: stamped at or before the present time.
Inputs == [kind : Kinds, ts : 1..now, size : Sizes]

RowsOf(n, batch, local) ==
  {[id |-> nextId + i - 1, kind |-> batch[i].kind, ts |-> batch[i].ts,
    size |-> batch[i].size, local |-> local] : i \in 1..n}

\* AppendMinute (local = FALSE) and AppendLocal (local = TRUE).  A batch with an
\* invalid kind, timestamp or payload is refused as a whole and changes nothing,
\* and so does an empty one.  n is the number of records.
AppendRows(n, batch, local) ==
  /\ nextId + n <= MaxRowId + 1
  /\ PruneTx(records \union RowsOf(n, batch, local), pending, history)
  /\ nextId' = nextId + n
  /\ UNCHANGED <<now, nextSeq, issued, epoch, firstId, acked>>

\* NextBatch when no batch is pending; otherwise it returns the pending one
\* and changes nothing.  An empty selection also changes nothing.
NextBatch(b) ==
  /\ pending = {}
  /\ Selected # {}
  /\ b \notin {i.batch : i \in issued}
  /\ pending' = {[batch |-> b, seq |-> nextSeq, ids |-> Ids(Selected), created |-> now]}
  /\ issued' = issued \union
       {[batch |-> b, seq |-> nextSeq, ids |-> Ids(Selected), epoch |-> epoch]}
  /\ nextSeq' = nextSeq + 1
  /\ UNCHANGED <<now, records, history, dropped, nextId, epoch, firstId, acked, lastPrune>>

\* INSERT OR IGNORE INTO history SELECT ... FROM records WHERE id IN ids.
Retired(p) ==
  {[id |-> r.id, ts |-> r.ts, size |-> r.size, seq |-> p.seq] :
     r \in {q \in records : q.id \in p.ids /\ q.id \notin Ids(history)}}

\* Ack of a batch that is still pending; of any other it changes nothing.
Ack(p) ==
  /\ p \in pending
  /\ PruneTx({r \in records : r.id \notin p.ids}, pending \ {p}, history \union Retired(p))
  /\ acked' = acked \union (p.ids \intersect Ids(records))
  /\ UNCHANGED <<now, nextSeq, nextId, issued, epoch, firstId>>

\* Clear, up to its COMMIT.  The WAL checkpoint after it may fail, which makes
\* the call return an error although the tables are already empty.
Clear ==
  /\ epoch < MaxClears
  /\ records' = {} /\ pending' = {} /\ history' = {}
  /\ nextSeq' = 1 /\ dropped' = 0
  /\ epoch' = epoch + 1 /\ firstId' = nextId /\ acked' = {}
  /\ UNCHANGED <<now, nextId, issued, lastPrune>>

\* The process stops (cleanly or not) and Open runs initialize and prune.
Reopen ==
  /\ PruneTx(records, pending, history)
  /\ UNCHANGED <<now, nextSeq, nextId, issued, epoch, firstId, acked>>

Next ==
  \/ Advance
  \/ StepBack
  \/ \E n \in 1..MaxAppend, local \in BOOLEAN :
       \E batch \in [1..n -> Inputs] : AppendRows(n, batch, local)
  \/ \E b \in BatchIds : NextBatch(b)
  \/ \E p \in pending : Ack(p)
  \/ Clear
  \/ Reopen

Spec == Init /\ [][Next]_vars

----------------------------------------------------------------------------
(* Correctness. *)

\* While a batch is pending every row it names is still in the table, whatever
\* appends, budget overflow, expiry and restarts happen in between: Ack can
\* retire the whole batch and a retry never describes rows that were dropped
\* (pruneTx's unreserved predicate).
ReservationIntact == \A b \in pending : b.ids \subseteq Ids(records)

\* NextBatch hands out the pending batch before it reserves another one, so
\* there is never more than one to retry.
OnePending == \A b1, b2 \in pending : b1 = b2

\* No row is ever put in two batches: the controller deduplicates by batch id,
\* so a row under a second id would be counted twice.  Expiring a batch and its
\* rows together in pruneTx, Ack's delete, and AUTOINCREMENT across Clear carry
\* this.
NeverRebatched ==
  \A i, j \in issued : i.batch # j.batch => i.ids \intersect j.ids = {}

\* A row written by AppendLocal is never named by a batch.
LocalNeverBatched ==
  \A r \in records, i \in issued : r.local => r.id \notin i.ids

\* Telemetry is within its byte budget unless all that is left is the pending
\* batch, which pruneTx must not touch.
BudgetHeld ==
  \/ Bytes(records) + Bytes(history) <= MaxBytes
  \/ history = {} /\ Unreserved(records, pending) = {}

\* How far the prunes carry retention, whatever the clock does: a row that is
\* older than the retention time at a prune is gone after it, unless a batch
\* reserves it that is itself within that time (pruneTx expires reservations
\* first).  A row therefore stays for up to two retention times: one before and
\* one after it was put in a batch.
ExpiryCovered ==
  /\ \A r \in records :
       \/ r.ts >= lastPrune - MaxAge
       \/ \E b \in pending : r.id \in b.ids /\ b.created >= lastPrune - MaxAge
  /\ \A h \in history : h.ts >= lastPrune - MaxAge

\* What docs/privacy.md promises of queue and history: a row, and an SSID in it,
\* remains for at most the retention time, also while the sensor is offline.
\* It is judged at the prunes, which the service runs with every append.
KeptSevenDaysAtMost ==
  /\ \A r \in records : r.ts >= lastPrune - MaxAge
  /\ \A h \in history : h.ts >= lastPrune - MaxAge

\* The History query is a UNION ALL of records and history: a row in both
\* would be shown twice.
ShownOnce == Ids(records) \intersect Ids(history) = {}

\* metadata.dropped is exactly the number of rows lost before an
\* acknowledgement since the last Clear: rows shed from history, rows retired by
\* Ack and rows wiped by Clear are not counted.
DroppedExact ==
  dropped = (nextId - firstId) - Cardinality(records) - Cardinality(acked)
=============================================================================
