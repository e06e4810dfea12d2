--------------------------- MODULE DeliveryProofs ---------------------------
(***************************************************************************)
(* Theorems about Spool and Delivery, for every value of their constants:  *)
(* for any limits, any number of enrollments and config versions.          *)
(*                                                                         *)
(* The first part is the spool on its own: what a batch reserves stays in  *)
(* the table until the batch is acknowledged, expires or is purged.  The   *)
(* second is the spool inside the composition: every step of Delivery is a *)
(* step of the spool or leaves it alone, so the spool's invariants hold    *)
(* there too.  Above them stands who owns a batch id: the reservation, the *)
(* request under way and every upload the controller got or may still get  *)
(* under it are of one enrollment; so what is under way under a batch id   *)
(* is what was first reserved under it, and the uploader with its spool    *)
(* implements the ledger.                                                  *)
(***************************************************************************)
EXTENDS Delivery, FiniteSetTheorems, TLAPS

----------------------------------------------------------------------------
(* What pruneTx does, whatever the tables it is given. *)

\* pruneTx keeps exactly the unexpired batches, only ever removes rows, keeps
\* every row a kept batch names, and leaves an expired row only under such a
\* batch.
LEMMA PruneEffect ==
  ASSUME NEW STATE R, NEW STATE P, NEW STATE H, PruneTx(R, P, H)
  PROVE  /\ pending' = {b \in P : b.created >= Cutoff}
         /\ records' \subseteq R
         /\ history' \subseteq H
         /\ \A r \in R : r.id \in Reserved(pending') => r \in records'
         /\ \A r \in records' : ~(r.ts < Cutoff) \/ r.id \in Reserved(pending')
         /\ \A h \in history' : h.ts >= Cutoff
         /\ dropped' = dropped + Cardinality(R \ records')
         /\ lastPrune' = now
<1> DEFINE P1 == {b \in P : b.created >= Cutoff}
           R1 == R \ {r \in Unreserved(R, P1) : r.ts < Cutoff}
           H1 == {h \in H : h.ts >= Cutoff}
           H2 == H1 \ HistoryOverflow(R1, H1)
           R2 == R1 \ RecordOverflow(R1, H2, P1)
<1>1. /\ pending' = P1 /\ records' = R2 /\ history' = H2
      /\ dropped' = dropped + Cardinality(R \ R2) /\ lastPrune' = now
  BY DEF PruneTx
<1>2. RecordOverflow(R1, H2, P1) \subseteq Unreserved(R1, P1)
  BY DEF RecordOverflow
<1> HIDE DEF P1, H2
<1>3. \A r \in R : r.id \in Reserved(P1) => r \in R2
  BY <1>2 DEF Unreserved
<1>4. \A r \in R2 : ~(r.ts < Cutoff) \/ r.id \in Reserved(P1)
  BY DEF Unreserved
<1>5. H2 \subseteq H1
  BY DEF H2
<1> QED
  BY <1>1, <1>3, <1>4, <1>5 DEF P1

\* The rows of one append call are finitely many.
LEMMA RowsOfFinite ==
  ASSUME NEW n \in Nat, NEW batch, NEW local
  PROVE  IsFiniteSet(RowsOf(n, batch, local))
<1> DEFINE Row(i) == [id |-> nextId + i - 1, kind |-> batch[i].kind, ts |-> batch[i].ts,
                      size |-> batch[i].size, local |-> local]
           f == [i \in 1..n |-> Row(i)]
<1> HIDE DEF Row
<1>1. RowsOf(n, batch, local) = {Row(i) : i \in 1..n}
  BY DEF RowsOf, Row
<1>2. f \in Surjection(1..n, {Row(i) : i \in 1..n})
  BY DEF Surjection
<1>3. IsFiniteSet(1..n)
  BY FS_Interval
<1> QED
  BY <1>1, <1>2, <1>3, FS_Surjection

----------------------------------------------------------------------------
(* Type correctness.  The counter of dropped rows is a number only because  *)
(* the table is finite, so the two facts are proved together.               *)

TypeInv == TypeOK /\ IsFiniteSet(records)

\* A prune of well-typed tables leaves well-typed tables.
LEMMA PruneType ==
  ASSUME TypeOK, NEW STATE R, R \in SUBSET Rows, IsFiniteSet(R),
         NEW STATE P, P \in SUBSET PendingRows, NEW STATE H, H \in SUBSET HistoryRows,
         PruneTx(R, P, H)
  PROVE  /\ records' \subseteq Rows
         /\ pending' \subseteq PendingRows
         /\ history' \subseteq HistoryRows
         /\ dropped' \in Nat
         /\ lastPrune' \in Nat
         /\ IsFiniteSet(records')
<1>0. /\ pending' = {b \in P : b.created >= Cutoff}
      /\ records' \subseteq R /\ history' \subseteq H
      /\ dropped' = dropped + Cardinality(R \ records') /\ lastPrune' = now
  BY PruneEffect
<1>1. /\ records' \subseteq R /\ history' \subseteq H /\ pending' \subseteq P
      /\ dropped' = dropped + Cardinality(R \ records') /\ lastPrune' = now
  BY <1>0
<1>2. IsFiniteSet(records')
  BY <1>1, FS_Subset
<1>3. IsFiniteSet(R \ records')
  BY FS_Difference
<1>4. Cardinality(R \ records') \in Nat
  BY <1>3, FS_CardinalityType
<1> QED
  BY <1>1, <1>2, <1>4 DEF TypeOK

\* The rows one append call adds are well-typed.
LEMMA RowsOfType ==
  ASSUME TypeOK, NEW n \in Nat, NEW local \in BOOLEAN,
         NEW batch \in [1..n -> Inputs]
  PROVE  RowsOf(n, batch, local) \subseteq Rows
<1> SUFFICES ASSUME NEW i \in 1..n
             PROVE  [id |-> nextId + i - 1, kind |-> batch[i].kind, ts |-> batch[i].ts,
                     size |-> batch[i].size, local |-> local] \in Rows
  BY DEF RowsOf
<1>1. batch[i] \in Inputs
  OBVIOUS
<1>2. batch[i].kind \in Kinds /\ batch[i].ts \in Nat /\ batch[i].size \in Sizes
  BY <1>1 DEF Inputs, TypeOK
<1>3. nextId + i - 1 \in Nat
  BY DEF TypeOK
<1> QED
  BY <1>2, <1>3 DEF Rows

\* Every step keeps the tables well-typed.
LEMMA TypeStep == TypeInv /\ [Next]_vars => TypeInv'
<1> SUFFICES ASSUME TypeInv, [Next]_vars PROVE TypeInv'
  OBVIOUS
<1> USE DEF TypeInv
<1>1. CASE Advance
  BY <1>1 DEF Advance, TypeOK, ghosts
<1>2. CASE StepBack
  BY <1>2 DEF StepBack, TypeOK, ghosts
<1>3. ASSUME NEW n \in 1..MaxAppend, NEW local \in BOOLEAN,
             NEW batch \in [1..n -> Inputs], AppendRows(n, batch, local)
      PROVE  TypeInv'
  <2>0. n \in Nat
    BY LimitsAssumption
  <2> DEFINE R == records \union RowsOf(n, batch, local)
  <2>1. R \subseteq Rows
    BY <2>0, RowsOfType DEF TypeOK
  <2>2. IsFiniteSet(R)
    BY <2>0, RowsOfFinite, FS_Union
  <2>3. PruneTx(R, pending, history)
    BY <1>3 DEF AppendRows
  <2> HIDE DEF R
  <2>4. /\ records' \subseteq Rows /\ pending' \subseteq PendingRows
        /\ history' \subseteq HistoryRows /\ dropped' \in Nat /\ lastPrune' \in Nat
        /\ IsFiniteSet(records')
    BY <2>1, <2>2, <2>3, PruneType DEF TypeOK
  <2> QED
    BY <1>3, <2>0, <2>4 DEF AppendRows, TypeOK
<1>4. ASSUME NEW b \in BatchIds, NextBatch(b)
      PROVE  TypeInv'
  <2>1. Ids(Selected) \subseteq Nat
    BY DEF Ids, Selected, WithRoom, Scanned, Uploadable, TypeOK, Rows
  <2>2. pending' \subseteq PendingRows
    BY <1>4, <2>1 DEF NextBatch, PendingRows, TypeOK
  <2>3. issued' \subseteq IssuedBatches
    BY <1>4, <2>1 DEF NextBatch, IssuedBatches, TypeOK
  <2> QED
    BY <1>4, <2>2, <2>3 DEF NextBatch, TypeOK
<1>5. ASSUME NEW p \in pending, Ack(p)
      PROVE  TypeInv'
  <2> DEFINE R == {r \in records : r.id \notin p.ids}
             H == history \union Retired(p)
  <2>1. R \subseteq Rows /\ IsFiniteSet(R)
    BY FS_Subset DEF TypeOK
  <2>2. H \subseteq HistoryRows
    BY DEF Retired, HistoryRows, Rows, PendingRows, TypeOK
  <2>3. PruneTx(R, pending \ {p}, H)
    BY <1>5 DEF Ack
  <2>4. p.ids \intersect Ids(records) \subseteq Nat
    BY DEF Ids, Rows, TypeOK
  <2> HIDE DEF R, H
  <2>5. /\ records' \subseteq Rows /\ pending' \subseteq PendingRows
        /\ history' \subseteq HistoryRows /\ dropped' \in Nat /\ lastPrune' \in Nat
        /\ IsFiniteSet(records')
    BY <2>1, <2>2, <2>3, PruneType DEF TypeOK
  <2> QED
    BY <1>5, <2>4, <2>5 DEF Ack, TypeOK
<1>6. CASE Clear
  BY <1>6, FS_EmptySet DEF Clear, TypeOK
<1>7. CASE Reopen
  <2>1. PruneTx(records, pending, history)
    BY <1>7 DEF Reopen
  <2>2. /\ records' \subseteq Rows /\ pending' \subseteq PendingRows
        /\ history' \subseteq HistoryRows /\ dropped' \in Nat /\ lastPrune' \in Nat
        /\ IsFiniteSet(records')
    BY <2>1, PruneType DEF TypeOK
  <2> QED
    BY <1>7, <2>2 DEF Reopen, TypeOK
<1>8. CASE UNCHANGED vars
  BY <1>8 DEF vars, ghosts, TypeOK
<1> QED
  BY <1>1, <1>2, <1>3, <1>4, <1>5, <1>6, <1>7, <1>8 DEF Next

\* Every reachable state of the spool is well-typed, for any limits and clock.
THEOREM TypeCorrect == Spec => []TypeOK
<1>1. Init => TypeInv
  BY FS_EmptySet DEF Init, TypeInv, TypeOK
<1>2. TypeInv => TypeOK
  BY DEF TypeInv
<1> QED
  BY <1>1, <1>2, TypeStep, PTL DEF Spec

----------------------------------------------------------------------------
(* Reservations.  The inductive invariant: row ids are fresh and unique,    *)
(* there is one pending batch, its rows are in the table and none of them   *)
(* is local-only, and a row is never both live and retired.                 *)

IdsFresh ==
  /\ \A r \in records : r.id < nextId
  /\ \A h \in history : h.id < nextId
  /\ \A i \in issued : \A k \in i.ids : k < nextId

IdsUnique == \A r, q \in records : r.id = q.id => r = q

ReservationInv ==
  /\ TypeInv
  /\ IdsFresh /\ IdsUnique
  /\ OnePending /\ ReservationIntact
  /\ LocalNeverBatched /\ ShownOnce /\ ExpiryCovered

\* The part of the invariant pruneTx preserves, from what it is given: tables R,
\* P and H that have it.
LEMMA PruneReservation ==
  ASSUME TypeOK, nextId' \in Nat, UNCHANGED <<now, issued>>,
         NEW STATE R, R \in SUBSET Rows, IsFiniteSet(R),
         NEW STATE P, P \in SUBSET pending, NEW STATE H, H \in SUBSET HistoryRows,
         PruneTx(R, P, H),
         \A r \in R : r.id < nextId', \A h \in H : h.id < nextId',
         \A i \in issued : \A k \in i.ids : k < nextId',
         \A r, q \in R : r.id = q.id => r = q,
         \A b \in P : b.ids \subseteq Ids(R),
         OnePending,
         \A r \in R, i \in issued : r.local => r.id \notin i.ids,
         Ids(R) \intersect Ids(H) = {}
  PROVE  /\ IdsFresh' /\ IdsUnique'
         /\ OnePending' /\ ReservationIntact'
         /\ LocalNeverBatched' /\ ShownOnce' /\ ExpiryCovered'
<1>1. /\ pending' = {b \in P : b.created >= Cutoff}
      /\ records' \subseteq R /\ history' \subseteq H
      /\ \A r \in R : r.id \in Reserved(pending') => r \in records'
      /\ \A r \in records' : ~(r.ts < Cutoff) \/ r.id \in Reserved(pending')
      /\ \A h \in history' : h.ts >= Cutoff
      /\ lastPrune' = now
  BY PruneEffect
<1>2. IdsFresh' /\ IdsUnique'
  BY <1>1 DEF IdsFresh, IdsUnique
<1>3. OnePending'
  BY <1>1 DEF OnePending
<1>4. ReservationIntact'
  <2> SUFFICES ASSUME NEW b \in pending', NEW k \in b.ids
               PROVE  \E r \in records' : r.id = k
    BY DEF ReservationIntact, Ids
  <2>1. PICK r \in R : r.id = k
    BY <1>1 DEF Ids
  <2>2. r.id \in Reserved(pending')
    BY <2>1 DEF Reserved
  <2> QED
    BY <1>1, <2>1, <2>2
<1>5. LocalNeverBatched' /\ ShownOnce'
  BY <1>1 DEF LocalNeverBatched, ShownOnce, Ids
<1>6. ExpiryCovered'
  <2>1. Cutoff \in Int /\ lastPrune' - MaxAge = Cutoff
    BY <1>1, LimitsAssumption DEF Cutoff, TypeOK
  <2>2. ASSUME NEW r \in records'
        PROVE  \/ r.ts >= Cutoff
               \/ \E b \in pending' : r.id \in b.ids /\ b.created >= Cutoff
    <3>1. CASE r.id \in Reserved(pending')
      BY <1>1, <3>1 DEF Reserved
    <3>2. CASE ~(r.ts < Cutoff)
      <4>1. r.ts \in Nat
        BY <1>1 DEF Rows
      <4> QED
        BY <2>1, <3>2, <4>1
    <3> QED
      BY <1>1, <3>1, <3>2
  <2>3. \A h \in history' : h.ts >= Cutoff
    BY <1>1
  <2> QED
    BY <2>1, <2>2, <2>3 DEF ExpiryCovered
<1> QED
  BY <1>2, <1>3, <1>4, <1>5, <1>6

\* The rows of an append call take the ids from nextId on.
LEMMA RowsOfIds ==
  ASSUME TypeOK, NEW n \in Nat, NEW batch, NEW local
  PROVE  /\ \A r \in RowsOf(n, batch, local) : r.id >= nextId /\ r.id < nextId + n
         /\ \A r, q \in RowsOf(n, batch, local) : r.id = q.id => r = q
         /\ \A r \in RowsOf(n, batch, local) : r.id \in Nat
<1>1. ASSUME NEW r \in RowsOf(n, batch, local)
      PROVE  \E i \in 1..n : r = [id |-> nextId + i - 1, kind |-> batch[i].kind,
               ts |-> batch[i].ts, size |-> batch[i].size, local |-> local]
  BY <1>1 DEF RowsOf
<1>2. ASSUME NEW r \in RowsOf(n, batch, local)
      PROVE  r.id >= nextId /\ r.id < nextId + n /\ r.id \in Nat
  <2>1. PICK i \in 1..n : r.id = nextId + i - 1
    BY <1>1
  <2> QED
    BY <2>1 DEF TypeOK
<1>3. ASSUME NEW r \in RowsOf(n, batch, local), NEW q \in RowsOf(n, batch, local),
             r.id = q.id
      PROVE  r = q
  <2>1. PICK i \in 1..n : r = [id |-> nextId + i - 1, kind |-> batch[i].kind,
               ts |-> batch[i].ts, size |-> batch[i].size, local |-> local]
    BY <1>1
  <2>2. PICK j \in 1..n : q = [id |-> nextId + j - 1, kind |-> batch[j].kind,
               ts |-> batch[j].ts, size |-> batch[j].size, local |-> local]
    BY <1>1
  <2>3. i = j
    BY <1>3, <2>1, <2>2 DEF TypeOK
  <2> QED
    BY <2>1, <2>2, <2>3
<1> QED
  BY <1>2, <1>3

\* Every step preserves the reservation invariant.
LEMMA ReservationStep == ReservationInv /\ [Next]_vars => ReservationInv'
<1> SUFFICES ASSUME ReservationInv, [Next]_vars PROVE ReservationInv'
  OBVIOUS
<1>0. TypeInv' /\ TypeOK /\ IsFiniteSet(records)
  BY TypeStep DEF ReservationInv, TypeInv
<1> DEFINE Goal == /\ IdsFresh' /\ IdsUnique'
                   /\ OnePending' /\ ReservationIntact'
                   /\ LocalNeverBatched' /\ ShownOnce' /\ ExpiryCovered'
<1> SUFFICES Goal
  BY <1>0 DEF ReservationInv
<1>1. CASE Advance \/ StepBack \/ UNCHANGED vars
  <2>1. UNCHANGED <<records, pending, history, nextId, issued, lastPrune>>
    BY <1>1 DEF Advance, StepBack, vars, ghosts
  <2> QED
    BY <2>1 DEF ReservationInv, IdsFresh, IdsUnique, OnePending, ReservationIntact,
      LocalNeverBatched, ShownOnce, ExpiryCovered, Ids
<1>3. ASSUME NEW n \in 1..MaxAppend, NEW local \in BOOLEAN,
             NEW batch \in [1..n -> Inputs], AppendRows(n, batch, local)
      PROVE  Goal
  <2> DEFINE New == RowsOf(n, batch, local)
             R == records \union New
  <2>0. n \in Nat /\ n > 0
    BY LimitsAssumption
  <2>1. /\ nextId' = nextId + n /\ UNCHANGED <<now, issued>>
        /\ PruneTx(R, pending, history)
    BY <1>3 DEF AppendRows
  <2>2. R \subseteq Rows /\ IsFiniteSet(R)
    BY <1>0, <2>0, RowsOfType, RowsOfFinite, FS_Union DEF TypeOK
  <2>3. /\ \A r \in New : r.id >= nextId /\ r.id < nextId'
        /\ \A r, q \in New : r.id = q.id => r = q
    BY <1>0, <2>0, <2>1, RowsOfIds
  <2> HIDE DEF New
  <2>4. nextId \in Nat /\ nextId' \in Nat /\ nextId < nextId'
    BY <1>0, <2>0, <2>1 DEF TypeOK
  <2>5. /\ \A r \in records : r.id \in Nat /\ r.id < nextId
        /\ \A h \in history : h.id \in Nat /\ h.id < nextId
        /\ \A i \in issued : \A k \in i.ids : k \in Nat /\ k < nextId
        /\ \A r \in New : r.id \in Nat
    BY <1>0, <2>2 DEF ReservationInv, IdsFresh, TypeOK, Rows, HistoryRows, IssuedBatches
  <2>6. /\ \A r \in R : r.id < nextId'
        /\ \A h \in history : h.id < nextId'
        /\ \A i \in issued : \A k \in i.ids : k < nextId'
    BY <2>3, <2>4, <2>5
  <2>7. \A r, q \in R : r.id = q.id => r = q
    BY <2>3, <2>4, <2>5 DEF ReservationInv, IdsUnique
  <2>8. \A b \in pending : b.ids \subseteq Ids(R)
    BY DEF ReservationInv, ReservationIntact, Ids
  <2>9. \A r \in R, i \in issued : r.local => r.id \notin i.ids
    BY <2>3, <2>4, <2>5 DEF ReservationInv, LocalNeverBatched
  <2>10. Ids(R) \intersect Ids(history) = {}
    <3> SUFFICES ASSUME NEW r \in R, NEW h \in history, r.id = h.id
                 PROVE  FALSE
      BY DEF Ids
    <3>1. CASE r \in records
      BY <3>1 DEF ReservationInv, ShownOnce, Ids
    <3>2. CASE r \in New
      BY <2>3, <2>4, <2>5, <3>2
    <3> QED
      BY <3>1, <3>2
  <2>11. OnePending /\ history \subseteq HistoryRows
    BY <1>0 DEF ReservationInv, TypeOK
  <2> HIDE DEF R
  <2> QED
    BY <1>0, <2>1, <2>2, <2>4, <2>6, <2>7, <2>8, <2>9, <2>10, <2>11, PruneReservation
<1>4. ASSUME NEW b \in BatchIds, NextBatch(b)
      PROVE  Goal
  <2> DEFINE new == [batch |-> b, seq |-> nextSeq, ids |-> Ids(Selected), created |-> now]
             log == [batch |-> b, seq |-> nextSeq, ids |-> Ids(Selected), epoch |-> epoch]
  <2>1. /\ pending = {} /\ pending' = {new} /\ issued' = issued \union {log}
        /\ UNCHANGED <<records, history, nextId, lastPrune>>
    BY <1>4 DEF NextBatch
  <2>2. new.ids = Ids(Selected) /\ log.ids = Ids(Selected)
    OBVIOUS
  <2>3. Selected \subseteq records /\ \A r \in Selected : ~r.local
    BY DEF Selected, WithRoom, Scanned, Uploadable
  <2> HIDE DEF new, log
  <2>4. IdsFresh' /\ IdsUnique' /\ OnePending' /\ ShownOnce'
    BY <2>1, <2>2, <2>3 DEF ReservationInv, IdsFresh, IdsUnique, OnePending, ShownOnce, Ids
  <2>5. ReservationIntact'
    BY <2>1, <2>2, <2>3 DEF ReservationIntact, Ids
  <2>6. LocalNeverBatched'
    BY <2>1, <2>2, <2>3 DEF ReservationInv, LocalNeverBatched, IdsUnique, Ids
  <2>7. ExpiryCovered'
    BY <2>1 DEF ReservationInv, ExpiryCovered
  <2> QED
    BY <2>4, <2>5, <2>6, <2>7
<1>5. ASSUME NEW p \in pending, Ack(p)
      PROVE  Goal
  <2> DEFINE R == {r \in records : r.id \notin p.ids}
             H == history \union Retired(p)
  <2>1. /\ UNCHANGED <<now, issued, nextId>>
        /\ PruneTx(R, pending \ {p}, H)
    BY <1>5 DEF Ack
  <2>2. R \subseteq Rows /\ IsFiniteSet(R)
    BY <1>0, FS_Subset DEF TypeOK
  <2>3. H \subseteq HistoryRows
    BY <1>0 DEF Retired, HistoryRows, Rows, PendingRows, TypeOK
  <2>4. \A h \in Retired(p) : h.id \in p.ids /\ \E r \in records : h.id = r.id
    BY DEF Retired
  <2>5. /\ \A r \in R : r.id < nextId'
        /\ \A h \in H : h.id < nextId'
        /\ \A i \in issued : \A k \in i.ids : k < nextId'
    BY <2>1, <2>4 DEF ReservationInv, IdsFresh
  <2>6. \A r, q \in R : r.id = q.id => r = q
    BY DEF ReservationInv, IdsUnique
  <2>7. \A b \in pending \ {p} : b.ids \subseteq Ids(R)
    BY DEF ReservationInv, OnePending
  <2>8. \A r \in R, i \in issued : r.local => r.id \notin i.ids
    BY DEF ReservationInv, LocalNeverBatched
  <2>9. Ids(R) \intersect Ids(H) = {}
    BY <2>4 DEF ReservationInv, ShownOnce, Ids
  <2>10. OnePending /\ nextId' \in Nat
    BY <1>0, <2>1 DEF ReservationInv, TypeOK
  <2> HIDE DEF R, H
  <2> QED
    BY <1>0, <2>1, <2>2, <2>3, <2>5, <2>6, <2>7, <2>8, <2>9, <2>10, PruneReservation
<1>6. CASE Clear
  <2>1. /\ records' = {} /\ pending' = {} /\ history' = {}
        /\ UNCHANGED <<nextId, issued, lastPrune>>
    BY <1>6 DEF Clear
  <2> QED
    BY <2>1 DEF ReservationInv, IdsFresh, IdsUnique, OnePending, ReservationIntact,
      LocalNeverBatched, ShownOnce, ExpiryCovered, Ids
<1>7. CASE Reopen
  <2>1. /\ UNCHANGED <<now, issued, nextId>>
        /\ PruneTx(records, pending, history)
    BY <1>7 DEF Reopen
  <2>2. nextId' \in Nat /\ records \subseteq Rows /\ history \subseteq HistoryRows
    BY <1>0, <2>1 DEF TypeOK
  <2>3. /\ \A r \in records : r.id < nextId'
        /\ \A h \in history : h.id < nextId'
        /\ \A i \in issued : \A k \in i.ids : k < nextId'
        /\ \A r, q \in records : r.id = q.id => r = q
        /\ \A b \in pending : b.ids \subseteq Ids(records)
        /\ OnePending
        /\ \A r \in records, i \in issued : r.local => r.id \notin i.ids
        /\ Ids(records) \intersect Ids(history) = {}
    BY <2>1 DEF ReservationInv, IdsFresh, IdsUnique, ReservationIntact, LocalNeverBatched,
      ShownOnce
  <2> QED
    BY <1>0, <2>1, <2>2, <2>3, PruneReservation
<1> QED
  BY <1>1, <1>3, <1>4, <1>5, <1>6, <1>7 DEF Next

\* An empty spool satisfies it.
LEMMA ReservationInit == Init => ReservationInv
BY FS_EmptySet, LimitsAssumption
  DEF Init, ReservationInv, TypeInv, TypeOK, IdsFresh, IdsUnique, OnePending,
      ReservationIntact, LocalNeverBatched, ShownOnce, ExpiryCovered, Ids

\* There is at most one batch to retry and its rows stay in the spool until it
\* is acknowledged, expires or the spool is cleared; none of them is local-only;
\* no row is listed twice in the local history.  Holds whatever the clock does.
THEOREM Reservations ==
  Spec => [](OnePending /\ ReservationIntact /\ LocalNeverBatched /\ ShownOnce)
<1>1. ReservationInv => OnePending /\ ReservationIntact /\ LocalNeverBatched /\ ShownOnce
  BY DEF ReservationInv
<1> QED
  BY <1>1, ReservationInit, ReservationStep, PTL DEF Spec

\* A prune leaves nothing past the retention time, except rows under a reservation
\* that is itself within it; what is added between two prunes is pruned as it is
\* added.  Holds whatever the clock does.
THEOREM RetentionHeld == Spec => []ExpiryCovered
<1>1. ReservationInv => ExpiryCovered
  BY DEF ReservationInv
<1> QED
  BY <1>1, ReservationInit, ReservationStep, PTL DEF Spec

----------------------------------------------------------------------------
(* No row is batched twice, as long as the clock is not set back.  The       *)
(* strengthening: rows are not younger than the batch that reserves them, so *)
(* a batch that expires takes its rows with it; and a row still in the table *)
(* that was ever issued is under reservation by that very batch.             *)

Stamped ==
  /\ \A r \in records : r.ts <= now
  /\ \A b \in pending, r \in records : r.id \in b.ids => r.ts <= b.created

IssuedReserved ==
  \A r \in records, i \in issued :
    r.id \in i.ids => \E b \in pending : b.batch = i.batch /\ b.ids = i.ids

RebatchInv == ReservationInv /\ Stamped /\ IssuedReserved /\ NeverRebatched

\* What a prune does to the strengthening when it only adds fresh rows.
LEMMA PruneRebatch ==
  ASSUME RebatchInv, UNCHANGED <<now, issued>>,
         NEW STATE New, New \in SUBSET Rows,
         \A r \in New : r.id >= nextId /\ r.ts <= now,
         PruneTx(records \union New, pending, history)
  PROVE  Stamped' /\ IssuedReserved' /\ NeverRebatched'
<1>0. /\ TypeOK /\ OnePending /\ ReservationIntact
      /\ IdsFresh /\ Stamped /\ IssuedReserved /\ NeverRebatched
  BY DEF RebatchInv, ReservationInv, TypeInv
<1>1. /\ pending' = {b \in pending : b.created >= Cutoff}
      /\ records' \subseteq records \union New
      /\ \A r \in records' : ~(r.ts < Cutoff) \/ r.id \in Reserved(pending')
  BY PruneEffect
<1>2. \A r \in records : r.ts \in Nat /\ r.id \in Nat
  BY <1>0 DEF TypeOK, Rows
<1>3. \A r \in New : r.ts \in Nat /\ r.id \in Nat
  BY DEF Rows
<1>4. nextId \in Nat /\ now \in Nat /\ Cutoff \in Int
  BY <1>0, LimitsAssumption DEF TypeOK, Cutoff
<1>5. \A b \in pending : b.created \in Nat
  BY <1>0 DEF TypeOK, PendingRows
<1>6. Stamped'
  <2>1. \A r \in records' : r.ts <= now
    BY <1>0, <1>1 DEF Stamped
  <2>2. ASSUME NEW b \in pending', NEW r \in records', r.id \in b.ids
        PROVE  r.ts <= b.created
    <3>1. PICK q \in records : q.id = r.id
      BY <1>0, <1>1, <2>2 DEF ReservationIntact, Ids
    <3>2. r \in records
      BY <1>0, <1>1, <1>2, <1>3, <1>4, <3>1 DEF IdsFresh
    <3> QED
      BY <1>0, <1>1, <2>2, <3>2 DEF Stamped
  <2> QED
    BY <2>1, <2>2 DEF Stamped
<1>7. IssuedReserved'
  <2> SUFFICES ASSUME NEW r \in records', NEW i \in issued, r.id \in i.ids
               PROVE  \E b \in pending' : b.batch = i.batch /\ b.ids = i.ids
    BY DEF IssuedReserved
  <2>1. r.id < nextId
    BY <1>0 DEF IdsFresh
  <2>2. r \in records
    BY <1>1, <1>3, <1>4, <2>1
  <2>3. PICK b \in pending : b.batch = i.batch /\ b.ids = i.ids
    BY <1>0, <2>2 DEF IssuedReserved
  <2>4. ASSUME ~(b.created >= Cutoff) PROVE FALSE
    <3>1. r.ts <= b.created
      BY <1>0, <2>2, <2>3 DEF Stamped
    <3>2. r.ts < Cutoff
      BY <1>2, <1>4, <1>5, <2>2, <2>4, <3>1
    <3>3. PICK c \in pending' : r.id \in c.ids
      BY <1>1, <3>2 DEF Reserved
    <3>4. c = b
      BY <1>0, <1>1, <3>3 DEF OnePending
    <3> QED
      BY <1>1, <2>4, <3>3, <3>4
  <2> QED
    BY <1>1, <2>3, <2>4
<1>8. NeverRebatched'
  BY <1>0 DEF NeverRebatched
<1> QED
  BY <1>6, <1>7, <1>8

\* Every step of a clock that never goes back preserves the strengthening.
LEMMA RebatchStep ==
  ~ClockStepsBack /\ RebatchInv /\ [Next]_vars => RebatchInv'
<1> SUFFICES ASSUME ~ClockStepsBack, RebatchInv, [Next]_vars PROVE RebatchInv'
  OBVIOUS
<1>0. /\ ReservationInv' /\ TypeOK /\ OnePending /\ IdsUnique
      /\ Stamped /\ IssuedReserved /\ NeverRebatched
  BY ReservationStep DEF RebatchInv, ReservationInv, TypeInv
<1> SUFFICES Stamped' /\ IssuedReserved' /\ NeverRebatched'
  BY <1>0 DEF RebatchInv
<1>1. CASE Advance
  <2>1. now' = now + 1 /\ UNCHANGED <<records, pending, issued>>
    BY <1>1 DEF Advance, ghosts
  <2>2. \A r \in records : r.ts \in Nat
    BY <1>0 DEF TypeOK, Rows
  <2>3. Stamped'
    BY <1>0, <2>1, <2>2 DEF Stamped, TypeOK
  <2> QED
    BY <1>0, <2>1, <2>3 DEF IssuedReserved, NeverRebatched
<1>2. CASE StepBack
  BY <1>2 DEF StepBack
<1>3. ASSUME NEW n \in 1..MaxAppend, NEW local \in BOOLEAN,
             NEW batch \in [1..n -> Inputs], AppendRows(n, batch, local)
      PROVE  Stamped' /\ IssuedReserved' /\ NeverRebatched'
  <2> DEFINE New == RowsOf(n, batch, local)
  <2>0. n \in Nat
    BY LimitsAssumption
  <2>1. UNCHANGED <<now, issued>> /\ PruneTx(records \union New, pending, history)
    BY <1>3 DEF AppendRows
  <2>2. New \in SUBSET Rows
    BY <1>0, <2>0, RowsOfType
  <2>3. \A r \in New : r.id >= nextId
    BY <1>0, <2>0, RowsOfIds
  <2>4. \A r \in New : r.ts <= now
    BY <1>0 DEF RowsOf, Inputs, TypeOK
  <2> HIDE DEF New
  <2> QED
    BY <2>1, <2>2, <2>3, <2>4, PruneRebatch
<1>4. ASSUME NEW b \in BatchIds, NextBatch(b)
      PROVE  Stamped' /\ IssuedReserved' /\ NeverRebatched'
  <2> DEFINE new == [batch |-> b, seq |-> nextSeq, ids |-> Ids(Selected), created |-> now]
             log == [batch |-> b, seq |-> nextSeq, ids |-> Ids(Selected), epoch |-> epoch]
  <2>1. /\ pending = {} /\ pending' = {new} /\ issued' = issued \union {log}
        /\ UNCHANGED <<records, now>>
    BY <1>4 DEF NextBatch
  <2>2. /\ new.ids = log.ids /\ new.batch = log.batch /\ new.created = now
        /\ log.ids = Ids(Selected)
    OBVIOUS
  <2>3. Selected \subseteq records
    BY DEF Selected, WithRoom, Scanned, Uploadable
  <2> HIDE DEF new, log
  <2>4. \A r \in records, i \in issued : r.id \notin i.ids
    BY <1>0, <2>1 DEF IssuedReserved
  <2>5. Stamped'
    BY <1>0, <2>1, <2>2 DEF Stamped
  <2>6. IssuedReserved'
    BY <2>1, <2>2, <2>4 DEF IssuedReserved
  <2>7. \A i \in issued : i.ids \intersect log.ids = {}
    BY <2>2, <2>3, <2>4 DEF Ids
  <2>8. NeverRebatched'
    BY <1>0, <2>1, <2>7 DEF NeverRebatched
  <2> QED
    BY <2>5, <2>6, <2>8
<1>5. ASSUME NEW p \in pending, Ack(p)
      PROVE  Stamped' /\ IssuedReserved' /\ NeverRebatched'
  <2>1. /\ UNCHANGED <<now, issued>>
        /\ PruneTx({r \in records : r.id \notin p.ids}, pending \ {p},
                   history \union Retired(p))
    BY <1>5 DEF Ack
  <2>2. /\ records' \subseteq {r \in records : r.id \notin p.ids}
        /\ pending' = {b \in pending \ {p} : b.created >= Cutoff}
    BY <2>1, PruneEffect
  <2>3. pending = {p} /\ pending' = {}
    BY <1>0, <2>2 DEF OnePending
  <2>4. \A r \in records', i \in issued : r.id \notin i.ids
    BY <1>0, <2>2, <2>3 DEF IssuedReserved
  <2> QED
    BY <1>0, <2>1, <2>2, <2>3, <2>4 DEF Stamped, IssuedReserved, NeverRebatched
<1>6. CASE Clear
  BY <1>0, <1>6 DEF Clear, Stamped, IssuedReserved, NeverRebatched
<1>7. CASE Reopen
  <2>1. UNCHANGED <<now, issued>> /\ PruneTx(records, pending, history)
    BY <1>7 DEF Reopen
  <2> DEFINE None == {}
  <2>2. /\ None \in SUBSET Rows /\ records \union None = records
        /\ \A r \in None : r.id >= nextId /\ r.ts <= now
    OBVIOUS
  <2> HIDE DEF None
  <2>3. PruneTx(records \union None, pending, history)
    BY <2>1, <2>2
  <2> QED
    BY <2>1, <2>2, <2>3, PruneRebatch
<1>8. CASE UNCHANGED vars
  BY <1>0, <1>8 DEF vars, ghosts, Stamped, IssuedReserved, NeverRebatched
<1> QED
  BY <1>1, <1>2, <1>3, <1>4, <1>5, <1>6, <1>7, <1>8 DEF Next

\* With a clock that is never set back, no row is put in two batches, so the
\* controller, which deduplicates by batch id, never counts a row twice.
THEOREM RowsBatchedOnce ==
  ASSUME ~ClockStepsBack
  PROVE  Spec => []NeverRebatched
<1>1. Init => RebatchInv
  BY ReservationInit DEF Init, RebatchInv, Stamped, IssuedReserved, NeverRebatched
<1>2. RebatchInv /\ [Next]_vars => RebatchInv'
  BY RebatchStep
<1>3. RebatchInv => NeverRebatched
  BY DEF RebatchInv
<1> QED
  BY <1>1, <1>2, <1>3, PTL DEF Spec

----------------------------------------------------------------------------
(* The counter of dropped rows.  The strengthening: the acknowledged ids are *)
(* of rows that were added and are gone, so that every id given out since    *)
(* the last Clear is a live row, an acknowledged one or a dropped one.       *)

CountInv ==
  /\ IsFiniteSet(acked)
  /\ \A k \in acked : k < nextId
  /\ acked \intersect Ids(records) = {}
  /\ DroppedExact

\* As many ids as rows.
LEMMA CountIds ==
  ASSUME NEW R, IsFiniteSet(R), \A r, q \in R : r.id = q.id => r = q
  PROVE  IsFiniteSet(Ids(R)) /\ Cardinality(Ids(R)) = Cardinality(R)
<1> DEFINE f == [r \in R |-> r.id]
<1>1. f \in Surjection(R, Ids(R)) /\ f \in Injection(R, Ids(R))
  BY DEF Surjection, Injection, IsInjective, Ids
<1> HIDE DEF f
<1>2. /\ IsFiniteSet(Ids(R))
      /\ (Cardinality(Ids(R)) = Cardinality(R)) <=> f \in Injection(R, Ids(R))
  BY <1>1, FS_Surjection
<1> QED
  BY <1>1, <1>2

\* One append call adds as many rows as it is given records.
LEMMA RowsOfCount ==
  ASSUME TypeOK, NEW n \in Nat, NEW batch, NEW local
  PROVE  Cardinality(RowsOf(n, batch, local)) = n
<1> DEFINE Row(i) == [id |-> nextId + i - 1, kind |-> batch[i].kind, ts |-> batch[i].ts,
                      size |-> batch[i].size, local |-> local]
           f == [i \in 1..n |-> Row(i)]
<1>1. RowsOf(n, batch, local) = {Row(i) : i \in 1..n}
  BY DEF RowsOf
<1>2. \A i, j \in 1..n : Row(i) = Row(j) => i = j
  <2> SUFFICES ASSUME NEW i \in 1..n, NEW j \in 1..n, Row(i) = Row(j) PROVE i = j
    OBVIOUS
  <2>1. Row(i).id = Row(j).id
    OBVIOUS
  <2>2. nextId + i - 1 = nextId + j - 1
    BY <2>1
  <2> QED
    BY <2>2 DEF TypeOK
<1> HIDE DEF Row
<1>3. f \in Surjection(1..n, {Row(i) : i \in 1..n}) /\ f \in Injection(1..n, {Row(i) : i \in 1..n})
  BY <1>2 DEF Surjection, Injection, IsInjective
<1>4. IsFiniteSet(1..n) /\ Cardinality(1..n) = n
  BY FS_Interval
<1> DEFINE T == {Row(i) : i \in 1..n}
<1> HIDE DEF f, T
<1>5. f \in Surjection(1..n, T) /\ f \in Injection(1..n, T)
  BY <1>3 DEF T
<1>6. (Cardinality(T) = Cardinality(1..n)) <=> f \in Injection(1..n, T)
  BY <1>4, <1>5, FS_Surjection
<1> QED
  BY <1>1, <1>4, <1>5, <1>6 DEF T

\* What a prune adds to the counter: the rows it was given and did not leave.
LEMMA PruneCount ==
  ASSUME TypeOK, NEW STATE R, IsFiniteSet(R), NEW STATE P, NEW STATE H, PruneTx(R, P, H)
  PROVE  /\ dropped' = dropped + Cardinality(R) - Cardinality(records')
         /\ records' \subseteq R
         /\ Cardinality(R) \in Nat /\ Cardinality(records') \in Nat
<1>1. records' \subseteq R /\ dropped' = dropped + Cardinality(R \ records')
  BY PruneEffect
<1>2. IsFiniteSet(records')
  BY <1>1, FS_Subset
<1>3. Cardinality(R) \in Nat /\ Cardinality(records') \in Nat
  BY <1>2, FS_CardinalityType
<1>4. R \intersect records' = records'
  BY <1>1
<1>5. Cardinality(R \ records') = Cardinality(R) - Cardinality(records')
  BY <1>4, FS_Difference
<1> QED
  BY <1>1, <1>3, <1>5 DEF TypeOK

LEMMA CountStep ==
  ASSUME ReservationInv, CountInv, [Next]_vars
  PROVE  CountInv'
<1>0. /\ TypeOK /\ IsFiniteSet(records) /\ IdsFresh /\ IdsUnique
      /\ nextId \in Nat /\ firstId \in Nat /\ dropped \in Nat
      /\ \A r \in records : r.id \in Nat
      /\ \A k \in acked : k \in Nat
  BY DEF ReservationInv, TypeInv, TypeOK, Rows
<1>c. Cardinality(records) \in Nat /\ Cardinality(acked) \in Nat
  BY <1>0, FS_CardinalityType DEF CountInv
<1>1. ASSUME UNCHANGED <<records, acked, nextId, firstId, dropped>> PROVE CountInv'
  BY <1>1 DEF CountInv, DroppedExact, Ids
<1>2. CASE Advance \/ StepBack \/ UNCHANGED vars \/ \E b \in BatchIds : NextBatch(b)
  <2>1. UNCHANGED <<records, acked, nextId, firstId, dropped>>
    BY <1>2 DEF Advance, StepBack, vars, ghosts, NextBatch
  <2> QED
    BY <1>1, <2>1
<1>3. ASSUME NEW n \in 1..MaxAppend, NEW local \in BOOLEAN,
             NEW batch \in [1..n -> Inputs], AppendRows(n, batch, local)
      PROVE  CountInv'
  <2> DEFINE New == RowsOf(n, batch, local)
             R == records \union New
  <2>0. n \in Nat
    BY LimitsAssumption
  <2>1. /\ nextId' = nextId + n /\ UNCHANGED <<acked, firstId>>
        /\ PruneTx(R, pending, history)
    BY <1>3 DEF AppendRows
  <2>2. IsFiniteSet(New) /\ Cardinality(New) = n
    BY <1>0, <2>0, RowsOfFinite, RowsOfCount
  <2>3. \A r \in New : r.id >= nextId /\ r.id \in Nat
    BY <1>0, <2>0, RowsOfIds
  <2> HIDE DEF New
  <2>4. records \intersect New = {}
    BY <1>0, <2>3 DEF IdsFresh
  <2>5. IsFiniteSet(R) /\ Cardinality(R) = Cardinality(records) + n
    <3>1. Cardinality(records \intersect New) = 0
      BY <2>4, FS_EmptySet
    <3>2. /\ IsFiniteSet(R)
          /\ Cardinality(R) = Cardinality(records) + Cardinality(New) - Cardinality(records \intersect New)
      BY <1>0, <2>2, FS_Union
    <3> QED
      BY <1>c, <2>0, <2>2, <3>1, <3>2
  <2>6. acked \intersect Ids(R) = {}
    BY <1>0, <2>3 DEF CountInv, Ids
  <2> HIDE DEF R
  <2>7. /\ dropped' = dropped + Cardinality(R) - Cardinality(records') /\ records' \subseteq R
        /\ Cardinality(records') \in Nat
    BY <1>0, <2>1, <2>5, PruneCount
  <2>8. acked' \intersect Ids(records') = {}
    BY <2>1, <2>6, <2>7 DEF Ids
  <2>9. \A k \in acked' : k < nextId'
    BY <1>0, <2>0, <2>1 DEF CountInv
  <2>10. DroppedExact'
    BY <1>0, <1>c, <2>0, <2>1, <2>5, <2>7 DEF CountInv, DroppedExact
  <2> QED
    BY <2>1, <2>8, <2>9, <2>10 DEF CountInv, Ids
<1>4. ASSUME NEW p \in pending, Ack(p) PROVE CountInv'
  <2> DEFINE Q == {r \in records : r.id \in p.ids}
             R == {r \in records : r.id \notin p.ids}
             Gone == p.ids \intersect Ids(records)
  <2>1. /\ UNCHANGED <<nextId, firstId>> /\ acked' = acked \union Gone
        /\ PruneTx(R, pending \ {p}, history \union Retired(p))
    BY <1>4 DEF Ack
  <2>2. IsFiniteSet(Q) /\ IsFiniteSet(R)
    BY <1>0, FS_Subset
  <2>3. Gone = Ids(Q)
    BY DEF Ids
  <2>4. IsFiniteSet(Gone) /\ Cardinality(Gone) = Cardinality(Q)
    <3>1. \A r, q \in Q : r.id = q.id => r = q
      BY <1>0 DEF IdsUnique
    <3> QED
      BY <2>2, <2>3, <3>1, CountIds
  <2>5. Cardinality(R) = Cardinality(records) - Cardinality(Q)
    <3>1. R = records \ Q /\ records \intersect Q = Q
      OBVIOUS
    <3> HIDE DEF Q, R
    <3>2. Cardinality(records \ Q) = Cardinality(records) - Cardinality(records \intersect Q)
      BY <1>0, FS_Difference
    <3> QED
      BY <3>1, <3>2
  <2>6. acked \intersect Gone = {} /\ \A k \in Gone : k < nextId
    BY <1>0 DEF CountInv, IdsFresh, Ids
  <2>7. (acked \union Gone) \intersect Ids(R) = {}
    BY DEF CountInv, Ids
  <2>8. Cardinality(Q) \in Nat
    BY <2>2, FS_CardinalityType
  <2> HIDE DEF Q, R, Gone
  <2>9. IsFiniteSet(acked') /\ Cardinality(acked') = Cardinality(acked) + Cardinality(Q)
    <3>1. Cardinality(acked \intersect Gone) = 0
      BY <2>6, FS_EmptySet
    <3>2. /\ IsFiniteSet(acked \union Gone)
          /\ Cardinality(acked \union Gone) =
               Cardinality(acked) + Cardinality(Gone) - Cardinality(acked \intersect Gone)
      BY <2>4, FS_Union DEF CountInv
    <3> QED
      BY <1>c, <2>1, <2>4, <2>8, <3>1, <3>2
  <2>10. /\ dropped' = dropped + Cardinality(R) - Cardinality(records') /\ records' \subseteq R
         /\ Cardinality(records') \in Nat
    BY <1>0, <2>1, <2>2, PruneCount
  <2>11. DroppedExact'
    BY <1>0, <1>c, <2>1, <2>5, <2>8, <2>9, <2>10 DEF CountInv, DroppedExact
  <2>12. acked' \intersect Ids(records') = {}
    BY <2>1, <2>7, <2>10 DEF Ids
  <2> QED
    BY <2>1, <2>6, <2>9, <2>11, <2>12 DEF CountInv, Ids
<1>5. CASE Clear
  <2>1. records' = {} /\ acked' = {} /\ dropped' = 0 /\ firstId' = nextId /\ nextId' = nextId
    BY <1>5 DEF Clear
  <2> QED
    BY <1>0, <2>1, FS_EmptySet DEF CountInv, DroppedExact, Ids
<1>6. CASE Reopen
  <2>1. UNCHANGED <<nextId, firstId, acked>> /\ PruneTx(records, pending, history)
    BY <1>6 DEF Reopen
  <2>2. /\ dropped' = dropped + Cardinality(records) - Cardinality(records') /\ records' \subseteq records
        /\ Cardinality(records') \in Nat
    BY <1>0, <2>1, PruneCount
  <2>3. DroppedExact'
    BY <1>0, <1>c, <2>1, <2>2 DEF CountInv, DroppedExact
  <2> QED
    BY <2>1, <2>2, <2>3 DEF CountInv, Ids
<1> QED
  BY <1>2, <1>3, <1>4, <1>5, <1>6 DEF Next

\* The number of dropped records that telemetry reports is exact: over overflow,
\* expiry, acknowledgements, restarts and clears, every row given an id since the
\* last Clear is in the table, was acknowledged or is counted, and none twice.
THEOREM DropsCounted == Spec => []DroppedExact
<1>1. Init => CountInv
  BY FS_EmptySet DEF Init, CountInv, DroppedExact, Ids
<1>2. ReservationInv /\ CountInv /\ [Next]_vars => CountInv'
  BY CountStep
<1>3. CountInv => DroppedExact
  BY DEF CountInv
<1> QED
  BY <1>1, <1>2, <1>3, ReservationInit, ReservationStep, PTL DEF Spec

----------------------------------------------------------------------------
(* The bytes of a set of rows: MapThenSumSet is a sum, whatever row its      *)
(* recursion picks.                                                          *)

\* A non-empty set of subsets of a finite set has a smallest one; this is what
\* carries the inductions below.
LEMMA SmallestSubset ==
  ASSUME NEW S, IsFiniteSet(S), NEW C, C \in SUBSET (SUBSET S), C # {}
  PROVE  \E V \in C : \A W \in C : ~(W \subseteq V /\ W # V)
<1>1. IsWellFoundedOn(StrictSubsetOrdering(S), FiniteSubsetsOf(S)) /\ FiniteSubsetsOf(S) = SUBSET S
  BY FS_StrictSubsetOrderingWellFounded, FS_FiniteSubsetsOfFinite
<1>2. \E V \in C : \A W \in C : ~(<<W, V>> \in StrictSubsetOrdering(S))
  BY <1>1, WFMin
<1> QED
  BY <1>2 DEF StrictSubsetOrdering

\* So has a non-empty set of numbers.
LEMMA LeastNumber ==
  ASSUME NEW T, T \in SUBSET Nat, T # {}
  PROVE  \E m \in T : \A k \in T : m <= k
<1>1. PICK n \in T : TRUE
  OBVIOUS
<1> DEFINE C == {0..m : m \in {k \in T : k <= n}}
<1>2. IsFiniteSet(0..n) /\ n \in Nat
  BY FS_Interval
<1>3. C \in SUBSET (SUBSET (0..n)) /\ C # {}
  BY <1>2
<1>4. PICK V \in C : \A W \in C : ~(W \subseteq V /\ W # V)
  <2> DEFINE N == 0..n
  <2>1. IsFiniteSet(N) /\ C \in SUBSET (SUBSET N) /\ C # {}
    BY <1>2, <1>3
  <2> HIDE DEF C, N
  <2> QED
    BY <2>1, SmallestSubset
<1>5. PICK m \in T : V = 0..m /\ m <= n
  OBVIOUS
<1>6. ASSUME NEW k \in T PROVE m <= k
  <2>1. CASE k < m
    <3>1. k \in Nat /\ m \in Nat /\ k <= n
      BY <1>2, <1>5, <2>1
    <3>2. 0..k \in C
      BY <3>1
    <3>3. 0..k \subseteq 0..m /\ m \in 0..m /\ m \notin 0..k
      BY <2>1, <3>1
    <3> QED
      BY <1>4, <1>5, <3>2, <3>3
  <2> QED
    BY <2>1
<1> QED
  BY <1>6

\* The function on the subsets of S that Bytes is defined by.
Pick(s) == CHOOSE x \in s : TRUE
IsSum(g, S) == g = [s \in SUBSET S |-> IF s = {} THEN 0 ELSE Pick(s).size + g[s \ {Pick(s)}]]
Sum(S) == CHOOSE g : IsSum(g, S)

LEMMA BytesIsSum == ASSUME NEW S PROVE Bytes(S) = Sum(S)[S]
  BY DEF Bytes, MapThenSumSet, MapThenFoldSet, Pick, Sum, IsSum

\* The recursion behind Bytes is well defined on every finite set.
LEMMA SumDefined ==
  ASSUME NEW S, IsFiniteSet(S)
  PROVE  IsSum(Sum(S), S) /\ \A s \in SUBSET S : Sum(S)[s] = Bytes(s)
<1> DEFINE Good(V) == IsSum(Sum(V), V) /\ \A s \in SUBSET V : Sum(V)[s] = Bytes(s)
<1> DEFINE Bad == {V \in SUBSET S : ~Good(V)}
<1> HIDE DEF Good
<1>1. SUFFICES ASSUME Bad # {} PROVE FALSE
  BY DEF Good
<1>2. PICK V \in Bad : \A W \in Bad : ~(W \subseteq V /\ W # V)
  <2>1. Bad \in SUBSET (SUBSET S)
    OBVIOUS
  <2> HIDE DEF Bad
  <2> QED
    BY <1>1, <2>1, SmallestSubset
<1>3. \A W \in SUBSET V : W # V => Good(W)
  BY <1>2
<1>4. \A s : s # {} => Pick(s) \in s
  BY DEF Pick
<1>5. ASSUME NEW W \in SUBSET V, W # V
      PROVE  Bytes(W) = IF W = {} THEN 0 ELSE Pick(W).size + Bytes(W \ {Pick(W)})
  <2>1. IsSum(Sum(W), W) /\ \A s \in SUBSET W : Sum(W)[s] = Bytes(s)
    BY <1>3, <1>5 DEF Good
  <2>2. Sum(W)[W] = IF W = {} THEN 0 ELSE Pick(W).size + Sum(W)[W \ {Pick(W)}]
    BY <2>1 DEF IsSum
  <2> QED
    BY <2>1, <2>2
<1> DEFINE g == [s \in SUBSET V |-> IF s = {} THEN 0 ELSE Pick(s).size + Bytes(s \ {Pick(s)})]
<1>6. IsSum(g, V)
  <2>1. ASSUME NEW s \in SUBSET V, s # {} PROVE g[s \ {Pick(s)}] = Bytes(s \ {Pick(s)})
    <3>1. s \ {Pick(s)} \in SUBSET V /\ s \ {Pick(s)} # V
      BY <1>4, <2>1
    <3> QED
      BY <1>5, <3>1
  <2> QED
    BY <2>1 DEF IsSum
<1> HIDE DEF g
<1>7. IsSum(Sum(V), V)
  BY <1>6 DEF IsSum, Sum
<1>8. \A s \in SUBSET V : Sum(V)[s] = Bytes(s)
  <2> DEFINE Off == {s \in SUBSET V : Sum(V)[s] # Bytes(s)}
  <2>1. SUFFICES ASSUME Off # {} PROVE FALSE
    OBVIOUS
  <2>2. IsFiniteSet(V)
    BY FS_Subset
  <2>3. PICK s \in Off : \A W \in Off : ~(W \subseteq s /\ W # s)
    <3>1. Off \in SUBSET (SUBSET V)
      OBVIOUS
    <3> HIDE DEF Off
    <3> QED
      BY <2>1, <2>2, <3>1, SmallestSubset
  <2>4. s # V
    BY BytesIsSum
  <2>5. Bytes(s) = IF s = {} THEN 0 ELSE Pick(s).size + Bytes(s \ {Pick(s)})
    BY <1>5, <2>4
  <2>6. Sum(V)[s] = IF s = {} THEN 0 ELSE Pick(s).size + Sum(V)[s \ {Pick(s)}]
    BY <1>7 DEF IsSum
  <2>7. s # {} => Sum(V)[s \ {Pick(s)}] = Bytes(s \ {Pick(s)})
    BY <1>4, <2>3
  <2> QED
    BY <2>5, <2>6, <2>7
<1> QED
  BY <1>7, <1>8 DEF Good

LEMMA SumFirst ==
  ASSUME NEW S, IsFiniteSet(S)
  PROVE  Bytes(S) = IF S = {} THEN 0 ELSE Pick(S).size + Bytes(S \ {Pick(S)})
<1>1. IsSum(Sum(S), S) /\ \A s \in SUBSET S : Sum(S)[s] = Bytes(s)
  BY SumDefined
<1>2. Sum(S)[S] = IF S = {} THEN 0 ELSE Pick(S).size + Sum(S)[S \ {Pick(S)}]
  BY <1>1 DEF IsSum
<1> QED
  BY <1>1, <1>2

Sized(S) == IsFiniteSet(S) /\ \A r \in S : r.size \in Nat

\* It does not matter which row is counted first.
LEMMA SumRemove ==
  ASSUME NEW S, Sized(S)
  PROVE  /\ Bytes(S) \in Nat /\ (S = {} => Bytes(S) = 0)
         /\ \A x \in S : Bytes(S) = x.size + Bytes(S \ {x})
<1> DEFINE Good(V) == Bytes(V) \in Nat /\ \A x \in V : Bytes(V) = x.size + Bytes(V \ {x})
           Bad == {V \in SUBSET S : ~Good(V)}
<1> HIDE DEF Good
<1>0. Bytes({}) = 0
  BY FS_EmptySet, SumFirst
<1>1. SUFFICES ASSUME Bad # {} PROVE FALSE
  BY <1>0 DEF Good
<1>2. PICK V \in Bad : \A W \in Bad : ~(W \subseteq V /\ W # V)
  <2>1. Bad \in SUBSET (SUBSET S)
    OBVIOUS
  <2> HIDE DEF Bad
  <2> QED
    BY <1>1, <2>1, SmallestSubset DEF Sized
<1>3. \A W \in SUBSET V : W # V => Good(W)
  BY <1>2
<1>4. IsFiniteSet(V) /\ \A r \in V : r.size \in Nat
  BY FS_Subset DEF Sized
<1>5. V # {} /\ Pick(V) \in V
  <2>1. Good({})
    BY <1>0 DEF Good
  <2>2. V # {}
    BY <1>2, <2>1
  <2> QED
    BY <2>2 DEF Pick
<1> DEFINE p == Pick(V)
<1>6. Bytes(V) = p.size + Bytes(V \ {p})
  BY <1>4, <1>5, SumFirst
<1> HIDE DEF p
<1>7. p \in V /\ p.size \in Nat /\ Good(V \ {p})
  BY <1>3, <1>4, <1>5 DEF p
<1>8. Bytes(V) \in Nat
  BY <1>6, <1>7 DEF Good
<1>9. ASSUME NEW x \in V PROVE Bytes(V) = x.size + Bytes(V \ {x})
  <2>1. CASE x = p
    BY <1>6, <2>1
  <2>2. CASE x # p
    <3>1. Good(V \ {x}) /\ p \in V \ {x} /\ x \in V \ {p}
      BY <1>3, <1>7, <2>2
    <3>2. Bytes(V \ {p}) = x.size + Bytes((V \ {p}) \ {x})
      BY <1>7, <3>1 DEF Good
    <3>3. Bytes(V \ {x}) = p.size + Bytes((V \ {x}) \ {p})
      BY <3>1 DEF Good
    <3>4. (V \ {x}) \ {p} = (V \ {p}) \ {x}
      OBVIOUS
    <3>5. Good((V \ {p}) \ {x})
      BY <1>3, <1>7
    <3>6. Bytes((V \ {p}) \ {x}) \in Nat /\ x.size \in Nat
      BY <1>4, <3>5 DEF Good
    <3>7. Bytes(V) = p.size + (x.size + Bytes((V \ {p}) \ {x}))
      BY <1>6, <3>2
    <3>8. Bytes(V \ {x}) = p.size + Bytes((V \ {p}) \ {x})
      BY <3>3, <3>4
    <3> DEFINE b == Bytes((V \ {p}) \ {x})
    <3>9. p.size + (x.size + b) = x.size + (p.size + b)
      <4> HIDE DEF b
      <4>1. b \in Nat
        BY <3>6 DEF b
      <4> QED
        BY <1>7, <3>6, <4>1
    <3> QED
      BY <3>7, <3>8, <3>9
  <2> QED
    BY <2>1, <2>2
<1> QED
  BY <1>2, <1>8, <1>9 DEF Good

\* The bytes of a set are those of a part and those of the rest.
LEMMA SumSplit ==
  ASSUME NEW S, Sized(S), NEW T \in SUBSET S
  PROVE  /\ Bytes(S) \in Nat /\ Bytes(T) \in Nat /\ Bytes(S \ T) \in Nat
         /\ Bytes(S) = Bytes(T) + Bytes(S \ T)
<1> DEFINE Bad == {V \in SUBSET S : Bytes(S) # Bytes(V) + Bytes(S \ V)}
<1>0. \A V \in SUBSET S : Sized(V)
  BY FS_Subset DEF Sized
<1>1. \A V \in SUBSET S : Bytes(V) \in Nat
  BY <1>0, SumRemove
<1>2. SUFFICES ASSUME Bad # {} PROVE FALSE
  BY <1>1
<1>3. PICK V \in Bad : \A W \in Bad : ~(W \subseteq V /\ W # V)
  <2>1. Bad \in SUBSET (SUBSET S)
    OBVIOUS
  <2> HIDE DEF Bad
  <2> QED
    BY <1>2, <2>1, SmallestSubset DEF Sized
<1>4. V # {}
  <2>1. Bytes({}) = 0 /\ S \ {} = S
    BY <1>0, SumRemove
  <2> QED
    BY <1>1, <2>1
<1>5. PICK x \in V : TRUE
  BY <1>4
<1> DEFINE W == V \ {x}
<1>6. Bytes(S) = Bytes(W) + Bytes(S \ W)
  BY <1>3, <1>5
<1>7. Bytes(V) = x.size + Bytes(W)
  BY <1>0, SumRemove
<1>8. x \in S \ W /\ (S \ W) \ {x} = S \ V
  OBVIOUS
<1> HIDE DEF W
<1>9. Bytes(S \ W) = x.size + Bytes(S \ V)
  <2>1. S \ W \in SUBSET S
    OBVIOUS
  <2>2. Bytes(S \ W) = x.size + Bytes((S \ W) \ {x})
    BY <1>0, <1>8, <2>1, SumRemove
  <2> QED
    BY <1>8, <2>2
<1>10. x.size \in Nat /\ Bytes(W) \in Nat /\ Bytes(S \ V) \in Nat
  BY <1>1 DEF Sized, W
<1> QED
  BY <1>6, <1>7, <1>9, <1>10

----------------------------------------------------------------------------
(* The byte budget. *)

\* Shedding whole chunks of history, oldest first, leaves none, or so little that
\* it fits the budget beside the records.
LEMMA HistoryShed ==
  ASSUME NEW R, Sized(R), NEW H, Sized(H)
  PROVE  LET kept == H \ HistoryOverflow(R, H)
         IN  kept = {} \/ Bytes(R) + Bytes(kept) <= MaxBytes
<1> DEFINE kept == H \ HistoryOverflow(R, H)
<1> SUFFICES ASSUME kept # {} PROVE Bytes(R) + Bytes(kept) <= MaxBytes
  OBVIOUS
<1>1. \A h \in H : ChunkOf(H, h) \in Nat
  <2> SUFFICES ASSUME NEW h \in H PROVE ChunkOf(H, h) \in Nat
    OBVIOUS
  <2>1. IsFiniteSet({g \in H : Before(g, h)})
    BY FS_Subset DEF Sized
  <2>2. Cardinality({g \in H : Before(g, h)}) \in Nat /\ HistoryChunk \in Nat \ {0}
    BY <2>1, FS_CardinalityType, LimitsAssumption
  <2> QED
    BY <2>2 DEF ChunkOf
<1> DEFINE Chunks == {ChunkOf(H, h) : h \in kept}
<1>2. PICK h \in kept : \A g \in kept : ChunkOf(H, h) <= ChunkOf(H, g)
  <2>1. Chunks \in SUBSET Nat /\ Chunks # {}
    BY <1>1
  <2>2. \E m \in Chunks : \A k \in Chunks : m <= k
    <3> HIDE DEF Chunks
    <3> QED
      BY <2>1, LeastNumber
  <2> QED
    BY <2>2
<1> DEFINE From == {g \in H : ChunkOf(H, g) >= ChunkOf(H, h)}
<1>3. ~(Bytes(R) + Bytes(From) > MaxBytes)
  BY DEF HistoryOverflow
<1>4. kept \in SUBSET From
  BY <1>1, <1>2
<1>5. Sized(From)
  BY FS_Subset DEF Sized
<1> HIDE DEF From, kept
<1>6. /\ Bytes(From) \in Nat /\ Bytes(kept) \in Nat /\ Bytes(From \ kept) \in Nat
      /\ Bytes(From) = Bytes(kept) + Bytes(From \ kept)
  BY <1>4, <1>5, SumSplit
<1>7. Bytes(R) \in Nat /\ MaxBytes \in Nat
  BY SumRemove, LimitsAssumption
<1> QED
  BY <1>3, <1>6, <1>7

\* Shedding unreserved records, oldest first, leaves none of them, or few enough.
LEMMA RecordsShed ==
  ASSUME NEW R, Sized(R), \A r \in R : r.id \in Nat, NEW H, Sized(H), NEW P
  PROVE  LET kept == R \ RecordOverflow(R, H, P)
         IN  Unreserved(kept, P) = {} \/ Bytes(kept) + Bytes(H) <= MaxBytes
<1> DEFINE U == Unreserved(R, P)
           kept == R \ RecordOverflow(R, H, P)
           Left == {r \in kept : r \in U}
<1>0. U \subseteq R /\ Unreserved(kept, P) = Left
  BY DEF Unreserved
<1> SUFFICES ASSUME Left # {} PROVE Bytes(kept) + Bytes(H) <= MaxBytes
  BY <1>0
<1> DEFINE Numbers == {r.id : r \in Left}
<1>1. PICK r \in Left : \A q \in Left : r.id <= q.id
  <2>1. Numbers \in SUBSET Nat /\ Numbers # {}
    OBVIOUS
  <2>2. \E m \in Numbers : \A k \in Numbers : m <= k
    <3> HIDE DEF Numbers
    <3> QED
      BY <2>1, LeastNumber
  <2> QED
    BY <2>2
<1> DEFINE Old == Older(U, r)
<1>2. ~(Bytes(H) + Bytes(R) - Bytes(Old) > MaxBytes)
  BY DEF RecordOverflow
<1>3. Old \in SUBSET R /\ kept \in SUBSET (R \ Old)
  <2>1. Old \in SUBSET U
    BY DEF Older
  <2>2. ASSUME NEW q \in Old, q \in kept PROVE FALSE
    <3>1. q \in Left /\ q.id < r.id
      BY <2>1, <2>2 DEF Older
    <3>2. r.id \in Nat /\ q.id \in Nat
      BY <3>1
    <3> QED
      BY <1>1, <3>1, <3>2
  <2> QED
    BY <1>0, <2>1, <2>2
<1> HIDE DEF Old, kept, U, Left
<1>4. Sized(R \ Old)
  BY FS_Subset DEF Sized
<1>5. /\ Bytes(R) \in Nat /\ Bytes(Old) \in Nat /\ Bytes(R \ Old) \in Nat
      /\ Bytes(R) = Bytes(Old) + Bytes(R \ Old)
  BY <1>3, SumSplit
<1>6. /\ Bytes(kept) \in Nat /\ Bytes((R \ Old) \ kept) \in Nat
      /\ Bytes(R \ Old) = Bytes(kept) + Bytes((R \ Old) \ kept)
  BY <1>3, <1>4, SumSplit
<1>7. Bytes(H) \in Nat /\ MaxBytes \in Nat
  BY SumRemove, LimitsAssumption
<1> QED
  BY <1>2, <1>5, <1>6, <1>7

\* What pruneTx leaves is within the budget, or is only the pending batch.
LEMMA PruneBudget ==
  ASSUME NEW STATE R, Sized(R), \A r \in R : r.id \in Nat, NEW STATE H, Sized(H), NEW STATE P, PruneTx(R, P, H)
  PROVE  BudgetHeld'
<1> DEFINE P1 == {b \in P : b.created >= Cutoff}
           R1 == R \ {r \in Unreserved(R, P1) : r.ts < Cutoff}
           H1 == {h \in H : h.ts >= Cutoff}
           H2 == H1 \ HistoryOverflow(R1, H1)
           R2 == R1 \ RecordOverflow(R1, H2, P1)
<1>1. pending' = P1 /\ records' = R2 /\ history' = H2
  BY DEF PruneTx
<1>2. R1 \in SUBSET R /\ H1 \in SUBSET H /\ H2 \in SUBSET H1 /\ R2 \in SUBSET R1
  OBVIOUS
<1>3. \A S \in SUBSET R : Sized(S)
  BY FS_Subset DEF Sized
<1>4. \A S \in SUBSET H : Sized(S)
  BY FS_Subset DEF Sized
<1> HIDE DEF R1, H1, P1
<1>5. H2 = {} \/ Bytes(R1) + Bytes(H2) <= MaxBytes
  BY <1>2, <1>3, <1>4, HistoryShed
<1> HIDE DEF H2
<1>6. Unreserved(R2, P1) = {} \/ Bytes(R2) + Bytes(H2) <= MaxBytes
  <2>1. Sized(R1) /\ Sized(H2) /\ \A r \in R1 : r.id \in Nat
    BY <1>2, <1>3, <1>4
  <2> QED
    BY <2>1, RecordsShed
<1> HIDE DEF R2
<1>7. /\ Bytes(R1) = Bytes(R2) + Bytes(R1 \ R2)
      /\ Bytes(R1) \in Nat /\ Bytes(R2) \in Nat /\ Bytes(R1 \ R2) \in Nat
  BY <1>2, <1>3, SumSplit
<1>8. Bytes(H2) \in Nat /\ MaxBytes \in Nat
  <2>1. Sized(H2)
    BY <1>2, <1>4
  <2> QED
    BY <2>1, SumRemove, LimitsAssumption
<1>9. \/ Bytes(R2) + Bytes(H2) <= MaxBytes
      \/ H2 = {} /\ Unreserved(R2, P1) = {}
  BY <1>5, <1>6, <1>7, <1>8
<1> QED
  BY <1>1, <1>9 DEF BudgetHeld

BudgetInv == IsFiniteSet(history) /\ BudgetHeld

LEMMA BudgetStep ==
  ASSUME ReservationInv, BudgetInv, [Next]_vars
  PROVE  BudgetInv'
<1>0. /\ TypeOK /\ IsFiniteSet(records) /\ Sizes \subseteq Nat
      /\ \A r \in Rows : r.size \in Sizes /\ r.id \in Nat
      /\ \A h \in HistoryRows : h.size \in Sizes
  BY LimitsAssumption DEF ReservationInv, TypeInv, Rows, HistoryRows
<1>1. ASSUME NEW STATE R, R \in SUBSET Rows, IsFiniteSet(R), NEW STATE P,
             NEW STATE H, H \in SUBSET HistoryRows, IsFiniteSet(H), PruneTx(R, P, H)
      PROVE  BudgetInv'
  <2>1. Sized(R) /\ Sized(H) /\ \A r \in R : r.id \in Nat
    BY <1>0, <1>1 DEF Sized
  <2>2. BudgetHeld'
    BY <1>1, <2>1, PruneBudget
  <2>3. history' \subseteq H
    BY <1>1, PruneEffect
  <2>4. IsFiniteSet(history')
    BY <1>1, <2>3, FS_Subset
  <2> QED
    BY <2>2, <2>4 DEF BudgetInv
<1>2. CASE Advance \/ StepBack \/ UNCHANGED vars
  <2>1. UNCHANGED <<records, pending, history>>
    BY <1>2 DEF Advance, StepBack, vars
  <2> QED
    BY <2>1 DEF BudgetInv, BudgetHeld
<1>3. ASSUME NEW n \in 1..MaxAppend, NEW local \in BOOLEAN,
             NEW batch \in [1..n -> Inputs], AppendRows(n, batch, local)
      PROVE  BudgetInv'
  <2> DEFINE R == records \union RowsOf(n, batch, local)
  <2>0. n \in Nat
    BY LimitsAssumption
  <2>1. R \in SUBSET Rows /\ IsFiniteSet(R) /\ history \in SUBSET HistoryRows /\ IsFiniteSet(history)
    BY <1>0, <2>0, RowsOfType, RowsOfFinite, FS_Union DEF TypeOK, BudgetInv
  <2>2. PruneTx(R, pending, history)
    BY <1>3 DEF AppendRows
  <2> HIDE DEF R
  <2> QED
    BY <1>1, <2>1, <2>2
<1>4. ASSUME NEW b \in BatchIds, NextBatch(b) PROVE BudgetInv'
  <2>1. pending = {} /\ UNCHANGED <<records, history>>
    BY <1>4 DEF NextBatch
  <2>2. Unreserved(records, pending') \subseteq Unreserved(records, pending)
    BY <2>1 DEF Unreserved, Reserved
  <2> QED
    BY <2>1, <2>2 DEF BudgetInv, BudgetHeld
<1>5. ASSUME NEW p \in pending, Ack(p) PROVE BudgetInv'
  <2> DEFINE R == {r \in records : r.id \notin p.ids}
             Q == {q \in records : q.id \in p.ids /\ q.id \notin Ids(history)}
             H == history \union Retired(p)
             f == [r \in Q |-> [id |-> r.id, ts |-> r.ts, size |-> r.size, seq |-> p.seq]]
  <2>1. R \in SUBSET Rows /\ IsFiniteSet(R) /\ IsFiniteSet(Q)
    BY <1>0, FS_Subset DEF TypeOK
  <2>2. H \in SUBSET HistoryRows
    BY <1>0 DEF Retired, HistoryRows, Rows, PendingRows, TypeOK
  <2>3. f \in Surjection(Q, Retired(p))
    BY DEF Surjection, Retired
  <2>4. PruneTx(R, pending \ {p}, H)
    BY <1>5 DEF Ack
  <2> HIDE DEF f, Q
  <2>5. IsFiniteSet(Retired(p))
    BY <2>1, <2>3, FS_Surjection
  <2>6. IsFiniteSet(H)
    BY <2>5, FS_Union DEF BudgetInv
  <2> HIDE DEF R, H
  <2> QED
    BY <1>1, <2>1, <2>2, <2>4, <2>6
<1>6. CASE Clear
  <2>1. records' = {} /\ history' = {}
    BY <1>6 DEF Clear
  <2>2. Bytes({}) = 0 /\ IsFiniteSet({}) /\ MaxBytes \in Nat
    BY FS_EmptySet, SumFirst, LimitsAssumption
  <2> QED
    BY <2>1, <2>2 DEF BudgetInv, BudgetHeld
<1>7. CASE Reopen
  <2>1. records \in SUBSET Rows /\ history \in SUBSET HistoryRows /\ IsFiniteSet(history)
    BY <1>0 DEF TypeOK, BudgetInv
  <2>2. PruneTx(records, pending, history)
    BY <1>7 DEF Reopen
  <2> QED
    BY <1>0, <1>1, <2>1, <2>2
<1> QED
  BY <1>2, <1>3, <1>4, <1>5, <1>6, <1>7 DEF Next

\* The telemetry kept is within its byte budget after every operation, for any
\* sizes, chunk and limits, unless all that is left is the batch waiting to be
\* acknowledged, which must not be touched.
THEOREM BudgetKept == Spec => []BudgetHeld
<1>1. Init => BudgetInv
  <2>1. Bytes({}) = 0 /\ IsFiniteSet({}) /\ MaxBytes \in Nat
    BY FS_EmptySet, SumFirst, LimitsAssumption
  <2> QED
    BY <2>1 DEF Init, BudgetInv, BudgetHeld
<1>2. ReservationInv /\ BudgetInv /\ [Next]_vars => BudgetInv'
  BY BudgetStep
<1>3. BudgetInv => BudgetHeld
  BY DEF BudgetInv
<1> QED
  BY <1>1, <1>2, <1>3, ReservationInit, ReservationStep, PTL DEF Spec

----------------------------------------------------------------------------
(* The spool inside the composition. *)

\* A step of the composition is a step of the spool.
LEMMA SpoolStep == [DeliveryNext]_dvars => [Next]_vars
<1> SUFFICES ASSUME [DeliveryNext]_dvars PROVE [Next]_vars
  OBVIOUS
<1>1. CASE \/ \E b \in BatchIds : TickReserve(b)
           \/ Purge \/ PurgeStale \/ DisconnectSensor \/ Crash
  BY <1>1 DEF TickReserve, Purge, PurgeStale, DisconnectSensor, Crash, Next
<1>2. CASE Concurrent
  BY <1>2 DEF Concurrent, Next
<1>3. ASSUME NEW p \in sending, TickAck(p) PROVE [Next]_vars
  BY <1>3 DEF TickAck, Next
<1>4. CASE \/ TickRetry \/ TickHeartbeat \/ TickAckFails \/ HeartbeatAnswered \/ RequestFails
           \/ TickRevoked \/ Enroll \/ PublishConfig \/ RevokeSensor
           \/ (\E p \in sending : IngestAnswered(p) \/ IngestLost(p))
           \/ (\E v \in 1..MaxVersion : ConfigAnswered(v))
           \/ (\E m \in late : LateArrival(m))
           \/ UNCHANGED dvars
  <2>1. UNCHANGED vars
    BY <1>4 DEF TickRetry, TickHeartbeat, TickAckFails, HeartbeatAnswered, RequestFails,
                TickRevoked, Enroll, PublishConfig, RevokeSensor, IngestAnswered, IngestLost,
                ConfigAnswered, LateArrival, dvars
  <2> QED
    BY <2>1
<1> QED
  BY <1>1, <1>2, <1>3, <1>4 DEF DeliveryNext

\* Whatever but NextBatch happens to the spool, no batch is issued and none becomes
\* pending.
LEMMA PendingShrinks ==
  ASSUME \/ Advance \/ StepBack \/ Clear \/ Reopen \/ UNCHANGED vars
         \/ (\E p \in pending : Ack(p))
         \/ (\E n \in 1..MaxAppend, local \in BOOLEAN :
               \E batch \in [1..n -> Inputs] : AppendRows(n, batch, local))
  PROVE  issued' = issued /\ pending' \subseteq pending
<1>1. ASSUME NEW n \in 1..MaxAppend, NEW local \in BOOLEAN,
             NEW batch \in [1..n -> Inputs], AppendRows(n, batch, local)
      PROVE  issued' = issued /\ pending' \subseteq pending
  <2> DEFINE R == records \union RowsOf(n, batch, local)
  <2>1. issued' = issued /\ PruneTx(R, pending, history)
    BY <1>1 DEF AppendRows
  <2> HIDE DEF R
  <2>2. pending' = {b \in pending : b.created >= Cutoff}
    BY <2>1, PruneEffect, Zenon
  <2> QED
    BY <2>1, <2>2
<1>2. ASSUME NEW p \in pending, Ack(p)
      PROVE  issued' = issued /\ pending' \subseteq pending
  <2> DEFINE R == {r \in records : r.id \notin p.ids}
             P == pending \ {p}
             H == history \union Retired(p)
  <2>1. issued' = issued /\ PruneTx(R, P, H)
    BY <1>2 DEF Ack
  <2>2. P \subseteq pending
    OBVIOUS
  <2> HIDE DEF R, P, H
  <2>3. pending' = {b \in P : b.created >= Cutoff}
    BY <2>1, PruneEffect, Zenon
  <2> QED
    BY <2>1, <2>2, <2>3
<1>3. CASE Reopen
  <2>1. issued' = issued /\ PruneTx(records, pending, history)
    BY <1>3 DEF Reopen
  <2>2. pending' = {b \in pending : b.created >= Cutoff}
    BY <2>1, PruneEffect
  <2>3. pending' \subseteq pending
    BY <2>2
  <2> QED
    BY <2>1, <2>3
<1>4. CASE Advance \/ StepBack \/ Clear \/ UNCHANGED vars
  BY <1>4 DEF Advance, StepBack, Clear, vars, ghosts
<1> QED
  BY <1>1, <1>2, <1>3, <1>4

\* NextBatch issues what it makes pending, under a new id.
LEMMA NextBatchIssues ==
  ASSUME NEW b, NextBatch(b)
  PROVE  \E new, log :
           /\ pending' = {new} /\ issued' = issued \union {log}
           /\ new.batch = b /\ log.batch = b /\ new.ids = log.ids
           /\ \A i \in issued : i.batch # b
<1> DEFINE new == [batch |-> b, seq |-> nextSeq, ids |-> Ids(Selected), created |-> now]
           log == [batch |-> b, seq |-> nextSeq, ids |-> Ids(Selected), epoch |-> epoch]
<1>1. /\ pending' = {new} /\ issued' = issued \union {log}
      /\ \A i \in issued : i.batch # b
  BY DEF NextBatch
<1>2. new.batch = b /\ log.batch = b /\ new.ids = log.ids
  OBVIOUS
<1> HIDE DEF new, log
<1> QED
  BY <1>1, <1>2

\* What was issued stays issued, and what is pending was issued.
LEMMA IssuedGrows ==
  ASSUME [Next]_vars
  PROVE  /\ issued \subseteq issued'
         /\ \A p \in pending' : p \in pending \/ \E i \in issued' : i.batch = p.batch /\ i.ids = p.ids
<1>1. ASSUME NEW b \in BatchIds, NextBatch(b)
      PROVE  /\ issued \subseteq issued'
             /\ \A p \in pending' : \E i \in issued' : i.batch = p.batch /\ i.ids = p.ids
  BY <1>1, NextBatchIssues
<1>2. CASE ~\E b \in BatchIds : NextBatch(b)
  <2>1. issued' = issued /\ pending' \subseteq pending
    BY <1>2, PendingShrinks DEF Next
  <2> QED
    BY <2>1
<1> QED
  BY <1>1, <1>2

----------------------------------------------------------------------------
(* Retries. *)

\* What a batch id was issued for.
Reserves(b, ids) == \E i \in issued : i.batch = b /\ i.ids = ids

\* Everything that is pending or on its way, or arrived, is what was issued.
RetryInv ==
  /\ \A p \in pending \union sending : Reserves(p.batch, p.ids)
  /\ \A m \in late \union accepted : Reserves(m.batch, m.ids)

\* An upload carries the claim in use and the rows of its batch.
LEMMA UploadFields ==
  ASSUME NEW p
  PROVE  Upload(p).claim = claim /\ Upload(p).batch = p.batch /\ Upload(p).ids = p.ids
  BY DEF Upload

\* What a Tick and the network do to the uploads.
LEMMA UploadsMove ==
  ASSUME [DeliveryNext]_dvars
  PROVE  /\ sending' \subseteq sending \union pending'
         /\ late' \union accepted' \subseteq late \union accepted \union {Upload(p) : p \in sending}
<1> USE DEF sensor, tick, controller, uploader
<1>1. CASE \E b \in BatchIds : TickReserve(b)
  BY <1>1 DEF TickReserve, Begin
<1>2. CASE TickRetry \/ TickHeartbeat
  BY <1>2 DEF TickRetry, TickHeartbeat, Begin, vars
<1>3. ASSUME NEW p \in sending, IngestAnswered(p) \/ IngestLost(p)
      PROVE  /\ sending' \subseteq sending
             /\ late' \union accepted' \subseteq late \union accepted \union {Upload(q) : q \in sending}
  BY <1>3 DEF IngestAnswered, IngestLost, Stored, Finish
<1>4. ASSUME NEW p \in sending, TickAck(p) PROVE sending' \subseteq sending /\ UNCHANGED <<late, accepted>>
  BY <1>4 DEF TickAck, Continue, Finish
<1>5. CASE TickAckFails \/ HeartbeatAnswered \/ RequestFails \/ TickRevoked
           \/ \E v \in 1..MaxVersion : ConfigAnswered(v)
  BY <1>5 DEF TickAckFails, HeartbeatAnswered, RequestFails, TickRevoked, ConfigAnswered,
              Continue, Finish
<1>6. CASE \/ Purge \/ PurgeStale \/ DisconnectSensor \/ Enroll \/ Concurrent
           \/ PublishConfig \/ RevokeSensor \/ UNCHANGED dvars
  BY <1>6 DEF Purge, PurgeStale, DisconnectSensor, Enroll, Concurrent, PublishConfig,
              RevokeSensor, dvars
<1>7. CASE Crash
  BY <1>7 DEF Crash, Finish
<1>8. CASE \E m \in late : LateArrival(m)
  BY <1>8 DEF LateArrival, Stored
<1> QED
  BY <1>1, <1>2, <1>3, <1>4, <1>5, <1>6, <1>7, <1>8 DEF DeliveryNext

LEMMA RetryStep == RetryInv /\ [DeliveryNext]_dvars => RetryInv'
<1> SUFFICES ASSUME RetryInv, [DeliveryNext]_dvars PROVE RetryInv'
  OBVIOUS
<1>1. /\ issued \subseteq issued'
      /\ \A p \in pending' : p \in pending \/ \E i \in issued' : i.batch = p.batch /\ i.ids = p.ids
  BY SpoolStep, IssuedGrows
<1>2. /\ sending' \subseteq sending \union pending'
      /\ late' \union accepted' \subseteq late \union accepted \union {Upload(p) : p \in sending}
  BY UploadsMove
<1>3. \A p \in pending' \union sending' : Reserves(p.batch, p.ids)'
  BY <1>1, <1>2 DEF RetryInv, Reserves
<1>4. \A m \in late' \union accepted' : Reserves(m.batch, m.ids)'
  BY <1>1, <1>2, UploadFields DEF RetryInv, Reserves
<1> QED
  BY <1>3, <1>4 DEF RetryInv

LEMMA RetryStart == DeliveryInit => RetryInv
  BY DEF DeliveryInit, Init, RetryInv

\* Whatever is lost, late, retried, expired or purged in between, every upload that
\* ever went out under a batch id names the rows first reserved under it: the
\* controller's deduplication by batch id is sound.
THEOREM RetriesStable == DeliverySpec => []RetryStable
<1>1. RetryInv => RetryStable
  BY UploadFields DEF RetryInv, Reserves, RetryStable
<1> QED
  BY <1>1, RetryStart, RetryStep, PTL DEF DeliverySpec

----------------------------------------------------------------------------
(* Whose batches they are. *)

\* A Tick sends one batch while it waits for the answer or acknowledges it, and a
\* sensor without an enrollment has nothing to send.
TickOwns ==
  /\ phase \notin {"ingest", "ack"} => sending = {}
  /\ \A p, q \in sending : p = q
  /\ claim = 0 => pending = {} /\ phase = "idle"

\* A batch id is issued once, and every upload under it is of the enrollment that
\* reserved it: the one in use, while it is still pending or being sent.
IssuedOnce == \A i, j \in issued : i.batch = j.batch => i = j
UploadsOwned ==
  \A m \in late \union accepted :
    /\ \A p \in pending \union sending : m.batch = p.batch => m.claim = claim
    /\ \A k \in late \union accepted : m.batch = k.batch => m.claim = k.claim

\* What is acknowledged has been stored.
AnsweredStored ==
  phase = "ack" => \A p \in sending : \E a \in accepted : a.batch = p.batch

OwnerInv == TickOwns /\ IssuedOnce /\ UploadsOwned /\ AnsweredStored

LEMMA IssuedOnceStep == IssuedOnce /\ [DeliveryNext]_dvars => IssuedOnce'
<1> SUFFICES ASSUME IssuedOnce, [DeliveryNext]_dvars PROVE IssuedOnce'
  OBVIOUS
<1>1. [Next]_vars
  BY SpoolStep
<1>2. ASSUME NEW b \in BatchIds, NextBatch(b) PROVE IssuedOnce'
  BY <1>2, NextBatchIssues DEF IssuedOnce
<1>3. CASE ~\E b \in BatchIds : NextBatch(b)
  <2>1. issued' = issued
    BY <1>1, <1>3, PendingShrinks DEF Next
  <2> QED
    BY <2>1 DEF IssuedOnce
<1> QED
  BY <1>2, <1>3

\* The claims and the reservations stay, and every upload is an old one or that of
\* the batch being sent.
LEMMA OwnedKept ==
  ASSUME UploadsOwned, claim' = claim, pending' \subseteq pending, sending' \subseteq pending \union sending,
         late' \union accepted' \subseteq late \union accepted \union {Upload(p) : p \in sending},
         \A p, q \in sending : p = q
  PROVE  UploadsOwned'
<1> SUFFICES ASSUME NEW m \in late' \union accepted'
             PROVE  /\ \A p \in pending' \union sending' : m.batch = p.batch => m.claim = claim
                    /\ \A k \in late' \union accepted' : m.batch = k.batch => m.claim = k.claim
  BY DEF UploadsOwned
<1>1. \A k \in late' \union accepted' :
        \/ k \in late \union accepted
        \/ k.claim = claim /\ \E p \in sending : k.batch = p.batch
  BY UploadFields
<1> QED
  BY <1>1 DEF UploadsOwned

LEMMA OwnerStep == ReservationInv /\ RetryInv /\ OwnerInv /\ [DeliveryNext]_dvars => OwnerInv'
<1> SUFFICES ASSUME ReservationInv, RetryInv, OwnerInv, [DeliveryNext]_dvars
             PROVE  TickOwns' /\ UploadsOwned' /\ AnsweredStored'
  BY IssuedOnceStep DEF OwnerInv
<1> USE DEF OwnerInv, sensor, tick, controller, uploader
<1>0. late' \union accepted' \subseteq late \union accepted \union {Upload(p) : p \in sending}
      /\ OnePending
  BY UploadsMove DEF ReservationInv
<1>1. ASSUME NEW b \in BatchIds, TickReserve(b) PROVE TickOwns' /\ UploadsOwned' /\ AnsweredStored'
  <2>1. NextBatch(b) /\ claim # 0 /\ phase' = "ingest" /\ sending' = pending'
        /\ UNCHANGED <<claim, late, accepted>>
    BY <1>1 DEF TickReserve, MayTick, Begin
  <2>2. PICK new : pending' = {new} /\ new.batch = b /\ \A i \in issued : i.batch # b
    BY <2>1, NextBatchIssues
  <2>3. \A m \in late \union accepted : m.batch # b
    BY <2>2 DEF RetryInv, Reserves
  <2> QED
    BY <2>1, <2>2, <2>3 DEF TickOwns, UploadsOwned, AnsweredStored
<1>2. CASE TickRetry \/ TickHeartbeat
  <2>1. /\ claim # 0 /\ phase' \in {"ingest", "heartbeat"}
        /\ sending' \in {pending, {}} /\ (phase' = "heartbeat" => sending' = {})
        /\ UNCHANGED <<claim, pending, late, accepted>>
    BY <1>2 DEF TickRetry, TickHeartbeat, MayTick, Begin, vars
  <2> QED
    BY <1>0, <2>1 DEF TickOwns, UploadsOwned, AnsweredStored, OnePending
<1>3. ASSUME NEW p \in sending, IngestAnswered(p) PROVE TickOwns' /\ UploadsOwned' /\ AnsweredStored'
  <2>1. /\ phase = "ingest" /\ phase' = "ack" /\ claim \notin revoked
        /\ accepted' = Stored(Upload(p)) /\ UNCHANGED <<claim, pending, sending>>
    BY <1>3 DEF IngestAnswered, vars
  <2>2. UploadsOwned'
    BY <1>0, <2>1, OwnedKept DEF TickOwns
  <2>3. \E a \in accepted' : a.batch = p.batch
    BY <2>1, UploadFields DEF Stored
  <2> QED
    BY <2>1, <2>2, <2>3 DEF TickOwns, AnsweredStored
<1>4. ASSUME NEW p \in sending, IngestLost(p) PROVE TickOwns' /\ UploadsOwned' /\ AnsweredStored'
  <2>1. phase' = "idle" /\ sending' = {} /\ UNCHANGED <<claim, pending>>
    BY <1>4 DEF IngestLost, Finish, vars
  <2>2. UploadsOwned'
    BY <1>0, <2>1, OwnedKept DEF TickOwns
  <2> QED
    BY <2>1, <2>2 DEF TickOwns, AnsweredStored
<1>5. ASSUME NEW p \in sending, TickAck(p) PROVE TickOwns' /\ UploadsOwned' /\ AnsweredStored'
  <2>1. /\ claim # 0 /\ sending' = {} /\ phase' \in {"idle", "config"}
        /\ UNCHANGED <<claim, late, accepted>>
    BY <1>5 DEF TickAck, Continue, Finish, TickOwns
  <2>2. (\E q \in pending : Ack(q)) \/ UNCHANGED vars
    BY <1>5 DEF TickAck
  <2>3. pending' \subseteq pending
    BY <2>2, PendingShrinks
  <2>4. UploadsOwned'
    BY <1>0, <2>1, <2>3, OwnedKept DEF TickOwns
  <2> QED
    BY <2>1, <2>4 DEF TickOwns, AnsweredStored
<1>6. CASE TickAckFails \/ HeartbeatAnswered \/ RequestFails \/ TickRevoked
           \/ \E v \in 1..MaxVersion : ConfigAnswered(v)
  <2>1. /\ claim # 0 /\ sending' = {} /\ phase' \in {"idle", "config"}
        /\ UNCHANGED <<claim, pending, late, accepted>>
    BY <1>6 DEF TickAckFails, HeartbeatAnswered, RequestFails, TickRevoked, ConfigAnswered,
                Continue, Finish, TickOwns, vars
  <2>2. UploadsOwned'
    BY <1>0, <2>1, OwnedKept DEF TickOwns
  <2> QED
    BY <2>1, <2>2 DEF TickOwns, AnsweredStored
<1>7. CASE Purge \/ PurgeStale \/ DisconnectSensor
  <2>1. /\ phase = "idle" /\ phase' = "idle" /\ sending' = sending /\ pending' = {}
        /\ UNCHANGED <<late, accepted>>
    BY <1>7 DEF Purge, PurgeStale, DisconnectSensor, Clear
  <2> QED
    BY <2>1 DEF TickOwns, UploadsOwned, AnsweredStored
<1>8. CASE Enroll
  <2>1. /\ claim = 0 /\ phase = "idle" /\ UNCHANGED <<phase, sending, pending, late, accepted>>
    BY <1>8 DEF Enroll, vars
  <2> QED
    BY <2>1 DEF TickOwns, UploadsOwned, AnsweredStored
<1>9. CASE Concurrent
  <2>1. UNCHANGED <<claim, phase, sending, late, accepted>>
    BY <1>9 DEF Concurrent
  <2>2. pending' \subseteq pending
    BY <1>9, PendingShrinks DEF Concurrent
  <2> QED
    BY <2>1, <2>2 DEF TickOwns, UploadsOwned, AnsweredStored
<1>10. CASE Crash
  <2>1. phase' = "idle" /\ sending' = {} /\ claim' = claim /\ Reopen
    BY <1>10 DEF Crash, Finish
  <2>2. pending' \subseteq pending
    BY <2>1, PendingShrinks
  <2>3. UploadsOwned'
    BY <1>0, <2>1, <2>2, OwnedKept DEF TickOwns
  <2> QED
    BY <2>1, <2>2, <2>3 DEF TickOwns, AnsweredStored
<1>11. ASSUME NEW m \in late, LateArrival(m) PROVE TickOwns' /\ UploadsOwned' /\ AnsweredStored'
  <2>1. UNCHANGED <<claim, phase, sending, pending>> /\ accepted \subseteq accepted'
    BY <1>11 DEF LateArrival, Stored, vars
  <2>2. UploadsOwned'
    BY <1>0, <2>1, OwnedKept DEF TickOwns
  <2> QED
    BY <2>1, <2>2 DEF TickOwns, AnsweredStored
<1>12. CASE PublishConfig \/ RevokeSensor \/ UNCHANGED dvars
  <2>1. UNCHANGED <<claim, phase, sending, pending, late, accepted>>
    BY <1>12 DEF PublishConfig, RevokeSensor, dvars, vars
  <2> QED
    BY <2>1 DEF TickOwns, UploadsOwned, AnsweredStored
<1> QED
  BY <1>1, <1>2, <1>3, <1>4, <1>5, <1>6, <1>7, <1>8, <1>9, <1>10, <1>11, <1>12 DEF DeliveryNext

LEMMA OwnerStart == DeliveryInit => OwnerInv
  BY DEF DeliveryInit, Init, OwnerInv, TickOwns, IssuedOnce, UploadsOwned, AnsweredStored

----------------------------------------------------------------------------
(* The ledger.  The rows the ledger holds are the ids in the spool's table,  *)
(* so the proof counts ids where the spool counts rows.                      *)

\* The controller's copies, as the ledger sees them.
Copies(S) == UNION {{<<<<a.claim, a.batch>>, i>> : i \in a.ids} : a \in S}

\* The ledger counts with its own instance of Cardinality, which is the same.
LEMMA LedgerCounts ==
  ASSUME NEW S
  PROVE  Ledger!Cardinality(S) = Cardinality(S)
  BY DEF Ledger!Cardinality, Cardinality

\* Rows with different ids are as many as their ids, also after a prune.
LEMMA PruneIds ==
  ASSUME NEW R, IsFiniteSet(R), \A r, q \in R : r.id = q.id => r = q, NEW S, S \subseteq R
  PROVE  /\ Ids(S) \subseteq Ids(R)
         /\ Cardinality(Ids(R) \ Ids(S)) = Cardinality(R \ S)
<1> DEFINE D == R \ S
<1>1. Ids(S) \subseteq Ids(R) /\ Ids(R) \ Ids(S) = Ids(D)
  BY DEF Ids
<1>2. IsFiniteSet(D) /\ \A r, q \in D : r.id = q.id => r = q
  BY FS_Difference
<1> HIDE DEF D
<1>3. Cardinality(Ids(D)) = Cardinality(D)
  BY <1>2, CountIds
<1> QED
  BY <1>1, <1>3 DEF D

\* An append is rows taken in, and what its prune sheds is counted.
LEMMA AppendTakes ==
  ASSUME ReservationInv, NEW n \in 1..MaxAppend, NEW local \in BOOLEAN,
         NEW batch \in [1..n -> Inputs], AppendRows(n, batch, local), accepted' = accepted
  PROVE  Ledger!Take
<1> DEFINE New == RowsOf(n, batch, local)
           R == records \union New
<1>0. /\ n \in Nat /\ TypeOK /\ IsFiniteSet(records) /\ IdsFresh /\ IdsUnique
      /\ nextId \in Nat /\ dropped \in Nat /\ \A r \in records : r.id \in Nat
  BY LimitsAssumption DEF ReservationInv, TypeInv, TypeOK, Rows
<1>1. PruneTx(R, pending, history) /\ nextId' = nextId + n
  BY DEF AppendRows
<1>2. /\ \A r \in New : r.id >= nextId /\ r.id < nextId + n /\ r.id \in Nat
      /\ \A r, q \in New : r.id = q.id => r = q
  BY <1>0, RowsOfIds
<1>3. IsFiniteSet(New)
  BY <1>0, RowsOfFinite
<1>4. Ids(New) = ((nextId - 1) + 1)..(nextId' - 1)
  <2>1. ASSUME NEW k \in nextId..(nextId + n - 1) PROVE k \in Ids(New)
    <3> DEFINE i == k - nextId + 1
    <3>1. i \in 1..n /\ nextId + i - 1 = k
      BY <1>0
    <3> DEFINE r == [id |-> nextId + i - 1, kind |-> batch[i].kind, ts |-> batch[i].ts,
                     size |-> batch[i].size, local |-> local]
    <3>2. r \in New /\ r.id = nextId + i - 1
      BY <3>1 DEF RowsOf
    <3> HIDE DEF r, i, New
    <3> QED
      BY <3>1, <3>2 DEF Ids
  <2>2. (nextId - 1) + 1 = nextId /\ nextId' - 1 = nextId + n - 1
    BY <1>0, <1>1
  <2> HIDE DEF New
  <2>3. \A k \in Ids(New) : k \in nextId..(nextId + n - 1)
    BY <1>0, <1>2 DEF Ids
  <2> QED
    BY <2>1, <2>2, <2>3
<1> HIDE DEF New
<1>5. IsFiniteSet(R) /\ \A r, q \in R : r.id = q.id => r = q
  <2>1. IsFiniteSet(R)
    BY <1>0, <1>3, FS_Union
  <2> QED
    BY <1>0, <1>2, <2>1 DEF IdsFresh, IdsUnique
<1>6. Ids(R) = Ids(records) \union (((nextId - 1) + 1)..(nextId' - 1))
  BY <1>4 DEF Ids
<1> HIDE DEF R
<1>7. records' \subseteq R /\ dropped' = dropped + Cardinality(R \ records')
  BY <1>1, PruneEffect
<1>8. Ids(records') \subseteq Ids(R) /\ Cardinality(Ids(R) \ Ids(records')) = Cardinality(R \ records')
  BY <1>5, <1>7, PruneIds
<1>9. nextId' - 1 >= nextId - 1
  BY <1>0, <1>1
<1> DEFINE candidates == Ids(records) \union (((nextId - 1) + 1)..(nextId' - 1))
           gone == candidates \ Ids(records')
<1>10. dropped' = dropped + Ledger!Cardinality(gone)
  <2>1. gone = Ids(R) \ Ids(records')
    BY <1>6
  <2> HIDE DEF gone
  <2> QED
    BY <1>7, <1>8, <2>1, LedgerCounts
<1>11. Ids(records)' = Ids(records') /\ Ids(records') \subseteq candidates
  BY <1>6, <1>8 DEF Ids
<1> QED
  BY <1>9, <1>10, <1>11 DEF Ledger!Take

\* So is a restart, with no rows taken in.
LEMMA ReopenTakes ==
  ASSUME ReservationInv, Reopen, accepted' = accepted
  PROVE  Ledger!Take
<1>0. /\ IsFiniteSet(records) /\ IdsUnique /\ nextId \in Nat /\ dropped \in Nat
  BY DEF ReservationInv, TypeInv, TypeOK
<1>1. PruneTx(records, pending, history) /\ nextId' = nextId
  BY DEF Reopen
<1>2. records' \subseteq records /\ dropped' = dropped + Cardinality(records \ records')
  BY <1>1, PruneEffect
<1>3. /\ Ids(records') \subseteq Ids(records)
      /\ Cardinality(Ids(records) \ Ids(records')) = Cardinality(records \ records')
  BY <1>0, <1>2, PruneIds DEF IdsUnique
<1> DEFINE candidates == Ids(records) \union (((nextId - 1) + 1)..(nextId' - 1))
           gone == candidates \ Ids(records')
<1>4. candidates = Ids(records) /\ nextId' - 1 >= nextId - 1
  BY <1>0, <1>1
<1>5. dropped' = dropped + Ledger!Cardinality(gone)
  <2>1. gone = Ids(records) \ Ids(records')
    BY <1>4
  <2> HIDE DEF gone
  <2> QED
    BY <1>2, <1>3, <2>1, LedgerCounts
<1>6. Ids(records)' = Ids(records') /\ Ids(records') \subseteq candidates
  BY <1>3, <1>4 DEF Ids
<1> QED
  BY <1>4, <1>5, <1>6 DEF Ledger!Take

\* The rows of the uploads the controller has.
LEMMA CopiedRows ==
  /\ Ledger!Received = UNION {a.ids : a \in accepted}
  /\ Copies(accepted) = UNION {{<<<<a.claim, a.batch>>, i>> : i \in a.ids} : a \in accepted}
<1>1. Ledger!Received = {c[2] : c \in Copies(accepted)}
  BY DEF Ledger!Received, Copies
<1>2. ASSUME NEW c \in Copies(accepted) PROVE c[2] \in UNION {a.ids : a \in accepted}
  <2>1. PICK a \in accepted : \E i \in a.ids : c = <<<<a.claim, a.batch>>, i>>
    BY DEF Copies
  <2> QED
    BY <2>1
<1>3. ASSUME NEW a \in accepted, NEW i \in a.ids PROVE i \in {c[2] : c \in Copies(accepted)}
  <2> DEFINE c == <<<<a.claim, a.batch>>, i>>
  <2>1. c \in Copies(accepted)
    BY DEF Copies
  <2>2. c[2] = i
    OBVIOUS
  <2> HIDE DEF c
  <2> QED
    BY <2>1, <2>2
<1>4. {c[2] : c \in Copies(accepted)} = UNION {a.ids : a \in accepted}
  BY <1>2, <1>3
<1> QED
  BY <1>1, <1>4 DEF Copies

\* An acknowledgement lets go of the rows of its batch, which the controller has, and
\* counts what its prune sheds besides.
LEMMA AckRetires ==
  ASSUME ReservationInv, NEW q \in pending, Ack(q), accepted' = accepted,
         NEW a \in accepted, a.ids = q.ids
  PROVE  Ledger!Retire
<1> DEFINE R == {r \in records : r.id \notin q.ids}
<1>0. /\ IsFiniteSet(records) /\ IdsUnique /\ nextId \in Nat /\ dropped \in Nat
  BY DEF ReservationInv, TypeInv, TypeOK
<1>1. PruneTx(R, pending \ {q}, history \union Retired(q)) /\ nextId' = nextId
  BY DEF Ack
<1>2. /\ R \subseteq records /\ Ids(R) = Ids(records) \ q.ids
      /\ \A r, s \in R : r.id = s.id => r = s
  BY <1>0 DEF Ids, IdsUnique
<1>3. IsFiniteSet(R)
  BY <1>0, <1>2, FS_Subset
<1> HIDE DEF R
<1>4. records' \subseteq R /\ dropped' = dropped + Cardinality(R \ records')
  BY <1>1, PruneEffect
<1>5. /\ Ids(records') \subseteq Ids(R)
      /\ Cardinality(Ids(R) \ Ids(records')) = Cardinality(R \ records')
  BY <1>2, <1>3, <1>4, PruneIds
<1> DEFINE gone == Ids(records) \ Ids(records')
           rows == q.ids \intersect Ids(records)
<1>6. /\ rows \in SUBSET (gone \intersect Ledger!Received)
      /\ gone \ rows = Ids(R) \ Ids(records')
  BY <1>2, <1>5, CopiedRows
<1>7. dropped' = dropped + Ledger!Cardinality(gone \ rows)
  <2> HIDE DEF gone, rows
  <2> QED
    BY <1>4, <1>5, <1>6, LedgerCounts
<1>8. Ids(records') \subseteq Ids(records) /\ Ids(records)' = Ids(records')
  BY <1>2, <1>5 DEF Ids
<1> QED
  BY <1>1, <1>6, <1>7, <1>8 DEF Ledger!Retire

\* The controller stores an upload whose batch it does not have: no row of it is in
\* another batch, so none is stored twice.
LEMMA StoredReceives ==
  ASSUME NEW m, m.claim \notin revoked => \A a \in accepted : m.batch = a.batch => m.claim = a.claim,
         Reserves(m.batch, m.ids), RetryInv, NeverRebatched,
         accepted' = Stored(m), UNCHANGED <<nextId, records, dropped>>
  PROVE  Ledger!Receive \/ accepted' = accepted
<1>1. CASE accepted' # accepted
  <2>1. accepted' = accepted \union {m} /\ \A a \in accepted : a.batch # m.batch
    BY <1>1 DEF Stored
  <2> DEFINE mine == {<<<<m.claim, m.batch>>, i>> : i \in m.ids}
             new == Copies(accepted') \ Copies(accepted)
  <2>2. Copies(accepted') = Copies(accepted) \union mine
    BY <2>1 DEF Copies
  <2>3. \A c \in mine : c[2] \in m.ids /\ c = <<<<m.claim, m.batch>>, c[2]>>
    OBVIOUS
  <2>4. ASSUME NEW a \in accepted PROVE a.ids \intersect m.ids = {}
    <3>1. PICK i \in issued : i.batch = m.batch /\ i.ids = m.ids
      BY DEF Reserves
    <3>2. PICK j \in issued : j.batch = a.batch /\ j.ids = a.ids
      BY DEF RetryInv, Reserves
    <3> QED
      BY <2>1, <3>1, <3>2 DEF NeverRebatched
  <2>5. /\ Copies(accepted) \subseteq Copies(accepted')
        /\ \A c \in new : c[2] \notin Ledger!Received
        /\ \A c, d \in new : c[2] = d[2] => c = d
    <3> HIDE DEF mine
    <3>1. new \subseteq mine
      BY <2>2
    <3> HIDE DEF new
    <3>2. \A c \in new : c[2] \notin Ledger!Received
      BY <2>3, <2>4, <3>1, CopiedRows
    <3>3. \A c, d \in new : c[2] = d[2] => c = d
      BY <2>3, <3>1
    <3> QED
      BY <2>2, <3>2, <3>3
  <2> QED
    BY <2>5 DEF Ledger!Receive, Copies, Ids
<1> QED
  BY <1>1

\* Every step of the composition is a step of the ledger or leaves it alone.
LEMMA LedgerStep ==
  ASSUME RebatchInv, RetryInv, OwnerInv, [DeliveryNext]_dvars
  PROVE  [Ledger!Next]_Ledger!vars
<1> USE DEF sensor, tick, controller, uploader
<1>0. ReservationInv /\ NeverRebatched /\ TickOwns /\ IssuedOnce /\ UploadsOwned /\ AnsweredStored
  BY DEF RebatchInv, OwnerInv
<1>1. ASSUME UNCHANGED <<nextId, records, dropped, accepted>> PROVE UNCHANGED Ledger!vars
  BY <1>1 DEF Ledger!vars, Ids
<1>2. CASE \/ TickRetry \/ TickHeartbeat \/ TickAckFails \/ HeartbeatAnswered \/ RequestFails
           \/ TickRevoked \/ Enroll \/ PublishConfig \/ RevokeSensor
           \/ (\E b \in BatchIds : TickReserve(b))
           \/ (\E v \in 1..MaxVersion : ConfigAnswered(v))
           \/ UNCHANGED dvars
  <2>1. UNCHANGED <<nextId, records, dropped, accepted>>
    BY <1>2 DEF TickRetry, TickHeartbeat, TickAckFails, HeartbeatAnswered, RequestFails,
                TickRevoked, Enroll, PublishConfig, RevokeSensor, ConfigAnswered, TickReserve,
                NextBatch, Begin, dvars, vars
  <2> QED
    BY <1>1, <2>1
<1>3. ASSUME NEW p \in sending, IngestAnswered(p) \/ IngestLost(p) PROVE [Ledger!Next]_Ledger!vars
  <2> DEFINE m == Upload(p)
  <2>1. (accepted' = Stored(m) \/ accepted' = accepted) /\ UNCHANGED <<nextId, records, dropped>>
    BY <1>3 DEF IngestAnswered, IngestLost, vars
  <2>2. m.claim = claim /\ m.batch = p.batch /\ m.ids = p.ids
    BY UploadFields
  <2>3. Reserves(m.batch, m.ids)
    BY <2>2 DEF RetryInv
  <2>4. \A a \in accepted : m.batch = a.batch => m.claim = a.claim
    BY <1>0, <2>2 DEF UploadsOwned
  <2> HIDE DEF m
  <2>5. Ledger!Receive \/ accepted' = accepted
    BY <1>0, <2>1, <2>3, <2>4, StoredReceives
  <2> QED
    BY <1>1, <2>1, <2>5 DEF Ledger!Next
<1>4. ASSUME NEW m \in late, LateArrival(m) PROVE [Ledger!Next]_Ledger!vars
  <2>1. accepted' = Stored(m) /\ UNCHANGED <<nextId, records, dropped>>
    BY <1>4 DEF LateArrival, vars
  <2>2. Reserves(m.batch, m.ids) /\ \A a \in accepted : m.batch = a.batch => m.claim = a.claim
    BY <1>0 DEF RetryInv, UploadsOwned
  <2>3. Ledger!Receive \/ accepted' = accepted
    BY <1>0, <2>1, <2>2, StoredReceives
  <2> QED
    BY <1>1, <2>1, <2>3 DEF Ledger!Next
<1>5. ASSUME NEW p \in sending, TickAck(p) PROVE [Ledger!Next]_Ledger!vars
  <2>1. phase = "ack" /\ accepted' = accepted
    BY <1>5 DEF TickAck
  <2>2. CASE UNCHANGED vars
    BY <1>1, <2>1, <2>2 DEF vars
  <2>3. ASSUME NEW q \in pending, q.batch = p.batch, Ack(q) PROVE [Ledger!Next]_Ledger!vars
    <3>1. PICK a \in accepted : a.batch = p.batch
      BY <1>0, <2>1 DEF AnsweredStored
    <3>2. PICK i \in issued : i.batch = a.batch /\ i.ids = a.ids
      BY DEF RetryInv, Reserves
    <3>3. PICK j \in issued : j.batch = q.batch /\ j.ids = q.ids
      BY DEF RetryInv, Reserves
    <3>4. a.ids = q.ids
      BY <1>0, <2>3, <3>1, <3>2, <3>3 DEF IssuedOnce
    <3>5. Ledger!Retire
      BY <1>0, <2>1, <2>3, <3>4, AckRetires
    <3> QED
      BY <3>5 DEF Ledger!Next
  <2> QED
    BY <1>5, <2>2, <2>3 DEF TickAck
<1>6. CASE Purge \/ PurgeStale \/ DisconnectSensor
  <2>1. records' = {} /\ dropped' = 0 /\ nextId' = nextId /\ accepted' = accepted
    BY <1>6 DEF Purge, PurgeStale, DisconnectSensor, Clear
  <2>2. Ledger!Wipe
    BY <2>1 DEF Ledger!Wipe, Ids
  <2> QED
    BY <2>2 DEF Ledger!Next
<1>7. CASE Concurrent
  <2>1. accepted' = accepted
    BY <1>7 DEF Concurrent
  <2>2. CASE Advance \/ StepBack
    BY <1>1, <2>1, <2>2 DEF Advance, StepBack
  <2>3. ASSUME NEW n \in 1..MaxAppend, NEW local \in BOOLEAN,
               NEW batch \in [1..n -> Inputs], AppendRows(n, batch, local)
        PROVE  Ledger!Take
    BY <1>0, <2>1, <2>3, AppendTakes
  <2> QED
    BY <1>7, <2>2, <2>3 DEF Concurrent, Ledger!Next
<1>8. CASE Crash
  <2>1. Reopen /\ accepted' = accepted
    BY <1>8 DEF Crash
  <2>2. Ledger!Take
    BY <1>0, <2>1, ReopenTakes
  <2> QED
    BY <2>2 DEF Ledger!Next
<1> QED
  BY <1>2, <1>3, <1>4, <1>5, <1>6, <1>7, <1>8 DEF DeliveryNext

\* With a clock that is never set back, the uploader, the spool and a controller that
\* deduplicates by batch id implement the ledger: over lost answers, late requests,
\* failed acknowledgements, expiry, purges, re-enrollments and crashes no row is
\* stored twice, and none leaves the sensor that is not stored, counted or wiped.
THEOREM DeliveryImplementsLedger ==
  ASSUME ~ClockStepsBack
  PROVE  DeliverySpec => ImplementsLedger
<1>1. DeliveryInit => Ledger!Init
  BY DEF DeliveryInit, Init, Ledger!Init, Ids
<1>2. DeliveryInit => RebatchInv
  BY ReservationInit DEF DeliveryInit, Init, RebatchInv, Stamped, IssuedReserved, NeverRebatched
<1>3. RebatchInv /\ [DeliveryNext]_dvars => RebatchInv'
  BY SpoolStep, RebatchStep
<1>4. RetryInv /\ RebatchInv /\ OwnerInv /\ [DeliveryNext]_dvars => OwnerInv'
  BY OwnerStep DEF RebatchInv
<1>5. RetryInv /\ RebatchInv /\ OwnerInv /\ [DeliveryNext]_dvars => [Ledger!Next]_Ledger!vars
  BY LedgerStep
<1> QED
  BY <1>1, <1>2, <1>3, <1>4, <1>5, RetryStart, RetryStep, OwnerStart, PTL
     DEF DeliverySpec, ImplementsLedger, Ledger!Spec
=============================================================================
