------------------------------ MODULE MCSpool ------------------------------
(* Small instances of Spool for TLC. *)
EXTENDS Spool, TLC

\* Two kinds with different caps, both below the batch limit, so that a batch
\* can skip rows of one kind and take later rows of the other.
MCKindCap == [k \in Kinds |-> IF k = "minute_metric" THEN 1 ELSE 2]

BatchSymmetry == Permutations(BatchIds)
=============================================================================
