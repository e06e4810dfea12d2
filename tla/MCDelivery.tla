----------------------------- MODULE MCDelivery -----------------------------
(* Small instances of Delivery for TLC. *)
EXTENDS Delivery

\* One kind is enough here: Spool's own runs cover the per-kind caps.
MCKindCap == [k \in Kinds |-> 2]

=============================================================================
