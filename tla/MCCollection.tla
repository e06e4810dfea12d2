---------------------------- MODULE MCCollection ----------------------------
(* Small instances of Collection for TLC. *)
EXTENDS Collection

\* With a clock that only goes forward a record and a restart; with one that is
\* set back, which multiplies the orders of minutes, a purge.
MCMaxNotes == [back \in BOOLEAN |-> IF back THEN 0 ELSE 1]
MCMaxStarts == [back \in BOOLEAN |-> IF back THEN 0 ELSE 1]
MCMaxWipes == [back \in BOOLEAN |-> IF back THEN 1 ELSE 0]
=============================================================================
