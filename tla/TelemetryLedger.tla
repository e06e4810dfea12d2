-------------------------- MODULE TelemetryLedger --------------------------
(***************************************************************************)
(* What the sensor promises about telemetry rows, without saying how: the  *)
(* controller stores a row at most once, a row that the controller does    *)
(* not have leaves the sensor only as a counted loss or in a wipe, and     *)
(* every other row is kept.                                                *)
(***************************************************************************)
EXTENDS Integers, FiniteSets

VARIABLES
  taken,   \* number of rows taken in so far; row n is the n-th
  held,    \* rows waiting in the sensor
  stored,  \* the controller's copies, as pairs <<upload, row>>
  lost     \* the counter of rows given up since the last wipe

vars == <<taken, held, stored, lost>>

Received == {s[2] : s \in stored}

Init == taken = 0 /\ held = {} /\ stored = {} /\ lost = 0

\* New rows come in; retention may give rows up, each one counted.
Take ==
  LET candidates == held \union ((taken + 1)..taken')
  IN  /\ taken' >= taken
      /\ held' \subseteq candidates
      /\ lost' = lost + Cardinality(candidates \ held')
      /\ UNCHANGED stored

\* The controller stores rows it does not have yet.
Receive ==
  LET new == stored' \ stored
  IN  /\ stored \subseteq stored'
      /\ \A s \in new : s[2] \notin Received
      /\ \A s, t \in new : s[2] = t[2] => s = t
      /\ UNCHANGED <<taken, held, lost>>

\* Rows the controller has are let go; what else goes is counted.
Retire ==
  /\ held' \subseteq held
  /\ \E rows \in SUBSET ((held \ held') \intersect Received) :
       lost' = lost + Cardinality((held \ held') \ rows)
  /\ UNCHANGED <<taken, stored>>

Wipe ==
  /\ held' = {} /\ lost' = 0
  /\ UNCHANGED <<taken, stored>>

Next == Take \/ Receive \/ Retire \/ Wipe

Spec == Init /\ [][Next]_vars
=============================================================================
