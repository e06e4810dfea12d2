---------------------------- MODULE ActivityGate ----------------------------
(***************************************************************************)
(* The admission gate that keeps work and software updates apart           *)
(* (internal/service/activity.go), with the two kinds of process that use  *)
(* it: workers (a tick with its producers, an upload, a speed test, an     *)
(* enrollment) and updaters (stage_update and the package restart).        *)
(*                                                                         *)
(* Each critical section under activityGate.mu is one action.  The drained *)
(* channel belongs to one quiesce call: the gate's field points to the     *)
(* call that made it, and the waiting updater keeps its own reference.     *)
(***************************************************************************)
EXTENDS Integers, FiniteSets

CONSTANTS Workers, Updaters, None

ASSUME GateAssumption ==
  /\ IsFiniteSet(Workers)
  /\ None \notin Updaters

VARIABLES
  active,     \* activityGate.active
  quiescing,  \* activityGate.quiescing
  drained,    \* activityGate.drained: the updater whose channel it is, or None
  chan,       \* the channel each updater waits on
  working,    \* workers between begin and their release function
  pc,         \* where each updater is
  cancelled,  \* updaters whose context is done
  panicked    \* a nil or closed channel was closed

vars == <<active, quiescing, drained, chan, working, pc, cancelled, panicked>>

TypeOK ==
  /\ active \in Nat
  /\ quiescing \in BOOLEAN
  /\ drained \in Updaters \union {None}
  /\ chan \in [Updaters -> {"nil", "open", "closed"}]
  /\ working \subseteq Workers
  /\ pc \in [Updaters -> {"idle", "waiting", "updating"}]
  /\ cancelled \subseteq Updaters
  /\ panicked \in BOOLEAN

Init ==
  /\ active = 0 /\ quiescing = FALSE /\ drained = None
  /\ chan = [u \in Updaters |-> "nil"]
  /\ working = {}
  /\ pc = [u \in Updaters |-> "idle"]
  /\ cancelled = {}
  /\ panicked = FALSE

\* mutant: admission is not closed
BeginAlways(w) ==
  /\ w \notin working
  /\ working' = working \union {w}
  /\ active' = active + 1
  /\ UNCHANGED <<quiescing, drained, chan, pc, cancelled, panicked>>

\* begin; a call during quiescing is refused and changes nothing.
Begin(w) ==
  /\ w \notin working
  /\ ~quiescing
  /\ working' = working \union {w}
  /\ active' = active + 1
  /\ UNCHANGED <<quiescing, drained, chan, pc, cancelled, panicked>>

\* The release function; sync.Once makes every later call of it a no-op.
Release(w) ==
  /\ w \in working
  /\ working' = working \ {w}
  /\ active' = active - 1
  /\ IF quiescing /\ active = 1
     THEN /\ panicked' = (panicked \/ drained = None \/ chan[drained] # "open")
          /\ chan' = [u \in Updaters |-> IF u = drained THEN "closed" ELSE chan[u]]
     ELSE UNCHANGED <<chan, panicked>>
  /\ UNCHANGED <<quiescing, drained, pc, cancelled>>

\* quiesce up to its select; while another updater quiesces it is refused.
Quiesce(u) ==
  /\ pc[u] = "idle"
  /\ ~quiescing
  /\ quiescing' = TRUE /\ drained' = u
  /\ chan' = [chan EXCEPT ![u] = IF active = 0 THEN "closed" ELSE "open"]
  /\ pc' = [pc EXCEPT ![u] = "waiting"]
  /\ cancelled' = cancelled \ {u}
  /\ UNCHANGED <<active, working, panicked>>

\* The drain timeout, or the end of the request's or the service's context.
Cancel(u) ==
  /\ pc[u] = "waiting"
  /\ cancelled' = cancelled \union {u}
  /\ UNCHANGED <<active, quiescing, drained, chan, working, pc, panicked>>

\* mutant: giving up leaves admission closed
ResumeForgotten(u) ==
  /\ drained' = None
  /\ pc' = [pc EXCEPT ![u] = "idle"]
  /\ UNCHANGED <<active, quiescing, chan, working, cancelled, panicked>>

\* resume
Resume(u) ==
  /\ quiescing' = FALSE /\ drained' = None
  /\ pc' = [pc EXCEPT ![u] = "idle"]
  /\ UNCHANGED <<active, chan, working, cancelled, panicked>>

\* select takes the drained case and the context is still live.
Enter(u) ==
  /\ pc[u] = "waiting"
  /\ chan[u] = "closed" /\ u \notin cancelled
  /\ pc' = [pc EXCEPT ![u] = "updating"]
  /\ UNCHANGED <<active, quiescing, drained, chan, working, cancelled, panicked>>

\* select takes the other case, or the context turns out to be done.
GiveUp(u) ==
  /\ pc[u] = "waiting"
  /\ u \in cancelled
  /\ Resume(u)

\* Staging, the flush or the activation failed.
Abort(u) ==
  /\ pc[u] = "updating"
  /\ Resume(u)

\* The update is activated: the gate stays closed and the process is replaced.
Restart(u) ==
  /\ pc[u] = "updating"
  /\ active' = 0 /\ quiescing' = FALSE /\ drained' = None
  /\ chan' = [v \in Updaters |-> "nil"]
  /\ working' = {}
  /\ pc' = [v \in Updaters |-> "idle"]
  /\ cancelled' = {}
  /\ UNCHANGED panicked

Next ==
  \/ \E w \in Workers : Begin(w) \/ Release(w)
  \/ \E u \in Updaters : \/ Quiesce(u) \/ Cancel(u) \/ Enter(u) \/ GiveUp(u)
                         \/ Abort(u) \/ Restart(u)

Spec == Init /\ [][Next]_vars

----------------------------------------------------------------------------
(* Correctness. *)

\* While an updater stages, flushes and activates, no admitted work is running,
\* whatever order releases, timeouts and other update attempts came in.
UpdateAlone ==
  \A u \in Updaters : pc[u] = "updating" =>
    /\ working = {}
    /\ \A v \in Updaters \ {u} : pc[v] = "idle"

\* The drained channel is never closed twice and never closed while nil, either
\* of which would crash the service.
NeverPanics == ~panicked

\* An updater waits only for a drain that will be signalled: its channel is
\* closed as soon as the last admitted worker is gone.
NoLostWakeup ==
  \A u \in Updaters : pc[u] = "waiting" /\ working = {} => chan[u] = "closed"

\* An update attempt that timed out or failed does not leave the gate closed.
AdmissionReopens == quiescing ~> ~quiescing
=============================================================================
