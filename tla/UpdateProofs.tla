---------------------------- MODULE UpdateProofs ----------------------------
(***************************************************************************)
(* Updates run alone, nothing is admitted between an activation and the    *)
(* restart, and a runnable version survives one failure, for any workers,  *)
(* any number of versions and whichever of them are broken.                *)
(*                                                                         *)
(* The gate's invariant holds of every behaviour of the updates, crashes   *)
(* included, which are no steps of the gate.  Above it the invariant says  *)
(* what the holder of updateRun has done to the gate, and where the swap   *)
(* of the executable is, in the service or in the helper but never both.   *)
(***************************************************************************)
EXTENDS Update, FiniteSetTheorems, TLAPS

----------------------------------------------------------------------------
(* The gate on its own, for any finite set of workers and any updaters. *)

\* The counter is exact; the gate is closed exactly while one updater waits or
\* updates, and then it points to that updater's channel; a channel waited on is
\* closed exactly when nobody works.
GateInv ==
  /\ TypeOK
  /\ IsFiniteSet(working)
  /\ active = Cardinality(working)
  /\ quiescing <=> drained # None
  /\ \A u \in Updaters : pc[u] # "idle" <=> drained = u
  /\ \A u \in Updaters : pc[u] = "waiting" =>
       chan[u] = IF active = 0 THEN "closed" ELSE "open"
  /\ \A u \in Updaters : pc[u] = "updating" => active = 0
  /\ ~panicked

\* A fresh gate satisfies the invariant.
LEMMA GateInit == Init => GateInv
<1> SUFFICES ASSUME Init PROVE GateInv
  OBVIOUS
<1>1. IsFiniteSet(working) /\ active = Cardinality(working)
  BY FS_EmptySet DEF Init
<1>2. TypeOK
  BY DEF Init, TypeOK
<1>3. \A u \in Updaters : pc[u] = "idle" /\ drained # u
  BY GateAssumption DEF Init
<1> QED
  BY <1>1, <1>2, <1>3 DEF Init, GateInv

\* begin, while nobody quiesces.
LEMMA BeginStep ==
  ASSUME GateInv, NEW w \in Workers, Begin(w)
  PROVE  GateInv'
<1>1. IsFiniteSet(working') /\ Cardinality(working') = Cardinality(working) + 1
  BY FS_AddElement DEF GateInv, Begin
<1>2. \A u \in Updaters : pc[u] = "idle"
  BY GateAssumption DEF GateInv, TypeOK, Begin
<1>3. TypeOK'
  BY DEF GateInv, TypeOK, Begin
<1> QED
  BY <1>1, <1>2, <1>3 DEF GateInv, Begin

\* A release counts down, and the last one during a quiesce closes the one
\* channel that is waited on, which is open.
LEMMA ReleaseStep ==
  ASSUME GateInv, NEW w \in Workers, Release(w)
  PROVE  GateInv'
<1>1. /\ IsFiniteSet(working') /\ Cardinality(working') = Cardinality(working) - 1
      /\ Cardinality(working) \in Nat /\ Cardinality(working') \in Nat
  BY FS_RemoveElement, FS_CardinalityType DEF GateInv, Release
<1>2. active \in Nat \ {0} /\ active' = active - 1 /\ active' = Cardinality(working')
  BY <1>1 DEF GateInv, Release
<1>3. \A u \in Updaters : pc[u] # "updating"
  BY <1>2 DEF GateInv
<1>4. CASE quiescing /\ active = 1
  <2>1. PICK v \in Updaters : drained = v /\ pc[v] = "waiting" /\ chan[v] = "open"
    BY <1>2, <1>3, <1>4 DEF GateInv, TypeOK
  <2>2. drained # None
    BY <2>1, GateAssumption
  <2>3. ~panicked' /\ chan' = [u \in Updaters |-> IF u = drained THEN "closed" ELSE chan[u]]
    BY <1>4, <2>1, <2>2 DEF GateInv, Release
  <2>4. TypeOK'
    BY <1>2, <2>3 DEF GateInv, TypeOK, Release
  <2> QED
    BY <1>1, <1>2, <1>3, <1>4, <2>1, <2>3, <2>4 DEF GateInv, Release
<1>5. CASE ~(quiescing /\ active = 1)
  <2>1. UNCHANGED <<chan, panicked, quiescing, drained, pc, cancelled>>
    BY <1>5 DEF Release
  <2>2. TypeOK'
    BY <1>2, <2>1 DEF GateInv, TypeOK, Release
  <2>3. \A u \in Updaters : pc[u] = "waiting" => quiescing
    BY GateAssumption DEF GateInv
  <2> QED
    BY <1>1, <1>2, <1>3, <1>5, <2>1, <2>2, <2>3 DEF GateInv
<1> QED
  BY <1>4, <1>5

\* The updater's steps.
LEMMA UpdaterStep ==
  ASSUME GateInv, NEW u \in Updaters,
         \/ Quiesce(u) \/ Cancel(u) \/ Enter(u) \/ GiveUp(u) \/ Abort(u) \/ Restart(u)
  PROVE  GateInv'
<1> USE GateAssumption
<1>0. pc \in [Updaters -> {"idle", "waiting", "updating"}]
      /\ chan \in [Updaters -> {"nil", "open", "closed"}]
  BY DEF GateInv, TypeOK
<1>1. CASE Quiesce(u)
  <2>1. TypeOK'
    BY <1>1 DEF GateInv, TypeOK, Quiesce
  <2>2. \A v \in Updaters : pc[v] = "idle"
    BY <1>1 DEF GateInv, TypeOK, Quiesce
  <2> QED
    BY <1>0, <1>1, <2>1, <2>2 DEF GateInv, Quiesce
<1>2. CASE Cancel(u)
  <2>1. TypeOK'
    BY <1>2 DEF GateInv, TypeOK, Cancel
  <2> QED
    BY <1>2, <2>1 DEF GateInv, Cancel
<1>3. CASE Enter(u)
  <2>1. TypeOK'
    BY <1>3 DEF GateInv, TypeOK, Enter
  <2>2. active = 0
    BY <1>3 DEF GateInv, Enter
  <2> QED
    BY <1>0, <1>3, <2>1, <2>2 DEF GateInv, Enter
<1>4. CASE GiveUp(u) \/ Abort(u)
  <2>1. Resume(u) /\ pc[u] # "idle"
    BY <1>4 DEF GiveUp, Abort
  <2>2. TypeOK'
    BY <2>1 DEF GateInv, TypeOK, Resume
  <2>3. \A v \in Updaters : pc'[v] = "idle"
    BY <1>0, <2>1 DEF GateInv, Resume
  <2> QED
    BY <2>1, <2>2, <2>3 DEF GateInv, Resume
<1>5. CASE Restart(u)
  <2>1. TypeOK'
    BY <1>5 DEF GateInv, TypeOK, Restart
  <2> QED
    BY <1>5, <2>1, FS_EmptySet DEF GateInv, Restart
<1> QED
  BY <1>1, <1>2, <1>3, <1>4, <1>5

\* Every step of the gate.
LEMMA GateStep == GateInv /\ [Next]_vars => GateInv'
<1> SUFFICES ASSUME GateInv, [Next]_vars PROVE GateInv'
  OBVIOUS
<1>1. CASE UNCHANGED vars
  BY <1>1 DEF vars, GateInv, TypeOK
<1> QED
  BY <1>1, BeginStep, ReleaseStep, UpdaterStep DEF Next

\* The invariant says that updates run alone, that no channel is closed twice or
\* while nil, and that a drain that is due has been signalled.
LEMMA GatePromises == GateInv => TypeOK /\ UpdateAlone /\ NeverPanics /\ NoLostWakeup
<1> SUFFICES ASSUME GateInv PROVE TypeOK /\ UpdateAlone /\ NeverPanics /\ NoLostWakeup
  OBVIOUS
<1>1. working = {} <=> active = 0
  BY FS_EmptySet DEF GateInv
<1> QED
  BY <1>1 DEF GateInv, TypeOK, UpdateAlone, NeverPanics, NoLostWakeup

\* For any number of workers and updaters: an update runs alone, the drained
\* channel is never closed twice or while nil, and no updater waits for a signal
\* that was already due.
THEOREM GateSafe == Spec => [](TypeOK /\ UpdateAlone /\ NeverPanics /\ NoLostWakeup)
  BY GateInit, GateStep, GatePromises, PTL DEF Spec

----------------------------------------------------------------------------
(* The inductive invariant. *)

RunTypeOK ==
  run \in [who : Updaters \union {None}, own : BOOLEAN,
           at : {"free", "admit", "drain", "download", "flush", "launch"} \union Swapping]

\* The holder of updateRun has closed the gate from its drain on, and it does not
\* get that far when another update is waiting for the restart.
RunHoldsGate ==
  /\ run.at = "free" <=> run.who = None
  /\ image = 0 => run = NoRun
  /\ run.at = "drain" => pc[run.who] = "waiting" /\ ~exiting
  /\ run.at \in {"download", "flush", "launch"} \union Swapping =>
       pc[run.who] = "updating" /\ ~exiting
  /\ run.at \in {"launch"} \union Swapping => "complete" \notin unflushed

\* A restart that is due has an updater that keeps the gate closed.
ExitHoldsGate ==
  exiting /\ image # 0 => "complete" \notin unflushed /\ \E u \in Updaters : pc[u] = "updating"

QuietInv == GateInv /\ RunTypeOK /\ RunHoldsGate /\ ExitHoldsGate

Good(f) == f \notin Broken \union {0}
Mid == {run.at, helper.at} \intersect {"install", "probe"} # {}

FilesTypeOK ==
  /\ faults \in Nat /\ method \in {"unix", "windows", "apt"}
  /\ DOMAIN helper = {"at", "version"}
  /\ helper.at \in {"none", "wait", "restart"} \union Swapping

\* The service swaps on unix, the helper on Windows, nobody where a package manager
\* does; a copy is of a version, so that there is a file to install.
SwapperKnown ==
  /\ run.at # "free" => (run.who = "package" <=> method = "apt")
  /\ run.at \in Swapping => method = "unix"
  /\ run.at = "launch" \/ helper # Asleep => method = "windows"
  /\ run.who \in {"user", "auto"} => available.version # 0
  /\ helper # Asleep => helper.version # 0
  /\ {run.at, helper.at} \intersect {"archive", "install"} # {} => fresh # 0
  /\ {run.at, helper.at} \intersect {"probe"} # {} => exe # 0

\* Without a fault the service is down only for a restart, and the helper swaps then.
HelperAlone ==
  faults = 0 => /\ image = 0 => exiting
                /\ helper.at \in Swapping => image = 0

\* In the middle of a swap the archived executable runs; outside it the executable
\* does, unless one fault has left none, or a broken one that nobody will archive.
RunnableFile ==
  faults <= 1 =>
    IF Mid THEN Good(previous)
    ELSE \/ Good(exe)
         \/ /\ faults = 1 /\ Good(previous)
            /\ exe = 0 \/ (image = 0 /\ run = NoRun /\ helper = Asleep)

FilesInv == RunTypeOK /\ FilesTypeOK /\ SwapperKnown /\ HelperAlone /\ RunnableFile

----------------------------------------------------------------------------
(* Updates and the gate. *)

\* Every step of the updates is a step of the gate or leaves it alone, but for the
\* end of the process.
LEMMA UpdateMovesGate ==
  ASSUME RunTypeOK, RunHoldsGate, [UpdateNext]_allvars
  PROVE  [Next]_vars \/ Gone
<1> USE DEF Next
<1>1. CASE UNCHANGED allvars
  BY <1>1 DEF allvars
<1>2. ASSUME NEW w \in Workers, NEW flushed \in BOOLEAN, Work(w) \/ Finish(w, flushed) PROVE [Next]_vars
  BY <1>2 DEF Work, Finish, TrackLifecycle
<1>t. CASE TrackLifecycle
  BY <1>t DEF TrackLifecycle
<1>3. CASE (\E c \in Channels, v \in Versions : Publish(c, v)) \/ AutoStart \/ PackageCheck
  BY <1>3 DEF Publish, AutoStart, PackageCheck
<1>4. ASSUME NEW u \in Updaters, StageUpdate(u) \/ DrainTimeout(u) \/ DrainBegin(u) \/ DrainEnd(u)
      PROVE  [Next]_vars
  BY <1>4 DEF StageUpdate, DrainTimeout, DrainBegin, DrainEnd
<1>5. ASSUME NEW ok \in BOOLEAN,
             CheckUpdate(ok) \/ AutoCheck(ok) \/ \E c \in Channels : SetChannel(c, ok)
      PROVE  [Next]_vars
  BY <1>5 DEF CheckUpdate, AutoCheck, SetChannel
<1>6. ASSUME run.at # "free", Fail PROVE Next
  BY <1>6 DEF Fail, RunTypeOK, RunHoldsGate
<1>7. ASSUME NEW ok \in BOOLEAN, NEW over \in BOOLEAN,
             Download(ok) \/ Flush(ok, over) \/ Launch(ok) \/ ActivateCopy(ok) \/ ActivateArchive(ok)
      PROVE  [Next]_vars
  BY <1>6, <1>7 DEF Download, Flush, Launch, ActivateCopy, ActivateArchive, At, Activated
<1>8. ASSUME NEW ok \in BOOLEAN, NEW moved \in BOOLEAN, NEW restored \in BOOLEAN, NEW synced \in BOOLEAN,
             ActivateInstall(ok, restored) \/ ActivateProbe(ok, moved, restored, synced)
      PROVE  [Next]_vars
  BY <1>6, <1>8 DEF ActivateInstall, ActivateProbe, At, Activated
<1>9. ASSUME NEW ok \in BOOLEAN, NEW moved \in BOOLEAN, NEW restored \in BOOLEAN,
             \/ HelperCopy(ok) \/ HelperArchive(ok) \/ HelperInstall(ok, restored)
             \/ HelperProbe(ok, moved, restored) \/ HelperWait \/ HelperDies \/ HelperStarted \/ Boot
      PROVE  [Next]_vars
  BY <1>9 DEF HelperCopy, HelperArchive, HelperInstall, HelperProbe, HelperWait, HelperDies,
     HelperStarted, Boot, HelperLeaves
<1>10. CASE Exit \/ Crash
  BY <1>10 DEF Exit, Crash
<1> QED
  BY <1>1, <1>2, <1>t, <1>3, <1>4, <1>5, <1>7, <1>8, <1>9, <1>10 DEF UpdateNext, RunStep

LEMMA UpdateGate ==
  ASSUME GateInv, RunTypeOK, RunHoldsGate, [UpdateNext]_allvars
  PROVE  GateInv'
<1>1. CASE [Next]_vars
  BY <1>1, GateStep
<1>2. CASE Gone
  <2>1. IsFiniteSet(working') /\ active' = Cardinality(working') /\ working' = {}
    BY <1>2, FS_EmptySet DEF Gone
  <2>2. TypeOK'
    BY <1>2 DEF Gone, GateInv, TypeOK
  <2>3. \A u \in Updaters : pc'[u] = "idle" /\ drained' # u
    BY <1>2, GateAssumption DEF Gone
  <2> QED
    BY <1>2, <2>1, <2>2, <2>3 DEF Gone, GateInv
<1> QED
  BY <1>1, <1>2, UpdateMovesGate

----------------------------------------------------------------------------
(* The holder of updateRun and the gate. *)

\* While an updater is updating, the gate is closed and nobody works.
LEMMA GateClosed ==
  ASSUME GateInv, NEW u \in Updaters, pc[u] # "idle"
  PROVE  /\ quiescing
         /\ pc[u] = "updating" => working = {}
  BY GateAssumption, FS_EmptySet DEF GateInv

LEMMA QuietStep ==
  ASSUME QuietInv, [UpdateNext]_allvars
  PROVE  QuietInv'
<1> DEFINE Holds == RunTypeOK' /\ RunHoldsGate' /\ ExitHoldsGate'
<1>g. GateInv'
  BY UpdateGate DEF QuietInv
<1> SUFFICES Holds
  BY <1>g DEF QuietInv
<1> USE UpdateAssumption, GateAssumption DEF RunTypeOK, RunHoldsGate, ExitHoldsGate, QuietInv
<1>w. run.at # "free" => run.who \in Updaters
  OBVIOUS
<1>q. \A u \in Updaters : pc[u] # "idle" => quiescing /\ (pc[u] = "updating" => working = {})
  BY GateClosed
<1>p. pc \in [Updaters -> {"idle", "waiting", "updating"}]
  BY DEF GateInv, TypeOK
<1>n. run' = NoRun => RunTypeOK' /\ RunHoldsGate'
  <2>1. ASSUME run' = NoRun PROVE RunTypeOK' /\ run'.who = None /\ run'.at = "free"
    BY <2>1 DEF NoRun
  <2> QED
    BY <2>1 DEF Swapping
<1>1. CASE UNCHANGED allvars
  BY <1>1 DEF allvars, uvars, vars, memory, NoRun
<1>2. ASSUME NEW w \in Workers, Work(w) PROVE Holds
  BY <1>2 DEF Work, Begin, uvars, memory, NoRun
<1>3. ASSUME NEW w \in Workers, NEW flushed \in BOOLEAN, Finish(w, flushed) PROVE Holds
  BY <1>3, <1>w, <1>q DEF Finish, Release, Swapping
<1>t. CASE TrackLifecycle
  BY <1>t DEF TrackLifecycle, vars, NoRun, Swapping
<1>4. ASSUME NEW c \in Channels, NEW v \in Versions, Publish(c, v) PROVE Holds
  BY <1>4 DEF Publish, vars, memory, NoRun
<1>5. CASE AutoStart
  BY <1>5 DEF AutoStart, vars
<1>a. ASSUME NEW u \in Updaters, NEW own \in BOOLEAN, Free, Claim(u, own), UNCHANGED <<vars, image, exiting, unflushed>>
      PROVE  Holds
  BY <1>a DEF Claim, Free, vars, Swapping
<1>c. CASE PackageCheck
  BY <1>c, <1>a DEF PackageCheck
<1>6. ASSUME NEW u \in Updaters, StageUpdate(u) PROVE Holds
  <2>1. (~busy) \in BOOLEAN
    OBVIOUS
  <2> QED
    BY <1>6, <1>a, <2>1 DEF StageUpdate
<1>7. ASSUME NEW ok \in BOOLEAN,
             CheckUpdate(ok) \/ AutoCheck(ok) \/ \E c \in Channels : SetChannel(c, ok)
      PROVE  Holds
  BY <1>7 DEF CheckUpdate, AutoCheck, SetChannel, vars, NoRun
<1>8. ASSUME NEW u \in Updaters, DrainTimeout(u) PROVE Holds
  BY <1>8 DEF DrainTimeout, Cancel, uvars, memory, NoRun
<1>9. ASSUME NEW u \in Updaters, DrainBegin(u) PROVE Holds
  <2>1. CASE Quiesce(u) /\ run' = [run EXCEPT !.at = "drain"]
    <3>1. pc' = [pc EXCEPT ![u] = "waiting"] /\ run.who = u /\ run.at = "admit" /\ ~quiescing
      BY <1>9, <2>1 DEF DrainBegin, Quiesce
    <3>2. ~(exiting /\ image # 0)
      BY <1>q, <3>1
    <3>3. image # 0 /\ UNCHANGED <<image, exiting>>
      BY <1>9, <3>1 DEF DrainBegin, NoRun
    <3> QED
      BY <1>p, <2>1, <3>1, <3>2, <3>3 DEF Swapping
  <2>2. CASE EndRun /\ UNCHANGED vars
    BY <1>9, <1>n, <2>2 DEF DrainBegin, EndRun, vars
  <2> QED
    BY <1>9, <2>1, <2>2 DEF DrainBegin
<1>10. ASSUME NEW u \in Updaters, DrainEnd(u) PROVE Holds
  <2>1. run.who = u /\ run.at = "drain" /\ ~exiting /\ image # 0 /\ UNCHANGED <<image, exiting, unflushed>>
    BY <1>10 DEF DrainEnd, NoRun
  <2>2. CASE Enter(u) /\ run' = [run EXCEPT !.at = IF u = "package" THEN "flush" ELSE "download"]
    BY <1>p, <2>1, <2>2 DEF Enter, Swapping
  <2>3. CASE EndRun
    BY <1>n, <2>1, <2>3 DEF EndRun
  <2> QED
    BY <1>10, <2>2, <2>3 DEF DrainEnd
<1>11. CASE Exit \/ Crash
  BY <1>11, <1>n DEF Exit, Crash, Gone
<1>12. CASE Boot
  BY <1>12 DEF Boot, vars, NoRun, Swapping
<1>13. ASSUME NEW ok \in BOOLEAN, NEW moved \in BOOLEAN, NEW restored \in BOOLEAN,
              \/ HelperCopy(ok) \/ HelperArchive(ok) \/ HelperInstall(ok, restored)
              \/ HelperProbe(ok, moved, restored) \/ HelperWait \/ HelperDies \/ HelperStarted
       PROVE  Holds
  <2>1. HelperLeaves
    BY <1>13 DEF HelperCopy, HelperArchive, HelperInstall, HelperProbe, HelperWait, HelperDies, HelperStarted
  <2> QED
    BY <2>1 DEF HelperLeaves, vars, memory, NoRun
<1>14. ASSUME NEW next \in {"flush"} \union {"launch"} \union Swapping, Step(next), UNCHANGED vars,
              run.at \in {"download", "flush"} \union Swapping, UNCHANGED <<image, exiting>>,
              next \in {"launch"} \union Swapping => "complete" \notin unflushed',
              exiting => "complete" \notin unflushed'
       PROVE  Holds
  BY <1>14 DEF Step, vars, Swapping, NoRun
<1>15. ASSUME Fail, run.at \in {"download", "flush", "launch"} \union Swapping,
              UNCHANGED <<image, exiting>>
       PROVE  Holds
  BY <1>15, <1>w, <1>p DEF Fail, Abort, Resume, EndRun, NoRun, Swapping
<1>16. ASSUME Activated, run.at \in {"flush", "launch"} \union Swapping, UNCHANGED image, "complete" \notin unflushed'
       PROVE  Holds
  <2>1. run' = NoRun /\ UNCHANGED pc /\ exiting'
    BY <1>16 DEF Activated, EndRun, vars
  <2>2. run.who \in Updaters /\ pc[run.who] = "updating"
    BY <1>16, <1>w DEF Swapping
  <2> QED
    BY <1>16, <1>n, <2>1, <2>2
<1>17. ASSUME NEW ok \in BOOLEAN, Download(ok) PROVE Holds
  BY <1>14, <1>15, <1>17 DEF Download, At, RunLeaves, Swapping
<1>18. ASSUME NEW ok \in BOOLEAN, NEW over \in BOOLEAN, Flush(ok, over) PROVE Holds
  <2>1. "complete" \notin LeftOver(over)
    BY DEF LeftOver
  <2> QED
    BY <1>14, <1>15, <1>16, <1>18, <2>1 DEF Flush, At, RunLeaves, Swapping
<1>19. ASSUME NEW ok \in BOOLEAN, Launch(ok) PROVE Holds
  BY <1>15, <1>16, <1>19 DEF Launch, At
<1>20. ASSUME NEW ok \in BOOLEAN, ActivateCopy(ok) \/ ActivateArchive(ok) PROVE Holds
  BY <1>14, <1>15, <1>20 DEF ActivateCopy, ActivateArchive, At, SwapLeaves, RunLeaves, Swapping
<1>21. ASSUME NEW ok \in BOOLEAN, NEW restored \in BOOLEAN, ActivateInstall(ok, restored) PROVE Holds
  BY <1>14, <1>15, <1>21 DEF ActivateInstall, At, SwapLeaves, RunLeaves, Swapping
<1>22. ASSUME NEW healthy \in BOOLEAN, NEW moved \in BOOLEAN, NEW restored \in BOOLEAN, NEW synced \in BOOLEAN,
              ActivateProbe(healthy, moved, restored, synced)
       PROVE  Holds
  BY <1>15, <1>16, <1>22 DEF ActivateProbe, At, RunLeaves, Swapping
<1> QED
  BY <1>1, <1>2, <1>3, <1>t, <1>4, <1>5, <1>c, <1>6, <1>7, <1>8, <1>9, <1>10, <1>11, <1>12, <1>13, <1>17, <1>18,
     <1>19, <1>20, <1>21, <1>22 DEF UpdateNext, RunStep

LEMMA QuietInit == UpdateInit => QuietInv
<1> SUFFICES ASSUME UpdateInit PROVE QuietInv
  OBVIOUS
<1>1. GateInv
  BY GateInit DEF UpdateInit
<1> QED
  BY <1>1, UpdateAssumption, GateAssumption DEF UpdateInit, QuietInv, RunTypeOK, RunHoldsGate, ExitHoldsGate,
     NoRun, Swapping

LEMMA QuietInvariant == UpdateSpec => []QuietInv
  BY QuietInit, QuietStep, PTL DEF UpdateSpec

\* In every behaviour of the updates, with crashes at any point, an update is staged,
\* flushed and activated with no admitted work running and no second updater past
\* its check, and the gate's channels are never closed twice.
THEOREM UpdatesRunAlone == UpdateSpec => [](UpdateAlone /\ NeverPanics)
<1>1. QuietInv => UpdateAlone /\ NeverPanics
  BY GatePromises DEF QuietInv
<1> QED
  BY <1>1, QuietInvariant, PTL

\* From a successful activation to the end of the process no work is admitted and
\* what admitted work had completed is in the spool: every handler that could open
\* the gate or leave results behind has to close it first, which it cannot.  Only the
\* open minute and events of lifecycle changes may still be in memory.
THEOREM QuietBeforeRestart == UpdateSpec => []QuietUntilRestart
<1>1. QuietInv => QuietUntilRestart
  BY GateClosed DEF QuietInv, ExitHoldsGate, QuietUntilRestart
<1> QED
  BY <1>1, QuietInvariant, PTL

----------------------------------------------------------------------------
(* The files. *)

\* The faults of a step: none is free, each counts.
LEMMA FailuresCount ==
  ASSUME NEW n \in Nat, NEW bad, DOMAIN bad = 1..n, faults \in Nat, Failures(bad)
  PROVE  /\ faults' \in Nat /\ faults' >= faults
         /\ \A i \in 1..n : bad[i] => faults' >= faults + 1
         /\ \A i, j \in 1..n : bad[i] /\ bad[j] /\ i # j => faults' >= faults + 2
<1> DEFINE S == {i \in DOMAIN bad : bad[i]}
<1>1. IsFiniteSet(S) /\ Cardinality(S) \in Nat /\ faults' = faults + Cardinality(S)
  <2>1. IsFiniteSet(1..n) /\ S \subseteq 1..n
    BY FS_Interval
  <2>2. IsFiniteSet(S) /\ Cardinality(S) \in Nat
    BY <2>1, FS_Subset, FS_CardinalityType
  <2> QED
    BY <2>2 DEF Failures
<1>2. ASSUME NEW T, T \subseteq S PROVE Cardinality(T) <= Cardinality(S)
  BY <1>1, <1>2, FS_Subset
<1>3. ASSUME NEW i \in 1..n, bad[i] PROVE faults' >= faults + 1
  <2>1. {i} \subseteq S /\ Cardinality({i}) = 1
    BY <1>3, FS_Singleton
  <2>2. 1 <= Cardinality(S)
    BY <1>2, <2>1
  <2> QED
    BY <1>1, <2>2
<1>4. ASSUME NEW i \in 1..n, NEW j \in 1..n, bad[i], bad[j], i # j PROVE faults' >= faults + 2
  <2>1. Cardinality({i}) = 1 /\ IsFiniteSet({i})
    BY FS_Singleton
  <2>2. Cardinality({i} \union {j}) = 2
    BY <1>4, <2>1, FS_AddElement
  <2>3. {i} \union {j} \subseteq S
    BY <1>4
  <2>4. 2 <= Cardinality(S)
    BY <1>2, <2>2, <2>3
  <2> QED
    BY <1>1, <2>4
<1> QED
  BY <1>1, <1>3, <1>4

LEMMA OutcomeCounts ==
  ASSUME NEW ok \in BOOLEAN, faults \in Nat, Outcome(ok)
  PROVE  faults' \in Nat /\ faults' >= faults /\ (~ok => faults' >= faults + 1)
<1>1. DOMAIN <<~ok>> = 1..1
  OBVIOUS
<1>2. 1 \in 1..1 /\ <<~ok>>[1] = ~ok
  OBVIOUS
<1> QED
  BY <1>1, <1>2, FailuresCount DEF Outcome

LEMMA InstallCounts ==
  ASSUME NEW ok \in BOOLEAN, NEW restored \in BOOLEAN, faults \in Nat, Failures(<<~ok, ~restored>>)
  PROVE  /\ faults' \in Nat /\ faults' >= faults
         /\ ~ok => faults' >= faults + 1
         /\ ~ok /\ ~restored => faults' >= faults + 2
<1> DEFINE bad == <<~ok, ~restored>>
<1>1. DOMAIN bad = 1..2 /\ bad[1] = ~ok /\ bad[2] = ~restored
  OBVIOUS
<1>2. 1 \in 1..2 /\ 2 \in 1..2 /\ 1 # 2
  OBVIOUS
<1> HIDE DEF bad
<1>3. Failures(bad)
  BY DEF bad
<1> QED
  BY <1>1, <1>2, <1>3, FailuresCount

\* The first three operations of a probe are the same in the service and in the helper.
LEMMA ProbeCounts ==
  ASSUME NEW n \in Nat, n >= 3, NEW bad, DOMAIN bad = 1..n, faults \in Nat, Failures(bad)
  PROVE  /\ faults' \in Nat /\ faults' >= faults
         /\ bad[3] => faults' >= faults + 1
         /\ bad[3] /\ (bad[1] \/ bad[2]) => faults' >= faults + 2
<1>1. 1 \in 1..n /\ 2 \in 1..n /\ 3 \in 1..n /\ 1 # 3 /\ 2 # 3
  OBVIOUS
<1> QED
  BY <1>1, FailuresCount

\* A step that leaves the files and the helper alone and is not part of a swap.
LEMMA FilesUntouched ==
  ASSUME FilesInv, UNCHANGED <<exe, previous, helper>>, faults' \in Nat, faults' >= faults,
         run.at \notin {"install", "probe"}, run'.at \notin {"install", "probe"},
         image = 0 /\ run = NoRun => image' = 0 /\ run' = NoRun
  PROVE  RunnableFile'
<1>1. Mid' <=> Mid
  BY DEF Mid
<1> QED
  BY <1>1 DEF FilesInv, FilesTypeOK, RunnableFile, Good

\* The handlers up to the swap, the work, the releases and the end of the process.
LEMMA FilesOutsideSwap ==
  ASSUME QuietInv, FilesInv,
         \/ UNCHANGED allvars
         \/ \E w \in Workers : Work(w) \/ \E flushed \in BOOLEAN : Finish(w, flushed)
         \/ TrackLifecycle
         \/ \E c \in Channels, v \in Versions : Publish(c, v)
         \/ AutoStart \/ PackageCheck
         \/ \E u \in Updaters : StageUpdate(u) \/ DrainTimeout(u) \/ DrainBegin(u) \/ DrainEnd(u)
         \/ \E ok \in BOOLEAN : \/ CheckUpdate(ok) \/ AutoCheck(ok) \/ \E c \in Channels : SetChannel(c, ok)
                                \/ Download(ok) \/ Launch(ok) \/ \E over \in BOOLEAN : Flush(ok, over)
         \/ Exit \/ Crash \/ Boot
  PROVE  FilesTypeOK' /\ SwapperKnown' /\ HelperAlone' /\ RunnableFile'
<1> DEFINE Kept == FilesTypeOK' /\ SwapperKnown' /\ HelperAlone' /\ RunnableFile'
<1> USE UpdateAssumption, GateAssumption DEF FilesInv, FilesTypeOK, SwapperKnown, HelperAlone
<1>t. RunTypeOK' /\ RunHoldsGate /\ RunHoldsGate'
  BY QuietStep DEF QuietInv, UpdateNext, RunStep
<1>f. faults \in Nat
  OBVIOUS
<1>1. CASE UNCHANGED allvars
  <2>1. RunnableFile'
    BY <1>1 DEF allvars, uvars, files, memory, RunnableFile, Mid, Good
  <2> QED
    BY <1>1, <2>1 DEF allvars, uvars, files, memory, world
<1>2. ASSUME \/ AutoStart \/ TrackLifecycle
             \/ \E w \in Workers : Work(w) \/ \E flushed \in BOOLEAN : Finish(w, flushed)
      PROVE  Kept
  <2>1. UNCHANGED <<exe, fresh, previous, helper, faults, image, run, available, exiting, method>>
    BY <1>2 DEF AutoStart, TrackLifecycle, Work, Finish, uvars, files, memory, world
  <2>2. RunnableFile'
    BY <2>1 DEF RunnableFile, Mid, Good
  <2> QED
    BY <2>1, <2>2
<1>3. ASSUME NEW c \in Channels, NEW v \in Versions, Publish(c, v) PROVE Kept
  <2>1. UNCHANGED <<fresh, previous, helper, faults, image, run, available, exiting, method>>
    BY <1>3 DEF Publish, memory
  <2>2. exe' = exe \/ (method = "apt" /\ exe' = v /\ v \notin Broken)
    BY <1>3 DEF Publish
  <2>3. v \in Nat \ {0}
    BY DEF Versions
  <2>4. RunnableFile'
    BY <2>1, <2>2, <2>3 DEF RunnableFile, Mid, Good, Swapping, Asleep
  <2> QED
    BY <2>1, <2>2, <2>3, <2>4
<1>4. ASSUME UNCHANGED <<exe, fresh, previous, helper, image, exiting, method>>,
             faults' \in Nat, faults' >= faults,
             run'.who \in {"user", "auto"} => available'.version # 0,
             run.at \notin Swapping, run'.at \notin {"launch"} \union Swapping, image # 0,
             run'.at # "free" => (run'.who = "package" <=> method = "apt")
      PROVE  Kept
  <2>1. RunnableFile'
    BY <1>4, FilesUntouched DEF Swapping
  <2> QED
    BY <1>4, <2>1 DEF Swapping
<1>5. CASE PackageCheck
  BY <1>f, <1>t, <1>4, <1>5 DEF PackageCheck, Claim, Free, Self, NoRun, files, world, Swapping
<1>6. ASSUME NEW u \in Updaters, StageUpdate(u) PROVE Kept
  BY <1>f, <1>t, <1>4, <1>6 DEF StageUpdate, Claim, Free, Self, NoRun, files, world, Swapping
<1>7. ASSUME NEW u \in Updaters, DrainTimeout(u) \/ DrainBegin(u) \/ DrainEnd(u) PROVE Kept
  <2>1. /\ run.at \in {"admit", "drain"} /\ image # 0
        /\ run' = run \/ run' = NoRun \/ \E next \in {"drain", "flush", "download"} : run' = [run EXCEPT !.at = next]
    BY <1>7, <1>t DEF DrainTimeout, DrainBegin, DrainEnd, EndRun, RunHoldsGate, NoRun, uvars, memory
  <2>2. UNCHANGED <<exe, fresh, previous, helper, image, exiting, method, available, faults>>
    BY <1>7 DEF DrainTimeout, DrainBegin, DrainEnd, uvars, memory, files, world
  <2>3. run'.who \in {run.who, None} /\ run'.at \in {run.at, "free", "drain", "flush", "download"}
        /\ (run'.at # "free" => run'.who = run.who)
    BY <2>1 DEF NoRun, RunTypeOK
  <2> QED
    BY <1>f, <1>4, <2>1, <2>2, <2>3 DEF Swapping
<1>8. ASSUME NEW ok \in BOOLEAN, CheckUpdate(ok) \/ AutoCheck(ok) \/ \E c \in Channels : SetChannel(c, ok)
      PROVE  Kept
  <2>1. run = NoRun /\ run' = NoRun /\ image # 0 /\ Outcome(ok)
    BY <1>8 DEF CheckUpdate, AutoCheck, SetChannel, Checked, Free
  <2>2. UNCHANGED <<exe, fresh, previous, helper, image, exiting, method>>
    BY <1>8 DEF CheckUpdate, AutoCheck, SetChannel, files, world
  <2> QED
    BY <1>f, <1>4, <2>1, <2>2, OutcomeCounts DEF NoRun, Swapping
<1>9. ASSUME NEW ok \in BOOLEAN, Download(ok) PROVE Kept
  <2>1. Outcome(ok) /\ image # 0 /\ run.at = "download"
        /\ UNCHANGED <<exe, fresh, previous, helper, image, exiting, method, available>>
    BY <1>9 DEF Download, At, RunLeaves, files, world
  <2>2. run' = NoRun \/ run' = [run EXCEPT !.at = "flush"]
    BY <1>9 DEF Download, Step, Fail, EndRun
  <2>3. run'.who \in {run.who, None} /\ run'.at \in {"free", "flush"} /\ (run'.at # "free" => run'.who = run.who)
    BY <2>2 DEF NoRun, RunTypeOK
  <2> QED
    BY <1>f, <1>4, <2>1, <2>3, OutcomeCounts DEF Swapping
<1>10. ASSUME NEW ok \in BOOLEAN, NEW over \in BOOLEAN, Flush(ok, over) PROVE Kept
  <2>1. Outcome(ok) /\ image # 0 /\ run.at = "flush"
        /\ UNCHANGED <<exe, fresh, previous, helper, image, method, available>>
    BY <1>10 DEF Flush, At, RunLeaves, files, world
  <2>2. \/ run' = NoRun
        \/ run' = [run EXCEPT !.at = IF method = "windows" THEN "launch" ELSE "copy"] /\ run.who # "package"
    BY <1>10 DEF Flush, Step, Fail, Activated, EndRun
  <2>3. \/ run'.at = "free" /\ run'.who = None
        \/ run'.at = (IF method = "windows" THEN "launch" ELSE "copy") /\ run'.who = run.who /\ run.who # "package"
    BY <2>2 DEF NoRun, RunTypeOK
  <2>4. method \in {"unix", "windows"} \/ run'.at = "free"
    BY <2>1, <2>3
  <2>5. RunnableFile'
    BY <1>f, <2>1, <2>3, OutcomeCounts, FilesUntouched
  <2> QED
    BY <1>f, <2>1, <2>3, <2>4, <2>5, OutcomeCounts DEF Swapping
<1>11. ASSUME NEW ok \in BOOLEAN, Launch(ok) PROVE Kept
  <2>1. Outcome(ok) /\ image # 0 /\ run.at = "launch" /\ UNCHANGED <<exe, fresh, previous, image, method, available>>
    BY <1>11 DEF Launch, At, files, world
  <2>2. run' = NoRun
    BY <1>11 DEF Launch, Fail, Activated, EndRun
  <2>3. helper' = helper \/ (helper = Asleep /\ helper' = [at |-> "wait", version |-> available.version])
    BY <1>11 DEF Launch
  <2>4. run.who \in {"user", "auto"} /\ method = "windows"
    BY <1>t, <2>1 DEF RunTypeOK, RunHoldsGate
  <2>5. RunnableFile'
    BY <1>f, <2>1, <2>2, <2>3, OutcomeCounts DEF RunnableFile, Mid, Good, NoRun, Asleep
  <2> QED
    BY <1>f, <2>1, <2>2, <2>3, <2>4, <2>5, OutcomeCounts DEF NoRun, Asleep, Swapping
<1>12. CASE Exit
  <2>1. UNCHANGED <<exe, fresh, previous, helper, method, exiting, faults>> /\ image # 0 /\ exiting /\ image' = 0
        /\ run = NoRun /\ run' = NoRun
    BY <1>12 DEF Exit, Gone, files, world
  <2>2. RunnableFile'
    BY <1>f, <2>1, FilesUntouched DEF NoRun
  <2> QED
    BY <2>1, <2>2 DEF NoRun
<1>13. CASE Crash
  <2>1. UNCHANGED <<exe, fresh, previous, helper, method>> /\ image # 0 /\ image' = 0 /\ run' = NoRun
    BY <1>13 DEF Crash, Gone, files, world
  <2>2. faults' \in Nat /\ faults' >= faults + 1
    BY <1>f, <1>13, OutcomeCounts DEF Crash
  <2>3. ASSUME faults = 0 PROVE RunnableFile'
    <3>1. helper.at \notin Swapping
      BY <2>1, <2>3
    <3>2. ~Mid'
      BY <2>1, <3>1 DEF Mid, NoRun, Swapping
    <3>3. CASE ~Mid
      BY <1>f, <2>1, <2>2, <2>3, <3>2, <3>3 DEF RunnableFile, Good
    <3>4. CASE Mid
      <4>1. run.at \in Swapping
        BY <3>1, <3>4 DEF Mid, Swapping
      <4>2. helper = Asleep
        BY <4>1
      <4> QED
        BY <1>f, <2>1, <2>2, <2>3, <3>2, <3>4, <4>2 DEF RunnableFile, Good
    <3> QED
      BY <3>3, <3>4
  <2>4. RunnableFile'
    BY <1>f, <2>2, <2>3 DEF RunnableFile
  <2> QED
    BY <1>f, <2>1, <2>2, <2>4 DEF NoRun, Swapping
<1>14. CASE Boot
  <2>1. UNCHANGED <<exe, fresh, previous, method, faults, run, available>> /\ image = 0 /\ image' = exe /\ Good(exe)
        /\ (exiting => helper.at \in {"none", "restart"})
    BY <1>14 DEF Boot, files, world, Good
  <2>2. helper' = helper \/ (helper.at = "restart" /\ helper' = Asleep)
    BY <1>14 DEF Boot
  <2>3. image' # 0
    BY <2>1 DEF Good
  <2>4. Mid' <=> Mid
    BY <2>1, <2>2 DEF Mid, Asleep
  <2>5. RunnableFile'
    BY <2>1, <2>4 DEF RunnableFile, Good
  <2> QED
    BY <2>1, <2>2, <2>3, <2>5 DEF Asleep, Swapping
<1> QED
  BY <1>1, <1>2, <1>3, <1>5, <1>6, <1>7, <1>8, <1>9, <1>10, <1>11, <1>12, <1>13, <1>14

\* The swap, by the service on unix.
LEMMA FilesServiceSwap ==
  ASSUME QuietInv, FilesInv,
         \/ \E ok \in BOOLEAN : ActivateCopy(ok) \/ ActivateArchive(ok)
         \/ \E ok, restored \in BOOLEAN : ActivateInstall(ok, restored)
         \/ \E healthy, moved, restored, synced \in BOOLEAN : ActivateProbe(healthy, moved, restored, synced)
  PROVE  FilesTypeOK' /\ SwapperKnown' /\ HelperAlone' /\ RunnableFile'
<1> DEFINE Kept == FilesTypeOK' /\ SwapperKnown' /\ HelperAlone' /\ RunnableFile'
<1> USE UpdateAssumption, GateAssumption DEF FilesInv, FilesTypeOK, SwapperKnown, HelperAlone
<1>1. run.at \in Swapping /\ image # 0 /\ method = "unix" /\ helper = Asleep /\ helper.at = "none"
  <2>1. run.at \in Swapping /\ image # 0
    BY DEF ActivateCopy, ActivateArchive, ActivateInstall, ActivateProbe, At, Swapping
  <2>2. method = "unix" /\ helper = Asleep
    BY <2>1
  <2> QED
    BY <2>1, <2>2 DEF Asleep
<1>2. UNCHANGED <<image, helper, method, available>>
  BY DEF ActivateCopy, ActivateArchive, ActivateInstall, ActivateProbe, SwapLeaves, RunLeaves, world
<1>3. run.who \in {"user", "auto"} /\ available.version # 0
  BY <1>1 DEF QuietInv, RunTypeOK, RunHoldsGate, Swapping
<1>f. faults \in Nat
  OBVIOUS
<1>s. ASSUME NEW next \in Swapping, Step(next)
      PROVE  run'.at = next /\ run'.who = run.who
  BY <1>s DEF Step, RunTypeOK, Swapping
<1>e. (Fail \/ Activated) => run'.at = "free" /\ run'.who = None
  BY DEF Fail, Activated, EndRun, NoRun
<1>m. /\ Mid <=> run.at \in {"install", "probe"}
      /\ Mid' <=> run'.at \in {"install", "probe"}
  BY <1>1, <1>2 DEF Mid
<1>4. ASSUME NEW ok \in BOOLEAN, ActivateCopy(ok) PROVE Kept
  <2>1. UNCHANGED <<exe, previous>> /\ run.at = "copy" /\ faults' \in Nat /\ faults' >= faults
    BY <1>f, <1>4, OutcomeCounts DEF ActivateCopy, At, Copy, files
  <2>2. \/ run'.at = "free" /\ run'.who = None
        \/ run'.at = "archive" /\ run'.who = run.who /\ fresh' = available.version
    <3>1. Fail \/ (Step("archive") /\ fresh' = available.version)
      BY <1>4 DEF ActivateCopy, Copy
    <3>2. Step("archive") => run'.at = "archive" /\ run'.who = run.who
      BY <1>s DEF Swapping
    <3> QED
      BY <1>e, <3>1, <3>2
  <2>3. RunnableFile'
    BY <1>1, <1>2, <2>1, <2>2, FilesUntouched
  <2> QED
    BY <1>1, <1>2, <1>3, <2>1, <2>2, <2>3 DEF Swapping
<1>5. ASSUME NEW ok \in BOOLEAN, ActivateArchive(ok) PROVE Kept
  <2>1. run.at = "archive" /\ faults' \in Nat /\ faults' >= faults /\ (~ok => faults' >= faults + 1)
    BY <1>f, <1>5, OutcomeCounts DEF ActivateArchive, At
  <2>2. CASE ok
    <3>1. run'.at = "install" /\ run'.who = run.who /\ exe # 0 /\ previous' = exe /\ fresh' = fresh
      BY <1>s, <1>5, <2>2 DEF ActivateArchive, Archive, Swapping
    <3>2. RunnableFile'
      BY <1>f, <1>1, <1>m, <2>1, <3>1 DEF RunnableFile, Good
    <3> QED
      BY <1>1, <1>2, <1>3, <2>1, <3>1, <3>2 DEF Swapping
  <2>3. CASE ~ok
    <3>1. run'.at = "free" /\ run'.who = None /\ exe' = exe
      BY <1>e, <1>5, <2>3 DEF ActivateArchive, Archive
    <3>2. RunnableFile'
      BY <1>f, <1>1, <1>m, <2>1, <2>3, <3>1 DEF RunnableFile, Good
    <3> QED
      BY <1>1, <1>2, <2>1, <3>1, <3>2 DEF Swapping
  <2> QED
    BY <2>2, <2>3
<1>6. ASSUME NEW ok \in BOOLEAN, NEW restored \in BOOLEAN, ActivateInstall(ok, restored) PROVE Kept
  <2>1. /\ run.at = "install" /\ faults' \in Nat /\ faults' >= faults
        /\ ~ok => faults' >= faults + 1
        /\ ~ok /\ ~restored => faults' >= faults + 2
    BY <1>f, <1>6, InstallCounts DEF ActivateInstall, At
  <2>2. CASE ok
    <3>1. run'.at = "probe" /\ run'.who = run.who /\ exe' = fresh /\ previous' = previous
      BY <1>s, <1>6, <2>2 DEF ActivateInstall, Install, Swapping
    <3>2. RunnableFile'
      BY <1>f, <1>m, <2>1, <3>1 DEF RunnableFile, Good
    <3> QED
      BY <1>1, <1>2, <1>3, <2>1, <3>1, <3>2 DEF Swapping
  <2>3. CASE ~ok
    <3>1. run'.at = "free" /\ run'.who = None /\ (restored => exe' = previous)
      BY <1>e, <1>6, <2>3 DEF ActivateInstall, Install
    <3>2. RunnableFile'
      BY <1>f, <1>m, <2>1, <2>3, <3>1 DEF RunnableFile, Good
    <3> QED
      BY <1>1, <1>2, <2>1, <3>1, <3>2 DEF Swapping
  <2> QED
    BY <2>2, <2>3
<1>7. ASSUME NEW healthy \in BOOLEAN, NEW moved \in BOOLEAN, NEW restored \in BOOLEAN, NEW synced \in BOOLEAN,
             ActivateProbe(healthy, moved, restored, synced)
      PROVE  Kept
  <2> DEFINE bad == <<~healthy /\ exe \notin Broken, ~moved, ~restored, ~synced>>
  <2>1. /\ run.at = "probe" /\ faults' \in Nat /\ faults' >= faults
        /\ ~restored => faults' >= faults + 1
        /\ ~restored /\ ~moved => faults' >= faults + 2
    <3>1. DOMAIN bad = 1..4 /\ bad[2] = ~moved /\ bad[3] = ~restored
      OBVIOUS
    <3> HIDE DEF bad
    <3>2. Failures(bad) /\ run.at = "probe"
      BY <1>7 DEF ActivateProbe, At, bad
    <3>3. 4 \in Nat /\ 4 >= 3
      OBVIOUS
    <3> QED
      BY <1>f, <3>1, <3>2, <3>3, ProbeCounts
  <2>2. run'.at = "free" /\ run'.who = None
    BY <1>e, <1>7 DEF ActivateProbe
  <2>3. CASE healthy
    <3>1. exe' = exe /\ exe \notin Broken /\ exe # 0
      BY <1>7, <2>1, <2>3 DEF ActivateProbe, files
    <3>2. RunnableFile'
      BY <1>f, <1>m, <2>1, <2>2, <3>1 DEF RunnableFile, Good
    <3> QED
      BY <1>1, <1>2, <2>1, <2>2, <3>2 DEF Swapping
  <2>4. CASE ~healthy
    <3>1. /\ exe' = IF restored THEN previous ELSE IF moved THEN 0 ELSE exe
          /\ previous' = IF restored THEN 0 ELSE previous
      BY <1>7, <2>4 DEF ActivateProbe, Rollback
    <3>2. RunnableFile'
      BY <1>f, <1>m, <2>1, <2>2, <3>1 DEF RunnableFile, Good
    <3> QED
      BY <1>1, <1>2, <2>1, <2>2, <3>2 DEF Swapping
  <2> QED
    BY <2>3, <2>4
<1> QED
  BY <1>4, <1>5, <1>6, <1>7

\* The swap, by the helper on Windows.
LEMMA FilesHelperSwap ==
  ASSUME QuietInv, FilesInv,
         \/ HelperWait \/ HelperDies \/ HelperStarted
         \/ \E ok \in BOOLEAN : HelperCopy(ok) \/ HelperArchive(ok)
         \/ \E ok, restored \in BOOLEAN : HelperInstall(ok, restored)
         \/ \E healthy, moved, restored \in BOOLEAN : HelperProbe(healthy, moved, restored)
  PROVE  FilesTypeOK' /\ SwapperKnown' /\ HelperAlone' /\ RunnableFile'
<1> DEFINE Kept == FilesTypeOK' /\ SwapperKnown' /\ HelperAlone' /\ RunnableFile'
<1> USE UpdateAssumption, GateAssumption DEF FilesInv, FilesTypeOK, SwapperKnown, HelperAlone
<1>1. helper # Asleep /\ HelperLeaves
  <2>1. HelperLeaves
    BY DEF HelperWait, HelperDies, HelperStarted, HelperCopy, HelperArchive, HelperInstall, HelperProbe
  <2>2. helper # Asleep \/ helper.at \in {"wait", "restart", "copy", "archive", "install", "probe"}
    BY DEF HelperWait, HelperDies, HelperStarted, HelperCopy, HelperArchive, HelperInstall, HelperProbe
  <2>3. Asleep.at = "none"
    BY DEF Asleep
  <2> QED
    BY <2>1, <2>2, <2>3
<1>2. UNCHANGED <<image, run, method, available, exiting>>
  BY <1>1 DEF HelperLeaves, memory, world
<1>3. method = "windows" /\ helper.version # 0 /\ run.at \notin Swapping
  BY <1>1
<1>f. faults \in Nat
  OBVIOUS
<1>s. ASSUME NEW next \in Swapping \union {"restart"}, HelperGoes(next)
      PROVE  /\ helper'.at = next /\ helper'.version = helper.version
             /\ DOMAIN helper' = {"at", "version"} /\ helper' # Asleep
  BY <1>s, <1>1, <1>3 DEF HelperGoes, Asleep, Swapping
<1>e. HelperEnds => helper' = Asleep /\ helper'.at = "none" /\ DOMAIN helper' = {"at", "version"}
  BY DEF HelperEnds, Asleep
<1>m. /\ Mid <=> helper.at \in {"install", "probe"}
      /\ Mid' <=> helper'.at \in {"install", "probe"}
  BY <1>2, <1>3 DEF Mid, Swapping
<1>z. image = 0 => run = NoRun
  BY DEF QuietInv, RunHoldsGate
<1>4. CASE HelperWait
  <2>1. UNCHANGED <<exe, fresh, previous, faults>> /\ helper.at = "wait"
        /\ ((image = 0 /\ HelperGoes("copy")) \/ HelperEnds)
    BY <1>4 DEF HelperWait, files
  <2>2. (image = 0 /\ helper'.at = "copy") \/ helper'.at = "none"
    BY <1>s, <1>e, <2>1 DEF Swapping
  <2>3. RunnableFile'
    BY <1>1, <1>2, <1>m, <2>1, <2>2 DEF RunnableFile, Good
  <2>4. DOMAIN helper' = {"at", "version"} /\ (helper' # Asleep => helper'.version = helper.version)
    BY <1>s, <1>e, <2>1 DEF Swapping
  <2> QED
    BY <1>2, <1>3, <2>1, <2>2, <2>3, <2>4 DEF Swapping
<1>5. CASE HelperStarted
  <2>1. UNCHANGED <<exe, fresh, previous, faults>> /\ helper.at = "restart" /\ HelperEnds
    BY <1>5 DEF HelperStarted, files
  <2>2. RunnableFile'
    BY <1>1, <1>2, <1>m, <1>e, <2>1 DEF RunnableFile, Good
  <2> QED
    BY <1>2, <1>3, <1>e, <2>1, <2>2 DEF Swapping
<1>6. CASE HelperDies
  <2>1. UNCHANGED <<exe, fresh, previous>> /\ HelperEnds /\ faults' \in Nat /\ faults' >= faults + 1
    BY <1>f, <1>6, OutcomeCounts DEF HelperDies, files
  <2>2. Mid /\ faults = 0 => image = 0
    BY <1>m DEF Swapping
  <2>3. RunnableFile'
    BY <1>f, <1>1, <1>2, <1>m, <1>e, <1>z, <2>1, <2>2 DEF RunnableFile, Good
  <2> QED
    BY <1>f, <1>2, <1>3, <1>e, <2>1, <2>3 DEF Swapping
<1>7. ASSUME NEW ok \in BOOLEAN, HelperCopy(ok) PROVE Kept
  <2>1. UNCHANGED <<exe, previous>> /\ helper.at = "copy" /\ faults' \in Nat /\ faults' >= faults
    BY <1>f, <1>7, OutcomeCounts DEF HelperCopy, Copy
  <2>2. HelperEnds \/ (HelperGoes("archive") /\ fresh' = helper.version)
    BY <1>7 DEF HelperCopy, Copy
  <2>3. \/ helper' = Asleep /\ helper'.at = "none" /\ DOMAIN helper' = {"at", "version"}
        \/ /\ helper'.at = "archive" /\ fresh' # 0 /\ helper'.version = helper.version
           /\ DOMAIN helper' = {"at", "version"} /\ helper' # Asleep
    BY <1>3, <1>s, <1>e, <2>2 DEF Swapping
  <2>4. RunnableFile'
    BY <1>f, <1>1, <1>2, <1>m, <2>1, <2>3 DEF RunnableFile, Good
  <2> QED
    BY <1>f, <1>2, <1>3, <2>1, <2>3, <2>4 DEF Swapping
<1>8. ASSUME NEW ok \in BOOLEAN, HelperArchive(ok) PROVE Kept
  <2>1. helper.at = "archive" /\ faults' \in Nat /\ faults' >= faults /\ (~ok => faults' >= faults + 1)
    BY <1>f, <1>8, OutcomeCounts DEF HelperArchive
  <2>2. CASE ok
    <3>1. HelperGoes("install") /\ exe # 0 /\ previous' = exe /\ fresh' = fresh
      BY <1>8, <2>2 DEF HelperArchive, Archive
    <3>2. /\ helper'.at = "install" /\ helper'.version = helper.version
          /\ DOMAIN helper' = {"at", "version"} /\ helper' # Asleep
      BY <1>s, <3>1 DEF Swapping
    <3>3. RunnableFile'
      BY <1>f, <1>1, <1>m, <2>1, <3>1, <3>2 DEF RunnableFile, Good
    <3> QED
      BY <1>f, <1>2, <1>3, <2>1, <3>1, <3>2, <3>3 DEF Swapping
  <2>3. CASE ~ok
    <3>1. HelperEnds /\ exe' = exe
      BY <1>8, <2>3 DEF HelperArchive, Archive
    <3>2. RunnableFile'
      BY <1>f, <1>1, <1>m, <1>e, <2>1, <2>3, <3>1 DEF RunnableFile, Good
    <3> QED
      BY <1>f, <1>2, <1>3, <1>e, <2>1, <2>3, <3>1, <3>2 DEF Swapping
  <2> QED
    BY <2>2, <2>3
<1>9. ASSUME NEW ok \in BOOLEAN, NEW restored \in BOOLEAN, HelperInstall(ok, restored) PROVE Kept
  <2>1. /\ helper.at = "install" /\ faults' \in Nat /\ faults' >= faults
        /\ ~ok => faults' >= faults + 1
        /\ ~ok /\ ~restored => faults' >= faults + 2
    BY <1>f, <1>9, InstallCounts DEF HelperInstall
  <2>2. CASE ok
    <3>1. HelperGoes("probe") /\ exe' = fresh /\ previous' = previous
      BY <1>9, <2>2 DEF HelperInstall, Install
    <3>2. /\ helper'.at = "probe" /\ helper'.version = helper.version
          /\ DOMAIN helper' = {"at", "version"} /\ helper' # Asleep
      BY <1>s, <3>1 DEF Swapping
    <3>3. RunnableFile'
      BY <1>f, <1>1, <1>m, <2>1, <3>1, <3>2 DEF RunnableFile, Good
    <3> QED
      BY <1>f, <1>2, <1>3, <2>1, <3>1, <3>2, <3>3 DEF Swapping
  <2>3. CASE ~ok
    <3>1. HelperEnds /\ (restored => exe' = previous)
      BY <1>9, <2>3 DEF HelperInstall, Install
    <3>2. RunnableFile'
      BY <1>f, <1>1, <1>m, <1>e, <2>1, <2>3, <3>1 DEF RunnableFile, Good
    <3> QED
      BY <1>f, <1>2, <1>3, <1>e, <2>1, <2>3, <3>1, <3>2 DEF Swapping
  <2> QED
    BY <2>2, <2>3
<1>10. ASSUME NEW healthy \in BOOLEAN, NEW moved \in BOOLEAN, NEW restored \in BOOLEAN,
              HelperProbe(healthy, moved, restored)
       PROVE  Kept
  <2> DEFINE bad == <<~healthy /\ exe \notin Broken, ~moved, ~restored>>
  <2>1. /\ helper.at = "probe" /\ faults' \in Nat /\ faults' >= faults
        /\ ~restored => faults' >= faults + 1
        /\ ~restored /\ ~moved => faults' >= faults + 2
    <3>1. DOMAIN bad = 1..3 /\ bad[2] = ~moved /\ bad[3] = ~restored
      OBVIOUS
    <3> HIDE DEF bad
    <3>2. Failures(bad) /\ helper.at = "probe"
      BY <1>10 DEF HelperProbe, bad
    <3>3. 3 \in Nat /\ 3 >= 3
      OBVIOUS
    <3> QED
      BY <1>f, <3>1, <3>2, <3>3, ProbeCounts
  <2>2. CASE healthy
    <3>1. HelperGoes("restart") /\ exe' = exe /\ exe \notin Broken /\ exe # 0
      BY <1>10, <2>1, <2>2 DEF HelperProbe, files
    <3>2. /\ helper'.at = "restart" /\ helper'.version = helper.version
          /\ DOMAIN helper' = {"at", "version"} /\ helper' # Asleep
      BY <1>s, <3>1
    <3>3. RunnableFile'
      BY <1>f, <1>m, <2>1, <3>1, <3>2 DEF RunnableFile, Good
    <3> QED
      BY <1>f, <1>2, <1>3, <2>1, <3>1, <3>2, <3>3 DEF Swapping
  <2>3. CASE ~healthy
    <3>1. /\ HelperEnds
          /\ exe' = IF restored THEN previous ELSE IF moved THEN 0 ELSE exe
          /\ previous' = IF restored THEN 0 ELSE previous
      BY <1>10, <2>3 DEF HelperProbe, Rollback
    <3>2. RunnableFile'
      BY <1>f, <1>m, <1>e, <2>1, <3>1 DEF RunnableFile, Good
    <3> QED
      BY <1>f, <1>2, <1>3, <1>e, <2>1, <3>1, <3>2 DEF Swapping
  <2> QED
    BY <2>2, <2>3
<1> QED
  BY <1>4, <1>5, <1>6, <1>7, <1>8, <1>9, <1>10

LEMMA FilesStep ==
  ASSUME QuietInv, FilesInv, [UpdateNext]_allvars
  PROVE  FilesInv'
<1>1. RunTypeOK'
  BY QuietStep DEF QuietInv
<1>2. FilesTypeOK' /\ SwapperKnown' /\ HelperAlone' /\ RunnableFile'
  BY FilesOutsideSwap, FilesServiceSwap, FilesHelperSwap DEF UpdateNext, RunStep
<1> QED
  BY <1>1, <1>2 DEF FilesInv

LEMMA FilesInit == UpdateInit => FilesInv
<1> SUFFICES ASSUME UpdateInit PROVE FilesInv
  OBVIOUS
<1>1. RunTypeOK
  BY QuietInit DEF QuietInv
<1>2. run.at = "free" /\ run.who = None /\ helper = Asleep /\ helper.at = "none" /\ DOMAIN helper = {"at", "version"}
  BY DEF UpdateInit, NoRun, Asleep
<1>3. ~Mid
  BY <1>2 DEF Mid
<1>4. Good(exe)
  BY UpdateAssumption DEF UpdateInit, Good
<1>5. image # 0 /\ faults = 0 /\ method \in {"unix", "windows", "apt"}
  BY DEF UpdateInit
<1> QED
  BY <1>1, <1>2, <1>3, <1>4, <1>5, UpdateAssumption, GateAssumption
  DEF FilesInv, FilesTypeOK, SwapperKnown, HelperAlone, RunnableFile, Swapping

\* Whichever one operation fails, or wherever the service, the helper or the machine
\* stops once, in any sequence of updates, a version that runs is left as the
\* executable or next to it: nothing is archived over the last one that does.
THEOREM RunnableVersionKept == UpdateSpec => []RunnableKept
<1>1. QuietInv /\ FilesInv /\ [UpdateNext]_allvars => (QuietInv /\ FilesInv)'
  BY QuietStep, FilesStep
<1>2. UpdateInit => QuietInv /\ FilesInv
  BY QuietInit, FilesInit
<1>3. FilesInv => RunnableKept
  BY DEF FilesInv, RunnableFile, RunnableKept, Good
<1> QED
  BY <1>1, <1>2, <1>3, PTL DEF UpdateSpec
=============================================================================
