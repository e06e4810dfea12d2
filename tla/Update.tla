------------------------------- MODULE Update -------------------------------
(***************************************************************************)
(* Software updates: check_update, set_update_channel, stage_update, the   *)
(* automatic updater and the package restart (internal/service), and the   *)
(* replacement of the executable (internal/update), on top of the          *)
(* admission gate.                                                         *)
(*                                                                         *)
(* Handlers serialise on updateRun; one that stages drains the gate, then  *)
(* downloads, flushes and activates.  On unix the service itself swaps the *)
(* executable; on Windows a helper process does after the service has      *)
(* ended.  Renames may fail, and the process or the machine may stop       *)
(* between any two of them.  A version is a number; the executables of the *)
(* Broken ones fail their version probe and do not start.                  *)
(***************************************************************************)
EXTENDS ActivityGate

CONSTANTS
  Broken,      \* versions whose executable does not run
  MaxVersion,  \* bound: versions published
  MaxFaults    \* bound: failures and crashes

ASSUME UpdateAssumption ==
  /\ Updaters = {"user", "auto", "package"}
  /\ {MaxVersion, MaxFaults} \subseteq Nat /\ Broken \subseteq 2..MaxVersion

VARIABLES
  method,     \* Service.updateMethod, and the platform of a self-updating build
  image,      \* the version the service runs, 0 while it is down
  exe, fresh, previous,  \* the executable, .pulse-new, .pulse-previous
  index,      \* newest version on each channel's signed index
  channel,    \* State.UpdateChannel
  available,  \* updateStatus.Available, with the channel it was found on
  busy,       \* Service.updateBusy
  auto,       \* where startAutomaticUpdate's goroutine is
  run,        \* the holder of updateRun, where it is, and whether it owns busy
  restarting, \* updateStatus.Restarting
  exiting,    \* the restart timer is set or Service.shutdown closed, until the next start
  helper,     \* the Windows helper and the version it installs
  unflushed,  \* telemetry in memory: "complete" is what admitted work has produced,
              \* "late" the open minute and the events of lifecycle changes
  faults      \* history variable: failures and crashes

files == <<exe, fresh, previous>>
memory == <<available, busy, auto, run, restarting, exiting, unflushed>>
world == <<method, index>>
uvars == <<image, files, channel, memory, helper, world, faults>>
allvars == <<vars, uvars>>

Versions == 1..MaxVersion
Files == Versions \union {0}
Channels == {"main", "beta"}
None0 == [version |-> 0, channel |-> "main"]
NoRun == [who |-> None, at |-> "free", own |-> FALSE]
Asleep == [at |-> "none", version |-> 0]
Swapping == {"copy", "archive", "install", "probe"}

UpdateTypeOK ==
  /\ TypeOK
  /\ method \in {"unix", "windows", "apt"} /\ image \in Files
  /\ {exe, fresh, previous} \subseteq Files
  /\ index \in [Channels -> Files] /\ channel \in Channels
  /\ available \in [version : Files, channel : Channels]
  /\ {busy, restarting, exiting} \subseteq BOOLEAN
  /\ unflushed \subseteq {"complete", "late"}
  /\ auto \in {"none", "check", "stage"}
  /\ run \in [who : Updaters \union {None}, own : BOOLEAN,
              at : {"free", "admit", "drain", "download", "flush", "launch"} \union Swapping]
  /\ helper \in [at : {"none", "wait", "restart"} \union Swapping, version : Files]
  /\ faults \in 0..MaxFaults

UpdateInit ==
  /\ Init
  /\ method \in {"unix", "windows", "apt"}
  /\ image = 1 /\ exe = 1 /\ fresh = 0 /\ previous = 0
  /\ index = [c \in Channels |-> 1] /\ channel = "main" /\ available = None0
  /\ busy = FALSE /\ auto = "none" /\ run = NoRun /\ restarting = FALSE /\ exiting = FALSE
  /\ helper = Asleep /\ unflushed = {} /\ faults = 0

\* The operations of a step that fail, as far as the bound on faults allows.
Failures(bad) ==
  /\ faults' = faults + Cardinality({i \in DOMAIN bad : bad[i]})
  /\ faults' <= MaxFaults
Outcome(ok) == Failures(<<~ok>>)

----------------------------------------------------------------------------
(* Work behind the gate, and the release index. *)

Work(w) == image # 0 /\ Begin(w) /\ UNCHANGED uvars

\* The work has put its samples and results in the aggregator; a tick that flushes
\* leaves only the open minute there.
Finish(w, flushed) ==
  /\ Release(w)
  /\ unflushed' = IF flushed THEN {"late"} ELSE {"complete", "late"}
  /\ UNCHANGED <<image, files, channel, available, busy, auto, run, restarting, exiting,
                 helper, world, faults>>

\* broadcastLive, which a tick that the gate refuses runs too: trackLifecycle adds an
\* event.
TrackLifecycle ==
  /\ image # 0
  /\ unflushed' = unflushed \union {"late"}
  /\ UNCHANGED <<vars, image, files, channel, available, busy, auto, run, restarting, exiting,
                 helper, world, faults>>

\* A release (external), and a package upgrade (external): dpkg renames the new
\* file over the installed one.
Publish(c, v) ==
  /\ v > index[c]
  /\ index' = [index EXCEPT ![c] = v]
  /\ exe' = IF method = "apt" /\ v \notin Broken /\ v > exe THEN v ELSE exe
  /\ UNCHANGED <<vars, image, fresh, previous, channel, memory, helper, method, faults>>

----------------------------------------------------------------------------
(* check_update, set_update_channel. *)

Self == method # "apt"
Free == run = NoRun /\ image # 0

\* checkUpdate on channel c: Check takes the newest version above the running one.
Found(c) == IF index[c] > image THEN [version |-> index[c], channel |-> c] ELSE None0

Checked(c, ok) ==
  /\ Outcome(ok)
  /\ available' = IF ok THEN Found(c) ELSE available
  /\ restarting' = IF ok /\ Found(c).version \notin {0, available.version} THEN FALSE ELSE restarting

CheckUpdate(ok) ==
  /\ Free /\ Self
  /\ Checked(channel, ok)
  /\ UNCHANGED <<vars, image, files, channel, busy, auto, run, exiting, unflushed, helper, world>>

\* What was found or staged from the old channel is dropped before the check.
SetChannel(c, ok) ==
  /\ Free /\ Self /\ c # channel /\ ~busy /\ ~restarting
  /\ channel' = c
  /\ Outcome(ok) /\ available' = IF ok THEN Found(c) ELSE None0
  /\ UNCHANGED <<vars, image, files, busy, auto, run, restarting, exiting, unflushed, helper, world>>

----------------------------------------------------------------------------
(* startAutomaticUpdate, checkInstalledPackage, and the head of stage_update. *)

AutoStart ==
  /\ image # 0 /\ Self /\ ~busy /\ auto = "none"
  /\ busy' = TRUE /\ auto' = "check"
  /\ UNCHANGED <<vars, image, files, channel, available, run, restarting, exiting, unflushed,
                 helper, world, faults>>

AutoCheck(ok) ==
  /\ Free /\ auto = "check"
  /\ Checked(channel, ok)
  /\ LET go == ok /\ available'.version # 0
     IN  auto' = (IF go THEN "stage" ELSE "none") /\ busy' = go
  /\ UNCHANGED <<vars, image, files, channel, run, exiting, unflushed, helper, world>>

Claim(u, own) == run' = [who |-> u, at |-> "admit", own |-> own]

\* updateBusy is taken unless the automatic updater holds it already.
StageUpdate(u) ==
  /\ Free /\ Self /\ u \in {"user", "auto"} /\ (u = "auto" => auto = "stage")
  /\ available.version # 0
  /\ Claim(u, ~busy)
  /\ busy' = TRUE
  /\ UNCHANGED <<vars, image, files, channel, available, auto, restarting, exiting, unflushed,
                 helper, world, faults>>

PackageCheck ==
  /\ Free /\ ~Self /\ exe \notin {0, image}
  /\ ~busy /\ ~restarting
  /\ Claim("package", TRUE)
  /\ busy' = TRUE
  /\ UNCHANGED <<vars, image, files, channel, available, auto, restarting, exiting, unflushed,
                 helper, world, faults>>

\* The handler returns without a restart; the automatic updater's goroutine ends
\* with its own handler.
EndRun ==
  /\ run' = NoRun
  /\ auto' = IF run.who = "auto" THEN "none" ELSE auto
  /\ busy' = (busy /\ ~run.own /\ run.who # "auto")

\* quiesce, refused while another update has closed the gate for its restart
DrainBegin(u) ==
  /\ run.who = u /\ run.at = "admit"
  /\ \/ Quiesce(u) /\ run' = [run EXCEPT !.at = "drain"] /\ UNCHANGED <<auto, busy>>
     \/ quiescing /\ EndRun /\ UNCHANGED vars
  /\ UNCHANGED <<image, files, channel, available, restarting, exiting, unflushed, helper, world, faults>>

DrainTimeout(u) == run.who = u /\ run.at = "drain" /\ Cancel(u) /\ UNCHANGED uvars

DrainEnd(u) ==
  /\ run.who = u /\ run.at = "drain"
  /\ \/ Enter(u)
        /\ run' = [run EXCEPT !.at = IF u = "package" THEN "flush" ELSE "download"]
        /\ UNCHANGED <<auto, busy>>
     \/ GiveUp(u) /\ EndRun
  /\ UNCHANGED <<image, files, channel, available, restarting, exiting, unflushed, helper, world, faults>>

----------------------------------------------------------------------------
(* The rest of stage_update and restartForPackageUpgrade. *)

At(step) == run.at = step /\ image # 0
Step(next) == run' = [run EXCEPT !.at = next] /\ UNCHANGED <<auto, busy>>
Fail == EndRun /\ Abort(run.who)
RunLeaves == UNCHANGED <<image, channel, available, helper, world>>

\* The restart is due: the gate stays closed, the handler returns.
Activated ==
  /\ restarting' = TRUE /\ exiting' = TRUE
  /\ IF run.who = "package" THEN run' = NoRun /\ UNCHANGED <<auto, busy>> ELSE EndRun
  /\ UNCHANGED vars

\* Stage: the file gets its name only if size and checksum are right.
Download(ok) ==
  /\ At("download") /\ Outcome(ok)
  /\ IF ok THEN Step("flush") /\ UNCHANGED vars ELSE Fail
  /\ UNCHANGED <<files, restarting, exiting, unflushed>> /\ RunLeaves

\* What a successful flush leaves in memory: the current minute, if it is not over.
LeftOver(over) == IF over THEN {} ELSE unflushed \ {"complete"}

\* mutant: a restart is due whether or not the flush succeeded
FlushIgnored(ok, over) ==
  /\ At("flush") /\ Outcome(ok)
  /\ unflushed' = IF ok THEN LeftOver(over) ELSE unflushed
  /\ IF run.who = "package" THEN Activated
     ELSE Step(IF method = "windows" THEN "launch" ELSE "copy")
          /\ UNCHANGED <<vars, restarting, exiting>>
  /\ UNCHANGED files /\ RunLeaves

\* flushForUpdate
Flush(ok, over) ==
  /\ At("flush") /\ Outcome(ok)
  /\ unflushed' = IF ok THEN LeftOver(over) ELSE unflushed
  /\ CASE ~ok -> Fail /\ UNCHANGED <<restarting, exiting>>
       [] ok /\ run.who = "package" -> Activated
       [] OTHER -> Step(IF method = "windows" THEN "launch" ELSE "copy")
                   /\ UNCHANGED <<vars, restarting, exiting>>
  /\ UNCHANGED files /\ RunLeaves

----------------------------------------------------------------------------
(* The swap of the executable: Activate on unix, ApplyPending on Windows.   *)
(* Each is one file operation, given whether it succeeds.                   *)

Copy(v, ok) ==
  /\ fresh' = IF ok THEN v ELSE 0
  /\ UNCHANGED <<exe, previous>>

\* Remove(previous), then Rename(executable, previous)
Archive(ok) ==
  /\ previous' = IF ok THEN exe ELSE 0
  /\ exe' = IF ok THEN 0 ELSE exe
  /\ fresh' = IF ok THEN fresh ELSE 0

\* Rename(new, executable); if it fails the previous one is put back, if that works.
Install(ok, restored) ==
  /\ exe' = CASE ok -> fresh [] ~ok /\ restored -> previous [] OTHER -> exe
  /\ fresh' = IF ok THEN 0 ELSE fresh
  /\ previous' = IF ~ok /\ restored THEN 0 ELSE previous

\* mutant: the broken executable is left in place
RollbackForgotten(moved, restored) == UNCHANGED files

\* After a failed probe the executable is moved aside, under a name that nothing reads,
\* and the previous one is renamed back.
Rollback(moved, restored) ==
  /\ exe' = IF restored THEN previous ELSE IF moved THEN 0 ELSE exe
  /\ previous' = IF restored THEN 0 ELSE previous
  /\ UNCHANGED fresh

SwapLeaves == UNCHANGED <<restarting, exiting, unflushed>> /\ RunLeaves

\* Stat fails if there is no executable; nothing is touched then.
ActivateCopy(ok) ==
  /\ At("copy") /\ Outcome(ok)
  /\ IF exe = 0 THEN Fail /\ UNCHANGED files
     ELSE /\ Copy(available.version, ok)
          /\ IF ok THEN Step("archive") /\ UNCHANGED vars ELSE Fail
  /\ SwapLeaves

\* Renaming a file that is not there fails.
ActivateArchive(ok) ==
  /\ At("archive") /\ Outcome(ok) /\ (ok => exe # 0)
  /\ Archive(ok)
  /\ IF ok THEN Step("install") /\ UNCHANGED vars ELSE Fail
  /\ SwapLeaves

ActivateInstall(ok, restored) ==
  /\ At("install") /\ Failures(<<~ok, ~restored>>)
  /\ Install(ok, restored)
  /\ IF ok THEN Step("probe") /\ UNCHANGED vars ELSE Fail
  /\ SwapLeaves

\* The version probe; a healthy one may time out.  After it only the sync of the
\* directory can fail, with the new executable in place.
ActivateProbe(healthy, moved, restored, synced) ==
  /\ At("probe") /\ Failures(<<~healthy /\ exe \notin Broken, ~moved, ~restored, ~synced>>)
  /\ healthy => exe \notin Broken
  /\ IF healthy THEN UNCHANGED files ELSE Rollback(moved, restored)
  /\ IF healthy /\ synced THEN Activated ELSE Fail /\ UNCHANGED <<restarting, exiting>>
  /\ UNCHANGED unflushed /\ RunLeaves

\* Windows: Activate starts the helper, which waits for this process.
Launch(ok) ==
  /\ At("launch") /\ Outcome(ok)
  /\ helper' = IF ok /\ helper = Asleep THEN [at |-> "wait", version |-> available.version] ELSE helper
  /\ IF ok THEN Activated ELSE Fail /\ UNCHANGED <<restarting, exiting>>
  /\ UNCHANGED <<image, files, channel, available, unflushed, world>>

HelperGoes(next) == helper' = [helper EXCEPT !.at = next]
HelperEnds == helper' = Asleep
HelperLeaves == UNCHANGED <<vars, image, channel, memory, world>>

\* waitForProcess: the service has ended, or two minutes are over.
HelperWait ==
  /\ helper.at = "wait"
  /\ IF image = 0 THEN HelperGoes("copy") ELSE HelperEnds
  /\ UNCHANGED <<files, faults>> /\ HelperLeaves

HelperCopy(ok) ==
  /\ helper.at = "copy" /\ Outcome(ok)
  /\ Copy(helper.version, ok)
  /\ IF ok THEN HelperGoes("archive") ELSE HelperEnds
  /\ HelperLeaves

HelperArchive(ok) ==
  /\ helper.at = "archive" /\ Outcome(ok) /\ (ok => exe # 0)
  /\ Archive(ok)
  /\ IF ok THEN HelperGoes("install") ELSE HelperEnds
  /\ HelperLeaves

HelperInstall(ok, restored) ==
  /\ helper.at = "install" /\ Failures(<<~ok, ~restored>>)
  /\ Install(ok, restored)
  /\ IF ok THEN HelperGoes("probe") ELSE HelperEnds
  /\ HelperLeaves

HelperProbe(healthy, moved, restored) ==
  /\ helper.at = "probe"
  /\ Failures(<<~healthy /\ exe \notin Broken, ~moved, ~restored>>)
  /\ healthy => exe \notin Broken
  /\ IF healthy THEN UNCHANGED files /\ HelperGoes("restart")
     ELSE Rollback(moved, restored) /\ HelperEnds
  /\ HelperLeaves

HelperDies ==
  /\ helper # Asleep /\ Outcome(FALSE)
  /\ HelperEnds
  /\ UNCHANGED files /\ HelperLeaves

----------------------------------------------------------------------------
(* The process. *)

Gone ==
  /\ image' = 0
  /\ active' = 0 /\ quiescing' = FALSE /\ drained' = None /\ chan' = [v \in Updaters |-> "nil"]
  /\ working' = {} /\ pc' = [v \in Updaters |-> "idle"] /\ cancelled' = {}
  /\ available' = None0 /\ busy' = FALSE /\ auto' = "none" /\ run' = NoRun
  /\ restarting' = FALSE /\ unflushed' = {}
  /\ UNCHANGED <<panicked, files, channel, helper, world>>

\* The restart: Run returns once the handlers are done.
Exit == image # 0 /\ exiting /\ run = NoRun /\ Gone /\ UNCHANGED <<exiting, faults>>
Crash == image # 0 /\ Outcome(FALSE) /\ exiting' = FALSE /\ Gone

\* The service manager, ReexecInstalled or restartWindowsService starts what the
\* executable's name holds.  Windows' manager restarts a service that crashed and
\* leaves one that stopped to the helper.
Boot ==
  /\ image = 0 /\ exe \notin Broken \union {0}
  /\ exiting => helper.at \in {"none", "restart"}
  /\ image' = exe
  /\ helper' = IF helper.at = "restart" THEN Asleep ELSE helper
  /\ exiting' = FALSE
  /\ UNCHANGED <<vars, files, channel, available, busy, auto, run, restarting, unflushed,
                 world, faults>>

\* restartWindowsService finds the service already started.
HelperStarted ==
  /\ helper.at = "restart" /\ image # 0
  /\ HelperEnds
  /\ UNCHANGED <<files, faults>> /\ HelperLeaves

\* What the holder of updateRun does next.
RunStep ==
  \/ \E u \in Updaters : DrainBegin(u) \/ DrainEnd(u)
  \/ \E ok \in BOOLEAN : \/ Download(ok) \/ Launch(ok) \/ \E over \in BOOLEAN : Flush(ok, over)
                         \/ ActivateCopy(ok) \/ ActivateArchive(ok)
  \/ \E ok, restored \in BOOLEAN : ActivateInstall(ok, restored)
  \/ \E healthy, moved, restored, synced \in BOOLEAN :
       ActivateProbe(healthy, moved, restored, synced)

UpdateNext ==
  \/ \E w \in Workers : Work(w) \/ \E flushed \in BOOLEAN : Finish(w, flushed)
  \/ TrackLifecycle
  \/ \E c \in Channels, v \in Versions : Publish(c, v)
  \/ AutoStart \/ PackageCheck \/ RunStep
  \/ \E u \in Updaters : StageUpdate(u) \/ DrainTimeout(u)
  \/ \E ok \in BOOLEAN :
       \/ CheckUpdate(ok) \/ AutoCheck(ok) \/ \E c \in Channels : SetChannel(c, ok)
       \/ HelperCopy(ok) \/ HelperArchive(ok)
  \/ \E ok, restored \in BOOLEAN : HelperInstall(ok, restored)
  \/ \E healthy, moved, restored \in BOOLEAN : HelperProbe(healthy, moved, restored)
  \/ HelperWait \/ HelperDies \/ HelperStarted
  \/ Exit \/ Crash \/ Boot

UpdateSpec == UpdateInit /\ [][UpdateNext]_allvars

\* The handler goes on, its drain timeout expires, and the restart timer ends Run: it
\* closes the IPC endpoint, so that no stream of new handlers holds it off.
UpdateFairSpec ==
  /\ UpdateSpec
  /\ WF_allvars(RunStep)
  /\ WF_allvars(\E u \in Updaters : DrainTimeout(u))
  /\ SF_allvars(Exit)

----------------------------------------------------------------------------
(* Correctness. *)

\* Whatever one operation fails, or wherever the service, the helper or the machine
\* stops once, a version that runs is left as the executable or next to it.
RunnableKept == faults <= 1 => \E f \in {exe, previous} : f \notin Broken \union {0}

\* "Keeps admission closed": from a successful activation to the end of the process
\* no work is admitted, and whatever admitted work has completed is in the spool,
\* whatever checks, channel changes or second update attempts come in between.  What
\* may still be in memory is the open minute, which flushForUpdate keeps, and
\* lifecycle events, which ticks add outside the gate.
QuietUntilRestart ==
  exiting /\ image # 0 => quiescing /\ working = {} /\ "complete" \notin unflushed
=============================================================================
