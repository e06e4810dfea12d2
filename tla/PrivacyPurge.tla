---------------------------- MODULE PrivacyPurge ----------------------------
(***************************************************************************)
(* Consent withdrawal, disconnect and revocation: the state store          *)
(* (internal/state/store.go), the cleanup that the service runs under its  *)
(* mode lock (completeSSIDPurgeLocked) and the uploader's revocation latch.*)
(*                                                                         *)
(* The store keeps state.json and a second file, the purge sentinel, in    *)
(* one directory.  A file is replaced by writing a temporary, renaming it  *)
(* and syncing the directory, so one replacement has three outcomes:       *)
(* nothing happened ("failed"), the new file is visible but a power loss   *)
(* may still bring the old one back ("unsynced", reported as an error), or *)
(* it is durable ("synced").  A crash inside an operation is an outcome    *)
(* that stops early followed by Crash or PowerLoss.                        *)
(***************************************************************************)
EXTENDS Integers

CONSTANT
  MaxEnrollments      \* bound: enrollments

ASSUME EnvironmentAssumption == MaxEnrollments \in Nat

VARIABLES
  up,        \* the service is running
  mem,       \* Store.state of the running process
  disk,      \* the two files and what a power loss may leave of them
  locked,    \* an IPC handler holds modeRun between its marker and its cleanup
  stale,     \* a tick or upload read the marker and waits for modeRun
  joining,   \* connect has passed its checks and holds enrollRun
  blocked,   \* Uploader.privacyBlocked
  held,      \* telemetry in the aggregator, the spool and the local history
  enrolled,  \* number of enrollments so far
  owed,      \* history variable: purge promised by a nil BeginPrivacyPurge
  asked,     \* history variable: a purge was requested from this process
  withdrawn, \* history variable: consent withdrawn and not given again
  disowned,  \* history variable: disconnected or revoked, not enrolled again
  leaked,    \* history variable: a request went out after a purge was asked for
  powerLost  \* history variable: the machine has lost its power at some time

ghosts == <<owed, asked, withdrawn, disowned, leaked, powerLost>>
vars == <<up, stale, joining, mem, disk, locked, blocked, held, enrolled, ghosts>>

\* Purge actions by privacyPurgePriority.
None == 0
SSID == 1
Disconnect == 2
Revocation == 3
Actions == {SSID, Disconnect, Revocation}

Enrollments == 0..MaxEnrollments    \* 0: not claimed, or local-only data
Modes == {"setup", "standalone", "connected"}
States == [claim : Enrollments, mode : Modes, consent : BOOLEAN,
           pending : BOOLEAN, action : Actions \union {None}]
Disks == [state : States, stateMaybe : SUBSET States,
          sentinel : Actions \union {None}, sentinelMaybe : SUBSET (Actions \union {None})]
Telemetry == [owner : Enrollments, ssid : BOOLEAN]
Outcomes == {"failed", "unsynced", "synced"}
Errors == {"failed", "unsynced"}

TypeOK ==
  /\ up \in BOOLEAN /\ stale \in BOOLEAN /\ joining \in BOOLEAN /\ locked \in BOOLEAN /\ blocked \in BOOLEAN
  /\ mem \in States
  /\ disk \in Disks
  /\ held \subseteq Telemetry
  /\ enrolled \in Enrollments
  /\ owed \in Actions \union {None}
  /\ {asked, withdrawn, disowned, leaked, powerLost} \subseteq BOOLEAN

----------------------------------------------------------------------------
(* The file system below the store (external): rename and directory sync. *)

SyncDirectory(d) ==
  [d EXCEPT !.stateMaybe = {d.state}, !.sentinelMaybe = {d.sentinel}]

Outcome(o, old, renamed) ==
  IF o = "failed" THEN old
  ELSE IF o = "unsynced" THEN renamed ELSE SyncDirectory(renamed)

\* writeState and writePrivacyPurgeSentinel with outcome o.
WriteState(d, s, o) ==
  Outcome(o, d, [d EXCEPT !.state = s, !.stateMaybe = @ \union {s}])
WriteSentinel(d, a, o) ==
  Outcome(o, d, [d EXCEPT !.sentinel = a, !.sentinelMaybe = @ \union {a}])

----------------------------------------------------------------------------
(* Pure parts of the store. *)

Stronger(a, b) == IF a > b THEN a ELSE b

\* mutant: the later request wins
BegunLatest(s, a) == [s EXCEPT !.consent = FALSE, !.pending = TRUE, !.action = a]

\* beginPrivacyPurge
Begun(s, a) ==
  [s EXCEPT !.consent = FALSE, !.pending = TRUE, !.action = Stronger(a, @)]

\* WipeCredentials
Wiped(s) == [s EXCEPT !.claim = 0, !.mode = "standalone", !.consent = FALSE]

\* CompleteSSIDPurge's next state
Completed(s) == [s EXCEPT !.pending = FALSE, !.action = None]

\* Open: the state it starts from, given what it reads.  The fields other than
\* the ones here do not depend on the purge.
Recovered(s, a) ==
  LET t == IF a = None THEN s ELSE Begun(s, a)
      m == IF t.mode = "connected" /\ t.claim = 0 THEN "setup" ELSE t.mode
      p == t.pending \/ t.action # None
  IN  [t EXCEPT !.mode = m, !.pending = p,
                !.consent = @ /\ ~p,
                !.action = IF ~p THEN None ELSE Stronger(SSID, @)]

Operational(s) == s.mode = "standalone" \/ (s.mode = "connected" /\ s.claim # 0)

----------------------------------------------------------------------------
FirstState ==
  [claim |-> 0, mode |-> "setup", consent |-> FALSE, pending |-> FALSE, action |-> None]

Init ==
  /\ up = TRUE /\ stale = FALSE /\ joining = FALSE
  /\ mem = FirstState
  /\ disk = [state |-> FirstState, stateMaybe |-> {FirstState},
             sentinel |-> None, sentinelMaybe |-> {None}]
  /\ locked = FALSE /\ blocked = FALSE
  /\ held = {} /\ enrolled = 0
  /\ owed = None /\ asked = FALSE
  /\ withdrawn = FALSE /\ disowned = FALSE /\ leaked = FALSE /\ powerLost = FALSE

\* modeRun is free for the handlers, ticks and uploads of a running service.
Running == up /\ ~locked

\* commitLocked: memory follows the file, also when the directory sync failed.
Commit(s, o) ==
  /\ mem' = IF o = "failed" THEN mem ELSE s
  /\ disk' = WriteState(disk, s, o)

\* connect, up to its exchange with the controller: the checks are made without
\* modeRun, and enrollRun is kept until connect returns.
EnrollBegin ==
  /\ up /\ ~joining
  /\ ~mem.pending /\ mem.claim = 0
  /\ joining' = TRUE
  /\ UNCHANGED <<up, stale, mem, disk, locked, blocked, held, enrolled, ghosts>>

\* The controller refuses, cannot be reached, or the flush before the switch fails.
EnrollFails ==
  /\ up /\ joining
  /\ joining' = FALSE
  /\ UNCHANGED <<up, stale, mem, disk, locked, blocked, held, enrolled, ghosts>>

\* The claim is there: SetEnrollment under modeRun, without a second check.
Enroll(o) ==
  /\ Running /\ joining
  /\ enrolled < MaxEnrollments
  /\ enrolled' = enrolled + 1
  /\ Commit([mem EXCEPT !.claim = enrolled + 1, !.mode = "connected", !.consent = FALSE], o)
  /\ disowned' = (disowned /\ o = "failed")
  /\ joining' = FALSE
  /\ UNCHANGED <<up, stale, locked, blocked, held, owed, asked, withdrawn, leaked, powerLost>>

\* ssid_consent {"enabled": true}
GrantConsent(o) ==
  /\ Running
  /\ mem.claim # 0 /\ ~mem.pending
  /\ Commit([mem EXCEPT !.consent = TRUE], o)
  /\ withdrawn' = (withdrawn /\ o = "failed")
  /\ UNCHANGED <<up, stale, joining, locked, blocked, held, enrolled, owed, asked, disowned, leaked, powerLost>>

\* set_mode; the flush before the switch moves telemetry from the aggregator to
\* the spool, both in held.
SetMode(m, o) ==
  /\ Running
  /\ m # mem.mode
  /\ m = "connected" => mem.claim # 0
  /\ Commit([mem EXCEPT !.mode = m], o)
  /\ UNCHANGED <<up, stale, joining, locked, blocked, held, enrolled, ghosts>>

\* Any other setter (SetConfig, SetPausedUntil, SetUpdateChannel,
\* SetHouseholdMix, the speed-test ledgers): rewrites the file, leaves the
\* modelled fields alone.
Rewrite(o) ==
  /\ up
  /\ Commit(mem, o)
  /\ UNCHANGED <<up, stale, joining, locked, blocked, held, enrolled, ghosts>>

\* Producers and flush: telemetry of the current mode, with the SSID when the
\* subscriber consented.  A tick with a purge pending collects nothing.
Collect ==
  /\ Running
  /\ ~mem.pending /\ Operational(mem)
  /\ held' = held \union
       {[owner |-> IF mem.mode = "connected" THEN mem.claim ELSE 0, ssid |-> mem.consent]}
  /\ UNCHANGED <<up, stale, joining, mem, disk, locked, blocked, enrolled, ghosts>>

\* Uploader.Tick reaches the network (ingest, heartbeat or config pull).
MaySend == ~blocked /\ ~mem.pending /\ mem.claim # 0 /\ mem.mode = "connected"

\* mutant: the pending marker is not consulted
SendIgnoringMarker ==
  /\ Running
  /\ ~blocked /\ mem.claim # 0 /\ mem.mode = "connected"
  /\ leaked' = (leaked \/ asked \/ owed # None)
  /\ UNCHANGED <<up, stale, joining, mem, disk, locked, blocked, held, enrolled, owed, asked, withdrawn, disowned, powerLost>>

\* Acknowledged rows move to the local history, so held keeps them.
Send ==
  /\ Running
  /\ MaySend
  /\ leaked' = (leaked \/ asked \/ owed # None)
  /\ UNCHANGED <<up, stale, joining, mem, disk, locked, blocked, held, enrolled, owed, asked, withdrawn, disowned, powerLost>>

\* mutant: a renamed but unsynced state.json is reported as recorded
BeginPrivacyPurgeTrustingRename(a, o1, o2) ==
  LET s == Begun(mem, a)
  IN  /\ mem' = s
      /\ disk' = WriteState(WriteSentinel(disk, s.action, o1), s, o2)
      /\ asked' = TRUE
      /\ owed' = IF o2 # "failed" THEN Stronger(s.action, owed) ELSE owed
      /\ withdrawn' = (withdrawn \/ o2 # "failed")
      /\ UNCHANGED <<up, stale, joining, held, enrolled, disowned, leaked, powerLost>>

\* BeginPrivacyPurge(a): the sentinel, then state.json; memory is set whatever
\* the outcomes; nil is returned exactly when state.json was synced.
BeginPrivacyPurge(a, o1, o2) ==
  LET s == Begun(mem, a)
  IN  /\ mem' = s
      /\ disk' = WriteState(WriteSentinel(disk, s.action, o1), s, o2)
      /\ asked' = TRUE
      /\ owed' = IF o2 = "synced" THEN Stronger(s.action, owed) ELSE owed
      /\ withdrawn' = (withdrawn \/ o2 = "synced")
      /\ UNCHANGED <<up, stale, joining, held, enrolled, disowned, leaked, powerLost>>

\* ssid_consent {"enabled": false} and disconnect: marker, then the cleanup
\* below under the same lock.
WithdrawConsent(o1, o2) ==
  /\ Running
  /\ mem.claim # 0
  /\ BeginPrivacyPurge(SSID, o1, o2)
  /\ locked' = (o2 = "synced")
  /\ UNCHANGED blocked

\* disconnect takes enrollRun first, so it waits for a connect under way.
DisconnectSensor(o1, o2) ==
  /\ Running /\ ~joining
  /\ BeginPrivacyPurge(Disconnect, o1, o2)
  /\ locked' = (o2 = "synced")
  /\ UNCHANGED blocked

\* revoke: the controller answered a request with a revocation.
Revoke(o1, o2) ==
  /\ Running
  /\ MaySend
  /\ BeginPrivacyPurge(Revocation, o1, o2)
  /\ blocked' = TRUE
  /\ UNCHANGED locked

\* A later Tick while the latch is set persists the marker again.
RetryRevoke(o1, o2) ==
  /\ Running
  /\ blocked
  /\ BeginPrivacyPurge(Revocation, o1, o2)
  /\ UNCHANGED <<locked, blocked>>

----------------------------------------------------------------------------
(* completeSSIDPurgeLocked: from the IPC handlers above (locked), from a    *)
(* tick, from startup and after an upload.  One action per place it can     *)
(* return.                                                                  *)

Wipes == mem.action >= Disconnect
MemWiped == IF Wipes THEN Wiped(mem) ELSE mem
DiskWiped == IF Wipes THEN WriteState(disk, Wiped(mem), "synced") ELSE disk
DiskRefreshed == WriteSentinel(DiskWiped, mem.action, "synced")
DiskCompleted == WriteState(DiskRefreshed, Completed(MemWiped), "synced")
DiskRemoved ==
  [DiskCompleted EXCEPT !.sentinel = None, !.sentinelMaybe = @ \union {None}]

\* Every return leaves the lock; the spool and aggregator are empty from the
\* second one on, and the promise is kept once the credentials are gone too.
PurgeReturns(cleared, kept) ==
  /\ up /\ mem.pending
  /\ locked' = FALSE
  /\ held' = IF cleared THEN {} ELSE held
  /\ owed' = IF kept THEN None ELSE owed
  /\ UNCHANGED <<up, stale, joining, enrolled, withdrawn, leaked, powerLost>>

\* clearSpool fails, before its commit or after it.  (The aggregator is reset in
\* both cases; held keeps all of it, which is the worst case.)
PurgeClearFails ==
  /\ \E cleared \in BOOLEAN : PurgeReturns(cleared, FALSE)
  /\ UNCHANGED <<mem, disk, blocked, asked, disowned>>

PurgeWipeFails(o) ==
  /\ Wipes
  /\ PurgeReturns(TRUE, FALSE)
  /\ Commit(Wiped(mem), o)
  /\ UNCHANGED <<blocked, asked, disowned>>

PurgeRefreshFails(o) ==
  /\ PurgeReturns(TRUE, TRUE)
  /\ mem' = MemWiped
  /\ disk' = WriteSentinel(DiskWiped, mem.action, o)
  /\ UNCHANGED <<blocked, asked, disowned>>

PurgeCommitFails(o) ==
  /\ PurgeReturns(TRUE, TRUE)
  /\ mem' = MemWiped
  /\ disk' = WriteState(DiskRefreshed, Completed(MemWiped), o)
  /\ UNCHANGED <<blocked, asked, disowned>>

\* The sentinel cannot be removed, or its removal cannot be synced.
PurgeRemoveFails ==
  /\ PurgeReturns(TRUE, TRUE)
  /\ mem' = MemWiped
  /\ disk' \in {DiskCompleted, DiskRemoved}
  /\ UNCHANGED <<blocked, asked, disowned>>

\* mutant: telemetry is kept
PurgeDoneKeepingData ==
  /\ PurgeReturns(FALSE, TRUE)
  /\ mem' = Completed(MemWiped)
  /\ disk' = SyncDirectory(DiskRemoved)
  /\ blocked' = FALSE /\ asked' = FALSE
  /\ disowned' = (disowned \/ Wipes)

PurgeDone ==
  /\ PurgeReturns(TRUE, TRUE)
  /\ mem' = Completed(MemWiped)
  /\ disk' = SyncDirectory(DiskRemoved)
  /\ blocked' = FALSE /\ asked' = FALSE
  /\ disowned' = (disowned \/ Wipes)

\* tick and startUpload test the marker before they ask for the lock, so one of
\* them may still be waiting for it when another caller has finished.
SeeMarker ==
  /\ up /\ mem.pending
  /\ stale' = TRUE
  /\ UNCHANGED <<up, joining, mem, disk, locked, blocked, held, enrolled, ghosts>>

\* mutant: the action is read before the lock is taken
PurgeStaleWiping ==
  /\ Running /\ stale /\ ~mem.pending
  /\ stale' = FALSE
  /\ held' = {} /\ blocked' = FALSE
  /\ Commit(Wiped(mem), "synced")
  /\ UNCHANGED <<up, joining, locked, enrolled, ghosts>>

\* That caller gets the lock: it empties the spool again (which may fail), finds
\* no action and no marker in the store, and drops the latch.
PurgeStale ==
  /\ Running /\ stale /\ ~mem.pending
  /\ stale' = FALSE
  /\ \/ held' \in {held, {}} /\ UNCHANGED blocked
     \/ held' = {} /\ blocked' = FALSE
  /\ UNCHANGED <<up, joining, mem, disk, locked, enrolled, ghosts>>

----------------------------------------------------------------------------
\* The process ends, cleanly or not; the files stay as they are visible.
Crash ==
  /\ up
  /\ up' = FALSE /\ stale' = FALSE /\ joining' = FALSE /\ locked' = FALSE /\ blocked' = FALSE /\ asked' = FALSE
  /\ UNCHANGED <<mem, disk, held, enrolled, owed, withdrawn, disowned, leaked, powerLost>>

\* The machine loses power: every file is one of those the rename order allows.
PowerLoss ==
  /\ up' = FALSE /\ stale' = FALSE /\ joining' = FALSE /\ locked' = FALSE /\ blocked' = FALSE /\ asked' = FALSE
  /\ \E s \in disk.stateMaybe, a \in disk.sentinelMaybe :
       disk' = [state |-> s, stateMaybe |-> {s}, sentinel |-> a, sentinelMaybe |-> {a}]
  /\ powerLost' = TRUE
  /\ UNCHANGED <<mem, held, enrolled, owed, withdrawn, disowned, leaked>>

\* Open; the service only starts when the normalised state could be written.
Open(o) ==
  /\ ~up
  /\ up' = (o = "synced")
  /\ Commit(Recovered(disk.state, disk.sentinel), o)
  /\ UNCHANGED <<stale, joining, locked, blocked, held, enrolled, ghosts>>

Next ==
  \/ \E o \in Outcomes :
       \/ Enroll(o)
       \/ GrantConsent(o)
       \/ \E m \in {"standalone", "connected"} : SetMode(m, o)
       \/ Rewrite(o)
       \/ Open(o)
  \/ \E o1, o2 \in Outcomes :
       \/ WithdrawConsent(o1, o2)
       \/ DisconnectSensor(o1, o2)
       \/ Revoke(o1, o2)
       \/ RetryRevoke(o1, o2)
  \/ \E o \in Errors :
       \/ PurgeWipeFails(o)
       \/ PurgeRefreshFails(o)
       \/ PurgeCommitFails(o)
  \/ PurgeClearFails \/ PurgeRemoveFails \/ PurgeDone \/ SeeMarker \/ PurgeStale
  \/ EnrollBegin \/ EnrollFails \/ Collect \/ Send
  \/ Crash \/ PowerLoss

Spec == Init /\ [][Next]_vars

----------------------------------------------------------------------------
(* Correctness. *)

\* A purge that BeginPrivacyPurge reported as recorded is still going to happen
\* after any crash or power loss: whatever Open finds, it starts with the marker
\* set and an action at least as strong as the one promised.
IntentSurvives ==
  owed # None =>
    \A s \in disk.stateMaybe, a \in disk.sentinelMaybe :
      Recovered(s, a).pending /\ Recovered(s, a).action >= owed

\* Once a purge was asked for, no batch, heartbeat or config request leaves the
\* process until the cleanup completed, also when neither file could be written
\* (docs/privacy.md: the marker "blocks every upload and heartbeat").
NothingSentAfterWithdrawal == ~leaked

\* With consent off and no cleanup outstanding there is no telemetry with an
\* SSID left anywhere, over crashes at every step of the cleanup.  (A power loss
\* can take back a consent whose rename was not synced and leave what was
\* collected under it.)
ConsentOffMeansClean ==
  ~powerLost /\ up /\ ~mem.consent /\ ~mem.pending => \A t \in held : ~t.ssid

\* A withdrawal that was recorded holds until consent is given again: no
\* restart and no lost write brings the old consent back.
ConsentStaysWithdrawn ==
  withdrawn =>
    \A s \in disk.stateMaybe, a \in disk.sentinelMaybe : ~Recovered(s, a).consent

\* After a disconnect or revocation completed no crash or power loss brings
\* the old credentials back.
CredentialsStayWiped ==
  disowned => (up => mem.claim = 0) /\ \A s \in disk.stateMaybe : s.claim = 0

\* A claimed sensor holds uploadable telemetry of its own enrollment only, so
\* what was collected for one controller is never sent to the next one, as long
\* as no power loss takes back an enrollment that was acted on.
QueueOwnedByEnrollment ==
  ~powerLost /\ up /\ mem.claim # 0 /\ ~mem.pending =>
    \A t \in held : t.owner \in {0, mem.claim}

\* A repeated request may strengthen the pending purge, never weaken it.
NeverDowngraded ==
  [][up /\ up' /\ mem.pending /\ mem'.pending => mem'.action >= mem.action]_vars

\* A running service gives up an enrollment only for a disconnect or revocation
\* that is pending at that moment: a cleanup that was overtaken by another one
\* and by a new enrollment does not wipe the new credentials.
NewEnrollmentSurvives ==
  [][up /\ up' /\ mem.claim # 0 /\ mem'.claim # mem.claim =>
       mem'.claim = 0 /\ mem.pending /\ mem.action >= Disconnect]_vars
=============================================================================
