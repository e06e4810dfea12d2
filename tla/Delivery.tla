------------------------------ MODULE Delivery ------------------------------
(***************************************************************************)
(* The uploader (internal/uploader/uploader.go) draining the spool to a    *)
(* controller over a network that loses answers and delays requests, while *)
(* the service appends, prunes, purges and crashes.                        *)
(*                                                                         *)
(* Tick runs under runMu and under modeRun's read lock, so there is one    *)
(* Tick at a time and the handlers that take modeRun's write lock (Purge,  *)
(* DisconnectSensor, Enroll) wait for it; the appends of the scheduler do  *)
(* not.  A Tick is one action per request, answer and database             *)
(* transaction.  When the next Tick starts (NextAttempt, Force, backoff)   *)
(* is left open, and so is whether a heartbeat is due.                     *)
(***************************************************************************)
EXTENDS Spool

CONSTANTS
  MaxClaims,    \* bound: enrollments
  MaxVersion    \* bound: config versions the controller issues

ASSUME DeliveryAssumption == {MaxClaims, MaxVersion} \subseteq Nat \ {0}

VARIABLES
  claim,      \* State.SensorID: the enrollment in use, 0 if none
  enrolled,   \* number of enrollments so far
  purge,      \* State.SSIDPurgePending after a revocation
  stale,      \* a caller read that marker and waits for the lock
  config,     \* State.ConfigVersion
  phase,      \* where Tick is
  sending,    \* Tick's pending *spool.PendingBatch, as a set of at most one
  snapshot,   \* Tick's current.ConfigVersion
  offered,    \* response.ConfigVersion of the answer just read
  late,       \* requests the sensor gave up on that may still arrive
  accepted,   \* batches the controller stored
  version,    \* the controller's config version
  revoked     \* enrollments the controller revoked

sensor == <<claim, enrolled, purge, stale, config>>
tick == <<phase, sending, snapshot, offered>>
controller == <<late, accepted, version, revoked>>
uploader == <<sensor, tick, controller>>
dvars == <<vars, uploader>>

Claims == 1..MaxClaims
Uploads == [claim : Claims, batch : BatchIds, ids : SUBSET Nat]
Phases == {"idle", "ingest", "ack", "heartbeat", "config"}

DeliveryTypeOK ==
  /\ TypeOK
  /\ {claim, enrolled} \subseteq Claims \union {0} /\ config \in Nat
  /\ purge \in BOOLEAN /\ stale \in BOOLEAN
  /\ phase \in Phases /\ sending \subseteq PendingRows
  /\ snapshot \in Nat /\ offered \in Nat
  /\ late \subseteq Uploads /\ accepted \subseteq Uploads
  /\ version \in 1..MaxVersion
  /\ revoked \subseteq Claims

DeliveryInit ==
  /\ Init
  /\ claim = 0 /\ enrolled = 0 /\ purge = FALSE /\ stale = FALSE /\ config = 0
  /\ phase = "idle" /\ sending = {} /\ snapshot = 0 /\ offered = 0
  /\ late = {} /\ accepted = {} /\ version = 1 /\ revoked = {}

----------------------------------------------------------------------------
(* The controller (external): it deduplicates uploads by batch id.  Records *)
(* that its validation refuses inside an accepted batch count as stored:    *)
(* the sensor only logs RejectedRecords and retires them with the rest.     *)

Upload(p) == [claim |-> claim, batch |-> p.batch, ids |-> p.ids]

Stored(m) ==
  IF m.claim \in revoked \/ \E a \in accepted : a.claim = m.claim /\ a.batch = m.batch
  THEN accepted ELSE accepted \union {m}

\* An upload the sensor gave up on arrives after all.
LateArrival(m) ==
  /\ m \in late
  /\ late' = late \ {m}
  /\ accepted' = Stored(m)
  /\ UNCHANGED <<vars, sensor, tick, version, revoked>>

PublishConfig ==
  /\ version < MaxVersion
  /\ version' = version + 1
  /\ UNCHANGED <<vars, sensor, tick, late, accepted, revoked>>

RevokeSensor ==
  /\ claim # 0
  /\ revoked' = revoked \union {claim}
  /\ UNCHANGED <<vars, sensor, tick, late, accepted, version>>

----------------------------------------------------------------------------
(* Tick. *)

\* Its guards: no revocation latched, no purge pending, claimed.
MayTick == phase = "idle" /\ claim # 0 /\ ~purge

Begin(p, ph) ==
  /\ phase' = ph /\ sending' = p /\ snapshot' = config /\ offered' = 0
  /\ UNCHANGED <<sensor, controller>>

Finish == phase' = "idle" /\ sending' = {} /\ snapshot' = 0 /\ offered' = 0

\* NextBatch reserves rows; the request goes out.
TickReserve(b) ==
  /\ MayTick
  /\ NextBatch(b)
  /\ Begin(pending', "ingest")

\* mutant: a retry sends the oldest rows as they are now
TickRetrySelecting ==
  /\ MayTick
  /\ pending # {}
  /\ Begin({[p EXCEPT !.ids = Ids(Selected)] : p \in pending}, "ingest")
  /\ UNCHANGED vars

\* NextBatch finds the batch of an earlier Tick; the same body goes out again.
TickRetry ==
  /\ MayTick
  /\ pending # {}
  /\ Begin(pending, "ingest")
  /\ UNCHANGED vars

\* Nothing to upload and a heartbeat due.
TickHeartbeat ==
  /\ MayTick
  /\ pending = {} /\ Selected = {}
  /\ Begin({}, "heartbeat")
  /\ UNCHANGED vars

\* The controller takes the upload and its answer comes back.
IngestAnswered(p) ==
  /\ phase = "ingest" /\ p \in sending
  /\ claim \notin revoked
  /\ accepted' = Stored(Upload(p))
  /\ phase' = "ack" /\ offered' = version
  /\ UNCHANGED <<vars, sensor, sending, snapshot, late, version, revoked>>

\* mutant: a lost answer is taken for a success
IngestLostAcked(p) ==
  /\ phase = "ingest" /\ p \in sending
  /\ \/ accepted' = Stored(Upload(p)) /\ UNCHANGED late
     \/ late' = late \union {Upload(p)} /\ UNCHANGED accepted
     \/ UNCHANGED <<late, accepted>>
  /\ phase' = "ack"
  /\ UNCHANGED <<vars, sensor, sending, snapshot, offered, version, revoked>>

\* The answer is lost, the request times out on its way, or it is refused.
IngestLost(p) ==
  /\ phase = "ingest" /\ p \in sending
  /\ \/ accepted' = Stored(Upload(p)) /\ UNCHANGED late
     \/ late' = late \union {Upload(p)} /\ UNCHANGED accepted
     \/ UNCHANGED <<late, accepted>>
  /\ Finish
  /\ UNCHANGED <<vars, sensor, version, revoked>>

\* After a success: pull a newer config with a second request, or finish.
Continue(newer) ==
  IF newer > snapshot
  THEN /\ phase' = "config" /\ sending' = {}
       /\ UNCHANGED <<snapshot, offered>>
  ELSE Finish

\* Spool.Ack.  The batch may have expired while the request was under way; then
\* Ack finds no row and changes nothing.
TickAck(p) ==
  /\ phase = "ack" /\ p \in sending
  /\ \/ \E q \in pending : q.batch = p.batch /\ Ack(q)
     \/ p.batch \notin {q.batch : q \in pending} /\ UNCHANGED vars
  /\ Continue(offered)
  /\ UNCHANGED <<sensor, controller>>

\* Ack's transaction fails: the batch stays pending and is sent again.
TickAckFails ==
  /\ phase = "ack"
  /\ Finish
  /\ UNCHANGED <<vars, sensor, controller>>

HeartbeatAnswered ==
  /\ phase = "heartbeat"
  /\ claim \notin revoked
  /\ Continue(version)
  /\ UNCHANGED <<vars, sensor, controller>>

\* The heartbeat or the config pull fails or is lost.
RequestFails ==
  /\ phase \in {"heartbeat", "config"}
  /\ Finish
  /\ UNCHANGED <<vars, sensor, controller>>

\* SetConfig: an older version is ignored.
SetConfig(v) == config' = IF v < config THEN config ELSE v

\* The answer to the config pull; a controller replica may be behind.
ConfigAnswered(v) ==
  /\ phase = "config"
  /\ claim \notin revoked
  /\ v \in 1..version
  /\ SetConfig(v)
  /\ Finish
  /\ UNCHANGED <<vars, claim, enrolled, purge, stale, controller>>

\* Any request may be answered with sensor_revoked: revoke persists the marker
\* (PrivacyPurge has its failures) and nothing is acknowledged.
TickRevoked ==
  /\ phase \in {"ingest", "heartbeat", "config"}
  /\ claim \in revoked
  /\ purge' = TRUE
  /\ Finish
  /\ UNCHANGED <<vars, claim, enrolled, stale, config, controller>>

----------------------------------------------------------------------------
(* The service around it. *)

\* Bound: the Clears left when one is kept for a purge of this enrollment and of
\* every later one.
ClearsLeft == MaxClears - (epoch + 1 + MaxClaims - enrolled)

\* mutant: the queue outlives the enrollment
PurgeKeepingQueue ==
  /\ phase = "idle"
  /\ purge
  /\ claim' = 0 /\ purge' = FALSE /\ config' = 0
  /\ UNCHANGED <<vars, enrolled, stale, tick, controller>>

\* completeSSIDPurgeLocked after a revocation.
Purge ==
  /\ phase = "idle"
  /\ purge
  /\ Clear
  /\ claim' = 0 /\ purge' = FALSE /\ config' = 0
  /\ stale' \in BOOLEAN
  /\ UNCHANGED <<enrolled, tick, controller>>

\* The tick and the upload test the marker before they ask for the lock: the
\* second of them clears the spool once more.
PurgeStale ==
  /\ phase = "idle"
  /\ stale /\ ~purge
  /\ ClearsLeft > 0
  /\ Clear
  /\ stale' = FALSE
  /\ UNCHANGED <<claim, enrolled, purge, config, tick, controller>>

\* disconnect: marker and cleanup under one lock.
DisconnectSensor ==
  /\ phase = "idle"
  /\ ClearsLeft > 0
  /\ Clear
  /\ claim' = 0 /\ purge' = FALSE /\ config' = 0
  /\ UNCHANGED <<enrolled, stale, tick, controller>>

Enroll ==
  /\ phase = "idle"
  /\ claim = 0 /\ ~purge
  /\ enrolled < MaxClaims
  /\ enrolled' = enrolled + 1
  /\ claim' = enrolled' /\ config' = version
  /\ UNCHANGED <<vars, purge, stale, tick, controller>>

\* Spool operations of the scheduler, at any moment of a Tick.
Concurrent ==
  /\ \/ Advance
     \/ StepBack
     \/ \E n \in 1..MaxAppend, local \in BOOLEAN :
          \E batch \in [1..n -> Inputs] : AppendRows(n, batch, local)
  /\ UNCHANGED uploader

\* The process dies in the middle of anything and starts again; a request under
\* way may still arrive.
Crash ==
  /\ Reopen
  /\ stale' = FALSE
  /\ late' = IF phase = "ingest" THEN late \union {Upload(p) : p \in sending} ELSE late
  /\ Finish
  /\ UNCHANGED <<claim, enrolled, purge, config, accepted, version, revoked>>

DeliveryNext ==
  \/ \E b \in BatchIds : TickReserve(b)
  \/ TickRetry \/ TickHeartbeat
  \/ \E p \in sending : IngestAnswered(p) \/ IngestLost(p) \/ TickAck(p)
  \/ TickAckFails \/ HeartbeatAnswered \/ RequestFails \/ TickRevoked
  \/ \E v \in 1..MaxVersion : ConfigAnswered(v)
  \/ Purge \/ PurgeStale \/ DisconnectSensor \/ Enroll
  \/ Concurrent \/ Crash
  \/ \E m \in late : LateArrival(m)
  \/ PublishConfig \/ RevokeSensor

DeliverySpec == DeliveryInit /\ [][DeliveryNext]_dvars

\* The scheduler calls Tick every second, the purge is retried, and a request
\* that is repeated forever is answered (or its Ack committed) at some time.
FairDelivery ==
  /\ DeliverySpec
  /\ WF_dvars(TickRetry \/ \E b \in BatchIds : TickReserve(b))
  /\ SF_dvars(TickRevoked \/ \E p \in sending : IngestAnswered(p))
  /\ SF_dvars(\E p \in sending : TickAck(p))
  /\ WF_dvars(RequestFails)
  /\ SF_dvars(Purge)

----------------------------------------------------------------------------
(* Correctness. *)

\* The composed system implements the ledger: lost answers, late requests,
\* failed acknowledgements, expiry under way and crashes never make the
\* controller store a row twice, and never make the sensor retire a row that
\* the controller does not have or lose one without counting it.
Ledger == INSTANCE TelemetryLedger WITH
  taken <- nextId - 1, held <- Ids(records), lost <- dropped,
  stored <- UNION {{<<<<a.claim, a.batch>>, i>> : i \in a.ids} : a \in accepted}
ImplementsLedger == Ledger!Spec

\* Whatever happens between two attempts, every upload under a batch id that was
\* ever put on the wire names the rows that were first reserved under it
\* ("retry-stable", NextBatch), so deduplication by id is sound.
RetryStable ==
  \A m \in late \union accepted \union {Upload(p) : p \in sending} :
    \E i \in issued : i.batch = m.batch /\ i.ids = m.ids

\* Every row that waits for upload on a claimed sensor is eventually delivered
\* and acknowledged, given up by retention, or wiped.
RowsDrain ==
  \A i \in 1..MaxRowId :
    (claim # 0 /\ i \in Ids(Uploadable)) ~> i \notin Ids(records)
=============================================================================
