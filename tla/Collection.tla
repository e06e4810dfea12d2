----------------------------- MODULE Collection -----------------------------
(***************************************************************************)
(* How measurements become spool rows: the scheduler's tick, its producers *)
(* and flushes, set_mode and connect (internal/service/service.go) around  *)
(* the minute aggregator (internal/aggregate/aggregate.go).                *)
(*                                                                         *)
(* A tick holds modeRun for reading until its producers have published; a  *)
(* mode switch holds it for writing.  The lifecycle event at the end of a  *)
(* tick is recorded without the lock.  A sample is its target, its minute  *)
(* and the mode it was measured in; DNS, HTTP, link and speed results are  *)
(* "check" records.  The upload Tick only reads and is left out.           *)
(***************************************************************************)
EXTENDS Integers, FiniteSets, FiniteSetsExt

CONSTANTS
  Targets,         \* probe targets
  MaxMinute,       \* bound: last minute of the clock
  MaxNotes,        \* bound: check and event records, by adjustable
  MaxStarts,       \* bound: restarts, by adjustable
  MaxWipes         \* bound: privacy purges, by adjustable

ASSUME CollectionAssumption ==
  /\ {MaxNotes, MaxStarts, MaxWipes} \subseteq [BOOLEAN -> Nat]
  /\ MaxMinute \in Nat \ {0}
  /\ Targets \intersect {"check", "event"} = {}

VARIABLES
  now,          \* the wall clock, in minutes
  adjustable,   \* whether this behaviour's clock may be set back; never changes
  up,           \* the service is running
  mode,         \* State.Mode
  paused,       \* State.Paused
  open,         \* Aggregator.buckets
  sealed,       \* Aggregator.sealed
  pending,      \* Aggregator.pending
  taken,        \* records a flush has extracted and not yet appended
  spooled,      \* what was appended to the spool, with its local_only bit
  tick,         \* where the scheduler's tick is
  snap,         \* the tick's snapshot of mode and pause
  flushMinute,  \* Service.flushMinute
  last,         \* Service.lifecycleState
  seen,         \* the lifecycle state this tick has read, and in which mode
  probe,        \* the latency producer (probeBusy), with its first minute
  check,        \* the other producers
  switch,       \* a set_mode or connect request and how far it is
  made,         \* history variable: summaries made per target and minute
  serial,       \* history variable: check and event records so far
  starts, wipes \* history variables: restarts and purges so far

aggregator == <<open, sealed, pending, made>>
scheduler == <<tick, snap, flushMinute, last, seen>>
producers == <<probe, check>>
counters == <<serial, starts, wipes, adjustable>>
vars == <<now, up, mode, paused, aggregator, taken, spooled, scheduler,
          producers, switch, counters>>

Modes == {"setup", "standalone", "connected"}
Minutes == 1..MaxMinute
Flushers == {"tick", "speed"}
Buckets == [target : Targets, minute : Minutes, from : SUBSET Modes]
Records == [what : Targets \union {"check", "event"}, minute : Minutes \union {0},
            from : SUBSET Modes, n : Nat]
Lifecycles == {"", "setup", "paused", "captive", "offline", "active"}
Producers == [on : BOOLEAN, mode : Modes, from : Minutes]

TypeOK ==
  /\ now \in Minutes /\ up \in BOOLEAN /\ mode \in Modes /\ paused \in BOOLEAN
  /\ open \subseteq Buckets /\ sealed \in [Targets -> Minutes \union {0}]
  /\ pending \subseteq Records /\ taken \in [Flushers -> SUBSET Records]
  /\ spooled \subseteq [rec : Records, local : BOOLEAN]
  /\ tick \in {"idle", "append", "live", "publish"}
  /\ snap \in [mode : Modes, paused : BOOLEAN]
  /\ flushMinute \in Minutes
  /\ last \in Lifecycles /\ seen \in [state : Lifecycles, mode : Modes]
  /\ probe \in Producers /\ check \in Producers
  /\ switch \in [pc : {"none", "waiting", "flushed"}, to : Modes]
  /\ made \in [Targets \X Minutes -> Nat]
  /\ {serial, starts, wipes} \subseteq Nat /\ adjustable \in BOOLEAN

----------------------------------------------------------------------------
(* The aggregator. *)

Never == [t \in Targets |-> 0]
Unmade == [c \in Targets \X Minutes |-> 0]

\* mutant: sealed minutes are opened again
AddSampleUnsealed(t, m, from) ==
  LET same == {b \in open : b.target = t /\ b.minute = m}
      new == [target |-> t, minute |-> m, from |-> {from} \union UNION {b.from : b \in same}]
  IN  /\ open' = (open \ same) \union {new}
      /\ UNCHANGED <<sealed, pending, made>>

\* AddSample: a sample at or before the sealed minute is dropped.
AddSample(t, m, from) ==
  LET same == {b \in open : b.target = t /\ b.minute = m}
      new == [target |-> t, minute |-> m, from |-> {from} \union UNION {b.from : b \in same}]
  IN  /\ open' = IF m <= sealed[t] THEN open ELSE (open \ same) \union {new}
      /\ UNCHANGED <<sealed, pending, made>>

\* addRecord.  (Bound: records beyond MaxNotes are not taken in.)
AddNote(what, from) ==
  IF serial < MaxNotes[adjustable]
  THEN /\ pending' = pending \union
            {[what |-> what, minute |-> 0, from |-> {from}, n |-> serial + 1]}
       /\ serial' = serial + 1
       /\ UNCHANGED <<open, sealed, made>>
  ELSE UNCHANGED <<aggregator, serial>>

\* mutant: the running minute is summarised too
ClosedEarly(at) == {b \in open : b.minute <= at}

\* flush: summaries of the closed minutes and everything pending.
Closed(at) == {b \in open : b.minute < at}
Summaries(at) ==
  {[what |-> b.target, minute |-> b.minute, from |-> b.from,
    n |-> made[<<b.target, b.minute>>] + 1] : b \in Closed(at)}

Counted(at) ==
  [c \in Targets \X Minutes |->
     made[c] + Cardinality({b \in Closed(at) : <<b.target, b.minute>> = c})]

Seal(at) ==
  /\ sealed' = [t \in Targets |->
       Max({sealed[t]} \union {b.minute : b \in {c \in Closed(at) : c.target = t}})]
  /\ made' = Counted(at)

Flush(at) == Seal(at) /\ open' = open \ Closed(at)
ShutdownFlush(at) == Seal(at) /\ open' = {}      \* discardOpen

Reset ==
  /\ open' = {} /\ sealed' = Never /\ pending' = {}
  /\ made' = IF adjustable THEN Unmade ELSE made

\* AppendLocal or AppendMinute of records
Rows(records, local) == {[rec |-> r, local |-> local] : r \in records}

----------------------------------------------------------------------------
Idle == [on |-> FALSE, mode |-> "setup", from |-> 1]
NoSnap == [mode |-> "setup", paused |-> FALSE]
NoSwitch == [pc |-> "none", to |-> "setup"]
Unread == [state |-> "", mode |-> "setup"]

Init ==
  /\ now = 1 /\ adjustable \in BOOLEAN /\ up = TRUE /\ mode = "setup" /\ paused = FALSE
  /\ open = {} /\ sealed = Never /\ pending = {} /\ made = Unmade
  /\ taken = [f \in Flushers |-> {}] /\ spooled = {}
  /\ tick = "idle" /\ snap = NoSnap
  /\ flushMinute = 1 /\ last = "" /\ seen = Unread
  /\ probe = Idle /\ check = Idle
  /\ switch = NoSwitch
  /\ serial = 0 /\ starts = 0 /\ wipes = 0

Minute ==
  /\ now < MaxMinute
  /\ now' = now + 1
  /\ UNCHANGED <<up, mode, paused, aggregator, taken, spooled, scheduler, producers, switch, counters>>

MinuteBack ==
  /\ adjustable /\ now > 1
  /\ now' = now - 1
  /\ UNCHANGED <<up, mode, paused, aggregator, taken, spooled, scheduler, producers, switch, counters>>

\* pause; it does not take modeRun.
Pause(p) ==
  /\ up /\ mode # "setup" /\ paused # p
  /\ paused' = p
  /\ UNCHANGED <<now, up, mode, aggregator, taken, spooled, scheduler, producers, switch, counters>>

----------------------------------------------------------------------------
(* tick *)

\* Somebody holds modeRun for reading.
Reading == tick = "append" \/ probe.on \/ check.on

\* RLock is granted when no writer waits for the lock or holds it.
ReadGranted == up /\ switch.pc = "none"

\* The clock the tick was given, which may be older than its lock.
TickTime(at) == at \in {now - 1, now} \/ (adjustable /\ at = now + 1)

\* flush up to the append: with the latency producer running only FlushPending.
Extract(f, at) ==
  /\ IF probe.on
     THEN /\ taken' = [taken EXCEPT ![f] = pending]
          /\ UNCHANGED <<open, sealed, made>>
     ELSE /\ Flush(at)
          /\ taken' = [taken EXCEPT ![f] = pending \union Summaries(at)]
  /\ pending' = {}

\* mutant: a failed append forgets the records
PersistForgetting(f, local, ok) ==
  /\ spooled' = IF ok THEN spooled \union Rows(taken[f], local) ELSE spooled
  /\ taken' = [taken EXCEPT ![f] = {}]
  /\ UNCHANGED aggregator

\* persistFlushed: append, or Restore.
Persist(f, local, ok) ==
  /\ spooled' = IF ok THEN spooled \union Rows(taken[f], local) ELSE spooled
  /\ pending' = IF ok THEN pending ELSE pending \union taken[f]
  /\ taken' = [taken EXCEPT ![f] = {}]
  /\ UNCHANGED <<open, sealed, made>>

\* The producers that are due start; the last of them releases the lock.
Started(p, due, m) == IF due THEN [on |-> TRUE, mode |-> m, from |-> now] ELSE p

StartProducers(probeDue, checkDue, m) ==
  /\ probeDue => ~probe.on
  /\ checkDue => ~check.on
  /\ probe' = Started(probe, probeDue, m) /\ check' = Started(check, checkDue, m)

FlushDue(at) == paused \/ at > flushMinute

\* A tick that starts with a flush: the snapshot and the extraction ...
TickFlush(at) ==
  /\ tick = "idle" /\ ReadGranted /\ mode # "setup"
  /\ TickTime(at) /\ FlushDue(at)
  /\ Extract("tick", at)
  /\ flushMinute' = IF probe.on THEN flushMinute ELSE at
  /\ tick' = "append" /\ snap' = [mode |-> mode, paused |-> paused]
  /\ UNCHANGED <<now, up, mode, paused, spooled, last, seen, producers, switch, counters>>

\* ... and the append, after which a tick that is not paused starts producers.
TickAppend(ok, probeDue, checkDue) ==
  /\ tick = "append"
  /\ Persist("tick", snap.mode = "standalone", ok)
  /\ IF snap.paused THEN ~probeDue /\ ~checkDue /\ UNCHANGED producers
     ELSE StartProducers(probeDue, checkDue, snap.mode)
  /\ tick' = "live" /\ snap' = NoSnap
  /\ UNCHANGED <<now, up, mode, paused, flushMinute, last, seen, switch, counters>>

TickNoFlush(at, probeDue, checkDue) ==
  /\ tick = "idle" /\ ReadGranted /\ mode # "setup"
  /\ TickTime(at) /\ ~FlushDue(at)
  /\ StartProducers(probeDue, checkDue, mode)
  /\ tick' = "live"
  /\ UNCHANGED <<now, up, mode, paused, aggregator, taken, spooled, snap, flushMinute, last, seen,
                 switch, counters>>

\* Not operational.
TickReset ==
  /\ tick = "idle" /\ ReadGranted /\ mode = "setup"
  /\ Reset
  /\ tick' = "live"
  /\ UNCHANGED <<now, up, mode, paused, taken, spooled, snap, flushMinute, last, seen,
                 producers, switch, counters>>

\* A purge is pending or an update is quiescing the service.
TickSkip ==
  /\ up /\ tick = "idle"
  /\ tick' = "live"
  /\ UNCHANGED <<now, up, mode, paused, aggregator, taken, spooled, snap, flushMinute, last, seen,
                 producers, switch, counters>>

\* run_speed_test: a test the user starts is a producer of its own.
RunSpeedTest ==
  /\ ReadGranted /\ mode # "setup" /\ ~check.on
  /\ check' = Started(check, TRUE, mode)
  /\ UNCHANGED <<now, up, mode, paused, aggregator, taken, spooled, scheduler, probe, switch, counters>>

\* broadcastLive: lifecycle reads the store ...
Lifecycle ==
  IF mode = "setup" THEN {"setup"}
  ELSE IF paused THEN {"paused"}
  ELSE {"captive", "active"} \union (IF mode = "connected" THEN {"offline"} ELSE {})

LiveRead(state) ==
  /\ tick = "live"
  /\ state \in Lifecycle
  /\ seen' = [state |-> state, mode |-> mode]
  /\ tick' = "publish"
  /\ UNCHANGED <<now, up, mode, paused, aggregator, taken, spooled, snap, flushMinute, last,
                 producers, switch, counters>>

\* ... and trackLifecycle records a transition.
HasEvent(old, new) ==
  /\ old \notin {"", new}
  /\ \/ new \in {"offline", "paused"}
     \/ old = "offline" /\ new = "active"
     \/ old = "paused"

LivePublish ==
  /\ tick = "publish"
  /\ IF HasEvent(last, seen.state) THEN AddNote("event", seen.mode)
     ELSE UNCHANGED <<aggregator, serial>>
  /\ last' = seen.state /\ seen' = Unread
  /\ tick' = "idle"
  /\ UNCHANGED <<now, up, mode, paused, taken, spooled, snap, flushMinute, producers, switch, starts, wipes, adjustable>>

----------------------------------------------------------------------------
(* Producers. *)

\* The latency producer publishes a sample it took since it started.
ProbeSample(t, m) ==
  /\ probe.on
  /\ m \in Minutes /\ (adjustable \/ m \in probe.from..now)
  /\ AddSample(t, m, probe.mode)
  /\ UNCHANGED <<now, up, mode, paused, taken, spooled, scheduler, producers, switch, counters>>

ProbeDone ==
  /\ probe.on
  /\ probe' = Idle
  /\ UNCHANGED <<now, up, mode, paused, aggregator, taken, spooled, scheduler, check, switch, counters>>

CheckPublish ==
  /\ check.on /\ serial < MaxNotes[adjustable]
  /\ AddNote("check", check.mode)
  /\ UNCHANGED <<now, up, mode, paused, taken, spooled, scheduler, producers, switch, starts, wipes, adjustable>>

\* A speed test flushes its result at once.
SpeedFlush ==
  /\ check.on /\ taken["speed"] = {}
  /\ Extract("speed", now)
  /\ UNCHANGED <<now, up, mode, paused, spooled, scheduler, producers, switch, counters>>

SpeedAppend(ok) ==
  /\ check.on /\ taken["speed"] # {}
  /\ Persist("speed", check.mode = "standalone", ok)
  /\ UNCHANGED <<now, up, mode, paused, scheduler, producers, switch, counters>>

CheckDone ==
  /\ check.on /\ taken["speed"] = {}
  /\ check' = Idle
  /\ UNCHANGED <<now, up, mode, paused, aggregator, taken, spooled, scheduler, probe, switch, counters>>

----------------------------------------------------------------------------
(* Handlers that hold modeRun for writing. *)

SwitchRequest(to) ==
  /\ up /\ switch.pc = "none"
  /\ switch' = [pc |-> "waiting", to |-> to]
  /\ UNCHANGED <<now, up, mode, paused, aggregator, taken, spooled, scheduler, producers, counters>>

\* mutant: the handler does not wait for the producers
SwitchGrantedEarly == switch.pc = "waiting"

SwitchGranted == switch.pc = "waiting" /\ ~Reading

\* set_mode to the mode it is in
SwitchNothing ==
  /\ SwitchGranted
  /\ switch.to = mode
  /\ switch' = NoSwitch
  /\ UNCHANGED <<now, up, mode, paused, aggregator, taken, spooled, scheduler, producers, counters>>

\* mutant: the open minute survives the switch
SwitchFlushKeepingOpen(ok) ==
  /\ SwitchGranted
  /\ switch.to # mode
  /\ Flush(now)
  /\ spooled' = IF ok
       THEN spooled \union Rows(pending \union Summaries(now), mode = "standalone" \/ mode = "setup")
       ELSE spooled
  /\ pending' = IF ok THEN {} ELSE pending \union Summaries(now)
  /\ switch' = IF ok THEN [switch EXCEPT !.pc = "flushed"] ELSE NoSwitch
  /\ UNCHANGED <<now, up, mode, paused, taken, scheduler, producers, counters>>

\* flushShutdown under the old mode; connect always flushes as local.  When it
\* fails the mode stays.
SwitchFlush(ok) ==
  /\ SwitchGranted
  /\ switch.to # mode
  /\ ShutdownFlush(now)
  /\ LET records == pending \union Summaries(now)
         local == mode = "standalone" \/ (mode = "setup" /\ switch.to = "connected")
     IN  /\ spooled' = IF ok THEN spooled \union Rows(records, local) ELSE spooled
         /\ pending' = IF ok THEN {} ELSE records
  /\ switch' = IF ok THEN [switch EXCEPT !.pc = "flushed"] ELSE NoSwitch
  /\ UNCHANGED <<now, up, mode, paused, taken, scheduler, producers, counters>>

\* SetMode or SetEnrollment, which may fail.
SwitchCommit(ok) ==
  /\ switch.pc = "flushed"
  /\ mode' = IF ok THEN switch.to ELSE mode
  /\ paused' = (paused /\ ~ok)
  /\ switch' = NoSwitch
  /\ UNCHANGED <<now, up, aggregator, taken, spooled, scheduler, producers, counters>>

\* completeSSIDPurgeLocked: a disconnect or revocation leaves standalone mode.
Purge(to) ==
  /\ up /\ switch.pc = "none" /\ ~Reading
  /\ wipes < MaxWipes[adjustable]
  /\ to \in {mode, "standalone"}
  /\ Reset
  /\ spooled' = {} /\ mode' = to
  /\ wipes' = wipes + 1
  /\ UNCHANGED <<now, up, paused, taken, scheduler, producers, switch, serial, starts, adjustable>>

\* flushForUpdate, with the service quiesced.
UpdateFlush(ok) ==
  /\ up /\ switch.pc = "none" /\ ~Reading
  /\ Flush(now)
  /\ LET records == pending \union Summaries(now)
     IN  /\ spooled' = IF ok THEN spooled \union Rows(records, mode = "standalone") ELSE spooled
         /\ pending' = IF ok THEN {} ELSE records
  /\ UNCHANGED <<now, up, mode, paused, taken, scheduler, producers, switch, counters>>

----------------------------------------------------------------------------
(* The process. *)

Stopped ==
  /\ up' = FALSE
  /\ open' = {} /\ sealed' = Never /\ pending' = {} /\ taken' = [f \in Flushers |-> {}]
  /\ tick' = "idle" /\ snap' = NoSnap
  /\ last' = "" /\ seen' = Unread /\ probe' = Idle /\ check' = Idle /\ switch' = NoSwitch
  /\ UNCHANGED <<now, mode, paused, flushMinute, counters>>

\* Run's exit: the workers are done and flushShutdown runs; a failure loses what
\* was in memory, like a crash.
StopService ==
  /\ up /\ tick = "idle" /\ ~Reading /\ switch.pc = "none" /\ starts < MaxStarts[adjustable]
  /\ spooled' = spooled \union Rows(pending \union Summaries(now), mode = "standalone")
  /\ made' = Counted(now)
  /\ Stopped

Crash == up /\ starts < MaxStarts[adjustable] /\ Stopped /\ UNCHANGED <<spooled, made>>

Start ==
  /\ ~up
  /\ up' = TRUE /\ flushMinute' = now
  /\ made' = IF adjustable THEN Unmade ELSE made
  /\ starts' = starts + 1
  /\ UNCHANGED <<now, mode, paused, open, sealed, pending, taken, spooled, tick, snap, last, seen,
                 producers, switch, serial, wipes, adjustable>>

Next ==
  \/ Minute \/ MinuteBack \/ \E p \in BOOLEAN : Pause(p)
  \/ TickReset \/ TickSkip \/ RunSpeedTest
  \/ \E at \in Minutes : TickFlush(at) \/ \E p, c \in BOOLEAN : TickNoFlush(at, p, c)
  \/ \E ok \in BOOLEAN :
       \/ SpeedAppend(ok) \/ SwitchFlush(ok) \/ SwitchCommit(ok) \/ UpdateFlush(ok)
       \/ \E p, c \in BOOLEAN : TickAppend(ok, p, c)
  \/ \E s \in Lifecycles : LiveRead(s)
  \/ LivePublish
  \/ \E t \in Targets, m \in Minutes : ProbeSample(t, m)
  \/ ProbeDone \/ CheckPublish \/ SpeedFlush \/ CheckDone
  \/ \E m \in {"standalone", "connected"} : SwitchRequest(m)
  \/ SwitchNothing
  \/ \E m \in Modes : Purge(m)
  \/ StopService \/ Crash \/ Start

Spec == Init /\ [][Next]_vars

----------------------------------------------------------------------------
(* Correctness. *)

\* Records in memory and in the spool.
Held == pending \union taken["tick"] \union taken["speed"] \union {s.rec : s \in spooled}

\* set_mode: "local samples must never enter a controller row": no minute, open
\* or summarised, mixes samples of two modes.
MinutesUnmixed ==
  /\ \A b \in open : Cardinality(b.from) = 1
  /\ \A r \in Held : Cardinality(r.from) = 1

\* Every measurement reaches the spool under the mode it was measured in: local
\* ones with the local_only bit, connected ones without, over failed appends,
\* restored records, switches that fail half way and restarts.
MeasuredModeKept ==
  \A s \in spooled : s.rec.what # "event" =>
    s.rec.from = {IF s.local THEN "standalone" ELSE "connected"}

\* At most one summary is made for a target and minute ("duplicate data the
\* server cannot recombine"): over restarts and purges while the clock goes
\* forward, and within one process and purge also when it is set back.
OneSummaryPerMinute == \A r \in Held : r.what \in Targets => r.n = 1

\* What was taken in stays, in memory or in the spool.
Kept ==
  /\ Held \subseteq Held'
  /\ \A b \in Closed(now) : \/ \E c \in open' : c.target = b.target /\ c.minute = b.minute
                            \/ \E r \in Held' : r.what = b.target /\ r.minute = b.minute

\* A running service drops neither a record nor a closed minute it has taken in,
\* whatever appends fail and however flushes overlap; only a purge does.
NothingDropped == [][up /\ up' /\ wipes' = wipes => Kept]_vars
=============================================================================
