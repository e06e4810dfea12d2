-------------------------- MODULE CollectionProofs --------------------------
(***************************************************************************)
(* No measurement crosses a mode switch, no minute of a target is          *)
(* summarised twice and a running service drops nothing, for any targets,  *)
(* any clock and any bounds.                                               *)
(*                                                                         *)
(* The argument is modeRun's: what is open, pending or being appended was  *)
(* measured in the mode the service is in, because whoever adds to it      *)
(* reads under the lock and whoever changes the mode has flushed first.    *)
(* Only lifecycle events are recorded without the lock.                    *)
(***************************************************************************)
EXTENDS Collection, FiniteSetTheorems, WellFoundedInduction, TLAPS

----------------------------------------------------------------------------
(* Facts about Max and Cardinality. *)

\* A bounded non-empty set of numbers has a greatest element, which Max names.
LEMMA MaxIsGreatest ==
  ASSUME NEW n \in Nat, NEW S, S \in SUBSET (0..n), S # {}
  PROVE  Max(S) \in S /\ \A y \in S : Max(S) >= y
<1> DEFINE T == {n - x : x \in S}
           R == OpToRel(<, Nat)
<1>1. T \subseteq Nat /\ T # {}
  <2>1. PICK x \in S : TRUE
    OBVIOUS
  <2>2. n - x \in T
    BY <2>1
  <2> QED
    BY <2>2
<1>2. IsWellFoundedOn(R, Nat)
  BY NatLessThanWellFounded
<1>3. PICK m \in T : \A k \in T : ~(<<k, m>> \in R)
  <2> HIDE DEF T, R
  <2> QED
    BY <1>1, <1>2, WFMin
<1>4. ASSUME NEW k \in T PROVE k >= m
  <2>1. k \in Nat /\ m \in Nat
    BY <1>1
  <2>2. R = {p \in Nat \X Nat : p[1] < p[2]}
    BY DEF OpToRel
  <2> HIDE DEF R
  <2>3. k < m => <<k, m>> \in R
    BY <2>1, <2>2
  <2> QED
    BY <1>3, <2>1, <2>3
<1>5. PICK x \in S : m = n - x
  OBVIOUS
<1>6. \A y \in S : x >= y
  BY <1>4, <1>5
<1> QED
  BY <1>6 DEF Max

----------------------------------------------------------------------------
(* What the aggregator does, and type correctness: the number of summaries  *)
(* is a number only because finitely many minutes are open.                 *)

TypeInv == TypeOK /\ IsFiniteSet(open)

\* The summaries of a flush are counted for the minutes it closes and no others.
LEMMA CountedEffect ==
  ASSUME TypeInv, NEW at
  PROVE  /\ Counted(at) \in [Targets \X Minutes -> Nat]
         /\ \A c \in Targets \X Minutes :
              (\A b \in Closed(at) : <<b.target, b.minute>> # c) => Counted(at)[c] = made[c]
<1> DEFINE Of(c) == {b \in Closed(at) : <<b.target, b.minute>> = c}
<1>1. ASSUME NEW c \in Targets \X Minutes
      PROVE  Cardinality(Of(c)) \in Nat /\ (Of(c) = {} => Cardinality(Of(c)) = 0)
  <2>1. Of(c) \subseteq open
    BY DEF Closed
  <2>2. IsFiniteSet(Of(c))
    BY <2>1, FS_Subset DEF TypeInv
  <2> QED
    BY <2>2, FS_CardinalityType, FS_EmptySet
<1>2. Counted(at) = [c \in Targets \X Minutes |-> made[c] + Cardinality(Of(c))]
  BY DEF Counted
<1>3. made \in [Targets \X Minutes -> Nat]
  BY DEF TypeInv, TypeOK
<1>4. \A c \in Targets \X Minutes :
        (\A b \in Closed(at) : <<b.target, b.minute>> # c) => Of(c) = {}
  OBVIOUS
<1> HIDE DEF Of
<1> QED
  BY <1>1, <1>2, <1>3, <1>4

\* A flush seals every minute it closes and unseals none.
LEMMA SealEffect ==
  ASSUME TypeInv, NEW at, Seal(at)
  PROVE  /\ sealed' \in [Targets -> Minutes \union {0}]
         /\ \A t \in Targets : sealed'[t] >= sealed[t]
         /\ \A b \in Closed(at) : sealed'[b.target] >= b.minute
         /\ made' = Counted(at)
<1> DEFINE Of(t) == {sealed[t]} \union {b.minute : b \in {c \in Closed(at) : c.target = t}}
<1>1. ASSUME NEW t \in Targets
      PROVE  Max(Of(t)) \in Of(t) /\ \A y \in Of(t) : Max(Of(t)) >= y
  <2>1. Of(t) \in SUBSET (0..MaxMinute) /\ Of(t) # {} /\ MaxMinute \in Nat
    <3>1. open \subseteq Buckets /\ sealed[t] \in Minutes \union {0}
      BY DEF TypeInv, TypeOK
    <3> QED
      BY <3>1, CollectionAssumption DEF Closed, Buckets, Minutes
  <2> HIDE DEF Of
  <2> QED
    BY <2>1, MaxIsGreatest
<1>2. /\ sealed' = [t \in Targets |-> Max(Of(t))]
      /\ made' = Counted(at)
  BY DEF Seal
<1>3. \A t \in Targets : sealed[t] \in Of(t) /\ Of(t) \subseteq Minutes \union {0}
  BY DEF TypeInv, TypeOK, Closed, Buckets
<1>4. \A b \in Closed(at) : b.target \in Targets /\ b.minute \in Of(b.target)
  BY DEF TypeInv, TypeOK, Closed, Buckets
<1> HIDE DEF Of
<1> QED
  BY <1>1, <1>2, <1>3, <1>4

\* Summaries are records.
LEMMA SummariesType ==
  ASSUME TypeInv, NEW at
  PROVE  Summaries(at) \subseteq Records
<1> SUFFICES ASSUME NEW b \in Closed(at)
             PROVE  [what |-> b.target, minute |-> b.minute, from |-> b.from,
                     n |-> made[<<b.target, b.minute>>] + 1] \in Records
  BY DEF Summaries
<1>1. b \in Buckets /\ made \in [Targets \X Minutes -> Nat]
  BY DEF Closed, TypeInv, TypeOK
<1>2. b.target \in Targets /\ b.minute \in Minutes /\ b.from \in SUBSET Modes
  BY <1>1 DEF Buckets
<1>3. made[<<b.target, b.minute>>] + 1 \in Nat
  BY <1>1, <1>2
<1> QED
  BY <1>2, <1>3 DEF Records

\* A sample's minute is a bucket like any other, and one more of them.
LEMMA AddSampleType ==
  ASSUME TypeInv, NEW t \in Targets, NEW m \in Minutes, NEW from \in Modes, AddSample(t, m, from)
  PROVE  open' \subseteq Buckets /\ IsFiniteSet(open')
<1> DEFINE same == {b \in open : b.target = t /\ b.minute = m}
           new == [target |-> t, minute |-> m, from |-> {from} \union UNION {b.from : b \in same}]
<1>1. open \subseteq Buckets /\ IsFiniteSet(open)
  BY DEF TypeInv, TypeOK
<1>2. new \in Buckets
  <2>1. \A b \in same : b.from \in SUBSET Modes
    BY <1>1 DEF Buckets
  <2>2. {from} \union UNION {b.from : b \in same} \in SUBSET Modes
    BY <2>1
  <2> HIDE DEF same
  <2> QED
    BY <2>2 DEF Buckets
<1>3. open' = IF m <= sealed[t] THEN open ELSE (open \ same) \union {new}
  BY DEF AddSample
<1>4. IsFiniteSet((open \ same) \union {new})
  <2> HIDE DEF same, new
  <2> QED
    BY <1>1, FS_Difference, FS_AddElement
<1> HIDE DEF same, new
<1> QED
  BY <1>1, <1>2, <1>3, <1>4

\* So is a check or an event a record like any other.
LEMMA AddNoteType ==
  ASSUME TypeInv, NEW what \in {"check", "event"}, NEW from \in Modes, AddNote(what, from)
  PROVE  /\ pending' \subseteq Records /\ serial' \in Nat
         /\ UNCHANGED <<open, sealed, made>>
<1>1. [what |-> what, minute |-> 0, from |-> {from}, n |-> serial + 1] \in Records
  BY DEF Records, TypeInv, TypeOK
<1>2. pending \subseteq Records /\ serial \in Nat
  BY DEF TypeInv, TypeOK
<1>3. CASE serial < MaxNotes[adjustable]
  <2>1. /\ pending' = pending \union {[what |-> what, minute |-> 0, from |-> {from}, n |-> serial + 1]}
        /\ serial' = serial + 1 /\ UNCHANGED <<open, sealed, made>>
    BY <1>3 DEF AddNote
  <2> QED
    BY <1>1, <1>2, <2>1
<1>4. CASE ~(serial < MaxNotes[adjustable])
  BY <1>2, <1>4 DEF AddNote, aggregator
<1> QED
  BY <1>3, <1>4

\* A flush leaves well-typed buckets and counters, whichever of them it keeps.
LEMMA FlushType ==
  ASSUME TypeInv, NEW at, Seal(at), open' \subseteq open
  PROVE  /\ open' \subseteq Buckets /\ IsFiniteSet(open')
         /\ sealed' \in [Targets -> Minutes \union {0}]
         /\ made' \in [Targets \X Minutes -> Nat]
<1>1. IsFiniteSet(open') /\ open' \subseteq Buckets
  BY FS_Subset DEF TypeInv, TypeOK
<1>2. sealed' \in [Targets -> Minutes \union {0}] /\ made' = Counted(at)
  BY SealEffect
<1>3. Counted(at) \in [Targets \X Minutes -> Nat]
  BY CountedEffect
<1> QED
  BY <1>1, <1>2, <1>3

\* What a flush or a purge keeps back until its append, and what it leaves.
LEMMA ExtractType ==
  ASSUME TypeInv, NEW f \in Flushers, NEW at, Extract(f, at)
  PROVE  /\ open' \subseteq Buckets /\ IsFiniteSet(open')
         /\ sealed' \in [Targets -> Minutes \union {0}]
         /\ made' \in [Targets \X Minutes -> Nat]
         /\ pending' = {} /\ taken' \in [Flushers -> SUBSET Records]
<1>1. pending \in SUBSET Records /\ pending \union Summaries(at) \in SUBSET Records
  BY SummariesType DEF TypeInv, TypeOK
<1>2. CASE probe.on
  BY <1>1, <1>2 DEF Extract, TypeInv, TypeOK
<1>3. CASE ~probe.on
  <2>1. /\ Seal(at) /\ open' \subseteq open /\ pending' = {}
        /\ taken' = [taken EXCEPT ![f] = pending \union Summaries(at)]
    BY <1>3 DEF Extract, Flush
  <2>2. taken' \in [Flushers -> SUBSET Records]
    BY <1>1, <2>1 DEF TypeInv, TypeOK
  <2> QED
    BY <2>1, <2>2, FlushType
<1> QED
  BY <1>2, <1>3

LEMMA RowsType ==
  ASSUME NEW S \in SUBSET Records, NEW local \in BOOLEAN
  PROVE  Rows(S, local) \subseteq [rec : Records, local : BOOLEAN]
  BY DEF Rows

LEMMA PersistType ==
  ASSUME TypeInv, NEW f \in Flushers, NEW local \in BOOLEAN, NEW ok, Persist(f, local, ok)
  PROVE  /\ spooled' \subseteq [rec : Records, local : BOOLEAN]
         /\ pending' \subseteq Records /\ taken' \in [Flushers -> SUBSET Records]
         /\ UNCHANGED <<open, sealed, made>>
<1>1. taken[f] \in SUBSET Records
  BY DEF TypeInv, TypeOK
<1>2. Rows(taken[f], local) \subseteq [rec : Records, local : BOOLEAN]
  BY <1>1, RowsType
<1> QED
  BY <1>1, <1>2 DEF Persist, TypeInv, TypeOK

\* The process ends with nothing in memory.
LEMMA StoppedType ==
  ASSUME TypeInv, Stopped, spooled' \subseteq [rec : Records, local : BOOLEAN],
         made' \in [Targets \X Minutes -> Nat]
  PROVE  TypeInv'
<1>1. /\ Idle \in Producers /\ NoSnap \in [mode : Modes, paused : BOOLEAN]
      /\ NoSwitch \in [pc : {"none", "waiting", "flushed"}, to : Modes]
      /\ Unread \in [state : Lifecycles, mode : Modes]
      /\ Never \in [Targets -> Minutes \union {0}]
  BY CollectionAssumption
     DEF Idle, NoSnap, NoSwitch, Unread, Producers, Modes, Lifecycles, Minutes, Never
<1>2. open' = {} /\ IsFiniteSet(open')
  BY FS_EmptySet DEF Stopped
<1>3. taken' \in [Flushers -> SUBSET Records] /\ pending' \subseteq Records
  BY DEF Stopped
<1>4. /\ now' = now /\ up' = FALSE /\ mode' = mode /\ paused' = paused /\ sealed' = Never
      /\ tick' = "idle" /\ snap' = NoSnap /\ flushMinute' = flushMinute
      /\ last' = "" /\ seen' = Unread /\ probe' = Idle /\ check' = Idle /\ switch' = NoSwitch
      /\ serial' = serial /\ starts' = starts /\ wipes' = wipes /\ adjustable' = adjustable
  BY DEF Stopped, counters
<1>5. last' \in Lifecycles
  BY <1>4 DEF Lifecycles
<1> HIDE DEF Idle, NoSnap, NoSwitch, Unread, Never
<1> QED
  BY <1>1, <1>2, <1>3, <1>4, <1>5 DEF TypeInv, TypeOK

\* Every step keeps the state well-typed.
LEMMA TypeStep == TypeInv /\ [Next]_vars => TypeInv'
<1> SUFFICES ASSUME TypeInv, [Next]_vars PROVE TypeInv'
  OBVIOUS
<1>0. /\ Idle \in Producers /\ NoSnap \in [mode : Modes, paused : BOOLEAN]
      /\ NoSwitch \in [pc : {"none", "waiting", "flushed"}, to : Modes]
      /\ Unread \in [state : Lifecycles, mode : Modes]
      /\ Never \in [Targets -> Minutes \union {0}] /\ Unmade \in [Targets \X Minutes -> Nat]
      /\ IsFiniteSet({})
  BY CollectionAssumption, FS_EmptySet
     DEF Idle, NoSnap, NoSwitch, Unread, Producers, Modes, Lifecycles, Minutes, Never, Unmade
<1> USE DEF TypeInv, TypeOK
<1> USE DEF aggregator, scheduler, producers, counters
<1>1. CASE Minute \/ MinuteBack \/ \E p \in BOOLEAN : Pause(p)
  BY <1>1, CollectionAssumption DEF Minute, MinuteBack, Pause, Minutes
<1>2. CASE TickReset
  BY <1>0, <1>2 DEF TickReset, Reset
<1>3. CASE TickSkip
  BY <1>3 DEF TickSkip
<1>4. CASE RunSpeedTest
  BY <1>4 DEF RunSpeedTest, Started, Producers
<1>5. ASSUME NEW at \in Minutes, TickFlush(at) PROVE TypeInv'
  <2>1. Extract("tick", at) /\ "tick" \in Flushers
    BY <1>5 DEF TickFlush, Flushers
  <2>2. /\ open' \subseteq Buckets /\ IsFiniteSet(open')
        /\ sealed' \in [Targets -> Minutes \union {0}]
        /\ made' \in [Targets \X Minutes -> Nat]
        /\ pending' = {} /\ taken' \in [Flushers -> SUBSET Records]
    BY <2>1, ExtractType
  <2> QED
    BY <1>5, <2>2 DEF TickFlush
<1>6. ASSUME NEW at \in Minutes, NEW p \in BOOLEAN, NEW c \in BOOLEAN, TickNoFlush(at, p, c)
      PROVE  TypeInv'
  <2>1. probe' \in Producers /\ check' \in Producers
    BY <1>6 DEF TickNoFlush, StartProducers, Started, Producers
  <2> QED
    BY <1>6, <2>1 DEF TickNoFlush
<1>7. ASSUME NEW ok \in BOOLEAN, SpeedAppend(ok) PROVE TypeInv'
  <2>1. Persist("speed", check.mode = "standalone", ok) /\ "speed" \in Flushers
        /\ (check.mode = "standalone") \in BOOLEAN
    BY <1>7 DEF SpeedAppend, Flushers
  <2>2. /\ spooled' \subseteq [rec : Records, local : BOOLEAN]
        /\ pending' \subseteq Records /\ taken' \in [Flushers -> SUBSET Records]
        /\ UNCHANGED <<open, sealed, made>>
    BY <2>1, PersistType
  <2> QED
    BY <1>7, <2>2 DEF SpeedAppend
<1>8. ASSUME NEW ok \in BOOLEAN, SwitchFlush(ok) PROVE TypeInv'
  <2> DEFINE local == mode = "standalone" \/ (mode = "setup" /\ switch.to = "connected")
  <2>1. Summaries(now) \subseteq Records
    BY SummariesType
  <2>2. Rows(pending \union Summaries(now), local) \subseteq [rec : Records, local : BOOLEAN]
    BY <2>1, RowsType
  <2>3. Seal(now) /\ open' \subseteq open
    BY <1>8 DEF SwitchFlush, ShutdownFlush
  <2>4. /\ open' \subseteq Buckets /\ IsFiniteSet(open')
        /\ sealed' \in [Targets -> Minutes \union {0}]
        /\ made' \in [Targets \X Minutes -> Nat]
    BY <2>3, FlushType
  <2>5. spooled' \subseteq [rec : Records, local : BOOLEAN] /\ pending' \subseteq Records
    BY <1>8, <2>1, <2>2 DEF SwitchFlush
  <2>6. switch' \in [pc : {"none", "waiting", "flushed"}, to : Modes]
    BY <1>0, <1>8 DEF SwitchFlush
  <2> QED
    BY <1>8, <2>4, <2>5, <2>6 DEF SwitchFlush
<1>9. ASSUME NEW ok \in BOOLEAN, SwitchCommit(ok) PROVE TypeInv'
  BY <1>0, <1>9 DEF SwitchCommit
<1>10. ASSUME NEW ok \in BOOLEAN, UpdateFlush(ok) PROVE TypeInv'
  <2>1. Summaries(now) \subseteq Records
    BY SummariesType
  <2>2. Rows(pending \union Summaries(now), mode = "standalone") \subseteq [rec : Records, local : BOOLEAN]
    BY <2>1, RowsType
  <2>3. Seal(now) /\ open' \subseteq open
    BY <1>10 DEF UpdateFlush, Flush
  <2>4. /\ open' \subseteq Buckets /\ IsFiniteSet(open')
        /\ sealed' \in [Targets -> Minutes \union {0}]
        /\ made' \in [Targets \X Minutes -> Nat]
    BY <2>3, FlushType
  <2>5. spooled' \subseteq [rec : Records, local : BOOLEAN] /\ pending' \subseteq Records
    BY <1>10, <2>1, <2>2 DEF UpdateFlush
  <2> QED
    BY <1>10, <2>4, <2>5 DEF UpdateFlush
<1>11. ASSUME NEW ok \in BOOLEAN, NEW p \in BOOLEAN, NEW c \in BOOLEAN, TickAppend(ok, p, c)
       PROVE  TypeInv'
  <2>1. Persist("tick", snap.mode = "standalone", ok) /\ "tick" \in Flushers
        /\ (snap.mode = "standalone") \in BOOLEAN
    BY <1>11 DEF TickAppend, Flushers
  <2>2. /\ spooled' \subseteq [rec : Records, local : BOOLEAN]
        /\ pending' \subseteq Records /\ taken' \in [Flushers -> SUBSET Records]
        /\ UNCHANGED <<open, sealed, made>>
    BY <2>1, PersistType
  <2>3. probe' \in Producers /\ check' \in Producers
    <3>1. Started(probe, p, snap.mode) \in Producers /\ Started(check, c, snap.mode) \in Producers
      BY DEF Started, Producers
    <3> QED
      BY <1>11, <3>1 DEF TickAppend, StartProducers
  <2> QED
    BY <1>0, <1>11, <2>2, <2>3 DEF TickAppend
<1>12. ASSUME NEW s \in Lifecycles, LiveRead(s) PROVE TypeInv'
  BY <1>12 DEF LiveRead
<1>13. CASE LivePublish
  <2>1. /\ pending' \subseteq Records /\ serial' \in Nat /\ UNCHANGED <<open, sealed, made>>
    <3>1. CASE HasEvent(last, seen.state)
      <4>1. AddNote("event", seen.mode) /\ seen.mode \in Modes
        BY <1>13, <3>1 DEF LivePublish
      <4> QED
        BY <4>1, AddNoteType
    <3>2. CASE ~HasEvent(last, seen.state)
      BY <1>13, <3>2 DEF LivePublish
    <3> QED
      BY <3>1, <3>2
  <2> QED
    BY <1>0, <1>13, <2>1 DEF LivePublish
<1>14. ASSUME NEW t \in Targets, NEW m \in Minutes, ProbeSample(t, m) PROVE TypeInv'
  <2>1. AddSample(t, m, probe.mode) /\ probe.mode \in Modes
    BY <1>14 DEF ProbeSample, Producers
  <2>2. open' \subseteq Buckets /\ IsFiniteSet(open')
    BY <2>1, AddSampleType
  <2> QED
    BY <1>14, <2>2 DEF ProbeSample, AddSample
<1>15. CASE ProbeDone \/ CheckDone
  BY <1>0, <1>15 DEF ProbeDone, CheckDone
<1>16. CASE CheckPublish
  <2>1. AddNote("check", check.mode) /\ check.mode \in Modes
    BY <1>16 DEF CheckPublish, Producers
  <2>2. pending' \subseteq Records /\ serial' \in Nat /\ UNCHANGED <<open, sealed, made>>
    BY <2>1, AddNoteType
  <2> QED
    BY <1>16, <2>2 DEF CheckPublish
<1>17. CASE SpeedFlush
  <2>1. Extract("speed", now) /\ "speed" \in Flushers
    BY <1>17 DEF SpeedFlush, Flushers
  <2>2. /\ open' \subseteq Buckets /\ IsFiniteSet(open')
        /\ sealed' \in [Targets -> Minutes \union {0}]
        /\ made' \in [Targets \X Minutes -> Nat]
        /\ pending' = {} /\ taken' \in [Flushers -> SUBSET Records]
    BY <2>1, ExtractType
  <2> QED
    BY <1>17, <2>2 DEF SpeedFlush
<1>18. ASSUME NEW m \in {"standalone", "connected"}, SwitchRequest(m) PROVE TypeInv'
  BY <1>18 DEF SwitchRequest, Modes
<1>19. CASE SwitchNothing
  BY <1>0, <1>19 DEF SwitchNothing
<1>20. ASSUME NEW m \in Modes, Purge(m) PROVE TypeInv'
  BY <1>0, <1>20 DEF Purge, Reset
<1>21. CASE StopService
  <2>1. Summaries(now) \subseteq Records
    BY SummariesType
  <2>2. Rows(pending \union Summaries(now), mode = "standalone") \subseteq [rec : Records, local : BOOLEAN]
    BY <2>1, RowsType
  <2>3. made' \in [Targets \X Minutes -> Nat]
    BY <1>21, CountedEffect DEF StopService
  <2>4. spooled' \subseteq [rec : Records, local : BOOLEAN]
    BY <1>21, <2>2 DEF StopService
  <2> QED
    BY <1>21, <2>3, <2>4, StoppedType DEF StopService
<1>22. CASE Crash
  BY <1>22, StoppedType DEF Crash
<1>23. CASE Start
  BY <1>0, <1>23 DEF Start
<1>24. CASE UNCHANGED vars
  BY <1>24 DEF vars
<1> QED
  BY <1>1, <1>2, <1>3, <1>4, <1>5, <1>6, <1>7, <1>8, <1>9, <1>10, <1>11, <1>12, <1>13,
     <1>14, <1>15, <1>16, <1>17, <1>18, <1>19, <1>20, <1>21, <1>22, <1>23, <1>24
     DEF Next

----------------------------------------------------------------------------
(* modeRun. *)

\* Whoever reads under the lock measures in the mode the service is in, and what a
\* flush has extracted belongs to such a reader; a switch that has flushed excludes
\* every reader.
LockInv ==
  /\ probe.on => probe.mode = mode
  /\ check.on => check.mode = mode
  /\ tick = "append" => snap.mode = mode
  /\ tick # "append" => taken["tick"] = {}
  /\ ~check.on => taken["speed"] = {}
  /\ switch.pc # "none" => switch.to # "setup"
  /\ switch.pc = "flushed" => ~Reading
  /\ ~up => tick = "idle" /\ ~probe.on

\* Nothing is measured or recorded during the set-up, which no one returns to.
SetupInv ==
  mode = "setup" =>
    /\ open = {} /\ pending = {} /\ ~Reading
    /\ {last, seen.state} \subseteq {"", "setup"}

ModeRunInv == TypeInv /\ LockInv /\ SetupInv

\* Every step keeps the lock's discipline.
LEMMA LockStep == ModeRunInv /\ [Next]_vars => LockInv' /\ SetupInv'
<1> SUFFICES ASSUME ModeRunInv, [Next]_vars PROVE LockInv' /\ SetupInv'
  OBVIOUS
<1>0. taken \in [Flushers -> SUBSET Records] /\ Flushers = {"tick", "speed"}
  BY DEF ModeRunInv, TypeInv, TypeOK, Flushers
<1> USE <1>0 DEF ModeRunInv, LockInv, SetupInv, Reading, aggregator, scheduler, producers
<1>1. CASE Minute \/ MinuteBack \/ \E p \in BOOLEAN : Pause(p)
  BY <1>1 DEF Minute, MinuteBack, Pause
<1>2. CASE TickReset
  BY <1>2 DEF TickReset, Reset, ReadGranted
<1>3. CASE TickSkip
  BY <1>3 DEF TickSkip
<1>4. CASE RunSpeedTest
  BY <1>4 DEF RunSpeedTest, ReadGranted, Started
<1>5. ASSUME NEW at \in Minutes, TickFlush(at) PROVE LockInv' /\ SetupInv'
  BY <1>5 DEF TickFlush, ReadGranted, Extract
<1>6. ASSUME NEW at \in Minutes, NEW p \in BOOLEAN, NEW c \in BOOLEAN, TickNoFlush(at, p, c)
      PROVE  LockInv' /\ SetupInv'
  BY <1>6 DEF TickNoFlush, ReadGranted, StartProducers, Started
<1>7. ASSUME NEW ok \in BOOLEAN, SpeedAppend(ok) PROVE LockInv' /\ SetupInv'
  BY <1>7 DEF SpeedAppend, Persist
<1>8. ASSUME NEW ok \in BOOLEAN, SwitchFlush(ok) PROVE LockInv' /\ SetupInv'
  <2>1. mode = "setup" => pending \union Summaries(now) = {}
    BY DEF Summaries, Closed
  <2>2. switch \in [pc : {"none", "waiting", "flushed"}, to : Modes]
    BY DEF TypeInv, TypeOK
  <2>3. switch'.pc \in {"none", "flushed"} /\ (switch'.pc # "none" => switch'.to = switch.to)
    BY <1>8, <2>2 DEF SwitchFlush, NoSwitch
  <2>4. ~Reading /\ switch.pc = "waiting"
    BY <1>8 DEF SwitchFlush, SwitchGranted
  <2>5. open' = {} /\ (mode = "setup" => pending' = {})
    BY <1>8, <2>1 DEF SwitchFlush, ShutdownFlush
  <2> QED
    BY <1>8, <2>3, <2>4, <2>5 DEF SwitchFlush
<1>9. ASSUME NEW ok \in BOOLEAN, SwitchCommit(ok) PROVE LockInv' /\ SetupInv'
  BY <1>9 DEF SwitchCommit, NoSwitch
<1>10. ASSUME NEW ok \in BOOLEAN, UpdateFlush(ok) PROVE LockInv' /\ SetupInv'
  BY <1>10 DEF UpdateFlush, Flush, Summaries, Closed
<1>11. ASSUME NEW ok \in BOOLEAN, NEW p \in BOOLEAN, NEW c \in BOOLEAN, TickAppend(ok, p, c)
       PROVE  LockInv' /\ SetupInv'
  <2>1. /\ mode # "setup" /\ snap.mode = mode /\ switch.pc # "flushed" /\ up
        /\ tick' = "live" /\ UNCHANGED <<up, mode, switch>>
    BY <1>11 DEF TickAppend
  <2>2. taken'["tick"] = {} /\ taken'["speed"] = taken["speed"]
    BY <1>11 DEF TickAppend, Persist
  <2>3. /\ probe' = probe \/ probe'.mode = mode
        /\ check' = check \/ (check'.on /\ check'.mode = mode)
    BY <1>11, <2>1 DEF TickAppend, StartProducers, Started
  <2> QED
    BY <2>1, <2>2, <2>3
<1>12. ASSUME NEW s \in Lifecycles, LiveRead(s) PROVE LockInv' /\ SetupInv'
  BY <1>12 DEF LiveRead, Lifecycle
<1>13. CASE LivePublish
  BY <1>13 DEF LivePublish, AddNote, HasEvent, Unread
<1>14. ASSUME NEW t \in Targets, NEW m \in Minutes, ProbeSample(t, m) PROVE LockInv' /\ SetupInv'
  BY <1>14 DEF ProbeSample, AddSample
<1>15. CASE ProbeDone \/ CheckDone
  <2>1. Idle.on = FALSE
    BY DEF Idle
  <2>2. CASE ProbeDone
    BY <2>1, <2>2 DEF ProbeDone
  <2>3. CASE CheckDone
    BY <2>1, <2>3 DEF CheckDone
  <2> QED
    BY <1>15, <2>2, <2>3
<1>16. CASE CheckPublish
  BY <1>16 DEF CheckPublish, AddNote
<1>17. CASE SpeedFlush
  BY <1>17 DEF SpeedFlush, Extract
<1>18. ASSUME NEW m \in {"standalone", "connected"}, SwitchRequest(m) PROVE LockInv' /\ SetupInv'
  BY <1>18 DEF SwitchRequest
<1>19. CASE SwitchNothing
  BY <1>19 DEF SwitchNothing, NoSwitch
<1>20. ASSUME NEW m \in Modes, Purge(m) PROVE LockInv' /\ SetupInv'
  BY <1>20 DEF Purge, Reset
<1>21. CASE StopService \/ Crash
  <2>1. /\ tick' = "idle" /\ probe'.on = FALSE /\ check'.on = FALSE /\ switch'.pc = "none"
        /\ taken'["tick"] = {} /\ taken'["speed"] = {}
        /\ open' = {} /\ pending' = {} /\ last' = "" /\ seen'.state = ""
    <3>1. Stopped
      BY <1>21 DEF StopService, Crash
    <3> QED
      BY <3>1 DEF Stopped, Idle, NoSwitch, Unread
  <2> QED
    BY <2>1
<1>22. CASE Start
  BY <1>22 DEF Start
<1>23. CASE UNCHANGED vars
  BY <1>23 DEF vars
<1> QED
  BY <1>1, <1>2, <1>3, <1>4, <1>5, <1>6, <1>7, <1>8, <1>9, <1>10, <1>11, <1>12,
     <1>13, <1>14, <1>15, <1>16, <1>17, <1>18, <1>19, <1>20, <1>21, <1>22, <1>23
     DEF Next

----------------------------------------------------------------------------
(* Measurements stay in their mode. *)

InMemory == pending \union taken["tick"] \union taken["speed"]

\* A record of this mode, or an event, and a row that says in which mode it was taken.
Fits(r) == Cardinality(r.from) = 1 /\ (r.what # "event" => r.from = {mode})
RowFits(s) ==
  /\ Cardinality(s.rec.from) = 1
  /\ s.rec.what # "event" => s.rec.from = {IF s.local THEN "standalone" ELSE "connected"}

\* Everything in memory was measured in the mode the service is in, except events; a
\* switch that has flushed has left only those.
ModeInv ==
  /\ \A b \in open : b.from = {mode}
  /\ \A r \in InMemory : Fits(r)
  /\ switch.pc = "flushed" => open = {} /\ \A r \in pending : r.what = "event"
  /\ \A s \in spooled : RowFits(s)

\* The summary of a minute that was measured in this mode is a record of it.
LEMMA SummariesFit ==
  ASSUME ModeInv, NEW at
  PROVE  \A r \in Summaries(at) : Fits(r)
<1> SUFFICES ASSUME NEW r \in Summaries(at) PROVE Fits(r)
  OBVIOUS
<1>1. PICK b \in Closed(at) : r = [what |-> b.target, minute |-> b.minute, from |-> b.from,
                                   n |-> made[<<b.target, b.minute>>] + 1]
  BY DEF Summaries
<1>2. r.from = b.from
  BY <1>1
<1>3. b.from = {mode}
  BY DEF Closed, ModeInv
<1> QED
  BY <1>2, <1>3, FS_Singleton DEF Fits

\* Records of this mode become rows that say so.
LEMMA RowsFit ==
  ASSUME ModeRunInv, mode # "setup", NEW S, \A r \in S : Fits(r)
  PROVE  \A x \in Rows(S, mode = "standalone") : RowFits(x)
<1> SUFFICES ASSUME NEW r \in S
             PROVE  RowFits([rec |-> r, local |-> mode = "standalone"])
  BY DEF Rows
<1>1. mode \in {"standalone", "connected"}
  BY DEF ModeRunInv, TypeInv, TypeOK, Modes
<1> QED
  BY <1>1 DEF Fits, RowFits

\* A flush of everything writes such rows, and none at all during the set-up.
LEMMA RecordsFit ==
  ASSUME ModeRunInv, ModeInv, NEW at
  PROVE  \A x \in Rows(pending \union Summaries(at), mode = "standalone") : RowFits(x)
<1> DEFINE S == pending \union Summaries(at)
<1>1. \A r \in S : Fits(r)
  BY SummariesFit DEF ModeInv, InMemory
<1>2. CASE mode = "setup"
  BY <1>2 DEF ModeRunInv, SetupInv, Summaries, Closed, Rows
<1>3. CASE mode # "setup"
  <2> HIDE DEF S
  <2>1. \A x \in Rows(S, mode = "standalone") : RowFits(x)
    BY <1>1, <1>3, RowsFit
  <2> QED
    BY <2>1 DEF S
<1> QED
  BY <1>2, <1>3

\* What a flush extracts, and what its append adds or gives back, was all measured
\* in the mode the service is still in.
LEMMA ExtractFits ==
  ASSUME ModeRunInv, ModeInv, NEW f \in Flushers, NEW at, Extract(f, at),
         UNCHANGED <<mode, spooled, switch>>, switch.pc # "flushed"
  PROVE  ModeInv'
<1>1. open' \subseteq open /\ pending' = {}
  BY DEF Extract, Flush
<1>2. \A r \in pending \union Summaries(at) : Fits(r)
  BY SummariesFit DEF ModeInv, InMemory
<1>3. \A g \in Flushers : \A r \in taken'[g] : r \in taken[g] \union pending \union Summaries(at)
  <2>1. taken \in [Flushers -> SUBSET Records]
    BY DEF ModeRunInv, TypeInv, TypeOK
  <2> QED
    BY <2>1 DEF Extract
<1>4. "tick" \in Flushers /\ "speed" \in Flushers
  BY DEF Flushers
<1>5. \A r \in InMemory' : Fits(r)
  BY <1>1, <1>2, <1>3, <1>4 DEF InMemory, ModeInv
<1> QED
  BY <1>1, <1>5 DEF ModeInv, Fits, RowFits

LEMMA PersistFits ==
  ASSUME ModeRunInv, ModeInv, mode # "setup", NEW f \in Flushers, NEW ok \in BOOLEAN,
         Persist(f, mode = "standalone", ok), UNCHANGED <<mode, switch>>, switch.pc # "flushed"
  PROVE  ModeInv'
<1>1. "tick" \in Flushers /\ "speed" \in Flushers /\ Flushers = {"tick", "speed"}
  BY DEF Flushers
<1>2. \A r \in taken[f] : Fits(r)
  BY <1>1 DEF ModeInv, InMemory
<1>3. \A x \in Rows(taken[f], mode = "standalone") : RowFits(x)
  BY <1>2, RowsFit
<1>4. \A x \in spooled' : RowFits(x)
  BY <1>3 DEF Persist, ModeInv
<1>5. \A g \in Flushers : taken'[g] \subseteq taken[g]
  <2>1. taken \in [Flushers -> SUBSET Records]
    BY DEF ModeRunInv, TypeInv, TypeOK
  <2> QED
    BY <2>1 DEF Persist
<1>6. pending' \subseteq pending \union taken[f] /\ open' = open
  BY DEF Persist
<1>7. \A r \in InMemory' : Fits(r)
  BY <1>1, <1>2, <1>5, <1>6 DEF InMemory, ModeInv
<1> QED
  BY <1>4, <1>6, <1>7 DEF ModeInv, Fits, RowFits

\* Every step keeps what is in memory in the mode it was measured in.
LEMMA ModeStep == ModeRunInv /\ ModeInv /\ [Next]_vars => ModeInv'
<1> SUFFICES ASSUME ModeRunInv, ModeInv, [Next]_vars PROVE ModeInv'
  OBVIOUS
<1> USE DEF aggregator, scheduler, producers
<1>1. CASE Minute \/ MinuteBack \/ \E p \in BOOLEAN : Pause(p)
  BY <1>1 DEF Minute, MinuteBack, Pause, ModeInv, InMemory, Fits, RowFits
<1>2. CASE TickReset
  BY <1>2 DEF TickReset, Reset, ReadGranted, ModeInv, InMemory, Fits, RowFits
<1>3. CASE TickSkip
  BY <1>3 DEF TickSkip, ModeInv, InMemory, Fits, RowFits
<1>4. CASE RunSpeedTest
  BY <1>4 DEF RunSpeedTest, ReadGranted, Started, ModeInv, InMemory, Fits, RowFits
<1>5. ASSUME NEW at \in Minutes, TickFlush(at) PROVE ModeInv'
  <2>1. /\ Extract("tick", at) /\ UNCHANGED <<mode, spooled, switch>>
        /\ switch.pc # "flushed" /\ "tick" \in Flushers
    BY <1>5 DEF TickFlush, ReadGranted, Flushers
  <2> QED
    BY <2>1, ExtractFits
<1>6. ASSUME NEW at \in Minutes, NEW p \in BOOLEAN, NEW c \in BOOLEAN, TickNoFlush(at, p, c)
      PROVE  ModeInv'
  BY <1>6 DEF TickNoFlush, ReadGranted, StartProducers, Started, ModeInv, InMemory, Fits, RowFits
<1>7. ASSUME NEW ok \in BOOLEAN, SpeedAppend(ok) PROVE ModeInv'
  <2>1. /\ Persist("speed", mode = "standalone", ok) /\ UNCHANGED <<mode, switch>>
        /\ switch.pc # "flushed" /\ mode # "setup" /\ "speed" \in Flushers
    BY <1>7 DEF SpeedAppend, Flushers, ModeRunInv, LockInv, SetupInv, Reading
  <2> QED
    BY <2>1, PersistFits
<1>8. ASSUME NEW ok \in BOOLEAN, SwitchFlush(ok) PROVE ModeInv'
  <2> DEFINE S == pending \union Summaries(now)
             local == mode = "standalone" \/ (mode = "setup" /\ switch.to = "connected")
  <2>1. \A r \in S : Fits(r)
    BY SummariesFit DEF ModeInv, InMemory
  <2>2. \A x \in Rows(S, local) : RowFits(x)
    <3>1. CASE mode = "setup"
      BY <3>1 DEF ModeRunInv, SetupInv, Summaries, Closed, Rows
    <3>2. CASE mode # "setup"
      <4>1. local = (mode = "standalone")
        BY <3>2
      <4> HIDE DEF S, local
      <4> QED
        BY <2>1, <3>2, <4>1, RowsFit
    <3> QED
      BY <3>1, <3>2
  <2>3. taken["tick"] = {} /\ taken["speed"] = {}
    BY <1>8 DEF SwitchFlush, SwitchGranted, Reading, ModeRunInv, LockInv
  <2>4. /\ open' = {} /\ UNCHANGED <<mode, taken>>
        /\ spooled' = IF ok THEN spooled \union Rows(S, local) ELSE spooled
        /\ pending' = IF ok THEN {} ELSE S
        /\ ~ok => switch'.pc = "none"
    BY <1>8 DEF SwitchFlush, ShutdownFlush, NoSwitch
  <2> HIDE DEF S, local
  <2> QED
    BY <2>1, <2>2, <2>3, <2>4 DEF ModeInv, InMemory, Fits, RowFits
<1>9. ASSUME NEW ok \in BOOLEAN, SwitchCommit(ok) PROVE ModeInv'
  <2>1. taken["tick"] = {} /\ taken["speed"] = {} /\ switch'.pc = "none"
    BY <1>9 DEF SwitchCommit, NoSwitch, Reading, ModeRunInv, LockInv
  <2>2. open = {} /\ \A r \in pending : r.what = "event"
    BY <1>9 DEF SwitchCommit, ModeInv
  <2> QED
    BY <1>9, <2>1, <2>2 DEF SwitchCommit, ModeInv, InMemory, Fits, RowFits
<1>10. ASSUME NEW ok \in BOOLEAN, UpdateFlush(ok) PROVE ModeInv'
  <2> DEFINE S == pending \union Summaries(now)
  <2>1. \A r \in S : Fits(r)
    BY SummariesFit DEF ModeInv, InMemory
  <2>2. \A x \in Rows(S, mode = "standalone") : RowFits(x)
    BY RecordsFit
  <2>3. /\ open' \subseteq open /\ UNCHANGED <<mode, taken, switch>> /\ switch.pc = "none"
        /\ spooled' = IF ok THEN spooled \union Rows(S, mode = "standalone") ELSE spooled
        /\ pending' = IF ok THEN {} ELSE S
    BY <1>10 DEF UpdateFlush, Flush
  <2> HIDE DEF S
  <2> QED
    BY <2>1, <2>2, <2>3 DEF ModeInv, InMemory, Fits, RowFits
<1>11. ASSUME NEW ok \in BOOLEAN, NEW p \in BOOLEAN, NEW c \in BOOLEAN, TickAppend(ok, p, c)
       PROVE  ModeInv'
  <2>1. /\ Persist("tick", mode = "standalone", ok) /\ UNCHANGED <<mode, switch>>
        /\ switch.pc # "flushed" /\ mode # "setup" /\ "tick" \in Flushers
    BY <1>11 DEF TickAppend, Flushers, ModeRunInv, LockInv, SetupInv, Reading
  <2> QED
    BY <2>1, PersistFits
<1>12. ASSUME NEW s \in Lifecycles, LiveRead(s) PROVE ModeInv'
  BY <1>12 DEF LiveRead, Lifecycle, ModeInv, InMemory, Fits, RowFits
<1>13. CASE LivePublish
  <2>1. UNCHANGED <<open, mode, taken, spooled, switch>>
    BY <1>13 DEF LivePublish, AddNote
  <2>2. \A r \in pending' \ pending : r.what = "event" /\ r.from = {seen.mode}
    BY <1>13 DEF LivePublish, AddNote
  <2>3. \A r \in pending' \ pending : Fits(r) /\ r.what = "event"
    BY <2>2, FS_Singleton DEF Fits
  <2> QED
    BY <2>1, <2>3 DEF ModeInv, InMemory, Fits, RowFits
<1>14. ASSUME NEW t \in Targets, NEW m \in Minutes, ProbeSample(t, m) PROVE ModeInv'
  <2>1. probe.mode = mode /\ switch.pc # "flushed"
    BY <1>14 DEF ProbeSample, ModeRunInv, LockInv, Reading
  <2>2. \A b \in open' : b.from = {mode}
    <3> DEFINE same == {b \in open : b.target = t /\ b.minute = m}
               new == [target |-> t, minute |-> m, from |-> {mode} \union UNION {b.from : b \in same}]
    <3>1. open' \subseteq open \union {new}
      BY <1>14, <2>1 DEF ProbeSample, AddSample
    <3>2. \A b \in open : b.from = {mode}
      BY DEF ModeInv
    <3>3. {mode} \union UNION {b.from : b \in same} = {mode}
      BY <3>2
    <3>4. new.from = {mode}
      BY <3>3
    <3> HIDE DEF new
    <3> QED
      BY <3>1, <3>2, <3>4
  <2>3. UNCHANGED <<pending, mode, taken, spooled, switch>>
    BY <1>14 DEF ProbeSample, AddSample
  <2> QED
    BY <2>1, <2>2, <2>3 DEF ModeInv, InMemory, Fits, RowFits
<1>15. CASE ProbeDone \/ CheckDone
  BY <1>15 DEF ProbeDone, CheckDone, Idle, ModeInv, InMemory, Fits, RowFits
<1>16. CASE CheckPublish
  <2>0. check.mode = mode /\ switch.pc # "flushed"
    BY <1>16 DEF CheckPublish, ModeRunInv, LockInv, Reading
  <2>1. UNCHANGED <<open, mode, taken, spooled, switch>>
    BY <1>16 DEF CheckPublish, AddNote
  <2>2. \A r \in pending' \ pending : r.from = {check.mode}
    BY <1>16 DEF CheckPublish, AddNote
  <2>3. \A r \in pending' \ pending : Fits(r)
    BY <2>0, <2>2, FS_Singleton DEF Fits
  <2> QED
    BY <2>0, <2>1, <2>3 DEF ModeInv, InMemory, Fits, RowFits
<1>17. CASE SpeedFlush
  <2>1. /\ Extract("speed", now) /\ UNCHANGED <<mode, spooled, switch>>
        /\ switch.pc # "flushed" /\ "speed" \in Flushers
    BY <1>17 DEF SpeedFlush, Flushers, ModeRunInv, LockInv, Reading
  <2> QED
    BY <2>1, ExtractFits
<1>18. ASSUME NEW m \in {"standalone", "connected"}, SwitchRequest(m) PROVE ModeInv'
  BY <1>18 DEF SwitchRequest, ModeInv, InMemory, Fits, RowFits
<1>19. CASE SwitchNothing
  BY <1>19 DEF SwitchNothing, NoSwitch, ModeInv, InMemory, Fits, RowFits
<1>20. ASSUME NEW m \in Modes, Purge(m) PROVE ModeInv'
  <2>1. taken["tick"] = {} /\ taken["speed"] = {} /\ switch.pc = "none"
    BY <1>20 DEF Purge, Reading, ModeRunInv, LockInv
  <2> QED
    BY <1>20, <2>1 DEF Purge, Reset, ModeInv, InMemory
<1>21. CASE StopService \/ Crash
  <2>1. /\ open' = {} /\ pending' = {} /\ taken'["tick"] = {} /\ taken'["speed"] = {}
        /\ switch'.pc = "none"
    <3>1. Stopped
      BY <1>21 DEF StopService, Crash
    <3> QED
      BY <3>1 DEF Stopped, NoSwitch, Flushers
  <2>2. \A x \in spooled' : RowFits(x)
    <3>1. spooled' \subseteq spooled \union Rows(pending \union Summaries(now), mode = "standalone")
      BY <1>21 DEF StopService, Crash
    <3> QED
      BY <3>1, RecordsFit DEF ModeInv
  <2> QED
    BY <2>1, <2>2 DEF ModeInv, InMemory, RowFits
<1>22. CASE Start
  BY <1>22 DEF Start, ModeInv, InMemory, Fits, RowFits
<1>23. CASE UNCHANGED vars
  BY <1>23 DEF vars, ModeInv, InMemory, Fits, RowFits
<1> QED
  BY <1>1, <1>2, <1>3, <1>4, <1>5, <1>6, <1>7, <1>8, <1>9, <1>10, <1>11, <1>12,
     <1>13, <1>14, <1>15, <1>16, <1>17, <1>18, <1>19, <1>20, <1>21, <1>22, <1>23
     DEF Next

----------------------------------------------------------------------------
(* A minute is summarised once. *)

\* A minute that has been summarised is sealed as long as a sample of it can still
\* come: the process and its seals end together, and while the clock goes forward
\* the next producer starts after it.
Summarised(t, m) ==
  /\ adjustable /\ up => m <= sealed[t]
  /\ ~adjustable => m < now /\ (probe.on /\ probe.from <= m => m <= sealed[t])

MadeInv ==
  /\ \A b \in open : made[<<b.target, b.minute>>] = 0
  /\ \A t \in Targets, m \in Minutes : made[<<t, m>>] # 0 => Summarised(t, m)

\* A flush without the latency producer summarises minutes that are over, seals them
\* and leaves the minutes it does not close as they were.
LEMMA FlushMade ==
  ASSUME TypeInv, MadeInv, NEW at \in Int, Seal(at), ~probe.on, UNCHANGED <<now, up, probe, adjustable>>,
         ~adjustable => at <= now, open' = {} \/ open' = open \ Closed(at)
  PROVE  MadeInv'
<1>1. /\ sealed' \in [Targets -> Minutes \union {0}] /\ sealed \in [Targets -> Minutes \union {0}]
      /\ \A t \in Targets : sealed'[t] >= sealed[t]
      /\ \A b \in Closed(at) : sealed'[b.target] >= b.minute
      /\ made' = Counted(at)
  BY SealEffect DEF TypeInv, TypeOK
<1>2. \A c \in Targets \X Minutes :
        (\A b \in Closed(at) : <<b.target, b.minute>> # c) => made'[c] = made[c]
  BY <1>1, CountedEffect
<1>3. \A b \in open : b.target \in Targets /\ b.minute \in Minutes /\ b.minute \in Int
  BY CollectionAssumption DEF TypeInv, TypeOK, Buckets, Minutes
<1>4. ASSUME NEW b \in open' PROVE made'[<<b.target, b.minute>>] = 0
  <2>1. b \in open /\ b \notin Closed(at)
    OBVIOUS
  <2>2. \A c \in Closed(at) : c.minute # b.minute
    BY <1>3, <2>1 DEF Closed
  <2>3. made'[<<b.target, b.minute>>] = made[<<b.target, b.minute>>]
    BY <1>2, <1>3, <2>1, <2>2
  <2> QED
    BY <2>1, <2>3 DEF MadeInv
<1>5. ASSUME NEW t \in Targets, NEW m \in Minutes, made'[<<t, m>>] # 0
      PROVE  Summarised(t, m)'
  <2>1. CASE \E b \in Closed(at) : b.target = t /\ b.minute = m
    <3>1. m <= sealed'[t] /\ m < at
      BY <1>1, <2>1, CollectionAssumption DEF Closed, Minutes
    <3>2. now \in Int /\ m \in Int
      BY CollectionAssumption DEF TypeInv, TypeOK, Minutes
    <3> QED
      BY <3>1, <3>2 DEF Summarised
  <2>2. CASE ~\E b \in Closed(at) : b.target = t /\ b.minute = m
    <3>1. made'[<<t, m>>] = made[<<t, m>>]
      BY <1>2, <2>2
    <3>2. Summarised(t, m)
      BY <1>5, <3>1 DEF MadeInv
    <3>3. sealed[t] \in Int /\ sealed'[t] \in Int /\ m \in Int
      BY <1>1, CollectionAssumption DEF Minutes
    <3> QED
      BY <1>1, <3>2, <3>3 DEF Summarised
  <2> QED
    BY <2>1, <2>2
<1> QED
  BY <1>4, <1>5 DEF MadeInv

LEMMA ExtractMade ==
  ASSUME TypeInv, MadeInv, NEW f, NEW at \in Int, Extract(f, at), UNCHANGED <<now, up, probe, adjustable>>,
         ~adjustable => at <= now
  PROVE  MadeInv'
<1>1. CASE probe.on
  BY <1>1 DEF Extract, MadeInv, Summarised
<1>2. CASE ~probe.on
  <2>1. Seal(at) /\ open' = open \ Closed(at)
    BY <1>2 DEF Extract, Flush
  <2> QED
    BY <1>2, <2>1, FlushMade
<1> QED
  BY <1>1, <1>2

\* A reset forgets the seals.
LEMMA ResetMade ==
  ASSUME TypeInv, MadeInv, Reset, ~probe.on, UNCHANGED <<now, up, probe, adjustable>>
  PROVE  MadeInv'
<1>1. \A t \in Targets, m \in Minutes : Unmade[<<t, m>>] = 0
  BY DEF Unmade
<1>2. open' = {} /\ made' = IF adjustable THEN Unmade ELSE made
  BY DEF Reset
<1> QED
  BY <1>1, <1>2 DEF MadeInv, Summarised

\* Every step keeps the summarised minutes sealed while samples of them may come.
LEMMA MadeStep == ModeRunInv /\ MadeInv /\ [Next]_vars => MadeInv'
<1> SUFFICES ASSUME ModeRunInv, MadeInv, [Next]_vars PROVE MadeInv'
  OBVIOUS
<1> USE DEF ModeRunInv, TypeInv, TypeOK
<1> USE DEF aggregator, scheduler, producers, counters
<1>1. CASE Minute \/ MinuteBack \/ \E p \in BOOLEAN : Pause(p)
  <2>1. UNCHANGED <<open, sealed, made, up, probe, adjustable>> /\ (~adjustable => now' >= now) /\ now' \in Nat
    BY <1>1, CollectionAssumption DEF Minute, MinuteBack, Pause, Minutes
  <2> QED
    BY <2>1, CollectionAssumption DEF MadeInv, Summarised, Minutes
<1>2. CASE TickReset
  <2>1. ~probe.on
    BY <1>2 DEF TickReset, SetupInv, Reading
  <2>2. Reset /\ UNCHANGED <<now, up, probe, adjustable>>
    BY <1>2 DEF TickReset
  <2> QED
    BY <2>1, <2>2, ResetMade
<1>3. CASE TickSkip
  <2>1. UNCHANGED <<open, sealed, made, now, up, probe, adjustable>>
    BY <1>3 DEF TickSkip
  <2> QED
    BY <2>1 DEF MadeInv, Summarised
<1>4. CASE RunSpeedTest
  <2>1. UNCHANGED <<open, sealed, made, now, up, probe, adjustable>>
    BY <1>4 DEF RunSpeedTest, ReadGranted, Started
  <2> QED
    BY <2>1 DEF MadeInv, Summarised
<1>5. ASSUME NEW at \in Minutes, TickFlush(at) PROVE MadeInv'
  <2>1. Extract("tick", at) /\ UNCHANGED <<now, up, probe, adjustable>> /\ (~adjustable => at <= now)
    BY <1>5, CollectionAssumption DEF TickFlush, TickTime, Minutes
  <2>2. at \in Int
    BY DEF Minutes
  <2> QED
    BY <2>1, <2>2, ExtractMade
<1>6. ASSUME NEW at \in Minutes, NEW p \in BOOLEAN, NEW c \in BOOLEAN, TickNoFlush(at, p, c)
      PROVE  MadeInv'
  <2>1. UNCHANGED <<open, sealed, made, now, up, adjustable>>
        /\ (probe' = probe \/ probe'.from = now)
    BY <1>6 DEF TickNoFlush, ReadGranted, StartProducers, Started
  <2> QED
    BY <2>1 DEF MadeInv, Summarised, Minutes
<1>7. ASSUME NEW ok \in BOOLEAN, SpeedAppend(ok) PROVE MadeInv'
  <2>1. UNCHANGED <<open, sealed, made, now, up, probe, adjustable>>
    BY <1>7 DEF SpeedAppend, Persist
  <2> QED
    BY <2>1 DEF MadeInv, Summarised
<1>8. ASSUME NEW ok \in BOOLEAN, SwitchFlush(ok) PROVE MadeInv'
  <2>1. Seal(now) /\ open' = {} /\ ~probe.on /\ UNCHANGED <<now, up, probe, adjustable>> /\ now \in Int
    BY <1>8 DEF SwitchFlush, SwitchGranted, ShutdownFlush, Reading, Minutes
  <2> QED
    BY <2>1, FlushMade
<1>9. ASSUME NEW ok \in BOOLEAN, SwitchCommit(ok) PROVE MadeInv'
  <2>1. UNCHANGED <<open, sealed, made, now, up, probe, adjustable>>
    BY <1>9 DEF SwitchCommit, NoSwitch
  <2> QED
    BY <2>1 DEF MadeInv, Summarised
<1>10. ASSUME NEW ok \in BOOLEAN, UpdateFlush(ok) PROVE MadeInv'
  <2>1. Seal(now) /\ open' = open \ Closed(now) /\ ~probe.on /\ UNCHANGED <<now, up, probe, adjustable>> /\ now \in Int
    BY <1>10 DEF UpdateFlush, Flush, Reading, Minutes
  <2> QED
    BY <2>1, FlushMade
<1>11. ASSUME NEW ok \in BOOLEAN, NEW p \in BOOLEAN, NEW c \in BOOLEAN, TickAppend(ok, p, c)
       PROVE  MadeInv'
  <2>1. UNCHANGED <<open, sealed, made, now, up, adjustable>>
        /\ (probe' = probe \/ probe'.from = now)
    BY <1>11 DEF TickAppend, Persist, StartProducers, Started
  <2> QED
    BY <2>1 DEF MadeInv, Summarised, Minutes
<1>12. ASSUME NEW s \in Lifecycles, LiveRead(s) PROVE MadeInv'
  <2>1. UNCHANGED <<open, sealed, made, now, up, probe, adjustable>>
    BY <1>12 DEF LiveRead, Lifecycle
  <2> QED
    BY <2>1 DEF MadeInv, Summarised
<1>13. CASE LivePublish
  <2>1. UNCHANGED <<open, sealed, made, now, up, probe, adjustable>>
    BY <1>13 DEF LivePublish, AddNote, HasEvent, Unread
  <2> QED
    BY <2>1 DEF MadeInv, Summarised
<1>14. ASSUME NEW t \in Targets, NEW m \in Minutes, ProbeSample(t, m) PROVE MadeInv'
  <2>1. /\ probe.on /\ (adjustable \/ probe.from <= m)
        /\ UNCHANGED <<sealed, made, now, up, probe, adjustable>>
    BY <1>14 DEF ProbeSample, AddSample, Minutes, Producers
  <2>2. ASSUME NEW b \in open' PROVE made[<<b.target, b.minute>>] = 0
    <3>1. CASE b \in open
      BY <3>1 DEF MadeInv
    <3>2. CASE b \notin open
      <4>1. b.target = t /\ b.minute = m /\ ~(m <= sealed[t])
        BY <1>14, <3>2 DEF ProbeSample, AddSample
      <4>2. up
        BY <2>1 DEF LockInv
      <4> QED
        BY <2>1, <4>1, <4>2, CollectionAssumption DEF MadeInv, Summarised
    <3> QED
      BY <3>1, <3>2
  <2> QED
    BY <2>1, <2>2 DEF MadeInv, Summarised
<1>15. CASE ProbeDone \/ CheckDone
  <2>1. UNCHANGED <<open, sealed, made, now, up, adjustable>> /\ (probe' = probe \/ probe'.on = FALSE)
    BY <1>15 DEF ProbeDone, CheckDone, Idle
  <2> QED
    BY <2>1 DEF MadeInv, Summarised
<1>16. CASE CheckPublish
  <2>1. UNCHANGED <<open, sealed, made, now, up, probe, adjustable>>
    BY <1>16 DEF CheckPublish, AddNote
  <2> QED
    BY <2>1 DEF MadeInv, Summarised
<1>17. CASE SpeedFlush
  <2>1. Extract("speed", now) /\ UNCHANGED <<now, up, probe, adjustable>> /\ now \in Int
    BY <1>17 DEF SpeedFlush, Minutes
  <2> QED
    BY <2>1, ExtractMade
<1>18. ASSUME NEW m \in {"standalone", "connected"}, SwitchRequest(m) PROVE MadeInv'
  <2>1. UNCHANGED <<open, sealed, made, now, up, probe, adjustable>>
    BY <1>18 DEF SwitchRequest
  <2> QED
    BY <2>1 DEF MadeInv, Summarised
<1>19. CASE SwitchNothing
  <2>1. UNCHANGED <<open, sealed, made, now, up, probe, adjustable>>
    BY <1>19 DEF SwitchNothing, NoSwitch
  <2> QED
    BY <2>1 DEF MadeInv, Summarised
<1>20. ASSUME NEW m \in Modes, Purge(m) PROVE MadeInv'
  <2>1. ~probe.on /\ Reset /\ UNCHANGED <<now, up, probe, adjustable>>
    BY <1>20 DEF Purge, Reading
  <2> QED
    BY <2>1, ResetMade
<1>21. CASE StopService \/ Crash
  <2>1. open' = {} /\ up' = FALSE /\ probe'.on = FALSE /\ now' = now /\ adjustable' = adjustable
    <3>1. Stopped
      BY <1>21 DEF StopService, Crash
    <3> QED
      BY <3>1 DEF Stopped, Idle
  <2>2. CASE Crash
    BY <2>1, <2>2 DEF Crash, MadeInv, Summarised
  <2>3. CASE StopService
    <3>1. ASSUME NEW t \in Targets, NEW m \in Minutes, made'[<<t, m>>] # 0, ~adjustable
          PROVE  m < now
      <4>1. CASE made[<<t, m>>] # 0
        BY <3>1, <4>1 DEF MadeInv, Summarised
      <4>2. CASE made[<<t, m>>] = 0
        <5>1. PICK b \in Closed(now) : <<b.target, b.minute>> = <<t, m>>
          BY <2>3, <3>1, <4>2, CountedEffect DEF StopService
        <5> QED
          BY <5>1 DEF Closed
      <4> QED
        BY <4>1, <4>2
    <3> QED
      BY <2>1, <3>1, CollectionAssumption DEF MadeInv, Summarised
  <2> QED
    BY <1>21, <2>2, <2>3
<1>22. CASE Start
  <2>1. UNCHANGED <<open, sealed, now, probe, adjustable>> /\ ~probe.on
        /\ made' = IF adjustable THEN Unmade ELSE made
    BY <1>22 DEF Start, LockInv
  <2>2. \A t \in Targets, m \in Minutes : Unmade[<<t, m>>] = 0
    BY DEF Unmade
  <2>3. \A b \in open : b.target \in Targets /\ b.minute \in Minutes
    BY DEF Buckets
  <2> QED
    BY <2>1, <2>2, <2>3 DEF MadeInv, Summarised
<1>23. CASE UNCHANGED vars
  BY <1>23 DEF vars, MadeInv, Summarised
<1> QED
  BY <1>1, <1>2, <1>3, <1>4, <1>5, <1>6, <1>7, <1>8, <1>9, <1>10, <1>11, <1>12,
     <1>13, <1>14, <1>15, <1>16, <1>17, <1>18, <1>19, <1>20, <1>21, <1>22, <1>23
     DEF Next

----------------------------------------------------------------------------
(* Nothing is lost, and only a flush makes summaries. *)

\* What a step may do to the records in memory and in the spool: it adds summaries of
\* open minutes and notes, and a service that is up and not purged keeps every record
\* and every minute that is over.
HeldWell ==
  /\ \A r \in Held' : \/ r \in Held
                      \/ r.what \notin Targets
                      \/ \E b \in open : r.n = made[<<b.target, b.minute>>] + 1
  /\ up /\ up' /\ wipes' = wipes => Kept

\* Every closed minute has its summary, numbered after those made before.
LEMMA SummariesOf ==
  ASSUME NEW at
  PROVE  /\ \A r \in Summaries(at) : \E b \in open : r.n = made[<<b.target, b.minute>>] + 1
         /\ \A b \in Closed(at) : \E r \in Summaries(at) : r.what = b.target /\ r.minute = b.minute
<1> DEFINE sum(b) == [what |-> b.target, minute |-> b.minute, from |-> b.from,
                      n |-> made[<<b.target, b.minute>>] + 1]
<1>1. Summaries(at) = {sum(b) : b \in Closed(at)} /\ Closed(at) \subseteq open
  BY DEF Summaries, Closed
<1>2. \A b : /\ sum(b).n = made[<<b.target, b.minute>>] + 1
             /\ sum(b).what = b.target /\ sum(b).minute = b.minute
  OBVIOUS
<1> HIDE DEF sum
<1> QED
  BY <1>1, <1>2

LEMMA SameHeld ==
  ASSUME UNCHANGED <<open, pending, taken, spooled>>
  PROVE  HeldWell
  BY DEF HeldWell, Kept, Held, Closed

\* A flush moves what is pending to what it has taken, with the summaries of the
\* minutes that it removes.
LEMMA ExtractHeld ==
  ASSUME TypeInv, NEW f \in Flushers, NEW at, Extract(f, at), taken[f] = {}, UNCHANGED spooled
  PROVE  HeldWell
<1>1. taken \in [Flushers -> SUBSET Records] /\ Flushers = {"tick", "speed"}
  BY DEF TypeInv, TypeOK, Flushers
<1>2. /\ \A r \in Summaries(at) : \E b \in open : r.n = made[<<b.target, b.minute>>] + 1
      /\ \A b \in Closed(at) : \E r \in Summaries(at) : r.what = b.target /\ r.minute = b.minute
  BY SummariesOf
<1>3. CASE probe.on
  <2>1. Held' = Held /\ open' = open
    BY <1>1, <1>3 DEF Extract, Held
  <2> QED
    BY <2>1 DEF HeldWell, Kept, Closed
<1>4. CASE ~probe.on
  <2>1. Held' = Held \union Summaries(at) /\ open' = open \ Closed(at)
    <3>1. /\ taken' = [taken EXCEPT ![f] = pending \union Summaries(at)]
          /\ open' = open \ Closed(at) /\ pending' = {}
      BY <1>4 DEF Extract, Flush
    <3>2. taken'["tick"] \union taken'["speed"]
            = taken["tick"] \union taken["speed"] \union pending \union Summaries(at)
      BY <1>1, <3>1
    <3> QED
      BY <3>1, <3>2 DEF Held
  <2>2. \A b \in Closed(now) : b \in open
    BY DEF Closed
  <2> QED
    BY <1>2, <2>1, <2>2 DEF HeldWell, Kept
<1> QED
  BY <1>3, <1>4

\* The rows of some records hold those records.
LEMMA RowsRecords ==
  ASSUME NEW S, NEW local
  PROVE  {x.rec : x \in Rows(S, local)} = S
<1>1. \A r \in S : [rec |-> r, local |-> local] \in Rows(S, local)
  BY DEF Rows
<1>2. \A x \in Rows(S, local) : x.rec \in S
  BY DEF Rows
<1>3. ASSUME NEW r \in S PROVE r \in {x.rec : x \in Rows(S, local)}
  <2>1. [rec |-> r, local |-> local].rec = r
    OBVIOUS
  <2> QED
    BY <1>1, <2>1
<1> QED
  BY <1>2, <1>3

\* An append, or its failure, loses nothing of what was taken.
LEMMA PersistHeld ==
  ASSUME TypeInv, NEW f \in Flushers, NEW local, NEW ok \in BOOLEAN, Persist(f, local, ok)
  PROVE  HeldWell
<1>1. taken \in [Flushers -> SUBSET Records] /\ Flushers = {"tick", "speed"}
  BY DEF TypeInv, TypeOK, Flushers
<1>2. {x.rec : x \in Rows(taken[f], local)} = taken[f]
  BY RowsRecords
<1>3. /\ taken' = [taken EXCEPT ![f] = {}] /\ open' = open
      /\ spooled' = IF ok THEN spooled \union Rows(taken[f], local) ELSE spooled
      /\ pending' = IF ok THEN pending ELSE pending \union taken[f]
  BY DEF Persist
<1>4. {x.rec : x \in spooled'} \union pending' = {x.rec : x \in spooled} \union pending \union taken[f]
  <2>1. CASE ok
    BY <1>2, <1>3, <2>1
  <2>2. CASE ~ok
    BY <1>3, <2>2
  <2> QED
    BY <2>1, <2>2
<1>5. taken'["tick"] \union taken'["speed"] \union taken[f] = taken["tick"] \union taken["speed"]
  BY <1>1, <1>3
<1>6. Held' = Held
  BY <1>4, <1>5 DEF Held
<1> QED
  BY <1>3, <1>6 DEF HeldWell, Kept, Closed

\* Nor does a flush that appends at once lose what was pending or summarised.
LEMMA AppendHeld ==
  ASSUME NEW ok \in BOOLEAN, NEW local, UNCHANGED taken,
         spooled' = IF ok THEN spooled \union Rows(pending \union Summaries(now), local) ELSE spooled,
         pending' = IF ok THEN {} ELSE pending \union Summaries(now)
  PROVE  HeldWell
<1> DEFINE S == pending \union Summaries(now)
<1>1. {x.rec : x \in Rows(S, local)} = S
  BY RowsRecords
<1>2. {x.rec : x \in spooled'} \union pending' = {x.rec : x \in spooled} \union S
  <2> HIDE DEF S
  <2>0. spooled' = (IF ok THEN spooled \union Rows(S, local) ELSE spooled)
        /\ pending' = (IF ok THEN {} ELSE S)
    BY DEF S
  <2>1. CASE ok
    BY <1>1, <2>0, <2>1
  <2>2. CASE ~ok
    BY <2>0, <2>2
  <2> QED
    BY <2>1, <2>2
<1>3. Held' = Held \union Summaries(now)
  BY <1>2 DEF Held
<1>4. /\ \A r \in Summaries(now) : \E b \in open : r.n = made[<<b.target, b.minute>>] + 1
      /\ \A b \in Closed(now) : \E r \in Summaries(now) : r.what = b.target /\ r.minute = b.minute
  BY SummariesOf
<1> QED
  BY <1>3, <1>4 DEF HeldWell, Kept

\* Every step keeps the records.
LEMMA HeldStep == ModeRunInv /\ [Next]_vars => HeldWell
<1> SUFFICES ASSUME ModeRunInv, [Next]_vars PROVE HeldWell
  OBVIOUS
<1> USE DEF ModeRunInv, TypeInv, TypeOK
<1> USE DEF aggregator, scheduler, producers
<1>1. CASE Minute \/ MinuteBack \/ \E p \in BOOLEAN : Pause(p)
  <2>1. UNCHANGED <<open, pending, taken, spooled>>
    BY <1>1 DEF Minute, MinuteBack, Pause
  <2> QED
    BY <2>1, SameHeld
<1>2. CASE TickReset
  <2>1. UNCHANGED <<open, pending, taken, spooled>>
    BY <1>2 DEF TickReset, Reset, SetupInv
  <2> QED
    BY <2>1, SameHeld
<1>3. CASE TickSkip
  <2>1. UNCHANGED <<open, pending, taken, spooled>>
    BY <1>3 DEF TickSkip
  <2> QED
    BY <2>1, SameHeld
<1>4. CASE RunSpeedTest
  <2>1. UNCHANGED <<open, pending, taken, spooled>>
    BY <1>4 DEF RunSpeedTest, ReadGranted, Started
  <2> QED
    BY <2>1, SameHeld
<1>5. ASSUME NEW at \in Minutes, TickFlush(at) PROVE HeldWell
  <2>1. /\ Extract("tick", at) /\ "tick" \in Flushers /\ taken["tick"] = {} /\ UNCHANGED spooled
    BY <1>5 DEF TickFlush, LockInv, Flushers
  <2> QED
    BY <2>1, ExtractHeld
<1>6. ASSUME NEW at \in Minutes, NEW p \in BOOLEAN, NEW c \in BOOLEAN, TickNoFlush(at, p, c)
      PROVE  HeldWell
  <2>1. UNCHANGED <<open, pending, taken, spooled>>
    BY <1>6 DEF TickNoFlush, ReadGranted, StartProducers, Started
  <2> QED
    BY <2>1, SameHeld
<1>7. ASSUME NEW ok \in BOOLEAN, SpeedAppend(ok) PROVE HeldWell
  <2>1. Persist("speed", check.mode = "standalone", ok) /\ "speed" \in Flushers
    BY <1>7 DEF SpeedAppend, Flushers
  <2> QED
    BY <2>1, PersistHeld
<1>8. ASSUME NEW ok \in BOOLEAN, SwitchFlush(ok) PROVE HeldWell
  <2>1. PICK local \in BOOLEAN :
          /\ UNCHANGED taken
          /\ spooled' = IF ok THEN spooled \union Rows(pending \union Summaries(now), local) ELSE spooled
          /\ pending' = IF ok THEN {} ELSE pending \union Summaries(now)
    BY <1>8 DEF SwitchFlush
  <2> QED
    BY <2>1, AppendHeld
<1>9. ASSUME NEW ok \in BOOLEAN, SwitchCommit(ok) PROVE HeldWell
  <2>1. UNCHANGED <<open, pending, taken, spooled>>
    BY <1>9 DEF SwitchCommit, NoSwitch
  <2> QED
    BY <2>1, SameHeld
<1>10. ASSUME NEW ok \in BOOLEAN, UpdateFlush(ok) PROVE HeldWell
  <2>1. /\ UNCHANGED taken
        /\ spooled' = IF ok THEN spooled \union Rows(pending \union Summaries(now), mode = "standalone")
                      ELSE spooled
        /\ pending' = IF ok THEN {} ELSE pending \union Summaries(now)
    BY <1>10 DEF UpdateFlush
  <2> QED
    BY <2>1, AppendHeld
<1>11. ASSUME NEW ok \in BOOLEAN, NEW p \in BOOLEAN, NEW c \in BOOLEAN, TickAppend(ok, p, c)
       PROVE  HeldWell
  <2>1. Persist("tick", snap.mode = "standalone", ok) /\ "tick" \in Flushers
    BY <1>11 DEF TickAppend, Flushers
  <2> QED
    BY <2>1, PersistHeld
<1>12. ASSUME NEW s \in Lifecycles, LiveRead(s) PROVE HeldWell
  <2>1. UNCHANGED <<open, pending, taken, spooled>>
    BY <1>12 DEF LiveRead, Lifecycle
  <2> QED
    BY <2>1, SameHeld
<1>13. CASE LivePublish
  <2>1. UNCHANGED <<open, taken, spooled>> /\ pending \subseteq pending'
    BY <1>13 DEF LivePublish, AddNote
  <2>2. \A r \in pending' \ pending : r.what \in {"check", "event"}
    BY <1>13 DEF LivePublish, AddNote
  <2> QED
    BY <2>1, <2>2, CollectionAssumption DEF HeldWell, Kept, Held, Closed
<1>14. ASSUME NEW t \in Targets, NEW m \in Minutes, ProbeSample(t, m) PROVE HeldWell
  <2>1. UNCHANGED <<pending, taken, spooled>>
    BY <1>14 DEF ProbeSample, AddSample
  <2>2. \A b \in open : \E c \in open' : c.target = b.target /\ c.minute = b.minute
    <3> DEFINE same == {b \in open : b.target = t /\ b.minute = m}
               new == [target |-> t, minute |-> m,
                       from |-> {probe.mode} \union UNION {b.from : b \in same}]
    <3>1. open' = open \/ open' = (open \ same) \union {new}
      BY <1>14 DEF ProbeSample, AddSample
    <3>2. new.target = t /\ new.minute = m
      OBVIOUS
    <3> HIDE DEF new
    <3> QED
      BY <3>1, <3>2
  <2> QED
    BY <2>1, <2>2 DEF HeldWell, Kept, Held, Closed
<1>15. CASE ProbeDone \/ CheckDone
  <2>1. UNCHANGED <<open, pending, taken, spooled>>
    BY <1>15 DEF ProbeDone, CheckDone, Idle
  <2> QED
    BY <2>1, SameHeld
<1>16. CASE CheckPublish
  <2>1. UNCHANGED <<open, taken, spooled>> /\ pending \subseteq pending'
    BY <1>16 DEF CheckPublish, AddNote
  <2>2. \A r \in pending' \ pending : r.what \in {"check", "event"}
    BY <1>16 DEF CheckPublish, AddNote
  <2> QED
    BY <2>1, <2>2, CollectionAssumption DEF HeldWell, Kept, Held, Closed
<1>17. CASE SpeedFlush
  <2>1. Extract("speed", now) /\ "speed" \in Flushers /\ taken["speed"] = {} /\ UNCHANGED spooled
    BY <1>17 DEF SpeedFlush, Flushers
  <2> QED
    BY <2>1, ExtractHeld
<1>18. ASSUME NEW m \in {"standalone", "connected"}, SwitchRequest(m) PROVE HeldWell
  <2>1. UNCHANGED <<open, pending, taken, spooled>>
    BY <1>18 DEF SwitchRequest
  <2> QED
    BY <2>1, SameHeld
<1>19. CASE SwitchNothing
  <2>1. UNCHANGED <<open, pending, taken, spooled>>
    BY <1>19 DEF SwitchNothing, NoSwitch
  <2> QED
    BY <2>1, SameHeld
<1>20. ASSUME NEW m \in Modes, Purge(m) PROVE HeldWell
  <2>1. wipes' # wipes /\ pending' = {} /\ spooled' = {} /\ UNCHANGED taken
    BY <1>20 DEF Purge, Reset
  <2> QED
    BY <2>1 DEF HeldWell, Kept, Held
<1>21. CASE StopService \/ Crash
  <2>1. up' = FALSE /\ pending' = {} /\ taken' = [f \in Flushers |-> {}]
    <3>1. Stopped
      BY <1>21 DEF StopService, Crash
    <3> QED
      BY <3>1 DEF Stopped
  <2>2. taken'["tick"] = {} /\ taken'["speed"] = {}
    BY <2>1 DEF Flushers
  <2>3. PICK local \in BOOLEAN : spooled' \subseteq spooled \union Rows(pending \union Summaries(now), local)
    BY <1>21 DEF StopService, Crash
  <2>4. \A r \in Summaries(now) : \E b \in open : r.n = made[<<b.target, b.minute>>] + 1
    BY SummariesOf
  <2>5. {x.rec : x \in Rows(pending \union Summaries(now), local)} = pending \union Summaries(now)
    BY RowsRecords
  <2>6. Held' \subseteq Held \union Summaries(now)
    BY <2>1, <2>2, <2>3, <2>5 DEF Held
  <2> QED
    BY <2>1, <2>4, <2>6 DEF HeldWell, Kept
<1>22. CASE Start
  <2>1. UNCHANGED <<open, pending, taken, spooled>>
    BY <1>22 DEF Start
  <2> QED
    BY <2>1, SameHeld
<1>23. CASE UNCHANGED vars
  <2>1. UNCHANGED <<open, pending, taken, spooled>>
    BY <1>23 DEF vars
  <2> QED
    BY <2>1, SameHeld
<1> QED
  BY <1>1, <1>2, <1>3, <1>4, <1>5, <1>6, <1>7, <1>8, <1>9, <1>10, <1>11, <1>12,
     <1>13, <1>14, <1>15, <1>16, <1>17, <1>18, <1>19, <1>20, <1>21, <1>22, <1>23
     DEF Next

----------------------------------------------------------------------------
(* The theorems. *)

CollectionInv == ModeRunInv /\ ModeInv /\ MadeInv /\ OneSummaryPerMinute

LEMMA CollectionStart == Init => CollectionInv
<1> SUFFICES ASSUME Init PROVE CollectionInv
  OBVIOUS
<1>1. /\ Idle \in Producers /\ NoSnap \in [mode : Modes, paused : BOOLEAN]
      /\ NoSwitch \in [pc : {"none", "waiting", "flushed"}, to : Modes]
      /\ Unread \in [state : Lifecycles, mode : Modes] /\ "" \in Lifecycles /\ "setup" \in Modes
      /\ Never \in [Targets -> Minutes \union {0}] /\ Unmade \in [Targets \X Minutes -> Nat]
      /\ 1 \in Minutes
  BY CollectionAssumption
     DEF Idle, NoSnap, NoSwitch, Unread, Producers, Modes, Lifecycles, Minutes, Never, Unmade
<1>2. taken \in [Flushers -> SUBSET Records] /\ taken["tick"] = {} /\ taken["speed"] = {}
  BY DEF Init, Flushers
<1>3. TypeInv
  <2>1. IsFiniteSet(open)
    BY FS_EmptySet DEF Init
  <2> HIDE DEF Idle, NoSnap, NoSwitch, Unread, Never, Unmade
  <2>2. TypeOK
    <3>1. /\ now \in Minutes /\ up \in BOOLEAN /\ mode \in Modes /\ paused \in BOOLEAN
          /\ sealed \in [Targets -> Minutes \union {0}] /\ made \in [Targets \X Minutes -> Nat]
          /\ flushMinute \in Minutes
      BY <1>1 DEF Init
    <3>2. /\ snap \in [mode : Modes, paused : BOOLEAN]
          /\ last \in Lifecycles /\ seen \in [state : Lifecycles, mode : Modes]
          /\ probe \in Producers /\ check \in Producers
          /\ switch \in [pc : {"none", "waiting", "flushed"}, to : Modes]
      BY <1>1 DEF Init
    <3>3. /\ open = {} /\ pending = {} /\ spooled = {} /\ tick = "idle"
          /\ serial = 0 /\ starts = 0 /\ wipes = 0 /\ adjustable \in BOOLEAN
      BY DEF Init
    <3> QED
      BY <1>2, <3>1, <3>2, <3>3 DEF TypeOK
  <2> QED
    BY <2>1, <2>2 DEF TypeInv
<1>4. LockInv /\ SetupInv
  BY <1>2 DEF Init, LockInv, SetupInv, Reading, Idle, NoSwitch, Unread
<1>5. ModeInv
  BY <1>2 DEF Init, ModeInv, InMemory, NoSwitch
<1>6. MadeInv
  BY DEF Init, MadeInv, Unmade
<1>7. OneSummaryPerMinute
  BY <1>2 DEF Init, OneSummaryPerMinute, Held
<1> QED
  BY <1>3, <1>4, <1>5, <1>6, <1>7 DEF CollectionInv, ModeRunInv

LEMMA CollectionStep == CollectionInv /\ [Next]_vars => CollectionInv'
<1> SUFFICES ASSUME CollectionInv, [Next]_vars PROVE CollectionInv'
  OBVIOUS
<1>1. ModeRunInv' /\ ModeInv' /\ MadeInv' /\ HeldWell
  BY TypeStep, LockStep, ModeStep, MadeStep, HeldStep DEF CollectionInv, ModeRunInv
<1>2. OneSummaryPerMinute'
  <2> SUFFICES ASSUME NEW r \in Held', r.what \in Targets PROVE r.n = 1
    BY DEF OneSummaryPerMinute
  <2>1. CASE r \in Held
    BY <2>1 DEF CollectionInv, OneSummaryPerMinute
  <2>2. CASE r \notin Held
    <3>1. PICK b \in open : r.n = made[<<b.target, b.minute>>] + 1
      BY <1>1, <2>2 DEF HeldWell, Kept
    <3>2. made[<<b.target, b.minute>>] = 0
      BY DEF CollectionInv, MadeInv
    <3> QED
      BY <3>1, <3>2
  <2> QED
    BY <2>1, <2>2
<1> QED
  BY <1>1, <1>2 DEF CollectionInv

\* Samples of two modes never meet in a minute, open or summarised, whatever
\* producers, flushes, mode switches and restarts overlap (set_mode: "local samples
\* must never enter a controller row").
THEOREM MinutesStayUnmixed == Spec => []MinutesUnmixed
<1>1. CollectionInv => MinutesUnmixed
  <2> SUFFICES ASSUME CollectionInv PROVE MinutesUnmixed
    OBVIOUS
  <2>1. \A b \in open : Cardinality(b.from) = 1
    BY FS_Singleton DEF CollectionInv, ModeInv
  <2> QED
    BY <2>1 DEF CollectionInv, ModeInv, MinutesUnmixed, Held, InMemory, Fits, RowFits
<1> QED
  BY <1>1, CollectionStart, CollectionStep, PTL DEF Spec

\* Every measurement is appended under the mode it was taken in: local ones with the
\* local_only bit, connected ones without it.
THEOREM MeasuredModesKept == Spec => []MeasuredModeKept
<1>1. CollectionInv => MeasuredModeKept
  BY DEF CollectionInv, ModeInv, MeasuredModeKept, RowFits
<1> QED
  BY <1>1, CollectionStart, CollectionStep, PTL DEF Spec

\* A minute of a target is summarised once, over restarts while the clock goes
\* forward and within one process however it is set.
THEOREM MinutesSummarisedOnce == Spec => []OneSummaryPerMinute
<1>1. CollectionInv => OneSummaryPerMinute
  BY DEF CollectionInv
<1> QED
  BY <1>1, CollectionStart, CollectionStep, PTL DEF Spec

\* A service that stays up drops neither a record nor a closed minute, whatever
\* appends fail and however flushes overlap, unless it is purged.
THEOREM RecordsKept == Spec => NothingDropped
<1>1. CollectionInv /\ [Next]_vars => (up /\ up' /\ wipes' = wipes => Kept)
  BY HeldStep DEF CollectionInv, HeldWell
<1> HIDE DEF Kept
<1> QED
  BY <1>1, CollectionStart, CollectionStep, PTL DEF Spec, NothingDropped
=============================================================================
