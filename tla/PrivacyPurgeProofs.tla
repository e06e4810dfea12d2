------------------------- MODULE PrivacyPurgeProofs -------------------------
(***************************************************************************)
(* The privacy guarantees of PrivacyPurge, for any number of enrollments,  *)
(* with and without power loss.                                            *)
(***************************************************************************)
EXTENDS PrivacyPurge, TLAPS

----------------------------------------------------------------------------
(* What one file replacement can leave behind. *)

\* The visible files are among those a power loss may leave.
Coherent(d) == d.state \in d.stateMaybe /\ d.sentinel \in d.sentinelMaybe

\* After writeState a power loss leaves an old state or the new one, after a
\* synced one only the new one; the sentinel is at most made durable.
LEMMA WriteStateEffect ==
  ASSUME NEW d \in Disks, Coherent(d), NEW s \in States, NEW o \in Outcomes
  PROVE  /\ WriteState(d, s, o) \in Disks
         /\ Coherent(WriteState(d, s, o))
         /\ WriteState(d, s, o).stateMaybe \subseteq d.stateMaybe \union {s}
         /\ WriteState(d, s, o).sentinelMaybe \subseteq d.sentinelMaybe
         /\ o = "synced" => WriteState(d, s, o).stateMaybe = {s}
BY DEF Disks, Coherent, Outcomes, WriteState, Outcome, SyncDirectory

\* The same for writePrivacyPurgeSentinel.
LEMMA WriteSentinelEffect ==
  ASSUME NEW d \in Disks, Coherent(d), NEW a \in Actions \union {None}, NEW o \in Outcomes
  PROVE  /\ WriteSentinel(d, a, o) \in Disks
         /\ Coherent(WriteSentinel(d, a, o))
         /\ WriteSentinel(d, a, o).stateMaybe \subseteq d.stateMaybe
         /\ WriteSentinel(d, a, o).sentinelMaybe \subseteq d.sentinelMaybe \union {a}
         /\ o = "synced" => WriteSentinel(d, a, o).sentinelMaybe = {a}
BY DEF Disks, Coherent, Outcomes, WriteSentinel, Outcome, SyncDirectory

\* Open never weakens what it reads: a marker or a sentinel leads to a pending
\* purge at least as strong, and consent and claim never appear from nowhere.
LEMMA RecoveredEffect ==
  ASSUME NEW s \in States, NEW a \in Actions \union {None}
  PROVE  /\ Recovered(s, a) \in States
         /\ Recovered(s, a).claim = s.claim
         /\ Recovered(s, a).consent => s.consent
         /\ Recovered(s, a).action >= a
         /\ s.pending \/ a # None => /\ Recovered(s, a).pending
                                     /\ Recovered(s, a).action >= s.action
                                     /\ ~Recovered(s, a).consent
<1> DEFINE t == IF a = None THEN s ELSE Begun(s, a)
           m == IF t.mode = "connected" /\ t.claim = 0 THEN "setup" ELSE t.mode
           p == t.pending \/ t.action # None
           r == [t EXCEPT !.mode = m, !.pending = p, !.consent = @ /\ ~p,
                          !.action = IF ~p THEN None ELSE Stronger(SSID, @)]
<1> USE DEF Actions, None, SSID, Disconnect, Revocation, Stronger
<1>1. r = Recovered(s, a)
  BY DEF Recovered
<1>2. /\ t \in States
      /\ t.claim = s.claim
      /\ t.consent => s.consent
      /\ t.action >= a /\ t.action >= s.action
      /\ s.pending \/ a # None => t.pending
  <2>1. CASE a = None
    BY <2>1 DEF States
  <2>2. CASE a # None
    <3>1. t = [s EXCEPT !.consent = FALSE, !.pending = TRUE, !.action = Stronger(a, @)]
      BY <2>2 DEF Begun
    <3>2. s.action \in {0, 1, 2, 3}
      BY DEF States
    <3>3. /\ Stronger(a, s.action) \in {0, 1, 2, 3}
          /\ Stronger(a, s.action) >= a /\ Stronger(a, s.action) >= s.action
      BY <3>2
    <3> HIDE DEF t, Stronger
    <3>4. t \in States
      BY <3>1, <3>3 DEF States
    <3>5. /\ t.claim = s.claim /\ t.consent = FALSE /\ t.pending = TRUE
          /\ t.action = Stronger(a, s.action)
      BY <3>1 DEF States
    <3> QED
      BY <3>3, <3>4, <3>5
  <2> QED
    BY <2>1, <2>2
<1> HIDE DEF t
<1>3. m \in Modes /\ p \in BOOLEAN
  BY <1>2 DEF States, Modes
<1>4. (IF ~p THEN None ELSE Stronger(SSID, t.action)) \in Actions \union {None}
  BY <1>2 DEF States
<1> HIDE DEF m
<1>5. /\ r.claim = t.claim /\ r.mode = m /\ r.pending = p
      /\ r.consent = (t.consent /\ ~p)
      /\ r.action = IF ~p THEN None ELSE Stronger(SSID, t.action)
      /\ r \in States
  BY <1>2, <1>3, <1>4 DEF States
<1>6. r.action >= t.action
  BY <1>2, <1>5 DEF States
<1> HIDE DEF r
<1>7. r.action \in Int /\ t.action \in Int /\ s.action \in Int /\ a \in Int
  BY <1>2, <1>5 DEF States
<1>8. r.action >= a /\ r.action >= s.action
  BY <1>2, <1>6, <1>7
<1>9. r.claim = s.claim /\ (r.consent => s.consent)
  BY <1>2, <1>5
<1>10. s.pending \/ a # None => r.pending /\ ~r.consent
  BY <1>2, <1>5
<1> HIDE DEF p
<1> QED
  BY <1>1, <1>5, <1>8, <1>9, <1>10

----------------------------------------------------------------------------
(* The inductive invariant.  Covered: a state and a sentinel that Open might *)
(* find honour every promise made so far.  MemOK: so does the memory of a    *)
(* running process, whatever is written from it.                             *)

Covered(s, a, ow, wd, dis) ==
  /\ ow # None => Recovered(s, a).pending /\ Recovered(s, a).action >= ow
  /\ wd => ~Recovered(s, a).consent
  /\ dis => s.claim = 0

MemOK(m, ow, wd, dis) ==
  /\ ow # None => m.pending /\ m.action >= ow
  /\ wd => ~m.consent
  /\ dis => m.claim = 0

DiskOK(d, ow, wd, dis) ==
  /\ d \in Disks /\ Coherent(d)
  /\ \A s \in d.stateMaybe, a \in d.sentinelMaybe : Covered(s, a, ow, wd, dis)

PromiseInv ==
  /\ TypeOK
  /\ DiskOK(disk, owed, withdrawn, disowned)
  /\ up => MemOK(mem, owed, withdrawn, disowned) /\ (asked => mem.pending)
  /\ up /\ mem.pending => mem.action \in Actions
  /\ ~up => ~asked
  /\ ~leaked

\* While connect waits for the controller no purge begins and no claim appears: a
\* withdrawal and a revocation need a claim, a disconnect waits for enrollRun, and the
\* latch of a revocation is only set together with the marker.
JoinInv ==
  /\ blocked => up /\ mem.pending
  /\ joining => up /\ ~mem.pending /\ mem.claim = 0

\* Whatever is written from a memory that honours the promises honours them.
LEMMA MemCovered ==
  ASSUME NEW m \in States, NEW a \in Actions \union {None},
         NEW ow \in Actions \union {None}, NEW wd \in BOOLEAN, NEW dis \in BOOLEAN,
         MemOK(m, ow, wd, dis)
  PROVE  Covered(m, a, ow, wd, dis)
<1>1. /\ Recovered(m, a).consent => m.consent
      /\ m.pending => Recovered(m, a).pending /\ Recovered(m, a).action >= m.action
      /\ Recovered(m, a) \in States
  BY RecoveredEffect
<1>2. m.action \in Int /\ Recovered(m, a).action \in Int /\ ow \in Int
  BY <1>1 DEF States, Actions, None, SSID, Disconnect, Revocation
<1> QED
  BY <1>1, <1>2 DEF MemOK, Covered

\* Hence a state write from such a memory keeps the disk honest.
LEMMA WriteFromMemory ==
  ASSUME NEW d, NEW m \in States, NEW o \in Outcomes,
         NEW ow \in Actions \union {None}, NEW wd \in BOOLEAN, NEW dis \in BOOLEAN,
         DiskOK(d, ow, wd, dis), MemOK(m, ow, wd, dis)
  PROVE  DiskOK(WriteState(d, m, o), ow, wd, dis)
<1>1. d \in Disks /\ Coherent(d)
  BY DEF DiskOK
<1>2. d.sentinelMaybe \subseteq Actions \union {None}
  BY <1>1 DEF Disks
<1>3. /\ WriteState(d, m, o) \in Disks /\ Coherent(WriteState(d, m, o))
      /\ WriteState(d, m, o).stateMaybe \subseteq d.stateMaybe \union {m}
      /\ WriteState(d, m, o).sentinelMaybe \subseteq d.sentinelMaybe
  BY <1>1, WriteStateEffect
<1>4. \A a \in d.sentinelMaybe : Covered(m, a, ow, wd, dis)
  BY <1>2, MemCovered
<1> QED
  BY <1>3, <1>4 DEF DiskOK

\* A write of a state that no promise is about, when nothing is promised yet or
\* the write is durable, covers the promises made by it.
LEMMA WriteSynced ==
  ASSUME NEW d \in Disks, Coherent(d), NEW m \in States,
         NEW ow \in Actions \union {None}, NEW wd \in BOOLEAN, NEW dis \in BOOLEAN,
         MemOK(m, ow, wd, dis)
  PROVE  DiskOK(WriteState(d, m, "synced"), ow, wd, dis)
<1>1. "synced" \in Outcomes
  BY DEF Outcomes
<1>2. /\ WriteState(d, m, "synced") \in Disks /\ Coherent(WriteState(d, m, "synced"))
      /\ WriteState(d, m, "synced").stateMaybe = {m}
      /\ WriteState(d, m, "synced").sentinelMaybe \subseteq d.sentinelMaybe
  BY <1>1, WriteStateEffect
<1>3. d.sentinelMaybe \subseteq Actions \union {None}
  BY DEF Disks
<1>4. \A a \in d.sentinelMaybe : Covered(m, a, ow, wd, dis)
  BY <1>3, MemCovered
<1> QED
  BY <1>2, <1>4 DEF DiskOK

\* A sentinel at least as strong as the promise can only help.
LEMMA SentinelHelps ==
  ASSUME NEW d, NEW k \in Actions, NEW o \in Outcomes,
         NEW ow \in Actions \union {None}, NEW wd \in BOOLEAN, NEW dis \in BOOLEAN,
         DiskOK(d, ow, wd, dis), k >= ow
  PROVE  DiskOK(WriteSentinel(d, k, o), ow, wd, dis)
<1>1. d \in Disks /\ Coherent(d)
  BY DEF DiskOK
<1>2. d.stateMaybe \subseteq States
  BY <1>1 DEF Disks
<1>3. /\ WriteSentinel(d, k, o) \in Disks /\ Coherent(WriteSentinel(d, k, o))
      /\ WriteSentinel(d, k, o).stateMaybe \subseteq d.stateMaybe
      /\ WriteSentinel(d, k, o).sentinelMaybe \subseteq d.sentinelMaybe \union {k}
  BY <1>1, WriteSentinelEffect
<1>4. ASSUME NEW s \in d.stateMaybe PROVE Covered(s, k, ow, wd, dis)
  <2>1. k # None
    BY DEF Actions, None, SSID, Disconnect, Revocation
  <2>2. /\ Recovered(s, k).pending /\ Recovered(s, k).action >= k
        /\ ~Recovered(s, k).consent /\ Recovered(s, k) \in States
    BY <1>2, <2>1, RecoveredEffect
  <2>3. ow \in Int /\ k \in Int /\ Recovered(s, k).action \in Int
    BY <2>2 DEF States, Actions, None, SSID, Disconnect, Revocation
  <2>4. d.sentinel \in d.sentinelMaybe
    BY <1>1 DEF Coherent
  <2>5. dis => s.claim = 0
    BY <2>4 DEF DiskOK, Covered
  <2> QED
    BY <2>2, <2>3, <2>5 DEF Covered
<1> QED
  BY <1>3, <1>4 DEF DiskOK

\* beginPrivacyPurge on a memory that honours the promises strengthens it.
LEMMA BegunEffect ==
  ASSUME NEW s \in States, NEW a \in Actions
  PROVE  /\ Begun(s, a) \in States
         /\ Begun(s, a).pending /\ ~Begun(s, a).consent
         /\ Begun(s, a).claim = s.claim
         /\ Begun(s, a).action \in Actions
         /\ Begun(s, a).action >= s.action /\ Begun(s, a).action >= a
<1> USE DEF Actions, None, SSID, Disconnect, Revocation
<1>1. s.action \in {0, 1, 2, 3}
  BY DEF States
<1>2. /\ Stronger(a, s.action) \in {1, 2, 3}
      /\ Stronger(a, s.action) >= a /\ Stronger(a, s.action) >= s.action
  BY <1>1 DEF Stronger
<1>3. Begun(s, a) = [s EXCEPT !.consent = FALSE, !.pending = TRUE,
                              !.action = Stronger(a, s.action)]
  BY DEF Begun
<1>4. Begun(s, a) \in States
  BY <1>2, <1>3 DEF States
<1>5. /\ Begun(s, a).claim = s.claim /\ Begun(s, a).consent = FALSE
      /\ Begun(s, a).pending = TRUE /\ Begun(s, a).action = Stronger(a, s.action)
  BY <1>3 DEF States
<1> QED
  BY <1>2, <1>4, <1>5

\* A state that Open starts from has an action whenever its marker is set.
LEMMA RecoveredPending ==
  ASSUME NEW s \in States, NEW a \in Actions \union {None}
  PROVE  Recovered(s, a).pending => Recovered(s, a).action \in Actions
<1> DEFINE t == IF a = None THEN s ELSE Begun(s, a)
           m == IF t.mode = "connected" /\ t.claim = 0 THEN "setup" ELSE t.mode
           p == t.pending \/ t.action # None
           r == [t EXCEPT !.mode = m, !.pending = p, !.consent = @ /\ ~p,
                          !.action = IF ~p THEN None ELSE Stronger(SSID, @)]
<1>1. r = Recovered(s, a)
  BY DEF Recovered
<1>2. t \in States
  BY BegunEffect
<1> HIDE DEF t
<1>3. r.pending = p /\ r.action = (IF ~p THEN None ELSE Stronger(SSID, t.action))
  BY <1>2 DEF States
<1>4. Stronger(SSID, t.action) \in Actions
  BY <1>2 DEF States, Stronger, Actions, None, SSID, Disconnect, Revocation
<1> HIDE DEF r, p
<1> QED
  BY <1>1, <1>3, <1>4

\* BeginPrivacyPurge preserves the invariant, whatever its two writes do.
LEMMA BeginStep ==
  ASSUME PromiseInv, up, NEW a \in Actions, NEW o1 \in Outcomes, NEW o2 \in Outcomes,
         BeginPrivacyPurge(a, o1, o2), locked' \in BOOLEAN, blocked' \in BOOLEAN
  PROVE  PromiseInv'
<1> DEFINE s == Begun(mem, a)
           d == WriteSentinel(disk, s.action, o1)
<1>0. /\ TypeOK /\ DiskOK(disk, owed, withdrawn, disowned)
      /\ MemOK(mem, owed, withdrawn, disowned) /\ ~leaked
  BY DEF PromiseInv
<1>1. /\ mem \in States /\ owed \in Actions \union {None}
      /\ withdrawn \in BOOLEAN /\ disowned \in BOOLEAN
  BY <1>0 DEF TypeOK
<1>2. /\ s \in States /\ s.pending /\ ~s.consent /\ s.claim = mem.claim
      /\ s.action \in Actions /\ s.action >= mem.action
  BY <1>1, BegunEffect
<1>3. /\ mem' = s /\ disk' = WriteState(d, s, o2) /\ asked' = TRUE
      /\ owed' = (IF o2 = "synced" THEN Stronger(s.action, owed) ELSE owed)
      /\ withdrawn' = (withdrawn \/ o2 = "synced")
      /\ UNCHANGED <<up, stale, joining, held, enrolled, disowned, leaked, powerLost>>
  BY DEF BeginPrivacyPurge
<1> HIDE DEF s
<1>4. mem.action \in {0, 1, 2, 3} /\ s.action \in {1, 2, 3} /\ owed \in {0, 1, 2, 3}
  BY <1>1, <1>2 DEF States, Actions, None, SSID, Disconnect, Revocation
<1>5. s.action >= owed
  BY <1>0, <1>2, <1>4 DEF MemOK, None
<1>6. Stronger(s.action, owed) = s.action
  BY <1>4, <1>5 DEF Stronger
<1>7. DiskOK(d, owed, withdrawn, disowned)
  BY <1>0, <1>1, <1>2, <1>5, SentinelHelps
<1> HIDE DEF d
<1>8. MemOK(s, owed, withdrawn, disowned) /\ MemOK(s, s.action, TRUE, disowned)
  BY <1>0, <1>2, <1>4, <1>5 DEF MemOK
<1>9. /\ DiskOK(disk', owed', withdrawn', disowned')
      /\ MemOK(mem', owed', withdrawn', disowned')
      /\ owed' \in Actions \union {None}
  <2>1. CASE o2 = "synced"
    <3>1. d \in Disks /\ Coherent(d)
      BY <1>7 DEF DiskOK
    <3>2. DiskOK(WriteState(d, s, "synced"), s.action, TRUE, disowned)
      BY <1>1, <1>2, <1>8, <3>1, WriteSynced
    <3> QED
      BY <1>1, <1>2, <1>3, <1>6, <1>8, <2>1, <3>2
  <2>2. CASE o2 # "synced"
    <3>1. owed' = owed /\ withdrawn' = withdrawn
      BY <1>1, <1>3, <2>2
    <3>2. DiskOK(WriteState(d, s, o2), owed, withdrawn, disowned)
      BY <1>1, <1>2, <1>7, <1>8, WriteFromMemory
    <3> QED
      BY <1>1, <1>3, <1>8, <3>1, <3>2
  <2> QED
    BY <2>1, <2>2
<1>10. disk' \in Disks
  BY <1>9 DEF DiskOK
<1>11. TypeOK'
  BY <1>0, <1>2, <1>3, <1>9, <1>10 DEF TypeOK
<1> QED
  BY <1>0, <1>2, <1>3, <1>9, <1>11 DEF PromiseInv

\* So does every setter that goes through commitLocked, as long as the new
\* state honours the promises that remain.
LEMMA CommitStep ==
  ASSUME NEW STATE s, s \in States, NEW o \in Outcomes, mem \in States,
         NEW STATE ow, ow \in Actions \union {None}, NEW STATE wd, wd \in BOOLEAN,
         NEW STATE dis, dis \in BOOLEAN,
         DiskOK(disk, ow, wd, dis), MemOK(s, ow, wd, dis),
         Commit(s, o)
  PROVE  DiskOK(disk', ow, wd, dis) /\ mem' \in {mem, s} /\ disk' \in Disks
<1>1. DiskOK(WriteState(disk, s, o), ow, wd, dis)
  BY WriteFromMemory
<1> QED
  BY <1>1 DEF Commit, DiskOK

\* A promise that was kept, or is not made, asks for less.
LEMMA DiskOKWeaker ==
  ASSUME NEW d, NEW ow, NEW wd \in BOOLEAN, NEW dis \in BOOLEAN, NEW less \in BOOLEAN,
         DiskOK(d, ow, wd, dis)
  PROVE  DiskOK(d, None, wd, dis) /\ DiskOK(d, ow, wd /\ less, dis)
         /\ DiskOK(d, ow, wd, dis /\ less)
BY DEF DiskOK, Covered

\* The memory and the files at the points where the cleanup may stop.
LEMMA PurgeDisks ==
  ASSUME PromiseInv, up, mem.pending
  PROVE  /\ MemWiped \in States /\ MemWiped.pending /\ MemWiped.action = mem.action
         /\ Wiped(mem) \in States /\ Wiped(mem).pending /\ Wiped(mem).action = mem.action
         /\ MemOK(Wiped(mem), owed, withdrawn, disowned)
         /\ MemOK(MemWiped, owed, withdrawn, disowned)
         /\ Wipes => MemWiped.claim = 0
         /\ DiskOK(DiskWiped, owed, withdrawn, disowned)
         /\ DiskOK(DiskRefreshed, owed, withdrawn, disowned)
<1>0. /\ TypeOK /\ DiskOK(disk, owed, withdrawn, disowned)
      /\ MemOK(mem, owed, withdrawn, disowned) /\ mem.action \in Actions
  BY DEF PromiseInv
<1>1. /\ mem \in States /\ owed \in Actions \union {None}
      /\ withdrawn \in BOOLEAN /\ disowned \in BOOLEAN
  BY <1>0 DEF TypeOK
<1>2. /\ Wiped(mem) \in States /\ Wiped(mem).pending = mem.pending
      /\ Wiped(mem).action = mem.action /\ Wiped(mem).claim = 0
      /\ Wiped(mem).consent = FALSE
  <2>1. 0 \in Enrollments /\ "standalone" \in Modes
    BY EnvironmentAssumption DEF Enrollments, Modes
  <2>2. Wiped(mem) = [mem EXCEPT !.claim = 0, !.mode = "standalone", !.consent = FALSE]
    BY DEF Wiped
  <2>3. Wiped(mem) \in States
    BY <1>1, <2>1, <2>2 DEF States
  <2>4. Wiped(mem).pending = mem.pending /\ Wiped(mem).action = mem.action
    BY <1>1, <2>2 DEF States
  <2>5. Wiped(mem).claim = 0 /\ Wiped(mem).consent = FALSE
    BY <1>1, <2>2 DEF States
  <2> QED
    BY <2>3, <2>4, <2>5
<1>3. MemOK(Wiped(mem), owed, withdrawn, disowned)
  BY <1>0, <1>2 DEF MemOK
<1>4. /\ MemWiped \in States /\ MemWiped.pending /\ MemWiped.action = mem.action
      /\ MemOK(MemWiped, owed, withdrawn, disowned) /\ (Wipes => MemWiped.claim = 0)
  BY <1>0, <1>1, <1>2, <1>3 DEF MemWiped
<1>5. DiskOK(DiskWiped, owed, withdrawn, disowned)
  <2>1. "synced" \in Outcomes
    BY DEF Outcomes
  <2>2. DiskOK(WriteState(disk, Wiped(mem), "synced"), owed, withdrawn, disowned)
    BY <1>0, <1>1, <1>2, <1>3, <2>1, WriteFromMemory
  <2> QED
    BY <1>0, <2>2 DEF DiskWiped
<1>6. DiskOK(DiskRefreshed, owed, withdrawn, disowned)
  <2>1. "synced" \in Outcomes
    BY DEF Outcomes
  <2>2. mem.action >= owed
    BY <1>0, <1>1 DEF MemOK, Actions, None, SSID, Disconnect, Revocation
  <2>3. DiskOK(WriteSentinel(DiskWiped, mem.action, "synced"), owed, withdrawn, disowned)
    BY <1>0, <1>1, <1>5, <2>1, <2>2, SentinelHelps
  <2> QED
    BY <2>3 DEF DiskRefreshed
<1> QED
  BY <1>2, <1>3, <1>4, <1>5, <1>6

\* The files once state.json no longer carries the marker.
LEMMA PurgeCompletedDisks ==
  ASSUME PromiseInv, up, mem.pending
  PROVE  /\ Completed(MemWiped) \in States /\ ~Completed(MemWiped).pending
         /\ Completed(MemWiped).claim = MemWiped.claim
         /\ Completed(MemWiped).consent = MemWiped.consent
         /\ DiskOK(DiskCompleted, None, withdrawn, disowned)
         /\ DiskOK(DiskRemoved, None, withdrawn, disowned)
         /\ DiskOK(SyncDirectory(DiskRemoved), None, withdrawn, disowned \/ Wipes)
<1> DEFINE c == Completed(MemWiped)
           e == SyncDirectory(DiskRemoved)
<1>0. /\ MemWiped \in States /\ MemOK(MemWiped, owed, withdrawn, disowned)
      /\ Wipes => MemWiped.claim = 0
      /\ DiskOK(DiskRefreshed, owed, withdrawn, disowned)
  BY PurgeDisks
<1>1. /\ owed \in Actions \union {None} /\ withdrawn \in BOOLEAN /\ disowned \in BOOLEAN
      /\ Wipes \in BOOLEAN /\ None \in Actions \union {None}
  BY DEF PromiseInv, TypeOK, Wipes
<1>2. c \in States /\ c.pending = FALSE /\ c.claim = MemWiped.claim /\ c.consent = MemWiped.consent
  BY <1>0 DEF Completed, States
<1> HIDE DEF c
<1>3. MemOK(c, None, withdrawn, disowned \/ Wipes) /\ MemOK(c, None, withdrawn, disowned)
  BY <1>0, <1>2 DEF MemOK
<1>4. DiskRefreshed \in Disks /\ Coherent(DiskRefreshed) /\ "synced" \in Outcomes
  BY <1>0 DEF DiskOK, Outcomes
<1>5. DiskCompleted = WriteState(DiskRefreshed, c, "synced")
  BY DEF DiskCompleted, c
<1>6. DiskOK(DiskCompleted, None, withdrawn, disowned)
  BY <1>1, <1>2, <1>3, <1>4, <1>5, WriteSynced
<1>7. DiskCompleted.stateMaybe = {c} /\ DiskCompleted \in Disks /\ Coherent(DiskCompleted)
  BY <1>2, <1>4, <1>5, WriteStateEffect
<1>8. /\ DiskRemoved \in Disks /\ DiskRemoved.stateMaybe = {c} /\ DiskRemoved.state = c
      /\ DiskRemoved.sentinel = None /\ Coherent(DiskRemoved)
  BY <1>7 DEF DiskRemoved, Disks, Coherent
<1>9. \A a \in Actions \union {None} :
        Covered(c, a, None, withdrawn, disowned) /\ Covered(c, a, None, withdrawn, disowned \/ Wipes)
  BY <1>1, <1>2, <1>3, MemCovered
<1>10. DiskOK(DiskRemoved, None, withdrawn, disowned)
  BY <1>8, <1>9 DEF DiskOK, Disks
<1>11. e \in Disks /\ e.stateMaybe = {c} /\ e.sentinelMaybe = {None} /\ Coherent(e)
  BY <1>8 DEF SyncDirectory, Disks, Coherent
<1>12. DiskOK(e, None, withdrawn, disowned \/ Wipes)
  BY <1>1, <1>9, <1>11 DEF DiskOK
<1> QED
  BY <1>2, <1>6, <1>10, <1>12 DEF c

----------------------------------------------------------------------------
(* Every step preserves the invariant. *)

\* The setters that keep every promise: memory and file move together.
LEMMA SetterStep ==
  ASSUME PromiseInv, up, NEW STATE s, s \in States, NEW o \in Outcomes, Commit(s, o),
         MemOK(s, owed, withdrawn, disowned),
         mem.pending => s.pending,
         s.pending => s.action \in Actions,
         UNCHANGED <<up, stale, joining, held, owed, asked, withdrawn, disowned, leaked, powerLost>>,
         locked' \in BOOLEAN, blocked' \in BOOLEAN, enrolled' \in Enrollments
  PROVE  PromiseInv'
<1>0. /\ TypeOK /\ DiskOK(disk, owed, withdrawn, disowned)
      /\ MemOK(mem, owed, withdrawn, disowned) /\ ~leaked
      /\ asked => mem.pending
      /\ mem.pending => mem.action \in Actions
  BY DEF PromiseInv
<1>1. /\ mem \in States /\ owed \in Actions \union {None}
      /\ withdrawn \in BOOLEAN /\ disowned \in BOOLEAN
  BY <1>0 DEF TypeOK
<1>2. DiskOK(disk', owed, withdrawn, disowned) /\ mem' \in {mem, s} /\ disk' \in Disks
  BY <1>0, <1>1, CommitStep
<1>3. DiskOK(disk', owed', withdrawn', disowned') /\ MemOK(mem', owed', withdrawn', disowned')
  BY <1>0, <1>2
<1>4. TypeOK'
  BY <1>0, <1>1, <1>2 DEF TypeOK
<1> QED
  BY <1>0, <1>2, <1>3, <1>4 DEF PromiseInv

\* A failed commit changes nothing; another one replaces memory.
LEMMA CommitOutcome ==
  ASSUME NEW STATE s, NEW o \in Outcomes, Commit(s, o)
  PROVE  /\ o = "failed" => mem' = mem /\ disk' = disk
         /\ o # "failed" => mem' = s
         /\ disk' = WriteState(disk, s, o)
BY DEF Commit, WriteState, Outcome

\* The two setters that end a promise: enrolling again ends "disowned", giving
\* consent ends "withdrawn".  Both are refused while a purge is pending.
LEMMA EnrollStep ==
  ASSUME PromiseInv, JoinInv, NEW o \in Outcomes, Enroll(o)
  PROVE  PromiseInv'
<1> DEFINE s == [mem EXCEPT !.claim = enrolled + 1, !.mode = "connected", !.consent = FALSE]
<1>0. /\ TypeOK /\ DiskOK(disk, owed, withdrawn, disowned)
      /\ up /\ MemOK(mem, owed, withdrawn, disowned) /\ ~leaked
      /\ ~mem.pending /\ ~asked
  BY DEF PromiseInv, JoinInv, Enroll, Running
<1>1. /\ mem \in States /\ owed = None /\ withdrawn \in BOOLEAN /\ disowned \in BOOLEAN
      /\ None \in Actions \union {None}
  BY <1>0 DEF TypeOK, MemOK
<1>2. /\ enrolled' \in Enrollments /\ enrolled' = enrolled + 1
      /\ joining' = FALSE /\ Commit(s, o) /\ disowned' = (disowned /\ o = "failed")
      /\ UNCHANGED <<up, stale, locked, blocked, held, owed, asked, withdrawn, leaked, powerLost>>
  BY <1>0, EnvironmentAssumption DEF Enroll, TypeOK, Enrollments
<1>3. s \in States
  <2>1. enrolled + 1 \in Enrollments /\ "connected" \in Modes
    BY <1>2 DEF Modes
  <2> QED
    BY <1>1, <2>1 DEF States
<1>4. s.consent = FALSE /\ s.pending = mem.pending
  BY <1>1 DEF States
<1> HIDE DEF s
<1>5. CASE o = "failed"
  <2>1. mem' = mem /\ disk' = disk /\ disowned' = disowned
    BY <1>1, <1>2, <1>5, CommitOutcome
  <2>2. TypeOK'
    BY <1>0, <1>2, <2>1 DEF TypeOK
  <2> QED
    BY <1>0, <1>2, <2>1, <2>2 DEF PromiseInv
<1>6. CASE o # "failed"
  <2>1. mem' = s /\ disowned' = FALSE
    BY <1>2, <1>6, CommitOutcome
  <2>2. DiskOK(disk, None, withdrawn, FALSE)
    BY <1>0, <1>1 DEF DiskOK, Covered
  <2>3. MemOK(s, None, withdrawn, FALSE)
    BY <1>4 DEF MemOK
  <2>4. DiskOK(disk', None, withdrawn, FALSE) /\ disk' \in Disks
    BY <1>1, <1>2, <1>3, <2>2, <2>3, CommitStep
  <2>5. TypeOK'
    BY <1>0, <1>1, <1>2, <1>3, <2>1, <2>4 DEF TypeOK
  <2>6. DiskOK(disk', owed', withdrawn', disowned') /\ MemOK(mem', owed', withdrawn', disowned')
    BY <1>1, <1>2, <2>1, <2>3, <2>4
  <2> QED
    BY <1>0, <1>2, <1>4, <2>1, <2>5, <2>6 DEF PromiseInv
<1> QED
  BY <1>5, <1>6

\* The same for consent given again.
LEMMA GrantStep ==
  ASSUME PromiseInv, NEW o \in Outcomes, GrantConsent(o)
  PROVE  PromiseInv'
<1> DEFINE s == [mem EXCEPT !.consent = TRUE]
<1>0. /\ TypeOK /\ DiskOK(disk, owed, withdrawn, disowned)
      /\ up /\ MemOK(mem, owed, withdrawn, disowned) /\ ~leaked
      /\ ~mem.pending /\ ~asked
  BY DEF PromiseInv, GrantConsent, Running
<1>1. /\ mem \in States /\ owed = None /\ withdrawn \in BOOLEAN /\ disowned \in BOOLEAN
      /\ None \in Actions \union {None}
  BY <1>0 DEF TypeOK, MemOK
<1>2. /\ Commit(s, o) /\ withdrawn' = (withdrawn /\ o = "failed")
      /\ UNCHANGED <<up, stale, joining, locked, blocked, held, enrolled, owed, asked, disowned, leaked, powerLost>>
  BY DEF GrantConsent
<1>3. s \in States /\ s.pending = mem.pending /\ s.claim = mem.claim
  BY <1>1 DEF States
<1> HIDE DEF s
<1>4. CASE o = "failed"
  <2>1. mem' = mem /\ disk' = disk /\ withdrawn' = withdrawn
    BY <1>1, <1>2, <1>4, CommitOutcome
  <2>2. TypeOK'
    BY <1>0, <1>2, <2>1 DEF TypeOK
  <2> QED
    BY <1>0, <1>2, <2>1, <2>2 DEF PromiseInv
<1>5. CASE o # "failed"
  <2>1. mem' = s /\ withdrawn' = FALSE
    BY <1>2, <1>5, CommitOutcome
  <2>2. DiskOK(disk, None, FALSE, disowned)
    BY <1>0, <1>1 DEF DiskOK, Covered
  <2>3. MemOK(s, None, FALSE, disowned)
    BY <1>0, <1>3 DEF MemOK
  <2>4. DiskOK(disk', None, FALSE, disowned) /\ disk' \in Disks
    BY <1>1, <1>2, <1>3, <2>2, <2>3, CommitStep
  <2>5. TypeOK'
    BY <1>0, <1>1, <1>2, <1>3, <2>1, <2>4 DEF TypeOK
  <2>6. DiskOK(disk', owed', withdrawn', disowned') /\ MemOK(mem', owed', withdrawn', disowned')
    BY <1>1, <1>2, <2>1, <2>3, <2>4
  <2> QED
    BY <1>0, <1>2, <1>3, <2>1, <2>5, <2>6 DEF PromiseInv
<1> QED
  BY <1>4, <1>5

\* Whatever a power loss leaves of the two files, Open continues from it.
LEMMA OpenStep ==
  ASSUME PromiseInv, NEW o \in Outcomes, Open(o)
  PROVE  PromiseInv'
<1> DEFINE s == Recovered(disk.state, disk.sentinel)
<1>0. /\ TypeOK /\ DiskOK(disk, owed, withdrawn, disowned) /\ ~leaked /\ ~asked
      /\ disk \in Disks /\ Coherent(disk)
  BY DEF PromiseInv, Open, DiskOK
<1>1. /\ mem \in States /\ owed \in Actions \union {None}
      /\ withdrawn \in BOOLEAN /\ disowned \in BOOLEAN
      /\ disk.state \in States /\ disk.sentinel \in Actions \union {None}
  BY <1>0 DEF TypeOK, Disks
<1>2. /\ up' = (o = "synced") /\ Commit(s, o)
      /\ UNCHANGED <<stale, joining, locked, blocked, held, enrolled, owed, asked, withdrawn, disowned, leaked, powerLost>>
  BY DEF Open, ghosts
<1>3. s \in States /\ s.claim = disk.state.claim
  BY <1>1, RecoveredEffect
<1>4. MemOK(s, owed, withdrawn, disowned)
  <2>1. Covered(disk.state, disk.sentinel, owed, withdrawn, disowned)
    BY <1>0 DEF DiskOK, Coherent
  <2> QED
    BY <1>3, <2>1 DEF Covered, MemOK
<1>5. s.pending => s.action \in Actions
  BY <1>1, RecoveredPending
<1> HIDE DEF s
<1>6. DiskOK(disk', owed, withdrawn, disowned) /\ mem' \in {mem, s} /\ disk' \in Disks
  BY <1>0, <1>1, <1>2, <1>3, <1>4, CommitStep
<1>7. up' => mem' = s
  BY <1>2, CommitOutcome
<1>8. TypeOK'
  BY <1>0, <1>1, <1>2, <1>3, <1>6 DEF TypeOK
<1>9. /\ DiskOK(disk', owed', withdrawn', disowned')
      /\ up' => MemOK(mem', owed', withdrawn', disowned')
  BY <1>2, <1>4, <1>6, <1>7
<1> QED
  BY <1>0, <1>2, <1>5, <1>7, <1>8, <1>9 DEF PromiseInv

\* Every place the cleanup can return keeps what is promised; the promise
\* itself ends once data and credentials are gone.
LEMMA PurgeStep ==
  ASSUME PromiseInv,
         \/ PurgeClearFails \/ PurgeRemoveFails \/ PurgeDone
         \/ \E o \in Errors : PurgeWipeFails(o) \/ PurgeRefreshFails(o) \/ PurgeCommitFails(o)
  PROVE  PromiseInv'
<1>0. /\ TypeOK /\ DiskOK(disk, owed, withdrawn, disowned) /\ up /\ mem.pending
      /\ MemOK(mem, owed, withdrawn, disowned) /\ ~leaked /\ mem.action \in Actions
      /\ (asked => mem.pending)
  BY DEF PromiseInv, PurgeClearFails, PurgeWipeFails, PurgeRefreshFails, PurgeCommitFails,
         PurgeRemoveFails, PurgeDone, PurgeReturns
<1>1. /\ mem \in States /\ owed \in Actions \union {None} /\ held \subseteq Telemetry
      /\ withdrawn \in BOOLEAN /\ disowned \in BOOLEAN /\ blocked \in BOOLEAN
      /\ asked \in BOOLEAN /\ leaked \in BOOLEAN /\ enrolled \in Enrollments
  BY <1>0 DEF TypeOK
<1>2. /\ MemWiped \in States /\ MemWiped.pending /\ MemWiped.action = mem.action
      /\ Wiped(mem) \in States /\ Wiped(mem).pending /\ Wiped(mem).action = mem.action
      /\ MemOK(Wiped(mem), owed, withdrawn, disowned)
      /\ MemOK(MemWiped, owed, withdrawn, disowned)
      /\ Wipes => MemWiped.claim = 0
      /\ DiskOK(DiskWiped, owed, withdrawn, disowned)
      /\ DiskOK(DiskRefreshed, owed, withdrawn, disowned)
  BY <1>0, PurgeDisks
<1>3. /\ Completed(MemWiped) \in States /\ ~Completed(MemWiped).pending
      /\ Completed(MemWiped).claim = MemWiped.claim
      /\ Completed(MemWiped).consent = MemWiped.consent
      /\ DiskOK(DiskCompleted, None, withdrawn, disowned)
      /\ DiskOK(DiskRemoved, None, withdrawn, disowned)
      /\ DiskOK(SyncDirectory(DiskRemoved), None, withdrawn, disowned \/ Wipes)
  BY <1>0, PurgeCompletedDisks
<1>4. MemOK(MemWiped, None, withdrawn, disowned)
  BY <1>2 DEF MemOK
<1>5. Errors \subseteq Outcomes /\ None \in Actions \union {None}
  BY DEF Errors, Outcomes
<1>6. ASSUME NEW ow \in {owed, None}, UNCHANGED <<up, stale, joining, enrolled, withdrawn, leaked, powerLost, blocked, asked>>,
             owed' = ow, held' \in {held, {}}, locked' = FALSE, disowned' = disowned,
             mem' \in States, mem'.pending, mem'.action = mem.action,
             DiskOK(disk', ow, withdrawn, disowned), MemOK(mem', ow, withdrawn, disowned)
      PROVE  PromiseInv'
  <2>1. disk' \in Disks
    BY <1>6 DEF DiskOK
  <2>2. TypeOK'
    BY <1>0, <1>1, <1>6, <2>1 DEF TypeOK
  <2> QED
    BY <1>0, <1>6, <2>2 DEF PromiseInv
<1>7. CASE PurgeClearFails
  BY <1>0, <1>1, <1>6, <1>7 DEF PurgeClearFails, PurgeReturns
<1>8. ASSUME NEW o \in Errors, PurgeWipeFails(o) PROVE PromiseInv'
  <2>1. Commit(Wiped(mem), o) /\ PurgeReturns(TRUE, FALSE) /\ UNCHANGED <<blocked, asked, disowned>>
    BY <1>8 DEF PurgeWipeFails
  <2>2. DiskOK(disk', owed, withdrawn, disowned) /\ mem' \in {mem, Wiped(mem)}
    BY <1>0, <1>1, <1>2, <1>5, <2>1, CommitStep
  <2> QED
    BY <1>0, <1>1, <1>2, <1>6, <2>1, <2>2 DEF PurgeReturns
<1>9. ASSUME NEW o \in Errors, PurgeRefreshFails(o) PROVE PromiseInv'
  <2>1. /\ mem' = MemWiped /\ disk' = WriteSentinel(DiskWiped, mem.action, o)
        /\ PurgeReturns(TRUE, TRUE) /\ UNCHANGED <<blocked, asked, disowned>>
    BY <1>9 DEF PurgeRefreshFails
  <2>2. DiskOK(DiskWiped, None, withdrawn, disowned)
    BY <1>1, <1>2, DiskOKWeaker
  <2>3. mem.action >= None
    BY <1>0 DEF Actions, None, SSID, Disconnect, Revocation
  <2>4. DiskOK(disk', None, withdrawn, disowned)
    BY <1>0, <1>1, <1>5, <2>1, <2>2, <2>3, SentinelHelps
  <2> QED
    BY <1>2, <1>4, <1>6, <2>1, <2>4 DEF PurgeReturns
<1>10. ASSUME NEW o \in Errors, PurgeCommitFails(o) PROVE PromiseInv'
  <2>1. /\ mem' = MemWiped /\ disk' = WriteState(DiskRefreshed, Completed(MemWiped), o)
        /\ PurgeReturns(TRUE, TRUE) /\ UNCHANGED <<blocked, asked, disowned>>
    BY <1>10 DEF PurgeCommitFails
  <2>2. DiskOK(DiskRefreshed, None, withdrawn, disowned)
    BY <1>1, <1>2, DiskOKWeaker
  <2>3. MemOK(Completed(MemWiped), None, withdrawn, disowned)
    BY <1>3, <1>4 DEF MemOK
  <2>4. DiskOK(disk', None, withdrawn, disowned)
    BY <1>1, <1>3, <1>5, <2>1, <2>2, <2>3, WriteFromMemory
  <2> QED
    BY <1>2, <1>4, <1>6, <2>1, <2>4 DEF PurgeReturns
<1>11. CASE PurgeRemoveFails
  BY <1>2, <1>3, <1>4, <1>6, <1>11 DEF PurgeRemoveFails, PurgeReturns
<1>12. CASE PurgeDone
  <2>1. /\ mem' = Completed(MemWiped) /\ disk' = SyncDirectory(DiskRemoved)
        /\ blocked' = FALSE /\ asked' = FALSE /\ disowned' = (disowned \/ Wipes)
        /\ owed' = None /\ held' = {} /\ locked' = FALSE
        /\ UNCHANGED <<up, stale, joining, enrolled, withdrawn, leaked, powerLost>>
    BY <1>12 DEF PurgeDone, PurgeReturns
  <2>2. disk' \in Disks
    BY <1>3, <2>1 DEF DiskOK
  <2>3. TypeOK'
    BY <1>0, <1>1, <1>3, <1>5, <2>1, <2>2 DEF TypeOK, Wipes
  <2>4. DiskOK(disk', owed', withdrawn', disowned')
    BY <1>3, <2>1
  <2>5. MemOK(mem', owed', withdrawn', disowned')
    BY <1>2, <1>3, <1>4, <2>1 DEF MemOK
  <2> QED
    BY <1>0, <1>3, <2>1, <2>3, <2>4, <2>5 DEF PromiseInv
<1> QED
  BY <1>7, <1>8, <1>9, <1>10, <1>11, <1>12

\* set_mode and the setters outside the purge leave marker, consent and claim
\* alone.
LEMMA OtherSetterStep ==
  ASSUME PromiseInv, NEW o \in Outcomes,
         Rewrite(o) \/ \E m \in {"standalone", "connected"} : SetMode(m, o)
  PROVE  PromiseInv'
<1>0. /\ up /\ mem \in States /\ MemOK(mem, owed, withdrawn, disowned)
      /\ (mem.pending => mem.action \in Actions) /\ enrolled \in Enrollments
      /\ locked \in BOOLEAN /\ blocked \in BOOLEAN
  BY DEF PromiseInv, TypeOK, Rewrite, SetMode, Running
<1>1. CASE Rewrite(o)
  BY <1>0, <1>1, SetterStep DEF Rewrite, ghosts
<1>2. ASSUME NEW m \in {"standalone", "connected"}, SetMode(m, o) PROVE PromiseInv'
  <2> DEFINE s == [mem EXCEPT !.mode = m]
  <2>1. m \in Modes
    BY DEF Modes
  <2>2. s \in States
    BY <1>0, <2>1 DEF States
  <2>3. /\ s.pending = mem.pending /\ s.action = mem.action
        /\ s.claim = mem.claim /\ s.consent = mem.consent
    BY <1>0 DEF States
  <2>4. Commit(s, o) /\ UNCHANGED <<up, stale, joining, locked, blocked, held, enrolled, ghosts>>
    BY <1>2 DEF SetMode
  <2> HIDE DEF s
  <2>5. MemOK(s, owed, withdrawn, disowned)
    BY <1>0, <2>3 DEF MemOK
  <2> QED
    BY <1>0, <2>2, <2>3, <2>4, <2>5, SetterStep DEF ghosts
<1> QED
  BY <1>1, <1>2

\* A first start honours everything: nothing is promised.
LEMMA PromiseInit == Init => PromiseInv
<1> SUFFICES ASSUME Init PROVE PromiseInv
  OBVIOUS
<1>1. 0 \in Enrollments /\ FirstState \in States
  BY EnvironmentAssumption DEF Enrollments, FirstState, States, Modes, None
<1>2. /\ disk \in Disks /\ Coherent(disk)
  BY <1>1 DEF Init, Disks, Coherent
<1>3. TypeOK
  BY <1>1, <1>2 DEF Init, TypeOK
<1>4. FirstState.pending = FALSE /\ FirstState.consent = FALSE
  BY DEF FirstState
<1>5. DiskOK(disk, owed, withdrawn, disowned)
  BY <1>2 DEF Init, DiskOK, Covered
<1> QED
  BY <1>3, <1>4, <1>5 DEF Init, PromiseInv, MemOK

\* The invariant is inductive.
LEMMA PromiseStep == PromiseInv /\ JoinInv /\ [Next]_vars => PromiseInv'
<1> SUFFICES ASSUME PromiseInv, JoinInv, [Next]_vars PROVE PromiseInv'
  OBVIOUS
<1>0. /\ TypeOK /\ DiskOK(disk, owed, withdrawn, disowned) /\ ~leaked
      /\ (up => MemOK(mem, owed, withdrawn, disowned) /\ (asked => mem.pending))
      /\ (up /\ mem.pending => mem.action \in Actions) /\ (~up => ~asked)
  BY DEF PromiseInv
<1>1. ASSUME NEW o \in Outcomes,
             \/ Enroll(o) \/ GrantConsent(o) \/ Rewrite(o) \/ Open(o)
             \/ \E m \in {"standalone", "connected"} : SetMode(m, o)
      PROVE  PromiseInv'
  BY <1>1, EnrollStep, GrantStep, OtherSetterStep, OpenStep
<1>2. ASSUME NEW o1 \in Outcomes, NEW o2 \in Outcomes,
             \/ WithdrawConsent(o1, o2) \/ DisconnectSensor(o1, o2)
             \/ Revoke(o1, o2) \/ RetryRevoke(o1, o2)
      PROVE  PromiseInv'
  <2>1. SSID \in Actions /\ Disconnect \in Actions /\ Revocation \in Actions
    BY DEF Actions
  <2>2. PICK a \in Actions : BeginPrivacyPurge(a, o1, o2)
    BY <1>2, <2>1 DEF WithdrawConsent, DisconnectSensor, Revoke, RetryRevoke
  <2>3. up /\ locked' \in BOOLEAN /\ blocked' \in BOOLEAN
    BY <1>0, <1>2 DEF TypeOK, WithdrawConsent, DisconnectSensor, Revoke, RetryRevoke, Running
  <2> QED
    BY <2>2, <2>3, BeginStep
<1>3. CASE \/ PurgeClearFails \/ PurgeRemoveFails \/ PurgeDone
           \/ \E o \in Errors : PurgeWipeFails(o) \/ PurgeRefreshFails(o) \/ PurgeCommitFails(o)
  BY <1>3, PurgeStep
<1>4. CASE Collect
  <2>1. /\ UNCHANGED <<up, stale, joining, mem, disk, locked, blocked, enrolled, owed, asked, withdrawn, disowned, leaked, powerLost>>
        /\ held' = held \union
             {[owner |-> IF mem.mode = "connected" THEN mem.claim ELSE 0, ssid |-> mem.consent]}
    BY <1>4 DEF Collect, ghosts
  <2>2. mem.claim \in Enrollments /\ mem.consent \in BOOLEAN /\ 0 \in Enrollments
    BY <1>0, EnvironmentAssumption DEF TypeOK, States, Enrollments
  <2>3. held' \subseteq Telemetry
    BY <1>0, <2>1, <2>2 DEF TypeOK, Telemetry
  <2>4. TypeOK'
    BY <1>0, <2>1, <2>3 DEF TypeOK
  <2> QED
    BY <1>0, <2>1, <2>4 DEF PromiseInv
<1>5. CASE Send
  <2>1. /\ up /\ ~mem.pending /\ leaked' = (leaked \/ asked \/ owed # None)
        /\ UNCHANGED <<up, stale, joining, mem, disk, locked, blocked, held, enrolled, owed, asked, withdrawn, disowned, powerLost>>
    BY <1>5 DEF Send, MaySend, Running
  <2>2. ~asked /\ owed = None
    BY <1>0, <2>1 DEF MemOK
  <2>3. leaked' = FALSE
    BY <1>0, <2>1, <2>2
  <2>4. TypeOK'
    BY <1>0, <2>1, <2>3 DEF TypeOK
  <2> QED
    BY <1>0, <2>1, <2>3, <2>4 DEF PromiseInv
<1>6. CASE Crash
  <2>1. TypeOK'
    BY <1>0, <1>6 DEF Crash, TypeOK
  <2> QED
    BY <1>0, <1>6, <2>1 DEF Crash, PromiseInv
<1>7. CASE PowerLoss
  <2>1. PICK s \in disk.stateMaybe, a \in disk.sentinelMaybe :
          disk' = [state |-> s, stateMaybe |-> {s}, sentinel |-> a, sentinelMaybe |-> {a}]
    BY <1>7 DEF PowerLoss
  <2>2. disk' \in Disks
    BY <1>0, <2>1 DEF DiskOK, Disks
  <2>3. DiskOK(disk', owed, withdrawn, disowned)
    BY <1>0, <2>1, <2>2 DEF DiskOK, Coherent
  <2>4. TypeOK'
    BY <1>0, <1>7, <2>2 DEF PowerLoss, TypeOK
  <2> QED
    BY <1>0, <1>7, <2>3, <2>4 DEF PowerLoss, PromiseInv
<1>8. CASE SeeMarker \/ PurgeStale
  <2>1. /\ UNCHANGED <<up, joining, mem, disk, locked, enrolled, owed, asked, withdrawn, disowned, leaked, powerLost>>
        /\ stale' \in BOOLEAN /\ blocked' \in BOOLEAN /\ held' \subseteq Telemetry
    BY <1>0, <1>8 DEF SeeMarker, PurgeStale, ghosts, TypeOK
  <2>2. TypeOK'
    BY <1>0, <2>1 DEF TypeOK
  <2> QED
    BY <1>0, <2>1, <2>2 DEF PromiseInv
<1>9. CASE UNCHANGED vars
  BY <1>0, <1>9 DEF vars, ghosts, PromiseInv, TypeOK
<1>10. CASE EnrollBegin \/ EnrollFails
  <2>1. /\ UNCHANGED <<up, stale, mem, disk, locked, blocked, held, enrolled, owed, asked, withdrawn,
                       disowned, leaked, powerLost>>
        /\ joining' \in BOOLEAN
    BY <1>10 DEF EnrollBegin, EnrollFails, ghosts
  <2>2. TypeOK'
    BY <1>0, <2>1 DEF TypeOK
  <2> QED
    BY <1>0, <2>1, <2>2 DEF PromiseInv
<1> QED
  BY <1>1, <1>2, <1>3, <1>4, <1>5, <1>6, <1>7, <1>8, <1>9, <1>10 DEF Next

LEMMA JoinInit == Init => JoinInv
  BY DEF Init, JoinInv

\* A connect under way is not overtaken by a purge.
LEMMA JoinStep == PromiseInv /\ JoinInv /\ [Next]_vars => JoinInv'
<1> SUFFICES ASSUME PromiseInv, JoinInv, [Next]_vars PROVE JoinInv'
  OBVIOUS
<1>0. /\ mem \in States /\ (blocked => up /\ mem.pending)
      /\ (joining => up /\ ~mem.pending /\ mem.claim = 0)
  BY DEF PromiseInv, TypeOK, JoinInv
\* A setter keeps marker and claim
<1>1. ASSUME NEW s, NEW o, Commit(s, o), s.pending = mem.pending,
             joining' = joining => s.claim = mem.claim,
             up, UNCHANGED <<up, blocked>>, joining' \in {joining, FALSE}
      PROVE  JoinInv'
  <2>1. mem'.pending = mem.pending /\ up'
    BY <1>1 DEF Commit
  <2>2. CASE joining' = joining
    <3>1. mem'.claim = mem.claim
      BY <1>1, <2>2 DEF Commit
    <3> QED
      BY <1>0, <1>1, <2>1, <2>2, <3>1 DEF JoinInv
  <2>3. CASE joining' = FALSE
    BY <1>0, <1>1, <2>1, <2>3 DEF JoinInv
  <2> QED
    BY <1>1, <2>2, <2>3
<1>2. ASSUME NEW o \in Outcomes, Enroll(o) PROVE JoinInv'
  BY <1>0, <1>1, <1>2 DEF Enroll, Running, States
<1>3. ASSUME NEW o \in Outcomes, GrantConsent(o) PROVE JoinInv'
  BY <1>0, <1>1, <1>3 DEF GrantConsent, Running, States
<1>4. ASSUME NEW o \in Outcomes, NEW m, SetMode(m, o) PROVE JoinInv'
  BY <1>0, <1>1, <1>4 DEF SetMode, Running, States
<1>5. ASSUME NEW o \in Outcomes, Rewrite(o) PROVE JoinInv'
  BY <1>0, <1>1, <1>5 DEF Rewrite
<1>6. ASSUME NEW o \in Outcomes, Open(o) PROVE JoinInv'
  BY <1>0, <1>6 DEF Open, JoinInv
<1>7. ASSUME NEW o1 \in Outcomes, NEW o2 \in Outcomes, NEW a \in Actions,
             BeginPrivacyPurge(a, o1, o2), ~joining, up
      PROVE  JoinInv'
  <2>1. mem'.pending /\ joining' = joining /\ up'
    BY <1>0, <1>7, BegunEffect DEF BeginPrivacyPurge
  <2> QED
    BY <1>7, <2>1 DEF JoinInv
<1>8. ASSUME NEW o1 \in Outcomes, NEW o2 \in Outcomes,
             \/ WithdrawConsent(o1, o2) \/ DisconnectSensor(o1, o2)
             \/ Revoke(o1, o2) \/ RetryRevoke(o1, o2)
      PROVE  JoinInv'
  <2>1. ~joining /\ up
    BY <1>0, <1>8 DEF WithdrawConsent, DisconnectSensor, Revoke, RetryRevoke, Running, MaySend
  <2>2. SSID \in Actions /\ Disconnect \in Actions /\ Revocation \in Actions
    BY DEF Actions
  <2> QED
    BY <1>7, <1>8, <2>1, <2>2 DEF WithdrawConsent, DisconnectSensor, Revoke, RetryRevoke
<1>9. CASE \/ PurgeClearFails \/ PurgeRemoveFails \/ PurgeDone
           \/ \E o \in Errors : PurgeWipeFails(o) \/ PurgeRefreshFails(o) \/ PurgeCommitFails(o)
  <2>1. mem.pending /\ up /\ UNCHANGED <<up, joining>>
    BY <1>9 DEF PurgeClearFails, PurgeRemoveFails, PurgeDone, PurgeWipeFails,
                PurgeRefreshFails, PurgeCommitFails, PurgeReturns
  <2>2. ~joining'
    BY <1>0, <2>1
  <2>3. Wiped(mem).pending = mem.pending /\ MemWiped.pending = mem.pending
    BY <1>0 DEF Wiped, MemWiped, States
  <2>4. blocked' = FALSE \/ mem'.pending
    BY <1>9, <2>1, <2>3 DEF PurgeClearFails, PurgeRemoveFails, PurgeDone, PurgeWipeFails,
                PurgeRefreshFails, PurgeCommitFails, Commit
  <2> QED
    BY <2>1, <2>2, <2>4 DEF JoinInv
<1>10. CASE Collect \/ Send \/ SeeMarker \/ PurgeStale \/ EnrollBegin \/ EnrollFails
  BY <1>0, <1>10 DEF Collect, Send, SeeMarker, PurgeStale, EnrollBegin, EnrollFails, Running, JoinInv
<1>11. CASE Crash \/ PowerLoss
  BY <1>11 DEF Crash, PowerLoss, JoinInv
<1>12. CASE UNCHANGED vars
  BY <1>12 DEF vars, JoinInv
<1> QED
  BY <1>2, <1>3, <1>4, <1>5, <1>6, <1>8, <1>9, <1>10, <1>11, <1>12 DEF Next

\* The invariant states the promises.
LEMMA PromisesFollow ==
  ASSUME PromiseInv
  PROVE  /\ TypeOK /\ IntentSurvives /\ NothingSentAfterWithdrawal
         /\ ConsentStaysWithdrawn /\ CredentialsStayWiped
<1>1. /\ Coherent(disk)
      /\ \A s \in disk.stateMaybe, a \in disk.sentinelMaybe :
           Covered(s, a, owed, withdrawn, disowned)
  BY DEF PromiseInv, DiskOK
<1>2. IntentSurvives /\ ConsentStaysWithdrawn
  BY <1>1 DEF Covered, IntentSurvives, ConsentStaysWithdrawn
<1>3. CredentialsStayWiped
  BY <1>1 DEF PromiseInv, Coherent, Covered, MemOK, CredentialsStayWiped
<1> QED
  BY <1>2, <1>3 DEF PromiseInv, NothingSentAfterWithdrawal

\* What BeginPrivacyPurge reported survives every crash and power loss, a recorded
\* withdrawal is not undone, and wiped credentials do not come back: over any
\* number of enrollments and any sequence of failing, unsynced and durable writes.
THEOREM PurgePromises ==
  Spec => [](TypeOK /\ IntentSurvives /\ ConsentStaysWithdrawn /\ CredentialsStayWiped)
<1>1. PromiseInv => TypeOK /\ IntentSurvives /\ ConsentStaysWithdrawn /\ CredentialsStayWiped
  BY PromisesFollow
<1> QED
  BY <1>1, PromiseInit, PromiseStep, JoinInit, JoinStep, PTL DEF Spec

\* From the moment a purge is asked for until its cleanup is complete nothing leaves
\* the process, also when the marker could not be written to either file.
THEOREM NothingSent == Spec => []NothingSentAfterWithdrawal
<1>1. PromiseInv => NothingSentAfterWithdrawal
  BY PromisesFollow
<1> QED
  BY <1>1, PromiseInit, PromiseStep, JoinInit, JoinStep, PTL DEF Spec

\* While a purge is pending no request, retry, failing cleanup step or setter
\* makes it weaker.
THEOREM PurgeNeverDowngraded == Spec => NeverDowngraded
<1> DEFINE Monotone == up /\ up' /\ mem.pending /\ mem'.pending => mem'.action >= mem.action
<1>1. PromiseInv /\ JoinInv /\ [Next]_vars => [Monotone]_vars
  <2> SUFFICES ASSUME PromiseInv, JoinInv, Next, up, up', mem.pending, mem'.pending
               PROVE  mem'.action >= mem.action
    BY DEF vars
  <2>0. /\ mem \in States /\ mem.action \in Actions /\ mem.action \in Int
    BY DEF PromiseInv, TypeOK, Actions, None, SSID, Disconnect, Revocation
  <2>1. ASSUME NEW a \in Actions, NEW o1, NEW o2, BeginPrivacyPurge(a, o1, o2)
        PROVE  mem'.action >= mem.action
    BY <2>0, <2>1, BegunEffect DEF BeginPrivacyPurge
  <2>2. /\ MemWiped.action = mem.action /\ Wiped(mem).action = mem.action
    BY PurgeDisks
  <2>3. ASSUME NEW s, NEW o, Commit(s, o), s.action = mem.action
        PROVE  mem'.action >= mem.action
    BY <2>0, <2>3 DEF Commit
  <2>4. ASSUME mem' = mem \/ mem' = MemWiped
        PROVE  mem'.action >= mem.action
    BY <2>0, <2>2, <2>4
  <2>5. ASSUME NEW o \in Outcomes,
               \/ Enroll(o) \/ GrantConsent(o) \/ Rewrite(o) \/ Open(o)
               \/ \E m \in {"standalone", "connected"} : SetMode(m, o)
        PROVE  mem'.action >= mem.action
    <3>1. ASSUME NEW m, SetMode(m, o) PROVE mem'.action >= mem.action
      <4>1. [mem EXCEPT !.mode = m].action = mem.action
        BY <2>0 DEF States
      <4> QED
        BY <2>3, <3>1, <4>1 DEF SetMode
    <3>2. ~Enroll(o)
      BY DEF Enroll, JoinInv
    <3> QED
      BY <2>3, <2>5, <3>1, <3>2 DEF GrantConsent, Rewrite, Open
  <2>6. ASSUME NEW o1 \in Outcomes, NEW o2 \in Outcomes,
               \/ WithdrawConsent(o1, o2) \/ DisconnectSensor(o1, o2)
               \/ Revoke(o1, o2) \/ RetryRevoke(o1, o2)
        PROVE  mem'.action >= mem.action
    <3>1. SSID \in Actions /\ Disconnect \in Actions /\ Revocation \in Actions
      BY DEF Actions
    <3> QED
      BY <2>1, <2>6, <3>1 DEF WithdrawConsent, DisconnectSensor, Revoke, RetryRevoke
  <2>7. CASE \/ PurgeClearFails \/ PurgeRemoveFails \/ PurgeDone
             \/ \E o \in Errors : PurgeWipeFails(o) \/ PurgeRefreshFails(o) \/ PurgeCommitFails(o)
    <3>1. CASE PurgeDone
      BY <3>1, PurgeCompletedDisks DEF PurgeDone
    <3>2. CASE \E o \in Errors : PurgeWipeFails(o)
      BY <2>2, <2>3, <3>2 DEF PurgeWipeFails
    <3> QED
      BY <2>4, <2>7, <3>1, <3>2
         DEF PurgeClearFails, PurgeRemoveFails, PurgeRefreshFails, PurgeCommitFails
  <2>8. CASE \/ Collect \/ Send \/ SeeMarker \/ PurgeStale \/ Crash \/ PowerLoss
           \/ EnrollBegin \/ EnrollFails
    BY <2>4, <2>8 DEF Collect, Send, SeeMarker, PurgeStale, Crash, PowerLoss, EnrollBegin, EnrollFails
  <2> QED
    BY <2>5, <2>6, <2>7, <2>8 DEF Next
<1>2. NeverDowngraded <=> [][Monotone]_vars
  BY DEF NeverDowngraded
<1> HIDE DEF Monotone
<1> QED
  BY <1>1, <1>2, PromiseInit, PromiseStep, JoinInit, JoinStep, PTL DEF Spec

\* A running service gives an enrollment up only for a pending disconnect or
\* revocation; in particular a cleanup that was overtaken keeps its hands off
\* the credentials of the next enrollment.
THEOREM EnrollmentKept == Spec => NewEnrollmentSurvives
<1> DEFINE Kept == up /\ up' /\ mem.claim # 0 /\ mem'.claim # mem.claim =>
                     mem'.claim = 0 /\ mem.pending /\ mem.action >= Disconnect
<1>1. PromiseInv /\ JoinInv /\ [Next]_vars => [Kept]_vars
  <2> SUFFICES ASSUME PromiseInv, JoinInv, Next, up, up', mem.claim # 0, mem'.claim # mem.claim
               PROVE  mem'.claim = 0 /\ mem.pending /\ mem.action >= Disconnect
    BY DEF vars
  <2>0. mem \in States
    BY DEF PromiseInv, TypeOK
  <2>1. ASSUME NEW s, NEW o, Commit(s, o), s.claim = mem.claim PROVE FALSE
    BY <2>1 DEF Commit
  <2>2. ASSUME NEW o \in Outcomes,
               \/ Enroll(o) \/ GrantConsent(o) \/ Rewrite(o) \/ Open(o)
               \/ \E m \in {"standalone", "connected"} : SetMode(m, o)
        PROVE  FALSE
    <3>1. CASE GrantConsent(o)
      BY <2>0, <2>1, <3>1 DEF GrantConsent, States
    <3>2. ASSUME NEW m, SetMode(m, o) PROVE FALSE
      BY <2>0, <2>1, <3>2 DEF SetMode, States
    <3>3. ~Enroll(o)
      BY DEF Enroll, JoinInv
    <3> QED
      BY <2>1, <2>2, <3>1, <3>2, <3>3 DEF Rewrite, Open
  <2>3. ASSUME NEW a \in Actions, NEW o1, NEW o2, BeginPrivacyPurge(a, o1, o2) PROVE FALSE
    BY <2>0, <2>3, BegunEffect DEF BeginPrivacyPurge
  <2>4. ASSUME NEW o1 \in Outcomes, NEW o2 \in Outcomes,
               \/ WithdrawConsent(o1, o2) \/ DisconnectSensor(o1, o2)
               \/ Revoke(o1, o2) \/ RetryRevoke(o1, o2)
        PROVE  FALSE
    <3>1. SSID \in Actions /\ Disconnect \in Actions /\ Revocation \in Actions
      BY DEF Actions
    <3> QED
      BY <2>3, <2>4, <3>1 DEF WithdrawConsent, DisconnectSensor, Revoke, RetryRevoke
  <2>5. CASE \/ PurgeClearFails \/ PurgeRemoveFails \/ PurgeDone
             \/ \E o \in Errors : PurgeWipeFails(o) \/ PurgeRefreshFails(o) \/ PurgeCommitFails(o)
    <3>1. mem.pending
      BY <2>5 DEF PurgeClearFails, PurgeRemoveFails, PurgeDone, PurgeWipeFails,
                  PurgeRefreshFails, PurgeCommitFails, PurgeReturns
    <3>2. /\ Wiped(mem).claim = 0
          /\ Completed(MemWiped).claim = MemWiped.claim
          /\ MemWiped.claim = IF Wipes THEN 0 ELSE mem.claim
      BY <2>0 DEF Wiped, Completed, MemWiped, States
    <3>3. \/ mem'.claim = mem.claim \/ mem'.claim = MemWiped.claim
          \/ Wipes /\ mem'.claim = Wiped(mem).claim
      BY <2>5, <3>2 DEF PurgeClearFails, PurgeRemoveFails, PurgeDone, PurgeWipeFails,
                  PurgeRefreshFails, PurgeCommitFails, Commit
    <3> QED
      BY <3>1, <3>2, <3>3 DEF Wipes
  <2>6. CASE \/ Collect \/ Send \/ SeeMarker \/ PurgeStale \/ Crash \/ PowerLoss
           \/ EnrollBegin \/ EnrollFails
    BY <2>6 DEF Collect, Send, SeeMarker, PurgeStale, Crash, PowerLoss, EnrollBegin, EnrollFails
  <2> QED
    BY <2>2, <2>4, <2>5, <2>6 DEF Next
<1>2. NewEnrollmentSurvives <=> [][Kept]_vars
  BY DEF NewEnrollmentSurvives
<1> HIDE DEF Kept
<1> QED
  BY <1>1, <1>2, PromiseInit, PromiseStep, JoinInit, JoinStep, PTL DEF Spec

----------------------------------------------------------------------------
(* What is left of the telemetry, when no rename is lost.  The strengthening: *)
(* what holds for the state in memory holds for the one that a restart finds, *)
(* and the two are the same while data is collected.                          *)

Clean(s) ==
  /\ ~s.consent /\ ~s.pending => \A t \in held : ~t.ssid
  /\ ~s.pending => \A t \in held : t.owner \in {0, s.claim}
  /\ s.consent => s.claim # 0

DataInv ==
  /\ up => Clean(mem)
  /\ Clean(disk.state)
  /\ up /\ ~mem.pending => disk.state = mem

\* Only a state without a marker, beside no sentinel, is opened without one.
LEMMA RecoveredUnmarked ==
  ASSUME NEW s \in States, NEW a \in Actions \union {None}, ~Recovered(s, a).pending
  PROVE  ~s.pending /\ Recovered(s, a).consent = s.consent /\ Recovered(s, a).claim = s.claim
<1>1. a = None /\ ~s.pending /\ Recovered(s, a).claim = s.claim
  BY RecoveredEffect
<1> DEFINE m == IF s.mode = "connected" /\ s.claim = 0 THEN "setup" ELSE s.mode
           p == s.pending \/ s.action # None
           k == IF ~p THEN None ELSE Stronger(SSID, s.action)
<1>2. Recovered(s, a) = [s EXCEPT !.mode = m, !.pending = p, !.consent = s.consent /\ ~p, !.action = k]
  BY <1>1 DEF Recovered
<1> HIDE DEF m, k
<1>3. Recovered(s, a).pending = p /\ Recovered(s, a).consent = (s.consent /\ ~p)
  BY <1>2 DEF States
<1>4. s.consent \in BOOLEAN /\ p = FALSE
  BY <1>3 DEF States
<1> QED
  BY <1>1, <1>3, <1>4

\* What a replacement leaves visible.
LEMMA Visible ==
  ASSUME NEW d \in Disks, NEW s \in States, NEW a \in Actions \union {None}, NEW o \in Outcomes
  PROVE  /\ WriteState(d, s, o).state = IF o = "failed" THEN d.state ELSE s
         /\ WriteState(d, s, o).sentinel = d.sentinel
         /\ WriteSentinel(d, a, o).state = d.state
         /\ WriteState(d, s, o) \in Disks /\ WriteSentinel(d, a, o) \in Disks
BY DEF Disks, Outcomes, WriteState, WriteSentinel, Outcome, SyncDirectory

LEMMA DataStep ==
  ASSUME ~powerLost', PromiseInv, JoinInv, DataInv, [Next]_vars
  PROVE  DataInv'
<1>0. /\ mem \in States /\ disk \in Disks /\ disk.state \in States
      /\ disk.sentinel \in Actions \union {None} /\ enrolled \in Enrollments
      /\ mem' \in States /\ disk' \in Disks
  BY PromiseStep DEF PromiseInv, TypeOK, Disks
<1>s. /\ mem.pending \in BOOLEAN /\ mem.consent \in BOOLEAN /\ mem.claim \in Enrollments
  BY <1>0 DEF States
\* A step that empties the telemetry, or adds none, and keeps both states
<1>1. ASSUME UNCHANGED <<up, mem>>, disk'.state = disk.state, held' \subseteq held PROVE DataInv'
  BY <1>1 DEF DataInv, Clean
\* A setter whose state is as clean as the one in memory
<1>2. ASSUME NEW s \in States, NEW o \in Outcomes, Commit(s, o), UNCHANGED up, held' \subseteq held, up,
             Clean(s), s.pending = mem.pending
      PROVE  DataInv'
  <2>1. CASE o = "failed"
    <3>1. UNCHANGED mem /\ disk' = disk
      BY <1>2, <2>1 DEF Commit, WriteState, Outcome
    <3> QED
      BY <1>1, <1>2, <3>1
  <2>2. CASE o # "failed"
    <3>1. mem' = s /\ disk'.state = s
      BY <1>0, <1>2, <2>2, Visible DEF Commit
    <3> QED
      BY <1>2, <3>1 DEF DataInv, Clean
  <2> QED
    BY <2>1, <2>2
\* No telemetry is left
<1>3. ASSUME held' = {}, up' /\ ~mem'.pending => disk'.state = mem',
             mem'.consent => mem'.claim # 0, disk'.state.consent => disk'.state.claim # 0
      PROVE  DataInv'
  BY <1>3 DEF DataInv, Clean
<1>4. ASSUME NEW o \in Outcomes, Enroll(o) PROVE DataInv'
  <2> DEFINE s == [mem EXCEPT !.claim = enrolled + 1, !.mode = "connected", !.consent = FALSE]
  <2>1. /\ Commit(s, o) /\ UNCHANGED <<up, held>> /\ up /\ ~mem.pending /\ mem.claim = 0
        /\ enrolled < MaxEnrollments
    BY <1>4 DEF Enroll, Running, JoinInv
  <2>2. s \in States
    <3>1. enrolled + 1 \in Enrollments /\ "connected" \in Modes
      BY <1>0, <2>1, EnvironmentAssumption DEF Enrollments, Modes
    <3> QED
      BY <1>0, <3>1 DEF States
  <2>3. s.consent = FALSE /\ s.pending = mem.pending
    BY <1>0 DEF States
  <2> HIDE DEF s
  <2>4. Clean(s)
    BY <1>s, <2>1, <2>3 DEF DataInv, Clean
  <2> QED
    BY <1>2, <2>1, <2>2, <2>3, <2>4
<1>5. ASSUME NEW o \in Outcomes, GrantConsent(o) PROVE DataInv'
  <2> DEFINE s == [mem EXCEPT !.consent = TRUE]
  <2>1. Commit(s, o) /\ UNCHANGED <<up, held>> /\ up /\ ~mem.pending /\ mem.claim # 0
    BY <1>5 DEF GrantConsent, Running
  <2>2. s \in States /\ s.consent = TRUE /\ s.pending = mem.pending /\ s.claim = mem.claim
    BY <1>0 DEF States
  <2> HIDE DEF s
  <2>3. Clean(s)
    BY <1>s, <2>1, <2>2 DEF DataInv, Clean
  <2> QED
    BY <1>2, <2>1, <2>2, <2>3
<1>6. ASSUME NEW o \in Outcomes, NEW m \in {"standalone", "connected"}, SetMode(m, o) PROVE DataInv'
  <2> DEFINE s == [mem EXCEPT !.mode = m]
  <2>1. Commit(s, o) /\ UNCHANGED <<up, held>> /\ up
    BY <1>6 DEF SetMode, Running
  <2>2. s \in States /\ s.consent = mem.consent /\ s.pending = mem.pending /\ s.claim = mem.claim
    BY <1>0 DEF States, Modes
  <2> HIDE DEF s
  <2>3. Clean(s)
    BY <2>1, <2>2 DEF DataInv, Clean
  <2> QED
    BY <1>2, <2>1, <2>2, <2>3
<1>7. ASSUME NEW o \in Outcomes, Rewrite(o) PROVE DataInv'
  <2>1. Commit(mem, o) /\ UNCHANGED <<up, held>> /\ up /\ Clean(mem)
    BY <1>7 DEF Rewrite, DataInv
  <2> QED
    BY <1>0, <1>2, <2>1
<1>8. ASSUME NEW o \in Outcomes, Open(o) PROVE DataInv'
  <2> DEFINE s == Recovered(disk.state, disk.sentinel)
  <2>1. Commit(s, o) /\ UNCHANGED held /\ up' = (o = "synced")
    BY <1>8 DEF Open
  <2>2. s \in States /\ (s.consent => disk.state.consent) /\ s.claim = disk.state.claim
    BY <1>0, RecoveredEffect
  <2>3. ~s.pending => ~disk.state.pending /\ s.consent = disk.state.consent
    BY <1>0, RecoveredUnmarked
  <2> HIDE DEF s
  <2>4. Clean(s)
    BY <2>2, <2>3 DEF DataInv, Clean
  <2>5. disk'.state = IF o = "failed" THEN disk.state ELSE s
    BY <1>0, <2>1, <2>2, Visible DEF Commit
  <2>6. up' => mem' = s /\ disk'.state = s
    BY <2>1, <2>5 DEF Commit
  <2> QED
    BY <2>1, <2>4, <2>5, <2>6 DEF DataInv, Clean
<1>9. ASSUME NEW a \in Actions, NEW o1 \in Outcomes, NEW o2 \in Outcomes, BeginPrivacyPurge(a, o1, o2), up
      PROVE  DataInv'
  <2> DEFINE s == Begun(mem, a)
             d == WriteSentinel(disk, s.action, o1)
  <2>1. mem' = s /\ disk' = WriteState(d, s, o2) /\ UNCHANGED <<up, held>>
    BY <1>9 DEF BeginPrivacyPurge
  <2>2. s \in States /\ s.pending /\ ~s.consent /\ s.action \in Actions
    BY <1>0, BegunEffect
  <2> HIDE DEF s
  <2>3. d \in Disks /\ d.state = disk.state
    <3>1. disk \in Disks /\ s \in States /\ s.action \in Actions \union {None}
      BY <1>0, <2>2
    <3>2. WriteSentinel(disk, s.action, o1).state = disk.state /\ WriteSentinel(disk, s.action, o1) \in Disks
      BY ONLY <3>1, o1 \in Outcomes, Visible
    <3> QED
      BY <3>2
  <2> HIDE DEF d
  <2>4. disk'.state = IF o2 = "failed" THEN disk.state ELSE s
    BY <2>1, <2>2, <2>3, Visible
  <2> QED
    BY <2>1, <2>2, <2>4 DEF DataInv, Clean
<1>10. ASSUME NEW o1 \in Outcomes, NEW o2 \in Outcomes,
              \/ WithdrawConsent(o1, o2) \/ DisconnectSensor(o1, o2)
              \/ Revoke(o1, o2) \/ RetryRevoke(o1, o2)
       PROVE  DataInv'
  <2>1. SSID \in Actions /\ Disconnect \in Actions /\ Revocation \in Actions
    BY DEF Actions
  <2>2. up /\ \E a \in Actions : BeginPrivacyPurge(a, o1, o2)
    BY <1>10, <2>1 DEF WithdrawConsent, DisconnectSensor, Revoke, RetryRevoke, Running
  <2> QED
    BY <1>9, <2>2
<1>11. CASE \/ PurgeClearFails \/ PurgeRemoveFails \/ PurgeDone
            \/ \E o \in Errors : PurgeWipeFails(o) \/ PurgeRefreshFails(o) \/ PurgeCommitFails(o)
  <2>0. up /\ mem.pending /\ UNCHANGED up
    BY <1>11 DEF PurgeClearFails, PurgeWipeFails, PurgeRefreshFails, PurgeCommitFails,
       PurgeRemoveFails, PurgeDone, PurgeReturns
  <2>1. /\ MemWiped \in States /\ MemWiped.pending /\ Wiped(mem) \in States /\ Wiped(mem).pending
    BY <2>0, PurgeDisks
  <2>2. mem.action \in Actions /\ Errors \subseteq Outcomes /\ "synced" \in Outcomes
    BY <2>0 DEF PromiseInv, Errors, Outcomes
  <2>3. /\ Wiped(mem).consent = FALSE
        /\ mem.consent => mem.claim # 0
        /\ disk.state.consent => disk.state.claim # 0
    BY <1>0, <2>0 DEF Wiped, States, DataInv, Clean
  <2>4. MemWiped.consent => MemWiped.claim # 0
    BY <2>3 DEF MemWiped
  <2> DEFINE c == Completed(MemWiped)
  <2>5. c \in States /\ ~c.pending /\ (c.consent => c.claim # 0)
    BY <2>0, <2>4, PurgeCompletedDisks
  <2> HIDE DEF c
  <2>6. DiskWiped \in Disks /\ (DiskWiped.state.consent => DiskWiped.state.claim # 0)
    <3>1. WriteState(disk, Wiped(mem), "synced").state = Wiped(mem) /\ WriteState(disk, Wiped(mem), "synced") \in Disks
      BY <1>0, <2>1, <2>2, Visible
    <3> QED
      BY <1>0, <2>3, <3>1 DEF DiskWiped
  <2>7. DiskRefreshed \in Disks /\ DiskRefreshed.state = DiskWiped.state
    BY <2>1, <2>2, <2>6, Visible DEF DiskRefreshed
  <2>8. DiskCompleted \in Disks /\ DiskCompleted.state = c
    BY <2>2, <2>5, <2>7, Visible DEF DiskCompleted, c
  <2>9. DiskRemoved.state = c /\ SyncDirectory(DiskRemoved).state = c
    BY <2>8 DEF DiskRemoved, SyncDirectory, Disks
  <2>10. CASE PurgeClearFails
    <3>1. UNCHANGED <<up, mem, disk>> /\ held' \subseteq held
      BY <2>10 DEF PurgeClearFails, PurgeReturns
    <3> QED
      BY <1>1, <3>1
  <2>11. ASSUME NEW o \in Errors, PurgeWipeFails(o) PROVE DataInv'
    <3>1. Commit(Wiped(mem), o) /\ held' = {}
      BY <2>11 DEF PurgeWipeFails, PurgeReturns
    <3>2. mem' \in {mem, Wiped(mem)} /\ disk'.state \in {disk.state, Wiped(mem)}
      BY <1>0, <2>1, <2>2, <3>1, Visible DEF Commit
    <3> QED
      BY <1>3, <2>0, <2>1, <2>3, <3>1, <3>2
  <2>12. ASSUME NEW o \in Errors, PurgeRefreshFails(o) PROVE DataInv'
    <3>1. mem' = MemWiped /\ disk' = WriteSentinel(DiskWiped, mem.action, o) /\ held' = {}
      BY <2>12 DEF PurgeRefreshFails, PurgeReturns
    <3>2. disk'.state = DiskWiped.state
      BY <2>1, <2>2, <2>6, <3>1, Visible
    <3> QED
      BY <1>3, <2>1, <2>4, <2>6, <3>1, <3>2
  <2>13. ASSUME NEW o \in Errors, PurgeCommitFails(o) PROVE DataInv'
    <3>1. mem' = MemWiped /\ disk' = WriteState(DiskRefreshed, c, o) /\ held' = {}
      BY <2>13 DEF PurgeCommitFails, PurgeReturns, c
    <3>2. disk'.state \in {DiskWiped.state, c}
      BY <2>2, <2>5, <2>7, <3>1, Visible
    <3> QED
      BY <1>3, <2>1, <2>4, <2>5, <2>6, <3>1, <3>2
  <2>14. CASE PurgeRemoveFails
    <3>1. mem' = MemWiped /\ disk' \in {DiskCompleted, DiskRemoved} /\ held' = {}
      BY <2>14 DEF PurgeRemoveFails, PurgeReturns
    <3> QED
      BY <1>3, <2>1, <2>4, <2>5, <2>8, <2>9, <3>1
  <2>15. CASE PurgeDone
    <3>1. mem' = c /\ disk' = SyncDirectory(DiskRemoved) /\ held' = {}
      BY <2>15 DEF PurgeDone, PurgeReturns, c
    <3> QED
      BY <1>3, <2>5, <2>9, <3>1
  <2> QED
    BY <1>11, <2>10, <2>11, <2>12, <2>13, <2>14, <2>15
<1>12. CASE Collect
  <2> DEFINE new == [owner |-> IF mem.mode = "connected" THEN mem.claim ELSE 0, ssid |-> mem.consent]
  <2>1. UNCHANGED <<up, mem, disk>> /\ up /\ ~mem.pending /\ held' = held \union {new}
    BY <1>12 DEF Collect, Running
  <2>2. new.owner \in {0, mem.claim} /\ new.ssid = mem.consent
    OBVIOUS
  <2> HIDE DEF new
  <2>3. disk.state = mem /\ Clean(mem)
    BY <2>1 DEF DataInv
  <2> QED
    BY <2>1, <2>2, <2>3 DEF DataInv, Clean
<1>13. CASE Send \/ SeeMarker \/ PurgeStale \/ EnrollBegin \/ EnrollFails \/ UNCHANGED vars
  <2>1. UNCHANGED <<up, mem, disk>> /\ held' \subseteq held
    BY <1>13 DEF Send, SeeMarker, PurgeStale, EnrollBegin, EnrollFails, vars
  <2> QED
    BY <1>1, <2>1
<1>14. CASE Crash
  <2>1. up' = FALSE /\ UNCHANGED <<mem, disk, held>>
    BY <1>14 DEF Crash
  <2> QED
    BY <2>1 DEF DataInv, Clean
<1>15. CASE PowerLoss
  BY <1>15 DEF PowerLoss
<1> QED
  BY <1>4, <1>5, <1>6, <1>7, <1>8, <1>10, <1>11, <1>12, <1>13, <1>14, <1>15 DEF Next

\* A power loss is remembered.
LEMMA PowerLossStays == [Next]_vars /\ powerLost => powerLost'
<1> SUFFICES ASSUME [Next]_vars, powerLost PROVE powerLost'
  OBVIOUS
<1> QED
  BY DEF Next, vars, ghosts, Enroll, EnrollBegin, EnrollFails, GrantConsent, SetMode, Rewrite, Open,
         WithdrawConsent, DisconnectSensor, Revoke, RetryRevoke, BeginPrivacyPurge,
         PurgeWipeFails, PurgeRefreshFails, PurgeCommitFails, PurgeClearFails, PurgeRemoveFails,
         PurgeDone, PurgeReturns, SeeMarker, PurgeStale, Collect, Send, Crash, PowerLoss

LEMMA DataInit == Init => DataInv
  BY DEF Init, FirstState, DataInv, Clean

\* Without consent, and with no cleanup outstanding, no telemetry with an SSID is
\* left, wherever the process died in a cleanup and whatever could not be written.
THEOREM SSIDGone == Spec => []ConsentOffMeansClean
<1>1. PromiseInv /\ JoinInv /\ (~powerLost => DataInv) /\ [Next]_vars => (~powerLost => DataInv)'
  BY DataStep, PowerLossStays
<1>2. (~powerLost => DataInv) => ConsentOffMeansClean
  BY DEF DataInv, Clean, ConsentOffMeansClean
<1> QED
  BY <1>1, <1>2, DataInit, PromiseInit, PromiseStep, JoinInit, JoinStep, PTL DEF Spec

\* What was collected for one controller is gone before the sensor can be claimed by
\* the next one.
THEOREM QueueOwned == Spec => []QueueOwnedByEnrollment
<1>1. PromiseInv /\ JoinInv /\ (~powerLost => DataInv) /\ [Next]_vars => (~powerLost => DataInv)'
  BY DataStep, PowerLossStays
<1>2. (~powerLost => DataInv) => QueueOwnedByEnrollment
  BY DEF DataInv, Clean, QueueOwnedByEnrollment
<1> QED
  BY <1>1, <1>2, DataInit, PromiseInit, PromiseStep, JoinInit, JoinStep, PTL DEF Spec
=============================================================================
