-------------------------- MODULE QualityRunProofs --------------------------
(***************************************************************************)
(* A quality test keeps its byte limits in what it counts, and accounts    *)
(* for every byte it counts, for any limits, shares, number of streams and *)
(* answers.                                                                *)
(*                                                                         *)
(* The limit of a direction is kept because its counted, claimed, waiting  *)
(* and kept-back bytes together never exceed it, in every phase; the sums  *)
(* over slots and probes change by what one slot or probe does.            *)
(***************************************************************************)
EXTENDS QualityRun, FiniteSetTheorems, WellFoundedInduction, TLAPS

----------------------------------------------------------------------------
(* The inductive invariant. *)

\* What an idle slot or probe holds, and which transfers there are: downloads get
\* no answer to drain, and nothing is reserved before the answer.
Shaped ==
  /\ \A d \in Dirs, i \in Slots :
       /\ job[d][i].at \in {"off", "free"} => job[d][i].amount = 0
       /\ job[d][i].at # "answered" => job[d][i].held = 0
       /\ d = "down" => job[d][i].at # "answered"
  /\ \A p \in Probers : prober[p].at # "answered" => prober[p].held = 0

\* Which phases a profile has, and who may be at work in them.
Phased ==
  /\ phase \in Warm \union Load => profile = "saturation"
  /\ phase \in Mixed => profile = "household"
  /\ phase \notin Warm \union Load \union Mixed => Quiet("down") /\ Quiet("up")
  /\ phase \in {"download_warmup", "reference"} => Quiet("up")
  /\ phase \in Warm \union {"reference", "returned"} => NoProbe

\* What the transfers of a direction may still add to its counters: what an
\* upload of a load phase has sent is counted when its answer arrives.
Uncounted(d) ==
  [i \in Slots |-> IF phase \in Load /\ job[d][i].at = "answered" THEN 0 ELSE job[d][i].amount]

\* What is kept back for the bidirectional phase until it starts.
KeptBack(d) == IF phase \in {"download", "upload"} THEN both[d] ELSE 0

\* A direction's counted, claimed, unclaimed and kept bytes are within its limit.
WithinLimit ==
  profile = "saturation" =>
    \A d \in Dirs : used[d] + count[d] + left[d] + KeptBack(d) + SumFunction(Uncounted(d)) <= Limit[d]

\* Outside the load phases nothing is counted by phase or waits to be claimed.
LoadOnly == phase \notin Load => count = Zero /\ left = Zero

\* A warm-up is the first transfer of its direction.
Unspent ==
  /\ phase = "baseline" => used = Zero
  /\ phase = "download_warmup" => used["up"] = 0

QualityInv ==
  TypeOK /\ Shaped /\ Phased /\ WithinLimit /\ LoadOnly /\ Unspent /\ Accounted

----------------------------------------------------------------------------
(* Sums of functions: SumFunctionOnSet is a sum, whatever index its          *)
(* recursion picks.                                                          *)

\* A non-empty set of subsets of a finite set has a smallest one; this is what
\* carries the inductions below.
LEMMA SmallestSubset ==
  ASSUME NEW S, IsFiniteSet(S), NEW C, C \in SUBSET (SUBSET S), C # {}
  PROVE  \E V \in C : \A W \in C : ~(W \subseteq V /\ W # V)
<1>1. IsWellFoundedOn(StrictSubsetOrdering(S), FiniteSubsetsOf(S)) /\ FiniteSubsetsOf(S) = SUBSET S
  BY FS_StrictSubsetOrderingWellFounded, FS_FiniteSubsetsOfFinite
<1>2. \E V \in C : \A W \in C : ~(<<W, V>> \in StrictSubsetOrdering(S))
  BY <1>1, WFMin
<1> QED
  BY <1>2 DEF StrictSubsetOrdering

\* The function on the subsets of S that the sum over S is defined by.
Pick(s) == CHOOSE x \in s : TRUE
IsPartial(g, f, S) == g = [s \in SUBSET S |-> IF s = {} THEN 0 ELSE f[Pick(s)] + g[s \ {Pick(s)}]]
Partial(f, S) == CHOOSE g : IsPartial(g, f, S)
SumOn(f, S) == SumFunctionOnSet(f, S)

LEMMA SumIsPartial == ASSUME NEW f, NEW S PROVE SumOn(f, S) = Partial(f, S)[S]
  BY DEF SumOn, SumFunctionOnSet, FoldFunctionOnSet, MapThenFoldSet, Pick, Partial, IsPartial

\* The recursion behind a sum is well defined on every finite set.
LEMMA SumDefined ==
  ASSUME NEW f, NEW S, IsFiniteSet(S)
  PROVE  IsPartial(Partial(f, S), f, S) /\ \A s \in SUBSET S : Partial(f, S)[s] = SumOn(f, s)
<1> DEFINE Good(V) == IsPartial(Partial(f, V), f, V) /\ \A s \in SUBSET V : Partial(f, V)[s] = SumOn(f, s)
<1> DEFINE Bad == {V \in SUBSET S : ~Good(V)}
<1> HIDE DEF Good
<1>1. SUFFICES ASSUME Bad # {} PROVE FALSE
  BY DEF Good
<1>2. PICK V \in Bad : \A W \in Bad : ~(W \subseteq V /\ W # V)
  <2>1. Bad \in SUBSET (SUBSET S)
    OBVIOUS
  <2> HIDE DEF Bad
  <2> QED
    BY <1>1, <2>1, SmallestSubset
<1>3. \A W \in SUBSET V : W # V => Good(W)
  BY <1>2
<1>4. \A s : s # {} => Pick(s) \in s
  BY DEF Pick
<1>5. ASSUME NEW W \in SUBSET V, W # V
      PROVE  SumOn(f, W) = IF W = {} THEN 0 ELSE f[Pick(W)] + SumOn(f, W \ {Pick(W)})
  <2>1. IsPartial(Partial(f, W), f, W) /\ \A s \in SUBSET W : Partial(f, W)[s] = SumOn(f, s)
    BY <1>3, <1>5 DEF Good
  <2>2. Partial(f, W)[W] = IF W = {} THEN 0 ELSE f[Pick(W)] + Partial(f, W)[W \ {Pick(W)}]
    BY <2>1 DEF IsPartial
  <2> QED
    BY <2>1, <2>2
<1> DEFINE g == [s \in SUBSET V |-> IF s = {} THEN 0 ELSE f[Pick(s)] + SumOn(f, s \ {Pick(s)})]
<1>6. IsPartial(g, f, V)
  <2>1. ASSUME NEW s \in SUBSET V, s # {} PROVE g[s \ {Pick(s)}] = SumOn(f, s \ {Pick(s)})
    <3>1. s \ {Pick(s)} \in SUBSET V /\ s \ {Pick(s)} # V
      BY <1>4, <2>1
    <3> QED
      BY <1>5, <3>1
  <2> QED
    BY <2>1 DEF IsPartial
<1> HIDE DEF g
<1>7. IsPartial(Partial(f, V), f, V)
  BY <1>6 DEF IsPartial, Partial
<1>8. \A s \in SUBSET V : Partial(f, V)[s] = SumOn(f, s)
  <2> DEFINE Differ == {s \in SUBSET V : Partial(f, V)[s] # SumOn(f, s)}
  <2>1. SUFFICES ASSUME Differ # {} PROVE FALSE
    OBVIOUS
  <2>2. IsFiniteSet(V)
    BY FS_Subset
  <2>3. PICK s \in Differ : \A W \in Differ : ~(W \subseteq s /\ W # s)
    <3>1. Differ \in SUBSET (SUBSET V)
      OBVIOUS
    <3> HIDE DEF Differ
    <3> QED
      BY <2>1, <2>2, <3>1, SmallestSubset
  <2>4. s # V
    BY SumIsPartial
  <2>5. SumOn(f, s) = IF s = {} THEN 0 ELSE f[Pick(s)] + SumOn(f, s \ {Pick(s)})
    BY <1>5, <2>4
  <2>6. Partial(f, V)[s] = IF s = {} THEN 0 ELSE f[Pick(s)] + Partial(f, V)[s \ {Pick(s)}]
    BY <1>7 DEF IsPartial
  <2>7. s # {} => Partial(f, V)[s \ {Pick(s)}] = SumOn(f, s \ {Pick(s)})
    BY <1>4, <2>3
  <2> QED
    BY <2>5, <2>6, <2>7
<1> QED
  BY <1>7, <1>8 DEF Good

LEMMA SumFirst ==
  ASSUME NEW f, NEW S, IsFiniteSet(S)
  PROVE  SumOn(f, S) = IF S = {} THEN 0 ELSE f[Pick(S)] + SumOn(f, S \ {Pick(S)})
<1>1. IsPartial(Partial(f, S), f, S) /\ \A s \in SUBSET S : Partial(f, S)[s] = SumOn(f, s)
  BY SumDefined
<1>2. Partial(f, S)[S] = IF S = {} THEN 0 ELSE f[Pick(S)] + Partial(f, S)[S \ {Pick(S)}]
  BY <1>1 DEF IsPartial
<1> QED
  BY <1>1, <1>2

Sized(f, S) == IsFiniteSet(S) /\ \A r \in S : f[r] \in Nat

\* It does not matter which index is counted first.
LEMMA SumRemove ==
  ASSUME NEW f, NEW S, Sized(f, S)
  PROVE  /\ SumOn(f, S) \in Nat /\ (S = {} => SumOn(f, S) = 0)
         /\ \A x \in S : SumOn(f, S) = f[x] + SumOn(f, S \ {x})
<1> DEFINE Good(V) == SumOn(f, V) \in Nat /\ \A x \in V : SumOn(f, V) = f[x] + SumOn(f, V \ {x})
           Bad == {V \in SUBSET S : ~Good(V)}
<1> HIDE DEF Good
<1>0. SumOn(f, {}) = 0
  BY FS_EmptySet, SumFirst
<1>1. SUFFICES ASSUME Bad # {} PROVE FALSE
  BY <1>0 DEF Good
<1>2. PICK V \in Bad : \A W \in Bad : ~(W \subseteq V /\ W # V)
  <2>1. Bad \in SUBSET (SUBSET S)
    OBVIOUS
  <2> HIDE DEF Bad
  <2> QED
    BY <1>1, <2>1, SmallestSubset DEF Sized
<1>3. \A W \in SUBSET V : W # V => Good(W)
  BY <1>2
<1>4. IsFiniteSet(V) /\ \A r \in V : f[r] \in Nat
  BY FS_Subset DEF Sized
<1>5. V # {} /\ Pick(V) \in V
  <2>1. Good({})
    BY <1>0 DEF Good
  <2>2. V # {}
    BY <1>2, <2>1
  <2> QED
    BY <2>2 DEF Pick
<1> DEFINE p == Pick(V)
<1>6. SumOn(f, V) = f[p] + SumOn(f, V \ {p})
  BY <1>4, <1>5, SumFirst
<1> HIDE DEF p
<1>7. p \in V /\ f[p] \in Nat /\ Good(V \ {p})
  BY <1>3, <1>4, <1>5 DEF p
<1>8. SumOn(f, V) \in Nat
  BY <1>6, <1>7 DEF Good
<1>9. ASSUME NEW x \in V PROVE SumOn(f, V) = f[x] + SumOn(f, V \ {x})
  <2>1. CASE x = p
    BY <1>6, <2>1
  <2>2. CASE x # p
    <3>1. Good(V \ {x}) /\ p \in V \ {x} /\ x \in V \ {p}
      BY <1>3, <1>7, <2>2
    <3>2. SumOn(f, V \ {p}) = f[x] + SumOn(f, (V \ {p}) \ {x})
      BY <1>7, <3>1 DEF Good
    <3>3. SumOn(f, V \ {x}) = f[p] + SumOn(f, (V \ {x}) \ {p})
      BY <3>1 DEF Good
    <3>4. (V \ {x}) \ {p} = (V \ {p}) \ {x}
      OBVIOUS
    <3>5. Good((V \ {p}) \ {x})
      BY <1>3, <1>7
    <3>6. SumOn(f, (V \ {p}) \ {x}) \in Nat /\ f[x] \in Nat
      BY <1>4, <3>5 DEF Good
    <3>7. SumOn(f, V) = f[p] + (f[x] + SumOn(f, (V \ {p}) \ {x}))
      BY <1>6, <3>2
    <3>8. SumOn(f, V \ {x}) = f[p] + SumOn(f, (V \ {p}) \ {x})
      BY <3>3, <3>4
    <3> DEFINE b == SumOn(f, (V \ {p}) \ {x})
    <3>9. f[p] + (f[x] + b) = f[x] + (f[p] + b)
      <4> HIDE DEF b
      <4>1. b \in Nat
        BY <3>6 DEF b
      <4> QED
        BY <1>7, <3>6, <4>1
    <3> QED
      BY <3>7, <3>8, <3>9
  <2> QED
    BY <2>1, <2>2
<1> QED
  BY <1>2, <1>8, <1>9 DEF Good

\* A sum depends on what is summed only.
LEMMA SumAgree ==
  ASSUME NEW S, NEW f, NEW g, Sized(f, S), \A x \in S : f[x] = g[x]
  PROVE  SumOn(f, S) = SumOn(g, S)
<1> DEFINE Bad == {V \in SUBSET S : SumOn(f, V) # SumOn(g, V)}
<1>1. SUFFICES ASSUME Bad # {} PROVE FALSE
  OBVIOUS
<1>2. PICK V \in Bad : \A W \in Bad : ~(W \subseteq V /\ W # V)
  <2>1. Bad \in SUBSET (SUBSET S)
    OBVIOUS
  <2> HIDE DEF Bad
  <2> QED
    BY <1>1, <2>1, SmallestSubset DEF Sized
<1>3. IsFiniteSet(V)
  BY FS_Subset DEF Sized
<1>4. /\ SumOn(f, V) = IF V = {} THEN 0 ELSE f[Pick(V)] + SumOn(f, V \ {Pick(V)})
      /\ SumOn(g, V) = IF V = {} THEN 0 ELSE g[Pick(V)] + SumOn(g, V \ {Pick(V)})
  BY <1>3, SumFirst
<1>5. V # {} => Pick(V) \in V
  BY DEF Pick
<1>6. V # {} => SumOn(f, V \ {Pick(V)}) = SumOn(g, V \ {Pick(V)})
  BY <1>2, <1>5
<1> QED
  BY <1>4, <1>5, <1>6

\* When two functions differ in one place, their sums differ by as much.
LEMMA SumChange ==
  ASSUME NEW S, IsFiniteSet(S), NEW f \in [S -> Nat], NEW g \in [S -> Nat], NEW x \in S,
         \A y \in S : y # x => g[y] = f[y]
  PROVE  /\ SumFunction(f) \in Nat /\ SumFunction(g) \in Nat /\ f[x] <= SumFunction(f)
         /\ SumFunction(g) = SumFunction(f) - f[x] + g[x]
<1>1. SumFunction(f) = SumOn(f, S) /\ SumFunction(g) = SumOn(g, S)
  BY DEF SumFunction, SumOn
<1> DEFINE T == S \ {x}
<1>2. Sized(f, S) /\ Sized(g, S) /\ Sized(f, T) /\ Sized(g, T)
  BY FS_Subset DEF Sized
<1>3. SumOn(f, T) = SumOn(g, T)
  BY <1>2, SumAgree
<1>4. SumOn(f, S) = f[x] + SumOn(f, T) /\ SumOn(g, S) = g[x] + SumOn(g, T)
  BY <1>2, SumRemove
<1>5. SumOn(f, T) \in Nat /\ f[x] \in Nat /\ g[x] \in Nat
  BY <1>2, SumRemove
<1> HIDE DEF T
<1> QED
  BY <1>1, <1>3, <1>4, <1>5

\* A sum of nothing but zeros.
LEMMA SumZero ==
  ASSUME NEW S, IsFiniteSet(S), NEW f \in [S -> Nat], \A x \in S : f[x] = 0
  PROVE  SumFunction(f) = 0
<1>1. SumFunction(f) = SumOn(f, S) /\ Sized(f, S)
  BY DEF SumFunction, SumOn, Sized
<1> DEFINE Bad == {V \in SUBSET S : SumOn(f, V) # 0}
<1>2. SUFFICES ASSUME Bad # {} PROVE FALSE
  BY <1>1
<1>3. PICK V \in Bad : \A W \in Bad : ~(W \subseteq V /\ W # V)
  <2>1. Bad \in SUBSET (SUBSET S)
    OBVIOUS
  <2> HIDE DEF Bad
  <2> QED
    BY <1>2, <2>1, SmallestSubset
<1>4. IsFiniteSet(V)
  BY FS_Subset
<1>5. SumOn(f, V) = IF V = {} THEN 0 ELSE f[Pick(V)] + SumOn(f, V \ {Pick(V)})
  BY <1>4, SumFirst
<1>6. V # {} => Pick(V) \in V
  BY DEF Pick
<1>7. V # {} => SumOn(f, V \ {Pick(V)}) = 0 /\ f[Pick(V)] = 0
  BY <1>3, <1>6
<1> QED
  BY <1>5, <1>7

----------------------------------------------------------------------------
(* Budgets and sets of the model. *)

LEMMA LeastMost ==
  ASSUME NEW a \in Int, NEW b \in Int
  PROVE  /\ Least(a, b) = IF a <= b THEN a ELSE b
         /\ Most(a, b) = IF a >= b THEN a ELSE b
<1>1. \E x \in {a, b} : \A y \in {a, b} : x <= y
  OBVIOUS
<1>2. \E x \in {a, b} : \A y \in {a, b} : x >= y
  OBVIOUS
<1>3. Min({a, b}) \in {a, b} /\ \A y \in {a, b} : Min({a, b}) <= y
  BY <1>1 DEF Min
<1>4. Max({a, b}) \in {a, b} /\ \A y \in {a, b} : Max({a, b}) >= y
  BY <1>2 DEF Max
<1> QED
  BY <1>3, <1>4 DEF Least, Most

\* A share of an amount is at most as large, and half of it at most a half.
LEMMA ShareBounds ==
  ASSUME NEW n \in Nat, NEW k \in Nat \ {0}
  PROVE  n \div k \in Nat /\ n \div k <= n /\ (k > 1 => 2 * (n \div k) <= n)
<1> DEFINE q == n \div k
<1>1. q \in Int /\ n = k * q + (n % k) /\ n % k \in 0..(k - 1)
  OBVIOUS
<1> HIDE DEF q
<1>2. q >= 0
  <2> SUFFICES ASSUME q <= -1 PROVE FALSE
    BY <1>1
  <2>1. k * q <= -k
    BY <1>1
  <2> QED
    BY <1>1, <2>1
<1>3. k * q <= n
  BY <1>1
<1>4. k * q >= q /\ (k > 1 => k * q >= 2 * q)
  BY <1>1, <1>2
<1>5. q \in Nat /\ q <= n /\ (k > 1 => 2 * q <= n)
  BY <1>1, <1>2, <1>3, <1>4
<1> QED
  BY <1>5 DEF q

LEMMA Budgets ==
  /\ Capacity \in Nat /\ Bulk \in Nat /\ Capacity + Bulk = MaxDown
  /\ ProbeReserve \in Nat /\ Usable \in Nat /\ ProbeReserve <= Usable
  /\ Limit \in [Dirs -> Nat] /\ Limit["down"] = Bulk /\ Limit["up"] = MaxUp
<1>1. /\ MaxDown \in Nat /\ MaxUp \in Nat /\ ResponseReserve \in Nat /\ HouseholdReserve \in Nat
      /\ ResponseShare \in Nat \ {0} /\ ProbeShare \in Nat \ {0, 1} /\ CapBytes \in Nat
  BY QualityAssumption DEF CapBytes
<1>2. /\ MaxDown \div ResponseShare \in Nat /\ MaxDown \div ResponseShare <= MaxDown
      /\ CapBytes \div ProbeShare \in Nat /\ 2 * (CapBytes \div ProbeShare) <= CapBytes
  BY <1>1, ShareBounds
<1>3. Capacity \in Nat /\ Bulk \in Nat /\ Capacity + Bulk = MaxDown
  BY <1>1, <1>2, LeastMost DEF Capacity, Bulk
<1>4. ProbeReserve \in Nat /\ 2 * ProbeReserve <= CapBytes
  BY <1>1, <1>2, LeastMost DEF ProbeReserve
<1>5. Usable \in Nat /\ 10 * Usable + 9 >= 9 * CapBytes
  BY <1>1 DEF Usable
<1>6. ProbeReserve <= Usable
  BY <1>1, <1>4, <1>5
<1> QED
  BY <1>1, <1>3, <1>4, <1>5, <1>6 DEF Limit, Dirs

LEMMA SlotsFinite == Streams \in Nat \ {0} /\ IsFiniteSet(Slots) /\ IsFiniteSet(Probers)
<1>1. Streams \in Nat \ {0}
  BY QualityAssumption
<1>2. IsFiniteSet({"latency"} \union {"game"})
  BY FS_Singleton, FS_AddElement
<1>3. Probers = {"latency"} \union {"game"}
  BY DEF Probers
<1>4. IsFiniteSet(1..Streams)
  BY <1>1, FS_Interval
<1> QED
  BY <1>1, <1>2, <1>3, <1>4 DEF Slots

----------------------------------------------------------------------------
(* What the types say. *)

Job == [at : {"off", "free", "moving", "answered"}, amount : Nat, held : Nat]
JobTable == [Dirs -> [Slots -> Job]]
Probe == [at : {"off", "free", "answered"}, amount : {0}, held : Nat]

LEMMA Types ==
  ASSUME TypeOK
  PROVE  /\ job \in JobTable /\ prober \in [Probers -> Probe]
         /\ left \in [Dirs -> Nat] /\ block \in [Dirs -> Nat] /\ both \in [Dirs -> Nat]
         /\ count \in [Dirs -> Nat] /\ used \in [Dirs -> Nat] /\ report \in [Dirs -> Nat]
         /\ ledger \in Nat /\ resp \in [left : Nat, used : Nat]
         /\ resp.left \in Nat /\ resp.used \in Nat
  BY DEF TypeOK, JobTable, Job, Probe

\* The sums of a state are natural numbers.
LEMMA SumsNatural ==
  ASSUME TypeOK
  PROVE  /\ HeldByProbes \in [Probers -> Nat] /\ SumFunction(HeldByProbes) \in Nat
         /\ HeldByUploads \in [Slots -> Nat] /\ SumFunction(HeldByUploads) \in Nat
         /\ Claims \in [Slots -> Nat] /\ SumFunction(Claims) \in Nat
         /\ \A d \in Dirs : Uncounted(d) \in [Slots -> Nat] /\ SumFunction(Uncounted(d)) \in Nat
<1>1. /\ HeldByProbes \in [Probers -> Nat] /\ HeldByUploads \in [Slots -> Nat] /\ Claims \in [Slots -> Nat]
      /\ \A d \in Dirs : Uncounted(d) \in [Slots -> Nat]
  BY Types DEF HeldByProbes, HeldByUploads, Claims, Uncounted, JobTable, Job, Probe, Dirs
<1>2. \E i \in Slots : TRUE
  BY SlotsFinite DEF Slots
<1>3. \E p \in Probers : TRUE
  BY DEF Probers
<1>4. ASSUME NEW S, IsFiniteSet(S), NEW f \in [S -> Nat], \E x \in S : TRUE PROVE SumFunction(f) \in Nat
  BY <1>4, SumChange
<1> QED
  BY <1>1, <1>2, <1>3, <1>4, SlotsFinite

\* Nothing is claimed or reserved where everybody is idle.
LEMMA SumsIdle ==
  ASSUME TypeOK, Shaped
  PROVE  /\ NoProbe => SumFunction(HeldByProbes) = 0
         /\ Quiet("up") => SumFunction(HeldByUploads) = 0
         /\ Quiet("down") /\ Quiet("up") => SumFunction(Claims) = 0
         /\ \A d \in Dirs : Quiet(d) => SumFunction(Uncounted(d)) = 0
<1>1. NoProbe => \A p \in Probers : HeldByProbes[p] = 0
  BY DEF NoProbe, Shaped, HeldByProbes
<1>2. Quiet("up") => \A i \in Slots : HeldByUploads[i] = 0
  BY DEF Quiet, Shaped, HeldByUploads, Dirs
<1>3. Quiet("down") /\ Quiet("up") => \A i \in Slots : Claims[i] = 0
  BY DEF Quiet, Shaped, Claims, Dirs
<1>4. \A d \in Dirs : Quiet(d) => \A i \in Slots : Uncounted(d)[i] = 0
  BY DEF Quiet, Shaped, Uncounted
<1> QED
  BY <1>1, <1>2, <1>3, <1>4, SumsNatural, SlotsFinite, SumZero

----------------------------------------------------------------------------
(* Steps of one slot. *)

\* What a step of slot i may do: bytes move between the slot, the counters and the
\* budgets, and none appear.
Moves(d, i) ==
  /\ job' \in JobTable
  /\ \A e \in Dirs, k \in Slots : e # d \/ k # i => job'[e][k] = job[e][k]
  /\ job'[d][i].at \in {"off", "free"} => job'[d][i].amount = 0
  /\ job'[d][i].at # "answered" => job'[d][i].held = 0
  /\ d = "down" => job'[d][i].at # "answered"
  /\ used' \in [Dirs -> Nat] /\ count' \in [Dirs -> Nat] /\ left' \in [Dirs -> Nat]
  /\ \A e \in Dirs : e # d => used'[e] = used[e] /\ count'[e] = count[e] /\ left'[e] = left[e]
  /\ ledger' \in Nat /\ resp' \in [left : Nat, used : Nat]
  /\ exhausted' \in BOOLEAN /\ reached' \in {"none", "mix", "baseline"} /\ wire' \in Wire
  /\ UNCHANGED <<phase, ctx, over, block, probing, plan>>
  /\ resp'.left + resp'.used + job'[d][i].held = resp.left + resp.used + job[d][i].held
  /\ phase \in Mixed =>
       ledger' + used'[d] + job'[d][i].amount = ledger + used[d] + job[d][i].amount
  /\ phase \notin Mixed =>
       used'[d] + count'[d] + left'[d] + Uncounted(d)'[i] <= used[d] + count[d] + left[d] + Uncounted(d)[i]
  /\ phase \notin Load => count' = count /\ left' = left

\* Only a slot that is not off makes a step, so it is one of the phase.
LEMMA ActivePhase ==
  ASSUME Phased, NEW d \in Dirs, NEW i \in Slots, job[d][i].at # "off"
  PROVE  /\ phase \in Warm \union Load \union Mixed
         /\ phase \in {"download_warmup", "reference"} => d = "down"
  BY DEF Phased, Quiet, Dirs

LEMMA MovesSums ==
  ASSUME TypeOK, Shaped, NEW d \in Dirs, NEW i \in Slots, Moves(d, i)
  PROVE  /\ SumFunction(HeldByProbes)' = SumFunction(HeldByProbes)
         /\ SumFunction(HeldByUploads)' = SumFunction(HeldByUploads) - job[d][i].held + job'[d][i].held
         /\ SumFunction(Claims)' = SumFunction(Claims) - job[d][i].amount + job'[d][i].amount
         /\ SumFunction(Uncounted(d))' = SumFunction(Uncounted(d)) - Uncounted(d)[i] + Uncounted(d)'[i]
         /\ Uncounted(d)[i] \in Nat /\ Uncounted(d)'[i] \in Nat
         /\ \A e \in Dirs : e # d => SumFunction(Uncounted(e))' = SumFunction(Uncounted(e))
<1>0. job \in JobTable /\ job' \in JobTable /\ IsFiniteSet(Slots) /\ phase' = phase /\ prober' = prober
  BY Types, SlotsFinite DEF Moves, probing
<1>1. \A e \in Dirs, k \in Slots : e # d \/ k # i => job'[e][k] = job[e][k]
  BY DEF Moves
<1>2. HeldByProbes' = HeldByProbes
  BY <1>0 DEF HeldByProbes
<1>3. SumFunction(HeldByUploads)' = SumFunction(HeldByUploads) - job[d][i].held + job'[d][i].held
  <2> DEFINE f == HeldByUploads
             g == HeldByUploads'
  <2>1. f \in [Slots -> Nat] /\ g \in [Slots -> Nat]
    BY <1>0 DEF HeldByUploads, JobTable, Job, Dirs
  <2>2. \A k \in Slots : k # i => g[k] = f[k]
    BY <1>1 DEF HeldByUploads, Dirs
  <2>3. g[i] - f[i] = job'[d][i].held - job[d][i].held
    <3>1. d = "down" => job[d][i].held = 0 /\ job'[d][i].held = 0
      BY DEF Moves, Shaped
    <3>2. CASE d = "down"
      <4>1. g[i] = f[i] /\ f[i] \in Nat
        BY <1>1, <2>1, <3>2 DEF HeldByUploads, Dirs
      <4> QED
        BY <3>1, <3>2, <4>1
    <3>3. CASE d = "up"
      BY <3>3 DEF HeldByUploads
    <3> QED
      BY <3>2, <3>3 DEF Dirs
  <2>4. job[d][i].held \in Nat /\ job'[d][i].held \in Nat /\ f[i] \in Nat /\ g[i] \in Nat
    BY <1>0, <2>1 DEF JobTable, Job
  <2>5. SumFunction(f) \in Nat /\ SumFunction(g) = SumFunction(f) - f[i] + g[i]
    <3> HIDE DEF f, g
    <3> QED
      BY <1>0, <2>1, <2>2, SumChange
  <2>6. SumFunction(HeldByUploads)' = SumFunction(g)
    BY DEF SumFunction, SumFunctionOnSet, FoldFunctionOnSet, MapThenFoldSet
  <2> HIDE DEF f, g
  <2>7. SumFunction(g) = SumFunction(f) - job[d][i].held + job'[d][i].held
    BY <2>3, <2>4, <2>5
  <2> QED
    BY <2>6, <2>7 DEF f
<1>4. SumFunction(Claims)' = SumFunction(Claims) - job[d][i].amount + job'[d][i].amount
  <2> DEFINE f == Claims
             g == Claims'
  <2>1. f \in [Slots -> Nat] /\ g \in [Slots -> Nat]
    BY <1>0 DEF Claims, JobTable, Job, Dirs
  <2>2. \A k \in Slots : k # i => g[k] = f[k]
    BY <1>1 DEF Claims, Dirs
  <2>3. g[i] - f[i] = job'[d][i].amount - job[d][i].amount
    <3>1. \A e \in Dirs : job[e][i].amount \in Nat /\ job'[e][i].amount \in Nat
      BY <1>0 DEF JobTable, Job
    <3>2. \A e \in Dirs : e # d => job'[e][i].amount = job[e][i].amount
      BY <1>1
    <3>3. /\ f[i] = job["down"][i].amount + job["up"][i].amount
          /\ g[i] = job'["down"][i].amount + job'["up"][i].amount
      BY DEF Claims
    <3> HIDE DEF f, g
    <3> QED
      BY <3>1, <3>2, <3>3 DEF Dirs
  <2>4. job[d][i].amount \in Nat /\ job'[d][i].amount \in Nat /\ f[i] \in Nat /\ g[i] \in Nat
    BY <1>0, <2>1 DEF JobTable, Job
  <2>5. SumFunction(f) \in Nat /\ SumFunction(g) = SumFunction(f) - f[i] + g[i]
    <3> HIDE DEF f, g
    <3> QED
      BY <1>0, <2>1, <2>2, SumChange
  <2>6. SumFunction(Claims)' = SumFunction(g)
    BY DEF SumFunction, SumFunctionOnSet, FoldFunctionOnSet, MapThenFoldSet
  <2> HIDE DEF f, g
  <2>7. SumFunction(g) = SumFunction(f) - job[d][i].amount + job'[d][i].amount
    BY <2>3, <2>4, <2>5
  <2> QED
    BY <2>6, <2>7 DEF f
<1>5. ASSUME NEW e \in Dirs
      PROVE  /\ Uncounted(e) \in [Slots -> Nat] /\ Uncounted(e)' \in [Slots -> Nat]
             /\ \A k \in Slots : e # d \/ k # i => Uncounted(e)'[k] = Uncounted(e)[k]
             /\ SumFunction(Uncounted(e))' = SumFunction(Uncounted(e)) - Uncounted(e)[i] + Uncounted(e)'[i]
             /\ SumFunction(Uncounted(e)) \in Nat
  <2> DEFINE f == Uncounted(e)
             g == Uncounted(e)'
  <2>1. f \in [Slots -> Nat] /\ g \in [Slots -> Nat]
    BY <1>0 DEF Uncounted, JobTable, Job
  <2>2. \A k \in Slots : e # d \/ k # i => g[k] = f[k]
    BY <1>0, <1>1 DEF Uncounted
  <2>3. SumFunction(f) \in Nat /\ SumFunction(g) = SumFunction(f) - f[i] + g[i]
    <3>1. \A k \in Slots : k # i => g[k] = f[k]
      BY <2>2
    <3> HIDE DEF f, g
    <3> QED
      BY <1>0, <2>1, <3>1, SumChange
  <2>4. SumFunction(Uncounted(e))' = SumFunction(g)
    BY DEF SumFunction, SumFunctionOnSet, FoldFunctionOnSet, MapThenFoldSet
  <2> QED
    BY <2>1, <2>2, <2>3, <2>4
<1>6. ASSUME NEW e \in Dirs, e # d PROVE SumFunction(Uncounted(e))' = SumFunction(Uncounted(e))
  <2>1. Uncounted(e)'[i] = Uncounted(e)[i] /\ Uncounted(e)[i] \in Nat
    BY <1>5, <1>6
  <2> QED
    BY <1>5, <2>1
<1>7. SumFunction(HeldByProbes)' = SumFunction(HeldByProbes)
  BY <1>2 DEF SumFunction, SumFunctionOnSet, FoldFunctionOnSet, MapThenFoldSet
<1>8. Uncounted(d)[i] \in Nat /\ Uncounted(d)'[i] \in Nat
  BY <1>5
<1> QED
  BY <1>3, <1>4, <1>5, <1>6, <1>7, <1>8

LEMMA MovesKeep ==
  ASSUME QualityInv, NEW d \in Dirs, NEW i \in Slots, job[d][i].at # "off", Moves(d, i)
  PROVE  QualityInv'
<1> USE DEF QualityInv
<1>0. /\ phase \in Warm \union Load \union Mixed /\ (phase \in {"download_warmup", "reference"} => d = "down")
      /\ UNCHANGED <<phase, ctx, over, block, prober, probes, profile, both, stop, report>>
  BY ActivePhase DEF Moves, probing, plan
<1>1. TypeOK'
  BY <1>0 DEF TypeOK, Moves, JobTable, Job
<1>2. Shaped'
  <2>1. ASSUME NEW e \in Dirs, NEW k \in Slots
        PROVE  /\ job'[e][k].at \in {"off", "free"} => job'[e][k].amount = 0
               /\ job'[e][k].at # "answered" => job'[e][k].held = 0
               /\ e = "down" => job'[e][k].at # "answered"
    <3>1. CASE e = d /\ k = i
      BY <3>1 DEF Moves
    <3>2. CASE e # d \/ k # i
      BY <3>2 DEF Moves, Shaped
    <3> QED
      BY <3>1, <3>2
  <2> QED
    BY <1>0, <2>1 DEF Shaped
<1>3. Phased'
  <2>1. phase \in {"download_warmup", "reference"} => Quiet("up")'
    BY <1>0 DEF Phased, Quiet, Moves, Dirs
  <2>2. NoProbe' <=> NoProbe
    BY <1>0 DEF NoProbe
  <2> QED
    BY <1>0, <2>1, <2>2 DEF Phased
<1>4. LoadOnly'
  BY <1>0 DEF LoadOnly, Moves
<1>8. Unspent'
  BY <1>0 DEF Unspent, Moves, Warm, Load, Mixed, Dirs
<1> USE Types, SumsNatural, MovesSums
<1>6. WithinLimit'
  <2> SUFFICES ASSUME profile = "saturation", NEW e \in Dirs
               PROVE  used'[e] + count'[e] + left'[e] + KeptBack(e)' + SumFunction(Uncounted(e))' <= Limit[e]
    BY <1>0 DEF WithinLimit, Limit
  <2>1. used[e] + count[e] + left[e] + KeptBack(e) + SumFunction(Uncounted(e)) <= Limit[e]
    BY DEF WithinLimit
  <2>2. KeptBack(e)' = KeptBack(e) /\ KeptBack(e) \in Nat
    BY <1>0 DEF KeptBack
  <2>3. phase \notin Mixed
    BY DEF Phased
  <2>4. /\ used[e] \in Nat /\ count[e] \in Nat /\ left[e] \in Nat /\ Limit[e] \in Nat
        /\ used'[e] \in Nat /\ count'[e] \in Nat /\ left'[e] \in Nat /\ SumFunction(Uncounted(e)) \in Nat
    BY Budgets DEF Moves
  <2>5. CASE e # d
    <3>1. used'[e] = used[e] /\ count'[e] = count[e] /\ left'[e] = left[e]
      BY <2>5 DEF Moves
    <3> QED
      BY <2>1, <2>2, <2>5, <3>1
  <2>6. CASE e = d
    <3>1. used'[d] + count'[d] + left'[d] + Uncounted(d)'[i] <= used[d] + count[d] + left[d] + Uncounted(d)[i]
      BY <2>3 DEF Moves
    <3> QED
      BY <2>1, <2>2, <2>4, <2>6, <3>1
  <2> QED
    BY <2>5, <2>6
<1>7. Accounted'
  <2>0. /\ job[d][i].held \in Nat /\ job'[d][i].held \in Nat /\ job[d][i].amount \in Nat /\ job'[d][i].amount \in Nat
        /\ resp'.left \in Nat /\ resp'.used \in Nat /\ ledger' \in Nat
        /\ \A e \in Dirs : used[e] \in Nat /\ used'[e] \in Nat
    BY DEF Moves, JobTable, Job
  <2>9. /\ SumFunction(HeldByProbes) \in Nat /\ SumFunction(HeldByUploads) \in Nat /\ SumFunction(Claims) \in Nat
        /\ SumFunction(HeldByProbes)' = SumFunction(HeldByProbes)
        /\ SumFunction(HeldByUploads)' = SumFunction(HeldByUploads) - job[d][i].held + job'[d][i].held
        /\ SumFunction(Claims)' = SumFunction(Claims) - job[d][i].amount + job'[d][i].amount
    OBVIOUS
  <2>1. resp'.left + resp'.used + SumFunction(HeldByProbes)' + SumFunction(HeldByUploads)'
          = resp.left + resp.used + SumFunction(HeldByProbes) + SumFunction(HeldByUploads)
    <3>1. resp'.left + resp'.used + job'[d][i].held = resp.left + resp.used + job[d][i].held
      BY DEF Moves
    <3>2. resp.left \in Nat /\ resp.used \in Nat
      OBVIOUS
    <3> QED
      BY ONLY <2>0, <2>9, <3>1, <3>2
  <2>2. ASSUME profile = "household"
        PROVE  ledger' + used'["down"] + used'["up"] + SumFunction(Claims)'
                 = ledger + used["down"] + used["up"] + SumFunction(Claims)
    <3>1. ledger' + used'[d] + job'[d][i].amount = ledger + used[d] + job[d][i].amount
      BY <1>0, <2>2 DEF Moves, Phased
    <3>2. \A e \in Dirs : e # d => used'[e] = used[e]
      BY DEF Moves
    <3>3. ledger \in Nat
      OBVIOUS
    <3>4. used["down"] \in Nat /\ used["up"] \in Nat /\ used'["down"] \in Nat /\ used'["up"] \in Nat
      BY ONLY <2>0 DEF Dirs
    <3>5. CASE d = "down"
      <4>1. used'["up"] = used["up"] /\ used'[d] = used'["down"] /\ used[d] = used["down"]
        BY ONLY <3>2, <3>5 DEF Dirs
      <4> QED
        BY ONLY <2>0, <2>9, <3>1, <3>3, <3>4, <4>1
    <3>6. CASE d = "up"
      <4>1. used'["down"] = used["down"] /\ used'[d] = used'["up"] /\ used[d] = used["up"]
        BY ONLY <3>2, <3>6 DEF Dirs
      <4> QED
        BY ONLY <2>0, <2>9, <3>1, <3>3, <3>4, <4>1
    <3> QED
      BY <3>5, <3>6 DEF Dirs
  <2>3. ProbeReserve' = ProbeReserve /\ Capacity' = Capacity /\ Usable' = Usable
    BY DEF ProbeReserve, Capacity, Usable, CapBytes, Least
  <2> QED
    BY <1>0, <2>1, <2>2, <2>3 DEF Accounted
<1> QED
  BY <1>1, <1>2, <1>3, <1>4, <1>6, <1>7, <1>8


LEMMA Shapes ==
  /\ Off \in Job /\ Free \in Job /\ Off.at = "off" /\ Free.at = "free"
  /\ Off.amount = 0 /\ Off.held = 0 /\ Free.amount = 0 /\ Free.held = 0
  /\ Off \in Probe /\ Free \in Probe
  /\ \A n \in Nat : Moving(n) \in Job /\ Moving(n).at = "moving" /\ Moving(n).amount = n /\ Moving(n).held = 0
  BY DEF Off, Free, Moving, Job, Probe

\* One slot is set.
LEMMA SetSlot ==
  ASSUME job \in JobTable, NEW d \in Dirs, NEW i \in Slots, NEW j \in Job, job' = [job EXCEPT ![d][i] = j]
  PROVE  /\ job' \in JobTable /\ job'[d][i] = j
         /\ \A e \in Dirs, k \in Slots : e # d \/ k # i => job'[e][k] = job[e][k]
  BY DEF JobTable

\* A claim takes at most what there is, and nothing only where there is nothing.
LEMMA ClaimBounds ==
  ASSUME NEW a \in Nat, NEW m \in Nat
  PROVE  Claimed(a, m) \in Nat /\ Claimed(a, m) <= a /\ Claimed(a, m) <= m
  BY LeastMost DEF Claimed

\* A transfer moves at most what it claimed.
LEMMA PartBounds ==
  ASSUME NEW n \in Nat, NEW m \in Parts(n)
  PROVE  m \in Nat /\ m <= n
  BY DEF Parts

LEMMA ClaimMoves ==
  ASSUME QualityInv, NEW d \in Dirs, NEW i \in Slots, Claim(d, i)
  PROVE  Moves(d, i) /\ job[d][i].at # "off"
<1> USE DEF QualityInv
<1> USE Types, Shapes
<1> DEFINE n == IF Over THEN 0 ELSE Claimed(left[d], block[d])
           j == IF n = 0 THEN Off ELSE Moving(n)
<1>0. left[d] \in Nat /\ block[d] \in Nat /\ job \in JobTable
  OBVIOUS
<1>1. n \in Nat /\ n <= left[d] /\ j \in Job /\ j.amount = n /\ j.held = 0 /\ j.at \in {"off", "moving"}
  <2>1. n \in Nat /\ n <= left[d]
    BY <1>0, ClaimBounds
  <2> HIDE DEF n
  <2> QED
    BY <2>1
<1>2. /\ job' = [job EXCEPT ![d][i] = j] /\ left' = [left EXCEPT ![d] = @ - n]
      /\ phase \in Load /\ job[d][i] = Free
      /\ UNCHANGED <<phase, ctx, over, block, ledger, exhausted, count, used, reached, wire, probing, resp, plan>>
  BY DEF Claim
<1> HIDE DEF n, j
<1>3. /\ job' \in JobTable /\ job'[d][i] = j
      /\ \A e \in Dirs, k \in Slots : e # d \/ k # i => job'[e][k] = job[e][k]
  BY ONLY <1>0, <1>1, <1>2, d \in Dirs, i \in Slots DEF JobTable
<1>4. j.at \in {"off", "free"} => j.amount = 0
  BY <1>1 DEF j
<1>5. left' \in [Dirs -> Nat] /\ left'[d] = left[d] - n /\ \A e \in Dirs : e # d => left'[e] = left[e]
  BY <1>1, <1>2
<1>6. Uncounted(d)'[i] = n /\ Uncounted(d)[i] = 0
  BY <1>1, <1>2, <1>3 DEF Uncounted
<1>7. /\ exhausted' \in BOOLEAN /\ reached' \in {"none", "mix", "baseline"} /\ wire' \in Wire
  BY <1>2 DEF TypeOK
<1>8. phase \notin Mixed
  BY <1>2 DEF Load, Mixed
<1>9. resp'.left + resp'.used + job'[d][i].held = resp.left + resp.used + job[d][i].held
  BY <1>1, <1>2, <1>3
<1>10. used'[d] + count'[d] + left'[d] + Uncounted(d)'[i] <= used[d] + count[d] + left[d] + Uncounted(d)[i]
  <2>1. used'[d] = used[d] /\ count'[d] = count[d] /\ used[d] \in Nat /\ count[d] \in Nat /\ left[d] \in Nat
    BY <1>2
  <2> QED
    BY ONLY <1>1, <1>5, <1>6, <2>1
<1> QED
  BY <1>1, <1>2, <1>3, <1>4, <1>5, <1>7, <1>8, <1>9, <1>10 DEF Moves

LEMMA FinishedMoves ==
  ASSUME QualityInv, NEW d \in Dirs, NEW i \in Slots, job[d][i].at \in {"moving", "answered"},
         NEW moved \in Nat, moved <= job[d][i].amount, NEW bad, Finished(d, i, moved, bad)
  PROVE  /\ job' \in JobTable /\ job'[d][i].at \in {"off", "free"} /\ job'[d][i].amount = 0 /\ job'[d][i].held = 0
         /\ \A e \in Dirs, k \in Slots : e # d \/ k # i => job'[e][k] = job[e][k]
         /\ used' \in [Dirs -> Nat] /\ \A e \in Dirs : e # d => used'[e] = used[e]
         /\ used'[d] = IF phase \in Load THEN used[d] ELSE used[d] + moved
         /\ ledger' \in Nat
         /\ phase \in Mixed => ledger' + used'[d] = ledger + used[d] + job[d][i].amount
         /\ reached' \in {"none", "mix", "baseline"}
<1> USE DEF QualityInv
<1> USE Types, Shapes
<1>0. Off \in Job /\ Free \in Job /\ job \in JobTable /\ ledger \in Nat
  OBVIOUS
<1>1. PICK j \in {Off, Free} : job' = [job EXCEPT ![d][i] = j]
  BY DEF Finished, After
<1>2. /\ job' \in JobTable /\ job'[d][i] = j
      /\ \A e \in Dirs, k \in Slots : e # d \/ k # i => job'[e][k] = job[e][k]
  BY ONLY <1>0, <1>1, d \in Dirs, i \in Slots DEF JobTable
<1>3. job[d][i].amount \in Nat /\ used[d] \in Nat
  BY DEF JobTable, Job
<1>4. used' = [used EXCEPT ![d] = @ + IF phase \in Load THEN 0 ELSE moved]
  BY DEF Finished
<1>5. ledger' = IF phase \in Mixed THEN ledger + job[d][i].amount - moved ELSE ledger
  BY DEF Finished
<1>6. reached' \in {"none", "mix", "baseline"}
  BY DEF Finished, Succeeded, TypeOK
<1>7. /\ used' \in [Dirs -> Nat] /\ \A e \in Dirs : e # d => used'[e] = used[e]
      /\ used'[d] = IF phase \in Load THEN used[d] ELSE used[d] + moved
  BY <1>3, <1>4
<1>8. phase \in Mixed => phase \notin Load
  BY DEF Mixed, Load
<1>9. ledger' \in Nat /\ (phase \in Mixed => ledger' + used'[d] = ledger + used[d] + job[d][i].amount)
  BY ONLY <1>0, <1>3, <1>5, <1>7, <1>8, moved \in Nat, moved <= job[d][i].amount
<1> QED
  BY <1>2, <1>6, <1>7, <1>9

LEMMA CountedMoves ==
  ASSUME QualityInv, NEW d \in Dirs, NEW moved \in Nat, Counted(d, moved)
  PROVE  /\ count' \in [Dirs -> Nat] /\ \A e \in Dirs : e # d => count'[e] = count[e]
         /\ count'[d] = IF phase \in Load THEN count[d] + moved ELSE count[d]
         /\ phase \notin Load => count' = count
<1> USE DEF QualityInv
<1>1. count \in [Dirs -> Nat]
  BY Types
<1> QED
  BY <1>1 DEF Counted

\* A transfer that ends without an answer to drain.
LEMMA TransferEnds ==
  ASSUME QualityInv, NEW d \in Dirs, NEW i \in Slots, job[d][i].at = "moving",
         NEW moved \in Parts(job[d][i].amount), NEW kept \in {0, moved}, NEW bad,
         Counted(d, moved), Finished(d, i, kept, bad), wire' \in Wire,
         UNCHANGED <<phase, ctx, over, left, block, exhausted, probing, plan>>,
         resp' = resp
  PROVE  Moves(d, i) /\ job[d][i].at # "off"
<1> USE DEF QualityInv
<1> USE Types
<1>1. job[d][i].amount \in Nat /\ job[d][i].held = 0 /\ used[d] \in Nat /\ count[d] \in Nat /\ left[d] \in Nat
  BY DEF JobTable, Job, Shaped
<1>2. moved \in Nat /\ moved <= job[d][i].amount /\ kept \in Nat /\ kept <= moved /\ kept <= job[d][i].amount
  BY <1>1, PartBounds
<1>3. /\ job' \in JobTable /\ job'[d][i].at \in {"off", "free"} /\ job'[d][i].amount = 0 /\ job'[d][i].held = 0
      /\ \A e \in Dirs, k \in Slots : e # d \/ k # i => job'[e][k] = job[e][k]
      /\ used' \in [Dirs -> Nat] /\ \A e \in Dirs : e # d => used'[e] = used[e]
      /\ used'[d] = IF phase \in Load THEN used[d] ELSE used[d] + kept
      /\ ledger' \in Nat
      /\ phase \in Mixed => ledger' + used'[d] = ledger + used[d] + job[d][i].amount
      /\ reached' \in {"none", "mix", "baseline"}
  BY <1>2, FinishedMoves
<1>4. /\ count' \in [Dirs -> Nat] /\ \A e \in Dirs : e # d => count'[e] = count[e]
      /\ count'[d] = IF phase \in Load THEN count[d] + moved ELSE count[d]
      /\ phase \notin Load => count' = count
  BY <1>2, CountedMoves
<1>5. Uncounted(d)[i] = job[d][i].amount /\ Uncounted(d)'[i] = 0
  BY <1>3 DEF Uncounted
<1>6. used'[d] + count'[d] + left'[d] + Uncounted(d)'[i] <= used[d] + count[d] + left[d] + Uncounted(d)[i]
  <2>1. left'[d] = left[d]
    OBVIOUS
  <2>2. CASE phase \in Load
    BY ONLY <1>1, <1>2, <1>3, <1>4, <1>5, <2>1, <2>2
  <2>3. CASE phase \notin Load
    BY ONLY <1>1, <1>2, <1>3, <1>4, <1>5, <2>1, <2>3
  <2> QED
    BY <2>2, <2>3
<1>7. resp'.left + resp'.used + job'[d][i].held = resp.left + resp.used + job[d][i].held
  BY <1>1, <1>3
<1>8. phase \in Mixed => ledger' + used'[d] + job'[d][i].amount = ledger + used[d] + job[d][i].amount
  BY <1>1, <1>3
<1>9. exhausted' \in BOOLEAN /\ resp' \in [left : Nat, used : Nat]
  BY DEF TypeOK
<1> QED
  BY <1>3, <1>4, <1>6, <1>7, <1>8, <1>9 DEF Moves

\* Uploads that end with bytes nobody counts.
LEMMA LooseTyped ==
  ASSUME wire \in Wire, NEW lost \in Nat, NEW stray \in Nat, Loose(lost, stray)
  PROVE  wire' \in Wire
<1>1. CASE lost + stray = 0
  BY <1>1 DEF Loose
<1>2. CASE lost + stray # 0
  <2>1. wire.loose \in 0..MaxLoose /\ wire.stray \in Nat /\ wire.lost \in Nat /\ MaxLoose \in Nat
    BY QualityAssumption DEF Wire
  <2>2. /\ wire.loose < MaxLoose
        /\ wire' = [loose |-> wire.loose + 1, stray |-> wire.stray + stray, lost |-> wire.lost + lost]
    BY <1>2 DEF Loose
  <2> QED
    BY <2>1, <2>2 DEF Wire
<1> QED
  BY <1>1, <1>2

LEMMA TransfersMove ==
  ASSUME QualityInv, NEW i \in Slots, NEW moved, NEW bad, NEW stray
  PROVE  /\ Downloaded(i, moved, bad) => Moves("down", i) /\ job["down"][i].at # "off"
         /\ UploadFailed(i, moved, stray) => Moves("up", i) /\ job["up"][i].at # "off"
         /\ UploadRefused(i, moved, stray) => Moves("up", i) /\ job["up"][i].at # "off"
<1>0. "down" \in Dirs /\ "up" \in Dirs /\ wire \in Wire /\ job["up"][i].amount \in Nat
  BY Types DEF Dirs, QualityInv, TypeOK, JobTable, Job
<1>a. ASSUME moved \in Parts(job["up"][i].amount), stray \in {0, job["up"][i].amount - moved}
      PROVE  moved \in Nat /\ stray \in Nat
  BY <1>0, <1>a, PartBounds
<1>1. ASSUME Downloaded(i, moved, bad) PROVE Moves("down", i) /\ job["down"][i].at # "off"
  BY <1>0, <1>1, TransferEnds DEF Downloaded
<1>2. ASSUME UploadFailed(i, moved, stray) PROVE Moves("up", i) /\ job["up"][i].at # "off"
  <2>1. wire' \in Wire
    BY <1>0, <1>2, <1>a, LooseTyped DEF UploadFailed
  <2> QED
    BY <1>0, <1>2, <2>1, TransferEnds DEF UploadFailed
<1>3. ASSUME UploadRefused(i, moved, stray) PROVE Moves("up", i) /\ job["up"][i].at # "off"
  <2>1. wire' \in Wire
    <3>1. moved \in Nat /\ stray \in Nat /\ Loose(IF phase \in Load THEN 0 ELSE moved, stray)
      BY <1>3, <1>a DEF UploadRefused
    <3> QED
      BY <1>0, <3>1, LooseTyped
  <2> QED
    BY <1>0, <1>3, <2>1, TransferEnds DEF UploadRefused
<1> QED
  BY <1>1, <1>2, <1>3

LEMMA UploadedMoves ==
  ASSUME QualityInv, NEW i \in Slots, Uploaded(i)
  PROVE  Moves("up", i) /\ job["up"][i].at # "off"
<1> USE DEF QualityInv
<1> USE Types
<1> DEFINE n == job["up"][i].amount
           r == Claimed(resp.left, ResponseBody)
           j == [at |-> "answered", amount |-> n, held |-> r]
<1>0. "up" \in Dirs /\ n \in Nat /\ job["up"][i].held = 0 /\ job["up"][i].at = "moving"
  BY DEF Uploaded, JobTable, Job, Dirs, Shaped
<1>1. r \in Nat /\ r <= resp.left
  BY QualityAssumption, ClaimBounds
<1>2. /\ Counted("up", n) /\ resp' = [resp EXCEPT !.left = @ - r]
      /\ UNCHANGED <<phase, ctx, over, left, block, exhausted, wire, probing, plan>>
  BY DEF Uploaded
<1>3. IF r = 0 THEN Finished("up", i, n, TRUE)
      ELSE job' = [job EXCEPT !["up"][i] = j] /\ UNCHANGED <<used, ledger, reached>>
  BY DEF Uploaded
<1>4. resp' \in [left : Nat, used : Nat] /\ resp'.left = resp.left - r /\ resp'.used = resp.used
  BY <1>1, <1>2
<1>5. n \in Parts(job["up"][i].amount)
  BY DEF Parts
<1>6. exhausted' \in BOOLEAN /\ wire' \in Wire
  BY <1>2 DEF TypeOK
<1> HIDE DEF r
<1>7. CASE r = 0
  <2>1. resp' = resp
    BY <1>2, <1>7
  <2> QED
    BY <1>0, <1>2, <1>3, <1>5, <1>6, <1>7, <2>1, TransferEnds
<1>8. CASE r # 0
  <2>1. j \in Job /\ j.at = "answered" /\ j.amount = n /\ j.held = r
    BY <1>0, <1>1 DEF Job
  <2> HIDE DEF j
  <2>2. /\ job' \in JobTable /\ job'["up"][i] = j
        /\ \A e \in Dirs, k \in Slots : e # "up" \/ k # i => job'[e][k] = job[e][k]
    BY <1>0, <1>3, <1>8, <2>1, SetSlot
  <2>3. /\ count' \in [Dirs -> Nat] /\ \A e \in Dirs : e # "up" => count'[e] = count[e]
        /\ count'["up"] = IF phase \in Load THEN count["up"] + n ELSE count["up"]
        /\ phase \notin Load => count' = count
    BY <1>0, <1>2, CountedMoves
  <2>4. Uncounted("up")[i] = n /\ Uncounted("up")'[i] = IF phase \in Load THEN 0 ELSE n
    BY <1>0, <1>2, <2>1, <2>2 DEF Uncounted
  <2>5. used' = used /\ ledger' = ledger /\ reached' = reached
    BY <1>3, <1>8
  <2>6. used'["up"] + count'["up"] + left'["up"] + Uncounted("up")'[i]
          <= used["up"] + count["up"] + left["up"] + Uncounted("up")[i]
    <3>1. used["up"] \in Nat /\ count["up"] \in Nat /\ left["up"] \in Nat /\ left' = left
      BY <1>0, <1>2
    <3> QED
      BY ONLY <1>0, <2>3, <2>4, <2>5, <3>1
  <2>7. resp'.left + resp'.used + job'["up"][i].held = resp.left + resp.used + job["up"][i].held
    BY <1>0, <1>1, <1>4, <2>1, <2>2
  <2>8. reached' \in {"none", "mix", "baseline"}
    BY <2>5 DEF TypeOK
  <2> QED
    BY <1>0, <1>2, <1>4, <1>6, <2>1, <2>2, <2>3, <2>5, <2>6, <2>7, <2>8 DEF Moves
<1> QED
  BY <1>7, <1>8

LEMMA DrainedMoves ==
  ASSUME QualityInv, NEW i \in Slots, NEW n \in Nat, NEW bad, UploadDrained(i, n, bad)
  PROVE  Moves("up", i) /\ job["up"][i].at # "off"
<1> USE DEF QualityInv
<1> USE Types
<1> DEFINE a == job["up"][i].amount
           h == job["up"][i].held
<1>0. "up" \in Dirs /\ a \in Nat /\ h \in Nat /\ n <= h /\ job["up"][i].at = "answered"
  BY DEF UploadDrained, JobTable, Job, Dirs
<1>1. /\ resp' = [left |-> resp.left + h - n, used |-> resp.used + n] /\ Finished("up", i, a, bad)
      /\ UNCHANGED <<phase, ctx, over, left, block, exhausted, count, wire, probing, plan>>
  BY DEF UploadDrained, Drained
<1>2. /\ job' \in JobTable /\ job'["up"][i].at \in {"off", "free"}
      /\ job'["up"][i].amount = 0 /\ job'["up"][i].held = 0
      /\ \A e \in Dirs, k \in Slots : e # "up" \/ k # i => job'[e][k] = job[e][k]
      /\ used' \in [Dirs -> Nat] /\ \A e \in Dirs : e # "up" => used'[e] = used[e]
      /\ used'["up"] = IF phase \in Load THEN used["up"] ELSE used["up"] + a
      /\ ledger' \in Nat
      /\ phase \in Mixed => ledger' + used'["up"] = ledger + used["up"] + a
      /\ reached' \in {"none", "mix", "baseline"}
  BY <1>0, <1>1, FinishedMoves
<1>3. Uncounted("up")[i] = (IF phase \in Load THEN 0 ELSE a) /\ Uncounted("up")'[i] = 0
  BY <1>0, <1>1, <1>2 DEF Uncounted
<1>4. /\ resp' \in [left : Nat, used : Nat] /\ resp'.left = resp.left + h - n /\ resp'.used = resp.used + n
  BY <1>0, <1>1
<1>5. exhausted' \in BOOLEAN /\ wire' \in Wire /\ count' \in [Dirs -> Nat] /\ left' \in [Dirs -> Nat]
  BY <1>1 DEF TypeOK
<1>6. used["up"] \in Nat /\ count["up"] \in Nat /\ left["up"] \in Nat /\ left' = left /\ count' = count
  BY <1>0, <1>1
<1>7. resp'.left + resp'.used + job'["up"][i].held = resp.left + resp.used + h
  BY <1>0, <1>2, <1>4
<1> HIDE DEF a, h
<1>8. used'["up"] + count'["up"] + left'["up"] + Uncounted("up")'[i]
        <= used["up"] + count["up"] + left["up"] + Uncounted("up")[i]
  BY ONLY <1>0, <1>2, <1>3, <1>6
<1>9. phase \in Mixed => ledger' + used'["up"] + job'["up"][i].amount = ledger + used["up"] + a
  <2>1. ledger' \in Nat /\ used'["up"] \in Nat
    BY <1>0, <1>2
  <2> QED
    BY ONLY <1>2, <2>1
<1> QED
  BY <1>0, <1>1, <1>2, <1>4, <1>5, <1>6, <1>7, <1>8, <1>9 DEF Moves, a, h

LEMMA UnitMoves ==
  ASSUME QualityInv, NEW d \in Dirs, NEW i \in Slots, job[d][i] = Free, NEW j \in {Off, Moving(Unit)},
         phase \in Mixed, job' = [job EXCEPT ![d][i] = j], ledger' = ledger - j.amount, ledger' \in Nat,
         UNCHANGED <<exhausted, phase, ctx, over, left, block, count, used, reached, wire, probing, resp, plan>>
  PROVE  Moves(d, i) /\ job[d][i].at # "off"
<1> USE DEF QualityInv
<1>0. /\ Off \in Job /\ Moving(Unit) \in Job /\ job \in JobTable /\ ledger \in Nat
      /\ j.at \in {"off", "moving"} /\ j.held = 0 /\ j.amount \in Nat /\ (j.at = "off" => j.amount = 0)
      /\ job[d][i].at = "free" /\ job[d][i].amount = 0 /\ job[d][i].held = 0
  BY QualityAssumption, Shapes, Types
<1>1. /\ job' \in JobTable /\ job'[d][i] = j
      /\ \A e \in Dirs, k \in Slots : e # d \/ k # i => job'[e][k] = job[e][k]
  BY <1>0 DEF JobTable
<1>2. /\ used \in [Dirs -> Nat] /\ count \in [Dirs -> Nat] /\ left \in [Dirs -> Nat]
      /\ resp \in [left : Nat, used : Nat] /\ resp.left \in Nat /\ resp.used \in Nat
  BY Types
<1>3. exhausted' \in BOOLEAN /\ reached' \in {"none", "mix", "baseline"} /\ wire' \in Wire
  BY DEF TypeOK
<1>4. ledger' + used'[d] + job'[d][i].amount = ledger + used[d] + job[d][i].amount
  BY <1>0, <1>1, <1>2
<1> QED
  BY <1>0, <1>1, <1>2, <1>3, <1>4 DEF Moves

\* Steps that move no byte: free slots may end.
LEMMA NoBytesMove ==
  ASSUME QualityInv, TypeOK',
         \A e \in Dirs, k \in Slots : job'[e][k] = job[e][k] \/ (job[e][k] = Free /\ job'[e][k] = Off),
         UNCHANGED <<phase, prober, left, count, used, ledger, resp, profile, both, report>>
  PROVE  QualityInv'
<1> USE DEF QualityInv
<1>0. \A e \in Dirs, k \in Slots :
        /\ job'[e][k].amount = job[e][k].amount /\ job'[e][k].held = job[e][k].held
        /\ job'[e][k].at = "answered" <=> job[e][k].at = "answered"
        /\ job[e][k].at = "off" => job'[e][k].at = "off"
        /\ job'[e][k].at \in {"off", "free"} => job[e][k].at \in {"off", "free"}
  BY Shapes
<1>1. Shaped'
  BY <1>0 DEF Shaped
<1>2. \A e \in Dirs : Quiet(e) => Quiet(e)'
  BY <1>0 DEF Quiet
<1>3. Phased'
  BY <1>2 DEF Phased, NoProbe, Dirs
<1>4. /\ HeldByProbes' = HeldByProbes /\ HeldByUploads' = HeldByUploads /\ Claims' = Claims
      /\ \A e \in Dirs : Uncounted(e)' = Uncounted(e)
  BY <1>0 DEF HeldByProbes, HeldByUploads, Claims, Uncounted, Dirs
<1>5. /\ SumFunction(HeldByProbes)' = SumFunction(HeldByProbes)
      /\ SumFunction(HeldByUploads)' = SumFunction(HeldByUploads)
      /\ SumFunction(Claims)' = SumFunction(Claims)
      /\ \A e \in Dirs : SumFunction(Uncounted(e))' = SumFunction(Uncounted(e))
  <2> USE DEF SumFunction, SumFunctionOnSet, FoldFunctionOnSet, MapThenFoldSet
  <2>1. SumFunction(HeldByProbes)' = SumFunction(HeldByProbes)
    BY <1>4
  <2>2. SumFunction(HeldByUploads)' = SumFunction(HeldByUploads)
    BY <1>4
  <2>3. SumFunction(Claims)' = SumFunction(Claims)
    BY <1>4
  <2>4. ASSUME NEW e \in Dirs PROVE SumFunction(Uncounted(e))' = SumFunction(Uncounted(e))
    <3>1. Uncounted(e)' = Uncounted(e)
      BY <1>4
    <3> QED
      BY <3>1
  <2> QED
    BY ONLY <2>1, <2>2, <2>3, <2>4
<1>6. WithinLimit'
  BY <1>5 DEF WithinLimit, KeptBack, Limit
<1>7. Accounted'
  BY <1>5 DEF Accounted, ProbeReserve, Capacity, Usable, CapBytes, Least
<1>8. LoadOnly' /\ Unspent'
  BY DEF LoadOnly, Unspent
<1> QED
  BY <1>1, <1>3, <1>6, <1>7, <1>8

LEMMA ClaimUnitKeeps ==
  ASSUME QualityInv, NEW d \in Dirs, NEW i \in Slots, ClaimUnit(d, i)
  PROVE  QualityInv'
<1>0. /\ Unit \in Nat \ {0} /\ ledger \in Nat /\ job \in JobTable
      /\ Off.amount = 0 /\ Moving(Unit).amount = Unit
      /\ phase \in Mixed /\ job[d][i] = Free
      /\ UNCHANGED <<phase, ctx, over, left, block, count, used, reached, wire, probing, resp, plan>>
  BY QualityAssumption, Types, Shapes DEF ClaimUnit, QualityInv
<1>1. CASE Over
  <2>1. job' = [job EXCEPT ![d][i] = Off] /\ UNCHANGED <<ledger, exhausted>>
    BY <1>1 DEF ClaimUnit
  <2>2. ledger' = ledger - Off.amount /\ ledger' \in Nat
    BY <1>0, <2>1
  <2> QED
    BY <1>0, <2>1, <2>2, UnitMoves, MovesKeep
<1>2. CASE ~Over /\ ledger < Unit
  <2>1. /\ exhausted' = TRUE /\ ledger' = ledger
        /\ job' = [e \in Dirs |-> [k \in Slots |->
             IF /\ job[e][k] = Free
                /\ {<<d, i>>, <<e, k>>} \subseteq Segments \/ {<<d, i>>, <<e, k>>} \subseteq Frames
             THEN Off ELSE job[e][k]]]
    BY <1>2 DEF ClaimUnit
  <2>2. \A e \in Dirs, k \in Slots : job'[e][k] = job[e][k] \/ (job[e][k] = Free /\ job'[e][k] = Off)
    BY <2>1
  <2>3. job' \in JobTable
    BY <1>0, <2>1, Shapes DEF JobTable
  <2>4. TypeOK'
    BY <1>0, <2>1, <2>3 DEF QualityInv, TypeOK, JobTable, Job, probing, plan
  <2> QED
    BY <1>0, <2>1, <2>2, <2>4, NoBytesMove DEF probing, plan
<1>3. CASE ~Over /\ ~(ledger < Unit)
  <2>1. job' = [job EXCEPT ![d][i] = Moving(Unit)] /\ ledger' = ledger - Unit /\ UNCHANGED exhausted
    BY <1>3 DEF ClaimUnit
  <2>2. ledger' = ledger - Moving(Unit).amount /\ ledger' \in Nat
    BY <1>0, <1>3, <2>1
  <2> QED
    BY <1>0, <2>1, <2>2, UnitMoves, MovesKeep
<1> QED
  BY <1>1, <1>2, <1>3

\* Every step of a slot keeps the invariant.
LEMMA SlotKeeps ==
  ASSUME QualityInv, NEW d \in Dirs, NEW i \in Slots, SlotStep(d, i)
  PROVE  QualityInv'
<1>1. CASE Claim(d, i)
  BY <1>1, ClaimMoves, MovesKeep
<1>2. CASE ClaimUnit(d, i)
  BY <1>2, ClaimUnitKeeps
<1>3. ASSUME NEW n, NEW bad, d = "down", Downloaded(i, n, bad) PROVE QualityInv'
  BY <1>3, TransfersMove, MovesKeep
<1>4. ASSUME NEW n, NEW stray, d = "up", UploadFailed(i, n, stray) \/ UploadRefused(i, n, stray)
      PROVE  QualityInv'
  BY <1>4, TransfersMove, MovesKeep
<1>5. CASE d = "up" /\ Uploaded(i)
  BY <1>5, UploadedMoves, MovesKeep
<1>6. ASSUME NEW n \in Reads, NEW bad, d = "up", UploadDrained(i, n, bad) PROVE QualityInv'
  BY <1>6, QualityAssumption, DrainedMoves, MovesKeep
<1> QED
  BY <1>1, <1>2, <1>3, <1>4, <1>5, <1>6 DEF SlotStep

----------------------------------------------------------------------------
(* Steps of one probe. *)

\* What a step of a probe may do: bytes move between the probe and the response budget.
Probes(p) ==
  /\ prober' \in [Probers -> Probe]
  /\ \A q \in Probers : q # p => prober'[q] = prober[q]
  /\ prober'[p].at # "answered" => prober'[p].held = 0
  /\ probes' \in 0..FixedProbes /\ reached' \in {"none", "mix", "baseline"}
  /\ resp' \in [left : Nat, used : Nat]
  /\ resp'.left + resp'.used + prober'[p].held = resp.left + resp.used + prober[p].held
  /\ UNCHANGED <<phase, ctx, over, job, left, block, ledger, exhausted, count, used, wire, plan>>

LEMMA ProbesKeep ==
  ASSUME QualityInv, NEW p \in Probers, prober[p].at # "off", Probes(p)
  PROVE  QualityInv'
<1> USE DEF QualityInv
<1>0. /\ UNCHANGED <<phase, ctx, over, job, left, block, ledger, exhausted, count, used, wire,
                     profile, both, stop, report>>
      /\ prober \in [Probers -> Probe] /\ prober' \in [Probers -> Probe]
  BY Types DEF Probes, plan
<1>1. TypeOK'
  BY <1>0 DEF TypeOK, Probes, Probe
<1>2. Shaped'
  <2>1. \A q \in Probers : prober'[q].at # "answered" => prober'[q].held = 0
    BY DEF Probes, Shaped
  <2> QED
    BY <1>0, <2>1 DEF Shaped
<1>3. ~NoProbe /\ \A d \in Dirs : Quiet(d)' <=> Quiet(d)
  BY <1>0 DEF NoProbe, Quiet
<1>4. Phased' /\ LoadOnly' /\ Unspent'
  BY <1>0, <1>3 DEF Phased, LoadOnly, Unspent, Dirs
<1>5. HeldByUploads' = HeldByUploads /\ Claims' = Claims /\ \A d \in Dirs : Uncounted(d)' = Uncounted(d)
  BY <1>0 DEF HeldByUploads, Claims, Uncounted
<1>6. /\ SumFunction(HeldByUploads)' = SumFunction(HeldByUploads)
      /\ SumFunction(Claims)' = SumFunction(Claims)
      /\ \A d \in Dirs : SumFunction(Uncounted(d))' = SumFunction(Uncounted(d))
  <2> USE DEF SumFunction, SumFunctionOnSet, FoldFunctionOnSet, MapThenFoldSet
  <2>1. SumFunction(HeldByUploads)' = SumFunction(HeldByUploads)
    BY <1>5
  <2>2. SumFunction(Claims)' = SumFunction(Claims)
    BY <1>5
  <2>3. ASSUME NEW d \in Dirs PROVE SumFunction(Uncounted(d))' = SumFunction(Uncounted(d))
    <3>1. Uncounted(d)' = Uncounted(d)
      BY <1>5
    <3> QED
      BY <3>1
  <2> QED
    BY ONLY <2>1, <2>2, <2>3
<1>7. WithinLimit'
  BY <1>0, <1>6 DEF WithinLimit, KeptBack, Limit
<1>8. SumFunction(HeldByProbes)' = SumFunction(HeldByProbes) - prober[p].held + prober'[p].held
  <2> DEFINE f == HeldByProbes
             g == HeldByProbes'
  <2>1. f \in [Probers -> Nat] /\ g \in [Probers -> Nat] /\ f[p] = prober[p].held /\ g[p] = prober'[p].held
    BY <1>0 DEF HeldByProbes, Probe
  <2>2. \A q \in Probers : q # p => g[q] = f[q]
    BY DEF HeldByProbes, Probes
  <2>3. SumFunction(g) = SumFunction(f) - f[p] + g[p]
    <3> HIDE DEF f, g
    <3> QED
      BY <2>1, <2>2, SlotsFinite, SumChange
  <2>4. SumFunction(HeldByProbes)' = SumFunction(g)
    BY DEF SumFunction, SumFunctionOnSet, FoldFunctionOnSet, MapThenFoldSet
  <2> HIDE DEF g
  <2> QED
    BY <2>1, <2>3, <2>4
<1>9. Accounted'
  <2>1. /\ prober[p].held \in Nat /\ prober'[p].held \in Nat
        /\ resp.left \in Nat /\ resp.used \in Nat /\ resp'.left \in Nat /\ resp'.used \in Nat
    BY <1>0, Types DEF Probes, Probe
  <2>2. SumFunction(HeldByProbes) \in Nat /\ SumFunction(HeldByUploads) \in Nat
    BY SumsNatural
  <2>3. resp'.left + resp'.used + prober'[p].held = resp.left + resp.used + prober[p].held
    BY DEF Probes
  <2>4. resp'.left + resp'.used + SumFunction(HeldByProbes)' + SumFunction(HeldByUploads)'
          = resp.left + resp.used + SumFunction(HeldByProbes) + SumFunction(HeldByUploads)
    BY ONLY <1>6, <1>8, <2>1, <2>2, <2>3
  <2>5. ProbeReserve' = ProbeReserve /\ Capacity' = Capacity /\ Usable' = Usable
    BY DEF ProbeReserve, Capacity, Usable, CapBytes, Least
  <2> QED
    BY <1>0, <1>6, <2>4, <2>5 DEF Accounted
<1> QED
  BY <1>1, <1>2, <1>4, <1>7, <1>9

LEMMA ProbedProbes ==
  ASSUME TypeOK, NEW p \in Probers, Probed(p)
  PROVE  /\ probes' \in 0..FixedProbes /\ prober' \in [Probers -> Probe]
         /\ \A q \in Probers : q # p => prober'[q] = prober[q]
         /\ prober'[p].at # "answered" /\ prober'[p].held = 0
<1>1. probes \in 0..FixedProbes /\ FixedProbes \in Nat /\ prober \in [Probers -> Probe]
  BY QualityAssumption, Types DEF TypeOK
<1>2. probes' \in 0..FixedProbes
  BY <1>1 DEF Probed
<1>3. PICK s \in {Off, Free} : prober' = [prober EXCEPT ![p] = s]
  BY DEF Probed
<1> QED
  BY <1>1, <1>2, <1>3, Shapes

\* Every step of a probe keeps the invariant.
LEMMA ProbeKeeps ==
  ASSUME QualityInv, NEW p \in Probers, ProbeStep(p)
  PROVE  QualityInv'
<1>0. /\ TypeOK /\ Shaped /\ prober \in [Probers -> Probe] /\ probes \in 0..FixedProbes
      /\ resp \in [left : Nat, used : Nat] /\ reached \in {"none", "mix", "baseline"}
      /\ resp.left \in Nat /\ resp.used \in Nat /\ prober[p].held \in Nat
      /\ ResponseBody \in Nat /\ Reads \subseteq Nat
  BY QualityAssumption, Types DEF QualityInv, TypeOK, Probe
<1>1. CASE ProbeStops(p)
  <2>1. Probes(p) /\ prober[p].at # "off"
    BY <1>0, <1>1, Shapes DEF ProbeStops, Probes, slots, Shaped
  <2> QED
    BY <2>1, ProbesKeep
<1>2. CASE ProbeLost(p)
  <2>1. prober[p].held = 0 /\ prober[p].at # "off"
    BY <1>0, <1>2 DEF ProbeLost, Shaped
  <2>2. Probes(p)
    BY <1>0, <1>2, <2>1, ProbedProbes DEF ProbeLost, Probes, slots
  <2> QED
    BY <2>1, <2>2, ProbesKeep
<1>3. ASSUME NEW fresh, ProbeAnswered(p, fresh) PROVE QualityInv'
  <2> DEFINE r == Claimed(resp.left, ResponseBody)
             s == [Off EXCEPT !.at = "answered", !.held = r]
  <2>1. prober[p].held = 0 /\ prober[p].at # "off" /\ r \in Nat /\ r <= resp.left
    BY <1>0, <1>3, ClaimBounds DEF ProbeAnswered, Shaped
  <2>2. resp' = [resp EXCEPT !.left = @ - r] /\ UNCHANGED <<phase, ctx, over, slots, plan>>
    BY <1>3 DEF ProbeAnswered
  <2>3. \/ r > 0 /\ prober' = [prober EXCEPT ![p] = s] /\ UNCHANGED probes
        \/ r = 0 /\ prober' = [prober EXCEPT ![p] = Off] /\ UNCHANGED probes
        \/ r = 0 /\ Probed(p)
    <3> DEFINE c == Claimed(resp.left, ResponseBody)
    <3>1. c = 0 \/ c > 0
      BY <2>1
    <3> QED
      BY <1>3, <3>1 DEF ProbeAnswered
  <2>4. s \in Probe /\ s.held = r /\ s.at = "answered"
    BY <2>1 DEF Off, Probe
  <2> HIDE DEF r, s
  <2>5. resp' \in [left : Nat, used : Nat] /\ resp'.left = resp.left - r /\ resp'.used = resp.used
    BY <1>0, <2>1, <2>2
  <2>6. /\ prober' \in [Probers -> Probe] /\ \A q \in Probers : q # p => prober'[q] = prober[q]
        /\ prober'[p].held = r /\ (prober'[p].at # "answered" => prober'[p].held = 0)
        /\ probes' \in 0..FixedProbes
    <3>1. CASE r > 0 /\ prober' = [prober EXCEPT ![p] = s] /\ UNCHANGED probes
      BY <1>0, <2>4, <3>1
    <3>2. CASE r = 0 /\ prober' = [prober EXCEPT ![p] = Off] /\ UNCHANGED probes
      BY <1>0, <3>2, Shapes
    <3>3. CASE r = 0 /\ Probed(p)
      BY <1>0, <3>3, ProbedProbes
    <3> QED
      BY <2>3, <3>1, <3>2, <3>3
  <2>7. resp'.left + resp'.used + prober'[p].held = resp.left + resp.used + prober[p].held
    BY <1>0, <2>1, <2>5, <2>6
  <2>8. Probes(p)
    BY <1>0, <2>2, <2>5, <2>6, <2>7 DEF Probes, slots
  <2> QED
    BY <2>1, <2>8, ProbesKeep
<1>4. ASSUME NEW n \in Reads, NEW bad, ProbeRead(p, n, bad) PROVE QualityInv'
  <2> DEFINE h == prober[p].held
  <2>1. prober[p].at # "off" /\ n \in Nat /\ h \in Nat /\ n <= h
    BY <1>0, <1>4 DEF ProbeRead
  <2>2. /\ resp' = [left |-> resp.left + h - n, used |-> resp.used + n] /\ Probed(p)
        /\ UNCHANGED <<phase, ctx, over, job, left, block, ledger, exhausted, count, used, wire, plan>>
    BY <1>4 DEF ProbeRead, Drained
  <2>3. reached' \in {"none", "mix", "baseline"}
    BY <1>0, <1>4 DEF ProbeRead, Succeeded
  <2>4. /\ resp' \in [left : Nat, used : Nat]
        /\ resp'.left = resp.left + h - n /\ resp'.used = resp.used + n
    BY <1>0, <2>1, <2>2
  <2>5. /\ probes' \in 0..FixedProbes /\ prober' \in [Probers -> Probe]
        /\ \A q \in Probers : q # p => prober'[q] = prober[q]
        /\ prober'[p].at # "answered" /\ prober'[p].held = 0
    BY <1>0, <2>2, ProbedProbes
  <2>6. resp'.left + resp'.used + prober'[p].held = resp.left + resp.used + h
    BY <1>0, <2>1, <2>4, <2>5
  <2>7. Probes(p)
    BY <2>2, <2>3, <2>4, <2>5, <2>6 DEF Probes
  <2> QED
    BY <2>1, <2>7, ProbesKeep
<1> QED
  BY <1>1, <1>2, <1>3, <1>4 DEF ProbeStep

----------------------------------------------------------------------------
(* Steps that begin or end a phase. *)

LEMMA Words ==
  /\ phase \in Fixed \union Warm \union Load \union Mixed \union {"returned"} <=>
       phase \in {"baseline", "cooldown", "download_warmup", "upload_warmup", "download", "upload",
                  "bidirectional", "reference", "household", "returned"}
  /\ "down" \in Dirs /\ "up" \in Dirs /\ 1 \in Slots
  /\ Zero \in [Dirs -> Nat] /\ Zero["down"] = 0 /\ Zero["up"] = 0
  BY SlotsFinite DEF Fixed, Warm, Load, Mixed, Dirs, Slots, Zero

\* What a new phase finds: nothing reserved, and for the household nothing claimed.
Settled == NoProbe /\ Quiet("up") /\ (profile = "household" => Quiet("down"))

\* What it starts with: nothing reserved yet.
Fresh ==
  /\ \A d \in Dirs, i \in Slots :
       /\ job[d][i].held = 0 /\ job[d][i].at # "answered"
       /\ job[d][i].at \in {"off", "free"} => job[d][i].amount = 0
       /\ profile = "household" => job[d][i].amount = 0
  /\ \A p \in Probers : prober[p].held = 0

\* Its sums are zero in the next state, where slots and probes are idle.
LEMMA FreshSums ==
  ASSUME TypeOK', Fresh'
  PROVE  /\ Shaped'
         /\ SumFunction(HeldByProbes)' = 0 /\ SumFunction(HeldByUploads)' = 0
         /\ (\A d \in Dirs, i \in Slots : job'[d][i].amount = 0) => SumFunction(Claims)' = 0
         /\ \A d \in Dirs : (\A i \in Slots : job'[d][i].amount = 0) => SumFunction(Uncounted(d))' = 0
<1>0. job' \in JobTable /\ prober' \in [Probers -> Probe] /\ IsFiniteSet(Slots) /\ IsFiniteSet(Probers)
  BY SlotsFinite DEF TypeOK, JobTable, Job, Probe
<1>1. Shaped'
  BY DEF Fresh, Shaped
<1>2. SumFunction(HeldByProbes)' = 0
  <2> DEFINE g == HeldByProbes'
  <2>1. g \in [Probers -> Nat] /\ \A p \in Probers : g[p] = 0
    BY <1>0 DEF HeldByProbes, Probe, Fresh
  <2>2. SumFunction(HeldByProbes)' = SumFunction(g)
    BY DEF SumFunction, SumFunctionOnSet, FoldFunctionOnSet, MapThenFoldSet
  <2> HIDE DEF g
  <2> QED
    BY <1>0, <2>1, <2>2, SumZero
<1>3. SumFunction(HeldByUploads)' = 0
  <2> DEFINE g == HeldByUploads'
  <2>1. g \in [Slots -> Nat] /\ \A i \in Slots : g[i] = 0
    BY <1>0, Words DEF HeldByUploads, JobTable, Job, Fresh
  <2>2. SumFunction(HeldByUploads)' = SumFunction(g)
    BY DEF SumFunction, SumFunctionOnSet, FoldFunctionOnSet, MapThenFoldSet
  <2> HIDE DEF g
  <2> QED
    BY <1>0, <2>1, <2>2, SumZero
<1>4. ASSUME \A d \in Dirs, i \in Slots : job'[d][i].amount = 0 PROVE SumFunction(Claims)' = 0
  <2> DEFINE g == Claims'
  <2>1. g \in [Slots -> Nat] /\ \A i \in Slots : g[i] = 0
    BY <1>4, Words DEF Claims
  <2>2. SumFunction(Claims)' = SumFunction(g)
    BY DEF SumFunction, SumFunctionOnSet, FoldFunctionOnSet, MapThenFoldSet
  <2> HIDE DEF g
  <2> QED
    BY <1>0, <2>1, <2>2, SumZero
<1>5. ASSUME NEW d \in Dirs, \A i \in Slots : job'[d][i].amount = 0 PROVE SumFunction(Uncounted(d))' = 0
  <2> DEFINE g == Uncounted(d)'
  <2>1. g \in [Slots -> Nat] /\ \A i \in Slots : g[i] = 0
    BY <1>5 DEF Uncounted
  <2>2. SumFunction(Uncounted(d))' = SumFunction(g)
    BY DEF SumFunction, SumFunctionOnSet, FoldFunctionOnSet, MapThenFoldSet
  <2> HIDE DEF g
  <2> QED
    BY <1>0, <2>1, <2>2, SumZero
<1> QED
  BY <1>1, <1>2, <1>3, <1>4, <1>5

\* What every change of phase has in common.
LEMMA PhaseKeeps ==
  ASSUME QualityInv, Settled, TypeOK', Fresh', Phased', WithinLimit', LoadOnly', Unspent',
         UNCHANGED <<profile, resp, ledger>>, profile = "household" => used' = used
  PROVE  QualityInv'
<1> USE DEF QualityInv
<1>1. /\ Shaped' /\ SumFunction(HeldByProbes)' = 0 /\ SumFunction(HeldByUploads)' = 0
      /\ (\A d \in Dirs, i \in Slots : job'[d][i].amount = 0) => SumFunction(Claims)' = 0
  BY FreshSums
<1>2. SumFunction(HeldByProbes) = 0 /\ SumFunction(HeldByUploads) = 0
  BY SumsIdle DEF Settled
<1>3. profile = "household" => SumFunction(Claims) = 0 /\ SumFunction(Claims)' = 0
  BY <1>1, SumsIdle DEF Settled, Fresh
<1>4. ProbeReserve' = ProbeReserve /\ Capacity' = Capacity /\ Usable' = Usable
  BY DEF ProbeReserve, Capacity, Usable, CapBytes, Least
<1>5. Accounted'
  BY <1>1, <1>2, <1>3, <1>4 DEF Accounted
<1> QED
  BY <1>1, <1>5

LEMMA WarmUpKeeps ==
  ASSUME QualityInv, profile = "saturation", Settled, NEW d \in Dirs, NEW next \in Warm,
         next = "download_warmup" => d = "down" /\ used["up"] = 0,
         phase \notin Load, NoProbe, used[d] = 0, WarmUp(next, d)
  PROVE  QualityInv'
<1> USE DEF QualityInv
<1> DEFINE n == Least(Limit[d] \div 10, WarmMax)
           j == IF n = 0 THEN Off ELSE Moving(n)
<1>0. Limit[d] \in Nat /\ Limit[d] \div 10 \in Nat /\ Limit[d] \div 10 <= Limit[d] /\ WarmMax \in Nat
  BY Budgets, ShareBounds, QualityAssumption
<1>1. n \in Nat /\ n <= Limit[d]
  BY <1>0, LeastMost
<1>2. /\ phase' = next /\ over' = FALSE /\ job' = [Idle EXCEPT ![d][1] = j]
      /\ UNCHANGED <<ctx, left, block, ledger, exhausted, count, used, reached, wire, prober, probes,
                     resp, profile, both, stop, report>>
  BY DEF WarmUp, probing, plan
<1> HIDE DEF n
<1>3. j \in Job /\ j.held = 0 /\ j.amount = n /\ j.at \in {"off", "moving"} /\ (j.at = "off" => j.amount = 0)
  BY <1>1, Shapes
<1> HIDE DEF j
<1>4. /\ job' \in JobTable /\ job'[d][1] = j
      /\ \A e \in Dirs, k \in Slots : e # d \/ k # 1 => job'[e][k] = Off
  BY <1>2, <1>3, Shapes, Words DEF JobTable, Idle
<1>5. TypeOK'
  BY <1>2, <1>4, Words DEF TypeOK, JobTable, Job, Warm
<1>6. Fresh'
  <2>1. \A p \in Probers : prober'[p].held = 0
    BY <1>2 DEF NoProbe, Shaped
  <2>2. ASSUME NEW e \in Dirs, NEW k \in Slots
        PROVE  /\ job'[e][k].held = 0 /\ job'[e][k].at # "answered"
               /\ job'[e][k].at \in {"off", "free"} => job'[e][k].amount = 0
    <3>1. CASE e = d /\ k = 1
      BY <1>3, <1>4, <3>1
    <3>2. CASE e # d \/ k # 1
      BY <1>4, <3>2, Shapes
    <3> QED
      BY <3>1, <3>2
  <2> QED
    BY <1>2, <2>1, <2>2 DEF Fresh
<1>7. \A e \in Dirs : e # d => Quiet(e)'
  BY <1>4, Shapes DEF Quiet
<1>8. Phased' /\ LoadOnly' /\ Unspent'
  <2>1. NoProbe'
    BY <1>2 DEF NoProbe
  <2>2. Phased'
    BY <1>2, <1>7, <2>1, Words DEF Phased, Warm, Load, Mixed
  <2>3. LoadOnly' /\ Unspent'
    BY <1>2 DEF LoadOnly, Unspent, Warm, Load
  <2> QED
    BY <2>2, <2>3
<1>9. WithinLimit'
  <2> SUFFICES ASSUME NEW e \in Dirs
               PROVE  used'[e] + count'[e] + left'[e] + KeptBack(e)' + SumFunction(Uncounted(e))' <= Limit[e]
    BY <1>2 DEF WithinLimit, Limit
  <2>1. count' = Zero /\ left' = Zero /\ KeptBack(e)' = 0 /\ count'[e] = 0 /\ left'[e] = 0
    BY <1>2 DEF LoadOnly, KeptBack, Warm, Zero
  <2>2. CASE e # d
    <3>1. SumFunction(Uncounted(e))' = 0
      BY <1>4, <1>5, <1>6, <2>2, FreshSums, Shapes
    <3>2. used[e] + count[e] + left[e] + KeptBack(e) + SumFunction(Uncounted(e)) <= Limit[e]
      BY DEF WithinLimit
    <3>3. /\ used[e] \in Nat /\ count[e] \in Nat /\ left[e] \in Nat /\ KeptBack(e) \in Nat
          /\ SumFunction(Uncounted(e)) \in Nat /\ Limit[e] \in Nat /\ used'[e] = used[e]
      BY <1>2, Types, SumsNatural, Budgets DEF KeptBack
    <3> QED
      BY ONLY <2>1, <3>1, <3>2, <3>3
  <2>3. CASE e = d
    <3> DEFINE f == [k \in Slots |-> 0]
               g == Uncounted(d)'
    <3>1. g \in [Slots -> Nat] /\ g[1] = n /\ \A k \in Slots : k # 1 => g[k] = 0
      BY <1>2, <1>3, <1>4, Words, Shapes DEF Uncounted, JobTable, Job, Warm, Load
    <3>2. f \in [Slots -> Nat] /\ \A k \in Slots : f[k] = 0
      OBVIOUS
    <3>3. SumFunction(Uncounted(d))' = SumFunction(g)
      BY DEF SumFunction, SumFunctionOnSet, FoldFunctionOnSet, MapThenFoldSet
    <3> HIDE DEF f, g
    <3>4. SumFunction(f) = 0
      BY <3>2, SlotsFinite, SumZero
    <3>5. SumFunction(g) = SumFunction(f) - f[1] + g[1]
      <4>1. \A k \in Slots : k # 1 => g[k] = f[k]
        BY <3>1, <3>2
      <4> QED
        BY <3>1, <3>2, <4>1, SlotsFinite, Words, SumChange
    <3>6. SumFunction(Uncounted(d))' = n
      BY <1>1, <3>1, <3>2, <3>3, <3>4, <3>5, Words
    <3>7. used'[d] = 0
      BY <1>2
    <3> QED
      BY <1>0, <1>1, <2>1, <2>3, <3>6, <3>7
  <2> QED
    BY <2>2, <2>3
<1> QED
  BY <1>2, <1>5, <1>6, <1>8, <1>9, PhaseKeeps

LEMMA StreamBounds ==
  ASSUME NEW b \in Nat
  PROVE  StreamsOf(b) \in Nat \ {0} /\ BlockOf(b) \in Nat
<1>0. Streams \in Nat \ {0} /\ Block \in Nat \ {0} /\ MinPerStream \in Nat \ {0}
  BY QualityAssumption
<1>1. b \div MinPerStream \in Nat
  BY <1>0, ShareBounds
<1>2. Most(b \div MinPerStream, 1) \in Nat \ {0}
  BY <1>1, LeastMost
<1>3. StreamsOf(b) \in Nat \ {0}
  BY <1>0, <1>2, LeastMost DEF StreamsOf
<1>4. b \div StreamsOf(b) \in Nat
  BY <1>3, ShareBounds
<1>5. Most(b \div StreamsOf(b), 1) \in Nat
  BY <1>4, LeastMost
<1> QED
  BY <1>0, <1>3, <1>5, LeastMost DEF BlockOf

LEMMA OnlyLatencyProbes ==
  OnlyLatency \in [Probers -> Probe] /\ \A p \in Probers : OnlyLatency[p].held = 0
  BY Shapes DEF OnlyLatency

LEMMA LoadKeeps ==
  ASSUME QualityInv, profile = "saturation", Settled, NEW next \in Load, NEW dirs,
         NEW budget \in [Dirs -> Nat], StartLoad(next, dirs, budget),
         UNCHANGED <<profile, stop, report>>, both' \in [Dirs -> Nat],
         used' \in [Dirs -> Nat], count' = Zero,
         \A d \in Dirs : used'[d] + budget[d] + KeptBack(d)' <= Limit[d]
  PROVE  QualityInv'
<1> USE DEF QualityInv
<1>1. /\ phase' = next /\ over' = FALSE /\ left' = budget /\ prober' = OnlyLatency
      /\ block' = [d \in Dirs |-> BlockOf(budget[d])]
      /\ job' = [d \in Dirs |-> [i \in Slots |->
           IF d \in dirs /\ budget[d] > 0 /\ i <= StreamsOf(budget[d]) THEN Free ELSE Off]]
      /\ UNCHANGED <<ctx, ledger, exhausted, reached, wire, probes, resp>>
  BY DEF StartLoad
<1>2. block' \in [Dirs -> Nat]
  BY <1>1, StreamBounds
<1>3. job' \in JobTable /\ \A d \in Dirs, i \in Slots : job'[d][i] \in {Free, Off}
  BY <1>1, Shapes DEF JobTable
<1>4. prober' \in [Probers -> Probe] /\ \A p \in Probers : prober'[p].held = 0
  BY <1>1, OnlyLatencyProbes
<1>5. TypeOK'
  <2>1. phase' \in Fixed \union Warm \union Load \union Mixed \union {"returned"}
    BY <1>1
  <2>2. /\ job' \in [Dirs -> [Slots -> [at : {"off", "free", "moving", "answered"}, amount : Nat, held : Nat]]]
        /\ prober' \in [Probers -> [at : {"off", "free", "answered"}, amount : {0}, held : Nat]]
    BY <1>3, <1>4 DEF JobTable, Job, Probe
  <2>3. left' \in [Dirs -> Nat] /\ count' \in [Dirs -> Nat]
    BY <1>1, Words
  <2> QED
    BY <1>1, <1>2, <2>1, <2>2, <2>3 DEF TypeOK
<1>6. Fresh'
  BY <1>3, <1>4, Shapes DEF Fresh
<1>7. Phased' /\ LoadOnly' /\ Unspent'
  BY <1>1 DEF Phased, LoadOnly, Unspent, Warm, Load, Mixed
<1>8. WithinLimit'
  <2> SUFFICES ASSUME NEW e \in Dirs
               PROVE  used'[e] + count'[e] + left'[e] + KeptBack(e)' + SumFunction(Uncounted(e))' <= Limit[e]
    BY DEF WithinLimit, Limit
  <2>1. SumFunction(Uncounted(e))' = 0
    BY <1>3, <1>5, <1>6, FreshSums, Shapes
  <2>2. count'[e] = 0 /\ left'[e] = budget[e] /\ used'[e] \in Nat /\ budget[e] \in Nat
    BY <1>1 DEF Zero
  <2>3. KeptBack(e)' \in Nat
    BY DEF KeptBack
  <2>4. used'[e] + budget[e] + KeptBack(e)' <= Limit[e]
    OBVIOUS
  <2> QED
    BY ONLY <2>1, <2>2, <2>3, <2>4
<1> QED
  BY <1>1, <1>5, <1>6, <1>7, <1>8, PhaseKeeps

LEMMA CooldownKeeps ==
  ASSUME QualityInv, Settled, StartCooldown, UNCHANGED <<profile, both, report>>,
         stop' \in {"none", "enough_evidence", "insufficient_bytes", "insufficient_time",
                    "cancelled", "transport_failure"},
         used' \in [Dirs -> Nat], count' = Zero, profile = "household" => used' = used,
         profile = "saturation" => \A d \in Dirs : used'[d] <= Limit[d]
  PROVE  QualityInv'
<1> USE DEF QualityInv
<1>1. /\ phase' = "cooldown" /\ over' = FALSE /\ prober' = OnlyLatency /\ probes' = FixedProbes
      /\ job' = Idle /\ left' = Zero /\ block' = Zero
      /\ UNCHANGED <<ctx, ledger, exhausted, reached, wire, resp>>
  BY DEF StartCooldown
<1>2. job' \in JobTable /\ \A d \in Dirs, i \in Slots : job'[d][i] = Off
  BY <1>1, Shapes DEF JobTable, Idle
<1>3. prober' \in [Probers -> Probe] /\ \A p \in Probers : prober'[p].held = 0
  BY <1>1, OnlyLatencyProbes
<1>4. TypeOK'
  <2>1. phase' \in Fixed
    BY <1>1 DEF Fixed
  <2>2. /\ job' \in [Dirs -> [Slots -> [at : {"off", "free", "moving", "answered"}, amount : Nat, held : Nat]]]
        /\ prober' \in [Probers -> [at : {"off", "free", "answered"}, amount : {0}, held : Nat]]
    BY <1>2, <1>3 DEF JobTable, Job, Probe
  <2>3. left' \in [Dirs -> Nat] /\ count' \in [Dirs -> Nat] /\ block' \in [Dirs -> Nat]
    BY <1>1, Words
  <2>4. probes' \in 0..FixedProbes
    BY <1>1, QualityAssumption
  <2> QED
    BY <1>1, <2>1, <2>2, <2>3, <2>4 DEF TypeOK
<1>5. Fresh'
  BY <1>2, <1>3, Shapes DEF Fresh
<1>6. \A d \in Dirs : Quiet(d)'
  BY <1>2, Shapes DEF Quiet
<1>7. Phased' /\ LoadOnly' /\ Unspent'
  BY <1>1, <1>6, Words DEF Phased, LoadOnly, Unspent, Warm, Load, Mixed
<1>8. WithinLimit'
  <2> SUFFICES ASSUME profile = "saturation", NEW e \in Dirs
               PROVE  used'[e] + count'[e] + left'[e] + KeptBack(e)' + SumFunction(Uncounted(e))' <= Limit[e]
    BY DEF WithinLimit, Limit
  <2>1. SumFunction(Uncounted(e))' = 0
    BY <1>2, <1>4, <1>5, FreshSums, Shapes
  <2>2. count'[e] = 0 /\ left'[e] = 0 /\ used'[e] \in Nat /\ KeptBack(e)' = 0
    BY <1>1 DEF Zero, KeptBack
  <2>3. used'[e] <= Limit[e]
    OBVIOUS
  <2> QED
    BY ONLY <2>1, <2>2, <2>3
<1> QED
  BY <1>1, <1>4, <1>5, <1>7, <1>8, PhaseKeeps

\* The bytes counted so far leave room within a direction's limit.
LEMMA RoomLeft ==
  ASSUME QualityInv, profile = "saturation", NEW d \in Dirs
  PROVE  /\ used[d] \in Nat /\ count[d] \in Nat /\ left[d] \in Nat /\ both[d] \in Nat /\ Limit[d] \in Nat
         /\ used[d] + count[d] + left[d] + KeptBack(d) <= Limit[d]
<1> USE DEF QualityInv
<1>1. /\ used[d] \in Nat /\ count[d] \in Nat /\ left[d] \in Nat /\ both[d] \in Nat /\ KeptBack(d) \in Nat
      /\ Limit[d] \in Nat /\ SumFunction(Uncounted(d)) \in Nat
  BY Types, SumsNatural, Budgets DEF KeptBack
<1>2. used[d] + count[d] + left[d] + KeptBack(d) + SumFunction(Uncounted(d)) <= Limit[d]
  BY DEF WithinLimit
<1> QED
  BY ONLY <1>1, <1>2

LEMMA StartDownloadKeeps ==
  ASSUME QualityInv, NEW need \in [Dirs -> Needs], StartDownload(need)
  PROVE  QualityInv'
<1> DEFINE a(d) == Allocation(d, need[d])
           budget == [d \in Dirs |-> a(d) - Reserve(a(d))]
<1>0. profile = "saturation" /\ Settled /\ phase \notin Load /\ phase = "upload_warmup"
  BY DEF StartDownload, QualityInv, Phased, Settled, Warm, Load
<1>1. /\ both' = [d \in Dirs |-> Reserve(a(d))]
      /\ StartLoad("download", {"down"}, [d \in Dirs |-> a(d) - both'[d]])
      /\ UNCHANGED <<profile, stop, report, count, used>>
  BY DEF StartDownload
<1>2. ASSUME NEW d \in Dirs
      PROVE  a(d) \in Nat /\ used[d] + a(d) <= Limit[d] /\ Reserve(a(d)) \in Nat /\ Reserve(a(d)) <= a(d)
             /\ used[d] \in Nat /\ Limit[d] \in Nat
  <2>1. used[d] \in Nat /\ Limit[d] \in Nat /\ used[d] <= Limit[d]
    <3>1. /\ used[d] \in Nat /\ count[d] \in Nat /\ left[d] \in Nat /\ both[d] \in Nat /\ Limit[d] \in Nat
          /\ used[d] + count[d] + left[d] + KeptBack(d) <= Limit[d]
      BY <1>0, RoomLeft
    <3>2. KeptBack(d) \in Nat
      BY <3>1 DEF KeptBack
    <3> QED
      BY ONLY <3>1, <3>2
  <2>2. need[d] \in Nat /\ MinAllocation \in Nat
    BY QualityAssumption
  <2>3. Most(need[d], MinAllocation) \in Nat
    BY <2>2, LeastMost
  <2>4. a(d) \in Nat /\ used[d] + a(d) <= Limit[d]
    BY <2>1, <2>3, LeastMost DEF Allocation
  <2>5. Reserve(a(d)) \in Nat /\ Reserve(a(d)) <= a(d)
    <3> DEFINE x == a(d)
    <3> HIDE DEF a
    <3>1. x \in Nat
      BY <2>4
    <3> HIDE DEF x
    <3> QED
      BY <3>1 DEF Reserve, x
  <2> QED
    BY <2>1, <2>4, <2>5
<1>3. budget \in [Dirs -> Nat] /\ both' \in [Dirs -> Nat]
  BY <1>1, <1>2
<1>4. [d \in Dirs |-> a(d) - both'[d]] = budget
  BY <1>1
<1>5. ASSUME NEW d \in Dirs PROVE used'[d] + budget[d] + KeptBack(d)' <= Limit[d]
  <2>1. KeptBack(d)' = Reserve(a(d))
    BY <1>1 DEF KeptBack, StartLoad
  <2>2. budget[d] = a(d) - Reserve(a(d)) /\ used'[d] = used[d]
    BY <1>1
  <2>3. a(d) \in Nat /\ used[d] + a(d) <= Limit[d] /\ Reserve(a(d)) \in Nat /\ used[d] \in Nat /\ Limit[d] \in Nat
    BY <1>2
  <2> HIDE DEF a, budget
  <2> QED
    BY ONLY <2>1, <2>2, <2>3
<1>6. count' = Zero /\ used' \in [Dirs -> Nat]
  BY <1>0, <1>1, Types DEF QualityInv, LoadOnly
<1>7. StartLoad("download", {"down"}, budget) /\ "download" \in Load
  BY <1>1, <1>4 DEF Load
<1> HIDE DEF budget, a
<1> QED
  BY <1>0, <1>1, <1>3, <1>5, <1>6, <1>7, LoadKeeps

\* The end of a load phase of a saturation run.
LEMMA SummedFacts ==
  ASSUME QualityInv, phase \in Load, PhaseEnds, Summed
  PROVE  /\ profile = "saturation" /\ Settled /\ count' = Zero /\ used' \in [Dirs -> Nat]
         /\ \A d \in Dirs : /\ used'[d] = used[d] + count[d] /\ used'[d] <= Limit[d] /\ used'[d] \in Nat
                            /\ used'[d] + left[d] + KeptBack(d) <= Limit[d]
<1>1. profile = "saturation" /\ Settled
  BY DEF QualityInv, Phased, PhaseEnds, Settled
<1>2. ASSUME NEW d \in Dirs
      PROVE  /\ used'[d] = used[d] + count[d] /\ used'[d] <= Limit[d] /\ used'[d] \in Nat
             /\ used'[d] + left[d] + KeptBack(d) <= Limit[d]
  <2>1. /\ used[d] \in Nat /\ count[d] \in Nat /\ left[d] \in Nat /\ both[d] \in Nat /\ Limit[d] \in Nat
        /\ used[d] + count[d] + left[d] + KeptBack(d) <= Limit[d]
    BY <1>1, RoomLeft
  <2>2. KeptBack(d) \in Nat
    BY <2>1 DEF KeptBack
  <2>3. used'[d] = used[d] + count[d]
    BY DEF Summed
  <2> QED
    BY ONLY <2>1, <2>2, <2>3
<1>3. count' = Zero /\ used' \in [Dirs -> Nat]
  BY <1>2 DEF Summed
<1> QED
  BY <1>1, <1>2, <1>3

LEMMA StartUploadKeeps ==
  ASSUME QualityInv, StartUpload
  PROVE  QualityInv'
<1> DEFINE budget == [left EXCEPT !["down"] = 0]
<1>0. /\ phase = "download" /\ phase \in Load /\ PhaseEnds /\ Summed /\ StartLoad("upload", {"up"}, budget)
      /\ UNCHANGED <<profile, both, stop, report>> /\ "upload" \in Load
  BY DEF StartUpload, Load, plan
<1>1. left \in [Dirs -> Nat] /\ both \in [Dirs -> Nat]
  BY Types DEF QualityInv
<1>2. budget \in [Dirs -> Nat] /\ \A d \in Dirs : budget[d] <= left[d]
  <2>1. budget \in [Dirs -> Nat] /\ \A d \in Dirs : left[d] \in Nat
    BY <1>1
  <2>2. \A d \in Dirs : budget[d] = left[d] \/ budget[d] = 0
    BY <1>1
  <2> HIDE DEF budget
  <2> QED
    BY <2>1, <2>2
<1>3. /\ profile = "saturation" /\ Settled /\ count' = Zero /\ used' \in [Dirs -> Nat]
      /\ \A d \in Dirs : used'[d] \in Nat /\ used'[d] + left[d] + KeptBack(d) <= Limit[d]
  BY <1>0, SummedFacts
<1>4. \A d \in Dirs : KeptBack(d)' = both[d] /\ KeptBack(d) = both[d]
  BY <1>0 DEF KeptBack, StartLoad
<1>5. \A d \in Dirs : used'[d] + budget[d] + KeptBack(d)' <= Limit[d]
  <2> TAKE d \in Dirs
  <2>1. left[d] \in Nat /\ both[d] \in Nat /\ budget[d] \in Nat /\ budget[d] <= left[d] /\ used'[d] \in Nat
    BY <1>1, <1>2, <1>3
  <2>2. Limit[d] \in Nat
    BY Budgets
  <2>3. used'[d] + left[d] + KeptBack(d) <= Limit[d] /\ KeptBack(d)' = both[d] /\ KeptBack(d) = both[d]
    BY <1>3, <1>4
  <2> HIDE DEF budget
  <2> QED
    BY ONLY <2>1, <2>2, <2>3
<1> HIDE DEF budget
<1> QED
  BY <1>0, <1>1, <1>2, <1>3, <1>5, LoadKeeps

LEMMA StartBidirectionalKeeps ==
  ASSUME QualityInv, StartBidirectional
  PROVE  QualityInv'
<1> DEFINE budget == [d \in Dirs |-> Remaining(d)]
<1>0. /\ phase = "upload" /\ phase \in Load /\ PhaseEnds /\ Summed
      /\ UNCHANGED <<profile, both, stop, report>> /\ "bidirectional" \in Load
      /\ StartLoad("bidirectional", Dirs, budget) \/ StartCooldown
  BY DEF StartBidirectional, Load, plan
<1>1. both \in [Dirs -> Nat]
  BY Types DEF QualityInv
<1>2. /\ profile = "saturation" /\ Settled /\ count' = Zero /\ used' \in [Dirs -> Nat]
      /\ \A d \in Dirs : used'[d] \in Nat /\ used'[d] <= Limit[d] /\ used'[d] = used[d] + count[d]
  BY <1>0, SummedFacts
<1>3. ASSUME NEW d \in Dirs PROVE Remaining(d) \in Nat /\ used'[d] + Remaining(d) <= Limit[d]
  <2>1. used[d] \in Nat /\ count[d] \in Nat /\ Limit[d] \in Nat /\ both[d] \in Nat
    BY <1>2, RoomLeft
  <2>2. used'[d] <= Limit[d] /\ used'[d] = used[d] + count[d]
    BY <1>2
  <2> QED
    BY <2>1, <2>2, LeastMost DEF Remaining
<1>4. CASE StartCooldown
  <2>1. stop' \in {"none", "enough_evidence", "insufficient_bytes", "insufficient_time",
                   "cancelled", "transport_failure"}
    BY <1>0 DEF QualityInv, TypeOK
  <2>2. profile = "household" => used' = used
    BY <1>2
  <2> QED
    BY <1>0, <1>2, <1>4, <2>1, <2>2, CooldownKeeps
<1>5. CASE StartLoad("bidirectional", Dirs, budget)
  <2>1. budget \in [Dirs -> Nat]
    BY <1>3
  <2>2. \A d \in Dirs : used'[d] + budget[d] + KeptBack(d)' <= Limit[d]
    <3> TAKE d \in Dirs
    <3>1. budget[d] = Remaining(d)
      OBVIOUS
    <3>2. KeptBack(d)' = 0
      BY <1>5 DEF KeptBack, StartLoad
    <3>3. used'[d] \in Nat /\ Remaining(d) \in Nat /\ used'[d] + Remaining(d) <= Limit[d]
      BY <1>2, <1>3
    <3> HIDE DEF budget
    <3> QED
      BY ONLY <3>1, <3>2, <3>3
  <2>3. both' \in [Dirs -> Nat]
    BY <1>0, <1>1
  <2> HIDE DEF budget
  <2> QED
    BY <1>0, <1>2, <1>5, <2>1, <2>2, <2>3, LoadKeeps
<1> QED
  BY <1>0, <1>4, <1>5

LEMMA EndBidirectionalKeeps ==
  ASSUME QualityInv, EndBidirectional
  PROVE  QualityInv'
<1>0. /\ phase \in Load /\ PhaseEnds /\ Summed /\ StartCooldown /\ UNCHANGED <<profile, both, stop, report>>
  BY DEF EndBidirectional, Load, plan
<1>1. /\ profile = "saturation" /\ Settled /\ count' = Zero /\ used' \in [Dirs -> Nat]
      /\ \A d \in Dirs : used'[d] <= Limit[d]
  BY <1>0, SummedFacts
<1>2. stop' \in {"none", "enough_evidence", "insufficient_bytes", "insufficient_time",
                 "cancelled", "transport_failure"}
  BY <1>0 DEF QualityInv, TypeOK
<1>3. profile = "household" => used' = used
  BY <1>1
<1> QED
  BY <1>0, <1>1, <1>2, <1>3, CooldownKeeps

\* A phase of a household run with the slots free or off.
LEMMA MixKeeps ==
  ASSUME QualityInv, profile = "household", Settled, phase' \in Mixed, phase' = "reference" => NoProbe' /\ Quiet("up")',
         phase \notin Load, over' = FALSE,
         job' \in JobTable, \A d \in Dirs, i \in Slots : job'[d][i] \in {Free, Off},
         prober' \in [Probers -> Probe], \A p \in Probers : prober'[p].held = 0,
         UNCHANGED <<ctx, left, block, ledger, exhausted, count, used, reached, wire, probes, resp,
                     profile, both, stop, report>>
  PROVE  QualityInv'
<1> USE DEF QualityInv
<1>1. TypeOK'
  BY DEF TypeOK, JobTable, Job, Probe
<1>2. Fresh'
  BY Shapes DEF Fresh
<1>3. Phased' /\ LoadOnly' /\ Unspent' /\ WithinLimit'
  BY DEF Phased, LoadOnly, Unspent, WithinLimit, Warm, Load, Mixed
<1> QED
  BY <1>1, <1>2, <1>3, PhaseKeeps

LEMMA HouseholdPhasesKeep ==
  ASSUME QualityInv, StartReference \/ StartMix
  PROVE  QualityInv'
<1> USE DEF QualityInv
<1>0. prober \in [Probers -> Probe] /\ Off \in Job /\ Free \in Job /\ "down" \in Dirs /\ 1 \in Slots
  BY Types, Shapes, Words
<1>1. CASE StartReference
  <2>1. /\ profile = "household" /\ NoProbe /\ phase = "baseline" /\ phase' = "reference" /\ over' = FALSE
        /\ job' = [Idle EXCEPT !["down"][1] = Free]
        /\ UNCHANGED <<ctx, left, block, ledger, exhausted, count, used, reached, wire, prober, probes, resp,
                       profile, both, stop, report>>
    BY <1>1 DEF StartReference, probing, plan
  <2>2. Settled /\ phase \notin Load /\ phase' \in Mixed
    BY <2>1 DEF Phased, Settled, Warm, Load, Mixed
  <2>3. job' \in JobTable /\ (\A d \in Dirs, i \in Slots : job'[d][i] \in {Free, Off})
    BY <1>0, <2>1 DEF JobTable, Idle
  <2>4. \A i \in Slots : job'["up"][i] = Off
    BY <2>1, Words DEF Idle
  <2>5. NoProbe' /\ Quiet("up")' /\ \A p \in Probers : prober'[p].held = 0
    BY <2>1, <2>4, Shapes DEF NoProbe, Quiet, Shaped
  <2> QED
    BY <1>0, <2>1, <2>2, <2>3, <2>5, MixKeeps
<1>2. CASE StartMix
  <2>1. /\ profile = "household" /\ NoProbe /\ Quiet("down") /\ phase \in {"baseline", "reference"}
        /\ phase' = "household" /\ over' = FALSE
        /\ job' = [d \in Dirs |-> [i \in Slots |-> IF <<d, i>> \in Segments \union Frames THEN Free ELSE Off]]
        /\ prober' = [p \in Probers |-> Free]
        /\ UNCHANGED <<ctx, left, block, ledger, exhausted, count, used, reached, wire, probes, resp,
                       profile, both, stop, report>>
    BY <1>2 DEF StartMix, plan
  <2>2. Settled /\ phase \notin Load /\ phase' \in Mixed
    BY <2>1 DEF Phased, Settled, Warm, Load, Mixed
  <2>3. job' \in JobTable /\ (\A d \in Dirs, i \in Slots : job'[d][i] \in {Free, Off})
    BY <1>0, <2>1 DEF JobTable
  <2>4. prober' \in [Probers -> Probe] /\ \A p \in Probers : prober'[p].held = 0
    BY <2>1, Shapes
  <2> QED
    BY <2>1, <2>2, <2>3, <2>4, MixKeeps
<1> QED
  BY <1>1, <1>2

LEMMA EndMixKeeps ==
  ASSUME QualityInv, NEW v \in Verdicts, NEW o \in BOOLEAN, EndMix(v, o)
  PROVE  QualityInv'
<1> USE DEF QualityInv
<1>0. /\ profile = "household" /\ PhaseEnds /\ phase \in {"household", "baseline", "reference"}
      /\ stop' = Reason(v, o) /\ StartCooldown /\ UNCHANGED <<count, used, profile, both, report>>
  BY DEF EndMix
<1>1. Settled /\ count' = Zero
  BY <1>0 DEF Settled, PhaseEnds, LoadOnly, Load
<1>2. stop' \in {"none", "enough_evidence", "insufficient_bytes", "insufficient_time",
                 "cancelled", "transport_failure"}
  BY <1>0 DEF Reason, Verdicts, TypeOK
<1>3. used' \in [Dirs -> Nat]
  BY <1>0, Types
<1> QED
  BY <1>0, <1>1, <1>2, <1>3, CooldownKeeps

LEMMA ReturnKeeps ==
  ASSUME QualityInv, Return
  PROVE  QualityInv'
<1> USE DEF QualityInv
<1>0. /\ phase = "cooldown" /\ Quiet("down") /\ Quiet("up") /\ NoProbe /\ phase' = "returned"
      /\ report' = [d \in Dirs |-> used[d] + IF d = "down" THEN resp.used ELSE 0]
      /\ UNCHANGED <<ctx, over, job, left, block, ledger, exhausted, count, used, reached, wire,
                     prober, probes, resp, profile, both, stop>>
  BY DEF Return, PhaseEnds, slots, probing
<1>1. report' \in [Dirs -> Nat]
  BY <1>0, Types
<1>2. TypeOK'
  BY <1>0, <1>1 DEF TypeOK
<1>3. Settled /\ Quiet("down")' /\ Quiet("up")' /\ NoProbe'
  BY <1>0 DEF Settled, Quiet, NoProbe
<1>4. Fresh'
  BY <1>0, <1>3 DEF Fresh, Shaped, Quiet, NoProbe, Dirs
<1>5. Phased' /\ LoadOnly' /\ Unspent'
  BY <1>0, <1>3 DEF Phased, LoadOnly, Unspent, Warm, Load, Mixed
<1>7. WithinLimit'
  <2> SUFFICES ASSUME profile = "saturation", NEW e \in Dirs
               PROVE  used'[e] + count'[e] + left'[e] + KeptBack(e)' + SumFunction(Uncounted(e))' <= Limit[e]
    BY <1>0 DEF WithinLimit, Limit
  <2>1. \A i \in Slots : job'[e][i].amount = 0
    BY <1>0 DEF Quiet, Shaped, Dirs
  <2>2. SumFunction(Uncounted(e))' = 0
    BY <1>2, <1>4, <2>1, FreshSums
  <2>3. KeptBack(e)' = 0 /\ KeptBack(e) = 0
    BY <1>0 DEF KeptBack
  <2>4. /\ used[e] \in Nat /\ count[e] \in Nat /\ left[e] \in Nat /\ Limit[e] \in Nat
        /\ used[e] + count[e] + left[e] + KeptBack(e) <= Limit[e]
    BY RoomLeft
  <2>5. used'[e] = used[e] /\ count'[e] = count[e] /\ left'[e] = left[e]
    BY <1>0
  <2> QED
    BY ONLY <2>2, <2>3, <2>4, <2>5
<1> QED
  BY <1>0, <1>2, <1>3, <1>4, <1>5, <1>7, PhaseKeeps

LEMMA WarmupsKeep ==
  ASSUME QualityInv, StartWarmup \/ NextWarmup
  PROVE  QualityInv'
<1> USE DEF QualityInv
<1>0. used \in [Dirs -> Nat]
  BY Types
<1>1. CASE StartWarmup
  <2>1. profile = "saturation" /\ phase = "baseline" /\ NoProbe /\ WarmUp("download_warmup", "down")
    BY <1>1 DEF StartWarmup
  <2>2. Settled /\ phase \notin Load /\ used["up"] = 0 /\ used["down"] = 0 /\ "download_warmup" \in Warm
    BY <2>1, Words DEF Settled, Phased, Unspent, Warm, Load, Mixed
  <2> QED
    BY <2>1, <2>2, Words, WarmUpKeeps
<1>2. CASE NextWarmup
  <2>1. phase = "download_warmup" /\ Quiet("down") /\ WarmUp("upload_warmup", "up")
    BY <1>2 DEF NextWarmup
  <2>2. /\ profile = "saturation" /\ Settled /\ NoProbe /\ phase \notin Load
        /\ used["up"] = 0 /\ "upload_warmup" \in Warm
    BY <2>1, Words DEF Settled, Phased, Unspent, Warm, Load, Mixed
  <2> QED
    BY <2>1, <2>2, Words, WarmUpKeeps
<1> QED
  BY <1>1, <1>2

----------------------------------------------------------------------------
(* The theorems. *)

LEMMA InitQuality == Init => QualityInv
<1> SUFFICES ASSUME Init PROVE QualityInv
  OBVIOUS
<1>0. /\ profile \in {"saturation", "household"} /\ phase = "baseline" /\ ctx = "live" /\ over = FALSE
      /\ job = Idle /\ left = Zero /\ block = Zero /\ both = Zero /\ exhausted = FALSE
      /\ prober = [p \in Probers |-> IF p = "latency" THEN Free ELSE Off] /\ probes = FixedProbes
      /\ ledger = IF profile = "household" THEN Usable - ProbeReserve ELSE 0
      /\ resp = [left |-> IF profile = "household" THEN ProbeReserve ELSE Capacity, used |-> 0]
      /\ count = Zero /\ used = Zero /\ reached = "none" /\ stop = "none" /\ report = Zero
      /\ wire = [loose |-> 0, stray |-> 0, lost |-> 0]
  BY DEF Init
<1>1. job \in JobTable /\ \A d \in Dirs, i \in Slots : job[d][i] = Off
  BY <1>0, Shapes DEF JobTable, Idle
<1>2. prober \in [Probers -> Probe] /\ \A p \in Probers : prober[p].held = 0
  BY <1>0, Shapes
<1>3. TypeOK
  <2>1. /\ ledger \in Nat /\ resp \in [left : Nat, used : Nat]
    BY <1>0, Budgets
  <2>2. probes \in 0..FixedProbes /\ wire \in Wire
    BY <1>0, QualityAssumption DEF Wire
  <2>3. phase \in Fixed
    BY <1>0 DEF Fixed
  <2> QED
    BY <1>0, <1>1, <1>2, <2>1, <2>2, <2>3, Words DEF TypeOK, JobTable, Job, Probe
<1>4. Shaped
  BY <1>1, <1>2, Shapes DEF Shaped
<1>5. \A d \in Dirs : Quiet(d)
  BY <1>1, Shapes DEF Quiet
<1>6. Phased /\ LoadOnly /\ Unspent
  BY <1>0, <1>5, Words DEF Phased, LoadOnly, Unspent, Warm, Load, Mixed
<1>7. /\ SumFunction(HeldByUploads) = 0 /\ SumFunction(Claims) = 0
      /\ \A d \in Dirs : SumFunction(Uncounted(d)) = 0
  BY <1>3, <1>4, <1>5, Words, SumsIdle
<1>8. SumFunction(HeldByProbes) = 0
  <2> DEFINE f == HeldByProbes
  <2>1. f \in [Probers -> Nat] /\ \A p \in Probers : f[p] = 0
    BY <1>2 DEF HeldByProbes
  <2> HIDE DEF f
  <2>2. SumFunction(f) = 0
    BY <2>1, SlotsFinite, SumZero
  <2> QED
    BY <2>2 DEF f
<1>9. WithinLimit
  <2> SUFFICES ASSUME NEW d \in Dirs
               PROVE  used[d] + count[d] + left[d] + KeptBack(d) + SumFunction(Uncounted(d)) <= Limit[d]
    BY DEF WithinLimit
  <2>1. used[d] = 0 /\ count[d] = 0 /\ left[d] = 0 /\ KeptBack(d) = 0 /\ Limit[d] \in Nat
    BY <1>0, Budgets DEF Zero, KeptBack
  <2> QED
    BY <1>7, <2>1
<1>10. Accounted
  <2>1. resp.left = (IF profile = "household" THEN ProbeReserve ELSE Capacity) /\ resp.used = 0
    BY <1>0
  <2>2. used["down"] = 0 /\ used["up"] = 0
    BY <1>0, Words
  <2> QED
    BY <1>0, <1>7, <1>8, <2>1, <2>2, Budgets DEF Accounted
<1> QED
  BY <1>3, <1>4, <1>6, <1>9, <1>10 DEF QualityInv

LEMMA NextQuality == QualityInv /\ [Next]_vars => QualityInv'
<1> SUFFICES ASSUME QualityInv, [Next]_vars PROVE QualityInv'
  OBVIOUS
<1>1. ASSUME Deadline \/ PhaseOver \/ LoadDone \/ Exhaust \/ UNCHANGED vars PROVE QualityInv'
  <2>1. UNCHANGED <<phase, job, prober, left, count, used, ledger, resp, profile, both, report>>
    BY <1>1 DEF Deadline, PhaseOver, LoadDone, Exhaust, vars, slots, probing, plan
  <2>2. TypeOK'
    BY <1>1 DEF QualityInv, TypeOK, Deadline, PhaseOver, LoadDone, Exhaust, vars, slots, probing, plan
  <2> QED
    BY <2>1, <2>2, NoBytesMove
<1>2. CASE StartWarmup \/ NextWarmup
  BY <1>2, WarmupsKeep
<1>3. ASSUME NEW need \in [Dirs -> Needs], StartDownload(need) PROVE QualityInv'
  BY <1>3, StartDownloadKeeps
<1>4. CASE StartUpload \/ StartBidirectional \/ EndBidirectional
  BY <1>4, StartUploadKeeps, StartBidirectionalKeeps, EndBidirectionalKeeps
<1>5. CASE StartReference \/ StartMix
  BY <1>5, HouseholdPhasesKeep
<1>6. ASSUME NEW v \in Verdicts, NEW o \in BOOLEAN, EndMix(v, o) PROVE QualityInv'
  BY <1>6, EndMixKeeps
<1>7. CASE Return
  BY <1>7, ReturnKeeps
<1>8. CASE \E d \in Dirs, i \in Slots : SlotStep(d, i)
  BY <1>8, SlotKeeps
<1>9. CASE \E p \in Probers : ProbeStep(p)
  BY <1>9, ProbeKeeps
<1>10. CASE StrayRead
  <2>1. UNCHANGED <<phase, job, prober, left, count, used, ledger, resp, profile, both, report>>
    BY <1>10 DEF StrayRead, probing, plan
  <2>2. wire' \in Wire
    <3>1. wire.loose \in 0..MaxLoose /\ wire.stray \in Nat /\ wire.lost \in Nat
      BY DEF QualityInv, TypeOK, Wire
    <3>2. wire' = [loose |-> wire.loose, stray |-> 0, lost |-> wire.lost + wire.stray]
      BY <1>10 DEF StrayRead, QualityInv, TypeOK, Wire
    <3> QED
      BY <3>1, <3>2 DEF Wire
  <2>3. TypeOK'
    BY <1>10, <2>2 DEF QualityInv, TypeOK, StrayRead, probing, plan
  <2> QED
    BY <2>1, <2>3, NoBytesMove
<1> QED
  BY <1>1, <1>2, <1>3, <1>4, <1>5, <1>6, <1>7, <1>8, <1>9, <1>10 DEF Next, PhaseStep, Returned

LEMMA QualityInductive == Spec => []QualityInv
  BY InitQuality, NextQuality, PTL DEF Spec

\* Every byte of the response budget, which probes and the answers of uploads
\* reserve from at once, and of the household ledger is left, reserved, claimed or
\* used: drainResponse and settle give back exactly what was not moved.
THEOREM BytesAccounted == Spec => []Accounted
<1>1. QualityInv => Accounted
  BY DEF QualityInv
<1> QED
  BY <1>1, QualityInductive, PTL

\* A run's counted bytes never pass its limits, for every number of streams, every
\* limit and whatever the measured rates ask for: the shares of the warm-ups, the
\* adaptive allocation, the reserve of the bidirectional phase and concurrent claims
\* add up, and a household run stays within the usable part of its cap.
THEOREM EnvelopeHeld == Spec => []EnvelopeKept
<1>1. QualityInv => EnvelopeKept
  <2> SUFFICES ASSUME QualityInv PROVE EnvelopeKept
    OBVIOUS
  <2>0. /\ TypeOK /\ resp.left \in Nat /\ resp.used \in Nat /\ ledger \in Nat
        /\ used["down"] \in Nat /\ used["up"] \in Nat /\ count["down"] \in Nat /\ count["up"] \in Nat
    BY Types, Words DEF QualityInv
  <2>1. /\ SumFunction(HeldByProbes) \in Nat /\ SumFunction(HeldByUploads) \in Nat /\ SumFunction(Claims) \in Nat
    BY <2>0, SumsNatural
  <2>2. resp.left + resp.used + SumFunction(HeldByProbes) + SumFunction(HeldByUploads)
          = IF profile = "household" THEN ProbeReserve ELSE Capacity
    BY DEF QualityInv, Accounted
  <2>3. ProbeReserve \in Nat /\ Capacity \in Nat /\ Usable \in Nat
    BY Budgets
  <2>4. CASE profile = "household"
    <3>1. ledger + used["down"] + used["up"] + SumFunction(Claims) = Usable - ProbeReserve
      BY <2>4 DEF QualityInv, Accounted
    <3>2. used["down"] + used["up"] + resp.used <= Usable
      BY ONLY <2>0, <2>1, <2>2, <2>3, <2>4, <3>1
    <3> QED
      BY <2>4, <3>2 DEF EnvelopeKept
  <2>5. CASE profile # "household"
    <3>1. profile = "saturation"
      BY <2>0, <2>5 DEF TypeOK
    <3>2. /\ used["down"] + count["down"] + left["down"] + KeptBack("down") <= Limit["down"]
          /\ used["up"] + count["up"] + left["up"] + KeptBack("up") <= Limit["up"]
          /\ left["down"] \in Nat /\ left["up"] \in Nat /\ both["down"] \in Nat /\ both["up"] \in Nat
      BY <3>1, RoomLeft, Words
    <3>3. KeptBack("down") \in Nat /\ KeptBack("up") \in Nat
      BY <3>2 DEF KeptBack
    <3>4. Limit["down"] = Bulk /\ Limit["up"] = MaxUp /\ Bulk \in Nat /\ MaxUp \in Nat /\ Capacity + Bulk = MaxDown
      BY Budgets, QualityAssumption
    <3>5. used["down"] + count["down"] + resp.used <= MaxDown /\ used["up"] + count["up"] <= MaxUp
      BY ONLY <2>0, <2>1, <2>2, <2>3, <2>5, <3>2, <3>3, <3>4
    <3> QED
      BY <2>5, <3>5 DEF EnvelopeKept
  <2> QED
    BY <2>4, <2>5
<1> QED
  BY <1>1, QualityInductive, PTL
=============================================================================
