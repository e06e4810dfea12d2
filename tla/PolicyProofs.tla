---------------------------- MODULE PolicyProofs ----------------------------
(***************************************************************************)
(* What the policies say of every input, not only of the ones the runs     *)
(* enumerate.                                                              *)
(***************************************************************************)
EXTENDS MCPolicies, FiniteSetTheorems, SequenceTheorems, WellFoundedInduction, TLAPS

----------------------------------------------------------------------------
(* Least and greatest members. *)

LEMMA LeastNat ==
  ASSUME NEW S, S \subseteq Nat, S # {}
  PROVE  \E x \in S : \A y \in S : x <= y
<1>1. \E x \in S : \A y \in S : ~(<<y, x>> \in OpToRel(<, Nat))
  BY NatLessThanWellFounded, WFMin
<1>2. \A x, y \in Nat : y < x => <<y, x>> \in OpToRel(<, Nat)
  BY DEF OpToRel
<1>3. PICK x \in S : \A y \in S : ~(<<y, x>> \in OpToRel(<, Nat))
  BY <1>1
<1>4. \A y \in S : ~(y < x)
  BY <1>2, <1>3
<1>5. \A y \in S : x <= y
  BY <1>4
<1> QED
  BY <1>5

LEMMA MinNat ==
  ASSUME NEW S, S \subseteq Nat, S # {}
  PROVE  Min(S) \in S /\ \A y \in S : Min(S) <= y
<1>1. \E x \in S : \A y \in S : x <= y
  BY LeastNat
<1> QED
  BY <1>1 DEF Min

LEMMA MaxNat ==
  ASSUME NEW S, S \subseteq Nat, S # {}, NEW n \in Nat, \A x \in S : x <= n
  PROVE  Max(S) \in S /\ \A y \in S : Max(S) >= y
<1> DEFINE T == {m \in Nat : \E x \in S : m = n - x}
<1>1. T \subseteq Nat /\ T # {}
  <2>1. PICK x \in S : TRUE
    OBVIOUS
  <2>2. n - x \in T
    BY <2>1
  <2> QED
    BY <2>2
<1>2. \E m \in T : \A k \in T : m <= k
  <2> HIDE DEF T
  <2> QED
    BY <1>1, LeastNat
<1>3. PICK m \in T : \A k \in T : m <= k
  BY <1>2
<1>4. PICK x \in S : m = n - x
  OBVIOUS
<1>5. \A y \in S : x >= y
  <2> TAKE y \in S
  <2>1. n - y \in T
    OBVIOUS
  <2>2. m <= n - y
    BY <1>3, <2>1
  <2>3. x \in Nat /\ y \in Nat
    OBVIOUS
  <2> HIDE DEF T
  <2> QED
    BY <1>4, <2>2, <2>3
<1> HIDE DEF T
<1> QED
  BY <1>5 DEF Max

LEMMA TwoInts ==
  ASSUME NEW a \in Int, NEW b \in Int
  PROVE  /\ Min({a, b}) = IF a <= b THEN a ELSE b
         /\ Max({a, b}) = IF a >= b THEN a ELSE b
<1>1. \E x \in {a, b} : \A y \in {a, b} : x <= y
  OBVIOUS
<1>2. \E x \in {a, b} : \A y \in {a, b} : x >= y
  OBVIOUS
<1>3. Min({a, b}) \in {a, b} /\ \A y \in {a, b} : Min({a, b}) <= y
  BY <1>1 DEF Min
<1>4. Max({a, b}) \in {a, b} /\ \A y \in {a, b} : Max({a, b}) >= y
  BY <1>2 DEF Max
<1> QED
  BY <1>3, <1>4

\* A severity is at most 2.
LEMMA Severities ==
  ASSUME NEW S, S \subseteq {0, 1, 2}, 0 \in S
  PROVE  Max(S) \in S /\ \A y \in S : Max(S) >= y
<1>1. S \subseteq Nat /\ S # {} /\ 2 \in Nat /\ \A x \in S : x <= 2
  OBVIOUS
<1> QED
  BY <1>1, MaxNat

----------------------------------------------------------------------------
(* Saturation evidence. *)

Bucket == [usable : BOOLEAN, streams : Nat, mbps : Nat]

\* A stable region begins at the first steady window, is at least as long as one,
\* and is whole.
LEMMA Region ==
  ASSUME NEW b \in Seq(Bucket), DetectStableRegion(b).stable
  PROVE  LET r == DetectStableRegion(b)
         IN  /\ r.start \in Steady(b) /\ r.start \in Nat \ {0} /\ r.end \in Nat
             /\ r.end <= Len(b) /\ r.start + Required - 1 <= r.end
             /\ Whole(b, r.start, r.end)
<1> DEFINE start == Min(Steady(b))
           first == start + Required - 1
           E == {e \in first..Len(b) : \A k \in first..(e - 1) : Compatible(b, start, k)}
<1>1. Steady(b) # {}
  BY DEF DetectStableRegion
<1>2. /\ DetectStableRegion(b) = [stable |-> TRUE, start |-> start, end |-> Max(E)]
  BY <1>1 DEF DetectStableRegion
<1>3. Len(b) \in Nat /\ Steady(b) \subseteq Nat \ {0} /\ \A s \in Steady(b) : s + Required - 1 <= Len(b)
  BY DEF Steady, Required
<1>4. start \in Steady(b)
  BY <1>1, <1>3, MinNat
<1>5. Whole(b, start, first)
  BY <1>4 DEF Steady
<1> HIDE DEF start
<1>6. start \in Nat \ {0} /\ first \in Nat /\ first <= Len(b)
  BY <1>3, <1>4 DEF Required
<1>7. first \in E
  BY <1>3, <1>6
<1>8. E \subseteq Nat /\ \A e \in E : e <= Len(b) /\ first <= e
  BY <1>3, <1>6
<1>9. Max(E) \in E
  <2> HIDE DEF E
  <2> QED
    BY <1>3, <1>7, <1>8, MaxNat
<1> DEFINE end == Max(E)
<1>10. end \in Nat /\ first <= end /\ end <= Len(b)
  <2> HIDE DEF E
  <2> QED
    BY <1>8, <1>9
<1>11. \A k \in first..(end - 1) : Compatible(b, start, k)
  BY <1>9
<1> HIDE DEF end, first, E
<1>12. Whole(b, start, end)
  <2>1. CASE end = first
    BY <1>5, <2>1
  <2>2. CASE end # first
    <3>1. end - 1 \in first..(end - 1) /\ (end - 1) + 1 = end
      BY <1>6, <1>10, <2>2
    <3>2. Whole(b, start, (end - 1) + 1)
      BY <1>11, <3>1 DEF Compatible
    <3> QED
      BY <3>1, <3>2
  <2> QED
    BY <2>1, <2>2
<1>13. DetectStableRegion(b) = [stable |-> TRUE, start |-> start, end |-> end]
  BY <1>2 DEF end
<1> QED
  BY <1>4, <1>6, <1>10, <1>12, <1>13 DEF first

\* A part of a whole region is whole.
LEMMA WholePart ==
  ASSUME NEW b, NEW s \in Nat, NEW e \in Nat, NEW s1 \in Nat, NEW e1 \in Nat,
         Whole(b, s, e), s <= s1, s1 <= e1, e1 <= e
  PROVE  Whole(b, s1, e1)
  BY DEF Whole

LEMMA BothSound ==
  ASSUME NEW d \in Seq(Bucket), NEW u \in Seq(Bucket), DetectBoth(d, u).stable
  PROVE  LET both == DetectBoth(d, u)
         IN  /\ both.end - both.start + 1 >= Required
             /\ \A b \in {d, u} :
                  /\ both.end <= Len(b)
                  /\ Whole(b, both.start, both.end)
                  /\ \E s \in Steady(b) : s <= both.start
<1> DEFINE x == DetectStableRegion(d)
           y == DetectStableRegion(u)
           start == Max({x.start, y.start})
           end == Min({x.end, y.end})
<1>1. x.stable /\ y.stable /\ end - start + 1 >= Required
  BY DEF DetectBoth
<1>2. DetectBoth(d, u) = [stable |-> TRUE, start |-> start, end |-> end]
  BY <1>1 DEF DetectBoth
<1>3. /\ x.start \in Steady(d) /\ x.start \in Nat /\ x.end \in Nat /\ x.end <= Len(d) /\ Whole(d, x.start, x.end)
      /\ y.start \in Steady(u) /\ y.start \in Nat /\ y.end \in Nat /\ y.end <= Len(u) /\ Whole(u, y.start, y.end)
  BY <1>1, Region
<1> HIDE DEF x, y
<1>4. /\ start = IF x.start >= y.start THEN x.start ELSE y.start
      /\ end = IF x.end <= y.end THEN x.end ELSE y.end
  <2>1. x.start \in Int /\ y.start \in Int /\ x.end \in Int /\ y.end \in Int
    BY <1>3
  <2> QED
    BY <2>1, TwoInts
<1> HIDE DEF start, end
<1>5. /\ start \in Nat /\ end \in Nat /\ x.start <= start /\ y.start <= start /\ end <= x.end /\ end <= y.end
      /\ start <= end
  BY <1>1, <1>3, <1>4 DEF Required
<1>6. Len(d) \in Nat /\ Len(u) \in Nat
  OBVIOUS
<1>7. Whole(d, start, end) /\ Whole(u, start, end)
  BY <1>3, <1>5, WholePart
<1>8. end <= Len(d) /\ end <= Len(u)
  BY <1>3, <1>5, <1>6
<1> QED
  BY <1>1, <1>2, <1>3, <1>5, <1>7, <1>8

\* What GradeConfidence and scoreApplication are given, whatever was measured.
Evidences ==
  [throughput : BOOLEAN, samples : [Phases -> Nat], loss : [Phases -> BOOLEAN], stable : [Phases -> BOOLEAN],
   success : Nat, fresh : Nat]

LEMMA AppsSound ==
  ASSUME NEW v \in Evidences
  PROVE  /\ \A app \in DOMAIN PhaseOf :
              Scorable(v, app) =>
                v.samples[PhaseOf[app]] >=
                  (IF PhaseOf[app] = "baseline" THEN MinimumIdleSamples ELSE MinimumLoadedSamples)
         /\ v.throughput /\ Severity(v) = 0 => \A app \in DOMAIN PhaseOf : Scorable(v, app)
<1>0. \A p \in Phases : v.samples[p] \in Nat
  BY DEF Evidences
<1>1. \A app \in DOMAIN PhaseOf : PhaseOf[app] \in Phases
  BY DEF PhaseOf, Phases
<1>2. \A app \in DOMAIN PhaseOf :
        Scorable(v, app) =>
          v.samples[PhaseOf[app]] >=
            (IF PhaseOf[app] = "baseline" THEN MinimumIdleSamples ELSE MinimumLoadedSamples)
  BY <1>0, <1>1 DEF Scorable, MinimumIdleSamples, MinimumLoadedSamples
<1>3. ASSUME v.throughput, Severity(v) = 0, NEW app \in DOMAIN PhaseOf PROVE Scorable(v, app)
  <2> DEFINE A == {1 : p \in {q \in {"download", "upload", "bidirectional"} :
                        v.samples[q] < 10 \/ ~v.stable[q]}}
             B == IF v.samples["baseline"] < MinimumIdleSamples THEN {1} ELSE {}
             C == CASE v.success < 70 -> {2} [] v.success \in 70..89 -> {1} [] OTHER -> {}
             D == IF v.fresh \in 1..69 THEN {1} ELSE {}
             S == {0} \union A \union B \union C \union D
  <2>1. S \subseteq {0, 1, 2} /\ 0 \in S
    BY DEF Evidences
  <2>2. Max(S) = 0
    BY <1>3 DEF Severity
  <2>3. 1 \notin A /\ 1 \notin B
    <3> HIDE DEF A, B, C, D
    <3> HIDE DEF S
    <3>1. \A y \in S : 0 >= y
      BY <2>1, <2>2, Severities
    <3>2. 1 \notin S
      BY <3>1
    <3> QED
      BY <3>2 DEF S
  <2>4. \A q \in {"download", "upload", "bidirectional"} : ~(v.samples[q] < 10)
    BY <2>3
  <2>5. ~(v.samples["baseline"] < MinimumIdleSamples)
    BY <2>3
  <2>6. PhaseOf[app] = "baseline" \/ PhaseOf[app] \in {"download", "upload", "bidirectional"}
    BY DEF PhaseOf
  <2> QED
    BY <1>0, <1>1, <1>3, <2>4, <2>5, <2>6 DEF Scorable, MinimumIdleSamples, MinimumLoadedSamples
<1> QED
  BY <1>2, <1>3

\* For every sequence of buckets in each direction and every outcome of a run: a
\* bidirectional result is taken only over buckets that count in both directions,
\* no application is scored below its minimum of samples, and a run whose
\* confidence nothing lowers scores every application.
THEOREM EvidenceIsSound ==
  /\ \A d, u \in Seq(Bucket) : input = Input("buckets", [down |-> d, up |-> u]) => EvidenceSound
  /\ \A v \in Evidences : input = Input("apps", v) => EvidenceSound
<1>1. ASSUME NEW d \in Seq(Bucket), NEW u \in Seq(Bucket), input = Input("buckets", [down |-> d, up |-> u])
      PROVE  EvidenceSound
  <2>1. ~Given("apps") /\ input.value.down = d /\ input.value.up = u
    BY <1>1 DEF Given, Input
  <2> QED
    BY <2>1, BothSound DEF EvidenceSound
<1>2. ASSUME NEW v \in Evidences, input = Input("apps", v) PROVE EvidenceSound
  <2>1. ~Given("buckets") /\ input.value = v
    BY <1>2 DEF Given, Input
  <2> QED
    BY <2>1, AppsSound DEF EvidenceSound
<1> QED
  BY <1>1, <1>2

----------------------------------------------------------------------------
(* Household verdicts. *)

\* A household result, whatever was measured.
Measured == [key : DOMAIN Catalog, samples : Nat, score : Nat]
Results ==
  [activities : Seq(Measured), stop : STRING, observed : Nat,
   planned : Nat, baseline : Nat, loaded : Nat, success : Nat, fresh : Nat]

LEMMA CatalogApps == \A k \in DOMAIN Catalog : Catalog[k].app \in Apps
  BY DEF Catalog, Activity, Apps

LEMMA ActivityTypes ==
  ASSUME NEW r \in Results, NEW i \in DOMAIN r.activities
  PROVE  r.activities[i].key \in DOMAIN Catalog /\ r.activities[i].score \in Nat
<1>1. r.activities \in Seq(Measured)
  BY DEF Results
<1>2. r.activities[i] \in Measured
  BY <1>1
<1> QED
  BY <1>2 DEF Measured

\* With a verdict, every activity is scored and nothing cut the test short.
LEMMA Sufficient ==
  ASSUME NEW r \in Results, Status(r) # "insufficient"
  PROVE  /\ Scored(r) = DOMAIN r.activities /\ Scored(r) # {}
         /\ r.stop = "enough_evidence" /\ r.observed >= MinObserveMS
         /\ Status(r) = CASE Rating(WeakestScore(r)) = "good" -> "pass"
                          [] Rating(WeakestScore(r)) = "average" -> "struggle"
                          [] OTHER -> "fail"
<1>1. r.observed \in Nat
  BY DEF Results
<1> QED
  BY <1>1 DEF Status, MinObserveMS

LEMMA ShownAvailable ==
  ASSUME NEW r \in Results
  PROVE  /\ Experience(r).available <=> Status(r) # "insufficient"
         /\ Experience(r).available =>
              Experience(r).score = WeakestScore(r) /\ Experience(r).rating = Rating(WeakestScore(r))
<1>1. Status(r) # "insufficient" => Scored(r) # {}
  BY Sufficient
<1> QED
  BY <1>1 DEF Experience

LEMMA Weakest ==
  ASSUME NEW r \in Results, NEW I, I \subseteq DOMAIN r.activities, I # {}
  PROVE  LET m == Min({r.activities[i].score : i \in I})
         IN  (\E i \in I : m = r.activities[i].score) /\ \A i \in I : m \in Nat /\ m <= r.activities[i].score
<1> DEFINE S == {r.activities[i].score : i \in I}
<1>1. \A i \in DOMAIN r.activities : r.activities[i].score \in Nat
  BY ActivityTypes
<1>2. S \subseteq Nat /\ S # {}
  BY <1>1
<1>3. Min(S) \in S /\ \A y \in S : Min(S) <= y
  <2> HIDE DEF S
  <2> QED
    BY <1>2, MinNat
<1> QED
  BY <1>2, <1>3

LEMMA CardsAgree ==
  ASSUME NEW r \in Results, Status(r) # "insufficient"
  PROVE  LET cards == {Card(r, app) : app \in {a \in Apps : InApp(r, a) # {}}}
         IN  (\A c \in cards : c.available) /\ WeakestScore(r) = Min({c.score : c \in cards})
<1> DEFINE apps == {a \in Apps : InApp(r, a) # {}}
           cards == {Card(r, app) : app \in apps}
           M == {c.score : c \in cards}
           w == WeakestScore(r)
<1>0. Scored(r) = DOMAIN r.activities /\ Scored(r) # {}
  BY Sufficient
<1>1. ASSUME NEW app \in apps
      PROVE  /\ Card(r, app) = [available |-> TRUE,
                                score |-> Min({r.activities[i].score : i \in InApp(r, app)})]
             /\ InApp(r, app) \subseteq DOMAIN r.activities /\ InApp(r, app) # {}
  <2>1. InApp(r, app) \subseteq DOMAIN r.activities /\ InApp(r, app) # {}
    BY DEF InApp
  <2>2. InApp(r, app) \intersect Scored(r) = InApp(r, app)
    BY <1>0, <2>1
  <2> QED
    BY <2>1, <2>2 DEF Card
<1>2. ASSUME NEW app \in apps
      PROVE  /\ Card(r, app).available
             /\ \E i \in InApp(r, app) : Card(r, app).score = r.activities[i].score
             /\ \A i \in InApp(r, app) : Card(r, app).score \in Nat /\ Card(r, app).score <= r.activities[i].score
  <2> DEFINE m == Min({r.activities[i].score : i \in InApp(r, app)})
  <2>1. Card(r, app).available /\ Card(r, app).score = m
    BY <1>1
  <2>2. (\E i \in InApp(r, app) : m = r.activities[i].score)
        /\ \A i \in InApp(r, app) : m \in Nat /\ m <= r.activities[i].score
    BY <1>1, Weakest
  <2> HIDE DEF m
  <2> QED
    BY <2>1, <2>2
<1>3. /\ \E i \in DOMAIN r.activities : w = r.activities[i].score
      /\ \A i \in DOMAIN r.activities : w \in Nat /\ w <= r.activities[i].score
  BY <1>0, Weakest DEF WeakestScore
<1> HIDE DEF w
<1>4. \A i \in DOMAIN r.activities : \E app \in apps : i \in InApp(r, app)
  <2> TAKE i \in DOMAIN r.activities
  <2>1. r.activities[i].key \in DOMAIN Catalog
    BY ActivityTypes
  <2>2. Catalog[r.activities[i].key].app \in Apps
    BY <2>1, CatalogApps
  <2>3. i \in InApp(r, Catalog[r.activities[i].key].app)
    BY DEF InApp
  <2> QED
    BY <2>2, <2>3
<1>5. \A c \in cards : c.available
  BY <1>2
<1> HIDE DEF apps
<1>6. \A m \in M : w <= m
  <2>1. ASSUME NEW app \in apps PROVE w <= Card(r, app).score
    <3>1. PICK i \in InApp(r, app) : Card(r, app).score = r.activities[i].score
      BY <1>2
    <3>2. i \in DOMAIN r.activities
      BY <1>1
    <3> QED
      BY <1>3, <3>1, <3>2
  <2> QED
    BY <2>1
<1>7. w \in M
  <2>1. PICK i \in DOMAIN r.activities : w = r.activities[i].score
    BY <1>3
  <2>2. PICK app \in apps : i \in InApp(r, app)
    BY <1>4
  <2>3. Card(r, app).score \in Nat /\ Card(r, app).score <= w
    BY <1>2, <2>1, <2>2
  <2>4. Card(r, app).score \in M
    OBVIOUS
  <2>5. w <= Card(r, app).score /\ w \in Nat
    BY <1>3, <1>6, <2>4
  <2>6. w = Card(r, app).score
    BY <2>3, <2>5
  <2> QED
    BY <2>4, <2>6
<1>8. M \subseteq Nat
  BY <1>2, <1>1
<1>9. Min(M) = w
  <2> HIDE DEF M
  <2>1. Min(M) \in M /\ \A y \in M : Min(M) <= y
    BY <1>7, <1>8, MinNat
  <2>2. Min(M) \in Nat /\ w \in Nat /\ Min(M) <= w /\ w <= Min(M)
    BY <1>6, <1>7, <1>8, <2>1
  <2> QED
    BY ONLY <2>2
<1> QED
  BY <1>5, <1>9 DEF apps, w

LEMMA ConfidenceAgrees ==
  ASSUME NEW r \in Results, Status(r) # "insufficient"
  PROVE  /\ {reason[1] : reason \in Reasons(r)} \intersect
              {"household_window_too_short", "household_budget_limited", "household_time_limited",
               "household_transport_failure", "household_cancelled", "household_activities_unscored"} = {}
         /\ Level(r) = "low" <=> r.success < 70
<1>0. /\ Scored(r) = DOMAIN r.activities /\ r.stop = "enough_evidence"
      /\ r.observed \in Nat /\ r.observed >= MinObserveMS /\ r.success \in Nat
  BY Sufficient DEF Results
<1>1. ~(r.observed < MinObserveMS)
  BY <1>0 DEF MinObserveMS
<1>2. \A reason \in Reasons(r) :
        reason \in {<<"baseline_insufficient_samples", 1>>, <<"household_insufficient_latency_samples", 1>>,
                    <<"some_latency_probes_missing", 1>>, <<"fresh_path_probes_unreliable", 1>>,
                    <<"household_window_shortened", 1>>}
        \/ (reason = <<"too_few_latency_probes", 2>> /\ r.success < 70)
  BY <1>0, <1>1 DEF Reasons
<1>3. r.success < 70 => <<"too_few_latency_probes", 2>> \in Reasons(r)
  BY DEF Reasons
<1> DEFINE S == {0} \union {reason[2] : reason \in Reasons(r)}
<1>4. S \subseteq {0, 1, 2} /\ 0 \in S /\ (2 \in S <=> r.success < 70)
  BY <1>2, <1>3
<1>5. Max(S) \in {0, 1, 2} /\ (Max(S) = 2 <=> 2 \in S)
  <2> HIDE DEF S
  <2>1. Max(S) \in S /\ \A y \in S : Max(S) >= y
    BY <1>4, Severities
  <2>2. Max(S) \in {0, 1, 2}
    BY <1>4, <2>1
  <2>3. 2 \in S => Max(S) >= 2
    BY <2>1
  <2>4. Max(S) = 2 => 2 \in S
    BY <2>1
  <2> QED
    BY ONLY <2>2, <2>3, <2>4
<1>6. Level(r) = CASE Max(S) = 0 -> "high" [] Max(S) = 1 -> "medium" [] OTHER -> "low"
  BY DEF Level
<1> HIDE DEF S
<1>7. Level(r) = "low" <=> r.success < 70
  BY <1>4, <1>5, <1>6
<1> QED
  BY <1>2, <1>7

\* For every household result: the overall score is shown exactly with a verdict, and
\* then HouseholdExperience's cards, SummarizeHousehold's verdict and
\* HouseholdConfidence agree, however many activities there are.
THEOREM VerdictsAgree ==
  \A v \in Results : input = Input("verdict", v) => VerdictAgrees
<1> SUFFICES ASSUME NEW r \in Results, input = Input("verdict", r) PROVE VerdictAgrees
  OBVIOUS
<1>0. input.value = r
  BY DEF Input
<1>1. Experience(r).available <=> Status(r) # "insufficient"
  BY ShownAvailable
<1>2. ASSUME Experience(r).available
      PROVE  LET cards == {Card(r, app) : app \in {a \in Apps : InApp(r, a) # {}}}
                 named == {reason[1] : reason \in Reasons(r)}
             IN  /\ \A c \in cards : c.available
                 /\ Experience(r).score = Min({c.score : c \in cards})
                 /\ Experience(r).rating = "good" <=> Status(r) = "pass"
                 /\ Experience(r).rating = "bad" <=> Status(r) = "fail"
                 /\ named \intersect {"household_window_too_short", "household_budget_limited",
                      "household_time_limited", "household_transport_failure", "household_cancelled",
                      "household_activities_unscored"} = {}
                 /\ Level(r) = "low" <=> r.success < 70
  <2>1. Status(r) # "insufficient"
    BY <1>1, <1>2
  <2>2. Experience(r).score = WeakestScore(r) /\ Experience(r).rating = Rating(WeakestScore(r))
    BY <1>2, ShownAvailable
  <2>3. Rating(WeakestScore(r)) \in {"good", "average", "bad"}
    BY DEF Rating
  <2>4. Status(r) = CASE Rating(WeakestScore(r)) = "good" -> "pass"
                      [] Rating(WeakestScore(r)) = "average" -> "struggle"
                      [] OTHER -> "fail"
    BY <2>1, Sufficient
  <2>5. /\ Experience(r).rating = "good" <=> Status(r) = "pass"
        /\ Experience(r).rating = "bad" <=> Status(r) = "fail"
    BY <2>2, <2>3, <2>4
  <2> QED
    BY <2>1, <2>2, <2>5, CardsAgree, ConfidenceAgrees
<1> QED
  BY <1>0, <1>1, <1>2 DEF VerdictAgrees

----------------------------------------------------------------------------
(* Sums: SumFunction of natural numbers is one, whatever order it adds in. *)

\* A non-empty set of subsets of a finite set has a smallest one; this is what
\* carries the inductions below.
LEMMA SmallestSubset ==
  ASSUME NEW S, IsFiniteSet(S), NEW C, C \in SUBSET (SUBSET S), C # {}
  PROVE  \E V \in C : \A W \in C : ~(W \subseteq V /\ W # V)
<1>1. IsWellFoundedOn(StrictSubsetOrdering(S), FiniteSubsetsOf(S)) /\ FiniteSubsetsOf(S) = SUBSET S
  BY FS_StrictSubsetOrderingWellFounded, FS_FiniteSubsetsOfFinite
<1>2. \E V \in C : \A W \in C : ~(<<W, V>> \in StrictSubsetOrdering(S))
  BY <1>1, WFMin
<1> QED
  BY <1>2 DEF StrictSubsetOrdering

\* The function on the subsets of S that the sum over S is defined by.
Pick(s) == CHOOSE x \in s : TRUE
IsPartial(g, f, S) == g = [s \in SUBSET S |-> IF s = {} THEN 0 ELSE f[Pick(s)] + g[s \ {Pick(s)}]]
Partial(f, S) == CHOOSE g : IsPartial(g, f, S)
SumOn(f, S) == SumFunctionOnSet(f, S)

LEMMA SumIsPartial == ASSUME NEW f, NEW S PROVE SumOn(f, S) = Partial(f, S)[S]
  BY DEF SumOn, SumFunctionOnSet, FoldFunctionOnSet, MapThenFoldSet, Pick, Partial, IsPartial

\* The recursion behind a sum is well defined on every finite set.
LEMMA SumDefined ==
  ASSUME NEW f, NEW S, IsFiniteSet(S)
  PROVE  IsPartial(Partial(f, S), f, S) /\ \A s \in SUBSET S : Partial(f, S)[s] = SumOn(f, s)
<1> DEFINE Good(V) == IsPartial(Partial(f, V), f, V) /\ \A s \in SUBSET V : Partial(f, V)[s] = SumOn(f, s)
<1> DEFINE Bad == {V \in SUBSET S : ~Good(V)}
<1> HIDE DEF Good
<1>1. SUFFICES ASSUME Bad # {} PROVE FALSE
  BY DEF Good
<1>2. PICK V \in Bad : \A W \in Bad : ~(W \subseteq V /\ W # V)
  <2>1. Bad \in SUBSET (SUBSET S)
    OBVIOUS
  <2> HIDE DEF Bad
  <2> QED
    BY <1>1, <2>1, SmallestSubset
<1>3. \A W \in SUBSET V : W # V => Good(W)
  BY <1>2
<1>4. \A s : s # {} => Pick(s) \in s
  BY DEF Pick
<1>5. ASSUME NEW W \in SUBSET V, W # V
      PROVE  SumOn(f, W) = IF W = {} THEN 0 ELSE f[Pick(W)] + SumOn(f, W \ {Pick(W)})
  <2>1. IsPartial(Partial(f, W), f, W) /\ \A s \in SUBSET W : Partial(f, W)[s] = SumOn(f, s)
    BY <1>3, <1>5 DEF Good
  <2>2. Partial(f, W)[W] = IF W = {} THEN 0 ELSE f[Pick(W)] + Partial(f, W)[W \ {Pick(W)}]
    BY <2>1 DEF IsPartial
  <2> QED
    BY <2>1, <2>2
<1> DEFINE g == [s \in SUBSET V |-> IF s = {} THEN 0 ELSE f[Pick(s)] + SumOn(f, s \ {Pick(s)})]
<1>6. IsPartial(g, f, V)
  <2>1. ASSUME NEW s \in SUBSET V, s # {} PROVE g[s \ {Pick(s)}] = SumOn(f, s \ {Pick(s)})
    <3>1. s \ {Pick(s)} \in SUBSET V /\ s \ {Pick(s)} # V
      BY <1>4, <2>1
    <3> QED
      BY <1>5, <3>1
  <2> QED
    BY <2>1 DEF IsPartial
<1> HIDE DEF g
<1>7. IsPartial(Partial(f, V), f, V)
  BY <1>6 DEF IsPartial, Partial
<1>8. \A s \in SUBSET V : Partial(f, V)[s] = SumOn(f, s)
  <2> DEFINE Differ == {s \in SUBSET V : Partial(f, V)[s] # SumOn(f, s)}
  <2>1. SUFFICES ASSUME Differ # {} PROVE FALSE
    OBVIOUS
  <2>2. IsFiniteSet(V)
    BY FS_Subset
  <2>3. PICK s \in Differ : \A W \in Differ : ~(W \subseteq s /\ W # s)
    <3>1. Differ \in SUBSET (SUBSET V)
      OBVIOUS
    <3> HIDE DEF Differ
    <3> QED
      BY <2>1, <2>2, <3>1, SmallestSubset
  <2>4. s # V
    BY SumIsPartial
  <2>5. SumOn(f, s) = IF s = {} THEN 0 ELSE f[Pick(s)] + SumOn(f, s \ {Pick(s)})
    BY <1>5, <2>4
  <2>6. Partial(f, V)[s] = IF s = {} THEN 0 ELSE f[Pick(s)] + Partial(f, V)[s \ {Pick(s)}]
    BY <1>7 DEF IsPartial
  <2>7. s # {} => Partial(f, V)[s \ {Pick(s)}] = SumOn(f, s \ {Pick(s)})
    BY <1>4, <2>3
  <2> QED
    BY <2>5, <2>6, <2>7
<1> QED
  BY <1>7, <1>8 DEF Good

LEMMA SumFirst ==
  ASSUME NEW f, NEW S, IsFiniteSet(S)
  PROVE  SumOn(f, S) = IF S = {} THEN 0 ELSE f[Pick(S)] + SumOn(f, S \ {Pick(S)})
<1>1. IsPartial(Partial(f, S), f, S) /\ \A s \in SUBSET S : Partial(f, S)[s] = SumOn(f, s)
  BY SumDefined
<1>2. Partial(f, S)[S] = IF S = {} THEN 0 ELSE f[Pick(S)] + Partial(f, S)[S \ {Pick(S)}]
  BY <1>1 DEF IsPartial
<1> QED
  BY <1>1, <1>2

LEMMA SumNatural ==
  ASSUME NEW S, IsFiniteSet(S), NEW f \in [S -> Nat]
  PROVE  SumFunction(f) \in Nat /\ (S = {} => SumFunction(f) = 0)
<1>1. SumFunction(f) = SumOn(f, S)
  BY DEF SumFunction, SumOn
<1> DEFINE Bad == {V \in SUBSET S : SumOn(f, V) \notin Nat}
<1>2. ASSUME Bad # {} PROVE FALSE
  <2>1. PICK V \in Bad : \A W \in Bad : ~(W \subseteq V /\ W # V)
    <3>1. Bad \in SUBSET (SUBSET S)
      OBVIOUS
    <3> HIDE DEF Bad
    <3> QED
      BY <1>2, <3>1, SmallestSubset
  <2>2. IsFiniteSet(V)
    BY FS_Subset
  <2>3. SumOn(f, V) = IF V = {} THEN 0 ELSE f[Pick(V)] + SumOn(f, V \ {Pick(V)})
    BY <2>2, SumFirst
  <2>4. V # {} => Pick(V) \in V
    BY DEF Pick
  <2>5. V # {} => SumOn(f, V \ {Pick(V)}) \in Nat /\ f[Pick(V)] \in Nat
    BY <2>1, <2>4
  <2> QED
    BY <2>3, <2>5
<1>3. S = {} => SumOn(f, S) = 0
  BY SumFirst
<1> QED
  BY <1>1, <1>2, <1>3

----------------------------------------------------------------------------
(* Household plans. *)

\* A mix, a byte cap and a time limit, whatever they are.
PlanRequests == [mix : [DOMAIN Catalog -> Nat], cap : Nat, available : Int]

LEMMA CatalogRates ==
  \A k \in DOMAIN Catalog :
    Catalog[k].kbps \in Nat /\ Catalog[k].interval \in {2000, 100, 50, 3000}
  BY DEF Catalog, Activity

LEMMA CatalogFinite == IsFiniteSet(DOMAIN Catalog)
<1> DEFINE K1 == {"stream_uhd"} \union {"stream_fhd"}
           K2 == K1 \union {"stream_hd"}
           K3 == K2 \union {"video_call"}
           K4 == K3 \union {"game"}
           K5 == K4 \union {"browsing"}
<1>1. DOMAIN Catalog = K5
  BY DEF Catalog
<1>2. IsFiniteSet(K1) /\ (IsFiniteSet(K1) => IsFiniteSet(K2)) /\ (IsFiniteSet(K2) => IsFiniteSet(K3))
  BY FS_Singleton, FS_AddElement
<1>3. (IsFiniteSet(K3) => IsFiniteSet(K4)) /\ (IsFiniteSet(K4) => IsFiniteSet(K5))
  BY FS_AddElement
<1> QED
  BY ONLY <1>1, <1>2, <1>3

LEMMA PlannedNat ==
  ASSUME NEW k \in DOMAIN Catalog, NEW n \in Nat
  PROVE  PlannedBytes(Catalog[k], n) \in Nat
<1>1. Catalog[k].kbps \in Nat /\ Catalog[k].interval \in {2000, 100, 50, 3000}
  BY CatalogRates
<1>2. n \div Catalog[k].interval \in Nat
  BY <1>1
<1>3. (n \div Catalog[k].interval) * 600 \in Nat
  BY <1>2
<1>4. Catalog[k].kbps * n \in Nat
  BY <1>1
<1>5. \A m \in Nat : m \div 8 \in Nat
  OBVIOUS
<1> QED
  BY <1>3, <1>4, <1>5 DEF PlannedBytes

LEMMA MixNat ==
  ASSUME NEW mix \in [DOMAIN Catalog -> Nat], NEW ms \in Nat
  PROVE  MixBytes(mix, ms) \in Nat
<1> DEFINE f == [k \in DOMAIN Catalog |-> mix[k] * PlannedBytes(Catalog[k], WarmupMS + ms)]
<1>0. WarmupMS + ms \in Nat
  BY DEF WarmupMS
<1>1. ASSUME NEW k \in DOMAIN Catalog PROVE mix[k] * PlannedBytes(Catalog[k], WarmupMS + ms) \in Nat
  <2>1. mix[k] \in Nat /\ PlannedBytes(Catalog[k], WarmupMS + ms) \in Nat
    BY <1>0, PlannedNat
  <2> QED
    BY <2>1
<1>2. f \in [DOMAIN Catalog -> Nat]
  BY <1>1
<1> HIDE DEF f
<1>3. SumFunction(f) \in Nat
  BY <1>2, CatalogFinite, SumNatural
<1> QED
  BY <1>3 DEF MixBytes, f

\* The reference is one of the streams, if there is one.
LEMMA ReferenceStream ==
  ASSUME NEW mix \in [DOMAIN Catalog -> Nat]
  PROVE  Reference(mix) = {} \/ \E k \in DOMAIN Catalog : Reference(mix) = {Catalog[k]}
<1> DEFINE streams == {i \in 1..3 : mix[Keys[i]] > 0}
<1>1. CASE streams = {}
  BY <1>1 DEF Reference
<1>2. CASE streams # {}
  <2>1. Reference(mix) = {Catalog[Keys[Min(streams)]]}
    BY <1>2 DEF Reference
  <2>2. streams \subseteq Nat
    OBVIOUS
  <2>3. Min(streams) \in streams
    <3> HIDE DEF streams
    <3> QED
      BY <1>2, <2>2, MinNat
  <2>4. Min(streams) \in 1..3
    BY <2>3
  <2>5. \A i \in 1..3 : Keys[i] \in DOMAIN Catalog
    BY DEF Keys, Catalog
  <2> HIDE DEF streams
  <2> QED
    BY <2>1, <2>4, <2>5
<1> QED
  BY <1>1, <1>2

\* What an attempt costs: the reference only adds to it.
LEMMA AttemptCosts ==
  ASSUME NEW mix \in [DOMAIN Catalog -> Nat], NEW ms \in Nat
  PROVE  /\ Cost(mix, FALSE, ms).bytes = MixBytes(mix, ms) /\ Cost(mix, FALSE, ms).time = WarmupMS + ms
         /\ Cost(mix, TRUE, ms).bytes \in Nat /\ Cost(mix, TRUE, ms).bytes >= MixBytes(mix, ms)
         /\ Cost(mix, TRUE, ms).time \in Nat /\ Cost(mix, TRUE, ms).time >= WarmupMS + ms
<1> DEFINE F(alone) == [a \in alone |-> PlannedBytes(a, a.interval) * (ReferenceSegments + 1)]
           G(alone) == [a \in alone |-> a.interval * ReferenceSegments + a.interval \div 2]
<1>0. MixBytes(mix, ms) \in Nat /\ WarmupMS + ms \in Nat
  BY MixNat DEF WarmupMS
<1>1. IsFiniteSet({}) /\ F({}) \in [{} -> Nat] /\ G({}) \in [{} -> Nat]
  BY FS_EmptySet
<1>2. IsFiniteSet(Reference(mix))
  BY ReferenceStream, FS_EmptySet, FS_Singleton
<1>3. ASSUME NEW a \in Reference(mix)
      PROVE  /\ PlannedBytes(a, a.interval) * (ReferenceSegments + 1) \in Nat
             /\ a.interval * ReferenceSegments + a.interval \div 2 \in Nat
  <2>1. PICK k \in DOMAIN Catalog : a = Catalog[k]
    BY <1>3, ReferenceStream
  <2>2. a.interval \in {2000, 100, 50, 3000}
    BY <2>1, CatalogRates
  <2>3. PlannedBytes(a, a.interval) \in Nat
    BY <2>1, <2>2, PlannedNat
  <2> QED
    BY <2>2, <2>3 DEF ReferenceSegments
<1>4. F(Reference(mix)) \in [Reference(mix) -> Nat] /\ G(Reference(mix)) \in [Reference(mix) -> Nat]
  BY <1>3
<1>5. /\ Cost(mix, FALSE, ms).bytes = MixBytes(mix, ms) + SumFunction(F({}))
      /\ Cost(mix, FALSE, ms).time = WarmupMS + ms + SumFunction(G({}))
      /\ Cost(mix, TRUE, ms).bytes = MixBytes(mix, ms) + SumFunction(F(Reference(mix)))
      /\ Cost(mix, TRUE, ms).time = WarmupMS + ms + SumFunction(G(Reference(mix)))
  BY DEF Cost
<1> HIDE DEF F, G
<1>6. SumFunction(F({})) = 0 /\ SumFunction(G({})) = 0
  BY <1>1, SumNatural
<1>7. SumFunction(F(Reference(mix))) \in Nat /\ SumFunction(G(Reference(mix))) \in Nat
  BY <1>2, <1>4, SumNatural
<1> DEFINE x == SumFunction(F(Reference(mix)))
           y == SumFunction(G(Reference(mix)))
           m == MixBytes(mix, ms)
           t == WarmupMS + ms
<1>8. x \in Nat /\ y \in Nat /\ m \in Nat /\ t \in Nat
  BY <1>0, <1>7
<1>9. Cost(mix, TRUE, ms).bytes = m + x /\ Cost(mix, TRUE, ms).time = t + y
  BY <1>5
<1>10. Cost(mix, FALSE, ms).bytes = m + 0 /\ Cost(mix, FALSE, ms).time = t + 0
  BY <1>5, <1>6
<1> HIDE DEF x, y, m, t
<1>11. m + 0 = m /\ t + 0 = t /\ m + x \in Nat /\ t + y \in Nat /\ m + x >= m /\ t + y >= t
  BY <1>8
<1> QED
  BY <1>9, <1>10, <1>11 DEF m, t

\* The attempts in their order: with the reference, then one second shorter each time.
Referenced(a) == a.reference /\ a.observe = ObserveMS
Shorter(a, ms) == ~a.reference /\ a.observe = ms

LEMMA FiveLong == ASSUME NEW n \in Nat, 1..n = 1..5 PROVE n = 5
<1>1. \A i \in Int : i \in 1..n <=> i \in 1..5
  OBVIOUS
<1>2. \A i \in Int : (1 <= i /\ i <= n) <=> (1 <= i /\ i <= 5)
  BY <1>1
<1>3. (1 <= 5 /\ 5 <= n) <=> (1 <= 5 /\ 5 <= 5)
  BY <1>2
<1>4. (1 <= n /\ n <= n) <=> (1 <= n /\ n <= 5)
  BY <1>2
<1> QED
  BY ONLY n \in Nat, <1>3, <1>4

LEMMA AttemptOrder ==
  ASSUME NEW mix
  PROVE  \E n \in {5, 6} :
           /\ Len(Attempts(mix)) = n /\ DOMAIN Attempts(mix) = 1..n
           /\ n = 6 => Referenced(Attempts(mix)[1])
           /\ \A j \in 1..5 : Shorter(Attempts(mix)[n - 5 + j], 13000 - j * 1000)
<1> DEFINE shorter == [i \in 1..5 |-> [reference |-> FALSE, observe |-> ObserveMS - (i - 1) * 1000]]
           one == <<[reference |-> TRUE, observe |-> ObserveMS]>>
           Tries == [reference : BOOLEAN, observe : Int]
<1>1. ASSUME NEW j \in 1..5 PROVE Shorter(shorter[j], 13000 - j * 1000)
  <2>1. ~shorter[j].reference /\ shorter[j].observe = ObserveMS - (j - 1) * 1000
    OBVIOUS
  <2>2. ObserveMS - (j - 1) * 1000 = 13000 - j * 1000
    BY DEF ObserveMS
  <2> HIDE DEF shorter
  <2> QED
    BY <2>1, <2>2 DEF Shorter
<1>2. Referenced(one[1])
  BY DEF Referenced
<1>3. shorter \in Seq(Tries) /\ Len(shorter) = 5 /\ DOMAIN shorter = 1..5
  <2>1. \A i \in 1..5 : [reference |-> FALSE, observe |-> ObserveMS - (i - 1) * 1000] \in Tries
    BY DEF ObserveMS
  <2>2. shorter \in [1..5 -> Tries]
    BY <2>1
  <2> HIDE DEF shorter, Tries
  <2>3. shorter \in Seq(Tries)
    BY <2>2, SeqDef
  <2>4. Len(shorter) \in Nat /\ 1..Len(shorter) = 1..5
    BY <2>2, <2>3, LenProperties
  <2>5. Len(shorter) = 5
    BY <2>4, FiveLong
  <2> QED
    BY <2>2, <2>3, <2>5
<1>4. one \in Seq(Tries) /\ Len(one) = 1
  BY DEF ObserveMS
<1>5. Attempts(mix) = shorter \/ Attempts(mix) = one \o shorter
  BY DEF Attempts
<1> HIDE DEF shorter, one, Tries
<1>6. CASE Attempts(mix) = shorter
  <2>1. \A j \in 1..5 : 5 - 5 + j = j
    OBVIOUS
  <2>2. ASSUME NEW j \in 1..5 PROVE Shorter(shorter[5 - 5 + j], 13000 - j * 1000)
    BY <1>1, <2>1
  <2> QED
    BY <1>3, <1>6, <2>2
<1>7. CASE Attempts(mix) = one \o shorter
  <2> DEFINE c == one \o shorter
  <2>1. /\ c \in Seq(Tries) /\ Len(c) = Len(one) + Len(shorter)
        /\ \A i \in 1..(Len(one) + Len(shorter)) :
             c[i] = IF i <= Len(one) THEN one[i] ELSE shorter[i - Len(one)]
    BY <1>3, <1>4, ConcatProperties
  <2> HIDE DEF c
  <2>2. Len(c) = 6 /\ DOMAIN c = 1..6
    BY <1>3, <1>4, <2>1
  <2>3. c[1] = one[1]
    BY <1>3, <1>4, <2>1
  <2>4. ASSUME NEW j \in 1..5 PROVE Shorter(c[6 - 5 + j], 13000 - j * 1000)
    <3>1. 6 - 5 + j \in 1..(1 + 5) /\ ~(6 - 5 + j <= 1) /\ (6 - 5 + j) - 1 = j
      OBVIOUS
    <3>2. c[6 - 5 + j] = shorter[j]
      BY <1>3, <1>4, <2>1, <3>1
    <3> QED
      BY <1>1, <3>2
  <2>5. Attempts(mix) = c /\ Referenced(c[1])
    BY <1>2, <1>7, <2>3 DEF c
  <2> QED
    BY <2>2, <2>4, <2>5
<1> QED
  BY <1>5, <1>6, <1>7

\* What a plan without the reference takes.
PlanFits(mix, cap, available, ms) == MixBytes(mix, ms) <= Usable(cap) /\ WarmupMS + ms <= available

LEMMA UsableGrows ==
  \A c, d \in Nat : Usable(c) \in Int /\ (c <= d => Usable(c) <= Usable(d))
  BY DEF Usable

\* An attempt that fits does so without the reference too.
LEMMA AttemptFits ==
  ASSUME NEW mix \in [DOMAIN Catalog -> Nat], NEW cap \in Nat, NEW available \in Int,
         NEW a, a.observe \in Nat
  PROVE  /\ Fits(mix, cap, available, a) => PlanFits(mix, cap, available, a.observe)
         /\ ~a.reference /\ PlanFits(mix, cap, available, a.observe) => Fits(mix, cap, available, a)
<1> DEFINE ms == a.observe
<1>1. MixBytes(mix, ms) \in Nat /\ WarmupMS + ms \in Nat /\ Usable(cap) \in Int
  BY MixNat, UsableGrows DEF WarmupMS
<1>2. CASE a.reference
  <2>1. Cost(mix, a.reference, ms) = Cost(mix, TRUE, ms)
    BY <1>2 DEF Cost
  <2> DEFINE b == Cost(mix, TRUE, ms).bytes
             t == Cost(mix, TRUE, ms).time
  <2>2. b \in Nat /\ b >= MixBytes(mix, ms) /\ t \in Nat /\ t >= WarmupMS + ms
    BY AttemptCosts
  <2>3. Fits(mix, cap, available, a) => b <= Usable(cap) /\ t <= available
    BY <2>1 DEF Fits
  <2> DEFINE m == MixBytes(mix, ms)
             w == WarmupMS + ms
             u == Usable(cap)
  <2>4. (b <= u => m <= u) /\ (t <= available => w <= available)
    <3>1. m \in Nat /\ w \in Nat /\ u \in Int /\ b \in Nat /\ b >= m /\ t \in Nat /\ t >= w
      BY <1>1, <2>2
    <3> HIDE DEF m, w, u, b, t
    <3> QED
      BY <3>1
  <2> QED
    BY <1>2, <2>3, <2>4 DEF PlanFits
<1>3. CASE ~a.reference
  <2>1. Cost(mix, a.reference, ms) = Cost(mix, FALSE, ms)
    BY <1>3 DEF Cost
  <2>2. Cost(mix, FALSE, ms).bytes = MixBytes(mix, ms) /\ Cost(mix, FALSE, ms).time = WarmupMS + ms
    BY AttemptCosts
  <2> QED
    BY <2>1, <2>2 DEF Fits, PlanFits
<1> QED
  BY <1>2, <1>3

\* The plan is the first attempt that fits, and so the longest window that does.
LEMMA PlanChosen ==
  ASSUME NEW mix \in [DOMAIN Catalog -> Nat], NEW cap \in Nat, NEW available \in Int
  PROVE  LET plan == PlanHousehold(mix, cap, available)
             o == plan.attempt.observe
         IN  /\ \E s \in 8..12 : o = s * 1000
             /\ \A s \in 8..12 : PlanFits(mix, cap, available, s * 1000) => s * 1000 <= o
             /\ plan.reason = "none" => PlanFits(mix, cap, available, o)
             /\ plan.reason # "none" => o = 8000 /\ ~PlanFits(mix, cap, available, o)
             /\ plan.reason = "insufficient_time" => MixBytes(mix, MinObserveMS) <= Usable(cap)
             /\ plan.attempt.reference => o = ObserveMS
<1> DEFINE plan == PlanHousehold(mix, cap, available)
           o == plan.attempt.observe
           A == Attempts(mix)
           fitting == {i \in DOMAIN A : Fits(mix, cap, available, A[i])}
           last == A[Len(A)]
           Fit(ms) == PlanFits(mix, cap, available, ms)
<1>1. PICK n \in {5, 6} :
           /\ Len(A) = n /\ DOMAIN A = 1..n
           /\ n = 6 => Referenced(A[1])
           /\ \A j \in 1..5 : Shorter(A[n - 5 + j], 13000 - j * 1000)
  BY AttemptOrder
<1>2. /\ fitting # {} => plan = [attempt |-> A[Min(fitting)], reason |-> "none"]
      /\ fitting = {} =>
           /\ plan.attempt = last
           /\ plan.reason = IF Cost(mix, FALSE, last.observe).bytes > Usable(cap)
                            THEN "insufficient_bytes" ELSE "insufficient_time"
  BY DEF PlanHousehold
<1>3. \A s \in 8..12 : /\ n - 5 + (13 - s) \in 1..n
                       /\ Shorter(A[n - 5 + (13 - s)], s * 1000)
  <2> SUFFICES ASSUME NEW s \in 8..12
               PROVE  n - 5 + (13 - s) \in 1..n /\ Shorter(A[n - 5 + (13 - s)], s * 1000)
    OBVIOUS
  <2>1. 13 - s \in 1..5 /\ 13000 - (13 - s) * 1000 = s * 1000 /\ n - 5 + (13 - s) \in 1..n
    OBVIOUS
  <2> HIDE DEF A
  <2> QED
    BY <1>1, <2>1
<1>4. \A i \in 1..n : \/ i = 1 /\ Referenced(A[i])
                      \/ \E s \in 8..12 : i = n - 5 + (13 - s) /\ Shorter(A[i], s * 1000)
  <2> SUFFICES ASSUME NEW i \in 1..n, ~(i = 1 /\ Referenced(A[i]))
               PROVE  \E s \in 8..12 : i = n - 5 + (13 - s) /\ Shorter(A[i], s * 1000)
    OBVIOUS
  <2>1. i = 1 => n = 5
    BY <1>1
  <2>2. 8 + n - i \in 8..12 /\ i = n - 5 + (13 - (8 + n - i))
    BY <2>1
  <2> HIDE DEF A
  <2> QED
    BY <1>3, <2>2
<1>5. \A i \in 1..n : A[i].observe \in Nat
  <2> HIDE DEF A
  <2> QED
    BY <1>4 DEF Referenced, Shorter, ObserveMS
<1>6. \A s \in 8..12 : Fit(s * 1000) => n - 5 + (13 - s) \in fitting
  <2> SUFFICES ASSUME NEW s \in 8..12, Fit(s * 1000) PROVE n - 5 + (13 - s) \in fitting
    OBVIOUS
  <2> DEFINE i == n - 5 + (13 - s)
  <2>1. i \in 1..n /\ Shorter(A[i], s * 1000)
    BY <1>3
  <2> HIDE DEF i, A
  <2>2. ~A[i].reference /\ A[i].observe = s * 1000 /\ A[i].observe \in Nat
    BY <1>5, <2>1 DEF Shorter
  <2>3. Fits(mix, cap, available, A[i])
    BY <2>2, AttemptFits
  <2> QED
    BY <1>1, <2>1, <2>3 DEF i
<1>7. \A i \in fitting : i \in 1..n /\ Fit(A[i].observe)
  <2> HIDE DEF A
  <2> QED
    BY <1>1, <1>5, AttemptFits
<1> HIDE DEF A, fitting, Fit
<1>8. CASE fitting # {}
  <2> DEFINE m == Min(fitting)
  <2>1. m \in fitting /\ \A i \in fitting : m <= i
    <3>1. fitting \subseteq Nat
      BY <1>7
    <3> QED
      BY <1>8, <3>1, MinNat
  <2>2. o = A[m].observe /\ plan.reason = "none" /\ plan.attempt = A[m]
    BY <1>2, <1>8
  <2> HIDE DEF m, plan
  <2>3. m \in 1..n /\ Fit(o)
    BY <1>7, <2>1, <2>2
  <2>4. CASE m = 1 /\ Referenced(A[m])
    <3>1. o = 12000 /\ o = ObserveMS
      BY <2>2, <2>4 DEF Referenced, ObserveMS
    <3>2. 12 \in 8..12 /\ 12 * 1000 = 12000 /\ \A s \in 8..12 : s * 1000 <= 12000
      OBVIOUS
    <3>3. \E s \in 8..12 : o = s * 1000
      BY <3>1, <3>2
    <3>4. \A s \in 8..12 : Fit(s * 1000) => s * 1000 <= o
      BY <3>1, <3>2
    <3> QED
      BY <2>2, <2>3, <3>1, <3>3, <3>4 DEF Fit, plan
  <2>5. CASE \E s \in 8..12 : m = n - 5 + (13 - s) /\ Shorter(A[m], s * 1000)
    <3>1. PICK s \in 8..12 : m = n - 5 + (13 - s) /\ Shorter(A[m], s * 1000)
      BY <2>5
    <3>2. o = s * 1000 /\ ~plan.attempt.reference
      BY <2>2, <3>1 DEF Shorter
    <3>3. ASSUME NEW r \in 8..12, Fit(r * 1000) PROVE r * 1000 <= o
      <4>1. m <= n - 5 + (13 - r)
        BY <1>6, <2>1, <3>3
      <4> QED
        BY ONLY <4>1, <3>1, <3>2, n \in {5, 6}
    <3> QED
      BY <2>2, <2>3, <3>2, <3>3 DEF Fit, plan
  <2> QED
    BY <1>4, <2>3, <2>4, <2>5
<1>9. CASE fitting = {}
  <2>1. plan.attempt = last /\ Shorter(last, 8000)
    <3>1. 8 \in 8..12 /\ n - 5 + (13 - 8) = n /\ 8 * 1000 = 8000
      OBVIOUS
    <3>2. Shorter(A[n], 8000)
      BY <1>3, <3>1
    <3> QED
      BY <1>1, <1>2, <1>9, <3>2
  <2>2. o = 8000 /\ ~plan.attempt.reference /\ last.observe = 8000
    BY <2>1 DEF Shorter
  <2>3. \A s \in 8..12 : ~Fit(s * 1000)
    BY <1>6, <1>9
  <2>4. ~Fit(8000)
    <3>1. 8 \in 8..12 /\ 8 * 1000 = 8000
      OBVIOUS
    <3> QED
      BY <2>3, <3>1
  <2> DEFINE b == Cost(mix, FALSE, last.observe).bytes
  <2>5. plan.reason = IF b > Usable(cap) THEN "insufficient_bytes" ELSE "insufficient_time"
    BY <1>2, <1>9
  <2>6. b = MixBytes(mix, last.observe) /\ MixBytes(mix, last.observe) \in Nat /\ Usable(cap) \in Int
    <3>1. last.observe \in Nat
      BY <2>2
    <3> HIDE DEF last
    <3> QED
      BY <3>1, AttemptCosts, MixNat, UsableGrows
  <2> HIDE DEF b, plan, last
  <2>7. plan.reason # "none" /\ (plan.reason = "insufficient_time" => MixBytes(mix, 8000) <= Usable(cap))
    <3>1. b \in Nat /\ b = MixBytes(mix, 8000)
      BY <2>2, <2>6
    <3>2. CASE b > Usable(cap)
      BY <2>5, <3>2
    <3>3. CASE ~(b > Usable(cap))
      <4>1. b <= Usable(cap)
        BY <2>6, <3>1, <3>3
      <4> QED
        BY <2>5, <3>1, <3>3, <4>1
    <3> QED
      BY <3>2, <3>3
  <2>8. \E s \in 8..12 : 8000 = s * 1000
    <3>1. 8 \in 8..12 /\ 8 * 1000 = 8000
      OBVIOUS
    <3> QED
      BY <3>1
  <2> QED
    <3>1. \E s \in 8..12 : o = s * 1000
      BY <2>2, <2>8
    <3>2. plan.reason # "none" => o = 8000 /\ ~Fit(o)
      BY <2>2, <2>4
    <3>3. plan.reason = "insufficient_time" => MixBytes(mix, MinObserveMS) <= Usable(cap)
      BY <2>7 DEF MinObserveMS
    <3> QED
      BY <2>2, <2>3, <2>7, <3>1, <3>2, <3>3 DEF Fit, plan
<1> QED
  BY <1>8, <1>9

\* A plan is never shortened by a higher cap or a later limit.
LEMMA PlanGrows ==
  ASSUME NEW mix \in [DOMAIN Catalog -> Nat], NEW cap \in Nat, NEW available \in Int,
         NEW c \in Nat, NEW t \in Int, cap <= c, available <= t
  PROVE  PlanHousehold(mix, cap, available).attempt.observe <= PlanHousehold(mix, c, t).attempt.observe
<1> DEFINE p == PlanHousehold(mix, cap, available)
           q == PlanHousehold(mix, c, t)
           o == p.attempt.observe
           r == q.attempt.observe
<1>0. /\ \E s \in 8..12 : r = s * 1000
      /\ \A s \in 8..12 : PlanFits(mix, c, t, s * 1000) => s * 1000 <= r
      /\ q.reason = "none" => PlanFits(mix, c, t, r)
  BY ONLY mix \in [DOMAIN Catalog -> Nat], c \in Nat, t \in Int, PlanChosen
<1>1. PICK s \in 8..12 : o = s * 1000
  BY PlanChosen
<1>2. PICK u \in 8..12 : r = u * 1000
  BY <1>0
<1>3. CASE p.reason = "none"
  <2>1. PlanFits(mix, cap, available, o)
    BY <1>3, PlanChosen
  <2>2. PlanFits(mix, c, t, o)
    <3>1. MixBytes(mix, o) \in Nat /\ WarmupMS + o \in Nat
      <4>1. o \in Nat
        BY <1>1
      <4> HIDE DEF o
      <4> QED
        BY <4>1, MixNat DEF WarmupMS
    <3>2. Usable(cap) \in Int /\ Usable(c) \in Int /\ Usable(cap) <= Usable(c)
      BY UsableGrows
    <3>3. MixBytes(mix, o) <= Usable(cap) /\ WarmupMS + o <= available
      BY <2>1 DEF PlanFits
    <3> DEFINE m == MixBytes(mix, o)
               w == WarmupMS + o
               x == Usable(cap)
               y == Usable(c)
    <3>4. m \in Nat /\ w \in Nat /\ x \in Int /\ y \in Int /\ x <= y /\ m <= x /\ w <= available
      BY <3>1, <3>2, <3>3
    <3> HIDE DEF m, w, x, y, o
    <3>5. m <= y /\ w <= t
      BY <3>4
    <3> QED
      BY <3>5 DEF m, w, y, PlanFits
  <2> HIDE DEF o, r
  <2> QED
    BY <1>0, <1>1, <2>2 DEF o, r
<1>4. CASE p.reason # "none"
  <2>1. o = 8000
    BY <1>4, PlanChosen
  <2>2. 8000 <= r
    <3> HIDE DEF r
    <3> QED
      BY <1>2
  <2> QED
    BY <2>1, <2>2
<1> QED
  BY <1>3, <1>4

\* A household plan has the longest observation window that fits the byte cap and
\* the time limit, says why when none does, keeps the reference only with the full
\* window, and never gets shorter when there is more to spend, for every mix, cap
\* and limit (PlanHousehold).
THEOREM PlansLongest ==
  \A v \in PlanRequests : input = Input("plan", v) => PlanLongest
<1> SUFFICES ASSUME NEW v \in PlanRequests, input = Input("plan", v) PROVE PlanLongest
  OBVIOUS
<1> DEFINE r == input.value
<1>1. r.mix \in [DOMAIN Catalog -> Nat] /\ r.cap \in Nat /\ r.available \in Int
  BY DEF Input, PlanRequests
<1> DEFINE plan == PlanHousehold(r.mix, r.cap, r.available)
           o == plan.attempt.observe
           fits(ms) == Fits(r.mix, r.cap, r.available, [reference |-> FALSE, observe |-> ms])
           Fit(ms) == PlanFits(r.mix, r.cap, r.available, ms)
<1>2. /\ \E s \in 8..12 : o = s * 1000
      /\ \A s \in 8..12 : Fit(s * 1000) => s * 1000 <= o
      /\ plan.reason = "none" => Fit(o)
      /\ plan.reason # "none" => ~Fit(o)
      /\ plan.reason = "insufficient_time" => MixBytes(r.mix, MinObserveMS) <= Usable(r.cap)
      /\ plan.attempt.reference => o = ObserveMS
  BY <1>1, PlanChosen
<1>3. ASSUME NEW s \in 8..12 PROVE fits(s * 1000) <=> Fit(s * 1000)
  <2> DEFINE a == [reference |-> FALSE, observe |-> s * 1000]
  <2>1. ~a.reference /\ a.observe = s * 1000 /\ a.observe \in Nat
    OBVIOUS
  <2>2. fits(s * 1000) <=> Fits(r.mix, r.cap, r.available, a)
    OBVIOUS
  <2> HIDE DEF a, fits
  <2>3. /\ Fits(r.mix, r.cap, r.available, a) => Fit(a.observe)
        /\ ~a.reference /\ Fit(a.observe) => Fits(r.mix, r.cap, r.available, a)
    BY <1>1, <2>1, AttemptFits
  <2> QED
    BY <2>1, <2>2, <2>3
<1>4. \A c \in Caps : c > r.cap => o <= PlanHousehold(r.mix, c, r.available).attempt.observe
  <2> SUFFICES ASSUME NEW c \in Caps, c > r.cap
               PROVE  o <= PlanHousehold(r.mix, c, r.available).attempt.observe
    OBVIOUS
  <2>1. c \in Nat
    BY DEF Caps
  <2>2. r.cap <= c /\ r.available <= r.available
    BY <1>1, <2>1
  <2> QED
    BY <1>1, <2>1, <2>2, PlanGrows
<1>5. \A t \in Times : t > r.available => o <= PlanHousehold(r.mix, r.cap, t).attempt.observe
  <2> SUFFICES ASSUME NEW t \in Times, t > r.available
               PROVE  o <= PlanHousehold(r.mix, r.cap, t).attempt.observe
    OBVIOUS
  <2>1. t \in Int
    BY DEF Times
  <2>2. r.available <= t /\ r.cap <= r.cap
    BY <1>1, <2>1
  <2> QED
    BY <1>1, <2>1, <2>2, PlanGrows
<1> HIDE DEF Fit, fits, plan
<1>6. \A s \in 8..12 : fits(s * 1000) => s * 1000 <= o
  BY <1>2, <1>3
<1>7. plan.reason = "none" <=> fits(o)
  BY <1>2, <1>3
<1>8. /\ \A s \in 8..12 : fits(s * 1000) => s * 1000 <= plan.attempt.observe
      /\ plan.reason = "none" <=> fits(plan.attempt.observe)
      /\ plan.reason = "insufficient_time" => MixBytes(r.mix, MinObserveMS) <= Usable(r.cap)
      /\ plan.attempt.reference => plan.attempt.observe = ObserveMS
      /\ \A c \in Caps : c > r.cap => plan.attempt.observe <= PlanHousehold(r.mix, c, r.available).attempt.observe
      /\ \A t \in Times : t > r.available => plan.attempt.observe <= PlanHousehold(r.mix, r.cap, t).attempt.observe
  BY <1>2, <1>4, <1>5, <1>6, <1>7, Zenon
<1> QED
  BY <1>1, <1>8, Zenon DEF PlanLongest, plan, fits

----------------------------------------------------------------------------
(* Configurations: what NormalizeConfig makes of one mix and one profile. *)

LEMMA MixKeys ==
  DOMAIN Catalog = {"stream_uhd", "stream_fhd", "stream_hd", "video_call", "game", "browsing"}
  BY DEF Catalog

LEMMA DefaultCounts ==
  /\ DefaultMix.stream_uhd = 2 /\ DefaultMix.stream_fhd = 0 /\ DefaultMix.stream_hd = 0
  /\ DefaultMix.video_call = 1 /\ DefaultMix.game = 1 /\ DefaultMix.browsing = 1
  BY MixKeys DEF DefaultMix

Most(k) == IF k = "browsing" THEN 1 ELSE MaxCount
ClampedMix(mix) == [k \in DOMAIN Catalog |-> Max({0, Min({mix[k], Most(k)})})]

LEMMA MixClamped ==
  ASSUME NEW mix \in [DOMAIN Catalog -> Int], NEW k \in DOMAIN Catalog
  PROVE  /\ ClampedMix(mix)[k] \in 0..Most(k)
         /\ mix[k] \in 0..Most(k) => ClampedMix(mix)[k] = mix[k]
<1>1. mix[k] \in Int /\ Most(k) \in Int /\ 0 <= Most(k)
  BY DEF Most, MaxCount
<1> DEFINE low == Min({mix[k], Most(k)})
<1>2. low = IF mix[k] <= Most(k) THEN mix[k] ELSE Most(k)
  BY <1>1, TwoInts
<1>3. low \in Int
  BY <1>1, <1>2
<1> HIDE DEF low
<1>4. Max({0, low}) = IF 0 >= low THEN 0 ELSE low
  <2> DEFINE zero == 0
  <2>1. zero \in Int
    OBVIOUS
  <2> HIDE DEF zero
  <2>2. Max({zero, low}) = IF zero >= low THEN zero ELSE low
    BY <1>3, <2>1, TwoInts
  <2> QED
    BY <2>2 DEF zero
<1>5. ClampedMix(mix)[k] = Max({0, low})
  BY DEF ClampedMix, low
<1> QED
  BY <1>1, <1>2, <1>3, <1>4, <1>5

\* Whatever mix the user or the controller asks for, the one that is kept has from
\* one to eight instances, and normalising it again, as every load does, changes
\* nothing (NormalizeHouseholdMix).
THEOREM MixesNormalised ==
  \A mix \in [DOMAIN Catalog -> Int] :
    /\ Instances(NormalizeMix(mix)) \in 1..MaxInstances
    /\ NormalizeMix(NormalizeMix(mix)) = NormalizeMix(mix)
<1> SUFFICES ASSUME NEW mix \in [DOMAIN Catalog -> Int]
             PROVE  /\ Instances(NormalizeMix(mix)) \in 1..MaxInstances
                    /\ NormalizeMix(NormalizeMix(mix)) = NormalizeMix(mix)
  OBVIOUS
<1>1. \A m : NormalizeMix(m) = IF Instances(ClampedMix(m)) \in 1..MaxInstances THEN ClampedMix(m) ELSE DefaultMix
  BY DEF NormalizeMix, ClampedMix, Most
<1>2. Instances(DefaultMix) \in 1..MaxInstances
  BY DefaultCounts DEF Instances, MaxInstances
<1>3. ASSUME NEW m \in [DOMAIN Catalog -> Int], \A k \in DOMAIN Catalog : m[k] \in 0..Most(k)
      PROVE  ClampedMix(m) = m
  <2>1. \A k \in DOMAIN Catalog : ClampedMix(m)[k] = m[k]
    BY <1>3, MixClamped
  <2>2. DOMAIN ClampedMix(m) = DOMAIN Catalog /\ ClampedMix(m) = [k \in DOMAIN ClampedMix(m) |-> ClampedMix(m)[k]]
    BY DEF ClampedMix
  <2>3. m = [k \in DOMAIN Catalog |-> m[k]]
    OBVIOUS
  <2> QED
    BY <2>1, <2>2, <2>3
<1>4. ClampedMix(mix) \in [DOMAIN Catalog -> Int] /\ \A k \in DOMAIN Catalog : ClampedMix(mix)[k] \in 0..Most(k)
  <2>1. \A k \in DOMAIN Catalog : ClampedMix(mix)[k] \in 0..Most(k)
    BY MixClamped
  <2>2. \A k \in DOMAIN Catalog : ClampedMix(mix)[k] \in Int
    BY <2>1
  <2>3. ClampedMix(mix) = [k \in DOMAIN Catalog |-> ClampedMix(mix)[k]]
    BY DEF ClampedMix
  <2> QED
    BY <2>1, <2>2, <2>3
<1>5. DefaultMix \in [DOMAIN Catalog -> Int] /\ \A k \in DOMAIN Catalog : DefaultMix[k] \in 0..Most(k)
  BY MixKeys, DefaultCounts DEF DefaultMix, Most, MaxCount
<1>6. ClampedMix(ClampedMix(mix)) = ClampedMix(mix) /\ ClampedMix(DefaultMix) = DefaultMix
  BY <1>3, <1>4, <1>5
<1> QED
  BY <1>1, <1>2, <1>6

\* A profile of a known name, with any numbers and one of some lists of windows.
Profiles(lists) ==
  [name : Known, enabled : BOOLEAN, windows : lists, cadence : Int, min : Int, max : Int,
   down : Int, up : Int, concurrent : Int, spacing : Int, optIn : BOOLEAN, counts : BOOLEAN]

Within(x, low, high) == x \in Int /\ low <= x /\ x <= high

LEMMA BoundedWithin ==
  ASSUME NEW v \in Int, NEW low \in Int, NEW high \in Int, NEW f, Within(f, low, high)
  PROVE  /\ Within(Bounded(v, low, high, f), low, high)
         /\ Within(v, low, high) => Bounded(v, low, high, f) = v
  BY DEF Within, Bounded

LEMMA BoundedSame ==
  ASSUME NEW v, NEW low, NEW high, NEW f, low \in Int, high \in Int, Within(v, low, high)
  PROVE  Bounded(v, low, high, f) = v
  BY DEF Within, Bounded

LEMMA ByteBounds == LeastDown \in Int /\ MostDown \in Int /\ LeastUp \in Int /\ MostUp \in Int
  BY SMT DEF LeastDown, MostDown, LeastUp, MostUp

\* The device's own profiles are within the bounds they stand in for.
Sound(d) ==
  /\ Within(d.min, 2, 30) /\ Within(d.max, 2, 120)
  /\ Within(d.down, LeastDown, MostDown) /\ Within(d.up, LeastUp, MostUp)
  /\ Within(d.concurrent, 1, 8) /\ Within(d.spacing, 15, 10080)
  /\ d.cadence = 0 \/ Within(d.cadence, 60, 1440)

LEMMA DeviceSound == ASSUME NEW n \in Known PROVE Sound(Device(n))
<1> DEFINE all == DefaultProfiles(HouseholdContract) \o DefaultProfiles(0)
           i == CHOOSE j \in DOMAIN all : all[j].name = n
           a == Profile("household", TRUE, <<"day">>, 360, 8, 30, 225000000, 75000000, 8, 60)
           b == Profile("saturation", TRUE, <<"day">>, 1440, 8, 60, 1073741824, 536870912, 8, 360)
           c == Profile("content", TRUE, <<"day">>, 360, 4, 20, 268435456, 100663296, 4, 15)
           d == Profile("capacity", FALSE, <<"never">>, 0, 8, 60, 536870912, 268435456, 8, 60)
<1>1. Sound(a) /\ a.name = "household"
  BY SMT DEF Profile, Sound, Within, LeastDown, MostDown, LeastUp, MostUp
<1>2. Sound(b) /\ b.name = "saturation"
  BY SMT DEF Profile, Sound, Within, LeastDown, MostDown, LeastUp, MostUp
<1>3. Sound(c) /\ c.name = "content"
  BY SMT DEF Profile, Sound, Within, LeastDown, MostDown, LeastUp, MostUp
<1>4. Sound(d) /\ d.name = "capacity"
  BY SMT DEF Profile, Sound, Within, LeastDown, MostDown, LeastUp, MostUp
<1>5. DefaultProfiles(HouseholdContract) = <<a, b>>
  BY SMT DEF DefaultProfiles, HouseholdContract
<1>6. DefaultProfiles(0) = <<c, d>>
  BY SMT DEF DefaultProfiles, HouseholdContract
<1> HIDE DEF a, b, c, d
<1>7. all = <<a, b>> \o <<c, d>>
  BY <1>5, <1>6
<1>8. DOMAIN all = 1..4 /\ all[1] = a /\ all[2] = b /\ all[3] = c /\ all[4] = d
  <2> DEFINE s == <<a, b>>
             t == <<c, d>>
             S == {a, b, c, d}
  <2>1. s \in Seq(S) /\ t \in Seq(S) /\ Len(s) = 2 /\ Len(t) = 2
    OBVIOUS
  <2>2. s[1] = a /\ s[2] = b /\ t[1] = c /\ t[2] = d
    OBVIOUS
  <2> HIDE DEF s, t, S
  <2>3. /\ s \o t \in Seq(S) /\ Len(s \o t) = Len(s) + Len(t)
        /\ \A j \in 1..(Len(s) + Len(t)) :
             (s \o t)[j] = IF j <= Len(s) THEN s[j] ELSE t[j - Len(s)]
    BY <2>1, ConcatProperties
  <2> DEFINE w == s \o t
  <2> HIDE DEF w
  <2>4. w \in Seq(S) /\ Len(w) = 4 /\ \A j \in 1..4 : w[j] = IF j <= 2 THEN s[j] ELSE t[j - 2]
    BY <2>1, <2>3 DEF w
  <2>5. DOMAIN w = 1..4 /\ w[1] = s[1] /\ w[2] = s[2] /\ w[3] = t[1] /\ w[4] = t[2]
    BY <2>4
  <2>6. all = w
    BY <1>7 DEF w, s, t
  <2> HIDE DEF all
  <2> QED
    BY <2>2, <2>5, <2>6
<1> HIDE DEF all
<1>9. \A j \in 1..4 : Sound(all[j])
  BY <1>1, <1>2, <1>3, <1>4, <1>8, SMT
<1>10. \E j \in DOMAIN all : all[j].name = n
  BY <1>1, <1>2, <1>3, <1>4, <1>8, SMT DEF Known
<1>11. i \in 1..4
  BY <1>8, <1>10
<1>12. Device(n) = all[i]
  BY DEF Device, all
<1> QED
  BY <1>9, <1>11, <1>12

\* The durations that are kept of a profile.
Least(p) == Bounded(p.min, 2, 30, Device(p.name).min)
Longest(p) ==
  LET max == Max({Least(p), Bounded(p.max, Least(p), 120, Device(p.name).max)})
  IN  IF p.name = "household" THEN Max({max, 8}) ELSE max

\* The profile that is kept, field by field.
Kept(p) ==
  LET f == Device(p.name)
  IN  [name |-> p.name, enabled |-> p.enabled, windows |-> NormalizeWindows(p.windows, f.windows),
       cadence |-> IF p.cadence = 0 THEN 0 ELSE Bounded(p.cadence, 60, 1440, f.cadence),
       min |-> Min({Least(p), Longest(p)}), max |-> Longest(p),
       down |-> Bounded(p.down, LeastDown, MostDown, f.down),
       up |-> Bounded(p.up, LeastUp, MostUp, f.up),
       concurrent |-> Bounded(p.concurrent, 1, 8, f.concurrent),
       spacing |-> Bounded(p.spacing, 15, 10080, f.spacing),
       optIn |-> FALSE, counts |-> p.name \in ExperienceProfile]

LEMMA ProfileFields ==
  ASSUME NEW lists, NEW p \in Profiles(lists)
  PROVE  NormalizeProfile(p) = Kept(p)
<1> DEFINE f == Device(p.name)
           min == Min({Least(p), Longest(p)})
           max == Longest(p)
           down == Bounded(p.down, LeastDown, MostDown, f.down)
           up == Bounded(p.up, LeastUp, MostUp, f.up)
           concurrent == Bounded(p.concurrent, 1, 8, f.concurrent)
           spacing == Bounded(p.spacing, 15, 10080, f.spacing)
           cadence == IF p.cadence = 0 THEN 0 ELSE Bounded(p.cadence, 60, 1440, f.cadence)
           windows == NormalizeWindows(p.windows, f.windows)
           counts == p.name \in ExperienceProfile
           no == FALSE
<1>1. NormalizeProfile(p) =
        [p EXCEPT !.min = min, !.max = max, !.down = down, !.up = up, !.concurrent = concurrent,
                  !.spacing = spacing, !.cadence = cadence, !.windows = windows,
                  !.optIn = no, !.counts = counts]
  BY Zenon DEF NormalizeProfile, Least, Longest
<1>2. Kept(p) = [name |-> p.name, enabled |-> p.enabled, windows |-> windows, cadence |-> cadence, min |-> min,
                 max |-> max, down |-> down, up |-> up, concurrent |-> concurrent, spacing |-> spacing,
                 optIn |-> no, counts |-> counts]
  BY Zenon DEF Kept
<1> HIDE DEF min, max, down, up, concurrent, spacing, cadence, windows, counts, no
<1>3. [p EXCEPT !.min = min, !.max = max, !.down = down, !.up = up, !.concurrent = concurrent,
                !.spacing = spacing, !.cadence = cadence, !.windows = windows,
                !.optIn = no, !.counts = counts]
      = [name |-> p.name, enabled |-> p.enabled, windows |-> windows, cadence |-> cadence, min |-> min,
         max |-> max, down |-> down, up |-> up, concurrent |-> concurrent, spacing |-> spacing,
         optIn |-> no, counts |-> counts]
  <2> DEFINE E == [p EXCEPT !.min = min, !.max = max, !.down = down, !.up = up, !.concurrent = concurrent,
                            !.spacing = spacing, !.cadence = cadence, !.windows = windows,
                            !.optIn = no, !.counts = counts]
             R == [name |-> p.name, enabled |-> p.enabled, windows |-> windows, cadence |-> cadence, min |-> min,
                   max |-> max, down |-> down, up |-> up, concurrent |-> concurrent, spacing |-> spacing,
                   optIn |-> no, counts |-> counts]
             D == {"name", "enabled", "windows", "cadence", "min", "max", "down", "up",
                   "concurrent", "spacing", "optIn", "counts"}
  <2>1. DOMAIN p = D
    BY DEF Profiles
  <2>2. E = [k \in D |-> E[k]]
    BY <2>1
  <2>3. R = [k \in D |-> R[k]]
    OBVIOUS
  <2>4. E.name = R.name /\ E.enabled = R.enabled /\ E.windows = R.windows /\ E.cadence = R.cadence
    BY <2>1
  <2>5. E.min = R.min /\ E.max = R.max /\ E.down = R.down /\ E.up = R.up
    BY <2>1
  <2>6. E.concurrent = R.concurrent /\ E.spacing = R.spacing /\ E.optIn = R.optIn /\ E.counts = R.counts
    BY <2>1
  <2> HIDE DEF E, R
  <2>7. \A k \in D : E[k] = R[k]
    BY <2>4, <2>5, <2>6
  <2> HIDE DEF D
  <2>8. E = R
    BY <2>2, <2>3, <2>7
  <2> QED
    BY <2>8 DEF E, R
<1> QED
  BY <1>1, <1>2, <1>3

LEMMA ProfileDurations ==
  ASSUME NEW lists, NEW p \in Profiles(lists)
  PROVE  /\ Within(Least(p), 2, 30) /\ Within(Longest(p), Least(p), 120)
         /\ p.name = "household" => Longest(p) >= 8
         /\ Within(p.min, 2, 30) => Least(p) = p.min
         /\ Within(p.min, 2, 30) /\ Within(p.max, p.min, 120) /\ (p.name = "household" => p.max >= 8) =>
              Longest(p) = p.max
<1> DEFINE f == Device(p.name)
           kept == Bounded(p.max, Least(p), 120, f.max)
           max == Max({Least(p), kept})
<1>1. p.name \in Known /\ p.min \in Int /\ p.max \in Int
  BY DEF Profiles
<1>2. Within(f.min, 2, 30) /\ Within(f.max, 2, 120)
  BY <1>1, DeviceSound DEF Sound
<1>3. Within(Least(p), 2, 30) /\ (Within(p.min, 2, 30) => Least(p) = p.min)
  BY <1>1, <1>2, BoundedWithin DEF Least
<1>4. kept \in Int /\ kept <= 120 /\ (Within(p.max, Least(p), 120) => kept = p.max)
  BY <1>1, <1>2, <1>3 DEF Bounded, Within
<1>5. Longest(p) = IF p.name = "household" THEN Max({max, 8}) ELSE max
  BY DEF Longest
<1> HIDE DEF kept
<1>6. max = IF Least(p) >= kept THEN Least(p) ELSE kept
  BY <1>3, <1>4, TwoInts DEF Within
<1>7. Within(max, Least(p), 120) /\ (Within(p.max, Least(p), 120) => max = p.max)
  BY <1>3, <1>4, <1>6 DEF Within
<1> HIDE DEF max
<1>8. Max({max, 8}) = IF max >= 8 THEN max ELSE 8
  BY <1>7, TwoInts DEF Within
<1>9. Within(Longest(p), Least(p), 120) /\ (p.name = "household" => Longest(p) >= 8)
  BY <1>3, <1>5, <1>7, <1>8 DEF Within
<1>10. ASSUME Within(p.min, 2, 30), Within(p.max, p.min, 120), p.name = "household" => p.max >= 8
       PROVE  Longest(p) = p.max
  BY <1>3, <1>5, <1>7, <1>8, <1>10
<1> QED
  BY <1>3, <1>9, <1>10

\* Whatever numbers a controller sends in a profile, its runners accept what the
\* sensor keeps of it in every test whose remaining bytes cover the profile's envelope
\* and RunTest's least, and in a test that was asked for exactly when the envelope
\* itself is as large as that; the user is not opted in, and normalising it again
\* changes none of the numbers (the loop of normalizeSpeedProfiles).
THEOREM ProfilesRunnable ==
  \A lists : \A p \in Profiles(lists) :
    LET q == NormalizeProfile(p)
        again == NormalizeProfile(q)
    IN  /\ \A r \in Int : r >= Envelope(q) /\ r >= LeastRemaining => Runnable(q, r)
        /\ Runnable(q, Envelope(q)) <=> Envelope(q) >= LeastRemaining
        /\ ~q.optIn /\ q.min \in 2..q.max
        /\ again.min = q.min /\ again.max = q.max /\ again.down = q.down /\ again.up = q.up
        /\ again.concurrent = q.concurrent /\ again.spacing = q.spacing /\ again.cadence = q.cadence
<1> SUFFICES ASSUME NEW lists, NEW p \in Profiles(lists)
             PROVE  LET q == NormalizeProfile(p)
                        again == NormalizeProfile(q)
                    IN  /\ \A r \in Int : r >= Envelope(q) /\ r >= LeastRemaining => Runnable(q, r)
                        /\ Runnable(q, Envelope(q)) <=> Envelope(q) >= LeastRemaining
                        /\ ~q.optIn /\ q.min \in 2..q.max
                        /\ again.min = q.min /\ again.max = q.max /\ again.down = q.down /\ again.up = q.up
                        /\ again.concurrent = q.concurrent /\ again.spacing = q.spacing /\ again.cadence = q.cadence
  OBVIOUS
<1> DEFINE q == NormalizeProfile(p)
           again == NormalizeProfile(q)
           f == Device(p.name)
<1>1. /\ p.name \in Known /\ p.enabled \in BOOLEAN /\ p.cadence \in Int /\ p.down \in Int /\ p.up \in Int
      /\ p.concurrent \in Int /\ p.spacing \in Int
  BY DEF Profiles
<1>2. Sound(f)
  BY <1>1, DeviceSound
<1>3. q = Kept(p)
  BY ProfileFields
<1>4. /\ q.name = p.name /\ q.min = Min({Least(p), Longest(p)}) /\ q.max = Longest(p) /\ ~q.optIn
      /\ q.down = Bounded(p.down, LeastDown, MostDown, f.down) /\ q.up = Bounded(p.up, LeastUp, MostUp, f.up)
      /\ q.concurrent = Bounded(p.concurrent, 1, 8, f.concurrent)
      /\ q.spacing = Bounded(p.spacing, 15, 10080, f.spacing)
      /\ q.cadence = IF p.cadence = 0 THEN 0 ELSE Bounded(p.cadence, 60, 1440, f.cadence)
  BY <1>3 DEF Kept
<1> HIDE DEF f
<1>5. Within(q.down, LeastDown, MostDown) /\ Within(q.up, LeastUp, MostUp)
  <2> HIDE DEF q
  <2>1. Within(f.down, LeastDown, MostDown) /\ Within(f.up, LeastUp, MostUp)
    BY <1>2 DEF Sound
  <2>2. Within(Bounded(p.down, LeastDown, MostDown, f.down), LeastDown, MostDown)
    BY <1>1, <2>1, ByteBounds, BoundedWithin
  <2>3. Within(Bounded(p.up, LeastUp, MostUp, f.up), LeastUp, MostUp)
    BY <1>1, <2>1, ByteBounds, BoundedWithin
  <2> QED
    BY <1>4, <2>2, <2>3
<1>6. Within(q.concurrent, 1, 8) /\ Within(q.spacing, 15, 10080) /\ (q.cadence = 0 \/ Within(q.cadence, 60, 1440))
  <2> HIDE DEF q
  <2>1. /\ Within(f.concurrent, 1, 8) /\ Within(f.spacing, 15, 10080)
        /\ f.cadence = 0 \/ Within(f.cadence, 60, 1440)
    BY <1>2 DEF Sound
  <2>2. Within(Bounded(p.concurrent, 1, 8, f.concurrent), 1, 8)
    BY <1>1, <2>1, SMT DEF Bounded, Within
  <2>3. Within(Bounded(p.spacing, 15, 10080, f.spacing), 15, 10080)
    BY <1>1, <2>1, BoundedWithin, SMT
  <2>4. f.cadence # 0 => Within(Bounded(p.cadence, 60, 1440, f.cadence), 60, 1440)
    BY <1>1, <2>1, BoundedWithin, SMT
  <2>5. f.cadence = 0 => Bounded(p.cadence, 60, 1440, f.cadence) \in {0, p.cadence}
    BY SMT DEF Bounded
  <2>6. f.cadence = 0 /\ Bounded(p.cadence, 60, 1440, f.cadence) # 0 => Within(p.cadence, 60, 1440)
    BY <1>1, SMT DEF Bounded, Within
  <2> QED
    BY <1>4, <2>2, <2>3, <2>4, <2>5, <2>6, SMT
<1>7. Within(q.min, 2, 30) /\ Within(q.max, q.min, 120) /\ (p.name = "household" => q.max >= 8)
  <2> HIDE DEF q
  <2>1. Within(Least(p), 2, 30) /\ Within(Longest(p), Least(p), 120) /\ (p.name = "household" => Longest(p) >= 8)
    BY ProfileDurations
  <2>2. Min({Least(p), Longest(p)}) = Least(p)
    BY <2>1, TwoInts DEF Within
  <2> QED
    BY <1>4, <2>1, <2>2
<1>8. /\ \A r \in Int : r >= Envelope(q) /\ r >= LeastRemaining => Runnable(q, r)
      /\ Runnable(q, Envelope(q)) <=> Envelope(q) >= LeastRemaining
      /\ ~q.optIn /\ q.min \in 2..q.max
  <2> HIDE DEF q
  <2>1. \A r : Runnable(q, r) <=> r >= LeastRemaining
    BY <1>1, <1>4, <1>5, <1>7, ByteBounds, SMT DEF Runnable, Within
  <2>2. q.min \in 2..q.max
    BY <1>7, SMT DEF Within
  <2> QED
    BY <1>4, <2>1, <2>2
<1>9. q \in Profiles({q.windows})
  <2> DEFINE n == q.name
             cadence == q.cadence
             min == q.min
             max == q.max
             down == q.down
             up == q.up
             concurrent == q.concurrent
             spacing == q.spacing
             windows == q.windows
             counts == p.name \in ExperienceProfile
             e == p.enabled
  <2>1. q = [name |-> n, enabled |-> e, windows |-> windows, cadence |-> cadence, min |-> min,
             max |-> max, down |-> down, up |-> up, concurrent |-> concurrent, spacing |-> spacing,
             optIn |-> FALSE, counts |-> counts]
    BY <1>3 DEF Kept
  <2>2. n \in Known /\ cadence \in Int /\ min \in Int /\ max \in Int /\ down \in Int /\ up \in Int
    <3> HIDE DEF q
    <3> QED
      BY <1>1, <1>4, <1>5, <1>6, <1>7 DEF Within
  <2>3. concurrent \in Int /\ spacing \in Int /\ windows \in {windows}
    <3> HIDE DEF q
    <3> QED
      BY <1>6 DEF Within
  <2>4. counts \in BOOLEAN /\ e \in BOOLEAN
    BY <1>1
  <2> HIDE DEF n, cadence, min, max, down, up, concurrent, spacing, windows, counts, e
  <2>5. [name |-> n, enabled |-> e, windows |-> windows, cadence |-> cadence, min |-> min,
         max |-> max, down |-> down, up |-> up, concurrent |-> concurrent, spacing |-> spacing,
         optIn |-> FALSE, counts |-> counts] \in Profiles({windows})
    BY <2>2, <2>3, <2>4 DEF Profiles
  <2> QED
    BY <2>1, <2>5, Zenon DEF windows
<1> HIDE DEF q
<1>10. again = Kept(q) /\ Device(q.name) = f
  BY <1>4, <1>9, ProfileFields DEF f
<1>11. /\ again.min = Min({Least(q), Longest(q)}) /\ again.max = Longest(q)
       /\ again.down = Bounded(q.down, LeastDown, MostDown, f.down) /\ again.up = Bounded(q.up, LeastUp, MostUp, f.up)
       /\ again.concurrent = Bounded(q.concurrent, 1, 8, f.concurrent)
       /\ again.spacing = Bounded(q.spacing, 15, 10080, f.spacing)
       /\ again.cadence = IF q.cadence = 0 THEN 0 ELSE Bounded(q.cadence, 60, 1440, f.cadence)
  BY <1>10 DEF Kept
<1> HIDE DEF again
<1>12. again.min = q.min /\ again.max = q.max
  <2>1. Least(q) = q.min /\ Longest(q) = q.max
    BY <1>4, <1>7, <1>9, ProfileDurations
  <2>2. Min({q.min, q.max}) = q.min
    BY <1>7, TwoInts DEF Within
  <2> QED
    BY <1>11, <2>1, <2>2
<1>13. again.down = q.down /\ again.up = q.up
  BY <1>5, <1>11 DEF Bounded, Within
<1>14. again.concurrent = q.concurrent /\ again.spacing = q.spacing
  <2>1. Bounded(q.concurrent, 1, 8, f.concurrent) = q.concurrent
    BY <1>6, BoundedSame, SMT
  <2>2. Bounded(q.spacing, 15, 10080, f.spacing) = q.spacing
    BY <1>6, BoundedSame, SMT
  <2> QED
    BY <1>11, <2>1, <2>2
<1>15. again.cadence = q.cadence
  <2>1. q.cadence # 0 => Bounded(q.cadence, 60, 1440, f.cadence) = q.cadence
    BY <1>6, BoundedSame, SMT
  <2> QED
    BY <1>11, <2>1
<1> QED
  BY <1>8, <1>12, <1>13, <1>14, <1>15 DEF again, q
=============================================================================
