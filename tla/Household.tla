----------------------------- MODULE Household -----------------------------
(***************************************************************************)
(* The household scenario (package quality): the mix of activities, the    *)
(* plan that fits it into a byte cap and a time limit, and the verdict,    *)
(* the cards and the confidence that are derived from what was measured.   *)
(*                                                                         *)
(* Rates are in kbit/s and times in milliseconds, as the catalogue has     *)
(* them.  The score of an activity, computed from its samples, is given.   *)
(***************************************************************************)
EXTENDS Integers, Sequences, FiniteSets, FiniteSetsExt

WarmupMS == 2000
ObserveMS == 12000
MinObserveMS == 8000
MaxInstances == 8
MaxCount == 4
ReferenceSegments == 3
MinimumBaselineSamples == 20

----------------------------------------------------------------------------
(* The mix. *)

\* HouseholdCatalog, highest demand first
Keys == <<"stream_uhd", "stream_fhd", "stream_hd", "video_call", "game", "browsing">>
Activity(key, app, pattern, kbps, interval, samples) ==
  [key |-> key, app |-> app, pattern |-> pattern, kbps |-> kbps, interval |-> interval, samples |-> samples]
Catalog ==
  [stream_uhd |-> Activity("stream_uhd", "streaming", "segments", 15000, 2000, 3),
   stream_fhd |-> Activity("stream_fhd", "streaming", "segments", 5000, 2000, 3),
   stream_hd |-> Activity("stream_hd", "streaming", "segments", 3000, 2000, 3),
   video_call |-> Activity("video_call", "video_calls", "frames", 6800, 100, 50),
   game |-> Activity("game", "gaming", "probes", 150, 50, 100),
   browsing |-> Activity("browsing", "browsing", "bursts", 750, 3000, 6)]

\* A mix is the number of instances of each activity, browsing 0 or 1.
DefaultMix == [k \in DOMAIN Catalog |->
  CASE k = "stream_uhd" -> 2 [] k \in {"video_call", "game", "browsing"} -> 1 [] OTHER -> 0]

Instances(mix) ==
  mix.stream_uhd + mix.stream_fhd + mix.stream_hd + mix.video_call + mix.game + mix.browsing

\* NormalizeHouseholdMix: an empty or oversized mix is replaced as a whole.
NormalizeMix(mix) ==
  LET clamped == [k \in DOMAIN Catalog |-> Max({0, Min({mix[k], IF k = "browsing" THEN 1 ELSE MaxCount})})]
  IN  IF Instances(clamped) \in 1..MaxInstances THEN clamped ELSE DefaultMix

\* ReferenceActivity: the stream of the highest demand, if any
Reference(mix) ==
  LET streams == {i \in 1..3 : mix[Keys[i]] > 0}
  IN  IF streams = {} THEN {} ELSE {Catalog[Keys[Min(streams)]]}

\* PlannedBytes; a game's requests cost 600 bytes each.
PlannedBytes(a, duration) ==
  IF a.pattern = "probes" THEN (duration \div a.interval) * 600 ELSE (a.kbps * duration) \div 8

MixBytes(mix, observe) ==
  SumFunction([k \in DOMAIN Catalog |-> mix[k] * PlannedBytes(Catalog[k], WarmupMS + observe)])

----------------------------------------------------------------------------
(* The plan. *)

Usable(cap) == cap - ((cap + 9) \div 10)

\* What running with or without the reference, for an observation time, takes.
Cost(mix, reference, observe) ==
  LET alone == IF reference THEN Reference(mix) ELSE {}
  IN  [bytes |-> MixBytes(mix, observe)
                   + SumFunction([a \in alone |-> PlannedBytes(a, a.interval) * (ReferenceSegments + 1)]),
       time |-> WarmupMS + observe
                  + SumFunction([a \in alone |-> a.interval * ReferenceSegments + a.interval \div 2])]

\* The attempts of PlanHousehold: without the reference, then with a window one
\* second shorter each time, down to the minimum.
Attempts(mix) ==
  LET shorter == [i \in 1..5 |-> [reference |-> FALSE, observe |-> ObserveMS - (i - 1) * 1000]]
  IN  IF Reference(mix) = {} THEN shorter
      ELSE <<[reference |-> TRUE, observe |-> ObserveMS]>> \o shorter

Fits(mix, cap, available, a) ==
  LET cost == Cost(mix, a.reference, a.observe)
  IN  cost.bytes <= Usable(cap) /\ cost.time <= available

\* mutant: the reference is tried again with every shorter window
PlanHouseholdKeeping(mix, cap, available) ==
  LET with(i) == [Attempts(mix)[i] EXCEPT !.reference = Reference(mix) # {}]
      fitting == {i \in DOMAIN Attempts(mix) : Fits(mix, cap, available, with(i))}
      last == Attempts(mix)[Len(Attempts(mix))]
  IN  IF fitting # {} THEN [attempt |-> with(Min(fitting)), reason |-> "none"]
      ELSE [attempt |-> last,
            reason |-> IF Cost(mix, FALSE, last.observe).bytes > Usable(cap)
                       THEN "insufficient_bytes" ELSE "insufficient_time"]

PlanHousehold(mix, cap, available) ==
  LET fitting == {i \in DOMAIN Attempts(mix) : Fits(mix, cap, available, Attempts(mix)[i])}
      last == Attempts(mix)[Len(Attempts(mix))]
  IN  IF fitting # {} THEN [attempt |-> Attempts(mix)[Min(fitting)], reason |-> "none"]
      ELSE [attempt |-> last,
            reason |-> IF Cost(mix, FALSE, last.observe).bytes > Usable(cap)
                       THEN "insufficient_bytes" ELSE "insufficient_time"]

----------------------------------------------------------------------------
(* The verdict.  A result has its activities (key, number of samples inside *)
(* the window, score), the stop reason and the observed time.               *)

\* ScoreHouseholdActivity: too few samples make an activity unavailable.
Available(a) == a.samples >= Catalog[a.key].samples

Rating(score) == CASE score >= 80 -> "good" [] score >= 60 /\ score < 80 -> "average" [] OTHER -> "bad"

Scored(result) == {i \in DOMAIN result.activities : Available(result.activities[i])}

\* WeakestScore, of the activities that could be scored
WeakestScore(result) == Min({result.activities[i].score : i \in Scored(result)})

\* mutant: an activity without evidence is left out of the verdict
StatusScored(result) ==
  IF Scored(result) = {} \/ result.stop # "enough_evidence" \/ result.observed < MinObserveMS
  THEN "insufficient"
  ELSE CASE Rating(WeakestScore(result)) = "good" -> "pass"
         [] Rating(WeakestScore(result)) = "average" -> "struggle"
         [] OTHER -> "fail"

\* SummarizeHousehold: the weakest activity decides, and all must have evidence.
Status(result) ==
  IF \/ Scored(result) = {} \/ result.stop # "enough_evidence" \/ result.observed < MinObserveMS
     \/ Scored(result) # DOMAIN result.activities
  THEN "insufficient"
  ELSE CASE Rating(WeakestScore(result)) = "good" -> "pass"
         [] Rating(WeakestScore(result)) = "average" -> "struggle"
         [] OTHER -> "fail"

Apps == {"browsing", "streaming", "video_calls", "gaming"}
InApp(result, app) == {i \in DOMAIN result.activities : Catalog[result.activities[i].key].app = app}

\* HouseholdExperience: the card of an app shows its weakest scored activity.
Card(result, app) ==
  LET scored == InApp(result, app) \intersect Scored(result)
  IN  IF scored = {} THEN [available |-> FALSE, score |-> 0]
      ELSE [available |-> TRUE, score |-> Min({result.activities[i].score : i \in scored})]

Experience(result) ==
  IF Scored(result) # {} /\ Status(result) # "insufficient"
  THEN [available |-> TRUE, score |-> WeakestScore(result), rating |-> Rating(WeakestScore(result))]
  ELSE [available |-> FALSE, score |-> 0, rating |-> "unavailable"]

\* HouseholdConfidence: its reasons with their severity; planned is the time the
\* plan asked for, the probes' success ratios are in per cent.
Reasons(result) ==
  {r \in {<<"baseline_insufficient_samples", 1>>} : result.baseline < MinimumBaselineSamples}
  \union {r \in {<<"household_insufficient_latency_samples", 1>>} : result.loaded < 20}
  \union {r \in {<<"too_few_latency_probes", 2>>} : result.success < 70}
  \union {r \in {<<"some_latency_probes_missing", 1>>} : result.success \in 70..89}
  \union {r \in {<<"fresh_path_probes_unreliable", 1>>} : result.fresh \in 1..69}
  \union {r \in {<<"household_window_too_short", 2>>} : result.observed < MinObserveMS}
  \union {r \in {<<"household_window_shortened", 1>>} :
            result.observed >= MinObserveMS /\ result.observed < result.planned}
  \union {r \in {<<"household_budget_limited", 1>>} : result.stop = "insufficient_bytes"}
  \union {r \in {<<"household_time_limited", 1>>} : result.stop = "insufficient_time"}
  \union {r \in {<<"household_transport_failure", 2>>} : result.stop = "transport_failure"}
  \union {r \in {<<"household_cancelled", 2>>} : result.stop = "cancelled"}
  \union {r \in {<<"household_activities_unscored", 1>>} : Scored(result) # DOMAIN result.activities}

Level(result) ==
  LET severity == Max({0} \union {r[2] : r \in Reasons(result)})
  IN  CASE severity = 0 -> "high" [] severity = 1 -> "medium" [] OTHER -> "low"
=============================================================================
