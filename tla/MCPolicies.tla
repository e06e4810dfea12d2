---------------------------- MODULE MCPolicies ----------------------------
(***************************************************************************)
(* The pure functions of the sensor's policies over bounded inputs: every  *)
(* state is one input and every invariant compares what the functions make *)
(* of it with what they are meant to say.                                  *)
(***************************************************************************)
EXTENDS SpeedSchedule, SpeedProfiles, Evidence

VARIABLE input

Input(kind, value) == [kind |-> kind, value |-> value]
Given(kind) == "kind" \in DOMAIN input /\ input.kind = kind

----------------------------------------------------------------------------
(* Schedules. *)

Window(start, end) == [start |-> start, end |-> end]

\* One window of any bounds, or two of a choice of them that meet, overlap or wrap.
WindowLists ==
  {<<Window(s, e)>> : s \in 0..(Day - 1), e \in 0..Day}
  \union {<<Window(s, s + 1), Window(t, (t + 3) % Day)>> : s \in {1, 4}, t \in {0, 3, 6}}

ScheduleInputs ==
  {[now |-> n, last |-> n - since, windows |-> w, cadence |-> c, seed |-> s] :
     n \in Day..(2 * Day - 1), since \in {0, 3, 3 * Day}, w \in WindowLists,
     c \in {0, 3, 4, Day}, s \in {0, 1, 5}}

Due(v, t) == SpeedProfileDue(t, v.last, v.windows, v.cadence, v.seed)
Announced(v) == NextSpeedProfile(v.now, v.last, v.windows, v.cadence, v.seed)

\* Without a cadence the search samples a window every hour, and finds the ones
\* that last one.
Sampled(v) ==
  v.cadence > 0 \/ \A i \in DOMAIN v.windows :
                     (v.windows[i].end - v.windows[i].start) % Day \notin 1..(Hour - 1)

\* The next test that status announces (NextSpeedProfile) is the first instant from
\* now on at which the scheduler finds one due (SpeedProfileDue): the announced
\* instant is due and, unless it is now, inside a window; no earlier one is due, and
\* when none is announced none comes up in the two days the search looks ahead.
NextIsDue ==
  Given("schedule") /\ Sampled(input.value) =>
    LET v == input.value
        announced == Announced(v)
    IN  /\ \A t \in announced : Due(v, t) /\ (t = v.now \/ Occurrences(t, v.windows) # {})
        /\ \A t \in v.now..(v.now + 2 * Day) : Due(v, t) => \E a \in announced : a <= t

\* A scheduled test is due only inside one of the windows: the comment on
\* SpeedProfileDue says that windows double as quiet-hour exclusions.
QuietHours ==
  Given("schedule") /\ Due(input.value, input.value.now) =>
    Occurrences(input.value.now, input.value.windows) # {}

----------------------------------------------------------------------------
(* Household plans and verdicts. *)

Mixes ==
  {[k \in DOMAIN Catalog |-> CASE k = "stream_uhd" -> u [] k = "stream_hd" -> h [] k = "video_call" -> v
                               [] k = "game" -> g [] k = "browsing" -> b [] OTHER -> 0] :
     u \in {0, 2, 4}, h \in {0, 1}, v \in {0, 1}, g \in {0, 1}, b \in {0, 1}}
Caps == {1000000, 10000000, 40000000, 70000000, 80000000, 90000000, 100000000, 300000000}
Times == {9999, 10000, 12000, 13000, 14000, 16000, 20999, 21000, 30000}

PlanInputs ==
  {[mix |-> m, cap |-> c, available |-> t] :
     m \in {n \in Mixes : Instances(n) \in 1..MaxInstances}, c \in Caps, t \in Times}

\* The plan of a household test observes for as long as the cap and the time
\* allow: no longer window fits, the reference costs none of it, an insufficient
\* plan names what is short, and more bytes or more time never shorten it.
PlanLongest ==
  Given("plan") =>
    LET v == input.value
        plan == PlanHousehold(v.mix, v.cap, v.available)
        fits(ms) == Fits(v.mix, v.cap, v.available, [reference |-> FALSE, observe |-> ms])
    IN  /\ \A s \in 8..12 : fits(s * 1000) => s * 1000 <= plan.attempt.observe
        /\ plan.reason = "none" <=> fits(plan.attempt.observe)
        /\ plan.reason = "insufficient_time" => MixBytes(v.mix, MinObserveMS) <= Usable(v.cap)
        /\ plan.attempt.reference => plan.attempt.observe = ObserveMS
        /\ \A c \in Caps : c > v.cap =>
             plan.attempt.observe <= PlanHousehold(v.mix, c, v.available).attempt.observe
        /\ \A t \in Times : t > v.available =>
             plan.attempt.observe <= PlanHousehold(v.mix, v.cap, t).attempt.observe

Activities ==
  {[key |-> k, samples |-> Catalog[k].samples - few, score |-> s] :
     k \in {"stream_uhd", "stream_hd", "game"}, few \in {0, 1}, s \in {59, 60, 80}}
Stops == {"enough_evidence", "insufficient_bytes", "insufficient_time", "transport_failure", "cancelled"}

VerdictInputs ==
  {[activities |-> a, stop |-> s, observed |-> o, planned |-> 12000, baseline |-> p.baseline,
    loaded |-> p.loaded, success |-> p.success, fresh |-> p.fresh] :
     a \in UNION {[1..n -> Activities] : n \in 0..2}, s \in Stops, o \in {7999, 8000, 12000},
     p \in {[baseline |-> 20, loaded |-> 20, success |-> x, fresh |-> f] : x \in {69, 89, 90}, f \in {0, 69}}
           \union {[baseline |-> 19, loaded |-> 19, success |-> 70, fresh |-> 70]}}

\* The verdict, the cards and the confidence of a household test, each derived by
\* its own function, agree: an overall score is shown exactly with a verdict; then
\* every application of the mix has a card, the worst of them is the score and the
\* rating the verdict's; and the confidence names nothing that forbids a verdict.
VerdictAgrees ==
  Given("verdict") =>
    LET r == input.value
        shown == Experience(r)
        cards == {Card(r, app) : app \in {a \in Apps : InApp(r, a) # {}}}
        named == {reason[1] : reason \in Reasons(r)}
    IN  /\ shown.available <=> Status(r) # "insufficient"
        /\ shown.available =>
             /\ \A c \in cards : c.available
             /\ shown.score = Min({c.score : c \in cards})
             /\ shown.rating = "good" <=> Status(r) = "pass"
             /\ shown.rating = "bad" <=> Status(r) = "fail"
             /\ named \intersect {"household_window_too_short", "household_budget_limited",
                  "household_time_limited", "household_transport_failure", "household_cancelled",
                  "household_activities_unscored"} = {}
             /\ Level(r) = "low" <=> r.success < 70

----------------------------------------------------------------------------
(* Saturation evidence. *)

Buckets == {[usable |-> TRUE, streams |-> 2, mbps |-> m] : m \in {50, 55, 60}}
             \union {[usable |-> FALSE, streams |-> 2, mbps |-> 50], [usable |-> TRUE, streams |-> 4, mbps |-> 50]}

\* The upload of a pair has a bucket without evidence, or one that is off, anywhere.
Uploads == {<<>>} \union {[i \in 1..5 |-> IF i = k THEN b ELSE [usable |-> TRUE, streams |-> 2, mbps |-> 50]] :
                            k \in 1..5, b \in Buckets}

BucketInputs == {[down |-> d, up |-> u] : d \in UNION {[1..n -> Buckets] : n \in 3..5}, u \in Uploads}

Phases == {"baseline", "download", "upload", "bidirectional"}
AppInputs ==
  {[throughput |-> t, samples |-> s, loss |-> l, stable |-> st, success |-> x, fresh |-> 0] :
     t \in BOOLEAN, s \in [Phases -> {0, 4, 5, 10, 20}], l \in {[p \in Phases |-> b] : b \in BOOLEAN},
     st \in {[p \in Phases |-> b] : b \in BOOLEAN}, x \in {69, 90}}

\* No result is claimed on too little evidence.  A bidirectional one is taken over
\* buckets that count in both directions: at least the required number of them, one
\* after the other, usable, with the number of streams unchanged, and not before a
\* steady window of either direction.  An application is scored only with its
\* minimum of samples; and with throughput and nothing against the confidence,
\* every application has a score.
EvidenceSound ==
  /\ Given("buckets") =>
       LET v == input.value
       IN  \A both \in {DetectBoth(v.down, v.up)} :
             both.stable =>
               /\ both.end - both.start + 1 >= Required
               /\ \A b \in {v.down, v.up} :
                    /\ both.end <= Len(b)
                    /\ Whole(b, both.start, both.end)
                    /\ \E s \in Steady(b) : s <= both.start
  /\ Given("apps") =>
       LET v == input.value
       IN  /\ \A app \in DOMAIN PhaseOf :
                Scorable(v, app) =>
                  v.samples[PhaseOf[app]] >=
                    (IF PhaseOf[app] = "baseline" THEN MinimumIdleSamples ELSE MinimumLoadedSamples)
           /\ v.throughput /\ Severity(v) = 0 => \A app \in DOMAIN PhaseOf : Scorable(v, app)

----------------------------------------------------------------------------
(* Configurations. *)

GivenProfiles ==
  {[name |-> n, enabled |-> TRUE, windows |-> w, cadence |-> c, min |-> a, max |-> b, down |-> d, up |-> u,
    concurrent |-> 9, spacing |-> 15, optIn |-> TRUE, counts |-> TRUE] :
     n \in Known \union {"other"}, w \in {<<>>, <<"junk", "never">>, <<"junk">>, <<"long", "day">>},
     c \in {0, 30}, a \in {1, 2, 30}, b \in {4, 9, 200}, d \in {1, 524288}, u \in {0, 262144}}

\* No profile, one of any kind, or several with a name twice or more than four.
ProfileLists ==
  {<<>>} \union {<<p>> : p \in GivenProfiles}
  \union {<<CHOOSE p \in GivenProfiles : p.name = a, CHOOSE p \in GivenProfiles : p.name = b, c>> :
            a \in Known, b \in Known, c \in {p \in GivenProfiles : p.cadence = 30 /\ p.min = 30 /\ p.down = 1 /\ p.up = 0}}

ConfigInputs ==
  {[numbers |-> [f \in DOMAIN Numbers |->
                   IF f = "contract" THEN c ELSE IF ok THEN Numbers[f][2] ELSE Numbers[f][2] + 1],
    windows |-> w, targets |-> t, profiles |-> p, mix |-> m] :
     c \in {0, 2, 3}, ok \in BOOLEAN, w \in {<<"never">>, <<"junk">>}, t \in {<<"safe", "safe">>, <<"safe", "unsafe">>},
     p \in ProfileLists, m \in {{[k \in DOMAIN Catalog |-> 4]}}}

\* Whatever a controller sends, the configuration the sensor keeps has profiles of
\* distinct names that its runners accept whenever the budget has room for them, none
\* of the household's for an older contract, none that opts the user in, and
\* normalising it again, as every save and every load does, changes nothing.  A test
\* that was asked for has its own envelope as its budget: a kept profile of less than
\* RunTest's least is refused then, and only such a one.
NormalizedRunnable ==
  Given("config") =>
    LET out == NormalizeConfig(input.value)
        kept == Range(out.profiles)
    IN  /\ \A p \in kept :
             /\ Runnable(p, Max({Envelope(p), LeastRemaining}))
             /\ Runnable(p, Envelope(p)) <=> Envelope(p) >= LeastRemaining
             /\ p.windows # <<>> /\ "junk" \notin Range(p.windows) /\ ~p.optIn
        /\ Cardinality({p.name : p \in kept}) = Len(out.profiles)
        /\ out.numbers.contract < HouseholdContract =>
             {p.name : p \in kept} \intersect NeedsHousehold = {} /\ out.mix = {}
        /\ \A m \in EffectiveMix({}, out.mix) : Instances(m) \in 1..MaxInstances
        /\ NormalizeConfig(out) = out

----------------------------------------------------------------------------
Kinds == {"schedule", "plan", "verdict", "buckets", "apps", "config"}

Init == input \in {[asked |-> k] : k \in Kinds}

\* An input is given to the functions of its kind.
Give(kind, values) ==
  /\ input = [asked |-> kind]
  /\ \E v \in values : input' = Input(kind, v)

Next ==
  \/ Give("schedule", ScheduleInputs)
  \/ Give("plan", PlanInputs)
  \/ Give("verdict", VerdictInputs)
  \/ Give("buckets", BucketInputs)
  \/ Give("apps", AppInputs)
  \/ Give("config", ConfigInputs)

Spec == Init /\ [][Next]_input
=============================================================================
