--------------------------- MODULE SpeedProfiles ---------------------------
(***************************************************************************)
(* What the sensor makes of a controller's configuration (NormalizeConfig  *)
(* in internal/protocol) and which speed-test profiles the runners accept. *)
(*                                                                         *)
(* A window string is "day" (any window that parses), "never", "junk" (one *)
(* that does not parse) or "long"; a target is "safe", "unsafe" or "long". *)
(* A mix that may be missing is a set with at most one member.             *)
(***************************************************************************)
EXTENDS Household, SequencesExt

HouseholdContract == 3   \* HouseholdContractVersion

\* bounded, boundedUint64
Bounded(value, low, high, fallback) == IF value \in low..high THEN value ELSE fallback

\* NormalizeConfig: the plain numbers, each with its bounds and its default
Numbers ==
  [contract |-> <<1, 1000, 2>>, probe |-> <<1, 60, 1>>, upload |-> <<30, 900, 60>>,
   dns |-> <<30, 3600, 60>>, http |-> <<30, 3600, 60>>, heartbeat |-> <<300, 3600, 600>>,
   daily |-> <<1, 8192, 4096>>, monthly |-> <<1, 131072, 61440>>, spacing |-> <<15, 1440, 15>>, cross |-> <<0, 10000, 5>>]
NormalizeNumbers(in) ==
  [f \in DOMAIN in |-> Bounded(in[f], Numbers[f][1], Numbers[f][2], Numbers[f][3])]

\* boundedStrings: all of a list or none of it
BoundedStrings(values, maximum, fallback) ==
  IF Len(values) \notin 1..maximum \/ "long" \in Range(values) THEN fallback ELSE values

\* normalizeProbeTargets, normalizeHTTPTargets, normalizeDNSResolvers
NormalizeTargets(values, maximum) ==
  LET bounded == BoundedStrings(values, maximum, <<"safe">>)
  IN  IF "unsafe" \in Range(bounded) THEN <<"safe">> ELSE bounded

\* normalizeSpeedWindows: what the scheduler cannot parse is dropped.
NormalizeWindows(values, fallback) ==
  LET parses(w) == w # "junk"
      valid == SelectSeq(BoundedStrings(values, 12, fallback), parses)
  IN  IF valid = <<>> THEN fallback ELSE valid

----------------------------------------------------------------------------
(* Profiles. *)

Known == {"household", "saturation", "content", "capacity"}
NeedsHousehold == {"household", "saturation"}
ExperienceProfile == {"household", "content"}

\* The bytes of a test that a profile may ask for in each direction
LeastDown == 524288
MostDown == 1073741824
LeastUp == 262144
MostUp == 536870912

Profile(name, enabled, windows, cadence, min, max, down, up, concurrent, spacing) ==
  [name |-> name, enabled |-> enabled, windows |-> windows, cadence |-> cadence, min |-> min, max |-> max,
   down |-> down, up |-> up, concurrent |-> concurrent, spacing |-> spacing,
   optIn |-> FALSE, counts |-> name \in ExperienceProfile]

\* DefaultConfig and legacySpeedProfiles
DefaultProfiles(contract) ==
  IF contract >= HouseholdContract
  THEN <<Profile("household", TRUE, <<"day">>, 360, 8, 30, 225000000, 75000000, 8, 60),
         Profile("saturation", TRUE, <<"day">>, 1440, 8, 60, 1073741824, 536870912, 8, 360)>>
  ELSE <<Profile("content", TRUE, <<"day">>, 360, 4, 20, 268435456, 100663296, 4, 15),
         Profile("capacity", FALSE, <<"never">>, 0, 8, 60, 536870912, 268435456, 8, 60)>>

\* DeviceSpeedProfile
Device(name) ==
  LET all == DefaultProfiles(HouseholdContract) \o DefaultProfiles(0)
  IN  all[CHOOSE i \in DOMAIN all : all[i].name = name]

\* mutant: a household profile keeps a duration its runner refuses
NormalizeProfileShort(p) ==
  LET f == Device(p.name)
      min == Bounded(p.min, 2, 30, f.min)
      max == Max({min, Bounded(p.max, min, 120, f.max)})
  IN  [p EXCEPT !.min = min, !.max = max,
                !.down = Bounded(@, LeastDown, MostDown, f.down),
                !.up = Bounded(@, LeastUp, MostUp, f.up),
                !.concurrent = Bounded(@, 1, 8, f.concurrent),
                !.spacing = Bounded(@, 15, 10080, f.spacing),
                !.cadence = IF @ = 0 THEN 0 ELSE Bounded(@, 60, 1440, f.cadence),
                !.windows = NormalizeWindows(@, f.windows),
                !.optIn = FALSE, !.counts = p.name \in ExperienceProfile]

\* The loop body of normalizeSpeedProfiles; metered and battery opt-ins and the
\* meaning of a result are the device's own.
NormalizeProfile(p) ==
  LET f == Device(p.name)
      min == Bounded(p.min, 2, 30, f.min)
      max == Max({min, Bounded(p.max, min, 120, f.max)})
      longest == IF p.name = "household" THEN Max({max, 8}) ELSE max
  IN  [p EXCEPT !.min = Min({min, longest}), !.max = longest,
                !.down = Bounded(@, LeastDown, MostDown, f.down),
                !.up = Bounded(@, LeastUp, MostUp, f.up),
                !.concurrent = Bounded(@, 1, 8, f.concurrent),
                !.spacing = Bounded(@, 15, 10080, f.spacing),
                !.cadence = IF @ = 0 THEN 0 ELSE Bounded(@, 60, 1440, f.cadence),
                !.windows = NormalizeWindows(@, f.windows),
                !.optIn = FALSE, !.counts = p.name \in ExperienceProfile]

\* An older contract's first default has the sensor-wide windows.
Legacy(profiles, windows, contract) ==
  IF contract >= HouseholdContract THEN profiles ELSE [profiles EXCEPT ![1].windows = windows]

\* normalizeSpeedProfiles: of the first four, the first of each name the contract
\* allows; then the defaults that are missing.
NormalizeProfiles(values, windows, contract) ==
  LET four == SubSeq(values, 1, Min({4, Len(values)}))
      allowed == Known \ (IF contract >= HouseholdContract THEN {} ELSE NeedsHousehold)
      kept(i) == four[i].name \in allowed /\ \A j \in 1..(i - 1) : four[j].name # four[i].name
      indices == SelectSeq([i \in DOMAIN four |-> i], kept)
      result == [k \in DOMAIN indices |-> NormalizeProfile(four[indices[k]])]
      missing(p) == p.name \notin {r.name : r \in Range(result)}
      defaults == Legacy(DefaultProfiles(contract), windows, contract)
  IN  IF result = <<>>
      THEN IF values = <<>> THEN defaults ELSE DefaultProfiles(contract)
      ELSE result \o SelectSeq(defaults, missing)

NormalizeConfig(in) ==
  LET numbers == NormalizeNumbers(in.numbers)
      windows == NormalizeWindows(in.windows, <<"day", "day", "day", "day">>)
  IN  [numbers |-> numbers, windows |-> windows,
       targets |-> NormalizeTargets(in.targets, 8),
       profiles |-> NormalizeProfiles(in.profiles, windows, numbers.contract),
       mix |-> IF numbers.contract >= HouseholdContract THEN {NormalizeMix(m) : m \in in.mix} ELSE {}]

\* EffectiveHouseholdMix: the user's own mix, else the controller's, else the default
EffectiveMix(local, configured) ==
  IF local # {} THEN {NormalizeMix(m) : m \in local}
  ELSE IF configured # {} THEN {NormalizeMix(m) : m \in configured} ELSE {DefaultMix}

\* The bytes that any test must have left of its budget
LeastRemaining == 1048576

\* What a test with this profile is reserved, and what one that was asked for
\* (a manual or a controller's one) runs with
Envelope(p) == p.down + p.up

\* What RunTest, Runner.Run and runHousehold ask of a profile when the remaining bytes
\* cover its envelope, so that RunTest divides them as the profile does.
Runnable(p, remaining) ==
  /\ remaining >= LeastRemaining
  /\ p.name \in Known
  /\ p.down >= LeastDown /\ p.up >= LeastUp
  /\ p.max \in (IF p.name = "household" THEN 8 ELSE 2)..120
=============================================================================
