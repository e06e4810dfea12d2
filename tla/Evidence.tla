------------------------------ MODULE Evidence ------------------------------
(***************************************************************************)
(* What counts as evidence in a saturation run (package quality): when the *)
(* throughput of a phase is stable, when two directions are stable         *)
(* together, which applications can be scored and what the confidence in   *)
(* the result is.                                                          *)
(*                                                                         *)
(* A bucket is usable or not, has a number of streams and an integer       *)
(* throughput; a ratio is compared by multiplying out, and a median is     *)
(* taken twice as large, so that no comparison is rounded.                 *)
(***************************************************************************)
EXTENDS Integers, Sequences, FiniteSets, FiniteSetsExt, SequencesExt

Required == 3   \* StabilityPolicy.RequiredBuckets
MinimumLoadedSamples == 5
MinimumIdleSamples == 20   \* MinimumBaselineSamples

----------------------------------------------------------------------------
(* Spread. *)

Sum(s) == FoldSeq(LAMBDA x, y : x + y, 0, s)

\* twice the median
Median2(s) ==
  LET o == SortSeq(s, <)
      m == Len(s) \div 2
  IN  IF Len(s) % 2 = 0 THEN o[m] + o[m + 1] ELSE 2 * o[m + 1]

\* four times the median absolute deviation
MAD4(s) == Median2([i \in DOMAIN s |-> Max({2 * s[i] - Median2(s), Median2(s) - 2 * s[i]})])

\* robustSpread within the policy: variation at most 10 %, MAD at most 8 %
SmallSpread(s) ==
  LET n == Len(s)
      squares == Sum([i \in 1..n |-> (n * s[i] - Sum(s)) * (n * s[i] - Sum(s))])
  IN  /\ 100 * squares <= n * Sum(s) * Sum(s)
      /\ 50 * MAD4(s) <= 8 * Median2(s)

----------------------------------------------------------------------------
(* Regions.  Buckets come as a sequence, the place of one being its index. *)

Values(b, start, end) == [i \in 1..(end - start + 1) |-> b[start + i - 1].mbps]

\* Usable buckets that follow each other with the same number of streams.
Whole(b, start, end) ==
  \A i \in start..end : b[i].usable /\ b[i].streams = b[start].streams

\* The later bucket is compatible with the region so far: within 15 % of the centre
\* of its first window, or twice the region's deviation.
Compatible(b, start, end) ==
  LET centre2 == Median2(Values(b, start, start + Required - 1))
      off2 == Max({2 * b[end + 1].mbps - centre2, centre2 - 2 * b[end + 1].mbps})
  IN  /\ Whole(b, start, end + 1)
      /\ \/ 100 * off2 <= 15 * centre2
         \/ off2 <= MAD4(Values(b, start, end))

Steady(b) ==
  {s \in 1..(Len(b) - Required + 1) :
     Whole(b, s, s + Required - 1) /\ SmallSpread(Values(b, s, s + Required - 1))}

\* DetectStableRegion: the first steady window, extended while buckets are compatible.
DetectStableRegion(b) ==
  IF Steady(b) = {} THEN [stable |-> FALSE, start |-> 0, end |-> 0]
  ELSE LET start == Min(Steady(b))
           first == start + Required - 1
       IN  [stable |-> TRUE, start |-> start,
            end |-> Max({e \in first..Len(b) : \A k \in first..(e - 1) : Compatible(b, start, k)})]

\* mutant: the range of both regions is taken in place of their overlap
DetectBothUnion(down, up) ==
  LET d == DetectStableRegion(down)
      u == DetectStableRegion(up)
      start == Min({d.start, u.start})
      end == Max({d.end, u.end})
  IN  IF d.stable /\ u.stable /\ end - start + 1 >= Required
      THEN [stable |-> TRUE, start |-> start, end |-> end]
      ELSE [stable |-> FALSE, start |-> 0, end |-> 0]

\* DetectBidirectionalStableRegion: each direction on its own, over a common range
DetectBoth(down, up) ==
  LET d == DetectStableRegion(down)
      u == DetectStableRegion(up)
      start == Max({d.start, u.start})
      end == Min({d.end, u.end})
  IN  IF d.stable /\ u.stable /\ end - start + 1 >= Required
      THEN [stable |-> TRUE, start |-> start, end |-> end]
      ELSE [stable |-> FALSE, start |-> 0, end |-> 0]

----------------------------------------------------------------------------
(* Applications and confidence. *)

PhaseOf ==
  [browsing |-> "baseline", streaming |-> "download", video_calls |-> "bidirectional",
   gaming |-> "bidirectional", audio_calls |-> "bidirectional", backup |-> "upload"]

\* scoreApplication: throughput of both directions, and a phase that is not starved
\* and has latency or loss figures.
Scorable(input, app) ==
  LET phase == PhaseOf[app]
      starved == input.samples[phase] < IF phase = "baseline" THEN MinimumIdleSamples ELSE MinimumLoadedSamples
      samples == IF starved THEN 0 ELSE input.samples[phase]
  IN  /\ input.throughput
      /\ samples > 0 \/ (~starved /\ input.loss[phase])

\* GradeConfidence, the conditions a saturation run can meet: severity of a phase's
\* samples and stability, and of the probes that were answered, in per cent.
Severity(input) ==
  Max({0}
    \union {1 : p \in {q \in {"download", "upload", "bidirectional"} :
                        input.samples[q] < 10 \/ ~input.stable[q]}}
    \union (IF input.samples["baseline"] < MinimumIdleSamples THEN {1} ELSE {})
    \union (CASE input.success < 70 -> {2} [] input.success \in 70..89 -> {1} [] OTHER -> {})
    \union (IF input.fresh \in 1..69 THEN {1} ELSE {}))
=============================================================================
