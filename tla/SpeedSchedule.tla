--------------------------- MODULE SpeedSchedule ---------------------------
(***************************************************************************)
(* When a scheduled speed test is due and when the next one is announced   *)
(* (internal/measurement): windows of the local day, an optional cadence   *)
(* of slots inside them, and one randomised but stable instant per window  *)
(* or slot.                                                                *)
(*                                                                         *)
(* A time is a count of ticks and a day has Day of them, the same every    *)
(* day: a change of the clock is not modelled.  A window is a pair of      *)
(* minutes of the day; one the code cannot parse ("never") is a pair of    *)
(* equal minutes, which the code ignores as well.  A time that may not     *)
(* exist is a set with at most one member.                                 *)
(***************************************************************************)
EXTENDS Integers, Sequences, FiniteSetsExt

CONSTANTS Hour, Day

ASSUME ScheduleAssumption == Hour \in Nat \ {0} /\ Day \in Nat \ {0} /\ Day % Hour = 0

\* localClock
Clock(t, minute) == (t \div Day) * Day + minute

\* The sensor's hash of its seed and of a start time, below the duration.
Drawn(seed, start, duration) == (seed + seed * start) % duration

Earliest(times) == IF times = {} THEN {} ELSE {Min(times)}

----------------------------------------------------------------------------
(* Windows. *)

\* speedWindowSchedule: the occurrence of the window that contains t, if any;
\* one that ends on the next day belongs to the day it began on.
Occurrence(t, w) ==
  LET start == IF w.start > w.end /\ t < Clock(t, w.end) THEN Clock(t - Day, w.start) ELSE Clock(t, w.start)
      end == IF w.start > w.end /\ t >= Clock(t, w.end) THEN Clock(t + Day, w.end) ELSE Clock(t, w.end)
  IN  IF w.start # w.end /\ start <= t /\ t < end THEN {[start |-> start, end |-> end]} ELSE {}

Occurrences(t, windows) == UNION {Occurrence(t, windows[i]) : i \in DOMAIN windows}

At(o, seed) == o.start + Drawn(seed, o.start, o.end - o.start)

SpeedWindowDue(now, last, windows, seed) ==
  \E o \in Occurrences(now, windows) : now >= At(o, seed) /\ last < o.start

\* The windows that contain one of the hourly instants from a day back to two ahead.
NextSpeedWindow(now, last, windows, seed) ==
  IF SpeedWindowDue(now, last, windows, seed) THEN {now}
  ELSE LET hours == (-(Day \div Hour))..(2 * (Day \div Hour))
           found == UNION {Occurrences(now + h * Hour, windows) : h \in hours}
       IN  Earliest({At(o, seed) : o \in {f \in found : At(f, seed) >= now /\ last < f.start}})

----------------------------------------------------------------------------
(* Cadence. *)

Minutes(cadence) == Min({Max({cadence, Hour}), Day})

Slot(day, offset, cadence) ==
  [start |-> Clock(day, offset), end |-> Clock(day, Min({offset + Minutes(cadence), Day}))]

\* cadenceSlot
CadenceSlot(now, cadence) ==
  Slot(now, ((now % Day) \div Minutes(cadence)) * Minutes(cadence), cadence)

\* The part of a window, begun on the given day, that lies inside the slot.
Clipped(slot, day, w) ==
  LET end == IF w.end < w.start THEN Clock(day + Day, w.end) ELSE Clock(day, w.end)
  IN  [start |-> Max({Clock(day, w.start), slot.start}), end |-> Min({end, slot.end})]

\* The intervals a slot allows, of the windows of the day before to the day after.
Intervals(slot, windows) ==
  LET n == Len(windows)
      all == [k \in 1..(3 * n) |->
                LET w == windows[((k - 1) % n) + 1]
                IN  IF w.start = w.end THEN [start |-> 0, end |-> 0]
                    ELSE Clipped(slot, slot.start + ((k - 1) \div n - 1) * Day, w)]
      nonempty(i) == i.start < i.end
  IN  SelectSeq(all, nonempty)

\* What the first k intervals last together.
Total(intervals, k) == MapThenSumSet(LAMBDA i : intervals[i].end - intervals[i].start, 1..k)

\* mutant: the offset is not carried over to a later interval
CadenceScheduleFirst(slot, windows, seed) ==
  LET allowed == Intervals(slot, windows)
      total == Total(allowed, Len(allowed))
  IN  IF total = 0 THEN {} ELSE {allowed[1].start + Drawn(seed, slot.start, total)}

\* cadenceSchedule: the drawn offset counts through the allowed intervals.
CadenceSchedule(slot, windows, seed) ==
  LET allowed == Intervals(slot, windows)
      total == Total(allowed, Len(allowed))
      offset == Drawn(seed, slot.start, total)
      k == Min({i \in 1..Len(allowed) : offset < Total(allowed, i)})
  IN  IF total = 0 THEN {} ELSE {allowed[k].start + offset - Total(allowed, k - 1)}

SpeedProfileDue(now, last, windows, cadence, seed) ==
  IF cadence <= 0 THEN SpeedWindowDue(now, last, windows, seed)
  ELSE LET slot == CadenceSlot(now, cadence)
       IN  \E at \in CadenceSchedule(slot, windows, seed) :
             now >= at /\ now < slot.end /\ last < slot.start

\* NextSpeedProfile: the earliest instant still to come of the slots of yesterday
\* to three days ahead that had no test yet.
NextSpeedProfile(now, last, windows, cadence, seed) ==
  IF cadence <= 0 THEN NextSpeedWindow(now, last, windows, seed)
  ELSE IF SpeedProfileDue(now, last, windows, cadence, seed) THEN {now}
  ELSE LET slots == {Slot(now + d * Day, k * Minutes(cadence), cadence) :
                       d \in -1..3, k \in 0..((Day - 1) \div Minutes(cadence))}
       IN  Earliest(UNION {{at \in CadenceSchedule(s, windows, seed) : at >= now /\ last < s.start} : s \in slots})
=============================================================================
