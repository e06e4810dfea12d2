----------------------------- MODULE QualityRun -----------------------------
(***************************************************************************)
(* One quality test (internal/qualitytest): the phases of a saturation     *)
(* run (Runner.Run) and of a household run (runHousehold), the concurrent  *)
(* transfers and latency probes of a phase, and the byte budgets they      *)
(* claim from: the allocation of a phase, the household ledger and the     *)
(* response budget that probes and upload answers share.                   *)
(*                                                                         *)
(* A transfer moves half or all of what it claimed (half of 1 is nothing).  *)
(* The measured rate enters as the bytes it says a window needs, the       *)
(* throughput's stability as the moment a phase is stopped, and an answer  *)
(* from the endpoint as the bytes that are read of it.                     *)
(***************************************************************************)
EXTENDS Integers, FiniteSets, FiniteSetsExt

CONSTANTS
  MaxDown, MaxUp,    \* SpeedProfileConfig.MaxDownloadBytes, MaxUploadBytes
  ResponseReserve,   \* maxResponseReserve
  ResponseBody,      \* maxResponseBody
  Streams,           \* MaxConcurrentRequests
  Block,             \* adaptiveLoad: bytes of one request
  MinPerStream,      \* boundedLoad: minimumPerStream
  MinAllocation,     \* adaptiveAllocation: the least allocation
  MinBoth,           \* Run: the least budget of a bidirectional phase
  Needs,             \* adaptiveAllocation: what the measured rate may ask for
  Unit,              \* UnitBytes of a segment and of a frame
  WarmMax,           \* Run: the most a warm-up moves
  ResponseShare,     \* Run: the divisor of the download limit kept for answers
  HouseholdReserve,  \* householdProbeReserve
  ProbeShare,        \* runHousehold: the divisor of the cap kept for probes
  Reads,             \* what is read of the endpoint's answers
  FixedProbes,       \* probes of the baseline and of the cooldown, fresh ones included
  MaxLoose           \* bound: uploads that end with bytes nobody counts

ASSUME QualityAssumption ==
  /\ {MaxDown, MaxUp, ResponseReserve, HouseholdReserve, MinAllocation, MinBoth, WarmMax,
      FixedProbes, MaxLoose} \subseteq Nat
  /\ {ResponseBody, Streams, Block, Unit, ResponseShare, MinPerStream} \subseteq Nat \ {0}
  /\ ProbeShare \in Nat \ {0, 1}   \* so that the ledger has the probes' share (100 in the code)
  /\ Needs \subseteq Nat /\ Reads \subseteq Nat

VARIABLES
  profile,    \* "saturation" or "household"
  phase,      \* the phase of the run
  ctx,        \* the run's context: live, past its deadline, cancelled by the caller
  over,       \* the context of the current phase is done
  job,        \* the transfer of each direction's slots
  prober,     \* the probe loop of the phase and the household's game
  probes,     \* probes left in a fixed series
  left,       \* executeLoad's remaining, by direction; before its phase, its budget
  block,      \* boundedLoad's block, by direction
  both,       \* bytes kept back for the bidirectional phase
  ledger,     \* householdLedger.remaining
  exhausted,  \* householdLedger.exhausted
  count,      \* phaseCounter.bytes of a saturation phase
  used,       \* bytes counted in finished transfers or phases
  resp,       \* responseBudget
  reached,    \* household: "baseline" has a sample, else the "mix" a success
  stop,       \* household.StopReason
  report,     \* Responsiveness.TotalDownloadBytes, TotalUploadBytes
  wire        \* uploads that ended with bytes nobody counts: how many (history), what
              \* the transport may still read of them, and what was sent (history)

slots == <<job, left, block, ledger, exhausted, count, used, reached, wire>>
probing == <<prober, probes>>
plan == <<profile, both, stop, report>>
vars == <<phase, ctx, over, slots, probing, resp, plan>>

Dirs == {"down", "up"}
Slots == 1..Streams
Probers == {"latency", "game"}
Off == [at |-> "off", amount |-> 0, held |-> 0]
Free == [Off EXCEPT !.at = "free"]
Moving(n) == [Off EXCEPT !.at = "moving", !.amount = n]
Least(a, b) == Min({a, b})
Most(a, b) == Max({a, b})
Zero == [d \in Dirs |-> 0]
Wire == [loose : 0..MaxLoose, stray : Nat, lost : Nat]

Capacity == Least(ResponseReserve, MaxDown \div ResponseShare)
Bulk == MaxDown - Capacity
CapBytes == MaxDown + MaxUp
Usable == (CapBytes * 9) \div 10
ProbeReserve == Least(HouseholdReserve, CapBytes \div ProbeShare)
Limit == [d \in Dirs |-> IF d = "down" THEN Bulk ELSE MaxUp]

Warm == {"download_warmup", "upload_warmup"}
Load == {"download", "upload", "bidirectional"}
Mixed == {"reference", "household"}
Fixed == {"baseline", "cooldown"}

TypeOK ==
  /\ profile \in {"saturation", "household"}
  /\ phase \in Fixed \union Warm \union Load \union Mixed \union {"returned"}
  /\ ctx \in {"live", "deadline", "cancelled"} /\ {over, exhausted} \subseteq BOOLEAN
  /\ job \in [Dirs -> [Slots -> [at : {"off", "free", "moving", "answered"}, amount : Nat, held : Nat]]]
  /\ prober \in [Probers -> [at : {"off", "free", "answered"}, amount : {0}, held : Nat]]
  /\ \A f \in {left, block, both, count, used, report} : f \in [Dirs -> Nat]
  /\ ledger \in Nat /\ probes \in 0..FixedProbes
  /\ resp \in [left : Nat, used : Nat]
  /\ reached \in {"none", "mix", "baseline"} /\ wire \in Wire
  /\ stop \in {"none", "enough_evidence", "insufficient_bytes", "insufficient_time",
               "cancelled", "transport_failure"}

Idle == [d \in Dirs |-> [i \in Slots |-> Off]]

Init ==
  /\ profile \in {"saturation", "household"}
  /\ phase = "baseline" /\ ctx = "live" /\ over = FALSE
  /\ job = Idle /\ left = Zero /\ block = Zero /\ both = Zero
  /\ prober = [p \in Probers |-> IF p = "latency" THEN Free ELSE Off] /\ probes = FixedProbes
  /\ ledger = IF profile = "household" THEN Usable - ProbeReserve ELSE 0
  /\ resp = [left |-> IF profile = "household" THEN ProbeReserve ELSE Capacity, used |-> 0]
  /\ exhausted = FALSE /\ count = Zero /\ used = Zero /\ reached = "none"
  /\ stop = "none" /\ report = Zero
  /\ wire = [loose |-> 0, stray |-> 0, lost |-> 0]

\* The contexts: the run's deadline, the caller, and the phase's own end, by its
\* time limit or, in a saturation phase, because its throughput is stable.
Over == over \/ ctx # "live"

Deadline ==
  /\ phase # "returned" /\ ctx = "live"
  /\ ctx' \in {"deadline", "cancelled"}
  /\ UNCHANGED <<phase, over, slots, probing, resp, plan>>

PhaseOver ==
  /\ phase \in Warm \union Load \union Mixed /\ ~over
  /\ over' = TRUE
  /\ UNCHANGED <<phase, ctx, slots, probing, resp, plan>>

----------------------------------------------------------------------------
(* Claims. *)

\* claim: what is left, up to the maximum asked for
Claimed(available, maximum) == Least(available, maximum)

\* mutant: the claim is not one atomic step, so a stream's subtraction may be lost
ClaimLost(d, i) ==
  /\ phase \in Load /\ job[d][i] = Free
  /\ LET n == IF Over THEN 0 ELSE Claimed(left[d], block[d])
     IN  /\ job' = [job EXCEPT ![d][i] = IF n = 0 THEN Off ELSE Moving(n)]
         /\ \E m \in {0, n} : left' = [left EXCEPT ![d] = @ - m]
  /\ UNCHANGED <<phase, ctx, over, block, ledger, exhausted, count, used, reached, wire,
                 probing, resp, plan>>

\* executeLoad: a stream claims its next request, or ends.
Claim(d, i) ==
  /\ phase \in Load /\ job[d][i] = Free
  /\ LET n == IF Over THEN 0 ELSE Claimed(left[d], block[d])
     IN  /\ job' = [job EXCEPT ![d][i] = IF n = 0 THEN Off ELSE Moving(n)]
         /\ left' = [left EXCEPT ![d] = @ - n]
  /\ UNCHANGED <<phase, ctx, over, block, ledger, exhausted, count, used, reached, wire,
                 probing, resp, plan>>

\* The household's slots: a stream's segments, a call's frames in each direction.
Segments == {<<"down", 1>>}
Frames == {<<"down", 2>>, <<"up", 1>>}

\* householdLedger.claim: a whole unit or nothing; an instance that gets nothing
\* ends, a call in both directions.
ClaimUnit(d, i) ==
  /\ phase \in Mixed /\ job[d][i] = Free
  /\ CASE Over ->
            job' = [job EXCEPT ![d][i] = Off] /\ UNCHANGED <<ledger, exhausted>>
       [] ~Over /\ ledger < Unit ->
            /\ exhausted' = TRUE
            /\ job' = [e \in Dirs |-> [k \in Slots |->
                 IF /\ job[e][k] = Free
                    /\ {<<d, i>>, <<e, k>>} \subseteq Segments \/ {<<d, i>>, <<e, k>>} \subseteq Frames
                 THEN Off ELSE job[e][k]]]
            /\ UNCHANGED ledger
       [] OTHER ->
            /\ job' = [job EXCEPT ![d][i] = Moving(Unit)]
            /\ ledger' = ledger - Unit /\ UNCHANGED exhausted
  /\ UNCHANGED <<phase, ctx, over, left, block, count, used, reached, wire, probing, resp, plan>>

----------------------------------------------------------------------------
(* Transfers: oneTransfer and transfer1. *)

\* A call that could not claim a frame claims none in its other direction either.
CallEnded(d, i) == <<d, i>> \in Frames /\ \E s \in Frames : job[s[1]][s[2]].at = "off"

After(d, i, fails) ==
  job' = [job EXCEPT ![d][i] =
    IF phase \in Warm \/ fails \/ (phase \in Mixed /\ CallEnded(d, i)) THEN Off ELSE Free]

\* A sample of the mix, inside or outside the window.
Succeeded == reached' = IF reached = "none" THEN "mix" ELSE reached

\* The transfer in slot i is over with this many bytes counted for it.  A saturation
\* stream ends with a failure that the context did not cause; a warm-up is one
\* transfer; settle gives back to the ledger what a unit did not move.
Finished(d, i, moved, bad) ==
  LET amount == job[d][i].amount
  IN  /\ After(d, i, bad /\ ~Over /\ phase \in Load)
      /\ used' = [used EXCEPT ![d] = @ + IF phase \in Load THEN 0 ELSE moved]
      /\ ledger' = IF phase \in Mixed THEN ledger + amount - moved ELSE ledger
      /\ IF phase = "household" /\ moved = amount /\ ~bad /\ ~Over THEN Succeeded ELSE UNCHANGED reached

Parts(n) == {n \div 2, n}

\* phaseCounter.add
Counted(d, moved) ==
  count' = [count EXCEPT ![d] = @ + IF phase \in Load THEN moved ELSE 0]

\* The body of a download, whole or cut short, with or without an error.
Downloaded(i, moved, bad) ==
  /\ job["down"][i].at = "moving"
  /\ moved \in Parts(job["down"][i].amount)
  /\ Counted("down", moved) /\ Finished("down", i, moved, bad)
  /\ UNCHANGED <<phase, ctx, over, left, block, exhausted, wire, probing, resp, plan>>

\* An upload ends with bytes that were sent and that nothing counts, or that the
\* transport goes on to read from its body (generatedBody) once the call is back and,
\* in a load phase, the phase's counter summed.
Loose(lost, stray) ==
  IF lost + stray = 0 THEN UNCHANGED wire
  ELSE /\ wire.loose < MaxLoose
       /\ wire' = [loose |-> wire.loose + 1, stray |-> wire.stray + stray, lost |-> wire.lost + lost]

\* The request fails under way.
UploadFailed(i, moved, stray) ==
  /\ job["up"][i].at = "moving"
  /\ moved \in Parts(job["up"][i].amount) /\ stray \in {0, job["up"][i].amount - moved}
  /\ Counted("up", moved) /\ Finished("up", i, moved, TRUE)
  /\ Loose(0, stray)
  /\ UNCHANGED <<phase, ctx, over, left, block, exhausted, probing, resp, plan>>

\* The endpoint refuses the upload with what was sent of it: the transfer counts
\* nothing, so only a saturation phase's own counter has those bytes.
UploadRefused(i, moved, stray) ==
  /\ job["up"][i].at = "moving"
  /\ moved \in Parts(job["up"][i].amount) /\ stray \in {0, job["up"][i].amount - moved}
  /\ Counted("up", moved) /\ Finished("up", i, 0, TRUE)
  /\ Loose(IF phase \in Load THEN 0 ELSE moved, stray)
  /\ UNCHANGED <<phase, ctx, over, left, block, exhausted, probing, resp, plan>>

\* The transport reads the rest of the bodies it still holds, if it does, also after
\* the run has returned.
StrayRead ==
  /\ wire.stray > 0
  /\ wire' = [wire EXCEPT !.stray = 0, !.lost = @ + wire.stray]
  /\ UNCHANGED <<phase, ctx, over, job, left, block, ledger, exhausted, count, used, reached,
                 probing, resp, plan>>

\* The answer arrives: drainResponse reserves room for it, if there is any left.
Uploaded(i) ==
  /\ job["up"][i].at = "moving"
  /\ LET n == job["up"][i].amount
         r == Claimed(resp.left, ResponseBody)
     IN  /\ Counted("up", n)
         /\ resp' = [resp EXCEPT !.left = @ - r]
         /\ IF r = 0 THEN Finished("up", i, n, TRUE)
            ELSE /\ job' = [job EXCEPT !["up"][i] = [at |-> "answered", amount |-> n, held |-> r]]
                 /\ UNCHANGED <<used, ledger, reached>>
  /\ UNCHANGED <<phase, ctx, over, left, block, exhausted, wire, probing, plan>>

\* mutant: the whole reservation is given back
DrainedRefunding(r, n) == resp' = [left |-> resp.left + r, used |-> resp.used + n]

\* The rest of drainResponse: what was not read of the reservation is given back.
Drained(r, n) == resp' = [left |-> resp.left + r - n, used |-> resp.used + n]

UploadDrained(i, n, bad) ==
  /\ job["up"][i].at = "answered" /\ n <= job["up"][i].held
  /\ Drained(job["up"][i].held, n)
  /\ Finished("up", i, job["up"][i].amount, bad)
  /\ UNCHANGED <<phase, ctx, over, left, block, exhausted, count, wire, probing, plan>>

----------------------------------------------------------------------------
(* Probes: collectFixedLatency, collectLoadedLatency, runProbes. *)

\* One probe of a loop is over; a fixed series ends with its last one.
Probed(p) ==
  /\ probes' = IF phase \in Fixed /\ probes > 0 THEN probes - 1 ELSE probes
  /\ prober' = [prober EXCEPT ![p] = IF phase \in Fixed /\ probes' = 0 THEN Off ELSE Free]

ProbeStops(p) ==
  /\ prober[p].at = "free" /\ Over
  /\ prober' = [prober EXCEPT ![p] = Off]
  /\ UNCHANGED <<phase, ctx, over, slots, probes, resp, plan>>

ProbeLost(p) ==
  /\ prober[p].at = "free" /\ ~Over
  /\ Probed(p)
  /\ UNCHANGED <<phase, ctx, over, slots, resp, plan>>

\* An exhausted budget ends a latency loop and is no loss; a fresh probe and a
\* game's probe only go without a sample.
ProbeAnswered(p, fresh) ==
  /\ prober[p].at = "free" /\ ~Over
  /\ LET r == Claimed(resp.left, ResponseBody)
     IN  /\ resp' = [resp EXCEPT !.left = @ - r]
         /\ CASE r > 0 ->
                   /\ prober' = [prober EXCEPT ![p] = [Off EXCEPT !.at = "answered", !.held = r]]
                   /\ UNCHANGED probes
              [] r = 0 /\ p = "latency" /\ ~fresh ->
                   prober' = [prober EXCEPT ![p] = Off] /\ UNCHANGED probes
              [] OTHER -> Probed(p)
  /\ UNCHANGED <<phase, ctx, over, slots, plan>>

\* The answer is read; a bad one, and that of a fresh connection, is no sample.
ProbeRead(p, n, bad) ==
  /\ prober[p].at = "answered" /\ n <= prober[p].held
  /\ Drained(prober[p].held, n)
  /\ Probed(p)
  /\ CASE profile = "household" /\ phase = "baseline" /\ ~bad -> reached' = "baseline"
       [] profile = "household" /\ p = "game" /\ ~bad -> Succeeded
       [] OTHER -> UNCHANGED reached
  /\ UNCHANGED <<phase, ctx, over, job, left, block, ledger, exhausted, count, used, wire, plan>>

----------------------------------------------------------------------------
(* The phases of Runner.Run. *)

Quiet(d) == \A i \in Slots : job[d][i].at = "off"
NoProbe == \A p \in Probers : prober[p].at = "off"
OnlyLatency == [p \in Probers |-> IF p = "latency" THEN Free ELSE Off]

\* timeBoxedTransfer of a tenth of the budget
WarmUp(next, d) ==
  LET n == Least(Limit[d] \div 10, WarmMax)
  IN  /\ phase' = next /\ over' = FALSE
      /\ job' = [Idle EXCEPT ![d][1] = IF n = 0 THEN Off ELSE Moving(n)]
      /\ UNCHANGED <<ctx, left, block, ledger, exhausted, count, used, reached, wire,
                     probing, resp, plan>>

StartWarmup ==
  /\ profile = "saturation" /\ phase = "baseline" /\ NoProbe
  /\ WarmUp("download_warmup", "down")

NextWarmup ==
  /\ phase = "download_warmup" /\ Quiet("down")
  /\ WarmUp("upload_warmup", "up")

\* adaptiveAllocation, from what the warm-up left
Allocation(d, need) ==
  LET ceiling == Limit[d] - used[d]
  IN  IF used[d] = 0 THEN ceiling ELSE Least(ceiling, Most(need, MinAllocation))

\* bidirectionalReserve: the 25 of 55 per cent of the time
Reserve(available) == (available * 5) \div 11

\* adaptiveLoad and boundedLoad: every stream can claim, and the streams of the phase
StreamsOf(budget) == Least(Streams, Most(budget \div MinPerStream, 1))
BlockOf(budget) == Least(Block, Most(budget \div StreamsOf(budget), 1))

\* runSinglePhase and runBidirectionalPhase start their streams and their probes.
StartLoad(next, dirs, budget) ==
  /\ phase' = next /\ over' = FALSE
  /\ left' = budget
  /\ block' = [d \in Dirs |-> BlockOf(budget[d])]
  /\ job' = [d \in Dirs |-> [i \in Slots |->
       IF d \in dirs /\ budget[d] > 0 /\ i <= StreamsOf(budget[d]) THEN Free ELSE Off]]
  /\ prober' = OnlyLatency
  /\ UNCHANGED <<ctx, ledger, exhausted, reached, wire, probes, resp>>

\* Both directions' budgets are divided between their own and the common phase.
StartDownload(need) ==
  /\ phase = "upload_warmup" /\ Quiet("up")
  /\ LET available(d) == Allocation(d, need[d])
     IN  /\ both' = [d \in Dirs |-> Reserve(available(d))]
         /\ StartLoad("download", {"down"}, [d \in Dirs |-> available(d) - both'[d]])
  /\ UNCHANGED <<profile, stop, report, count, used>>

\* The streams are done, which ends the probes' context too.
LoadDone ==
  /\ phase \in Load /\ ~over /\ Quiet("down") /\ Quiet("up")
  /\ over' = TRUE
  /\ UNCHANGED <<phase, ctx, slots, probing, resp, plan>>

\* The streams and the probes of the phase have returned.
PhaseEnds == Quiet("down") /\ Quiet("up") /\ NoProbe

\* summarizeTransfer: the phase's counter is its result.
Summed ==
  /\ used' = [d \in Dirs |-> used[d] + count[d]]
  /\ count' = Zero

StartUpload ==
  /\ phase = "download" /\ PhaseEnds
  /\ Summed
  /\ StartLoad("upload", {"up"}, [left EXCEPT !["down"] = 0])
  /\ UNCHANGED plan

StartCooldown ==
  /\ phase' = "cooldown" /\ over' = FALSE
  /\ prober' = OnlyLatency /\ probes' = FixedProbes
  /\ job' = Idle /\ left' = Zero /\ block' = Zero
  /\ UNCHANGED <<ctx, ledger, exhausted, reached, wire, resp>>

\* What is left for both directions, as far as the limits allow.
Remaining(d) == Least(both[d], Limit[d] - used[d] - count[d])

StartBidirectional ==
  /\ phase = "upload" /\ PhaseEnds
  /\ Summed
  /\ IF ctx = "live" /\ \A d \in Dirs : Remaining(d) >= MinBoth
     THEN StartLoad("bidirectional", Dirs, [d \in Dirs |-> Remaining(d)])
     ELSE StartCooldown
  /\ UNCHANGED plan

EndBidirectional ==
  /\ phase = "bidirectional" /\ PhaseEnds
  /\ Summed
  /\ StartCooldown
  /\ UNCHANGED plan

----------------------------------------------------------------------------
(* The phases of runHousehold. *)

\* The reference stream alone, when the plan has room for it.
StartReference ==
  /\ profile = "household" /\ phase = "baseline" /\ NoProbe /\ ctx = "live"
  /\ phase' = "reference" /\ over' = FALSE
  /\ job' = [Idle EXCEPT !["down"][1] = Free]
  /\ UNCHANGED <<ctx, left, block, ledger, exhausted, count, used, reached, wire, probing, resp, plan>>

\* The mix: every instance, the game's probes and the latency loop.
StartMix ==
  /\ profile = "household" /\ NoProbe /\ Quiet("down") /\ ctx = "live"
  /\ phase \in {"baseline", "reference"}
  /\ phase' = "household" /\ over' = FALSE
  /\ job' = [d \in Dirs |-> [i \in Slots |-> IF <<d, i>> \in Segments \union Frames THEN Free ELSE Off]]
  /\ prober' = [p \in Probers |-> Free]
  /\ UNCHANGED <<ctx, left, block, ledger, exhausted, count, used, reached, wire, probes, resp, plan>>

\* The watch loop sees that a claim has failed.
Exhaust ==
  /\ phase = "household" /\ exhausted /\ ~Over
  /\ over' = TRUE /\ stop' = "insufficient_bytes"
  /\ UNCHANGED <<phase, ctx, slots, probing, resp, profile, both, report>>

\* What the plan promised (PlanHousehold).
Verdicts == {"enough_evidence", "insufficient_bytes", "insufficient_time"}

\* The reason the scenario ended, the plan's own verdict last; without a sample of
\* the baseline or a success inside the window the endpoint was not reached.
Reason(planned, observed) ==
  CASE ~observed -> "transport_failure"
    [] observed /\ stop # "none" -> stop
    [] observed /\ stop = "none" /\ ctx = "cancelled" -> "cancelled"
    [] observed /\ stop = "none" /\ ctx = "deadline" -> "insufficient_time"
    [] OTHER -> planned

EndMix(planned, observed) ==
  /\ profile = "household" /\ PhaseEnds
  /\ \/ phase = "household" /\ Over
     \/ phase \in {"baseline", "reference"} /\ ctx # "live"
  /\ CASE reached = "none" -> ~observed [] reached = "baseline" -> observed [] OTHER -> TRUE
  /\ stop' = Reason(planned, observed)
  /\ StartCooldown
  /\ UNCHANGED <<count, used, profile, both, report>>

----------------------------------------------------------------------------
(* The result. *)

Return ==
  /\ phase = "cooldown" /\ PhaseEnds
  /\ phase' = "returned"
  /\ report' = [d \in Dirs |-> used[d] + IF d = "down" THEN resp.used ELSE 0]
  /\ UNCHANGED <<ctx, over, slots, probing, resp, profile, both, stop>>

Returned == phase = "returned" /\ UNCHANGED vars

SlotStep(d, i) ==
  \/ Claim(d, i) \/ ClaimUnit(d, i)
  \/ \E n \in Parts(job[d][i].amount) :
       \/ d = "down" /\ \E bad \in BOOLEAN : Downloaded(i, n, bad)
       \/ d = "up" /\ \E stray \in {0, job[d][i].amount - n} : UploadFailed(i, n, stray) \/ UploadRefused(i, n, stray)
  \/ d = "up" /\ Uploaded(i)
  \/ d = "up" /\ \E n \in Reads, bad \in BOOLEAN : UploadDrained(i, n, bad)
ProbeStep(p) ==
  \/ ProbeStops(p) \/ ProbeLost(p) \/ (\E fresh \in BOOLEAN : ProbeAnswered(p, fresh))
  \/ \E n \in Reads, bad \in BOOLEAN : ProbeRead(p, n, bad)
PhaseStep ==
  \/ StartWarmup \/ NextWarmup \/ (\E need \in [Dirs -> Needs] : StartDownload(need))
  \/ LoadDone \/ StartUpload \/ StartBidirectional \/ EndBidirectional
  \/ StartReference \/ StartMix \/ Exhaust \/ (\E v \in Verdicts, o \in BOOLEAN : EndMix(v, o)) \/ Return

Next ==
  \/ Deadline \/ PhaseOver \/ PhaseStep \/ StrayRead \/ Returned
  \/ \E d \in Dirs, i \in Slots : SlotStep(d, i)
  \/ \E p \in Probers : ProbeStep(p)

Spec == Init /\ [][Next]_vars

----------------------------------------------------------------------------
(* Correctness. *)

\* What the run counts never passes the profile's limits, whatever the streams and
\* probes claim at the same time and whatever the earlier phases left: no unsigned
\* subtraction between budgets wraps, and a household run keeps its overhead share.
\* Bytes that are sent and not counted are HardEnvelope's.
EnvelopeKept ==
  IF profile = "household"
  THEN used["down"] + used["up"] + resp.used <= Usable
  ELSE /\ used["down"] + count["down"] + resp.used <= MaxDown
       /\ used["up"] + count["up"] <= MaxUp

\* What is reserved of the response budget, by probes and by uploads, and what is
\* claimed by the transfers under way.
HeldByProbes == [p \in Probers |-> prober[p].held]
HeldByUploads == [i \in Slots |-> job["up"][i].held]
Claims == [i \in Slots |-> job["down"][i].amount + job["up"][i].amount]

\* Every byte of the response budget and of the ledger is left, reserved or used.
Accounted ==
  /\ resp.left + resp.used + SumFunction(HeldByProbes) + SumFunction(HeldByUploads)
     = IF profile = "household" THEN ProbeReserve ELSE Capacity
  /\ profile = "household" =>
       ledger + used["down"] + used["up"] + SumFunction(Claims) = Usable - ProbeReserve

\* Budget: "the hard, locally enforced envelope for one test" (quality/quality.go:15).
\* It does not hold of what is sent: the bytes of a refused warm-up or household upload
\* are not counted against the limit, nor those the transport reads after the call.
HardEnvelope ==
  IF profile = "household"
  THEN used["down"] + used["up"] + resp.used + wire.lost <= CapBytes
  ELSE used["up"] + count["up"] + wire.lost <= MaxUp
=============================================================================
