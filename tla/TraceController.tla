--------------------------- MODULE TraceController ---------------------------
(***************************************************************************)
(* TraceController.run (controller.py:113-306): one measurement, from the  *)
(* fixed-flow sweeps through the canary sweeps, boundary detection and     *)
(* adaptive sampling to the optional kernel control and the report.        *)
(*                                                                         *)
(* The controller is sequential; what it talks to is not.  The network may *)
(* answer each probe with any outcome its behaviour allows, the user may   *)
(* interrupt the measurement at any moment, also while a batch is on the   *)
(* wire, the backend may fail, and the probe budget may refuse any bundle. *)
(* One action is one iteration of a loop of the code: at most one batch.   *)
(***************************************************************************)
EXTENDS Segments, Functions

CONSTANT
  Networks   (* behaviours of the network: for each TTL and flow token the *)
             (* outcomes a probe may meet                                  *)

ASSUME NetworkAssumption ==
  Networks \subseteq [TTLs \X FlowTokens -> (SUBSET Outcomes) \ {{}}]

VARIABLES
  net,           (* the behaviour of the network during this run           *)
  pc,            (* the part of run() being executed                       *)
  obs,           (* self.observations                                      *)
  sent,          (* probes handed to the network                           *)
  baselineCount, (* self.baseline_probe_count                              *)
  nextSample,    (* self._next_sample_id                                   *)
  tokens         (* self._variant_cache: variant -> drawn token            *)

VARIABLES        (* locals of _baseline and _flow_canaries                 *)
  round, start, sweepLimit, terminalTtl, canary

VARIABLES        (* locals of run, _probe_regions and _probe_region        *)
  limit, regions, work, fixedLeft, nextVariant

VARIABLES
  warnings,      (* tags of self.warnings                                  *)
  interrupted,
  control        (* status of the kernel TCP control                       *)

ledger    == <<obs, sent, baselineCount>>
sweepVars == <<round, start, sweepLimit, terminalTtl, canary>>
capVars   == <<regions, work, fixedLeft, nextVariant>>
verdict   == <<warnings, interrupted, control>>
vars == <<net, pc, ledger, nextSample, tokens, sweepVars, limit, capVars, verdict>>

(* The try block of run(), in program order, and what follows it.          *)
TryStages == {"round", "sweep", "limit", "canary", "canarySweep", "regions",
              "window", "fixed", "varied", "control"}
Stages == TryStages \cup {"summarize", "done", "failed"}

ControlStatuses == {"connected", "refused", "timeout", "unreachable", "error"}
Positive(status) == status \in {"connected", "refused"}

WarningTags == {"budget", "no_response", "interrupted", "no_boundary",
                "no_terminal", "foreign_terminal", "control_positive",
                "control_negative"}

-----------------------------------------------------------------------------
(* Probes, the budget and the network.                                     *)

Remaining == MaxProbes - Cardinality(obs)

(* Fault: the budget exceeded by one.                                      *)
FitsLoosely(specs) == Cardinality(specs) <= Remaining + 1

(* _send refuses a bundle that does not fit as a whole.                    *)
Fits(specs) == Cardinality(specs) <= Remaining

TokenOf(p) == IF p.variant = 0 THEN MainToken ELSE tokens[p.variant]

PossibleAnswers(p) == net[<<p.ttl, TokenOf(p)>>]

(* Every way the network may answer a batch, each probe on its own.        *)
Replies(specs) ==
  LET loose == {p \in specs : Cardinality(PossibleAnswers(p)) > 1}
      draws == {d \in [loose -> UNION {PossibleAnswers(p) : p \in loose}] :
                  \A p \in loose : d[p] \in PossibleAnswers(p)}
  IN  {[p \in specs |-> IF p \in loose THEN d[p]
                        ELSE CHOOSE o \in PossibleAnswers(p) : TRUE] : d \in draws}

(* Fault: every batch counted as baseline.                                 *)
DeliverCounted(specs, reply, counted) ==
  /\ obs' = obs \cup Received(specs, reply)
  /\ sent' = sent + Cardinality(specs)
  /\ baselineCount' = baselineCount + Cardinality(specs)

Deliver(specs, reply, counted) ==
  /\ obs' = obs \cup Received(specs, reply)
  /\ sent' = sent + Cardinality(specs)
  /\ baselineCount' = baselineCount + counted

Refuse ==
  /\ warnings' = warnings \cup {"budget"}
  /\ UNCHANGED <<ledger, interrupted, control>>

(* Fault: used tokens drawn again.                                         *)
UnusedByMain == Tokens \ {MainToken}

FreshTokens == Tokens \ ({MainToken} \cup Range(tokens))

(* The cache with a token for one more variant.                            *)
Cached(v, t) == [u \in DOMAIN tokens \cup {v} |-> IF u = v THEN t ELSE tokens[u]]

(* The sample of the sweep under way is the one allocated last.            *)
LastSample == nextSample - 1

ChunkStop(from, last) == Min({from + ChunkSize - 1, last})

-----------------------------------------------------------------------------
(* The bundle each sending stage is about to send.                         *)

(* Fault: the chunk's last TTL excluded.                                   *)
ShortSweepSpecs ==
  Bundle(start..(ChunkStop(start, sweepLimit) - 1), 0, "baseline-fixed", LastSample)

SweepSpecs ==
  Bundle(start..ChunkStop(start, sweepLimit), 0, "baseline-fixed", LastSample)

CanarySpecs ==
  Bundle(start..ChunkStop(start, limit), canary, "canary-varied", LastSample)

Window == NextWindow(work)

FixedSpecs == Bundle(Window.ttls, 0, "dbp-fixed", nextSample)

(* How many more variants one CAP batch takes.                             *)
VariedCount ==
  Min({AdaptiveBatch, Required - nextVariant + 1,
       Remaining \div Cardinality(Window.ttls)})

VariedBatch == nextVariant..(nextVariant + VariedCount - 1)

(* Fault: one sample id for the whole batch.                               *)
VariedSpecsOneSample ==
  UNION {Bundle(Window.ttls, v, "dbp-varied", nextSample) : v \in VariedBatch}

VariedSpecs ==
  UNION {Bundle(Window.ttls, v, "dbp-varied", nextSample + (v - nextVariant)) :
           v \in VariedBatch}

(* The variants of the batch that have no flow token yet.                  *)
Tokenless == VariedBatch \ DOMAIN tokens

-----------------------------------------------------------------------------
Init ==
  /\ net \in Networks
  /\ pc = "round"
  /\ obs = {} /\ sent = 0 /\ baselineCount = 0
  /\ nextSample = 1
  /\ tokens = <<>>
  /\ round = 0 /\ start = 1 /\ sweepLimit = 0 /\ terminalTtl = 0 /\ canary = 0
  /\ limit = 0
  /\ regions = {} /\ work = {} /\ fixedLeft = 0 /\ nextVariant = 0
  /\ warnings = {} /\ interrupted = FALSE /\ control = "none"

-----------------------------------------------------------------------------
(* _baseline: fixed-flow sweeps.                                           *)

(* Fault: the terminal forgotten between rounds.                           *)
SweepReachAgain ==
  IF round = 0 \/ LastObservedTtl(obs) = 0 THEN MaxHops
  ELSE Min({MaxHops, LastObservedTtl(obs) + TailGuard})

(* How far a round sweeps: to a known terminal; over the whole range in    *)
(* the first round; else a guard beyond the last TTL that answered.        *)
SweepReach ==
  IF terminalTtl # 0 THEN terminalTtl
  ELSE IF round = 0 \/ LastObservedTtl(obs) = 0 THEN MaxHops
  ELSE Min({MaxHops, LastObservedTtl(obs) + TailGuard})

BeginRound ==
  /\ pc = "round"
  /\ pc' = "sweep"
  /\ sweepLimit' = SweepReach
  /\ start' = 1
  /\ nextSample' = nextSample + 1
  /\ UNCHANGED <<net, ledger, tokens, round, terminalTtl, canary, limit, capVars, verdict>>

(* The budget refuses a chunk: the baseline ends here.                     *)
SweepRefused ==
  /\ pc = "sweep"
  /\ ~Fits(SweepSpecs)
  /\ Refuse
  /\ pc' = "limit"
  /\ UNCHANGED <<net, nextSample, tokens, sweepVars, limit, capVars>>

(* A chunk is answered.  A terminal reply ends the round early and bounds  *)
(* all later rounds; a first round without any answer ends the baseline.   *)
SweepChunk ==
  /\ pc = "sweep"
  /\ Fits(SweepSpecs)
  /\ \E reply \in Replies(SweepSpecs) :
       LET ends    == {o.ttl : o \in {x \in Received(SweepSpecs, reply) : Terminal(x)}}
           stop    == ChunkStop(start, sweepLimit)
           over    == ends # {} \/ stop = sweepLimit
           silent  == over /\ round = 0 /\ \A o \in obs' : ~Answered(o)
       IN  /\ Deliver(SweepSpecs, reply, Cardinality(SweepSpecs))
           /\ terminalTtl' = IF ends = {} THEN terminalTtl
                             ELSE Min(ends \cup ({terminalTtl} \ {0}))
           /\ warnings' = IF silent THEN warnings \cup {"no_response"} ELSE warnings
           /\ \/ /\ ~over
                 /\ start' = stop + 1
                 /\ UNCHANGED <<pc, round>>
              \/ /\ over
                 /\ pc' = IF silent \/ round + 1 = BaselineRounds THEN "limit" ELSE "round"
                 /\ round' = round + 1
                 /\ UNCHANGED start
  /\ UNCHANGED <<net, nextSample, tokens, sweepLimit, canary, limit, capVars,
                 interrupted, control>>

(* run() fixes the analysis limit; without any answer nothing is analysed. *)
FixLimit ==
  /\ pc = "limit"
  /\ limit' = AnalysisLimit(obs)
  /\ pc' = IF BaselineAnswered(obs) THEN "canary" ELSE "window"
  /\ canary' = 1
  /\ UNCHANGED <<net, ledger, nextSample, tokens, round, start, sweepLimit, terminalTtl,
                 capVars, verdict>>

-----------------------------------------------------------------------------
(* _flow_canaries: one sweep on each of a few other flows.                 *)

(* _variant_flow draws until it meets a token that is neither the main     *)
(* flow's nor used; rejected draws change nothing.                         *)
BeginCanary ==
  /\ pc = "canary"
  /\ canary <= CanaryFlows
  /\ \E t \in FreshTokens : tokens' = Cached(canary, t)
  /\ nextSample' = nextSample + 1
  /\ start' = 1
  /\ pc' = "canarySweep"
  /\ UNCHANGED <<net, ledger, round, sweepLimit, terminalTtl, canary, limit, capVars, verdict>>

CanariesDone ==
  /\ pc = "canary"
  /\ canary > CanaryFlows
  /\ pc' = "regions"
  /\ UNCHANGED <<net, ledger, nextSample, tokens, sweepVars, limit, capVars, verdict>>

CanaryRefused ==
  /\ pc = "canarySweep"
  /\ ~Fits(CanarySpecs)
  /\ Refuse
  /\ pc' = "regions"
  /\ UNCHANGED <<net, nextSample, tokens, sweepVars, limit, capVars>>

CanaryChunk ==
  /\ pc = "canarySweep"
  /\ Fits(CanarySpecs)
  /\ \E reply \in Replies(CanarySpecs) :
       Deliver(CanarySpecs, reply, Cardinality(CanarySpecs))
  /\ LET stop == ChunkStop(start, limit)
     IN  IF stop = limit
         THEN pc' = "canary" /\ canary' = canary + 1 /\ UNCHANGED start
         ELSE start' = stop + 1 /\ UNCHANGED <<pc, canary>>
  /\ UNCHANGED <<net, nextSample, tokens, round, sweepLimit, terminalTtl, limit,
                 capVars, verdict>>

-----------------------------------------------------------------------------
(* Boundary detection and the sampling windows it asks for.                *)
(* Fault: the kernel control run before adaptive sampling.                 *)
ControlThenRegions ==
  /\ pc = "regions"
  /\ regions' = IF GlobalCap THEN {GlobalRegion(limit)} ELSE FindRegions(obs, limit)
  /\ work' = SamplingWindows(regions')
  /\ control' \in ControlStatuses
  /\ pc' = "window"
  /\ UNCHANGED <<net, ledger, nextSample, tokens, sweepVars, limit, fixedLeft,
                 nextVariant, warnings, interrupted>>

DetectRegions ==
  /\ pc = "regions"
  /\ regions' = IF GlobalCap THEN {GlobalRegion(limit)} ELSE FindRegions(obs, limit)
  /\ work' = SamplingWindows(regions')
  /\ pc' = "window"
  /\ UNCHANGED <<net, ledger, nextSample, tokens, sweepVars, limit, fixedLeft,
                 nextVariant, verdict>>

(* _probe_region: complete fixed samples this window still lacks.          *)
EnterWindow ==
  /\ pc = "window"
  /\ work # {}
  /\ fixedLeft' =
       Max({0, TemporalSamples - CompleteSampleCount(obs, Window.ttls, FALSE)})
  /\ pc' = "fixed"
  /\ UNCHANGED <<net, ledger, nextSample, tokens, sweepVars, limit, regions, work,
                 nextVariant, verdict>>

WindowsDone ==
  /\ pc = "window"
  /\ work = {}
  /\ pc' = "control"
  /\ UNCHANGED <<net, ledger, nextSample, tokens, sweepVars, limit, capVars, verdict>>

(* Fault: the window never taken off the list.                             *)
StayInWindow == UNCHANGED work /\ pc' = "window"

(* Return from _probe_region.                                              *)
LeaveWindow ==
  /\ work' = work \ {Window}
  /\ pc' = "window"

FixedRefused ==
  /\ pc = "fixed"
  /\ fixedLeft > 0
  /\ ~Fits(FixedSpecs)
  /\ Refuse
  /\ nextSample' = nextSample + 1
  /\ LeaveWindow
  /\ UNCHANGED <<net, tokens, sweepVars, limit, regions, fixedLeft, nextVariant>>

FixedSample ==
  /\ pc = "fixed"
  /\ fixedLeft > 0
  /\ Fits(FixedSpecs)
  /\ \E reply \in Replies(FixedSpecs) : Deliver(FixedSpecs, reply, 0)
  /\ nextSample' = nextSample + 1
  /\ fixedLeft' = fixedLeft - 1
  /\ UNCHANGED <<net, pc, tokens, sweepVars, limit, regions, work, nextVariant, verdict>>

FixedOnlyDone ==
  /\ pc = "fixed"
  /\ fixedLeft = 0
  /\ ~Window.variant
  /\ LeaveWindow
  /\ UNCHANGED <<net, ledger, nextSample, tokens, sweepVars, limit, regions, fixedLeft,
                 nextVariant, verdict>>

(* The variants complete samples already cover are not drawn again.        *)
BeginVaried ==
  /\ pc = "fixed"
  /\ fixedLeft = 0
  /\ Window.variant
  /\ nextVariant' = CompleteSampleCount(obs, Window.ttls, TRUE) + 1
  /\ pc' = "varied"
  /\ UNCHANGED <<net, ledger, nextSample, tokens, sweepVars, limit, regions, work,
                 fixedLeft, verdict>>

DrawToken ==
  /\ pc = "varied"
  /\ nextVariant <= Required
  /\ VariedCount > 0
  /\ Tokenless # {}
  /\ \E t \in FreshTokens : tokens' = Cached(Min(Tokenless), t)
  /\ UNCHANGED <<net, pc, ledger, nextSample, sweepVars, limit, capVars, verdict>>

(* A batch of variants, cut to what the budget can hold, so that _send     *)
(* never refuses it.                                                       *)
VariedSamples ==
  /\ pc = "varied"
  /\ nextVariant <= Required
  /\ VariedCount > 0
  /\ Tokenless = {}
  /\ \E reply \in Replies(VariedSpecs) : Deliver(VariedSpecs, reply, 0)
  /\ nextSample' = nextSample + VariedCount
  /\ nextVariant' = nextVariant + VariedCount
  /\ UNCHANGED <<net, pc, tokens, sweepVars, limit, regions, work, fixedLeft, verdict>>

VariedExhausted ==
  /\ pc = "varied"
  /\ nextVariant <= Required
  /\ VariedCount <= 0
  /\ Refuse
  /\ LeaveWindow
  /\ UNCHANGED <<net, nextSample, tokens, sweepVars, limit, regions, fixedLeft, nextVariant>>

(* Fault: the last variant left out.                                       *)
VariedDoneEarly ==
  /\ pc = "varied"
  /\ nextVariant >= Required
  /\ LeaveWindow
  /\ UNCHANGED <<net, ledger, nextSample, tokens, sweepVars, limit, regions, fixedLeft,
                 nextVariant, verdict>>

VariedDone ==
  /\ pc = "varied"
  /\ nextVariant > Required
  /\ LeaveWindow
  /\ UNCHANGED <<net, ledger, nextSample, tokens, sweepVars, limit, regions, fixedLeft,
                 nextVariant, verdict>>

-----------------------------------------------------------------------------
(* The kernel TCP control, after all raw measurement.                      *)
RunControl ==
  /\ pc = "control"
  /\ control' \in IF TcpControl THEN ControlStatuses ELSE {"none"}
  /\ pc' = "summarize"
  /\ UNCHANGED <<net, ledger, nextSample, tokens, sweepVars, limit, capVars, warnings,
                 interrupted>>

(* The probes the controller is about to hand to the backend.              *)
InFlight ==
  LET next == CASE pc = "sweep" -> SweepSpecs
                [] pc = "canarySweep" -> CanarySpecs
                [] pc = "fixed" /\ fixedLeft > 0 -> FixedSpecs
                [] pc = "varied" /\ nextVariant <= Required /\ VariedCount > 0
                     /\ Tokenless = {} -> VariedSpecs
                [] OTHER -> {}
  IN  IF Fits(next) THEN next ELSE {}

(* Ctrl-C inside the try block.  A batch in flight is lost as a whole: the *)
(* network has seen some of its probes, the controller none of its answers. *)
Interrupt ==
  /\ pc \in TryStages
  /\ \E n \in 0..Cardinality(InFlight) : sent' = sent + n
  /\ interrupted' = TRUE
  /\ warnings' = warnings \cup {"interrupted"}
  /\ pc' = "summarize"
  /\ UNCHANGED <<net, obs, baselineCount, nextSample, tokens, sweepVars, limit, capVars,
                 control>>

(* Ctrl-C between the two statements of _send that record a baseline       *)
(* batch: the observations are kept, the counter misses them.              *)
InterruptBeforeCount ==
  /\ pc \in {"sweep", "canarySweep"}
  /\ InFlight # {}
  /\ \E reply \in Replies(InFlight) : Deliver(InFlight, reply, 0)
  /\ interrupted' = TRUE
  /\ warnings' = warnings \cup {"interrupted"}
  /\ pc' = "summarize"
  /\ UNCHANGED <<net, nextSample, tokens, sweepVars, limit, capVars, control>>

(* send_batch raises BackendError, after some of the probes went out; run  *)
(* does not catch it and there is no result.                               *)
BackendFails ==
  /\ InFlight # {}
  /\ \E n \in 0..Cardinality(InFlight) : sent' = sent + n
  /\ pc' = "failed"
  /\ UNCHANGED <<net, obs, baselineCount, nextSample, tokens, sweepVars, limit, capVars,
                 verdict>>

-----------------------------------------------------------------------------
(* The destination reply the report confirms: lowest TTL, then earliest.   *)
ForeignTerminal ==
  LET ends == {o \in obs : Terminal(o) /\ MainFlow(o) /\ o.kind = "destination"}
  IN  \E o \in ends :
        /\ o.who # Destination
        /\ \A p \in ends : o.ttl < p.ttl \/ (o.ttl = p.ttl /\ o.sample <= p.sample)

(* Warnings of the last part of run() (controller.py:189-240).             *)
FinalWarnings(lim, found) ==
  LET answered == BaselineAnswered(obs)
      complete == answered /\ ~interrupted
      reached  == Reached(obs)
  IN  {w \in WarningTags :
        \/ w = "foreign_terminal" /\ ForeignTerminal
        \/ w = "no_boundary" /\ complete /\ found = {} /\ ~HasSilentTail(obs, lim)
        \/ w = "no_terminal" /\ complete /\ TerminalTtls(obs) = {}
        \/ w = "control_positive" /\ Positive(control) /\ ~reached
        \/ w = "control_negative" /\ control # "none" /\ ~Positive(control)}

(* Fault: an interrupted run keeps the regions it had.                     *)
SummarizeAsIs ==
  /\ pc = "summarize"
  /\ limit' = AnalysisLimit(obs)
  /\ warnings' = warnings \cup FinalWarnings(limit', regions)
  /\ pc' = "done"
  /\ UNCHANGED <<net, ledger, nextSample, tokens, sweepVars, capVars, interrupted, control>>

(* After the try block: the limit is taken again from all observations,    *)
(* and an interrupted run whose regions were not found yet finds them now. *)
Summarize ==
  /\ pc = "summarize"
  /\ limit' = AnalysisLimit(obs)
  /\ regions' = IF interrupted /\ BaselineAnswered(obs) /\ regions = {}
                THEN FindRegions(obs, limit') ELSE regions
  /\ warnings' = warnings \cup FinalWarnings(limit', regions')
  /\ pc' = "done"
  /\ UNCHANGED <<net, ledger, nextSample, tokens, sweepVars, work, fixedLeft, nextVariant,
                 interrupted, control>>

(* The segments of the result.                                             *)
Report == SummarizeSegments(obs, limit, regions)

-----------------------------------------------------------------------------
Proceed ==
  \/ BeginRound \/ SweepRefused \/ SweepChunk \/ FixLimit
  \/ BeginCanary \/ CanariesDone \/ CanaryRefused \/ CanaryChunk
  \/ DetectRegions \/ EnterWindow \/ WindowsDone
  \/ FixedRefused \/ FixedSample \/ FixedOnlyDone
  \/ BeginVaried \/ DrawToken \/ VariedSamples \/ VariedExhausted \/ VariedDone
  \/ RunControl \/ Summarize

Next == Proceed \/ Interrupt \/ InterruptBeforeCount \/ BackendFails

Spec == Init /\ [][Next]_vars

(* The controller never waits for anything but its backend, and a batch    *)
(* ends with its timeout (backend.py:291-304): it keeps going.  Interrupts *)
(* and failures are possible, never due.                                   *)
FairSpec == Spec /\ WF_vars(Proceed)

=============================================================================
