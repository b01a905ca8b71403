--------------------------- MODULE TraceProperties ---------------------------
(***************************************************************************)
(* What a measurement and its report must never get wrong, whatever the    *)
(* network answers and whenever it is cut short.                           *)
(***************************************************************************)
EXTENDS TraceController

OrZero(S) == {0} \cup S

(* Every variable keeps its shape; TTLs stay within 1..max_hops and the    *)
(* windows still to be worked stay sampling windows.                       *)
TypeOK ==
  /\ net \in Networks
  /\ pc \in Stages
  /\ obs \subseteq Observed /\ IsFiniteSet(obs)
  /\ sent \in Nat /\ baselineCount \in Nat
  /\ nextSample \in Nat \ {0}
  /\ tokens \in [DOMAIN tokens -> Tokens] /\ DOMAIN tokens \subseteq Nat \ {0}
  /\ round \in 0..BaselineRounds
  /\ start \in TTLs /\ sweepLimit \in OrZero(TTLs) /\ terminalTtl \in OrZero(TTLs)
  /\ canary \in Nat
  /\ limit \in OrZero(TTLs)
  /\ regions \subseteq Regions /\ work \subseteq Windows
  /\ fixedLeft \in 0..TemporalSamples /\ nextVariant \in Nat
  /\ warnings \subseteq WarningTags
  /\ interrupted \in BOOLEAN
  /\ control \in ControlStatuses \cup {"none"}

-----------------------------------------------------------------------------
(* The ledger and the samples.                                             *)

(* max_probes is a hard bound on what reaches the wire, also counting the  *)
(* probes of a batch that was interrupted or failed half way, and nothing  *)
(* is reported that was not sent (_send, controller.py:369-381).           *)
BudgetRespected == sent <= MaxProbes /\ Cardinality(obs) <= sent

(* A sample is one flow in one phase, probed at most once per TTL: the     *)
(* bundles that signatures compare are matched.  Sample ids are handed out *)
(* by four different loops (_new_sample_id, controller.py:364-367).        *)
SamplesCoherent ==
  \A a, b \in obs : a.sample = b.sample =>
    /\ a.variant = b.variant /\ a.phase = b.phase
    /\ a.ttl = b.ttl => a = b

(* The inductive strengthening of the three invariants above: where the    *)
(* loops are, that sample ids in obs are older than the next one, that the *)
(* sweep under way has not yet reached the TTLs it will send, and that     *)
(* until the measurement is cut short every probe sent was recorded.       *)
LoopsInBounds ==
  /\ pc \in {"round", "sweep"} => round < BaselineRounds
  /\ pc = "sweep" => start <= sweepLimit
  /\ pc \in {"canary", "canarySweep", "regions"} => limit \in TTLs /\ canary > 0
  /\ pc = "canarySweep" => start <= limit /\ canary \in DOMAIN tokens
  /\ pc \in {"fixed", "varied"} => work # {}
  /\ pc = "varied" => nextVariant > 0

SamplesOlder == \A o \in obs : o.sample < nextSample

SweepUnderWay ==
  \A o \in obs : o.sample = LastSample =>
    /\ pc = "sweep" =>
         o.ttl < start /\ o.variant = 0 /\ o.phase = "baseline-fixed"
    /\ pc = "canarySweep" =>
         o.ttl < start /\ o.variant = canary /\ o.phase = "canary-varied"

EveryProbeRecorded == pc \in TryStages => sent = Cardinality(obs)

MeasurementInv ==
  /\ TypeOK /\ LoopsInBounds
  /\ SamplesOlder /\ SweepUnderWay /\ SamplesCoherent
  /\ EveryProbeRecorded /\ BudgetRespected

(* baseline_probe_count splits the probes as the report does: it counts    *)
(* the observations of the two baseline phases, and a measurement cut      *)
(* inside _send can only make it smaller.                                  *)
BaselineObs == {o \in obs : o.phase \in {"baseline-fixed", "canary-varied"}}

SplitExact ==
  /\ baselineCount <= Cardinality(BaselineObs)
  /\ ~interrupted => baselineCount = Cardinality(BaselineObs)

(* Once the analysis limit is fixed, no later observation moves it         *)
(* outwards: canaries and windows stay inside the path the baseline saw,   *)
(* so the regions found for that limit cover the final one                 *)
(* (controller.py:125 and 164).                                            *)
LimitNeverGrows == limit # 0 => AnalysisLimit(obs) <= limit

(* Once a sweep met a terminal reply, no probe of any phase goes beyond    *)
(* the TTL it was met at (controller.py:387-425, 442-465).                 *)
NoProbePastTerminal ==
  [][terminalTtl # 0 => \A o \in obs' \ obs : o.ttl <= terminalTtl]_vars

(* The kernel TCP control runs after all raw probes, so that the state it  *)
(* creates cannot prime the path (controller.py:142-157).                  *)
KernelControlLast == [][control # "none" => UNCHANGED <<obs, sent>>]_vars

(* The inductive strengthening of LimitNeverGrows, NoProbePastTerminal and *)
(* HopsProbed: the terminal known is one the main flow met; the sweep, the *)
(* limit and the windows stay before it; and the main flow was swept over  *)
(* every TTL up to any that was probed.                                    *)
Swept(t) == \E o \in obs : o.ttl = t /\ MainFlow(o) /\ o.phase = "baseline-fixed"

BaselineStages == {"round", "sweep", "limit"}
CanaryStages   == {"canary", "canarySweep", "regions"}

SweepInside ==
  pc = "sweep" => /\ terminalTtl # 0 => sweepLimit <= terminalTtl
                  /\ \A t \in 1..(start - 1) : Swept(t)

LimitInside ==
  /\ pc \in BaselineStages => limit = 0 /\ work = {}
  /\ limit # 0 => AnalysisLimit(obs) <= limit /\ (terminalTtl # 0 => limit <= terminalTtl)
  /\ pc \in CanaryStages \/ (pc \in TryStages /\ work # {}) =>
       \A t \in 1..limit : Swept(t)
  /\ pc = "done" => limit = AnalysisLimit(obs)

PathInv ==
  /\ terminalTtl # 0 => terminalTtl \in TerminalTtls(obs)
  /\ SweepInside /\ LimitInside
  /\ pc \in TryStages => \A w \in work : w.ttls \subseteq 1..limit
  /\ \A o \in obs : \A t \in 1..o.ttl : Swept(t)

-----------------------------------------------------------------------------
(* The report.                                                             *)

Done == pc = "done"
Hops == 1..HopCount(obs, limit)

(* Every edge between two reported hops belongs to a segment: none falls   *)
(* between the regions found before adaptive sampling and the hops counted *)
(* after it (controller.py:241-245, 740-786).                              *)
PathCovered ==
  Done /\ BaselineAnswered(obs) =>
    LET report == Report
    IN  \A t \in Hops \ {1} : \E s \in report : s.first < t /\ t <= s.last

(* Every reported hop was probed on the main flow: the chunks of the first *)
(* sweep leave no gap below the limit, however it ends.                    *)
HopsProbed ==
  Done /\ BaselineAnswered(obs) => \A t \in Hops : Sent(obs, t) > 0

(* A measurement that ran to its end without meeting the budget completes  *)
(* every region: a shared window samples each region it was built from, on *)
(* both axes (_probe_regions, controller.py:645-686).  So the only thing   *)
(* that may keep a certificate away is the bound computed for the samples  *)
(* (1035); TraceClaims!BoundMetOrBudgetSpent is refuted by that.           *)
RegionsCompleted ==
  Done /\ ~interrupted /\ "budget" \notin warnings =>
    \A r \in regions :
      /\ Sampled(obs, r)
      /\ ~Certified(obs, r) =>
           VariantCoverage(r.family) /\ CertificateSamples(obs, r) \notin Enough

(* Flow tokens are drawn without replacement: unless the budget cut a      *)
(* bundle, a certified flow coverage rests on as many different tokens as  *)
(* it required, none of them the main flow's (controller.py:337-362 and    *)
(* 612-643).                                                               *)
TokensOf(samples) == {tokens[o.variant] : o \in {x \in obs : x.sample \in samples}}

DistinctFlows(r) ==
  LET used == TokensOf(CompleteSamples(obs, r.ttls, TRUE))
  IN  Cardinality(used) >= Required /\ MainToken \notin used

CoverageByDistinctFlows ==
  Done /\ "budget" \notin warnings =>
    \A r \in regions : VariantCoverage(r.family) /\ Certified(obs, r) => DistinctFlows(r)

(* OPAQUE claims a gap between two visible boundaries: some TTL strictly   *)
(* inside was probed and never answered on any flow, while both ends have  *)
(* a responder (controller.py:973-981, 998-1002).                          *)
OpaqueHidesAHop ==
  Done => \A s \in Report : s.type = "opaque" =>
    /\ None \notin {s.ingress, s.egress}
    /\ \E t \in (s.first + 1)..(s.last - 1) :
         /\ \E o \in obs : o.ttl = t
         /\ \A o \in obs : o.ttl = t => ~Answered(o)

(* SILENT_TAIL: nothing answered beyond its first TTL on any flow, the     *)
(* main flow met no terminal, and the last visible responder is the        *)
(* ingress (controller.py:184-188, 832-879).                               *)
SilentTailIsSilent ==
  Done => \A s \in Report : s.type = "silent_tail" =>
    /\ \A o \in obs : Answered(o) => o.ttl <= s.first
    /\ ~\E o \in obs : Terminal(o) /\ MainFlow(o)
    /\ s.ingress # None /\ s.ingress = Primary(obs, s.first)

(* A DIRECT edge outside every region is contradicted by no probe: at both *)
(* ends one responder answered all of them.  The exception is a TTL where  *)
(* a region begins or ends: its adaptive samples may disagree with the     *)
(* sweeps and canaries, and then the report shows that region there        *)
(* (controller.py:746-785).                                                *)
DirectEdgesAreClear ==
  Done => \A s \in Report : s.method = "rapid_sweep_observation" =>
    \A t \in {s.first, s.last} :
      \E w \in Responders : \A o \in obs : o.ttl = t =>
        \/ o.who = w
        \/ o \notin BaselineObs /\ \E r \in regions : t \in {r.first, r.last}

(* Detection is complete for what can be observed: a gap in which no flow  *)
(* ever answers, between two TTLs that always answer the main flow, is     *)
(* reported OPAQUE, however wide the gap, although a wide one is sampled   *)
(* at five TTLs only (controller.py:561-567), and wherever the measurement *)
(* was cut short or ran out of budget.                                     *)
NeverAnswers(t)  == \A f \in FlowTokens : net[<<t, f>>] = {Silence}
AlwaysAnswers(t) == Silence \notin net[<<t, MainToken>>]

SilentGapsReported ==
  Done /\ BaselineAnswered(obs) /\ ~GlobalCap =>
    \A r \in Runs({t \in Hops : NeverAnswers(t)}) :
      {r[1] - 1, r[2] + 1} \subseteq {t \in Hops : AlwaysAnswers(t)} =>
        \E s \in Report : s.type = "opaque" /\ s.first = r[1] - 1 /\ s.last = r[2] + 1

(* A class never says more than the network did (controller.py:926-1018,   *)
(* 746-785, 832-879).  UNSTABLE needs a TTL where the main flow alone      *)
(* meets two responders; MULTIPATH one where two other flows meet          *)
(* different ones, and only where the budget made a flow count twice may   *)
(* it be one flow; MUTABLE a rewrite; OPAQUE and SILENT_TAIL a main flow   *)
(* that may stay unanswered, inside the gap and all along the tail;        *)
(* INTERMITTENT a flow that may; DIRECT ends that answer the main flow.    *)
(* UNKNOWN says nothing.                                                   *)
Disagree(V, W) == \E v \in V, w \in W : v # w
Meets(t, f) == {o.who : o \in net[<<t, f>>]} \ {None}
MaySilence(t, f) == Silence \in net[<<t, f>>]

OtherFlows == Tokens \ {MainToken}

FlowsPart(t) ==
  \E f, g \in OtherFlows :
    Disagree(Meets(t, f), Meets(t, g)) /\ ("budget" \notin warnings => f # g)

Grounded(s) ==
  LET inside == s.first..s.last
  IN  CASE s.type = "unstable" ->
             \E t \in inside : Disagree(Meets(t, MainToken), Meets(t, MainToken))
        [] s.type = "multipath" -> \E t \in inside : FlowsPart(t)
        [] s.type = "mutable" ->
             \E t \in inside, f \in FlowTokens : \E o \in net[<<t, f>>] : o.mut # {}
        [] s.type = "opaque" ->
             \E t \in (s.first + 1)..(s.last - 1) : MaySilence(t, MainToken)
        [] s.type = "silent_tail" ->
             \A t \in (s.first + 1)..s.last : MaySilence(t, MainToken)
        [] s.type = "intermittent" ->
             \E t \in inside, f \in FlowTokens : MaySilence(t, f)
        [] s.type = "direct" ->
             \A t \in {s.first, s.last} : Meets(t, MainToken) # {}
        [] OTHER -> TRUE

ClassesAreGrounded == Done => \A s \in Report : Grounded(s)

(* The inductive strengthening of PathCovered, OpaqueHidesAHop and         *)
(* SilentTailIsSilent: every observation is one the network could make;    *)
(* the limit is where the main flow last met an answer, unless it met a    *)
(* terminal; and the regions are those of the baseline, for a limit the    *)
(* report does not exceed.                                                 *)
FromNetwork(o) ==
  \E f \in FlowTokens :
    /\ MainFlow(o) => f = MainToken
    /\ [kind |-> o.kind, who |-> o.who, mut |-> o.mut] \in net[<<o.ttl, f>>]

LimitMet ==
  /\ limit = 0 => \A o \in obs : MainFlow(o)
  /\ limit # 0 /\ TerminalTtls(obs) = {} /\ BaselineAnswered(obs) =>
       \E o \in obs : MainFlow(o) /\ Answered(o) /\ o.ttl = limit

RegionsFor(lim) ==
  /\ AnalysisLimit(obs) <= lim
  /\ regions \in {{GlobalRegion(lim)}, FindRegions(BaselineObs, lim)}

NothingToFind == ~BaselineAnswered(obs) /\ regions = {}

RegionsOfBaseline ==
  /\ pc \in BaselineStages \cup CanaryStages => regions = {}
  /\ regions = {} => obs = BaselineObs /\ work = {}
  /\ pc \in {"window", "fixed", "varied", "control", "summarize"} =>
       NothingToFind \/ (interrupted /\ regions = {})
         \/ (limit \in TTLs /\ RegionsFor(limit))
  /\ Done => NothingToFind \/ \E lim \in TTLs : RegionsFor(lim)

ReportInv ==
  /\ \A o \in obs : FromNetwork(o) /\ (o.phase = "canary-varied" => ~MainFlow(o))
  /\ LimitMet /\ RegionsOfBaseline

-----------------------------------------------------------------------------
(* The inductive strengthening of RegionsCompleted,                        *)
(* CoverageByDistinctFlows, DirectEdgesAreClear and ClassesAreGrounded.    *)
(* As long as the budget was not met, a variant probes a TTL in one sample *)
(* only, although three loops number variants: the canaries take the first *)
(* ones and cover the whole path, so the complete samples a window starts  *)
(* with count at least the canaries, and windows that share variants share *)
(* no TTL.                                                                 *)
InBudget == "budget" \notin warnings

TokensDistinct ==
  /\ \A u, v \in DOMAIN tokens : tokens[u] = tokens[v] => u = v
  /\ \A u \in DOMAIN tokens : tokens[u] # MainToken
  /\ \A o \in obs : MainFlow(o) \/ o.variant \in DOMAIN tokens

PhasesOfFlows ==
  \A o \in obs : MainFlow(o) <=> o.phase \in {"baseline-fixed", "dbp-fixed"}

FlowsOnce ==
  \A a, b \in obs : a.variant = b.variant /\ a.ttl = b.ttl /\ ~MainFlow(a) =>
    a.sample = b.sample

(* A variant draws its token once, and what was observed on it is an       *)
(* answer of the network to that token.                                    *)
AnswersOfTokens ==
  /\ \A o \in obs :
       [kind |-> o.kind, who |-> o.who, mut |-> o.mut] \in net[<<o.ttl, TokenOf(o)>>]
  /\ pc \in BaselineStages => DOMAIN tokens = {}
  /\ pc = "canary"      => \A v \in DOMAIN tokens : v < canary
  /\ pc = "canarySweep" => \A v \in DOMAIN tokens : v <= canary

(* Adaptive samples were taken inside the regions, and windows sample      *)
(* nothing else.                                                           *)
InRegions(t) == \E r \in regions : t \in r.ttls

AdaptiveInside ==
  /\ \A o \in obs \ BaselineObs : InRegions(o.ttl)
  /\ \A w \in work : \A t \in w.ttls : InRegions(t)

(* One sample of a canary covers the TTLs 1..last.                         *)
CanarySwept(c, last) ==
  \E s \in 0..nextSample : \A t \in 1..last :
    \E o \in obs : o.sample = s /\ o.ttl = t /\ o.variant = c

CanariesInOrder ==
  /\ pc = "canarySweep" =>
       /\ canary <= CanaryFlows
       /\ \A t \in 1..(start - 1) :
            \E o \in obs : o.sample = LastSample /\ o.ttl = t /\ o.variant = canary
  /\ \A o \in obs : o.phase = "canary-varied" =>
       /\ o.variant <= CanaryFlows
       /\ pc = "canary" => o.variant < canary
       /\ pc = "canarySweep" =>
            o.variant < canary \/ (o.variant = canary /\ o.sample = LastSample)
  /\ pc \in {"canary", "canarySweep"} => \A c \in 1..(canary - 1) : CanarySwept(c, limit)
  /\ pc = "regions" \/ (pc \in TryStages /\ work # {}) =>
       \A c \in 1..CanaryFlows : CanarySwept(c, limit)

(* What was varied at the TTLs of a window not left yet.                   *)
WindowsFresh ==
  pc \in TryStages =>
    \A w \in work : w.variant =>
      /\ \A v \in work \ {w} : v.variant => v.ttls \cap w.ttls = {}
      /\ \A o \in obs : o.ttl \in w.ttls /\ ~MainFlow(o) =>
           \/ o.phase = "canary-varied"
           \/ pc = "varied" /\ w = Window /\ o.variant < nextVariant

(* Each window is worked until its samples are complete, and every region  *)
(* is sampled unless a window it was built into is still to be worked.     *)
Serves(w, r) == r.ttls \subseteq w.ttls /\ (VariantCoverage(r.family) => w.variant)

WindowCounts ==
  /\ pc = "fixed" =>
       fixedLeft + CompleteSampleCount(obs, Window.ttls, FALSE) >= TemporalSamples
  /\ pc = "varied" =>
       /\ Window.variant
       /\ CompleteSampleCount(obs, Window.ttls, FALSE) >= TemporalSamples
       /\ CompleteSampleCount(obs, Window.ttls, TRUE) >= nextVariant - 1
       /\ InBudget => nextVariant > CanaryFlows
  /\ pc \in {"control", "summarize", "done"} /\ ~interrupted => work = {}

RegionsServed ==
  InBudget /\ ~interrupted =>
    \A r \in regions : Sampled(obs, r) \/ \E w \in work : Serves(w, r)

SamplingInv ==
  /\ TokensDistinct /\ PhasesOfFlows /\ AnswersOfTokens /\ AdaptiveInside
  /\ InBudget => FlowsOnce /\ CanariesInOrder /\ WindowsFresh
  /\ WindowCounts /\ RegionsServed
  /\ GlobalCap \/ \A r \in regions : r.family # "global"

-----------------------------------------------------------------------------
(* The controller implements the abstract measurement: the budget counts   *)
(* whole bundles, what is cut short is the last one, and nothing is probed *)
(* once the kernel control may have run.                                   *)
StageOf == IF pc = "done" THEN "reported"
           ELSE IF pc = "summarize" THEN "over"
           ELSE IF pc = "failed" THEN "failed"
           ELSE "probing"

Measurement == INSTANCE BoundedMeasurement WITH
  Budget <- MaxProbes, Statuses <- ControlStatuses,
  spent <- sent, kept <- Cardinality(obs), stage <- StageOf, kernel <- control

ImplementsMeasurement == Measurement!AbstractSpec

-----------------------------------------------------------------------------
(* What is left of a measurement: stages, then passes of the loop under    *)
(* way, parts of a pass, steps of the loop inside, and tokens to draw.     *)
BaselineLoop == {"round", "sweep"}
CanaryLoop   == {"canary", "canarySweep"}
WindowLoop   == {"window", "fixed", "varied"}

StagesLeft ==
  CASE pc \in BaselineLoop -> 7
    [] pc = "limit"        -> 6
    [] pc \in CanaryLoop   -> 5
    [] pc = "regions"      -> 4
    [] pc \in WindowLoop   -> 3
    [] pc = "control"      -> 2
    [] pc = "summarize"    -> 1
    [] OTHER               -> 0

PassesLeft ==
  CASE pc \in BaselineLoop -> BaselineRounds - round
    [] pc \in CanaryLoop   -> CanaryFlows + 1 - canary
    [] pc \in WindowLoop   -> Cardinality(work)
    [] OTHER               -> 0

PartsLeft ==
  CASE pc = "window" -> 2
    [] pc \in {"round", "canary", "fixed"} -> 1
    [] OTHER -> 0

InnerLeft ==
  CASE pc = "sweep"       -> sweepLimit - start
    [] pc = "canarySweep" -> limit - start
    [] pc = "fixed"       -> fixedLeft
    [] pc = "varied" /\ nextVariant <= Required -> Required + 1 - nextVariant
    [] OTHER              -> 0

DrawsLeft == IF pc = "varied" THEN Cardinality(Tokenless) ELSE 0

Left == <<StagesLeft, PassesLeft, PartsLeft, InnerLeft, DrawsLeft>>

Below(u, v) == \E i \in 1..5 : u[i] < v[i] /\ \A j \in 1..(i - 1) : u[j] = v[j]

LeavesLess == Left \in [1..5 -> Nat] /\ Below(Left', Left)

(* No loop of run() goes on for ever, however replies end its passes: of   *)
(* five natural numbers, compared in order, every step leaves less, those  *)
(* of an interrupt or a failure too.  Draws of tokens already used are no  *)
(* steps (controller.py:113-161, 341-357, 387-465, 587-686).               *)
StepsRunOut == [][LeavesLess]_vars

(* The inductive strengthening: canaries are counted up to their number.   *)
CanariesCounted ==
  /\ canary <= CanaryFlows + 1
  /\ pc = "canarySweep" => canary <= CanaryFlows

(* A measurement ends, if nobody interrupts it and the backend answers.    *)
Termination == <>(pc \in {"done", "failed"})

=============================================================================
