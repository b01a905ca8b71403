-------------------------- MODULE TraceLimits_proofs --------------------------
(***************************************************************************)
(* How far a measurement probes, for every configuration and every         *)
(* network: PathInv is inductive beside MeasurementInv.  From it follow    *)
(* that no phase probes beyond a terminal already met, that adaptive       *)
(* sampling never moves the analysis limit outwards, and that every        *)
(* reported hop was probed on the main flow.  Two further parts prove that *)
(* the report splits the probes into baseline and adaptive ones exactly,   *)
(* and that a measurement runs out of steps.                               *)
(***************************************************************************)
EXTENDS TraceController_proofs

-----------------------------------------------------------------------------
(* The analysis limit.                                                     *)

(* The limit of the analysis is at most any TTL the main flow met a        *)
(* terminal at.                                                            *)
LEMMA LimitBeforeTerminal ==
  ASSUME NEW E \in SUBSET Observed, NEW t \in TerminalTtls(E)
  PROVE  AnalysisLimit(E) <= t
<1>1. TerminalTtls(E) \in SUBSET TTLs
  BY DEF TerminalTtls, Observed
<1>2. Min(TerminalTtls(E)) <= t
  BY <1>1, ExtremeTtls
<1> QED BY <1>2 DEF AnalysisLimit

(* Without a terminal, an answer bounds the limit from below, and the      *)
(* limit is the TTL of an answer.                                          *)
LEMMA LastObserved ==
  ASSUME NEW E \in SUBSET Observed
  PROVE  /\ LastObservedTtl(E) # 0 <=> \E o \in E : Answered(o)
         /\ \A o \in E : Answered(o) => o.ttl <= LastObservedTtl(E)
         /\ LastObservedTtl(E) # 0 => \E o \in E : Answered(o) /\ o.ttl = LastObservedTtl(E)
<1> DEFINE seen == {o.ttl : o \in {x \in E : Answered(x)}}
<1>1. seen \in SUBSET TTLs
  BY DEF Observed
<1>2. seen # {} => Max(seen) \in seen /\ \A x \in seen : x <= Max(seen)
  <2> HIDE DEF seen
  <2> QED BY <1>1, ExtremeTtls
<1>3. LastObservedTtl(E) = IF seen = {} THEN 0 ELSE Max(seen)
  BY DEF LastObservedTtl
<1>4. 0 \notin TTLs
  BY DEF TTLs
<1>5. seen = {} <=> ~\E o \in E : Answered(o)
  OBVIOUS
<1>6. \A o \in E : Answered(o) => o.ttl \in seen
  OBVIOUS
<1>7. \A t \in seen : \E o \in E : Answered(o) /\ o.ttl = t
  OBVIOUS
<1> HIDE DEF seen
<1> QED BY <1>1, <1>2, <1>3, <1>4, <1>5, <1>6, <1>7

(* If anything answered, the limit is the TTL of an observation.           *)
LEMMA LimitIsObserved ==
  ASSUME NEW E \in SUBSET Observed, \E o \in E : Answered(o)
  PROVE  \E o \in E : o.ttl = AnalysisLimit(E)
<1>1. CASE TerminalTtls(E) # {}
  <2>1. TerminalTtls(E) \in SUBSET TTLs
    BY DEF TerminalTtls, Observed
  <2>2. AnalysisLimit(E) \in TerminalTtls(E)
    BY <1>1, <2>1, ExtremeTtls DEF AnalysisLimit
  <2> QED BY <2>2 DEF TerminalTtls
<1>2. CASE TerminalTtls(E) = {}
  <2>1. AnalysisLimit(E) = LastObservedTtl(E)
    BY <1>2, LastObserved DEF AnalysisLimit
  <2> QED BY <2>1, LastObserved
<1> QED BY <1>1, <1>2

(* Observations within the limit do not move it outwards.                  *)
LEMMA LimitKept ==
  ASSUME NEW E \in SUBSET Observed, NEW R \in SUBSET Observed, NEW lim \in TTLs,
         AnalysisLimit(E) <= lim, \A r \in R : r.ttl <= lim
  PROVE  AnalysisLimit(E \cup R) <= lim
<1> DEFINE U == E \cup R
<1>1. U \in SUBSET Observed
  OBVIOUS
<1>2. \A o \in U : o.ttl \in TTLs
  BY DEF Observed
<1>3. lim \in Int /\ MaxHops \in Int /\ \A t \in TTLs : t \in Int /\ t <= MaxHops
  BY ConfigAssumption DEF TTLs
<1> DEFINE before == AnalysisLimit(E)
           after  == AnalysisLimit(U)
<1> SUFFICES after <= lim
  OBVIOUS
<1>4. before \in TTLs /\ after \in TTLs /\ before <= lim
  BY <1>1, AnalysisLimitType
<1>5. CASE TerminalTtls(E) # {}
  <2>1. TerminalTtls(E) \in SUBSET TTLs
    BY DEF TerminalTtls, Observed
  <2>2. AnalysisLimit(E) \in TerminalTtls(E)
    BY <1>5, <2>1, ExtremeTtls DEF AnalysisLimit
  <2>3. AnalysisLimit(E) \in TerminalTtls(U)
    BY <2>2 DEF TerminalTtls
  <2>4. after <= before
    BY <1>1, <2>3, LimitBeforeTerminal
  <2> HIDE DEF after, before
  <2> QED BY <1>3, <1>4, <2>4
<1>6. CASE TerminalTtls(E) = {} /\ TerminalTtls(U) # {}
  <2>1. PICK t \in TerminalTtls(U) : TRUE
    BY <1>6
  <2>2. PICK o \in U : o.ttl = t /\ Terminal(o) /\ MainFlow(o)
    BY <2>1 DEF TerminalTtls
  <2>3. o \in R
    BY <1>6, <2>2 DEF TerminalTtls
  <2>4. after <= t
    BY <1>1, <2>1, LimitBeforeTerminal
  <2>5. t \in TTLs /\ t <= lim
    BY <1>2, <2>2, <2>3
  <2> HIDE DEF after
  <2> QED BY <1>3, <1>4, <2>4, <2>5
<1>7. CASE TerminalTtls(E) = {} /\ TerminalTtls(U) = {} /\ LastObservedTtl(E) # 0
  <2>1. LastObservedTtl(E) = before
    BY <1>7 DEF AnalysisLimit
  <2>3. \E o \in U : Answered(o)
    BY <1>7, LastObserved
  <2>4. after = LastObservedTtl(U) /\ LastObservedTtl(U) # 0
    BY <1>1, <1>7, <2>3, LastObserved DEF AnalysisLimit
  <2>5. PICK o \in U : Answered(o) /\ o.ttl = after
    BY <1>1, <2>4, LastObserved
  <2>6. o \in E => after <= before
    BY <2>1, <2>5, LastObserved
  <2>7. o \in R => after <= lim
    BY <2>5
  <2>8. o \in E \/ o \in R
    OBVIOUS
  <2> HIDE DEF after, before
  <2> QED BY <1>3, <1>4, <2>6, <2>7, <2>8
<1>8. CASE TerminalTtls(E) = {} /\ LastObservedTtl(E) = 0
  <2>1. before = MaxHops
    BY <1>8 DEF AnalysisLimit
  <2> HIDE DEF after, before
  <2> QED BY <1>3, <1>4, <2>1
<1> QED BY <1>5, <1>6, <1>7, <1>8

-----------------------------------------------------------------------------
(* Regions and windows inside the limit.                                   *)

(* A region around a run within the limit is sampled within the limit.     *)
LEMMA RegionWithinLimit ==
  ASSUME NEW family, NEW lim \in TTLs, NEW lo \in 1..lim, NEW hi \in 1..lim, lo <= hi
  PROVE  RegionAround(family, lo, hi, lim).ttls \subseteq 1..lim
<1> DEFINE first == Max({1, lo - 1})
           last  == Min({lim, hi + 1})
<1>0. lim \in Int /\ lo \in Int /\ hi \in Int
  BY DEF TTLs
<1>1. first = IF 1 >= lo - 1 THEN 1 ELSE lo - 1
  BY <1>0, MaxOfTwo
<1>2. last = IF lim <= hi + 1 THEN lim ELSE hi + 1
  BY <1>0, MinOfTwo
<1>3. RegionAround(family, lo, hi, lim).ttls = ProbeTtls(first, last)
  BY DEF RegionAround
<1> HIDE DEF first, last
<1>4. first \in 1..lim /\ last \in 1..lim /\ first <= last
  BY <1>0, <1>1, <1>2
<1>5. ProbeTtls(first, last) \subseteq 1..lim
  <2>1. CASE last - first + 1 <= 7
    BY <1>0, <1>4, <2>1 DEF ProbeTtls
  <2>2. CASE ~(last - first + 1 <= 7)
    <3>1. {first, first + 1, (first + last) \div 2, last - 1, last} \subseteq 1..lim
      BY <1>0, <1>4, <2>2
    <3> QED BY <2>2, <3>1 DEF ProbeTtls
  <2> QED BY <2>1, <2>2
<1> QED BY <1>3, <1>5

(* Windows made of regions within the limit are within the limit.          *)
LEMMA WindowsWithinLimit ==
  ASSUME NEW lim, NEW R, \A r \in R : r.ttls \subseteq 1..lim
  PROVE  \A w \in SamplingWindows(R) : w.ttls \subseteq 1..lim
<1> SUFFICES ASSUME NEW w \in SamplingWindows(R) PROVE w.ttls \subseteq 1..lim
  OBVIOUS
<1>1. CASE \E f \in ClusterStarts(R) : w = SharedWindow(Cluster(R, f))
  <2>1. PICK f \in ClusterStarts(R) : w = SharedWindow(Cluster(R, f))
    BY <1>1
  <2>2. w.ttls = UNION {r.ttls : r \in Cluster(R, f)}
    BY <2>1 DEF SharedWindow
  <2>3. Cluster(R, f) \subseteq R
    BY DEF Cluster, VariantRegions
  <2> HIDE DEF Cluster
  <2> QED BY <2>2, <2>3
<1>2. CASE \E r \in R : w = [variant |-> FALSE, first |-> r.first, last |-> r.last,
                             ttls |-> r.ttls]
  BY <1>2
<1> QED BY <1>1, <1>2 DEF SamplingWindows

(* What detection asks to be sampled lies within the limit.                *)
LEMMA DetectedWithinLimit ==
  ASSUME NEW E, NEW lim \in TTLs
  PROVE  /\ \A r \in FindRegions(E, lim) : r.ttls \subseteq 1..lim
         /\ GlobalRegion(lim).ttls \subseteq 1..lim
<1>1. ASSUME NEW r \in FindRegions(E, lim) PROVE r.ttls \subseteq 1..lim
  <2>1. PICK family \in Families \ {"global"} :
          r \in {RegionAround(family, x[1], x[2], lim) :
                   x \in Runs({t \in 1..lim : Suspicious(E, family, t)})}
    BY DEF FindRegions
  <2>2. PICK x \in Runs({t \in 1..lim : Suspicious(E, family, t)}) :
          r = RegionAround(family, x[1], x[2], lim)
    BY <2>1
  <2>3. x[1] \in 1..lim /\ x[2] \in 1..lim /\ x[1] <= x[2]
    BY <2>2 DEF Runs
  <2> QED BY <2>2, <2>3, RegionWithinLimit
<1> QED BY <1>1 DEF GlobalRegion

-----------------------------------------------------------------------------
(* Steps that send nothing.                                                *)

(* What was observed stays swept and stays terminal.                       *)
LEMMA EvidenceGrows ==
  ASSUME obs \subseteq obs'
  PROVE  /\ \A t : Swept(t) => Swept(t)'
         /\ TerminalTtls(obs) \subseteq TerminalTtls(obs')
BY DEF Swept, TerminalTtls

(* The part of PathInv about the evidence alone survives when nothing is   *)
(* observed.                                                               *)
LEMMA QuietEvidence ==
  ASSUME PathInv, obs' = obs, terminalTtl' = terminalTtl
  PROVE  /\ terminalTtl' # 0 => terminalTtl' \in TerminalTtls(obs')
         /\ \A t : Swept(t)' <=> Swept(t)
         /\ \A o \in obs' : \A t \in 1..o.ttl : Swept(t)'
<1>1. \A t : Swept(t)' <=> Swept(t)
  BY DEF Swept
<1>2. \A o \in obs : \A t \in 1..o.ttl : Swept(t)
  BY DEF PathInv
<1>3. terminalTtl # 0 => terminalTtl \in TerminalTtls(obs)
  BY DEF PathInv
<1> QED BY <1>1, <1>2, <1>3

(* A step that observes nothing, keeps the limit and starts no sweep       *)
(* preserves PathInv.                                                      *)
LEMMA QuietPath ==
  ASSUME PathInv, pc \in TryStages, obs' = obs, terminalTtl' = terminalTtl, limit' = limit,
         work' \subseteq work, pc' \notin {"sweep", "done"},
         pc' \in BaselineStages => pc \in BaselineStages,
         pc' \in CanaryStages => pc \in CanaryStages
  PROVE  PathInv'
<1>1. /\ terminalTtl' # 0 => terminalTtl' \in TerminalTtls(obs')
      /\ \A t : Swept(t)' <=> Swept(t)
      /\ \A o \in obs' : \A t \in 1..o.ttl : Swept(t)'
  BY QuietEvidence
<1>2. SweepInside'
  BY DEF SweepInside
<1>3. LimitInside'
  <2>1. pc' \in BaselineStages => limit' = 0 /\ work' = {}
    BY DEF PathInv, LimitInside
  <2>2. limit' # 0 => AnalysisLimit(obs') <= limit' /\ (terminalTtl' # 0 => limit' <= terminalTtl')
    BY DEF PathInv, LimitInside
  <2>3. pc' \in CanaryStages \/ (pc' \in TryStages /\ work' # {}) =>
          \A t \in 1..limit' : Swept(t)'
    BY <1>1 DEF PathInv, LimitInside
  <2> QED BY <2>1, <2>2, <2>3 DEF LimitInside
<1>4. \A w \in work' : w.ttls \subseteq 1..limit'
  BY DEF PathInv
<1> QED BY <1>1, <1>2, <1>3, <1>4 DEF PathInv

(* Most steps are of that kind.                                            *)
LEMMA QuietSteps ==
  ASSUME PathInv,
         \/ SweepRefused \/ BeginCanary \/ CanariesDone \/ CanaryRefused \/ EnterWindow
         \/ WindowsDone \/ FixedRefused \/ FixedOnlyDone \/ BeginVaried \/ DrawToken
         \/ VariedExhausted \/ VariedDone \/ RunControl \/ Interrupt
  PROVE  PathInv'
<1>1. /\ pc \in TryStages /\ obs' = obs /\ terminalTtl' = terminalTtl /\ limit' = limit
      /\ work' \subseteq work /\ pc' \notin {"sweep", "done"}
      /\ pc' \in BaselineStages => pc \in BaselineStages
      /\ pc' \in CanaryStages => pc \in CanaryStages
  BY DEF SweepRefused, BeginCanary, CanariesDone, CanaryRefused, EnterWindow, WindowsDone,
         FixedRefused, FixedOnlyDone, BeginVaried, DrawToken, VariedExhausted, VariedDone,
         RunControl, Interrupt, Refuse, LeaveWindow, TryStages, BaselineStages, CanaryStages,
         ledger, sweepVars, capVars
<1> QED BY <1>1, QuietPath

(* A failing backend observes nothing either.                              *)
LEMMA BackendFailsPath ==
  ASSUME MeasurementInv, PathInv, BackendFails PROVE PathInv'
<1>1. pc \in TryStages
  BY InFlightIsNew DEF BackendFails, TryStages
<1> QED BY <1>1, QuietPath
        DEF BackendFails, BaselineStages, CanaryStages, sweepVars, capVars

(* A round begins at TTL 1 and ends at the terminal known.                 *)
LEMMA BeginRoundPath ==
  ASSUME MeasurementInv, PathInv, BeginRound PROVE PathInv'
<1>1. /\ pc = "round" /\ pc' = "sweep" /\ obs' = obs /\ terminalTtl' = terminalTtl
      /\ limit' = limit /\ work' = work /\ start' = 1 /\ sweepLimit' = SweepReach
  BY DEF BeginRound, ledger, capVars
<1>2. /\ terminalTtl' # 0 => terminalTtl' \in TerminalTtls(obs')
      /\ \A o \in obs' : \A t \in 1..o.ttl : Swept(t)'
  BY <1>1, QuietEvidence
<1>3. limit = 0 /\ work = {}
  BY <1>1 DEF PathInv, LimitInside, BaselineStages
<1>4. SweepInside'
  <2>1. terminalTtl' # 0 => sweepLimit' = terminalTtl'
    BY <1>1 DEF SweepReach
  <2>2. terminalTtl' # 0 => terminalTtl' \in Int
    BY <1>1 DEF MeasurementInv, TypeOK, OrZero, TTLs
  <2>3. \A t \in 1..(start' - 1) : FALSE
    BY <1>1
  <2> QED BY <2>1, <2>2, <2>3 DEF SweepInside
<1>5. LimitInside'
  BY <1>1, <1>3 DEF LimitInside, CanaryStages
<1> QED BY <1>1, <1>2, <1>3, <1>4, <1>5 DEF PathInv
(* The limit is fixed at the terminal known, or where an answer came from. *)
LEMMA FixLimitPath ==
  ASSUME MeasurementInv, PathInv, FixLimit PROVE PathInv'
<1>1. /\ pc = "limit" /\ obs' = obs /\ terminalTtl' = terminalTtl /\ work' = work
      /\ limit' = AnalysisLimit(obs)
      /\ pc' = IF BaselineAnswered(obs) THEN "canary" ELSE "window"
  BY DEF FixLimit, ledger, capVars
<1>2. /\ terminalTtl' # 0 => terminalTtl' \in TerminalTtls(obs')
      /\ \A t : Swept(t)' <=> Swept(t)
      /\ \A o \in obs' : \A t \in 1..o.ttl : Swept(t)'
  BY <1>1, QuietEvidence
<1>3. work = {}
  BY <1>1 DEF PathInv, LimitInside, BaselineStages
<1>4. obs \in SUBSET Observed
  BY DEF MeasurementInv, TypeOK
<1>5. AnalysisLimit(obs) \in Int
  BY <1>4, AnalysisLimitType DEF TTLs
<1>6. terminalTtl # 0 => AnalysisLimit(obs) <= terminalTtl
  BY <1>4, LimitBeforeTerminal DEF PathInv
<1>7. pc' \in CanaryStages => \A t \in 1..limit' : Swept(t)'
  <2>1. SUFFICES ASSUME BaselineAnswered(obs) PROVE \A t \in 1..limit' : Swept(t)'
    BY <1>1 DEF CanaryStages
  <2>2. PICK o \in obs : o.ttl = AnalysisLimit(obs)
    BY <1>4, <2>1, LimitIsObserved DEF BaselineAnswered
  <2> QED BY <1>1, <1>2, <2>2
<1>8. LimitInside'
  <2>1. AnalysisLimit(obs) <= AnalysisLimit(obs)
    BY <1>5
  <2>2. pc' \notin BaselineStages /\ pc' # "done"
    BY <1>1 DEF BaselineStages
  <2> QED BY <1>1, <1>3, <1>6, <1>7, <2>1, <2>2 DEF LimitInside
<1>9. SweepInside'
  BY <1>1 DEF SweepInside
<1> QED BY <1>1, <1>2, <1>3, <1>8, <1>9 DEF PathInv

(* Detection asks for windows inside the limit.                            *)
LEMMA DetectRegionsPath ==
  ASSUME MeasurementInv, PathInv, DetectRegions PROVE PathInv'
<1>1. /\ pc = "regions" /\ pc' = "window" /\ obs' = obs /\ terminalTtl' = terminalTtl
      /\ limit' = limit /\ work' = SamplingWindows(regions')
      /\ regions' = IF GlobalCap THEN {GlobalRegion(limit)} ELSE FindRegions(obs, limit)
  BY DEF DetectRegions, ledger, sweepVars
<1>2. /\ terminalTtl' # 0 => terminalTtl' \in TerminalTtls(obs')
      /\ \A t : Swept(t)' <=> Swept(t)
      /\ \A o \in obs' : \A t \in 1..o.ttl : Swept(t)'
  BY <1>1, QuietEvidence
<1>3. limit \in TTLs
  BY <1>1 DEF MeasurementInv, LoopsInBounds
<1>4. \A r \in regions' : r.ttls \subseteq 1..limit
  BY <1>1, <1>3, DetectedWithinLimit
<1>5. \A w \in work' : w.ttls \subseteq 1..limit'
  BY <1>1, <1>4, WindowsWithinLimit
<1>6. LimitInside'
  BY <1>1, <1>2 DEF PathInv, LimitInside, BaselineStages, CanaryStages
<1>7. SweepInside'
  BY <1>1 DEF SweepInside
<1> QED BY <1>2, <1>5, <1>6, <1>7 DEF PathInv

(* The report's limit is that of all observations.                         *)
LEMMA SummarizePath ==
  ASSUME MeasurementInv, PathInv, Summarize PROVE PathInv'
<1>1. /\ pc' = "done" /\ obs' = obs /\ terminalTtl' = terminalTtl
      /\ limit' = AnalysisLimit(obs)
  BY DEF Summarize, ledger, sweepVars
<1>2. /\ terminalTtl' # 0 => terminalTtl' \in TerminalTtls(obs')
      /\ \A o \in obs' : \A t \in 1..o.ttl : Swept(t)'
  BY <1>1, QuietEvidence
<1>3. obs \in SUBSET Observed
  BY DEF MeasurementInv, TypeOK
<1>4. AnalysisLimit(obs) \in Int
  BY <1>3, AnalysisLimitType DEF TTLs
<1>5. terminalTtl # 0 => AnalysisLimit(obs) <= terminalTtl
  BY <1>3, LimitBeforeTerminal DEF PathInv
<1>6. AnalysisLimit(obs) <= AnalysisLimit(obs)
  BY <1>4
<1>7. LimitInside' /\ SweepInside'
  BY <1>1, <1>5, <1>6 DEF LimitInside, SweepInside, BaselineStages, CanaryStages, TryStages
<1> QED BY <1>1, <1>2, <1>7 DEF PathInv, TryStages

-----------------------------------------------------------------------------
(* Steps that send.                                                        *)

(* What a batch observes was observed at the TTLs it probed.               *)
LEMMA DeliveredTtls ==
  ASSUME NEW P, NEW reply, NEW c, Deliver(P, reply, c)
  PROVE  /\ obs \subseteq obs'
         /\ \A o \in obs' \ obs : \E p \in P : /\ o.ttl = p.ttl /\ o.variant = p.variant
                                              /\ o.phase = p.phase
         /\ \A p \in P : \E o \in obs' : /\ o.ttl = p.ttl /\ o.variant = p.variant
                                        /\ o.phase = p.phase
<1>1. obs' = obs \cup Received(P, reply)
  BY DEF Deliver
<1>2. \A o \in Received(P, reply) :
        \E p \in P : o.ttl = p.ttl /\ o.variant = p.variant /\ o.phase = p.phase
  BY DEF Received
<1>3. ASSUME NEW p \in P
      PROVE  \E o \in Received(P, reply) :
               o.ttl = p.ttl /\ o.variant = p.variant /\ o.phase = p.phase
  <2> DEFINE o == [ttl |-> p.ttl, variant |-> p.variant, phase |-> p.phase,
                   sample |-> p.sample, kind |-> reply[p].kind,
                   who |-> reply[p].who, mut |-> reply[p].mut]
  <2>1. o \in Received(P, reply)
    BY DEF Received
  <2>2. o.ttl = p.ttl /\ o.variant = p.variant /\ o.phase = p.phase
    OBVIOUS
  <2> HIDE DEF o
  <2> QED BY <2>1, <2>2
<1> HIDE DEF Received
<1> QED BY <1>1, <1>2, <1>3

(* A batch of a canary or a window probes nothing beyond the limit.        *)
LEMMA InsideBatch ==
  ASSUME MeasurementInv, PathInv, pc \in {"canarySweep", "fixed", "varied"},
         NEW P, P = CASE pc = "canarySweep" -> CanarySpecs
                      [] pc = "fixed" -> FixedSpecs
                      [] pc = "varied" -> VariedSpecs
  PROVE  /\ \A p \in P : p.ttl \in 1..limit
         /\ limit \in TTLs
         /\ \A t \in 1..limit : Swept(t)
<1>1. CASE pc = "canarySweep"
  <2>1. /\ \A p \in CanarySpecs : p.ttl \in start..ChunkStop(start, limit)
        /\ ChunkStop(start, limit) \in start..limit /\ limit \in TTLs
    BY <1>1, CanaryBatch
  <2>2. start \in TTLs
    BY DEF MeasurementInv, TypeOK
  <2>3. \A p \in P : p.ttl \in 1..limit
    BY <1>1, <2>1, <2>2 DEF TTLs
  <2> QED BY <1>1, <2>1, <2>3 DEF PathInv, LimitInside, CanaryStages
<1>2. CASE pc \in {"fixed", "varied"}
  <2>1. work # {} /\ pc \in TryStages
    BY <1>2 DEF MeasurementInv, LoopsInBounds, TryStages
  <2>2. Window \in work /\ Window.ttls \in (SUBSET TTLs) \ {{}}
    BY <2>1, WindowType
  <2>3. Window.ttls \subseteq 1..limit
    BY <2>1, <2>2 DEF PathInv
  <2>4. limit \in OrZero(TTLs) /\ limit # 0
    <3>1. limit \in OrZero(TTLs)
      BY DEF MeasurementInv, TypeOK
    <3>2. 1..0 = {}
      OBVIOUS
    <3> QED BY <2>2, <2>3, <3>1, <3>2
  <2>5. \A p \in P : p.ttl \in Window.ttls
    BY <1>2 DEF FixedSpecs, VariedSpecs, Bundle
  <2>6. \A t \in 1..limit : Swept(t)
    BY <2>1 DEF PathInv, LimitInside
  <2> QED BY <2>3, <2>4, <2>5, <2>6 DEF OrZero
<1> QED BY <1>1, <1>2

(* Such a batch preserves PathInv and probes nothing beyond a terminal     *)
(* that is known.                                                          *)
LEMMA InsidePath ==
  ASSUME MeasurementInv, PathInv, pc \in {"canarySweep", "fixed", "varied"},
         NEW P, P = CASE pc = "canarySweep" -> CanarySpecs
                      [] pc = "fixed" -> FixedSpecs
                      [] pc = "varied" -> VariedSpecs,
         NewBatch(P), Fits(P), NEW reply \in Replies(P), NEW c, Deliver(P, reply, c),
         terminalTtl' = terminalTtl, limit' = limit, work' = work,
         pc' \notin {"sweep", "done"}, pc' \notin BaselineStages,
         pc' \in CanaryStages => pc \in CanaryStages
  PROVE  /\ PathInv'
         /\ terminalTtl # 0 => \A o \in obs' \ obs : o.ttl <= terminalTtl
<1>1. /\ \A p \in P : p.ttl \in 1..limit
      /\ limit \in TTLs
      /\ \A t \in 1..limit : Swept(t)
  BY InsideBatch
<1>2. pc \in TryStages
  BY DEF TryStages
<1>3. /\ obs' = obs \cup Received(P, reply) /\ obs' \subseteq Observed
      /\ Received(P, reply) \in SUBSET Observed
  BY <1>2, SendLedger
<1>4. /\ obs \subseteq obs'
      /\ \A o \in obs' \ obs : o.ttl \in 1..limit
  BY <1>1, DeliveredTtls
<1>5. \A o \in Received(P, reply) : o.ttl \in 1..limit
  BY <1>1 DEF Received
<1>6. /\ \A t : Swept(t) => Swept(t)'
      /\ TerminalTtls(obs) \subseteq TerminalTtls(obs')
  BY <1>4, EvidenceGrows
<1>7. limit # 0 /\ limit \in Int
  BY <1>1 DEF TTLs
<1>8. AnalysisLimit(obs') <= limit
  <2>1. obs \in SUBSET Observed
    BY DEF MeasurementInv, TypeOK
  <2>2. AnalysisLimit(obs) <= limit
    BY <1>7 DEF PathInv, LimitInside
  <2>3. \A r \in Received(P, reply) : r.ttl <= limit
    BY <1>5, <1>7
  <2> HIDE DEF PathInv, LimitInside
  <2> QED BY <1>1, <1>3, <2>1, <2>2, <2>3, LimitKept
<1>9. terminalTtl # 0 => limit <= terminalTtl /\ terminalTtl \in TerminalTtls(obs)
  BY <1>7 DEF PathInv, LimitInside
<1>10. \A o \in obs' : \A t \in 1..o.ttl : Swept(t)'
  <2> TAKE o \in obs'
  <2> TAKE t \in 1..o.ttl
  <2>1. CASE o \in obs
    BY <1>6, <2>1 DEF PathInv
  <2>2. CASE o \in obs' \ obs
    <3>1. o.ttl \in 1..limit
      BY <1>4, <2>2
    <3>2. t \in 1..limit
      BY <1>7, <3>1
    <3> QED BY <1>1, <1>6, <3>2
  <2> QED BY <2>1, <2>2
<1>11. LimitInside'
  BY <1>1, <1>6, <1>8, <1>9 DEF LimitInside
<1>12. SweepInside'
  BY DEF SweepInside
<1>13. \A w \in work' : w.ttls \subseteq 1..limit'
  BY <1>2 DEF PathInv
<1>14. PathInv'
  BY <1>6, <1>9, <1>10, <1>11, <1>12, <1>13 DEF PathInv
<1>15. terminalTtl # 0 => \A o \in obs' \ obs : o.ttl <= terminalTtl
  <2>1. terminalTtl # 0 => terminalTtl \in Int
    BY DEF MeasurementInv, TypeOK, OrZero, TTLs
  <2> QED BY <1>4, <1>7, <1>9, <2>1
<1> QED BY <1>14, <1>15

(* A chunk of a sweep sweeps on, up to a terminal that is known.           *)
LEMMA SweepDelivered ==
  ASSUME MeasurementInv, PathInv, pc = "sweep", Fits(SweepSpecs),
         NEW reply \in Replies(SweepSpecs), NEW c, Deliver(SweepSpecs, reply, c)
  PROVE  /\ \A t \in 1..ChunkStop(start, sweepLimit) : Swept(t)'
         /\ \A o \in obs' : \A t \in 1..o.ttl : Swept(t)'
         /\ TerminalTtls(obs) \subseteq TerminalTtls(obs')
         /\ terminalTtl # 0 => \A o \in obs' \ obs : o.ttl <= terminalTtl
<1> DEFINE stop == ChunkStop(start, sweepLimit)
<1>1. /\ \A p \in SweepSpecs : /\ p.variant = 0 /\ p.phase = "baseline-fixed"
                               /\ p.ttl \in start..stop
      /\ stop \in start..sweepLimit /\ sweepLimit \in TTLs
  BY SweepBatch
<1>2. /\ obs \subseteq obs'
      /\ \A o \in obs' \ obs : o.ttl \in start..stop
      /\ \A p \in SweepSpecs : \E o \in obs' : /\ o.ttl = p.ttl /\ o.variant = p.variant
                                              /\ o.phase = p.phase
  BY <1>1, DeliveredTtls
<1>3. /\ \A t : Swept(t) => Swept(t)'
      /\ TerminalTtls(obs) \subseteq TerminalTtls(obs')
  BY <1>2, EvidenceGrows
<1>4. start \in Int /\ start >= 1 /\ sweepLimit \in Int /\ stop \in Int /\ stop <= sweepLimit
  BY <1>1 DEF MeasurementInv, TypeOK, TTLs
<1>5. \A t \in start..stop : Swept(t)'
  <2> TAKE t \in start..stop
  <2>0. [ttl |-> t, variant |-> 0, phase |-> "baseline-fixed", sample |-> LastSample]
          \in SweepSpecs
    BY DEF SweepSpecs, Bundle
  <2>1. PICK p \in SweepSpecs : p.ttl = t
    BY <2>0
  <2> QED BY <1>1, <1>2, <2>1 DEF Swept, MainFlow
<1>6. \A t \in 1..(start - 1) : Swept(t)'
  BY <1>3 DEF PathInv, SweepInside
<1>7. \A t \in 1..stop : Swept(t)'
  <2> TAKE t \in 1..stop
  <2> HIDE DEF stop
  <2>1. t \in 1..(start - 1) \/ t \in start..stop
    BY <1>4
  <2> QED BY <1>5, <1>6, <2>1
<1>8. \A o \in obs' : \A t \in 1..o.ttl : Swept(t)'
  <2> TAKE o \in obs'
  <2> TAKE t \in 1..o.ttl
  <2>1. CASE o \in obs
    BY <1>3, <2>1 DEF PathInv
  <2>2. CASE o \in obs' \ obs
    <3>1. o.ttl \in start..stop
      BY <1>2, <2>2
    <3>2. t \in 1..stop
      <4> HIDE DEF stop
      <4> QED BY <1>4, <3>1
    <3> QED BY <1>7, <3>2
  <2> QED BY <2>1, <2>2
<1>9. terminalTtl # 0 => \A o \in obs' \ obs : o.ttl <= terminalTtl
  <2>1. terminalTtl # 0 => terminalTtl \in Int /\ sweepLimit <= terminalTtl
    BY DEF MeasurementInv, TypeOK, OrZero, TTLs, PathInv, SweepInside
  <2> HIDE DEF stop
  <2> QED BY <1>2, <1>4, <2>1
<1> QED BY <1>3, <1>7, <1>8, <1>9
(* A chunk is followed by the next, by the next round, or by the limit.    *)
LEMMA SweepChunkPath ==
  ASSUME MeasurementInv, PathInv, SweepChunk
  PROVE  /\ PathInv'
         /\ terminalTtl # 0 => \A o \in obs' \ obs : o.ttl <= terminalTtl
<1> DEFINE stop == ChunkStop(start, sweepLimit)
           ends(r) == {o.ttl : o \in {x \in Received(SweepSpecs, r) : Terminal(x)}}
<1>1. pc = "sweep" /\ pc \in TryStages /\ Fits(SweepSpecs) /\ NewBatch(SweepSpecs)
  BY SweepBatch DEF SweepChunk, TryStages
<1>2. PICK reply \in Replies(SweepSpecs) :
        /\ Deliver(SweepSpecs, reply, Cardinality(SweepSpecs))
        /\ terminalTtl' = IF ends(reply) = {} THEN terminalTtl
                          ELSE Min(ends(reply) \cup ({terminalTtl} \ {0}))
        /\ \/ ends(reply) = {} /\ start' = stop + 1 /\ pc' = pc
           \/ pc' \in {"limit", "round"}
  BY DEF SweepChunk
<1>3. sweepLimit' = sweepLimit /\ limit' = limit /\ work' = work
  BY DEF SweepChunk, capVars
<1>4. /\ \A t \in 1..stop : Swept(t)'
      /\ \A o \in obs' : \A t \in 1..o.ttl : Swept(t)'
      /\ TerminalTtls(obs) \subseteq TerminalTtls(obs')
      /\ terminalTtl # 0 => \A o \in obs' \ obs : o.ttl <= terminalTtl
  BY <1>1, <1>2, SweepDelivered
<1>5. /\ obs' = obs \cup Received(SweepSpecs, reply)
      /\ Received(SweepSpecs, reply) \in SUBSET Observed
  BY <1>1, <1>2, SendLedger
<1>6. \A o \in Received(SweepSpecs, reply) : MainFlow(o)
  BY SweepBatch, <1>1 DEF Received, MainFlow
<1>7. ends(reply) \subseteq TerminalTtls(obs') /\ ends(reply) \in SUBSET TTLs
  BY <1>5, <1>6 DEF TerminalTtls, Observed
<1>8. terminalTtl # 0 => terminalTtl \in TerminalTtls(obs') /\ terminalTtl \in TTLs
  BY <1>4 DEF PathInv, MeasurementInv, TypeOK, OrZero
<1>9. terminalTtl' # 0 => terminalTtl' \in TerminalTtls(obs')
  <2> DEFINE S == ends(reply) \cup ({terminalTtl} \ {0})
  <2>1. S \in SUBSET TTLs /\ S \subseteq TerminalTtls(obs')
    BY <1>7, <1>8
  <2>2. ends(reply) # {} => S # {}
    OBVIOUS
  <2>3. ends(reply) # {} => Min(S) \in TerminalTtls(obs')
    <3> HIDE DEF S
    <3> QED BY <2>1, <2>2, ExtremeTtls
  <2> HIDE DEF ends
  <2> QED BY <1>2, <1>8, <2>3
<1>10. stop \in Int
  <2>1. stop \in start..sweepLimit
    BY <1>1, SweepBatch
  <2> QED BY <2>1
<1>11. SweepInside'
  <2>1. SUFFICES ASSUME pc' = "sweep"
                 PROVE  /\ terminalTtl' # 0 => sweepLimit' <= terminalTtl'
                        /\ \A t \in 1..(start' - 1) : Swept(t)'
    BY DEF SweepInside
  <2>2. terminalTtl' = terminalTtl /\ start' = stop + 1
    BY <1>2, <2>1
  <2>3. start' - 1 = stop
    <3> HIDE DEF stop
    <3> QED BY <1>10, <2>2
  <2>4. terminalTtl # 0 => sweepLimit <= terminalTtl
    BY <1>1 DEF PathInv, SweepInside
  <2> QED BY <1>3, <1>4, <2>2, <2>3, <2>4
<1>12. limit = 0 /\ work = {}
  BY <1>1 DEF PathInv, LimitInside, BaselineStages
<1>13. LimitInside'
  <2>1. pc' \in BaselineStages
    BY <1>1, <1>2 DEF BaselineStages
  <2>2. pc' \notin CanaryStages /\ pc' # "done"
    BY <2>1 DEF BaselineStages, CanaryStages
  <2> QED BY <1>3, <1>12, <2>1, <2>2 DEF LimitInside
<1> HIDE DEF stop, ends
<1> QED BY <1>3, <1>4, <1>9, <1>11, <1>12, <1>13 DEF PathInv

(* A batch kept but not counted ends the measurement where it was.         *)
LEMMA InterruptBeforeCountPath ==
  ASSUME MeasurementInv, PathInv, InterruptBeforeCount
  PROVE  /\ PathInv'
         /\ terminalTtl # 0 => \A o \in obs' \ obs : o.ttl <= terminalTtl
<1>1. /\ pc \in {"sweep", "canarySweep"} /\ pc' = "summarize" /\ InFlight # {}
      /\ terminalTtl' = terminalTtl /\ limit' = limit /\ work' = work
  BY DEF InterruptBeforeCount, sweepVars, capVars
<1>2. PICK reply \in Replies(InFlight) : Deliver(InFlight, reply, 0)
  BY DEF InterruptBeforeCount
<1>3. CASE pc = "sweep"
  <2>1. InFlight = SweepSpecs /\ Fits(SweepSpecs)
    BY <1>1, <1>3 DEF InFlight
  <2>2. /\ \A o \in obs' : \A t \in 1..o.ttl : Swept(t)'
        /\ TerminalTtls(obs) \subseteq TerminalTtls(obs')
        /\ terminalTtl # 0 => \A o \in obs' \ obs : o.ttl <= terminalTtl
    BY <1>2, <1>3, <2>1, SweepDelivered
  <2>3. limit = 0 /\ work = {}
    BY <1>3 DEF PathInv, LimitInside, BaselineStages
  <2>4. LimitInside' /\ SweepInside'
    BY <1>1, <2>3 DEF LimitInside, SweepInside, BaselineStages, CanaryStages, TryStages
  <2> QED BY <1>1, <2>2, <2>4 DEF PathInv, TryStages
<1>4. CASE pc = "canarySweep"
  <2>1. InFlight = CanarySpecs /\ Fits(CanarySpecs) /\ NewBatch(CanarySpecs)
    BY <1>1, <1>4, CanaryBatch DEF InFlight
  <2>2. /\ pc' \notin {"sweep", "done"} /\ pc' \notin BaselineStages
        /\ pc' \notin CanaryStages
    BY <1>1 DEF BaselineStages, CanaryStages
  <2> QED BY <1>1, <1>2, <1>4, <2>1, <2>2, InsidePath
<1> QED BY <1>1, <1>3, <1>4

(* The other batches stay inside the limit.                                *)
LEMMA InsideSteps ==
  ASSUME MeasurementInv, PathInv, CanaryChunk \/ FixedSample \/ VariedSamples
  PROVE  /\ PathInv'
         /\ terminalTtl # 0 => \A o \in obs' \ obs : o.ttl <= terminalTtl
<1>1. CASE CanaryChunk
  <2>1. pc = "canarySweep" /\ Fits(CanarySpecs) /\ NewBatch(CanarySpecs)
    BY <1>1, CanaryBatch DEF CanaryChunk
  <2>2. PICK reply \in Replies(CanarySpecs) :
          Deliver(CanarySpecs, reply, Cardinality(CanarySpecs))
    BY <1>1 DEF CanaryChunk
  <2>3. /\ terminalTtl' = terminalTtl /\ limit' = limit /\ work' = work
        /\ pc' \in {"canary", "canarySweep"}
    BY <1>1 DEF CanaryChunk, capVars
  <2> QED BY <2>1, <2>2, <2>3, InsidePath DEF BaselineStages, CanaryStages
<1>2. CASE FixedSample
  <2>1. pc = "fixed" /\ Fits(FixedSpecs) /\ NewBatch(FixedSpecs)
    BY <1>2, FixedBatch DEF FixedSample
  <2>2. PICK reply \in Replies(FixedSpecs) : Deliver(FixedSpecs, reply, 0)
    BY <1>2 DEF FixedSample
  <2>3. terminalTtl' = terminalTtl /\ limit' = limit /\ work' = work /\ pc' = pc
    BY <1>2 DEF FixedSample, sweepVars
  <2> QED BY <2>1, <2>2, <2>3, InsidePath DEF BaselineStages, CanaryStages
<1>3. CASE VariedSamples
  <2>1. pc = "varied" /\ Fits(VariedSpecs) /\ NewBatch(VariedSpecs)
    BY <1>3, VariedBatchIsNew DEF VariedSamples
  <2>2. PICK reply \in Replies(VariedSpecs) : Deliver(VariedSpecs, reply, 0)
    BY <1>3 DEF VariedSamples
  <2>3. terminalTtl' = terminalTtl /\ limit' = limit /\ work' = work /\ pc' = pc
    BY <1>3 DEF VariedSamples, sweepVars
  <2> QED BY <2>1, <2>2, <2>3, InsidePath DEF BaselineStages, CanaryStages
<1> QED BY <1>1, <1>2, <1>3

-----------------------------------------------------------------------------
(* The invariant and what follows from it.                                 *)

(* A run starts with nothing swept.                                        *)
LEMMA InitialPath == Init => PathInv
<1> SUFFICES ASSUME Init PROVE PathInv
  OBVIOUS
<1>1. \A t \in 1..(start - 1) : FALSE
  BY DEF Init
<1>2. SweepInside /\ LimitInside
  BY <1>1 DEF Init, SweepInside, LimitInside, CanaryStages
<1> QED BY <1>2 DEF Init, PathInv

(* One case per kind of step.                                              *)
LEMMA PathStep ==
  ASSUME MeasurementInv, PathInv, [Next]_vars
  PROVE  /\ PathInv'
         /\ terminalTtl # 0 => \A o \in obs' \ obs : o.ttl <= terminalTtl
<1>1. CASE \/ SweepRefused \/ BeginCanary \/ CanariesDone \/ CanaryRefused
           \/ EnterWindow \/ WindowsDone \/ FixedRefused \/ FixedOnlyDone
           \/ BeginVaried \/ DrawToken \/ VariedExhausted \/ VariedDone
           \/ RunControl \/ Interrupt
  <2>1. obs' = obs
    BY <1>1 DEF SweepRefused, BeginCanary, CanariesDone, CanaryRefused, EnterWindow,
       WindowsDone, FixedRefused, FixedOnlyDone, BeginVaried, DrawToken, VariedExhausted,
       VariedDone, RunControl, Interrupt, Refuse, ledger
  <2> QED BY <1>1, <2>1, QuietSteps
<1>2. CASE BackendFails
  BY <1>2, BackendFailsPath DEF BackendFails
<1>3. CASE BeginRound
  BY <1>3, BeginRoundPath DEF BeginRound, ledger
<1>4. CASE FixLimit
  BY <1>4, FixLimitPath DEF FixLimit, ledger
<1>5. CASE DetectRegions
  BY <1>5, DetectRegionsPath DEF DetectRegions, ledger
<1>6. CASE Summarize
  BY <1>6, SummarizePath DEF Summarize, ledger
<1>7. CASE SweepChunk
  BY <1>7, SweepChunkPath
<1>8. CASE InterruptBeforeCount
  BY <1>8, InterruptBeforeCountPath
<1>9. CASE CanaryChunk \/ FixedSample \/ VariedSamples
  BY <1>9, InsideSteps
<1>10. CASE UNCHANGED vars
  <2> USE <1>10 DEF vars, ledger, sweepVars, capVars
  <2>1. \A t : Swept(t)' <=> Swept(t)
    BY DEF Swept
  <2>2. SweepInside' /\ LimitInside'
    BY <2>1 DEF PathInv, SweepInside, LimitInside
  <2> QED BY <2>1, <2>2 DEF PathInv
<1> QED BY <1>1, <1>2, <1>3, <1>4, <1>5, <1>6, <1>7, <1>8, <1>9, <1>10 DEF Next, Proceed

(* PathInv holds in every reachable state.                                 *)
THEOREM PathIsInvariant == Spec => []PathInv
<1>1. MeasurementInv /\ PathInv /\ [Next]_vars => PathInv'
  BY PathStep
<1> QED BY <1>1, InitialPath, MeasurementIsInvariant, PTL DEF Spec

(* Canaries and windows never move the limit outwards: the regions found   *)
(* for it cover the one the report uses.                                   *)
THEOREM LimitStays == Spec => []LimitNeverGrows
<1>1. PathInv => LimitNeverGrows
  BY DEF PathInv, LimitInside, LimitNeverGrows
<1> QED BY <1>1, PathIsInvariant, PTL

(* Once a sweep met a terminal reply, nothing is probed beyond it.         *)
THEOREM NothingPastTerminal == Spec => NoProbePastTerminal
<1>1. MeasurementInv /\ PathInv /\ [Next]_vars =>
        [terminalTtl # 0 => \A o \in obs' \ obs : o.ttl <= terminalTtl]_vars
  BY PathStep
<1> QED BY <1>1, MeasurementIsInvariant, PathIsInvariant, PTL
        DEF Spec, NoProbePastTerminal

(* Every hop of a report was probed on the main flow.                      *)
THEOREM ReportedHopsProbed == Spec => []HopsProbed
<1>1. MeasurementInv /\ PathInv => HopsProbed
  <2> SUFFICES ASSUME MeasurementInv, PathInv, Done, BaselineAnswered(obs),
                      NEW t \in Hops
               PROVE  Sent(obs, t) > 0
    BY DEF HopsProbed
  <2>1. obs \in SUBSET Observed /\ IsFiniteSet(obs)
    BY DEF MeasurementInv, TypeOK
  <2>2. HopCount(obs, limit) = AnalysisLimit(obs)
    BY DEF Done, PathInv, LimitInside, HopCount, AnalysisLimit
  <2>3. PICK o \in obs : o.ttl = AnalysisLimit(obs)
    BY <2>1, LimitIsObserved DEF BaselineAnswered
  <2>4. PICK m \in obs : m.ttl = t /\ MainFlow(m)
    BY <2>2, <2>3 DEF PathInv, Hops, Swept
  <2>5. m \in MainAt(obs, t) /\ MainAt(obs, t) \subseteq obs
    BY <2>4 DEF MainAt
  <2>6. IsFiniteSet(MainAt(obs, t)) /\ Cardinality(MainAt(obs, t)) # 0
    BY <2>1, <2>5, FS_Subset, FS_EmptySet
  <2>7. Cardinality(MainAt(obs, t)) \in Nat
    BY <2>6, FS_CardinalityType
  <2> QED BY <2>6, <2>7 DEF Sent
<1> QED BY <1>1, MeasurementIsInvariant, PathIsInvariant, PTL

-----------------------------------------------------------------------------
(* The split of the probes.                                                *)

(* The phase of every probe in flight tells the stage that sends it.       *)
LEMMA PhaseOfBatch ==
  ASSUME MeasurementInv
  PROVE  /\ pc = "sweep" => \A p \in SweepSpecs : p.phase = "baseline-fixed"
         /\ pc = "canarySweep" => \A p \in CanarySpecs : p.phase = "canary-varied"
         /\ \A p \in FixedSpecs : p.phase = "dbp-fixed"
         /\ \A p \in VariedSpecs : p.phase = "dbp-varied"
<1>1. /\ \A p \in FixedSpecs : p.phase = "dbp-fixed"
      /\ \A p \in VariedSpecs : p.phase = "dbp-varied"
  BY DEF FixedSpecs, VariedSpecs, Bundle
<1> QED BY <1>1, SweepBatch, CanaryBatch

(* A baseline batch adds all its probes to the baseline observations, any  *)
(* other batch adds none.                                                  *)
LEMMA SplitOfBatch ==
  ASSUME MeasurementInv, pc \in TryStages,
         NEW P, NewBatch(P), Fits(P), NEW reply \in Replies(P), NEW c, Deliver(P, reply, c)
  PROVE  /\ (\A p \in P : p.phase \in {"baseline-fixed", "canary-varied"}) =>
              Cardinality(BaselineObs') = Cardinality(BaselineObs) + Cardinality(P)
         /\ (\A p \in P : p.phase \notin {"baseline-fixed", "canary-varied"}) =>
              BaselineObs' = BaselineObs
         /\ Cardinality(BaselineObs) \in Nat /\ Cardinality(P) \in Nat
<1> DEFINE R == Received(P, reply)
<1>1. /\ P \in SUBSET Specs /\ IsFiniteSet(P)
      /\ \A p \in P, o \in obs : o.sample = p.sample => o.ttl # p.ttl
  BY DEF NewBatch
<1>2. reply \in [P -> Outcomes]
  BY <1>1, RepliesType DEF MeasurementInv, NewBatch
<1>3. IsFiniteSet(R) /\ Cardinality(R) = Cardinality(P)
  BY <1>1, <1>2, ReceivedType
<1>4. obs' = obs \cup R
  BY DEF Deliver
<1>5. \A g \in R : \E p \in P : /\ g.sample = p.sample /\ g.ttl = p.ttl
                               /\ g.phase = p.phase
  BY DEF Received
<1>6. obs \cap R = {}
  BY <1>1, <1>5
<1>7. IsFiniteSet(BaselineObs)
  <2>1. IsFiniteSet(obs) /\ BaselineObs \subseteq obs
    BY DEF MeasurementInv, TypeOK, BaselineObs
  <2> QED BY <2>1, FS_Subset
<1>8. Cardinality(BaselineObs) \in Nat /\ Cardinality(P) \in Nat
  BY <1>1, <1>7, FS_CardinalityType
<1>9. ASSUME \A p \in P : p.phase \in {"baseline-fixed", "canary-varied"}
      PROVE  Cardinality(BaselineObs') = Cardinality(BaselineObs) + Cardinality(P)
  <2>1. BaselineObs' = BaselineObs \cup R
    BY <1>4, <1>5, <1>9 DEF BaselineObs
  <2>2. BaselineObs \cap R = {}
    BY <1>6 DEF BaselineObs
  <2>3. Cardinality(BaselineObs \cap R) = 0
    BY <2>2, FS_EmptySet
  <2> DEFINE B == BaselineObs
  <2>4. Cardinality(B \cup R) = Cardinality(B) + Cardinality(R) - Cardinality(B \cap R)
    <3> HIDE DEF R, B
    <3> QED BY <1>3, <1>7, FS_Union DEF B
  <2> HIDE DEF R
  <2> QED BY <1>3, <1>8, <2>1, <2>3, <2>4
<1>10. ASSUME \A p \in P : p.phase \notin {"baseline-fixed", "canary-varied"}
       PROVE  BaselineObs' = BaselineObs
  BY <1>4, <1>5, <1>10 DEF BaselineObs
<1> QED BY <1>8, <1>9, <1>10

(* One case per kind of step.                                              *)
LEMMA SplitStep ==
  ASSUME MeasurementInv, SplitExact, [Next]_vars PROVE SplitExact'
<1>1. baselineCount \in Nat
  BY DEF MeasurementInv, TypeOK
<1> DEFINE held == Cardinality(BaselineObs)
<1>2. CASE SweepChunk \/ CanaryChunk
  <2>1. PICK P : /\ NewBatch(P) /\ Fits(P) /\ pc \in TryStages
                 /\ \A p \in P : p.phase \in {"baseline-fixed", "canary-varied"}
                 /\ \E reply \in Replies(P) : Deliver(P, reply, Cardinality(P))
    BY <1>2, SweepBatch, CanaryBatch DEF SweepChunk, CanaryChunk, TryStages
  <2>2. /\ Cardinality(BaselineObs') = held + Cardinality(P)
        /\ held \in Nat /\ Cardinality(P) \in Nat
    BY <2>1, SplitOfBatch
  <2>3. baselineCount' = baselineCount + Cardinality(P) /\ interrupted' = interrupted
    BY <1>2, <2>1 DEF SweepChunk, CanaryChunk, Deliver, verdict
  <2>4. baselineCount <= held /\ (~interrupted => baselineCount = held)
    BY DEF SplitExact
  <2> HIDE DEF held
  <2> QED BY <1>1, <2>2, <2>3, <2>4 DEF SplitExact
<1>3. CASE FixedSample \/ VariedSamples
  <2>1. PICK P : /\ NewBatch(P) /\ Fits(P) /\ pc \in TryStages
                 /\ \A p \in P : p.phase \notin {"baseline-fixed", "canary-varied"}
                 /\ \E reply \in Replies(P) : Deliver(P, reply, 0)
    <3>1. CASE FixedSample
      BY <3>1, FixedBatch, PhaseOfBatch DEF FixedSample, TryStages
    <3>2. CASE VariedSamples
      BY <3>2, VariedBatchIsNew, PhaseOfBatch DEF VariedSamples, TryStages
    <3> QED BY <1>3, <3>1, <3>2
  <2>2. BaselineObs' = BaselineObs
    BY <2>1, SplitOfBatch
  <2>3. baselineCount' = baselineCount + 0 /\ interrupted' = interrupted
    BY <1>3, <2>1 DEF FixedSample, VariedSamples, Deliver, verdict
  <2> QED BY <1>1, <2>2, <2>3 DEF SplitExact
<1>4. CASE InterruptBeforeCount
  <2>1. /\ NewBatch(InFlight) /\ Fits(InFlight) /\ pc \in TryStages
        /\ \A p \in InFlight : p.phase \in {"baseline-fixed", "canary-varied"}
    BY <1>4, InFlightIsNew, PhaseOfBatch DEF InterruptBeforeCount, TryStages
  <2>2. PICK reply \in Replies(InFlight) : Deliver(InFlight, reply, 0)
    BY <1>4 DEF InterruptBeforeCount
  <2>3. /\ Cardinality(BaselineObs') = held + Cardinality(InFlight)
        /\ held \in Nat /\ Cardinality(InFlight) \in Nat
    BY <2>1, <2>2, SplitOfBatch
  <2>4. baselineCount' = baselineCount + 0 /\ interrupted'
    BY <1>4, <2>2 DEF InterruptBeforeCount, Deliver
  <2>5. baselineCount <= held
    BY DEF SplitExact
  <2> HIDE DEF held
  <2> QED BY <1>1, <2>3, <2>4, <2>5 DEF SplitExact
<1>5. CASE /\ obs' = obs /\ baselineCount' = baselineCount
           /\ interrupted' = interrupted \/ interrupted' = TRUE
  BY <1>5 DEF SplitExact, BaselineObs
<1>6. CASE \/ BeginRound \/ SweepRefused \/ FixLimit \/ BeginCanary \/ CanariesDone
           \/ CanaryRefused \/ DetectRegions \/ EnterWindow \/ WindowsDone
           \/ FixedRefused \/ FixedOnlyDone \/ BeginVaried \/ DrawToken
           \/ VariedExhausted \/ VariedDone \/ RunControl \/ Summarize
  BY <1>5, <1>6 DEF BeginRound, SweepRefused, FixLimit, BeginCanary, CanariesDone,
     CanaryRefused, DetectRegions, EnterWindow, WindowsDone, FixedRefused, FixedOnlyDone,
     BeginVaried, DrawToken, VariedExhausted, VariedDone, RunControl, Summarize, Refuse,
     ledger, verdict
<1>7. CASE Interrupt \/ BackendFails \/ UNCHANGED vars
  BY <1>5, <1>7 DEF Interrupt, BackendFails, vars, ledger, verdict
<1> QED BY <1>2, <1>3, <1>4, <1>6, <1>7 DEF Next, Proceed

(* The report splits the probes into baseline and adaptive ones as the     *)
(* phases of the observations do, and only a measurement cut inside _send  *)
(* counts fewer.                                                           *)
THEOREM SplitStaysExact == Spec => []SplitExact
<1>1. Init => SplitExact
  BY FS_EmptySet DEF Init, SplitExact, BaselineObs
<1>2. MeasurementInv /\ SplitExact /\ [Next]_vars => SplitExact'
  BY SplitStep
<1> QED BY <1>1, <1>2, MeasurementIsInvariant, PTL DEF Spec

-----------------------------------------------------------------------------
(* How long a measurement runs.                                            *)

(* The first of the five numbers that differs decides.                     *)
LEMMA FirstDecides ==
  /\ StagesLeft' < StagesLeft => Below(Left', Left)
  /\ StagesLeft' = StagesLeft =>
       /\ PassesLeft' < PassesLeft => Below(Left', Left)
       /\ PassesLeft' = PassesLeft =>
            /\ PartsLeft' < PartsLeft => Below(Left', Left)
            /\ PartsLeft' = PartsLeft =>
                 /\ InnerLeft' < InnerLeft => Below(Left', Left)
                 /\ InnerLeft' = InnerLeft /\ DrawsLeft' < DrawsLeft => Below(Left', Left)
<1>1. StagesLeft' < StagesLeft => Below(Left', Left)
  <2>1. Left'[1] = StagesLeft' /\ Left[1] = StagesLeft
    BY DEF Left
  <2> QED BY <2>1 DEF Below
<1>2. StagesLeft' = StagesLeft /\ PassesLeft' < PassesLeft => Below(Left', Left)
  <2>1. /\ Left'[1] = StagesLeft' /\ Left[1] = StagesLeft
        /\ Left'[2] = PassesLeft' /\ Left[2] = PassesLeft
    BY DEF Left
  <2> QED BY <2>1 DEF Below
<1>3. /\ StagesLeft' = StagesLeft /\ PassesLeft' = PassesLeft
      /\ PartsLeft' < PartsLeft
      => Below(Left', Left)
  <2>1. /\ Left'[1] = StagesLeft' /\ Left[1] = StagesLeft
        /\ Left'[2] = PassesLeft' /\ Left[2] = PassesLeft
        /\ Left'[3] = PartsLeft' /\ Left[3] = PartsLeft
    BY DEF Left
  <2> QED BY <2>1 DEF Below
<1>4. /\ StagesLeft' = StagesLeft /\ PassesLeft' = PassesLeft /\ PartsLeft' = PartsLeft
      /\ InnerLeft' < InnerLeft
      => Below(Left', Left)
  <2>1. /\ Left'[1] = StagesLeft' /\ Left[1] = StagesLeft
        /\ Left'[2] = PassesLeft' /\ Left[2] = PassesLeft
        /\ Left'[3] = PartsLeft' /\ Left[3] = PartsLeft
        /\ Left'[4] = InnerLeft' /\ Left[4] = InnerLeft
    BY DEF Left
  <2> QED BY <2>1 DEF Below
<1>5. /\ StagesLeft' = StagesLeft /\ PassesLeft' = PassesLeft /\ PartsLeft' = PartsLeft
      /\ InnerLeft' = InnerLeft /\ DrawsLeft' < DrawsLeft
      => Below(Left', Left)
  <2>1. /\ Left'[1] = StagesLeft' /\ Left[1] = StagesLeft
        /\ Left'[2] = PassesLeft' /\ Left[2] = PassesLeft
        /\ Left'[3] = PartsLeft' /\ Left[3] = PartsLeft
        /\ Left'[4] = InnerLeft' /\ Left[4] = InnerLeft
        /\ Left'[5] = DrawsLeft' /\ Left[5] = DrawsLeft
    BY DEF Left
  <2> QED BY <2>1 DEF Below
<1> QED BY <1>1, <1>2, <1>3, <1>4, <1>5

(* What is left is counted in natural numbers: the work of a window, and   *)
(* the tokens a batch still needs, are finite sets.                        *)
LEMMA WorkIsFinite ==
  ASSUME NEW W \in SUBSET Windows
  PROVE  IsFiniteSet(W)
<1>1. IsFiniteSet(TTLs) /\ IsFiniteSet(SUBSET TTLs)
  BY TtlsAreFinite, FS_SUBSET
<1>2. IsFiniteSet(BOOLEAN \X TTLs)
  <2>1. IsFiniteSet({TRUE}) /\ IsFiniteSet({FALSE})
    BY FS_Singleton
  <2>2. BOOLEAN = {TRUE} \cup {FALSE}
    OBVIOUS
  <2>3. IsFiniteSet(BOOLEAN)
    BY <2>1, <2>2, FS_Union
  <2> QED BY <1>1, <2>3, FS_Product
<1>3. IsFiniteSet((BOOLEAN \X TTLs) \X (TTLs \X (SUBSET TTLs)))
  BY <1>1, <1>2, FS_Product
<1> DEFINE K == (BOOLEAN \X TTLs) \X (TTLs \X (SUBSET TTLs))
           Box(k) == [variant |-> k[1][1], first |-> k[1][2], last |-> k[2][1],
                      ttls |-> k[2][2]]
<1>4. IsFiniteSet({Box(k) : k \in K})
  <2> DEFINE box == [k \in K |-> Box(k)]
  <2>1. box \in Surjection(K, {Box(k) : k \in K})
    BY DEF Surjection
  <2> HIDE DEF box
  <2> QED BY <1>3, <2>1, FS_Surjection
<1>5. W \in SUBSET {Box(k) : k \in K}
  <2> SUFFICES ASSUME NEW w \in W PROVE \E k \in K : w = Box(k)
    OBVIOUS
  <2>1. w = Box(<<<<w.variant, w.first>>, <<w.last, w.ttls>>>>)
    BY DEF Windows
  <2>2. <<<<w.variant, w.first>>, <<w.last, w.ttls>>>> \in K
    BY DEF Windows
  <2> QED BY <2>1, <2>2
<1> QED BY <1>4, <1>5, FS_Subset

(* The canaries are counted up to their number.                            *)
LEMMA CanariesCountedStep ==
  ASSUME MeasurementInv, CanariesCounted, [Next]_vars PROVE CanariesCounted'
<1>1. CanaryFlows \in Nat /\ canary \in Nat
  BY ConfigAssumption DEF MeasurementInv, TypeOK
<1>2. CASE FixLimit
  BY <1>1, <1>2 DEF FixLimit, CanariesCounted
<1>3. CASE BeginCanary
  BY <1>1, <1>3 DEF BeginCanary, CanariesCounted
<1>4. CASE CanaryChunk
  <2>1. \/ pc' = "canary" /\ canary' = canary + 1
        \/ canary' = canary
    BY <1>4 DEF CanaryChunk
  <2> QED BY <1>1, <1>4, <2>1 DEF CanaryChunk, CanariesCounted
<1>5. CASE canary' = canary /\ (pc' = "canarySweep" => pc = "canarySweep")
  BY <1>5 DEF CanariesCounted
<1>6. CASE \/ BeginRound \/ SweepRefused \/ SweepChunk \/ CanariesDone \/ CanaryRefused
           \/ DetectRegions \/ EnterWindow \/ WindowsDone
  BY <1>5, <1>6 DEF BeginRound, SweepRefused, SweepChunk, CanariesDone, CanaryRefused,
     DetectRegions, EnterWindow, WindowsDone, sweepVars
<1>7. CASE \/ FixedRefused \/ FixedSample \/ FixedOnlyDone \/ BeginVaried \/ DrawToken
           \/ VariedSamples \/ VariedExhausted \/ VariedDone
  BY <1>5, <1>7 DEF FixedRefused, FixedSample, FixedOnlyDone, BeginVaried, DrawToken,
     VariedSamples, VariedExhausted, VariedDone, LeaveWindow, sweepVars
<1>8. CASE \/ RunControl \/ Summarize \/ Interrupt \/ InterruptBeforeCount
           \/ BackendFails \/ UNCHANGED vars
  BY <1>5, <1>8 DEF RunControl, Summarize, Interrupt, InterruptBeforeCount,
     BackendFails, vars, sweepVars
<1> QED BY <1>2, <1>3, <1>4, <1>6, <1>7, <1>8 DEF Next, Proceed

(* The tokens a batch still needs are finitely many.                       *)
LEMMA TokenlessIsFinite ==
  ASSUME MeasurementInv, pc = "varied"
  PROVE  /\ IsFiniteSet(Tokenless) /\ Tokenless \in SUBSET Nat
         /\ Cardinality(Tokenless) \in Nat
<1>1. VariedCount \in Int /\ nextVariant \in Nat \ {0}
  BY VariedCountType
<1>2. VariedBatch \in SUBSET Nat
  BY <1>1 DEF VariedBatch
<1>3. IsFiniteSet(VariedBatch)
  <2>1. nextVariant \in Int /\ nextVariant + VariedCount - 1 \in Int
    BY <1>1
  <2> QED BY <2>1, FS_Interval DEF VariedBatch
<1> QED BY <1>2, <1>3, FS_Subset, FS_CardinalityType DEF Tokenless

(* What is left is counted in natural numbers.                             *)
LEMMA LeftIsCounted ==
  ASSUME MeasurementInv, CanariesCounted PROVE Left \in [1..5 -> Nat]
<1>1. StagesLeft \in Nat
  BY DEF StagesLeft
<1>2. PassesLeft \in Nat
  <2>1. CASE pc \in BaselineLoop
    <3>1. BaselineRounds - round \in Nat
      BY ConfigAssumption DEF MeasurementInv, TypeOK
    <3> QED BY <2>1, <3>1 DEF PassesLeft, WindowLoop, CanaryLoop, BaselineLoop
  <2>2. CASE pc \in CanaryLoop
    <3>1. CanaryFlows + 1 - canary \in Nat
      BY ConfigAssumption DEF MeasurementInv, TypeOK, CanariesCounted
    <3> QED BY <2>2, <3>1 DEF PassesLeft, WindowLoop, CanaryLoop, BaselineLoop
  <2>3. CASE pc \in WindowLoop
    <3>1. Cardinality(work) \in Nat
      BY WorkIsFinite, FS_CardinalityType DEF MeasurementInv, TypeOK
    <3> QED BY <2>3, <3>1 DEF PassesLeft, WindowLoop, CanaryLoop, BaselineLoop
  <2>4. CASE pc \notin BaselineLoop \cup CanaryLoop \cup WindowLoop
    BY <2>4 DEF PassesLeft
  <2> QED BY <2>1, <2>2, <2>3, <2>4
<1>3. PartsLeft \in Nat
  BY DEF PartsLeft
<1>4. InnerLeft \in Nat
  <2>1. CASE pc = "sweep"
    <3>1. sweepLimit - start \in Nat
      BY <2>1, ConfigAssumption DEF MeasurementInv, TypeOK, LoopsInBounds, OrZero, TTLs
    <3> QED BY <2>1, <3>1 DEF InnerLeft
  <2>2. CASE pc = "canarySweep"
    <3>1. limit - start \in Nat
      BY <2>2, ConfigAssumption DEF MeasurementInv, TypeOK, LoopsInBounds, OrZero, TTLs
    <3> QED BY <2>2, <3>1 DEF InnerLeft
  <2>3. fixedLeft \in Nat /\ (nextVariant <= Required => Required + 1 - nextVariant \in Nat)
    BY ConfigAssumption DEF MeasurementInv, TypeOK
  <2>4. CASE pc \notin {"sweep", "canarySweep"}
    BY <2>3, <2>4 DEF InnerLeft
  <2> QED BY <2>1, <2>2, <2>4
<1>5. DrawsLeft \in Nat
  BY TokenlessIsFinite DEF DrawsLeft
<1> HIDE DEF Left
<1>6. Left = <<StagesLeft, PassesLeft, PartsLeft, InnerLeft, DrawsLeft>>
  BY DEF Left
<1> QED BY <1>1, <1>2, <1>3, <1>4, <1>5, <1>6

(* Steps that end a stage, also by an interrupt or a failure.              *)
LEMMA StageEnds ==
  ASSUME MeasurementInv,
         \/ SweepRefused \/ FixLimit \/ CanariesDone \/ CanaryRefused \/ DetectRegions
         \/ WindowsDone \/ RunControl \/ Summarize
         \/ Interrupt \/ InterruptBeforeCount \/ BackendFails
  PROVE  Below(Left', Left)
<1>1. CASE \/ SweepRefused \/ FixLimit \/ CanariesDone \/ CanaryRefused \/ DetectRegions
           \/ WindowsDone \/ RunControl \/ Summarize
  <2>1. StagesLeft' < StagesLeft
    BY <1>1 DEF SweepRefused, FixLimit, CanariesDone, CanaryRefused, DetectRegions,
       WindowsDone, RunControl, Summarize, StagesLeft, BaselineLoop, CanaryLoop, WindowLoop
  <2> QED BY <2>1, FirstDecides
<1>2. CASE Interrupt \/ InterruptBeforeCount
  <2>1. pc \in TryStages /\ pc' = "summarize"
    BY <1>2 DEF Interrupt, InterruptBeforeCount, TryStages
  <2>2. StagesLeft' < StagesLeft
    BY <2>1 DEF TryStages, StagesLeft, BaselineLoop, CanaryLoop, WindowLoop
  <2> QED BY <2>2, FirstDecides
<1>3. CASE BackendFails
  <2>1. pc \in TryStages /\ pc' = "failed"
    BY <1>3, InFlightIsNew DEF BackendFails, TryStages
  <2>2. StagesLeft' < StagesLeft
    BY <2>1 DEF TryStages, StagesLeft, BaselineLoop, CanaryLoop, WindowLoop
  <2> QED BY <2>2, FirstDecides
<1> QED BY <1>1, <1>2, <1>3

(* A chunk ends a round, or leaves less of it.                             *)
LEMMA SweepLeavesLess ==
  ASSUME MeasurementInv, SweepChunk PROVE Below(Left', Left)
<1> DEFINE stop == ChunkStop(start, sweepLimit)
<1>1. pc = "sweep" /\ sweepLimit' = sweepLimit
  BY DEF SweepChunk
<1>2. \/ pc' = pc /\ round' = round /\ start' = stop + 1
      \/ pc' \in {"limit", "round"} /\ round' = round + 1
  BY DEF SweepChunk
<1>3. stop \in Int /\ stop >= start
  BY <1>1, SweepBatch DEF MeasurementInv, TypeOK, TTLs, OrZero
<1>4. start \in Nat /\ sweepLimit \in Nat /\ round \in Nat /\ BaselineRounds \in Nat
  BY ConfigAssumption DEF MeasurementInv, TypeOK, TTLs, OrZero
<1> HIDE DEF stop
<1>5. CASE pc' = pc /\ round' = round /\ start' = stop + 1
  <2>1. StagesLeft' = StagesLeft /\ PassesLeft' = PassesLeft /\ PartsLeft' = PartsLeft
    BY <1>1, <1>5 DEF StagesLeft, PassesLeft, PartsLeft,
                  BaselineLoop, CanaryLoop, WindowLoop
  <2>2. InnerLeft' < InnerLeft
    BY <1>1, <1>3, <1>4, <1>5 DEF InnerLeft
  <2> QED BY <2>1, <2>2, FirstDecides
<1>6. CASE pc' = "limit"
  <2>1. StagesLeft' < StagesLeft
    BY <1>1, <1>6 DEF StagesLeft, BaselineLoop, CanaryLoop, WindowLoop
  <2> QED BY <2>1, FirstDecides
<1>7. CASE pc' = "round" /\ round' = round + 1
  <2>1. StagesLeft' = StagesLeft /\ PassesLeft' < PassesLeft
    BY <1>1, <1>4, <1>7 DEF StagesLeft, PassesLeft,
                  BaselineLoop, CanaryLoop, WindowLoop
  <2> QED BY <2>1, FirstDecides
<1> QED BY <1>2, <1>5, <1>6, <1>7

(* A chunk ends a canary, or leaves less of it.                            *)
LEMMA CanaryLeavesLess ==
  ASSUME MeasurementInv, CanaryChunk PROVE Below(Left', Left)
<1> DEFINE stop == ChunkStop(start, limit)
<1>1. pc = "canarySweep" /\ limit' = limit
  BY DEF CanaryChunk
<1>2. \/ pc' = pc /\ canary' = canary /\ start' = stop + 1
      \/ pc' = "canary" /\ canary' = canary + 1
  BY DEF CanaryChunk
<1>3. stop \in Int /\ stop >= start /\ limit \in Nat /\ start \in Nat
  BY <1>1, CanaryBatch, ConfigAssumption DEF MeasurementInv, TypeOK, TTLs, OrZero
<1>4. canary \in Nat /\ CanaryFlows \in Nat
  BY ConfigAssumption DEF MeasurementInv, TypeOK
<1> HIDE DEF stop
<1>5. CASE pc' = pc /\ canary' = canary /\ start' = stop + 1
  <2>1. StagesLeft' = StagesLeft /\ PassesLeft' = PassesLeft /\ PartsLeft' = PartsLeft
    BY <1>1, <1>5 DEF StagesLeft, PassesLeft, PartsLeft,
                  BaselineLoop, CanaryLoop, WindowLoop
  <2>2. InnerLeft' < InnerLeft
    BY <1>1, <1>3, <1>5 DEF InnerLeft
  <2> QED BY <2>1, <2>2, FirstDecides
<1>6. CASE pc' = "canary" /\ canary' = canary + 1
  <2>1. StagesLeft' = StagesLeft /\ PassesLeft' < PassesLeft
    BY <1>1, <1>4, <1>6 DEF StagesLeft, PassesLeft,
                  BaselineLoop, CanaryLoop, WindowLoop
  <2> QED BY <2>1, FirstDecides
<1> QED BY <1>2, <1>5, <1>6

(* A window left is not entered again.                                     *)
LEMMA WindowEnds ==
  ASSUME MeasurementInv, pc \in {"fixed", "varied"}, LeaveWindow
  PROVE  Below(Left', Left)
<1>1. work \in SUBSET Windows /\ work # {} /\ Window \in work
  BY WindowType DEF MeasurementInv, TypeOK, LoopsInBounds
<1>2. Cardinality(work') < Cardinality(work)
  <2>1. Cardinality(work') = Cardinality(work) - 1 /\ Cardinality(work) \in Nat
    BY <1>1, WorkIsFinite, FS_RemoveElement, FS_CardinalityType DEF LeaveWindow
  <2> QED BY <2>1
<1>3. StagesLeft' = StagesLeft
  BY DEF StagesLeft, LeaveWindow, BaselineLoop, CanaryLoop, WindowLoop
<1>4. PassesLeft' < PassesLeft
  <2>1. PassesLeft' = Cardinality(work') /\ PassesLeft = Cardinality(work)
    BY DEF PassesLeft, LeaveWindow, BaselineLoop, CanaryLoop, WindowLoop
  <2> QED BY <1>2, <2>1
<1> QED BY <1>3, <1>4, FirstDecides

(* Steps from one part of a pass to the next.                              *)
LEMMA PartEnds ==
  ASSUME MeasurementInv, BeginRound \/ BeginCanary \/ EnterWindow \/ BeginVaried
  PROVE  Below(Left', Left)
<1>1. StagesLeft' = StagesLeft /\ PassesLeft' = PassesLeft
  BY DEF BeginRound, BeginCanary, EnterWindow, BeginVaried, sweepVars,
     StagesLeft, PassesLeft, BaselineLoop, CanaryLoop, WindowLoop
<1>2. PartsLeft' < PartsLeft
  <2>1. \/ pc = "window" /\ pc' = "fixed"
        \/ pc \in {"round", "canary", "fixed"} /\ pc' \in {"sweep", "canarySweep", "varied"}
    BY DEF BeginRound, BeginCanary, EnterWindow, BeginVaried
  <2>2. CASE pc = "window" /\ pc' = "fixed"
    BY <2>2 DEF PartsLeft
  <2>3. CASE /\ pc \in {"round", "canary", "fixed"}
             /\ pc' \in {"sweep", "canarySweep", "varied"}
    BY <2>3 DEF PartsLeft
  <2> QED BY <2>1, <2>2, <2>3
<1> QED BY <1>1, <1>2, FirstDecides

(* A sample leaves less of its window.                                     *)
LEMMA SampleLeavesLess ==
  ASSUME MeasurementInv, FixedSample \/ VariedSamples PROVE Below(Left', Left)
<1>1. pc' = pc /\ work' = work /\ pc \in {"fixed", "varied"}
  BY DEF FixedSample, VariedSamples
<1>2. StagesLeft' = StagesLeft /\ PassesLeft' = PassesLeft /\ PartsLeft' = PartsLeft
  BY <1>1 DEF StagesLeft, PassesLeft, PartsLeft, BaselineLoop, CanaryLoop, WindowLoop
<1>3. InnerLeft' < InnerLeft
  <2>1. CASE FixedSample
    <3>1. fixedLeft \in Nat
      BY DEF MeasurementInv, TypeOK
    <3> QED BY <2>1, <3>1 DEF FixedSample, InnerLeft
  <2>2. CASE VariedSamples
    <3> DEFINE n == VariedCount
    <3>1. pc = "varied" /\ nextVariant <= Required /\ n > 0 /\ nextVariant' = nextVariant + n
      BY <2>2 DEF VariedSamples
    <3>2. n \in Int /\ nextVariant \in Nat /\ Required \in Nat
      BY <3>1, VariedCountType, ConfigAssumption
    <3> HIDE DEF n
    <3>3. InnerLeft = Required + 1 - nextVariant
      BY <3>1 DEF InnerLeft
    <3>4. InnerLeft' = IF nextVariant' <= Required THEN Required + 1 - nextVariant' ELSE 0
      BY <1>1, <3>1 DEF InnerLeft
    <3> QED BY <3>1, <3>2, <3>3, <3>4
  <2> QED BY <2>1, <2>2
<1> QED BY <1>2, <1>3, FirstDecides

(* A token drawn is one fewer to draw.                                     *)
LEMMA DrawLeavesLess ==
  ASSUME MeasurementInv, DrawToken PROVE Below(Left', Left)
<1>1. /\ pc = "varied" /\ pc' = pc /\ work' = work /\ obs' = obs
      /\ nextVariant' = nextVariant /\ fixedLeft' = fixedLeft /\ Tokenless # {}
  BY DEF DrawToken, ledger, capVars
<1>2. /\ StagesLeft' = StagesLeft /\ PassesLeft' = PassesLeft
      /\ PartsLeft' = PartsLeft /\ InnerLeft' = InnerLeft
  BY <1>1 DEF StagesLeft, PassesLeft, PartsLeft, InnerLeft,
              BaselineLoop, CanaryLoop, WindowLoop
<1>3. Min(Tokenless) \in Tokenless
  BY <1>1, TokenlessIsFinite, MinOfNats
<1>4. DOMAIN tokens' = DOMAIN tokens \cup {Min(Tokenless)}
  BY DEF DrawToken, Cached
<1>5. VariedBatch' = VariedBatch
  BY <1>1 DEF VariedBatch, VariedCount, Remaining, Window
<1>6. Tokenless' = Tokenless \ {Min(Tokenless)}
  BY <1>4, <1>5 DEF Tokenless
<1>7. Cardinality(Tokenless') < Cardinality(Tokenless)
  <2>1. Cardinality(Tokenless') = Cardinality(Tokenless) - 1
    BY <1>1, <1>3, <1>6, TokenlessIsFinite, FS_RemoveElement
  <2> QED BY <1>1, <2>1, TokenlessIsFinite
<1>8. DrawsLeft' < DrawsLeft
  <2>1. DrawsLeft' = Cardinality(Tokenless') /\ DrawsLeft = Cardinality(Tokenless)
    BY <1>1 DEF DrawsLeft
  <2> QED BY <1>7, <2>1
<1> QED BY <1>2, <1>8, FirstDecides

(* Every step of a measurement leaves less.                                *)
LEMMA NextLeavesLess ==
  ASSUME MeasurementInv, Next PROVE Below(Left', Left)
<1>1. CASE FixedRefused \/ FixedOnlyDone \/ VariedExhausted \/ VariedDone
  BY <1>1, WindowEnds DEF FixedRefused, FixedOnlyDone, VariedExhausted, VariedDone
<1> QED BY <1>1, StageEnds, SweepLeavesLess, CanaryLeavesLess, PartEnds,
           SampleLeavesLess, DrawLeavesLess DEF Next, Proceed

(* No loop of run() goes on for ever, whatever the network answers: each   *)
(* step, also an interrupt or a failure, makes a tuple of five natural     *)
(* numbers smaller in lexicographic order.                                 *)
THEOREM MeasurementRunsOut == Spec => StepsRunOut
<1>1. Init => CanariesCounted
  BY ConfigAssumption DEF Init, CanariesCounted
<1>2. MeasurementInv /\ CanariesCounted /\ [Next]_vars => CanariesCounted'
  BY CanariesCountedStep
<1>3. MeasurementInv /\ CanariesCounted /\ [Next]_vars => [LeavesLess]_vars
  BY LeftIsCounted, NextLeavesLess DEF LeavesLess
<1> QED BY <1>1, <1>2, <1>3, MeasurementIsInvariant, PTL DEF Spec, StepsRunOut

=============================================================================
