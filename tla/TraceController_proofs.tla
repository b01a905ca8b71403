----------------------- MODULE TraceController_proofs -----------------------
(***************************************************************************)
(* MeasurementInv is an inductive invariant of the controller.  From it    *)
(* follow, for every configuration and every network: type correctness,    *)
(* the probe budget, the coherence of samples, that no probe follows the   *)
(* kernel control, and that the controller implements BoundedMeasurement.  *)
(***************************************************************************)
EXTENDS TraceProperties, EvidenceLemmas

-----------------------------------------------------------------------------
(* Replies and batches.                                                    *)

(* A chunk begins where it should and ends within the sweep.               *)
LEMMA ChunkStopBounds ==
  ASSUME NEW from \in TTLs, NEW last \in TTLs, from <= last
  PROVE  /\ ChunkStop(from, last) \in from..last
         /\ from..ChunkStop(from, last) \in SUBSET TTLs
<1>1. from \in Int /\ last \in Int /\ ChunkSize \in Nat \ {0} /\ MaxHops \in Nat
  BY ConfigAssumption DEF TTLs
<1>2. ChunkStop(from, last) =
        IF from + ChunkSize - 1 <= last THEN from + ChunkSize - 1 ELSE last
  BY <1>1, MinOfTwo DEF ChunkStop
<1>3. ChunkStop(from, last) \in from..last
  BY <1>1, <1>2
<1> QED BY <1>1, <1>3 DEF TTLs

(* The network answers each probe of a batch with an outcome.              *)
LEMMA RepliesType ==
  ASSUME TypeOK,
         NEW P \in SUBSET Specs,
         \A p \in P : p.variant = 0 \/ p.variant \in DOMAIN tokens,
         NEW reply \in Replies(P)
  PROVE  reply \in [P -> Outcomes]
<1>1. \A p \in P : PossibleAnswers(p) \in (SUBSET Outcomes) \ {{}}
  <2> TAKE p \in P
  <2>1. TokenOf(p) \in FlowTokens
    BY DEF TypeOK, TokenOf, FlowTokens
  <2>2. p.ttl \in TTLs
    BY DEF Specs
  <2>3. net \in [TTLs \X FlowTokens -> (SUBSET Outcomes) \ {{}}]
    BY NetworkAssumption DEF TypeOK
  <2> QED BY <2>1, <2>2, <2>3 DEF PossibleAnswers
<1> DEFINE loose == {p \in P : Cardinality(PossibleAnswers(p)) > 1}
           draws == {d \in [loose -> UNION {PossibleAnswers(p) : p \in loose}] :
                       \A p \in loose : d[p] \in PossibleAnswers(p)}
<1>2. PICK d \in draws :
        reply = [p \in P |-> IF p \in loose THEN d[p]
                             ELSE CHOOSE o \in PossibleAnswers(p) : TRUE]
  BY DEF Replies
<1>3. \A p \in P : reply[p] \in PossibleAnswers(p)
  <2> TAKE p \in P
  <2>1. CASE p \in loose
    <3>1. d[p] \in PossibleAnswers(p)
      BY <2>1
    <3> HIDE DEF draws, loose
    <3> QED BY <1>2, <2>1, <3>1
  <2>2. CASE p \notin loose
    <3>1. (CHOOSE o \in PossibleAnswers(p) : TRUE) \in PossibleAnswers(p)
      BY <1>1
    <3> HIDE DEF draws, loose
    <3> QED BY <1>2, <2>2, <3>1
  <2> QED BY <2>1, <2>2
<1>4. \A p \in P : reply[p] \in Outcomes
  BY <1>1, <1>3
<1> HIDE DEF draws, loose
<1> QED BY <1>2, <1>4

(* Delivering a batch of new probes that fits keeps the ledger exact.      *)
LEMMA DeliverFacts ==
  ASSUME MeasurementInv, pc \in TryStages,
         NEW P \in SUBSET Specs, IsFiniteSet(P), Fits(P),
         NEW reply \in [P -> Outcomes], NEW c, Deliver(P, reply, c),
         \A p \in P, o \in obs : o.sample = p.sample =>
           o.ttl # p.ttl /\ o.variant = p.variant /\ o.phase = p.phase,
         \A p, q \in P : p.sample = q.sample => p.variant = q.variant /\ p.phase = q.phase
  PROVE  /\ obs' \subseteq Observed /\ IsFiniteSet(obs')
         /\ sent' \in Nat /\ Cardinality(P) \in Nat
         /\ sent' = sent + Cardinality(P)
         /\ Cardinality(obs') = Cardinality(obs) + Cardinality(P)
         /\ sent' = Cardinality(obs')
         /\ sent' <= MaxProbes
         /\ SamplesCoherent'
<1> DEFINE R == Received(P, reply)
<1>1. /\ R \in SUBSET Observed /\ IsFiniteSet(R)
      /\ Cardinality(R) = Cardinality(P)
  BY ReceivedType
<1>2. /\ obs \subseteq Observed /\ IsFiniteSet(obs)
      /\ sent \in Nat /\ sent = Cardinality(obs)
  BY DEF MeasurementInv, TypeOK, EveryProbeRecorded
<1>3. obs' = obs \cup R /\ sent' = sent + Cardinality(P)
  BY DEF Deliver
<1>4. \A g \in R : \E p \in P : /\ g.sample = p.sample /\ g.ttl = p.ttl
                               /\ g.variant = p.variant /\ g.phase = p.phase
  BY DEF Received
<1>5. obs \cap R = {}
  BY <1>4
<1>6. Cardinality(P) \in Nat /\ Cardinality(obs) \in Nat
  BY <1>2, FS_CardinalityType
<1>7. /\ IsFiniteSet(obs \cup R)
      /\ Cardinality(obs \cup R) = Cardinality(obs) + Cardinality(P)
  <2>1. Cardinality(obs \cap R) = 0
    BY <1>5, FS_EmptySet
  <2> HIDE DEF R
  <2>2. /\ IsFiniteSet(obs \cup R)
        /\ Cardinality(obs \cup R) = Cardinality(obs) + Cardinality(R) - Cardinality(obs \cap R)
    BY <1>1, <1>2, FS_Union
  <2> QED BY <2>1, <2>2, <1>1, <1>6
<1>8. sent + Cardinality(P) <= MaxProbes
  BY <1>2, <1>6, ConfigAssumption DEF Fits, Remaining
<1>9. SamplesCoherent'
  <2>1. SUFFICES ASSUME NEW a \in obs \cup R, NEW b \in obs \cup R, a.sample = b.sample
                 PROVE  /\ a.variant = b.variant /\ a.phase = b.phase
                        /\ a.ttl = b.ttl => a = b
    BY <1>3 DEF SamplesCoherent
  <2>2. CASE a \in obs /\ b \in obs
    BY <2>1, <2>2 DEF MeasurementInv, SamplesCoherent
  <2>3. CASE a \in obs /\ b \in R
    BY <2>1, <2>3, <1>4
  <2>4. CASE a \in R /\ b \in obs
    BY <2>1, <2>4, <1>4
  <2>5. CASE a \in R /\ b \in R
    <3>1. PICK p \in P : a = [ttl |-> p.ttl, variant |-> p.variant, phase |-> p.phase,
                              sample |-> p.sample, kind |-> reply[p].kind,
                              who |-> reply[p].who, mut |-> reply[p].mut]
      BY <2>5 DEF Received
    <3>2. PICK q \in P : b = [ttl |-> q.ttl, variant |-> q.variant, phase |-> q.phase,
                              sample |-> q.sample, kind |-> reply[q].kind,
                              who |-> reply[q].who, mut |-> reply[q].mut]
      BY <2>5 DEF Received
    <3>3. p.sample = q.sample
      BY <2>1, <3>1, <3>2
    <3>4. p.variant = q.variant /\ p.phase = q.phase
      BY <3>3
    <3>5. p.ttl = q.ttl => p = q
      BY <3>3, <3>4 DEF Specs
    <3> QED BY <3>1, <3>2, <3>4, <3>5
  <2> QED BY <2>2, <2>3, <2>4, <2>5
<1> HIDE DEF R
<1> QED BY <1>1, <1>2, <1>3, <1>6, <1>7, <1>8, <1>9

-----------------------------------------------------------------------------
(* The batches the controller sends.                                       *)

(* A batch is new: its probes are well formed, their flows are drawn, and  *)
(* no observation has the sample and the TTL of one of them.               *)
NewBatch(P) ==
  /\ P \in SUBSET Specs /\ IsFiniteSet(P)
  /\ \A p \in P : p.variant = 0 \/ p.variant \in DOMAIN tokens
  /\ \A p \in P, o \in obs : o.sample = p.sample =>
       o.ttl # p.ttl /\ o.variant = p.variant /\ o.phase = p.phase
  /\ \A p, q \in P : p.sample = q.sample => p.variant = q.variant /\ p.phase = q.phase

(* A chunk of a sweep is new.                                              *)
LEMMA SweepBatch ==
  ASSUME MeasurementInv, pc = "sweep"
  PROVE  /\ NewBatch(SweepSpecs)
         /\ \A p \in SweepSpecs : /\ p.sample = LastSample /\ p.variant = 0
                                  /\ p.phase = "baseline-fixed"
                                  /\ p.ttl \in start..ChunkStop(start, sweepLimit)
         /\ ChunkStop(start, sweepLimit) \in start..sweepLimit
         /\ sweepLimit \in TTLs
<1>1. start \in TTLs /\ sweepLimit \in TTLs /\ start <= sweepLimit
  BY DEF MeasurementInv, TypeOK, LoopsInBounds, OrZero, TTLs
<1>2. /\ ChunkStop(start, sweepLimit) \in start..sweepLimit
      /\ start..ChunkStop(start, sweepLimit) \in SUBSET TTLs
  BY <1>1, ChunkStopBounds
<1>3. LastSample \in Nat /\ 0 \in Variants
  BY DEF MeasurementInv, TypeOK, LastSample, Variants
<1>4. SweepSpecs \in SUBSET Specs /\ IsFiniteSet(SweepSpecs)
  BY <1>2, <1>3, BundleType DEF SweepSpecs, Phases
<1>5. \A p \in SweepSpecs : /\ p.sample = LastSample /\ p.variant = 0
                            /\ p.phase = "baseline-fixed"
                            /\ p.ttl \in start..ChunkStop(start, sweepLimit)
  BY DEF SweepSpecs, Bundle
<1>6. \A o \in obs : o.sample = LastSample =>
        o.ttl < start /\ o.variant = 0 /\ o.phase = "baseline-fixed"
  BY DEF MeasurementInv, SweepUnderWay
<1>7. \A p \in SweepSpecs, o \in obs : o.sample = p.sample =>
        o.ttl # p.ttl /\ o.variant = p.variant /\ o.phase = p.phase
  BY <1>1, <1>2, <1>5, <1>6 DEF TTLs
<1> QED BY <1>1, <1>2, <1>4, <1>5, <1>7 DEF NewBatch

(* A chunk of a canary sweep is new.                                       *)
LEMMA CanaryBatch ==
  ASSUME MeasurementInv, pc = "canarySweep"
  PROVE  /\ NewBatch(CanarySpecs)
         /\ \A p \in CanarySpecs : /\ p.sample = LastSample /\ p.variant = canary
                                   /\ p.phase = "canary-varied"
                                   /\ p.ttl \in start..ChunkStop(start, limit)
         /\ ChunkStop(start, limit) \in start..limit
         /\ limit \in TTLs
<1>1. start \in TTLs /\ limit \in TTLs /\ start <= limit /\ canary \in DOMAIN tokens
  BY DEF MeasurementInv, TypeOK, LoopsInBounds
<1>2. /\ ChunkStop(start, limit) \in start..limit
      /\ start..ChunkStop(start, limit) \in SUBSET TTLs
  BY <1>1, ChunkStopBounds
<1>3. LastSample \in Nat /\ canary \in Variants
  BY DEF MeasurementInv, TypeOK, LastSample, Variants
<1>4. CanarySpecs \in SUBSET Specs /\ IsFiniteSet(CanarySpecs)
  BY <1>2, <1>3, BundleType DEF CanarySpecs, Phases
<1>5. \A p \in CanarySpecs : /\ p.sample = LastSample /\ p.variant = canary
                             /\ p.phase = "canary-varied"
                             /\ p.ttl \in start..ChunkStop(start, limit)
  BY DEF CanarySpecs, Bundle
<1>6. \A o \in obs : o.sample = LastSample =>
        o.ttl < start /\ o.variant = canary /\ o.phase = "canary-varied"
  BY DEF MeasurementInv, SweepUnderWay
<1>7. \A p \in CanarySpecs, o \in obs : o.sample = p.sample =>
        o.ttl # p.ttl /\ o.variant = p.variant /\ o.phase = p.phase
  BY <1>1, <1>2, <1>5, <1>6 DEF TTLs
<1> QED BY <1>1, <1>2, <1>4, <1>5, <1>7 DEF NewBatch

(* The window being worked, while there is one.                            *)
LEMMA WindowType ==
  ASSUME MeasurementInv, work # {}
  PROVE  /\ Window \in work
         /\ Window.ttls \in (SUBSET TTLs) \ {{}} /\ Window.variant \in BOOLEAN
<1>1. work \in SUBSET Windows
  BY DEF MeasurementInv, TypeOK
<1>2. Window \in work
  BY <1>1, NextWindowType DEF Window
<1> QED BY <1>1, <1>2 DEF Windows

(* A fixed sample of a window is new.                                      *)
LEMMA FixedBatch ==
  ASSUME MeasurementInv, pc = "fixed"
  PROVE  /\ NewBatch(FixedSpecs)
         /\ \A p \in FixedSpecs : p.sample = nextSample
<1>1. work # {}
  BY DEF MeasurementInv, LoopsInBounds
<1>2. Window.ttls \in SUBSET TTLs
  BY <1>1, WindowType
<1>3. nextSample \in Nat /\ 0 \in Variants
  BY DEF MeasurementInv, TypeOK, Variants
<1>4. FixedSpecs \in SUBSET Specs /\ IsFiniteSet(FixedSpecs)
  BY <1>2, <1>3, BundleType DEF FixedSpecs, Phases
<1>5. \A p \in FixedSpecs : /\ p.sample = nextSample /\ p.variant = 0
                            /\ p.phase = "dbp-fixed"
  BY DEF FixedSpecs, Bundle
<1>6. \A o \in obs : o.sample \in Nat /\ o.sample < nextSample
  BY DEF MeasurementInv, TypeOK, SamplesOlder, Observed
<1>7. \A o \in obs : o.sample # nextSample
  BY <1>3, <1>6
<1> QED BY <1>4, <1>5, <1>7 DEF NewBatch

(* A quotient, multiplied again, stays within the dividend.                *)
LEMMA QuotientFits ==
  ASSUME NEW a \in Nat, NEW k \in Nat \ {0}, NEW n \in Nat, n <= a \div k
  PROVE  n * k <= a
<1>1. a \div k \in Nat /\ k * (a \div k) + (a % k) = a /\ a % k \in Nat
  OBVIOUS
<1>2. n * k <= k * (a \div k)
  BY <1>1
<1> QED BY <1>1, <1>2

(* How many variants a batch takes.                                        *)
LEMMA VariedCountType ==
  ASSUME MeasurementInv, pc = "varied"
  PROVE  /\ VariedCount \in Int
         /\ Remaining \in Nat
         /\ Cardinality(Window.ttls) \in Nat \ {0}
         /\ VariedCount <= Remaining \div Cardinality(Window.ttls)
         /\ nextVariant \in Nat \ {0}
<1>1. work # {} /\ nextVariant \in Nat \ {0}
  BY DEF MeasurementInv, LoopsInBounds, TypeOK
<1>2. Cardinality(Window.ttls) \in Nat \ {0}
  <2>1. Window.ttls \in SUBSET TTLs /\ Window.ttls # {}
    BY <1>1, WindowType
  <2> QED BY <2>1, TtlsAreFinite, FS_EmptySet
<1>3. Remaining \in Nat
  <2>1. Cardinality(obs) \in Nat
    BY FS_CardinalityType DEF MeasurementInv, TypeOK
  <2>2. sent \in Nat /\ Cardinality(obs) <= sent /\ sent <= MaxProbes
    BY DEF MeasurementInv, TypeOK, BudgetRespected
  <2> QED BY <2>1, <2>2, ConfigAssumption DEF Remaining
<1>4. Remaining \div Cardinality(Window.ttls) \in Int
  BY <1>2, <1>3
<1>5. AdaptiveBatch \in Int /\ Required - nextVariant + 1 \in Int
  BY <1>1, ConfigAssumption
<1> QED BY <1>1, <1>2, <1>3, <1>4, <1>5, MinOfThree DEF VariedCount

(* A batch of variants is new, and cut to what the budget can hold.        *)
LEMMA VariedBatchIsNew ==
  ASSUME MeasurementInv, pc = "varied", VariedCount > 0, Tokenless = {}
  PROVE  /\ NewBatch(VariedSpecs) /\ Fits(VariedSpecs)
         /\ \A p \in VariedSpecs : p.sample \in nextSample..(nextSample + VariedCount - 1)
<1> DEFINE ttls == Window.ttls
           pairs == VariedBatch \X ttls
           probe(v, t) == [ttl |-> t, variant |-> v, phase |-> "dbp-varied",
                           sample |-> nextSample + (v - nextVariant)]
           f == [x \in pairs |-> probe(x[1], x[2])]
<1>1. /\ VariedCount \in Nat /\ Remaining \in Nat /\ nextVariant \in Nat \ {0}
      /\ Cardinality(ttls) \in Nat \ {0} /\ nextSample \in Nat
      /\ VariedCount <= Remaining \div Cardinality(ttls)
  BY VariedCountType DEF MeasurementInv, TypeOK
<1>2. ttls \in SUBSET TTLs
  BY WindowType DEF MeasurementInv, LoopsInBounds
<1>3. \A v \in VariedBatch : /\ v \in Nat \ {0}
                             /\ v - nextVariant \in 0..(VariedCount - 1)
  BY <1>1 DEF VariedBatch
<1>4. \A v \in VariedBatch : v \in DOMAIN tokens
  BY DEF Tokenless
<1>5. \A p \in VariedSpecs : \E v \in VariedBatch, t \in ttls : p = probe(v, t)
  BY DEF VariedSpecs, Bundle
<1>6. \A v \in VariedBatch, t \in ttls : probe(v, t) \in VariedSpecs
  BY DEF VariedSpecs, Bundle
<1>7. \A v \in VariedBatch, t \in ttls : probe(v, t) \in Specs
  BY <1>1, <1>2, <1>3 DEF Specs, Phases, Variants
<1>8. f \in Surjection(pairs, VariedSpecs)
  <2>1. f \in [pairs -> VariedSpecs]
    BY <1>6
  <2>2. \A p \in VariedSpecs : \E x \in pairs : f[x] = p
    <3> TAKE p \in VariedSpecs
    <3>1. PICK v \in VariedBatch, t \in ttls : p = probe(v, t)
      BY <1>5
    <3> WITNESS <<v, t>> \in pairs
    <3> QED BY <3>1
  <2> HIDE DEF f, pairs
  <2> QED BY <2>1, <2>2 DEF Surjection
<1>9. /\ IsFiniteSet(pairs)
      /\ Cardinality(pairs) = VariedCount * Cardinality(ttls)
  <2>1. IsFiniteSet(ttls)
    BY <1>2, TtlsAreFinite
  <2>2. IsFiniteSet(VariedBatch) /\ Cardinality(VariedBatch) = VariedCount
    <3> DEFINE top == nextVariant + VariedCount - 1
    <3>1. nextVariant \in Int /\ top \in Int
      BY <1>1
    <3>2. /\ IsFiniteSet(nextVariant..top)
          /\ Cardinality(nextVariant..top) = IF nextVariant > top THEN 0
                                             ELSE top - nextVariant + 1
      <4> HIDE DEF top
      <4> QED BY <3>1, FS_Interval
    <3>3. (IF nextVariant > top THEN 0 ELSE top - nextVariant + 1) = VariedCount
      BY <1>1
    <3> QED BY <3>2, <3>3 DEF VariedBatch
  <2> HIDE DEF ttls
  <2> QED BY <2>1, <2>2, FS_Product
<1>10. IsFiniteSet(VariedSpecs) /\ Cardinality(VariedSpecs) <= Cardinality(pairs)
  <2> HIDE DEF f, pairs
  <2> QED BY <1>8, <1>9, FS_Surjection
<1>11. Fits(VariedSpecs)
  <2>1. VariedCount * Cardinality(ttls) <= Remaining
    <3> HIDE DEF ttls
    <3> QED BY <1>1, QuotientFits
  <2>2. Cardinality(VariedSpecs) \in Nat
    BY <1>10, FS_CardinalityType
  <2>3. Cardinality(VariedSpecs) <= VariedCount * Cardinality(ttls)
    BY <1>9, <1>10
  <2>4. VariedCount * Cardinality(ttls) \in Int
    BY <1>1
  <2> HIDE DEF ttls
  <2> QED BY <1>1, <2>1, <2>2, <2>3, <2>4 DEF Fits
<1>12. \A p \in VariedSpecs : /\ p.variant \in VariedBatch
                              /\ p.sample = nextSample + (p.variant - nextVariant)
                              /\ p.phase = "dbp-varied"
  BY <1>5
<1>13. \A p \in VariedSpecs : p.sample \in nextSample..(nextSample + VariedCount - 1)
  BY <1>1, <1>3, <1>12
<1>14. \A p \in VariedSpecs, o \in obs : o.sample # p.sample
  <2>1. \A o \in obs : o.sample \in Nat /\ o.sample < nextSample
    BY DEF MeasurementInv, TypeOK, SamplesOlder, Observed
  <2> QED BY <1>1, <1>13, <2>1
<1>15. \A p, q \in VariedSpecs : p.sample = q.sample =>
         p.variant = q.variant /\ p.phase = q.phase
  <2> TAKE p \in VariedSpecs, q \in VariedSpecs
  <2>1. p.variant \in Nat /\ q.variant \in Nat /\ p.phase = q.phase
    BY <1>3, <1>12
  <2>2. /\ p.sample = nextSample + (p.variant - nextVariant)
        /\ q.sample = nextSample + (q.variant - nextVariant)
    BY <1>12
  <2>3. nextSample \in Nat /\ nextVariant \in Nat
    BY <1>1
  <2>4. \A x, y \in Nat : nextSample + (x - nextVariant) = nextSample + (y - nextVariant)
                          => x = y
    BY <2>3
  <2>5. p.sample = q.sample => p.variant = q.variant
    BY <2>1, <2>2, <2>4, Zenon
  <2> QED BY <2>1, <2>5
<1>16. VariedSpecs \in SUBSET Specs
  BY <1>5, <1>7
<1> QED BY <1>4, <1>10, <1>11, <1>12, <1>13, <1>14, <1>15, <1>16 DEF NewBatch

(* What may be in flight when a measurement is cut short is a new batch    *)
(* that fits.                                                              *)
LEMMA InFlightIsNew ==
  ASSUME MeasurementInv
  PROVE  /\ NewBatch(InFlight) /\ Fits(InFlight)
         /\ pc = "sweep" => InFlight \in SUBSET SweepSpecs
         /\ pc = "canarySweep" => InFlight \in SUBSET CanarySpecs
         /\ InFlight # {} => pc \in {"sweep", "canarySweep", "fixed", "varied"}
<1>1. NewBatch({}) /\ Fits({})
  <2>1. Cardinality(obs) \in Nat /\ Cardinality(obs) <= MaxProbes
    BY FS_CardinalityType, ConfigAssumption DEF MeasurementInv, TypeOK, BudgetRespected
  <2>2. IsFiniteSet({}) /\ Cardinality({}) = 0
    BY FS_EmptySet
  <2> QED BY <2>1, <2>2, ConfigAssumption DEF NewBatch, Fits, Remaining
<1>2. CASE pc = "sweep"
  BY <1>1, <1>2, SweepBatch DEF InFlight
<1>3. CASE pc = "canarySweep"
  BY <1>1, <1>3, CanaryBatch DEF InFlight
<1>4. CASE pc = "fixed"
  BY <1>1, <1>4, FixedBatch DEF InFlight
<1>5. CASE pc = "varied"
  BY <1>1, <1>5, VariedBatchIsNew DEF InFlight
<1>6. CASE pc \notin {"sweep", "canarySweep", "fixed", "varied"}
  BY <1>1, <1>6 DEF InFlight
<1> QED BY <1>2, <1>3, <1>4, <1>5, <1>6

-----------------------------------------------------------------------------
(* Two kinds of steps.                                                     *)

(* A step that sends nothing preserves the invariant when it keeps the     *)
(* types and the loops in bounds, and begins a sweep only with a sample id *)
(* of its own.                                                             *)
LEMMA QuietStep ==
  ASSUME MeasurementInv, TypeOK', LoopsInBounds',
         pc \in TryStages, obs' = obs, sent' = sent,
         nextSample' \in {nextSample, nextSample + 1},
         pc' \in {"sweep", "canarySweep"} => nextSample' = nextSample + 1
  PROVE  MeasurementInv'
<1>1. nextSample \in Nat /\ \A o \in obs : o.sample \in Nat /\ o.sample < nextSample
  BY DEF MeasurementInv, TypeOK, SamplesOlder, Observed
<1>2. SamplesOlder'
  BY <1>1 DEF SamplesOlder
<1>3. SweepUnderWay'
  BY <1>1 DEF SweepUnderWay, LastSample
<1>4. SamplesCoherent' /\ BudgetRespected'
  BY DEF MeasurementInv, SamplesCoherent, BudgetRespected
<1>5. EveryProbeRecorded'
  BY DEF MeasurementInv, EveryProbeRecorded
<1> QED BY <1>2, <1>3, <1>4, <1>5 DEF MeasurementInv

(* Handing a new batch that fits to the network keeps the ledger exact.    *)
LEMMA SendLedger ==
  ASSUME MeasurementInv, pc \in TryStages,
         NEW P, NewBatch(P), Fits(P),
         NEW reply \in Replies(P), NEW c, Deliver(P, reply, c)
  PROVE  /\ obs' = obs \cup Received(P, reply)
         /\ obs' \subseteq Observed /\ IsFiniteSet(obs')
         /\ Received(P, reply) \in SUBSET Observed
         /\ sent' \in Nat /\ Cardinality(P) \in Nat
         /\ sent' = Cardinality(obs') /\ sent' <= MaxProbes
         /\ sent' = sent + Cardinality(P)
         /\ SamplesCoherent'
<1>1. /\ P \in SUBSET Specs /\ IsFiniteSet(P)
      /\ \A p \in P : p.variant = 0 \/ p.variant \in DOMAIN tokens
      /\ \A p \in P, o \in obs : o.sample = p.sample =>
           o.ttl # p.ttl /\ o.variant = p.variant /\ o.phase = p.phase
      /\ \A p, q \in P : p.sample = q.sample => p.variant = q.variant /\ p.phase = q.phase
  BY DEF NewBatch
<1>2. reply \in [P -> Outcomes]
  BY <1>1, RepliesType DEF MeasurementInv
<1>3. obs' = obs \cup Received(P, reply)
  BY DEF Deliver
<1>4. Received(P, reply) \in SUBSET Observed
  BY <1>1, <1>2, ReceivedType
<1>5. /\ obs' \subseteq Observed /\ IsFiniteSet(obs')
      /\ sent' \in Nat /\ Cardinality(P) \in Nat
      /\ sent' = Cardinality(obs') /\ sent' <= MaxProbes
      /\ sent' = sent + Cardinality(P)
      /\ SamplesCoherent'
  BY <1>1, <1>2, DeliverFacts
<1> QED BY <1>3, <1>4, <1>5

(* A step that delivers a batch preserves the invariant when it keeps the  *)
(* types, the loops in bounds and the sweep ahead of what it has probed,   *)
(* and the sample ids it used are spent.                                   *)
LEMMA SendStep ==
  ASSUME MeasurementInv, pc \in TryStages,
         NEW P, NewBatch(P), Fits(P),
         NEW reply \in Replies(P), NEW c, Deliver(P, reply, c),
         TypeOK', LoopsInBounds', SweepUnderWay',
         nextSample' >= nextSample, \A p \in P : p.sample < nextSample'
  PROVE  MeasurementInv'
<1>1. /\ obs' = obs \cup Received(P, reply)
      /\ sent' = Cardinality(obs') /\ sent' <= MaxProbes /\ SamplesCoherent'
      /\ sent' \in Nat
  BY SendLedger
<1>2. SamplesOlder'
  <2>1. \A o \in obs : o.sample \in Nat /\ o.sample < nextSample
    BY DEF MeasurementInv, TypeOK, SamplesOlder, Observed
  <2>2. nextSample \in Nat /\ nextSample' \in Nat
    BY DEF MeasurementInv, TypeOK
  <2>3. \A g \in Received(P, reply) : g.sample < nextSample'
    BY DEF Received
  <2> QED BY <1>1, <2>1, <2>2, <2>3 DEF SamplesOlder
<1>3. EveryProbeRecorded' /\ BudgetRespected'
  BY <1>1 DEF EveryProbeRecorded, BudgetRespected
<1> QED BY <1>1, <1>2, <1>3 DEF MeasurementInv

-----------------------------------------------------------------------------
(* The sweeps preserve the invariant.                                      *)

(* A round begins at TTL 1, with a reach that is a TTL.                    *)
LEMMA BeginRoundStep ==
  ASSUME MeasurementInv, BeginRound PROVE MeasurementInv'
<1>1. SweepReach \in TTLs
  <2>1. LastObservedTtl(obs) \in OrZero(TTLs)
    BY AnalysisLimitType DEF MeasurementInv, TypeOK, OrZero
  <2>2. terminalTtl \in OrZero(TTLs)
    BY DEF MeasurementInv, TypeOK
  <2>3. MaxHops \in Nat \ {0} /\ TailGuard \in Nat
    BY ConfigAssumption
  <2>4. ASSUME LastObservedTtl(obs) # 0
        PROVE  Min({MaxHops, LastObservedTtl(obs) + TailGuard}) \in TTLs
    <3>1. LastObservedTtl(obs) \in 1..MaxHops
      BY <2>1, <2>4 DEF OrZero, TTLs
    <3>2. LastObservedTtl(obs) + TailGuard \in Int
      BY <2>3, <3>1
    <3> QED BY <2>3, <3>1, <3>2, MinOfTwo DEF TTLs
  <2>5. MaxHops \in TTLs
    BY <2>3 DEF TTLs
  <2> QED BY <2>2, <2>4, <2>5 DEF SweepReach, OrZero
<1>2. TypeOK'
  <2>1. 1 \in TTLs
    BY ConfigAssumption DEF TTLs
  <2> QED BY <1>1, <2>1
      DEF MeasurementInv, TypeOK, BeginRound, ledger, capVars, verdict, Stages, TryStages, OrZero
<1>3. LoopsInBounds'
  BY <1>1 DEF MeasurementInv, LoopsInBounds, BeginRound, TTLs
<1> QED BY <1>2, <1>3, QuietStep DEF BeginRound, TryStages, ledger

(* The budget ends the baseline.                                           *)
LEMMA SweepRefusedStep ==
  ASSUME MeasurementInv, SweepRefused PROVE MeasurementInv'
<1>1. TypeOK'
  BY DEF MeasurementInv, TypeOK, SweepRefused, Refuse, ledger, sweepVars, capVars,
         Stages, TryStages, WarningTags
<1>2. LoopsInBounds'
  BY DEF LoopsInBounds, SweepRefused
<1> QED BY <1>1, <1>2, QuietStep DEF SweepRefused, Refuse, TryStages, ledger

(* A chunk moves the sweep beyond the TTLs it probed.                      *)
LEMMA SweepChunkStep ==
  ASSUME MeasurementInv, SweepChunk PROVE MeasurementInv'
<1> DEFINE P == SweepSpecs
           stop == ChunkStop(start, sweepLimit)
           ends(r) == {o.ttl : o \in {x \in Received(P, r) : Terminal(x)}}
<1>1. /\ pc = "sweep" /\ Fits(P)
      /\ NewBatch(P)
      /\ stop \in start..sweepLimit /\ sweepLimit \in TTLs
      /\ \A p \in P : /\ p.sample = LastSample /\ p.variant = 0
                      /\ p.phase = "baseline-fixed" /\ p.ttl \in start..stop
  BY SweepBatch DEF SweepChunk
<1>2. PICK reply \in Replies(P) :
        /\ Deliver(P, reply, Cardinality(P))
        /\ terminalTtl' = IF ends(reply) = {} THEN terminalTtl
                          ELSE Min(ends(reply) \cup ({terminalTtl} \ {0}))
        /\ \/ warnings' = warnings
           \/ warnings' = warnings \cup {"no_response"}
        /\ \/ /\ stop # sweepLimit
              /\ start' = stop + 1 /\ pc' = pc /\ round' = round
           \/ /\ pc' \in {"limit", "round"}
              /\ pc' = "round" => round + 1 # BaselineRounds
              /\ round' = round + 1 /\ start' = start
  BY DEF SweepChunk
<1>3. /\ nextSample' = nextSample /\ sweepLimit' = sweepLimit /\ canary' = canary
      /\ net' = net /\ tokens' = tokens /\ limit' = limit
      /\ regions' = regions /\ work' = work /\ fixedLeft' = fixedLeft
      /\ nextVariant' = nextVariant
      /\ interrupted' = interrupted /\ control' = control
  BY DEF SweepChunk, capVars
<1>4. /\ obs' = obs \cup Received(P, reply)
      /\ obs' \subseteq Observed /\ IsFiniteSet(obs')
      /\ Received(P, reply) \in SUBSET Observed
      /\ sent' \in Nat /\ Cardinality(P) \in Nat
  BY <1>1, <1>2, SendLedger DEF TryStages
<1>5. baselineCount' \in Nat
  BY <1>2, <1>4 DEF Deliver, MeasurementInv, TypeOK
<1>6. terminalTtl' \in OrZero(TTLs)
  <2> DEFINE S == ends(reply) \cup ({terminalTtl} \ {0})
  <2>1. ends(reply) \in SUBSET TTLs
    BY <1>4 DEF Observed
  <2>2. terminalTtl \in OrZero(TTLs)
    BY DEF MeasurementInv, TypeOK
  <2>3. S \in SUBSET TTLs
    BY <2>1, <2>2 DEF OrZero
  <2>4. ends(reply) # {} => Min(S) \in TTLs
    <3>1. ends(reply) # {} => S # {}
      OBVIOUS
    <3> HIDE DEF S
    <3> QED BY <2>3, <3>1, ExtremeTtls
  <2> QED BY <1>2, <2>2, <2>4 DEF OrZero
<1>7. /\ start \in Nat /\ round \in Nat /\ round < BaselineRounds
      /\ BaselineRounds \in Nat /\ MaxHops \in Nat
  <2>1. start \in TTLs /\ round \in 0..BaselineRounds
    BY DEF MeasurementInv, TypeOK
  <2>2. round < BaselineRounds
    BY <1>1 DEF MeasurementInv, LoopsInBounds
  <2>3. BaselineRounds \in Nat /\ MaxHops \in Nat
    BY ConfigAssumption
  <2> QED BY <2>1, <2>2, <2>3 DEF TTLs
<1>8. start' \in TTLs /\ round' \in 0..BaselineRounds /\ pc' \in Stages
  <2>1. start \in TTLs
    BY DEF MeasurementInv, TypeOK
  <2> HIDE DEF P, stop, ends
  <2> QED BY <1>1, <1>2, <1>7, <2>1 DEF TTLs, Stages, TryStages
<1>9. TypeOK'
  <2>1. warnings' \subseteq WarningTags
    BY <1>2 DEF MeasurementInv, TypeOK, WarningTags
  <2> HIDE DEF P, stop, ends
  <2> QED BY <1>3, <1>4, <1>5, <1>6, <1>8, <2>1 DEF MeasurementInv, TypeOK
<1>10. LoopsInBounds'
  <2> HIDE DEF P, stop, ends
  <2> QED BY <1>1, <1>2, <1>3, <1>7 DEF LoopsInBounds, TTLs
<1>11. SweepUnderWay'
  <2>1. \A g \in Received(P, reply) : /\ g.ttl \in start..stop /\ g.variant = 0
                                     /\ g.phase = "baseline-fixed"
    BY <1>1 DEF Received
  <2>2. \A o \in obs : o.ttl \in TTLs /\ (o.sample = LastSample =>
          o.ttl < start /\ o.variant = 0 /\ o.phase = "baseline-fixed")
    BY <1>1 DEF MeasurementInv, TypeOK, SweepUnderWay, Observed
  <2>3. LastSample' = LastSample
    BY <1>3 DEF LastSample
  <2> SUFFICES ASSUME NEW o \in obs', o.sample = LastSample, pc' = "sweep"
               PROVE  o.ttl < start' /\ o.variant = 0 /\ o.phase = "baseline-fixed"
    <3> HIDE DEF P, stop, ends
    <3> QED BY <1>1, <1>2, <2>3 DEF SweepUnderWay
  <2>4. start' = stop + 1
    BY <1>1, <1>2
  <2> HIDE DEF P, stop, ends
  <2> QED BY <1>1, <1>4, <1>7, <2>1, <2>2, <2>4 DEF TTLs
<1>12. nextSample' >= nextSample /\ \A p \in P : p.sample < nextSample'
  BY <1>1, <1>3 DEF LastSample, MeasurementInv, TypeOK
<1> HIDE DEF P, stop, ends
<1> QED BY <1>1, <1>2, <1>9, <1>10, <1>11, <1>12, SendStep DEF TryStages

(* The limit is fixed inside the path.                                     *)
LEMMA FixLimitStep ==
  ASSUME MeasurementInv, FixLimit PROVE MeasurementInv'
<1>1. limit' \in TTLs
  BY AnalysisLimitType DEF FixLimit, MeasurementInv, TypeOK
<1>2. TypeOK'
  BY <1>1 DEF MeasurementInv, TypeOK, FixLimit, ledger, capVars, verdict,
              Stages, TryStages, OrZero
<1>3. LoopsInBounds'
  BY <1>1 DEF LoopsInBounds, FixLimit
<1> QED BY <1>2, <1>3, QuietStep DEF FixLimit, TryStages, ledger

(* Drawing a token for one more variant keeps the cache a function into    *)
(* the pool.                                                               *)
LEMMA CachedType ==
  ASSUME TypeOK, NEW v \in Nat \ {0}, NEW t \in FreshTokens, tokens' = Cached(v, t)
  PROVE  /\ tokens' \in [DOMAIN tokens' -> Tokens] /\ DOMAIN tokens' \subseteq Nat \ {0}
         /\ DOMAIN tokens' = DOMAIN tokens \cup {v}
<1>1. t \in Tokens
  BY DEF FreshTokens
<1>2. \A u \in DOMAIN tokens : tokens[u] \in Tokens
  BY DEF TypeOK
<1>3. DOMAIN tokens \subseteq Nat \ {0}
  BY DEF TypeOK
<1> QED BY <1>1, <1>2, <1>3 DEF Cached

(* A canary sweep begins at TTL 1, with a token and a sample of its own.   *)
LEMMA BeginCanaryStep ==
  ASSUME MeasurementInv, BeginCanary PROVE MeasurementInv'
<1>1. canary \in Nat \ {0} /\ limit \in TTLs
  BY DEF MeasurementInv, TypeOK, LoopsInBounds, BeginCanary
<1>2. /\ tokens' \in [DOMAIN tokens' -> Tokens] /\ DOMAIN tokens' \subseteq Nat \ {0}
      /\ canary \in DOMAIN tokens'
  BY <1>1, CachedType DEF BeginCanary, MeasurementInv
<1>3. TypeOK'
  <2>1. 1 \in TTLs
    BY ConfigAssumption DEF TTLs
  <2> QED BY <1>2, <2>1
      DEF MeasurementInv, TypeOK, BeginCanary, ledger, capVars, verdict, Stages, TryStages
<1>4. LoopsInBounds'
  BY <1>1, <1>2 DEF LoopsInBounds, BeginCanary, TTLs
<1> QED BY <1>3, <1>4, QuietStep DEF BeginCanary, TryStages, ledger

(* The canaries end without touching the evidence.                         *)
LEMMA CanariesDoneStep ==
  ASSUME MeasurementInv, CanariesDone PROVE MeasurementInv'
<1>1. TypeOK'
  BY DEF MeasurementInv, TypeOK, CanariesDone, ledger, sweepVars, capVars, verdict,
         Stages, TryStages
<1>2. LoopsInBounds'
  BY DEF MeasurementInv, LoopsInBounds, CanariesDone, sweepVars
<1> QED BY <1>1, <1>2, QuietStep DEF CanariesDone, TryStages, ledger

(* The budget ends the canaries.                                           *)
LEMMA CanaryRefusedStep ==
  ASSUME MeasurementInv, CanaryRefused PROVE MeasurementInv'
<1>1. TypeOK'
  BY DEF MeasurementInv, TypeOK, CanaryRefused, Refuse, ledger, sweepVars, capVars,
         Stages, TryStages, WarningTags
<1>2. LoopsInBounds'
  BY DEF MeasurementInv, LoopsInBounds, CanaryRefused, sweepVars
<1> QED BY <1>1, <1>2, QuietStep DEF CanaryRefused, Refuse, TryStages, ledger

(* A chunk moves the canary sweep beyond the TTLs it probed.               *)
LEMMA CanaryChunkStep ==
  ASSUME MeasurementInv, CanaryChunk PROVE MeasurementInv'
<1> DEFINE P == CanarySpecs
           stop == ChunkStop(start, limit)
<1>1. /\ pc = "canarySweep" /\ Fits(P)
      /\ NewBatch(P)
      /\ stop \in start..limit /\ limit \in TTLs
      /\ \A p \in P : /\ p.sample = LastSample /\ p.variant = canary
                      /\ p.phase = "canary-varied" /\ p.ttl \in start..stop
  BY CanaryBatch DEF CanaryChunk
<1>2. PICK reply \in Replies(P) : Deliver(P, reply, Cardinality(P))
  BY DEF CanaryChunk
<1>3. \/ stop = limit /\ pc' = "canary" /\ canary' = canary + 1 /\ start' = start
      \/ stop # limit /\ start' = stop + 1 /\ pc' = pc /\ canary' = canary
  BY DEF CanaryChunk
<1>4. /\ nextSample' = nextSample /\ net' = net /\ tokens' = tokens
      /\ round' = round /\ sweepLimit' = sweepLimit /\ terminalTtl' = terminalTtl
      /\ limit' = limit /\ regions' = regions /\ work' = work
      /\ fixedLeft' = fixedLeft /\ nextVariant' = nextVariant
      /\ warnings' = warnings /\ interrupted' = interrupted /\ control' = control
  BY DEF CanaryChunk, capVars, verdict
<1>5. /\ obs' = obs \cup Received(P, reply)
      /\ obs' \subseteq Observed /\ IsFiniteSet(obs')
      /\ sent' \in Nat /\ Cardinality(P) \in Nat
  BY <1>1, <1>2, SendLedger DEF TryStages
<1>6. baselineCount' \in Nat
  BY <1>2, <1>5 DEF Deliver, MeasurementInv, TypeOK
<1>7. start \in Nat /\ canary \in Nat /\ MaxHops \in Nat /\ limit \in 1..MaxHops
  BY <1>1, ConfigAssumption DEF MeasurementInv, TypeOK, TTLs
<1>8. start' \in TTLs /\ canary' \in Nat /\ pc' \in Stages
  <2>1. start \in TTLs
    BY DEF MeasurementInv, TypeOK
  <2> HIDE DEF P, stop
  <2> QED BY <1>1, <1>3, <1>7, <2>1 DEF TTLs, Stages, TryStages
<1>9. TypeOK'
  <2> HIDE DEF P, stop
  <2> QED BY <1>4, <1>5, <1>6, <1>8 DEF MeasurementInv, TypeOK
<1>10. LoopsInBounds'
  <2>1. canary > 0 /\ canary \in DOMAIN tokens
    BY <1>1 DEF MeasurementInv, LoopsInBounds
  <2> HIDE DEF P, stop
  <2> QED BY <1>1, <1>3, <1>4, <1>7, <2>1 DEF LoopsInBounds
<1>11. SweepUnderWay'
  <2>1. \A g \in Received(P, reply) : /\ g.ttl \in start..stop /\ g.variant = canary
                                     /\ g.phase = "canary-varied"
    BY <1>1 DEF Received
  <2>2. \A o \in obs : o.ttl \in TTLs /\ (o.sample = LastSample =>
          o.ttl < start /\ o.variant = canary /\ o.phase = "canary-varied")
    BY <1>1 DEF MeasurementInv, TypeOK, SweepUnderWay, Observed
  <2>3. LastSample' = LastSample
    BY <1>4 DEF LastSample
  <2> SUFFICES ASSUME NEW o \in obs', o.sample = LastSample, pc' = "canarySweep"
               PROVE  o.ttl < start' /\ o.variant = canary' /\ o.phase = "canary-varied"
    <3> HIDE DEF P, stop
    <3> QED BY <1>1, <1>3, <2>3 DEF SweepUnderWay
  <2>4. start' = stop + 1 /\ canary' = canary
    BY <1>1, <1>3
  <2> HIDE DEF P, stop
  <2> QED BY <1>1, <1>5, <1>7, <2>1, <2>2, <2>4 DEF TTLs
<1>12. nextSample' >= nextSample /\ \A p \in P : p.sample < nextSample'
  BY <1>1, <1>4 DEF LastSample, MeasurementInv, TypeOK
<1> HIDE DEF P, stop
<1> QED BY <1>1, <1>2, <1>9, <1>10, <1>11, <1>12, SendStep DEF TryStages

-----------------------------------------------------------------------------
(* Adaptive sampling preserves the invariant.                              *)

(* Detection yields regions of the path, and windows to sample them.       *)
LEMMA DetectRegionsStep ==
  ASSUME MeasurementInv, DetectRegions PROVE MeasurementInv'
<1>1. limit \in TTLs
  BY DEF MeasurementInv, LoopsInBounds, DetectRegions
<1>2. regions' \in SUBSET Regions
  BY <1>1, FindRegionsType, GlobalRegionType DEF DetectRegions
<1>3. work' \in SUBSET Windows
  BY <1>2, SamplingWindowsType DEF DetectRegions
<1>4. TypeOK'
  BY <1>2, <1>3 DEF MeasurementInv, TypeOK, DetectRegions, ledger, sweepVars, verdict,
                    Stages, TryStages
<1>5. LoopsInBounds'
  BY DEF LoopsInBounds, DetectRegions
<1> QED BY <1>4, <1>5, QuietStep DEF DetectRegions, TryStages, ledger

(* A window lacks at most temporal_samples fixed samples.                  *)
LEMMA EnterWindowStep ==
  ASSUME MeasurementInv, EnterWindow PROVE MeasurementInv'
<1>1. CompleteSampleCount(obs, Window.ttls, FALSE) \in Nat
  BY CompleteCountType DEF MeasurementInv, TypeOK
<1>2. fixedLeft' \in 0..TemporalSamples
  <2> DEFINE n == CompleteSampleCount(obs, Window.ttls, FALSE)
             d == TemporalSamples - n
  <2>1. fixedLeft' = Max({0, d})
    BY DEF EnterWindow
  <2> HIDE DEF n
  <2>2. n \in Nat /\ TemporalSamples \in Nat
    BY <1>1, ConfigAssumption DEF n
  <2>3. d \in Int /\ d <= TemporalSamples
    BY <2>2
  <2> HIDE DEF d
  <2>4. Max({0, d}) = IF 0 >= d THEN 0 ELSE d
    BY <2>3, MaxOfTwo
  <2> QED BY <2>1, <2>2, <2>3, <2>4
<1>3. TypeOK'
  BY <1>2 DEF MeasurementInv, TypeOK, EnterWindow, ledger, sweepVars, verdict,
              Stages, TryStages
<1>4. LoopsInBounds'
  BY DEF LoopsInBounds, EnterWindow
<1> QED BY <1>3, <1>4, QuietStep DEF EnterWindow, TryStages, ledger

(* Adaptive sampling ends when no window is left.                          *)
LEMMA WindowsDoneStep ==
  ASSUME MeasurementInv, WindowsDone PROVE MeasurementInv'
<1>1. TypeOK'
  BY DEF MeasurementInv, TypeOK, WindowsDone, ledger, sweepVars, capVars, verdict,
         Stages, TryStages
<1>2. LoopsInBounds'
  BY DEF LoopsInBounds, WindowsDone
<1> QED BY <1>1, <1>2, QuietStep DEF WindowsDone, TryStages, ledger

(* The budget ends a window; the sample id it took is lost.                *)
LEMMA FixedRefusedStep ==
  ASSUME MeasurementInv, FixedRefused PROVE MeasurementInv'
<1>1. TypeOK'
  BY DEF MeasurementInv, TypeOK, FixedRefused, Refuse, LeaveWindow, ledger, sweepVars,
         Stages, TryStages, WarningTags
<1>2. LoopsInBounds'
  BY DEF LoopsInBounds, FixedRefused, LeaveWindow
<1> QED BY <1>1, <1>2, QuietStep DEF FixedRefused, Refuse, LeaveWindow, TryStages, ledger

(* A fixed sample has a sample id of its own.                              *)
LEMMA FixedSampleStep ==
  ASSUME MeasurementInv, FixedSample PROVE MeasurementInv'
<1>1. /\ pc = "fixed" /\ Fits(FixedSpecs) /\ NewBatch(FixedSpecs)
      /\ \A p \in FixedSpecs : p.sample = nextSample
  BY FixedBatch DEF FixedSample
<1>2. PICK reply \in Replies(FixedSpecs) : Deliver(FixedSpecs, reply, 0)
  BY DEF FixedSample
<1>3. obs' \subseteq Observed /\ IsFiniteSet(obs') /\ sent' \in Nat
  BY <1>1, <1>2, SendLedger DEF TryStages
<1>4. baselineCount' \in Nat
  BY <1>2 DEF Deliver, MeasurementInv, TypeOK
<1>5. fixedLeft' \in 0..TemporalSamples /\ nextSample' \in Nat \ {0}
  BY ConfigAssumption DEF FixedSample, MeasurementInv, TypeOK
<1>6. TypeOK'
  BY <1>3, <1>4, <1>5 DEF MeasurementInv, TypeOK, FixedSample, sweepVars, verdict
<1>7. LoopsInBounds' /\ SweepUnderWay'
  BY DEF MeasurementInv, LoopsInBounds, SweepUnderWay, FixedSample
<1>8. nextSample' >= nextSample /\ \A p \in FixedSpecs : p.sample < nextSample'
  BY <1>1 DEF FixedSample, MeasurementInv, TypeOK
<1> QED BY <1>1, <1>2, <1>6, <1>7, <1>8, SendStep DEF TryStages

(* A window of fixed samples is left when it has them.                     *)
LEMMA FixedOnlyDoneStep ==
  ASSUME MeasurementInv, FixedOnlyDone PROVE MeasurementInv'
<1>1. TypeOK'
  BY DEF MeasurementInv, TypeOK, FixedOnlyDone, LeaveWindow, ledger, sweepVars, verdict,
         Stages, TryStages
<1>2. LoopsInBounds'
  BY DEF LoopsInBounds, FixedOnlyDone, LeaveWindow
<1> QED BY <1>1, <1>2, QuietStep DEF FixedOnlyDone, LeaveWindow, TryStages, ledger

(* Variants are numbered from one.                                         *)
LEMMA BeginVariedStep ==
  ASSUME MeasurementInv, BeginVaried PROVE MeasurementInv'
<1>1. CompleteSampleCount(obs, Window.ttls, TRUE) \in Nat
  BY CompleteCountType DEF MeasurementInv, TypeOK
<1>2. nextVariant' \in Nat /\ nextVariant' > 0
  <2> DEFINE n == CompleteSampleCount(obs, Window.ttls, TRUE)
  <2>1. nextVariant' = n + 1
    BY DEF BeginVaried
  <2> HIDE DEF n
  <2>2. n \in Nat
    BY <1>1 DEF n
  <2> QED BY <2>1, <2>2
<1>3. TypeOK'
  BY <1>2 DEF MeasurementInv, TypeOK, BeginVaried, ledger, sweepVars, verdict,
              Stages, TryStages
<1>4. LoopsInBounds'
  BY <1>2 DEF MeasurementInv, LoopsInBounds, BeginVaried
<1> QED BY <1>3, <1>4, QuietStep DEF BeginVaried, TryStages, ledger

(* The least variant without a token gets one.                             *)
LEMMA DrawTokenStep ==
  ASSUME MeasurementInv, DrawToken PROVE MeasurementInv'
<1>1. Min(Tokenless) \in Nat \ {0}
  <2>1. VariedCount \in Int /\ nextVariant \in Nat \ {0}
    BY VariedCountType DEF DrawToken
  <2>2. Tokenless \in SUBSET (Nat \ {0})
    BY <2>1 DEF Tokenless, VariedBatch
  <2>3. Tokenless \in SUBSET Nat /\ Tokenless # {}
    BY <2>2 DEF DrawToken
  <2>4. Min(Tokenless) \in Tokenless
    BY <2>3, MinOfNats
  <2> QED BY <2>2, <2>4
<1>2. tokens' \in [DOMAIN tokens' -> Tokens] /\ DOMAIN tokens' \subseteq Nat \ {0}
  BY <1>1, CachedType DEF DrawToken, MeasurementInv
<1>3. TypeOK'
  BY <1>2 DEF MeasurementInv, TypeOK, DrawToken, ledger, sweepVars, capVars, verdict
<1>4. LoopsInBounds'
  BY DEF MeasurementInv, LoopsInBounds, DrawToken, capVars, sweepVars
<1> QED BY <1>3, <1>4, QuietStep DEF DrawToken, TryStages, ledger

(* The samples of a batch of variants have ids of their own.               *)
LEMMA VariedSamplesStep ==
  ASSUME MeasurementInv, VariedSamples PROVE MeasurementInv'
<1>1. /\ pc = "varied" /\ Fits(VariedSpecs) /\ NewBatch(VariedSpecs)
      /\ \A p \in VariedSpecs : p.sample \in nextSample..(nextSample + VariedCount - 1)
  BY VariedBatchIsNew DEF VariedSamples
<1>2. PICK reply \in Replies(VariedSpecs) : Deliver(VariedSpecs, reply, 0)
  BY DEF VariedSamples
<1>3. obs' \subseteq Observed /\ IsFiniteSet(obs') /\ sent' \in Nat
  BY <1>1, <1>2, SendLedger DEF TryStages
<1>4. baselineCount' \in Nat
  BY <1>2 DEF Deliver, MeasurementInv, TypeOK
<1>5. /\ VariedCount \in Nat \ {0} /\ nextVariant \in Nat /\ nextSample \in Nat \ {0}
      /\ nextSample' = nextSample + VariedCount
      /\ nextVariant' = nextVariant + VariedCount
  <2>1. VariedCount \in Int /\ VariedCount > 0
    BY VariedCountType DEF VariedSamples
  <2> QED BY <2>1 DEF VariedSamples, MeasurementInv, TypeOK
<1>6. nextSample' \in Nat \ {0} /\ nextVariant' \in Nat /\ nextVariant' > 0
  BY <1>5
<1>7. TypeOK'
  BY <1>3, <1>4, <1>6 DEF MeasurementInv, TypeOK, VariedSamples, sweepVars, verdict
<1>8. LoopsInBounds' /\ SweepUnderWay'
  BY <1>6 DEF MeasurementInv, LoopsInBounds, SweepUnderWay, VariedSamples
<1>9. nextSample' >= nextSample /\ \A p \in VariedSpecs : p.sample < nextSample'
  BY <1>1, <1>5
<1> QED BY <1>1, <1>2, <1>7, <1>8, <1>9, SendStep DEF TryStages

(* The budget ends a window before a batch is built.                       *)
LEMMA VariedExhaustedStep ==
  ASSUME MeasurementInv, VariedExhausted PROVE MeasurementInv'
<1>1. TypeOK'
  BY DEF MeasurementInv, TypeOK, VariedExhausted, Refuse, LeaveWindow, ledger, sweepVars,
         Stages, TryStages, WarningTags
<1>2. LoopsInBounds'
  BY DEF LoopsInBounds, VariedExhausted, LeaveWindow
<1> QED BY <1>1, <1>2, QuietStep DEF VariedExhausted, Refuse, LeaveWindow, TryStages, ledger

(* A window is left when its last variant was sampled.                     *)
LEMMA VariedDoneStep ==
  ASSUME MeasurementInv, VariedDone PROVE MeasurementInv'
<1>1. TypeOK'
  BY DEF MeasurementInv, TypeOK, VariedDone, LeaveWindow, ledger, sweepVars, verdict,
         Stages, TryStages
<1>2. LoopsInBounds'
  BY DEF LoopsInBounds, VariedDone, LeaveWindow
<1> QED BY <1>1, <1>2, QuietStep DEF VariedDone, LeaveWindow, TryStages, ledger

-----------------------------------------------------------------------------
(* The end of a measurement preserves the invariant.                       *)

(* The kernel control touches no evidence.                                 *)
LEMMA RunControlStep ==
  ASSUME MeasurementInv, RunControl PROVE MeasurementInv'
<1>1. TypeOK'
  BY DEF MeasurementInv, TypeOK, RunControl, ledger, sweepVars, capVars,
         Stages, TryStages
<1>2. LoopsInBounds'
  BY DEF LoopsInBounds, RunControl
<1> QED BY <1>1, <1>2, QuietStep DEF RunControl, TryStages, ledger

(* What a batch cut short left on the wire was within the budget.          *)
LEMMA CutBatch ==
  ASSUME MeasurementInv, NEW n \in 0..Cardinality(InFlight),
         pc \in TryStages, sent' = sent + n, obs' = obs
  PROVE  sent' \in Nat /\ BudgetRespected'
<1>1. NewBatch(InFlight) /\ Fits(InFlight)
  BY InFlightIsNew
<1>2. Cardinality(InFlight) \in Nat /\ Cardinality(obs) \in Nat
  BY <1>1, FS_CardinalityType DEF NewBatch, MeasurementInv, TypeOK
<1>3. sent = Cardinality(obs)
  BY DEF MeasurementInv, EveryProbeRecorded
<1> QED BY <1>1, <1>2, <1>3, ConfigAssumption DEF Fits, Remaining, BudgetRespected

(* An interrupt loses a batch, never the ledger.                           *)
LEMMA InterruptStep ==
  ASSUME MeasurementInv, Interrupt PROVE MeasurementInv'
<1>1. sent' \in Nat /\ BudgetRespected'
  BY CutBatch DEF Interrupt
<1>2. TypeOK'
  BY <1>1 DEF MeasurementInv, TypeOK, Interrupt, sweepVars, capVars, Stages, WarningTags
<1>3. LoopsInBounds' /\ SweepUnderWay' /\ EveryProbeRecorded'
  BY DEF LoopsInBounds, SweepUnderWay, EveryProbeRecorded, Interrupt, TryStages
<1>4. SamplesOlder' /\ SamplesCoherent'
  BY DEF MeasurementInv, SamplesOlder, SamplesCoherent, Interrupt
<1> QED BY <1>1, <1>2, <1>3, <1>4 DEF MeasurementInv

(* A failing backend leaves the budget respected.                          *)
LEMMA BackendFailsStep ==
  ASSUME MeasurementInv, BackendFails PROVE MeasurementInv'
<1>1. pc \in TryStages
  BY InFlightIsNew DEF BackendFails, TryStages
<1>2. sent' \in Nat /\ BudgetRespected'
  BY <1>1, CutBatch DEF BackendFails
<1>3. TypeOK'
  BY <1>2 DEF MeasurementInv, TypeOK, BackendFails, sweepVars, capVars, verdict, Stages
<1>4. LoopsInBounds' /\ SweepUnderWay' /\ EveryProbeRecorded'
  BY DEF LoopsInBounds, SweepUnderWay, EveryProbeRecorded, BackendFails, TryStages
<1>5. SamplesOlder' /\ SamplesCoherent'
  BY DEF MeasurementInv, SamplesOlder, SamplesCoherent, BackendFails
<1> QED BY <1>2, <1>3, <1>4, <1>5 DEF MeasurementInv

(* A batch kept but not counted is a batch delivered.                      *)
LEMMA InterruptBeforeCountStep ==
  ASSUME MeasurementInv, InterruptBeforeCount PROVE MeasurementInv'
<1>1. pc \in {"sweep", "canarySweep"} /\ pc \in TryStages
  BY DEF InterruptBeforeCount, TryStages
<1>2. NewBatch(InFlight) /\ Fits(InFlight)
  BY InFlightIsNew
<1>3. \A p \in InFlight : p.sample = LastSample
  BY <1>1, InFlightIsNew, SweepBatch, CanaryBatch
<1>4. PICK reply \in Replies(InFlight) : Deliver(InFlight, reply, 0)
  BY DEF InterruptBeforeCount
<1>5. obs' \subseteq Observed /\ IsFiniteSet(obs') /\ sent' \in Nat
  BY <1>1, <1>2, <1>4, SendLedger
<1>6. baselineCount' \in Nat
  BY <1>4 DEF Deliver, MeasurementInv, TypeOK
<1>7. TypeOK'
  BY <1>5, <1>6 DEF MeasurementInv, TypeOK, InterruptBeforeCount, sweepVars, capVars,
                    Stages, WarningTags
<1>8. LoopsInBounds' /\ SweepUnderWay'
  BY DEF LoopsInBounds, SweepUnderWay, InterruptBeforeCount
<1>9. nextSample' >= nextSample /\ \A p \in InFlight : p.sample < nextSample'
  BY <1>3 DEF InterruptBeforeCount, LastSample, MeasurementInv, TypeOK
<1> QED BY <1>1, <1>2, <1>4, <1>7, <1>8, <1>9, SendStep

(* The report takes the limit again, and the regions if there are none.    *)
LEMMA SummarizeStep ==
  ASSUME MeasurementInv, Summarize PROVE MeasurementInv'
<1>1. limit' \in TTLs
  BY AnalysisLimitType DEF Summarize, MeasurementInv, TypeOK
<1>2. regions' \in SUBSET Regions
  BY <1>1, FindRegionsType DEF Summarize, MeasurementInv, TypeOK
<1>3. warnings' \subseteq WarningTags
  BY DEF Summarize, MeasurementInv, TypeOK, FinalWarnings
<1>4. TypeOK'
  BY <1>1, <1>2, <1>3 DEF MeasurementInv, TypeOK, Summarize, ledger, sweepVars,
                          Stages, OrZero
<1>5. LoopsInBounds' /\ SweepUnderWay' /\ EveryProbeRecorded'
  BY DEF LoopsInBounds, SweepUnderWay, EveryProbeRecorded, Summarize, TryStages
<1>6. SamplesOlder' /\ SamplesCoherent' /\ BudgetRespected'
  BY DEF MeasurementInv, SamplesOlder, SamplesCoherent, BudgetRespected, Summarize, ledger
<1> QED BY <1>4, <1>5, <1>6 DEF MeasurementInv

-----------------------------------------------------------------------------
(* The invariant.                                                          *)

(* A run starts with an empty ledger.                                      *)
LEMMA InitialMeasurement == Init => MeasurementInv
<1> SUFFICES ASSUME Init PROVE MeasurementInv
  OBVIOUS
<1>1. IsFiniteSet(obs) /\ Cardinality(obs) = 0
  BY FS_EmptySet DEF Init
<1>2. tokens \in [DOMAIN tokens -> Tokens] /\ DOMAIN tokens \subseteq Nat \ {0}
  BY DEF Init
<1>3. 1 \in TTLs /\ 0 \in 0..TemporalSamples /\ 0 \in 0..BaselineRounds /\ 0 < BaselineRounds
  BY ConfigAssumption DEF TTLs
<1>4. TypeOK
  <2>1. /\ net \in Networks /\ pc \in Stages /\ obs \subseteq Observed
        /\ regions \subseteq Regions /\ work \subseteq Windows
        /\ warnings \subseteq WarningTags /\ interrupted \in BOOLEAN
        /\ control \in ControlStatuses \cup {"none"}
    BY DEF Init, Stages, TryStages
  <2>2. /\ sent \in Nat /\ baselineCount \in Nat /\ nextSample \in Nat \ {0}
        /\ canary \in Nat /\ nextVariant \in Nat
    BY DEF Init
  <2>3. /\ round \in 0..BaselineRounds /\ start \in TTLs /\ sweepLimit \in OrZero(TTLs)
        /\ terminalTtl \in OrZero(TTLs) /\ limit \in OrZero(TTLs)
        /\ fixedLeft \in 0..TemporalSamples
    BY <1>3 DEF Init, OrZero
  <2> QED BY <1>1, <1>2, <2>1, <2>2, <2>3 DEF TypeOK
<1>5. LoopsInBounds /\ SamplesOlder /\ SweepUnderWay /\ SamplesCoherent
  BY <1>3 DEF Init, LoopsInBounds, SamplesOlder, SweepUnderWay, SamplesCoherent
<1>6. EveryProbeRecorded /\ BudgetRespected
  BY <1>1, ConfigAssumption DEF Init, EveryProbeRecorded, BudgetRespected
<1> QED BY <1>4, <1>5, <1>6 DEF MeasurementInv

(* One case per action of the controller.                                  *)
LEMMA MeasurementStep == MeasurementInv /\ [Next]_vars => MeasurementInv'
<1> SUFFICES ASSUME MeasurementInv, [Next]_vars PROVE MeasurementInv'
  OBVIOUS
<1>1. CASE BeginRound          BY <1>1, BeginRoundStep
<1>2. CASE SweepRefused        BY <1>2, SweepRefusedStep
<1>3. CASE SweepChunk          BY <1>3, SweepChunkStep
<1>4. CASE FixLimit            BY <1>4, FixLimitStep
<1>5. CASE BeginCanary         BY <1>5, BeginCanaryStep
<1>6. CASE CanariesDone        BY <1>6, CanariesDoneStep
<1>7. CASE CanaryRefused       BY <1>7, CanaryRefusedStep
<1>8. CASE CanaryChunk         BY <1>8, CanaryChunkStep
<1>9. CASE DetectRegions       BY <1>9, DetectRegionsStep
<1>10. CASE EnterWindow        BY <1>10, EnterWindowStep
<1>11. CASE WindowsDone        BY <1>11, WindowsDoneStep
<1>12. CASE FixedRefused       BY <1>12, FixedRefusedStep
<1>13. CASE FixedSample        BY <1>13, FixedSampleStep
<1>14. CASE FixedOnlyDone      BY <1>14, FixedOnlyDoneStep
<1>15. CASE BeginVaried        BY <1>15, BeginVariedStep
<1>16. CASE DrawToken          BY <1>16, DrawTokenStep
<1>17. CASE VariedSamples      BY <1>17, VariedSamplesStep
<1>18. CASE VariedExhausted    BY <1>18, VariedExhaustedStep
<1>19. CASE VariedDone         BY <1>19, VariedDoneStep
<1>20. CASE RunControl         BY <1>20, RunControlStep
<1>21. CASE Summarize          BY <1>21, SummarizeStep
<1>22. CASE Interrupt          BY <1>22, InterruptStep
<1>23. CASE InterruptBeforeCount BY <1>23, InterruptBeforeCountStep
<1>24. CASE BackendFails       BY <1>24, BackendFailsStep
<1>25. CASE UNCHANGED vars
  <2> USE <1>25 DEF vars, ledger, sweepVars, capVars, verdict
  <2>1. TypeOK' /\ LoopsInBounds'
    BY DEF MeasurementInv, TypeOK, LoopsInBounds
  <2>2. SamplesOlder' /\ SweepUnderWay' /\ SamplesCoherent'
    BY DEF MeasurementInv, SamplesOlder, SweepUnderWay, SamplesCoherent, LastSample
  <2>3. EveryProbeRecorded' /\ BudgetRespected'
    BY DEF MeasurementInv, EveryProbeRecorded, BudgetRespected
  <2> QED BY <2>1, <2>2, <2>3 DEF MeasurementInv
<1> QED BY <1>1, <1>2, <1>3, <1>4, <1>5, <1>6, <1>7, <1>8, <1>9, <1>10, <1>11, <1>12,
           <1>13, <1>14, <1>15, <1>16, <1>17, <1>18, <1>19, <1>20, <1>21, <1>22, <1>23,
           <1>24, <1>25 DEF Next, Proceed

(* MeasurementInv holds in every reachable state.                          *)
THEOREM MeasurementIsInvariant == Spec => []MeasurementInv
BY InitialMeasurement, MeasurementStep, PTL DEF Spec

(* Every variable keeps its shape: TTLs of observations, sweeps, regions   *)
(* and windows never leave 1..max_hops.                                    *)
THEOREM TypeCorrect == Spec => []TypeOK
<1>1. MeasurementInv => TypeOK
  BY DEF MeasurementInv
<1> QED BY <1>1, MeasurementIsInvariant, PTL

(* No run puts more than max_probes probes on the wire.                    *)
THEOREM ProbesWithinBudget == Spec => []BudgetRespected
<1>1. MeasurementInv => BudgetRespected
  BY DEF MeasurementInv
<1> QED BY <1>1, MeasurementIsInvariant, PTL

(* A sample id names one flow in one phase, and each TTL once.             *)
THEOREM SamplesMatched == Spec => []SamplesCoherent
<1>1. MeasurementInv => SamplesCoherent
  BY DEF MeasurementInv
<1> QED BY <1>1, MeasurementIsInvariant, PTL

-----------------------------------------------------------------------------
(* The kernel control.                                                     *)

(* The control has an outcome only when probing is over.                   *)
ControlIsLate == control # "none" => pc \in {"summarize", "done"}

(* A step keeps the control late, and after it nothing is sent.            *)
LEMMA ControlIsLateStep ==
  ASSUME MeasurementInv, ControlIsLate, [Next]_vars
  PROVE  /\ ControlIsLate'
         /\ control # "none" => UNCHANGED <<obs, sent>>
<1>1. CASE control # "none"
  <2>1. pc \in {"summarize", "done"} /\ pc \notin TryStages
    BY <1>1 DEF ControlIsLate, TryStages
  <2>2. InFlight = {}
    BY <2>1, InFlightIsNew
  <2>3. Summarize \/ UNCHANGED vars
    BY <2>1, <2>2 DEF Next, Proceed, BeginRound, SweepRefused, SweepChunk, FixLimit,
       BeginCanary, CanariesDone, CanaryRefused, CanaryChunk, DetectRegions, EnterWindow,
       WindowsDone, FixedRefused, FixedSample, FixedOnlyDone, BeginVaried, DrawToken,
       VariedSamples, VariedExhausted, VariedDone, RunControl, Interrupt,
       InterruptBeforeCount, BackendFails
  <2> QED BY <2>1, <2>3 DEF ControlIsLate, Summarize, vars, ledger, verdict
<1>2. CASE control = "none"
  <2>1. RunControl \/ control' = control
    BY DEF Next, Proceed, BeginRound, SweepRefused, SweepChunk, FixLimit,
       BeginCanary, CanariesDone, CanaryRefused, CanaryChunk, DetectRegions, EnterWindow,
       WindowsDone, FixedRefused, FixedSample, FixedOnlyDone, BeginVaried, DrawToken,
       VariedSamples, VariedExhausted, VariedDone, Interrupt, Summarize, Refuse,
       InterruptBeforeCount, BackendFails, verdict, vars
  <2> QED BY <1>2, <2>1 DEF ControlIsLate, RunControl
<1> QED BY <1>1, <1>2

(* The control has an outcome in no earlier state.                         *)
LEMMA ControlIsLateInvariant == Spec => []ControlIsLate
<1>1. Init => ControlIsLate
  BY DEF Init, ControlIsLate
<1>2. MeasurementInv /\ ControlIsLate /\ [Next]_vars => ControlIsLate'
  BY ControlIsLateStep
<1> QED BY <1>1, <1>2, MeasurementIsInvariant, PTL DEF Spec

(* Nothing is probed once the kernel control has run.                      *)
THEOREM ControlAfterProbes == Spec => KernelControlLast
<1>1. MeasurementInv /\ ControlIsLate /\ [Next]_vars =>
        [control # "none" => UNCHANGED <<obs, sent>>]_vars
  BY ControlIsLateStep
<1> QED BY <1>1, MeasurementIsInvariant, ControlIsLateInvariant, PTL
        DEF Spec, KernelControlLast

-----------------------------------------------------------------------------
(* The controller implements the abstract measurement.                     *)

(* A run starts as an abstract measurement does.                           *)
LEMMA InitialRefinement == Init => Measurement!AbstractInit
<1> SUFFICES ASSUME Init PROVE Measurement!AbstractInit
  OBVIOUS
<1>1. Cardinality(obs) = 0
  BY FS_EmptySet DEF Init
<1> QED BY <1>1 DEF Init, Measurement!AbstractInit, StageOf

(* A delivered batch is a bundle of the abstract measurement.              *)
LEMMA DeliveredBundle ==
  ASSUME MeasurementInv, pc \in TryStages, NEW P, NewBatch(P), Fits(P),
         NEW reply \in Replies(P), NEW c, Deliver(P, reply, c)
  PROVE  \E n \in 0..MaxProbes : /\ sent + n <= MaxProbes
                                 /\ sent' = sent + n
                                 /\ Cardinality(obs)' = Cardinality(obs) + n
<1>1. /\ sent' \in Nat /\ Cardinality(P) \in Nat
      /\ sent' = Cardinality(obs') /\ sent' <= MaxProbes
      /\ sent' = sent + Cardinality(P)
  BY SendLedger
<1>2. sent \in Nat /\ sent = Cardinality(obs) /\ MaxProbes \in Nat
  BY ConfigAssumption DEF MeasurementInv, TypeOK, EveryProbeRecorded
<1>3. Cardinality(P) \in 0..MaxProbes /\ sent + Cardinality(P) <= MaxProbes
  BY <1>1, <1>2
<1> QED BY <1>1, <1>2, <1>3

(* A step that stays inside the try block sends one bundle, or nothing.    *)
LEMMA BundleOrNothing ==
  ASSUME MeasurementInv, pc \in TryStages, pc' \in TryStages, control' = control,
         \/ obs' = obs /\ sent' = sent
         \/ \E n \in 0..MaxProbes : /\ sent + n <= MaxProbes
                                    /\ sent' = sent + n
                                    /\ Cardinality(obs)' = Cardinality(obs) + n
  PROVE  [Measurement!AbstractNext]_(Measurement!abstractVars)
<1>1. StageOf = "probing" /\ StageOf' = "probing"
  BY DEF StageOf, TryStages
<1> QED BY <1>1 DEF Measurement!AbstractNext, Measurement!SendBundle,
                    Measurement!abstractVars

(* A batch cut short.                                                      *)
LEMMA CutBundle ==
  ASSUME MeasurementInv, pc \in TryStages, pc' \in {"summarize", "failed"},
         control' = control, obs' = obs,
         NEW n \in 0..Cardinality(InFlight), sent' = sent + n
  PROVE  Measurement!AbstractNext
<1>1. StageOf = "probing" /\ StageOf' \in {"over", "failed"}
  BY DEF StageOf, TryStages
<1>2. sent' \in Nat /\ sent' <= MaxProbes
  BY CutBatch DEF BudgetRespected
<1>3. /\ sent \in Nat /\ Cardinality(obs) \in Nat /\ MaxProbes \in Nat
  BY FS_CardinalityType, ConfigAssumption DEF MeasurementInv, TypeOK
<1>4. n \in 0..MaxProbes /\ 0 \in 0..MaxProbes /\ sent + n <= MaxProbes /\ 0 <= n
  BY <1>2, <1>3
<1>5. Cardinality(obs)' = Cardinality(obs) + 0
  BY <1>3
<1>6. Measurement!CutShort
  BY <1>1, <1>4, <1>5 DEF Measurement!CutShort
<1> QED BY <1>6 DEF Measurement!AbstractNext

(* Every step of the controller is a step of the abstract measurement, or  *)
(* changes nothing of what the abstract measurement sees.                  *)
LEMMA RefinementStep ==
  ASSUME MeasurementInv, [Next]_vars
  PROVE  [Measurement!AbstractNext]_(Measurement!abstractVars)
<1>1. CASE \/ BeginRound \/ SweepRefused \/ FixLimit \/ BeginCanary \/ CanariesDone
           \/ CanaryRefused \/ DetectRegions \/ EnterWindow \/ WindowsDone
           \/ FixedRefused \/ FixedOnlyDone \/ BeginVaried \/ DrawToken
           \/ VariedExhausted \/ VariedDone
  <2>1. /\ pc \in TryStages /\ pc' \in TryStages
        /\ control' = control /\ obs' = obs /\ sent' = sent
    BY <1>1 DEF BeginRound, SweepRefused, FixLimit, BeginCanary, CanariesDone,
       CanaryRefused, DetectRegions, EnterWindow, WindowsDone, FixedRefused,
       FixedOnlyDone, BeginVaried, DrawToken, VariedExhausted, VariedDone, Refuse,
       LeaveWindow, TryStages, ledger, verdict
  <2> QED BY <2>1, BundleOrNothing
<1>2. CASE SweepChunk
  <2>1. NewBatch(SweepSpecs) /\ pc = "sweep" /\ Fits(SweepSpecs)
    BY <1>2, SweepBatch DEF SweepChunk
  <2>2. PICK reply \in Replies(SweepSpecs) :
          Deliver(SweepSpecs, reply, Cardinality(SweepSpecs))
    BY <1>2 DEF SweepChunk
  <2>3. pc' \in TryStages /\ control' = control
    BY <1>2 DEF SweepChunk, TryStages
  <2> QED BY <2>1, <2>2, <2>3, DeliveredBundle, BundleOrNothing DEF TryStages
<1>3. CASE CanaryChunk
  <2>1. NewBatch(CanarySpecs) /\ pc = "canarySweep" /\ Fits(CanarySpecs)
    BY <1>3, CanaryBatch DEF CanaryChunk
  <2>2. PICK reply \in Replies(CanarySpecs) :
          Deliver(CanarySpecs, reply, Cardinality(CanarySpecs))
    BY <1>3 DEF CanaryChunk
  <2>3. pc' \in TryStages /\ control' = control
    BY <1>3 DEF CanaryChunk, TryStages, verdict
  <2> QED BY <2>1, <2>2, <2>3, DeliveredBundle, BundleOrNothing DEF TryStages
<1>4. CASE FixedSample
  <2>1. NewBatch(FixedSpecs) /\ pc = "fixed" /\ Fits(FixedSpecs)
    BY <1>4, FixedBatch DEF FixedSample
  <2>2. PICK reply \in Replies(FixedSpecs) : Deliver(FixedSpecs, reply, 0)
    BY <1>4 DEF FixedSample
  <2>3. pc' \in TryStages /\ control' = control
    BY <1>4 DEF FixedSample, TryStages, verdict
  <2> QED BY <2>1, <2>2, <2>3, DeliveredBundle, BundleOrNothing DEF TryStages
<1>5. CASE VariedSamples
  <2>1. NewBatch(VariedSpecs) /\ pc = "varied" /\ Fits(VariedSpecs)
    BY <1>5, VariedBatchIsNew DEF VariedSamples
  <2>2. PICK reply \in Replies(VariedSpecs) : Deliver(VariedSpecs, reply, 0)
    BY <1>5 DEF VariedSamples
  <2>3. pc' \in TryStages /\ control' = control
    BY <1>5 DEF VariedSamples, TryStages, verdict
  <2> QED BY <2>1, <2>2, <2>3, DeliveredBundle, BundleOrNothing DEF TryStages
<1>6. CASE RunControl
  <2>1. StageOf = "probing" /\ StageOf' = "over" /\ obs' = obs /\ sent' = sent
    BY <1>6 DEF RunControl, StageOf, ledger
  <2>2. control' \in ControlStatuses \cup {"none"}
    BY <1>6 DEF RunControl
  <2>3. Measurement!EndProbing
    BY <2>1, <2>2 DEF Measurement!EndProbing
  <2> QED BY <2>3 DEF Measurement!AbstractNext
<1>7. CASE Summarize
  <2>1. /\ StageOf = "over" /\ StageOf' = "reported"
        /\ obs' = obs /\ sent' = sent /\ control' = control
    BY <1>7 DEF Summarize, StageOf, ledger
  <2>2. Measurement!ReportResult
    BY <2>1 DEF Measurement!ReportResult
  <2> QED BY <2>2 DEF Measurement!AbstractNext
<1>8. CASE Interrupt
  <2>1. PICK n \in 0..Cardinality(InFlight) : sent' = sent + n
    BY <1>8 DEF Interrupt
  <2> QED BY <1>8, <2>1, CutBundle DEF Interrupt
<1>9. CASE BackendFails
  <2>1. PICK n \in 0..Cardinality(InFlight) : sent' = sent + n
    BY <1>9 DEF BackendFails
  <2>2. pc \in TryStages
    BY <1>9, InFlightIsNew DEF BackendFails, TryStages
  <2> QED BY <1>9, <2>1, <2>2, CutBundle DEF BackendFails, verdict
<1>10. CASE InterruptBeforeCount
  <2>1. pc \in TryStages
    BY <1>10 DEF InterruptBeforeCount, TryStages
  <2>2. PICK reply \in Replies(InFlight) : Deliver(InFlight, reply, 0)
    BY <1>10 DEF InterruptBeforeCount
  <2>3. PICK n \in 0..MaxProbes : /\ sent + n <= MaxProbes
                                  /\ sent' = sent + n
                                  /\ Cardinality(obs)' = Cardinality(obs) + n
    BY <2>1, <2>2, InFlightIsNew, DeliveredBundle
  <2>4. StageOf = "probing" /\ StageOf' = "over" /\ control' = control
    BY <1>10 DEF InterruptBeforeCount, StageOf
  <2>5. n <= n
    BY ConfigAssumption
  <2>6. Measurement!CutShort
    BY <2>3, <2>4, <2>5 DEF Measurement!CutShort
  <2> QED BY <2>6 DEF Measurement!AbstractNext
<1>11. CASE UNCHANGED vars
  BY <1>11 DEF vars, ledger, verdict, StageOf, Measurement!abstractVars
<1> QED BY <1>1, <1>2, <1>3, <1>4, <1>5, <1>6, <1>7, <1>8, <1>9, <1>10, <1>11
        DEF Next, Proceed

(* The controller implements BoundedMeasurement: whatever the network      *)
(* answers and whenever it is cut short, probes leave in whole bundles     *)
(* within the budget and none leaves after the kernel control.             *)
THEOREM ControllerImplementsMeasurement == Spec => ImplementsMeasurement
<1>1. MeasurementInv /\ [Next]_vars => [Measurement!AbstractNext]_(Measurement!abstractVars)
  BY RefinementStep
<1> QED BY <1>1, InitialRefinement, MeasurementIsInvariant, PTL
        DEF Spec, ImplementsMeasurement, Measurement!AbstractSpec

=============================================================================
