-------------------------- MODULE TraceReport_proofs --------------------------
(***************************************************************************)
(* What the report says of the path, for every configuration and every     *)
(* network: ReportInv is inductive beside PathInv and MeasurementInv.  It  *)
(* ties the report, whose parts are computed from different observations   *)
(* and for different limits, to one baseline.                              *)
(***************************************************************************)
EXTENDS TraceLimits_proofs

-----------------------------------------------------------------------------
(* Runs and regions.                                                       *)

(* Every member of a set of TTLs lies in a maximal run.                    *)
LEMMA RunExists ==
  ASSUME NEW S \in SUBSET TTLs, NEW t \in S
  PROVE  \E x \in Runs(S) : x[1] <= t /\ t <= x[2]
<1> DEFINE A  == {a \in S : a <= t /\ a..t \subseteq S}
           B  == {b \in S : t <= b /\ t..b \subseteq S}
           lo == Min(A)
           hi == Max(B)
<1>1. \A s \in S : s \in Int
  BY DEF TTLs
<1>2. t \in A /\ t \in B /\ A \in SUBSET TTLs /\ B \in SUBSET TTLs
  BY <1>1
<1>3. lo \in A /\ \A a \in A : lo <= a
  <2> HIDE DEF A
  <2> QED BY <1>2, ExtremeTtls
<1>4. hi \in B /\ \A b \in B : b <= hi
  <2> HIDE DEF B
  <2> QED BY <1>2, ExtremeTtls
<1> HIDE DEF lo, hi
<1>5. lo \in Int /\ hi \in Int /\ lo <= t /\ t <= hi /\ t \in Int
  BY <1>1, <1>3, <1>4
<1>6. lo..hi \subseteq S
  <2>1. \A u \in lo..hi : u \in lo..t \/ u \in t..hi
    BY <1>5
  <2> QED BY <1>3, <1>4, <2>1
<1>7. lo - 1 \notin S
  <2>1. SUFFICES ASSUME lo - 1 \in S PROVE FALSE
    OBVIOUS
  <2>2. \A u \in (lo - 1)..t : u = lo - 1 \/ u \in lo..t
    BY <1>5
  <2>3. lo - 1 \in A
    BY <1>3, <1>5, <2>1, <2>2
  <2>4. lo <= lo - 1
    BY <1>3, <2>3
  <2> QED BY <1>5, <2>4
<1>8. hi + 1 \notin S
  <2>1. SUFFICES ASSUME hi + 1 \in S PROVE FALSE
    OBVIOUS
  <2>2. \A u \in t..(hi + 1) : u = hi + 1 \/ u \in t..hi
    BY <1>5
  <2>3. hi + 1 \in B
    BY <1>4, <1>5, <2>1, <2>2
  <2>4. hi + 1 <= hi
    BY <1>4, <2>3
  <2> QED BY <1>5, <2>4
<1>9. <<lo, hi>> \in Runs(S)
  BY <1>3, <1>4, <1>5, <1>6, <1>7, <1>8 DEF Runs
<1> QED BY <1>5, <1>9

(* The region around a run reaches one TTL beyond it, within the limit.    *)
LEMMA RegionReach ==
  ASSUME NEW family, NEW lim \in TTLs, NEW lo \in 1..lim, NEW hi \in 1..lim, lo <= hi
  PROVE  LET r == RegionAround(family, lo, hi, lim)
         IN  /\ r.first \in 1..lim /\ r.last \in 1..lim /\ r.first <= r.last
             /\ r.first <= lo /\ (lo > 1 => r.first <= lo - 1)
             /\ r.last >= hi /\ (hi < lim => r.last >= hi + 1)
             /\ r.ttls \subseteq r.first..r.last /\ {r.first, r.last} \subseteq r.ttls
<1> DEFINE first == Max({1, lo - 1})
           last  == Min({lim, hi + 1})
<1>0. lim \in Int /\ lo \in Int /\ hi \in Int
  BY DEF TTLs
<1>1. first = IF 1 >= lo - 1 THEN 1 ELSE lo - 1
  BY <1>0, MaxOfTwo
<1>2. last = IF lim <= hi + 1 THEN lim ELSE hi + 1
  BY <1>0, MinOfTwo
<1>3. /\ RegionAround(family, lo, hi, lim).first = first
      /\ RegionAround(family, lo, hi, lim).last = last
      /\ RegionAround(family, lo, hi, lim).ttls = ProbeTtls(first, last)
  BY DEF RegionAround
<1> HIDE DEF first, last
<1>4. /\ first \in 1..lim /\ last \in 1..lim /\ first <= last
      /\ first <= lo /\ (lo > 1 => first <= lo - 1)
      /\ last >= hi /\ (hi < lim => last >= hi + 1)
  BY <1>0, <1>1, <1>2
<1>5. /\ ProbeTtls(first, last) \subseteq first..last
      /\ {first, last} \subseteq ProbeTtls(first, last)
  <2>1. CASE last - first + 1 <= 7
    <3>1. {first, last} \subseteq first..last
      BY <1>0, <1>4
    <3> QED BY <2>1, <3>1 DEF ProbeTtls
  <2>2. CASE ~(last - first + 1 <= 7)
    <3>1. {first, first + 1, (first + last) \div 2, last - 1, last} \subseteq first..last
      BY <1>0, <1>4, <2>2
    <3> QED BY <2>2, <3>1 DEF ProbeTtls
  <2> QED BY <2>1, <2>2
<1> QED BY <1>3, <1>4, <1>5

(* Regions found for a limit are sampled inside themselves and the path,   *)
(* also at both ends.                                                      *)
LEMMA FoundShape ==
  ASSUME NEW E, NEW lim \in TTLs,
         NEW R \in {{GlobalRegion(lim)}, FindRegions(E, lim)}, NEW r \in R
  PROVE  /\ r.first \in 1..lim /\ r.last \in 1..lim /\ r.first <= r.last
         /\ r.ttls \subseteq r.first..r.last /\ {r.first, r.last} \subseteq r.ttls
<1>1. CASE r = GlobalRegion(lim)
  BY <1>1 DEF GlobalRegion, TTLs
<1>2. CASE r \in FindRegions(E, lim)
  <2>1. PICK family \in Families \ {"global"} :
          r \in {RegionAround(family, x[1], x[2], lim) :
                   x \in Runs({t \in 1..lim : Suspicious(E, family, t)})}
    BY <1>2 DEF FindRegions
  <2>2. PICK x \in Runs({t \in 1..lim : Suspicious(E, family, t)}) :
          r = RegionAround(family, x[1], x[2], lim)
    BY <2>1
  <2>3. x[1] \in 1..lim /\ x[2] \in 1..lim /\ x[1] <= x[2]
    BY <2>2 DEF Runs
  <2> QED BY <2>2, <2>3, RegionReach
<1> QED BY <1>1, <1>2

(* Both edges of a suspicious TTL, as far as the limit goes, lie in a      *)
(* region.                                                                 *)
LEMMA SuspicionIsCovered ==
  ASSUME NEW E, NEW lim \in TTLs,
         NEW R \in {{GlobalRegion(lim)}, FindRegions(E, lim)},
         NEW u \in 1..(lim - 1), NEW t \in {u, u + 1},
         NEW family \in Families \ {"global"}, Suspicious(E, family, t)
  PROVE  \E r \in R : r.first <= u /\ u < r.last
<1>0. lim \in Int /\ u \in Int /\ t \in 1..lim
  BY DEF TTLs
<1>1. CASE R = {GlobalRegion(lim)}
  BY <1>0, <1>1 DEF GlobalRegion
<1>2. CASE R = FindRegions(E, lim)
  <2> DEFINE S == {x \in 1..lim : Suspicious(E, family, x)}
  <2>1. t \in S /\ S \in SUBSET TTLs
    BY <1>0, ConfigAssumption DEF TTLs
  <2>2. \E x \in Runs(S) : x[1] <= t /\ t <= x[2]
    <3> HIDE DEF S
    <3> QED BY <2>1, RunExists
  <2>3. PICK x \in Runs(S) : x[1] <= t /\ t <= x[2]
    BY <2>2
  <2>4. x[1] \in 1..lim /\ x[2] \in 1..lim /\ x[1] <= x[2]
    BY <2>3 DEF Runs
  <2> DEFINE r == RegionAround(family, x[1], x[2], lim)
  <2> DEFINE found == {RegionAround(family, y[1], y[2], lim) : y \in Runs(S)}
  <2>5. r \in R
    <3>1. r \in found
      BY <2>3
    <3>2. found \in {{RegionAround(f, y[1], y[2], lim) :
                         y \in Runs({z \in 1..lim : Suspicious(E, f, z)})} :
                       f \in Families \ {"global"}}
      OBVIOUS
    <3> HIDE DEF r, found, S
    <3> QED BY <1>2, <3>1, <3>2 DEF FindRegions
  <2>6. /\ r.first \in 1..lim /\ r.last \in 1..lim
        /\ r.first <= x[1] /\ (x[1] > 1 => r.first <= x[1] - 1)
        /\ r.last >= x[2] /\ (x[2] < lim => r.last >= x[2] + 1)
    BY <2>4, RegionReach
  <2> HIDE DEF r, S
  <2>7. r.first <= u /\ u < r.last
    <3>1. r.first \in Int /\ r.last \in Int /\ x[1] \in Int /\ x[2] \in Int
      BY <2>4, <2>6
    <3>2. CASE t = u
      BY <1>0, <2>3, <2>4, <2>6, <3>1, <3>2
    <3>3. CASE t = u + 1
      BY <1>0, <2>3, <2>4, <2>6, <3>1, <3>3
    <3> QED BY <3>2, <3>3
  <2> QED BY <2>5, <2>7
<1> QED BY <1>1, <1>2

-----------------------------------------------------------------------------
(* Hops and classes.                                                       *)

(* A hop has a responder exactly if the main flow met one there, and then  *)
(* one that it met.                                                        *)
LEMMA PrimaryIsSeen ==
  ASSUME MeasurementInv, NEW t
  PROVE  /\ WhoIn(MainAt(obs, t)) = {} => Primary(obs, t) = None
         /\ WhoIn(MainAt(obs, t)) # {} => Primary(obs, t) \in WhoIn(MainAt(obs, t))
<1> DEFINE seen   == WhoIn(MainAt(obs, t))
           by(w)  == {o \in MainAt(obs, t) : o.who = w}
           V      == {Votes(obs, t, w) : w \in seen}
           m      == Max(V)
           top    == {w \in seen : Votes(obs, t, w) = m}
           F      == {FirstSeen(obs, t, w) : w \in top}
<1>1. obs \in SUBSET Observed /\ IsFiniteSet(obs) /\ Cardinality(obs) \in Nat
  BY FS_CardinalityType DEF MeasurementInv, TypeOK
<1>2. \A w : by(w) \subseteq obs /\ Votes(obs, t, w) = Cardinality(by(w))
  BY DEF MainAt, Votes
<1>3. \A w : Votes(obs, t, w) \in Nat /\ Votes(obs, t, w) <= Cardinality(obs)
  <2> TAKE w
  <2> HIDE DEF by
  <2>1. IsFiniteSet(by(w)) /\ Cardinality(by(w)) <= Cardinality(obs)
    BY <1>1, <1>2, FS_Subset
  <2> QED BY <1>2, <2>1, FS_CardinalityType
<1>4. ASSUME NEW w \in seen
      PROVE  /\ FirstSeen(obs, t, w) \in Nat
             /\ \E o \in by(w) : o.sample = FirstSeen(obs, t, w)
  <2> DEFINE S == {o.sample : o \in by(w)}
  <2>1. FirstSeen(obs, t, w) = Min(S)
    BY DEF FirstSeen
  <2>2. by(w) # {} /\ S \in SUBSET Nat
    BY <1>1, <1>2 DEF Observed, WhoIn
  <2>3. S # {}
    BY <2>2
  <2>4. Min(S) \in S
    <3> HIDE DEF S
    <3> QED BY <2>2, <2>3, MinOfNats
  <2> HIDE DEF by
  <2> QED BY <2>1, <2>2, <2>4
<1>5. ASSUME NEW v \in seen, NEW w \in seen, FirstSeen(obs, t, v) = FirstSeen(obs, t, w)
      PROVE  v = w
  <2>1. PICK a \in by(v) : a.sample = FirstSeen(obs, t, v)
    BY <1>4
  <2>2. PICK b \in by(w) : b.sample = FirstSeen(obs, t, w)
    BY <1>4
  <2>3. a \in obs /\ b \in obs /\ a.sample = b.sample /\ a.ttl = t /\ b.ttl = t
    BY <1>2, <1>5, <2>1, <2>2 DEF MainAt
  <2>4. a = b
    BY <2>3 DEF MeasurementInv, SamplesCoherent
  <2> QED BY <2>1, <2>2, <2>4
<1>6. ASSUME seen # {}
      PROVE  \E w \in seen : \A v \in seen \ {w} :
               \/ Votes(obs, t, w) > Votes(obs, t, v)
               \/ /\ Votes(obs, t, w) = Votes(obs, t, v)
                  /\ FirstSeen(obs, t, w) < FirstSeen(obs, t, v)
  <2>1. V \in SUBSET Nat /\ V # {} /\ \A x \in V : x <= Cardinality(obs)
    BY <1>3, <1>6
  <2>2. m \in V /\ \A x \in V : x <= m
    <3> HIDE DEF V
    <3> QED BY <1>1, <2>1, MaxOfNats
  <2>3. top # {}
    BY <2>2
  <2>4. F \in SUBSET Nat /\ F # {}
    <3>1. \A w \in top : FirstSeen(obs, t, w) \in Nat
      BY <1>4
    <3> HIDE DEF top
    <3> QED BY <2>3, <3>1
  <2>5. PICK n \in F : \A x \in F : n <= x
    <3> HIDE DEF F
    <3> QED BY <2>4, LeastElement
  <2>6. PICK w \in top : FirstSeen(obs, t, w) = n
    BY <2>5
  <2> WITNESS w \in seen
  <2> TAKE v \in seen \ {w}
  <2>7. Votes(obs, t, w) = m /\ Votes(obs, t, v) <= m
    BY <2>2, <2>6
  <2>8. Votes(obs, t, v) = m => n <= FirstSeen(obs, t, v)
    BY <2>5
  <2>9. n # FirstSeen(obs, t, v)
    BY <1>5, <2>6
  <2>10. FirstSeen(obs, t, v) \in Nat /\ n \in Nat
    BY <1>4, <2>4, <2>5
  <2> HIDE DEF m, F, top, V, seen
  <2> QED BY <1>3, <2>6, <2>7, <2>8, <2>9, <2>10
<1> HIDE DEF seen
<1> QED BY <1>6 DEF Primary, seen

(* The class of a region is the first of the verdicts on it that holds.    *)
LEMMA ClassIsVerdict ==
  ASSUME NEW E, NEW n, NEW r
  PROVE  \E i \in 1..11 : /\ Verdicts(E, n, r)[i].holds
                          /\ ClassOf(E, n, r) = Verdicts(E, n, r)[i].type
                          /\ \A j \in 1..11 : Verdicts(E, n, r)[j].holds => i <= j
<1> DEFINE table == Verdicts(E, n, r)
           S == {i \in DOMAIN table : table[i].holds}
<1>1. DOMAIN table = 1..11
  BY DEF Verdicts
<1>2. table[11].holds
  BY DEF Verdicts
<1>3. ClassOf(E, n, r) = table[Min(S)].type
  BY DEF ClassOf
<1> HIDE DEF table
<1>4. 11 \in S /\ S \in SUBSET Nat
  BY <1>1, <1>2
<1>5. Min(S) \in S /\ \A j \in S : Min(S) <= j
  <2> HIDE DEF S
  <2> QED BY <1>4, MinOfNats
<1> QED BY <1>1, <1>3, <1>5 DEF table

(* What each class rests on.  INTERMITTENT needs a change at one TTL, a    *)
(* family of visibility where nothing answers, or signatures of variants   *)
(* that differ; without such a family MULTIPATH was ruled out before.      *)
LEMMA ClassMeans ==
  ASSUME NEW E, NEW n, NEW r
  PROVE  LET fixed  == FixedIn(E, r.ttls)
             varied == VariedIn(E, r.ttls)
             class  == ClassOf(E, n, r)
         IN  /\ class # "silent_tail"
             /\ class = "unstable" => SomeTtlVaries(fixed)
             /\ class = "multipath" => SomeTtlVaries(varied)
             /\ class = "mutable" => \E o \in fixed \cup varied : o.mut # {}
             /\ class = "opaque" => /\ AlwaysMissing(fixed \cup varied) # {}
                                    /\ HasVisibleBoundaries(E, n, r)
             /\ class = "intermittent" =>
                  \/ r.family \in VisibilityFamilies
                  \/ IntermittentIn(fixed \cup varied)
                  \/ /\ Cardinality(Signatures(E, r.ttls, TRUE)) > 1
                     /\ ~SomeTtlVaries(varied)
             /\ class = "direct" => /\ \A o \in fixed \cup varied : Answered(o)
                                    /\ Signatures(E, r.ttls, FALSE) # {}
<1> DEFINE table  == Verdicts(E, n, r)
           fixed  == FixedIn(E, r.ttls)
           varied == VariedIn(E, r.ttls)
           class  == ClassOf(E, n, r)
           changing == \/ IntermittentIn(fixed \cup varied)
                       \/ Cardinality(Signatures(E, r.ttls, TRUE)) > 1
<1>1. PICK i \in 1..11 : /\ table[i].holds /\ class = table[i].type
                         /\ \A j \in 1..11 : table[j].holds => i <= j
  BY ClassIsVerdict
<1>2. /\ table[1].type = "unstable" /\ table[2].type = "multipath"
      /\ table[3].type = "opaque" /\ table[4].type = "mutable"
      /\ table[5].type = "intermittent" /\ table[6].type = "unstable"
      /\ table[7].type = "multipath" /\ table[8].type = "opaque"
      /\ table[9].type = "intermittent" /\ table[10].type = "direct"
      /\ table[11].type = "unknown"
  BY DEF Verdicts
<1>3. /\ table[1].holds => SomeTtlVaries(fixed)
      /\ table[6].holds => SomeTtlVaries(fixed)
      /\ table[2].holds => SomeTtlVaries(varied)
      /\ table[7].holds <=> SomeTtlVaries(varied)
  BY DEF Verdicts
<1>4. table[4].holds => \E o \in fixed \cup varied : o.mut # {}
  BY DEF Verdicts
<1>5. table[3].holds \/ table[8].holds =>
        AlwaysMissing(fixed \cup varied) # {} /\ HasVisibleBoundaries(E, n, r)
  BY DEF Verdicts
<1>6. /\ table[5].holds => r.family \in VisibilityFamilies
      /\ table[9].holds => changing
  BY DEF Verdicts
<1>7. table[10].holds => /\ \A o \in fixed \cup varied : Answered(o)
                         /\ Signatures(E, r.ttls, FALSE) # {}
  BY DEF Verdicts
<1>8. i \in {1, 2, 3, 4, 5, 6, 7, 8, 9, 10, 11}
  BY <1>1
<1> HIDE DEF table, fixed, varied, class, changing
<1>9. /\ class # "silent_tail"
      /\ class = "unstable" => i \in {1, 6}
      /\ class = "multipath" => i \in {2, 7}
      /\ class = "mutable" => i = 4
      /\ class = "opaque" => i \in {3, 8}
      /\ class = "intermittent" => i \in {5, 9}
      /\ class = "direct" => i = 10
  BY <1>1, <1>2, <1>8
<1>10. i = 9 => ~SomeTtlVaries(varied)
  BY <1>1, <1>3
<1>11. class = "intermittent" =>
         \/ r.family \in VisibilityFamilies
         \/ changing /\ ~SomeTtlVaries(varied)
  BY <1>1, <1>6, <1>9, <1>10
<1>12. /\ class # "silent_tail"
       /\ class = "unstable" => SomeTtlVaries(fixed)
       /\ class = "multipath" => SomeTtlVaries(varied)
       /\ class = "mutable" => \E o \in fixed \cup varied : o.mut # {}
       /\ class = "opaque" => /\ AlwaysMissing(fixed \cup varied) # {}
                              /\ HasVisibleBoundaries(E, n, r)
       /\ class = "direct" => /\ \A o \in fixed \cup varied : Answered(o)
                              /\ Signatures(E, r.ttls, FALSE) # {}
  BY <1>1, <1>3, <1>4, <1>5, <1>7, <1>9
<1> QED BY <1>11, <1>12 DEF fixed, varied, class, changing

-----------------------------------------------------------------------------
(* The invariant gives the properties of the report.                       *)

(* An observation the network could make is an answer exactly if it names  *)
(* a responder; otherwise it is silence.                                   *)
LEMMA AnswersOrSilence ==
  ASSUME MeasurementInv, NEW o \in obs, NEW f \in FlowTokens,
         [kind |-> o.kind, who |-> o.who, mut |-> o.mut] \in net[<<o.ttl, f>>]
  PROVE  /\ Answered(o) <=> o.who # None
         /\ ~Answered(o) => [kind |-> o.kind, who |-> o.who, mut |-> o.mut] = Silence
<1> DEFINE a == [kind |-> o.kind, who |-> o.who, mut |-> o.mut]
<1>1. net[<<o.ttl, f>>] \in SUBSET Outcomes
  <2>1. o.ttl \in TTLs
    BY DEF MeasurementInv, TypeOK, Observed
  <2>2. net \in [TTLs \X FlowTokens -> (SUBSET Outcomes) \ {{}}]
    BY NetworkAssumption DEF MeasurementInv, TypeOK
  <2> QED BY <2>1, <2>2
<1>2. a \in Answers \/ a = Silence
  BY <1>1 DEF Outcomes
<1>3. CASE a \in Answers
  <2>1. a.who \in Responders
    BY <1>3 DEF Answers
  <2>2. a.kind # "timeout"
    BY <1>3 DEF Answers
  <2> QED BY <2>1, <2>2, ValueAssumption DEF Answered
<1>4. CASE a = Silence
  <2>1. o.who = None
    BY <1>4 DEF Silence
  <2> QED BY <1>4, <2>1 DEF Answered
<1> QED BY <1>2, <1>3, <1>4

(* Every observation is an answer or silence of some flow, the main flow's *)
(* of the main flow.                                                       *)
LEMMA AnswersNameResponders ==
  ASSUME MeasurementInv, ReportInv, NEW o \in obs
  PROVE  \E f \in FlowTokens :
           /\ MainFlow(o) => f = MainToken
           /\ \E a \in net[<<o.ttl, f>>] :
                /\ a.who = o.who /\ a.mut = o.mut
                /\ Answered(o) <=> o.who # None
                /\ ~Answered(o) => a = Silence
<1>1. PICK f \in FlowTokens :
        /\ MainFlow(o) => f = MainToken
        /\ [kind |-> o.kind, who |-> o.who, mut |-> o.mut] \in net[<<o.ttl, f>>]
  BY DEF ReportInv, FromNetwork
<1>2. /\ Answered(o) <=> o.who # None
      /\ ~Answered(o) => [kind |-> o.kind, who |-> o.who, mut |-> o.mut] = Silence
  BY <1>1, AnswersOrSilence
<1> QED BY <1>1, <1>2

(* The three sources of segments.                                          *)
LEMMA ReportParts ==
  ASSUME NEW s \in Report
  PROVE  \/ \E u \in 1..(HopCount(obs, limit) - 1) :
              /\ u \notin CoveredEdges(regions)
              /\ {u, u + 1} \subseteq VisibleHops(obs, HopCount(obs, limit))
              /\ s = DirectEdge(obs, u)
         \/ \E r \in regions : s = ClassifyRegion(obs, HopCount(obs, limit), r)
         \/ /\ HasSilentTail(obs, limit)
            /\ s = SilentTail(obs, limit, HopCount(obs, limit))
BY DEF Report, SummarizeSegments, DirectSegments

(* The report counts hops up to the limit of the analysis.                 *)
LEMMA HopsOfReport ==
  ASSUME MeasurementInv, PathInv, Done
  PROVE  /\ limit = AnalysisLimit(obs) /\ limit \in TTLs
         /\ HopCount(obs, limit) = limit
<1>1. limit = AnalysisLimit(obs)
  BY DEF PathInv, LimitInside, Done
<1> QED BY <1>1, AnalysisLimitType DEF MeasurementInv, TypeOK, HopCount, AnalysisLimit

(* The regions of a report are those of the baseline.                      *)
LEMMA RegionsOfReport ==
  ASSUME MeasurementInv, PathInv, ReportInv, Done, regions # {} \/ BaselineAnswered(obs)
  PROVE  \E lim \in TTLs :
           /\ limit <= lim
           /\ regions \in {{GlobalRegion(lim)}, FindRegions(BaselineObs, lim)}
BY HopsOfReport DEF ReportInv, RegionsOfBaseline, NothingToFind, RegionsFor

(* A region of a report is sampled inside itself, also at both ends.       *)
LEMMA RegionOfReport ==
  ASSUME MeasurementInv, PathInv, ReportInv, Done, NEW r \in regions
  PROVE  /\ r.first \in TTLs /\ r.last \in TTLs /\ r.first <= r.last
         /\ r.ttls \subseteq r.first..r.last /\ {r.first, r.last} \subseteq r.ttls
<1>1. PICK lim \in TTLs : regions \in {{GlobalRegion(lim)}, FindRegions(BaselineObs, lim)}
  BY RegionsOfReport
<1>2. /\ r.first \in 1..lim /\ r.last \in 1..lim /\ r.first <= r.last
      /\ r.ttls \subseteq r.first..r.last /\ {r.first, r.last} \subseteq r.ttls
  BY <1>1, FoundShape
<1>3. 1..lim \subseteq TTLs
  BY ConfigAssumption DEF TTLs
<1> QED BY <1>2, <1>3

(* A visible hop is its own ingress and its own egress.                    *)
LEMMA VisibleBoundary ==
  ASSUME NEW n \in TTLs, NEW t \in VisibleHops(obs, n)
  PROVE  /\ IngressOf(obs, n, t) = Primary(obs, t) /\ EgressOf(obs, n, t) = Primary(obs, t)
         /\ Primary(obs, t) # None
<1>1. t \in 1..n /\ Primary(obs, t) # None /\ VisibleHops(obs, n) \subseteq 1..n
  BY DEF VisibleHops
<1>2. n \in Int /\ t \in Int /\ t <= n /\ 1..n \subseteq TTLs
  BY <1>1, ConfigAssumption DEF TTLs
<1>3. Min({t, n}) = t
  BY <1>2, MinOfTwo
<1> DEFINE before == {u \in VisibleHops(obs, n) : u <= t}
           after  == {u \in VisibleHops(obs, n) : u >= t}
<1>4. t \in before /\ t \in after /\ before \in SUBSET TTLs /\ after \in SUBSET TTLs
  BY <1>1, <1>2
<1>5. \A u \in before : u <= t
  OBVIOUS
<1>6. \A u \in after : u >= t
  OBVIOUS
<1>7. IngressOf(obs, n, t) = IF before = {} THEN None ELSE Primary(obs, Max(before))
  BY <1>3 DEF IngressOf
<1>8. EgressOf(obs, n, t) = IF after = {} THEN None ELSE Primary(obs, Min(after))
  BY <1>3 DEF EgressOf
<1> HIDE DEF before, after
<1>9. Max(before) = t
  <2>1. Max(before) \in before /\ t <= Max(before) /\ Max(before) \in TTLs
    BY <1>4, ExtremeTtls
  <2>2. Max(before) <= t
    BY <1>5, <2>1
  <2> QED BY <1>2, <2>1, <2>2 DEF TTLs
<1>10. Min(after) = t
  <2>1. Min(after) \in after /\ Min(after) <= t /\ Min(after) \in TTLs
    BY <1>4, ExtremeTtls
  <2>2. Min(after) >= t
    BY <1>6, <2>1
  <2> QED BY <1>2, <2>1, <2>2 DEF TTLs
<1> QED BY <1>1, <1>4, <1>7, <1>8, <1>9, <1>10

(* At a visible hop the main flow was answered.                            *)
LEMMA VisibleIsAnswered ==
  ASSUME MeasurementInv, ReportInv, NEW t
  PROVE  Primary(obs, t) # None <=> \E o \in obs : MainFlow(o) /\ o.ttl = t /\ Answered(o)
<1>1. Primary(obs, t) # None <=> WhoIn(MainAt(obs, t)) # {}
  BY PrimaryIsSeen DEF WhoIn
<1>2. \A o \in obs : Answered(o) <=> o.who # None
  BY AnswersNameResponders
<1> QED BY <1>1, <1>2 DEF WhoIn, MainAt

(* A region called OPAQUE hides a hop.                                     *)
LEMMA OpaqueRegionHides ==
  ASSUME MeasurementInv, PathInv, ReportInv, Done, NEW r \in regions,
         ClassOf(obs, HopCount(obs, limit), r) = "opaque"
  PROVE  /\ {r.first, r.last} \subseteq VisibleHops(obs, limit)
         /\ \E t \in (r.first + 1)..(r.last - 1) :
              /\ \E o \in obs : o.ttl = t
              /\ \A o \in obs : o.ttl = t => ~Answered(o)
<1> DEFINE both == FixedIn(obs, r.ttls) \cup VariedIn(obs, r.ttls)
<1>1. AlwaysMissing(both) # {} /\ HasVisibleBoundaries(obs, HopCount(obs, limit), r)
  BY ClassMeans
<1>2. {r.first, r.last} \subseteq VisibleHops(obs, limit)
  BY <1>1, HopsOfReport DEF HasVisibleBoundaries
<1>3. both = {o \in obs : o.ttl \in r.ttls}
  BY DEF FixedIn, VariedIn
<1>4. PICK t \in r.ttls : /\ \E o \in obs : o.ttl = t
                          /\ \A o \in obs : o.ttl = t => ~Answered(o)
  <2>1. PICK t \in AlwaysMissing(both) : TRUE
    BY <1>1
  <2> QED BY <1>3, <2>1 DEF AlwaysMissing
<1>5. t # r.first /\ t # r.last
  <2>1. Primary(obs, r.first) # None /\ Primary(obs, r.last) # None
    BY <1>2 DEF VisibleHops
  <2> QED BY <1>4, <2>1, VisibleIsAnswered
<1>6. t \in (r.first + 1)..(r.last - 1)
  <2>1. r.first \in Int /\ r.last \in Int /\ t \in r.first..r.last
    BY RegionOfReport DEF TTLs
  <2> QED BY <1>5, <2>1
<1> QED BY <1>2, <1>4, <1>6

(* OPAQUE segments.                                                        *)
LEMMA OpaqueFollows ==
  ASSUME MeasurementInv, PathInv, ReportInv PROVE OpaqueHidesAHop
<1> SUFFICES ASSUME Done, NEW s \in Report, s.type = "opaque"
             PROVE  /\ None \notin {s.ingress, s.egress}
                    /\ \E t \in (s.first + 1)..(s.last - 1) :
                         /\ \E o \in obs : o.ttl = t
                         /\ \A o \in obs : o.ttl = t => ~Answered(o)
  BY DEF OpaqueHidesAHop
<1> DEFINE n == HopCount(obs, limit)
<1>1. PICK r \in regions : s = ClassifyRegion(obs, n, r)
  <2>1. \A u : DirectEdge(obs, u).type = "direct"
    BY DEF DirectEdge
  <2>2. SilentTail(obs, limit, n).type = "silent_tail"
    BY DEF SilentTail
  <2> QED BY <2>1, <2>2, ReportParts
<1>2. /\ s.type = ClassOf(obs, n, r) /\ s.first = r.first /\ s.last = r.last
      /\ s.ingress = IngressOf(obs, n, r.first) /\ s.egress = EgressOf(obs, n, r.last)
  BY <1>1 DEF ClassifyRegion
<1>3. n = limit /\ limit \in TTLs
  BY HopsOfReport
<1>4. {r.first, r.last} \subseteq VisibleHops(obs, limit)
  BY <1>2, OpaqueRegionHides
<1>5. None \notin {s.ingress, s.egress}
  BY <1>2, <1>3, <1>4, VisibleBoundary
<1>6. \E t \in (r.first + 1)..(r.last - 1) :
        /\ \E o \in obs : o.ttl = t
        /\ \A o \in obs : o.ttl = t => ~Answered(o)
  BY <1>2, OpaqueRegionHides
<1> QED BY <1>2, <1>5, <1>6

(* The silent tail.                                                        *)
LEMMA TailFollows ==
  ASSUME MeasurementInv, PathInv, ReportInv PROVE SilentTailIsSilent
<1> SUFFICES ASSUME Done, NEW s \in Report, s.type = "silent_tail"
             PROVE  /\ \A o \in obs : Answered(o) => o.ttl <= s.first
                    /\ ~\E o \in obs : Terminal(o) /\ MainFlow(o)
                    /\ s.ingress # None /\ s.ingress = Primary(obs, s.first)
  BY DEF SilentTailIsSilent
<1> DEFINE n == HopCount(obs, limit)
<1>1. HasSilentTail(obs, limit) /\ s = SilentTail(obs, limit, n)
  <2>1. \A u : DirectEdge(obs, u).type = "direct"
    BY DEF DirectEdge
  <2>2. \A r : ClassifyRegion(obs, n, r).type = ClassOf(obs, n, r)
    BY DEF ClassifyRegion
  <2>3. \A r : ClassOf(obs, n, r) # "silent_tail"
    BY ClassMeans
  <2> QED BY <2>1, <2>2, <2>3, ReportParts
<1>2. s.first = limit /\ s.ingress = IngressOf(obs, n, limit)
  BY <1>1 DEF SilentTail
<1>3. n = limit /\ limit \in TTLs /\ limit = AnalysisLimit(obs)
  BY HopsOfReport
<1>4. TerminalTtls(obs) = {} /\ BaselineAnswered(obs)
  BY <1>1 DEF HasSilentTail
<1>5. ~\E o \in obs : Terminal(o) /\ MainFlow(o)
  BY <1>4 DEF TerminalTtls
<1>6. LastObservedTtl(obs) = limit
  BY <1>3, <1>4, LastObserved DEF AnalysisLimit, BaselineAnswered, MeasurementInv, TypeOK
<1>7. \A o \in obs : Answered(o) => o.ttl <= limit
  BY <1>6, LastObserved DEF MeasurementInv, TypeOK
<1>8. \E o \in obs : MainFlow(o) /\ Answered(o) /\ o.ttl = limit
  <2>1. limit # 0
    BY <1>3 DEF TTLs
  <2> QED BY <1>4, <2>1 DEF ReportInv, LimitMet
<1>9. limit \in VisibleHops(obs, limit)
  BY <1>3, <1>8, VisibleIsAnswered DEF VisibleHops, TTLs
<1> QED BY <1>2, <1>3, <1>5, <1>7, <1>9, VisibleBoundary

(* A hop the main flow met no answer at was suspicious to the detection.   *)
LEMMA InvisibleIsSuspicious ==
  ASSUME MeasurementInv, PathInv, ReportInv, NEW t, Swept(t), Primary(obs, t) = None
  PROVE  \E family \in Families \ {"global"} : Suspicious(BaselineObs, family, t)
<1>1. PICK m \in obs : m.ttl = t /\ MainFlow(m) /\ m.phase = "baseline-fixed"
  BY DEF Swept
<1>2. ~Answered(m)
  BY <1>1, VisibleIsAnswered
<1> DEFINE seen == FixedAt(BaselineObs, t) \cup CanaryAt(BaselineObs, t)
<1>3. m \in seen
  BY <1>1 DEF FixedAt, BaselineObs
<1>4. CASE \E o \in seen : Answered(o)
  <2>1. Suspicious(BaselineObs, "visibility_intermittent", t)
    BY <1>2, <1>3, <1>4 DEF Suspicious
  <2> QED BY <2>1 DEF Families
<1>5. CASE \A o \in seen : ~Answered(o)
  <2>1. Suspicious(BaselineObs, "visibility_silent", t)
    BY <1>3, <1>5 DEF Suspicious
  <2> QED BY <2>1 DEF Families
<1> QED BY <1>4, <1>5

(* The hops of a report were swept.                                        *)
LEMMA HopsSwept ==
  ASSUME MeasurementInv, PathInv, Done, BaselineAnswered(obs)
  PROVE  \A t \in 1..limit : Swept(t)
<1>1. PICK o \in obs : o.ttl = AnalysisLimit(obs)
  BY LimitIsObserved DEF MeasurementInv, TypeOK, BaselineAnswered
<1> QED BY <1>1, HopsOfReport DEF PathInv

(* The cover of the path.                                                  *)
LEMMA CoverFollows ==
  ASSUME MeasurementInv, PathInv, ReportInv PROVE PathCovered
<1> DEFINE n == HopCount(obs, limit)
<1> SUFFICES ASSUME Done, BaselineAnswered(obs), NEW t \in (1..n) \ {1}
             PROVE  \E s \in Report : s.first < t /\ t <= s.last
  BY DEF PathCovered, Hops
<1> DEFINE u == t - 1
<1>1. n = limit /\ limit \in TTLs /\ limit \in Int
  BY HopsOfReport DEF TTLs
<1>2. PICK lim \in TTLs :
        /\ limit <= lim
        /\ regions \in {{GlobalRegion(lim)}, FindRegions(BaselineObs, lim)}
  BY RegionsOfReport
<1>3. u \in 1..(limit - 1) /\ u \in 1..(lim - 1) /\ u + 1 = t /\ u \in Int
  BY <1>1, <1>2 DEF TTLs
<1>4. CASE u \in CoveredEdges(regions)
  <2>1. PICK r \in regions : u \in r.first..(r.last - 1)
    BY <1>4 DEF CoveredEdges
  <2>2. ClassifyRegion(obs, n, r) \in Report
    BY DEF Report, SummarizeSegments
  <2>3. r.first \in TTLs /\ r.last \in TTLs
    BY RegionOfReport
  <2>4. r.first < t /\ t <= r.last
    BY <1>3, <2>1, <2>3 DEF TTLs
  <2>5. ClassifyRegion(obs, n, r).first = r.first /\ ClassifyRegion(obs, n, r).last = r.last
    BY DEF ClassifyRegion
  <2> QED BY <2>2, <2>4, <2>5
<1>5. CASE u \notin CoveredEdges(regions) /\ {u, u + 1} \subseteq VisibleHops(obs, n)
  <2>1. DirectEdge(obs, u) \in Report
    BY <1>1, <1>3, <1>5 DEF Report, SummarizeSegments, DirectSegments
  <2>2. DirectEdge(obs, u).first = u /\ DirectEdge(obs, u).last = u + 1
    BY DEF DirectEdge
  <2>3. u < t /\ t <= u + 1
    BY <1>3
  <2> QED BY <2>1, <2>2, <2>3
<1>6. CASE u \notin CoveredEdges(regions) /\ ~({u, u + 1} \subseteq VisibleHops(obs, n))
  <2>1. PICK x \in {u, u + 1} : x \notin VisibleHops(obs, n)
    BY <1>6
  <2>2. x \in 1..limit
    BY <1>1, <1>3
  <2>3. Primary(obs, x) = None /\ Swept(x)
    BY <1>1, <2>1, <2>2, HopsSwept DEF VisibleHops
  <2>4. PICK family \in Families \ {"global"} : Suspicious(BaselineObs, family, x)
    BY <2>3, InvisibleIsSuspicious
  <2>5. PICK r \in regions : r.first <= u /\ u < r.last
    BY <1>2, <1>3, <2>4, SuspicionIsCovered
  <2>6. u \in r.first..(r.last - 1)
    <3>1. r.first \in Int /\ r.last \in Int
      BY RegionOfReport DEF TTLs
    <3> QED BY <1>3, <2>5, <3>1
  <2> QED BY <1>6, <2>5, <2>6 DEF CoveredEdges
<1> QED BY <1>4, <1>5, <1>6

(* A TTL that no family suspects was answered by one responder throughout  *)
(* the baseline.                                                           *)
LEMMA UnsuspectedIsClear ==
  ASSUME MeasurementInv, ReportInv, NEW t, Swept(t),
         \A family \in Families \ {"global"} : ~Suspicious(BaselineObs, family, t)
  PROVE  \E w \in Responders : \A o \in BaselineObs : o.ttl = t => o.who = w
<1> DEFINE fixed    == FixedAt(BaselineObs, t)
           others   == CanaryAt(BaselineObs, t)
           fixedWho == WhoIn(fixed)
           otherWho == WhoIn(others)
<1>1. /\ {"visibility_intermittent", "visibility_silent", "temporal", "multipath"}
           \subseteq Families \ {"global"}
      /\ BaselineObs \subseteq obs
  BY DEF Families, BaselineObs
<1>2. /\ ~Suspicious(BaselineObs, "visibility_intermittent", t)
      /\ ~Suspicious(BaselineObs, "visibility_silent", t)
      /\ ~Suspicious(BaselineObs, "temporal", t)
      /\ ~Suspicious(BaselineObs, "multipath", t)
  BY <1>1
<1>3. PICK m \in fixed : TRUE
  BY DEF Swept, FixedAt, BaselineObs
<1>4. \A o \in fixed \cup others : Answered(o)
  BY <1>2, <1>3 DEF Suspicious
<1>5. \A o \in fixed \cup others : o.who # None
  BY <1>4 DEF Answered
<1>6. m.who \in fixedWho
  BY <1>3, <1>5 DEF WhoIn
<1>7. fixedWho = {m.who}
  <2>1. IsFiniteSet(fixedWho)
    <3>1. IsFiniteSet(fixed)
      <4>1. fixed \subseteq obs /\ IsFiniteSet(obs)
        BY DEF FixedAt, BaselineObs, MeasurementInv, TypeOK
      <4> HIDE DEF fixed
      <4> QED BY <4>1, FS_Subset
    <3> DEFINE whos == {o.who : o \in fixed}
               f    == [o \in fixed |-> o.who]
    <3>2. f \in Surjection(fixed, whos)
      BY DEF Surjection
    <3> HIDE DEF f, fixed, whos
    <3>3. IsFiniteSet(whos)
      BY <3>1, <3>2, FS_Surjection
    <3>4. fixedWho \subseteq whos
      BY DEF WhoIn, whos
    <3> QED BY <3>3, <3>4, FS_Subset
  <2>2. ~(Cardinality(fixedWho) > 1)
    BY <1>2 DEF Suspicious
  <2> HIDE DEF fixedWho
  <2>3. Cardinality(fixedWho) \in Nat /\ Cardinality(fixedWho) # 0
    BY <1>6, <2>1, FS_CardinalityType, FS_EmptySet
  <2>4. Cardinality(fixedWho) = 1
    BY <2>2, <2>3
  <2>5. PICK w : fixedWho = {w}
    BY <2>1, <2>4, FS_Singleton
  <2> QED BY <1>6, <2>5
<1>8. otherWho \subseteq {m.who}
  <2>1. otherWho # {} => otherWho \ fixedWho = {}
    BY <1>2, <1>6 DEF Suspicious
  <2> HIDE DEF otherWho, fixedWho
  <2> QED BY <1>7, <2>1
<1>9. m.who \in Responders
  <2>1. m \in Observed
    BY <1>1, <1>3 DEF FixedAt, MeasurementInv, TypeOK
  <2> QED BY <1>3, <1>5, <2>1 DEF Observed
<1>10. ASSUME NEW o \in BaselineObs, o.ttl = t PROVE o.who = m.who
  <2>1. o \in fixed \/ o \in others
    BY <1>10 DEF BaselineObs, FixedAt, CanaryAt
  <2>2. o \in fixed => o.who \in fixedWho
    BY <1>5 DEF WhoIn
  <2>3. o \in others => o.who \in otherWho
    BY <1>5 DEF WhoIn
  <2> HIDE DEF fixed, others, fixedWho, otherWho
  <2> QED BY <1>7, <1>8, <2>1, <2>2, <2>3
<1> QED BY <1>9, <1>10

-----------------------------------------------------------------------------
(* The invariant is inductive.                                             *)

(* What a batch observes is what the network could answer, and to the      *)
(* token of the probe's variant.                                           *)
LEMMA ReceivedFromNetwork ==
  ASSUME MeasurementInv, NEW P, NewBatch(P), NEW reply \in Replies(P)
  PROVE  \A o \in Received(P, reply) :
           /\ FromNetwork(o)
           /\ [kind |-> o.kind, who |-> o.who, mut |-> o.mut] \in net[<<o.ttl, TokenOf(o)>>]
<1>1. /\ P \in SUBSET Specs
      /\ \A p \in P : p.variant = 0 \/ p.variant \in DOMAIN tokens
  BY DEF NewBatch
<1>2. \A p \in P : /\ TokenOf(p) \in FlowTokens /\ (p.variant = 0 => TokenOf(p) = MainToken)
                   /\ PossibleAnswers(p) = net[<<p.ttl, TokenOf(p)>>]
                   /\ PossibleAnswers(p) \in (SUBSET Outcomes) \ {{}}
  <2> TAKE p \in P
  <2>1. TokenOf(p) \in FlowTokens /\ (p.variant = 0 => TokenOf(p) = MainToken)
    BY <1>1 DEF MeasurementInv, TypeOK, TokenOf, FlowTokens
  <2>2. p.ttl \in TTLs
    BY <1>1 DEF Specs
  <2>3. net \in [TTLs \X FlowTokens -> (SUBSET Outcomes) \ {{}}]
    BY NetworkAssumption DEF MeasurementInv, TypeOK
  <2> QED BY <2>1, <2>2, <2>3 DEF PossibleAnswers
<1>3. \A p \in P : reply[p] \in PossibleAnswers(p)
  <2> DEFINE loose == {p \in P : Cardinality(PossibleAnswers(p)) > 1}
             draws == {d \in [loose -> UNION {PossibleAnswers(p) : p \in loose}] :
                         \A p \in loose : d[p] \in PossibleAnswers(p)}
  <2>1. PICK d \in draws :
          reply = [p \in P |-> IF p \in loose THEN d[p]
                               ELSE CHOOSE o \in PossibleAnswers(p) : TRUE]
    BY DEF Replies
  <2> TAKE p \in P
  <2>2. p \in loose => d[p] \in PossibleAnswers(p)
    OBVIOUS
  <2>3. (CHOOSE o \in PossibleAnswers(p) : TRUE) \in PossibleAnswers(p)
    BY <1>2
  <2> HIDE DEF draws, loose
  <2> QED BY <2>1, <2>2, <2>3
<1>4. \A a \in Outcomes : a = [kind |-> a.kind, who |-> a.who, mut |-> a.mut]
  BY DEF Outcomes, Answers, Silence
<1>5. SUFFICES ASSUME NEW o \in Received(P, reply)
               PROVE  /\ FromNetwork(o)
                      /\ [kind |-> o.kind, who |-> o.who, mut |-> o.mut]
                           \in net[<<o.ttl, TokenOf(o)>>]
  OBVIOUS
<1>6. PICK p \in P : /\ o.ttl = p.ttl /\ o.variant = p.variant /\ o.kind = reply[p].kind
                     /\ o.who = reply[p].who /\ o.mut = reply[p].mut
  BY DEF Received
<1>7. [kind |-> o.kind, who |-> o.who, mut |-> o.mut] = reply[p]
  BY <1>2, <1>3, <1>4, <1>6
<1>8. TokenOf(o) = TokenOf(p)
  BY <1>6 DEF TokenOf
<1>9. [kind |-> o.kind, who |-> o.who, mut |-> o.mut] \in net[<<o.ttl, TokenOf(p)>>]
  BY <1>2, <1>3, <1>6, <1>7
<1> QED BY <1>2, <1>6, <1>8, <1>9 DEF FromNetwork, MainFlow

(* What was observed stays possible: the network keeps its behaviour.      *)
LEMMA NetworkStays ==
  ASSUME net' = net PROVE \A o : FromNetwork(o)' <=> FromNetwork(o)
BY DEF FromNetwork

(* Without a terminal, the limit is the TTL of the last answer.            *)
LEMMA LimitOfMainFlow ==
  ASSUME MeasurementInv, \A o \in obs : MainFlow(o),
         TerminalTtls(obs) = {}, BaselineAnswered(obs)
  PROVE  \E o \in obs : MainFlow(o) /\ Answered(o) /\ o.ttl = AnalysisLimit(obs)
BY LastObserved DEF MeasurementInv, TypeOK, AnalysisLimit, BaselineAnswered

(* A step that observes nothing preserves the first two parts if it keeps  *)
(* the limit.                                                              *)
LEMMA QuietReport ==
  ASSUME ReportInv, obs' = obs, net' = net, limit' = limit
  PROVE  /\ \A o \in obs' : FromNetwork(o)' /\ (o.phase = "canary-varied" => ~MainFlow(o))
         /\ LimitMet' /\ BaselineObs' = BaselineObs
<1>1. \A o : FromNetwork(o)' <=> FromNetwork(o)
  BY NetworkStays
<1>2. \A o \in obs : FromNetwork(o) /\ (o.phase = "canary-varied" => ~MainFlow(o))
  BY DEF ReportInv
<1>3. LimitMet' /\ BaselineObs' = BaselineObs
  BY DEF ReportInv, LimitMet, BaselineObs
<1> QED BY <1>1, <1>2, <1>3

(* The stages between detection and report.                                *)
SamplingStages == {"window", "fixed", "varied", "control", "summarize"}

(* Steps that change neither evidence nor limit nor regions.               *)
LEMMA QuietReportSteps ==
  ASSUME ReportInv,
         \/ BeginRound \/ SweepRefused \/ BeginCanary \/ CanariesDone \/ CanaryRefused
         \/ EnterWindow \/ WindowsDone \/ FixedRefused \/ FixedOnlyDone \/ BeginVaried
         \/ DrawToken \/ VariedExhausted \/ VariedDone \/ RunControl \/ BackendFails
         \/ UNCHANGED vars
  PROVE  ReportInv'
<1>1. /\ obs' = obs /\ net' = net /\ limit' = limit /\ regions' = regions
      /\ interrupted' = interrupted /\ work' \subseteq work
      /\ pc' \in BaselineStages \cup CanaryStages => pc \in BaselineStages \cup CanaryStages
      /\ pc' \in SamplingStages => pc \in SamplingStages
      /\ pc' = "done" => pc = "done"
  BY DEF BeginRound, SweepRefused, BeginCanary, CanariesDone, CanaryRefused, EnterWindow,
         WindowsDone, FixedRefused, FixedOnlyDone, BeginVaried, DrawToken, VariedExhausted,
         VariedDone, RunControl, BackendFails, Refuse, LeaveWindow, BaselineStages,
         CanaryStages, SamplingStages, vars, ledger, sweepVars, capVars, verdict
<1>2. /\ \A o \in obs' : FromNetwork(o)' /\ (o.phase = "canary-varied" => ~MainFlow(o))
      /\ LimitMet' /\ BaselineObs' = BaselineObs
  BY <1>1, QuietReport
<1>3. /\ NothingToFind' <=> NothingToFind
      /\ \A lim : RegionsFor(lim)' <=> RegionsFor(lim)
  BY <1>1, <1>2 DEF NothingToFind, RegionsFor
<1>4. /\ regions = {} => obs = BaselineObs /\ work = {}
      /\ pc \in BaselineStages \cup CanaryStages => regions = {}
      /\ pc \in SamplingStages =>
           NothingToFind \/ (interrupted /\ regions = {})
             \/ (limit \in TTLs /\ RegionsFor(limit))
      /\ pc = "done" => NothingToFind \/ \E lim \in TTLs : RegionsFor(lim)
  BY DEF ReportInv, RegionsOfBaseline, SamplingStages, Done
<1>5. RegionsOfBaseline'
  BY <1>1, <1>2, <1>3, <1>4 DEF RegionsOfBaseline, SamplingStages, Done
<1> QED BY <1>2, <1>5 DEF ReportInv

(* An interrupt before detection leaves no regions, one after it leaves    *)
(* those found.                                                            *)
LEMMA InterruptReport ==
  ASSUME ReportInv, Interrupt PROVE ReportInv'
<1>1. /\ obs' = obs /\ net' = net /\ limit' = limit /\ regions' = regions
      /\ interrupted' = TRUE /\ work' = work /\ pc' = "summarize" /\ pc \in TryStages
  BY DEF Interrupt, capVars
<1>2. /\ \A o \in obs' : FromNetwork(o)' /\ (o.phase = "canary-varied" => ~MainFlow(o))
      /\ LimitMet' /\ BaselineObs' = BaselineObs
  BY <1>1, QuietReport
<1>3. /\ NothingToFind' <=> NothingToFind
      /\ \A lim : RegionsFor(lim)' <=> RegionsFor(lim)
  BY <1>1, <1>2 DEF NothingToFind, RegionsFor
<1>4. pc \in BaselineStages \cup CanaryStages \cup SamplingStages
  BY <1>1 DEF TryStages, BaselineStages, CanaryStages, SamplingStages
<1>5. pc \in BaselineStages \cup CanaryStages => regions = {}
  BY DEF ReportInv, RegionsOfBaseline
<1>6. pc \in SamplingStages => NothingToFind \/ (interrupted /\ regions = {})
                                 \/ (limit \in TTLs /\ RegionsFor(limit))
  BY DEF ReportInv, RegionsOfBaseline, SamplingStages
<1>7. regions = {} => obs = BaselineObs /\ work = {}
  BY DEF ReportInv, RegionsOfBaseline
<1>8. pc' \notin BaselineStages \cup CanaryStages /\ pc' # "done"
  BY <1>1 DEF BaselineStages, CanaryStages
<1>9. NothingToFind' \/ (interrupted' /\ regions' = {})
        \/ (limit' \in TTLs /\ RegionsFor(limit)')
  BY <1>1, <1>3, <1>4, <1>5, <1>6
<1>10. RegionsOfBaseline'
  BY <1>1, <1>2, <1>7, <1>8, <1>9 DEF RegionsOfBaseline, Done
<1> QED BY <1>2, <1>10 DEF ReportInv

(* The limit is fixed where the main flow last met an answer; without an   *)
(* answer there is nothing to find.                                        *)
LEMMA FixLimitReport ==
  ASSUME MeasurementInv, PathInv, ReportInv, FixLimit PROVE ReportInv'
<1>1. /\ pc = "limit" /\ obs' = obs /\ net' = net /\ regions' = regions /\ work' = work
      /\ limit' = AnalysisLimit(obs) /\ interrupted' = interrupted
      /\ pc' = IF BaselineAnswered(obs) THEN "canary" ELSE "window"
  BY DEF FixLimit, ledger, capVars, verdict
<1>2. limit = 0 /\ regions = {} /\ obs = BaselineObs /\ work = {}
  BY <1>1 DEF PathInv, LimitInside, BaselineStages, ReportInv, RegionsOfBaseline
<1>3. \A o \in obs : MainFlow(o)
  BY <1>2 DEF ReportInv, LimitMet
<1>4. AnalysisLimit(obs) \in TTLs /\ 0 \notin TTLs
  BY AnalysisLimitType DEF MeasurementInv, TypeOK, TTLs
<1>5. LimitMet'
  BY <1>1, <1>3, <1>4, LimitOfMainFlow DEF LimitMet
<1>6. BaselineObs' = BaselineObs
  BY <1>1 DEF BaselineObs
<1>7. pc' = "window" => NothingToFind'
  BY <1>1, <1>2 DEF NothingToFind
<1>8. RegionsOfBaseline'
  BY <1>1, <1>2, <1>6, <1>7 DEF RegionsOfBaseline, BaselineStages, CanaryStages, Done
<1>9. \A o \in obs' : FromNetwork(o)' /\ (o.phase = "canary-varied" => ~MainFlow(o))
  BY <1>1, NetworkStays DEF ReportInv
<1> QED BY <1>5, <1>8, <1>9 DEF ReportInv

(* Detection finds the regions of the baseline.                            *)
LEMMA DetectRegionsReport ==
  ASSUME MeasurementInv, PathInv, ReportInv, DetectRegions PROVE ReportInv'
<1>1. /\ pc = "regions" /\ pc' = "window" /\ obs' = obs /\ net' = net /\ limit' = limit
      /\ interrupted' = interrupted /\ work' = SamplingWindows(regions')
      /\ regions' = IF GlobalCap THEN {GlobalRegion(limit)} ELSE FindRegions(obs, limit)
  BY DEF DetectRegions, ledger, verdict
<1>2. /\ \A o \in obs' : FromNetwork(o)' /\ (o.phase = "canary-varied" => ~MainFlow(o))
      /\ LimitMet' /\ BaselineObs' = BaselineObs
  BY <1>1, QuietReport
<1>3. obs = BaselineObs
  BY <1>1 DEF ReportInv, RegionsOfBaseline, CanaryStages
<1>4. limit \in TTLs /\ AnalysisLimit(obs) <= limit
  <2>1. limit \in TTLs /\ 0 \notin TTLs
    BY <1>1 DEF MeasurementInv, LoopsInBounds, TTLs
  <2> QED BY <2>1 DEF PathInv, LimitInside
<1>5. regions' \in {{GlobalRegion(limit)}, FindRegions(BaselineObs, limit)}
  <2>1. FindRegions(obs, limit) = FindRegions(BaselineObs, limit)
    BY <1>3
  <2> QED BY <1>1, <2>1
<1>6. RegionsFor(limit)'
  BY <1>1, <1>2, <1>4, <1>5 DEF RegionsFor
<1>7. regions' = {} => work' = {}
  BY <1>1 DEF SamplingWindows, ClusterStarts, VariantRegions
<1>8. RegionsOfBaseline'
  BY <1>1, <1>2, <1>3, <1>4, <1>6, <1>7
     DEF RegionsOfBaseline, BaselineStages, CanaryStages, Done
<1> QED BY <1>2, <1>8 DEF ReportInv

(* The report keeps the regions, or finds those of an interrupted          *)
(* baseline.                                                               *)
LEMMA SummarizeReport ==
  ASSUME MeasurementInv, PathInv, ReportInv, Summarize PROVE ReportInv'
<1>1. /\ pc = "summarize" /\ pc' = "done" /\ obs' = obs /\ net' = net
      /\ limit' = AnalysisLimit(obs) /\ work' = work
      /\ regions' = IF interrupted /\ BaselineAnswered(obs) /\ regions = {}
                    THEN FindRegions(obs, limit') ELSE regions
  BY DEF Summarize, ledger
<1>2. obs \in SUBSET Observed
  BY DEF MeasurementInv, TypeOK
<1>3. AnalysisLimit(obs) \in TTLs /\ 0 \notin TTLs /\ limit \in OrZero(TTLs)
  BY <1>2, AnalysisLimitType DEF MeasurementInv, TypeOK, TTLs
<1>4. AnalysisLimit(obs) \in Int /\ \A t \in TTLs : t \in Int
  BY <1>3 DEF TTLs
<1>5. BaselineObs' = BaselineObs
  BY <1>1 DEF BaselineObs
<1>6. LimitMet'
  <2>1. SUFFICES ASSUME TerminalTtls(obs) = {}, BaselineAnswered(obs)
                 PROVE  \E o \in obs : MainFlow(o) /\ Answered(o) /\ o.ttl = AnalysisLimit(obs)
    BY <1>1, <1>3 DEF LimitMet
  <2>2. CASE limit = 0
    BY <2>1, <2>2, LimitOfMainFlow DEF ReportInv, LimitMet
  <2>3. CASE limit # 0
    <3>1. PICK o \in obs : MainFlow(o) /\ Answered(o) /\ o.ttl = limit
      BY <2>1, <2>3 DEF ReportInv, LimitMet
    <3>2. AnalysisLimit(obs) <= limit
      BY <2>3 DEF PathInv, LimitInside
    <3>3. LastObservedTtl(obs) = AnalysisLimit(obs) /\ limit <= LastObservedTtl(obs)
      BY <1>2, <2>1, <3>1, LastObserved DEF AnalysisLimit
    <3>4. limit \in Int
      BY <1>3, <1>4, <2>3 DEF OrZero
    <3>5. limit = AnalysisLimit(obs)
      BY <1>4, <3>2, <3>3, <3>4
    <3> QED BY <3>1, <3>5
  <2> QED BY <2>2, <2>3
<1>7. regions = {} => obs = BaselineObs /\ work = {}
  BY DEF ReportInv, RegionsOfBaseline
<1>8. NothingToFind \/ (interrupted /\ regions = {})
        \/ (limit \in TTLs /\ RegionsFor(limit))
  BY <1>1 DEF ReportInv, RegionsOfBaseline
<1>9. NothingToFind' \/ \E lim \in TTLs : RegionsFor(lim)'
  <2>1. CASE interrupted /\ BaselineAnswered(obs) /\ regions = {}
    <3>1. regions' = FindRegions(BaselineObs, AnalysisLimit(obs))
      BY <1>1, <1>7, <2>1
    <3>2. AnalysisLimit(obs) <= AnalysisLimit(obs)
      BY <1>4
    <3>3. RegionsFor(AnalysisLimit(obs))'
      BY <1>1, <1>5, <3>1, <3>2 DEF RegionsFor
    <3> QED BY <1>1, <1>3, <3>3
  <2>2. CASE ~BaselineAnswered(obs) /\ regions = {}
    BY <1>1, <2>2 DEF NothingToFind
  <2>3. CASE regions' = regions /\ limit \in TTLs /\ RegionsFor(limit)
    <3>1. AnalysisLimit(obs') <= limit
          /\ regions' \in {{GlobalRegion(limit)}, FindRegions(BaselineObs', limit)}
      BY <1>1, <1>5, <2>3 DEF RegionsFor
    <3> QED BY <2>3, <3>1 DEF RegionsFor
  <2> QED BY <1>1, <1>8, <2>1, <2>2, <2>3 DEF NothingToFind
<1>10. regions' = {} => obs' = BaselineObs' /\ work' = {}
  <2>1. CASE regions = {}
    BY <1>1, <1>5, <1>7, <2>1
  <2>2. CASE regions # {}
    BY <1>1, <2>2
  <2> QED BY <2>1, <2>2
<1>11. RegionsOfBaseline'
  BY <1>1, <1>9, <1>10 DEF RegionsOfBaseline, BaselineStages, CanaryStages, Done
<1>12. \A o \in obs' : FromNetwork(o)' /\ (o.phase = "canary-varied" => ~MainFlow(o))
  BY <1>1, NetworkStays DEF ReportInv
<1> QED BY <1>6, <1>11, <1>12 DEF ReportInv

(* A batch of the stage under way preserves the invariant.                 *)
LEMMA SendReport ==
  ASSUME MeasurementInv, PathInv, ReportInv, PathInv',
         NEW P, NewBatch(P), Fits(P), NEW reply \in Replies(P), NEW c,
         Deliver(P, reply, c),
         net' = net, limit' = limit, regions' = regions, work' = work,
         \/ /\ pc = "sweep"
            /\ \A p \in P : p.variant = 0 /\ p.phase = "baseline-fixed"
         \/ /\ pc = "canarySweep"
            /\ \A p \in P : p.variant # 0 /\ p.phase = "canary-varied"
         \/ /\ pc \in {"fixed", "varied"}
            /\ \A p \in P : p.phase \in {"dbp-fixed", "dbp-varied"},
         \/ /\ pc \in {"sweep", "canarySweep"}
            /\ \/ pc' \in BaselineStages \cup CanaryStages
               \/ pc' = "summarize" /\ interrupted'
         \/ pc \in {"fixed", "varied"} /\ pc' = pc /\ interrupted' = interrupted
  PROVE  ReportInv'
<1> DEFINE R == Received(P, reply)
<1>1. pc \in TryStages
  BY DEF TryStages
<1>2. obs' = obs \cup R /\ R \in SUBSET Observed
  BY <1>1, SendLedger
<1>3. \A o \in R : \E p \in P : o.variant = p.variant /\ o.phase = p.phase
  BY DEF Received
<1>4. \A o \in obs' : FromNetwork(o)' /\ (o.phase = "canary-varied" => ~MainFlow(o))
  <2>1. \A o \in R : FromNetwork(o)
    BY ReceivedFromNetwork
  <2>2. \A o \in R : o.phase = "canary-varied" => ~MainFlow(o)
    BY <1>3 DEF MainFlow
  <2> HIDE DEF R
  <2> QED BY <1>2, <2>1, <2>2, NetworkStays DEF ReportInv
<1>5. pc \in BaselineStages => limit = 0
  BY DEF PathInv, LimitInside
<1>6. pc # "sweep" => limit \in TTLs
  <2>1. pc = "canarySweep" => limit \in TTLs
    BY DEF MeasurementInv, LoopsInBounds
  <2>2. CASE pc \in {"fixed", "varied"}
    <3> DEFINE Q == CASE pc = "canarySweep" -> CanarySpecs
                      [] pc = "fixed" -> FixedSpecs
                      [] pc = "varied" -> VariedSpecs
    <3> HIDE DEF Q
    <3> QED BY <2>2, InsideBatch DEF Q
  <2> QED BY <2>1, <2>2
<1>7. 0 \notin TTLs
  BY DEF TTLs
<1>8. pc # "sweep" => \A o \in R : o.phase # "baseline-fixed"
  BY <1>3
<1>9. pc # "sweep" => (BaselineAnswered(obs') <=> BaselineAnswered(obs))
  <2> HIDE DEF R
  <2> QED BY <1>2, <1>8 DEF BaselineAnswered
<1>10. TerminalTtls(obs') = {} => TerminalTtls(obs) = {}
  <2> HIDE DEF R
  <2> QED BY <1>2 DEF TerminalTtls
<1>11. LimitMet'
  <2>1. CASE pc = "sweep"
    <3>1. limit = 0 /\ limit' = 0
      BY <1>5, <2>1 DEF BaselineStages
    <3>2. \A o \in R : MainFlow(o)
      BY <1>3, <2>1 DEF MainFlow
    <3>3. \A o \in obs : MainFlow(o)
      BY <3>1 DEF ReportInv, LimitMet
    <3> HIDE DEF R
    <3> QED BY <1>2, <3>1, <3>2, <3>3 DEF LimitMet
  <2>2. CASE pc # "sweep"
    <3>1. limit # 0
      BY <1>6, <1>7, <2>2
    <3> HIDE DEF R
    <3> QED BY <1>2, <1>9, <1>10, <2>2, <3>1 DEF ReportInv, LimitMet
  <2> QED BY <2>1, <2>2
<1>12. RegionsOfBaseline'
  <2>1. CASE pc \in {"sweep", "canarySweep"}
    <3>1. regions = {} /\ obs = BaselineObs /\ work = {}
      BY <2>1 DEF ReportInv, RegionsOfBaseline, BaselineStages, CanaryStages
    <3>2. \A o \in R : o.phase \in {"baseline-fixed", "canary-varied"}
      BY <1>3, <2>1
    <3>3. obs' = BaselineObs'
      <4> HIDE DEF R
      <4> QED BY <1>2, <3>1, <3>2 DEF BaselineObs
    <3>4. pc' # "done" /\ (pc' \in {"window", "fixed", "varied", "control", "summarize"}
                             => interrupted')
      BY <2>1 DEF BaselineStages, CanaryStages
    <3> QED BY <3>1, <3>3, <3>4 DEF RegionsOfBaseline, Done
  <2>2. CASE pc \in {"fixed", "varied"}
    <3>1. work # {}
      BY <2>2 DEF MeasurementInv, LoopsInBounds
    <3>2. regions # {}
      BY <3>1 DEF ReportInv, RegionsOfBaseline
    <3>3. limit \in TTLs /\ RegionsFor(limit)
      BY <2>2, <3>2 DEF ReportInv, RegionsOfBaseline, NothingToFind
    <3>4. BaselineObs' = BaselineObs
      BY <1>1, <2>2, SplitOfBatch
    <3>5. AnalysisLimit(obs') <= limit'
      BY <1>7, <3>3 DEF PathInv, LimitInside
    <3>6. RegionsFor(limit)'
      BY <3>3, <3>4, <3>5 DEF RegionsFor
    <3>7. pc' \in {"fixed", "varied"}
      BY <2>2
    <3>8. pc' \notin BaselineStages \cup CanaryStages /\ pc' # "done"
      BY <3>7 DEF BaselineStages, CanaryStages
    <3> QED BY <3>2, <3>3, <3>6, <3>8 DEF RegionsOfBaseline, Done
  <2> QED BY <2>1, <2>2
<1> QED BY <1>4, <1>11, <1>12 DEF ReportInv

(* The sends of the running stage.                                         *)
LEMMA SendsReport ==
  ASSUME MeasurementInv, PathInv, ReportInv, PathInv',
         SweepChunk \/ CanaryChunk \/ FixedSample \/ VariedSamples
  PROVE  ReportInv'
<1>1. CASE SweepChunk
  <2>1. pc = "sweep" /\ NewBatch(SweepSpecs) /\ Fits(SweepSpecs)
    BY <1>1, SweepBatch DEF SweepChunk
  <2>2. \A p \in SweepSpecs : p.variant = 0 /\ p.phase = "baseline-fixed"
    BY <2>1, SweepBatch
  <2>3. PICK reply \in Replies(SweepSpecs) :
          Deliver(SweepSpecs, reply, Cardinality(SweepSpecs))
    BY <1>1 DEF SweepChunk
  <2>4. /\ net' = net /\ limit' = limit /\ regions' = regions /\ work' = work
        /\ pc' \in {"sweep", "limit", "round"}
    BY <1>1, <2>1 DEF SweepChunk, capVars
  <2>5. pc' \in BaselineStages
    BY <2>4 DEF BaselineStages
  <2> QED BY <2>1, <2>2, <2>3, <2>4, <2>5, SendReport
<1>2. CASE CanaryChunk
  <2>1. pc = "canarySweep" /\ NewBatch(CanarySpecs) /\ Fits(CanarySpecs)
    BY <1>2, CanaryBatch DEF CanaryChunk
  <2>2. \A p \in CanarySpecs : p.variant # 0 /\ p.phase = "canary-varied"
    <3>1. canary # 0
      BY <2>1 DEF MeasurementInv, TypeOK, LoopsInBounds
    <3> QED BY <2>1, <3>1, CanaryBatch
  <2>3. PICK reply \in Replies(CanarySpecs) :
          Deliver(CanarySpecs, reply, Cardinality(CanarySpecs))
    BY <1>2 DEF CanaryChunk
  <2>4. /\ net' = net /\ limit' = limit /\ regions' = regions /\ work' = work
        /\ pc' \in {"canarySweep", "canary"}
    BY <1>2, <2>1 DEF CanaryChunk, capVars
  <2>5. pc' \in CanaryStages
    BY <2>4 DEF CanaryStages
  <2> QED BY <2>1, <2>2, <2>3, <2>4, <2>5, SendReport
<1>3. CASE FixedSample
  <2>1. pc = "fixed" /\ NewBatch(FixedSpecs) /\ Fits(FixedSpecs)
    BY <1>3, FixedBatch DEF FixedSample
  <2>2. \A p \in FixedSpecs : p.phase \in {"dbp-fixed", "dbp-varied"}
    BY PhaseOfBatch
  <2>3. PICK reply \in Replies(FixedSpecs) : Deliver(FixedSpecs, reply, 0)
    BY <1>3 DEF FixedSample
  <2>4. /\ net' = net /\ limit' = limit /\ regions' = regions /\ work' = work
        /\ pc' = pc /\ interrupted' = interrupted
    BY <1>3 DEF FixedSample, verdict
  <2> QED BY <2>1, <2>2, <2>3, <2>4, SendReport
<1>4. CASE VariedSamples
  <2>1. pc = "varied" /\ NewBatch(VariedSpecs) /\ Fits(VariedSpecs)
    BY <1>4, VariedBatchIsNew DEF VariedSamples
  <2>2. \A p \in VariedSpecs : p.phase \in {"dbp-fixed", "dbp-varied"}
    BY PhaseOfBatch
  <2>3. PICK reply \in Replies(VariedSpecs) : Deliver(VariedSpecs, reply, 0)
    BY <1>4 DEF VariedSamples
  <2>4. /\ net' = net /\ limit' = limit /\ regions' = regions /\ work' = work
        /\ pc' = pc /\ interrupted' = interrupted
    BY <1>4 DEF VariedSamples, verdict
  <2> QED BY <2>1, <2>2, <2>3, <2>4, SendReport
<1> QED BY <1>1, <1>2, <1>3, <1>4

(* The batch an interrupt cuts inside _send.                               *)
LEMMA CutReport ==
  ASSUME MeasurementInv, PathInv, ReportInv, PathInv', InterruptBeforeCount
  PROVE  ReportInv'
<1>1. /\ pc \in {"sweep", "canarySweep"} /\ pc' = "summarize" /\ interrupted' = TRUE
      /\ InFlight # {}
      /\ net' = net /\ limit' = limit /\ regions' = regions /\ work' = work
  BY DEF InterruptBeforeCount, capVars
<1>2. PICK reply \in Replies(InFlight) : Deliver(InFlight, reply, 0)
  BY DEF InterruptBeforeCount
<1>3. /\ NewBatch(InFlight) /\ Fits(InFlight)
      /\ pc = "sweep" => InFlight \in SUBSET SweepSpecs
      /\ pc = "canarySweep" => InFlight \in SUBSET CanarySpecs
  BY InFlightIsNew
<1>4. pc = "sweep" => \A p \in InFlight : p.variant = 0 /\ p.phase = "baseline-fixed"
  BY <1>3, SweepBatch
<1>5. pc = "canarySweep" =>
        \A p \in InFlight : p.variant # 0 /\ p.phase = "canary-varied"
  <2>1. pc = "canarySweep" => canary # 0
    BY DEF MeasurementInv, TypeOK, LoopsInBounds
  <2> QED BY <1>3, <2>1, CanaryBatch
<1>6. CASE pc = "sweep"
  BY <1>1, <1>2, <1>3, <1>4, <1>6, SendReport
<1>7. CASE pc = "canarySweep"
  BY <1>1, <1>2, <1>3, <1>5, <1>7, SendReport
<1> QED BY <1>1, <1>6, <1>7

(* ReportInv holds initially.                                              *)
LEMMA InitialReport == Init => ReportInv
<1> SUFFICES ASSUME Init PROVE ReportInv
  OBVIOUS
<1>1. obs = {} /\ limit = 0 /\ regions = {} /\ work = {} /\ pc = "round"
  BY DEF Init
<1>2. LimitMet
  BY <1>1 DEF LimitMet
<1>3. RegionsOfBaseline
  BY <1>1 DEF RegionsOfBaseline, BaselineObs, Done
<1> QED BY <1>1, <1>2, <1>3 DEF ReportInv

(* ReportInv is inductive; one case per kind of step.                      *)
LEMMA ReportStep ==
  ASSUME MeasurementInv, PathInv, ReportInv, [Next]_vars PROVE ReportInv'
<1>1. PathInv'
  BY PathStep
<1>2. CASE \/ BeginRound \/ SweepRefused \/ BeginCanary \/ CanariesDone \/ CanaryRefused
           \/ EnterWindow \/ WindowsDone \/ FixedRefused \/ FixedOnlyDone \/ BeginVaried
           \/ DrawToken \/ VariedExhausted \/ VariedDone \/ RunControl \/ BackendFails
           \/ UNCHANGED vars
  BY <1>2, QuietReportSteps
<1>3. CASE Interrupt
  BY <1>3, InterruptReport
<1>4. CASE FixLimit
  BY <1>4, FixLimitReport
<1>5. CASE DetectRegions
  BY <1>5, DetectRegionsReport
<1>6. CASE Summarize
  BY <1>6, SummarizeReport
<1>7. CASE SweepChunk \/ CanaryChunk \/ FixedSample \/ VariedSamples
  BY <1>1, <1>7, SendsReport
<1>8. CASE InterruptBeforeCount
  BY <1>1, <1>8, CutReport
<1> QED BY <1>2, <1>3, <1>4, <1>5, <1>6, <1>7, <1>8 DEF Next, Proceed

-----------------------------------------------------------------------------
(* The theorems about the report.                                          *)

(* ReportInv holds in every reachable state: what is reported was said by  *)
(* the network, and the regions are those of the baseline for a limit the  *)
(* report does not exceed.                                                 *)
THEOREM ReportIsInvariant == Spec => []ReportInv
<1>1. MeasurementInv /\ PathInv /\ ReportInv /\ [Next]_vars => ReportInv'
  BY ReportStep
<1> QED BY <1>1, InitialReport, MeasurementIsInvariant, PathIsInvariant, PTL DEF Spec

(* Every edge between two reported hops lies in a segment, whatever was    *)
(* sampled between the detection of the regions and the report.            *)
THEOREM PathIsCovered == Spec => []PathCovered
<1>1. MeasurementInv /\ PathInv /\ ReportInv => PathCovered
  BY CoverFollows
<1> QED BY <1>1, MeasurementIsInvariant, PathIsInvariant, ReportIsInvariant, PTL

(* Between the visible ends of an opaque segment some probed TTL never     *)
(* answered on any flow.                                                   *)
THEOREM OpaqueIsGrounded == Spec => []OpaqueHidesAHop
<1>1. MeasurementInv /\ PathInv /\ ReportInv => OpaqueHidesAHop
  BY OpaqueFollows
<1> QED BY <1>1, MeasurementIsInvariant, PathIsInvariant, ReportIsInvariant, PTL

(* Beyond the ingress of a silent tail nothing answered on any flow, and   *)
(* the main flow met no terminal.                                          *)
THEOREM TailIsSilent == Spec => []SilentTailIsSilent
<1>1. MeasurementInv /\ PathInv /\ ReportInv => SilentTailIsSilent
  BY TailFollows
<1> QED BY <1>1, MeasurementIsInvariant, PathIsInvariant, ReportIsInvariant, PTL

=============================================================================
