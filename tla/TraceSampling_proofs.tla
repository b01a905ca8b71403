------------------------- MODULE TraceSampling_proofs -------------------------
(***************************************************************************)
(* What adaptive sampling achieves, for every configuration and every      *)
(* network: no silent gap goes unreported, every region of a measurement   *)
(* that ran to its end within the budget is sampled as often as was asked, *)
(* a certificate of flow coverage rests on as many different flow tokens   *)
(* as it requires, no probe contradicts a DIRECT edge, and a class says no *)
(* more than the network does.  SamplingInv is inductive beside the        *)
(* invariants proved before.                                               *)
(***************************************************************************)
EXTENDS TraceReport_proofs

-----------------------------------------------------------------------------
(* Silent gaps.                                                            *)

(* A region that hides a silent TTL between two visible ends is OPAQUE, if *)
(* it was found for its silence.                                           *)
LEMMA SilentRegionIsOpaque ==
  ASSUME NEW E, NEW n, NEW r, r.family = "visibility_silent",
         AlwaysMissing(FixedIn(E, r.ttls) \cup VariedIn(E, r.ttls)) # {},
         HasVisibleBoundaries(E, n, r)
  PROVE  ClassOf(E, n, r) = "opaque"
<1> DEFINE table == Verdicts(E, n, r)
           holding == {i \in DOMAIN table : table[i].holds}
<1>1. /\ DOMAIN table = 1..11
      /\ ~table[1].holds /\ ~table[2].holds /\ table[3].holds
      /\ table[3].type = "opaque"
  <2>1. DOMAIN table = 1..11 /\ table[3].type = "opaque"
    BY DEF Verdicts
  <2>2. table[1].holds => r.family = "temporal"
    BY DEF Verdicts
  <2>3. table[2].holds => r.family = "multipath"
    BY DEF Verdicts
  <2>4. table[3].holds
    BY DEF Verdicts
  <2> HIDE DEF table
  <2> QED BY <2>1, <2>2, <2>3, <2>4
<1> HIDE DEF table
<1>2. holding \in SUBSET Nat /\ 3 \in holding
  BY <1>1
<1>3. Min(holding) \in holding /\ \A i \in holding : Min(holding) <= i
  <2> HIDE DEF holding
  <2> QED BY <1>2, MinOfNats
<1>4. \A i \in holding : i >= 3
  <2>1. \A i \in holding : i \in 1..11 /\ i # 1 /\ i # 2
    BY <1>1
  <2> HIDE DEF holding
  <2> QED BY <2>1
<1>5. Min(holding) = 3
  <2> DEFINE m == Min(holding)
  <2>1. m \in Nat /\ m <= 3 /\ m >= 3
    <3> HIDE DEF holding, m
    <3>1. m \in holding /\ \A i \in holding : m <= i
      BY <1>3 DEF m
    <3> QED BY <1>2, <1>4, <3>1
  <2> HIDE DEF m
  <2>2. m = 3
    BY <2>1
  <2> QED BY <2>2 DEF m
<1> QED BY <1>1, <1>5 DEF ClassOf, table

(* At a TTL where no flow ever meets an answer nothing was observed to     *)
(* answer; where the main flow always does, every probe of it was.         *)
LEMMA AnswersFollowNetwork ==
  ASSUME MeasurementInv, ReportInv, NEW o \in obs
  PROVE  /\ NeverAnswers(o.ttl) => ~Answered(o)
         /\ AlwaysAnswers(o.ttl) /\ MainFlow(o) => Answered(o)
<1>1. PICK f \in FlowTokens :
        /\ MainFlow(o) => f = MainToken
        /\ \E a \in net[<<o.ttl, f>>] : /\ a.who = o.who
                                        /\ Answered(o) <=> o.who # None
                                        /\ ~Answered(o) => a = Silence
  BY AnswersNameResponders
<1>2. Silence.who = None
  BY DEF Silence
<1> QED BY <1>1, <1>2 DEF NeverAnswers, AlwaysAnswers

(* A region around a run that starts after the first TTL and ends before   *)
(* the limit has its ends just outside, and probes the first TTL inside.   *)
LEMMA RegionOfGap ==
  ASSUME NEW family, NEW lim \in TTLs, NEW lo \in 2..lim, NEW hi \in 1..(lim - 1), lo <= hi
  PROVE  LET r == RegionAround(family, lo, hi, lim)
         IN  /\ r.family = family
             /\ r.first = lo - 1 /\ r.last = hi + 1 /\ lo \in r.ttls
<1>1. lim \in Int /\ lo \in Int /\ hi \in Int
  BY DEF TTLs
<1>2. Max({1, lo - 1}) = lo - 1
  BY <1>1, MaxOfTwo
<1>3. Min({lim, hi + 1}) = hi + 1
  BY <1>1, MinOfTwo
<1>4. lo \in ProbeTtls(lo - 1, hi + 1)
  <2>1. lo \in (lo - 1)..(hi + 1) /\ lo = (lo - 1) + 1
    BY <1>1
  <2> QED BY <2>1 DEF ProbeTtls
<1> QED BY <1>2, <1>3, <1>4 DEF RegionAround

(* The gap between two TTLs that always answer is a maximal run of silent  *)
(* TTLs of the baseline, also within a larger limit.                       *)
LEMMA GapIsRun ==
  ASSUME MeasurementInv, PathInv, ReportInv, Done, BaselineAnswered(obs),
         NEW lim \in TTLs, limit <= lim,
         NEW lo \in 2..limit, NEW hi \in 1..(limit - 1), lo <= hi,
         \A t \in lo..hi : NeverAnswers(t),
         AlwaysAnswers(lo - 1), AlwaysAnswers(hi + 1)
  PROVE  <<lo, hi>> \in Runs({t \in 1..lim : Suspicious(BaselineObs, "visibility_silent", t)})
<1> DEFINE S == {t \in 1..lim : Suspicious(BaselineObs, "visibility_silent", t)}
<1>1. lim \in Int /\ lo \in Int /\ hi \in Int /\ limit \in Int
  BY HopsOfReport DEF TTLs
<1>2. \A t \in 1..limit : \E o \in FixedAt(BaselineObs, t) : o \in obs /\ MainFlow(o)
  <2>1. \A t \in 1..limit : Swept(t)
    BY HopsSwept
  <2> QED BY <2>1 DEF Swept, FixedAt, BaselineObs
<1>3. \A t : \A o \in FixedAt(BaselineObs, t) \cup CanaryAt(BaselineObs, t) :
        o \in obs /\ o.ttl = t
  BY DEF FixedAt, CanaryAt, BaselineObs
<1>4. \A t : Suspicious(BaselineObs, "visibility_silent", t) <=>
        /\ FixedAt(BaselineObs, t) \cup CanaryAt(BaselineObs, t) # {}
        /\ \A o \in FixedAt(BaselineObs, t) \cup CanaryAt(BaselineObs, t) : ~Answered(o)
  BY DEF Suspicious
<1>5. lo..hi \subseteq S
  <2> SUFFICES ASSUME NEW t \in lo..hi PROVE t \in S
    OBVIOUS
  <2>1. t \in 1..limit /\ t \in 1..lim /\ NeverAnswers(t)
    BY <1>1
  <2>2. \A o \in FixedAt(BaselineObs, t) \cup CanaryAt(BaselineObs, t) : ~Answered(o)
    BY <1>3, <2>1, AnswersFollowNetwork
  <2> QED BY <1>2, <1>4, <2>1, <2>2
<1>6. ASSUME NEW t \in {lo - 1, hi + 1} PROVE t \notin S
  <2>1. t \in 1..limit /\ AlwaysAnswers(t)
    BY <1>1
  <2>2. PICK o \in FixedAt(BaselineObs, t) : o \in obs /\ MainFlow(o)
    BY <1>2, <2>1
  <2>3. Answered(o)
    BY <1>3, <2>1, <2>2, AnswersFollowNetwork
  <2> QED BY <1>4, <2>2, <2>3
<1>7. lo \in S /\ hi \in S
  BY <1>1, <1>5
<1> HIDE DEF S
<1>8. <<lo, hi>> \in Runs(S)
  BY <1>5, <1>6, <1>7 DEF Runs
<1> QED BY <1>8 DEF S

(* The report of a silent gap.                                             *)
LEMMA GapFollows ==
  ASSUME MeasurementInv, PathInv, ReportInv, SamplingInv PROVE SilentGapsReported
<1> SUFFICES ASSUME Done, BaselineAnswered(obs), ~GlobalCap,
                    NEW r \in Runs({t \in Hops : NeverAnswers(t)}),
                    {r[1] - 1, r[2] + 1} \subseteq {t \in Hops : AlwaysAnswers(t)}
             PROVE  \E s \in Report : s.type = "opaque" /\ s.first = r[1] - 1
                                                        /\ s.last = r[2] + 1
  BY DEF SilentGapsReported
<1> DEFINE lo == r[1]
           hi == r[2]
<1>1. limit \in TTLs /\ Hops = 1..limit /\ HopCount(obs, limit) = limit
  BY HopsOfReport DEF Hops
<1>2. /\ lo \in 1..limit /\ hi \in 1..limit /\ lo <= hi
      /\ \A t \in lo..hi : NeverAnswers(t)
  BY <1>1 DEF Runs
<1>3. /\ lo - 1 \in 1..limit /\ AlwaysAnswers(lo - 1)
      /\ hi + 1 \in 1..limit /\ AlwaysAnswers(hi + 1)
  BY <1>1
<1> HIDE DEF lo, hi
<1>4. limit \in Int /\ lo \in 2..limit /\ hi \in 1..(limit - 1)
  BY <1>1, <1>2, <1>3 DEF TTLs
<1>5. PICK lim \in TTLs :
        /\ limit <= lim
        /\ regions \in {{GlobalRegion(lim)}, FindRegions(BaselineObs, lim)}
  BY RegionsOfReport
<1>6. regions = FindRegions(BaselineObs, lim)
  <2>1. \A q \in regions : q.family # "global"
    BY DEF SamplingInv
  <2>2. GlobalRegion(lim).family = "global"
    BY DEF GlobalRegion
  <2> QED BY <1>5, <2>1, <2>2
<1> DEFINE q == RegionAround("visibility_silent", lo, hi, lim)
<1>7. q \in regions
  <2>1. <<lo, hi>> \in
          Runs({t \in 1..lim : Suspicious(BaselineObs, "visibility_silent", t)})
    BY <1>2, <1>3, <1>4, <1>5, GapIsRun
  <2>2. "visibility_silent" \in Families \ {"global"}
    BY DEF Families
  <2>3. <<lo, hi>>[1] = lo /\ <<lo, hi>>[2] = hi
    OBVIOUS
  <2>4. q \in {RegionAround("visibility_silent", x[1], x[2], lim) :
                 x \in Runs({t \in 1..lim :
                               Suspicious(BaselineObs, "visibility_silent", t)})}
    BY <2>1, <2>3
  <2> HIDE DEF q
  <2> QED BY <1>6, <2>2, <2>4 DEF FindRegions
<1>8. /\ q.family = "visibility_silent"
      /\ q.first = lo - 1 /\ q.last = hi + 1 /\ lo \in q.ttls
  <2>1. lim \in Int
    BY DEF TTLs
  <2>2. lo \in 2..lim /\ hi \in 1..(lim - 1)
    BY <1>4, <1>5, <2>1
  <2> QED BY <1>2, <2>2, RegionOfGap
<1> HIDE DEF q
<1>9. \A t \in 1..limit : \E o \in obs : MainFlow(o) /\ o.ttl = t
  BY HopsSwept DEF Swept
<1>10. AlwaysMissing(FixedIn(obs, q.ttls) \cup VariedIn(obs, q.ttls)) # {}
  <2>1. PICK o \in obs : MainFlow(o) /\ o.ttl = lo
    BY <1>2, <1>9
  <2>2. NeverAnswers(lo)
    BY <1>2, <1>4
  <2>3. \A p \in obs : p.ttl = lo => ~Answered(p)
    BY <2>2, AnswersFollowNetwork
  <2>4. lo \in AlwaysMissing(FixedIn(obs, q.ttls) \cup VariedIn(obs, q.ttls))
    BY <1>8, <2>1, <2>3 DEF AlwaysMissing, FixedIn, VariedIn
  <2> QED BY <2>4
<1>11. HasVisibleBoundaries(obs, limit, q)
  <2>1. \A t \in 1..limit : AlwaysAnswers(t) => Primary(obs, t) # None
    BY <1>9, AnswersFollowNetwork, VisibleIsAnswered
  <2> QED BY <1>3, <1>8, <2>1 DEF HasVisibleBoundaries, VisibleHops
<1>12. ClassOf(obs, limit, q) = "opaque"
  BY <1>8, <1>10, <1>11, SilentRegionIsOpaque
<1>13. ClassifyRegion(obs, limit, q) \in Report
  BY <1>1, <1>7 DEF Report, SummarizeSegments
<1>14. /\ ClassifyRegion(obs, limit, q).type = "opaque"
       /\ ClassifyRegion(obs, limit, q).first = lo - 1
       /\ ClassifyRegion(obs, limit, q).last = hi + 1
  BY <1>8, <1>12 DEF ClassifyRegion
<1> QED BY <1>13, <1>14 DEF lo, hi

-----------------------------------------------------------------------------
(* Counting complete samples.                                              *)

(* A sample is complete if some observation of its axis has its id, and    *)
(* every TTL of the window was probed with it on that axis.                *)
LEMMA CompleteMeans ==
  ASSUME NEW E, NEW S, NEW varied \in BOOLEAN, NEW s
  PROVE  s \in CompleteSamples(E, S, varied) <=>
           /\ \E o \in E : (o.variant # 0) = varied /\ o.sample = s
           /\ \A t \in S : \E o \in E : (o.variant # 0) = varied /\ o.sample = s /\ o.ttl = t
BY DEF CompleteSamples

(* More observations and fewer TTLs leave no fewer complete samples.       *)
LEMMA CompleteGrows ==
  ASSUME NEW F, IsFiniteSet(F), NEW E \in SUBSET F,
         NEW T, NEW S \in SUBSET T, NEW varied \in BOOLEAN
  PROVE  /\ CompleteSamples(E, T, varied) \subseteq CompleteSamples(F, S, varied)
         /\ CompleteSampleCount(E, T, varied) <= CompleteSampleCount(F, S, varied)
<1>1. CompleteSamples(E, T, varied) \subseteq CompleteSamples(F, S, varied)
  BY CompleteMeans
<1>2. IsFiniteSet(CompleteSamples(F, S, varied))
  BY CompleteCountType
<1> QED BY <1>1, <1>2, FS_Subset DEF CompleteSampleCount

(* A range of ids that became complete and were not adds its length.       *)
LEMMA CompleteAdds ==
  ASSUME NEW F, IsFiniteSet(F), NEW E \in SUBSET F, NEW S, NEW varied \in BOOLEAN,
         NEW low \in Nat, NEW n \in Nat,
         \A s \in low..(low + n - 1) : s \in CompleteSamples(F, S, varied),
         \A o \in E : o.sample \in Nat /\ o.sample < low
  PROVE  CompleteSampleCount(F, S, varied) >= CompleteSampleCount(E, S, varied) + n
<1> DEFINE old == CompleteSamples(E, S, varied)
           new == low..(low + n - 1)
           all == CompleteSamples(F, S, varied)
<1>1. IsFiniteSet(E)
  BY FS_Subset
<1>2. IsFiniteSet(old) /\ IsFiniteSet(all) /\ old \subseteq all
  BY <1>1, CompleteCountType, CompleteGrows
<1>3. IsFiniteSet(new) /\ Cardinality(new) = n
  <2>1. low \in Int /\ low + n - 1 \in Int
    OBVIOUS
  <2>2. Cardinality(new) = IF low > low + n - 1 THEN 0 ELSE (low + n - 1) - low + 1
    BY <2>1, FS_Interval
  <2> QED BY <2>1, <2>2, FS_Interval
<1>4. old \cap new = {}
  <2>1. \A s \in old : s \in Nat /\ s < low
    BY CompleteMeans
  <2> HIDE DEF old
  <2> QED BY <2>1
<1>5. old \cup new \subseteq all
  BY <1>2
<1> HIDE DEF old, new, all
<1>6. Cardinality({}) = 0
  BY FS_EmptySet
<1>7. Cardinality(old \cup new) = Cardinality(old) + n /\ Cardinality(old) \in Nat
  <2>1. Cardinality(old) \in Nat
    BY <1>2, FS_CardinalityType
  <2>2. Cardinality(old \cup new)
          = Cardinality(old) + Cardinality(new) - Cardinality(old \cap new)
    BY <1>2, <1>3, FS_Union
  <2>3. Cardinality(old \cap new) = 0
    BY <1>4, <1>6, Zenon
  <2>4. Cardinality(old) + Cardinality(new) - Cardinality(old \cap new)
          = Cardinality(old) + n
    BY <1>3, <2>1, <2>3
  <2> QED BY <2>1, <2>2, <2>4, Zenon
<1>8. Cardinality(old \cup new) <= Cardinality(all)
  BY <1>2, <1>5, FS_Subset
<1>9. Cardinality(all) \in Nat
  BY <1>2, FS_CardinalityType
<1>10. Cardinality(all) >= Cardinality(old) + n
  BY <1>7, <1>8, <1>9
<1> QED BY <1>10 DEF old, all, CompleteSampleCount

(* As many samples as there are canaries are complete in a window that     *)
(* every canary swept.                                                     *)
LEMMA CanariesCount ==
  ASSUME MeasurementInv, NEW S \in SUBSET (1..limit), S # {},
         \A c \in 1..CanaryFlows : CanarySwept(c, limit)
  PROVE  CompleteSampleCount(obs, S, TRUE) >= CanaryFlows
<1> DEFINE C == CompleteSamples(obs, S, TRUE)
           Of(c, s) == \A t \in S : \E o \in obs : o.sample = s /\ o.ttl = t /\ o.variant = c
           f == [c \in 1..CanaryFlows |-> CHOOSE s \in C : Of(c, s)]
<1>1. PICK t \in S : TRUE
  OBVIOUS
<1>2. ASSUME NEW c \in 1..CanaryFlows PROVE \E s \in C : Of(c, s)
  <2>1. PICK s \in 0..nextSample : \A u \in 1..limit :
          \E o \in obs : o.sample = s /\ o.ttl = u /\ o.variant = c
    BY DEF CanarySwept
  <2>2. Of(c, s)
    BY <2>1
  <2>3. c # 0
    OBVIOUS
  <2>4. \A u \in S : \E o \in obs : o.variant # 0 /\ o.sample = s /\ o.ttl = u
    BY <2>2, <2>3
  <2>5. s \in C
    BY <1>1, <2>4 DEF CompleteSamples
  <2> QED BY <2>2, <2>5
<1>3. \A c \in 1..CanaryFlows : f[c] \in C /\ Of(c, f[c])
  <2> HIDE DEF C, Of
  <2> QED BY <1>2
<1>4. \A c, d \in 1..CanaryFlows : f[c] = f[d] => c = d
  <2> SUFFICES ASSUME NEW c \in 1..CanaryFlows, NEW d \in 1..CanaryFlows, f[c] = f[d]
               PROVE  c = d
    OBVIOUS
  <2> HIDE DEF f
  <2>1. PICK a \in obs : a.sample = f[c] /\ a.variant = c
    BY <1>1, <1>3
  <2>2. PICK b \in obs : b.sample = f[d] /\ b.variant = d
    BY <1>1, <1>3
  <2> QED BY <2>1, <2>2 DEF MeasurementInv, SamplesCoherent
<1>5. f \in Injection(1..CanaryFlows, C)
  <2>1. f \in [1..CanaryFlows -> C]
    <3> HIDE DEF C, Of
    <3> QED BY <1>2
  <2> HIDE DEF f, C
  <2> QED BY <1>4, <2>1 DEF Injection, IsInjective
<1>6. IsFiniteSet(C)
  BY CompleteCountType DEF MeasurementInv, TypeOK
<1>7. Cardinality(1..CanaryFlows) <= Cardinality(C)
  <2> HIDE DEF f, C
  <2> QED BY <1>5, <1>6, FS_Injection
<1>8. Cardinality(1..CanaryFlows) = CanaryFlows /\ CanaryFlows \in Nat
  <2>1. 1 \in Int /\ CanaryFlows \in Int /\ CanaryFlows \in Nat
    BY ConfigAssumption
  <2>2. Cardinality(1..CanaryFlows) = IF 1 > CanaryFlows THEN 0 ELSE CanaryFlows - 1 + 1
    BY <2>1, FS_Interval
  <2> QED BY <2>1, <2>2
<1>9. Cardinality(C) \in Nat
  BY <1>6, FS_CardinalityType
<1> HIDE DEF C
<1>10. Cardinality(C) >= CanaryFlows
  BY <1>7, <1>8, <1>9
<1> QED BY <1>10 DEF C, CompleteSampleCount

-----------------------------------------------------------------------------
(* Clusters of overlapping regions and their windows.                      *)

(* A variant region belongs to the cluster of the last start that is not   *)
(* beyond its own.                                                         *)
LEMMA InSomeCluster ==
  ASSUME NEW R \in SUBSET Regions, NEW r \in VariantRegions(R)
  PROVE  \E f \in ClusterStarts(R) : r \in Cluster(R, f)
<1> DEFINE firsts == {x.first : x \in VariantRegions(R)}
           starts == {g \in ClusterStarts(R) : g <= r.first}
<1>1. \A x \in VariantRegions(R) : x.first \in TTLs
  BY DEF VariantRegions, Regions
<1>2. firsts \in SUBSET TTLs /\ r.first \in firsts
  BY <1>1
<1>3. PICK m \in firsts : \A g \in firsts : m <= g
  <2> HIDE DEF firsts
  <2> QED BY <1>2, ExtremeTtls
<1>4. \A x \in VariantRegions(R) : x.first \in Int /\ m <= x.first
  BY <1>1, <1>3 DEF TTLs
<1>5. m \in TTLs /\ m \in Int
  BY <1>2, <1>3 DEF TTLs
<1>6. \A x \in VariantRegions(R) : ~(x.first < m)
  BY <1>4, <1>5
<1>7. m \in starts
  BY <1>3, <1>4, <1>6 DEF ClusterStarts
<1>8. starts \in SUBSET TTLs
  BY <1>1 DEF ClusterStarts
<1>9. PICK f \in starts : \A g \in starts : g <= f
  <2> HIDE DEF starts
  <2> QED BY <1>7, <1>8, ExtremeTtls
<1>10. \A g \in ClusterStarts(R) : g \in Int
  BY <1>1 DEF ClusterStarts, TTLs
<1>11. f \in ClusterStarts(R) /\ f <= r.first /\ f \in Int /\ r.first \in Int
  BY <1>4, <1>9, <1>10
<1>12. ASSUME NEW g \in ClusterStarts(R), g > f PROVE r.first < g
  <2>1. g \in Int
    BY <1>10
  <2>2. ~(g <= r.first)
    BY <1>9, <1>11, <1>12, <2>1
  <2> QED BY <1>11, <2>1, <2>2
<1>13. r \in Cluster(R, f)
  BY <1>11, <1>12 DEF Cluster
<1> QED BY <1>11, <1>13

(* Every region is served by a window: the shared window of its cluster,   *)
(* or a window of its own.                                                 *)
LEMMA EveryRegionServed ==
  ASSUME NEW R \in SUBSET Regions, NEW r \in R
  PROVE  \E w \in SamplingWindows(R) : Serves(w, r)
<1>1. CASE VariantCoverage(r.family)
  <2>1. r \in VariantRegions(R)
    BY <1>1 DEF VariantRegions
  <2>2. PICK f \in ClusterStarts(R) : r \in Cluster(R, f)
    BY <2>1, InSomeCluster
  <2>3. SharedWindow(Cluster(R, f)) \in SamplingWindows(R)
    BY DEF SamplingWindows
  <2>4. Serves(SharedWindow(Cluster(R, f)), r)
    BY <2>2 DEF Serves, SharedWindow
  <2> QED BY <2>3, <2>4
<1>2. CASE ~VariantCoverage(r.family)
  <2> DEFINE w == [variant |-> FALSE, first |-> r.first, last |-> r.last, ttls |-> r.ttls]
  <2>1. w \in SamplingWindows(R)
    BY <1>2 DEF SamplingWindows
  <2>2. Serves(w, r)
    BY <1>2 DEF Serves
  <2> HIDE DEF w
  <2> QED BY <2>1, <2>2
<1> QED BY <1>1, <1>2

(* Regions of different clusters share no TTL.                             *)
LEMMA ClustersApart ==
  ASSUME NEW R,
         \A r \in R : r.first \in Int /\ r.last \in Int /\ r.ttls \subseteq r.first..r.last,
         NEW f \in ClusterStarts(R), NEW g \in ClusterStarts(R), f < g,
         NEW a \in Cluster(R, f), NEW b \in Cluster(R, g)
  PROVE  a.ttls \cap b.ttls = {}
<1>1. a \in VariantRegions(R) /\ b \in VariantRegions(R) /\ a \in R /\ b \in R
  BY DEF Cluster, VariantRegions
<1>2. a.first < g /\ g <= b.first
  BY DEF Cluster
<1>3. ~(a.first < g /\ g <= a.last)
  BY <1>1 DEF ClusterStarts
<1>4. g \in Int
  BY DEF ClusterStarts, VariantRegions
<1>5. a.last < b.first
  BY <1>1, <1>2, <1>3, <1>4
<1>6. ASSUME NEW t, t \in a.ttls, t \in b.ttls PROVE FALSE
  <2>1. t \in a.first..a.last /\ t \in b.first..b.last
    BY <1>1, <1>6
  <2> QED BY <1>1, <1>5, <2>1
<1> QED BY <1>6

(* Different windows that share variants share no TTL.                     *)
LEMMA WindowsApart ==
  ASSUME NEW R,
         \A r \in R : r.first \in Int /\ r.last \in Int /\ r.ttls \subseteq r.first..r.last,
         NEW v \in SamplingWindows(R), NEW w \in SamplingWindows(R),
         v.variant, w.variant, v # w
  PROVE  v.ttls \cap w.ttls = {}
<1>1. PICK f \in ClusterStarts(R) : v = SharedWindow(Cluster(R, f))
  BY DEF SamplingWindows
<1>2. PICK g \in ClusterStarts(R) : w = SharedWindow(Cluster(R, g))
  BY DEF SamplingWindows
<1>3. f # g /\ f \in Int /\ g \in Int
  BY <1>1, <1>2 DEF ClusterStarts, VariantRegions
<1>4. f < g \/ g < f
  BY <1>3
<1>5. \A t \in v.ttls : \E a \in Cluster(R, f) : t \in a.ttls
  BY <1>1 DEF SharedWindow
<1>6. \A t \in w.ttls : \E b \in Cluster(R, g) : t \in b.ttls
  BY <1>2 DEF SharedWindow
<1>7. ASSUME NEW a \in Cluster(R, f), NEW b \in Cluster(R, g) PROVE a.ttls \cap b.ttls = {}
  <2>1. CASE f < g
    BY <2>1, ClustersApart
  <2>2. CASE g < f
    BY <2>2, ClustersApart
  <2> QED BY <1>4, <2>1, <2>2
<1> QED BY <1>5, <1>6, <1>7

-----------------------------------------------------------------------------
(* What the invariant gives the certificates.                              *)

(* A measurement that ran to its end within the budget left no window, and *)
(* what is sampled lacks only the bound of its samples.                    *)
LEMMA CompletedFollows ==
  ASSUME SamplingInv PROVE RegionsCompleted
<1> SUFFICES ASSUME Done, ~interrupted, InBudget, NEW r \in regions
             PROVE  /\ Sampled(obs, r)
                    /\ ~Certified(obs, r) =>
                         /\ VariantCoverage(r.family)
                         /\ CertificateSamples(obs, r) \notin Enough
  BY DEF RegionsCompleted, InBudget
<1>1. Sampled(obs, r)
  BY DEF SamplingInv, RegionsServed, WindowCounts, Done
<1> QED BY <1>1 DEF Certified

(* Different complete samples of a window used different tokens: two of    *)
(* one token would be two probes of one variant at one TTL.                *)
LEMMA SamplesUseDistinctTokens ==
  ASSUME MeasurementInv, TokensDistinct, FlowsOnce, NEW S, S # {}
  PROVE  LET C == CompleteSamples(obs, S, TRUE)
         IN  /\ Cardinality(C) <= Cardinality(TokensOf(C))
             /\ Cardinality(C) \in Nat /\ Cardinality(TokensOf(C)) \in Nat
             /\ MainToken \notin TokensOf(C)
<1> DEFINE C == CompleteSamples(obs, S, TRUE)
           O == {x \in obs : x.sample \in C}
           token == [o \in O |-> tokens[o.variant]]
           Uses(s, k) == \A o \in obs : o.sample = s => tokens[o.variant] = k
           f == [s \in C |-> CHOOSE k \in TokensOf(C) : Uses(s, k)]
<1>1. PICK t \in S : TRUE
  OBVIOUS
<1>2. IsFiniteSet(obs) /\ IsFiniteSet(C) /\ IsFiniteSet(O)
  <2>1. IsFiniteSet(obs)
    BY DEF MeasurementInv, TypeOK
  <2>2. IsFiniteSet(C)
    BY <2>1, CompleteCountType
  <2> QED BY <2>1, <2>2, FS_Subset
<1>3. IsFiniteSet(TokensOf(C))
  <2>1. token \in Surjection(O, TokensOf(C))
    BY DEF Surjection, TokensOf
  <2> HIDE DEF O, C, token
  <2> QED BY <1>2, <2>1, FS_Surjection
<1>4. \A s \in C : \E o \in obs : o.sample = s /\ o.variant # 0 /\ o.ttl = t
  <2> TAKE s \in C
  <2>1. s \in CompleteSamples(obs, S, TRUE)
    OBVIOUS
  <2> HIDE DEF C, O, token, Uses, f
  <2>2. \A u \in S : \E o \in obs : o.variant # 0 /\ o.sample = s /\ o.ttl = u
    BY <2>1 DEF CompleteSamples
  <2> QED BY <1>1, <2>2
<1>5. \A o, p \in obs : o.sample = p.sample => o.variant = p.variant
  BY DEF MeasurementInv, SamplesCoherent
<1>6. \A o \in O : ~MainFlow(o) /\ o.variant \in DOMAIN tokens
  <2> HIDE DEF C
  <2> QED BY <1>4, <1>5 DEF MainFlow, TokensDistinct
<1>7. \A s \in C : \E k \in TokensOf(C) : Uses(s, k)
  <2> SUFFICES ASSUME NEW s \in C PROVE \E k \in TokensOf(C) : Uses(s, k)
    OBVIOUS
  <2>1. PICK o \in obs : o.sample = s
    BY <1>4
  <2>2. tokens[o.variant] \in TokensOf(C)
    BY <2>1 DEF TokensOf
  <2>3. Uses(s, tokens[o.variant])
    BY <1>5, <2>1
  <2> QED BY <2>2, <2>3
<1>8. \A s \in C : f[s] \in TokensOf(C) /\ Uses(s, f[s])
  <2> HIDE DEF C, Uses
  <2> QED BY <1>7
<1>9. f \in [C -> TokensOf(C)]
  <2> HIDE DEF C, Uses
  <2> QED BY <1>7
<1> HIDE DEF f
<1>10. \A r, s \in C : f[r] = f[s] => r = s
  <2> SUFFICES ASSUME NEW r \in C, NEW s \in C, f[r] = f[s] PROVE r = s
    OBVIOUS
  <2>1. PICK a \in obs : a.sample = r /\ a.ttl = t
    BY <1>4
  <2>2. PICK b \in obs : b.sample = s /\ b.ttl = t
    BY <1>4
  <2>3. tokens[a.variant] = tokens[b.variant]
    BY <1>8, <2>1, <2>2
  <2>4. a.variant = b.variant /\ ~MainFlow(a)
    BY <1>6, <2>1, <2>2, <2>3 DEF TokensDistinct
  <2> QED BY <2>1, <2>2, <2>4 DEF FlowsOnce
<1>11. MainToken \notin TokensOf(C)
  BY <1>6 DEF TokensOf, TokensDistinct
<1> HIDE DEF C
<1>12. f \in Injection(C, TokensOf(C))
  BY <1>9, <1>10 DEF Injection, IsInjective
<1>13. Cardinality(C) <= Cardinality(TokensOf(C))
  BY <1>3, <1>12, FS_Injection
<1>14. Cardinality(C) \in Nat /\ Cardinality(TokensOf(C)) \in Nat
  BY <1>2, <1>3, FS_CardinalityType
<1> QED BY <1>11, <1>13, <1>14 DEF C

(* Certified flow coverage rests on enough different tokens.               *)
LEMMA CoverageFollows ==
  ASSUME MeasurementInv, SamplingInv PROVE CoverageByDistinctFlows
<1> SUFFICES ASSUME InBudget, NEW r \in regions,
                    VariantCoverage(r.family), Certified(obs, r)
             PROVE  DistinctFlows(r)
  BY DEF CoverageByDistinctFlows, InBudget
<1> DEFINE C == CompleteSamples(obs, r.ttls, TRUE)
<1>1. TokensDistinct /\ FlowsOnce
  BY DEF SamplingInv
<1>2. r.ttls # {}
  BY DEF MeasurementInv, TypeOK, Regions
<1>3. Cardinality(C) >= Required
  BY DEF Certified, Sampled, CompleteSampleCount
<1>4. /\ Cardinality(C) <= Cardinality(TokensOf(C))
      /\ Cardinality(C) \in Nat /\ Cardinality(TokensOf(C)) \in Nat
      /\ MainToken \notin TokensOf(C)
  BY <1>1, <1>2, SamplesUseDistinctTokens
<1> HIDE DEF C
<1>5. Cardinality(TokensOf(C)) >= Required
  BY <1>3, <1>4, ConfigAssumption
<1> QED BY <1>4, <1>5 DEF C, DistinctFlows

-----------------------------------------------------------------------------
(* What the invariant gives the classes.                                   *)

(* An answer shows a responder its flow may meet; silence, that its flow   *)
(* may stay unanswered.                                                    *)
LEMMA ObservedOnToken ==
  ASSUME MeasurementInv, SamplingInv, NEW o \in obs
  PROVE  /\ MainFlow(o) => TokenOf(o) = MainToken
         /\ ~MainFlow(o) => TokenOf(o) = tokens[o.variant] /\ TokenOf(o) \in OtherFlows
         /\ TokenOf(o) \in FlowTokens
         /\ Answered(o) <=> o.who # None
         /\ o.who # None => o.who \in Meets(o.ttl, TokenOf(o))
         /\ ~Answered(o) => MaySilence(o.ttl, TokenOf(o))
         /\ \E a \in net[<<o.ttl, TokenOf(o)>>] : a.mut = o.mut
<1> DEFINE a == [kind |-> o.kind, who |-> o.who, mut |-> o.mut]
<1>1. MainFlow(o) => TokenOf(o) = MainToken
  BY DEF MainFlow, TokenOf
<1>2. ~MainFlow(o) => TokenOf(o) = tokens[o.variant] /\ TokenOf(o) \in OtherFlows
  <2>1. ~MainFlow(o) => /\ o.variant \in DOMAIN tokens /\ tokens[o.variant] # MainToken
                        /\ tokens[o.variant] \in Tokens
    BY DEF SamplingInv, TokensDistinct, MeasurementInv, TypeOK
  <2> QED BY <2>1 DEF MainFlow, TokenOf, OtherFlows
<1>3. TokenOf(o) \in FlowTokens
  BY <1>1, <1>2 DEF OtherFlows, FlowTokens
<1>4. a \in net[<<o.ttl, TokenOf(o)>>]
  BY DEF SamplingInv, AnswersOfTokens
<1>5. (Answered(o) <=> o.who # None) /\ (~Answered(o) => a = Silence)
  BY <1>3, <1>4, AnswersOrSilence
<1>6. o.who # None => o.who \in Meets(o.ttl, TokenOf(o))
  <2>1. a.who = o.who
    OBVIOUS
  <2> HIDE DEF a
  <2> QED BY <1>4, <2>1 DEF Meets
<1>7. a.mut = o.mut
  OBVIOUS
<1> HIDE DEF a
<1> QED BY <1>1, <1>2, <1>3, <1>4, <1>5, <1>6, <1>7 DEF MaySilence

(* No probe contradicts a DIRECT edge outside every region, except where a *)
(* region begins or ends.                                                  *)
LEMMA DirectFollows ==
  ASSUME MeasurementInv, PathInv, ReportInv, SamplingInv PROVE DirectEdgesAreClear
<1> SUFFICES ASSUME Done, NEW s \in Report, s.method = "rapid_sweep_observation",
                    NEW t \in {s.first, s.last}
             PROVE  \E w \in Responders : \A o \in obs : o.ttl = t =>
                      \/ o.who = w
                      \/ o \notin BaselineObs /\ \E r \in regions : t \in {r.first, r.last}
  BY DEF DirectEdgesAreClear
<1> DEFINE n == HopCount(obs, limit)
<1>1. PICK u \in 1..(n - 1) : /\ u \notin CoveredEdges(regions)
                              /\ {u, u + 1} \subseteq VisibleHops(obs, n)
                              /\ s = DirectEdge(obs, u)
  <2>1. \A r : ClassifyRegion(obs, n, r).method # "rapid_sweep_observation"
    BY DEF ClassifyRegion
  <2>2. SilentTail(obs, limit, n).method # "rapid_sweep_observation"
    BY DEF SilentTail
  <2> QED BY <2>1, <2>2, ReportParts
<1>2. t \in {u, u + 1}
  BY <1>1 DEF DirectEdge
<1>3. n = limit /\ limit \in TTLs /\ limit \in Int
  BY HopsOfReport DEF TTLs
<1>4. BaselineAnswered(obs) \/ regions # {}
  <2>1. PICK o \in obs : MainFlow(o) /\ Answered(o)
    BY <1>1, VisibleIsAnswered DEF VisibleHops
  <2>2. o.phase # "canary-varied"
    BY <2>1 DEF ReportInv
  <2>3. regions = {} => o \in BaselineObs
    BY DEF ReportInv, RegionsOfBaseline
  <2> QED BY <2>1, <2>2, <2>3 DEF BaselineObs, BaselineAnswered
<1>5. PICK lim \in TTLs :
        /\ limit <= lim
        /\ regions \in {{GlobalRegion(lim)}, FindRegions(BaselineObs, lim)}
  BY <1>4, RegionsOfReport
<1>6. u \in 1..(lim - 1) /\ u \in Int
  BY <1>3, <1>5 DEF TTLs
<1>7. ASSUME NEW r \in regions PROVE ~(r.first <= u /\ u < r.last)
  <2>1. r.first \in Int /\ r.last \in Int
    BY RegionOfReport DEF TTLs
  <2>2. u \notin r.first..(r.last - 1)
    BY <1>1 DEF CoveredEdges
  <2> QED BY <1>6, <2>1, <2>2
<1>8. \A family \in Families \ {"global"} : ~Suspicious(BaselineObs, family, t)
  BY <1>2, <1>5, <1>6, <1>7, SuspicionIsCovered
<1>9. Swept(t)
  <2>1. t \in VisibleHops(obs, n)
    BY <1>1, <1>2
  <2>2. PICK o \in obs : o.ttl = t
    BY <2>1, VisibleIsAnswered DEF VisibleHops
  <2>3. t \in 1..t
    BY <2>1, <1>3 DEF VisibleHops
  <2> QED BY <2>2, <2>3 DEF PathInv
<1>10. PICK w \in Responders : \A o \in BaselineObs : o.ttl = t => o.who = w
  BY <1>8, <1>9, UnsuspectedIsClear
<1>11. ASSUME NEW o \in obs \ BaselineObs, o.ttl = t
       PROVE  \E r \in regions : t \in {r.first, r.last}
  <2>1. PICK r \in regions : t \in r.ttls
    BY <1>11 DEF SamplingInv, AdaptiveInside, InRegions
  <2>2. r.first \in Int /\ r.last \in Int /\ t \in r.first..r.last
    BY <2>1, RegionOfReport DEF TTLs
  <2>3. ~(r.first <= u /\ u < r.last)
    BY <1>7
  <2>4. t = r.first \/ t = r.last
    BY <1>2, <1>6, <2>2, <2>3
  <2> QED BY <2>4
<1> QED BY <1>10, <1>11

(* Where variants show two responders at one TTL, two other flows part, or *)
(* the budget made one flow count twice.                                   *)
LEMMA VariantsPart ==
  ASSUME MeasurementInv, SamplingInv, NEW a \in obs, NEW b \in obs,
         ~MainFlow(a), ~MainFlow(b), a.ttl = b.ttl,
         a.who # b.who, a.who # None, b.who # None
  PROVE  FlowsPart(a.ttl)
<1> DEFINE f == TokenOf(a)
           g == TokenOf(b)
<1>1. /\ f = tokens[a.variant] /\ f \in OtherFlows /\ a.who \in Meets(a.ttl, f)
      /\ g = tokens[b.variant] /\ g \in OtherFlows /\ b.who \in Meets(a.ttl, g)
  BY ObservedOnToken
<1>2. Disagree(Meets(a.ttl, f), Meets(a.ttl, g))
  BY <1>1 DEF Disagree
<1>3. InBudget => f # g
  <2> SUFFICES ASSUME InBudget, f = g PROVE FALSE
    OBVIOUS
  <2>1. TokensDistinct /\ FlowsOnce
    BY DEF SamplingInv
  <2>2. a.variant = b.variant
    BY <1>1, <2>1 DEF TokensDistinct
  <2>3. a.sample = b.sample
    BY <2>1, <2>2 DEF FlowsOnce
  <2>4. a = b
    BY <2>3 DEF MeasurementInv, SamplesCoherent
  <2> QED BY <2>4
<1> QED BY <1>1, <1>2, <1>3 DEF FlowsPart, InBudget

(* A family of visibility saw a flow stay silent in the region it found.   *)
LEMMA FamilySawSilence ==
  ASSUME MeasurementInv, PathInv, ReportInv, Done, NEW r \in regions,
         r.family \in VisibilityFamilies
  PROVE  \E o \in obs : o.ttl \in r.first..r.last /\ ~Answered(o)
<1>1. PICK lim \in TTLs : regions \in {{GlobalRegion(lim)}, FindRegions(BaselineObs, lim)}
  BY RegionsOfReport
<1>2. r \in FindRegions(BaselineObs, lim)
  <2>1. GlobalRegion(lim).family \notin VisibilityFamilies
    BY DEF GlobalRegion, VisibilityFamilies
  <2> QED BY <1>1, <2>1
<1>3. PICK family \in Families \ {"global"} :
        r \in {RegionAround(family, x[1], x[2], lim) :
                 x \in Runs({t \in 1..lim : Suspicious(BaselineObs, family, t)})}
  BY <1>2 DEF FindRegions
<1>4. PICK x \in Runs({t \in 1..lim : Suspicious(BaselineObs, family, t)}) :
        r = RegionAround(family, x[1], x[2], lim)
  BY <1>3
<1> DEFINE t == x[1]
<1>5. /\ t \in 1..lim /\ x[2] \in 1..lim /\ t <= x[2]
      /\ Suspicious(BaselineObs, family, t)
  BY <1>4 DEF Runs
<1>6. family \in VisibilityFamilies
  BY <1>4 DEF RegionAround
<1>7. t \in r.first..r.last
  <2>1. r.first \in 1..lim /\ r.last \in 1..lim /\ r.first <= t /\ r.last >= x[2]
    BY <1>4, <1>5, RegionReach
  <2> QED BY <1>5, <2>1
<1> HIDE DEF t
<1> DEFINE fixed  == FixedAt(BaselineObs, t)
           canary_ == CanaryAt(BaselineObs, t)
<1>8. \E o \in fixed \cup canary_ : ~Answered(o)
  <2>1. CASE family = "visibility_intermittent"
    BY <1>5, <2>1 DEF Suspicious
  <2>2. CASE family = "visibility_silent"
    BY <1>5, <2>2 DEF Suspicious
  <2>3. CASE family = "visibility_flow"
    <3>1. /\ fixed # {} /\ canary_ # {}
          /\ (WhoIn(fixed) # {}) # (WhoIn(canary_) # {})
      BY <1>5, <2>3 DEF Suspicious
    <3>2. \A S : WhoIn(S) = {} => \A o \in S : ~Answered(o)
      BY DEF WhoIn, Answered
    <3> HIDE DEF fixed, canary_
    <3>3. WhoIn(fixed) = {} \/ WhoIn(canary_) = {}
      BY <3>1
    <3> QED BY <3>1, <3>2, <3>3
  <2> QED BY <1>6, <2>1, <2>2, <2>3 DEF VisibilityFamilies
<1>9. \A o \in fixed \cup canary_ : o \in obs /\ o.ttl = t
  BY DEF FixedAt, CanaryAt, BaselineObs
<1> HIDE DEF fixed, canary_
<1> QED BY <1>7, <1>8, <1>9

(* Variants whose signatures differ, but no responder at any TTL, missed   *)
(* an answer.                                                              *)
LEMMA SignaturesMissAnswers ==
  ASSUME MeasurementInv, NEW S, Cardinality(Signatures(obs, S, TRUE)) > 1,
         ~SomeTtlVaries(VariedIn(obs, S))
  PROVE  \E o \in obs : o.ttl \in S /\ o.who = None
<1> DEFINE Z == Signatures(obs, S, TRUE)
<1>1. \E p, q \in Z : p # q
  <2> SUFFICES ASSUME \A p, q \in Z : p = q PROVE FALSE
    OBVIOUS
  <2> HIDE DEF Z
  <2>1. Z = {} \/ \E p : Z = {p}
    <3>1. CASE Z = {}
      BY <3>1
    <3>2. CASE Z # {}
      <4>1. PICK p \in Z : TRUE
        BY <3>2
      <4>2. Z = {p}
        BY <4>1
      <4> QED BY <4>2
    <3> QED BY <3>1, <3>2
  <2>2. Cardinality(Z) = 0 \/ Cardinality(Z) = 1
    BY <2>1, FS_EmptySet, FS_Singleton
  <2>3. Cardinality(Z) > 1
    BY DEF Z
  <2> QED BY <2>2, <2>3
<1>2. PICK p \in Z, q \in Z : p # q
  BY <1>1
<1>3. PICK a \in CompleteSamples(obs, S, TRUE), b \in CompleteSamples(obs, S, TRUE) :
        p = Signature(obs, S, a) /\ q = Signature(obs, S, b)
  BY <1>2 DEF Signatures
<1>4. PICK t \in S : p[t] # q[t]
  <2>1. p = [t \in S |-> p[t]] /\ q = [t \in S |-> q[t]]
    BY <1>3 DEF Signature
  <2> HIDE DEF Z
  <2> QED BY <1>2, <2>1
<1>5. ASSUME NEW s \in CompleteSamples(obs, S, TRUE)
      PROVE  \E z \in obs : z.ttl = t /\ ~MainFlow(z) /\ Signature(obs, S, s)[t] = z.who
  <2>1. PICK o \in obs : ~MainFlow(o) /\ o.sample = s /\ o.ttl = t
    BY DEF CompleteSamples, MainFlow
  <2> DEFINE seen == CHOOSE z \in obs : z.sample = s /\ z.ttl = t
  <2>2. seen \in obs /\ seen.sample = s /\ seen.ttl = t
    BY <2>1
  <2>3. Signature(obs, S, s)[t] = seen.who
    BY DEF Signature
  <2> HIDE DEF seen
  <2>4. seen = o
    BY <2>1, <2>2 DEF MeasurementInv, SamplesCoherent
  <2> QED BY <2>1, <2>3, <2>4
<1> HIDE DEF Z
<1>6. PICK x \in obs, y \in obs : /\ x.ttl = t /\ ~MainFlow(x) /\ p[t] = x.who
                               /\ y.ttl = t /\ ~MainFlow(y) /\ q[t] = y.who
  BY <1>3, <1>5
<1>7. x \in VariedIn(obs, S) /\ y \in VariedIn(obs, S)
  BY <1>6 DEF VariedIn
<1>8. x.who # y.who /\ x.ttl = y.ttl
  BY <1>4, <1>6
<1>9. x.who = None \/ y.who = None
  BY <1>7, <1>8 DEF SomeTtlVaries
<1> QED BY <1>6, <1>9

(* INTERMITTENT: some flow stayed unanswered inside the region.            *)
LEMMA IntermittentIsSilent ==
  ASSUME MeasurementInv, PathInv, ReportInv, SamplingInv, Done, NEW r \in regions,
         ClassOf(obs, HopCount(obs, limit), r) = "intermittent"
  PROVE  \E o \in obs : o.ttl \in r.first..r.last /\ ~Answered(o)
<1> DEFINE both == FixedIn(obs, r.ttls) \cup VariedIn(obs, r.ttls)
<1>1. \/ r.family \in VisibilityFamilies
      \/ IntermittentIn(both)
      \/ /\ Cardinality(Signatures(obs, r.ttls, TRUE)) > 1
         /\ ~SomeTtlVaries(VariedIn(obs, r.ttls))
  BY ClassMeans
<1>2. r.ttls \subseteq r.first..r.last
  BY RegionOfReport
<1>3. CASE r.family \in VisibilityFamilies
  BY <1>3, FamilySawSilence
<1>4. CASE IntermittentIn(both)
  <2>1. \A o \in both : o \in obs /\ o.ttl \in r.ttls
    BY DEF FixedIn, VariedIn
  <2> QED BY <1>2, <1>4, <2>1 DEF IntermittentIn
<1>5. CASE /\ Cardinality(Signatures(obs, r.ttls, TRUE)) > 1
           /\ ~SomeTtlVaries(VariedIn(obs, r.ttls))
  <2>1. PICK o \in obs : o.ttl \in r.ttls /\ o.who = None
    BY <1>5, SignaturesMissAnswers
  <2>2. ~Answered(o)
    BY <2>1 DEF Answered
  <2> QED BY <1>2, <2>1, <2>2
<1> QED BY <1>1, <1>3, <1>4, <1>5

(* The class of a region is grounded.                                      *)
LEMMA RegionIsGrounded ==
  ASSUME MeasurementInv, PathInv, ReportInv, SamplingInv, Done,
         NEW r \in regions, NEW s, s = ClassifyRegion(obs, HopCount(obs, limit), r)
  PROVE  Grounded(s)
<1> DEFINE n      == HopCount(obs, limit)
           fixed  == FixedIn(obs, r.ttls)
           varied == VariedIn(obs, r.ttls)
           inside == s.first..s.last
<1>1. s.type = ClassOf(obs, n, r) /\ s.first = r.first /\ s.last = r.last
  BY DEF ClassifyRegion
<1>2. /\ r.ttls \subseteq inside /\ {s.first, s.last} \subseteq r.ttls
      /\ s.first \in TTLs
  BY <1>1, RegionOfReport
<1>3. CASE s.type = "unstable"
  <2>1. SomeTtlVaries(fixed)
    BY <1>1, <1>3, ClassMeans
  <2>2. PICK a \in fixed, b \in fixed :
          a.ttl = b.ttl /\ a.who # b.who /\ a.who # None /\ b.who # None
    BY <2>1 DEF SomeTtlVaries
  <2>3. a \in obs /\ b \in obs /\ MainFlow(a) /\ MainFlow(b) /\ a.ttl \in r.ttls
    BY <2>2 DEF FixedIn
  <2>4. a.who \in Meets(a.ttl, MainToken) /\ b.who \in Meets(a.ttl, MainToken)
    BY <2>2, <2>3, ObservedOnToken
  <2>5. Disagree(Meets(a.ttl, MainToken), Meets(a.ttl, MainToken))
    BY <2>2, <2>4 DEF Disagree
  <2> QED BY <1>2, <1>3, <2>3, <2>5 DEF Grounded
<1>4. CASE s.type = "multipath"
  <2>1. SomeTtlVaries(varied)
    BY <1>1, <1>4, ClassMeans
  <2>2. PICK a \in varied, b \in varied :
          a.ttl = b.ttl /\ a.who # b.who /\ a.who # None /\ b.who # None
    BY <2>1 DEF SomeTtlVaries
  <2>3. a \in obs /\ b \in obs /\ ~MainFlow(a) /\ ~MainFlow(b) /\ a.ttl \in r.ttls
    BY <2>2 DEF VariedIn
  <2>4. FlowsPart(a.ttl)
    BY <2>2, <2>3, VariantsPart
  <2> QED BY <1>2, <1>4, <2>3, <2>4 DEF Grounded
<1>5. CASE s.type = "mutable"
  <2>1. PICK o \in fixed \cup varied : o.mut # {}
    BY <1>1, <1>5, ClassMeans
  <2>2. o \in obs /\ o.ttl \in r.ttls
    BY <2>1 DEF FixedIn, VariedIn
  <2>3. TokenOf(o) \in FlowTokens /\ \E a \in net[<<o.ttl, TokenOf(o)>>] : a.mut # {}
    BY <2>1, <2>2, ObservedOnToken
  <2>4. \E t \in inside, f \in FlowTokens : \E a \in net[<<t, f>>] : a.mut # {}
    BY <1>2, <2>2, <2>3
  <2> QED BY <1>5, <2>4 DEF Grounded
<1>6. CASE s.type = "opaque"
  <2>1. PICK t \in (s.first + 1)..(s.last - 1) :
          /\ \E o \in obs : o.ttl = t
          /\ \A o \in obs : o.ttl = t => ~Answered(o)
    BY <1>1, <1>6, OpaqueRegionHides
  <2>2. t \in 1..t
    BY <1>2, <2>1 DEF TTLs
  <2>3. PICK m \in obs : m.ttl = t /\ MainFlow(m)
    BY <2>1, <2>2 DEF PathInv, Swept
  <2>4. MaySilence(t, MainToken)
    BY <2>1, <2>3, ObservedOnToken
  <2> QED BY <1>6, <2>1, <2>4 DEF Grounded
<1>7. CASE s.type = "intermittent"
  <2>1. PICK o \in obs : o.ttl \in inside /\ ~Answered(o)
    BY <1>1, <1>7, IntermittentIsSilent
  <2>2. TokenOf(o) \in FlowTokens /\ MaySilence(o.ttl, TokenOf(o))
    BY <2>1, ObservedOnToken
  <2> QED BY <1>7, <2>1, <2>2 DEF Grounded
<1>8. CASE s.type = "direct"
  <2>1. (\A o \in fixed \cup varied : Answered(o)) /\ Signatures(obs, r.ttls, FALSE) # {}
    BY <1>1, <1>8, ClassMeans
  <2>2. PICK k \in CompleteSamples(obs, r.ttls, FALSE) : TRUE
    BY <2>1 DEF Signatures
  <2>3. ASSUME NEW t \in {s.first, s.last} PROVE Meets(t, MainToken) # {}
    <3>1. PICK o \in obs : MainFlow(o) /\ o.ttl = t
      <4>1. t \in r.ttls
        BY <1>2, <2>3
      <4> QED BY <2>2, <4>1 DEF CompleteSamples, MainFlow
    <3>2. o \in fixed /\ MainFlow(o)
      BY <1>2, <3>1 DEF FixedIn
    <3>3. o.who # None
      BY <2>1, <3>2 DEF Answered
    <3> QED BY <3>1, <3>2, <3>3, ObservedOnToken
  <2> QED BY <1>8, <2>3 DEF Grounded
<1>9. CASE s.type \notin {"unstable", "multipath", "mutable", "opaque", "silent_tail",
                          "intermittent", "direct"}
  BY <1>9 DEF Grounded
<1>10. s.type # "silent_tail"
  BY <1>1, ClassMeans
<1> QED BY <1>3, <1>4, <1>5, <1>6, <1>7, <1>8, <1>9, <1>10

(* The main flow was swept along the silent tail and never answered there. *)
LEMMA TailIsGrounded ==
  ASSUME MeasurementInv, PathInv, ReportInv, SamplingInv, Done,
         HasSilentTail(obs, limit), NEW s \in Report,
         s = SilentTail(obs, limit, HopCount(obs, limit))
  PROVE  Grounded(s)
<1>1. s.type = "silent_tail" /\ s.first = limit /\ s.last = ProbedMaxTtl(obs)
  BY DEF SilentTail
<1>2. limit \in TTLs /\ limit < ProbedMaxTtl(obs)
  BY HopsOfReport DEF HasSilentTail
<1>3. ProbedMaxTtl(obs) \in Int /\ \E o \in obs : o.ttl = ProbedMaxTtl(obs)
  <2> DEFINE S == {0} \cup {o.ttl : o \in obs}
  <2>1. S \in SUBSET Nat /\ S # {} /\ \A x \in S : x <= MaxHops
    BY ConfigAssumption DEF MeasurementInv, TypeOK, Observed, TTLs
  <2>2. Max(S) \in S
    <3> HIDE DEF S
    <3> QED BY <2>1, MaxOfNats, ConfigAssumption
  <2>3. ProbedMaxTtl(obs) = Max(S) /\ ProbedMaxTtl(obs) # 0
    BY <1>2 DEF ProbedMaxTtl, TTLs
  <2>4. Max(S) \in Nat /\ (Max(S) # 0 => \E o \in obs : o.ttl = Max(S))
    <3> HIDE DEF S
    <3>1. Max(S) \in {0} \cup {o.ttl : o \in obs}
      BY <2>2 DEF S
    <3> QED BY <2>1, <2>2, <3>1
  <2> HIDE DEF S
  <2> QED BY <2>3, <2>4
<1>4. ASSUME NEW t \in (limit + 1)..ProbedMaxTtl(obs) PROVE MaySilence(t, MainToken)
  <2>1. PICK o \in obs : o.ttl = ProbedMaxTtl(obs)
    BY <1>3
  <2>2. t \in 1..o.ttl /\ t > limit /\ t \in Int
    BY <1>2, <1>3, <2>1 DEF TTLs
  <2>3. PICK m \in obs : m.ttl = t /\ MainFlow(m)
    BY <2>1, <2>2 DEF PathInv, Swept
  <2>4. Answered(m) => m.ttl <= limit
    BY <1>1, TailFollows DEF SilentTailIsSilent
  <2>5. ~Answered(m)
    BY <1>2, <2>2, <2>3, <2>4 DEF TTLs
  <2> QED BY <2>3, <2>5, ObservedOnToken
<1> QED BY <1>1, <1>4 DEF Grounded

(* Every class is grounded.                                                *)
LEMMA ClassesFollow ==
  ASSUME MeasurementInv, PathInv, ReportInv, SamplingInv PROVE ClassesAreGrounded
<1> SUFFICES ASSUME Done, NEW s \in Report PROVE Grounded(s)
  BY DEF ClassesAreGrounded
<1> DEFINE n == HopCount(obs, limit)
<1>1. ASSUME NEW u, {u, u + 1} \subseteq VisibleHops(obs, n), s = DirectEdge(obs, u)
      PROVE  Grounded(s)
  <2>1. s.type = "direct" /\ s.first = u /\ s.last = u + 1
    BY <1>1 DEF DirectEdge
  <2>2. ASSUME NEW t \in {u, u + 1} PROVE Meets(t, MainToken) # {}
    <3>1. PICK o \in obs : MainFlow(o) /\ o.ttl = t /\ Answered(o)
      BY <1>1, VisibleIsAnswered DEF VisibleHops
    <3> QED BY <3>1, ObservedOnToken
  <2> QED BY <2>1, <2>2 DEF Grounded
<1>2. CASE \E r \in regions : s = ClassifyRegion(obs, n, r)
  BY <1>2, RegionIsGrounded
<1>3. CASE HasSilentTail(obs, limit) /\ s = SilentTail(obs, limit, n)
  BY <1>3, TailIsGrounded
<1> QED BY <1>1, <1>2, <1>3, ReportParts

-----------------------------------------------------------------------------
(* What a step adds to the observations.                                   *)

SameProbe(o, p) ==
  o.ttl = p.ttl /\ o.variant = p.variant /\ o.phase = p.phase /\ o.sample = p.sample

Added == obs' \ obs

SweepAdds  == \A o \in Added : o.variant = 0 /\ o.phase = "baseline-fixed"
CanaryAdds == \A o \in Added :
  o.variant = canary /\ o.phase = "canary-varied" /\ o.sample = LastSample
FixedAdds  == \A o \in Added :
  o.variant = 0 /\ o.phase = "dbp-fixed" /\ o.ttl \in Window.ttls
VariedAdds == \A o \in Added :
  /\ o.phase = "dbp-varied" /\ o.ttl \in Window.ttls
  /\ o.variant \in nextVariant..(nextVariant + VariedCount - 1)
  /\ o.sample = nextSample + (o.variant - nextVariant)

(* Each probe of a delivered batch is observed, and nothing else.          *)
LEMMA SentObservations ==
  ASSUME NEW P, NEW reply, NEW c, Deliver(P, reply, c)
  PROVE  /\ obs \subseteq obs'
         /\ \A o \in Added : \E p \in P : SameProbe(o, p)
         /\ \A p \in P : \E o \in obs' : SameProbe(o, p)
<1>1. obs' = obs \cup Received(P, reply)
  BY DEF Deliver
<1>2. \A o \in Received(P, reply) : \E p \in P : SameProbe(o, p)
  BY DEF Received, SameProbe
<1>3. ASSUME NEW p \in P
      PROVE  \E o \in Received(P, reply) : SameProbe(o, p)
  <2> DEFINE o == [ttl |-> p.ttl, variant |-> p.variant, phase |-> p.phase,
                   sample |-> p.sample, kind |-> reply[p].kind,
                   who |-> reply[p].who, mut |-> reply[p].mut]
  <2>1. o \in Received(P, reply)
    BY DEF Received
  <2>2. SameProbe(o, p)
    BY DEF SameProbe
  <2> HIDE DEF o
  <2> QED BY <2>1, <2>2
<1> QED BY <1>1, <1>2, <1>3 DEF Added

(* The probes of a varied batch.                                           *)
LEMMA VariedProbes ==
  ASSUME MeasurementInv, pc = "varied"
  PROVE  /\ \A p \in VariedSpecs :
              /\ p.phase = "dbp-varied" /\ p.ttl \in Window.ttls
              /\ p.variant \in nextVariant..(nextVariant + VariedCount - 1)
              /\ p.sample = nextSample + (p.variant - nextVariant)
         /\ \A v \in nextVariant..(nextVariant + VariedCount - 1), u \in Window.ttls :
              \E p \in VariedSpecs :
                p.ttl = u /\ p.variant = v /\ p.sample = nextSample + (v - nextVariant)
<1> DEFINE probe(v, u) == [ttl |-> u, variant |-> v, phase |-> "dbp-varied",
                           sample |-> nextSample + (v - nextVariant)]
<1>1. \A p \in VariedSpecs : \E v \in VariedBatch, u \in Window.ttls : p = probe(v, u)
  BY DEF VariedSpecs, Bundle
<1>2. \A v \in VariedBatch, u \in Window.ttls : probe(v, u) \in VariedSpecs
  BY DEF VariedSpecs, Bundle
<1>3. VariedBatch = nextVariant..(nextVariant + VariedCount - 1)
  BY DEF VariedBatch
<1>4. \A v, u : /\ probe(v, u).phase = "dbp-varied" /\ probe(v, u).ttl = u
                /\ probe(v, u).variant = v
                /\ probe(v, u).sample = nextSample + (v - nextVariant)
  OBVIOUS
<1> HIDE DEF probe
<1> QED BY <1>1, <1>2, <1>3, <1>4

(* The probes of a canary batch.                                           *)
LEMMA CanaryProbes ==
  ASSUME MeasurementInv, pc = "canarySweep"
  PROVE  \A u \in start..ChunkStop(start, limit) : \E p \in CanarySpecs :
           p.ttl = u /\ p.variant = canary /\ p.sample = LastSample
<1> TAKE u \in start..ChunkStop(start, limit)
<1> DEFINE p == [ttl |-> u, variant |-> canary, phase |-> "canary-varied",
                 sample |-> LastSample]
<1>1. p \in CanarySpecs
  BY DEF CanarySpecs, Bundle
<1>2. p.ttl = u /\ p.variant = canary /\ p.sample = LastSample
  OBVIOUS
<1> HIDE DEF p
<1> QED BY <1>1, <1>2

(* The steps that observe something.                                       *)
LEMMA StepObserves ==
  ASSUME [Next]_vars
  PROVE  \/ obs' = obs
         \/ SweepChunk \/ CanaryChunk \/ FixedSample \/ VariedSamples
         \/ InterruptBeforeCount
<1>1. CASE UNCHANGED vars
  BY <1>1 DEF vars, ledger
<1>2. CASE BeginRound
  BY <1>2 DEF BeginRound, ledger
<1>3. CASE SweepRefused \/ CanaryRefused \/ FixedRefused \/ VariedExhausted
  BY <1>3 DEF SweepRefused, CanaryRefused, FixedRefused, VariedExhausted, Refuse, ledger
<1>4. CASE FixLimit \/ BeginCanary \/ CanariesDone \/ DetectRegions \/ EnterWindow
  BY <1>4 DEF FixLimit, BeginCanary, CanariesDone, DetectRegions, EnterWindow, ledger
<1>5. CASE WindowsDone \/ FixedOnlyDone \/ BeginVaried \/ DrawToken \/ VariedDone
  BY <1>5 DEF WindowsDone, FixedOnlyDone, BeginVaried, DrawToken, VariedDone, ledger
<1>6. CASE RunControl \/ Summarize \/ Interrupt \/ BackendFails
  BY <1>6 DEF RunControl, Summarize, Interrupt, BackendFails, ledger
<1> QED BY <1>1, <1>2, <1>3, <1>4, <1>5, <1>6 DEF Next, Proceed

(* The observations only grow, by what the running stage probes.           *)
LEMMA StepAdds ==
  ASSUME MeasurementInv, [Next]_vars
  PROVE  /\ obs \subseteq obs'
         /\ \/ obs' = obs
            \/ pc = "sweep" /\ SweepAdds
            \/ pc = "canarySweep" /\ CanaryAdds
            \/ FixedSample /\ FixedAdds
            \/ VariedSamples /\ VariedAdds
<1>1. CASE SweepChunk
  <2>1. PICK reply \in Replies(SweepSpecs) :
          Deliver(SweepSpecs, reply, Cardinality(SweepSpecs))
    BY <1>1 DEF SweepChunk
  <2>2. pc = "sweep"
    BY <1>1 DEF SweepChunk
  <2> QED BY <2>1, <2>2, SentObservations, SweepBatch DEF SweepAdds, SameProbe
<1>2. CASE CanaryChunk
  <2>1. PICK reply \in Replies(CanarySpecs) :
          Deliver(CanarySpecs, reply, Cardinality(CanarySpecs))
    BY <1>2 DEF CanaryChunk
  <2>2. pc = "canarySweep"
    BY <1>2 DEF CanaryChunk
  <2> QED BY <2>1, <2>2, SentObservations, CanaryBatch DEF CanaryAdds, SameProbe
<1>3. CASE FixedSample
  <2>1. PICK reply \in Replies(FixedSpecs) : Deliver(FixedSpecs, reply, 0)
    BY <1>3 DEF FixedSample
  <2>2. \A p \in FixedSpecs :
          p.variant = 0 /\ p.phase = "dbp-fixed" /\ p.ttl \in Window.ttls
    BY DEF FixedSpecs, Bundle
  <2> QED BY <1>3, <2>1, <2>2, SentObservations DEF FixedAdds, SameProbe
<1>4. CASE VariedSamples
  <2>1. PICK reply \in Replies(VariedSpecs) : Deliver(VariedSpecs, reply, 0)
    BY <1>4 DEF VariedSamples
  <2>2. pc = "varied"
    BY <1>4 DEF VariedSamples
  <2>3. obs \subseteq obs' /\ \A o \in Added : \E p \in VariedSpecs : SameProbe(o, p)
    BY <2>1, SentObservations
  <2>4. VariedAdds
    <3> SUFFICES ASSUME NEW o \in Added
                 PROVE  /\ o.phase = "dbp-varied" /\ o.ttl \in Window.ttls
                        /\ o.variant \in nextVariant..(nextVariant + VariedCount - 1)
                        /\ o.sample = nextSample + (o.variant - nextVariant)
      BY DEF VariedAdds
    <3>1. PICK p \in VariedSpecs : SameProbe(o, p)
      BY <2>3
    <3> QED BY <2>2, <3>1, VariedProbes DEF SameProbe
  <2> QED BY <1>4, <2>3, <2>4
<1>5. CASE InterruptBeforeCount
  <2>1. /\ pc \in {"sweep", "canarySweep"}
        /\ \E reply \in Replies(InFlight) : Deliver(InFlight, reply, 0)
    BY <1>5 DEF InterruptBeforeCount
  <2>2. obs \subseteq obs' /\ \A o \in Added : \E p \in InFlight : SameProbe(o, p)
    BY <2>1, SentObservations
  <2>3. CASE pc = "sweep"
    <3>1. \A p \in InFlight : p.variant = 0 /\ p.phase = "baseline-fixed"
      BY <2>3, InFlightIsNew, SweepBatch
    <3> QED BY <2>2, <2>3, <3>1 DEF SweepAdds, SameProbe
  <2>4. CASE pc = "canarySweep"
    <3>1. \A p \in InFlight :
            p.variant = canary /\ p.phase = "canary-varied" /\ p.sample = LastSample
      BY <2>4, InFlightIsNew, CanaryBatch
    <3> QED BY <2>2, <2>4, <3>1 DEF CanaryAdds, SameProbe
  <2> QED BY <2>1, <2>3, <2>4
<1> QED BY <1>1, <1>2, <1>3, <1>4, <1>5, StepObserves

(* A step draws at most one token, a fresh one.                            *)
LEMMA StepDraws ==
  ASSUME MeasurementInv, [Next]_vars
  PROVE  \/ tokens' = tokens
         \/ /\ obs' = obs /\ (BeginCanary \/ DrawToken)
            /\ \E v \in Nat \ {0} : \E t \in FreshTokens : tokens' = Cached(v, t)
<1>1. CASE BeginCanary
  <2>1. canary \in Nat \ {0}
    BY <1>1 DEF BeginCanary, MeasurementInv, TypeOK, LoopsInBounds
  <2> QED BY <1>1, <2>1 DEF BeginCanary, ledger
<1>2. CASE DrawToken
  <2>1. Tokenless # {} /\ pc = "varied" /\ obs' = obs
    BY <1>2 DEF DrawToken, ledger
  <2>2. nextVariant \in Nat \ {0} /\ VariedCount \in Int
    BY <2>1, VariedCountType
  <2>3. Tokenless \in SUBSET (Nat \ {0})
    BY <2>2 DEF Tokenless, VariedBatch
  <2>4. Min(Tokenless) \in Nat \ {0}
    BY <2>1, <2>3, MinOfNats
  <2> QED BY <1>2, <2>1, <2>4 DEF DrawToken
<1>3. CASE UNCHANGED vars
  BY <1>3 DEF vars
<1>4. CASE BeginRound \/ SweepRefused \/ SweepChunk \/ FixLimit \/ CanariesDone
  BY <1>4 DEF BeginRound, SweepRefused, SweepChunk, FixLimit, CanariesDone
<1>5. CASE CanaryRefused \/ CanaryChunk \/ DetectRegions \/ EnterWindow \/ WindowsDone
  BY <1>5 DEF CanaryRefused, CanaryChunk, DetectRegions, EnterWindow, WindowsDone
<1>6. CASE FixedRefused \/ FixedSample \/ FixedOnlyDone \/ BeginVaried \/ VariedSamples
  BY <1>6 DEF FixedRefused, FixedSample, FixedOnlyDone, BeginVaried, VariedSamples
<1>7. CASE VariedExhausted \/ VariedDone \/ RunControl \/ Summarize
  BY <1>7 DEF VariedExhausted, VariedDone, RunControl, Summarize
<1>8. CASE Interrupt \/ InterruptBeforeCount \/ BackendFails
  BY <1>8 DEF Interrupt, InterruptBeforeCount, BackendFails
<1> QED BY <1>1, <1>2, <1>3, <1>4, <1>5, <1>6, <1>7, <1>8 DEF Next, Proceed

(* Warnings are never withdrawn, an interrupt is never forgotten.          *)
LEMMA StepWarns ==
  ASSUME [Next]_vars
  PROVE  /\ InBudget' => InBudget
         /\ SweepRefused \/ CanaryRefused \/ FixedRefused \/ VariedExhausted => ~InBudget'
<1>1. warnings \subseteq warnings'
  <2>1. CASE UNCHANGED vars
    BY <2>1 DEF vars, verdict
  <2>2. CASE SweepRefused \/ CanaryRefused \/ FixedRefused \/ VariedExhausted
    BY <2>2 DEF SweepRefused, CanaryRefused, FixedRefused, VariedExhausted, Refuse
  <2>3. CASE BeginRound \/ SweepChunk \/ FixLimit \/ BeginCanary \/ CanariesDone
    BY <2>3 DEF BeginRound, SweepChunk, FixLimit, BeginCanary, CanariesDone, verdict
  <2>4. CASE CanaryChunk \/ DetectRegions \/ EnterWindow \/ WindowsDone \/ FixedSample
    BY <2>4 DEF CanaryChunk, DetectRegions, EnterWindow, WindowsDone, FixedSample, verdict
  <2>5. CASE FixedOnlyDone \/ BeginVaried \/ DrawToken \/ VariedSamples \/ VariedDone
    BY <2>5 DEF FixedOnlyDone, BeginVaried, DrawToken, VariedSamples, VariedDone, verdict
  <2>6. CASE RunControl \/ Summarize \/ Interrupt \/ InterruptBeforeCount \/ BackendFails
    BY <2>6 DEF RunControl, Summarize, Interrupt, InterruptBeforeCount, BackendFails, verdict
  <2> QED BY <2>1, <2>2, <2>3, <2>4, <2>5, <2>6 DEF Next, Proceed
<1>2. SweepRefused \/ CanaryRefused \/ FixedRefused \/ VariedExhausted =>
        "budget" \in warnings'
  BY DEF SweepRefused, CanaryRefused, FixedRefused, VariedExhausted, Refuse
<1> QED BY <1>1, <1>2 DEF InBudget

-----------------------------------------------------------------------------
(* Tokens, phases and flows.                                               *)

(* A fresh token keeps the tokens of the variants different.               *)
LEMMA FreshTokenKeeps ==
  ASSUME TypeOK, TokensDistinct, NEW v \in Nat \ {0}, NEW t \in FreshTokens,
         tokens' = Cached(v, t), obs' = obs
  PROVE  TokensDistinct'
<1>1. /\ t # MainToken
      /\ \A u \in DOMAIN tokens : tokens[u] # t
  BY DEF FreshTokens, Range
<1>2. DOMAIN tokens' = DOMAIN tokens \cup {v}
  BY DEF Cached
<1>3. /\ tokens'[v] = t
      /\ \A u \in DOMAIN tokens : u # v => tokens'[u] = tokens[u]
  BY DEF Cached
<1>4. \A u \in DOMAIN tokens' : tokens'[u] # MainToken
  BY <1>1, <1>2, <1>3 DEF TokensDistinct
<1>5. \A u, w \in DOMAIN tokens' : tokens'[u] = tokens'[w] => u = w
  <2> SUFFICES ASSUME NEW u \in DOMAIN tokens', NEW w \in DOMAIN tokens',
                      tokens'[u] = tokens'[w], u # w
               PROVE  FALSE
    OBVIOUS
  <2>1. CASE u = v
    BY <1>1, <1>2, <1>3, <2>1
  <2>2. CASE w = v
    BY <1>1, <1>2, <1>3, <2>2
  <2>3. CASE u # v /\ w # v
    BY <1>2, <1>3, <2>3 DEF TokensDistinct
  <2> QED BY <2>1, <2>2, <2>3
<1> QED BY <1>2, <1>4, <1>5 DEF TokensDistinct, MainFlow

(* The variants added have tokens, and their phases tell the flows apart.  *)
LEMMA TokensStep ==
  ASSUME MeasurementInv, TokensDistinct, PhasesOfFlows, [Next]_vars
  PROVE  TokensDistinct' /\ PhasesOfFlows'
<1>1. obs \subseteq obs' /\ Added = obs' \ obs
  BY StepAdds DEF Added
<1>2. \A o \in Added : o.variant = 0 \/ o.variant \in DOMAIN tokens
  <2>1. CASE pc = "canarySweep" /\ CanaryAdds
    <3>1. canary \in DOMAIN tokens
      BY <2>1 DEF MeasurementInv, LoopsInBounds
    <3> QED BY <2>1, <3>1 DEF CanaryAdds
  <2>2. CASE VariedSamples /\ VariedAdds
    <3>1. nextVariant..(nextVariant + VariedCount - 1) \subseteq DOMAIN tokens
      BY <2>2 DEF VariedSamples, Tokenless, VariedBatch
    <3> QED BY <2>2, <3>1 DEF VariedAdds
  <2> QED BY <2>1, <2>2, StepAdds DEF SweepAdds, FixedAdds, Added
<1>3. \A o \in Added : o.variant = 0 <=> o.phase \in {"baseline-fixed", "dbp-fixed"}
  <2>1. CASE pc = "canarySweep" /\ CanaryAdds
    <3>1. canary # 0
      BY <2>1 DEF MeasurementInv, TypeOK, LoopsInBounds
    <3> QED BY <2>1, <3>1 DEF CanaryAdds
  <2>2. CASE VariedSamples /\ VariedAdds
    <3>1. pc = "varied"
      BY <2>2 DEF VariedSamples
    <3>2. \A v \in nextVariant..(nextVariant + VariedCount - 1) : v # 0
      BY <3>1, VariedCountType
    <3> QED BY <2>2, <3>2 DEF VariedAdds
  <2> QED BY <2>1, <2>2, StepAdds DEF SweepAdds, FixedAdds, Added
<1>4. PhasesOfFlows'
  <2>1. \A o \in obs' : o \in obs \/ o \in Added
    BY <1>1
  <2> QED BY <1>3, <2>1 DEF PhasesOfFlows, MainFlow
<1>5. CASE tokens' = tokens
  <2>1. \A o \in obs' : o \in obs \/ o \in Added
    BY <1>1
  <2>2. \A o \in obs' : MainFlow(o) \/ o.variant \in DOMAIN tokens
    BY <1>2, <2>1 DEF TokensDistinct, MainFlow
  <2> QED BY <1>4, <1>5, <2>2 DEF TokensDistinct, MainFlow
<1>6. CASE /\ obs' = obs
           /\ \E v \in Nat \ {0} : \E t \in FreshTokens : tokens' = Cached(v, t)
  <2>1. TokensDistinct'
    BY <1>6, FreshTokenKeeps DEF MeasurementInv
  <2> QED BY <1>4, <2>1
<1> QED BY <1>5, <1>6, StepDraws

-----------------------------------------------------------------------------
(* Answers of the tokens.                                                  *)

(* A step leaves the network and the tokens already drawn as they are.     *)
LEMMA TokensKept ==
  ASSUME MeasurementInv, AnswersOfTokens, [Next]_vars
  PROVE  /\ net' = net
         /\ \A v \in DOMAIN tokens : v \in DOMAIN tokens' /\ tokens'[v] = tokens[v]
<1>1. net' = net
  <2>1. CASE UNCHANGED vars \/ BeginRound \/ SweepRefused \/ SweepChunk \/ FixLimit
    BY <2>1 DEF vars, BeginRound, SweepRefused, SweepChunk, FixLimit
  <2>2. CASE BeginCanary \/ CanariesDone \/ CanaryRefused \/ CanaryChunk \/ DetectRegions
    BY <2>2 DEF BeginCanary, CanariesDone, CanaryRefused, CanaryChunk, DetectRegions
  <2>3. CASE EnterWindow \/ WindowsDone \/ FixedRefused \/ FixedSample \/ FixedOnlyDone
    BY <2>3 DEF EnterWindow, WindowsDone, FixedRefused, FixedSample, FixedOnlyDone
  <2>4. CASE BeginVaried \/ DrawToken \/ VariedSamples \/ VariedExhausted \/ VariedDone
    BY <2>4 DEF BeginVaried, DrawToken, VariedSamples, VariedExhausted, VariedDone
  <2>5. CASE RunControl \/ Summarize \/ Interrupt \/ InterruptBeforeCount \/ BackendFails
    BY <2>5 DEF RunControl, Summarize, Interrupt, InterruptBeforeCount, BackendFails
  <2> QED BY <2>1, <2>2, <2>3, <2>4, <2>5 DEF Next, Proceed
<1>2. ASSUME NEW v, v \notin DOMAIN tokens, NEW t, tokens' = Cached(v, t)
      PROVE  \A u \in DOMAIN tokens : u \in DOMAIN tokens' /\ tokens'[u] = tokens[u]
  BY <1>2 DEF Cached
<1>3. CASE tokens' = tokens
  BY <1>1, <1>3
<1>4. CASE BeginCanary
  <2>1. canary \notin DOMAIN tokens
    <3>1. canary \in Nat /\ (canary \in DOMAIN tokens => canary < canary)
      BY <1>4 DEF BeginCanary, AnswersOfTokens, MeasurementInv, TypeOK
    <3> QED BY <3>1
  <2>2. \E t \in FreshTokens : tokens' = Cached(canary, t)
    BY <1>4 DEF BeginCanary
  <2> QED BY <1>1, <1>2, <2>1, <2>2
<1>5. CASE DrawToken
  <2>1. Tokenless # {} /\ pc = "varied"
    BY <1>5 DEF DrawToken
  <2>2. Tokenless \in SUBSET Nat
    BY <2>1, VariedCountType DEF Tokenless, VariedBatch
  <2>3. Min(Tokenless) \in Tokenless
    BY <2>1, <2>2, MinOfNats
  <2>4. Min(Tokenless) \notin DOMAIN tokens
    BY <2>3 DEF Tokenless
  <2>5. \E t \in FreshTokens : tokens' = Cached(Min(Tokenless), t)
    BY <1>5 DEF DrawToken
  <2> QED BY <1>1, <1>2, <2>4, <2>5
<1>6. tokens' = tokens \/ BeginCanary \/ DrawToken
  BY StepDraws
<1> QED BY <1>3, <1>4, <1>5, <1>6

(* What a step observes is what the network answers the tokens probed.     *)
LEMMA AddedFromNetwork ==
  ASSUME MeasurementInv, [Next]_vars
  PROVE  \A o \in Added :
           [kind |-> o.kind, who |-> o.who, mut |-> o.mut] \in net[<<o.ttl, TokenOf(o)>>]
<1>1. ASSUME NEW P, NewBatch(P), NEW reply \in Replies(P), NEW c, Deliver(P, reply, c)
      PROVE  \A o \in Added :
               [kind |-> o.kind, who |-> o.who, mut |-> o.mut]
                 \in net[<<o.ttl, TokenOf(o)>>]
  <2>1. Added \subseteq Received(P, reply)
    BY <1>1 DEF Deliver, Added
  <2> QED BY <1>1, <2>1, ReceivedFromNetwork
<1>2. CASE obs' = obs
  BY <1>2 DEF Added
<1>3. CASE SweepChunk
  <2>1. PICK reply \in Replies(SweepSpecs) :
          Deliver(SweepSpecs, reply, Cardinality(SweepSpecs))
    BY <1>3 DEF SweepChunk
  <2>2. NewBatch(SweepSpecs)
    BY <1>3, SweepBatch DEF SweepChunk
  <2> QED BY <1>1, <2>1, <2>2
<1>4. CASE CanaryChunk
  <2>1. PICK reply \in Replies(CanarySpecs) :
          Deliver(CanarySpecs, reply, Cardinality(CanarySpecs))
    BY <1>4 DEF CanaryChunk
  <2>2. NewBatch(CanarySpecs)
    BY <1>4, CanaryBatch DEF CanaryChunk
  <2> QED BY <1>1, <2>1, <2>2
<1>5. CASE FixedSample
  <2>1. PICK reply \in Replies(FixedSpecs) : Deliver(FixedSpecs, reply, 0)
    BY <1>5 DEF FixedSample
  <2>2. NewBatch(FixedSpecs)
    BY <1>5, FixedBatch DEF FixedSample
  <2> QED BY <1>1, <2>1, <2>2
<1>6. CASE VariedSamples
  <2>1. PICK reply \in Replies(VariedSpecs) : Deliver(VariedSpecs, reply, 0)
    BY <1>6 DEF VariedSamples
  <2>2. NewBatch(VariedSpecs)
    BY <1>6, VariedBatchIsNew DEF VariedSamples
  <2> QED BY <1>1, <2>1, <2>2
<1>7. CASE InterruptBeforeCount
  <2>1. PICK reply \in Replies(InFlight) : Deliver(InFlight, reply, 0)
    BY <1>7 DEF InterruptBeforeCount
  <2>2. NewBatch(InFlight)
    BY <1>7, InFlightIsNew DEF InterruptBeforeCount
  <2> QED BY <1>1, <2>1, <2>2
<1> QED BY <1>2, <1>3, <1>4, <1>5, <1>6, <1>7, StepObserves

(* The canaries draw the tokens of their own variants, one after another.  *)
LEMMA CanaryTokensStep ==
  ASSUME MeasurementInv, AnswersOfTokens, [Next]_vars
  PROVE  /\ pc' \in BaselineStages => DOMAIN tokens' = {}
         /\ pc' = "canary"      => \A v \in DOMAIN tokens' : v < canary'
         /\ pc' = "canarySweep" => \A v \in DOMAIN tokens' : v <= canary'
<1>0. /\ DOMAIN tokens \in SUBSET Nat /\ canary \in Nat
      /\ BaselineStages = {"round", "sweep", "limit"}
  BY DEF MeasurementInv, TypeOK, BaselineStages
<1>1. CASE pc' = pc /\ tokens' = tokens /\ canary' = canary
  BY <1>1 DEF AnswersOfTokens
<1>2. CASE pc' \notin BaselineStages \cup {"canary", "canarySweep"}
  BY <1>2
<1>3. CASE BeginRound \/ SweepRefused \/ SweepChunk
  <2>1. pc \in BaselineStages /\ pc' \in BaselineStages /\ tokens' = tokens
    BY <1>0, <1>3 DEF BeginRound, SweepRefused, SweepChunk
  <2> QED BY <1>0, <2>1 DEF AnswersOfTokens
<1>4. CASE FixLimit
  <2>1. pc \in BaselineStages /\ pc' \in {"canary", "window"} /\ tokens' = tokens
    BY <1>0, <1>4 DEF FixLimit
  <2> QED BY <1>0, <2>1 DEF AnswersOfTokens
<1>5. CASE BeginCanary
  <2>1. pc = "canary" /\ pc' = "canarySweep" /\ canary' = canary
    BY <1>5 DEF BeginCanary
  <2>2. DOMAIN tokens' = DOMAIN tokens \cup {canary}
    BY <1>5 DEF BeginCanary, Cached
  <2>3. \A v \in DOMAIN tokens : v < canary
    BY <2>1 DEF AnswersOfTokens
  <2> QED BY <1>0, <2>1, <2>2, <2>3
<1>6. CASE CanaryChunk
  <2>1. /\ pc = "canarySweep" /\ tokens' = tokens
        /\ \/ pc' = "canary" /\ canary' = canary + 1
           \/ pc' = "canarySweep" /\ canary' = canary
    BY <1>6 DEF CanaryChunk
  <2>2. \A v \in DOMAIN tokens : v <= canary
    BY <2>1 DEF AnswersOfTokens
  <2> QED BY <1>0, <2>1, <2>2
<1>7. CASE UNCHANGED vars
  BY <1>1, <1>7 DEF vars, sweepVars
<1>8. CASE \/ CanariesDone \/ CanaryRefused \/ DetectRegions \/ EnterWindow \/ WindowsDone
           \/ FixedRefused \/ FixedSample \/ FixedOnlyDone \/ BeginVaried
  <2>1. pc' \in {"regions", "window", "control", "fixed", "varied"}
    BY <1>8 DEF CanariesDone, CanaryRefused, DetectRegions, EnterWindow, WindowsDone,
                FixedRefused, FixedSample, FixedOnlyDone, BeginVaried, LeaveWindow
  <2> QED BY <1>0, <1>2, <2>1
<1>9. CASE \/ DrawToken \/ VariedSamples \/ VariedExhausted \/ VariedDone \/ RunControl
           \/ Summarize \/ Interrupt \/ InterruptBeforeCount \/ BackendFails
  <2>1. pc' \in {"varied", "window", "summarize", "done", "failed"}
    BY <1>9 DEF DrawToken, VariedSamples, VariedExhausted, VariedDone, RunControl,
                Summarize, Interrupt, InterruptBeforeCount, BackendFails, LeaveWindow
  <2> QED BY <1>0, <1>2, <2>1
<1> QED BY <1>3, <1>4, <1>5, <1>6, <1>7, <1>8, <1>9 DEF Next, Proceed

(* The answers stay those of the tokens.                                   *)
LEMMA AnswersStep ==
  ASSUME MeasurementInv, TokensDistinct, AnswersOfTokens, TokensDistinct', [Next]_vars
  PROVE  AnswersOfTokens'
<1>1. ASSUME NEW o \in obs'
      PROVE  [kind |-> o.kind, who |-> o.who, mut |-> o.mut]
               \in net'[<<o.ttl, TokenOf(o)'>>]
  <2>1. /\ net' = net
        /\ \A v \in DOMAIN tokens : tokens'[v] = tokens[v]
    BY TokensKept
  <2>2. CASE o \in obs
    <3>1. [kind |-> o.kind, who |-> o.who, mut |-> o.mut] \in net[<<o.ttl, TokenOf(o)>>]
      BY <2>2 DEF AnswersOfTokens
    <3>2. MainFlow(o) \/ o.variant \in DOMAIN tokens
      BY <2>2 DEF TokensDistinct
    <3>3. TokenOf(o)' = TokenOf(o)
      BY <2>1, <3>2 DEF TokenOf, MainFlow
    <3> QED BY <2>1, <3>1, <3>3
  <2>3. CASE o \notin obs
    <3>1. o \in Added /\ obs' # obs
      BY <2>3 DEF Added
    <3>2. [kind |-> o.kind, who |-> o.who, mut |-> o.mut] \in net[<<o.ttl, TokenOf(o)>>]
      BY <3>1, AddedFromNetwork
    <3>3. tokens' = tokens
      BY <3>1, StepDraws
    <3>4. TokenOf(o)' = TokenOf(o)
      BY <3>3 DEF TokenOf
    <3> QED BY <2>1, <3>2, <3>4
  <2> QED BY <2>2, <2>3
<1>2. /\ pc' \in BaselineStages => DOMAIN tokens' = {}
      /\ pc' = "canary"      => \A v \in DOMAIN tokens' : v < canary'
      /\ pc' = "canarySweep" => \A v \in DOMAIN tokens' : v <= canary'
  BY CanaryTokensStep
<1> QED BY <1>1, <1>2 DEF AnswersOfTokens

-----------------------------------------------------------------------------
(* Adaptive samples stay inside the regions.                               *)

(* A window samples TTLs of the regions it was built from.                 *)
LEMMA WindowsInside ==
  ASSUME NEW R, NEW w \in SamplingWindows(R), NEW t \in w.ttls
  PROVE  \E r \in R : t \in r.ttls
<1>1. CASE \E f \in ClusterStarts(R) : w = SharedWindow(Cluster(R, f))
  <2>1. PICK f \in ClusterStarts(R) : w = SharedWindow(Cluster(R, f))
    BY <1>1
  <2>2. w.ttls = UNION {r.ttls : r \in Cluster(R, f)}
    BY <2>1 DEF SharedWindow
  <2>3. Cluster(R, f) \subseteq R
    BY DEF Cluster, VariantRegions
  <2> QED BY <2>2, <2>3
<1>2. CASE \E r \in R : w = [variant |-> FALSE, first |-> r.first, last |-> r.last,
                             ttls |-> r.ttls]
  BY <1>2
<1> QED BY <1>1, <1>2 DEF SamplingWindows

(* The regions are those of the detection or the report, and windows are   *)
(* only taken off the list.                                                *)
LEMMA StepRegions ==
  ASSUME [Next]_vars
  PROVE  DetectRegions \/ Summarize \/ (regions' = regions /\ work' \subseteq work)
<1>1. CASE UNCHANGED vars
  BY <1>1 DEF vars, capVars
<1>2. CASE \/ BeginRound \/ SweepRefused \/ SweepChunk \/ FixLimit \/ BeginCanary
           \/ CanariesDone \/ CanaryRefused \/ CanaryChunk
  BY <1>2 DEF BeginRound, SweepRefused, SweepChunk, FixLimit, BeginCanary,
              CanariesDone, CanaryRefused, CanaryChunk, capVars
<1>3. CASE \/ EnterWindow \/ WindowsDone \/ FixedRefused \/ FixedSample \/ FixedOnlyDone
           \/ BeginVaried \/ DrawToken \/ VariedSamples \/ VariedExhausted \/ VariedDone
  BY <1>3 DEF EnterWindow, WindowsDone, FixedRefused, FixedSample, FixedOnlyDone,
              BeginVaried, DrawToken, VariedSamples, VariedExhausted, VariedDone,
              LeaveWindow, capVars
<1>4. CASE RunControl \/ Interrupt \/ InterruptBeforeCount \/ BackendFails
  BY <1>4 DEF RunControl, Interrupt, InterruptBeforeCount, BackendFails, capVars
<1> QED BY <1>1, <1>2, <1>3, <1>4 DEF Next, Proceed

(* What is observed outside the sweeps and canaries lies in a region.      *)
LEMMA AdaptiveStep ==
  ASSUME MeasurementInv, ReportInv, AdaptiveInside, [Next]_vars
  PROVE  AdaptiveInside'
<1>0. \A o : o \in BaselineObs <=> o \in obs /\ o.phase \in {"baseline-fixed", "canary-varied"}
  BY DEF BaselineObs
<1>1. \A o : o \in BaselineObs' <=>
               o \in obs' /\ o.phase \in {"baseline-fixed", "canary-varied"}
  BY DEF BaselineObs
<1>2. CASE regions' = regions /\ work' \subseteq work
  <2>1. \A t : InRegions(t)' <=> InRegions(t)
    BY <1>2 DEF InRegions
  <2>2. ASSUME NEW o \in obs' \ BaselineObs' PROVE InRegions(o.ttl)
    <3>1. CASE o \in obs
      BY <1>0, <1>1, <2>2, <3>1 DEF AdaptiveInside
    <3>2. CASE o \in Added
      <4>1. o.phase \notin {"baseline-fixed", "canary-varied"}
        BY <1>1, <2>2
      <4>2. pc \in {"fixed", "varied"} /\ o.ttl \in Window.ttls
        BY <3>2, <4>1, StepAdds
           DEF SweepAdds, CanaryAdds, FixedAdds, VariedAdds, FixedSample, VariedSamples, Added
      <4>3. work # {} /\ work \in SUBSET Windows
        BY <4>2 DEF MeasurementInv, TypeOK, LoopsInBounds
      <4>4. Window \in work
        BY <4>3, NextWindowType DEF Window
      <4> QED BY <4>2, <4>4 DEF AdaptiveInside
    <3> QED BY <2>2, <3>1, <3>2 DEF Added
  <2>3. \A w \in work' : \A t \in w.ttls : InRegions(t)
    BY <1>2 DEF AdaptiveInside
  <2> QED BY <2>1, <2>2, <2>3 DEF AdaptiveInside
<1>3. CASE DetectRegions
  <2>1. pc = "regions" /\ obs' = obs /\ work' = SamplingWindows(regions')
    BY <1>3 DEF DetectRegions, ledger
  <2>2. obs = BaselineObs
    BY <2>1 DEF ReportInv, RegionsOfBaseline, CanaryStages
  <2>3. obs' = BaselineObs'
    BY <1>0, <1>1, <2>1, <2>2
  <2>4. \A w \in work' : \A t \in w.ttls : InRegions(t)'
    <3>1. PICK R : R = regions'
      OBVIOUS
    <3>2. \A w \in SamplingWindows(R) : \A t \in w.ttls : \E r \in R : t \in r.ttls
      BY WindowsInside
    <3> QED BY <2>1, <3>1, <3>2 DEF InRegions
  <2> QED BY <2>3, <2>4 DEF AdaptiveInside
<1>4. CASE Summarize
  <2>1. obs' = obs /\ work' = work
    BY <1>4 DEF Summarize, ledger
  <2>2. CASE regions = {}
    <3>1. obs = BaselineObs /\ work = {}
      BY <2>2 DEF ReportInv, RegionsOfBaseline
    <3>2. obs' = BaselineObs' /\ work' = {}
      BY <1>0, <1>1, <2>1, <3>1
    <3> QED BY <3>2 DEF AdaptiveInside
  <2>3. CASE regions # {}
    <3>1. regions' = regions /\ work' \subseteq work
      BY <1>4, <2>1, <2>3 DEF Summarize
    <3> QED BY <1>2, <3>1
  <2> QED BY <2>2, <2>3
<1> QED BY <1>2, <1>3, <1>4, StepRegions

-----------------------------------------------------------------------------
(* Variants and samples.                                                   *)

(* Until a canary's sweep ends, only this sweep used the canary's variant. *)
LEMMA CanaryIsNew ==
  ASSUME MeasurementInv, ReportInv, SamplingInv, InBudget, pc = "canarySweep"
  PROVE  \A o \in obs : o.variant = canary => o.sample = LastSample
<1> TAKE o \in obs
<1> HAVE o.variant = canary
<1>1. canary \in Nat /\ canary # 0
  BY DEF MeasurementInv, TypeOK, LoopsInBounds
<1>2. obs = BaselineObs
  BY DEF ReportInv, RegionsOfBaseline, CanaryStages
<1>3. o.phase = "canary-varied"
  BY <1>1, <1>2 DEF BaselineObs, SamplingInv, PhasesOfFlows, MainFlow
<1>4. o.variant < canary \/ o.sample = LastSample
  BY <1>3 DEF SamplingInv, CanariesInOrder
<1> QED BY <1>1, <1>4

(* While a window is varied, what was varied at its TTLs came before.      *)
LEMMA VariantsAreNew ==
  ASSUME MeasurementInv, SamplingInv, InBudget, pc = "varied"
  PROVE  \A o \in obs : o.ttl \in Window.ttls /\ ~MainFlow(o) => o.variant < nextVariant
<1> TAKE o \in obs
<1> HAVE o.ttl \in Window.ttls /\ ~MainFlow(o)
<1>1. Window \in work /\ Window.variant
  BY WindowType DEF MeasurementInv, LoopsInBounds, SamplingInv, WindowCounts
<1>2. o.phase = "canary-varied" \/ o.variant < nextVariant
  BY <1>1 DEF SamplingInv, WindowsFresh, TryStages
<1>3. o.phase = "canary-varied" => o.variant <= CanaryFlows
  BY DEF SamplingInv, CanariesInOrder
<1>4. nextVariant > CanaryFlows
  BY DEF SamplingInv, WindowCounts
<1>5. o.variant \in Nat /\ nextVariant \in Nat
  BY DEF MeasurementInv, TypeOK, Observed, Variants
<1> QED BY <1>2, <1>3, <1>4, <1>5, ConfigAssumption

(* A variant is probed once per TTL.                                       *)
LEMMA FlowsOnceStep ==
  ASSUME MeasurementInv, ReportInv, SamplingInv, [Next]_vars, InBudget
  PROVE  FlowsOnce'
<1>0. FlowsOnce
  BY DEF SamplingInv
<1>1. \A o \in obs' : o \in obs \/ o \in Added
  BY DEF Added
<1>2. CASE obs' = obs
  BY <1>0, <1>2 DEF FlowsOnce, MainFlow
<1>3. CASE SweepAdds \/ FixedAdds
  BY <1>0, <1>1, <1>3 DEF SweepAdds, FixedAdds, FlowsOnce, MainFlow
<1>4. CASE pc = "canarySweep" /\ CanaryAdds
  BY <1>0, <1>1, <1>4, CanaryIsNew DEF CanaryAdds, FlowsOnce
<1>5. CASE VariedSamples /\ VariedAdds
  <2>1. pc = "varied"
    BY <1>5 DEF VariedSamples
  <2>2. \A o \in obs : o.ttl \in Window.ttls /\ ~MainFlow(o) => o.variant < nextVariant
    BY <2>1, VariantsAreNew
  <2>3. \A o \in Added :
          /\ o.ttl \in Window.ttls /\ ~(o.variant < nextVariant) /\ ~MainFlow(o)
          /\ o.sample = nextSample + (o.variant - nextVariant)
    <3>1. nextVariant \in Nat \ {0} /\ VariedCount \in Int
      BY <2>1, VariedCountType
    <3>2. \A v \in nextVariant..(nextVariant + VariedCount - 1) :
            ~(v < nextVariant) /\ v # 0
      BY <3>1
    <3> QED BY <1>5, <3>2 DEF VariedAdds, MainFlow
  <2> SUFFICES ASSUME NEW a \in obs', NEW b \in obs', a.variant = b.variant,
                      a.ttl = b.ttl, ~MainFlow(a)
               PROVE  a.sample = b.sample
    BY DEF FlowsOnce, MainFlow
  <2>4. ~MainFlow(b)
    BY DEF MainFlow
  <2>5. CASE a \in obs /\ b \in obs
    BY <1>0, <2>5 DEF FlowsOnce
  <2>6. CASE a \in Added /\ b \in Added
    BY <2>3, <2>6
  <2>7. CASE a \in Added /\ b \in obs
    BY <2>2, <2>3, <2>4, <2>7
  <2>8. CASE a \in obs /\ b \in Added
    BY <2>2, <2>3, <2>8
  <2> QED BY <1>1, <2>5, <2>6, <2>7, <2>8
<1> QED BY <1>2, <1>3, <1>4, <1>5, StepAdds

-----------------------------------------------------------------------------
(* The canaries.                                                           *)

(* What a canary swept stays swept.                                        *)
LEMMA SweptByCanary ==
  ASSUME obs \subseteq obs', nextSample \in Nat, nextSample' \in Nat,
         nextSample <= nextSample', NEW c, NEW last, CanarySwept(c, last)
  PROVE  \E s \in 0..nextSample' : \A t \in 1..last :
           \E o \in obs' : o.sample = s /\ o.ttl = t /\ o.variant = c
<1>1. PICK s \in 0..nextSample : \A t \in 1..last :
        \E o \in obs : o.sample = s /\ o.ttl = t /\ o.variant = c
  BY DEF CanarySwept
<1>2. s \in 0..nextSample'
  OBVIOUS
<1> QED BY <1>1, <1>2

(* Canaries use the first variants.                                        *)
LEMMA CanaryVariants ==
  ASSUME MeasurementInv, SamplingInv, InBudget, [Next]_vars
  PROVE  \A o \in obs' : o.phase = "canary-varied" => o.variant <= CanaryFlows
<1>1. \A o \in obs : o.phase = "canary-varied" => o.variant <= CanaryFlows
  BY DEF SamplingInv, CanariesInOrder
<1>2. pc = "canarySweep" => canary <= CanaryFlows
  BY DEF SamplingInv, CanariesInOrder
<1>3. \A o \in Added : o.phase = "canary-varied" => o.variant <= CanaryFlows
  BY <1>2, StepAdds DEF SweepAdds, CanaryAdds, FixedAdds, VariedAdds, Added
<1> QED BY <1>1, <1>3 DEF Added

(* Steps after which no canary is swept and no window is left to work.     *)
LEMMA NoCanaryLeft ==
  ASSUME MeasurementInv, SamplingInv, InBudget, [Next]_vars,
         pc' \notin CanaryStages, pc' \notin TryStages \/ work' = {}
  PROVE  CanariesInOrder'
<1>1. pc' \notin {"canary", "canarySweep", "regions"}
  BY DEF CanaryStages
<1> QED BY <1>1, CanaryVariants DEF CanariesInOrder

(* Steps of adaptive sampling keep the canary sweeps they rest on.         *)
LEMMA CanariesKept ==
  ASSUME MeasurementInv, MeasurementInv', SamplingInv, InBudget, [Next]_vars,
         pc' \notin CanaryStages, pc = "regions" \/ (pc \in TryStages /\ work # {}),
         limit' = limit, nextSample <= nextSample'
  PROVE  CanariesInOrder'
<1>1. pc' \notin {"canary", "canarySweep", "regions"}
  BY DEF CanaryStages
<1>2. \A c \in 1..CanaryFlows : CanarySwept(c, limit)
  BY DEF SamplingInv, CanariesInOrder
<1>3. nextSample \in Nat /\ nextSample' \in Nat /\ obs \subseteq obs'
  BY StepAdds DEF MeasurementInv, TypeOK
<1>4. \A c \in 1..CanaryFlows : CanarySwept(c, limit)'
  BY <1>2, <1>3, SweptByCanary DEF CanarySwept
<1> QED BY <1>1, <1>4, CanaryVariants DEF CanariesInOrder

(* A canary is numbered after those swept before it.                       *)
LEMMA BeginCanaryOrder ==
  ASSUME MeasurementInv, MeasurementInv', ReportInv, SamplingInv, InBudget, BeginCanary
  PROVE  CanariesInOrder'
<1>1. /\ pc = "canary" /\ pc' = "canarySweep" /\ canary <= CanaryFlows /\ canary' = canary
      /\ obs' = obs /\ work' = work /\ limit' = limit /\ start' = 1
      /\ nextSample' = nextSample + 1
  BY DEF BeginCanary, ledger, capVars
<1>2. work = {}
  BY <1>1 DEF ReportInv, RegionsOfBaseline, CanaryStages
<1>3. nextSample \in Nat /\ nextSample' \in Nat /\ nextSample <= nextSample'
  BY <1>1 DEF MeasurementInv, TypeOK
<1>4. \A c \in 1..(canary - 1) : CanarySwept(c, limit)
  BY <1>1 DEF SamplingInv, CanariesInOrder
<1>5. \A c \in 1..(canary' - 1) : CanarySwept(c, limit)'
  BY <1>1, <1>3, <1>4, SweptByCanary DEF CanarySwept
<1>6. \A o \in obs' : o.phase = "canary-varied" =>
        o.variant <= CanaryFlows /\ o.variant < canary'
  BY <1>1 DEF SamplingInv, CanariesInOrder
<1>7. 1..(start' - 1) = {}
  BY <1>1
<1> QED BY <1>1, <1>2, <1>5, <1>6, <1>7 DEF CanariesInOrder

(* Once every canary was swept, each swept the whole path.                 *)
LEMMA CanariesDoneOrder ==
  ASSUME MeasurementInv, ReportInv, SamplingInv, InBudget, CanariesDone
  PROVE  CanariesInOrder'
<1>1. /\ pc = "canary" /\ pc' = "regions" /\ canary > CanaryFlows
      /\ obs' = obs /\ limit' = limit /\ nextSample' = nextSample
  BY DEF CanariesDone, ledger, sweepVars
<1>2. canary \in Nat
  BY DEF MeasurementInv, TypeOK
<1>3. \A c \in 1..CanaryFlows : c \in 1..(canary - 1)
  BY <1>1, <1>2, ConfigAssumption
<1>4. \A c \in 1..CanaryFlows : CanarySwept(c, limit)
  BY <1>1, <1>3 DEF SamplingInv, CanariesInOrder
<1>5. \A c \in 1..CanaryFlows : CanarySwept(c, limit)'
  BY <1>1, <1>4 DEF CanarySwept
<1>6. \A o \in obs' : o.phase = "canary-varied" => o.variant <= CanaryFlows
  BY <1>1 DEF SamplingInv, CanariesInOrder
<1> QED BY <1>1, <1>5, <1>6 DEF CanariesInOrder

(* A chunk of a canary's sweep extends it, the last one ends it.           *)
LEMMA CanaryChunkOrder ==
  ASSUME MeasurementInv, MeasurementInv', ReportInv, SamplingInv, InBudget, CanaryChunk
  PROVE  CanariesInOrder'
<1> DEFINE stop == ChunkStop(start, limit)
<1>1. /\ pc = "canarySweep" /\ limit' = limit /\ work' = work /\ nextSample' = nextSample
      /\ \/ stop = limit /\ pc' = "canary" /\ canary' = canary + 1
         \/ pc' = "canarySweep" /\ canary' = canary /\ start' = stop + 1
  BY DEF CanaryChunk, capVars
<1>2. work = {}
  BY <1>1 DEF ReportInv, RegionsOfBaseline, CanaryStages
<1>3. /\ nextSample \in Nat \ {0} /\ canary \in Nat /\ stop \in start..limit
      /\ start \in Nat /\ limit \in Nat
  BY <1>1, CanaryBatch DEF MeasurementInv, TypeOK, TTLs
<1>4. PICK reply \in Replies(CanarySpecs) :
        Deliver(CanarySpecs, reply, Cardinality(CanarySpecs))
  BY DEF CanaryChunk
<1>5. /\ obs \subseteq obs'
      /\ \A o \in Added : \E p \in CanarySpecs : SameProbe(o, p)
      /\ \A p \in CanarySpecs : \E o \in obs' : SameProbe(o, p)
  BY <1>4, SentObservations
<1>6. /\ canary <= CanaryFlows
      /\ \A t \in 1..(start - 1) :
           \E o \in obs : o.sample = LastSample /\ o.ttl = t /\ o.variant = canary
      /\ \A c \in 1..(canary - 1) : CanarySwept(c, limit)
      /\ \A o \in obs : o.phase = "canary-varied" =>
           o.variant < canary \/ (o.variant = canary /\ o.sample = LastSample)
  BY <1>1 DEF SamplingInv, CanariesInOrder
<1>7. \A t \in 1..stop :
        \E o \in obs' : o.sample = LastSample /\ o.ttl = t /\ o.variant = canary
  <2> TAKE t \in 1..stop
  <2>1. CASE t \in 1..(start - 1)
    BY <1>5, <1>6, <2>1
  <2>2. CASE t \in start..stop
    <3>1. PICK p \in CanarySpecs : p.ttl = t /\ p.variant = canary /\ p.sample = LastSample
      BY <1>1, <2>2, CanaryProbes
    <3> QED BY <1>5, <3>1 DEF SameProbe
  <2>3. t \in 1..(start - 1) \/ t \in start..stop
    <3> HIDE DEF stop
    <3> QED BY <1>3
  <2> QED BY <2>1, <2>2, <2>3
<1> HIDE DEF stop
<1>8. \A o \in obs' : o.phase = "canary-varied" =>
        /\ o.variant <= CanaryFlows
        /\ o.variant < canary \/ (o.variant = canary /\ o.sample = LastSample)
  <2>1. \A o \in Added : o.variant = canary /\ o.sample = LastSample
    BY <1>1, <1>5, CanaryBatch DEF SameProbe
  <2>2. \A o \in obs' : o \in obs \/ o \in Added
    BY DEF Added
  <2>3. \A o \in obs : o.phase = "canary-varied" => o.variant <= CanaryFlows
    BY DEF SamplingInv, CanariesInOrder
  <2> QED BY <1>6, <2>1, <2>2, <2>3
<1>9. LastSample' = LastSample
  BY <1>1 DEF LastSample
<1>10. \A c \in 1..(canary - 1) : CanarySwept(c, limit)'
  BY <1>1, <1>3, <1>5, <1>6, SweptByCanary DEF CanarySwept
<1>11. CASE stop = limit /\ pc' = "canary" /\ canary' = canary + 1
  <2>1. LastSample \in 0..nextSample
    BY <1>3 DEF LastSample
  <2>2. ASSUME NEW c, c = canary PROVE CanarySwept(c, limit)'
    BY <1>1, <1>7, <1>11, <2>1, <2>2 DEF CanarySwept
  <2>3. \A c \in 1..(canary' - 1) : c = canary \/ c \in 1..(canary - 1)
    BY <1>3, <1>11
  <2>4. \A c \in 1..(canary' - 1) : CanarySwept(c, limit)'
    BY <1>10, <2>2, <2>3
  <2>5. \A o \in obs' : o.phase = "canary-varied" =>
          o.variant <= CanaryFlows /\ o.variant < canary'
    <3>1. \A o \in obs' : o.variant \in Nat
      BY DEF MeasurementInv, TypeOK, Observed, Variants
    <3> QED BY <1>3, <1>8, <1>11, <3>1
  <2> QED BY <1>1, <1>2, <1>11, <2>4, <2>5 DEF CanariesInOrder
<1>12. CASE pc' = "canarySweep" /\ canary' = canary /\ start' = stop + 1
  <2>1. 1..(start' - 1) = 1..stop
    BY <1>3, <1>12
  <2> QED BY <1>1, <1>2, <1>6, <1>7, <1>8, <1>9, <1>10, <1>12, <2>1 DEF CanariesInOrder
<1> QED BY <1>1, <1>11, <1>12

(* When the limit is fixed no canary was swept yet.                        *)
LEMMA FixLimitOrder ==
  ASSUME MeasurementInv, PathInv, ReportInv, SamplingInv, FixLimit
  PROVE  CanariesInOrder'
<1>1. /\ pc = "limit" /\ pc' \in {"canary", "window"} /\ canary' = 1
      /\ obs' = obs /\ work' = work
  BY DEF FixLimit, ledger, capVars
<1>2. limit = 0 /\ work = {}
  BY <1>1 DEF PathInv, LimitInside, BaselineStages
<1>3. \A o \in obs : o.phase # "canary-varied"
  BY <1>2 DEF ReportInv, LimitMet
<1>4. 1..(canary' - 1) = {}
  BY <1>1
<1> QED BY <1>1, <1>2, <1>3, <1>4 DEF CanariesInOrder

(* The canaries stay in order.                                             *)
LEMMA CanariesStep ==
  ASSUME MeasurementInv, MeasurementInv', PathInv, ReportInv, SamplingInv, [Next]_vars,
         InBudget, InBudget'
  PROVE  CanariesInOrder'
<1>1. CASE UNCHANGED vars
  <2>1. /\ pc' = pc /\ obs' = obs /\ nextSample' = nextSample /\ start' = start
        /\ canary' = canary /\ limit' = limit /\ work' = work
    BY <1>1 DEF vars, ledger, sweepVars, capVars
  <2>2. CanariesInOrder
    BY DEF SamplingInv
  <2> QED BY <2>1, <2>2 DEF CanariesInOrder, CanarySwept, LastSample
<1>2. CASE BeginRound \/ SweepChunk
  <2>1. /\ pc \in BaselineStages /\ pc' \in {"sweep", "round", "limit"} /\ work' = work
    BY <1>2 DEF BeginRound, SweepChunk, capVars, BaselineStages
  <2>2. work' = {}
    BY <2>1 DEF PathInv, LimitInside
  <2>3. pc' \notin CanaryStages
    BY <2>1 DEF CanaryStages
  <2> QED BY <2>2, <2>3, NoCanaryLeft
<1>3. CASE SweepRefused \/ CanaryRefused \/ FixedRefused \/ VariedExhausted
  BY <1>3, StepWarns
<1>4. CASE FixLimit
  BY <1>4, FixLimitOrder
<1>5. CASE BeginCanary
  BY <1>5, BeginCanaryOrder
<1>6. CASE CanariesDone
  BY <1>6, CanariesDoneOrder
<1>7. CASE CanaryChunk
  BY <1>7, CanaryChunkOrder
<1>8. nextSample \in Nat
  BY DEF MeasurementInv, TypeOK
<1>9. CASE DetectRegions
  <2>1. pc = "regions" /\ pc' = "window" /\ limit' = limit /\ nextSample' = nextSample
    BY <1>9 DEF DetectRegions
  <2> QED BY <1>8, <2>1, CanariesKept DEF CanaryStages
<1>10. CASE \/ EnterWindow \/ FixedSample \/ FixedOnlyDone \/ BeginVaried
            \/ DrawToken \/ VariedSamples \/ VariedDone
  <2>1. /\ pc \in {"window", "fixed", "varied"} /\ pc' \in {"window", "fixed", "varied"}
        /\ limit' = limit
        /\ pc = "window" => work # {}
    BY <1>10 DEF EnterWindow, FixedSample, FixedOnlyDone, LeaveWindow, BeginVaried,
                DrawToken, VariedSamples, VariedDone
  <2>2. work # {}
    BY <2>1 DEF MeasurementInv, LoopsInBounds
  <2>3. nextSample <= nextSample'
    <3>1. CASE VariedSamples
      <4>1. VariedCount \in Nat /\ nextSample' = nextSample + VariedCount
        BY <3>1, VariedCountType DEF VariedSamples
      <4> QED BY <1>8, <4>1
    <3>2. CASE ~VariedSamples
      <4>1. nextSample' \in {nextSample, nextSample + 1}
        BY <1>10, <3>2 DEF EnterWindow, FixedSample, FixedOnlyDone, BeginVaried, DrawToken,
                          VariedDone
      <4> QED BY <1>8, <4>1
    <3> QED BY <3>1, <3>2
  <2> QED BY <2>1, <2>2, <2>3, CanariesKept DEF CanaryStages, TryStages
<1>11. CASE WindowsDone
  <2>1. work' = {} /\ pc' = "control"
    BY <1>11 DEF WindowsDone, capVars
  <2> QED BY <2>1, NoCanaryLeft DEF CanaryStages
<1>12. CASE RunControl \/ Summarize \/ Interrupt \/ InterruptBeforeCount \/ BackendFails
  <2>1. pc' \in {"summarize", "done", "failed"}
    BY <1>12 DEF RunControl, Summarize, Interrupt, InterruptBeforeCount, BackendFails
  <2> QED BY <2>1, NoCanaryLeft DEF CanaryStages, TryStages
<1> QED BY <1>1, <1>2, <1>3, <1>4, <1>5, <1>6, <1>7, <1>9, <1>10, <1>11, <1>12
           DEF Next, Proceed

-----------------------------------------------------------------------------
(* The windows.                                                            *)

(* The regions found have their TTLs inside their bounds; their windows    *)
(* that share variants share no TTL.                                       *)
LEMMA DetectedWindows ==
  ASSUME NEW E, NEW lim \in TTLs,
         NEW R \in {{GlobalRegion(lim)}, FindRegions(E, lim)}
  PROVE  /\ R \in SUBSET Regions
         /\ \A v, w \in SamplingWindows(R) :
              v.variant /\ w.variant /\ v # w => v.ttls \cap w.ttls = {}
<1>1. R \in SUBSET Regions
  BY FindRegionsType, GlobalRegionType
<1>2. \A r \in R : r.first \in Int /\ r.last \in Int /\ r.ttls \subseteq r.first..r.last
  <2> TAKE r \in R
  <2>1. r.first \in 1..lim /\ r.last \in 1..lim /\ r.ttls \subseteq r.first..r.last
    BY FoundShape
  <2> QED BY <2>1
<1> QED BY <1>1, <1>2, WindowsApart

(* The windows a detection asks for are fresh.                             *)
LEMMA DetectRegionsFresh ==
  ASSUME MeasurementInv, ReportInv, SamplingInv, DetectRegions
  PROVE  WindowsFresh'
<1>1. /\ pc = "regions" /\ pc' = "window" /\ obs' = obs /\ work' = SamplingWindows(regions')
      /\ regions' \in {{GlobalRegion(limit)}, FindRegions(obs, limit)}
  BY DEF DetectRegions, ledger
<1>2. limit \in TTLs
  BY <1>1 DEF MeasurementInv, LoopsInBounds
<1>3. \A v, w \in work' : v.variant /\ w.variant /\ v # w => v.ttls \cap w.ttls = {}
  <2>1. PICK R \in {{GlobalRegion(limit)}, FindRegions(obs, limit)} : R = regions'
    BY <1>1
  <2>2. \A v, w \in SamplingWindows(R) :
          v.variant /\ w.variant /\ v # w => v.ttls \cap w.ttls = {}
    BY <1>2, DetectedWindows
  <2> QED BY <1>1, <2>1, <2>2
<1>4. obs = BaselineObs
  BY <1>1 DEF ReportInv, RegionsOfBaseline, CanaryStages
<1>5. \A o \in obs : ~MainFlow(o) => o.phase = "canary-varied"
  BY <1>4 DEF BaselineObs, SamplingInv, PhasesOfFlows
<1> QED BY <1>1, <1>3, <1>5 DEF WindowsFresh, MainFlow

(* The windows not left yet stay fresh while another one is worked.        *)
LEMMA VariedSamplesFresh ==
  ASSUME MeasurementInv, SamplingInv, InBudget, VariedSamples
  PROVE  WindowsFresh'
<1>1. /\ pc = "varied" /\ pc' = pc /\ work' = work /\ Window' = Window
      /\ nextVariant' = nextVariant + VariedCount
  BY DEF VariedSamples, Window
<1>2. Window \in work /\ Window.variant
  BY <1>1, WindowType DEF MeasurementInv, LoopsInBounds, SamplingInv, WindowCounts
<1>3. \A w \in work : w.variant =>
        /\ \A v \in work \ {w} : v.variant => v.ttls \cap w.ttls = {}
        /\ \A o \in obs : o.ttl \in w.ttls /\ ~MainFlow(o) =>
             o.phase = "canary-varied" \/ (w = Window /\ o.variant < nextVariant)
  BY <1>1 DEF SamplingInv, WindowsFresh, TryStages
<1>4. VariedAdds
  <2>1. PICK reply \in Replies(VariedSpecs) : Deliver(VariedSpecs, reply, 0)
    BY DEF VariedSamples
  <2>2. \A o \in Added : \E p \in VariedSpecs : SameProbe(o, p)
    BY <2>1, SentObservations
  <2> SUFFICES ASSUME NEW o \in Added
               PROVE  /\ o.phase = "dbp-varied" /\ o.ttl \in Window.ttls
                      /\ o.variant \in nextVariant..(nextVariant + VariedCount - 1)
                      /\ o.sample = nextSample + (o.variant - nextVariant)
    BY DEF VariedAdds
  <2>3. PICK p \in VariedSpecs : SameProbe(o, p)
    BY <2>2
  <2> QED BY <1>1, <2>3, VariedProbes DEF SameProbe
<1>5. VariedCount \in Nat /\ nextVariant \in Nat
  BY <1>1, VariedCountType DEF VariedSamples
<1>6. \A o \in Added : o.ttl \in Window.ttls /\ o.variant < nextVariant'
  BY <1>1, <1>4, <1>5 DEF VariedAdds
<1>7. ASSUME NEW o \in obs, o.variant < nextVariant PROVE o.variant < nextVariant'
  <2>1. o.variant \in Nat
    BY DEF MeasurementInv, TypeOK, Observed, Variants
  <2> QED BY <1>1, <1>5, <1>7, <2>1
<1>8. SUFFICES ASSUME NEW w \in work, w.variant, NEW o \in obs', o.ttl \in w.ttls,
                      ~MainFlow(o)
               PROVE  o.phase = "canary-varied" \/ (w = Window /\ o.variant < nextVariant')
  BY <1>1, <1>3 DEF WindowsFresh, MainFlow
<1>9. CASE o \in obs
  BY <1>3, <1>7, <1>8, <1>9
<1>10. CASE o \in Added
  <2>1. o.ttl \in Window.ttls /\ o.variant < nextVariant'
    BY <1>6, <1>10
  <2>2. w = Window
    BY <1>2, <1>3, <1>8, <2>1
  <2> QED BY <2>1, <2>2
<1> QED BY <1>9, <1>10 DEF Added

(* Freshness of the windows, step by step.                                 *)
LEMMA WindowsStep ==
  ASSUME MeasurementInv, PathInv, ReportInv, SamplingInv, [Next]_vars, InBudget, InBudget'
  PROVE  WindowsFresh'
<1>0. WindowsFresh
  BY DEF SamplingInv
<1>1. CASE UNCHANGED vars
  BY <1>0, <1>1 DEF vars, ledger, capVars, WindowsFresh, Window, MainFlow
<1>2. CASE \/ BeginRound \/ SweepChunk \/ FixLimit \/ BeginCanary \/ CanariesDone
           \/ CanaryChunk \/ WindowsDone
  <2>1. work' = work /\ (work = {} \/ pc \in BaselineStages \cup CanaryStages)
    BY <1>2 DEF BeginRound, SweepChunk, FixLimit, BeginCanary, CanariesDone, CanaryChunk,
               WindowsDone, BaselineStages, CanaryStages, capVars
  <2>2. work' = {}
    BY <2>1 DEF ReportInv, RegionsOfBaseline
  <2> QED BY <2>2 DEF WindowsFresh
<1>3. CASE SweepRefused \/ CanaryRefused \/ FixedRefused \/ VariedExhausted
  BY <1>3, StepWarns
<1>4. CASE DetectRegions
  BY <1>4, DetectRegionsFresh
<1>5. CASE EnterWindow \/ BeginVaried \/ FixedSample
  <2>1. pc \in {"window", "fixed"} /\ work' = work
    BY <1>5 DEF EnterWindow, BeginVaried, FixedSample
  <2>2. \A o \in obs' \ obs : MainFlow(o)
    <3>1. CASE FixedSample
      <4>1. PICK reply \in Replies(FixedSpecs) : Deliver(FixedSpecs, reply, 0)
        BY <3>1 DEF FixedSample
      <4>2. \A p \in FixedSpecs : p.variant = 0
        BY DEF FixedSpecs, Bundle
      <4> QED BY <4>1, <4>2, SentObservations DEF Added, SameProbe, MainFlow
    <3>2. CASE EnterWindow \/ BeginVaried
      BY <3>2 DEF EnterWindow, BeginVaried, ledger
    <3> QED BY <1>5, <3>1, <3>2
  <2>3. \A w \in work : w.variant =>
          /\ \A v \in work \ {w} : v.variant => v.ttls \cap w.ttls = {}
          /\ \A o \in obs : o.ttl \in w.ttls /\ ~MainFlow(o) => o.phase = "canary-varied"
    BY <1>0, <2>1 DEF WindowsFresh, TryStages
  <2> QED BY <2>1, <2>2, <2>3 DEF WindowsFresh, MainFlow
<1>6. CASE DrawToken
  <2>1. /\ pc' = pc /\ work' = work /\ obs' = obs /\ nextVariant' = nextVariant
        /\ Window' = Window
    BY <1>6 DEF DrawToken, capVars, ledger, Window
  <2> QED BY <1>0, <2>1 DEF WindowsFresh, MainFlow
<1>7. CASE VariedSamples
  BY <1>7, VariedSamplesFresh
<1>8. CASE FixedOnlyDone \/ VariedDone
  <2>1. /\ pc \in {"fixed", "varied"} /\ work' = work \ {Window} /\ obs' = obs
    BY <1>8 DEF FixedOnlyDone, VariedDone, LeaveWindow, ledger
  <2>2. \A w \in work' : w \in work /\ w # Window
    BY <2>1
  <2>3. \A w \in work' : w.variant =>
          /\ \A v \in work' \ {w} : v.variant => v.ttls \cap w.ttls = {}
          /\ \A o \in obs : o.ttl \in w.ttls /\ ~MainFlow(o) => o.phase = "canary-varied"
    BY <1>0, <2>1, <2>2 DEF WindowsFresh, TryStages
  <2> QED BY <2>1, <2>3 DEF WindowsFresh, MainFlow
<1>9. CASE RunControl \/ Summarize \/ Interrupt \/ InterruptBeforeCount \/ BackendFails
  <2>1. pc' \in {"summarize", "done", "failed"}
    BY <1>9 DEF RunControl, Summarize, Interrupt, InterruptBeforeCount, BackendFails
  <2> QED BY <2>1 DEF WindowsFresh, TryStages
<1> QED BY <1>1, <1>2, <1>3, <1>4, <1>5, <1>6, <1>7, <1>8, <1>9 DEF Next, Proceed

-----------------------------------------------------------------------------
(* The counts of complete samples.                                         *)

(* The samples counted are those of a finite set, all older than the next. *)
LEMMA SamplesCounted ==
  ASSUME MeasurementInv, [Next]_vars
  PROVE  /\ IsFiniteSet(obs) /\ IsFiniteSet(obs') /\ obs \in SUBSET obs'
         /\ nextSample \in Nat
         /\ \A o \in obs : o.sample \in Nat /\ o.sample < nextSample
<1>1. obs \subseteq obs'
  BY StepAdds
<1>2. MeasurementInv'
  BY MeasurementStep
<1> QED BY <1>1, <1>2 DEF MeasurementInv, TypeOK, SamplesOlder, Observed

(* A fixed sample completes the window once more.                          *)
LEMMA FixedCounts ==
  ASSUME MeasurementInv, FixedSample
  PROVE  CompleteSampleCount(obs', Window.ttls, FALSE) >=
           CompleteSampleCount(obs, Window.ttls, FALSE) + 1
<1>1. PICK reply \in Replies(FixedSpecs) : Deliver(FixedSpecs, reply, 0)
  BY DEF FixedSample
<1>2. \A p \in FixedSpecs : \E o \in obs' : SameProbe(o, p)
  BY <1>1, SentObservations
<1>3. ASSUME NEW u \in Window.ttls
      PROVE  \E o \in obs' : o.variant = 0 /\ o.sample = nextSample /\ o.ttl = u
  <2> DEFINE p == [ttl |-> u, variant |-> 0, phase |-> "dbp-fixed", sample |-> nextSample]
  <2>1. p \in FixedSpecs
    BY DEF FixedSpecs, Bundle
  <2>2. p.ttl = u /\ p.variant = 0 /\ p.sample = nextSample
    OBVIOUS
  <2> HIDE DEF p
  <2> QED BY <1>2, <2>1, <2>2 DEF SameProbe
<1>4. PICK t \in Window.ttls : TRUE
  BY WindowType DEF FixedSample, MeasurementInv, LoopsInBounds
<1>5. nextSample \in CompleteSamples(obs', Window.ttls, FALSE)
  BY <1>3, <1>4 DEF CompleteSamples
<1>6. /\ IsFiniteSet(obs') /\ obs \in SUBSET obs' /\ nextSample \in Nat
      /\ \A o \in obs : o.sample \in Nat /\ o.sample < nextSample
  BY SamplesCounted DEF Next, Proceed
<1>7. \A s \in nextSample..(nextSample + 1 - 1) :
        s \in CompleteSamples(obs', Window.ttls, FALSE)
  <2>1. \A s \in nextSample..(nextSample + 1 - 1) : s = nextSample
    BY <1>6
  <2> QED BY <1>5, <2>1, Zenon
<1>8. PICK F, E, S : F = obs' /\ E = obs /\ S = Window.ttls
  OBVIOUS
<1>9. CompleteSampleCount(F, S, FALSE) >= CompleteSampleCount(E, S, FALSE) + 1
  <2>1. PICK low \in Nat : low = nextSample
    BY <1>6
  <2>2. /\ IsFiniteSet(F) /\ E \in SUBSET F
        /\ \A o \in E : o.sample \in Nat /\ o.sample < low
        /\ \A s \in low..(low + 1 - 1) : s \in CompleteSamples(F, S, FALSE)
    BY <1>6, <1>7, <1>8, <2>1
  <2> QED BY <2>2, CompleteAdds
<1> QED BY <1>8, <1>9

(* A varied batch completes the window once for each variant.              *)
LEMMA VariedCounts ==
  ASSUME MeasurementInv, VariedSamples
  PROVE  /\ CompleteSampleCount(obs', Window.ttls, TRUE) >=
              CompleteSampleCount(obs, Window.ttls, TRUE) + VariedCount
         /\ CompleteSampleCount(obs', Window.ttls, TRUE) \in Nat
         /\ CompleteSampleCount(obs, Window.ttls, TRUE) \in Nat
<1>1. PICK reply \in Replies(VariedSpecs) : Deliver(VariedSpecs, reply, 0)
  BY DEF VariedSamples
<1>2. \A p \in VariedSpecs : \E o \in obs' : SameProbe(o, p)
  BY <1>1, SentObservations
<1>3. /\ pc = "varied" /\ VariedCount \in Nat /\ nextVariant \in Nat \ {0}
      /\ nextSample \in Nat
  BY VariedCountType DEF VariedSamples, MeasurementInv, TypeOK
<1>4. PICK t \in Window.ttls : TRUE
  BY <1>3, WindowType DEF MeasurementInv, LoopsInBounds
<1>5. ASSUME NEW s \in nextSample..(nextSample + VariedCount - 1)
      PROVE  s \in CompleteSamples(obs', Window.ttls, TRUE)
  <2> DEFINE v == nextVariant + (s - nextSample)
  <2>1. v \in nextVariant..(nextVariant + VariedCount - 1) /\ v # 0
        /\ nextSample + (v - nextVariant) = s
    BY <1>3
  <2> HIDE DEF v
  <2>2. \A u \in Window.ttls : \E o \in obs' : o.variant # 0 /\ o.sample = s /\ o.ttl = u
    <3> TAKE u \in Window.ttls
    <3>1. PICK p \in VariedSpecs : p.ttl = u /\ p.variant = v /\ p.sample = s
      BY <1>3, <2>1, VariedProbes
    <3> QED BY <1>2, <2>1, <3>1 DEF SameProbe
  <2> QED BY <1>4, <2>2 DEF CompleteSamples
<1>6. /\ IsFiniteSet(obs) /\ IsFiniteSet(obs') /\ obs \in SUBSET obs'
      /\ \A o \in obs : o.sample \in Nat /\ o.sample < nextSample
  BY SamplesCounted DEF Next, Proceed
<1>7. PICK F, E, S : F = obs' /\ E = obs /\ S = Window.ttls
  OBVIOUS
<1>8. PICK low \in Nat, n \in Nat : low = nextSample /\ n = VariedCount
  BY <1>3
<1>9. CompleteSampleCount(F, S, TRUE) >= CompleteSampleCount(E, S, TRUE) + n
  <2>1. /\ IsFiniteSet(F) /\ E \in SUBSET F
        /\ \A o \in E : o.sample \in Nat /\ o.sample < low
        /\ \A s \in low..(low + n - 1) : s \in CompleteSamples(F, S, TRUE)
    BY <1>5, <1>6, <1>7, <1>8
  <2> QED BY <2>1, CompleteAdds
<1>10. CompleteSampleCount(F, S, TRUE) \in Nat /\ CompleteSampleCount(E, S, TRUE) \in Nat
  BY <1>6, <1>7, CompleteCountType
<1> QED BY <1>7, <1>8, <1>9, <1>10

(* Observations are only added, so no count ever falls.                    *)
LEMMA CountsGrow ==
  ASSUME MeasurementInv, [Next]_vars, NEW T, NEW S \in SUBSET T, NEW varied \in BOOLEAN
  PROVE  /\ CompleteSampleCount(obs, T, varied) <= CompleteSampleCount(obs', S, varied)
         /\ CompleteSampleCount(obs, T, varied) \in Nat
         /\ CompleteSampleCount(obs', S, varied) \in Nat
<1>1. PICK F, E : F = obs' /\ E = obs
  OBVIOUS
<1>2. IsFiniteSet(F) /\ IsFiniteSet(E) /\ E \in SUBSET F
  BY <1>1, SamplesCounted
<1>3. /\ CompleteSampleCount(E, T, varied) <= CompleteSampleCount(F, S, varied)
      /\ CompleteSampleCount(E, T, varied) \in Nat
      /\ CompleteSampleCount(F, S, varied) \in Nat
  BY <1>2, CompleteGrows, CompleteCountType
<1> QED BY <1>1, <1>3

(* _probe_region asks for as many fixed samples as the window lacks.       *)
LEMMA EnterWindowCounts ==
  ASSUME MeasurementInv, EnterWindow
  PROVE  WindowCounts'
<1> DEFINE n == CompleteSampleCount(obs, Window.ttls, FALSE)
<1>1. n \in Nat
  BY CompleteCountType DEF MeasurementInv, TypeOK
<1>2. /\ obs' = obs /\ Window' = Window /\ pc' = "fixed"
      /\ fixedLeft' = Max({0, TemporalSamples - n})
  BY DEF EnterWindow, ledger, Window
<1>3. CompleteSampleCount(obs, Window.ttls, FALSE)' = n
  BY <1>2
<1> HIDE DEF n
<1>4. TemporalSamples - n \in Int
  BY <1>1, ConfigAssumption
<1>5. fixedLeft' = IF 0 >= TemporalSamples - n THEN 0 ELSE TemporalSamples - n
  BY <1>2, <1>4, MaxOfTwo
<1>6. fixedLeft' + n >= TemporalSamples
  BY <1>1, <1>5, ConfigAssumption
<1> QED BY <1>2, <1>3, <1>6 DEF WindowCounts

(* Each fixed sample asked for completes the window once more.             *)
LEMMA FixedSampleCounts ==
  ASSUME MeasurementInv, SamplingInv, FixedSample
  PROVE  WindowCounts'
<1> DEFINE m == CompleteSampleCount(obs, Window.ttls, FALSE)
           n == CompleteSampleCount(obs', Window.ttls, FALSE)
<1>1. m \in Nat /\ n \in Nat
  BY CountsGrow DEF Next, Proceed
<1>2. n >= m + 1
  BY FixedCounts
<1>3. /\ Window' = Window /\ pc' = "fixed" /\ fixedLeft' = fixedLeft - 1
      /\ fixedLeft + m >= TemporalSamples
  BY DEF FixedSample, Window, SamplingInv, WindowCounts
<1>4. CompleteSampleCount(obs, Window.ttls, FALSE)' = n
  BY <1>3
<1> HIDE DEF m, n
<1>5. fixedLeft' + n >= TemporalSamples
  BY <1>1, <1>2, <1>3, ConfigAssumption DEF MeasurementInv, TypeOK
<1> QED BY <1>3, <1>4, <1>5 DEF WindowCounts

(* Varying starts after the complete samples, hence after the canaries.    *)
LEMMA BeginVariedCounts ==
  ASSUME MeasurementInv, PathInv, SamplingInv, BeginVaried
  PROVE  WindowCounts'
<1> DEFINE m == CompleteSampleCount(obs, Window.ttls, FALSE)
           n == CompleteSampleCount(obs, Window.ttls, TRUE)
<1>1. /\ pc = "fixed" /\ fixedLeft = 0 /\ Window.variant
      /\ pc' = "varied" /\ nextVariant' = n + 1
      /\ Window' = Window /\ obs' = obs /\ warnings' = warnings
  BY DEF BeginVaried, Window, ledger, verdict
<1>2. m \in Nat /\ n \in Nat
  BY CompleteCountType DEF MeasurementInv, TypeOK
<1>3. fixedLeft + m >= TemporalSamples
  BY <1>1 DEF SamplingInv, WindowCounts
<1>4. InBudget => n >= CanaryFlows
  <2> SUFFICES ASSUME InBudget PROVE n >= CanaryFlows
    OBVIOUS
  <2>1. work # {}
    BY <1>1 DEF MeasurementInv, LoopsInBounds
  <2>2. Window \in work /\ Window.ttls # {}
    BY <2>1, WindowType
  <2>3. Window.ttls \in SUBSET (1..limit)
    BY <1>1, <2>2 DEF PathInv, TryStages
  <2>4. \A c \in 1..CanaryFlows : CanarySwept(c, limit)
    BY <1>1, <2>1 DEF SamplingInv, CanariesInOrder, TryStages
  <2> QED BY <2>2, <2>3, <2>4, CanariesCount
<1>5. /\ CompleteSampleCount(obs, Window.ttls, FALSE)' = m
      /\ CompleteSampleCount(obs, Window.ttls, TRUE)' = n
      /\ InBudget' = InBudget
  BY <1>1 DEF InBudget
<1>6. Window'.variant
  BY <1>1
<1> HIDE DEF m, n
<1>7. /\ m >= TemporalSamples /\ n >= nextVariant' - 1
      /\ InBudget => nextVariant' > CanaryFlows
  BY <1>1, <1>2, <1>3, <1>4, ConfigAssumption
<1> QED BY <1>1, <1>5, <1>6, <1>7 DEF WindowCounts

(* Each variant of a batch completes the window once more.                 *)
LEMMA VariedSamplesCounts ==
  ASSUME MeasurementInv, SamplingInv, VariedSamples
  PROVE  WindowCounts'
<1> DEFINE m == CompleteSampleCount(obs, Window.ttls, FALSE)
           m2 == CompleteSampleCount(obs', Window.ttls, FALSE)
           n == CompleteSampleCount(obs, Window.ttls, TRUE)
           n2 == CompleteSampleCount(obs', Window.ttls, TRUE)
<1>1. /\ pc = "varied" /\ pc' = "varied" /\ nextVariant' = nextVariant + VariedCount
      /\ Window' = Window /\ warnings' = warnings /\ VariedCount > 0
  BY DEF VariedSamples, Window, verdict
<1>2. m \in Nat /\ m2 \in Nat /\ m <= m2
  BY CountsGrow DEF Next, Proceed
<1>3. n \in Nat /\ n2 \in Nat /\ n2 >= n + VariedCount
  BY VariedCounts
<1>4. /\ Window.variant /\ m >= TemporalSamples /\ n >= nextVariant - 1
      /\ InBudget => nextVariant > CanaryFlows
  BY <1>1 DEF SamplingInv, WindowCounts
<1>5. VariedCount \in Int /\ nextVariant \in Nat
  BY <1>1, VariedCountType
<1>6. /\ CompleteSampleCount(obs, Window.ttls, FALSE)' = m2
      /\ CompleteSampleCount(obs, Window.ttls, TRUE)' = n2
      /\ InBudget' = InBudget /\ Window'.variant
  BY <1>1, <1>4 DEF InBudget
<1> HIDE DEF m, n, m2, n2
<1>7. /\ m2 >= TemporalSamples /\ n2 >= nextVariant' - 1
      /\ InBudget => nextVariant' > CanaryFlows
  BY <1>1, <1>2, <1>3, <1>4, <1>5, ConfigAssumption
<1> QED BY <1>1, <1>6, <1>7 DEF WindowCounts

(* The counts of the window under way, step by step.                       *)
LEMMA CountsStep ==
  ASSUME MeasurementInv, PathInv, SamplingInv, [Next]_vars
  PROVE  WindowCounts'
<1>0. WindowCounts
  BY DEF SamplingInv
<1>1. CASE UNCHANGED vars
  BY <1>0, <1>1 DEF vars, ledger, capVars, verdict, WindowCounts, Window, InBudget
<1>2. CASE \/ BeginRound \/ SweepRefused \/ SweepChunk \/ FixLimit \/ BeginCanary
           \/ CanariesDone \/ CanaryRefused \/ CanaryChunk \/ DetectRegions
           \/ FixedRefused \/ FixedOnlyDone \/ VariedExhausted \/ VariedDone
  <2>1. pc' \notin {"fixed", "varied", "control", "summarize", "done"}
    BY <1>2 DEF BeginRound, SweepRefused, SweepChunk, FixLimit, BeginCanary, CanariesDone,
               CanaryRefused, CanaryChunk, DetectRegions, FixedRefused, FixedOnlyDone,
               VariedExhausted, VariedDone, LeaveWindow
  <2> QED BY <2>1 DEF WindowCounts
<1>3. CASE EnterWindow
  BY <1>3, EnterWindowCounts
<1>4. CASE FixedSample
  BY <1>4, FixedSampleCounts
<1>5. CASE BeginVaried
  BY <1>5, BeginVariedCounts
<1>6. CASE DrawToken
  <2>1. /\ pc' = pc /\ obs' = obs /\ Window' = Window /\ fixedLeft' = fixedLeft
        /\ nextVariant' = nextVariant /\ work' = work /\ warnings' = warnings
        /\ interrupted' = interrupted
    BY <1>6 DEF DrawToken, ledger, capVars, verdict, Window
  <2> QED BY <1>0, <2>1 DEF WindowCounts, InBudget
<1>7. CASE VariedSamples
  BY <1>7, VariedSamplesCounts
<1>8. CASE WindowsDone
  <2>1. pc' = "control" /\ work' = {}
    BY <1>8 DEF WindowsDone, capVars
  <2> QED BY <2>1 DEF WindowCounts
<1>9. CASE RunControl \/ Summarize
  <2>1. /\ pc \in {"control", "summarize"} /\ pc' \in {"summarize", "done"}
        /\ work' = work /\ interrupted' = interrupted
    BY <1>9 DEF RunControl, Summarize, capVars
  <2> QED BY <1>0, <2>1 DEF WindowCounts
<1>10. CASE Interrupt \/ InterruptBeforeCount
  <2>1. pc' = "summarize" /\ interrupted'
    BY <1>10 DEF Interrupt, InterruptBeforeCount
  <2> QED BY <2>1 DEF WindowCounts
<1>11. CASE BackendFails
  <2>1. pc' = "failed"
    BY <1>11 DEF BackendFails
  <2> QED BY <2>1 DEF WindowCounts
<1> QED BY <1>1, <1>2, <1>3, <1>4, <1>5, <1>6, <1>7, <1>8, <1>9, <1>10, <1>11
           DEF Next, Proceed

-----------------------------------------------------------------------------
(* The regions.                                                            *)

(* Samples are never lost.                                                 *)
LEMMA SampledKept ==
  ASSUME MeasurementInv, [Next]_vars, NEW r, Sampled(obs, r)
  PROVE  Sampled(obs', r)
<1> DEFINE m == CompleteSampleCount(obs, r.ttls, FALSE)
           m2 == CompleteSampleCount(obs', r.ttls, FALSE)
           n == CompleteSampleCount(obs, r.ttls, TRUE)
           n2 == CompleteSampleCount(obs', r.ttls, TRUE)
<1>1. m \in Nat /\ m2 \in Nat /\ m <= m2
  BY CountsGrow
<1>2. n \in Nat /\ n2 \in Nat /\ n <= n2
  BY CountsGrow
<1>3. m >= TemporalSamples /\ (VariantCoverage(r.family) => n >= Required)
  BY DEF Sampled
<1> HIDE DEF m, n, m2, n2
<1>4. m2 >= TemporalSamples /\ (VariantCoverage(r.family) => n2 >= Required)
  BY <1>1, <1>2, <1>3, ConfigAssumption
<1> QED BY <1>4 DEF Sampled, m2, n2

(* A window left with its samples complete leaves every region it serves   *)
(* sampled.                                                                *)
LEMMA WindowSamples ==
  ASSUME MeasurementInv, SamplingInv, FixedOnlyDone \/ VariedDone,
         NEW r, Serves(Window, r)
  PROVE  Sampled(obs', r)
<1> DEFINE m == CompleteSampleCount(obs, Window.ttls, FALSE)
           m2 == CompleteSampleCount(obs', r.ttls, FALSE)
           n == CompleteSampleCount(obs, Window.ttls, TRUE)
           n2 == CompleteSampleCount(obs', r.ttls, TRUE)
<1>0. r.ttls \in SUBSET Window.ttls /\ (VariantCoverage(r.family) => Window.variant)
  BY DEF Serves
<1>1. m \in Nat /\ m2 \in Nat /\ m <= m2
  BY <1>0, CountsGrow DEF Next, Proceed
<1>2. n \in Nat /\ n2 \in Nat /\ n <= n2
  BY <1>0, CountsGrow DEF Next, Proceed
<1>3. CASE FixedOnlyDone
  <2>1. fixedLeft = 0 /\ ~Window.variant /\ fixedLeft + m >= TemporalSamples
    BY <1>3 DEF FixedOnlyDone, SamplingInv, WindowCounts
  <2>2. ~VariantCoverage(r.family)
    BY <1>0, <2>1
  <2> HIDE DEF m, n, m2, n2
  <2>3. m2 >= TemporalSamples
    BY <1>1, <2>1, ConfigAssumption
  <2> QED BY <2>2, <2>3 DEF Sampled, m2
<1>4. CASE VariedDone
  <2>1. /\ nextVariant > Required
        /\ m >= TemporalSamples /\ n >= nextVariant - 1
    BY <1>4 DEF VariedDone, SamplingInv, WindowCounts
  <2>2. nextVariant \in Nat
    BY DEF MeasurementInv, TypeOK
  <2> HIDE DEF m, n, m2, n2
  <2>3. m2 >= TemporalSamples /\ n2 >= Required
    BY <1>1, <1>2, <2>1, <2>2, ConfigAssumption
  <2> QED BY <2>3 DEF Sampled, m2, n2
<1> QED BY <1>3, <1>4

(* The regions are served, step by step.                                   *)
LEMMA ServedStep ==
  ASSUME MeasurementInv, SamplingInv, [Next]_vars
  PROVE  RegionsServed'
<1>0. RegionsServed
  BY DEF SamplingInv
<1>1. ASSUME regions' = regions, work' = work, interrupted' = interrupted
      PROVE  RegionsServed'
  <2> SUFFICES ASSUME InBudget', ~interrupted', NEW r \in regions'
               PROVE  Sampled(obs', r) \/ \E w \in work' : Serves(w, r)
    BY DEF RegionsServed
  <2>1. InBudget /\ ~interrupted /\ r \in regions
    BY <1>1, StepWarns
  <2>2. Sampled(obs, r) \/ \E w \in work : Serves(w, r)
    BY <1>0, <2>1 DEF RegionsServed
  <2> QED BY <1>1, <2>2, SampledKept
<1>2. CASE UNCHANGED vars
  BY <1>1, <1>2 DEF vars, capVars, verdict
<1>3. CASE SweepRefused \/ CanaryRefused \/ FixedRefused \/ VariedExhausted
  BY <1>3, StepWarns DEF RegionsServed
<1>4. CASE BeginRound \/ SweepChunk \/ FixLimit \/ BeginCanary \/ CanariesDone \/ CanaryChunk
  BY <1>1, <1>4 DEF BeginRound, SweepChunk, FixLimit, BeginCanary, CanariesDone, CanaryChunk,
                    capVars, verdict
<1>5. CASE EnterWindow \/ WindowsDone \/ FixedSample \/ BeginVaried
  BY <1>1, <1>5 DEF EnterWindow, WindowsDone, FixedSample, BeginVaried, capVars, verdict
<1>6. CASE DrawToken \/ VariedSamples \/ RunControl \/ BackendFails
  BY <1>1, <1>6 DEF DrawToken, VariedSamples, RunControl, BackendFails, capVars, verdict
<1>7. CASE DetectRegions
  <2>1. /\ pc = "regions" /\ work' = SamplingWindows(regions')
        /\ regions' \in {{GlobalRegion(limit)}, FindRegions(obs, limit)}
    BY <1>7 DEF DetectRegions
  <2>2. limit \in TTLs
    BY <2>1 DEF MeasurementInv, LoopsInBounds
  <2>3. PICK R : R = regions'
    OBVIOUS
  <2>4. R \in SUBSET Regions
    BY <2>1, <2>2, <2>3, FindRegionsType, GlobalRegionType
  <2>5. \A r \in R : \E w \in SamplingWindows(R) : Serves(w, r)
    BY <2>4, EveryRegionServed
  <2> QED BY <2>1, <2>3, <2>5 DEF RegionsServed
<1>8. CASE FixedOnlyDone \/ VariedDone
  <2>1. /\ regions' = regions /\ work' = work \ {Window} /\ interrupted' = interrupted
    BY <1>8 DEF FixedOnlyDone, VariedDone, LeaveWindow, verdict
  <2> SUFFICES ASSUME InBudget', ~interrupted', NEW r \in regions'
               PROVE  Sampled(obs', r) \/ \E w \in work' : Serves(w, r)
    BY DEF RegionsServed
  <2>2. InBudget /\ ~interrupted /\ r \in regions
    BY <2>1, StepWarns
  <2>3. CASE Sampled(obs, r)
    BY <2>3, SampledKept
  <2>4. CASE \E w \in work : Serves(w, r)
    <3>1. PICK w \in work : Serves(w, r)
      BY <2>4
    <3>2. CASE w = Window
      BY <1>8, <3>1, <3>2, WindowSamples
    <3>3. CASE w # Window
      BY <2>1, <3>1, <3>3
    <3> QED BY <3>2, <3>3
  <2> QED BY <1>0, <2>2, <2>3, <2>4 DEF RegionsServed
<1>9. CASE Summarize
  <2>1. CASE interrupted
    BY <1>9, <2>1 DEF Summarize, RegionsServed
  <2>2. CASE ~interrupted
    <3>1. regions' = regions /\ work' = work /\ interrupted' = interrupted
      BY <1>9, <2>2 DEF Summarize
    <3> QED BY <1>1, <3>1
  <2> QED BY <2>1, <2>2
<1>10. CASE Interrupt \/ InterruptBeforeCount
  <2>1. interrupted'
    BY <1>10 DEF Interrupt, InterruptBeforeCount
  <2> QED BY <2>1 DEF RegionsServed
<1> QED BY <1>2, <1>3, <1>4, <1>5, <1>6, <1>7, <1>8, <1>9, <1>10 DEF Next, Proceed

(* Only --global-cap makes a region of its own family.                     *)
LEMMA FamiliesStep ==
  ASSUME SamplingInv, [Next]_vars
  PROVE  GlobalCap \/ \A r \in regions' : r.family # "global"
<1> SUFFICES ASSUME ~GlobalCap PROVE \A r \in regions' : r.family # "global"
  OBVIOUS
<1>1. \A r \in regions : r.family # "global"
  BY DEF SamplingInv
<1>2. ASSUME NEW E, NEW lim, NEW r \in FindRegions(E, lim) PROVE r.family # "global"
  <2>1. PICK family \in Families \ {"global"} :
          \E lo, hi : r = RegionAround(family, lo, hi, lim)
    BY DEF FindRegions
  <2> QED BY <2>1 DEF RegionAround
<1>3. CASE DetectRegions
  <2>1. regions' = FindRegions(obs, limit)
    BY <1>3 DEF DetectRegions
  <2> QED BY <1>2, <2>1
<1>4. CASE Summarize
  <2>1. regions' = regions \/ regions' = FindRegions(obs, limit')
    BY <1>4 DEF Summarize
  <2>2. PICK lim : lim = limit'
    OBVIOUS
  <2>3. \A r \in FindRegions(obs, lim) : r.family # "global"
    BY <1>2
  <2> QED BY <1>1, <2>1, <2>2, <2>3
<1> QED BY <1>1, <1>3, <1>4, StepRegions

-----------------------------------------------------------------------------
(* The invariant and the theorems.                                         *)

(* SamplingInv holds initially.                                            *)
LEMMA InitialSampling == Init => SamplingInv
<1> SUFFICES ASSUME Init PROVE SamplingInv
  OBVIOUS
<1>1. /\ obs = {} /\ pc = "round" /\ tokens = <<>> /\ regions = {} /\ work = {}
  BY DEF Init
<1>2. DOMAIN tokens = {}
  BY <1>1
<1>3. TokensDistinct /\ PhasesOfFlows /\ FlowsOnce
  BY <1>1, <1>2 DEF TokensDistinct, PhasesOfFlows, FlowsOnce
<1>4. AnswersOfTokens /\ AdaptiveInside
  BY <1>1, <1>2 DEF AnswersOfTokens, AdaptiveInside
<1>5. CanariesInOrder /\ WindowsFresh
  BY <1>1 DEF CanariesInOrder, WindowsFresh
<1>6. WindowCounts /\ RegionsServed
  BY <1>1 DEF WindowCounts, RegionsServed
<1> QED BY <1>1, <1>3, <1>4, <1>5, <1>6 DEF SamplingInv

(* SamplingInv is inductive beside the invariants of the ledger, the path  *)
(* and the report; one lemma per part.                                     *)
LEMMA SamplingStep ==
  ASSUME MeasurementInv, PathInv, ReportInv, SamplingInv, [Next]_vars
  PROVE  SamplingInv'
<1>1. MeasurementInv'
  BY MeasurementStep
<1>2. TokensDistinct' /\ PhasesOfFlows'
  BY TokensStep DEF SamplingInv
<1>3. ASSUME InBudget' PROVE FlowsOnce' /\ CanariesInOrder' /\ WindowsFresh'
  <2>1. InBudget
    BY <1>3, StepWarns
  <2>2. FlowsOnce'
    BY <2>1, FlowsOnceStep
  <2>3. CanariesInOrder'
    BY <1>1, <1>3, <2>1, CanariesStep
  <2>4. WindowsFresh'
    BY <1>3, <2>1, WindowsStep
  <2> QED BY <2>2, <2>3, <2>4
<1>4. WindowCounts'
  BY CountsStep
<1>5. RegionsServed'
  BY ServedStep
<1>6. GlobalCap \/ \A r \in regions' : r.family # "global"
  BY FamiliesStep
<1>7. AnswersOfTokens'
  BY <1>2, AnswersStep DEF SamplingInv
<1>8. AdaptiveInside'
  BY AdaptiveStep DEF SamplingInv
<1> QED BY <1>2, <1>3, <1>4, <1>5, <1>6, <1>7, <1>8 DEF SamplingInv

(* SamplingInv holds in every reachable state: until the budget is met, no *)
(* variant probes a TTL in two samples, windows that share variants share  *)
(* no TTL, and every region is sampled or served by a window to come.      *)
THEOREM SamplingIsInvariant == Spec => []SamplingInv
<1>1. MeasurementInv /\ PathInv /\ ReportInv /\ SamplingInv /\ [Next]_vars => SamplingInv'
  BY SamplingStep
<1> QED BY <1>1, InitialSampling, MeasurementIsInvariant, PathIsInvariant,
           ReportIsInvariant, PTL DEF Spec

(* A measurement that ran to its end without meeting the budget takes the  *)
(* samples asked for in every region, also in those that shared a window;  *)
(* a certificate is missing only where the bound computed for the samples  *)
(* exceeds the one asked for.                                              *)
THEOREM RegionsAreCompleted == Spec => []RegionsCompleted
<1>1. SamplingInv => RegionsCompleted
  BY CompletedFollows
<1> QED BY <1>1, SamplingIsInvariant, PTL

(* Unless the budget was met, a certified flow coverage rests on as many   *)
(* different flow tokens as it requires, none of them the main flow's,     *)
(* although three loops number the variants.                               *)
THEOREM CoverageIsDistinct == Spec => []CoverageByDistinctFlows
<1>1. MeasurementInv /\ SamplingInv => CoverageByDistinctFlows
  BY CoverageFollows
<1> QED BY <1>1, MeasurementIsInvariant, SamplingIsInvariant, PTL

(* A gap no flow ever answers in, between two TTLs that always answer the  *)
(* main flow, is reported OPAQUE at exactly its bounds, however wide it is *)
(* and wherever the measurement was cut short.                             *)
THEOREM SilentGapsFound == Spec => []SilentGapsReported
<1>1. MeasurementInv /\ PathInv /\ ReportInv /\ SamplingInv => SilentGapsReported
  BY GapFollows
<1> QED BY <1>1, MeasurementIsInvariant, PathIsInvariant, ReportIsInvariant,
           SamplingIsInvariant, PTL

(* No probe contradicts a DIRECT edge outside every region: at both ends   *)
(* one responder answered all of them, except that adaptive samples of a   *)
(* region that begins or ends there may disagree.                          *)
THEOREM DirectIsClear == Spec => []DirectEdgesAreClear
<1>1. MeasurementInv /\ PathInv /\ ReportInv /\ SamplingInv => DirectEdgesAreClear
  BY DirectFollows
<1> QED BY <1>1, MeasurementIsInvariant, PathIsInvariant, ReportIsInvariant,
           SamplingIsInvariant, PTL

(* A class says no more than the network does: MULTIPATH rests on two      *)
(* different flows that part, unless the budget was met; INTERMITTENT,     *)
(* OPAQUE and SILENT_TAIL on silence the network may keep; UNSTABLE on a   *)
(* main flow that meets two responders; DIRECT on ends that answer it.     *)
THEOREM ClassesGrounded == Spec => []ClassesAreGrounded
<1>1. MeasurementInv /\ PathInv /\ ReportInv /\ SamplingInv => ClassesAreGrounded
  BY ClassesFollow
<1> QED BY <1>1, MeasurementIsInvariant, PathIsInvariant, ReportIsInvariant,
           SamplingIsInvariant, PTL

=============================================================================
