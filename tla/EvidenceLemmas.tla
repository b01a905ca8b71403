--------------------------- MODULE EvidenceLemmas ---------------------------
(***************************************************************************)
(* Lemmas about the operators of Observations and Boundaries, cited by the *)
(* proofs about TraceController.                                           *)
(***************************************************************************)
EXTENDS Boundaries, FiniteSetTheorems, TLAPS

-----------------------------------------------------------------------------
(* Least and greatest elements.                                            *)

(* A nonempty set of naturals has a least element.                         *)
LEMMA LeastElement ==
  ASSUME NEW S \in SUBSET Nat, S # {}
  PROVE  \E n \in S : \A m \in S : n <= m
<1> DEFINE R == OpToRel(<, Nat)
<1>1. IsWellFoundedOn(R, Nat)
  BY NatLessThanWellFounded
<1>2. R = {p \in Nat \X Nat : p[1] < p[2]}
  BY DEF OpToRel
<1>3. \A x, y \in Nat : <<x, y>> \in R <=> x < y
  BY <1>2
<1> HIDE DEF R
<1>4. PICK n \in S : \A m \in S : ~(<<m, n>> \in R)
  BY <1>1, WFMin
<1>5. \A m \in S : n <= m
  <2> TAKE m \in S
  <2>1. m \in Nat /\ n \in Nat
    OBVIOUS
  <2>2. ~(m < n)
    BY <2>1, <1>3, <1>4
  <2> QED BY <2>1, <2>2
<1> QED BY <1>5

(* Min returns the least element of a nonempty set of naturals.            *)
LEMMA MinOfNats ==
  ASSUME NEW S \in SUBSET Nat, S # {}
  PROVE  Min(S) \in S /\ \A x \in S : Min(S) <= x
BY LeastElement DEF Min

(* Max returns the greatest element of a nonempty bounded set of naturals. *)
LEMMA MaxOfNats ==
  ASSUME NEW S \in SUBSET Nat, S # {}, NEW N \in Nat, \A x \in S : x <= N
  PROVE  Max(S) \in S /\ \A x \in S : x <= Max(S)
<1> DEFINE T == {N - x : x \in S}
<1>1. T \in SUBSET Nat /\ T # {}
  <2>1. \A x \in S : N - x \in Nat
    OBVIOUS
  <2> QED BY <2>1
<1>2. PICK d \in T : \A e \in T : d <= e
  <2> HIDE DEF T
  <2> QED BY <1>1, LeastElement
<1>3. PICK m \in S : d = N - m
  BY <1>2
<1>4. \A x \in S : m >= x
  <2> TAKE x \in S
  <2>1. N - x \in T
    OBVIOUS
  <2>2. d <= N - x
    BY <2>1, <1>2
  <2>3. x \in Nat /\ m \in Nat
    OBVIOUS
  <2> QED BY <2>2, <2>3, <1>3
<1>5. Max(S) \in S /\ \A x \in S : Max(S) >= x
  BY <1>4 DEF Max
<1>6. \A x \in S : x \in Nat
  OBVIOUS
<1> QED BY <1>5, <1>6

(* Min of two integers is the smaller one.                                 *)
LEMMA MinOfTwo ==
  ASSUME NEW a \in Int, NEW b \in Int
  PROVE  Min({a, b}) = IF a <= b THEN a ELSE b
BY DEF Min

(* Max of two integers is the larger one.                                  *)
LEMMA MaxOfTwo ==
  ASSUME NEW a \in Int, NEW b \in Int
  PROVE  Max({a, b}) = IF a >= b THEN a ELSE b
BY DEF Max

(* Min of three integers is an integer, and at most each of them.          *)
LEMMA MinOfThree ==
  ASSUME NEW a \in Int, NEW b \in Int, NEW c \in Int
  PROVE  /\ Min({a, b, c}) \in Int
         /\ Min({a, b, c}) <= a /\ Min({a, b, c}) <= b /\ Min({a, b, c}) <= c
<1>1. \E x \in {a, b, c} : \A y \in {a, b, c} : x <= y
  OBVIOUS
<1>2. Min({a, b, c}) \in {a, b, c} /\ \A y \in {a, b, c} : Min({a, b, c}) <= y
  BY <1>1 DEF Min
<1> QED BY <1>2

(* Min and Max of a nonempty set of TTLs are among them.                   *)
LEMMA ExtremeTtls ==
  ASSUME NEW S \in SUBSET TTLs, S # {}
  PROVE  /\ Min(S) \in S /\ \A x \in S : Min(S) <= x
         /\ Max(S) \in S /\ \A x \in S : x <= Max(S)
<1>1. S \in SUBSET Nat /\ MaxHops \in Nat /\ \A x \in S : x <= MaxHops
  BY ConfigAssumption DEF TTLs
<1> QED BY <1>1, MinOfNats, MaxOfNats

-----------------------------------------------------------------------------
(* Observations.                                                           *)

(* Every set of TTLs is finite.                                            *)
LEMMA TtlsAreFinite ==
  ASSUME NEW S \in SUBSET TTLs
  PROVE  IsFiniteSet(S) /\ Cardinality(S) \in Nat
<1>1. IsFiniteSet(TTLs)
  BY FS_Interval, ConfigAssumption DEF TTLs
<1> QED BY <1>1, FS_Subset, FS_CardinalityType

(* The limit of the analysis is a TTL, whatever was observed.              *)
LEMMA AnalysisLimitType ==
  ASSUME NEW E \in SUBSET Observed
  PROVE  AnalysisLimit(E) \in TTLs /\ LastObservedTtl(E) \in {0} \cup TTLs
<1>1. TerminalTtls(E) \in SUBSET TTLs
  BY DEF TerminalTtls, Observed
<1>2. LastObservedTtl(E) \in {0} \cup TTLs
  <2> DEFINE seen == {o.ttl : o \in {x \in E : Answered(x)}}
  <2>1. seen \in SUBSET TTLs
    BY DEF Observed
  <2>2. seen # {} => Max(seen) \in TTLs
    <3> HIDE DEF seen
    <3> QED BY <2>1, ExtremeTtls
  <2> QED BY <2>2 DEF LastObservedTtl
<1>3. TerminalTtls(E) # {} => Min(TerminalTtls(E)) \in TTLs
  BY <1>1, ExtremeTtls
<1>4. MaxHops \in TTLs
  BY ConfigAssumption DEF TTLs
<1> QED BY <1>2, <1>3, <1>4 DEF AnalysisLimit

(* A bundle is a set of probe specifications, one for each TTL.            *)
LEMMA BundleType ==
  ASSUME NEW S \in SUBSET TTLs, NEW v \in Variants, NEW ph \in Phases, NEW id \in Nat
  PROVE  /\ Bundle(S, v, ph, id) \in SUBSET Specs
         /\ IsFiniteSet(Bundle(S, v, ph, id))
         /\ Cardinality(Bundle(S, v, ph, id)) = Cardinality(S)
<1> DEFINE probe == [t \in S |-> [ttl |-> t, variant |-> v, phase |-> ph, sample |-> id]]
           B == Bundle(S, v, ph, id)
<1>1. B \in SUBSET Specs
  BY DEF Bundle, Specs
<1>2. probe \in Bijection(S, B)
  <2>1. probe \in [S -> B]
    BY DEF Bundle
  <2>2. \A b \in B : \E t \in S : probe[t] = b
    BY DEF Bundle
  <2>3. \A t, u \in S : probe[t] = probe[u] => t = u
    <3> TAKE t \in S, u \in S
    <3>1. probe[t].ttl = t /\ probe[u].ttl = u
      OBVIOUS
    <3> QED BY <3>1
  <2> HIDE DEF probe, B
  <2> QED BY <2>1, <2>2, <2>3 DEF Bijection, Injection, IsInjective, Surjection
<1>3. IsFiniteSet(S)
  BY TtlsAreFinite
<1>4. ExistsBijection(S, B)
  BY <1>2 DEF ExistsBijection
<1> QED BY <1>1, <1>3, <1>4, FS_Bijection

(* A batch comes back as one observation per probe.                        *)
LEMMA ReceivedType ==
  ASSUME NEW P \in SUBSET Specs, IsFiniteSet(P), NEW reply \in [P -> Outcomes]
  PROVE  /\ Received(P, reply) \in SUBSET Observed
         /\ IsFiniteSet(Received(P, reply))
         /\ Cardinality(Received(P, reply)) = Cardinality(P)
<1> DEFINE answer(p) == [ttl |-> p.ttl, variant |-> p.variant, phase |-> p.phase,
                         sample |-> p.sample, kind |-> reply[p].kind,
                         who |-> reply[p].who, mut |-> reply[p].mut]
           f == [p \in P |-> answer(p)]
           G == Received(P, reply)
<1>1. \A p \in P : answer(p) \in Observed
  <2> TAKE p \in P
  <2>1. /\ p.ttl \in TTLs /\ p.variant \in Variants
        /\ p.phase \in Phases /\ p.sample \in Nat
    BY DEF Specs
  <2>2. reply[p] \in Outcomes
    OBVIOUS
  <2>3. /\ reply[p].kind \in {"time_exceeded", "destination", "unreachable",
                              "other", "timeout"}
        /\ reply[p].who \in Responders \cup {None}
        /\ reply[p].mut \in SUBSET Mutations
    BY <2>2 DEF Outcomes, Answers, Silence
  <2> QED BY <2>1, <2>3 DEF Observed
<1>2. G \in SUBSET Observed
  BY <1>1 DEF Received
<1>3. f \in Bijection(P, G)
  <2>1. f \in [P -> G]
    BY DEF Received
  <2>2. \A g \in G : \E p \in P : f[p] = g
    BY DEF Received
  <2>3. \A p, q \in P : f[p] = f[q] => p = q
    <3> TAKE p \in P, q \in P
    <3>1. SUFFICES ASSUME f[p] = f[q] PROVE p = q
      OBVIOUS
    <3>2. answer(p) = answer(q)
      BY <3>1
    <3>3. /\ p.ttl = q.ttl /\ p.variant = q.variant
          /\ p.phase = q.phase /\ p.sample = q.sample
      BY <3>2
    <3>4. p \in Specs /\ q \in Specs
      OBVIOUS
    <3> QED BY <3>3, <3>4 DEF Specs
  <2> HIDE DEF f, G
  <2> QED BY <2>1, <2>2, <2>3 DEF Bijection, Injection, IsInjective, Surjection
<1>4. ExistsBijection(P, G)
  BY <1>3 DEF ExistsBijection
<1> QED BY <1>2, <1>4, FS_Bijection

(* The number of complete samples is a natural number.                     *)
LEMMA CompleteCountType ==
  ASSUME NEW E, IsFiniteSet(E), NEW S, NEW varied \in BOOLEAN
  PROVE  /\ IsFiniteSet(CompleteSamples(E, S, varied))
         /\ CompleteSampleCount(E, S, varied) \in Nat
<1> DEFINE axis == {o \in E : (o.variant # 0) = varied}
           ids  == {o.sample : o \in axis}
           f    == [o \in axis |-> o.sample]
<1>1. IsFiniteSet(axis)
  BY FS_Subset
<1>2. f \in Surjection(axis, ids)
  BY DEF Surjection
<1>3. IsFiniteSet(ids)
  <2> HIDE DEF f, ids, axis
  <2> QED BY <1>1, <1>2, FS_Surjection
<1>4. CompleteSamples(E, S, varied) \in SUBSET ids
  BY DEF CompleteSamples
<1>5. IsFiniteSet(CompleteSamples(E, S, varied))
  BY <1>3, <1>4, FS_Subset
<1> QED BY <1>5, FS_CardinalityType DEF CompleteSampleCount

-----------------------------------------------------------------------------
(* Regions and windows.                                                    *)

(* The TTLs a window is sampled at lie inside it, and it has some.         *)
LEMMA ProbeTtlsType ==
  ASSUME NEW first \in TTLs, NEW last \in TTLs, first <= last
  PROVE  ProbeTtls(first, last) \in (SUBSET TTLs) \ {{}}
<1>1. CASE last - first + 1 <= 7
  <2>1. first..last \in SUBSET TTLs /\ first \in first..last
    BY ConfigAssumption DEF TTLs
  <2> QED BY <1>1, <2>1 DEF ProbeTtls
<1>2. CASE ~(last - first + 1 <= 7)
  <2>1. {first, first + 1, (first + last) \div 2, last - 1, last} \in SUBSET TTLs
    BY <1>2, ConfigAssumption DEF TTLs
  <2> QED BY <1>2, <2>1 DEF ProbeTtls
<1> QED BY <1>1, <1>2

(* A region around a run of TTLs of the path stays inside the path.        *)
LEMMA RegionAroundType ==
  ASSUME NEW family \in Families, NEW limit \in TTLs,
         NEW lo \in 1..limit, NEW hi \in 1..limit, lo <= hi
  PROVE  RegionAround(family, lo, hi, limit) \in Regions
<1> DEFINE first == Max({1, lo - 1})
           last  == Min({limit, hi + 1})
<1>0. limit \in Int /\ lo \in Int /\ hi \in Int
  BY DEF TTLs
<1>1. first = IF 1 >= lo - 1 THEN 1 ELSE lo - 1
  BY <1>0, MaxOfTwo
<1>2. last = IF limit <= hi + 1 THEN limit ELSE hi + 1
  BY <1>0, MinOfTwo
<1> HIDE DEF first, last
<1>3. first \in TTLs /\ last \in TTLs /\ first <= last
  BY <1>1, <1>2, ConfigAssumption DEF TTLs
<1>4. ProbeTtls(first, last) \in (SUBSET TTLs) \ {{}}
  BY <1>3, ProbeTtlsType
<1> QED BY <1>3, <1>4 DEF RegionAround, Regions, first, last

(* The regions found on a path lie inside it.                              *)
LEMMA FindRegionsType ==
  ASSUME NEW E, NEW limit \in TTLs
  PROVE  FindRegions(E, limit) \in SUBSET Regions
<1>1. ASSUME NEW family \in Families \ {"global"},
             NEW r \in Runs({t \in 1..limit : Suspicious(E, family, t)})
      PROVE  RegionAround(family, r[1], r[2], limit) \in Regions
  <2>1. r[1] \in 1..limit /\ r[2] \in 1..limit /\ r[1] <= r[2]
    BY <1>1 DEF Runs
  <2> QED BY <2>1, RegionAroundType
<1>2. ASSUME NEW x \in FindRegions(E, limit) PROVE x \in Regions
  <2>1. PICK family \in Families \ {"global"} :
          x \in {RegionAround(family, r[1], r[2], limit) :
                   r \in Runs({t \in 1..limit : Suspicious(E, family, t)})}
    BY <1>2 DEF FindRegions
  <2> QED BY <2>1, <1>1
<1> QED BY <1>2

(* The region of global CAP is the path itself.                            *)
LEMMA GlobalRegionType ==
  ASSUME NEW limit \in TTLs
  PROVE  {GlobalRegion(limit)} \in SUBSET Regions
<1>1. 1..limit \in (SUBSET TTLs) \ {{}} /\ 1 \in TTLs
  <2>1. 1 \in 1..limit /\ 1..limit \in SUBSET TTLs
    BY ConfigAssumption DEF TTLs
  <2> QED BY <2>1
<1> QED BY <1>1 DEF GlobalRegion, Regions, Families

(* Every window worked is a sampling window inside the path.               *)
LEMMA SamplingWindowsType ==
  ASSUME NEW R \in SUBSET Regions
  PROVE  SamplingWindows(R) \in SUBSET Windows
<1>1. ASSUME NEW f \in ClusterStarts(R)
      PROVE  SharedWindow(Cluster(R, f)) \in Windows
  <2> DEFINE K == Cluster(R, f)
  <2>1. PICK r \in VariantRegions(R) : r.first = f
    BY DEF ClusterStarts
  <2>2. K \in SUBSET Regions
    BY DEF Cluster, VariantRegions
  <2>3. r \in K
    <3>1. r \in Regions
      BY DEF VariantRegions
    <3>2. r.first >= f
      BY <2>1, <3>1 DEF Regions, TTLs
    <3> QED BY <2>1, <3>2 DEF Cluster
  <2> HIDE DEF K
  <2>4. {q.first : q \in K} \in SUBSET TTLs /\ {q.first : q \in K} # {}
    BY <2>2, <2>3 DEF Regions
  <2>5. {q.last : q \in K} \in SUBSET TTLs /\ {q.last : q \in K} # {}
    BY <2>2, <2>3 DEF Regions
  <2>6. UNION {q.ttls : q \in K} \in (SUBSET TTLs) \ {{}}
    <3>1. \A q \in K : q.ttls \in SUBSET TTLs
      BY <2>2 DEF Regions
    <3>2. PICK t \in r.ttls : TRUE
      BY <2>2, <2>3 DEF Regions
    <3> QED BY <3>1, <3>2, <2>3
  <2>7. Min({q.first : q \in K}) \in TTLs /\ Max({q.last : q \in K}) \in TTLs
    BY <2>4, <2>5, ExtremeTtls
  <2> QED BY <2>6, <2>7 DEF SharedWindow, Windows, K
<1>2. ASSUME NEW r \in R
      PROVE  [variant |-> FALSE, first |-> r.first, last |-> r.last, ttls |-> r.ttls] \in Windows
  BY DEF Regions, Windows
<1> QED BY <1>1, <1>2 DEF SamplingWindows

(* There is always a first window to work on.                              *)
LEMMA NextWindowType ==
  ASSUME NEW work \in SUBSET Windows, work # {}
  PROVE  NextWindow(work) \in work
<1>1. PICK kind \in BOOLEAN :
        /\ \E w \in work : w.variant = kind
        /\ ~kind => \A w \in work : ~w.variant
  BY DEF Windows
<1> DEFINE K == {w \in work : w.variant = kind}
           F == {w.first : w \in K}
<1>2. F \in SUBSET TTLs /\ F # {}
  BY <1>1 DEF Windows
<1>3. PICK f \in F : \A g \in F : f <= g
  <2> HIDE DEF F
  <2> QED BY <1>2, ExtremeTtls
<1> DEFINE L == {w.last : w \in {v \in K : v.first = f}}
<1>4. L \in SUBSET TTLs /\ L # {}
  BY <1>3 DEF Windows
<1>5. PICK l \in L : \A m \in L : l <= m
  <2> HIDE DEF L
  <2> QED BY <1>4, ExtremeTtls
<1>6. PICK w \in K : w.first = f /\ w.last = l
  BY <1>5
<1>7. \A v \in work \ {w} : ~Precedes(v, w)
  <2> TAKE v \in work \ {w}
  <2>1. v \in Windows /\ w \in Windows /\ w.variant = kind
    BY <1>6
  <2>2. v.variant /\ ~w.variant => FALSE
    BY <2>1, <1>1
  <2>3. v.variant = w.variant => v \in K /\ f <= v.first
    BY <2>1, <1>3
  <2>4. v.variant = w.variant /\ v.first = f => l <= v.last
    BY <2>1, <2>3, <1>5
  <2>5. /\ v.first \in Int /\ v.last \in Int /\ w.first \in Int /\ w.last \in Int
    BY <2>1 DEF Windows, TTLs
  <2> QED BY <2>2, <2>3, <2>4, <2>5, <1>6 DEF Precedes
<1> QED BY <1>6, <1>7 DEF NextWindow

=============================================================================
