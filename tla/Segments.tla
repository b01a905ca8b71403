------------------------------ MODULE Segments ------------------------------
(***************************************************************************)
(* From the evidence to the report: hop summaries, the class and the       *)
(* certificate of every region, DIRECT edges, the silent tail              *)
(* (controller.py:169-188, 241-245 and 696-1121).                          *)
(*                                                                         *)
(* A segment is a record without its reason texts; two regions that        *)
(* converge on one claim are then one member of the set, which is what     *)
(* _coalesce_segments makes of them.                                       *)
(***************************************************************************)
EXTENDS Boundaries, Sequences

SegmentTypes == {"direct", "multipath", "opaque", "mutable", "intermittent",
                 "silent_tail", "unstable", "unknown"}

-----------------------------------------------------------------------------
(* Hops: what the main flow saw at each TTL up to the stop TTL.            *)

MainAt(obs, t) == {o \in obs : MainFlow(o) /\ o.ttl = t}

Sent(obs, t) == Cardinality(MainAt(obs, t))

Votes(obs, t, who) == Cardinality({o \in MainAt(obs, t) : o.who = who})

FirstSeen(obs, t, who) == Min({o.sample : o \in {x \in MainAt(obs, t) : x.who = who}})

(* Counter.most_common(1): the most frequent responder, the earliest one   *)
(* on a tie.                                                               *)
Primary(obs, t) ==
  LET seen == WhoIn(MainAt(obs, t))
  IN  IF seen = {} THEN None
      ELSE CHOOSE w \in seen : \A v \in seen \ {w} :
             \/ Votes(obs, t, w) > Votes(obs, t, v)
             \/ /\ Votes(obs, t, w) = Votes(obs, t, v)
                /\ FirstSeen(obs, t, w) < FirstSeen(obs, t, v)

(* The TTL of the first terminal observation, else the analysis limit.     *)
HopCount(obs, limit) ==
  IF TerminalTtls(obs) # {} THEN Min(TerminalTtls(obs)) ELSE limit

Reached(obs) ==
  \E o \in obs : Terminal(o) /\ MainFlow(o) /\ o.kind = "destination"

(* The closest hop with a responder at or before / at or after a TTL.      *)
VisibleHops(obs, n) == {t \in 1..n : Primary(obs, t) # None}

IngressOf(obs, n, t) ==
  LET before == {u \in VisibleHops(obs, n) : u <= Min({t, n})}
  IN  IF before = {} THEN None ELSE Primary(obs, Max(before))

EgressOf(obs, n, t) ==
  LET after == {u \in VisibleHops(obs, n) : u >= Min({t, n})}
  IN  IF after = {} THEN None ELSE Primary(obs, Min(after))

(* Fault: the boundaries not looked at.                                    *)
AnyBoundaries(obs, n, region) == TRUE

HasVisibleBoundaries(obs, n, region) ==
  {region.first, region.last} \subseteq VisibleHops(obs, n)

-----------------------------------------------------------------------------
(* Evidence of one region, on the fixed flow and on the variants.          *)

(* Fault: the probes of all flows taken for those of the fixed one.        *)
InAnyFlow(obs, ttls) == {o \in obs : o.ttl \in ttls}

FixedIn(obs, ttls)  == {o \in obs : o.ttl \in ttls /\ MainFlow(o)}
VariedIn(obs, ttls) == {o \in obs : o.ttl \in ttls /\ ~MainFlow(o)}

(* The responders of one complete sample along the window.                 *)
Signature(obs, ttls, sample) ==
  [t \in ttls |-> (CHOOSE o \in obs : o.sample = sample /\ o.ttl = t).who]

Signatures(obs, ttls, varied) ==
  {Signature(obs, ttls, s) : s \in CompleteSamples(obs, ttls, varied)}

(* Fault: responders of different TTLs compared.                           *)
SomeTtlDiffers(S) == \E a, b \in S : a.who # b.who /\ None \notin {a.who, b.who}

SomeTtlVaries(S) == \E a, b \in S : /\ a.ttl = b.ttl
                                    /\ a.who # b.who
                                    /\ None \notin {a.who, b.who}

AlwaysMissing(S) ==
  {t \in {o.ttl : o \in S} : \A o \in S : o.ttl = t => ~Answered(o)}

IntermittentIn(S) == \E a, b \in S : a.ttl = b.ttl /\ Answered(a) /\ ~Answered(b)

(***************************************************************************)
(* The class of a region is the first verdict of this table that holds.    *)
(* (The second MUTABLE branch of the code, controller.py:1003, repeats the *)
(* first one: only mutation regions carry the mutation reason.)            *)
(***************************************************************************)
Verdicts(obs, n, region) ==
  LET fixed   == FixedIn(obs, region.ttls)
      varied  == VariedIn(obs, region.ttls)
      both    == fixed \cup varied
      missing == AlwaysMissing(both) # {}
      opaque  == missing /\ HasVisibleBoundaries(obs, n, region)
      fixedSignatures  == Signatures(obs, region.ttls, FALSE)
      variedSignatures == Signatures(obs, region.ttls, TRUE)
      changing == IntermittentIn(both) \/ Cardinality(variedSignatures) > 1
      is(family) == region.family = family
  IN <<
    [type |-> "unstable",     holds |-> is("temporal") /\ SomeTtlVaries(fixed)],
    [type |-> "multipath",    holds |-> is("multipath") /\ SomeTtlVaries(varied)],
    [type |-> "opaque",       holds |-> is("visibility_silent") /\ opaque],
    [type |-> "mutable",      holds |-> is("mutation") /\ (\E o \in both : o.mut # {})],
    [type |-> "intermittent", holds |-> /\ region.family \in VisibilityFamilies
                                        /\ changing \/ missing],
    [type |-> "unstable",     holds |-> SomeTtlVaries(fixed)],
    [type |-> "multipath",    holds |-> SomeTtlVaries(varied)],
    [type |-> "opaque",       holds |-> opaque],
    [type |-> "intermittent", holds |-> changing],
    [type |-> "direct",       holds |-> /\ fixed # {} /\ varied # {}
                                        /\ \A o \in both : Answered(o)
                                        /\ fixedSignatures # {}
                                        /\ fixedSignatures = variedSignatures],
    [type |-> "unknown",      holds |-> TRUE] >>

ClassOf(obs, n, region) ==
  LET table == Verdicts(obs, n, region)
  IN  table[Min({i \in DOMAIN table : table[i].holds})].type

(* Complete samples of the axis the certificate is about.                  *)
CertificateSamples(obs, region) ==
  CompleteSampleCount(obs, region.ttls, VariantCoverage(region.family))

(* As many complete samples as were asked for, on every axis.              *)
Sampled(obs, region) ==
  /\ CompleteSampleCount(obs, region.ttls, FALSE) >= TemporalSamples
  /\ VariantCoverage(region.family) =>
       CompleteSampleCount(obs, region.ttls, TRUE) >= Required

(* Flow coverage also compares the bound its samples reach with the one    *)
(* requested.                                                              *)
Certified(obs, region) ==
  /\ Sampled(obs, region)
  /\ VariantCoverage(region.family) => CertificateSamples(obs, region) \in Enough

ClassifyRegion(obs, n, region) ==
  [type      |-> ClassOf(obs, n, region),
   first     |-> region.first,
   last      |-> region.last,
   ingress   |-> IngressOf(obs, n, region.first),
   egress    |-> EgressOf(obs, n, region.last),
   method    |-> IF VariantCoverage(region.family)
                 THEN "flow_variant_coverage" ELSE "fixed_flow_repeatability",
   samples   |-> CertificateSamples(obs, region),
   certified |-> Certified(obs, region)]

-----------------------------------------------------------------------------
(* Edges no region covers and whose two ends answered.                     *)
CoveredEdges(regions) == UNION {r.first..(r.last - 1) : r \in regions}

DirectEdge(obs, t) ==
  LET samples == Min({Sent(obs, t), Sent(obs, t + 1)})
  IN  [type      |-> "direct",
       first     |-> t,
       last      |-> t + 1,
       ingress   |-> Primary(obs, t),
       egress    |-> Primary(obs, t + 1),
       method    |-> "rapid_sweep_observation",
       samples   |-> samples,
       certified |-> samples >= Required]

DirectSegments(obs, n, regions) ==
  {DirectEdge(obs, t) : t \in {u \in 1..(n - 1) :
     u \notin CoveredEdges(regions) /\ {u, u + 1} \subseteq VisibleHops(obs, n)}}

(* Silence after the last visible TTL, without an egress.                  *)
ProbedMaxTtl(obs) == Max({0} \cup {o.ttl : o \in obs})

(* Fault: a terminal reply not looked for.                                 *)
HasUnprobedTail(obs, limit) == BaselineAnswered(obs) /\ limit < ProbedMaxTtl(obs)

HasSilentTail(obs, limit) ==
  /\ BaselineAnswered(obs)
  /\ TerminalTtls(obs) = {}
  /\ limit < ProbedMaxTtl(obs)

SilentTail(obs, limit, n) ==
  [type      |-> "silent_tail",
   first     |-> limit,
   last      |-> ProbedMaxTtl(obs),
   ingress   |-> IngressOf(obs, n, limit),
   egress    |-> None,
   method    |-> "silent_tail_observation",
   samples   |-> CompleteSampleCount(obs, (limit + 1)..ProbedMaxTtl(obs), FALSE),
   certified |-> FALSE]

(* The report.                                                             *)
SummarizeSegments(obs, limit, regions) ==
  LET n == HopCount(obs, limit)
  IN  DirectSegments(obs, n, regions)
      \cup {ClassifyRegion(obs, n, r) : r \in regions}
      \cup (IF HasSilentTail(obs, limit) THEN {SilentTail(obs, limit, n)} ELSE {})

=============================================================================
