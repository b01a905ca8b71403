----------------------------- MODULE Boundaries -----------------------------
(***************************************************************************)
(* Differential boundary probing (DBP): from the fixed-flow sweeps and the *)
(* canary sweeps to the regions that deserve adaptive sampling, and from   *)
(* the regions to the sampling windows of CAP (controller.py:471-592 and   *)
(* 645-686).                                                               *)
(***************************************************************************)
EXTENDS Observations

Families == {"visibility_intermittent", "visibility_silent", "visibility_flow",
             "multipath", "temporal", "mutation", "global"}

VisibilityFamilies == {"visibility_intermittent", "visibility_silent", "visibility_flow"}

(* Regions of these families are sampled across flow variants.             *)
VariantCoverage(family) == family \in VisibilityFamilies \cup {"multipath", "global"}

Regions == [family : Families, first : TTLs, last : TTLs, ttls : (SUBSET TTLs) \ {{}}]

-----------------------------------------------------------------------------
FixedAt(obs, t)  == {o \in obs : o.phase = "baseline-fixed" /\ o.ttl = t}
CanaryAt(obs, t) == {o \in obs : o.phase = "canary-varied" /\ o.ttl = t}

(* Quoted-header rewrites seen by the fixed flow at one TTL.               *)
MutationProfile(obs, t) ==
  UNION {o.mut : o \in {x \in FixedAt(obs, t) : Answered(x)}}

FixedVisible(obs, t) == \E o \in FixedAt(obs, t) : Answered(o)

(* The profile of the closest earlier TTL the fixed flow saw.              *)
PreviousProfile(obs, t) ==
  LET earlier == {u \in 1..(t - 1) : FixedVisible(obs, u)}
  IN  IF earlier = {} THEN {} ELSE MutationProfile(obs, Max(earlier))

(* Does a TTL give this family's reason?                                   *)
Suspicious(obs, family, t) ==
  LET fixed    == FixedAt(obs, t)
      canary   == CanaryAt(obs, t)
      combined == fixed \cup canary
      fixedWho == WhoIn(fixed)
      canaryWho == WhoIn(canary)
  IN
  \/ /\ family = "visibility_intermittent"
     /\ \E o \in combined : Answered(o)
     /\ \E o \in combined : ~Answered(o)
  \/ /\ family = "visibility_silent"
     /\ combined # {}
     /\ \A o \in combined : ~Answered(o)
  \/ /\ family = "temporal"
     /\ Cardinality(fixedWho) > 1
  \/ /\ family = "multipath"
     /\ fixedWho # {} /\ canaryWho # {}
     /\ (canaryWho \ fixedWho # {} \/ (Cardinality(fixedWho) = 1 /\ fixedWho # canaryWho))
  \/ /\ family = "visibility_flow"
     /\ fixed # {} /\ canary # {}
     /\ (fixedWho # {}) # (canaryWho # {})
  \/ /\ family = "mutation"
     /\ FixedVisible(obs, t)
     /\ MutationProfile(obs, t) # PreviousProfile(obs, t)

(* Fault: a wide window sampled at its two ends only.                      *)
ProbeTtlsEnds(first, last) ==
  IF last - first + 1 <= 7 THEN first..last ELSE {first, last}

(* A wide window is sampled at its ends, next to them, and in the middle.  *)
ProbeTtls(first, last) ==
  IF last - first + 1 <= 7
  THEN first..last
  ELSE {first, first + 1, (first + last) \div 2, last - 1, last}

(* Faults: the margin before or after the run forgotten; the margin not    *)
(* clipped to the path.                                                    *)
RegionWithoutIngress(family, lo, hi, limit) ==
  LET last == Min({limit, hi + 1})
  IN  [family |-> family, first |-> lo, last |-> last, ttls |-> ProbeTtls(lo, last)]
RegionWithoutEgress(family, lo, hi, limit) ==
  LET first == Max({1, lo - 1})
  IN  [family |-> family, first |-> first, last |-> hi, ttls |-> ProbeTtls(first, hi)]
RegionFromZero(family, lo, hi, limit) ==
  LET last == Min({limit, hi + 1})
  IN  [family |-> family, first |-> lo - 1, last |-> last, ttls |-> ProbeTtls(lo - 1, last)]
RegionPastLimit(family, lo, hi, limit) ==
  LET first == Max({1, lo - 1})
  IN  [family |-> family, first |-> first, last |-> hi + 1, ttls |-> ProbeTtls(first, hi + 1)]

(* The region around a run lo..hi of suspicious TTLs: one TTL wider on     *)
(* each side, inside the analysed path.                                    *)
RegionAround(family, lo, hi, limit) ==
  LET first == Max({1, lo - 1})
      last  == Min({limit, hi + 1})
  IN  [family |-> family, first |-> first, last |-> last,
       ttls |-> ProbeTtls(first, last)]

(* Maximal runs of consecutive members of a set of TTLs.                   *)
Runs(S) == {r \in S \X S : /\ r[1] <= r[2]
                           /\ r[1]..r[2] \subseteq S
                           /\ r[1] - 1 \notin S
                           /\ r[2] + 1 \notin S}

FindRegions(obs, limit) ==
  UNION { {RegionAround(family, r[1], r[2], limit) :
             r \in Runs({t \in 1..limit : Suspicious(obs, family, t)})} :
          family \in Families \ {"global"} }

(* --global-cap replaces every region by one over the whole path.          *)
GlobalRegion(limit) ==
  [family |-> "global", first |-> 1, last |-> limit, ttls |-> 1..limit]

-----------------------------------------------------------------------------
(***************************************************************************)
(* Sampling windows.  Overlapping variant regions share one window, the    *)
(* union of their TTLs; every other region is a window of its own, taken   *)
(* after the shared ones.                                                  *)
(***************************************************************************)
Windows == [variant : BOOLEAN, first : TTLs, last : TTLs, ttls : (SUBSET TTLs) \ {{}}]

VariantRegions(regions) == {r \in regions : VariantCoverage(r.family)}

(* TTLs at which a cluster of overlapping variant regions begins.          *)
ClusterStarts(regions) ==
  {f \in {r.first : r \in VariantRegions(regions)} :
     \A r \in VariantRegions(regions) : ~(r.first < f /\ f <= r.last)}

Cluster(regions, f) ==
  {r \in VariantRegions(regions) :
     r.first >= f /\ \A g \in ClusterStarts(regions) : g > f => r.first < g}

(* Fault: the window of the first region alone.                            *)
FirstWindow(cluster) ==
  LET r == CHOOSE x \in cluster : \A y \in cluster : x.first <= y.first
  IN  [variant |-> TRUE, first |-> r.first, last |-> r.last, ttls |-> r.ttls]

SharedWindow(cluster) ==
  [variant |-> TRUE,
   first |-> Min({r.first : r \in cluster}),
   last  |-> Max({r.last : r \in cluster}),
   ttls  |-> UNION {r.ttls : r \in cluster}]

(* Two fixed-only regions with the same TTLs are one window: the second    *)
(* visit finds the samples of the first, or the same exhausted budget.     *)
SamplingWindows(regions) ==
  {SharedWindow(Cluster(regions, f)) : f \in ClusterStarts(regions)}
  \cup {[variant |-> FALSE, first |-> r.first, last |-> r.last, ttls |-> r.ttls] :
          r \in {x \in regions : ~VariantCoverage(x.family)}}

(* The order the windows are worked in.                                    *)
Precedes(v, w) ==
  \/ v.variant /\ ~w.variant
  \/ v.variant = w.variant /\ v.first < w.first
  \/ v.variant = w.variant /\ v.first = w.first /\ v.last < w.last

NextWindow(work) == CHOOSE w \in work : \A v \in work \ {w} : ~Precedes(v, w)

=============================================================================
