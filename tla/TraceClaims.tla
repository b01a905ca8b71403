----------------------------- MODULE TraceClaims -----------------------------
(***************************************************************************)
(* Statements the documentation, the report texts and the warnings make    *)
(* about every result, which the code does not always keep.  Each is       *)
(* refuted by a run of its own; README.md tells the counterexamples.  All  *)
(* but the first leave interrupted results aside.                          *)
(***************************************************************************)
EXTENDS TraceProperties

(* "this is a partial, non-certified result" (controller.py:161).          *)
InterruptedIsNotCertified ==
  Done /\ interrupted => \A s \in Report : ~s.certified

(* Two classes promise that the main flow met one responder:               *)
(* "MULTIPATH: controlled flow variants produce multiple signatures while  *)
(* the fixed-flow signature remains stable" and "INTERMITTENT: ICMP        *)
(* visibility changes, but every received response still identifies the    *)
(* same forwarding responder" (README.md:190-191, 195-196).  The property  *)
(* asks that a report keeps one of the promises at least.                  *)
KeepsResponder(class) ==
  \A r \in regions : ClassOf(obs, HopCount(obs, limit), r) = class =>
    ~SomeTtlVaries(FixedIn(obs, r.ttls))

ClassesKeepResponder ==
  Done /\ ~interrupted => KeepsResponder("multipath") \/ KeepsResponder("intermittent")

(* CAP "stops when a configured detection-coverage bound is met or the     *)
(* hard probe budget is exhausted" (README.md:12-13): a flow coverage that *)
(* the budget did not stop is certified.                                   *)
BoundMetOrBudgetSpent ==
  Done /\ ~interrupted /\ "budget" \notin warnings => \A r \in regions :
    VariantCoverage(r.family) => Certified(obs, r)

(* "if the hard probe budget prevents nine complete matched bundles, the   *)
(* result is BUDGET-LIMITED, never silently certified", for flow tokens    *)
(* drawn "without replacement" (docs/ALGORITHM.md:66, 77-79).              *)
CertifiedFlowsAreDistinct ==
  Done /\ ~interrupted => \A r \in regions :
    VariantCoverage(r.family) /\ Certified(obs, r) => DistinctFlows(r)

(* The same statement of README.md:12-13, for the loop itself.             *)
CapStops == pc = "varied" ~> pc # "varied"

=============================================================================
