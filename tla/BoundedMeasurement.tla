------------------------- MODULE BoundedMeasurement -------------------------
(***************************************************************************)
(* What a measurement promises to the network it probes and to its user,   *)
(* whatever it finds: probes leave in bundles that fit a fixed budget as a *)
(* whole; everything sent is accounted for, except in a bundle cut short;  *)
(* at most one kernel control follows, when all probing is over; then one  *)
(* report, or none after a failure.                                        *)
(***************************************************************************)
EXTENDS Naturals

CONSTANTS Budget, Statuses

VARIABLES
  spent,   (* probes on the wire                                           *)
  kept,    (* observations in the report                                   *)
  stage,   (* probing, over, reported or failed                            *)
  kernel   (* outcome of the kernel control                                *)

abstractVars == <<spent, kept, stage, kernel>>

AbstractInit == spent = 0 /\ kept = 0 /\ stage = "probing" /\ kernel = "none"

(* A bundle of n probes goes out and comes back whole.                     *)
SendBundle ==
  /\ stage = "probing"
  /\ \E n \in 0..Budget :
       /\ spent + n <= Budget
       /\ spent' = spent + n
       /\ kept' = kept + n
  /\ UNCHANGED <<stage, kernel>>

(* Probing is cut short: of the last bundle some probes went out, and at   *)
(* most as many are kept.                                                  *)
CutShort ==
  /\ stage = "probing"
  /\ \E n \in 0..Budget, m \in 0..Budget :
       /\ spent + n <= Budget /\ m <= n
       /\ spent' = spent + n
       /\ kept' = kept + m
  /\ stage' \in {"over", "failed"}
  /\ UNCHANGED kernel

EndProbing ==
  /\ stage = "probing"
  /\ stage' = "over"
  /\ kernel' \in Statuses \cup {"none"}
  /\ UNCHANGED <<spent, kept>>

ReportResult ==
  /\ stage = "over"
  /\ stage' = "reported"
  /\ UNCHANGED <<spent, kept, kernel>>

AbstractNext == SendBundle \/ CutShort \/ EndProbing \/ ReportResult

AbstractSpec == AbstractInit /\ [][AbstractNext]_abstractVars

=============================================================================
