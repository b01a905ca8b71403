---------------------------- MODULE TraceConfig ----------------------------
(***************************************************************************)
(* The configuration of one trace (TraceConfig, controller.py:33-88) and   *)
(* the value spaces of the measurement.  Every module of the controller is *)
(* parameterised by these constants.                                       *)
(***************************************************************************)
EXTENDS Integers, FiniteSets

CONSTANTS
  MaxHops,          (* max_hops: the largest TTL ever probed               *)
  BaselineRounds,   (* baseline_rounds: fixed-flow sweeps                  *)
  TemporalSamples,  (* temporal_samples: fixed samples a region needs      *)
  CanaryFlows,      (* canary_flows: extra flows swept over the path       *)
  GlobalCap,        (* global_cap: one region over the whole path          *)
  ChunkSize,        (* chunk_size: TTLs per sweep batch                    *)
  AdaptiveBatch,    (* adaptive_batch_samples: variants per CAP batch      *)
  TailGuard,        (* tail_guard_hops: silent TTLs later sweeps repeat    *)
  Required,         (* required_samples(p, delta): variants CAP must see   *)
  Enough,           (* numbers n of samples for which the computed         *)
                    (* miss_probability_bound(p, n) is within delta        *)
  MaxProbes,        (* max_probes: the hard probe budget                   *)
  TcpControl        (* tcp_connect_control, meaningful only with TCP       *)

CONSTANTS
  Responders,       (* router and host addresses                           *)
  Destination,      (* backend.destination, the address being traced       *)
  None,             (* no responder                                        *)
  Mutations,        (* labels of quoted-header rewrites                    *)
  Tokens,           (* pool a flow variant draws its port or identifier from *)
  MainToken         (* token of the fixed flow; may lie outside the pool   *)

(* TraceConfig.validate also bounds every parameter from above (255 hops,  *)
(* 20 rounds, 100000 probes, ...); nothing below depends on those bounds.  *)
(* Required comes from a quotient of logarithms and Enough from a power,   *)
(* both rounded, so that Required need not be in Enough: the detectable    *)
(* probability 0.2 and the miss probability 0.64 have Required = 2, but    *)
(* the bound computed for 2 samples is 0.6400000000000001 (stats.py:23-33).*)
ASSUME ConfigAssumption ==
  /\ MaxHops \in Nat \ {0}
  /\ BaselineRounds \in Nat \ {0}
  /\ TemporalSamples \in Nat \ {0, 1}
  /\ CanaryFlows \in Nat
  /\ GlobalCap \in BOOLEAN
  /\ ChunkSize \in Nat \ {0}
  /\ AdaptiveBatch \in Nat \ {0}
  /\ TailGuard \in Nat
  /\ MaxProbes \in Nat \ {0}
  /\ Required \in Nat \ {0}
  /\ Enough \subseteq Nat
  /\ TcpControl \in BOOLEAN

ASSUME ValueAssumption ==
  /\ Destination \in Responders
  /\ None \notin Responders

TTLs == 1..MaxHops
Variants == Nat                      \* 0 is the fixed flow (FlowKey.variant)
FlowTokens == Tokens \cup {MainToken}

=============================================================================
