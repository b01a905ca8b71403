---------------------------- MODULE Observations ----------------------------
(***************************************************************************)
(* Probes, replies and the questions the controller asks of the list of    *)
(* observations it has collected (model.py:64-118 and the small queries of *)
(* controller.py).                                                         *)
(*                                                                         *)
(* self.observations is a list that only grows.  It is modelled as a set:  *)
(* a sample id and a TTL identify an observation (property SamplesCoherent *)
(* of TraceController), and sample ids grow with time, so the set carries  *)
(* the order of the observations of one TTL.                               *)
(***************************************************************************)
EXTENDS TraceConfig, FiniteSetsExt

(***************************************************************************)
(* What a probe may be answered with.  A timeout carries no responder and  *)
(* no mutation; every other kind carries both (backend.py:320-367).        *)
(***************************************************************************)
Silence == [kind |-> "timeout", who |-> None, mut |-> {}]

Answers == [kind : {"time_exceeded", "destination", "unreachable", "other"},
            who  : Responders,
            mut  : SUBSET Mutations]

Outcomes == Answers \cup {Silence}

Phases == {"baseline-fixed", "canary-varied", "dbp-fixed", "dbp-varied"}

(* ProbeSpec: flow identity is the variant number, 0 for the main flow.    *)
Specs == [ttl : TTLs, variant : Variants, phase : Phases, sample : Nat]

Observed == [ttl : TTLs, variant : Variants, phase : Phases, sample : Nat,
             kind : {"time_exceeded", "destination", "unreachable", "other", "timeout"},
             who : Responders \cup {None},
             mut : SUBSET Mutations]

(* One bundle: the same flow, phase and sample over a set of TTLs.         *)
Bundle(ttls, variant, phase, sample) ==
  {[ttl |-> t, variant |-> variant, phase |-> phase, sample |-> sample] : t \in ttls}

(* send_batch returns one observation per probe.                           *)
Received(specs, reply) ==
  {[ttl |-> p.ttl, variant |-> p.variant, phase |-> p.phase, sample |-> p.sample,
    kind |-> reply[p].kind, who |-> reply[p].who, mut |-> reply[p].mut] : p \in specs}

-----------------------------------------------------------------------------
Answered(o) == o.who # None /\ o.kind # "timeout"
Terminal(o) == o.kind \in {"destination", "unreachable"}
MainFlow(o) == o.variant = 0

WhoIn(S) == {o.who : o \in S} \ {None}

BaselineAnswered(obs) ==
  \E o \in obs : Answered(o) /\ o.phase = "baseline-fixed"

(* TTLs at which the main flow met a terminal reply.                       *)
TerminalTtls(obs) == {o.ttl : o \in {x \in obs : Terminal(x) /\ MainFlow(x)}}

(* Zero stands for Python's None.                                          *)
LastObservedTtl(obs) ==
  LET seen == {o.ttl : o \in {x \in obs : Answered(x)}}
  IN  IF seen = {} THEN 0 ELSE Max(seen)

AnalysisLimit(obs) ==
  IF TerminalTtls(obs) # {} THEN Min(TerminalTtls(obs))
  ELSE IF LastObservedTtl(obs) # 0 THEN LastObservedTtl(obs)
  ELSE MaxHops

(***************************************************************************)
(* Complete matched samples: the sample ids of one axis (fixed or varied)  *)
(* that were probed at every TTL of a window.  _complete_sample_count is   *)
(* the size of this set.                                                   *)
(***************************************************************************)
CompleteSamples(obs, ttls, varied) ==
  LET axis == {o \in obs : (o.variant # 0) = varied}
  IN  {s \in {o.sample : o \in axis} :
         ttls \subseteq {o.ttl : o \in {x \in axis : x.sample = s}}}

CompleteSampleCount(obs, ttls, varied) == Cardinality(CompleteSamples(obs, ttls, varied))

=============================================================================
