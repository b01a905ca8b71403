----------------------------- MODULE ProbeBatch -----------------------------
(***************************************************************************)
(* What send_batch promises its caller, whatever the network does: one     *)
(* entry per probe, in the order asked; each entry is silence or a reply   *)
(* to that very probe, unless its correlation method could not tell (the   *)
(* exceptions are spelt out in Chance).  This is what TraceController      *)
(* takes for granted in its operator Replies.                              *)
(***************************************************************************)
EXTENDS Packets, Sequences

VARIABLES
  before,   (* probes sent before the batch under way, or the last one     *)
  asked,    (* the probes of that batch, as asked for                      *)
  answer,   (* its result, empty until it returns                          *)
  stage     (* idle, busy or broken                                        *)

batchVars == <<before, asked, answer, stage>>

(* A reply the network may give to this probe; no rewrite is invented.     *)
Genuine(entry, serial, spec) ==
  /\ entry.cause.session = Session /\ entry.cause.serial = serial
  /\ entry.cause.ttl = spec.ttl /\ entry.cause.flow = spec.flow
  /\ \E end \in Network[spec.ttl] :
       entry.who = end.who /\ entry.kind = Meaning(end.how, spec.flow.proto)
  /\ entry.mut \subseteq entry.altered

(* A coincidence the correlation method cannot exclude.  A short quotation *)
(* is told by its IP identification, which strangers use too and devices   *)
(* rewrite; TCP tells sessions by sixteen bits.  The payload tag leaves    *)
(* nothing to chance.                                                      *)
Chance(entry) ==
  LET stranger == entry.cause.session # Session
      namesake == entry.cause.session[2] = Session[2]
  IN  \/ entry.matched = "ip_id+flow" /\ (stranger \/ "ipid" \in entry.altered)
      \/ entry.matched = "tcp_sequence" /\ stranger /\ (namesake \/ "seq" \in entry.altered)
      \/ entry.matched = "tcp_ack" /\ stranger /\ namesake

(* Entry number i of a batch that began after the given probes.            *)
Truthful(entry, first, i, specs) ==
  \/ entry.kind = "timeout"
  \/ Genuine(entry, first + i, specs[i])
  \/ Chance(entry)

AbstractInit == before = 0 /\ asked = <<>> /\ answer = <<>> /\ stage = "idle"

(* A batch is asked for, after one that came back or none.                 *)
Ask ==
  /\ stage = "idle"
  /\ stage' = "busy"
  /\ asked' # <<>>
  /\ answer' = <<>>
  /\ before' = before + Len(asked)

Return ==
  /\ stage = "busy"
  /\ stage' = "idle"
  /\ Len(answer') = Len(asked)
  /\ \A i \in DOMAIN answer' : Truthful(answer'[i], before, i, asked)
  /\ UNCHANGED <<before, asked>>

(* A socket error or Ctrl-C: the caller gets nothing, now and later.       *)
Break ==
  /\ stage # "broken"
  /\ stage' = "broken"
  /\ answer' = <<>>

AbstractNext == Ask \/ Return \/ Break

AbstractSpec == AbstractInit /\ [][AbstractNext]_batchVars

=============================================================================
