---------------------------- MODULE Correlation ----------------------------
(***************************************************************************)
(* How the backend traces a packet back to one of its probes: the parsers  *)
(* of packet.py recover a probe id and say whether the session vouches for *)
(* it, _matches_flow decides whether the packet may answer that probe, and *)
(* the observation keeps which evidence it rests on.                       *)
(*                                                                         *)
(* A parser yields a set: empty where the code raises PacketParseError.    *)
(***************************************************************************)
EXTENDS Packets

Decrement(n) == IF n > 0 THEN n - 1 ELSE Word - 1
Predecessor(n) == IF n[2] > 0 THEN <<n[1], n[2] - 1>> ELSE <<Decrement(n[1]), Word - 1>>

(* Only an echo reply with our tag is ours.                                *)
ParseEchoReply(wire) ==
  {[id |-> tag[2], kind |-> "destination", verified |-> TRUE, direct |-> "echo"] :
     tag \in {t \in wire.quote.tag : t[1] = Session}}

KindOfError(type, proto) ==
  CASE type[1] = 11 -> "time_exceeded"
    [] type = <<3, 3>> /\ proto = "udp" -> "destination"
    [] type[1] = 3 /\ ~(type = <<3, 3>> /\ proto = "udp") -> "unreachable"
    [] OTHER -> "other"

(* Fault: the tag believed whoever wrote it.                               *)
ParseErrorOfAnyone(wire) ==
  LET q == wire.quote
      named == {t[2] : t \in q.tag} \cup {n[2] : n \in {m \in q.seq : m[1] = Session[2]}}
      id == IF named # {} THEN CHOOSE i \in named : TRUE ELSE q.ipid
  IN  {[id |-> id, kind |-> KindOfError(wire.type, q.proto), verified |-> named # {},
        direct |-> "no"]}

(* The session tag, where it is quoted, and the upper half of a TCP        *)
(* sequence vouch for an id; a foreign tag is refused, a foreign sequence  *)
(* is not: then, as for a short quotation, the IP identification is taken. *)
ParseError(wire) ==
  LET q == wire.quote
      named == {t[2] : t \in {x \in q.tag : x[1] = Session}}
               \cup {n[2] : n \in {x \in q.seq : x[1] = Session[2]}}
      id == IF named # {} THEN CHOOSE i \in named : TRUE ELSE q.ipid
  IN  IF \E t \in q.tag : t[1] # Session THEN {}
      ELSE {[id |-> id, kind |-> KindOfError(wire.type, q.proto), verified |-> named # {},
             direct |-> "no"]}

(* parse_icmp_response; other ICMP types are not ours.                     *)
ParseIcmp(wire) ==
  IF wire.type[1] = 0 THEN ParseEchoReply(wire)
  ELSE IF wire.type[1] \in {3, 11, 12} THEN ParseError(wire)
  ELSE {}

(* Fault: the acknowledgement not taken back modulo 2^32.                  *)
ParseTcpUnwrapped(wire) ==
  LET n == <<wire.ack[1], wire.ack[2] - 1>>
  IN  IF "ack" \in wire.flags /\ wire.flags \cap {"syn", "rst"} # {} /\ n[1] = Session[2]
      THEN {[id |-> n[2], kind |-> "destination", verified |-> TRUE, direct |-> "tcp"]}
      ELSE {}

(* parse_tcp_response: a SYN-ACK or RST-ACK of this session.               *)
ParseTcp(wire) ==
  LET n == Predecessor(wire.ack)
  IN  IF "ack" \in wire.flags /\ wire.flags \cap {"syn", "rst"} # {} /\ n[1] = Session[2]
      THEN {[id |-> n[2], kind |-> "destination", verified |-> TRUE, direct |-> "tcp"]}
      ELSE {}

Parse(wire) == IF wire.form = "tcp" THEN ParseTcp(wire) ELSE ParseIcmp(wire)

(* Fault: quoted fields compared even where the session vouches.           *)
MatchesUntranslated(parsed, wire, flow) ==
  CASE parsed.direct = "tcp" ->
         flow.proto = "tcp" /\ wire.sport = "target" /\ wire.dport = flow.port
    [] parsed.direct = "echo" -> flow.proto = "icmp"
    [] OTHER ->
         /\ wire.quote.proto = flow.proto
         /\ wire.quote.dst = "target"
         /\ IF flow.proto = "icmp" THEN wire.quote.port \subseteq {flow.port}
            ELSE wire.quote.dport = {"target"}

(* _matches_flow: what the session vouches for needs only the protocol;    *)
(* the rest must quote the destination, and its port or the identifier.    *)
MatchesFlow(parsed, wire, flow) ==
  CASE parsed.direct = "tcp" ->
         flow.proto = "tcp" /\ wire.sport = "target" /\ wire.dport = flow.port
    [] parsed.direct = "echo" -> flow.proto = "icmp"
    [] OTHER ->
         /\ wire.quote.proto = flow.proto
         /\ \/ parsed.verified
            \/ /\ wire.quote.dst = "target"
               /\ IF flow.proto = "icmp" THEN wire.quote.port \subseteq {flow.port}
                  ELSE wire.quote.dport = {"target"}

(* _mutations: quoted fields that differ from what this probe carried.  A  *)
(* direct reply quotes nothing.                                            *)
Mutations(parsed, wire, probe) ==
  IF parsed.direct # "no" THEN {}
  ELSE LET q == wire.quote
       IN  {f \in Fields :
              \/ f = "dst" /\ q.dst # "target"
              \/ f = "dport" /\ ~(q.dport \subseteq {"target"})
              \/ f = "port" /\ ~(q.port \subseteq {probe.flow.port})
              \/ f = "seq" /\ ~(q.seq \subseteq {ProbeSequence(probe)})}

MatchedBy(parsed, wire) ==
  IF parsed.direct = "tcp" THEN "tcp_ack"
  ELSE IF ~parsed.verified THEN "ip_id+flow"
  ELSE IF parsed.direct = "no" /\ wire.quote.proto = "tcp" THEN "tcp_sequence"
  ELSE "payload_tag"

(* What the backend keeps of a reply to one of its probes.  The packet's   *)
(* cause and what was rewritten are carried along for the properties.      *)
Evidence(parsed, packet, probe) ==
  [kind |-> parsed.kind, who |-> packet.who,
   mut |-> Mutations(parsed, packet.wire, probe),
   matched |-> MatchedBy(parsed, packet.wire),
   cause |-> packet.cause, altered |-> packet.altered]

NoReply == [kind |-> "timeout", who |-> Nobody]
=============================================================================
