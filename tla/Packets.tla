------------------------------ MODULE Packets ------------------------------
(***************************************************************************)
(* Probes on the wire, the packets that answer them, and how a packet is   *)
(* traced back to its probe (packet.py, RawIPv4Backend._matches_flow and   *)
(* _mutations).                                                            *)
(*                                                                         *)
(* A 16-bit field is a number below Word, a 32-bit one a pair of such      *)
(* numbers, upper half first.  An optional field is a set of at most one   *)
(* value.  What the sender of a packet knows and the code cannot see (the  *)
(* probe it answers, the fields rewritten on the way) is kept beside the   *)
(* wire image, which is all that the operators of the code look at.        *)
(***************************************************************************)
EXTENDS Integers

CONSTANTS
  Word,          (* number of values of a 16-bit field: 65536              *)
  Session,       (* session_id of this backend, 32 bits                    *)
  Addresses,     (* responders                                             *)
  Nobody,        (* no responder                                           *)
  Network,       (* per TTL, the answers a probe may meet: how and by whom *)
  Rewritings,    (* sets of header fields rewritten on the way             *)
  Quotations,    (* how much of a probe a router quotes                    *)
  Strangers      (* probes of other programs on the same path              *)

Words == 0..(Word - 1)
ProbeIds == 1..(Word - 1)       \* zero would be filled in by the kernel
Protocols == {"udp", "icmp", "tcp"}

(* How a probe may be answered: its TTL expired; a port or anything else   *)
(* is unreachable; a header is faulted; or its target answers directly.    *)
Ways == {"expired", "port", "filtered", "problem", "direct", "rst"}

(* Fields a device on the path may rewrite before the probe is quoted.     *)
Fields == {"ipid", "dst", "dport", "port", "seq"}

ASSUME WireAssumption ==
  /\ Word \in Nat /\ Word > 2
  /\ Session \in Words \X Words
  /\ DOMAIN Network \subseteq Nat
  /\ Network \in [DOMAIN Network -> SUBSET [how : Ways, who : Addresses]]
  /\ Nobody \notin Addresses
  /\ Rewritings \subseteq SUBSET Fields
  /\ Quotations \subseteq {"bare", "minimum", "full"}

-----------------------------------------------------------------------------
(* What is sent.  A flow is a protocol and a source port, or for ICMP an   *)
(* identifier; the destination and its port are those of the trace.        *)

Probe(session, serial, id, spec) ==
  [session |-> session, serial |-> serial, id |-> id, ttl |-> spec.ttl,
   flow |-> spec.flow]

(* The upper half of the TCP sequence tells the session, the lower half    *)
(* the probe.                                                              *)
ProbeSequence(probe) == <<probe.session[2], probe.id>>

(* What a header of the probe and the start of its payload hold.  The      *)
(* payload tag holds the whole session id; a SYN carries no payload.       *)
Image(probe) ==
  [proto |-> probe.flow.proto, ipid |-> probe.id,
   dst |-> "target", dport |-> {"target"}, port |-> {probe.flow.port},
   seq |-> IF probe.flow.proto = "tcp" THEN {ProbeSequence(probe)} ELSE {},
   tag |-> IF probe.flow.proto = "tcp" THEN {} ELSE {<<probe.session, probe.id>>}]

(* Addition of one to a field of 16 bits, and to one of 32.                *)
Increment(n) == IF n + 1 < Word THEN n + 1 ELSE 0
Successor(n) == IF n[2] + 1 < Word THEN <<n[1], n[2] + 1>> ELSE <<Increment(n[1]), 0>>

-----------------------------------------------------------------------------
(* What comes back.                                                        *)

(* The image as the device that quotes it sees it.  Rewriting a sequence   *)
(* or an identification moves it to another value.                         *)
Rewritten(image, fields) ==
  [image EXCEPT
     !.ipid = IF "ipid" \in fields THEN Increment(@) ELSE @,
     !.dst  = IF "dst" \in fields THEN "elsewhere" ELSE @,
     !.dport = IF "dport" \in fields THEN {"elsewhere"} ELSE @,
     !.port = IF "port" \in fields THEN {"elsewhere"} ELSE @,
     !.seq  = IF "seq" \in fields THEN {<<Increment(n[1]), n[2]>> : n \in @} ELSE @]

(* Less than eight bytes of the transport header, eight, or the tag too.   *)
(* ICMP has no ports, and what is eight bytes into its header is the       *)
(* identifier.                                                             *)
Quoted(image, quotation) ==
  [image EXCEPT
     !.dport = IF quotation = "bare" \/ image.proto = "icmp" THEN {} ELSE @,
     !.port  = IF quotation = "bare" THEN {} ELSE @,
     !.seq   = IF quotation = "bare" THEN {} ELSE @,
     !.tag   = IF quotation = "full" THEN @ ELSE {}]

TypeCode(how) ==
  CASE how = "expired"  -> <<11, 0>>
    [] how = "port"     -> <<3, 3>>
    [] how = "filtered" -> <<3, 13>>
    [] how = "problem"  -> <<12, 0>>

IcmpError(probe, how, fields, quotation) ==
  [form |-> "icmp", type |-> TypeCode(how), quote |->
     Quoted(Rewritten(Image(probe), fields), quotation)]

EchoReply(probe) ==
  [form |-> "icmp", type |-> <<0, 0>>, quote |-> Image(probe)]

(* A SYN-ACK or RST-ACK acknowledges the sequence plus one, from the port  *)
(* probed to the port it was probed from.                                  *)
Segment(probe, flags) ==
  [form |-> "tcp", flags |-> flags, sport |-> "target", dport |-> probe.flow.port,
   ack |-> Successor(ProbeSequence(probe))]

DirectReplies(probe, how) ==
  CASE probe.flow.proto = "icmp" /\ how = "direct" -> {EchoReply(probe)}
    [] probe.flow.proto = "tcp" /\ how = "direct" ->
         {Segment(probe, f) : f \in {{"ack", "syn"}, {"ack"}}}
    [] probe.flow.proto = "tcp" /\ how = "rst" ->
         {Segment(probe, f) : f \in {{"ack", "rst"}, {"rst"}}}
    [] OTHER -> {}

(* What a reply says, by how its sender came to send it.                   *)
Meaning(how, proto) ==
  CASE how = "expired"  -> "time_exceeded"
    [] how = "port"     -> IF proto = "udp" THEN "destination" ELSE "unreachable"
    [] how = "filtered" -> "unreachable"
    [] how = "problem"  -> "other"
    [] how \in {"direct", "rst"} -> "destination"

(* Every packet that may come back for a probe: the wire image, the probe  *)
(* it answers, who sent it and what was rewritten.                         *)
RepliesTo(probe) ==
  LET ends == IF probe.ttl \in DOMAIN Network THEN Network[probe.ttl] ELSE {}
      packet(wire, end, fields) ==
        [wire |-> wire, who |-> end.who, how |-> end.how,
         cause |-> probe, altered |-> fields]
  IN  UNION {
        IF end.how \in {"direct", "rst"}
        THEN {packet(w, end, {}) : w \in DirectReplies(probe, end.how)}
        ELSE {packet(IcmpError(probe, end.how, fields, q), end, fields) :
                fields \in Rewritings, q \in Quotations} : end \in ends}
=============================================================================
