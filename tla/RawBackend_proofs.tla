-------------------------- MODULE RawBackend_proofs --------------------------
(***************************************************************************)
(* What tracing a packet back to a probe establishes: the packet answers   *)
(* the probe whose id it yields, unless the method used admits a           *)
(* coincidence.  And the raw backend, of which BackendInv is an inductive  *)
(* invariant.  From it follow, for every network, every rewriting and      *)
(* every order of arrival: type correctness, and that the backend keeps    *)
(* the contract of a batch which the controller relies on.                 *)
(***************************************************************************)
EXTENDS RawBackend, TLAPS

-----------------------------------------------------------------------------
(* 16-bit arithmetic.                                                      *)

(* Increment stays in range, moves, and Decrement takes it back.           *)
LEMMA IncrementMoves ==
  ASSUME NEW n \in Words
  PROVE  Increment(n) \in Words /\ Increment(n) # n /\ Decrement(Increment(n)) = n
BY WireAssumption DEF Words, Increment, Decrement

(* Acknowledging a sequence and taking it back yields the sequence.        *)
LEMMA PredecessorOfSuccessor ==
  ASSUME NEW a \in Words, NEW b \in Words
  PROVE  Predecessor(Successor(<<a, b>>)) = <<a, b>>
<1>1. CASE b + 1 < Word
  <2>1. Successor(<<a, b>>) = <<a, b + 1>>
    BY <1>1 DEF Successor
  <2>2. b \in Nat
    BY WireAssumption DEF Words
  <2>3. b + 1 > 0 /\ (b + 1) - 1 = b
    BY <2>2
  <2> QED BY <2>1, <2>3 DEF Predecessor
<1>2. CASE ~(b + 1 < Word)
  <2>1. b = Word - 1
    BY <1>2, WireAssumption DEF Words
  <2>2. Successor(<<a, b>>) = <<Increment(a), 0>>
    BY <1>2 DEF Successor
  <2>3. Predecessor(<<Increment(a), 0>>) = <<Decrement(Increment(a)), Word - 1>>
    BY DEF Predecessor
  <2> QED BY <2>1, <2>2, <2>3, IncrementMoves
<1> QED BY <1>1, <1>2

-----------------------------------------------------------------------------
(* The packets that answer a probe.                                        *)

(* The error a router sends about a probe it quotes.                       *)
Reported(p, probe, how) ==
  /\ how \in Ways \ {"direct", "rst"}
  /\ \E quotation \in Quotations : p.wire = IcmpError(probe, how, p.altered, quotation)

(* An answer of the target itself.                                         *)
Answered(p, probe, how) ==
  /\ how \in {"direct", "rst"}
  /\ p.altered = {}
  /\ p.wire \in DirectReplies(probe, how)

(* A reply is an error about the probe or an answer of its target.         *)
LEMMA ReplyShape ==
  ASSUME NEW probe, NEW p \in RepliesTo(probe)
  PROVE  /\ p.cause = probe /\ probe.ttl \in DOMAIN Network
         /\ \E end \in Network[probe.ttl] :
              p.who = end.who /\ (Reported(p, probe, end.how) \/ Answered(p, probe, end.how))
<1> DEFINE ends == IF probe.ttl \in DOMAIN Network THEN Network[probe.ttl] ELSE {}
           packet(wire, end, fields) ==
             [wire |-> wire, who |-> end.who, how |-> end.how,
              cause |-> probe, altered |-> fields]
           from(end) ==
             IF end.how \in {"direct", "rst"}
             THEN {packet(w, end, {}) : w \in DirectReplies(probe, end.how)}
             ELSE {packet(IcmpError(probe, end.how, fields, q), end, fields) :
                     fields \in Rewritings, q \in Quotations}
<1>1. PICK end \in ends : p \in from(end)
  BY DEF RepliesTo
<1>2. probe.ttl \in DOMAIN Network /\ end \in Network[probe.ttl]
  BY <1>1
<1>3. end.how \in Ways
  BY <1>2, WireAssumption
<1>4. CASE end.how \in {"direct", "rst"}
  <2>1. PICK w \in DirectReplies(probe, end.how) : p = packet(w, end, {})
    BY <1>1, <1>4
  <2>2. p.wire = w /\ p.who = end.who /\ p.cause = probe /\ p.altered = {}
    BY <2>1
  <2>3. Answered(p, probe, end.how)
    BY <1>4, <2>1, <2>2 DEF Answered
  <2> QED BY <1>2, <2>2, <2>3
<1>5. CASE end.how \notin {"direct", "rst"}
  <2>1. PICK fields \in Rewritings, q \in Quotations :
          p = packet(IcmpError(probe, end.how, fields, q), end, fields)
    BY <1>1, <1>5
  <2>2. /\ p.wire = IcmpError(probe, end.how, fields, q) /\ p.altered = fields
        /\ p.who = end.who /\ p.cause = probe
    BY <2>1
  <2>3. Reported(p, probe, end.how)
    BY <1>3, <1>5, <2>2 DEF Reported
  <2> QED BY <1>2, <2>2, <2>3
<1> QED BY <1>4, <1>5

(* What a quotation holds of a probe, field by field.                      *)
Quotes(q, probe, fields) ==
  /\ q.proto = probe.flow.proto
  /\ q.ipid = IF "ipid" \in fields THEN Increment(probe.id) ELSE probe.id
  /\ q.dst = IF "dst" \in fields THEN "elsewhere" ELSE "target"
  /\ q.dport = {} \/ q.dport =
       (IF "dport" \in fields THEN {"elsewhere"} ELSE {"target"})
  /\ q.port = {} \/ q.port =
       (IF "port" \in fields THEN {"elsewhere"} ELSE {probe.flow.port})
  /\ q.seq = {} \/ /\ probe.flow.proto = "tcp"
                   /\ q.seq = {IF "seq" \in fields
                               THEN <<Increment(probe.session[2]), probe.id>>
                               ELSE <<probe.session[2], probe.id>>}
  /\ q.tag = {} \/ /\ probe.flow.proto # "tcp"
                   /\ q.tag = {<<probe.session, probe.id>>}

(* An ICMP error quotes the probe it is about.                             *)
LEMMA QuoteFields ==
  ASSUME NEW probe, NEW how, NEW fields, NEW quotation
  PROVE  Quotes(IcmpError(probe, how, fields, quotation).quote, probe, fields)
<1> DEFINE image == Image(probe)
           seen == Rewritten(image, fields)
           q == Quoted(seen, quotation)
<1>1. IcmpError(probe, how, fields, quotation).quote = q
  BY DEF IcmpError
<1>2. /\ seen.proto = probe.flow.proto
      /\ seen.ipid = IF "ipid" \in fields THEN Increment(probe.id) ELSE probe.id
      /\ seen.dst = IF "dst" \in fields THEN "elsewhere" ELSE "target"
      /\ seen.dport = IF "dport" \in fields THEN {"elsewhere"} ELSE {"target"}
      /\ seen.port = IF "port" \in fields THEN {"elsewhere"} ELSE {probe.flow.port}
      /\ seen.tag = IF probe.flow.proto = "tcp" THEN {} ELSE {<<probe.session, probe.id>>}
  BY DEF Image, Rewritten
<1>3. seen.seq = IF probe.flow.proto = "tcp"
                 THEN {IF "seq" \in fields
                       THEN <<Increment(probe.session[2]), probe.id>>
                       ELSE <<probe.session[2], probe.id>>}
                 ELSE {}
  <2>1. image.seq = IF probe.flow.proto = "tcp"
                    THEN {<<probe.session[2], probe.id>>} ELSE {}
    BY DEF Image, ProbeSequence
  <2>2. seen.seq = IF "seq" \in fields
                   THEN {<<Increment(n[1]), n[2]>> : n \in image.seq} ELSE image.seq
    BY DEF Rewritten, Image
  <2>3. ASSUME NEW a, NEW b
        PROVE  {<<Increment(n[1]), n[2]>> : n \in {<<a, b>>}} = {<<Increment(a), b>>}
    OBVIOUS
  <2>4. {<<Increment(n[1]), n[2]>> : n \in {}} = {}
    OBVIOUS
  <2> HIDE DEF image, seen
  <2> QED BY <2>1, <2>2, <2>3, <2>4
<1>4. /\ q.proto = seen.proto /\ q.ipid = seen.ipid /\ q.dst = seen.dst
      /\ q.dport \in {{}, seen.dport} /\ q.port \in {{}, seen.port}
      /\ q.seq \in {{}, seen.seq} /\ q.tag \in {{}, seen.tag}
  BY DEF Quoted, Rewritten, Image
<1>5. Quotes(q, probe, fields)
  <2> HIDE DEF seen, q
  <2> QED BY <1>2, <1>3, <1>4 DEF Quotes
<1> QED BY <1>1, <1>5

(* The ICMP types a router's error carries are the ones the parser reads.  *)
LEMMA ErrorIsParsed ==
  ASSUME NEW probe, NEW how, NEW p, Reported(p, probe, how)
  PROVE  /\ Parse(p.wire) = ParseError(p.wire)
         /\ p.wire.type = TypeCode(how)
         /\ Quotes(p.wire.quote, probe, p.altered)
<1>1. PICK quotation \in Quotations :
        p.wire = IcmpError(probe, how, p.altered, quotation)
  BY DEF Reported
<1>2. p.wire.form = "icmp" /\ p.wire.type = TypeCode(how)
  BY <1>1 DEF IcmpError
<1>3. how \in {"expired", "port", "filtered", "problem"}
  BY DEF Reported, Ways
<1>4. TypeCode(how)[1] \in {3, 11, 12}
  BY <1>3 DEF TypeCode
<1>5. Parse(p.wire) = ParseError(p.wire)
  BY <1>2, <1>4 DEF Parse, ParseIcmp
<1>6. Quotes(p.wire.quote, probe, p.altered)
  BY <1>1, QuoteFields
<1> QED BY <1>2, <1>5, <1>6

(* The coincidences a correlation method admits: a stranger's probe or a   *)
(* rewritten one may share the identification, and TCP tells sessions by   *)
(* sixteen bits.                                                           *)
Coincidence(parsed, packet) ==
  LET stranger == packet.cause.session # Session
      namesake == packet.cause.session[2] = Session[2]
      method == MatchedBy(parsed, packet.wire)
  IN  \/ method = "ip_id+flow" /\ (stranger \/ "ipid" \in packet.altered)
      \/ method = "tcp_sequence" /\ stranger /\ (namesake \/ "seq" \in packet.altered)
      \/ method = "tcp_ack" /\ stranger /\ namesake

(* The answer of the target itself is traced to the probe it answers, or   *)
(* to one of a TCP session that shares our sixteen bits.                   *)
LEMMA AnswerAttribution ==
  ASSUME NEW probe, probe.session \in Words \X Words, probe.id \in Words,
         NEW how, NEW p, p.cause = probe, Answered(p, probe, how),
         NEW x \in Parse(p.wire)
  PROVE  /\ x.kind = "destination" /\ x.direct # "no"
         /\ \/ probe.session = Session /\ x.id = probe.id
            \/ Coincidence(x, p)
<1>1. CASE p.wire = EchoReply(probe) /\ probe.flow.proto = "icmp"
  <2>1. /\ p.wire.form = "icmp" /\ p.wire.type = <<0, 0>>
        /\ p.wire.quote = Image(probe)
    BY <1>1 DEF EchoReply
  <2>2. p.wire.quote.tag = {<<probe.session, probe.id>>}
    BY <1>1, <2>1 DEF Image
  <2>3. x \in ParseEchoReply(p.wire)
    BY <2>1 DEF Parse, ParseIcmp
  <2>4. PICK t \in p.wire.quote.tag :
          t[1] = Session /\ x = [id |-> t[2], kind |-> "destination", verified |-> TRUE,
                                 direct |-> "echo"]
    BY <2>3 DEF ParseEchoReply
  <2>5. t = <<probe.session, probe.id>>
    BY <2>2
  <2> QED BY <2>4, <2>5
<1>2. CASE \E flags : p.wire = Segment(probe, flags)
  <2>1. PICK flags : p.wire = Segment(probe, flags)
    BY <1>2
  <2>2. p.wire.form = "tcp" /\ p.wire.ack = Successor(<<probe.session[2], probe.id>>)
    BY <2>1 DEF Segment, ProbeSequence
  <2>3. Predecessor(p.wire.ack) = <<probe.session[2], probe.id>>
    BY <2>2, PredecessorOfSuccessor
  <2>4. x \in ParseTcp(p.wire)
    BY <2>2 DEF Parse
  <2>5. /\ probe.session[2] = Session[2]
        /\ x = [id |-> probe.id, kind |-> "destination", verified |-> TRUE,
                direct |-> "tcp"]
    BY <2>3, <2>4 DEF ParseTcp
  <2>6. MatchedBy(x, p.wire) = "tcp_ack"
    BY <2>5 DEF MatchedBy
  <2> QED BY <2>5, <2>6 DEF Coincidence
<1>3. \/ p.wire = EchoReply(probe) /\ probe.flow.proto = "icmp"
      \/ \E flags : p.wire = Segment(probe, flags)
  BY DEF Answered, DirectReplies
<1> QED BY <1>1, <1>2, <1>3

(* An error is traced to the probe its router saw, or its method admits    *)
(* the coincidence.                                                        *)
LEMMA ErrorAttribution ==
  ASSUME NEW probe, probe.session \in Words \X Words, probe.id \in Words,
         NEW how, NEW p, p.cause = probe, Reported(p, probe, how),
         NEW x \in Parse(p.wire)
  PROVE  /\ x.direct = "no"
         /\ x.kind = KindOfError(TypeCode(how), probe.flow.proto)
         /\ \/ probe.session = Session /\ x.id = probe.id
            \/ Coincidence(x, p)
<1> DEFINE q == p.wire.quote
           tagged == {t[2] : t \in {y \in q.tag : y[1] = Session}}
           sequenced == {n[2] : n \in {y \in q.seq : y[1] = Session[2]}}
           named == tagged \cup sequenced
           fields == p.altered
<1>1. Quotes(q, probe, fields)
  BY ErrorIsParsed
<1>2. /\ q.proto = probe.flow.proto
      /\ q.ipid = IF "ipid" \in fields THEN Increment(probe.id) ELSE probe.id
      /\ q.seq = {} \/ /\ probe.flow.proto = "tcp"
                       /\ q.seq = {IF "seq" \in fields
                                   THEN <<Increment(probe.session[2]), probe.id>>
                                   ELSE <<probe.session[2], probe.id>>}
      /\ q.tag = {} \/ /\ probe.flow.proto # "tcp"
                       /\ q.tag = {<<probe.session, probe.id>>}
  <2> HIDE DEF q, fields
  <2> QED BY <1>1 DEF Quotes
<1>3. /\ \A t \in q.tag : t[1] = Session
      /\ x = [id |-> IF named # {} THEN CHOOSE i \in named : TRUE ELSE q.ipid,
              kind |-> KindOfError(p.wire.type, q.proto), verified |-> named # {},
              direct |-> "no"]
  <2>1. x \in ParseError(p.wire)
    BY ErrorIsParsed
  <2> QED BY <2>1 DEF ParseError
<1>4. /\ x.direct = "no" /\ x.verified = (named # {})
      /\ x.id = IF named # {} THEN CHOOSE i \in named : TRUE ELSE q.ipid
      /\ x.kind = KindOfError(TypeCode(how), probe.flow.proto)
  BY <1>2, <1>3, ErrorIsParsed
<1>5. named \subseteq {probe.id}
  <2>1. tagged \subseteq {probe.id}
    BY <1>2
  <2>2. sequenced \subseteq {probe.id}
    BY <1>2
  <2> QED BY <2>1, <2>2
<1>6. CASE named # {}
  <2>1. named = {probe.id} /\ x.id = probe.id
    BY <1>4, <1>5, <1>6
  <2>2. CASE probe.session = Session
    BY <2>1, <2>2, <1>4
  <2>3. CASE probe.session # Session
    <3>1. q.tag = {}
      BY <1>2, <1>3, <2>3
    <3>2. q.seq # {} /\ probe.flow.proto = "tcp"
      BY <1>2, <1>6, <3>1
    <3>3. probe.session[2] = Session[2] \/ "seq" \in fields
      BY <1>2, <1>6, <3>1, <3>2
    <3>4. MatchedBy(x, p.wire) = "tcp_sequence"
      BY <1>2, <1>4, <1>6, <3>2 DEF MatchedBy
    <3>5. p.cause.session # Session
      BY <2>3
    <3> HIDE DEF named
    <3> QED BY <1>4, <3>3, <3>4, <3>5 DEF Coincidence
  <2> QED BY <2>2, <2>3
<1>7. CASE named = {}
  <2>1. MatchedBy(x, p.wire) = "ip_id+flow"
    BY <1>4, <1>7 DEF MatchedBy
  <2>2. CASE probe.session = Session /\ "ipid" \notin fields
    <3>1. x.id = probe.id
      BY <1>2, <1>4, <1>7, <2>2
    <3> QED BY <1>4, <2>2, <3>1
  <2>3. CASE probe.session # Session \/ "ipid" \in fields
    BY <1>4, <2>1, <2>3 DEF Coincidence
  <2> QED BY <2>2, <2>3
<1> QED BY <1>6, <1>7

-----------------------------------------------------------------------------
(* What is kept of a reply: it says what the network said of the probe,    *)
(* and invents no rewrite.                                                 *)
THEOREM EvidenceMeaning ==
  ASSUME NEW probe, probe.session \in Words \X Words, probe.id \in Words,
         NEW p \in RepliesTo(probe), NEW x \in Parse(p.wire)
  PROVE  /\ probe.ttl \in DOMAIN Network
         /\ \E end \in Network[probe.ttl] :
              p.who = end.who /\ x.kind = Meaning(end.how, probe.flow.proto)
         /\ Mutations(x, p.wire, probe) \subseteq p.altered
         /\ \/ probe.session = Session /\ x.id = probe.id
            \/ Coincidence(x, p)
<1>1. p.cause = probe /\ probe.ttl \in DOMAIN Network
  BY ReplyShape
<1>2. PICK end \in Network[probe.ttl] :
        p.who = end.who /\ (Reported(p, probe, end.how) \/ Answered(p, probe, end.how))
  BY ReplyShape
<1>3. CASE Answered(p, probe, end.how)
  <2>1. /\ x.kind = "destination" /\ x.direct # "no"
        /\ \/ probe.session = Session /\ x.id = probe.id
           \/ Coincidence(x, p)
    BY <1>1, <1>3, AnswerAttribution
  <2>2. Meaning(end.how, probe.flow.proto) = "destination"
    BY <1>3 DEF Answered, Meaning
  <2>3. Mutations(x, p.wire, probe) = {}
    BY <2>1 DEF Mutations
  <2> QED BY <1>1, <1>2, <2>1, <2>2, <2>3
<1>4. CASE Reported(p, probe, end.how)
  <2>1. /\ x.direct = "no"
        /\ x.kind = KindOfError(TypeCode(end.how), probe.flow.proto)
        /\ \/ probe.session = Session /\ x.id = probe.id
           \/ Coincidence(x, p)
    BY <1>1, <1>4, ErrorAttribution
  <2>2. KindOfError(TypeCode(end.how), probe.flow.proto) = Meaning(end.how, probe.flow.proto)
    <3>1. end.how \in {"expired", "port", "filtered", "problem"}
      BY <1>4 DEF Reported, Ways
    <3>2. CASE end.how = "expired"
      BY <3>2 DEF KindOfError, TypeCode, Meaning
    <3>3. CASE end.how = "port"
      BY <3>3 DEF KindOfError, TypeCode, Meaning
    <3>4. CASE end.how = "filtered"
      BY <3>4 DEF KindOfError, TypeCode, Meaning
    <3>5. CASE end.how = "problem"
      BY <3>5 DEF KindOfError, TypeCode, Meaning
    <3> QED BY <3>1, <3>2, <3>3, <3>4, <3>5
  <2>3. Mutations(x, p.wire, probe) \subseteq p.altered
    <3>1. Quotes(p.wire.quote, probe, p.altered)
      BY <1>4, ErrorIsParsed
    <3> QED BY <3>1 DEF Quotes, Mutations, ProbeSequence
  <2> QED BY <1>1, <1>2, <2>1, <2>2, <2>3
<1> QED BY <1>2, <1>3, <1>4

-----------------------------------------------------------------------------
(* Ids.                                                                    *)

(* The next id is an id.                                                   *)
LEMMA FollowingIsId ==
  ASSUME nextId \in ProbeIds
  PROVE  FollowingId(nextId) \in ProbeIds
BY WireAssumption DEF ProbeIds, FollowingId

(* Taking the next id ages every other by one.                             *)
LEMMA IdAges ==
  ASSUME NEW id \in ProbeIds
  PROVE  /\ IdBehind(FollowingId(id), 1) = id
         /\ \A age \in 1..(Word - 2) :
              IdBehind(FollowingId(id), age + 1) = IdBehind(id, age)
BY WireAssumption DEF ProbeIds, FollowingId, IdBehind

(* Probes that may still be answered have different ids.                   *)
LEMMA IdsDistinct ==
  ASSUME BackendTypeOK, FlyingOurs, pc # "failed",
         NEW p \in flying, NEW q \in flying, p.id = q.id
  PROVE  p = q
<1>1. /\ probeCount \in Nat /\ nextId \in 1..(Word - 1) /\ Word \in Nat
      /\ Lifetime \in Nat /\ Lifetime < Word
  BY WireAssumption, BatchAssumption DEF BackendTypeOK, ProbeIds
<1> DEFINE a == probeCount + 1 - p.serial
           b == probeCount + 1 - q.serial
<1>2. p.serial \in 1..probeCount /\ q.serial \in 1..probeCount
  BY DEF FlyingOurs
<1>3. a \in 1..(Word - 1) /\ b \in 1..(Word - 1)
  BY <1>1, <1>2 DEF FlyingOurs
<1>4. IdBehind(nextId, a) = IdBehind(nextId, b)
  BY DEF FlyingOurs
<1>5. a = b
  <2> HIDE DEF a, b
  <2> QED BY <1>1, <1>3, <1>4 DEF IdBehind
<1>6. p.serial = q.serial
  BY <1>1, <1>2, <1>5
<1> QED BY <1>6 DEF FlyingOurs

-----------------------------------------------------------------------------
(* One packet.                                                             *)

(* What the loop keeps of a packet from one of its probes or a stranger's. *)
LEMMA HandledTruthful ==
  ASSUME BackendInv, pc = "read",
         NEW socket, NEW packet \in Arriving(socket),
         NEW i \in 1..Len(outstanding), outstanding[i].id \in DOMAIN Handled(packet)
  PROVE  Contract!Truthful(Handled(packet)[outstanding[i].id],
                           probeCount - Len(outstanding), i, specs)
<1> DEFINE hits == {x \in Parse(packet.wire) \X DOMAIN outstanding :
                      x[2] \in Answerable(x[1], packet.wire)}
           id == outstanding[i].id
           before == probeCount - Len(outstanding)
<1>1. DOMAIN outstanding = 1..Len(outstanding) /\ outstanding \in Seq(flying)
  BY DEF BackendInv, BatchInOrder
<1>2. CASE hits = {}
  <2>1. Handled(packet) = observations
    BY <1>2 DEF Handled
  <2> QED BY <2>1 DEF BackendInv, KeptTruthful
<1>3. CASE hits # {}
  <2> DEFINE x == (CHOOSE h \in hits : TRUE)
             j == x[2]
             kept == Evidence(x[1], packet, outstanding[j])
  <2>1. x \in hits
    BY <1>3
  <2>2. /\ x[1] \in Parse(packet.wire) /\ j \in 1..Len(outstanding)
        /\ j \in Answerable(x[1], packet.wire)
    BY <1>1, <2>1
  <2>3. outstanding[j].id = x[1].id
    BY <2>2 DEF Answerable
  <2>4. Handled(packet) = [k \in DOMAIN observations \cup {x[1].id} |->
                             IF k = x[1].id THEN kept ELSE observations[k]]
    BY <1>3 DEF Handled
  <2> HIDE DEF hits, x
  <2>5. CASE id # x[1].id
    <3>1. id \in DOMAIN observations /\ Handled(packet)[id] = observations[id]
      BY <2>4, <2>5
    <3> QED BY <3>1 DEF BackendInv, KeptTruthful
  <2>6. CASE id = x[1].id
    <3>1. Handled(packet)[id] = kept
      BY <2>4, <2>6
    <3>2. outstanding[i] \in flying /\ outstanding[j] \in flying
      BY <1>1, <2>2
    <3>3. outstanding[i] = outstanding[j]
      BY <2>3, <2>6, <3>2, IdsDistinct DEF BackendInv
    <3>4. PICK cause \in flying \cup Strangers : packet \in RepliesTo(cause)
      BY DEF Arriving
    <3>5. packet.cause = cause
      BY <3>4, ReplyShape
    <3>6. cause.session \in Words \X Words /\ cause.id \in Words
      BY <3>4, StrangerAssumption, WireAssumption DEF BackendInv, FlyingOurs, ProbeIds, Words
    <3>7. /\ cause.ttl \in DOMAIN Network
          /\ \E end \in Network[cause.ttl] :
               packet.who = end.who /\ x[1].kind = Meaning(end.how, cause.flow.proto)
          /\ Mutations(x[1], packet.wire, cause) \subseteq packet.altered
          /\ \/ cause.session = Session /\ x[1].id = cause.id
             \/ Coincidence(x[1], packet)
      BY <2>2, <3>4, <3>6, EvidenceMeaning
    <3>8. /\ kept.kind = x[1].kind /\ kept.who = packet.who
          /\ kept.mut = Mutations(x[1], packet.wire, outstanding[j])
          /\ kept.matched = MatchedBy(x[1], packet.wire)
          /\ kept.cause = packet.cause /\ kept.altered = packet.altered
      BY DEF Evidence
    <3> HIDE DEF kept
    <3>9. CASE Coincidence(x[1], packet)
      <4>1. Contract!Chance(kept)
        BY <3>8, <3>9 DEF Coincidence, Contract!Chance
      <4> QED BY <3>1, <4>1 DEF Contract!Truthful
    <3>10. CASE cause.session = Session /\ x[1].id = cause.id
      <4>1. cause \in flying
        BY <3>4, <3>10, StrangerAssumption
      <4>2. cause = outstanding[i]
        BY <2>6, <3>2, <3>10, <4>1, IdsDistinct DEF BackendInv
      <4>3. /\ cause.serial = before + i /\ cause.ttl = specs[i].ttl
            /\ cause.flow = specs[i].flow
        BY <4>2 DEF BackendInv, BatchInOrder
      <4>4. \E end \in Network[specs[i].ttl] :
              kept.who = end.who /\ kept.kind = Contract!Meaning(end.how, specs[i].flow.proto)
        BY <3>7, <3>8, <4>3 DEF Meaning, Contract!Meaning
      <4>5. kept.mut \subseteq kept.altered
        BY <3>3, <3>7, <3>8, <4>2
      <4>6. Contract!Genuine(kept, before + i, specs[i])
        BY <3>5, <3>8, <3>10, <4>3, <4>4, <4>5 DEF Contract!Genuine
      <4> QED BY <3>1, <4>6 DEF Contract!Truthful
    <3> QED BY <3>7, <3>9, <3>10
  <2> QED BY <2>5, <2>6
<1> QED BY <1>2, <1>3

-----------------------------------------------------------------------------
(* Each step keeps BackendInv.                                             *)

(* A batch that has not begun is empty.                                    *)
LEMMA NothingKept ==
  /\ DOMAIN NoEvidence = {}
  /\ Len(<<>>) = 0 /\ DOMAIN <<>> = {}
BY DEF NoEvidence

(* The backend starts with nothing sent.                                   *)
LEMMA InitiallyInv == Init => BackendInv
<1> SUFFICES ASSUME Init PROVE BackendInv
  OBVIOUS
<1>1. BackendTypeOK
  <2>1. announced \in BOOLEAN
    <3>1. CASE protocol = "tcp"
      BY <3>1 DEF Init
    <3>2. CASE protocol # "tcp"
      BY <3>2 DEF Init
    <3> QED BY <3>1, <3>2
  <2>2. nextId \in ProbeIds
    BY WireAssumption DEF Init, ProbeIds
  <2>3. late \in BOOLEAN
    BY DEF Init
  <2> QED BY <2>1, <2>2, <2>3, NothingKept DEF Init, BackendTypeOK
<1>2. FlyingOurs
  BY DEF Init, FlyingOurs
<1>3. BatchInOrder
  BY DEF Init, BatchInOrder
<1>4. KeptTruthful
  BY DEF Init, KeptTruthful
<1> QED BY <1>1, <1>2, <1>3, <1>4 DEF BackendInv

(* An exception empties the batch.                                         *)
LEMMA RaiseKeepsInv ==
  ASSUME BackendInv, NEW exception, Raise(exception),
         exception \in {"PrivilegeError", "BackendError", "AssertionError", "OSError",
                       "KeyboardInterrupt"},
         protocol' = protocol, announced' = announced, probeCount' = probeCount,
         flying' = flying, nextId' \in ProbeIds,
         sockets' \subseteq {"send", "icmp", "tcp"}
  PROVE  BackendInv'
<1>1. BackendTypeOK'
  <2>1. late' \in BOOLEAN
    BY DEF Raise
  <2> QED BY <2>1, NothingKept DEF BackendInv, BackendTypeOK, Raise
<1>2. FlyingOurs'
  BY DEF BackendInv, FlyingOurs, Raise
<1>3. BatchInOrder'
  BY DEF BackendInv, BackendTypeOK, BatchInOrder, Raise
<1>4. KeptTruthful'
  BY DEF KeptTruthful, Raise
<1> QED BY <1>1, <1>2, <1>3, <1>4 DEF BackendInv

(* Steps that neither send nor keep a reply.                               *)
LEMMA QuietKeepsInv ==
  ASSUME BackendInv, UNCHANGED <<protocol, announced, error, sending, specs, outstanding,
                                 observations>>,
         sockets' \subseteq {"send", "icmp", "tcp"}, late' \in BOOLEAN,
         readable' \subseteq {"icmp", "tcp"},
         pc' \in {"opening", "idle", "wait", "read"}, pc \notin {"failed", "send"}
  PROVE  BackendInv'
<1>1. BackendTypeOK'
  BY DEF BackendInv, BackendTypeOK, sending
<1>2. FlyingOurs'
  BY DEF BackendInv, FlyingOurs, sending, IdBehind
<1>3. BatchInOrder'
  BY DEF BackendInv, BatchInOrder, sending
<1>4. KeptTruthful'
  BY DEF BackendInv, KeptTruthful, sending, Contract!Truthful, Contract!Genuine
<1> QED BY <1>1, <1>2, <1>3, <1>4 DEF BackendInv

(* Closing touches no batch.                                               *)
LEMMA CloseKeepsInv == BackendInv /\ Close => BackendInv'
<1> SUFFICES ASSUME BackendInv, Close PROVE BackendInv'
  OBVIOUS
<1>1. BackendTypeOK'
  BY DEF BackendInv, BackendTypeOK, Close, sending, batch
<1>2. FlyingOurs'
  BY DEF BackendInv, FlyingOurs, Close, sending, IdBehind
<1>3. BatchInOrder'
  BY DEF BackendInv, BatchInOrder, Close, sending, batch
<1>4. KeptTruthful'
  BY DEF BackendInv, KeptTruthful, Close, sending, batch, Contract!Truthful, Contract!Genuine
<1> QED BY <1>1, <1>2, <1>3, <1>4 DEF BackendInv

(* A new batch starts empty.                                               *)
LEMMA AskKeepsInv ==
  ASSUME BackendInv, NEW b \in Batches, Ask(b)
  PROVE  BackendInv'
<1>1. BackendTypeOK'
  <2>1. b \in Seq(SpecShape) /\ Len(b) \in Nat
    BY BatchAssumption
  <2>2. sockets' \subseteq {"send", "icmp", "tcp"}
    BY DEF BackendInv, BackendTypeOK, Ask
  <2>3. late' \in BOOLEAN
    BY DEF Ask
  <2> QED BY <2>1, <2>2, <2>3, NothingKept DEF BackendInv, BackendTypeOK, Ask, sending
<1>2. FlyingOurs'
  BY DEF BackendInv, FlyingOurs, Ask, sending, IdBehind
<1>3. BatchInOrder'
  <2>1. b \in Seq(SpecShape) /\ Len(b) \in Nat /\ Len(b) > 0
    BY BatchAssumption DEF Ask
  <2>2. probeCount \in Nat
    BY DEF BackendInv, BackendTypeOK
  <2> QED BY <2>1, <2>2 DEF BatchInOrder, Ask, sending, NoEvidence
<1>4. KeptTruthful'
  BY DEF KeptTruthful, Ask
<1> QED BY <1>1, <1>2, <1>3, <1>4 DEF BackendInv

(* A probe joins those in flight under an id of its own.                   *)
LEMMA SendKeepsInv == BackendInv /\ SendProbe => BackendInv'
<1> SUFFICES ASSUME BackendInv, SendProbe PROVE BackendInv'
  OBVIOUS
<1> DEFINE n == Len(outstanding)
           probe == Probe(Session, probeCount + 1, nextId, specs[n + 1])
<1>1. /\ probeCount \in Nat /\ nextId \in ProbeIds
      /\ Lifetime \in Nat /\ Lifetime < Word /\ Word \in Nat /\ Word > 2
  BY WireAssumption, BatchAssumption DEF BackendInv, BackendTypeOK
<1>2. /\ specs \in Seq(SpecShape) /\ Len(specs) \in Nat /\ Len(specs) <= Lifetime
  <2>1. specs \in Batches \cup {<<>>}
    BY DEF BackendInv, BackendTypeOK
  <2>2. CASE specs \in Batches
    BY <2>2, BatchAssumption
  <2>3. CASE specs = <<>>
    BY <2>3, NothingKept, BatchAssumption
  <2> QED BY <2>1, <2>2, <2>3
<1>3. /\ outstanding \in Seq(flying) /\ n \in Nat /\ n < Len(specs) /\ n <= probeCount
      /\ DOMAIN observations = {}
  BY DEF BackendInv, BatchInOrder, SendProbe
<1>4. /\ probe.session = Session /\ probe.serial = probeCount + 1 /\ probe.id = nextId
      /\ probe.ttl = specs[n + 1].ttl /\ probe.flow = specs[n + 1].flow
  BY DEF Probe
<1>5. /\ pc = "send" /\ outstanding' = Append(outstanding, probe)
      /\ flying' = Alive(flying \cup {probe}, probeCount + 1)
      /\ probeCount' = probeCount + 1 /\ nextId' = FollowingId(nextId)
      /\ pc' = (IF Len(outstanding') = Len(specs) THEN "wait" ELSE "send")
      /\ UNCHANGED <<lifecycle, specs, observations, late, readable, result>>
  BY DEF SendProbe
<1> HIDE DEF probe
<1>6. /\ Len(outstanding') = n + 1
      /\ \A i \in 1..n : outstanding'[i] = outstanding[i]
      /\ outstanding'[n + 1] = probe
      /\ DOMAIN outstanding' = 1..(n + 1)
  BY <1>3, <1>5
<1>7. BackendTypeOK'
  <2>1. nextId' \in ProbeIds
    BY <1>1, <1>5, FollowingIsId
  <2> QED BY <1>1, <1>2, <1>3, <1>5, <1>6, <2>1
          DEF BackendInv, BackendTypeOK, lifecycle
<1>8. FlyingOurs'
  <2>1. /\ probeCount' = probeCount + 1 /\ nextId' = FollowingId(nextId)
        /\ flying' = {r \in flying \cup {probe} : (probeCount + 1) - r.serial < Lifetime}
    BY <1>5 DEF Alive
  <2>2. \A r \in flying : /\ r.serial \in 1..probeCount /\ r.session = Session
                          /\ r.id \in ProbeIds
                          /\ r.id = IdBehind(nextId, probeCount + 1 - r.serial)
                          /\ \A q \in flying : r.serial = q.serial => r = q
    BY <1>5 DEF BackendInv, FlyingOurs
  <2>3. ASSUME NEW p \in flying'
        PROVE  /\ p.session = Session /\ p.id \in ProbeIds
               /\ p.serial \in 1..(probeCount + 1)
               /\ (probeCount + 1) - p.serial < Lifetime
    BY <1>1, <1>4, <2>1, <2>2
  <2>4. ASSUME NEW p \in flying', NEW q \in flying', p.serial = q.serial
        PROVE  p = q
    BY <1>1, <1>4, <2>1, <2>2, <2>4
  <2>5. ASSUME NEW p \in flying'
        PROVE  p.id = IdBehind(nextId', (probeCount + 1) + 1 - p.serial)
    <3>1. CASE p = probe
      <4>1. (probeCount + 1) + 1 - p.serial = 1
        BY <1>1, <1>4, <3>1
      <4> QED BY <1>1, <1>4, <2>1, <3>1, <4>1, IdAges
    <3>2. CASE p \in flying
      <4> DEFINE age == probeCount + 1 - p.serial
      <4>1. age \in 1..(Word - 2) /\ (probeCount + 1) + 1 - p.serial = age + 1
        BY <1>1, <2>2, <2>3, <3>2
      <4>2. p.id = IdBehind(nextId, age)
        BY <2>2, <3>2
      <4> HIDE DEF age
      <4> QED BY <1>1, <2>1, <4>1, <4>2, IdAges
    <3> QED BY <2>1, <3>1, <3>2
  <2> QED BY <2>1, <2>3, <2>4, <2>5 DEF FlyingOurs
<1>9. BatchInOrder'
  <2>1. \A i \in 1..(n + 1) :
          /\ outstanding'[i] \in flying'
          /\ outstanding'[i].serial = (probeCount' - (n + 1)) + i
          /\ outstanding'[i].ttl = specs[i].ttl /\ outstanding'[i].flow = specs[i].flow
    <3> TAKE i \in 1..(n + 1)
    <3>1. CASE i = n + 1
      BY <1>1, <1>2, <1>3, <1>4, <1>5, <1>6, <3>1 DEF Alive
    <3>2. CASE i \in 1..n
      <4>1. /\ outstanding[i] \in flying
            /\ outstanding[i].serial = (probeCount - n) + i
            /\ outstanding[i].ttl = specs[i].ttl /\ outstanding[i].flow = specs[i].flow
        BY <1>3, <3>2 DEF BackendInv, BatchInOrder
      <4>2. probeCount + 1 - outstanding[i].serial < Lifetime
        BY <1>1, <1>2, <1>3, <3>2, <4>1
      <4> QED BY <1>1, <1>3, <1>5, <1>6, <3>2, <4>1, <4>2 DEF Alive
    <3> QED BY <1>3, <3>1, <3>2
  <2>2. outstanding' \in Seq(flying')
    <3>1. outstanding' \in Seq(flying \cup {probe})
      BY <1>3, <1>5
    <3> QED BY <1>3, <1>6, <2>1, <3>1
  <2> QED BY <1>1, <1>2, <1>3, <1>5, <1>6, <2>1, <2>2 DEF BatchInOrder
<1>10. KeptTruthful'
  BY <1>3, <1>5 DEF KeptTruthful
<1> QED BY <1>7, <1>8, <1>9, <1>10 DEF BackendInv

(* A packet is kept for the probe it answers or not at all.                *)
LEMMA ReceiveKeepsInv == BackendInv /\ Receive => BackendInv'
<1> SUFFICES ASSUME BackendInv, Receive PROVE BackendInv'
  OBVIOUS
<1>1. /\ pc = "read" /\ pc' \in {"wait", "read"} /\ readable' \subseteq readable
      /\ UNCHANGED <<lifecycle, sending, specs, outstanding, late, result>>
      /\ \/ UNCHANGED observations
         \/ \E socket : \E packet \in Arriving(socket) : observations' = Handled(packet)
  BY DEF Receive
<1>2. CASE UNCHANGED observations
  BY <1>1, <1>2, QuietKeepsInv DEF lifecycle, BackendInv, BackendTypeOK
<1>3. CASE \E socket : \E packet \in Arriving(socket) : observations' = Handled(packet)
  <2>1. PICK socket : \E packet \in Arriving(socket) : observations' = Handled(packet)
    BY <1>3
  <2>2. PICK packet \in Arriving(socket) : observations' = Handled(packet)
    BY <2>1
  <2>3. DOMAIN Handled(packet) \subseteq {outstanding[i].id : i \in DOMAIN outstanding}
    <3> DEFINE hits == {x \in Parse(packet.wire) \X DOMAIN outstanding :
                          x[2] \in Answerable(x[1], packet.wire)}
               x == CHOOSE h \in hits : TRUE
    <3>1. CASE hits = {}
      BY <3>1 DEF Handled, BackendInv, BackendTypeOK
    <3>2. CASE hits # {}
      <4>1. x \in hits
        BY <3>2
      <4>2. x[2] \in DOMAIN outstanding /\ outstanding[x[2]].id = x[1].id
        BY <4>1 DEF Answerable
      <4>3. DOMAIN Handled(packet) = DOMAIN observations \cup {x[1].id}
        BY <3>2 DEF Handled
      <4> HIDE DEF x, hits
      <4> QED BY <4>2, <4>3 DEF BackendInv, BackendTypeOK
    <3> QED BY <3>1, <3>2
  <2>4. BackendTypeOK'
    BY <1>1, <2>2, <2>3 DEF BackendInv, BackendTypeOK, lifecycle, sending
  <2>5. FlyingOurs'
    BY <1>1 DEF BackendInv, FlyingOurs, sending, IdBehind
  <2>6. BatchInOrder'
    BY <1>1 DEF BackendInv, BatchInOrder, sending
  <2>7. KeptTruthful'
    <3>1. \A i \in 1..Len(outstanding) :
            outstanding[i].id \in DOMAIN Handled(packet) =>
              Contract!Truthful(Handled(packet)[outstanding[i].id],
                                probeCount - Len(outstanding), i, specs)
      BY <1>1, HandledTruthful
    <3> QED BY <1>1, <2>2, <3>1
            DEF KeptTruthful, sending, Contract!Truthful, Contract!Genuine
  <2> QED BY <2>4, <2>5, <2>6, <2>7 DEF BackendInv
<1> QED BY <1>1, <1>2, <1>3

(* Every step of the backend keeps BackendInv.                             *)
LEMMA StepKeepsInv == BackendInv /\ [Next]_backendVars => BackendInv'
<1> SUFFICES ASSUME BackendInv, [Next]_backendVars PROVE BackendInv'
  OBVIOUS
<1>1. /\ sockets \subseteq {"send", "icmp", "tcp"} /\ readable \subseteq {"icmp", "tcp"}
      /\ nextId \in ProbeIds /\ late \in BOOLEAN
      /\ pc \in {"opening", "idle", "send", "wait", "read", "failed"}
  BY DEF BackendInv, BackendTypeOK
<1>2. CASE OpenSocket
  <2>1. sockets' \subseteq {"send", "icmp", "tcp"} /\ pc' \in {"opening", "idle"}
    BY <1>1, <1>2 DEF OpenSocket
  <2> QED BY <1>1, <1>2, <2>1, QuietKeepsInv DEF OpenSocket, batch
<1>3. CASE OpenFails
  <2>1. PICK e \in {"PrivilegeError", "BackendError"} : Raise(e)
    BY <1>3 DEF OpenFails
  <2> QED BY <1>1, <1>3, <2>1, RaiseKeepsInv DEF OpenFails, sending
<1>4. CASE Close
  BY <1>4, CloseKeepsInv
<1>5. CASE \E b \in Batches : Ask(b)
  BY <1>5, AskKeepsInv
<1>6. CASE LateSocketFails
  BY <1>1, <1>6, RaiseKeepsInv DEF LateSocketFails, sending
<1>7. CASE SendProbe
  BY <1>7, SendKeepsInv
<1>8. CASE SendFails
  <2>1. nextId' \in ProbeIds
    BY <1>1, <1>8, FollowingIsId DEF SendFails
  <2>2. PICK e \in {"BackendError", "AssertionError"} : Raise(e)
    BY <1>8 DEF SendFails
  <2> QED BY <1>1, <1>8, <2>1, <2>2, RaiseKeepsInv DEF SendFails
<1>9. CASE TimePasses
  BY <1>1, <1>9, QuietKeepsInv DEF TimePasses, lifecycle
<1>10. CASE Select
  <2>1. readable' \subseteq {"icmp", "tcp"}
    BY <1>1, <1>10 DEF Select
  <2> QED BY <1>1, <1>10, <2>1, QuietKeepsInv DEF Select, lifecycle
<1>11. CASE Receive
  BY <1>11, ReceiveKeepsInv
<1>12. CASE Finish
  <2>1. late' \in BOOLEAN
    BY <1>12 DEF Finish
  <2> QED BY <1>1, <1>12, <2>1, QuietKeepsInv DEF Finish, lifecycle
<1>13. CASE ReceiveFails
  BY <1>1, <1>13, RaiseKeepsInv DEF ReceiveFails, sending
<1>14. CASE Interrupted
  BY <1>1, <1>14, RaiseKeepsInv DEF Interrupted, sending
<1>15. CASE UNCHANGED backendVars
  <2>1. BackendTypeOK'
    BY <1>15 DEF BackendInv, BackendTypeOK, backendVars, lifecycle, sending, batch
  <2>2. FlyingOurs'
    BY <1>15 DEF BackendInv, FlyingOurs, backendVars, sending, IdBehind
  <2>3. BatchInOrder'
    BY <1>15 DEF BackendInv, BatchInOrder, backendVars, sending, batch
  <2>4. KeptTruthful'
    BY <1>15 DEF BackendInv, KeptTruthful, backendVars, sending, batch,
       Contract!Truthful, Contract!Genuine
  <2> QED BY <2>1, <2>2, <2>3, <2>4 DEF BackendInv
<1> QED BY <1>2, <1>3, <1>4, <1>5, <1>6, <1>7, <1>8, <1>9, <1>10, <1>11, <1>12, <1>13,
           <1>14, <1>15 DEF Next, Deliver

(* BackendInv holds in every run.                                          *)
LEMMA InvAlways == Spec => []BackendInv
BY InitiallyInv, StepKeepsInv, PTL DEF Spec

(* In every run of the backend each variable keeps its shape, whatever     *)
(* arrives and whatever fails (backend.py:97-367).                         *)
THEOREM BackendTypeCorrect == Spec => []BackendTypeOK
<1>1. BackendInv => BackendTypeOK
  BY DEF BackendInv
<1> QED BY <1>1, InvAlways, PTL

-----------------------------------------------------------------------------
(* The contract.                                                           *)

(* A backend starts as the contract does.                                  *)
LEMMA InitialContract == Init => Contract!AbstractInit
<1> SUFFICES ASSUME Init PROVE Contract!AbstractInit
  OBVIOUS
<1>1. probeCount = 0
  BY DEF Init
<1>2. Len(outstanding) = 0
  BY NothingKept DEF Init
<1>3. probeCount - Len(outstanding) = 0
  BY <1>1, <1>2
<1> QED BY <1>3 DEF Init, Contract!AbstractInit

(* An exception breaks the contract off, at any stage but the last.        *)
LEMMA RaiseBreaks ==
  ASSUME BackendInv, NEW exception, Raise(exception), pc # "failed"
  PROVE  Contract!AbstractNext
<1>1. Contract!Break
  BY DEF Raise, Contract!Break, BackendInv, BackendTypeOK
<1> QED BY <1>1 DEF Contract!AbstractNext

(* Asking a batch of the backend asks one of the contract.                 *)
LEMMA AskAsks ==
  ASSUME BackendInv, NEW b \in Batches, Ask(b)
  PROVE  Contract!AbstractNext
<1>1. /\ pc = "idle" /\ pc' = "send" /\ specs' = b /\ b # <<>>
      /\ result' = <<>> /\ outstanding' = <<>> /\ probeCount' = probeCount
  BY DEF Ask, sending
<1>2. probeCount \in Nat /\ Len(outstanding) = Len(specs) /\ Len(outstanding) \in Nat
  BY <1>1 DEF BackendInv, BackendTypeOK, BatchInOrder
<1>3. probeCount' - Len(outstanding') = (probeCount - Len(outstanding)) + Len(specs)
  BY <1>1, <1>2, NothingKept
<1>4. Contract!Ask
  BY <1>1, <1>3 DEF Contract!Ask
<1> QED BY <1>4 DEF Contract!AbstractNext

(* A finished batch is what the contract returns.                          *)
LEMMA FinishReturns ==
  ASSUME BackendInv, Finish
  PROVE  Contract!AbstractNext
<1>1. /\ pc = "wait" /\ pc' = "idle"
      /\ UNCHANGED <<probeCount, specs, outstanding, observations>>
      /\ result' = [i \in DOMAIN outstanding |->
                      IF outstanding[i].id \in DOMAIN observations
                      THEN observations[outstanding[i].id] ELSE NoReply]
  BY DEF Finish, sending
<1>2. /\ outstanding \in Seq(flying) /\ Len(outstanding) \in Nat
      /\ DOMAIN outstanding = 1..Len(outstanding) /\ Len(outstanding) = Len(specs)
  BY <1>1 DEF BackendInv, BatchInOrder
<1>3. Len(result') = Len(specs) /\ DOMAIN result' = 1..Len(outstanding)
  BY <1>1, <1>2
<1>4. \A i \in 1..Len(outstanding) :
        Contract!Truthful(result'[i], probeCount - Len(outstanding), i, specs)
  <2> TAKE i \in 1..Len(outstanding)
  <2>1. CASE outstanding[i].id \in DOMAIN observations
    <3>1. result'[i] = observations[outstanding[i].id]
      BY <1>1, <1>2, <2>1
    <3> QED BY <2>1, <3>1 DEF BackendInv, KeptTruthful
  <2>2. CASE outstanding[i].id \notin DOMAIN observations
    <3>1. result'[i] = NoReply
      BY <1>1, <1>2, <2>2
    <3> QED BY <3>1 DEF NoReply, Contract!Truthful
  <2> QED BY <2>1, <2>2
<1>5. Contract!Return
  BY <1>1, <1>3, <1>4 DEF Contract!Return
<1> QED BY <1>5 DEF Contract!AbstractNext

(* Every step of the backend is a step of the contract or changes nothing  *)
(* that the caller sees.                                                   *)
LEMMA ContractStep ==
  ASSUME BackendInv, [Next]_backendVars
  PROVE  [Contract!AbstractNext]_(Contract!batchVars)
<1>1. CASE OpenSocket
  <2>1. pc = "opening" /\ pc' \in {"opening", "idle"}
    BY <1>1 DEF OpenSocket
  <2> QED BY <1>1, <2>1 DEF OpenSocket, sending, batch, Contract!batchVars
<1>2. CASE Close
  BY <1>2 DEF Close, sending, batch, Contract!batchVars
<1>3. CASE \E b \in Batches : Ask(b)
  BY <1>3, AskAsks
<1>4. CASE SendProbe
  <2>1. /\ pc = "send" /\ pc' \in {"wait", "send"} /\ probeCount' = probeCount + 1
        /\ specs' = specs /\ result' = result
        /\ \E probe : outstanding' = Append(outstanding, probe)
    BY <1>4 DEF SendProbe
  <2>2. /\ outstanding \in Seq(flying) /\ Len(outstanding) \in Nat /\ probeCount \in Nat
    BY DEF BackendInv, BackendTypeOK, BatchInOrder
  <2>3. Len(outstanding') = Len(outstanding) + 1
    BY <2>1, <2>2
  <2>4. probeCount' - Len(outstanding') = probeCount - Len(outstanding)
    BY <2>1, <2>2, <2>3
  <2> QED BY <2>1, <2>4 DEF Contract!batchVars
<1>5. CASE TimePasses
  BY <1>5 DEF TimePasses, sending, Contract!batchVars
<1>6. CASE Select
  BY <1>6 DEF Select, sending, Contract!batchVars
<1>7. CASE Receive
  <2>1. pc = "read" /\ pc' \in {"wait", "read"}
    BY <1>7 DEF Receive
  <2> QED BY <1>7, <2>1 DEF Receive, sending, Contract!batchVars
<1>8. CASE Finish
  BY <1>8, FinishReturns
<1>9. CASE OpenFails \/ LateSocketFails \/ SendFails \/ ReceiveFails \/ Interrupted
  <2>1. pc # "failed" /\ \E e : Raise(e)
    BY <1>9 DEF OpenFails, LateSocketFails, SendFails, ReceiveFails, Interrupted
  <2> QED BY <2>1, RaiseBreaks
<1>10. CASE UNCHANGED backendVars
  BY <1>10 DEF backendVars, sending, batch, Contract!batchVars
<1> QED BY <1>1, <1>2, <1>3, <1>4, <1>5, <1>6, <1>7, <1>8, <1>9, <1>10 DEF Next, Deliver

(* The backend keeps the contract of a batch: whatever the network does,   *)
(* however replies are lost, delayed, duplicated or reordered, and across  *)
(* every wrap of the 16-bit ids, a batch that comes back holds one entry   *)
(* per probe, silence or a reply to that very probe up to the coincidences *)
(* of its correlation method (backend.py:266-367).                         *)
THEOREM BackendKeepsContract == Spec => KeepsContract
<1>1. BackendInv /\ [Next]_backendVars => [Contract!AbstractNext]_(Contract!batchVars)
  BY ContractStep
<1> QED BY <1>1, InitialContract, InvAlways, PTL
        DEF Spec, KeepsContract, Contract!AbstractSpec

-----------------------------------------------------------------------------
(* Nothing recognisable is thrown away.                                    *)

(* An answer of the target that carries a correlator is traced to its      *)
(* probe and matches the probe's flow.                                     *)
LEMMA AnswerRecognised ==
  ASSUME NEW probe, probe.session = Session, probe.id \in Words,
         NEW how, NEW p, p.cause = probe, Answered(p, probe, how), Recognisable(p)
  PROVE  /\ Parse(p.wire) # {}
         /\ \A x \in Parse(p.wire) : x.id = probe.id /\ MatchesFlow(x, p.wire, probe.flow)
<1>0. Session \in Words \X Words
  BY WireAssumption
<1>1. CASE p.wire = EchoReply(probe) /\ probe.flow.proto = "icmp"
  <2>1. /\ p.wire.form = "icmp" /\ p.wire.type = <<0, 0>>
        /\ p.wire.quote.tag = {<<probe.session, probe.id>>}
    BY <1>1 DEF EchoReply, Image
  <2>2. Parse(p.wire) = ParseEchoReply(p.wire)
    BY <2>1 DEF Parse, ParseIcmp
  <2>3. ParseEchoReply(p.wire) =
          {[id |-> probe.id, kind |-> "destination", verified |-> TRUE, direct |-> "echo"]}
    <3>1. {t \in p.wire.quote.tag : t[1] = Session} = {<<Session, probe.id>>}
      BY <2>1
    <3>2. <<Session, probe.id>>[2] = probe.id
      OBVIOUS
    <3> QED BY <3>1, <3>2 DEF ParseEchoReply
  <2> QED BY <1>1, <2>2, <2>3 DEF MatchesFlow
<1>2. CASE probe.flow.proto = "tcp" /\ \E flags : p.wire = Segment(probe, flags)
  <2>1. PICK flags : p.wire = Segment(probe, flags)
    BY <1>2
  <2>2. /\ p.wire.form = "tcp" /\ p.wire.flags = flags
        /\ p.wire.sport = "target" /\ p.wire.dport = probe.flow.port
        /\ p.wire.ack = Successor(<<Session[2], probe.id>>)
    BY <2>1 DEF Segment, ProbeSequence
  <2>3. Predecessor(p.wire.ack) = <<Session[2], probe.id>>
    BY <1>0, <2>2, PredecessorOfSuccessor
  <2>4. "ack" \in flags /\ flags \cap {"syn", "rst"} # {}
    <3>1. "ack" \in flags /\ flags # {"ack"}
      BY <2>2 DEF Recognisable
    <3>2. \E f \in {{"ack", "syn"}, {"ack"}, {"ack", "rst"}, {"rst"}} :
            p.wire = Segment(probe, f)
      BY <1>2 DEF Answered, DirectReplies
    <3>3. flags \in {{"ack", "syn"}, {"ack"}, {"ack", "rst"}, {"rst"}}
      BY <2>2, <3>2 DEF Segment
    <3> QED BY <3>1, <3>3
  <2>5. ParseTcp(p.wire) =
          {[id |-> probe.id, kind |-> "destination", verified |-> TRUE, direct |-> "tcp"]}
    BY <2>2, <2>3, <2>4 DEF ParseTcp
  <2>6. Parse(p.wire) = ParseTcp(p.wire)
    BY <2>2 DEF Parse
  <2> QED BY <1>2, <2>2, <2>5, <2>6 DEF MatchesFlow
<1>3. \/ p.wire = EchoReply(probe) /\ probe.flow.proto = "icmp"
      \/ probe.flow.proto = "tcp" /\ \E flags : p.wire = Segment(probe, flags)
  BY DEF Answered, DirectReplies
<1> QED BY <1>1, <1>2, <1>3

(* So is an error that quotes a correlator no device has rewritten.        *)
LEMMA ErrorRecognised ==
  ASSUME NEW probe, probe.session = Session, probe.id \in Words,
         NEW how, NEW p, p.cause = probe, Reported(p, probe, how), Recognisable(p)
  PROVE  /\ Parse(p.wire) # {}
         /\ \A x \in Parse(p.wire) : x.id = probe.id /\ MatchesFlow(x, p.wire, probe.flow)
<1> DEFINE q == p.wire.quote
           named == {t[2] : t \in {y \in q.tag : y[1] = Session}}
                    \cup {n[2] : n \in {y \in q.seq : y[1] = Session[2]}}
           found == [id |-> IF named # {} THEN CHOOSE i \in named : TRUE ELSE q.ipid,
                     kind |-> KindOfError(p.wire.type, q.proto), verified |-> named # {},
                     direct |-> "no"]
<1>1. p.wire.form = "icmp"
  BY DEF Reported, IcmpError
<1>2. Quotes(q, probe, p.altered) /\ Parse(p.wire) = ParseError(p.wire)
  BY ErrorIsParsed
<1>3. /\ q.proto = probe.flow.proto
      /\ "ipid" \notin p.altered => q.ipid = probe.id
      /\ "dst" \notin p.altered => q.dst = "target"
      /\ "dport" \notin p.altered => q.dport \subseteq {"target"}
      /\ "port" \notin p.altered => q.port \subseteq {probe.flow.port}
      /\ "seq" \notin p.altered => q.seq \subseteq {<<Session[2], probe.id>>}
      /\ q.tag \subseteq {<<Session, probe.id>>}
      /\ \A n \in q.seq : n[2] = probe.id
  <2> HIDE DEF q
  <2> QED BY <1>2 DEF Quotes
<1>4. Parse(p.wire) = {found}
  <2>1. \A t \in q.tag : t[1] = Session
    BY <1>3
  <2> QED BY <1>2, <2>1 DEF ParseError
<1>5. named \subseteq {probe.id}
  BY <1>3
<1>6. /\ found.direct = "no" /\ found.verified = (named # {})
      /\ found.id = IF named # {} THEN CHOOSE i \in named : TRUE ELSE q.ipid
  OBVIOUS
<1>7. CASE named # {}
  <2>1. found.id = probe.id
    BY <1>5, <1>6, <1>7
  <2>2. MatchesFlow(found, p.wire, probe.flow)
    <3> HIDE DEF found, named
    <3> QED BY <1>3, <1>6, <1>7 DEF MatchesFlow
  <2> HIDE DEF found, named
  <2> QED BY <1>4, <2>1, <2>2
<1>8. CASE named = {}
  <2>1. q.tag = {}
    BY <1>3, <1>8
  <2>2. ~(q.seq # {} /\ "seq" \notin p.altered)
    BY <1>3, <1>8
  <2>3. /\ p.altered \cap {"ipid", "dst", "dport", "port"} = {}
        /\ q.proto = "icmp" \/ q.dport # {}
    BY <1>1, <2>1, <2>2 DEF Recognisable
  <2>4. /\ found.id = probe.id
        /\ q.dst = "target" /\ q.dport \subseteq {"target"}
        /\ q.port \subseteq {probe.flow.port}
    BY <1>3, <1>6, <1>8, <2>3
  <2>5. MatchesFlow(found, p.wire, probe.flow)
    <3> HIDE DEF found, named
    <3> QED BY <1>3, <1>6, <2>3, <2>4 DEF MatchesFlow
  <2> HIDE DEF found, named
  <2> QED BY <1>4, <2>4, <2>5
<1> QED BY <1>7, <1>8

(* A recognisable reply of a waiting probe is kept, for that probe.        *)
LEMMA RecognisableKept ==
  ASSUME BackendInv, pc = "read", NEW s, NEW p \in Arriving(s),
         NEW i \in DOMAIN outstanding, p.cause = outstanding[i], Recognisable(p)
  PROVE  /\ outstanding[i].id \in DOMAIN Handled(p)
         /\ outstanding[i].id \notin DOMAIN observations =>
              Handled(p)[outstanding[i].id].cause = outstanding[i]
<1> DEFINE probe == outstanding[i]
           hits == {x \in Parse(p.wire) \X DOMAIN outstanding :
                      x[2] \in Answerable(x[1], p.wire)}
           h == CHOOSE x \in hits : TRUE
           kept == Evidence(h[1], p, outstanding[h[2]])
<1>1. probe \in flying
  BY DEF BackendInv, BatchInOrder
<1>2. probe.session = Session /\ probe.id \in Words
  BY <1>1, WireAssumption DEF BackendInv, FlyingOurs, ProbeIds, Words
<1>3. p \in RepliesTo(probe)
  <2>1. PICK cause \in flying \cup Strangers : p \in RepliesTo(cause)
    BY DEF Arriving
  <2>2. p.cause = cause
    BY <2>1, ReplyShape
  <2> QED BY <2>1, <2>2
<1>4. /\ Parse(p.wire) # {}
      /\ \A x \in Parse(p.wire) : x.id = probe.id /\ MatchesFlow(x, p.wire, probe.flow)
  <2>1. PICK end \in Network[probe.ttl] :
          Reported(p, probe, end.how) \/ Answered(p, probe, end.how)
    BY <1>3, ReplyShape
  <2>2. CASE Reported(p, probe, end.how)
    BY <1>2, <2>2, ErrorRecognised
  <2>3. CASE Answered(p, probe, end.how)
    BY <1>2, <2>3, AnswerRecognised
  <2> QED BY <2>1, <2>2, <2>3
<1>5. /\ hits = {} => Handled(p) = observations
      /\ hits # {} => Handled(p) = [k \in DOMAIN observations \cup {h[1].id} |->
                                      IF k = h[1].id THEN kept ELSE observations[k]]
  BY DEF Handled
<1>6. kept.cause = p.cause
  BY DEF Evidence
<1>7. hits # {} => h \in hits
  OBVIOUS
<1>8. \A x \in hits : x[1] \in Parse(p.wire) /\ x[1].id = probe.id
  BY <1>4
<1>9. probe.id \notin DOMAIN observations => hits # {}
  <2> SUFFICES ASSUME probe.id \notin DOMAIN observations PROVE hits # {}
    OBVIOUS
  <2>1. PICK x \in Parse(p.wire) : x.id = probe.id /\ MatchesFlow(x, p.wire, probe.flow)
    BY <1>4
  <2>2. i \in Answerable(x, p.wire)
    BY <2>1 DEF Answerable
  <2>3. <<x, i>> \in hits
    BY <2>1, <2>2
  <2> QED BY <2>3
<1> HIDE DEF kept, h, hits
<1>10. CASE probe.id \in DOMAIN observations
  BY <1>5, <1>10
<1>11. CASE probe.id \notin DOMAIN observations
  <2>1. hits # {} /\ h[1].id = probe.id
    BY <1>7, <1>8, <1>9, <1>11
  <2>2. Handled(p)[probe.id] = kept /\ probe.id \in DOMAIN Handled(p)
    BY <1>5, <2>1
  <2> QED BY <1>6, <2>2
<1> QED BY <1>10, <1>11

(* A genuine reply whose correlator survived the way is never thrown away: *)
(* if it arrives while its probe waits, it is kept for that probe, however *)
(* its headers were rewritten and whatever else arrived before             *)
(* (backend.py:307-322, 369-398).                                          *)
THEOREM RecognisableRepliesKept == Spec => []RepliesRecognised
<1>1. BackendInv => RepliesRecognised
  BY RecognisableKept DEF RepliesRecognised
<1> QED BY <1>1, InvAlways, PTL

=============================================================================
