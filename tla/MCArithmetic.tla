---------------------------- MODULE MCArithmetic ----------------------------
(***************************************************************************)
(* The pure algorithms over bounded inputs: a question is asked in the     *)
(* initial state, and the properties compare what the code computes with   *)
(* what the question's author knows.                                       *)
(***************************************************************************)
EXTENDS Checksums, Coverage, Extensions, FiniteSets

CONSTANTS
  Identifiers, Sessions, Ids, Ttls, Sizes,   \* of echo probes
  Tokens,                                    \* most flow tokens of a pool
  Quotes,                                    \* length fields of ICMP errors
  Counts,                                    \* words in an object's payload
  Names,                                     \* lengths of interface names
  MostObjects                                \* in an extension

(* Identifiers, sessions, ids and lengths are words, a TTL is a byte; an   *)
(* interface name takes 64 bytes at most, its length included.             *)
ASSUME InputAssumption ==
  /\ Identifiers \cup Sessions \cup Ids \cup Sizes \subseteq 0..Full
  /\ Ttls \subseteq 0..(Base - 1)
  /\ Tokens \in Nat
  /\ Quotes \subseteq Nat /\ Counts \subseteq Nat /\ Names \subseteq 1..64
  /\ MostObjects \in Nat

VARIABLES question, answered

-----------------------------------------------------------------------------
(* Words of an extension.  `is` tells what the sender meant by a word: the *)
(* object's number and the field, 0 outside objects; the parser does not   *)
(* look at it.                                                             *)

Blank == [version |-> 0, length |-> 0, class |-> "none", flags |-> {},
          family |-> "none", name |-> 0, is |-> <<0, "none">>]

Field(k, f) == [Blank EXCEPT !.is = <<k, f>>]
Fields(k, f, n) == [i \in 1..n |-> Field(k, f)]
Header(k, words, class, flags) ==
  [Field(k, "header") EXCEPT !.length = 4 * (words + 1), !.class = class, !.flags = flags]

Have(flags, f, words) == IF f \in flags THEN words ELSE <<>>

InterfaceData(k, flags, family, length) ==
  Have(flags, "ifindex", <<Field(k, "ifindex")>>)
    \o Have(flags, "address", <<[Field(k, "family") EXCEPT !.family = family]>>
              \o Fields(k, "address", IF family = "ipv4" THEN 1 ELSE 4))
    \o Have(flags, "name", <<[Field(k, "name") EXCEPT !.name = length]>>
              \o Fields(k, "name", (length - 1) \div 4))
    \o Have(flags, "mtu", <<Field(k, "mtu")>>)

Interface(k, flags, family, length) ==
  LET fields == InterfaceData(k, flags, family, length)
  IN  <<Header(k, Len(fields), "interface", flags)>> \o fields

Labels(k, n) == <<Header(k, n, "mpls", {})>> \o Fields(k, "label", n)
Unknown(k, n) == <<Header(k, n, "other", {})>> \o Fields(k, "other", n)

Objects(k) ==
  {Labels(k, n) : n \in Counts} \cup {Unknown(k, n) : n \in Counts}
  \cup {Interface(k, flags, family, length) :
          flags \in SUBSET Flags, family \in {"ipv4", "ipv6"}, length \in Names}

(* Objects one behind the other.                                           *)
Bodies[m \in 0..MostObjects] ==
  IF m = 0 THEN {<<>>} ELSE {body \o o : body \in Bodies[m - 1], o \in Objects(m)}

(* What may follow the objects: nothing, or a header that no object fits.  *)
Tails == {<<>>} \cup {<<[Header(0, 0, class, Flags) EXCEPT !.length = n]>> :
                        class \in {"mpls", "interface", "other"}, n \in {0, 3, 6, 8}}

(* Before the objects: the ICMP header, the quote, the extension's header. *)
Front(q) == Fields(0, "icmp", 2) \o Fields(0, "quote", IF q = 0 THEN Legacy - 2 ELSE q)
              \o <<[Blank EXCEPT !.version = 2]>>

Error(q, sum, objects, tail) ==
  [kind |-> "error", quoted |-> q, sum |-> sum, words |-> Front(q) \o objects \o tail]

ErrorQuestions ==
  {Error(q, sum, o, t) : q \in Quotes, sum \in {"right", "absent", "wrong"},
                         o \in Objects(1), t \in Tails}
  \cup UNION {{Error(q, "right", body, <<>>) : q \in Quotes, body \in Bodies[m]} :
                m \in 0..MostObjects}

(* Words that may pass for headers of any kind.                            *)
Noise == {[Blank EXCEPT !.length = n, !.class = class, !.flags = {"ifindex", "mtu"}] :
            n \in {0, 4, 6, 8, 12, 16}, class \in {"mpls", "interface", "other"}}
NoiseQuestions ==
  {[kind |-> "noise", words |-> w] : w \in UNION {[1..n -> Noise] : n \in 1..3}}

-----------------------------------------------------------------------------
EchoQuestions ==
  {[kind |-> "echo", identifier |-> identifier, session |-> session, id |-> id, ttl |-> ttl,
    size |-> size] : identifier \in Identifiers, session \in Sessions, id \in Ids,
                     ttl \in Ttls, size \in Sizes}

(* An IP header: version, length and TTL, with a place for the checksum.   *)
HeaderQuestions ==
  {[kind |-> "header", bytes |-> <<4, 5>> \o Bytes(size) \o Bytes(id) \o <<ttl, 1, 0, 0>>] :
     size \in Sizes, id \in Ids, ttl \in Ttls}

BoundQuestions ==
  {[kind |-> "bound", p |-> p, delta |-> delta, samples |-> n] :
     p \in Probabilities, delta \in Probabilities, n \in 0..SampleBound}

PoolQuestions ==
  {[kind |-> "pool", p |-> p, delta |-> delta, tokens |-> n, hit |-> k] :
     p \in Probabilities, delta \in Probabilities, n \in 2..Tokens, k \in 1..Tokens}

-----------------------------------------------------------------------------
Init ==
  /\ answered = FALSE
  /\ question \in ErrorQuestions \cup NoiseQuestions \cup EchoQuestions \cup HeaderQuestions
                 \cup BoundQuestions \cup PoolQuestions

Answer == ~answered /\ answered' = TRUE /\ UNCHANGED question

Spec == Init /\ [][Answer]_<<question, answered>>

-----------------------------------------------------------------------------
(* A probe of even payload is built, whatever it is tagged with; its first *)
(* eight bytes, which routers hash, depend on the identifier alone; and    *)
(* whoever receives it finds its checksum right (packet.py:241-281).       *)
EchoHeadersStable ==
  question.kind = "echo" /\ question.size % 2 = 0 =>
    \E packet \in EchoProbe(question.identifier, question.session, question.id,
                            question.ttl, question.size) :
      /\ SubSeq(packet, 1, 8) = EchoHeader(Stable, question.identifier)
      /\ InternetChecksum(packet) = 0

(* "A compensation word keeps the ICMP checksum constant" (packet.py:259): *)
(* for every payload size that TraceConfig.validate accepts.               *)
EchoAlwaysBuilt ==
  question.kind = "echo" =>
    EchoProbe(question.identifier, question.session, question.id,
              question.ttl, question.size) # {}

(* A header sealed with its checksum is accepted (packet.py:84-115).       *)
HeadersAccepted ==
  question.kind = "header" => OnesComplementSum(Sealed(question.bytes, 9)) = Full

(* The loop that counts samples and the certificate that compares a power  *)
(* with the request (controller.py:614, 1029-1035) work from two different *)
(* computations, each rounded.  Whichever way the roundings go: what is    *)
(* certified meets the bound exactly; the loop takes at most one sample    *)
(* more than the bound needs; and samples that reach the number required   *)
(* go without a certificate only if they are just that many and (1 - p)^n  *)
(* is the request itself.                                                  *)
CertifiedFromRequired ==
  question.kind = "bound" =>
    LET p == question.p
        delta == question.delta
        n == question.samples
    IN  \A required \in RequiredSamples(p, delta), within \in WithinBound(p, n, delta) :
          LET certified == n >= required /\ within
          IN  /\ certified => BoundMet(p, n, delta)
              /\ BoundMet(p, n, delta) => required <= n + 1
              /\ n >= required /\ ~certified => n = required /\ Tie(p, n, delta)

(* An outcome that at least the fraction p of all flow tokens shows, but   *)
(* not the main flow, is missed by the required number of other flows,     *)
(* however it was rounded, in at most the fraction delta of the draws,     *)
(* although they are drawn without replacement and never the main flow     *)
(* (stats.py:16-18, controller.py:341-357).                                *)
RareOutcomesMet ==
  question.kind = "pool" =>
    LET others == question.tokens - 1
    IN  \A n \in RequiredSamples(question.p, question.delta) :
          n <= others /\ question.hit <= others
          /\ question.hit * Denominator >= question.p * question.tokens
          => MissingDraws(others, question.hit, n) * Denominator
               <= question.delta * Draws(others, n)

(* What a sender put into an extension is taken out of it, object by       *)
(* object and field by field; a header that no object fits ends the list   *)
(* and costs nothing before it; a wrong checksum yields no objects         *)
(* (packet.py:512-602, docs/ALGORITHM.md:176-182).                         *)
ExtensionsRecovered ==
  question.kind = "error" =>
    LET words == question.words
        meant(k, f) == {w \in DOMAIN words : words[w].is = <<k, f>>}
    IN  \E e \in ParseExtensions(question.quoted, words, question.sum) :
          /\ e.trusted <=> question.sum # "wrong"
          /\ ~e.trusted => e.objects = {}
          /\ \A o \in e.objects :
               LET k == words[o.at].is[1]
               IN  /\ o.at \in meant(k, "header") /\ k # 0
                   /\ o.what = "label" => o.from \subseteq meant(k, "label")
                   /\ o.what = "interface" =>
                        /\ DOMAIN o.from = words[o.at].flags
                        /\ \A f \in DOMAIN o.from : o.from[f] = meant(k, f)
          /\ e.trusted => \A w \in DOMAIN words :
               /\ words[w].is[2] = "label" =>
                    \E o \in e.objects : o.what = "label" /\ o.from = {w}
               /\ words[w].is[1] # 0 /\ words[w].class \in {"interface", "other"} =>
                    \E o \in e.objects : o.at = w

(* Whatever the words are, objects lie inside the packet, one behind the   *)
(* other, and nothing is taken from outside its object ("malformed lengths *)
(* never advance beyond the packet buffer", docs/ALGORITHM.md:180-181).    *)
NothingCutOff ==
  question.kind = "noise" =>
    LET words == question.words
        found == ObjectsFrom(words, 1)
        end(o) == o.at - 1 + words[o.at].length \div 4
        used(o) == IF o.what = "interface" THEN UNION {o.from[f] : f \in DOMAIN o.from}
                   ELSE o.from
    IN  \A o \in found : /\ end(o) <= Len(words)
                         /\ used(o) \subseteq (o.at + 1)..end(o)
                         /\ \A p \in found : o.at < p.at => end(o) < p.at
=============================================================================
