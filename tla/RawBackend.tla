----------------------------- MODULE RawBackend -----------------------------
(***************************************************************************)
(* RawIPv4Backend (backend.py:97-367): its sockets and one batch at a      *)
(* time: probes leave one after the other under fresh 16-bit ids, then a   *)
(* receive loop collects replies until every probe has one or the deadline *)
(* passes.                                                                 *)
(*                                                                         *)
(* The network may answer a probe at any time after it was sent, also in a *)
(* later batch, any number of times, in any order, or never; packets of    *)
(* other programs arrive on the same sockets.  A packet lives for less     *)
(* than Lifetime further probes.                                           *)
(***************************************************************************)
EXTENDS Correlation, Sequences, FiniteSets

CONSTANTS
  Batches,       (* batches the caller may ask for: sequences of specs     *)
  Lifetime,      (* probes sent while a packet may still arrive            *)
  ProbeBound     (* the caller's probe budget                              *)

SpecShape == [ttl : Nat, flow : [proto : Protocols, port : STRING]]

ASSUME BatchAssumption ==
  /\ Lifetime \in Nat /\ Lifetime < Word
  /\ ProbeBound \in Nat
  /\ Batches \subseteq Seq(SpecShape)
  /\ \A b \in Batches : Len(b) <= Lifetime

(* No other program uses our session.                                      *)
ASSUME StrangerAssumption ==
  \A s \in Strangers : /\ s.session # Session
                       /\ s.session \in Words \X Words
                       /\ s.id \in ProbeIds

VARIABLES
  protocol,      (* of the trace                                           *)
  announced,     (* whether the constructor was told that it is TCP        *)
  sockets,       (* open sockets                                           *)
  pc,            (* what the backend is doing                              *)
  error,         (* the exception it raised                                *)
  nextId,        (* self._next_probe_id                                    *)
  probeCount,    (* self.probe_count                                       *)
  flying         (* our probes that may still be answered                  *)

VARIABLES        (* locals of send_batch                                   *)
  specs, outstanding, observations, late, readable, result

lifecycle == <<protocol, announced, sockets, error>>
sending   == <<nextId, probeCount, flying>>
batch     == <<specs, outstanding, observations, late, readable, result>>
backendVars == <<lifecycle, pc, sending, batch>>

NoEvidence == [i \in {} |-> NoReply]

Init ==
  /\ protocol \in Protocols
  /\ announced \in IF protocol = "tcp" THEN BOOLEAN ELSE {FALSE}
  /\ sockets = {} /\ error = "none"
  /\ pc = "opening"
  /\ nextId \in 1..(Word - 2)
  /\ probeCount = 0 /\ flying = {}
  /\ specs = <<>> /\ outstanding = <<>> /\ observations = NoEvidence
  /\ late = FALSE /\ readable = {} /\ result = <<>>

(* An exception leaves send_batch, and its locals with it.                 *)
Raise(exception) ==
  /\ error' = exception
  /\ pc' = "failed"
  /\ specs' = <<>> /\ outstanding' = <<>> /\ observations' = NoEvidence
  /\ late' = FALSE /\ readable' = {} /\ result' = <<>>

-----------------------------------------------------------------------------
(* The constructor opens its sockets one by one; when one cannot be opened *)
(* it closes the others.  TCP needs one more, to see direct replies.       *)

Needed == {"send", "icmp"} \cup (IF announced THEN {"tcp"} ELSE {})

OpenSocket ==
  /\ pc = "opening"
  /\ sockets' = sockets \cup {IF "send" \notin sockets THEN "send"
                              ELSE IF "icmp" \notin sockets THEN "icmp" ELSE "tcp"}
  /\ pc' = IF sockets' = Needed THEN "idle" ELSE "opening"
  /\ UNCHANGED <<protocol, announced, error, sending, batch>>

(* Fault: sockets opened so far left open.                                 *)
OpenFailsLeaking ==
  /\ pc = "opening"
  /\ \E e \in {"PrivilegeError", "BackendError"} : Raise(e)
  /\ UNCHANGED <<protocol, announced, sockets, sending>>

OpenFails ==
  /\ pc = "opening"
  /\ \E e \in {"PrivilegeError", "BackendError"} : Raise(e)
  /\ sockets' = {}
  /\ UNCHANGED <<protocol, announced, sending>>

(* close may be called again; it skips what is closed.                     *)
Close ==
  /\ pc \in {"idle", "failed"}
  /\ sockets' = {}
  /\ UNCHANGED <<protocol, announced, pc, error, sending, batch>>

-----------------------------------------------------------------------------
(* send_batch: the probes go out.                                          *)

(* A backend that was not told its protocol opens the TCP socket with the  *)
(* first TCP batch.                                                        *)
Ask(b) ==
  /\ pc = "idle" /\ "send" \in sockets
  /\ b # <<>> /\ b[1].flow.proto = protocol
  /\ probeCount + Len(b) <= ProbeBound
  /\ specs' = b
  /\ sockets' = IF protocol = "tcp" THEN sockets \cup {"tcp"} ELSE sockets
  /\ pc' = "send"
  /\ outstanding' = <<>> /\ observations' = NoEvidence
  /\ late' = FALSE /\ readable' = {} /\ result' = <<>>
  /\ UNCHANGED <<protocol, announced, error, sending>>

LateSocketFails ==
  /\ pc = "idle" /\ "send" \in sockets
  /\ protocol = "tcp" /\ "tcp" \notin sockets
  /\ Raise("BackendError")
  /\ UNCHANGED <<protocol, announced, sockets, sending>>

(* Fault: the wrap goes to zero, which the kernel replaces.                *)
FollowingIdZero(id) == IF id = Word - 1 THEN 0 ELSE id + 1

(* Fault: ids numbered from one in every batch.                            *)
NumberWithinBatch(id) == IF Len(outstanding) + 1 = Len(specs) THEN 1 ELSE id + 1

(* _allocate_probe_id                                                      *)
FollowingId(id) == IF id = Word - 1 THEN 1 ELSE id + 1

Alive(probes, now) == {p \in probes : now - p.serial < Lifetime}

SendProbe ==
  /\ pc = "send"
  /\ LET spec  == specs[Len(outstanding) + 1]
         probe == Probe(Session, probeCount + 1, nextId, spec)
     IN  /\ outstanding' = Append(outstanding, probe)
         /\ flying' = Alive(flying \cup {probe}, probeCount + 1)
  /\ probeCount' = probeCount + 1
  /\ nextId' = FollowingId(nextId)
  /\ pc' = IF Len(outstanding') = Len(specs) THEN "wait" ELSE "send"
  /\ UNCHANGED <<lifecycle, specs, observations, late, readable, result>>

(* The id is taken before the packet is built, which fails for an ICMP     *)
(* payload of odd size (see Checksums), and before sendto, which may raise.*)
SendFails ==
  /\ pc = "send"
  /\ nextId' = FollowingId(nextId)
  /\ \/ Raise("BackendError")
     \/ protocol = "icmp" /\ Raise("AssertionError")
  /\ UNCHANGED <<protocol, announced, sockets, probeCount, flying>>

-----------------------------------------------------------------------------
(* send_batch: the receive loop.                                           *)

AllObserved == Cardinality(DOMAIN observations) = Len(outstanding)

(* The deadline passes; it is fixed once, when the last probe is out.      *)
TimePasses ==
  /\ pc \in {"wait", "read"} /\ ~late
  /\ late' = TRUE
  /\ UNCHANGED <<lifecycle, pc, sending, specs, outstanding, observations, readable, result>>

(* Fault: the deadline set anew with every round of the loop.              *)
SelectAfresh ==
  /\ pc = "wait" /\ ~AllObserved
  /\ \E ready \in SUBSET (sockets \ {"send"}) \ {{}} : readable' = ready
  /\ late' = FALSE
  /\ pc' = "read"
  /\ UNCHANGED <<lifecycle, sending, specs, outstanding, observations, result>>

Select ==
  /\ pc = "wait" /\ ~AllObserved /\ ~late
  /\ \E ready \in SUBSET (sockets \ {"send"}) \ {{}} : readable' = ready
  /\ pc' = "read"
  /\ UNCHANGED <<lifecycle, sending, specs, outstanding, observations, late, result>>

(* What may arrive on a socket.  TCP segments go to a socket of their own. *)
Arriving(socket) ==
  {p \in UNION {RepliesTo(q) : q \in flying \cup Strangers} : p.wire.form = socket}

(* The probe a packet is taken to answer, if any: its id is outstanding,   *)
(* nothing was kept for it, and its flow agrees.                           *)
Answerable(parsed, wire) ==
  {i \in DOMAIN outstanding :
     /\ outstanding[i].id = parsed.id
     /\ parsed.id \notin DOMAIN observations
     /\ MatchesFlow(parsed, wire, outstanding[i].flow)}

(* The observations once a packet was handled.                             *)
Handled(packet) ==
  LET hits == {x \in Parse(packet.wire) \X DOMAIN outstanding :
                 x[2] \in Answerable(x[1], packet.wire)}
  IN  IF hits = {} THEN observations
      ELSE LET x == CHOOSE h \in hits : TRUE
           IN  [i \in DOMAIN observations \cup {x[1].id} |->
                  IF i = x[1].id THEN Evidence(x[1], packet, outstanding[x[2]])
                  ELSE observations[i]]

(* One packet from each readable socket, the ICMP one first; a socket may  *)
(* turn out to hold nothing.                                               *)
Receive ==
  /\ pc = "read"
  /\ LET socket == IF "icmp" \in readable THEN "icmp" ELSE "tcp"
     IN  /\ \/ UNCHANGED observations
            \/ \E packet \in Arriving(socket) : observations' = Handled(packet)
         /\ readable' = readable \ {socket}
  /\ pc' = IF readable' = {} THEN "wait" ELSE "read"
  /\ UNCHANGED <<lifecycle, sending, specs, outstanding, late, result>>

(* select or recvfrom raises, and nothing catches it.                      *)
ReceiveFails ==
  /\ pc \in {"wait", "read"}
  /\ Raise("OSError")
  /\ UNCHANGED <<protocol, announced, sockets, sending>>

(* All probes answered, or the deadline passed.                            *)
Finish ==
  /\ pc = "wait"
  /\ AllObserved \/ late
  /\ result' = [i \in DOMAIN outstanding |->
                  IF outstanding[i].id \in DOMAIN observations
                  THEN observations[outstanding[i].id] ELSE NoReply]
  /\ pc' = "idle"
  /\ late' = FALSE
  /\ UNCHANGED <<lifecycle, sending, specs, outstanding, observations, readable>>

(* Ctrl-C: the constructor and send_batch catch nothing of the kind.       *)
Interrupted ==
  /\ pc # "failed"
  /\ Raise("KeyboardInterrupt")
  /\ UNCHANGED <<protocol, announced, sockets, sending>>

-----------------------------------------------------------------------------
Deliver == Select \/ Receive \/ Finish
Next ==
  \/ OpenSocket \/ OpenFails \/ Close
  \/ (\E b \in Batches : Ask(b)) \/ LateSocketFails
  \/ SendProbe \/ SendFails
  \/ TimePasses \/ Deliver \/ ReceiveFails
  \/ Interrupted

Spec == Init /\ [][Next]_backendVars

(* Time passes, and the process is scheduled.                              *)
FairSpec == Spec /\ WF_backendVars(SendProbe) /\ WF_backendVars(TimePasses)
                 /\ WF_backendVars(Deliver)

-----------------------------------------------------------------------------
(* Every variable keeps its shape; no batch is larger than asked for.      *)
BackendTypeOK ==
  /\ protocol \in Protocols /\ announced \in BOOLEAN
  /\ sockets \subseteq {"send", "icmp", "tcp"}
  /\ pc \in {"opening", "idle", "send", "wait", "read", "failed"}
  /\ error \in {"none", "PrivilegeError", "BackendError", "AssertionError", "OSError",
                "KeyboardInterrupt"}
  /\ nextId \in ProbeIds /\ probeCount \in Nat
  /\ specs \in Batches \cup {<<>>}
  /\ Len(outstanding) <= Len(specs)
  /\ late \in BOOLEAN /\ readable \subseteq {"icmp", "tcp"}
  /\ DOMAIN observations \subseteq {outstanding[i].id : i \in DOMAIN outstanding}

(* A genuine reply whose correlator survived is never thrown away: if it   *)
(* arrives while its probe waits, it is kept for that probe.  The payload  *)
(* tag survives all rewriting of headers, a TCP sequence unless rewritten; *)
(* a short quotation needs its IP identification, its destination and the  *)
(* port or identifier (backend.py:307-322, 369-398).                       *)
Recognisable(p) ==
  IF p.wire.form = "tcp" THEN "ack" \in p.wire.flags /\ p.wire.flags # {"ack"}
  ELSE LET q == p.wire.quote
       IN  \/ q.tag # {}
           \/ q.seq # {} /\ "seq" \notin p.altered
           \/ /\ p.altered \cap {"ipid", "dst", "dport", "port"} = {}
              /\ q.proto = "icmp" \/ q.dport # {}

RepliesRecognised ==
  pc = "read" =>
    \A s \in readable : \A p \in Arriving(s) : \A i \in DOMAIN outstanding :
      p.cause = outstanding[i] /\ Recognisable(p) =>
        LET id == outstanding[i].id
        IN  id \in DOMAIN Handled(p) /\ (id \notin DOMAIN observations =>
                                           Handled(p)[id].cause = outstanding[i])

(* A batch comes back, however many stray packets keep arriving: the       *)
(* deadline is not moved by them (backend.py:294-304).                     *)
BatchReturns == pc \in {"send", "wait", "read"} ~> pc \in {"idle", "failed"}

(* The backend keeps the contract of a batch.                              *)
Contract == INSTANCE ProbeBatch WITH
  before <- probeCount - Len(outstanding), asked <- specs, answer <- result,
  stage <- IF pc \in {"opening", "idle"} THEN "idle"
           ELSE IF pc = "failed" THEN "broken" ELSE "busy"

KeepsContract == Contract!AbstractSpec


-----------------------------------------------------------------------------
(* The inductive strengthening of BackendTypeOK from which the contract    *)
(* follows.                                                                *)

(* Ids are handed out in a circle: each probe still answerable has the id  *)
(* that lies its age behind the next one, and no circle is completed while *)
(* it lives.                                                               *)
IdBehind(next, age) == IF next > age THEN next - age ELSE next - age + (Word - 1)

FlyingOurs ==
  \A p \in flying :
    /\ p.session = Session /\ p.id \in ProbeIds
    /\ p.serial \in 1..probeCount /\ probeCount - p.serial < Lifetime
    /\ pc # "failed" => p.id = IdBehind(nextId, probeCount + 1 - p.serial)
    /\ \A q \in flying : p.serial = q.serial => p = q

(* The batch goes out in order, and all of it before the loop listens.     *)
BatchInOrder ==
  /\ outstanding \in Seq(flying)
  /\ \A i \in 1..Len(outstanding) :
       /\ outstanding[i].serial = (probeCount - Len(outstanding)) + i
       /\ outstanding[i].ttl = specs[i].ttl /\ outstanding[i].flow = specs[i].flow
  /\ Len(outstanding) <= probeCount
  /\ IF pc = "send" THEN Len(outstanding) < Len(specs) ELSE Len(outstanding) = Len(specs)
  /\ pc = "send" => DOMAIN observations = {}

(* What was kept so far is as truthful as the result must be.              *)
KeptTruthful ==
  \A i \in 1..Len(outstanding) :
    outstanding[i].id \in DOMAIN observations =>
      Contract!Truthful(observations[outstanding[i].id],
                        probeCount - Len(outstanding), i, specs)

BackendInv == BackendTypeOK /\ FlyingOurs /\ BatchInOrder /\ KeptTruthful

=============================================================================
