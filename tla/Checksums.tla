----------------------------- MODULE Checksums -----------------------------
(***************************************************************************)
(* Internet checksums and the ICMP echo probe whose checksum does not      *)
(* depend on the probe (packet.py:67-77, 84-115, 241-281).  Data is a      *)
(* sequence of bytes; a byte is a number below Base, a word two bytes.     *)
(***************************************************************************)
EXTENDS Integers, Sequences

CONSTANTS
  Base,          (* number of values of a byte: 256                        *)
  Stable         (* ICMP_STABLE_CHECKSUM                                   *)

Full == Base * Base - 1         \* the largest word, 0xFFFF

ASSUME ChecksumAssumption == Base \in Nat /\ Base > 8 /\ Stable \in 1..(Full - 1)

Bytes(word) == <<word \div Base, word % Base>>

Zeros(n) == [i \in 1..n |-> 0]

Padded(data) == IF Len(data) % 2 = 0 THEN data ELSE Append(data, 0)

(* The sum of the words, each carry added at the low end.                  *)
Folded(total) ==
  LET fold[n \in 0..total] == IF n <= Full THEN n
                              ELSE fold[(n % (Full + 1)) + (n \div (Full + 1))]
  IN  fold[total]

OnesComplementSum(data) ==
  LET bytes == Padded(data)
      sum[i \in 0..(Len(bytes) \div 2)] ==
        IF i = 0 THEN 0 ELSE sum[i - 1] + (bytes[2 * i - 1] * Base) + bytes[2 * i]
  IN  Folded(sum[Len(bytes) \div 2])

(* Fault: the carry forgotten.                                             *)
InternetChecksumNoCarry(data) ==
  LET bytes == Padded(data)
      sum[i \in 0..(Len(bytes) \div 2)] ==
        IF i = 0 THEN 0 ELSE sum[i - 1] + (bytes[2 * i - 1] * Base) + bytes[2 * i]
  IN  Full - (sum[Len(bytes) \div 2] % (Full + 1))

InternetChecksum(data) == Full - OnesComplementSum(data)

(* A header with its checksum put where the zero word at `at` was.         *)
Sealed(header, at) ==
  LET sum == Bytes(InternetChecksum(header))
  IN  [i \in DOMAIN header |-> IF i = at THEN sum[1]
                               ELSE IF i = at + 1 THEN sum[2] ELSE header[i]]

-----------------------------------------------------------------------------
(* The echo probe.                                                         *)

EchoHeader(checksum, identifier) == <<8, 0>> \o Bytes(checksum) \o Bytes(identifier) \o <<0, 0>>

(* Session, probe id and TTL; the magic is a constant and left out.        *)
Tag(session, id, ttl) == Bytes(session) \o Bytes(id) \o <<ttl, 0>>

(* Fault: the difference reduced modulo the number of words.               *)
CompensationModuloWords(data) ==
  LET value == ((Full - Stable) - OnesComplementSum(data)) % (Full + 1)
  IN  IF value = 0 THEN Full ELSE value

(* What must be added for the sum to become that of the stable checksum.   *)
Compensation(data) ==
  LET value == ((Full - Stable) - OnesComplementSum(data)) % Full
  IN  IF value = 0 THEN Full ELSE value

(* The probe as it is sent; no probe where the code raises AssertionError. *)
EchoProbe(identifier, session, id, ttl, size) ==
  LET tag      == Tag(session, id, ttl)
      gap      == size - Len(tag) - 2
      body     == tag \o Zeros(IF gap > 0 THEN gap ELSE 0)
      balanced == body \o Bytes(Compensation(EchoHeader(0, identifier) \o body \o Zeros(2)))
      checksum == InternetChecksum(EchoHeader(0, identifier) \o balanced)
  IN  IF checksum = Stable THEN {EchoHeader(checksum, identifier) \o balanced} ELSE {}
=============================================================================
