----------------------------- MODULE Extensions -----------------------------
(***************************************************************************)
(* ICMP extensions (packet.py:508-602): where the extension of an error    *)
(* begins, which objects are taken from it, and which fields from an       *)
(* interface object.                                                       *)
(*                                                                         *)
(* Every offset the code uses is a multiple of four, so the packet is a    *)
(* sequence of words of four bytes.  What a word means depends on who      *)
(* reads it: a word is a record of every reading the code may take of it,  *)
(* the version of an extension header, length (in bytes), class and flags  *)
(* of an object header, an address family, the length of a name.  What is  *)
(* taken out is told by where it was taken from.                           *)
(***************************************************************************)
EXTENDS Integers, Sequences

Legacy == 34                    \* words before a legacy extension: 8 + 128 bytes

(* An error of type 3, 11 or 12: `quoted` is its length field, in words.   *)
(* The word the extension begins at, if there is one.                      *)
ExtensionStart(quoted, words) ==
  LET candidate == IF quoted # 0 THEN 2 + quoted + 1 ELSE Legacy + 1
  IN  {w \in {candidate} : /\ Len(words) >= 3
                           /\ w <= Len(words)
                           /\ words[w].version = 2}

-----------------------------------------------------------------------------
(* Interface information: fields are present as the type's flags say, one  *)
(* after the other.  The code gives up on a field outside the payload, on  *)
(* an unknown address family and on a name of a wrong length; a name may   *)
(* run past the payload if nothing follows it.                             *)

Flags == {"ifindex", "address", "name", "mtu"}

AddressWords(family) == CASE family = "ipv4" -> 1 [] family = "ipv6" -> 4

(* Fault: the padding of a name taken for the next field.                  *)
RoundedDown(bytes) == bytes \div 4

RoundedUp(bytes) == (bytes + 3) \div 4

(* The words each field is taken from; none if the object is given up.     *)
InterfaceFields(words, flags, first, last) ==
  LET index   == IF "ifindex" \in flags THEN 1 ELSE 0
      family  == first + index
      address == IF "address" \in flags
                 THEN IF family <= last /\ words[family].family \in {"ipv4", "ipv6"}
                      THEN 1 + AddressWords(words[family].family) ELSE -1
                 ELSE 0
      name    == family + address
      named   == IF "name" \in flags
                 THEN IF name <= last /\ words[name].name \in 1..64
                      THEN RoundedUp(words[name].name) ELSE -1
                 ELSE 0
      mtu     == name + named
      place   == [ifindex |-> {first}, address |-> (family + 1)..(name - 1),
                  name |-> {w \in name..(mtu - 1) : w <= last}, mtu |-> {mtu}]
  IN  IF \/ "ifindex" \in flags /\ first > last
         \/ address = -1 \/ ("address" \in flags /\ name - 1 > last)
         \/ named = -1
         \/ "mtu" \in flags /\ mtu > last
      THEN {} ELSE {[f \in flags |-> place[f]]}

-----------------------------------------------------------------------------
(* Objects, from the word behind the extension header on.                  *)

(* Fault: objects longer than the packet accepted.                         *)
WellFormedAnyLength(words, at) == words[at].length >= 4 /\ words[at].length % 4 = 0

WellFormed(words, at) ==
  /\ words[at].length >= 4 /\ words[at].length % 4 = 0
  /\ at - 1 + words[at].length \div 4 <= Len(words)

(* What one object adds.  Every class but the two known ones is unknown,   *)
(* and so are label stacks of another type.                                *)
Taken(words, at) ==
  LET first == at + 1
      end   == at - 1 + words[at].length \div 4
      last  == IF end <= Len(words) THEN end ELSE Len(words)
      class == words[at].class
  IN  CASE class = "mpls" -> {[what |-> "label", at |-> at, from |-> {w}] : w \in first..last}
        [] class = "interface" ->
             {[what |-> "interface", at |-> at, from |-> fields] :
                fields \in InterfaceFields(words, words[at].flags, first, last)}
        [] OTHER -> {[what |-> "unknown", at |-> at, from |-> {}]}

(* The objects up to the first that is not well formed.                    *)
ObjectsFrom(words, start) ==
  LET objects[at \in start..(Len(words) + 1)] ==
        IF at > Len(words) \/ ~WellFormed(words, at) THEN {}
        ELSE Taken(words, at)
             \cup (LET next == at + words[at].length \div 4
                   IN  IF next > Len(words) THEN {} ELSE objects[next])
  IN  objects[start]

(* parse_icmp_extensions: nothing, or the evidence.  Objects are read only *)
(* under a checksum that is right, or absent (zero).                       *)
ParseExtensions(quoted, words, sum) ==
  {[trusted |-> sum \in {"right", "absent"},
    objects |-> IF sum \in {"right", "absent"} THEN ObjectsFrom(words, w + 1) ELSE {}] :
     w \in ExtensionStart(quoted, words)}
=============================================================================
