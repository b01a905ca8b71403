------------------------------ MODULE Coverage ------------------------------
(***************************************************************************)
(* The detection bound of CAP (stats.py:13-33).  Probabilities are         *)
(* fractions of a common denominator.  The code computes with rounded      *)
(* logarithms and powers.  Between fractions like these a rounding decides *)
(* ties only: where (1 - p)^n is delta itself, the computed quotient may   *)
(* come out at n or beside it, and the computed power on either side of    *)
(* delta.  What is computed is therefore a set of outcomes.                *)
(***************************************************************************)
EXTENDS Integers, Sequences, FiniteSetsExt

CONSTANTS
  Denominator,     (* of the probabilities                                 *)
  Probabilities,   (* values of min_detectable_ and miss_probability       *)
  SampleBound      (* more samples than any bound here needs               *)

(* The product of a sequence of numbers.                                   *)
Product(factors) ==
  LET product[i \in 0..Len(factors)] == IF i = 0 THEN 1 ELSE product[i - 1] * factors[i]
  IN  product[Len(factors)]

Power(base, n) == Product([i \in 1..n |-> base])

(* (1 - p)^n against delta, over the denominator they have in common.      *)
Missed(p, n) == Power(Denominator - p, n) * Denominator
Allowed(n, delta) == delta * Power(Denominator, n)

BoundMet(p, n, delta) == Missed(p, n) <= Allowed(n, delta)
Tie(p, n, delta)      == Missed(p, n) = Allowed(n, delta)

(* validate_probability: strictly between 0 and 1.                         *)
ASSUME CoverageAssumption ==
  /\ Denominator \in Nat /\ SampleBound \in Nat
  /\ Probabilities \subseteq 1..(Denominator - 1)
  /\ \A p, delta \in Probabilities : BoundMet(p, SampleBound, delta)

(* log(delta) / log1p(-p) is how often the factor 1 - p goes into delta.   *)
(* In halves: 2n is n times exactly, 2n + 1 is between n and n + 1 times.  *)
Quotient(p, delta) ==
  LET whole == Max({n \in 0..SampleBound : Missed(p, n) >= Allowed(n, delta)})
  IN  IF Tie(p, whole, delta) THEN 2 * whole ELSE 2 * whole + 1

(* What the division may give: a whole quotient may come out beside it.    *)
Computed(quotient) ==
  IF quotient % 2 = 0 THEN (quotient - 1)..(quotient + 1) ELSE {quotient}

Ceiling(quotient) == (quotient + 1) \div 2

(* Fault: the quotient of the logarithms truncated.                        *)
RequiredTruncated(p, delta) ==
  {Max({1, quotient \div 2}) : quotient \in Computed(Quotient(p, delta))}

RequiredSamples(p, delta) ==
  {Max({1, Ceiling(quotient)}) : quotient \in Computed(Quotient(p, delta))}

(* miss_probability_bound(p, n) <= delta, as the certificate compares them *)
(* (controller.py:1029-1035).                                              *)
WithinBound(p, n, delta) ==
  IF Tie(p, n, delta) THEN BOOLEAN ELSE {BoundMet(p, n, delta)}

(* Drawing n flows one after another, without replacement, from those that *)
(* are not the main flow: how many draws there are, and in how many of     *)
(* them no flow is among the `hit` that show an outcome                    *)
(* (controller.py:340-357).                                                *)
Draws(others, n) == Product([i \in 1..n |-> others - i + 1])
MissingDraws(others, hit, n) == Draws(others - hit, n)
=============================================================================
