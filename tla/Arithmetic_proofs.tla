------------------------- MODULE Arithmetic_proofs -------------------------
(***************************************************************************)
(* What the pure algorithms compute, for every input: checksums and the    *)
(* echo probe's compensation, the walk through the objects of an           *)
(* extension and what it recovers, the number of samples and what drawing  *)
(* them without replacement misses.                                        *)
(*                                                                         *)
(* The algorithms are recursive functions, that is, values chosen among    *)
(* the functions that satisfy a recursion.  Each part shows first that     *)
(* there is such a function, then what every such function satisfies,      *)
(* both by a least counterexample.                                         *)
(***************************************************************************)
EXTENDS MCArithmetic, SequenceTheorems, WellFoundedInduction, TLAPS

(* A set of numbers that is not empty has a least one: how recursive       *)
(* functions are reasoned about here, by their least counterexample.       *)
LEMMA LeastCase ==
  ASSUME NEW S \in SUBSET Nat, S # {}
  PROVE  \E n \in S : \A m \in S : n <= m
<1> DEFINE R == OpToRel(<, Nat)
<1>1. IsWellFoundedOn(R, Nat)
  BY NatLessThanWellFounded
<1>2. R = {p \in Nat \X Nat : p[1] < p[2]}
  BY DEF OpToRel
<1>3. \A x, y \in Nat : <<x, y>> \in R <=> x < y
  BY <1>2
<1> HIDE DEF R
<1>4. PICK n \in S : \A m \in S : ~(<<m, n>> \in R)
  BY <1>1, WFMin
<1>5. \A m \in S : n <= m
  <2> TAKE m \in S
  <2>1. m \in Nat /\ n \in Nat
    OBVIOUS
  <2>2. ~(m < n)
    BY <2>1, <1>3, <1>4
  <2> QED BY <2>1, <2>2
<1> QED BY <1>5

Fold(f, n) == IF n <= Full THEN n ELSE f[(n % (Full + 1)) + (n \div (Full + 1))]

(* Folded as the value of a function chosen to satisfy its recursion.      *)
LEMMA FoldedIsChosen ==
  ASSUME NEW total
  PROVE Folded(total) = (CHOOSE f : f = [n \in 0..total |-> Fold(f, n)])[total]
BY DEF Folded, Fold

(* Quotient and remainder.                                                 *)
LEMMA Division ==
  ASSUME NEW d \in Nat, d > 0, NEW n \in Int
  PROVE  /\ n \div d \in Int /\ (n \in Nat => n \div d \in Nat) /\ n % d \in 0..(d - 1)
         /\ n = (d * (n \div d)) + (n % d)
OBVIOUS

(* The range of words.                                                     *)
LEMMA FullType == Full \in Nat /\ Full > 8 /\ Full + 1 = Base * Base
BY ChecksumAssumption DEF Full

(* Two numbers in 1..F that differ by a multiple of F are equal.           *)
LEMMA ResidueUnique ==
  ASSUME NEW F \in Nat, NEW a \in 1..F, NEW b \in 1..F, NEW k \in Int, NEW l \in Int,
         a + (k * F) = b + (l * F)
  PROVE  a = b
<1>1. (k - l) * F = b - a
  OBVIOUS
<1>2. CASE k = l
  BY <1>2
<1>3. CASE k > l
  <2>1. (k - l) * F >= F
    BY <1>3
  <2> QED BY <1>1, <2>1
<1>4. CASE k < l
  <2>1. (l - k) * F >= F
    BY <1>4
  <2>2. (l - k) * F = a - b
    OBVIOUS
  <2> QED BY <2>1, <2>2
<1> QED BY <1>2, <1>3, <1>4

(* What folding leaves of a number.                                        *)
Residue(n) == IF n = 0 THEN 0 ELSE 1 + ((n - 1) % Full)

Means(n, a) ==
  /\ a \in 0..Full /\ (n = 0 <=> a = 0)
  /\ \E k \in Int : n = a + (k * Full)

(* Every number has a meaning: its residue, in 1..Full unless it is zero.  *)
LEMMA ResidueMeans ==
  ASSUME NEW n \in Nat
  PROVE  Means(n, Residue(n))
<1>1. CASE n = 0
  <2>1. 0 = 0 + (0 * Full) /\ 0 \in 0..Full /\ 0 \in Int
    BY FullType
  <2> QED BY <1>1, <2>1 DEF Means, Residue
<1>2. CASE n # 0
  <2> DEFINE q == (n - 1) \div Full
             r == (n - 1) % Full
  <2>1. n - 1 \in Nat
    BY <1>2
  <2>2. q \in Nat /\ r \in 0..(Full - 1) /\ n - 1 = (Full * q) + r
    BY <2>1, FullType, Division
  <2>3. Residue(n) = 1 + r
    BY <1>2 DEF Residue
  <2> HIDE DEF q, r
  <2>4. n = (1 + r) + (q * Full)
    BY <2>2, FullType
  <2>5. 1 + r \in 1..Full
    BY <2>2, FullType
  <2> QED BY <1>2, <2>2, <2>3, <2>4, <2>5, FullType DEF Means
<1> QED BY <1>1, <1>2

(* A number has only one meaning.                                          *)
LEMMA MeaningUnique ==
  ASSUME NEW n \in Nat, NEW a, NEW b, Means(n, a), Means(n, b)
  PROVE  a = b
<1>1. CASE n = 0
  BY <1>1 DEF Means
<1>2. CASE n # 0
  <2>1. a \in 1..Full /\ b \in 1..Full
    BY <1>2, FullType DEF Means
  <2>2. PICK k \in Int : n = a + (k * Full)
    BY DEF Means
  <2>3. PICK l \in Int : n = b + (l * Full)
    BY DEF Means
  <2> QED BY <2>1, <2>2, <2>3, FullType, ResidueUnique
<1> QED BY <1>1, <1>2

Once(n) == (n % (Full + 1)) + (n \div (Full + 1))

(* Adding the carry once makes a number smaller and keeps its meaning.     *)
LEMMA OnceKeeps ==
  ASSUME NEW n \in Nat, n > Full
  PROVE  /\ Once(n) \in 1..(n - 1)
         /\ \A a : Means(Once(n), a) <=> Means(n, a)
<1> DEFINE q == n \div (Full + 1)
           r == n % (Full + 1)
<1>1. q \in Nat /\ r \in 0..Full /\ n = ((Full + 1) * q) + r
  BY FullType, Division
<1>2. Once(n) = r + q
  BY DEF Once
<1> HIDE DEF q, r
<1>3. n = (r + q) + (q * Full)
  BY <1>1, FullType
<1>4. q >= 1
  BY <1>1, <1>3, FullType
<1>5. q * Full >= 1
  BY <1>1, <1>4, FullType
<1>6. r + q \in 1..(n - 1)
  <2> DEFINE p == q * Full
  <2>1. p \in Int /\ p >= 1 /\ n = (r + q) + p
    BY <1>1, <1>3, <1>5, FullType
  <2> HIDE DEF p
  <2> QED BY <1>1, <1>4, <2>1
<1>7. ASSUME NEW a, Means(r + q, a) PROVE Means(n, a)
  <2>1. PICK k \in Int : r + q = a + (k * Full)
    BY <1>7 DEF Means
  <2>2. a \in Int /\ n = a + ((k + q) * Full) /\ k + q \in Int
    BY <1>1, <1>3, <1>7, <2>1, FullType DEF Means
  <2> QED BY <1>6, <1>7, <2>2, FullType DEF Means
<1>8. ASSUME NEW a, Means(n, a) PROVE Means(r + q, a)
  <2>1. PICK k \in Int : n = a + (k * Full)
    BY <1>8 DEF Means
  <2>2. a \in Int /\ r + q = a + ((k - q) * Full) /\ k - q \in Int
    BY <1>1, <1>3, <1>8, <2>1, FullType DEF Means
  <2> QED BY <1>6, <1>8, <2>2, FullType DEF Means
<1> QED BY <1>2, <1>6, <1>7, <1>8

(* Any function that satisfies the recursion keeps the meaning.            *)
LEMMA FoldMeans ==
  ASSUME NEW total \in Nat, NEW f, f = [n \in 0..total |-> Fold(f, n)]
  PROVE  \A n \in 0..total : Means(n, f[n])
<1> DEFINE S == {n \in 0..total : ~Means(n, f[n])}
<1>1. SUFFICES ASSUME S # {} PROVE FALSE
  OBVIOUS
<1>2. PICK n \in S : \A m \in S : n <= m
  <2>1. S \in SUBSET Nat
    OBVIOUS
  <2> HIDE DEF S
  <2> QED BY <1>1, <2>1, LeastCase
<1>3. n \in 0..total /\ n \in Nat /\ ~Means(n, f[n])
  OBVIOUS
<1>4. f[n] = Fold(f, n)
  BY <1>3
<1>5. CASE n <= Full
  <2>1. f[n] = n
    BY <1>4, <1>5 DEF Fold
  <2>2. n = n + (0 * Full)
    BY <1>3, FullType
  <2> QED BY <1>3, <1>5, <2>1, <2>2, FullType DEF Means
<1>6. CASE ~(n <= Full)
  <2>1. f[n] = f[Once(n)]
    BY <1>4, <1>6 DEF Fold, Once
  <2>2. n > Full
    BY <1>3, <1>6, FullType
  <2>3. /\ Once(n) \in 1..(n - 1)
        /\ \A a : Means(Once(n), a) <=> Means(n, a)
    BY <1>3, <2>2, OnceKeeps
  <2>4. Once(n) \in 0..total /\ ~(n <= Once(n))
    BY <1>3, <2>3
  <2>5. Means(Once(n), f[Once(n)])
    BY <1>2, <2>4
  <2> QED BY <1>3, <2>1, <2>3, <2>5
<1> QED BY <1>5, <1>6

(* There is a function that satisfies the recursion.                       *)
LEMMA FoldExists ==
  ASSUME NEW total \in Nat
  PROVE  \E f : f = [n \in 0..total |-> Fold(f, n)]
<1> DEFINE g == [n \in 0..total |-> Residue(n)]
<1>1. ASSUME NEW n \in 0..total PROVE Residue(n) = Fold(g, n)
  <2>0. n \in Nat /\ Means(n, Residue(n))
    BY ResidueMeans
  <2>1. CASE n <= Full
    <3>1. n = n + (0 * Full)
      BY FullType
    <3>2. Means(n, n)
      BY <2>1, <3>1, FullType DEF Means
    <3> QED BY <2>0, <2>1, <3>2, MeaningUnique DEF Fold
  <2>2. CASE ~(n <= Full)
    <3>1. n > Full
      BY <2>0, <2>2, FullType
    <3>2. /\ Once(n) \in 1..(n - 1)
          /\ \A a : Means(Once(n), a) <=> Means(n, a)
      BY <2>0, <3>1, OnceKeeps
    <3>3. Once(n) \in 0..total /\ Once(n) \in Nat
      BY <3>2
    <3>4. Fold(g, n) = Residue(Once(n))
      BY <2>2, <3>3 DEF Fold, Once
    <3>5. Means(n, Residue(Once(n)))
      BY <3>2, <3>3, ResidueMeans
    <3> QED BY <2>0, <3>4, <3>5, MeaningUnique
  <2> QED BY <2>1, <2>2
<1>2. g = [n \in 0..total |-> Fold(g, n)]
  <2> HIDE DEF g
  <2>1. g = [n \in 0..total |-> Residue(n)]
    BY DEF g
  <2> QED BY <1>1, <2>1
<1> QED BY <1>2

(* Folding keeps the meaning: a sum modulo Full, zero only for zero.       *)
LEMMA FoldedMeans ==
  ASSUME NEW total \in Nat
  PROVE  Means(total, Folded(total))
<1> DEFINE f == CHOOSE f : f = [n \in 0..total |-> Fold(f, n)]
<1>1. f = [n \in 0..total |-> Fold(f, n)]
  BY FoldExists
<1>2. Folded(total) = f[total]
  BY FoldedIsChosen
<1> HIDE DEF f
<1>3. total \in 0..total
  OBVIOUS
<1> QED BY <1>1, <1>2, <1>3, FoldMeans
-----------------------------------------------------------------------------
(* Sums of words.                                                          *)

WordAt(data, i) == (data[2 * i - 1] * Base) + data[2 * i]

IsSum(f, data, n) ==
  f = [i \in 0..n |-> IF i = 0 THEN 0 ELSE f[i - 1] + (data[2 * i - 1] * Base) + data[2 * i]]

(* The sum as the value of a function chosen to satisfy its recursion.     *)
LEMMA SumIsChosen ==
  ASSUME NEW data
  PROVE OnesComplementSum(data) =
          Folded((CHOOSE f : IsSum(f, Padded(data), Len(Padded(data)) \div 2))
                 [Len(Padded(data)) \div 2])
BY DEF OnesComplementSum, IsSum

(* There is a function that satisfies it.                                  *)
LEMMA SumExists ==
  ASSUME NEW data, NEW n \in Nat
  PROVE  \E f : IsSum(f, data, n)
<1> DEFINE S == {i \in Nat : ~\E f : IsSum(f, data, i)}
<1>1. SUFFICES ASSUME S # {} PROVE FALSE
  OBVIOUS
<1>2. PICK m \in S : \A i \in S : m <= i
  <2>1. S \in SUBSET Nat
    OBVIOUS
  <2> HIDE DEF S
  <2> QED BY <1>1, <2>1, LeastCase
<1>3. m \in Nat /\ ~\E f : IsSum(f, data, m)
  OBVIOUS
<1>4. CASE m = 0
  <2> DEFINE f == [i \in 0..m |-> 0]
  <2>1. IsSum(f, data, m)
    BY <1>4 DEF IsSum
  <2> QED BY <1>3, <2>1
<1>5. CASE m # 0
  <2>1. m - 1 \in Nat /\ ~(m <= m - 1)
    BY <1>3, <1>5
  <2>2. PICK g : IsSum(g, data, m - 1)
    BY <1>2, <2>1
  <2> DEFINE next == g[m - 1] + (data[2 * m - 1] * Base) + data[2 * m]
             f == [i \in 0..m |-> IF i = m THEN next ELSE g[i]]
  <2>3. ASSUME NEW i \in 0..m
        PROVE  f[i] = IF i = 0 THEN 0 ELSE f[i - 1] + (data[2 * i - 1] * Base) + data[2 * i]
    <3>1. CASE i = m
      <4>1. f[i] = next /\ i - 1 \in 0..m /\ i - 1 # m /\ i # 0
        BY <1>3, <1>5, <3>1
      <4>2. f[i - 1] = g[i - 1]
        BY <4>1
      <4> QED BY <3>1, <4>1, <4>2
    <3>2. CASE i # m
      <4>1. i \in 0..(m - 1) /\ f[i] = g[i]
        BY <1>3, <3>2
      <4>2. g[i] = IF i = 0 THEN 0 ELSE g[i - 1] + (data[2 * i - 1] * Base) + data[2 * i]
        BY <2>2, <4>1 DEF IsSum
      <4>3. i # 0 => i - 1 \in 0..m /\ i - 1 # m
        BY <1>3, <4>1
      <4>4. i # 0 => f[i - 1] = g[i - 1]
        BY <4>3
      <4> QED BY <4>1, <4>2, <4>4
    <3> QED BY <3>1, <3>2
  <2>4. f = [i \in 0..m |-> f[i]]
    OBVIOUS
  <2> HIDE DEF f
  <2>5. IsSum(f, data, m)
    BY <2>3, <2>4 DEF IsSum
  <2> QED BY <1>3, <2>5
<1> QED BY <1>4, <1>5

(* The first n words of data are made of numbers.                          *)
Numbers(data, n) == \A j \in 1..(2 * n) : data[j] \in Nat

(* Word p of n is zero in d, and e differs from d there only.              *)
FillsZero(d, e, n, p) ==
  /\ d[2 * p - 1] = 0 /\ d[2 * p] = 0
  /\ \A j \in 1..(2 * n) : j \notin {2 * p - 1, 2 * p} => e[j] = d[j]

(* Partial sums are numbers.                                               *)
LEMMA SumType ==
  ASSUME NEW data, NEW n \in Nat, Numbers(data, n),
         NEW f, IsSum(f, data, n)
  PROVE  \A i \in 0..n : f[i] \in Nat
<1> DEFINE S == {i \in 0..n : f[i] \notin Nat}
<1>1. SUFFICES ASSUME S # {} PROVE FALSE
  OBVIOUS
<1>2. PICK m \in S : \A i \in S : m <= i
  <2>1. S \in SUBSET Nat
    OBVIOUS
  <2> HIDE DEF S
  <2> QED BY <1>1, <2>1, LeastCase
<1>3. m \in 0..n /\ m \in Nat /\ f[m] \notin Nat
  OBVIOUS
<1>4. f[m] = IF m = 0 THEN 0 ELSE f[m - 1] + (data[2 * m - 1] * Base) + data[2 * m]
  BY <1>3 DEF IsSum
<1>5. m # 0
  BY <1>3, <1>4
<1>6. m - 1 \in 0..n /\ ~(m <= m - 1)
  BY <1>3, <1>5
<1>7. f[m - 1] \in Nat
  BY <1>2, <1>6
<1>8. data[2 * m - 1] \in Nat /\ data[2 * m] \in Nat
  <2>1. 2 * m - 1 \in 1..(2 * n) /\ 2 * m \in 1..(2 * n)
    BY <1>3, <1>5
  <2> QED BY <2>1 DEF Numbers
<1>9. data[2 * m - 1] * Base \in Nat
  BY <1>8, ChecksumAssumption
<1> QED BY <1>3, <1>4, <1>5, <1>7, <1>8, <1>9

(* Where a word was zero, another one adds itself to the sum.              *)
LEMMA SumReplaced ==
  ASSUME NEW n \in Nat, NEW p \in 1..n, NEW d, NEW e,
         Numbers(d, n), Numbers(e, n), FillsZero(d, e, n, p)
  PROVE  \A f, g : IsSum(f, d, n) /\ IsSum(g, e, n) => g[n] = f[n] + WordAt(e, p)
<1> SUFFICES ASSUME NEW f, IsSum(f, d, n), NEW g, IsSum(g, e, n)
             PROVE  g[n] = f[n] + WordAt(e, p)
  OBVIOUS
<1> DEFINE S == {i \in 0..n : g[i] # f[i] + (IF i < p THEN 0 ELSE WordAt(e, p))}
<1>0. \A i \in 0..n : f[i] \in Nat /\ g[i] \in Nat
  BY SumType
<1>1. S = {} => g[n] = f[n] + WordAt(e, p)
  <2>1. n \in 0..n /\ ~(n < p)
    OBVIOUS
  <2> QED BY <2>1
<1>2. SUFFICES ASSUME S # {} PROVE FALSE
  BY <1>1
<1>3. PICK m \in S : \A i \in S : m <= i
  <2>1. S \in SUBSET Nat
    OBVIOUS
  <2> HIDE DEF S
  <2> QED BY <1>2, <2>1, LeastCase
<1>4. m \in 0..n /\ m \in Nat /\ g[m] # f[m] + (IF m < p THEN 0 ELSE WordAt(e, p))
  OBVIOUS
<1>5. /\ f[m] = IF m = 0 THEN 0 ELSE f[m - 1] + (d[2 * m - 1] * Base) + d[2 * m]
      /\ g[m] = IF m = 0 THEN 0 ELSE g[m - 1] + (e[2 * m - 1] * Base) + e[2 * m]
  BY <1>4 DEF IsSum
<1>6. m # 0
  BY <1>4, <1>5
<1>7. m - 1 \in 0..n /\ ~(m <= m - 1)
  BY <1>4, <1>6
<1>8. g[m - 1] = f[m - 1] + (IF m - 1 < p THEN 0 ELSE WordAt(e, p))
  BY <1>3, <1>7
<1>9. /\ f[m - 1] \in Nat /\ g[m - 1] \in Nat /\ WordAt(e, p) \in Int
      /\ d[2 * m - 1] * Base \in Int /\ e[2 * m - 1] * Base \in Int
      /\ d[2 * m] \in Int /\ e[2 * m] \in Int
  <2>1. /\ 2 * m - 1 \in 1..(2 * n) /\ 2 * m \in 1..(2 * n)
        /\ 2 * p - 1 \in 1..(2 * n) /\ 2 * p \in 1..(2 * n)
    BY <1>4, <1>6
  <2>2. /\ d[2 * m - 1] \in Nat /\ d[2 * m] \in Nat /\ e[2 * m - 1] \in Nat /\ e[2 * m] \in Nat
        /\ e[2 * p - 1] \in Nat /\ e[2 * p] \in Nat
    BY <2>1 DEF Numbers
  <2> QED BY <1>0, <1>7, <2>2, ChecksumAssumption DEF WordAt
<1>10. CASE m = p
  <2>1. d[2 * m - 1] * Base = 0 /\ d[2 * m] = 0
    BY <1>10, ChecksumAssumption DEF FillsZero
  <2>2. WordAt(e, p) = (e[2 * m - 1] * Base) + e[2 * m]
    BY <1>10 DEF WordAt
  <2> QED BY <1>4, <1>5, <1>6, <1>8, <1>9, <1>10, <2>1, <2>2
<1>11. CASE m # p
  <2>1. 2 * m - 1 \in 1..(2 * n) /\ 2 * m \in 1..(2 * n)
    BY <1>4, <1>6
  <2>2. {2 * m - 1, 2 * m} \cap {2 * p - 1, 2 * p} = {}
    BY <1>4, <1>11
  <2>3. e[2 * m - 1] = d[2 * m - 1] /\ e[2 * m] = d[2 * m]
    BY <2>1, <2>2 DEF FillsZero
  <2>4. m - 1 < p <=> m < p
    BY <1>4, <1>11
  <2> QED BY <1>4, <1>5, <1>6, <1>8, <1>9, <2>3, <2>4
<1> QED BY <1>10, <1>11

(* A sequence of n numbers.                                                *)
Data(s, n) == s \in Seq(Nat) /\ Len(s) = n

(* A word put where a zero word was adds itself to the sum.                *)
LEMMA WordAdds ==
  ASSUME NEW n \in Nat, NEW p \in 1..n, NEW word \in Nat,
         NEW d, NEW e, Data(d, 2 * n), Data(e, 2 * n),
         FillsZero(d, e, n, p), WordAt(e, p) = word
  PROVE  \E total \in Nat : /\ OnesComplementSum(d) = Folded(total)
                            /\ OnesComplementSum(e) = Folded(total + word)
<1>0. Len(d) = 2 * n /\ Len(e) = 2 * n
  BY DEF Data
<1>1. Padded(d) = d /\ Padded(e) = e
  BY <1>0 DEF Padded
<1>2. (2 * n) \div 2 = n
  OBVIOUS
<1> DEFINE f == CHOOSE f : IsSum(f, d, n)
           g == CHOOSE g : IsSum(g, e, n)
<1>3. OnesComplementSum(d) = Folded(f[n]) /\ OnesComplementSum(e) = Folded(g[n])
  BY <1>0, <1>1, <1>2, SumIsChosen
<1>4. IsSum(f, d, n) /\ IsSum(g, e, n)
  BY SumExists
<1> HIDE DEF f, g
<1>5. Numbers(d, n) /\ Numbers(e, n)
  BY ElementOfSeq DEF Numbers, Data
<1>6. f[n] \in Nat /\ n \in 0..n
  <2>1. \A i \in 0..n : f[i] \in Nat
    BY <1>4, <1>5, SumType
  <2> QED BY <2>1
<1>7. g[n] = f[n] + WordAt(e, p)
  BY <1>4, <1>5, SumReplaced
<1> QED BY <1>3, <1>6, <1>7

-----------------------------------------------------------------------------
(* Checksums.                                                              *)

(* The two bytes of a word are that word again.                            *)
LEMMA BytesOfWord ==
  ASSUME NEW word \in 0..Full
  PROVE  /\ Data(Bytes(word), 2) /\ Bytes(word)[1] \in Nat /\ Bytes(word)[2] \in Nat
         /\ (Bytes(word)[1] * Base) + Bytes(word)[2] = word
<1>1. /\ word \div Base \in Nat /\ word % Base \in Nat
      /\ word = (Base * (word \div Base)) + (word % Base)
  <2>1. word \in Int /\ word \in Nat
    BY FullType
  <2> QED BY <2>1, ChecksumAssumption, Division
<1> DEFINE q == word \div Base
           r == word % Base
<1>2. Bytes(word) = <<q, r>>
  BY DEF Bytes
<1>3. q \in Nat /\ r \in Nat /\ word = (Base * q) + r
  BY <1>1
<1> HIDE DEF q, r
<1>4. (q * Base) + r = word
  BY <1>3, ChecksumAssumption
<1> QED BY <1>2, <1>3, <1>4 DEF Data

(* A folded sum is a word.                                                 *)
LEMMA FoldedType ==
  ASSUME NEW total \in Nat
  PROVE  Folded(total) \in 0..Full
BY FoldedMeans DEF Means

(* Whatever a total may mean is what folding makes of it.                  *)
LEMMA FoldedIs ==
  ASSUME NEW total \in Nat, NEW a, Means(total, a)
  PROVE  Folded(total) = a
BY FoldedMeans, MeaningUnique

(* A sum and its complement add to all ones.                               *)
LEMMA ComplementAdds ==
  ASSUME NEW total \in Nat
  PROVE  Folded(total + (Full - Folded(total))) = Full
<1> DEFINE a == Folded(total)
<1>1. Means(total, a)
  BY FoldedMeans
<1> HIDE DEF a
<1>2. PICK k \in Int : total = a + (k * Full)
  BY <1>1 DEF Means
<1>3. a \in 0..Full /\ (total = 0 <=> a = 0)
  BY <1>1 DEF Means
<1>4. total + (Full - a) \in Nat /\ total + (Full - a) # 0
  BY <1>3, FullType
<1>5. total + (Full - a) = Full + (k * Full)
  BY <1>2, <1>3, FullType
<1>6. Means(total + (Full - a), Full)
  BY <1>2, <1>4, <1>5, FullType DEF Means
<1> QED BY <1>4, <1>6, FoldedIs DEF a

(* A header sealed with its checksum sums to all ones.                     *)
LEMMA SealedSums ==
  ASSUME NEW n \in Nat, NEW p \in 1..n, NEW header, Data(header, 2 * n),
         header[2 * p - 1] = 0, header[2 * p] = 0
  PROVE  OnesComplementSum(Sealed(header, 2 * p - 1)) = Full
<1> DEFINE word == InternetChecksum(header)
           sealed == Sealed(header, 2 * p - 1)
<1>0. OnesComplementSum(header) \in 0..Full
  <2>1. FillsZero(header, header, n, p)
    BY DEF FillsZero
  <2>2. WordAt(header, p) = 0
    BY ChecksumAssumption DEF WordAt
  <2>3. PICK total \in Nat : OnesComplementSum(header) = Folded(total)
    BY <2>1, <2>2, WordAdds
  <2> QED BY <2>3, FoldedType
<1>1. word \in 0..Full /\ word \in Nat /\ word = Full - OnesComplementSum(header)
  BY <1>0, FullType DEF InternetChecksum
<1>2. /\ Bytes(word)[1] \in Nat /\ Bytes(word)[2] \in Nat
      /\ (Bytes(word)[1] * Base) + Bytes(word)[2] = word
  BY <1>1, BytesOfWord
<1>3. sealed = [i \in 1..(2 * n) |-> IF i = 2 * p - 1 THEN Bytes(word)[1]
                                     ELSE IF i = 2 * p THEN Bytes(word)[2] ELSE header[i]]
  <2>1. DOMAIN header = 1..(2 * n)
    BY DEF Data
  <2> QED BY <2>1 DEF Sealed
<1> HIDE DEF word, sealed
<1>4. \A i \in 1..(2 * n) : sealed[i] \in Nat
  <2>1. \A i \in 1..(2 * n) : header[i] \in Nat
    BY ElementOfSeq DEF Data
  <2> QED BY <1>2, <1>3, <2>1
<1>5. Data(sealed, 2 * n)
  <2>1. 2 * n \in Nat /\ sealed \in [1..(2 * n) -> Nat]
    BY <1>3, <1>4
  <2> QED BY <2>1 DEF Data
<1>6. WordAt(sealed, p) = word
  <2>1. sealed[2 * p - 1] = Bytes(word)[1] /\ sealed[2 * p] = Bytes(word)[2]
    BY <1>3
  <2> QED BY <1>2, <2>1 DEF WordAt
<1>7. FillsZero(header, sealed, n, p)
  BY <1>3 DEF FillsZero
<1>8. PICK total \in Nat : /\ OnesComplementSum(header) = Folded(total)
                           /\ OnesComplementSum(sealed) = Folded(total + word)
  BY <1>1, <1>5, <1>6, <1>7, WordAdds
<1> QED BY <1>1, <1>8, ComplementAdds DEF sealed

(* The compensation word moves the sum to that of the stable checksum.     *)
LEMMA CompensationIs ==
  ASSUME NEW data, NEW total \in Nat, OnesComplementSum(data) = Folded(total)
  PROVE  /\ Compensation(data) \in 1..Full
         /\ Folded(total + Compensation(data)) = Full - Stable
<1> DEFINE a == Folded(total)
           c == Compensation(data)
           n == (Full - Stable) - a
           r == n % Full
           q == n \div Full
<1>1. Means(total, a)
  BY FoldedMeans
<1>2. c = IF r = 0 THEN Full ELSE r
  BY DEF Compensation
<1>3. a \in 0..Full /\ Stable \in 1..(Full - 1) /\ n \in Int
  BY <1>1, ChecksumAssumption, FullType DEF Means
<1>4. q \in Int /\ r \in 0..(Full - 1) /\ n = (Full * q) + r
  <2> HIDE DEF n
  <2> QED BY <1>3, FullType, Division
<1>5. (Full - Stable) - a = (Full * q) + r
  BY <1>4
<1> HIDE DEF a, c, n, r, q
<1>6. PICK k \in Int : total = a + (k * Full)
  BY <1>1 DEF Means
<1>7. c \in 1..Full
  BY <1>2, <1>4, FullType
<1>8. total + c \in Nat /\ total + c # 0
  BY <1>7, FullType
<1>9. PICK m \in Int : total + c = (Full - Stable) + (m * Full)
  <2>1. CASE r = 0
    <3>1. total + c = (Full - Stable) + (((k - q) + 1) * Full)
      BY <1>2, <1>3, <1>4, <1>5, <1>6, <2>1, FullType
    <3> QED BY <1>4, <3>1
  <2>2. CASE r # 0
    <3>1. total + c = (Full - Stable) + ((k - q) * Full)
      BY <1>2, <1>3, <1>4, <1>5, <1>6, <2>2, FullType
    <3> QED BY <1>4, <3>1
  <2> QED BY <2>1, <2>2
<1> DEFINE aim == Full - Stable
<1>10. aim \in 0..Full /\ aim # 0
  BY <1>3, FullType
<1>11. Means(total + c, aim)
  <2>1. total + c = aim + (m * Full)
    BY <1>9
  <2> HIDE DEF aim
  <2> QED BY <1>8, <1>10, <2>1 DEF Means
<1>12. Folded(total + c) = aim
  BY <1>8, <1>11, FoldedIs
<1> QED BY <1>7, <1>12 DEF c

-----------------------------------------------------------------------------
(* The echo probe.                                                         *)

(* u is s followed by t, of m and n numbers.                               *)
Joins(u, s, t, m, n) ==
  /\ Data(u, m + n)
  /\ \A i \in 1..m : u[i] = s[i]
  /\ \A i \in 1..n : u[m + i] = t[i]

(* Concatenation joins.                                                    *)
LEMMA Joined ==
  ASSUME NEW s, NEW t, NEW m \in Nat, NEW n \in Nat, Data(s, m), Data(t, n)
  PROVE  Joins(s \o t, s, t, m, n)
<1> DEFINE u == s \o t
<1>1. u \in Seq(Nat) /\ Len(u) = Len(s) + Len(t)
  BY ConcatProperties DEF Data
<1>2. \A i \in 1..Len(s) + Len(t) : u[i] = IF i <= Len(s) THEN s[i] ELSE t[i - Len(s)]
  BY ConcatProperties DEF Data
<1>3. Len(s) = m /\ Len(t) = n
  BY DEF Data
<1> HIDE DEF u
<1>4. Data(u, m + n)
  BY <1>1, <1>3 DEF Data
<1>5. \A i \in 1..m + n : u[i] = IF i <= m THEN s[i] ELSE t[i - m]
  BY <1>2, <1>3
<1>6. \A i \in 1..m : u[i] = s[i]
  BY <1>5
<1>7. ASSUME NEW i \in 1..n PROVE u[m + i] = t[i]
  <2>1. m + i \in 1..(m + n) /\ ~(m + i <= m) /\ (m + i) - m = i
    OBVIOUS
  <2> QED BY <1>5, <2>1
<1> QED BY <1>4, <1>6, <1>7 DEF Joins, u

(* What is put in front is the front.                                      *)
LEMMA FrontOfJoin ==
  ASSUME NEW m \in Nat, m # 0, NEW n \in Nat, NEW s, NEW t, Data(s, m), Data(t, n)
  PROVE  SubSeq(s \o t, 1, m) = s
<1>1. s \in Seq(Nat) /\ t \in Seq(Nat) /\ Len(s) = m /\ 1 \in 1..Len(s) /\ m \in 1..Len(s)
  BY DEF Data
<1>2. SubSeq(s \o t, 1, m) = SubSeq(s, 1, m)
  BY <1>1, SubSeqOfConcat1
<1>3. SubSeq(s, 1, Len(s)) = s
  BY <1>1, SubSeqFull
<1> QED BY <1>1, <1>2, <1>3

Associates(s, t, u) == s \o (t \o u) = (s \o t) \o u

(* Where the parentheses are does not matter.                              *)
LEMMA JoinedInAnyOrder ==
  ASSUME NEW l, NEW m, NEW n, NEW s, NEW t, NEW u, Data(s, l), Data(t, m), Data(u, n)
  PROVE  Associates(s, t, u)
<1>1. s \in Seq(Nat) /\ t \in Seq(Nat) /\ u \in Seq(Nat)
  BY DEF Data
<1> QED BY <1>1, ConcatAssociative DEF Associates

(* Zeros.                                                                  *)
LEMMA ZerosAre ==
  ASSUME NEW n \in Nat
  PROVE  Data(Zeros(n), n) /\ \A i \in 1..n : Zeros(n)[i] = 0
<1>1. Zeros(n) \in [1..n -> Nat] /\ \A i \in 1..n : Zeros(n)[i] = 0
  BY DEF Zeros
<1> QED BY <1>1 DEF Data

(* The eight bytes of an echo header.                                      *)
LEMMA EchoHeaderIs ==
  ASSUME NEW checksum \in 0..Full, NEW identifier \in 0..Full
  PROVE  LET h == EchoHeader(checksum, identifier)
         IN  /\ Data(h, 8) /\ h[1] = 8 /\ h[2] = 0 /\ h[7] = 0 /\ h[8] = 0
             /\ h[3] = Bytes(checksum)[1] /\ h[4] = Bytes(checksum)[2]
             /\ h[5] = Bytes(identifier)[1] /\ h[6] = Bytes(identifier)[2]
<1> DEFINE c == Bytes(checksum)
           d == Bytes(identifier)
           first == <<8, 0>>
           last == <<0, 0>>
           one == first \o c
           two == one \o d
           h == two \o last
<1>1. EchoHeader(checksum, identifier) = h
  BY DEF EchoHeader
<1>2. Data(c, 2) /\ Data(d, 2)
  BY BytesOfWord
<1>3. /\ Data(first, 2) /\ first[1] = 8 /\ first[2] = 0
      /\ Data(last, 2) /\ last[1] = 0 /\ last[2] = 0
  BY DEF Data
<1> HIDE DEF c, d, first, last
<1>4. Joins(one, first, c, 2, 2)
  BY <1>2, <1>3, Joined
<1> HIDE DEF one
<1>5. Data(one, 4) /\ one[1] = 8 /\ one[2] = 0 /\ one[3] = c[1] /\ one[4] = c[2]
  <2>1. one[2 + 1] = c[1] /\ one[2 + 2] = c[2]
    BY <1>4 DEF Joins
  <2> QED BY <1>3, <1>4, <2>1 DEF Joins
<1>6. Joins(two, one, d, 4, 2)
  BY <1>2, <1>5, Joined
<1> HIDE DEF two
<1>7. /\ Data(two, 6) /\ two[1] = 8 /\ two[2] = 0 /\ two[3] = c[1] /\ two[4] = c[2]
      /\ two[5] = d[1] /\ two[6] = d[2]
  <2>1. two[4 + 1] = d[1] /\ two[4 + 2] = d[2]
    BY <1>6 DEF Joins
  <2> QED BY <1>5, <1>6, <2>1 DEF Joins
<1>8. Joins(h, two, last, 6, 2)
  BY <1>3, <1>7, Joined
<1> HIDE DEF h
<1>9. /\ Data(h, 8) /\ h[1] = 8 /\ h[2] = 0 /\ h[3] = c[1] /\ h[4] = c[2]
      /\ h[5] = d[1] /\ h[6] = d[2] /\ h[7] = 0 /\ h[8] = 0
  <2>1. h[6 + 1] = last[1] /\ h[6 + 2] = last[2]
    BY <1>8 DEF Joins
  <2> QED BY <1>3, <1>7, <1>8, <2>1 DEF Joins
<1> QED BY <1>1, <1>9 DEF c, d

(* The six bytes of a tag.                                                 *)
LEMMA TagIs ==
  ASSUME NEW session \in 0..Full, NEW id \in 0..Full, NEW ttl \in 0..(Base - 1)
  PROVE  Data(Tag(session, id, ttl), 6)
<1> DEFINE a == Bytes(session)
           b == Bytes(id)
           c == <<ttl, 0>>
           both == a \o b
<1>1. ttl \in Nat
  BY ChecksumAssumption
<1>2. Data(a, 2) /\ Data(b, 2) /\ Data(c, 2)
  BY <1>1, BytesOfWord DEF Data
<1>3. Tag(session, id, ttl) = both \o c
  BY DEF Tag
<1> HIDE DEF a, b, c
<1>4. Joins(both, a, b, 2, 2)
  BY <1>2, Joined
<1>5. Data(both, 4)
  BY <1>4 DEF Joins
<1> HIDE DEF both
<1>6. Joins(both \o c, both, c, 4, 2)
  BY <1>2, <1>5, Joined
<1> QED BY <1>3, <1>6 DEF Joins

(* Putting the checksum where the header had zeros keeps everything else.  *)
LEMMA HeaderSealed ==
  ASSUME NEW n \in Nat, NEW rest, Data(rest, 2 * n), NEW identifier \in 0..Full,
         OnesComplementSum(EchoHeader(0, identifier) \o rest) = Full - Stable
  PROVE  /\ InternetChecksum(EchoHeader(0, identifier) \o rest) = Stable
         /\ InternetChecksum(EchoHeader(Stable, identifier) \o rest) = 0
         /\ SubSeq(EchoHeader(Stable, identifier) \o rest, 1, 8) = EchoHeader(Stable, identifier)
<1> DEFINE h0 == EchoHeader(0, identifier)
           h1 == EchoHeader(Stable, identifier)
           d == h0 \o rest
           e == h1 \o rest
           k == n + 4
<1>1. Stable \in 0..Full /\ 0 \in 0..Full /\ Stable \in Nat /\ Full - (Full - Stable) = Stable
  BY ChecksumAssumption, FullType
<1>2. (Bytes(Stable)[1] * Base) + Bytes(Stable)[2] = Stable
  BY <1>1, BytesOfWord
<1>3. Bytes(0)[1] = 0 /\ Bytes(0)[2] = 0
  BY ChecksumAssumption DEF Bytes
<1>4. /\ Data(h0, 8) /\ Data(h1, 8)
      /\ h0[3] = 0 /\ h0[4] = 0 /\ h1[3] = Bytes(Stable)[1] /\ h1[4] = Bytes(Stable)[2]
      /\ \A j \in 1..8 : j \notin {3, 4} => h1[j] = h0[j]
  <2>1. /\ Data(h0, 8) /\ h0[1] = 8 /\ h0[2] = 0 /\ h0[7] = 0 /\ h0[8] = 0
        /\ h0[3] = Bytes(0)[1] /\ h0[4] = Bytes(0)[2]
        /\ h0[5] = Bytes(identifier)[1] /\ h0[6] = Bytes(identifier)[2]
    BY <1>1, EchoHeaderIs
  <2>2. /\ Data(h1, 8) /\ h1[1] = 8 /\ h1[2] = 0 /\ h1[7] = 0 /\ h1[8] = 0
        /\ h1[3] = Bytes(Stable)[1] /\ h1[4] = Bytes(Stable)[2]
        /\ h1[5] = Bytes(identifier)[1] /\ h1[6] = Bytes(identifier)[2]
    BY <1>1, EchoHeaderIs
  <2> HIDE DEF h0, h1
  <2>3. \A j \in 1..8 : j \in {1, 2, 3, 4, 5, 6, 7, 8}
    OBVIOUS
  <2> QED BY <1>3, <2>1, <2>2, <2>3
<1> HIDE DEF h0, h1
<1>5. 2 * n \in Nat /\ 8 + 2 * n = 2 * k /\ k \in Nat /\ 2 \in 1..k
  OBVIOUS
<1>6. Joins(d, h0, rest, 8, 2 * n) /\ Joins(e, h1, rest, 8, 2 * n)
  BY <1>4, <1>5, Joined
<1>7. SubSeq(e, 1, 8) = h1
  <2>1. Data(h1, 8) /\ Data(rest, 2 * n) /\ 8 \in Nat /\ 8 # 0 /\ 2 * n \in Nat
    BY <1>4, <1>5
  <2> QED BY <2>1, FrontOfJoin, Zenon
<1> HIDE DEF d, e
<1>8. Data(d, 2 * k) /\ Data(e, 2 * k)
  BY <1>5, <1>6 DEF Joins
<1> HIDE DEF k
<1>9. /\ \A j \in 1..8 : d[j] = h0[j] /\ e[j] = h1[j]
      /\ \A j \in 1..(2 * n) : d[8 + j] = e[8 + j]
  BY <1>6 DEF Joins
<1>10. FillsZero(d, e, k, 2)
  <2>1. d[3] = 0 /\ d[4] = 0
    BY <1>4, <1>9
  <2>2. ASSUME NEW j \in 1..(2 * k), j \notin {3, 4} PROVE e[j] = d[j]
    <3>1. CASE j \in 1..8
      BY <1>4, <1>9, <2>2, <3>1
    <3>2. CASE j \notin 1..8
      <4>1. j - 8 \in 1..(2 * n) /\ 8 + (j - 8) = j
        BY <1>5, <3>2
      <4> QED BY <1>9, <4>1
    <3> QED BY <3>1, <3>2
  <2> QED BY <2>1, <2>2 DEF FillsZero
<1>11. WordAt(e, 2) = Stable
  <2>1. e[3] = Bytes(Stable)[1] /\ e[4] = Bytes(Stable)[2]
    BY <1>4, <1>9
  <2>2. 2 * 2 - 1 = 3 /\ 2 * 2 = 4
    OBVIOUS
  <2> QED BY <1>2, <2>1, <2>2 DEF WordAt
<1>12. PICK total \in Nat : /\ OnesComplementSum(d) = Folded(total)
                            /\ OnesComplementSum(e) = Folded(total + Stable)
  BY <1>1, <1>5, <1>8, <1>10, <1>11, WordAdds
<1>13. OnesComplementSum(d) = Full - Stable
  BY DEF d, h0
<1>14. Folded(total + Stable) = Full
  BY <1>1, <1>12, <1>13, ComplementAdds
<1>15. InternetChecksum(d) = Stable /\ InternetChecksum(e) = 0
  BY <1>1, <1>12, <1>13, <1>14, FullType DEF InternetChecksum
<1> QED BY <1>7, <1>15 DEF d, e, h0, h1

(* Every even probe is built, whatever its tag: with the stable checksum,  *)
(* which is right, and with the first eight bytes of every other one.      *)
THEOREM EchoProbeStable ==
  ASSUME NEW identifier \in 0..Full, NEW session \in 0..Full, NEW id \in 0..Full,
         NEW ttl \in 0..(Base - 1), NEW size \in Nat, size % 2 = 0
  PROVE  \E packet \in EchoProbe(identifier, session, id, ttl, size) :
           /\ SubSeq(packet, 1, 8) = EchoHeader(Stable, identifier)
           /\ InternetChecksum(packet) = 0
<1> DEFINE tag == Tag(session, id, ttl)
           gap == size - Len(tag) - 2
           z == IF gap > 0 THEN gap ELSE 0
           zeros == Zeros(z)
           body == tag \o zeros
           h == EchoHeader(0, identifier)
           front == h \o body
           none == Zeros(2)
           d == front \o none
           c == Compensation(h \o body \o Zeros(2))
           word == Bytes(c)
           balanced == body \o word
           e == h \o balanced
           checksum == InternetChecksum(e)
<1>1. EchoProbe(identifier, session, id, ttl, size) =
        IF checksum = Stable THEN {EchoHeader(checksum, identifier) \o balanced} ELSE {}
  BY DEF EchoProbe
<1>2. Data(tag, 6)
  BY TagIs
<1>3. PICK n \in Nat : z = 2 * n
  <2>1. size = 2 * (size \div 2) /\ size \div 2 \in Nat
    OBVIOUS
  <2>2. Len(tag) = 6
    BY <1>2 DEF Data
  <2> HIDE DEF tag
  <2>3. z = IF size > 8 THEN size - 8 ELSE 0
    BY <2>2
  <2> HIDE DEF z
  <2>4. CASE size > 8
    <3>1. z = 2 * ((size \div 2) - 4) /\ (size \div 2) - 4 \in Nat
      BY <2>1, <2>3, <2>4
    <3> QED BY <3>1
  <2>5. CASE ~(size > 8)
    <3>1. z = 2 * 0
      BY <2>3, <2>5
    <3> QED BY <3>1
  <2> QED BY <2>4, <2>5
<1> HIDE DEF tag, z
<1>4. z \in Nat /\ Data(zeros, z)
  <2>1. z \in Nat
    BY <1>3
  <2> QED BY <2>1, ZerosAre
<1> HIDE DEF zeros
<1>5. Joins(body, tag, zeros, 6, z)
  BY <1>2, <1>4, Joined
<1>6. Data(body, 6 + z) /\ 6 + z \in Nat
  BY <1>4, <1>5 DEF Joins
<1> HIDE DEF body
<1>7. Data(h, 8)
  <2>1. 0 \in 0..Full
    BY FullType
  <2> QED BY <2>1, EchoHeaderIs
<1> HIDE DEF h
<1> DEFINE m == 8 + (6 + z)
           k == n + 8
<1>8. m \in Nat /\ m + 2 = 2 * k /\ m + 1 = 2 * k - 1 /\ k \in Nat /\ k \in 1..k
  BY <1>3
<1>9. Joins(front, h, body, 8, 6 + z)
  BY <1>6, <1>7, Joined
<1>10. Data(front, m)
  BY <1>9 DEF Joins
<1> HIDE DEF front
<1>11. Data(none, 2) /\ none[1] = 0 /\ none[2] = 0
  BY ZerosAre
<1> HIDE DEF none, m, k
<1>12. Joins(d, front, none, m, 2)
  BY <1>8, <1>10, <1>11, Joined
<1> HIDE DEF d
<1>13. Data(d, 2 * k) /\ d[2 * k - 1] = 0 /\ d[2 * k] = 0
  <2>1. d[m + 1] = none[1] /\ d[m + 2] = none[2]
    BY <1>12 DEF Joins
  <2> QED BY <1>8, <1>11, <1>12, <2>1 DEF Joins
<1>14. PICK total \in Nat : OnesComplementSum(d) = Folded(total)
  <2>1. FillsZero(d, d, k, k)
    BY <1>13 DEF FillsZero
  <2>2. WordAt(d, k) = 0
    BY <1>13, ChecksumAssumption DEF WordAt
  <2> QED BY <1>8, <1>13, <2>1, <2>2, WordAdds
<1>15. c = Compensation(d)
  BY DEF d, front, none
<1> HIDE DEF c
<1>16. c \in 1..Full /\ c \in 0..Full /\ c \in Nat
  <2>1. c \in 1..Full
    BY <1>14, <1>15, CompensationIs
  <2> QED BY <2>1, FullType
<1>17. Data(word, 2) /\ (word[1] * Base) + word[2] = c
  BY <1>16, BytesOfWord
<1> HIDE DEF word
<1>18. Data(balanced, 2 * (n + 4))
  <2>1. Joins(balanced, body, word, 6 + z, 2)
    BY <1>6, <1>17, Joined
  <2>2. (6 + z) + 2 = 2 * (n + 4)
    BY <1>3
  <2> HIDE DEF balanced
  <2> QED BY <2>1, <2>2 DEF Joins
<1>19. e = front \o word
  <2>1. Associates(h, body, word)
    BY <1>6, <1>7, <1>17, JoinedInAnyOrder
  <2> QED BY <2>1 DEF front, Associates
<1> HIDE DEF e, balanced
<1>20. Joins(e, front, word, m, 2)
  BY <1>8, <1>10, <1>17, <1>19, Joined
<1>21. Data(e, 2 * k) /\ e[2 * k - 1] = word[1] /\ e[2 * k] = word[2]
  <2>1. e[m + 1] = word[1] /\ e[m + 2] = word[2]
    BY <1>20 DEF Joins
  <2> QED BY <1>8, <1>20, <2>1 DEF Joins
<1>22. FillsZero(d, e, k, k) /\ WordAt(e, k) = c
  <2>1. ASSUME NEW j \in 1..(2 * k), j \notin {2 * k - 1, 2 * k} PROVE e[j] = d[j]
    <3>1. j \in 1..m
      BY <1>8, <2>1
    <3> QED BY <1>12, <1>20, <3>1 DEF Joins
  <2> QED BY <1>13, <1>17, <1>21, <2>1 DEF FillsZero, WordAt
<1>23. PICK sum \in Nat : /\ OnesComplementSum(d) = Folded(sum)
                          /\ OnesComplementSum(e) = Folded(sum + c)
  BY <1>8, <1>13, <1>16, <1>21, <1>22, WordAdds
<1>24. OnesComplementSum(e) = Full - Stable
  BY <1>15, <1>23, CompensationIs
<1>25. /\ InternetChecksum(e) = Stable
       /\ InternetChecksum(EchoHeader(Stable, identifier) \o balanced) = 0
       /\ SubSeq(EchoHeader(Stable, identifier) \o balanced, 1, 8)
            = EchoHeader(Stable, identifier)
  <2>1. n + 4 \in Nat /\ e = EchoHeader(0, identifier) \o balanced
    BY DEF e, h
  <2> QED BY <1>18, <1>24, <2>1, HeaderSealed
<1> QED BY <1>1, <1>25

-----------------------------------------------------------------------------
(* Extensions.                                                             *)

EndOf(words, o) == o.at - 1 + words[o.at].length \div 4

Used(o) == IF o.what = "interface" THEN UNION {o.from[f] : f \in DOMAIN o.from} ELSE o.from

(* Objects from `start` on, inside the packet and apart.                   *)
Apart(words, found, start) ==
  \A o \in found :
    /\ o.at \in start..Len(words) /\ EndOf(words, o) <= Len(words)
    /\ Used(o) \subseteq (o.at + 1)..EndOf(words, o)
    /\ \A p \in found : o.at < p.at => EndOf(words, o) < p.at

Readable(words) ==
  /\ Len(words) \in Nat
  /\ \A i \in 1..Len(words) : words[i].length \in Nat /\ words[i].flags \subseteq Flags

(* The fields of an interface object lie inside its payload.               *)
LEMMA FieldsInside ==
  ASSUME NEW words, NEW flags \in SUBSET Flags, NEW first \in Nat, NEW last \in Nat,
         NEW fields \in InterfaceFields(words, flags, first, last)
  PROVE  DOMAIN fields = flags /\ \A f \in flags : fields[f] \subseteq first..last
<1> DEFINE index   == IF "ifindex" \in flags THEN 1 ELSE 0
           family  == first + index
           address == IF "address" \in flags
                      THEN IF family <= last /\ words[family].family \in {"ipv4", "ipv6"}
                           THEN 1 + AddressWords(words[family].family) ELSE -1
                      ELSE 0
           name    == family + address
           named   == IF "name" \in flags
                      THEN IF name <= last /\ words[name].name \in 1..64
                           THEN RoundedUp(words[name].name) ELSE -1
                      ELSE 0
           mtu     == name + named
           place   == [ifindex |-> {first}, address |-> (family + 1)..(name - 1),
                       name |-> {w \in name..(mtu - 1) : w <= last}, mtu |-> {mtu}]
<1>1. /\ fields = [f \in flags |-> place[f]]
      /\ "ifindex" \in flags => ~(first > last)
      /\ address # -1 /\ ("address" \in flags => ~(name - 1 > last))
      /\ named # -1
      /\ "mtu" \in flags => ~(mtu > last)
  BY DEF InterfaceFields
<1>2. index \in Nat /\ family \in Nat /\ family >= first
  OBVIOUS
<1>3. address \in Nat
  <2> DEFINE a == 1 + AddressWords(words[family].family)
             known == family <= last /\ words[family].family \in {"ipv4", "ipv6"}
  <2>1. \A x \in {"ipv4", "ipv6"} : AddressWords(x) = 1 \/ AddressWords(x) = 4
    BY DEF AddressWords
  <2>2. known => a \in Nat
    <3> DEFINE x == words[family].family
    <3>1. known => x \in {"ipv4", "ipv6"}
      OBVIOUS
    <3> HIDE DEF x
    <3>2. x \in {"ipv4", "ipv6"} => 1 + AddressWords(x) \in Nat
      BY <2>1
    <3> QED BY <3>1, <3>2 DEF x
  <2>3. address = IF "address" \in flags THEN IF known THEN a ELSE -1 ELSE 0
    OBVIOUS
  <2>4. address # -1
    BY <1>1
  <2> HIDE DEF a, known, address
  <2> QED BY <2>2, <2>3, <2>4
<1> HIDE DEF index, family, address
<1>4. name \in Nat /\ name >= family
  BY <1>2, <1>3
<1> HIDE DEF name
<1>5. named \in Nat
  <2>1. \A x \in 1..64 : RoundedUp(x) \in Nat
    BY DEF RoundedUp
  <2> QED BY <1>1, <2>1
<1> HIDE DEF named
<1>6. mtu \in Nat /\ mtu >= name
  BY <1>4, <1>5
<1> HIDE DEF mtu
<1>7. /\ place["ifindex"] = {first} /\ place["address"] = (family + 1)..(name - 1)
      /\ place["name"] = {w \in name..(mtu - 1) : w <= last} /\ place["mtu"] = {mtu}
  OBVIOUS
<1> HIDE DEF place
<1>8. ASSUME NEW f \in flags PROVE fields[f] \subseteq first..last
  <2>1. fields[f] = place[f]
    BY <1>1
  <2>2. f \in {"ifindex", "address", "name", "mtu"}
    BY DEF Flags
  <2>3. CASE f = "ifindex"
    BY <1>1, <1>7, <2>1, <2>3
  <2>4. CASE f = "address"
    BY <1>1, <1>2, <1>4, <1>7, <2>1, <2>4
  <2>5. CASE f = "name"
    BY <1>2, <1>4, <1>6, <1>7, <2>1, <2>5
  <2>6. CASE f = "mtu"
    BY <1>1, <1>2, <1>4, <1>6, <1>7, <2>1, <2>6
  <2> QED BY <2>2, <2>3, <2>4, <2>5, <2>6
<1> QED BY <1>1, <1>8

(* What is taken from an object that is well formed.                       *)
LEMMA TakenIs ==
  ASSUME NEW words, Readable(words), NEW at \in 1..Len(words), WellFormed(words, at)
  PROVE  LET end   == at - 1 + words[at].length \div 4
             class == words[at].class
         IN  Taken(words, at) =
               CASE class = "mpls" ->
                      {[what |-> "label", at |-> at, from |-> {w}] : w \in (at + 1)..end}
                 [] class = "interface" ->
                      {[what |-> "interface", at |-> at, from |-> fields] :
                         fields \in InterfaceFields(words, words[at].flags, at + 1, end)}
                 [] OTHER -> {[what |-> "unknown", at |-> at, from |-> {}]}
<1> DEFINE size == words[at].length \div 4
           end == at - 1 + size
<1>1. end <= Len(words)
  BY DEF WellFormed
<1>2. (IF end <= Len(words) THEN end ELSE Len(words)) = end
  BY <1>1
<1> QED BY <1>2 DEF Taken

(* What one object adds lies inside it.                                    *)
LEMMA TakenInside ==
  ASSUME NEW words, Readable(words), NEW at \in 1..Len(words), WellFormed(words, at),
         NEW o \in Taken(words, at)
  PROVE  /\ o.at = at /\ EndOf(words, o) \in at..Len(words)
         /\ Used(o) \subseteq (at + 1)..EndOf(words, o)
<1> DEFINE size == words[at].length \div 4
           end  == at - 1 + size
           class == words[at].class
           flags == words[at].flags
<1>1. at \in Nat /\ words[at].length \in Nat /\ flags \subseteq Flags /\ Len(words) \in Nat
  BY DEF Readable
<1>2. size \in Nat /\ size >= 1 /\ at - 1 + size <= Len(words)
  BY <1>1 DEF WellFormed
<1> HIDE DEF size
<1>3. end \in at..Len(words)
  BY <1>1, <1>2
<1>4. Taken(words, at) =
        CASE class = "mpls" -> {[what |-> "label", at |-> at, from |-> {w}] : w \in (at + 1)..end}
          [] class = "interface" ->
               {[what |-> "interface", at |-> at, from |-> fields] :
                  fields \in InterfaceFields(words, flags, at + 1, end)}
          [] OTHER -> {[what |-> "unknown", at |-> at, from |-> {}]}
  BY TakenIs DEF size
<1>5. o.at = at => EndOf(words, o) = end
  BY DEF EndOf, size
<1> HIDE DEF end, class, flags
<1>6. CASE class = "mpls"
  <2>1. PICK w \in (at + 1)..end : o = [what |-> "label", at |-> at, from |-> {w}]
    BY <1>4, <1>6
  <2>2. Used(o) = {w}
    BY <2>1 DEF Used
  <2> QED BY <1>3, <1>5, <2>1, <2>2
<1>7. CASE class = "interface"
  <2>1. PICK fields \in InterfaceFields(words, flags, at + 1, end) :
          o = [what |-> "interface", at |-> at, from |-> fields]
    BY <1>4, <1>7
  <2>2. DOMAIN fields = flags /\ \A f \in flags : fields[f] \subseteq (at + 1)..end
    <3>1. at + 1 \in Nat /\ end \in Nat
      BY <1>1, <1>3
    <3> QED BY <1>1, <3>1, FieldsInside
  <2>3. Used(o) = UNION {fields[f] : f \in DOMAIN fields}
    BY <2>1 DEF Used
  <2> QED BY <1>3, <1>5, <2>1, <2>2, <2>3
<1>8. CASE class \notin {"mpls", "interface"}
  <2>1. o = [what |-> "unknown", at |-> at, from |-> {}]
    BY <1>4, <1>8
  <2>2. Used(o) = {}
    BY <2>1 DEF Used
  <2> QED BY <1>3, <1>5, <2>1, <2>2
<1> QED BY <1>6, <1>7, <1>8

Walk(f, words, at) ==
  IF at > Len(words) \/ ~WellFormed(words, at) THEN {}
  ELSE Taken(words, at)
       \cup (LET next == at + words[at].length \div 4
             IN  IF next > Len(words) THEN {} ELSE f[next])

(* The objects as the value of a function chosen to satisfy its recursion. *)
LEMMA ObjectsAreChosen ==
  ASSUME NEW words, NEW start
  PROVE  ObjectsFrom(words, start) =
           (CHOOSE f : f = [at \in start..(Len(words) + 1) |-> Walk(f, words, at)])[start]
BY DEF ObjectsFrom, Walk

(* The walk advances by at least a word.                                   *)
LEMMA WalkAdvances ==
  ASSUME NEW words, Readable(words), NEW at \in 1..Len(words), WellFormed(words, at)
  PROVE  at + words[at].length \div 4 \in (at + 1)..(Len(words) + 1)
<1>1. at \in Nat /\ words[at].length \in Nat /\ Len(words) \in Nat
  BY DEF Readable
<1> QED BY <1>1 DEF WellFormed

(* There is a function that satisfies it: the walk ends.                   *)
LEMMA WalkExists ==
  ASSUME NEW words, Readable(words), NEW start \in 1..(Len(words) + 1)
  PROVE  \E f : f = [at \in start..(Len(words) + 1) |-> Walk(f, words, at)]
<1> DEFINE N == Len(words) + 1
           Is(f, from) == f = [at \in from..N |-> Walk(f, words, at)]
           S == {k \in 0..Len(words) : ~\E f : Is(f, N - k)}
<1>0. Len(words) \in Nat
  BY DEF Readable
<1>1. S = {} => \E f : Is(f, start)
  <2> DEFINE k == N - start
  <2>1. k \in 0..Len(words) /\ N - k = start
    BY <1>0
  <2> HIDE DEF k, Is
  <2>2. S = {} => \E f : Is(f, N - k)
    BY <2>1
  <2> QED BY <2>1, <2>2
<1>2. SUFFICES ASSUME S # {} PROVE FALSE
  BY <1>1
<1>3. PICK k \in S : \A i \in S : k <= i
  <2>1. S \in SUBSET Nat
    BY <1>0
  <2> HIDE DEF S
  <2> QED BY <1>2, <2>1, LeastCase
<1> DEFINE from == N - k
<1>4. k \in 0..Len(words) /\ from \in 1..N /\ ~\E f : Is(f, from)
  BY <1>0
<1>5. PICK g : k # 0 => Is(g, from + 1)
  <2>1. CASE k = 0
    BY <2>1
  <2>2. CASE k # 0
    <3>1. k - 1 \in 0..Len(words) /\ ~(k <= k - 1) /\ N - (k - 1) = from + 1
      BY <1>0, <1>4, <2>2
    <3> QED BY <1>3, <3>1
  <2> QED BY <2>1, <2>2
<1> DEFINE f == [at \in from..N |-> IF at = from THEN Walk(g, words, from) ELSE g[at]]
<1>6. ASSUME NEW at \in from..N, WellFormed(words, at), ~(at > Len(words)),
             ~(at + words[at].length \div 4 > Len(words))
      PROVE  f[at + words[at].length \div 4] = g[at + words[at].length \div 4]
  <2>1. at \in 1..Len(words)
    BY <1>0, <1>4, <1>6
  <2>2. at + words[at].length \div 4 \in (at + 1)..N
    BY <1>6, <2>1, WalkAdvances
  <2>3. at + words[at].length \div 4 \in from..N /\ at + words[at].length \div 4 # from
    BY <1>0, <1>4, <2>1, <2>2
  <2> QED BY <2>3
<1>7. ASSUME NEW at \in from..N PROVE f[at] = Walk(f, words, at)
  <2>1. Walk(f, words, at) = Walk(g, words, at)
    <3> HIDE DEF f
    <3> QED BY <1>6 DEF Walk
  <2>2. CASE at = from
    BY <2>1, <2>2
  <2>3. CASE at # from
    <3>1. at \in (from + 1)..N /\ k # 0
      BY <1>0, <1>4, <2>3
    <3>2. g[at] = Walk(g, words, at)
      BY <1>5, <3>1
    <3> QED BY <2>1, <2>3, <3>2
  <2> QED BY <2>2, <2>3
<1>8. f = [at \in from..N |-> f[at]]
  OBVIOUS
<1> HIDE DEF f
<1>9. Is(f, from)
  BY <1>7, <1>8
<1> QED BY <1>4, <1>9

(* Any function that satisfies it takes objects inside the packet, apart.  *)
LEMMA WalkInside ==
  ASSUME NEW words, Readable(words), NEW start \in 1..(Len(words) + 1),
         NEW f, f = [at \in start..(Len(words) + 1) |-> Walk(f, words, at)]
  PROVE  \A at \in start..(Len(words) + 1) : Apart(words, f[at], at)
<1> DEFINE N == Len(words) + 1
           S == {k \in 0..(N - start) : ~Apart(words, f[N - k], N - k)}
<1>0. Len(words) \in Nat
  BY DEF Readable
<1>1. S = {} => \A at \in start..N : Apart(words, f[at], at)
  <2> SUFFICES ASSUME S = {}, NEW at \in start..N PROVE Apart(words, f[at], at)
    OBVIOUS
  <2>1. N - at \in 0..(N - start) /\ N - (N - at) = at
    BY <1>0
  <2> QED BY <2>1
<1>2. SUFFICES ASSUME S # {} PROVE FALSE
  BY <1>1
<1>3. PICK k \in S : \A i \in S : k <= i
  <2>1. S \in SUBSET Nat
    BY <1>0
  <2> HIDE DEF S
  <2> QED BY <1>2, <2>1, LeastCase
<1> DEFINE at == N - k
<1>4. k \in 0..(N - start) /\ at \in start..N /\ at \in 1..N /\ ~Apart(words, f[at], at)
  BY <1>0
<1> HIDE DEF at
<1>5. f[at] = Walk(f, words, at)
  BY <1>4
<1>6. CASE at > Len(words) \/ ~WellFormed(words, at)
  BY <1>4, <1>5, <1>6 DEF Walk, Apart
<1>7. CASE ~(at > Len(words)) /\ WellFormed(words, at)
  <2> DEFINE next == at + words[at].length \div 4
             later == IF next > Len(words) THEN {} ELSE f[next]
  <2>1. f[at] = Taken(words, at) \cup later
    BY <1>5, <1>7 DEF Walk
  <2>2. at \in 1..Len(words) /\ at \in Nat
    BY <1>0, <1>4, <1>7
  <2>3. next \in (at + 1)..N
    BY <1>7, <2>2, WalkAdvances
  <2>4. \A o \in Taken(words, at) :
          /\ o.at = at /\ EndOf(words, o) \in at..Len(words)
          /\ Used(o) \subseteq (at + 1)..EndOf(words, o)
    BY <1>7, <2>2, TakenInside
  <2>5. \A o \in Taken(words, at) : EndOf(words, o) = next - 1
    <3>1. \A o \in Taken(words, at) : EndOf(words, o) = at - 1 + words[at].length \div 4
      BY <2>4 DEF EndOf
    <3>2. words[at].length \div 4 \in Int
      <4>1. words[at].length \in Nat
        BY <2>2 DEF Readable
      <4> QED BY <4>1
    <3> QED BY <2>2, <3>1, <3>2
  <2> HIDE DEF next
  <2>6. Apart(words, later, next)
    <3>1. CASE next > Len(words)
      BY <3>1 DEF Apart
    <3>2. CASE ~(next > Len(words))
      <4>1. N - next \in 0..(N - start) /\ ~(k <= N - next) /\ N - (N - next) = next
        BY <1>0, <1>4, <2>2, <2>3 DEF at
      <4> QED BY <1>3, <3>2, <4>1
    <3> QED BY <3>1, <3>2
  <2> HIDE DEF later
  <2>7. Apart(words, f[at], at)
    <3> SUFFICES ASSUME NEW o \in Taken(words, at) \cup later
                 PROVE  /\ o.at \in at..Len(words) /\ EndOf(words, o) <= Len(words)
                        /\ Used(o) \subseteq (o.at + 1)..EndOf(words, o)
                        /\ \A p \in Taken(words, at) \cup later :
                             o.at < p.at => EndOf(words, o) < p.at
      BY <2>1 DEF Apart
    <3>1. \A p \in later : p.at \in next..Len(words)
      BY <2>6 DEF Apart
    <3>2. CASE o \in Taken(words, at)
      <4>1. o.at = at /\ EndOf(words, o) = next - 1 /\ EndOf(words, o) \in at..Len(words)
            /\ Used(o) \subseteq (at + 1)..EndOf(words, o)
        BY <2>4, <2>5, <3>2
      <4>2. ASSUME NEW p \in Taken(words, at) \cup later, o.at < p.at
            PROVE  EndOf(words, o) < p.at
        <5>1. CASE p \in Taken(words, at)
          <6>1. p.at = at
            BY <2>4, <5>1
          <6> QED BY <2>2, <4>1, <4>2, <6>1
        <5>2. CASE p \in later
          <6>1. p.at \in next..Len(words)
            BY <3>1, <5>2
          <6> QED BY <1>0, <2>2, <2>3, <4>1, <6>1
        <5> QED BY <5>1, <5>2
      <4> QED BY <1>0, <2>2, <4>1, <4>2
    <3>3. CASE o \in later
      <4>1. /\ o.at \in next..Len(words) /\ EndOf(words, o) <= Len(words)
            /\ Used(o) \subseteq (o.at + 1)..EndOf(words, o)
            /\ \A p \in later : o.at < p.at => EndOf(words, o) < p.at
        BY <2>6, <3>3 DEF Apart
      <4>2. \A p \in Taken(words, at) : ~(o.at < p.at)
        <5>1. \A p \in Taken(words, at) : p.at = at
          BY <2>4
        <5> QED BY <1>0, <2>2, <2>3, <4>1, <5>1
      <4>3. o.at \in at..Len(words)
        BY <1>0, <2>2, <2>3, <4>1
      <4> QED BY <4>1, <4>2, <4>3
    <3> QED BY <3>2, <3>3
  <2> QED BY <1>4, <2>7
<1> QED BY <1>6, <1>7

(* Whatever the words of an extension are, and however many: the objects   *)
(* the parser takes lie inside the packet, one behind the other, and       *)
(* nothing is taken from outside its object (packet.py:512-602).           *)
THEOREM ObjectsInside ==
  ASSUME NEW words, Readable(words), NEW start \in 1..(Len(words) + 1)
  PROVE  Apart(words, ObjectsFrom(words, start), start)
<1> DEFINE f == CHOOSE f : f = [at \in start..(Len(words) + 1) |-> Walk(f, words, at)]
<1>1. f = [at \in start..(Len(words) + 1) |-> Walk(f, words, at)]
  BY WalkExists
<1>2. ObjectsFrom(words, start) = f[start]
  BY ObjectsAreChosen
<1> HIDE DEF f
<1>3. start \in start..(Len(words) + 1)
  BY DEF Readable
<1> QED BY <1>1, <1>2, <1>3, WalkInside

(* Objects are written one behind the other: object i of m at place[i],    *)
(* and behind the last one nothing, or a header that no object fits.       *)
WrittenAt(words, m, place) ==
  /\ \A i \in 1..(m + 1) : place[i] \in 1..(Len(words) + 1)
  /\ \A i \in 1..m : /\ place[i] <= Len(words) /\ WellFormed(words, place[i])
                     /\ place[i] + words[place[i]].length \div 4 = place[i + 1]
  /\ place[m + 1] > Len(words) \/ ~WellFormed(words, place[m + 1])

(* However many objects are written, each of them is taken, and nothing    *)
(* else: a malformed header ends the list and costs nothing before it      *)
(* (packet.py:512-562).                                                    *)
THEOREM EveryObjectTaken ==
  ASSUME NEW words, Readable(words), NEW m \in Nat, NEW place, WrittenAt(words, m, place)
  PROVE  ObjectsFrom(words, place[1]) = UNION {Taken(words, place[i]) : i \in 1..m}
<1> DEFINE start == place[1]
           N == Len(words) + 1
           f == CHOOSE f : f = [at \in start..N |-> Walk(f, words, at)]
           From(i) == UNION {Taken(words, place[j]) : j \in i..m}
           S == {k \in 0..m : f[place[(m + 1) - k]] # From((m + 1) - k)}
<1>1. Len(words) \in Nat /\ start \in 1..N
  BY DEF Readable, WrittenAt
<1>2. f = [at \in start..N |-> Walk(f, words, at)]
  BY <1>1, WalkExists
<1>3. ObjectsFrom(words, start) = f[start]
  BY ObjectsAreChosen
<1> HIDE DEF f
<1>4. \A i \in 1..(m + 1) : place[i] \in start..N
  <2> DEFINE B == {i \in Nat : i \in 1..(m + 1) /\ ~(place[i] \in start..N)}
  <2>1. SUFFICES ASSUME B # {} PROVE FALSE
    OBVIOUS
  <2>2. PICK i \in B : \A j \in B : i <= j
    <3>1. B \in SUBSET Nat
      OBVIOUS
    <3> HIDE DEF B
    <3> QED BY <2>1, <3>1, LeastCase
  <2>3. i \in 1..(m + 1) /\ ~(place[i] \in start..N) /\ place[i] \in 1..N
    BY DEF WrittenAt
  <2>4. i # 1
    BY <1>1, <2>3
  <2> DEFINE h == i - 1
  <2>5. h \in 1..m /\ h \in 1..(m + 1) /\ h \in Nat /\ ~(i <= h) /\ h + 1 = i
    BY <2>3, <2>4
  <2> HIDE DEF h
  <2>6. place[h] \in start..N
    BY <2>2, <2>5
  <2>7. place[h] \in 1..Len(words) /\ WellFormed(words, place[h])
        /\ place[h] + words[place[h]].length \div 4 = place[i]
    BY <1>1, <2>5, <2>6 DEF WrittenAt
  <2>8. place[i] \in (place[h] + 1)..N
    BY <2>7, WalkAdvances
  <2> QED BY <1>1, <2>3, <2>6, <2>8
<1>5. S = {} => f[start] = From(1)
  <2>1. m \in 0..m /\ (m + 1) - m = 1
    OBVIOUS
  <2> QED BY <2>1
<1>6. ASSUME S # {} PROVE FALSE
  <2>1. PICK k \in S : \A i \in S : k <= i
    <3>1. S \in SUBSET Nat
      OBVIOUS
    <3> HIDE DEF S
    <3> QED BY <1>6, <3>1, LeastCase
  <2> DEFINE i == (m + 1) - k
  <2>2. k \in 0..m /\ i \in 1..(m + 1) /\ f[place[i]] # From(i)
    OBVIOUS
  <2> DEFINE at == place[i]
  <2>3. at \in start..N /\ at \in Int
    BY <1>1, <1>4, <2>2
  <2>4. f[at] = Walk(f, words, at)
    BY <1>2, <2>3
  <2>5. CASE k = 0
    <3>1. i = m + 1 /\ i..m = {}
      BY <2>5
    <3>2. f[at] = {}
      BY <2>4, <3>1 DEF WrittenAt, Walk
    <3> QED BY <2>2, <3>1, <3>2
  <2>6. CASE k # 0
    <3> DEFINE next == place[i + 1]
    <3>1. i \in 1..m /\ i + 1 \in 1..(m + 1) /\ k - 1 \in 0..m /\ ~(k <= k - 1)
          /\ (m + 1) - (k - 1) = i + 1 /\ i..m = {i} \cup ((i + 1)..m)
      BY <2>2, <2>6
    <3>2. f[next] = From(i + 1)
      BY <2>1, <3>1
    <3>3. /\ ~(at > Len(words)) /\ WellFormed(words, at)
          /\ at + words[at].length \div 4 = next
      BY <1>1, <2>3, <3>1 DEF WrittenAt
    <3>4. f[at] = Taken(words, at) \cup (IF next > Len(words) THEN {} ELSE f[next])
      BY <2>4, <3>3 DEF Walk
    <3>5. next > Len(words) => From(i + 1) = {}
      <4> SUFFICES ASSUME next > Len(words) PROVE (i + 1)..m = {}
        OBVIOUS
      <4>1. ~(i + 1 \in 1..m)
        BY <1>1 DEF WrittenAt
      <4> QED BY <2>2, <3>1, <4>1
    <3>6. From(i) = Taken(words, at) \cup From(i + 1)
      BY <3>1
    <3> QED BY <2>2, <3>2, <3>4, <3>5, <3>6
  <2> QED BY <2>5, <2>6
<1> QED BY <1>3, <1>5, <1>6

(* Where a sender puts the fields it announces, one behind the other: an   *)
(* address behind its family, a name behind its length.                    *)
Room(flags, f, size) == IF f \in flags THEN size ELSE 0
FamilyAt(flags, first) == first + Room(flags, "ifindex", 1)
NameAt(flags, first, family) ==
  FamilyAt(flags, first) + Room(flags, "address", 1 + AddressWords(family))
MtuAt(flags, first, family, length) ==
  NameAt(flags, first, family) + Room(flags, "name", 1 + ((length - 1) \div 4))
LastAt(flags, first, family, length) ==
  MtuAt(flags, first, family, length) + Room(flags, "mtu", 1) - 1

(* The words of each field, its family or length aside.                    *)
Places(flags, first, family, length) ==
  [ifindex |-> {first},
   address |-> (FamilyAt(flags, first) + 1)..(NameAt(flags, first, family) - 1),
   name    |-> NameAt(flags, first, family)..(MtuAt(flags, first, family, length) - 1),
   mtu     |-> {MtuAt(flags, first, family, length)}]

(* If the words are laid out that way, the fields are taken from there.    *)
FieldsFound(words, flags, first, family, length) ==
  /\ "address" \in flags => words[FamilyAt(flags, first)].family = family
  /\ "name" \in flags => words[NameAt(flags, first, family)].name = length
  => InterfaceFields(words, flags, first, LastAt(flags, first, family, length))
       = {[f \in flags |-> Places(flags, first, family, length)[f]]}

(* The fields of an interface object are taken from where the sender put   *)
(* them, whichever it announced, whatever the address family and however   *)
(* long the name: the parser never gives up on such an object, and the     *)
(* padding of a name is not taken for the next field (packet.py:565-602).  *)
THEOREM FieldsRecovered ==
  ASSUME NEW words, NEW flags \in SUBSET Flags, NEW first \in Nat,
         NEW family \in {"ipv4", "ipv6"}, NEW length \in 1..64
  PROVE  FieldsFound(words, flags, first, family, length)
<1> SUFFICES ASSUME "address" \in flags => words[FamilyAt(flags, first)].family = family,
                    "name" \in flags => words[NameAt(flags, first, family)].name = length
             PROVE  InterfaceFields(words, flags, first, LastAt(flags, first, family, length))
                      = {[f \in flags |-> Places(flags, first, family, length)[f]]}
  BY DEF FieldsFound
<1> DEFINE a == FamilyAt(flags, first)
           b == NameAt(flags, first, family)
           c == MtuAt(flags, first, family, length)
           last == LastAt(flags, first, family, length)
           words4 == AddressWords(family)
           size == 1 + ((length - 1) \div 4)
<1>1. words4 \in 1..4
  BY DEF AddressWords
<1>2. size \in Nat /\ size >= 1 /\ RoundedUp(length) = size
  BY DEF RoundedUp
<1>3. /\ a = IF "ifindex" \in flags THEN first + 1 ELSE first
      /\ b = IF "address" \in flags THEN a + (1 + words4) ELSE a
      /\ c = IF "name" \in flags THEN b + size ELSE b
      /\ last = IF "mtu" \in flags THEN c ELSE c - 1
  BY <1>1, <1>2 DEF FamilyAt, NameAt, MtuAt, LastAt, Room
<1> HIDE DEF a, b, c, last, words4, size
<1>4. a \in Nat /\ b \in Nat /\ c \in Nat /\ last \in Int
  BY <1>1, <1>2, <1>3
<1>5. /\ first <= a /\ a <= b /\ b <= c /\ c - 1 <= last
      /\ "ifindex" \in flags => first <= last
      /\ "address" \in flags => a <= last /\ b - 1 <= last
      /\ "name" \in flags => b <= last
      /\ "mtu" \in flags => c <= last
  BY <1>1, <1>2, <1>3, <1>4
<1> DEFINE address == IF "address" \in flags
                      THEN IF a <= last /\ words[a].family \in {"ipv4", "ipv6"}
                           THEN 1 + AddressWords(words[a].family) ELSE -1
                      ELSE 0
           name    == a + address
           named   == IF "name" \in flags
                      THEN IF name <= last /\ words[name].name \in 1..64
                           THEN RoundedUp(words[name].name) ELSE -1
                      ELSE 0
           mtu     == name + named
           place   == [ifindex |-> {first}, address |-> (a + 1)..(name - 1),
                       name |-> {w \in name..(mtu - 1) : w <= last}, mtu |-> {mtu}]
           sent    == [ifindex |-> {first}, address |-> (a + 1)..(b - 1),
                       name |-> b..(c - 1), mtu |-> {c}]
<1>6. address = IF "address" \in flags THEN 1 + words4 ELSE 0
  BY <1>5 DEF a, words4
<1>7. name = b /\ address # -1
  BY <1>1, <1>3, <1>4, <1>6
<1>8. named = IF "name" \in flags THEN size ELSE 0
  <2>1. "name" \in flags => words[b].name = length
    BY DEF b
  <2> HIDE DEF name
  <2> QED BY <1>2, <1>5, <1>7, <2>1
<1>9. mtu = c /\ named # -1
  <2> HIDE DEF name, named
  <2> QED BY <1>2, <1>3, <1>4, <1>7, <1>8
<1>10. InterfaceFields(words, flags, first, last) =
         IF \/ "ifindex" \in flags /\ first > last
            \/ address = -1 \/ ("address" \in flags /\ name - 1 > last)
            \/ named = -1
            \/ "mtu" \in flags /\ mtu > last
         THEN {} ELSE {[f \in flags |-> place[f]]}
  <2>1. a = first + (IF "ifindex" \in flags THEN 1 ELSE 0)
    BY <1>3
  <2> QED BY <2>1 DEF InterfaceFields
<1>11. place = sent
  <2>1. {w \in name..(mtu - 1) : w <= last} = b..(c - 1)
    <3> HIDE DEF name, mtu
    <3> QED BY <1>4, <1>5, <1>7, <1>9
  <2> HIDE DEF name, mtu
  <2> QED BY <1>7, <1>9, <2>1
<1> HIDE DEF address, name, named, mtu, place
<1>12. InterfaceFields(words, flags, first, last) = {[f \in flags |-> sent[f]]}
  BY <1>4, <1>5, <1>7, <1>9, <1>10, <1>11
<1> QED BY <1>12 DEF a, b, c, last, Places

-----------------------------------------------------------------------------
(* What a sender puts into an extension.                                   *)

(* Every reading that a word may have.                                     *)
Parts == {"none", "icmp", "quote", "header", "label", "other",
          "ifindex", "family", "address", "name", "mtu"}
Classes == {"none", "mpls", "interface", "other"}
Families == {"none", "ipv4", "ipv6"}
Readings == [version : Nat, length : Nat, class : Classes, flags : SUBSET Flags,
             family : Families, name : Nat, is : Nat \X Parts]

(* A word that is no header: field f of object k.                          *)
Plain(w, k, f) == w \in Readings /\ w.is = <<k, f>> /\ w.class = "none"

(* s is n words, each for field f of object k.                             *)
PlainWords(s, n, k, f) ==
  s \in Seq(Readings) /\ Len(s) = n /\ \A i \in 1..n : Plain(s[i], k, f)

(* Single words.                                                           *)
LEMMA WordsAre ==
  ASSUME NEW k \in Nat
  PROVE  /\ Blank \in Readings /\ Blank.is = <<0, "none">> /\ Blank.class = "none"
         /\ \A f \in Parts : Plain(Field(k, f), k, f)
         /\ \A family \in Families :
              LET w == [Field(k, "family") EXCEPT !.family = family]
              IN  Plain(w, k, "family") /\ w.family = family
         /\ \A length \in Nat :
              LET w == [Field(k, "name") EXCEPT !.name = length]
              IN  Plain(w, k, "name") /\ w.name = length
<1>1. Blank \in Readings /\ Blank.is = <<0, "none">> /\ Blank.class = "none"
  BY DEF Blank, Readings, Flags, Parts, Classes, Families
<1>2. \A f \in Parts : Field(k, f) = [Blank EXCEPT !.is = <<k, f>>]
  BY DEF Field
<1>3. \A f \in Parts : Plain(Field(k, f), k, f)
  <2> TAKE f \in Parts
  <2> DEFINE w == [Blank EXCEPT !.is = <<k, f>>]
  <2>1. w \in Readings
    BY <1>1 DEF Readings
  <2>2. w.is = <<k, f>> /\ w.class = "none"
    BY <1>1 DEF Readings
  <2> QED BY <1>2, <2>1, <2>2 DEF Plain
<1>4. ASSUME NEW family \in Families
      PROVE  Plain([Field(k, "family") EXCEPT !.family = family], k, "family")
             /\ [Field(k, "family") EXCEPT !.family = family].family = family
  <2>1. Plain(Field(k, "family"), k, "family")
    BY <1>3 DEF Parts
  <2> QED BY <2>1 DEF Plain, Readings
<1>5. ASSUME NEW length \in Nat
      PROVE  Plain([Field(k, "name") EXCEPT !.name = length], k, "name")
             /\ [Field(k, "name") EXCEPT !.name = length].name = length
  <2>1. Plain(Field(k, "name"), k, "name")
    BY <1>3 DEF Parts
  <2> QED BY <2>1 DEF Plain, Readings
<1> QED BY <1>1, <1>3, <1>4, <1>5

(* Headers.                                                                *)
LEMMA HeaderIs ==
  ASSUME NEW k \in Nat, NEW n \in Nat, NEW class \in Classes, NEW flags \in SUBSET Flags
  PROVE  LET w == Header(k, n, class, flags)
         IN  /\ w \in Readings /\ w.is = <<k, "header">> /\ w.length = 4 * (n + 1)
             /\ w.class = class /\ w.flags = flags
<1>1. Plain(Field(k, "header"), k, "header")
  BY WordsAre DEF Parts
<1>2. 4 * (n + 1) \in Nat
  OBVIOUS
<1> QED BY <1>1, <1>2 DEF Header, Plain, Readings

(* Words of one field.                                                     *)
LEMMA FieldsAre ==
  ASSUME NEW k \in Nat, NEW n \in Nat, NEW f \in Parts
  PROVE  PlainWords(Fields(k, f, n), n, k, f)
<1>1. \A i \in 1..n : Plain(Field(k, f), k, f) /\ Field(k, f) \in Readings
  BY WordsAre DEF Plain
<1>2. Fields(k, f, n) \in [1..n -> Readings]
  BY <1>1 DEF Fields
<1>3. \A i \in 1..n : Fields(k, f, n)[i] = Field(k, f)
  BY DEF Fields
<1> QED BY <1>1, <1>2, <1>3 DEF PlainWords

(* o stands in s from `at` on.                                             *)
Block(s, at, o) == \A i \in 1..Len(o) : at - 1 + i \in 1..Len(s) /\ s[at - 1 + i] = o[i]

(* What stands in a part stands in the whole.                              *)
LEMMA BlocksJoin ==
  ASSUME NEW s \in Seq(Readings), NEW t \in Seq(Readings)
  PROVE  /\ s \o t \in Seq(Readings) /\ Len(s \o t) = Len(s) + Len(t)
         /\ Block(s \o t, 1, s) /\ Block(s \o t, Len(s) + 1, t)
         /\ \A at, o : Block(s, at, o) => Block(s \o t, at, o)
<1> DEFINE u == s \o t
           m == Len(s)
           n == Len(t)
<1>1. u \in Seq(Readings) /\ Len(u) = m + n /\ m \in Nat /\ n \in Nat
  BY ConcatProperties
<1>2. \A i \in 1..m + n : u[i] = IF i <= m THEN s[i] ELSE t[i - m]
  BY ConcatProperties
<1> HIDE DEF u
<1>3. \A i \in 1..m : u[i] = s[i] /\ i \in 1..Len(u)
  <2> HIDE DEF m, n
  <2> QED BY <1>1, <1>2
<1>4. Block(u, 1, s)
  <2>1. \A i \in 1..m : (1 - 1) + i = i
    BY <1>1
  <2> QED BY <1>3, <2>1 DEF Block
<1>5. Block(u, m + 1, t)
  <2>1. ASSUME NEW i \in 1..n
        PROVE  ((m + 1) - 1) + i \in 1..Len(u) /\ u[((m + 1) - 1) + i] = t[i]
    <3> HIDE DEF m, n
    <3>1. /\ ((m + 1) - 1) + i \in 1..(m + n) /\ ~(((m + 1) - 1) + i <= m)
          /\ (((m + 1) - 1) + i) - m = i
      BY <1>1
    <3> QED BY <1>1, <1>2, <3>1
  <2> QED BY <2>1 DEF Block
<1>6. ASSUME NEW at, NEW o, Block(s, at, o) PROVE Block(u, at, o)
  BY <1>3, <1>6 DEF Block
<1> QED BY <1>1, <1>4, <1>5, <1>6 DEF u

(* A field of n words, s, is present or not.                               *)
Present(u, flags, f, s, n) ==
  u \in Seq(Readings) /\ Len(u) = Room(flags, f, n) /\ (f \in flags => u = s)

(* A field that may be absent.                                             *)
LEMMA HaveIs ==
  ASSUME NEW flags, NEW f, NEW n, NEW s \in Seq(Readings), Len(s) = n
  PROVE  Present(Have(flags, f, s), flags, f, s, n)
BY DEF Have, Room, Present

(* A single word.                                                          *)
LEMMA OneWord ==
  ASSUME NEW w \in Readings
  PROVE  <<w>> \in Seq(Readings) /\ Len(<<w>>) = 1 /\ <<w>>[1] = w
OBVIOUS

(* A word of its own and n more behind it.                                 *)
LEMMA OneAndMore ==
  ASSUME NEW w, NEW k, NEW f, NEW g, NEW n \in Nat, NEW s, Plain(w, k, f), PlainWords(s, n, k, g)
  PROVE  LET u == <<w>> \o s
         IN  /\ u \in Seq(Readings) /\ Len(u) = 1 + n
             /\ u[1] = w /\ \A i \in 2..(1 + n) : Plain(u[i], k, g)
<1> DEFINE one == <<w>>
           u == one \o s
<1>1. one \in Seq(Readings) /\ Len(one) = 1 /\ one[1] = w
  BY OneWord DEF Plain
<1>2. s \in Seq(Readings) /\ Len(s) = n /\ \A i \in 1..n : Plain(s[i], k, g)
  BY DEF PlainWords
<1> HIDE DEF one
<1>3. u \in Seq(Readings) /\ Len(u) = 1 + n /\ Block(u, 1, one) /\ Block(u, 2, s)
  <2>1. /\ u \in Seq(Readings) /\ Len(u) = Len(one) + Len(s)
        /\ Block(u, 1, one) /\ Block(u, Len(one) + 1, s)
    BY <1>1, <1>2, BlocksJoin
  <2> QED BY <1>1, <1>2, <2>1
<1> HIDE DEF u
<1>4. u[1] = w
  BY <1>1, <1>3 DEF Block
<1>5. ASSUME NEW i \in 2..(1 + n) PROVE Plain(u[i], k, g)
  <2>1. i - 1 \in 1..n /\ (2 - 1) + (i - 1) = i
    OBVIOUS
  <2> QED BY <1>2, <1>3, <2>1 DEF Block
<1> QED BY <1>3, <1>4, <1>5 DEF u, one

(* Fields of an interface object, one behind the other as announced.       *)
LaidOut(fields, k, flags, family, length) ==
  LET a == FamilyAt(flags, 1)
      b == NameAt(flags, 1, family)
      c == MtuAt(flags, 1, family, length)
  IN  /\ fields \in Seq(Readings) /\ Len(fields) = LastAt(flags, 1, family, length)
      /\ "ifindex" \in flags => Plain(fields[1], k, "ifindex")
      /\ "address" \in flags => /\ Plain(fields[a], k, "family") /\ fields[a].family = family
                                /\ \A j \in (a + 1)..(b - 1) : Plain(fields[j], k, "address")
      /\ "name" \in flags => /\ fields[b].name = length
                             /\ \A j \in b..(c - 1) : Plain(fields[j], k, "name")
      /\ "mtu" \in flags => Plain(fields[c], k, "mtu")

(* A sender lays them out.                                                 *)
LEMMA FieldsLaidOut ==
  ASSUME NEW k \in Nat, NEW flags \in SUBSET Flags, NEW family \in {"ipv4", "ipv6"},
         NEW length \in 1..64
  PROVE  LaidOut(InterfaceData(k, flags, family, length), k, flags, family, length)
<1> DEFINE words4 == AddressWords(family)
           more == (length - 1) \div 4
           familyWord == [Field(k, "family") EXCEPT !.family = family]
           nameWord == [Field(k, "name") EXCEPT !.name = length]
           index == <<Field(k, "ifindex")>>
           address == <<familyWord>> \o Fields(k, "address", words4)
           name == <<nameWord>> \o Fields(k, "name", more)
           mtu == <<Field(k, "mtu")>>
           A == Have(flags, "ifindex", index)
           B == Have(flags, "address", address)
           C == Have(flags, "name", name)
           D == Have(flags, "mtu", mtu)
           AB == A \o B
           rA == Room(flags, "ifindex", 1)
           rB == Room(flags, "address", 1 + words4)
           rC == Room(flags, "name", 1 + more)
           rD == Room(flags, "mtu", 1)
           ABC == AB \o C
           ABCD == ABC \o D
<1>1. words4 = (IF family = "ipv4" THEN 1 ELSE 4) /\ words4 \in 1..4 /\ words4 \in Nat
      /\ more \in Nat
  BY DEF AddressWords
<1>2. InterfaceData(k, flags, family, length) = ABCD
  BY <1>1 DEF InterfaceData
<1>3. /\ Plain(Field(k, "ifindex"), k, "ifindex") /\ Plain(Field(k, "mtu"), k, "mtu")
      /\ Plain(familyWord, k, "family") /\ familyWord.family = family
      /\ Plain(nameWord, k, "name") /\ nameWord.name = length
  <2>1. Plain(Field(k, "ifindex"), k, "ifindex") /\ Plain(Field(k, "mtu"), k, "mtu")
    BY WordsAre DEF Parts
  <2>2. family \in Families /\ length \in Nat
    BY DEF Families
  <2>3. Plain(familyWord, k, "family") /\ familyWord.family = family
    BY <2>2, WordsAre
  <2>4. Plain(nameWord, k, "name") /\ nameWord.name = length
    BY <2>2, WordsAre
  <2> QED BY <2>1, <2>3, <2>4
<1> HIDE DEF familyWord, nameWord
<1>4. /\ index \in Seq(Readings) /\ Len(index) = 1 /\ index[1] = Field(k, "ifindex")
      /\ mtu \in Seq(Readings) /\ Len(mtu) = 1 /\ mtu[1] = Field(k, "mtu")
  BY <1>3, OneWord DEF Plain
<1>5. /\ address \in Seq(Readings) /\ Len(address) = 1 + words4
      /\ address[1] = familyWord /\ \A i \in 2..(1 + words4) : Plain(address[i], k, "address")
  <2>1. PlainWords(Fields(k, "address", words4), words4, k, "address")
    BY <1>1, FieldsAre DEF Parts
  <2>2. words4 \in Nat /\ Plain(familyWord, k, "family")
    BY <1>1, <1>3
  <2> HIDE DEF words4
  <2> QED BY <2>1, <2>2, OneAndMore
<1>6. /\ name \in Seq(Readings) /\ Len(name) = 1 + more
      /\ name[1] = nameWord /\ \A i \in 2..(1 + more) : Plain(name[i], k, "name")
  <2>1. PlainWords(Fields(k, "name", more), more, k, "name")
    BY <1>1, FieldsAre DEF Parts
  <2> HIDE DEF more
  <2> QED BY <1>1, <1>3, <2>1, OneAndMore
<1> HIDE DEF index, address, name, mtu
<1>7. /\ A \in Seq(Readings) /\ Len(A) = rA
      /\ B \in Seq(Readings) /\ Len(B) = rB
      /\ C \in Seq(Readings) /\ Len(C) = rC
      /\ D \in Seq(Readings) /\ Len(D) = rD
      /\ "ifindex" \in flags => A = index
      /\ "address" \in flags => B = address
      /\ "name" \in flags => C = name
      /\ "mtu" \in flags => D = mtu
  <2>1. Present(A, flags, "ifindex", index, 1) /\ Present(D, flags, "mtu", mtu, 1)
    BY <1>4, HaveIs
  <2>2. Present(B, flags, "address", address, 1 + words4)
    BY <1>5, HaveIs
  <2>3. Present(C, flags, "name", name, 1 + more)
    BY <1>6, HaveIs
  <2> HIDE DEF A, B, C, D
  <2> QED BY <2>1, <2>2, <2>3 DEF Present
<1> HIDE DEF A, B, C, D
<1>8. /\ AB \in Seq(Readings) /\ Len(AB) = Len(A) + Len(B)
      /\ Block(AB, 1, A) /\ Block(AB, Len(A) + 1, B)
  BY <1>7, BlocksJoin
<1> HIDE DEF AB
<1>9. /\ ABC \in Seq(Readings) /\ Len(ABC) = Len(AB) + Len(C)
      /\ Block(ABC, 1, A) /\ Block(ABC, Len(A) + 1, B) /\ Block(ABC, Len(AB) + 1, C)
  BY <1>7, <1>8, BlocksJoin
<1> HIDE DEF ABC
<1>10. /\ ABCD \in Seq(Readings) /\ Len(ABCD) = Len(ABC) + Len(D)
       /\ Block(ABCD, 1, A) /\ Block(ABCD, Len(A) + 1, B) /\ Block(ABCD, Len(AB) + 1, C)
       /\ Block(ABCD, Len(ABC) + 1, D)
  BY <1>7, <1>9, BlocksJoin
<1> HIDE DEF ABCD
<1> DEFINE a == FamilyAt(flags, 1)
           b == NameAt(flags, 1, family)
           c == MtuAt(flags, 1, family, length)
           last == LastAt(flags, 1, family, length)
<1>11. /\ a = 1 + rA
       /\ b = a + rB
       /\ c = b + rC
       /\ last = c + rD - 1
  BY DEF FamilyAt, NameAt, MtuAt, LastAt
<1>12. /\ rA \in Nat /\ rB \in Nat
       /\ rC \in Nat /\ rD \in Nat
       /\ "address" \in flags => rB = 1 + words4
       /\ "name" \in flags => rC = 1 + more
  BY <1>1 DEF Room
<1> HIDE DEF words4, more, a, b, c, last, rA, rB, rC, rD
<1>13. /\ Len(A) + 1 = a /\ Len(AB) + 1 = b /\ Len(ABC) + 1 = c /\ Len(ABCD) = last
       /\ a \in Nat /\ b \in Nat /\ c \in Nat
  <2>1. Len(A) + 1 = a /\ a \in Nat
    BY <1>7, <1>11, <1>12
  <2>2. Len(AB) + 1 = b /\ b \in Nat
    BY <1>7, <1>8, <1>11, <1>12, <2>1
  <2>3. Len(ABC) + 1 = c /\ c \in Nat
    BY <1>7, <1>9, <1>11, <1>12, <2>2
  <2>4. Len(ABCD) = last
    BY <1>7, <1>10, <1>11, <1>12, <2>3
  <2> QED BY <2>1, <2>2, <2>3, <2>4
<1>14. "ifindex" \in flags => Plain(ABCD[1], k, "ifindex")
  BY <1>3, <1>4, <1>7, <1>10 DEF Block
<1>15. ASSUME "address" \in flags
       PROVE  /\ Plain(ABCD[a], k, "family") /\ ABCD[a].family = family
              /\ \A j \in (a + 1)..(b - 1) : Plain(ABCD[j], k, "address")
  <2>1. Block(ABCD, a, address) /\ b = a + (1 + words4)
    BY <1>7, <1>10, <1>11, <1>12, <1>13, <1>15
  <2>2. ABCD[a] = familyWord
    <3>1. 1 \in 1..Len(address) /\ (a - 1) + 1 = a
      BY <1>1, <1>5, <1>13
    <3> QED BY <1>5, <2>1, <3>1 DEF Block
  <2>3. ASSUME NEW j \in (a + 1)..(b - 1) PROVE Plain(ABCD[j], k, "address")
    <3> DEFINE i == j - (a - 1)
    <3>1. i \in 2..(1 + words4) /\ i \in 1..(1 + words4) /\ (a - 1) + i = j
      BY <1>1, <1>13, <2>1
    <3> HIDE DEF i
    <3>2. ABCD[j] = address[i]
      BY <1>5, <2>1, <3>1 DEF Block
    <3> QED BY <1>5, <3>1, <3>2
  <2> QED BY <1>3, <2>2, <2>3
<1>16. ASSUME "name" \in flags
       PROVE  /\ ABCD[b].name = length
              /\ \A j \in b..(c - 1) : Plain(ABCD[j], k, "name")
  <2>1. Block(ABCD, b, name) /\ c = b + (1 + more)
    BY <1>7, <1>10, <1>11, <1>12, <1>13, <1>16
  <2>2. ABCD[b] = nameWord
    <3>1. 1 \in 1..Len(name) /\ (b - 1) + 1 = b
      BY <1>1, <1>6, <1>13
    <3> QED BY <1>6, <2>1, <3>1 DEF Block
  <2>3. ASSUME NEW j \in b..(c - 1), j # b PROVE Plain(ABCD[j], k, "name")
    <3> DEFINE i == j - (b - 1)
    <3>1. i \in 2..(1 + more) /\ i \in 1..(1 + more) /\ (b - 1) + i = j
      BY <1>1, <1>13, <2>1, <2>3
    <3> HIDE DEF i
    <3>2. ABCD[j] = name[i]
      BY <1>6, <2>1, <3>1 DEF Block
    <3> QED BY <1>6, <3>1, <3>2
  <2> QED BY <1>3, <2>2, <2>3
<1>17. ASSUME "mtu" \in flags PROVE Plain(ABCD[c], k, "mtu")
  <2>1. 1 \in 1..Len(mtu) /\ (c - 1) + 1 = c /\ Block(ABCD, c, mtu)
    BY <1>4, <1>7, <1>10, <1>13, <1>17
  <2> QED BY <1>3, <1>4, <2>1 DEF Block
<1>18. LaidOut(ABCD, k, flags, family, length)
  BY <1>10, <1>13, <1>14, <1>15, <1>16, <1>17 DEF LaidOut, a, b, c, last
<1> QED BY <1>2, <1>18

(* Each word tells the field it belongs to.                                *)
Told(fields, k, flags, family, length) ==
  LET place == Places(flags, 1, family, length)
  IN  /\ \A j \in 1..Len(fields) :
           \E part \in {"ifindex", "family", "address", "name", "mtu"} :
             Plain(fields[j], k, part)
      /\ \A f \in flags : \A j \in Int :
           j \in place[f] <=> j \in 1..Len(fields) /\ fields[j].is = <<k, f>>

LEMMA FieldsTold ==
  ASSUME NEW k \in Nat, NEW flags \in SUBSET Flags, NEW family \in {"ipv4", "ipv6"},
         NEW length \in 1..64, NEW fields, LaidOut(fields, k, flags, family, length)
  PROVE  Told(fields, k, flags, family, length)
<1> DEFINE a == FamilyAt(flags, 1)
           b == NameAt(flags, 1, family)
           c == MtuAt(flags, 1, family, length)
           last == LastAt(flags, 1, family, length)
           part(j) == IF j < a THEN "ifindex" ELSE IF j = a /\ j < b THEN "family"
                      ELSE IF j < b THEN "address" ELSE IF j < c THEN "name" ELSE "mtu"
           place == Places(flags, 1, family, length)
<1>1. /\ a \in Nat /\ b \in Nat /\ c \in Nat /\ last \in Int
      /\ IF "ifindex" \in flags THEN a = 2 ELSE a = 1
      /\ IF "address" \in flags THEN b > a + 1 ELSE b = a
      /\ IF "name" \in flags THEN c > b ELSE c = b
      /\ IF "mtu" \in flags THEN last = c ELSE last = c - 1
  <2>1. AddressWords(family) \in 1..4 /\ (length - 1) \div 4 \in Nat
    BY DEF AddressWords
  <2> DEFINE n == AddressWords(family)
             m == (length - 1) \div 4
  <2>2. /\ a = IF "ifindex" \in flags THEN 2 ELSE 1
        /\ b = IF "address" \in flags THEN a + (1 + n) ELSE a
        /\ c = IF "name" \in flags THEN b + (1 + m) ELSE b
        /\ last = IF "mtu" \in flags THEN c ELSE c - 1
    <3>1. n \in 1..4 /\ m \in Nat
      BY <2>1
    <3> HIDE DEF n, m
    <3> QED BY <3>1 DEF FamilyAt, NameAt, MtuAt, LastAt, Room, n, m
  <2> HIDE DEF n, m, a, b, c, last
  <2> QED BY <2>1, <2>2 DEF n, m
<1>2. /\ Len(fields) = last
      /\ "ifindex" \in flags => Plain(fields[1], k, "ifindex")
      /\ "address" \in flags => /\ Plain(fields[a], k, "family")
                                /\ \A j \in (a + 1)..(b - 1) : Plain(fields[j], k, "address")
      /\ "name" \in flags => \A j \in b..(c - 1) : Plain(fields[j], k, "name")
      /\ "mtu" \in flags => Plain(fields[c], k, "mtu")
  BY DEF LaidOut
<1>3. place = [ifindex |-> {1}, address |-> (a + 1)..(b - 1), name |-> b..(c - 1), mtu |-> {c}]
  BY DEF Places
<1> HIDE DEF a, b, c, last, place
<1>4. ASSUME NEW j \in 1..last PROVE Plain(fields[j], k, part(j))
  <2>1. CASE j < a
    <3>1. "ifindex" \in flags /\ j = 1
      BY <1>1, <2>1
    <3> QED BY <1>2, <2>1, <3>1
  <2>2. CASE j >= a /\ j < b
    <3>1. "address" \in flags /\ (j = a \/ j \in (a + 1)..(b - 1))
      BY <1>1, <2>2
    <3> QED BY <1>1, <1>2, <2>2, <3>1
  <2>3. CASE j >= b /\ j < c
    <3>1. "name" \in flags /\ j \in b..(c - 1) /\ ~(j < a)
      BY <1>1, <2>3
    <3> QED BY <1>1, <1>2, <2>3, <3>1
  <2>4. CASE j >= c
    <3>1. "mtu" \in flags /\ j = c /\ ~(j < a) /\ ~(j < b)
      BY <1>1, <2>4
    <3> QED BY <1>1, <1>2, <2>4, <3>1
  <2> QED BY <1>1, <2>1, <2>2, <2>3, <2>4
<1>5. ASSUME NEW f \in flags, NEW j \in Int
      PROVE  j \in place[f] <=> j \in 1..last /\ part(j) = f
  <2>1. f \in {"ifindex", "address", "name", "mtu"}
    BY DEF Flags
  <2>2. CASE f = "ifindex"
    BY <1>1, <1>3, <2>2
  <2>3. CASE f = "address"
    BY <1>1, <1>3, <2>3
  <2>4. CASE f = "name"
    BY <1>1, <1>3, <2>4
  <2>5. CASE f = "mtu"
    BY <1>1, <1>3, <2>5
  <2> QED BY <2>1, <2>2, <2>3, <2>4, <2>5
<1>6. \A j \in Int : part(j) \in {"ifindex", "family", "address", "name", "mtu"}
  OBVIOUS
<1> HIDE DEF part
<1>7. \A f \in flags : \A j \in 1..last : fields[j].is = <<k, f>> <=> part(j) = f
  BY <1>4 DEF Plain
<1>8. \A f \in flags : \A j \in Int :
        j \in place[f] <=> j \in 1..last /\ fields[j].is = <<k, f>>
  BY <1>5, <1>7
<1>9. \A j \in 1..last : part(j) \in {"ifindex", "family", "address", "name", "mtu"}
  BY <1>6
<1> QED BY <1>2, <1>4, <1>8, <1>9 DEF Told, place

(* The words of the object whose header stands at `at`.                    *)
Payload(words, at) == (at + 1)..(at - 1 + words[at].length \div 4)

(* A header and its payload stand in the packet.                           *)
Headed(words, at, k, class, flags, fields) ==
  /\ at \in 1..Len(words) /\ WellFormed(words, at)
  /\ words[at].length \div 4 = 1 + Len(fields)
  /\ words[at].is = <<k, "header">> /\ words[at].class = class /\ words[at].flags = flags
  /\ Payload(words, at) = (at + 1)..(at + Len(fields))
  /\ \A w \in Payload(words, at) : w - at \in 1..Len(fields) /\ words[w] = fields[w - at]

LEMMA HeadedObject ==
  ASSUME NEW k \in Nat, NEW class \in Classes, NEW flags \in SUBSET Flags,
         NEW fields \in Seq(Readings), NEW words \in Seq(Readings), NEW at \in Nat,
         Block(words, at, <<Header(k, Len(fields), class, flags)>> \o fields)
  PROVE  Headed(words, at, k, class, flags, fields)
<1> DEFINE h == Header(k, Len(fields), class, flags)
           one == <<h>>
           o == one \o fields
           n == Len(fields)
<1>1. n \in Nat
  OBVIOUS
<1>2. /\ h \in Readings /\ h.is = <<k, "header">> /\ h.length = 4 * (n + 1)
      /\ h.class = class /\ h.flags = flags
  BY <1>1, HeaderIs
<1> HIDE DEF h
<1>3. one \in Seq(Readings) /\ Len(one) = 1 /\ one[1] = h
  BY <1>2, OneWord
<1> HIDE DEF one
<1>4. Len(o) = 1 + n /\ Block(o, 1, one) /\ Block(o, 2, fields)
  <2>1. Len(o) = Len(one) + Len(fields) /\ Block(o, 1, one) /\ Block(o, Len(one) + 1, fields)
    BY <1>3, BlocksJoin
  <2> QED BY <1>3, <2>1
<1>5. Block(words, at, o)
  BY DEF o, one, h
<1> HIDE DEF o
<1>6. o[1] = h
  BY <1>3, <1>4 DEF Block
<1>7. ASSUME NEW j \in 1..n PROVE o[1 + j] = fields[j]
  <2>1. (2 - 1) + j = 1 + j
    OBVIOUS
  <2>2. o[(2 - 1) + j] = fields[j]
    BY <1>4 DEF Block
  <2> QED BY <2>1, <2>2
<1>8. \A i \in 1..(1 + n) : (at - 1) + i \in 1..Len(words) /\ words[(at - 1) + i] = o[i]
  BY <1>4, <1>5 DEF Block
<1> HIDE DEF n
<1>9. at \in 1..Len(words) /\ words[at] = h
  <2>1. 1 \in 1..(1 + n) /\ (at - 1) + 1 = at
    BY <1>1
  <2> QED BY <1>6, <1>8, <2>1
<1>10. at + n \in 1..Len(words)
  <2>1. 1 + n \in 1..(1 + n) /\ (at - 1) + (1 + n) = at + n
    BY <1>1
  <2> QED BY <1>8, <2>1
<1>11. ASSUME NEW w \in (at + 1)..(at + n)
       PROVE  w - at \in 1..n /\ words[w] = fields[w - at]
  <2>1. w - at \in 1..n /\ 1 + (w - at) \in 1..(1 + n) /\ (at - 1) + (1 + (w - at)) = w
    BY <1>1
  <2> QED BY <1>7, <1>8, <2>1
<1>12. /\ words[at].length = 4 * (n + 1) /\ words[at].length \div 4 = 1 + n
       /\ words[at].length >= 4 /\ words[at].length % 4 = 0
  <2>1. (4 * (n + 1)) \div 4 = 1 + n /\ 4 * (n + 1) >= 4 /\ (4 * (n + 1)) % 4 = 0
    BY <1>1
  <2> QED BY <1>2, <1>9, <2>1
<1>13. (at - 1) + (1 + n) = at + n /\ Len(words) \in Nat
  BY <1>1
<1>14. WellFormed(words, at)
  BY <1>10, <1>12, <1>13 DEF WellFormed
<1>15. Payload(words, at) = (at + 1)..(at + n)
  BY <1>12, <1>13 DEF Payload
<1> QED BY <1>2, <1>9, <1>11, <1>12, <1>14, <1>15 DEF Headed, n

(* Object k stands in the packet.                                          *)
InterfaceSent(words, at, k) ==
  \E family \in {"ipv4", "ipv6"}, length \in 1..64 :
    LET flags == words[at].flags
        first == at + 1
        place == Places(flags, first, family, length)
    IN  /\ at - 1 + words[at].length \div 4 = LastAt(flags, first, family, length)
        /\ "address" \in flags => words[FamilyAt(flags, first)].family = family
        /\ "name" \in flags => words[NameAt(flags, first, family)].name = length
        /\ \A f \in flags :
             place[f] = {w \in Payload(words, at) : words[w].is = <<k, f>>}

(* A word of the payload of object k.                                      *)
Belongs(words, w, k) ==
  words[w].is[1] = k /\ words[w].is[2] # "header" /\ words[w].class = "none"

(* An object of any kind.                                                 *)
Sent(words, at, k) ==
  /\ at \in 1..Len(words) /\ WellFormed(words, at)
  /\ words[at].is = <<k, "header">> /\ words[at].flags \in SUBSET Flags
  /\ \A w \in Payload(words, at) : Belongs(words, w, k)
  /\ \/ words[at].class = "mpls"
        /\ \A w \in Payload(words, at) : words[w].is = <<k, "label">>
     \/ words[at].class = "other"
        /\ \A w \in Payload(words, at) : words[w].is[2] # "label"
     \/ /\ words[at].class = "interface"
        /\ \A w \in Payload(words, at) : words[w].is[2] # "label"
        /\ InterfaceSent(words, at, k)

(* The field that lists are made of.                                       *)
Content(class) == IF class = "mpls" THEN "label" ELSE "other"

(* A list of labels, or an object of an unknown class, stands in the packet.*)
LEMMA ListSent ==
  ASSUME NEW k \in Nat, NEW n \in Nat, NEW class \in {"mpls", "other"}
  PROVE  \A words \in Seq(Readings), at \in Nat :
           Block(words, at, <<Header(k, n, class, {})>> \o Fields(k, Content(class), n))
             => Sent(words, at, k) /\ words[at].length \div 4 = 1 + n
<1> TAKE words \in Seq(Readings), at \in Nat
<1> HAVE Block(words, at, <<Header(k, n, class, {})>> \o Fields(k, Content(class), n))
<1> DEFINE f == Content(class)
           fields == Fields(k, f, n)
<1>0. f \in Parts
  BY DEF Content, Parts
<1>1. fields \in Seq(Readings) /\ Len(fields) = n /\ \A i \in 1..n : Plain(fields[i], k, f)
  <2> HIDE DEF f
  <2> QED BY <1>0, FieldsAre DEF PlainWords
<1> HIDE DEF fields
<1>2. Headed(words, at, k, class, {}, fields)
  <2>1. Block(words, at, <<Header(k, Len(fields), class, {})>> \o fields)
    BY <1>1 DEF fields
  <2>2. class \in Classes /\ {} \in SUBSET Flags
    BY DEF Classes
  <2> QED BY <1>1, <2>1, <2>2, HeadedObject
<1> HIDE DEF f
<1>3. ASSUME NEW w \in Payload(words, at)
      PROVE  words[w].is = <<k, f>> /\ words[w].class = "none"
  <2>1. w - at \in 1..Len(fields) /\ words[w] = fields[w - at]
    BY <1>2 DEF Headed
  <2>2. Plain(fields[w - at], k, f)
    BY <1>1, <2>1
  <2> QED BY <2>1, <2>2 DEF Plain
<1>4. words[at].class = class /\ words[at].flags = {} /\ words[at].is = <<k, "header">>
      /\ at \in 1..Len(words) /\ WellFormed(words, at) /\ words[at].length \div 4 = 1 + n
  BY <1>1, <1>2 DEF Headed
<1>5. f # "header" /\ (class = "mpls" => f = "label") /\ (class = "other" => f # "label")
  BY DEF Content, f
<1>6. \A w \in Payload(words, at) : Belongs(words, w, k)
  BY <1>3, <1>5 DEF Belongs
<1> QED BY <1>3, <1>4, <1>5, <1>6 DEF Sent

(* The fields of an object at word at stand where those of an object at 0  *)
(* do, moved by at, and a field that is there stands before its end.       *)
Shifts(flags, family, length, at) ==
  /\ FamilyAt(flags, 1) \in Nat /\ NameAt(flags, 1, family) \in Nat
  /\ MtuAt(flags, 1, family, length) \in Nat
  /\ LastAt(flags, 1, family, length) \in Int
  /\ FamilyAt(flags, at + 1) = at + FamilyAt(flags, 1)
  /\ NameAt(flags, at + 1, family) = at + NameAt(flags, 1, family)
  /\ MtuAt(flags, at + 1, family, length) = at + MtuAt(flags, 1, family, length)
  /\ LastAt(flags, at + 1, family, length) = at + LastAt(flags, 1, family, length)
  /\ "address" \in flags => FamilyAt(flags, 1) \in 1..LastAt(flags, 1, family, length)
  /\ "name" \in flags =>
       NameAt(flags, 1, family) \in 1..LastAt(flags, 1, family, length)

(* Where the object stands, there its fields stand.                        *)
LEMMA PlacesShift ==
  ASSUME NEW flags, NEW family \in {"ipv4", "ipv6"}, NEW length \in 1..64, NEW at \in Nat
  PROVE  Shifts(flags, family, length, at)
<1> DEFINE p == Room(flags, "ifindex", 1)
           q == Room(flags, "address", 1 + AddressWords(family))
           r == Room(flags, "name", 1 + ((length - 1) \div 4))
           t == Room(flags, "mtu", 1)
<1>1. /\ p \in Nat /\ q \in Nat /\ r \in Nat /\ t \in Nat
      /\ ("address" \in flags => q > 0) /\ ("name" \in flags => r > 0)
  <2> DEFINE m == AddressWords(family)
             n == (length - 1) \div 4
  <2>1. m \in Nat
    BY DEF AddressWords
  <2>2. n \in Nat
    OBVIOUS
  <2> HIDE DEF m, n
  <2> QED BY <2>1, <2>2 DEF Room, m, n
<1>2. \A first \in Nat :
        /\ FamilyAt(flags, first) = first + p
        /\ NameAt(flags, first, family) = first + p + q
        /\ MtuAt(flags, first, family, length) = first + p + q + r
        /\ LastAt(flags, first, family, length) = first + p + q + r + t - 1
  BY DEF FamilyAt, NameAt, MtuAt, LastAt
<1> HIDE DEF p, q, r, t
<1>3. 1 \in Nat /\ at + 1 \in Nat
  OBVIOUS
<1>4. /\ FamilyAt(flags, 1) = 1 + p
      /\ NameAt(flags, 1, family) = 1 + p + q
      /\ MtuAt(flags, 1, family, length) = 1 + p + q + r
      /\ LastAt(flags, 1, family, length) = 1 + p + q + r + t - 1
  BY <1>2, <1>3
<1>5. /\ FamilyAt(flags, at + 1) = (at + 1) + p
      /\ NameAt(flags, at + 1, family) = (at + 1) + p + q
      /\ MtuAt(flags, at + 1, family, length) = (at + 1) + p + q + r
      /\ LastAt(flags, at + 1, family, length) = (at + 1) + p + q + r + t - 1
  BY <1>2, <1>3
<1> QED BY <1>1, <1>4, <1>5 DEF Shifts

(* An interface object stands in the packet.                               *)
LEMMA InterfaceIsSent ==
  ASSUME NEW k \in Nat, NEW flags \in SUBSET Flags, NEW family \in {"ipv4", "ipv6"},
         NEW length \in 1..64
  PROVE  \A words \in Seq(Readings), at \in Nat :
           Block(words, at, Interface(k, flags, family, length))
             => /\ Sent(words, at, k)
                /\ words[at].length \div 4 = Len(Interface(k, flags, family, length))
<1> TAKE words \in Seq(Readings), at \in Nat
<1> HAVE Block(words, at, Interface(k, flags, family, length))
<1> DEFINE fields == InterfaceData(k, flags, family, length)
           a == FamilyAt(flags, 1)
           b == NameAt(flags, 1, family)
           c == MtuAt(flags, 1, family, length)
           last == LastAt(flags, 1, family, length)
<1>1. Interface(k, flags, family, length) = <<Header(k, Len(fields), "interface", flags)>> \o fields
  BY DEF Interface, InterfaceData
<1>2. LaidOut(fields, k, flags, family, length)
  BY FieldsLaidOut
<1> HIDE DEF fields
<1>3. Told(fields, k, flags, family, length)
  BY <1>2, FieldsTold
<1>4. /\ fields \in Seq(Readings) /\ Len(fields) = last
      /\ "address" \in flags => fields[a].family = family
      /\ "name" \in flags => fields[b].name = length
  BY <1>2 DEF LaidOut
<1>5. Headed(words, at, k, "interface", flags, fields)
  <2>1. "interface" \in Classes
    BY DEF Classes
  <2>2. Block(words, at, <<Header(k, Len(fields), "interface", flags)>> \o fields)
    BY <1>1
  <2> QED BY <1>4, <2>1, <2>2, HeadedObject
<1>6. /\ at \in 1..Len(words) /\ WellFormed(words, at) /\ words[at].is = <<k, "header">>
      /\ words[at].class = "interface" /\ words[at].flags = flags
      /\ words[at].length \div 4 = 1 + last
      /\ Payload(words, at) = (at + 1)..(at + last)
      /\ \A w \in Payload(words, at) : w - at \in 1..last /\ words[w] = fields[w - at]
  BY <1>4, <1>5 DEF Headed
<1>7. /\ a \in Nat /\ b \in Nat /\ c \in Nat /\ last \in Int
      /\ FamilyAt(flags, at + 1) = at + a /\ NameAt(flags, at + 1, family) = at + b
      /\ MtuAt(flags, at + 1, family, length) = at + c
      /\ LastAt(flags, at + 1, family, length) = at + last
      /\ ("address" \in flags => a \in 1..last) /\ ("name" \in flags => b \in 1..last)
  <2>1. Shifts(flags, family, length, at)
    BY PlacesShift
  <2> QED BY <2>1 DEF Shifts
<1>8. Len(Interface(k, flags, family, length)) = 1 + last
  <2>1. Header(k, Len(fields), "interface", flags) \in Readings
    <3>1. "interface" \in Classes /\ Len(fields) \in Nat
      BY <1>4 DEF Classes
    <3> QED BY <3>1, HeaderIs
  <2> DEFINE one == <<Header(k, Len(fields), "interface", flags)>>
  <2>2. one \in Seq(Readings) /\ Len(one) = 1
    BY <2>1, OneWord
  <2> HIDE DEF one
  <2>3. Len(one \o fields) = 1 + last
    BY <1>4, <2>2, BlocksJoin
  <2> QED BY <1>1, <2>3 DEF one
<1>9. ASSUME NEW w \in Payload(words, at)
      PROVE  Belongs(words, w, k) /\ words[w].is[2] # "label"
  <2>1. w - at \in 1..Len(fields) /\ words[w] = fields[w - at]
    BY <1>4, <1>6
  <2>2. PICK part \in {"ifindex", "family", "address", "name", "mtu"} :
          Plain(fields[w - at], k, part)
    BY <1>3, <2>1 DEF Told
  <2> QED BY <2>1, <2>2 DEF Plain, Belongs
<1> DEFINE place == Places(flags, at + 1, family, length)
           here == Places(flags, 1, family, length)
<1>10. ASSUME NEW f \in flags
       PROVE  place[f] = {w \in Payload(words, at) : words[w].is = <<k, f>>}
  <2>1. place = [ifindex |-> {at + 1}, address |-> ((at + a) + 1)..((at + b) - 1),
                 name |-> (at + b)..((at + c) - 1), mtu |-> {at + c}]
    BY <1>7 DEF Places
  <2>2. here = [ifindex |-> {1}, address |-> (a + 1)..(b - 1), name |-> b..(c - 1),
                mtu |-> {c}]
    BY DEF Places
  <2> HIDE DEF place, here, a, b, c, last
  <2>3. f \in {"ifindex", "address", "name", "mtu"}
    BY DEF Flags
  <2>4. \A w \in Int : w \in place[f] <=> w - at \in here[f]
    <3>1. CASE f = "ifindex"
      BY <2>1, <2>2, <3>1
    <3>2. CASE f = "address"
      BY <1>7, <2>1, <2>2, <3>2
    <3>3. CASE f = "name"
      BY <1>7, <2>1, <2>2, <3>3
    <3>4. CASE f = "mtu"
      BY <1>7, <2>1, <2>2, <3>4
    <3> QED BY <2>3, <3>1, <3>2, <3>3, <3>4
  <2>5. \A w \in place[f] : w \in Int
    BY <1>7, <2>1, <2>3
  <2>6. \A j \in Int : j \in here[f] <=> j \in 1..last /\ fields[j].is = <<k, f>>
    BY <1>3, <1>4 DEF Told, here
  <2>7. ASSUME NEW w \in Int
        PROVE  w \in place[f] <=> w \in Payload(words, at) /\ words[w].is = <<k, f>>
    <3>1. w - at \in Int /\ (w - at \in 1..last <=> w \in (at + 1)..(at + last))
      BY <1>7
    <3> QED BY <1>6, <2>4, <2>6, <3>1
  <2>8. \A w \in Payload(words, at) : w \in Int
    BY <1>6
  <2> QED BY <2>5, <2>7, <2>8
<1>11. InterfaceSent(words, at, k)
  <2> HIDE DEF a, b, c, last
  <2>1. at - 1 + words[at].length \div 4 = LastAt(flags, at + 1, family, length)
    BY <1>6, <1>7
  <2>2. "address" \in flags => words[at + a].family = family
    <3>1. "address" \in flags => at + a \in Payload(words, at) /\ (at + a) - at = a
      BY <1>6, <1>7
    <3> QED BY <1>4, <1>6, <3>1
  <2>3. "name" \in flags => words[at + b].name = length
    <3>1. "name" \in flags => at + b \in Payload(words, at) /\ (at + b) - at = b
      <4>1. "name" \in flags => b \in 1..last
        BY <1>7
      <4>2. b \in 1..last => at + b \in (at + 1)..(at + last) /\ (at + b) - at = b
        BY <1>7
      <4> QED BY <1>6, <4>1, <4>2
    <3> QED BY <1>4, <1>6, <3>1
  <2> QED BY <1>6, <1>7, <1>10, <2>1, <2>2, <2>3 DEF InterfaceSent
<1> QED BY <1>6, <1>8, <1>9, <1>11 DEF Sent

(* A header and what follows it.                                           *)
LEMMA ObjectIs ==
  ASSUME NEW k \in Nat, NEW class \in Classes, NEW flags \in SUBSET Flags,
         NEW n \in Nat, NEW fields \in Seq(Readings)
  PROVE  LET o == <<Header(k, n, class, flags)>> \o fields
         IN  o \in Seq(Readings) /\ Len(o) = 1 + Len(fields)
<1> DEFINE one == <<Header(k, n, class, flags)>>
<1>1. one \in Seq(Readings) /\ Len(one) = 1
  <2>1. Header(k, n, class, flags) \in Readings
    BY HeaderIs
  <2> QED BY <2>1, OneWord
<1> HIDE DEF one
<1>2. one \o fields \in Seq(Readings) /\ Len(one \o fields) = 1 + Len(fields)
  BY <1>1, BlocksJoin
<1> QED BY <1>2 DEF one

(* Whatever object a sender writes, wherever it stands.                    *)
Fits(o, k) ==
  /\ o \in Seq(Readings) /\ Len(o) \in Nat /\ Len(o) > 0
  /\ \A words \in Seq(Readings), at \in Nat :
       Block(words, at, o) => Sent(words, at, k) /\ words[at].length \div 4 = Len(o)

(* Lists of labels and unknown objects.                                    *)
LEMMA ListFits ==
  ASSUME NEW k \in Nat, NEW n \in Nat, NEW class \in {"mpls", "other"}
  PROVE  Fits(<<Header(k, n, class, {})>> \o Fields(k, Content(class), n), k)
<1> DEFINE f == Content(class)
           fields == Fields(k, f, n)
           o == <<Header(k, n, class, {})>> \o fields
<1>1. fields \in Seq(Readings) /\ Len(fields) = n
  <2>1. f \in Parts
    BY DEF Content, Parts
  <2> HIDE DEF f
  <2> QED BY <2>1, FieldsAre DEF PlainWords
<1>2. o \in Seq(Readings) /\ Len(o) = 1 + n
  <2>1. class \in Classes /\ {} \in SUBSET Flags
    BY DEF Classes
  <2> HIDE DEF fields
  <2> QED BY <1>1, <2>1, ObjectIs
<1>3. \A words \in Seq(Readings), at \in Nat :
        Block(words, at, o) => Sent(words, at, k) /\ words[at].length \div 4 = 1 + n
  BY ListSent
<1> HIDE DEF o
<1> QED BY <1>2, <1>3 DEF Fits, o

(* Interface objects.                                                      *)
LEMMA InterfaceFits ==
  ASSUME NEW k \in Nat, NEW flags \in SUBSET Flags, NEW family \in {"ipv4", "ipv6"},
         NEW length \in 1..64
  PROVE  Fits(Interface(k, flags, family, length), k)
<1> DEFINE fields == InterfaceData(k, flags, family, length)
           o == Interface(k, flags, family, length)
<1>1. o = <<Header(k, Len(fields), "interface", flags)>> \o fields
  BY DEF Interface, InterfaceData
<1>2. fields \in Seq(Readings)
  BY FieldsLaidOut DEF LaidOut
<1> HIDE DEF fields
<1>3. o \in Seq(Readings) /\ Len(o) = 1 + Len(fields) /\ Len(fields) \in Nat
  <2>1. "interface" \in Classes /\ Len(fields) \in Nat
    BY <1>2 DEF Classes
  <2> QED BY <1>1, <1>2, <2>1, ObjectIs
<1>4. \A words \in Seq(Readings), at \in Nat :
        Block(words, at, o) => Sent(words, at, k) /\ words[at].length \div 4 = Len(o)
  BY InterfaceIsSent
<1> HIDE DEF o
<1> QED BY <1>3, <1>4 DEF Fits, o

(* Every object that the model writes.                                     *)
LEMMA ObjectsFit ==
  ASSUME NEW k \in Nat, NEW o \in Objects(k)
  PROVE  Fits(o, k)
<1>1. Counts \subseteq Nat /\ Names \subseteq 1..64
  BY InputAssumption
<1>2. CASE o \in {Labels(k, n) : n \in Counts}
  <2>1. PICK n \in Counts : o = Labels(k, n)
    BY <1>2
  <2>2. Fits(<<Header(k, n, "mpls", {})>> \o Fields(k, Content("mpls"), n), k)
    BY <1>1, ListFits
  <2> QED BY <2>1, <2>2 DEF Labels, Content
<1>3. CASE o \in {Unknown(k, n) : n \in Counts}
  <2>1. PICK n \in Counts : o = Unknown(k, n)
    BY <1>3
  <2>2. Fits(<<Header(k, n, "other", {})>> \o Fields(k, Content("other"), n), k)
    BY <1>1, ListFits
  <2> QED BY <2>1, <2>2 DEF Unknown, Content
<1>4. CASE o \in {Interface(k, flags, family, length) :
                    flags \in SUBSET Flags, family \in {"ipv4", "ipv6"}, length \in Names}
  <2>1. PICK flags \in SUBSET Flags, family \in {"ipv4", "ipv6"}, length \in Names :
          o = Interface(k, flags, family, length)
    BY <1>4
  <2>2. length \in 1..64
    BY <1>1
  <2> QED BY <2>1, <2>2, InterfaceFits
<1> QED BY <1>2, <1>3, <1>4 DEF Objects

-----------------------------------------------------------------------------
(* Objects one behind the other: object i at place[i].                     *)
PlacedAs(body, m, place) ==
  /\ place \in [1..(m + 1) -> Nat]
  /\ place[1] = 1 /\ place[m + 1] = Len(body) + 1
  /\ \A i \in 1..m : \E o \in Objects(i) : /\ Block(body, place[i], o)
                                           /\ place[i + 1] = place[i] + Len(o)
  /\ \A w \in 1..Len(body) : \E i \in 1..m : w \in place[i]..(place[i + 1] - 1)

Placed(body, m) == body \in Seq(Readings) /\ \E place : PlacedAs(body, m, place)

(* No objects.                                                             *)
LEMMA NothingPlaced == Placed(<<>>, 0)
<1> DEFINE place == [i \in 1..1 |-> 1]
<1>1. <<>> \in Seq(Readings) /\ Len(<<>>) = 0
  OBVIOUS
<1>2. place \in [1..(0 + 1) -> Nat] /\ place[1] = 1 /\ place[0 + 1] = 0 + 1
  OBVIOUS
<1>3. PlacedAs(<<>>, 0, place)
  BY <1>1, <1>2 DEF PlacedAs
<1> QED BY <1>1, <1>3 DEF Placed

(* One more object behind the others.                                      *)
LEMMA OneMorePlaced ==
  ASSUME NEW m \in Nat, NEW body, Placed(body, m), NEW o \in Objects(m + 1)
  PROVE  Placed(body \o o, m + 1)
<1> DEFINE u == body \o o
<1>1. body \in Seq(Readings) /\ o \in Seq(Readings) /\ Len(o) \in Nat /\ Len(o) > 0
      /\ Len(body) \in Nat
  BY ObjectsFit DEF Placed, Fits
<1>2. /\ u \in Seq(Readings) /\ Len(u) = Len(body) + Len(o)
      /\ Block(u, Len(body) + 1, o)
      /\ \A at, p : Block(body, at, p) => Block(u, at, p)
  BY <1>1, BlocksJoin
<1> HIDE DEF u
<1>3. PICK old : PlacedAs(body, m, old)
  BY DEF Placed
<1>4. /\ old \in [1..(m + 1) -> Nat] /\ old[1] = 1 /\ old[m + 1] = Len(body) + 1
      /\ \A i \in 1..m : \E p \in Objects(i) : /\ Block(body, old[i], p)
                                               /\ old[i + 1] = old[i] + Len(p)
      /\ \A w \in 1..Len(body) : \E i \in 1..m : w \in old[i]..(old[i + 1] - 1)
  BY <1>3 DEF PlacedAs
<1> DEFINE M == m + 1
           place == [i \in 1..(M + 1) |-> IF i = M + 1 THEN Len(u) + 1 ELSE old[i]]
<1>5. /\ M \in Nat /\ M \in 1..M /\ 1 \in 1..M /\ m + 1 = M
      /\ \A i \in 1..m : i \in 1..M /\ i + 1 \in 1..M
      /\ \A i \in 1..M : i \in 1..(M + 1) /\ i # M + 1
      /\ M + 1 \in 1..(M + 1)
      /\ \A i \in 1..M : i = M \/ i \in 1..m
  OBVIOUS
<1> HIDE DEF M
<1>6. place \in [1..(M + 1) -> Nat]
  BY <1>1, <1>2, <1>4, <1>5
<1>7. place[M + 1] = Len(u) + 1 /\ \A i \in 1..M : place[i] = old[i]
  BY <1>5
<1> HIDE DEF place
<1>8. place[1] = 1
  BY <1>4, <1>5, <1>7
<1>9. ASSUME NEW i \in 1..M
      PROVE  \E p \in Objects(i) : Block(u, place[i], p) /\ place[i + 1] = place[i] + Len(p)
  <2>1. CASE i = M
    <3>1. place[i] = Len(body) + 1 /\ place[i + 1] = Len(u) + 1 /\ o \in Objects(i)
      BY <1>4, <1>5, <1>7, <2>1
    <3>2. Len(u) + 1 = (Len(body) + 1) + Len(o)
      BY <1>1, <1>2
    <3> QED BY <1>2, <3>1, <3>2
  <2>2. CASE i \in 1..m
    <3>1. place[i] = old[i] /\ place[i + 1] = old[i + 1]
      BY <1>5, <1>7, <2>2
    <3> QED BY <1>2, <1>4, <2>2, <3>1
  <2> QED BY <1>5, <2>1, <2>2
<1>10. ASSUME NEW w \in 1..Len(u)
       PROVE  \E i \in 1..M : w \in place[i]..(place[i + 1] - 1)
  <2>1. CASE w \in 1..Len(body)
    <3>1. PICK i \in 1..m : w \in old[i]..(old[i + 1] - 1)
      BY <1>4, <2>1
    <3> QED BY <1>5, <1>7, <3>1
  <2>2. CASE ~(w \in 1..Len(body))
    <3>1. place[M] = Len(body) + 1 /\ place[M + 1] - 1 = Len(u)
      BY <1>1, <1>2, <1>4, <1>5, <1>7
    <3>2. w \in place[M]..(place[M + 1] - 1)
      BY <1>1, <1>2, <2>2, <3>1
    <3> QED BY <1>5, <3>2
  <2> QED BY <2>1, <2>2
<1>11. PlacedAs(u, M, place)
  BY <1>6, <1>7, <1>8, <1>9, <1>10 DEF PlacedAs
<1> QED BY <1>2, <1>5, <1>11 DEF Placed, u

(* Bodies, as a function chosen to satisfy its recursion.                  *)
Extended(bodies, m) == {body \o o : body \in bodies, o \in Objects(m)}
MoreBodies(f, m) == IF m = 0 THEN {<<>>} ELSE Extended(f[m - 1], m)

AreBodies(f, n) == f = [m \in 0..n |-> MoreBodies(f, m)]

(* There is a function that satisfies it.                                  *)
LEMMA BodiesExist ==
  ASSUME NEW n \in Nat
  PROVE  \E f : AreBodies(f, n)
<1> DEFINE S == {i \in Nat : ~\E f : AreBodies(f, i)}
<1>1. SUFFICES ASSUME S # {} PROVE FALSE
  OBVIOUS
<1>2. PICK m \in S : \A i \in S : m <= i
  <2>1. S \in SUBSET Nat
    OBVIOUS
  <2> HIDE DEF S
  <2> QED BY <1>1, <2>1, LeastCase
<1>3. m \in Nat /\ ~\E f : AreBodies(f, m)
  OBVIOUS
<1>4. CASE m = 0
  <2> DEFINE f == [i \in 0..m |-> {<<>>}]
  <2>1. \A i \in 0..m : MoreBodies(f, i) = {<<>>}
    BY <1>4 DEF MoreBodies
  <2>2. AreBodies(f, m)
    BY <2>1 DEF AreBodies
  <2> QED BY <1>3, <2>2
<1>5. CASE m # 0
  <2>1. m - 1 \in Nat /\ ~(m <= m - 1)
    BY <1>3, <1>5
  <2>2. PICK g : AreBodies(g, m - 1)
    BY <1>2, <2>1
  <2> DEFINE f == [i \in 0..m |-> IF i = m THEN MoreBodies(g, m) ELSE g[i]]
  <2>3. \A i \in 0..(m - 1) : i \in 0..m /\ i # m /\ g[i] = MoreBodies(g, i) /\ f[i] = g[i]
    BY <1>3, <2>2 DEF AreBodies
  <2>4. ASSUME NEW i \in 0..m PROVE f[i] = MoreBodies(f, i)
    <3>1. i # 0 => i - 1 \in 0..(m - 1)
      BY <1>3
    <3>2. i # 0 => f[i - 1] = g[i - 1]
      BY <2>3, <3>1
    <3>3. MoreBodies(f, i) = MoreBodies(g, i)
      <4> HIDE DEF f
      <4> QED BY <3>2 DEF MoreBodies
    <3>4. f[i] = MoreBodies(g, i)
      <4>1. i = m \/ i \in 0..(m - 1)
        BY <1>3
      <4>2. i = m => f[i] = MoreBodies(g, m)
        OBVIOUS
      <4> HIDE DEF f
      <4> QED BY <2>3, <4>1, <4>2
    <3> QED BY <3>3, <3>4
  <2>5. f = [i \in 0..m |-> f[i]]
    OBVIOUS
  <2> HIDE DEF f
  <2>6. AreBodies(f, m)
    BY <2>4, <2>5 DEF AreBodies
  <2> QED BY <1>3, <2>6
<1> QED BY <1>4, <1>5

(* Bodies satisfies it.                                                    *)
LEMMA BodiesAre == \A m \in 0..MostObjects : Bodies[m] = MoreBodies(Bodies, m)
<1>1. Bodies = CHOOSE f : AreBodies(f, MostObjects)
  BY DEF Bodies, AreBodies, MoreBodies, Extended
<1>2. MostObjects \in Nat
  BY InputAssumption
<1>3. AreBodies(Bodies, MostObjects)
  <2>1. \E f : AreBodies(f, MostObjects)
    BY <1>2, BodiesExist
  <2> QED BY <1>1, <2>1
<1> QED BY <1>3 DEF AreBodies

(* Every body is objects one behind the other, by a least counterexample.  *)
LEMMA BodiesPlaced ==
  ASSUME NEW n \in 0..MostObjects, NEW body \in Bodies[n]
  PROVE  Placed(body, n)
<1> DEFINE S == {m \in Nat : m \in 0..MostObjects /\ \E b \in Bodies[m] : ~Placed(b, m)}
<1>1. SUFFICES ASSUME S # {} PROVE FALSE
  <2>1. n \in Nat
    OBVIOUS
  <2> QED BY <2>1
<1>2. PICK m \in S : \A i \in S : m <= i
  <2>1. S \in SUBSET Nat
    OBVIOUS
  <2> HIDE DEF S
  <2> QED BY <1>1, <2>1, LeastCase
<1>3. m \in 0..MostObjects
  OBVIOUS
<1>4. PICK b \in Bodies[m] : ~Placed(b, m)
  OBVIOUS
<1>5. b \in MoreBodies(Bodies, m)
  BY <1>3, BodiesAre
<1>6. CASE m = 0
  <2>1. b = <<>>
    BY <1>5, <1>6 DEF MoreBodies
  <2> QED BY <1>4, <1>6, <2>1, NothingPlaced
<1>7. CASE m # 0
  <2> DEFINE h == m - 1
  <2>1. h \in Nat /\ h \in 0..MostObjects /\ ~(m <= h) /\ h + 1 = m
    BY <1>3, <1>7, InputAssumption
  <2>2. PICK c \in Bodies[h], o \in Objects(m) : b = c \o o
    BY <1>5, <1>7 DEF MoreBodies, Extended
  <2> HIDE DEF h
  <2>3. Placed(c, h)
    BY <1>2, <2>1
  <2>4. Placed(c \o o, h + 1)
    BY <2>1, <2>3, OneMorePlaced
  <2> QED BY <1>4, <2>1, <2>2, <2>4
<1> QED BY <1>6, <1>7

-----------------------------------------------------------------------------
(* What is taken out of the packet.                                        *)
LEMMA WordsReadable ==
  ASSUME NEW words \in Seq(Readings)
  PROVE  Readable(words) /\ DOMAIN words = 1..Len(words) /\ Len(words) \in Nat
<1>1. \A i \in 1..Len(words) : words[i] \in Readings
  OBVIOUS
<1> QED BY <1>1 DEF Readable, Readings

(* The words meant as field f of object k.                                 *)
Meant(words, k, f) == {w \in DOMAIN words : words[w].is = <<k, f>>}

(* What the sender meant by object k is what is taken from it.             *)
Recovered(words, at, k) ==
  /\ \A o \in Taken(words, at) :
       /\ o.at = at
       /\ o.what = "label" => o.from \subseteq Meant(words, k, "label")
       /\ o.what = "interface" =>
            /\ DOMAIN o.from = words[at].flags
            /\ \A f \in DOMAIN o.from : o.from[f] = Meant(words, k, f)
  /\ \A w \in Payload(words, at) :
       words[w].is[2] = "label" => \E o \in Taken(words, at) : o.what = "label" /\ o.from = {w}
  /\ words[at].class \in {"interface", "other"} => \E o \in Taken(words, at) : o.at = at

(* The fields taken from an interface object are the fields meant.         *)
LEMMA FieldsAsSent ==
  ASSUME NEW words \in Seq(Readings), NEW k \in Nat, NEW at, Sent(words, at, k),
         InterfaceSent(words, at, k),
         \A w \in 1..Len(words) : words[w].is[1] = k => w = at \/ w \in Payload(words, at)
  PROVE  InterfaceFields(words, words[at].flags, at + 1, at - 1 + words[at].length \div 4)
           = {[f \in words[at].flags |-> Meant(words, k, f)]}
<1> DEFINE flags == words[at].flags
           end == at - 1 + words[at].length \div 4
           first == at + 1
<1>1. PICK family \in {"ipv4", "ipv6"}, length \in 1..64 :
        /\ end = LastAt(flags, first, family, length)
        /\ "address" \in flags => words[FamilyAt(flags, first)].family = family
        /\ "name" \in flags => words[NameAt(flags, first, family)].name = length
        /\ \A f \in flags : Places(flags, first, family, length)[f] =
                              {w \in Payload(words, at) : words[w].is = <<k, f>>}
  BY DEF InterfaceSent
<1>2. flags \in SUBSET Flags /\ first \in Nat /\ at \in 1..Len(words) /\ at \in Nat
      /\ Len(words) \in Nat /\ DOMAIN words = 1..Len(words)
  BY WordsReadable DEF Sent
<1>3. end <= Len(words)
  BY DEF Sent, WellFormed
<1> DEFINE place == Places(flags, first, family, length)
<1>4. InterfaceFields(words, flags, first, LastAt(flags, first, family, length))
        = {[f \in flags |-> place[f]]}
  <2> HIDE DEF flags, first
  <2>1. /\ "address" \in flags => words[FamilyAt(flags, first)].family = family
        /\ "name" \in flags => words[NameAt(flags, first, family)].name = length
    BY <1>1
  <2>2. /\ "address" \in flags => words[FamilyAt(flags, first)].family = family
        /\ "name" \in flags => words[NameAt(flags, first, family)].name = length
        => InterfaceFields(words, flags, first, LastAt(flags, first, family, length))
             = {[f \in flags |-> Places(flags, first, family, length)[f]]}
    <3>1. FieldsFound(words, flags, first, family, length)
      BY <1>2, FieldsRecovered
    <3> QED BY <3>1 DEF FieldsFound
  <2> QED BY <2>1, <2>2
<1>5. ASSUME NEW f \in flags PROVE place[f] = Meant(words, k, f)
  <2>1. place[f] = {w \in Payload(words, at) : words[w].is = <<k, f>>}
    BY <1>1
  <2>2. f # "header"
    BY <1>2 DEF Flags
  <2>3. words[at].is = <<k, "header">>
    BY DEF Sent
  <2>4. \A w \in Payload(words, at) : w \in 1..Len(words)
    <3> HIDE DEF flags, place
    <3>1. Payload(words, at) = (at + 1)..end
      BY DEF Payload
    <3>2. words[at].length \div 4 \in Int
      <4>1. words[at].length \in Nat
        BY <1>2, WordsReadable DEF Readable
      <4> QED BY <4>1
    <3> QED BY <1>2, <1>3, <3>1, <3>2
  <2>5. \A w \in 1..Len(words) : words[w].is = <<k, f>> => w \in Payload(words, at)
    BY <2>2, <2>3
  <2> QED BY <1>2, <2>1, <2>4, <2>5 DEF Meant
<1>6. [f \in flags |-> place[f]] = [f \in flags |-> Meant(words, k, f)]
  BY <1>5
<1> QED BY <1>1, <1>4, <1>6

(* An object that stands in the packet is recovered from it.               *)
LEMMA SentIsRecovered ==
  ASSUME NEW words \in Seq(Readings), NEW k \in Nat, NEW at, Sent(words, at, k),
         \A w \in 1..Len(words) : words[w].is[1] = k => w = at \/ w \in Payload(words, at)
  PROVE  Recovered(words, at, k)
<1> DEFINE end == at - 1 + words[at].length \div 4
           class == words[at].class
           flags == words[at].flags
           fields == InterfaceFields(words, flags, at + 1, end)
<1>1. Readable(words) /\ DOMAIN words = 1..Len(words) /\ Len(words) \in Nat
      /\ at \in 1..Len(words) /\ WellFormed(words, at)
  BY WordsReadable DEF Sent
<1>2. Taken(words, at) =
        CASE class = "mpls" ->
               {[what |-> "label", at |-> at, from |-> {w}] : w \in (at + 1)..end}
          [] class = "interface" ->
               {[what |-> "interface", at |-> at, from |-> p] : p \in fields}
          [] OTHER -> {[what |-> "unknown", at |-> at, from |-> {}]}
  BY <1>1, TakenIs
<1>3. Payload(words, at) = (at + 1)..end /\ Payload(words, at) \subseteq DOMAIN words
  <2>1. words[at].length \in Nat /\ end <= Len(words)
    BY <1>1 DEF Readable, WellFormed
  <2> QED BY <1>1, <2>1 DEF Payload
<1>4. InterfaceSent(words, at, k) => fields = {[f \in flags |-> Meant(words, k, f)]}
  BY FieldsAsSent
<1>5. \/ class = "mpls" /\ \A w \in Payload(words, at) : words[w].is = <<k, "label">>
      \/ class = "other" /\ \A w \in Payload(words, at) : words[w].is[2] # "label"
      \/ /\ class = "interface"
         /\ \A w \in Payload(words, at) : words[w].is[2] # "label"
         /\ InterfaceSent(words, at, k)
  BY DEF Sent
<1> HIDE DEF end, fields
<1>6. CASE class = "mpls" /\ \A w \in Payload(words, at) : words[w].is = <<k, "label">>
  <2>1. Taken(words, at) =
          {[what |-> "label", at |-> at, from |-> {w}] : w \in Payload(words, at)}
    BY <1>2, <1>3, <1>6
  <2>2. \A w \in Payload(words, at) : {w} \subseteq Meant(words, k, "label")
    BY <1>3, <1>6 DEF Meant
  <2>3. ASSUME NEW o \in Taken(words, at)
        PROVE  o.at = at /\ o.what = "label" /\ o.from \subseteq Meant(words, k, "label")
    BY <2>1, <2>2
  <2>4. \A w \in Payload(words, at) : \E o \in Taken(words, at) : o.what = "label" /\ o.from = {w}
    <3> TAKE w \in Payload(words, at)
    <3> DEFINE o == [what |-> "label", at |-> at, from |-> {w}]
    <3>1. o \in Taken(words, at) /\ o.what = "label" /\ o.from = {w}
      BY <2>1
    <3> QED BY <3>1
  <2> QED BY <1>6, <2>3, <2>4 DEF Recovered
<1>7. CASE class = "other" /\ \A w \in Payload(words, at) : words[w].is[2] # "label"
  <2>1. Taken(words, at) = {[what |-> "unknown", at |-> at, from |-> {}]}
    BY <1>2, <1>7
  <2> QED BY <1>7, <2>1 DEF Recovered
<1>8. CASE /\ class = "interface"
           /\ \A w \in Payload(words, at) : words[w].is[2] # "label"
           /\ InterfaceSent(words, at, k)
  <2> DEFINE sent == [f \in flags |-> Meant(words, k, f)]
             only == [what |-> "interface", at |-> at, from |-> sent]
  <2>1. Taken(words, at) = {only}
    BY <1>2, <1>4, <1>8
  <2>2. DOMAIN sent = flags /\ \A f \in flags : sent[f] = Meant(words, k, f)
    OBVIOUS
  <2> HIDE DEF sent
  <2>3. only.at = at /\ only.what = "interface" /\ only.from = sent
    OBVIOUS
  <2> HIDE DEF only
  <2> QED BY <1>8, <2>1, <2>2, <2>3 DEF Recovered
<1> QED BY <1>5, <1>6, <1>7, <1>8

-----------------------------------------------------------------------------
(* The packet: what lies before the objects and behind them.               *)
(* The words before the extension's header.                                *)
Before(q) == IF q = 0 THEN Legacy ELSE q + 2

(* The words before the objects.                                           *)
LEMMA FrontIs ==
  ASSUME NEW q \in Nat
  PROVE  /\ Before(q) \in Nat /\ Before(q) >= 2
         /\ Front(q) \in Seq(Readings) /\ Len(Front(q)) = Before(q) + 1
         /\ Front(q)[Before(q) + 1].version = 2
         /\ \A w \in 1..(Before(q) + 1) :
              Front(q)[w].is[1] = 0 /\ Front(q)[w].is[2] # "label"
<1> DEFINE n == IF q = 0 THEN Legacy - 2 ELSE q
           icmp == Fields(0, "icmp", 2)
           quote == Fields(0, "quote", n)
           mark == [Blank EXCEPT !.version = 2]
           last == <<mark>>
           both == icmp \o quote
           all == both \o last
<1>1. n \in Nat /\ Before(q) = 2 + n
  BY DEF Before, Legacy
<1>2. Front(q) = all
  BY DEF Front
<1> HIDE DEF n
<1>3. icmp \in Seq(Readings) /\ Len(icmp) = 2 /\ \A i \in 1..2 : Plain(icmp[i], 0, "icmp")
  <2>1. "icmp" \in Parts
    BY DEF Parts
  <2> QED BY <2>1, FieldsAre DEF PlainWords
<1>4. quote \in Seq(Readings) /\ Len(quote) = n /\ \A i \in 1..n : Plain(quote[i], 0, "quote")
  <2>1. "quote" \in Parts
    BY DEF Parts
  <2> QED BY <1>1, <2>1, FieldsAre DEF PlainWords
<1>5. mark \in Readings /\ mark.version = 2 /\ mark.is = <<0, "none">>
  <2>1. Blank \in Readings /\ Blank.is = <<0, "none">>
    BY WordsAre
  <2> QED BY <2>1 DEF Readings
<1> HIDE DEF mark, icmp, quote
<1>6. last \in Seq(Readings) /\ Len(last) = 1 /\ last[1] = mark
  BY <1>5, OneWord
<1> HIDE DEF last
<1>7. /\ both \in Seq(Readings) /\ Len(both) = 2 + n
      /\ Block(both, 1, icmp) /\ Block(both, 3, quote)
  <2>1. /\ both \in Seq(Readings) /\ Len(both) = Len(icmp) + Len(quote)
        /\ Block(both, 1, icmp) /\ Block(both, Len(icmp) + 1, quote)
    BY <1>3, <1>4, BlocksJoin
  <2> QED BY <1>1, <1>3, <1>4, <2>1
<1> HIDE DEF both
<1>8. /\ all \in Seq(Readings) /\ Len(all) = (2 + n) + 1
      /\ Block(all, 1, icmp) /\ Block(all, 3, quote) /\ Block(all, (2 + n) + 1, last)
  <2>1. /\ all \in Seq(Readings) /\ Len(all) = Len(both) + Len(last)
        /\ Block(all, Len(both) + 1, last)
        /\ \A at, o : Block(both, at, o) => Block(all, at, o)
    BY <1>6, <1>7, BlocksJoin
  <2> QED BY <1>6, <1>7, <2>1
<1> HIDE DEF all
<1>9. all[(2 + n) + 1] = mark
  <2>1. 1 \in 1..1 /\ (((2 + n) + 1) - 1) + 1 = (2 + n) + 1
    BY <1>1
  <2> QED BY <1>6, <1>8, <2>1 DEF Block
<1>10. ASSUME NEW w \in 1..((2 + n) + 1)
       PROVE  all[w].is[1] = 0 /\ all[w].is[2] # "label"
  <2>1. CASE w \in 1..2
    <3>1. (1 - 1) + w = w
      OBVIOUS
    <3>2. all[w] = icmp[w]
      BY <1>3, <1>8, <2>1, <3>1 DEF Block
    <3> QED BY <1>3, <2>1, <3>2 DEF Plain
  <2>2. CASE w \in 3..(2 + n)
    <3>1. w - 2 \in 1..n /\ (3 - 1) + (w - 2) = w
      BY <1>1, <2>2
    <3>2. all[w] = quote[w - 2]
      BY <1>4, <1>8, <3>1 DEF Block
    <3> QED BY <1>4, <3>1, <3>2 DEF Plain
  <2>3. CASE w = (2 + n) + 1
    BY <1>5, <1>9, <2>3
  <2>4. w \in 1..2 \/ w \in 3..(2 + n) \/ w = (2 + n) + 1
    BY <1>1
  <2> QED BY <2>1, <2>2, <2>3, <2>4
<1>11. Before(q) \in Nat /\ Before(q) >= 2
  BY <1>1
<1> QED BY <1>1, <1>2, <1>5, <1>8, <1>9, <1>10, <1>11

(* What may follow the objects is no object.                               *)
LEMMA TailIs ==
  ASSUME NEW tail \in Tails
  PROVE  /\ tail \in Seq(Readings)
         /\ \/ Len(tail) = 0
            \/ Len(tail) = 1 /\ tail[1].is = <<0, "header">> /\ tail[1].length \in {0, 3, 6, 8}
<1>1. CASE tail = <<>>
  BY <1>1
<1>2. CASE tail # <<>>
  <2>1. PICK class \in {"mpls", "interface", "other"}, n \in {0, 3, 6, 8} :
          tail = <<[Header(0, 0, class, Flags) EXCEPT !.length = n]>>
    BY <1>2 DEF Tails
  <2> DEFINE w == [Header(0, 0, class, Flags) EXCEPT !.length = n]
  <2>2. Header(0, 0, class, Flags) \in Readings
        /\ Header(0, 0, class, Flags).is = <<0, "header">>
    <3>1. class \in Classes /\ Flags \in SUBSET Flags
      BY DEF Classes
    <3> QED BY <3>1, HeaderIs
  <2>3. w \in Readings /\ w.is = <<0, "header">> /\ w.length = n
    BY <2>2 DEF Readings
  <2> HIDE DEF w
  <2>4. tail = <<w>>
    BY <2>1 DEF w
  <2> QED BY <2>3, <2>4, OneWord
<1> QED BY <1>1, <1>2

(* The body is all there is behind word p + 1.                             *)
Carries(words, p, body) ==
  /\ words \in Seq(Readings) /\ p \in Nat
  /\ Block(words, p + 2, body)
  /\ Len(words) >= p + 1 + Len(body)
  /\ \A w \in 1..Len(words) : w < p + 2 \/ w > p + 1 + Len(body)
                                => words[w].is[1] = 0 /\ words[w].is[2] # "label"
  /\ p + 2 + Len(body) > Len(words) \/ ~WellFormed(words, p + 2 + Len(body))

(* An error as its author writes it.                                       *)
LEMMA ErrorIs ==
  ASSUME NEW q \in Nat, NEW sum, NEW body \in Seq(Readings), NEW tail \in Tails
  PROVE  LET words == Error(q, sum, body, tail).words
         IN  Carries(words, Before(q), body) /\ ExtensionStart(q, words) = {Before(q) + 1}
<1> DEFINE p == Before(q)
           front == Front(q)
           some == front \o body
           words == some \o tail
           n == Len(body)
<1>1. Error(q, sum, body, tail).words = words
  BY DEF Error, Front
<1>2. /\ p \in Nat /\ p >= 2 /\ front \in Seq(Readings) /\ Len(front) = p + 1
      /\ front[p + 1].version = 2
      /\ \A w \in 1..(p + 1) : front[w].is[1] = 0 /\ front[w].is[2] # "label"
  BY FrontIs
<1>3. /\ tail \in Seq(Readings)
      /\ \/ Len(tail) = 0
         \/ Len(tail) = 1 /\ tail[1].is = <<0, "header">> /\ tail[1].length \in {0, 3, 6, 8}
  BY TailIs
<1> HIDE DEF front, p
<1>4. /\ some \in Seq(Readings) /\ Len(some) = Len(front) + n
      /\ Block(some, 1, front) /\ Block(some, Len(front) + 1, body)
  BY <1>2, BlocksJoin
<1> HIDE DEF some
<1>5. /\ words \in Seq(Readings) /\ Len(words) = Len(some) + Len(tail)
      /\ Block(words, 1, front) /\ Block(words, Len(front) + 1, body)
      /\ Block(words, Len(some) + 1, tail)
  BY <1>3, <1>4, BlocksJoin
<1> HIDE DEF words
<1>6. n \in Nat
  OBVIOUS
<1> HIDE DEF n
<1>7. /\ Len(front) + 1 = p + 2 /\ Len(some) = p + 1 + n
      /\ Len(words) = p + 1 + n + Len(tail)
  BY <1>2, <1>4, <1>5, <1>6
<1>8. \A w \in 1..(p + 1) : words[w] = front[w]
  <2>1. \A w \in 1..(p + 1) : (1 - 1) + w = w
    BY <1>2
  <2> QED BY <1>2, <1>5, <2>1 DEF Block
<1> DEFINE at == p + 2 + n
<1>9. Len(tail) = 1 => words[at] = tail[1] /\ Len(words) = at
  <2>1. 1 \in 1..1 /\ ((p + 1 + n + 1) - 1) + 1 = at /\ at = p + 1 + n + 1
    BY <1>2, <1>6
  <2> QED BY <1>5, <1>7, <2>1 DEF Block
<1>10. at > Len(words) \/ ~WellFormed(words, at)
  <2>1. Len(tail) = 0 => at > Len(words)
    BY <1>2, <1>6, <1>7
  <2>2. ASSUME Len(tail) = 1 PROVE ~WellFormed(words, at)
    <3>1. words[at].length \in {0, 3, 6, 8} /\ Len(words) = at /\ at \in Nat
      BY <1>2, <1>3, <1>6, <1>9, <2>2
    <3> HIDE DEF at
    <3>2. 8 \div 4 = 2 /\ 6 % 4 = 2
      OBVIOUS
    <3> QED BY <3>1, <3>2 DEF WellFormed
  <2> QED BY <1>3, <2>1, <2>2
<1>11. ASSUME NEW w \in 1..Len(words), w < p + 2 \/ w > p + 1 + n
       PROVE  words[w].is[1] = 0 /\ words[w].is[2] # "label"
  <2>1. CASE w < p + 2
    <3>1. w \in 1..(p + 1)
      BY <1>2, <2>1
    <3> QED BY <1>2, <1>8, <3>1
  <2>2. CASE w > p + 1 + n
    <3>1. Len(tail) = 1 /\ w = at
      <4>1. Len(tail) \in {0, 1} /\ w \in Nat /\ w <= Len(words)
        BY <1>2, <1>3, <1>6, <1>7
      <4>2. w <= p + 1 + n + Len(tail) /\ w > p + 1 + n /\ p \in Nat /\ n \in Nat
        BY <1>2, <1>6, <1>7, <2>2, <4>1
      <4>3. Len(tail) # 0
        BY <4>1, <4>2
      <4>4. Len(tail) = 1
        BY <4>1, <4>3
      <4>5. w = p + 2 + n
        BY <4>1, <4>2, <4>4
      <4> QED BY <4>4, <4>5
    <3> QED BY <1>3, <1>9, <3>1
  <2> QED BY <1>11, <2>1, <2>2
<1>12. Len(words) >= p + 1 + n
  BY <1>2, <1>3, <1>6, <1>7
<1>13. Carries(words, p, body)
  BY <1>2, <1>5, <1>7, <1>10, <1>11, <1>12 DEF Carries, n
<1>14. ExtensionStart(q, words) = {p + 1}
  <2>1. (IF q # 0 THEN 2 + q + 1 ELSE Legacy + 1) = p + 1
    BY DEF p, Before, Legacy
  <2>2. words[p + 1].version = 2 /\ Len(words) >= 3 /\ p + 1 <= Len(words)
    BY <1>2, <1>6, <1>8, <1>12
  <2> QED BY <2>1, <2>2 DEF ExtensionStart
<1> QED BY <1>1, <1>13, <1>14 DEF p

-----------------------------------------------------------------------------
(* Everything is recovered.                                                *)
AllRecovered(words, objects) ==
  /\ \A o \in objects :
       LET k == words[o.at].is[1]
       IN  /\ o.at \in Meant(words, k, "header") /\ k # 0
           /\ o.what = "label" => o.from \subseteq Meant(words, k, "label")
           /\ o.what = "interface" =>
                /\ DOMAIN o.from = words[o.at].flags
                /\ \A f \in DOMAIN o.from : o.from[f] = Meant(words, k, f)
  /\ \A w \in DOMAIN words :
       /\ words[w].is[2] = "label" => \E o \in objects : o.what = "label" /\ o.from = {w}
       /\ words[w].is[1] # 0 /\ words[w].class \in {"interface", "other"} =>
            \E o \in objects : o.at = w

(* A block of a block is a block.                                          *)
LEMMA BlockOfBlock ==
  ASSUME NEW words, NEW d \in Nat, NEW body, Block(words, d + 1, body),
         NEW at \in Nat, NEW o, Len(o) \in Nat, Len(body) \in Nat, Block(body, at, o)
  PROVE  Block(words, d + at, o)
<1> SUFFICES ASSUME NEW i \in 1..Len(o)
             PROVE  ((d + at) - 1) + i \in 1..Len(words) /\ words[((d + at) - 1) + i] = o[i]
  BY DEF Block
<1>1. (at - 1) + i \in 1..Len(body) /\ body[(at - 1) + i] = o[i]
  BY DEF Block
<1> DEFINE j == (at - 1) + i
<1>2. ((d + 1) - 1) + j \in 1..Len(words) /\ words[((d + 1) - 1) + j] = body[j]
  BY <1>1 DEF Block
<1>3. ((d + 1) - 1) + j = ((d + at) - 1) + i
  OBVIOUS
<1> QED BY <1>1, <1>2, <1>3

(* The objects of a body stand in the packet one behind the other, and     *)
(* nothing else stands there.                                              *)
InObject(words, at, w) == w = at \/ w \in Payload(words, at)

Filled(words, m, place) ==
  /\ WrittenAt(words, m, place)
  /\ \A i \in 1..m : Sent(words, place[i], i)
  /\ \A w \in 1..Len(words) : \/ words[w].is[1] = 0 /\ words[w].is[2] # "label"
                              \/ \E i \in 1..m : InObject(words, place[i], w)

(* The objects of a body, found in the packet.                             *)
LEMMA BodyFills ==
  ASSUME NEW words, NEW p, NEW body, Carries(words, p, body), NEW m \in Nat, Placed(body, m)
  PROVE  \E place : Filled(words, m, place) /\ place[1] = p + 2
<1> DEFINE d == p + 1
           n == Len(body)
<1>1. /\ words \in Seq(Readings) /\ d \in Nat /\ Block(words, d + 1, body)
      /\ Len(words) \in Nat /\ Len(words) >= d + n /\ n \in Nat
      /\ \A w \in 1..Len(words) :
           w < d + 1 \/ w > d + n => words[w].is[1] = 0 /\ words[w].is[2] # "label"
      /\ d + 1 + n > Len(words) \/ ~WellFormed(words, d + 1 + n)
  <2>1. p \in Nat /\ body \in Seq(Readings) /\ words \in Seq(Readings)
    BY DEF Carries, Placed
  <2>2. Len(body) \in Nat /\ Len(words) \in Nat
    BY <2>1
  <2>3. p + 1 \in Nat /\ (p + 1) + 1 = p + 2
    BY <2>1
  <2> QED BY <2>1, <2>2, <2>3 DEF Carries
<1>2. PICK old : PlacedAs(body, m, old)
  BY DEF Placed
<1> HIDE DEF d, n
<1>3. /\ old \in [1..(m + 1) -> Nat] /\ old[1] = 1 /\ old[m + 1] = n + 1
      /\ \A i \in 1..m : \E o \in Objects(i) : /\ Block(body, old[i], o)
                                               /\ old[i + 1] = old[i] + Len(o)
      /\ \A w \in 1..n : \E i \in 1..m : w \in old[i]..(old[i + 1] - 1)
  BY <1>2 DEF PlacedAs, n
<1> DEFINE place == [i \in 1..(m + 1) |-> d + old[i]]
<1>4. \A i \in 1..(m + 1) : place[i] = d + old[i] /\ old[i] \in Nat /\ place[i] \in Nat
  <2>1. \A i \in 1..(m + 1) : old[i] \in Nat
    BY <1>3
  <2>2. \A i \in 1..(m + 1) : place[i] = d + old[i]
    OBVIOUS
  <2>3. \A x \in Nat : d + x \in Nat
    BY <1>1
  <2> QED BY <2>1, <2>2, <2>3
<1>5. 1 \in 1..(m + 1) /\ m + 1 \in 1..(m + 1)
      /\ \A i \in 1..m : i \in 1..(m + 1) /\ i + 1 \in 1..(m + 1) /\ i \in Nat
  OBVIOUS
<1> HIDE DEF place
<1>6. place[1] = d + 1 /\ place[m + 1] = d + 1 + n
  <2>1. place[1] = d + old[1] /\ place[m + 1] = d + old[m + 1]
    BY <1>4, <1>5
  <2>2. d + (n + 1) = d + 1 + n
    BY <1>1
  <2> QED BY <1>3, <2>1, <2>2
<1>7. ASSUME NEW i \in 1..m
      PROVE  /\ Sent(words, place[i], i)
             /\ place[i] + words[place[i]].length \div 4 = place[i + 1]
  <2>1. PICK o \in Objects(i) : Block(body, old[i], o) /\ old[i + 1] = old[i] + Len(o)
    BY <1>3
  <2>2. Fits(o, i)
    BY <1>5, <2>1, ObjectsFit
  <2>3. Block(words, d + old[i], o)
    <3>1. Len(o) \in Nat /\ old[i] \in Nat /\ Len(body) \in Nat
      BY <1>1, <1>4, <1>5, <2>2 DEF Fits, n
    <3> QED BY <1>1, <2>1, <3>1, BlockOfBlock
  <2>4. place[i] = d + old[i] /\ place[i] \in Nat /\ place[i + 1] = d + old[i + 1]
    BY <1>4, <1>5
  <2>5. Sent(words, place[i], i) /\ words[place[i]].length \div 4 = Len(o)
    BY <1>1, <2>2, <2>3, <2>4 DEF Fits
  <2>6. place[i + 1] = place[i] + Len(o)
    <3>1. Len(o) \in Nat /\ old[i] \in Nat
      BY <1>4, <1>5, <2>2 DEF Fits
    <3> QED BY <1>1, <2>1, <2>4, <3>1
  <2> QED BY <2>5, <2>6
<1>8. \A i \in 1..m : place[i] \in 1..Len(words) /\ WellFormed(words, place[i])
  BY <1>7 DEF Sent
<1>9. WrittenAt(words, m, place)
  <2>1. place[m + 1] \in 1..(Len(words) + 1)
    BY <1>1, <1>6
  <2>2. \A i \in 1..(m + 1) : i = m + 1 \/ i \in 1..m
    OBVIOUS
  <2>3. \A i \in 1..(m + 1) : place[i] \in 1..(Len(words) + 1)
    BY <1>1, <1>8, <2>1, <2>2
  <2>4. \A i \in 1..m : place[i] <= Len(words)
    BY <1>1, <1>8
  <2>5. place[m + 1] > Len(words) \/ ~WellFormed(words, place[m + 1])
    BY <1>1, <1>6
  <2> QED BY <1>7, <1>8, <2>3, <2>4, <2>5 DEF WrittenAt
<1>10. ASSUME NEW w \in 1..Len(words), ~(w < d + 1 \/ w > d + n)
       PROVE  \E i \in 1..m : InObject(words, place[i], w)
  <2>1. w - d \in 1..n
    BY <1>1, <1>10
  <2>2. PICK i \in 1..m : w - d \in old[i]..(old[i + 1] - 1)
    BY <1>3, <2>1
  <2>3. /\ place[i] = d + old[i] /\ place[i + 1] = d + old[i + 1]
        /\ old[i] \in Nat /\ old[i + 1] \in Nat
    BY <1>4, <1>5
  <2>4. place[i] + words[place[i]].length \div 4 = place[i + 1]
        /\ words[place[i]].length \div 4 \in Int
    <3>1. words[place[i]].length \in Nat
      BY <1>1, <1>8, WordsReadable DEF Readable
    <3> QED BY <1>7, <3>1
  <2>5. w = place[i] \/ w \in (place[i] + 1)..(place[i] - 1 + words[place[i]].length \div 4)
    <3> DEFINE a == old[i]
               b == old[i + 1]
               size == words[place[i]].length \div 4
    <3>1. /\ d \in Nat /\ a \in Nat /\ b \in Nat /\ size \in Int /\ w \in Nat
          /\ w - d \in a..(b - 1) /\ place[i] = d + a /\ (d + a) + size = d + b
      BY <1>1, <2>2, <2>3, <2>4
    <3> HIDE DEF a, b, size
    <3>2. w = d + a \/ w \in ((d + a) + 1)..((d + a) - 1 + size)
      BY <3>1
    <3> QED BY <3>1, <3>2 DEF size
  <2>6. InObject(words, place[i], w)
    BY <2>5 DEF InObject, Payload
  <2> QED BY <2>6
<1>11. Filled(words, m, place)
  <2>1. \A w \in 1..Len(words) : \/ words[w].is[1] = 0 /\ words[w].is[2] # "label"
                                 \/ \E i \in 1..m : InObject(words, place[i], w)
    BY <1>1, <1>10
  <2> QED BY <1>7, <1>9, <2>1 DEF Filled
<1>12. place[1] = p + 2
  <2>1. p \in Nat
    BY DEF Carries
  <2> QED BY <1>6, <2>1 DEF d
<1> QED BY <1>11, <1>12

(* A packet filled with objects is recovered from.                         *)
LEMMA FilledIsRecovered ==
  ASSUME NEW words \in Seq(Readings), NEW m \in Nat, NEW place, Filled(words, m, place)
  PROVE  AllRecovered(words, ObjectsFrom(words, place[1]))
<1> DEFINE objects == ObjectsFrom(words, place[1])
<1>1. Readable(words) /\ DOMAIN words = 1..Len(words)
  BY WordsReadable
<1>2. objects = UNION {Taken(words, place[i]) : i \in 1..m}
  BY <1>1, EveryObjectTaken DEF Filled
<1> HIDE DEF objects
<1>3. ASSUME NEW i \in 1..m, NEW w, InObject(words, place[i], w)
      PROVE  words[w].is[1] = i /\ (w # place[i] => words[w].class = "none")
  <2>1. Sent(words, place[i], i)
    BY DEF Filled
  <2> QED BY <1>3, <2>1 DEF Sent, InObject, Belongs
<1>4. ASSUME NEW i \in 1..m PROVE Recovered(words, place[i], i)
  <2>1. Sent(words, place[i], i) /\ i \in Nat /\ i # 0
    BY DEF Filled
  <2>2. \A w \in 1..Len(words) : words[w].is[1] = i =>
          w = place[i] \/ w \in Payload(words, place[i])
    <3> SUFFICES ASSUME NEW w \in 1..Len(words), words[w].is[1] = i
                 PROVE  InObject(words, place[i], w)
      BY DEF InObject
    <3>1. PICK j \in 1..m : InObject(words, place[j], w)
      BY <2>1 DEF Filled
    <3>2. j = i
      BY <1>3, <3>1
    <3> QED BY <3>1, <3>2
  <2> QED BY <2>1, <2>2, SentIsRecovered
<1>5. ASSUME NEW o \in objects
      PROVE  LET k == words[o.at].is[1]
             IN  /\ o.at \in Meant(words, k, "header") /\ k # 0
                 /\ o.what = "label" => o.from \subseteq Meant(words, k, "label")
                 /\ o.what = "interface" =>
                      /\ DOMAIN o.from = words[o.at].flags
                      /\ \A f \in DOMAIN o.from : o.from[f] = Meant(words, k, f)
  <2>1. PICK i \in 1..m : o \in Taken(words, place[i])
    BY <1>2
  <2>2. /\ o.at = place[i]
        /\ o.what = "label" => o.from \subseteq Meant(words, i, "label")
        /\ o.what = "interface" =>
             /\ DOMAIN o.from = words[place[i]].flags
             /\ \A f \in DOMAIN o.from : o.from[f] = Meant(words, i, f)
    BY <1>4, <2>1 DEF Recovered
  <2>3. /\ words[place[i]].is = <<i, "header">> /\ place[i] \in 1..Len(words)
    BY DEF Filled, Sent
  <2>4. words[place[i]].is[1] = i /\ i # 0
    BY <2>3
  <2>5. place[i] \in Meant(words, i, "header")
    BY <1>1, <2>3 DEF Meant
  <2> QED BY <2>2, <2>4, <2>5
<1>6. ASSUME NEW w \in 1..Len(words), words[w].is[2] = "label"
      PROVE  \E o \in objects : o.what = "label" /\ o.from = {w}
  <2>1. PICK i \in 1..m : InObject(words, place[i], w)
    BY <1>6 DEF Filled
  <2>2. words[place[i]].is = <<i, "header">>
    BY DEF Filled, Sent
  <2>3. w \in Payload(words, place[i])
    BY <1>6, <2>1, <2>2 DEF InObject
  <2>4. PICK o \in Taken(words, place[i]) : o.what = "label" /\ o.from = {w}
    BY <1>4, <1>6, <2>3 DEF Recovered
  <2> QED BY <1>2, <2>4
<1>7. ASSUME NEW w \in 1..Len(words), words[w].is[1] # 0,
             words[w].class \in {"interface", "other"}
      PROVE  \E o \in objects : o.at = w
  <2>1. PICK i \in 1..m : InObject(words, place[i], w)
    BY <1>7 DEF Filled
  <2>2. w = place[i]
    BY <1>3, <1>7, <2>1
  <2>3. PICK o \in Taken(words, place[i]) : o.at = w
    BY <1>4, <1>7, <2>2 DEF Recovered
  <2> QED BY <1>2, <2>3
<1> QED BY <1>1, <1>5, <1>6, <1>7 DEF AllRecovered, objects

-----------------------------------------------------------------------------
(* Products.                                                               *)

IsProduct(f, s, n) == f = [i \in 0..n |-> IF i = 0 THEN 1 ELSE f[i - 1] * s[i]]

(* A product as the value of a function chosen to satisfy its recursion.   *)
LEMMA ProductIsChosen ==
  ASSUME NEW s
  PROVE  Product(s) = (CHOOSE f : IsProduct(f, s, Len(s)))[Len(s)]
BY DEF Product, IsProduct

(* There is a function that satisfies it.                                  *)
LEMMA ProductExists ==
  ASSUME NEW s, NEW n \in Nat
  PROVE  \E f : IsProduct(f, s, n)
<1> DEFINE S == {i \in Nat : ~\E f : IsProduct(f, s, i)}
<1>1. SUFFICES ASSUME S # {} PROVE FALSE
  OBVIOUS
<1>2. PICK m \in S : \A i \in S : m <= i
  <2>1. S \in SUBSET Nat
    OBVIOUS
  <2> HIDE DEF S
  <2> QED BY <1>1, <2>1, LeastCase
<1>3. m \in Nat /\ ~\E f : IsProduct(f, s, m)
  OBVIOUS
<1>4. CASE m = 0
  <2> DEFINE f == [i \in 0..m |-> 1]
  <2>1. IsProduct(f, s, m)
    BY <1>4 DEF IsProduct
  <2> QED BY <1>3, <2>1
<1>5. CASE m # 0
  <2>1. m - 1 \in Nat /\ ~(m <= m - 1)
    BY <1>3, <1>5
  <2>2. PICK g : IsProduct(g, s, m - 1)
    BY <1>2, <2>1
  <2> DEFINE f == [i \in 0..m |-> IF i = m THEN g[m - 1] * s[m] ELSE g[i]]
  <2>3. ASSUME NEW i \in 0..m
        PROVE  f[i] = IF i = 0 THEN 1 ELSE f[i - 1] * s[i]
    <3>1. CASE i = m
      <4>1. f[i] = g[m - 1] * s[m] /\ i - 1 \in 0..m /\ i - 1 # m /\ i # 0
        BY <1>3, <1>5, <3>1
      <4>2. f[i - 1] = g[i - 1]
        BY <4>1
      <4> QED BY <3>1, <4>1, <4>2
    <3>2. CASE i # m
      <4>1. i \in 0..(m - 1) /\ f[i] = g[i]
        BY <1>3, <3>2
      <4>2. g[i] = IF i = 0 THEN 1 ELSE g[i - 1] * s[i]
        BY <2>2, <4>1 DEF IsProduct
      <4>3. i # 0 => i - 1 \in 0..m /\ i - 1 # m
        BY <1>3, <4>1
      <4>4. i # 0 => f[i - 1] = g[i - 1]
        BY <4>3
      <4> QED BY <4>1, <4>2, <4>4
    <3> QED BY <3>1, <3>2
  <2>4. f = [i \in 0..m |-> f[i]]
    OBVIOUS
  <2> HIDE DEF f
  <2>5. IsProduct(f, s, m)
    BY <2>3, <2>4 DEF IsProduct
  <2> QED BY <1>3, <2>5
<1> QED BY <1>4, <1>5

(* Products of sequences that agree up to k agree up to k.                 *)
LEMMA ProductUnique ==
  ASSUME NEW m \in Nat, NEW n \in Nat, NEW k \in Nat, k <= m, k <= n, NEW s, NEW t,
         \A i \in 1..k : s[i] = t[i],
         NEW f, IsProduct(f, s, m), NEW g, IsProduct(g, t, n)
  PROVE  f[k] = g[k]
<1> DEFINE S == {i \in 0..k : f[i] # g[i]}
<1>1. SUFFICES ASSUME S # {} PROVE FALSE
  OBVIOUS
<1>2. PICK j \in S : \A i \in S : j <= i
  <2>1. S \in SUBSET Nat
    OBVIOUS
  <2> HIDE DEF S
  <2> QED BY <1>1, <2>1, LeastCase
<1>3. j \in 0..k /\ j \in 0..m /\ j \in 0..n /\ f[j] # g[j]
  OBVIOUS
<1>4. /\ f[j] = IF j = 0 THEN 1 ELSE f[j - 1] * s[j]
      /\ g[j] = IF j = 0 THEN 1 ELSE g[j - 1] * t[j]
  BY <1>3 DEF IsProduct
<1>5. j # 0
  BY <1>3, <1>4
<1>6. j - 1 \in 0..k /\ ~(j <= j - 1) /\ j \in 1..k
  BY <1>3, <1>5
<1>7. f[j - 1] = g[j - 1] /\ s[j] = t[j]
  BY <1>2, <1>6
<1> QED BY <1>3, <1>4, <1>7

(* The product of nothing.                                                 *)
LEMMA ProductOfNone ==
  ASSUME NEW s, Len(s) = 0
  PROVE  Product(s) = 1
<1> DEFINE f == CHOOSE f : IsProduct(f, s, 0)
<1>1. IsProduct(f, s, 0)
  BY ProductExists
<1>2. Product(s) = f[0]
  BY ProductIsChosen
<1> HIDE DEF f
<1> QED BY <1>1, <1>2 DEF IsProduct

(* One factor more.                                                        *)
LEMMA ProductOfMore ==
  ASSUME NEW n \in Nat, NEW s, Len(s) = n + 1, NEW t, Len(t) = n,
         \A i \in 1..n : s[i] = t[i]
  PROVE  Product(s) = Product(t) * s[n + 1]
<1> DEFINE m == n + 1
<1>1. /\ m \in Nat /\ m \in 0..m /\ m # 0 /\ m - 1 = n /\ n <= m /\ n <= n
      /\ Len(s) = m
  OBVIOUS
<1>2. SUFFICES Product(s) = Product(t) * s[m]
  OBVIOUS
<1> HIDE DEF m
<1> DEFINE f == CHOOSE f : IsProduct(f, s, m)
           g == CHOOSE g : IsProduct(g, t, n)
<1>3. IsProduct(f, s, m) /\ IsProduct(g, t, n)
  <2>1. (\E x : IsProduct(x, s, m)) /\ (\E x : IsProduct(x, t, n))
    BY <1>1, ProductExists
  <2> QED BY <2>1
<1>4. Product(s) = f[m] /\ Product(t) = g[n]
  BY <1>1, ProductIsChosen
<1> HIDE DEF f, g
<1>5. f[m] = f[n] * s[m]
  BY <1>1, <1>3 DEF IsProduct
<1>6. f[n] = g[n]
  BY <1>1, <1>3, ProductUnique
<1> QED BY <1>4, <1>5, <1>6

(* The recursion of powers.                                                *)
LEMMA PowerGrows ==
  ASSUME NEW b \in Nat
  PROVE  /\ Power(b, 0) = 1
         /\ \A n \in Nat : Power(b, n + 1) = Power(b, n) * b
<1>1. ASSUME NEW n \in Nat PROVE Len([i \in 1..n |-> b]) = n
  <2>1. [i \in 1..n |-> b] \in [1..n -> Nat]
    OBVIOUS
  <2> QED BY <2>1
<1>2. Power(b, 0) = 1
  BY <1>1, ProductOfNone DEF Power
<1>3. ASSUME NEW n \in Nat PROVE Power(b, n + 1) = Power(b, n) * b
  <2> DEFINE s == [i \in 1..(n + 1) |-> b]
             t == [i \in 1..n |-> b]
  <2>1. Len(s) = n + 1 /\ Len(t) = n /\ s[n + 1] = b /\ \A i \in 1..n : s[i] = t[i]
    BY <1>1
  <2>2. Power(b, n + 1) = Product(s) /\ Power(b, n) = Product(t)
    BY DEF Power
  <2> HIDE DEF s, t
  <2> QED BY <2>1, <2>2, ProductOfMore
<1> QED BY <1>2, <1>3

(* The recursion of draws: after n draws n flows are gone.                 *)
LEMMA DrawsGrow ==
  ASSUME NEW others \in Int
  PROVE  /\ Draws(others, 0) = 1
         /\ \A n \in Nat : Draws(others, n + 1) = Draws(others, n) * (others - n)
<1>1. ASSUME NEW n \in Nat PROVE Len([i \in 1..n |-> others - i + 1]) = n
  <2>1. [i \in 1..n |-> others - i + 1] \in [1..n -> Int]
    OBVIOUS
  <2> QED BY <2>1
<1>2. Draws(others, 0) = 1
  BY <1>1, ProductOfNone DEF Draws
<1>3. ASSUME NEW n \in Nat PROVE Draws(others, n + 1) = Draws(others, n) * (others - n)
  <2> DEFINE s == [i \in 1..(n + 1) |-> others - i + 1]
             t == [i \in 1..n |-> others - i + 1]
  <2>1. Len(s) = n + 1 /\ Len(t) = n /\ s[n + 1] = others - n /\ \A i \in 1..n : s[i] = t[i]
    BY <1>1
  <2>2. Draws(others, n + 1) = Product(s) /\ Draws(others, n) = Product(t)
    BY DEF Draws
  <2> HIDE DEF s, t
  <2> QED BY <2>1, <2>2, ProductOfMore
<1> QED BY <1>2, <1>3

(* Powers of a positive number are positive.                               *)
LEMMA PowerType ==
  ASSUME NEW b \in Nat, b > 0
  PROVE  \A n \in Nat : Power(b, n) \in Nat /\ Power(b, n) > 0
<1> DEFINE S == {i \in Nat : ~(Power(b, i) \in Nat /\ Power(b, i) > 0)}
<1>1. SUFFICES ASSUME S # {} PROVE FALSE
  OBVIOUS
<1>2. PICK m \in S : \A i \in S : m <= i
  <2>1. S \in SUBSET Nat
    OBVIOUS
  <2> HIDE DEF S
  <2> QED BY <1>1, <2>1, LeastCase
<1>3. m \in Nat /\ ~(Power(b, m) \in Nat /\ Power(b, m) > 0)
  OBVIOUS
<1>4. m # 0
  BY <1>3, PowerGrows
<1>5. m - 1 \in Nat /\ ~(m <= m - 1) /\ (m - 1) + 1 = m
  BY <1>3, <1>4
<1>6. Power(b, m - 1) \in Nat /\ Power(b, m - 1) > 0
  BY <1>2, <1>5
<1>7. Power(b, m) = Power(b, m - 1) * b
  BY <1>5, PowerGrows
<1> QED BY <1>3, <1>6, <1>7

-----------------------------------------------------------------------------
(* The detection bound.                                                    *)

(* Products of larger numbers are larger.                                  *)
LEMMA FactorsOrdered ==
  ASSUME NEW a \in Nat, NEW b \in Nat, NEW c \in Nat, NEW d \in Nat, a <= b, c <= d
  PROVE  a * c <= b * d
<1>1. a * c <= b * c
  <2>1. (b - a) * c >= 0
    OBVIOUS
  <2> QED BY <2>1
<1>2. b * c <= b * d
  <2>1. b * (d - c) >= 0
    OBVIOUS
  <2> QED BY <2>1
<1> QED BY <1>1, <1>2

(* A fraction is more than none of the flows and less than all of them.    *)
LEMMA FractionType ==
  ASSUME NEW p \in Probabilities
  PROVE  /\ Denominator \in Nat /\ Denominator > 0 /\ p \in Nat /\ p > 0
         /\ Denominator - p \in Nat /\ Denominator - p > 0
         /\ Denominator - p < Denominator
<1>1. Denominator \in Nat /\ p \in 1..(Denominator - 1)
  BY CoverageAssumption
<1> QED BY <1>1

(* The two sides of the bound.                                             *)
LEMMA SidesType ==
  ASSUME NEW p \in Probabilities, NEW delta \in Probabilities, NEW n \in Nat
  PROVE  /\ Missed(p, n) \in Nat /\ Allowed(n, delta) \in Nat /\ Allowed(n, delta) > 0
         /\ Missed(p, n + 1) = Missed(p, n) * (Denominator - p)
         /\ Allowed(n + 1, delta) = Allowed(n, delta) * Denominator
<1> DEFINE D == Denominator
           q == D - p
           x == Power(q, n)
           y == Power(D, n)
<1>1. D \in Nat /\ D > 0 /\ q \in Nat /\ q > 0 /\ delta \in Nat /\ delta > 0
  BY FractionType
<1>2. x \in Nat /\ y \in Nat /\ y > 0
  BY <1>1, PowerType
<1>3. Power(q, n + 1) = x * q /\ Power(D, n + 1) = y * D
  BY <1>1, PowerGrows
<1>4. /\ Missed(p, n) = x * D /\ Missed(p, n + 1) = (x * q) * D
      /\ Allowed(n, delta) = delta * y /\ Allowed(n + 1, delta) = delta * (y * D)
  BY <1>3 DEF Missed, Allowed
<1> HIDE DEF D, x, y
<1>5. x * D \in Nat /\ delta * y \in Nat /\ delta * y > 0
  BY <1>1, <1>2
<1> HIDE DEF q
<1>6. (x * q) * D = (x * D) * q /\ delta * (y * D) = (delta * y) * D
  BY <1>1, <1>2
<1> QED BY <1>4, <1>5, <1>6 DEF q, D

(* Another sample keeps the bound, and leaves it no tie.                   *)
LEMMA BoundKept ==
  ASSUME NEW p \in Probabilities, NEW delta \in Probabilities, NEW n \in Nat,
         BoundMet(p, n, delta)
  PROVE  BoundMet(p, n + 1, delta) /\ ~Tie(p, n + 1, delta)
<1> DEFINE D == Denominator
           q == D - p
           a == Missed(p, n)
           b == Allowed(n, delta)
<1>1. D \in Nat /\ q \in Nat /\ q < D
  BY FractionType
<1>2. a \in Nat /\ b \in Nat /\ b > 0 /\ a <= b
  BY SidesType DEF BoundMet
<1>3. Missed(p, n + 1) = a * q /\ Allowed(n + 1, delta) = b * D
  BY SidesType
<1> HIDE DEF D, q, a, b
<1>4. a * q <= b * q
  BY <1>1, <1>2, FactorsOrdered
<1>5. b * q < b * D
  <2>1. b * (D - q) > 0
    BY <1>1, <1>2
  <2> QED BY <1>1, <1>2, <2>1
<1>6. a * q \in Nat /\ b * q \in Nat /\ b * D \in Nat
  BY <1>1, <1>2
<1>7. a * q < b * D
  BY <1>4, <1>5, <1>6
<1> QED BY <1>3, <1>6, <1>7 DEF BoundMet, Tie

(* A bound that is met stays met as samples are added, without a tie.      *)
LEMMA BoundStays ==
  ASSUME NEW p \in Probabilities, NEW delta \in Probabilities, NEW n \in Nat,
         BoundMet(p, n, delta)
  PROVE  \A k \in Nat : k >= n => BoundMet(p, k, delta) /\ (k > n => ~Tie(p, k, delta))
<1> DEFINE S == {k \in Nat : k >= n /\ ~BoundMet(p, k, delta)}
<1>1. ASSUME NEW k \in Nat, k >= n PROVE BoundMet(p, k, delta)
  <2>1. SUFFICES ASSUME S # {} PROVE FALSE
    BY <1>1
  <2>2. PICK m \in S : \A i \in S : m <= i
    <3>1. S \in SUBSET Nat
      OBVIOUS
    <3> HIDE DEF S
    <3> QED BY <2>1, <3>1, LeastCase
  <2>3. m \in Nat /\ m >= n /\ ~BoundMet(p, m, delta)
    OBVIOUS
  <2>4. m # n
    BY <2>3
  <2>5. m - 1 \in Nat /\ m - 1 >= n /\ ~(m <= m - 1) /\ (m - 1) + 1 = m
    BY <2>3, <2>4
  <2>6. BoundMet(p, m - 1, delta)
    BY <2>2, <2>5
  <2> QED BY <2>3, <2>5, <2>6, BoundKept
<1>2. ASSUME NEW k \in Nat, k > n PROVE ~Tie(p, k, delta)
  <2>1. k - 1 \in Nat /\ k - 1 >= n /\ (k - 1) + 1 = k
    BY <1>2
  <2>2. BoundMet(p, k - 1, delta)
    BY <1>1, <2>1
  <2> QED BY <2>1, <2>2, BoundKept
<1> QED BY <1>1, <1>2

(* The least number of samples that meets the bound; no other has a tie.   *)
LEMMA LeastExists ==
  ASSUME NEW p \in Probabilities, NEW delta \in Probabilities
  PROVE  \E m \in 1..SampleBound : \A k \in Nat :
           (BoundMet(p, k, delta) <=> k >= m) /\ (Tie(p, k, delta) => k = m)
<1> DEFINE S == {k \in Nat : BoundMet(p, k, delta)}
<1>1. SampleBound \in S
  BY CoverageAssumption
<1>2. PICK m \in S : \A i \in S : m <= i
  <2>1. S \in SUBSET Nat
    OBVIOUS
  <2> HIDE DEF S
  <2> QED BY <1>1, <2>1, LeastCase
<1>3. m \in Nat /\ BoundMet(p, m, delta) /\ m <= SampleBound
  BY <1>1, <1>2
<1>4. ~BoundMet(p, 0, delta)
  <2>1. /\ Denominator \in Nat /\ Denominator - p \in Nat
        /\ delta \in Nat /\ delta < Denominator
    BY FractionType
  <2>2. Power(Denominator - p, 0) = 1 /\ Power(Denominator, 0) = 1
    BY <2>1, PowerGrows
  <2> QED BY <2>1, <2>2 DEF BoundMet, Missed, Allowed
<1>5. m \in 1..SampleBound
  BY <1>3, <1>4, CoverageAssumption
<1>6. ASSUME NEW k \in Nat PROVE BoundMet(p, k, delta) <=> k >= m
  <2>1. k >= m => BoundMet(p, k, delta)
    BY <1>3, BoundStays
  <2>2. BoundMet(p, k, delta) => k >= m
    BY <1>2, <1>3
  <2> QED BY <2>1, <2>2
<1>7. ASSUME NEW k \in Nat, Tie(p, k, delta) PROVE k = m
  <2>1. BoundMet(p, k, delta)
    BY <1>7, SidesType DEF BoundMet, Tie
  <2>2. k >= m /\ ~(k > m)
    BY <1>3, <1>6, <1>7, <2>1, BoundStays
  <2> QED BY <1>3, <2>2
<1> QED BY <1>5, <1>6, <1>7

(* The larger of one and a number.                                         *)
LEMMA FloorOfOne ==
  ASSUME NEW n \in Nat, n > 0
  PROVE  Max({1, n}) = n
<1>1. \E x \in {1, n} : \A y \in {1, n} : x >= y
  OBVIOUS
<1>2. Max({1, n}) \in {1, n} /\ \A y \in {1, n} : Max({1, n}) >= y
  BY <1>1 DEF Max
<1> QED BY <1>2

(* The quotient of the logarithms: how often the factor goes.              *)
LEMMA QuotientIs ==
  ASSUME NEW p \in Probabilities, NEW delta \in Probabilities, NEW m \in 1..SampleBound,
         \A k \in Nat : (BoundMet(p, k, delta) <=> k >= m) /\ (Tie(p, k, delta) => k = m)
  PROVE  Quotient(p, delta) = IF Tie(p, m, delta) THEN 2 * m ELSE 2 * m - 1
<1> DEFINE S == {n \in 0..SampleBound : Missed(p, n) >= Allowed(n, delta)}
           w == IF Tie(p, m, delta) THEN m ELSE m - 1
<1>1. SampleBound \in Nat /\ m \in Nat /\ w \in 0..SampleBound
  BY CoverageAssumption
<1>2. ASSUME NEW n \in 0..SampleBound
      PROVE  Missed(p, n) >= Allowed(n, delta) <=> n <= w
  <2>1. n \in Nat
    OBVIOUS
  <2>2. Missed(p, n) >= Allowed(n, delta)
          <=> ~BoundMet(p, n, delta) \/ Tie(p, n, delta)
    <3>1. Missed(p, n) \in Nat /\ Allowed(n, delta) \in Nat
      BY <2>1, SidesType
    <3>2. BoundMet(p, n, delta) <=> Missed(p, n) <= Allowed(n, delta)
      BY DEF BoundMet
    <3>3. Tie(p, n, delta) <=> Missed(p, n) = Allowed(n, delta)
      BY DEF Tie
    <3> QED BY <3>1, <3>2, <3>3
  <2>3. (BoundMet(p, n, delta) <=> n >= m) /\ (Tie(p, n, delta) => n = m)
    <3>1. BoundMet(p, n, delta) <=> n >= m
      BY <2>1
    <3>2. Tie(p, n, delta) => n = m
      BY <2>1
    <3> QED BY <3>1, <3>2
  <2>4. CASE Tie(p, m, delta)
    <3>1. Tie(p, n, delta) <=> n = m
      BY <2>3, <2>4
    <3> QED BY <1>1, <2>1, <2>2, <2>3, <2>4, <3>1
  <2>5. CASE ~Tie(p, m, delta)
    <3>1. ~Tie(p, n, delta)
      BY <2>3, <2>5
    <3> QED BY <1>1, <2>1, <2>2, <2>3, <2>5, <3>1
  <2> QED BY <2>4, <2>5
<1>3. w \in S /\ \A n \in S : n <= w
  BY <1>1, <1>2
<1>4. Max(S) = w
  <2>1. \A n \in S : n \in Int
    OBVIOUS
  <2> HIDE DEF S, w
  <2>2. Max(S) \in S /\ \A y \in S : Max(S) >= y
    <3>1. \E x \in S : \A y \in S : x >= y
      BY <1>3, <2>1
    <3> QED BY <3>1 DEF Max
  <2> QED BY <1>3, <2>1, <2>2
<1>5. Quotient(p, delta) = IF Tie(p, w, delta) THEN 2 * w ELSE 2 * w + 1
  BY <1>4 DEF Quotient
<1>6. CASE Tie(p, m, delta)
  BY <1>5, <1>6
<1>7. CASE ~Tie(p, m, delta)
  <2>1. ~Tie(p, m - 1, delta)
    BY <1>1, <1>7
  <2> QED BY <1>1, <1>5, <1>7, <2>1
<1> QED BY <1>6, <1>7

(* The number required is the least that meets the bound or, where that    *)
(* one is a tie, may be one more.                                          *)
LEMMA RequiredNearLeast ==
  ASSUME NEW p \in Probabilities, NEW delta \in Probabilities
  PROVE  \E m \in 1..SampleBound :
           /\ \A k \in Nat : (BoundMet(p, k, delta) <=> k >= m) /\ (Tie(p, k, delta) => k = m)
           /\ \A r \in RequiredSamples(p, delta) : r \in {m, m + 1}
<1>1. PICK m \in 1..SampleBound :
        \A k \in Nat : (BoundMet(p, k, delta) <=> k >= m) /\ (Tie(p, k, delta) => k = m)
  BY LeastExists
<1>2. m \in Nat /\ m > 0
  BY CoverageAssumption
<1>3. Quotient(p, delta) = 2 * m \/ Quotient(p, delta) = 2 * m - 1
  BY <1>1, QuotientIs
<1>4. ASSUME NEW c \in Computed(Quotient(p, delta)) PROVE c \in (2 * m - 1)..(2 * m + 1)
  <2>1. (2 * m) % 2 = 0 /\ (2 * m - 1) % 2 # 0
    BY <1>2
  <2> QED BY <1>2, <1>3, <2>1 DEF Computed
<1>5. ASSUME NEW r \in RequiredSamples(p, delta) PROVE r \in {m, m + 1}
  <2>1. PICK c \in Computed(Quotient(p, delta)) : r = Max({1, Ceiling(c)})
    BY DEF RequiredSamples
  <2>2. Ceiling(c) \in {m, m + 1}
    <3>1. c = 2 * m - 1 \/ c = 2 * m \/ c = 2 * m + 1
      BY <1>2, <1>4
    <3>2. (2 * m - 1 + 1) \div 2 = m /\ (2 * m + 1) \div 2 = m
          /\ (2 * m + 1 + 1) \div 2 = m + 1
      BY <1>2
    <3> QED BY <3>1, <3>2 DEF Ceiling
  <2>3. Max({1, Ceiling(c)}) = Ceiling(c)
    BY <1>2, <2>2, FloorOfOne
  <2> QED BY <2>1, <2>2, <2>3
<1> QED BY <1>1, <1>5

(* What is left after drawing: a natural number, none beyond the pool.     *)
LEMMA DrawsType ==
  ASSUME NEW m \in Nat
  PROVE  \A n \in Nat : Draws(m, n) \in Nat /\ (n > m => Draws(m, n) = 0)
<1> DEFINE S == {i \in Nat : ~(Draws(m, i) \in Nat /\ (i > m => Draws(m, i) = 0))}
<1>1. SUFFICES ASSUME S # {} PROVE FALSE
  OBVIOUS
<1>2. PICK n \in S : \A i \in S : n <= i
  <2>1. S \in SUBSET Nat
    OBVIOUS
  <2> HIDE DEF S
  <2> QED BY <1>1, <2>1, LeastCase
<1>3. n \in Nat /\ ~(Draws(m, n) \in Nat /\ (n > m => Draws(m, n) = 0))
  OBVIOUS
<1>4. n # 0
  BY <1>3, DrawsGrow
<1>5. n - 1 \in Nat /\ ~(n <= n - 1) /\ (n - 1) + 1 = n
  BY <1>3, <1>4
<1>6. Draws(m, n - 1) \in Nat /\ (n - 1 > m => Draws(m, n - 1) = 0)
  BY <1>2, <1>5
<1>7. Draws(m, n) = Draws(m, n - 1) * (m - (n - 1))
  BY <1>5, DrawsGrow
<1>8. CASE n - 1 < m
  <2>1. m - (n - 1) \in Nat
    BY <1>5, <1>8
  <2>2. Draws(m, n) \in Nat
    BY <1>6, <1>7, <2>1
  <2> QED BY <1>3, <1>8, <2>2
<1>9. CASE n - 1 = m
  <2>1. m - (n - 1) = 0
    BY <1>5, <1>9
  <2>2. Draws(m, n) = 0
    BY <1>6, <1>7, <2>1
  <2> QED BY <1>3, <2>2
<1>10. CASE n - 1 > m
  <2>1. Draws(m, n) = 0
    BY <1>5, <1>6, <1>7, <1>10
  <2> QED BY <1>3, <2>1
<1> QED BY <1>5, <1>8, <1>9, <1>10

(* Without replacement, each draw that misses makes the next miss less     *)
(* likely: the share of draws that miss `hit` of `others` flows is at most *)
(* the power that stands for independent draws.                            *)
LEMMA MissesBounded ==
  ASSUME NEW p \in Probabilities, NEW others \in Nat, NEW hit \in 0..others,
         hit * Denominator >= p * (others + 1)
  PROVE  \A n \in 0..others :
           Draws(others - hit, n) * Power(Denominator, n)
             <= Power(Denominator - p, n) * Draws(others, n)
<1> DEFINE D == Denominator
           q == D - p
           left == others - hit
           Holds(n) == Draws(left, n) * Power(D, n) <= Power(q, n) * Draws(others, n)
           S == {n \in 0..others : ~Holds(n)}
<1>1. SUFFICES ASSUME S # {} PROVE FALSE
  OBVIOUS
<1>2. PICK m \in S : \A i \in S : m <= i
  <2>1. S \in SUBSET Nat
    OBVIOUS
  <2> HIDE DEF S
  <2> QED BY <1>1, <2>1, LeastCase
<1>3. m \in 0..others /\ ~Holds(m)
  OBVIOUS
<1>4. /\ D \in Nat /\ D > 0 /\ q \in Nat /\ q > 0 /\ p \in Nat /\ p <= D /\ q = D - p
      /\ left \in Nat /\ hit \in Nat /\ left = others - hit
  BY FractionType
<1>5. m # 0
  <2>1. CASE m = 0
    <3>1. /\ Draws(left, 0) = 1 /\ Draws(others, 0) = 1
          /\ Power(D, 0) = 1 /\ Power(q, 0) = 1
      BY <1>4, PowerGrows, DrawsGrow
    <3>2. Holds(0)
      BY <3>1
    <3> QED BY <1>3, <2>1, <3>2
  <2> QED BY <2>1
<1> DEFINE i == m - 1
<1>6. i \in Nat /\ i \in 0..others /\ i < others /\ ~(m <= i) /\ i + 1 = m
  BY <1>3, <1>5
<1>7. Holds(i)
  BY <1>2, <1>6
<1> DEFINE a == Draws(left, i)
           b == Draws(others, i)
           x == Power(q, i)
           y == Power(D, i)
<1>8. a \in Nat /\ b \in Nat /\ x \in Nat /\ y \in Nat /\ (i > left => a = 0)
  BY <1>4, <1>6, DrawsType, PowerType
<1>9. /\ Draws(left, m) = a * (left - i) /\ Draws(others, m) = b * (others - i)
      /\ Power(D, m) = y * D /\ Power(q, m) = x * q
  BY <1>4, <1>6, DrawsGrow, PowerGrows
<1>10. a * y <= x * b
  BY <1>7
<1>11. hit * D >= p * (others + 1)
  OBVIOUS
<1>12. ~((a * (left - i)) * (y * D) <= (x * q) * (b * (others - i)))
  BY <1>3, <1>9
<1> HIDE DEF a, b, x, y, i, D, q, left, Holds, S
<1>13. a * y \in Nat /\ x * b \in Nat /\ others - i \in Nat
  BY <1>6, <1>8
<1>14. q * (others - i) \in Nat /\ (x * b) * (q * (others - i)) \in Nat
  BY <1>4, <1>13
<1>15. (x * q) * (b * (others - i)) = (x * b) * (q * (others - i))
  BY <1>4, <1>8, <1>13
<1>16. CASE i > left
  <2>1. (a * (left - i)) * (y * D) = 0
    BY <1>4, <1>6, <1>8, <1>16
  <2> QED BY <1>12, <1>14, <1>15, <2>1
<1>17. CASE i <= left
  <2>1. (left - i) * D <= q * (others - i)
    <3>1. p * (others - i) <= p * (others + 1)
      <4>1. p * (i + 1) >= 0
        BY <1>4, <1>6
      <4>2. p * (others + 1) = p * (others - i) + p * (i + 1)
        BY <1>4, <1>6
      <4>3. p * (others - i) \in Int /\ p * (i + 1) \in Int
        BY <1>4, <1>6
      <4> QED BY <4>1, <4>2, <4>3
    <3>2. (left - i) * D = (others - i) * D - hit * D
      BY <1>4, <1>6
    <3>3. q * (others - i) = (others - i) * D - p * (others - i)
      BY <1>4, <1>6
    <3>4. /\ (others - i) * D \in Int /\ hit * D \in Int
          /\ p * (others - i) \in Int /\ p * (others + 1) \in Int
      BY <1>4, <1>6
    <3> QED BY <1>11, <3>1, <3>2, <3>3, <3>4
  <2>2. (left - i) * D \in Nat
    BY <1>4, <1>6, <1>17
  <2>3. (a * y) * ((left - i) * D) <= (x * b) * (q * (others - i))
    BY <1>10, <1>13, <1>14, <2>1, <2>2, FactorsOrdered
  <2>4. (a * (left - i)) * (y * D) = (a * y) * ((left - i) * D)
    BY <1>4, <1>6, <1>8
  <2> QED BY <1>12, <1>15, <2>3, <2>4
<1> QED BY <1>4, <1>6, <1>16, <1>17

(* A bound met by independent draws is met by draws without replacement.   *)
LEMMA MissesRare ==
  ASSUME NEW p \in Probabilities, NEW delta \in Probabilities,
         NEW others \in Nat, NEW hit \in 0..others, NEW n \in 0..others,
         hit * Denominator >= p * (others + 1), BoundMet(p, n, delta)
  PROVE  MissingDraws(others, hit, n) * Denominator <= delta * Draws(others, n)
<1> DEFINE D == Denominator
           a == Draws(others - hit, n)
           b == Draws(others, n)
           x == Power(D - p, n)
           y == Power(D, n)
<1>1. /\ D \in Nat /\ D > 0 /\ D - p \in Nat /\ D - p > 0 /\ delta \in Nat
      /\ others - hit \in Nat /\ n \in Nat
  BY FractionType
<1>2. a \in Nat /\ b \in Nat /\ x \in Nat /\ y \in Nat /\ y > 0
  BY <1>1, DrawsType, PowerType
<1>3. a * y <= x * b
  BY MissesBounded
<1>4. x * D <= delta * y
  BY DEF BoundMet, Missed, Allowed
<1>5. MissingDraws(others, hit, n) = a
  BY DEF MissingDraws
<1> HIDE DEF D, a, b, x, y
<1>6. (a * y) * D <= (x * b) * D
  <2>1. a * y \in Nat /\ x * b \in Nat /\ D <= D
    BY <1>1, <1>2
  <2> QED BY <1>1, <1>3, <2>1, FactorsOrdered
<1>7. (x * D) * b <= (delta * y) * b
  <2>1. x * D \in Nat /\ delta * y \in Nat /\ b <= b
    BY <1>1, <1>2
  <2> QED BY <1>2, <1>4, <2>1, FactorsOrdered
<1>8. (a * D) * y <= (delta * b) * y
  <2>1. /\ (a * y) * D = (a * D) * y /\ (x * b) * D = (x * D) * b
        /\ (delta * y) * b = (delta * b) * y
    BY <1>1, <1>2
  <2>2. /\ (a * D) * y \in Int /\ (x * D) * b \in Int /\ (delta * b) * y \in Int
    BY <1>1, <1>2
  <2> QED BY <1>6, <1>7, <2>1, <2>2
<1>9. a * D <= delta * b
  <2> SUFFICES ASSUME ~(a * D <= delta * b) PROVE FALSE
    OBVIOUS
  <2>1. a * D \in Nat /\ delta * b \in Nat
    BY <1>1, <1>2
  <2>2. a * D - delta * b >= 1
    BY <2>1
  <2>3. (a * D - delta * b) * y >= y
    <3> DEFINE e == a * D - delta * b
    <3>1. e \in Nat /\ 1 <= e
      BY <2>1, <2>2
    <3> HIDE DEF e
    <3>2. 1 * y <= e * y
      <4>1. y <= y /\ 1 \in Nat
        BY <1>2
      <4> QED BY <1>2, <3>1, <4>1, FactorsOrdered
    <3> QED BY <1>2, <3>2 DEF e
  <2>4. (a * D - delta * b) * y = (a * D) * y - (delta * b) * y
    BY <1>2, <2>1
  <2>5. (a * D) * y \in Int /\ (delta * b) * y \in Int
    BY <1>2, <2>1
  <2> QED BY <1>2, <1>8, <2>3, <2>4, <2>5
<1> QED BY <1>5, <1>9 DEF D, b

-----------------------------------------------------------------------------
(* The questions.                                                          *)

Asked == question \in ErrorQuestions \cup NoiseQuestions \cup EchoQuestions \cup HeaderQuestions
                        \cup BoundQuestions \cup PoolQuestions

(* A question about a header.                                              *)
LEMMA HeaderQuestionIs ==
  ASSUME NEW q \in HeaderQuestions
  PROVE  /\ q.kind = "header"
         /\ \E size \in Sizes, id \in Ids, ttl \in Ttls :
              q.bytes = ((<<4, 5>> \o Bytes(size)) \o Bytes(id)) \o <<ttl, 1, 0, 0>>
<1> DEFINE header(size, id, ttl) ==
             ((<<4, 5>> \o Bytes(size)) \o Bytes(id)) \o <<ttl, 1, 0, 0>>
<1>1. HeaderQuestions = {[kind |-> "header", bytes |-> header(size, id, ttl)] :
                           size \in Sizes, id \in Ids, ttl \in Ttls}
  BY DEF HeaderQuestions
<1> HIDE DEF header
<1>2. \E size \in Sizes, id \in Ids, ttl \in Ttls :
        q = [kind |-> "header", bytes |-> header(size, id, ttl)]
  BY <1>1
<1>3. q.kind = "header" /\ \E size \in Sizes, id \in Ids, ttl \in Ttls :
                             q.bytes = header(size, id, ttl)
  BY <1>2
<1> QED BY <1>3 DEF header

(* The kind of a question tells its set.                                   *)
LEMMA KindsApart ==
  ASSUME Asked
  PROVE  /\ question.kind = "error" => question \in ErrorQuestions
         /\ question.kind = "echo" => question \in EchoQuestions
         /\ question.kind = "header" => question \in HeaderQuestions
         /\ question.kind = "noise" => question \in NoiseQuestions
         /\ question.kind = "bound" => question \in BoundQuestions
         /\ question.kind = "pool" => question \in PoolQuestions
<1>1. \A q \in ErrorQuestions : q.kind = "error"
  BY DEF ErrorQuestions, Error
<1>2. \A q \in NoiseQuestions : q.kind = "noise"
  BY DEF NoiseQuestions
<1>3. \A q \in EchoQuestions : q.kind = "echo"
  BY DEF EchoQuestions
<1>4. \A q \in HeaderQuestions : q.kind = "header"
  BY HeaderQuestionIs
<1>5. \A q \in BoundQuestions : q.kind = "bound"
  BY DEF BoundQuestions
<1>6. \A q \in PoolQuestions : q.kind = "pool"
  BY DEF PoolQuestions
<1> QED BY <1>1, <1>2, <1>3, <1>4, <1>5, <1>6 DEF Asked

(* What InputAssumption says of each input.                                *)
LEMMA InputsFit ==
  /\ \A x \in Identifiers : x \in 0..Full
  /\ \A x \in Sessions : x \in 0..Full
  /\ \A x \in Ids : x \in 0..Full
  /\ \A x \in Sizes : x \in 0..Full
  /\ \A x \in Ttls : x \in 0..(Base - 1)
BY InputAssumption

(* An echo question.                                                       *)
LEMMA EchoFollows ==
  ASSUME Asked PROVE EchoHeadersStable
<1> SUFFICES ASSUME question.kind = "echo", question.size % 2 = 0
             PROVE  \E packet \in EchoProbe(question.identifier, question.session, question.id,
                                            question.ttl, question.size) :
                      /\ SubSeq(packet, 1, 8) = EchoHeader(Stable, question.identifier)
                      /\ InternetChecksum(packet) = 0
  BY DEF EchoHeadersStable
<1>1. question \in EchoQuestions
  BY KindsApart
<1>2. /\ question.identifier \in Identifiers /\ question.session \in Sessions
      /\ question.id \in Ids /\ question.ttl \in Ttls /\ question.size \in Sizes
  BY <1>1 DEF EchoQuestions
<1>3. /\ question.identifier \in 0..Full /\ question.session \in 0..Full
      /\ question.id \in 0..Full /\ question.ttl \in 0..(Base - 1) /\ question.size \in Nat
  <2>1. \A x \in 0..Full : x \in Nat
    BY FullType
  <2> QED BY <1>2, <2>1, InputsFit
<1> QED BY <1>3, EchoProbeStable

(* A question about a header.                                              *)
LEMMA HeaderFollows ==
  ASSUME Asked PROVE HeadersAccepted
<1> SUFFICES ASSUME question.kind = "header"
             PROVE  OnesComplementSum(Sealed(question.bytes, 9)) = Full
  BY DEF HeadersAccepted
<1>1. question \in HeaderQuestions
  BY KindsApart
<1>2. PICK size \in Sizes, id \in Ids, ttl \in Ttls :
        question.bytes = ((<<4, 5>> \o Bytes(size)) \o Bytes(id)) \o <<ttl, 1, 0, 0>>
  BY <1>1, HeaderQuestionIs
<1>3. size \in 0..Full /\ id \in 0..Full /\ ttl \in Nat
  <2>1. size \in 0..Full /\ id \in 0..Full /\ ttl \in 0..(Base - 1)
    BY InputsFit
  <2> QED BY <2>1, ChecksumAssumption
<1> DEFINE first == <<4, 5>>
           s == Bytes(size)
           i == Bytes(id)
           last == <<ttl, 1, 0, 0>>
           one == first \o s
           two == one \o i
           header == two \o last
<1>4. Data(first, 2) /\ Data(last, 4) /\ last[3] = 0 /\ last[4] = 0
  BY <1>3 DEF Data
<1>5. Data(s, 2) /\ Data(i, 2)
  BY <1>3, BytesOfWord
<1> HIDE DEF first, s, i, last
<1>6. Data(one, 4)
  <2>1. Joins(one, first, s, 2, 2)
    BY <1>4, <1>5, Joined
  <2> HIDE DEF one
  <2> QED BY <2>1 DEF Joins
<1> HIDE DEF one
<1>7. Data(two, 6)
  <2>1. Joins(two, one, i, 4, 2)
    BY <1>5, <1>6, Joined
  <2> HIDE DEF two
  <2> QED BY <2>1 DEF Joins
<1> HIDE DEF two
<1>8. Joins(header, two, last, 6, 4)
  BY <1>4, <1>7, Joined
<1> HIDE DEF header
<1>9. Data(header, 10) /\ header[9] = 0 /\ header[10] = 0
  <2>1. header[6 + 3] = last[3] /\ header[6 + 4] = last[4]
    BY <1>8 DEF Joins
  <2> QED BY <1>4, <1>8, <2>1 DEF Joins
<1>10. OnesComplementSum(Sealed(header, 2 * 5 - 1)) = Full
  <2>1. 5 \in 1..5 /\ 2 * 5 - 1 = 9 /\ 2 * 5 = 10 /\ 5 \in Nat
    OBVIOUS
  <2>2. Data(header, 2 * 5) /\ header[2 * 5 - 1] = 0 /\ header[2 * 5] = 0
    BY <1>9, <2>1
  <2> QED BY <2>1, <2>2, SealedSums
<1>11. question.bytes = header
  BY <1>2 DEF header, two, one, first, s, i, last
<1> QED BY <1>10, <1>11

(* A question about arbitrary words.                                       *)
LEMMA NoiseFollows ==
  ASSUME Asked PROVE NothingCutOff
<1> DEFINE words == question.words
           found == ObjectsFrom(words, 1)
<1> SUFFICES ASSUME question.kind = "noise"
             PROVE  \A o \in found :
                      /\ o.at - 1 + words[o.at].length \div 4 <= Len(words)
                      /\ (IF o.what = "interface" THEN UNION {o.from[f] : f \in DOMAIN o.from}
                          ELSE o.from)
                           \subseteq (o.at + 1)..(o.at - 1 + words[o.at].length \div 4)
                      /\ \A p \in found : o.at < p.at =>
                           o.at - 1 + words[o.at].length \div 4 < p.at
  BY DEF NothingCutOff
<1>1. question \in NoiseQuestions
  BY KindsApart
<1>2. PICK n \in 1..3 : words \in [1..n -> Noise]
  BY <1>1 DEF NoiseQuestions
<1>3. \A w \in Noise : w.length \in Nat /\ w.flags \subseteq Flags
  <2>1. ASSUME NEW w \in Noise
        PROVE  /\ w.length \in {0, 4, 6, 8, 12, 16}
               /\ w.flags = {"ifindex", "mtu"}
    <3>1. PICK length \in {0, 4, 6, 8, 12, 16}, class \in {"mpls", "interface", "other"} :
            w = [Blank EXCEPT !.length = length, !.class = class, !.flags = {"ifindex", "mtu"}]
      BY DEF Noise
    <3>2. DOMAIN Blank = {"version", "length", "class", "flags", "family", "name", "is"}
      BY DEF Blank
    <3> QED BY <3>1, <3>2
  <2> QED BY <2>1 DEF Flags
<1> HIDE DEF words
<1>4. Readable(words) /\ 1 \in 1..(Len(words) + 1)
  <2>1. Len(words) = n /\ DOMAIN words = 1..n
    BY <1>2
  <2> QED BY <1>2, <1>3, <2>1 DEF Readable
<1>5. Apart(words, found, 1)
  BY <1>4, ObjectsInside
<1> QED BY <1>5 DEF Apart, EndOf, Used

(* A question about an error.                                              *)
LEMMA ErrorQuestionIs ==
  ASSUME NEW e \in ErrorQuestions
  PROVE  \E q \in Quotes, sum \in {"right", "absent", "wrong"}, tail \in Tails, m \in Nat :
           \E body : Placed(body, m) /\ e = Error(q, sum, body, tail)
<1>1. CASE e \in {Error(q, sum, o, t) : q \in Quotes, sum \in {"right", "absent", "wrong"},
                                        o \in Objects(1), t \in Tails}
  <2>1. PICK q \in Quotes, sum \in {"right", "absent", "wrong"}, o \in Objects(1),
             t \in Tails : e = Error(q, sum, o, t)
    BY <1>1
  <2>2. Placed(<<>> \o o, 0 + 1)
    <3>1. o \in Objects(0 + 1)
      OBVIOUS
    <3> QED BY <3>1, NothingPlaced, OneMorePlaced
  <2>3. <<>> \o o = o
    <3>1. o \in Seq(Readings)
      BY ObjectsFit DEF Fits
    <3> QED BY <3>1, ConcatEmptySeq
  <2>4. Placed(o, 1)
    BY <2>2, <2>3
  <2> QED BY <2>1, <2>4
<1>2. CASE e \in UNION {{Error(q, "right", body, <<>>) : q \in Quotes, body \in Bodies[m]} :
                          m \in 0..MostObjects}
  <2>1. PICK m \in 0..MostObjects : \E q \in Quotes, body \in Bodies[m] :
                                      e = Error(q, "right", body, <<>>)
    BY <1>2
  <2>2. PICK q \in Quotes, body \in Bodies[m] : e = Error(q, "right", body, <<>>)
    BY <2>1
  <2>3. Placed(body, m) /\ m \in Nat
    BY BodiesPlaced
  <2>4. <<>> \in Tails
    BY DEF Tails
  <2> QED BY <2>2, <2>3, <2>4
<1> QED BY <1>1, <1>2 DEF ErrorQuestions

(* What ExtensionsRecovered says of it.                                    *)
LEMMA ErrorFollows ==
  ASSUME Asked PROVE ExtensionsRecovered
<1> SUFFICES ASSUME question.kind = "error" PROVE ExtensionsRecovered
  BY DEF ExtensionsRecovered
<1>1. question \in ErrorQuestions
  BY KindsApart
<1>2. PICK q \in Quotes, sum \in {"right", "absent", "wrong"}, tail \in Tails, m \in Nat :
        \E body : Placed(body, m) /\ question = Error(q, sum, body, tail)
  BY <1>1, ErrorQuestionIs
<1>3. PICK body : Placed(body, m) /\ question = Error(q, sum, body, tail)
  BY <1>2
<1> DEFINE words == question.words
           right == sum \in {"right", "absent"}
           found == ObjectsFrom(words, Before(q) + 2)
           some == IF right THEN found ELSE {}
           e == [trusted |-> right, objects |-> some]
<1>4. question.quoted = q /\ question.sum = sum /\ words = Error(q, sum, body, tail).words
  BY <1>3 DEF Error
<1>5. Carries(words, Before(q), body) /\ ExtensionStart(q, words) = {Before(q) + 1}
  <2>1. q \in Nat /\ body \in Seq(Readings)
    BY <1>3, InputAssumption DEF Placed
  <2> DEFINE v == Error(q, sum, body, tail).words
  <2>2. Carries(v, Before(q), body) /\ ExtensionStart(q, v) = {Before(q) + 1}
    BY <2>1, ErrorIs
  <2> QED BY <1>4, <2>2
<1> HIDE DEF words
<1>6. AllRecovered(words, found)
  <2>1. PICK place : Filled(words, m, place) /\ place[1] = Before(q) + 2
    BY <1>3, <1>5, BodyFills
  <2>2. words \in Seq(Readings)
    BY <1>5 DEF Carries
  <2>3. AllRecovered(words, ObjectsFrom(words, place[1]))
    BY <2>1, <2>2, FilledIsRecovered
  <2> QED BY <2>1, <2>3
<1>7. ParseExtensions(q, words, sum) = {e}
  <2>1. (Before(q) + 1) + 1 = Before(q) + 2
    <3>1. Before(q) \in Nat
      BY <1>5 DEF Carries
    <3> QED BY <3>1
  <2>2. ObjectsFrom(words, (Before(q) + 1) + 1) = found
    BY <2>1
  <2> HIDE DEF found
  <2> QED BY <1>5, <2>2 DEF ParseExtensions
<1>8. right <=> sum # "wrong"
  OBVIOUS
<1> HIDE DEF found
<1>9. /\ e.trusted = right /\ e.objects = some
      /\ right => some = found
      /\ ~right => some = {}
  OBVIOUS
<1>10. /\ e.trusted <=> sum # "wrong"
       /\ ~e.trusted => e.objects = {}
       /\ e.trusted => AllRecovered(words, e.objects)
  <2> HIDE DEF e, some, right
  <2> QED BY <1>6, <1>8, <1>9
<1> HIDE DEF e
<1>11. /\ \A o \in e.objects :
            LET k == words[o.at].is[1]
            IN  /\ o.at \in Meant(words, k, "header") /\ k # 0
                /\ o.what = "label" => o.from \subseteq Meant(words, k, "label")
                /\ o.what = "interface" =>
                     /\ DOMAIN o.from = words[o.at].flags
                     /\ \A f \in DOMAIN o.from : o.from[f] = Meant(words, k, f)
       /\ e.trusted => \A w \in DOMAIN words :
            /\ words[w].is[2] = "label" =>
                 \E o \in e.objects : o.what = "label" /\ o.from = {w}
            /\ words[w].is[1] # 0 /\ words[w].class \in {"interface", "other"} =>
                 \E o \in e.objects : o.at = w
  BY <1>10 DEF AllRecovered
<1>12. e \in ParseExtensions(question.quoted, words, question.sum)
       /\ (e.trusted <=> question.sum # "wrong")
  BY <1>4, <1>7, <1>10
<1> QED BY <1>10, <1>11, <1>12 DEF ExtensionsRecovered, Meant, words

(* A question about the bound.                                             *)
LEMMA BoundFollows ==
  ASSUME Asked PROVE CertifiedFromRequired
<1> DEFINE p == question.p
           delta == question.delta
           n == question.samples
<1> SUFFICES ASSUME question.kind = "bound",
                    NEW required \in RequiredSamples(p, delta),
                    NEW within \in WithinBound(p, n, delta)
             PROVE  /\ (n >= required /\ within) => BoundMet(p, n, delta)
                    /\ BoundMet(p, n, delta) => required <= n + 1
                    /\ (n >= required /\ ~(n >= required /\ within))
                         => n = required /\ Tie(p, n, delta)
  BY DEF CertifiedFromRequired
<1>1. question \in BoundQuestions
  BY KindsApart
<1>2. p \in Probabilities /\ delta \in Probabilities /\ n \in Nat
  BY <1>1 DEF BoundQuestions
<1> HIDE DEF p, delta, n
<1>3. PICK m \in 1..SampleBound :
        /\ \A k \in Nat : (BoundMet(p, k, delta) <=> k >= m) /\ (Tie(p, k, delta) => k = m)
        /\ \A r \in RequiredSamples(p, delta) : r \in {m, m + 1}
  BY <1>2, RequiredNearLeast
<1>4. /\ BoundMet(p, n, delta) <=> n >= m
      /\ Tie(p, n, delta) => n = m
      /\ required = m \/ required = m + 1
  BY <1>2, <1>3
<1>5. m \in Nat
  OBVIOUS
<1>6. ASSUME n >= required, ~within PROVE n = required /\ Tie(p, n, delta)
  <2>1. n >= m
    BY <1>2, <1>4, <1>5, <1>6
  <2>2. Tie(p, n, delta)
    <3> SUFFICES ASSUME ~Tie(p, n, delta) PROVE FALSE
      OBVIOUS
    <3>1. within = BoundMet(p, n, delta)
      BY DEF WithinBound
    <3> QED BY <1>4, <1>6, <2>1, <3>1
  <2> QED BY <1>2, <1>4, <1>5, <1>6, <2>2
<1>7. n >= required => BoundMet(p, n, delta)
  BY <1>2, <1>4, <1>5
<1>8. BoundMet(p, n, delta) => required <= n + 1
  BY <1>2, <1>4, <1>5
<1> QED BY <1>6, <1>7, <1>8

(* A question about a pool of flows.                                       *)
LEMMA PoolFollows ==
  ASSUME Asked PROVE RareOutcomesMet
<1> DEFINE p == question.p
           delta == question.delta
           others == question.tokens - 1
           hit == question.hit
<1> SUFFICES ASSUME question.kind = "pool", NEW n \in RequiredSamples(p, delta),
                    n <= others, hit <= others,
                    hit * Denominator >= p * question.tokens
             PROVE  MissingDraws(others, hit, n) * Denominator <= delta * Draws(others, n)
  BY DEF RareOutcomesMet
<1>1. question \in PoolQuestions
  BY KindsApart
<1>2. /\ p \in Probabilities /\ delta \in Probabilities
      /\ question.tokens \in 2..Tokens /\ hit \in 1..Tokens
  BY <1>1 DEF PoolQuestions
<1> HIDE DEF p, delta, hit
<1>3. /\ others \in Nat /\ hit \in 0..others /\ others + 1 = question.tokens
  BY <1>2, InputAssumption
<1>4. n \in Nat /\ BoundMet(p, n, delta)
  <2>1. PICK m \in 1..SampleBound :
          /\ \A k \in Nat : (BoundMet(p, k, delta) <=> k >= m) /\ (Tie(p, k, delta) => k = m)
          /\ \A r \in RequiredSamples(p, delta) : r \in {m, m + 1}
    BY <1>2, RequiredNearLeast
  <2>2. m \in Nat /\ n \in {m, m + 1}
    BY <2>1, CoverageAssumption
  <2>3. n \in Nat /\ n >= m
    BY <2>2
  <2> QED BY <2>1, <2>3
<1> HIDE DEF others
<1>5. n \in 0..others /\ hit * Denominator >= p * (others + 1)
  BY <1>3, <1>4
<1> QED BY <1>2, <1>3, <1>4, <1>5, MissesRare DEF p, delta, hit

(* A question remains what was asked.                                      *)
LEMMA AskedStays == Spec => []Asked
<1>1. Init => Asked
  BY DEF Init, Asked
<1>2. Asked /\ [Answer]_<<question, answered>> => Asked'
  BY DEF Answer, Asked
<1> QED BY <1>1, <1>2, PTL DEF Spec

(* Every probe of even payload is built, is valid, and its first eight     *)
(* bytes, which routers hash, depend on the identifier alone               *)
(* (packet.py:241-281).                                                    *)
THEOREM EchoProbesLookAlike == Spec => []EchoHeadersStable
<1>1. Asked => EchoHeadersStable
  BY EchoFollows
<1> QED BY <1>1, AskedStays, PTL

(* A header sealed with its checksum is accepted (packet.py:84-115).       *)
THEOREM HeadersAreAccepted == Spec => []HeadersAccepted
<1>1. Asked => HeadersAccepted
  BY HeaderFollows
<1> QED BY <1>1, AskedStays, PTL

(* Malformed lengths take nothing from outside an object or the packet     *)
(* (packet.py:512-602).                                                    *)
THEOREM NothingIsCutOff == Spec => []NothingCutOff
<1>1. Asked => NothingCutOff
  BY NoiseFollows
<1> QED BY <1>1, AskedStays, PTL

(* Whatever a sender puts into an extension is taken out of it, however    *)
(* many objects of whatever kind and size it writes, whichever fields they *)
(* announce, however many words the error quotes, and whatever header that *)
(* no object fits follows (packet.py:508-602).                             *)
THEOREM ExtensionsAreRecovered == Spec => []ExtensionsRecovered
<1>1. Asked => ExtensionsRecovered
  BY ErrorFollows
<1> QED BY <1>1, AskedStays, PTL

(* Whichever way the logarithms and powers are rounded: what is certified  *)
(* meets the bound, the loop asks for one sample more than needed at most, *)
(* and samples that reach the number required go without a certificate     *)
(* only where (1 - p)^n is the request itself (controller.py:614,          *)
(* 1029-1035; stats.py:13-33).                                             *)
THEOREM CertificatesMeetBound == Spec => []CertifiedFromRequired
<1>1. Asked => CertifiedFromRequired
  BY BoundFollows
<1> QED BY <1>1, AskedStays, PTL

(* Drawing flows without replacement, and never the main flow, misses a    *)
(* frequent outcome no more often than the bound says (stats.py:16-18,     *)
(* controller.py:341-357).                                                 *)
THEOREM RareOutcomesFound == Spec => []RareOutcomesMet
<1>1. Asked => RareOutcomesMet
  BY PoolFollows
<1> QED BY <1>1, AskedStays, PTL
=============================================================================
