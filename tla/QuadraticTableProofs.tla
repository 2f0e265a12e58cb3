------------------------- MODULE QuadraticTableProofs -------------------------
(***************************************************************************)
(* The default hash table implements a set: for every set of keys, every   *)
(* choice of their hashes, every load limit the code accepts and every     *)
(* capacity, its operations lose, duplicate and hide no key, and every     *)
(* lookup ends.                                                            *)
(***************************************************************************)
EXTENDS QuadraticTable, DataLemmas

-----------------------------------------------------------------------------
(* Loops.  A loop is a function on the number of rounds, defined by its     *)
(* recursive equation; an equation whose step stays in a set has a solution.*)

Rounds(S, start, F, f, n) == /\ f \in [0..n -> S]
                             /\ f[0] = start
                             /\ \A i \in 0..(n - 1) : f[i + 1] = F[i][f[i]]

LEMMA RoundsExist ==
  ASSUME NEW S, NEW start \in S, NEW F \in [Nat -> [S -> S]], NEW n \in Nat
  PROVE  \E f : Rounds(S, start, F, f, n)
  <1> DEFINE T == {i \in Nat : \E f : Rounds(S, start, F, f, i)}
  <1>1. 0 \in T
    <2>1. [i \in 0..0 |-> start] \in [0..0 -> S] /\ [i \in 0..0 |-> start][0] = start OBVIOUS
    <2>2. Rounds(S, start, F, [i \in 0..0 |-> start], 0) BY <2>1 DEF Rounds
    <2>3. QED BY <2>2
  <1>2. ASSUME NEW i \in Nat, i \in T PROVE i + 1 \in T
    <2>1. PICK f : Rounds(S, start, F, f, i) BY <1>2
    <2> DEFINE g == [j \in 0..(i + 1) |-> IF j = i + 1 THEN F[i][f[i]] ELSE f[j]]
    <2>2. i \in 0..i /\ f[i] \in S /\ F[i][f[i]] \in S BY <2>1 DEF Rounds
    <2>3. g \in [0..(i + 1) -> S] BY <2>1, <2>2 DEF Rounds
    <2>4. g[0] = start BY <2>1 DEF Rounds
    <2>5. ASSUME NEW j \in 0..i PROVE g[j + 1] = F[j][g[j]]
      <3>1. CASE j = i BY <3>1
      <3>2. CASE j # i
        <4>1. j \in 0..(i - 1) /\ j + 1 # i + 1 /\ j # i + 1 BY <3>2
        <4>2. g[j + 1] = f[j + 1] /\ g[j] = f[j] BY <4>1
        <4>3. QED BY <4>1, <4>2, <2>1 DEF Rounds
      <3>3. QED BY <3>1, <3>2
    <2> HIDE DEF g
    <2>6. (i + 1) - 1 = i OBVIOUS
    <2>7. Rounds(S, start, F, g, i + 1) BY <2>3, <2>4, <2>5, <2>6 DEF Rounds
    <2>8. QED BY <2>7
  <1> HIDE DEF T
  <1>3. Nat \subseteq T BY <1>1, <1>2, SetInduction
  <1>4. QED BY <1>3 DEF T

LEMMA RoundsAgree ==
  ASSUME NEW S, NEW start \in S, NEW F \in [Nat -> [S -> S]], NEW n \in Nat, NEW f, NEW g,
         Rounds(S, start, F, f, n), Rounds(S, start, F, g, n + 1)
  PROVE  f[n] = g[n]
  <1> DEFINE E == {i \in Nat : i <= n => f[i] = g[i]}
  <1>1. 0 \in E BY DEF Rounds
  <1>2. ASSUME NEW i \in Nat, i \in E PROVE i + 1 \in E
    <2>1. CASE i + 1 <= n
      <3>1. i \in 0..(n - 1) /\ i \in 0..((n + 1) - 1) BY <2>1
      <3>2. f[i + 1] = F[i][f[i]] /\ g[i + 1] = F[i][g[i]] BY <3>1 DEF Rounds
      <3>3. f[i] = g[i] BY <1>2, <2>1
      <3>4. QED BY <3>2, <3>3
    <2>2. CASE ~(i + 1 <= n) BY <2>2
    <2>3. QED BY <2>1, <2>2
  <1> HIDE DEF E
  <1>3. Nat \subseteq E BY <1>1, <1>2, SetInduction
  <1>4. QED BY <1>3 DEF E

\* The values of a loop that starts in S and whose step number n is F[n].
Steps(S, F) == F \in [Nat -> [S -> S]]

IsLoop(S, start, F, run) == /\ run \in [Nat -> S]
                            /\ run[0] = start
                            /\ \A n \in Nat : run[n + 1] = F[n][run[n]]

\* There is such a loop if its steps stay in S.
LEMMA LoopExists ==
  ASSUME NEW S, NEW start \in S, NEW F, Steps(S, F)
  PROVE  \E run : IsLoop(S, start, F, run)
  <1> USE DEF Steps
  <1> DEFINE G == [n \in Nat |-> CHOOSE f : Rounds(S, start, F, f, n)]
  <1>1. ASSUME NEW n \in Nat PROVE Rounds(S, start, F, G[n], n)
    <2>1. \E f : Rounds(S, start, F, f, n) BY RoundsExist
    <2>2. QED BY <2>1
  <1> HIDE DEF G
  <1> DEFINE run == [n \in Nat |-> G[n][n]]
  <1>2. run \in [Nat -> S] BY <1>1 DEF Rounds
  <1>3. run[0] = start BY <1>1 DEF Rounds
  <1>4. ASSUME NEW n \in Nat PROVE run[n + 1] = F[n][run[n]]
    <2>1. Rounds(S, start, F, G[n], n) /\ Rounds(S, start, F, G[n + 1], n + 1) BY <1>1
    <2>2. G[n][n] = G[n + 1][n] BY <2>1, RoundsAgree
    <2>3. n \in 0..((n + 1) - 1) OBVIOUS
    <2>4. G[n + 1][n + 1] = F[n][G[n + 1][n]] BY <2>1, <2>3 DEF Rounds
    <2>5. QED BY <2>2, <2>4
  <1>5. IsLoop(S, start, F, run) BY <1>2, <1>3, <1>4 DEF IsLoop
  <1> HIDE DEF run
  <1>6. QED BY <1>5

\* The powers of 2, one by one.
LEMMA Pow2Recursion ==
  /\ Pow2 = [i \in 0..HashBits |-> IF i = 0 THEN 1 ELSE 2 * Pow2[i - 1]]
  /\ Pow2 \in [0..HashBits -> Nat \ {0}]
  <1> DEFINE Double == [n \in Nat |-> [x \in Nat |-> 2 * x]]
             P(f) == f = [i \in 0..HashBits |-> IF i = 0 THEN 1 ELSE 2 * f[i - 1]]
  <1>1. 1 \in Nat /\ Steps(Nat, Double) BY DEF Steps
  <1>2. PICK run : IsLoop(Nat, 1, Double, run)
    <2> HIDE DEF Double
    <2>1. QED BY <1>1, LoopExists
  <1>3. \E f : P(f)
    <2> DEFINE f == [i \in 0..HashBits |-> run[i]]
    <2>1. ASSUME NEW i \in 0..HashBits PROVE f[i] = IF i = 0 THEN 1 ELSE 2 * f[i - 1]
      <3>1. CASE i = 0 BY <3>1, <1>2 DEF IsLoop
      <3>2. CASE i # 0
        <4>1. i - 1 \in 0..HashBits /\ i - 1 \in Nat /\ (i - 1) + 1 = i BY <3>2, HashBitsAssumption
        <4>2. run[i] = 2 * run[i - 1] BY <4>1, <1>2 DEF IsLoop
        <4>3. QED BY <4>1, <4>2, <3>2
      <3>3. QED BY <3>1, <3>2
    <2>2. P(f) BY <2>1
    <2>3. QED BY <2>2
  <1>4. P(CHOOSE f : P(f)) BY <1>3
  <1>5. Pow2 = [i \in 0..HashBits |-> IF i = 0 THEN 1 ELSE 2 * Pow2[i - 1]] BY <1>4 DEF Pow2
  <1> DEFINE T == {i \in Nat : i <= HashBits => Pow2[i] \in Nat \ {0}}
  <1>6. 0 \in T BY <1>5, HashBitsAssumption
  <1>7. ASSUME NEW i \in Nat, i \in T PROVE i + 1 \in T
    <2>1. CASE i + 1 <= HashBits
      <3>1. i + 1 \in 0..HashBits /\ i + 1 # 0 /\ (i + 1) - 1 = i BY <2>1, HashBitsAssumption
      <3>2. Pow2[i + 1] = 2 * Pow2[i] BY <3>1, <1>5
      <3>3. Pow2[i] \in Nat \ {0} BY <1>7, <2>1, HashBitsAssumption
      <3>4. QED BY <3>2, <3>3
    <2>2. CASE ~(i + 1 <= HashBits) BY <2>2
    <2>3. QED BY <2>1, <2>2
  <1> HIDE DEF T
  <1>8. Nat \subseteq T BY <1>6, <1>7, SetInduction
  <1>9. \A i \in 0..HashBits : Pow2[i] \in Nat \ {0} BY <1>8, HashBitsAssumption DEF T
  <1>91. DOMAIN Pow2 = 0..HashBits /\ Pow2 = [i \in 0..HashBits |-> Pow2[i]] BY <1>5
  <1>92. Pow2 \in [0..HashBits -> Nat \ {0}] BY <1>9, <1>91
  <1>10. QED BY <1>5, <1>92

\* A power of 2 is 1 or twice a power of 2, and an induction on powers can use it.
LEMMA PowersInduction ==
  ASSUME NEW T, 1 \in T, \A p \in Powers : p \in T /\ 2 * p \in Powers => 2 * p \in T
  PROVE  Powers \subseteq T
  <1> DEFINE I == {i \in Nat : i < HashBits => Pow2[i] \in T}
  <1>1. 0 \in I BY Pow2Recursion, HashBitsAssumption
  <1>2. ASSUME NEW i \in Nat, i \in I PROVE i + 1 \in I
    <2>1. CASE i + 1 < HashBits
      <3>1. i \in 0..(HashBits - 1) /\ i + 1 \in 0..(HashBits - 1) /\ i + 1 \in 0..HashBits
            /\ i + 1 # 0 /\ (i + 1) - 1 = i
        BY <2>1, HashBitsAssumption
      <3>2. Pow2[i + 1] = 2 * Pow2[i] BY <3>1, Pow2Recursion
      <3>3. Pow2[i] \in Powers /\ 2 * Pow2[i] \in Powers BY <3>1, <3>2 DEF Powers
      <3>4. Pow2[i] \in T
        <4>1. i < HashBits BY <3>1, HashBitsAssumption
        <4>2. QED BY <1>2, <4>1
      <3>5. QED BY <3>2, <3>3, <3>4
    <2>2. CASE ~(i + 1 < HashBits) BY <2>2
    <2>3. QED BY <2>1, <2>2
  <1> HIDE DEF I
  <1>3. Nat \subseteq I BY <1>1, <1>2, SetInduction
  <1>4. QED BY <1>3, HashBitsAssumption DEF I, Powers

LEMMA PowersPositive == Powers \subseteq Nat \ {0}
  <1> SUFFICES ASSUME NEW i \in 0..(HashBits - 1) PROVE Pow2[i] \in Nat \ {0} BY DEF Powers
  <1>1. i \in 0..HashBits BY HashBitsAssumption
  <1>2. QED BY <1>1, Pow2Recursion
-----------------------------------------------------------------------------
(* Probing.  The offsets i (i + 1) / 2 of c probes, for a power of two c,    *)
(* are different modulo c: c probes visit all c slots.                       *)

LEMMA EvenOrOdd ==
  ASSUME NEW n \in Nat
  PROVE  \E u \in Nat : n = 2 * u \/ n = 2 * u + 1
  <1>1. n \div 2 \in Nat /\ n % 2 \in 0..1 /\ n = 2 * (n \div 2) + (n % 2) BY DivMod
  <1>2. QED BY <1>1

\* The sum of the first i increments, doubled.
LEMMA Triangular ==
  ASSUME NEW i \in Nat
  PROVE  /\ (i * (i + 1)) \div 2 \in Nat
         /\ 2 * ((i * (i + 1)) \div 2) = i * (i + 1)
  <1>1. PICK u \in Nat : i = 2 * u \/ i = 2 * u + 1 BY EvenOrOdd
  <1>2. \E w \in Nat : i * (i + 1) = 2 * w
    <2>1. CASE i = 2 * u
      <3>1. u * (i + 1) \in Nat /\ i * (i + 1) = 2 * (u * (i + 1)) BY <2>1
      <3>2. QED BY <3>1
    <2>2. CASE i = 2 * u + 1
      <3>1. i + 1 = 2 * (u + 1) BY <2>2
      <3>2. i * (u + 1) \in Nat /\ i * (i + 1) = 2 * (i * (u + 1)) BY <3>1
      <3>3. QED BY <3>2
    <2>3. QED BY <1>1, <2>1, <2>2
  <1>3. PICK w \in Nat : i * (i + 1) = 2 * w BY <1>2
  <1>4. (2 * w) \div 2 = w OBVIOUS
  <1>5. QED BY <1>3, <1>4

\* A power of 2 that divides a product with an odd factor divides the other factor.
LEMMA OddFactor ==
  ASSUME NEW p \in Powers, NEW u \in Nat, NEW b \in Nat, NEW q \in Nat, (2 * u + 1) * b = p * q
  PROVE  \E r \in Nat : b = p * r
  <1> DEFINE Divides(x) == \A y, z \in Nat : (2 * u + 1) * y = x * z => \E r \in Nat : y = x * r
             T == {x \in Nat : Divides(x)}
  <1>1. 1 \in T
    <2>1. \A y \in Nat : y = 1 * y OBVIOUS
    <2>2. QED BY <2>1
  <1>2. ASSUME NEW x \in Powers, x \in T PROVE 2 * x \in T
    <2>0. x \in Nat BY <1>2
    <2>1. ASSUME NEW y \in Nat, NEW z \in Nat, (2 * u + 1) * y = (2 * x) * z
          PROVE  \E r \in Nat : y = (2 * x) * r
      <3>1. PICK w \in Nat : y = 2 * w \/ y = 2 * w + 1 BY EvenOrOdd
      <3>2. PICK xz \in Nat : xz = x * z BY <2>0
      <3>3. (2 * x) * z = 2 * xz BY <3>2, <2>0
      <3>4. PICK uw \in Nat : uw = u * w OBVIOUS
      <3>5. y # 2 * w + 1
        <4>1. SUFFICES ASSUME y = 2 * w + 1 PROVE FALSE OBVIOUS
        <4>2. (2 * u + 1) * y = 2 * (2 * uw + u + w) + 1 BY <4>1, <3>4
        <4>3. 2 * (2 * uw + u + w) + 1 = 2 * xz BY <4>2, <3>3, <2>1
        <4>4. QED BY <4>3
      <3>6. y = 2 * w BY <3>1, <3>5
      <3>7. (2 * u + 1) * y = 2 * ((2 * u + 1) * w) BY <3>6
      <3>8. PICK v \in Nat : v = (2 * u + 1) * w OBVIOUS
      <3>9. 2 * v = 2 * xz BY <3>3, <3>7, <3>8, <2>1
      <3>10. (2 * u + 1) * w = x * z BY <3>2, <3>8, <3>9
      <3>11. PICK r \in Nat : w = x * r BY <3>10, <1>2
      <3>12. y = (2 * x) * r BY <3>6, <3>11, <2>0
      <3>13. QED BY <3>12
    <2>2. Divides(2 * x) BY <2>1
    <2>3. 2 * x \in Nat BY <2>0
    <2>4. QED BY <2>2, <2>3
  <1> HIDE DEF T
  <1>3. \A x \in Powers : x \in T /\ 2 * x \in Powers => 2 * x \in T BY <1>2
  <1>4. Powers \subseteq T BY <1>1, <1>3, PowersInduction
  <1>5. Divides(p) BY <1>4 DEF T
  <1>6. QED BY <1>5

\* A power of 2 greater than the half of one of a and b divides neither half of a * b, if
\* the other of a and b is odd.
LEMMA NoSmallProduct ==
  ASSUME NEW p \in Powers, NEW a \in Nat \ {0}, NEW b \in Nat \ {0}, NEW q \in Nat,
         a * b = 2 * (p * q), a < 2 * p, b < 2 * p,
         \E u \in Nat : a + b = 2 * u + 1
  PROVE  FALSE
  <1>0. p \in Nat \ {0} BY PowersPositive
  <1>1. ASSUME NEW x \in Nat \ {0}, NEW y \in Nat \ {0}, NEW u \in Nat, NEW w \in Nat,
               x = 2 * u + 1, y = 2 * w, x * y = 2 * (p * q), y < 2 * p
        PROVE  FALSE
    <2>1. PICK pq \in Nat : pq = p * q BY <1>0
    <2>2. x * y = 2 * (x * w) BY <1>1
    <2>3. PICK xw \in Nat : xw = x * w OBVIOUS
    <2>4. 2 * xw = 2 * pq BY <2>1, <2>2, <2>3, <1>1
    <2>5. (2 * u + 1) * w = p * q BY <2>1, <2>3, <2>4, <1>1
    <2>6. PICK r \in Nat : w = p * r BY <2>5, OddFactor
    <2>7. w > 0 /\ w < p BY <1>0, <1>1
    <2>8. r # 0 BY <2>6, <2>7, <1>0
    <2>9. PICK s \in Nat : r = s + 1
      <3>1. r - 1 \in Nat /\ r = (r - 1) + 1 BY <2>8
      <3>2. QED BY <3>1
    <2>10. p * r = p * s + p BY <2>9, <1>0
    <2>11. p * s \in Nat BY <1>0
    <2>12. QED BY <2>6, <2>7, <2>10, <2>11, <1>0
  <1>2. PICK u \in Nat : a = 2 * u \/ a = 2 * u + 1 BY EvenOrOdd
  <1>3. PICK w \in Nat : b = 2 * w \/ b = 2 * w + 1 BY EvenOrOdd
  <1>4. PICK v \in Nat : a + b = 2 * v + 1 OBVIOUS
  <1>5. \/ a = 2 * u + 1 /\ b = 2 * w
        \/ a = 2 * u /\ b = 2 * w + 1
    BY <1>2, <1>3, <1>4
  <1>6. CASE a = 2 * u + 1 /\ b = 2 * w BY <1>1, <1>6
  <1>7. CASE a = 2 * u /\ b = 2 * w + 1
    <2>1. b * a = 2 * (p * q) OBVIOUS
    <2>2. QED BY <1>1, <1>7, <2>1
  <1>8. QED BY <1>5, <1>6, <1>7

\* HashToIndex and Probe name slots of the table.
LEMMA ProbeInRange ==
  ASSUME NEW c \in Nat \ {0}, NEW k \in Keys
  PROVE  /\ HashToIndex(c, k) \in 0..(c - 1)
         /\ \A i \in Nat : Probe(c, k, i) \in 0..(c - 1)
         /\ Probe(c, k, 0) = HashToIndex(c, k)
  <1>1. HashRange \in Nat \ {0} BY Pow2Recursion, HashBitsAssumption, HashRangeAssumption
  <1>2. HashOf[k] \in Nat BY <1>1, HashOfAssumption
  <1>3. SanitizeHash(HashOf[k], 2) \in Nat BY <1>1, <1>2 DEF SanitizeHash
  <1>4. HashToIndex(c, k) \in 0..(c - 1) BY <1>3, DivMod DEF HashToIndex
  <1>5. ASSUME NEW i \in Nat PROVE Probe(c, k, i) \in 0..(c - 1)
    <2>1. PICK t \in Nat : t = (i * (i + 1)) \div 2 BY Triangular
    <2>2. HashToIndex(c, k) + t \in Nat BY <1>4
    <2>3. QED BY <2>1, <2>2, DivMod DEF Probe
  <1>6. Probe(c, k, 0) = HashToIndex(c, k)
    <2>1. (0 * (0 + 1)) \div 2 = 0 OBVIOUS
    <2>2. PICK h \in 0..(c - 1) : h = HashToIndex(c, k) BY <1>4
    <2>3. (h + 0) % c = h BY <2>2, ModSmall
    <2>4. QED BY <2>1, <2>2, <2>3 DEF Probe
  <1>7. QED BY <1>4, <1>5, <1>6

\* The first c probes of a key are of different slots.
LEMMA ProbesDiffer ==
  ASSUME NEW c \in Powers, NEW k \in Keys, NEW i \in 0..(c - 1), NEW j \in 0..(c - 1), i < j
  PROVE  Probe(c, k, i) # Probe(c, k, j)
  <1>0. c \in Nat \ {0} BY PowersPositive
  <1>1. PICK h \in Nat : h = HashToIndex(c, k) BY <1>0, ProbeInRange
  <1>2. PICK s \in Nat : s = (i * (i + 1)) \div 2 /\ 2 * s = i * (i + 1) BY Triangular
  <1>3. PICK t \in Nat : t = (j * (j + 1)) \div 2 /\ 2 * t = j * (j + 1) BY Triangular
  <1>4. Probe(c, k, i) = (h + s) % c /\ Probe(c, k, j) = (h + t) % c
    BY <1>1, <1>2, <1>3 DEF Probe
  <1>5. SUFFICES ASSUME (h + s) % c = (h + t) % c PROVE FALSE BY <1>4
  <1>6. PICK e \in Nat : e = (h + s) \div c /\ h + s = c * e + ((h + s) % c)
    <2>1. h + s \in Nat OBVIOUS
    <2>2. (h + s) \div c \in Nat /\ h + s = c * ((h + s) \div c) + ((h + s) % c)
      BY <1>0, <2>1, DivMod
    <2>3. QED BY <2>2
  <1>7. PICK f \in Nat : f = (h + t) \div c /\ h + t = c * f + ((h + t) % c)
    <2>1. h + t \in Nat OBVIOUS
    <2>2. (h + t) \div c \in Nat /\ h + t = c * ((h + t) \div c) + ((h + t) % c)
      BY <1>0, <2>1, DivMod
    <2>3. QED BY <2>2
  <1>8. PICK d \in Nat : j = i + d /\ d > 0
    <2>1. j - i \in Nat /\ j = i + (j - i) /\ j - i > 0 BY <1>0
    <2>2. QED BY <2>1
  <1>9. j * (j + 1) = i * (i + 1) + d * (j + i + 1) BY <1>8, <1>0
  <1>10. PICK y \in Nat : y = d * (j + i + 1) BY <1>0, <1>8
  <1>11. y = 2 * (t - s) /\ t >= s BY <1>2, <1>3, <1>9, <1>10
  <1>12. PICK ce \in Nat : ce = c * e BY <1>0
  <1>13. PICK cf \in Nat : cf = c * f BY <1>0
  <1>14. (h + s) % c \in Nat BY <1>0, DivMod
  <1>15. t - s = cf - ce BY <1>5, <1>6, <1>7, <1>12, <1>13, <1>14
  <1>16. f >= e
    <2>1. SUFFICES ASSUME f < e PROVE FALSE OBVIOUS
    <2>2. PICK g \in Nat : e = f + g /\ g > 0
      <3>1. e - f \in Nat /\ e = f + (e - f) /\ e - f > 0 BY <2>1
      <3>2. QED BY <3>1
    <2>3. c * e = c * f + c * g BY <2>2, <1>0
    <2>4. c * g > 0 BY <2>2, <1>0
    <2>5. PICK cg \in Nat : cg = c * g BY <1>0
    <2>6. QED BY <2>3, <2>4, <2>5, <1>11, <1>12, <1>13, <1>15
  <1>17. PICK q \in Nat : f = e + q
    <2>1. f - e \in Nat /\ f = e + (f - e) BY <1>16
    <2>2. QED BY <2>1
  <1>18. c * f = c * e + c * q BY <1>17, <1>0
  <1>19. PICK cq \in Nat : cq = c * q BY <1>0
  <1>20. d * (j + i + 1) = 2 * (c * q) BY <1>10, <1>11, <1>12, <1>13, <1>15, <1>18, <1>19
  <1>21. d + (j + i + 1) = 2 * j + 1 BY <1>8, <1>0
  <1>22. d < 2 * c /\ j + i + 1 < 2 * c /\ j + i + 1 \in Nat \ {0} /\ d \in Nat \ {0} /\ j \in Nat
    BY <1>8, <1>0
  <1>23. \E u \in Nat : d + (j + i + 1) = 2 * u + 1 BY <1>21, <1>22
  <1>24. PICK b \in Nat \ {0} : b = j + i + 1 BY <1>22
  <1>25. QED BY <1>20, <1>22, <1>23, <1>24, NoSmallProduct

\* A table of 2^n slots is probed completely.
LEMMA ProbesVisitAll ==
  ASSUME NEW c \in Powers, NEW k \in Keys, NEW x \in 0..(c - 1)
  PROVE  \E m \in 0..(c - 1) : Probe(c, k, m) = x
  <1>0. c \in Nat \ {0} BY PowersPositive
  <1> DEFINE f == [i \in 0..(c - 1) |-> Probe(c, k, i)]
  <1>1. f \in [0..(c - 1) -> 0..(c - 1)] BY <1>0, ProbeInRange
  <1>2. ASSUME NEW i \in 0..(c - 1), NEW j \in 0..(c - 1), f[i] = f[j] PROVE i = j
    <2>1. CASE i < j BY <2>1, <1>2, ProbesDiffer
    <2>2. CASE j < i BY <2>2, <1>2, ProbesDiffer
    <2>3. QED BY <2>1, <2>2, <1>0
  <1> HIDE DEF f
  <1>3. f \in Injection(0..(c - 1), 0..(c - 1)) BY <1>1, <1>2 DEF Injection, IsInjective
  <1>4. IsFiniteSet(0..(c - 1)) BY <1>0, FS_Interval
  <1>5. f \in Surjection(0..(c - 1), 0..(c - 1)) BY <1>3, <1>4, FS_Injection
  <1>6. \E m \in 0..(c - 1) : f[m] = x BY <1>5 DEF Surjection
  <1>7. QED BY <1>6 DEF f

\* FirstProbe is the first stop of the probe sequence, when there is any.
LEMMA FirstProbeFinds ==
  ASSUME NEW c \in Nat \ {0}, NEW k \in Keys, NEW stops, NEW l \in 0..(c - 1),
         Probe(c, k, l) \in stops,
         NEW i, i = FirstProbe(c, k, stops)
  PROVE  /\ i \in 0..(c - 1)
         /\ i \in stops
         /\ \E m \in 0..(c - 1) : /\ i = Probe(c, k, m)
                                  /\ \A n \in 0..(m - 1) : Probe(c, k, n) \notin stops
  <1> DEFINE hits == {m \in 0..(c - 1) : Probe(c, k, m) \in stops}
             First(m) == /\ Probe(c, k, m) \in stops
                         /\ \A n \in 0..(m - 1) : Probe(c, k, n) \notin stops
  <1>1. hits \in SUBSET Nat /\ hits # {} OBVIOUS
  <1>2. PICK m \in hits : \A n \in hits : m <= n
    <2> HIDE DEF hits
    <2>1. QED BY <1>1, LeastElement
  <1>3. m \in 0..(c - 1) /\ Probe(c, k, m) \in stops BY <1>2
  <1>4. ASSUME NEW n \in 0..(m - 1) PROVE Probe(c, k, n) \notin stops
    <2>1. n \in 0..(c - 1) /\ ~(m <= n) BY <1>3
    <2>2. n \notin hits BY <1>2, <2>1
    <2>3. QED BY <2>1, <2>2
  <1>5. First(m) BY <1>3, <1>4
  <1> DEFINE f == CHOOSE x \in 0..(c - 1) : First(x)
  <1>6. f \in 0..(c - 1) /\ First(f)
    <2> HIDE DEF First
    <2>1. QED BY <1>3, <1>5
  <1>7. i = Probe(c, k, f) BY DEF FirstProbe
  <1> HIDE DEF f
  <1>8. i \in 0..(c - 1) BY <1>6, <1>7, ProbeInRange
  <1>9. QED BY <1>6, <1>7, <1>8

\* It is -1 when there is none.
LEMMA FirstProbeMisses ==
  ASSUME NEW c \in Nat \ {0}, NEW k \in Keys, NEW stops,
         \A l \in 0..(c - 1) : Probe(c, k, l) \notin stops
  PROVE  FirstProbe(c, k, stops) = -1
  BY DEF FirstProbe

\* In a table of 2^n slots a stop is found when there is one.
LEMMA FirstProbeSucceeds ==
  ASSUME NEW c \in Powers, NEW k \in Keys, NEW stops, NEW x \in stops, x \in 0..(c - 1),
         NEW i, i = FirstProbe(c, k, stops)
  PROVE  /\ i \in 0..(c - 1)
         /\ i \in stops
         /\ \E m \in 0..(c - 1) : /\ i = Probe(c, k, m)
                                  /\ \A n \in 0..(m - 1) : Probe(c, k, n) \notin stops
  <1>1. c \in Nat \ {0} BY PowersPositive
  <1>2. PICK l \in 0..(c - 1) : Probe(c, k, l) = x BY ProbesVisitAll
  <1>3. Probe(c, k, l) \in stops BY <1>2
  <1>4. QED BY <1>1, <1>3, FirstProbeFinds
-----------------------------------------------------------------------------
(* The loops of the rehash.                                                 *)

\* The values of the loops' states; all are the slots they move entries in.
States(all) == [slot  : [all -> Keys \cup {EMPTY, TOMBSTONE}],
                done  : SUBSET Int,
                carry : Keys \cup {NoKey}]

LEMMA DisplaceType ==
  ASSUME NEW c \in Nat \ {0}, NEW all, NEW st \in States(all), st.carry \in Keys
  PROVE  Displace(c, st) \in States(all)
  <1> DEFINE stops == Free(st.slot) \cup (DOMAIN st.slot \ st.done)
  <1>1. PICK i : i = FirstProbe(c, st.carry, stops) OBVIOUS
  <1>2. i \in Int
    <2>1. CASE \E l \in 0..(c - 1) : Probe(c, st.carry, l) \in stops
      <3> HIDE DEF stops
      <3>1. i \in 0..(c - 1) BY <1>1, <2>1, FirstProbeFinds
      <3>2. QED BY <3>1
    <2>2. CASE ~ \E l \in 0..(c - 1) : Probe(c, st.carry, l) \in stops
      <3> HIDE DEF stops
      <3>1. i = -1 BY <1>1, <2>2, FirstProbeMisses
      <3>2. QED BY <3>1
    <2>3. QED BY <2>1, <2>2
  <1>3. Displace(c, st) = [slot  |-> [st.slot EXCEPT ![i] = st.carry],
                           done  |-> st.done \cup {i},
                           carry |-> IF st.slot[i] \in Keys THEN st.slot[i] ELSE NoKey]
    BY <1>1 DEF Displace
  <1>4. [st.slot EXCEPT ![i] = st.carry] \in [all -> Keys \cup {EMPTY, TOMBSTONE}] BY DEF States
  <1>5. st.done \cup {i} \in SUBSET Int BY <1>2 DEF States
  <1>6. QED BY <1>3, <1>4, <1>5 DEF States

DisplaceStep(c, st) == IF st.carry = NoKey THEN st ELSE Displace(c, st)

\* The rounds of DisplaceAll.
IsDisplacing(c, all, start, run) ==
  /\ run \in [Nat -> States(all)]
  /\ run[0] = start
  /\ \A n \in Nat : run[n + 1] = DisplaceStep(c, run[n])

LEMMA DisplaceAllLoop ==
  ASSUME NEW c \in Nat \ {0}, NEW all, NEW start \in States(all)
  PROVE  \E run : /\ IsDisplacing(c, all, start, run)
                  /\ DisplaceAll(c, start) = run[Cardinality(all)]
  <1> DEFINE F == [n \in Nat |-> [st \in States(all) |-> DisplaceStep(c, st)]]
             P(f) == f = [n \in Nat |->
                            IF n = 0 THEN start
                            ELSE IF f[n - 1].carry = NoKey THEN f[n - 1] ELSE Displace(c, f[n - 1])]
  <1>1. ASSUME NEW st \in States(all) PROVE DisplaceStep(c, st) \in States(all)
    <2>1. CASE st.carry = NoKey BY <2>1 DEF DisplaceStep
    <2>2. CASE st.carry # NoKey
      <3>1. st.carry \in Keys BY <2>2 DEF States
      <3>2. QED BY <2>2, <3>1, DisplaceType DEF DisplaceStep
    <2>3. QED BY <2>1, <2>2
  <1>2. Steps(States(all), F) BY <1>1 DEF Steps
  <1>3. PICK f : IsLoop(States(all), start, F, f)
    <2> HIDE DEF F
    <2>1. QED BY <1>2, LoopExists
  <1>4. P(f)
    <2>1. f \in [Nat -> States(all)] /\ f[0] = start BY <1>3 DEF IsLoop
    <2>2. ASSUME NEW n \in Nat, n # 0 PROVE f[n] = DisplaceStep(c, f[n - 1])
      <3>1. n - 1 \in Nat /\ (n - 1) + 1 = n BY <2>2
      <3>2. f[(n - 1) + 1] = F[n - 1][f[n - 1]] BY <1>3, <3>1 DEF IsLoop
      <3>3. f[n - 1] \in States(all) BY <2>1, <3>1
      <3>4. F[n - 1][f[n - 1]] = DisplaceStep(c, f[n - 1]) BY <3>1, <3>3
      <3> HIDE DEF F
      <3>5. QED BY <3>1, <3>2, <3>4
    <2> HIDE DEF F
    <2>3. \A n \in Nat : f[n] = IF n = 0 THEN start
                                ELSE IF f[n - 1].carry = NoKey THEN f[n - 1] ELSE Displace(c, f[n - 1])
      BY <2>1, <2>2 DEF DisplaceStep
    <2>4. QED BY <2>1, <2>3
  <1> DEFINE run == CHOOSE g : P(g)
  <1>5. P(run) BY <1>4
  <1>6. DisplaceAll(c, start) = run[Cardinality(all)]
    <2>1. DOMAIN start.slot = all BY DEF States
    <2>2. DisplaceAll(c, start) = run[Cardinality(DOMAIN start.slot)] BY DEF DisplaceAll
    <2>3. QED BY <2>1, <2>2
  <1> HIDE DEF run
  <1>7. run[0] = start BY <1>5
  <1>8. \A n \in Nat : run[n + 1] = DisplaceStep(c, run[n]) BY <1>5 DEF DisplaceStep
  <1>9. run \in [Nat -> States(all)]
    <2> DEFINE T == {n \in Nat : run[n] \in States(all)}
    <2>1. 0 \in T BY <1>7
    <2>2. \A n \in Nat : n \in T => n + 1 \in T BY <1>1, <1>8
    <2> HIDE DEF T
    <2>3. Nat \subseteq T BY <2>1, <2>2, SetInduction
    <2>4. \A n \in Nat : run[n] \in States(all) BY <2>3 DEF T
    <2>5. run = [n \in Nat |-> run[n]] BY <1>5
    <2>6. QED BY <2>4, <2>5
  <1>10. IsDisplacing(c, all, start, run) BY <1>7, <1>8, <1>9 DEF IsDisplacing
  <1>11. QED BY <1>6, <1>10

\* The keys of a table, and that none is in two slots.
KeysIn(s) == {s[i] : i \in DOMAIN s \ Free(s)}

KeysOnce(s) == \A i, j \in DOMAIN s \ Free(s) : s[i] = s[j] => i = j

\* A rehash to capacity c among the slots all, of keys that fit.
Room(c, all, K) == /\ c \in Powers
                   /\ IsFiniteSet(all) /\ 0..(c - 1) \subseteq all
                   /\ IsFiniteSet(K) /\ Cardinality(K) <= c

\* What holds in every round of a rehash to capacity c of slots with the keys K: each
\* key is in one slot, or carried; a slot that is done holds a key that a probe finds
\* there, because all slots that the probe passes are done; the slots X are settled.
RehashInv(c, all, K, X, st) ==
  /\ st \in States(all)
  /\ KeysOnce(st.slot)
  /\ st.carry \notin KeysIn(st.slot)
  /\ K = KeysIn(st.slot) \cup ({st.carry} \ {NoKey})
  /\ st.done \subseteq (0..(c - 1)) \ Free(st.slot)
  /\ \A j \in st.done : \E m \in 0..(c - 1) :
       /\ Probe(c, st.slot[j], m) = j
       /\ \A n \in 0..(m - 1) : Probe(c, st.slot[j], n) \in st.done
  /\ X \subseteq all /\ \A x \in X : st.slot[x] = EMPTY \/ x \in st.done

\* A table of c slots that has room for the carried key has a slot to take it.
LEMMA StopExists ==
  ASSUME NEW c, NEW all, NEW K, Room(c, all, K), NEW X,
         NEW st, RehashInv(c, all, K, X, st), st.carry \in Keys
  PROVE  \E x \in 0..(c - 1) : /\ x \notin st.done
                              /\ x \in Free(st.slot) \cup (DOMAIN st.slot \ st.done)
  <1>00. /\ c \in Powers /\ IsFiniteSet(all) /\ 0..(c - 1) \subseteq all
         /\ IsFiniteSet(K) /\ Cardinality(K) <= c
    BY DEF Room
  <1> USE <1>00
  <1>0. c \in Nat \ {0} BY PowersPositive
  <1>1. DOMAIN st.slot = all BY DEF RehashInv, States
  <1>2. SUFFICES ASSUME \A x \in 0..(c - 1) : x \in st.done PROVE FALSE
    BY <1>1
  <1>3. st.carry \in K BY ReservedAssumption DEF RehashInv
  <1>4. IsFiniteSet(K \ {st.carry}) /\ Cardinality(K \ {st.carry}) = Cardinality(K) - 1
    BY <1>3, FS_RemoveElement
  <1>5. Cardinality(K) \in Nat BY FS_CardinalityType
  <1>6. IsFiniteSet(0..(c - 1)) /\ Cardinality(0..(c - 1)) = c
    <2>1. 0 \in Int /\ c - 1 \in Int /\ ~(0 > c - 1) /\ (c - 1) - 0 + 1 = c BY <1>0
    <2>2. QED BY <2>1, FS_Interval
  <1> DEFINE f == [x \in 0..(c - 1) |-> st.slot[x]]
  <1>7. ASSUME NEW x \in 0..(c - 1) PROVE f[x] \in K \ {st.carry} /\ x \in DOMAIN st.slot \ Free(st.slot)
    <2>1. x \in DOMAIN st.slot \ Free(st.slot) BY <1>1, <1>2 DEF RehashInv
    <2>2. st.slot[x] \in KeysIn(st.slot) BY <2>1 DEF KeysIn
    <2>3. QED BY <2>1, <2>2 DEF RehashInv
  <1>8. f \in [0..(c - 1) -> K \ {st.carry}] BY <1>7
  <1>9. \A x, y \in 0..(c - 1) : f[x] = f[y] => x = y BY <1>7 DEF RehashInv, KeysOnce
  <1> HIDE DEF f
  <1>10. Cardinality(K \ {st.carry}) < Cardinality(0..(c - 1)) BY <1>0, <1>4, <1>5, <1>6
  <1>11. \E x, y \in 0..(c - 1) : x # y /\ f[x] = f[y]
    <2> DEFINE A == 0..(c - 1)
               B == K \ {st.carry}
    <2>1. IsFiniteSet(A) /\ IsFiniteSet(B) /\ Cardinality(B) < Cardinality(A) /\ f \in [A -> B]
      BY <1>4, <1>6, <1>8, <1>10
    <2> HIDE DEF A, B
    <2>2. \E x, y \in A : x # y /\ f[x] = f[y] BY <2>1, FS_PigeonHole, ZenonT(40)
    <2>3. QED BY <2>2 DEF A
  <1>12. QED BY <1>9, <1>11

\* One round puts the carried key where a probe finds it, and it is done for good.
LEMMA DisplaceKeepsInv ==
  ASSUME NEW c, NEW all, NEW K, Room(c, all, K), NEW X,
         NEW st, RehashInv(c, all, K, X, st), st.carry \in Keys,
         NEW next, next = Displace(c, st)
  PROVE  /\ RehashInv(c, all, K, X, next)
         /\ \E i \in 0..(c - 1) : i \notin st.done /\ next.done = st.done \cup {i}
  <1>00. /\ c \in Powers /\ IsFiniteSet(all) /\ 0..(c - 1) \subseteq all
         /\ IsFiniteSet(K) /\ Cardinality(K) <= c
    BY DEF Room
  <1> USE <1>00
  <1>0. c \in Nat \ {0} BY PowersPositive
  <1>1. DOMAIN st.slot = all /\ st \in States(all) BY DEF RehashInv, States
  <1> DEFINE stops == Free(st.slot) \cup (DOMAIN st.slot \ st.done)
  <1>2. PICK x \in 0..(c - 1) : x \in stops BY StopExists
  <1>3. PICK i : i = FirstProbe(c, st.carry, stops) OBVIOUS
  <1>4. /\ i \in 0..(c - 1)
        /\ i \in stops
        /\ \E m \in 0..(c - 1) : /\ i = Probe(c, st.carry, m)
                                 /\ \A n \in 0..(m - 1) : Probe(c, st.carry, n) \notin stops
    <2> HIDE DEF stops
    <2>1. QED BY <1>2, <1>3, FirstProbeSucceeds
  <1>5. next = [slot  |-> [st.slot EXCEPT ![i] = st.carry],
                done  |-> st.done \cup {i},
                carry |-> IF st.slot[i] \in Keys THEN st.slot[i] ELSE NoKey]
    BY <1>3 DEF Displace
  <1>6. i \in all BY <1>4
  <1>7. next.done = st.done \cup {i} /\ i \notin st.done
    BY <1>1, <1>4, <1>5 DEF RehashInv, Free
  <1>8. /\ DOMAIN next.slot = all
        /\ \A y \in all : next.slot[y] = IF y = i THEN st.carry ELSE st.slot[y]
    BY <1>1, <1>5
  <1>9. next.carry = IF st.slot[i] \in Keys THEN st.slot[i] ELSE NoKey BY <1>5
  <1>10. next \in States(all) BY <1>0, <1>1, DisplaceType
  <1> HIDE DEF stops
  <1>11. \A y \in all : /\ y \in DOMAIN st.slot \ Free(st.slot) <=> st.slot[y] \in Keys
                        /\ y \in DOMAIN next.slot \ Free(next.slot) <=> y = i \/ st.slot[y] \in Keys
    BY <1>1, <1>8 DEF Free
  <1>12. KeysOnce(next.slot)
    <2> SUFFICES ASSUME NEW y \in all, NEW z \in all, next.slot[y] = next.slot[z], y # z,
                        y = i \/ st.slot[y] \in Keys, z = i \/ st.slot[z] \in Keys
                 PROVE  FALSE
      BY <1>8, <1>11 DEF KeysOnce
    <2>1. ASSUME NEW w \in all, st.slot[w] \in Keys PROVE st.slot[w] # st.carry
      BY <2>1, <1>11 DEF RehashInv, KeysIn
    <2>2. CASE y = i BY <2>1, <2>2, <1>8
    <2>3. CASE z = i BY <2>1, <2>3, <1>8
    <2>4. CASE y # i /\ z # i BY <2>4, <1>8, <1>11 DEF RehashInv, KeysOnce
    <2>5. QED BY <2>2, <2>3, <2>4
  <1>13. KeysIn(st.slot) = {st.slot[y] : y \in {z \in all : st.slot[z] \in Keys}}
    BY <1>1, <1>11 DEF KeysIn
  <1>14. KeysIn(next.slot) = {st.carry} \cup {st.slot[y] : y \in {z \in all \ {i} : st.slot[z] \in Keys}}
    <2>1. ASSUME NEW k \in KeysIn(next.slot)
          PROVE  k \in {st.carry} \cup {st.slot[y] : y \in {z \in all \ {i} : st.slot[z] \in Keys}}
      <3>1. PICK y \in DOMAIN next.slot \ Free(next.slot) : k = next.slot[y] BY DEF KeysIn
      <3>2. QED BY <3>1, <1>8, <1>11
    <2>2. ASSUME NEW y \in all, y # i, st.slot[y] \in Keys PROVE st.slot[y] \in KeysIn(next.slot)
      BY <2>2, <1>8, <1>11 DEF KeysIn
    <2>3. st.carry \in KeysIn(next.slot) BY <1>6, <1>8, <1>11 DEF KeysIn
    <2>4. QED BY <2>1, <2>2, <2>3
  <1>15. K = KeysIn(st.slot) \cup {st.carry} BY ReservedAssumption DEF RehashInv
  <1>16. /\ next.carry \notin KeysIn(next.slot)
         /\ K = KeysIn(next.slot) \cup ({next.carry} \ {NoKey})
    <2>1. CASE st.slot[i] \in Keys
      <3>1. next.carry = st.slot[i] /\ next.carry # NoKey BY <2>1, <1>9, ReservedAssumption
      <3>2. st.slot[i] \in KeysIn(st.slot) BY <2>1, <1>6, <1>13
      <3>3. st.slot[i] # st.carry BY <3>2 DEF RehashInv
      <3>4. \A y \in all \ {i} : st.slot[y] \in Keys => st.slot[y] # st.slot[i]
        BY <2>1, <1>6, <1>11, <1>1 DEF RehashInv, KeysOnce
      <3>5. next.carry \notin KeysIn(next.slot) BY <3>1, <3>3, <3>4, <1>14
      <3>6. KeysIn(st.slot) = {st.slot[i]} \cup {st.slot[y] : y \in {z \in all \ {i} : st.slot[z] \in Keys}}
        BY <2>1, <1>6, <1>13
      <3>7. QED BY <3>1, <3>5, <3>6, <1>14, <1>15
    <2>2. CASE st.slot[i] \notin Keys
      <3>1. next.carry = NoKey BY <2>2, <1>9
      <3>2. KeysIn(next.slot) \subseteq Keys BY <1>14
      <3>3. KeysIn(st.slot) = {st.slot[y] : y \in {z \in all \ {i} : st.slot[z] \in Keys}}
        BY <2>2, <1>13
      <3>4. QED BY <3>1, <3>2, <3>3, <1>14, <1>15, ReservedAssumption
    <2>3. QED BY <2>1, <2>2
  <1>17. next.done \subseteq (0..(c - 1)) \ Free(next.slot)
    <2> SUFFICES ASSUME NEW j \in next.done PROVE j \in 0..(c - 1) /\ j \notin Free(next.slot) OBVIOUS
    <2>1. CASE j = i BY <2>1, <1>4, <1>6, <1>11
    <2>2. CASE j # i
      <3>1. j \in 0..(c - 1) /\ j \notin Free(st.slot) BY <2>2, <1>7 DEF RehashInv
      <3>2. j \in all BY <3>1
      <3>3. QED BY <3>1, <3>2, <1>1, <1>11
    <2>3. QED BY <2>1, <2>2
  <1>18. ASSUME NEW j \in next.done
         PROVE  \E m \in 0..(c - 1) : /\ Probe(c, next.slot[j], m) = j
                                      /\ \A n \in 0..(m - 1) : Probe(c, next.slot[j], n) \in next.done
    <2>1. CASE j = i
      <3>1. next.slot[j] = st.carry BY <2>1, <1>6, <1>8
      <3>2. PICK m \in 0..(c - 1) : /\ i = Probe(c, st.carry, m)
                                    /\ \A n \in 0..(m - 1) : Probe(c, st.carry, n) \notin stops
        BY <1>4
      <3>3. ASSUME NEW n \in 0..(m - 1) PROVE Probe(c, st.carry, n) \in next.done
        <4>1. Probe(c, st.carry, n) \in 0..(c - 1) BY <1>0, ProbeInRange
        <4>2. Probe(c, st.carry, n) \in DOMAIN st.slot BY <4>1, <1>1
        <4>3. Probe(c, st.carry, n) \in st.done BY <4>2, <3>2 DEF stops
        <4>4. QED BY <4>3, <1>7
      <3>4. QED BY <2>1, <3>1, <3>2, <3>3
    <2>2. CASE j # i
      <3>1. j \in st.done /\ j \in all BY <2>2, <1>7 DEF RehashInv
      <3>2. next.slot[j] = st.slot[j] BY <2>2, <3>1, <1>8
      <3>3. PICK m \in 0..(c - 1) : /\ Probe(c, st.slot[j], m) = j
                                    /\ \A n \in 0..(m - 1) : Probe(c, st.slot[j], n) \in st.done
        BY <3>1 DEF RehashInv
      <3>4. QED BY <3>2, <3>3, <1>7
    <2>3. QED BY <2>1, <2>2
  <1>19. ASSUME NEW y \in X PROVE next.slot[y] = EMPTY \/ y \in next.done
    <2>1. y \in all /\ (st.slot[y] = EMPTY \/ y \in st.done) BY DEF RehashInv
    <2>2. QED BY <2>1, <1>7, <1>8
  <1>20. RehashInv(c, all, K, X, next)
    BY <1>10, <1>12, <1>16, <1>17, <1>18, <1>19 DEF RehashInv
  <1>21. QED BY <1>4, <1>7, <1>20

\* DisplaceAll finds a place for every key: each round is done with one more slot, so the
\* code's loop ends within as many rounds as there are slots.
LEMMA DisplaceAllSettles ==
  ASSUME NEW c, NEW all, NEW K, Room(c, all, K), NEW X,
         NEW start, RehashInv(c, all, K, X, start),
         NEW result, result = DisplaceAll(c, start)
  PROVE  RehashInv(c, all, K, X, result) /\ result.carry = NoKey
  <1>00. /\ c \in Powers /\ IsFiniteSet(all) /\ 0..(c - 1) \subseteq all
         /\ IsFiniteSet(K) /\ Cardinality(K) <= c
    BY DEF Room
  <1> USE <1>00
  <1>0. c \in Nat \ {0} BY PowersPositive
  <1>1. start \in States(all) BY DEF RehashInv
  <1>2. PICK run : IsDisplacing(c, all, start, run) /\ DisplaceAll(c, start) = run[Cardinality(all)]
    BY <1>0, <1>1, DisplaceAllLoop
  <1>3. ASSUME NEW st, RehashInv(c, all, K, X, st)
        PROVE  IsFiniteSet(st.done) /\ Cardinality(st.done) \in Nat
    <2>1. st.done \subseteq all BY <1>3 DEF RehashInv
    <2>2. IsFiniteSet(st.done) BY <2>1, FS_Subset
    <2>3. QED BY <2>2, FS_CardinalityType
  <1> DEFINE Good(n) == /\ RehashInv(c, all, K, X, run[n])
                        /\ run[n].carry = NoKey \/ Cardinality(run[n].done) >= n
             T == {n \in Nat : Good(n)}
  <1>4. 0 \in T
    <2>1. run[0] = start BY <1>2 DEF IsDisplacing
    <2>2. Cardinality(start.done) >= 0 BY <1>3
    <2>3. QED BY <2>1, <2>2
  <1>5. ASSUME NEW n \in Nat, n \in T PROVE n + 1 \in T
    <2>1. run[n + 1] = DisplaceStep(c, run[n]) BY <1>2 DEF IsDisplacing
    <2>2. CASE run[n].carry = NoKey
      <3>1. run[n + 1] = run[n] BY <2>1, <2>2 DEF DisplaceStep
      <3>2. QED BY <3>1, <2>2, <1>5
    <2>3. CASE run[n].carry # NoKey
      <3>1. RehashInv(c, all, K, X, run[n]) /\ Cardinality(run[n].done) >= n BY <2>3, <1>5
      <3>2. run[n].carry \in Keys BY <2>3, <3>1 DEF RehashInv, States
      <3>3. run[n + 1] = Displace(c, run[n]) BY <2>1, <2>3 DEF DisplaceStep
      <3>4. /\ RehashInv(c, all, K, X, run[n + 1])
            /\ \E i \in 0..(c - 1) : i \notin run[n].done /\ run[n + 1].done = run[n].done \cup {i}
        <4>1. PICK st, next : st = run[n] /\ next = run[n + 1] OBVIOUS
        <4>2. RehashInv(c, all, K, X, st) /\ st.carry \in Keys /\ next = Displace(c, st)
          BY <3>1, <3>2, <3>3, <4>1
        <4>3. /\ RehashInv(c, all, K, X, next)
              /\ \E i \in 0..(c - 1) : i \notin st.done /\ next.done = st.done \cup {i}
          BY <4>2, DisplaceKeepsInv
        <4>4. QED BY <4>1, <4>3
      <3>5. Cardinality(run[n + 1].done) = Cardinality(run[n].done) + 1
        BY <3>1, <3>4, <1>3, FS_AddElement
      <3>6. Cardinality(run[n].done) \in Nat BY <3>1, <1>3
      <3>7. Cardinality(run[n + 1].done) >= n + 1 BY <3>1, <3>5, <3>6
      <3>8. Good(n + 1) BY <3>4, <3>7
      <3>9. QED BY <3>8
    <2>4. QED BY <2>2, <2>3
  <1> HIDE DEF T
  <1>6. Nat \subseteq T BY <1>4, <1>5, SetInduction
  <1>7. Cardinality(all) \in Nat BY FS_CardinalityType
  <1>8. Good(Cardinality(all)) BY <1>6, <1>7 DEF T
  <1>9. RehashInv(c, all, K, X, result) BY <1>2, <1>8
  <1>10. result.carry = NoKey
    <2>1. SUFFICES ASSUME result.carry # NoKey PROVE FALSE OBVIOUS
    <2>2. Cardinality(result.done) >= Cardinality(all) BY <2>1, <1>2, <1>8
    <2>3. result.carry \in Keys BY <2>1, <1>9 DEF RehashInv, States
    <2>4. PICK x \in 0..(c - 1) : x \notin result.done BY <2>3, <1>9, StopExists
    <2>5. result.done \subseteq all BY <1>9 DEF RehashInv
    <2>6. /\ Cardinality(result.done) <= Cardinality(all)
          /\ Cardinality(all) = Cardinality(result.done) => all = result.done
      BY <2>5, FS_Subset
    <2>7. all = result.done BY <2>2, <2>6, <1>3, <1>7, <1>9
    <2>8. QED BY <2>4, <2>7
  <1>11. QED BY <1>9, <1>10

\* One round of the outer loop settles its slot.
LEMMA RehashSlotSettles ==
  ASSUME NEW c, NEW all, NEW K, Room(c, all, K), NEW X,
         NEW st, RehashInv(c, all, K, X, st), st.carry = NoKey,
         NEW i \in all, i \in Nat, NEW Y, Y = X \cup {i},
         NEW next, next = RehashSlot(c, st, i)
  PROVE  RehashInv(c, all, K, Y, next) /\ next.carry = NoKey
  <1>00. /\ c \in Powers /\ IsFiniteSet(all) /\ 0..(c - 1) \subseteq all
         /\ IsFiniteSet(K) /\ Cardinality(K) <= c
    BY DEF Room
  <1> USE <1>00
  <1>0. c \in Nat \ {0} BY PowersPositive
  <1>1. DOMAIN st.slot = all /\ st \in States(all) BY DEF RehashInv, States
  <1>2. KeysIn(st.slot) \subseteq Keys BY DEF KeysIn, Free
  <1>3. K = KeysIn(st.slot) BY DEF RehashInv
  <1> DEFINE emptied == [st.slot EXCEPT ![i] = EMPTY]
  <1>4. /\ DOMAIN emptied = all
        /\ emptied \in [all -> Keys \cup {EMPTY, TOMBSTONE}]
        /\ \A y \in all : emptied[y] = IF y = i THEN EMPTY ELSE st.slot[y]
    BY <1>1 DEF States
  <1> HIDE DEF emptied
  <1>5. \A y \in all : /\ y \in DOMAIN st.slot \ Free(st.slot) <=> st.slot[y] \in Keys
                       /\ y \in DOMAIN emptied \ Free(emptied) <=> y # i /\ st.slot[y] \in Keys
    BY <1>1, <1>4, ReservedAssumption DEF Free
  <1>6. KeysOnce(emptied) BY <1>1, <1>4, <1>5 DEF KeysOnce, RehashInv
  <1>7. KeysIn(st.slot) = {st.slot[y] : y \in {z \in all : st.slot[z] \in Keys}}
    BY <1>1, <1>5 DEF KeysIn
  <1>8. KeysIn(emptied) = {st.slot[y] : y \in {z \in all \ {i} : st.slot[z] \in Keys}}
    BY <1>4, <1>5 DEF KeysIn
  <1>9. ASSUME i \notin st.done, NEW empty \in States(all), empty.slot = emptied, empty.done = st.done,
               empty.carry = IF st.slot[i] \in Keys THEN st.slot[i] ELSE NoKey
        PROVE  RehashInv(c, all, K, Y, empty)
    <2>1. /\ empty.carry \notin KeysIn(emptied)
          /\ K = KeysIn(emptied) \cup ({empty.carry} \ {NoKey})
      <3>1. CASE st.slot[i] \in Keys
        <4>1. empty.carry = st.slot[i] /\ empty.carry # NoKey BY <3>1, <1>9, ReservedAssumption
        <4>2. \A y \in all \ {i} : st.slot[y] \in Keys => st.slot[y] # st.slot[i]
          BY <3>1, <1>1, <1>5 DEF RehashInv, KeysOnce
        <4>3. K = {st.slot[i]} \cup KeysIn(emptied) BY <3>1, <1>3, <1>7, <1>8
        <4>4. QED BY <4>1, <4>2, <4>3, <1>8
      <3>2. CASE st.slot[i] \notin Keys
        <4>1. empty.carry = NoKey BY <3>2, <1>9
        <4>2. KeysIn(emptied) = KeysIn(st.slot) BY <3>2, <1>7, <1>8
        <4>3. QED BY <4>1, <4>2, <1>2, <1>3, ReservedAssumption
      <3>3. QED BY <3>1, <3>2
    <2>2. ASSUME NEW j \in st.done PROVE j # i /\ j \in all /\ emptied[j] = st.slot[j] /\ st.slot[j] \in Keys
      <3>1. j # i BY <1>9
      <3>2. j \in all /\ j \notin Free(st.slot) BY DEF RehashInv
      <3>3. QED BY <3>1, <3>2, <1>1, <1>4 DEF Free
    <2>3. empty.done \subseteq (0..(c - 1)) \ Free(emptied)
      BY <2>2, <1>5, <1>9, <1>4 DEF RehashInv
    <2>4. \A j \in empty.done : \E m \in 0..(c - 1) :
            /\ Probe(c, empty.slot[j], m) = j
            /\ \A n \in 0..(m - 1) : Probe(c, empty.slot[j], n) \in empty.done
      BY <2>2, <1>9 DEF RehashInv
    <2>5. \A x \in Y : empty.slot[x] = EMPTY \/ x \in empty.done
      BY <1>4, <1>9 DEF RehashInv
    <2>6. QED BY <2>1, <2>3, <2>4, <2>5, <1>6, <1>9 DEF RehashInv
  <1>10. CASE st.slot[i] \notin Keys
    <2>1. next = [st EXCEPT !.slot[i] = EMPTY] BY <1>10 DEF RehashSlot
    <2>2. next.slot = emptied /\ next.done = st.done /\ next.carry = NoKey /\ next \in States(all)
      BY <2>1, <1>1, <1>4 DEF emptied, States
    <2>3. i \notin st.done BY <1>10, <1>1 DEF RehashInv, Free
    <2>4. QED BY <2>2, <2>3, <1>9, <1>10
  <1>11. CASE st.slot[i] \in Keys /\ i \in st.done
    <2>1. next = st BY <1>11 DEF RehashSlot
    <2>2. QED BY <2>1, <1>11 DEF RehashInv
  <1>12. CASE st.slot[i] \in Keys /\ i \notin st.done /\ HashToIndex(c, st.slot[i]) = i
    <2>1. next = [st EXCEPT !.done = @ \cup {i}] BY <1>12 DEF RehashSlot
    <2>2. next.slot = st.slot /\ next.done = st.done \cup {i} /\ next.carry = NoKey
      BY <2>1, <1>1 DEF States
    <2>3. next \in States(all) BY <2>1, <1>1 DEF States
    <2>4. i \in (0..(c - 1)) \ Free(st.slot) BY <1>0, <1>12, ProbeInRange DEF Free
    <2>5. Probe(c, st.slot[i], 0) = i BY <1>0, <1>12, ProbeInRange
    <2>6. ASSUME NEW j \in next.done
          PROVE  \E m \in 0..(c - 1) : /\ Probe(c, next.slot[j], m) = j
                                       /\ \A n \in 0..(m - 1) : Probe(c, next.slot[j], n) \in next.done
      <3>1. CASE j = i
        <4>1. 0 \in 0..(c - 1) /\ 0..(0 - 1) = {} BY <1>0
        <4>2. QED BY <3>1, <4>1, <2>2, <2>5
      <3>2. CASE j # i
        <4>1. PICK m \in 0..(c - 1) : /\ Probe(c, st.slot[j], m) = j
                                      /\ \A n \in 0..(m - 1) : Probe(c, st.slot[j], n) \in st.done
          BY <3>2, <2>2 DEF RehashInv
        <4>2. QED BY <4>1, <2>2
      <3>3. QED BY <3>1, <3>2
    <2>7. \A x \in Y : next.slot[x] = EMPTY \/ x \in next.done BY <2>2 DEF RehashInv
    <2>8. QED BY <2>2, <2>3, <2>4, <2>6, <2>7 DEF RehashInv
  <1>13. CASE st.slot[i] \in Keys /\ i \notin st.done /\ HashToIndex(c, st.slot[i]) # i
    <2>1. PICK start : start = [st EXCEPT !.slot[i] = EMPTY, !.carry = st.slot[i]] OBVIOUS
    <2>2. next = DisplaceAll(c, start) BY <2>1, <1>13 DEF RehashSlot
    <2>3. start.slot = emptied /\ start.done = st.done /\ start.carry = st.slot[i]
      BY <2>1, <1>1 DEF emptied, States
    <2>4. start \in States(all) BY <2>1, <1>1, <1>4, <1>13 DEF emptied, States
    <2>5. RehashInv(c, all, K, Y, start) BY <2>3, <2>4, <1>9, <1>13
    <2>6. QED BY <2>2, <2>5, DisplaceAllSettles
  <1>14. QED BY <1>10, <1>11, <1>12, <1>13

LEMMA RehashSlotType ==
  ASSUME NEW c \in Nat \ {0}, NEW all, IsFiniteSet(all), NEW st \in States(all), NEW i \in Int
  PROVE  RehashSlot(c, st, i) \in States(all)
  <1> DEFINE emptied == [st.slot EXCEPT ![i] = EMPTY]
  <1>1. emptied \in [all -> Keys \cup {EMPTY, TOMBSTONE}] BY DEF States
  <1>2. CASE st.slot[i] \notin Keys
    <2>1. [st EXCEPT !.slot[i] = EMPTY] = [st EXCEPT !.slot = emptied] BY DEF States
    <2>2. [st EXCEPT !.slot = emptied] \in States(all) BY <1>1 DEF States
    <2>3. QED BY <2>1, <2>2, <1>2 DEF RehashSlot
  <1>3. CASE st.slot[i] \in Keys /\ i \in st.done BY <1>3 DEF RehashSlot
  <1>4. CASE st.slot[i] \in Keys /\ i \notin st.done /\ HashToIndex(c, st.slot[i]) = i
    <2>1. [st EXCEPT !.done = @ \cup {i}] \in States(all) BY DEF States
    <2>2. QED BY <2>1, <1>4 DEF RehashSlot
  <1>5. CASE st.slot[i] \in Keys /\ i \notin st.done /\ HashToIndex(c, st.slot[i]) # i
    <2>1. PICK start : start = [st EXCEPT !.slot[i] = EMPTY, !.carry = st.slot[i]] OBVIOUS
    <2>2. start = [st EXCEPT !.slot = emptied, !.carry = st.slot[i]] BY <2>1 DEF States
    <2>3. start \in States(all) BY <2>2, <1>1, <1>5 DEF States
    <2>4. PICK run : /\ IsDisplacing(c, all, start, run)
                     /\ DisplaceAll(c, start) = run[Cardinality(all)]
      BY <2>3, DisplaceAllLoop
    <2>5. Cardinality(all) \in Nat BY FS_CardinalityType
    <2>6. DisplaceAll(c, start) \in States(all) BY <2>4, <2>5 DEF IsDisplacing
    <2>7. RehashSlot(c, st, i) = DisplaceAll(c, start) BY <2>1, <1>5 DEF RehashSlot
    <2>8. QED BY <2>6, <2>7
  <1>6. QED BY <1>2, <1>3, <1>4, <1>5

\* The rounds of Rehash, which starts with the old slots and the new ones empty.
RehashStart(s, old, all) == [slot  |-> [i \in all |-> IF i < old THEN s[i] ELSE EMPTY],
                             done  |-> {},
                             carry |-> NoKey]

IsRehashing(c, all, start, run) ==
  /\ run \in [Nat -> States(all)]
  /\ run[0] = start
  /\ \A n \in Nat : run[n + 1] = RehashSlot(c, run[n], n)

LEMMA RehashLoop ==
  ASSUME NEW c \in Nat \ {0}, NEW old \in Nat \ {0}, NEW s,
         NEW all, all = Indices(IF c > old THEN c ELSE old), IsFiniteSet(all),
         NEW start, start = RehashStart(s, old, all), start \in States(all)
  PROVE  \E run : /\ IsRehashing(c, all, start, run)
                  /\ Rehash(s, old, c) = [i \in Indices(c) |-> run[old].slot[i]]
  <1> DEFINE F == [n \in Nat |-> [st \in States(all) |-> RehashSlot(c, st, n)]]
             P(f) == f = [n \in Nat |->
                            IF n = 0
                            THEN [slot  |-> [i \in all |-> IF i < old THEN s[i] ELSE EMPTY],
                                  done  |-> {},
                                  carry |-> NoKey]
                            ELSE RehashSlot(c, f[n - 1], n - 1)]
  <1>1. Steps(States(all), F) BY RehashSlotType DEF Steps
  <1>2. PICK f : IsLoop(States(all), start, F, f)
    <2> HIDE DEF F
    <2>1. QED BY <1>1, LoopExists
  <1>3. P(f)
    <2>1. f \in [Nat -> States(all)] /\ f[0] = start BY <1>2 DEF IsLoop
    <2>2. ASSUME NEW n \in Nat, n # 0 PROVE f[n] = RehashSlot(c, f[n - 1], n - 1)
      <3>1. n - 1 \in Nat /\ (n - 1) + 1 = n BY <2>2
      <3>2. f[(n - 1) + 1] = F[n - 1][f[n - 1]] BY <1>2, <3>1 DEF IsLoop
      <3>3. f[n - 1] \in States(all) BY <2>1, <3>1
      <3>4. F[n - 1][f[n - 1]] = RehashSlot(c, f[n - 1], n - 1) BY <3>1, <3>3
      <3> HIDE DEF F
      <3>5. QED BY <3>1, <3>2, <3>4
    <2> HIDE DEF F
    <2>3. \A n \in Nat : f[n] = IF n = 0 THEN start ELSE RehashSlot(c, f[n - 1], n - 1)
      BY <2>1, <2>2
    <2>4. QED BY <2>1, <2>3 DEF RehashStart
  <1> DEFINE run == CHOOSE g : P(g)
  <1>4. P(run) BY <1>3
  <1>5. Rehash(s, old, c) = [i \in Indices(c) |-> run[old].slot[i]] BY DEF Rehash
  <1> HIDE DEF run
  <1>6. run[0] = start BY <1>4 DEF RehashStart
  <1>7. \A n \in Nat : run[n + 1] = RehashSlot(c, run[n], n)
    <2> TAKE n \in Nat
    <2>1. n + 1 \in Nat /\ n + 1 # 0 /\ (n + 1) - 1 = n OBVIOUS
    <2>2. run[n + 1] = RehashSlot(c, run[(n + 1) - 1], (n + 1) - 1) BY <1>4, <2>1
    <2>3. QED BY <2>1, <2>2
  <1>8. run \in [Nat -> States(all)]
    <2> DEFINE T == {n \in Nat : run[n] \in States(all)}
    <2>1. 0 \in T BY <1>6
    <2>2. \A n \in Nat : n \in T => n + 1 \in T BY <1>7, RehashSlotType
    <2> HIDE DEF T
    <2>3. Nat \subseteq T BY <2>1, <2>2, SetInduction
    <2>4. \A n \in Nat : run[n] \in States(all) BY <2>3 DEF T
    <2>5. run = [n \in Nat |-> run[n]] BY <1>4
    <2>6. QED BY <2>4, <2>5
  <1>9. IsRehashing(c, all, start, run) BY <1>6, <1>7, <1>8 DEF IsRehashing
  <1>10. QED BY <1>5, <1>9

\* A table in which no key is twice holds as many keys as slots with keys.
LEMMA KeysCount ==
  ASSUME NEW s, IsFiniteSet(DOMAIN s), KeysOnce(s)
  PROVE  /\ IsFiniteSet(KeysIn(s))
         /\ Cardinality(KeysIn(s)) = Cardinality(DOMAIN s \ Free(s))
         /\ Cardinality(KeysIn(s)) \in Nat
  <1> DEFINE D == DOMAIN s \ Free(s)
             f == [i \in D |-> s[i]]
  <1>1. IsFiniteSet(D)
    <2>1. D \subseteq DOMAIN s OBVIOUS
    <2> HIDE DEF D
    <2>2. QED BY <2>1, FS_Subset
  <1>2. f \in Surjection(D, KeysIn(s)) BY DEF Surjection, KeysIn
  <1>3. f \in Injection(D, KeysIn(s)) BY DEF Injection, IsInjective, KeysIn, KeysOnce
  <1> HIDE DEF D, f
  <1>4. IsFiniteSet(KeysIn(s)) /\ Cardinality(KeysIn(s)) = Cardinality(D)
    BY <1>1, <1>2, <1>3, FS_Surjection
  <1>5. Cardinality(KeysIn(s)) \in Nat BY <1>4, FS_CardinalityType
  <1>6. QED BY <1>4, <1>5 DEF D

\* Every key is where its probe sequence gets to without passing an empty slot.
Reachable(c, s) == \A i \in DOMAIN s \ Free(s) : \E m \in 0..(c - 1) :
                     /\ Probe(c, s[i], m) = i
                     /\ \A n \in 0..(m - 1) : s[Probe(c, s[i], n)] # EMPTY

\* What a rehash leaves: the same keys, each in one slot that lookup reaches, and no
\* tombstones.
LEMMA RehashResult ==
  ASSUME NEW c \in Powers, NEW old \in Nat \ {0},
         NEW s \in [Indices(old) -> Keys \cup {EMPTY, TOMBSTONE}],
         KeysOnce(s), Cardinality(KeysIn(s)) <= c,
         NEW r, r = Rehash(s, old, c)
  PROVE  /\ r \in [Indices(c) -> Keys \cup {EMPTY, TOMBSTONE}]
         /\ KeysOnce(r)
         /\ KeysIn(r) = KeysIn(s)
         /\ Reachable(c, r)
         /\ At(r, TOMBSTONE) = {}
  <1>0. c \in Nat \ {0} BY PowersPositive
  <1>1. PICK all : all = Indices(IF c > old THEN c ELSE old) OBVIOUS
  <1>2. /\ 0..(c - 1) \subseteq all /\ 0..(old - 1) \subseteq all
        /\ all \subseteq 0..(c - 1) \cup 0..(old - 1) /\ IsFiniteSet(all)
    <2>1. CASE c > old
      <3>1. all = 0..(c - 1) BY <2>1, <1>1 DEF Indices
      <3>2. QED BY <3>1, <2>1, <1>0, FS_Interval
    <2>2. CASE ~(c > old)
      <3>1. all = 0..(old - 1) BY <2>2, <1>1 DEF Indices
      <3>2. QED BY <3>1, <2>2, <1>0, FS_Interval
    <2>3. QED BY <2>1, <2>2
  <1>3. all \subseteq Nat BY <1>0, <1>2
  <1>4. DOMAIN s = 0..(old - 1) /\ \A i \in 0..(old - 1) : s[i] \in Keys \cup {EMPTY, TOMBSTONE}
    BY DEF Indices
  <1>5. PICK start : start = RehashStart(s, old, all) OBVIOUS
  <1>6. /\ start.slot = [i \in all |-> IF i < old THEN s[i] ELSE EMPTY]
        /\ start.done = {} /\ start.carry = NoKey
    BY <1>5 DEF RehashStart
  <1>7. start \in States(all)
    <2>1. ASSUME NEW i \in all PROVE (IF i < old THEN s[i] ELSE EMPTY) \in Keys \cup {EMPTY, TOMBSTONE}
      BY <1>3, <1>4
    <2>2. start.slot \in [all -> Keys \cup {EMPTY, TOMBSTONE}] BY <2>1, <1>6
    <2>3. QED BY <2>2, <1>5 DEF States, RehashStart
  <1>8. PICK K : K = KeysIn(s) OBVIOUS
  <1>9. Room(c, all, K)
    <2>1. IsFiniteSet(DOMAIN s) BY <1>4, FS_Interval
    <2>2. IsFiniteSet(K) BY <2>1, <1>8, KeysCount
    <2>3. QED BY <2>2, <1>2, <1>8 DEF Room
  <1>10. \A i \in all : i \in DOMAIN start.slot \ Free(start.slot)
                        <=> i \in DOMAIN s \ Free(s)
    BY <1>2, <1>3, <1>4, <1>6, ReservedAssumption DEF Free
  <1>11. \A i \in DOMAIN s \ Free(s) : i \in all /\ start.slot[i] = s[i]
    BY <1>2, <1>4, <1>6
  <1>12. DOMAIN start.slot = all BY <1>6
  <1>13. KeysIn(start.slot) = KeysIn(s) BY <1>10, <1>11, <1>12 DEF KeysIn
  <1>14. KeysOnce(start.slot) BY <1>10, <1>11, <1>12 DEF KeysOnce
  <1> DEFINE grown == {x \in all : x >= old}
  <1>15. RehashInv(c, all, K, grown, start)
    <2>1. NoKey \notin KeysIn(start.slot) BY ReservedAssumption DEF KeysIn, Free
    <2>2. ASSUME NEW x \in grown PROVE start.slot[x] = EMPTY
      <3>1. x \in all /\ x \in Nat /\ ~(x < old) BY <1>3
      <3>2. QED BY <3>1, <1>6
    <2>3. QED BY <2>1, <2>2, <1>6, <1>7, <1>8, <1>13, <1>14 DEF RehashInv
  <1>16. PICK run : /\ IsRehashing(c, all, start, run)
                    /\ Rehash(s, old, c) = [i \in Indices(c) |-> run[old].slot[i]]
    BY <1>0, <1>1, <1>2, <1>5, <1>7, RehashLoop
  <1> DEFINE Settled(n) == grown \cup 0..(n - 1)
             Good(n) == RehashInv(c, all, K, Settled(n), run[n]) /\ run[n].carry = NoKey
             T == {n \in Nat : n <= old => Good(n)}
  <1>17. 0 \in T
    <2>1. Settled(0) = grown OBVIOUS
    <2>2. run[0] = start BY <1>16 DEF IsRehashing
    <2> HIDE DEF Settled, grown
    <2>3. QED BY <2>1, <2>2, <1>6, <1>15
  <1>18. ASSUME NEW n \in Nat, n \in T PROVE n + 1 \in T
    <2> SUFFICES ASSUME n + 1 <= old PROVE Good(n + 1) OBVIOUS
    <2>1. Good(n) BY <1>18
    <2>2. n \in all BY <1>2
    <2>3. run[n + 1] = RehashSlot(c, run[n], n) BY <1>16 DEF IsRehashing
    <2>4. Settled(n + 1) = Settled(n) \cup {n} BY <1>3
    <2> HIDE DEF Settled
    <2>5. PICK st, next, X, Y : /\ st = run[n] /\ next = run[n + 1]
                                /\ X = Settled(n) /\ Y = Settled(n + 1)
      OBVIOUS
    <2>6. RehashInv(c, all, K, X, st) /\ st.carry = NoKey /\ next = RehashSlot(c, st, n)
      BY <2>1, <2>3, <2>5
    <2>7. Y = X \cup {n} BY <2>4, <2>5
    <2>8. RehashInv(c, all, K, Y, next) /\ next.carry = NoKey
      BY <2>2, <2>6, <2>7, <1>9, RehashSlotSettles
    <2>9. QED BY <2>5, <2>8
  <1> HIDE DEF T
  <1>19. Nat \subseteq T BY <1>17, <1>18, SetInduction
  <1>20. Good(old) BY <1>19 DEF T
  <1>21. PICK final : final = run[old] OBVIOUS
  <1>22. Settled(old) = all
    <2>1. ASSUME NEW x \in all PROVE x >= old \/ x \in 0..(old - 1) BY <1>3
    <2>2. QED BY <2>1, <1>2
  <1>23. RehashInv(c, all, K, all, final) /\ final.carry = NoKey BY <1>20, <1>21, <1>22
  <1>24. r = [i \in 0..(c - 1) |-> final.slot[i]] BY <1>16, <1>21 DEF Indices
  <1>25. /\ DOMAIN final.slot = all /\ final.slot \in [all -> Keys \cup {EMPTY, TOMBSTONE}]
         /\ \A x \in all : final.slot[x] = EMPTY \/ x \in final.done
         /\ final.done \subseteq (0..(c - 1)) \ Free(final.slot)
    BY <1>23 DEF RehashInv, States
  <1>26. DOMAIN r = 0..(c - 1) /\ \A i \in 0..(c - 1) : r[i] = final.slot[i] BY <1>24
  <1>27. DOMAIN r \ Free(r) = final.done
    BY <1>2, <1>25, <1>26, ReservedAssumption DEF Free
  <1>28. DOMAIN final.slot \ Free(final.slot) = final.done
    BY <1>2, <1>25, ReservedAssumption DEF Free
  <1>29. \A i \in final.done : i \in 0..(c - 1) /\ r[i] = final.slot[i] BY <1>25, <1>26
  <1>30. r \in [Indices(c) -> Keys \cup {EMPTY, TOMBSTONE}] BY <1>2, <1>24, <1>25 DEF Indices
  <1>31. KeysOnce(r) BY <1>23, <1>27, <1>28, <1>29 DEF KeysOnce, RehashInv
  <1>32. KeysIn(r) = KeysIn(s)
    <2>1. KeysIn(r) = KeysIn(final.slot) BY <1>27, <1>28, <1>29 DEF KeysIn
    <2>2. K = KeysIn(final.slot) BY <1>23 DEF RehashInv
    <2>3. QED BY <2>1, <2>2, <1>8
  <1>33. Reachable(c, r)
    <2> SUFFICES ASSUME NEW i \in final.done
                 PROVE  \E m \in 0..(c - 1) : /\ Probe(c, r[i], m) = i
                                              /\ \A n \in 0..(m - 1) : r[Probe(c, r[i], n)] # EMPTY
      BY <1>27 DEF Reachable
    <2>1. PICK m \in 0..(c - 1) : /\ Probe(c, final.slot[i], m) = i
                                  /\ \A n \in 0..(m - 1) : Probe(c, final.slot[i], n) \in final.done
      BY <1>23 DEF RehashInv
    <2>2. \A x \in final.done : r[x] # EMPTY BY <1>27, ReservedAssumption DEF Free
    <2>3. QED BY <2>1, <2>2, <1>29
  <1>34. At(r, TOMBSTONE) = {}
    <2> SUFFICES ASSUME NEW i \in 0..(c - 1), r[i] = TOMBSTONE PROVE FALSE BY <1>26 DEF At
    <2>1. final.slot[i] = EMPTY \/ i \in final.done BY <1>2, <1>25
    <2>2. r[i] = EMPTY \/ r[i] \in Keys BY <2>1, <1>26, <1>27 DEF Free
    <2>3. QED BY <2>2, ReservedAssumption
  <1>35. QED BY <1>30, <1>31, <1>32, <1>33, <1>34
-----------------------------------------------------------------------------
(* Capacities and the load limit.                                           *)

LEMMA PowersFacts ==
  /\ 8 \in Powers
  /\ Pow2[HashBits - 1] \in Powers
  /\ \A p \in Powers : p = 1 \/ \E h \in Powers : p = 2 * h
  <1>1. 0 \in 0..HashBits /\ 1 \in 0..HashBits /\ 2 \in 0..HashBits /\ 3 \in 0..HashBits
    BY HashBitsAssumption
  <1>2. Pow2[0] = 1 BY <1>1, Pow2Recursion
  <1>3. Pow2[1] = 2 BY <1>1, <1>2, Pow2Recursion
  <1>4. Pow2[2] = 4 BY <1>1, <1>3, Pow2Recursion
  <1>5. Pow2[3] = 8 BY <1>1, <1>4, Pow2Recursion
  <1>6. 3 \in 0..(HashBits - 1) /\ HashBits - 1 \in 0..(HashBits - 1) BY HashBitsAssumption
  <1>7. ASSUME NEW p \in Powers PROVE p = 1 \/ \E h \in Powers : p = 2 * h
    <2>1. PICK i \in 0..(HashBits - 1) : p = Pow2[i] BY DEF Powers
    <2>2. CASE i = 0 BY <2>1, <2>2, <1>2
    <2>3. CASE i # 0
      <3>1. i \in 0..HashBits /\ i - 1 \in 0..(HashBits - 1) BY <2>3, HashBitsAssumption
      <3>2. Pow2[i] = 2 * Pow2[i - 1] BY <2>3, <3>1, Pow2Recursion
      <3>3. Pow2[i - 1] \in Powers BY <3>1 DEF Powers
      <3>4. QED BY <2>1, <3>2, <3>3
    <2>4. QED BY <2>2, <2>3
  <1>8. QED BY <1>5, <1>6, <1>7 DEF Powers

\* Twice a capacity that the bound of the model admits is a capacity.
LEMMA PowersDouble ==
  ASSUME NEW p \in Powers, 2 * p <= MaxCapacity
  PROVE  2 * p \in Powers
  <1>1. PICK i \in 0..(HashBits - 1) : p = Pow2[i] BY DEF Powers
  <1>2. Pow2[HashBits - 1] \in Nat \ {0} /\ p \in Nat \ {0} BY PowersFacts, PowersPositive
  <1>3. 2 * p <= Pow2[HashBits - 1] BY <1>2, CapacityAssumption DEF MinCapacity
  <1>4. i # HashBits - 1 BY <1>1, <1>2, <1>3
  <1>5. i + 1 \in 0..(HashBits - 1) /\ i + 1 \in 0..HashBits /\ i + 1 # 0 /\ (i + 1) - 1 = i
    BY <1>4, HashBitsAssumption
  <1>6. Pow2[i + 1] = 2 * p BY <1>1, <1>5, Pow2Recursion
  <1>7. QED BY <1>5, <1>6 DEF Powers

\* The load limit: at least half of the slots, fewer than all of them.
LEMMA LoadLimit ==
  ASSUME NEW c \in Nat \ {0}
  PROVE  /\ MaxEntries(c) \in Nat
         /\ MaxEntries(c) < c
         /\ \A h \in Nat : c >= 2 * h => MaxEntries(c) >= h
  <1>1. PICK q \in Nat, r \in 0..9 : q = c \div 10 /\ r = c % 10 /\ c = 10 * q + r
    BY DivMod
  <1>2. Threshold \in 5..9 BY ThresholdAssumption
  <1>3. PICK x \in Nat : x = q * Threshold /\ x >= 5 * q /\ x <= 9 * q BY <1>2
  <1>4. PICK y \in Nat : y = r * Threshold /\ y >= 5 * r /\ y <= 9 * r BY <1>2
  <1>5. PICK z \in Nat : z = y \div 10 /\ 10 * z <= y /\ y <= 10 * z + 9 BY DivMod
  <1>6. MaxEntries(c) = x + z BY <1>1, <1>3, <1>4, <1>5 DEF MaxEntries
  <1>7. x + z < c BY <1>1, <1>3, <1>4, <1>5
  <1>8. ASSUME NEW h \in Nat, c >= 2 * h PROVE x + z >= h
    BY <1>1, <1>3, <1>4, <1>5, <1>8
  <1>9. QED BY <1>6, <1>7, <1>8

LEMMA LoadLimitGrows ==
  ASSUME NEW c \in Nat \ {0}, NEW d \in Nat \ {0}, c <= d
  PROVE  MaxEntries(c) <= MaxEntries(d)
  <1>1. PICK q \in Nat, r \in 0..9 : q = c \div 10 /\ r = c % 10 /\ c = 10 * q + r
    BY DivMod
  <1>2. PICK u \in Nat, v \in 0..9 : u = d \div 10 /\ v = d % 10 /\ d = 10 * u + v
    BY DivMod
  <1>3. Threshold \in 5..9 BY ThresholdAssumption
  <1>4. PICK x \in Nat : x = q * Threshold BY <1>3
  <1>5. PICK y \in Nat : y = r * Threshold /\ y <= 9 * Threshold BY <1>3
  <1>6. PICK z \in Nat : z = y \div 10 /\ 10 * z <= y /\ y <= 10 * z + 9 BY DivMod
  <1>7. PICK a \in Nat : a = u * Threshold BY <1>3
  <1>8. PICK b \in Nat : b = v * Threshold BY <1>3
  <1>9. PICK w \in Nat : w = b \div 10 /\ 10 * w <= b /\ b <= 10 * w + 9 BY DivMod
  <1>10. x + z <= a + w
    <2>1. CASE q = u
      <3>1. r <= v BY <2>1, <1>1, <1>2
      <3>2. y <= b BY <3>1, <1>3, <1>5, <1>8
      <3>3. QED BY <2>1, <3>2, <1>4, <1>6, <1>7, <1>9
    <2>2. CASE q # u
      <3>1. q + 1 <= u BY <2>2, <1>1, <1>2
      <3>2. PICK e \in Nat : u = q + 1 + e
        <4>1. u - q - 1 \in Nat /\ u = q + 1 + (u - q - 1) BY <3>1
        <4>2. QED BY <4>1
      <3>3. u * Threshold = q * Threshold + Threshold + e * Threshold BY <3>2, <1>3
      <3>4. e * Threshold \in Nat BY <1>3
      <3>5. a >= x + Threshold BY <3>3, <3>4, <1>3, <1>4, <1>7
      <3>6. QED BY <3>5, <1>3, <1>5, <1>6
    <2>3. QED BY <2>1, <2>2
  <1>11. MaxEntries(c) = x + z /\ MaxEntries(d) = a + w
    BY <1>1, <1>2, <1>4, <1>5, <1>6, <1>7, <1>8, <1>9 DEF MaxEntries
  <1>12. QED BY <1>10, <1>11

LEMMA MinIsElement ==
  ASSUME NEW S \in SUBSET Nat, S # {}
  PROVE  Min(S) \in S
  <1>1. PICK m \in S : \A k \in S : m <= k BY LeastElement
  <1>2. QED BY <1>1 DEF Min

\* A resize chooses a capacity that has room for the entries.
LEMMA ResizeFits ==
  ASSUME NEW n \in Requests, NEW e \in Nat, NEW c \in Powers, e <= MaxEntries(c),
         NEW new, new = ResizeCapacity(n, e)
  PROVE  new \in Powers /\ e <= MaxEntries(new)
  <1>1. n \in 1..MaxCapacity BY RequestsAssumption
  <1>2. Pow2[HashBits - 1] \in Powers /\ Powers \subseteq Nat \ {0} BY PowersFacts, PowersPositive
  <1>3. Pow2[HashBits - 1] >= n
    <2>1. PICK top \in Nat : top = Pow2[HashBits - 1] BY <1>2
    <2>2. MaxCapacity \in 8..top BY <2>1, CapacityAssumption DEF MinCapacity
    <2>3. QED BY <1>1, <2>1, <2>2
  <1> DEFINE above == {p \in Powers : p >= n}
  <1>4. above \in SUBSET Nat /\ above # {} BY <1>2, <1>3
  <1>5. RoundCapacity(n) \in above
    <2>1. RoundCapacity(n) = Min(above) BY DEF RoundCapacity
    <2> HIDE DEF above
    <2>2. QED BY <2>1, <1>4, MinIsElement
  <1>6. PICK rounded \in Powers : rounded = RoundCapacity(n) BY <1>5
  <1> DEFINE fitting == {p \in Powers : p >= RoundCapacity(n) /\ MaxEntries(p) >= e}
  <1>7. fitting \in SUBSET Nat BY <1>2
  <1>8. fitting # {}
    <2>1. MaxEntries(c) \in Nat /\ MaxEntries(rounded) \in Nat BY <1>2, LoadLimit
    <2>2. CASE c >= rounded
      <3>1. c \in fitting BY <2>1, <2>2, <1>6
      <3>2. QED BY <3>1
    <2>3. CASE ~(c >= rounded)
      <3>1. MaxEntries(c) <= MaxEntries(rounded) BY <2>3, <1>2, LoadLimitGrows
      <3>2. rounded \in fitting BY <2>1, <3>1, <1>2, <1>6
      <3>3. QED BY <3>2
    <2>4. QED BY <2>2, <2>3
  <1>9. new \in fitting
    <2>1. new = Min(fitting) BY DEF ResizeCapacity
    <2> HIDE DEF fitting
    <2>2. QED BY <2>1, <1>7, <1>8, MinIsElement
  <1>10. MaxEntries(new) \in Nat BY <1>2, <1>9, LoadLimit
  <1>11. QED BY <1>9, <1>10

\* A shrink keeps room for the entries.
LEMMA ShrunkFits ==
  ASSUME NEW c \in Powers, NEW e \in Nat, e <= MaxEntries(c), NEW d, d = Shrunk(c)
  PROVE  d \in Powers /\ d >= MinCapacity /\ e <= MaxEntries(d)
  <1>1. c \in Nat \ {0} /\ 8 \in Powers BY PowersFacts, PowersPositive
  <1>2. CASE c < 8
    <2>1. d = 8 BY <1>2 DEF Shrunk, MinCapacity
    <2>2. MaxEntries(c) <= MaxEntries(8) BY <1>1, <1>2, LoadLimitGrows
    <2>3. MaxEntries(c) \in Nat /\ MaxEntries(8) \in Nat BY <1>1, LoadLimit
    <2>4. e <= MaxEntries(d) BY <2>1, <2>2, <2>3
    <2>5. QED BY <1>1, <2>1, <2>4 DEF MinCapacity
  <1>3. CASE ~(c < 8) BY <1>1, <1>3 DEF Shrunk, MinCapacity
  <1>4. QED BY <1>2, <1>3

\* The shrink of a sparse table keeps room for the entries.
LEMMA SparseFits ==
  ASSUME NEW c \in Powers, c >= MinCapacity, NEW e \in Nat, e < c \div 8, NEW d, d = Shrunk(c \div 4)
  PROVE  d \in Powers /\ d >= MinCapacity /\ e <= MaxEntries(d)
  <1>1. PICK a \in Powers : c = 2 * a BY PowersFacts DEF MinCapacity
  <1>2. Powers \subseteq Nat \ {0} BY PowersPositive
  <1>3. PICK b \in Powers : a = 2 * b
    <2>1. a # 1 BY <1>1, <1>2 DEF MinCapacity
    <2>2. QED BY <2>1, PowersFacts
  <1>4. c \div 4 = b /\ c = 4 * b /\ b \in Nat BY <1>1, <1>2, <1>3
  <1>5. 2 * e <= b BY <1>4
  <1>6. MaxEntries(b) \in Nat /\ MaxEntries(b) >= e BY <1>2, <1>4, <1>5, LoadLimit
  <1>7. QED BY <1>4, <1>6, ShrunkFits
-----------------------------------------------------------------------------
(* The table.                                                               *)

\* A table of c slots with e keys and t tombstones: every key is in one slot, and where
\* its probe sequence gets to.
Table(c, e, t, s) == /\ c \in Powers /\ c >= MinCapacity
                     /\ e \in Nat /\ t \in Nat
                     /\ s \in [Indices(c) -> Keys \cup {EMPTY, TOMBSTONE}]
                     /\ e = Cardinality(DOMAIN s \ Free(s))
                     /\ t = Cardinality(At(s, TOMBSTONE))
                     /\ KeysOnce(s)
                     /\ Reachable(c, s)

LEMMA TableData ==
  ASSUME NEW c, NEW e, NEW t, NEW s, Table(c, e, t, s)
  PROVE  /\ c \in Powers /\ c \in Nat \ {0} /\ c - 1 \in Nat
         /\ DOMAIN s = 0..(c - 1)
         /\ \A i \in 0..(c - 1) : /\ s[i] \in Keys \/ s[i] = EMPTY \/ s[i] = TOMBSTONE
                                  /\ i \in Free(s) <=> s[i] \notin Keys
         /\ IsFiniteSet(DOMAIN s) /\ Cardinality(DOMAIN s) = c
         /\ IsFiniteSet(DOMAIN s \ Free(s)) /\ IsFiniteSet(At(s, TOMBSTONE))
         /\ e \in Nat /\ t \in Nat
         /\ e = Cardinality(KeysIn(s)) /\ IsFiniteSet(KeysIn(s))
         /\ KeysIn(s) \subseteq Keys
  <1>1. c \in Powers /\ c \in Nat \ {0} /\ c - 1 \in Nat BY PowersPositive DEF Table
  <1>2. DOMAIN s = 0..(c - 1) BY DEF Table, Indices
  <1>3. IsFiniteSet(DOMAIN s) /\ Cardinality(DOMAIN s) = c
    <2>1. 0 \in Int /\ c - 1 \in Int /\ ~(0 > c - 1) /\ (c - 1) - 0 + 1 = c BY <1>1
    <2>2. QED BY <2>1, <1>2, FS_Interval
  <1>4. DOMAIN s \ Free(s) \subseteq DOMAIN s /\ At(s, TOMBSTONE) \subseteq DOMAIN s BY DEF At
  <1>5. IsFiniteSet(DOMAIN s \ Free(s)) BY <1>3, <1>4, FS_Subset
  <1>6. IsFiniteSet(At(s, TOMBSTONE)) BY <1>3, <1>4, FS_Subset
  <1>7. e = Cardinality(KeysIn(s)) /\ IsFiniteSet(KeysIn(s)) BY <1>3, KeysCount DEF Table
  <1>8. \A i \in 0..(c - 1) : /\ s[i] \in Keys \/ s[i] = EMPTY \/ s[i] = TOMBSTONE
                              /\ i \in Free(s) <=> s[i] \notin Keys
    BY <1>2 DEF Table, Indices, Free
  <1>9. KeysIn(s) \subseteq Keys BY DEF KeysIn, Free
  <1>10. e \in Nat /\ t \in Nat BY DEF Table
  <1>11. QED BY <1>1, <1>2, <1>3, <1>5, <1>6, <1>7, <1>8, <1>9, <1>10

\* A table below its load limit has an empty slot.
LEMMA EmptyExists ==
  ASSUME NEW c, NEW e, NEW t, NEW s, Table(c, e, t, s), e + t < c
  PROVE  \E x \in 0..(c - 1) : s[x] = EMPTY
  <1> SUFFICES ASSUME \A x \in 0..(c - 1) : s[x] # EMPTY PROVE FALSE OBVIOUS
  <1> DEFINE held == DOMAIN s \ Free(s)
             dead == At(s, TOMBSTONE)
  <1>0. /\ DOMAIN s = 0..(c - 1)
        /\ \A x \in 0..(c - 1) : /\ s[x] \in Keys \/ s[x] = EMPTY \/ s[x] = TOMBSTONE
                                 /\ x \in Free(s) <=> s[x] \notin Keys
    BY TableData
  <1>1. DOMAIN s = held \cup dead
    <2>1. ASSUME NEW x \in DOMAIN s PROVE x \in held \cup dead
      <3>1. x \in 0..(c - 1) /\ (s[x] \in Keys \/ s[x] = EMPTY \/ s[x] = TOMBSTONE) BY <1>0
      <3>2. s[x] # EMPTY BY <3>1
      <3>3. QED BY <3>1, <3>2 DEF At, Free
    <2>2. QED BY <2>1 DEF At
  <1>2. held \cap dead = {} BY ReservedAssumption DEF At, Free
  <1>3. IsFiniteSet(held) /\ IsFiniteSet(dead) /\ Cardinality(held) = e /\ Cardinality(dead) = t
    BY TableData DEF Table
  <1>4. c \in Nat \ {0} /\ e \in Nat /\ t \in Nat /\ Cardinality(DOMAIN s) = c
    BY TableData, ZenonT(30)
  <1> HIDE DEF held, dead
  <1>5. Cardinality(held \cup dead) = Cardinality(held) + Cardinality(dead) - Cardinality(held \cap dead)
    BY <1>3, FS_Union
  <1>6. Cardinality(held \cap dead) = 0 BY <1>2, FS_EmptySet
  <1>7. QED BY <1>1, <1>3, <1>4, <1>5, <1>6

\* Lookup finds exactly the keys that the table holds, in their slots.
LEMMA LookupFinds ==
  ASSUME NEW c, NEW e, NEW t, NEW s, Table(c, e, t, s), NEW k \in Keys,
         NEW i, i = LookupIn(c, s, k)
  PROVE  IF k \in KeysIn(s) THEN i \in DOMAIN s \ Free(s) /\ s[i] = k /\ i # -1
                            ELSE i = -1
  <1>1. c \in Nat \ {0} /\ DOMAIN s = 0..(c - 1) BY TableData
  <1> DEFINE stops == At(s, EMPTY) \cup At(s, k)
  <1>2. PICK j : j = FirstProbe(c, k, stops) OBVIOUS
  <1>3. i = IF j # -1 /\ s[j] = k THEN j ELSE -1 BY <1>2 DEF LookupIn
  <1>4. CASE k \in KeysIn(s)
    <2>1. PICK x \in DOMAIN s \ Free(s) : s[x] = k BY <1>4 DEF KeysIn
    <2>2. PICK m \in 0..(c - 1) : /\ Probe(c, k, m) = x
                                  /\ \A n \in 0..(m - 1) : s[Probe(c, k, n)] # EMPTY
      BY <2>1 DEF Table, Reachable
    <2>3. x \in stops BY <2>1 DEF At
    <2>4. Probe(c, k, m) \in stops BY <2>2, <2>3
    <2>5. \A y \in stops : s[y] = EMPTY \/ s[y] = k BY DEF At
    <2> HIDE DEF stops
    <2>6. /\ j \in 0..(c - 1) /\ j \in stops
          /\ \E l \in 0..(c - 1) : /\ j = Probe(c, k, l)
                                   /\ \A n \in 0..(l - 1) : Probe(c, k, n) \notin stops
      BY <1>1, <1>2, <2>4, FirstProbeFinds
    <2>7. PICK l \in 0..(c - 1) : /\ j = Probe(c, k, l)
                                  /\ \A n \in 0..(l - 1) : Probe(c, k, n) \notin stops
      BY <2>6
    <2>8. l <= m
      <3>1. ASSUME m < l PROVE FALSE
        <4>1. m \in 0..(l - 1) BY <3>1, <1>1
        <4>2. QED BY <4>1, <2>4, <2>7
      <3>2. QED BY <3>1, <1>1
    <2>9. s[j] = k
      <3>1. CASE l = m BY <3>1, <2>1, <2>2, <2>7
      <3>2. CASE l # m
        <4>1. l \in 0..(m - 1) BY <3>2, <2>8, <1>1
        <4>2. s[j] # EMPTY BY <4>1, <2>2, <2>7
        <4>3. QED BY <4>2, <2>5, <2>6
      <3>3. QED BY <3>1, <3>2
    <2>10. j # -1 BY <2>6, <1>1
    <2>11. j \in DOMAIN s \ Free(s) BY <2>6, <2>9, <1>1 DEF Free
    <2>12. QED BY <2>9, <2>10, <2>11, <1>3, <1>4
  <1>5. CASE k \notin KeysIn(s)
    <2>1. At(s, k) = {} BY <1>5 DEF At, KeysIn, Free
    <2>2. i = -1
      <3>1. SUFFICES ASSUME j # -1, s[j] = k PROVE FALSE BY <1>3
      <3> HIDE DEF stops
      <3>2. PICK l \in 0..(c - 1) : Probe(c, k, l) \in stops BY <1>1, <1>2, <3>1, FirstProbeMisses
      <3>3. j \in stops BY <1>1, <1>2, <3>2, FirstProbeFinds
      <3>4. s[j] = EMPTY BY <3>3, <2>1 DEF stops, At
      <3>5. QED BY <3>1, <3>4, ReservedAssumption
    <2>3. QED BY <2>2, <1>5
  <1>6. QED BY <1>4, <1>5

\* A rehash keeps the keys and drops the tombstones.
LEMMA RehashedTable ==
  ASSUME NEW c, NEW e, NEW t, NEW s, Table(c, e, t, s),
         NEW d \in Powers, d >= MinCapacity, e <= MaxEntries(d), NEW r, r = Rehash(s, c, d)
  PROVE  Table(d, e, 0, r) /\ KeysIn(r) = KeysIn(s)
  <1>1. c \in Nat \ {0} /\ e \in Nat /\ e = Cardinality(KeysIn(s))
    BY TableData, ZenonT(30)
  <1>2. d \in Nat \ {0} BY PowersPositive
  <1>3. MaxEntries(d) < d /\ MaxEntries(d) \in Nat BY <1>2, LoadLimit
  <1>4. Cardinality(KeysIn(s)) <= d BY <1>1, <1>2, <1>3
  <1>5. s \in [Indices(c) -> Keys \cup {EMPTY, TOMBSTONE}] /\ KeysOnce(s) BY DEF Table
  <1>6. /\ r \in [Indices(d) -> Keys \cup {EMPTY, TOMBSTONE}]
        /\ KeysOnce(r)
        /\ KeysIn(r) = KeysIn(s)
        /\ Reachable(d, r)
        /\ At(r, TOMBSTONE) = {}
    BY <1>1, <1>4, <1>5, RehashResult
  <1>7. IsFiniteSet(DOMAIN r)
    <2>1. DOMAIN r = 0..(d - 1) BY <1>6 DEF Indices
    <2>2. QED BY <2>1, <1>2, FS_Interval
  <1>8. Cardinality(DOMAIN r \ Free(r)) = e BY <1>1, <1>6, <1>7, KeysCount
  <1>9. Cardinality(At(r, TOMBSTONE)) = 0 BY <1>6, FS_EmptySet
  <1>10. QED BY <1>1, <1>6, <1>8, <1>9 DEF Table

Put(s, i, x) == [s EXCEPT ![i] = x]

\* An insertion adds its key, in the place of an empty slot or of a tombstone.
LEMMA InsertedTable ==
  ASSUME NEW c, NEW e, NEW t, NEW s, Table(c, e, t, s), e + t < c,
         NEW k \in Keys, k \notin KeysIn(s),
         NEW i, i = FirstProbe(c, k, Free(s)), NEW r, r = Put(s, i, k)
  PROVE  /\ Table(c, e + 1, FillTombstone(t, s[i]), r)
         /\ KeysIn(r) = KeysIn(s) \cup {k}
         /\ FillTombstone(t, s[i]) \in Nat /\ FillTombstone(t, s[i]) <= t
  <1>1. /\ c \in Powers /\ c \in Nat \ {0} /\ DOMAIN s = 0..(c - 1)
        /\ \A x \in 0..(c - 1) : /\ s[x] \in Keys \/ s[x] = EMPTY \/ s[x] = TOMBSTONE
                                 /\ x \in Free(s) <=> s[x] \notin Keys
        /\ e \in Nat /\ t \in Nat
    BY TableData
  <1>2. PICK f \in 0..(c - 1) : f \in Free(s)
    <2>1. PICK x \in 0..(c - 1) : s[x] = EMPTY BY EmptyExists
    <2>2. QED BY <2>1, <1>1, ReservedAssumption
  <1>3. /\ i \in 0..(c - 1)
        /\ i \in Free(s)
        /\ \E m \in 0..(c - 1) : /\ i = Probe(c, k, m)
                                 /\ \A n \in 0..(m - 1) : Probe(c, k, n) \notin Free(s)
    <2>1. PICK stops : stops = Free(s) OBVIOUS
    <2>2. c \in Powers /\ k \in Keys /\ f \in stops /\ f \in 0..(c - 1) BY <2>1, <1>1, <1>2
    <2>3. i = FirstProbe(c, k, stops) BY <2>1
    <2>4. /\ i \in 0..(c - 1)
          /\ i \in stops
          /\ \E m \in 0..(c - 1) : /\ i = Probe(c, k, m)
                                   /\ \A n \in 0..(m - 1) : Probe(c, k, n) \notin stops
      BY <2>2, <2>3, FirstProbeSucceeds
    <2>5. QED BY <2>1, <2>4
  <1>4. s[i] = EMPTY \/ s[i] = TOMBSTONE BY <1>1, <1>3
  <1>5. DOMAIN r = 0..(c - 1) /\ \A y \in 0..(c - 1) : r[y] = IF y = i THEN k ELSE s[y]
    BY <1>1 DEF Put
  <1>6. \A y \in 0..(c - 1) : y \in Free(r) <=> y # i /\ s[y] \notin Keys BY <1>5 DEF Free
  <1>7. r \in [Indices(c) -> Keys \cup {EMPTY, TOMBSTONE}] BY DEF Table, Put
  <1>8. DOMAIN r \ Free(r) = (DOMAIN s \ Free(s)) \cup {i} BY <1>1, <1>3, <1>5, <1>6
  <1>9. IsFiniteSet(DOMAIN s \ Free(s)) /\ IsFiniteSet(At(s, TOMBSTONE))
        /\ Cardinality(DOMAIN s \ Free(s)) = e /\ Cardinality(At(s, TOMBSTONE)) = t
    BY TableData DEF Table
  <1>10. Cardinality(DOMAIN r \ Free(r)) = e + 1
    <2>1. i \notin DOMAIN s \ Free(s) BY <1>3
    <2>2. QED BY <2>1, <1>8, <1>9, FS_AddElement
  <1>11. At(r, TOMBSTONE) = At(s, TOMBSTONE) \ {i}
    BY <1>1, <1>5, ReservedAssumption DEF At
  <1>12. Cardinality(At(r, TOMBSTONE)) = FillTombstone(t, s[i])
    <2>1. i \in At(s, TOMBSTONE) <=> s[i] = TOMBSTONE BY <1>1, <1>3 DEF At
    <2>2. Cardinality(At(s, TOMBSTONE) \ {i}) = IF i \in At(s, TOMBSTONE) THEN t - 1 ELSE t
      BY <1>9, FS_RemoveElement
    <2>3. QED BY <2>1, <2>2, <1>11 DEF FillTombstone
  <1>13. FillTombstone(t, s[i]) \in Nat
    <2>1. IsFiniteSet(At(s, TOMBSTONE) \ {i}) BY <1>9, FS_RemoveElement
    <2>2. QED BY <2>1, <1>11, <1>12, FS_CardinalityType
  <1>14. FillTombstone(t, s[i]) <= t BY <1>1 DEF FillTombstone
  <1>15. \A y \in DOMAIN s \ Free(s) : y # i /\ y \in 0..(c - 1) /\ r[y] = s[y]
    BY <1>1, <1>3, <1>5
  <1>16. KeysIn(r) = KeysIn(s) \cup {k}
    <2>1. r[i] = k BY <1>3, <1>5
    <2>2. QED BY <2>1, <1>8, <1>15 DEF KeysIn
  <1>17. KeysOnce(r)
    <2>1. \A y \in DOMAIN s \ Free(s) : s[y] # k BY DEF KeysIn
    <2>2. KeysOnce(s) BY DEF Table
    <2>3. r[i] = k BY <1>3, <1>5
    <2>4. QED BY <2>1, <2>2, <2>3, <1>8, <1>15 DEF KeysOnce
  <1>18. Reachable(c, r)
    <2> SUFFICES ASSUME NEW y \in DOMAIN r \ Free(r)
                 PROVE  \E m \in 0..(c - 1) : /\ Probe(c, r[y], m) = y
                                              /\ \A n \in 0..(m - 1) : r[Probe(c, r[y], n)] # EMPTY
      BY DEF Reachable
    <2>0. \A x \in 0..(c - 1) : s[x] # EMPTY => r[x] # EMPTY BY <1>5, ReservedAssumption
    <2>1. r[y] \in Keys BY <1>5 DEF Free
    <2>2. \A n \in Nat : Probe(c, r[y], n) \in 0..(c - 1) BY <2>1, <1>1, ProbeInRange
    <2>3. CASE y = i
      <3>1. r[y] = k BY <2>3, <1>3, <1>5
      <3>2. PICK m \in 0..(c - 1) : /\ i = Probe(c, k, m)
                                    /\ \A n \in 0..(m - 1) : Probe(c, k, n) \notin Free(s)
        BY <1>3
      <3>3. ASSUME NEW n \in 0..(m - 1) PROVE r[Probe(c, k, n)] # EMPTY
        <4>1. Probe(c, k, n) \in 0..(c - 1) BY <2>2, <3>1
        <4>2. s[Probe(c, k, n)] \in Keys BY <4>1, <3>2, <1>1
        <4>3. QED BY <4>1, <4>2, <2>0, ReservedAssumption
      <3>4. QED BY <2>3, <3>1, <3>2, <3>3
    <2>4. CASE y # i
      <3>1. y \in DOMAIN s \ Free(s) /\ r[y] = s[y] BY <2>4, <1>8, <1>15
      <3>2. PICK m \in 0..(c - 1) : /\ Probe(c, s[y], m) = y
                                    /\ \A n \in 0..(m - 1) : s[Probe(c, s[y], n)] # EMPTY
        BY <3>1 DEF Table, Reachable
      <3>3. \A n \in 0..(m - 1) : r[Probe(c, r[y], n)] # EMPTY BY <3>1, <3>2, <2>0, <2>2
      <3>4. QED BY <3>1, <3>2, <3>3
    <2>5. QED BY <2>3, <2>4
  <1>19. Table(c, e + 1, FillTombstone(t, s[i]), r)
    <2>1. c \in Powers /\ c >= MinCapacity /\ e + 1 \in Nat BY <1>1 DEF Table
    <2>2. PICK u : u = FillTombstone(t, s[i]) OBVIOUS
    <2>3. u \in Nat /\ u = Cardinality(At(r, TOMBSTONE)) BY <2>2, <1>12, <1>13
    <2>4. Table(c, e + 1, u, r) BY <2>1, <2>3, <1>7, <1>10, <1>17, <1>18 DEF Table
    <2>5. QED BY <2>2, <2>4
  <1>20. QED BY <1>13, <1>14, <1>16, <1>19

\* A removal takes out its key, and leaves a tombstone that no probe stops at.
LEMMA RemovedTable ==
  ASSUME NEW c, NEW e, NEW t, NEW s, Table(c, e, t, s),
         NEW i \in DOMAIN s \ Free(s), NEW r, r = Put(s, i, TOMBSTONE)
  PROVE  /\ Table(c, e - 1, t + 1, r)
         /\ KeysIn(r) = KeysIn(s) \ {s[i]}
  <1>1. /\ c \in Powers /\ c \in Nat \ {0} /\ DOMAIN s = 0..(c - 1)
        /\ \A x \in 0..(c - 1) : /\ s[x] \in Keys \/ s[x] = EMPTY \/ s[x] = TOMBSTONE
                                 /\ x \in Free(s) <=> s[x] \notin Keys
        /\ e \in Nat /\ t \in Nat
    BY TableData
  <1>2. i \in 0..(c - 1) /\ s[i] \in Keys BY <1>1
  <1>3. DOMAIN r = 0..(c - 1) /\ \A y \in 0..(c - 1) : r[y] = IF y = i THEN TOMBSTONE ELSE s[y]
    BY <1>1 DEF Put
  <1>4. \A y \in 0..(c - 1) : y \in Free(r) <=> y = i \/ s[y] \notin Keys
    BY <1>3, ReservedAssumption DEF Free
  <1>5. r \in [Indices(c) -> Keys \cup {EMPTY, TOMBSTONE}] BY DEF Table, Put
  <1>6. DOMAIN r \ Free(r) = (DOMAIN s \ Free(s)) \ {i} BY <1>1, <1>3, <1>4
  <1>7. IsFiniteSet(DOMAIN s \ Free(s)) /\ IsFiniteSet(At(s, TOMBSTONE))
        /\ Cardinality(DOMAIN s \ Free(s)) = e /\ Cardinality(At(s, TOMBSTONE)) = t
    BY TableData DEF Table
  <1>8. Cardinality(DOMAIN r \ Free(r)) = e - 1 BY <1>6, <1>7, FS_RemoveElement
  <1>9. e - 1 \in Nat
    <2>1. IsFiniteSet((DOMAIN s \ Free(s)) \ {i}) BY <1>7, FS_RemoveElement
    <2>2. QED BY <2>1, <1>6, <1>8, FS_CardinalityType
  <1>10. At(r, TOMBSTONE) = At(s, TOMBSTONE) \cup {i} /\ i \notin At(s, TOMBSTONE)
    BY <1>1, <1>2, <1>3, ReservedAssumption DEF At
  <1>11. Cardinality(At(r, TOMBSTONE)) = t + 1 BY <1>7, <1>10, FS_AddElement
  <1>12. \A y \in DOMAIN r \ Free(r) : y # i /\ y \in DOMAIN s \ Free(s) /\ r[y] = s[y]
    BY <1>1, <1>3, <1>6
  <1>13. KeysOnce(s) /\ Reachable(c, s) BY DEF Table
  <1>14. KeysOnce(r) BY <1>12, <1>13 DEF KeysOnce
  <1>15. KeysIn(r) = KeysIn(s) \ {s[i]}
    <2>1. \A y \in DOMAIN s \ Free(s) : y # i => s[y] # s[i] BY <1>13 DEF KeysOnce
    <2>2. KeysIn(r) = {s[y] : y \in DOMAIN r \ Free(r)} BY <1>12 DEF KeysIn
    <2>3. QED BY <2>1, <2>2, <1>6 DEF KeysIn
  <1>16. Reachable(c, r)
    <2> SUFFICES ASSUME NEW y \in DOMAIN r \ Free(r)
                 PROVE  \E m \in 0..(c - 1) : /\ Probe(c, r[y], m) = y
                                              /\ \A n \in 0..(m - 1) : r[Probe(c, r[y], n)] # EMPTY
      BY DEF Reachable
    <2>1. \A x \in 0..(c - 1) : s[x] # EMPTY => r[x] # EMPTY BY <1>3, ReservedAssumption
    <2>2. y \in DOMAIN s \ Free(s) /\ r[y] = s[y] /\ s[y] \in Keys BY <1>1, <1>12
    <2>3. PICK m \in 0..(c - 1) : /\ Probe(c, s[y], m) = y
                                  /\ \A n \in 0..(m - 1) : s[Probe(c, s[y], n)] # EMPTY
      BY <2>2, <1>13 DEF Reachable
    <2>4. \A n \in Nat : Probe(c, s[y], n) \in 0..(c - 1) BY <2>2, <1>1, ProbeInRange
    <2>5. QED BY <2>1, <2>2, <2>3, <2>4
  <1>17. c >= MinCapacity /\ t + 1 \in Nat BY <1>1 DEF Table
  <1>18. Table(c, e - 1, t + 1, r) BY <1>1, <1>5, <1>8, <1>9, <1>11, <1>14, <1>16, <1>17 DEF Table
  <1>19. QED BY <1>15, <1>18
-----------------------------------------------------------------------------
(* The invariant.                                                           *)

\* The keys and the tombstones are within the load limit: what growing, the rehash of a
\* table full of tombstones and the bound on shrinking keep between them.
LoadBounded == num_entries + num_tombstones <= MaxEntries(capacity)

\* CountersExact and LookupEnds are not inductive alone: the next rehash keeps every key
\* only if each is in one slot, and a removal finds its key only if lookup gets there.
IInv == /\ TypeOK
        /\ CountersExact
        /\ LoadBounded
        /\ KeysOnce(slot)
        /\ Reachable(capacity, slot)

\* The invariant is that the variables are a table within its load limit.
LEMMA InvTable ==
  /\ IInv <=> /\ Table(capacity, num_entries, num_tombstones, slot)
              /\ num_entries + num_tombstones <= MaxEntries(capacity)
  /\ IInv' <=> /\ Table(capacity', num_entries', num_tombstones', slot')
               /\ num_entries' + num_tombstones' <= MaxEntries(capacity')
  <1>1. IInv <=> /\ Table(capacity, num_entries, num_tombstones, slot)
                 /\ num_entries + num_tombstones <= MaxEntries(capacity)
    BY DEF IInv, Table, TypeOK, CountersExact, LoadBounded
  <1>2. IInv' <=> /\ Table(capacity', num_entries', num_tombstones', slot')
                  /\ num_entries' + num_tombstones' <= MaxEntries(capacity')
    BY DEF IInv, Table, TypeOK, CountersExact, LoadBounded, Free, At, KeysOnce, Reachable
  <1>3. QED BY <1>1, <1>2

\* A table within its load limit is not full.
LEMMA NotFull ==
  ASSUME NEW c, NEW e, NEW t, NEW s, Table(c, e, t, s), e + t <= MaxEntries(c)
  PROVE  /\ e + t < c /\ e < c /\ e <= MaxEntries(c)
         /\ MaxEntries(c) \in Nat
         /\ \A h \in Nat : c >= 2 * h => MaxEntries(c) >= h
  <1>1. c \in Nat \ {0} /\ e \in Nat /\ t \in Nat BY TableData
  <1>2. QED BY <1>1, LoadLimit

\* An empty table.
LEMMA EmptyTable ==
  ASSUME NEW c \in Powers, c >= MinCapacity, NEW s, s = [i \in 0..(c - 1) |-> EMPTY]
  PROVE  /\ Table(c, 0, 0, s) /\ 0 <= MaxEntries(c) /\ KeysIn(s) = {}
  <1>1. c \in Nat \ {0} BY PowersPositive
  <1>2. DOMAIN s \ Free(s) = {} /\ At(s, TOMBSTONE) = {} BY ReservedAssumption DEF Free, At
  <1>3. Cardinality(DOMAIN s \ Free(s)) = 0 /\ Cardinality(At(s, TOMBSTONE)) = 0
    BY <1>2, FS_EmptySet
  <1>4. s \in [Indices(c) -> Keys \cup {EMPTY, TOMBSTONE}] BY DEF Indices
  <1>5. KeysOnce(s) /\ Reachable(c, s) /\ KeysIn(s) = {} BY <1>2 DEF KeysOnce, Reachable, KeysIn
  <1>6. 0 <= MaxEntries(c) BY <1>1, LoadLimit
  <1>7. QED BY <1>3, <1>4, <1>5, <1>6 DEF Table

LEMMA InitInv ==
  ASSUME Init
  PROVE  IInv /\ KeysIn(slot) = {}
  <1>1. 8 \in Powers BY PowersFacts
  <1>2. PICK c : c = MinCapacity OBVIOUS
  <1>3. c \in Powers /\ c >= MinCapacity BY <1>1, <1>2 DEF MinCapacity
  <1>4. slot = [i \in 0..(c - 1) |-> EMPTY] BY <1>2 DEF Init, Indices
  <1>5. Table(c, 0, 0, slot) /\ 0 <= MaxEntries(c) /\ KeysIn(slot) = {} BY <1>3, <1>4, EmptyTable
  <1>6. capacity = c /\ num_entries = 0 /\ num_tombstones = 0 BY <1>2 DEF Init
  <1>7. QED BY <1>5, <1>6, InvTable
-----------------------------------------------------------------------------
(* The operations.                                                          *)

\* An insertion adds its key, whether the table grows or not.
LEMMA InsertStep ==
  ASSUME IInv, NEW k \in Keys, Insert(k)
  PROVE  /\ IInv'
         /\ k \notin KeysIn(slot) /\ KeysIn(slot') = KeysIn(slot) \cup {k}
         /\ num_entries' = num_entries + 1
  <1>1. PICK c, e, t, s : c = capacity /\ e = num_entries /\ t = num_tombstones /\ s = slot
    OBVIOUS
  <1>2. Table(c, e, t, s) /\ e + t <= MaxEntries(c) BY <1>1, InvTable
  <1>3. c \in Powers /\ c \in Nat \ {0} /\ e \in Nat /\ t \in Nat BY <1>2, TableData
  <1>4. /\ e + t < c /\ e < c /\ e <= MaxEntries(c) /\ MaxEntries(c) \in Nat
        /\ \A h \in Nat : c >= 2 * h => MaxEntries(c) >= h
    BY <1>2, NotFull
  <1>5. c >= MinCapacity BY <1>2 DEF Table
  <1>6. PICK d, u, q : /\ d = IF e + 1 + t > MaxEntries(c) THEN 2 * c ELSE c
                       /\ u = IF e + 1 + t > MaxEntries(c) THEN 0 ELSE t
                       /\ q = IF e + 1 + t > MaxEntries(c) THEN Rehash(s, c, d) ELSE s
    OBVIOUS
  <1>7. PICK i : i = FirstProbe(d, k, Free(q)) OBVIOUS
  <1>8. /\ At(s, k) = {} /\ d <= MaxCapacity
        /\ capacity' = d /\ num_entries' = e + 1
        /\ num_tombstones' = FillTombstone(u, q[i])
        /\ slot' = [q EXCEPT ![i] = k]
    BY <1>1, <1>6, <1>7 DEF Insert, LoadAfterInsert
  <1>9. k \notin KeysIn(s) BY <1>8 DEF KeysIn, At
  <1>10. /\ Table(d, e, u, q) /\ KeysIn(q) = KeysIn(s)
         /\ e + 1 + u <= MaxEntries(d) /\ MaxEntries(d) \in Nat /\ MaxEntries(d) < d
         /\ u \in Nat
    <2>1. CASE e + 1 + t > MaxEntries(c)
      <3>1. d = 2 * c /\ u = 0 /\ q = Rehash(s, c, d) BY <2>1, <1>6
      <3>2. d \in Powers BY <3>1, <1>3, <1>8, PowersDouble
      <3>3. d \in Nat \ {0} /\ d >= MinCapacity BY <3>1, <1>3, <1>5 DEF MinCapacity
      <3>4. MaxEntries(d) \in Nat /\ MaxEntries(d) < d /\ MaxEntries(d) >= c
        BY <3>1, <3>3, <1>3, LoadLimit
      <3>5. e + 1 <= c BY <1>3, <1>4
      <3>6. e + 1 + u <= MaxEntries(d) /\ e <= MaxEntries(d) BY <3>1, <3>4, <3>5, <1>3
      <3>7. Table(d, e, 0, q) /\ KeysIn(q) = KeysIn(s)
        BY <3>1, <3>2, <3>3, <3>6, <1>2, RehashedTable
      <3>8. QED BY <3>1, <3>4, <3>6, <3>7
    <2>2. CASE ~(e + 1 + t > MaxEntries(c))
      <3>1. d = c /\ u = t /\ q = s BY <2>2, <1>6
      <3>2. MaxEntries(c) < c BY <1>3, LoadLimit
      <3>3. e + 1 + t <= MaxEntries(c) BY <2>2, <1>3, <1>4
      <3>4. QED BY <3>1, <3>2, <3>3, <1>2, <1>3, <1>4
    <2>3. QED BY <2>1, <2>2
  <1>11. d \in Nat /\ e + u < d
    <2>1. d \in Nat BY <1>10, TableData
    <2>2. QED BY <2>1, <1>3, <1>10
  <1>12. PICK r, w : r = Put(q, i, k) /\ w = FillTombstone(u, q[i]) OBVIOUS
  <1>13. /\ Table(d, e + 1, w, r) /\ KeysIn(r) = KeysIn(q) \cup {k}
         /\ w \in Nat /\ w <= u
    <2>1. Table(d, e, u, q) /\ e + u < d /\ k \notin KeysIn(q) BY <1>9, <1>10, <1>11
    <2>2. /\ Table(d, e + 1, FillTombstone(u, q[i]), r) /\ KeysIn(r) = KeysIn(q) \cup {k}
          /\ FillTombstone(u, q[i]) \in Nat /\ FillTombstone(u, q[i]) <= u
      BY <2>1, <1>7, <1>12, InsertedTable
    <2>3. QED BY <2>2, <1>12
  <1>14. (e + 1) + w <= MaxEntries(d) BY <1>3, <1>10, <1>13
  <1>15. slot' = r /\ num_tombstones' = w BY <1>8, <1>12 DEF Put
  <1>16. IInv' BY <1>8, <1>13, <1>14, <1>15, InvTable
  <1>17. KeysIn(slot') = KeysIn(slot) \cup {k} BY <1>1, <1>10, <1>13, <1>15
  <1>18. QED BY <1>1, <1>8, <1>9, <1>16, <1>17

\* A removal takes out its key, whether the table is rehashed or not.
LEMMA RemoveStep ==
  ASSUME IInv, NEW k \in Keys, RemoveKey(k)
  PROVE  /\ IInv'
         /\ k \in KeysIn(slot) /\ KeysIn(slot') = KeysIn(slot) \ {k}
         /\ num_entries' = num_entries - 1
  <1>1. PICK c, e, t, s : c = capacity /\ e = num_entries /\ t = num_tombstones /\ s = slot
    OBVIOUS
  <1>2. Table(c, e, t, s) /\ e + t <= MaxEntries(c) BY <1>1, InvTable
  <1>3. c \in Powers /\ c \in Nat \ {0} /\ e \in Nat /\ t \in Nat BY <1>2, TableData
  <1>4. c >= MinCapacity BY <1>2 DEF Table
  <1>5. MaxEntries(c) \in Nat BY <1>3, LoadLimit
  <1>6. PICK i : i = LookupIn(c, s, k) OBVIOUS
  <1>7. PICK r : r = Put(s, i, TOMBSTONE) OBVIOUS
  <1>8. PICK d : d = IF e - 1 < c \div 8 THEN Shrunk(c \div 4) ELSE c OBVIOUS
  <1> DEFINE rehash == e - 1 < c \div 8 \/ t + 1 > c \div 2
  <1>9. /\ i # -1 /\ capacity' = d /\ num_entries' = e - 1
        /\ num_tombstones' = IF rehash THEN 0 ELSE t + 1
        /\ slot' = IF rehash THEN Rehash(r, c, d) ELSE r
    BY <1>1, <1>6, <1>7, <1>8 DEF RemoveKey, Put
  <1>10. k \in KeysIn(s) /\ i \in DOMAIN s \ Free(s) /\ s[i] = k
    <2>1. IF k \in KeysIn(s) THEN i \in DOMAIN s \ Free(s) /\ s[i] = k /\ i # -1 ELSE i = -1
      BY <1>2, <1>6, LookupFinds
    <2>2. QED BY <2>1, <1>9
  <1>11. Table(c, e - 1, t + 1, r) /\ KeysIn(r) = KeysIn(s) \ {k}
    <2>1. Table(c, e - 1, t + 1, r) /\ KeysIn(r) = KeysIn(s) \ {s[i]}
      BY <1>2, <1>7, <1>10, RemovedTable
    <2>2. QED BY <2>1, <1>10
  <1>12. e - 1 \in Nat BY <1>11, TableData
  <1>13. PICK x, z : x = num_tombstones' /\ z = slot' OBVIOUS
  <1>14. CASE rehash
    <2>1. x = 0 /\ z = Rehash(r, c, d) BY <1>9, <1>13, <1>14
    <2>2. d \in Powers /\ d >= MinCapacity /\ e - 1 <= MaxEntries(d)
      <3>1. CASE e - 1 < c \div 8
        <4>1. d = Shrunk(c \div 4) BY <3>1, <1>8
        <4>2. QED BY <3>1, <4>1, <1>3, <1>4, <1>12, SparseFits
      <3>2. CASE ~(e - 1 < c \div 8)
        <4>1. d = c BY <3>2, <1>8
        <4>2. e - 1 <= MaxEntries(c) BY <1>2, <1>3, <1>5
        <4>3. QED BY <4>1, <4>2, <1>3, <1>4
      <3>3. QED BY <3>1, <3>2
    <2> HIDE DEF rehash
    <2>3. Table(d, e - 1, 0, z) /\ KeysIn(z) = KeysIn(r) BY <2>1, <2>2, <1>11, RehashedTable
    <2>4. (e - 1) + 0 <= MaxEntries(d) BY <2>2, <1>12
    <2>5. IInv' BY <2>1, <2>3, <2>4, <1>9, <1>13, InvTable
    <2>6. KeysIn(slot') = KeysIn(slot) \ {k} BY <2>3, <1>1, <1>11, <1>13
    <2>7. QED BY <2>5, <2>6, <1>1, <1>9, <1>10
  <1>15. CASE ~rehash
    <2>1. x = t + 1 /\ z = r BY <1>9, <1>13, <1>15
    <2>2. d = c BY <1>8, <1>15
    <2> HIDE DEF rehash
    <2>3. (e - 1) + (t + 1) <= MaxEntries(c) BY <1>2, <1>3
    <2>4. IInv' BY <2>1, <2>2, <2>3, <1>9, <1>11, <1>13, InvTable
    <2>5. KeysIn(slot') = KeysIn(slot) \ {k} BY <2>1, <1>1, <1>11, <1>13
    <2>6. QED BY <2>4, <2>5, <1>1, <1>9, <1>10
  <1>16. QED BY <1>14, <1>15

\* A resize keeps the keys, whatever capacity it is asked for.
LEMMA ResizeStep ==
  ASSUME IInv, NEW n \in Requests, Resize(n)
  PROVE  IInv' /\ KeysIn(slot') = KeysIn(slot) /\ num_entries' = num_entries
  <1>1. PICK c, e, t, s : c = capacity /\ e = num_entries /\ t = num_tombstones /\ s = slot
    OBVIOUS
  <1>2. Table(c, e, t, s) /\ e + t <= MaxEntries(c) BY <1>1, InvTable
  <1>3. c \in Powers /\ c \in Nat \ {0} /\ e \in Nat /\ t \in Nat BY <1>2, TableData
  <1>4. e <= MaxEntries(c) BY <1>2, NotFull
  <1>5. PICK new : new = ResizeCapacity(n, e) OBVIOUS
  <1>6. PICK d : d = IF new < c THEN Shrunk(new) ELSE new OBVIOUS
  <1>7. PICK z : z = Rehash(s, c, d) OBVIOUS
  <1>8. capacity' = d /\ num_tombstones' = 0 /\ slot' = z /\ num_entries' = e
    BY <1>1, <1>5, <1>6, <1>7 DEF Resize
  <1>9. new \in Powers /\ e <= MaxEntries(new) BY <1>3, <1>4, <1>5, ResizeFits
  <1>10. d \in Powers /\ d >= MinCapacity /\ e <= MaxEntries(d)
    <2>1. CASE new < c BY <2>1, <1>3, <1>6, <1>9, ShrunkFits
    <2>2. CASE ~(new < c)
      <3>1. d = new BY <2>2, <1>6
      <3>2. c >= MinCapacity BY <1>2 DEF Table
      <3>3. new \in Nat BY <1>9, PowersPositive
      <3>4. QED BY <2>2, <3>1, <3>2, <3>3, <1>3, <1>9 DEF MinCapacity
    <2>3. QED BY <2>1, <2>2
  <1>11. Table(d, e, 0, z) /\ KeysIn(z) = KeysIn(s) BY <1>2, <1>7, <1>10, RehashedTable
  <1>12. e + 0 <= MaxEntries(d) BY <1>3, <1>10
  <1>13. IInv' BY <1>8, <1>11, <1>12, InvTable
  <1>14. QED BY <1>1, <1>8, <1>11, <1>13

\* Clearing empties the table and keeps its capacity.
LEMMA ClearStep ==
  ASSUME IInv, Clear
  PROVE  IInv' /\ KeysIn(slot') = {} /\ num_entries' = 0
  <1>1. PICK c, z : c = capacity /\ z = slot' OBVIOUS
  <1>2. Table(c, num_entries, num_tombstones, slot) BY <1>1, InvTable
  <1>3. c \in Powers /\ DOMAIN slot = 0..(c - 1) BY <1>2, TableData
  <1>4. c >= MinCapacity BY <1>2 DEF Table
  <1>5. z = [i \in 0..(c - 1) |-> EMPTY] BY <1>1, <1>3 DEF Clear
  <1>6. Table(c, 0, 0, z) /\ 0 <= MaxEntries(c) /\ KeysIn(z) = {} BY <1>3, <1>4, <1>5, EmptyTable
  <1>7. capacity' = c /\ num_entries' = 0 /\ num_tombstones' = 0 BY <1>1 DEF Clear
  <1>8. QED BY <1>1, <1>6, <1>7, InvTable

LEMMA StutterStep ==
  ASSUME IInv, UNCHANGED vars
  PROVE  IInv' /\ KeysIn(slot') = KeysIn(slot) /\ num_entries' = num_entries
  <1>1. /\ capacity' = capacity /\ num_entries' = num_entries
        /\ num_tombstones' = num_tombstones /\ slot' = slot
    BY DEF vars
  <1>2. QED BY <1>1, InvTable

LEMMA NextInv == IInv /\ [Operate]_vars => IInv'
  <1> SUFFICES ASSUME IInv, [Operate]_vars PROVE IInv' OBVIOUS
  <1>1. ASSUME NEW k \in Keys, Insert(k) PROVE IInv' BY <1>1, InsertStep
  <1>2. ASSUME NEW k \in Keys, RemoveKey(k) PROVE IInv' BY <1>2, RemoveStep
  <1>3. ASSUME NEW n \in Requests, Resize(n) PROVE IInv' BY <1>3, ResizeStep
  <1>4. CASE Clear BY <1>4, ClearStep
  <1>5. CASE UNCHANGED vars BY <1>5, StutterStep
  <1>6. QED BY <1>1, <1>2, <1>3, <1>4, <1>5 DEF Operate

\* The lookup of a key meets an empty slot: the load limit leaves one, and triangular
\* probing visits every slot of a table of 2^n slots.
LEMMA InvLookupEnds == IInv => LookupEnds
  <1> SUFFICES ASSUME IInv, NEW k \in Keys PROVE FirstProbe(capacity, k, At(slot, EMPTY)) # -1
    BY DEF LookupEnds
  <1>1. PICK c, e, t, s : c = capacity /\ e = num_entries /\ t = num_tombstones /\ s = slot
    OBVIOUS
  <1>2. Table(c, e, t, s) /\ e + t <= MaxEntries(c) BY <1>1, InvTable
  <1>3. e + t < c BY <1>2, NotFull
  <1>4. c \in Powers /\ DOMAIN s = 0..(c - 1) BY <1>2, TableData
  <1>5. PICK x \in 0..(c - 1) : s[x] = EMPTY BY <1>2, <1>3, EmptyExists
  <1>6. PICK stops, i : stops = At(s, EMPTY) /\ i = FirstProbe(c, k, stops) OBVIOUS
  <1>7. x \in stops BY <1>4, <1>5, <1>6 DEF At
  <1>8. i \in 0..(c - 1) BY <1>4, <1>6, <1>7, FirstProbeSucceeds
  <1>9. QED BY <1>1, <1>6, <1>8

\* The keys that lookup finds are those that the slots hold.
LEMMA FoundHeld ==
  /\ IInv => Found = KeysIn(slot)
  /\ IInv' => Found' = KeysIn(slot')
  <1>1. ASSUME NEW c, NEW e, NEW t, NEW s, Table(c, e, t, s)
        PROVE  {k \in Keys : LookupIn(c, s, k) # -1} = KeysIn(s)
    <2>1. KeysIn(s) \subseteq Keys BY <1>1, TableData
    <2>2. ASSUME NEW k \in Keys PROVE LookupIn(c, s, k) # -1 <=> k \in KeysIn(s)
      <3>1. PICK i : i = LookupIn(c, s, k) OBVIOUS
      <3>2. IF k \in KeysIn(s) THEN i \in DOMAIN s \ Free(s) /\ s[i] = k /\ i # -1 ELSE i = -1
        BY <1>1, <3>1, LookupFinds
      <3>3. QED BY <3>1, <3>2
    <2>3. QED BY <2>1, <2>2
  <1>2. IInv => Found = KeysIn(slot)
    <2> SUFFICES ASSUME IInv PROVE Found = KeysIn(slot) OBVIOUS
    <2>1. Table(capacity, num_entries, num_tombstones, slot) BY InvTable
    <2>2. QED BY <2>1, <1>1 DEF Found
  <1>3. IInv' => Found' = KeysIn(slot')
    <2> SUFFICES ASSUME IInv' PROVE Found' = KeysIn(slot') OBVIOUS
    <2>1. PICK c, e, t, s : c = capacity' /\ e = num_entries' /\ t = num_tombstones' /\ s = slot'
      OBVIOUS
    <2>2. Table(c, e, t, s) BY <2>1, InvTable
    <2>3. Found' = {k \in Keys : LookupIn(c, s, k) # -1} BY <2>1 DEF Found, LookupIn, At
    <2>4. QED BY <2>1, <2>2, <2>3, <1>1
  <1>4. QED BY <1>2, <1>3

\* Each call does to the set what it promises, with its own key.
LEMMA CallsAreExact == IInv /\ IInv' => CallsExact
  <1> SUFFICES ASSUME IInv, IInv' PROVE CallsExact OBVIOUS
  <1>1. PICK F, G, e, f : /\ F = Found /\ G = Found' /\ e = num_entries /\ f = num_entries'
                          /\ F = KeysIn(slot) /\ G = KeysIn(slot')
    BY FoundHeld
  <1>2. ASSUME NEW k \in Keys, Insert(k) PROVE Promised!AbsInsert(k)
    <2>1. k \notin F /\ G = F \cup {k} /\ f = e + 1 BY <1>1, <1>2, InsertStep
    <2>2. QED BY <2>1, <1>1 DEF Promised!AbsInsert
  <1>3. ASSUME NEW k \in Keys, RemoveKey(k) PROVE Promised!AbsRemove(k)
    <2>1. k \in F /\ G = F \ {k} /\ f = e - 1 BY <1>1, <1>3, RemoveStep
    <2>2. QED BY <2>1, <1>1 DEF Promised!AbsRemove
  <1>4. ASSUME NEW n \in Requests, Resize(n) PROVE Found' = Found /\ num_entries' = num_entries
    BY <1>1, <1>4, ResizeStep
  <1>5. ASSUME Clear PROVE Promised!AbsClear
    <2>1. Found' = {} /\ num_entries' = 0 BY <1>1, <1>5, ClearStep
    <2>2. QED BY <2>1 DEF Promised!AbsClear
  <1>6. QED BY <1>2, <1>3, <1>4, <1>5 DEF CallsExact

\* Every step of the table is a step of the set: one key comes in, one goes out, all do,
\* or none.
LEMMA StepRefines ==
  IInv /\ IInv' /\ [Operate]_vars => [Promised!AbsNext]_<<Found, num_entries>>
  <1> SUFFICES ASSUME IInv, IInv', [Operate]_vars
               PROVE  Promised!AbsNext \/ (Found' = Found /\ num_entries' = num_entries)
    OBVIOUS
  <1>1. PICK F, G, e, f : /\ F = Found /\ G = Found' /\ e = num_entries /\ f = num_entries'
                          /\ F = KeysIn(slot) /\ G = KeysIn(slot')
    BY FoundHeld
  <1>2. CASE UNCHANGED vars BY <1>1, <1>2, StutterStep
  <1>3. ASSUME NEW k \in Keys, Insert(k), ~ UNCHANGED vars PROVE Promised!AbsNext
    <2>1. Promised!AbsInsert(k) BY <1>3, CallsAreExact DEF CallsExact
    <2>2. k \in Keys \cap (Found' \ Found) BY <2>1 DEF Promised!AbsInsert
    <2>3. QED BY <2>1, <2>2 DEF Promised!AbsNext
  <1>4. ASSUME NEW k \in Keys, RemoveKey(k), ~ UNCHANGED vars PROVE Promised!AbsNext
    <2>1. Promised!AbsRemove(k) BY <1>4, CallsAreExact DEF CallsExact
    <2>2. k \in Found \ Found' BY <2>1 DEF Promised!AbsRemove
    <2>3. QED BY <2>1, <2>2 DEF Promised!AbsNext
  <1>5. ASSUME NEW n \in Requests, Resize(n), ~ UNCHANGED vars
        PROVE  Found' = Found /\ num_entries' = num_entries
    BY <1>5, CallsAreExact DEF CallsExact
  <1>6. ASSUME Clear, ~ UNCHANGED vars PROVE Promised!AbsNext
    BY <1>6, CallsAreExact DEF CallsExact, Promised!AbsNext
  <1>7. QED
    <2>1. CASE ~ UNCHANGED vars BY <1>3, <1>4, <1>5, <1>6, <2>1 DEF Operate
    <2>2. QED BY <1>2, <2>1
-----------------------------------------------------------------------------
(* The theorems.                                                            *)

\* The table is well formed after every sequence of operations: counters exact, load
\* within the limit, every key in one slot that its probe sequence gets to.
THEOREM Invariance == Spec => []IInv
  <1>1. Init => IInv BY InitInv
  <1>2. QED BY <1>1, NextInv, PTL DEF Spec

\* The capacity is always a power of two of at least 8, with a slot for each index.
THEOREM TypeCorrect == Spec => []TypeOK
  <1>1. IInv => TypeOK BY DEF IInv
  <1>2. QED BY <1>1, Invariance, PTL

\* The two counters that drive growing, shrinking and rehashing never drift from what
\* the slots hold.
THEOREM CountersAreExact == Spec => []CountersExact
  <1>1. IInv => CountersExact BY DEF IInv
  <1>2. QED BY <1>1, Invariance, PTL

\* No lookup probes for ever: not in a table at its load limit, not in one full of
\* tombstones, and not with hashes that all collide.
THEOREM LookupsEnd == Spec => []LookupEnds
  BY InvLookupEnds, Invariance, PTL

\* The table implements a set with a count of its keys: no insertion, removal, resize or
\* rehash loses, duplicates or hides a key, and the one key that a call changes is the one
\* it is called with.
THEOREM Refinement == Spec => ImplementsSet
  <1>1. Init => Promised!AbsInit
    <2> SUFFICES ASSUME Init PROVE Found = {} /\ num_entries = 0 BY DEF Promised!AbsInit
    <2>1. Found = {} BY InitInv, FoundHeld
    <2>2. QED BY <2>1 DEF Init
  <1>2. Spec => Promised!AbsSpec
    BY <1>1, StepRefines, Invariance, PTL DEF Spec, Promised!AbsSpec
  <1>3. IInv /\ IInv' => [CallsExact]_vars BY CallsAreExact
  <1>4. Spec => [][CallsExact]_vars BY <1>3, Invariance, PTL
  <1>5. QED BY <1>2, <1>4 DEF ImplementsSet
=============================================================================
