------------------------------ MODULE DataLemmas ------------------------------
(***************************************************************************)
(* Facts about the data the models are made of: naturals, remainders and   *)
(* flattened sequences.  Induction is the well-foundedness of < on the     *)
(* naturals, stated for sets rather than for predicates.                   *)
(***************************************************************************)
EXTENDS Integers, SequencesExt, FiniteSetTheorems, NaturalsInduction, SequenceTheorems, TLAPS

\* A set of naturals that has an element has a least one.
LEMMA LeastElement ==
  ASSUME NEW T \in SUBSET Nat, T # {}
  PROVE  \E m \in T : \A k \in T : m <= k
  <1>1. IsWellFoundedOn({ss \in Nat \X Nat : ss[1] < ss[2]}, Nat)
    BY NatLessThanWellFounded DEF OpToRel
  <1>2. PICK m \in T : \A k \in T : <<k, m>> \notin {ss \in Nat \X Nat : ss[1] < ss[2]}
    BY <1>1, WFMin
  <1>3. \A k \in T : k \in Nat /\ m \in Nat /\ ~(k < m) BY <1>2
  <1>4. \A k \in T : m <= k BY <1>3
  <1>5. QED BY <1>4

\* Induction: a set with 0 and the successor of each of its naturals has them all.
LEMMA SetInduction ==
  ASSUME NEW S, 0 \in S, \A n \in Nat : n \in S => n + 1 \in S
  PROVE  Nat \subseteq S
  <1> SUFFICES ASSUME ~(Nat \subseteq S) PROVE FALSE OBVIOUS
  <1> DEFINE T == Nat \ S
  <1>1. PICK m \in T : \A k \in T : m <= k BY LeastElement
  <1>2. m # 0 /\ m - 1 \in Nat /\ m - 1 \notin T BY <1>1
  <1>3. m - 1 \in S /\ (m - 1) + 1 = m BY <1>2
  <1>4. QED BY <1>1, <1>2, <1>3

LEMMA MinTwo ==
  ASSUME NEW a \in Int, NEW b \in Int
  PROVE  Min({a, b}) = IF a <= b THEN a ELSE b
  <1>1. PICK m \in {a, b} : \A y \in {a, b} : m <= y OBVIOUS
  <1>2. QED BY <1>1 DEF Min

\* Quotient and remainder, and that they are the only ones.
LEMMA DivMod ==
  ASSUME NEW a \in Nat, NEW m \in Nat \ {0}
  PROVE  a \div m \in Nat /\ a % m \in 0..(m - 1) /\ a = m * (a \div m) + (a % m)
  OBVIOUS

LEMMA ModIs ==
  ASSUME NEW a \in Nat, NEW m \in Nat \ {0}, NEW q \in Int, NEW r \in 0..(m - 1),
         a = m * q + r
  PROVE  a % m = r
  <1> DEFINE d == q - (a \div m)
  <1>1. a = m * (a \div m) + (a % m) /\ a \div m \in Nat /\ a % m \in 0..(m - 1)
    BY DivMod
  <1>2. m * d = m * q - m * (a \div m) /\ d \in Int BY <1>1
  <1>3. m * d = (a % m) - r BY <1>1, <1>2
  <1>4. m * d < m /\ m * d > -m BY <1>1, <1>3
  <1>5. d = 0
    <2>1. CASE d >= 1 BY <1>2, <1>4, <2>1
    <2>2. CASE d <= -1 BY <1>2, <1>4, <2>2
    <2>3. QED BY <1>2, <2>1, <2>2
  <1>6. m * d = 0 BY <1>5
  <1>7. QED BY <1>1, <1>3, <1>6

LEMMA ModSmall ==
  ASSUME NEW m \in Nat \ {0}, NEW a \in 0..(m - 1)
  PROVE  a % m = a
  OBVIOUS

LEMMA ModOfMod ==
  ASSUME NEW a \in Nat, NEW b \in Nat, NEW m \in Nat \ {0}
  PROVE  ((a % m) + b) % m = (a + b) % m
  <1> DEFINE c == (a % m) + b
  <1>1. a = m * (a \div m) + (a % m) /\ a \div m \in Nat /\ a % m \in 0..(m - 1)
    BY DivMod
  <1>2. c \in Nat BY <1>1
  <1>3. c = m * (c \div m) + (c % m) /\ c \div m \in Nat /\ c % m \in 0..(m - 1)
    BY <1>2, DivMod
  <1>4. m * ((a \div m) + (c \div m)) = m * (a \div m) + m * (c \div m) BY <1>1, <1>3
  <1>5. a + b = m * (a \div m) + c BY <1>1
  <1> HIDE DEF c
  <1>6. a + b = m * ((a \div m) + (c \div m)) + (c % m) BY <1>1, <1>3, <1>4, <1>5
  <1>7. ASSUME NEW s \in Nat, NEW q \in Int, s = m * q + (c % m)
        PROVE  s % m = c % m
    BY <1>3, <1>7, ModIs
  <1> DEFINE q == (a \div m) + (c \div m)
  <1>8. a + b \in Nat /\ q \in Int /\ a + b = m * q + (c % m) BY <1>1, <1>3, <1>6
  <1> HIDE DEF q
  <1>9. (a + b) % m = c % m BY <1>7, <1>8
  <1>10. QED BY <1>9 DEF c

\* Numbers with the same remainder are equal or far apart.
LEMMA ModApart ==
  ASSUME NEW a \in Nat, NEW b \in Nat, NEW m \in Nat \ {0}, a % m = b % m, a < b
  PROVE  b - a >= m
  <1> DEFINE q == a \div m  r == b \div m
  <1>1. a = m * q + (a % m) /\ b = m * r + (b % m) /\ q \in Nat /\ r \in Nat
    BY DivMod
  <1>2. b - a = m * r - m * q BY <1>1
  <1>3. b - a = m * (r - q) BY <1>1, <1>2
  <1>4. r > q BY <1>1, <1>3
  <1>5. QED BY <1>1, <1>3, <1>4
-----------------------------------------------------------------------------
(* Cutting 0..(n - 1) at increasing bounds 0 = F[0] < F[1] < ... < F[k] = n. *)
Bounds(F, k, n) == /\ F[0] = 0 /\ F[k] = n
                   /\ \A i \in 0..k : F[i] \in Nat
                   /\ \A i \in 1..k : F[i - 1] < F[i]

\* Later bounds are not below earlier ones.
LEMMA BoundsGrow ==
  ASSUME NEW k \in Nat, NEW n, NEW F, Bounds(F, k, n),
         NEW i \in 0..k, NEW j \in i..k
  PROVE  F[i] <= F[j]
  <1> DEFINE S == {d \in Nat : i + d <= k => F[i] <= F[i + d]}
  <1>1. 0 \in S BY DEF Bounds
  <1>2. ASSUME NEW d \in Nat, d \in S PROVE d + 1 \in S
    <2> SUFFICES ASSUME i + (d + 1) <= k PROVE F[i] <= F[i + (d + 1)] OBVIOUS
    <2>1. F[i] <= F[i + d] BY <1>2
    <2>2. i + (d + 1) \in 1..k /\ (i + (d + 1)) - 1 = i + d OBVIOUS
    <2>3. F[i + d] < F[i + (d + 1)] BY <2>2 DEF Bounds
    <2>4. i \in 0..k /\ i + d \in 0..k /\ i + (d + 1) \in 0..k OBVIOUS
    <2>5. QED BY <2>1, <2>3, <2>4 DEF Bounds
  <1> HIDE DEF S
  <1>3. Nat \subseteq S BY <1>1, <1>2, SetInduction
  <1>4. j - i \in S /\ i + (j - i) = j BY <1>3
  <1>5. QED BY <1>4 DEF S

\* Each number is between two neighbouring bounds, and between no others.
LEMMA BoundsTile ==
  ASSUME NEW k \in Nat, NEW n \in Nat, NEW F, Bounds(F, k, n), NEW x \in 0..(n - 1)
  PROVE  \E i \in 1..k : /\ x \in F[i - 1]..(F[i] - 1)
                        /\ \A j \in 1..k : x \in F[j - 1]..(F[j] - 1) => j = i
  <1> DEFINE T == {i \in 0..k : x < F[i]}
  <1>1. k \in T /\ T \in SUBSET Nat BY DEF Bounds
  <1>2. PICK i \in T : \A j \in T : i <= j
    <2> HIDE DEF T
    <2>1. QED BY <1>1, LeastElement
  <1>3. i \in 1..k /\ i - 1 \in 0..k /\ i - 1 \notin T BY <1>2 DEF Bounds
  <1>4. x \in F[i - 1]..(F[i] - 1) BY <1>2, <1>3 DEF Bounds
  <1>5. ASSUME NEW j \in 1..k, x \in F[j - 1]..(F[j] - 1) PROVE j = i
    <2>1. j \in T BY <1>5 DEF Bounds
    <2>2. i <= j BY <1>2, <2>1
    <2>3. CASE i < j
      <3>1. F[i] <= F[j - 1] BY <1>3, <2>3, BoundsGrow
      <3>2. i \in 0..k /\ j - 1 \in 0..k /\ j \in 0..k BY <1>3
      <3>3. QED BY <1>4, <1>5, <3>1, <3>2 DEF Bounds
    <2>4. QED BY <2>2, <2>3, <1>3
  <1>6. QED BY <1>3, <1>4, <1>5

\* The bounds that give each of k parts q numbers and the first r one more.
LEMMA EvenBounds ==
  ASSUME NEW k \in Nat \ {0}, NEW q \in Nat, NEW r \in 0..k, q # 0 \/ r = k,
         NEW F, \A i \in 0..k : F[i] = i * q + Min({i, r})
  PROVE  Bounds(F, k, k * q + r)
  <1>1. \A i \in 0..k : F[i] = i * q + (IF i <= r THEN i ELSE r)
    <2> TAKE i \in 0..k
    <2>1. Min({i, r}) = IF i <= r THEN i ELSE r BY MinTwo
    <2>2. QED BY <2>1
  <1>2. F[0] = 0 BY <1>1
  <1>3. F[k] = k * q + r BY <1>1
  <1>4. \A i \in 0..k : F[i] \in Nat
    <2> SUFFICES ASSUME NEW i \in 0..k PROVE F[i] \in Nat OBVIOUS
    <2>1. i * q \in Nat OBVIOUS
    <2>2. QED BY <1>1, <2>1
  <1>5. ASSUME NEW i \in 1..k PROVE F[i - 1] < F[i]
    <2>1. i * q = (i - 1) * q + q OBVIOUS
    <2>2. (i - 1) * q \in Nat /\ i - 1 \in 0..k /\ i \in 0..k OBVIOUS
    <2> DEFINE p == (i - 1) * q
    <2>3. F[i - 1] = p + (IF i - 1 <= r THEN i - 1 ELSE r) BY <1>1, <2>2
    <2>4. F[i] = (p + q) + (IF i <= r THEN i ELSE r) BY <1>1, <2>1, <2>2
    <2> HIDE DEF p
    <2>5. p \in Nat BY <2>2 DEF p
    <2>6. QED BY <2>3, <2>4, <2>5
  <1>6. QED BY <1>2, <1>3, <1>4, <1>5 DEF Bounds
-----------------------------------------------------------------------------
(* Sequences of one or two elements. *)

LEMMA ShortSequences ==
  ASSUME NEW x, NEW y
  PROVE  /\ Append(<<>>, x) = <<x>> /\ Append(<<x>>, y) = <<x, y>>
         /\ Head(<<x>>) = x /\ Tail(<<x>>) = <<>>
         /\ Head(<<x, y>>) = x /\ Tail(<<x, y>>) = <<y>>
  <1> DEFINE S == {x, y}
  <1>1. <<>> \in Seq(S) /\ <<x>> \in Seq(S) /\ <<y>> \in Seq(S) /\ <<x, y>> \in Seq(S) OBVIOUS
  <1>2. Append(<<>>, x) = <<x>>
    <2>1. Append(<<>>, x) \in Seq(S) /\ Len(Append(<<>>, x)) = 1 /\ Append(<<>>, x)[1] = x
      BY <1>1, AppendProperties
    <2>2. QED BY <1>1, <2>1, SeqEqual
  <1>3. Append(<<x>>, y) = <<x, y>>
    <2>1. Append(<<x>>, y) \in Seq(S) /\ Len(Append(<<x>>, y)) = 2
      BY <1>1, AppendProperties
    <2>2. Append(<<x>>, y)[1] = x /\ Append(<<x>>, y)[2] = y
      BY <1>1, AppendProperties
    <2> DEFINE s == Append(<<x>>, y)  t == <<x, y>>
    <2>3. Len(t) = 2 /\ t[1] = x /\ t[2] = y /\ t \in Seq(S) BY <1>1
    <2>4. s \in Seq(S) /\ Len(s) = 2 /\ s[1] = x /\ s[2] = y BY <2>1, <2>2
    <2> HIDE DEF s, t
    <2>5. \A i \in 1..2 : i = 1 \/ i = 2 OBVIOUS
    <2>6. \A i \in 1..Len(s) : s[i] = t[i] BY <2>3, <2>4, <2>5
    <2>7. s = t BY <2>3, <2>4, <2>6, SeqEqual
    <2>8. QED BY <2>7 DEF s, t
  <1>4. Tail(<<x>>) = <<>> OBVIOUS
  <1>5. Tail(<<x, y>>) = <<y>> OBVIOUS
  <1>6. QED BY <1>2, <1>3, <1>4, <1>5
-----------------------------------------------------------------------------
(* FlattenSeq, the concatenation of a sequence of sequences. *)

\* What the concatenation of the first i sequences is, for every i.
Concatenations(f, seqs, n) ==
  f = [i \in 1..n |-> IF i = 1 THEN seqs[i] ELSE f[i - 1] \o seqs[i]]

LEMMA ConcatenationsExist ==
  ASSUME NEW n \in Nat, NEW seqs
  PROVE  \E f : Concatenations(f, seqs, n)
  <1> DEFINE S == {k \in Nat : \E f : Concatenations(f, seqs, k)}
  <1>1. 0 \in S
    <2>1. Concatenations([i \in 1..0 |-> 0], seqs, 0) BY DEF Concatenations
    <2>2. QED BY <2>1
  <1>2. ASSUME NEW k \in Nat, k \in S PROVE k + 1 \in S
    <2>1. PICK f : Concatenations(f, seqs, k) BY <1>2
    <2> DEFINE g == [i \in 1..(k + 1) |->
                       IF i <= k THEN f[i]
                       ELSE IF i = 1 THEN seqs[i] ELSE f[i - 1] \o seqs[i]]
    <2>2. ASSUME NEW i \in 1..(k + 1)
          PROVE  g[i] = IF i = 1 THEN seqs[i] ELSE g[i - 1] \o seqs[i]
      <3>1. i # 1 => i - 1 \in 1..(k + 1) /\ i - 1 <= k OBVIOUS
      <3>2. i # 1 => g[i - 1] = f[i - 1] BY <3>1
      <3>3. CASE i <= k
        <4>1. i \in 1..k BY <3>3
        <4>2. f[i] = IF i = 1 THEN seqs[i] ELSE f[i - 1] \o seqs[i]
          BY <2>1, <4>1 DEF Concatenations
        <4>3. g[i] = f[i] BY <3>3
        <4>4. QED BY <3>2, <4>2, <4>3
      <3>4. CASE ~(i <= k) BY <3>2, <3>4
      <3>5. QED BY <3>3, <3>4
    <2>3. DOMAIN g = 1..(k + 1) /\ g = [i \in DOMAIN g |-> g[i]] OBVIOUS
    <2> HIDE DEF g
    <2>4. g = [i \in 1..(k + 1) |-> IF i = 1 THEN seqs[i] ELSE g[i - 1] \o seqs[i]]
      BY <2>2, <2>3
    <2>5. Concatenations(g, seqs, k + 1) BY <2>4 DEF Concatenations
    <2>6. QED BY <2>5
  <1>3. n \in S
    <2> HIDE DEF S
    <2>1. QED BY <1>1, <1>2, SetInduction
  <1>4. QED BY <1>3

\* The elements of the concatenation are those of the sequences, and it has none
\* of them twice if they have not.
LEMMA Flattened ==
  ASSUME NEW W, NEW n \in Nat, NEW seqs \in [1..n -> Seq(W)]
  PROVE  /\ FlattenSeq(seqs) \in Seq(W)
         /\ Range(FlattenSeq(seqs)) = UNION {Range(seqs[i]) : i \in 1..n}
         /\ /\ \A i \in 1..n : IsInjective(seqs[i])
            /\ \A i, j \in 1..n : i # j => Range(seqs[i]) \cap Range(seqs[j]) = {}
            => IsInjective(FlattenSeq(seqs))
  <1>1. Len(seqs) = n OBVIOUS
  <1>2. CASE n = 0
    <2>1. seqs = <<>> /\ FlattenSeq(seqs) = <<>> BY <1>1, <1>2 DEF FlattenSeq
    <2>2. Range(<<>>) = {} /\ IsInjective(<<>>) BY DEF Range, IsInjective
    <2>3. UNION {Range(seqs[i]) : i \in 1..n} = {} BY <1>2
    <2>4. <<>> \in Seq(W) OBVIOUS
    <2>5. QED BY <2>1, <2>2, <2>3, <2>4
  <1>3. CASE n # 0
    <2> DEFINE g == CHOOSE f : Concatenations(f, seqs, n)
    <2>1. Concatenations(g, seqs, n) BY ConcatenationsExist
    <2>2. FlattenSeq(seqs) = g[n] BY <1>1, <1>3 DEF FlattenSeq, Concatenations
    <2> HIDE DEF g
    <2>3. g[1] = seqs[1] /\ \A i \in 2..n : g[i] = g[i - 1] \o seqs[i]
      <3>1. \A i \in 1..n : g[i] = IF i = 1 THEN seqs[i] ELSE g[i - 1] \o seqs[i]
        BY <2>1 DEF Concatenations
      <3>2. g[1] = seqs[1] BY <1>3, <3>1
      <3>3. ASSUME NEW i \in 2..n PROVE g[i] = g[i - 1] \o seqs[i]
        <4>1. i \in 1..n /\ i # 1 OBVIOUS
        <4>2. QED BY <3>1, <4>1
      <3>4. QED BY <3>2, <3>3
    <2> DEFINE Good(k) ==
          /\ g[k] \in Seq(W)
          /\ Range(g[k]) = UNION {Range(seqs[i]) : i \in 1..k}
          /\ /\ \A i \in 1..n : IsInjective(seqs[i])
             /\ \A i, j \in 1..n : i # j => Range(seqs[i]) \cap Range(seqs[j]) = {}
             => IsInjective(g[k])
               S == {k \in Nat : k + 1 <= n => Good(k + 1)}
    <2>4. 0 \in S
      <3>1. 1 \in 1..n BY <1>3
      <3>2. Good(1) BY <2>3, <3>1
      <3>3. QED BY <3>2
    <2>5. ASSUME NEW d \in Nat, d \in S PROVE d + 1 \in S
      <3> DEFINE k == d + 1
      <3> SUFFICES ASSUME k + 1 <= n PROVE Good(k + 1) OBVIOUS
      <3>1. Good(k) /\ k \in 1..n /\ k + 1 \in 2..n BY <2>5
      <3>2. g[k + 1] = g[k] \o seqs[k + 1]
        <4>1. (k + 1) - 1 = k OBVIOUS
        <4>2. QED BY <2>3, <3>1, <4>1
      <3>3. g[k] \in Seq(W) /\ seqs[k + 1] \in Seq(W) BY <3>1
      <3>4. /\ g[k + 1] \in Seq(W)
            /\ Len(g[k + 1]) = Len(g[k]) + Len(seqs[k + 1])
            /\ \A i \in 1..Len(g[k + 1]) :
                 g[k + 1][i] = IF i <= Len(g[k]) THEN g[k][i] ELSE seqs[k + 1][i - Len(g[k])]
        <4> DEFINE a == g[k]  b == seqs[k + 1]
        <4>1. a \in Seq(W) /\ b \in Seq(W) /\ g[k + 1] = a \o b BY <3>2, <3>3
        <4> HIDE DEF a, b
        <4>2. /\ a \o b \in Seq(W)
              /\ Len(a \o b) = Len(a) + Len(b)
              /\ \A i \in 1..(Len(a) + Len(b)) :
                   (a \o b)[i] = IF i <= Len(a) THEN a[i] ELSE b[i - Len(a)]
          BY <4>1, ConcatProperties
        <4>3. QED BY <4>1, <4>2 DEF a, b
      <3>5. Range(g[k + 1]) = Range(g[k]) \cup Range(seqs[k + 1])
        BY <3>2, <3>3, RangeConcatenation
      <3>6. Range(g[k + 1]) = UNION {Range(seqs[i]) : i \in 1..(k + 1)}
        <4>1. 1..(k + 1) = (1..k) \cup {k + 1} OBVIOUS
        <4>2. QED BY <3>1, <3>5, <4>1
      <3>7. ASSUME \A i \in 1..n : IsInjective(seqs[i]),
                   \A i, j \in 1..n : i # j => Range(seqs[i]) \cap Range(seqs[j]) = {}
            PROVE  IsInjective(g[k + 1])
        <4>1. IsInjective(g[k]) /\ IsInjective(seqs[k + 1]) BY <3>1, <3>7
        <4>2. Range(g[k]) \cap Range(seqs[k + 1]) = {}
          <5>1. ASSUME NEW i \in 1..k PROVE Range(seqs[i]) \cap Range(seqs[k + 1]) = {}
            <6>1. i \in 1..n /\ k + 1 \in 1..n /\ i # k + 1 BY <3>1
            <6>2. QED BY <3>7, <6>1
          <5>2. QED BY <3>1, <5>1
        <4> DEFINE s == g[k]  t == seqs[k + 1]  u == g[k + 1]
        <4>3. /\ Len(s) \in Nat /\ DOMAIN s = 1..Len(s)
              /\ Len(t) \in Nat /\ DOMAIN t = 1..Len(t)
              /\ DOMAIN u = 1..(Len(s) + Len(t))
              /\ \A i \in DOMAIN u : u[i] = IF i <= Len(s) THEN s[i] ELSE t[i - Len(s)]
          BY <3>3, <3>4, LenProperties
        <4> HIDE DEF s, t, u
        <4>4. ASSUME NEW i \in DOMAIN u, NEW j \in DOMAIN u, u[i] = u[j] PROVE i = j
          <5>1. CASE i <= Len(s) /\ j <= Len(s)
            <6>1. i \in DOMAIN s /\ j \in DOMAIN s /\ s[i] = s[j] BY <4>3, <4>4, <5>1
            <6>2. QED BY <4>1, <6>1 DEF s, IsInjective
          <5>2. CASE ~(i <= Len(s)) /\ ~(j <= Len(s))
            <6>1. /\ i - Len(s) \in DOMAIN t /\ j - Len(s) \in DOMAIN t
                  /\ t[i - Len(s)] = t[j - Len(s)]
              BY <4>3, <4>4, <5>2
            <6>2. i - Len(s) = j - Len(s) BY <4>1, <6>1 DEF t, IsInjective
            <6>3. QED BY <4>3, <6>2
          <5>3. ASSUME NEW x \in DOMAIN u, NEW y \in DOMAIN u, x <= Len(s), ~(y <= Len(s))
                PROVE  u[x] # u[y]
            <6>1. x \in DOMAIN s /\ y - Len(s) \in DOMAIN t BY <4>3, <5>3
            <6>2. u[x] \in Range(s) /\ u[y] \in Range(t) BY <4>3, <5>3, <6>1 DEF Range
            <6>3. QED BY <4>2, <6>2 DEF s, t
          <5>4. QED BY <4>4, <5>1, <5>2, <5>3
        <4>5. QED BY <4>4 DEF u, IsInjective
      <3>8. QED BY <3>4, <3>6, <3>7
    <2> HIDE DEF S
    <2>6. Nat \subseteq S BY <2>4, <2>5, SetInduction
    <2>7. n - 1 \in S /\ (n - 1) + 1 = n BY <1>3, <2>6
    <2>8. Good(n) BY <2>7 DEF S
    <2>9. QED BY <2>2, <2>8
  <1>4. QED BY <1>2, <1>3
=============================================================================
