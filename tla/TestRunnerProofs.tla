--------------------------- MODULE TestRunnerProofs ---------------------------
(***************************************************************************)
(* The test runner splits every test into shares that tile its inputs,     *)
(* keeps its pool of workers exact and reports the verdict of a serial     *)
(* run, for any registered tests, number of jobs and order in which the    *)
(* workers end.                                                            *)
(***************************************************************************)
EXTENDS TestRunner, DataLemmas

USE WordAssumption

\* What SuitesAssumption says of one test.
IsTest(test) ==
  \/ test.type = "simple" /\ test.should_succeed \in BOOLEAN
  \/ /\ test.type = "range" /\ test.should_succeed = TRUE
     /\ {test.start, test.end} \subseteq Inputs64 /\ test.start <= test.end
  \/ /\ test.type = "random" /\ test.should_succeed = TRUE
     /\ test.num_values \in Inputs64 \ {0}

\* The shares of a test tile its inputs and none is empty.
Tiled(test, parts) ==
  /\ UNION {ShareInputs(test, parts[j]) : j \in DOMAIN parts} = Whole(test)
  /\ \A i, j \in DOMAIN parts :
       i # j => ShareInputs(test, parts[i]) \cap ShareInputs(test, parts[j]) = {}
  /\ \A i \in DOMAIN parts : ShareInputs(test, parts[i]) # {}

\* The inputs from place a up to but not including place b of an order P of them.
Cut(P, a, b) == {P[x] : x \in a..(b - 1)}

\* Whatever order P puts the inputs of a test in, cutting it at bounds tiles them.
LEMMA CutsTile ==
  ASSUME NEW k \in Nat \ {0}, NEW n \in Nat, NEW F, Bounds(F, k, n),
         NEW P, \A x, y \in 0..(n - 1) : P[x] = P[y] => x = y,
         NEW test, Whole(test) = Cut(P, 0, n),
         NEW parts, DOMAIN parts = 1..k,
         \A i \in 1..k : ShareInputs(test, parts[i]) = Cut(P, F[i - 1], F[i])
  PROVE  Tiled(test, parts)
  <1> USE DEF Cut
  <1>1. ASSUME NEW i \in 1..k
        PROVE  F[i - 1]..(F[i] - 1) \subseteq 0..(n - 1) /\ F[i - 1] \in F[i - 1]..(F[i] - 1)
    <2>1. i - 1 \in 0..k /\ i \in 0..k /\ k \in i..k OBVIOUS
    <2>2. F[i] <= F[k] BY <2>1, BoundsGrow
    <2>3. QED BY <2>1, <2>2 DEF Bounds
  <1>2. ASSUME NEW y \in Whole(test)
        PROVE  \E j \in 1..k : y \in ShareInputs(test, parts[j])
    <2>1. PICK x \in 0..(n - 1) : y = P[x] OBVIOUS
    <2>2. PICK i \in 1..k : x \in F[i - 1]..(F[i] - 1) BY BoundsTile
    <2>3. QED BY <2>1, <2>2
  <1>3. ASSUME NEW j \in 1..k PROVE ShareInputs(test, parts[j]) \subseteq Whole(test)
    BY <1>1
  <1>4. ASSUME NEW i \in 1..k, NEW j \in 1..k, NEW y,
               y \in ShareInputs(test, parts[i]), y \in ShareInputs(test, parts[j])
        PROVE  i = j
    <2>1. PICK x \in F[i - 1]..(F[i] - 1) : y = P[x] BY <1>4
    <2>2. PICK z \in F[j - 1]..(F[j] - 1) : y = P[z] BY <1>4
    <2>3. x \in 0..(n - 1) /\ z \in 0..(n - 1) BY <1>1, <2>1, <2>2
    <2>4. x = z BY <2>1, <2>2, <2>3
    <2>5. QED BY <2>2, <2>3, <2>4, BoundsTile
  <1>5. ASSUME NEW i \in 1..k PROVE ShareInputs(test, parts[i]) # {}
    <2>1. P[F[i - 1]] \in {P[x] : x \in F[i - 1]..(F[i] - 1)} BY <1>1
    <2>2. QED BY <2>1
  <1>6. UNION {ShareInputs(test, parts[j]) : j \in DOMAIN parts} = Whole(test)
    <2>1. ASSUME NEW y \in UNION {ShareInputs(test, parts[j]) : j \in DOMAIN parts}
          PROVE  y \in Whole(test)
      <3>1. PICK j \in 1..k : y \in ShareInputs(test, parts[j]) OBVIOUS
      <3>2. QED BY <3>1, <1>3
    <2>2. ASSUME NEW y \in Whole(test)
          PROVE  y \in UNION {ShareInputs(test, parts[j]) : j \in DOMAIN parts}
      <3>1. PICK j \in 1..k : y \in ShareInputs(test, parts[j]) BY <1>2
      <3>2. QED BY <3>1
    <2>3. QED BY <2>1, <2>2
  <1>7. ASSUME NEW i \in DOMAIN parts, NEW j \in DOMAIN parts, i # j
        PROVE  ShareInputs(test, parts[i]) \cap ShareInputs(test, parts[j]) = {}
    BY <1>4, <1>7
  <1>8. QED BY <1>5, <1>6, <1>7 DEF Tiled

\* A range, whose first workers get an input more than the others.
LEMMA RangeTiled ==
  ASSUME NEW test, IsTest(test), test.type = "range", NEW jobs \in Nat \ {0}
  PROVE  /\ Len(RangeShares(test, jobs)) \in 1..jobs
         /\ DOMAIN RangeShares(test, jobs) = 1..Len(RangeShares(test, jobs))
         /\ Tiled(test, RangeShares(test, jobs))
  <1> DEFINE s   == test.start
             n   == Wrap(test.end - test.start)
             num == IF jobs - 1 > n THEN n + 1 ELSE jobs
             q   == n \div num
             rem == (n % num) + 1
             F   == [i \in 0..num |-> i * q + Min({i, rem})]
             P   == [x \in 0..n |-> s + x]
             parts == RangeShares(test, jobs)
  <1>1. s \in Nat /\ n \in Nat /\ n = test.end - s /\ s + n < UINT64_RANGE
    BY ModSmall DEF IsTest, Inputs64, Wrap
  <1> HIDE DEF n
  <1>2. num \in Nat \ {0} /\ num <= jobs /\ num <= n + 1 BY <1>1
  <1>3. q \in Nat /\ rem \in 1..num /\ n + 1 = num * q + rem
    <2> HIDE DEF num
    <2>1. n \div num \in Nat /\ n % num \in 0..(num - 1) /\ n = num * (n \div num) + (n % num)
      BY <1>1, <1>2, DivMod
    <2> HIDE DEF q
    <2>2. q \in Nat /\ n = num * q + (n % num) BY <2>1 DEF q
    <2> DEFINE p == num * q  r == n % num
    <2>3. p \in Nat BY <1>2, <2>2
    <2>4. r \in 0..(num - 1) /\ n = p + r /\ rem = r + 1 BY <2>1, <2>2
    <2> HIDE DEF p, r, rem
    <2>5. rem \in 1..num /\ n + 1 = p + rem BY <1>1, <1>2, <2>3, <2>4
    <2>6. QED BY <2>2, <2>5 DEF p
  <1>4. q # 0 \/ rem = num
    <2>1. CASE q = 0
      <3>1. n + 1 = rem BY <1>1, <1>3, <2>1
      <3>2. QED BY <1>2, <1>3, <3>1
    <2>2. QED BY <2>1
  <1> HIDE DEF num, q, rem
  <1>5. Bounds(F, num, n + 1)
    <2>1. rem \in 0..num BY <1>2, <1>3
    <2>2. \A i \in 0..num : F[i] = i * q + Min({i, rem}) OBVIOUS
    <2> HIDE DEF F
    <2>3. QED BY <1>2, <1>3, <1>4, <2>1, <2>2, EvenBounds
  <1>6. parts = [t \in 1..num |-> [start |-> Wrap(s + F[t - 1]), end |-> Wrap(s - 1 + F[t])]]
    <2>1. \A t \in 1..num : t \in 0..num /\ t - 1 \in 0..num BY <1>2
    <2>2. parts = [t \in 1..num |->
                    [start |-> Wrap(s + ((t - 1) * q + Min({t - 1, rem}))),
                     end   |-> Wrap(s - 1 + (t * q + Min({t, rem})))]]
      BY DEF RangeShares, n, num, q, rem
    <2>3. QED BY <2>1, <2>2
  <1> HIDE DEF F, parts
  <1>7. DOMAIN parts = 1..num /\ Len(parts) = num BY <1>2, <1>6
  <1>8. ASSUME NEW i \in 1..num
        PROVE  ShareInputs(test, parts[i]) = Cut(P, F[i - 1], F[i])
    <2>1. i - 1 \in 0..num /\ i \in 0..num /\ num \in i..num BY <1>2
    <2>2. F[i] <= n + 1 /\ F[i] \in Nat /\ F[i - 1] \in Nat /\ F[i - 1] < F[i]
      BY <1>2, <1>5, <2>1, BoundsGrow DEF Bounds
    <2>3. s + F[i - 1] \in 0..(UINT64_RANGE - 1) /\ s - 1 + F[i] \in 0..(UINT64_RANGE - 1)
      BY <1>1, <2>2
    <2>4. parts[i].start = s + F[i - 1] /\ parts[i].end = s - 1 + F[i]
      BY <1>6, <2>3, ModSmall DEF Wrap
    <2>5. ShareInputs(test, parts[i]) = (s + F[i - 1])..(s - 1 + F[i])
      BY <2>4 DEF ShareInputs
    <2>6. ASSUME NEW y \in (s + F[i - 1])..(s - 1 + F[i])
          PROVE  \E x \in F[i - 1]..(F[i] - 1) : y = P[x]
      <3>1. y - s \in F[i - 1]..(F[i] - 1) /\ y - s \in 0..n /\ y = s + (y - s)
        BY <1>1, <2>2
      <3>2. QED BY <3>1
    <2>7. ASSUME NEW x \in F[i - 1]..(F[i] - 1)
          PROVE  P[x] \in (s + F[i - 1])..(s - 1 + F[i])
      <3>1. x \in 0..n /\ s + x >= s + F[i - 1] /\ s + x <= s - 1 + F[i] BY <1>1, <2>2
      <3>2. P[x] = s + x BY <3>1
      <3>3. s + x \in Int /\ s + F[i - 1] \in Int /\ s - 1 + F[i] \in Int BY <1>1, <2>2, <3>1
      <3>4. QED BY <3>1, <3>2, <3>3
    <2> HIDE DEF P
    <2>8. QED BY <2>5, <2>6, <2>7 DEF Cut
  <1>9. Whole(test) = Cut(P, 0, n + 1)
    <2>1. s + n = test.end BY <1>1 DEF IsTest, Inputs64
    <2>9. Whole(test) = s..(s + n) BY <2>1 DEF Whole
    <2>2. (n + 1) - 1 = n BY <1>1
    <2>3. ASSUME NEW y \in s..(s + n) PROVE \E x \in 0..n : y = P[x]
      <3>1. y - s \in 0..n /\ y = s + (y - s) BY <1>1
      <3>2. QED BY <3>1
    <2>4. ASSUME NEW x \in 0..n PROVE P[x] \in s..(s + n) BY <1>1
    <2> HIDE DEF P
    <2>5. QED BY <2>9, <2>2, <2>3, <2>4 DEF Cut
  <1>10. \A x, y \in 0..((n + 1) - 1) : P[x] = P[y] => x = y BY <1>1
  <1>11. n + 1 \in Nat BY <1>1
  <1> HIDE DEF P
  <1>12. Tiled(test, parts)
    <2> DEFINE m == n + 1
    <2>1. /\ m \in Nat /\ Bounds(F, num, m) /\ Whole(test) = Cut(P, 0, m)
          /\ \A x, y \in 0..(m - 1) : P[x] = P[y] => x = y
      BY <1>5, <1>9, <1>10, <1>11
    <2> HIDE DEF m
    <2>2. QED BY <1>2, <1>7, <1>8, <2>1, CutsTile
  <1>13. QED BY <1>2, <1>7, <1>12 DEF parts

\* A random test, whose shares are cut out of one stream of random numbers.
LEMMA RandomTiled ==
  ASSUME NEW test, IsTest(test), test.type = "random", NEW jobs \in Nat \ {0},
         global_seed \in Nat
  PROVE  /\ Len(RandomShares(test, jobs)) \in 1..jobs
         /\ DOMAIN RandomShares(test, jobs) = 1..Len(RandomShares(test, jobs))
         /\ Tiled(test, RandomShares(test, jobs))
  <1> DEFINE n   == test.num_values
             num == Min({jobs, n})
             q   == n \div num
             rem == n % num
             F   == [i \in 0..num |-> i * q + Min({i, rem})]
             P   == [x \in 0..(n - 1) |-> Wrap(global_seed + (x + 1))]
             parts == RandomShares(test, jobs)
  <1>1. n \in Nat \ {0} /\ n < UINT64_RANGE /\ Whole(test) = {Wrap(global_seed + i) : i \in 1..n}
    BY DEF IsTest, Inputs64, Whole
  <1> HIDE DEF n
  <1>2. num \in Nat \ {0} /\ num <= jobs /\ num <= n
    <2>1. num = IF jobs <= n THEN jobs ELSE n BY <1>1, MinTwo
    <2> HIDE DEF num
    <2>2. QED BY <1>1, <2>1
  <1> HIDE DEF num
  <1>3. q \in Nat /\ rem \in 0..(num - 1) /\ n = num * q + rem BY <1>1, <1>2, DivMod
  <1> HIDE DEF q, rem
  <1>4. q # 0
    <2> SUFFICES ASSUME q = 0 PROVE FALSE OBVIOUS
    <2>1. n = rem BY <1>1, <1>2, <1>3
    <2>2. QED BY <1>2, <1>3, <2>1
  <1>5. Bounds(F, num, n)
    <2>1. rem \in 0..num BY <1>2, <1>3
    <2>2. \A i \in 0..num : F[i] = i * q + Min({i, rem}) OBVIOUS
    <2> HIDE DEF F
    <2>3. QED BY <1>2, <1>3, <1>4, <2>1, <2>2, EvenBounds
  <1>6. parts = [t \in 1..num |-> [num_values |-> F[t] - F[t - 1],
                                  seed |-> Wrap(global_seed + F[t - 1])]]
    <2>1. \A t \in 1..num : t \in 0..num /\ t - 1 \in 0..num BY <1>2
    <2>2. parts = [t \in 1..num |->
                    [num_values |-> (t * q + Min({t, rem})) - ((t - 1) * q + Min({t - 1, rem})),
                     seed |-> Wrap(global_seed + ((t - 1) * q + Min({t - 1, rem})))]]
      BY DEF RandomShares, n, num, q, rem
    <2>3. QED BY <2>1, <2>2
  <1> HIDE DEF F, parts
  <1>7. DOMAIN parts = 1..num /\ Len(parts) = num BY <1>2, <1>6
  <1>8. ASSUME NEW i \in 1..num
        PROVE  ShareInputs(test, parts[i]) = Cut(P, F[i - 1], F[i])
    <2>1. i - 1 \in 0..num /\ i \in 0..num /\ num \in i..num BY <1>2
    <2>2. F[i] <= n /\ F[i] \in Nat /\ F[i - 1] \in Nat /\ F[i - 1] < F[i]
      BY <1>2, <1>5, <2>1, BoundsGrow DEF Bounds
    <2> DEFINE a == F[i - 1]  b == F[i]
    <2>3. ShareInputs(test, parts[i]) = {Wrap(Wrap(global_seed + a) + j) : j \in 1..(b - a)}
      BY <1>6 DEF ShareInputs
    <2>4. b <= n /\ b \in Nat /\ a \in Nat /\ a < b BY <2>2
    <2> HIDE DEF a, b
    <2>5. ASSUME NEW j \in 1..(b - a)
          PROVE  Wrap(Wrap(global_seed + a) + j) = Wrap(global_seed + (a + j))
      <3>1. global_seed + a \in Nat /\ j \in Nat /\ (global_seed + a) + j = global_seed + (a + j)
        BY <2>4
      <3>2. QED BY <3>1, ModOfMod DEF Wrap
    <2>6. ASSUME NEW j \in 1..(b - a)
          PROVE  Wrap(Wrap(global_seed + a) + j) \in Cut(P, a, b)
      <3>1. /\ (a + j) - 1 \in a..(b - 1) /\ (a + j) - 1 \in 0..(n - 1)
            /\ ((a + j) - 1) + 1 = a + j
        BY <1>1, <2>4
      <3>2. P[(a + j) - 1] = Wrap(global_seed + (a + j)) BY <3>1
      <3>3. P[(a + j) - 1] \in Cut(P, a, b) BY <3>1 DEF Cut
      <3>4. QED BY <2>5, <3>2, <3>3
    <2>7. ASSUME NEW x \in a..(b - 1)
          PROVE  \E j \in 1..(b - a) : P[x] = Wrap(Wrap(global_seed + a) + j)
      <3>1. (x + 1) - a \in 1..(b - a) /\ x \in 0..(n - 1) /\ a + ((x + 1) - a) = x + 1
        BY <1>1, <2>4
      <3>2. P[x] = Wrap(global_seed + (a + ((x + 1) - a))) BY <3>1
      <3>3. QED BY <2>5, <3>1, <3>2
    <2> HIDE DEF P
    <2>8. ASSUME NEW y \in Cut(P, a, b)
          PROVE  y \in {Wrap(Wrap(global_seed + a) + j) : j \in 1..(b - a)}
      <3>1. PICK x \in a..(b - 1) : y = P[x] BY DEF Cut
      <3>2. QED BY <2>7, <3>1
    <2>9. ShareInputs(test, parts[i]) = Cut(P, a, b) BY <2>3, <2>6, <2>8
    <2>10. QED BY <2>9 DEF a, b
  <1>9. Whole(test) = Cut(P, 0, n)
    <2>1. ASSUME NEW i \in 1..n PROVE Wrap(global_seed + i) \in Cut(P, 0, n)
      <3>1. i - 1 \in 0..(n - 1) /\ (i - 1) + 1 = i BY <1>1
      <3>2. P[i - 1] = Wrap(global_seed + i) BY <3>1
      <3>3. QED BY <3>1, <3>2 DEF Cut
    <2>2. ASSUME NEW y \in Cut(P, 0, n) PROVE y \in {Wrap(global_seed + i) : i \in 1..n}
      <3>1. PICK x \in 0..(n - 1) : y = P[x] BY DEF Cut
      <3>2. x + 1 \in 1..n /\ y = Wrap(global_seed + (x + 1)) BY <1>1, <3>1
      <3>3. QED BY <3>2
    <2> HIDE DEF P
    <2>3. QED BY <1>1, <2>1, <2>2
  <1>10. ASSUME NEW x \in 0..(n - 1), NEW y \in 0..(n - 1), P[x] = P[y] PROVE x = y
    <2> DEFINE a == global_seed + (x + 1)  b == global_seed + (y + 1)
    <2>1. a \in Nat /\ b \in Nat /\ a % UINT64_RANGE = b % UINT64_RANGE
      BY <1>1, <1>10 DEF Wrap
    <2>2. a - b < UINT64_RANGE /\ b - a < UINT64_RANGE BY <1>1
    <2> HIDE DEF a, b
    <2>3. ~(a < b)
      <3> SUFFICES ASSUME a < b PROVE FALSE OBVIOUS
      <3>1. b - a >= UINT64_RANGE BY <2>1, ModApart
      <3>2. QED BY <2>1, <2>2, <3>1
    <2>4. ~(b < a)
      <3> SUFFICES ASSUME b < a PROVE FALSE OBVIOUS
      <3>1. a - b >= UINT64_RANGE BY <2>1, ModApart
      <3>2. QED BY <2>1, <2>2, <3>1
    <2>5. a = b BY <2>1, <2>3, <2>4
    <2>6. QED BY <1>1, <2>5 DEF a, b
  <1> HIDE DEF P
  <1>11. Tiled(test, parts) BY <1>1, <1>2, <1>5, <1>7, <1>8, <1>9, <1>10, CutsTile
  <1>12. QED BY <1>2, <1>7, <1>11 DEF parts

\* The shares of any test, of which there are at most as many as jobs.
LEMMA SharesTile ==
  ASSUME NEW test, IsTest(test), NEW jobs \in Nat \ {0}, global_seed \in Nat
  PROVE  /\ Len(Shares(test, jobs)) \in 1..jobs
         /\ DOMAIN Shares(test, jobs) = 1..Len(Shares(test, jobs))
         /\ Tiled(test, Shares(test, jobs))
  <1>1. CASE test.type = "simple"
    <2> DEFINE parts == <<[start |-> 0, end |-> 0]>>
    <2>1. Shares(test, jobs) = parts /\ Whole(test) = {0} BY <1>1 DEF Shares, Whole
    <2>2. Len(parts) = 1 /\ DOMAIN parts = {1} OBVIOUS
    <2>3. ShareInputs(test, parts[1]) = {0} BY <1>1 DEF ShareInputs
    <2> HIDE DEF parts
    <2>4. Tiled(test, parts) BY <2>1, <2>2, <2>3 DEF Tiled
    <2>5. QED BY <2>1, <2>2, <2>4
  <1>2. CASE test.type = "range" BY <1>2, RangeTiled DEF Shares
  <1>3. CASE test.type = "random" BY <1>3, RandomTiled DEF Shares
  <1>4. QED BY <1>1, <1>2, <1>3 DEF IsTest
-----------------------------------------------------------------------------
(* The invariant. *)

\* What the setup makes and no step changes.
Setup ==
  /\ Len(tests) \in Nat /\ DOMAIN tests = 1..Len(tests)
  /\ \A t \in DOMAIN tests : IsTest(tests[t]) /\ culprit[t] \in Whole(tests[t]) \cup {Nothing}
  /\ num_jobs \in 1..MaxJobs
  /\ shares = [t \in DOMAIN tests |-> Shares(tests[t], num_jobs)]

\* A worker is in one of the lists, or its process has been waited for.
Lists ==
  /\ queue \in Seq(Workers) /\ IsInjective(queue)
  /\ process \in [Workers -> {"queued", "alive", "succeeded", "failed", "reaped"}]
  /\ Range(queue) = {w \in Workers : process[w] = "queued"}
  /\ running = {w \in Workers : process[w] \in {"alive", "succeeded", "failed"}}
  /\ Cardinality(running) <= num_jobs

Reaped(t) == {j \in DOMAIN shares[t] : process[<<t, j>>] = "reaped"}

Counts ==
  num_workers_completed = [t \in DOMAIN tests |-> Cardinality(Reaped(t))]

\* The cursor is at the first test that has a worker which has not been waited for.
Cursor ==
  /\ completed_cursor \in 1..Len(tests) + 1
  /\ \A t \in 1..(completed_cursor - 1) : num_workers_completed[t] = Len(shares[t])
  /\ completed_cursor <= Len(tests) =>
       num_workers_completed[completed_cursor] # Len(shares[completed_cursor])

\* What a worker that ended tells of its share.
Outcome(w) ==
  /\ process[w] = "succeeded" => Succeeds(w)
  /\ process[w] = "failed" => ~Succeeds(w)
  /\ process[w] = "reaped" => (passed[w] <=> (Succeeds(w) <=> tests[w[1]].should_succeed))

Outcomes == passed \in [Workers -> BOOLEAN] /\ \A w \in Workers : Outcome(w)

Printed ==
  printed = [i \in 1..(completed_cursor - 1) |->
               [test |-> i, passed |-> AllWorkersPassed(i, passed)]]

Verdict ==
  /\ status \in {"runs", "EXIT_SUCCESS", "EXIT_FAILURE"}
  /\ status # "runs" =>
       /\ completed_cursor = Len(tests) + 1
       /\ status = "EXIT_SUCCESS" <=> \A i \in DOMAIN printed : printed[i].passed

IInv == Setup /\ Lists /\ Counts /\ Cursor /\ Outcomes /\ Printed /\ Verdict

-----------------------------------------------------------------------------
(* What follows from the setup. *)

LEMMA Shape ==
  ASSUME Setup, JobsAssumption, NEW t \in DOMAIN tests
  PROVE  /\ Len(shares[t]) \in 1..num_jobs
         /\ DOMAIN shares[t] = 1..Len(shares[t])
         /\ Tiled(tests[t], shares[t])
  <1>1. IsTest(tests[t]) /\ num_jobs \in Nat \ {0} /\ global_seed \in Nat
    BY DEF Setup, JobsAssumption, Inputs64
  <1>2. shares[t] = Shares(tests[t], num_jobs) BY DEF Setup
  <1>3. QED BY <1>1, <1>2, SharesTile

LEMMA WorkersAre ==
  ASSUME Setup, JobsAssumption
  PROVE  /\ \A t, j : <<t, j>> \in Workers <=> t \in DOMAIN tests /\ j \in DOMAIN shares[t]
         /\ \A w \in Workers : /\ w = <<w[1], w[2]>>
                               /\ w[1] \in DOMAIN tests /\ w[2] \in DOMAIN shares[w[1]]
         /\ IsFiniteSet(Workers)
  <1>1. \A w \in Workers : \E t \in DOMAIN tests : w \in {t} \X DOMAIN shares[t]
    BY DEF Setup, Workers
  <1>2. \A t \in DOMAIN tests : {t} \X DOMAIN shares[t] \subseteq Workers
    BY DEF Setup, Workers
  <1>3. IsFiniteSet(Workers)
    <2> DEFINE B == (1..Len(tests)) \X (1..num_jobs)
    <2>1. Workers \subseteq B
      <3> SUFFICES ASSUME NEW w \in Workers PROVE w \in B OBVIOUS
      <3>1. PICK t \in DOMAIN tests : w \in {t} \X DOMAIN shares[t] BY <1>1
      <3>2. DOMAIN shares[t] \subseteq 1..num_jobs BY <3>1, Shape DEF Setup
      <3>3. QED BY <3>1, <3>2 DEF Setup
    <2>2. IsFiniteSet(1..Len(tests)) /\ IsFiniteSet(1..num_jobs) BY FS_Interval DEF Setup
    <2>3. IsFiniteSet(B) BY <2>2, FS_Product
    <2>4. QED BY <2>1, <2>3, FS_Subset
  <1>4. QED BY <1>1, <1>2, <1>3

\* The tests of a selection are some of the registered ones.
LEMMA Selection ==
  ASSUME NEW suite \in Suites, NEW args, SuitesAssumption,
         NEW ts \in Selected(suite, args)
  PROVE  /\ Len(ts) \in Nat /\ DOMAIN ts = 1..Len(ts)
         /\ \A t \in DOMAIN ts : IsTest(ts[t])
  <1> DEFINE enabled == {i \in DOMAIN suite : Enabled(suite[i], args)}
             n == Cardinality(enabled)
  <1>1. PICK o \in Bijection(1..n, enabled) : ts = [i \in DOMAIN o |-> suite[o[i]]]
    BY DEF Selected
  <1>2. o \in [1..n -> enabled] BY <1>1 DEF Bijection, Injection
  <1>3. n \in Nat
    <2>1. IsFiniteSet(DOMAIN suite) BY DEF SuitesAssumption
    <2>2. IsFiniteSet(enabled) BY <2>1, FS_Subset
    <2>3. QED BY <2>2, FS_CardinalityType
  <1> HIDE DEF n
  <1>4. DOMAIN ts = 1..n /\ Len(ts) = n BY <1>1, <1>2, <1>3
  <1>5. ASSUME NEW t \in DOMAIN ts PROVE IsTest(ts[t])
    <2>1. o[t] \in DOMAIN suite /\ ts[t] = suite[o[t]] BY <1>1, <1>2, <1>4
    <2>2. QED BY <2>1 DEF SuitesAssumption, IsTest
  <1>6. QED BY <1>3, <1>4, <1>5

LEMMA InitInvariant == ASSUME Init, JobsAssumption, SuitesAssumption PROVE IInv
  <1>1. Setup
    <2>1. PICK suite \in Suites, args \in Filters : tests \in Selected(suite, args) BY DEF Init
    <2>2. /\ Len(tests) \in Nat /\ DOMAIN tests = 1..Len(tests)
          /\ \A t \in DOMAIN tests : IsTest(tests[t])
      BY <2>1, Selection
    <2>3. QED BY <2>2 DEF Init, Setup
  <1>2. /\ \A w \in Workers : /\ w = <<w[1], w[2]>>
                              /\ w[1] \in DOMAIN tests /\ w[2] \in DOMAIN shares[w[1]]
        /\ \A t, j : <<t, j>> \in Workers <=> t \in DOMAIN tests /\ j \in DOMAIN shares[t]
    BY <1>1, WorkersAre
  <1>3. ASSUME NEW t \in DOMAIN tests
        PROVE  /\ Len(shares[t]) \in Nat \ {0} /\ DOMAIN shares[t] = 1..Len(shares[t])
               /\ Reaped(t) = {}
    <2>1. Len(shares[t]) \in 1..num_jobs /\ DOMAIN shares[t] = 1..Len(shares[t])
      BY <1>1, Shape
    <2>2. ASSUME NEW j \in DOMAIN shares[t] PROVE process[<<t, j>>] = "queued"
      BY <1>2 DEF Init
    <2>3. QED BY <1>1, <2>1, <2>2 DEF Setup, Reaped
  <1>4. Lists
    <2> DEFINE n == Len(tests)
               lists == [t \in DOMAIN tests |-> Queued(t)]
    <2>1. ASSUME NEW t \in 1..n
          PROVE  /\ lists[t] \in Seq(Workers) /\ IsInjective(lists[t])
                 /\ Range(lists[t]) = {t} \X DOMAIN shares[t]
      <3>1. lists[t] = [j \in 1..Len(shares[t]) |-> <<t, j>>] /\ t \in DOMAIN tests
        BY <1>1, <1>3 DEF Setup, Queued
      <3>2. \A j \in 1..Len(shares[t]) : <<t, j>> \in Workers BY <1>2, <1>3, <3>1
      <3>3. Len(shares[t]) \in Nat /\ DOMAIN shares[t] = 1..Len(shares[t]) BY <1>3, <3>1
      <3> HIDE DEF lists
      <3>4. lists[t] \in Seq(Workers) BY <3>1, <3>2, <3>3
      <3>5. IsInjective(lists[t]) BY <3>1 DEF IsInjective
      <3>6. Range(lists[t]) = {t} \X DOMAIN shares[t] BY <3>1, <3>3 DEF Range
      <3>7. QED BY <3>4, <3>5, <3>6
    <2>2. n \in Nat /\ lists \in [1..n -> Seq(Workers)] /\ queue = FlattenSeq(lists)
      BY <1>1, <2>1 DEF Setup, Init
    <2> HIDE DEF lists, n
    <2>3. ASSUME NEW i \in 1..n, NEW j \in 1..n, i # j
          PROVE  Range(lists[i]) \cap Range(lists[j]) = {}
      <3>1. \A w \in Range(lists[i]) : w[1] = i BY <2>1
      <3>2. \A w \in Range(lists[j]) : w[1] = j BY <2>1
      <3>3. QED BY <2>3, <3>1, <3>2
    <2>4. /\ queue \in Seq(Workers) /\ IsInjective(queue)
          /\ Range(queue) = UNION {Range(lists[i]) : i \in 1..n}
      <3>1. \A i \in 1..n : IsInjective(lists[i]) BY <2>1
      <3>2. \A i, j \in 1..n : i # j => Range(lists[i]) \cap Range(lists[j]) = {} BY <2>3
      <3> HIDE DEF Workers
      <3>3. QED BY <2>2, <3>1, <3>2, Flattened
    <2>5. Range(queue) = Workers
      <3>1. ASSUME NEW w \in Workers PROVE w \in Range(queue)
        <4>1. w[1] \in 1..n /\ w \in {w[1]} \X DOMAIN shares[w[1]]
          BY <1>1, <1>2 DEF Setup, n
        <4>2. w \in Range(lists[w[1]]) BY <2>1, <4>1
        <4>3. QED BY <2>4, <4>1, <4>2
      <3>2. Range(queue) \subseteq Workers BY <2>4, RangeOfSeq
      <3>3. QED BY <3>1, <3>2
    <2>6. Cardinality(running) = 0 BY FS_EmptySet DEF Init
    <2>7. Cardinality(running) <= num_jobs BY <1>1, <2>6 DEF Setup
    <2>8. /\ process \in [Workers -> {"queued", "alive", "succeeded", "failed", "reaped"}]
          /\ \A w \in Workers : process[w] = "queued"
          /\ running = {}
      BY DEF Init
    <2>9. QED BY <2>4, <2>5, <2>7, <2>8 DEF Lists
  <1>5. Counts BY <1>3, FS_EmptySet DEF Counts, Init
  <1>6. Cursor
    <2>1. completed_cursor = 1 BY DEF Init
    <2>2. Len(tests) >= 1 => 1 \in DOMAIN tests BY <1>1 DEF Setup
    <2>3. \A t \in DOMAIN tests : num_workers_completed[t] = 0 BY DEF Init
    <2>4. QED BY <1>1, <1>3, <2>1, <2>2, <2>3 DEF Cursor, Setup
  <1>7. Outcomes
    <2>1. passed \in [Workers -> BOOLEAN] /\ \A w \in Workers : process[w] = "queued"
      BY DEF Init
    <2>2. QED BY <2>1 DEF Outcomes, Outcome
  <1>8. Printed BY DEF Printed, Init
  <1>9. Verdict BY DEF Verdict, Init
  <1>10. QED BY <1>1, <1>4, <1>5, <1>6, <1>7, <1>8, <1>9 DEF IInv

-----------------------------------------------------------------------------
(* The steps keep the invariant. *)

LEMMA Fixed ==
  ASSUME UNCHANGED <<tests, culprit, num_jobs, shares>>
  PROVE  /\ Workers' = Workers /\ (Setup => Setup')
         /\ \A w : Succeeds(w)' <=> Succeeds(w)
         /\ \A t : DOMAIN shares'[t] = DOMAIN shares[t]
  BY DEF Workers, Setup, Succeeds

\* A test is complete when all its workers have been waited for.
LEMMA ReapedAll ==
  ASSUME Setup, JobsAssumption, Counts, NEW t \in DOMAIN tests
  PROVE  /\ IsFiniteSet(Reaped(t))
         /\ num_workers_completed[t] \in 0..Len(shares[t])
         /\ num_workers_completed[t] = Len(shares[t]) <=> Reaped(t) = DOMAIN shares[t]
  <1>1. Len(shares[t]) \in Nat /\ DOMAIN shares[t] = 1..Len(shares[t]) BY Shape DEF Setup
  <1>2. IsFiniteSet(DOMAIN shares[t]) /\ Cardinality(DOMAIN shares[t]) = Len(shares[t])
    <2> DEFINE n == Len(shares[t])
    <2>1. n \in Nat /\ DOMAIN shares[t] = 1..n BY <1>1
    <2> HIDE DEF n
    <2>2. IsFiniteSet(1..n) /\ Cardinality(1..n) = IF 1 > n THEN 0 ELSE n - 1 + 1
      BY <2>1, FS_Interval
    <2>3. Cardinality(1..n) = n BY <2>1, <2>2
    <2>4. QED BY <2>1, <2>2, <2>3 DEF n
  <1>3. Reaped(t) \in SUBSET DOMAIN shares[t] BY DEF Reaped
  <1> DEFINE D == DOMAIN shares[t]  R == Reaped(t)
  <1>4. num_workers_completed[t] = Cardinality(R) BY DEF Counts
  <1> HIDE DEF D, R
  <1>5. IsFiniteSet(D) /\ R \in SUBSET D /\ Cardinality(D) = Len(shares[t])
    BY <1>2, <1>3 DEF D, R
  <1>6. /\ IsFiniteSet(R) /\ Cardinality(R) <= Cardinality(D)
        /\ Cardinality(D) = Cardinality(R) => D = R
    BY <1>5, FS_Subset
  <1>7. Cardinality(R) \in Nat BY <1>6, FS_CardinalityType
  <1>8. QED BY <1>1, <1>4, <1>5, <1>6, <1>7 DEF D, R

\* A change of one worker's process changes which workers of its test were waited for.
LEMMA ReapedStep ==
  ASSUME Setup, JobsAssumption, Lists, UNCHANGED shares, NEW w \in Workers, NEW x,
         process' = [process EXCEPT ![w] = x], process[w] # "reaped",
         NEW t \in DOMAIN tests
  PROVE  Reaped(t)' = IF x = "reaped" /\ t = w[1] THEN Reaped(t) \cup {w[2]} ELSE Reaped(t)
  <1>1. /\ w = <<w[1], w[2]>> /\ w[1] \in DOMAIN tests /\ w[2] \in DOMAIN shares[w[1]]
        /\ \A j \in DOMAIN shares[t] : <<t, j>> \in Workers
    BY WorkersAre
  <1>2. \A v \in Workers : process'[v] = IF v = w THEN x ELSE process[v] BY DEF Lists
  <1>3. \A j \in DOMAIN shares[t] : <<t, j>> = w <=> t = w[1] /\ j = w[2] BY <1>1
  <1>4. \A j \in DOMAIN shares[t] :
          j \in Reaped(t)' <=> (IF t = w[1] /\ j = w[2] THEN x = "reaped" ELSE j \in Reaped(t))
    BY <1>1, <1>2, <1>3 DEF Reaped
  <1>5. t = w[1] => w[2] \in DOMAIN shares[t] /\ w[2] \notin Reaped(t)
    BY <1>1 DEF Reaped
  <1>6. Reaped(t) \subseteq DOMAIN shares[t] /\ Reaped(t)' \subseteq DOMAIN shares[t]
    BY DEF Reaped
  <1>7. QED BY <1>4, <1>5, <1>6

\* The tests that are due are those up to the first one that is not complete.
LEMMA CompleteIs ==
  ASSUME Len(tests) \in Nat, NEW from \in 1..(Len(tests) + 1), NEW completed
  PROVE  \E e \in (from - 1)..Len(tests) :
           /\ Complete(from, completed) = from..e
           /\ Cardinality(Complete(from, completed)) = e - (from - 1)
           /\ \A u \in from..e : completed[u] = Len(shares[u])
           /\ e < Len(tests) => completed[e + 1] # Len(shares[e + 1])
  <1> DEFINE T == {u \in from..Len(tests) : completed[u] # Len(shares[u])} \cup {Len(tests) + 1}
  <1>1. T \in SUBSET Nat /\ T # {} OBVIOUS
  <1>2. PICK m \in T : \A u \in T : m <= u
    <2> HIDE DEF T
    <2>1. QED BY <1>1, LeastElement
  <1>3. m \in from..(Len(tests) + 1) /\ m - 1 \in (from - 1)..Len(tests) BY <1>2
  <1>4. \A u \in from..(m - 1) : u \in from..Len(tests) /\ completed[u] = Len(shares[u])
    BY <1>2, <1>3
  <1>5. m <= Len(tests) => completed[m] # Len(shares[m]) BY <1>2, <1>3
  <1>6. Complete(from, completed) = from..(m - 1)
    <2>1. ASSUME NEW t \in from..(m - 1) PROVE t \in Complete(from, completed)
      <3>1. \A u \in from..t : u \in from..(m - 1) BY <1>3
      <3>2. QED BY <1>4, <2>1, <3>1 DEF Complete
    <2>2. ASSUME NEW t \in Complete(from, completed) PROVE t \in from..(m - 1)
      <3>1. t \in from..Len(tests) /\ \A u \in from..t : completed[u] = Len(shares[u])
        BY DEF Complete
      <3>2. m \notin from..t
        <4>1. m \in from..t => m <= Len(tests) BY <1>3, <3>1
        <4>2. QED BY <1>5, <3>1, <4>1
      <3>3. QED BY <1>3, <3>1, <3>2
    <2>3. QED BY <2>1, <2>2
  <1>7. Cardinality(from..(m - 1)) = (m - 1) - (from - 1)
    <2>1. Cardinality(from..(m - 1)) = IF from > m - 1 THEN 0 ELSE (m - 1) - from + 1
      BY <1>3, FS_Interval
    <2>2. QED BY <1>3, <2>1
  <1>8. (m - 1) + 1 = m /\ (m - 1 < Len(tests) => m <= Len(tests)) BY <1>3
  <1>9. QED BY <1>3, <1>4, <1>5, <1>6, <1>7, <1>8

LEMMA StartStep ==
  ASSUME IInv, JobsAssumption, WorkerStart
  PROVE  IInv'
  <1> DEFINE w == Head(queue)
  <1> USE DEF IInv
  <1>1. Workers' = Workers /\ Setup' /\ \A v : Succeeds(v)' <=> Succeeds(v)
    BY Fixed DEF WorkerStart
  <1>2. /\ queue # <<>> /\ Cardinality(running) < num_jobs
        /\ queue' = Tail(queue) /\ running' = running \cup {w}
        /\ process' = [process EXCEPT ![w] = "alive"]
        /\ UNCHANGED <<tests, culprit, num_jobs, shares, passed, num_workers_completed,
                       completed_cursor, printed, status>>
    BY DEF WorkerStart, MayStart
  <1>3. /\ w \in Workers /\ process[w] = "queued"
        /\ Tail(queue) \in Seq(Workers) /\ IsInjective(Tail(queue))
        /\ Range(Tail(queue)) = Range(queue) \ {w}
    <2>1. /\ queue \in Seq(Workers) /\ IsInjective(queue)
          /\ Range(queue) = {v \in Workers : process[v] = "queued"}
      BY DEF Lists
    <2> DEFINE n == Len(queue)
    <2>2. n \in Nat \ {0} /\ DOMAIN queue = 1..n /\ w = queue[1]
      BY <1>2, <2>1
    <2>3. /\ Tail(queue) \in Seq(Workers) /\ DOMAIN Tail(queue) = 1..(n - 1)
          /\ \A i \in 1..(n - 1) : Tail(queue)[i] = queue[i + 1]
      BY <1>2, <2>1
    <2> HIDE DEF n, w, Workers
    <2>4. w \in Range(queue) BY <2>2 DEF Range
    <2>5. IsInjective(Tail(queue))
      <3> SUFFICES ASSUME NEW i \in 1..(n - 1), NEW j \in 1..(n - 1),
                          Tail(queue)[i] = Tail(queue)[j]
                   PROVE  i = j
        BY <2>3 DEF IsInjective
      <3>1. i + 1 \in 1..n /\ j + 1 \in 1..n /\ queue[i + 1] = queue[j + 1] BY <2>2, <2>3
      <3>2. i + 1 = j + 1 BY <2>1, <2>2, <3>1 DEF IsInjective
      <3>3. QED BY <3>2
    <2>6. ASSUME NEW v PROVE v \in Range(Tail(queue)) <=> v \in Range(queue) /\ v # w
      <3>1. ASSUME v \in Range(Tail(queue)) PROVE v \in Range(queue) /\ v # w
        <4>1. PICK i \in 1..(n - 1) : v = queue[i + 1] BY <2>3, <3>1 DEF Range
        <4>2. i + 1 \in 1..n /\ 1 \in 1..n /\ i + 1 # 1 BY <2>2
        <4>3. QED BY <2>1, <2>2, <4>1, <4>2 DEF Range, IsInjective
      <3>2. ASSUME v \in Range(queue), v # w PROVE v \in Range(Tail(queue))
        <4>1. PICK i \in 1..n : v = queue[i] BY <2>2, <3>2 DEF Range
        <4>2. i - 1 \in 1..(n - 1) /\ (i - 1) + 1 = i BY <2>2, <3>2, <4>1
        <4>3. QED BY <2>3, <4>1, <4>2 DEF Range
      <3>3. QED BY <3>1, <3>2
    <2>7. QED BY <2>1, <2>3, <2>4, <2>5, <2>6
  <1> HIDE DEF w
  <1>4. \A v \in Workers : process'[v] = IF v = w THEN "alive" ELSE process[v]
    BY <1>2 DEF Lists
  <1>5. Lists'
    <2>1. Range(queue') = {v \in Workers : process'[v] = "queued"}
      BY <1>2, <1>3, <1>4 DEF Lists
    <2>2. running' = {v \in Workers : process'[v] \in {"alive", "succeeded", "failed"}}
      BY <1>2, <1>3, <1>4 DEF Lists
    <2>3. Cardinality(running') <= num_jobs'
      <3>1. running \subseteq Workers BY DEF Lists
      <3>2. IsFiniteSet(running) BY <3>1, WorkersAre, FS_Subset
      <3>3. Cardinality(running) \in Nat BY <3>2, FS_CardinalityType
      <3>4. Cardinality(running') <= Cardinality(running) + 1
        <4>1. Cardinality(running \cup {w}) =
                IF w \in running THEN Cardinality(running) ELSE Cardinality(running) + 1
          BY <3>2, FS_AddElement
        <4>2. QED BY <1>2, <3>3, <4>1
      <3>5. Cardinality(running') \in Nat BY <1>2, <3>2, FS_AddElement, FS_CardinalityType
      <3>6. QED BY <1>2, <3>3, <3>4, <3>5 DEF Setup
    <2>4. process' \in [Workers -> {"queued", "alive", "succeeded", "failed", "reaped"}]
      BY <1>2 DEF Lists
    <2>5. QED BY <1>1, <1>2, <1>3, <2>1, <2>2, <2>3, <2>4 DEF Lists
  <1>6. ASSUME NEW t \in DOMAIN tests PROVE Reaped(t)' = Reaped(t)
    <2>1. Reaped(t)' = IF "alive" = "reaped" /\ t = w[1] THEN Reaped(t) \cup {w[2]} ELSE Reaped(t)
      BY <1>2, <1>3, ReapedStep
    <2>2. QED BY <2>1
  <1>7. Counts' BY <1>2, <1>6 DEF Counts
  <1>8. Cursor' BY <1>2 DEF Cursor
  <1>9. Outcomes'
    <2>1. passed' \in [Workers' -> BOOLEAN] BY <1>1, <1>2 DEF Outcomes
    <2>2. ASSUME NEW v \in Workers
          PROVE  Outcome(v)'
      <3>1. Outcome(v) /\ (Succeeds(v)' <=> Succeeds(v)) BY <1>1 DEF Outcomes
      <3>2. process'[v] = process[v] \/ process'[v] = "alive" BY <1>4
      <3>3. QED BY <1>2, <3>1, <3>2 DEF Outcome
    <2>3. QED BY <1>1, <2>1, <2>2 DEF Outcomes
  <1>10. Printed' BY <1>2 DEF Printed, AllWorkersPassed
  <1>11. Verdict' BY <1>2 DEF Verdict
  <1>12. QED BY <1>1, <1>5, <1>7, <1>8, <1>9, <1>10, <1>11

LEMMA ExitStep ==
  ASSUME IInv, JobsAssumption, NEW w \in Workers, Exit(w)
  PROVE  IInv'
  <1> DEFINE x == IF Succeeds(w) THEN "succeeded" ELSE "failed"
  <1> USE DEF IInv
  <1>1. Workers' = Workers /\ Setup' /\ \A v : Succeeds(v)' <=> Succeeds(v)
    BY Fixed DEF Exit
  <1>2. /\ process[w] = "alive" /\ process' = [process EXCEPT ![w] = x]
        /\ UNCHANGED <<tests, culprit, num_jobs, shares, queue, running, passed,
                       num_workers_completed, completed_cursor, printed, status>>
    BY DEF Exit
  <1>3. /\ x \in {"succeeded", "failed"} /\ (x = "succeeded" => Succeeds(w))
        /\ (x = "failed" => ~Succeeds(w))
    OBVIOUS
  <1> HIDE DEF x
  <1>4. \A v \in Workers : process'[v] = IF v = w THEN x ELSE process[v]
    BY <1>2 DEF Lists
  <1>5. Lists'
    <2>1. Range(queue') = {v \in Workers : process'[v] = "queued"}
      BY <1>2, <1>3, <1>4 DEF Lists
    <2>2. running' = {v \in Workers : process'[v] \in {"alive", "succeeded", "failed"}}
      BY <1>2, <1>3, <1>4 DEF Lists
    <2>3. process' \in [Workers -> {"queued", "alive", "succeeded", "failed", "reaped"}]
      BY <1>2, <1>3 DEF Lists
    <2>4. QED BY <1>1, <1>2, <2>1, <2>2, <2>3 DEF Lists
  <1>6. ASSUME NEW t \in DOMAIN tests PROVE Reaped(t)' = Reaped(t)
    <2>1. Reaped(t)' = IF x = "reaped" /\ t = w[1] THEN Reaped(t) \cup {w[2]} ELSE Reaped(t)
      BY <1>2, ReapedStep
    <2>2. QED BY <1>3, <2>1
  <1>7. Counts' BY <1>2, <1>6 DEF Counts
  <1>8. Cursor' BY <1>2 DEF Cursor
  <1>9. Outcomes'
    <2>1. passed' \in [Workers' -> BOOLEAN] BY <1>1, <1>2 DEF Outcomes
    <2>2. ASSUME NEW v \in Workers PROVE Outcome(v)'
      <3>1. Outcome(v) /\ (Succeeds(v)' <=> Succeeds(v)) BY <1>1 DEF Outcomes
      <3>2. CASE v = w
        <4>1. process'[v] = x BY <1>4, <3>2
        <4>2. QED BY <1>3, <3>1, <3>2, <4>1 DEF Outcome
      <3>3. CASE v # w
        <4>1. process'[v] = process[v] BY <1>4, <3>3
        <4>2. QED BY <1>2, <3>1, <4>1 DEF Outcome
      <3>4. QED BY <3>2, <3>3
    <2>3. QED BY <1>1, <2>1, <2>2 DEF Outcomes
  <1>10. Printed' BY <1>2 DEF Printed, AllWorkersPassed
  <1>11. Verdict' BY <1>2 DEF Verdict
  <1>12. QED BY <1>1, <1>5, <1>7, <1>8, <1>9, <1>10, <1>11

\* Printing continues where it stopped.
LEMMA PrintedGrows ==
  ASSUME NEW from \in Nat \ {0}, NEW e \in Nat, e >= from - 1,
         NEW before, before = [i \in 1..(from - 1) |-> [test |-> i, passed |-> AllWorkersPassed(i, passed)]],
         NEW outcome, \A i \in 1..(from - 1) : AllWorkersPassed(i, outcome) = AllWorkersPassed(i, passed)
  PROVE  before \o [i \in 1..(e - (from - 1)) |->
                      LET u == from + i - 1
                      IN [test |-> u, passed |-> AllWorkersPassed(u, outcome)]]
         = [i \in 1..e |-> [test |-> i, passed |-> AllWorkersPassed(i, outcome)]]
  <1> DEFINE k    == e - (from - 1)
             R    == [test : Nat, passed : BOOLEAN]
             Line(i) == [test |-> i, passed |-> AllWorkersPassed(i, outcome)]
             more == [i \in 1..k |-> Line(from + i - 1)]
             all  == [i \in 1..e |-> Line(i)]
  <1>1. \A i \in Nat : Line(i) \in R BY DEF AllWorkersPassed
  <1>2. before = [i \in 1..(from - 1) |-> Line(i)]
    <2>1. \A i \in 1..(from - 1) : before[i] = Line(i) OBVIOUS
    <2> HIDE DEF Line
    <2>2. QED BY <2>1
  <1> HIDE DEF Line, R
  <1>3. k \in Nat /\ from - 1 \in Nat /\ (from - 1) + k = e OBVIOUS
  <1>4. before \in Seq(R) /\ Len(before) = from - 1 BY <1>1, <1>2, <1>3
  <1>5. more \in Seq(R) /\ Len(more) = k
    <2>1. \A i \in 1..k : from + i - 1 \in Nat BY <1>3
    <2> HIDE DEF k
    <2>2. QED BY <1>1, <1>3, <2>1
  <1>6. all \in Seq(R) /\ Len(all) = e BY <1>1
  <1>7. \A i \in 1..(from - 1) : before[i] = Line(i) BY <1>2
  <1>8. \A i \in 1..k : more[i] = Line(from + i - 1) OBVIOUS
  <1>9. \A i \in 1..e : all[i] = Line(i) OBVIOUS
  <1> HIDE DEF more, all, k
  <1>10. /\ before \o more \in Seq(R) /\ Len(before \o more) = e
         /\ \A i \in 1..e : (before \o more)[i] =
              IF i <= from - 1 THEN before[i] ELSE more[i - (from - 1)]
    <2>1. /\ before \o more \in Seq(R) /\ Len(before \o more) = Len(before) + Len(more)
          /\ \A i \in 1..(Len(before) + Len(more)) : (before \o more)[i] =
               IF i <= Len(before) THEN before[i] ELSE more[i - Len(before)]
      <3> HIDE DEF R
      <3>1. before \in Seq(R) /\ more \in Seq(R) BY <1>4, <1>5
      <3>2. QED BY <3>1, ConcatProperties
    <2>2. QED BY <1>3, <1>4, <1>5, <2>1
  <1>11. ASSUME NEW i \in 1..e PROVE (before \o more)[i] = all[i]
    <2>1. CASE i <= from - 1 BY <1>7, <1>9, <1>10, <2>1
    <2>2. CASE ~(i <= from - 1)
      <3>1. i - (from - 1) \in 1..k /\ from + (i - (from - 1)) - 1 = i BY <1>3, <2>2
      <3>2. more[i - (from - 1)] = Line(i) BY <1>8, <3>1
      <3>3. QED BY <1>9, <1>10, <2>2, <3>2
    <2>3. QED BY <2>1, <2>2
  <1>12. before \o more = all
    <2> DEFINE s == before \o more
    <2>1. s \in Seq(R) /\ Len(s) = e /\ \A i \in 1..e : s[i] = all[i] BY <1>10, <1>11
    <2> HIDE DEF s
    <2>2. s = all BY <1>6, <2>1, SeqEqual
    <2>3. QED BY <2>2 DEF s
  <1>13. QED BY <1>12 DEF more, all, k, Line

LEMMA WaitStep ==
  ASSUME IInv, JobsAssumption, NEW w \in Workers, WaitForWorker(w)
  PROVE  IInv'
  <1> DEFINE c         == completed_cursor
             outcome   == [passed EXCEPT ![w] = Passed(w)]
             completed == [num_workers_completed EXCEPT ![w[1]] = @ + 1]
             due       == IF completed[w[1]] < Len(shares[w[1]]) THEN {} ELSE Complete(c, completed)
             n         == Cardinality(due)
             Lines(k)  == [i \in 1..k |-> LET u == c + i - 1
                                          IN [test |-> u, passed |-> AllWorkersPassed(u, outcome)]]
  <1> USE DEF IInv
  <1>1. Workers' = Workers /\ Setup' /\ \A v : Succeeds(v)' <=> Succeeds(v)
    BY Fixed DEF WaitForWorker
  <1>2. /\ status = "runs" /\ c <= Len(tests) /\ w \in running
        /\ process[w] \in {"succeeded", "failed"}
        /\ passed' = outcome /\ num_workers_completed' = completed
        /\ completed_cursor' = c + n /\ printed' = printed \o Lines(n)
        /\ process' = [process EXCEPT ![w] = "reaped"] /\ running' = running \ {w}
        /\ UNCHANGED <<tests, culprit, num_jobs, shares, queue, status>>
    BY DEF WaitForWorker, Loops
  <1>3. /\ w = <<w[1], w[2]>> /\ w[1] \in DOMAIN tests /\ w[2] \in DOMAIN shares[w[1]]
        /\ w[2] \notin Reaped(w[1])
    BY <1>2, WorkersAre DEF Reaped
  <1>4. \A v \in Workers : process'[v] = IF v = w THEN "reaped" ELSE process[v]
    BY <1>2 DEF Lists
  <1>5. /\ c \in 1..Len(tests) /\ Len(tests) \in Nat /\ DOMAIN tests = 1..Len(tests)
    <2>1. completed_cursor \in 1..Len(tests) + 1 /\ Len(tests) \in Nat /\ DOMAIN tests = 1..Len(tests)
      BY DEF Cursor, Setup
    <2>2. c <= Len(tests) BY <1>2
    <2>3. QED BY <2>1, <2>2
  <1> HIDE DEF Lines, n, outcome
  <1>6. Lists'
    <2>1. Range(queue') = {v \in Workers : process'[v] = "queued"}
      BY <1>2, <1>4 DEF Lists
    <2>2. running' = {v \in Workers : process'[v] \in {"alive", "succeeded", "failed"}}
      BY <1>2, <1>4 DEF Lists
    <2>3. process' \in [Workers -> {"queued", "alive", "succeeded", "failed", "reaped"}]
      BY <1>2 DEF Lists
    <2>4. Cardinality(running') <= num_jobs'
      <3>1. running \subseteq Workers BY DEF Lists
      <3>2. IsFiniteSet(running) BY <3>1, WorkersAre, FS_Subset
      <3>3. Cardinality(running') <= Cardinality(running) BY <1>2, <3>2, FS_Subset
      <3>4. Cardinality(running) \in Nat /\ Cardinality(running') \in Nat
        BY <1>2, <3>2, FS_Subset, FS_CardinalityType
      <3>5. QED BY <1>2, <3>3, <3>4 DEF Lists, Setup
    <2>5. QED BY <1>1, <1>2, <2>1, <2>2, <2>3, <2>4 DEF Lists
  <1>7. Counts'
    <2>1. ASSUME NEW t \in DOMAIN tests PROVE completed[t] = Cardinality(Reaped(t)')
      <3>1. Reaped(t)' = IF "reaped" = "reaped" /\ t = w[1] THEN Reaped(t) \cup {w[2]} ELSE Reaped(t)
        BY <1>2, ReapedStep
      <3>2. num_workers_completed[t] = Cardinality(Reaped(t)) BY DEF Counts
      <3>3. CASE t = w[1]
        <4>1. IsFiniteSet(Reaped(t)) BY ReapedAll
        <4>2. Cardinality(Reaped(t) \cup {w[2]}) =
                IF w[2] \in Reaped(t) THEN Cardinality(Reaped(t)) ELSE Cardinality(Reaped(t)) + 1
          BY <4>1, FS_AddElement
        <4>3. completed[t] = num_workers_completed[t] + 1 BY <3>3 DEF Counts
        <4>4. QED BY <1>3, <3>1, <3>2, <3>3, <4>2, <4>3
      <3>4. CASE t # w[1]
        <4>1. completed[t] = num_workers_completed[t] BY <3>4 DEF Counts
        <4>2. QED BY <3>1, <3>2, <3>4, <4>1
      <3>5. QED BY <3>3, <3>4
    <2>2. completed = [t \in DOMAIN tests |-> completed[t]] BY DEF Counts
    <2> HIDE DEF completed
    <2>3. completed = [t \in DOMAIN tests |-> Cardinality(Reaped(t)')] BY <2>1, <2>2
    <2>4. QED BY <1>2, <2>3 DEF Counts
  <1>8. ASSUME NEW u \in 1..(c - 1)
        PROVE  u # w[1] /\ u \in DOMAIN tests /\ completed[u] = Len(shares[u])
    <2>1. u \in DOMAIN tests /\ num_workers_completed[u] = Len(shares[u])
      BY <1>5 DEF Cursor
    <2>2. Reaped(u) = DOMAIN shares[u] BY <2>1, ReapedAll
    <2>3. u # w[1] BY <1>3, <2>2
    <2>4. QED BY <2>1, <2>3 DEF Counts
  <1>9. PICK e \in (c - 1)..Len(tests) :
          /\ n = e - (c - 1)
          /\ \A u \in c..e : completed[u] = Len(shares[u])
          /\ e < Len(tests) => completed[e + 1] # Len(shares[e + 1])
    <2>1. CASE completed[w[1]] < Len(shares[w[1]])
      <3>1. n = 0 BY <2>1, FS_EmptySet DEF n
      <3>2. completed[c] # Len(shares[c])
        <4>1. CASE w[1] = c
          <5>1. completed[c] \in Int
            BY <1>3, <4>1, ReapedAll DEF Counts
          <5>2. Len(shares[c]) \in Int BY <1>3, <4>1, Shape
          <5>3. QED BY <2>1, <4>1, <5>1, <5>2
        <4>2. CASE w[1] # c BY <1>5, <4>2 DEF Cursor, Counts
        <4>3. QED BY <4>1, <4>2
      <3> HIDE DEF completed
      <3> DEFINE e == c - 1
      <3>3. e \in (c - 1)..Len(tests) /\ n = e - (c - 1) /\ e + 1 = c /\ c..e = {}
        BY <1>5, <3>1
      <3> HIDE DEF e
      <3>4. QED BY <3>2, <3>3
    <2>2. CASE ~(completed[w[1]] < Len(shares[w[1]]))
      <3>1. n = Cardinality(Complete(c, completed)) BY <2>2 DEF n
      <3>2. c \in 1..(Len(tests) + 1) BY <1>5
      <3> HIDE DEF completed
      <3>3. \E e \in (c - 1)..Len(tests) :
              /\ Complete(c, completed) = c..e
              /\ Cardinality(Complete(c, completed)) = e - (c - 1)
              /\ \A u \in c..e : completed[u] = Len(shares[u])
              /\ e < Len(tests) => completed[e + 1] # Len(shares[e + 1])
        BY <1>5, <3>2, CompleteIs
      <3>4. QED BY <3>1, <3>3
    <2>3. QED BY <2>1, <2>2
  <1> HIDE DEF completed
  <1>10. completed_cursor' = e + 1 /\ e \in Nat /\ e >= c - 1 /\ e <= Len(tests)
    BY <1>2, <1>5, <1>9
  <1>11. Cursor'
    <2>1. ASSUME NEW u \in 1..e PROVE completed[u] = Len(shares[u])
      <3>1. u \in 1..(c - 1) \/ u \in c..e BY <1>5
      <3>2. QED BY <1>8, <1>9, <3>1
    <2>2. e + 1 \in 1..(Len(tests) + 1) /\ (e + 1) - 1 = e /\ (e + 1 <= Len(tests) => e < Len(tests))
      BY <1>5, <1>10
    <2>3. QED BY <1>2, <1>9, <1>10, <2>1, <2>2 DEF Cursor
  <1>12. outcome \in [Workers -> BOOLEAN]
         /\ \A v \in Workers : outcome[v] <=> IF v = w THEN Passed(w) ELSE passed[v]
    BY DEF outcome, Outcomes, Passed
  <1>13. Outcomes'
    <2>1. passed' \in [Workers' -> BOOLEAN] BY <1>1, <1>2, <1>12
    <2>2. ASSUME NEW v \in Workers PROVE Outcome(v)'
      <3>1. Outcome(v) /\ (Succeeds(v)' <=> Succeeds(v)) BY <1>1 DEF Outcomes
      <3>2. CASE v = w
        <4>1. process'[v] = "reaped" BY <1>4, <3>2
        <4>2. process[v] = "succeeded" <=> Succeeds(v) BY <1>2, <3>1, <3>2 DEF Outcome
        <4>3. tests[v[1]].should_succeed \in BOOLEAN BY <1>3, <3>2 DEF Setup, IsTest
        <4>4. passed'[v] <=> (process[v] = "succeeded") = tests[v[1]].should_succeed
          BY <1>2, <1>12, <3>2 DEF Passed
        <4>5. passed'[v] <=> (Succeeds(v) <=> tests[v[1]].should_succeed)
          BY <4>2, <4>3, <4>4
        <4>6. QED BY <1>2, <3>1, <4>1, <4>5 DEF Outcome
      <3>3. CASE v # w
        <4>1. process'[v] = process[v] BY <1>4, <3>3
        <4>2. passed'[v] <=> passed[v] BY <1>2, <1>12, <3>3
        <4>3. QED BY <1>2, <3>1, <4>1, <4>2 DEF Outcome
      <3>4. QED BY <3>2, <3>3
    <2>3. QED BY <1>1, <2>1, <2>2 DEF Outcomes
  <1>14. Printed'
    <2>1. ASSUME NEW i \in 1..(c - 1)
          PROVE  AllWorkersPassed(i, outcome) = AllWorkersPassed(i, passed)
      <3>1. ASSUME NEW j \in DOMAIN shares[i]
            PROVE  <<i, j>> \in Workers /\ <<i, j>> # w
        BY <1>3, <1>8, WorkersAre
      <3>2. \A j \in DOMAIN shares[i] : outcome[<<i, j>>] <=> passed[<<i, j>>]
        BY <1>12, <3>1
      <3>3. AllWorkersPassed(i, outcome) <=> AllWorkersPassed(i, passed)
        BY <3>2 DEF AllWorkersPassed
      <3>4. QED BY <3>3 DEF AllWorkersPassed
    <2>2. printed = [i \in 1..(c - 1) |-> [test |-> i, passed |-> AllWorkersPassed(i, passed)]]
      BY DEF Printed
    <2>3. c \in Nat \ {0} BY <1>5
    <2>4. printed' = [i \in 1..e |-> [test |-> i, passed |-> AllWorkersPassed(i, outcome)]]
      <3>1. printed' = printed \o Lines(e - (c - 1)) BY <1>2, <1>9
      <3> HIDE DEF c
      <3>2. printed \o [i \in 1..(e - (c - 1)) |->
                          LET u == c + i - 1
                          IN [test |-> u, passed |-> AllWorkersPassed(u, outcome)]]
            = [i \in 1..e |-> [test |-> i, passed |-> AllWorkersPassed(i, outcome)]]
        BY <1>10, <2>1, <2>2, <2>3, PrintedGrows
      <3>3. QED BY <3>1, <3>2 DEF Lines
    <2>5. \A i : AllWorkersPassed(i, passed)' <=> AllWorkersPassed(i, outcome)
      BY <1>2 DEF AllWorkersPassed
    <2>6. (e + 1) - 1 = e BY <1>10
    <2>7. QED BY <1>2, <1>10, <2>4, <2>6 DEF Printed, AllWorkersPassed
  <1>15. Verdict' BY <1>2 DEF Verdict
  <1>16. QED BY <1>1, <1>6, <1>7, <1>11, <1>13, <1>14, <1>15

LEMMA FinishStep ==
  ASSUME IInv, JobsAssumption, Finish
  PROVE  IInv'
  <1> USE DEF IInv
  <1>1. Workers' = Workers /\ Setup' /\ \A v : Succeeds(v)' <=> Succeeds(v)
    BY Fixed DEF Finish
  <1>2. UNCHANGED <<tests, culprit, num_jobs, shares, queue, running, process, passed,
                    num_workers_completed, completed_cursor, printed>>
    BY DEF Finish
  <1>3. Lists' BY <1>1, <1>2 DEF Lists
  <1>4. Counts' BY <1>2 DEF Counts, Reaped
  <1>5. Cursor' BY <1>2 DEF Cursor
  <1>6. Outcomes'
    <2>1. ASSUME NEW v \in Workers PROVE Outcome(v)'
      BY <1>1, <1>2 DEF Outcome, Outcomes
    <2>2. QED BY <1>1, <1>2, <2>1 DEF Outcomes
  <1>7. Printed' BY <1>2 DEF Printed, AllWorkersPassed
  <1>8. Verdict'
    <2>1. completed_cursor = Len(tests) + 1 BY DEF Finish, Loops, Cursor, Setup
    <2>2. status' = IF \A i \in DOMAIN printed : printed[i].passed
                    THEN "EXIT_SUCCESS" ELSE "EXIT_FAILURE"
      BY DEF Finish
    <2>3. QED BY <1>2, <2>1, <2>2 DEF Verdict
  <1>9. QED BY <1>1, <1>3, <1>4, <1>5, <1>6, <1>7, <1>8

LEMMA StutterStep ==
  ASSUME IInv, JobsAssumption, UNCHANGED vars
  PROVE  IInv'
  <1> USE DEF vars
  <1>1. Workers' = Workers /\ Setup' /\ \A v : Succeeds(v)' <=> Succeeds(v)
    BY Fixed DEF IInv
  <1>2. \A v \in Workers : Outcome(v)' BY <1>1 DEF Outcome, Outcomes, IInv
  <1>3. Lists' /\ Outcomes' BY <1>1, <1>2 DEF Lists, Outcomes, IInv
  <1>4. Counts' /\ Cursor' /\ Printed' /\ Verdict'
    BY DEF Counts, Reaped, Cursor, Printed, Verdict, AllWorkersPassed, IInv
  <1>5. QED BY <1>1, <1>3, <1>4 DEF IInv

\* The invariant holds, for any registered tests, options and number of jobs.
THEOREM Invariance == Spec => []IInv
  <1> USE JobsAssumption, SuitesAssumption
  <1>1. Init => IInv BY InitInvariant
  <1>2. IInv /\ [Next]_vars => IInv'
    <2> SUFFICES ASSUME IInv, [Next]_vars PROVE IInv' OBVIOUS
    <2>1. CASE WorkerStart BY <2>1, StartStep
    <2>2. CASE \E w \in Workers : WaitForWorker(w) BY <2>2, WaitStep
    <2>3. CASE Finish BY <2>3, FinishStep
    <2>4. CASE \E w \in Workers : Exit(w) BY <2>4, ExitStep
    <2>5. CASE Done BY <2>5, StutterStep DEF Done
    <2>6. CASE UNCHANGED vars BY <2>6, StutterStep
    <2>7. QED BY <2>1, <2>2, <2>3, <2>4, <2>5, <2>6 DEF Next, Run
  <1>3. QED BY <1>1, <1>2, PTL DEF Spec
-----------------------------------------------------------------------------
(* What the invariant says of the properties of the test runner. *)

LEMMA IncompleteRuns ==
  ASSUME IInv, JobsAssumption, Loops
  PROVE  running # {} \/ queue # <<>>
  <1> USE DEF IInv
  <1> DEFINE c == completed_cursor
  <1>1. c \in DOMAIN tests /\ num_workers_completed[c] # Len(shares[c])
    BY DEF Loops, Cursor, Setup
  <1>2. Reaped(c) # DOMAIN shares[c] BY <1>1, ReapedAll
  <1>3. PICK j \in DOMAIN shares[c] : process[<<c, j>>] # "reaped" BY <1>2 DEF Reaped
  <1>4. <<c, j>> \in Workers BY <1>1, WorkersAre
  <1>5. CASE process[<<c, j>>] = "queued"
    <2>1. <<c, j>> \in Range(queue) BY <1>4, <1>5 DEF Lists
    <2>2. queue # <<>> BY <2>1 DEF Range
    <2>3. QED BY <2>2
  <1>6. CASE process[<<c, j>>] # "queued"
    <2>1. process[<<c, j>>] \in {"alive", "succeeded", "failed"} BY <1>3, <1>4, <1>6 DEF Lists
    <2>2. QED BY <1>4, <2>1 DEF Lists
  <1>7. QED BY <1>5, <1>6

\* A test of which all workers were waited for passed if a single process would have.
LEMMA TestVerdict ==
  ASSUME IInv, JobsAssumption, NEW t \in DOMAIN tests, Reaped(t) = DOMAIN shares[t]
  PROVE  AllWorkersPassed(t, passed) <=> ((culprit[t] = Nothing) <=> tests[t].should_succeed)
  <1> DEFINE parts == shares[t]  S(j) == ShareInputs(tests[t], parts[j])
             ok == tests[t].should_succeed
  <1> USE DEF IInv
  <1>1. /\ IsTest(tests[t]) /\ culprit[t] \in Whole(tests[t]) \cup {Nothing}
        /\ Len(parts) \in Nat \ {0} /\ DOMAIN parts = 1..Len(parts)
        /\ Tiled(tests[t], parts)
    BY Shape DEF Setup
  <1>2. ASSUME NEW j \in DOMAIN parts
        PROVE  passed[<<t, j>>] <=> (culprit[t] \notin S(j) <=> ok)
    <2>1. <<t, j>> \in Workers /\ process[<<t, j>>] = "reaped"
      BY WorkersAre DEF Reaped
    <2>2. Succeeds(<<t, j>>) <=> culprit[t] \notin S(j) BY DEF Succeeds
    <2>3. passed[<<t, j>>] <=> (Succeeds(<<t, j>>) <=> ok)
      BY <2>1 DEF Outcomes, Outcome
    <2>4. QED BY <2>2, <2>3
  <1>3. Nothing \notin Whole(tests[t])
    <2>1. Whole(tests[t]) \subseteq Inputs64
      <3>1. CASE tests[t].type = "simple" BY <3>1 DEF Whole, Inputs64
      <3>2. CASE tests[t].type = "range"
        <4>1. Whole(tests[t]) = tests[t].start..tests[t].end BY <3>2 DEF Whole
        <4>2. {tests[t].start, tests[t].end} \subseteq Inputs64 BY <1>1, <3>2 DEF IsTest
        <4>3. QED BY <4>1, <4>2 DEF Inputs64
      <3>3. CASE tests[t].type = "random"
        <4>1. Whole(tests[t]) = {Wrap(global_seed + i) : i \in 1..tests[t].num_values}
          BY <3>3 DEF Whole
        <4>2. ASSUME NEW i \in 1..tests[t].num_values PROVE Wrap(global_seed + i) \in Inputs64
          <5>1. global_seed + i \in Nat BY DEF JobsAssumption, Inputs64
          <5>2. QED BY <5>1, DivMod DEF Wrap, Inputs64
        <4>3. QED BY <4>1, <4>2
      <3>4. QED BY <1>1, <3>1, <3>2, <3>3 DEF IsTest
    <2>2. QED BY <2>1 DEF Nothing, Inputs64
  <1>4. ok \in BOOLEAN /\ (~ok => tests[t].type = "simple") BY <1>1 DEF IsTest
  <1>5. AllWorkersPassed(t, passed) <=> \A j \in DOMAIN parts : (culprit[t] \notin S(j) <=> ok)
    BY <1>2 DEF AllWorkersPassed
  <1>6. UNION {S(j) : j \in DOMAIN parts} = Whole(tests[t]) BY <1>1 DEF Tiled
  <1> HIDE DEF S, ok
  <1>7. CASE culprit[t] = Nothing
    <2>1. \A j \in DOMAIN parts : culprit[t] \notin S(j) BY <1>3, <1>6, <1>7
    <2>2. 1 \in DOMAIN parts BY <1>1
    <2>3. AllWorkersPassed(t, passed) <=> ok BY <1>4, <1>5, <2>1, <2>2
    <2>4. QED BY <1>7, <2>3 DEF ok
  <1>8. CASE culprit[t] # Nothing
    <2>1. PICK j \in DOMAIN parts : culprit[t] \in S(j) BY <1>1, <1>6, <1>8
    <2>2. CASE ok
      <3>1. ~AllWorkersPassed(t, passed) BY <1>5, <2>1, <2>2
      <3>2. QED BY <1>8, <2>2, <3>1 DEF ok
    <2>3. CASE ~ok
      <3>1. shares[t] = Shares(tests[t], num_jobs) BY DEF Setup
      <3>2. parts = <<[start |-> 0, end |-> 0]>> BY <1>4, <2>3, <3>1 DEF Shares
      <3>3. DOMAIN parts = {1} BY <3>2
      <3>4. AllWorkersPassed(t, passed) BY <1>5, <2>1, <2>3, <3>3
      <3>5. QED BY <1>8, <2>3, <3>4 DEF ok
    <2>4. QED BY <2>2, <2>3
  <1>9. QED BY <1>7, <1>8

\* The variables have their types.
THEOREM TypeCorrect == Spec => []TypeOK
  <1>1. IInv => TypeOK
    <2> SUFFICES ASSUME IInv PROVE TypeOK OBVIOUS
    <2> USE DEF IInv
    <2>1. \A t \in DOMAIN tests : num_workers_completed[t] \in 0..Len(shares[t])
      BY JobsAssumption, ReapedAll
    <2>2. running \subseteq Workers BY DEF Lists
    <2>3. QED BY <2>1, <2>2 DEF TypeOK, Setup, Lists, Cursor, Outcomes, Verdict
  <1>2. QED BY <1>1, Invariance, PTL

\* However many jobs there are and wherever a range or a seed wraps around, every input
\* of a test is in the share of exactly one worker, and no worker is idle.
THEOREM TestsAreTiled == Spec => []WorkTiled
  <1>1. IInv => WorkTiled
    <2> SUFFICES ASSUME IInv, NEW t \in DOMAIN tests
                 PROVE  /\ shares[t] # <<>> /\ Len(shares[t]) <= num_jobs
                        /\ Tiled(tests[t], shares[t])
      BY DEF WorkTiled, Tiled
    <2>1. Setup BY DEF IInv
    <2>2. Len(shares[t]) \in 1..num_jobs /\ Tiled(tests[t], shares[t])
      BY <2>1, JobsAssumption, Shape
    <2>3. QED BY <2>1, <2>2 DEF Setup
  <1>2. QED BY <1>1, Invariance, PTL

\* The list of running workers names the children of the runner, at most num_jobs, and
\* the runner never waits for children it does not have.
THEOREM PoolIsExact == Spec => []PoolExact
  <1>1. IInv => PoolExact
    <2> SUFFICES ASSUME IInv PROVE PoolExact OBVIOUS
    <2>1. Loops => running # {} \/ queue # <<>> BY JobsAssumption, IncompleteRuns
    <2>2. ToSet(queue) = Range(queue) BY DEF ToSet, Range
    <2>3. QED BY <2>1, <2>2 DEF PoolExact, Lists, IInv
  <1>2. QED BY <1>1, Invariance, PTL

\* The results are printed in the order of the tests, each once and after its last
\* worker ended, with the verdict of a single process, and decide the exit status.
THEOREM ReportIsExact == Spec => []ReportExact
  <1>1. IInv => ReportExact
    <2> SUFFICES ASSUME IInv PROVE ReportExact OBVIOUS
    <2> USE DEF IInv
    <2>1. /\ DOMAIN printed = 1..(completed_cursor - 1) /\ Len(printed) = completed_cursor - 1
          /\ \A i \in DOMAIN printed :
               printed[i] = [test |-> i, passed |-> AllWorkersPassed(i, passed)]
      BY DEF Printed, Cursor, Setup
    <2>2. ASSUME NEW i \in DOMAIN printed
          PROVE  /\ i \in DOMAIN tests /\ printed[i].test = i
                 /\ \A j \in DOMAIN shares[i] : process[<<i, j>>] = "reaped"
                 /\ printed[i].passed <=> ((culprit[i] = Nothing) <=> tests[i].should_succeed)
      <3>1. i \in DOMAIN tests /\ num_workers_completed[i] = Len(shares[i])
        <4>1. i \in 1..(completed_cursor - 1) BY <2>1
        <4>2. completed_cursor \in 1..(Len(tests) + 1) /\ Len(tests) \in Nat /\ DOMAIN tests = 1..Len(tests)
          BY DEF Cursor, Setup
        <4>3. i \in 1..Len(tests) BY <4>1, <4>2
        <4>4. QED BY <4>1, <4>2, <4>3 DEF Cursor
      <3>2. Reaped(i) = DOMAIN shares[i] BY <3>1, JobsAssumption, ReapedAll
      <3>3. \A j \in DOMAIN shares[i] : process[<<i, j>>] = "reaped" BY <3>2 DEF Reaped
      <3>4. AllWorkersPassed(i, passed) <=> ((culprit[i] = Nothing) <=> tests[i].should_succeed)
        BY <3>1, <3>2, JobsAssumption, TestVerdict
      <3>5. QED BY <2>1, <3>1, <3>3, <3>4
    <2>3. \A t \in DOMAIN tests : tests[t].should_succeed \in BOOLEAN BY DEF Setup, IsTest
    <2>4. ASSUME status # "runs"
          PROVE  /\ Len(printed) = Len(tests)
                 /\ (status = "EXIT_SUCCESS") <=>
                      \A t \in DOMAIN tests : (culprit[t] = Nothing) = tests[t].should_succeed
      <3>1. /\ Len(printed) = Len(tests) /\ DOMAIN printed = DOMAIN tests
            /\ status = "EXIT_SUCCESS" <=> \A i \in DOMAIN printed : printed[i].passed
        BY <2>1, <2>4 DEF Verdict, Setup
      <3>2. \A i \in DOMAIN printed :
              printed[i].passed <=> (culprit[i] = Nothing) = tests[i].should_succeed
        BY <2>2, <2>3
      <3>3. QED BY <3>1, <3>2
    <2>5. QED BY <2>2, <2>3, <2>4 DEF ReportExact
  <1>2. QED BY <1>1, Invariance, PTL
=============================================================================
