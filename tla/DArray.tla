------------------------------- MODULE DArray -------------------------------
(***************************************************************************)
(* The dynamic arrays of include/array.h and src/array.c: memory is the    *)
(* header and the cells behind it, NULL an array of no capacity.  Elements *)
(* that a call leaves uninitialized are written by the client that made    *)
(* it; contents is the plain sequence the client expects.                  *)
(***************************************************************************)
EXTENDS Integers, SequencesExt

CONSTANTS Values,           \* the elements, a set of integers; array_addn_zero adds zeros
          MaxLength,        \* the bound on the arrays
          MaxCapacity,      \* the bound on what a client asks for
          ARRAY_INITIAL_SIZE, ARRAY_GROWTH_FACTOR_NUMERATOR, ARRAY_GROWTH_FACTOR_DENOMINATOR,
          JUNK              \* what a cell holds before it is written

VARIABLES memory, contents

NullArray   == [capacity |-> 0, length |-> 0, cells |-> <<>>]
Elements(a) == SubSeq(a.cells, 1, a.length)

ResizeInternal(a, capacity) ==
  CASE capacity = 0          -> NullArray
    [] capacity = a.capacity -> a
    [] OTHER -> [capacity |-> capacity,
                 length   |-> Min({a.length, capacity}),
                 cells    |-> [i \in 1..capacity |-> IF i <= a.capacity THEN a.cells[i] ELSE JUNK]]

Grow(a, n) ==
  LET grown == ((a.capacity + ARRAY_GROWTH_FACTOR_DENOMINATOR - 1)
                  \div ARRAY_GROWTH_FACTOR_DENOMINATOR) * ARRAY_GROWTH_FACTOR_NUMERATOR
  IN IF n = 0 THEN a
     ELSE ResizeInternal(a, Max({grown, a.capacity + n, ARRAY_INITIAL_SIZE}))

MakeValid(a, i) ==
  LET wide == IF i >= a.capacity THEN Grow(a, i - a.capacity + 1) ELSE a
  IN IF i >= a.length THEN [wide EXCEPT !.length = i + 1] ELSE wide

Addn(a, n) ==
  LET longer == [a EXCEPT !.length = @ + n]
  IN CASE n = 0                      -> a
       [] a.capacity = 0             -> [Grow(a, n) EXCEPT !.length = n]
       [] longer.length > a.capacity -> Grow(longer, longer.length - a.capacity)
       [] OTHER                      -> longer

\* memmove and memcpy: the cells from at on become those of values.  A write behind the
\* last cell adds cells, which the capacity then does not account for.
Put(a, at, values) ==
  [a EXCEPT !.cells = [j \in 1..Max({Len(@), at + Len(values)}) |->
                         IF j - at \in DOMAIN values THEN values[j - at] ELSE @[j]]]

Insertn(a, i, n) == IF n = 0 THEN a
                    ELSE Put(Addn(a, n), i + n, SubSeq(a.cells, i + 1, a.length))

OrderedDeleten(a, i, n) == [Put(a, i, SubSeq(a.cells, i + n + 1, a.length)) EXCEPT !.length = @ - n]

FastDeleten(a, i, n) ==
  LET k == Min({a.length - (i + n), n})
  IN [Put(a, i, SubSeq(a.cells, a.length - k + 1, a.length)) EXCEPT !.length = @ - n]

Truncate(a, newlen) == IF newlen < a.length THEN [a EXCEPT !.length = newlen] ELSE a
Popn(a, n)          == [a EXCEPT !.length = @ - n]
Popped(a)           == a.cells[Popn(a, 1).length + 1]
Clear(a)            == [a EXCEPT !.length = 0]
Reserve(a, n)       == LET rem == a.capacity - a.length IN IF n > rem THEN Grow(a, n - rem) ELSE a
ShrinkToFit(a)      == ResizeInternal(a, a.length)
Copy(a)             == Put([ResizeInternal(NullArray, a.capacity) EXCEPT !.length = a.length], 0, Elements(a))
AddArray(a, values) == Put(Addn(a, Len(values)), a.length, values)

InsertArray(a, i, values) == Put(Insertn(a, i, Len(values)), i, values)

SwapElements(a, i, j) == [a EXCEPT !.cells[i + 1] = a.cells[j + 1], !.cells[j + 1] = a.cells[i + 1]]

RECURSIVE ReverseFrom(_, _)
ReverseFrom(a, i) == IF i >= a.length \div 2 THEN a
                     ELSE ReverseFrom(SwapElements(a, i, a.length - 1 - i), i + 1)

\* What the Fisher-Yates loop can make of the array, with any random numbers.
RECURSIVE ShuffleFrom(_, _)
ShuffleFrom(a, i) == IF i <= 0 THEN {a}
                     ELSE UNION {ShuffleFrom(SwapElements(a, i, j), i - 1) : j \in 0..i}

Sorted(s)  == SortSeq(s, LAMBDA x, y : x < y)
QsortOf(a)  == Put(a, 0, Sorted(Elements(a)))

RECURSIVE BsearchFrom(_, _, _, _)
BsearchFrom(a, key, start, end) ==
  LET idx == start + (end - start) \div 2
  IN CASE end <= start             -> [found |-> FALSE, index |-> start]
       [] key < a.cells[idx + 1]   -> BsearchFrom(a, key, start, idx)
       [] key > a.cells[idx + 1]   -> BsearchFrom(a, key, idx + 1, end)
       [] OTHER                    -> [found |-> TRUE, index |-> idx]

BsearchIndex(a, key) == BsearchFrom(a, key, 0, a.length)
InsertSorted(a, v)   == InsertArray(a, BsearchIndex(a, v).index, <<v>>)
-----------------------------------------------------------------------------
Runs        == SeqOf(Values, 2)
Indices     == 0..Len(contents)
Without(c, i, n)         == SubSeq(c, 1, i) \o SubSeq(c, i + n + 1, Len(c))
With(c, i, values)       == SubSeq(c, 1, i) \o values \o SubSeq(c, i + 1, Len(c))
IsRearranged(s, c)       == Sorted(s) = Sorted(c)

\* A call leaves the array a; c is what the client expects in it.  What lies behind
\* its elements counts as JUNK.
Leaves(a, c) ==
  /\ Len(c) <= MaxLength
  /\ memory' = [a EXCEPT !.cells = [i \in DOMAIN @ |-> IF i <= a.length THEN @[i] ELSE JUNK]]
  /\ contents' = c

\* A call may leave its elements in another order than c.
LeavesSome(a, c) == Leaves(a, IF IsRearranged(Elements(a), c) THEN Elements(a) ELSE c)

ChangeCapacity == \/ \E n \in 0..MaxCapacity :
                       \/ Leaves(ResizeInternal(memory, n), SubSeq(contents, 1, Min({n, Len(contents)})))
                       \/ Len(contents) + n <= MaxCapacity /\ Leaves(Reserve(memory, n), contents)
                  \/ Leaves(ShrinkToFit(memory), contents)
                  \/ Leaves(Copy(memory), contents)

Add == \E values \in Runs :
         \/ Leaves(AddArray(memory, values), contents \o values)
         \/ \E i \in Indices : Leaves(InsertArray(memory, i, values), With(contents, i, values))
         \/ LET valid == MakeValid(memory, Len(contents) + Len(values) - 1)
            IN values # <<>> /\ Leaves(Put(valid, Len(contents), values), contents \o values)

Delete == \/ \E i \in Indices, n \in 1..Len(contents) :
               /\ i + n <= Len(contents)
               /\ \/ Leaves(OrderedDeleten(memory, i, n), Without(contents, i, n))
                  \/ LeavesSome(FastDeleten(memory, i, n), Without(contents, i, n))
          \/ \E n \in Indices : \/ Leaves(Popn(memory, n), SubSeq(contents, 1, Len(contents) - n))
                                \/ Leaves(Truncate(memory, n), SubSeq(contents, 1, n))
          \/ Leaves(Clear(memory), <<>>)

Arrange == \/ Leaves(ReverseFrom(memory, 0), Reverse(contents))
           \/ \E a \in ShuffleFrom(memory, memory.length - 1) : LeavesSome(a, contents)
           \/ Leaves(QsortOf(memory), Sorted(contents))
           \/ /\ Sorted(contents) = contents
              /\ \E v \in Values : Leaves(InsertSorted(memory, v), Sorted(Append(contents, v)))

Init == memory = NullArray /\ contents = <<>>

Operate == ChangeCapacity \/ Add \/ Delete \/ Arrange
-----------------------------------------------------------------------------
TypeOK == /\ memory \in [capacity : Nat, length : 0..MaxLength, cells : Seq(Values \cup {JUNK})]
          /\ Len(memory.cells) = memory.capacity

\* The array holds what its client put in it and has room for it.
Exact == /\ memory.length <= memory.capacity
         /\ Elements(memory) = contents

\* Popping returns the last element; a binary search of a sorted array finds an
\* element, or the place where it keeps the array sorted.
AnswersExact ==
  /\ contents # <<>> => Popped(memory) = contents[Len(contents)]
  /\ Sorted(contents) = contents =>
       \A v \in Values :
         LET at == BsearchIndex(memory, v)
         IN IF at.found THEN contents[at.index + 1] = v
            ELSE \A i \in DOMAIN contents : IF i <= at.index THEN contents[i] < v ELSE contents[i] > v
=============================================================================
