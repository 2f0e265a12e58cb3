----------------------------- MODULE BinaryHeap -----------------------------
(***************************************************************************)
(* DEFINE_BINHEAP of include/heap.h: memory is the array of a client, a    *)
(* function on 0..n - 1 as in C, whose elements are ordered by Less;       *)
(* contents is the sorted sequence of the elements the heap should hold.   *)
(***************************************************************************)
EXTENDS Integers, SequencesExt, Functions

CONSTANTS Less(_, _), Keys, MaxHeap

VARIABLES memory, contents

Parent(i) == (i - 1) \div 2
Swap(arr, i, j) == [arr EXCEPT ![i] = arr[j], ![j] = arr[i]]

RECURSIVE SiftUp(_, _, _)
SiftUp(arr, start, i) ==
  IF i = start \/ Less(arr[Parent(i)], arr[i]) THEN arr
  ELSE SiftUp(Swap(arr, i, Parent(i)), start, Parent(i))

\* To the bottom along the smaller children, then up again to where it belongs.
RECURSIVE Sink(_, _, _, _)
Sink(arr, n, start, i) ==
  LET left     == 2 * i + 1
      right    == 2 * i + 2
      smallest == IF Less(arr[right], arr[left]) THEN right ELSE left
  IN CASE right < n                                  -> Sink(Swap(arr, i, smallest), n, start, smallest)
       [] left = n - 1 /\ Less(arr[left], arr[i])    -> Swap(arr, left, i)
       [] OTHER                                      -> SiftUp(arr, start, i)

SiftDownBottomUp(arr, n, i) == Sink(arr, n, i, i)

RECURSIVE SiftDown(_, _, _)
SiftDown(arr, n, i) ==
  LET left     == 2 * i + 1
      right    == 2 * i + 2
      smaller  == IF left < n /\ Less(arr[left], arr[i]) THEN left ELSE i
      smallest == IF right < n /\ Less(arr[right], arr[smaller]) THEN right ELSE smaller
  IN IF smallest = i THEN arr ELSE SiftDown(Swap(arr, i, smallest), n, smallest)

RECURSIVE HeapifyFrom(_, _, _)
HeapifyFrom(arr, n, i) == IF i \in DOMAIN arr THEN HeapifyFrom(SiftDownBottomUp(arr, n, i), n, i - 1)
                          ELSE arr
Heapify(arr, n) == HeapifyFrom(arr, n, n \div 2 - 1)

\* The last element takes the place of the deleted one and stays where it was: the
\* client drops it.
Delete(arr, n, i) ==
  IF i = n - 1 THEN arr
  ELSE SiftUp(SiftDownBottomUp([arr EXCEPT ![i] = arr[n - 1]], n, i), 0, i)

DeleteFirst(arr, n) == SiftDownBottomUp([arr EXCEPT ![0] = arr[n - 1]], n - 1, 0)

IsHeapUntil(arr, n) == Min({i \in 1..n - 1 : Less(arr[i], arr[Parent(i)])} \cup {n})

\* Each round extracts the first element and puts it behind the rest.
RECURSIVE SortFrom(_, _, _)
SortFrom(arr, n, i) ==
  IF i \in DOMAIN arr
  THEN SortFrom([DeleteFirst(arr, n - i) EXCEPT ![n - 1 - i] = arr[0]], n, i + 1)
  ELSE arr
HeapSort(arr, n) == SortFrom(arr, n, 0)
-----------------------------------------------------------------------------
N         == Len(contents)
Ordered(s) == SortSeq(s, Less)
Array(s)  == [i \in 0..Len(s) - 1 |-> s[i + 1]]
Sequence(arr, n)  == [i \in 1..n |-> arr[i - 1]]
First(arr, n)     == [i \in 0..n - 1 |-> arr[i]]
Dropped(s, i)     == SubSeq(s, 1, i - 1) \o SubSeq(s, i + 1, Len(s))
Without(v)        == Dropped(contents, CHOOSE i \in DOMAIN contents : contents[i] = v)

Insert == \E v \in Keys : /\ N < MaxHeap
                          /\ memory' = SiftUp([i \in 0..N |-> IF i = N THEN v ELSE memory[i]], 0, N)
                          /\ contents' = Ordered(Append(contents, v))

Take == \/ \E i \in 0..N - 1 : /\ memory' = First(Delete(memory, N, i), N - 1)
                                 /\ contents' = Without(memory[i])
        \/ /\ N # 0
             /\ memory' = First(DeleteFirst(memory, N), N - 1)   \* extract_first
             /\ contents' = Tail(contents)

\* The client changes an element and moves it to where it belongs.
Change == \E i \in 0..N - 1, v \in Keys :
            LET arr == [memory EXCEPT ![i] = v]
            IN /\ memory' = IF Less(v, memory[i]) THEN SiftUp(arr, 0, i) ELSE SiftDown(arr, N, i)
               /\ contents' = Ordered(Append(Without(memory[i]), v))

Build == \E s \in SeqOf(Keys, MaxHeap) :
           N = 0 /\ memory' = Heapify(Array(s), Len(s)) /\ contents' = Ordered(s)

Init == memory = <<>> /\ contents = <<>>

Operate == Insert \/ Take \/ Change \/ Build
-----------------------------------------------------------------------------
TypeOK == memory \in [0..N - 1 -> Keys] /\ N <= MaxHeap

\* The heap holds the elements its client put in it.
Exact == Ordered(Sequence(memory, N)) = contents

\* No element belongs in front of its parent, so that the first is the smallest; the
\* check of the library agrees, and sorting the heap puts the smallest last.
HeapOrder == /\ \A i \in 1..N - 1 : ~Less(memory[i], memory[Parent(i)])
             /\ IsHeapUntil(memory, N) = N
             /\ Sequence(HeapSort(memory, N), N) = Reverse(contents)
=============================================================================
