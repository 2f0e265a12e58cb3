-------------------------------- MODULE Sort --------------------------------
(***************************************************************************)
(* DEFINE_SORTFUNC of staging/sort.h for arrays of integers: quicksort     *)
(* with a stack of ranges, insertion sort for short ones, heapsort when    *)
(* partitions keep going wrong.  memory is the array of a client, contents *)
(* the sequence it expects in it.                                          *)
(***************************************************************************)
EXTENDS Integers, SequencesExt

CONSTANTS Values, MaxLength,
          LongInputs,       \* longer arrays, on which partitions go wrong
          Thresholds,       \* the thresholds sort functions are defined with
          NintherSize       \* from this size on the pivot is that of nine elements

VARIABLES memory, contents

Heap == INSTANCE BinaryHeap WITH Less <- LAMBDA a, b : a > b, Keys <- Values, MaxHeap <- MaxLength

Swap(arr, a, b) == [arr EXCEPT ![a] = arr[b], ![b] = arr[a]]

RECURSIVE Ilog2(_)
Ilog2(n) == IF n < 2 THEN 0 ELSE 1 + Ilog2(n \div 2)

Sort2(arr, a, b) == IF arr[b] < arr[a] THEN Swap(arr, a, b) ELSE arr
Sort3(arr, a, b, c) ==
  LET low == Sort2(arr, a, b)
  IN IF low[c] < low[b] THEN Sort2(Swap(low, b, c), a, b) ELSE low

\* The element at i goes to p, those from p on move up by one.
Moved(arr, p, i) == [k \in DOMAIN arr |-> CASE k = p        -> arr[i]
                                            [] k \in p+1..i -> arr[k - 1]
                                            [] OTHER        -> arr[k]]

\* Without a guard an element in front of left that is not greater ends every search.
RECURSIVE InsertionSort(_, _, _, _)
InsertionSort(arr, left, right, guarded) ==
  LET sorted == InsertionSort(arr, left, right - 1, guarded)
      first  == IF guarded THEN left ELSE 1
      place  == IF sorted[right - 1] < sorted[right] THEN right
                ELSE Max({p \in first..right - 1 :
                            (guarded /\ p = left) \/ ~(sorted[right] < sorted[p - 1])})
  IN IF left >= right THEN arr ELSE Moved(sorted, place, right)

Middle(left, right) == left + (right - left) \div 2

SelectPivot(arr, left, right) ==
  LET mid       == Middle(left, right)
      left_mid  == Middle(left, mid)
      right_mid == Middle(mid, right)
      medians   == Sort3(Sort3(Sort3(arr, left_mid, left, mid - 1), mid + 1, right, right_mid),
                         left_mid + 1, mid, right_mid - 1)
  IN Sort3(IF right - left + 1 < NintherSize THEN arr ELSE medians, left, mid, right)

\* The pivot stays in the array and may move.  The result has the ends of both parts.
RECURSIVE Partition(_, _, _, _)
Partition(arr, mid, from, to) ==
  LET i    == Min({k \in DOMAIN arr : k >= from /\ ~(arr[k] < arr[mid])})
      j    == Max({k \in DOMAIN arr : k <= to /\ ~(arr[mid] < arr[k])})
      next == CASE mid = i -> j [] mid = j -> i [] OTHER -> mid
  IN CASE i > j          -> [arr |-> arr, i |-> i, j |-> j]
       [] i = j          -> [arr |-> arr, i |-> i + 1, j |-> j - 1]
       [] i + 1 <= j - 1 -> Partition(Swap(arr, i, j), next, i + 1, j - 1)
       [] OTHER          -> [arr |-> Swap(arr, i, j), i |-> i + 1, j |-> j - 1]

\* heapify and sort of the heap on the elements from left to right
HeapSorted(arr, left, right) ==
  LET size == right - left + 1
      part == Heap!HeapSort(Heap!Heapify([k \in 0..size - 1 |-> arr[left + k]], size), size)
  IN [k \in DOMAIN arr |-> IF k \in left..right THEN part[k - left] ELSE arr[k]]

\* limit counts the bad partitions down and goes on below 0 as a size_t does.
RECURSIVE Quicksort(_, _, _, _, _, _)
Quicksort(arr, left, right, stack, limit, T) ==
  LET size       == right - left + 1
      Rest(a, l) == IF stack = <<>> THEN a
                    ELSE Quicksort(a, Head(stack)[1], Head(stack)[2], Tail(stack), l, T)
      part       == Partition(SelectPivot(arr, left, right), Middle(left, right), left + 1, right - 1)
      left_size  == part.j - left + 1
      right_size == right - part.i + 1
      bad        == Min({left_size, right_size}) < size \div 8
      after      == IF bad THEN limit - 1 ELSE limit
  IN CASE size < T         -> Rest(InsertionSort(arr, left, right, left = 0), limit)
       [] size >= T /\ bad /\ after = 0 -> Rest(HeapSorted(part.arr, left, right), after)
       [] OTHER ->
            IF left_size > right_size
            THEN Quicksort(part.arr, part.i, right, <<<<left, part.j>>>> \o stack, after, T)
            ELSE Quicksort(part.arr, left, part.j, <<<<part.i, right>>>> \o stack, after, T)

\* Below the threshold the smallest element goes first and guards the rest.
InsertionSorted(arr, n) ==
  LET m == CHOOSE i \in 0..n - 1 : \A k \in 0..n - 1 : arr[i] < arr[k] \/ (arr[i] = arr[k] /\ i <= k)
  IN InsertionSort(Swap(arr, 0, m), 1, n - 1, FALSE)

\* name(arr, n), which reads behind an array of no elements
Sorted(arr, n, threshold) ==
  LET T == Max({threshold, 2})
  IN CASE n = 1  -> arr
       [] n = 2  -> Sort2(arr, 0, 1)
       [] n = 3  -> Sort3(arr, 0, 1, 2)
       [] n >= T -> Quicksort(arr, 0, n - 1, <<>>, Ilog2(n), T)
       [] OTHER  -> InsertionSorted(arr, n)
-----------------------------------------------------------------------------
N == Len(contents)

\* The client fills its array one by one or takes a long one.
Fill == /\ \/ \E v \in Values : N < MaxLength /\ contents' = Append(contents, v)
           \/ N = 0 /\ contents' \in LongInputs
        /\ memory' = [i \in 0..Len(contents') - 1 |-> contents'[i + 1]]

Sort == /\ N # 0
        /\ \E threshold \in Thresholds : memory' = Sorted(memory, N, threshold)
        /\ contents' = SortSeq(contents, LAMBDA a, b : a < b)

Init == memory = <<>> /\ contents = <<>>

Operate == Fill \/ Sort
-----------------------------------------------------------------------------
\* Whatever the order of the elements, how often they occur and how the partitions go,
\* sorting leaves the same elements in order.
Exact == /\ DOMAIN memory = 0..N - 1
         /\ \A i \in 1..N : memory[i - 1] = contents[i]
=============================================================================
