----------------------------- MODULE Sequential -----------------------------
(***************************************************************************)
(* The sequential parts of the library, each with a client of its own that *)
(* calls its operations in any order: dynamic strings, arrays and buffers, *)
(* the binary heap, the ring and the message buffer, and bitmaps; an array *)
(* that its client sorts; numbers of two words, random numbers in a range, *)
(* and numbers that are written and read as text.  They share no state;    *)
(* kind says whose client runs, memory is what its calls left, contents    *)
(* what the client expects.                                                *)
(***************************************************************************)
EXTENDS Integers, Sequences

CONSTANTS Kinds,     \* the clients that may run
          JUNK,
          NPOS, Chars, UINT8_MAX, UINT16_MAX, SIZE_LIMIT, DSTRING_INITIAL_SIZE,
          GROWTH_FACTOR_NUMERATOR, GROWTH_FACTOR_DENOMINATOR,   \* of strings and arrays
          FmtBuf, MaxLength, Counts, FillsSmall,
          Values, MaxArray, MaxRequest, ARRAY_INITIAL_SIZE, DBUF_INITIAL_SIZE, UINT_RANGE,
          MaxHeap, MaxSorted, LongInputs, Thresholds, NintherSize,
          CBufCapacity, MBufCapacity, MaxMessage, COUNTER_RANGE,
          BITS_PER_LONG, NumBits,
          WordBits,       \* of the words of two-word numbers and of random words
          UintBits, Types, Numbers, Bases, Typed, MaxTyped

ASSUME CharsAssumption  == Chars \subseteq Nat \ {0} /\ JUNK \notin Chars \cup Values
ASSUME HeadersAssumption == 0 < UINT8_MAX /\ UINT8_MAX < UINT16_MAX /\ UINT16_MAX < SIZE_LIMIT
ASSUME GrowthAssumption ==
  /\ DSTRING_INITIAL_SIZE > 0 /\ ARRAY_INITIAL_SIZE > 0 /\ DBUF_INITIAL_SIZE > 0
  /\ 0 < GROWTH_FACTOR_DENOMINATOR /\ GROWTH_FACTOR_DENOMINATOR < GROWTH_FACTOR_NUMERATOR
ASSUME CountersAssumption ==   \* the lowest bits of a counter are a place in the buffer
  \A capacity \in {CBufCapacity, MBufCapacity} : COUNTER_RANGE % capacity = 0
ASSUME BitsAssumption == {WordBits, UintBits} \subseteq {2, 4, 8, 16}
ASSUME TypesAssumption == \A type \in Types : type.bits \in 1..UintBits

VARIABLES kind, memory, contents

vars == <<kind, memory, contents>>

Smaller(a, b) == a < b

DSTR  == INSTANCE DString WITH DSTRING_GROWTH_FACTOR_NUMERATOR   <- GROWTH_FACTOR_NUMERATOR,
                               DSTRING_GROWTH_FACTOR_DENOMINATOR <- GROWTH_FACTOR_DENOMINATOR
ARRAY == INSTANCE DArray WITH MaxLength   <- MaxArray,
                              MaxCapacity <- MaxRequest,
                              ARRAY_GROWTH_FACTOR_NUMERATOR   <- GROWTH_FACTOR_NUMERATOR,
                              ARRAY_GROWTH_FACTOR_DENOMINATOR <- GROWTH_FACTOR_DENOMINATOR
DBUF  == INSTANCE DBuf WITH Bytes <- Chars, MaxLength <- MaxArray, MaxCapacity <- MaxRequest
HEAP  == INSTANCE BinaryHeap WITH Less <- Smaller, Keys <- Values
SORT  == INSTANCE Sort WITH MaxLength <- MaxSorted
CBUF  == INSTANCE RingBuffers WITH Bytes <- Chars, Capacity <- CBufCapacity
MBUF  == INSTANCE RingBuffers WITH Bytes <- Chars, Capacity <- MBufCapacity
BITS  == INSTANCE Bitmap
U128  == INSTANCE UInt128 WITH Bits <- WordBits
CONV  == INSTANCE CharConv WITH Bits <- UintBits

Init == /\ kind \in Kinds
        /\ kind = "dstring"  => DSTR!Init
        /\ kind = "array"    => ARRAY!Init
        /\ kind = "dbuf"     => DBUF!Init
        /\ kind = "heap"     => HEAP!Init
        /\ kind = "sort"     => SORT!Init
        /\ kind = "cbuf"     => CBUF!Init
        /\ kind = "mbuf"     => MBUF!MessageInit
        /\ kind = "bitmap"   => BITS!Init
        /\ kind = "uint128"  => U128!Init
        /\ kind = "random"   => U128!RangeInit
        /\ kind = "charconv" => CONV!Init

Next == /\ \/ kind = "dstring"  /\ DSTR!Operate
           \/ kind = "array"    /\ ARRAY!Operate
           \/ kind = "dbuf"     /\ DBUF!Operate
           \/ kind = "heap"     /\ HEAP!Operate
           \/ kind = "sort"     /\ SORT!Operate
           \/ kind = "cbuf"     /\ CBUF!Operate
           \/ kind = "mbuf"     /\ MBUF!MessageOperate
           \/ kind = "bitmap"   /\ BITS!Operate
           \/ kind = "uint128"  /\ U128!Operate
           \/ kind = "random"   /\ U128!RangeOperate
           \/ kind = "charconv" /\ CONV!Operate
        /\ UNCHANGED kind

Spec == Init /\ [][Next]_vars
-----------------------------------------------------------------------------
TypeOK == /\ kind = "dstring"  => DSTR!TypeOK
          /\ kind = "array"    => ARRAY!TypeOK
          /\ kind = "dbuf"     => DBUF!TypeOK
          /\ kind = "heap"     => HEAP!TypeOK
          /\ kind = "cbuf"     => CBUF!TypeOK
          /\ kind = "mbuf"     => MBUF!MessageTypeOK
          /\ kind = "bitmap"   => BITS!TypeOK
          /\ kind = "uint128"  => U128!TypeOK
          /\ kind = "random"   => U128!RangeTypeOK
          /\ kind = "charconv" => CONV!TypeOK

\* A container that grows, shrinks or moves its elements, or whose header changes its
\* form, holds what its client put in it, in its order, and has room for it; bits beyond
\* those an operation on bitmaps is for keep their values; sorting an array leaves the
\* same elements in order, however its partitions go; each element of a heap is in front
\* of its children, wherever one is deleted or changed, and sorting it gives them in order.
ContentsExact == /\ TypeOK
                 /\ kind = "dstring"  => DSTR!Exact
                 /\ kind = "array"    => ARRAY!Exact
                 /\ kind = "dbuf"     => DBUF!Exact
                 /\ kind = "heap"     => HEAP!Exact /\ HEAP!HeapOrder
                 /\ kind = "sort"     => SORT!Exact
                 /\ kind = "bitmap"   => BITS!Exact

\* A ring buffer is a queue: bytes, or whole messages, leave it in the order they came,
\* the oldest make room for new ones that may overwrite them, and counters may wrap.
RingsExact == /\ kind = "cbuf"     => CBUF!Exact
              /\ kind = "mbuf"     => MBUF!MessageExact

\* Searches of strings, of sorted arrays and of bitmaps find the first or last place that
\* is right, or none when there is none; comparisons order strings as the alphabet does;
\* the pieces of a split string give it back when joined, from either end.
SearchesExact ==
  /\ kind = "dstring" => DSTR!FindsExact /\ DSTR!ComparesExact /\ DSTR!PiecesExact
  /\ kind = "array"   => ARRAY!AnswersExact
  /\ kind = "bitmap"  => BITS!FindsExact

\* Numbers are exact at the limits of their types: carries cross from word to word, an
\* overflow is reported exactly when there is one, every number of a random range is as
\* likely as any other, and what was written as text reads back as the same number.
NumbersExact == /\ kind = "uint128"  => U128!Exact
                /\ kind = "random"   => U128!RangeExact
                /\ kind = "charconv" => CONV!Exact

\* tests/dstring.c, sanity_check, after every call: CHECK(dstr_length(dstr) <= dstr_capacity(dstr)).
LengthWithinCapacity == kind = "dstring" => DSTR!LengthWithinCapacity
=============================================================================
