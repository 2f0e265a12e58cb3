-------------------------------- MODULE DBuf --------------------------------
(***************************************************************************)
(* The dynamic buffer of src/dbuf.c: memory is the buffer with its size,   *)
(* contents the bytes its client added to it.                              *)
(***************************************************************************)
EXTENDS Integers, SequencesExt

CONSTANTS Bytes, MaxLength, MaxCapacity,
          DBUF_INITIAL_SIZE,
          UINT_RANGE,       \* how many values an unsigned int has
          JUNK

VARIABLES memory, contents

DBUF_INITIALIZER == [capacity |-> 0, size |-> 0, cells |-> <<>>]
Buffer(b)        == SubSeq(b.cells, 1, b.size)

Truncate(b, new_size) == IF new_size < b.size THEN [b EXCEPT !.size = new_size] ELSE b

Resize(b, capacity) ==
  IF capacity = b.capacity THEN b
  ELSE [capacity |-> capacity,
        size     |-> Min({b.size, capacity}),
        cells    |-> [i \in 1..capacity |-> IF i <= b.capacity THEN b.cells[i] ELSE JUNK]]

\* Both capacities are unsigned ints.
Grow(b, n) ==
  LET capacity     == b.capacity % UINT_RANGE
      new_capacity == (IF n < capacity THEN 2 * capacity ELSE capacity + n) % UINT_RANGE
  IN IF n = 0 THEN b ELSE Resize(b, Max({new_capacity, DBUF_INITIAL_SIZE}))

AvailableSize(b) == b.capacity - b.size
Reserve(b, n)    == IF n > AvailableSize(b) THEN Grow(b, n - AvailableSize(b)) ELSE b
ShrinkToFit(b)   == Resize(b, b.size)
Copy(b)          == [b EXCEPT !.cells = [i \in DOMAIN @ |-> IF i <= b.size THEN @[i] ELSE JUNK]]

\* A write behind the last cell adds cells, which the capacity does not account for.
Write(b, bytes) ==
  [b EXCEPT !.cells = [i \in 1..Max({Len(@), b.size + Len(bytes)}) |->
                         IF i - b.size \in DOMAIN bytes THEN bytes[i - b.size] ELSE @[i]]]

\* dbuf_add_byte, dbuf_add_uninitialized and dbuf_add_buf
AddBuf(b, bytes) == [Write(Reserve(b, Len(bytes)), bytes) EXCEPT !.size = @ + Len(bytes)]

\* vsnprintf writes a terminator behind the text, which is not counted.
AddFmt(b, text) == [Write(Reserve(b, Len(text) + 1), Append(text, 0)) EXCEPT !.size = @ + Len(text)]
-----------------------------------------------------------------------------
Leaves(b, c) == Len(c) <= MaxLength /\ memory' = Copy(b) /\ contents' = c

Add == \E bytes \in SeqOf(Bytes, 2) : \/ Leaves(AddBuf(memory, bytes), contents \o bytes)
                                      \/ Leaves(AddFmt(memory, bytes), contents \o bytes)

ChangeCapacity == \/ \E n \in 0..MaxCapacity :
                       \/ Leaves(Resize(memory, n), SubSeq(contents, 1, Min({n, Len(contents)})))
                       \/ Len(contents) + n <= MaxCapacity /\ Leaves(Reserve(memory, n), contents)
                  \/ Leaves(ShrinkToFit(memory), contents)

Cut == \/ \E n \in 0..Len(contents) : Leaves(Truncate(memory, n), SubSeq(contents, 1, n))
       \/ Leaves(DBUF_INITIALIZER, <<>>)   \* dbuf_destroy, dbuf_finalize

Init == memory = DBUF_INITIALIZER /\ contents = <<>>

Operate == Add \/ ChangeCapacity \/ Cut
-----------------------------------------------------------------------------
TypeOK == /\ memory \in [capacity : Nat, size : 0..MaxLength, cells : Seq(Bytes \cup {0, JUNK})]
          /\ Len(memory.cells) = memory.capacity

\* The buffer holds the bytes added to it and has room for them.
Exact == memory.size <= memory.capacity /\ Buffer(memory) = contents
=============================================================================
