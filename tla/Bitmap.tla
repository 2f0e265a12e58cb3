------------------------------- MODULE Bitmap -------------------------------
(***************************************************************************)
(* The bitmaps of staging/bitmap.h: memory is two of them, sequences of    *)
(* words, each of which is the set of its bits that are 1; contents the    *)
(* bits a client expects to be 1 in each.  The operations on the first     *)
(* nbits of both touch a word more than these have when nbits fills the    *)
(* last; it keeps its value, and may lie behind the bitmap.                *)
(***************************************************************************)
EXTENDS Integers, Sequences, FiniteSets, FiniteSetsExt

CONSTANTS BITS_PER_LONG, NumBits

VARIABLES memory, contents

Word      == 0..BITS_PER_LONG - 1
WordOf(i) == i \div BITS_PER_LONG
BitOf(i)  == i % BITS_PER_LONG
Indices   == 0..WordOf(NumBits + BITS_PER_LONG - 1) - 1   \* bm_required_size
Mask(i)   == BitOf(i)..BITS_PER_LONG - 1                  \* ~0UL << (i & (BITS_PER_LONG - 1))

TestBit(bm, i) == BitOf(i) \in bm[WordOf(i)]

SetBitVal(bm, i, val) ==
  [bm EXCEPT ![WordOf(i)] = (@ \ {BitOf(i)}) \cup (IF val THEN {BitOf(i)} ELSE {})]

Ffs(word) == IF word = {} THEN BITS_PER_LONG ELSE Min(word)

\* The first word from the one of start on that has a bit left, or nbits.
FindNext(bm, start, nbits, xor_mask) ==
  LET Bits(w)  == IF xor_mask THEN Word \ bm[w] ELSE bm[w]
      first    == WordOf(start)
      Left(w)  == IF w = first THEN Bits(w) \cap Mask(start) ELSE Bits(w)
      nonempty == {w \in first..WordOf(nbits - 1) : Left(w) # {}}
      found    == Min(nonempty) * BITS_PER_LONG + Ffs(Left(Min(nonempty)))
  IN IF start >= nbits \/ nonempty = {} THEN nbits ELSE Min({found, nbits})

\* Whole words, and those bits of the next that are below nbits.
And(bm, other, nbits) ==
  [w \in Indices |-> CASE w < WordOf(nbits) -> bm[w] \cap other[w]
                       [] w = WordOf(nbits) -> bm[w] \cap (other[w] \cup Mask(nbits))
                       [] OTHER             -> bm[w]]
Or(bm, other, nbits) ==
  [w \in Indices |-> CASE w < WordOf(nbits) -> bm[w] \cup other[w]
                       [] w = WordOf(nbits) -> bm[w] \cup (other[w] \ Mask(nbits))
                       [] OTHER             -> bm[w]]
Difference(a, b) == (a \ b) \cup (b \ a)
Xor(bm, other, nbits) ==
  [w \in Indices |-> CASE w < WordOf(nbits) -> Difference(bm[w], other[w])
                       [] w = WordOf(nbits) -> Difference(bm[w], other[w] \ Mask(nbits))
                       [] OTHER             -> bm[w]]
Not(bm, nbits) ==
  [w \in Indices |-> CASE w < WordOf(nbits) -> Word \ bm[w]
                       [] w = WordOf(nbits) -> Difference(bm[w], Word \ Mask(nbits))
                       [] OTHER             -> bm[w]]
-----------------------------------------------------------------------------
Init == memory = <<[w \in Indices |-> {}], [w \in Indices |-> {}]>> /\ contents = <<{}, {}>>

Leaves(k, bm, bits) == memory' = [memory EXCEPT ![k] = bm] /\ contents' = [contents EXCEPT ![k] = bits]

ChangeBit == \E k \in 1..2, i \in 0..NumBits - 1 :
               \/ Leaves(k, SetBitVal(memory[k], i, TRUE), contents[k] \cup {i})
               \/ Leaves(k, SetBitVal(memory[k], i, FALSE), contents[k] \ {i})

Combine == \E k \in 1..2, nbits \in 0..NumBits :
             LET bm   == memory[k]    other  == memory[3 - k]
                 bits == contents[k]  others == {i \in contents[3 - k] : i < nbits}
                 below == 0..nbits - 1
             IN \/ Leaves(k, And(bm, other, nbits), bits \ (below \ others))
                \/ Leaves(k, Or(bm, other, nbits), bits \cup others)
                \/ Leaves(k, Xor(bm, other, nbits), Difference(bits, others))
                \/ Leaves(k, Not(bm, nbits), Difference(bits, below))

Operate == ChangeBit \/ Combine
-----------------------------------------------------------------------------
TypeOK == memory \in Seq([Indices -> SUBSET Word])

\* Operations on a number of bits that ends within a word change no bit behind it.
Exact == \A k \in 1..2 : contents[k] = {i \in 0..NumBits - 1 : TestBit(memory[k], i)}

\* The next one or zero is found across words, from any place, below any limit.
FindsExact ==
  \A start, nbits \in 0..NumBits :
    /\ FindNext(memory[1], start, nbits, FALSE) =
         Min({nbits} \cup {i \in contents[1] : start <= i /\ i < nbits})
    /\ FindNext(memory[1], start, nbits, TRUE) =
         Min({nbits} \cup {i \in (0..NumBits - 1) \ contents[1] : start <= i /\ i < nbits})
=============================================================================
