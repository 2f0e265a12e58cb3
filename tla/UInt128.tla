------------------------------- MODULE UInt128 -------------------------------
(***************************************************************************)
(* The integers of the library that run where the compiler has none of its *)
(* own: the functions on words of include/utils.h and src/utils.c, and on  *)
(* them the numbers of two words of include/uint128.h; memory is such a    *)
(* number, on which a client computes, contents the number it expects.     *)
(* And random numbers in a range, of src/random.c and include/random.h,    *)
(* which are products of words: memory is the range the client asks for    *)
(* and the answer, once the generator, which may draw any word, has drawn  *)
(* one that is not rejected.                                               *)
(***************************************************************************)
EXTENDS Integers, Bitwise, FiniteSets

CONSTANT Bits   \* of a word: a power of 2

VARIABLES memory, contents

Word          == 0..2^Bits - 1
Wrap(x)       == x % 2^Bits
Complement(x) == 2^Bits - 1 - x
Top(x)        == x \div 2^(Bits - 1)   \* the sign bit
Signed(x)     == x - Top(x) * 2^Bits   \* to_signed

AddOverflow(x, y, is_signed) ==
  LET r == Wrap(x + y)
  IN [result |-> r, overflow |-> IF is_signed THEN Top((r ^^ x) & (r ^^ y)) = 1 ELSE r < x]

SubOverflow(x, y, is_signed) ==
  LET r == Wrap(x - y)
  IN [result |-> r, overflow |-> IF is_signed THEN Top((x ^^ y) & (r ^^ x)) = 1 ELSE r > x]

\* c is the largest magnitude the product may have, one more when it is negative.
MulOverflow(x, y, is_signed) ==
  LET Magnitude(z) == IF is_signed /\ Signed(z) < 0 THEN Wrap(-z) ELSE z
      c == IF ~is_signed THEN 2^Bits - 1
           ELSE IF Top(x ^^ y) = 0 THEN 2^(Bits - 1) - 1 ELSE 2^(Bits - 1)
  IN [result   |-> Wrap(x * y),
      overflow |-> Magnitude(y) # 0 /\ Magnitude(x) > c \div Magnitude(y)]

\* The loop that shifts a word to the right until it is 0.
RECURSIVE Length(_)
Length(x) == IF x = 0 THEN 0 ELSE 1 + Length(x \div 2)

Clz(x)   == Bits - Length(x)
Ctz(x)   == Length(Complement(x) & Wrap(x - 1))
Ffs(x)   == IF x = 0 THEN 0 ELSE 1 + Length(Complement(x) & Wrap(x - 1))
Ilog2(x) == (Bits - 1) ^^ Clz(x | 1)

RECURSIVE Popcount(_)
Popcount(x) == IF x = 0 THEN 0 ELSE 1 + Popcount(x & (x - 1))

\* The table of _ilog10_32 has k * 2^32 - 10^k for the logarithm to the base 2 of x,
\* so that the upper half of the sum with x is k, or k - 1 below that power of 10.
TenPower(log2) == <<0, 1, 1, 1, 2, 2, 2, 3, 3, 3, 4, 4, 4, 4, 5, 5>>[log2 + 1]
Ilog10_32(x)   == LET k == TenPower(Ilog2(x)) IN IF k = 0 \/ x >= 10^k THEN k ELSE k - 1

Ilog10_64(x) == LET y == (19 * Ilog2(x)) \div 64
                IN IF x > 10^(y + 1) - 1 THEN y + 1 ELSE y
-----------------------------------------------------------------------------
Double   == [high : Word, low : Word]
Value(a) == a.high * 2^Bits + a.low
FromHighLowBits(high, low) == [high |-> high, low |-> low]

Add(a, b) == LET low == AddOverflow(a.low, b.low, FALSE)
             IN FromHighLowBits(Wrap(a.high + b.high + (IF low.overflow THEN 1 ELSE 0)), low.result)

Sub(a, b) == LET low == SubOverflow(a.low, b.low, FALSE)
             IN FromHighLowBits(Wrap(a.high - b.high - (IF low.overflow THEN 1 ELSE 0)), low.result)

Negate(a) == Sub(FromHighLowBits(0, 0), a)

\* From the products of the halves of two words; no sum of them wraps around.
Mul64(x, y) ==
  LET half   == 2^(Bits \div 2)
      Lo(z)  == z % half
      Hi(z)  == z \div half
      l      == Wrap(Lo(x) * Lo(y))
      m      == Wrap(Hi(l) + Wrap(Hi(x) * Lo(y)))
      middle == Wrap(Lo(m) + Wrap(Lo(x) * Hi(y)))
  IN FromHighLowBits(Wrap(Hi(x) * Hi(y) + Wrap(Hi(m) + Hi(middle))), Wrap(Lo(l) + middle * half))

Mul(a, b) == LET r == Mul64(a.low, b.low)
             IN [r EXCEPT !.high = Wrap(@ + a.high * b.low + a.low * b.high)]

Lshift(a, shift_amount) ==
  LET s == shift_amount % (2 * Bits)
  IN IF s >= Bits THEN FromHighLowBits(Wrap(a.low * 2^(s - Bits)), 0)
     ELSE FromHighLowBits(Wrap(a.high * 2^s) | (IF s = 0 THEN 0 ELSE a.low \div 2^(Bits - s)),
                          Wrap(a.low * 2^s))

Rshift(a, shift_amount) ==
  LET s == shift_amount % (2 * Bits)
  IN IF s >= Bits THEN FromHighLowBits(0, a.high \div 2^(s - Bits))
     ELSE FromHighLowBits(a.high \div 2^s,
                          (a.low \div 2^s) | (IF s = 0 THEN 0 ELSE Wrap(a.high * 2^(Bits - s))))

BitAnd(a, b) == FromHighLowBits(a.high & b.high, a.low & b.low)
BitOr(a, b)  == FromHighLowBits(a.high | b.high, a.low | b.low)
BitXor(a, b) == FromHighLowBits(a.high ^^ b.high, a.low ^^ b.low)
Invert(a) == FromHighLowBits(Complement(a.high), Complement(a.low))

Cmp(a, b) == LET x == IF a.high = b.high THEN a.low ELSE a.high
                 y == IF a.high = b.high THEN b.low ELSE b.high
             IN IF x < y THEN -1 ELSE IF x > y THEN 1 ELSE 0
-----------------------------------------------------------------------------
Leaves(a, value) == memory' = a /\ contents' = value % 2^(2 * Bits)

Init == memory = FromHighLowBits(0, 0) /\ contents = 0

Compute == \E b \in Double : \/ Leaves(Add(memory, b), contents + Value(b))
                             \/ Leaves(Sub(memory, b), contents - Value(b))
                             \/ Leaves(Mul(memory, b), contents * Value(b))
                             \/ Leaves(Mul64(memory.low, b.low), (contents % 2^Bits) * b.low)
                             \/ Leaves(BitAnd(memory, b), contents & Value(b))
                             \/ Leaves(BitOr(memory, b), contents | Value(b))
                             \/ Leaves(BitXor(memory, b), contents ^^ Value(b))

Shift == \/ \E s \in 0..4 * Bits : LET places == s % (2 * Bits) IN
              \/ Leaves(Lshift(memory, s), contents * 2^places)
              \/ Leaves(Rshift(memory, s), contents \div 2^places)
         \/ Leaves(Negate(memory), -contents)
         \/ Leaves(Invert(memory), -contents - 1)

Operate == Compute \/ Shift
-----------------------------------------------------------------------------
TypeOK == memory \in Double

\* Flags of overflow are set exactly when the result is not what it would be without a
\* limit, whatever the signs; results are right in the width of a word.
OverflowsExact(x, y) ==
  \A is_signed \in BOOLEAN :
    LET Of(z)    == IF is_signed THEN Signed(z) ELSE z
        Fits(z)  == \E v \in Word : Of(v) = z
        Right(r, z) == r.result = Wrap(z) /\ (r.overflow <=> ~Fits(z))
    IN /\ Right(AddOverflow(x, y, is_signed), Of(x) + Of(y))
       /\ Right(SubOverflow(x, y, is_signed), Of(x) - Of(y))
       /\ Right(MulOverflow(x, y, is_signed), Of(x) * Of(y))

\* Counts and logarithms agree with the bits of the word, 0 included.
CountsExact(x) ==
  LET Ones == {i \in 0..Bits - 1 : (x \div 2^i) % 2 = 1}
  IN /\ Popcount(x) = Cardinality(Ones)
     /\ \A i \in Ones : Ctz(x) <= i /\ i < Bits - Clz(x) /\ i <= Ilog2(x)
     /\ IF Ones = {} THEN Ctz(x) = Bits /\ Clz(x) = Bits /\ Ffs(x) = 0 /\ Ilog2(x) = 0
        ELSE {Ctz(x), Ffs(x) - 1, Bits - 1 - Clz(x), Ilog2(x)} \subseteq Ones

\* Logarithms to the base 10, for words of at most 16 bits.
LogsExact(x) == \A log \in {Ilog10_32(x), Ilog10_64(x)} :
                  IF x = 0 THEN log = 0 ELSE 10^log <= x /\ x < 10^(log + 1)

\* Carries, borrows and bits that cross from word to word leave the number the client
\* would have computed modulo the range of both words, and comparisons order numbers.
Exact == /\ Value(memory) = contents
         /\ \A b \in Double : Cmp(memory, b) = (IF contents < Value(b) THEN -1
                                                ELSE IF contents > Value(b) THEN 1 ELSE 0)
         /\ OverflowsExact(memory.high, memory.low)
         /\ CountsExact(memory.low)
-----------------------------------------------------------------------------
(* Random numbers in a range. *)

Draws     == 0..2^Bits - 1
NoAnswer  == -1

\* The low word of the product tells whether x is one too many for the number it
\* stands for; the remainder is only computed when that is possible.
Accepted(s, x) ==
  LET l == Wrap(x * s)
      t == Wrap(-s) % s
  IN l >= s \/ l >= t

Answer32(s, x) == (x * s) \div 2^Bits
Answer64(s, x) == Mul64(x, s).high

\* random_next_u32_in_range and random_next_u64_in_range, whose range may be all words
InRange(min, max, x) ==
  LET n == Wrap(max - min + 1) IN
  IF n = 0 THEN {x} ELSE {min + Answer32(n, x), min + Answer64(n, x)}

AnswersTo(min, max, x) ==
  LET n == Wrap(max - min + 1)
  IN IF n = 0 \/ Accepted(n, x) THEN InRange(min, max, x) ELSE {NoAnswer}
-----------------------------------------------------------------------------
RangeInit == /\ memory \in {[min |-> a, max |-> b, answer |-> NoAnswer] : a, b \in Draws}
             /\ memory.min <= memory.max
             /\ contents = {}

\* One round of the loop, which goes on when the word is rejected.
Draw == /\ memory.answer = NoAnswer
        /\ \E x \in Draws : \E answer \in AnswersTo(memory.min, memory.max, x) :
             memory' = [memory EXCEPT !.answer = answer]
        /\ UNCHANGED contents

\* The client asks again.
Ask == /\ memory.answer # NoAnswer
       /\ memory' = [memory EXCEPT !.answer = NoAnswer]
       /\ UNCHANGED contents

RangeOperate == Draw \/ Ask
-----------------------------------------------------------------------------
RangeTypeOK == memory.answer \in {NoAnswer} \cup memory.min..memory.max

\* Every number of the range is the answer to equally many words, whichever of the two
\* products is used.
RangeExact ==
  LET n     == memory.max - memory.min + 1
      For(a) == {x \in Draws : AnswersTo(memory.min, memory.max, x) = {a}}
  IN \A a \in memory.min..memory.max : Cardinality(For(a)) = 2^Bits \div n
=============================================================================
