------------------------------ MODULE CharConv ------------------------------
(***************************************************************************)
(* The conversions between integers and text of src/charconv.c: memory is  *)
(* a text that to_chars wrote or the client typed, contents the number and *)
(* the flags it was written with.  A character is a number: the digits are *)
(* 0 to 9 and the small letters 10 to 35 as their values, followed by the  *)
(* capital letters.                                                        *)
(***************************************************************************)
EXTENDS Integers, SequencesExt

CONSTANTS Bits,      \* of a uint_t, the widest integer
          Types,     \* the integer types: how many bits, and is_signed
          Numbers,   \* the words a client converts, cut to the width of the type
          Bases,     \* the bases it asks for
          Typed,     \* the characters it types ...
          MaxTyped,  \* ... and how many
          JUNK

VARIABLES memory, contents

W == INSTANCE UInt128   \* its functions on words

UPPER   == 26   \* from a small letter to the capital one
MINUS   == 70
PLUS    == 71
NUL     == 72
INVALID == 255
Nothing == [base |-> 0]   \* nothing was written
-----------------------------------------------------------------------------
Character(d, uppercase) == IF uppercase /\ d >= 10 THEN d + UPPER ELSE d

\* The loops over four, two and one digits at a time.
RECURSIVE CountDigits(_, _)
CountDigits(x, base) == IF x >= base^4 THEN 4 + CountDigits(x \div base^4, base)
                        ELSE IF x >= base^2 THEN 2 + CountDigits(x \div base^2, base)
                        ELSE IF x >= base THEN 2 ELSE 1

NumChars(x, base) == CASE base = 2  -> W!Ilog2(x) + 1
                       [] base = 8  -> W!Ilog2(x) \div 3 + 1
                       [] base = 10 -> W!Ilog10_32(x) + 1
                       [] base = 16 -> W!Ilog2(x) \div 4 + 1
                       [] OTHER     -> CountDigits(x, base)

\* How many characters an entry of the base's table has.
TableChars(base) == CASE base = 2 -> 4 [] base \in {8, 10, 16} -> 2 [] OTHER -> 0
TableEntry(base, x) == LET k == TableChars(base) IN [i \in 1..k |-> (x \div base^(k - i)) % base]

RECURSIVE OneByOne(_, _)
OneByOne(base, x) == IF x < base THEN <<x>> ELSE Append(OneByOne(base, x \div base), x % base)

\* The characters are written from the last to the first, n are left: with the table as
\* long as the rest of the number has more digits than an entry, and then one by one.
RECURSIVE Digits(_, _, _, _)
Digits(base, x, n, text) ==
  LET k == TableChars(base) IN
  IF k > 0 /\ x >= base^k THEN Digits(base, x \div base^k, n - k, TableEntry(base, x % base^k) \o text)
  ELSE IF n = 0 THEN [left |-> 0, text |-> text]
  ELSE [left |-> n - Len(OneByOne(base, x)), text |-> OneByOne(base, x) \o text]

\* to_chars; what no step writes of the text is junk.
ToChars(type, value, base, leading_zeros, sign_always, uppercase) ==
  LET word     == W!Wrap(value)
      negative == type.is_signed /\ W!Signed(word) < 0
      sign     == IF negative THEN <<MINUS>>
                  ELSE IF type.is_signed /\ sign_always THEN <<PLUS>> ELSE <<>>
      mask     == 2^type.bits - 1
      x        == (IF negative THEN W!Wrap(-word) ELSE word) % (mask + 1)
      largest  == IF type.is_signed THEN mask \div 2 + 1 ELSE mask
      n        == NumChars(IF leading_zeros THEN largest ELSE x, base)
      written  == Digits(base, x, n, <<>>)
  IN sign \o [i \in 1..written.left |-> IF leading_zeros THEN 0 ELSE JUNK]
          \o [i \in DOMAIN written.text |-> Character(written.text[i], uppercase)]
-----------------------------------------------------------------------------
Digit(c) == IF c \in 0..35 THEN c ELSE IF c - UPPER \in 10..35 THEN c - UPPER ELSE INVALID

MaxValue(type) == IF type.is_signed THEN 2^(type.bits - 1) - 1 ELSE 2^type.bits - 1

\* The prefixes 0x, 0b and 0o, in small or capital letters.
DetectBase(chars, base) ==
  CASE base # 0                          -> [base |-> base, skip |-> 0]
    [] Len(chars) <= 1 \/ chars[1] # 0   -> [base |-> 10, skip |-> 0]
    [] chars[2] \in {33, 33 + UPPER}     -> [base |-> 16, skip |-> 2]
    [] chars[2] \in {11, 11 + UPPER}     -> [base |-> 2, skip |-> 2]
    [] chars[2] \in {24, 24 + UPPER}     -> [base |-> 8, skip |-> 2]
    [] OTHER                             -> [base |-> 10, skip |-> 0]

\* Mutant: takes the last digit of the largest number for one too many.
ReadDigitShort(r, d, base, limit) ==
  IF r.res > limit \div base \/ (r.res = limit \div base /\ d >= limit % base)
  THEN [r EXCEPT !.overflow = TRUE] ELSE [r EXCEPT !.res = @ * base + d]

\* A digit that does not fit is passed over, like all behind it.
ReadDigit(r, d, base, limit) ==
  IF r.res > limit \div base \/ (r.res = limit \div base /\ d > limit % base)
  THEN [r EXCEPT !.overflow = TRUE] ELSE [r EXCEPT !.res = @ * base + d]

\* _from_chars: up to the first character that is not a digit.
ReadDigits(chars, base, limit) ==
  LET stop  == SelectInSeq(chars, LAMBDA c : Digit(c) >= base)
      n     == IF stop = 0 THEN Len(chars) ELSE stop - 1
      r     == FoldLeft(LAMBDA acc, c : ReadDigit(acc, Digit(c), base, limit),
                        [res |-> 0, overflow |-> FALSE], SubSeq(chars, 1, n))
  IN [ok       |-> ~r.overflow /\ (n = Len(chars) \/ chars[n + 1] = NUL) /\ n # 0,
      overflow |-> r.overflow, nchars |-> n, value |-> r.res]

FromChars(type, chars, flags) ==
  LET signed   == type.is_signed /\ chars # <<>> /\ chars[1] \in {MINUS, PLUS}
      negative == signed /\ chars[1] = MINUS
      detected == DetectBase(IF signed THEN Tail(chars) ELSE chars, flags)
      skipped  == detected.skip + (IF signed THEN 1 ELSE 0)
      r        == ReadDigits(SubSeq(chars, skipped + 1, Len(chars)), detected.base,
                             MaxValue(type) + (IF negative THEN 1 ELSE 0))
  IN [r EXCEPT !.nchars = @ + skipped, !.value = IF negative THEN -@ ELSE @]
-----------------------------------------------------------------------------
ValuesOf(type) == LET cut == {x % 2^type.bits : x \in Numbers} IN
                IF type.is_signed THEN {IF x > MaxValue(type) THEN x - 2^type.bits ELSE x : x \in cut}
                                  ELSE cut

Init == memory = <<>> /\ contents = Nothing

\* A buffer that has no room for the text is not touched.
Write == /\ memory = <<>>
         /\ \E type \in Types, base \in Bases :
            \E value \in ValuesOf(type), leading_zeros, sign_always, uppercase \in BOOLEAN :
              LET text == ToChars(type, value, base, leading_zeros, sign_always, uppercase)
              IN /\ memory' = text
                 /\ contents' = [type |-> type, value |-> value, base |-> base, plus |-> sign_always,
                                 zeros |-> leading_zeros, upper |-> uppercase]

Type == /\ contents = Nothing /\ Len(memory) < MaxTyped
        /\ \E c \in Typed : memory' = Append(memory, c)
        /\ UNCHANGED contents

Discard == memory # <<>> /\ memory' = <<>> /\ contents' = Nothing

Operate == Write \/ Type \/ Discard
-----------------------------------------------------------------------------
TypeOK == /\ \A i \in DOMAIN memory : memory[i] \in 0..NUL
          /\ contents # Nothing => contents.type \in Types

\* The number that the digits are, or one beyond every type's range.
NumberOf(digits, base) == FoldLeft(LAMBDA n, c : IF n > 2^Bits THEN n ELSE n * base + Digit(c), 0, digits)

\* A text is the sign and the digits of its number, with no zero too many, or as many
\* as the largest number of its type needs.
WrittenExact ==
  contents # Nothing =>
    LET magnitude == IF contents.value < 0 THEN -contents.value ELSE contents.value
        largest   == MaxValue(contents.type) + (IF contents.type.is_signed THEN 1 ELSE 0)
        signs     == IF contents.value < 0 THEN <<MINUS>>
                     ELSE IF contents.type.is_signed /\ contents.plus THEN <<PLUS>> ELSE <<>>
        digits    == SubSeq(memory, Len(signs) + 1, Len(memory))
        needed    == Min({k \in 1..Bits : NumberOf([i \in 1..k |-> contents.base - 1], contents.base) >=
                                            IF contents.zeros THEN largest ELSE magnitude})
    IN /\ memory = signs \o digits /\ Len(digits) = needed
       /\ \A i \in DOMAIN digits : /\ Digit(digits[i]) < contents.base
                                   /\ digits[i] = Character(Digit(digits[i]), contents.upper)
       /\ NumberOf(digits, contents.base) = magnitude

\* Reading takes a sign only where the type has one, then a prefix and all digits that
\* follow; it succeeds if there are any, nothing else is behind them and the number is in
\* the range of the type, and tells whether it was not.
ReadExact ==
  \A type \in Types, base \in {0} \cup Bases :
    LET r        == FromChars(type, memory, base)
        signed   == memory # <<>> /\ memory[1] \in {MINUS, PLUS} /\ type.is_signed
        least    == IF type.is_signed THEN -MaxValue(type) - 1 ELSE 0
        detected == DetectBase(SubSeq(memory, IF signed THEN 2 ELSE 1, Len(memory)), base)
        start    == detected.skip + (IF signed THEN 1 ELSE 0)
        IsNumber(i) == \A j \in start + 1..i : Digit(memory[j]) < detected.base
        end      == Max({i \in start..Len(memory) : IsNumber(i)})
        number   == NumberOf(SubSeq(memory, start + 1, end), detected.base)
        value    == IF signed /\ memory[1] = MINUS THEN -number ELSE number
        inRange  == value \in least..MaxValue(type)
    IN /\ r.nchars = end
       /\ r.overflow = ~inRange
       /\ r.ok = (inRange /\ end > start /\ (end = Len(memory) \/ memory[end + 1] = NUL))
       /\ r.ok => r.value = value

\* What was written is read back as the same number; the logarithms that count digits
\* are those of the number.
Exact == /\ WrittenExact /\ ReadExact
         /\ contents # Nothing => W!LogsExact(W!Wrap(contents.value))
         /\ contents # Nothing => LET r == FromChars(contents.type, memory, contents.base)
                                  IN r.ok /\ r.value = contents.value
=============================================================================
