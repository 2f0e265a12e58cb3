------------------------------ MODULE DString ------------------------------
(***************************************************************************)
(* The string views and the dynamic strings of src/dstring.c.  A view is   *)
(* the sequence of its characters, which are positive integers (NUL is 0), *)
(* and positions count from 0 as in the code.  Loops are recursive         *)
(* operators; memmem, strncmp and strstr are external.  A dstr_t points    *)
(* behind one of three headers, found from the byte before the characters; *)
(* memory is the string with the cells behind its header, contents what a  *)
(* client that keeps a plain sequence of characters has after the same     *)
(* calls.                                                                  *)
(***************************************************************************)
EXTENDS Integers, SequencesExt

CONSTANTS NPOS,             \* STRVIEW_NPOS, larger than any position
          Chars,            \* the characters, positive integers
          UINT8_MAX, UINT16_MAX, SIZE_LIMIT,  \* the limits of the headers, and of the model
          DSTRING_INITIAL_SIZE, DSTRING_GROWTH_FACTOR_NUMERATOR,
          DSTRING_GROWTH_FACTOR_DENOMINATOR,
          FmtBuf,           \* the size of the buffer of dstr_replace_fmtv
          MaxLength,        \* the bound on the strings
          Counts,           \* the max of the replacements and splits
          FillsSmall,       \* may a string with a small header get UINT8_MAX characters?
          JUNK              \* what a cell holds before it is written

VARIABLES memory, contents

(* String views. *)

NUL == 0
Least(a, b) == IF a < b THEN a ELSE b

Substring(view, start, length) ==
  SubSeq(view, start + 1, start + Least(length, Len(view) - start))

Narrow(view, left, right) ==
  LET l == Least(left, Len(view))
      r == Least(right, Len(view) - l)
  IN SubSeq(view, l + 1, Len(view) - r)

\* memcmp(view + at, needle, needle.length) == 0
Matches(view, at, needle) == /\ at + Len(needle) <= Len(view)
                             /\ SubSeq(view, at + 1, at + Len(needle)) = needle

RECURSIVE Memmem(_, _, _)
Memmem(view, needle, i) ==
  IF i + Len(needle) > Len(view) THEN NPOS
  ELSE IF Matches(view, i, needle) THEN i ELSE Memmem(view, needle, i + 1)

Found(at, pos) == IF at = NPOS THEN NPOS ELSE at + pos

Find(haystack, needle, pos) == Found(Memmem(Narrow(haystack, pos, 0), needle, 0), pos)

RECURSIVE Memrchr(_, _, _)
Memrchr(view, c, n) == IF n = 0 THEN NPOS
                       ELSE IF view[n] = c THEN n - 1 ELSE Memrchr(view, c, n - 1)

RECURSIVE RfindFrom(_, _, _)
RfindFrom(view, needle, p) ==
  LET q == Memrchr(view, Head(needle), p + 1)
  IN IF q = NPOS \/ Matches(view, q, needle) THEN q ELSE RfindFrom(view, needle, q - 1)

\* Mutant: looks only at occurrences that begin before pos.
ShortRfind(haystack, needle, pos) ==
  LET last == Len(haystack) - Len(needle)
  IN CASE Len(needle) = 0 -> Len(haystack)
       [] last < 0        -> NPOS
       [] OTHER           -> RfindFrom(haystack, needle, Least(last, pos) - 1)

\* The last occurrence that begins at pos or before; of the empty needle, the end.
Rfind(haystack, needle, pos) ==
  LET last == Len(haystack) - Len(needle)
      view == IF pos < last THEN Substring(haystack, 0, pos + Len(needle)) ELSE haystack
  IN CASE Len(needle) = 0 -> Len(haystack)
       [] last < 0        -> NPOS
       [] OTHER           -> RfindFrom(view, needle, Len(view) - Len(needle))

\* _strview_find_characters: i is where the loop looks, in step with its direction.  (A
\* single character to be accepted is looked for by memchr or memrchr, in the same places.)
RECURSIVE Scan(_, _, _, _, _)
Scan(view, chars, reject, step, i) ==
  CASE i \notin 0..(Len(view) - 1)            -> NPOS
    [] (view[i + 1] \in chars) # reject       -> i
    [] OTHER                                  -> Scan(view, chars, reject, step, i + step)

FindCharacters(view, chars, reject, reverse, pos) ==
  IF reverse
  THEN LET cut == IF pos < Len(view) THEN Substring(view, 0, pos + 1) ELSE view
       IN Scan(cut, chars, reject, -1, Len(cut) - 1)
  ELSE Found(Scan(Narrow(view, pos, 0), chars, reject, 1, 0), Least(pos, Len(view)))

FindFirstOf(view, accept, pos)    == IF accept = {} THEN NPOS
                                     ELSE FindCharacters(view, accept, FALSE, FALSE, pos)
FindLastOf(view, accept, pos)     == IF accept = {} THEN NPOS
                                     ELSE FindCharacters(view, accept, FALSE, TRUE, pos)
FindFirstNotOf(view, reject, pos) == FindCharacters(view, reject, TRUE, FALSE, pos)
FindLastNotOf(view, reject, pos)  == FindCharacters(view, reject, TRUE, TRUE, pos)

StartsWith(view, prefix) == Len(prefix) <= Len(view) /\ Matches(view, 0, prefix)
EndsWith(view, suffix)   == /\ Len(suffix) <= Len(view)
                            /\ Matches(view, Len(view) - Len(suffix), suffix)

StripLeft(view, strip) ==
  LET pos == FindFirstNotOf(view, strip, 0)
  IN IF pos = NPOS THEN <<>> ELSE SubSeq(view, pos + 1, Len(view))
StripRight(view, strip) ==
  LET pos == FindLastNotOf(view, strip, NPOS)
  IN IF pos = NPOS THEN <<>> ELSE SubSeq(view, 1, pos + 1)
Strip(view, strip) == StripRight(StripLeft(view, strip), strip)

RECURSIVE SplitFrom(_, _, _, _, _)
SplitFrom(view, c, max, start, list) ==
  LET pos   == Find(view, <<c>>, start)
      upto  == IF pos = NPOS THEN Len(view) ELSE pos
      piece == Substring(view, start, upto - start)
  IN CASE Len(list) >= max -> list
       [] pos = NPOS       -> Append(list, piece)
       [] OTHER            -> SplitFrom(view, c, max, pos + 1, Append(list, piece))

Split(view, c, max) == SplitFrom(view, c, max, 0, <<>>)

RECURSIVE RsplitFrom(_, _, _, _, _)
RsplitFrom(view, c, max, end, list) ==
  LET at    == Memrchr(view, c, end)
      pos   == IF at = NPOS THEN 0 ELSE at + 1
      piece == Substring(view, pos, end - pos)
  IN CASE Len(list) >= max -> list
       [] pos = 0          -> Append(list, piece)
       [] OTHER            -> RsplitFrom(view, c, max, pos - 1, Append(list, piece))

Rsplit(view, c, max) == RsplitFrom(view, c, max, Len(view), <<>>)

\* strncmp(a, b, n) for strings of at least n characters, none of them NUL
RECURSIVE Strncmp(_, _, _, _)
Strncmp(a, b, n, i) == CASE i = n               -> 0
                         [] a[i + 1] = b[i + 1] -> Strncmp(a, b, n, i + 1)
                         [] OTHER               -> a[i + 1] - b[i + 1]

Compare(view1, view2) ==
  LET n      == Least(Len(view1), Len(view2))
      result == Strncmp(view1, view2, n, 0)
  IN CASE result # 0               -> result
       [] Len(view1) < Len(view2)  -> -view2[n + 1]
       [] Len(view1) > Len(view2)  -> view1[n + 1]
       [] OTHER                    -> 0

CompareCstr(view, cstr) ==   \* cstr without its terminator
  LET At(i)  == IF i <= Len(cstr) THEN cstr[i] ELSE NUL
      result == Strncmp(view, [i \in 1..Len(view) |-> At(i)], Len(view), 0)
  IN IF result # 0 THEN result ELSE -At(Len(view) + 1)

Equal(view1, view2) == Len(view1) = Len(view2) /\ Matches(view1, 0, view2)
-----------------------------------------------------------------------------
(* Dynamic strings. *)


_dstr_empty_dstr == [header |-> "small", capacity |-> 0, length |-> 0, cells |-> <<NUL>>]

\* The byte before the characters is the length in a small header and UINT8_MAX in
\* the others; the one before it is the capacity or is_big.
SmallLength(s) == IF s.header = "small" THEN s.length ELSE UINT8_MAX
IsBig(s)       == IF s.header = "small" THEN s.capacity # 0 ELSE s.header = "big"

GetType(s) == IF SmallLength(s) # UINT8_MAX THEN "small" ELSE IF IsBig(s) THEN "big" ELSE "medium"

Readable(s) == GetType(s) = s.header

\* What dstr_length and dstr_capacity may return: a header read as another yields
\* whatever lies before it.
Readings(s) == IF Readable(s)
               THEN {[length |-> s.length, capacity |-> s.capacity]}
               ELSE [length : 0..SIZE_LIMIT, capacity : 0..SIZE_LIMIT]

\* What is behind the terminator counts as JUNK: it is not read before it is written.
SetLength(s, length) ==
  IF s.capacity = 0 THEN s
  ELSE [s EXCEPT !.length = length,
                 !.cells  = [i \in DOMAIN @ |-> CASE i <= length     -> @[i]
                                                 [] i = length + 1  -> NUL
                                                 [] OTHER           -> JUNK]]

HeaderFor(length, capacity) ==
  CASE length < UINT8_MAX /\ capacity <= UINT8_MAX    -> "small"
    [] length <= UINT16_MAX /\ capacity <= UINT16_MAX -> "medium"
    [] OTHER                                          -> "big"

\* Mutant: the terminator stays behind when the characters move.
ResizeWithoutTerminator(s, capacity) ==
  LET length == Least(s.length, capacity)
  IN CASE capacity = 0          -> _dstr_empty_dstr
       [] capacity = s.capacity -> s
       [] OTHER -> [header   |-> HeaderFor(length, capacity),
                    capacity |-> capacity,
                    length   |-> length,
                    cells    |-> [i \in 1..capacity + 1 |-> IF i <= length THEN s.cells[i] ELSE JUNK]]

\* The characters and their terminator move with the header; the rest is not kept.
Resize(s, capacity) ==
  LET length == Least(s.length, capacity)
      kept   == IF length < s.length THEN [s.cells EXCEPT ![length + 1] = NUL] ELSE s.cells
  IN CASE capacity = 0          -> _dstr_empty_dstr
       [] capacity = s.capacity -> s
       [] OTHER -> [header   |-> HeaderFor(length, capacity),
                    capacity |-> capacity,
                    length   |-> length,
                    cells    |-> [i \in 1..capacity + 1 |-> IF i <= length + 1 THEN kept[i] ELSE JUNK]]

Grow(s, n) ==
  LET grown == ((s.capacity + DSTRING_GROWTH_FACTOR_DENOMINATOR - 1)
                  \div DSTRING_GROWTH_FACTOR_DENOMINATOR) * DSTRING_GROWTH_FACTOR_NUMERATOR
  IN IF n = 0 THEN s
     ELSE Resize(s, Max({grown, s.capacity + n, DSTRING_INITIAL_SIZE}))

Reserve(s, n) == LET rem == s.capacity - s.length IN IF n > rem THEN Grow(s, n - rem) ELSE s

\* A write behind the last cell adds cells, which the capacity does not account for.
Written(s, pos, text) ==
  [s EXCEPT !.cells = [i \in 1..Max({Len(@), pos + Len(text)}) |->
                         IF i - pos \in DOMAIN text THEN text[i - pos] ELSE @[i]]]

\* _dstr_replace: n cells in place of the len ones at pos; the tail moves.
Opened(s, pos, len, n) ==
  LET wide  == IF n > len THEN Reserve(s, n - len) ELSE s
      tail  == SubSeq(wide.cells, pos + len + 1, s.length)
  IN IF n = len THEN s ELSE SetLength(Written(wide, pos + n, tail), s.length + n - len)

LengthOf(s, pos, len) == IF len = NPOS THEN s.length - pos ELSE len

ReplaceChars(s, pos, len, chars) ==
  Written(Opened(s, pos, LengthOf(s, pos, len), Len(chars)), pos, chars)

\* vsnprintf also writes the terminator, over a character that is put back.
ReplaceFmt(s, pos, len, text) ==
  LET open == Opened(s, pos, LengthOf(s, pos, len), Len(text))
      end  == pos + Len(text)
  IN IF Len(text) < FmtBuf THEN Written(open, pos, text)
     ELSE [Written(open, pos, Append(text, NUL)) EXCEPT !.cells[end + 1] = open.cells[end + 1]]

AppendChar(s, c) == LET wide == Reserve(s, 1)
                    IN SetLength(Written(wide, s.length, <<c>>), s.length + 1)
AppendChars(s, chars)      == ReplaceChars(s, s.length, 0, chars)
InsertChars(s, pos, chars) == ReplaceChars(s, pos, 0, chars)
FromChars(chars)           == AppendChars(_dstr_empty_dstr, chars)
WithCapacity(n)            == Reserve(_dstr_empty_dstr, n)
ShrinkToFit(s)             == Resize(s, s.length)
Clear(s)                   == SetLength(s, 0)

\* What the string functions of C see, up to the first NUL.
CStr(s) == LET end == Min({i \in DOMAIN s.cells : s.cells[i] = NUL} \cup {Len(s.cells) + 1})
           IN SubSeq(s.cells, 1, end - 1)
View(s) == SubSeq(s.cells, 1, s.length)

\* dstr_find_cstr, with strstr
FindCstr(s, needle, pos) ==
  LET start == Least(pos, s.length)
  IN Found(Memmem(SubSeq(CStr(s), start + 1, Len(CStr(s))), needle, 0), start)

\* Every piece is a string of its own.
SplitOf(s, c, max)  == LET pieces == Split(View(s), c, max)
                       IN [i \in DOMAIN pieces |-> FromChars(pieces[i])]
RsplitOf(s, c, max) == LET pieces == Rsplit(View(s), c, max)
                       IN [i \in DOMAIN pieces |-> FromChars(pieces[i])]

StripRightOf(s, strip) ==
  LET pos == FindLastNotOf(View(s), strip, NPOS) IN SetLength(s, IF pos = NPOS THEN 0 ELSE pos + 1)
StripLeftOf(s, strip) ==
  LET pos == FindFirstNotOf(View(s), strip, 0)
      len == s.length - pos
  IN IF pos = NPOS THEN SetLength(s, 0)
     ELSE SetLength(Written(s, 0, SubSeq(View(s), pos + 1, s.length)), len)
StripOf(s, strip) == StripLeftOf(StripRightOf(s, strip), strip)

SubstringOf(s, start, length) ==
  LET view == Substring(View(s), start, length) IN SetLength(Written(s, 0, view), Len(view))

\* Both loops end where the header can no longer be read: what follows is undefined.
Skip(needle) == IF needle = <<>> THEN 1 ELSE 0

RECURSIVE FindReplaceFrom(_, _, _, _, _, _)
FindReplaceFrom(s, needle, view, max, start, replaced) ==
  LET at  == Find(Substring(View(s), start, NPOS), needle, 0)
      pos == at + start
  IN IF replaced >= max \/ ~Readable(s) \/ at = NPOS THEN [string |-> s, replaced |-> replaced]
     ELSE FindReplaceFrom(ReplaceChars(s, pos, Len(needle), view), needle, view, max,
                          pos + Len(view) + Skip(needle), replaced + 1)

FindReplace(s, needle, view, max) ==
  FindReplaceFrom(s, needle, view, Least(max, s.length + 1), 0, 0)


RECURSIVE RfindReplaceFrom(_, _, _, _, _, _)
RfindReplaceFrom(s, needle, view, max, end, replaced) ==
  LET pos == Rfind(Substring(View(s), 0, end), needle, NPOS)
  IN IF replaced >= max \/ ~Readable(s) \/ pos = NPOS THEN [string |-> s, replaced |-> replaced]
     ELSE RfindReplaceFrom(ReplaceChars(s, pos, Len(needle), view), needle, view, max,
                           pos - Skip(needle), replaced + 1)

RfindReplace(s, needle, view, max) ==
  RfindReplaceFrom(s, needle, view, Least(max, s.length + 1), s.length, 0)
-----------------------------------------------------------------------------
\* What the calls mean for a sequence of characters.
Texts     == SeqOf(Chars, 2)
Positions == 0..Len(contents)
Splice(c, pos, len, text) == SubSeq(c, 1, pos) \o text \o SubSeq(c, pos + len + 1, Len(c))

Trimmed(c, strip, left, right) ==
  LET keep == {i \in DOMAIN c : c[i] \notin strip}
  IN IF keep = {} THEN <<>>
     ELSE SubSeq(c, IF left THEN Min(keep) ELSE 1, IF right THEN Max(keep) ELSE Len(c))

\* The first max occurrences of needle in c, which do not overlap, become text.
RECURSIVE Substituted(_, _, _, _)
Substituted(c, needle, text, max) ==
  CASE max = 0 \/ Len(c) < Len(needle) -> c
    [] needle = <<>> -> text \o (IF c = <<>> THEN <<>>
                                 ELSE <<Head(c)>> \o Substituted(Tail(c), needle, text, max - 1))
    [] Matches(c, 0, needle) ->
         text \o Substituted(SubSeq(c, Len(needle) + 1, Len(c)), needle, text, max - 1)
    [] OTHER -> <<Head(c)>> \o Substituted(Tail(c), needle, text, max)

\* A call leaves the string s; c is what the client expects in it.
Leaves(s, c) == /\ s.capacity <= SIZE_LIMIT /\ Len(c) <= MaxLength
                /\ FillsSmall \/ Readable(s)
                /\ memory' = s /\ contents' = c

Construct == \/ \E text \in Texts : Leaves(FromChars(text), text)
             \/ \E n \in 0..SIZE_LIMIT : Leaves(WithCapacity(n), <<>>)
             \/ Leaves(FromChars(View(memory)), contents)
             \* dstr_free; dstr_to_cstr, which must not be called without an allocation,
             \* gives the characters to the client
             \/ Leaves(_dstr_empty_dstr, <<>>)

ChangeCapacity == \/ \E n \in 0..SIZE_LIMIT :
                       \/ Leaves(Resize(memory, n), SubSeq(contents, 1, Least(n, Len(contents))))
                       \/ Leaves(Reserve(memory, n), contents)
                  \/ Leaves(ShrinkToFit(memory), contents)

Add == \/ \E c \in Chars : Leaves(AppendChar(memory, c), Append(contents, c))
       \/ \E text \in Texts :
            \/ Leaves(AppendChars(memory, text), contents \o text)
            \/ \E pos \in Positions :
                 Leaves(InsertChars(memory, pos, text), Splice(contents, pos, 0, text))

Change == \E pos \in Positions, text \in Texts, len \in 0..2 \cup {NPOS} :
            LET rest == Len(contents) - pos
            IN /\ len <= rest \/ len = NPOS
               /\ LET after == Splice(contents, pos, Least(len, rest), text)
                  IN \/ Leaves(ReplaceChars(memory, pos, len, text), after)
                     \/ Leaves(ReplaceFmt(memory, pos, len, text), after)

Cut == \/ Leaves(Clear(memory), <<>>)
       \/ \E start \in Positions, len \in Positions \cup {NPOS} :
            Leaves(SubstringOf(memory, start, len), Substring(contents, start, len))
       \/ \E strip \in SUBSET Chars :
            \/ Leaves(StripOf(memory, strip), Trimmed(contents, strip, TRUE, TRUE))
            \/ Leaves(StripLeftOf(memory, strip), Trimmed(contents, strip, TRUE, FALSE))
            \/ Leaves(StripRightOf(memory, strip), Trimmed(contents, strip, FALSE, TRUE))

Substitute == \E needle \in Texts, text \in Texts, max \in Counts :
                \/ Leaves(FindReplace(memory, needle, text, max).string,
                          Substituted(contents, needle, text, max))
                \/ Leaves(RfindReplace(memory, needle, text, max).string,
                          Reverse(Substituted(Reverse(contents), Reverse(needle), Reverse(text), max)))

Init == memory = _dstr_empty_dstr /\ contents = <<>>

Operate == /\ Readable(memory)
           /\ Construct \/ ChangeCapacity \/ Add \/ Change \/ Cut \/ Substitute
-----------------------------------------------------------------------------
TypeOK == /\ memory \in [header : {"small", "medium", "big"}, capacity : 0..SIZE_LIMIT,
                         length : 0..SIZE_LIMIT, cells : Seq(Chars \cup {NUL, JUNK})]
          /\ Len(memory.cells) = memory.capacity + 1

\* The string holds what its client put in it, whichever header it has had on the
\* way, and the C functions that stop at its terminator see the same characters.
Exact == /\ Readings(memory) = {[length |-> Len(contents), capacity |-> memory.capacity]}
         /\ Len(contents) <= memory.capacity
         /\ View(memory) = contents
         /\ CStr(memory) = contents

\* tests/dstring.c, sanity_check: dstr_length(dstr) <= dstr_capacity(dstr).
LengthWithinCapacity == \A r \in Readings(memory) : r.length <= r.capacity

FirstIn(S) == IF S = {} THEN NPOS ELSE Min(S)
LastIn(S)  == IF S = {} THEN NPOS ELSE Max(S)

\* A search finds the first (last) place at pos or after (before) it that is right:
\* of a text that is not empty, of a character that is or is not in a set.
FindsExact ==
  \A pos \in Positions \cup {NPOS} :
    /\ \A needle \in Texts \ {<<>>} :
         LET At == {i \in 0..Len(contents) - Len(needle) :
                      \A j \in DOMAIN needle : contents[i + j] = needle[j]}
         IN /\ Find(View(memory), needle, pos) = FirstIn({i \in At : i >= pos})
            /\ FindCstr(memory, needle, pos) = FirstIn({i \in At : i >= pos})
            /\ Rfind(View(memory), needle, pos) = LastIn({i \in At : i <= pos})
            /\ StartsWith(View(memory), needle) <=> 0 \in At
            /\ EndsWith(View(memory), needle) <=> Len(contents) - Len(needle) \in At
    /\ \A set \in SUBSET Chars :
         LET At(S) == {i \in 0..Len(contents) - 1 : contents[i + 1] \in S}
         IN /\ FindFirstOf(View(memory), set, pos) = FirstIn({i \in At(set) : i >= pos})
            /\ FindLastOf(View(memory), set, pos) = LastIn({i \in At(set) : i <= pos})
            /\ FindFirstNotOf(View(memory), set, pos) = FirstIn({i \in At(Chars \ set) : i >= pos})
            /\ FindLastNotOf(View(memory), set, pos) = LastIn({i \in At(Chars \ set) : i <= pos})

Below(a, b) == \/ Len(a) < Len(b) /\ SubSeq(b, 1, Len(a)) = a
               \/ \E i \in 1..Least(Len(a), Len(b)) :
                    SubSeq(a, 1, i - 1) = SubSeq(b, 1, i - 1) /\ a[i] < b[i]

\* Comparisons order strings without NUL as the alphabet does.
ComparesExact ==
  \A text \in Texts \cup {contents} :
    /\ Compare(View(memory), text) < 0 <=> Below(contents, text)
    /\ Compare(View(memory), text) > 0 <=> Below(text, contents)
    /\ CompareCstr(View(memory), text) < 0 <=> Below(contents, text)
    /\ CompareCstr(View(memory), text) > 0 <=> Below(text, contents)
    /\ Equal(View(memory), text) <=> contents = text

RECURSIVE Joined(_, _)
Joined(pieces, c) == IF Len(pieces) = 1 THEN pieces[1]
                     ELSE pieces[1] \o <<c>> \o Joined(Tail(pieces), c)

\* The pieces of a split hold no separator and give the string back when joined; a
\* bounded split, from either end, gives the first of them in its direction.
PiecesExact ==
  \A c \in Chars, max \in Counts :
    LET pieces      == Split(View(memory), c, NPOS)
        Views(list) == [i \in DOMAIN list |-> View(list[i])]
    IN /\ \A i \in DOMAIN pieces : ~Contains(pieces[i], c)
       /\ Joined(pieces, c) = contents
       /\ Views(SplitOf(memory, c, max)) = SubSeq(pieces, 1, Least(max, Len(pieces)))
       /\ Views(RsplitOf(memory, c, max)) = SubSeq(Reverse(pieces), 1, Least(max, Len(pieces)))
=============================================================================
