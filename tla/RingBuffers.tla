---------------------------- MODULE RingBuffers ----------------------------
(***************************************************************************)
(* The ring buffer of staging/cbuf.h, and on it the message buffer of      *)
(* staging/mbuf.h, in which every message follows a header with its size.  *)
(* start and end count all bytes that ever left and entered, as unsigned   *)
(* numbers that wrap around; their difference is the size and their low    *)
(* bits are the places in buf.  A message's header takes one cell.         *)
(* contents is the queue of bytes, or of messages, that a client expects.  *)
(***************************************************************************)
EXTENDS Integers, SequencesExt

CONSTANTS Bytes, MaxMessage,
          Capacity,          \* a power of two
          COUNTER_RANGE,     \* how many values a counter has, a multiple of Capacity
          JUNK

VARIABLES memory, contents

(* The ring buffer. *)

CBufInit == [buf |-> [i \in 0..Capacity - 1 |-> JUNK], start |-> 0, end |-> 0]

Add(counter, n) == (counter + n) % COUNTER_RANGE
Size(c)         == (c.end - c.start) % COUNTER_RANGE
AvailSize(c)    == Capacity - Size(c)
Flush(c)        == [c EXCEPT !.start = c.end]
Skip(c, count)  == IF count > Size(c) THEN c ELSE [c EXCEPT !.start = Add(@, count)]

Copied(buf, at, bytes) ==
  [i \in DOMAIN buf |-> IF i - at + 1 \in DOMAIN bytes THEN bytes[i - at + 1] ELSE buf[i]]

\* cbuf_write: only the last bytes that fit, up to the end of buf and then from its start
Write(c, offset, bytes) ==
  LET skip == Max({0, Len(bytes) - Capacity})
      rest == SubSeq(bytes, skip + 1, Len(bytes))
      at   == (offset + skip) % Capacity
      n    == Min({Len(rest), Capacity - at})
  IN [c EXCEPT !.buf = Copied(Copied(@, at, SubSeq(rest, 1, n)), 0, SubSeq(rest, n + 1, Len(rest)))]

Read(c, offset, count) ==
  LET at == offset % Capacity
      n  == Min({count, Capacity - at})
  IN [i \in 1..n |-> c.buf[at + i - 1]] \o [i \in 1..count - n |-> c.buf[i - 1]]

\* Mutant: leaves start behind when it overwrites.
AdvancedWithoutStart(c, n) == [c EXCEPT !.end = Add(@, n)]

\* What overtakes start pushes it along.
Advanced(c, n) ==
  LET longer == [c EXCEPT !.end = Add(@, n)]
  IN IF Size(longer) > Capacity THEN [longer EXCEPT !.start = Add(longer.end, -Capacity)] ELSE longer

Push(c, bytes, overwrite) ==
  LET count == IF overwrite THEN Len(bytes) ELSE Min({Len(bytes), AvailSize(c)})
  IN Advanced(Write(c, c.end, SubSeq(bytes, 1, count)), count)

PushByte(c, byte, overwrite) ==
  IF ~overwrite /\ AvailSize(c) = 0 THEN c
  ELSE Advanced([c EXCEPT !.buf[c.end % Capacity] = byte], 1)

Peek(c, count) == Read(c, c.start, Min({count, Size(c)}))
Pop(c, count)  == [c EXCEPT !.start = Add(@, Len(Peek(c, count)))]
PopByte(c)     == IF Size(c) = 0 THEN c ELSE [c EXCEPT !.start = Add(@, 1)]
-----------------------------------------------------------------------------
\* A call leaves the buffer c; what is not in the queue counts as JUNK.
Leaves(c, q) ==
  /\ memory' = [c EXCEPT !.buf = [i \in DOMAIN @ |->
                  IF (i - c.start) % Capacity < Size(c) THEN @[i] ELSE JUNK]]
  /\ contents' = q

LastOf(q)   == SubSeq(q, Max({1, Len(q) - Capacity + 1}), Len(q))
FirstOf(q)  == SubSeq(q, 1, Min({Len(q), Capacity}))
Rest(q, n)  == SubSeq(q, n + 1, Len(q))

Produce == \/ \E bytes \in SeqOf(Bytes, Capacity + 1) :
                \/ Leaves(Push(memory, bytes, TRUE), LastOf(contents \o bytes))
                \/ Leaves(Push(memory, bytes, FALSE), FirstOf(contents \o bytes))
           \/ \E byte \in Bytes :
                \/ Leaves(PushByte(memory, byte, TRUE), LastOf(Append(contents, byte)))
                \/ Leaves(PushByte(memory, byte, FALSE), FirstOf(Append(contents, byte)))

Consume == \/ \E count \in 0..Capacity :
                \/ Leaves(Pop(memory, count), Rest(contents, Min({count, Len(contents)})))
                \/ Leaves(Skip(memory, count), IF count > Len(contents) THEN contents ELSE Rest(contents, count))
           \/ Leaves(PopByte(memory), Rest(contents, Min({1, Len(contents)})))
           \/ Leaves(Flush(memory), <<>>)

Init == memory = CBufInit /\ contents = <<>>

Operate == Produce \/ Consume
-----------------------------------------------------------------------------
TypeOK == memory \in [buf : [0..Capacity - 1 -> Bytes \cup {JUNK}],
                      start : 0..COUNTER_RANGE - 1, end : 0..COUNTER_RANGE - 1]

\* The buffer is the queue of what was pushed and not popped or overwritten, also
\* after its counters have wrapped around.
Exact == /\ Size(memory) = Len(contents) /\ Len(contents) <= Capacity
         /\ \A n \in 0..Capacity : Peek(memory, n) = SubSeq(contents, 1, Min({n, Len(contents)}))
-----------------------------------------------------------------------------
(* The message buffer. *)

HdrSize == 1

MessageAvailSize(m) == Max({0, AvailSize(m) - HdrSize})

HeaderOf(m) == Peek(m, HdrSize)[1]

\* Drops messages until there is room for total_size.
RECURSIVE Drained(_, _)
Drained(m, total_size) ==
  IF AvailSize(m) >= total_size THEN m
  ELSE Drained(Skip(Pop(m, HdrSize), HeaderOf(m)), total_size)

Accepts(m, message, overwrite) ==
  /\ message # <<>>
  /\ LET total_size == HdrSize + Len(message)
     IN AvailSize(m) >= total_size \/ (overwrite /\ total_size <= Capacity)

MessagePush(m, message, overwrite) ==
  LET room == Drained(m, HdrSize + Len(message))
  IN IF ~Accepts(m, message, overwrite) THEN m
     ELSE Push(Push(room, <<Len(message)>>, FALSE), message, FALSE)

\* A message stays when the client's buffer of count bytes is too small for it.
MessagePop(m, count) ==
  IF Peek(m, HdrSize) = <<>> \/ HeaderOf(m) > count THEN m
  ELSE Pop(Skip(m, HdrSize), HeaderOf(m))

Popped(m, count) == LET size == HeaderOf(m) IN Peek(Skip(m, HdrSize), size)
-----------------------------------------------------------------------------
RECURSIVE Cells(_)
Cells(q) == IF q = <<>> THEN <<>> ELSE <<Len(Head(q))>> \o Head(q) \o Cells(Tail(q))

\* The newest of the messages that fit with the new one.
RECURSIVE Newest(_, _)
Newest(q, size) == IF Len(Cells(q)) + size <= Capacity THEN q ELSE Newest(Tail(q), size)

MessageProduce ==
  \E message \in SeqOf(Bytes, MaxMessage), overwrite \in BOOLEAN :
    LET size == HdrSize + Len(message)
        kept == IF overwrite THEN Newest(contents, size) ELSE contents
    IN Leaves(MessagePush(memory, message, overwrite),
              IF message = <<>> \/ Len(Cells(kept)) + size > Capacity THEN contents
              ELSE Append(kept, message))

MessageConsume ==
  \/ \E count \in 1..MaxMessage :
       Leaves(MessagePop(memory, count),
              IF contents = <<>> \/ Len(Head(contents)) > count THEN contents ELSE Tail(contents))
  \/ Leaves(Flush(memory), <<>>)

MessageInit == memory = CBufInit /\ contents = <<>>

MessageOperate == MessageProduce \/ MessageConsume
-----------------------------------------------------------------------------
MessageTypeOK ==
  memory \in [buf : [0..Capacity - 1 -> Bytes \cup 1..MaxMessage \cup {JUNK}],
             start : 0..COUNTER_RANGE - 1, end : 0..COUNTER_RANGE - 1]

\* The buffer holds whole messages, in the order they were pushed, each behind the
\* header that tells its size; the client is told what still fits.
MessageExact ==
  /\ Peek(memory, Capacity) = Cells(contents)
  /\ contents # <<>> => Popped(memory, MaxMessage) = Head(contents)
  /\ \A message \in SeqOf(Bytes, MaxMessage) \ {<<>>} :
       Accepts(memory, message, FALSE) <=> Len(message) <= MessageAvailSize(memory)
=============================================================================
