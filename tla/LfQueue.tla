------------------------------ MODULE LfQueue ------------------------------
(***************************************************************************)
(* The lock-free queue of staging/lfqueue.c between one producer and one   *)
(* consumer, which pass messages as produce and consume of that file do.   *)
(* A queue is a list of nodes from head.next to tail; the last node names  *)
(* itself as its successor, and tail names the head when there is none.    *)
(*                                                                         *)
(* One action is one access to shared memory, which is that of             *)
(* StoreBuffers.  A release store is a plain store and a compare-exchange, *)
(* weak or strong, is a locked instruction.                                *)
(***************************************************************************)
EXTENDS StoreBuffers, SequencesExt

CONSTANTS Messages,  \* the messages, which are the nodes of the queue
          Total,     \* ITERATIONS, how many messages are sent in all
          Windows,   \* how many messages the producer may have under way
          Producer, Consumer,
          HeadNode,  \* the node queue->head
          Null

ASSUME NodesAssumption   == /\ IsFiniteSet(Messages) /\ HeadNode \notin Messages
                            /\ Null \notin Messages \cup {HeadNode}
ASSUME ThreadsAssumption == Producer # Consumer
ASSUME TotalAssumption   == Total \in Nat \ {0}
ASSUME WindowsAssumption == Windows \subseteq 1..Total

Threads      == {Producer, Consumer}
Links        == Messages \cup {Null}
QueueTail    == <<"tail">>
NextOf(n)    == <<"next", n>>
CounterOf(m) == <<"counter", m>>
Locations    == {NextOf(n) : n \in Messages \cup {HeadNode}}
                  \cup {CounterOf(m) : m \in Messages} \cup {QueueTail}

VARIABLES
  pc,       \* the next step of each thread
  item,     \* the message lfq_enqueue links
  last,     \* its `last`, the node it found at the tail
  hook,     \* its `hook`, the successor of last
  node,     \* the `node` of lfq_dequeue
  next,     \* its `next`, the successor of node
  window,   \* the number of messages the producer keeps under way
  sent,     \* history: the messages in the order they were sent ...
  received  \* ... and in the order they were received

vars == <<mem, buf, pc, item, last, hook, node, next, window, sent, received>>

EnqueueSteps == {"self", "load_tail", "load_hook", "cas_tail", "cas_hook", "store_head"}
DequeueSteps == {"load_head", "load_next", "cas_head", "cas_self", "push_back",
                 "reset_tail", "report"}

TypeOK == /\ \A n \in Messages \cup {HeadNode} : mem[NextOf(n)] \in Links
          /\ mem[QueueTail] \in Messages \cup {HeadNode}
          /\ \A m \in Messages : mem[CounterOf(m)] \in 0..Total
          /\ \A t \in Threads : \A i \in 1..Len(buf[t]) : buf[t][i][1] \in DOMAIN mem
          /\ pc[Producer] \in {"idle"} \cup EnqueueSteps
          /\ pc[Consumer] \in {"idle"} \cup DequeueSteps
          /\ item \in Links /\ last \in Links \cup {HeadNode} /\ hook \in Links
          /\ node \in Links /\ next \in Links
          /\ window \in Windows
          /\ sent \in Seq(Messages) /\ received \in Seq(Messages)

\* lfqueue_init, lfq_node_init and counters at 0.
InitialMemory ==
  [loc \in Locations |-> IF loc = QueueTail THEN HeadNode
                         ELSE IF loc \in {CounterOf(m) : m \in Messages} THEN 0 ELSE Null]

Init == /\ mem = InitialMemory
        /\ buf = [t \in Threads |-> <<>>]
        /\ pc = [t \in Threads |-> IF t = Producer THEN "idle" ELSE "load_head"]
        /\ item = Null /\ last = Null /\ hook = Null
        /\ node = Null /\ next = Null
        /\ window \in Windows
        /\ sent = <<>> /\ received = <<>>
-----------------------------------------------------------------------------
Goto(t, step) == pc' = [pc EXCEPT ![t] = step]

Flush(t) == /\ FlushBuffer(t)
            /\ UNCHANGED <<pc, item, last, hook, node, next, window, sent, received>>

\* A compare-exchange of x for y: whether it succeeds, and what it does if so.
Cas(t, loc, x, y) == /\ Drained(t)
                     /\ mem' = [mem EXCEPT ![loc] = IF @ = x THEN y ELSE @]
                     /\ UNCHANGED buf
-----------------------------------------------------------------------------
TimesSent(m) == Cardinality({i \in 1..Len(sent) : sent[i] = m})
UnderWay     == {m \in Messages : Load(Producer, CounterOf(m)) < TimesSent(m)}

\* produce: send a message that has come back, when few enough are under way.
Produce(m) == /\ pc[Producer] = "idle" /\ Len(sent) < Total
              /\ m \notin UnderWay /\ Cardinality(UnderWay) < window
              /\ item' = m
              /\ sent' = Append(sent, m)
              /\ Goto(Producer, "self")
              /\ UNCHANGED <<mem, buf, last, hook, node, next, window, received>>

\* Mutant: the last node is not marked.
SkipSelf == /\ pc[Producer] = "self"
            /\ Goto(Producer, "load_tail")
            /\ UNCHANGED <<mem, buf, item, last, hook, node, next, window, sent, received>>

\* lfq_enqueue: the new last node is its own successor.
StoreSelf == /\ pc[Producer] = "self"
             /\ Store(Producer, NextOf(item), item)
             /\ Goto(Producer, "load_tail")
             /\ UNCHANGED <<item, last, hook, node, next, window, sent, received>>

LoadTail == /\ pc[Producer] = "load_tail"
            /\ last' = Load(Producer, QueueTail)
            /\ Goto(Producer, "load_hook")
            /\ UNCHANGED <<mem, buf, item, hook, node, next, window, sent, received>>

LoadHook == /\ pc[Producer] = "load_hook"
            /\ hook' = Load(Producer, NextOf(last))
            /\ Goto(Producer, "cas_tail")
            /\ UNCHANGED <<mem, buf, item, last, node, next, window, sent, received>>

\* Put the node at the tail, or start over from a tail that has changed.
CasTail == /\ pc[Producer] = "cas_tail"
           /\ Cas(Producer, QueueTail, last, item)
           /\ IF mem[QueueTail] = last
              THEN /\ Goto(Producer, "cas_hook")
                   /\ UNCHANGED last
              ELSE /\ Goto(Producer, "load_hook")
                   /\ last' = mem[QueueTail]
           /\ UNCHANGED <<item, hook, node, next, window, sent, received>>

EnqueueReturns == /\ Goto(Producer, "idle")
                  /\ item' = Null /\ last' = Null /\ hook' = Null

\* Link the node behind the old last one, unless that one has been taken.
CasHook == /\ pc[Producer] = "cas_hook"
           /\ Cas(Producer, NextOf(last), hook, item)
           /\ IF mem[NextOf(last)] = hook
              THEN EnqueueReturns
              ELSE Goto(Producer, "store_head") /\ UNCHANGED <<item, last, hook>>
           /\ UNCHANGED <<node, next, window, sent, received>>

StoreHead == /\ pc[Producer] = "store_head"
             /\ Store(Producer, NextOf(HeadNode), item)
             /\ EnqueueReturns
             /\ UNCHANGED <<node, next, window, sent, received>>
-----------------------------------------------------------------------------
\* consume, and lfq_dequeue: as long as it finds no node it returns NULL and is
\* called again.
LoadHead == /\ pc[Consumer] = "load_head"
            /\ Load(Consumer, NextOf(HeadNode)) # Null
            /\ node' = Load(Consumer, NextOf(HeadNode))
            /\ Goto(Consumer, "load_next")
            /\ UNCHANGED <<mem, buf, item, last, hook, next, window, sent, received>>

LoadNext == /\ pc[Consumer] = "load_next"
            /\ next' = Load(Consumer, NextOf(node))
            /\ Goto(Consumer, "cas_head")
            /\ UNCHANGED <<mem, buf, item, last, hook, node, window, sent, received>>

\* The node is taken and returned at the end, whatever the rest does.
Taken == received' = Append(received, node)

\* Mutant: leave the last node at the head.
CasHeadKeepsLast ==
  /\ pc[Consumer] = "cas_head"
  /\ Cas(Consumer, NextOf(HeadNode), node, next)
  /\ Taken
  /\ Goto(Consumer, IF next = node THEN "cas_self" ELSE "report")
  /\ UNCHANGED <<item, last, hook, node, next, window, sent>>

\* Take the node at the head, or look at the one that is there now.
CasHead ==
  /\ pc[Consumer] = "cas_head"
  /\ Cas(Consumer, NextOf(HeadNode), node, IF next = node THEN Null ELSE next)
  /\ IF mem[NextOf(HeadNode)] = node
     THEN /\ Taken
          /\ Goto(Consumer, IF next = node THEN "cas_self" ELSE "report")
          /\ UNCHANGED node
     ELSE /\ node' = mem[NextOf(HeadNode)]
          /\ Goto(Consumer, IF node' = Null THEN "load_head" ELSE "load_next")
          /\ UNCHANGED received
  /\ UNCHANGED <<item, last, hook, next, window, sent>>

\* It was the last one: cut it off, unless it has got a successor by now.
CasSelf ==
  /\ pc[Consumer] = "cas_self"
  /\ Cas(Consumer, NextOf(node), node, Null)
  /\ IF mem[NextOf(node)] = node
     THEN Goto(Consumer, "reset_tail") /\ UNCHANGED next
     ELSE Goto(Consumer, "push_back") /\ next' = mem[NextOf(node)]
  /\ UNCHANGED <<item, last, hook, node, window, sent, received>>

PushBack == /\ pc[Consumer] = "push_back"
            /\ Store(Consumer, NextOf(HeadNode), next)
            /\ Goto(Consumer, "report")
            /\ UNCHANGED <<item, last, hook, node, next, window, sent, received>>

\* Mutant: the tail keeps naming the node that was taken.
KeepTail == /\ pc[Consumer] = "reset_tail"
            /\ Goto(Consumer, "report")
            /\ UNCHANGED <<mem, buf, item, last, hook, node, next, window, sent, received>>

\* Mutant: the tail of an empty queue names no node.
ResetTailToNull == /\ pc[Consumer] = "reset_tail"
                   /\ Cas(Consumer, QueueTail, node, Null)
                   /\ Goto(Consumer, "report")
                   /\ UNCHANGED <<item, last, hook, node, next, window, sent, received>>

ResetTail == /\ pc[Consumer] = "reset_tail"
             /\ Cas(Consumer, QueueTail, node, HeadNode)
             /\ Goto(Consumer, "report")
             /\ UNCHANGED <<item, last, hook, node, next, window, sent, received>>

\* consume: count the message, which gives it back to the producer.
Report == /\ pc[Consumer] = "report"
          /\ LockedStore(Consumer, CounterOf(node), mem[CounterOf(node)] + 1)
          /\ node' = Null /\ next' = Null
          /\ Goto(Consumer, IF Len(received) = Total THEN "idle" ELSE "load_head")
          /\ UNCHANGED <<item, last, hook, window, sent, received>>
-----------------------------------------------------------------------------
Produces == \/ \E m \in Messages : Produce(m)
            \/ StoreSelf \/ LoadTail \/ LoadHook \/ CasTail \/ CasHook \/ StoreHead
Consumes == \/ LoadHead \/ LoadNext \/ CasHead \/ CasSelf \/ PushBack
            \/ ResetTail \/ Report

\* Nothing is left to do, or the consumer polls an empty queue.
Rest == /\ pc[Producer] = "idle" /\ \A t \in Threads : Drained(t)
        /\ pc[Consumer] = "idle" \/ (pc[Consumer] = "load_head" /\ mem[NextOf(HeadNode)] = Null)
        /\ UNCHANGED vars

Next == Produces \/ Consumes \/ (\E t \in Threads : Flush(t)) \/ Rest

\* Both threads are scheduled and store buffers drain.
Fairness == /\ WF_vars(Produces) /\ WF_vars(Consumes)
            /\ \A t \in Threads : WF_vars(Flush(t))

Spec     == Init /\ [][Next]_vars
FairSpec == Spec /\ Fairness
-----------------------------------------------------------------------------
\* Messages come out in the order they went in, none of them twice: also when
\* the last node is taken while the next one is linked behind it.
InOrder == IsPrefix(received, sent)

\* The nodes from a node on, as far as they are linked.
Chain(n) ==
  LET ch[i \in 0..Cardinality(Messages)] ==
        IF i = 0 THEN IF n = Null THEN <<>> ELSE <<n>>
        ELSE LET c == ch[i-1] IN
             IF c = <<>> THEN c
             ELSE LET s == mem[NextOf(Last(c))] IN
                  IF s \in {Null, Last(c)} THEN c ELSE Append(c, s)
  IN  ch[Cardinality(Messages)]

Quiet   == /\ pc[Producer] = "idle" /\ pc[Consumer] \in {"idle", "load_head"}
           /\ \A t \in Threads : Drained(t)
Queued  == SubSeq(sent, Len(received) + 1, Len(sent))
InQueue == Chain(mem[NextOf(HeadNode)])

\* When neither thread is in an operation, the queue holds the messages that
\* were sent and not received, in order, and the tail names the last of them.
HoldsQueued == /\ InQueue = Queued
               /\ mem[QueueTail] = IF Queued = <<>> THEN HeadNode ELSE Last(Queued)
NothingLost == Quiet => HoldsQueued

\* As long as one message is under way at a time, as in produce of lfqueue.c,
\* that is so; with more of them, whenever the head names any node.
QuietQueue == Quiet /\ (window = 1 \/ InQueue # <<>>) => HoldsQueued

\* With one message under way at a time all messages are received.
AllReceived == window = 1 => <>(Len(received) = Total)
=============================================================================
