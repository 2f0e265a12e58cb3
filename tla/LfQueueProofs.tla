---------------------------- MODULE LfQueueProofs ----------------------------
(***************************************************************************)
(* The lock-free queue delivers messages in order and none twice, also     *)
(* when it loses some, for any number of messages, of sendings and of      *)
(* messages under way; with one message under way it loses none.           *)
(***************************************************************************)
EXTENDS LfQueue, DataLemmas

Nodes == Messages \cup {HeadNode}

\* The variables that are functions have the domains they started with.
Shapes == /\ mem = [loc \in Locations |-> mem[loc]]
          /\ buf = [t \in Threads |-> buf[t]]
          /\ pc = [t \in Threads |-> pc[t]]

\* Where the threads are: the message that is not at the tail yet, and the one
\* that is taken and not given back yet.
Enqueueing == pc[Producer] \in {"self", "load_tail", "load_hook", "cas_tail"}
Linking    == pc[Producer] = "cas_hook"
Holding    == pc[Consumer] \in {"cas_self", "push_back", "reset_tail", "report"}
AtTail     == IF Enqueueing THEN Len(sent) - 1 ELSE Len(sent)
GivenBack  == IF Holding THEN Len(received) - 1 ELSE Len(received)

First      == sent[Len(received) + 1]
HeadStore  == <<NextOf(HeadNode), First>>
SelfStore  == <<NextOf(item), item>>

\* What was received is what was sent, and what was not given back is not sent again.
Fifo ==
  /\ 0 <= GivenBack /\ Len(received) <= AtTail /\ Len(sent) <= Total
  /\ \A i \in 1..Len(received) : received[i] = sent[i]
  /\ \A i, j \in (GivenBack + 1)..Len(sent) : sent[i] = sent[j] => i = j

Counters ==
  \A m \in Messages : mem[CounterOf(m)] = Cardinality({i \in 1..GivenBack : sent[i] = m})

ProducerBuffer ==
  /\ pc[Producer] \in {"idle", "self"} =>
       buf[Producer] = <<>> \/ (Len(received) < AtTail /\ buf[Producer] = <<HeadStore>>)
  /\ pc[Producer] \in {"load_tail", "load_hook", "cas_tail"} =>
       \/ buf[Producer] = <<>> /\ mem[NextOf(item)] = item
       \/ buf[Producer] = <<SelfStore>>
       \/ Len(received) < AtTail /\ buf[Producer] = <<HeadStore, SelfStore>>
  /\ pc[Producer] \in {"cas_hook", "store_head"} => buf[Producer] = <<>>

HeadWaits == buf[Producer] # <<>> /\ buf[Producer][1] = HeadStore

ConsumerBuffer ==
  \/ buf[Consumer] = <<>>
  \/ pc[Consumer] = "report" /\ Len(received) < AtTail /\ buf[Consumer] = <<HeadStore>>

\* The tail names the last message, until the consumer that took it has reset it.
TailNamesLast ==
  mem[QueueTail] = IF Len(received) < AtTail \/ pc[Consumer] \in {"cas_self", "reset_tail"}
                   THEN sent[AtTail] ELSE HeadNode

\* What the producer has loaded is still so where its compare-exchanges can succeed.
ProducerLocals ==
  /\ pc[Producer] # "idle" => sent # <<>> /\ item = sent[Len(sent)]
  /\ pc[Producer] \in {"load_hook", "cas_tail"} =>
       last \in Nodes \ {item} /\ mem[QueueTail] \in {last, HeadNode}
  /\ pc[Producer] = "cas_tail" /\ mem[QueueTail] = last =>
       IF last = HeadNode THEN hook = Null
       ELSE hook = last \/ (hook = Null /\ AtTail = Len(received) /\ pc[Consumer] = "reset_tail")
  /\ Linking =>
       \/ last = HeadNode /\ hook = Null /\ Len(received) = AtTail - 1
       \/ /\ AtTail > 1 /\ last = sent[AtTail - 1] /\ last # item
          /\ hook = last \/ (hook = Null /\ Len(received) = AtTail - 1)
  /\ pc[Producer] \in {"cas_hook", "store_head"} => Len(received) < AtTail

ConsumerLocals ==
  /\ Holding => Len(received) > 0 /\ node = sent[Len(received)]
  /\ pc[Consumer] \in {"load_next", "cas_head"} =>
       Len(received) < AtTail /\ node = First /\ mem[NextOf(HeadNode)] = First
  /\ pc[Consumer] = "cas_head" =>
       next = node \/ (next = mem[NextOf(node)] /\ Len(received) + 1 < AtTail)
  /\ pc[Consumer] = "idle" => Len(received) = Total

\* The messages in the queue are linked, but for the one being linked.
InLine ==
  /\ \A i \in (Len(received) + 1)..(AtTail - 1) :
       mem[NextOf(sent[i])] = IF Linking /\ i = AtTail - 1 THEN sent[i] ELSE sent[i + 1]
  /\ Len(received) < AtTail => mem[NextOf(sent[AtTail])] = sent[AtTail]

\* When all messages have been taken.
Emptied ==
  Len(received) = AtTail =>
    /\ mem[NextOf(HeadNode)] = Null
    /\ pc[Consumer] \in {"load_head", "idle", "cas_self", "reset_tail", "report"}
    /\ pc[Consumer] = "cas_self" => mem[NextOf(node)] = node
    /\ pc[Consumer] = "reset_tail" => mem[NextOf(node)] = Null

\* Otherwise the first message is at the head, or will be put there by the one or the
\* other, or is lost: then the consumer finds nothing ever after.
Behind == Linking /\ AtTail = Len(received) + 1
Away   == pc[Consumer] \in {"reset_tail", "report", "load_head"} /\ buf[Consumer] = <<>>

AtHead ==
  /\ ~Behind /\ ~HeadWaits /\ pc[Producer] # "store_head"
  /\ buf[Consumer] = <<>> /\ pc[Consumer] \notin {"cas_self", "push_back", "idle"}
BeingLinked ==
  /\ Behind
  /\ \/ last = HeadNode /\ Away /\ pc[Consumer] # "reset_tail"
     \/ /\ last # HeadNode /\ hook = last
        /\ pc[Consumer] = "cas_self" /\ mem[NextOf(last)] = last
     \/ last # HeadNode /\ Away /\ mem[NextOf(last)] = Null
BeingStored ==
  /\ ~Behind /\ Away
  /\ HeadWaits \/ (pc[Producer] = "store_head" /\ AtTail = Len(received) + 1)
PushedBack ==
  /\ ~Behind /\ ~HeadWaits /\ pc[Producer] # "store_head"
  /\ \/ pc[Consumer] = "cas_self" /\ mem[NextOf(node)] = First
     \/ pc[Consumer] = "push_back" /\ next = First
     \/ buf[Consumer] # <<>>
Lost == ~Behind /\ ~HeadWaits /\ pc[Producer] # "store_head" /\ Away

Waiting ==
  Len(received) < AtTail =>
    \/ mem[NextOf(HeadNode)] = First /\ AtHead
    \/ mem[NextOf(HeadNode)] = Null /\ (BeingLinked \/ BeingStored \/ PushedBack \/ Lost)

\* With one message under way at a time none is lost.
OneAtATime ==
  window = 1 =>
    /\ Len(sent) <= GivenBack + 1
    /\ pc[Producer] # "idle" => Len(sent) = GivenBack + 1 /\ pc[Producer] # "store_head"
    /\ pc[Producer] \in {"load_hook", "cas_tail", "cas_hook"} => last = HeadNode
    /\ Len(received) < AtTail => mem[NextOf(HeadNode)] = First \/ BeingLinked

IInv == /\ TypeOK /\ Shapes /\ Fifo /\ Counters /\ ProducerBuffer /\ ConsumerBuffer
        /\ TailNamesLast /\ ProducerLocals /\ ConsumerLocals /\ InLine /\ Emptied
        /\ Waiting /\ OneAtATime

-----------------------------------------------------------------------------
(* Memory and store buffers. *)

USE NodesAssumption, ThreadsAssumption, TotalAssumption, WindowsAssumption

LEMMA LocationsDiffer ==
  /\ \A a, b : NextOf(a) = NextOf(b) => a = b
  /\ \A a, b : CounterOf(a) = CounterOf(b) => a = b
  /\ \A a, b : NextOf(a) # CounterOf(b)
  /\ \A a : NextOf(a) # QueueTail /\ CounterOf(a) # QueueTail
  /\ \A n \in Nodes : NextOf(n) \in Locations
  /\ \A m \in Messages : CounterOf(m) \in Locations
  /\ QueueTail \in Locations
  BY DEF NextOf, CounterOf, QueueTail, Locations, Nodes

LEMMA WriteNext ==
  ASSUME Shapes, NEW a \in Nodes, NEW v, mem' = [mem EXCEPT ![NextOf(a)] = v]
  PROVE  /\ mem' = [loc \in Locations |-> mem'[loc]] /\ DOMAIN mem' = Locations
         /\ \A n \in Nodes : mem'[NextOf(n)] = IF n = a THEN v ELSE mem[NextOf(n)]
         /\ \A m \in Messages : mem'[CounterOf(m)] = mem[CounterOf(m)]
         /\ mem'[QueueTail] = mem[QueueTail]
  <1>1. DOMAIN mem = Locations BY DEF Shapes
  <1>2. \A loc \in Locations : mem'[loc] = IF loc = NextOf(a) THEN v ELSE mem[loc] BY <1>1
  <1>3. QED BY <1>1, <1>2, LocationsDiffer

LEMMA WriteTail ==
  ASSUME Shapes, NEW v, mem' = [mem EXCEPT ![QueueTail] = v]
  PROVE  /\ mem' = [loc \in Locations |-> mem'[loc]] /\ DOMAIN mem' = Locations
         /\ \A n \in Nodes : mem'[NextOf(n)] = mem[NextOf(n)]
         /\ \A m \in Messages : mem'[CounterOf(m)] = mem[CounterOf(m)]
         /\ mem'[QueueTail] = v
  <1>1. DOMAIN mem = Locations BY DEF Shapes
  <1>2. \A loc \in Locations : mem'[loc] = IF loc = QueueTail THEN v ELSE mem[loc] BY <1>1
  <1>3. QED BY <1>1, <1>2, LocationsDiffer

LEMMA WriteCounter ==
  ASSUME Shapes, NEW a \in Messages, NEW v, mem' = [mem EXCEPT ![CounterOf(a)] = v]
  PROVE  /\ mem' = [loc \in Locations |-> mem'[loc]] /\ DOMAIN mem' = Locations
         /\ \A n \in Nodes : mem'[NextOf(n)] = mem[NextOf(n)]
         /\ \A m \in Messages : mem'[CounterOf(m)] = IF m = a THEN v ELSE mem[CounterOf(m)]
         /\ mem'[QueueTail] = mem[QueueTail]
  <1>1. DOMAIN mem = Locations BY DEF Shapes
  <1>2. \A loc \in Locations : mem'[loc] = IF loc = CounterOf(a) THEN v ELSE mem[loc] BY <1>1
  <1>3. QED BY <1>1, <1>2, LocationsDiffer

\* A load of a location with no pending store returns what is in memory.
LEMMA LoadFromMemory ==
  ASSUME NEW t, NEW loc, \A i \in 1..Len(buf[t]) : buf[t][i][1] # loc
  PROVE  Load(t, loc) = mem[loc]
  BY DEF Load, Pending

\* The lengths and the messages the invariant speaks of.
LEMMA Places ==
  ASSUME IInv
  PROVE  /\ Len(sent) \in Nat /\ Len(received) \in Nat /\ AtTail \in Nat /\ GivenBack \in Nat
         /\ Len(received) <= AtTail /\ AtTail <= Len(sent)
         /\ GivenBack <= Len(received) /\ Len(received) <= GivenBack + 1
         /\ \A i \in 1..Len(sent) : sent[i] \in Messages
         /\ \A i \in 1..Len(sent) : sent[i] \in Nodes /\ sent[i] # Null /\ sent[i] # HeadNode
         /\ HeadNode \in Nodes /\ Producer \in Threads /\ Consumer \in Threads
         /\ DOMAIN mem = Locations /\ DOMAIN buf = Threads /\ DOMAIN pc = Threads
         /\ Null \notin Nodes
  <1>1. sent \in Seq(Messages) /\ received \in Seq(Messages) BY DEF IInv, TypeOK
  <1>2. AtTail \in Nat /\ AtTail <= Len(sent) /\ Len(received) <= AtTail
    BY <1>1 DEF IInv, Fifo, AtTail
  <1>3. GivenBack \in Nat /\ GivenBack <= Len(received) /\ Len(received) <= GivenBack + 1
    BY <1>1 DEF IInv, Fifo, GivenBack
  <1>4. DOMAIN mem = Locations /\ DOMAIN buf = Threads /\ DOMAIN pc = Threads
    BY DEF IInv, Shapes
  <1>5. QED BY <1>1, <1>2, <1>3, <1>4 DEF Nodes, Threads

LEMMA InitInvariant == ASSUME Init PROVE IInv
  <1>1. /\ DOMAIN mem = Locations
        /\ mem[QueueTail] = HeadNode
        /\ \A n \in Nodes : mem[NextOf(n)] = Null
        /\ \A m \in Messages : mem[CounterOf(m)] = 0
    BY LocationsDiffer DEF Init, InitialMemory
  <1>2. /\ pc[Producer] = "idle" /\ pc[Consumer] = "load_head"
        /\ buf[Producer] = <<>> /\ buf[Consumer] = <<>>
        /\ item = Null /\ last = Null /\ hook = Null /\ node = Null /\ next = Null
        /\ sent = <<>> /\ received = <<>> /\ window \in Windows
        /\ Shapes
    BY DEF Init, Threads, InitialMemory, Shapes
  <1>3. TypeOK
    BY <1>1, <1>2 DEF TypeOK, Nodes, Links, Threads, EnqueueSteps, DequeueSteps
  <1>4. AtTail = 0 /\ GivenBack = 0 /\ ~Linking /\ ~Holding
    BY <1>2 DEF AtTail, GivenBack, Enqueueing, Holding, Linking
  <1>5. Fifo BY <1>2, <1>4 DEF Fifo
  <1>6. Counters
    <2>1. \A m \in Messages : {i \in 1..0 : sent[i] = m} = {} OBVIOUS
    <2>2. QED BY <1>1, <1>4, <2>1, FS_EmptySet DEF Counters
  <1>7. ProducerBuffer /\ ConsumerBuffer BY <1>2 DEF ProducerBuffer, ConsumerBuffer
  <1>8. TailNamesLast BY <1>1, <1>2, <1>4 DEF TailNamesLast
  <1>9. ProducerLocals /\ ConsumerLocals
    BY <1>2, <1>4 DEF ProducerLocals, ConsumerLocals
  <1>10. InLine /\ Emptied /\ Waiting
    BY <1>1, <1>2, <1>4 DEF InLine, Emptied, Waiting, Nodes
  <1>11. OneAtATime BY <1>2, <1>4 DEF OneAtATime
  <1>12. QED BY <1>2, <1>3, <1>5, <1>6, <1>7, <1>8, <1>9, <1>10, <1>11 DEF IInv

-----------------------------------------------------------------------------
(* The steps of the producer. *)

\* What the producer's buffer holds concerns the head and the item only.
LEMMA ProducerLoads ==
  ASSUME IInv, pc[Producer] \in {"load_tail", "load_hook"}
  PROVE  /\ Load(Producer, QueueTail) = mem[QueueTail]
         /\ pc[Producer] = "load_hook" => Load(Producer, NextOf(last)) = mem[NextOf(last)]
  <1> USE DEF IInv
  <1>1. \/ buf[Producer] = <<>> \/ buf[Producer] = <<SelfStore>>
        \/ Len(received) < AtTail /\ buf[Producer] = <<HeadStore, SelfStore>>
    BY DEF ProducerBuffer
  <1>2. HeadStore[1] = NextOf(HeadNode) /\ SelfStore[1] = NextOf(item)
    BY DEF HeadStore, SelfStore
  <1>3. \A i \in 1..Len(buf[Producer]) : buf[Producer][i][1] # QueueTail
    BY <1>1, <1>2, LocationsDiffer
  <1>4. ASSUME pc[Producer] = "load_hook"
        PROVE  \A i \in 1..Len(buf[Producer]) : buf[Producer][i][1] # NextOf(last)
    <2>1. last # item BY <1>4 DEF ProducerLocals
    <2>2. Len(received) < AtTail => last # HeadNode
      BY <1>4, Places DEF ProducerLocals, TailNamesLast
    <2>3. QED BY <1>1, <1>2, <2>1, <2>2, LocationsDiffer
  <1>5. QED BY <1>3, <1>4, LoadFromMemory

\* With one message under way at a time the producer finds the queue empty.
LEMMA Alone ==
  ASSUME IInv, window = 1, Enqueueing
  PROVE  AtTail = Len(received) /\ ~Holding /\ mem[QueueTail] = HeadNode
  <1> USE DEF IInv
  <1>1. Len(sent) = GivenBack + 1 /\ AtTail = Len(sent) - 1
    BY DEF OneAtATime, AtTail, Enqueueing
  <1>2. AtTail = Len(received) /\ GivenBack = Len(received) BY <1>1, Places
  <1>3. ~Holding BY <1>2, Places DEF GivenBack
  <1>4. QED BY <1>2, <1>3 DEF TailNamesLast, Holding

LEMMA LoadTailStep ==
  ASSUME IInv, LoadTail
  PROVE  IInv'
  <1> USE DEF IInv
  <1>1. /\ pc[Producer] = "load_tail" /\ pc'[Producer] = "load_hook" /\ pc'[Consumer] = pc[Consumer]
        /\ pc' = [t \in Threads |-> pc'[t]] /\ last' = mem[QueueTail]
        /\ UNCHANGED <<mem, buf, item, hook, node, next, window, sent, received>>
    BY Places, ProducerLoads DEF LoadTail, Goto, Shapes
  <1>2. /\ AtTail' = AtTail /\ GivenBack' = GivenBack /\ First' = First
        /\ HeadStore' = HeadStore /\ SelfStore' = SelfStore
        /\ ~Linking /\ ~Linking' /\ (Holding' <=> Holding)
    BY <1>1 DEF AtTail, Enqueueing, GivenBack, Holding, First, HeadStore, SelfStore, Linking
  <1>3. TypeOK'
    BY <1>1 DEF TypeOK, EnqueueSteps, Links
  <1>4. Shapes' BY <1>1 DEF Shapes
  <1>5. Fifo' /\ Counters' BY <1>1, <1>2 DEF Fifo, Counters
  <1>6. ProducerBuffer' BY <1>1, <1>2 DEF ProducerBuffer
  <1>7. ConsumerBuffer' BY <1>1, <1>2 DEF ConsumerBuffer
  <1>8. TailNamesLast' BY <1>1, <1>2 DEF TailNamesLast
  <1>9. ProducerLocals'
    <2>1. last' \in Nodes BY <1>1 DEF TypeOK, Nodes
    <2>2. item = sent[Len(sent)] /\ AtTail = Len(sent) - 1 BY <1>1 DEF ProducerLocals, AtTail, Enqueueing
    <2>3. mem[QueueTail] # item
      BY <2>2, Places DEF Fifo, TailNamesLast, GivenBack, Holding
    <2>4. QED BY <1>1, <1>2, <2>1, <2>3 DEF ProducerLocals
  <1>10. ConsumerLocals' BY <1>1, <1>2 DEF ConsumerLocals
  <1>11. InLine' BY <1>1, <1>2 DEF InLine
  <1>12. Emptied' BY <1>1, <1>2 DEF Emptied
  <1>13. Waiting'
    BY <1>1, <1>2 DEF Waiting, AtHead, Behind, Away, HeadWaits, BeingLinked, BeingStored, PushedBack, Lost
  <1>14. OneAtATime'
    BY <1>1, <1>2, Alone DEF OneAtATime, BeingLinked, Behind, Away, Enqueueing
  <1>15. QED BY <1>3, <1>4, <1>5, <1>6, <1>7, <1>8, <1>9, <1>10, <1>11, <1>12, <1>13, <1>14

LEMMA StoreSelfStep ==
  ASSUME IInv, StoreSelf
  PROVE  IInv'
  <1> USE DEF IInv
  <1>1. /\ pc[Producer] = "self" /\ pc'[Producer] = "load_tail" /\ pc'[Consumer] = pc[Consumer]
        /\ pc' = [t \in Threads |-> pc'[t]]
        /\ buf' = [t \in Threads |-> buf'[t]] /\ buf'[Consumer] = buf[Consumer]
        /\ buf'[Producer] = Append(buf[Producer], SelfStore)
        /\ UNCHANGED <<mem, item, last, hook, node, next, window, sent, received>>
    BY Places DEF StoreSelf, Goto, Store, Shapes, SelfStore, Threads
  <1>2. /\ AtTail' = AtTail /\ GivenBack' = GivenBack /\ First' = First
        /\ HeadStore' = HeadStore /\ SelfStore' = SelfStore
        /\ ~Linking /\ ~Linking' /\ (Holding' <=> Holding)
    BY <1>1 DEF AtTail, Enqueueing, GivenBack, Holding, First, HeadStore, SelfStore, Linking
  <1>3. \/ buf[Producer] = <<>> /\ buf'[Producer] = <<SelfStore>>
        \/ /\ Len(received) < AtTail
           /\ buf[Producer] = <<HeadStore>> /\ buf'[Producer] = <<HeadStore, SelfStore>>
    <2>1. buf[Producer] = <<>> \/ (Len(received) < AtTail /\ buf[Producer] = <<HeadStore>>)
      BY <1>1 DEF ProducerBuffer
    <2>2. Append(<<>>, SelfStore) = <<SelfStore>>
          /\ Append(<<HeadStore>>, SelfStore) = <<HeadStore, SelfStore>>
      BY ShortSequences
    <2>3. QED BY <1>1, <2>1, <2>2
  <1>4. item \in Messages /\ SelfStore[1] \in Locations /\ SelfStore # HeadStore
    <2>1. item \in Messages
      <3>1. sent # <<>> /\ item = sent[Len(sent)] BY <1>1 DEF ProducerLocals
      <3>2. Len(sent) \in 1..Len(sent) BY <3>1 DEF TypeOK
      <3>3. QED BY <3>1, <3>2, Places
    <2>2. QED BY <2>1, LocationsDiffer DEF SelfStore, HeadStore, Nodes
  <1>5. TypeOK'
    <2>1. HeadStore[1] \in Locations BY LocationsDiffer DEF HeadStore, Nodes
    <2>2. \A i \in 1..Len(buf'[Producer]) : buf'[Producer][i][1] \in DOMAIN mem
      <3>1. SelfStore[1] \in DOMAIN mem /\ HeadStore[1] \in DOMAIN mem BY <1>4, <2>1, Places
      <3>2. QED BY <1>3, <3>1
    <2>3. \A i \in 1..Len(buf'[Consumer]) : buf'[Consumer][i][1] \in DOMAIN mem
      BY <1>1, Places DEF TypeOK
    <2>4. QED BY <1>1, <2>2, <2>3 DEF TypeOK, EnqueueSteps, Threads
  <1>6. Shapes' BY <1>1 DEF Shapes
  <1>7. Fifo' /\ Counters' BY <1>1, <1>2 DEF Fifo, Counters
  <1>8. ProducerBuffer' BY <1>1, <1>2, <1>3 DEF ProducerBuffer
  <1>9. ConsumerBuffer' BY <1>1, <1>2 DEF ConsumerBuffer
  <1>10. TailNamesLast' BY <1>1, <1>2 DEF TailNamesLast
  <1>11. ProducerLocals' BY <1>1, <1>2 DEF ProducerLocals
  <1>12. ConsumerLocals' BY <1>1, <1>2 DEF ConsumerLocals
  <1>13. InLine' BY <1>1, <1>2 DEF InLine
  <1>14. Emptied' BY <1>1, <1>2 DEF Emptied
  <1>15. HeadWaits' <=> HeadWaits BY <1>2, <1>3, <1>4 DEF HeadWaits
  <1>16. Waiting'
    BY <1>1, <1>2, <1>15 DEF Waiting, AtHead, Behind, Away, BeingLinked, BeingStored, PushedBack, Lost
  <1>17. OneAtATime'
    BY <1>1, <1>2, Alone DEF OneAtATime, BeingLinked, Behind, Away, Enqueueing
  <1>18. QED BY <1>5, <1>6, <1>7, <1>8, <1>9, <1>10, <1>11, <1>12, <1>13, <1>14, <1>16, <1>17

LEMMA LoadHookStep ==
  ASSUME IInv, LoadHook
  PROVE  IInv'
  <1> USE DEF IInv
  <1>1. /\ pc[Producer] = "load_hook" /\ pc'[Producer] = "cas_tail" /\ pc'[Consumer] = pc[Consumer]
        /\ pc' = [t \in Threads |-> pc'[t]] /\ hook' = mem[NextOf(last)]
        /\ UNCHANGED <<mem, buf, item, last, node, next, window, sent, received>>
    BY Places, ProducerLoads DEF LoadHook, Goto, Shapes
  <1>2. /\ AtTail' = AtTail /\ GivenBack' = GivenBack /\ First' = First
        /\ HeadStore' = HeadStore /\ SelfStore' = SelfStore
        /\ ~Linking /\ ~Linking' /\ (Holding' <=> Holding)
    BY <1>1 DEF AtTail, Enqueueing, GivenBack, Holding, First, HeadStore, SelfStore, Linking
  <1>3. TypeOK'
    <2>1. hook' \in Links BY <1>1 DEF TypeOK, ProducerLocals, Nodes
    <2>2. QED BY <1>1, <2>1 DEF TypeOK, EnqueueSteps
  <1>4. Shapes' BY <1>1 DEF Shapes
  <1>5. Fifo' /\ Counters' BY <1>1, <1>2 DEF Fifo, Counters
  <1>6. ProducerBuffer' BY <1>1, <1>2 DEF ProducerBuffer
  <1>7. ConsumerBuffer' BY <1>1, <1>2 DEF ConsumerBuffer
  <1>8. TailNamesLast' BY <1>1, <1>2 DEF TailNamesLast
  <1>9. ProducerLocals'
    <2>1. ASSUME mem[QueueTail] = last
          PROVE  IF last = HeadNode THEN hook' = Null
                 ELSE hook' = last \/ (hook' = Null /\ AtTail = Len(received) /\ pc[Consumer] = "reset_tail")
      <3>1. CASE Len(received) < AtTail
        <4>1. last = sent[AtTail] /\ last # HeadNode
          BY <2>1, <3>1, Places DEF TailNamesLast
        <4>2. QED BY <1>1, <3>1, <4>1 DEF InLine
      <3>2. CASE Len(received) = AtTail
        <4>1. CASE pc[Consumer] \in {"cas_self", "reset_tail"}
          <5>1. last = sent[AtTail] /\ node = sent[Len(received)] /\ Len(received) > 0
            BY <2>1, <4>1 DEF TailNamesLast, ConsumerLocals, Holding
          <5>2. last # HeadNode /\ last = node BY <3>2, <5>1, Places
          <5>3. QED BY <1>1, <3>2, <4>1, <5>2 DEF Emptied
        <4>2. CASE pc[Consumer] \notin {"cas_self", "reset_tail"}
          BY <1>1, <2>1, <3>2, <4>2 DEF TailNamesLast, Emptied
        <4>3. QED BY <4>1, <4>2
      <3>3. QED BY <3>1, <3>2, Places
    <2>2. QED BY <1>1, <1>2, <2>1 DEF ProducerLocals
  <1>10. ConsumerLocals' BY <1>1, <1>2 DEF ConsumerLocals
  <1>11. InLine' BY <1>1, <1>2 DEF InLine
  <1>12. Emptied' BY <1>1, <1>2 DEF Emptied
  <1>13. Waiting'
    BY <1>1, <1>2 DEF Waiting, AtHead, Behind, Away, HeadWaits, BeingLinked, BeingStored, PushedBack, Lost
  <1>14. OneAtATime'
    BY <1>1, <1>2, Alone DEF OneAtATime, BeingLinked, Behind, Away, Enqueueing
  <1>15. QED BY <1>3, <1>4, <1>5, <1>6, <1>7, <1>8, <1>9, <1>10, <1>11, <1>12, <1>13, <1>14

\* Put at the tail, the message is not linked yet.
LEMMA CasTailStep ==
  ASSUME IInv, CasTail, mem[QueueTail] = last
  PROVE  IInv'
  <1> USE DEF IInv
  <1>1. /\ pc[Producer] = "cas_tail" /\ pc'[Producer] = "cas_hook" /\ pc'[Consumer] = pc[Consumer]
        /\ pc' = [t \in Threads |-> pc'[t]] /\ buf[Producer] = <<>>
        /\ mem' = [mem EXCEPT ![QueueTail] = item]
        /\ UNCHANGED <<buf, item, last, hook, node, next, window, sent, received>>
    BY Places DEF CasTail, Cas, Drained, Goto, Shapes
  <1>2. /\ mem' = [loc \in Locations |-> mem'[loc]] /\ DOMAIN mem' = Locations
        /\ \A n \in Nodes : mem'[NextOf(n)] = mem[NextOf(n)]
        /\ \A m \in Messages : mem'[CounterOf(m)] = mem[CounterOf(m)]
        /\ mem'[QueueTail] = item
    BY <1>1, WriteTail
  <1>3. /\ AtTail' = AtTail + 1 /\ AtTail' = Len(sent) /\ GivenBack' = GivenBack
        /\ First' = First /\ HeadStore' = HeadStore
        /\ ~Linking /\ Linking' /\ (Holding' <=> Holding)
    BY <1>1, Places DEF AtTail, Enqueueing, GivenBack, Holding, First, HeadStore, Linking
  <1>4. /\ Len(sent) \in 1..Len(sent) /\ item = sent[AtTail + 1] /\ item \in Messages
        /\ mem[NextOf(item)] = item /\ last # item /\ last \in Nodes
    <2>1. item = sent[Len(sent)] /\ Len(sent) \in 1..Len(sent)
      BY <1>1, <1>3, Places DEF ProducerLocals
    <2>2. mem[NextOf(item)] = item BY <1>1 DEF ProducerBuffer
    <2>3. QED BY <1>1, <1>3, <2>1, <2>2, Places DEF ProducerLocals
  <1>5. ASSUME NEW i \in 1..Len(sent)
        PROVE  mem'[NextOf(sent[i])] = mem[NextOf(sent[i])]
    BY <1>2, Places
  <1>6. /\ mem'[NextOf(HeadNode)] = mem[NextOf(HeadNode)]
        /\ mem'[NextOf(last)] = mem[NextOf(last)]
        /\ node \in Nodes => mem'[NextOf(node)] = mem[NextOf(node)]
    BY <1>2, <1>4, Places
  <1>7. ASSUME last = HeadNode
        PROVE  /\ Len(received) = AtTail /\ hook = Null /\ mem[NextOf(HeadNode)] = Null
               /\ pc[Consumer] \in {"load_head", "report"} /\ buf[Consumer] = <<>>
    <2>1. Len(received) = AtTail /\ pc[Consumer] \notin {"cas_self", "reset_tail"}
      BY <1>7, Places DEF TailNamesLast, ConsumerLocals, Holding
    <2>2. pc[Consumer] # "idle" BY <1>3, <2>1, Places DEF ConsumerLocals, Fifo
    <2>3. QED BY <1>1, <1>7, <2>1, <2>2, Places
          DEF Emptied, ConsumerBuffer, ProducerLocals
  <1>8. ASSUME last # HeadNode
        PROVE  /\ AtTail > 0 /\ last = sent[AtTail]
               /\ hook = last \/ (hook = Null /\ AtTail = Len(received) /\ pc[Consumer] = "reset_tail")
    <2>1. last = sent[AtTail] /\ (Len(received) < AtTail \/ Holding)
      BY <1>8 DEF TailNamesLast, Holding
    <2>2. AtTail > 0 BY <2>1, Places DEF ConsumerLocals
    <2>3. QED BY <1>1, <1>8, <2>1, <2>2 DEF ProducerLocals
  <1>9. TypeOK'
    <2>1. item \in Links /\ item \in Nodes BY <1>4 DEF Links, Nodes
    <2>2. \A n \in Nodes : mem'[NextOf(n)] \in Links BY <1>2 DEF TypeOK, Nodes
    <2>3. \A m \in Messages : mem'[CounterOf(m)] \in 0..Total BY <1>2 DEF TypeOK
    <2>4. QED BY <1>1, <1>2, <2>1, <2>2, <2>3, Places DEF TypeOK, EnqueueSteps, Nodes
  <1>10. Shapes' BY <1>1, <1>2 DEF Shapes
  <1>11. Fifo' BY <1>1, <1>3, Places DEF Fifo
  <1>12. Counters' BY <1>1, <1>2, <1>3 DEF Counters
  <1>13. ProducerBuffer' BY <1>1 DEF ProducerBuffer
  <1>14. ConsumerBuffer' BY <1>1, <1>3, Places DEF ConsumerBuffer
  <1>15. TailNamesLast' BY <1>1, <1>2, <1>3, <1>4, Places DEF TailNamesLast
  <1>16. ProducerLocals'
    <2>1. \/ last = HeadNode /\ hook = Null /\ Len(received) = AtTail' - 1
          \/ /\ AtTail' > 1 /\ last = sent[AtTail' - 1] /\ last # item
             /\ hook = last \/ (hook = Null /\ Len(received) = AtTail' - 1)
      <3>1. AtTail' - 1 = AtTail BY <1>3, Places
      <3>2. QED BY <1>3, <1>4, <1>7, <1>8, <3>1, Places
    <2>2. QED BY <1>1, <1>3, <2>1, Places DEF ProducerLocals
  <1>17. ConsumerLocals'
    <2>1. Len(received) < AtTail => First \in Nodes BY Places DEF First
    <2>2. pc[Consumer] = "cas_head" => node \in Nodes /\ Len(received) < AtTail
      BY <2>1 DEF ConsumerLocals
    <2>3. QED BY <1>1, <1>3, <1>6, <2>2, Places DEF ConsumerLocals
  <1>18. InLine'
    <2>1. ASSUME NEW i \in (Len(received) + 1)..(AtTail' - 1)
          PROVE  mem'[NextOf(sent[i])] = IF i = AtTail' - 1 THEN sent[i] ELSE sent[i + 1]
      <3>1. i \in (Len(received) + 1)..AtTail /\ i \in 1..Len(sent) /\ AtTail' - 1 = AtTail
        BY <1>3, Places
      <3>2. CASE i = AtTail BY <1>5, <3>1, <3>2, Places DEF InLine
      <3>3. CASE i # AtTail
        <4>1. i \in (Len(received) + 1)..(AtTail - 1) BY <3>1, <3>3, Places
        <4>2. QED BY <1>3, <1>5, <3>1, <3>3, <4>1 DEF InLine
      <3>4. QED BY <3>2, <3>3
    <2>2. sent[AtTail'] = item /\ mem'[NextOf(item)] = item
      BY <1>2, <1>3, <1>4 DEF Nodes
    <2>3. QED BY <1>1, <1>3, <2>1, <2>2 DEF InLine
  <1>19. Emptied' BY <1>1, <1>3, Places DEF Emptied
  <1>20. Waiting'
    <2>1. CASE Len(received) < AtTail
      <3>1. First \in Nodes /\ ~Behind /\ ~Behind' /\ Len(received) + 1 # AtTail'
        BY <1>1, <1>3, <2>1, Places DEF First, Behind
      <3>2. ~HeadWaits /\ ~HeadWaits' BY <1>1 DEF HeadWaits
      <3>3. pc[Consumer] = "cas_self" => node \in Nodes
        BY Places DEF ConsumerLocals, Holding
      <3>4. QED BY <1>1, <1>3, <1>6, <2>1, <3>1, <3>2, <3>3
            DEF Waiting, AtHead, Away, BeingLinked, BeingStored, PushedBack, Lost
    <2>2. CASE Len(received) = AtTail
      <3>1. Behind' BY <1>1, <1>3, <2>2 DEF Behind
      <3>2. mem'[NextOf(HeadNode)] = Null BY <1>6, <2>2 DEF Emptied
      <3>3. CASE last = HeadNode
        <4>1. BeingLinked' BY <1>1, <1>7, <3>1, <3>3 DEF BeingLinked, Away
        <4>2. QED BY <3>2, <4>1 DEF Waiting
      <3>4. CASE last # HeadNode
        <4>1. pc[Consumer] \in {"cas_self", "reset_tail"} /\ buf[Consumer] = <<>> /\ last = node
          BY <1>1, <1>8, <2>2, <3>4, Places
          DEF TailNamesLast, ConsumerBuffer, ConsumerLocals, Holding
        <4>2. pc[Consumer] = "cas_self" => hook = last /\ mem'[NextOf(last)] = last
          BY <1>6, <1>8, <2>2, <3>4, <4>1 DEF Emptied
        <4>3. pc[Consumer] = "reset_tail" => mem'[NextOf(last)] = Null
          BY <1>6, <2>2, <4>1 DEF Emptied
        <4>4. BeingLinked' BY <1>1, <3>1, <3>4, <4>1, <4>2, <4>3 DEF BeingLinked, Away
        <4>5. QED BY <3>2, <4>4 DEF Waiting
      <3>5. QED BY <3>3, <3>4
    <2>3. QED BY <2>1, <2>2, Places
  <1>21. OneAtATime'
    <2>1. ASSUME window = 1 PROVE last = HeadNode /\ AtTail = Len(received)
      BY <1>1, <2>1, Alone DEF Enqueueing
    <2>2. ASSUME window = 1 PROVE BeingLinked'
      BY <1>1, <1>3, <1>7, <2>1, <2>2 DEF BeingLinked, Away, Behind
    <2>3. QED BY <1>1, <1>3, <2>1, <2>2 DEF OneAtATime
  <1>22. QED BY <1>9, <1>10, <1>11, <1>12, <1>13, <1>14, <1>15, <1>16, <1>17, <1>18,
                <1>19, <1>20, <1>21

\* The tail was reset meanwhile, and the producer starts over with it.
LEMMA CasTailFails ==
  ASSUME IInv, CasTail, mem[QueueTail] # last
  PROVE  IInv'
  <1> USE DEF IInv
  <1>1. /\ pc[Producer] = "cas_tail" /\ pc'[Producer] = "load_hook" /\ pc'[Consumer] = pc[Consumer]
        /\ pc' = [t \in Threads |-> pc'[t]] /\ last' = mem[QueueTail] /\ last' = HeadNode
        /\ UNCHANGED <<mem, buf, item, hook, node, next, window, sent, received>>
    <2>1. mem' = mem
      BY Places DEF CasTail, Cas, Shapes
    <2>2. mem[QueueTail] = HeadNode
      BY DEF CasTail, ProducerLocals
    <2>3. QED BY <2>1, <2>2, Places DEF CasTail, Cas, Goto, Shapes
  <1>2. /\ AtTail' = AtTail /\ GivenBack' = GivenBack /\ First' = First
        /\ HeadStore' = HeadStore /\ SelfStore' = SelfStore
        /\ ~Linking /\ ~Linking' /\ (Holding' <=> Holding)
    BY <1>1 DEF AtTail, Enqueueing, GivenBack, Holding, First, HeadStore, SelfStore, Linking
  <1>3. TypeOK' BY <1>1 DEF TypeOK, EnqueueSteps
  <1>4. Shapes' BY <1>1 DEF Shapes
  <1>5. Fifo' /\ Counters' BY <1>1, <1>2 DEF Fifo, Counters
  <1>6. ProducerBuffer' BY <1>1, <1>2 DEF ProducerBuffer
  <1>7. ConsumerBuffer' BY <1>1, <1>2 DEF ConsumerBuffer
  <1>8. TailNamesLast' BY <1>1, <1>2 DEF TailNamesLast
  <1>9. ProducerLocals'
    <2>1. item # HeadNode
      <3>1. sent # <<>> /\ item = sent[Len(sent)] BY <1>1 DEF ProducerLocals
      <3>2. Len(sent) \in 1..Len(sent) BY <3>1 DEF TypeOK
      <3>3. QED BY <3>1, <3>2, Places
    <2>2. QED BY <1>1, <1>2, <2>1, Places DEF ProducerLocals
  <1>10. ConsumerLocals' BY <1>1, <1>2 DEF ConsumerLocals
  <1>11. InLine' BY <1>1, <1>2 DEF InLine
  <1>12. Emptied' BY <1>1, <1>2 DEF Emptied
  <1>13. Waiting'
    BY <1>1, <1>2 DEF Waiting, AtHead, Behind, Away, HeadWaits, BeingLinked, BeingStored, PushedBack, Lost
  <1>14. OneAtATime'
    BY <1>1, <1>2, Alone DEF OneAtATime, BeingLinked, Behind, Away, Enqueueing
  <1>15. QED BY <1>3, <1>4, <1>5, <1>6, <1>7, <1>8, <1>9, <1>10, <1>11, <1>12, <1>13, <1>14

\* Between the two compare-exchanges of an enqueue.
LEMMA AtHook ==
  ASSUME IInv, pc[Producer] = "cas_hook"
  PROVE  /\ AtTail = Len(sent) /\ AtTail \in 1..Len(sent) /\ item = sent[AtTail] /\ item \in Messages
         /\ last \in Nodes /\ last # item /\ hook \in Links
         /\ last # HeadNode => AtTail - 1 \in 1..Len(sent) /\ last = sent[AtTail - 1]
         /\ last = HeadNode => Len(received) = AtTail - 1 /\ hook = Null
         /\ Len(received) < AtTail - 1 => hook = last /\ mem[NextOf(last)] = last
         /\ Len(received) = AtTail - 1 =>
              /\ First = item /\ mem[NextOf(HeadNode)] = Null /\ BeingLinked
              /\ last # HeadNode /\ pc[Consumer] = "cas_self" => node = last
  <1> USE DEF IInv
  <1>1. /\ AtTail = Len(sent) /\ item = sent[AtTail] /\ Linking /\ Len(received) < AtTail
        /\ \/ last = HeadNode /\ hook = Null /\ Len(received) = AtTail - 1
           \/ /\ AtTail > 1 /\ last = sent[AtTail - 1] /\ last # item
              /\ hook = last \/ (hook = Null /\ Len(received) = AtTail - 1)
    BY DEF ProducerLocals, AtTail, Enqueueing, Linking
  <1>2. AtTail \in 1..Len(sent) /\ item \in Messages /\ item # HeadNode /\ hook \in Links
    BY <1>1, Places DEF TypeOK
  <1>3. last # HeadNode => AtTail - 1 \in 1..Len(sent) /\ last = sent[AtTail - 1]
    BY <1>1, <1>2
  <1>4. last \in Nodes /\ last # item BY <1>1, <1>2, <1>3, Places
  <1>5. ASSUME Len(received) < AtTail - 1 PROVE hook = last /\ mem[NextOf(last)] = last
    <2>1. last = sent[AtTail - 1] /\ hook = last BY <1>1, <1>5, Places
    <2>2. AtTail - 1 \in (Len(received) + 1)..(AtTail - 1) BY <1>2, <1>5, Places
    <2>3. QED BY <1>1, <2>1, <2>2 DEF InLine
  <1>6. ASSUME Len(received) = AtTail - 1
        PROVE  First = item /\ mem[NextOf(HeadNode)] = Null /\ BeingLinked
    <2>1. Behind BY <1>1, <1>6 DEF Behind
    <2>2. mem[NextOf(HeadNode)] = Null /\ BeingLinked
      BY <1>1, <2>1 DEF Waiting, AtHead, BeingStored, PushedBack, Lost
    <2>3. QED BY <1>1, <1>2, <1>6, <2>2 DEF First
  <1>7. ASSUME Len(received) = AtTail - 1, last # HeadNode, pc[Consumer] = "cas_self"
        PROVE  node = last
    BY <1>3, <1>7 DEF ConsumerLocals, Holding
  <1>8. ASSUME last = HeadNode PROVE Len(received) = AtTail - 1 /\ hook = Null
    <2>1. AtTail > 1 => sent[AtTail - 1] # HeadNode BY <1>2, Places
    <2>2. QED BY <1>1, <1>8, <2>1
  <1>9. QED BY <1>1, <1>2, <1>3, <1>4, <1>5, <1>6, <1>7, <1>8

\* The message is linked: at the head, behind the last one, or behind one that is taken.
LEMMA CasHookStep ==
  ASSUME IInv, CasHook, mem[NextOf(last)] = hook
  PROVE  IInv'
  <1> USE DEF IInv
  <1>1. /\ pc[Producer] = "cas_hook" /\ pc'[Producer] = "idle" /\ pc'[Consumer] = pc[Consumer]
        /\ pc' = [t \in Threads |-> pc'[t]] /\ buf[Producer] = <<>>
        /\ mem' = [mem EXCEPT ![NextOf(last)] = item]
        /\ item' = Null /\ last' = Null /\ hook' = Null
        /\ UNCHANGED <<buf, node, next, window, sent, received>>
    BY Places DEF CasHook, Cas, Drained, Goto, Shapes, EnqueueReturns
  <1>2. /\ mem' = [loc \in Locations |-> mem'[loc]] /\ DOMAIN mem' = Locations
        /\ \A n \in Nodes : mem'[NextOf(n)] = IF n = last THEN item ELSE mem[NextOf(n)]
        /\ \A m \in Messages : mem'[CounterOf(m)] = mem[CounterOf(m)]
        /\ mem'[QueueTail] = mem[QueueTail]
    BY <1>1, AtHook, WriteNext
  <1>3. /\ AtTail' = AtTail /\ GivenBack' = GivenBack /\ First' = First /\ HeadStore' = HeadStore
        /\ Linking /\ ~Linking' /\ (Holding' <=> Holding) /\ Len(received) < AtTail
        /\ ~HeadWaits /\ ~HeadWaits' /\ ~Behind'
    BY <1>1 DEF AtTail, Enqueueing, GivenBack, Holding, First, HeadStore, Linking, Behind,
                HeadWaits, ProducerLocals
  <1>4. /\ AtTail \in 1..Len(sent) /\ AtTail = Len(sent) /\ item = sent[AtTail] /\ item \in Messages
        /\ last # item
        /\ last # HeadNode => AtTail - 1 \in 1..Len(sent) /\ last = sent[AtTail - 1]
    BY <1>1, AtHook
  <1>5. ASSUME last # HeadNode, NEW i \in (GivenBack + 1)..Len(sent), i # AtTail - 1,
               AtTail - 1 > GivenBack
        PROVE  sent[i] # last
    BY <1>4, <1>5, Places DEF Fifo
  <1>6. TypeOK'
    <2>1. \A n \in Nodes : mem'[NextOf(n)] \in Links BY <1>2, <1>4 DEF TypeOK, Nodes, Links
    <2>2. \A m \in Messages : mem'[CounterOf(m)] \in 0..Total BY <1>2 DEF TypeOK
    <2>3. QED BY <1>1, <1>2, <2>1, <2>2, Places DEF TypeOK, EnqueueSteps, Nodes, Links
  <1>7. Shapes' BY <1>1, <1>2 DEF Shapes
  <1>8. Fifo' BY <1>1, <1>3, Places DEF Fifo
  <1>9. Counters' BY <1>1, <1>2, <1>3 DEF Counters
  <1>10. ProducerBuffer' BY <1>1 DEF ProducerBuffer
  <1>11. ConsumerBuffer' BY <1>1, <1>3, Places DEF ConsumerBuffer
  <1>12. TailNamesLast' BY <1>1, <1>2, <1>3, Places DEF TailNamesLast
  <1>13. ProducerLocals' BY <1>1, <1>3 DEF ProducerLocals
  <1>14. mem'[NextOf(HeadNode)] = IF last = HeadNode THEN item ELSE mem[NextOf(HeadNode)]
    BY <1>2, Places
  <1>15. ConsumerLocals'
    <2>1. ASSUME pc[Consumer] \in {"load_next", "cas_head"}
          PROVE  last # HeadNode /\ node = First /\ First \in Nodes /\ Len(received) < AtTail - 1
      <3>1. mem[NextOf(HeadNode)] = First /\ node = First /\ First \in Messages
        BY <1>3, <2>1, Places DEF ConsumerLocals, First
      <3>2. Len(received) # AtTail - 1 BY <1>1, <3>1, AtHook
      <3>3. last # HeadNode BY <1>1, <3>2, AtHook
      <3>4. QED BY <1>3, <3>1, <3>2, <3>3, Places DEF Nodes
    <2>2. ASSUME pc[Consumer] = "cas_head"
          PROVE  next = node \/ (next = mem'[NextOf(node)] /\ Len(received) + 1 < AtTail)
      <3>1. CASE node = last
        <4>1. mem[NextOf(node)] = node BY <1>1, <2>1, <2>2, <3>1, AtHook
        <4>2. QED BY <2>2, <4>1 DEF ConsumerLocals
      <3>2. CASE node # last
        <4>1. mem'[NextOf(node)] = mem[NextOf(node)] BY <1>2, <2>1, <2>2, <3>2
        <4>2. QED BY <2>2, <4>1 DEF ConsumerLocals
      <3>3. QED BY <3>1, <3>2
    <2>3. QED BY <1>1, <1>3, <1>14, <2>1, <2>2, Places DEF ConsumerLocals
  <1>16. InLine'
    <2>1. ASSUME NEW i \in (Len(received) + 1)..(AtTail - 1)
          PROVE  mem'[NextOf(sent[i])] = sent[i + 1]
      <3>1. i \in 1..Len(sent) /\ i \in (GivenBack + 1)..Len(sent) /\ AtTail - 1 > GivenBack
            /\ Len(received) < AtTail - 1
        BY <1>4, Places
      <3>2. last # HeadNode BY <1>1, <3>1, Places, AtHook
      <3>3. CASE i = AtTail - 1
        <4>1. i + 1 = AtTail /\ sent[i] = last BY <1>4, <3>2, <3>3, Places
        <4>2. QED BY <1>2, <1>4, <4>1, AtHook, <1>1
      <3>4. CASE i # AtTail - 1
        <4>1. sent[i] # last BY <1>5, <3>1, <3>2, <3>4
        <4>2. QED BY <1>2, <3>1, <3>4, <4>1, Places DEF InLine
      <3>5. QED BY <3>3, <3>4
    <2>2. mem'[NextOf(item)] = item
      BY <1>2, <1>3, <1>4 DEF InLine, Nodes
    <2>3. QED BY <1>1, <1>3, <1>4, <2>1, <2>2 DEF InLine
  <1>17. Emptied' BY <1>1, <1>3 DEF Emptied
  <1>18. Waiting'
    <2>1. CASE Len(received) < AtTail - 1
      <3>1. last # HeadNode BY <1>1, <2>1, Places, AtHook
      <3>2. ~Behind BY <2>1, Places DEF Behind
      <3>3. ASSUME pc[Consumer] = "cas_self" PROVE mem'[NextOf(node)] = mem[NextOf(node)]
        <4>1. Holding /\ node = sent[Len(received)] /\ Len(received) = GivenBack + 1
          BY <3>3, Places DEF ConsumerLocals, Holding, GivenBack
        <4>2. sent[Len(received)] # last BY <1>4, <1>5, <2>1, <3>1, <4>1, Places
        <4>3. node \in Nodes BY <4>1, Places
        <4>4. QED BY <1>2, <4>1, <4>2, <4>3
      <3>4. QED BY <1>1, <1>3, <1>14, <3>1, <3>2, <3>3
            DEF Waiting, AtHead, Away, BeingLinked, BeingStored, PushedBack, Lost
    <2>2. CASE Len(received) = AtTail - 1
      <3>1. First = item /\ mem[NextOf(HeadNode)] = Null /\ BeingLinked BY <1>1, <2>2, AtHook
      <3>2. CASE last = HeadNode
        <4>1. AtHead' BY <1>1, <1>3, <3>1, <3>2 DEF AtHead, BeingLinked, Away
        <4>2. QED BY <1>3, <1>14, <3>1, <3>2, <4>1 DEF Waiting
      <3>3. CASE last # HeadNode /\ pc[Consumer] = "cas_self"
        <4>1. mem'[NextOf(node)] = First BY <1>1, <1>2, <2>2, <3>1, <3>3, AtHook
        <4>2. PushedBack' BY <1>1, <1>3, <3>3, <4>1 DEF PushedBack
        <4>3. QED BY <1>14, <3>1, <3>3, <4>2 DEF Waiting
      <3>4. CASE last # HeadNode /\ pc[Consumer] # "cas_self"
        <4>1. Lost' BY <1>1, <1>3, <3>1, <3>4 DEF Lost, BeingLinked, Away
        <4>2. QED BY <1>14, <3>1, <3>4, <4>1 DEF Waiting
      <3>5. QED BY <3>2, <3>3, <3>4
    <2>3. QED BY <1>3, <2>1, <2>2, Places
  <1>19. OneAtATime'
    <2>1. ASSUME window = 1 PROVE mem'[NextOf(HeadNode)] = First
      <3>1. last = HeadNode BY <1>1, <2>1 DEF OneAtATime
      <3>2. Len(received) = AtTail - 1 BY <1>1, <1>4, <3>1, Places DEF ProducerLocals, Linking
      <3>3. QED BY <1>1, <1>14, <3>1, <3>2, AtHook
    <2>2. QED BY <1>1, <1>3, <2>1 DEF OneAtATime
  <1>20. QED BY <1>6, <1>7, <1>8, <1>9, <1>10, <1>11, <1>12, <1>13, <1>15, <1>16,
                <1>17, <1>18, <1>19

\* The last one was taken and cut off meanwhile: the message is stored at the head.
LEMMA CasHookFails ==
  ASSUME IInv, CasHook, mem[NextOf(last)] # hook
  PROVE  IInv'
  <1> USE DEF IInv
  <1>1. /\ pc[Producer] = "cas_hook" /\ pc'[Producer] = "store_head" /\ pc'[Consumer] = pc[Consumer]
        /\ pc' = [t \in Threads |-> pc'[t]] /\ buf[Producer] = <<>>
        /\ UNCHANGED <<mem, buf, item, last, hook, node, next, window, sent, received>>
    <2>1. mem' = mem BY Places DEF CasHook, Cas, Shapes
    <2>2. QED BY <2>1, Places DEF CasHook, Cas, Drained, Goto, Shapes
  <1>2. /\ AtTail' = AtTail /\ GivenBack' = GivenBack /\ First' = First /\ HeadStore' = HeadStore
        /\ Linking /\ ~Linking' /\ (Holding' <=> Holding) /\ Len(received) < AtTail
        /\ ~HeadWaits /\ ~HeadWaits' /\ ~Behind'
    BY <1>1 DEF AtTail, Enqueueing, GivenBack, Holding, First, HeadStore, Linking, Behind,
                HeadWaits, ProducerLocals
  <1>3. /\ Len(received) = AtTail - 1 /\ mem[NextOf(HeadNode)] = Null /\ Away
        /\ last # HeadNode
    <2>1. Len(received) = AtTail - 1
      BY <1>1, <1>2, AtHook, Places
    <2>2. mem[NextOf(HeadNode)] = Null /\ BeingLinked /\ (last = HeadNode => hook = Null)
      BY <1>1, <2>1, AtHook
    <2>3. QED BY <1>1, <2>1, <2>2 DEF BeingLinked
  <1>4. TypeOK' BY <1>1 DEF TypeOK, EnqueueSteps
  <1>5. Shapes' BY <1>1 DEF Shapes
  <1>6. Fifo' /\ Counters' BY <1>1, <1>2 DEF Fifo, Counters
  <1>7. ProducerBuffer' BY <1>1 DEF ProducerBuffer
  <1>8. ConsumerBuffer' BY <1>1, <1>2 DEF ConsumerBuffer
  <1>9. TailNamesLast' BY <1>1, <1>2 DEF TailNamesLast
  <1>10. ProducerLocals' BY <1>1, <1>2 DEF ProducerLocals
  <1>11. ConsumerLocals' BY <1>1, <1>2 DEF ConsumerLocals
  <1>12. InLine'
    <2>1. (Len(received) + 1)..(AtTail - 1) = {} BY <1>3, Places
    <2>2. QED BY <1>1, <1>2, <2>1 DEF InLine
  <1>13. Emptied' BY <1>1, <1>2 DEF Emptied
  <1>14. Waiting'
    <2>1. BeingStored' BY <1>1, <1>2, <1>3, Places DEF BeingStored, Away
    <2>2. QED BY <1>1, <1>3, <2>1 DEF Waiting
  <1>15. OneAtATime' BY <1>1, <1>3 DEF OneAtATime
  <1>16. QED BY <1>4, <1>5, <1>6, <1>7, <1>8, <1>9, <1>10, <1>11, <1>12, <1>13, <1>14, <1>15

LEMMA StoreHeadStep ==
  ASSUME IInv, StoreHead
  PROVE  IInv'
  <1> USE DEF IInv
  <1>1. /\ pc[Producer] = "store_head" /\ pc'[Producer] = "idle" /\ pc'[Consumer] = pc[Consumer]
        /\ pc' = [t \in Threads |-> pc'[t]] /\ buf[Producer] = <<>>
        /\ buf' = [t \in Threads |-> buf'[t]] /\ buf'[Consumer] = buf[Consumer]
        /\ buf'[Producer] = <<<<NextOf(HeadNode), item>>>>
        /\ item' = Null /\ last' = Null /\ hook' = Null
        /\ UNCHANGED <<mem, node, next, window, sent, received>>
    <2>1. buf[Producer] = <<>> /\ pc[Producer] = "store_head" BY DEF StoreHead, ProducerBuffer
    <2>2. buf'[Producer] = Append(buf[Producer], <<NextOf(HeadNode), item>>)
      BY Places DEF StoreHead, Store
    <2>3. Append(<<>>, <<NextOf(HeadNode), item>>) = <<<<NextOf(HeadNode), item>>>>
      BY ShortSequences
    <2>4. buf'[Producer] = <<<<NextOf(HeadNode), item>>>> BY <2>1, <2>2, <2>3
    <2>5. QED BY <2>1, <2>4, Places DEF StoreHead, Store, Goto, EnqueueReturns, Shapes, Threads
  <1>2. /\ AtTail' = AtTail /\ GivenBack' = GivenBack /\ First' = First /\ HeadStore' = HeadStore
        /\ ~Linking /\ ~Linking' /\ (Holding' <=> Holding) /\ Len(received) < AtTail
        /\ ~Behind /\ ~Behind'
    BY <1>1 DEF AtTail, Enqueueing, GivenBack, Holding, First, HeadStore, Linking, Behind,
                ProducerLocals
  <1>3. /\ mem[NextOf(HeadNode)] = Null /\ Away /\ AtTail = Len(received) + 1
        /\ ~HeadWaits
    BY <1>1, <1>2 DEF Waiting, AtHead, BeingLinked, BeingStored, PushedBack, Lost, HeadWaits
  <1>4. item = First
    BY <1>1, <1>3 DEF ProducerLocals, AtTail, Enqueueing, First
  <1>5. TypeOK'
    <2>1. \A i \in 1..Len(buf'[Producer]) : buf'[Producer][i][1] \in DOMAIN mem
      BY <1>1, Places, LocationsDiffer
    <2>2. \A i \in 1..Len(buf'[Consumer]) : buf'[Consumer][i][1] \in DOMAIN mem
      BY <1>1, Places DEF TypeOK
    <2>3. QED BY <1>1, <2>1, <2>2 DEF TypeOK, EnqueueSteps, Threads, Links
  <1>6. Shapes' BY <1>1 DEF Shapes
  <1>7. Fifo' /\ Counters' BY <1>1, <1>2 DEF Fifo, Counters
  <1>8. ProducerBuffer' BY <1>1, <1>2, <1>4 DEF ProducerBuffer, HeadStore
  <1>9. ConsumerBuffer' BY <1>1, <1>2 DEF ConsumerBuffer
  <1>10. TailNamesLast' BY <1>1, <1>2 DEF TailNamesLast
  <1>11. ProducerLocals' BY <1>1, <1>2 DEF ProducerLocals
  <1>12. ConsumerLocals' BY <1>1, <1>2 DEF ConsumerLocals
  <1>13. InLine' BY <1>1, <1>2 DEF InLine
  <1>14. Emptied' BY <1>1, <1>2 DEF Emptied
  <1>15. Waiting'
    <2>1. HeadWaits' BY <1>1, <1>2, <1>4 DEF HeadWaits, HeadStore
    <2>2. BeingStored' BY <1>1, <1>2, <1>3, <2>1 DEF BeingStored, Away
    <2>3. QED BY <1>1, <1>3, <2>2 DEF Waiting
  <1>16. OneAtATime' BY <1>1 DEF OneAtATime
  <1>17. QED BY <1>5, <1>6, <1>7, <1>8, <1>9, <1>10, <1>11, <1>12, <1>13, <1>14, <1>15, <1>16

\* Where a message was sent among the first n.
Sendings(m, n) == {i \in 1..n : sent[i] = m}

LEMMA SendingsFinite ==
  ASSUME NEW m, NEW n \in Nat
  PROVE  IsFiniteSet(Sendings(m, n)) /\ Cardinality(Sendings(m, n)) \in 0..n
  <1>1. IsFiniteSet(1..n) /\ Cardinality(1..n) = n
    <2>1. IsFiniteSet(1..n) /\ Cardinality(1..n) = IF 1 > n THEN 0 ELSE n - 1 + 1
      BY FS_Interval
    <2>2. QED BY <2>1
  <1>2. Sendings(m, n) \in SUBSET (1..n) BY DEF Sendings
  <1>3. IsFiniteSet(Sendings(m, n)) /\ Cardinality(Sendings(m, n)) <= n BY <1>1, <1>2, FS_Subset
  <1>4. QED BY <1>3, FS_CardinalityType

\* A message that is not under way was sent only where it was given back.
LEMMA UnderWayIs ==
  ASSUME IInv, pc[Producer] = "idle", NEW m \in Messages
  PROVE  m \in UnderWay <=> \E i \in (GivenBack + 1)..Len(sent) : sent[i] = m
  <1> USE DEF IInv
  <1>1. GivenBack \in Nat /\ Len(sent) \in Nat /\ GivenBack <= Len(sent) BY Places
  <1>2. Load(Producer, CounterOf(m)) = mem[CounterOf(m)]
    <2>1. buf[Producer] = <<>> \/ buf[Producer] = <<HeadStore>> BY DEF ProducerBuffer
    <2>2. HeadStore[1] # CounterOf(m) BY LocationsDiffer DEF HeadStore
    <2>3. \A i \in 1..Len(buf[Producer]) : buf[Producer][i][1] # CounterOf(m) BY <2>1, <2>2
    <2>4. QED BY <2>3, LoadFromMemory
  <1> DEFINE A == Sendings(m, GivenBack)  B == Sendings(m, Len(sent))
  <1>3. mem[CounterOf(m)] = Cardinality(A) /\ TimesSent(m) = Cardinality(B)
    BY DEF Counters, Sendings, TimesSent
  <1>4. IsFiniteSet(B) /\ Cardinality(B) \in Nat /\ Cardinality(A) \in Nat
    BY <1>1, SendingsFinite
  <1>5. A \in SUBSET B BY <1>1 DEF Sendings
  <1>6. Cardinality(A) <= Cardinality(B) /\ (Cardinality(A) = Cardinality(B) => A = B)
    <2> HIDE DEF A, B
    <2>1. QED BY <1>4, <1>5, FS_Subset
  <1>7. Cardinality(A) < Cardinality(B) <=> A # B BY <1>4, <1>6
  <1>8. A # B <=> \E i \in (GivenBack + 1)..Len(sent) : sent[i] = m
    BY <1>1 DEF Sendings
  <1>9. m \in UnderWay <=> Cardinality(A) < Cardinality(B) BY <1>2, <1>3 DEF UnderWay
  <1>10. QED BY <1>7, <1>8, <1>9

LEMMA ProduceStep ==
  ASSUME IInv, NEW m \in Messages, Produce(m)
  PROVE  IInv'
  <1> USE DEF IInv
  <1>1. /\ pc[Producer] = "idle" /\ pc'[Producer] = "self" /\ pc'[Consumer] = pc[Consumer]
        /\ pc' = [t \in Threads |-> pc'[t]] /\ item' = m /\ Len(sent) < Total
        /\ sent' = Append(sent, m) /\ m \notin UnderWay /\ Cardinality(UnderWay) < window
        /\ UNCHANGED <<mem, buf, last, hook, node, next, window, received>>
    BY Places DEF Produce, Goto, Shapes
  <1>2. /\ sent' \in Seq(Messages) /\ Len(sent') = Len(sent) + 1 /\ sent'[Len(sent) + 1] = m
        /\ \A i \in 1..Len(sent) : sent'[i] = sent[i]
    BY <1>1 DEF TypeOK
  <1>3. /\ AtTail' = AtTail /\ AtTail = Len(sent) /\ GivenBack' = GivenBack
        /\ ~Linking /\ ~Linking' /\ (Holding' <=> Holding) /\ ~Behind /\ ~Behind'
        /\ Len(received) < AtTail => First' = First /\ HeadStore' = HeadStore
    <2>1. AtTail = Len(sent) /\ AtTail' = Len(sent') - 1 BY <1>1 DEF AtTail, Enqueueing
    <2>2. Len(received) < AtTail => Len(received) + 1 \in 1..Len(sent) BY <2>1, Places
    <2>3. Len(received) < AtTail => First' = First BY <1>1, <1>2, <2>2 DEF First
    <2>4. QED BY <1>1, <1>2, <2>1, <2>3, Places
          DEF GivenBack, Holding, HeadStore, Linking, Behind
  <1>4. ASSUME NEW i \in (GivenBack + 1)..Len(sent) PROVE sent[i] # m
    BY <1>1, UnderWayIs
  <1>5. TypeOK' BY <1>1, <1>2 DEF TypeOK, EnqueueSteps, Links
  <1>6. Shapes' BY <1>1 DEF Shapes
  <1>7. Fifo'
    <2>1. \A i \in 1..Len(received) : received[i] = sent'[i]
      BY <1>2, <1>3, Places DEF Fifo
    <2>2. ASSUME NEW i \in (GivenBack + 1)..Len(sent'), NEW j \in (GivenBack + 1)..Len(sent'),
                 sent'[i] = sent'[j]
          PROVE  i = j
      <3>1. /\ i = Len(sent) + 1 \/ (i \in 1..Len(sent) /\ i \in (GivenBack + 1)..Len(sent))
            /\ j = Len(sent) + 1 \/ (j \in 1..Len(sent) /\ j \in (GivenBack + 1)..Len(sent))
        BY <1>2, Places
      <3>2. QED BY <1>2, <1>4, <2>2, <3>1 DEF Fifo
    <2>3. QED BY <1>1, <1>2, <1>3, <2>1, <2>2, Places DEF Fifo
  <1>8. Counters'
    <2>1. \A n \in Messages : {i \in 1..GivenBack : sent'[i] = n} = {i \in 1..GivenBack : sent[i] = n}
      BY <1>2, <1>3, Places
    <2>2. QED BY <1>1, <1>3, <2>1 DEF Counters
  <1>9. ProducerBuffer' BY <1>1, <1>3 DEF ProducerBuffer
  <1>10. ConsumerBuffer' BY <1>1, <1>3 DEF ConsumerBuffer
  <1>11. TailNamesLast'
    <2>1. Len(received) < AtTail \/ Holding => AtTail \in 1..Len(sent)
      BY <1>3, Places DEF ConsumerLocals
    <2>2. QED BY <1>1, <1>2, <1>3, <2>1 DEF TailNamesLast, Holding
  <1>12. ProducerLocals' BY <1>1, <1>2, <1>3 DEF ProducerLocals
  <1>13. ConsumerLocals'
    <2>1. Holding => Len(received) \in 1..Len(sent) BY <1>3, Places DEF ConsumerLocals
    <2>2. QED BY <1>1, <1>2, <1>3, <2>1 DEF ConsumerLocals
  <1>14. InLine'
    <2>1. \A i \in (Len(received) + 1)..(AtTail - 1) :
            i \in 1..Len(sent) /\ i + 1 \in 1..Len(sent)
      BY <1>3, Places
    <2>2. Len(received) < AtTail => AtTail \in 1..Len(sent) BY <1>3, Places
    <2>3. QED BY <1>1, <1>2, <1>3, <2>1, <2>2 DEF InLine
  <1>15. Emptied' BY <1>1, <1>3 DEF Emptied
  <1>16. Len(received) < AtTail => (HeadWaits' <=> HeadWaits) BY <1>1, <1>3 DEF HeadWaits
  <1>17. Waiting'
    BY <1>1, <1>3, <1>16 DEF Waiting, AtHead, Away, BeingLinked, BeingStored, PushedBack, Lost
  <1>18. OneAtATime'
    <2>1. ASSUME window = 1 PROVE Len(sent) = GivenBack
      <3>1. UnderWay = {}
        <4>1. UnderWay \in SUBSET Messages BY DEF UnderWay
        <4>2. IsFiniteSet(UnderWay) BY <4>1, FS_Subset
        <4>3. Cardinality(UnderWay) \in Nat BY <4>2, FS_CardinalityType
        <4>4. Cardinality(UnderWay) = 0 BY <1>1, <2>1, <4>3
        <4>5. QED BY <4>2, <4>4, FS_EmptySet
      <3>2. ASSUME GivenBack < Len(sent) PROVE FALSE
        <4>1. Len(sent) \in (GivenBack + 1)..Len(sent) /\ sent[Len(sent)] \in Messages
          BY <3>2, Places
        <4>2. sent[Len(sent)] \in UnderWay BY <1>1, <4>1, UnderWayIs
        <4>3. QED BY <3>1, <4>2
      <3>3. QED BY <3>2, Places
    <2>2. QED BY <1>1, <1>2, <1>3, <2>1, Places DEF OneAtATime
  <1>19. QED BY <1>5, <1>6, <1>7, <1>8, <1>9, <1>10, <1>11, <1>12, <1>13, <1>14, <1>15,
                <1>17, <1>18

-----------------------------------------------------------------------------
(* The store buffers. *)

\* A store of the first message at the head arrives, whoever made it.
LEMMA HeadStored ==
  ASSUME IInv, Len(received) < AtTail,
         mem' = [mem EXCEPT ![NextOf(HeadNode)] = First],
         buf' = [t \in Threads |-> buf'[t]], UNCHANGED pc,
         UNCHANGED <<item, last, hook, node, next, window, sent, received>>,
         ProducerBuffer', buf'[Consumer] = <<>>,
         \A t \in Threads : \A i \in 1..Len(buf'[t]) : buf'[t][i][1] \in DOMAIN mem,
         ~Behind, ~HeadWaits', pc[Producer] # "store_head",
         pc[Consumer] \in {"reset_tail", "report", "load_head"}
  PROVE  IInv'
  <1> USE DEF IInv
  <1>1. /\ mem' = [loc \in Locations |-> mem'[loc]] /\ DOMAIN mem' = Locations
        /\ \A n \in Nodes : mem'[NextOf(n)] = IF n = HeadNode THEN First ELSE mem[NextOf(n)]
        /\ \A m \in Messages : mem'[CounterOf(m)] = mem[CounterOf(m)]
        /\ mem'[QueueTail] = mem[QueueTail]
    BY Places, WriteNext
  <1>2. /\ AtTail' = AtTail /\ GivenBack' = GivenBack /\ First' = First /\ HeadStore' = HeadStore
        /\ (Linking' <=> Linking) /\ (Holding' <=> Holding) /\ ~Behind'
    BY DEF AtTail, Enqueueing, GivenBack, Holding, First, HeadStore, Linking, Behind
  <1>3. /\ First \in Messages
        /\ \A i \in 1..Len(sent) : mem'[NextOf(sent[i])] = mem[NextOf(sent[i])]
        /\ mem'[NextOf(HeadNode)] = First
    BY <1>1, Places DEF First
  <1>4. TypeOK'
    <2>1. \A n \in Nodes : mem'[NextOf(n)] \in Links BY <1>1, <1>3 DEF TypeOK, Nodes, Links
    <2>2. \A m \in Messages : mem'[CounterOf(m)] \in 0..Total BY <1>1 DEF TypeOK
    <2>3. QED BY <1>1, <2>1, <2>2, Places DEF TypeOK, Nodes
  <1>5. Shapes' BY <1>1 DEF Shapes
  <1>6. Fifo' BY <1>2 DEF Fifo
  <1>7. Counters' BY <1>1, <1>2 DEF Counters
  <1>8. ConsumerBuffer' BY DEF ConsumerBuffer
  <1>9. TailNamesLast' BY <1>1, <1>2 DEF TailNamesLast
  <1>10. ProducerLocals' BY <1>1, <1>2 DEF ProducerLocals
  <1>11. ConsumerLocals' BY <1>2 DEF ConsumerLocals
  <1>12. InLine'
    <2>1. \A i \in (Len(received) + 1)..AtTail : i \in 1..Len(sent) BY Places
    <2>2. Len(received) < AtTail => AtTail \in 1..Len(sent) BY Places
    <2>3. \A i \in (Len(received) + 1)..(AtTail - 1) : i \in 1..Len(sent) BY <2>1, Places
    <2>4. QED BY <1>2, <1>3, <2>2, <2>3 DEF InLine
  <1>13. Emptied' BY <1>2, Places DEF Emptied
  <1>14. Waiting' BY <1>2, <1>3 DEF Waiting, AtHead
  <1>15. OneAtATime' BY <1>2, <1>3 DEF OneAtATime
  <1>16. QED BY <1>4, <1>5, <1>6, <1>7, <1>8, <1>9, <1>10, <1>11, <1>12, <1>13, <1>14, <1>15

LEMMA FlushConsumerStep ==
  ASSUME IInv, Flush(Consumer)
  PROVE  IInv'
  <1> USE DEF IInv
  <1>1. /\ buf[Consumer] = <<HeadStore>> /\ pc[Consumer] = "report" /\ Len(received) < AtTail
    BY DEF Flush, FlushBuffer, ConsumerBuffer
  <1>2. /\ mem' = [mem EXCEPT ![NextOf(HeadNode)] = First]
        /\ buf' = [t \in Threads |-> buf'[t]]
        /\ buf'[Consumer] = <<>> /\ buf'[Producer] = buf[Producer]
        /\ UNCHANGED <<pc, item, last, hook, node, next, window, sent, received>>
    <2>1. Head(buf[Consumer]) = HeadStore /\ Tail(buf[Consumer]) = <<>> BY <1>1, ShortSequences
    <2>2. HeadStore[1] = NextOf(HeadNode) /\ HeadStore[2] = First BY DEF HeadStore
    <2>3. QED BY <2>1, <2>2, Places DEF Flush, FlushBuffer, Shapes, Threads
  <1>3. ~Behind /\ ~HeadWaits /\ pc[Producer] # "store_head"
    BY <1>1 DEF Waiting, AtHead, BeingLinked, BeingStored, PushedBack, Lost, Away
  <1>4. ~HeadWaits' BY <1>2, <1>3 DEF HeadWaits, HeadStore, First
  <1>5. ProducerBuffer'
    <2>1. AtTail' = AtTail /\ HeadStore' = HeadStore /\ SelfStore' = SelfStore
      BY <1>2 DEF AtTail, Enqueueing, HeadStore, First, SelfStore
    <2>2. ASSUME pc[Producer] \in {"load_tail", "load_hook", "cas_tail"}
          PROVE  mem'[NextOf(item)] = mem[NextOf(item)]
      <3>1. sent # <<>> /\ item = sent[Len(sent)] BY <2>2 DEF ProducerLocals
      <3>2. Len(sent) \in 1..Len(sent) BY <3>1 DEF TypeOK
      <3>3. item \in Nodes /\ item # HeadNode BY <3>1, <3>2, Places
      <3>4. \A n \in Nodes : mem'[NextOf(n)] = IF n = HeadNode THEN First ELSE mem[NextOf(n)]
        <4>1. Shapes /\ HeadNode \in Nodes /\ mem' = [mem EXCEPT ![NextOf(HeadNode)] = First]
          BY <1>2, Places
        <4> HIDE DEF IInv
        <4>2. QED BY <4>1, WriteNext
      <3>5. QED BY <3>3, <3>4
    <2>3. QED BY <1>2, <2>1, <2>2 DEF ProducerBuffer
  <1>6. \A t \in Threads : \A i \in 1..Len(buf'[t]) : buf'[t][i][1] \in DOMAIN mem
    BY <1>2 DEF TypeOK, Threads
  <1>7. QED BY <1>1, <1>2, <1>3, <1>4, <1>5, <1>6, HeadStored

LEMMA FlushProducerStep ==
  ASSUME IInv, Flush(Producer)
  PROVE  IInv'
  <1> USE DEF IInv
  <1>1. /\ buf[Producer] # <<>>
        /\ mem' = [mem EXCEPT ![Head(buf[Producer])[1]] = Head(buf[Producer])[2]]
        /\ buf' = [t \in Threads |-> buf'[t]]
        /\ buf'[Producer] = Tail(buf[Producer]) /\ buf'[Consumer] = buf[Consumer]
        /\ UNCHANGED <<pc, item, last, hook, node, next, window, sent, received>>
    BY Places DEF Flush, FlushBuffer, Shapes, Threads
  <1>2. /\ AtTail' = AtTail /\ GivenBack' = GivenBack /\ First' = First /\ HeadStore' = HeadStore
        /\ SelfStore' = SelfStore /\ (Behind' <=> Behind)
        /\ (Linking' <=> Linking) /\ (Holding' <=> Holding)
    BY <1>1 DEF AtTail, Enqueueing, GivenBack, Holding, First, HeadStore, Linking, SelfStore, Behind
  <1>3. /\ HeadStore[1] = NextOf(HeadNode) /\ HeadStore[2] = First
        /\ SelfStore[1] = NextOf(item) /\ SelfStore[2] = item
    BY DEF HeadStore, SelfStore
  <1>4. \/ /\ Len(received) < AtTail /\ pc[Producer] \in {"idle", "self"}
           /\ buf[Producer] = <<HeadStore>>
        \/ /\ Len(received) < AtTail /\ pc[Producer] \in {"load_tail", "load_hook", "cas_tail"}
           /\ buf[Producer] = <<HeadStore, SelfStore>>
        \/ /\ pc[Producer] \in {"load_tail", "load_hook", "cas_tail"}
           /\ buf[Producer] = <<SelfStore>>
    BY <1>1 DEF ProducerBuffer, TypeOK, EnqueueSteps
  <1>5. ASSUME pc[Producer] \in {"load_tail", "load_hook", "cas_tail"}
        PROVE  /\ item = sent[Len(sent)] /\ Len(sent) \in 1..Len(sent) /\ AtTail = Len(sent) - 1
               /\ item \in Messages /\ item \in Nodes /\ item # HeadNode /\ SelfStore # HeadStore
    <2>1. sent # <<>> /\ item = sent[Len(sent)] BY <1>5 DEF ProducerLocals
    <2>2. Len(sent) \in 1..Len(sent) BY <2>1 DEF TypeOK
    <2>3. item \in Messages /\ item \in Nodes /\ item # HeadNode BY <2>1, <2>2, Places
    <2>4. QED BY <1>3, <1>5, <2>1, <2>2, <2>3, LocationsDiffer DEF AtTail, Enqueueing
  <1>6. \A t \in Threads : \A i \in 1..Len(buf'[t]) : buf'[t][i][1] \in DOMAIN mem
    <2>1. SelfStore[1] \in Locations \/ pc[Producer] \in {"idle", "self"}
      BY <1>3, <1>4, <1>5, LocationsDiffer
    <2>2. buf'[Producer] = <<>> \/ (buf'[Producer] = <<SelfStore>> /\ SelfStore[1] \in Locations)
      <3>1. \/ buf'[Producer] = Tail(<<HeadStore>>) \/ buf'[Producer] = Tail(<<SelfStore>>)
            \/ /\ buf'[Producer] = Tail(<<HeadStore, SelfStore>>)
               /\ pc[Producer] \in {"load_tail", "load_hook", "cas_tail"}
        BY <1>1, <1>4
      <3> HIDE DEF IInv
      <3>2. QED BY <2>1, <3>1, ShortSequences
    <2>3. \A i \in 1..Len(buf'[Producer]) : buf'[Producer][i][1] \in DOMAIN mem
      BY <2>2, Places
    <2>4. QED BY <1>1, <2>3 DEF TypeOK, Threads
  <1>7. CASE Head(buf[Producer]) = HeadStore
    <2>1. /\ mem' = [mem EXCEPT ![NextOf(HeadNode)] = First] /\ HeadWaits
          /\ Len(received) < AtTail
          /\ \/ pc[Producer] \in {"idle", "self"} /\ buf'[Producer] = <<>>
             \/ /\ pc[Producer] \in {"load_tail", "load_hook", "cas_tail"}
                /\ buf'[Producer] = <<SelfStore>>
      <3>1. buf[Producer] = <<SelfStore>> => Head(buf[Producer]) = SelfStore
        BY ShortSequences
      <3>2. pc[Producer] \in {"load_tail", "load_hook", "cas_tail"} => buf[Producer] # <<SelfStore>>
        BY <1>5, <1>7, <3>1
      <3>3. buf[Producer] = <<HeadStore>> => Tail(buf[Producer]) = <<>>
        BY ShortSequences
      <3>4. buf[Producer] = <<HeadStore, SelfStore>> => Tail(buf[Producer]) = <<SelfStore>>
        BY ShortSequences
      <3>5. HeadWaits
        <4>1. buf[Producer] = <<HeadStore>> \/ buf[Producer] = <<HeadStore, SelfStore>>
          BY <1>4, <3>2
        <4>2. QED BY <4>1 DEF HeadWaits
      <3>6. mem' = [mem EXCEPT ![NextOf(HeadNode)] = First] BY <1>1, <1>3, <1>7
      <3>7. QED BY <1>1, <1>4, <3>2, <3>3, <3>4, <3>5, <3>6
    <2>2. ~Linking BY <2>1 DEF Linking
    <2>3. ~Behind /\ Away /\ pc[Producer] # "store_head"
      BY <2>1, <2>2 DEF Waiting, AtHead, BeingLinked, BeingStored, PushedBack, Lost, Behind
    <2>4. ~HeadWaits' BY <1>2, <1>5, <2>1 DEF HeadWaits
    <2>5. ProducerBuffer' BY <1>1, <1>2, <2>1 DEF ProducerBuffer
    <2>6. QED BY <1>1, <1>6, <2>1, <2>3, <2>4, <2>5, HeadStored DEF Away
  <1>8. CASE Head(buf[Producer]) # HeadStore
    <2>1. /\ pc[Producer] \in {"load_tail", "load_hook", "cas_tail"}
          /\ buf[Producer] = <<SelfStore>> /\ buf'[Producer] = <<>>
          /\ mem' = [mem EXCEPT ![NextOf(item)] = item]
      <3>1. buf[Producer] = <<HeadStore>> => Head(buf[Producer]) = HeadStore
        BY ShortSequences
      <3>2. buf[Producer] = <<HeadStore, SelfStore>> => Head(buf[Producer]) = HeadStore
        BY ShortSequences
      <3>3. /\ pc[Producer] \in {"load_tail", "load_hook", "cas_tail"}
            /\ buf[Producer] = <<SelfStore>>
        BY <1>4, <1>8, <3>1, <3>2
      <3>4. Head(buf[Producer]) = SelfStore /\ Tail(buf[Producer]) = <<>>
        BY <3>3, ShortSequences
      <3>5. QED BY <1>1, <1>3, <3>3, <3>4
    <2>2. /\ item = sent[Len(sent)] /\ Len(sent) \in 1..Len(sent) /\ AtTail = Len(sent) - 1
          /\ item \in Messages /\ item \in Nodes /\ item # HeadNode /\ SelfStore # HeadStore
      BY <1>5, <2>1
    <2>3. /\ mem' = [loc \in Locations |-> mem'[loc]] /\ DOMAIN mem' = Locations
          /\ \A n \in Nodes : mem'[NextOf(n)] = IF n = item THEN item ELSE mem[NextOf(n)]
          /\ \A m \in Messages : mem'[CounterOf(m)] = mem[CounterOf(m)]
          /\ mem'[QueueTail] = mem[QueueTail]
      <3>1. item \in Nodes /\ Shapes /\ mem' = [mem EXCEPT ![NextOf(item)] = item]
        BY <2>1, <2>2
      <3> HIDE DEF IInv
      <3>2. QED BY <3>1, WriteNext
    <2>4. ~HeadWaits /\ ~HeadWaits' /\ ~Linking /\ ~Behind /\ pc[Producer] # "store_head"
      BY <2>1, <2>2 DEF HeadWaits, Linking, Behind
    <2>5. ASSUME NEW i \in (GivenBack + 1)..AtTail
          PROVE  mem'[NextOf(sent[i])] = mem[NextOf(sent[i])]
      <3>1. i \in (GivenBack + 1)..Len(sent) /\ i # Len(sent) /\ i \in 1..Len(sent)
            /\ Len(sent) \in (GivenBack + 1)..Len(sent)
        BY <2>2, Places
      <3>2. sent[i] # item BY <2>2, <3>1 DEF Fifo
      <3>3. QED BY <2>3, <3>1, <3>2, Places
    <2>6. mem'[NextOf(HeadNode)] = mem[NextOf(HeadNode)] BY <2>2, <2>3, Places
    <2>7. ASSUME Holding \/ pc[Consumer] = "cas_head"
          PROVE  mem'[NextOf(node)] = mem[NextOf(node)]
      <3>1. CASE Holding
        <4>1. node = sent[Len(received)] /\ Len(received) = GivenBack + 1
          BY <3>1, Places DEF ConsumerLocals, GivenBack
        <4>2. Len(received) \in (GivenBack + 1)..AtTail BY <4>1, Places
        <4>3. QED BY <2>5, <4>1, <4>2
      <3>2. CASE pc[Consumer] = "cas_head"
        <4>1. node = First /\ Len(received) < AtTail BY <3>2 DEF ConsumerLocals
        <4>2. Len(received) + 1 \in (GivenBack + 1)..AtTail BY <4>1, Places
        <4>3. QED BY <2>5, <4>1, <4>2 DEF First
      <3>3. QED BY <2>7, <3>1, <3>2
    <2>8. TypeOK'
      <3>1. \A n \in Nodes : mem'[NextOf(n)] \in Links BY <2>2, <2>3 DEF TypeOK, Nodes, Links
      <3>2. \A m \in Messages : mem'[CounterOf(m)] \in 0..Total BY <2>3 DEF TypeOK
      <3>3. QED BY <1>1, <1>6, <2>3, <3>1, <3>2, Places DEF TypeOK, Nodes
    <2>9. Shapes' BY <1>1, <2>3 DEF Shapes
    <2>10. Fifo' BY <1>1, <1>2 DEF Fifo
    <2>11. Counters' BY <1>1, <1>2, <2>3 DEF Counters
    <2>12. ProducerBuffer' BY <1>1, <1>2, <2>1, <2>2, <2>3 DEF ProducerBuffer
    <2>13. ConsumerBuffer' BY <1>1, <1>2 DEF ConsumerBuffer
    <2>14. TailNamesLast' BY <1>1, <1>2, <2>3 DEF TailNamesLast
    <2>15. ProducerLocals' BY <1>1, <1>2, <2>3 DEF ProducerLocals
    <2>16. ConsumerLocals' BY <1>1, <1>2, <2>6, <2>7 DEF ConsumerLocals
    <2>17. InLine'
      <3>1. \A i \in (Len(received) + 1)..(AtTail - 1) : i \in (GivenBack + 1)..AtTail BY Places
      <3>2. Len(received) < AtTail => AtTail \in (GivenBack + 1)..AtTail BY Places
      <3>3. QED BY <1>1, <1>2, <2>5, <3>1, <3>2 DEF InLine
    <2>18. Emptied' BY <1>1, <1>2, <2>6, <2>7 DEF Emptied, Holding
    <2>19. Waiting'
      BY <1>1, <1>2, <2>4, <2>6, <2>7
      DEF Waiting, AtHead, Away, BeingLinked, BeingStored, PushedBack, Lost, Holding
    <2>20. OneAtATime' BY <1>1, <1>2, <2>4, <2>6 DEF OneAtATime, BeingLinked
    <2>21. QED BY <2>8, <2>9, <2>10, <2>11, <2>12, <2>13, <2>14, <2>15, <2>16, <2>17, <2>18,
                  <2>19, <2>20
  <1>9. QED BY <1>7, <1>8

-----------------------------------------------------------------------------
(* The steps of the consumer. *)

LEMMA LoadHeadStep ==
  ASSUME IInv, LoadHead
  PROVE  IInv'
  <1> USE DEF IInv
  <1>1. buf[Consumer] = <<>> /\ Load(Consumer, NextOf(HeadNode)) = mem[NextOf(HeadNode)]
    <2>1. buf[Consumer] = <<>> BY DEF LoadHead, ConsumerBuffer
    <2>2. QED BY <2>1, LoadFromMemory
  <1>2. /\ pc[Consumer] = "load_head" /\ pc'[Consumer] = "load_next" /\ pc'[Producer] = pc[Producer]
        /\ pc' = [t \in Threads |-> pc'[t]]
        /\ node' = mem[NextOf(HeadNode)] /\ mem[NextOf(HeadNode)] # Null
        /\ UNCHANGED <<mem, buf, item, last, hook, next, window, sent, received>>
    BY <1>1, Places DEF LoadHead, Goto, Shapes
  <1>3. /\ AtTail' = AtTail /\ GivenBack' = GivenBack /\ First' = First
        /\ HeadStore' = HeadStore /\ SelfStore' = SelfStore
        /\ (Linking' <=> Linking) /\ ~Holding /\ ~Holding'
    BY <1>2 DEF AtTail, Enqueueing, GivenBack, Holding, First, HeadStore, SelfStore, Linking
  <1>4. Len(received) < AtTail /\ mem[NextOf(HeadNode)] = First /\ AtHead
    BY <1>2, Places DEF Emptied, Waiting
  <1>5. TypeOK' BY <1>2 DEF TypeOK, DequeueSteps
  <1>6. Shapes' BY <1>2 DEF Shapes
  <1>7. Fifo' /\ Counters' BY <1>2, <1>3 DEF Fifo, Counters
  <1>8. ProducerBuffer' BY <1>2, <1>3 DEF ProducerBuffer
  <1>9. ConsumerBuffer' BY <1>1, <1>2 DEF ConsumerBuffer
  <1>10. TailNamesLast' BY <1>2, <1>3, <1>4 DEF TailNamesLast
  <1>11. ProducerLocals' BY <1>2, <1>3 DEF ProducerLocals
  <1>12. ConsumerLocals' BY <1>2, <1>3, <1>4 DEF ConsumerLocals
  <1>13. InLine' BY <1>2, <1>3 DEF InLine
  <1>14. Emptied' BY <1>2, <1>3, <1>4, Places DEF Emptied
  <1>15. Waiting'
    <2>1. AtHead' BY <1>2, <1>3, <1>4 DEF AtHead, Behind, HeadWaits
    <2>2. QED BY <1>2, <1>3, <1>4, <2>1 DEF Waiting
  <1>16. OneAtATime' BY <1>2, <1>3, <1>4 DEF OneAtATime
  <1>17. QED BY <1>5, <1>6, <1>7, <1>8, <1>9, <1>10, <1>11, <1>12, <1>13, <1>14, <1>15, <1>16

LEMMA LoadNextStep ==
  ASSUME IInv, LoadNext
  PROVE  IInv'
  <1> USE DEF IInv
  <1>1. buf[Consumer] = <<>> /\ Load(Consumer, NextOf(node)) = mem[NextOf(node)]
    <2>1. buf[Consumer] = <<>> BY DEF LoadNext, ConsumerBuffer
    <2>2. QED BY <2>1, LoadFromMemory
  <1>2. /\ pc[Consumer] = "load_next" /\ pc'[Consumer] = "cas_head" /\ pc'[Producer] = pc[Producer]
        /\ pc' = [t \in Threads |-> pc'[t]] /\ next' = mem[NextOf(node)]
        /\ UNCHANGED <<mem, buf, item, last, hook, node, window, sent, received>>
    BY <1>1, Places DEF LoadNext, Goto, Shapes
  <1>3. /\ AtTail' = AtTail /\ GivenBack' = GivenBack /\ First' = First
        /\ HeadStore' = HeadStore /\ SelfStore' = SelfStore
        /\ (Linking' <=> Linking) /\ ~Holding /\ ~Holding'
    BY <1>2 DEF AtTail, Enqueueing, GivenBack, Holding, First, HeadStore, SelfStore, Linking
  <1>4. /\ Len(received) < AtTail /\ mem[NextOf(HeadNode)] = First /\ node = First
        /\ First \in Messages /\ AtHead
    <2>1. Len(received) < AtTail /\ mem[NextOf(HeadNode)] = First /\ node = First
      BY <1>2 DEF ConsumerLocals
    <2>2. First \in Messages BY <2>1, Places DEF First
    <2>3. QED BY <2>1, <2>2, Places DEF Waiting
  <1>5. TypeOK'
    <2>1. next' \in Links BY <1>2, <1>4 DEF TypeOK
    <2>2. QED BY <1>2, <2>1 DEF TypeOK, DequeueSteps
  <1>6. Shapes' BY <1>2 DEF Shapes
  <1>7. Fifo' /\ Counters' BY <1>2, <1>3 DEF Fifo, Counters
  <1>8. ProducerBuffer' BY <1>2, <1>3 DEF ProducerBuffer
  <1>9. ConsumerBuffer' BY <1>1, <1>2 DEF ConsumerBuffer
  <1>10. TailNamesLast' BY <1>2, <1>3, <1>4 DEF TailNamesLast
  <1>11. ProducerLocals' BY <1>2, <1>3 DEF ProducerLocals
  <1>12. ConsumerLocals'
    <2>1. CASE Len(received) + 1 = AtTail
      <3>1. next' = node BY <1>2, <1>4, <2>1 DEF InLine, First
      <3>2. QED BY <1>2, <1>3, <1>4, <3>1 DEF ConsumerLocals
    <2>2. CASE Len(received) + 1 < AtTail BY <1>2, <1>3, <1>4, <2>2 DEF ConsumerLocals
    <2>3. QED BY <1>4, <2>1, <2>2, Places
  <1>13. InLine' BY <1>2, <1>3 DEF InLine
  <1>14. Emptied' BY <1>2, <1>3, <1>4, Places DEF Emptied
  <1>15. Waiting'
    <2>1. AtHead' BY <1>2, <1>3, <1>4 DEF AtHead, Behind, HeadWaits
    <2>2. QED BY <1>2, <1>3, <1>4, <2>1 DEF Waiting
  <1>16. OneAtATime' BY <1>2, <1>3, <1>4 DEF OneAtATime
  <1>17. QED BY <1>5, <1>6, <1>7, <1>8, <1>9, <1>10, <1>11, <1>12, <1>13, <1>14, <1>15, <1>16

\* The head names the first message: nothing else is on its way there.
LEMMA AtCasHead ==
  ASSUME IInv, pc[Consumer] = "cas_head"
  PROVE  /\ node = First /\ mem[NextOf(HeadNode)] = First /\ First \in Messages
         /\ Len(received) < AtTail /\ ~Behind /\ pc[Producer] # "store_head"
         /\ buf[Consumer] = <<>> /\ mem[QueueTail] = sent[AtTail]
         /\ pc[Producer] \in {"idle", "self"} => buf[Producer] = <<>>
         /\ pc[Producer] \in {"load_tail", "load_hook", "cas_tail"} =>
              (buf[Producer] = <<>> /\ mem[NextOf(item)] = item) \/ buf[Producer] = <<SelfStore>>
         /\ pc[Producer] \in {"load_tail", "load_hook", "cas_tail"} => item \in Messages
         /\ next = node \/ (next = mem[NextOf(node)] /\ Len(received) + 1 < AtTail)
         /\ GivenBack = Len(received)
  <1> USE DEF IInv
  <1>1. /\ node = First /\ mem[NextOf(HeadNode)] = First /\ Len(received) < AtTail
        /\ next = node \/ (next = mem[NextOf(node)] /\ Len(received) + 1 < AtTail)
    BY DEF ConsumerLocals
  <1>2. First \in Messages BY <1>1, Places DEF First
  <1>3. ~Behind /\ ~HeadWaits /\ pc[Producer] # "store_head" /\ buf[Consumer] = <<>>
    BY <1>1, <1>2 DEF Waiting, AtHead
  <1>4. buf[Producer] # <<HeadStore>> /\ buf[Producer] # <<HeadStore, SelfStore>>
    BY <1>3 DEF HeadWaits
  <1>5. ASSUME pc[Producer] \in {"load_tail", "load_hook", "cas_tail"} PROVE item \in Messages
    <2>1. sent # <<>> /\ item = sent[Len(sent)] BY <1>5 DEF ProducerLocals
    <2>2. Len(sent) \in 1..Len(sent) BY <2>1 DEF TypeOK
    <2>3. QED BY <2>1, <2>2, Places
  <1>6. QED BY <1>1, <1>2, <1>3, <1>4, <1>5
        DEF ProducerBuffer, TailNamesLast, GivenBack, Holding

\* The first message is taken; if it looked like the last one, the head is empty then.
LEMMA CasHeadStep ==
  ASSUME IInv, CasHead
  PROVE  IInv'
  <1> USE DEF IInv
  <1>1. pc[Consumer] = "cas_head" BY DEF CasHead
  <1>2. /\ node = First /\ mem[NextOf(HeadNode)] = First /\ First \in Messages
        /\ Len(received) < AtTail /\ ~Behind /\ pc[Producer] # "store_head"
        /\ buf[Consumer] = <<>> /\ mem[QueueTail] = sent[AtTail]
        /\ next = node \/ (next = mem[NextOf(node)] /\ Len(received) + 1 < AtTail)
        /\ GivenBack = Len(received)
    BY <1>1, AtCasHead
  <1> DEFINE x == IF next = node THEN Null ELSE next
  <1>3. /\ pc' = [pc EXCEPT ![Consumer] = IF next = node THEN "cas_self" ELSE "report"]
        /\ mem' = [mem EXCEPT ![NextOf(HeadNode)] = x]
        /\ received' = Append(received, node)
        /\ UNCHANGED <<buf, item, last, hook, node, next, window, sent>>
    BY <1>2, Places DEF CasHead, Cas, Goto, Taken
  <1>4. /\ pc'[Consumer] = (IF next = node THEN "cas_self" ELSE "report")
        /\ pc'[Producer] = pc[Producer] /\ pc' = [t \in Threads |-> pc'[t]]
    BY <1>3, Places DEF Shapes
  <1>5. /\ mem' = [loc \in Locations |-> mem'[loc]] /\ DOMAIN mem' = Locations
        /\ \A n \in Nodes : mem'[NextOf(n)] = IF n = HeadNode THEN x ELSE mem[NextOf(n)]
        /\ \A m \in Messages : mem'[CounterOf(m)] = mem[CounterOf(m)]
        /\ mem'[QueueTail] = mem[QueueTail]
    <2> HIDE DEF x
    <2>1. HeadNode \in Nodes /\ Shapes BY Places
    <2> HIDE DEF IInv
    <2>2. QED BY <1>3, <2>1, WriteNext
  <1>6. /\ received' \in Seq(Messages) /\ Len(received') = Len(received) + 1
        /\ received'[Len(received) + 1] = node
        /\ \A i \in 1..Len(received) : received'[i] = received[i]
    BY <1>2, <1>3 DEF TypeOK
  <1>7. /\ AtTail' = AtTail /\ GivenBack' = GivenBack /\ SelfStore' = SelfStore
        /\ (Linking' <=> Linking) /\ Holding' /\ First' = sent[Len(received) + 2]
        /\ Len(received) + 1 \in 1..Len(sent)
    <2>1. Holding' /\ AtTail' = AtTail BY <1>3, <1>4 DEF Holding, AtTail, Enqueueing
    <2>2. GivenBack' = Len(received') - 1 BY <2>1 DEF GivenBack
    <2>3. QED BY <1>2, <1>3, <1>4, <1>6, <2>1, <2>2, Places DEF First, Linking, SelfStore
  <1>8. /\ mem'[NextOf(HeadNode)] = x
        /\ \A i \in 1..Len(sent) : mem'[NextOf(sent[i])] = mem[NextOf(sent[i])]
    <2> HIDE DEF x
    <2>1. QED BY <1>5, Places
  <1>9. ASSUME Len(received) + 1 < AtTail
        PROVE  mem[NextOf(node)] = IF Linking /\ Len(received) + 2 = AtTail
                                   THEN node ELSE sent[Len(received) + 2]
    <2>1. Len(received) + 1 \in (Len(received) + 1)..(AtTail - 1) BY <1>9, Places
    <2>2. QED BY <1>2, <2>1, Places DEF InLine, First
  <1>10. x \in Links
    <2>1. mem[NextOf(node)] \in Links BY <1>2 DEF TypeOK
    <2>2. QED BY <1>2, <2>1 DEF Links
  <1> HIDE DEF x
  <1>11. TypeOK'
    <2>1. \A n \in Nodes : mem'[NextOf(n)] \in Links BY <1>5, <1>10 DEF TypeOK, Nodes
    <2>2. \A m \in Messages : mem'[CounterOf(m)] \in 0..Total BY <1>5 DEF TypeOK
    <2>3. QED BY <1>3, <1>4, <1>5, <1>6, <2>1, <2>2, Places DEF TypeOK, DequeueSteps, Nodes
  <1>12. Shapes' BY <1>3, <1>4, <1>5 DEF Shapes
  <1>13. Fifo'
    <2>1. \A i \in 1..Len(received') : received'[i] = sent[i]
      <3>1. \A i \in 1..Len(received) : received[i] = sent[i] BY DEF Fifo
      <3>2. node = sent[Len(received) + 1] /\ Len(received) \in Nat BY <1>2, Places DEF First
      <3> HIDE DEF IInv
      <3> TAKE i \in 1..Len(received')
      <3>3. i \in 1..Len(received) \/ i = Len(received) + 1 BY <1>6, <3>2
      <3>4. QED BY <1>6, <3>1, <3>2, <3>3
    <2>2. 0 <= GivenBack' /\ Len(received') <= AtTail' /\ Len(sent') <= Total
      BY <1>2, <1>3, <1>6, <1>7, Places DEF Fifo
    <2>3. \A i, j \in (GivenBack' + 1)..Len(sent') : sent'[i] = sent'[j] => i = j
      BY <1>3, <1>6, <1>7 DEF Fifo
    <2>4. QED BY <1>3, <2>1, <2>2, <2>3 DEF Fifo
  <1>14. Counters' BY <1>3, <1>5, <1>7 DEF Counters
  <1>15. ProducerBuffer'
    <2>1. ASSUME pc[Producer] \in {"load_tail", "load_hook", "cas_tail"}
          PROVE  mem'[NextOf(item)] = mem[NextOf(item)]
      BY <1>1, <1>5, <2>1, AtCasHead DEF Nodes
    <2>2. QED BY <1>1, <1>2, <1>3, <1>4, <1>7, <2>1, AtCasHead DEF ProducerBuffer
  <1>16. ConsumerBuffer' BY <1>2, <1>3 DEF ConsumerBuffer
  <1>17. TailNamesLast'
    <2>1. next # node => Len(received') < AtTail BY <1>2, <1>6
    <2>2. QED BY <1>2, <1>3, <1>4, <1>5, <1>7, <2>1 DEF TailNamesLast
  <1>18. pc[Producer] \in {"cas_hook", "store_head"} => Len(received) + 1 < AtTail
    BY <1>2, Places DEF Behind, Linking
  <1>19. ProducerLocals'
    <2>1. Linking => /\ last # HeadNode /\ AtTail > 1 /\ last = sent[AtTail - 1] /\ last # item
                     /\ hook = last
      <3>1. Linking => Len(received) # AtTail - 1 BY <1>2, Places DEF Behind
      <3>2. Linking => AtTail - 1 \in 1..Len(sent) \/ AtTail <= 1 BY Places
      <3>3. QED BY <3>1, <3>2, Places DEF ProducerLocals
    <2>2. QED BY <1>1, <1>2, <1>3, <1>4, <1>5, <1>6, <1>7, <1>18, <2>1, Places DEF ProducerLocals
  <1>20. ConsumerLocals' BY <1>2, <1>3, <1>4, <1>6, <1>7, Places DEF ConsumerLocals, First
  <1>21. InLine'
    <2>1. \A i \in (Len(received') + 1)..(AtTail - 1) :
            i \in (Len(received) + 1)..(AtTail - 1) /\ i \in 1..Len(sent)
      BY <1>6, Places
    <2>2. AtTail \in 1..Len(sent) BY <1>2, Places
    <2>3. QED BY <1>2, <1>3, <1>7, <1>8, <2>1, <2>2 DEF InLine
  <1>22. Emptied'
    <2>1. ASSUME Len(received') = AtTail
          PROVE  x = Null /\ pc'[Consumer] = "cas_self" /\ mem'[NextOf(node)] = node
      <3>1. next = node /\ node = sent[AtTail] BY <1>2, <1>6, <2>1 DEF First
      <3>2. mem[NextOf(node)] = node BY <1>2, <3>1 DEF InLine
      <3>3. QED BY <1>4, <1>6, <1>7, <1>8, <2>1, <3>1, <3>2 DEF x
    <2>2. QED BY <1>3, <1>7, <1>8, <2>1 DEF Emptied
  <1>23. ~HeadWaits'
    <2>1. ASSUME pc[Producer] \in {"load_tail", "load_hook", "cas_tail"}
          PROVE  SelfStore # HeadStore'
      <3>1. item # HeadNode BY <1>1, <2>1, AtCasHead
      <3>2. SelfStore[1] # (HeadStore')[1] BY <3>1, LocationsDiffer DEF SelfStore, HeadStore
      <3>3. QED BY <3>2
    <2>2. buf[Producer] = <<>> \/ (buf[Producer] = <<SelfStore>> /\ SelfStore # HeadStore')
      BY <1>1, <1>2, <2>1, AtCasHead DEF ProducerBuffer, TypeOK, EnqueueSteps
    <2>3. QED BY <1>3, <2>2 DEF HeadWaits
  <1>24. Waiting'
    <2>1. Behind' <=> Linking /\ AtTail = Len(received) + 2 BY <1>6, <1>7, Places DEF Behind
    <2>2. ASSUME Len(received) + 1 < AtTail, next # node PROVE First' = x /\ AtHead'
      <3>1. First' = x /\ ~Behind' BY <1>2, <1>7, <1>9, <2>1, <2>2 DEF x
      <3>2. QED BY <1>2, <1>3, <1>4, <1>23, <2>2, <3>1 DEF AtHead
    <2>3. ASSUME Len(received) + 1 < AtTail, next = node PROVE x = Null /\ (BeingLinked' \/ PushedBack')
      <3>1. mem'[NextOf(node)] = mem[NextOf(node)] BY <1>2, <1>7, <1>8 DEF First
      <3>2. CASE Behind'
        <4>1. Linking /\ AtTail - 1 = Len(received) + 1 BY <2>1, <3>2, Places
        <4>2. last # HeadNode /\ last = node /\ hook = last
          <5>1. Len(received) # AtTail - 1 BY <4>1, Places
          <5>2. sent[AtTail - 1] = node BY <1>2, <4>1 DEF First
          <5>3. QED BY <1>2, <4>1, <5>1, <5>2 DEF ProducerLocals
        <4>3. mem'[NextOf(last)] = last BY <1>9, <2>3, <3>1, <4>1, <4>2, Places
        <4>4. BeingLinked' BY <1>3, <1>4, <2>3, <3>2, <4>2, <4>3 DEF BeingLinked
        <4>5. QED BY <2>3, <4>4 DEF x
      <3>3. CASE ~Behind'
        <4>1. mem'[NextOf(node)] = First' BY <1>7, <1>9, <2>1, <2>3, <3>1, <3>3
        <4>2. PushedBack' BY <1>2, <1>3, <1>4, <1>23, <2>3, <3>3, <4>1 DEF PushedBack
        <4>3. QED BY <2>3, <4>2 DEF x
      <3>4. QED BY <3>2, <3>3
    <2>4. QED BY <1>6, <1>7, <1>8, <2>2, <2>3 DEF Waiting
  <1>25. OneAtATime'
    <2>1. window = 1 => AtTail <= Len(received') BY <1>2, <1>6, Places DEF OneAtATime
    <2>2. QED BY <1>2, <1>3, <1>4, <1>6, <1>7, <2>1, Places DEF OneAtATime
  <1>26. QED BY <1>11, <1>12, <1>13, <1>14, <1>15, <1>16, <1>17, <1>19, <1>20, <1>21,
                <1>22, <1>24, <1>25

\* The message that is taken is not in the queue any more.
LEMMA HoldingIs ==
  ASSUME IInv, Holding
  PROVE  /\ Len(received) \in 1..Len(sent) /\ node = sent[Len(received)] /\ node \in Messages
         /\ node \in Nodes /\ node # HeadNode /\ Len(received) = GivenBack + 1
         /\ \A i \in (Len(received) + 1)..Len(sent) : sent[i] # node
         /\ window = 1 => AtTail = Len(received) /\ pc[Producer] = "idle"
  <1> USE DEF IInv
  <1>1. /\ Len(received) \in 1..Len(sent) /\ node = sent[Len(received)]
        /\ Len(received) = GivenBack + 1
    BY Places DEF ConsumerLocals, GivenBack
  <1>2. node \in Messages /\ node \in Nodes /\ node # HeadNode BY <1>1, Places
  <1>3. ASSUME NEW i \in (Len(received) + 1)..Len(sent) PROVE sent[i] # node
    <2>1. /\ i \in (GivenBack + 1)..Len(sent) /\ i # Len(received)
          /\ Len(received) \in (GivenBack + 1)..Len(sent)
      BY <1>1, Places
    <2>2. QED BY <1>1, <2>1 DEF Fifo
  <1>4. ASSUME window = 1 PROVE AtTail = Len(received) /\ pc[Producer] = "idle"
    <2>1. Len(sent) <= Len(received) BY <1>1, <1>4, Places DEF OneAtATime
    <2>2. AtTail = Len(received) /\ AtTail = Len(sent) BY <2>1, Places
    <2>3. ~Enqueueing BY <2>2, Places DEF AtTail
    <2>4. pc[Producer] \notin {"cas_hook", "store_head"} BY <2>2, Places DEF ProducerLocals
    <2>5. QED BY <2>2, <2>3, <2>4 DEF TypeOK, EnqueueSteps, Enqueueing
  <1>5. QED BY <1>1, <1>2, <1>3, <1>4

\* The message taken was the last one: it is cut off, and the tail names it still.
LEMMA CasSelfStep ==
  ASSUME IInv, CasSelf, mem[NextOf(node)] = node
  PROVE  IInv'
  <1> USE DEF IInv
  <1>1. /\ pc[Consumer] = "cas_self" /\ pc'[Consumer] = "reset_tail" /\ pc'[Producer] = pc[Producer]
        /\ pc' = [t \in Threads |-> pc'[t]] /\ buf[Consumer] = <<>>
        /\ mem' = [mem EXCEPT ![NextOf(node)] = Null]
        /\ UNCHANGED <<buf, item, last, hook, node, next, window, sent, received>>
    BY Places DEF CasSelf, Cas, Drained, Goto, Shapes
  <1>2. /\ AtTail' = AtTail /\ GivenBack' = GivenBack /\ First' = First
        /\ HeadStore' = HeadStore /\ SelfStore' = SelfStore
        /\ (Linking' <=> Linking) /\ Holding /\ Holding' /\ (Behind' <=> Behind)
    BY <1>1 DEF AtTail, Enqueueing, GivenBack, Holding, First, HeadStore, SelfStore, Linking, Behind
  <1>3. /\ Len(received) \in 1..Len(sent) /\ node = sent[Len(received)] /\ node \in Messages
        /\ node \in Nodes /\ node # HeadNode
        /\ \A i \in (Len(received) + 1)..Len(sent) : sent[i] # node
        /\ window = 1 => AtTail = Len(received) /\ pc[Producer] = "idle"
    BY <1>2, HoldingIs
  <1>4. /\ mem' = [loc \in Locations |-> mem'[loc]] /\ DOMAIN mem' = Locations
        /\ \A n \in Nodes : mem'[NextOf(n)] = IF n = node THEN Null ELSE mem[NextOf(n)]
        /\ \A m \in Messages : mem'[CounterOf(m)] = mem[CounterOf(m)]
        /\ mem'[QueueTail] = mem[QueueTail]
    <2>1. Shapes OBVIOUS
    <2> HIDE DEF IInv
    <2>2. node \in Nodes /\ mem' = [mem EXCEPT ![NextOf(node)] = Null] BY <1>1, <1>3
    <2>3. QED BY <2>1, <2>2, WriteNext
  <1>5. /\ mem'[NextOf(HeadNode)] = mem[NextOf(HeadNode)]
        /\ mem'[NextOf(node)] = Null
        /\ \A i \in (Len(received) + 1)..Len(sent) : mem'[NextOf(sent[i])] = mem[NextOf(sent[i])]
    <2>1. \A i \in (Len(received) + 1)..Len(sent) : i \in 1..Len(sent) BY Places
    <2>2. QED BY <1>3, <1>4, <2>1, Places
  <1>6. TypeOK'
    <2>1. \A n \in Nodes : mem'[NextOf(n)] \in Links BY <1>4 DEF TypeOK, Nodes, Links
    <2>2. \A m \in Messages : mem'[CounterOf(m)] \in 0..Total BY <1>4 DEF TypeOK
    <2>3. QED BY <1>1, <1>4, <2>1, <2>2, Places DEF TypeOK, DequeueSteps, Nodes
  <1>7. Shapes' BY <1>1, <1>4 DEF Shapes
  <1>8. Fifo' BY <1>1, <1>2 DEF Fifo
  <1>9. Counters' BY <1>1, <1>2, <1>4 DEF Counters
  <1>10. ProducerBuffer'
    <2>1. ASSUME pc[Producer] \in {"load_tail", "load_hook", "cas_tail"}
          PROVE  mem'[NextOf(item)] = mem[NextOf(item)]
      <3>1. item = sent[Len(sent)] /\ AtTail = Len(sent) - 1
        BY <2>1 DEF ProducerLocals, AtTail, Enqueueing
      <3>2. Len(sent) \in (Len(received) + 1)..Len(sent) BY <3>1, Places
      <3>3. QED BY <1>5, <3>1, <3>2
    <2>2. QED BY <1>1, <1>2, <2>1 DEF ProducerBuffer
  <1>11. ConsumerBuffer' BY <1>1 DEF ConsumerBuffer
  <1>12. TailNamesLast' BY <1>1, <1>2, <1>4 DEF TailNamesLast
  <1>13. ProducerLocals' BY <1>1, <1>2, <1>4 DEF ProducerLocals
  <1>14. ConsumerLocals' BY <1>1, <1>2, <1>3, Places DEF ConsumerLocals
  <1>15. InLine'
    <2>1. \A i \in (Len(received) + 1)..(AtTail - 1) : i \in (Len(received) + 1)..Len(sent)
      BY Places
    <2>2. Len(received) < AtTail => AtTail \in (Len(received) + 1)..Len(sent) BY Places
    <2>3. QED BY <1>1, <1>2, <1>5, <2>1, <2>2 DEF InLine
  <1>16. Emptied' BY <1>1, <1>2, <1>5 DEF Emptied
  <1>17. Waiting'
    <2>1. ASSUME Len(received) < AtTail
          PROVE  mem'[NextOf(HeadNode)] = Null /\ BeingLinked'
      <3>1. First # node
        <4>1. Len(received) + 1 \in (Len(received) + 1)..Len(sent) BY <2>1, Places
        <4>2. QED BY <1>3, <4>1 DEF First
      <3>2. mem[NextOf(HeadNode)] = Null /\ Behind /\ last # HeadNode
        BY <1>1, <2>1, <3>1
        DEF Waiting, AtHead, BeingLinked, BeingStored, PushedBack, Lost, Away
      <3>3. last = node
        <4>1. Linking /\ AtTail - 1 = Len(received) BY <3>2, Places DEF Behind
        <4>2. QED BY <1>3, <3>2, <4>1 DEF ProducerLocals
      <3>4. QED BY <1>1, <1>2, <1>5, <3>2, <3>3 DEF BeingLinked, Away
    <2>2. QED BY <1>1, <1>2, <2>1 DEF Waiting
  <1>18. OneAtATime' BY <1>1, <1>2, <1>3, Places DEF OneAtATime
  <1>19. QED BY <1>6, <1>7, <1>8, <1>9, <1>10, <1>11, <1>12, <1>13, <1>14, <1>15, <1>16,
                <1>17, <1>18

\* It has got a successor: that one is to be put at the head.
LEMMA CasSelfFails ==
  ASSUME IInv, CasSelf, mem[NextOf(node)] # node
  PROVE  IInv'
  <1> USE DEF IInv
  <1>1. /\ pc[Consumer] = "cas_self" /\ pc'[Consumer] = "push_back" /\ pc'[Producer] = pc[Producer]
        /\ pc' = [t \in Threads |-> pc'[t]] /\ buf[Consumer] = <<>>
        /\ next' = mem[NextOf(node)]
        /\ UNCHANGED <<mem, buf, item, last, hook, node, window, sent, received>>
    <2>1. mem' = mem BY Places DEF CasSelf, Cas, Shapes
    <2>2. QED BY <2>1, Places DEF CasSelf, Cas, Drained, Goto, Shapes
  <1>2. /\ AtTail' = AtTail /\ GivenBack' = GivenBack /\ First' = First
        /\ HeadStore' = HeadStore /\ SelfStore' = SelfStore
        /\ (Linking' <=> Linking) /\ Holding /\ Holding' /\ (Behind' <=> Behind)
    BY <1>1 DEF AtTail, Enqueueing, GivenBack, Holding, First, HeadStore, SelfStore, Linking, Behind
  <1>3. /\ Len(received) \in 1..Len(sent) /\ node = sent[Len(received)] /\ node \in Messages
        /\ window = 1 => AtTail = Len(received) /\ pc[Producer] = "idle"
    BY <1>2, HoldingIs
  <1>4. /\ Len(received) < AtTail /\ mem[NextOf(HeadNode)] = Null /\ mem[NextOf(node)] = First
        /\ ~Behind /\ ~HeadWaits /\ pc[Producer] # "store_head"
    <2>1. Len(received) < AtTail BY <1>1, Places DEF Emptied
    <2>2. ~BeingLinked
      <3>1. ASSUME Behind, last # HeadNode PROVE last = node
        <4>1. Linking /\ AtTail - 1 = Len(received) BY <3>1, Places DEF Behind
        <4>2. QED BY <1>3, <3>1, <4>1 DEF ProducerLocals
      <3>2. QED BY <1>1, <3>1 DEF BeingLinked, Away
    <2>3. QED BY <1>1, <2>1, <2>2 DEF Waiting, AtHead, BeingStored, PushedBack, Lost, Away
  <1>5. TypeOK'
    <2>1. next' \in Links BY <1>1, <1>3 DEF TypeOK
    <2>2. QED BY <1>1, <2>1 DEF TypeOK, DequeueSteps
  <1>6. Shapes' BY <1>1 DEF Shapes
  <1>7. Fifo' /\ Counters' BY <1>1, <1>2 DEF Fifo, Counters
  <1>8. ProducerBuffer' BY <1>1, <1>2 DEF ProducerBuffer
  <1>9. ConsumerBuffer' BY <1>1 DEF ConsumerBuffer
  <1>10. TailNamesLast' BY <1>1, <1>2, <1>4 DEF TailNamesLast
  <1>11. ProducerLocals' BY <1>1, <1>2 DEF ProducerLocals
  <1>12. ConsumerLocals' BY <1>1, <1>2, <1>3, Places DEF ConsumerLocals
  <1>13. InLine' BY <1>1, <1>2 DEF InLine
  <1>14. Emptied' BY <1>1, <1>2, <1>4, Places DEF Emptied
  <1>15. Waiting'
    <2>1. PushedBack' BY <1>1, <1>2, <1>4 DEF PushedBack, HeadWaits
    <2>2. QED BY <1>1, <1>4, <2>1 DEF Waiting
  <1>16. OneAtATime' BY <1>1, <1>2, <1>3, <1>4, Places DEF OneAtATime
  <1>17. QED BY <1>5, <1>6, <1>7, <1>8, <1>9, <1>10, <1>11, <1>12, <1>13, <1>14, <1>15, <1>16

LEMMA PushBackStep ==
  ASSUME IInv, PushBack
  PROVE  IInv'
  <1> USE DEF IInv
  <1>1. buf[Consumer] = <<>> /\ pc[Consumer] = "push_back" BY DEF PushBack, ConsumerBuffer
  <1>2. /\ Len(received) < AtTail /\ mem[NextOf(HeadNode)] = Null /\ next = First
        /\ ~Behind /\ ~HeadWaits /\ pc[Producer] # "store_head"
    <2>1. Len(received) < AtTail BY <1>1, Places DEF Emptied
    <2>2. QED BY <1>1, <2>1
          DEF Waiting, AtHead, BeingLinked, BeingStored, PushedBack, Lost, Away
  <1>3. /\ pc'[Consumer] = "report" /\ pc'[Producer] = pc[Producer]
        /\ pc' = [t \in Threads |-> pc'[t]]
        /\ buf' = [t \in Threads |-> buf'[t]] /\ buf'[Producer] = buf[Producer]
        /\ buf'[Consumer] = <<HeadStore>>
        /\ UNCHANGED <<mem, item, last, hook, node, next, window, sent, received>>
    <2>1. buf'[Consumer] = Append(buf[Consumer], HeadStore)
      BY <1>2, Places DEF PushBack, Store, HeadStore
    <2>2. buf'[Consumer] = <<HeadStore>> BY <1>1, <2>1, ShortSequences
    <2>3. QED BY <2>2, Places DEF PushBack, Store, Goto, Shapes, Threads
  <1>4. /\ AtTail' = AtTail /\ GivenBack' = GivenBack /\ First' = First
        /\ HeadStore' = HeadStore /\ SelfStore' = SelfStore
        /\ (Linking' <=> Linking) /\ Holding /\ Holding' /\ (Behind' <=> Behind)
    BY <1>1, <1>3 DEF AtTail, Enqueueing, GivenBack, Holding, First, HeadStore, SelfStore,
                      Linking, Behind
  <1>5. /\ Len(received) \in 1..Len(sent) /\ node = sent[Len(received)]
        /\ window = 1 => AtTail = Len(received) /\ pc[Producer] = "idle"
    BY <1>4, HoldingIs
  <1>6. TypeOK'
    <2>1. HeadStore[1] \in Locations BY LocationsDiffer DEF HeadStore, Nodes
    <2>2. \A i \in 1..Len(buf'[Consumer]) : buf'[Consumer][i][1] \in DOMAIN mem
      BY <1>3, <2>1, Places
    <2>3. \A i \in 1..Len(buf'[Producer]) : buf'[Producer][i][1] \in DOMAIN mem
      BY <1>3, Places DEF TypeOK
    <2>4. QED BY <1>3, <2>2, <2>3 DEF TypeOK, DequeueSteps, Threads
  <1>7. Shapes' BY <1>3 DEF Shapes
  <1>8. Fifo' /\ Counters' BY <1>3, <1>4 DEF Fifo, Counters
  <1>9. ProducerBuffer' BY <1>3, <1>4 DEF ProducerBuffer
  <1>10. ConsumerBuffer' BY <1>2, <1>3, <1>4 DEF ConsumerBuffer
  <1>11. TailNamesLast' BY <1>2, <1>3, <1>4 DEF TailNamesLast
  <1>12. ProducerLocals' BY <1>1, <1>3, <1>4 DEF ProducerLocals
  <1>13. ConsumerLocals' BY <1>3, <1>4, <1>5, Places DEF ConsumerLocals
  <1>14. InLine' BY <1>3, <1>4 DEF InLine
  <1>15. Emptied' BY <1>2, <1>3, <1>4, Places DEF Emptied
  <1>16. Waiting'
    <2>1. buf'[Consumer] # <<>> BY <1>3
    <2>2. PushedBack' BY <1>2, <1>3, <1>4, <2>1 DEF PushedBack, HeadWaits
    <2>3. QED BY <1>2, <1>3, <2>2 DEF Waiting
  <1>17. OneAtATime' BY <1>2, <1>3, <1>4, <1>5, Places DEF OneAtATime
  <1>18. QED BY <1>6, <1>7, <1>8, <1>9, <1>10, <1>11, <1>12, <1>13, <1>14, <1>15, <1>16, <1>17

\* The tail names the head again, unless a message was put behind the one taken.
LEMMA ResetTailStep ==
  ASSUME IInv, ResetTail
  PROVE  IInv'
  <1> USE DEF IInv
  <1>1. /\ pc[Consumer] = "reset_tail" /\ pc'[Consumer] = "report" /\ pc'[Producer] = pc[Producer]
        /\ pc' = [t \in Threads |-> pc'[t]] /\ buf[Consumer] = <<>>
        /\ mem' = [mem EXCEPT ![QueueTail] = IF mem[QueueTail] = node THEN HeadNode ELSE mem[QueueTail]]
        /\ UNCHANGED <<buf, item, last, hook, node, next, window, sent, received>>
    BY Places DEF ResetTail, Cas, Drained, Goto, Shapes
  <1>2. /\ AtTail' = AtTail /\ GivenBack' = GivenBack /\ First' = First
        /\ HeadStore' = HeadStore /\ SelfStore' = SelfStore
        /\ (Linking' <=> Linking) /\ Holding /\ Holding' /\ (Behind' <=> Behind)
    BY <1>1 DEF AtTail, Enqueueing, GivenBack, Holding, First, HeadStore, SelfStore, Linking, Behind
  <1>3. /\ Len(received) \in 1..Len(sent) /\ node = sent[Len(received)] /\ node \in Messages
        /\ node \in Nodes /\ node # HeadNode
        /\ \A i \in (Len(received) + 1)..Len(sent) : sent[i] # node
        /\ window = 1 => AtTail = Len(received) /\ pc[Producer] = "idle"
    BY <1>2, HoldingIs
  <1>4. mem[QueueTail] = node <=> Len(received) = AtTail
    <2>1. mem[QueueTail] = sent[AtTail] BY <1>1 DEF TailNamesLast
    <2>2. Len(received) < AtTail => AtTail \in (Len(received) + 1)..Len(sent) BY Places
    <2>3. QED BY <1>3, <2>1, <2>2, Places
  <1>5. /\ mem' = [loc \in Locations |-> mem'[loc]] /\ DOMAIN mem' = Locations
        /\ \A n \in Nodes : mem'[NextOf(n)] = mem[NextOf(n)]
        /\ \A m \in Messages : mem'[CounterOf(m)] = mem[CounterOf(m)]
        /\ mem'[QueueTail] = IF Len(received) = AtTail THEN HeadNode ELSE sent[AtTail]
    <2> DEFINE v == IF mem[QueueTail] = node THEN HeadNode ELSE mem[QueueTail]
    <2>1. Shapes /\ mem' = [mem EXCEPT ![QueueTail] = v] BY <1>1
    <2>2. v = IF Len(received) = AtTail THEN HeadNode ELSE sent[AtTail]
      BY <1>1, <1>4 DEF TailNamesLast
    <2> HIDE DEF v, IInv
    <2>3. QED BY <2>1, <2>2, WriteTail
  <1>6. /\ mem'[NextOf(HeadNode)] = mem[NextOf(HeadNode)]
        /\ mem'[NextOf(node)] = mem[NextOf(node)]
        /\ \A i \in 1..Len(sent) : mem'[NextOf(sent[i])] = mem[NextOf(sent[i])]
    BY <1>3, <1>5, Places
  <1>7. \A n \in Messages \cup {HeadNode} : mem'[NextOf(n)] = mem[NextOf(n)] BY <1>5 DEF Nodes
  <1>8. TypeOK'
    <2>1. mem'[QueueTail] \in Nodes
      <3>1. Len(received) # AtTail => AtTail \in 1..Len(sent) BY <1>3, Places
      <3>2. QED BY <1>5, <3>1, Places
    <2>2. \A m \in Messages : mem'[CounterOf(m)] \in 0..Total BY <1>5 DEF TypeOK
    <2>3. QED BY <1>1, <1>5, <1>7, <2>1, <2>2, Places DEF TypeOK, DequeueSteps, Nodes
  <1>9. Shapes' BY <1>1, <1>5 DEF Shapes
  <1>10. Fifo' BY <1>1, <1>2 DEF Fifo
  <1>11. Counters' BY <1>1, <1>2, <1>5 DEF Counters
  <1>12. ProducerBuffer'
    <2>1. pc[Producer] \in {"load_tail", "load_hook", "cas_tail"} => item \in Messages
      <3>1. ASSUME pc[Producer] \in {"load_tail", "load_hook", "cas_tail"}
            PROVE  item = sent[Len(sent)]
        BY <3>1 DEF ProducerLocals
      <3>2. Len(sent) \in 1..Len(sent) BY <1>3, Places
      <3>3. QED BY <3>1, <3>2, Places
    <2>2. QED BY <1>1, <1>2, <1>7, <2>1 DEF ProducerBuffer
  <1>13. ConsumerBuffer' BY <1>1 DEF ConsumerBuffer
  <1>14. TailNamesLast' BY <1>1, <1>2, <1>5, Places DEF TailNamesLast
  <1>15. ProducerLocals'
    <2>1. CASE Len(received) = AtTail
      <3>1. mem'[QueueTail] = HeadNode /\ mem[QueueTail] # HeadNode BY <1>3, <1>4, <1>5, <2>1
      <3>2. pc[Producer] \in {"load_hook", "cas_tail"} => last # HeadNode
        BY <3>1 DEF ProducerLocals
      <3>3. ~Linking BY <2>1, Places DEF Linking, ProducerLocals
      <3>4. QED BY <1>1, <1>2, <2>1, <3>1, <3>2, <3>3, Places DEF ProducerLocals, Linking
    <2>2. CASE Len(received) < AtTail
      <3>1. mem'[QueueTail] = mem[QueueTail] BY <1>1, <1>5, <2>2, Places DEF TailNamesLast
      <3>2. QED BY <1>1, <1>2, <2>2, <3>1, Places DEF ProducerLocals
    <2>3. QED BY <2>1, <2>2, Places
  <1>16. ConsumerLocals' BY <1>1, <1>2, <1>3, Places DEF ConsumerLocals
  <1>17. InLine'
    <2>1. \A i \in (Len(received) + 1)..(AtTail - 1) : i \in 1..Len(sent) BY Places
    <2>2. Len(received) < AtTail => AtTail \in 1..Len(sent) BY Places
    <2>3. QED BY <1>1, <1>2, <1>6, <2>1, <2>2 DEF InLine
  <1>18. Emptied' BY <1>1, <1>2, <1>6 DEF Emptied
  <1>19. Waiting'
    <2>1. BeingLinked => BeingLinked'
      <3>1. BeingLinked => last # HeadNode /\ last \in Nodes
        BY <1>1, AtHook DEF BeingLinked, Behind, Linking
      <3>2. QED BY <1>1, <1>2, <1>5, <3>1 DEF BeingLinked, Away
    <2>2. QED BY <1>1, <1>2, <1>6, <2>1
          DEF Waiting, AtHead, BeingStored, PushedBack, Lost, Away, HeadWaits
  <1>20. OneAtATime' BY <1>1, <1>2, <1>3, Places DEF OneAtATime
  <1>21. QED BY <1>8, <1>9, <1>10, <1>11, <1>12, <1>13, <1>14, <1>15, <1>16, <1>17, <1>18,
                <1>19, <1>20

LEMMA ReportStep ==
  ASSUME IInv, Report
  PROVE  IInv'
  <1> USE DEF IInv
  <1> DEFINE k == Len(received)
             c == Cardinality(Sendings(node, GivenBack))
  <1>1. /\ pc[Consumer] = "report" /\ buf[Consumer] = <<>> /\ pc'[Producer] = pc[Producer]
        /\ pc'[Consumer] = (IF Len(received) = Total THEN "idle" ELSE "load_head")
        /\ pc' = [t \in Threads |-> pc'[t]]
        /\ mem' = [mem EXCEPT ![CounterOf(node)] = mem[CounterOf(node)] + 1]
        /\ node' = Null /\ next' = Null
        /\ UNCHANGED <<buf, item, last, hook, window, sent, received>>
    BY Places DEF Report, LockedStore, Drained, Goto, Shapes
  <1>2. /\ AtTail' = AtTail /\ GivenBack' = Len(received) /\ First' = First
        /\ HeadStore' = HeadStore /\ SelfStore' = SelfStore
        /\ (Linking' <=> Linking) /\ Holding /\ ~Holding' /\ (Behind' <=> Behind)
    BY <1>1 DEF AtTail, Enqueueing, GivenBack, Holding, First, HeadStore, SelfStore, Linking, Behind
  <1>3. /\ Len(received) \in 1..Len(sent) /\ node = sent[Len(received)] /\ node \in Messages
        /\ Len(received) = GivenBack + 1
        /\ window = 1 => AtTail = Len(received) /\ pc[Producer] = "idle"
    BY <1>2, HoldingIs
  <1>4. /\ mem' = [loc \in Locations |-> mem'[loc]] /\ DOMAIN mem' = Locations
        /\ \A n \in Nodes : mem'[NextOf(n)] = mem[NextOf(n)]
        /\ \A m \in Messages : mem'[CounterOf(m)] = IF m = node THEN mem[CounterOf(node)] + 1
                                                   ELSE mem[CounterOf(m)]
        /\ mem'[QueueTail] = mem[QueueTail]
    <2> DEFINE v == mem[CounterOf(node)] + 1
    <2>1. node \in Messages /\ Shapes /\ mem' = [mem EXCEPT ![CounterOf(node)] = v] BY <1>1, <1>3
    <2> HIDE DEF v, IInv
    <2>2. /\ mem' = [loc \in Locations |-> mem'[loc]] /\ DOMAIN mem' = Locations
          /\ \A n \in Nodes : mem'[NextOf(n)] = mem[NextOf(n)]
          /\ \A m \in Messages : mem'[CounterOf(m)] = IF m = node THEN v ELSE mem[CounterOf(m)]
          /\ mem'[QueueTail] = mem[QueueTail]
      BY <2>1, WriteCounter
    <2>3. QED BY <2>2 DEF v
  <1>5. \A n \in Messages \cup {HeadNode} : mem'[NextOf(n)] = mem[NextOf(n)] BY <1>4 DEF Nodes
  <1>6. /\ mem'[NextOf(HeadNode)] = mem[NextOf(HeadNode)]
        /\ \A i \in 1..Len(sent) : mem'[NextOf(sent[i])] = mem[NextOf(sent[i])]
    BY <1>4, Places
  <1>7. \A m \in Messages : /\ mem'[CounterOf(m)] = Cardinality(Sendings(m, k))
                            /\ mem'[CounterOf(m)] \in 0..Total
    <2> SUFFICES ASSUME NEW m \in Messages
                 PROVE  /\ mem'[CounterOf(m)] = Cardinality(Sendings(m, k))
                        /\ mem'[CounterOf(m)] \in 0..Total
      OBVIOUS
    <2>1. k \in Nat /\ GivenBack \in Nat /\ k = GivenBack + 1 /\ k <= Total
      BY <1>3, Places DEF Fifo
    <2>2. mem[CounterOf(m)] = Cardinality(Sendings(m, GivenBack)) BY DEF Counters, Sendings
    <2>3. IsFiniteSet(Sendings(m, GivenBack)) BY <2>1, SendingsFinite
    <2>4. Cardinality(Sendings(m, k)) \in 0..k BY <2>1, SendingsFinite
    <2>5. CASE m = node
      <3>1. Sendings(m, k) = Sendings(m, GivenBack) \cup {k} /\ k \notin Sendings(m, GivenBack)
        BY <1>3, <2>1, <2>5 DEF Sendings
      <3>2. Cardinality(Sendings(m, k)) = Cardinality(Sendings(m, GivenBack)) + 1
        BY <2>3, <3>1, FS_AddElement
      <3>3. QED BY <1>4, <2>1, <2>2, <2>4, <2>5, <3>2
    <2>6. CASE m # node
      <3>1. Sendings(m, k) = Sendings(m, GivenBack)
        BY <1>3, <2>1, <2>6 DEF Sendings
      <3>2. QED BY <1>4, <2>1, <2>2, <2>4, <2>6, <3>1
    <2>7. QED BY <2>5, <2>6
  <1>8. TypeOK'
    BY <1>1, <1>4, <1>5, <1>7, Places DEF TypeOK, DequeueSteps, Links
  <1>9. Shapes' BY <1>1, <1>4 DEF Shapes
  <1>10. Fifo'
    <2>1. \A i \in (k + 1)..Len(sent) : i \in (GivenBack + 1)..Len(sent) BY <1>3, Places
    <2>2. QED BY <1>1, <1>2, <2>1, Places DEF Fifo
  <1>11. Counters' BY <1>1, <1>2, <1>7 DEF Counters, Sendings
  <1>12. ProducerBuffer'
    <2>1. pc[Producer] \in {"load_tail", "load_hook", "cas_tail"} => item \in Messages
      <3>1. ASSUME pc[Producer] \in {"load_tail", "load_hook", "cas_tail"}
            PROVE  item = sent[Len(sent)]
        BY <3>1 DEF ProducerLocals
      <3>2. Len(sent) \in 1..Len(sent) BY <1>3, Places
      <3>3. QED BY <3>1, <3>2, Places
    <2>2. QED BY <1>1, <1>2, <1>5, <2>1 DEF ProducerBuffer
  <1>13. ConsumerBuffer' BY <1>1 DEF ConsumerBuffer
  <1>14. TailNamesLast' BY <1>1, <1>2, <1>4 DEF TailNamesLast
  <1>15. ProducerLocals' BY <1>1, <1>2, <1>4 DEF ProducerLocals
  <1>16. ConsumerLocals' BY <1>1, <1>2 DEF ConsumerLocals
  <1>17. InLine'
    <2>1. \A i \in (Len(received) + 1)..(AtTail - 1) : i \in 1..Len(sent) BY Places
    <2>2. Len(received) < AtTail => AtTail \in 1..Len(sent) BY Places
    <2>3. QED BY <1>1, <1>2, <1>6, <2>1, <2>2 DEF InLine
  <1>18. Emptied' BY <1>1, <1>2, <1>6 DEF Emptied
  <1>19. Waiting'
    <2>1. Len(received) < AtTail => pc'[Consumer] = "load_head"
      BY <1>1, Places DEF Fifo
    <2>2. Len(received) < AtTail /\ BeingLinked => BeingLinked'
      <3>1. BeingLinked => last \in Nodes
        BY AtHook DEF BeingLinked, Behind, Linking
      <3>2. QED BY <1>1, <1>2, <1>4, <2>1, <3>1 DEF BeingLinked, Away
    <2>3. QED BY <1>1, <1>2, <1>6, <2>1, <2>2
          DEF Waiting, AtHead, BeingStored, PushedBack, Lost, Away, HeadWaits
  <1>20. OneAtATime'
    <2>1. window = 1 => Len(sent) = Len(received)
      <3>1. window = 1 => Len(sent) <= GivenBack + 1 BY DEF OneAtATime
      <3>2. QED BY <1>3, <3>1, Places
    <2>2. QED BY <1>1, <1>2, <1>3, <2>1, Places DEF OneAtATime
  <1>21. QED BY <1>8, <1>9, <1>10, <1>11, <1>12, <1>13, <1>14, <1>15, <1>16, <1>17, <1>18,
                <1>19, <1>20

-----------------------------------------------------------------------------
(* The theorems. *)

LEMMA NoStep ==
  ASSUME IInv, UNCHANGED vars
  PROVE  IInv'
  <1> USE DEF IInv
  <1>1. UNCHANGED <<mem, buf, pc, item, last, hook, node, next, window, sent, received>>
    BY DEF vars
  <1>2. /\ AtTail' = AtTail /\ GivenBack' = GivenBack /\ First' = First
        /\ HeadStore' = HeadStore /\ SelfStore' = SelfStore
        /\ (Linking' <=> Linking) /\ (Holding' <=> Holding)
    BY <1>1 DEF AtTail, Enqueueing, GivenBack, Holding, First, HeadStore, SelfStore, Linking
  <1>3. TypeOK' /\ Shapes' BY <1>1 DEF TypeOK, Shapes
  <1>4. Fifo' /\ Counters' BY <1>1, <1>2 DEF Fifo, Counters
  <1>5. ProducerBuffer' /\ ConsumerBuffer' BY <1>1, <1>2 DEF ProducerBuffer, ConsumerBuffer
  <1>6. TailNamesLast' BY <1>1, <1>2 DEF TailNamesLast
  <1>7. ProducerLocals' BY <1>1, <1>2 DEF ProducerLocals
  <1>8. ConsumerLocals' BY <1>1, <1>2 DEF ConsumerLocals
  <1>9. InLine' /\ Emptied' BY <1>1, <1>2 DEF InLine, Emptied
  <1>10. Waiting'
    BY <1>1, <1>2 DEF Waiting, AtHead, Behind, Away, HeadWaits, BeingLinked, BeingStored, PushedBack, Lost
  <1>11. OneAtATime' BY <1>1, <1>2 DEF OneAtATime, BeingLinked, Behind, Away
  <1>12. QED BY <1>3, <1>4, <1>5, <1>6, <1>7, <1>8, <1>9, <1>10, <1>11

THEOREM Invariance == Spec => []IInv
  <1>1. Init => IInv BY InitInvariant
  <1>2. IInv /\ [Next]_vars => IInv'
    <2> SUFFICES ASSUME IInv, [Next]_vars PROVE IInv' OBVIOUS
    <2>1. CASE Produces
      <3>1. ASSUME NEW m \in Messages, Produce(m) PROVE IInv' BY <3>1, ProduceStep
      <3>2. CASE CasTail BY <3>2, CasTailStep, CasTailFails
      <3>3. CASE CasHook BY <3>3, CasHookStep, CasHookFails
      <3>4. QED
        BY <2>1, <3>1, <3>2, <3>3, StoreSelfStep, LoadTailStep, LoadHookStep, StoreHeadStep
        DEF Produces
    <2>2. CASE Consumes
      <3>1. CASE CasSelf BY <3>1, CasSelfStep, CasSelfFails
      <3>2. QED
        BY <2>2, <3>1, LoadHeadStep, LoadNextStep, CasHeadStep, PushBackStep, ResetTailStep,
           ReportStep DEF Consumes
    <2>3. CASE \E t \in Threads : Flush(t)
      BY <2>3, FlushProducerStep, FlushConsumerStep DEF Threads
    <2>4. CASE UNCHANGED vars BY <2>4, NoStep
    <2>5. QED BY <2>1, <2>2, <2>3, <2>4 DEF Next, Rest
  <1>3. QED BY <1>1, <1>2, PTL DEF Spec

\* Every variable stays within its type, and stores go to locations of the queue.
THEOREM TypeCorrect == Spec => []TypeOK
  <1>1. IInv => TypeOK BY DEF IInv
  <1>2. QED BY <1>1, Invariance, PTL

\* The messages consume receives are those produce sent, in that order and none twice.
THEOREM MessagesInOrder == Spec => []InOrder
  <1>1. ASSUME IInv PROVE InOrder
    <2> USE DEF IInv
    <2>1. /\ sent \in Seq(Messages) /\ received \in Seq(Messages)
          /\ Len(received) <= Len(sent) /\ \A i \in 1..Len(received) : received[i] = sent[i]
      BY <1>1, Places DEF TypeOK, Fifo
    <2>2. SubSeq(received, 1, Len(received)) = SubSeq(sent, 1, Len(received)) BY <2>1
    <2>3. QED BY <2>1, <2>2 DEF InOrder, IsPrefix
  <1>2. QED BY <1>1, Invariance, PTL

LEMMA Slices ==
  ASSUME NEW T, NEW s \in Seq(T), NEW a \in 1..Len(s), NEW b \in a..Len(s)
  PROVE  /\ SubSeq(s, a, a) = <<s[a]>>
         /\ SubSeq(s, a, b) # <<>> /\ Last(SubSeq(s, a, b)) = s[b]
         /\ b < Len(s) => Append(SubSeq(s, a, b), s[b + 1]) = SubSeq(s, a, b + 1)
  <1>1. \A c \in a..Len(s) : /\ SubSeq(s, a, c) \in Seq(T) /\ Len(SubSeq(s, a, c)) = c - a + 1
                             /\ \A i \in 1..(c - a + 1) : SubSeq(s, a, c)[i] = s[a + i - 1]
    OBVIOUS
  <1>2. SubSeq(s, a, a) = <<s[a]>>
    <2> DEFINE u == SubSeq(s, a, a)  v == <<s[a]>>
    <2>1. v \in Seq(T) /\ Len(v) = 1 /\ v[1] = s[a] OBVIOUS
    <2>2. u \in Seq(T) /\ Len(u) = 1 /\ u[1] = s[a] BY <1>1
    <2> HIDE DEF u, v
    <2>3. \A i \in 1..Len(u) : u[i] = v[i] BY <2>1, <2>2
    <2>4. u = v BY <2>1, <2>2, <2>3, SeqEqual
    <2>5. QED BY <2>4 DEF u, v
  <1>3. SubSeq(s, a, b) # <<>> /\ Last(SubSeq(s, a, b)) = s[b]
    <2> DEFINE u == SubSeq(s, a, b)
    <2>1. Len(u) = b - a + 1 /\ u[b - a + 1] = s[a + (b - a + 1) - 1] BY <1>1
    <2>2. a + (b - a + 1) - 1 = b /\ b - a + 1 # 0 OBVIOUS
    <2> HIDE DEF u
    <2>3. u # <<>> BY <2>1, <2>2
    <2>4. QED BY <2>1, <2>2, <2>3 DEF Last, u
  <1>4. ASSUME b < Len(s) PROVE Append(SubSeq(s, a, b), s[b + 1]) = SubSeq(s, a, b + 1)
    <2> DEFINE u == SubSeq(s, a, b)  v == SubSeq(s, a, b + 1)  n == b - a + 1
    <2>1. u \in Seq(T) /\ Len(u) = n /\ \A i \in 1..n : u[i] = s[a + i - 1] BY <1>1
    <2>2. v \in Seq(T) /\ Len(v) = n + 1 /\ \A i \in 1..(n + 1) : v[i] = s[a + i - 1]
      BY <1>1, <1>4
    <2>3. s[b + 1] \in T /\ a + (n + 1) - 1 = b + 1 /\ n \in Nat BY <1>4
    <2> HIDE DEF u, v, n
    <2>4. /\ Append(u, s[b + 1]) \in Seq(T) /\ Len(Append(u, s[b + 1])) = n + 1
          /\ \A i \in 1..n : Append(u, s[b + 1])[i] = u[i]
          /\ Append(u, s[b + 1])[n + 1] = s[b + 1]
      BY <2>1, <2>3, AppendProperties
    <2>5. \A i \in 1..(n + 1) : Append(u, s[b + 1])[i] = v[i]
      <3> TAKE i \in 1..(n + 1)
      <3>1. i = n + 1 \/ i \in 1..n BY <2>3
      <3>2. n + 1 \in 1..(n + 1) BY <2>3
      <3>3. v[n + 1] = s[b + 1] BY <2>2, <2>3, <3>2
      <3>4. QED BY <2>1, <2>2, <2>4, <3>1, <3>3
    <2>6. Append(u, s[b + 1]) = v BY <2>2, <2>4, <2>5, SeqEqual
    <2>7. QED BY <2>6 DEF u, v
  <1>5. QED BY <1>2, <1>3, <1>4

\* What Chain adds to a chain, and the function it is defined by.
Grown(c) == IF c = <<>> THEN c
            ELSE IF mem[NextOf(Last(c))] \in {Null, Last(c)} THEN c
            ELSE Append(c, mem[NextOf(Last(c))])
Chains(n, f) == f = [i \in 0..Cardinality(Messages) |->
                       IF i = 0 THEN IF n = Null THEN <<>> ELSE <<n>> ELSE Grown(f[i - 1])]

LEMMA ChainIs ==
  ASSUME NEW n, NEW g, Chains(n, g)
  PROVE  Chain(n) = g[Cardinality(Messages)]
  <1> DEFINE N == Cardinality(Messages)
             h == CHOOSE f : Chains(n, f)
             S == {i \in Nat : i <= N => h[i] = g[i]}
  <1>1. N \in Nat BY FS_CardinalityType
  <1>2. Chains(n, h) OBVIOUS
  <1>3. Chain(n) = h[N]
    BY DEF Chain, Chains, Grown
  <1>4. /\ \A i \in 0..N : h[i] = IF i = 0 THEN IF n = Null THEN <<>> ELSE <<n>> ELSE Grown(h[i - 1])
        /\ \A i \in 0..N : g[i] = IF i = 0 THEN IF n = Null THEN <<>> ELSE <<n>> ELSE Grown(g[i - 1])
    <2> HIDE DEF h
    <2>1. QED BY <1>2 DEF Chains
  <1> HIDE DEF h, N
  <1>5. 0 \in S BY <1>1, <1>4
  <1>6. ASSUME NEW i \in Nat, i \in S PROVE i + 1 \in S
    <2>1. i + 1 <= N => h[i + 1] = Grown(h[i]) /\ g[i + 1] = Grown(g[i]) /\ h[i] = g[i]
      BY <1>1, <1>4, <1>6
    <2>2. QED BY <2>1
  <1>7. Nat \subseteq S
    <2> HIDE DEF S
    <2>1. QED BY <1>5, <1>6, SetInduction
  <1>8. QED BY <1>1, <1>3, <1>7 DEF N

LEMMA NoChain == Chain(Null) = <<>>
  <1> DEFINE g == [i \in 0..Cardinality(Messages) |-> <<>>]
  <1>1. Cardinality(Messages) \in Nat BY FS_CardinalityType
  <1>2. Chains(Null, g)
    <2>1. ASSUME NEW i \in 0..Cardinality(Messages)
          PROVE  g[i] = IF i = 0 THEN IF Null = Null THEN <<>> ELSE <<Null>> ELSE Grown(g[i - 1])
      <3>1. i # 0 => g[i - 1] = <<>> BY <1>1
      <3>2. QED BY <3>1 DEF Grown
    <2>2. QED BY <2>1 DEF Chains
  <1>3. g[Cardinality(Messages)] = <<>> BY <1>1
  <1>4. QED BY <1>2, <1>3, ChainIs

\* The messages sent and not given back are different ones: they are at most all of them.
LEMMA AllDifferent ==
  ASSUME IInv
  PROVE  Len(sent) - GivenBack <= Cardinality(Messages)
  <1> DEFINE D == (GivenBack + 1)..Len(sent)
             f == [i \in D |-> sent[i]]
  <1>1. GivenBack \in Nat /\ Len(sent) \in Nat /\ GivenBack <= Len(sent) BY Places
  <1>2. \A i \in D : i \in 1..Len(sent) BY <1>1
  <1>3. f \in [D -> Messages] BY <1>2, Places
  <1>4. IsInjective(f) BY DEF IInv, Fifo, IsInjective
  <1>5. f \in Injection(D, Messages) BY <1>3, <1>4 DEF Injection
  <1>6. Cardinality(D) <= Cardinality(Messages)
    <2> HIDE DEF f, D
    <2>1. QED BY <1>5, FS_Injection
  <1>7. \A a, b \in Int : Cardinality(a..b) = IF a > b THEN 0 ELSE b - a + 1 BY FS_Interval
  <1>8. Cardinality(D) = Len(sent) - GivenBack
    <2> DEFINE a == GivenBack + 1  b == Len(sent)
    <2>1. a \in Int /\ b \in Int /\ D = a..b BY <1>1
    <2> HIDE DEF a, b, D
    <2>2. Cardinality(D) = IF a > b THEN 0 ELSE b - a + 1 BY <1>7, <2>1
    <2>3. QED BY <1>1, <2>2 DEF a, b
  <1>9. QED BY <1>6, <1>8

LEMMA FullChain ==
  ASSUME IInv, Quiet, Len(received) < Len(sent), mem[NextOf(HeadNode)] = First
  PROVE  InQueue = Queued
  <1> USE DEF IInv
  <1> DEFINE L == Len(received) + 1
             K == Len(sent)
             N == Cardinality(Messages)
             e(i) == IF L + i <= K THEN L + i ELSE K
             g == [i \in 0..N |-> SubSeq(sent, L, e(i))]
  <1>1. /\ L \in 1..K /\ K \in Nat /\ N \in Nat /\ sent \in Seq(Messages)
        /\ AtTail = K /\ GivenBack = Len(received) /\ ~Linking
    BY Places, FS_CardinalityType
    DEF Quiet, AtTail, GivenBack, Enqueueing, Holding, Linking, TypeOK
  <1>2. K - L + 1 <= N BY <1>1, AllDifferent
  <1>3. \A i \in 0..N : e(i) \in L..K BY <1>1
  <1>4. ASSUME NEW i \in L..K
        PROVE  /\ sent[i] # Null
               /\ mem[NextOf(sent[i])] = IF i = K THEN sent[i] ELSE sent[i + 1]
               /\ i < K => sent[i + 1] # sent[i] /\ sent[i + 1] # Null
    <2>1. CASE i = K BY <1>1, <2>1, Places DEF InLine
    <2>2. CASE i < K
      <3>1. i \in (Len(received) + 1)..(AtTail - 1) /\ i \in 1..K /\ i + 1 \in 1..K
        BY <1>1, <2>2
      <3>2. mem[NextOf(sent[i])] = sent[i + 1] BY <1>1, <3>1 DEF InLine
      <3>3. i \in (GivenBack + 1)..K /\ i + 1 \in (GivenBack + 1)..K /\ i # i + 1
        BY <1>1, <2>2
      <3>4. sent[i + 1] # sent[i] BY <3>3 DEF Fifo
      <3>5. QED BY <2>2, <3>1, <3>2, <3>4, Places
    <2>3. QED BY <1>1, <2>1, <2>2
  <1>5. Chains(First, g)
    <2>1. ASSUME NEW i \in 0..N
          PROVE  g[i] = IF i = 0 THEN IF First = Null THEN <<>> ELSE <<First>> ELSE Grown(g[i - 1])
      <3>1. CASE i = 0
        <4>1. e(0) = L /\ First = sent[L] BY <1>1 DEF First
        <4>2. SubSeq(sent, L, L) = <<sent[L]>> BY <1>1, Slices
        <4>3. sent[L] # Null BY <1>1, <1>4
        <4>4. QED BY <1>1, <3>1, <4>1, <4>2, <4>3
      <3>2. CASE i # 0
        <4> DEFINE b == e(i - 1)
        <4>1. i - 1 \in 0..N /\ b \in L..K
          <5>1. i - 1 \in 0..N BY <1>1, <3>2
          <5>2. QED BY <1>3, <5>1
        <4>2. g[i - 1] = SubSeq(sent, L, b) /\ g[i] = SubSeq(sent, L, e(i)) BY <4>1
        <4>3. /\ SubSeq(sent, L, b) # <<>> /\ Last(SubSeq(sent, L, b)) = sent[b]
              /\ b < K => Append(SubSeq(sent, L, b), sent[b + 1]) = SubSeq(sent, L, b + 1)
          <5> HIDE DEF b, e, L, K
          <5>1. b \in L..Len(sent) /\ L \in 1..Len(sent) BY <1>1, <4>1 DEF K
          <5>2. QED BY <1>1, <5>1, Slices DEF K
        <4>4. /\ sent[b] # Null /\ mem[NextOf(sent[b])] = IF b = K THEN sent[b] ELSE sent[b + 1]
              /\ b < K => sent[b + 1] # sent[b] /\ sent[b + 1] # Null
          BY <1>4, <4>1
        <4>5. e(i) = (IF b < K THEN b + 1 ELSE b) /\ (b < K \/ b = K) BY <1>1, <3>2
        <4> HIDE DEF b, e, L, K, g
        <4>6. CASE b = K
          <5>1. Grown(g[i - 1]) = SubSeq(sent, L, b) BY <4>2, <4>3, <4>4, <4>6 DEF Grown
          <5>2. e(i) = b BY <1>1, <4>5, <4>6
          <5>3. QED BY <3>2, <4>2, <5>1, <5>2
        <4>7. CASE b < K
          <5>1. b # K BY <1>1, <4>1, <4>7
          <5>2. Grown(g[i - 1]) = Append(SubSeq(sent, L, b), sent[b + 1])
            BY <4>2, <4>3, <4>4, <4>7, <5>1 DEF Grown
          <5>3. e(i) = b + 1 BY <4>5, <4>7
          <5>4. QED BY <3>2, <4>2, <4>3, <4>7, <5>2, <5>3
        <4>8. QED BY <4>5, <4>6, <4>7
      <3>3. QED BY <3>1, <3>2
    <2> DEFINE G(i) == IF i = 0 THEN IF First = Null THEN <<>> ELSE <<First>> ELSE Grown(g[i - 1])
    <2>2. g = [i \in 0..N |-> G(i)]
      <3>1. \A i \in 0..N : g[i] = G(i) BY <2>1
      <3>2. g = [i \in 0..N |-> g[i]] OBVIOUS
      <3> HIDE DEF g, G
      <3>3. QED BY <3>1, <3>2
    <2> HIDE DEF g
    <2>3. QED BY <2>2 DEF Chains
  <1>6. g[N] = SubSeq(sent, L, K)
    <2>1. e(N) = K BY <1>1, <1>2
    <2>2. QED BY <1>1, <2>1
  <1>7. Chain(First) = g[N]
    <2> HIDE DEF g
    <2>1. QED BY <1>5, ChainIs
  <1>8. QED BY <1>6, <1>7 DEF InQueue, Queued

\* Between the operations the queue holds the messages sent and not received, and the tail
\* names the last of them: always with one message under way, otherwise if the head names any.
THEOREM QueueIsExact == Spec => []QuietQueue
  <1>1. ASSUME IInv, Quiet, window = 1 \/ InQueue # <<>> PROVE HoldsQueued
    <2> USE DEF IInv
    <2>1. /\ AtTail = Len(sent) /\ ~Holding /\ ~Linking /\ ~Behind /\ pc[Consumer] \in {"idle", "load_head"}
          /\ Len(received) <= Len(sent) /\ Len(sent) \in Nat /\ Len(received) \in Nat
      BY <1>1, Places DEF Quiet, AtTail, Enqueueing, Holding, Linking, Behind
    <2>2. CASE Len(received) = Len(sent)
      <3>1. Queued = <<>>
        BY <2>1, <2>2 DEF Queued, TypeOK
      <3>2. mem[NextOf(HeadNode)] = Null BY <1>1, <2>1, <2>2 DEF Emptied
      <3>3. mem[QueueTail] = HeadNode BY <1>1, <2>1, <2>2 DEF TailNamesLast
      <3>4. QED BY <3>1, <3>2, <3>3, NoChain DEF HoldsQueued, InQueue
    <2>3. CASE Len(received) < Len(sent)
      <3>1. mem[NextOf(HeadNode)] = First
        <4>1. mem[NextOf(HeadNode)] \in {First, Null} BY <1>1, <2>1, <2>3 DEF Waiting
        <4>2. CASE InQueue # <<>> BY <4>1, <4>2, NoChain DEF InQueue
        <4>3. CASE window = 1 BY <1>1, <2>1, <2>3, <4>3 DEF OneAtATime, BeingLinked
        <4>4. QED BY <1>1, <4>2, <4>3
      <3>2. InQueue = Queued BY <1>1, <2>3, <3>1, FullChain
      <3>3. Queued # <<>> /\ Last(Queued) = sent[Len(sent)]
        <4>1. sent \in Seq(Messages) /\ Len(received) + 1 \in 1..Len(sent)
              /\ Len(sent) \in (Len(received) + 1)..Len(sent)
          BY <1>1, <2>1, <2>3 DEF TypeOK
        <4>2. QED BY <4>1, Slices DEF Queued
      <3>4. mem[QueueTail] = sent[Len(sent)] BY <1>1, <2>1, <2>3 DEF TailNamesLast
      <3>5. QED BY <3>2, <3>3, <3>4 DEF HoldsQueued
    <2>4. QED BY <2>1, <2>2, <2>3
  <1>2. IInv => QuietQueue BY <1>1 DEF QuietQueue
  <1>3. QED BY <1>2, Invariance, PTL
=============================================================================
