---------------------------- MODULE SpinLocksProofs ----------------------------
(***************************************************************************)
(* The ticket lock hands its tickets out in order, the queued lock keeps   *)
(* the queue its invariant describes, and both implement the abstract      *)
(* lock, for any set of threads and any number of rounds, of calls of      *)
(* try_lock and of nested locks.                                           *)
(***************************************************************************)
EXTENDS SpinLocks, DataLemmas

\* Stores to cur wait behind those to counter, and only until the thread's next
\* locked instruction.
Buffered ==
  \A t \in Threads :
    /\ storeCounter[t] # TL!NoStore =>
         tpc[t] \in {"load_cur", "store_cur"} \/ storeCur[t] # TL!NoStore
    /\ storeCur[t] # TL!NoStore => tpc[t] \in {"idle", "try_next", "try_cas"}

\* What try_lock has loaded: cur was at most what next was, and both only grow.
TryOrdered ==
  /\ cur <= next
  /\ \A t \in Threads :
       /\ tpc[t] \in {"try_next", "try_cas"} => ticket[t] <= TL!CurSeenBy(t)
       /\ tpc[t] = "try_cas" => ticket[t] <= treg[t] /\ treg[t] <= next

\* What the owner has loaded is still in memory, and it is in a round.
OwnerLoads ==
  \A t \in Threads :
    /\ tpc[t] = "write" => treg[t] = counter
    /\ tpc[t] = "store_cur" => treg[t] = cur
    /\ tpc[t] # "idle" => tleft[t] > 0

TicketIInv == TL!TypeOK /\ Buffered /\ TL!TicketsInOrder /\ TryOrdered /\ OwnerLoads

TicketStep(t) == TL!Flush(t) \/ TL!Run(t) \/ TL!TryLoadCur(t)

USE DEF TL!NoStore, TL!lockVars, TL!bufVars

\* What a step of the program does to the ticket lock.
LEMMA TicketSteps ==
  ASSUME [Next]_vars
  PROVE  (\E t \in Threads : TicketStep(t)) \/ UNCHANGED tvars
  BY DEF Next, vars, Flush, Run, BeginTry, Done, TicketStep

\* The ticket lock's invariant holds at first.
LEMMA InitTicket == Init => TicketIInv
  <1> SUFFICES ASSUME Init PROVE TicketIInv OBVIOUS
  <1> USE DEF Init, TL!Init
  <1>1. TL!TypeOK BY BudgetAssumption DEF TL!TypeOK, TL!Steps
  <1>2. Buffered BY DEF Buffered
  <1>3. \A t \in Threads : ~TL!Queued(t)
    BY DEF TL!Queued, TL!Holds, TL!CriticalSteps
  <1>4. TL!TicketsInOrder BY <1>3 DEF TL!TicketsInOrder, TL!Queued
  <1>5. TryOrdered /\ OwnerLoads BY DEF TryOrdered, OwnerLoads
  <1>6. QED BY <1>1, <1>2, <1>4, <1>5 DEF TicketIInv

\* A step keeps the types of the ticket lock's variables.
LEMMA NextTicketType ==
  ASSUME TicketIInv, [Next]_vars
  PROVE  TL!TypeOK'
  <1> USE DEF TicketIInv, TL!TypeOK, TL!Steps, TL!CriticalSteps, TL!Goto
  <1>1. ASSUME NEW t \in Threads, TL!Flush(t) PROVE TL!TypeOK'
    BY <1>1 DEF TL!Flush, TL!FlushCounter, TL!FlushCur
  <1>2. ASSUME NEW t \in Threads, TL!Lock(t) PROVE TL!TypeOK'
    BY <1>2 DEF TL!Lock, TL!TakeTicket, TL!Spin
  <1>3. ASSUME NEW t \in Threads, TL!TryLoadCur(t) PROVE TL!TypeOK'
    BY <1>3 DEF TL!TryLoadCur, TL!CurSeenBy
  <1>4. ASSUME NEW t \in Threads, TL!TryLock(t) PROVE TL!TypeOK'
    BY <1>4 DEF TL!TryLock, TL!TryLoadNext, TL!TryCas
  <1>5. ASSUME NEW t \in Threads, TL!ReadCounter(t) \/ TL!WriteCounter(t)
        PROVE TL!TypeOK'
    BY <1>5 DEF TL!ReadCounter, TL!WriteCounter
  <1>6. ASSUME NEW t \in Threads, TL!Unlock(t) PROVE TL!TypeOK'
    BY <1>6 DEF TL!Unlock, TL!LoadCur, TL!StoreCur, TL!CurSeenBy, OwnerLoads
  <1>7. CASE UNCHANGED tvars BY <1>7 DEF tvars
  <1>8. QED
    BY TicketSteps, <1>1, <1>2, <1>3, <1>4, <1>5, <1>6, <1>7 DEF TicketStep, TL!Run

\* A step keeps what can be in a thread's store buffer with a ticket lock.
LEMMA NextBuffered ==
  ASSUME TicketIInv, [Next]_vars
  PROVE  Buffered'
  <1> USE DEF TicketIInv, TL!TypeOK, Buffered, TL!Goto
  <1>1. ASSUME NEW t \in Threads, TL!Flush(t) PROVE Buffered'
    BY <1>1 DEF TL!Flush, TL!FlushCounter, TL!FlushCur
  <1>2. ASSUME NEW t \in Threads, TL!Lock(t) PROVE Buffered'
    BY <1>2 DEF TL!Lock, TL!TakeTicket, TL!Spin, TL!Drained
  <1>3. ASSUME NEW t \in Threads, TL!TryLoadCur(t) PROVE Buffered'
    BY <1>3 DEF TL!TryLoadCur
  <1>4. ASSUME NEW t \in Threads, TL!TryLock(t) PROVE Buffered'
    BY <1>4 DEF TL!TryLock, TL!TryLoadNext, TL!TryCas, TL!Drained
  <1>5. ASSUME NEW t \in Threads, TL!ReadCounter(t) \/ TL!WriteCounter(t)
        PROVE Buffered'
    BY <1>5 DEF TL!ReadCounter, TL!WriteCounter
  <1>6. ASSUME NEW t \in Threads, TL!Unlock(t) PROVE Buffered'
    BY <1>6 DEF TL!Unlock, TL!LoadCur, TL!StoreCur
  <1>7. CASE UNCHANGED tvars BY <1>7 DEF tvars
  <1>8. QED
    BY TicketSteps, <1>1, <1>2, <1>3, <1>4, <1>5, <1>6, <1>7 DEF TicketStep, TL!Run

\* TicketsInOrder, one thread at a time.
InOrderMeaning ==
  /\ \A t, u \in Threads :
       TL!Queued(t) /\ TL!Queued(u) /\ t # u => TL!TicketOf(t) # TL!TicketOf(u)
  /\ \A t \in Threads : TL!Queued(t) => TL!TicketOf(t) \in cur..(next - 1)
  /\ \A n \in cur..(next - 1) : \E t \in Threads : TL!Queued(t) /\ TL!TicketOf(t) = n
  /\ \A t \in Threads : TL!Holds(t) => TL!TicketOf(t) = cur

\* The order of the tickets, thread by thread; the form the steps are shown for.
LEMMA InOrder == TL!TicketsInOrder <=> InOrderMeaning
  <1> DEFINE Queue   == {u \in Threads : TL!Queued(u)}
             Tickets == {TL!TicketOf(t) : t \in Queue}
  <1>1. (Tickets = cur..(next - 1)) <=>
          /\ \A t \in Threads : TL!Queued(t) => TL!TicketOf(t) \in cur..(next - 1)
          /\ \A n \in cur..(next - 1) :
               \E t \in Threads : TL!Queued(t) /\ TL!TicketOf(t) = n
    OBVIOUS
  <1>2. QED BY <1>1 DEF TL!TicketsInOrder, InOrderMeaning

\* The same of the next state.
LEMMA InOrderNext == TL!TicketsInOrder' <=> InOrderMeaning'
  BY InOrder, PTL

\* A step that lets nobody join or leave the queue.
LEMMA SameQueue ==
  ASSUME InOrderMeaning, UNCHANGED <<cur, next>>,
         \A t \in Threads : /\ TL!Queued(t)' <=> TL!Queued(t)
                            /\ TL!Holds(t)' => TL!Holds(t) \/ TL!TicketOf(t)' = cur
                            /\ TL!Queued(t) => TL!TicketOf(t)' = TL!TicketOf(t)
  PROVE  InOrderMeaning'
  BY DEF InOrderMeaning, TL!Queued

\* A step keeps the tickets in order.
LEMMA NextInOrder ==
  ASSUME TicketIInv, [Next]_vars
  PROVE  TL!TicketsInOrder'
  <1> SUFFICES InOrderMeaning' BY InOrderNext
  <1> InOrderMeaning BY InOrder DEF TicketIInv
  <1> USE DEF TicketIInv, TL!TypeOK, Buffered, TL!Goto
  <1>1. ASSUME NEW t \in Threads, TL!FlushCounter(t) PROVE InOrderMeaning'
    BY <1>1, SameQueue DEF TL!FlushCounter, TL!Queued, TL!Holds, TL!TicketOf
  <1>2. ASSUME NEW t \in Threads, TL!FlushCur(t) PROVE InOrderMeaning'
    <2>1. TL!Holds(t) /\ TL!TicketOf(t) = cur /\ cur' = cur + 1 /\ next' = next
      BY <1>2 DEF TL!FlushCur, InOrderMeaning, TL!Holds, TL!TicketOf
    <2>2. ~TL!Queued(t)' /\ ~TL!Holds(t)'
      BY <1>2 DEF TL!FlushCur, TL!Queued, TL!Holds, TL!CriticalSteps
    <2>3. \A u \in Threads \ {t} : /\ TL!Queued(u)' <=> TL!Queued(u)
                                   /\ TL!Holds(u)' <=> TL!Holds(u)
                                   /\ TL!TicketOf(u)' = TL!TicketOf(u)
      BY <1>2 DEF TL!FlushCur, TL!Queued, TL!Holds, TL!TicketOf
    <2>4. \A u \in Threads \ {t} : ~TL!Holds(u)
      BY <2>1 DEF InOrderMeaning, TL!Queued
    <2>5. QED BY <2>1, <2>2, <2>3, <2>4 DEF InOrderMeaning, TL!Queued
  <1>3. ASSUME NEW t \in Threads, TL!TakeTicket(t) PROVE InOrderMeaning'
    <2>1. TL!Queued(t)' /\ ~TL!Holds(t)' /\ TL!TicketOf(t)' = next /\ ~TL!Queued(t)
      BY <1>3 DEF TL!TakeTicket, TL!Drained, TL!Queued, TL!Holds, TL!TicketOf,
                  TL!CriticalSteps
    <2>2. \A u \in Threads \ {t} : /\ TL!Queued(u)' <=> TL!Queued(u)
                                   /\ TL!Holds(u)' <=> TL!Holds(u)
                                   /\ TL!TicketOf(u)' = TL!TicketOf(u)
      BY <1>3 DEF TL!TakeTicket, TL!Queued, TL!Holds, TL!TicketOf
    <2>3. next' = next + 1 /\ cur' = cur /\ cur <= next
      BY <1>3 DEF TL!TakeTicket, TryOrdered
    <2>4. \A u \in Threads : TL!Queued(u) => TL!TicketOf(u) \in cur..(next - 1)
      BY DEF InOrderMeaning
    <2>5. \A n \in cur'..(next' - 1) :
            \E u \in Threads : TL!Queued(u)' /\ TL!TicketOf(u)' = n
      <3> SUFFICES ASSUME NEW n \in cur'..(next' - 1)
                   PROVE  \E u \in Threads : TL!Queued(u)' /\ TL!TicketOf(u)' = n
        OBVIOUS
      <3>1. CASE n = next BY <2>1, <3>1
      <3>2. CASE n # next
        <4>1. PICK u \in Threads : TL!Queued(u) /\ TL!TicketOf(u) = n
          BY <2>3, <3>2 DEF InOrderMeaning
        <4>2. QED BY <2>1, <2>2, <4>1
      <3>3. QED BY <3>1, <3>2
    <2>6. QED BY <2>1, <2>2, <2>3, <2>4, <2>5 DEF InOrderMeaning
  <1>4. ASSUME NEW t \in Threads, TL!Spin(t) PROVE InOrderMeaning'
    <2>1. TL!TicketOf(t)' = cur
      BY <1>4 DEF TL!Spin, TL!CurSeenBy, TL!TicketOf
    <2>2. QED
      BY <1>4, <2>1, SameQueue
      DEF TL!Spin, TL!Queued, TL!Holds, TL!TicketOf, TL!CriticalSteps
  <1>5. ASSUME NEW t \in Threads, TL!TryLoadCur(t) \/ TL!TryLoadNext(t)
        PROVE InOrderMeaning'
    BY <1>5, SameQueue DEF TL!TryLoadCur, TL!TryLoadNext, TL!Queued, TL!Holds,
         TL!TicketOf, TL!CriticalSteps
  <1>6. ASSUME NEW t \in Threads, TL!TryCas(t) PROVE InOrderMeaning'
    <2>1. CASE next = ticket[t]
      <3>1. cur = next /\ next' = next + 1 /\ cur' = cur
        BY <1>6, <2>1 DEF TL!TryCas, TL!Drained, TL!CurSeenBy, TryOrdered
      <3>2. \A u \in Threads : ~TL!Queued(u)
        BY <3>1 DEF InOrderMeaning
      <3>3. TL!Queued(t)' /\ TL!TicketOf(t)' = cur
        BY <1>6, <2>1, <3>1 DEF TL!TryCas, TL!Drained, TL!Queued, TL!Holds,
             TL!TicketOf, TL!CriticalSteps
      <3>4. \A u \in Threads \ {t} : ~TL!Queued(u)' /\ ~TL!Holds(u)'
        BY <1>6, <2>1, <3>2 DEF TL!TryCas, TL!Queued, TL!Holds
      <3>5. QED BY <3>1, <3>3, <3>4 DEF InOrderMeaning
    <2>2. CASE next # ticket[t]
      BY <1>6, <2>2, SameQueue DEF TL!TryCas, TL!Drained, TL!Queued, TL!Holds,
           TL!TicketOf, TL!CriticalSteps
    <2>3. QED BY <2>1, <2>2
  <1>7. ASSUME NEW t \in Threads,
               TL!ReadCounter(t) \/ TL!WriteCounter(t) \/ TL!LoadCur(t)
        PROVE InOrderMeaning'
    BY <1>7, SameQueue DEF TL!ReadCounter, TL!WriteCounter, TL!LoadCur, TL!Queued,
         TL!Holds, TL!TicketOf, TL!CriticalSteps
  <1>8. ASSUME NEW t \in Threads, TL!StoreCur(t) PROVE InOrderMeaning'
    <2>1. TL!Holds(t) /\ TL!TicketOf(t) = cur /\ storeCur'[t] = cur + 1
      BY <1>8 DEF TL!StoreCur, TL!Holds, TL!CriticalSteps, InOrderMeaning, OwnerLoads
    <2>2. TL!Holds(t)' /\ TL!TicketOf(t)' = cur
      BY <2>1 DEF TL!Holds, TL!TicketOf
    <2>3. QED BY <1>8, <2>1, <2>2, SameQueue DEF TL!StoreCur, TL!Queued, TL!Holds,
               TL!TicketOf
  <1>9. CASE UNCHANGED tvars
    BY <1>9, SameQueue DEF tvars, TL!Queued, TL!Holds, TL!TicketOf
  <1>10. QED
    BY TicketSteps, <1>1, <1>2, <1>3, <1>4, <1>5, <1>6, <1>7, <1>8, <1>9
    DEF TicketStep, TL!Flush, TL!Run, TL!Lock, TL!TryLock, TL!Unlock

\* A step keeps what try_lock has loaded behind cur and next.
LEMMA NextTryOrdered ==
  ASSUME TicketIInv, [Next]_vars
  PROVE  TryOrdered'
  <1> InOrderMeaning BY InOrder DEF TicketIInv
  <1> USE DEF TicketIInv, TL!TypeOK, TL!Goto, TryOrdered
  <1>0. \A t \in Threads : storeCur[t] # TL!NoStore => storeCur[t] = cur + 1 /\ cur < next
    BY DEF InOrderMeaning, TL!Holds, TL!Queued, TL!TicketOf
  <1> USE DEF TL!CurSeenBy, Buffered
  <1>1. ASSUME NEW t \in Threads, TL!FlushCounter(t) PROVE TryOrdered'
    BY <1>1 DEF TL!FlushCounter
  <1>2. ASSUME NEW t \in Threads, TL!FlushCur(t) PROVE TryOrdered'
    BY <1>0, <1>2 DEF TL!FlushCur
  <1>3. ASSUME NEW t \in Threads, TL!Lock(t) PROVE TryOrdered'
    BY <1>3 DEF TL!Lock, TL!TakeTicket, TL!Spin
  <1>4. ASSUME NEW t \in Threads, TL!TryLoadCur(t) PROVE TryOrdered'
    BY <1>4 DEF TL!TryLoadCur
  <1>5. ASSUME NEW t \in Threads, TL!TryLoadNext(t) PROVE TryOrdered'
    BY <1>0, <1>5 DEF TL!TryLoadNext
  <1>6. ASSUME NEW t \in Threads, TL!TryCas(t) PROVE TryOrdered'
    BY <1>6 DEF TL!TryCas
  <1>7. ASSUME NEW t \in Threads,
               TL!ReadCounter(t) \/ TL!WriteCounter(t) \/ TL!LoadCur(t)
        PROVE TryOrdered'
    BY <1>7 DEF TL!ReadCounter, TL!WriteCounter, TL!LoadCur
  <1>8. ASSUME NEW t \in Threads, TL!StoreCur(t) PROVE TryOrdered'
    BY <1>8 DEF TL!StoreCur
  <1>9. CASE UNCHANGED tvars BY <1>9 DEF tvars
  <1>10. QED
    BY TicketSteps, <1>1, <1>2, <1>3, <1>4, <1>5, <1>6, <1>7, <1>8, <1>9
    DEF TicketStep, TL!Flush, TL!Run, TL!Lock, TL!TryLock, TL!Unlock

\* Nobody but the owner writes to the counter and to cur.
LEMMA OneHolder ==
  ASSUME TicketIInv, NEW t \in Threads, NEW u \in Threads, TL!Holds(t), TL!Holds(u)
  PROVE  t = u
  BY InOrder DEF TicketIInv, InOrderMeaning, TL!Queued

\* A step keeps what the owner has loaded equal to memory.
LEMMA NextOwnerLoads ==
  ASSUME TicketIInv, [Next]_vars
  PROVE  OwnerLoads'
  <1> USE DEF TicketIInv, TL!TypeOK, TL!Goto, OwnerLoads, Buffered
  <1>0. \A t \in Threads : tpc[t] \in TL!CriticalSteps => storeCur[t] = TL!NoStore
    BY DEF TL!CriticalSteps
  <1>1. ASSUME NEW t \in Threads, TL!FlushCounter(t) PROVE OwnerLoads'
    <2>1. TL!Holds(t) BY <1>1 DEF TL!FlushCounter, TL!Holds, TL!CriticalSteps
    <2>2. \A u \in Threads : tpc[u] # "write"
      BY <1>1, <2>1, OneHolder DEF TL!FlushCounter, TL!Holds, TL!CriticalSteps
    <2>3. QED BY <1>1, <2>2 DEF TL!FlushCounter
  <1>2. ASSUME NEW t \in Threads, TL!FlushCur(t) PROVE OwnerLoads'
    <2>1. TL!Holds(t) BY <1>2 DEF TL!FlushCur, TL!Holds
    <2>2. \A u \in Threads : tpc[u] # "store_cur"
      BY <1>2, <2>1, OneHolder DEF TL!FlushCur, TL!Holds, TL!CriticalSteps
    <2>3. QED BY <1>2, <2>2 DEF TL!FlushCur
  <1>3. ASSUME NEW t \in Threads, TL!Lock(t) PROVE OwnerLoads'
    BY <1>3 DEF TL!Lock, TL!TakeTicket, TL!Spin
  <1>4. ASSUME NEW t \in Threads, TL!TryLoadCur(t) PROVE OwnerLoads'
    BY <1>4 DEF TL!TryLoadCur
  <1>5. ASSUME NEW t \in Threads, TL!TryLock(t) PROVE OwnerLoads'
    BY <1>5 DEF TL!TryLock, TL!TryLoadNext, TL!TryCas
  <1>6. ASSUME NEW t \in Threads, TL!ReadCounter(t) \/ TL!WriteCounter(t)
        PROVE OwnerLoads'
    BY <1>6 DEF TL!ReadCounter, TL!WriteCounter
  <1>7. ASSUME NEW t \in Threads, TL!LoadCur(t) PROVE OwnerLoads'
    BY <1>0, <1>7 DEF TL!LoadCur, TL!CurSeenBy, TL!CriticalSteps
  <1>8. ASSUME NEW t \in Threads, TL!StoreCur(t) PROVE OwnerLoads'
    BY <1>8 DEF TL!StoreCur
  <1>9. CASE UNCHANGED tvars BY <1>9 DEF tvars
  <1>10. QED
    BY TicketSteps, <1>1, <1>2, <1>3, <1>4, <1>5, <1>6, <1>7, <1>8, <1>9
    DEF TicketStep, TL!Flush, TL!Run, TL!Unlock

\* The invariant of the ticket lock in every reachable state.
THEOREM TicketInvariance == Spec => []TicketIInv
  <1>1. TicketIInv /\ [Next]_vars => TicketIInv'
    BY NextTicketType, NextBuffered, NextInOrder, NextTryOrdered, NextOwnerLoads
    DEF TicketIInv
  <1>2. QED BY InitTicket, <1>1, PTL DEF Spec

\* The tickets from cur up to next belong to one waiting thread each, and the
\* owner has the first, although try_lock takes a ticket that it guessed from
\* two separate loads and unlock's store to cur arrives late.
THEOREM TicketOrder == Spec => []TicketsInOrder
  <1>1. TicketIInv => TicketsInOrder BY DEF TicketIInv, TicketsInOrder
  <1>2. QED BY TicketInvariance, <1>1, PTL
-----------------------------------------------------------------------------
\* Threads queue for the outermost lock only, with the first of their nodes; what
\* is in that node.
Node(t)      == <<t, 1>>
Successor(t) == mem[QL!NextOf(Node(t))]
Marked(t)    == mem[QL!LockedOf(Node(t))]
TailAt(k)    == mem[QL!TailOf(Order[k])]
Count        == mem[QL!Counter]

MarkStore(u)    == <<QL!LockedOf(Node(u)), TRUE>>
LinkStore(u, p) == <<QL!NextOf(Node(p)), Node(u)>>
HandStore(u)    == <<QL!LockedOf(Node(u)), FALSE>>
ClearStore(t)   == <<QL!NextOf(Node(t)), NoNode>>
CountStore(n)   == <<QL!Counter, n>>

Elements(s) == {s[i] : i \in 1..Len(s)}
Stores(t)   == Elements(buf[t])

\* Where a thread stands in the queue: behind another one, or it has the lock or
\* is being handed it.
Waits(t)   == qpc[t] \in {"set_locked", "link", "spin"}
InQueue(t) == depth[t] > 0 \/ Waits(t)
Linked(u)  == qpc[u] = "spin" /\ buf[u] = <<>>
Behind(u, p) == \/ qpc[u] \in {"set_locked", "link"} /\ other[u] = Node(p)
                \/ qpc[u] = "spin" /\ LinkStore(u, p) \in Stores(u)
                \/ Linked(u) /\ InQueue(p) /\ Successor(p) = Node(u)
HandedBy(u, t) == HandStore(u) \in Stores(t)
Handed(u)  == Linked(u) /\ (~Marked(u) \/ \E t \in Threads : HandedBy(u, t))
First(u)   == depth[u] > 0 \/ Handed(u)

Locations == {QL!TailOf(l) : l \in QL!Locks} \cup {QL!NextOf(n) : n \in QL!Nodes}
               \cup {QL!LockedOf(n) : n \in QL!Nodes} \cup {QL!Counter}

Shapes == mem = [loc \in Locations |-> mem[loc]] /\ buf = [t \in Threads |-> buf[t]]

Types == /\ \A l \in QL!Locks : mem[QL!TailOf(l)] \in QL!Nodes \cup {NoNode}
         /\ \A n \in QL!Nodes : /\ mem[QL!NextOf(n)] \in QL!Nodes \cup {NoNode}
                                /\ mem[QL!LockedOf(n)] \in BOOLEAN
         /\ Count \in Nat
         /\ qpc \in [Threads -> QL!Steps]
         /\ depth \in [Threads -> 0..Len(Order)]
         /\ lock \in [QL!Nodes -> QL!Locks \cup {NoLock}]
         /\ node \in [Threads -> QL!Nodes \cup {NoNode}]
         /\ other \in [Threads -> QL!Nodes \cup {NoNode}]
         /\ qreg \in [Threads -> Nat]
         /\ qleft \in [Threads -> Nat]

\* What each thread is about to do tells which locks it has, the node it works on, ...
Freed(t) == qpc[t] \in {"cas_tail", "wait_next", "hand_over"}
Held(t)  == IF Freed(t) THEN depth[t] - 1 ELSE depth[t]

DepthOf(t) ==
  /\ Waits(t) \/ qpc[t] \in {"idle", "clear_next"} => depth[t] = 0
  /\ qpc[t] = "exchange" => depth[t] < Len(Order)
  /\ qpc[t] \in {"read", "write"} => depth[t] = Len(Order)
  /\ qpc[t] \in {"load_next", "cas_tail"} => depth[t] > 0
  /\ qpc[t] \in {"wait_next", "hand_over"} => depth[t] = 1
  /\ qpc[t] # "idle" => qleft[t] > 0

NodeOf(t) ==
  node[t] = IF Waits(t) \/ qpc[t] = "clear_next" THEN Node(t)
            ELSE IF Freed(t) THEN <<t, depth[t]>> ELSE NoNode

\* ... that the nodes of its locks are its first ones, in their order, ...
LocksOf(t) == \A i \in 1..MaxNested :
                lock[<<t, i>>] = IF i <= Held(t) THEN Order[i] ELSE NoLock

\* ... and which stores can be pending, in which order.
LinkBuffers(t)  == {<<>>} \cup {<<LinkStore(t, p)>> : p \in Threads}
                     \cup {<<MarkStore(t), LinkStore(t, p)>> : p \in Threads}
CountBuffers    == {<<>>} \cup {<<CountStore(n)>> : n \in Nat}
HandBuffers     == {<<>>} \cup {<<HandStore(u)>> : u \in Threads}
                     \cup {<<CountStore(n), HandStore(u)>> : n \in Nat, u \in Threads}
ClearBuffers(t) == {<<>>, <<ClearStore(t)>>}
                     \cup {<<HandStore(u), ClearStore(t)>> : u \in Threads}
                     \cup {<<CountStore(n), HandStore(u), ClearStore(t)>> : n \in Nat, u \in Threads}

BufferOf(t) ==
  /\ qpc[t] \in {"set_locked", "read", "write", "wait_next"} => buf[t] = <<>>
  /\ qpc[t] = "link" => buf[t] \in {<<>>, <<MarkStore(t)>>}
  /\ qpc[t] = "spin" => buf[t] \in LinkBuffers(t)
  /\ qpc[t] \in {"load_next", "cas_tail", "hand_over"} => buf[t] \in CountBuffers
  /\ qpc[t] = "clear_next" => buf[t] \in HandBuffers
  /\ qpc[t] = "idle" => buf[t] \in ClearBuffers(t)
  /\ qpc[t] = "exchange" => IF depth[t] = 0 THEN buf[t] \in ClearBuffers(t) ELSE buf[t] = <<>>

Local(t) == DepthOf(t) /\ NodeOf(t) /\ LocksOf(t) /\ BufferOf(t)

\* Only the owner of the outermost lock takes the others.
InnerLocks ==
  /\ \A k \in 2..Len(Order) :
       /\ \A t \in Threads : depth[t] >= k => TailAt(k) = <<t, k>>
       /\ TailAt(k) # NoNode => \E t \in Threads : depth[t] >= k
  /\ \A t \in Threads : \A k \in 2..MaxNested : mem[QL!NextOf(<<t, k>>)] = NoNode

\* A thread in the queue is marked until the lock is handed to it, by one thread.
MarkOf(u) ==
  /\ qpc[u] = "link" /\ buf[u] = <<>> => Marked(u)
  /\ qpc[u] = "spin" /\ buf[u] # <<>> /\ MarkStore(u) \notin Stores(u) => Marked(u)
  /\ \A t \in Threads : HandedBy(u, t) => Linked(u) /\ Marked(u)
  /\ \A t, s \in Threads : HandedBy(u, t) /\ HandedBy(u, s) => s = t

\* A thread in the queue names the one behind it once that one has linked itself; a
\* thread that is not names none.
SuccessorOf(p) ==
  /\ InQueue(p) /\ Successor(p) # NoNode =>
       \E u \in Threads : Successor(p) = Node(u) /\ Linked(u)
  /\ ~InQueue(p) /\ qpc[p] # "clear_next" /\ buf[p] = <<>> => Successor(p) = NoNode
  /\ qpc[p] \in {"set_locked", "link"} => \E q \in Threads : Behind(p, q)
  /\ qpc[p] = "hand_over" => other[p] # NoNode /\ other[p] = Successor(p)

LoadedBy(t) == qpc[t] = "write" => qreg[t] = Count

\* Each thread in the queue is behind another one, or the first; the tail is the last.
Queue ==
  /\ \A u, p, q \in Threads : Behind(u, p) /\ Behind(u, q) => p = q
  /\ \A u, v, p \in Threads : Behind(u, p) /\ Behind(v, p) => u = v
  /\ \A u, p \in Threads : Behind(u, p) => InQueue(p) /\ ~First(u)
  /\ \A u, v \in Threads : First(u) /\ First(v) => u = v

QueueTail ==
  /\ TailAt(1) = NoNode => \A u \in Threads : ~First(u)
  /\ TailAt(1) # NoNode => \E p \in Threads : /\ TailAt(1) = Node(p) /\ InQueue(p)
                                              /\ \A u \in Threads : ~Behind(u, p)

QueuedIInv == /\ Types /\ Shapes /\ InnerLocks /\ Queue /\ QueueTail
              /\ \A t \in Threads : Local(t) /\ MarkOf(t) /\ SuccessorOf(t) /\ LoadedBy(t)
-----------------------------------------------------------------------------
(* Locations, writes to memory and pending stores. *)

\* The tails, nexts, marks and the counter are different locations.
LEMMA QueuedLocations ==
  /\ \A a, b : QL!TailOf(a) = QL!TailOf(b) => a = b
  /\ \A a, b : QL!NextOf(a) = QL!NextOf(b) => a = b
  /\ \A a, b : QL!LockedOf(a) = QL!LockedOf(b) => a = b
  /\ \A a, b : QL!TailOf(a) # QL!NextOf(b) /\ QL!TailOf(a) # QL!LockedOf(b)
               /\ QL!NextOf(a) # QL!LockedOf(b)
  /\ \A a : QL!TailOf(a) # QL!Counter /\ QL!NextOf(a) # QL!Counter /\ QL!LockedOf(a) # QL!Counter
  BY DEF QL!TailOf, QL!NextOf, QL!LockedOf, QL!Counter

\* The locks and the nodes the threads use are those of the memory.
LEMMA QueuedPlaces ==
  /\ Len(Order) \in Nat /\ 1 <= Len(Order) /\ Len(Order) <= MaxNested /\ MaxNested \in Nat
  /\ \A k \in 1..Len(Order) : Order[k] \in QL!Locks /\ Order[k] # NoLock
                              /\ QL!TailOf(Order[k]) \in Locations
  /\ \A k, j \in 1..Len(Order) : Order[k] = Order[j] => k = j
  /\ \A t \in Threads : \A k \in 1..MaxNested :
       /\ <<t, k>> \in QL!Nodes /\ <<t, k>> # NoNode
       /\ QL!NextOf(<<t, k>>) \in Locations /\ QL!LockedOf(<<t, k>>) \in Locations
  /\ \A t \in Threads : Node(t) \in QL!Nodes /\ Node(t) # NoNode
                        /\ QL!NextOf(Node(t)) \in Locations /\ QL!LockedOf(Node(t)) \in Locations
  /\ \A t, u : Node(t) = Node(u) => t = u
  /\ QL!Counter \in Locations
  <1>1. /\ Len(Order) \in Nat /\ 1 <= Len(Order) /\ Len(Order) <= MaxNested /\ MaxNested \in Nat
        /\ DOMAIN Order = 1..Len(Order)
    BY NestingAssumption
  <1>2. \A k \in 1..Len(Order) : Order[k] \in QL!Locks BY <1>1 DEF QL!Locks
  <1>3. \A k \in 1..Len(Order) : Order[k] # NoLock BY <1>1, NestingAssumption
  <1>4. \A k, j \in 1..Len(Order) : Order[k] = Order[j] => k = j BY <1>1, NestingAssumption
  <1>5. \A t \in Threads : \A k \in 1..MaxNested : <<t, k>> \in QL!Nodes /\ <<t, k>> # NoNode
    BY NestingAssumption DEF QL!Nodes
  <1>6. 1 \in 1..MaxNested BY <1>1
  <1>7. \A t, u : Node(t) = Node(u) => t = u BY DEF Node
  <1>8. QED BY <1>1, <1>2, <1>3, <1>4, <1>5, <1>6, <1>7 DEF Node, Locations

\* What a write to memory changes of what the invariant speaks of.
LEMMA WriteAt ==
  ASSUME Shapes, NEW loc \in Locations, NEW v, mem' = [mem EXCEPT ![loc] = v]
  PROVE  /\ mem' = [x \in Locations |-> mem'[x]] /\ DOMAIN mem = Locations
         /\ \A x \in Locations : mem'[x] = IF x = loc THEN v ELSE mem[x]
  <1>1. DOMAIN mem = Locations BY DEF Shapes
  <1>2. QED BY <1>1

\* The parts of memory, apart.
SameTails(w)   == \A k \in 1..Len(Order) : k # w => TailAt(k)' = TailAt(k)
SameNexts      == \A n \in QL!Nodes : mem'[QL!NextOf(n)] = mem[QL!NextOf(n)]
SameLockeds    == \A n \in QL!Nodes : mem'[QL!LockedOf(n)] = mem[QL!LockedOf(n)]

\* What a write to a lock's tail leaves alone.
LEMMA WriteTail ==
  ASSUME Shapes, NEW k \in 1..Len(Order), NEW v, mem' = [mem EXCEPT ![QL!TailOf(Order[k])] = v]
  PROVE  /\ mem' = [x \in Locations |-> mem'[x]]
         /\ SameTails(k) /\ TailAt(k)' = v /\ SameNexts /\ SameLockeds /\ Count' = Count
  <1>1. QL!TailOf(Order[k]) \in Locations BY QueuedPlaces
  <1>2. \A x \in Locations : mem'[x] = IF x = QL!TailOf(Order[k]) THEN v ELSE mem[x]
    BY <1>1, WriteAt
  <1>3. \A n \in QL!Nodes : QL!NextOf(n) \in Locations /\ QL!LockedOf(n) \in Locations
    BY DEF Locations
  <1>4. QL!Counter \in Locations BY QueuedPlaces
  <1>5. SameNexts /\ SameLockeds BY <1>2, <1>3, QueuedLocations DEF SameNexts, SameLockeds
  <1>6. Count' = Count BY <1>2, <1>4, QueuedLocations DEF Count
  <1>7. SameTails(k) /\ TailAt(k)' = v
    BY <1>1, <1>2, QueuedLocations, QueuedPlaces DEF SameTails, TailAt
  <1>8. QED BY <1>1, <1>5, <1>6, <1>7, WriteAt

\* What a write to the next of a thread's first node leaves alone.
LEMMA WriteNext ==
  ASSUME Shapes, NEW p \in Threads, NEW v, mem' = [mem EXCEPT ![QL!NextOf(Node(p))] = v]
  PROVE  /\ mem' = [x \in Locations |-> mem'[x]]
         /\ SameTails(0) /\ SameLockeds /\ Count' = Count
         /\ \A n \in QL!Nodes : mem'[QL!NextOf(n)] = IF n = Node(p) THEN v ELSE mem[QL!NextOf(n)]
         /\ \A u \in Threads : Successor(u)' = IF u = p THEN v ELSE Successor(u)
  <1>1. QL!NextOf(Node(p)) \in Locations BY QueuedPlaces
  <1>2. \A x \in Locations : mem'[x] = IF x = QL!NextOf(Node(p)) THEN v ELSE mem[x]
    BY <1>1, WriteAt
  <1>3. \A n \in QL!Nodes : QL!NextOf(n) \in Locations /\ QL!LockedOf(n) \in Locations
    BY DEF Locations
  <1>4. QL!Counter \in Locations BY QueuedPlaces
  <1>5. SameLockeds BY <1>2, <1>3, QueuedLocations DEF SameLockeds
  <1>6. Count' = Count BY <1>2, <1>4, QueuedLocations DEF Count
  <1>7. SameTails(0) BY <1>2, QueuedLocations, QueuedPlaces DEF SameTails, TailAt
  <1>8. \A n \in QL!Nodes : mem'[QL!NextOf(n)] = IF n = Node(p) THEN v ELSE mem[QL!NextOf(n)]
    BY <1>2, <1>3, QueuedLocations
  <1>9. \A u \in Threads : Successor(u)' = IF u = p THEN v ELSE Successor(u)
    BY <1>8, QueuedPlaces DEF Successor
  <1>10. QED BY <1>1, <1>5, <1>6, <1>7, <1>8, <1>9, WriteAt

\* What a write to the mark of a thread's first node leaves alone.
LEMMA WriteMark ==
  ASSUME Shapes, NEW p \in Threads, NEW v, mem' = [mem EXCEPT ![QL!LockedOf(Node(p))] = v]
  PROVE  /\ mem' = [x \in Locations |-> mem'[x]]
         /\ SameTails(0) /\ SameNexts /\ Count' = Count
         /\ \A n \in QL!Nodes :
              mem'[QL!LockedOf(n)] = IF n = Node(p) THEN v ELSE mem[QL!LockedOf(n)]
         /\ \A u \in Threads : Marked(u)' = IF u = p THEN v ELSE Marked(u)
  <1>1. QL!LockedOf(Node(p)) \in Locations BY QueuedPlaces
  <1>2. \A x \in Locations : mem'[x] = IF x = QL!LockedOf(Node(p)) THEN v ELSE mem[x]
    BY <1>1, WriteAt
  <1>3. \A n \in QL!Nodes : QL!NextOf(n) \in Locations /\ QL!LockedOf(n) \in Locations
    BY DEF Locations
  <1>4. QL!Counter \in Locations BY QueuedPlaces
  <1>5. SameNexts BY <1>2, <1>3, QueuedLocations DEF SameNexts
  <1>6. Count' = Count BY <1>2, <1>4, QueuedLocations DEF Count
  <1>7. SameTails(0) BY <1>2, QueuedLocations, QueuedPlaces DEF SameTails, TailAt
  <1>8. \A n \in QL!Nodes :
          mem'[QL!LockedOf(n)] = IF n = Node(p) THEN v ELSE mem[QL!LockedOf(n)]
    BY <1>2, <1>3, QueuedLocations
  <1>9. \A u \in Threads : Marked(u)' = IF u = p THEN v ELSE Marked(u)
    BY <1>8, QueuedPlaces DEF Marked
  <1>10. QED BY <1>1, <1>5, <1>6, <1>7, <1>8, <1>9, WriteAt

\* What a write to the counter leaves alone.
LEMMA WriteCount ==
  ASSUME Shapes, NEW v, mem' = [mem EXCEPT ![QL!Counter] = v]
  PROVE  /\ mem' = [x \in Locations |-> mem'[x]]
         /\ SameTails(0) /\ SameNexts /\ SameLockeds /\ Count' = v
  <1>1. QL!Counter \in Locations BY QueuedPlaces
  <1>2. \A x \in Locations : mem'[x] = IF x = QL!Counter THEN v ELSE mem[x] BY <1>1, WriteAt
  <1>3. \A n \in QL!Nodes : QL!NextOf(n) \in Locations /\ QL!LockedOf(n) \in Locations
    BY DEF Locations
  <1>4. SameNexts /\ SameLockeds BY <1>2, <1>3, QueuedLocations DEF SameNexts, SameLockeds
  <1>5. Count' = v BY <1>1, <1>2 DEF Count
  <1>6. SameTails(0) BY <1>2, QueuedLocations, QueuedPlaces DEF SameTails, TailAt
  <1>7. QED BY <1>1, <1>4, <1>5, <1>6, WriteAt
-----------------------------------------------------------------------------
(* Pending stores. *)

\* A store buffer of three stores.
LEMMA StoreThird ==
  ASSUME NEW x, NEW y, NEW z
  PROVE  Append(<<x, y>>, z) = <<x, y, z>> /\ Elements(<<x, y, z>>) = {x, y, z}
  <1>1. Append(<<x, y>>, z) = <<x, y, z>>
    <2> DEFINE S == {x, y, z}  a == <<x, y>>  b == <<x, y, z>>
    <2>1. a \in Seq(S) /\ Len(a) = 2 /\ a[1] = x /\ a[2] = y OBVIOUS
    <2>2. b \in Seq(S) /\ Len(b) = 3 /\ b[1] = x /\ b[2] = y /\ b[3] = z OBVIOUS
    <2>3. z \in S OBVIOUS
    <2> HIDE DEF S, a, b
    <2>4. PICK c : c = Append(a, z) OBVIOUS
    <2>5. c \in Seq(S) /\ Len(c) = Len(a) + 1
      <3>1. Append(a, z) \in Seq(S) BY <2>1, <2>3, AppendProperties
      <3>2. Len(Append(a, z)) = Len(a) + 1 BY <2>1, <2>3, AppendProperties, ZenonT(40)
      <3>3. QED BY <2>4, <3>1, <3>2
    <2>6. c[Len(a) + 1] = z BY <2>1, <2>3, <2>4, AppendProperties
    <2>7. \A i \in 1..Len(a) : c[i] = a[i] BY <2>1, <2>3, <2>4, AppendProperties
    <2>8. c[1] = x /\ c[2] = y /\ c[3] = z /\ Len(c) = 3 BY <2>1, <2>5, <2>6, <2>7
    <2>9. \A i \in 1..3 : i = 1 \/ i = 2 \/ i = 3 OBVIOUS
    <2>10. \A i \in 1..Len(c) : c[i] = b[i] BY <2>2, <2>8, <2>9
    <2>11. c = b BY <2>2, <2>5, <2>8, <2>10, SeqEqual
    <2>12. QED BY <2>4, <2>11 DEF a, b
  <1>2. Elements(<<x, y, z>>) = {x, y, z}
    <2>1. Len(<<x, y, z>>) = 3 /\ <<x, y, z>>[1] = x /\ <<x, y, z>>[2] = y /\ <<x, y, z>>[3] = z
      OBVIOUS
    <2>2. \A i : i \in 1..3 <=> i = 1 \/ i = 2 \/ i = 3 OBVIOUS
    <2>3. QED BY <2>1, <2>2 DEF Elements
  <1>3. QED BY <1>1, <1>2

\* Store buffers of at most two stores.
LEMMA ShortBuffers ==
  ASSUME NEW x, NEW y
  PROVE  /\ Elements(<<>>) = {} /\ Elements(<<x>>) = {x} /\ Elements(<<x, y>>) = {x, y}
         /\ Append(<<>>, y) = <<y>> /\ Append(<<x>>, y) = <<x, y>>
  <1>1. Elements(<<>>) = {} BY DEF Elements
  <1>2. Elements(<<x>>) = {x} BY DEF Elements
  <1>3. Elements(<<x, y>>) = {x, y}
    <2>1. Len(<<x, y>>) = 2 /\ <<x, y>>[1] = x /\ <<x, y>>[2] = y OBVIOUS
    <2>2. \A i : i \in 1..2 <=> i = 1 \/ i = 2 OBVIOUS
    <2>3. QED BY <2>1, <2>2 DEF Elements
  <1>4. Append(<<>>, y) = <<y>> OBVIOUS
  <1>5. Append(<<x>>, y) = <<x, y>>
    <2> DEFINE S == {x, y}  a == <<x>>  b == <<x, y>>
    <2>1. a \in Seq(S) /\ Len(a) = 1 /\ a[1] = x OBVIOUS
    <2>2. b \in Seq(S) /\ Len(b) = 2 /\ b[1] = x /\ b[2] = y OBVIOUS
    <2>3. y \in S OBVIOUS
    <2> HIDE DEF S, a, b
    <2>4. PICK c : c = Append(a, y) OBVIOUS
    <2>5. c \in Seq(S) /\ Len(c) = Len(a) + 1
      <3>1. Append(a, y) \in Seq(S) BY <2>1, <2>3, AppendProperties
      <3>2. Len(Append(a, y)) = Len(a) + 1 BY <2>1, <2>3, AppendProperties, ZenonT(40)
      <3>3. QED BY <2>4, <3>1, <3>2
    <2>6. c[Len(a) + 1] = y BY <2>1, <2>3, <2>4, AppendProperties
    <2>7. \A i \in 1..Len(a) : c[i] = a[i] BY <2>1, <2>3, <2>4, AppendProperties
    <2>8. c[1] = x /\ c[2] = y /\ Len(c) = 2 BY <2>1, <2>5, <2>6, <2>7
    <2>9. \A i \in 1..2 : i = 1 \/ i = 2 OBVIOUS
    <2>10. \A i \in 1..Len(c) : c[i] = b[i] BY <2>2, <2>8, <2>9
    <2>11. c = b BY <2>2, <2>5, <2>8, <2>10, SeqEqual
    <2>12. QED BY <2>4, <2>11 DEF a, b
  <1>6. QED BY <1>1, <1>2, <1>3, <1>4, <1>5

\* The five kinds of stores differ, and name the threads they are for.
LEMMA StoresDiffer ==
  /\ \A u, v, p : MarkStore(u) # LinkStore(v, p) /\ LinkStore(v, p) # HandStore(u)
  /\ \A u, v : /\ MarkStore(u) # HandStore(v) /\ MarkStore(u) # ClearStore(v)
               /\ HandStore(u) # ClearStore(v)
  /\ \A u, p, n : /\ MarkStore(u) # CountStore(n) /\ HandStore(u) # CountStore(n)
                  /\ ClearStore(u) # CountStore(n) /\ LinkStore(u, p) # CountStore(n)
  /\ \A u, v, p, q : LinkStore(u, p) = LinkStore(v, q) => u = v /\ p = q
  /\ \A u, v : HandStore(u) = HandStore(v) => u = v
  /\ \A u, v : MarkStore(u) = MarkStore(v) => u = v
  /\ \A u \in Threads : \A p, v : LinkStore(u, p) # ClearStore(v)
  BY QueuedLocations, QueuedPlaces DEF MarkStore, LinkStore, HandStore, ClearStore, CountStore

\* A thread stores.
LEMMA StoreStep ==
  ASSUME Shapes, NEW t \in Threads, NEW loc, NEW v, QL!Store(t, loc, v)
  PROVE  /\ Shapes' /\ mem' = mem
         /\ buf'[t] = Append(buf[t], <<loc, v>>)
         /\ \A x \in Threads \ {t} : buf'[x] = buf[x]
  BY DEF QL!Store, Shapes

\* The oldest store of a thread reaches memory.
LEMMA FlushStep ==
  ASSUME Shapes, NEW t \in Threads, QL!FlushBuffer(t), NEW loc \in Locations, NEW v,
         Head(buf[t]) = <<loc, v>>
  PROVE  /\ Shapes' /\ mem' = [mem EXCEPT ![loc] = v]
         /\ buf'[t] = Tail(buf[t])
         /\ \A x \in Threads \ {t} : buf'[x] = buf[x]
  <1>0. Head(buf[t])[1] = loc /\ Head(buf[t])[2] = v OBVIOUS
  <1>1. mem' = [mem EXCEPT ![loc] = v] /\ buf' = [buf EXCEPT ![t] = Tail(buf[t])]
    <2>1. QL!FlushBuffer(t) => /\ mem' = [mem EXCEPT ![Head(buf[t])[1]] = Head(buf[t])[2]]
                               /\ buf' = [buf EXCEPT ![t] = Tail(buf[t])]
      BY DEF QL!FlushBuffer
    <2>2. QED BY <1>0, <2>1
  <1>2. mem' = [x \in Locations |-> mem'[x]] BY <1>1, WriteAt
  <1>3. QED BY <1>1, <1>2 DEF Shapes

\* A locked instruction.
LEMMA LockedStep ==
  ASSUME Shapes, NEW t \in Threads, NEW loc \in Locations, NEW v, QL!LockedStore(t, loc, v)
  PROVE  /\ Shapes' /\ mem' = [mem EXCEPT ![loc] = v] /\ buf' = buf /\ buf[t] = <<>>
  <1>1. mem' = [mem EXCEPT ![loc] = v] /\ buf' = buf /\ buf[t] = <<>>
    BY DEF QL!LockedStore, QL!Drained
  <1>2. mem' = [x \in Locations |-> mem'[x]] BY <1>1, WriteAt
  <1>3. QED BY <1>1, <1>2 DEF Shapes

\* A thread with no store to a location pending loads what is in memory.
LEMMA QueuedLoad ==
  ASSUME NEW t, NEW loc, \A i \in 1..Len(buf[t]) : buf[t][i][1] # loc
  PROVE  QL!Load(t, loc) = mem[loc]
  BY DEF QL!Load, QL!Pending
-----------------------------------------------------------------------------
(* Steps that leave the queue alone. *)

\* A step of t changes what belongs to t, and memory.
OnlyOf(t) ==
  \A x \in Threads \ {t} :
    /\ qpc'[x] = qpc[x] /\ depth'[x] = depth[x] /\ node'[x] = node[x] /\ other'[x] = other[x]
    /\ qreg'[x] = qreg[x] /\ qleft'[x] = qleft[x] /\ buf'[x] = buf[x]
    /\ \A i \in 1..MaxNested : lock'[<<x, i>>] = lock[<<x, i>>]

\* A step of one thread keeps what the others' own variables say.
LEMMA LocalKept ==
  ASSUME NEW t \in Threads, OnlyOf(t), NEW x \in Threads \ {t}, Local(x)
  PROVE  Local(x)'
  <1> USE DEF OnlyOf
  <1>1. (Waits(x)' <=> Waits(x)) /\ (Freed(x)' <=> Freed(x)) /\ Held(x)' = Held(x)
    BY DEF Waits, Freed, Held
  <1>2. DepthOf(x)' BY <1>1 DEF Local, DepthOf
  <1>3. NodeOf(x)' BY <1>1 DEF Local, NodeOf, Node
  <1>4. LocksOf(x)' BY <1>1 DEF Local, LocksOf
  <1>5. BufferOf(x)'
    BY DEF Local, BufferOf
  <1>6. QED BY <1>2, <1>3, <1>4, <1>5 DEF Local

\* Nobody joins, leaves or moves up.
LEMMA QueueKept ==
  ASSUME Queue, QueueTail, TailAt(1)' = TailAt(1),
         \A x \in Threads : (InQueue(x)' <=> InQueue(x)) /\ (First(x)' <=> First(x)),
         \A x, p \in Threads : Behind(x, p)' <=> Behind(x, p)
  PROVE  Queue' /\ QueueTail'
  <1>1. Queue' BY DEF Queue
  <1>2. QueueTail' BY DEF QueueTail, Node
  <1>3. QED BY <1>1, <1>2

\* A step of a thread that does not wait for the lock, neither before nor after.
LEMMA Unseen ==
  ASSUME QueuedIInv, NEW t \in Threads, OnlyOf(t), ~Waits(t), ~Waits(t)',
         (depth'[t] > 0) <=> (depth[t] > 0),
         \A x \in Threads : HandedBy(x, t)' <=> HandedBy(x, t),
         \A x \in Threads : Marked(x)' = Marked(x),
         TailAt(1)' = TailAt(1),
         \A x \in Threads : InQueue(x) \/ x # t => Successor(x)' = Successor(x)
  PROVE  /\ Queue' /\ QueueTail'
         /\ \A x \in Threads : MarkOf(x)'
         /\ \A x \in Threads \ {t} : SuccessorOf(x)'
         /\ \A x \in Threads : (InQueue(x)' <=> InQueue(x)) /\ (Linked(x)' <=> Linked(x))
  <1>1. \A x \in Threads : (Waits(x)' <=> Waits(x)) /\ (InQueue(x)' <=> InQueue(x))
    BY DEF OnlyOf, Waits, InQueue
  <1>2. \A x \in Threads : Linked(x)' <=> Linked(x)
    BY DEF OnlyOf, Waits, Linked
  <1>3. \A x, p \in Threads : Behind(x, p)' <=> Behind(x, p)
    <2> TAKE x, p \in Threads
    <2>1. CASE x = t BY <2>1, <1>1, <1>2 DEF Behind, Waits, Linked
    <2>2. CASE x # t
      <3>1. /\ qpc'[x] = qpc[x] /\ other'[x] = other[x] /\ buf'[x] = buf[x]
        BY <2>2 DEF OnlyOf
      <3>2. (LinkStore(x, p) \in Stores(x))' <=> LinkStore(x, p) \in Stores(x)
        BY <3>1 DEF Stores, Elements
      <3>3. (Linked(x) /\ InQueue(p) /\ Successor(p) = Node(x))'
              <=> Linked(x) /\ InQueue(p) /\ Successor(p) = Node(x)
        BY <1>1, <1>2 DEF Node
      <3>4. QED BY <3>1, <3>2, <3>3 DEF Behind, Node
    <2>3. QED BY <2>1, <2>2
  <1>4. \A x, s \in Threads : HandedBy(x, s)' <=> HandedBy(x, s)
    <2> TAKE x, s \in Threads
    <2>1. CASE s = t BY <2>1
    <2>2. CASE s # t
      <3>1. buf'[s] = buf[s] BY <2>2 DEF OnlyOf
      <3>2. QED BY <3>1 DEF HandedBy, Stores, Elements, HandStore, Node, QL!LockedOf
    <2>3. QED BY <2>1, <2>2
  <1>5. \A x \in Threads : First(x)' <=> First(x)
    BY <1>2, <1>4 DEF First, Handed, OnlyOf
  <1>6. Queue' /\ QueueTail' BY <1>1, <1>3, <1>5, QueueKept DEF QueuedIInv
  <1>7. \A x \in Threads : MarkOf(x)'
    <2> TAKE x \in Threads
    <2>1. MarkOf(x) BY DEF QueuedIInv
    <2>2. \A s \in Threads : HandedBy(x, s)' => Linked(x)' /\ Marked(x)'
      BY <1>2, <1>4, <2>1 DEF MarkOf
    <2>3. \A s, r \in Threads : HandedBy(x, s)' /\ HandedBy(x, r)' => s = r
      BY <1>4, <2>1 DEF MarkOf
    <2>4. CASE x = t BY <2>2, <2>3, <2>4 DEF MarkOf, Waits
    <2>5. CASE x # t
      <3>1. qpc'[x] = qpc[x] /\ buf'[x] = buf[x] BY <2>5 DEF OnlyOf
      <3>2. (MarkStore(x) \in Stores(x))' <=> MarkStore(x) \in Stores(x)
        BY <3>1 DEF Stores, Elements, MarkStore, Node, QL!LockedOf
      <3>3. QED BY <2>1, <2>2, <2>3, <3>1, <3>2 DEF MarkOf
    <2>6. QED BY <2>4, <2>5
  <1>8. \A x \in Threads \ {t} : SuccessorOf(x)'
    <2> TAKE x \in Threads \ {t}
    <2>1. SuccessorOf(x) BY DEF QueuedIInv
    <2>2. qpc'[x] = qpc[x] /\ other'[x] = other[x] /\ buf'[x] = buf[x] BY DEF OnlyOf
    <2>3. Successor(x)' = Successor(x) OBVIOUS
    <2>4. QED BY <1>1, <1>2, <1>3, <2>1, <2>2, <2>3 DEF SuccessorOf, Node
  <1>9. QED BY <1>1, <1>2, <1>6, <1>7, <1>8

\* Memory stays, or a part of it.
LEMMA MemoryKept ==
  ASSUME mem' = mem
  PROVE  SameTails(0) /\ SameNexts /\ SameLockeds /\ Count' = Count
  BY DEF SameTails, SameNexts, SameLockeds, Count, TailAt

\* What the nodes and the outermost tail say when memory keeps them.
LEMMA NodesKept ==
  /\ SameNexts => \A x \in Threads : Successor(x)' = Successor(x)
  /\ SameLockeds => \A x \in Threads : Marked(x)' = Marked(x)
  /\ SameTails(0) => TailAt(1)' = TailAt(1) /\ SameTails(1)
  <1>1. SameNexts => \A x \in Threads : Successor(x)' = Successor(x)
    BY QueuedPlaces DEF SameNexts, Successor, Node
  <1>2. SameLockeds => \A x \in Threads : Marked(x)' = Marked(x)
    BY QueuedPlaces DEF SameLockeds, Marked, Node
  <1>3. SameTails(0) => TailAt(1)' = TailAt(1) /\ SameTails(1)
    BY QueuedPlaces DEF SameTails
  <1>4. QED BY <1>1, <1>2, <1>3

\* The other threads' loads stay current while the counter does.
LEMMA LoadedKept ==
  ASSUME QueuedIInv, NEW t \in Threads, OnlyOf(t), Count' = Count, NEW x \in Threads \ {t}
  PROVE  LoadedBy(x)'
  BY DEF QueuedIInv, OnlyOf, LoadedBy

\* The nodes of the inner locks have no successor.
InnerNexts == \A x \in Threads : \A k \in 2..MaxNested :
                mem'[QL!NextOf(<<x, k>>)] = mem[QL!NextOf(<<x, k>>)]

\* The inner locks are as they were when their tails, nodes and owners are.
LEMMA InnerKept ==
  ASSUME QueuedIInv, NEW t \in Threads, OnlyOf(t), SameTails(1), InnerNexts,
         \A k \in 2..Len(Order) : depth'[t] >= k <=> depth[t] >= k
  PROVE  InnerLocks'
  <1>1. \A x \in Threads : \A k \in 2..Len(Order) : depth'[x] >= k <=> depth[x] >= k
    BY DEF OnlyOf
  <1>2. \A k \in 2..Len(Order) : TailAt(k)' = TailAt(k) BY QueuedPlaces DEF SameTails
  <1>3. InnerLocks BY DEF QueuedIInv
  <1>4. \A k \in 2..Len(Order) :
          /\ \A x \in Threads : depth'[x] >= k => TailAt(k)' = <<x, k>>
          /\ TailAt(k)' # NoNode => \E x \in Threads : depth'[x] >= k
    BY <1>1, <1>2, <1>3 DEF InnerLocks
  <1>5. \A x \in Threads : \A k \in 2..MaxNested : mem'[QL!NextOf(<<x, k>>)] = NoNode
    BY <1>3 DEF InnerLocks, InnerNexts
  <1>6. QED BY <1>4, <1>5 DEF InnerLocks

\* A step that writes no next keeps those of the inner nodes.
LEMMA InnerNextsKept ==
  SameNexts => InnerNexts
  <1>1. \A k \in 2..MaxNested : k \in 1..MaxNested BY QueuedPlaces
  <1>2. \A x \in Threads : \A k \in 2..MaxNested : <<x, k>> \in QL!Nodes BY <1>1, QueuedPlaces
  <1>3. QED BY <1>2 DEF SameNexts, InnerNexts

\* The invariant after a step of t, in parts.
LEMMA Together ==
  ASSUME QueuedIInv, NEW t \in Threads, OnlyOf(t), Count' = Count,
         Types', Shapes', InnerLocks', Queue', QueueTail',
         \A x \in Threads : MarkOf(x)', \A x \in Threads : SuccessorOf(x)',
         Local(t)', LoadedBy(t)'
  PROVE  QueuedIInv'
  <1>1. \A x \in Threads : Local(x)' BY LocalKept DEF QueuedIInv
  <1>2. \A x \in Threads : LoadedBy(x)' BY LoadedKept
  <1>3. QED BY <1>1, <1>2 DEF QueuedIInv

\* A step that only moves on, with what it stores in its own buffer.
LEMMA UnseenStep ==
  ASSUME QueuedIInv, NEW t \in Threads, OnlyOf(t), mem' = mem,
         ~Waits(t), ~Waits(t)', depth'[t] = depth[t],
         \A x \in Threads : HandedBy(x, t)' <=> HandedBy(x, t),
         Types', Shapes', Local(t)', SuccessorOf(t)', LoadedBy(t)'
  PROVE  QueuedIInv'
  <1>1. SameTails(0) /\ SameNexts /\ SameLockeds /\ Count' = Count BY MemoryKept
  <1>2. /\ \A x \in Threads : Successor(x)' = Successor(x) /\ Marked(x)' = Marked(x)
        /\ TailAt(1)' = TailAt(1) /\ SameTails(1) /\ InnerNexts
    BY <1>1, NodesKept, InnerNextsKept
  <1>3. InnerLocks' BY <1>2, InnerKept
  <1>4. /\ Queue' /\ QueueTail'
        /\ \A x \in Threads : MarkOf(x)'
        /\ \A x \in Threads \ {t} : SuccessorOf(x)'
    BY <1>2, Unseen
  <1>5. \A x \in Threads : SuccessorOf(x)' BY <1>4
  <1>6. QED BY <1>1, <1>3, <1>4, <1>5, Together

\* The stores of a thread, one more at the end.
LEMMA StoreHand ==
  ASSUME NEW b \in CountBuffers, NEW u \in Threads
  PROVE  /\ Append(b, HandStore(u)) \in HandBuffers
         /\ Elements(Append(b, HandStore(u))) = Elements(b) \cup {HandStore(u)}
  <1>1. CASE b = <<>>
    <2>1. Append(b, HandStore(u)) = <<HandStore(u)>> BY <1>1, ShortBuffers
    <2>2. Elements(b) = {} BY <1>1, ShortBuffers
    <2>3. Elements(Append(b, HandStore(u))) = {HandStore(u)} BY <2>1, ShortBuffers
    <2>4. QED BY <2>1, <2>2, <2>3 DEF HandBuffers
  <1>2. CASE \E n \in Nat : b = <<CountStore(n)>>
    <2>1. PICK n \in Nat : b = <<CountStore(n)>> BY <1>2
    <2>2. Append(b, HandStore(u)) = <<CountStore(n), HandStore(u)>> BY <2>1, ShortBuffers
    <2>3. Elements(b) = {CountStore(n)} BY <2>1, ShortBuffers
    <2>4. Elements(Append(b, HandStore(u))) = {CountStore(n), HandStore(u)}
      BY <2>2, ShortBuffers
    <2>5. QED BY <2>2, <2>3, <2>4 DEF HandBuffers
  <1>3. QED BY <1>1, <1>2 DEF CountBuffers

\* The store of unlock to the node's next joins those before it.
LEMMA StoreClear ==
  ASSUME NEW t, NEW b \in HandBuffers
  PROVE  /\ Append(b, ClearStore(t)) \in ClearBuffers(t)
         /\ Elements(Append(b, ClearStore(t))) = Elements(b) \cup {ClearStore(t)}
  <1>1. CASE b = <<>>
    <2>1. Append(b, ClearStore(t)) = <<ClearStore(t)>> BY <1>1, ShortBuffers
    <2>2. Elements(b) = {} BY <1>1, ShortBuffers
    <2>3. Elements(Append(b, ClearStore(t))) = {ClearStore(t)} BY <2>1, ShortBuffers
    <2>4. QED BY <2>1, <2>2, <2>3 DEF ClearBuffers
  <1>2. CASE \E u \in Threads : b = <<HandStore(u)>>
    <2>1. PICK u \in Threads : b = <<HandStore(u)>> BY <1>2
    <2>2. Append(b, ClearStore(t)) = <<HandStore(u), ClearStore(t)>> BY <2>1, ShortBuffers
    <2>3. Elements(b) = {HandStore(u)} BY <2>1, ShortBuffers
    <2>4. Elements(Append(b, ClearStore(t))) = {HandStore(u), ClearStore(t)}
      BY <2>2, ShortBuffers
    <2>5. QED BY <2>2, <2>3, <2>4 DEF ClearBuffers
  <1>3. CASE \E n \in Nat, u \in Threads : b = <<CountStore(n), HandStore(u)>>
    <2>1. PICK n \in Nat, u \in Threads : b = <<CountStore(n), HandStore(u)>> BY <1>3
    <2>2. Append(b, ClearStore(t)) = <<CountStore(n), HandStore(u), ClearStore(t)>>
      BY <2>1, StoreThird
    <2>3. Elements(b) = {CountStore(n), HandStore(u)} BY <2>1, ShortBuffers
    <2>4. Elements(<<CountStore(n), HandStore(u), ClearStore(t)>>)
            = {CountStore(n), HandStore(u), ClearStore(t)}
      BY StoreThird
    <2>5. QED BY <2>2, <2>3, <2>4 DEF ClearBuffers
  <1>4. QED BY <1>1, <1>2, <1>3 DEF HandBuffers

\* The store of lock to the predecessor's next joins the one before it.
LEMMA StoreLink ==
  ASSUME NEW t, NEW p \in Threads, NEW b \in {<<>>, <<MarkStore(t)>>}
  PROVE  /\ Append(b, LinkStore(t, p)) \in LinkBuffers(t)
         /\ Elements(Append(b, LinkStore(t, p))) = Elements(b) \cup {LinkStore(t, p)}
  <1>1. CASE b = <<>>
    <2>1. Append(b, LinkStore(t, p)) = <<LinkStore(t, p)>> BY <1>1, ShortBuffers
    <2>2. Elements(b) = {} /\ Elements(<<LinkStore(t, p)>>) = {LinkStore(t, p)}
      BY <1>1, ShortBuffers
    <2>3. <<LinkStore(t, p)>> \in LinkBuffers(t) BY DEF LinkBuffers
    <2>4. QED BY <2>1, <2>2, <2>3
  <1>2. CASE b = <<MarkStore(t)>>
    <2>2. Append(b, LinkStore(t, p)) = <<MarkStore(t), LinkStore(t, p)>> BY <1>2, ShortBuffers
    <2>3. Elements(b) = {MarkStore(t)} BY <1>2, ShortBuffers
    <2>4. Elements(Append(b, LinkStore(t, p))) = {MarkStore(t), LinkStore(t, p)}
      BY <2>2, ShortBuffers
    <2>5. QED BY <2>2, <2>3, <2>4 DEF LinkBuffers
  <1>3. QED BY <1>1, <1>2

\* The nodes a thread takes and frees.
LEMMA OwnNodes ==
  ASSUME Types, NEW t \in Threads, Local(t)
  PROVE  /\ qpc[t] = "exchange" => QL!AllocNode(t) = <<t, depth[t] + 1>>
         /\ qpc[t] = "load_next" =>
              (CHOOSE m \in {t} \X (1..MaxNested) : lock[m] = Order[depth[t]]) = <<t, depth[t]>>
  <1>0. /\ depth[t] \in Nat /\ depth[t] <= Len(Order)
        /\ Len(Order) \in Nat /\ Len(Order) <= MaxNested /\ MaxNested \in Nat
    BY QueuedPlaces DEF Types
  <1>1. \A i \in 1..MaxNested : lock[<<t, i>>] = IF i <= Held(t) THEN Order[i] ELSE NoLock
    BY DEF Local, LocksOf
  <1>2. ASSUME qpc[t] = "exchange" PROVE QL!AllocNode(t) = <<t, depth[t] + 1>>
    <2>1. depth[t] < Len(Order) /\ Held(t) = depth[t]
      BY <1>2 DEF Local, DepthOf, Held, Freed
    <2> DEFINE Free == {i \in 1..MaxNested : lock[<<t, i>>] = NoLock}
    <2>2. \A i \in 1..MaxNested : i <= depth[t] => lock[<<t, i>>] # NoLock
      BY <1>0, <1>1, <2>1, QueuedPlaces
    <2>3. depth[t] + 1 \in 1..MaxNested BY <1>0, <2>1
    <2>4. lock[<<t, depth[t] + 1>>] = NoLock BY <1>0, <1>1, <2>1, <2>3
    <2>5. depth[t] + 1 \in Free BY <2>3, <2>4
    <2>6. \A i \in Free : i \in Nat /\ depth[t] + 1 <= i BY <1>0, <2>2
    <2> HIDE DEF Free
    <2>7. \A i \in Free : (\A j \in Free : i <= j) => i = depth[t] + 1
      BY <1>0, <2>5, <2>6
    <2>8. (CHOOSE i \in Free : \A j \in Free : i <= j) = depth[t] + 1
      BY <2>5, <2>6, <2>7
    <2>9. QED BY <2>8 DEF QL!AllocNode, QL!Min, Free
  <1>3. ASSUME qpc[t] = "load_next"
        PROVE (CHOOSE m \in {t} \X (1..MaxNested) : lock[m] = Order[depth[t]]) = <<t, depth[t]>>
    <2>1. depth[t] > 0 /\ Held(t) = depth[t] BY <1>3 DEF Local, DepthOf, Held, Freed
    <2>2. depth[t] \in 1..MaxNested /\ depth[t] \in 1..Len(Order) BY <1>0, <2>1
    <2>3. lock[<<t, depth[t]>>] = Order[depth[t]] BY <1>0, <1>1, <2>1, <2>2
    <2>4. \A i \in 1..MaxNested : lock[<<t, i>>] = Order[depth[t]] => i = depth[t]
      <3> TAKE i \in 1..MaxNested
      <3>1. CASE i <= depth[t]
        <4>1. i \in 1..Len(Order) BY <1>0, <3>1
        <4>2. lock[<<t, i>>] = Order[i] BY <1>1, <2>1, <3>1
        <4>3. QED BY <2>2, <4>1, <4>2, QueuedPlaces
      <3>2. CASE ~(i <= depth[t])
        <4>1. lock[<<t, i>>] = NoLock BY <1>1, <2>1, <3>2
        <4>2. QED BY <2>2, <4>1, QueuedPlaces
      <3>3. QED BY <3>1, <3>2
    <2>5. \A m \in {t} \X (1..MaxNested) : lock[m] = Order[depth[t]] <=> m = <<t, depth[t]>>
      <3> TAKE m \in {t} \X (1..MaxNested)
      <3>1. PICK i \in 1..MaxNested : m = <<t, i>> OBVIOUS
      <3>2. QED BY <2>3, <2>4, <3>1
    <2>6. <<t, depth[t]>> \in {t} \X (1..MaxNested) BY <2>2
    <2>7. QED BY <2>5, <2>6
  <1>4. QED BY <1>2, <1>3
-----------------------------------------------------------------------------
(* The invariant holds at first and after each step. *)

\* Beginning a round keeps the invariant.
LEMMA NextBegin ==
  ASSUME QueuedIInv, NEW t \in Threads, QL!Begin(t)
  PROVE  QueuedIInv'
  <1> USE DEF QL!Begin, QL!Goto
  <1>0. Types /\ Shapes /\ Local(t) /\ SuccessorOf(t) BY DEF QueuedIInv
  <1>1. /\ qpc[t] = "idle" /\ qpc'[t] = "exchange" /\ depth[t] = 0 /\ qleft[t] > 0
        /\ mem' = mem /\ buf' = buf /\ depth' = depth /\ lock' = lock /\ node' = node
        /\ other' = other /\ qreg' = qreg /\ qleft' = qleft
    BY <1>0 DEF Types, Local, DepthOf
  <1>2. OnlyOf(t) BY <1>0 DEF Types, OnlyOf
  <1>3. Types' /\ Shapes' BY <1>0, <1>1 DEF Types, Shapes, QL!Steps, QL!LockSteps, Count
  <1>4. /\ ~Waits(t) /\ ~Waits(t)' /\ ~Freed(t) /\ ~Freed(t)' BY <1>1 DEF Waits, Freed
  <1>5. Local(t)'
    <2>1. DepthOf(t)' BY <1>0, <1>1, <1>4, QueuedPlaces DEF DepthOf
    <2>2. NodeOf(t)' BY <1>0, <1>1, <1>4 DEF Local, NodeOf
    <2>3. LocksOf(t)' BY <1>0, <1>1, <1>4 DEF Local, LocksOf, Held
    <2>4. BufferOf(t)'
      BY <1>0, <1>1 DEF Local, BufferOf
    <2>5. QED BY <2>1, <2>2, <2>3, <2>4 DEF Local
  <1>6. SuccessorOf(t)'
    BY <1>0, <1>1, <1>4 DEF SuccessorOf, InQueue, Successor
  <1>7. LoadedBy(t)' BY <1>1 DEF LoadedBy
  <1>8. \A x \in Threads : HandedBy(x, t)' <=> HandedBy(x, t)
    BY <1>1 DEF HandedBy, Stores, Elements, HandStore, Node, QL!LockedOf
  <1>9. QED BY <1>1, <1>2, <1>3, <1>4, <1>5, <1>6, <1>7, <1>8, UnseenStep

\* A thread with no store to a location pending loads it from memory.
LEMMA LoadMemory ==
  ASSUME NEW t, NEW loc,
         buf[t] = <<>> \/ (buf[t] \in CountBuffers /\ loc # QL!Counter)
  PROVE  QL!Load(t, loc) = mem[loc]
  <1>1. CASE buf[t] = <<>>
    <2>1. \A i \in 1..Len(buf[t]) : buf[t][i][1] # loc BY <1>1
    <2>2. QED BY <2>1, QueuedLoad
  <1>2. CASE loc # QL!Counter /\ \E n \in Nat : buf[t] = <<CountStore(n)>>
    <2>1. PICK n \in Nat : buf[t] = <<CountStore(n)>> BY <1>2
    <2>2. Len(buf[t]) = 1 /\ buf[t][1] = CountStore(n) BY <2>1
    <2>3. \A i \in 1..Len(buf[t]) : buf[t][i][1] # loc BY <1>2, <2>2 DEF CountStore
    <2>4. QED BY <2>3, QueuedLoad
  <1>3. QED BY <1>1, <1>2 DEF CountBuffers

\* The owner's load of the counter keeps the invariant.
LEMMA NextReadCounter ==
  ASSUME QueuedIInv, NEW t \in Threads, QL!ReadCounter(t)
  PROVE  QueuedIInv'
  <1> USE DEF QL!ReadCounter, QL!Goto
  <1>0. Types /\ Shapes /\ Local(t) /\ SuccessorOf(t) BY DEF QueuedIInv
  <1>1. /\ qpc[t] = "read" /\ qpc'[t] = "write" /\ depth[t] = Len(Order) /\ buf[t] = <<>>
        /\ qleft[t] > 0
        /\ mem' = mem /\ buf' = buf /\ depth' = depth /\ lock' = lock /\ node' = node
        /\ other' = other /\ qleft' = qleft
    BY <1>0 DEF Types, Local, DepthOf, BufferOf
  <1>2. OnlyOf(t) BY <1>0 DEF Types, OnlyOf
  <1>3. qreg' = [qreg EXCEPT ![t] = Count] BY <1>1, LoadMemory DEF Count
  <1>4. Types' /\ Shapes'
    BY <1>0, <1>1, <1>3 DEF Types, Shapes, QL!Steps, QL!LockSteps, Count
  <1>5. /\ ~Waits(t) /\ ~Waits(t)' /\ ~Freed(t) /\ ~Freed(t)' BY <1>1 DEF Waits, Freed
  <1>6. Local(t)'
    <2>1. DepthOf(t)' BY <1>1, <1>5 DEF DepthOf
    <2>2. NodeOf(t)' BY <1>0, <1>1, <1>5 DEF Local, NodeOf
    <2>3. LocksOf(t)' BY <1>0, <1>1, <1>5 DEF Local, LocksOf, Held
    <2>4. BufferOf(t)' BY <1>1 DEF BufferOf
    <2>5. QED BY <2>1, <2>2, <2>3, <2>4 DEF Local
  <1>7. SuccessorOf(t)' BY <1>0, <1>1, <1>5, QueuedPlaces DEF SuccessorOf, InQueue, Successor, Linked, Node
  <1>8. LoadedBy(t)' BY <1>0, <1>1, <1>3 DEF LoadedBy, Types, Count
  <1>9. \A x \in Threads : HandedBy(x, t)' <=> HandedBy(x, t)
    BY <1>1 DEF HandedBy, Stores, Elements, HandStore, Node, QL!LockedOf
  <1>10. QED BY <1>1, <1>2, <1>4, <1>5, <1>6, <1>7, <1>8, <1>9, UnseenStep

\* The owner's store to the counter keeps the invariant.
LEMMA NextWriteCounter ==
  ASSUME QueuedIInv, NEW t \in Threads, QL!WriteCounter(t)
  PROVE  QueuedIInv'
  <1> USE DEF QL!WriteCounter, QL!Goto
  <1>0. Types /\ Shapes /\ Local(t) /\ SuccessorOf(t) BY DEF QueuedIInv
  <1>1. /\ qpc[t] = "write" /\ qpc'[t] = "load_next" /\ depth[t] = Len(Order) /\ buf[t] = <<>>
        /\ qleft[t] > 0
        /\ depth' = depth /\ lock' = lock /\ node' = node /\ other' = other /\ qleft' = qleft
    BY <1>0 DEF Types, Local, DepthOf, BufferOf
  <1>2. /\ Shapes' /\ mem' = mem /\ buf'[t] = Append(buf[t], <<QL!Counter, qreg[t] + 1>>)
        /\ \A x \in Threads \ {t} : buf'[x] = buf[x]
    BY <1>0, StoreStep
  <1>3. buf'[t] = <<CountStore(qreg[t] + 1)>> BY <1>1, <1>2, ShortBuffers DEF CountStore
  <1>4. OnlyOf(t) BY <1>0, <1>2 DEF Types, OnlyOf
  <1>5. Types'
    BY <1>0, <1>1, <1>2 DEF Types, QL!Steps, QL!LockSteps, QL!UnlockSteps, Count
  <1>6. /\ ~Waits(t) /\ ~Waits(t)' /\ ~Freed(t) /\ ~Freed(t)' BY <1>1 DEF Waits, Freed
  <1>7. Local(t)'
    <2>1. DepthOf(t)' BY <1>1, <1>6, QueuedPlaces DEF DepthOf
    <2>2. NodeOf(t)' BY <1>0, <1>1, <1>6 DEF Local, NodeOf
    <2>3. LocksOf(t)' BY <1>0, <1>1, <1>6 DEF Local, LocksOf, Held
    <2>4. qreg[t] + 1 \in Nat BY <1>0 DEF Types
    <2>5. buf'[t] \in CountBuffers BY <1>3, <2>4 DEF CountBuffers
    <2>6. BufferOf(t)' BY <1>1, <2>5 DEF BufferOf
    <2>7. QED BY <2>1, <2>2, <2>3, <2>6 DEF Local
  <1>8. SuccessorOf(t)'
    <2>1. InQueue(t) /\ InQueue(t)' BY <1>1, QueuedPlaces DEF InQueue
    <2>2. Successor(t)' = Successor(t) BY <1>2 DEF Successor
    <2>3. \A u \in Threads : Linked(u) => Linked(u)'
      BY <1>4, <1>6 DEF Linked, OnlyOf, Waits
    <2>4. QED BY <1>0, <1>1, <2>1, <2>2, <2>3 DEF SuccessorOf, Node
  <1>9. LoadedBy(t)' BY <1>1 DEF LoadedBy
  <1>10. \A x \in Threads : HandedBy(x, t)' <=> HandedBy(x, t)
    <2>1. Stores(t) = {} BY <1>1, ShortBuffers DEF Stores
    <2>2. Stores(t)' = {CountStore(qreg[t] + 1)} BY <1>3, ShortBuffers DEF Stores
    <2>3. \A x \in Threads : HandStore(x)' = HandStore(x) BY DEF HandStore, Node, QL!LockedOf
    <2>4. QED BY <2>1, <2>2, <2>3, StoresDiffer DEF HandedBy
  <1>11. QED BY <1>1, <1>2, <1>4, <1>5, <1>6, <1>7, <1>8, <1>9, <1>10, UnseenStep

\* Loading the successor in unlock keeps the invariant.
LEMMA NextLoadNext ==
  ASSUME QueuedIInv, NEW t \in Threads, QL!LoadNext(t)
  PROVE  QueuedIInv'
  <1> DEFINE n == <<t, depth[t]>>
  <1>0. Types /\ Shapes /\ Local(t) /\ SuccessorOf(t) /\ InnerLocks BY DEF QueuedIInv
  <1>1. /\ qpc[t] = "load_next" /\ depth[t] > 0 /\ depth[t] \in 1..Len(Order)
        /\ buf[t] \in CountBuffers /\ qleft[t] > 0
    BY <1>0 DEF QL!LoadNext, QL!Goto, Types, Local, DepthOf, BufferOf
  <1>2. (CHOOSE m \in {t} \X (1..MaxNested) : lock[m] = Order[depth[t]]) = n
    BY <1>0, <1>1, OwnNodes
  <1>3. QL!NextOf(n) # QL!Counter BY QueuedLocations
  <1>4. QL!Load(t, QL!NextOf(n)) = mem[QL!NextOf(n)] BY <1>1, <1>3, LoadMemory
  <1>5. n \in QL!Nodes
    <2>1. depth[t] \in 1..MaxNested BY <1>1, QueuedPlaces
    <2>2. QED BY <2>1, QueuedPlaces
  <1>6. mem[QL!NextOf(n)] \in QL!Nodes \cup {NoNode} BY <1>0, <1>5 DEF Types
  <1>7. depth[t] # 1 => mem[QL!NextOf(n)] = NoNode
    <2>1. depth[t] # 1 => depth[t] \in 2..MaxNested BY <1>1, QueuedPlaces
    <2>2. QED BY <1>0, <2>1 DEF InnerLocks
  <1> HIDE DEF n
  <1>8. /\ lock' = [lock EXCEPT ![n] = NoLock]
        /\ node' = [node EXCEPT ![t] = n]
        /\ other' = [other EXCEPT ![t] = mem[QL!NextOf(n)]]
        /\ qpc' = [qpc EXCEPT ![t] = IF mem[QL!NextOf(n)] = NoNode THEN "cas_tail" ELSE "hand_over"]
        /\ mem' = mem /\ buf' = buf /\ depth' = depth /\ qreg' = qreg /\ qleft' = qleft
    BY <1>2, <1>4 DEF QL!LoadNext, QL!Goto
  <1>9. qpc'[t] \in {"cas_tail", "hand_over"} /\ (qpc'[t] = "hand_over" => depth[t] = 1)
    BY <1>0, <1>7, <1>8 DEF Types
  <1>10. OnlyOf(t)
    <2>1. \A x \in Threads \ {t} : \A i \in 1..MaxNested : lock'[<<x, i>>] = lock[<<x, i>>]
      BY <1>0, <1>8, QueuedPlaces DEF Types, n
    <2>2. QED BY <1>0, <1>8, <2>1 DEF Types, OnlyOf
  <1>11. Types' /\ Shapes'
    <2>1. qpc' \in [Threads -> QL!Steps]
      BY <1>0, <1>8 DEF Types, QL!Steps, QL!UnlockSteps
    <2>2. lock' \in [QL!Nodes -> QL!Locks \cup {NoLock}] BY <1>0, <1>8 DEF Types
    <2>3. node' \in [Threads -> QL!Nodes \cup {NoNode}] BY <1>0, <1>5, <1>8 DEF Types
    <2>4. other' \in [Threads -> QL!Nodes \cup {NoNode}] BY <1>0, <1>6, <1>8 DEF Types
    <2>5. QED BY <1>0, <1>8, <2>1, <2>2, <2>3, <2>4 DEF Types, Shapes, Count
  <1>12. ~Waits(t) /\ ~Waits(t)' /\ ~Freed(t) /\ Freed(t)' BY <1>1, <1>9 DEF Waits, Freed
  <1>13. Local(t)'
    <2>1. DepthOf(t)' BY <1>1, <1>8, <1>9, <1>12 DEF DepthOf
    <2>2. NodeOf(t)' BY <1>0, <1>8, <1>9, <1>12 DEF NodeOf, Types, n
    <2>3. LocksOf(t)'
      <3>1. Held(t) = depth[t] /\ Held(t)' = depth[t] - 1 BY <1>8, <1>12 DEF Held
      <3>2. \A i \in 1..MaxNested : <<t, i>> \in QL!Nodes /\ (<<t, i>> = n <=> i = depth[t])
        BY QueuedPlaces DEF n
      <3>3. \A i \in 1..MaxNested :
              lock'[<<t, i>>] = IF i = depth[t] THEN NoLock ELSE lock[<<t, i>>]
        BY <1>0, <1>8, <3>2 DEF Types
      <3>4. \A i \in 1..MaxNested :
              lock[<<t, i>>] = IF i <= depth[t] THEN Order[i] ELSE NoLock
        BY <1>0, <3>1 DEF Local, LocksOf
      <3>5. \A i \in 1..MaxNested : i <= depth[t] - 1 <=> (i <= depth[t] /\ i # depth[t])
        BY <1>1
      <3>6. \A i \in 1..MaxNested : i = depth[t] => i <= depth[t] BY <1>1
      <3>7. QED BY <3>1, <3>3, <3>4, <3>5, <3>6 DEF LocksOf
    <2>4. BufferOf(t)' BY <1>1, <1>8, <1>9 DEF BufferOf
    <2>5. QED BY <2>1, <2>2, <2>3, <2>4 DEF Local
  <1>14. SuccessorOf(t)'
    <2>1. InQueue(t) /\ InQueue(t)' BY <1>1, <1>8 DEF InQueue
    <2>2. Successor(t)' = Successor(t) BY <1>8 DEF Successor
    <2>3. \A u \in Threads : Linked(u) => Linked(u)'
      BY <1>8, <1>10, <1>12 DEF Linked, OnlyOf, Waits
    <2>4. qpc'[t] = "hand_over" => other'[t] # NoNode /\ other'[t] = Successor(t)
      BY <1>0, <1>8, <1>9 DEF Types, Successor, Node, n
    <2>5. QED BY <1>0, <1>9, <2>1, <2>2, <2>3, <2>4 DEF SuccessorOf, Node
  <1>15. LoadedBy(t)' BY <1>9 DEF LoadedBy
  <1>16. \A x \in Threads : HandedBy(x, t)' <=> HandedBy(x, t)
    BY <1>8 DEF HandedBy, Stores, Elements, HandStore, Node, QL!LockedOf
  <1>17. QED
    BY <1>8, <1>10, <1>11, <1>12, <1>13, <1>14, <1>15, <1>16, UnseenStep

\* Waiting for the successor in unlock keeps the invariant.
LEMMA NextWaitNext ==
  ASSUME QueuedIInv, NEW t \in Threads, QL!WaitNext(t)
  PROVE  QueuedIInv'
  <1>0. Types /\ Shapes /\ Local(t) /\ SuccessorOf(t) BY DEF QueuedIInv
  <1>1. qpc[t] = "wait_next" BY DEF QL!WaitNext
  <1>2. buf[t] = <<>> /\ depth[t] = 1 /\ qleft[t] > 0 BY <1>0, <1>1 DEF Local, DepthOf, BufferOf
  <1>3. ~Waits(t) /\ Freed(t) BY <1>1 DEF Waits, Freed
  <1>4. node[t] = Node(t) BY <1>0, <1>1, <1>2, <1>3 DEF Local, NodeOf, Node
  <1>5. QL!Load(t, QL!NextOf(node[t])) = Successor(t)
    BY <1>2, <1>4, LoadMemory DEF Successor
  <1>6. /\ Successor(t) # NoNode /\ other' = [other EXCEPT ![t] = Successor(t)]
        /\ qpc' = [qpc EXCEPT ![t] = "hand_over"]
        /\ mem' = mem /\ buf' = buf /\ depth' = depth /\ lock' = lock /\ node' = node
        /\ qreg' = qreg /\ qleft' = qleft
    BY <1>5 DEF QL!WaitNext, QL!Goto
  <1>7. qpc'[t] = "hand_over" /\ other'[t] = Successor(t) /\ Successor(t) \in QL!Nodes
    BY <1>0, <1>6, QueuedPlaces DEF Types, Successor
  <1>8. OnlyOf(t) BY <1>0, <1>6 DEF Types, OnlyOf
  <1>9. Types' /\ Shapes'
    BY <1>0, <1>6, <1>7 DEF Types, Shapes, QL!Steps, QL!UnlockSteps, Count
  <1>10. ~Waits(t)' /\ Freed(t)' BY <1>7 DEF Waits, Freed
  <1>11. Local(t)'
    <2>1. DepthOf(t)' BY <1>2, <1>6, <1>7, <1>10 DEF DepthOf
    <2>2. NodeOf(t)' BY <1>1, <1>2, <1>4, <1>6, <1>7, <1>10 DEF NodeOf, Node
    <2>3. LocksOf(t)' BY <1>0, <1>3, <1>6, <1>10 DEF Local, LocksOf, Held
    <2>4. BufferOf(t)' BY <1>2, <1>6, <1>7 DEF BufferOf, CountBuffers
    <2>5. QED BY <2>1, <2>2, <2>3, <2>4 DEF Local
  <1>12. SuccessorOf(t)'
    <2>1. InQueue(t) /\ InQueue(t)' BY <1>2, <1>6 DEF InQueue
    <2>2. Successor(t)' = Successor(t) BY <1>6 DEF Successor
    <2>3. \A u \in Threads : Linked(u) => Linked(u)'
      BY <1>3, <1>6, <1>8 DEF Linked, OnlyOf, Waits
    <2>4. QED BY <1>0, <1>6, <1>7, <2>1, <2>2, <2>3 DEF SuccessorOf, Node
  <1>13. LoadedBy(t)' BY <1>7 DEF LoadedBy
  <1>14. \A x \in Threads : HandedBy(x, t)' <=> HandedBy(x, t)
    BY <1>6 DEF HandedBy, Stores, Elements, HandStore, Node, QL!LockedOf
  <1>15. QED BY <1>3, <1>6, <1>8, <1>9, <1>10, <1>11, <1>12, <1>13, <1>14, UnseenStep

\* Clearing the node's next in unlock keeps the invariant.
LEMMA NextClearNext ==
  ASSUME QueuedIInv, NEW t \in Threads, QL!ClearNext(t)
  PROVE  QueuedIInv'
  <1>0. Types /\ Shapes /\ Local(t) /\ SuccessorOf(t) BY DEF QueuedIInv
  <1>1. qpc[t] = "clear_next" BY DEF QL!ClearNext
  <1>2. /\ ~Waits(t) /\ ~Freed(t) /\ depth[t] = 0 /\ qleft[t] > 0 /\ buf[t] \in HandBuffers
    BY <1>0, <1>1 DEF Local, DepthOf, BufferOf, Waits, Freed
  <1>3. node[t] = Node(t) BY <1>0, <1>1 DEF Local, NodeOf
  <1>4. /\ node' = [node EXCEPT ![t] = NoNode] /\ qpc' = [qpc EXCEPT ![t] = "idle"]
        /\ qleft' = [qleft EXCEPT ![t] = qleft[t] - 1]
        /\ depth' = depth /\ lock' = lock /\ other' = other /\ qreg' = qreg
    BY <1>2 DEF QL!ClearNext, QL!Return, QL!Goto
  <1>5. QL!Store(t, QL!NextOf(node[t]), NoNode) BY DEF QL!ClearNext
  <1>6. /\ Shapes' /\ mem' = mem /\ buf'[t] = Append(buf[t], ClearStore(t))
        /\ \A x \in Threads \ {t} : buf'[x] = buf[x]
    BY <1>0, <1>3, <1>5, StoreStep DEF ClearStore
  <1>7. /\ buf'[t] \in ClearBuffers(t)
        /\ Elements(buf'[t]) = Elements(buf[t]) \cup {ClearStore(t)}
    BY <1>2, <1>6, StoreClear
  <1>8. qpc'[t] = "idle" /\ qleft[t] - 1 \in Nat BY <1>0, <1>2, <1>4 DEF Types
  <1>9. OnlyOf(t) BY <1>0, <1>4, <1>6 DEF Types, OnlyOf
  <1>10. Types' BY <1>0, <1>4, <1>6, <1>8 DEF Types, QL!Steps, Count
  <1>11. ~Waits(t)' /\ ~Freed(t)' BY <1>8 DEF Waits, Freed
  <1>12. Local(t)'
    <2>1. DepthOf(t)' BY <1>2, <1>4, <1>8, <1>11 DEF DepthOf
    <2>2. NodeOf(t)' BY <1>0, <1>4, <1>8, <1>11 DEF NodeOf, Types
    <2>3. LocksOf(t)' BY <1>0, <1>2, <1>4, <1>11 DEF Local, LocksOf, Held
    <2>4. BufferOf(t)' BY <1>7, <1>8 DEF BufferOf
    <2>5. QED BY <2>1, <2>2, <2>3, <2>4 DEF Local
  <1>13. buf'[t] # <<>>
    <2>1. ClearStore(t) \in Elements(buf'[t]) BY <1>7
    <2>2. QED BY <2>1, ShortBuffers
  <1>14. SuccessorOf(t)'
    <2>1. ~InQueue(t)' BY <1>2, <1>4, <1>11 DEF InQueue
    <2>2. QED BY <1>8, <1>13, <2>1 DEF SuccessorOf
  <1>15. LoadedBy(t)' BY <1>8 DEF LoadedBy
  <1>16. \A x \in Threads : HandedBy(x, t)' <=> HandedBy(x, t)
    <2>1. Stores(t)' = Stores(t) \cup {ClearStore(t)} BY <1>7 DEF Stores, Elements
    <2>2. \A x \in Threads : HandStore(x)' = HandStore(x) BY DEF HandStore, Node, QL!LockedOf
    <2>3. QED BY <2>1, <2>2, StoresDiffer DEF HandedBy
  <1>17. QED
    BY <1>2, <1>4, <1>6, <1>9, <1>10, <1>11, <1>12, <1>14, <1>15, <1>16, UnseenStep

\* The oldest store of a buffer, and what is left without it.
LEMMA Oldest ==
  ASSUME NEW x, NEW y, NEW z
  PROVE  /\ Head(<<x>>) = x /\ Tail(<<x>>) = <<>>
         /\ Head(<<x, y>>) = x /\ Tail(<<x, y>>) = <<y>>
         /\ Head(<<x, y, z>>) = x /\ Tail(<<x, y, z>>) = <<y, z>>
  OBVIOUS

\* A pending store of FALSE to a node's mark stays, or is the oldest.
KeepsHands(b) == \A x \in Threads : HandStore(x) \in Elements(Tail(b)) <=> HandStore(x) \in Elements(b)
HandsOver(b)  == \E u \in Threads : /\ Head(b) = HandStore(u) /\ HandStore(u) \in Elements(b)
                                    /\ \A x \in Threads : HandStore(x) \notin Elements(Tail(b))

\* The oldest store of an owner is to the counter.
LEMMA DrainCount ==
  ASSUME NEW b \in CountBuffers, b # <<>>
  PROVE  /\ Tail(b) = <<>> /\ KeepsHands(b)
         /\ \E n \in Nat : Head(b) = CountStore(n)
  <1>1. PICK n \in Nat : b = <<CountStore(n)>> BY DEF CountBuffers
  <1>2. Head(b) = CountStore(n) /\ Tail(b) = <<>> BY <1>1, Oldest
  <1>3. Elements(b) = {CountStore(n)} /\ Elements(Tail(b)) = {} BY <1>1, <1>2, ShortBuffers
  <1>4. QED BY <1>2, <1>3, StoresDiffer DEF KeepsHands

\* The oldest store of a thread that has just handed over is to the counter or
\* hands over.
LEMMA DrainHand ==
  ASSUME NEW b \in HandBuffers, b # <<>>
  PROVE  /\ Tail(b) \in HandBuffers
         /\ \/ /\ KeepsHands(b) /\ \E n \in Nat : Head(b) = CountStore(n)
               /\ \E u \in Threads : HandStore(u) \in Elements(b)
            \/ HandsOver(b)
  <1>1. CASE \E u \in Threads : b = <<HandStore(u)>>
    <2>1. PICK u \in Threads : b = <<HandStore(u)>> BY <1>1
    <2>2. Head(b) = HandStore(u) /\ Tail(b) = <<>> BY <2>1, Oldest
    <2>3. Elements(b) = {HandStore(u)} /\ Elements(Tail(b)) = {} BY <2>1, <2>2, ShortBuffers
    <2>4. QED BY <2>2, <2>3 DEF HandsOver, HandBuffers
  <1>2. CASE \E n \in Nat, u \in Threads : b = <<CountStore(n), HandStore(u)>>
    <2>1. PICK n \in Nat, u \in Threads : b = <<CountStore(n), HandStore(u)>> BY <1>2
    <2>2. Head(b) = CountStore(n) /\ Tail(b) = <<HandStore(u)>> BY <2>1, Oldest
    <2>3. Elements(b) = {CountStore(n), HandStore(u)} /\ Elements(Tail(b)) = {HandStore(u)}
      BY <2>1, <2>2, ShortBuffers
    <2>4. KeepsHands(b) BY <2>3, StoresDiffer DEF KeepsHands
    <2>5. QED BY <2>2, <2>3, <2>4 DEF HandBuffers
  <1>3. QED BY <1>1, <1>2 DEF HandBuffers

\* The oldest store of a thread that is done is to the counter, hands over or
\* clears.
LEMMA DrainClear ==
  ASSUME NEW t \in Threads, NEW b \in ClearBuffers(t), b # <<>>
  PROVE  /\ Tail(b) \in ClearBuffers(t)
         /\ \/ /\ KeepsHands(b) /\ \E n \in Nat : Head(b) = CountStore(n)
               /\ \E u \in Threads : HandStore(u) \in Elements(b)
            \/ HandsOver(b)
            \/ KeepsHands(b) /\ Head(b) = ClearStore(t) /\ Tail(b) = <<>>
         /\ (\E n \in Nat : Head(b) = CountStore(n)) \/ HandsOver(b) => Tail(b) # <<>>
  <1>1. CASE b = <<ClearStore(t)>>
    <2>1. Head(b) = ClearStore(t) /\ Tail(b) = <<>> BY <1>1, Oldest
    <2>2. Elements(b) = {ClearStore(t)} /\ Elements(Tail(b)) = {} BY <1>1, <2>1, ShortBuffers
    <2>3. KeepsHands(b) /\ ~HandsOver(b) BY <2>2, StoresDiffer DEF KeepsHands, HandsOver
    <2>4. \A n : Head(b) # CountStore(n) BY <2>1, StoresDiffer
    <2>5. QED BY <2>1, <2>3, <2>4 DEF ClearBuffers
  <1>2. CASE \E u \in Threads : b = <<HandStore(u), ClearStore(t)>>
    <2>1. PICK u \in Threads : b = <<HandStore(u), ClearStore(t)>> BY <1>2
    <2>2. Head(b) = HandStore(u) /\ Tail(b) = <<ClearStore(t)>> BY <2>1, Oldest
    <2>3. Elements(b) = {HandStore(u), ClearStore(t)} /\ Elements(Tail(b)) = {ClearStore(t)}
      BY <2>1, <2>2, ShortBuffers
    <2>4. HandsOver(b) BY <2>2, <2>3, StoresDiffer DEF HandsOver
    <2>5. Tail(b) # <<>> BY <2>2
    <2>6. QED BY <2>2, <2>4, <2>5 DEF ClearBuffers
  <1>3. CASE \E n \in Nat, u \in Threads : b = <<CountStore(n), HandStore(u), ClearStore(t)>>
    <2>1. PICK n \in Nat, u \in Threads : b = <<CountStore(n), HandStore(u), ClearStore(t)>> BY <1>3
    <2>2. Head(b) = CountStore(n) /\ Tail(b) = <<HandStore(u), ClearStore(t)>> BY <2>1, Oldest
    <2>3. /\ Elements(b) = {CountStore(n), HandStore(u), ClearStore(t)}
          /\ Elements(Tail(b)) = {HandStore(u), ClearStore(t)}
      <3>1. Elements(b) = {CountStore(n), HandStore(u), ClearStore(t)} BY <2>1, StoreThird
      <3>2. Elements(<<HandStore(u), ClearStore(t)>>) = {HandStore(u), ClearStore(t)}
        BY ShortBuffers
      <3>3. Elements(Tail(b)) = {HandStore(u), ClearStore(t)} BY <2>2, <3>2
      <3>4. QED BY <3>1, <3>3
    <2>4. KeepsHands(b) BY <2>3, StoresDiffer DEF KeepsHands
    <2>5. Tail(b) # <<>> BY <2>2
    <2>6. QED BY <2>2, <2>3, <2>4, <2>5 DEF ClearBuffers
  <1>4. \/ b = <<ClearStore(t)>>
        \/ \E u \in Threads : b = <<HandStore(u), ClearStore(t)>>
        \/ \E n \in Nat, u \in Threads : b = <<CountStore(n), HandStore(u), ClearStore(t)>>
    BY DEF ClearBuffers
  <1>5. QED BY <1>1, <1>2, <1>3, <1>4

\* The oldest store of a waiting thread is its mark or its link, the mark first.
LEMMA DrainLink ==
  ASSUME NEW t \in Threads, NEW b \in LinkBuffers(t), b # <<>>
  PROVE  \E p \in Threads :
           /\ \A q : LinkStore(t, q) \in Elements(b) <=> q = p
           /\ \A x : HandStore(x) \notin Elements(b)
           /\ \/ b = <<LinkStore(t, p)>> /\ Head(b) = LinkStore(t, p) /\ Tail(b) = <<>>
                 /\ MarkStore(t) \notin Elements(b)
              \/ b = <<MarkStore(t), LinkStore(t, p)>> /\ Head(b) = MarkStore(t)
                 /\ Tail(b) = <<LinkStore(t, p)>> /\ MarkStore(t) \in Elements(b)
  <1>1. CASE \E p \in Threads : b = <<LinkStore(t, p)>>
    <2>1. PICK p \in Threads : b = <<LinkStore(t, p)>> BY <1>1
    <2>2. Head(b) = LinkStore(t, p) /\ Tail(b) = <<>> BY <2>1, Oldest
    <2>3. Elements(b) = {LinkStore(t, p)} BY <2>1, ShortBuffers
    <2>4. \A q : LinkStore(t, q) \in Elements(b) <=> q = p BY <2>3, StoresDiffer
    <2>5. \A x : HandStore(x) \notin Elements(b) /\ MarkStore(x) \notin Elements(b)
      BY <2>3, StoresDiffer
    <2>6. QED BY <2>1, <2>2, <2>4, <2>5
  <1>2. CASE \E p \in Threads : b = <<MarkStore(t), LinkStore(t, p)>>
    <2>1. PICK p \in Threads : b = <<MarkStore(t), LinkStore(t, p)>> BY <1>2
    <2>2. Head(b) = MarkStore(t) /\ Tail(b) = <<LinkStore(t, p)>> BY <2>1, Oldest
    <2>3. Elements(b) = {MarkStore(t), LinkStore(t, p)} BY <2>1, ShortBuffers
    <2>4. \A q : LinkStore(t, q) \in Elements(b) <=> q = p BY <2>3, StoresDiffer
    <2>5. \A x : HandStore(x) \notin Elements(b) BY <2>3, StoresDiffer
    <2>6. QED BY <2>1, <2>2, <2>3, <2>4, <2>5
  <1>3. QED BY <1>1, <1>2 DEF LinkBuffers

\* A flush leaves the thread where it is, with one store less.
LEMMA Flushed ==
  ASSUME QueuedIInv, NEW t \in Threads, QL!Flush(t)
  PROVE  /\ OnlyOf(t) /\ Local(t)' /\ buf[t] # <<>> /\ QL!FlushBuffer(t)
         /\ buf'[t] = Tail(buf[t])
         /\ qpc' = qpc /\ depth' = depth /\ lock' = lock /\ node' = node /\ other' = other
         /\ qreg' = qreg /\ qleft' = qleft
         /\ (Waits(t)' <=> Waits(t))
  <1>0. Shapes /\ Local(t) BY DEF QueuedIInv
  <1>1. /\ QL!FlushBuffer(t)
        /\ qpc' = qpc /\ depth' = depth /\ lock' = lock /\ node' = node /\ other' = other
        /\ qreg' = qreg /\ qleft' = qleft
    BY DEF QL!Flush
  <1>2. buf[t] # <<>> /\ buf' = [buf EXCEPT ![t] = Tail(buf[t])] BY <1>1 DEF QL!FlushBuffer
  <1>3. buf'[t] = Tail(buf[t]) /\ \A x \in Threads \ {t} : buf'[x] = buf[x]
    BY <1>0, <1>2 DEF Shapes
  <1>4. OnlyOf(t) BY <1>1, <1>3 DEF OnlyOf
  <1>5. /\ (Waits(t)' <=> Waits(t)) /\ (Freed(t)' <=> Freed(t)) /\ Held(t)' = Held(t)
    BY <1>1 DEF Waits, Freed, Held
  <1>6. DepthOf(t)' /\ LocksOf(t)' BY <1>0, <1>1, <1>5 DEF Local, DepthOf, LocksOf
  <1>7. NodeOf(t)' BY <1>0, <1>1, <1>5 DEF Local, NodeOf, Node
  <1>8. BufferOf(t)'
    <2>1. BufferOf(t) BY <1>0 DEF Local
    <2>2. qpc[t] = "link" => Tail(buf[t]) = <<>>
      <3>1. qpc[t] = "link" => buf[t] = <<MarkStore(t)>> BY <1>2, <2>1 DEF BufferOf
      <3>2. QED BY <3>1, Oldest
    <2>3. buf[t] \in LinkBuffers(t) => Tail(buf[t]) \in LinkBuffers(t)
      <3>1. SUFFICES ASSUME buf[t] \in LinkBuffers(t) PROVE Tail(buf[t]) \in LinkBuffers(t)
        OBVIOUS
      <3>2. PICK p \in Threads : Tail(buf[t]) = <<>> \/ Tail(buf[t]) = <<LinkStore(t, p)>>
        BY <1>2, <3>1, DrainLink
      <3>3. QED BY <3>2 DEF LinkBuffers
    <2>4. buf[t] \in CountBuffers => Tail(buf[t]) \in CountBuffers
      BY <1>2, DrainCount DEF CountBuffers
    <2>5. buf[t] \in HandBuffers => Tail(buf[t]) \in HandBuffers BY <1>2, DrainHand
    <2>6. buf[t] \in ClearBuffers(t) => Tail(buf[t]) \in ClearBuffers(t) BY <1>2, DrainClear
    <2>7. QED BY <1>1, <1>2, <1>3, <2>1, <2>2, <2>3, <2>4, <2>5, <2>6 DEF BufferOf
  <1>9. QED BY <1>1, <1>2, <1>3, <1>4, <1>5, <1>6, <1>7, <1>8 DEF Local

\* The types, when only memory changes.
LEMMA TypesWritten ==
  ASSUME Types, SameTails(0), Count' \in Nat,
         \A n \in QL!Nodes : /\ mem'[QL!NextOf(n)] \in QL!Nodes \cup {NoNode}
                             /\ mem'[QL!LockedOf(n)] \in BOOLEAN,
         qpc' = qpc, depth' = depth, lock' = lock, node' = node, other' = other,
         qreg' = qreg, qleft' = qleft
  PROVE  Types'
  <1>1. \A l \in QL!Locks : mem'[QL!TailOf(l)] \in QL!Nodes \cup {NoNode}
    <2> TAKE l \in QL!Locks
    <2>1. PICK k \in 1..Len(Order) : l = Order[k] BY DEF QL!Locks
    <2>2. k # 0 BY QueuedPlaces
    <2>3. QED BY <2>1, <2>2 DEF SameTails, TailAt, Types
  <1>2. QED BY <1>1 DEF Types

\* Who is in the queue and has nobody in front.
LEMMA Owners ==
  ASSUME QueuedIInv, NEW t \in Threads, NEW x \in Threads, depth[x] > 0,
         depth[t] > 0 \/ \E u \in Threads : HandedBy(u, t)
  PROVE  x = t
  <1>0. Queue BY DEF QueuedIInv
  <1>1. First(x) BY DEF First
  <1>2. CASE depth[t] > 0
    <2>1. First(t) BY <1>2 DEF First
    <2>2. QED BY <1>0, <1>1, <2>1 DEF Queue
  <1>3. CASE \E u \in Threads : HandedBy(u, t)
    <2>1. PICK u \in Threads : HandedBy(u, t) BY <1>3
    <2>2. Linked(u) BY <2>1 DEF QueuedIInv, MarkOf
    <2>3. First(u) BY <2>1, <2>2 DEF First, Handed
    <2>4. x = u BY <1>0, <1>1, <2>3 DEF Queue
    <2>5. depth[u] = 0 BY <2>2 DEF QueuedIInv, Local, DepthOf, Linked, Waits
    <2>6. depth[x] = 0 BY <2>4, <2>5
    <2>7. QED BY <2>6
  <1>4. QED BY <1>2, <1>3

\* Writing back a store to the counter keeps the invariant.
LEMMA NextFlushCount ==
  ASSUME QueuedIInv, NEW t \in Threads, QL!Flush(t), ~Waits(t),
         NEW n \in Nat, Head(buf[t]) = CountStore(n), KeepsHands(buf[t]),
         Tail(buf[t]) # <<>> \/ qpc[t] \notin {"idle", "exchange"},
         depth[t] > 0 \/ \E u \in Threads : HandedBy(u, t)
  PROVE  QueuedIInv'
  <1>0. Types /\ Shapes /\ Local(t) /\ SuccessorOf(t) BY DEF QueuedIInv
  <1>1. /\ OnlyOf(t) /\ Local(t)' /\ buf[t] # <<>> /\ QL!FlushBuffer(t)
        /\ buf'[t] = Tail(buf[t])
        /\ qpc' = qpc /\ depth' = depth /\ lock' = lock /\ node' = node /\ other' = other
        /\ qreg' = qreg /\ qleft' = qleft
        /\ ~Waits(t)'
    BY Flushed
  <1>2. Head(buf[t]) = <<QL!Counter, n>> BY DEF CountStore
  <1>3. Shapes' /\ mem' = [mem EXCEPT ![QL!Counter] = n]
    BY <1>0, <1>1, <1>2, QueuedPlaces, FlushStep
  <1>4. SameTails(0) /\ SameNexts /\ SameLockeds /\ Count' = n BY <1>0, <1>3, WriteCount
  <1>5. /\ \A x \in Threads : Successor(x)' = Successor(x) /\ Marked(x)' = Marked(x)
        /\ TailAt(1)' = TailAt(1) /\ SameTails(1) /\ InnerNexts
    BY <1>4, NodesKept, InnerNextsKept
  <1>6. InnerLocks' BY <1>1, <1>5, InnerKept
  <1>7. Types'
    <2>1. \A m \in QL!Nodes : /\ mem'[QL!NextOf(m)] \in QL!Nodes \cup {NoNode}
                              /\ mem'[QL!LockedOf(m)] \in BOOLEAN
      BY <1>0, <1>4 DEF SameNexts, SameLockeds, Types
    <2>2. QED BY <1>0, <1>1, <1>4, <2>1, TypesWritten
  <1>8. \A x \in Threads : HandedBy(x, t)' <=> HandedBy(x, t)
    <2>1. \A x \in Threads : HandStore(x)' = HandStore(x) BY DEF HandStore, Node, QL!LockedOf
    <2>2. Stores(t)' = Elements(Tail(buf[t])) BY <1>1 DEF Stores, Elements
    <2>3. QED BY <2>1, <2>2 DEF HandedBy, KeepsHands, Stores
  <1>9. /\ Queue' /\ QueueTail'
        /\ \A x \in Threads : MarkOf(x)'
        /\ \A x \in Threads \ {t} : SuccessorOf(x)'
        /\ \A x \in Threads : (InQueue(x)' <=> InQueue(x)) /\ (Linked(x)' <=> Linked(x))
    BY <1>1, <1>5, <1>8, Unseen
  <1>10. SuccessorOf(t)'
    <2>1. ~InQueue(t) /\ qpc[t] # "clear_next" => Tail(buf[t]) # <<>>
      <3>1. ~InQueue(t) => depth[t] = 0 BY <1>0 DEF InQueue, Types
      <3>2. depth[t] = 0 /\ ~Waits(t) /\ qpc[t] # "clear_next" => qpc[t] \in {"idle", "exchange"}
        BY <1>0, QueuedPlaces
        DEF Types, QL!Steps, QL!LockSteps, QL!UnlockSteps, Waits, Local, DepthOf
      <3>3. QED BY <3>1, <3>2
    <2>2. QED BY <1>0, <1>1, <1>5, <1>9, <2>1 DEF SuccessorOf, Node, Waits
  <1>11. \A x \in Threads : LoadedBy(x)'
    <2>1. \A x \in Threads : qpc[x] = "write" => depth[x] > 0
      BY QueuedPlaces DEF QueuedIInv, Local, DepthOf
    <2>2. qpc[t] # "write" BY <1>0, <1>1 DEF Local, BufferOf
    <2>3. \A x \in Threads : qpc[x] # "write" BY <2>1, <2>2, Owners
    <2>4. QED BY <1>1, <2>3 DEF LoadedBy
  <1>12. \A x \in Threads : SuccessorOf(x)' BY <1>9, <1>10
  <1>13. \A x \in Threads : Local(x)' BY <1>1, LocalKept DEF QueuedIInv
  <1>14. QED BY <1>3, <1>6, <1>7, <1>9, <1>11, <1>12, <1>13 DEF QueuedIInv

\* A write to the next of a first node keeps those of the inner nodes.
LEMMA InnerNextsWritten ==
  ASSUME NEW p \in Threads,
         \A n \in QL!Nodes : n # Node(p) => mem'[QL!NextOf(n)] = mem[QL!NextOf(n)]
  PROVE  InnerNexts
  <1>1. \A k \in 2..MaxNested : k \in 1..MaxNested /\ k # 1 BY QueuedPlaces
  <1>2. \A x \in Threads : \A k \in 2..MaxNested : <<x, k>> \in QL!Nodes /\ <<x, k>> # Node(p)
    BY <1>1, QueuedPlaces DEF Node
  <1>3. QED BY <1>2 DEF InnerNexts

\* Writing back a store that clears a next keeps the invariant.
LEMMA NextFlushClear ==
  ASSUME QueuedIInv, NEW t \in Threads, QL!Flush(t), ~Waits(t), depth[t] = 0,
         Head(buf[t]) = ClearStore(t), KeepsHands(buf[t])
  PROVE  QueuedIInv'
  <1>0. Types /\ Shapes /\ Local(t) /\ SuccessorOf(t) BY DEF QueuedIInv
  <1>1. /\ OnlyOf(t) /\ Local(t)' /\ buf[t] # <<>> /\ QL!FlushBuffer(t)
        /\ buf'[t] = Tail(buf[t])
        /\ qpc' = qpc /\ depth' = depth /\ lock' = lock /\ node' = node /\ other' = other
        /\ qreg' = qreg /\ qleft' = qleft
        /\ ~Waits(t)'
    BY Flushed
  <1>2. Head(buf[t]) = <<QL!NextOf(Node(t)), NoNode>> BY DEF ClearStore
  <1>3. Shapes' /\ mem' = [mem EXCEPT ![QL!NextOf(Node(t))] = NoNode]
    BY <1>0, <1>1, <1>2, QueuedPlaces, FlushStep
  <1>4. /\ SameTails(0) /\ SameLockeds /\ Count' = Count
        /\ \A m \in QL!Nodes :
             mem'[QL!NextOf(m)] = IF m = Node(t) THEN NoNode ELSE mem[QL!NextOf(m)]
        /\ \A x \in Threads : Successor(x)' = IF x = t THEN NoNode ELSE Successor(x)
    BY <1>0, <1>3, WriteNext
  <1>5. /\ \A x \in Threads : Marked(x)' = Marked(x)
        /\ TailAt(1)' = TailAt(1) /\ SameTails(1)
    BY <1>4, NodesKept
  <1>6. InnerNexts BY <1>4, InnerNextsWritten
  <1>7. InnerLocks' BY <1>1, <1>5, <1>6, InnerKept
  <1>8. Types'
    <2>1. \A m \in QL!Nodes : /\ mem'[QL!NextOf(m)] \in QL!Nodes \cup {NoNode}
                              /\ mem'[QL!LockedOf(m)] \in BOOLEAN
      BY <1>0, <1>4 DEF SameLockeds, Types
    <2>2. Count \in Nat BY <1>0 DEF Types
    <2>3. QED BY <1>0, <1>1, <1>4, <2>1, <2>2, TypesWritten
  <1>9. \A x \in Threads : HandedBy(x, t)' <=> HandedBy(x, t)
    <2>1. \A x \in Threads : HandStore(x)' = HandStore(x) BY DEF HandStore, Node, QL!LockedOf
    <2>2. Stores(t)' = Elements(Tail(buf[t])) BY <1>1 DEF Stores, Elements
    <2>3. QED BY <2>1, <2>2 DEF HandedBy, KeepsHands, Stores
  <1>10. ~InQueue(t) BY DEF InQueue
  <1>11. /\ Queue' /\ QueueTail'
         /\ \A x \in Threads : MarkOf(x)'
         /\ \A x \in Threads \ {t} : SuccessorOf(x)'
         /\ \A x \in Threads : (InQueue(x)' <=> InQueue(x)) /\ (Linked(x)' <=> Linked(x))
    BY <1>1, <1>4, <1>5, <1>9, <1>10, Unseen
  <1>12. SuccessorOf(t)'
    <2>1. qpc[t] # "hand_over" BY <1>0 DEF Local, DepthOf
    <2>2. QED BY <1>1, <1>4, <1>10, <1>11, <2>1 DEF SuccessorOf, Waits
  <1>13. \A x \in Threads : SuccessorOf(x)' BY <1>11, <1>12
  <1>14. LoadedBy(t)'
    <2>1. qpc[t] # "write" BY <1>0, <1>1 DEF Local, BufferOf
    <2>2. QED BY <1>1, <2>1 DEF LoadedBy
  <1>15. QED BY <1>1, <1>3, <1>4, <1>7, <1>8, <1>11, <1>13, <1>14, Together

\* A mark is written to memory: the node of u is that of a waiting thread, or the
\* lock has been handed to it.
LEMMA NextFlushHand ==
  ASSUME QueuedIInv, NEW t \in Threads, QL!Flush(t), ~Waits(t), HandsOver(buf[t]),
         Tail(buf[t]) # <<>> \/ qpc[t] \notin {"idle", "exchange"}
  PROVE  QueuedIInv'
  <1>0. Types /\ Shapes /\ Local(t) /\ SuccessorOf(t) /\ Queue /\ QueueTail BY DEF QueuedIInv
  <1>1. /\ OnlyOf(t) /\ Local(t)' /\ buf[t] # <<>> /\ QL!FlushBuffer(t)
        /\ buf'[t] = Tail(buf[t])
        /\ qpc' = qpc /\ depth' = depth /\ lock' = lock /\ node' = node /\ other' = other
        /\ qreg' = qreg /\ qleft' = qleft
        /\ ~Waits(t)'
    BY Flushed
  <1>2. PICK u \in Threads : /\ Head(buf[t]) = HandStore(u) /\ HandStore(u) \in Elements(buf[t])
                             /\ \A x \in Threads : HandStore(x) \notin Elements(Tail(buf[t]))
    BY DEF HandsOver
  <1>3. Head(buf[t]) = <<QL!LockedOf(Node(u)), FALSE>> BY <1>2 DEF HandStore
  <1>4. Shapes' /\ mem' = [mem EXCEPT ![QL!LockedOf(Node(u))] = FALSE]
    <2>1. QL!LockedOf(Node(u)) \in Locations BY QueuedPlaces
    <2>2. QED BY <1>0, <1>1, <1>3, <2>1, FlushStep
  <1>5. /\ SameTails(0) /\ SameNexts /\ Count' = Count
        /\ \A m \in QL!Nodes :
             mem'[QL!LockedOf(m)] = IF m = Node(u) THEN FALSE ELSE mem[QL!LockedOf(m)]
        /\ \A x \in Threads : Marked(x)' = IF x = u THEN FALSE ELSE Marked(x)
    BY <1>0, <1>4, WriteMark
  <1>6. /\ \A x \in Threads : Successor(x)' = Successor(x)
        /\ TailAt(1)' = TailAt(1) /\ SameTails(1) /\ InnerNexts
    BY <1>5, NodesKept, InnerNextsKept
  <1>7. InnerLocks' BY <1>1, <1>6, InnerKept
  <1>8. Types'
    <2>1. \A m \in QL!Nodes : /\ mem'[QL!NextOf(m)] \in QL!Nodes \cup {NoNode}
                              /\ mem'[QL!LockedOf(m)] \in BOOLEAN
      BY <1>0, <1>5 DEF SameNexts, Types
    <2>2. Count \in Nat BY <1>0 DEF Types
    <2>3. QED BY <1>0, <1>1, <1>5, <2>1, <2>2, TypesWritten
  <1>9. HandedBy(u, t) /\ \A x \in Threads : ~HandedBy(x, t)'
    <2>1. \A x \in Threads : HandStore(x)' = HandStore(x) BY DEF HandStore, Node, QL!LockedOf
    <2>2. Stores(t)' = Elements(Tail(buf[t])) BY <1>1 DEF Stores, Elements
    <2>3. QED BY <1>2, <2>1, <2>2 DEF HandedBy, Stores
  <1>10. \A x, s \in Threads : s # t => (HandedBy(x, s)' <=> HandedBy(x, s))
    <2> TAKE x, s \in Threads
    <2>1. s # t => buf'[s] = buf[s] BY <1>1 DEF OnlyOf
    <2>2. QED BY <2>1 DEF HandedBy, Stores, Elements, HandStore, Node, QL!LockedOf
  <1>11. Linked(u) /\ \A s \in Threads : HandedBy(u, s) => s = t
    BY <1>9 DEF QueuedIInv, MarkOf
  <1>12. \A x \in Threads : HandedBy(x, t) => x = u
    <2>1. \A x \in Threads : HandedBy(x, t) => Linked(x) BY DEF QueuedIInv, MarkOf
    <2>2. \A x \in Threads : HandedBy(x, t) => First(x) BY <2>1 DEF First, Handed
    <2>3. QED BY <1>0, <1>9, <2>2 DEF Queue
  <1>13. \A x \in Threads : /\ (InQueue(x)' <=> InQueue(x)) /\ (Linked(x)' <=> Linked(x))
                            /\ (Waits(x)' <=> Waits(x))
    BY <1>1 DEF InQueue, Linked, Waits, OnlyOf
  <1>14. \A x \in Threads : First(x)' <=> First(x)
    <2> TAKE x \in Threads
    <2>1. CASE x = u
      BY <1>5, <1>9, <1>11, <1>13, <2>1 DEF First, Handed
    <2>2. CASE x # u
      <3>1. \A s \in Threads : HandedBy(x, s)' <=> HandedBy(x, s)
        BY <1>9, <1>10, <1>12, <2>2
      <3>2. QED BY <1>1, <1>5, <1>13, <2>2, <3>1 DEF First, Handed
    <2>3. QED BY <2>1, <2>2
  <1>15. \A x, p \in Threads : Behind(x, p)' <=> Behind(x, p)
    <2> TAKE x, p \in Threads
    <2>1. CASE x = t BY <1>1, <1>13, <2>1 DEF Behind, Waits, Linked
    <2>2. CASE x # t
      <3>1. qpc'[x] = qpc[x] /\ other'[x] = other[x] /\ buf'[x] = buf[x]
        BY <1>1, <2>2 DEF OnlyOf
      <3>2. (LinkStore(x, p) \in Stores(x))' <=> LinkStore(x, p) \in Stores(x)
        BY <3>1 DEF Stores, Elements, LinkStore, Node, QL!NextOf
      <3>3. (Linked(x) /\ InQueue(p) /\ Successor(p) = Node(x))'
              <=> Linked(x) /\ InQueue(p) /\ Successor(p) = Node(x)
        BY <1>6, <1>13 DEF Node
      <3>4. QED BY <3>1, <3>2, <3>3 DEF Behind, Node
    <2>3. QED BY <2>1, <2>2
  <1>16. Queue' /\ QueueTail' BY <1>0, <1>6, <1>13, <1>14, <1>15, QueueKept
  <1>17. \A x \in Threads : MarkOf(x)'
    <2> TAKE x \in Threads
    <2>1. MarkOf(x) BY DEF QueuedIInv
    <2>2. \A s \in Threads : HandedBy(x, s)' => s # t /\ HandedBy(x, s) /\ x # u
      BY <1>9, <1>10, <1>11
    <2>3. \A s \in Threads : HandedBy(x, s)' => Linked(x)' /\ Marked(x)'
      BY <1>5, <1>13, <2>1, <2>2 DEF MarkOf
    <2>4. \A s, r \in Threads : HandedBy(x, s)' /\ HandedBy(x, r)' => s = r
      BY <2>1, <2>2 DEF MarkOf
    <2>5. CASE x = t BY <1>1, <2>3, <2>4, <2>5 DEF MarkOf, Waits
    <2>6. CASE x # t
      <3>1. qpc'[x] = qpc[x] /\ buf'[x] = buf[x] BY <1>1, <2>6 DEF OnlyOf
      <3>2. (MarkStore(x) \in Stores(x))' <=> MarkStore(x) \in Stores(x)
        BY <3>1 DEF Stores, Elements, MarkStore, Node, QL!LockedOf
      <3>3. x = u => ~(qpc'[x] = "link" /\ buf'[x] = <<>>) /\ ~(buf'[x] # <<>>)
        BY <1>11, <3>1 DEF Linked
      <3>4. x # u => Marked(x)' = Marked(x) BY <1>5
      <3>5. QED BY <2>1, <2>3, <2>4, <3>1, <3>2, <3>3, <3>4 DEF MarkOf
    <2>7. QED BY <2>5, <2>6
  <1>18. \A x \in Threads : SuccessorOf(x)'
    <2> TAKE x \in Threads
    <2>1. SuccessorOf(x) BY DEF QueuedIInv
    <2>2. ~InQueue(t) /\ qpc[t] # "clear_next" => buf'[t] # <<>>
      <3>1. ~InQueue(t) => depth[t] = 0 BY <1>0 DEF InQueue, Types
      <3>2. depth[t] = 0 /\ ~Waits(t) /\ qpc[t] # "clear_next" => qpc[t] \in {"idle", "exchange"}
        BY <1>0, QueuedPlaces
        DEF Types, QL!Steps, QL!LockSteps, QL!UnlockSteps, Waits, Local, DepthOf
      <3>3. QED BY <1>1, <3>1, <3>2
    <2>3. x # t => buf'[x] = buf[x] BY <1>1 DEF OnlyOf
    <2>4. QED BY <1>1, <1>6, <1>13, <1>15, <2>1, <2>2, <2>3 DEF SuccessorOf, Node
  <1>19. LoadedBy(t)'
    <2>1. qpc[t] # "write" BY <1>0, <1>1 DEF Local, BufferOf
    <2>2. QED BY <1>1, <2>1 DEF LoadedBy
  <1>20. QED BY <1>1, <1>4, <1>5, <1>7, <1>8, <1>16, <1>17, <1>18, <1>19, Together

\* A step of a thread that waits for the lock, before it is linked.
LEMMA Waiting ==
  ASSUME QueuedIInv, NEW t \in Threads, OnlyOf(t), Waits(t), Waits(t)', depth'[t] = depth[t],
         ~Linked(t), ~Linked(t)',
         \A p \in Threads : Behind(t, p)' <=> Behind(t, p),
         \A x \in Threads : ~HandedBy(x, t) /\ ~HandedBy(x, t)',
         \A x \in Threads \ {t} : Marked(x)' = Marked(x),
         SameTails(0), SameNexts, Count' = Count, Types', Shapes', Local(t)',
         qpc'[t] = "link" /\ buf'[t] = <<>> => Marked(t)',
         qpc'[t] = "spin" /\ buf'[t] # <<>> /\ MarkStore(t) \notin Stores(t)' => Marked(t)',
         qpc'[t] = "spin" \/ qpc[t] \in {"set_locked", "link"}
  PROVE  QueuedIInv'
  <1>1. \A x \in Threads : (Waits(x)' <=> Waits(x)) /\ (InQueue(x)' <=> InQueue(x))
    BY DEF OnlyOf, Waits, InQueue
  <1>2. \A x \in Threads : Linked(x)' <=> Linked(x) BY DEF OnlyOf, Linked
  <1>3. /\ \A x \in Threads : Successor(x)' = Successor(x)
        /\ TailAt(1)' = TailAt(1) /\ SameTails(1) /\ InnerNexts
    BY NodesKept, InnerNextsKept
  <1>4. \A x, p \in Threads : Behind(x, p)' <=> Behind(x, p)
    <2> TAKE x, p \in Threads
    <2>1. CASE x = t BY <2>1
    <2>2. CASE x # t
      <3>1. qpc'[x] = qpc[x] /\ other'[x] = other[x] /\ buf'[x] = buf[x] BY <2>2 DEF OnlyOf
      <3>2. (LinkStore(x, p) \in Stores(x))' <=> LinkStore(x, p) \in Stores(x)
        BY <3>1 DEF Stores, Elements, LinkStore, Node, QL!NextOf
      <3>3. (Linked(x) /\ InQueue(p) /\ Successor(p) = Node(x))'
              <=> Linked(x) /\ InQueue(p) /\ Successor(p) = Node(x)
        BY <1>1, <1>2, <1>3 DEF Node
      <3>4. QED BY <3>1, <3>2, <3>3 DEF Behind, Node
    <2>3. QED BY <2>1, <2>2
  <1>5. \A x, s \in Threads : HandedBy(x, s)' <=> HandedBy(x, s)
    <2> TAKE x, s \in Threads
    <2>1. s # t => buf'[s] = buf[s] BY DEF OnlyOf
    <2>2. QED BY <2>1 DEF HandedBy, Stores, Elements, HandStore, Node, QL!LockedOf
  <1>6. \A x \in Threads : First(x)' <=> First(x)
    <2> TAKE x \in Threads
    <2>1. depth'[x] = depth[x] BY DEF OnlyOf
    <2>2. x = t => (Handed(x)' <=> Handed(x)) BY <1>2 DEF Handed
    <2>3. x # t => (Handed(x)' <=> Handed(x)) BY <1>2, <1>5 DEF Handed
    <2>4. QED BY <2>1, <2>2, <2>3 DEF First
  <1>7. Queue' /\ QueueTail' BY <1>1, <1>3, <1>4, <1>6, QueueKept DEF QueuedIInv
  <1>8. \A x \in Threads : MarkOf(x)'
    <2> TAKE x \in Threads
    <2>1. MarkOf(x) BY DEF QueuedIInv
    <2>2. \A s \in Threads : HandedBy(x, s)' => Linked(x)' /\ x # t
      BY <1>2, <1>5, <2>1 DEF MarkOf
    <2>3. \A s \in Threads : HandedBy(x, s)' => Linked(x)' /\ Marked(x)'
      BY <1>2, <1>5, <2>1, <2>2 DEF MarkOf
    <2>4. \A s, r \in Threads : HandedBy(x, s)' /\ HandedBy(x, r)' => s = r
      BY <1>5, <2>1 DEF MarkOf
    <2>5. CASE x = t BY <2>3, <2>4, <2>5 DEF MarkOf, MarkStore, Node, QL!LockedOf
    <2>6. CASE x # t
      <3>1. qpc'[x] = qpc[x] /\ buf'[x] = buf[x] BY <2>6 DEF OnlyOf
      <3>2. (MarkStore(x) \in Stores(x))' <=> MarkStore(x) \in Stores(x)
        BY <3>1 DEF Stores, Elements, MarkStore, Node, QL!LockedOf
      <3>3. QED BY <2>1, <2>3, <2>4, <2>6, <3>1, <3>2 DEF MarkOf
    <2>7. QED BY <2>5, <2>6
  <1>9. \A x \in Threads : SuccessorOf(x)'
    <2> TAKE x \in Threads
    <2>1. SuccessorOf(x) BY DEF QueuedIInv
    <2>2. CASE x = t
      <3>1. InQueue(t) BY DEF InQueue
      <3>2. qpc'[t] # "hand_over" BY DEF Waits
      <3>3. qpc'[t] \in {"set_locked", "link"} => qpc[t] \in {"set_locked", "link"}
        OBVIOUS
      <3>4. QED BY <1>1, <1>2, <1>3, <1>4, <2>1, <2>2, <3>1, <3>2, <3>3 DEF SuccessorOf, Node
    <2>3. CASE x # t
      <3>1. qpc'[x] = qpc[x] /\ other'[x] = other[x] /\ buf'[x] = buf[x] BY <2>3 DEF OnlyOf
      <3>2. QED BY <1>1, <1>2, <1>3, <1>4, <2>1, <3>1 DEF SuccessorOf, Node
    <2>4. QED BY <2>2, <2>3
  <1>10. InnerLocks' BY <1>3, InnerKept
  <1>11. LoadedBy(t)' BY DEF LoadedBy, Waits
  <1>12. QED BY <1>7, <1>8, <1>9, <1>10, <1>11, Together

\* Storing a waiting thread's mark keeps the invariant.
LEMMA NextSetLocked ==
  ASSUME QueuedIInv, NEW t \in Threads, QL!SetLocked(t)
  PROVE  QueuedIInv'
  <1>0. Types /\ Shapes /\ Local(t) /\ SuccessorOf(t) BY DEF QueuedIInv
  <1>1. /\ qpc[t] = "set_locked" /\ qpc' = [qpc EXCEPT ![t] = "link"]
        /\ depth' = depth /\ lock' = lock /\ node' = node /\ other' = other
        /\ qreg' = qreg /\ qleft' = qleft
    BY DEF QL!SetLocked, QL!Goto
  <1>2. Waits(t) /\ buf[t] = <<>> /\ depth[t] = 0 /\ qleft[t] > 0
    BY <1>0, <1>1 DEF Local, DepthOf, BufferOf, Waits
  <1>3. node[t] = Node(t) BY <1>0, <1>2 DEF Local, NodeOf
  <1>4. QL!Store(t, QL!LockedOf(node[t]), TRUE) BY DEF QL!SetLocked
  <1>5. /\ Shapes' /\ mem' = mem /\ buf'[t] = Append(buf[t], MarkStore(t))
        /\ \A x \in Threads \ {t} : buf'[x] = buf[x]
    BY <1>0, <1>3, <1>4, StoreStep DEF MarkStore
  <1>6. buf'[t] = <<MarkStore(t)>> BY <1>2, <1>5, ShortBuffers
  <1>7. qpc'[t] = "link" BY <1>0, <1>1 DEF Types
  <1>8. OnlyOf(t) BY <1>0, <1>1, <1>5 DEF Types, OnlyOf
  <1>9. Types' BY <1>0, <1>1, <1>5, <1>7 DEF Types, QL!Steps, QL!LockSteps, Count
  <1>10. /\ Waits(t)' /\ ~Linked(t) /\ ~Linked(t)' /\ ~Freed(t) /\ ~Freed(t)'
    BY <1>1, <1>7 DEF Waits, Linked, Freed
  <1>11. Local(t)'
    <2>1. DepthOf(t)' BY <1>1, <1>2, <1>7 DEF DepthOf
    <2>2. NodeOf(t)' BY <1>1, <1>3, <1>10 DEF NodeOf, Node
    <2>3. LocksOf(t)' BY <1>0, <1>1, <1>10 DEF Local, LocksOf, Held
    <2>4. BufferOf(t)' BY <1>6, <1>7 DEF BufferOf
    <2>5. QED BY <2>1, <2>2, <2>3, <2>4 DEF Local
  <1>12. Stores(t) = {} /\ Stores(t)' = {MarkStore(t)}
    BY <1>2, <1>6, ShortBuffers DEF Stores
  <1>13. \A x \in Threads : ~HandedBy(x, t) /\ ~HandedBy(x, t)'
    <2>1. \A x \in Threads : HandStore(x)' = HandStore(x) BY DEF HandStore, Node, QL!LockedOf
    <2>2. QED BY <1>12, <2>1, StoresDiffer DEF HandedBy
  <1>14. \A p \in Threads : Behind(t, p)' <=> Behind(t, p)
    BY <1>1, <1>7, <1>10 DEF Behind, Node
  <1>15. /\ SameTails(0) /\ SameNexts /\ SameLockeds /\ Count' = Count BY <1>5, MemoryKept
  <1>16. \A x \in Threads : Marked(x)' = Marked(x) BY <1>15, NodesKept
  <1>17. buf'[t] # <<>> BY <1>6
  <1>18. QED
    BY <1>1, <1>2, <1>5, <1>7, <1>8, <1>9, <1>10, <1>11, <1>13, <1>14, <1>15, <1>16, <1>17, Waiting

\* Storing the link to a waiting thread keeps the invariant.
LEMMA NextLink ==
  ASSUME QueuedIInv, NEW t \in Threads, QL!Link(t)
  PROVE  QueuedIInv'
  <1>0. Types /\ Shapes /\ Local(t) /\ SuccessorOf(t) /\ MarkOf(t) BY DEF QueuedIInv
  <1>1. /\ qpc[t] = "link" /\ qpc' = [qpc EXCEPT ![t] = "spin"]
        /\ other' = [other EXCEPT ![t] = NoNode]
        /\ depth' = depth /\ lock' = lock /\ node' = node /\ qreg' = qreg /\ qleft' = qleft
    BY DEF QL!Link, QL!Goto
  <1>2. Waits(t) /\ buf[t] \in {<<>>, <<MarkStore(t)>>} /\ depth[t] = 0 /\ qleft[t] > 0
    BY <1>0, <1>1 DEF Local, DepthOf, BufferOf, Waits
  <1>3. node[t] = Node(t) BY <1>0, <1>2 DEF Local, NodeOf
  <1>4. PICK p \in Threads : Behind(t, p) BY <1>0, <1>1 DEF SuccessorOf
  <1>5. other[t] = Node(p) BY <1>1, <1>4 DEF Behind, Linked
  <1>6. QL!Store(t, QL!NextOf(other[t]), node[t]) BY DEF QL!Link
  <1>7. /\ Shapes' /\ mem' = mem /\ buf'[t] = Append(buf[t], LinkStore(t, p))
        /\ \A x \in Threads \ {t} : buf'[x] = buf[x]
    BY <1>0, <1>3, <1>5, <1>6, StoreStep DEF LinkStore
  <1>8. /\ buf'[t] \in LinkBuffers(t)
        /\ Elements(buf'[t]) = Elements(buf[t]) \cup {LinkStore(t, p)}
    <2>1. PICK b \in {<<>>, <<MarkStore(t)>>} : b = buf[t] BY <1>2
    <2>2. /\ Append(b, LinkStore(t, p)) \in LinkBuffers(t)
          /\ Elements(Append(b, LinkStore(t, p))) = Elements(b) \cup {LinkStore(t, p)}
      BY StoreLink
    <2>3. QED BY <1>7, <2>1, <2>2
  <1>9. qpc'[t] = "spin" BY <1>0, <1>1 DEF Types
  <1>10. OnlyOf(t) BY <1>0, <1>1, <1>7 DEF Types, OnlyOf
  <1>11. Types' BY <1>0, <1>1, <1>7, <1>9 DEF Types, QL!Steps, QL!LockSteps, Count
  <1>12. buf'[t] # <<>>
    <2>1. LinkStore(t, p) \in Elements(buf'[t]) BY <1>8
    <2>2. QED BY <2>1, ShortBuffers
  <1>13. /\ Waits(t)' /\ ~Linked(t) /\ ~Linked(t)' /\ ~Freed(t) /\ ~Freed(t)'
    BY <1>1, <1>9, <1>12 DEF Waits, Linked, Freed
  <1>14. Local(t)'
    <2>1. DepthOf(t)' BY <1>1, <1>2, <1>9 DEF DepthOf
    <2>2. NodeOf(t)' BY <1>1, <1>3, <1>13 DEF NodeOf, Node
    <2>3. LocksOf(t)' BY <1>0, <1>1, <1>13 DEF Local, LocksOf, Held
    <2>4. BufferOf(t)' BY <1>8, <1>9 DEF BufferOf
    <2>5. QED BY <2>1, <2>2, <2>3, <2>4 DEF Local
  <1>15. /\ Elements(buf[t]) = {} \/ Elements(buf[t]) = {MarkStore(t)}
         /\ buf[t] # <<>> => Elements(buf[t]) = {MarkStore(t)}
    BY <1>2, ShortBuffers
  <1>16. \A x \in Threads : ~HandedBy(x, t) /\ ~HandedBy(x, t)'
    <2>1. \A x \in Threads : HandStore(x)' = HandStore(x) BY DEF HandStore, Node, QL!LockedOf
    <2>2. Stores(t) = Elements(buf[t]) /\ Stores(t)' = Elements(buf'[t]) BY DEF Stores, Elements
    <2>3. \A x \in Threads : HandStore(x) \notin Elements(buf[t]) BY <1>15, StoresDiffer
    <2>4. \A x \in Threads : HandStore(x) \notin Elements(buf'[t])
      BY <1>8, <2>3, StoresDiffer
    <2>5. QED BY <2>1, <2>2, <2>3, <2>4 DEF HandedBy
  <1>17. \A q \in Threads : Behind(t, q)' <=> Behind(t, q)
    <2> TAKE q \in Threads
    <2>1. Behind(t, q) <=> q = p BY <1>1, <1>5, <1>13, QueuedPlaces DEF Behind
    <2>2. LinkStore(t, q)' = LinkStore(t, q) BY DEF LinkStore, Node, QL!NextOf
    <2>3. Stores(t)' = Elements(buf'[t]) BY DEF Stores, Elements
    <2>4. LinkStore(t, q) \in Elements(buf'[t]) <=> q = p
      BY <1>8, <1>15, StoresDiffer
    <2>5. QED BY <1>9, <1>13, <2>1, <2>2, <2>3, <2>4 DEF Behind
  <1>18. SameTails(0) /\ SameNexts /\ SameLockeds /\ Count' = Count BY <1>7, MemoryKept
  <1>19. \A x \in Threads : Marked(x)' = Marked(x) BY <1>18, NodesKept
  <1>20. MarkStore(t) \notin Stores(t)' => Marked(t)'
    <2>1. Stores(t)' = Elements(buf'[t]) BY DEF Stores, Elements
    <2>2. MarkStore(t) \notin Stores(t)' => buf[t] = <<>> BY <1>8, <1>15, <2>1
    <2>3. QED BY <1>0, <1>1, <1>19, <2>2 DEF MarkOf
  <1>21. QED
    BY <1>1, <1>2, <1>7, <1>9, <1>10, <1>11, <1>13, <1>14, <1>16, <1>17, <1>18, <1>19, <1>20, Waiting

\* Writing back a waiting thread's mark keeps the invariant: the lock cannot be
\* handed to it yet.
LEMMA NextFlushMark ==
  ASSUME QueuedIInv, NEW t \in Threads, QL!Flush(t), qpc[t] \in {"link", "spin"},
         Head(buf[t]) = MarkStore(t), \A x : HandStore(x) \notin Elements(buf[t]),
         qpc[t] = "link" => Tail(buf[t]) = <<>>,
         qpc[t] = "spin" => \E p \in Threads : /\ Tail(buf[t]) = <<LinkStore(t, p)>>
                                               /\ \A q : LinkStore(t, q) \in Elements(buf[t]) <=> q = p
  PROVE  QueuedIInv'
  <1>0. Types /\ Shapes /\ Local(t) /\ SuccessorOf(t) BY DEF QueuedIInv
  <1>1. /\ OnlyOf(t) /\ Local(t)' /\ buf[t] # <<>> /\ QL!FlushBuffer(t)
        /\ buf'[t] = Tail(buf[t])
        /\ qpc' = qpc /\ depth' = depth /\ lock' = lock /\ node' = node /\ other' = other
        /\ qreg' = qreg /\ qleft' = qleft
        /\ (Waits(t)' <=> Waits(t))
    BY Flushed
  <1>2. Head(buf[t]) = <<QL!LockedOf(Node(t)), TRUE>> BY DEF MarkStore
  <1>3. Shapes' /\ mem' = [mem EXCEPT ![QL!LockedOf(Node(t))] = TRUE]
    <2>1. PICK loc \in Locations : loc = QL!LockedOf(Node(t)) BY QueuedPlaces
    <2>2. Head(buf[t]) = <<loc, TRUE>> BY <1>2, <2>1
    <2>3. Shapes /\ QL!FlushBuffer(t) BY <1>0, <1>1
    <2>4. Shapes' /\ mem' = [mem EXCEPT ![loc] = TRUE] BY <2>2, <2>3, FlushStep, Zenon
    <2>5. QED BY <2>1, <2>4
  <1>4. /\ SameTails(0) /\ SameNexts /\ Count' = Count
        /\ \A m \in QL!Nodes :
             mem'[QL!LockedOf(m)] = IF m = Node(t) THEN TRUE ELSE mem[QL!LockedOf(m)]
        /\ \A x \in Threads : Marked(x)' = IF x = t THEN TRUE ELSE Marked(x)
    BY <1>0, <1>3, WriteMark
  <1>5. Types'
    <2>1. \A m \in QL!Nodes : /\ mem'[QL!NextOf(m)] \in QL!Nodes \cup {NoNode}
                              /\ mem'[QL!LockedOf(m)] \in BOOLEAN
      BY <1>0, <1>4 DEF SameNexts, Types
    <2>2. Count \in Nat BY <1>0 DEF Types
    <2>3. QED BY <1>0, <1>1, <1>4, <2>1, <2>2, TypesWritten
  <1>6. qpc[t] = "spin" => buf'[t] # <<>> BY <1>1
  <1>7. Waits(t) /\ ~Linked(t) /\ ~Linked(t)' BY <1>1, <1>6 DEF Waits, Linked
  <1>8. Stores(t) = Elements(buf[t]) /\ Stores(t)' = Elements(buf'[t]) BY DEF Stores, Elements
  <1>9. \A x \in Threads : ~HandedBy(x, t) /\ ~HandedBy(x, t)'
    <2>1. \A x \in Threads : HandStore(x)' = HandStore(x) BY DEF HandStore, Node, QL!LockedOf
    <2>2. \A x : HandStore(x) \notin Elements(buf'[t])
      <3>1. CASE qpc[t] = "link" BY <1>1, <3>1, ShortBuffers
      <3>2. CASE qpc[t] = "spin"
        <4>1. PICK p \in Threads : buf'[t] = <<LinkStore(t, p)>> BY <1>1, <3>2
        <4>2. Elements(buf'[t]) = {LinkStore(t, p)} BY <4>1, ShortBuffers
        <4>3. QED BY <4>2, StoresDiffer
      <3>3. QED BY <3>1, <3>2
    <2>3. QED BY <1>8, <2>1, <2>2 DEF HandedBy
  <1>10. \A q \in Threads : Behind(t, q)' <=> Behind(t, q)
    <2>1. CASE qpc[t] = "link" BY <1>1, <1>7, <2>1 DEF Behind, Node
    <2>2. CASE qpc[t] = "spin"
      <3>1. PICK p \in Threads : /\ buf'[t] = <<LinkStore(t, p)>>
                                 /\ \A q : LinkStore(t, q) \in Elements(buf[t]) <=> q = p
        BY <1>1, <2>2
      <3>2. Elements(buf'[t]) = {LinkStore(t, p)} BY <3>1, ShortBuffers
      <3>3. \A q : LinkStore(t, q) \in Elements(buf'[t]) <=> q = p BY <3>2, StoresDiffer
      <3>4. \A q : LinkStore(t, q)' = LinkStore(t, q) BY DEF LinkStore, Node, QL!NextOf
      <3>5. QED BY <1>1, <1>7, <1>8, <2>2, <3>1, <3>3, <3>4 DEF Behind
    <2>3. QED BY <2>1, <2>2
  <1>11. Marked(t)' /\ \A x \in Threads \ {t} : Marked(x)' = Marked(x) BY <1>4
  <1>12. QED
    BY <1>1, <1>3, <1>4, <1>5, <1>7, <1>9, <1>10, <1>11, Waiting

\* A thread links itself behind its predecessor, which gets to know it.
LEMMA NextFlushLink ==
  ASSUME QueuedIInv, NEW t \in Threads, QL!Flush(t), qpc[t] = "spin",
         NEW p \in Threads, buf[t] = <<LinkStore(t, p)>>, MarkStore(t) \notin Elements(buf[t])
  PROVE  QueuedIInv'
  <1>0. Types /\ Shapes /\ Local(t) /\ SuccessorOf(t) /\ MarkOf(t) /\ Queue /\ QueueTail
    BY DEF QueuedIInv
  <1>1. /\ OnlyOf(t) /\ Local(t)' /\ buf[t] # <<>> /\ QL!FlushBuffer(t)
        /\ buf'[t] = Tail(buf[t])
        /\ qpc' = qpc /\ depth' = depth /\ lock' = lock /\ node' = node /\ other' = other
        /\ qreg' = qreg /\ qleft' = qleft
        /\ (Waits(t)' <=> Waits(t))
    BY Flushed
  <1>2. Head(buf[t]) = <<QL!NextOf(Node(p)), Node(t)>> BY Oldest DEF LinkStore
  <1>3. Shapes' /\ mem' = [mem EXCEPT ![QL!NextOf(Node(p))] = Node(t)]
    <2>1. QL!NextOf(Node(p)) \in Locations BY QueuedPlaces
    <2>2. QED BY <1>0, <1>1, <1>2, <2>1, FlushStep
  <1>4. /\ SameTails(0) /\ SameLockeds /\ Count' = Count
        /\ \A m \in QL!Nodes :
             mem'[QL!NextOf(m)] = IF m = Node(p) THEN Node(t) ELSE mem[QL!NextOf(m)]
        /\ \A x \in Threads : Successor(x)' = IF x = p THEN Node(t) ELSE Successor(x)
    <2> DEFINE v == Node(t)
    <2>1. Shapes /\ mem' = [mem EXCEPT ![QL!NextOf(Node(p))] = v] BY <1>0, <1>3
    <2> HIDE DEF v
    <2>2. SameTails(0) /\ SameLockeds /\ Count' = Count BY <2>1, WriteNext
    <2>3. ASSUME NEW m \in QL!Nodes
          PROVE  mem'[QL!NextOf(m)] = IF m = Node(p) THEN v ELSE mem[QL!NextOf(m)]
      <3>1. QL!NextOf(m) = QL!NextOf(Node(p)) <=> m = Node(p) BY QueuedLocations
      <3>2. QL!NextOf(m) \in DOMAIN mem BY <2>1 DEF Shapes, Locations
      <3>3. QED BY <2>1, <3>1, <3>2
    <2>4. \A x \in Threads : Successor(x)' = IF x = p THEN v ELSE Successor(x)
      BY <2>1, WriteNext
    <2>5. QED BY <2>2, <2>3, <2>4 DEF v
  <1>5. /\ \A x \in Threads : Marked(x)' = Marked(x)
        /\ TailAt(1)' = TailAt(1) /\ SameTails(1)
    BY <1>4, NodesKept
  <1>6. InnerNexts BY <1>4, InnerNextsWritten
  <1>7. InnerLocks' BY <1>1, <1>5, <1>6, InnerKept
  <1>8. Types'
    <2>1. \A m \in QL!Nodes : /\ mem'[QL!NextOf(m)] \in QL!Nodes \cup {NoNode}
                              /\ mem'[QL!LockedOf(m)] \in BOOLEAN
      BY <1>0, <1>4, QueuedPlaces DEF SameLockeds, Types
    <2>2. Count \in Nat BY <1>0 DEF Types
    <2>3. QED BY <1>0, <1>1, <1>4, <2>1, <2>2, TypesWritten
  <1>9. buf'[t] = <<>> /\ Stores(t)' = {} /\ Stores(t) = {LinkStore(t, p)}
    <2>1. buf'[t] = <<>> BY <1>1, Oldest
    <2>2. Stores(t)' = Elements(buf'[t]) BY DEF Stores, Elements
    <2>3. QED BY <2>1, <2>2, ShortBuffers DEF Stores
  <1>10. ~Linked(t) /\ Linked(t)' /\ Marked(t)
    <2>1. MarkStore(t) \notin Stores(t) BY DEF Stores
    <2>2. QED BY <1>0, <1>1, <1>9, <2>1 DEF Linked, MarkOf
  <1>11. Behind(t, p) /\ InQueue(p) /\ ~First(t)
    <2>1. Behind(t, p) BY <1>9 DEF Behind
    <2>2. QED BY <1>0, <2>1 DEF Queue
  <1>12. \A x \in Threads : /\ (InQueue(x)' <=> InQueue(x))
                            /\ (x # t => (Linked(x)' <=> Linked(x)))
    BY <1>1 DEF InQueue, Linked, Waits, OnlyOf
  <1>13. \A x, s \in Threads : HandedBy(x, s)' <=> HandedBy(x, s)
    <2> TAKE x, s \in Threads
    <2>1. HandStore(x)' = HandStore(x) BY DEF HandStore, Node, QL!LockedOf
    <2>2. CASE s = t BY <1>9, <2>1, <2>2, StoresDiffer DEF HandedBy
    <2>3. CASE s # t
      <3>1. buf'[s] = buf[s] BY <1>1, <2>3 DEF OnlyOf
      <3>2. QED BY <2>1, <3>1 DEF HandedBy, Stores, Elements
    <2>4. QED BY <2>2, <2>3
  <1>14. \A s \in Threads : ~HandedBy(t, s)
    BY <1>0, <1>10 DEF MarkOf
  <1>15. \A x \in Threads : First(x)' <=> First(x)
    <2> TAKE x \in Threads
    <2>1. CASE x = t
      BY <1>1, <1>5, <1>10, <1>11, <1>13, <1>14, <2>1 DEF First, Handed
    <2>2. CASE x # t BY <1>1, <1>5, <1>12, <1>13, <2>2 DEF First, Handed
    <2>3. QED BY <2>1, <2>2
  <1>16. \A x \in Threads : InQueue(x) => Successor(x) # Node(t)
    <2>1. SUFFICES ASSUME NEW x \in Threads, InQueue(x), Successor(x) = Node(t) PROVE FALSE
      OBVIOUS
    <2>2. Successor(x) # NoNode BY <2>1, QueuedPlaces
    <2>3. PICK u \in Threads : Successor(x) = Node(u) /\ Linked(u)
      BY <2>1, <2>2 DEF QueuedIInv, SuccessorOf
    <2>4. u = t BY <2>1, <2>3, QueuedPlaces
    <2>5. QED BY <1>10, <2>3, <2>4
  <1>17. Successor(p) = NoNode
    <2>1. SUFFICES ASSUME Successor(p) # NoNode PROVE FALSE OBVIOUS
    <2>2. PICK u \in Threads : Successor(p) = Node(u) /\ Linked(u)
      BY <1>11, <2>1 DEF QueuedIInv, SuccessorOf
    <2>3. Behind(u, p) BY <1>11, <2>2 DEF Behind
    <2>4. u = t BY <1>0, <1>11, <2>3 DEF Queue
    <2>5. QED BY <1>10, <2>2, <2>4
  <1>18. \A x, q \in Threads : Behind(x, q)' <=> Behind(x, q)
    <2> TAKE x, q \in Threads
    <2>1. CASE x = t
      <3>1. Behind(t, q) <=> q = p
        <4>1. Behind(t, q) => q = p BY <1>0, <1>11 DEF Queue
        <4>2. QED BY <1>11, <4>1
      <3>2. Behind(t, q)' <=> InQueue(q)' /\ Successor(q)' = Node(t)
        BY <1>1, <1>9, <1>10 DEF Behind, Node
      <3>3. Behind(t, q)' <=> q = p BY <1>4, <1>11, <1>12, <1>16, <3>2
      <3>4. QED BY <2>1, <3>1, <3>3
    <2>2. CASE x # t
      <3>1. qpc'[x] = qpc[x] /\ other'[x] = other[x] /\ buf'[x] = buf[x]
        BY <1>1, <2>2 DEF OnlyOf
      <3>2. (LinkStore(x, q) \in Stores(x))' <=> LinkStore(x, q) \in Stores(x)
        BY <3>1 DEF Stores, Elements, LinkStore, Node, QL!NextOf
      <3>3. Successor(q)' = Node(x) <=> Successor(q) = Node(x)
        BY <1>4, <1>17, <2>2, QueuedPlaces
      <3>4. (Linked(x) /\ InQueue(q) /\ Successor(q) = Node(x))'
              <=> Linked(x) /\ InQueue(q) /\ Successor(q) = Node(x)
        BY <1>12, <2>2, <3>3 DEF Node
      <3>5. QED BY <3>1, <3>2, <3>4 DEF Behind, Node
    <2>3. QED BY <2>1, <2>2
  <1>19. Queue' /\ QueueTail' BY <1>0, <1>5, <1>12, <1>15, <1>18, QueueKept
  <1>20. \A x \in Threads : MarkOf(x)'
    <2> TAKE x \in Threads
    <2>1. MarkOf(x) BY DEF QueuedIInv
    <2>2. \A s \in Threads : HandedBy(x, s)' => Linked(x)' /\ Marked(x)'
      BY <1>5, <1>12, <1>13, <1>14, <2>1 DEF MarkOf
    <2>3. \A s, r \in Threads : HandedBy(x, s)' /\ HandedBy(x, r)' => s = r
      BY <1>13, <2>1 DEF MarkOf
    <2>4. CASE x = t BY <1>1, <1>9, <2>2, <2>3, <2>4 DEF MarkOf
    <2>5. CASE x # t
      <3>1. qpc'[x] = qpc[x] /\ buf'[x] = buf[x] BY <1>1, <2>5 DEF OnlyOf
      <3>2. (MarkStore(x) \in Stores(x))' <=> MarkStore(x) \in Stores(x)
        BY <3>1 DEF Stores, Elements, MarkStore, Node, QL!LockedOf
      <3>3. QED BY <1>5, <2>1, <2>2, <2>3, <3>1, <3>2 DEF MarkOf
    <2>6. QED BY <2>4, <2>5
  <1>21. \A x \in Threads : SuccessorOf(x)'
    <2> TAKE x \in Threads
    <2>1. SuccessorOf(x) BY DEF QueuedIInv
    <2>2. \A u \in Threads : Linked(u) => Linked(u)' BY <1>10, <1>12
    <2>3. x # t => buf'[x] = buf[x] BY <1>1 DEF OnlyOf
    <2>4. CASE x = p
      <3>1. qpc[p] # "hand_over" BY <1>17 DEF QueuedIInv, SuccessorOf
      <3>2. InQueue(x)' /\ Successor(x)' = Node(t) BY <1>4, <1>11, <1>12, <2>4
      <3>3. QED BY <1>1, <1>10, <1>18, <2>1, <2>4, <3>1, <3>2 DEF SuccessorOf, Node
    <2>5. CASE x # p
      <3>1. Successor(x)' = Successor(x) BY <1>4, <2>5
      <3>2. InQueue(t) BY <1>1 DEF InQueue, Waits
      <3>3. ~InQueue(x) => buf'[x] = buf[x] BY <2>3, <3>2
      <3>4. QED BY <1>1, <1>12, <1>18, <2>1, <2>2, <3>1, <3>3 DEF SuccessorOf, Node
    <2>6. QED BY <2>4, <2>5
  <1>22. LoadedBy(t)' BY <1>1 DEF LoadedBy
  <1>23. QED BY <1>1, <1>3, <1>4, <1>7, <1>8, <1>19, <1>20, <1>21, <1>22, Together

\* Writing back any store keeps the invariant.
LEMMA NextQueuedFlush ==
  ASSUME QueuedIInv, NEW t \in Threads, QL!Flush(t)
  PROVE  QueuedIInv'
  <1>0. Types /\ Local(t) /\ BufferOf(t) BY DEF QueuedIInv, Local
  <1>1. buf[t] # <<>> BY Flushed
  <1>2. Stores(t) = Elements(buf[t]) BY DEF Stores
  <1>3. CASE qpc[t] = "link"
    <2>1. buf[t] = <<MarkStore(t)>> BY <1>0, <1>1, <1>3 DEF BufferOf
    <2>2. Head(buf[t]) = MarkStore(t) /\ Tail(buf[t]) = <<>> BY <2>1, Oldest
    <2>3. Elements(buf[t]) = {MarkStore(t)} BY <2>1, ShortBuffers
    <2>4. \A x : HandStore(x) \notin Elements(buf[t]) BY <2>3, StoresDiffer
    <2>5. QED BY <1>3, <2>2, <2>4, NextFlushMark
  <1>4. CASE qpc[t] = "spin"
    <2>1. buf[t] \in LinkBuffers(t) BY <1>0, <1>4 DEF BufferOf
    <2>2. PICK p \in Threads :
            /\ \A q : LinkStore(t, q) \in Elements(buf[t]) <=> q = p
            /\ \A x : HandStore(x) \notin Elements(buf[t])
            /\ \/ buf[t] = <<LinkStore(t, p)>> /\ Head(buf[t]) = LinkStore(t, p)
                  /\ Tail(buf[t]) = <<>> /\ MarkStore(t) \notin Elements(buf[t])
               \/ buf[t] = <<MarkStore(t), LinkStore(t, p)>> /\ Head(buf[t]) = MarkStore(t)
                  /\ Tail(buf[t]) = <<LinkStore(t, p)>> /\ MarkStore(t) \in Elements(buf[t])
      BY <1>1, <2>1, DrainLink
    <2>3. CASE buf[t] = <<LinkStore(t, p)>> /\ MarkStore(t) \notin Elements(buf[t])
      BY <1>4, <2>3, NextFlushLink
    <2>4. CASE Head(buf[t]) = MarkStore(t) /\ Tail(buf[t]) = <<LinkStore(t, p)>>
      BY <1>4, <2>2, <2>4, NextFlushMark
    <2>5. QED BY <2>2, <2>3, <2>4
  <1>5. CASE qpc[t] \in {"load_next", "cas_tail", "hand_over"}
    <2>1. buf[t] \in CountBuffers BY <1>0, <1>5 DEF BufferOf
    <2>2. PICK n \in Nat : Head(buf[t]) = CountStore(n) /\ KeepsHands(buf[t])
      BY <1>1, <2>1, DrainCount
    <2>3. ~Waits(t) /\ depth[t] > 0 BY <1>0, <1>5 DEF Local, DepthOf, Waits
    <2>4. QED BY <1>5, <2>2, <2>3, NextFlushCount
  <1>6. CASE qpc[t] = "clear_next"
    <2>1. buf[t] \in HandBuffers BY <1>0, <1>6 DEF BufferOf
    <2>2. ~Waits(t) BY <1>6 DEF Waits
    <2>3. CASE HandsOver(buf[t]) BY <1>6, <2>2, <2>3, NextFlushHand
    <2>4. CASE KeepsHands(buf[t]) /\ (\E n \in Nat : Head(buf[t]) = CountStore(n))
               /\ \E u \in Threads : HandStore(u) \in Elements(buf[t])
      <3>1. PICK n \in Nat : Head(buf[t]) = CountStore(n) BY <2>4
      <3>2. \E u \in Threads : HandedBy(u, t) BY <1>2, <2>4 DEF HandedBy
      <3>3. QED BY <1>6, <2>2, <2>4, <3>1, <3>2, NextFlushCount
    <2>5. QED BY <1>1, <2>1, <2>3, <2>4, DrainHand
  <1>7. CASE qpc[t] \in {"idle", "exchange"}
    <2>1. depth[t] = 0 /\ buf[t] \in ClearBuffers(t) /\ ~Waits(t)
      BY <1>0, <1>1, <1>7 DEF Local, DepthOf, BufferOf, Waits
    <2>2. CASE HandsOver(buf[t])
      <3>1. Tail(buf[t]) # <<>> BY <1>1, <2>1, <2>2, DrainClear
      <3>2. QED BY <2>1, <2>2, <3>1, NextFlushHand
    <2>3. CASE KeepsHands(buf[t]) /\ (\E n \in Nat : Head(buf[t]) = CountStore(n))
               /\ \E u \in Threads : HandStore(u) \in Elements(buf[t])
      <3>1. PICK n \in Nat : Head(buf[t]) = CountStore(n) BY <2>3
      <3>2. \E u \in Threads : HandedBy(u, t) BY <1>2, <2>3 DEF HandedBy
      <3>3. Tail(buf[t]) # <<>> BY <1>1, <2>1, <2>3, DrainClear
      <3>4. QED BY <2>1, <2>3, <3>1, <3>2, <3>3, NextFlushCount
    <2>4. CASE KeepsHands(buf[t]) /\ Head(buf[t]) = ClearStore(t)
      BY <2>1, <2>4, NextFlushClear
    <2>5. QED BY <1>1, <2>1, <2>2, <2>3, <2>4, DrainClear
  <1>8. qpc[t] \notin {"set_locked", "read", "write", "wait_next"} BY <1>0, <1>1 DEF BufferOf
  <1>9. QED
    BY <1>0, <1>3, <1>4, <1>5, <1>6, <1>7, <1>8
    DEF Types, QL!Steps, QL!LockSteps, QL!UnlockSteps

\* A thread that finds its node unmarked has been handed the lock.
LEMMA SpinHanded ==
  ASSUME QueuedIInv, NEW t \in Threads, QL!Spin(t)
  PROVE  /\ qpc[t] = "spin" /\ depth[t] = 0 /\ depth' = [depth EXCEPT ![t] = 1]
         /\ mem' = mem /\ buf' = buf /\ buf[t] = <<>> /\ Linked(t) /\ ~Marked(t)
  <1>0. Types /\ Shapes /\ Local(t) /\ SuccessorOf(t) /\ MarkOf(t) /\ Queue /\ QueueTail /\ InnerLocks
    BY DEF QueuedIInv
  <1>1. qpc[t] = "spin" BY DEF QL!Spin
  <1>2. Waits(t) /\ buf[t] \in LinkBuffers(t) /\ depth[t] = 0 /\ qleft[t] > 0 /\ ~Freed(t)
    BY <1>0, <1>1 DEF Local, DepthOf, BufferOf, Waits, Freed
  <1>3. node[t] = Node(t) BY <1>0, <1>2 DEF Local, NodeOf
  <1>4. ~QL!Load(t, QL!LockedOf(Node(t))) BY <1>3 DEF QL!Spin
  <1>5. /\ lock' = [lock EXCEPT ![Node(t)] = Order[1]]
        /\ depth' = [depth EXCEPT ![t] = 1]
        /\ node' = [node EXCEPT ![t] = NoNode]
        /\ qpc' = [qpc EXCEPT ![t] = IF 1 = Len(Order) THEN "read" ELSE "exchange"]
        /\ mem' = mem /\ buf' = buf /\ other' = other /\ qreg' = qreg /\ qleft' = qleft
    BY <1>2, <1>3 DEF QL!Spin, QL!Acquired, QL!Goto
  <1>6. buf[t] = <<>> /\ ~Marked(t)
    <2>1. CASE buf[t] = <<>>
      <3>1. QL!Load(t, QL!LockedOf(Node(t))) = Marked(t) BY <2>1, LoadMemory DEF Marked
      <3>2. QED BY <1>4, <2>1, <3>1
    <2>2. CASE buf[t] # <<>>
      <3>1. PICK p \in Threads :
              \/ buf[t] = <<LinkStore(t, p)>> /\ MarkStore(t) \notin Elements(buf[t])
              \/ buf[t] = <<MarkStore(t), LinkStore(t, p)>>
        BY <1>2, <2>2, DrainLink
      <3>2. CASE buf[t] = <<LinkStore(t, p)>> /\ MarkStore(t) \notin Elements(buf[t])
        <4>1. Len(buf[t]) = 1 /\ buf[t][1] = LinkStore(t, p) BY <3>2
        <4>2. \A i \in 1..Len(buf[t]) : buf[t][i][1] # QL!LockedOf(Node(t))
          BY <4>1, QueuedLocations DEF LinkStore
        <4>3. QL!Load(t, QL!LockedOf(Node(t))) = Marked(t) BY <4>2, QueuedLoad DEF Marked
        <4>4. Marked(t) BY <1>0, <1>1, <2>2, <3>2 DEF MarkOf, Stores
        <4>5. QED BY <1>4, <4>3, <4>4
      <3>3. CASE buf[t] = <<MarkStore(t), LinkStore(t, p)>>
        <4>1. /\ Len(buf[t]) = 2 /\ buf[t][1] = MarkStore(t) /\ buf[t][2] = LinkStore(t, p)
          BY <3>3
        <4>2. \A i : i \in 1..2 <=> i = 1 \/ i = 2 OBVIOUS
        <4>3. QL!Pending(t, QL!LockedOf(Node(t))) = {1}
          BY <4>1, <4>2, QueuedLocations DEF QL!Pending, MarkStore, LinkStore
        <4>4. QL!Max({1}) = 1 BY DEF QL!Max
        <4>5. QL!Load(t, QL!LockedOf(Node(t))) = buf[t][1][2] BY <4>3, <4>4 DEF QL!Load
        <4>6. QL!Load(t, QL!LockedOf(Node(t))) = TRUE BY <4>1, <4>5 DEF MarkStore
        <4>7. QED BY <1>4, <4>6
      <3>4. QED BY <3>1, <3>2, <3>3
    <2>3. QED BY <2>1, <2>2
  <1>7. QED BY <1>1, <1>2, <1>5, <1>6 DEF Linked

\* The thread that the lock has been handed to takes it.
LEMMA NextSpin ==
  ASSUME QueuedIInv, NEW t \in Threads, QL!Spin(t)
  PROVE  QueuedIInv'
  <1>0. Types /\ Shapes /\ Local(t) /\ SuccessorOf(t) /\ MarkOf(t) /\ Queue /\ QueueTail /\ InnerLocks
    BY DEF QueuedIInv
  <1>1. qpc[t] = "spin" BY DEF QL!Spin
  <1>2. Waits(t) /\ buf[t] \in LinkBuffers(t) /\ depth[t] = 0 /\ qleft[t] > 0 /\ ~Freed(t)
    BY <1>0, <1>1 DEF Local, DepthOf, BufferOf, Waits, Freed
  <1>3. node[t] = Node(t) BY <1>0, <1>2 DEF Local, NodeOf
  <1>4. ~QL!Load(t, QL!LockedOf(Node(t))) BY <1>3 DEF QL!Spin
  <1>5. /\ lock' = [lock EXCEPT ![Node(t)] = Order[1]]
        /\ depth' = [depth EXCEPT ![t] = 1]
        /\ node' = [node EXCEPT ![t] = NoNode]
        /\ qpc' = [qpc EXCEPT ![t] = IF 1 = Len(Order) THEN "read" ELSE "exchange"]
        /\ mem' = mem /\ buf' = buf /\ other' = other /\ qreg' = qreg /\ qleft' = qleft
    BY <1>2, <1>3 DEF QL!Spin, QL!Acquired, QL!Goto
  <1>6. buf[t] = <<>> /\ ~Marked(t) BY SpinHanded
  <1>7. Linked(t) /\ First(t) BY <1>1, <1>6 DEF Linked, Handed, First
  <1>8. qpc'[t] \in {"read", "exchange"} /\ depth'[t] = 1
        /\ (qpc'[t] = "read" => Len(Order) = 1) /\ (qpc'[t] = "exchange" => Len(Order) # 1)
    BY <1>0, <1>5 DEF Types
  <1>9. OnlyOf(t)
    <2>1. \A x \in Threads \ {t} : \A i \in 1..MaxNested : lock'[<<x, i>>] = lock[<<x, i>>]
      BY <1>0, <1>5, QueuedPlaces DEF Types, Node
    <2>2. QED BY <1>0, <1>5, <2>1 DEF Types, OnlyOf
  <1>10. Types' /\ Shapes'
    <2>1. qpc' \in [Threads -> QL!Steps] BY <1>0, <1>5 DEF Types, QL!Steps, QL!LockSteps
    <2>2. Order[1] \in QL!Locks /\ 1 \in 0..Len(Order) BY QueuedPlaces
    <2>3. lock' \in [QL!Nodes -> QL!Locks \cup {NoLock}] BY <1>0, <1>5, <2>2 DEF Types
    <2>4. depth' \in [Threads -> 0..Len(Order)] BY <1>0, <1>5, <2>2 DEF Types
    <2>5. node' \in [Threads -> QL!Nodes \cup {NoNode}] BY <1>0, <1>5 DEF Types
    <2>6. QED BY <1>0, <1>5, <2>1, <2>3, <2>4, <2>5 DEF Types, Shapes, Count
  <1>11. ~Waits(t)' /\ ~Freed(t)' /\ ~Linked(t)' BY <1>8 DEF Waits, Freed, Linked
  <1>12. Local(t)'
    <2>1. DepthOf(t)'
      <3>1. qpc'[t] = "exchange" => depth'[t] < Len(Order)
        <4>1. Len(Order) \in Nat /\ 1 <= Len(Order) BY QueuedPlaces
        <4>2. qpc'[t] = "exchange" => Len(Order) # 1 BY <1>8
        <4>3. depth'[t] = 1 BY <1>8
        <4>4. \A n \in Nat : 1 <= n /\ n # 1 => 1 < n OBVIOUS
        <4>5. Len(Order) # 1 => 1 < Len(Order) BY <4>1, <4>4
        <4>6. QED BY <4>2, <4>3, <4>5
      <3>2. QED BY <1>2, <1>5, <1>8, <1>11, <3>1 DEF DepthOf
    <2>2. NodeOf(t)' BY <1>0, <1>5, <1>8, <1>11 DEF NodeOf, Types
    <2>3. LocksOf(t)'
      <3>1. Held(t) = 0 /\ Held(t)' = 1 BY <1>2, <1>8, <1>11 DEF Held
      <3>2. \A i \in 1..MaxNested : <<t, i>> \in QL!Nodes /\ (<<t, i>> = Node(t) <=> i = 1)
        BY QueuedPlaces DEF Node
      <3>3. \A i \in 1..MaxNested :
              lock'[<<t, i>>] = IF i = 1 THEN Order[1] ELSE lock[<<t, i>>]
        BY <1>0, <1>5, <3>2 DEF Types
      <3>4. \A i \in 1..MaxNested : lock[<<t, i>>] = NoLock
        BY <1>0, <3>1 DEF Local, LocksOf
      <3>5. \A i \in 1..MaxNested : i <= 1 <=> i = 1 OBVIOUS
      <3>6. QED BY <3>1, <3>3, <3>4, <3>5 DEF LocksOf
    <2>4. BufferOf(t)' BY <1>5, <1>6, <1>8 DEF BufferOf
    <2>5. QED BY <2>1, <2>2, <2>3, <2>4 DEF Local
  <1>13. SameTails(0) /\ SameNexts /\ SameLockeds /\ Count' = Count BY <1>5, MemoryKept
  <1>14. /\ \A x \in Threads : Successor(x)' = Successor(x) /\ Marked(x)' = Marked(x)
         /\ TailAt(1)' = TailAt(1) /\ SameTails(1) /\ InnerNexts
    BY <1>13, NodesKept, InnerNextsKept
  <1>15. InnerLocks'
    <2>1. \A k \in 2..Len(Order) : depth'[t] >= k <=> depth[t] >= k BY <1>2, <1>8
    <2>2. QED BY <1>9, <1>14, <2>1, InnerKept
  <1>16. \A x \in Threads : InQueue(x)' <=> InQueue(x)
    <2> TAKE x \in Threads
    <2>1. CASE x = t BY <1>2, <1>8, <2>1 DEF InQueue
    <2>2. CASE x # t BY <1>9, <2>2 DEF InQueue, Waits, OnlyOf
    <2>3. QED BY <2>1, <2>2
  <1>17. \A x \in Threads \ {t} : Linked(x)' <=> Linked(x) BY <1>9 DEF Linked, OnlyOf
  <1>18. \A p \in Threads : ~Behind(t, p) BY <1>0, <1>7 DEF Queue
  <1>19. \A x, p \in Threads : Behind(x, p)' <=> Behind(x, p)
    <2> TAKE x, p \in Threads
    <2>1. CASE x = t BY <1>8, <1>11, <1>18, <2>1 DEF Behind
    <2>2. CASE x # t
      <3>1. qpc'[x] = qpc[x] /\ other'[x] = other[x] /\ buf'[x] = buf[x]
        BY <1>9, <2>2 DEF OnlyOf
      <3>2. (LinkStore(x, p) \in Stores(x))' <=> LinkStore(x, p) \in Stores(x)
        BY <3>1 DEF Stores, Elements, LinkStore, Node, QL!NextOf
      <3>3. (Linked(x) /\ InQueue(p) /\ Successor(p) = Node(x))'
              <=> Linked(x) /\ InQueue(p) /\ Successor(p) = Node(x)
        BY <1>14, <1>16, <1>17, <2>2 DEF Node
      <3>4. QED BY <3>1, <3>2, <3>3 DEF Behind, Node
    <2>3. QED BY <2>1, <2>2
  <1>20. \A x, s \in Threads : HandedBy(x, s)' <=> HandedBy(x, s)
    BY <1>5 DEF HandedBy, Stores, Elements, HandStore, Node, QL!LockedOf
  <1>21. \A s \in Threads : ~HandedBy(t, s) BY <1>0, <1>6 DEF MarkOf
  <1>22. \A x \in Threads : First(x)' <=> First(x)
    <2> TAKE x \in Threads
    <2>1. CASE x = t BY <1>7, <1>8, <2>1 DEF First
    <2>2. CASE x # t
      <3>1. depth'[x] = depth[x] BY <1>9, <2>2 DEF OnlyOf
      <3>2. QED BY <1>14, <1>17, <1>20, <2>2, <3>1 DEF First, Handed
    <2>3. QED BY <2>1, <2>2
  <1>23. Queue' /\ QueueTail' BY <1>0, <1>14, <1>16, <1>19, <1>22, QueueKept
  <1>24. \A x \in Threads : MarkOf(x)'
    <2> TAKE x \in Threads
    <2>1. MarkOf(x) BY DEF QueuedIInv
    <2>2. \A s \in Threads : HandedBy(x, s)' => Linked(x)' /\ Marked(x)'
      BY <1>14, <1>17, <1>20, <1>21, <2>1 DEF MarkOf
    <2>3. \A s, r \in Threads : HandedBy(x, s)' /\ HandedBy(x, r)' => s = r
      BY <1>20, <2>1 DEF MarkOf
    <2>4. CASE x = t BY <1>8, <2>2, <2>3, <2>4 DEF MarkOf
    <2>5. CASE x # t
      <3>1. qpc'[x] = qpc[x] /\ buf'[x] = buf[x] BY <1>9, <2>5 DEF OnlyOf
      <3>2. (MarkStore(x) \in Stores(x))' <=> MarkStore(x) \in Stores(x)
        BY <3>1 DEF Stores, Elements, MarkStore, Node, QL!LockedOf
      <3>3. QED BY <1>14, <2>1, <2>2, <2>3, <3>1, <3>2 DEF MarkOf
    <2>6. QED BY <2>4, <2>5
  <1>25. \A x \in Threads : SuccessorOf(x)'
    <2> TAKE x \in Threads
    <2>1. SuccessorOf(x) BY DEF QueuedIInv
    <2>2. InQueue(x) => Successor(x) # Node(t)
      <3>1. InQueue(x) /\ Successor(x) = Node(t) => Behind(t, x) BY <1>7 DEF Behind
      <3>2. QED BY <1>18, <3>1
    <2>3. InQueue(x)' /\ Successor(x)' # NoNode =>
            \E u \in Threads : Successor(x)' = Node(u) /\ Linked(u)'
      BY <1>14, <1>16, <1>17, <2>1, <2>2 DEF SuccessorOf
    <2>4. CASE x = t
      <3>1. InQueue(t)' BY <1>8 DEF InQueue
      <3>2. QED BY <1>8, <2>3, <2>4, <3>1 DEF SuccessorOf, Node
    <2>5. CASE x # t
      <3>1. qpc'[x] = qpc[x] /\ other'[x] = other[x] /\ buf'[x] = buf[x]
        BY <1>9, <2>5 DEF OnlyOf
      <3>2. QED BY <1>14, <1>16, <1>19, <2>1, <2>3, <3>1 DEF SuccessorOf, Node
    <2>6. QED BY <2>4, <2>5
  <1>26. LoadedBy(t)' BY <1>8 DEF LoadedBy
  <1>27. QED
    BY <1>9, <1>10, <1>12, <1>13, <1>15, <1>23, <1>24, <1>25, <1>26, Together

\* What belongs to another thread stays.
LEMMA Others ==
  ASSUME NEW t \in Threads, OnlyOf(t), NEW x \in Threads \ {t}
  PROVE  /\ qpc'[x] = qpc[x] /\ depth'[x] = depth[x] /\ other'[x] = other[x] /\ buf'[x] = buf[x]
         /\ (Linked(x)' <=> Linked(x)) /\ (InQueue(x)' <=> InQueue(x))
         /\ (MarkStore(x) \in Stores(x))' <=> MarkStore(x) \in Stores(x)
         /\ \A p \in Threads : (LinkStore(x, p) \in Stores(x))' <=> LinkStore(x, p) \in Stores(x)
         /\ \A u \in Threads : HandedBy(u, x)' <=> HandedBy(u, x)
  <1>1. qpc'[x] = qpc[x] /\ depth'[x] = depth[x] /\ other'[x] = other[x] /\ buf'[x] = buf[x]
    BY DEF OnlyOf
  <1>2. (Linked(x)' <=> Linked(x)) /\ (InQueue(x)' <=> InQueue(x))
    BY <1>1 DEF Linked, InQueue, Waits
  <1>3. (MarkStore(x) \in Stores(x))' <=> MarkStore(x) \in Stores(x)
    BY <1>1 DEF Stores, Elements, MarkStore, Node, QL!LockedOf
  <1>4. \A p \in Threads : (LinkStore(x, p) \in Stores(x))' <=> LinkStore(x, p) \in Stores(x)
    BY <1>1 DEF Stores, Elements, LinkStore, Node, QL!NextOf
  <1>5. \A u \in Threads : HandedBy(u, x)' <=> HandedBy(u, x)
    BY <1>1 DEF HandedBy, Stores, Elements, HandStore, Node, QL!LockedOf
  <1>6. QED BY <1>1, <1>2, <1>3, <1>4, <1>5

\* What the marks say of a thread stays true while its mark and who hands it the
\* lock do.
LEMMA MarksKept ==
  ASSUME QueuedIInv, NEW t \in Threads, OnlyOf(t), NEW x \in Threads \ {t}, Marked(x)' = Marked(x),
         \A s \in Threads : HandedBy(x, s)' => Linked(x) /\ Marked(x),
         \A s, r \in Threads : HandedBy(x, s)' /\ HandedBy(x, r)' => s = r
  PROVE  MarkOf(x)'
  <1>1. MarkOf(x) BY DEF QueuedIInv
  <1>2. /\ qpc'[x] = qpc[x] /\ buf'[x] = buf[x] /\ (Linked(x)' <=> Linked(x))
        /\ (MarkStore(x) \in Stores(x))' <=> MarkStore(x) \in Stores(x)
    BY Others
  <1>3. QED BY <1>1, <1>2 DEF MarkOf

\* The owner hands the lock to its successor.
LEMMA NextHandOver ==
  ASSUME QueuedIInv, NEW t \in Threads, QL!HandOver(t)
  PROVE  QueuedIInv'
  <1>0. Types /\ Shapes /\ Local(t) /\ SuccessorOf(t) /\ Queue /\ QueueTail BY DEF QueuedIInv
  <1>1. /\ qpc[t] = "hand_over" /\ qpc' = [qpc EXCEPT ![t] = "clear_next"]
        /\ depth' = [depth EXCEPT ![t] = depth[t] - 1]
        /\ other' = [other EXCEPT ![t] = NoNode]
        /\ lock' = lock /\ node' = node /\ qreg' = qreg /\ qleft' = qleft
    BY DEF QL!HandOver, QL!Goto
  <1>2. /\ ~Waits(t) /\ Freed(t) /\ depth[t] = 1 /\ qleft[t] > 0 /\ buf[t] \in CountBuffers
    BY <1>0, <1>1 DEF Local, DepthOf, BufferOf, Waits, Freed
  <1>3. node[t] = Node(t) BY <1>0, <1>2 DEF Local, NodeOf, Node
  <1>4. InQueue(t) /\ First(t) BY <1>2 DEF InQueue, First
  <1>5. PICK u \in Threads : Successor(t) = Node(u) /\ Linked(u)
    BY <1>0, <1>1, <1>4 DEF SuccessorOf
  <1>6. other[t] = Node(u) BY <1>0, <1>1, <1>5 DEF SuccessorOf
  <1>7. Behind(u, t) /\ ~First(u) /\ u # t
    BY <1>0, <1>4, <1>5 DEF Behind, Queue
  <1>8. Marked(u) /\ \A s \in Threads : ~HandedBy(u, s)
    BY <1>5, <1>7 DEF First, Handed
  <1>9. QL!Store(t, QL!LockedOf(other[t]), FALSE) BY DEF QL!HandOver
  <1>10. /\ Shapes' /\ mem' = mem /\ buf'[t] = Append(buf[t], HandStore(u))
         /\ \A x \in Threads \ {t} : buf'[x] = buf[x]
    BY <1>0, <1>6, <1>9, StoreStep DEF HandStore
  <1>11. /\ buf'[t] \in HandBuffers
         /\ Elements(buf'[t]) = Elements(buf[t]) \cup {HandStore(u)}
    BY <1>2, <1>10, StoreHand
  <1>12. qpc'[t] = "clear_next" /\ depth'[t] = 0 BY <1>0, <1>1, <1>2 DEF Types
  <1>13. OnlyOf(t) BY <1>0, <1>1, <1>10 DEF Types, OnlyOf
  <1>14. Types'
    <2>1. depth' \in [Threads -> 0..Len(Order)]
      <3>1. depth[t] - 1 \in 0..Len(Order) BY <1>2, QueuedPlaces
      <3>2. QED BY <1>0, <1>1, <3>1 DEF Types
    <2>2. QED BY <1>0, <1>1, <1>10, <1>12, <2>1 DEF Types, QL!Steps, QL!UnlockSteps, Count
  <1>15. ~Waits(t)' /\ ~Freed(t)' /\ ~Linked(t) /\ ~Linked(t)'
    BY <1>1, <1>12 DEF Waits, Freed, Linked
  <1>16. Local(t)'
    <2>1. DepthOf(t)' BY <1>1, <1>2, <1>12, <1>15 DEF DepthOf
    <2>2. NodeOf(t)' BY <1>1, <1>3, <1>12 DEF NodeOf, Node
    <2>3. Held(t) = 0 /\ Held(t)' = 0 BY <1>2, <1>12, <1>15 DEF Held
    <2>4. LocksOf(t)' BY <1>0, <1>1, <2>3 DEF Local, LocksOf
    <2>5. BufferOf(t)' BY <1>11, <1>12 DEF BufferOf
    <2>6. QED BY <2>1, <2>2, <2>4, <2>5 DEF Local
  <1>17. SameTails(0) /\ SameNexts /\ SameLockeds /\ Count' = Count BY <1>10, MemoryKept
  <1>18. /\ \A x \in Threads : Successor(x)' = Successor(x) /\ Marked(x)' = Marked(x)
         /\ TailAt(1)' = TailAt(1) /\ SameTails(1) /\ InnerNexts
    BY <1>17, NodesKept, InnerNextsKept
  <1>19. InnerLocks'
    <2>1. \A k \in 2..Len(Order) : depth'[t] >= k <=> depth[t] >= k BY <1>2, <1>12
    <2>2. QED BY <1>13, <1>18, <2>1, InnerKept
  <1>20. ~InQueue(t)' BY <1>12, <1>15 DEF InQueue
  <1>21. \A x, s \in Threads : HandedBy(x, s)' <=> HandedBy(x, s) \/ (x = u /\ s = t)
    <2> TAKE x, s \in Threads
    <2>1. CASE s = t
      <3>1. HandStore(x)' = HandStore(x) BY DEF HandStore, Node, QL!LockedOf
      <3>2. Stores(t)' = Elements(buf'[t]) /\ Stores(t) = Elements(buf[t])
        BY DEF Stores, Elements
      <3>3. QED BY <1>11, <2>1, <3>1, <3>2, StoresDiffer DEF HandedBy
    <2>2. CASE s # t BY <1>13, <2>2, Others
    <2>3. QED BY <2>1, <2>2
  <1>22. \A x \in Threads : Behind(x, t) => x = u BY <1>0, <1>7 DEF Queue
  <1>23. \A x, p \in Threads : Behind(x, p)' <=> Behind(x, p) /\ p # t
    <2> TAKE x, p \in Threads
    <2>1. CASE x = t BY <1>1, <1>12, <1>15, <2>1 DEF Behind
    <2>2. CASE x # t
      <3>1. /\ qpc'[x] = qpc[x] /\ other'[x] = other[x] /\ (Linked(x)' <=> Linked(x))
            /\ (LinkStore(x, p) \in Stores(x))' <=> LinkStore(x, p) \in Stores(x)
        BY <1>13, <2>2, Others
      <3>2. CASE p = t
        <4>1. x = u => ~Behind(x, p)'
          <5>1. Stores(u) = {} BY <1>5, ShortBuffers DEF Linked, Stores
          <5>2. QED BY <1>5, <1>20, <3>1, <3>2, <5>1 DEF Behind, Linked
        <4>2. x # u => ~Behind(x, p)'
          <5>1. x # u => ~Behind(x, p) BY <1>22, <3>2
          <5>2. QED BY <1>20, <3>1, <3>2, <5>1 DEF Behind, Node
        <4>3. QED BY <3>2, <4>1, <4>2
      <3>3. CASE p # t
        <4>1. InQueue(p)' <=> InQueue(p) BY <1>13, <3>3, Others
        <4>2. QED BY <1>18, <3>1, <3>3, <4>1 DEF Behind, Node
      <3>4. QED BY <3>2, <3>3
    <2>3. QED BY <2>1, <2>2
  <1>24. \A x \in Threads : First(x) => x = t BY <1>0, <1>4 DEF Queue
  <1>25. \A x \in Threads : First(x)' <=> x = u
    <2> TAKE x \in Threads
    <2>1. CASE x = t BY <1>7, <1>12, <1>15, <2>1 DEF First, Handed
    <2>2. CASE x = u
      <3>1. Linked(u)' BY <1>5, <1>7, <1>13, Others
      <3>2. QED BY <1>21, <2>2, <3>1 DEF First, Handed
    <2>3. CASE x # t /\ x # u
      <3>1. depth'[x] = depth[x] /\ (Linked(x)' <=> Linked(x)) BY <1>13, <2>3, Others
      <3>2. First(x)' <=> First(x) BY <1>18, <1>21, <2>3, <3>1 DEF First, Handed
      <3>3. QED BY <1>24, <2>3, <3>2
    <2>4. QED BY <2>1, <2>2, <2>3
  <1>26. \A x \in Threads \ {t} : InQueue(x)' <=> InQueue(x) BY <1>13, Others
  <1>27. Queue'
    <2>1. \A x, p \in Threads : Behind(x, p)' => InQueue(p)' /\ ~First(x)'
      <3> TAKE x, p \in Threads
      <3>1. Behind(x, p)' => Behind(x, p) /\ p # t BY <1>23
      <3>2. Behind(x, p)' => InQueue(p)' BY <1>0, <1>26, <3>1 DEF Queue
      <3>3. Behind(x, p)' => x # u BY <1>0, <1>7, <3>1 DEF Queue
      <3>4. QED BY <1>25, <3>2, <3>3
    <2>2. \A x, p, q \in Threads : Behind(x, p)' /\ Behind(x, q)' => p = q
      BY <1>0, <1>23 DEF Queue
    <2>3. \A x, v, p \in Threads : Behind(x, p)' /\ Behind(v, p)' => x = v
      BY <1>0, <1>23 DEF Queue
    <2>4. QED BY <1>25, <2>1, <2>2, <2>3 DEF Queue
  <1>28. QueueTail'
    <2>1. TailAt(1) # NoNode BY <1>0, <1>4 DEF QueueTail
    <2>2. PICK p \in Threads : /\ TailAt(1) = Node(p) /\ InQueue(p)
                               /\ \A x \in Threads : ~Behind(x, p)
      BY <1>0, <2>1 DEF QueueTail
    <2>3. p # t BY <1>7, <2>2
    <2>4. TailAt(1)' = Node(p) /\ InQueue(p)' /\ \A x \in Threads : ~Behind(x, p)'
      BY <1>18, <1>23, <1>26, <2>2, <2>3
    <2>5. QED BY <1>18, <2>1, <2>4 DEF QueueTail, Node
  <1>29. \A x \in Threads : MarkOf(x)'
    <2> TAKE x \in Threads
    <2>1. MarkOf(x) BY DEF QueuedIInv
    <2>2. \A s \in Threads : HandedBy(x, s)' => Linked(x) /\ Marked(x)
      BY <1>5, <1>8, <1>21, <2>1 DEF MarkOf
    <2>3. \A s, r \in Threads : HandedBy(x, s)' /\ HandedBy(x, r)' => s = r
      BY <1>8, <1>21, <2>1 DEF MarkOf
    <2>4. CASE x = t
      <3>1. \A s \in Threads : ~HandedBy(x, s)' BY <1>15, <2>2, <2>4
      <3>2. QED BY <1>12, <2>4, <3>1 DEF MarkOf
    <2>5. CASE x # t BY <1>13, <1>18, <2>2, <2>3, <2>5, MarksKept
    <2>6. QED BY <2>4, <2>5
  <1>30. \A x \in Threads : SuccessorOf(x)'
    <2> TAKE x \in Threads
    <2>1. SuccessorOf(x) BY DEF QueuedIInv
    <2>2. CASE x = t BY <1>12, <1>20, <2>2 DEF SuccessorOf
    <2>3. CASE x # t
      <3>1. /\ qpc'[x] = qpc[x] /\ other'[x] = other[x] /\ buf'[x] = buf[x]
            /\ (InQueue(x)' <=> InQueue(x))
        BY <1>13, <2>3, Others
      <3>2. \A v \in Threads : Linked(v) => Linked(v)' BY <1>13, <1>15, Others
      <3>3. qpc[x] \in {"set_locked", "link"} => \E q \in Threads : Behind(x, q)'
        <4>1. qpc[x] \in {"set_locked", "link"} => x # u BY <1>5 DEF Linked
        <4>2. QED BY <1>22, <1>23, <2>1, <4>1 DEF SuccessorOf
      <3>4. QED BY <1>18, <2>1, <3>1, <3>2, <3>3 DEF SuccessorOf, Node
    <2>4. QED BY <2>2, <2>3
  <1>31. LoadedBy(t)' BY <1>12 DEF LoadedBy
  <1>32. QED
    BY <1>10, <1>13, <1>14, <1>16, <1>17, <1>19, <1>27, <1>28, <1>29, <1>30, <1>31, Together

\* A write of a node or of none to a tail keeps the type of the tails.
LEMMA TailsTyped ==
  ASSUME Types, NEW k \in 1..Len(Order), SameTails(k), TailAt(k)' \in QL!Nodes \cup {NoNode}
  PROVE  \A l \in QL!Locks : mem'[QL!TailOf(l)] \in QL!Nodes \cup {NoNode}
  <1> TAKE l \in QL!Locks
  <1>1. PICK j \in 1..Len(Order) : l = Order[j] BY DEF QL!Locks
  <1>2. CASE j = k BY <1>1, <1>2 DEF TailAt
  <1>3. CASE j # k BY <1>1, <1>3 DEF SameTails, TailAt, Types
  <1>4. QED BY <1>2, <1>3

\* A thread at the end of the queue of its k-th lock frees it, ...
CasTailAt(t, k) ==
  /\ qpc[t] = "cas_tail" /\ buf[t] = <<>> /\ depth[t] = k /\ qleft[t] > 0 /\ node[t] = <<t, k>>
  /\ buf' = buf /\ lock' = lock /\ other' = other /\ qreg' = qreg
  /\ IF TailAt(k) = <<t, k>>
     THEN /\ mem' = [mem EXCEPT ![QL!TailOf(Order[k])] = NoNode]
          /\ depth' = [depth EXCEPT ![t] = k - 1]
          /\ node' = [node EXCEPT ![t] = NoNode]
          /\ qpc' = [qpc EXCEPT ![t] = IF k = 1 THEN "idle" ELSE "load_next"]
          /\ qleft' = IF k = 1 THEN [qleft EXCEPT ![t] = qleft[t] - 1] ELSE qleft
     ELSE /\ qpc' = [qpc EXCEPT ![t] = "wait_next"]
          /\ mem' = mem /\ depth' = depth /\ node' = node /\ qleft' = qleft

\* The compare-and-swap of unlock is about the innermost lock the thread has.
LEMMA CasTailSteps ==
  ASSUME QueuedIInv, NEW t \in Threads, QL!CasTail(t)
  PROVE  \E k \in 1..Len(Order) : CasTailAt(t, k)
  <1>0. Types /\ Local(t) BY DEF QueuedIInv
  <1>1. qpc[t] = "cas_tail" /\ buf[t] = <<>> BY DEF QL!CasTail, QL!Drained
  <1>2. PICK k \in 1..Len(Order) : k = depth[t]
    BY <1>0, <1>1, QueuedPlaces DEF Local, DepthOf, Types
  <1>3. qleft[t] > 0 /\ Freed(t) /\ ~Waits(t) BY <1>0, <1>1 DEF Local, DepthOf, Freed, Waits
  <1>4. node[t] = <<t, k>> BY <1>0, <1>1, <1>2, <1>3 DEF Local, NodeOf
  <1>5. buf' = buf /\ lock' = lock /\ other' = other /\ qreg' = qreg BY DEF QL!CasTail
  <1>6. k - 1 = 0 <=> k = 1 BY QueuedPlaces
  <1>7. CASE TailAt(k) = <<t, k>>
    <2>1. mem[QL!TailOf(Order[depth[t]])] = node[t] BY <1>2, <1>4, <1>7 DEF TailAt
    <2>2. /\ mem' = [mem EXCEPT ![QL!TailOf(Order[k])] = NoNode]
          /\ depth' = [depth EXCEPT ![t] = k - 1]
          /\ node' = [node EXCEPT ![t] = NoNode]
          /\ qpc' = [qpc EXCEPT ![t] = IF k = 1 THEN "idle" ELSE "load_next"]
          /\ qleft' = IF k = 1 THEN [qleft EXCEPT ![t] = qleft[t] - 1] ELSE qleft
      BY <1>2, <1>6, <2>1 DEF QL!CasTail, QL!Return, QL!Goto
    <2>3. QED BY <1>1, <1>2, <1>3, <1>4, <1>5, <1>7, <2>2 DEF CasTailAt
  <1>8. CASE TailAt(k) # <<t, k>>
    <2>1. mem[QL!TailOf(Order[depth[t]])] # node[t] BY <1>2, <1>4, <1>8 DEF TailAt
    <2>2. /\ qpc' = [qpc EXCEPT ![t] = "wait_next"]
          /\ mem' = mem /\ depth' = depth /\ node' = node /\ qleft' = qleft
      BY <2>1 DEF QL!CasTail, QL!Goto
    <2>3. QED BY <1>1, <1>2, <1>3, <1>4, <1>5, <1>8, <2>2 DEF CasTailAt
  <1>9. QED BY <1>7, <1>8

\* ... or finds that somebody came, ...
LEMMA NextCasMissed ==
  ASSUME QueuedIInv, NEW t \in Threads, NEW k \in 1..Len(Order), CasTailAt(t, k),
         TailAt(k) # <<t, k>>
  PROVE  QueuedIInv'
  <1>0. Types /\ Shapes /\ Local(t) /\ SuccessorOf(t) /\ InnerLocks BY DEF QueuedIInv
  <1>1. /\ qpc[t] = "cas_tail" /\ buf[t] = <<>> /\ depth[t] = k /\ qleft[t] > 0
        /\ node[t] = <<t, k>>
        /\ buf' = buf /\ lock' = lock /\ other' = other /\ qreg' = qreg
        /\ qpc' = [qpc EXCEPT ![t] = "wait_next"]
        /\ mem' = mem /\ depth' = depth /\ node' = node /\ qleft' = qleft
    BY DEF CasTailAt
  <1>2. k = 1
    <2>1. SUFFICES ASSUME k # 1 PROVE FALSE OBVIOUS
    <2>2. k \in 2..Len(Order) /\ depth[t] >= k BY <1>1, <2>1, QueuedPlaces
    <2>3. QED BY <1>0, <2>2 DEF InnerLocks
  <1>3. qpc'[t] = "wait_next" BY <1>0, <1>1 DEF Types
  <1>4. OnlyOf(t) BY <1>0, <1>1 DEF Types, OnlyOf
  <1>5. Types' /\ Shapes'
    BY <1>0, <1>1, <1>3 DEF Types, Shapes, QL!Steps, QL!UnlockSteps, Count
  <1>6. ~Waits(t) /\ ~Waits(t)' /\ Freed(t) /\ Freed(t)' BY <1>1, <1>3 DEF Waits, Freed
  <1>7. Local(t)'
    <2>1. DepthOf(t)' BY <1>1, <1>2, <1>3, <1>6 DEF DepthOf
    <2>2. NodeOf(t)' BY <1>1, <1>3, <1>6 DEF NodeOf
    <2>3. LocksOf(t)' BY <1>0, <1>1, <1>6 DEF Local, LocksOf, Held
    <2>4. BufferOf(t)' BY <1>1, <1>3 DEF BufferOf
    <2>5. QED BY <2>1, <2>2, <2>3, <2>4 DEF Local
  <1>8. SuccessorOf(t)'
    <2>1. InQueue(t) /\ InQueue(t)' BY <1>1, <1>2 DEF InQueue
    <2>2. Successor(t)' = Successor(t) BY <1>1 DEF Successor
    <2>3. \A u \in Threads : Linked(u) => Linked(u)'
      <3>1. ~Linked(t) BY <1>1 DEF Linked
      <3>2. QED BY <1>4, <3>1, Others
    <2>4. QED BY <1>0, <1>3, <2>1, <2>2, <2>3 DEF SuccessorOf, Node
  <1>9. LoadedBy(t)' BY <1>3 DEF LoadedBy
  <1>10. \A x \in Threads : HandedBy(x, t)' <=> HandedBy(x, t)
    BY <1>1 DEF HandedBy, Stores, Elements, HandStore, Node, QL!LockedOf
  <1>11. QED BY <1>1, <1>4, <1>5, <1>6, <1>7, <1>8, <1>9, <1>10, UnseenStep

\* When nobody queued meanwhile, the compare-and-swap frees the lock and changes
\* nothing else.
LEMMA CasFreed ==
  ASSUME QueuedIInv, NEW t \in Threads, NEW k \in 1..Len(Order), CasTailAt(t, k),
         TailAt(k) = <<t, k>>
  PROVE  /\ OnlyOf(t) /\ Types' /\ Shapes' /\ Local(t)' /\ LoadedBy(t)'
         /\ qpc[t] = "cas_tail" /\ depth[t] = k /\ depth'[t] = k - 1
         /\ qpc'[t] = IF k = 1 THEN "idle" ELSE "load_next"
         /\ buf[t] = <<>> /\ buf' = buf /\ other' = other
         /\ SameTails(k) /\ TailAt(k)' = NoNode /\ SameNexts /\ SameLockeds /\ Count' = Count
  <1>0. Types /\ Shapes /\ Local(t) BY DEF QueuedIInv
  <1>1. /\ qpc[t] = "cas_tail" /\ buf[t] = <<>> /\ depth[t] = k /\ qleft[t] > 0
        /\ node[t] = <<t, k>>
        /\ buf' = buf /\ lock' = lock /\ other' = other /\ qreg' = qreg
        /\ mem' = [mem EXCEPT ![QL!TailOf(Order[k])] = NoNode]
        /\ depth' = [depth EXCEPT ![t] = k - 1]
        /\ node' = [node EXCEPT ![t] = NoNode]
        /\ qpc' = [qpc EXCEPT ![t] = IF k = 1 THEN "idle" ELSE "load_next"]
        /\ qleft' = IF k = 1 THEN [qleft EXCEPT ![t] = qleft[t] - 1] ELSE qleft
    BY DEF CasTailAt
  <1>2. /\ mem' = [x \in Locations |-> mem'[x]]
        /\ SameTails(k) /\ TailAt(k)' = NoNode /\ SameNexts /\ SameLockeds /\ Count' = Count
    BY <1>0, <1>1, WriteTail
  <1>3. k \in Nat /\ k - 1 \in 0..Len(Order) /\ k <= Len(Order) /\ k - 1 < Len(Order) /\ k >= 1
    BY QueuedPlaces
  <1>4. /\ qpc'[t] = (IF k = 1 THEN "idle" ELSE "load_next") /\ depth'[t] = k - 1
        /\ node'[t] = NoNode
    BY <1>0, <1>1 DEF Types
  <1>5. OnlyOf(t)
    <2>1. \A x \in Threads \ {t} : qleft'[x] = qleft[x] BY <1>0, <1>1 DEF Types
    <2>2. QED BY <1>0, <1>1, <2>1 DEF Types, OnlyOf
  <1>6. Types'
    <2>1. \A l \in QL!Locks : mem'[QL!TailOf(l)] \in QL!Nodes \cup {NoNode}
      BY <1>0, <1>2, TailsTyped
    <2>2. qpc' \in [Threads -> QL!Steps] BY <1>0, <1>1 DEF Types, QL!Steps, QL!UnlockSteps
    <2>3. qleft' \in [Threads -> Nat]
      <3>1. qleft[t] - 1 \in Nat BY <1>0, <1>1 DEF Types
      <3>2. QED BY <1>0, <1>1, <3>1 DEF Types
    <2>4. depth' \in [Threads -> 0..Len(Order)] BY <1>0, <1>1, <1>3 DEF Types
    <2>5. node' \in [Threads -> QL!Nodes \cup {NoNode}] BY <1>0, <1>1 DEF Types
    <2>6. \A n \in QL!Nodes : /\ mem'[QL!NextOf(n)] \in QL!Nodes \cup {NoNode}
                              /\ mem'[QL!LockedOf(n)] \in BOOLEAN
      BY <1>0, <1>2 DEF SameNexts, SameLockeds, Types
    <2>7. QED BY <1>0, <1>1, <1>2, <2>1, <2>2, <2>3, <2>4, <2>5, <2>6 DEF Types
  <1>7. Shapes' BY <1>0, <1>1, <1>2 DEF Shapes
  <1>8. Freed(t) /\ ~Freed(t)' /\ ~Waits(t)' BY <1>1, <1>4 DEF Freed, Waits
  <1>9. Local(t)'
    <2>1. DepthOf(t)'
      <3>1. k # 1 => k - 1 > 0 /\ qleft' = qleft BY <1>1, <1>3
      <3>2. QED BY <1>1, <1>4, <1>8, <3>1 DEF DepthOf
    <2>2. NodeOf(t)' BY <1>4, <1>8 DEF NodeOf
    <2>3. Held(t) = k - 1 /\ Held(t)' = k - 1 BY <1>1, <1>4, <1>8 DEF Held
    <2>4. LocksOf(t)' BY <1>0, <1>1, <2>3 DEF Local, LocksOf
    <2>5. BufferOf(t)' BY <1>1, <1>4 DEF BufferOf, CountBuffers, ClearBuffers
    <2>6. QED BY <2>1, <2>2, <2>4, <2>5 DEF Local
  <1>10. LoadedBy(t)' BY <1>4 DEF LoadedBy
  <1>11. QED BY <1>1, <1>2, <1>4, <1>5, <1>6, <1>7, <1>9, <1>10

\* ... an inner lock, which nobody else can have, ...
LEMMA NextCasInner ==
  ASSUME QueuedIInv, NEW t \in Threads, NEW k \in 1..Len(Order), CasTailAt(t, k),
         TailAt(k) = <<t, k>>, k # 1
  PROVE  QueuedIInv'
  <1>0. Types /\ SuccessorOf(t) /\ InnerLocks BY DEF QueuedIInv
  <1>1. /\ OnlyOf(t) /\ Types' /\ Shapes' /\ Local(t)' /\ LoadedBy(t)'
        /\ qpc[t] = "cas_tail" /\ depth[t] = k /\ depth'[t] = k - 1
        /\ qpc'[t] = "load_next"
        /\ buf[t] = <<>> /\ buf' = buf /\ other' = other
        /\ SameTails(k) /\ TailAt(k)' = NoNode /\ SameNexts /\ SameLockeds /\ Count' = Count
    BY CasFreed
  <1>2. ~Waits(t) /\ ~Waits(t)' /\ ~Linked(t) BY <1>1 DEF Waits, Linked
  <1>3. k \in Nat /\ k >= 2 /\ k \in 2..Len(Order) BY QueuedPlaces
  <1>4. /\ \A x \in Threads : Successor(x)' = Successor(x) /\ Marked(x)' = Marked(x)
        /\ InnerNexts
    BY <1>1, NodesKept, InnerNextsKept
  <1>5. TailAt(1)' = TailAt(1) BY <1>1, QueuedPlaces DEF SameTails
  <1>6. \A x \in Threads : HandedBy(x, t)' <=> HandedBy(x, t)
    BY <1>1 DEF HandedBy, Stores, Elements, HandStore, Node, QL!LockedOf
  <1>7. depth[t] > 0 /\ depth'[t] > 0 BY <1>1, <1>3
  <1>8. /\ Queue' /\ QueueTail'
        /\ \A x \in Threads : MarkOf(x)'
        /\ \A x \in Threads \ {t} : SuccessorOf(x)'
        /\ \A x \in Threads : (InQueue(x)' <=> InQueue(x)) /\ (Linked(x)' <=> Linked(x))
    BY <1>1, <1>2, <1>4, <1>5, <1>6, <1>7, Unseen
  <1>9. SuccessorOf(t)'
    <2>1. InQueue(t) BY <1>7 DEF InQueue
    <2>2. QED BY <1>0, <1>1, <1>4, <1>8, <2>1 DEF SuccessorOf, Node
  <1>10. InnerLocks'
    <2>1. \A x \in Threads : depth[x] >= k => x = t
      BY <1>0, <1>3 DEF InnerLocks
    <2>2. \A x \in Threads \ {t} : depth'[x] = depth[x] BY <1>1, Others
    <2>3. \A j \in 2..Len(Order) : \A x \in Threads : depth'[x] >= j => TailAt(j)' = <<x, j>>
      <3> SUFFICES ASSUME NEW j \in 2..Len(Order), NEW x \in Threads, depth'[x] >= j
                   PROVE  TailAt(j)' = <<x, j>>
        OBVIOUS
      <3>1. depth[x] >= j /\ j # k
        <4>1. CASE x = t BY <1>1, <1>3, <4>1
        <4>2. CASE x # t BY <2>1, <2>2, <4>2
        <4>3. QED BY <4>1, <4>2
      <3>2. TailAt(j)' = TailAt(j) BY <1>1, <3>1, QueuedPlaces DEF SameTails
      <3>3. QED BY <1>0, <3>1, <3>2 DEF InnerLocks
    <2>4. \A j \in 2..Len(Order) : TailAt(j)' # NoNode => \E x \in Threads : depth'[x] >= j
      <3> SUFFICES ASSUME NEW j \in 2..Len(Order), TailAt(j)' # NoNode
                   PROVE  \E x \in Threads : depth'[x] >= j
        OBVIOUS
      <3>1. j # k BY <1>1
      <3>2. TailAt(j)' = TailAt(j) BY <1>1, <3>1, QueuedPlaces DEF SameTails
      <3>3. PICK x \in Threads : depth[x] >= j BY <1>0, <3>2 DEF InnerLocks
      <3>4. CASE x = t
        <4>1. depth'[t] >= j BY <1>1, <1>3, <3>1, <3>3, <3>4
        <4>2. QED BY <4>1
      <3>5. CASE x # t BY <2>2, <3>3, <3>5
      <3>6. QED BY <3>4, <3>5
    <2>5. \A x \in Threads : \A j \in 2..MaxNested : mem'[QL!NextOf(<<x, j>>)] = NoNode
      BY <1>0, <1>4 DEF InnerLocks, InnerNexts
    <2>6. QED BY <2>3, <2>4, <2>5 DEF InnerLocks
  <1>11. \A x \in Threads : SuccessorOf(x)' BY <1>8, <1>9
  <1>12. QED BY <1>1, <1>8, <1>10, <1>11, Together

\* ... or the outermost.
LEMMA NextCasOuter ==
  ASSUME QueuedIInv, NEW t \in Threads, NEW k \in 1..Len(Order), CasTailAt(t, k),
         TailAt(k) = <<t, k>>, k = 1
  PROVE  QueuedIInv'
  <1>0. Types /\ SuccessorOf(t) /\ Queue /\ QueueTail BY DEF QueuedIInv
  <1>1. /\ OnlyOf(t) /\ Types' /\ Shapes' /\ Local(t)' /\ LoadedBy(t)'
        /\ qpc[t] = "cas_tail" /\ depth[t] = 1 /\ depth'[t] = 0
        /\ qpc'[t] = "idle"
        /\ buf[t] = <<>> /\ buf' = buf /\ other' = other
        /\ SameTails(1) /\ TailAt(1)' = NoNode /\ SameNexts /\ SameLockeds /\ Count' = Count
    BY CasFreed
  <1>2. ~Waits(t) /\ ~Waits(t)' /\ ~Linked(t) /\ ~Linked(t)' BY <1>1 DEF Waits, Linked
  <1>3. /\ \A x \in Threads : Successor(x)' = Successor(x) /\ Marked(x)' = Marked(x)
        /\ InnerNexts
    BY <1>1, NodesKept, InnerNextsKept
  <1>4. InnerLocks'
    <2>1. \A j \in 2..Len(Order) : depth'[t] >= j <=> depth[t] >= j BY <1>1
    <2>2. QED BY <1>1, <1>3, <2>1, InnerKept
  <1>5. InQueue(t) /\ First(t) /\ ~InQueue(t)' BY <1>1, <1>2 DEF InQueue, First
  <1>6. \A x \in Threads : ~Behind(x, t)
    <2>1. TailAt(1) = Node(t) BY DEF Node
    <2>2. TailAt(1) # NoNode BY <2>1, QueuedPlaces
    <2>3. PICK p \in Threads : TailAt(1) = Node(p) /\ \A x \in Threads : ~Behind(x, p)
      BY <1>0, <2>2 DEF QueueTail
    <2>4. p = t BY <2>1, <2>3, QueuedPlaces
    <2>5. QED BY <2>3, <2>4
  <1>7. Successor(t) = NoNode
    <2>1. SUFFICES ASSUME Successor(t) # NoNode PROVE FALSE OBVIOUS
    <2>2. PICK u \in Threads : Successor(t) = Node(u) /\ Linked(u)
      BY <1>0, <1>5, <2>1 DEF SuccessorOf
    <2>3. Behind(u, t) BY <1>5, <2>2 DEF Behind
    <2>4. QED BY <1>6, <2>3
  <1>8. \A x, s \in Threads : HandedBy(x, s)' <=> HandedBy(x, s)
    BY <1>1 DEF HandedBy, Stores, Elements, HandStore, Node, QL!LockedOf
  <1>9. \A x, p \in Threads : Behind(x, p)' <=> Behind(x, p)
    <2> TAKE x, p \in Threads
    <2>1. CASE x = t BY <1>1, <1>2, <2>1 DEF Behind
    <2>2. CASE x # t
      <3>1. /\ qpc'[x] = qpc[x] /\ other'[x] = other[x] /\ (Linked(x)' <=> Linked(x))
            /\ (LinkStore(x, p) \in Stores(x))' <=> LinkStore(x, p) \in Stores(x)
        BY <1>1, <2>2, Others
      <3>2. CASE p = t
        <4>1. ~Behind(x, p) BY <1>6, <3>2
        <4>2. QED BY <1>5, <3>1, <3>2, <4>1 DEF Behind, Node
      <3>3. CASE p # t
        <4>1. InQueue(p)' <=> InQueue(p) BY <1>1, <3>3, Others
        <4>2. QED BY <1>3, <3>1, <3>3, <4>1 DEF Behind, Node
      <3>4. QED BY <3>2, <3>3
    <2>3. QED BY <2>1, <2>2
  <1>10. \A x \in Threads : ~First(x)'
    <2> TAKE x \in Threads
    <2>1. CASE x = t BY <1>1, <1>2, <2>1 DEF First, Handed
    <2>2. CASE x # t
      <3>1. depth'[x] = depth[x] /\ (Linked(x)' <=> Linked(x)) BY <1>1, <2>2, Others
      <3>2. First(x)' <=> First(x) BY <1>3, <1>8, <2>2, <3>1 DEF First, Handed
      <3>3. ~First(x) BY <1>0, <1>5, <2>2 DEF Queue
      <3>4. QED BY <3>2, <3>3
    <2>3. QED BY <2>1, <2>2
  <1>11. \A x \in Threads \ {t} : InQueue(x)' <=> InQueue(x) BY <1>1, Others
  <1>12. Queue'
    <2>1. \A x, p \in Threads : Behind(x, p)' => InQueue(p)' /\ ~First(x)'
      BY <1>0, <1>6, <1>9, <1>10, <1>11 DEF Queue
    <2>2. QED BY <1>0, <1>9, <1>10, <2>1 DEF Queue
  <1>13. QueueTail' BY <1>1, <1>10 DEF QueueTail
  <1>14. \A x \in Threads : MarkOf(x)'
    <2> TAKE x \in Threads
    <2>1. MarkOf(x) BY DEF QueuedIInv
    <2>2. CASE x = t BY <1>1, <1>2, <1>8, <2>1, <2>2 DEF MarkOf
    <2>3. CASE x # t BY <1>1, <1>3, <1>8, <2>1, <2>3, MarksKept DEF MarkOf
    <2>4. QED BY <2>2, <2>3
  <1>15. \A x \in Threads : SuccessorOf(x)'
    <2> TAKE x \in Threads
    <2>1. SuccessorOf(x) BY DEF QueuedIInv
    <2>2. CASE x = t BY <1>1, <1>3, <1>5, <1>7, <2>2 DEF SuccessorOf
    <2>3. CASE x # t
      <3>1. /\ qpc'[x] = qpc[x] /\ other'[x] = other[x] /\ buf'[x] = buf[x]
            /\ (InQueue(x)' <=> InQueue(x))
        BY <1>1, <2>3, Others
      <3>2. \A v \in Threads : Linked(v) => Linked(v)' BY <1>1, <1>2, Others
      <3>3. QED BY <1>3, <1>9, <2>1, <3>1, <3>2 DEF SuccessorOf, Node
    <2>4. QED BY <2>2, <2>3
  <1>16. QED BY <1>1, <1>4, <1>12, <1>13, <1>14, <1>15, Together

\* A thread puts its k-th node at the end of the queue of its k-th lock.
ExchangeAt(t, k) ==
  /\ qpc[t] = "exchange" /\ buf[t] = <<>> /\ depth[t] = k - 1 /\ qleft[t] > 0
  /\ mem' = [mem EXCEPT ![QL!TailOf(Order[k])] = <<t, k>>]
  /\ buf' = buf /\ qreg' = qreg /\ qleft' = qleft
  /\ IF TailAt(k) = NoNode
     THEN /\ lock' = [lock EXCEPT ![<<t, k>>] = Order[k]]
          /\ depth' = [depth EXCEPT ![t] = k]
          /\ node' = [node EXCEPT ![t] = NoNode]
          /\ qpc' = [qpc EXCEPT ![t] = IF k = Len(Order) THEN "read" ELSE "exchange"]
          /\ other' = other
     ELSE /\ node' = [node EXCEPT ![t] = <<t, k>>]
          /\ other' = [other EXCEPT ![t] = TailAt(k)]
          /\ qpc' = [qpc EXCEPT ![t] = "set_locked"]
          /\ depth' = depth /\ lock' = lock

\* The exchange of lock is about the next lock in the order.
LEMMA ExchangeSteps ==
  ASSUME QueuedIInv, NEW t \in Threads, QL!Exchange(t)
  PROVE  \E k \in 1..Len(Order) : ExchangeAt(t, k)
  <1>0. Types /\ Shapes /\ Local(t) BY DEF QueuedIInv
  <1>1. qpc[t] = "exchange" BY DEF QL!Exchange
  <1>2. /\ depth[t] < Len(Order) /\ depth[t] \in Nat /\ qleft[t] > 0
    BY <1>0, <1>1, QueuedPlaces DEF Local, DepthOf, Types
  <1>3. PICK k \in 1..Len(Order) : k = depth[t] + 1
    <2>1. depth[t] + 1 \in 1..Len(Order) BY <1>2, QueuedPlaces
    <2>2. QED BY <2>1
  <1>4. k - 1 = depth[t] BY <1>2, <1>3
  <1>5. QL!AllocNode(t) = <<t, k>> BY <1>0, <1>1, <1>3, OwnNodes
  <1>6. /\ buf[t] = <<>> /\ buf' = buf /\ qreg' = qreg /\ qleft' = qleft
        /\ mem' = [mem EXCEPT ![QL!TailOf(Order[k])] = <<t, k>>]
    BY <1>3, <1>5 DEF QL!Exchange, QL!LockedStore, QL!Drained
  <1>7. CASE TailAt(k) = NoNode
    <2>1. mem[QL!TailOf(Order[depth[t] + 1])] = NoNode BY <1>3, <1>7 DEF TailAt
    <2>2. QL!Acquired(t, <<t, k>>) /\ other' = other BY <1>5, <2>1 DEF QL!Exchange
    <2>3. /\ lock' = [lock EXCEPT ![<<t, k>>] = Order[k]]
          /\ depth' = [depth EXCEPT ![t] = k]
          /\ node' = [node EXCEPT ![t] = NoNode]
          /\ qpc' = [qpc EXCEPT ![t] = IF k = Len(Order) THEN "read" ELSE "exchange"]
      BY <1>3, <2>2 DEF QL!Acquired, QL!Goto
    <2>4. QED BY <1>1, <1>2, <1>4, <1>6, <1>7, <2>2, <2>3 DEF ExchangeAt
  <1>8. CASE TailAt(k) # NoNode
    <2>1. mem[QL!TailOf(Order[depth[t] + 1])] # NoNode BY <1>3, <1>8 DEF TailAt
    <2>2. /\ node' = [node EXCEPT ![t] = <<t, k>>]
          /\ other' = [other EXCEPT ![t] = TailAt(k)]
          /\ qpc' = [qpc EXCEPT ![t] = "set_locked"]
          /\ depth' = depth /\ lock' = lock
      BY <1>3, <1>5, <2>1 DEF QL!Exchange, QL!Goto, TailAt
    <2>3. QED BY <1>1, <1>2, <1>4, <1>6, <1>8, <2>2 DEF ExchangeAt
  <1>9. QED BY <1>7, <1>8

\* It takes the lock when it finds it free, ...
LEMMA ExchangeTaken ==
  ASSUME QueuedIInv, NEW t \in Threads, NEW k \in 1..Len(Order), ExchangeAt(t, k),
         TailAt(k) = NoNode
  PROVE  /\ OnlyOf(t) /\ Types' /\ Shapes' /\ Local(t)' /\ LoadedBy(t)'
         /\ qpc[t] = "exchange" /\ depth[t] = k - 1 /\ depth'[t] = k
         /\ qpc'[t] \in {"read", "exchange"}
         /\ buf[t] = <<>> /\ buf' = buf /\ other' = other
         /\ SameTails(k) /\ TailAt(k)' = <<t, k>> /\ SameNexts /\ SameLockeds /\ Count' = Count
  <1>0. Types /\ Shapes /\ Local(t) BY DEF QueuedIInv
  <1>1. /\ qpc[t] = "exchange" /\ buf[t] = <<>> /\ depth[t] = k - 1 /\ qleft[t] > 0
        /\ mem' = [mem EXCEPT ![QL!TailOf(Order[k])] = <<t, k>>]
        /\ buf' = buf /\ qreg' = qreg /\ qleft' = qleft
        /\ lock' = [lock EXCEPT ![<<t, k>>] = Order[k]]
        /\ depth' = [depth EXCEPT ![t] = k]
        /\ node' = [node EXCEPT ![t] = NoNode]
        /\ qpc' = [qpc EXCEPT ![t] = IF k = Len(Order) THEN "read" ELSE "exchange"]
        /\ other' = other
    BY DEF ExchangeAt
  <1>2. /\ mem' = [x \in Locations |-> mem'[x]]
        /\ SameTails(k) /\ TailAt(k)' = <<t, k>> /\ SameNexts /\ SameLockeds /\ Count' = Count
    BY <1>0, <1>1, WriteTail
  <1>3. /\ k \in Nat /\ k >= 1 /\ k \in 0..Len(Order) /\ k \in 1..MaxNested /\ k <= Len(Order)
        /\ Len(Order) \in Nat
    BY QueuedPlaces
  <1>4. <<t, k>> \in QL!Nodes BY <1>3, QueuedPlaces
  <1>5. /\ qpc'[t] = (IF k = Len(Order) THEN "read" ELSE "exchange") /\ depth'[t] = k
        /\ node'[t] = NoNode
    BY <1>0, <1>1 DEF Types
  <1>6. OnlyOf(t)
    <2>1. \A x \in Threads \ {t} : \A i \in 1..MaxNested : lock'[<<x, i>>] = lock[<<x, i>>]
      BY <1>0, <1>1, QueuedPlaces DEF Types
    <2>2. QED BY <1>0, <1>1, <2>1 DEF Types, OnlyOf
  <1>7. Types'
    <2>1. \A l \in QL!Locks : mem'[QL!TailOf(l)] \in QL!Nodes \cup {NoNode}
      BY <1>0, <1>2, <1>4, TailsTyped
    <2>2. qpc' \in [Threads -> QL!Steps] BY <1>0, <1>1 DEF Types, QL!Steps, QL!LockSteps
    <2>3. Order[k] \in QL!Locks BY QueuedPlaces
    <2>4. lock' \in [QL!Nodes -> QL!Locks \cup {NoLock}] BY <1>0, <1>1, <2>3 DEF Types
    <2>5. depth' \in [Threads -> 0..Len(Order)] BY <1>0, <1>1, <1>3 DEF Types
    <2>6. node' \in [Threads -> QL!Nodes \cup {NoNode}] BY <1>0, <1>1 DEF Types
    <2>7. \A n \in QL!Nodes : /\ mem'[QL!NextOf(n)] \in QL!Nodes \cup {NoNode}
                              /\ mem'[QL!LockedOf(n)] \in BOOLEAN
      BY <1>0, <1>2 DEF SameNexts, SameLockeds, Types
    <2>8. QED BY <1>0, <1>1, <1>2, <2>1, <2>2, <2>4, <2>5, <2>6, <2>7 DEF Types
  <1>8. Shapes' BY <1>0, <1>1, <1>2 DEF Shapes
  <1>9. ~Freed(t) /\ ~Freed(t)' /\ ~Waits(t)' BY <1>1, <1>5 DEF Freed, Waits
  <1>10. Local(t)'
    <2>1. DepthOf(t)'
      <3>1. k # Len(Order) => k < Len(Order) BY <1>3
      <3>2. QED BY <1>1, <1>5, <1>9, <3>1 DEF DepthOf
    <2>2. NodeOf(t)' BY <1>5, <1>9 DEF NodeOf
    <2>3. LocksOf(t)'
      <3>1. Held(t) = k - 1 /\ Held(t)' = k BY <1>1, <1>5, <1>9 DEF Held
      <3>2. \A i \in 1..MaxNested : <<t, i>> \in QL!Nodes /\ (<<t, i>> = <<t, k>> <=> i = k)
        BY QueuedPlaces
      <3>3. \A i \in 1..MaxNested :
              lock'[<<t, i>>] = IF i = k THEN Order[k] ELSE lock[<<t, i>>]
        BY <1>0, <1>1, <3>2 DEF Types
      <3>4. \A i \in 1..MaxNested :
              lock[<<t, i>>] = IF i <= k - 1 THEN Order[i] ELSE NoLock
        BY <1>0, <3>1 DEF Local, LocksOf
      <3>5. \A i \in 1..MaxNested : i <= k <=> (i <= k - 1 \/ i = k) BY <1>3
      <3>6. QED BY <3>1, <3>3, <3>4, <3>5 DEF LocksOf
    <2>4. BufferOf(t)'
      <3>1. buf'[t] = <<>> BY <1>1
      <3>2. depth'[t] # 0 BY <1>3, <1>5
      <3>3. QED BY <1>5, <3>1, <3>2 DEF BufferOf
    <2>5. QED BY <2>1, <2>2, <2>3, <2>4 DEF Local
  <1>11. LoadedBy(t)' BY <1>5 DEF LoadedBy
  <1>12. QED BY <1>1, <1>2, <1>5, <1>6, <1>7, <1>8, <1>10, <1>11

\* ... which an inner lock is, as the thread has the outermost, ...
LEMMA InnerFree ==
  ASSUME QueuedIInv, NEW t \in Threads, NEW k \in 2..Len(Order), depth[t] = k - 1
  PROVE  TailAt(k) = NoNode
  <1>1. SUFFICES ASSUME TailAt(k) # NoNode PROVE FALSE OBVIOUS
  <1>2. k \in Nat /\ k >= 2 BY QueuedPlaces
  <1>3. PICK x \in Threads : depth[x] >= k BY <1>1 DEF QueuedIInv, InnerLocks
  <1>4. depth[x] \in Nat BY QueuedPlaces DEF QueuedIInv, Types
  <1>5. First(x) /\ First(t) BY <1>2, <1>3, <1>4 DEF First
  <1>6. x = t BY <1>5 DEF QueuedIInv, Queue
  <1>7. QED BY <1>2, <1>3, <1>6

\* The exchange on an inner lock keeps the invariant: its tail is free.
LEMMA NextExchangeInner ==
  ASSUME QueuedIInv, NEW t \in Threads, NEW k \in 1..Len(Order), ExchangeAt(t, k), k # 1
  PROVE  QueuedIInv'
  <1>0. Types /\ SuccessorOf(t) /\ InnerLocks BY DEF QueuedIInv
  <1>1. k \in Nat /\ k >= 2 /\ k \in 2..Len(Order) BY QueuedPlaces
  <1>2. depth[t] = k - 1 BY DEF ExchangeAt
  <1>3. TailAt(k) = NoNode BY <1>1, <1>2, InnerFree
  <1>4. /\ OnlyOf(t) /\ Types' /\ Shapes' /\ Local(t)' /\ LoadedBy(t)'
        /\ qpc[t] = "exchange" /\ depth'[t] = k
        /\ qpc'[t] \in {"read", "exchange"}
        /\ buf[t] = <<>> /\ buf' = buf /\ other' = other
        /\ SameTails(k) /\ TailAt(k)' = <<t, k>> /\ SameNexts /\ SameLockeds /\ Count' = Count
    BY <1>3, ExchangeTaken
  <1>5. ~Waits(t) /\ ~Waits(t)' BY <1>4 DEF Waits
  <1>6. /\ \A x \in Threads : Successor(x)' = Successor(x) /\ Marked(x)' = Marked(x)
        /\ InnerNexts
    BY <1>4, NodesKept, InnerNextsKept
  <1>7. TailAt(1)' = TailAt(1) BY <1>4, QueuedPlaces DEF SameTails
  <1>8. \A x \in Threads : HandedBy(x, t)' <=> HandedBy(x, t)
    BY <1>4 DEF HandedBy, Stores, Elements, HandStore, Node, QL!LockedOf
  <1>9. depth[t] > 0 /\ depth'[t] > 0 BY <1>1, <1>2, <1>4
  <1>10. /\ Queue' /\ QueueTail'
         /\ \A x \in Threads : MarkOf(x)'
         /\ \A x \in Threads \ {t} : SuccessorOf(x)'
         /\ \A x \in Threads : (InQueue(x)' <=> InQueue(x)) /\ (Linked(x)' <=> Linked(x))
    BY <1>4, <1>5, <1>6, <1>7, <1>8, <1>9, Unseen
  <1>11. SuccessorOf(t)'
    <2>1. InQueue(t) BY <1>9 DEF InQueue
    <2>2. QED BY <1>0, <1>4, <1>6, <1>10, <2>1 DEF SuccessorOf, Node
  <1>12. InnerLocks'
    <2>1. \A x \in Threads : ~(depth[x] >= k)
      <3> SUFFICES ASSUME NEW x \in Threads, depth[x] >= k PROVE FALSE OBVIOUS
      <3>1. TailAt(k) = <<x, k>> BY <1>0, <1>1 DEF InnerLocks
      <3>2. k \in 1..MaxNested BY <1>1, QueuedPlaces
      <3>3. QED BY <1>3, <3>1, <3>2, QueuedPlaces
    <2>2. \A x \in Threads \ {t} : depth'[x] = depth[x] BY <1>4, Others
    <2>3. \A j \in 2..Len(Order) : \A x \in Threads : depth'[x] >= j => TailAt(j)' = <<x, j>>
      <3> SUFFICES ASSUME NEW j \in 2..Len(Order), NEW x \in Threads, depth'[x] >= j
                   PROVE  TailAt(j)' = <<x, j>>
        OBVIOUS
      <3>1. CASE j = k
        <4>1. x = t BY <2>1, <2>2, <3>1
        <4>2. QED BY <1>4, <3>1, <4>1
      <3>2. CASE j # k
        <4>1. depth[x] >= j
          <5>1. x = t => depth[x] >= j BY <1>1, <1>2, <1>4, <3>2
          <5>2. QED BY <2>2, <5>1
        <4>2. TailAt(j)' = TailAt(j) BY <1>4, <3>2, QueuedPlaces DEF SameTails
        <4>3. QED BY <1>0, <4>1, <4>2 DEF InnerLocks
      <3>3. QED BY <3>1, <3>2
    <2>4. \A j \in 2..Len(Order) : TailAt(j)' # NoNode => \E x \in Threads : depth'[x] >= j
      <3> SUFFICES ASSUME NEW j \in 2..Len(Order), TailAt(j)' # NoNode
                   PROVE  \E x \in Threads : depth'[x] >= j
        OBVIOUS
      <3>1. CASE j = k BY <1>1, <1>4, <3>1
      <3>2. CASE j # k
        <4>1. TailAt(j)' = TailAt(j) BY <1>4, <3>2, QueuedPlaces DEF SameTails
        <4>2. PICK x \in Threads : depth[x] >= j BY <1>0, <4>1 DEF InnerLocks
        <4>3. x = t => depth'[x] >= j BY <1>1, <1>2, <1>4, <4>2
        <4>4. QED BY <2>2, <4>2, <4>3
      <3>3. QED BY <3>1, <3>2
    <2>5. \A x \in Threads : \A j \in 2..MaxNested : mem'[QL!NextOf(<<x, j>>)] = NoNode
      BY <1>0, <1>6 DEF InnerLocks, InnerNexts
    <2>6. QED BY <2>3, <2>4, <2>5 DEF InnerLocks
  <1>13. \A x \in Threads : SuccessorOf(x)' BY <1>10, <1>11
  <1>14. QED BY <1>4, <1>10, <1>12, <1>13, Together

\* A thread that begins to lock is not in the queue, and nobody is behind it.
LEMMA Outside ==
  ASSUME QueuedIInv, NEW t \in Threads, qpc[t] = "exchange", buf[t] = <<>>, depth[t] = 0
  PROVE  /\ ~Waits(t) /\ ~InQueue(t) /\ ~Linked(t) /\ ~First(t) /\ Successor(t) = NoNode
         /\ \A x \in Threads : ~Behind(x, t) /\ ~Behind(t, x) /\ ~HandedBy(x, t) /\ ~HandedBy(t, x)
  <1>1. ~Waits(t) /\ ~InQueue(t) /\ ~Linked(t) /\ ~First(t)
    BY DEF Waits, InQueue, Linked, First, Handed
  <1>2. Successor(t) = NoNode BY <1>1 DEF QueuedIInv, SuccessorOf
  <1>3. \A x \in Threads : ~Behind(x, t) BY <1>1 DEF QueuedIInv, Queue
  <1>4. \A x \in Threads : ~Behind(t, x) BY <1>1 DEF Behind
  <1>5. \A x \in Threads : ~HandedBy(x, t) BY ShortBuffers DEF HandedBy, Stores
  <1>6. \A x \in Threads : ~HandedBy(t, x) BY <1>1 DEF QueuedIInv, MarkOf
  <1>7. QED BY <1>1, <1>2, <1>3, <1>4, <1>5, <1>6

\* ... or the outermost, which it finds free, ...
LEMMA NextExchangeOuter ==
  ASSUME QueuedIInv, NEW t \in Threads, NEW k \in 1..Len(Order), ExchangeAt(t, k), k = 1,
         TailAt(k) = NoNode
  PROVE  QueuedIInv'
  <1>0. Types /\ SuccessorOf(t) /\ Queue /\ QueueTail BY DEF QueuedIInv
  <1>1. /\ OnlyOf(t) /\ Types' /\ Shapes' /\ Local(t)' /\ LoadedBy(t)'
        /\ qpc[t] = "exchange" /\ depth[t] = 0 /\ depth'[t] = 1
        /\ qpc'[t] \in {"read", "exchange"}
        /\ buf[t] = <<>> /\ buf' = buf /\ other' = other
        /\ SameTails(1) /\ TailAt(1)' = Node(t) /\ SameNexts /\ SameLockeds /\ Count' = Count
    BY ExchangeTaken DEF Node
  <1>2. /\ ~Waits(t) /\ ~InQueue(t) /\ ~Linked(t) /\ Successor(t) = NoNode
        /\ \A x \in Threads : ~Behind(x, t) /\ ~Behind(t, x) /\ ~HandedBy(x, t) /\ ~HandedBy(t, x)
    BY <1>1, Outside
  <1>3. ~Waits(t)' /\ ~Linked(t)' /\ InQueue(t)' /\ First(t)'
    BY <1>1 DEF Waits, Linked, InQueue, First
  <1>4. /\ \A x \in Threads : Successor(x)' = Successor(x) /\ Marked(x)' = Marked(x)
        /\ InnerNexts
    BY <1>1, NodesKept, InnerNextsKept
  <1>5. InnerLocks'
    <2>1. \A j \in 2..Len(Order) : depth'[t] >= j <=> depth[t] >= j BY <1>1
    <2>2. QED BY <1>1, <1>4, <2>1, InnerKept
  <1>6. \A x, s \in Threads : HandedBy(x, s)' <=> HandedBy(x, s)
    BY <1>1 DEF HandedBy, Stores, Elements, HandStore, Node, QL!LockedOf
  <1>7. \A x, p \in Threads : Behind(x, p)' <=> Behind(x, p)
    <2> TAKE x, p \in Threads
    <2>1. CASE x = t BY <1>1, <1>2, <1>3, <2>1 DEF Behind
    <2>2. CASE x # t
      <3>1. /\ qpc'[x] = qpc[x] /\ other'[x] = other[x] /\ (Linked(x)' <=> Linked(x))
            /\ (LinkStore(x, p) \in Stores(x))' <=> LinkStore(x, p) \in Stores(x)
        BY <1>1, <2>2, Others
      <3>2. CASE p = t
        <4>1. Successor(p)' # Node(x) /\ Successor(p) # Node(x) BY <1>2, <1>4, <3>2, QueuedPlaces
        <4>2. QED BY <3>1, <4>1 DEF Behind, Node
      <3>3. CASE p # t
        <4>1. InQueue(p)' <=> InQueue(p) BY <1>1, <3>3, Others
        <4>2. QED BY <1>4, <3>1, <3>3, <4>1 DEF Behind, Node
      <3>4. QED BY <3>2, <3>3
    <2>3. QED BY <2>1, <2>2
  <1>8. \A x \in Threads : First(x)' <=> x = t
    <2> TAKE x \in Threads
    <2>1. CASE x = t BY <1>3, <2>1
    <2>2. CASE x # t
      <3>1. depth'[x] = depth[x] /\ (Linked(x)' <=> Linked(x)) BY <1>1, <2>2, Others
      <3>2. First(x)' <=> First(x) BY <1>4, <1>6, <2>2, <3>1 DEF First, Handed
      <3>3. QED BY <1>0, <2>2, <3>2 DEF QueueTail
    <2>3. QED BY <2>1, <2>2
  <1>9. \A x \in Threads \ {t} : InQueue(x)' <=> InQueue(x) BY <1>1, Others
  <1>10. Queue'
    <2>1. \A x, p \in Threads : Behind(x, p)' => InQueue(p)' /\ ~First(x)'
      BY <1>0, <1>2, <1>7, <1>8, <1>9 DEF Queue
    <2>2. QED BY <1>0, <1>7, <1>8, <2>1 DEF Queue
  <1>11. QueueTail'
    <2>1. TailAt(1)' # NoNode BY <1>1, QueuedPlaces
    <2>2. \A x \in Threads : ~Behind(x, t)' BY <1>2, <1>7
    <2>3. QED BY <1>1, <1>3, <2>1, <2>2 DEF QueueTail, Node
  <1>12. \A x \in Threads : MarkOf(x)'
    <2> TAKE x \in Threads
    <2>1. MarkOf(x) BY DEF QueuedIInv
    <2>2. CASE x = t BY <1>1, <1>2, <1>6, <2>2 DEF MarkOf
    <2>3. CASE x # t BY <1>1, <1>4, <1>6, <2>1, <2>3, MarksKept DEF MarkOf
    <2>4. QED BY <2>2, <2>3
  <1>13. \A x \in Threads : SuccessorOf(x)'
    <2> TAKE x \in Threads
    <2>1. SuccessorOf(x) BY DEF QueuedIInv
    <2>2. CASE x = t BY <1>1, <1>2, <1>3, <1>4, <2>2 DEF SuccessorOf
    <2>3. CASE x # t
      <3>1. /\ qpc'[x] = qpc[x] /\ other'[x] = other[x] /\ buf'[x] = buf[x]
            /\ (InQueue(x)' <=> InQueue(x))
        BY <1>1, <2>3, Others
      <3>2. \A v \in Threads : Linked(v) => Linked(v)' BY <1>1, <1>2, Others
      <3>3. QED BY <1>4, <1>7, <2>1, <3>1, <3>2 DEF SuccessorOf, Node
    <2>4. QED BY <2>2, <2>3
  <1>14. QED BY <1>1, <1>5, <1>10, <1>11, <1>12, <1>13, Together

\* ... or queues for it.
LEMMA ExchangeQueues ==
  ASSUME QueuedIInv, NEW t \in Threads, NEW k \in 1..Len(Order), ExchangeAt(t, k), k = 1,
         NEW p \in Threads, TailAt(1) = Node(p)
  PROVE  /\ OnlyOf(t) /\ Types' /\ Shapes' /\ Local(t)' /\ LoadedBy(t)'
         /\ qpc[t] = "exchange" /\ depth[t] = 0 /\ depth'[t] = 0
         /\ qpc'[t] = "set_locked" /\ other'[t] = Node(p)
         /\ buf[t] = <<>> /\ buf' = buf
         /\ SameTails(1) /\ TailAt(1)' = Node(t) /\ SameNexts /\ SameLockeds /\ Count' = Count
  <1>0. Types /\ Shapes /\ Local(t) BY DEF QueuedIInv
  <1>1. TailAt(1) # NoNode BY QueuedPlaces
  <1>2. /\ qpc[t] = "exchange" /\ buf[t] = <<>> /\ depth[t] = 0 /\ qleft[t] > 0
        /\ mem' = [mem EXCEPT ![QL!TailOf(Order[k])] = Node(t)]
        /\ buf' = buf /\ qreg' = qreg /\ qleft' = qleft
        /\ node' = [node EXCEPT ![t] = Node(t)]
        /\ other' = [other EXCEPT ![t] = Node(p)]
        /\ qpc' = [qpc EXCEPT ![t] = "set_locked"]
        /\ depth' = depth /\ lock' = lock
    BY <1>1 DEF ExchangeAt, Node
  <1>3. /\ mem' = [x \in Locations |-> mem'[x]]
        /\ SameTails(1) /\ TailAt(1)' = Node(t) /\ SameNexts /\ SameLockeds /\ Count' = Count
    BY <1>0, <1>2, WriteTail
  <1>4. Node(t) \in QL!Nodes /\ Node(p) \in QL!Nodes BY QueuedPlaces
  <1>5. qpc'[t] = "set_locked" /\ node'[t] = Node(t) /\ other'[t] = Node(p) /\ depth'[t] = 0
    BY <1>0, <1>2 DEF Types
  <1>6. OnlyOf(t) BY <1>0, <1>2 DEF Types, OnlyOf
  <1>7. Types'
    <2>1. \A l \in QL!Locks : mem'[QL!TailOf(l)] \in QL!Nodes \cup {NoNode}
      BY <1>0, <1>3, <1>4, TailsTyped
    <2>2. qpc' \in [Threads -> QL!Steps] BY <1>0, <1>2 DEF Types, QL!Steps, QL!LockSteps
    <2>3. /\ node' \in [Threads -> QL!Nodes \cup {NoNode}]
          /\ other' \in [Threads -> QL!Nodes \cup {NoNode}]
      BY <1>0, <1>2, <1>4 DEF Types
    <2>4. \A n \in QL!Nodes : /\ mem'[QL!NextOf(n)] \in QL!Nodes \cup {NoNode}
                              /\ mem'[QL!LockedOf(n)] \in BOOLEAN
      BY <1>0, <1>3 DEF SameNexts, SameLockeds, Types
    <2>5. QED BY <1>0, <1>2, <1>3, <2>1, <2>2, <2>3, <2>4 DEF Types
  <1>8. Shapes' BY <1>0, <1>2, <1>3 DEF Shapes
  <1>9. ~Freed(t) /\ ~Freed(t)' /\ Waits(t)' BY <1>2, <1>5 DEF Freed, Waits
  <1>10. Local(t)'
    <2>1. DepthOf(t)' BY <1>2, <1>5, <1>9 DEF DepthOf
    <2>2. NodeOf(t)' BY <1>5, <1>9 DEF NodeOf, Node
    <2>3. LocksOf(t)' BY <1>0, <1>2, <1>9 DEF Local, LocksOf, Held
    <2>4. BufferOf(t)' BY <1>2, <1>5 DEF BufferOf
    <2>5. QED BY <2>1, <2>2, <2>3, <2>4 DEF Local
  <1>11. LoadedBy(t)' BY <1>5 DEF LoadedBy
  <1>12. QED BY <1>2, <1>3, <1>5, <1>6, <1>7, <1>8, <1>10, <1>11

\* The exchange on a lock that is taken keeps the invariant: the thread is
\* behind the last.
LEMMA NextExchangeQueued ==
  ASSUME QueuedIInv, NEW t \in Threads, NEW k \in 1..Len(Order), ExchangeAt(t, k), k = 1,
         TailAt(k) # NoNode
  PROVE  QueuedIInv'
  <1>0. Types /\ SuccessorOf(t) /\ Queue /\ QueueTail BY DEF QueuedIInv
  <1>1. PICK p \in Threads : TailAt(1) = Node(p) /\ InQueue(p) /\ \A x \in Threads : ~Behind(x, p)
    BY <1>0 DEF QueueTail
  <1>2. /\ OnlyOf(t) /\ Types' /\ Shapes' /\ Local(t)' /\ LoadedBy(t)'
        /\ qpc[t] = "exchange" /\ depth[t] = 0 /\ depth'[t] = 0
        /\ qpc'[t] = "set_locked" /\ other'[t] = Node(p)
        /\ buf[t] = <<>> /\ buf' = buf
        /\ SameTails(1) /\ TailAt(1)' = Node(t) /\ SameNexts /\ SameLockeds /\ Count' = Count
    BY <1>1, ExchangeQueues
  <1>3. /\ ~Waits(t) /\ ~InQueue(t) /\ ~Linked(t) /\ Successor(t) = NoNode
        /\ \A x \in Threads : ~Behind(x, t) /\ ~Behind(t, x) /\ ~HandedBy(x, t) /\ ~HandedBy(t, x)
    BY <1>2, Outside
  <1>4. Waits(t)' /\ ~Linked(t)' /\ InQueue(t)' /\ ~First(t)' /\ p # t
    BY <1>1, <1>2, <1>3 DEF Waits, Linked, InQueue, First, Handed
  <1>5. /\ \A x \in Threads : Successor(x)' = Successor(x) /\ Marked(x)' = Marked(x)
        /\ InnerNexts
    BY <1>2, NodesKept, InnerNextsKept
  <1>6. InnerLocks' BY <1>2, <1>5, InnerKept
  <1>7. \A x, s \in Threads : HandedBy(x, s)' <=> HandedBy(x, s)
    BY <1>2 DEF HandedBy, Stores, Elements, HandStore, Node, QL!LockedOf
  <1>8. \A q \in Threads : Behind(t, q)' <=> q = p
    BY <1>2, <1>4, QueuedPlaces DEF Behind, Node
  <1>9. \A x \in Threads \ {t} : \A q \in Threads : Behind(x, q)' <=> Behind(x, q)
    <2> TAKE x \in Threads \ {t}
    <2> TAKE q \in Threads
    <2>1. /\ qpc'[x] = qpc[x] /\ other'[x] = other[x] /\ (Linked(x)' <=> Linked(x))
          /\ (LinkStore(x, q) \in Stores(x))' <=> LinkStore(x, q) \in Stores(x)
      BY <1>2, Others
    <2>2. CASE q = t
      <3>1. Successor(q)' # Node(x) /\ Successor(q) # Node(x) BY <1>3, <1>5, <2>2, QueuedPlaces
      <3>2. QED BY <2>1, <3>1 DEF Behind, Node
    <2>3. CASE q # t
      <3>1. InQueue(q)' <=> InQueue(q) BY <1>2, <2>3, Others
      <3>2. QED BY <1>5, <2>1, <2>3, <3>1 DEF Behind, Node
    <2>4. QED BY <2>2, <2>3
  <1>10. \A x \in Threads : First(x)' <=> First(x)
    <2> TAKE x \in Threads
    <2>1. CASE x = t BY <1>2, <1>3, <1>4, <2>1, Outside
    <2>2. CASE x # t
      <3>1. depth'[x] = depth[x] /\ (Linked(x)' <=> Linked(x)) BY <1>2, <2>2, Others
      <3>2. QED BY <1>5, <1>7, <2>2, <3>1 DEF First, Handed
    <2>3. QED BY <2>1, <2>2
  <1>11. \A x \in Threads : InQueue(x) => InQueue(x)' BY <1>2, <1>4, Others
  <1>12. Queue'
    <2>1. \A x, q, r \in Threads : Behind(x, q)' /\ Behind(x, r)' => q = r
      BY <1>0, <1>8, <1>9 DEF Queue
    <2>2. \A x, y, q \in Threads : Behind(x, q)' /\ Behind(y, q)' => x = y
      <3> TAKE x, y, q \in Threads
      <3>1. CASE x = t BY <1>1, <1>8, <1>9, <3>1
      <3>2. CASE y = t BY <1>1, <1>8, <1>9, <3>2
      <3>3. CASE x # t /\ y # t BY <1>0, <1>9, <3>3 DEF Queue
      <3>4. QED BY <3>1, <3>2, <3>3
    <2>3. \A x, q \in Threads : Behind(x, q)' => InQueue(q)' /\ ~First(x)'
      <3> TAKE x, q \in Threads
      <3>1. CASE x = t BY <1>1, <1>4, <1>8, <1>11, <3>1
      <3>2. CASE x # t BY <1>0, <1>9, <1>10, <1>11, <3>2 DEF Queue
      <3>3. QED BY <3>1, <3>2
    <2>4. \A x, y \in Threads : First(x)' /\ First(y)' => x = y BY <1>0, <1>10 DEF Queue
    <2>5. QED BY <2>1, <2>2, <2>3, <2>4 DEF Queue
  <1>13. QueueTail'
    <2>1. TailAt(1)' # NoNode BY <1>2, QueuedPlaces
    <2>2. \A x \in Threads : ~Behind(x, t)' BY <1>3, <1>4, <1>8, <1>9
    <2>3. QED BY <1>2, <1>4, <2>1, <2>2 DEF QueueTail, Node
  <1>14. \A x \in Threads : MarkOf(x)'
    <2> TAKE x \in Threads
    <2>1. MarkOf(x) BY DEF QueuedIInv
    <2>2. CASE x = t BY <1>2, <1>3, <1>7, <2>2 DEF MarkOf
    <2>3. CASE x # t BY <1>2, <1>5, <1>7, <2>1, <2>3, MarksKept DEF MarkOf
    <2>4. QED BY <2>2, <2>3
  <1>15. \A x \in Threads : SuccessorOf(x)'
    <2> TAKE x \in Threads
    <2>1. SuccessorOf(x) BY DEF QueuedIInv
    <2>2. CASE x = t BY <1>2, <1>3, <1>4, <1>5, <1>8, <2>2 DEF SuccessorOf
    <2>3. CASE x # t
      <3>1. /\ qpc'[x] = qpc[x] /\ other'[x] = other[x] /\ buf'[x] = buf[x]
            /\ (InQueue(x)' <=> InQueue(x))
        BY <1>2, <2>3, Others
      <3>2. \A v \in Threads : Linked(v) => Linked(v)' BY <1>2, <1>3, Others
      <3>3. QED BY <1>5, <1>9, <2>1, <2>3, <3>1, <3>2 DEF SuccessorOf, Node
    <2>4. QED BY <2>2, <2>3
  <1>16. QED BY <1>2, <1>6, <1>12, <1>13, <1>14, <1>15, Together

\* Every step keeps the invariant.
LEMMA NextQueued ==
  ASSUME QueuedIInv, NEW t \in Threads, QL!Flush(t) \/ QL!Run(t)
  PROVE  QueuedIInv'
  <1>1. CASE QL!Flush(t) BY <1>1, NextQueuedFlush
  <1>2. CASE QL!Exchange(t)
    <2>1. PICK k \in 1..Len(Order) : ExchangeAt(t, k) BY <1>2, ExchangeSteps
    <2>2. CASE k # 1 BY <2>1, <2>2, NextExchangeInner
    <2>3. CASE k = 1 /\ TailAt(k) = NoNode BY <2>1, <2>3, NextExchangeOuter
    <2>4. CASE k = 1 /\ TailAt(k) # NoNode BY <2>1, <2>4, NextExchangeQueued
    <2>5. QED BY <2>2, <2>3, <2>4
  <1>3. CASE QL!CasTail(t)
    <2>1. PICK k \in 1..Len(Order) : CasTailAt(t, k) BY <1>3, CasTailSteps
    <2>2. CASE TailAt(k) # <<t, k>> BY <2>1, <2>2, NextCasMissed
    <2>3. CASE TailAt(k) = <<t, k>> /\ k # 1 BY <2>1, <2>3, NextCasInner
    <2>4. CASE TailAt(k) = <<t, k>> /\ k = 1 BY <2>1, <2>4, NextCasOuter
    <2>5. QED BY <2>2, <2>3, <2>4
  <1>4. CASE QL!Begin(t) BY <1>4, NextBegin
  <1>5. CASE QL!SetLocked(t) BY <1>5, NextSetLocked
  <1>6. CASE QL!Link(t) BY <1>6, NextLink
  <1>7. CASE QL!Spin(t) BY <1>7, NextSpin
  <1>8. CASE QL!ReadCounter(t) BY <1>8, NextReadCounter
  <1>9. CASE QL!WriteCounter(t) BY <1>9, NextWriteCounter
  <1>10. CASE QL!LoadNext(t) BY <1>10, NextLoadNext
  <1>11. CASE QL!WaitNext(t) BY <1>11, NextWaitNext
  <1>12. CASE QL!HandOver(t) BY <1>12, NextHandOver
  <1>13. CASE QL!ClearNext(t) BY <1>13, NextClearNext
  <1>14. QED
    BY <1>1, <1>2, <1>3, <1>4, <1>5, <1>6, <1>7, <1>8, <1>9, <1>10, <1>11, <1>12, <1>13
    DEF QL!Run, QL!Lock, QL!Unlock

\* The counter starts at zero.
LEMMA InitialCount == ASSUME Init PROVE Count = 0
  <1>1. QL!Counter \in Locations BY DEF Locations
  <1>2. mem = QL!InitialMemory BY DEF Init, QL!Init
  <1>3. QED BY <1>1, <1>2 DEF QL!InitialMemory, Locations, Count

\* The queued lock's invariant holds at first.
LEMMA InitQueued == ASSUME Init PROVE QueuedIInv
  <1>1. /\ mem = QL!InitialMemory
        /\ buf = [t \in Threads |-> <<>>] /\ qpc = [t \in Threads |-> "idle"]
        /\ depth = [t \in Threads |-> 0] /\ lock = [n \in QL!Nodes |-> NoLock]
        /\ node = [t \in Threads |-> NoNode] /\ other = [t \in Threads |-> NoNode]
        /\ qreg = [t \in Threads |-> 0] /\ qleft = Rounds
    BY DEF Init, QL!Init
  <1>2. DOMAIN mem = Locations /\ Shapes
    <2>1. mem = [loc \in Locations |-> mem[loc]] BY <1>1 DEF QL!InitialMemory, Locations
    <2>2. QED BY <1>1, <2>1 DEF Shapes
  <1>3. /\ \A l \in QL!Locks : mem[QL!TailOf(l)] = NoNode
        /\ \A n \in QL!Nodes : mem[QL!NextOf(n)] = NoNode /\ mem[QL!LockedOf(n)] = FALSE
        /\ Count = 0
    <2>1. \A l \in QL!Locks : mem[QL!TailOf(l)] = NoNode
      <3>1. \A l \in QL!Locks : QL!TailOf(l) \in Locations BY DEF Locations
      <3>2. QED BY <1>1, <3>1, QueuedLocations DEF QL!InitialMemory, Locations
    <2>2. \A n \in QL!Nodes : mem[QL!NextOf(n)] = NoNode
      <3>1. \A n \in QL!Nodes : QL!NextOf(n) \in Locations BY DEF Locations
      <3>2. QED BY <1>1, <3>1, QueuedLocations DEF QL!InitialMemory, Locations
    <2>3. \A n \in QL!Nodes : mem[QL!LockedOf(n)] = FALSE
      <3>1. \A n \in QL!Nodes : QL!LockedOf(n) \in Locations BY DEF Locations
      <3>2. QED BY <1>1, <3>1, QueuedLocations DEF QL!InitialMemory, Locations
    <2>4. Count = 0 BY InitialCount
    <2>5. QED BY <2>1, <2>2, <2>3, <2>4
  <1>4. Types
    <2>1. 0 \in 0..Len(Order) BY QueuedPlaces
    <2>2. qpc \in [Threads -> QL!Steps] BY <1>1 DEF QL!Steps
    <2>3. qleft \in [Threads -> Nat] BY <1>1, BudgetAssumption
    <2>4. QED BY <1>1, <1>3, <2>1, <2>2, <2>3 DEF Types
  <1>5. \A t \in Threads : /\ qpc[t] = "idle" /\ depth[t] = 0 /\ buf[t] = <<>> /\ node[t] = NoNode
                           /\ ~Waits(t) /\ ~InQueue(t) /\ ~Linked(t) /\ ~First(t) /\ ~Freed(t)
    <2> TAKE t \in Threads
    <2>1. qpc[t] = "idle" /\ depth[t] = 0 /\ buf[t] = <<>> /\ node[t] = NoNode BY <1>1
    <2>2. ~Waits(t) /\ ~Linked(t) /\ ~Freed(t) BY <2>1 DEF Waits, Linked, Freed
    <2>3. ~InQueue(t) /\ ~First(t) BY <2>1, <2>2 DEF InQueue, First, Handed
    <2>4. QED BY <2>1, <2>2, <2>3
  <1>6. \A t, u \in Threads : ~Behind(u, t) /\ ~HandedBy(u, t)
    BY <1>5, ShortBuffers DEF Behind, HandedBy, Stores
  <1>7. \A t \in Threads : Successor(t) = NoNode BY <1>3, QueuedPlaces DEF Successor
  <1>8. \A k \in 1..Len(Order) : TailAt(k) = NoNode BY <1>3, QueuedPlaces DEF TailAt
  <1>9. \A t \in Threads : Local(t)
    <2> TAKE t \in Threads
    <2>1. DepthOf(t) BY <1>5 DEF DepthOf
    <2>2. NodeOf(t) BY <1>5 DEF NodeOf
    <2>3. LocksOf(t)
      <3>1. \A i \in 1..MaxNested : lock[<<t, i>>] = NoLock BY <1>1, QueuedPlaces
      <3>2. Held(t) = 0 BY <1>5 DEF Held
      <3>3. QED BY <3>1, <3>2 DEF LocksOf
    <2>4. BufferOf(t) BY <1>5 DEF BufferOf, ClearBuffers
    <2>5. QED BY <2>1, <2>2, <2>3, <2>4 DEF Local
  <1>10. InnerLocks
    <2>1. \A k \in 2..Len(Order) : TailAt(k) = NoNode /\ \A t \in Threads : ~(depth[t] >= k)
      BY <1>5, <1>8, QueuedPlaces
    <2>2. \A t \in Threads : \A k \in 2..MaxNested : mem[QL!NextOf(<<t, k>>)] = NoNode
      <3>1. \A k \in 2..MaxNested : k \in 1..MaxNested BY QueuedPlaces
      <3>2. QED BY <1>3, <3>1, QueuedPlaces
    <2>3. QED BY <2>1, <2>2 DEF InnerLocks
  <1>11. Queue BY <1>5, <1>6 DEF Queue
  <1>12. QueueTail BY <1>5, <1>8, QueuedPlaces DEF QueueTail
  <1>13. \A t \in Threads : MarkOf(t) /\ SuccessorOf(t) /\ LoadedBy(t)
    BY <1>5, <1>6, <1>7 DEF MarkOf, SuccessorOf, LoadedBy
  <1>14. QED BY <1>2, <1>4, <1>9, <1>10, <1>11, <1>12, <1>13 DEF QueuedIInv

\* Steps of the ticket lock, and stuttering ones.
LEMMA QueuedStutter == ASSUME QueuedIInv, UNCHANGED qvars PROVE QueuedIInv'
  <1>1. /\ mem' = mem /\ buf' = buf /\ qpc' = qpc /\ depth' = depth /\ lock' = lock
        /\ node' = node /\ other' = other /\ qreg' = qreg /\ qleft' = qleft
    BY DEF qvars
  <1>2. Types' /\ Shapes' BY <1>1 DEF QueuedIInv, Types, Shapes, Count
  <1>3. InnerLocks' BY <1>1 DEF QueuedIInv, InnerLocks, TailAt
  <1>4. \A x \in Threads : /\ Successor(x)' = Successor(x) /\ Marked(x)' = Marked(x)
                           /\ (InQueue(x)' <=> InQueue(x)) /\ (Linked(x)' <=> Linked(x))
    BY <1>1 DEF Successor, Marked, InQueue, Linked, Waits, Node
  <1>5. TailAt(1)' = TailAt(1) /\ Count' = Count BY <1>1 DEF TailAt, Count
  <1>6. \A x, s \in Threads : HandedBy(x, s)' <=> HandedBy(x, s)
    BY <1>1 DEF HandedBy, Stores, Elements, HandStore, Node, QL!LockedOf
  <1>7. \A x, p \in Threads : Behind(x, p)' <=> Behind(x, p)
    <2> TAKE x, p \in Threads
    <2>1. (LinkStore(x, p) \in Stores(x))' <=> LinkStore(x, p) \in Stores(x)
      BY <1>1 DEF Stores, Elements, LinkStore, Node, QL!NextOf
    <2>2. QED BY <1>1, <1>4, <2>1 DEF Behind, Node
  <1>8. \A x \in Threads : First(x)' <=> First(x) BY <1>1, <1>4, <1>6 DEF First, Handed
  <1>9. Queue' /\ QueueTail' BY <1>4, <1>5, <1>7, <1>8, QueueKept DEF QueuedIInv
  <1>10. \A x \in Threads : Local(x)' /\ MarkOf(x)' /\ SuccessorOf(x)' /\ LoadedBy(x)'
    <2> TAKE x \in Threads
    <2>1. Local(x)'
      <3>1. Local(x) BY DEF QueuedIInv
      <3>2. DepthOf(x)' BY <1>1, <3>1 DEF Local, DepthOf, Waits
      <3>3. NodeOf(x)' BY <1>1, <3>1 DEF Local, NodeOf, Waits, Freed, Node
      <3>4. LocksOf(x)' BY <1>1, <3>1 DEF Local, LocksOf, Held, Freed
      <3>5. BufferOf(x)'
        <4>1. /\ LinkBuffers(x)' = LinkBuffers(x) /\ CountBuffers' = CountBuffers
              /\ HandBuffers' = HandBuffers /\ ClearBuffers(x)' = ClearBuffers(x)
              /\ MarkStore(x)' = MarkStore(x)
          BY DEF LinkBuffers, CountBuffers, HandBuffers, ClearBuffers, MarkStore, LinkStore,
                 CountStore, HandStore, ClearStore, Node, QL!LockedOf, QL!NextOf, QL!Counter
        <4>2. QED BY <1>1, <3>1, <4>1 DEF Local, BufferOf
      <3>6. QED BY <3>2, <3>3, <3>4, <3>5 DEF Local
    <2>2. MarkOf(x)'
      <3>1. (MarkStore(x) \in Stores(x))' <=> MarkStore(x) \in Stores(x)
        BY <1>1 DEF Stores, Elements, MarkStore, Node, QL!LockedOf
      <3>2. QED BY <1>1, <1>4, <1>6, <3>1 DEF QueuedIInv, MarkOf
    <2>3. SuccessorOf(x)'
      BY <1>1, <1>4, <1>7 DEF QueuedIInv, SuccessorOf, Node
    <2>4. LoadedBy(x)' BY <1>1, <1>5 DEF QueuedIInv, LoadedBy
    <2>5. QED BY <2>1, <2>2, <2>3, <2>4
  <1>11. QED BY <1>2, <1>3, <1>9, <1>10 DEF QueuedIInv

\* The invariant of the queued lock in every reachable state.
THEOREM QueuedInvariance == Spec => []QueuedIInv
  <1>1. ASSUME QueuedIInv, [Next]_vars PROVE QueuedIInv'
    <2>1. CASE UNCHANGED qvars BY <1>1, <2>1, QueuedStutter
    <2>2. CASE \E t \in Threads : QL!Flush(t) \/ QL!Run(t) BY <1>1, <2>2, NextQueued
    <2>3. QED
      BY <1>1, <2>1, <2>2 DEF Next, Flush, Run, BeginTry, Done, vars
  <1>2. QED BY InitQueued, <1>1, PTL DEF Spec

(* What the invariant says of the properties the run checks. *)

\* The stores that can be pending.
LEMMA StoresAre ==
  ASSUME QueuedIInv, NEW t \in Threads, NEW s \in Stores(t)
  PROVE  \/ s = MarkStore(t) /\ qpc[t] \in {"link", "spin"}
         \/ qpc[t] = "spin" /\ \E p \in Threads : s = LinkStore(t, p)
         \/ \E u \in Threads : s = HandStore(u)
         \/ s = ClearStore(t) /\ qpc[t] \in {"idle", "exchange"} /\ depth[t] = 0
         \/ \E n \in Nat : s = CountStore(n)
  <1>1. BufferOf(t) /\ DepthOf(t) /\ qpc[t] \in QL!Steps /\ depth[t] \in Nat
    BY QueuedPlaces DEF QueuedIInv, Local, Types
  <1>2. s \in Elements(buf[t]) BY DEF Stores
  <1>3. CASE buf[t] = <<>> BY <1>2, <1>3, ShortBuffers
  <1>5. CASE buf[t] \in LinkBuffers(t) /\ qpc[t] = "spin"
    <2>1. CASE \E p \in Threads : buf[t] = <<LinkStore(t, p)>>
      <3>1. PICK p \in Threads : buf[t] = <<LinkStore(t, p)>> BY <2>1
      <3>2. Elements(buf[t]) = {LinkStore(t, p)} BY <3>1, ShortBuffers
      <3>3. QED BY <1>2, <1>5, <3>2
    <2>2. CASE \E p \in Threads : buf[t] = <<MarkStore(t), LinkStore(t, p)>>
      <3>1. PICK p \in Threads : buf[t] = <<MarkStore(t), LinkStore(t, p)>> BY <2>2
      <3>2. Elements(buf[t]) = {MarkStore(t), LinkStore(t, p)} BY <3>1, ShortBuffers
      <3>3. QED BY <1>2, <1>5, <3>2
    <2>3. QED BY <1>3, <1>5, <2>1, <2>2 DEF LinkBuffers
  <1>6. CASE buf[t] \in CountBuffers
    <2>1. CASE \E n \in Nat : buf[t] = <<CountStore(n)>>
      <3>1. PICK n \in Nat : buf[t] = <<CountStore(n)>> BY <2>1
      <3>2. Elements(buf[t]) = {CountStore(n)} BY <3>1, ShortBuffers
      <3>3. QED BY <1>2, <3>2
    <2>2. QED BY <1>3, <1>6, <2>1 DEF CountBuffers
  <1>7. CASE buf[t] \in HandBuffers
    <2>1. CASE \E u \in Threads : buf[t] = <<HandStore(u)>>
      <3>1. PICK u \in Threads : buf[t] = <<HandStore(u)>> BY <2>1
      <3>2. Elements(buf[t]) = {HandStore(u)} BY <3>1, ShortBuffers
      <3>3. QED BY <1>2, <3>2
    <2>2. CASE \E n \in Nat, u \in Threads : buf[t] = <<CountStore(n), HandStore(u)>>
      <3>1. PICK n \in Nat, u \in Threads : buf[t] = <<CountStore(n), HandStore(u)>> BY <2>2
      <3>2. Elements(buf[t]) = {CountStore(n), HandStore(u)} BY <3>1, ShortBuffers
      <3>3. QED BY <1>2, <3>2
    <2>3. QED BY <1>3, <1>7, <2>1, <2>2 DEF HandBuffers
  <1>8. CASE buf[t] \in ClearBuffers(t) /\ qpc[t] \in {"idle", "exchange"} /\ depth[t] = 0
    <2>1. CASE buf[t] = <<ClearStore(t)>>
      <3>1. Elements(buf[t]) = {ClearStore(t)} BY <2>1, ShortBuffers
      <3>2. QED BY <1>2, <1>8, <3>1
    <2>2. CASE \E u \in Threads : buf[t] = <<HandStore(u), ClearStore(t)>>
      <3>1. PICK u \in Threads : buf[t] = <<HandStore(u), ClearStore(t)>> BY <2>2
      <3>2. Elements(buf[t]) = {HandStore(u), ClearStore(t)} BY <3>1, ShortBuffers
      <3>3. QED BY <1>2, <1>8, <3>2
    <2>3. CASE \E n \in Nat, u \in Threads : buf[t] = <<CountStore(n), HandStore(u), ClearStore(t)>>
      <3>1. PICK n \in Nat, u \in Threads : buf[t] = <<CountStore(n), HandStore(u), ClearStore(t)>> BY <2>3
      <3>2. Elements(buf[t]) = {CountStore(n), HandStore(u), ClearStore(t)} BY <3>1, StoreThird
      <3>3. QED BY <1>2, <1>8, <3>2
    <2>4. QED BY <1>3, <1>8, <2>1, <2>2, <2>3 DEF ClearBuffers
  <1>9. CASE buf[t] = <<MarkStore(t)>> /\ qpc[t] = "link"
    <2>1. Elements(buf[t]) = {MarkStore(t)} BY <1>9, ShortBuffers
    <2>2. QED BY <1>2, <1>9, <2>1
  <1>10. QED
    BY <1>1, <1>3, <1>5, <1>6, <1>7, <1>8, <1>9
    DEF BufferOf, DepthOf, QL!Steps, QL!LockSteps, QL!UnlockSteps

\* The invariant gives every variable of the queued lock its type.
LEMMA QueuedTypes == ASSUME QueuedIInv PROVE QL!TypeOK
  <1>1. Types /\ Shapes BY DEF QueuedIInv
  <1>2. DOMAIN mem = Locations BY <1>1 DEF Shapes
  <1>3. \A t \in Threads : \A i \in 1..Len(buf[t]) : buf[t][i][1] \in DOMAIN mem
    <2> TAKE t \in Threads
    <2> TAKE i \in 1..Len(buf[t])
    <2>1. PICK s \in Stores(t) : s = buf[t][i] BY DEF Stores, Elements
    <2>2. s[1] \in Locations
      <3>1. CASE s = MarkStore(t) BY <3>1, QueuedPlaces DEF MarkStore
      <3>2. CASE \E p \in Threads : s = LinkStore(t, p) BY <3>2, QueuedPlaces DEF LinkStore
      <3>3. CASE \E u \in Threads : s = HandStore(u) BY <3>3, QueuedPlaces DEF HandStore
      <3>4. CASE s = ClearStore(t) BY <3>4, QueuedPlaces DEF ClearStore
      <3>5. CASE \E n \in Nat : s = CountStore(n) BY <3>5, QueuedPlaces DEF CountStore
      <3>6. QED BY <3>1, <3>2, <3>3, <3>4, <3>5, StoresAre
    <2>3. QED BY <1>2, <2>1, <2>2
  <1>4. QED BY <1>1, <1>3 DEF Types, Count, QL!TypeOK

\* A thread in the queue uses its first node, and one that has taken the k-th lock
\* its k-th node.
LEMMA NodesInUse ==
  ASSUME QueuedIInv, NEW t \in Threads
  PROVE  /\ \A k \in 1..Len(Order) : depth[t] >= k => QL!InUse(<<t, k>>)
         /\ InQueue(t) \/ qpc[t] = "clear_next" => QL!InUse(Node(t))
  <1>1. Local(t) /\ depth[t] \in Nat BY QueuedPlaces DEF QueuedIInv, Types
  <1>2. \A k \in 1..Len(Order) : depth[t] >= k => QL!InUse(<<t, k>>)
    <2> SUFFICES ASSUME NEW k \in 1..Len(Order), depth[t] >= k PROVE QL!InUse(<<t, k>>)
      OBVIOUS
    <2>1. CASE k <= Held(t)
      <3>1. k \in 1..MaxNested BY QueuedPlaces
      <3>2. lock[<<t, k>>] = Order[k] BY <1>1, <2>1, <3>1 DEF Local, LocksOf
      <3>3. QED BY <3>2, QueuedPlaces DEF QL!InUse
    <2>2. CASE ~(k <= Held(t))
      <3>1. Freed(t) /\ k = depth[t] BY <1>1, <2>2 DEF Held
      <3>2. ~Waits(t) /\ qpc[t] # "clear_next" BY <3>1 DEF Freed, Waits
      <3>3. node[t] = <<t, k>> BY <1>1, <3>1, <3>2 DEF Local, NodeOf
      <3>4. QED BY <3>3 DEF QL!InUse
    <2>3. QED BY <2>1, <2>2
  <1>3. CASE depth[t] > 0
    <2>1. 1 \in 1..Len(Order) /\ depth[t] >= 1 BY <1>1, <1>3, QueuedPlaces
    <2>2. QL!InUse(Node(t)) BY <1>2, <2>1 DEF Node
    <2>3. QED BY <1>2, <2>2
  <1>4. CASE Waits(t) \/ qpc[t] = "clear_next"
    <2>1. node[t] = Node(t) BY <1>1, <1>4 DEF Local, NodeOf
    <2>2. QL!InUse(Node(t)) BY <2>1 DEF QL!InUse
    <2>3. QED BY <1>2, <2>2
  <1>5. QED BY <1>2, <1>3, <1>4 DEF InQueue

\* A thread sees the value it stored last.
LEMMA LoadLast ==
  ASSUME NEW t, NEW loc, NEW m \in 1..Len(buf[t]), buf[t][m][1] = loc,
         \A i \in 1..Len(buf[t]) : buf[t][i][1] = loc => i = m
  PROVE  QL!Load(t, loc) = buf[t][m][2]
  <1>1. QL!Pending(t, loc) = {m} BY DEF QL!Pending
  <1>2. QL!Max({m}) = m BY DEF QL!Max
  <1>3. QED BY <1>1, <1>2 DEF QL!Load

\* A thread that is done sees its node unlinked, in its buffer or in memory.
LEMMA SeesClear ==
  ASSUME NEW t \in Threads, buf[t] \in ClearBuffers(t), buf[t] # <<>>
  PROVE  QL!Load(t, QL!NextOf(Node(t))) = NoNode
  <1>1. CASE buf[t] = <<ClearStore(t)>>
    <2>1. Len(buf[t]) = 1 /\ buf[t][1] = ClearStore(t) BY <1>1
    <2>2. QED BY <2>1, LoadLast DEF ClearStore
  <1>2. CASE \E u \in Threads : buf[t] = <<HandStore(u), ClearStore(t)>>
    <2>1. PICK u \in Threads : buf[t] = <<HandStore(u), ClearStore(t)>> BY <1>2
    <2>2. Len(buf[t]) = 2 /\ buf[t][1] = HandStore(u) /\ buf[t][2] = ClearStore(t) BY <2>1
    <2>3. buf[t][1][1] # QL!NextOf(Node(t)) BY <2>2, QueuedLocations DEF HandStore
    <2>4. QED BY <2>2, <2>3, LoadLast DEF ClearStore
  <1>3. CASE \E n \in Nat, u \in Threads : buf[t] = <<CountStore(n), HandStore(u), ClearStore(t)>>
    <2>1. PICK n \in Nat, u \in Threads : buf[t] = <<CountStore(n), HandStore(u), ClearStore(t)>>
      BY <1>3
    <2>2. /\ Len(buf[t]) = 3 /\ buf[t][1] = CountStore(n)
          /\ buf[t][2] = HandStore(u) /\ buf[t][3] = ClearStore(t)
      BY <2>1
    <2>3. buf[t][1][1] # QL!NextOf(Node(t)) /\ buf[t][2][1] # QL!NextOf(Node(t))
      BY <2>2, QueuedLocations DEF HandStore, CountStore
    <2>4. buf[t][3][1] = QL!NextOf(Node(t)) /\ buf[t][3][2] = NoNode BY <2>2 DEF ClearStore
    <2>5. 3 \in 1..Len(buf[t]) /\ \A i \in 1..Len(buf[t]) : i = 1 \/ i = 2 \/ i = 3 BY <2>2
    <2>6. QL!Load(t, QL!NextOf(Node(t))) = buf[t][3][2] BY <2>3, <2>4, <2>5, LoadLast
    <2>7. QED BY <2>4, <2>6
  <1>4. QED BY <1>1, <1>2, <1>3 DEF ClearBuffers

\* A thread that is not in the queue has nothing but the end of an unlock pending.
LEMMA ClearsBehind ==
  ASSUME QueuedIInv, NEW t \in Threads, ~InQueue(t), qpc[t] # "clear_next", buf[t] # <<>>
  PROVE  buf[t] \in ClearBuffers(t)
  <1>1. BufferOf(t) /\ DepthOf(t) /\ qpc[t] \in QL!Steps BY DEF QueuedIInv, Local, Types
  <1>2. ~Waits(t) /\ ~(depth[t] > 0) BY DEF InQueue
  <1>3. QED
    BY <1>1, <1>2
    DEF BufferOf, DepthOf, Waits, QL!Steps, QL!LockSteps, QL!UnlockSteps

\* The invariant leaves no store pending to a node that no thread uses, nor a
\* link in it.
LEMMA QueuedFreeNodes == ASSUME QueuedIInv PROVE QL!FreeNodesUnlinked
  <1> SUFFICES ASSUME NEW n \in QL!Nodes, ~QL!InUse(n)
               PROVE  /\ \A l \in QL!Locks : mem[QL!TailOf(l)] # n
                      /\ \A u \in Threads \ {n[1]} :
                           QL!Pending(u, QL!NextOf(n)) \cup QL!Pending(u, QL!LockedOf(n)) = {}
                      /\ QL!Load(n[1], QL!NextOf(n)) = NoNode
    BY DEF QL!FreeNodesUnlinked
  <1>0. Types /\ InnerLocks /\ Queue /\ QueueTail BY DEF QueuedIInv
  <1>1. PICK t \in Threads, k \in 1..MaxNested : n = <<t, k>> BY DEF QL!Nodes
  <1>2. n[1] = t /\ n # NoNode BY <1>1, QueuedPlaces
  <1>3. \A l \in QL!Locks : mem[QL!TailOf(l)] # n
    <2> SUFFICES ASSUME NEW l \in QL!Locks, mem[QL!TailOf(l)] = n PROVE FALSE OBVIOUS
    <2>1. PICK j \in 1..Len(Order) : l = Order[j] BY DEF QL!Locks
    <2>2. TailAt(j) = n BY <2>1 DEF TailAt
    <2>3. CASE j = 1
      <3>1. PICK p \in Threads : n = Node(p) /\ InQueue(p)
        BY <1>0, <1>2, <2>2, <2>3 DEF QueueTail
      <3>2. QED BY <3>1, NodesInUse
    <2>4. CASE j # 1
      <3>1. j \in 2..Len(Order) BY <2>4, QueuedPlaces
      <3>2. PICK x \in Threads : depth[x] >= j BY <1>0, <1>2, <2>2, <3>1 DEF InnerLocks
      <3>3. n = <<x, j>> BY <1>0, <2>2, <3>1, <3>2 DEF InnerLocks
      <3>4. QED BY <3>2, <3>3, NodesInUse
    <2>5. QED BY <2>3, <2>4
  <1>4. ASSUME NEW p \in Threads, n = Node(p) PROVE ~InQueue(p) /\ qpc[p] # "clear_next"
    BY <1>4, NodesInUse
  <1>5. ASSUME NEW u \in Threads, NEW p \in Threads, LinkStore(u, p) \in Stores(u), qpc[u] = "spin"
        PROVE  n # Node(p)
    <2>1. Behind(u, p) BY <1>5 DEF Behind
    <2>2. InQueue(p) BY <1>0, <2>1 DEF Queue
    <2>3. QED BY <1>4, <2>2
  <1>6. ASSUME NEW u \in Threads, NEW v \in Threads, HandStore(v) \in Stores(u)
        PROVE  n # Node(v)
    <2>1. Linked(v) BY <1>6 DEF QueuedIInv, MarkOf, HandedBy
    <2>2. InQueue(v) BY <2>1 DEF Linked, InQueue, Waits
    <2>3. QED BY <1>4, <2>2
  <1>7. ASSUME NEW u \in Threads, NEW s \in Stores(u),
               s[1] = QL!NextOf(n) \/ s[1] = QL!LockedOf(n)
        PROVE  u = t /\ n = Node(t) /\ ~InQueue(t)
    <2>1. CASE s = MarkStore(u) /\ qpc[u] \in {"link", "spin"}
      <3>1. n = Node(u) BY <1>7, <2>1, QueuedLocations DEF MarkStore
      <3>2. InQueue(u) BY <2>1 DEF InQueue, Waits
      <3>3. QED BY <1>4, <3>1, <3>2
    <2>2. CASE qpc[u] = "spin" /\ \E p \in Threads : s = LinkStore(u, p)
      BY <1>5, <1>7, <2>2, QueuedLocations DEF LinkStore
    <2>3. CASE \E v \in Threads : s = HandStore(v)
      <3>1. PICK v \in Threads : s = HandStore(v) BY <2>3
      <3>2. n = Node(v) BY <1>7, <3>1, QueuedLocations DEF HandStore
      <3>3. n # Node(v) BY <1>6, <3>1
      <3>4. QED BY <3>2, <3>3
    <2>4. CASE s = ClearStore(u)
      <3>1. n = Node(u) BY <1>7, <2>4, QueuedLocations DEF ClearStore
      <3>2. u = t BY <1>1, <3>1 DEF Node
      <3>3. QED BY <1>4, <3>1, <3>2
    <2>5. CASE \E m \in Nat : s = CountStore(m)
      BY <1>7, <2>5, QueuedLocations DEF CountStore
    <2>6. QED BY <2>1, <2>2, <2>3, <2>4, <2>5, StoresAre
  <1>8. \A u \in Threads \ {t} :
          QL!Pending(u, QL!NextOf(n)) \cup QL!Pending(u, QL!LockedOf(n)) = {}
    <2> SUFFICES ASSUME NEW u \in Threads \ {t}, NEW i \in 1..Len(buf[u]),
                        buf[u][i][1] = QL!NextOf(n) \/ buf[u][i][1] = QL!LockedOf(n)
                 PROVE  FALSE
      BY DEF QL!Pending
    <2>1. PICK s \in Stores(u) : s = buf[u][i] BY DEF Stores, Elements
    <2>2. QED BY <1>7, <2>1
  <1>9. QL!Load(t, QL!NextOf(n)) = NoNode
    <2>1. CASE \A i \in 1..Len(buf[t]) : buf[t][i][1] # QL!NextOf(n)
      <3>1. QL!Load(t, QL!NextOf(n)) = mem[QL!NextOf(n)] BY <2>1, QueuedLoad
      <3>2. CASE k = 1
        <4>1. n = Node(t) /\ ~InQueue(t) /\ qpc[t] # "clear_next" BY <1>1, <1>4, <3>2 DEF Node
        <4>2. CASE buf[t] = <<>>
          <5>1. Successor(t) = NoNode BY <4>1, <4>2 DEF QueuedIInv, SuccessorOf
          <5>2. QED BY <3>1, <4>1, <5>1 DEF Successor
        <4>3. CASE buf[t] # <<>>
          <5>1. buf[t] \in ClearBuffers(t) BY <4>1, <4>3, ClearsBehind
          <5>2. QED BY <4>1, <4>3, <5>1, SeesClear
        <4>4. QED BY <4>2, <4>3
      <3>3. CASE k # 1
        <4>1. k \in 2..MaxNested BY <3>3, QueuedPlaces
        <4>2. QED BY <1>0, <1>1, <3>1, <4>1 DEF InnerLocks
      <3>4. QED BY <3>2, <3>3
    <2>2. CASE \E i \in 1..Len(buf[t]) : buf[t][i][1] = QL!NextOf(n)
      <3>1. PICK i \in 1..Len(buf[t]) : buf[t][i][1] = QL!NextOf(n) BY <2>2
      <3>2. PICK s \in Stores(t) : s = buf[t][i] BY DEF Stores, Elements
      <3>3. n = Node(t) /\ ~InQueue(t) BY <1>7, <3>1, <3>2
      <3>4. qpc[t] # "clear_next" BY <1>4, <3>3
      <3>5. buf[t] # <<>> BY <3>2, ShortBuffers DEF Stores
      <3>6. buf[t] \in ClearBuffers(t) BY <3>3, <3>4, <3>5, ClearsBehind
      <3>7. QED BY <3>3, <3>5, <3>6, SeesClear
    <2>3. QED BY <2>1, <2>2
  <1>10. QED BY <1>2, <1>3, <1>8, <1>9

\* Every variable has its type in every reachable state.
THEOREM TypeCorrect == Spec => []TypeOK
  <1>1. TicketIInv /\ QueuedIInv => TypeOK BY QueuedTypes DEF TicketIInv, TypeOK
  <1>2. QED BY TicketInvariance, QueuedInvariance, <1>1, PTL

\* A queue node that no thread uses is in no queue.
THEOREM NodesComeBackClean == Spec => []FreeNodesUnlinked
  <1>1. QueuedIInv => FreeNodesUnlinked BY QueuedFreeNodes DEF FreeNodesUnlinked
  <1>2. QED BY QueuedInvariance, <1>1, PTL
-----------------------------------------------------------------------------
(* Both locks implement the abstract lock.  What a thread may do to it and to the *)
(* counter. *)

LockMoves(t, owner, ownerNext, total, totalNext) ==
  \/ ownerNext = owner /\ totalNext = total
  \/ owner = Nobody /\ ownerNext = t /\ totalNext = total
  \/ owner = t /\ ownerNext = t /\ totalNext = total + 1
  \/ owner = t /\ ownerNext = Nobody /\ totalNext = total

\* The ticket lock's owner, and the counter as it sees it.
TicketOwnerMeaning ==
  /\ \A t \in Threads : TL!Holds(t) => TL!Owner = t
  /\ (\A t \in Threads : ~TL!Holds(t)) => TL!Owner = Nobody
TicketCountMeaning ==
  /\ \A t \in Threads : TL!Storing(t) => TL!Visible = storeCounter[t]
  /\ (\A t \in Threads : ~TL!Storing(t)) => TL!Visible = counter

\* A thread with a store to the counter pending has the ticket lock.
LEMMA StoringHolds ==
  ASSUME TicketIInv, NEW t \in Threads, TL!Storing(t)
  PROVE  TL!Holds(t) /\ tpc[t] # "write"
  BY DEF TicketIInv, Buffered, TL!Storing, TL!Holds, TL!CriticalSteps

\* The invariant determines the ticket lock's owner and the visible counter.
LEMMA TicketMeanings == TicketIInv => TicketOwnerMeaning /\ TicketCountMeaning
  <1> SUFFICES ASSUME TicketIInv PROVE TicketOwnerMeaning /\ TicketCountMeaning OBVIOUS
  <1>1. TicketOwnerMeaning BY OneHolder DEF TicketOwnerMeaning, TL!Owner
  <1>2. TicketCountMeaning
    <2>1. \A t, u \in Threads : TL!Storing(t) /\ TL!Storing(u) => t = u
      BY OneHolder, StoringHolds
    <2>2. QED BY <2>1 DEF TicketCountMeaning, TL!Visible
  <1>3. QED BY <1>1, <1>2

\* The same of the next state.
LEMMA TicketMeaningsNext == TicketIInv' => TicketOwnerMeaning' /\ TicketCountMeaning'
  BY TicketMeanings, PTL

\* The ticket lock's owner stays while those who hold it do.
LEMMA TicketOwnerKept ==
  ASSUME TicketIInv, TicketIInv', \A u \in Threads : TL!Holds(u)' <=> TL!Holds(u)
  PROVE  TL!Owner' = TL!Owner
  BY TicketMeanings, TicketMeaningsNext DEF TicketOwnerMeaning

\* The visible counter stays while its pending store and memory do.
LEMMA TicketCountKept ==
  ASSUME TicketIInv, TicketIInv', storeCounter' = storeCounter, counter' = counter
  PROVE  TL!Visible' = TL!Visible
  BY DEF TL!Visible, TL!Storing

\* Each step of the ticket lock is one of the abstract lock's.
LEMMA TicketMoves ==
  ASSUME TicketIInv, TicketIInv', NEW t \in Threads, TicketStep(t)
  PROVE  LockMoves(t, TL!Owner, TL!Owner', TL!Visible, TL!Visible')
  <1> DEFINE Goal == LockMoves(t, TL!Owner, TL!Owner', TL!Visible, TL!Visible')
  <1>0. TL!TypeOK /\ TL!TypeOK' BY DEF TicketIInv
  <1> USE DEF TL!TypeOK, TL!Goto
  <1>1. CASE TL!FlushCounter(t)
    <2>1. TL!Storing(t) /\ counter' = storeCounter[t] BY <1>1 DEF TL!FlushCounter, TL!Storing
    <2>2. \A u \in Threads : TL!Storing(u) => u = t BY <2>1, StoringHolds, OneHolder
    <2>3. \A u \in Threads : ~TL!Storing(u)'
      BY <1>0, <1>1, <2>2 DEF TL!FlushCounter, TL!Storing
    <2>4. TL!Visible' = TL!Visible
      BY <2>1, <2>3, TicketMeanings, TicketMeaningsNext DEF TicketCountMeaning
    <2>5. TL!Owner' = TL!Owner BY <1>1, TicketOwnerKept DEF TL!FlushCounter, TL!Holds
    <2>6. QED BY <2>4, <2>5 DEF LockMoves
  <1>2. CASE TL!FlushCur(t)
    <2>1. TL!Holds(t) BY <1>2 DEF TL!FlushCur, TL!Holds
    <2>2. \A u \in Threads : TL!Holds(u) => u = t BY <2>1, OneHolder
    <2>3. tpc[t] \in {"idle", "try_next", "try_cas"}
      BY <1>2 DEF TL!FlushCur, TicketIInv, Buffered
    <2>4. \A u \in Threads : ~TL!Holds(u)'
      BY <1>0, <1>2, <2>2, <2>3 DEF TL!FlushCur, TL!Holds, TL!CriticalSteps
    <2>5. TL!Owner = t /\ TL!Owner' = Nobody
      BY <2>1, <2>4, TicketMeanings, TicketMeaningsNext DEF TicketOwnerMeaning
    <2>6. TL!Visible' = TL!Visible BY <1>2, TicketCountKept DEF TL!FlushCur
    <2>7. QED BY <2>5, <2>6 DEF LockMoves
  <1>3. ASSUME \A u \in Threads : ~TL!Holds(u), TL!Holds(t)', storeCounter' = storeCounter,
               counter' = counter
        PROVE  Goal
    <2>1. TL!Owner = Nobody /\ TL!Owner' = t
      BY <1>3, TicketMeanings, TicketMeaningsNext DEF TicketOwnerMeaning
    <2>2. TL!Visible' = TL!Visible BY <1>3, TicketCountKept
    <2>3. QED BY <2>1, <2>2 DEF LockMoves
  <1>4. ASSUME \A u \in Threads : TL!Holds(u)' <=> TL!Holds(u), storeCounter' = storeCounter,
               counter' = counter
        PROVE  Goal
    BY <1>4, TicketOwnerKept, TicketCountKept DEF LockMoves
  <1> HIDE DEF Goal
  <1>5. CASE TL!Spin(t)
    <2>1. tpc[t] = "spin" /\ TL!CurSeenBy(t) = ticket[t] /\ tpc' = [tpc EXCEPT ![t] = "read"]
          /\ storeCounter' = storeCounter /\ storeCur' = storeCur /\ counter' = counter
      BY <1>5 DEF TL!Spin
    <2>2. storeCur[t] = TL!NoStore BY <2>1 DEF TicketIInv, Buffered
    <2>3. TL!Queued(t) /\ ~TL!Holds(t) /\ TL!TicketOf(t) = cur
      BY <2>1, <2>2 DEF TL!Queued, TL!Holds, TL!CriticalSteps, TL!TicketOf, TL!CurSeenBy
    <2>4. \A u \in Threads : ~TL!Holds(u)
      <3> SUFFICES ASSUME NEW u \in Threads, TL!Holds(u) PROVE FALSE OBVIOUS
      <3>1. TL!Queued(u) /\ TL!TicketOf(u) = cur
        BY DEF TicketIInv, TL!TicketsInOrder, TL!Queued
      <3>2. u = t BY <2>3, <3>1 DEF TicketIInv, TL!TicketsInOrder
      <3>3. QED BY <2>3, <3>2
    <2>5. TL!Holds(t)' BY <1>0, <2>1 DEF TL!Holds, TL!CriticalSteps
    <2>6. QED BY <1>3, <2>1, <2>4, <2>5 DEF Goal
  <1>6. CASE TL!TryCas(t)
    <2>1. CASE next = ticket[t]
      <3>1. cur = next
        BY <1>0, <1>6, <2>1 DEF TL!TryCas, TL!Drained, TL!CurSeenBy, TicketIInv, TryOrdered
      <3>2. \A u \in Threads : ~TL!Holds(u)
        <4> SUFFICES ASSUME NEW u \in Threads, TL!Holds(u) PROVE FALSE OBVIOUS
        <4>1. InOrderMeaning BY InOrder DEF TicketIInv
        <4>2. TL!TicketOf(u) \in cur..(next - 1) BY <4>1 DEF InOrderMeaning, TL!Queued
        <4>3. QED BY <1>0, <3>1, <4>2
      <3>3. TL!Holds(t)' BY <1>0, <1>6, <2>1 DEF TL!TryCas, TL!Holds, TL!CriticalSteps
      <3>4. storeCounter' = storeCounter /\ counter' = counter BY <1>6 DEF TL!TryCas
      <3>5. QED BY <1>3, <3>2, <3>3, <3>4 DEF Goal
    <2>2. CASE next # ticket[t]
      <3>1. \A u \in Threads : TL!Holds(u)' <=> TL!Holds(u)
        BY <1>0, <1>6, <2>2 DEF TL!TryCas, TL!Holds, TL!CriticalSteps
      <3>2. storeCounter' = storeCounter /\ counter' = counter BY <1>6 DEF TL!TryCas
      <3>3. QED BY <1>4, <3>1, <3>2 DEF Goal
    <2>3. QED BY <2>1, <2>2
  <1>7. CASE TL!WriteCounter(t)
    <2>1. tpc[t] = "write" /\ storeCounter' = [storeCounter EXCEPT ![t] = treg[t] + 1]
          /\ counter' = counter /\ tpc' = [tpc EXCEPT ![t] = "load_cur"] /\ storeCur' = storeCur
      BY <1>7 DEF TL!WriteCounter
    <2>2. TL!Holds(t) /\ TL!Holds(t)' BY <1>0, <2>1 DEF TL!Holds, TL!CriticalSteps
    <2>3. TL!Owner = t /\ TL!Owner' = t
      BY <2>2, TicketMeanings, TicketMeaningsNext DEF TicketOwnerMeaning
    <2>4. \A u \in Threads : ~TL!Storing(u) BY <2>1, <2>2, StoringHolds, OneHolder
    <2>5. TL!Visible = counter BY <2>4, TicketMeanings DEF TicketCountMeaning
    <2>6. treg[t] = counter BY <2>1 DEF TicketIInv, OwnerLoads
    <2>7. storeCounter'[t] = counter + 1 BY <1>0, <2>1, <2>6
    <2>8. TL!Storing(t)' BY <1>0, <2>7 DEF TL!Storing
    <2>9. TL!Visible' = counter + 1
      BY <2>7, <2>8, TicketMeaningsNext DEF TicketCountMeaning
    <2>10. QED BY <2>3, <2>5, <2>9 DEF LockMoves
  <1>8. CASE \/ TL!TakeTicket(t) \/ TL!TryLoadCur(t) \/ TL!TryLoadNext(t)
             \/ TL!ReadCounter(t) \/ TL!LoadCur(t)
    <2>1. /\ storeCounter' = storeCounter /\ counter' = counter /\ storeCur' = storeCur
      BY <1>8 DEF TL!TakeTicket, TL!TryLoadCur, TL!TryLoadNext, TL!ReadCounter, TL!LoadCur
    <2>2. \A u \in Threads : TL!Holds(u)' <=> TL!Holds(u)
      BY <1>0, <1>8, <2>1 DEF TL!TakeTicket, TL!TryLoadCur, TL!TryLoadNext, TL!ReadCounter,
             TL!LoadCur, TL!Holds, TL!CriticalSteps
    <2>3. QED BY <1>4, <2>1, <2>2 DEF Goal
  <1>9. CASE TL!StoreCur(t)
    <2>1. storeCounter' = storeCounter /\ counter' = counter BY <1>9 DEF TL!StoreCur
    <2>2. TL!Holds(t) BY <1>9 DEF TL!StoreCur, TL!Holds, TL!CriticalSteps
    <2>3. TL!Holds(t)'
      <3>1. storeCur'[t] = treg[t] + 1 BY <1>0, <1>9 DEF TL!StoreCur
      <3>2. QED BY <1>0, <3>1 DEF TL!Holds
    <2>4. \A u \in Threads : TL!Holds(u)' <=> TL!Holds(u)
      <3>1. \A u \in Threads \ {t} : TL!Holds(u)' <=> TL!Holds(u)
        BY <1>0, <1>9 DEF TL!StoreCur, TL!Holds
      <3>2. QED BY <2>2, <2>3, <3>1
    <2>5. QED BY <1>4, <2>1, <2>4 DEF Goal
  <1>10. QED
    BY <1>1, <1>2, <1>5, <1>6, <1>7, <1>8, <1>9
    DEF TicketStep, TL!Flush, TL!Run, TL!Lock, TL!TryLock, TL!Unlock
-----------------------------------------------------------------------------
(* The queued lock's owner, and the counter as it sees it. *)

\* A thread owns the outermost lock until its store to the successor's mark is in
\* memory, and the others until it has swung their tails back.
Owns(k, t) == depth[t] >= k \/ (k = 1 /\ \E u \in Threads : HandedBy(u, t))

\* The owner of any of the locks owns the outermost one, and is the first of its
\* queue or hands it over.
LEMMA OwnsFirst ==
  ASSUME QueuedIInv, NEW t \in Threads, NEW k \in 1..Len(Order), Owns(k, t)
  PROVE  /\ Owns(1, t)
         /\ depth[t] > 0 => First(t)
         /\ ~(depth[t] > 0) => k = 1 /\ \E u \in Threads : HandedBy(u, t) /\ First(u) /\ Linked(u)
                                                            /\ depth[u] = 0
  <1>1. depth[t] \in Nat /\ k \in Nat /\ k >= 1 BY QueuedPlaces DEF QueuedIInv, Types
  <1>2. CASE depth[t] > 0 BY <1>1, <1>2 DEF Owns, First
  <1>3. CASE ~(depth[t] > 0)
    <2>1. k = 1 BY <1>1, <1>3 DEF Owns
    <2>2. PICK u \in Threads : HandedBy(u, t) BY <1>1, <1>3 DEF Owns
    <2>3. Linked(u) BY <2>2 DEF QueuedIInv, MarkOf
    <2>4. First(u) BY <2>2, <2>3 DEF First, Handed
    <2>5. depth[u] = 0 BY <2>3 DEF Linked, Waits, QueuedIInv, Local, DepthOf
    <2>6. QED BY <1>3, <2>1, <2>2, <2>3, <2>4, <2>5 DEF Owns
  <1>4. QED BY <1>2, <1>3

\* One thread at a time owns the locks.
LEMMA OneOwner ==
  ASSUME QueuedIInv, NEW t \in Threads, NEW s \in Threads,
         NEW k \in 1..Len(Order), NEW j \in 1..Len(Order), Owns(k, t), Owns(j, s)
  PROVE  t = s
  <1>0. Queue BY DEF QueuedIInv
  <1>1. CASE depth[t] > 0 /\ depth[s] > 0 BY <1>0, <1>1, OwnsFirst DEF Queue
  <1>2. CASE depth[t] > 0 /\ ~(depth[s] > 0)
    <2>1. First(t) BY <1>2, OwnsFirst
    <2>2. PICK u \in Threads : First(u) /\ depth[u] = 0 BY <1>2, OwnsFirst
    <2>3. u = t BY <1>0, <2>1, <2>2 DEF Queue
    <2>4. QED BY <1>2, <2>2, <2>3
  <1>3. CASE ~(depth[t] > 0) /\ depth[s] > 0
    <2>1. First(s) BY <1>3, OwnsFirst
    <2>2. PICK u \in Threads : First(u) /\ depth[u] = 0 BY <1>3, OwnsFirst
    <2>3. u = s BY <1>0, <2>1, <2>2 DEF Queue
    <2>4. QED BY <1>3, <2>2, <2>3
  <1>4. CASE ~(depth[t] > 0) /\ ~(depth[s] > 0)
    <2>1. PICK u \in Threads : HandedBy(u, t) /\ First(u) BY <1>4, OwnsFirst
    <2>2. PICK v \in Threads : HandedBy(v, s) /\ First(v) BY <1>4, OwnsFirst
    <2>3. u = v BY <1>0, <2>1, <2>2 DEF Queue
    <2>4. MarkOf(u) BY DEF QueuedIInv
    <2>5. QED BY <2>1, <2>2, <2>3, <2>4 DEF MarkOf
  <1>5. QED BY <1>1, <1>2, <1>3, <1>4

\* A store of FALSE to a mark hands the outermost lock over.
LEMMA HandsOutermost ==
  ASSUME QueuedIInv, NEW t \in Threads, NEW k \in 1..Len(Order)
  PROVE  QL!HandingOver(t, Order[k]) <=> k = 1 /\ \E u \in Threads : HandedBy(u, t)
  <1>0. Types BY DEF QueuedIInv
  <1>1. ASSUME QL!HandingOver(t, Order[k])
        PROVE  k = 1 /\ \E u \in Threads : HandedBy(u, t)
    <2>1. PICK i \in 1..Len(buf[t]), u \in Threads :
            /\ depth[u] < Len(Order) /\ Order[depth[u] + 1] = Order[k]
            /\ buf[t][i] = <<QL!LockedOf(node[u]), FALSE>>
      BY <1>1 DEF QL!HandingOver
    <2>2. PICK s \in Stores(t) : s = <<QL!LockedOf(node[u]), FALSE>>
      BY <2>1 DEF Stores, Elements
    <2>3. PICK v \in Threads : s = HandStore(v)
      <3>1. s # MarkStore(t) BY <2>2 DEF MarkStore
      <3>2. \A p : s # LinkStore(t, p) BY <2>2, QueuedLocations DEF LinkStore
      <3>3. s # ClearStore(t) BY <2>2, QueuedLocations DEF ClearStore
      <3>4. \A n : s # CountStore(n) BY <2>2, QueuedLocations DEF CountStore
      <3>5. QED BY <3>1, <3>2, <3>3, <3>4, StoresAre
    <2>4. HandedBy(v, t) /\ node[u] = Node(v)
      <3>1. s = <<QL!LockedOf(Node(v)), FALSE>> BY <2>3 DEF HandStore
      <3>2. QL!LockedOf(node[u]) = QL!LockedOf(Node(v)) BY <2>2, <3>1
      <3>3. node[u] = Node(v) BY <3>2, QueuedLocations
      <3>4. QED BY <2>3, <3>3 DEF HandedBy
    <2>5. Linked(v) BY <2>4 DEF QueuedIInv, MarkOf
    <2>6. u = v
      <3>1. NodeOf(u) BY DEF QueuedIInv, Local
      <3>2. Node(v) # NoNode BY QueuedPlaces
      <3>3. QED BY <2>4, <3>1, <3>2 DEF NodeOf, Node
    <2>7. depth[v] = 0 BY <2>5 DEF Linked, Waits, QueuedIInv, Local, DepthOf
    <2>8. Order[1] = Order[k] /\ 1 \in 1..Len(Order) BY <2>1, <2>6, <2>7, QueuedPlaces
    <2>9. QED BY <2>4, <2>8, QueuedPlaces
  <1>2. ASSUME k = 1, NEW u \in Threads, HandedBy(u, t)
        PROVE  QL!HandingOver(t, Order[k])
    <2>1. Linked(u) BY <1>2 DEF QueuedIInv, MarkOf
    <2>2. Waits(u) /\ Local(u) BY <2>1 DEF Linked, Waits, QueuedIInv
    <2>3. depth[u] = 0 /\ node[u] = Node(u) BY <2>2 DEF Local, DepthOf, NodeOf
    <2>4. PICK i \in 1..Len(buf[t]) : buf[t][i] = HandStore(u)
      BY <1>2 DEF HandedBy, Stores, Elements
    <2>5. 0 < Len(Order) /\ 0 + 1 = 1 BY QueuedPlaces
    <2>6. depth[u] < Len(Order) /\ Order[depth[u] + 1] = Order[k] BY <1>2, <2>3, <2>5
    <2>7. buf[t][i] = <<QL!LockedOf(node[u]), FALSE>> BY <2>3, <2>4 DEF HandStore
    <2>8. QED BY <2>6, <2>7 DEF QL!HandingOver
  <1>3. QED BY <1>1, <1>2

\* Owning is what the lock's model calls holding.
LEMMA QueuedHolds ==
  ASSUME QueuedIInv, NEW t \in Threads, NEW k \in 1..Len(Order)
  PROVE  QL!Holds(t, Order[k]) <=> Owns(k, t)
  <1>1. depth[t] \in 0..Len(Order) BY DEF QueuedIInv, Types
  <1>2. (\E i \in 1..depth[t] : Order[i] = Order[k]) <=> depth[t] >= k
    <2>1. ASSUME NEW i \in 1..depth[t], Order[i] = Order[k] PROVE depth[t] >= k
      <3>1. i \in 1..Len(Order) /\ i <= depth[t] BY <1>1, QueuedPlaces
      <3>2. i = k BY <2>1, <3>1, QueuedPlaces
      <3>3. QED BY <3>1, <3>2
    <2>2. depth[t] >= k => k \in 1..depth[t] BY <1>1
    <2>3. QED BY <2>1, <2>2
  <1>3. QED BY <1>2, HandsOutermost DEF QL!Holds, Owns

QueuedOwnerMeaning ==
  \A k \in 1..Len(Order) :
    /\ \A t \in Threads : Owns(k, t) => QL!Owner(Order[k]) = t
    /\ (\A t \in Threads : ~Owns(k, t)) => QL!Owner(Order[k]) = Nobody

\* The invariant determines each lock's owner.
LEMMA OwnerMeant == ASSUME QueuedIInv PROVE QueuedOwnerMeaning
  <1> SUFFICES ASSUME NEW k \in 1..Len(Order)
               PROVE  /\ \A t \in Threads : Owns(k, t) => QL!Owner(Order[k]) = t
                      /\ (\A t \in Threads : ~Owns(k, t)) => QL!Owner(Order[k]) = Nobody
    BY DEF QueuedOwnerMeaning
  <1>1. \A t \in Threads : QL!Holds(t, Order[k]) <=> Owns(k, t) BY QueuedHolds
  <1>2. \A t, s \in Threads : Owns(k, t) /\ Owns(k, s) => t = s BY OneOwner
  <1>3. QED BY <1>1, <1>2 DEF QL!Owner

\* The stores of a buffer are to different locations, and only the oldest can be
\* to the counter.
LEMMA BufferShapes ==
  ASSUME QueuedIInv, NEW t \in Threads
  PROVE  \/ buf[t] = <<>>
         \/ \E x : buf[t] = <<x>>
         \/ \E x, y : buf[t] = <<x, y>> /\ x[1] # y[1] /\ y[1] # QL!Counter
         \/ \E x, y, z : /\ buf[t] = <<x, y, z>> /\ x[1] # y[1] /\ x[1] # z[1] /\ y[1] # z[1]
                         /\ y[1] # QL!Counter /\ z[1] # QL!Counter
  <1> DEFINE Shape(b) ==
         \/ b = <<>>
         \/ \E x : b = <<x>>
         \/ \E x, y : b = <<x, y>> /\ x[1] # y[1] /\ y[1] # QL!Counter
         \/ \E x, y, z : /\ b = <<x, y, z>> /\ x[1] # y[1] /\ x[1] # z[1] /\ y[1] # z[1]
                         /\ y[1] # QL!Counter /\ z[1] # QL!Counter
  <1>1. BufferOf(t) /\ qpc[t] \in QL!Steps BY DEF QueuedIInv, Local, Types
  <1>2. /\ \A u : MarkStore(u)[1] = QL!LockedOf(Node(u)) /\ HandStore(u)[1] = QL!LockedOf(Node(u))
                  /\ ClearStore(u)[1] = QL!NextOf(Node(u))
        /\ \A u, p : LinkStore(u, p)[1] = QL!NextOf(Node(p))
        /\ \A n : CountStore(n)[1] = QL!Counter
    BY DEF MarkStore, HandStore, ClearStore, LinkStore, CountStore
  <1>3. ASSUME NEW b, b \in LinkBuffers(t) PROVE Shape(b)
    <2>1. CASE \E p \in Threads : b = <<MarkStore(t), LinkStore(t, p)>>
      BY <1>2, <2>1, QueuedLocations
    <2>2. QED BY <1>3, <2>1 DEF LinkBuffers
  <1>4. ASSUME NEW b, b \in CountBuffers PROVE Shape(b) BY <1>4 DEF CountBuffers
  <1>5. ASSUME NEW b, b \in HandBuffers PROVE Shape(b)
    <2>1. CASE \E n \in Nat, u \in Threads : b = <<CountStore(n), HandStore(u)>>
      BY <1>2, <2>1, QueuedLocations
    <2>2. QED BY <1>5, <2>1 DEF HandBuffers
  <1>6. ASSUME NEW b, b \in ClearBuffers(t) PROVE Shape(b)
    <2>1. CASE \E u \in Threads : b = <<HandStore(u), ClearStore(t)>>
      BY <1>2, <2>1, QueuedLocations
    <2>2. CASE \E n \in Nat, u \in Threads : b = <<CountStore(n), HandStore(u), ClearStore(t)>>
      BY <1>2, <2>2, QueuedLocations
    <2>3. QED BY <1>6, <2>1, <2>2 DEF ClearBuffers
  <1>7. Shape(<<>>) /\ Shape(<<MarkStore(t)>>) OBVIOUS
  <1> HIDE DEF Shape
  <1>8. Shape(buf[t])
    BY <1>1, <1>3, <1>4, <1>5, <1>6, <1>7
    DEF BufferOf, QL!Steps, QL!LockSteps, QL!UnlockSteps
  <1>9. QED BY <1>8 DEF Shape

Counting(t, n) == CountStore(n) \in Stores(t)

\* A thread has at most one store to the counter pending, its oldest.
LEMMA CountFirst ==
  ASSUME QueuedIInv, NEW t \in Threads
  PROVE  \/ QL!Pending(t, QL!Counter) = {} /\ \A n : ~Counting(t, n)
         \/ \E n \in Nat : /\ QL!Pending(t, QL!Counter) = {1} /\ QL!Load(t, QL!Counter) = n
                           /\ buf[t] # <<>> /\ Head(buf[t]) = CountStore(n)
                           /\ \A m : Counting(t, m) <=> m = n
  <1>0. \A n : CountStore(n)[1] = QL!Counter BY DEF CountStore
  <1>1. \A m, n : CountStore(m) = CountStore(n) => m = n BY DEF CountStore
  <1>2. CASE buf[t] = <<>>
    <2>1. Stores(t) = {} BY <1>2, ShortBuffers DEF Stores
    <2>2. QED BY <1>2, <2>1 DEF QL!Pending, Counting
  <1>3. ASSUME NEW x \in Stores(t), buf[t] # <<>>, Head(buf[t]) = x, 1 \in 1..Len(buf[t]),
               buf[t][1] = x, \A i \in 1..Len(buf[t]) : i # 1 => buf[t][i][1] # QL!Counter
        PROVE  \/ QL!Pending(t, QL!Counter) = {} /\ \A n : ~Counting(t, n)
               \/ \E n \in Nat : /\ QL!Pending(t, QL!Counter) = {1} /\ QL!Load(t, QL!Counter) = n
                                 /\ buf[t] # <<>> /\ Head(buf[t]) = CountStore(n)
                                 /\ \A m : Counting(t, m) <=> m = n
    <2>1. \A m : Counting(t, m) => CountStore(m) = x
      <3> SUFFICES ASSUME NEW m, Counting(t, m) PROVE CountStore(m) = x OBVIOUS
      <3>1. PICK i \in 1..Len(buf[t]) : buf[t][i] = CountStore(m)
        BY DEF Counting, Stores, Elements
      <3>2. i = 1 BY <1>0, <1>3, <3>1
      <3>3. QED BY <1>3, <3>1, <3>2
    <2>2. CASE \E n \in Nat : x = CountStore(n)
      <3>1. PICK n \in Nat : x = CountStore(n) BY <2>2
      <3>2. buf[t][1] = <<QL!Counter, n>> BY <1>3, <3>1 DEF CountStore
      <3>3. QL!Pending(t, QL!Counter) = {1} BY <1>3, <3>2 DEF QL!Pending
      <3>4. QL!Load(t, QL!Counter) = n
        <4>1. \A i \in 1..Len(buf[t]) : buf[t][i][1] = QL!Counter => i = 1 BY <1>3
        <4>2. QED BY <1>3, <3>2, <4>1, LoadLast
      <3>5. \A m : Counting(t, m) <=> m = n
        <4>1. Counting(t, n) BY <1>3, <3>1 DEF Counting
        <4>2. QED BY <1>1, <2>1, <3>1, <4>1
      <3>6. QED BY <1>3, <3>1, <3>3, <3>4, <3>5
    <2>3. CASE \A n \in Nat : x # CountStore(n)
      <3>1. x[1] # QL!Counter
        <4>1. CASE x = MarkStore(t) BY <4>1, QueuedLocations DEF MarkStore
        <4>2. CASE \E p \in Threads : x = LinkStore(t, p) BY <4>2, QueuedLocations DEF LinkStore
        <4>3. CASE \E u \in Threads : x = HandStore(u) BY <4>3, QueuedLocations DEF HandStore
        <4>4. CASE x = ClearStore(t) BY <4>4, QueuedLocations DEF ClearStore
        <4>5. QED BY <1>3, <2>3, <4>1, <4>2, <4>3, <4>4, StoresAre
      <3>2. QL!Pending(t, QL!Counter) = {} BY <1>3, <3>1 DEF QL!Pending
      <3>3. \A n : ~Counting(t, n) BY <1>0, <2>1, <3>1
      <3>4. QED BY <3>2, <3>3
    <2>4. QED BY <2>2, <2>3
  <1>4. CASE buf[t] # <<>>
    <2>1. PICK x : /\ 1 \in 1..Len(buf[t]) /\ buf[t][1] = x /\ Head(buf[t]) = x
                   /\ \A i \in 1..Len(buf[t]) : i # 1 => buf[t][i][1] # QL!Counter
      <3>1. CASE \E x : buf[t] = <<x>>
        <4>1. PICK x : buf[t] = <<x>> BY <3>1
        <4>2. Len(buf[t]) = 1 /\ buf[t][1] = x /\ Head(buf[t]) = x BY <4>1
        <4>3. QED BY <4>2
      <3>2. CASE \E x, y : buf[t] = <<x, y>> /\ y[1] # QL!Counter
        <4>1. PICK x, y : buf[t] = <<x, y>> /\ y[1] # QL!Counter BY <3>2
        <4>2. Len(buf[t]) = 2 /\ buf[t][1] = x /\ buf[t][2] = y /\ Head(buf[t]) = x BY <4>1
        <4>3. QED BY <4>1, <4>2
      <3>3. CASE \E x, y, z : buf[t] = <<x, y, z>> /\ y[1] # QL!Counter /\ z[1] # QL!Counter
        <4>1. PICK x, y, z : buf[t] = <<x, y, z>> /\ y[1] # QL!Counter /\ z[1] # QL!Counter
          BY <3>3
        <4>2. /\ Len(buf[t]) = 3 /\ buf[t][1] = x /\ buf[t][2] = y /\ buf[t][3] = z
              /\ Head(buf[t]) = x
          BY <4>1
        <4>3. QED BY <4>1, <4>2
      <3>4. QED BY <1>4, <3>1, <3>2, <3>3, BufferShapes
    <2>2. x \in Stores(t) BY <2>1 DEF Stores, Elements
    <2>3. QED BY <1>3, <1>4, <2>1, <2>2
  <1>5. QED BY <1>2, <1>4

\* Only the owner has a store to the counter pending.
LEMMA CountingOwns ==
  ASSUME QueuedIInv, NEW t \in Threads, NEW n, Counting(t, n)
  PROVE  Owns(1, t)
  <1>1. BufferOf(t) /\ DepthOf(t) /\ qpc[t] \in QL!Steps /\ depth[t] \in Nat
    BY QueuedPlaces DEF QueuedIInv, Local, Types
  <1>2. CountStore(n) \in Elements(buf[t]) BY DEF Counting, Stores
  <1>3. ~(CountStore(n) \in Elements(<<>>)) BY ShortBuffers
  <1>4. ASSUME buf[t] \in HandBuffers PROVE \E u \in Threads : HandStore(u) \in Elements(buf[t])
    <2>1. CASE \E u \in Threads : buf[t] = <<HandStore(u)>>
      <3>1. PICK u \in Threads : buf[t] = <<HandStore(u)>> BY <2>1
      <3>2. Elements(buf[t]) = {HandStore(u)} BY <3>1, ShortBuffers
      <3>3. QED BY <3>2
    <2>2. CASE \E m \in Nat, u \in Threads : buf[t] = <<CountStore(m), HandStore(u)>>
      <3>1. PICK m \in Nat, u \in Threads : buf[t] = <<CountStore(m), HandStore(u)>> BY <2>2
      <3>2. Elements(buf[t]) = {CountStore(m), HandStore(u)} BY <3>1, ShortBuffers
      <3>3. QED BY <3>2
    <2>3. QED BY <1>2, <1>3, <1>4, <2>1, <2>2 DEF HandBuffers
  <1>5. ASSUME buf[t] \in ClearBuffers(t) PROVE \E u \in Threads : HandStore(u) \in Elements(buf[t])
    <2>1. CASE buf[t] = <<ClearStore(t)>>
      <3>1. Elements(buf[t]) = {ClearStore(t)} BY <2>1, ShortBuffers
      <3>2. QED BY <1>2, <3>1, StoresDiffer
    <2>2. CASE \E u \in Threads : buf[t] = <<HandStore(u), ClearStore(t)>>
      <3>1. PICK u \in Threads : buf[t] = <<HandStore(u), ClearStore(t)>> BY <2>2
      <3>2. Elements(buf[t]) = {HandStore(u), ClearStore(t)} BY <3>1, ShortBuffers
      <3>3. QED BY <3>2
    <2>3. CASE \E m \in Nat, u \in Threads : buf[t] = <<CountStore(m), HandStore(u), ClearStore(t)>>
      <3>1. PICK m \in Nat, u \in Threads : buf[t] = <<CountStore(m), HandStore(u), ClearStore(t)>>
        BY <2>3
      <3>2. Elements(buf[t]) = {CountStore(m), HandStore(u), ClearStore(t)} BY <3>1, StoreThird
      <3>3. QED BY <3>2
    <2>4. QED BY <1>2, <1>3, <1>5, <2>1, <2>2, <2>3 DEF ClearBuffers
  <1>6. ASSUME \E u \in Threads : HandStore(u) \in Elements(buf[t]) PROVE Owns(1, t)
    BY <1>6 DEF Owns, HandedBy, Stores
  <1>7. CASE depth[t] > 0 BY <1>1, <1>7 DEF Owns
  <1>8. CASE qpc[t] = "clear_next" BY <1>1, <1>4, <1>6, <1>8 DEF BufferOf
  <1>9. CASE qpc[t] \in {"idle", "exchange"} /\ ~(depth[t] > 0)
    <2>1. depth[t] = 0 BY <1>1, <1>9
    <2>2. buf[t] \in ClearBuffers(t) BY <1>1, <1>9, <2>1 DEF BufferOf
    <2>3. QED BY <1>5, <1>6, <2>2
  <1>10. CASE qpc[t] \in {"link", "spin"}
    <2>1. CASE buf[t] = <<MarkStore(t)>>
      <3>1. Elements(buf[t]) = {MarkStore(t)} BY <2>1, ShortBuffers
      <3>2. QED BY <1>2, <3>1, StoresDiffer
    <2>2. CASE buf[t] \in LinkBuffers(t)
      <3>1. buf[t] # <<>> BY <1>2, <1>3
      <3>2. CASE \E p \in Threads : buf[t] = <<LinkStore(t, p)>>
        <4>1. PICK p \in Threads : buf[t] = <<LinkStore(t, p)>> BY <3>2
        <4>2. Elements(buf[t]) = {LinkStore(t, p)} BY <4>1, ShortBuffers
        <4>3. QED BY <1>2, <4>2, StoresDiffer
      <3>3. CASE \E p \in Threads : buf[t] = <<MarkStore(t), LinkStore(t, p)>>
        <4>1. PICK p \in Threads : buf[t] = <<MarkStore(t), LinkStore(t, p)>> BY <3>3
        <4>2. Elements(buf[t]) = {MarkStore(t), LinkStore(t, p)} BY <4>1, ShortBuffers
        <4>3. QED BY <1>2, <4>2, StoresDiffer
      <3>4. QED BY <2>2, <3>1, <3>2, <3>3 DEF LinkBuffers
    <2>3. QED BY <1>1, <1>2, <1>3, <1>10, <2>1, <2>2 DEF BufferOf
  <1>11. QED
    BY <1>1, <1>2, <1>3, <1>7, <1>8, <1>9, <1>10
    DEF BufferOf, DepthOf, Freed, QL!Steps, QL!LockSteps, QL!UnlockSteps

QueuedCountMeaning ==
  /\ \A t \in Threads : \A n \in Nat : Counting(t, n) => QL!Visible = n
  /\ (\A t \in Threads : \A n \in Nat : ~Counting(t, n)) => QL!Visible = Count

\* The invariant determines the visible counter.
LEMMA CountMeant == ASSUME QueuedIInv PROVE QueuedCountMeaning
  <1> DEFINE Pends(t) == QL!Pending(t, QL!Counter) # {}
  <1>1. \A t \in Threads : Pends(t) => \E n \in Nat : Counting(t, n) /\ QL!Load(t, QL!Counter) = n
    BY CountFirst
  <1>2. \A t \in Threads : \A n \in Nat : Counting(t, n) => Pends(t) /\ QL!Load(t, QL!Counter) = n
    <2> TAKE t \in Threads
    <2> TAKE n \in Nat
    <2>1. QED BY CountFirst
  <1>3. \A t, s \in Threads : Pends(t) /\ Pends(s) => t = s
    <2> SUFFICES ASSUME NEW t \in Threads, NEW s \in Threads, Pends(t), Pends(s) PROVE t = s
      OBVIOUS
    <2>1. Owns(1, t) /\ Owns(1, s) BY <1>1, CountingOwns
    <2>2. 1 \in 1..Len(Order) BY QueuedPlaces
    <2>3. QED BY <2>1, <2>2, OneOwner
  <1>4. QL!Visible = IF \E t \in Threads : Pends(t)
                     THEN QL!Load(CHOOSE t \in Threads : Pends(t), QL!Counter) ELSE Count
    BY DEF QL!Visible, Count
  <1> HIDE DEF Pends
  <1>5. ASSUME NEW t \in Threads, NEW n \in Nat, Counting(t, n) PROVE QL!Visible = n
    <2>1. Pends(t) /\ QL!Load(t, QL!Counter) = n BY <1>2, <1>5
    <2>2. (CHOOSE x \in Threads : Pends(x)) = t BY <1>3, <2>1
    <2>3. QED BY <1>4, <2>1, <2>2
  <1>6. (\A t \in Threads : \A n \in Nat : ~Counting(t, n)) => QL!Visible = Count
    BY <1>1, <1>4
  <1>7. QED BY <1>5, <1>6 DEF QueuedCountMeaning

\* Both of these, of this state ...
LEMMA QueuedMeanings == QueuedIInv => QueuedOwnerMeaning /\ QueuedCountMeaning
  BY OwnerMeant, CountMeant

\* ... and of the next.
LEMMA QueuedMeaningsNext == QueuedIInv' => QueuedOwnerMeaning' /\ QueuedCountMeaning'
  BY QueuedMeanings, PTL

\* What a step may do to the owner of one lock, ...
LEMMA OwnerKept ==
  ASSUME QueuedIInv, QueuedIInv', NEW k \in 1..Len(Order),
         \A u \in Threads : Owns(k, u)' <=> Owns(k, u)
  PROVE  QL!Owner(Order[k])' = QL!Owner(Order[k])
  BY QueuedMeanings, QueuedMeaningsNext DEF QueuedOwnerMeaning

\* A lock that nobody owns gets an owner.
LEMMA OwnerComes ==
  ASSUME QueuedIInv, QueuedIInv', NEW k \in 1..Len(Order), NEW t \in Threads,
         \A u \in Threads : ~Owns(k, u), Owns(k, t)'
  PROVE  QL!Owner(Order[k]) = Nobody /\ QL!Owner(Order[k])' = t
  BY QueuedMeanings, QueuedMeaningsNext DEF QueuedOwnerMeaning

\* A lock loses its owner.
LEMMA OwnerGoes ==
  ASSUME QueuedIInv, QueuedIInv', NEW k \in 1..Len(Order), NEW t \in Threads,
         Owns(k, t), \A u \in Threads : ~Owns(k, u)'
  PROVE  QL!Owner(Order[k]) = t /\ QL!Owner(Order[k])' = Nobody
  BY QueuedMeanings, QueuedMeaningsNext DEF QueuedOwnerMeaning

\* ... and to the counter.
LEMMA CountKept ==
  ASSUME QueuedIInv, QueuedIInv', Count' = Count,
         \A u \in Threads : \A n \in Nat : Counting(u, n)' <=> Counting(u, n)
  PROVE  QL!Visible' = QL!Visible
  BY QueuedMeanings, QueuedMeaningsNext DEF QueuedCountMeaning

\* A step that stores nothing.
LEMMA BuffersKept ==
  ASSUME buf' = buf
  PROVE  /\ \A u, x \in Threads : HandedBy(u, x)' <=> HandedBy(u, x)
         /\ \A u \in Threads : \A n : Counting(u, n)' <=> Counting(u, n)
  <1>1. \A u, x \in Threads : HandedBy(u, x)' <=> HandedBy(u, x)
    BY DEF HandedBy, Stores, Elements, HandStore, Node, QL!LockedOf
  <1>2. \A u \in Threads : \A n : Counting(u, n)' <=> Counting(u, n)
    BY DEF Counting, Stores, Elements, CountStore, QL!Counter
  <1>3. QED BY <1>1, <1>2

QueuedMoves(t) ==
  \A k \in 1..Len(Order) :
    LockMoves(t, QL!Owner(Order[k]), QL!Owner(Order[k])', QL!Visible, QL!Visible')

\* A step that changes neither who owns what nor the counter.
LEMMA NothingMoves ==
  ASSUME QueuedIInv, QueuedIInv', NEW t \in Threads, Count' = Count, depth' = depth,
         \A u, x \in Threads : HandedBy(u, x)' <=> HandedBy(u, x),
         \A u \in Threads : \A n \in Nat : Counting(u, n)' <=> Counting(u, n)
  PROVE  QueuedMoves(t)
  <1>1. QL!Visible' = QL!Visible BY CountKept
  <1>2. \A k \in 1..Len(Order) : \A u \in Threads : Owns(k, u)' <=> Owns(k, u) BY DEF Owns
  <1>3. \A k \in 1..Len(Order) : QL!Owner(Order[k])' = QL!Owner(Order[k]) BY <1>2, OwnerKept
  <1>4. QED BY <1>1, <1>3 DEF QueuedMoves, LockMoves

\* What a store adds to a buffer.
LEMMA StoreMoves ==
  ASSUME NEW t \in Threads, NEW s, \A x \in Threads \ {t} : buf'[x] = buf[x],
         Elements(buf'[t]) = Elements(buf[t]) \cup {s}
  PROVE  /\ \A u, x \in Threads : HandedBy(u, x)' <=> HandedBy(u, x) \/ (x = t /\ s = HandStore(u))
         /\ \A x \in Threads : \A n : Counting(x, n)' <=> Counting(x, n) \/ (x = t /\ s = CountStore(n))
  <1>1. \A u : HandStore(u)' = HandStore(u) BY DEF HandStore, Node, QL!LockedOf
  <1>2. \A n : CountStore(n)' = CountStore(n) BY DEF CountStore, QL!Counter
  <1>3. Stores(t)' = Elements(buf'[t]) /\ Stores(t) = Elements(buf[t]) BY DEF Stores, Elements
  <1>4. Stores(t)' = Stores(t) \cup {s} BY <1>3
  <1>5. \A x \in Threads \ {t} : Stores(x)' = Stores(x) BY DEF Stores, Elements
  <1>6. QED BY <1>1, <1>2, <1>4, <1>5 DEF HandedBy, Counting

\* What the write of its oldest store takes from it.
LEMMA FlushLeaves ==
  ASSUME QueuedIInv, NEW t \in Threads, buf[t] # <<>>
  PROVE  /\ Head(buf[t]) \in Stores(t)
         /\ \A s : s \in Elements(Tail(buf[t])) <=> s \in Stores(t) /\ s[1] # Head(buf[t])[1]
  <1>1. CASE \E x : buf[t] = <<x>>
    <2>1. PICK x : buf[t] = <<x>> BY <1>1
    <2>2. Head(buf[t]) = x /\ Tail(buf[t]) = <<>> BY <2>1, Oldest
    <2>3. Elements(buf[t]) = {x} /\ Elements(Tail(buf[t])) = {} BY <2>1, <2>2, ShortBuffers
    <2>4. QED BY <2>2, <2>3 DEF Stores
  <1>2. CASE \E x, y : buf[t] = <<x, y>> /\ x[1] # y[1]
    <2>1. PICK x, y : buf[t] = <<x, y>> /\ x[1] # y[1] BY <1>2
    <2>2. Head(buf[t]) = x /\ Tail(buf[t]) = <<y>> BY <2>1, Oldest
    <2>3. Elements(<<x, y>>) = {x, y} /\ Elements(<<y>>) = {y} BY ShortBuffers
    <2>4. Elements(buf[t]) = {x, y} /\ Elements(Tail(buf[t])) = {y} BY <2>1, <2>2, <2>3
    <2>5. QED BY <2>1, <2>2, <2>4 DEF Stores
  <1>3. CASE \E x, y, z : buf[t] = <<x, y, z>> /\ x[1] # y[1] /\ x[1] # z[1]
    <2>1. PICK x, y, z : buf[t] = <<x, y, z>> /\ x[1] # y[1] /\ x[1] # z[1] BY <1>3
    <2>2. Head(buf[t]) = x /\ Tail(buf[t]) = <<y, z>> BY <2>1, Oldest
    <2>3. Elements(buf[t]) = {x, y, z}
      <3>1. Elements(<<x, y, z>>) = {x, y, z} BY StoreThird
      <3>2. QED BY <2>1, <3>1
    <2>4. Elements(Tail(buf[t])) = {y, z}
      <3>1. Elements(<<y, z>>) = {y, z} BY ShortBuffers
      <3>2. QED BY <2>2, <3>1
    <2>5. QED BY <2>1, <2>2, <2>3, <2>4 DEF Stores
  <1>4. QED BY <1>1, <1>2, <1>3, BufferShapes

\* The processor's steps: the write of a mark releases the outermost lock.
LEMMA FlushMoves ==
  ASSUME QueuedIInv, QueuedIInv', NEW t \in Threads, QL!Flush(t)
  PROVE  QueuedMoves(t)
  <1>0. Types /\ Shapes BY DEF QueuedIInv
  <1>1. /\ OnlyOf(t) /\ buf[t] # <<>> /\ QL!FlushBuffer(t) /\ buf'[t] = Tail(buf[t])
        /\ depth' = depth
    BY Flushed
  <1>2. PICK h \in Stores(t) : h = Head(buf[t]) BY <1>1, FlushLeaves
  <1>3. \A s : s \in Elements(buf'[t]) <=> s \in Stores(t) /\ s[1] # h[1]
    BY <1>1, <1>2, FlushLeaves
  <1>4. Stores(t)' = Elements(buf'[t]) BY DEF Stores, Elements
  <1>5. \A x \in Threads \ {t} : Stores(x)' = Stores(x)
    BY <1>1 DEF OnlyOf, Stores, Elements
  <1>6. /\ \A u : HandStore(u)' = HandStore(u) /\ HandStore(u)[1] = QL!LockedOf(Node(u))
        /\ \A n : CountStore(n)' = CountStore(n) /\ CountStore(n)[1] = QL!Counter
    BY DEF HandStore, CountStore, Node, QL!LockedOf, QL!Counter
  <1>7. mem' = [mem EXCEPT ![h[1]] = h[2]] BY <1>1, <1>2 DEF QL!FlushBuffer
  <1>8. h[1] \in Locations
    <2>1. CASE h = MarkStore(t) BY <2>1, QueuedPlaces DEF MarkStore
    <2>2. CASE \E p \in Threads : h = LinkStore(t, p) BY <2>2, QueuedPlaces DEF LinkStore
    <2>3. CASE \E u \in Threads : h = HandStore(u) BY <2>3, QueuedPlaces DEF HandStore
    <2>4. CASE h = ClearStore(t) BY <2>4, QueuedPlaces DEF ClearStore
    <2>5. CASE \E n \in Nat : h = CountStore(n) BY <2>5, QueuedPlaces DEF CountStore
    <2>6. QED BY <2>1, <2>2, <2>3, <2>4, <2>5, StoresAre
  <1>9. QL!Counter \in Locations /\ DOMAIN mem = Locations BY <1>0, QueuedPlaces DEF Shapes
  <1>10. \A u \in Threads : ~HandedBy(u, t) \/ \A v \in Threads : HandedBy(v, t) => v = u
    <2> SUFFICES ASSUME NEW u \in Threads, NEW v \in Threads, HandedBy(u, t), HandedBy(v, t)
                 PROVE  v = u
      OBVIOUS
    <2>1. MarkOf(u) /\ MarkOf(v) /\ Queue BY DEF QueuedIInv
    <2>2. First(u) /\ First(v) BY <2>1 DEF MarkOf, First, Handed
    <2>3. QED BY <2>1, <2>2 DEF Queue
  <1>11. CASE \E u \in Threads : h = HandStore(u)
    <2>1. PICK u \in Threads : h = HandStore(u) BY <1>11
    <2>2. HandedBy(u, t) BY <1>2, <2>1 DEF HandedBy
    <2>3. \A v \in Threads : ~HandedBy(v, t)'
      <3> SUFFICES ASSUME NEW v \in Threads, HandedBy(v, t)' PROVE FALSE OBVIOUS
      <3>1. HandStore(v) \in Stores(t) /\ HandStore(v)[1] # h[1]
        BY <1>3, <1>4, <1>6 DEF HandedBy
      <3>2. v = u BY <1>10, <2>2, <3>1 DEF HandedBy
      <3>3. QED BY <2>1, <3>1, <3>2
    <2>4. Count' = Count
      <3>1. h[1] # QL!Counter BY <1>6, <2>1, QueuedLocations
      <3>2. QED BY <1>7, <1>9, <3>1 DEF Count
    <2>5. \A x \in Threads : \A n \in Nat : Counting(x, n)' <=> Counting(x, n)
      <3> TAKE x \in Threads
      <3> TAKE n \in Nat
      <3>1. CASE x = t
        <4>1. CountStore(n)[1] # h[1] BY <1>6, <2>1, QueuedLocations
        <4>2. QED BY <1>3, <1>4, <1>6, <3>1, <4>1 DEF Counting
      <3>2. CASE x # t BY <1>5, <1>6, <3>2 DEF Counting
      <3>3. QED BY <3>1, <3>2
    <2>6. QL!Visible' = QL!Visible BY <2>4, <2>5, CountKept
    <2>7. 1 \in 1..Len(Order) BY QueuedPlaces
    <2>8. Owns(1, t) BY <2>2 DEF Owns
    <2>9. \A x \in Threads : depth[x] = 0
      <3> SUFFICES ASSUME NEW x \in Threads, depth[x] # 0 PROVE FALSE OBVIOUS
      <3>1. depth[x] \in Nat /\ depth[x] > 0 BY <1>0, QueuedPlaces DEF Types
      <3>2. First(x) BY <3>1 DEF First
      <3>3. Linked(u) /\ First(u) BY <2>2 DEF QueuedIInv, MarkOf, First, Handed
      <3>4. x = u BY <3>2, <3>3 DEF QueuedIInv, Queue
      <3>5. depth[u] = 0 BY <3>3 DEF Linked, Waits, QueuedIInv, Local, DepthOf
      <3>6. QED BY <3>1, <3>4, <3>5
    <2>10. \A x, v \in Threads : ~HandedBy(v, x)'
      <3> SUFFICES ASSUME NEW x \in Threads, NEW v \in Threads, HandedBy(v, x)' PROVE FALSE
        OBVIOUS
      <3>1. x # t BY <2>3
      <3>2. HandedBy(v, x) BY <1>5, <1>6, <3>1 DEF HandedBy
      <3>3. Owns(1, x) BY <3>2 DEF Owns
      <3>4. QED BY <2>7, <2>8, <3>1, <3>3, OneOwner
    <2>11. \A k \in 1..Len(Order) : \A x \in Threads : ~Owns(k, x)'
      <3> TAKE k \in 1..Len(Order)
      <3> TAKE x \in Threads
      <3>1. ~(depth'[x] >= k) BY <1>1, <2>9
      <3>2. QED BY <2>10, <3>1 DEF Owns
    <2>12. \A k \in 1..Len(Order) : k # 1 => \A x \in Threads : ~Owns(k, x)
      <3> SUFFICES ASSUME NEW k \in 1..Len(Order), k # 1, NEW x \in Threads PROVE ~Owns(k, x)
        OBVIOUS
      <3>1. ~(depth[x] >= k) BY <2>9
      <3>2. QED BY <3>1 DEF Owns
    <2>13. ASSUME NEW k \in 1..Len(Order)
           PROVE  LockMoves(t, QL!Owner(Order[k]), QL!Owner(Order[k])', QL!Visible, QL!Visible')
      <3>1. CASE k = 1
        <4>1. QL!Owner(Order[k]) = t /\ QL!Owner(Order[k])' = Nobody
          BY <2>8, <2>11, <3>1, OwnerGoes
        <4>2. QED BY <2>6, <4>1 DEF LockMoves
      <3>2. CASE k # 1
        <4>1. QL!Owner(Order[k])' = QL!Owner(Order[k]) BY <2>11, <2>12, <3>2, OwnerKept
        <4>2. QED BY <2>6, <4>1 DEF LockMoves
      <3>3. QED BY <3>1, <3>2
    <2>14. QED BY <2>13 DEF QueuedMoves
  <1>12. CASE \A u \in Threads : h # HandStore(u)
    <2>1. \A v, x \in Threads : HandedBy(v, x)' <=> HandedBy(v, x)
      <3> TAKE v, x \in Threads
      <3>1. CASE x = t
        <4>1. ASSUME HandStore(v) \in Stores(t) PROVE HandStore(v)[1] # h[1]
          <5>1. CASE h = MarkStore(t)
            <6>1. HandedBy(v, t) BY <4>1 DEF HandedBy
            <6>2. Linked(v) BY <6>1 DEF QueuedIInv, MarkOf
            <6>3. ~Linked(t) BY <1>1 DEF Linked
            <6>4. Node(v) # Node(t) BY <6>2, <6>3, QueuedPlaces
            <6>5. QED BY <1>6, <5>1, <6>4, QueuedLocations DEF MarkStore
          <5>2. CASE \E p \in Threads : h = LinkStore(t, p)
            BY <1>6, <5>2, QueuedLocations DEF LinkStore
          <5>3. CASE h = ClearStore(t) BY <1>6, <5>3, QueuedLocations DEF ClearStore
          <5>4. CASE \E n \in Nat : h = CountStore(n) BY <1>6, <5>4, QueuedLocations
          <5>5. QED BY <1>12, <5>1, <5>2, <5>3, <5>4, StoresAre
        <4>2. QED BY <1>3, <1>4, <1>6, <3>1, <4>1 DEF HandedBy
      <3>2. CASE x # t BY <1>5, <1>6, <3>2 DEF HandedBy
      <3>3. QED BY <3>1, <3>2
    <2>2. CASE \E n \in Nat : h = CountStore(n)
      <3>1. PICK n \in Nat : h = CountStore(n) BY <2>2
      <3>2. Counting(t, n) BY <1>2, <3>1 DEF Counting
      <3>3. QL!Visible = n BY <3>2, QueuedMeanings DEF QueuedCountMeaning
      <3>4. Count' = n
        <4>1. h[1] = QL!Counter /\ h[2] = n BY <3>1 DEF CountStore
        <4>2. QED BY <1>7, <1>9, <4>1 DEF Count
      <3>5. \A x \in Threads : \A m \in Nat : ~Counting(x, m)'
        <4> SUFFICES ASSUME NEW x \in Threads, NEW m \in Nat, Counting(x, m)' PROVE FALSE
          OBVIOUS
        <4>1. CASE x = t BY <1>3, <1>4, <1>6, <3>1, <4>1 DEF Counting
        <4>2. CASE x # t
          <5>1. Counting(x, m) BY <1>5, <1>6, <4>2 DEF Counting
          <5>2. Owns(1, x) /\ Owns(1, t) /\ 1 \in 1..Len(Order)
            BY <3>2, <5>1, CountingOwns, QueuedPlaces
          <5>3. QED BY <4>2, <5>2, OneOwner
        <4>3. QED BY <4>1, <4>2
      <3>6. QL!Visible' = n BY <3>4, <3>5, QueuedMeaningsNext DEF QueuedCountMeaning
      <3>7. \A k \in 1..Len(Order) : \A x \in Threads : Owns(k, x)' <=> Owns(k, x)
        BY <1>1, <2>1 DEF Owns
      <3>8. \A k \in 1..Len(Order) : QL!Owner(Order[k])' = QL!Owner(Order[k]) BY <3>7, OwnerKept
      <3>9. QED BY <3>3, <3>6, <3>8 DEF QueuedMoves, LockMoves
    <2>3. CASE \A n \in Nat : h # CountStore(n)
      <3>1. h[1] # QL!Counter
        <4>1. CASE h = MarkStore(t) BY <4>1, QueuedLocations DEF MarkStore
        <4>2. CASE \E p \in Threads : h = LinkStore(t, p) BY <4>2, QueuedLocations DEF LinkStore
        <4>3. CASE h = ClearStore(t) BY <4>3, QueuedLocations DEF ClearStore
        <4>4. QED BY <1>12, <2>3, <4>1, <4>2, <4>3, StoresAre
      <3>2. Count' = Count BY <1>7, <1>9, <3>1 DEF Count
      <3>3. \A x \in Threads : \A n \in Nat : Counting(x, n)' <=> Counting(x, n)
        <4> TAKE x \in Threads
        <4> TAKE n \in Nat
        <4>1. CASE x = t
          <5>1. CountStore(n)[1] # h[1] BY <1>6, <3>1
          <5>2. QED BY <1>3, <1>4, <1>6, <4>1, <5>1 DEF Counting
        <4>2. CASE x # t BY <1>5, <1>6, <4>2 DEF Counting
        <4>3. QED BY <4>1, <4>2
      <3>4. QED BY <1>1, <2>1, <3>2, <3>3, NothingMoves
    <2>4. QED BY <2>2, <2>3
  <1>13. QED BY <1>11, <1>12

\* Steps that touch neither memory nor buffers, and keep the locks.
LEMMA QuietMoves ==
  ASSUME QueuedIInv, QueuedIInv', NEW t \in Threads, Count' = Count, buf' = buf, depth' = depth
  PROVE  QueuedMoves(t)
  <1>1. /\ \A u, x \in Threads : HandedBy(u, x)' <=> HandedBy(u, x)
        /\ \A u \in Threads : \A n : Counting(u, n)' <=> Counting(u, n)
    BY BuffersKept
  <1>2. QED BY <1>1, NothingMoves

\* A store that is neither to the counter nor unmarks a node.
LEMMA PrivateMoves ==
  ASSUME QueuedIInv, QueuedIInv', NEW t \in Threads, Count' = Count, depth' = depth, NEW s,
         \A x \in Threads \ {t} : buf'[x] = buf[x],
         Elements(buf'[t]) = Elements(buf[t]) \cup {s},
         \A u : s # HandStore(u), \A n : s # CountStore(n)
  PROVE  QueuedMoves(t)
  <1>1. /\ \A u, x \in Threads : HandedBy(u, x)' <=> HandedBy(u, x)
        /\ \A x \in Threads : \A n \in Nat : Counting(x, n)' <=> Counting(x, n)
    BY StoreMoves
  <1>2. QED BY <1>1, NothingMoves

\* A thread takes its k-th lock.
LEMMA TakeMoves ==
  ASSUME QueuedIInv, QueuedIInv', NEW t \in Threads, NEW k \in 1..Len(Order),
         depth[t] = k - 1, depth' = [depth EXCEPT ![t] = k], buf' = buf, Count' = Count,
         \A u \in Threads : ~Owns(k, u)
  PROVE  QueuedMoves(t)
  <1>0. Types /\ k \in Nat BY QueuedPlaces DEF QueuedIInv
  <1>1. /\ \A u, x \in Threads : HandedBy(u, x)' <=> HandedBy(u, x)
        /\ \A u \in Threads : \A n : Counting(u, n)' <=> Counting(u, n)
    BY BuffersKept
  <1>2. QL!Visible' = QL!Visible BY <1>1, CountKept
  <1>3. depth'[t] = k /\ \A u \in Threads \ {t} : depth'[u] = depth[u] BY <1>0 DEF Types
  <1>4. QL!Owner(Order[k]) = Nobody /\ QL!Owner(Order[k])' = t
    <2>1. Owns(k, t)' BY <1>0, <1>3 DEF Owns
    <2>2. QED BY <2>1, OwnerComes
  <1>5. ASSUME NEW j \in 1..Len(Order), j # k PROVE QL!Owner(Order[j])' = QL!Owner(Order[j])
    <2>1. depth'[t] >= j <=> depth[t] >= j BY <1>0, <1>3, <1>5
    <2>2. \A u \in Threads : Owns(j, u)' <=> Owns(j, u) BY <1>1, <1>3, <2>1 DEF Owns
    <2>3. QED BY <2>2, OwnerKept
  <1>6. QED BY <1>2, <1>4, <1>5 DEF QueuedMoves, LockMoves

\* The exchange takes a free lock or changes no owner.
LEMMA ExchangeMoves ==
  ASSUME QueuedIInv, QueuedIInv', NEW t \in Threads, QL!Exchange(t)
  PROVE  QueuedMoves(t)
  <1>0. Types /\ Shapes BY DEF QueuedIInv
  <1>1. PICK k \in 1..Len(Order) : ExchangeAt(t, k) BY ExchangeSteps
  <1>2. /\ mem' = [mem EXCEPT ![QL!TailOf(Order[k])] = <<t, k>>]
        /\ buf' = buf /\ depth[t] = k - 1
        /\ TailAt(k) = NoNode => depth' = [depth EXCEPT ![t] = k]
        /\ TailAt(k) # NoNode => depth' = depth
    BY <1>1 DEF ExchangeAt
  <1>3. Count' = Count BY <1>0, <1>2, WriteTail
  <1>4. CASE TailAt(k) = NoNode
    <2>1. \A u \in Threads : ~Owns(k, u)
      <3> SUFFICES ASSUME NEW u \in Threads, Owns(k, u) PROVE FALSE OBVIOUS
      <3>1. CASE k = 1
        <4>1. \A x \in Threads : ~First(x) BY <1>4, <3>1 DEF QueuedIInv, QueueTail
        <4>2. QED BY <4>1, OwnsFirst
      <3>2. CASE k # 1
        <4>1. depth[u] >= k BY <3>2 DEF Owns
        <4>2. k \in 2..Len(Order) BY <3>2, QueuedPlaces
        <4>3. TailAt(k) = <<u, k>> BY <4>1, <4>2 DEF QueuedIInv, InnerLocks
        <4>4. k \in 1..MaxNested BY QueuedPlaces
        <4>5. QED BY <1>4, <4>3, <4>4, QueuedPlaces
      <3>3. QED BY <3>1, <3>2
    <2>2. QED BY <1>2, <1>3, <1>4, <2>1, TakeMoves
  <1>5. CASE TailAt(k) # NoNode BY <1>2, <1>3, <1>5, QuietMoves
  <1>6. QED BY <1>4, <1>5

\* The end of the spinning takes the outermost lock, which nobody owns any more.
LEMMA SpinMoves ==
  ASSUME QueuedIInv, QueuedIInv', NEW t \in Threads, QL!Spin(t)
  PROVE  QueuedMoves(t)
  <1>0. Types /\ Queue BY DEF QueuedIInv
  <1>1. /\ qpc[t] = "spin" /\ depth[t] = 0 /\ depth' = [depth EXCEPT ![t] = 1]
        /\ mem' = mem /\ buf' = buf /\ Linked(t) /\ ~Marked(t)
    BY SpinHanded
  <1>2. Count' = Count BY <1>1 DEF Count
  <1>3. First(t) BY <1>1 DEF First, Handed
  <1>4. 1 \in 1..Len(Order) /\ 1 - 1 = 0 BY QueuedPlaces
  <1>5. \A u \in Threads : ~Owns(1, u)
    <2> SUFFICES ASSUME NEW u \in Threads, Owns(1, u) PROVE FALSE OBVIOUS
    <2>1. CASE depth[u] > 0
      <3>1. First(u) BY <1>4, <2>1, OwnsFirst
      <3>2. u = t BY <1>0, <1>3, <3>1 DEF Queue
      <3>3. QED BY <1>1, <2>1, <3>2
    <2>2. CASE ~(depth[u] > 0)
      <3>1. PICK v \in Threads : HandedBy(v, u) /\ First(v) BY <1>4, <2>2, OwnsFirst
      <3>2. v = t BY <1>0, <1>3, <3>1 DEF Queue
      <3>3. Marked(v) BY <3>1 DEF QueuedIInv, MarkOf
      <3>4. QED BY <1>1, <3>2, <3>3
    <2>3. QED BY <2>1, <2>2
  <1>6. QED BY <1>1, <1>2, <1>4, <1>5, TakeMoves

\* The compare-and-swap of unlock frees the lock or changes no owner.
LEMMA CasMoves ==
  ASSUME QueuedIInv, QueuedIInv', NEW t \in Threads, QL!CasTail(t)
  PROVE  QueuedMoves(t)
  <1>0. Types /\ Shapes BY DEF QueuedIInv
  <1>1. PICK k \in 1..Len(Order) : CasTailAt(t, k) BY CasTailSteps
  <1>2. buf[t] = <<>> /\ buf' = buf /\ depth[t] = k /\ k \in Nat BY <1>1, QueuedPlaces DEF CasTailAt
  <1>3. CASE TailAt(k) # <<t, k>>
    <2>1. mem' = mem /\ depth' = depth BY <1>1, <1>3 DEF CasTailAt
    <2>2. Count' = Count BY <2>1 DEF Count
    <2>3. QED BY <1>2, <2>1, <2>2, QuietMoves
  <1>4. CASE TailAt(k) = <<t, k>>
    <2>1. /\ mem' = [mem EXCEPT ![QL!TailOf(Order[k])] = NoNode]
          /\ depth' = [depth EXCEPT ![t] = k - 1]
      BY <1>1, <1>4 DEF CasTailAt
    <2>2. Count' = Count BY <1>0, <2>1, WriteTail
    <2>3. depth'[t] = k - 1 /\ \A u \in Threads \ {t} : depth'[u] = depth[u]
      BY <1>0, <2>1 DEF Types
    <2>4. /\ \A u, x \in Threads : HandedBy(u, x)' <=> HandedBy(u, x)
          /\ \A u \in Threads : \A n : Counting(u, n)' <=> Counting(u, n)
      BY <1>2, BuffersKept
    <2>5. QL!Visible' = QL!Visible BY <2>2, <2>4, CountKept
    <2>6. Owns(k, t) BY <1>2 DEF Owns
    <2>7. \A u \in Threads : ~Owns(k, u)'
      <3> SUFFICES ASSUME NEW u \in Threads, Owns(k, u)' PROVE FALSE OBVIOUS
      <3>1. CASE u = t
        <4>1. ~(depth'[t] >= k) BY <1>2, <2>3
        <4>2. PICK v \in Threads : HandedBy(v, t) BY <2>4, <3>1, <4>1 DEF Owns
        <4>3. QED BY <1>2, <4>2, ShortBuffers DEF HandedBy, Stores
      <3>2. CASE u # t
        <4>1. Owns(k, u) BY <2>3, <2>4, <3>2 DEF Owns
        <4>2. QED BY <2>6, <3>2, <4>1, OneOwner
      <3>3. QED BY <3>1, <3>2
    <2>8. QL!Owner(Order[k]) = t /\ QL!Owner(Order[k])' = Nobody BY <2>6, <2>7, OwnerGoes
    <2>9. ASSUME NEW j \in 1..Len(Order), j # k PROVE QL!Owner(Order[j])' = QL!Owner(Order[j])
      <3>1. depth'[t] >= j <=> depth[t] >= j BY <1>2, <2>3, <2>9
      <3>2. \A u \in Threads : Owns(j, u)' <=> Owns(j, u) BY <2>3, <2>4, <3>1 DEF Owns
      <3>3. QED BY <3>2, OwnerKept
    <2>10. QED BY <2>5, <2>8, <2>9 DEF QueuedMoves, LockMoves
  <1>5. QED BY <1>3, <1>4

\* The owner counts.
LEMMA WriteMoves ==
  ASSUME QueuedIInv, QueuedIInv', NEW t \in Threads, QL!WriteCounter(t)
  PROVE  QueuedMoves(t)
  <1>0. Types /\ Shapes /\ Local(t) /\ LoadedBy(t) BY DEF QueuedIInv
  <1>1. qpc[t] = "write" /\ depth' = depth /\ QL!Store(t, QL!Counter, qreg[t] + 1)
    BY DEF QL!WriteCounter
  <1>2. depth[t] = Len(Order) /\ buf[t] = <<>> /\ qreg[t] = Count /\ Count \in Nat
    BY <1>0, <1>1 DEF Local, DepthOf, BufferOf, LoadedBy, Types
  <1>3. /\ mem' = mem /\ buf'[t] = Append(buf[t], <<QL!Counter, qreg[t] + 1>>)
        /\ \A x \in Threads \ {t} : buf'[x] = buf[x]
    BY <1>0, <1>1, StoreStep
  <1>12. PICK c \in Nat : c = qreg[t] + 1 /\ c = Count + 1 BY <1>2
  <1>4. buf'[t] = <<CountStore(c)>> BY <1>12, <1>2, <1>3, ShortBuffers DEF CountStore
  <1>5. Elements(buf'[t]) = Elements(buf[t]) \cup {CountStore(c)}
    <2>1. Elements(buf'[t]) = {CountStore(c)} BY <1>4, ShortBuffers
    <2>2. Elements(buf[t]) = {} BY <1>2, ShortBuffers
    <2>3. QED BY <2>1, <2>2
  <1>6. /\ \A u, x \in Threads : HandedBy(u, x)' <=> HandedBy(u, x)
        /\ Counting(t, c)'
    <2>1. \A u, x \in Threads :
            HandedBy(u, x)' <=> HandedBy(u, x) \/ (x = t /\ CountStore(c) = HandStore(u))
      BY <1>3, <1>5, StoreMoves
    <2>2. Stores(t)' = Elements(buf'[t]) BY DEF Stores, Elements
    <2>3. CountStore(c) \in Stores(t)' BY <1>5, <2>2
    <2>4. CountStore(c)' = CountStore(c) BY DEF CountStore, QL!Counter
    <2>5. Counting(t, c)' BY <2>3, <2>4 DEF Counting
    <2>6. QED BY <2>1, <2>5, StoresDiffer
  <1>7. \A k \in 1..Len(Order) : Owns(k, t) /\ Owns(k, t)' BY <1>1, <1>2, QueuedPlaces DEF Owns
  <1>8. \A k \in 1..Len(Order) : QL!Owner(Order[k]) = t /\ QL!Owner(Order[k])' = t
    BY <1>7, QueuedMeanings, QueuedMeaningsNext DEF QueuedOwnerMeaning
  <1>9. QL!Visible = Count
    <2>1. ASSUME NEW x \in Threads, NEW n \in Nat, Counting(x, n) PROVE FALSE
      <3>1. 1 \in 1..Len(Order) BY QueuedPlaces
      <3>2. x = t BY <1>7, <2>1, <3>1, CountingOwns, OneOwner
      <3>3. QED BY <1>2, <2>1, <3>2, ShortBuffers DEF Counting, Stores
    <2>2. QED BY <2>1, QueuedMeanings DEF QueuedCountMeaning
  <1>10. QL!Visible' = Count + 1
    <2>1. QL!Visible' = c BY <1>6, QueuedMeaningsNext DEF QueuedCountMeaning
    <2>2. QED BY <1>12, <2>1
  <1>11. QED BY <1>8, <1>9, <1>10 DEF QueuedMoves, LockMoves

\* It keeps the outermost lock as it stores to its successor's mark.
LEMMA HandOverMoves ==
  ASSUME QueuedIInv, QueuedIInv', NEW t \in Threads, QL!HandOver(t)
  PROVE  QueuedMoves(t)
  <1>0. Types /\ Shapes /\ Local(t) /\ SuccessorOf(t) BY DEF QueuedIInv
  <1>1. /\ qpc[t] = "hand_over" /\ depth' = [depth EXCEPT ![t] = depth[t] - 1]
        /\ QL!Store(t, QL!LockedOf(other[t]), FALSE)
    BY DEF QL!HandOver
  <1>2. depth[t] = 1 /\ buf[t] \in CountBuffers BY <1>0, <1>1 DEF Local, DepthOf, BufferOf
  <1>3. InQueue(t) BY <1>2 DEF InQueue
  <1>4. PICK u \in Threads : other[t] = Node(u) BY <1>0, <1>1, <1>3 DEF SuccessorOf
  <1>5. /\ mem' = mem /\ buf'[t] = Append(buf[t], HandStore(u))
        /\ \A x \in Threads \ {t} : buf'[x] = buf[x]
    BY <1>0, <1>1, <1>4, StoreStep DEF HandStore
  <1>6. Elements(buf'[t]) = Elements(buf[t]) \cup {HandStore(u)} BY <1>2, <1>5, StoreHand
  <1>7. /\ \A v, x \in Threads :
             HandedBy(v, x)' <=> HandedBy(v, x) \/ (x = t /\ HandStore(u) = HandStore(v))
        /\ \A x \in Threads : \A n :
             Counting(x, n)' <=> Counting(x, n) \/ (x = t /\ HandStore(u) = CountStore(n))
    BY <1>5, <1>6, StoreMoves
  <1>8. depth'[t] = 0 /\ \A x \in Threads \ {t} : depth'[x] = depth[x]
    BY <1>0, <1>1, <1>2 DEF Types
  <1>9. QL!Visible' = QL!Visible
    <2>1. Count' = Count BY <1>5 DEF Count
    <2>2. \A x \in Threads : \A n \in Nat : Counting(x, n)' <=> Counting(x, n)
      BY <1>7, StoresDiffer
    <2>3. QED BY <2>1, <2>2, CountKept
  <1>10. ASSUME NEW k \in 1..Len(Order), NEW x \in Threads PROVE Owns(k, x)' <=> Owns(k, x)
    <2>1. k \in Nat /\ k >= 1 BY QueuedPlaces
    <2>2. CASE x # t BY <1>7, <1>8, <2>2 DEF Owns
    <2>3. CASE x = t /\ k = 1
      <3>1. Owns(k, t) BY <1>2, <2>3 DEF Owns
      <3>2. HandedBy(u, t)' BY <1>7
      <3>3. Owns(k, t)' BY <2>3, <3>2 DEF Owns
      <3>4. QED BY <2>3, <3>1, <3>3
    <2>4. CASE x = t /\ k # 1
      <3>1. ~(depth[t] >= k) /\ ~(depth'[t] >= k) BY <1>2, <1>8, <2>1, <2>4
      <3>2. QED BY <2>4, <3>1 DEF Owns
    <2>5. QED BY <2>2, <2>3, <2>4
  <1>11. \A k \in 1..Len(Order) : QL!Owner(Order[k])' = QL!Owner(Order[k]) BY <1>10, OwnerKept
  <1>12. QED BY <1>9, <1>11 DEF QueuedMoves, LockMoves

\* Storing the mark changes no owner.
LEMMA MarkMoves ==
  ASSUME QueuedIInv, QueuedIInv', NEW t \in Threads, QL!SetLocked(t)
  PROVE  QueuedMoves(t)
  <1>0. Shapes /\ Local(t) BY DEF QueuedIInv
  <1>1. qpc[t] = "set_locked" /\ depth' = depth /\ QL!Store(t, QL!LockedOf(node[t]), TRUE)
    BY DEF QL!SetLocked
  <1>2. buf[t] = <<>> /\ node[t] = Node(t)
    BY <1>0, <1>1 DEF Local, BufferOf, NodeOf, Waits
  <1>3. /\ mem' = mem /\ buf'[t] = Append(buf[t], MarkStore(t))
        /\ \A x \in Threads \ {t} : buf'[x] = buf[x]
    BY <1>0, <1>1, <1>2, StoreStep DEF MarkStore
  <1>4. Elements(buf'[t]) = Elements(buf[t]) \cup {MarkStore(t)}
    <2>1. buf'[t] = <<MarkStore(t)>> BY <1>2, <1>3, ShortBuffers
    <2>2. Elements(buf'[t]) = {MarkStore(t)} BY <2>1, ShortBuffers
    <2>3. Elements(buf[t]) = {} BY <1>2, ShortBuffers
    <2>4. QED BY <2>2, <2>3
  <1>5. Count' = Count BY <1>3 DEF Count
  <1>6. \A u : MarkStore(t) # HandStore(u) BY StoresDiffer
  <1>7. \A n : MarkStore(t) # CountStore(n) BY StoresDiffer
  <1>8. QED BY <1>1, <1>3, <1>4, <1>5, <1>6, <1>7, PrivateMoves

\* Storing the link changes no owner.
LEMMA LinkMoves ==
  ASSUME QueuedIInv, QueuedIInv', NEW t \in Threads, QL!Link(t)
  PROVE  QueuedMoves(t)
  <1>0. Shapes /\ Local(t) /\ SuccessorOf(t) BY DEF QueuedIInv
  <1>1. qpc[t] = "link" /\ depth' = depth /\ QL!Store(t, QL!NextOf(other[t]), node[t])
    BY DEF QL!Link
  <1>2. buf[t] \in {<<>>, <<MarkStore(t)>>} /\ node[t] = Node(t)
    BY <1>0, <1>1 DEF Local, BufferOf, NodeOf, Waits
  <1>3. PICK p \in Threads : Behind(t, p) BY <1>0, <1>1 DEF SuccessorOf
  <1>4. other[t] = Node(p) BY <1>1, <1>3 DEF Behind, Linked
  <1>5. /\ mem' = mem /\ buf'[t] = Append(buf[t], LinkStore(t, p))
        /\ \A x \in Threads \ {t} : buf'[x] = buf[x]
    BY <1>0, <1>1, <1>2, <1>4, StoreStep DEF LinkStore
  <1>6. Elements(buf'[t]) = Elements(buf[t]) \cup {LinkStore(t, p)}
    <2>1. PICK b \in {<<>>, <<MarkStore(t)>>} : b = buf[t] BY <1>2
    <2>2. Elements(Append(b, LinkStore(t, p))) = Elements(b) \cup {LinkStore(t, p)} BY StoreLink
    <2>3. QED BY <1>5, <2>1, <2>2
  <1>7. Count' = Count BY <1>5 DEF Count
  <1>8. \A u : LinkStore(t, p) # HandStore(u) BY StoresDiffer
  <1>9. \A n : LinkStore(t, p) # CountStore(n) BY StoresDiffer
  <1>10. QED BY <1>1, <1>5, <1>6, <1>7, <1>8, <1>9, PrivateMoves

\* Clearing the next changes no owner.
LEMMA ClearMoves ==
  ASSUME QueuedIInv, QueuedIInv', NEW t \in Threads, QL!ClearNext(t)
  PROVE  QueuedMoves(t)
  <1>0. Shapes /\ Local(t) BY DEF QueuedIInv
  <1>1. qpc[t] = "clear_next" /\ depth' = depth /\ QL!Store(t, QL!NextOf(node[t]), NoNode)
    BY DEF QL!ClearNext
  <1>2. buf[t] \in HandBuffers /\ node[t] = Node(t)
    BY <1>0, <1>1 DEF Local, BufferOf, NodeOf
  <1>3. /\ mem' = mem /\ buf'[t] = Append(buf[t], ClearStore(t))
        /\ \A x \in Threads \ {t} : buf'[x] = buf[x]
    BY <1>0, <1>1, <1>2, StoreStep DEF ClearStore
  <1>4. Elements(buf'[t]) = Elements(buf[t]) \cup {ClearStore(t)} BY <1>2, <1>3, StoreClear
  <1>5. Count' = Count BY <1>3 DEF Count
  <1>6. \A u : ClearStore(t) # HandStore(u) BY StoresDiffer
  <1>7. \A n : ClearStore(t) # CountStore(n) BY StoresDiffer
  <1>8. QED BY <1>1, <1>3, <1>4, <1>5, <1>6, <1>7, PrivateMoves

\* Each step of the queued lock is, for each of the locks, one of the abstract lock's.
LEMMA QueuedLockMoves ==
  ASSUME QueuedIInv, QueuedIInv', NEW t \in Threads, QL!Flush(t) \/ QL!Run(t)
  PROVE  QueuedMoves(t)
  <1>1. CASE QL!Begin(t) \/ QL!ReadCounter(t) \/ QL!LoadNext(t) \/ QL!WaitNext(t)
    <2>1. mem' = mem /\ buf' = buf /\ depth' = depth
      BY <1>1 DEF QL!Begin, QL!ReadCounter, QL!LoadNext, QL!WaitNext
    <2>2. Count' = Count BY <2>1 DEF Count
    <2>3. QED BY <2>1, <2>2, QuietMoves
  <1>2. QED
    BY <1>1, FlushMoves, ExchangeMoves, MarkMoves, LinkMoves, SpinMoves, WriteMoves, CasMoves,
       HandOverMoves, ClearMoves
    DEF QL!Run, QL!Lock, QL!Unlock

(* The refinement. *)

\* What a thread may do to the lock and the counter is a step of the abstract
\* lock, of the outermost and of the innermost one.
LEMMA AbsMoves ==
  ASSUME NEW t \in Threads
  PROVE  /\ LockMoves(t, OwnerOf(1), OwnerOf(1)', Total, Total') => [Outer!AbsNext]_(Outer!absVars)
         /\ LockMoves(t, OwnerOf(Len(Order)), OwnerOf(Len(Order))', Total, Total')
              => [Inner!AbsNext]_(Inner!absVars)
  BY DEF LockMoves, Outer!AbsNext, Outer!absVars, Outer!Acquire, Outer!Update, Outer!Release,
         Inner!AbsNext, Inner!absVars, Inner!Acquire, Inner!Update, Inner!Release

\* Every step of the program is one of the abstract lock or none.
LEMMA StepsRefine ==
  ASSUME TicketIInv, TicketIInv', QueuedIInv, QueuedIInv', [Next]_vars
  PROVE  [Outer!AbsNext]_(Outer!absVars) /\ [Inner!AbsNext]_(Inner!absVars)
  <1>1. kind' = kind BY DEF Next, Flush, Run, BeginTry, Done, vars
  <1>2. 1 \in 1..Len(Order) /\ Len(Order) \in 1..Len(Order) BY QueuedPlaces
  <1>3. CASE UNCHANGED vars
    <2>1. UNCHANGED tvars /\ UNCHANGED qvars BY <1>3 DEF vars
    <2>2. TL!Owner' = TL!Owner /\ TL!Visible' = TL!Visible
      <3>1. \A u \in Threads : TL!Holds(u)' <=> TL!Holds(u) BY <2>1 DEF tvars, TL!Holds
      <3>2. QED BY <2>1, <3>1, TicketOwnerKept, TicketCountKept DEF tvars
    <2>3. /\ \A k \in 1..Len(Order) : QL!Owner(Order[k])' = QL!Owner(Order[k])
          /\ QL!Visible' = QL!Visible
      <3>1. buf' = buf /\ depth' = depth /\ mem' = mem BY <2>1 DEF qvars
      <3>2. /\ \A u, x \in Threads : HandedBy(u, x)' <=> HandedBy(u, x)
            /\ \A u \in Threads : \A n : Counting(u, n)' <=> Counting(u, n)
        BY <3>1, BuffersKept
      <3>3. Count' = Count BY <3>1 DEF Count
      <3>4. \A k \in 1..Len(Order) : \A u \in Threads : Owns(k, u)' <=> Owns(k, u)
        BY <3>1, <3>2 DEF Owns
      <3>5. QED BY <3>2, <3>3, <3>4, OwnerKept, CountKept
    <2>4. /\ OwnerOf(1)' = OwnerOf(1) /\ OwnerOf(Len(Order))' = OwnerOf(Len(Order))
          /\ Total' = Total
      BY <1>1, <1>2, <2>2, <2>3 DEF OwnerOf, Total
    <2>5. QED BY <2>4 DEF Outer!absVars, Inner!absVars
  <1>4. CASE kind = "ticketlock" /\ \E t \in Threads : TicketStep(t)
    <2>1. PICK t \in Threads : TicketStep(t) BY <1>4
    <2>2. LockMoves(t, TL!Owner, TL!Owner', TL!Visible, TL!Visible') BY <2>1, TicketMoves
    <2>3. /\ OwnerOf(1) = TL!Owner /\ OwnerOf(1)' = TL!Owner'
          /\ OwnerOf(Len(Order)) = TL!Owner /\ OwnerOf(Len(Order))' = TL!Owner'
          /\ Total = TL!Visible /\ Total' = TL!Visible'
      BY <1>1, <1>4 DEF OwnerOf, Total
    <2>4. QED BY <2>2, <2>3, AbsMoves
  <1>5. CASE kind = "qspinlock" /\ \E t \in Threads : QL!Flush(t) \/ QL!Run(t)
    <2>1. PICK t \in Threads : QL!Flush(t) \/ QL!Run(t) BY <1>5
    <2>2. QueuedMoves(t) BY <2>1, QueuedLockMoves
    <2>3. /\ OwnerOf(1) = QL!Owner(Order[1]) /\ OwnerOf(1)' = QL!Owner(Order[1])'
          /\ OwnerOf(Len(Order)) = QL!Owner(Order[Len(Order)])
          /\ OwnerOf(Len(Order))' = QL!Owner(Order[Len(Order)])'
          /\ Total = QL!Visible /\ Total' = QL!Visible'
      BY <1>1, <1>5 DEF OwnerOf, Total
    <2>4. QED BY <1>2, <2>2, <2>3, AbsMoves DEF QueuedMoves
  <1>6. QED
    BY <1>3, <1>4, <1>5 DEF Next, Flush, Run, BeginTry, Done, TicketStep

\* Both locks are locks, however their threads' loads, stores and write-backs
\* interleave: one thread at a time owns a lock, it alone changes the counter, and
\* the next owner sees what it wrote.
THEOREM Refinement == Spec => ImplementsLock
  <1>1. Init => Outer!AbsInit /\ Inner!AbsInit
    <2> SUFFICES ASSUME Init PROVE Outer!AbsInit /\ Inner!AbsInit OBVIOUS
    <2>1. TicketIInv /\ QueuedIInv BY InitTicket, InitQueued
    <2>2. TL!Owner = Nobody /\ TL!Visible = 0
      <3>1. \A t \in Threads : ~TL!Holds(t) /\ ~TL!Storing(t)
        BY DEF Init, TL!Init, TL!Holds, TL!CriticalSteps, TL!Storing
      <3>2. counter = 0 BY DEF Init, TL!Init
      <3>3. QED BY <2>1, <3>1, <3>2, TicketMeanings DEF TicketOwnerMeaning, TicketCountMeaning
    <2>3. (\A k \in 1..Len(Order) : QL!Owner(Order[k]) = Nobody) /\ QL!Visible = 0
      <3>1. \A t \in Threads : buf[t] = <<>> /\ depth[t] = 0 BY DEF Init, QL!Init
      <3>2. Count = 0 BY InitialCount
      <3>3. \A t \in Threads : Stores(t) = {} BY <3>1, ShortBuffers DEF Stores
      <3>4. ASSUME NEW k \in 1..Len(Order), NEW t \in Threads PROVE ~Owns(k, t)
        <4>1. k \in Nat /\ k >= 1 BY QueuedPlaces
        <4>2. ~(depth[t] >= k) BY <3>1, <4>1
        <4>3. \A u \in Threads : ~HandedBy(u, t) BY <3>3 DEF HandedBy
        <4>4. QED BY <4>2, <4>3 DEF Owns
      <3>5. \A t \in Threads : \A n : ~Counting(t, n) BY <3>3 DEF Counting
      <3>6. QED
        BY <2>1, <3>2, <3>4, <3>5, QueuedMeanings DEF QueuedOwnerMeaning, QueuedCountMeaning
    <2>4. 1 \in 1..Len(Order) /\ Len(Order) \in 1..Len(Order) BY QueuedPlaces
    <2>5. QED BY <2>2, <2>3, <2>4 DEF Outer!AbsInit, Inner!AbsInit, OwnerOf, Total
  <1>2. QED
    BY <1>1, StepsRefine, TicketInvariance, QueuedInvariance, PTL
    DEF Spec, ImplementsLock, Outer!AbsSpec, Inner!AbsSpec
=============================================================================
