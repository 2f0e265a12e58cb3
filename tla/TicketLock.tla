------------------------------ MODULE TicketLock ------------------------------
(***************************************************************************)
(* The ticket lock of staging/spinlock.h, used by threads that each run a  *)
(* number of rounds of lock; counter++; unlock as staging/locktest.c does, *)
(* some of them after a number of calls of try_lock.                       *)
(*                                                                         *)
(* One action is one access to shared memory.  Memory is x86-TSO as in     *)
(* Mutex: plain stores wait in a FIFO store buffer, here the one to        *)
(* counter and then the one to cur; locked instructions drain it, and a    *)
(* load sees the thread's own pending stores first.  Tickets do not wrap   *)
(* around: a run hands out far fewer than 2^32.                            *)
(***************************************************************************)
EXTENDS Integers, FiniteSets

CONSTANTS Threads,  \* the threads that share the lock
          Rounds,   \* how often each thread takes it
          Tries,    \* how often each thread may call try_lock
          Nobody    \* the holder of a free lock in the abstract specification

VARIABLES
  cur, next,     \* struct ticketlock
  counter,       \* the data the lock protects
  storeCounter,  \* the store to counter in each thread's store buffer
  storeCur,      \* the store to cur behind it
  pc,            \* the next step of each thread
  ticket,        \* each thread's ticket, or the value its try_lock expects,
                 \* 0 when it is dead
  reg,           \* each thread's register, 0 when it is dead
  left, tries    \* rounds and tries each thread may still start

lockVars == <<cur, next>>
bufVars  == <<storeCounter, storeCur>>
vars == <<cur, next, counter, storeCounter, storeCur, pc, ticket, reg, left, tries>>

NoStore       == -1
CriticalSteps == {"read", "write", "load_cur", "store_cur"}
Steps         == {"idle", "spin", "try_next", "try_cas"} \cup CriticalSteps

TypeOK == /\ cur \in Nat
          /\ next \in Nat
          /\ counter \in Nat
          /\ storeCounter \in [Threads -> Nat \cup {NoStore}]
          /\ storeCur \in [Threads -> Nat \cup {NoStore}]
          /\ pc \in [Threads -> Steps]
          /\ ticket \in [Threads -> Nat]
          /\ reg \in [Threads -> Nat]
          /\ left \in [Threads -> Nat]
          /\ tries \in [Threads -> Nat]

Init == /\ cur = 0 /\ next = 0 /\ counter = 0
        /\ storeCounter = [t \in Threads |-> NoStore]
        /\ storeCur = [t \in Threads |-> NoStore]
        /\ pc = [t \in Threads |-> "idle"]
        /\ ticket = [t \in Threads |-> 0]
        /\ reg = [t \in Threads |-> 0]
        /\ left = Rounds
        /\ tries = Tries
-----------------------------------------------------------------------------
Goto(t, step) == pc' = [pc EXCEPT ![t] = step]
Drained(t)    == storeCounter[t] = NoStore /\ storeCur[t] = NoStore

\* A load of cur sees the thread's own pending store first.
CurSeenBy(t) == IF storeCur[t] # NoStore THEN storeCur[t] ELSE cur

FlushCounter(t) == /\ storeCounter[t] # NoStore
                   /\ counter' = storeCounter[t]
                   /\ storeCounter' = [storeCounter EXCEPT ![t] = NoStore]
                   /\ UNCHANGED <<lockVars, storeCur, pc, ticket, reg, left, tries>>

FlushCur(t) == /\ storeCounter[t] = NoStore
               /\ storeCur[t] # NoStore
               /\ cur' = storeCur[t]
               /\ storeCur' = [storeCur EXCEPT ![t] = NoStore]
               /\ UNCHANGED <<next, counter, storeCounter, pc, ticket, reg, left, tries>>
-----------------------------------------------------------------------------
\* Mutant: take a ticket with a load and a store instead of one fetch-and-add;
\* the value loaded is any that next had since the lock was free.
TakeStaleTicket(t) ==
  /\ pc[t] = "idle" /\ left[t] > 0
  /\ Drained(t)
  /\ \E n \in cur..next : next' = n + 1 /\ ticket' = [ticket EXCEPT ![t] = n]
  /\ Goto(t, "spin")
  /\ UNCHANGED <<cur, counter, bufVars, reg, left, tries>>

\* ticketlock_lock: take a ticket ...
TakeTicket(t) == /\ pc[t] = "idle" /\ left[t] > 0
                 /\ Drained(t)
                 /\ ticket' = [ticket EXCEPT ![t] = next]
                 /\ next' = next + 1
                 /\ Goto(t, "spin")
                 /\ UNCHANGED <<cur, counter, bufVars, reg, left, tries>>

\* ... and load cur until it is this ticket's turn.
Spin(t) == /\ pc[t] = "spin"
           /\ CurSeenBy(t) = ticket[t]
           /\ Goto(t, "read")
           /\ UNCHANGED <<lockVars, counter, bufVars, ticket, reg, left, tries>>

\* ticketlock_try_lock: load cur, load next, then CAS next from the former to
\* the latter plus 1.
TryLoadCur(t) == /\ pc[t] = "idle" /\ left[t] > 0 /\ tries[t] > 0
                 /\ ticket' = [ticket EXCEPT ![t] = CurSeenBy(t)]
                 /\ tries' = [tries EXCEPT ![t] = @ - 1]
                 /\ Goto(t, "try_next")
                 /\ UNCHANGED <<lockVars, counter, bufVars, reg, left>>

TryLoadNext(t) == /\ pc[t] = "try_next"
                  /\ reg' = [reg EXCEPT ![t] = next]
                  /\ Goto(t, "try_cas")
                  /\ UNCHANGED <<lockVars, counter, bufVars, ticket, left, tries>>

\* Mutant: try_lock takes a ticket like lock and leaves when it is not its turn.
TryCasLosesTicket(t) ==
  /\ pc[t] = "try_cas"
  /\ Drained(t)
  /\ next' = next + 1
  /\ Goto(t, IF next = ticket[t] THEN "read" ELSE "idle")
  /\ reg' = [reg EXCEPT ![t] = 0]
  /\ UNCHANGED <<cur, counter, bufVars, ticket, left, tries>>

TryCas(t) == /\ pc[t] = "try_cas"
             /\ Drained(t)
             /\ \/ /\ next = ticket[t]
                   /\ next' = reg[t] + 1
                   /\ Goto(t, "read")
                   /\ UNCHANGED ticket
                \/ /\ next # ticket[t]
                   /\ Goto(t, "idle")
                   /\ ticket' = [ticket EXCEPT ![t] = 0]
                   /\ UNCHANGED next
             /\ reg' = [reg EXCEPT ![t] = 0]
             /\ UNCHANGED <<cur, counter, bufVars, left, tries>>
-----------------------------------------------------------------------------
\* counter++ inside the critical section: a load and a buffered store.
ReadCounter(t) == /\ pc[t] = "read"
                  /\ reg' = [reg EXCEPT ![t] = counter]
                  /\ Goto(t, "write")
                  /\ UNCHANGED <<lockVars, counter, bufVars, ticket, left, tries>>

WriteCounter(t) == /\ pc[t] = "write"
                   /\ storeCounter' = [storeCounter EXCEPT ![t] = reg[t] + 1]
                   /\ reg' = [reg EXCEPT ![t] = 0]
                   /\ Goto(t, "load_cur")
                   /\ UNCHANGED <<lockVars, counter, storeCur, ticket, left, tries>>

\* ticketlock_unlock: a load of cur and a store of cur + 1.
LoadCur(t) == /\ pc[t] = "load_cur"
              /\ reg' = [reg EXCEPT ![t] = CurSeenBy(t)]
              /\ Goto(t, "store_cur")
              /\ UNCHANGED <<lockVars, counter, bufVars, ticket, left, tries>>

StoreCur(t) == /\ pc[t] = "store_cur"
               /\ storeCur' = [storeCur EXCEPT ![t] = reg[t] + 1]
               /\ reg' = [reg EXCEPT ![t] = 0]
               /\ left' = [left EXCEPT ![t] = @ - 1]
               /\ Goto(t, "idle")
               /\ ticket' = [ticket EXCEPT ![t] = 0]
               /\ UNCHANGED <<lockVars, counter, storeCounter, tries>>
-----------------------------------------------------------------------------
Flush(t)   == FlushCounter(t) \/ FlushCur(t)
Lock(t)    == TakeTicket(t) \/ Spin(t)
TryLock(t) == TryLoadNext(t) \/ TryCas(t)
Unlock(t)  == LoadCur(t) \/ StoreCur(t)
Run(t)     == Lock(t) \/ TryLock(t) \/ ReadCounter(t) \/ WriteCounter(t) \/ Unlock(t)

\* The thread has run all its rounds.
Finished(t) == pc[t] = "idle" /\ left[t] = 0 /\ Drained(t)
-----------------------------------------------------------------------------
\* A thread owns the lock until its store to cur reaches memory; it waits for it
\* from its fetch-and-add on.
Holds(t)  == pc[t] \in CriticalSteps \/ storeCur[t] # NoStore
Queued(t) == Holds(t) \/ pc[t] = "spin"

\* The ticket a queued thread holds until its store to cur reaches memory.
TicketOf(t) == IF storeCur[t] # NoStore THEN storeCur[t] - 1 ELSE ticket[t]

\* The tickets from cur up to next belong to one thread each, and the owner has
\* the first of them: a ticket that two threads had would let both in, and one
\* that nobody had would stop the lock for ever.
TicketsInOrder ==
  /\ \A t, u \in Threads : Queued(t) /\ Queued(u) /\ t # u => TicketOf(t) # TicketOf(u)
  /\ {TicketOf(t) : t \in {u \in Threads : Queued(u)}} = cur..(next - 1)
  /\ \A t \in Threads : Holds(t) => TicketOf(t) = cur

\* The abstract lock: its total is the counter as the owner sees it.
Storing(t) == storeCounter[t] # NoStore
Owner   == IF \E t \in Threads : Holds(t)
           THEN CHOOSE t \in Threads : Holds(t) ELSE Nobody
Visible == IF \E t \in Threads : Storing(t)
           THEN storeCounter[CHOOSE t \in Threads : Storing(t)] ELSE counter
=============================================================================
