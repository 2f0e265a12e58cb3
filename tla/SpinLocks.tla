------------------------------ MODULE SpinLocks ------------------------------
(***************************************************************************)
(* The spin locks of staging/spinlock.h as staging/locktest.c is built     *)
(* with one of them: a group of threads takes ticket locks, or nests       *)
(* queued locks.  They share no state; kind says which program runs.       *)
(***************************************************************************)
EXTENDS Integers, Sequences

CONSTANTS Threads, Rounds, Nobody,
          Tries,                             \* of the ticket lock
          Order, MaxNested, NoNode, NoLock   \* of the queued lock

ASSUME ThreadsAssumption == Nobody \notin Threads
ASSUME BudgetAssumption  == Rounds \in [Threads -> Nat] /\ Tries \in [Threads -> Nat]
ASSUME NestingAssumption ==
  /\ MaxNested \in Nat /\ Len(Order) \in 1..MaxNested /\ DOMAIN Order = 1..Len(Order)
  /\ \A i, j \in DOMAIN Order : Order[i] = Order[j] => i = j
  /\ NoNode \notin Threads \X (1..MaxNested) /\ \A i \in DOMAIN Order : Order[i] # NoLock

VARIABLES kind,
          cur, next, counter, storeCounter, storeCur, tpc, ticket, treg, tleft, tries,
          mem, buf, qpc, depth, lock, node, other, qreg, qleft

tvars == <<cur, next, counter, storeCounter, storeCur, tpc, ticket, treg, tleft, tries>>
qvars == <<mem, buf, qpc, depth, lock, node, other, qreg, qleft>>
vars  == <<kind, tvars, qvars>>

TL == INSTANCE TicketLock WITH pc <- tpc, reg <- treg, left <- tleft
QL == INSTANCE QueuedLock WITH pc <- qpc, reg <- qreg, left <- qleft

Init == kind \in {"ticketlock", "qspinlock"} /\ TL!Init /\ QL!Init

\* The processor writes a pending store to memory.
Flush(t) == /\ \/ kind = "ticketlock" /\ TL!Flush(t) /\ UNCHANGED qvars
               \/ kind = "qspinlock"  /\ QL!Flush(t) /\ UNCHANGED tvars
            /\ UNCHANGED kind

\* A thread goes on; it need not begin a try_lock.
Run(t) == /\ \/ kind = "ticketlock" /\ TL!Run(t) /\ UNCHANGED qvars
             \/ kind = "qspinlock"  /\ QL!Run(t) /\ UNCHANGED tvars
          /\ UNCHANGED kind

BeginTry(t) == kind = "ticketlock" /\ TL!TryLoadCur(t) /\ UNCHANGED <<kind, qvars>>

\* Every thread ran all its rounds: the program ends.
Finished == \A t \in Threads : IF kind = "ticketlock" THEN TL!Finished(t) ELSE QL!Finished(t)
Done     == Finished /\ UNCHANGED vars

Next == (\E t \in Threads : Flush(t) \/ Run(t) \/ BeginTry(t)) \/ Done

\* The scheduler runs every thread that can run, and store buffers drain.
Fairness == \A t \in Threads : WF_vars(Flush(t)) /\ WF_vars(Run(t))

Spec     == Init /\ [][Next]_vars
FairSpec == Spec /\ Fairness
-----------------------------------------------------------------------------
TypeOK == TL!TypeOK /\ QL!TypeOK

\* Tickets from the one served up to the next belong to one waiting thread each.
TicketsInOrder == TL!TicketsInOrder

\* A queue node that is not in use is in no queue.
FreeNodesUnlinked == QL!FreeNodesUnlinked

OwnerOf(i) == IF kind = "ticketlock" THEN TL!Owner ELSE QL!Owner(Order[i])
Total      == IF kind = "ticketlock" THEN TL!Visible ELSE QL!Visible

Outer == INSTANCE AbstractLock WITH holder <- OwnerOf(1), total <- Total
Inner == INSTANCE AbstractLock WITH holder <- OwnerOf(Len(Order)), total <- Total

\* Each lock (of nested ones the outermost and the innermost) implements the
\* abstract lock: only its owner updates the counter, and no update is lost or
\* seen late by the next owner.
ImplementsLock == Outer!AbsSpec /\ Inner!AbsSpec

\* Every thread gets the locks in each of its rounds and ends, although it spins,
\* without any fairness between threads but that the scheduler runs them all.
AllRoundsRun == <>Finished
=============================================================================
