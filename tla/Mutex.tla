-------------------------------- MODULE Mutex --------------------------------
(***************************************************************************)
(* The futex mutex of staging/mutex.h, used by threads that each run a     *)
(* number of rounds of lock; counter++; unlock as staging/locktest.c does. *)
(*                                                                         *)
(* One action is one access to shared memory or one system call.  Memory   *)
(* is x86-TSO, the only target of the file (it uses the pause intrinsic):  *)
(* a plain store waits in the thread's FIFO store buffer until it is       *)
(* flushed; a locked instruction (CAS, fetch-and-sub) and the seq_cst      *)
(* fence wait for that buffer to drain.  The two plain stores of a round   *)
(* are counter and locked = 0, in this order, so a buffer is modelled by   *)
(* one pending value for each.  The union of `locked` and `waiting` is one *)
(* 64-bit word, which Register's CAS updates as a whole.                   *)
(***************************************************************************)
EXTENDS Integers, FiniteSets

CONSTANTS Threads,  \* the threads that share the mutex
          Rounds,   \* how often each thread takes it (N of locktest.c)
          Nobody    \* the holder of a free lock in the abstract specification

ASSUME ThreadsAssumption == IsFiniteSet(Threads)
ASSUME NobodyAssumption  == Nobody \notin Threads
ASSUME RoundsAssumption  == Rounds \in [Threads -> Nat]

VARIABLES
  locked, waiting,  \* struct mutex
  counter,          \* the data the mutex protects
  storeCounter,     \* the store to counter in each thread's store buffer
  storeLocked,      \* whether each store buffer holds the store locked = 0
  pc,               \* the next step of each thread
  val,              \* each thread's copy of locked_waiting
  reg,              \* each thread's register of counter++, 0 when it is dead
  left              \* rounds each thread still has to run

mutexVars == <<locked, waiting>>
bufVars   == <<storeCounter, storeLocked>>
vars == <<locked, waiting, counter, storeCounter, storeLocked, pc, val, reg, left>>

NoStore == -1
Word    == [locked |-> locked, waiting |-> waiting]
Dead    == [locked |-> 0, waiting |-> 0]  \* a copy that is not read any more

\* The steps, named for the operation that is next.
LockSteps     == {"cas", "load", "register", "futex_wait", "asleep", "deregister"}
CriticalSteps == {"read", "write", "unlock"}
UnlockSteps   == {"fence", "check_waiting", "futex_wake"}
Steps         == {"idle"} \cup LockSteps \cup CriticalSteps \cup UnlockSteps

Words == [locked : {0, 1}, waiting : Nat]

TypeOK == /\ locked \in {0, 1}
          /\ waiting \in Nat
          /\ counter \in Nat
          /\ storeCounter \in [Threads -> Nat \cup {NoStore}]
          /\ storeLocked \in [Threads -> BOOLEAN]
          /\ pc \in [Threads -> Steps]
          /\ val \in [Threads -> Words]
          /\ reg \in [Threads -> Nat]
          /\ left \in [Threads -> Nat]

Init == /\ locked = 0 /\ waiting = 0 /\ counter = 0
        /\ storeCounter = [t \in Threads |-> NoStore]
        /\ storeLocked = [t \in Threads |-> FALSE]
        /\ pc = [t \in Threads |-> "idle"]
        /\ val = [t \in Threads |-> Dead]
        /\ reg = [t \in Threads |-> 0]
        /\ left = Rounds
-----------------------------------------------------------------------------
Goto(t, step) == pc' = [pc EXCEPT ![t] = step]

\* The thread's store buffer is empty.
Drained(t) == storeCounter[t] = NoStore /\ ~storeLocked[t]

\* The hardware writes the oldest store of a buffer to memory.
FlushCounter(t) == /\ storeCounter[t] # NoStore
                   /\ counter' = storeCounter[t]
                   /\ storeCounter' = [storeCounter EXCEPT ![t] = NoStore]
                   /\ UNCHANGED <<mutexVars, storeLocked, pc, val, reg, left>>

\* Mutant: the store of an unlock overtakes the stores of the critical section.
FlushLockedEarly(t) == /\ storeLocked[t]
                       /\ locked' = 0
                       /\ storeLocked' = [storeLocked EXCEPT ![t] = FALSE]
                       /\ UNCHANGED <<waiting, counter, storeCounter, pc, val, reg, left>>

FlushLocked(t) == /\ storeCounter[t] = NoStore
                  /\ storeLocked[t]
                  /\ locked' = 0
                  /\ storeLocked' = [storeLocked EXCEPT ![t] = FALSE]
                  /\ UNCHANGED <<waiting, counter, storeCounter, pc, val, reg, left>>
-----------------------------------------------------------------------------
Call(t) == /\ pc[t] = "idle" /\ left[t] > 0
           /\ Goto(t, "cas")
           /\ UNCHANGED <<mutexVars, counter, bufVars, val, reg, left>>

\* mutex_trylock: one CAS.  A failed one returns false and changes nothing.
TryLock(t) == /\ pc[t] = "idle" /\ left[t] > 0
              /\ Drained(t)
              /\ locked = 0
              /\ locked' = 1
              /\ Goto(t, "read")
              /\ UNCHANGED <<waiting, counter, bufVars, val, reg, left>>

\* Mutant: the loop takes a failed CAS for the lock.
CasLockUnchecked(t) == /\ pc[t] = "cas"
                       /\ Drained(t)
                       /\ locked' = 1
                       /\ Goto(t, "read")
                       /\ UNCHANGED <<waiting, counter, bufVars, val, reg, left>>

\* The CAS of `locked` from 0 to 1 at the head of mutex_lock's loop.
CasLock(t) == /\ pc[t] = "cas"
              /\ Drained(t)
              /\ \/ locked = 0 /\ locked' = 1 /\ Goto(t, "read")
                 \/ locked # 0 /\ UNCHANGED locked /\ Goto(t, "load")
              /\ UNCHANGED <<waiting, counter, bufVars, val, reg, left>>

\* What the waiter does with a fresh copy of the 64-bit word: retry the lock
\* if it is free now, else try to count itself as a waiter.
Inspect(t) ==
  \/ locked = 0 /\ Goto(t, "cas") /\ val' = [val EXCEPT ![t] = Dead]
  \/ locked # 0 /\ Goto(t, "register") /\ val' = [val EXCEPT ![t] = Word]

LoadWord(t) == /\ pc[t] = "load"
               /\ Inspect(t)
               /\ UNCHANGED <<mutexVars, counter, bufVars, reg, left>>

\* Mutant: the new value of the word forgets to count the waiter.
RegisterUncounted(t) ==
  /\ pc[t] = "register"
  /\ Drained(t)
  /\ \/ val[t] = Word /\ Goto(t, "futex_wait") /\ val' = [val EXCEPT ![t] = Dead]
     \/ val[t] # Word /\ Inspect(t)
  /\ UNCHANGED <<mutexVars, counter, bufVars, reg, left>>

\* The CAS of the whole word that increments waiting while locked stays 1.
Register(t) ==
  /\ pc[t] = "register"
  /\ Drained(t)
  /\ \/ /\ val[t] = Word
        /\ locked' = 1
        /\ waiting' = val[t].waiting + 1
        /\ Goto(t, "futex_wait")
        /\ val' = [val EXCEPT ![t] = Dead]
     \/ /\ val[t] # Word
        /\ Inspect(t)
        /\ UNCHANGED mutexVars
  /\ UNCHANGED <<counter, bufVars, reg, left>>

\* Mutant: go to sleep without comparing the value.
FutexWaitBlindly(t) == /\ pc[t] = "futex_wait"
                       /\ Goto(t, "asleep")
                       /\ UNCHANGED <<mutexVars, counter, bufVars, val, reg, left>>

\* FUTEX_WAIT compares and goes to sleep in one step; a different value is EAGAIN.
FutexWait(t) == /\ pc[t] = "futex_wait"
                /\ Goto(t, IF locked = 1 THEN "asleep" ELSE "deregister")
                /\ UNCHANGED <<mutexVars, counter, bufVars, val, reg, left>>

\* The kernel may also end a FUTEX_WAIT that nobody woke.
SpuriousWakeup(t) == /\ pc[t] = "asleep"
                     /\ Goto(t, "deregister")
                     /\ UNCHANGED <<mutexVars, counter, bufVars, val, reg, left>>

Deregister(t) == /\ pc[t] = "deregister"
                 /\ Drained(t)
                 /\ waiting' = waiting - 1
                 /\ Goto(t, "cas")
                 /\ UNCHANGED <<locked, counter, bufVars, val, reg, left>>
-----------------------------------------------------------------------------
\* counter++ inside the critical section: a load and a buffered store.
ReadCounter(t) == /\ pc[t] = "read"
                  /\ reg' = [reg EXCEPT ![t] = counter]
                  /\ Goto(t, "write")
                  /\ UNCHANGED <<mutexVars, counter, bufVars, val, left>>

WriteCounter(t) == /\ pc[t] = "write"
                   /\ storeCounter' = [storeCounter EXCEPT ![t] = reg[t] + 1]
                   /\ reg' = [reg EXCEPT ![t] = 0]
                   /\ Goto(t, "unlock")
                   /\ UNCHANGED <<mutexVars, counter, storeLocked, val, left>>

\* mutex_unlock: the relaxed store of 0 (asserting that locked is 1) ...
StoreUnlocked(t) == /\ pc[t] = "unlock"
                    /\ storeLocked' = [storeLocked EXCEPT ![t] = TRUE]
                    /\ Goto(t, "fence")
                    /\ UNCHANGED <<mutexVars, counter, storeCounter, val, reg, left>>

\* Mutant: no fence between the store of 0 and the load of waiting.
FenceMissing(t) == /\ pc[t] = "fence"
                   /\ Goto(t, "check_waiting")
                   /\ UNCHANGED <<mutexVars, counter, bufVars, val, reg, left>>

\* ... the seq_cst fence ...
Fence(t) == /\ pc[t] = "fence"
            /\ Drained(t)
            /\ Goto(t, "check_waiting")
            /\ UNCHANGED <<mutexVars, counter, bufVars, val, reg, left>>

\* ... and the load of waiting, which decides whether to wake one waiter.
CheckWaiting(t) ==
  /\ pc[t] = "check_waiting"
  /\ \/ /\ waiting # 0
        /\ Goto(t, "futex_wake")
        /\ UNCHANGED left
     \/ /\ waiting = 0
        /\ Goto(t, "idle")
        /\ left' = [left EXCEPT ![t] = @ - 1]
  /\ UNCHANGED <<mutexVars, counter, bufVars, val, reg>>

Sleepers == {t \in Threads : pc[t] = "asleep"}

\* FUTEX_WAKE with a count of 1 ends the sleep of one waiter, if there is one.
FutexWake(t) ==
  /\ pc[t] = "futex_wake"
  /\ \/ /\ Sleepers = {}
        /\ Goto(t, "idle")
     \/ \E s \in Sleepers : pc' = [pc EXCEPT ![t] = "idle", ![s] = "deregister"]
  /\ left' = [left EXCEPT ![t] = @ - 1]
  /\ UNCHANGED <<mutexVars, counter, bufVars, val, reg>>
-----------------------------------------------------------------------------
Flush(t) == FlushCounter(t) \/ FlushLocked(t)

Lock(t) == \/ Call(t) \/ CasLock(t) \/ LoadWord(t) \/ Register(t)
           \/ FutexWait(t) \/ Deregister(t)

Unlock(t) == StoreUnlocked(t) \/ Fence(t) \/ CheckWaiting(t) \/ FutexWake(t)

Run(t) == Lock(t) \/ ReadCounter(t) \/ WriteCounter(t) \/ Unlock(t)

\* Every thread ran all its rounds: the program ends.
Done == /\ \A t \in Threads : pc[t] = "idle" /\ left[t] = 0
        /\ UNCHANGED vars

Next == \/ \E t \in Threads : \/ Flush(t) \/ Run(t)
                              \/ TryLock(t) \/ SpuriousWakeup(t)
        \/ Done

\* The scheduler runs every thread that can run, and store buffers drain.
Fairness == \A t \in Threads : WF_vars(Flush(t)) /\ WF_vars(Run(t))

Spec     == Init /\ [][Next]_vars
FairSpec == Spec /\ Fairness
-----------------------------------------------------------------------------
\* A thread owns the mutex from its CAS until its store of 0 reaches memory.
Holds(t) == pc[t] \in CriticalSteps \/ storeLocked[t]

\* Two threads never own the mutex at once, and it is locked exactly while one
\* does: mutex_unlock asserts one direction, and without the other the mutex
\* would stay locked with nobody left to unlock it.
MutualExclusion ==
  /\ \A t, u \in Threads : Holds(t) /\ Holds(u) => t = u
  /\ (\E t \in Threads : Holds(t)) <=> locked = 1

\* A thread never sleeps on a free mutex unless some thread that will look at
\* it again, or will wake a sleeper, is on its way: the wake-up cannot be lost
\* between the check of waiting and the FUTEX_WAIT.
WillLook(t) == pc[t] \in (LockSteps \ {"asleep"}) \cup UnlockSteps
NoLostWakeup ==
  Sleepers # {} /\ locked = 0 => \E t \in Threads : WillLook(t)

\* The inductive strengthening: what a store buffer may hold at which step,
\* waiting counts exactly the threads between Register and Deregister, and the
\* owner of the mutex computes with the latest value of the counter.
WaiterSteps  == {"futex_wait", "asleep", "deregister"}
Waiters      == {t \in Threads : pc[t] \in WaiterSteps}
WaitingCount == waiting = Cardinality(Waiters)

Buffered == \A t \in Threads :
              /\ storeLocked[t] => pc[t] = "fence"
              /\ storeCounter[t] # NoStore =>
                    \/ pc[t] = "unlock"
                    \/ pc[t] = "fence" /\ storeLocked[t]

LockedSeen   == \A t \in Threads : pc[t] = "register" => val[t].locked = 1
InRound      == \A t \in Threads : pc[t] # "idle" => left[t] > 0
FreshCounter == \A t \in Threads : pc[t] = "write" => reg[t] = counter

IInv == /\ TypeOK
        /\ Buffered
        /\ MutualExclusion
        /\ WaitingCount
        /\ NoLostWakeup
        /\ LockedSeen
        /\ InRound
        /\ FreshCounter

-----------------------------------------------------------------------------
\* The abstract lock: its holder is the owner, its total the counter as the
\* owner sees it, in memory or still in the owner's store buffer.
Storing(t) == storeCounter[t] # NoStore
Owner   == IF \E t \in Threads : Holds(t)
           THEN CHOOSE t \in Threads : Holds(t) ELSE Nobody
Visible == IF \E t \in Threads : Storing(t)
           THEN storeCounter[CHOOSE t \in Threads : Storing(t)] ELSE counter

L == INSTANCE AbstractLock WITH holder <- Owner, total <- Visible

\* The mutex implements the abstract lock: the counter is only ever updated by
\* the owner and no update is lost or seen late by the next owner.
ImplementsLock == L!AbsSpec

\* Every thread gets the mutex in each of its rounds and ends.
AllRoundsRun == <>(\A t \in Threads : pc[t] = "idle" /\ left[t] = 0)
=============================================================================
