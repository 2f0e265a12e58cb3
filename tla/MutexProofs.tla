----------------------------- MODULE MutexProofs -----------------------------
(***************************************************************************)
(* Mutual exclusion of the futex mutex and the absence of lost wake-ups,   *)
(* for any finite set of threads and any number of rounds.                 *)
(***************************************************************************)
EXTENDS Mutex, FiniteSetTheorems, TLAPS

USE DEF NoStore, mutexVars, bufVars

LEMMA DeadTyped == Dead \in Words
  BY DEF Dead, Words

LEMMA WordTyped ==
  ASSUME TypeOK
  PROVE  Word \in Words
  BY DEF TypeOK, Word, Words


\* A thread that enters or leaves the set of waiters changes its size by one.
LEMMA WaitersFinite == IsFiniteSet(Waiters) /\ Cardinality(Waiters) \in Nat
  BY ThreadsAssumption, FS_Subset, FS_CardinalityType DEF Waiters

LEMMA WaiterAdded ==
  ASSUME NEW t \in Threads, TypeOK, pc[t] \notin WaiterSteps,
         pc' = [pc EXCEPT ![t] = "futex_wait"]
  PROVE  Cardinality(Waiters') = Cardinality(Waiters) + 1
  <1>1. Waiters' = Waiters \cup {t} /\ t \notin Waiters
    BY DEF Waiters, WaiterSteps, TypeOK
  <1>2. QED BY <1>1, WaitersFinite, FS_AddElement

LEMMA WaiterRemoved ==
  ASSUME NEW t \in Threads, TypeOK, pc[t] \in WaiterSteps,
         pc' = [pc EXCEPT ![t] = "cas"]
  PROVE  Cardinality(Waiters') = Cardinality(Waiters) - 1
  <1>1. Waiters' = Waiters \ {t} /\ t \in Waiters
    BY DEF Waiters, WaiterSteps, TypeOK
  <1>2. QED BY <1>1, WaitersFinite, FS_RemoveElement

\* A sleeper has registered: waiting is not zero.
LEMMA SleepersRegistered ==
  ASSUME WaitingCount, Sleepers # {}
  PROVE  waiting # 0
  <1>1. Waiters # {} BY DEF Sleepers, Waiters, WaiterSteps
  <1>2. QED BY <1>1, WaitersFinite, FS_EmptySet DEF WaitingCount

LEMMA InitIInv == Init => IInv
  <1> SUFFICES ASSUME Init PROVE IInv OBVIOUS
  <1> USE DEF Init
  <1>1. TypeOK BY RoundsAssumption, DeadTyped DEF TypeOK, Steps
  <1>2. Buffered BY DEF Buffered
  <1>3. MutualExclusion BY DEF MutualExclusion, Holds, CriticalSteps
  <1>4. WaitingCount
    <2>1. Waiters = {} BY DEF Waiters, WaiterSteps
    <2>2. QED BY <2>1, FS_EmptySet DEF WaitingCount
  <1>5. NoLostWakeup BY DEF NoLostWakeup, Sleepers
  <1>6. LockedSeen /\ InRound /\ FreshCounter
    BY DEF LockedSeen, InRound, FreshCounter
  <1>7. QED BY <1>1, <1>2, <1>3, <1>4, <1>5, <1>6 DEF IInv

\* The step invariant, one conjunct at a time.
LEMMA NextType == IInv /\ [Next]_vars => TypeOK'
  <1> SUFFICES ASSUME IInv, [Next]_vars PROVE TypeOK' OBVIOUS
  <1> USE DEF IInv, TypeOK, Steps, LockSteps, CriticalSteps, UnlockSteps, Goto
  <1>1. ASSUME NEW t \in Threads, Flush(t) PROVE TypeOK'
    BY <1>1 DEF Flush, FlushCounter, FlushLocked
  <1>2. ASSUME NEW t \in Threads, Lock(t) PROVE TypeOK'
    <2>1. CASE Call(t) \/ CasLock(t) \/ FutexWait(t)
      BY <2>1 DEF Call, CasLock, FutexWait
    <2>2. CASE LoadWord(t) BY <2>2, WordTyped, DeadTyped DEF LoadWord, Inspect
    <2>3. CASE Register(t)
      <3>1. CASE val[t] = Word
        <4>1. waiting' = waiting + 1 /\ val' = [val EXCEPT ![t] = Dead]
          BY <2>3, <3>1 DEF Register, Word
        <4>2. QED BY <2>3, <3>1, <4>1, DeadTyped DEF Register
      <3>2. CASE val[t] # Word
        BY <2>3, <3>2, WordTyped, DeadTyped DEF Register, Inspect
      <3>3. QED BY <3>1, <3>2
    <2>4. CASE Deregister(t)
      <3>1. t \in Waiters BY <2>4 DEF Deregister, Waiters, WaiterSteps
      <3>2. waiting # 0
        BY <3>1, WaitersFinite, FS_EmptySet DEF WaitingCount
      <3>3. QED BY <2>4, <3>2 DEF Deregister
    <2>5. QED BY <1>2, <2>1, <2>2, <2>3, <2>4 DEF Lock
  <1>3. ASSUME NEW t \in Threads, ReadCounter(t) \/ WriteCounter(t)
        PROVE TypeOK'
    BY <1>3 DEF ReadCounter, WriteCounter
  <1>4. ASSUME NEW t \in Threads, Unlock(t) PROVE TypeOK'
    <2>1. CASE StoreUnlocked(t) \/ Fence(t)
      BY <2>1 DEF StoreUnlocked, Fence
    <2>2. CASE CheckWaiting(t) BY <2>2 DEF CheckWaiting, InRound
    <2>3. CASE FutexWake(t) BY <2>3 DEF FutexWake, Sleepers, InRound
    <2>4. QED BY <1>4, <2>1, <2>2, <2>3 DEF Unlock
  <1>5. ASSUME NEW t \in Threads, TryLock(t) \/ SpuriousWakeup(t)
        PROVE TypeOK'
    BY <1>5 DEF TryLock, SpuriousWakeup
  <1>6. CASE UNCHANGED vars BY <1>6 DEF vars
  <1>7. QED BY <1>1, <1>2, <1>3, <1>4, <1>5, <1>6 DEF Next, Run, Done

LEMMA NextBuffered == IInv /\ [Next]_vars => Buffered'
  <1> SUFFICES ASSUME IInv, [Next]_vars PROVE Buffered' OBVIOUS
  <1> USE DEF IInv, TypeOK, Buffered, Goto
  <1>1. ASSUME NEW t \in Threads, Flush(t) PROVE Buffered'
    BY <1>1 DEF Flush, FlushCounter, FlushLocked
  <1>2. ASSUME NEW t \in Threads, Lock(t) PROVE Buffered'
    BY <1>2 DEF Lock, Call, CasLock, LoadWord, Inspect, Register, FutexWait,
                Deregister
  <1>3. ASSUME NEW t \in Threads, ReadCounter(t) \/ WriteCounter(t)
        PROVE Buffered'
    <2>1. CASE ReadCounter(t) BY <2>1 DEF ReadCounter
    <2>2. CASE WriteCounter(t) BY <2>2 DEF WriteCounter
    <2>3. QED BY <1>3, <2>1, <2>2
  <1>4. ASSUME NEW t \in Threads, Unlock(t) PROVE Buffered'
    <2>1. CASE StoreUnlocked(t) BY <2>1 DEF StoreUnlocked
    <2>2. CASE Fence(t) BY <2>2 DEF Fence, Drained
    <2>3. CASE CheckWaiting(t) BY <2>3 DEF CheckWaiting
    <2>4. CASE FutexWake(t) BY <2>4 DEF FutexWake, Sleepers
    <2>5. QED BY <1>4, <2>1, <2>2, <2>3, <2>4 DEF Unlock
  <1>5. ASSUME NEW t \in Threads, TryLock(t) \/ SpuriousWakeup(t)
        PROVE Buffered'
    BY <1>5 DEF TryLock, SpuriousWakeup
  <1>6. CASE UNCHANGED vars BY <1>6 DEF vars
  <1>7. QED BY <1>1, <1>2, <1>3, <1>4, <1>5, <1>6 DEF Next, Run, Done

\* Ownership changes hands only by a CAS that finds the mutex free and by the
\* flush of the owner's store of 0.
LEMMA NextMutualExclusion == IInv /\ [Next]_vars => MutualExclusion'
  <1> SUFFICES ASSUME IInv, [Next]_vars PROVE MutualExclusion' OBVIOUS
  <1> USE DEF IInv, TypeOK, MutualExclusion, Holds, CriticalSteps, Goto
  <1>1. ASSUME NEW t \in Threads, Flush(t) PROVE MutualExclusion'
    <2>1. CASE FlushCounter(t) BY <2>1 DEF FlushCounter
    <2>2. CASE FlushLocked(t) BY <2>2 DEF FlushLocked, Buffered
    <2>3. QED BY <1>1, <2>1, <2>2 DEF Flush
  <1>2. ASSUME NEW t \in Threads, Lock(t) PROVE MutualExclusion'
    <2>1. CASE Call(t) BY <2>1 DEF Call
    <2>2. CASE CasLock(t) BY <2>2 DEF CasLock, Drained
    <2>3. CASE LoadWord(t) BY <2>3 DEF LoadWord, Inspect
    <2>4. CASE Register(t)
      <3>1. val[t] = Word => locked = 1
        BY <2>4 DEF Register, LockedSeen, Word
      <3>2. QED BY <2>4, <3>1 DEF Register, Inspect
    <2>5. CASE FutexWait(t) BY <2>5 DEF FutexWait
    <2>6. CASE Deregister(t) BY <2>6 DEF Deregister
    <2>7. QED BY <1>2, <2>1, <2>2, <2>3, <2>4, <2>5, <2>6 DEF Lock
  <1>3. ASSUME NEW t \in Threads, ReadCounter(t) \/ WriteCounter(t)
        PROVE MutualExclusion'
    BY <1>3 DEF ReadCounter, WriteCounter
  <1>4. ASSUME NEW t \in Threads, Unlock(t) PROVE MutualExclusion'
    <2>1. CASE StoreUnlocked(t) BY <2>1 DEF StoreUnlocked
    <2>2. CASE Fence(t) BY <2>2 DEF Fence
    <2>3. CASE CheckWaiting(t) BY <2>3 DEF CheckWaiting
    <2>4. CASE FutexWake(t) BY <2>4 DEF FutexWake, Sleepers
    <2>5. QED BY <1>4, <2>1, <2>2, <2>3, <2>4 DEF Unlock
  <1>5. ASSUME NEW t \in Threads, TryLock(t) \/ SpuriousWakeup(t)
        PROVE MutualExclusion'
    BY <1>5 DEF TryLock, SpuriousWakeup, Drained
  <1>6. CASE UNCHANGED vars BY <1>6 DEF vars
  <1>7. QED BY <1>1, <1>2, <1>3, <1>4, <1>5, <1>6 DEF Next, Run, Done

LEMMA NextWaitingCount == IInv /\ [Next]_vars => WaitingCount'
  <1> SUFFICES ASSUME IInv, [Next]_vars PROVE WaitingCount' OBVIOUS
  <1> USE DEF IInv, Goto
  <1>0. ASSUME waiting' = waiting, Waiters' = Waiters PROVE WaitingCount'
    BY <1>0 DEF WaitingCount
  <1>1. ASSUME NEW t \in Threads, Flush(t) PROVE WaitingCount'
    BY <1>0, <1>1 DEF Flush, FlushCounter, FlushLocked, Waiters
  <1>2. ASSUME NEW t \in Threads, Lock(t) PROVE WaitingCount'
    <2> USE DEF TypeOK, WaiterSteps, Waiters
    <2>1. CASE Call(t) BY <1>0, <2>1 DEF Call
    <2>2. CASE CasLock(t) BY <1>0, <2>2 DEF CasLock
    <2>3. CASE LoadWord(t) BY <1>0, <2>3 DEF LoadWord, Inspect
    <2>4. CASE Register(t)
      <3>1. CASE val[t] = Word
        <4>1. waiting' = waiting + 1 /\ Cardinality(Waiters') = Cardinality(Waiters) + 1
          BY <2>4, <3>1, WaiterAdded DEF Register, Word
        <4>2. QED BY <4>1, WaitersFinite DEF WaitingCount
      <3>2. CASE val[t] # Word
        BY <1>0, <2>4, <3>2 DEF Register, Inspect
      <3>3. QED BY <3>1, <3>2
    <2>5. CASE FutexWait(t) BY <1>0, <2>5 DEF FutexWait
    <2>6. CASE Deregister(t)
      <3>1. waiting' = waiting - 1 /\ Cardinality(Waiters') = Cardinality(Waiters) - 1
        BY <2>6, WaiterRemoved DEF Deregister
      <3>2. QED BY <3>1 DEF WaitingCount
    <2>7. QED BY <1>2, <2>1, <2>2, <2>3, <2>4, <2>5, <2>6 DEF Lock
  <1>3. ASSUME NEW t \in Threads, ReadCounter(t) \/ WriteCounter(t)
        PROVE WaitingCount'
    BY <1>0, <1>3 DEF ReadCounter, WriteCounter, TypeOK, WaiterSteps, Waiters
  <1>4. ASSUME NEW t \in Threads, Unlock(t) PROVE WaitingCount'
    <2> USE DEF TypeOK, WaiterSteps, Waiters
    <2>1. CASE StoreUnlocked(t) BY <1>0, <2>1 DEF StoreUnlocked
    <2>2. CASE Fence(t) BY <1>0, <2>2 DEF Fence
    <2>3. CASE CheckWaiting(t) BY <1>0, <2>3 DEF CheckWaiting
    <2>4. CASE FutexWake(t) BY <1>0, <2>4 DEF FutexWake, Sleepers
    <2>5. QED BY <1>4, <2>1, <2>2, <2>3, <2>4 DEF Unlock
  <1>5. ASSUME NEW t \in Threads, TryLock(t) \/ SpuriousWakeup(t)
        PROVE WaitingCount'
    BY <1>0, <1>5 DEF TryLock, SpuriousWakeup, TypeOK, WaiterSteps, Waiters
  <1>6. CASE UNCHANGED vars BY <1>0, <1>6 DEF vars, Waiters
  <1>7. QED BY <1>1, <1>2, <1>3, <1>4, <1>5, <1>6 DEF Next, Run, Done

\* The step that could lose a wake-up is CheckWaiting: it gives up only when
\* waiting is 0, and then nobody sleeps.
LEMMA NextNoLostWakeup == IInv /\ [Next]_vars => NoLostWakeup'
  <1> SUFFICES ASSUME IInv, [Next]_vars PROVE NoLostWakeup' OBVIOUS
  <1> USE DEF IInv, TypeOK, NoLostWakeup, WillLook, Sleepers, Goto,
              LockSteps, UnlockSteps
  <1>1. ASSUME NEW t \in Threads, Flush(t) PROVE NoLostWakeup'
    BY <1>1 DEF Flush, FlushCounter, FlushLocked, Buffered
  <1>2. ASSUME NEW t \in Threads, Lock(t) PROVE NoLostWakeup'
    <2>1. CASE Call(t) BY <2>1 DEF Call
    <2>2. CASE CasLock(t) BY <2>2 DEF CasLock
    <2>3. CASE LoadWord(t) BY <2>3 DEF LoadWord, Inspect
    <2>4. CASE Register(t) BY <2>4 DEF Register, Inspect
    <2>5. CASE FutexWait(t) BY <2>5 DEF FutexWait
    <2>6. CASE Deregister(t) BY <2>6 DEF Deregister
    <2>7. QED BY <1>2, <2>1, <2>2, <2>3, <2>4, <2>5, <2>6 DEF Lock
  <1>3. ASSUME NEW t \in Threads, ReadCounter(t) \/ WriteCounter(t)
        PROVE NoLostWakeup'
    BY <1>3 DEF ReadCounter, WriteCounter
  <1>4. ASSUME NEW t \in Threads, Unlock(t) PROVE NoLostWakeup'
    <2>1. CASE StoreUnlocked(t) BY <2>1 DEF StoreUnlocked
    <2>2. CASE Fence(t) BY <2>2 DEF Fence
    <2>3. CASE CheckWaiting(t)
      <3>1. CASE waiting # 0 BY <2>3, <3>1 DEF CheckWaiting
      <3>2. CASE waiting = 0
        <4>1. Sleepers = {} BY <3>2, SleepersRegistered
        <4>2. Sleepers' = {} BY <2>3, <4>1 DEF CheckWaiting
        <4>3. QED BY <4>2
      <3>3. QED BY <3>1, <3>2
    <2>4. CASE FutexWake(t) BY <2>4 DEF FutexWake
    <2>5. QED BY <1>4, <2>1, <2>2, <2>3, <2>4 DEF Unlock
  <1>5. ASSUME NEW t \in Threads, TryLock(t) \/ SpuriousWakeup(t)
        PROVE NoLostWakeup'
    BY <1>5 DEF TryLock, SpuriousWakeup
  <1>6. CASE UNCHANGED vars BY <1>6 DEF vars
  <1>7. QED BY <1>1, <1>2, <1>3, <1>4, <1>5, <1>6 DEF Next, Run, Done

\* The three conjuncts about one thread's own registers.
LEMMA NextLocal ==
  IInv /\ [Next]_vars => LockedSeen' /\ InRound' /\ FreshCounter'
  <1> SUFFICES ASSUME IInv, [Next]_vars
               PROVE LockedSeen' /\ InRound' /\ FreshCounter'
    OBVIOUS
  <1> DEFINE Goal == LockedSeen' /\ InRound' /\ FreshCounter'
  <1> USE DEF IInv, TypeOK, LockedSeen, InRound, FreshCounter, Goto
  <1>1. ASSUME NEW t \in Threads, Flush(t) PROVE Goal
    <2>1. CASE FlushCounter(t)
      BY <2>1 DEF FlushCounter, Buffered, MutualExclusion, Holds, CriticalSteps
    <2>2. CASE FlushLocked(t) BY <2>2 DEF FlushLocked
    <2>3. QED BY <1>1, <2>1, <2>2 DEF Flush
  <1>2. ASSUME NEW t \in Threads, Lock(t) PROVE Goal
    <2>1. CASE Call(t) BY <2>1 DEF Call
    <2>2. CASE CasLock(t) BY <2>2 DEF CasLock
    <2>3. CASE LoadWord(t) BY <2>3 DEF LoadWord, Inspect, Word
    <2>4. CASE Register(t) BY <2>4 DEF Register, Inspect, Word
    <2>5. CASE FutexWait(t) BY <2>5 DEF FutexWait
    <2>6. CASE Deregister(t) BY <2>6 DEF Deregister
    <2>7. QED BY <1>2, <2>1, <2>2, <2>3, <2>4, <2>5, <2>6 DEF Lock
  <1>3. ASSUME NEW t \in Threads, ReadCounter(t) \/ WriteCounter(t) PROVE Goal
    <2>1. CASE ReadCounter(t) BY <2>1 DEF ReadCounter
    <2>2. CASE WriteCounter(t) BY <2>2 DEF WriteCounter
    <2>3. QED BY <1>3, <2>1, <2>2
  <1>4. ASSUME NEW t \in Threads, Unlock(t) PROVE Goal
    <2>1. CASE StoreUnlocked(t) BY <2>1 DEF StoreUnlocked
    <2>2. CASE Fence(t) BY <2>2 DEF Fence
    <2>3. CASE CheckWaiting(t) BY <2>3 DEF CheckWaiting
    <2>4. CASE FutexWake(t) BY <2>4 DEF FutexWake, Sleepers
    <2>5. QED BY <1>4, <2>1, <2>2, <2>3, <2>4 DEF Unlock
  <1>5. ASSUME NEW t \in Threads, TryLock(t) \/ SpuriousWakeup(t) PROVE Goal
    BY <1>5 DEF TryLock, SpuriousWakeup
  <1>6. CASE UNCHANGED vars BY <1>6 DEF vars
  <1>7. QED BY <1>1, <1>2, <1>3, <1>4, <1>5, <1>6 DEF Next, Run, Done

\* The invariant of every reachable state, from which the properties follow.
THEOREM Invariance == Spec => []IInv
  <1>1. IInv /\ [Next]_vars => IInv'
    BY NextType, NextBuffered, NextMutualExclusion, NextWaitingCount,
       NextNoLostWakeup, NextLocal DEF IInv
  <1>2. QED BY InitIInv, <1>1, PTL DEF Spec

\* Every variable keeps to its type: the fetch_sub of mutex_lock never takes
\* waiting below zero, although waiters come and go in any order.
THEOREM TypeCorrect == Spec => []TypeOK
  <1>1. IInv => TypeOK BY DEF IInv
  <1>2. QED BY Invariance, <1>1, PTL

\* At most one thread owns the mutex (mutex_lock, mutex_trylock, mutex_unlock),
\* and it is locked exactly while a thread owns it.
THEOREM Exclusion == Spec => []MutualExclusion
  <1>1. IInv => MutualExclusion BY DEF IInv
  <1>2. QED BY Invariance, <1>1, PTL

\* No waiter sleeps on a free mutex without a thread on its way to look at it:
\* the store, fence and load of mutex_unlock and the CAS and FUTEX_WAIT of
\* mutex_lock cannot miss each other.
THEOREM WakeupNotLost == Spec => []NoLostWakeup
  <1>1. IInv => NoLostWakeup BY DEF IInv
  <1>2. QED BY Invariance, <1>1, PTL
-----------------------------------------------------------------------------
\* What the refinement mapping's two CHOOSEs denote.
OwnerMeaning == /\ Owner \in Threads \cup {Nobody}
                /\ \A t \in Threads : Holds(t) <=> Owner = t

VisibleMeaning ==
  /\ \A t \in Threads : Storing(t) => Visible = storeCounter[t]
  /\ (\A t \in Threads : ~Storing(t)) => Visible = counter

LEMMA Meanings == IInv => OwnerMeaning /\ VisibleMeaning
  <1> SUFFICES ASSUME IInv PROVE OwnerMeaning /\ VisibleMeaning OBVIOUS
  <1>1. OwnerMeaning
    <2>1. CASE \E t \in Threads : Holds(t)
      <3>1. Owner \in Threads /\ Holds(Owner) BY <2>1 DEF Owner
      <3>2. QED BY <3>1 DEF OwnerMeaning, IInv, MutualExclusion
    <2>2. CASE ~ \E t \in Threads : Holds(t)
      BY <2>2, NobodyAssumption DEF OwnerMeaning, Owner
    <2>3. QED BY <2>1, <2>2
  <1>2. VisibleMeaning
    <2>1. CASE \E t \in Threads : Storing(t)
      <3> DEFINE w == CHOOSE t \in Threads : Storing(t)
      <3>1. w \in Threads /\ Storing(w) /\ Visible = storeCounter[w]
        BY <2>1 DEF Visible
      <3>2. \A t \in Threads : Storing(t) => Holds(t)
        BY DEF IInv, Buffered, Storing, Holds, CriticalSteps
      <3>3. \A t \in Threads : Storing(t) => t = w
        BY <3>1, <3>2 DEF IInv, MutualExclusion
      <3>4. QED BY <3>1, <3>3 DEF VisibleMeaning
    <2>2. CASE ~ \E t \in Threads : Storing(t)
      BY <2>2 DEF VisibleMeaning, Visible
    <2>3. QED BY <2>1, <2>2
  <1>3. QED BY <1>1, <1>2

LEMMA MeaningsNext == IInv' => OwnerMeaning' /\ VisibleMeaning'
  BY Meanings, PTL

\* A step that changes neither who holds nor what is stored is a stutter.
LEMMA Stutter ==
  ASSUME IInv, IInv', storeCounter' = storeCounter, counter' = counter,
         \A t \in Threads : Holds(t)' <=> Holds(t)
  PROVE  UNCHANGED L!absVars
  <1>1. Owner' = Owner
    BY Meanings, MeaningsNext, NobodyAssumption DEF OwnerMeaning
  <1>2. Visible' = Visible BY DEF Visible, Storing
  <1>3. QED BY <1>1, <1>2 DEF L!absVars

LEMMA Acquires ==
  ASSUME IInv, IInv', NEW t \in Threads, locked = 0, Drained(t),
         pc' = [pc EXCEPT ![t] = "read"],
         UNCHANGED <<counter, bufVars>>
  PROVE  L!Acquire(t)
  <1>1. \A u \in Threads : ~Holds(u) BY DEF IInv, MutualExclusion, TypeOK
  <1>2. Holds(t)' BY DEF Holds, CriticalSteps, IInv, TypeOK
  <1>3. Owner = Nobody /\ Owner' = t
    BY <1>1, <1>2, Meanings, MeaningsNext DEF OwnerMeaning
  <1>4. Visible' = Visible BY DEF Visible, Storing
  <1>5. QED BY <1>3, <1>4 DEF L!Acquire

LEMMA StepRefines == IInv /\ IInv' /\ [Next]_vars => [L!AbsNext]_(L!absVars)
  <1> SUFFICES ASSUME IInv, IInv', [Next]_vars PROVE [L!AbsNext]_(L!absVars)
    OBVIOUS
  <1> DEFINE Goal == [L!AbsNext]_(L!absVars)
  <1>0. ASSUME NEW t \in Threads, L!Acquire(t) \/ L!Update(t) \/ L!Release(t)
        PROVE Goal
    BY <1>0 DEF L!AbsNext
  <1> USE DEF TypeOK, Goto
  <1>1. ASSUME NEW t \in Threads, FlushCounter(t) PROVE Goal
    <2>1. Storing(t) /\ counter' = storeCounter[t] BY <1>1 DEF FlushCounter, Storing
    <2>2. Visible = storeCounter[t] BY <2>1, Meanings DEF VisibleMeaning
    <2>3. \A u \in Threads : Storing(u) => Holds(u)
      BY DEF IInv, Buffered, Storing, Holds, CriticalSteps
    <2>4. \A u \in Threads : Storing(u) => u = t
      BY <2>1, <2>3 DEF IInv, MutualExclusion
    <2>5. \A u \in Threads : ~Storing(u)'
      BY <1>1, <2>4 DEF FlushCounter, Storing, IInv
    <2>6. Visible' = Visible
      BY <2>1, <2>2, <2>5, MeaningsNext DEF VisibleMeaning
    <2>7. Owner' = Owner BY <1>1 DEF FlushCounter, Owner, Holds
    <2>8. QED BY <2>6, <2>7 DEF L!absVars
  <1>2. ASSUME NEW t \in Threads, FlushLocked(t) PROVE Goal
    <2>1. Holds(t) /\ locked' = 0 BY <1>2 DEF FlushLocked, Holds
    <2>2. \A u \in Threads : ~Holds(u)' BY <2>1 DEF IInv, MutualExclusion
    <2>3. Owner = t /\ Owner' = Nobody
      BY <2>1, <2>2, Meanings, MeaningsNext DEF OwnerMeaning
    <2>4. Visible' = Visible BY <1>2 DEF FlushLocked, Visible, Storing
    <2>5. QED BY <1>0, <2>3, <2>4 DEF L!Release
  <1>3. ASSUME NEW t \in Threads, CasLock(t) PROVE Goal
    <2>1. CASE locked = 0
      <3>1. L!Acquire(t) BY <1>3, <2>1, Acquires DEF CasLock
      <3>2. QED BY <1>0, <3>1
    <2>2. CASE locked # 0
      <3>1. UNCHANGED L!absVars
        BY <1>3, <2>2, Stutter DEF CasLock, Holds, CriticalSteps, IInv
      <3>2. QED BY <3>1
    <2>3. QED BY <2>1, <2>2
  <1>4. ASSUME NEW t \in Threads, TryLock(t) PROVE Goal
    <2>1. L!Acquire(t) BY <1>4, Acquires DEF TryLock
    <2>2. QED BY <1>0, <2>1
  <1>5. ASSUME NEW t \in Threads, WriteCounter(t) PROVE Goal
    <2>1. Holds(t) /\ Holds(t)'
      BY <1>5 DEF WriteCounter, Holds, CriticalSteps, IInv
    <2>2. Owner = t /\ Owner' = t
      BY <2>1, Meanings, MeaningsNext DEF OwnerMeaning
    <2>3. \A u \in Threads : Storing(u) => Holds(u) /\ pc[u] # "write"
      BY DEF IInv, Buffered, Storing, Holds, CriticalSteps
    <2>4. \A u \in Threads : ~Storing(u)
      BY <1>5, <2>1, <2>3 DEF WriteCounter, IInv, MutualExclusion
    <2>5. Visible = counter BY <2>4, Meanings DEF VisibleMeaning
    <2>6. storeCounter'[t] = counter + 1
      BY <1>5 DEF WriteCounter, IInv, FreshCounter
    <2>7. Storing(t)' BY <2>6 DEF Storing, IInv
    <2>8. Visible' = counter + 1
      BY <2>6, <2>7, MeaningsNext DEF VisibleMeaning
    <2>9. QED BY <1>0, <2>2, <2>5, <2>8 DEF L!Update
  <1>6. ASSUME NEW t \in Threads,
               Call(t) \/ LoadWord(t) \/ Register(t) \/ FutexWait(t)
                 \/ Deregister(t) \/ SpuriousWakeup(t)
        PROVE Goal
    <2>1. UNCHANGED L!absVars
      BY <1>6, Stutter DEF Call, LoadWord, Register, Inspect, FutexWait,
           Deregister, SpuriousWakeup, Holds, CriticalSteps, IInv
    <2>2. QED BY <2>1
  <1>7. ASSUME NEW t \in Threads,
               ReadCounter(t) \/ StoreUnlocked(t) \/ Fence(t) \/ CheckWaiting(t)
        PROVE Goal
    <2>1. UNCHANGED L!absVars
      BY <1>7, Stutter DEF ReadCounter, StoreUnlocked, Fence, CheckWaiting,
           Drained, Holds, CriticalSteps, IInv
    <2>2. QED BY <2>1
  <1>8. ASSUME NEW t \in Threads, FutexWake(t) PROVE Goal
    <2>1. UNCHANGED L!absVars
      BY <1>8, Stutter DEF FutexWake, Sleepers, Holds, CriticalSteps, IInv
    <2>2. QED BY <2>1
  <1>9. CASE UNCHANGED vars
    <2>1. UNCHANGED L!absVars BY <1>9, Stutter DEF vars, Holds
    <2>2. QED BY <2>1
  <1>10. QED
    BY <1>1, <1>2, <1>3, <1>4, <1>5, <1>6, <1>7, <1>8, <1>9
    DEF Next, Flush, Run, Lock, Unlock, Done

\* The futex mutex implements the abstract lock: only the holder updates the
\* protected counter and no update is lost.
THEOREM Refinement == Spec => ImplementsLock
  <1>1. Init => L!AbsInit
    <2> SUFFICES ASSUME Init PROVE L!AbsInit OBVIOUS
    <2>1. \A t \in Threads : ~Holds(t) /\ ~Storing(t)
      BY DEF Init, Holds, CriticalSteps, Storing
    <2>2. QED BY <2>1 DEF L!AbsInit, Owner, Visible, Init
  <1>2. QED
    BY <1>1, StepRefines, Invariance, PTL DEF Spec, ImplementsLock, L!AbsSpec
=============================================================================
