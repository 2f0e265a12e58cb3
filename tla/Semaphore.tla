------------------------------ MODULE Semaphore ------------------------------
(***************************************************************************)
(* The futex semaphore of staging/semaphore.h.  Every thread may wait and  *)
(* post, within a budget of calls.                                         *)
(*                                                                         *)
(* One action is one atomic access or one system call.  The code has no    *)
(* plain store: count and waiting change only by locked instructions, so   *)
(* x86 gives the same behaviours as sequentially consistent memory and the *)
(* fence of semaphore_post needs no step of its own.  The union of the two *)
(* counters is one 64-bit word, which Register's CAS compares as a whole.  *)
(***************************************************************************)
EXTENDS Integers, FiniteSets, FiniteSetTheorems, TLAPS

CONSTANTS Threads,  \* the threads that share the semaphore
          Initial,  \* the count it is initialised with
          Waits,    \* how many times each thread waits
          Posts     \* how many times each thread posts

ASSUME SemThreadsAssumption == IsFiniteSet(Threads)
ASSUME SemBudgetAssumption  == /\ Initial \in Nat
                               /\ Waits \in [Threads -> Nat]
                               /\ Posts \in [Threads -> Nat]

VARIABLES
  count, waiting,  \* struct semaphore
  pc,              \* the next step of each thread
  seen,            \* what each thread's next CAS expects: count, or waiting
  waits, posts     \* calls each thread may still make

semVars == <<count, waiting>>
budget  == <<waits, posts>>
vars    == <<count, waiting, pc, seen, waits, posts>>

WaiterSteps == {"futex_wait", "asleep", "deregister"}
WaitSteps   == {"load", "cas", "load_word", "register"} \cup WaiterSteps
PostSteps   == {"check_waiting", "futex_wake"}

TypeOK == /\ count \in Nat
          /\ waiting \in Nat
          /\ pc \in [Threads -> {"idle"} \cup WaitSteps \cup PostSteps]
          /\ seen \in [Threads -> Nat]
          /\ waits \in [Threads -> Nat]
          /\ posts \in [Threads -> Nat]

Init == /\ count = Initial /\ waiting = 0
        /\ pc = [t \in Threads |-> "idle"]
        /\ seen = [t \in Threads |-> 0]
        /\ waits = Waits
        /\ posts = Posts
-----------------------------------------------------------------------------
Goto(t, step) == pc' = [pc EXCEPT ![t] = step]

\* Keep n for the next CAS; a copy nobody reads any more is 0.
See(t, n) == seen' = [seen EXCEPT ![t] = n]

CallWait(t) == /\ pc[t] = "idle" /\ waits[t] > 0
               /\ waits' = [waits EXCEPT ![t] = @ - 1]
               /\ Goto(t, "load")
               /\ UNCHANGED <<semVars, seen, posts>>

\* semaphore_trywait with a fresh count: give up on 0, else CAS it down.
Try(t) == \/ count = 0 /\ Goto(t, "load_word") /\ See(t, 0)
          \/ count # 0 /\ Goto(t, "cas") /\ See(t, count)

LoadCount(t) == pc[t] = "load" /\ Try(t) /\ UNCHANGED <<semVars, budget>>

\* Mutant: store the decremented copy without comparing.
CasCountBlindly(t) == /\ pc[t] = "cas"
                      /\ count' = seen[t] - 1
                      /\ Goto(t, "idle") /\ See(t, 0)
                      /\ UNCHANGED <<waiting, budget>>

CasCount(t) == /\ pc[t] = "cas"
               /\ \/ /\ seen[t] = count
                     /\ count' = count - 1
                     /\ Goto(t, "idle") /\ See(t, 0)
                  \/ /\ seen[t] # count
                     /\ Try(t)
                     /\ UNCHANGED count
               /\ UNCHANGED <<waiting, budget>>

\* The waiter with a fresh copy of the word: retry if the count is not 0, else
\* (after at most 50 more looks, which change nothing) register as a waiter.
Inspect(t) == \/ count # 0 /\ Goto(t, "load") /\ See(t, 0)
              \/ count = 0 /\ Goto(t, "register") /\ See(t, waiting)

LoadWord(t) == pc[t] = "load_word" /\ Inspect(t) /\ UNCHANGED <<semVars, budget>>

\* Mutant: the new value of the word forgets to count the waiter.
RegisterUncounted(t) ==
  /\ pc[t] = "register"
  /\ \/ count = 0 /\ waiting = seen[t] /\ Goto(t, "futex_wait") /\ See(t, 0)
     \/ ~(count = 0 /\ waiting = seen[t]) /\ Inspect(t)
  /\ UNCHANGED <<semVars, budget>>

Register(t) == /\ pc[t] = "register"
               /\ \/ /\ count = 0 /\ waiting = seen[t]
                     /\ waiting' = seen[t] + 1
                     /\ Goto(t, "futex_wait") /\ See(t, 0)
                  \/ /\ ~(count = 0 /\ waiting = seen[t])
                     /\ Inspect(t)
                     /\ UNCHANGED waiting
               /\ UNCHANGED <<count, budget>>

\* Mutant: go to sleep without comparing the value.
FutexWaitBlindly(t) == /\ pc[t] = "futex_wait"
                       /\ Goto(t, "asleep")
                       /\ UNCHANGED <<semVars, seen, budget>>

\* FUTEX_WAIT compares and goes to sleep in one step; a different value is EAGAIN.
FutexWait(t) == /\ pc[t] = "futex_wait"
                /\ Goto(t, IF count = 0 THEN "asleep" ELSE "deregister")
                /\ UNCHANGED <<semVars, seen, budget>>

\* The kernel may also end a FUTEX_WAIT that nobody woke.
SpuriousWakeup(t) == /\ pc[t] = "asleep"
                     /\ Goto(t, "deregister")
                     /\ UNCHANGED <<semVars, seen, budget>>

Deregister(t) == /\ pc[t] = "deregister"
                 /\ waiting' = waiting - 1
                 /\ Goto(t, "load")
                 /\ UNCHANGED <<count, seen, budget>>
-----------------------------------------------------------------------------
\* semaphore_post: only the post that makes the count leave 0 goes on to wake.
FetchAdd(t) == /\ pc[t] = "idle" /\ posts[t] > 0
               /\ count' = count + 1
               /\ posts' = [posts EXCEPT ![t] = @ - 1]
               /\ Goto(t, IF count = 0 THEN "check_waiting" ELSE "idle")
               /\ UNCHANGED <<waiting, seen, waits>>

CheckWaiting(t) == /\ pc[t] = "check_waiting"
                   /\ Goto(t, IF waiting # 0 THEN "futex_wake" ELSE "idle")
                   /\ UNCHANGED <<semVars, seen, budget>>

\* Mutant: wake one waiter only, as mutex_unlock does.
FutexWakeOne(t) ==
  /\ pc[t] = "futex_wake"
  /\ \/ (\A u \in Threads : pc[u] # "asleep") /\ Goto(t, "idle")
     \/ \E u \in Threads : /\ pc[u] = "asleep"
                           /\ pc' = [pc EXCEPT ![t] = "idle", ![u] = "deregister"]
  /\ UNCHANGED <<semVars, seen, budget>>

\* FUTEX_WAKE with a count of INT_MAX ends the sleep of every waiter.
FutexWake(t) ==
  /\ pc[t] = "futex_wake"
  /\ pc' = [u \in Threads |-> IF u = t THEN "idle"
                              ELSE IF pc[u] = "asleep" THEN "deregister" ELSE pc[u]]
  /\ UNCHANGED <<semVars, seen, budget>>
-----------------------------------------------------------------------------
Wait(t) == \/ LoadCount(t) \/ CasCount(t) \/ LoadWord(t) \/ Register(t)
           \/ FutexWait(t) \/ Deregister(t)
Post(t) == FetchAdd(t) \/ CheckWaiting(t) \/ FutexWake(t)

Next == \E t \in Threads : CallWait(t) \/ Wait(t) \/ SpuriousWakeup(t) \/ Post(t)

\* The scheduler runs every thread that can run, and a client makes all the
\* posts it announced.  Nobody is obliged to wait.
Fairness == \A t \in Threads : WF_vars(Wait(t)) /\ WF_vars(Post(t))

Spec     == Init /\ [][Next]_vars
FairSpec == Spec /\ Fairness
-----------------------------------------------------------------------------
Sleepers     == {t \in Threads : pc[t] = "asleep"}
Waiters      == {t \in Threads : pc[t] \in WaiterSteps}
WaitingCount == waiting = Cardinality(Waiters)

\* While a permit is available nobody sleeps, except between a post and the
\* FUTEX_WAKE it is going to make: later posts that see a count other than 0
\* return at once and rely on that one.
NoLostPermit ==
  Sleepers # {} /\ count > 0 => \E t \in Threads : pc[t] \in PostSteps

\* The inductive strengthening: waiting counts exactly the threads between
\* Register and Deregister, and the CAS that takes a permit expects one.
IInv == /\ TypeOK
        /\ WaitingCount
        /\ NoLostPermit
        /\ \A t \in Threads : pc[t] = "cas" => seen[t] # 0

S == INSTANCE AbstractSemaphore
       WITH permits <- count, inside <- {t \in Threads : pc[t] \in WaitSteps}

\* The semaphore implements the abstract one: semaphore_wait returns only with
\* a permit of its own, and every semaphore_post adds one.
ImplementsSemaphore == S!AbsSpec

\* No thread stays in semaphore_wait while permits are left: in the end all
\* are out of it, or the permits are used up.
EverybodyServed == <>[](\/ \A t \in Threads : pc[t] = "idle"
                        \/ /\ count = 0
                           /\ \A t \in Threads : pc[t] \in WaitSteps \cup {"idle"})
-----------------------------------------------------------------------------
(* The proofs: the futex semaphore implements the abstract one and never   *)
(* loses the wake-up of a permit, for any finite set of threads and any    *)
(* budgets.                                                                *)

USE DEF semVars, budget

LEMMA WaitersFinite == IsFiniteSet(Waiters) /\ Cardinality(Waiters) \in Nat
  BY SemThreadsAssumption, FS_Subset, FS_CardinalityType DEF Waiters

\* waiting is 0 only if no thread is between Register and Deregister.
LEMMA NobodyRegistered ==
  ASSUME WaitingCount, waiting = 0
  PROVE  Waiters = {} /\ Sleepers = {}
  <1>1. Waiters = {} BY WaitersFinite, FS_EmptySet DEF WaitingCount
  <1>2. QED BY <1>1 DEF Waiters, Sleepers, WaiterSteps

LEMMA InitIInv == Init => IInv
  <1> SUFFICES ASSUME Init PROVE IInv OBVIOUS
  <1>1. TypeOK BY SemBudgetAssumption DEF Init, TypeOK
  <1>2. Waiters = {} /\ Sleepers = {}
    BY DEF Init, Waiters, Sleepers, WaiterSteps
  <1>3. WaitingCount BY <1>2, FS_EmptySet DEF WaitingCount, Init
  <1>4. QED BY <1>1, <1>2, <1>3 DEF IInv, NoLostPermit, Init

LEMMA NextType == IInv /\ [Next]_vars => TypeOK'
  <1> SUFFICES ASSUME IInv, [Next]_vars PROVE TypeOK' OBVIOUS
  <1> USE DEF IInv, TypeOK, WaitSteps, WaiterSteps, PostSteps, Goto, See
  <1>1. ASSUME NEW t \in Threads, CallWait(t) \/ SpuriousWakeup(t) PROVE TypeOK'
    BY <1>1 DEF CallWait, SpuriousWakeup
  <1>2. ASSUME NEW t \in Threads, Wait(t) PROVE TypeOK'
    <2>1. CASE LoadCount(t) \/ LoadWord(t)
      BY <2>1 DEF LoadCount, LoadWord, Try, Inspect
    <2>2. CASE CasCount(t) BY <2>2 DEF CasCount, Try
    <2>3. CASE Register(t) BY <2>3 DEF Register, Inspect
    <2>4. CASE FutexWait(t) BY <2>4 DEF FutexWait
    <2>5. CASE Deregister(t)
      <3>1. waiting # 0 BY <2>5, NobodyRegistered DEF Deregister, Waiters
      <3>2. QED BY <2>5, <3>1 DEF Deregister
    <2>6. QED BY <1>2, <2>1, <2>2, <2>3, <2>4, <2>5 DEF Wait
  <1>3. ASSUME NEW t \in Threads, Post(t) PROVE TypeOK'
    BY <1>3 DEF Post, FetchAdd, CheckWaiting, FutexWake
  <1>4. CASE UNCHANGED vars BY <1>4 DEF vars
  <1>5. QED BY <1>1, <1>2, <1>3, <1>4 DEF Next

LEMMA NextWaitingCount == IInv /\ [Next]_vars => WaitingCount'
  <1> SUFFICES ASSUME IInv, [Next]_vars PROVE WaitingCount' OBVIOUS
  <1> USE DEF IInv, TypeOK, Waiters, WaiterSteps, Goto
  <1>0. ASSUME waiting' = waiting, Waiters' = Waiters PROVE WaitingCount'
    BY <1>0 DEF WaitingCount
  <1>1. ASSUME NEW t \in Threads, CallWait(t) \/ SpuriousWakeup(t)
        PROVE WaitingCount'
    BY <1>0, <1>1 DEF CallWait, SpuriousWakeup
  <1>2. ASSUME NEW t \in Threads, Wait(t) PROVE WaitingCount'
    <2>1. CASE LoadCount(t) \/ LoadWord(t)
      BY <1>0, <2>1 DEF LoadCount, LoadWord, Try, Inspect
    <2>2. CASE CasCount(t) BY <1>0, <2>2 DEF CasCount, Try
    <2>3. CASE Register(t)
      <3>1. CASE count = 0 /\ waiting = seen[t]
        <4>1. Waiters' = Waiters \cup {t} /\ t \notin Waiters
          BY <2>3, <3>1 DEF Register
        <4>2. waiting' = waiting + 1 BY <2>3, <3>1 DEF Register
        <4>3. QED BY <4>1, <4>2, WaitersFinite, FS_AddElement DEF WaitingCount
      <3>2. CASE ~(count = 0 /\ waiting = seen[t])
        BY <1>0, <2>3, <3>2 DEF Register, Inspect
      <3>3. QED BY <3>1, <3>2
    <2>4. CASE FutexWait(t) BY <1>0, <2>4 DEF FutexWait
    <2>5. CASE Deregister(t)
      <3>1. Waiters' = Waiters \ {t} /\ t \in Waiters BY <2>5 DEF Deregister
      <3>2. waiting' = waiting - 1 BY <2>5 DEF Deregister
      <3>3. QED BY <3>1, <3>2, WaitersFinite, FS_RemoveElement DEF WaitingCount
    <2>6. QED BY <1>2, <2>1, <2>2, <2>3, <2>4, <2>5 DEF Wait
  <1>3. ASSUME NEW t \in Threads, Post(t) PROVE WaitingCount'
    <2>1. CASE FetchAdd(t) BY <1>0, <2>1 DEF FetchAdd
    <2>2. CASE CheckWaiting(t) BY <1>0, <2>2 DEF CheckWaiting
    <2>3. CASE FutexWake(t) BY <1>0, <2>3 DEF FutexWake
    <2>4. QED BY <1>3, <2>1, <2>2, <2>3 DEF Post
  <1>4. CASE UNCHANGED vars BY <1>0, <1>4 DEF vars
  <1>5. QED BY <1>1, <1>2, <1>3, <1>4 DEF Next

\* A post that finds the count above 0 adds nothing to worry about: whoever
\* made it leave 0 is still going to wake.  CheckWaiting gives up only when
\* nobody is registered, and FutexWake leaves nobody asleep.
LEMMA NextNoLostPermit == IInv /\ [Next]_vars => NoLostPermit'
  <1> SUFFICES ASSUME IInv, [Next]_vars PROVE NoLostPermit' OBVIOUS
  <1> USE DEF IInv, TypeOK, NoLostPermit, Sleepers, PostSteps, Goto
  <1>1. ASSUME NEW t \in Threads, CallWait(t) \/ SpuriousWakeup(t)
        PROVE NoLostPermit'
    BY <1>1 DEF CallWait, SpuriousWakeup
  <1>2. ASSUME NEW t \in Threads, Wait(t) PROVE NoLostPermit'
    <2>1. CASE LoadCount(t) \/ LoadWord(t)
      BY <2>1 DEF LoadCount, LoadWord, Try, Inspect
    <2>2. CASE CasCount(t) BY <2>2 DEF CasCount, Try
    <2>3. CASE Register(t) BY <2>3 DEF Register, Inspect
    <2>4. CASE FutexWait(t) BY <2>4 DEF FutexWait
    <2>5. CASE Deregister(t) BY <2>5 DEF Deregister
    <2>6. QED BY <1>2, <2>1, <2>2, <2>3, <2>4, <2>5 DEF Wait
  <1>3. ASSUME NEW t \in Threads, Post(t) PROVE NoLostPermit'
    <2>1. CASE FetchAdd(t) BY <2>1 DEF FetchAdd
    <2>2. CASE CheckWaiting(t)
      <3>1. CASE waiting # 0 BY <2>2, <3>1 DEF CheckWaiting
      <3>2. CASE waiting = 0
        <4>1. Sleepers = {} BY <3>2, NobodyRegistered
        <4>2. Sleepers' = {} BY <2>2, <4>1 DEF CheckWaiting
        <4>3. QED BY <4>2
      <3>3. QED BY <3>1, <3>2
    <2>3. CASE FutexWake(t)
      <3>1. Sleepers' = {} BY <2>3 DEF FutexWake
      <3>2. QED BY <3>1
    <2>4. QED BY <1>3, <2>1, <2>2, <2>3 DEF Post
  <1>4. CASE UNCHANGED vars BY <1>4 DEF vars
  <1>5. QED BY <1>1, <1>2, <1>3, <1>4 DEF Next

LEMMA NextCas ==
  IInv /\ [Next]_vars => (\A t \in Threads : pc[t] = "cas" => seen[t] # 0)'
  <1> SUFFICES ASSUME IInv, [Next]_vars, NEW u \in Threads, pc'[u] = "cas"
               PROVE seen'[u] # 0
    OBVIOUS
  <1> USE DEF IInv, TypeOK, Goto, See
  <1>1. ASSUME NEW t \in Threads, CallWait(t) \/ SpuriousWakeup(t)
        PROVE seen'[u] # 0
    BY <1>1 DEF CallWait, SpuriousWakeup
  <1>2. ASSUME NEW t \in Threads, Wait(t) PROVE seen'[u] # 0
    BY <1>2 DEF Wait, LoadCount, CasCount, LoadWord, Register, FutexWait,
                Deregister, Try, Inspect
  <1>3. ASSUME NEW t \in Threads, Post(t) PROVE seen'[u] # 0
    BY <1>3 DEF Post, FetchAdd, CheckWaiting, FutexWake
  <1>4. CASE UNCHANGED vars BY <1>4 DEF vars
  <1>5. QED BY <1>1, <1>2, <1>3, <1>4 DEF Next

\* The invariant of every reachable state, from which the properties follow.
THEOREM Invariance == Spec => []IInv
  <1>1. IInv /\ [Next]_vars => IInv'
    BY NextType, NextWaitingCount, NextNoLostPermit, NextCas DEF IInv
  <1>2. QED BY InitIInv, <1>1, PTL DEF Spec

\* Every variable keeps to its type: neither the compare-exchange of
\* semaphore_wait takes count nor its fetch_sub takes waiting below zero.
THEOREM TypeCorrect == Spec => []TypeOK
  <1>1. IInv => TypeOK BY DEF IInv
  <1>2. QED BY Invariance, <1>1, PTL

\* While a permit is available no thread sleeps, unless a post is about to
\* wake every sleeper (the early return of semaphore_post loses no wake-up).
THEOREM PermitNotLost == Spec => []NoLostPermit
  <1>1. IInv => NoLostPermit BY DEF IInv
  <1>2. QED BY Invariance, <1>1, PTL
-----------------------------------------------------------------------------
Inside == {t \in Threads : pc[t] \in WaitSteps}

LEMMA StepRefines == IInv /\ [Next]_vars => [S!AbsNext]_(S!absVars)
  <1> SUFFICES ASSUME IInv, [Next]_vars PROVE [S!AbsNext]_(S!absVars) OBVIOUS
  <1> DEFINE Goal == [S!AbsNext]_(S!absVars)
  <1> USE DEF IInv, TypeOK, Inside, WaitSteps, WaiterSteps, PostSteps, Goto
  <1>0. ASSUME UNCHANGED <<count, Inside>> PROVE Goal
    BY <1>0 DEF S!absVars
  <1>1. ASSUME NEW t \in Threads, CallWait(t) PROVE Goal
    <2>1. t \notin Inside /\ Inside' = Inside \cup {t} /\ count' = count
      BY <1>1 DEF CallWait
    <2>2. S!Enter(t) BY <2>1 DEF S!Enter
    <2>3. QED BY <2>2 DEF S!AbsNext
  <1>2. ASSUME NEW t \in Threads, CasCount(t) PROVE Goal
    <2>1. CASE seen[t] = count
      <3>1. t \in Inside /\ Inside' = Inside \ {t} /\ count > 0 /\ count' = count - 1
        BY <1>2, <2>1 DEF CasCount
      <3>2. S!Take(t) BY <3>1 DEF S!Take
      <3>3. QED BY <3>2 DEF S!AbsNext
    <2>2. CASE seen[t] # count BY <1>0, <1>2, <2>2 DEF CasCount, Try
    <2>3. QED BY <2>1, <2>2
  <1>3. ASSUME NEW t \in Threads, FetchAdd(t) PROVE Goal
    <2>1. t \notin Inside /\ Inside' = Inside /\ count' = count + 1
      BY <1>3 DEF FetchAdd
    <2>2. S!Give(t) BY <2>1 DEF S!Give
    <2>3. QED BY <2>2 DEF S!AbsNext
  <1>4. ASSUME NEW t \in Threads,
               LoadCount(t) \/ LoadWord(t) \/ Register(t) PROVE Goal
    BY <1>0, <1>4 DEF LoadCount, LoadWord, Register, Try, Inspect
  <1>5. ASSUME NEW t \in Threads,
               FutexWait(t) \/ Deregister(t) \/ SpuriousWakeup(t) PROVE Goal
    BY <1>0, <1>5 DEF FutexWait, Deregister, SpuriousWakeup
  <1>6. ASSUME NEW t \in Threads, CheckWaiting(t) \/ FutexWake(t) PROVE Goal
    BY <1>0, <1>6 DEF CheckWaiting, FutexWake
  <1>7. CASE UNCHANGED vars BY <1>0, <1>7 DEF vars
  <1>8. QED
    BY <1>1, <1>2, <1>3, <1>4, <1>5, <1>6, <1>7 DEF Next, Wait, Post

\* semaphore_wait returns only with a permit of its own and semaphore_post adds
\* exactly one, whatever the interleaving.
THEOREM Refinement == Spec => ImplementsSemaphore
  <1>1. Init => S!AbsInit BY DEF Init, S!AbsInit, WaitSteps, WaiterSteps
  <1>2. QED
    BY <1>1, StepRefines, Invariance, PTL
    DEF Spec, ImplementsSemaphore, S!AbsSpec
=============================================================================
