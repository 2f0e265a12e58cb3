---------------------------- MODULE AbstractLock ----------------------------
(***************************************************************************)
(* What a lock promises to the threads that use it: one thread at a time   *)
(* holds it, only the holder updates the data it protects, and no update   *)
(* is lost.  The data is a counter, as in staging/locktest.c.              *)
(***************************************************************************)
EXTENDS Naturals

CONSTANTS Threads,  \* the threads that share the lock
          Nobody    \* stands for "no holder"

VARIABLES holder,   \* the thread inside the critical section, or Nobody
          total     \* the protected counter

absVars == <<holder, total>>

AbsInit == holder = Nobody /\ total = 0

Acquire(t) == /\ holder = Nobody
              /\ holder' = t
              /\ UNCHANGED total

Update(t) == /\ holder = t
             /\ total' = total + 1
             /\ UNCHANGED holder

Release(t) == /\ holder = t
              /\ holder' = Nobody
              /\ UNCHANGED total

AbsNext == \E t \in Threads : Acquire(t) \/ Update(t) \/ Release(t)

AbsSpec == AbsInit /\ [][AbsNext]_absVars
=============================================================================
