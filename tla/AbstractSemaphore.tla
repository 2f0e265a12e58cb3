-------------------------- MODULE AbstractSemaphore --------------------------
(***************************************************************************)
(* What a counting semaphore promises: a thread leaves wait only by taking *)
(* a permit, every post adds one, and no permit is taken twice or lost.    *)
(***************************************************************************)
EXTENDS Naturals

CONSTANTS Threads,  \* the threads that share the semaphore
          Initial   \* the permits it starts with

VARIABLES permits,  \* how many permits are left
          inside    \* the threads inside wait

absVars == <<permits, inside>>

AbsInit == permits = Initial /\ inside = {}

Enter(t) == /\ t \notin inside
            /\ inside' = inside \cup {t}
            /\ UNCHANGED permits

Take(t) == /\ t \in inside /\ permits > 0
           /\ permits' = permits - 1
           /\ inside' = inside \ {t}

Give(t) == /\ t \notin inside
           /\ permits' = permits + 1
           /\ UNCHANGED inside

AbsNext == \E t \in Threads : Enter(t) \/ Take(t) \/ Give(t)

AbsSpec == AbsInit /\ [][AbsNext]_absVars
=============================================================================
