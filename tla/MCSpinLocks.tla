----------------------------- MODULE MCSpinLocks -----------------------------
(* Three threads of two rounds each.  Two of them also call try_lock on the  *)
(* ticket lock, one twice, so that a try meets a free lock, a taken one and  *)
(* one in a queue; two queued locks are nested, as in locktest.c, so that    *)
(* threads reuse their nodes while others are in the queues.                 *)
EXTENDS SpinLocks

MCRounds == [t \in Threads |-> 2]
MCTries  == [t \in Threads |-> CASE t = 1 -> 2 [] t = 2 -> 1 [] OTHER -> 0]
MCOrder  == <<"spinlock", "spinlock2">>
=============================================================================
