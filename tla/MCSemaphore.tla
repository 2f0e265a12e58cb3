----------------------------- MODULE MCSemaphore -----------------------------
(* Three waiters, one of which waits twice, and two threads that post; one  *)
(* of these also waits.                                                     *)
EXTENDS Semaphore

MCWaits == [t \in Threads |-> IF t = 1 THEN 2 ELSE IF t = 4 THEN 0 ELSE 1]
MCPosts == [t \in Threads |-> IF t \in {3, 4} THEN 2 ELSE 0]
=============================================================================
