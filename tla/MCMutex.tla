------------------------------- MODULE MCMutex -------------------------------
(* Three threads.  Every thread takes the mutex again, one of them twice, so *)
(* that a round starts while the others are anywhere in theirs.              *)
EXTENDS Mutex

MCRounds == [t \in Threads |-> IF t = 1 THEN 3 ELSE 2]
=============================================================================
