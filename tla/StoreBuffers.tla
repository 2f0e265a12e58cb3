---------------------------- MODULE StoreBuffers ----------------------------
(***************************************************************************)
(* Shared memory of an x86 processor (TSO): every thread has a FIFO buffer *)
(* of its plain stores, sees them itself, and waits for it to drain before *)
(* a locked instruction.  Locations are tuples; what they are is up to the *)
(* module that extends this one.                                           *)
(***************************************************************************)
EXTENDS Integers, FiniteSets, FiniteSetsExt, Sequences, TLC

VARIABLES mem,  \* the shared memory, by location
          buf   \* each thread's store buffer, a sequence of <<location, value>>

\* What a load by a thread returns: its own latest pending store, or memory.
Pending(t, loc) == {i \in 1..Len(buf[t]) : buf[t][i][1] = loc}
Load(t, loc) == IF Pending(t, loc) = {} THEN mem[loc]
                ELSE buf[t][Max(Pending(t, loc))][2]

Store(t, loc, x) == /\ buf' = [buf EXCEPT ![t] = Append(@, <<loc, x>>)]
                    /\ UNCHANGED mem

\* A locked instruction that writes x.
Drained(t)            == buf[t] = <<>>
LockedStore(t, loc, x) == /\ Drained(t)
                          /\ mem' = [mem EXCEPT ![loc] = x]
                          /\ UNCHANGED buf

\* The processor writes the oldest store of a buffer to memory.
FlushBuffer(t) == /\ buf[t] # <<>>
                  /\ mem' = [mem EXCEPT ![Head(buf[t])[1]] = Head(buf[t])[2]]
                  /\ buf' = [buf EXCEPT ![t] = Tail(@)]
=============================================================================
