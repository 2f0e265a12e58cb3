----------------------------- MODULE QueuedLock -----------------------------
(***************************************************************************)
(* The queued spin lock of staging/spinlock.h, used by threads that nest   *)
(* several of them around counter++ as thread_main of staging/locktest.c   *)
(* does.  A lock is the tail of a queue of nodes, which are thread-local;  *)
(* each waiter spins on its own node until its predecessor hands the lock  *)
(* over.                                                                   *)
(*                                                                         *)
(* One action is one access to shared memory, which is that of             *)
(* StoreBuffers.                                                           *)
(***************************************************************************)
EXTENDS StoreBuffers

CONSTANTS Threads,   \* the threads that share the locks
          Order,     \* the locks each thread nests, outermost first
          MaxNested, \* MAX_NESTED_QSPINLOCKS, the nodes of a thread
          Rounds,    \* how often each thread takes them all
          NoNode, NoLock, Nobody  \* NULL for nodes and locks, a free lock's holder

Locks    == {Order[i] : i \in 1..Len(Order)}
Nodes    == Threads \X (1..MaxNested)
Counter  == <<"counter">>
TailOf(l)   == <<"tail", l>>
NextOf(n)   == <<"next", n>>
LockedOf(n) == <<"locked", n>>

VARIABLES
  pc,     \* the next step of each thread
  depth,  \* how many locks of Order each thread has taken and not handed on
  lock,   \* the thread-local field `lock` of every node
  node,   \* the node each thread's current operation works on
  other,  \* its predecessor while it locks, its successor while it unlocks
  reg,    \* each thread's register of counter++
  left    \* rounds each thread still has to run

vars == <<mem, buf, pc, depth, lock, node, other, reg, left>>

LockSteps   == {"exchange", "set_locked", "link", "spin"}
UnlockSteps == {"load_next", "cas_tail", "wait_next", "hand_over", "clear_next"}
Steps       == {"idle", "read", "write"} \cup LockSteps \cup UnlockSteps

TypeOK == /\ \A l \in Locks : mem[TailOf(l)] \in Nodes \cup {NoNode}
          /\ \A n \in Nodes : /\ mem[NextOf(n)] \in Nodes \cup {NoNode}
                              /\ mem[LockedOf(n)] \in BOOLEAN
          /\ mem[Counter] \in Nat
          /\ \A t \in Threads : \A i \in 1..Len(buf[t]) : buf[t][i][1] \in DOMAIN mem
          /\ pc \in [Threads -> Steps]
          /\ depth \in [Threads -> 0..Len(Order)]
          /\ lock \in [Nodes -> Locks \cup {NoLock}]
          /\ node \in [Threads -> Nodes \cup {NoNode}]
          /\ other \in [Threads -> Nodes \cup {NoNode}]
          /\ reg \in [Threads -> Nat]
          /\ left \in [Threads -> Nat]

\* qspinlock_init, and thread-local nodes that are zero.
InitialMemory ==
  [loc \in {TailOf(l) : l \in Locks} \cup {NextOf(n) : n \in Nodes}
             \cup {LockedOf(n) : n \in Nodes} \cup {Counter} |->
     IF loc = Counter THEN 0
     ELSE IF loc \in {LockedOf(n) : n \in Nodes} THEN FALSE ELSE NoNode]

Init == /\ mem = InitialMemory
        /\ buf = [t \in Threads |-> <<>>]
        /\ pc = [t \in Threads |-> "idle"]
        /\ depth = [t \in Threads |-> 0]
        /\ lock = [n \in Nodes |-> NoLock]
        /\ node = [t \in Threads |-> NoNode]
        /\ other = [t \in Threads |-> NoNode]
        /\ reg = [t \in Threads |-> 0]
        /\ left = Rounds
-----------------------------------------------------------------------------
Goto(t, step) == pc' = [pc EXCEPT ![t] = step]

Flush(t) == /\ FlushBuffer(t)
            /\ UNCHANGED <<pc, depth, lock, node, other, reg, left>>
-----------------------------------------------------------------------------
Begin(t) == /\ pc[t] = "idle" /\ left[t] > 0
            /\ Goto(t, "exchange")
            /\ UNCHANGED <<mem, buf, depth, lock, node, other, reg, left>>

\* _qspinlock_alloc_node: there is a free node, as locks nest MaxNested deep at most.
AllocNode(t) == <<t, Min({i \in 1..MaxNested : lock[<<t, i>>] = NoLock})>>

\* The lock is taken: note it in the node and go on to the next lock or the counter.
Acquired(t, n) ==
  /\ lock' = [lock EXCEPT ![n] = Order[depth[t] + 1]]
  /\ depth' = [depth EXCEPT ![t] = @ + 1]
  /\ node' = [node EXCEPT ![t] = NoNode]
  /\ Goto(t, IF depth[t] + 1 = Len(Order) THEN "read" ELSE "exchange")

\* qspinlock_lock: swap the tail for an own node ...
Exchange(t) ==
  LET tail == TailOf(Order[depth[t] + 1])
  IN  /\ pc[t] = "exchange"
      /\ LockedStore(t, tail, AllocNode(t))
      /\ \/ /\ mem[tail] = NoNode
            /\ Acquired(t, AllocNode(t))
            /\ UNCHANGED other
         \/ /\ mem[tail] # NoNode
            /\ node' = [node EXCEPT ![t] = AllocNode(t)]
            /\ other' = [other EXCEPT ![t] = mem[tail]]
            /\ Goto(t, "set_locked")
            /\ UNCHANGED <<depth, lock>>
      /\ UNCHANGED <<reg, left>>

\* Mutant: link without having marked the own node as locked.
SkipSetLocked(t) == /\ pc[t] = "set_locked"
                    /\ Goto(t, "link")
                    /\ UNCHANGED <<mem, buf, depth, lock, node, other, reg, left>>

\* ... mark the node as locked, link it behind its predecessor ...
SetLocked(t) == /\ pc[t] = "set_locked"
                /\ Store(t, LockedOf(node[t]), TRUE)
                /\ Goto(t, "link")
                /\ UNCHANGED <<depth, lock, node, other, reg, left>>

Link(t) == /\ pc[t] = "link"
           /\ Store(t, NextOf(other[t]), node[t])
           /\ other' = [other EXCEPT ![t] = NoNode]
           /\ Goto(t, "spin")
           /\ UNCHANGED <<depth, lock, node, reg, left>>

\* ... and spin until the predecessor unlocks it.
Spin(t) == /\ pc[t] = "spin"
           /\ ~Load(t, LockedOf(node[t]))
           /\ Acquired(t, node[t])
           /\ UNCHANGED <<mem, buf, other, reg, left>>
-----------------------------------------------------------------------------
ReadCounter(t) == /\ pc[t] = "read"
                  /\ reg' = [reg EXCEPT ![t] = Load(t, Counter)]
                  /\ Goto(t, "write")
                  /\ UNCHANGED <<mem, buf, depth, lock, node, other, left>>

WriteCounter(t) == /\ pc[t] = "write"
                   /\ Store(t, Counter, reg[t] + 1)
                   /\ reg' = [reg EXCEPT ![t] = 0]
                   /\ Goto(t, "load_next")
                   /\ UNCHANGED <<depth, lock, node, other, left>>

\* qspinlock_unlock of the innermost lock: find and free its node, and look for
\* a successor.
LoadNext(t) ==
  LET n == CHOOSE m \in {t} \X (1..MaxNested) : lock[m] = Order[depth[t]]
  IN  /\ pc[t] = "load_next"
      /\ lock' = [lock EXCEPT ![n] = NoLock]
      /\ node' = [node EXCEPT ![t] = n]
      /\ other' = [other EXCEPT ![t] = Load(t, NextOf(n))]
      /\ Goto(t, IF Load(t, NextOf(n)) = NoNode THEN "cas_tail" ELSE "hand_over")
      /\ UNCHANGED <<mem, buf, depth, reg, left>>

\* The unlock returns: to the client, which unlocks the next outer lock or ends
\* the round.
Return(t, d) == /\ node' = [node EXCEPT ![t] = NoNode]
                /\ Goto(t, IF d = 0 THEN "idle" ELSE "load_next")
                /\ left' = IF d = 0 THEN [left EXCEPT ![t] = @ - 1] ELSE left

\* Nobody in the queue: swing the tail back to NULL, unless somebody came.
CasTail(t) ==
  LET tail == TailOf(Order[depth[t]])
  IN  /\ pc[t] = "cas_tail"
      /\ Drained(t)
      /\ \/ /\ mem[tail] = node[t]
            /\ mem' = [mem EXCEPT ![tail] = NoNode]
            /\ depth' = [depth EXCEPT ![t] = @ - 1]
            /\ Return(t, depth[t] - 1)
         \/ /\ mem[tail] # node[t]
            /\ Goto(t, "wait_next")
            /\ UNCHANGED <<mem, depth, node, left>>
      /\ UNCHANGED <<buf, lock, other, reg>>

\* Mutant: look for the successor once.
LookOnce(t) == /\ pc[t] = "wait_next"
               /\ other' = [other EXCEPT ![t] = Load(t, NextOf(node[t]))]
               /\ Goto(t, "hand_over")
               /\ UNCHANGED <<mem, buf, depth, lock, node, reg, left>>

\* Wait until that one has linked itself.
WaitNext(t) == /\ pc[t] = "wait_next"
               /\ Load(t, NextOf(node[t])) # NoNode
               /\ other' = [other EXCEPT ![t] = Load(t, NextOf(node[t]))]
               /\ Goto(t, "hand_over")
               /\ UNCHANGED <<mem, buf, depth, lock, node, reg, left>>

HandOver(t) == /\ pc[t] = "hand_over"
               /\ Store(t, LockedOf(other[t]), FALSE)
               /\ depth' = [depth EXCEPT ![t] = @ - 1]
               /\ other' = [other EXCEPT ![t] = NoNode]
               /\ Goto(t, "clear_next")
               /\ UNCHANGED <<lock, node, reg, left>>

\* Mutant: leave the successor in the node.
KeepNext(t) == /\ pc[t] = "clear_next"
               /\ Return(t, depth[t])
               /\ UNCHANGED <<mem, buf, depth, lock, other, reg>>

ClearNext(t) == /\ pc[t] = "clear_next"
                /\ Store(t, NextOf(node[t]), NoNode)
                /\ Return(t, depth[t])
                /\ UNCHANGED <<depth, lock, other, reg>>
-----------------------------------------------------------------------------
Lock(t)   == Begin(t) \/ Exchange(t) \/ SetLocked(t) \/ Link(t) \/ Spin(t)
Unlock(t) == \/ LoadNext(t) \/ CasTail(t) \/ WaitNext(t)
             \/ HandOver(t) \/ ClearNext(t)
Run(t)    == Lock(t) \/ ReadCounter(t) \/ WriteCounter(t) \/ Unlock(t)

\* The thread has run all its rounds.
Finished(t) == pc[t] = "idle" /\ left[t] = 0 /\ Drained(t)
-----------------------------------------------------------------------------
\* A node that is not in use is in no queue: no tail and no pending store names
\* it, and its own thread sees it without a successor.  (Its thread frees it
\* before it has handed the lock over and may take it again right after.)
InUse(n) == lock[n] # NoLock \/ \E t \in Threads : node[t] = n
FreeNodesUnlinked ==
  \A n \in Nodes : ~InUse(n) =>
    /\ \A l \in Locks : mem[TailOf(l)] # n
    /\ \A t \in Threads \ {n[1]} : Pending(t, NextOf(n)) \cup Pending(t, LockedOf(n)) = {}
    /\ Load(n[1], NextOf(n)) = NoNode

\* A thread owns a lock until it has swung the tail back or until its store to
\* the successor's node has reached memory.
HandingOver(t, l) ==
  \E i \in 1..Len(buf[t]) : \E u \in Threads :
    /\ depth[u] < Len(Order) /\ Order[depth[u] + 1] = l
    /\ buf[t][i] = <<LockedOf(node[u]), FALSE>>
Holds(t, l) == (\E i \in 1..depth[t] : Order[i] = l) \/ HandingOver(t, l)
Owner(l)    == IF \E t \in Threads : Holds(t, l)
               THEN CHOOSE t \in Threads : Holds(t, l) ELSE Nobody
Visible     == IF \E t \in Threads : Pending(t, Counter) # {}
               THEN Load(CHOOSE t \in Threads : Pending(t, Counter) # {}, Counter)
               ELSE mem[Counter]
=============================================================================
