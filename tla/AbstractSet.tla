----------------------------- MODULE AbstractSet -----------------------------
(***************************************************************************)
(* What a container promises: an insertion adds exactly the new key, a     *)
(* removal takes out exactly that key, clearing empties it, nothing else   *)
(* (a resize, a rotation, a lookup) changes what it holds, and it knows    *)
(* how many keys that are.  A step of the set does not say which call made *)
(* it; where a property is about the key of a call, it says so with        *)
(* AbsInsert and AbsRemove.                                                *)
(***************************************************************************)
EXTENDS Integers

CONSTANT Keys

VARIABLES members, size

AbsInit == members = {} /\ size = 0

AbsInsert(k) == size' = size + 1 /\ k \notin members /\ members' = members \cup {k}
AbsRemove(k) == size' = size - 1 /\ k \in members /\ members' = members \ {k}
AbsClear     == size' = 0 /\ members' = {}

\* One key comes in, one goes out, or all do.
AbsNext == \/ \E k \in Keys \cap (members' \ members) : AbsInsert(k)
           \/ \E k \in members \ members' : AbsRemove(k)
           \/ AbsClear

AbsSpec == AbsInit /\ [][AbsNext]_<<members, size>>
=============================================================================
