---------------------------- MODULE MCHandleTable ----------------------------
(***************************************************************************)
(* The handle table under an arbitrary client: operations report late and  *)
(* more than once, waiters come and go while a handle is drained, and the  *)
(* table may be cleared at any time.                                       *)
(***************************************************************************)
EXTENDS HandleTable, TLC

CONSTANT MaxWaiters     \* bound on the length of every waiter list

ASSUME MaxWaitersAssumption == MaxWaiters \in Nat

MCNext ==
    /\ HandleTableNext
    /\ \A h \in Handles : Len(waiters'[h]) <= MaxWaiters

MCTableSpec == HandleTableInit /\ [][MCNext]_handleVars

Slots == Permutations(Handles) \cup Permutations(Fibers)
=============================================================================
