---------------------------- MODULE HandleTable ----------------------------
(***************************************************************************)
(* The table of pending asynchronous operations of the Wendoo VM           *)
(* (core/runtime/handle-table.h).  A dispatch carves a Pending handle, the *)
(* operation settles it once, the settled handle waits on the completed    *)
(* queue, and the scheduler's drain resumes the waiting fibers and frees   *)
(* the slot.                                                               *)
(*                                                                         *)
(* Handle ids are never reused by the code; here a freed slot is reused    *)
(* and every stale reference to it is forgotten by the module that holds   *)
(* it.  The set Handles stands for the slots the arena can back.           *)
(***************************************************************************)
EXTENDS Naturals, Sequences, FiniteSets

CONSTANTS
    Handles,            \* the handle slots the arena can back
    Fibers,             \* the fiber slots the arena and maxFibers can back
    MaxHandles,         \* DeviceProfileCaps::maxHandles
    WaiterPoolMayFail   \* TRUE: the arena may fail to back a waiter node

ASSUME HandlesAssumption == IsFiniteSet(Handles)
ASSUME MaxHandlesAssumption == MaxHandles \in Nat
ASSUME WaiterPoolAssumption == WaiterPoolMayFail \in BOOLEAN

VARIABLES
    hstate,       \* lifecycle state of every slot, "Free" when not carved
    hresult,      \* the resolved value, as far as a WHEN gate tells values apart
    hcapped,      \* whether the handle counts against MaxHandles
    waiters,      \* per handle, the waiting fibers in FIFO order
    completed,    \* the settled handles the next drain will pop
    cappedCount   \* the running count of live capped handles

handleVars == <<hstate, hresult, hcapped, waiters, completed, cappedCount>>

Settled == {"Resolved", "Rejected", "Cancelled"}
HandleState == {"Free", "Pending"} \cup Settled
Values == {"true", "false", "any"}     \* "any": either, left open

LiveHandles == {h \in Handles : hstate[h] # "Free"}
CappedHandles == {h \in LiveHandles : hcapped[h]}

InSeq(x, s) == \E i \in 1..Len(s) : s[i] = x

Distinct(s) == \A i, j \in 1..Len(s) : s[i] = s[j] => i = j

(* The sequence s without its first x.                                     *)
Without(s, x) ==
    IF InSeq(x, s)
    THEN LET k == CHOOSE i \in 1..Len(s) :
                      s[i] = x /\ \A j \in 1..(i - 1) : s[j] # x
         IN  [i \in 1..(Len(s) - 1) |-> IF i < k THEN s[i] ELSE s[i + 1]]
    ELSE s

HasCapacity == cappedCount < MaxHandles

(* A slot the pool can carve, when there is one.                           *)
FreshHandle == CHOOSE h \in Handles : hstate[h] = "Free"
CanCreate(capped) == (capped => HasCapacity) /\ \E h \in Handles : hstate[h] = "Free"

HandleTableInit ==
    /\ hstate = [h \in Handles |-> "Free"]
    /\ hresult = [h \in Handles |-> "any"]
    /\ hcapped = [h \in Handles |-> FALSE]
    /\ waiters = [h \in Handles |-> << >>]
    /\ completed = << >>
    /\ cappedCount = 0

-----------------------------------------------------------------------------
(* createPending, on the path that returns an id.                          *)
CreatePending(h, capped) ==
    /\ hstate[h] = "Free"
    /\ capped => HasCapacity
    /\ hstate' = [hstate EXCEPT ![h] = "Pending"]
    /\ hresult' = [hresult EXCEPT ![h] = "any"]
    /\ hcapped' = [hcapped EXCEPT ![h] = capped]
    /\ waiters' = [waiters EXCEPT ![h] = << >>]
    /\ cappedCount' = IF capped THEN cappedCount + 1 ELSE cappedCount
    /\ UNCHANGED completed

(* Mutant of Settle: a late or repeated report overwrites the outcome.     *)
SettleAgain(h, outcome, value) ==
    \/ /\ hstate[h] # "Free"
       /\ hstate' = [hstate EXCEPT ![h] = outcome]
       /\ hresult' = [hresult EXCEPT ![h] = value]
       /\ completed' = IF hstate[h] = "Pending" THEN Append(completed, h) ELSE completed
       /\ UNCHANGED <<hcapped, waiters, cappedCount>>
    \/ hstate[h] = "Free" /\ UNCHANGED handleVars

(* resolve, reject and cancel: a no-op on a handle that is not Pending.    *)
Settle(h, outcome, value) ==
    \/ /\ hstate[h] = "Pending"
       /\ hstate' = [hstate EXCEPT ![h] = outcome]
       /\ hresult' = [hresult EXCEPT ![h] = value]
       /\ completed' = Append(completed, h)
       /\ UNCHANGED <<hcapped, waiters, cappedCount>>
    \/ /\ hstate[h] # "Pending"
       /\ UNCHANGED handleVars

(* addWaiter: a no-op when no handle holds the id, and also when the arena *)
(* cannot back the node.                                                   *)
AddWaiter(h, f) ==
    \/ /\ hstate[h] # "Free"
       /\ waiters' = [waiters EXCEPT ![h] = Append(@, f)]
       /\ UNCHANGED <<hstate, hresult, hcapped, completed, cappedCount>>
    \/ /\ hstate[h] = "Free" \/ WaiterPoolMayFail
       /\ UNCHANGED handleVars

RemoveWaiter(h, f) ==
    /\ waiters' = [waiters EXCEPT ![h] = Without(@, f)]
    /\ UNCHANGED <<hstate, hresult, hcapped, completed, cappedCount>>

(* Mutant of DeleteHandle: an uncapped handle gives back a capped slot.    *)
DeleteHandleMiscounts(h) ==
    /\ hstate[h] # "Free"
    /\ hstate' = [hstate EXCEPT ![h] = "Free"]
    /\ hresult' = [hresult EXCEPT ![h] = "any"]
    /\ hcapped' = [hcapped EXCEPT ![h] = FALSE]
    /\ waiters' = [waiters EXCEPT ![h] = << >>]
    /\ cappedCount' = IF cappedCount > 0 THEN cappedCount - 1 ELSE 0

(* deleteHandle frees the slot and its waiter nodes; it does not look at   *)
(* the completed queue.                                                    *)
DeleteHandle(h) ==
    /\ hstate[h] # "Free"
    /\ hstate' = [hstate EXCEPT ![h] = "Free"]
    /\ hresult' = [hresult EXCEPT ![h] = "any"]
    /\ hcapped' = [hcapped EXCEPT ![h] = FALSE]
    /\ waiters' = [waiters EXCEPT ![h] = << >>]
    /\ cappedCount' = IF hcapped[h] THEN cappedCount - 1 ELSE cappedCount

(* Mutant of Rollback: the failing dispatch leaves its handle behind.      *)
RollbackLeaks(h) == hstate[h] = "Pending" /\ UNCHANGED handleVars

(* The rollback of a dispatch whose body failed: its handle never settled. *)
Rollback(h) ==
    /\ hstate[h] = "Pending"
    /\ DeleteHandle(h)
    /\ UNCHANGED completed

(* One waiter of the handle at the head of the completed queue is visited. *)
VisitWaiter ==
    /\ completed # << >>
    /\ waiters[Head(completed)] # << >>
    /\ waiters' = [waiters EXCEPT ![Head(completed)] = Tail(@)]
    /\ UNCHANGED <<hstate, hresult, hcapped, completed, cappedCount>>

(* popCompleted and deleteHandle, once every waiter has been visited.  The *)
(* code pops before it visits; nothing reads the queue in between.         *)
Reclaim ==
    /\ completed # << >>
    /\ waiters[Head(completed)] = << >>
    /\ completed' = Tail(completed)
    /\ DeleteHandle(Head(completed))

(* clear drops every handle and empties the completed queue.               *)
Clear ==
    /\ hstate' = [h \in Handles |-> "Free"]
    /\ hresult' = [h \in Handles |-> "any"]
    /\ hcapped' = [h \in Handles |-> FALSE]
    /\ waiters' = [h \in Handles |-> << >>]
    /\ completed' = << >>
    /\ cappedCount' = 0

-----------------------------------------------------------------------------
(* The table under any client that deletes a settled handle only through   *)
(* the drain.                                                              *)
HandleTableNext ==
    \/ \E h \in Handles, capped \in BOOLEAN : CreatePending(h, capped)
    \/ \E h \in Handles, outcome \in Settled, value \in Values : Settle(h, outcome, value)
    \/ \E h \in Handles, f \in Fibers : AddWaiter(h, f)
    \/ \E h \in Handles, f \in Fibers : RemoveWaiter(h, f)
    \/ \E h \in Handles : Rollback(h)
    \/ VisitWaiter
    \/ Reclaim
    \/ Clear

HandleTableSpec == HandleTableInit /\ [][HandleTableNext]_handleVars

-----------------------------------------------------------------------------
HandleTypeOK ==
    /\ hstate \in [Handles -> HandleState]
    /\ hresult \in [Handles -> Values]
    /\ hcapped \in [Handles -> BOOLEAN]
    /\ waiters \in [Handles -> Seq(Fibers)]
    /\ completed \in Seq(Handles)
    /\ cappedCount \in Nat

(* The completed queue holds exactly the settled handles, each once: a     *)
(* settled handle is never forgotten and never drained twice, however late *)
(* or often its operation reports (resolve, reject, cancel, popCompleted). *)
CompletedSound ==
    /\ \A h \in Handles : InSeq(h, completed) <=> hstate[h] \in Settled
    /\ Distinct(completed)

(* A freed slot owns nothing.                                              *)
FreeSlotsEmpty ==
    \A h \in Handles : hstate[h] = "Free" => waiters[h] = << >> /\ ~hcapped[h]

(* The running count agrees with the live capped handles on every path     *)
(* (create, rollback, drain, clear) and never crosses maxHandles, so the   *)
(* backpressure check of the dispatches reads the truth.                   *)
CappedAccounting ==
    /\ cappedCount = Cardinality(CappedHandles)
    /\ cappedCount <= MaxHandles

(* A settled handle keeps its outcome until it is freed (the Pending test  *)
(* of resolve, reject and cancel).                                         *)
SettleOnce ==
    [][\A h \in Handles :
          hstate[h] \in Settled => hstate'[h] \in {hstate[h], "Free"}]_handleVars
=============================================================================
