-------------------------- MODULE SchedulerProofs --------------------------
(***************************************************************************)
(* What the scheduler promises the fibers, for every page table, rule      *)
(* tree, program, number of fibers and number of handles.                  *)
(*                                                                         *)
(* None of the properties is inductive.  Each part states the invariant it *)
(* needs, one lemma per step or group of steps, and then its theorem:      *)
(*   WakeInv     no wakeup is lost and none is spurious;                   *)
(*   PlaceInv    a runnable fiber is in exactly one place;                 *)
(*   FiringInv   one page, and one firing of each of its rules;            *)
(*   PromiseInv  every pending handle will be settled, by one party;       *)
(*   SlotInv     a rule that is over finds a slot for its next firing;     *)
(*   OwedInv     a round serves every fiber that was queued;               *)
(*   HarmInv     a trigger answers true only of a firing that ended well.  *)
(* The first assumes that the arena backs every waiter node: addWaiter     *)
(* parks a fiber whose node it could not allocate, and nothing ever        *)
(* resumes that one.                                                       *)
(***************************************************************************)
EXTENDS BrainRuntimeProofs, RunHistory

-----------------------------------------------------------------------------
(* No wakeup is lost.  NoLostWakeup is not inductive: a fiber listed twice *)
(* would be resumed and still listed, so no waiter list may repeat a       *)
(* fiber; and a dispatch whose body fails deletes its handle, so that      *)
(* handle must have no waiters while the body runs.  That every handle     *)
(* waited for is live then follows from the table's own invariant: a freed *)
(* slot has no waiters.                                                    *)
Waits(f, h) == fiber[f].state = "Waiting" /\ fiber[f].await = h

(* The waiter lists name exactly the fibers that wait, each once.          *)
WaitersExact ==
    /\ \A f \in Fibers : fiber[f].state = "Waiting" => fiber[f].await \in Handles
    /\ \A h \in Handles, f \in Fibers : InSeq(f, waiters[h]) <=> Waits(f, h)
    /\ \A h \in Handles : Distinct(waiters[h])

(* The handle a body was just given has no waiters.                        *)
DispatchUnheard == pc \in {"body", "sensor"} => waiters[fiber[running].held] = << >>

WakeInv == pc # "down" => WaitersExact /\ DispatchUnheard

(* No fiber parks, resumes or changes what it waits for.                   *)
SameWaits ==
    \A f \in Fibers :
        /\ fiber'[f].state = "Waiting" <=> fiber[f].state = "Waiting"
        /\ fiber[f].state = "Waiting" => fiber'[f].await = fiber[f].await
Undisturbed == SameWaits /\ UNCHANGED waiters

LEMMA UndisturbedExact ==
    WaitersExact /\ Undisturbed => WaitersExact'
BY DEF WaitersExact, Undisturbed, SameWaits, Waits, InSeq, Distinct

-----------------------------------------------------------------------------
(* The operations of the table that leave every waiter list as it is: a    *)
(* slot that is carved, or freed without waiters, had none to lose.        *)
LEMMA CreateKeepsWaiters ==
    ASSUME TableInv, NEW h \in Handles, NEW capped, CreatePending(h, capped)
    PROVE  UNCHANGED waiters
BY DEF CreatePending, TableInv, HandleTypeOK, FreeSlotsEmpty

LEMMA DeleteKeepsWaiters ==
    ASSUME TableInv, NEW h \in Handles, DeleteHandle(h), waiters[h] = << >>
    PROVE  UNCHANGED waiters
BY DEF DeleteHandle, TableInv, HandleTypeOK

LEMMA SettleKeepsWaiters ==
    ASSUME NEW h, NEW outcome, NEW value, Settle(h, outcome, value)
    PROVE  UNCHANGED waiters
BY DEF Settle, handleVars

(* Replacing a record by one that does not wait, where none waited.        *)
LEMMA RecordWaits ==
    ASSUME FiberInv, NEW f \in Fibers, fiber[f].state # "Waiting",
           NEW record, record.state # "Waiting",
           fiber' = [fiber EXCEPT ![f] = record]
    PROVE  SameWaits
BY DEF FiberInv, SameWaits

LEMMA FinishSliceWaits ==
    ASSUME FiberInv, NEW f \in Fibers, fiber[f].state = "Runnable",
           NEW terminal \in Terminal, FinishSlice(f, terminal)
    PROVE  SameWaits
BY DEF FinishSlice, FiberInv, SoundRecord, FiberRecord, SameWaits, Terminal

LEMMA YieldSliceWaits ==
    ASSUME FiberInv, NEW f \in Fibers, fiber[f].state = "Runnable",
           NEW record, record.state = "Runnable", YieldSlice(f, record)
    PROVE  SameWaits
BY RecordWaits DEF YieldSlice

-----------------------------------------------------------------------------
(* What a step that parks and resumes nobody leaves behind.                *)
Unheard == Undisturbed /\ DispatchUnheard'

LEMMA BackpressureWaits ==
    ASSUME RuntimeInv, NEW f \in Fibers, fiber[f].state = "Runnable", Backpressure(f)
    PROVE  Unheard
<1>1. SameWaits
  <2>1. CASE fiber[f].rounds + 1 >= FaultRounds
    BY <2>1, FinishSliceWaits DEF Backpressure, RuntimeInv, Terminal
  <2>2. CASE ~(fiber[f].rounds + 1 >= FaultRounds)
    <3> DEFINE record == [fiber[f] EXCEPT !.rounds = @ + 1]
    <3>1. record.state = "Runnable"
      BY RunnableFiber DEF RuntimeInv, FiberRecord
    <3> HIDE DEF record
    <3>2. YieldSlice(f, record)
      BY <2>2 DEF Backpressure, record
    <3> QED
      BY <3>1, <3>2, YieldSliceWaits DEF RuntimeInv
  <2> QED
    BY <2>1, <2>2
<1>2. pc' \notin {"body", "sensor"}
  BY DEF Backpressure, FinishSlice, StartWalk, YieldSlice
<1> QED
  BY <1>1, <1>2 DEF Backpressure, Unheard, Undisturbed, DispatchUnheard, handleVars

LEMMA DispatchFaultWaits ==
    ASSUME RuntimeInv, NEW f \in Fibers, fiber[f].state = "Runnable", DispatchFault(f)
    PROVE  Unheard
<1>1. SameWaits
  BY FinishSliceWaits DEF DispatchFault, RuntimeInv, Terminal
<1> QED
  BY <1>1 DEF DispatchFault, FinishSlice, StartWalk, Unheard, Undisturbed, DispatchUnheard,
              handleVars

(* A dispatch gives its body a handle nobody waits for.                    *)
LEMMA DispatchWaits ==
    ASSUME RuntimeInv, NEW f \in Fibers, running = f, fiber[f].state = "Runnable",
           NEW capped \in BOOLEAN, CanCreate(capped),
           CreatePending(FreshHandle, capped),
           fiber' = [fiber EXCEPT ![f].held = FreshHandle, ![f].rounds = 0],
           UNCHANGED running
    PROVE  Unheard
<1>1. FreshHandle \in Handles
  BY FreshHandleType
<1>2. UNCHANGED waiters
  BY <1>1, CreateKeepsWaiters DEF RuntimeInv
<1>3. SameWaits
  BY DEF RuntimeInv, FiberInv, SoundRecord, FiberRecord, SameWaits
<1>4. fiber'[running'].held = FreshHandle
  BY DEF RuntimeInv, FiberInv, SoundRecord, FiberRecord
<1>5. waiters'[FreshHandle] = << >>
  BY <1>1 DEF CreatePending, RuntimeInv, TableInv, HandleTypeOK
<1> QED
  BY <1>2, <1>3, <1>4, <1>5 DEF Unheard, Undisturbed, DispatchUnheard

LEMMA HostCallAsyncWaits ==
    ASSUME RuntimeInv, NEW f \in Fibers, HostCallAsync(f)
    PROVE  Unheard
<1>1. running = f /\ fiber[f].state = "Runnable"
  BY AtInstruction DEF HostCallAsync
<1>2. CASE Backpressure(f)
  BY <1>1, <1>2, BackpressureWaits
<1>3. CASE DispatchFault(f)
  BY <1>1, <1>3, DispatchFaultWaits
<1>4. CASE CanCreate(TRUE) /\ ~Backpressure(f) /\ ~DispatchFault(f)
  BY <1>1, <1>4, DispatchWaits DEF HostCallAsync
<1> QED
  BY <1>2, <1>3, <1>4 DEF HostCallAsync

LEMMA TriggerCallWaits ==
    ASSUME RuntimeInv, NEW f \in Fibers, TriggerCall(f)
    PROVE  Unheard
<1>1. running = f /\ fiber[f].state = "Runnable"
  BY AtInstruction DEF TriggerCall
<1>2. CASE DispatchFault(f)
  BY <1>1, <1>2, DispatchFaultWaits
<1>3. CASE CanCreate(FALSE) /\ ~DispatchFault(f)
  BY <1>1, <1>3, DispatchWaits DEF TriggerCall
<1> QED
  BY <1>2, <1>3 DEF TriggerCall

(* A step of a slice that changes some other field of the running record.  *)
LEMMA InstructionWaits ==
    ASSUME FiberInv, NEW f \in Fibers,
           fiber' = [fiber EXCEPT ![f].ip = @ + 1]
    PROVE  SameWaits
BY DEF FiberInv, SoundRecord, FiberRecord, SameWaits

LEMMA HostBodyWaits ==
    ASSUME RuntimeInv, DispatchUnheard, NEW f \in Fibers, HostBody(f)
    PROVE  Unheard
<1> DEFINE h == fiber[f].held
<1> USE DEF RuntimeInv
<1>1. fiber[f].state = "Runnable" /\ h \in Handles /\ waiters[h] = << >>
  BY DEF HostBody, ControlInv, Dispatching, DispatchUnheard
<1>2. UNCHANGED waiters
  <2>1. CASE UNCHANGED handleVars
    BY <2>1 DEF handleVars
  <2>2. CASE Settle(h, "Resolved", "any")
    BY <2>2, SettleKeepsWaiters
  <2>3. CASE Rollback(h)
    BY <1>1, <2>3, DeleteKeepsWaiters DEF Rollback
  <2> QED
    BY <2>1, <2>2, <2>3 DEF HostBody
<1>3. SameWaits
  BY <1>1, InstructionWaits, FinishSliceWaits DEF HostBody, Terminal
<1>4. pc' \notin {"body", "sensor"}
  BY DEF HostBody, FinishSlice, StartWalk
<1> QED
  BY <1>2, <1>3, <1>4 DEF Unheard, Undisturbed, DispatchUnheard

LEMMA TriggerBodyWaits ==
    ASSUME RuntimeInv, NEW f \in Fibers, TriggerBody(f)
    PROVE  Unheard
<1>1. UNCHANGED waiters
  BY SettleKeepsWaiters DEF TriggerBody, handleVars
<1>2. SameWaits
  BY InstructionWaits DEF TriggerBody, RuntimeInv
<1> QED
  BY <1>1, <1>2 DEF TriggerBody, Unheard, Undisturbed, DispatchUnheard

LEMMA ClearDeviceWaits ==
    ASSUME RuntimeInv, NEW f \in Fibers, ClearDevice(f)
    PROVE  Unheard
<1>1. UNCHANGED waiters
  BY SettleKeepsWaiters DEF ClearDevice, handleVars
<1>2. SameWaits
  BY InstructionWaits DEF ClearDevice, RuntimeInv
<1>3. pc = "slice"
  BY AtInstruction DEF ClearDevice
<1> QED
  BY <1>1, <1>2, <1>3 DEF ClearDevice, Continue, Unheard, Undisturbed, DispatchUnheard

LEMMA ActionCallAsyncWaits ==
    ASSUME RuntimeInv, NEW f \in Fibers, ActionCallAsync(f)
    PROVE  Unheard
<1> USE DEF RuntimeInv
<1>1. pc = "slice" /\ fiber[f].state = "Runnable"
  BY AtInstruction DEF ActionCallAsync
<1>2. CASE Backpressure(f)
  BY <1>1, <1>2, BackpressureWaits
<1>3. CASE DispatchFault(f)
  BY <1>1, <1>3, DispatchFaultWaits
<1>4. CASE CanCreate(TRUE) /\ CanSpawn /\ ~Backpressure(f) /\ ~DispatchFault(f)
  <2>1. FreshHandle \in Handles /\ FreshFiber \in Fibers /\ fiber[FreshFiber].state = "Free"
    BY <1>4, FreshHandleType, FreshFiberType
  <2>2. UNCHANGED waiters
    BY <1>4, <2>1, CreateKeepsWaiters DEF ActionCallAsync
  <2> DEFINE child == NewFiber(Arg(f), fiber[f].rule, NoRule, FreshHandle)
  <2>3. child.state = "Runnable"
    BY DEF NewFiber
  <2>4. fiber' = [fiber EXCEPT
                ![f].held = FreshHandle, ![f].ip = @ + 1, ![f].rounds = 0,
                ![FreshFiber] = child]
    BY <1>4 DEF ActionCallAsync
  <2> HIDE DEF child
  <2>5. SameWaits
    BY <1>1, <2>1, <2>3, <2>4 DEF FiberInv, SoundRecord, FiberRecord, SameWaits
  <2> QED
    BY <1>1, <1>4, <2>2, <2>5
    DEF ActionCallAsync, Continue, Unheard, Undisturbed, DispatchUnheard
<1> QED
  BY <1>2, <1>3, <1>4 DEF ActionCallAsync

LEMMA SpawnRuleWaits ==
    ASSUME RuntimeInv, NEW f \in Fibers, SpawnRule(f)
    PROVE  Unheard
<1> USE DEF RuntimeInv
<1>1. pc = "slice" /\ fiber[f].state = "Runnable"
  BY AtInstruction DEF SpawnRule
<1>2. CASE DispatchFault(f)
  BY <1>1, <1>2, DispatchFaultWaits
<1>3. CASE CanSpawn /\ ~DispatchFault(f)
  <2>1. FreshFiber \in Fibers /\ fiber[FreshFiber].state = "Free"
    BY <1>3, FreshFiberType
  <2>2. PICK child : child.state = "Runnable"
                     /\ fiber' = [fiber EXCEPT ![f].ip = @ + 1, ![FreshFiber] = child]
    BY <1>3 DEF SpawnRule, NewFiber
  <2>3. SameWaits
    BY <1>1, <2>1, <2>2 DEF FiberInv, SoundRecord, FiberRecord, SameWaits
  <2> QED
    BY <1>1, <1>3, <2>3
    DEF SpawnRule, Continue, Unheard, Undisturbed, DispatchUnheard, handleVars
<1> QED
  BY <1>2, <1>3 DEF SpawnRule

LEMMA ThrowWaits ==
    ASSUME RuntimeInv, NEW f \in Fibers, pc = "slice", fiber[f].state = "Runnable",
           Throw(f), UNCHANGED handleVars
    PROVE  Unheard
<1>1. CASE FinishSlice(f, "Fault")
  BY <1>1, FinishSliceWaits
  DEF RuntimeInv, Terminal, FinishSlice, StartWalk, Unheard, Undisturbed, DispatchUnheard,
      handleVars
<1>2. CASE ~FinishSlice(f, "Fault")
  <2>1. fiber' = [fiber EXCEPT ![f].throwing = FALSE, ![f].held = NoHandle] /\ Continue
    BY <1>2 DEF Throw
  <2>2. SameWaits
    BY <2>1 DEF RuntimeInv, FiberInv, SoundRecord, FiberRecord, SameWaits
  <2> QED
    BY <2>1, <2>2 DEF Continue, Unheard, Undisturbed, DispatchUnheard, handleVars
<1> QED
  BY <1>1, <1>2

LEMMA InjectedThrowWaits ==
    ASSUME RuntimeInv, NEW f \in Fibers, InjectedThrow(f)
    PROVE  Unheard
BY ThrowWaits DEF InjectedThrow, InSlice

LEMMA FinishWaits ==
    ASSUME RuntimeInv, NEW f \in Fibers, fiber[f].state = "Runnable",
           NEW terminal \in Terminal, FinishSlice(f, terminal), UNCHANGED handleVars
    PROVE  Unheard
BY FinishSliceWaits
DEF RuntimeInv, FinishSlice, StartWalk, Unheard, Undisturbed, DispatchUnheard, handleVars

LEMMA AwaitNowWaits ==
    ASSUME RuntimeInv, NEW f \in Fibers, AwaitMissing(f) \/ AwaitSettled(f)
    PROVE  Unheard
<1>1. pc = "slice" /\ fiber[f].state = "Runnable"
  BY DEF AwaitMissing, AwaitSettled, Awaits, InSlice
<1>2. CASE AwaitMissing(f)
  BY <1>1, <1>2, FinishWaits DEF AwaitMissing, Terminal
<1>3. CASE AwaitSettled(f)
  <2>1. PICK h \in Handles :
           /\ IF hstate[h] = "Resolved"
              THEN /\ fiber' = [fiber EXCEPT ![f].held = NoHandle, ![f].top = hresult[h]]
                   /\ Continue
                   /\ UNCHANGED queueVars
              ELSE Throw(f)
           /\ UNCHANGED handleVars
    BY <1>3 DEF AwaitSettled
  <2>2. CASE hstate[h] = "Resolved"
    <3>1. SameWaits
      BY <2>1, <2>2 DEF RuntimeInv, FiberInv, SoundRecord, FiberRecord, SameWaits
    <3> QED
      BY <1>1, <2>1, <2>2, <3>1
      DEF Continue, Unheard, Undisturbed, DispatchUnheard, handleVars
  <2>3. CASE hstate[h] # "Resolved"
    BY <1>1, <2>1, <2>3, ThrowWaits
  <2> QED
    BY <2>2, <2>3
<1> QED
  BY <1>2, <1>3

(* The instructions that end in YieldSlice, in the next instruction, or in *)
(* a gate.                                                                 *)
LEMMA PlainWaits ==
    ASSUME RuntimeInv, NEW f \in Fibers,
           \/ RequestPage(f) \/ WhenStart(f) \/ WhenGate(f) \/ Script(f)
           \/ YieldOp(f) \/ BudgetExpires(f) \/ Return(f) \/ SliceCancelled(f)
    PROVE  Unheard
<1> USE DEF RuntimeInv, Unheard, Undisturbed, DispatchUnheard, handleVars
<1>1. CASE RequestPage(f)
  BY <1>1, InstructionWaits DEF RequestPage
<1>2. CASE WhenStart(f)
  BY <1>2, InstructionWaits, AtInstruction DEF WhenStart, Continue
<1>3. CASE WhenGate(f)
  <2>1. pc = "slice" /\ fiber[f].state = "Runnable"
    BY <1>3, AtInstruction DEF WhenGate
  <2>2. PICK ip : fiber' = [fiber EXCEPT ![f].top = "any", ![f].ip = ip]
    BY <1>3 DEF WhenGate, FiberInv, SoundRecord, FiberRecord
  <2>3. SameWaits
    BY <2>2 DEF FiberInv, SoundRecord, FiberRecord, SameWaits
  <2> QED
    BY <1>3, <2>1, <2>3 DEF WhenGate, Continue
<1>4. CASE Script(f)
  <2>1. pc = "slice" /\ fiber[f].state = "Runnable"
    BY <1>4, AtInstruction DEF Script
  <2>2. CASE FinishSlice(f, "Fault")
    BY <1>4, <2>1, <2>2, FinishWaits DEF Script, Terminal
  <2>3. CASE ~FinishSlice(f, "Fault")
    BY <1>4, <2>1, <2>3, InstructionWaits DEF Script, Continue
  <2> QED
    BY <2>2, <2>3
<1>5. CASE YieldOp(f)
  <2> DEFINE record == [fiber[f] EXCEPT !.ip = @ + 1]
  <2>1. fiber[f].state = "Runnable"
    BY <1>5, AtInstruction DEF YieldOp
  <2>2. record.state = "Runnable"
    BY <2>1, RunnableFiber DEF FiberRecord
  <2>3. YieldSlice(f, record)
    BY <1>5 DEF YieldOp
  <2> HIDE DEF record
  <2> QED
    BY <1>5, <2>1, <2>2, <2>3, YieldSliceWaits DEF YieldOp, YieldSlice
<1>6. CASE BudgetExpires(f)
  BY <1>6, YieldSliceWaits DEF BudgetExpires, InSlice, YieldSlice
<1>7. CASE Return(f)
  BY <1>7, FinishWaits DEF Return, AtNext, InSlice, Terminal
<1>8. CASE SliceCancelled(f)
  BY <1>8 DEF SliceCancelled, SameWaits
<1> QED
  BY <1>1, <1>2, <1>3, <1>4, <1>5, <1>6, <1>7, <1>8

-----------------------------------------------------------------------------
(* The settle walk, the cascade, the think loop and the devices.           *)
LEMMA WalkWaits ==
    ASSUME RuntimeInv, SettleRule \/ SettleResult
    PROVE  Unheard
<1> USE DEF RuntimeInv, Unheard, Undisturbed, DispatchUnheard
<1>1. UNCHANGED waiters
  BY SettleKeepsWaiters DEF SettleRule, SettleResult, handleVars
<1>2. CASE SettleRule
  BY <1>1, <1>2 DEF SettleRule, SameWaits
<1>3. CASE SettleResult
  <2>1. SameWaits
    BY <1>3 DEF SettleResult, SameWaits, FiberInv, SoundRecord, FiberRecord
  <2> QED
    BY <1>1, <1>3, <2>1 DEF SettleResult
<1> QED
  BY <1>2, <1>3

LEMMA CascadeWaits ==
    ASSUME DetachSpawned \/ RunChild \/ CascadeDone
    PROVE  Unheard
BY DEF DetachSpawned, RunChild, CascadeDone, Unheard, Undisturbed, DispatchUnheard, SameWaits,
       handleVars

LEMMA SpawnWaits ==
    ASSUME RuntimeInv, NEW r, CanSpawn, Spawn(r)
    PROVE  SameWaits
<1>1. FreshFiber \in Fibers /\ fiber[FreshFiber].state = "Free"
  BY FreshFiberType
<1>2. NewFiber(r, r, NoRule, NoHandle).state = "Runnable"
  BY DEF NewFiber
<1> QED
  BY <1>1, <1>2, RecordWaits DEF Spawn, RuntimeInv

LEMMA LoopWaits ==
    ASSUME RuntimeInv,
           \/ ActivateRule \/ ActivationDone \/ DrainDone \/ RespawnRule \/ OpenRound
           \/ RunNext \/ BeginThink \/ Shutdown
    PROVE  Unheard
<1>1. SameWaits
  BY SpawnWaits
  DEF ActivateRule, ActivationDone, DrainDone, RespawnRule, OpenRound, RunNext, BeginThink,
      Shutdown, SameWaits
<1>2. UNCHANGED waiters
  BY DEF ActivateRule, ActivationDone, DrainDone, RespawnRule, OpenRound, RunNext,
         BeginThink, Shutdown, handleVars
<1>3. pc' \notin {"body", "sensor"}
  BY DEF ActivateRule, ActivationDone, DrainDone, RespawnRule, OpenRound, RunNext,
         BeginThink, Shutdown, RuntimeInv, ControlInv, ControlTypeOK
<1> QED
  BY <1>1, <1>2, <1>3 DEF Unheard, Undisturbed, DispatchUnheard

LEMMA SweepWaits ==
    ASSUME RuntimeInv, Sweep
    PROVE  Unheard
<1>1. SameWaits
  BY FreeFiberSound DEF Sweep, SameWaits, FiberHas, Terminal
<1> QED
  BY <1>1 DEF Sweep, Unheard, Undisturbed, DispatchUnheard, handleVars

LEMMA DeviceWaits ==
    ASSUME DispatchUnheard, NEW h \in Handles, DeviceSettle(h)
    PROVE  Unheard
BY SettleKeepsWaiters
DEF DeviceSettle, Unheard, Undisturbed, DispatchUnheard, SameWaits

(* The drain frees a handle once its last waiter has been resumed.         *)
LEMMA ReclaimWaits ==
    ASSUME RuntimeInv, WaitersExact, ReclaimHandle
    PROVE  Unheard
<1> DEFINE h == Head(completed)
<1> USE DEF RuntimeInv
<1>1. h \in Handles /\ waiters[h] = << >> /\ DeleteHandle(h)
  BY HeadTailProperties DEF ReclaimHandle, Reclaim, TableInv, HandleTypeOK
<1>2. UNCHANGED waiters
  BY <1>1, DeleteKeepsWaiters
<1>3. SameWaits
  <2>1. ASSUME NEW f \in Fibers PROVE ~Waits(f, h)
    BY <1>1, EmptySeq DEF InSeq, WaitersExact
  <2>2. fiber' = Forget(fiber, h)
    BY DEF ReclaimHandle
  <2> HIDE DEF h
  <2>3. ASSUME NEW f \in Fibers
        PROVE  /\ fiber'[f].state = fiber[f].state
               /\ fiber'[f].await = IF fiber[f].await = h THEN Gone ELSE fiber[f].await
    BY <2>2 DEF Forget, FiberInv, SoundRecord, FiberRecord
  <2> QED
    BY <2>1, <2>3 DEF Waits, SameWaits
<1> QED
  BY <1>2, <1>3 DEF ReclaimHandle, Unheard, Undisturbed, DispatchUnheard

-----------------------------------------------------------------------------
(* Removing the only occurrence of an element removes the element, and     *)
(* nothing else; nobody moves back.                                        *)
LEMMA WithoutElements ==
    ASSUME NEW S, NEW s \in Seq(S), NEW x, Distinct(s), InSeq(x, s)
    PROVE  /\ \A y : InSeq(y, Without(s, x)) <=> InSeq(y, s) /\ y # x
           /\ Distinct(Without(s, x))
           /\ \A i \in 1..Len(s) : s[i] # x =>
                 \E j \in 1..Len(Without(s, x)) : j <= i /\ Without(s, x)[j] = s[i]
<1> DEFINE n == Len(s)
           First(i) == s[i] = x /\ \A j \in 1..(i - 1) : s[j] # x
           k == CHOOSE i \in 1..n : First(i)
           t == [i \in 1..(n - 1) |-> IF i < k THEN s[i] ELSE s[i + 1]]
<1>1. n \in Nat \ {0}
  BY LenProperties DEF InSeq
<1>2. PICK p \in 1..n : s[p] = x
  BY DEF InSeq
<1>3. First(p)
  BY <1>1, <1>2 DEF Distinct
<1>4. k \in 1..n /\ s[k] = x
  BY <1>3
<1>5. Without(s, x) = t
  BY DEF Without
<1> HIDE DEF k
<1>6. Len(t) = n - 1 /\ \A i \in 1..(n - 1) : t[i] = IF i < k THEN s[i] ELSE s[i + 1]
  <2>1. \A i \in 1..(n - 1) : (IF i < k THEN s[i] ELSE s[i + 1]) \in S
    BY <1>1, ElementOfSeq
  <2>2. t \in Seq(S)
    BY <1>1, <2>1, SeqDef
  <2>3. DOMAIN t = 1..(n - 1)
    OBVIOUS
  <2> HIDE DEF t
  <2>4. Len(t) \in Nat /\ DOMAIN t = 1..Len(t)
    BY <2>2, LenProperties
  <2>5. Len(t) = n - 1
    BY <1>1, <2>3, <2>4
  <2> QED
    BY <2>5 DEF t
<1> HIDE DEF n, t
<1>7. ASSUME NEW j \in 1..n, s[j] # x
      PROVE  \E i \in 1..(n - 1) : i <= j /\ t[i] = s[j]
  <2>1. j # k
    BY <1>4, <1>7
  <2>2. CASE j < k
    <3>1. j \in 1..(n - 1) /\ t[j] = s[j]
      BY <1>1, <1>4, <1>6, <2>2
    <3> QED
      BY <3>1
  <2>3. CASE j > k
    <3>1. j - 1 \in 1..(n - 1) /\ t[j - 1] = s[j] /\ j - 1 <= j
      BY <1>1, <1>4, <1>6, <2>3
    <3> QED
      BY <3>1
  <2> QED
    BY <1>1, <1>4, <2>1, <2>2, <2>3
<1>8. \A y : InSeq(y, t) <=> InSeq(y, s) /\ y # x
  <2>1. ASSUME NEW y, InSeq(y, t) PROVE InSeq(y, s) /\ y # x
    <3>1. PICK i \in 1..(n - 1) : t[i] = y
      BY <1>6, <2>1 DEF InSeq
    <3>2. PICK j \in 1..n : s[j] = y /\ j # k
      <4>1. CASE i < k
        BY <1>1, <1>4, <1>6, <3>1, <4>1
      <4>2. CASE ~(i < k)
        <5>1. s[i + 1] = y
          BY <1>6, <3>1, <4>2
        <5>2. i + 1 \in 1..n /\ i + 1 # k
          BY <1>1, <1>4, <3>1, <4>2
        <5> QED
          BY <5>1, <5>2
      <4> QED
        BY <4>1, <4>2
    <3> QED
      BY <1>4, <3>2 DEF InSeq, Distinct, n
  <2>2. ASSUME NEW y, InSeq(y, s), y # x PROVE InSeq(y, t)
    BY <1>6, <1>7, <2>2 DEF InSeq, n
  <2> QED
    BY <2>1, <2>2
<1>9. Distinct(t)
  <2> SUFFICES ASSUME NEW i \in 1..(n - 1), NEW j \in 1..(n - 1), t[i] = t[j]
               PROVE  i = j
    BY <1>6 DEF Distinct
  <2> DEFINE Back(m) == IF m < k THEN m ELSE m + 1
  <2>1. /\ Back(i) \in 1..n /\ Back(j) \in 1..n
        /\ t[i] = s[Back(i)] /\ t[j] = s[Back(j)]
    BY <1>1, <1>6
  <2>2. Back(i) = Back(j)
    BY <2>1 DEF Distinct, n
  <2> QED
    BY <1>1, <1>4, <2>2
<1> QED
  BY <1>5, <1>6, <1>7, <1>8, <1>9 DEF n

-----------------------------------------------------------------------------
(* The steps that park, cancel and resume.                                 *)
Heard == WaitersExact' /\ DispatchUnheard'

(* One handle gains or loses one waiter, and that fiber alone starts or    *)
(* stops waiting for it.                                                   *)
LEMMA OneWaiter ==
    ASSUME RuntimeInv, WaitersExact, NEW f \in Fibers, NEW h \in Handles,
           NEW list \in Seq(Fibers), waiters' = [waiters EXCEPT ![h] = list], Distinct(list),
           \A g \in Fibers : g # f => (InSeq(g, list) <=> InSeq(g, waiters[h])),
           \A g \in Fibers : g # f => fiber'[g] = fiber[g],
           fiber'[f].state = "Waiting" => fiber'[f].await = h,
           InSeq(f, list) <=> fiber'[f].state = "Waiting",
           fiber[f].state = "Waiting" => fiber[f].await = h
    PROVE  WaitersExact'
<1>1. waiters \in [Handles -> Seq(Fibers)]
  BY DEF RuntimeInv, TableInv, HandleTypeOK
<1>2. ASSUME NEW g \in Fibers, fiber'[g].state = "Waiting" PROVE fiber'[g].await \in Handles
  BY <1>2 DEF WaitersExact
<1>3. ASSUME NEW k \in Handles, NEW g \in Fibers
      PROVE  InSeq(g, waiters'[k]) <=> fiber'[g].state = "Waiting" /\ fiber'[g].await = k
  <2>1. InSeq(g, waiters[k]) <=> fiber[g].state = "Waiting" /\ fiber[g].await = k
    BY DEF WaitersExact, Waits
  <2>2. CASE k = h
    BY <1>1, <2>1, <2>2
  <2>3. CASE k # h
    BY <1>1, <2>1, <2>3
  <2> QED
    BY <2>2, <2>3
<1>4. \A k \in Handles : Distinct(waiters'[k])
  BY <1>1 DEF WaitersExact
<1> QED
  BY <1>2, <1>3, <1>4 DEF WaitersExact, Waits

LEMMA AwaitPendingHeard ==
    ASSUME ~WaiterPoolMayFail, RuntimeInv, WaitersExact, NEW f \in Fibers, AwaitPending(f)
    PROVE  Heard
<1> USE DEF RuntimeInv
<1>1. fiber[f].state = "Runnable"
  BY DEF AwaitPending, Awaits, InSlice
<1>2. PICK h \in Handles :
         /\ hstate[h] = "Pending"
         /\ fiber' = [fiber EXCEPT ![f].state = "Waiting", ![f].held = NoHandle,
                                   ![f].await = h]
         /\ AddWaiter(h, f)
  BY DEF AwaitPending
<1>3. waiters' = [waiters EXCEPT ![h] = Append(waiters[h], f)]
  BY <1>2 DEF AddWaiter
<1>4. waiters[h] \in Seq(Fibers) /\ Distinct(waiters[h]) /\ ~InSeq(f, waiters[h])
  BY <1>1 DEF TableInv, HandleTypeOK, WaitersExact, Waits
<1>5. /\ Append(waiters[h], f) \in Seq(Fibers)
      /\ Distinct(Append(waiters[h], f))
      /\ \A g : InSeq(g, Append(waiters[h], f)) <=> InSeq(g, waiters[h]) \/ g = f
  BY <1>4, AppendElements, AppendProperties
<1>6. /\ \A g \in Fibers : g # f => fiber'[g] = fiber[g]
      /\ fiber'[f].state = "Waiting" /\ fiber'[f].await = h
  BY <1>2 DEF FiberInv, SoundRecord, FiberRecord
<1>7. WaitersExact'
  BY <1>1, <1>3, <1>5, <1>6, OneWaiter
<1> QED
  BY <1>7 DEF AwaitPending, Heard, DispatchUnheard

LEMMA CancelRecordHeard ==
    ASSUME RuntimeInv, WaitersExact, NEW f \in Fibers, Alive(f), CancelRecord(f)
    PROVE  Heard
<1> USE DEF RuntimeInv
<1>1. /\ \A g \in Fibers : g # f => fiber'[g] = fiber[g]
      /\ fiber'[f].state = "Cancelled"
  BY DEF CancelRecord, FiberInv, SoundRecord, FiberRecord
<1>2. CASE fiber[f].state = "Waiting"
  <2> DEFINE h == fiber[f].await
             list == Without(waiters[h], f)
  <2>1. h \in Handles /\ InSeq(f, waiters[h]) /\ Distinct(waiters[h])
    BY <1>2 DEF WaitersExact, Waits
  <2>2. waiters' = [waiters EXCEPT ![h] = list]
    BY <1>2, <2>1 DEF CancelRecord, LeaveWaiters, RemoveWaiter
  <2>3. waiters[h] \in Seq(Fibers)
    BY <2>1 DEF TableInv, HandleTypeOK
  <2>4. /\ list \in Seq(Fibers) /\ Distinct(list)
        /\ \A g : InSeq(g, list) <=> InSeq(g, waiters[h]) /\ g # f
    BY <2>1, <2>3, WithoutType, WithoutElements
  <2> HIDE DEF list
  <2>5. WaitersExact'
    BY <1>1, <2>1, <2>2, <2>4, OneWaiter
  <2> QED
    BY <2>5 DEF CancelRecord, StartWalk, Heard, DispatchUnheard
<1>3. CASE fiber[f].state # "Waiting"
  <2>1. UNCHANGED waiters
    BY <1>3 DEF CancelRecord, LeaveWaiters, handleVars
  <2>2. SameWaits
    BY <1>1, <1>3 DEF SameWaits
  <2> QED
    BY <2>1, <2>2, UndisturbedExact
    DEF CancelRecord, StartWalk, Undisturbed, Heard, DispatchUnheard
<1> QED
  BY <1>2, <1>3

LEMMA CancelHeard ==
    ASSUME RuntimeInv, WaitersExact, CancelRoot \/ CancelChildRule
    PROVE  Heard
<1>1. CASE CancelRoot
  <2>1. PICK i \in LiveRoots : CancelRecord(ruleFibers[i].fiber)
    BY <1>1 DEF CancelRoot
  <2>2. ruleFibers[i].fiber \in Fibers /\ Alive(ruleFibers[i].fiber)
    BY EntryType DEF LiveRoots
  <2> QED
    BY <2>1, <2>2, CancelRecordHeard
<1>2. CASE CancelChildRule
  BY <1>2, CancelRecordHeard DEF CancelChildRule, LiveChildRules
<1> QED
  BY <1>1, <1>2

LEMMA ResumeWaiterHeard ==
    ASSUME RuntimeInv, WaitersExact, ResumeWaiter
    PROVE  Heard
<1> DEFINE h == Head(completed)
           f == Head(waiters[h])
           list == Tail(waiters[h])
<1> USE DEF RuntimeInv
<1>1. h \in Handles
  BY HeadTailProperties DEF ResumeWaiter, VisitWaiter, TableInv, HandleTypeOK
<1>2. waiters[h] \in Seq(Fibers) /\ waiters[h] # << >> /\ Distinct(waiters[h])
  BY <1>1 DEF ResumeWaiter, VisitWaiter, TableInv, HandleTypeOK, WaitersExact
<1>3. f \in Fibers /\ list \in Seq(Fibers) /\ f = waiters[h][1] /\ 1 \in 1..Len(waiters[h])
  BY <1>2, HeadTailProperties, EmptySeq, LenProperties
<1>4. fiber[f].state = "Waiting" /\ fiber[f].await = h
  BY <1>1, <1>3 DEF InSeq, WaitersExact, Waits
<1>5. /\ Distinct(list)
      /\ \A g : InSeq(g, list) <=> InSeq(g, waiters[h]) /\ g # f
  BY <1>2, TailElements
<1>6. waiters' = [waiters EXCEPT ![h] = list]
  BY DEF ResumeWaiter, VisitWaiter
<1>7. /\ \A g \in Fibers : g # f => fiber'[g] = fiber[g]
      /\ fiber'[f].state = "Runnable"
  <2> DEFINE woken == [fiber[f] EXCEPT !.state = "Runnable", !.await = NoHandle,
                                       !.top = hresult[h],
                                       !.throwing = hstate[h] # "Resolved"]
  <2>1. fiber \in [Fibers -> FiberRecord]
    BY DEF FiberInv, SoundRecord
  <2>2. fiber[f] \in FiberRecord
    BY <1>3, <2>1
  <2>3. woken.state = "Runnable"
    BY <2>2 DEF FiberRecord
  <2>4. fiber' = [fiber EXCEPT ![f] = woken]
    BY <1>4 DEF ResumeWaiter, Wake
  <2> HIDE DEF woken
  <2> QED
    BY <1>3, <2>1, <2>3, <2>4
<1> HIDE DEF list
<1>8. WaitersExact'
  BY <1>1, <1>3, <1>4, <1>5, <1>6, <1>7, OneWaiter
<1> QED
  BY <1>8 DEF ResumeWaiter, Heard, DispatchUnheard

-----------------------------------------------------------------------------
(* Nothing waits at startup.                                               *)
LEMMA InitWakeInv ==
    Init => WakeInv
<1> SUFFICES ASSUME Init PROVE WakeInv
  OBVIOUS
<1>1. \A f \in Fibers : fiber[f].state = "Free"
  BY FreeFiberSound DEF Init
<1>2. \A h \in Handles : waiters[h] = << >>
  BY DEF Init, HandleTableInit
<1>3. \A h \in Handles, f \in Fibers : ~InSeq(f, waiters[h])
  BY <1>2, EmptySeq DEF InSeq
<1>4. \A h \in Handles : Distinct(waiters[h])
  BY <1>2, EmptySeq DEF Distinct
<1> QED
  BY <1>1, <1>3, <1>4 DEF WakeInv, WaitersExact, DispatchUnheard, Waits, Init

LEMMA UnheardHeard ==
    WaitersExact /\ Unheard => Heard
BY UndisturbedExact DEF Unheard, Heard

LEMMA SliceStepHeard ==
    ASSUME ~WaiterPoolMayFail, RuntimeInv, WaitersExact, DispatchUnheard,
           NEW f \in Fibers, SliceStep(f)
    PROVE  Heard
<1>1. CASE AwaitPending(f)
  BY <1>1, AwaitPendingHeard
<1>2. CASE ~AwaitPending(f)
  BY <1>2, UnheardHeard, HostCallAsyncWaits, HostBodyWaits, ClearDeviceWaits,
     TriggerCallWaits, TriggerBodyWaits, ActionCallAsyncWaits, AwaitNowWaits,
     InjectedThrowWaits, SpawnRuleWaits, PlainWaits
  DEF SliceStep, Await
<1> QED
  BY <1>1, <1>2

LEMMA CancelDoneHeard ==
    ASSUME WaitersExact, CancelDone, pc' # "down"
    PROVE  Heard
<1>1. Undisturbed /\ pc' \in {"slice", "activate"}
  BY DEF CancelDone, Undisturbed, SameWaits, handleVars
<1> QED
  BY <1>1, UndisturbedExact DEF Heard, DispatchUnheard

(* Every step of a brain that has not been shut down keeps the waiters.    *)
LEMMA NextHeard ==
    ASSUME ~WaiterPoolMayFail, RuntimeInv, WaitersExact, DispatchUnheard, [Next]_vars,
           pc' # "down"
    PROVE  Heard
<1>1. CASE SchedulerStep
  BY <1>1, SliceStepHeard, UnheardHeard, WalkWaits, CancelHeard, ResumeWaiterHeard,
     ReclaimWaits, CascadeWaits
  DEF SchedulerStep
<1>2. CASE CancelDone
  BY <1>2, CancelDoneHeard
<1>3. CASE ThinkStep /\ ~SchedulerStep /\ ~CancelDone
  BY <1>3, UnheardHeard, LoopWaits, SweepWaits DEF ThinkStep
<1>4. CASE BeginThink \/ Shutdown
  BY <1>4, UnheardHeard, LoopWaits
<1>5. CASE \E h \in Handles : DeviceSettle(h)
  BY <1>5, UnheardHeard, DeviceWaits
<1>6. CASE UNCHANGED vars
  BY <1>6, UnheardHeard
  DEF vars, handleVars, Unheard, Undisturbed, SameWaits, DispatchUnheard
<1> QED
  BY <1>1, <1>2, <1>3, <1>4, <1>5, <1>6 DEF Next, Stopped

(* A brain that is shut down takes no step.                                *)
LEMMA DownStays ==
    RuntimeInv /\ pc = "down" /\ [Next]_vars => pc' = "down"
<1> SUFFICES ASSUME RuntimeInv, pc = "down", [Next]_vars PROVE UNCHANGED pc
  OBVIOUS
<1>1. ASSUME NEW f \in Fibers, SliceStep(f) PROVE FALSE
  BY <1>1
  DEF SliceStep, HostCallAsync, HostBody, ClearDevice, TriggerCall, TriggerBody,
      ActionCallAsync, Await, AwaitMissing, AwaitSettled, AwaitPending, Awaits,
      InjectedThrow, SpawnRule, RequestPage, WhenStart, WhenGate, Script, YieldOp,
      BudgetExpires, Return, SliceCancelled, At, AtNext, InSlice
<1>2. ~SchedulerStep
  BY <1>1
  DEF SchedulerStep, SettleRule, SettleResult, CancelRoot, CancelChildRule, ResumeWaiter,
      ReclaimHandle, DetachSpawned, RunChild, CascadeDone
<1> QED
  BY <1>2
  DEF Next, ThinkStep, ActivateRule, ActivationDone, CancelDone, DrainDone, RespawnRule,
      OpenRound, RunNext, Sweep, BeginThink, DeviceSettle, Shutdown, Stopped, vars

(* No wakeup is lost or spurious in any brain whose arena backs its waiter *)
(* nodes: what AWAIT, the drain, the cancellation and the rollback do to   *)
(* the waiter lists agrees at every step with what the fibers wait for.    *)
THEOREM NoWakeupLost ==
    ASSUME ~WaiterPoolMayFail
    PROVE  Spec => []NoLostWakeup
<1>1. Init => WakeInv
  BY InitWakeInv
<1>2. RuntimeInv /\ WakeInv /\ [Next]_vars => WakeInv'
  BY NextHeard, DownStays DEF WakeInv, Heard
<1>3. RuntimeInv /\ WakeInv => NoLostWakeup
  <2> SUFFICES ASSUME RuntimeInv, WaitersExact PROVE NoLostWakeup
    BY DEF WakeInv, NoLostWakeup
  <2>1. ASSUME NEW f \in Fibers, fiber[f].state = "Waiting"
        PROVE  fiber[f].await \in LiveHandles /\ InSeq(f, waiters[fiber[f].await])
    <3>1. fiber[f].await \in Handles /\ InSeq(f, waiters[fiber[f].await])
      BY <2>1 DEF WaitersExact, Waits
    <3>2. waiters[fiber[f].await] # << >>
      BY <3>1, EmptySeq DEF InSeq
    <3> QED
      BY <3>1, <3>2 DEF RuntimeInv, TableInv, FreeSlotsEmpty, LiveHandles
  <2>2. ASSUME NEW h \in Handles, NEW i \in 1..Len(waiters[h])
        PROVE  /\ fiber[waiters[h][i]].state = "Waiting"
               /\ fiber[waiters[h][i]].await = h
    <3>1. waiters[h][i] \in Fibers
      BY ElementOfSeq DEF RuntimeInv, TableInv, HandleTypeOK
    <3> QED
      BY <3>1 DEF WaitersExact, Waits, InSeq
  <2> QED
    BY <2>1, <2>2 DEF NoLostWakeup
<1> QED
  BY <1>1, <1>2, <1>3, RuntimeInvariant, PTL DEF Spec

-----------------------------------------------------------------------------
(* What a step may do to the fibers and to the places they wait in.        *)
(* A fiber keeps its function, its rule and its root as long as it is in   *)
(* use, and never goes back in its code.                                   *)
Kept(g) ==
    /\ fiber'[g].func = fiber[g].func
    /\ fiber'[g].rule = fiber[g].rule
    /\ fiber'[g].subtree = fiber[g].subtree
    /\ fiber[g].ip <= fiber'[g].ip
Steady(g) == Kept(g) /\ fiber'[g].state = fiber[g].state

SameFibers == \A g \in Fibers : Steady(g)
SameResults == \A g \in Fibers : fiber'[g].result = fiber[g].result
Turns(f, state) ==
    /\ f \in Fibers
    /\ \A g \in Fibers : g # f => Steady(g)
    /\ Kept(f) /\ fiber'[f].state = state
    /\ SameResults
Born(n, fn, r, root, res) ==
    /\ n \in Fibers /\ fiber[n].state = "Free"
    /\ \A g \in Fibers : g # n => Steady(g) /\ fiber'[g].result = fiber[g].result
    /\ fiber'[n] = NewFiber(fn, r, root, res)

SamePlaces == UNCHANGED <<queueVars, running>>

(* The ways a slice's step can leave the fibers and the places.            *)
GoesOn ==
    /\ SameFibers /\ SameResults /\ SamePlaces
    /\ pc' \in {"slice", "body", "sensor", "cancel"}
    /\ pc' = "cancel" => back' = "slice"
Ends(f) ==
    /\ fiber[f].state = "Runnable"
    /\ Turns(f, "Done") \/ Turns(f, "Fault")
    /\ StartWalk(f)
    /\ running' = NoFiber /\ UNCHANGED queueVars
Parks(f) ==
    /\ fiber[f].state = "Runnable"
    /\ Turns(f, "Waiting")
    /\ running' = NoFiber /\ UNCHANGED queueVars /\ pc' = "cascade"
Yields(f) ==
    /\ fiber[f].state = "Runnable"
    /\ SameFibers /\ SameResults
    /\ runQueue' = Append(runQueue, f) /\ UNCHANGED <<spawned, cascade>>
    /\ running' = NoFiber /\ pc' = "cascade"
StartsAction(f) ==
    /\ fiber[f].state = "Runnable"
    /\ \E fn \in Actions, res \in Handles :
          Born(FreshFiber, fn, fiber[f].rule, NoRule, res)
    /\ runQueue' = Append(runQueue, FreshFiber)
    /\ UNCHANGED <<spawned, cascade, running, pc>>
StartsChild(f) ==
    /\ fiber[f].state = "Runnable" /\ fiber[f].func \in Rules
    /\ At(f, "spawn") /\ Arg(f) \in Rules
    /\ Born(FreshFiber, Arg(f), Arg(f), RootOf(f), NoHandle)
    /\ fiber'[f].ip = fiber[f].ip + 1
    /\ spawned' = Append(spawned, FreshFiber)
    /\ UNCHANGED <<runQueue, cascade, running, pc>>
Stops(f) ==
    /\ fiber[f].state = "Cancelled"
    /\ UNCHANGED <<fiber, queueVars>>
    /\ running' = NoFiber /\ pc' = "cascade"
SliceShape(f) ==
    /\ running = f /\ pc \in {"slice", "body", "sensor"}
    /\ \/ GoesOn \/ Ends(f) \/ Parks(f) \/ Yields(f)
       \/ StartsAction(f) \/ StartsChild(f) \/ Stops(f)

(* The other fields of the record may change as they like.                 *)
LEMMA RecordTypes ==
    ASSUME FiberInv, NEW f \in Fibers
    PROVE  /\ fiber[f] \in FiberRecord /\ fiber[f].ip \in Nat \ {0}
           /\ fiber[f].ip <= fiber[f].ip
           /\ DOMAIN fiber = Fibers
<1>1. fiber[f] \in FiberRecord
  BY DEF FiberInv, SoundRecord
<1>2. fiber[f].ip \in Nat \ {0}
  BY <1>1 DEF FiberRecord
<1> QED
  BY <1>1, <1>2 DEF FiberInv

LEMMA SteadyFibers ==
    FiberInv /\ UNCHANGED fiber => SameFibers /\ SameResults
BY RecordTypes DEF SameFibers, SameResults, Steady, Kept

(* One record is replaced by one that agrees with it where it matters.     *)
LEMMA RecordTurns ==
    ASSUME FiberInv, NEW f \in Fibers, NEW record, fiber' = [fiber EXCEPT ![f] = record],
           record.func = fiber[f].func, record.rule = fiber[f].rule,
           record.subtree = fiber[f].subtree, fiber[f].ip <= record.ip,
           record.result = fiber[f].result
    PROVE  /\ Turns(f, record.state)
           /\ record.state = fiber[f].state => SameFibers
BY RecordTypes DEF Turns, SameFibers, SameResults, Steady, Kept

LEMMA InstructionSteady ==
    ASSUME FiberInv, NEW f \in Fibers, fiber' = [fiber EXCEPT ![f].ip = @ + 1]
    PROVE  SameFibers /\ SameResults
BY RecordTypes DEF SameFibers, SameResults, Steady, Kept, FiberRecord

LEMMA FinishEnds ==
    ASSUME FiberInv, NEW f \in Fibers, fiber[f].state = "Runnable",
           NEW terminal \in {"Done", "Fault"}, FinishSlice(f, terminal)
    PROVE  Ends(f)
<1>1. Turns(f, terminal)
  <2>1. fiber' = [fiber EXCEPT ![f].state = terminal, ![f].held = NoHandle]
    BY DEF FinishSlice
  <2>2. ASSUME NEW g \in Fibers
        PROVE  Kept(g) /\ fiber'[g].result = fiber[g].result /\ (g # f => fiber'[g].state = fiber[g].state)
    <3>1. CASE g = f
      BY <2>1, <3>1, RecordTypes DEF Kept, FiberRecord
    <3>2. CASE g # f
      BY <2>1, <3>2, RecordTypes DEF Kept
    <3> QED
      BY <3>1, <3>2
  <2>3. fiber'[f].state = terminal
    BY <2>1, RecordTypes DEF FiberRecord
  <2> QED
    BY <2>2, <2>3 DEF Turns, SameResults, Steady
<1> QED
  BY <1>1 DEF FinishSlice, EndSlice, Ends

LEMMA RecordYields ==
    ASSUME FiberInv, NEW f \in Fibers, fiber[f].state = "Runnable",
           NEW record, record.state = "Runnable",
           record.func = fiber[f].func, record.rule = fiber[f].rule,
           record.subtree = fiber[f].subtree, fiber[f].ip <= record.ip,
           record.result = fiber[f].result, YieldSlice(f, record)
    PROVE  Yields(f)
<1>1. fiber' = [fiber EXCEPT ![f] = record]
  BY DEF YieldSlice
<1>2. Turns(f, record.state) /\ SameFibers
  BY <1>1, RecordTurns
<1> QED
  BY <1>2 DEF YieldSlice, EndSlice, Yields, Turns

LEMMA BackpressureShape ==
    ASSUME FiberInv, NEW f \in Fibers, fiber[f].state = "Runnable", Backpressure(f)
    PROVE  Ends(f) \/ Yields(f)
<1>1. CASE fiber[f].rounds + 1 >= FaultRounds
  BY <1>1, FinishEnds DEF Backpressure
<1>2. CASE ~(fiber[f].rounds + 1 >= FaultRounds)
  <2> DEFINE record == [fiber[f] EXCEPT !.rounds = @ + 1]
  <2>1. /\ record.state = "Runnable" /\ record.func = fiber[f].func
        /\ record.rule = fiber[f].rule /\ record.subtree = fiber[f].subtree
        /\ fiber[f].ip <= record.ip /\ record.result = fiber[f].result
    BY RecordTypes DEF FiberRecord
  <2>2. YieldSlice(f, record)
    BY <1>2 DEF Backpressure
  <2> HIDE DEF record
  <2> QED
    BY <2>1, <2>2, RecordYields
<1> QED
  BY <1>1, <1>2

LEMMA DispatchShape ==
    ASSUME RuntimeInv, NEW f \in Fibers, HostCallAsync(f) \/ TriggerCall(f)
    PROVE  GoesOn \/ Ends(f) \/ Yields(f)
<1>1. fiber[f].state = "Runnable" /\ FiberInv
  BY AtInstruction DEF HostCallAsync, TriggerCall, RuntimeInv
<1>2. CASE Backpressure(f) \/ DispatchFault(f)
  BY <1>1, <1>2, BackpressureShape, FinishEnds DEF DispatchFault
<1>3. CASE ~Backpressure(f) /\ ~DispatchFault(f)
  <2>1. fiber' = [fiber EXCEPT ![f].held = FreshHandle, ![f].rounds = 0]
        /\ pc' \in {"body", "sensor"} /\ UNCHANGED <<queueVars, running>>
    BY <1>3 DEF HostCallAsync, TriggerCall
  <2>2. SameFibers /\ SameResults
    BY <1>1, <2>1, RecordTypes DEF SameFibers, SameResults, Steady, Kept, FiberRecord
  <2> QED
    BY <2>1, <2>2 DEF GoesOn, SamePlaces
<1> QED
  BY <1>2, <1>3

LEMMA BodyShape ==
    ASSUME RuntimeInv, NEW f \in Fibers, HostBody(f) \/ TriggerBody(f)
    PROVE  GoesOn \/ Ends(f)
<1>1. fiber[f].state = "Runnable" /\ FiberInv
  BY DEF HostBody, TriggerBody, RuntimeInv, ControlInv, Dispatching
<1>2. CASE FinishSlice(f, "Fault")
  BY <1>1, <1>2, FinishEnds
<1>3. CASE ~FinishSlice(f, "Fault")
  <2>1. fiber' = [fiber EXCEPT ![f].ip = @ + 1] /\ pc' = "slice"
        /\ UNCHANGED <<queueVars, running>>
    BY <1>3 DEF HostBody, TriggerBody
  <2> QED
    BY <1>1, <2>1, InstructionSteady DEF GoesOn, SamePlaces
<1> QED
  BY <1>2, <1>3

LEMMA ThrowShape ==
    ASSUME FiberInv, NEW f \in Fibers, pc = "slice", fiber[f].state = "Runnable", Throw(f)
    PROVE  GoesOn \/ Ends(f)
<1>1. CASE FinishSlice(f, "Fault")
  BY <1>1, FinishEnds
<1>2. CASE ~FinishSlice(f, "Fault")
  <2>1. fiber' = [fiber EXCEPT ![f].throwing = FALSE, ![f].held = NoHandle]
        /\ Continue /\ UNCHANGED queueVars
    BY <1>2 DEF Throw
  <2>2. SameFibers /\ SameResults
    BY <2>1, RecordTypes DEF SameFibers, SameResults, Steady, Kept, FiberRecord
  <2> QED
    BY <2>1, <2>2 DEF GoesOn, SamePlaces, Continue
<1> QED
  BY <1>1, <1>2

LEMMA AwaitShape ==
    ASSUME RuntimeInv, NEW f \in Fibers, Await(f)
    PROVE  GoesOn \/ Ends(f) \/ Parks(f)
<1>1. pc = "slice" /\ fiber[f].state = "Runnable" /\ FiberInv
  BY DEF Await, AwaitMissing, AwaitSettled, AwaitPending, Awaits, InSlice, RuntimeInv
<1>2. CASE AwaitMissing(f)
  BY <1>1, <1>2, FinishEnds DEF AwaitMissing
<1>3. CASE AwaitSettled(f)
  <2>1. PICK h \in Handles :
           IF hstate[h] = "Resolved"
           THEN /\ fiber' = [fiber EXCEPT ![f].held = NoHandle, ![f].top = hresult[h]]
                /\ Continue
                /\ UNCHANGED queueVars
           ELSE Throw(f)
    BY <1>3 DEF AwaitSettled
  <2>2. CASE hstate[h] = "Resolved"
    <3>1. SameFibers /\ SameResults
      BY <1>1, <2>1, <2>2, RecordTypes DEF SameFibers, SameResults, Steady, Kept, FiberRecord
    <3> QED
      BY <1>1, <2>1, <2>2, <3>1 DEF GoesOn, SamePlaces, Continue
  <2>3. CASE hstate[h] # "Resolved"
    BY <1>1, <2>1, <2>3, ThrowShape
  <2> QED
    BY <2>2, <2>3
<1>4. CASE AwaitPending(f)
  <2>1. PICK h \in Handles :
           fiber' = [fiber EXCEPT ![f].state = "Waiting", ![f].held = NoHandle,
                                  ![f].await = h]
    BY <1>4 DEF AwaitPending
  <2>2. Turns(f, "Waiting")
    BY <1>1, <2>1, RecordTypes DEF Turns, SameResults, Steady, Kept, FiberRecord
  <2> QED
    BY <1>1, <1>4, <2>2 DEF AwaitPending, EndSlice, Parks
<1> QED
  BY <1>2, <1>3, <1>4 DEF Await

LEMMA ActionCallShape ==
    ASSUME RuntimeInv, NEW f \in Fibers, ActionCallAsync(f)
    PROVE  Ends(f) \/ Yields(f) \/ StartsAction(f)
<1>1. /\ pc = "slice" /\ running = f /\ fiber[f].state = "Runnable" /\ FiberInv
      /\ Arg(f) \in Actions
  BY AtInstruction DEF ActionCallAsync, RuntimeInv
<1>2. CASE Backpressure(f) \/ DispatchFault(f)
  BY <1>1, <1>2, BackpressureShape, FinishEnds DEF DispatchFault
<1>3. CASE CanCreate(TRUE) /\ CanSpawn /\ ~Backpressure(f) /\ ~DispatchFault(f)
  <2> DEFINE child == NewFiber(Arg(f), fiber[f].rule, NoRule, FreshHandle)
  <2>1. FreshHandle \in Handles /\ FreshFiber \in Fibers /\ fiber[FreshFiber].state = "Free"
    BY <1>3, FreshHandleType, FreshFiberType
  <2>2. fiber' = [fiber EXCEPT
                ![f].held = FreshHandle, ![f].ip = @ + 1, ![f].rounds = 0,
                ![FreshFiber] = child]
    BY <1>3 DEF ActionCallAsync
  <2> HIDE DEF child
  <2>3. /\ \A g \in Fibers : g # FreshFiber => Steady(g) /\ fiber'[g].result = fiber[g].result
        /\ fiber'[FreshFiber] = child
    BY <1>1, <2>1, <2>2, RecordTypes DEF Steady, Kept, FiberRecord
  <2>4. Born(FreshFiber, Arg(f), fiber[f].rule, NoRule, FreshHandle)
    BY <2>1, <2>3 DEF Born, child
  <2> QED
    BY <1>1, <1>3, <2>1, <2>4 DEF ActionCallAsync, Continue, StartsAction
<1> QED
  BY <1>2, <1>3 DEF ActionCallAsync

LEMMA SpawnRuleShape ==
    ASSUME RuntimeInv, NEW f \in Fibers, SpawnRule(f)
    PROVE  Ends(f) \/ StartsChild(f)
<1>1. /\ pc = "slice" /\ running = f /\ fiber[f].state = "Runnable" /\ FiberInv
      /\ Arg(f) \in Rules /\ At(f, "spawn")
  BY AtInstruction DEF SpawnRule, RuntimeInv
<1>2. fiber[f].func \in Rules
  BY CodeAssumption, RunnableFiber DEF SpawnRule, At, AtNext, InSlice, RuntimeInv
<1>3. CASE DispatchFault(f)
  BY <1>1, <1>3, FinishEnds DEF DispatchFault
<1>4. CASE CanSpawn /\ ~DispatchFault(f)
  <2> DEFINE child == NewFiber(Arg(f), Arg(f), RootOf(f), NoHandle)
  <2>1. FreshFiber \in Fibers /\ fiber[FreshFiber].state = "Free"
    BY <1>4, FreshFiberType
  <2>2. fiber' = [fiber EXCEPT ![f].ip = @ + 1, ![FreshFiber] = child]
    BY <1>4 DEF SpawnRule, RootOf
  <2> HIDE DEF child
  <2>3. /\ \A g \in Fibers : g # FreshFiber => Steady(g) /\ fiber'[g].result = fiber[g].result
        /\ fiber'[FreshFiber] = child
        /\ fiber'[f].ip = fiber[f].ip + 1
    BY <1>1, <2>1, <2>2, RecordTypes DEF Steady, Kept, FiberRecord
  <2>4. Born(FreshFiber, Arg(f), Arg(f), RootOf(f), NoHandle)
    BY <2>1, <2>3 DEF Born, child
  <2> QED
    BY <1>1, <1>2, <1>4, <2>3, <2>4 DEF SpawnRule, Continue, StartsChild
<1> QED
  BY <1>3, <1>4 DEF SpawnRule

(* The other instructions of a slice.                                      *)
LEMMA PlainShape ==
    ASSUME RuntimeInv, NEW f \in Fibers,
           \/ ClearDevice(f) \/ RequestPage(f) \/ WhenStart(f) \/ WhenGate(f)
           \/ Script(f) \/ YieldOp(f) \/ BudgetExpires(f) \/ Return(f)
    PROVE  GoesOn \/ Ends(f) \/ Yields(f)
<1> USE DEF RuntimeInv
<1>1. pc = "slice" /\ fiber[f].state = "Runnable" /\ FiberInv
  BY AtInstruction
  DEF ClearDevice, RequestPage, WhenStart, WhenGate, Script, YieldOp, BudgetExpires,
      Return, AtNext, InSlice
<1>2. CASE ClearDevice(f)
  BY <1>1, <1>2, InstructionSteady DEF ClearDevice, Continue, GoesOn, SamePlaces
<1>3. CASE RequestPage(f)
  BY <1>1, <1>3, InstructionSteady DEF RequestPage, GoesOn, SamePlaces
<1>4. CASE WhenStart(f)
  BY <1>1, <1>4, InstructionSteady DEF WhenStart, Continue, GoesOn, SamePlaces
<1>5. CASE WhenGate(f)
  <2>1. PICK fired \in BOOLEAN :
           fiber' = [fiber EXCEPT ![f].top = "any",
                 ![f].ip = IF fired THEN @ + 1 ELSE Len(Code[fiber[f].func]) + 1]
    BY <1>5 DEF WhenGate
  <2> DEFINE next == IF fired THEN fiber[f].ip + 1 ELSE Len(Code[fiber[f].func]) + 1
  <2>2. fiber[f].ip \in 1..Len(Code[fiber[f].func])
        /\ Len(Code[fiber[f].func]) \in Nat
    BY <1>1, <1>5, RunnableFiber, FunctionsAssumption, LenProperties DEF WhenGate, At
  <2>3. fiber[f].ip <= next
    BY <2>2
  <2>4. fiber' = [fiber EXCEPT ![f].top = "any", ![f].ip = next]
    BY <1>1, <2>1, RecordTypes DEF FiberRecord
  <2> HIDE DEF next
  <2>5. SameFibers /\ SameResults
    BY <1>1, <2>3, <2>4, RecordTypes DEF SameFibers, SameResults, Steady, Kept, FiberRecord
  <2> QED
    BY <1>1, <1>5, <2>5 DEF WhenGate, Continue, GoesOn, SamePlaces
<1>6. CASE Script(f)
  <2>1. CASE FinishSlice(f, "Fault")
    BY <1>1, <2>1, FinishEnds
  <2>2. CASE ~FinishSlice(f, "Fault")
    BY <1>1, <1>6, <2>2, InstructionSteady DEF Script, Continue, GoesOn, SamePlaces
  <2> QED
    BY <2>1, <2>2
<1>7. CASE YieldOp(f)
  <2> DEFINE record == [fiber[f] EXCEPT !.ip = @ + 1]
  <2>1. /\ record.state = "Runnable" /\ record.func = fiber[f].func
        /\ record.rule = fiber[f].rule /\ record.subtree = fiber[f].subtree
        /\ fiber[f].ip <= record.ip /\ record.result = fiber[f].result
    BY <1>1, RecordTypes DEF FiberRecord
  <2>2. YieldSlice(f, record)
    BY <1>7 DEF YieldOp
  <2> HIDE DEF record
  <2> QED
    BY <1>1, <2>1, <2>2, RecordYields
<1>8. CASE BudgetExpires(f)
  BY <1>1, <1>8, RecordTypes, RecordYields DEF BudgetExpires
<1>9. CASE Return(f)
  BY <1>1, <1>9, FinishEnds DEF Return
<1> QED
  BY <1>2, <1>3, <1>4, <1>5, <1>6, <1>7, <1>8, <1>9

LEMMA SliceStepShape ==
    ASSUME RuntimeInv, NEW f \in Fibers, SliceStep(f)
    PROVE  SliceShape(f)
<1>1. running = f /\ pc \in {"slice", "body", "sensor"}
  BY
  DEF SliceStep, HostCallAsync, HostBody, ClearDevice, TriggerCall, TriggerBody,
      ActionCallAsync, Await, AwaitMissing, AwaitSettled, AwaitPending, Awaits,
      InjectedThrow, SpawnRule, RequestPage, WhenStart, WhenGate, Script, YieldOp,
      BudgetExpires, Return, SliceCancelled, At, AtNext, InSlice
<1>2. CASE SliceCancelled(f)
  BY <1>1, <1>2 DEF SliceCancelled, EndSlice, Stops, SliceShape
<1>3. CASE InjectedThrow(f)
  BY <1>1, <1>3, ThrowShape DEF InjectedThrow, InSlice, SliceShape, RuntimeInv
<1>4. CASE ~SliceCancelled(f) /\ ~InjectedThrow(f)
  BY <1>1, <1>4, DispatchShape, BodyShape, AwaitShape, ActionCallShape, SpawnRuleShape,
     PlainShape
  DEF SliceStep, SliceShape
<1> QED
  BY <1>2, <1>3, <1>4

(* The settle walk, the drain and the cancellation.                        *)
LEMMA WalkShape ==
    ASSUME RuntimeInv, SettleRule \/ SettleResult
    PROVE  SameFibers /\ SamePlaces
<1>1. CASE SettleRule
  BY <1>1, SteadyFibers DEF SettleRule, SamePlaces, RuntimeInv
<1>2. CASE SettleResult
  <2>1. walk.fiber \in Fibers /\ FiberInv
    BY <1>2 DEF SettleResult, RuntimeInv, ControlInv
  <2>2. fiber' = [fiber EXCEPT ![walk.fiber].result = NoHandle] \/ UNCHANGED fiber
    BY <1>2 DEF SettleResult
  <2>3. SameFibers
    BY <2>1, <2>2, RecordTypes DEF SameFibers, Steady, Kept, FiberRecord
  <2> QED
    BY <1>2, <2>3 DEF SettleResult, SamePlaces
<1> QED
  BY <1>1, <1>2

Cancels(f) ==
    /\ pc = "cancel" /\ Alive(f) /\ Turns(f, "Cancelled")
    /\ LeaveQueue(f) /\ StartWalk(f)
    /\ UNCHANGED <<spawned, cascade, running, back>>
LEMMA CancelShape ==
    ASSUME RuntimeInv, CancelRoot \/ CancelChildRule
    PROVE  \E f \in Fibers : Cancels(f) /\ CancelRecord(f)
<1>1. ASSUME NEW f \in Fibers, pc = "cancel", Alive(f), CancelRecord(f) PROVE Cancels(f)
  <2>1. Turns(f, "Cancelled")
    BY <1>1, RecordTypes DEF CancelRecord, Turns, SameResults, Steady, Kept, FiberRecord, RuntimeInv
  <2> QED
    BY <1>1, <2>1 DEF CancelRecord, Cancels
<1>2. CASE CancelRoot
  <2>1. PICK i \in LiveRoots : pc = "cancel" /\ CancelRecord(ruleFibers[i].fiber)
    BY <1>2 DEF CancelRoot
  <2>2. ruleFibers[i].fiber \in Fibers /\ Alive(ruleFibers[i].fiber)
    BY EntryType DEF LiveRoots
  <2> QED
    BY <1>1, <2>1, <2>2
<1>3. CASE CancelChildRule
  BY <1>1, <1>3 DEF CancelChildRule, LiveChildRules
<1> QED
  BY <1>2, <1>3

Wakes(f) ==
    /\ fiber[f].state = "Waiting" /\ Turns(f, "Runnable")
    /\ runQueue' = Append(runQueue, f)
    /\ UNCHANGED <<spawned, cascade, running>>
LEMMA DrainShape ==
    ASSUME RuntimeInv, ResumeWaiter \/ ReclaimHandle
    PROVE  /\ (SameFibers /\ SamePlaces) \/ \E f \in Fibers : Wakes(f)
           /\ pc = "drain" /\ UNCHANGED <<pc, walk, back>> /\ SameResults
<1> DEFINE h == Head(completed)
           f == Head(waiters[h])
<1>1. FiberInv
  BY DEF RuntimeInv
<1>2. CASE ReclaimHandle
  <2>1. SameFibers /\ SameResults
    BY <1>1, <1>2, RecordTypes
    DEF ReclaimHandle, Forget, SameFibers, SameResults, Steady, Kept, FiberRecord
  <2> QED
    BY <1>2, <2>1 DEF ReclaimHandle, SamePlaces
<1>3. CASE ResumeWaiter /\ ~(fiber[f].state = "Waiting" /\ fiber[f].await = h)
  BY <1>1, <1>3, SteadyFibers DEF ResumeWaiter, SamePlaces, queueVars
<1>4. CASE ResumeWaiter /\ fiber[f].state = "Waiting" /\ fiber[f].await = h
  <2>1. h \in Handles
    BY <1>4, HeadTailProperties DEF ResumeWaiter, VisitWaiter, RuntimeInv, TableInv, HandleTypeOK
  <2>2. f \in Fibers
    BY <1>4, <2>1, HeadTailProperties
    DEF ResumeWaiter, VisitWaiter, RuntimeInv, TableInv, HandleTypeOK
  <2>3. Wake(f, h)
    BY <1>4 DEF ResumeWaiter
  <2>4. Turns(f, "Runnable")
    <3> HIDE DEF f, h
    <3>1. ASSUME NEW g \in Fibers
          PROVE  Kept(g) /\ fiber'[g].result = fiber[g].result /\ (g # f => fiber'[g].state = fiber[g].state)
      <4>1. CASE g = f
        BY <1>1, <2>3, <4>1, RecordTypes DEF Wake, Kept, FiberRecord
      <4>2. CASE g # f
        BY <1>1, <2>3, <4>2, RecordTypes DEF Wake, Kept
      <4> QED
        BY <4>1, <4>2
    <3>2. fiber'[f].state = "Runnable"
      BY <1>1, <2>2, <2>3, RecordTypes DEF Wake, FiberRecord
    <3> QED
      BY <2>2, <3>1, <3>2 DEF Turns, SameResults, Steady
  <2>5. Wakes(f)
    BY <1>4, <2>3, <2>4 DEF ResumeWaiter, Wake, Wakes
  <2> QED
    BY <1>4, <2>2, <2>4, <2>5 DEF ResumeWaiter, Turns
<1> QED
  BY <1>2, <1>3, <1>4

-----------------------------------------------------------------------------
(* Every runnable fiber is in one place.  QueueSound is not inductive: the *)
(* spawn list and the cascade may hold a fiber that was cancelled there,   *)
(* but no waiting one (its resume would queue it twice) and no finished    *)
(* one (a sweep would free it); and a sweep, an activation or a round must *)
(* find nobody running and nothing left to drain.                          *)
Quiet == running = NoFiber /\ spawned = << >> /\ cascade = << >>
EachOnce == Distinct(runQueue) /\ Distinct(spawned) /\ Distinct(cascade)
Placed ==
    \A f \in Fibers :
        /\ InSeq(f, runQueue) => /\ fiber[f].state = "Runnable"
                                 /\ ~InSeq(f, spawned) /\ ~InSeq(f, cascade) /\ running # f
        /\ InSeq(f, spawned) => ~InSeq(f, cascade) /\ running # f
        /\ InSeq(f, cascade) => running # f
        /\ InSeq(f, spawned) \/ InSeq(f, cascade) \/ running = f =>
              fiber[f].state \in {"Runnable", "Cancelled"}
        /\ fiber[f].state = "Runnable" =>
              InSeq(f, runQueue) \/ InSeq(f, spawned) \/ InSeq(f, cascade) \/ running = f

(* The settle walk of a cancellation, not of a fiber that ended its slice. *)
WalkCancels == fiber[walk.fiber].state = "Cancelled"
PlaceControl ==
    /\ pc \in {"activate", "idle", "drain", "respawn", "round", "fault", "down"} => Quiet
    /\ pc = "cancel" => back = "slice" \/ Quiet
    /\ pc = "settle" => /\ fiber[walk.fiber].state \in Terminal
                        /\ WalkCancels => back = "slice" \/ Quiet
                        /\ ~WalkCancels => running = NoFiber
    /\ pc = "cascade" => running = NoFiber
    /\ pc = "activate" => back \in {"idle", "respawn"}
PlaceInv == EachOnce /\ Placed /\ PlaceControl

(* Two sequences that share nothing, one after the other.                  *)
LEMMA ConcatElements ==
    ASSUME NEW S, NEW s \in Seq(S), NEW t \in Seq(S)
    PROVE  /\ \A x : InSeq(x, s \o t) <=> InSeq(x, s) \/ InSeq(x, t)
           /\ Distinct(s) /\ Distinct(t) /\ (\A x : ~(InSeq(x, s) /\ InSeq(x, t)))
                 => Distinct(s \o t)
<1> DEFINE m == Len(s)
           n == Len(t)
           u == s \o t
<1>1. m \in Nat /\ n \in Nat
  BY LenProperties
<1>2. Len(u) = m + n
      /\ \A i \in 1..(m + n) : u[i] = IF i <= m THEN s[i] ELSE t[i - m]
  BY ConcatProperties
<1> HIDE DEF u
<1>3. \A i \in 1..(m + n) : \/ i \in 1..m /\ u[i] = s[i]
                            \/ i > m /\ i - m \in 1..n /\ u[i] = t[i - m]
  BY <1>1, <1>2
<1>4. /\ \A i \in 1..m : i \in 1..(m + n) /\ u[i] = s[i]
      /\ \A i \in 1..n : i + m \in 1..(m + n) /\ u[i + m] = t[i]
  BY <1>1, <1>2
<1> HIDE DEF m, n
<1>5. ASSUME NEW x, InSeq(x, u) PROVE InSeq(x, s) \/ InSeq(x, t)
  <2>1. PICK i \in 1..(m + n) : u[i] = x
    BY <1>2, <1>5 DEF InSeq
  <2> QED
    BY <1>3, <2>1 DEF InSeq, m, n
<1>6. ASSUME NEW x, InSeq(x, s) \/ InSeq(x, t) PROVE InSeq(x, u)
  <2>1. (\E i \in 1..m : s[i] = x) \/ (\E i \in 1..n : t[i] = x)
    BY <1>6 DEF InSeq, m, n
  <2> QED
    BY <1>2, <1>4, <2>1 DEF InSeq
<1>7. ASSUME Distinct(s), Distinct(t), \A x : ~(InSeq(x, s) /\ InSeq(x, t))
      PROVE  Distinct(u)
  <2> SUFFICES ASSUME NEW i \in 1..(m + n), NEW j \in 1..(m + n), u[i] = u[j]
               PROVE  i = j
    BY <1>2 DEF Distinct
  <2>1. \A k \in 1..m, l \in 1..n : s[k] # t[l]
    BY <1>7 DEF InSeq, m, n
  <2>2. \A k, l \in 1..m : s[k] = s[l] => k = l
    BY <1>7 DEF Distinct, m
  <2>3. \A k, l \in 1..n : t[k] = t[l] => k = l
    BY <1>7 DEF Distinct, n
  <2>4. CASE i \in 1..m /\ j \in 1..m
    BY <1>1, <1>3, <2>2, <2>4
  <2>5. CASE i > m /\ j > m
    <3>1. i - m \in 1..n /\ j - m \in 1..n /\ t[i - m] = t[j - m]
      BY <1>1, <1>3, <2>5
    <3> QED
      BY <1>1, <2>3, <3>1
  <2>6. CASE (i \in 1..m /\ j > m) \/ (i > m /\ j \in 1..m)
    BY <1>1, <1>3, <2>1, <2>6
  <2> QED
    BY <1>1, <2>4, <2>5, <2>6
<1> QED
  BY <1>5, <1>6, <1>7 DEF u

LEMMA WithoutDistinct ==
    ASSUME NEW S, NEW s \in Seq(S), NEW x, Distinct(s)
    PROVE  /\ \A y : InSeq(y, Without(s, x)) <=> InSeq(y, s) /\ y # x
           /\ Distinct(Without(s, x))
<1>1. CASE InSeq(x, s)
  BY <1>1, WithoutElements
<1>2. CASE ~InSeq(x, s)
  BY <1>2 DEF Without
<1> QED
  BY <1>1, <1>2

LEMMA NothingInside ==
    \A x : ~InSeq(x, << >>)
BY EmptySeq DEF InSeq

-----------------------------------------------------------------------------
LEMMA SamePlaced ==
    ASSUME EachOnce, Placed, SameFibers, SamePlaces
    PROVE  EachOnce' /\ Placed'
<1>1. EachOnce'
  BY DEF EachOnce, SamePlaces, queueVars
<1>2. Placed'
  BY DEF Placed, SamePlaces, SameFibers, Steady, queueVars
<1> QED
  BY <1>1, <1>2

(* The running fiber leaves its slice, for good or for a while.            *)
LEMMA EndsPlaced ==
    ASSUME RuntimeInv, PlaceInv, NEW f \in Fibers, running = f, Ends(f) \/ Parks(f) \/ Stops(f)
    PROVE  PlaceInv'
<1>1. running' = NoFiber /\ NoFiber \notin Fibers /\ UNCHANGED <<runQueue, spawned, cascade>>
  BY FunctionsAssumption DEF Ends, Parks, Stops, queueVars
<1>2. EachOnce'
  BY <1>1 DEF PlaceInv, EachOnce
<1>3. Placed'
  <2>1. /\ \A g \in Fibers : g # f => fiber'[g].state = fiber[g].state
        /\ fiber'[f].state # "Runnable"
    BY DEF Ends, Parks, Stops, Turns, Steady
  <2> QED
    BY <1>1, <2>1 DEF PlaceInv, Placed
<1>4. PlaceControl'
  BY <1>1 DEF Ends, Parks, Stops, Turns, StartWalk, PlaceControl, WalkCancels, Terminal
<1> QED
  BY <1>2, <1>3, <1>4 DEF PlaceInv

LEMMA YieldsPlaced ==
    ASSUME RuntimeInv, PlaceInv, NEW f \in Fibers, running = f, Yields(f)
    PROVE  PlaceInv'
<1>1. running' = NoFiber /\ NoFiber \notin Fibers /\ UNCHANGED <<spawned, cascade>>
      /\ pc' = "cascade"
  BY FunctionsAssumption DEF Yields
<1>2. ~InSeq(f, runQueue) /\ Distinct(runQueue) /\ runQueue \in Seq(Fibers)
  BY DEF PlaceInv, Placed, EachOnce, RuntimeInv, QueueTypeOK
<1>3. /\ \A g : InSeq(g, runQueue') <=> InSeq(g, runQueue) \/ g = f
      /\ Distinct(runQueue')
  BY <1>2, AppendElements DEF Yields
<1>4. EachOnce'
  BY <1>1, <1>3 DEF PlaceInv, EachOnce
<1>5. Placed'
  BY <1>1, <1>3 DEF PlaceInv, Placed, Yields, SameFibers, Steady
<1> QED
  BY <1>1, <1>4, <1>5 DEF PlaceInv, PlaceControl

(* A fresh fiber was in no place.                                          *)
LEMMA BornNowhere ==
    ASSUME Placed, NEW n \in Fibers, fiber[n].state = "Free"
    PROVE  ~InSeq(n, runQueue) /\ ~InSeq(n, spawned) /\ ~InSeq(n, cascade) /\ running # n
BY DEF Placed

LEMMA QueuedPlaced ==
    ASSUME RuntimeInv, PlaceInv, NEW n \in Fibers, fiber[n].state \notin {"Runnable", "Cancelled"},
           \A g \in Fibers : g # n => fiber'[g].state = fiber[g].state,
           fiber'[n].state = "Runnable",
           runQueue' = Append(runQueue, n), UNCHANGED <<spawned, cascade, running>>
    PROVE  EachOnce' /\ Placed'
<1>1. ~InSeq(n, runQueue) /\ ~InSeq(n, spawned) /\ ~InSeq(n, cascade) /\ running # n
  BY DEF PlaceInv, Placed
<1>2. /\ \A g : InSeq(g, runQueue') <=> InSeq(g, runQueue) \/ g = n
      /\ Distinct(runQueue')
  BY <1>1, AppendElements DEF PlaceInv, EachOnce, RuntimeInv, QueueTypeOK
<1>3. EachOnce'
  BY <1>2 DEF PlaceInv, EachOnce
<1>4. Placed'
  BY <1>1, <1>2 DEF PlaceInv, Placed
<1> QED
  BY <1>3, <1>4

LEMMA StartsPlaced ==
    ASSUME RuntimeInv, PlaceInv, NEW f \in Fibers, pc \in {"slice", "body", "sensor"},
           StartsAction(f) \/ StartsChild(f)
    PROVE  PlaceInv'
<1> DEFINE n == FreshFiber
<1>1. /\ n \in Fibers /\ fiber[n].state = "Free" /\ fiber'[n].state = "Runnable"
      /\ \A g \in Fibers : g # n => fiber'[g].state = fiber[g].state
  <2>1. PICK fn, r, root, res : Born(n, fn, r, root, res)
    BY DEF StartsAction, StartsChild
  <2>2. NewFiber(fn, r, root, res).state = "Runnable"
    BY DEF NewFiber
  <2> HIDE DEF n
  <2> QED
    BY <2>1, <2>2 DEF Born, Steady
<1> HIDE DEF n
<1>2. PlaceControl'
  BY DEF StartsAction, StartsChild, PlaceControl
<1>3. CASE StartsAction(f)
  <2>1. runQueue' = Append(runQueue, n) /\ UNCHANGED <<spawned, cascade, running>>
    BY <1>3 DEF StartsAction, n
  <2> QED
    BY <1>1, <1>2, <2>1, QueuedPlaced DEF PlaceInv
<1>4. CASE StartsChild(f)
  <2>1. spawned' = Append(spawned, n) /\ UNCHANGED <<runQueue, cascade, running>>
    BY <1>4 DEF StartsChild, n
  <2>2. ~InSeq(n, runQueue) /\ ~InSeq(n, spawned) /\ ~InSeq(n, cascade) /\ running # n
    BY <1>1, BornNowhere DEF PlaceInv
  <2>3. /\ \A g : InSeq(g, spawned') <=> InSeq(g, spawned) \/ g = n
        /\ Distinct(spawned')
    BY <1>1, <2>1, <2>2, AppendElements DEF PlaceInv, EachOnce, RuntimeInv, QueueTypeOK
  <2>4. EachOnce'
    BY <2>1, <2>3 DEF PlaceInv, EachOnce
  <2>5. Placed'
    BY <1>1, <2>1, <2>2, <2>3 DEF PlaceInv, Placed
  <2> QED
    BY <1>2, <2>4, <2>5 DEF PlaceInv
<1> QED
  BY <1>3, <1>4

LEMMA SliceStepPlaced ==
    ASSUME RuntimeInv, PlaceInv, NEW f \in Fibers, SliceStep(f)
    PROVE  PlaceInv'
<1>1. SliceShape(f)
  BY SliceStepShape
<1>2. CASE GoesOn
  <2>1. PlaceControl'
    BY <1>2 DEF GoesOn, PlaceControl
  <2> QED
    BY <1>2, <2>1, SamePlaced DEF GoesOn, PlaceInv
<1> QED
  BY <1>1, <1>2, EndsPlaced, YieldsPlaced, StartsPlaced DEF SliceShape

LEMMA WalkPlaced ==
    ASSUME RuntimeInv, PlaceInv, SettleRule \/ SettleResult
    PROVE  PlaceInv'
<1>1. EachOnce' /\ Placed'
  BY WalkShape, SamePlaced DEF PlaceInv
<1>2. walk.fiber \in Fibers /\ fiber'[walk.fiber].state = fiber[walk.fiber].state
  BY WalkShape DEF SettleRule, SettleResult, RuntimeInv, ControlInv, SameFibers, Steady
<1>3. CASE SettleRule
  <2>1. walk'.fiber = walk.fiber
    BY <1>3 DEF SettleRule, RuntimeInv, ControlInv, ControlTypeOK
  <2>2. PlaceControl'
    BY <1>2, <1>3, <2>1
    DEF SettleRule, PlaceInv, PlaceControl, WalkCancels, Quiet, queueVars
  <2> QED
    BY <1>1, <2>2 DEF PlaceInv
<1>4. CASE SettleResult
  <2>1. PlaceControl'
    BY <1>4
    DEF SettleResult, PlaceInv, PlaceControl, WalkCancels, Quiet, queueVars
  <2> QED
    BY <1>1, <2>1 DEF PlaceInv
<1> QED
  BY <1>3, <1>4

LEMMA CancelPlaced ==
    ASSUME RuntimeInv, PlaceInv, NEW f \in Fibers, Cancels(f)
    PROVE  PlaceInv'
<1>1. /\ \A g : InSeq(g, runQueue') <=> InSeq(g, runQueue) /\ g # f
      /\ Distinct(runQueue')
  BY WithoutDistinct DEF Cancels, LeaveQueue, PlaceInv, EachOnce, RuntimeInv, QueueTypeOK
<1>2. /\ \A g \in Fibers : g # f => fiber'[g].state = fiber[g].state
      /\ fiber'[f].state = "Cancelled"
      /\ fiber[f].state \in {"Runnable", "Waiting"}
      /\ UNCHANGED <<spawned, cascade, running, back>>
  BY DEF Cancels, Turns, Steady, Alive
<1>3. EachOnce'
  BY <1>1, <1>2 DEF PlaceInv, EachOnce
<1>4. Placed'
  BY <1>1, <1>2 DEF PlaceInv, Placed
<1>5. PlaceControl'
  BY <1>2 DEF Cancels, StartWalk, PlaceInv, PlaceControl, WalkCancels, Terminal, Quiet
<1> QED
  BY <1>3, <1>4, <1>5 DEF PlaceInv

LEMMA DrainPlaced ==
    ASSUME RuntimeInv, PlaceInv, ResumeWaiter \/ ReclaimHandle
    PROVE  PlaceInv'
<1>1. pc = "drain" /\ UNCHANGED <<pc, walk, back>>
  BY DrainShape
<1>2. CASE SameFibers /\ SamePlaces
  BY <1>1, <1>2, SamePlaced DEF PlaceInv, PlaceControl, SamePlaces, Quiet, queueVars
<1>3. CASE \E f \in Fibers : Wakes(f)
  <2>1. PICK f \in Fibers : Wakes(f)
    BY <1>3
  <2>2. EachOnce' /\ Placed'
    BY <2>1, QueuedPlaced DEF Wakes, Turns, Steady
  <2> QED
    BY <1>1, <2>1, <2>2 DEF Wakes, PlaceInv, PlaceControl, Quiet
<1> QED
  BY <1>2, <1>3, DrainShape

(* The cascade hands each child its slice, the newest children first.      *)
LEMMA CascadePlaced ==
    ASSUME RuntimeInv, PlaceInv, DetachSpawned \/ RunChild \/ CascadeDone
    PROVE  PlaceInv'
<1> USE DEF RuntimeInv, QueueTypeOK, PlaceInv
<1>1. pc = "cascade" /\ running = NoFiber /\ NoFiber \notin Fibers /\ UNCHANGED fiber
  BY FunctionsAssumption DEF DetachSpawned, RunChild, CascadeDone, PlaceControl
<1>2. CASE DetachSpawned
  <2>1. cascade' = spawned \o cascade /\ spawned' = << >> /\ UNCHANGED <<runQueue, running, pc>>
    BY <1>2 DEF DetachSpawned
  <2>2. \A x : InSeq(x, spawned) => x \in Fibers
    BY ElementOfSeq DEF InSeq
  <2>3. /\ \A x : InSeq(x, cascade') <=> InSeq(x, spawned) \/ InSeq(x, cascade)
        /\ Distinct(cascade')
    BY <2>1, <2>2, ConcatElements DEF EachOnce, Placed
  <2>4. Distinct(spawned') /\ \A x : ~InSeq(x, spawned')
    BY <2>1, NothingInside, EmptySeq DEF Distinct
  <2>5. EachOnce'
    BY <2>1, <2>3, <2>4 DEF EachOnce
  <2>6. Placed'
    BY <1>1, <2>1, <2>3, <2>4 DEF Placed
  <2> QED
    BY <1>1, <2>1, <2>5, <2>6 DEF PlaceControl
<1>3. CASE RunChild
  <2> DEFINE f == Head(cascade)
  <2>1. /\ cascade # << >> /\ cascade' = Tail(cascade) /\ spawned = << >>
        /\ UNCHANGED <<runQueue, spawned, back>>
    BY <1>3 DEF RunChild
  <2>2. f \in Fibers /\ InSeq(f, cascade)
    <3>1. f \in Fibers /\ f = cascade[1] /\ 1 \in 1..Len(cascade)
      BY <2>1, HeadTailProperties, EmptySeq
    <3> QED
      BY <3>1 DEF InSeq
  <2>3. /\ \A x : InSeq(x, cascade') <=> InSeq(x, cascade) /\ x # f
        /\ Distinct(cascade')
    BY <2>1, TailElements DEF EachOnce
  <2>4. EachOnce'
    BY <2>1, <2>3 DEF EachOnce
  <2>5. /\ fiber[f].state = "Runnable" => running' = f /\ pc' = "slice"
        /\ fiber[f].state # "Runnable" => UNCHANGED <<running, pc>>
    BY <1>3 DEF RunChild
  <2>6. Placed'
    BY <1>1, <2>1, <2>2, <2>3, <2>5 DEF Placed
  <2>7. PlaceControl'
    BY <1>1, <2>5 DEF PlaceControl
  <2> QED
    BY <2>4, <2>6, <2>7
<1>4. CASE CascadeDone
  <2>1. UNCHANGED <<runQueue, spawned, cascade, running>> /\ pc' = "round"
        /\ spawned = << >> /\ cascade = << >>
    BY <1>4 DEF CascadeDone, queueVars
  <2>2. EachOnce' /\ Placed'
    BY <1>1, <2>1, SteadyFibers, SamePlaced DEF SamePlaces, queueVars
  <2> QED
    BY <1>1, <2>1, <2>2 DEF PlaceControl, Quiet
<1> QED
  BY <1>2, <1>3, <1>4

(* The think loop between slices.                                          *)
LEMMA SpawnPlaced ==
    ASSUME RuntimeInv, PlaceInv, NEW r, CanSpawn, Spawn(r), UNCHANGED <<spawned, cascade, running>>
    PROVE  EachOnce' /\ Placed'
<1> DEFINE n == FreshFiber
<1>1. n \in Fibers /\ fiber[n].state = "Free"
  BY FreshFiberType
<1>2. NewFiber(r, r, NoRule, NoHandle).state = "Runnable"
  BY DEF NewFiber
<1>3. fiber'[n].state = "Runnable" /\ \A g \in Fibers : g # n => fiber'[g].state = fiber[g].state
  BY <1>1, <1>2, RecordTypes DEF Spawn, RuntimeInv
<1>4. runQueue' = Append(runQueue, n)
  BY DEF Spawn
<1> HIDE DEF n
<1> QED
  BY <1>1, <1>3, <1>4, QueuedPlaced

LEMMA LoopPlaced ==
    ASSUME RuntimeInv, PlaceInv,
           \/ ActivateRule \/ ActivationDone \/ DrainDone \/ RespawnRule \/ OpenRound
           \/ BeginThink \/ Shutdown
    PROVE  PlaceInv'
<1>1. pc \in {"activate", "idle", "drain", "respawn"} /\ Quiet /\ UNCHANGED running
  BY DEF ActivateRule, ActivationDone, DrainDone, RespawnRule, OpenRound, BeginThink,
         Shutdown, PlaceInv, PlaceControl
<1>2. UNCHANGED <<spawned, cascade>>
  BY DEF ActivateRule, ActivationDone, DrainDone, RespawnRule, OpenRound, BeginThink,
         Shutdown, queueVars
<1>3. EachOnce' /\ Placed'
  <2>1. CASE CanSpawn /\ \E r : Spawn(r)
    BY <1>1, <1>2, <2>1, SpawnPlaced
  <2>2. CASE UNCHANGED <<fiber, runQueue>>
    BY <1>1, <1>2, <2>2, SteadyFibers, SamePlaced
    DEF SamePlaces, queueVars, PlaceInv, RuntimeInv
  <2> QED
    BY <2>1, <2>2
    DEF ActivateRule, ActivationDone, DrainDone, RespawnRule, OpenRound, BeginThink,
        Shutdown, queueVars
<1>4. Quiet'
  BY <1>1, <1>2 DEF Quiet
<1>5. PlaceControl'
  BY <1>4
  DEF ActivateRule, ActivationDone, DrainDone, RespawnRule, OpenRound, BeginThink,
      Shutdown, PlaceInv, PlaceControl
<1> QED
  BY <1>3, <1>5 DEF PlaceInv

LEMMA CancelDonePlaced ==
    ASSUME RuntimeInv, PlaceInv, CancelDone
    PROVE  PlaceInv'
<1>1. UNCHANGED <<fiber, runQueue, spawned, cascade, running>>
  BY DEF CancelDone, queueVars
<1>2. EachOnce' /\ Placed'
  BY <1>1, SteadyFibers, SamePlaced DEF SamePlaces, queueVars, PlaceInv, RuntimeInv
<1>3. PlaceControl'
  BY <1>1 DEF CancelDone, PlaceInv, PlaceControl, Quiet
<1> QED
  BY <1>2, <1>3 DEF PlaceInv

LEMMA RunNextPlaced ==
    ASSUME RuntimeInv, PlaceInv, RunNext
    PROVE  PlaceInv'
<1> USE DEF RuntimeInv, QueueTypeOK, PlaceInv
<1> DEFINE f == Head(runQueue)
<1>1. /\ runQueue # << >> /\ runQueue' = Tail(runQueue)
      /\ UNCHANGED <<fiber, spawned, cascade, back>>
      /\ pc = "round" /\ Quiet /\ NoFiber \notin Fibers
  BY FunctionsAssumption DEF RunNext, PlaceControl
<1>2. f \in Fibers /\ InSeq(f, runQueue)
  <2>1. f \in Fibers /\ f = runQueue[1] /\ 1 \in 1..Len(runQueue)
    BY <1>1, HeadTailProperties, EmptySeq
  <2> QED
    BY <2>1 DEF InSeq
<1>3. /\ \A x : InSeq(x, runQueue') <=> InSeq(x, runQueue) /\ x # f
      /\ Distinct(runQueue')
  BY <1>1, TailElements DEF EachOnce
<1>4. EachOnce'
  BY <1>1, <1>3 DEF EachOnce
<1>5. running' = f /\ pc' = "slice"
  BY <1>2 DEF RunNext, Placed
<1>6. Placed'
  BY <1>1, <1>2, <1>3, <1>5, NothingInside DEF Placed, Quiet
<1>7. PlaceControl'
  BY <1>5 DEF PlaceControl
<1> QED
  BY <1>4, <1>6, <1>7

LEMMA SweepPlaced ==
    ASSUME RuntimeInv, PlaceInv, Sweep
    PROVE  PlaceInv'
<1>1. Quiet /\ pc' = "idle" /\ UNCHANGED <<runQueue, spawned, cascade, running, back>>
  BY DEF Sweep, PlaceInv, PlaceControl, queueVars
<1>2. EachOnce'
  BY <1>1 DEF PlaceInv, EachOnce
<1>3. \A g \in Fibers : fiber'[g].state = "Runnable" <=> fiber[g].state = "Runnable"
  BY FreeFiberSound DEF Sweep, FiberHas, Terminal
<1>4. Placed'
  BY <1>1, <1>3, NothingInside, FunctionsAssumption DEF PlaceInv, Placed, Quiet
<1>5. PlaceControl'
  BY <1>1 DEF PlaceControl, Quiet
<1> QED
  BY <1>2, <1>4, <1>5 DEF PlaceInv

LEMMA DevicePlaced ==
    ASSUME RuntimeInv, PlaceInv, \/ \E h \in Handles : DeviceSettle(h)
                               \/ UNCHANGED vars
    PROVE  PlaceInv'
<1>1. UNCHANGED <<fiber, runQueue, spawned, cascade, running, pc, walk, back>>
  BY DEF DeviceSettle, vars, queueVars
<1> QED
  BY <1>1, SteadyFibers, SamePlaced
  DEF SamePlaces, queueVars, PlaceInv, RuntimeInv, PlaceControl, WalkCancels, Quiet

LEMMA InitPlaceInv ==
    Init => PlaceInv
<1> SUFFICES ASSUME Init PROVE PlaceInv
  OBVIOUS
<1>1. \A f \in Fibers : fiber[f].state = "Free"
  BY FreeFiberSound DEF Init
<1>2. EachOnce
  BY EmptySeq DEF Init, EachOnce, Distinct
<1>3. Placed
  BY <1>1, NothingInside, FunctionsAssumption DEF Init, Placed
<1> QED
  BY <1>2, <1>3 DEF Init, PlaceInv, PlaceControl, Quiet

LEMMA NextPlaceInv ==
    RuntimeInv /\ PlaceInv /\ [Next]_vars => PlaceInv'
<1> SUFFICES ASSUME RuntimeInv, PlaceInv, [Next]_vars PROVE PlaceInv'
  OBVIOUS
<1>1. CASE SchedulerStep
  BY <1>1, SliceStepPlaced, WalkPlaced, CancelShape, CancelPlaced, DrainPlaced, CascadePlaced
  DEF SchedulerStep
<1>2. CASE ThinkStep /\ ~SchedulerStep
  BY <1>2, LoopPlaced, CancelDonePlaced, RunNextPlaced, SweepPlaced DEF ThinkStep
<1> QED
  BY <1>1, <1>2, LoopPlaced, DevicePlaced DEF Next, Stopped

(* At every step, a runnable fiber is in one queue, or runs; the spawn     *)
(* list and the cascade keep a child that was cancelled there; and nothing *)
(* is left in them when a round, an activation or a sweep begins.          *)
THEOREM PlacesInvariant ==
    Spec => []PlaceInv
BY InitPlaceInv, NextPlaceInv, RuntimeInvariant, PTL DEF Spec

(* A runnable fiber is in one place only, and the run queue holds no fiber *)
(* that a cancellation or a sweep has taken: none is dropped, none runs    *)
(* twice (tick, drainSpawnedSubtrees, cancelRecord, sweep).                *)
THEOREM QueuesSound ==
    Spec => []QueueSound
<1>1. RuntimeInv /\ PlaceInv => QueueSound
  <2> SUFFICES ASSUME RuntimeInv, PlaceInv PROVE QueueSound
    OBVIOUS
  <2> USE DEF RuntimeInv, QueueTypeOK, PlaceInv
  <2> DEFINE slot == IF running = NoFiber THEN << >> ELSE <<running>>
             ready == runQueue \o spawned
             queued == ready \o cascade
  <2>1. \A x : InSeq(x, runQueue) \/ InSeq(x, spawned) \/ InSeq(x, cascade) => x \in Fibers
    BY ElementOfSeq DEF InSeq
  <2>2. /\ ready \in Seq(Fibers) /\ Distinct(ready)
        /\ \A x : InSeq(x, ready) <=> InSeq(x, runQueue) \/ InSeq(x, spawned)
    BY <2>1, ConcatElements, ConcatProperties DEF EachOnce, Placed
  <2> HIDE DEF ready
  <2>3. /\ queued \in Seq(Fibers) /\ Distinct(queued)
        /\ \A x : InSeq(x, queued)
              <=> InSeq(x, runQueue) \/ InSeq(x, spawned) \/ InSeq(x, cascade)
    BY <2>1, <2>2, ConcatElements, ConcatProperties DEF EachOnce, Placed
  <2>4. /\ slot \in Seq(Fibers) /\ Distinct(slot)
        /\ \A x : InSeq(x, slot) <=> x = running /\ running # NoFiber
    <3>1. CASE running = NoFiber
      BY <3>1, EmptySeq, NothingInside DEF Distinct
    <3>2. CASE running # NoFiber
      BY <3>2 DEF ControlInv, ControlTypeOK, InSeq, Distinct
    <3> QED
      BY <3>1, <3>2
  <2> HIDE DEF slot, queued
  <2>5. /\ Distinct(queued \o slot)
        /\ \A x : InSeq(x, queued \o slot) <=> InSeq(x, queued) \/ InSeq(x, slot)
    BY <2>1, <2>3, <2>4, ConcatElements DEF Placed
  <2>6. \A f \in Fibers : fiber[f].state = "Runnable" => InSeq(f, queued \o slot)
    BY <2>3, <2>4, <2>5, FunctionsAssumption DEF Placed
  <2>7. \A i \in 1..Len(runQueue) : fiber[runQueue[i]].state = "Runnable"
    BY <2>1 DEF Placed, InSeq
  <2> QED
    BY <2>5, <2>6, <2>7 DEF QueueSound, ready, queued, slot
<1> QED
  BY <1>1, PlacesInvariant, RuntimeInvariant, PTL

-----------------------------------------------------------------------------
(* One page, and one firing of each of its rules.  The page's table names  *)
(* its root rules in order; a live rule fiber belongs to one of them, and  *)
(* a live root fiber is in its rule's entry, so that needsRespawn sees it. *)
(* A rule that is running has passed the SPAWN_RULE of every child rule    *)
(* beneath which something still runs: what it has yet to spawn is over.   *)
RuleEntries ==
    /\ Len(ruleFibers) <= Len(Roots[page])
    /\ \A i \in 1..Len(ruleFibers) : ruleFibers[i].rule = Roots[page][i]
    /\ pc = "activate" => cursor = Len(ruleFibers) + 1
    /\ pc \in {"activate", "respawn"} => page = desired
Rooted ==
    \A f \in LiveRuleFibers :
        /\ \E i \in 1..Len(ruleFibers) :
              /\ ruleFibers[i].rule = RootOf(f)
              /\ fiber[f].subtree = NoRule => ruleFibers[i].fiber = f
        /\ \A r \in Anc[fiber[f].func] : Parent[r] = NoRule => r = RootOf(f)
Spawning(fn, i, c) ==
    i \in 1..Len(Code[fn]) /\ Code[fn][i].op = "spawn" /\ Code[fn][i].arg = c
SpawnedOnce ==
    \A f, g \in LiveRuleFibers : \A c \in Anc[fiber[g].func] : \A i \in Nat :
        Spawning(fiber[f].func, i, c) => i < fiber[f].ip
Firings == Rooted /\ SpawnedOnce /\ OneFiring
PageOver ==
    page # desired =>
        LiveRuleFibers = {} \/ pc = "cancel" \/ (pc = "settle" /\ WalkCancels)
FiringInv == RuleEntries /\ Firings /\ PageOver

(* The rule tree: a rule's ancestors, itself among them, are closed upward.*)
LEMMA Ancestors ==
    ASSUME NEW r \in Rules
    PROVE  /\ r \in Anc[r] /\ Anc[r] \subseteq Rules
           /\ Parent[r] = NoRule => Anc[r] = {r}
           /\ Parent[r] # NoRule => Parent[r] \in Rules /\ Anc[r] = {r} \cup Anc[Parent[r]]
           /\ \A a \in Anc[r] : Parent[a] # NoRule => Parent[a] \in Anc[r]
<1>1. /\ r \in Anc[r] /\ Anc[r] \subseteq Rules
      /\ Parent[r] = NoRule => Anc[r] = {r}
      /\ Parent[r] # NoRule => Parent[r] \in Rules /\ Anc[r] = {r} \cup Anc[Parent[r]]
  BY RuleTreeAssumption
<1>2. ASSUME NEW a \in Anc[r], Parent[a] # NoRule PROVE Parent[a] \in Anc[r]
  <2>1. a \in Rules /\ Anc[a] \subseteq Anc[r]
    BY <1>1, RuleTreeAssumption
  <2>2. Parent[a] \in Rules /\ Parent[a] \in Anc[Parent[a]] /\ Anc[Parent[a]] \subseteq Anc[a]
    BY <1>2, <2>1, RuleTreeAssumption
  <2> QED
    BY <2>1, <2>2
<1> QED
  BY <1>1, <1>2

(* A child rule that is spawned somewhere is a child of the rule there, at *)
(* one place of its code.                                                  *)
LEMMA SpawnSites ==
    ASSUME NEW fn \in Funcs, NEW i, NEW c, Spawning(fn, i, c)
    PROVE  /\ fn \in Rules /\ c \in Rules /\ Parent[c] = fn /\ fn # NoRule
           /\ \A j : Spawning(fn, j, c) => j = i
<1>1. /\ Code[fn] \in Seq(Instr) /\ NoRule \notin Funcs
      /\ i \in 1..Len(Code[fn])
  BY FunctionsAssumption DEF Spawning
<1>2. fn \in Rules /\ c \in Rules /\ Parent[c] = fn
      /\ \A j \in 1..Len(Code[fn]) : Code[fn][j] = Code[fn][i] => j = i
  BY CodeAssumption DEF Spawning
<1>3. ASSUME NEW j, Spawning(fn, j, c) PROVE Code[fn][j] = Code[fn][i]
  <2>1. Code[fn][i] \in Instr /\ Code[fn][j] \in Instr
    BY <1>1, <1>3, ElementOfSeq DEF Spawning
  <2> QED
    BY <1>3, <2>1 DEF Spawning, Instr
<1> QED
  BY <1>1, <1>2, <1>3 DEF Spawning

LEMMA LiveRule ==
    ASSUME FiberInv, NEW f \in LiveRuleFibers
    PROVE  /\ f \in Fibers /\ fiber[f].func \in Rules /\ fiber[f].func \in Funcs
           /\ fiber[f].func # NoRule /\ RootOf(f) # NoRule
           /\ fiber[f].ip \in Nat
BY RecordTypes, FunctionsAssumption DEF LiveRuleFibers, RootOf, Funcs

-----------------------------------------------------------------------------
(* No rule fiber comes to life, and the page's table still names those     *)
(* that live.                                                              *)
Dwindles == \A f \in LiveRuleFibers' : f \in LiveRuleFibers /\ Kept(f)
EntriesKept ==
    /\ Len(ruleFibers') = Len(ruleFibers)
    /\ \A i \in 1..Len(ruleFibers) :
          /\ ruleFibers'[i].rule = ruleFibers[i].rule
          /\ ruleFibers[i].fiber \in LiveRuleFibers' =>
                ruleFibers'[i].fiber = ruleFibers[i].fiber

LEMMA KeptRoot ==
    ASSUME NEW f, Kept(f)
    PROVE  RootOf(f)' = RootOf(f)
BY DEF Kept, RootOf

LEMMA NextIp ==
    ASSUME FiberInv', NEW f \in Fibers
    PROVE  fiber'[f].ip \in Nat
BY DEF FiberInv, SoundRecord, FiberRecord

LEMMA FewerFirings ==
    ASSUME FiberInv, FiberInv', Firings, Dwindles, EntriesKept
    PROVE  Firings'
<1>1. ASSUME NEW f \in LiveRuleFibers'
      PROVE  /\ f \in LiveRuleFibers /\ fiber'[f].func = fiber[f].func
             /\ fiber'[f].subtree = fiber[f].subtree
             /\ RootOf(f)' = RootOf(f) /\ fiber[f].ip <= fiber'[f].ip
             /\ fiber[f].ip \in Nat /\ fiber'[f].ip \in Nat
  <2>1. f \in LiveRuleFibers /\ Kept(f)
    BY DEF Dwindles
  <2>2. f \in Fibers
    BY <2>1 DEF LiveRuleFibers
  <2> QED
    BY <2>1, <2>2, KeptRoot, LiveRule, RecordTypes, NextIp DEF Kept
<1>2. Rooted'
  BY <1>1 DEF Firings, Rooted, EntriesKept
<1>3. SpawnedOnce'
  <2> SUFFICES ASSUME NEW f \in LiveRuleFibers', NEW g \in LiveRuleFibers',
                      NEW c \in Anc[fiber'[g].func], NEW i \in Nat,
                      Spawning(fiber'[f].func, i, c)
               PROVE  i < fiber'[f].ip
    BY DEF SpawnedOnce, Spawning
  <2>1. i < fiber[f].ip
    BY <1>1 DEF Firings, SpawnedOnce
  <2> QED
    BY <1>1, <2>1
<1>4. OneFiring'
  BY <1>1 DEF Firings, OneFiring
<1> QED
  BY <1>2, <1>3, <1>4 DEF Firings

(* The steps of a fiber's life but its birth.                              *)
LEMMA SteadyDwindles ==
    SameFibers => Dwindles
BY DEF SameFibers, Steady, Dwindles, LiveRuleFibers, Alive, Kept

LEMMA TurnsDwindles ==
    ASSUME NEW f, NEW state, Turns(f, state),
           state \in {"Runnable", "Waiting"} => Alive(f)
    PROVE  Dwindles
BY DEF Turns, Steady, Dwindles, LiveRuleFibers, Alive, Kept

-----------------------------------------------------------------------------
(* A root rule fires: nothing of its last firing is left.                  *)
LEMMA RootFires ==
    ASSUME FiberInv, FiberInv', Firings, NEW r \in Rules, Parent[r] = NoRule,
           NEW n, Born(n, r, r, NoRule, NoHandle),
           \A g \in LiveRuleFibers : RootOf(g) # r,
           \A g \in LiveRuleFibers : \A i \in 1..Len(ruleFibers) :
              /\ ruleFibers[i].rule = RootOf(g) =>
                    i \in 1..Len(ruleFibers') /\ ruleFibers'[i] = ruleFibers[i],
           \E i \in 1..Len(ruleFibers') : ruleFibers'[i].rule = r /\ ruleFibers'[i].fiber = n
    PROVE  Firings'
<1>1. n \in Fibers /\ fiber[n].state = "Free" /\ fiber' = fiber'
      /\ \A g \in Fibers : g # n => Steady(g)
  BY DEF Born
<1>2. /\ fiber'[n].func = r /\ fiber'[n].subtree = NoRule /\ RootOf(n)' = r
      /\ fiber'[n].ip = 1
  BY DEF Born, NewFiber, RootOf
<1>3. Anc[r] = {r} /\ r # NoRule
  BY Ancestors, FunctionsAssumption DEF Funcs
<1>4. ASSUME NEW f \in LiveRuleFibers', f # n
      PROVE  /\ f \in LiveRuleFibers /\ fiber'[f].func = fiber[f].func
             /\ fiber'[f].subtree = fiber[f].subtree
             /\ RootOf(f)' = RootOf(f) /\ fiber[f].ip <= fiber'[f].ip
             /\ fiber[f].ip \in Nat /\ fiber'[f].ip \in Nat
             /\ fiber[f].func \in Rules /\ r \notin Anc[fiber[f].func]
  <2>1. f \in Fibers /\ Steady(f)
    BY <1>1, <1>4 DEF LiveRuleFibers
  <2>2. f \in LiveRuleFibers
    BY <2>1 DEF LiveRuleFibers, Steady, Kept, Alive
  <2>3. r \notin Anc[fiber[f].func]
    BY <2>2 DEF Firings, Rooted
  <2> QED
    BY <2>1, <2>2, <2>3, KeptRoot, LiveRule, RecordTypes, NextIp DEF Steady, Kept
<1>5. Rooted'
  <2> SUFFICES ASSUME NEW f \in LiveRuleFibers'
               PROVE  /\ \E i \in 1..Len(ruleFibers') :
                            /\ ruleFibers'[i].rule = RootOf(f)'
                            /\ fiber'[f].subtree = NoRule => ruleFibers'[i].fiber = f
                      /\ \A q \in Anc[fiber'[f].func] : Parent[q] = NoRule => q = RootOf(f)'
    BY DEF Rooted
  <2>1. CASE f = n
    BY <1>2, <1>3, <2>1
  <2>2. CASE f # n
    BY <1>4, <2>2 DEF Firings, Rooted
  <2> QED
    BY <2>1, <2>2
<1>6. SpawnedOnce'
  <2> SUFFICES ASSUME NEW f \in LiveRuleFibers', NEW g \in LiveRuleFibers',
                      NEW c \in Anc[fiber'[g].func], NEW i \in Nat,
                      Spawning(fiber'[f].func, i, c)
               PROVE  i < fiber'[f].ip
    BY DEF SpawnedOnce, Spawning
  <2>1. fiber'[f].func \in Rules /\ fiber'[f].func \in Funcs
    BY <1>2, <1>4 DEF Funcs
  <2>2. Parent[c] = fiber'[f].func /\ Parent[c] # NoRule
    BY <2>1, SpawnSites
  <2>3. g # n
    BY <1>2, <1>3, <2>2
  <2>4. f # n
    BY <1>2, <1>4, <2>2, <2>3, Ancestors
  <2>5. i < fiber[f].ip
    BY <1>4, <2>3, <2>4 DEF Firings, SpawnedOnce
  <2> QED
    BY <1>4, <2>4, <2>5
<1>7. OneFiring'
  <2> SUFFICES ASSUME NEW f \in LiveRuleFibers', NEW g \in LiveRuleFibers',
                      fiber'[f].func = fiber'[g].func
               PROVE  f = g
    BY DEF OneFiring
  <2>1. \A h \in LiveRuleFibers' : h # n => fiber'[h].func # r
    BY <1>4, Ancestors
  <2>2. CASE f = n \/ g = n
    BY <1>2, <2>1, <2>2
  <2>3. CASE f # n /\ g # n
    BY <1>4, <2>3 DEF Firings, OneFiring
  <2> QED
    BY <2>2, <2>3
<1> QED
  BY <1>5, <1>6, <1>7 DEF Firings

(* A rule spawns a child rule: the child's last firing is over, for the    *)
(* rule had not passed this place of its code.                             *)
LEMMA ChildFires ==
    ASSUME RuntimeInv, FiberInv', Firings, NEW f \in Fibers, StartsChild(f),
           UNCHANGED ruleFibers
    PROVE  Firings'
<1>0. PICK n : n = FreshFiber
  OBVIOUS
<1> DEFINE c == Arg(f)
           p == fiber[f].func
           k == fiber[f].ip
<1>1. f \in LiveRuleFibers /\ p \in Rules /\ c \in Rules /\ FiberInv
  BY DEF StartsChild, LiveRuleFibers, Alive, RuntimeInv
<1>2. Spawning(p, k, c) /\ k \in Nat
  BY <1>1, LiveRule DEF StartsChild, At, Arg, Spawning
<1>3. /\ n \in Fibers /\ fiber[n].state = "Free"
      /\ \A g \in Fibers : g # n => Steady(g)
      /\ fiber'[n] = NewFiber(c, c, RootOf(f), NoHandle)
      /\ fiber'[f].ip = k + 1
  BY <1>0 DEF StartsChild, Born
<1>4. /\ fiber'[n].func = c /\ fiber'[n].subtree = RootOf(f) /\ fiber'[n].ip = 1
      /\ RootOf(f) # NoRule /\ RootOf(n)' = RootOf(f)
  <2>1. RootOf(f) # NoRule
    BY <1>1, LiveRule
  <2>2. fiber'[n].func = c /\ fiber'[n].subtree = RootOf(f) /\ fiber'[n].ip = 1
    BY <1>3 DEF NewFiber
  <2>3. RootOf(n)' = IF fiber'[n].subtree # NoRule THEN fiber'[n].subtree ELSE fiber'[n].func
    BY DEF RootOf
  <2> QED
    BY <2>1, <2>2, <2>3
<1> HIDE DEF c, k
<1>5. /\ Parent[c] = p /\ p # NoRule /\ Anc[c] = {c} \cup Anc[p]
      /\ \A j : Spawning(p, j, c) => j = k
  BY <1>1, <1>2, SpawnSites, Ancestors DEF Funcs
<1>6. ASSUME NEW g \in LiveRuleFibers
      PROVE  c \notin Anc[fiber[g].func]
  BY <1>1, <1>2 DEF Firings, SpawnedOnce, k
<1>7. ASSUME NEW g \in LiveRuleFibers', g # n
      PROVE  /\ g \in LiveRuleFibers /\ fiber'[g].func = fiber[g].func
             /\ fiber'[g].subtree = fiber[g].subtree
             /\ RootOf(g)' = RootOf(g) /\ fiber[g].ip <= fiber'[g].ip
             /\ fiber[g].ip \in Nat /\ fiber'[g].ip \in Nat
             /\ fiber[g].func \in Rules
  <2>1. g \in Fibers /\ Steady(g)
    BY <1>3, <1>7 DEF LiveRuleFibers
  <2>2. g \in LiveRuleFibers
    BY <2>1 DEF LiveRuleFibers, Steady, Kept, Alive
  <2> QED
    BY <1>1, <2>1, <2>2, KeptRoot, LiveRule, RecordTypes, NextIp DEF Steady, Kept
<1>8. Rooted'
  <2> SUFFICES ASSUME NEW g \in LiveRuleFibers'
               PROVE  /\ \E i \in 1..Len(ruleFibers') :
                            /\ ruleFibers'[i].rule = RootOf(g)'
                            /\ fiber'[g].subtree = NoRule => ruleFibers'[i].fiber = g
                      /\ \A q \in Anc[fiber'[g].func] : Parent[q] = NoRule => q = RootOf(g)'
    BY DEF Rooted
  <2>1. CASE g = n
    <3>1. \E i \in 1..Len(ruleFibers) : ruleFibers[i].rule = RootOf(f)
      BY <1>1 DEF Firings, Rooted
    <3>2. \A q \in Anc[p] : Parent[q] = NoRule => q = RootOf(f)
      BY <1>1 DEF Firings, Rooted
    <3> QED
      BY <1>1, <1>4, <1>5, <2>1, <3>1, <3>2
  <2>2. CASE g # n
    BY <1>7, <2>2 DEF Firings, Rooted
  <2> QED
    BY <2>1, <2>2
<1>9. SpawnedOnce'
  <2> SUFFICES ASSUME NEW h \in LiveRuleFibers', NEW g \in LiveRuleFibers',
                      NEW d \in Anc[fiber'[g].func], NEW i \in Nat,
                      Spawning(fiber'[h].func, i, d)
               PROVE  i < fiber'[h].ip
    BY DEF SpawnedOnce, Spawning
  <2>1. fiber'[h].func \in Rules /\ fiber'[g].func \in Rules /\ fiber'[h].func \in Funcs
    BY <1>1, <1>4, <1>7 DEF Funcs
  <2>2. /\ Parent[d] = fiber'[h].func /\ Parent[d] # NoRule
        /\ \A j : Spawning(fiber'[h].func, j, d) => j = i
    BY <2>1, SpawnSites
  <2>3. h # n
    <3>1. ASSUME h = n PROVE c \in Anc[fiber'[g].func]
      BY <1>4, <2>1, <2>2, <3>1, Ancestors
    <3>2. CASE g # n
      BY <1>6, <1>7, <3>1, <3>2
    <3>3. CASE g = n
      <4>1. ASSUME h = n PROVE c \in Anc[p]
        BY <1>1, <1>4, <1>5, <2>2, <3>3, <4>1, Ancestors
      <4> QED
        BY <1>1, <1>6, <4>1
    <3> QED
      BY <3>2, <3>3
  <2>4. CASE g # n
    <3>1. i < fiber[h].ip
      BY <1>7, <2>3, <2>4 DEF Firings, SpawnedOnce
    <3> QED
      BY <1>7, <2>3, <3>1
  <2>5. CASE g = n /\ d = c
    <3>1. h = f
      BY <1>1, <1>5, <1>7, <2>2, <2>3, <2>5 DEF Firings, OneFiring
    <3>2. i = k
      BY <1>5, <1>7, <2>3, <2>5, <3>1
    <3> QED
      BY <1>2, <1>3, <3>1, <3>2
  <2>6. CASE g = n /\ d # c
    <3>1. d \in Anc[p]
      BY <1>4, <1>5, <2>6
    <3>2. i < fiber[h].ip
      BY <1>1, <1>7, <2>3, <3>1 DEF Firings, SpawnedOnce
    <3> QED
      BY <1>7, <2>3, <3>2
  <2> QED
    BY <2>4, <2>5, <2>6
<1>10. OneFiring'
  <2> SUFFICES ASSUME NEW h \in LiveRuleFibers', NEW g \in LiveRuleFibers',
                      fiber'[h].func = fiber'[g].func
               PROVE  h = g
    BY DEF OneFiring
  <2>1. \A g1 \in LiveRuleFibers' : g1 # n => fiber'[g1].func # c
    BY <1>1, <1>6, <1>7, Ancestors
  <2>2. CASE h = n \/ g = n
    BY <1>4, <2>1, <2>2
  <2>3. CASE h # n /\ g # n
    BY <1>7, <2>3 DEF Firings, OneFiring
  <2> QED
    BY <2>2, <2>3
<1> QED
  BY <1>8, <1>9, <1>10 DEF Firings
-----------------------------------------------------------------------------
(* The page and its table during a slice: only a request of a page, which  *)
(* cancels the page's rules at once, changes the page that is wanted.      *)
LEMMA SlicePages ==
    ASSUME NEW f \in Fibers, SliceStep(f)
    PROVE  /\ UNCHANGED <<page, ruleFibers>>
           /\ pc' # "cancel" => UNCHANGED desired
<1>1. CASE RequestPage(f)
  BY <1>1 DEF RequestPage
<1>2. CASE ~RequestPage(f)
  BY <1>2
  DEF SliceStep, HostCallAsync, HostBody, ClearDevice, TriggerCall, TriggerBody,
      ActionCallAsync, Await, AwaitMissing, AwaitSettled, AwaitPending, InjectedThrow,
      SpawnRule, WhenStart, WhenGate, Script, YieldOp, BudgetExpires, Return,
      SliceCancelled, Backpressure, DispatchFault, thinkVars, pageVars
<1> QED
  BY <1>1, <1>2

(* Fewer rule fibers, the same page.                                       *)
LEMMA FewerFiringInv ==
    ASSUME FiberInv, FiberInv', FiringInv, Dwindles, UNCHANGED <<page, ruleFibers>>,
           pc' \notin {"activate", "respawn"},
           \/ UNCHANGED desired /\ pc \notin {"cancel", "settle"}
           \/ PageOver'
    PROVE  FiringInv'
<1>1. RuleEntries'
  BY DEF FiringInv, RuleEntries
<1>2. EntriesKept
  BY DEF EntriesKept
<1>3. Firings'
  BY <1>2, FewerFirings DEF FiringInv
<1>4. PageOver'
  BY DEF FiringInv, PageOver, Dwindles
<1> QED
  BY <1>1, <1>3, <1>4 DEF FiringInv

LEMMA BornDwindles ==
    ASSUME NEW n, NEW fn \in Actions, NEW r, NEW root, NEW res, Born(n, fn, r, root, res)
    PROVE  Dwindles
<1>1. fiber'[n].func \notin Rules
  BY FunctionsAssumption DEF Born, NewFiber
<1>2. \A g \in Fibers : g # n => Steady(g)
  BY DEF Born
<1> QED
  BY <1>1, <1>2 DEF Steady, Dwindles, LiveRuleFibers, Alive, Kept

LEMMA SliceStepFirings ==
    ASSUME RuntimeInv, FiberInv', FiringInv, NEW f \in Fibers, SliceStep(f)
    PROVE  FiringInv'
<1>1. SliceShape(f) /\ FiberInv /\ pc \in {"slice", "body", "sensor"}
      /\ pc' \notin {"activate", "respawn"}
  BY SliceStepShape
  DEF SliceShape, GoesOn, Ends, StartWalk, Parks, Yields, StartsAction, StartsChild, Stops,
      RuntimeInv
<1>2. /\ UNCHANGED <<page, ruleFibers>>
      /\ pc' # "cancel" => UNCHANGED desired
  BY SlicePages
<1>3. pc' = "cancel" => PageOver'
  BY DEF PageOver
<1>4. CASE GoesOn \/ Yields(f)
  BY <1>1, <1>2, <1>3, <1>4, SteadyDwindles, FewerFiringInv DEF GoesOn, Yields
<1>5. CASE Ends(f) \/ Parks(f)
  <2>1. Dwindles
    BY <1>5, TurnsDwindles DEF Ends, Parks, Alive
  <2> QED
    BY <1>1, <1>2, <1>3, <2>1, FewerFiringInv
<1>6. CASE Stops(f)
  BY <1>1, <1>2, <1>3, <1>6, SteadyFibers, SteadyDwindles, FewerFiringInv DEF Stops
<1>7. CASE StartsAction(f)
  <2>1. Dwindles
    BY <1>7, BornDwindles DEF StartsAction
  <2> QED
    BY <1>1, <1>2, <1>3, <2>1, FewerFiringInv
<1>8. CASE StartsChild(f)
  <2>1. Firings'
    BY <1>2, <1>8, ChildFires DEF FiringInv
  <2>2. RuleEntries'
    BY <1>1, <1>2 DEF FiringInv, RuleEntries
  <2>3. f \in LiveRuleFibers
    BY <1>8 DEF StartsChild, LiveRuleFibers, Alive
  <2>4. page = desired
    BY <1>1, <2>3 DEF FiringInv, PageOver
  <2>5. PageOver'
    BY <1>2, <1>3, <2>4 DEF PageOver
  <2> QED
    BY <2>1, <2>2, <2>5 DEF FiringInv
<1> QED
  BY <1>1, <1>4, <1>5, <1>6, <1>7, <1>8 DEF SliceShape

LEMMA WalkFirings ==
    ASSUME RuntimeInv, FiberInv', FiringInv, SettleRule \/ SettleResult
    PROVE  FiringInv'
<1>1. Dwindles /\ FiberInv
  BY WalkShape, SteadyDwindles DEF RuntimeInv
<1>2. UNCHANGED <<page, desired, ruleFibers>> /\ pc = "settle" /\ pc' \in {"settle", "cancel", "cascade"}
  BY DEF SettleRule, SettleResult, thinkVars, pageVars
<1>3. PageOver'
  <2>1. page # desired => LiveRuleFibers = {} \/ WalkCancels
    BY <1>2 DEF FiringInv, PageOver
  <2>2. CASE SettleRule
    <3>1. walk'.fiber = walk.fiber /\ UNCHANGED <<fiber, pc>>
      BY <2>2 DEF SettleRule, RuntimeInv, ControlInv, ControlTypeOK
    <3> QED
      BY <1>2, <2>1, <3>1 DEF PageOver, LiveRuleFibers, Alive, WalkCancels
  <2>3. CASE SettleResult
    <3>1. WalkCancels => pc' = "cancel"
      BY <2>3 DEF SettleResult, WalkCancels
    <3> QED
      BY <1>1, <1>2, <2>1, <3>1 DEF PageOver, Dwindles
  <2> QED
    BY <2>2, <2>3
<1> QED
  BY <1>1, <1>2, <1>3, FewerFiringInv

LEMMA CancelFirings ==
    ASSUME RuntimeInv, FiberInv', FiringInv, CancelRoot \/ CancelChildRule
    PROVE  FiringInv'
<1>1. PICK f \in Fibers : Cancels(f) /\ CancelRecord(f)
  BY CancelShape
<1>2. Dwindles /\ FiberInv
  BY <1>1, TurnsDwindles DEF Cancels, RuntimeInv
<1>3. UNCHANGED <<page, desired, ruleFibers>>
  BY <1>1 DEF CancelRecord, thinkVars, pageVars
<1>4. pc' = "settle" /\ walk'.fiber = f /\ fiber'[f].state = "Cancelled"
  BY <1>1 DEF Cancels, StartWalk, Turns
<1>5. PageOver'
  BY <1>4 DEF PageOver, WalkCancels
<1> QED
  BY <1>2, <1>3, <1>4, <1>5, FewerFiringInv

LEMMA DrainFirings ==
    ASSUME RuntimeInv, FiberInv', FiringInv, ResumeWaiter \/ ReclaimHandle
    PROVE  FiringInv'
<1>1. pc = "drain" /\ UNCHANGED <<pc, page, desired, ruleFibers>> /\ FiberInv
  BY DEF ResumeWaiter, ReclaimHandle, thinkVars, pageVars, RuntimeInv
<1>2. Dwindles
  BY DrainShape, SteadyDwindles, TurnsDwindles DEF Wakes, Alive
<1> QED
  BY <1>1, <1>2, FewerFiringInv

(* The steps that leave every fiber as it is.                              *)
LEMMA CalmFirings ==
    ASSUME RuntimeInv, FiberInv', FiringInv,
           \/ DetachSpawned \/ RunChild \/ CascadeDone \/ BeginThink \/ OpenRound \/ RunNext
           \/ Shutdown \/ \E h \in Handles : DeviceSettle(h)
    PROVE  FiringInv'
<1>1. /\ UNCHANGED <<fiber, page, desired, ruleFibers>>
      /\ pc \in {"cascade", "idle", "respawn", "round", "body"}
      /\ pc' \notin {"activate", "respawn"}
  BY DEF DetachSpawned, RunChild, CascadeDone, BeginThink, OpenRound, RunNext, Shutdown,
         DeviceSettle, thinkVars, pageVars
<1>2. FiberInv /\ Dwindles
  BY <1>1, SteadyFibers, SteadyDwindles DEF RuntimeInv
<1> QED
  BY <1>1, <1>2, FewerFiringInv

-----------------------------------------------------------------------------
(* The think loop.  The table of a page, root rule by root rule.           *)
LEMMA SpawnBorn ==
    ASSUME FiberInv, NEW r, CanSpawn, Spawn(r)
    PROVE  Born(FreshFiber, r, r, NoRule, NoHandle)
<1> DEFINE child == NewFiber(r, r, NoRule, NoHandle)
<1>1. FreshFiber \in Fibers /\ fiber[FreshFiber].state = "Free"
  BY FreshFiberType
<1>2. fiber' = [fiber EXCEPT ![FreshFiber] = child]
  BY DEF Spawn
<1> HIDE DEF child
<1>3. /\ \A g \in Fibers : g # FreshFiber => Steady(g) /\ fiber'[g].result = fiber[g].result
      /\ fiber'[FreshFiber] = child
  BY <1>1, <1>2, RecordTypes DEF Steady, Kept
<1> QED
  BY <1>1, <1>3 DEF Born, child

LEMMA PageRoots ==
    ASSUME RuntimeInv
    PROVE  /\ page \in Pages /\ Roots[page] \in Seq(Rules) /\ Len(Roots[page]) \in Nat
           /\ Len(ruleFibers) \in Nat /\ cursor \in Nat \ {0}
           /\ ruleFibers \in Seq([rule : Rules, fiber : Fibers \cup {NoFiber}])
           /\ \A i \in 1..Len(Roots[page]) :
                 Roots[page][i] \in Rules /\ Parent[Roots[page][i]] = NoRule
           /\ \A i, j \in 1..Len(Roots[page]) : Roots[page][i] = Roots[page][j] => i = j
<1>1. page \in Pages /\ cursor \in Nat \ {0}
      /\ ruleFibers \in Seq([rule : Rules, fiber : Fibers \cup {NoFiber}])
  BY DEF RuntimeInv, PageTypeOK
<1>2. Roots[page] \in Seq(Rules)
  BY <1>1, PagesAssumption
<1>3. \A i \in 1..Len(Roots[page]) : Roots[page][i] \in Rules
  BY <1>2, ElementOfSeq
<1> QED
  BY <1>1, <1>2, <1>3, PagesAssumption, LenProperties

LEMMA ActivateFirings ==
    ASSUME RuntimeInv, FiberInv', FiringInv, ActivateRule
    PROVE  FiringInv'
<1> DEFINE m == Len(ruleFibers)
           r == Roots[page][cursor]
<1>1. /\ pc = "activate" /\ cursor = m + 1 /\ page = desired /\ m \in Nat
      /\ m <= Len(Roots[page]) /\ cursor \in 1..Len(Roots[page]) /\ FiberInv
      /\ UNCHANGED <<page, desired>>
  BY PageRoots DEF ActivateRule, FiringInv, RuleEntries, RuntimeInv
<1>2. /\ r \in Rules /\ Parent[r] = NoRule
      /\ \A i \in 1..m : ruleFibers[i].rule = Roots[page][i] /\ ruleFibers[i].rule # r
  BY <1>1, PageRoots DEF FiringInv, RuleEntries
<1>3. CASE CanSpawn
  <2>1. PICK n : n = FreshFiber
    OBVIOUS
  <2> DEFINE entry == [rule |-> r, fiber |-> n]
  <2>2. Spawn(r) /\ ruleFibers' = Append(ruleFibers, entry) /\ cursor' = cursor + 1
        /\ UNCHANGED pc
    BY <1>3, <2>1 DEF ActivateRule
  <2>3. Born(n, r, r, NoRule, NoHandle) /\ n \in Fibers
    BY <1>1, <1>3, <2>1, <2>2, SpawnBorn DEF Born
  <2>4. entry \in [rule : Rules, fiber : Fibers \cup {NoFiber}]
        /\ entry.rule = r /\ entry.fiber = n
    BY <1>2, <2>3
  <2> HIDE DEF entry
  <2>5. /\ Len(ruleFibers') = m + 1 /\ ruleFibers'[m + 1] = entry
        /\ \A i \in 1..m : ruleFibers'[i] = ruleFibers[i]
    BY <2>2, <2>4, PageRoots, AppendProperties
  <2> HIDE DEF m, r
  <2>6. \A g \in LiveRuleFibers : RootOf(g) # r
    BY <1>2 DEF FiringInv, Firings, Rooted, m
  <2>7. \A i \in 1..m : i \in 1..Len(ruleFibers') /\ ruleFibers'[i] = ruleFibers[i]
    BY <1>1, <2>5
  <2>8. m + 1 \in 1..Len(ruleFibers')
    BY <1>1, <2>5
  <2>9. Firings'
    BY <1>1, <1>2, <2>3, <2>4, <2>5, <2>6, <2>7, <2>8, RootFires DEF FiringInv, m
  <2>10. RuleEntries'
    <3>1. \A i \in 1..(m + 1) : i \in 1..m \/ i = m + 1
      BY <1>1
    <3> QED
      BY <1>1, <1>2, <2>2, <2>4, <2>5, <3>1 DEF RuleEntries, r
  <2> QED
    BY <1>1, <2>9, <2>10 DEF FiringInv, PageOver
<1>4. CASE ~CanSpawn
  <2>1. UNCHANGED <<fiber, ruleFibers>> /\ pc' = "fault"
    BY <1>4 DEF ActivateRule
  <2> QED
    BY <1>1, <2>1, SteadyFibers, SteadyDwindles, FewerFiringInv
<1> QED
  BY <1>3, <1>4

LEMMA RespawnFirings ==
    ASSUME RuntimeInv, FiberInv', FiringInv, RespawnRule
    PROVE  FiringInv'
<1> DEFINE m == Len(ruleFibers)
           e == ruleFibers[cursor]
           r == e.rule
<1>1. /\ pc = "respawn" /\ page = desired /\ m \in Nat
      /\ m <= Len(Roots[page]) /\ cursor \in 1..m /\ FiberInv
      /\ UNCHANGED <<page, desired>>
  BY PageRoots DEF RespawnRule, FiringInv, RuleEntries, RuntimeInv
<1>2. /\ r \in Rules /\ Parent[r] = NoRule
      /\ \A i \in 1..m : ruleFibers[i].rule = Roots[page][i]
      /\ \A i \in 1..m : ruleFibers[i].rule = r => i = cursor
  BY <1>1, PageRoots DEF FiringInv, RuleEntries
<1>3. CASE NeedsRespawn(e) /\ CanSpawn
  <2>1. PICK n : n = FreshFiber
    OBVIOUS
  <2>2. Spawn(r) /\ ruleFibers' = [ruleFibers EXCEPT ![cursor].fiber = n]
        /\ UNCHANGED pc
    BY <1>3, <2>1 DEF RespawnRule
  <2>3. Born(n, r, r, NoRule, NoHandle)
    BY <1>1, <1>3, <2>1, <2>2, SpawnBorn
  <2>4. e \in [rule : Rules, fiber : Fibers \cup {NoFiber}]
    BY <1>1, EntryType
  <2>5. /\ Len(ruleFibers') = m
        /\ ruleFibers'[cursor] = [e EXCEPT !.fiber = n]
        /\ \A i \in 1..m : i # cursor => ruleFibers'[i] = ruleFibers[i]
    BY <1>1, <2>2, PageRoots, LenProperties
  <2>6. ruleFibers'[cursor].rule = r /\ ruleFibers'[cursor].fiber = n
    BY <2>4, <2>5
  <2>7. \A g \in LiveRuleFibers : RootOf(g) # r
    <3> SUFFICES ASSUME NEW g \in LiveRuleFibers, RootOf(g) = r PROVE FALSE
      OBVIOUS
    <3>1. g \in Fibers /\ Alive(g) /\ NoFiber \notin Fibers
      BY FunctionsAssumption DEF LiveRuleFibers
    <3>2. CASE fiber[g].subtree # NoRule
      BY <1>3, <3>1, <3>2 DEF RootOf, NeedsRespawn, LiveDescendantOfRoot
    <3>3. CASE fiber[g].subtree = NoRule
      <4>1. PICK i \in 1..m : ruleFibers[i].rule = RootOf(g) /\ ruleFibers[i].fiber = g
        BY <3>3 DEF FiringInv, Firings, Rooted
      <4> QED
        BY <1>2, <1>3, <3>1, <4>1 DEF NeedsRespawn
    <3> QED
      BY <3>2, <3>3
  <2> HIDE DEF e, r, m
  <2>8. ASSUME NEW g \in LiveRuleFibers, NEW i \in 1..m, ruleFibers[i].rule = RootOf(g)
        PROVE  i \in 1..Len(ruleFibers') /\ ruleFibers'[i] = ruleFibers[i]
    BY <1>2, <2>5, <2>7, <2>8 DEF r, e
  <2>9. cursor \in 1..Len(ruleFibers')
    BY <1>1, <2>5
  <2>10. Firings'
    BY <1>1, <1>2, <2>3, <2>6, <2>7, <2>8, <2>9, RootFires DEF FiringInv, m
  <2>11. RuleEntries'
    BY <1>1, <1>2, <2>2, <2>5, <2>6 DEF RuleEntries, r, e
  <2> QED
    BY <1>1, <2>10, <2>11 DEF FiringInv, PageOver
<1>4. CASE ~(NeedsRespawn(e) /\ CanSpawn)
  <2>1. UNCHANGED <<fiber, ruleFibers>> /\ pc' \in {"respawn", "fault"}
    BY <1>4 DEF RespawnRule
  <2>2. Firings'
    BY <1>1, <2>1, SteadyFibers, SteadyDwindles, FewerFirings DEF EntriesKept, FiringInv
  <2> QED
    BY <1>1, <2>1, <2>2 DEF FiringInv, RuleEntries, PageOver
<1> QED
  BY <1>3, <1>4

(* The sweep forgets the fibers it frees, in the table too.                *)
LEMMA SweptEntries ==
    ASSUME RuntimeInv, Sweep
    PROVE  /\ Len(ruleFibers') = Len(ruleFibers)
           /\ \A i \in 1..Len(ruleFibers) :
                 /\ ruleFibers'[i].rule = ruleFibers[i].rule
                 /\ \/ ruleFibers'[i] = ruleFibers[i]
                    \/ ruleFibers'[i].fiber = NoFiber /\ ~Alive(ruleFibers[i].fiber)
<1> DEFINE Swept(i) == IF ruleFibers[i].fiber # NoFiber /\ FiberHas(ruleFibers[i].fiber, Terminal)
                       THEN [ruleFibers[i] EXCEPT !.fiber = NoFiber]
                       ELSE ruleFibers[i]
           n == Len(ruleFibers)
<1>1. \A i \in 1..n :
         /\ Swept(i).rule = ruleFibers[i].rule
         /\ \/ Swept(i) = ruleFibers[i]
            \/ Swept(i).fiber = NoFiber /\ ~Alive(ruleFibers[i].fiber)
  BY EntryType DEF FiberHas, Terminal, Alive
<1>2. n \in Nat
  BY PageRoots
<1>3. ruleFibers' = [i \in 1..n |-> Swept(i)]
  BY DEF Sweep
<1>4. PageTypeOK'
  BY SweepSound DEF SoundStep
<1> HIDE DEF Swept, n
<1>5. DOMAIN ruleFibers' = 1..n /\ \A i \in 1..n : ruleFibers'[i] = Swept(i)
  BY <1>3
<1>6. Len(ruleFibers') = n
  BY <1>2, <1>4, <1>5, LenProperties DEF PageTypeOK
<1> QED
  BY <1>1, <1>5, <1>6 DEF n

LEMMA SweepFirings ==
    ASSUME RuntimeInv, FiberInv', FiringInv, Sweep
    PROVE  FiringInv'
<1>1. /\ fiber' = [f \in Fibers |-> IF FiberHas(f, Terminal) THEN FreeFiber ELSE fiber[f]]
      /\ pc = "round" /\ pc' = "idle" /\ UNCHANGED <<page, desired>> /\ FiberInv
  BY DEF Sweep, RuntimeInv
<1>2. Dwindles
  <2> SUFFICES ASSUME NEW f \in LiveRuleFibers'
               PROVE  f \in LiveRuleFibers /\ Kept(f)
    BY DEF Dwindles
  <2>1. f \in Fibers /\ fiber'[f].state \in {"Runnable", "Waiting"} /\ fiber'[f].func \in Rules
    BY DEF LiveRuleFibers, Alive
  <2>2. fiber'[f] = fiber[f]
    BY <1>1, <2>1, FreeFiberSound
  <2> QED
    BY <1>1, <2>1, <2>2, RecordTypes DEF LiveRuleFibers, Alive, Kept
<1>3. EntriesKept
  <2> SUFFICES ASSUME NEW i \in 1..Len(ruleFibers), ruleFibers[i].fiber \in LiveRuleFibers'
               PROVE  ruleFibers'[i].fiber = ruleFibers[i].fiber
    BY SweptEntries DEF EntriesKept
  <2> QED
    BY <1>2, SweptEntries DEF Dwindles, LiveRuleFibers
<1>4. Firings'
  BY <1>1, <1>2, <1>3, FewerFirings DEF FiringInv
<1>5. RuleEntries'
  BY <1>1, SweptEntries DEF FiringInv, RuleEntries
<1>6. PageOver'
  BY <1>1, <1>2 DEF FiringInv, PageOver, Dwindles
<1> QED
  BY <1>4, <1>5, <1>6 DEF FiringInv

(* A page gives way once nothing of it is left.                            *)
LEMMA NobodyFires ==
    LiveRuleFibers' = {} => Firings'
BY DEF Firings, Rooted, SpawnedOnce, OneFiring

LEMMA CancelDoneFirings ==
    ASSUME RuntimeInv, FiberInv', FiringInv, CancelDone
    PROVE  FiringInv'
<1>1. LiveRuleFibers = {}
  <2> SUFFICES ASSUME NEW f \in LiveRuleFibers PROVE FALSE
    OBVIOUS
  <2>1. f \in Fibers /\ Alive(f) /\ NoFiber \notin Fibers
    BY FunctionsAssumption DEF LiveRuleFibers
  <2>2. fiber[f].subtree = NoRule
    BY <2>1 DEF CancelDone, LiveChildRules
  <2>3. PICK i \in 1..Len(ruleFibers) : ruleFibers[i].fiber = f
    BY <2>2 DEF FiringInv, Firings, Rooted
  <2> QED
    BY <2>1, <2>3 DEF CancelDone, LiveRoots
<1>2. LiveRuleFibers' = {}
  BY <1>1 DEF CancelDone, LiveRuleFibers, Alive
<1>3. RuleEntries'
  <2>1. Len(<< >>) = 0
    BY EmptySeq
  <2>2. CASE back = "slice"
    BY <2>2 DEF CancelDone, FiringInv, RuleEntries, pageVars
  <2>3. CASE back = "activate"
    <3>1. ruleFibers' = << >> /\ cursor' = 1 /\ page' = desired' /\ pc' = "activate"
      BY <2>3 DEF CancelDone
    <3>2. Len(Roots[page']) \in Nat
      BY <3>1, PagesAssumption, LenProperties DEF CancelDone, RuntimeInv, PageTypeOK
    <3> QED
      BY <2>1, <3>1, <3>2 DEF RuleEntries
  <2>4. CASE back = "down"
    <3>1. ruleFibers' = << >> /\ UNCHANGED page /\ pc' = "down"
      BY <2>4 DEF CancelDone
    <3>2. Len(Roots[page']) \in Nat
      BY <3>1, PageRoots
    <3> QED
      BY <2>1, <3>1, <3>2 DEF RuleEntries
  <2> QED
    BY <2>2, <2>3, <2>4 DEF CancelDone
<1> QED
  BY <1>2, <1>3, NobodyFires DEF FiringInv, PageOver

LEMMA TurnFirings ==
    ASSUME RuntimeInv, PlaceInv, FiberInv', FiringInv, ActivationDone \/ DrainDone
    PROVE  FiringInv'
<1>1. /\ UNCHANGED <<fiber, page, desired, ruleFibers>> /\ pc \in {"activate", "drain"}
      /\ FiberInv
  BY DEF ActivationDone, DrainDone, pageVars, RuntimeInv
<1>2. Firings'
  BY <1>1, SteadyFibers, SteadyDwindles, FewerFirings DEF EntriesKept, FiringInv
<1>3. RuleEntries'
  BY <1>1 DEF ActivationDone, DrainDone, PlaceInv, PlaceControl, FiringInv, RuleEntries
<1>4. PageOver'
  BY <1>1 DEF FiringInv, PageOver, LiveRuleFibers, Alive
<1> QED
  BY <1>2, <1>3, <1>4 DEF FiringInv

LEMMA InitFiringInv ==
    Init => FiringInv
<1> SUFFICES ASSUME Init PROVE FiringInv
  OBVIOUS
<1>1. LiveRuleFibers = {}
  BY FreeFiberSound DEF Init, LiveRuleFibers, Alive
<1>2. Len(ruleFibers) = 0 /\ Len(Roots[page]) \in Nat /\ cursor = 1
  BY EmptySeq, PagesAssumption, LenProperties DEF Init
<1> QED
  BY <1>1, <1>2
  DEF Init, FiringInv, RuleEntries, Firings, Rooted, SpawnedOnce, OneFiring, PageOver

LEMMA NextFiringInv ==
    RuntimeInv /\ PlaceInv /\ FiringInv /\ [Next]_vars => FiringInv'
<1> SUFFICES ASSUME RuntimeInv, PlaceInv, FiringInv, [Next]_vars PROVE FiringInv'
  OBVIOUS
<1>1. FiberInv'
  BY NextRuntimeInv DEF RuntimeInv
<1>2. CASE SchedulerStep
  BY <1>1, <1>2, SliceStepFirings, WalkFirings, CancelFirings, DrainFirings, CalmFirings
  DEF SchedulerStep
<1>3. CASE ThinkStep /\ ~SchedulerStep
  BY <1>1, <1>3, ActivateFirings, RespawnFirings, SweepFirings, CancelDoneFirings,
     TurnFirings, CalmFirings
  DEF ThinkStep
<1>4. CASE UNCHANGED vars
  BY <1>4
  DEF vars, thinkVars, pageVars, loopVars, FiringInv, RuleEntries, Firings, Rooted,
      SpawnedOnce, OneFiring, PageOver, LiveRuleFibers, Alive, RootOf, WalkCancels
<1> QED
  BY <1>1, <1>2, <1>3, <1>4, CalmFirings DEF Next, Stopped

(* The page's table, the live rule fibers and the code they have yet to    *)
(* run agree at every step, also half-way through an activation, a respawn *)
(* loop or a cancel loop.                                                  *)
THEOREM FiringsInvariant ==
    Spec => []FiringInv
BY InitFiringInv, NextFiringInv, RuntimeInvariant, PlacesInvariant, PTL DEF Spec

(* The rules that run are rules of the active page, and none of them runs  *)
(* twice at once, however its child rules, its faults, the requested pages *)
(* and the cancellations interleave (needsRespawn, requestPageChange,      *)
(* cancelChildRuleFibers).                                                 *)
THEOREM RulesStayInStep ==
    Spec => []RulesInStep
<1>1. RuntimeInv /\ FiringInv => RulesInStep
  <2> SUFFICES ASSUME RuntimeInv, FiringInv PROVE RulesInStep
    OBVIOUS
  <2>1. ASSUME NEW f \in LiveRuleFibers PROVE InSeq(RootOf(f), Roots[page])
    <3>1. PICK i \in 1..Len(ruleFibers) : ruleFibers[i].rule = RootOf(f)
      BY DEF FiringInv, Firings, Rooted
    <3>2. Roots[page][i] = RootOf(f) /\ i \in 1..Len(Roots[page])
      BY <3>1, PageRoots DEF FiringInv, RuleEntries
    <3> QED
      BY <3>2 DEF InSeq
  <2> QED
    BY <2>1 DEF RulesInStep, PageScoped, FiringInv, Firings, PageOver
<1> QED
  BY <1>1, RuntimeInvariant, FiringsInvariant, PTL

-----------------------------------------------------------------------------
(* Every promise is kept.  A capped pending handle has one owner, and a    *)
(* parked trigger stands for a cluster that lives; and no handle is both,  *)
(* or the device and a child could settle it under each other.  That a     *)
(* child holds its result to the end of its settle walk makes the sweep    *)
(* and the reuse of a slot harmless: the slot owes nothing by then.        *)
Dispatched(h) == pc \in {"body", "sensor"} /\ fiber[running].held = h
Pends(h, capped) == hstate[h] = "Pending" /\ (hcapped[h] <=> capped)
Owed(h) ==
    /\ \A f \in Fibers : fiber[f].result = h =>
          /\ Pends(h, TRUE) /\ h \notin device /\ ~Dispatched(h)
          /\ \A g \in Fibers : fiber[g].result = h => g = f
    /\ h \in device => Pends(h, TRUE) /\ ~Dispatched(h)
    /\ Dispatched(h) => Pends(h, pc = "body")
    /\ Pends(h, TRUE) =>
          h \in device \/ Dispatched(h) \/ \E f \in Fibers : fiber[f].result = h
    /\ \A r \in Rules : watcher[r] = h =>
          /\ Pends(h, FALSE) /\ ~Dispatched(h)
          /\ \A q \in Rules : watcher[q] = h => q = r
AllOwed == \A h \in Handles : Owed(h)
Delivers ==
    \A f \in Fibers :
        fiber[f].result # NoHandle => Alive(f) \/ (pc = "settle" /\ walk.fiber = f)
(* The walk has yet to reach the rule, and knows of nothing alive above.   *)
Passes(r) == pc = "settle" /\ walk.rule # NoRule /\ r \in Anc[walk.rule] /\ ~walk.liveAbove
Watches ==
    \A r \in Rules : watcher[r] # NoHandle => LiveRuleSubtree(r) \/ Passes(r)
PromiseInv == AllOwed /\ Delivers /\ Watches

-----------------------------------------------------------------------------
(* A step settles, creates or passes on one handle, or none.               *)
SameFor(k) ==
    /\ hstate'[k] = hstate[k] /\ hcapped'[k] = hcapped[k]
    /\ k \in device' <=> k \in device
    /\ \A f \in Fibers : fiber'[f].result = k <=> fiber[f].result = k
    /\ \A r \in Rules : watcher'[r] = k => watcher[r] = k
    /\ Dispatched(k)' <=> Dispatched(k)
    /\ Dispatched(k) => pc' = pc
Elsewhere(h) == \A k \in Handles : k # h => SameFor(k)

LEMMA SameOwed ==
    ASSUME NEW k, Owed(k), SameFor(k)
    PROVE  Owed(k)'
<1>1. /\ \A capped : Pends(k, capped)' <=> Pends(k, capped)
      /\ \A f \in Fibers : fiber'[f].result = k <=> fiber[f].result = k
      /\ \A r \in Rules : watcher'[r] = k => watcher[r] = k
      /\ k \in device' <=> k \in device
      /\ Dispatched(k)' <=> Dispatched(k)
      /\ Dispatched(k) => pc' = pc
  BY DEF SameFor, Pends
<1> QED
  BY <1>1 DEF Owed

LEMMA OneOwed ==
    ASSUME AllOwed, NEW h, Elsewhere(h), h \in Handles => Owed(h)'
    PROVE  AllOwed'
BY SameOwed DEF AllOwed, Elsewhere

(* The steps that leave every handle, and who answers for it, as it was.   *)
Uninvolved ==
    /\ UNCHANGED <<hstate, hcapped, device, watcher>>
    /\ SameResults
    /\ pc \notin {"body", "sensor"} /\ pc' \notin {"body", "sensor"}
LEMMA UninvolvedOwed ==
    ASSUME AllOwed, Uninvolved
    PROVE  AllOwed'
<1>1. ASSUME NEW k \in Handles PROVE SameFor(k)
  BY DEF Uninvolved, SameResults, SameFor, Dispatched
<1> QED
  BY <1>1, SameOwed DEF AllOwed

(* What the operations of the table do to a handle, and to the others.     *)
LEMMA HandleTypes ==
    ASSUME RuntimeInv
    PROVE  /\ hstate \in [Handles -> HandleState] /\ hcapped \in [Handles -> BOOLEAN]
           /\ watcher \in [Rules -> Handles \cup {NoHandle}] /\ device \in SUBSET Handles
           /\ NoHandle \notin Handles /\ NoFiber \notin Fibers
           /\ \A f \in Fibers : fiber[f].result \in Handles \cup {NoHandle}
           /\ pc \in {"body", "sensor"} =>
                 running \in Fibers /\ fiber[running].held \in Handles
           /\ TableInv /\ FiberInv
<1>1. \A f \in Fibers : fiber[f].result \in Handles \cup {NoHandle}
  BY DEF RuntimeInv, FiberInv, SoundRecord, FiberRecord
<1> QED
  BY <1>1, FunctionsAssumption
  DEF RuntimeInv, TableInv, HandleTypeOK, RuleTypeOK, ControlInv, Dispatching

LEMMA CreateEffect ==
    ASSUME RuntimeInv, NEW h \in Handles, NEW capped \in BOOLEAN, CreatePending(h, capped)
    PROVE  /\ hstate[h] = "Free" /\ Pends(h, capped)'
           /\ \A k \in Handles : k # h => hstate'[k] = hstate[k] /\ hcapped'[k] = hcapped[k]
BY HandleTypes DEF CreatePending, Pends

LEMMA SettleEffect ==
    ASSUME RuntimeInv, NEW h \in Handles, NEW outcome \in Settled, NEW value,
           Settle(h, outcome, value)
    PROVE  /\ hstate[h] = "Pending" => hstate'[h] = outcome
           /\ hstate'[h] # "Pending"
           /\ \A k \in Handles : k # h => hstate'[k] = hstate[k] /\ hcapped'[k] = hcapped[k]
BY HandleTypes DEF Settle, handleVars, Settled

LEMMA DeleteEffect ==
    ASSUME RuntimeInv, NEW h \in Handles, DeleteHandle(h)
    PROVE  /\ hstate'[h] = "Free"
           /\ \A k \in Handles : k # h => hstate'[k] = hstate[k] /\ hcapped'[k] = hcapped[k]
BY HandleTypes DEF DeleteHandle

(* A handle that does not pend is nobody's; a handle settled by the one    *)
(* who answers for it is nobody's afterwards.                              *)
Unclaimed(h) ==
    /\ \A f \in Fibers : fiber[f].result # h
    /\ h \notin device /\ ~Dispatched(h)
    /\ \A r \in Rules : watcher[r] # h
LEMMA IdleUnclaimed ==
    ASSUME AllOwed, NEW h \in Handles, hstate[h] # "Pending"
    PROVE  Unclaimed(h)
BY DEF AllOwed, Owed, Pends, Unclaimed

LEMMA UnclaimedOwed ==
    ASSUME NEW h, Unclaimed(h)', hstate'[h] # "Pending"
    PROVE  Owed(h)'
BY DEF Unclaimed, Owed, Pends

-----------------------------------------------------------------------------
(* Who answers for the handles, through a slice.                           *)
LEMMA ShapeResults ==
    ASSUME RuntimeInv, Delivers, pc = "slice", NEW f \in Fibers,
           GoesOn \/ Ends(f) \/ Parks(f) \/ Yields(f) \/ StartsChild(f) \/ Stops(f)
    PROVE  SameResults
<1>1. CASE StartsChild(f)
  <2>1. /\ FreshFiber \in Fibers /\ fiber[FreshFiber].state = "Free"
        /\ \A g \in Fibers : g # FreshFiber => fiber'[g].result = fiber[g].result
        /\ fiber'[FreshFiber] = NewFiber(Arg(f), Arg(f), RootOf(f), NoHandle)
    BY <1>1 DEF StartsChild, Born
  <2>2. fiber[FreshFiber].result = NoHandle
    BY <2>1 DEF Delivers, Alive
  <2>3. fiber'[FreshFiber].result = NoHandle
    BY <2>1 DEF NewFiber
  <2> QED
    BY <2>1, <2>2, <2>3 DEF SameResults
<1>2. CASE ~StartsChild(f)
  BY <1>2, SteadyFibers DEF GoesOn, Ends, Parks, Yields, Stops, Turns, SameResults
<1> QED
  BY <1>1, <1>2

LEMMA PlainUninvolved ==
    ASSUME RuntimeInv, Delivers, NEW f \in Fibers, pc = "slice",
           \/ Backpressure(f) \/ DispatchFault(f) \/ Await(f) \/ InjectedThrow(f)
           \/ SpawnRule(f) \/ RequestPage(f) \/ WhenStart(f) \/ WhenGate(f) \/ Script(f)
           \/ YieldOp(f) \/ BudgetExpires(f) \/ Return(f) \/ SliceCancelled(f),
           fiber[f].state = "Runnable" \/ SliceCancelled(f)
    PROVE  Uninvolved
<1>1. /\ UNCHANGED <<hstate, hcapped, device, watcher>>
      /\ pc' \notin {"body", "sensor"}
  BY
  DEF Backpressure, DispatchFault, FinishSlice, YieldSlice, StartWalk, EndSlice, Await,
      AwaitMissing, AwaitSettled, AwaitPending, Throw, AddWaiter, InjectedThrow, SpawnRule,
      Continue, RequestPage, WhenStart, WhenGate, Script, YieldOp, BudgetExpires, Return,
      SliceCancelled, handleVars, ruleVars
<1>2. GoesOn \/ Ends(f) \/ Parks(f) \/ Yields(f) \/ StartsChild(f) \/ Stops(f)
  <2>1. CASE SliceCancelled(f)
    BY <2>1 DEF SliceCancelled, EndSlice, Stops
  <2>2. CASE (Backpressure(f) \/ DispatchFault(f)) /\ ~SliceCancelled(f)
    BY <2>2, BackpressureShape, FinishEnds DEF DispatchFault, RuntimeInv
  <2>3. CASE InjectedThrow(f)
    BY <2>3, ThrowShape DEF InjectedThrow, InSlice, RuntimeInv
  <2> QED
    BY <2>1, <2>2, <2>3, AwaitShape, SpawnRuleShape, PlainShape
<1> QED
  BY <1>1, <1>2, ShapeResults DEF Uninvolved

(* A dispatch creates the handle it hands to its body.                     *)
LEMMA DispatchOwed ==
    ASSUME RuntimeInv, AllOwed, NEW f \in Fibers, running = f, pc = "slice",
           NEW capped \in BOOLEAN, CanCreate(capped), CreatePending(FreshHandle, capped),
           fiber' = [fiber EXCEPT ![f].held = FreshHandle, ![f].rounds = 0],
           pc' = IF capped THEN "body" ELSE "sensor",
           UNCHANGED <<running, device, watcher>>
    PROVE  AllOwed'
<1>1. PICK h \in Handles : h = FreshHandle
  BY FreshHandleType
<1>2. /\ hstate[h] = "Free" /\ Pends(h, capped)'
      /\ \A k \in Handles : k # h => hstate'[k] = hstate[k] /\ hcapped'[k] = hcapped[k]
  BY <1>1, CreateEffect
<1>3. /\ \A g \in Fibers : fiber'[g].result = fiber[g].result
      /\ fiber'[f].held = h
  BY <1>1, HandleTypes, RecordTypes DEF FiberRecord
<1>4. /\ ~Dispatched(h) /\ Dispatched(h)'
      /\ \A k : k # h => ~Dispatched(k) /\ ~Dispatched(k)'
  BY <1>3 DEF Dispatched
<1>5. Unclaimed(h)
  BY <1>2, IdleUnclaimed
<1>6. Elsewhere(h)
  BY <1>2, <1>3, <1>4 DEF Elsewhere, SameFor
<1>7. Owed(h)'
  <2>1. /\ \A g \in Fibers : fiber'[g].result # h
        /\ h \notin device' /\ \A r \in Rules : watcher'[r] # h
    BY <1>3, <1>5 DEF Unclaimed
  <2>2. Pends(h, pc = "body")'
    BY <1>2 DEF Pends
  <2> QED
    BY <1>4, <2>1, <2>2 DEF Owed
<1> QED
  BY <1>6, <1>7, OneOwed

LEMMA HostBodyOwed ==
    ASSUME RuntimeInv, AllOwed, NEW f \in Fibers, HostBody(f)
    PROVE  AllOwed'
<1>1. PICK h \in Handles : h = fiber[f].held
  BY HandleTypes DEF HostBody
<1>2. pc = "body" /\ running = f /\ Dispatched(h) /\ Owed(h)
  BY <1>1 DEF HostBody, Dispatched, AllOwed
<1>3. /\ Pends(h, TRUE) /\ h \notin device
      /\ \A g \in Fibers : fiber[g].result # h
      /\ \A r \in Rules : watcher[r] # h
  BY <1>2 DEF Owed, Pends
<1>4. SameResults /\ pc' \notin {"body", "sensor"} /\ UNCHANGED watcher
  <2>1. CASE FinishSlice(f, "Fault")
    BY <2>1, HandleTypes, RecordTypes
    DEF HostBody, FinishSlice, StartWalk, ruleVars, SameResults, FiberRecord
  <2>2. CASE ~FinishSlice(f, "Fault")
    BY <2>2, HandleTypes, InstructionSteady DEF HostBody, ruleVars
  <2> QED
    BY <2>1, <2>2
<1>5. /\ \A k : ~Dispatched(k)'
      /\ \A k : k # h => ~Dispatched(k)
  BY <1>1, <1>2, <1>4 DEF Dispatched
<1>6. CASE device' = device \cup {h} /\ UNCHANGED handleVars
  <2>1. Elsewhere(h)
    BY <1>4, <1>5, <1>6 DEF Elsewhere, SameFor, SameResults, handleVars
  <2>2. Owed(h)'
    BY <1>3, <1>4, <1>5, <1>6 DEF Owed, Pends, SameResults, handleVars
  <2> QED
    BY <2>1, <2>2, OneOwed
<1>7. CASE (Settle(h, "Resolved", "any") \/ Rollback(h)) /\ UNCHANGED device
  <2>1. /\ hstate'[h] # "Pending"
        /\ \A k \in Handles : k # h => hstate'[k] = hstate[k] /\ hcapped'[k] = hcapped[k]
    BY <1>7, SettleEffect, DeleteEffect DEF Rollback, Settled
  <2>2. Elsewhere(h)
    BY <1>4, <1>5, <1>7, <2>1 DEF Elsewhere, SameFor, SameResults
  <2>3. Unclaimed(h)'
    BY <1>3, <1>4, <1>5, <1>7 DEF Unclaimed, SameResults
  <2> QED
    BY <2>1, <2>2, <2>3, UnclaimedOwed, OneOwed
<1> QED
  BY <1>1, <1>6, <1>7 DEF HostBody

LEMMA TriggerBodyOwed ==
    ASSUME RuntimeInv, AllOwed, NEW f \in Fibers, TriggerBody(f)
    PROVE  AllOwed'
<1> DEFINE subject == Subject[fiber[f].rule]
<1>1. PICK h \in Handles : h = fiber[f].held
  BY HandleTypes DEF TriggerBody
<1>2. pc = "sensor" /\ running = f /\ Dispatched(h) /\ Owed(h)
  BY <1>1 DEF TriggerBody, Dispatched, AllOwed
<1>3. /\ Pends(h, FALSE) /\ h \notin device
      /\ \A g \in Fibers : fiber[g].result # h
      /\ \A r \in Rules : watcher[r] # h
  BY <1>2 DEF Owed, Pends
<1>4. SameResults /\ pc' = "slice" /\ UNCHANGED device
  BY HandleTypes, InstructionSteady DEF TriggerBody
<1>5. /\ \A k : ~Dispatched(k)'
      /\ \A k : k # h => ~Dispatched(k)
  BY <1>1, <1>2, <1>4 DEF Dispatched
<1>6. CASE SubjectPending(subject)
  <2>1. watcher' = [watcher EXCEPT ![subject] = h] /\ UNCHANGED handleVars
    BY <1>1, <1>6 DEF TriggerBody
  <2>2. fiber[f].rule \in Rules
    BY <1>2 DEF RuntimeInv, ControlInv, FiberInv, SoundRecord, Dispatching
  <2>3. subject \in Rules
    BY <1>6, <2>2, RuleTreeAssumption DEF SubjectPending
  <2> HIDE DEF subject
  <2>4. Elsewhere(h)
    BY <1>4, <1>5, <2>1, <2>3, HandleTypes DEF Elsewhere, SameFor, SameResults, handleVars
  <2>5. Owed(h)'
    BY <1>3, <1>4, <1>5, <2>1, <2>3, HandleTypes DEF Owed, Pends, SameResults, handleVars
  <2> QED
    BY <2>4, <2>5, OneOwed
<1>7. CASE ~SubjectPending(subject)
  <2>1. UNCHANGED watcher /\ \E value : Settle(h, "Resolved", value)
    BY <1>1, <1>7 DEF TriggerBody
  <2>2. /\ hstate'[h] # "Pending"
        /\ \A k \in Handles : k # h => hstate'[k] = hstate[k] /\ hcapped'[k] = hcapped[k]
    BY <2>1, SettleEffect DEF Settled
  <2>3. Elsewhere(h)
    BY <1>4, <1>5, <2>1, <2>2 DEF Elsewhere, SameFor, SameResults
  <2>4. Unclaimed(h)'
    BY <1>3, <1>4, <1>5, <2>1 DEF Unclaimed, SameResults
  <2> QED
    BY <2>2, <2>3, <2>4, UnclaimedOwed, OneOwed
<1> QED
  BY <1>6, <1>7

LEMMA ActionCallOwed ==
    ASSUME RuntimeInv, AllOwed, Delivers, NEW f \in Fibers, At(f, "action"),
           CanCreate(TRUE), CanSpawn, CreatePending(FreshHandle, TRUE),
           fiber' = [fiber EXCEPT
              ![f].held = FreshHandle, ![f].ip = @ + 1, ![f].rounds = 0,
              ![FreshFiber] = NewFiber(Arg(f), fiber[f].rule, NoRule, FreshHandle)],
           Continue, UNCHANGED <<device, watcher>>
    PROVE  AllOwed'
<1>1. PICK h \in Handles : h = FreshHandle
  BY FreshHandleType
<1>2. PICK n \in Fibers : n = FreshFiber
  BY FreshFiberType
<1>3. /\ fiber[n].state = "Free" /\ n # f /\ pc = "slice" /\ pc' = "slice"
      /\ fiber[f].state = "Runnable"
  BY <1>2, FreshFiberType DEF At, AtNext, InSlice, Continue
<1>4. /\ hstate[h] = "Free" /\ Pends(h, TRUE)'
      /\ \A k \in Handles : k # h => hstate'[k] = hstate[k] /\ hcapped'[k] = hcapped[k]
  BY <1>1, CreateEffect
<1>5. /\ \A g \in Fibers : g # n => fiber'[g].result = fiber[g].result
      /\ fiber'[n].result = h /\ fiber[n].result = NoHandle
  <2> DEFINE child == NewFiber(Arg(f), fiber[f].rule, NoRule, h)
  <2>1. child.result = h
    BY DEF NewFiber
  <2>2. fiber' = [fiber EXCEPT ![f].held = h, ![f].ip = @ + 1, ![f].rounds = 0, ![n] = child]
    BY <1>1, <1>2
  <2> HIDE DEF child
  <2>3. /\ \A g \in Fibers : g # n => fiber'[g].result = fiber[g].result
        /\ fiber'[n] = child
    BY <1>3, <2>2, HandleTypes, RecordTypes DEF FiberRecord
  <2>4. fiber[n].result = NoHandle
    BY <1>3 DEF Delivers, Alive
  <2> QED
    BY <2>1, <2>3, <2>4
<1>6. \A k : ~Dispatched(k) /\ ~Dispatched(k)'
  BY <1>3 DEF Dispatched
<1>7. Unclaimed(h)
  BY <1>4, IdleUnclaimed
<1>8. Elsewhere(h)
  BY <1>4, <1>5, <1>6, HandleTypes DEF Elsewhere, SameFor
<1>9. Owed(h)'
  <2>1. /\ \A g \in Fibers : fiber'[g].result = h <=> g = n
        /\ h \notin device' /\ \A r \in Rules : watcher'[r] # h
    BY <1>5, <1>7 DEF Unclaimed
  <2> QED
    BY <1>4, <1>6, <2>1 DEF Owed
<1> QED
  BY <1>8, <1>9, OneOwed

(* The device's operation ends, by itself or by a host body that clears it.*)
LEMMA DeviceOwed ==
    ASSUME RuntimeInv, AllOwed, NEW h \in device, Settle(h, "Resolved", "any"),
           device' = device \ {h}, SameResults, UNCHANGED watcher,
           \A k : Dispatched(k)' <=> Dispatched(k), UNCHANGED pc
    PROVE  AllOwed'
<1>1. h \in Handles /\ Owed(h)
  BY HandleTypes DEF AllOwed
<1>2. /\ hstate'[h] # "Pending"
      /\ \A k \in Handles : k # h => hstate'[k] = hstate[k] /\ hcapped'[k] = hcapped[k]
  BY <1>1, SettleEffect DEF Settled
<1>3. Elsewhere(h)
  BY <1>2 DEF Elsewhere, SameFor, SameResults
<1>4. Unclaimed(h)'
  BY <1>1 DEF Owed, Pends, Unclaimed, SameResults
<1> QED
  BY <1>2, <1>3, <1>4, UnclaimedOwed, OneOwed

LEMMA DeviceSettleOwed ==
    ASSUME RuntimeInv, AllOwed, NEW h \in Handles, DeviceSettle(h)
    PROVE  AllOwed'
<1>1. SameResults /\ UNCHANGED <<watcher, pc>> /\ \A k : Dispatched(k)' <=> Dispatched(k)
  BY DEF DeviceSettle, ruleVars, SameResults, Dispatched
<1> QED
  BY <1>1, DeviceOwed DEF DeviceSettle

LEMMA ClearDeviceOwed ==
    ASSUME RuntimeInv, AllOwed, NEW f \in Fibers, ClearDevice(f)
    PROVE  AllOwed'
<1>1. pc = "slice" /\ UNCHANGED <<watcher, pc>> /\ SameResults
  BY InstructionSteady, HandleTypes
  DEF ClearDevice, At, AtNext, InSlice, Continue, ruleVars
<1>2. \A k : Dispatched(k)' <=> Dispatched(k)
  BY <1>1 DEF Dispatched
<1>3. CASE UNCHANGED <<handleVars, device>>
  BY <1>1, <1>3, UninvolvedOwed DEF Uninvolved, handleVars
<1>4. CASE ~UNCHANGED <<handleVars, device>>
  BY <1>1, <1>2, <1>4, DeviceOwed DEF ClearDevice
<1> QED
  BY <1>3, <1>4

LEMMA SliceStepOwed ==
    ASSUME RuntimeInv, AllOwed, Delivers, NEW f \in Fibers, SliceStep(f)
    PROVE  AllOwed'
<1>1. CASE HostCallAsync(f) \/ TriggerCall(f) \/ ActionCallAsync(f)
  <2>1. /\ pc = "slice" /\ running = f /\ fiber[f].state = "Runnable"
    BY <1>1, AtInstruction DEF HostCallAsync, TriggerCall, ActionCallAsync
  <2>2. CASE Backpressure(f) \/ DispatchFault(f)
    BY <2>1, <2>2, PlainUninvolved, UninvolvedOwed
  <2>3. CASE HostCallAsync(f) /\ ~Backpressure(f) /\ ~DispatchFault(f)
    BY <2>1, <2>3, DispatchOwed DEF HostCallAsync, ruleVars
  <2>4. CASE TriggerCall(f) /\ ~Backpressure(f) /\ ~DispatchFault(f)
    BY <2>1, <2>4, DispatchOwed DEF TriggerCall, ruleVars
  <2>5. CASE ActionCallAsync(f) /\ ~Backpressure(f) /\ ~DispatchFault(f)
    BY <2>5, ActionCallOwed DEF ActionCallAsync, ruleVars
  <2> QED
    BY <1>1, <2>2, <2>3, <2>4, <2>5
<1>2. CASE HostBody(f) \/ TriggerBody(f) \/ ClearDevice(f)
  BY <1>2, HostBodyOwed, TriggerBodyOwed, ClearDeviceOwed
<1>3. CASE \/ Await(f) \/ InjectedThrow(f) \/ SpawnRule(f) \/ RequestPage(f) \/ WhenStart(f)
           \/ WhenGate(f) \/ Script(f) \/ YieldOp(f) \/ BudgetExpires(f) \/ Return(f)
           \/ SliceCancelled(f)
  <2>1. pc = "slice" /\ (fiber[f].state = "Runnable" \/ SliceCancelled(f))
    BY <1>3, AtInstruction
    DEF Await, AwaitMissing, AwaitSettled, AwaitPending, Awaits, InjectedThrow, SpawnRule,
        RequestPage, WhenStart, WhenGate, Script, YieldOp, BudgetExpires, Return,
        SliceCancelled, AtNext, InSlice
  <2> QED
    BY <1>3, <2>1, PlainUninvolved, UninvolvedOwed
<1> QED
  BY <1>1, <1>2, <1>3 DEF SliceStep

-----------------------------------------------------------------------------
(* The settle walk answers for the triggers it passes and for the result   *)
(* of the fiber that ended.                                                *)
LEMMA SettleRuleOwed ==
    ASSUME RuntimeInv, AllOwed, SettleRule
    PROVE  AllOwed'
<1>0. PICK r, h : r = walk.rule /\ h = watcher[r]
  OBVIOUS
<1>1. /\ pc = "settle" /\ r \in Rules /\ UNCHANGED <<fiber, device, pc, running>>
      /\ SameResults
  BY <1>0 DEF SettleRule, RuntimeInv, ControlInv, ControlTypeOK, SameResults
<1>2. \A k : ~Dispatched(k) /\ ~Dispatched(k)'
  BY <1>1 DEF Dispatched
<1>3. CASE UNCHANGED <<handleVars, watcher>>
  BY <1>1, <1>3, UninvolvedOwed DEF Uninvolved, handleVars
<1>4. CASE ~UNCHANGED <<handleVars, watcher>>
  <2>1. /\ h # NoHandle /\ watcher' = [watcher EXCEPT ![r] = NoHandle]
        /\ \E value : Settle(h, "Resolved", value)
    BY <1>0, <1>4 DEF SettleRule
  <2>2. h \in Handles /\ Owed(h)
    BY <1>0, <1>1, <2>1, HandleTypes DEF AllOwed
  <2>3. /\ hstate'[h] # "Pending"
        /\ \A k \in Handles : k # h => hstate'[k] = hstate[k] /\ hcapped'[k] = hcapped[k]
    BY <2>1, <2>2, SettleEffect DEF Settled
  <2>4. \A q \in Rules : watcher'[q] = IF q = r THEN NoHandle ELSE watcher[q]
    BY <1>1, <2>1, HandleTypes
  <2>5. Elsewhere(h)
    BY <1>1, <1>2, <2>3, <2>4, HandleTypes DEF Elsewhere, SameFor, SameResults
  <2>6. Unclaimed(h)'
    BY <1>0, <1>1, <1>2, <2>1, <2>2, <2>4, HandleTypes DEF Owed, Pends, Unclaimed, SameResults
  <2> QED
    BY <2>3, <2>5, <2>6, UnclaimedOwed, OneOwed
<1> QED
  BY <1>3, <1>4

LEMMA SettleResultOwed ==
    ASSUME RuntimeInv, AllOwed, SettleResult
    PROVE  AllOwed'
<1>0. PICK f, h : f = walk.fiber /\ h = fiber[f].result
  OBVIOUS
<1>1. /\ pc = "settle" /\ pc' \in {"cancel", "cascade"} /\ f \in Fibers
      /\ UNCHANGED <<device, watcher>>
  BY <1>0 DEF SettleResult, RuntimeInv, ControlInv, ruleVars
<1>2. \A k : ~Dispatched(k) /\ ~Dispatched(k)'
  BY <1>1 DEF Dispatched
<1>3. CASE h = NoHandle
  BY <1>0, <1>1, <1>3, UninvolvedOwed DEF SettleResult, Uninvolved, SameResults, handleVars
<1>4. CASE h # NoHandle
  <2>1. /\ \E outcome \in Settled : Settle(h, outcome, "any")
        /\ fiber' = [fiber EXCEPT ![f].result = NoHandle]
    BY <1>0, <1>4 DEF SettleResult, Settled
  <2>2. h \in Handles /\ Owed(h)
    BY <1>0, <1>1, <1>4, HandleTypes DEF AllOwed
  <2>3. /\ hstate'[h] # "Pending"
        /\ \A k \in Handles : k # h => hstate'[k] = hstate[k] /\ hcapped'[k] = hcapped[k]
    BY <2>1, <2>2, SettleEffect DEF Settled
  <2>4. \A g \in Fibers : fiber'[g].result = IF g = f THEN NoHandle ELSE fiber[g].result
    BY <1>1, <2>1, HandleTypes, RecordTypes DEF FiberRecord
  <2>5. Elsewhere(h)
    BY <1>0, <1>1, <1>2, <2>2, <2>3, <2>4, HandleTypes DEF Elsewhere, SameFor
  <2>6. Unclaimed(h)'
    BY <1>0, <1>1, <1>2, <1>4, <2>2, <2>4, HandleTypes DEF Owed, Pends, Unclaimed
  <2> QED
    BY <2>3, <2>5, <2>6, UnclaimedOwed, OneOwed
<1> QED
  BY <1>3, <1>4

(* A handle that is freed has settled: nobody answers for it any more.     *)
LEMMA ReclaimOwed ==
    ASSUME RuntimeInv, AllOwed, ReclaimHandle
    PROVE  AllOwed'
<1>0. PICK h : h = Head(completed)
  OBVIOUS
<1>1. completed # << >> /\ completed \in Seq(Handles) /\ TableInv /\ DeleteHandle(h)
      /\ UNCHANGED <<device, watcher, pc, running>> /\ pc = "drain"
  BY <1>0, HandleTypes DEF ReclaimHandle, Reclaim, TableInv, HandleTypeOK, ruleVars
<1>2. h \in Handles /\ hstate[h] \in Settled
  <2>1. h \in Handles /\ h = completed[1] /\ 1 \in 1..Len(completed)
    BY <1>0, <1>1, HeadTailProperties, EmptySeq
  <2> QED
    BY <1>1, <2>1 DEF TableInv, CompletedSound, InSeq
<1>3. /\ hstate'[h] = "Free"
      /\ \A k \in Handles : k # h => hstate'[k] = hstate[k] /\ hcapped'[k] = hcapped[k]
  BY <1>1, <1>2, DeleteEffect
<1>4. SameResults
  BY DrainShape
<1>5. \A k : ~Dispatched(k) /\ ~Dispatched(k)'
  BY <1>1 DEF Dispatched
<1>6. Unclaimed(h)
  BY <1>2, IdleUnclaimed DEF Settled
<1>7. Elsewhere(h) /\ Unclaimed(h)'
  BY <1>1, <1>3, <1>4, <1>5, <1>6 DEF Elsewhere, SameFor, SameResults, Unclaimed
<1> QED
  BY <1>3, <1>7, UnclaimedOwed, OneOwed

-----------------------------------------------------------------------------
(* Every other step leaves the handles alone.  A record that is reused or  *)
(* freed owed nothing.                                                     *)
LEMMA SpawnResults ==
    ASSUME RuntimeInv, Delivers, pc # "settle", NEW r, CanSpawn, Spawn(r)
    PROVE  SameResults
<1>1. /\ FreshFiber \in Fibers /\ fiber[FreshFiber].state = "Free"
      /\ \A g \in Fibers : g # FreshFiber => fiber'[g].result = fiber[g].result
      /\ fiber'[FreshFiber] = NewFiber(r, r, NoRule, NoHandle)
  BY SpawnBorn DEF Born, RuntimeInv
<1>2. fiber'[FreshFiber].result = NoHandle
  BY <1>1 DEF NewFiber
<1> QED
  BY <1>1, <1>2 DEF Delivers, Alive, SameResults

LEMMA SweepResults ==
    ASSUME RuntimeInv, Delivers, Sweep
    PROVE  SameResults
<1> DEFINE blank == NewFiber(NoRule, NoRule, NoRule, NoHandle)
<1>1. blank.result = NoHandle /\ blank \in FiberRecord
  BY NoRefusal DEF NewFiber, FiberRecord, FiberState, Values
<1> HIDE DEF blank
<1>2. FreeFiber.result = NoHandle
  BY <1>1 DEF FreeFiber, FiberRecord, blank
<1> QED
  BY <1>2 DEF Sweep, Delivers, Alive, FiberHas, Terminal, SameResults

LEMMA LoopUninvolved ==
    ASSUME RuntimeInv, Delivers,
           \/ CancelRoot \/ CancelChildRule \/ ResumeWaiter
           \/ DetachSpawned \/ RunChild \/ CascadeDone
           \/ ActivateRule \/ ActivationDone \/ DrainDone \/ RespawnRule \/ OpenRound
           \/ RunNext \/ Sweep \/ BeginThink \/ Shutdown
           \/ CancelDone /\ pc' # "down"
    PROVE  Uninvolved
<1>1. CASE CancelRoot \/ CancelChildRule
  <2>1. PICK f \in Fibers : Cancels(f) /\ CancelRecord(f)
    BY <1>1, CancelShape
  <2> QED
    BY <2>1
    DEF Cancels, CancelRecord, LeaveWaiters, RemoveWaiter, handleVars, ruleVars, StartWalk,
        Turns, Uninvolved
<1>2. CASE ResumeWaiter
  BY <1>2, DrainShape DEF ResumeWaiter, VisitWaiter, ruleVars, Uninvolved
<1>3. CASE ActivateRule \/ RespawnRule
  BY <1>3, SpawnResults DEF ActivateRule, RespawnRule, Uninvolved, SameResults, handleVars
<1>4. CASE Sweep
  BY <1>4, SweepResults DEF Sweep, Uninvolved, handleVars, ruleVars
<1>5. CASE \/ DetachSpawned \/ RunChild \/ CascadeDone \/ ActivationDone \/ DrainDone
           \/ OpenRound \/ RunNext \/ BeginThink \/ Shutdown
           \/ CancelDone /\ pc' # "down"
  BY <1>5
  DEF DetachSpawned, RunChild, CascadeDone, ActivationDone, DrainDone, OpenRound, RunNext,
      BeginThink, Shutdown, CancelDone, RuntimeInv, ControlInv, ControlTypeOK, Uninvolved,
      SameResults, handleVars, ruleVars
<1> QED
  BY <1>1, <1>2, <1>3, <1>4, <1>5

LEMMA NextOwed ==
    ASSUME RuntimeInv, AllOwed, Delivers, [Next]_vars, pc' # "down"
    PROVE  AllOwed'
<1>1. CASE SchedulerStep
  BY <1>1, SliceStepOwed, SettleRuleOwed, SettleResultOwed, ReclaimOwed, LoopUninvolved,
     UninvolvedOwed
  DEF SchedulerStep
<1>2. CASE ThinkStep /\ ~SchedulerStep
  BY <1>2, LoopUninvolved, UninvolvedOwed DEF ThinkStep
<1>3. CASE UNCHANGED vars
  BY <1>3 DEF vars, handleVars, ruleVars, AllOwed, Owed, Pends, Dispatched
<1> QED
  BY <1>1, <1>2, <1>3, LoopUninvolved, UninvolvedOwed, DeviceSettleOwed DEF Next, Stopped

-----------------------------------------------------------------------------
(* Who lives on.  Outside a settle walk, a step ends the life of one fiber *)
(* at most, and then starts its walk.                                      *)
LivesOn(g) == Alive(g) => Alive(g)' /\ fiber'[g].rule = fiber[g].rule
Outlives == \A g \in Fibers : LivesOn(g)
Falls(f) ==
    /\ f \in Fibers /\ Alive(f)
    /\ \A g \in Fibers : g # f => LivesOn(g)
    /\ StartWalk(f)

LEMMA SteadyOutlives ==
    SameFibers => Outlives
BY DEF SameFibers, Steady, Kept, Outlives, LivesOn, Alive

LEMMA TurnsLives ==
    ASSUME NEW f, NEW state, Turns(f, state)
    PROVE  /\ \A g \in Fibers : g # f => LivesOn(g)
           /\ state \in {"Runnable", "Waiting"} => Outlives
BY DEF Turns, Steady, Kept, Outlives, LivesOn, Alive

LEMMA BornOutlives ==
    ASSUME NEW n, NEW fn, NEW r, NEW root, NEW res, Born(n, fn, r, root, res)
    PROVE  Outlives
BY DEF Born, Steady, Kept, Outlives, LivesOn, Alive

LEMMA SliceLives ==
    ASSUME RuntimeInv, NEW f \in Fibers, SliceStep(f)
    PROVE  Outlives \/ Falls(f)
<1>1. SliceShape(f) /\ FiberInv
  BY SliceStepShape DEF RuntimeInv
<1>2. CASE GoesOn \/ Yields(f) \/ Stops(f)
  BY <1>1, <1>2, SteadyFibers, SteadyOutlives DEF GoesOn, Yields, Stops
<1>3. CASE Ends(f)
  BY <1>3, TurnsLives DEF Ends, Falls, Alive
<1>4. CASE Parks(f)
  BY <1>4, TurnsLives DEF Parks
<1>5. CASE StartsAction(f) \/ StartsChild(f)
  BY <1>5, BornOutlives DEF StartsAction, StartsChild
<1> QED
  BY <1>1, <1>2, <1>3, <1>4, <1>5 DEF SliceShape

LEMMA NextLives ==
    ASSUME RuntimeInv, [Next]_vars, ~SettleRule, ~SettleResult
    PROVE  Outlives \/ \E f \in Fibers : Falls(f)
<1> USE DEF RuntimeInv
<1>1. CASE \E f \in Fibers : SliceStep(f)
  BY <1>1, SliceLives
<1>2. CASE CancelRoot \/ CancelChildRule
  BY <1>2, CancelShape, TurnsLives DEF Cancels, Falls
<1>3. CASE ResumeWaiter \/ ReclaimHandle
  BY <1>3, DrainShape, SteadyOutlives, TurnsLives DEF Wakes
<1>4. CASE Sweep
  BY <1>4 DEF Sweep, FiberHas, Terminal, Outlives, LivesOn, Alive, FiberInv
<1>5. CASE ActivateRule \/ RespawnRule
  <2>1. CASE CanSpawn /\ \E r : Spawn(r)
    BY <2>1, SpawnBorn, BornOutlives
  <2>2. CASE UNCHANGED fiber
    BY <2>2, SteadyFibers, SteadyOutlives
  <2> QED
    BY <1>5, <2>1, <2>2 DEF ActivateRule, RespawnRule
<1>6. CASE UNCHANGED fiber
  BY <1>6, SteadyFibers, SteadyOutlives
<1> QED
  BY <1>1, <1>2, <1>3, <1>4, <1>5, <1>6
  DEF Next, ThinkStep, SchedulerStep, DetachSpawned, RunChild, CascadeDone, ActivationDone,
      CancelDone, DrainDone, OpenRound, RunNext, BeginThink, DeviceSettle, Shutdown, Stopped,
      vars

(* A result changes hands only at the birth of the child that owes it and  *)
(* at the end of its walk; a watcher slot is filled by the trigger's body  *)
(* and emptied by a walk.                                                  *)
LEMMA NextResults ==
    ASSUME RuntimeInv, Delivers, [Next]_vars, pc # "settle"
    PROVE  \A g \in Fibers : fiber'[g].result = fiber[g].result \/ Alive(g)'
<1>1. CASE \E f \in Fibers : SliceStep(f)
  <2>1. PICK f \in Fibers : SliceShape(f)
    BY <1>1, SliceStepShape
  <2>2. CASE StartsAction(f) \/ StartsChild(f)
    <3>1. PICK fn, r, root, res : Born(FreshFiber, fn, r, root, res)
      BY <2>2 DEF StartsAction, StartsChild
    <3>2. NewFiber(fn, r, root, res).state = "Runnable"
      BY DEF NewFiber
    <3> QED
      BY <3>1, <3>2 DEF Born, Alive
  <2>3. CASE ~StartsAction(f) /\ ~StartsChild(f)
    BY <2>1, <2>3, SteadyFibers
    DEF SliceShape, GoesOn, Ends, Parks, Yields, Stops, Turns, SameResults, RuntimeInv
  <2> QED
    BY <2>2, <2>3
<1>2. CASE ReclaimHandle
  BY <1>2, DrainShape DEF SameResults
<1>3. CASE UNCHANGED fiber
  BY <1>3
<1>4. CASE CancelDone \/ Stopped \/ UNCHANGED vars \/ \E h \in Handles : DeviceSettle(h)
  <2>1. UNCHANGED fiber
    BY <1>4 DEF CancelDone, DeviceSettle, Stopped, vars
  <2> QED
    BY <1>3, <2>1
<1>5. CASE \/ CancelRoot \/ CancelChildRule \/ ResumeWaiter
           \/ DetachSpawned \/ RunChild \/ CascadeDone
           \/ ActivateRule \/ ActivationDone \/ DrainDone \/ RespawnRule \/ OpenRound
           \/ RunNext \/ Sweep \/ BeginThink \/ Shutdown
  <2>1. Uninvolved
    BY <1>5, LoopUninvolved
  <2> QED
    BY <2>1 DEF Uninvolved, SameResults
<1>6. ~SettleRule /\ ~SettleResult
  BY DEF SettleRule, SettleResult
<1>7. CASE Next
  BY <1>1, <1>2, <1>4, <1>5, <1>6, <1>7, Zenon DEF Next, ThinkStep, SchedulerStep
<1> QED
  BY <1>4, <1>7

LEMMA NextWatcher ==
    ASSUME [Next]_vars, ~SettleRule, watcher' # watcher
    PROVE  \E f \in Fibers : TriggerBody(f)
<1>1. ASSUME NEW f \in Fibers, SliceStep(f) PROVE TriggerBody(f)
  <2>1. ~(HostCallAsync(f) \/ HostBody(f) \/ ClearDevice(f) \/ TriggerCall(f) \/ ActionCallAsync(f))
    <3>1. ~(Backpressure(f) \/ DispatchFault(f))
      BY DEF Backpressure, DispatchFault, ruleVars
    <3>2. ~HostCallAsync(f) /\ ~TriggerCall(f)
      BY <3>1 DEF HostCallAsync, TriggerCall, ruleVars
    <3>3. ~ActionCallAsync(f)
      BY <3>1 DEF ActionCallAsync, ruleVars
    <3>4. ~HostBody(f) /\ ~ClearDevice(f)
      BY DEF HostBody, ClearDevice, ruleVars
    <3> QED
      BY <3>2, <3>3, <3>4
  <2>2. ~(Await(f) \/ InjectedThrow(f) \/ SpawnRule(f) \/ RequestPage(f))
    <3>1. ~Await(f)
      BY DEF Await, AwaitMissing, AwaitSettled, AwaitPending, ruleVars
    <3>2. ~InjectedThrow(f) /\ ~SpawnRule(f)
      <4>1. ~DispatchFault(f)
        BY DEF DispatchFault, ruleVars
      <4> QED
        BY <4>1 DEF InjectedThrow, SpawnRule, ruleVars
    <3>3. ~RequestPage(f)
      BY DEF RequestPage, ruleVars
    <3> QED
      BY <3>1, <3>2, <3>3
  <2>3. ~WhenStart(f) /\ ~WhenGate(f)
    BY DEF WhenStart, WhenGate
  <2>4. ~(Script(f) \/ YieldOp(f) \/ BudgetExpires(f) \/ Return(f) \/ SliceCancelled(f))
    BY DEF Script, YieldOp, BudgetExpires, Return, SliceCancelled, ruleVars
  <2> QED
    BY <1>1, <2>1, <2>2, <2>3, <2>4 DEF SliceStep
<1>2. ~(SettleResult \/ CancelRoot \/ CancelChildRule \/ ResumeWaiter \/ ReclaimHandle
          \/ DetachSpawned \/ RunChild \/ CascadeDone)
  BY DEF SettleResult, CancelRoot, CancelChildRule, CancelRecord, ResumeWaiter, ReclaimHandle,
         DetachSpawned, RunChild, CascadeDone, ruleVars
<1>3. ~(ActivateRule \/ ActivationDone \/ CancelDone \/ DrainDone \/ RespawnRule \/ OpenRound
          \/ RunNext \/ Sweep)
  BY DEF ActivateRule, ActivationDone, CancelDone, DrainDone, RespawnRule, OpenRound, RunNext, Sweep, ruleVars
<1>4. ~(BeginThink \/ (\E h \in Handles : DeviceSettle(h)) \/ Shutdown \/ Stopped \/ UNCHANGED vars)
  BY DEF BeginThink, DeviceSettle, Shutdown, Stopped, vars, ruleVars
<1>5. PICK f \in Fibers : SliceStep(f)
  BY <1>2, <1>3, <1>4 DEF Next, ThinkStep, SchedulerStep
<1> QED
  BY <1>1, <1>5

(* A settle walk runs to its end.                                          *)
LEMMA WalkGoesOn ==
    ASSUME RuntimeInv, [Next]_vars, pc = "settle"
    PROVE  SettleRule \/ SettleResult \/ UNCHANGED vars
<1>1. ASSUME NEW f \in Fibers, SliceStep(f) PROVE FALSE
  BY <1>1, SliceStepShape DEF SliceShape
<1> QED
  BY <1>1
  DEF Next, ThinkStep, SchedulerStep, CancelRoot, CancelChildRule, ResumeWaiter, ReclaimHandle,
      DetachSpawned, RunChild, CascadeDone, ActivateRule, ActivationDone, CancelDone,
      DrainDone, RespawnRule, OpenRound, RunNext, Sweep, BeginThink, DeviceSettle, Shutdown,
      Stopped

LEMMA NextDelivers ==
    ASSUME RuntimeInv, Delivers, [Next]_vars
    PROVE  Delivers'
<1>1. CASE pc # "settle"
  <2>1. \A g \in Fibers : fiber'[g].result = fiber[g].result \/ Alive(g)'
    BY <1>1, NextResults
  <2>2. Outlives \/ \E f \in Fibers : Falls(f)
    BY <1>1, NextLives DEF SettleRule, SettleResult
  <2>3. \A g \in Fibers : Alive(g) => Alive(g)' \/ (pc' = "settle" /\ walk'.fiber = g)
    BY <2>2 DEF Outlives, Falls, LivesOn, StartWalk
  <2> QED
    BY <1>1, <2>1, <2>3 DEF Delivers
<1>2. CASE SettleRule
  <2>1. walk'.fiber = walk.fiber /\ UNCHANGED <<fiber, pc>>
    BY <1>2 DEF SettleRule, RuntimeInv, ControlInv, ControlTypeOK
  <2> QED
    BY <2>1 DEF Delivers, Alive
<1>3. CASE SettleResult
  <2>1. walk.fiber \in Fibers
    BY <1>3 DEF SettleResult, RuntimeInv, ControlInv
  <2>2. /\ fiber'[walk.fiber].result = NoHandle
        /\ \A g \in Fibers : g # walk.fiber => fiber'[g] = fiber[g]
    BY <1>3, <2>1, HandleTypes, RecordTypes DEF SettleResult, FiberRecord
  <2> QED
    BY <2>2 DEF Delivers, Alive
<1>4. CASE UNCHANGED vars
  BY <1>4 DEF vars, Delivers, Alive
<1> QED
  BY <1>1, <1>2, <1>3, <1>4, WalkGoesOn

(* The rules above a live fiber's rule are live with it.                   *)
LEMMA OutlivesSubtree ==
    ASSUME NEW r, LiveRuleSubtree(r)
    PROVE  /\ Outlives => LiveRuleSubtree(r)'
           /\ \A f : Falls(f) => \/ LiveRuleSubtree(r)'
                                 \/ fiber[f].rule # NoRule /\ r \in Anc[fiber[f].rule]
<1>1. PICK g \in Fibers : Alive(g) /\ fiber[g].rule # NoRule /\ r \in Anc[fiber[g].rule]
  BY DEF LiveRuleSubtree
<1>2. LivesOn(g) => LiveRuleSubtree(r)'
  BY <1>1 DEF LivesOn, LiveRuleSubtree, Alive
<1> QED
  BY <1>1, <1>2 DEF Outlives, Falls

LEMMA WalkWatches ==
    ASSUME RuntimeInv, Watches, SettleRule
    PROVE  Watches'
<1>0. PICK p, h : p = walk.rule /\ h = watcher[p]
  OBVIOUS
<1> DEFINE passed == h = NoHandle \/ walk.liveAbove
           live == ~passed /\ LiveRuleSubtree(p)
<1>1. /\ pc = "settle" /\ pc' = "settle" /\ p \in Rules /\ p # NoRule
      /\ UNCHANGED fiber
      /\ walk'.rule = Parent[p] /\ walk'.liveAbove = (walk.liveAbove \/ live)
      /\ IF passed \/ live THEN UNCHANGED watcher
                           ELSE watcher' = [watcher EXCEPT ![p] = NoHandle]
  BY <1>0 DEF SettleRule, RuntimeInv, ControlInv, ControlTypeOK
<1>2. \A r : LiveRuleSubtree(r)' <=> LiveRuleSubtree(r)
  BY <1>1 DEF LiveRuleSubtree, Alive
<1> SUFFICES ASSUME NEW r \in Rules, watcher'[r] # NoHandle, ~LiveRuleSubtree(r)
             PROVE  Passes(r)'
  BY <1>2 DEF Watches
<1>3. watcher[r] # NoHandle /\ r \in Anc[p] /\ ~walk.liveAbove
  <2>1. watcher[r] # NoHandle
    BY <1>1, HandleTypes
  <2> QED
    BY <1>0, <2>1 DEF Watches, Passes
<1>4. r # p
  BY <1>0, <1>1, <1>3, HandleTypes
<1>5. Parent[p] # NoRule /\ r \in Anc[Parent[p]]
  BY <1>1, <1>3, <1>4, Ancestors
<1>6. ~live
  <2> SUFFICES ASSUME LiveRuleSubtree(p) PROVE LiveRuleSubtree(r)
    OBVIOUS
  <2>1. PICK f \in Fibers : Alive(f) /\ fiber[f].rule # NoRule /\ p \in Anc[fiber[f].rule]
    BY DEF LiveRuleSubtree
  <2>2. fiber[f].rule \in Rules
    BY <2>1 DEF RuntimeInv, FiberInv, SoundRecord, FiberRecord
  <2>3. Anc[p] \subseteq Anc[fiber[f].rule]
    BY <2>1, <2>2, RuleTreeAssumption
  <2> QED
    BY <1>3, <2>1, <2>3 DEF LiveRuleSubtree
<1> QED
  BY <1>1, <1>3, <1>5, <1>6 DEF Passes

LEMMA NextWatches ==
    ASSUME RuntimeInv, Watches, [Next]_vars
    PROVE  Watches'
<1>1. CASE pc # "settle"
  <2>1. Outlives \/ \E f \in Fibers : Falls(f)
    BY <1>1, NextLives DEF SettleRule, SettleResult
  <2>2. ASSUME NEW r \in Rules, LiveRuleSubtree(r)
        PROVE  LiveRuleSubtree(r)' \/ Passes(r)'
    BY <2>1, <2>2, OutlivesSubtree DEF Falls, StartWalk, Passes
  <2>3. ASSUME NEW r \in Rules, watcher'[r] # NoHandle
        PROVE  LiveRuleSubtree(r)
    <3>1. CASE UNCHANGED watcher
      BY <1>1, <2>3, <3>1 DEF Watches, Passes
    <3>2. CASE \E f \in Fibers : TriggerBody(f)
      <4>1. watcher'[r] = watcher[r] \/ LiveRuleSubtree(r)
        BY <3>2, HandleTypes DEF TriggerBody, SubjectPending
      <4> QED
        BY <1>1, <2>3, <4>1 DEF Watches, Passes
    <3> QED
      BY <1>1, <3>1, <3>2, NextWatcher DEF SettleRule
  <2> QED
    BY <2>2, <2>3 DEF Watches
<1>2. CASE SettleResult
  <2>1. Outlives
    BY <1>2, WalkShape, SteadyOutlives DEF RuntimeInv
  <2>2. ASSUME NEW r \in Rules, LiveRuleSubtree(r)
        PROVE  LiveRuleSubtree(r)'
    BY <2>1, <2>2, OutlivesSubtree
  <2> QED
    BY <1>2, <2>2 DEF SettleResult, Watches, Passes, ruleVars
<1>3. CASE UNCHANGED vars
  BY <1>3 DEF vars, ruleVars, Watches, Passes, LiveRuleSubtree, Alive
<1> QED
  BY <1>1, <1>2, <1>3, WalkWatches, WalkGoesOn

-----------------------------------------------------------------------------
(* The theorem.  A VM halted by a bad resume keeps its last state for      *)
(* inspection, so the invariant speaks of the running one.                 *)
LEMMA InitPromiseInv ==
    Init => PromiseInv
<1> SUFFICES ASSUME Init PROVE PromiseInv
  OBVIOUS
<1> DEFINE blank == NewFiber(NoRule, NoRule, NoRule, NoHandle)
<1>1. blank.result = NoHandle /\ blank \in FiberRecord
  BY NoRefusal DEF NewFiber, FiberRecord, FiberState, Values
<1> HIDE DEF blank
<1>2. FreeFiber.result = NoHandle
  BY <1>1 DEF FreeFiber, FiberRecord, blank
<1>3. /\ \A f \in Fibers : fiber[f].result = NoHandle
      /\ \A r \in Rules : watcher[r] = NoHandle
      /\ device = {} /\ pc = "activate"
      /\ \A h \in Handles : hstate[h] = "Free"
  BY <1>2 DEF Init, HandleTableInit
<1>4. NoHandle \notin Handles
  BY FunctionsAssumption
<1> QED
  BY <1>3, <1>4 DEF PromiseInv, AllOwed, Owed, Pends, Dispatched, Delivers, Watches

(* As long as the brain runs, every capped pending handle is owed by one   *)
(* party, every child's result by a child that is alive or in its settle   *)
(* walk, and every trigger's handle by a cluster that lives or a walk that *)
(* is about to settle it.                                                  *)
THEOREM PromisesInvariant ==
    Spec => [](pc # "down" => PromiseInv)
<1> DEFINE Inv == pc # "down" => PromiseInv
<1>1. Init => Inv
  BY InitPromiseInv
<1>2. RuntimeInv /\ Inv /\ [Next]_vars => Inv'
  <2> SUFFICES ASSUME RuntimeInv, Inv, [Next]_vars, pc' # "down" PROVE PromiseInv'
    OBVIOUS
  <2>1. PromiseInv
    BY DownStays
  <2> QED
    BY <2>1, NextOwed, NextDelivers, NextWatches DEF PromiseInv
<1> QED
  BY <1>1, <1>2, RuntimeInvariant, PTL DEF Spec

(* A pending capped handle has exactly one party to settle it - the        *)
(* device, the live child it is the result of, or the dispatch that is     *)
(* handing it over -, a trigger's in a watcher slot the cluster it waits   *)
(* for, and no owner holds a handle that pends no more.  A handle that was *)
(* displaced from its slot (rule-trigger.h:53) is not spoken of            *)
(* (spawnAsyncActionChild, settleResultHandle, resolveSpawnedRuleWaiters,  *)
(* the rollback of HOST_CALL_ASYNC).                                       *)
THEOREM PromisesKept ==
    Spec => []PromiseKept
<1>1. RuntimeInv /\ (pc # "down" => PromiseInv) => PromiseKept
  <2> SUFFICES ASSUME RuntimeInv, pc # "down" => PromiseInv PROVE PromiseKept
    OBVIOUS
  <2>1. ASSUME PromiseInv, NEW h \in Handles, hstate[h] = "Pending", hcapped[h]
        PROVE  Cardinality(Owners(h)) = 1
    <3>1. Owed(h)
      BY <2>1 DEF PromiseInv, AllOwed
    <3>2. ASSUME NEW f \in Fibers, fiber[f].result = h
          PROVE  Owners(h) = {f}
      BY <3>1, <3>2 DEF Owed, Dispatched, Owners
    <3>3. CASE h \in device
      <4>1. Owners(h) = {"device"}
        BY <3>1, <3>3 DEF Owed, Dispatched, Owners
      <4> QED
        BY <4>1, FS_Singleton
    <3>4. CASE Dispatched(h)
      <4>1. Owners(h) = {"dispatch"}
        BY <3>1, <3>4 DEF Owed, Dispatched, Owners
      <4> QED
        BY <4>1, FS_Singleton
    <3> QED
      BY <2>1, <3>1, <3>2, <3>3, <3>4, FS_Singleton DEF Owed, Pends
  <2>2. ASSUME PromiseInv, NEW h \in Handles, hstate[h] # "Pending"
        PROVE  Owners(h) = {}
    BY <2>2, IdleUnclaimed DEF PromiseInv, Unclaimed, Dispatched, Owners
  <2>3. ASSUME PromiseInv, NEW r \in Rules, watcher[r] # NoHandle
        PROVE  /\ hstate[watcher[r]] = "Pending"
               /\ \A q \in Rules : watcher[q] = watcher[r] => q = r
               /\ pc # "settle" => LiveRuleSubtree(r)
    <3>1. watcher[r] \in Handles
      BY <2>3, HandleTypes
    <3> QED
      BY <2>3, <3>1 DEF PromiseInv, AllOwed, Owed, Pends, Watches, Passes
  <2> QED
    BY <2>1, <2>2, <2>3 DEF PromiseKept, PromiseOwned, WatcherLive
<1> QED
  BY <1>1, RuntimeInvariant, PromisesInvariant, PTL

-----------------------------------------------------------------------------
(* Every rule that re-fires finds a slot.  The rules of a round hold one   *)
(* slot each until the sweep, by the fiber of their root or of one of its  *)
(* child rules; those the sweep frees are as many as the rules that will   *)
(* need one, and up to the respawn nobody else takes them: each respawn    *)
(* uses one up for one rule.                                               *)
InRound ==
    \/ pc \in {"round", "slice", "body", "sensor", "cascade"}
    \/ pc = "cancel" /\ back = "slice"
    \/ pc = "settle" /\ (back = "slice" \/ ~WalkCancels)
Holds(r, f) == fiber[f].state # "Free" /\ RootOf(f) = r
EntriesHeld ==
    \A i \in 1..Len(ruleFibers) :
        ruleFibers[i].fiber # NoFiber => Holds(ruleFibers[i].rule, ruleFibers[i].fiber)
RulesHeld == \A i \in 1..Len(ruleFibers) : \E f \in Fibers : Holds(ruleFibers[i].rule, f)
Hungry == {i \in 1..Len(ruleFibers) : NeedsRespawn(ruleFibers[i])}
FreeFibers == {f \in Fibers : fiber[f].state = "Free"}
SlotsLeft ==
    \E slot \in [Hungry -> FreeFibers] :
        \A i, j \in Hungry : slot[i] = slot[j] => i = j
SlotInv ==
    /\ EntriesHeld
    /\ InRound => RulesHeld
    /\ pc \in {"idle", "drain", "respawn"} => SlotsLeft
    /\ pc = "respawn" => \A i \in Hungry : i >= cursor
    /\ pc = "activate" => Hungry = {}

(* Between two sweeps a slot in use stays with its root rule.              *)
Persists ==
    \A g \in Fibers : fiber[g].state # "Free" =>
        fiber'[g].state # "Free" /\ RootOf(g)' = RootOf(g)
(* Nobody dies and nobody is born.                                         *)
Calm ==
    \A g \in Fibers :
        /\ fiber[g].state = "Free" => fiber'[g].state = "Free"
        /\ Alive(g) => Alive(g)' /\ fiber'[g].subtree = fiber[g].subtree

LEMMA SteadyPersists ==
    SameFibers => Persists /\ Calm
BY DEF SameFibers, Steady, Kept, Persists, Calm, RootOf, Alive

LEMMA TurnsPersists ==
    ASSUME NEW f, NEW state, Turns(f, state), state # "Free"
    PROVE  Persists
BY DEF Turns, Steady, Kept, Persists, RootOf

LEMMA BornPersists ==
    ASSUME NEW n, NEW fn, NEW r, NEW root, NEW res, Born(n, fn, r, root, res)
    PROVE  Persists
BY DEF Born, Steady, Kept, Persists, RootOf

LEMMA NextPersists ==
    ASSUME RuntimeInv, [Next]_vars, ~Sweep
    PROVE  Persists
<1> USE DEF RuntimeInv
<1>1. CASE \E f \in Fibers : SliceStep(f)
  <2>1. PICK f \in Fibers : SliceShape(f)
    BY <1>1, SliceStepShape
  <2> QED
    BY <2>1, SteadyFibers, SteadyPersists, TurnsPersists, BornPersists
    DEF SliceShape, GoesOn, Ends, Parks, Yields, StartsAction, StartsChild, Stops
<1>2. CASE CancelRoot \/ CancelChildRule
  BY <1>2, CancelShape, TurnsPersists DEF Cancels
<1>3. CASE ResumeWaiter \/ ReclaimHandle
  BY <1>3, DrainShape, SteadyPersists, TurnsPersists DEF Wakes
<1>4. CASE SettleRule \/ SettleResult
  BY <1>4, WalkShape, SteadyPersists
<1>5. CASE ActivateRule \/ RespawnRule
  <2>1. CASE CanSpawn /\ \E r : Spawn(r)
    BY <2>1, SpawnBorn, BornPersists
  <2>2. CASE UNCHANGED fiber
    BY <2>2, SteadyFibers, SteadyPersists
  <2> QED
    BY <1>5, <2>1, <2>2 DEF ActivateRule, RespawnRule
<1>6. CASE UNCHANGED fiber
  BY <1>6, SteadyFibers, SteadyPersists
<1> QED
  BY <1>1, <1>2, <1>3, <1>4, <1>5, <1>6
  DEF Next, ThinkStep, SchedulerStep, DetachSpawned, RunChild, CascadeDone, ActivationDone,
      CancelDone, DrainDone, OpenRound, RunNext, BeginThink, DeviceSettle, Shutdown, Stopped,
      vars

(* Between the sweep and the respawns nobody is freed or spawned.          *)
LEMMA EntryFields ==
    ASSUME RuntimeInv, NEW i \in 1..Len(ruleFibers)
    PROVE  /\ ruleFibers[i].rule \in Rules /\ ruleFibers[i].rule # NoRule
           /\ ruleFibers[i].fiber \in Fibers \cup {NoFiber}
           /\ ruleFibers[i].rule \in Funcs
BY EntryType, FunctionsAssumption DEF Funcs

LEMMA StillFed ==
    ASSUME NEW e, e.fiber \in Fibers \cup {NoFiber},
           \A g \in Fibers : Alive(g) => Alive(g)' /\ fiber'[g].subtree = fiber[g].subtree,
           NeedsRespawn(e)'
    PROVE  NeedsRespawn(e)
BY DEF NeedsRespawn, LiveDescendantOfRoot

LEMMA FewerHungry ==
    ASSUME SlotsLeft, Hungry' \subseteq Hungry, FreeFibers \subseteq FreeFibers'
    PROVE  SlotsLeft'
<1>1. PICK slot \in [Hungry -> FreeFibers] : \A i, j \in Hungry : slot[i] = slot[j] => i = j
  BY DEF SlotsLeft
<1> DEFINE left == [i \in Hungry' |-> slot[i]]
<1>2. left \in [Hungry' -> FreeFibers'] /\ \A i \in Hungry' : left[i] = slot[i]
  BY <1>1
<1> HIDE DEF left
<1> QED
  BY <1>1, <1>2 DEF SlotsLeft

LEMMA CalmSlots ==
    ASSUME RuntimeInv, Calm, UNCHANGED ruleFibers
    PROVE  /\ Hungry' \subseteq Hungry
           /\ SlotsLeft => SlotsLeft'
<1>1. Hungry' \subseteq Hungry
  BY EntryFields, StillFed DEF Calm, Hungry
<1>2. FreeFibers \subseteq FreeFibers'
  BY DEF Calm, FreeFibers
<1> QED
  BY <1>1, <1>2, FewerHungry

LEMMA NobodyHungry ==
    Hungry = {} => SlotsLeft
<1> SUFFICES ASSUME Hungry = {} PROVE SlotsLeft
  OBVIOUS
<1>1. [i \in {} |-> i] \in [Hungry -> FreeFibers]
  OBVIOUS
<1> QED
  BY <1>1 DEF SlotsLeft

LEMMA PersistsHeld ==
    ASSUME RuntimeInv, Persists, UNCHANGED ruleFibers
    PROVE  /\ EntriesHeld => EntriesHeld'
           /\ RulesHeld => RulesHeld'
<1>1. \A r, f : f \in Fibers /\ Holds(r, f) => Holds(r, f)'
  BY DEF Persists, Holds
<1> QED
  BY <1>1, EntryFields DEF EntriesHeld, RulesHeld

(* Through the round, the fibers hold the slots of their rules.            *)
LEMMA RoundTurns ==
    ASSUME RuntimeInv, [Next]_vars, ~Sweep, ~CancelDone,
           pc \notin {"activate", "idle", "drain", "respawn"}
    PROVE  /\ UNCHANGED ruleFibers
           /\ pc' \notin {"activate", "idle", "drain", "respawn"}
           /\ InRound' => InRound
<1>1. CASE \E f \in Fibers : SliceStep(f)
  <2>1. PICK f \in Fibers : SliceStep(f) /\ SliceShape(f)
    BY <1>1, SliceStepShape
  <2>2. UNCHANGED ruleFibers
    BY <2>1, SlicePages
  <2>3. pc' \notin {"activate", "idle", "drain", "respawn"}
    BY <2>1
    DEF SliceShape, GoesOn, Ends, Parks, Yields, StartsAction, StartsChild, Stops, StartWalk
  <2> QED
    BY <2>1, <2>2, <2>3 DEF SliceShape, InRound
<1>2. CASE SettleRule \/ SettleResult
  <2>1. /\ pc = "settle" /\ UNCHANGED <<back, ruleFibers>>
        /\ pc' \in {"settle", "cancel", "cascade"}
        /\ pc' = "settle" => UNCHANGED fiber /\ walk'.fiber = walk.fiber
        /\ pc' = "cascade" => ~WalkCancels
    BY <1>2 DEF SettleRule, SettleResult, WalkCancels, thinkVars, pageVars, RuntimeInv,
                ControlInv, ControlTypeOK
  <2> QED
    BY <2>1 DEF InRound, WalkCancels
<1>3. CASE CancelRoot \/ CancelChildRule
  <2>1. PICK f \in Fibers : Cancels(f) /\ CancelRecord(f)
    BY <1>3, CancelShape
  <2>2. pc = "cancel" /\ pc' = "settle" /\ walk'.fiber = f /\ UNCHANGED <<back, ruleFibers>>
    BY <2>1 DEF Cancels, CancelRecord, StartWalk, thinkVars, pageVars
  <2>3. fiber'[f].state = "Cancelled"
    BY <2>1 DEF Cancels, Turns
  <2> QED
    BY <2>2, <2>3 DEF InRound, WalkCancels
<1>4. CASE DetachSpawned \/ RunChild \/ CascadeDone
  BY <1>4
  DEF DetachSpawned, RunChild, CascadeDone, InRound, thinkVars, pageVars
<1>5. CASE RunNext \/ Stopped \/ UNCHANGED vars
  BY <1>5 DEF RunNext, Stopped, vars, thinkVars, pageVars, loopVars, InRound, WalkCancels
<1>6. CASE \E h \in Handles : DeviceSettle(h)
  BY <1>6 DEF DeviceSettle, thinkVars, pageVars, InRound, WalkCancels
<1> QED
  BY <1>1, <1>2, <1>3, <1>4, <1>5, <1>6
  DEF Next, ThinkStep, SchedulerStep, ResumeWaiter, ReclaimHandle, ActivateRule,
      ActivationDone, DrainDone, RespawnRule, OpenRound, BeginThink, Shutdown

LEMMA RoundSlots ==
    ASSUME RuntimeInv, SlotInv, [Next]_vars, ~Sweep, ~CancelDone,
           pc \notin {"activate", "idle", "drain", "respawn"}
    PROVE  SlotInv'
BY NextPersists, RoundTurns, PersistsHeld DEF SlotInv

LEMMA CancelDoneSlots ==
    ASSUME RuntimeInv, SlotInv, CancelDone
    PROVE  SlotInv'
<1>1. Persists /\ pc = "cancel" /\ UNCHANGED <<fiber, walk>>
  BY SteadyFibers, SteadyPersists DEF CancelDone, RuntimeInv
<1>2. CASE back = "slice"
  BY <1>1, <1>2, PersistsHeld DEF CancelDone, SlotInv, InRound, pageVars
<1>3. CASE back # "slice"
  <2>1. ruleFibers' = << >> /\ pc' \in {"activate", "down"}
    BY <1>3 DEF CancelDone
  <2>2. Len(ruleFibers') = 0
    BY <2>1, EmptySeq
  <2> QED
    BY <2>1, <2>2 DEF SlotInv, EntriesHeld, InRound, Hungry
<1> QED
  BY <1>2, <1>3

(* Between the rounds, nobody takes the slots the sweep freed.             *)
LEMMA CalmLoopSlots ==
    ASSUME RuntimeInv, PlaceInv, SlotInv, pc # "body",
           \/ ResumeWaiter \/ ReclaimHandle \/ \E h \in Handles : DeviceSettle(h)
           \/ BeginThink \/ DrainDone \/ Shutdown \/ ActivationDone
    PROVE  SlotInv'
<1>1. Calm
  <2>1. CASE ResumeWaiter \/ ReclaimHandle
    BY <2>1, DrainShape, SteadyPersists DEF Wakes, Turns, Steady, Kept, Calm, Alive
  <2>2. CASE UNCHANGED fiber
    BY <2>2, SteadyFibers, SteadyPersists DEF RuntimeInv
  <2> QED
    BY <2>1, <2>2 DEF DeviceSettle, BeginThink, DrainDone, Shutdown, ActivationDone
<1>2. /\ UNCHANGED ruleFibers /\ Persists
      /\ pc' = "respawn" => cursor' = 1
      /\ pc' \in {"idle", "drain", "respawn", "cancel"}
      /\ pc' = "cancel" => back' # "slice"
  <2>1. UNCHANGED ruleFibers
    BY DEF ResumeWaiter, ReclaimHandle, DeviceSettle, BeginThink, DrainDone, Shutdown,
           ActivationDone, thinkVars, pageVars
  <2>2. Persists
    BY NextPersists
    DEF Next, ThinkStep, SchedulerStep, Sweep, ResumeWaiter, ReclaimHandle, DeviceSettle,
        BeginThink, DrainDone, Shutdown, ActivationDone
  <2> QED
    BY <2>1, <2>2
    DEF ResumeWaiter, ReclaimHandle, DeviceSettle, BeginThink, DrainDone, Shutdown,
        ActivationDone, PlaceInv, PlaceControl
<1>3. EntriesHeld'
  BY <1>2, PersistsHeld DEF SlotInv
<1>4. SlotsLeft'
  <2>1. pc \in {"idle", "drain", "activate"}
    BY DEF ResumeWaiter, ReclaimHandle, DeviceSettle, BeginThink, DrainDone, Shutdown,
           ActivationDone
  <2>2. SlotsLeft
    BY <2>1, NobodyHungry DEF SlotInv
  <2> QED
    BY <1>1, <1>2, <2>2, CalmSlots
<1> QED
  BY <1>2, <1>3, <1>4 DEF SlotInv, InRound, Hungry

(* The entries of a page are its roots, each named once.                   *)
LEMMA OneEntry ==
    ASSUME RuntimeInv, RuleEntries,
           NEW i \in 1..Len(ruleFibers), NEW j \in 1..Len(ruleFibers),
           ruleFibers[i].rule = ruleFibers[j].rule
    PROVE  i = j
BY PageRoots DEF RuleEntries

(* What the sweep leaves of an entry that still names a fiber.             *)
LEMMA SweptSlot ==
    ASSUME RuntimeInv, Sweep, NEW i \in 1..Len(ruleFibers), ruleFibers'[i].fiber # NoFiber
    PROVE  ruleFibers'[i] = ruleFibers[i] /\ ~FiberHas(ruleFibers[i].fiber, Terminal)
<1>1. ruleFibers' = [k \in 1..Len(ruleFibers) |->
          IF ruleFibers[k].fiber # NoFiber /\ FiberHas(ruleFibers[k].fiber, Terminal)
          THEN [ruleFibers[k] EXCEPT !.fiber = NoFiber]
          ELSE ruleFibers[k]]
  BY DEF Sweep
<1>2. [ruleFibers[i] EXCEPT !.fiber = NoFiber].fiber = NoFiber
  BY EntryType
<1> QED
  BY <1>1, <1>2

(* A round opens with a fiber of every rule of the page.                   *)
LEMMA OpenRoundSlots ==
    ASSUME RuntimeInv, SlotInv, OpenRound
    PROVE  SlotInv'
<1>1. /\ pc = "respawn" /\ cursor > Len(ruleFibers) /\ pc' = "round"
      /\ UNCHANGED <<fiber, ruleFibers>>
  BY DEF OpenRound, pageVars
<1>2. RulesHeld
  <2> SUFFICES ASSUME NEW i \in 1..Len(ruleFibers)
               PROVE  \E f \in Fibers : Holds(ruleFibers[i].rule, f)
    BY DEF RulesHeld
  <2>1. ~NeedsRespawn(ruleFibers[i])
    BY <1>1, PageRoots DEF SlotInv, Hungry
  <2>2. CASE ruleFibers[i].fiber # NoFiber
    BY <2>2, EntryFields DEF SlotInv, EntriesHeld
  <2>3. CASE LiveDescendantOfRoot(ruleFibers[i].rule)
    BY <2>3, EntryFields DEF LiveDescendantOfRoot, Alive, Holds, RootOf
  <2> QED
    BY <2>1, <2>2, <2>3 DEF NeedsRespawn
<1>3. EntriesHeld' /\ RulesHeld'
  BY <1>1, <1>2, SteadyFibers, SteadyPersists, PersistsHeld DEF SlotInv, RuntimeInv
<1> QED
  BY <1>1, <1>3 DEF SlotInv

(* The sweep: a rule that re-fires held a slot by a fiber that ended, and  *)
(* no two rules held the same.                                             *)
LEMMA SweepSlots ==
    ASSUME RuntimeInv, FiringInv, SlotInv, Sweep
    PROVE  SlotInv'
<1>1. /\ pc = "round" /\ pc' = "idle" /\ FiberInv
      /\ fiber' = [f \in Fibers |-> IF FiberHas(f, Terminal) THEN FreeFiber ELSE fiber[f]]
      /\ \A f \in Fibers : FiberHas(f, Terminal) => fiber'[f].state = "Free"
      /\ \A f \in Fibers : ~FiberHas(f, Terminal) => fiber'[f] = fiber[f]
  BY FreeFiberSound DEF Sweep, RuntimeInv
<1>2. EntriesHeld'
  <2> SUFFICES ASSUME NEW i \in 1..Len(ruleFibers), ruleFibers'[i].fiber # NoFiber
               PROVE  Holds(ruleFibers[i].rule, ruleFibers[i].fiber)'
    BY SweptEntries DEF EntriesHeld
  <2>1. ruleFibers'[i] = ruleFibers[i] /\ ~FiberHas(ruleFibers[i].fiber, Terminal)
    BY SweptSlot
  <2> QED
    BY <1>1, <2>1, EntryFields DEF SlotInv, EntriesHeld, Holds, RootOf
<1>3. PICK slot \in [1..Len(ruleFibers) -> Fibers] :
         \A i \in 1..Len(ruleFibers) : Holds(ruleFibers[i].rule, slot[i])
  <2> DEFINE held(i) == CHOOSE f \in Fibers : Holds(ruleFibers[i].rule, f)
             slot == [i \in 1..Len(ruleFibers) |-> held(i)]
  <2>1. \A i \in 1..Len(ruleFibers) : held(i) \in Fibers /\ Holds(ruleFibers[i].rule, held(i))
    BY <1>1 DEF SlotInv, InRound, RulesHeld
  <2> HIDE DEF held
  <2>2. /\ slot \in [1..Len(ruleFibers) -> Fibers]
        /\ \A i \in 1..Len(ruleFibers) : slot[i] = held(i)
    BY <2>1
  <2> HIDE DEF slot
  <2> QED
    BY <2>1, <2>2
<1>4. ASSUME NEW i \in Hungry'
      PROVE  i \in 1..Len(ruleFibers) /\ slot[i] \in FreeFibers'
  <2>1. i \in 1..Len(ruleFibers) /\ NeedsRespawn(ruleFibers[i])'
        /\ ruleFibers'[i].rule = ruleFibers[i].rule
    BY SweptEntries DEF Hungry
  <2>2. ~LiveDescendantOfRoot(ruleFibers[i].rule)
    BY <1>1, <2>1 DEF NeedsRespawn, LiveDescendantOfRoot, FiberHas, Terminal, Alive
  <2>3. ASSUME Alive(slot[i]) PROVE FALSE
    <3>1. slot[i] \in Fibers /\ RootOf(slot[i]) = ruleFibers[i].rule
      BY <1>3, <2>1 DEF Holds
    <3>2. fiber[slot[i]].subtree = NoRule /\ fiber[slot[i]].func = ruleFibers[i].rule
      BY <2>2, <2>3, <3>1 DEF LiveDescendantOfRoot, RootOf
    <3>3. slot[i] \in LiveRuleFibers
      BY <2>1, <2>3, <3>1, <3>2, EntryFields DEF LiveRuleFibers
    <3>4. ruleFibers[i].fiber = slot[i]
      BY <2>1, <3>1, <3>2, <3>3, OneEntry DEF FiringInv, Firings, Rooted
    <3>5. ruleFibers'[i].fiber = slot[i] /\ Alive(slot[i])'
      BY <1>1, <2>1, <2>3, <3>1, <3>4, SweptEntries DEF Alive, FiberHas, Terminal
    <3> QED
      BY <2>1, <3>1, <3>5, FunctionsAssumption DEF NeedsRespawn
  <2>4. slot[i] \in Fibers /\ fiber[slot[i]] \in FiberRecord /\ fiber[slot[i]].state # "Free"
    BY <1>1, <1>3, <2>1, RecordTypes DEF Holds
  <2> QED
    BY <1>1, <2>1, <2>3, <2>4 DEF FiberRecord, FiberState, Alive, FiberHas, Terminal, FreeFibers
<1>5. ASSUME NEW i \in 1..Len(ruleFibers), NEW j \in 1..Len(ruleFibers), slot[i] = slot[j]
      PROVE  i = j
  BY <1>3, <1>5, OneEntry DEF FiringInv, Holds
<1>6. SlotsLeft'
  <2> DEFINE left == [i \in Hungry' |-> slot[i]]
  <2>1. left \in [Hungry' -> FreeFibers'] /\ \A i \in Hungry' : left[i] = slot[i]
    BY <1>4
  <2> HIDE DEF left
  <2> QED
    BY <1>4, <1>5, <2>1 DEF SlotsLeft
<1> QED
  BY <1>1, <1>2, <1>6 DEF SlotInv, InRound

(* A root fiber is spawned: its rule holds a slot and needs none.          *)
LEMMA RootHolds ==
    ASSUME NEW n, NEW r, Born(n, r, r, NoRule, NoHandle)
    PROVE  /\ Persists /\ Holds(r, n)' /\ Alive(n)' /\ n \in Fibers
           /\ fiber[n].state = "Free"
           /\ \A g \in Fibers : Alive(g) => Alive(g)' /\ fiber'[g].subtree = fiber[g].subtree
           /\ \A g \in FreeFibers : g # n => g \in FreeFibers'
<1>1. /\ fiber'[n].state = "Runnable" /\ fiber'[n].func = r /\ fiber'[n].subtree = NoRule
      /\ n \in Fibers /\ fiber[n].state = "Free"
  BY DEF Born, NewFiber
<1> QED
  BY <1>1, BornPersists DEF Born, Steady, Kept, Holds, RootOf, Alive, FreeFibers

LEMMA ActivateSlots ==
    ASSUME RuntimeInv, FiringInv, SlotInv, ActivateRule
    PROVE  SlotInv'
<1>0. PICK m, r : m = Len(ruleFibers) /\ r = Roots[page][cursor]
  OBVIOUS
<1>1. /\ pc = "activate" /\ m \in Nat /\ FiberInv /\ cursor \in 1..Len(Roots[page])
      /\ r \in Rules
  BY <1>0, PageRoots DEF ActivateRule, RuntimeInv
<1>2. CASE CanSpawn
  <2>1. PICK n : n = FreshFiber
    OBVIOUS
  <2> DEFINE entry == [rule |-> r, fiber |-> n]
  <2>2. Spawn(r) /\ ruleFibers' = Append(ruleFibers, entry) /\ UNCHANGED pc
    BY <1>0, <1>2, <2>1 DEF ActivateRule
  <2>3. Born(n, r, r, NoRule, NoHandle)
    BY <1>1, <1>2, <2>1, <2>2, SpawnBorn
  <2>4. /\ Persists /\ Holds(r, n)' /\ Alive(n)' /\ n \in Fibers
        /\ \A g \in Fibers : Alive(g) => Alive(g)' /\ fiber'[g].subtree = fiber[g].subtree
    BY <2>3, RootHolds
  <2>5. /\ entry \in [rule : Rules, fiber : Fibers \cup {NoFiber}]
        /\ entry.rule = r /\ entry.fiber = n
    BY <1>1, <2>4
  <2> HIDE DEF entry
  <2>6. /\ Len(ruleFibers') = m + 1 /\ ruleFibers'[m + 1] = entry
        /\ \A i \in 1..m : ruleFibers'[i] = ruleFibers[i]
    BY <1>0, <2>2, <2>5, PageRoots, AppendProperties
  <2>7. ASSUME NEW i \in 1..Len(ruleFibers')
        PROVE  /\ ruleFibers'[i].fiber # NoFiber =>
                     Holds(ruleFibers[i].rule, ruleFibers[i].fiber)'
               /\ ~NeedsRespawn(ruleFibers[i])'
    <3>1. CASE i \in 1..m
      <4>1. ruleFibers'[i] = ruleFibers[i] /\ ruleFibers[i].fiber \in Fibers \cup {NoFiber}
            /\ ~NeedsRespawn(ruleFibers[i])
        BY <1>0, <1>1, <2>6, <3>1, EntryFields DEF SlotInv, Hungry
      <4>2. PICK e : e = ruleFibers[i] /\ e = ruleFibers'[i]
        BY <4>1
      <4>3. ~NeedsRespawn(e)'
        BY <2>4, <4>1, <4>2, StillFed
      <4>4. e.fiber # NoFiber => Holds(e.rule, e.fiber)'
        BY <1>0, <2>4, <3>1, <4>1, <4>2 DEF SlotInv, EntriesHeld, Persists, Holds
      <4> QED
        BY <4>2, <4>3, <4>4
    <3>2. CASE i = m + 1
      <4>1. ruleFibers'[i].rule = r /\ ruleFibers'[i].fiber = n
        BY <2>5, <2>6, <3>2
      <4> QED
        BY <2>4, <4>1, FunctionsAssumption DEF NeedsRespawn, Holds, RootOf
    <3> QED
      BY <1>1, <2>6, <3>1, <3>2
  <2>8. EntriesHeld' /\ Hungry' = {}
    BY <2>7 DEF EntriesHeld, Hungry
  <2> QED
    BY <1>1, <2>2, <2>8 DEF SlotInv, InRound
<1>3. CASE ~CanSpawn
  <2>1. UNCHANGED <<fiber, ruleFibers>> /\ pc' = "fault"
    BY <1>3 DEF ActivateRule
  <2> QED
    BY <1>1, <2>1, SteadyFibers, SteadyPersists, PersistsHeld DEF SlotInv, InRound
<1> QED
  BY <1>2, <1>3

(* The respawn: the fresh fiber takes a slot; if that was to be another    *)
(* rule's, the other gets this one's.                                      *)
LEMMA RespawnSlots ==
    ASSUME RuntimeInv, FiringInv, SlotInv, RespawnRule
    PROVE  SlotInv'
<1>0. PICK m, e, r : m = Len(ruleFibers) /\ e = ruleFibers[cursor] /\ r = e.rule
  OBVIOUS
<1>1. /\ pc = "respawn" /\ m \in Nat /\ cursor \in 1..m /\ FiberInv
      /\ EntriesHeld /\ SlotsLeft /\ \A i \in Hungry : i >= cursor
  BY <1>0, PageRoots DEF RespawnRule, RuntimeInv, SlotInv
<1>2. CASE NeedsRespawn(e) /\ CanSpawn
  <2>1. PICK n : n = FreshFiber
    OBVIOUS
  <2>2. Spawn(r) /\ ruleFibers' = [ruleFibers EXCEPT ![cursor].fiber = n]
        /\ UNCHANGED pc /\ cursor' = cursor + 1
    BY <1>0, <1>2, <2>1 DEF RespawnRule
  <2>3. Born(n, r, r, NoRule, NoHandle)
    BY <1>1, <1>2, <2>1, <2>2, SpawnBorn
  <2>4. e \in [rule : Rules, fiber : Fibers \cup {NoFiber}] /\ cursor \in Hungry
    BY <1>0, <1>1, <1>2, EntryType DEF Hungry
  <2>5. /\ Len(ruleFibers') = m
        /\ ruleFibers'[cursor] = [e EXCEPT !.fiber = n]
        /\ \A i \in 1..m : i # cursor => ruleFibers'[i] = ruleFibers[i]
    BY <1>0, <1>1, <2>2, PageRoots, LenProperties
  <2>6. ruleFibers'[cursor].rule = r /\ ruleFibers'[cursor].fiber = n
    BY <1>0, <2>4, <2>5
  <2>7. /\ Persists /\ Holds(r, n)' /\ Alive(n)' /\ n \in Fibers
        /\ \A g \in Fibers : Alive(g) => Alive(g)' /\ fiber'[g].subtree = fiber[g].subtree
        /\ \A g \in FreeFibers : g # n => g \in FreeFibers'
    BY <2>3, RootHolds
  <2>8. ASSUME NEW i \in 1..m
        PROVE  /\ ruleFibers'[i].fiber # NoFiber =>
                     Holds(ruleFibers[i].rule, ruleFibers[i].fiber)'
               /\ i \in Hungry' => i \in Hungry /\ i # cursor
    <3>1. CASE i # cursor
      <4>1. PICK x : x = ruleFibers[i] /\ x = ruleFibers'[i]
        BY <2>5, <3>1
      <4>2. x.fiber \in Fibers \cup {NoFiber}
        BY <1>0, <4>1, EntryFields
      <4>3. NeedsRespawn(x)' => NeedsRespawn(x)
        BY <2>7, <4>2, StillFed
      <4>4. x.fiber # NoFiber => Holds(x.rule, x.fiber)'
        BY <1>0, <1>1, <2>7, <4>1, <4>2 DEF EntriesHeld, Persists, Holds
      <4> QED
        BY <1>0, <3>1, <4>1, <4>3, <4>4 DEF Hungry
    <3>2. CASE i = cursor
      <4>1. Holds(ruleFibers[i].rule, ruleFibers[i].fiber)'
        BY <2>6, <2>7, <3>2 DEF Holds, RootOf
      <4>2. ~NeedsRespawn(ruleFibers[i])'
        BY <2>6, <2>7, <3>2, FunctionsAssumption DEF NeedsRespawn
      <4> QED
        BY <4>1, <4>2 DEF Hungry
    <3> QED
      BY <3>1, <3>2
  <2>9. EntriesHeld'
    BY <1>0, <2>5, <2>8 DEF EntriesHeld
  <2>10. \A i \in Hungry' : i \in Hungry /\ i # cursor
    BY <1>0, <2>5, <2>8 DEF Hungry
  <2>11. SlotsLeft'
    <3>1. PICK slot \in [Hungry -> FreeFibers] : \A i, j \in Hungry : slot[i] = slot[j] => i = j
      BY <1>1 DEF SlotsLeft
    <3> DEFINE next == [i \in Hungry' |-> IF slot[i] = n THEN slot[cursor] ELSE slot[i]]
    <3>2. \A i \in Hungry' : next[i] = IF slot[i] = n THEN slot[cursor] ELSE slot[i]
      OBVIOUS
    <3>3. next \in [Hungry' -> FreeFibers']
      BY <2>4, <2>7, <2>10, <3>1
    <3> HIDE DEF next
    <3> QED
      BY <2>4, <2>10, <3>1, <3>2, <3>3 DEF SlotsLeft
  <2>12. \A i \in Hungry' : i >= cursor'
    BY <1>0, <1>1, <2>2, <2>10 DEF Hungry
  <2> QED
    BY <1>1, <2>2, <2>9, <2>11, <2>12 DEF SlotInv, InRound
<1>3. CASE ~(NeedsRespawn(e) /\ CanSpawn)
  <2>1. /\ UNCHANGED <<fiber, ruleFibers>>
        /\ \/ pc' = "fault"
           \/ UNCHANGED pc /\ cursor' = cursor + 1 /\ ~NeedsRespawn(e)
    BY <1>0, <1>3 DEF RespawnRule
  <2>2. EntriesHeld' /\ SlotsLeft' /\ Hungry' \subseteq Hungry
    BY <1>1, <2>1, SteadyFibers, SteadyPersists, PersistsHeld, CalmSlots
  <2>3. UNCHANGED pc => \A i \in Hungry' : i >= cursor'
    BY <1>0, <1>1, <2>1, <2>2 DEF Hungry
  <2> QED
    BY <1>1, <2>1, <2>2, <2>3 DEF SlotInv, InRound
<1> QED
  BY <1>2, <1>3

LEMMA InitSlotInv ==
    Init => SlotInv
<1> SUFFICES ASSUME Init PROVE SlotInv
  OBVIOUS
<1>1. Len(ruleFibers) = 0 /\ pc = "activate"
  BY EmptySeq DEF Init
<1> QED
  BY <1>1 DEF SlotInv, EntriesHeld, InRound, Hungry

(* At every step of the think loop, the rules that will re-fire at the     *)
(* next respawn and the slots left for them match one to one.              *)
THEOREM SlotsInvariant ==
    Spec => []SlotInv
<1>1. RuntimeInv /\ PlaceInv /\ FiringInv /\ SlotInv /\ [Next]_vars => SlotInv'
  <2> SUFFICES ASSUME RuntimeInv, PlaceInv, FiringInv, SlotInv, [Next]_vars PROVE SlotInv'
    OBVIOUS
  <2>1. CASE pc \in {"activate", "idle", "drain", "respawn"} /\ ~Sweep /\ ~CancelDone
    <3>1. ASSUME NEW f \in Fibers, SliceStep(f) PROVE FALSE
      BY <2>1, <3>1, SliceStepShape DEF SliceShape
    <3>2. CASE UNCHANGED vars
      <4>1. UNCHANGED <<fiber, pc, ruleFibers, cursor>>
        BY <3>2 DEF vars, thinkVars, pageVars, loopVars
      <4>2. Persists /\ Calm
        BY <4>1, SteadyFibers, SteadyPersists DEF RuntimeInv
      <4> QED
        BY <2>1, <4>1, <4>2, PersistsHeld, CalmSlots DEF SlotInv, InRound
    <3> QED
      BY <2>1, <3>1, <3>2, CalmLoopSlots, OpenRoundSlots, ActivateSlots, RespawnSlots
      DEF Next, ThinkStep, SchedulerStep, SettleRule, SettleResult, CancelRoot,
          CancelChildRule, DetachSpawned, RunChild, CascadeDone, RunNext, Stopped
  <2> QED
    BY <2>1, RoundSlots, SweepSlots, CancelDoneSlots
<1> QED
  BY <1>1, InitSlotInv, RuntimeInvariant, PlacesInvariant, FiringsInvariant, PTL DEF Spec

(* The fiber cap never refuses a rule its respawn, however many actions,   *)
(* triggers and child rules took slots since it fired (think, sweep,       *)
(* allocFiber): only an activation can run into the cap.                   *)
THEOREM RespawnsFindSlots ==
    Spec => []RespawnFindsSlot
<1>1. RuntimeInv /\ SlotInv => RespawnFindsSlot
  <2> SUFFICES ASSUME RuntimeInv, SlotInv, pc = "respawn",
                      NEW i \in cursor..Len(ruleFibers), NeedsRespawn(ruleFibers[i])
               PROVE  CanSpawn
    BY DEF RespawnFindsSlot
  <2>1. i \in Hungry
    BY PageRoots DEF Hungry
  <2>2. PICK slot \in [Hungry -> FreeFibers] : TRUE
    BY DEF SlotInv, SlotsLeft
  <2> QED
    BY <2>1, <2>2 DEF FreeFibers, CanSpawn
<1> QED
  BY <1>1, RuntimeInvariant, SlotsInvariant, PTL

-----------------------------------------------------------------------------
(* Nobody is left out of a round.  The fibers a round still owes a slice   *)
(* are the ones in front of the queue, within its count: whoever joins the *)
(* queue joins at the end, and whoever leaves it is cancelled or has its   *)
(* turn.  A fiber that ended is not reborn before the sweep, so it cannot  *)
(* be owed a slice under a new name.                                       *)
Queued(f, s, n) == \E i \in 1..Len(s) : i <= n /\ s[i] = f
OwedInv ==
    \A f \in owed : /\ f \in Fibers /\ fiber[f].state # "Free"
                    /\ Alive(f) => Queued(f, runQueue, roundLeft)

(* Whoever stays in the queue stays within the count.                      *)
Advances ==
    \A f \in Fibers : Alive(f)' /\ Queued(f, runQueue, roundLeft)
                         => Queued(f, runQueue, roundLeft)'

LEMMA QueueTypes ==
    ASSUME RuntimeInv
    PROVE  runQueue \in Seq(Fibers) /\ Len(runQueue) \in Nat /\ roundLeft \in Nat
BY LenProperties DEF RuntimeInv, QueueTypeOK, PageTypeOK

LEMMA SameAdvances ==
    UNCHANGED <<runQueue, roundLeft>> => Advances
BY DEF Advances, Queued

LEMMA AppendAdvances ==
    ASSUME RuntimeInv, NEW f \in Fibers, runQueue' = Append(runQueue, f), UNCHANGED roundLeft
    PROVE  Advances
<1>1. /\ Len(runQueue') = Len(runQueue) + 1
      /\ \A i \in 1..Len(runQueue) : runQueue'[i] = runQueue[i]
  BY QueueTypes, AppendProperties
<1>2. \A i \in 1..Len(runQueue) : i \in 1..Len(runQueue')
  BY <1>1, QueueTypes
<1> QED
  BY <1>1, <1>2 DEF Advances, Queued

LEMMA CancelAdvances ==
    ASSUME RuntimeInv, PlaceInv, NEW f \in Fibers, Cancels(f), UNCHANGED roundLeft
    PROVE  Advances
<1>1. ~Alive(f)' /\ runQueue' = Without(runQueue, f)
  BY DEF Cancels, Turns, LeaveQueue, Alive
<1>2. CASE InSeq(f, runQueue)
  <2>1. \A i \in 1..Len(runQueue) : runQueue[i] # f =>
           \E j \in 1..Len(runQueue') : j <= i /\ runQueue'[j] = runQueue[i]
    BY <1>1, <1>2, QueueTypes, WithoutElements DEF PlaceInv, EachOnce
  <2> SUFFICES ASSUME NEW g \in Fibers, g # f,
                      NEW i \in 1..Len(runQueue), i <= roundLeft, runQueue[i] = g
               PROVE  Queued(g, runQueue, roundLeft)'
    BY <1>1 DEF Advances, Queued
  <2>2. PICK j \in 1..Len(runQueue') : j <= i /\ runQueue'[j] = g
    BY <2>1
  <2>3. Len(runQueue') \in Nat
    BY <1>1, <1>2, QueueTypes, WithoutType, LenProperties
  <2>4. j <= roundLeft'
    BY <2>2, <2>3, QueueTypes
  <2> QED
    BY <2>2, <2>4 DEF Queued
<1>3. CASE ~InSeq(f, runQueue)
  BY <1>1, <1>3, SameAdvances DEF Without
<1> QED
  BY <1>2, <1>3

LEMMA SliceCount ==
    ASSUME NEW f \in Fibers, SliceStep(f)
    PROVE  UNCHANGED roundLeft
BY
DEF SliceStep, HostCallAsync, Backpressure, DispatchFault, HostBody, ClearDevice,
    TriggerCall, TriggerBody, ActionCallAsync, Await, AwaitMissing, AwaitSettled,
    AwaitPending, InjectedThrow, SpawnRule, RequestPage, WhenStart, WhenGate, Script,
    YieldOp, BudgetExpires, Return, SliceCancelled, thinkVars, loopVars

LEMMA NextAdvances ==
    ASSUME RuntimeInv, PlaceInv, [Next]_vars, ~Sweep, ~RunNext, ~OpenRound
    PROVE  Advances
<1>1. CASE \E f \in Fibers : SliceStep(f)
  <2>1. PICK f \in Fibers : SliceShape(f) /\ UNCHANGED roundLeft
    BY <1>1, SliceStepShape, SliceCount
  <2>2. CASE GoesOn \/ Ends(f) \/ Parks(f) \/ Stops(f) \/ StartsChild(f)
    BY <2>1, <2>2, SameAdvances
    DEF GoesOn, SamePlaces, Ends, Parks, Stops, StartsChild, queueVars
  <2>3. CASE Yields(f)
    BY <2>1, <2>3, AppendAdvances DEF Yields
  <2>4. CASE StartsAction(f)
    BY <2>1, <2>4, AppendAdvances DEF StartsAction, Born
  <2> QED
    BY <2>1, <2>2, <2>3, <2>4 DEF SliceShape
<1>2. CASE CancelRoot \/ CancelChildRule
  <2>1. PICK f \in Fibers : Cancels(f) /\ CancelRecord(f)
    BY <1>2, CancelShape
  <2> QED
    BY <2>1, CancelAdvances DEF CancelRecord, thinkVars, loopVars
<1>3. CASE ResumeWaiter \/ ReclaimHandle
  <2>1. UNCHANGED roundLeft
    BY <1>3 DEF ResumeWaiter, ReclaimHandle, thinkVars, loopVars
  <2> QED
    BY <1>3, <2>1, DrainShape, SameAdvances, AppendAdvances DEF Wakes, SamePlaces, queueVars
<1>4. CASE ActivateRule \/ RespawnRule
  <2>1. CASE CanSpawn /\ \E r : Spawn(r)
    BY <1>4, <2>1, FreshFiberType, AppendAdvances DEF Spawn, ActivateRule, RespawnRule
  <2>2. CASE UNCHANGED runQueue
    BY <1>4, <2>2, SameAdvances DEF ActivateRule, RespawnRule
  <2> QED
    BY <1>4, <2>1, <2>2 DEF ActivateRule, RespawnRule
<1>5. CASE UNCHANGED <<runQueue, roundLeft>>
  BY <1>5, SameAdvances
<1> QED
  BY <1>1, <1>2, <1>3, <1>4, <1>5
  DEF Next, ThinkStep, SchedulerStep, SettleRule, SettleResult, DetachSpawned, RunChild,
      CascadeDone, ActivationDone, CancelDone, DrainDone, BeginThink, DeviceSettle, Shutdown,
      Stopped, vars, thinkVars, loopVars, queueVars

(* Who is owed a slice is alive as long as it was.                         *)
LEMMA StillOwed ==
    ASSUME RuntimeInv, OwedInv, [Next]_vars, Persists, Advances, owed' \subseteq owed
    PROVE  OwedInv'
<1> SUFFICES ASSUME NEW f \in owed'
             PROVE  /\ f \in Fibers /\ fiber'[f].state # "Free"
                    /\ Alive(f)' => Queued(f, runQueue, roundLeft)'
  BY DEF OwedInv
<1>1. f \in Fibers /\ fiber[f].state # "Free" /\ fiber'[f].state # "Free"
  BY DEF OwedInv, Persists
<1>2. Alive(f)' => Alive(f)
  <2>1. FinalStep
    BY NextSound DEF SoundStep, FiberStep
  <2>2. fiber[f].state \in FiberState
    BY <1>1 DEF RuntimeInv, FiberInv, SoundRecord, FiberRecord
  <2> QED
    BY <1>1, <2>1, <2>2 DEF FinalStep, FiberHas, Terminal, Alive, FiberState
<1> QED
  BY <1>1, <1>2 DEF OwedInv, Advances

LEMMA RunNextOwed ==
    ASSUME RuntimeInv, PlaceInv, OwedInv, RunNext, HistoryStep
    PROVE  OwedInv'
<1> DEFINE f == Head(runQueue)
<1>1. /\ runQueue # << >> /\ runQueue' = Tail(runQueue) /\ roundLeft' = roundLeft - 1
      /\ pc = "round" /\ running = NoFiber /\ NoFiber \notin Fibers /\ UNCHANGED fiber
      /\ pc' \in {"round", "slice"}
      /\ fiber[f].state = "Runnable" => running' = f
  BY FunctionsAssumption DEF RunNext, PlaceInv, PlaceControl, Quiet
<1>2. f \in Fibers /\ f = runQueue[1] /\ 1 \in 1..Len(runQueue)
  BY <1>1, QueueTypes, HeadTailProperties, EmptySeq
<1>3. fiber[f].state = "Runnable"
  BY <1>2 DEF PlaceInv, Placed, InSeq
<1>4. owed' = owed \ {f}
  BY <1>1, <1>2, <1>3 DEF HistoryStep, StartsSlice
<1>5. /\ Len(runQueue') = Len(runQueue) - 1
      /\ \A i \in 1..(Len(runQueue) - 1) : runQueue'[i] = runQueue[i + 1]
  BY <1>1, QueueTypes, HeadTailProperties
<1> SUFFICES ASSUME NEW g \in owed', Alive(g)
             PROVE  Queued(g, runQueue, roundLeft)'
  BY <1>1, <1>4 DEF OwedInv, Alive
<1>6. PICK i \in 1..Len(runQueue) : i <= roundLeft /\ runQueue[i] = g
  BY <1>4 DEF OwedInv, Queued
<1>7. i # 1
  BY <1>2, <1>4, <1>6
<1>8. i - 1 \in 1..Len(runQueue') /\ i - 1 <= roundLeft' /\ runQueue'[i - 1] = g
  BY <1>1, <1>5, <1>6, <1>7, QueueTypes
<1> QED
  BY <1>8 DEF Queued

LEMMA OpenRoundOwed ==
    ASSUME RuntimeInv, PlaceInv, OpenRound, HistoryStep
    PROVE  OwedInv'
<1>1. /\ owed' = {runQueue[i] : i \in 1..Len(runQueue)}
      /\ roundLeft' = Len(runQueue) /\ UNCHANGED <<fiber, runQueue>>
  <2>1. /\ pc = "respawn" /\ pc' = "round" /\ roundLeft' = Len(runQueue)
        /\ UNCHANGED <<fiber, runQueue, running>>
    BY DEF OpenRound, queueVars
  <2>2. owed' = {runQueue[i] : i \in 1..Len(runQueue)}
    BY <2>1 DEF HistoryStep, StartsSlice
  <2> QED
    BY <2>1, <2>2
<1> SUFFICES ASSUME NEW i \in 1..Len(runQueue)
             PROVE  /\ runQueue[i] \in Fibers /\ fiber[runQueue[i]].state # "Free"
                    /\ Queued(runQueue[i], runQueue, roundLeft)'
  BY <1>1 DEF OwedInv
<1>2. runQueue[i] \in Fibers
  BY QueueTypes, ElementOfSeq
<1>3. fiber[runQueue[i]].state = "Runnable"
  BY <1>2 DEF PlaceInv, Placed, InSeq
<1> QED
  BY <1>1, <1>2, <1>3, QueueTypes DEF Queued

LEMMA NextOwedInv ==
    ASSUME RuntimeInv, PlaceInv, OwedInv, [HistoryNext]_historyVars
    PROVE  OwedInv'
<1>1. CASE UNCHANGED historyVars
  BY <1>1 DEF historyVars, vars, queueVars, thinkVars, loopVars, OwedInv, Queued, Alive
<1>2. CASE HistoryNext
  <2>1. Next /\ HistoryStep
    BY <1>2 DEF HistoryNext
  <2>2. CASE Sweep
    <3>1. owed' = {}
      BY <2>1, <2>2 DEF Sweep, HistoryStep, StartsSlice
    <3> QED
      BY <3>1 DEF OwedInv
  <2>3. CASE ~Sweep /\ ~RunNext /\ ~OpenRound
    <3>1. owed' \subseteq owed
      <4>1. ~(pc = "respawn" /\ pc' = "round")
        <5>1. ASSUME NEW f \in Fibers, SliceStep(f) PROVE pc # "respawn"
          BY <5>1, SliceStepShape DEF SliceShape
        <5> QED
          BY <2>1, <2>3, <5>1
          DEF Next, ThinkStep, SchedulerStep, SettleRule, SettleResult, CancelRoot,
              CancelChildRule, ResumeWaiter, ReclaimHandle, DetachSpawned, RunChild,
              CascadeDone, ActivateRule, ActivationDone, CancelDone, DrainDone, RespawnRule,
              BeginThink, DeviceSettle, Shutdown, Stopped, vars
      <4> QED
        BY <2>1, <4>1 DEF HistoryStep
    <3> QED
      BY <2>1, <2>3, <3>1, NextPersists, NextAdvances, StillOwed
  <2> QED
    BY <2>1, <2>2, <2>3, RunNextOwed, OpenRoundOwed
<1> QED
  BY <1>1, <1>2

(* The observed runs are runs of the brain.                                *)
LEMMA ObservedRuns ==
    HistorySpec => Spec
<1>1. [HistoryNext]_historyVars => [Next]_vars
  BY DEF HistoryNext, historyVars
<1> QED
  BY <1>1, PTL DEF HistorySpec, HistoryInit, Spec

(* What a round owes is still in the queue, within the count left.         *)
THEOREM OwedInvariant ==
    HistorySpec => []OwedInv
<1>1. HistoryInit => OwedInv
  BY DEF HistoryInit, OwedInv
<1> QED
  BY <1>1, NextOwedInv, ObservedRuns, RuntimeInvariant, PlacesInvariant, PTL DEF HistorySpec

(* A round leaves nobody out: every fiber queued when it opened has had a  *)
(* slice, or was cancelled, when it ends (tick).                           *)
THEOREM RoundsServeAll ==
    HistorySpec => []RoundServesAll
<1>1. RuntimeInv /\ OwedInv => RoundServesAll
  <2> SUFFICES ASSUME RuntimeInv, OwedInv, roundLeft = 0 \/ runQueue = << >>, NEW f \in owed
               PROVE  ~Queued(f, runQueue, roundLeft)
    BY DEF RoundServesAll, OwedInv
  <2> QED
    BY EmptySeq DEF Queued
<1> QED
  BY <1>1, OwedInvariant, ObservedRuns, RuntimeInvariant, PTL

-----------------------------------------------------------------------------
(* A trigger tells the truth.  A rule whose firing lost a fiber is marked  *)
(* abandoned, or the settle walk of that fiber is on its way to mark it,   *)
(* before any trigger can read the mark; and only the rule's next spawn    *)
(* clears it.                                                              *)
Spoils(r) ==
    /\ pc = "settle" /\ walk.rule # NoRule /\ r \in Anc[walk.rule]
    /\ fiber[walk.fiber].state # "Done"
HarmInv == \A r \in harmed : r \in Rules /\ (abandoned[r] \/ Spoils(r))

(* Only a spawn of the rule clears its mark.                               *)
LEMMA MarksStay ==
    ASSUME RuntimeInv, [Next]_vars, NEW r \in Rules, abandoned[r]
    PROVE  abandoned'[r] \/ Spawns(r)
<1>0. abandoned \in [Rules -> BOOLEAN] /\ FiberInv
  BY DEF RuntimeInv, RuleTypeOK
<1>1. CASE UNCHANGED abandoned
  BY <1>1
<1>2. ASSUME NEW f \in Fibers, SpawnRule(f), ~UNCHANGED abandoned
      PROVE  abandoned'[r] \/ Spawns(r)
  <2> DEFINE root == IF fiber[f].subtree # NoRule THEN fiber[f].subtree ELSE fiber[f].func
             child == NewFiber(Arg(f), Arg(f), root, NoHandle)
  <2>1. /\ CanSpawn /\ abandoned' = [abandoned EXCEPT ![Arg(f)] = FALSE]
        /\ fiber' = [fiber EXCEPT ![f].ip = @ + 1, ![FreshFiber] = child]
    BY <1>2 DEF SpawnRule, DispatchFault, ruleVars
  <2>2. child.func = Arg(f)
    BY DEF NewFiber
  <2> HIDE DEF child
  <2>3. FreshFiber \in Fibers /\ fiber[FreshFiber].state = "Free"
        /\ fiber'[FreshFiber].func = Arg(f)
    BY <1>0, <2>1, <2>2, FreshFiberType, RecordTypes
  <2> QED
    BY <1>0, <2>1, <2>3 DEF Spawns
<1>3. ASSUME CanSpawn, NEW c, Spawn(c)
      PROVE  abandoned'[r] \/ Spawns(r)
  <2> DEFINE child == NewFiber(c, c, NoRule, NoHandle)
  <2>3. child.func = c
    BY DEF NewFiber
  <2>4. /\ CanSpawn
        /\ fiber' = [fiber EXCEPT ![FreshFiber] = child]
    BY <1>3 DEF Spawn
  <2> HIDE DEF child
  <2>1. /\ FreshFiber \in Fibers /\ fiber[FreshFiber].state = "Free"
        /\ fiber'[FreshFiber].func = c
    BY <1>0, <2>3, <2>4, FreshFiberType, RecordTypes
  <2>2. abandoned' = [abandoned EXCEPT ![c] = FALSE]
    BY <1>3 DEF Spawn
  <2> QED
    BY <1>0, <2>1, <2>2 DEF Spawns
<1>4. CASE SettleRule
  BY <1>0, <1>4 DEF SettleRule, Lost
<1>5. ASSUME NEW f \in Fibers, SliceStep(f), ~SpawnRule(f)
      PROVE  UNCHANGED abandoned
  BY <1>5
  DEF SliceStep, HostCallAsync, Backpressure, DispatchFault, HostBody, ClearDevice,
      TriggerCall, TriggerBody, ActionCallAsync, Await, AwaitMissing, AwaitSettled,
      AwaitPending, InjectedThrow, RequestPage, WhenStart, WhenGate, Script,
      YieldOp, BudgetExpires, Return, SliceCancelled, ruleVars
<1>6. CancelRoot \/ CancelChildRule => UNCHANGED abandoned
  BY DEF CancelRoot, CancelChildRule, CancelRecord, ruleVars
<1> QED
  BY <1>1, <1>2, <1>3, <1>4, <1>5, <1>6
  DEF Next, ThinkStep, SchedulerStep, SettleResult, ResumeWaiter, ReclaimHandle,
      DetachSpawned, RunChild, CascadeDone, ActivateRule, ActivationDone, CancelDone,
      DrainDone, RespawnRule, OpenRound, RunNext, Sweep, BeginThink, DeviceSettle, Shutdown,
      Stopped, vars, ruleVars

(* A fiber that is lost starts the walk that marks its rules.              *)
LEMMA LossSpoils ==
    ASSUME RuntimeInv, [Next]_vars, NEW r \in Rules, LosesFiber(r)
    PROVE  Spoils(r)'
<1>1. PICK f \in Fibers : /\ Alive(f) /\ fiber'[f].state \in {"Fault", "Cancelled"}
                          /\ fiber[f].rule \in Rules /\ r \in Anc[fiber[f].rule]
  BY DEF LosesFiber
<1>2. ~SettleRule /\ ~SettleResult
  BY <1>1, WalkShape DEF SameFibers, Steady, Alive
<1>3. Falls(f)
  <2>1. Outlives \/ \E g \in Fibers : Falls(g)
    BY <1>2, NextLives
  <2> QED
    BY <1>1, <2>1 DEF Outlives, LivesOn, Falls, Alive
<1>4. NoRule \notin Rules
  BY FunctionsAssumption DEF Funcs
<1> QED
  BY <1>1, <1>3, <1>4 DEF Falls, StartWalk, Spoils

(* The walk marks every rule it passes.                                    *)
LEMMA SpoilsGoOn ==
    ASSUME RuntimeInv, [Next]_vars, NEW r \in Rules, Spoils(r)
    PROVE  abandoned'[r] \/ Spoils(r)'
<1>1. pc = "settle" /\ abandoned \in [Rules -> BOOLEAN] /\ walk.rule \in Rules
      /\ walk.rule # NoRule /\ FiberInv /\ walk.fiber \in Fibers
      /\ walk \in [fiber : Fibers \cup {NoFiber}, rule : Rules \cup {NoRule},
                   liveAbove : BOOLEAN]
  BY DEF Spoils, RuntimeInv, RuleTypeOK, ControlInv, ControlTypeOK
<1>2. CASE SettleRule
  <2>1. /\ abandoned'[walk.rule] /\ UNCHANGED <<pc, fiber>>
        /\ walk'.rule = Parent[walk.rule] /\ walk'.fiber = walk.fiber
    BY <1>1, <1>2 DEF SettleRule, Lost, Spoils
  <2>2. CASE r = walk.rule
    BY <2>1, <2>2
  <2>3. CASE r # walk.rule
    <3>1. Parent[walk.rule] # NoRule /\ r \in Anc[Parent[walk.rule]]
      BY <1>1, <2>3, Ancestors DEF Spoils
    <3> QED
      BY <2>1, <3>1 DEF Spoils
  <2> QED
    BY <2>2, <2>3
<1>3. CASE UNCHANGED vars
  BY <1>3 DEF vars, Spoils
<1>4. ASSUME NEW f \in Fibers, SliceStep(f) PROVE FALSE
  BY <1>1, <1>4, SliceStepShape DEF SliceShape
<1> QED
  BY <1>1, <1>2, <1>3, <1>4
  DEF Next, ThinkStep, SchedulerStep, SettleResult, CancelRoot, CancelChildRule,
      ResumeWaiter, ReclaimHandle, DetachSpawned, RunChild, CascadeDone, ActivateRule,
      ActivationDone, CancelDone, DrainDone, RespawnRule, OpenRound, RunNext, Sweep,
      BeginThink, DeviceSettle, Shutdown, Stopped

(* Every rule whose firing lost a fiber is marked, or about to be.         *)
THEOREM HarmInvariant ==
    HistorySpec => []HarmInv
<1>1. HistoryInit => HarmInv
  BY DEF HistoryInit, HarmInv
<1>2. RuntimeInv /\ HarmInv /\ [HistoryNext]_historyVars => HarmInv'
  <2> SUFFICES ASSUME RuntimeInv, HarmInv, [HistoryNext]_historyVars PROVE HarmInv'
    OBVIOUS
  <2>1. CASE UNCHANGED historyVars
    BY <2>1 DEF historyVars, vars, ruleVars, HarmInv, Spoils
  <2>2. CASE HistoryNext
    <3>1. [Next]_vars /\ harmed' = {r \in harmed : ~Spawns(r)} \cup {r \in Rules : LosesFiber(r)}
      BY <2>2 DEF HistoryNext, HistoryStep
    <3> SUFFICES ASSUME NEW r \in harmed'
                 PROVE  r \in Rules /\ (abandoned'[r] \/ Spoils(r)')
      BY DEF HarmInv
    <3> QED
      BY <3>1, MarksStay, LossSpoils, SpoilsGoOn DEF HarmInv
  <2> QED
    BY <2>1, <2>2
<1> QED
  BY <1>1, <1>2, ObservedRuns, RuntimeInvariant, PTL DEF HistorySpec

-----------------------------------------------------------------------------
(* No handle is answered "true".                                           *)
Mute == \A h \in Handles : hresult'[h] = "true" => hresult[h] = "true"

LEMMA MuteSettle ==
    ASSUME hresult \in [Handles -> Values], NEW h, NEW outcome, Settle(h, outcome, "any")
    PROVE  Mute
BY DEF Mute, handleVars, Settle
LEMMA MuteDelete ==
    ASSUME hresult \in [Handles -> Values], NEW h, DeleteHandle(h)
    PROVE  Mute
BY DEF Mute, DeleteHandle
LEMMA MuteTable ==
    ASSUME hresult \in [Handles -> Values]
    PROVE  /\ \A h, capped : CreatePending(h, capped) => Mute
           /\ \A h, f : AddWaiter(h, f) \/ RemoveWaiter(h, f) => Mute
           /\ VisitWaiter \/ Clear \/ UNCHANGED handleVars => Mute
BY DEF Mute, handleVars, CreatePending, AddWaiter, RemoveWaiter, VisitWaiter, Clear

(* Only a trigger's body and the settle walk answer "true".                *)
LEMMA WhoAnswers ==
    ASSUME RuntimeInv, [Next]_vars
    PROVE  Mute \/ SettleRule \/ \E f \in Fibers : TriggerBody(f)
<1>0. hresult \in [Handles -> Values]
  BY DEF RuntimeInv, TableInv, HandleTypeOK
<1>1. ASSUME NEW f \in Fibers, SliceStep(f), ~TriggerBody(f) PROVE Mute
  <2>1. CASE HostCallAsync(f)
    BY <1>0, <2>1, MuteTable DEF HostCallAsync, Backpressure, DispatchFault
  <2>2. CASE HostBody(f)
    BY <1>0, <2>2, MuteTable, MuteSettle, MuteDelete DEF HostBody, Rollback
  <2>3. CASE ClearDevice(f)
    BY <1>0, <2>3, MuteTable, MuteSettle DEF ClearDevice
  <2>4. CASE TriggerCall(f)
    BY <1>0, <2>4, MuteTable DEF TriggerCall, DispatchFault
  <2>5. CASE ActionCallAsync(f)
    BY <1>0, <2>5, MuteTable DEF ActionCallAsync, Backpressure, DispatchFault
  <2>6. CASE Await(f)
    BY <1>0, <2>6, MuteTable DEF Await, AwaitMissing, AwaitSettled, AwaitPending
  <2> QED
    BY <1>0, <1>1, <2>1, <2>2, <2>3, <2>4, <2>5, <2>6, MuteTable
    DEF SliceStep, InjectedThrow, SpawnRule, DispatchFault, RequestPage, WhenStart, WhenGate,
        Script, YieldOp, BudgetExpires, Return, SliceCancelled
<1>2. CASE SettleResult
  BY <1>0, <1>2, MuteTable, MuteSettle DEF SettleResult
<1>3. CASE CancelRoot \/ CancelChildRule
  BY <1>0, <1>3, MuteTable DEF CancelRoot, CancelChildRule, CancelRecord, LeaveWaiters
<1>4. CASE ResumeWaiter \/ ReclaimHandle \/ CancelDone
  BY <1>0, <1>4, MuteTable, MuteDelete DEF ResumeWaiter, ReclaimHandle, Reclaim, CancelDone
<1>5. ASSUME NEW h \in Handles, DeviceSettle(h) PROVE Mute
  BY <1>0, <1>5, MuteSettle DEF DeviceSettle
<1> QED
  BY <1>0, <1>1, <1>2, <1>3, <1>4, <1>5, MuteTable
  DEF Next, ThinkStep, SchedulerStep, DetachSpawned, RunChild, CascadeDone, ActivateRule,
      ActivationDone, DrainDone, RespawnRule, OpenRound, RunNext, Sweep, BeginThink,
      Shutdown, Stopped, vars

(* A rule trigger answers true only when the firing it is about is over,   *)
(* every fiber of its cluster included, and none of them faulted or was    *)
(* cancelled (execRuleTrigger, settleRuleWatchers).                        *)
THEOREM TriggersTellTruth ==
    HistorySpec => TriggerTruthful
<1> DEFINE Truthful ==
       \A h \in Handles : hresult[h] # "true" /\ hresult'[h] = "true" =>
             AnsweredRule \notin harmed /\ ~LiveRuleSubtree(AnsweredRule)
<1>1. RuntimeInv /\ HarmInv /\ [HistoryNext]_historyVars => [Truthful]_historyVars
  <2> SUFFICES ASSUME RuntimeInv, HarmInv, HistoryNext,
                      NEW h \in Handles, hresult[h] # "true", hresult'[h] = "true"
               PROVE  AnsweredRule \notin harmed /\ ~LiveRuleSubtree(AnsweredRule)
    BY DEF Truthful
  <2>0. hresult \in [Handles -> Values]
    BY DEF RuntimeInv, TableInv, HandleTypeOK
  <2>1. ASSUME NEW f \in Fibers, TriggerBody(f)
        PROVE  AnsweredRule \notin harmed /\ ~LiveRuleSubtree(AnsweredRule)
    <3> DEFINE subject == Subject[fiber[f].rule]
               answer == /\ subject # NoRule
                         /\ firing[subject] = "DidFire" /\ ~abandoned[subject]
    <3>1. AnsweredRule = subject /\ pc = "sensor"
      BY <2>1 DEF TriggerBody, AnsweredRule
    <3>2. /\ ~SubjectPending(subject)
          /\ Settle(fiber[f].held, "Resolved", Truth(answer))
      BY <2>1 DEF TriggerBody, handleVars
    <3>3. answer
      <4>1. CASE ~answer
        BY <2>0, <3>2, <4>1 DEF Settle, Truth, handleVars
      <4> QED
        BY <4>1
    <3> QED
      BY <3>1, <3>2, <3>3 DEF SubjectPending, HarmInv, Spoils
  <2>2. CASE SettleRule
    <3> DEFINE r == walk.rule
               answer == ~Lost(r) /\ firing[r] = "DidFire"
    <3>1. AnsweredRule = r /\ pc = "settle"
      BY <2>2 DEF SettleRule, AnsweredRule
    <3>2. /\ ~LiveRuleSubtree(r)
          /\ Settle(watcher[r], "Resolved", Truth(answer))
      BY <2>2 DEF SettleRule, handleVars
    <3>3. answer
      <4>1. CASE ~answer
        BY <2>0, <3>2, <4>1 DEF Settle, Truth, handleVars
      <4> QED
        BY <4>1
    <3> QED
      BY <3>1, <3>2, <3>3 DEF Lost, HarmInv, Spoils
  <2> QED
    BY <2>1, <2>2, WhoAnswers DEF Mute, HistoryNext
<1> QED
  BY <1>1, HarmInvariant, ObservedRuns, RuntimeInvariant, PTL
  DEF HistorySpec, TriggerTruthful, Truthful
=============================================================================
