--------------------------- MODULE FiberScheduler ---------------------------
(***************************************************************************)
(* The cooperative fiber scheduler (core/runtime/fiber-scheduler.cpp) and  *)
(* the instructions of the VM that suspend, spawn, park or cancel a fiber  *)
(* (core/runtime/vm.cpp, runExecution).                                    *)
(*                                                                         *)
(* The VM is single-threaded: pc names the place in the think loop where   *)
(* control is, and a loop of the code is one step per iteration.  A fiber  *)
(* runs the code of its function one instruction per step; Code keeps the  *)
(* instructions that change scheduler state, every other instruction is    *)
(* "script".  The scheduler's steps touch the handle table at most once    *)
(* each, through the operators of HandleTable.                             *)
(***************************************************************************)
EXTENDS HandleTable

CONSTANTS
    Rules,       \* rule functions (a rule funcId)
    Actions,     \* async bytecode actions (an entry funcId)
    Pages,       \* page indices
    Parent,      \* parentRuleFuncId: Rules -> Rules \cup {NoRule}
    Anc,         \* a rule with all its ancestors: Rules -> SUBSET Rules
    Subject,     \* precedingSiblingRuleFuncId: Rules -> Rules \cup {NoRule}
    Code,        \* the instructions of each function
    FaultRounds, \* kHandleBackpressureFaultRounds
    NoFiber, NoHandle, NoRule, Gone

Funcs == Rules \cup Actions

Ops == {"host", "action", "trigger", "spawn", "restart", "page", "clear",
        "yield", "when", "gate", "chain", "script"}

(* An instruction; arg is the action, the child rule or the page it names. *)
Instr == [op : Ops, arg : Funcs \cup Pages \cup {NoRule}]

ASSUME FunctionsAssumption ==
    /\ Rules \cap Actions = {}
    /\ NoRule \notin Funcs /\ NoFiber \notin Fibers
    /\ NoHandle \notin Handles /\ Gone \notin Handles /\ NoHandle # Gone
    /\ Code \in [Funcs -> Seq(Instr)]
    /\ FaultRounds \in Nat \ {0}

ASSUME RuleTreeAssumption ==
    /\ Parent \in [Rules -> Rules \cup {NoRule}]
    /\ Subject \in [Rules -> Rules \cup {NoRule}]
    /\ Anc \in [Rules -> SUBSET Rules]
    /\ \A r \in Rules :
          /\ Anc[r] = {r} \cup (IF Parent[r] = NoRule THEN {} ELSE Anc[Parent[r]])
          /\ \A a \in Anc[r] : Anc[a] \subseteq Anc[r]

ASSUME CodeAssumption ==
    \A fn \in Funcs : \A i \in 1..Len(Code[fn]) :
        LET ins == Code[fn][i] IN
        /\ ins.op = "action" => ins.arg \in Actions
        /\ ins.op = "spawn" => fn \in Rules /\ ins.arg \in Rules /\ Parent[ins.arg] = fn
        /\ ins.op \in {"when", "gate", "chain", "trigger"} => fn \in Rules
        /\ ins.op = "page" => ins.arg \in Pages
        (* the compiler emits one SPAWN_RULE for a child rule *)
        /\ ins.op = "spawn" => \A j \in 1..Len(Code[fn]) : Code[fn][j] = ins => j = i

VARIABLES
    fiber,     \* the record of every fiber slot
    runQueue,  \* runHead_/runTail_: the FIFO of fibers awaiting a round
    spawned,   \* spawnHead_/spawnTail_: child rules the current slice spawned
    cascade,   \* the detached child rules still to drain, depth first
    running,   \* running_: the fiber whose slice runs
    ran,       \* whether the slice has executed an instruction (its budget)
    watcher,   \* ruleWatchers: the parked rule-trigger handle of each rule
    firing,    \* ruleFiring: the outcome of each rule's last WHEN
    abandoned, \* ruleAbandoned: the rule's firing lost a fiber
    device,    \* handles a device or host body retains (AsyncHandle)
    walk,      \* the settle walk: its fiber, the rule it is at, liveAbove
    pc,        \* where the think loop is
    back,      \* where control goes after a cancel loop or an activation
    page,      \* currentPageIndex_
    desired,   \* desiredPageIndex_
    ruleFibers,\* ruleFibers_: the page's root rules with their fibers
    cursor,    \* the next entry of an activation or respawn loop
    roundLeft  \* slices the round may still hand out (roundSize - i)

queueVars == <<runQueue, spawned, cascade>>
ruleVars == <<watcher, firing, abandoned>>
pageVars == <<page, desired, ruleFibers>>
loopVars == <<cursor, roundLeft>>
thinkVars == <<pageVars, loopVars>>
vars == <<handleVars, fiber, queueVars, running, ran, ruleVars, device, walk, pc, back,
          thinkVars>>

FiberState == {"Free", "Runnable", "Waiting", "Done", "Fault", "Cancelled"}
Terminal == {"Done", "Fault", "Cancelled"}
FiringState == {"DidFire", "DidNotFire", "Evaluating"}

FiberRecord ==
    [state : FiberState,
     func : Funcs \cup {NoRule},              \* the entry function
     rule : Rules \cup {NoRule},              \* ruleFuncId: the rule it runs for
     subtree : Rules \cup {NoRule},           \* rootRuleFuncId of a child rule
     ip : Nat \ {0},                          \* the next instruction
     await : Handles \cup {NoHandle, Gone},   \* AwaitSite::handleId
     held : Handles \cup {NoHandle, Gone},    \* a dispatched handle on the stack
     top : Values,                            \* the awaited value on the stack
     result : Handles \cup {NoHandle},        \* asyncResultHandleId
     throwing : BOOLEAN,                      \* pendingInjectedThrow
     rounds : 0..(FaultRounds - 1)]           \* handleBackpressureRounds

NewFiber(fn, r, root, res) ==
    [state |-> "Runnable", func |-> fn, rule |-> r, subtree |-> root, ip |-> 1,
     await |-> NoHandle, held |-> NoHandle, top |-> "any",
     result |-> res, throwing |-> FALSE, rounds |-> 0]

FreeFiber == [NewFiber(NoRule, NoRule, NoRule, NoHandle) EXCEPT !.state = "Free"]

Truth(b) == IF b THEN "true" ELSE "false"
NoWalk == [fiber |-> NoFiber, rule |-> NoRule, liveAbove |-> FALSE]

FiberHas(f, states) == fiber[f].state \in states
Alive(f) == fiber[f].state \in {"Runnable", "Waiting"}
CanSpawn == \E f \in Fibers : fiber[f].state = "Free"
FreshFiber == CHOOSE f \in Fibers : fiber[f].state = "Free"

LiveDescendantOfRoot(r) == \E f \in Fibers : Alive(f) /\ fiber[f].subtree = r
LiveRuleSubtree(r) ==
    \E f \in Fibers : Alive(f) /\ fiber[f].rule # NoRule /\ r \in Anc[fiber[f].rule]

(* Every reference a fiber still holds to a freed slot is a stale id.      *)
Forget(fs, h) ==
    [f \in Fibers |->
        [fs[f] EXCEPT !.held = IF @ = h THEN Gone ELSE @,
                      !.await = IF @ = h THEN Gone ELSE @]]

-----------------------------------------------------------------------------
(* The instruction the running fiber is at.                                *)
InSlice(f) == pc = "slice" /\ running = f /\ fiber[f].state = "Runnable"
AtNext(f) == InSlice(f) /\ ~fiber[f].throwing /\ fiber[f].held = NoHandle
At(f, op) ==
    /\ AtNext(f)
    /\ fiber[f].ip \in 1..Len(Code[fiber[f].func])
    /\ Code[fiber[f].func][fiber[f].ip].op = op
Arg(f) == Code[fiber[f].func][fiber[f].ip].arg

Continue == ran' = TRUE /\ UNCHANGED <<running, pc, walk, back>>

(* The ends of a slice (runFiberSlice): the fiber yields, parks, or is     *)
(* terminal and starts its settle walk.                                    *)
EndSlice == running' = NoFiber /\ ran' = FALSE
YieldSlice(f, record) ==
    /\ fiber' = [fiber EXCEPT ![f] = record]
    /\ runQueue' = Append(runQueue, f)
    /\ pc' = "cascade"
    /\ EndSlice
    /\ UNCHANGED <<spawned, cascade, walk, back>>
StartWalk(f) ==
    /\ walk' = [fiber |-> f, rule |-> fiber[f].rule, liveAbove |-> FALSE]
    /\ pc' = "settle"
FinishSlice(f, terminal) ==
    /\ fiber' = [fiber EXCEPT ![f].state = terminal, ![f].held = NoHandle]
    /\ StartWalk(f)
    /\ EndSlice
    /\ UNCHANGED <<queueVars, back>>

(* Mutant of Backpressure: the fiber is refused for ever.                  *)
BackpressureForever(f) ==
    /\ YieldSlice(f, fiber[f])
    /\ UNCHANGED <<handleVars, ruleVars, device, thinkVars>>

(* The dispatch found no free capped handle: retry it next round, and      *)
(* fault the fiber once it has been refused FaultRounds times in a row.    *)
Backpressure(f) ==
    /\ IF fiber[f].rounds + 1 >= FaultRounds
       THEN FinishSlice(f, "Fault")
       ELSE YieldSlice(f, [fiber[f] EXCEPT !.rounds = @ + 1])
    /\ UNCHANGED <<handleVars, ruleVars, device, thinkVars>>

(* A dispatch whose handle or child fiber the arena cannot back.           *)
DispatchFault(f) ==
    /\ FinishSlice(f, "Fault")
    /\ UNCHANGED <<handleVars, ruleVars, device, thinkVars>>

(* HOST_CALL_ASYNC and a capped HOST_ACTION_CALL_ASYNC, up to the call of  *)
(* the async body.                                                         *)
HostCallAsync(f) ==
    /\ At(f, "host")
    /\ \/ ~HasCapacity /\ Backpressure(f)
       \/ HasCapacity /\ ~CanCreate(TRUE) /\ DispatchFault(f)
       \/ /\ CanCreate(TRUE)
          /\ CreatePending(FreshHandle, TRUE)
          /\ fiber' = [fiber EXCEPT ![f].held = FreshHandle, ![f].rounds = 0]
          /\ pc' = "body" /\ ran' = TRUE
          /\ UNCHANGED <<queueVars, running, ruleVars, device, walk, back, thinkVars>>

(* The async host body: it keeps the handle, resolves it at dispatch, or   *)
(* fails, which rolls the handle back and faults the fiber.                *)
HostBody(f) ==
    /\ pc = "body" /\ running = f
    /\ LET h == fiber[f].held IN
       \/ /\ device' = device \cup {h}
          /\ fiber' = [fiber EXCEPT ![f].ip = @ + 1]
          /\ pc' = "slice"
          /\ UNCHANGED <<handleVars, queueVars, running, ran, walk, back>>
       \/ /\ Settle(h, "Resolved", "any")
          /\ fiber' = [fiber EXCEPT ![f].ip = @ + 1]
          /\ pc' = "slice"
          /\ UNCHANGED <<queueVars, running, ran, device, walk, back>>
       \/ /\ Rollback(h)
          /\ FinishSlice(f, "Fault")
          /\ UNCHANGED device
    /\ UNCHANGED <<ruleVars, thinkVars>>

(* An operation the device holds completes: by the port's poll between     *)
(* thinks, or because the async body running now preempts it.              *)
DeviceSettle(h) ==
    /\ pc \in {"idle", "body"}
    /\ h \in device
    /\ Settle(h, "Resolved", "any")
    /\ device' = device \ {h}
    /\ UNCHANGED <<fiber, queueVars, running, ran, ruleVars, walk, pc, back, thinkVars>>

(* A synchronous host body that ends the outstanding operation.            *)
ClearDevice(f) ==
    /\ At(f, "clear")
    /\ \/ \E h \in device : Settle(h, "Resolved", "any") /\ device' = device \ {h}
       \/ device = {} /\ UNCHANGED <<handleVars, device>>
    /\ fiber' = [fiber EXCEPT ![f].ip = @ + 1]
    /\ Continue
    /\ UNCHANGED <<queueVars, ruleVars, thinkVars>>

(* The rule-trigger sensor: an uncapped HOST_ACTION_CALL_ASYNC, then its   *)
(* body, which parks the handle in the subject's watcher slot while the    *)
(* subject's cluster is live and answers at once otherwise.                *)
TriggerCall(f) ==
    /\ At(f, "trigger")
    /\ \/ ~CanCreate(FALSE) /\ DispatchFault(f)
       \/ /\ CanCreate(FALSE)
          /\ CreatePending(FreshHandle, FALSE)
          /\ fiber' = [fiber EXCEPT ![f].held = FreshHandle, ![f].rounds = 0]
          /\ pc' = "sensor" /\ ran' = TRUE
          /\ UNCHANGED <<queueVars, running, ruleVars, device, walk, back, thinkVars>>
SubjectPending(subject) == subject # NoRule /\ LiveRuleSubtree(subject)
TriggerBody(f) ==
    /\ pc = "sensor" /\ running = f
    /\ LET h == fiber[f].held
           subject == Subject[fiber[f].rule]
           pending == SubjectPending(subject)
           answer == /\ subject # NoRule
                     /\ firing[subject] = "DidFire" /\ ~abandoned[subject]
       IN  \/ /\ pending
              /\ firing' = [firing EXCEPT ![fiber[f].rule] = "DidNotFire"]
              /\ watcher' = [watcher EXCEPT ![subject] = h]
              /\ UNCHANGED handleVars
           \/ /\ ~pending
              /\ Settle(h, "Resolved", Truth(answer))
              /\ UNCHANGED <<watcher, firing>>
    /\ fiber' = [fiber EXCEPT ![f].ip = @ + 1]
    /\ pc' = "slice"
    /\ UNCHANGED <<queueVars, running, ran, abandoned, device, walk, back, thinkVars>>

(* Mutant of ActionCallAsync: the handle outlives the failed spawn.        *)
ActionCallLeaks(f) ==
    /\ At(f, "action") /\ CanCreate(TRUE)
    /\ CreatePending(FreshHandle, TRUE)
    /\ IF CanSpawn
       THEN /\ fiber' = [fiber EXCEPT
                  ![f].held = FreshHandle, ![f].ip = @ + 1,
                  ![FreshFiber] = NewFiber(Arg(f), fiber[f].rule, NoRule, FreshHandle)]
            /\ runQueue' = Append(runQueue, FreshFiber)
            /\ Continue
            /\ UNCHANGED <<spawned, cascade>>
       ELSE FinishSlice(f, "Fault")
    /\ UNCHANGED <<ruleVars, device, thinkVars>>

(* ACTION_CALL_ASYNC and spawnAsyncActionChild.  When no fiber slot is     *)
(* free the handle just created is deleted again and the dispatch faults.  *)
ActionCallAsync(f) ==
    /\ At(f, "action")
    /\ \/ ~HasCapacity /\ Backpressure(f)
       \/ HasCapacity /\ ~(CanCreate(TRUE) /\ CanSpawn) /\ DispatchFault(f)
       \/ /\ CanCreate(TRUE) /\ CanSpawn
          /\ CreatePending(FreshHandle, TRUE)
          /\ fiber' = [fiber EXCEPT
                ![f].held = FreshHandle, ![f].ip = @ + 1, ![f].rounds = 0,
                ![FreshFiber] = NewFiber(Arg(f), fiber[f].rule, NoRule, FreshHandle)]
          /\ runQueue' = Append(runQueue, FreshFiber)
          /\ Continue
          /\ UNCHANGED <<spawned, cascade, ruleVars, device, thinkVars>>

(* throwError: a handler of the fiber catches the error, or it escapes and *)
(* faults the fiber.                                                       *)
Throw(f) ==
    \/ /\ fiber' = [fiber EXCEPT ![f].throwing = FALSE, ![f].held = NoHandle]
       /\ Continue
       /\ UNCHANGED queueVars
    \/ FinishSlice(f, "Fault")

(* AWAIT pops the dispatched handle.                                       *)
AwaitMissing(f) ==
    /\ InSlice(f) /\ ~fiber[f].throwing /\ fiber[f].held = Gone
    /\ FinishSlice(f, "Fault")
    /\ UNCHANGED <<handleVars, ruleVars, device, thinkVars>>
Awaits(f, h) ==
    InSlice(f) /\ ~fiber[f].throwing /\ fiber[f].held = h /\ h \in Handles
AwaitSettled(f) ==
    \E h \in Handles :
        /\ Awaits(f, h) /\ hstate[h] \in Settled
        /\ IF hstate[h] = "Resolved"
           THEN /\ fiber' = [fiber EXCEPT ![f].held = NoHandle, ![f].top = hresult[h]]
                /\ Continue
                /\ UNCHANGED queueVars
           ELSE Throw(f)
        /\ UNCHANGED <<handleVars, ruleVars, device, thinkVars>>
AwaitPending(f) ==
    \E h \in Handles :
        /\ Awaits(f, h) /\ hstate[h] = "Pending"
        /\ fiber' = [fiber EXCEPT ![f].state = "Waiting", ![f].held = NoHandle,
                                  ![f].await = h]
        /\ AddWaiter(h, f)
        /\ pc' = "cascade"
        /\ EndSlice
        /\ UNCHANGED <<queueVars, ruleVars, device, walk, back, thinkVars>>
Await(f) == AwaitMissing(f) \/ AwaitSettled(f) \/ AwaitPending(f)

(* The fiber was resumed by a rejected or cancelled handle.                *)
InjectedThrow(f) ==
    /\ InSlice(f) /\ fiber[f].throwing
    /\ Throw(f)
    /\ UNCHANGED <<handleVars, ruleVars, device, thinkVars>>

(* SPAWN_RULE and spawnChildRule: the child joins the spawn list, tagged   *)
(* with the root of the spawner's subtree.                                 *)
SpawnRule(f) ==
    /\ At(f, "spawn")
    /\ \/ ~CanSpawn /\ DispatchFault(f)
       \/ /\ CanSpawn
          /\ LET root == IF fiber[f].subtree # NoRule THEN fiber[f].subtree
                                                      ELSE fiber[f].func
             IN  fiber' = [fiber EXCEPT
                    ![f].ip = @ + 1,
                    ![FreshFiber] = NewFiber(Arg(f), Arg(f), root, NoHandle)]
          /\ spawned' = Append(spawned, FreshFiber)
          /\ abandoned' = [abandoned EXCEPT ![Arg(f)] = FALSE]
          /\ Continue
          /\ UNCHANGED <<handleVars, runQueue, cascade, watcher, firing, device, thinkVars>>

(* A host body that restarts the page or requests another one (the current *)
(* page restarts): the page's rule fibers are cancelled before it returns. *)
RequestPage(f) ==
    /\ At(f, "restart") \/ At(f, "page")
    /\ desired' = IF At(f, "page") /\ Arg(f) # page THEN Arg(f) ELSE desired
    /\ fiber' = [fiber EXCEPT ![f].ip = @ + 1]
    /\ pc' = "cancel" /\ back' = "slice" /\ ran' = TRUE
    /\ UNCHANGED <<handleVars, queueVars, running, ruleVars, device, walk, page, ruleFibers,
                   loopVars>>

(* WHEN_START, and the WHEN gates (execWhenGate): a gate writes the rule's *)
(* firing record and falls through or skips the DO section.  The record of *)
(* a chaining rule that did not fire is its subject's.                     *)
WhenStart(f) ==
    /\ At(f, "when")
    /\ firing' = [firing EXCEPT ![fiber[f].rule] = "Evaluating"]
    /\ fiber' = [fiber EXCEPT ![f].ip = @ + 1]
    /\ Continue
    /\ UNCHANGED <<handleVars, queueVars, watcher, abandoned, device, thinkVars>>
WhenRecord(r, fired, chained) ==
    CASE fired -> "DidFire"
      [] ~fired /\ chained /\ Subject[r] # NoRule -> firing[Subject[r]]
      [] OTHER -> "DidNotFire"
WhenGate(f) ==
    /\ At(f, "gate") \/ At(f, "chain")
    /\ \E fired \in BOOLEAN :
          /\ fiber[f].top \in {"any", Truth(fired)}
          /\ firing' = [firing EXCEPT ![fiber[f].rule] =
                            WhenRecord(fiber[f].rule, fired, At(f, "chain"))]
          /\ fiber' = [fiber EXCEPT ![f].top = "any",
                ![f].ip = IF fired THEN @ + 1 ELSE Len(Code[fiber[f].func]) + 1]
    /\ Continue
    /\ UNCHANGED <<handleVars, queueVars, watcher, abandoned, device, thinkVars>>

(* Ordinary script changes nothing outside the fiber, and may fault it.    *)
Script(f) ==
    /\ At(f, "script")
    /\ \/ /\ fiber' = [fiber EXCEPT ![f].ip = @ + 1]
          /\ Continue
          /\ UNCHANGED queueVars
       \/ FinishSlice(f, "Fault")
    /\ UNCHANGED <<handleVars, ruleVars, device, thinkVars>>

YieldOp(f) ==
    /\ At(f, "yield")
    /\ YieldSlice(f, [fiber[f] EXCEPT !.ip = @ + 1])
    /\ UNCHANGED <<handleVars, ruleVars, device, thinkVars>>

(* The slice budget may run out after any instruction, a dispatch whose    *)
(* handle is not awaited yet included.                                     *)
BudgetExpires(f) ==
    /\ InSlice(f) /\ ran
    /\ YieldSlice(f, fiber[f])
    /\ UNCHANGED <<handleVars, ruleVars, device, thinkVars>>

Return(f) ==
    /\ AtNext(f) /\ fiber[f].ip > Len(Code[fiber[f].func])
    /\ FinishSlice(f, "Done")
    /\ UNCHANGED <<handleVars, ruleVars, device, thinkVars>>

(* The fiber cancelled itself through a host body: the slice stops.        *)
SliceCancelled(f) ==
    /\ pc = "slice" /\ running = f /\ fiber[f].state = "Cancelled"
    /\ pc' = "cascade"
    /\ EndSlice
    /\ UNCHANGED <<handleVars, fiber, queueVars, ruleVars, device, walk, back, thinkVars>>

SliceStep(f) ==
    \/ HostCallAsync(f) \/ HostBody(f) \/ ClearDevice(f)
    \/ TriggerCall(f) \/ TriggerBody(f) \/ ActionCallAsync(f)
    \/ Await(f) \/ InjectedThrow(f) \/ SpawnRule(f) \/ RequestPage(f)
    \/ WhenStart(f) \/ WhenGate(f) \/ Script(f) \/ YieldOp(f) \/ BudgetExpires(f)
    \/ Return(f) \/ SliceCancelled(f)

-----------------------------------------------------------------------------
(* Mutant of Lost: the answer is read before the abandonment is recorded.  *)
LostBefore(r) == abandoned[r]

(* A fault or a cancellation abandons the rule's firing.                   *)
Lost(r) == abandoned[r] \/ fiber[walk.fiber].state # "Done"

(* settleRuleWatchers, one rule of the walk per step: a rule whose cluster *)
(* has emptied settles the trigger parked in its watcher slot.             *)
SettleRule ==
    /\ pc = "settle" /\ walk.rule # NoRule
    /\ LET r == walk.rule
           h == watcher[r]
           passed == h = NoHandle \/ walk.liveAbove
           live == ~passed /\ LiveRuleSubtree(r)
       IN  /\ abandoned' = [abandoned EXCEPT ![r] = Lost(r)]
           /\ walk' = [walk EXCEPT !.rule = Parent[r],
                                   !.liveAbove = @ \/ live]
           /\ IF passed \/ live
              THEN UNCHANGED <<handleVars, watcher>>
              ELSE /\ watcher' = [watcher EXCEPT ![r] = NoHandle]
                   /\ Settle(h, "Resolved", Truth(~Lost(r) /\ firing[r] = "DidFire"))
    /\ UNCHANGED <<fiber, queueVars, running, ran, firing, device, pc, back, thinkVars>>

(* The end of a terminal transition: a finished async-action child settles *)
(* its result handle by the way it ended.  Control returns to the cancel   *)
(* loop or to the round.                                                   *)
SettleResult ==
    /\ pc = "settle" /\ walk.rule = NoRule
    /\ LET f == walk.fiber
           ended == fiber[f].state
           outcome == CASE ended = "Done" -> "Resolved"
                        [] ended = "Fault" -> "Rejected"
                        [] OTHER -> "Cancelled"
       IN  /\ IF fiber[f].result = NoHandle
              THEN UNCHANGED <<handleVars, fiber>>
              ELSE /\ Settle(fiber[f].result, outcome, "any")
                   /\ fiber' = [fiber EXCEPT ![f].result = NoHandle]
           /\ pc' = IF ended = "Cancelled" THEN "cancel" ELSE "cascade"
    /\ walk' = NoWalk
    /\ UNCHANGED <<queueVars, running, ran, ruleVars, device, back, thinkVars>>

(* Mutants of LeaveWaiters and LeaveQueue: the cancelled fiber stays on the *)
(* waiter list, or in the run queue, until someone meets it there.         *)
LeaveNoWaiters(f) == UNCHANGED handleVars
LeaveNoQueue(f) == UNCHANGED runQueue

LeaveWaiters(f) ==
    IF fiber[f].state = "Waiting" /\ fiber[f].await \in Handles
    THEN RemoveWaiter(fiber[f].await, f)
    ELSE UNCHANGED handleVars
LeaveQueue(f) == runQueue' = Without(runQueue, f)

(* cancelRecord up to its settle walk.  The record leaves the run queue    *)
(* here; the walk does not look at the queue.                              *)
CancelRecord(f) ==
    /\ LeaveWaiters(f)
    /\ fiber' = [fiber EXCEPT ![f].state = "Cancelled", ![f].await = NoHandle,
                              ![f].held = NoHandle]
    /\ LeaveQueue(f)
    /\ StartWalk(f)
    /\ UNCHANGED <<spawned, cascade, running, ran, ruleVars, device, back, thinkVars>>

(* cancelActiveFibers: the page's root rules in order, then every live     *)
(* child rule (cancelChildRuleFibers).                                     *)
LiveRoots == {i \in 1..Len(ruleFibers) : /\ ruleFibers[i].fiber # NoFiber
                                         /\ Alive(ruleFibers[i].fiber)}
LiveChildRules == {f \in Fibers : Alive(f) /\ fiber[f].subtree # NoRule}
CancelRoot ==
    /\ pc = "cancel"
    /\ \E i \in LiveRoots : /\ \A j \in LiveRoots : i <= j
                            /\ CancelRecord(ruleFibers[i].fiber)
CancelChildRule ==
    /\ pc = "cancel" /\ LiveRoots = {}
    /\ \E f \in LiveChildRules : CancelRecord(f)

-----------------------------------------------------------------------------
(* resumeFiberFromHandle, on the path that resumes.                        *)
Wake(f, h) ==
    /\ fiber' = [fiber EXCEPT ![f].state = "Runnable",
                              ![f].await = NoHandle,
                              ![f].top = hresult[h],
                              ![f].throwing = hstate[h] # "Resolved"]
    /\ runQueue' = Append(runQueue, f)

(* drainCompletedHandles: a waiter of the first settled handle resumes, and *)
(* the handle is freed after its last waiter.                              *)
ResumeWaiter ==
    /\ pc = "drain"
    /\ VisitWaiter
    /\ LET h == Head(completed)
           f == Head(waiters[h])
       IN  IF fiber[f].state = "Waiting" /\ fiber[f].await = h
           THEN Wake(f, h)
           ELSE UNCHANGED <<fiber, runQueue>>
    /\ UNCHANGED <<spawned, cascade, running, ran, ruleVars, device, walk, pc, back, thinkVars>>
(* Mutant of ReclaimHandle: the slot is freed under its waiters.           *)
ReclaimEarly ==
    /\ pc = "drain" /\ completed # << >>
    /\ completed' = Tail(completed)
    /\ DeleteHandle(Head(completed))
    /\ fiber' = Forget(fiber, Head(completed))
    /\ UNCHANGED <<queueVars, running, ran, ruleVars, device, walk, pc, back, thinkVars>>
ReclaimHandle ==
    /\ pc = "drain"
    /\ Reclaim
    /\ fiber' = Forget(fiber, Head(completed))
    /\ UNCHANGED <<queueVars, running, ran, ruleVars, device, walk, pc, back, thinkVars>>

(* drainSpawnedSubtrees, flattened: the children the last slice spawned go *)
(* in front of the siblings that still wait, and each runs one slice.      *)
DetachSpawned ==
    /\ pc = "cascade" /\ spawned # << >>
    /\ cascade' = spawned \o cascade
    /\ spawned' = << >>
    /\ UNCHANGED <<handleVars, fiber, runQueue, running, ran, ruleVars, device,
                   walk, pc, back, thinkVars>>
RunChild ==
    /\ pc = "cascade" /\ spawned = << >> /\ cascade # << >>
    /\ cascade' = Tail(cascade)
    /\ IF fiber[Head(cascade)].state = "Runnable"
       THEN running' = Head(cascade) /\ pc' = "slice"
       ELSE UNCHANGED <<running, pc>>
    /\ UNCHANGED <<handleVars, fiber, runQueue, spawned, ran, ruleVars, device,
                   walk, back, thinkVars>>
CascadeDone ==
    /\ pc = "cascade" /\ spawned = << >> /\ cascade = << >>
    /\ pc' = "round"
    /\ UNCHANGED <<handleVars, fiber, queueVars, running, ran, ruleVars, device,
                   walk, back, thinkVars>>

SchedulerStep ==
    \/ \E f \in Fibers : SliceStep(f)
    \/ SettleRule \/ SettleResult \/ CancelRoot \/ CancelChildRule
    \/ ResumeWaiter \/ ReclaimHandle
    \/ DetachSpawned \/ RunChild \/ CascadeDone
=============================================================================
