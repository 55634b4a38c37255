---------------------------- MODULE BrainRuntime ----------------------------
(***************************************************************************)
(* The think loop of a brain (core/runtime/brain-runtime.cpp) over the     *)
(* fiber scheduler, driven by the host loop (codal/host-loop.cpp): one     *)
(* think drains the settled handles, performs a requested page switch,     *)
(* respawns the root rules that are over, runs one round and sweeps.       *)
(* Between thinks the host polls the device ports, which settle handles.   *)
(*                                                                         *)
(* Page hooks, Systems, the collector and the time stamps of a think are   *)
(* left out.                                                               *)
(***************************************************************************)
EXTENDS FiberScheduler

CONSTANTS
    Roots,      \* the root rules of each page, in order: Pages -> Seq(Rules)
    FirstPage   \* page index 0

ASSUME PagesAssumption ==
    /\ FirstPage \in Pages
    /\ Roots \in [Pages -> Seq(Rules)]
    /\ \A p, q \in Pages : \A i \in 1..Len(Roots[p]), j \in 1..Len(Roots[q]) :
          Roots[p][i] = Roots[q][j] => p = q /\ i = j
    /\ \A p \in Pages : \A i \in 1..Len(Roots[p]) :
          /\ Parent[Roots[p][i]] = NoRule
          /\ Subject[Roots[p][i]] = IF i = 1 THEN NoRule ELSE Roots[p][i - 1]

(* startup has bound the context's tables and is activating the first page. *)
Init ==
    /\ HandleTableInit
    /\ fiber = [f \in Fibers |-> FreeFiber]
    /\ runQueue = << >> /\ spawned = << >> /\ cascade = << >>
    /\ running = NoFiber /\ ran = FALSE
    /\ watcher = [r \in Rules |-> NoHandle]
    /\ firing = [r \in Rules |-> "DidFire"]
    /\ abandoned = [r \in Rules |-> FALSE]
    /\ device = {}
    /\ walk = NoWalk
    /\ pc = "activate" /\ back = "idle"
    /\ page = FirstPage /\ desired = FirstPage
    /\ ruleFibers = << >>
    /\ cursor = 1 /\ roundLeft = 0

-----------------------------------------------------------------------------
(* spawn: a fresh root-rule fiber joins the run queue; its rule's next     *)
(* firing starts (allocFiber).                                             *)
Spawn(r) ==
    /\ fiber' = [fiber EXCEPT ![FreshFiber] = NewFiber(r, r, NoRule, NoHandle)]
    /\ runQueue' = Append(runQueue, FreshFiber)
    /\ abandoned' = [abandoned EXCEPT ![r] = FALSE]

(* activatePage, one root rule per step.                                   *)
ActivateRule ==
    /\ pc = "activate" /\ cursor <= Len(Roots[page])
    /\ IF CanSpawn
       THEN /\ Spawn(Roots[page][cursor])
            /\ ruleFibers' = Append(ruleFibers,
                                    [rule |-> Roots[page][cursor], fiber |-> FreshFiber])
            /\ cursor' = cursor + 1
            /\ UNCHANGED pc
       ELSE /\ pc' = "fault"
            /\ UNCHANGED <<fiber, runQueue, abandoned, ruleFibers, cursor>>
    /\ UNCHANGED <<handleVars, spawned, cascade, running, ran, watcher, firing,
                   device, walk, back, page, desired, roundLeft>>
ActivationDone ==
    /\ pc = "activate" /\ cursor > Len(Roots[page])
    /\ pc' = back /\ back' = "idle"
    /\ cursor' = 1
    /\ UNCHANGED <<handleVars, fiber, queueVars, running, ran, ruleVars, device,
                   walk, pageVars, roundLeft>>

(* The end of a cancel loop: the cancelled slice goes on, the deactivated  *)
(* page gives way to the requested one, or the brain is shut down.         *)
CancelDone ==
    /\ pc = "cancel" /\ LiveRoots = {} /\ LiveChildRules = {}
    /\ \/ /\ back = "slice"
          /\ pc' = "slice" /\ back' = "idle"
          /\ UNCHANGED <<handleVars, pageVars, cursor>>
       \/ /\ back = "activate"
          /\ pc' = "activate" /\ back' = "respawn"
          /\ page' = desired /\ ruleFibers' = << >> /\ cursor' = 1
          /\ UNCHANGED <<handleVars, desired>>
       \/ /\ back = "down"
          /\ pc' = "down"
          /\ ruleFibers' = << >>
          /\ Clear
          /\ UNCHANGED <<back, page, desired, cursor>>
    /\ UNCHANGED <<fiber, queueVars, running, ran, ruleVars, device, walk, roundLeft>>

-----------------------------------------------------------------------------
(* HostLoop::tick calls think.                                             *)
BeginThink ==
    /\ pc = "idle"
    /\ pc' = "drain"
    /\ UNCHANGED <<handleVars, fiber, queueVars, running, ran, ruleVars, device,
                   walk, back, thinkVars>>

DrainDone ==
    /\ pc = "drain" /\ completed = << >>
    /\ IF page # desired
       THEN pc' = "cancel" /\ back' = "activate"
       ELSE pc' = "respawn" /\ UNCHANGED back
    /\ cursor' = 1
    /\ UNCHANGED <<handleVars, fiber, queueVars, running, ran, ruleVars, device,
                   walk, pageVars, roundLeft>>

(* Mutant of NeedsRespawn: the child rules of the last firing are ignored. *)
NeedsRespawnShallow(entry) == entry.fiber = NoFiber \/ ~Alive(entry.fiber)

(* A root rule re-fires once its fiber is over and no child rule spawned   *)
(* beneath it is still live.                                               *)
NeedsRespawn(entry) ==
    /\ entry.fiber = NoFiber \/ ~Alive(entry.fiber)
    /\ ~LiveDescendantOfRoot(entry.rule)
RespawnRule ==
    /\ pc = "respawn" /\ cursor <= Len(ruleFibers)
    /\ IF ~NeedsRespawn(ruleFibers[cursor])
       THEN cursor' = cursor + 1 /\ UNCHANGED <<fiber, runQueue, abandoned, ruleFibers, pc>>
       ELSE IF CanSpawn
       THEN /\ Spawn(ruleFibers[cursor].rule)
            /\ ruleFibers' = [ruleFibers EXCEPT ![cursor].fiber = FreshFiber]
            /\ cursor' = cursor + 1
            /\ UNCHANGED pc
       ELSE pc' = "fault" /\ UNCHANGED <<fiber, runQueue, abandoned, ruleFibers, cursor>>
    /\ UNCHANGED <<handleVars, spawned, cascade, running, ran, watcher, firing,
                   device, walk, back, page, desired, roundLeft>>

(* Mutant of OpenRound: the round is sized by the page's rules.            *)
OpenRoundForRules ==
    /\ pc = "respawn" /\ cursor > Len(ruleFibers)
    /\ pc' = "round"
    /\ roundLeft' = Len(ruleFibers)
    /\ cursor' = 1
    /\ UNCHANGED <<handleVars, fiber, queueVars, running, ran, ruleVars, device,
                   walk, back, pageVars>>

(* tick: the size of the run queue at entry bounds the round.              *)
OpenRound ==
    /\ pc = "respawn" /\ cursor > Len(ruleFibers)
    /\ pc' = "round"
    /\ roundLeft' = Len(runQueue)
    /\ cursor' = 1
    /\ UNCHANGED <<handleVars, fiber, queueVars, running, ran, ruleVars, device,
                   walk, back, pageVars>>
(* Mutant of RunNext: the queue bounds the round, the count runs below 0.  *)
RunNextUncounted ==
    /\ pc = "round" /\ runQueue # << >>
    /\ runQueue' = Tail(runQueue)
    /\ roundLeft' = roundLeft - 1
    /\ running' = Head(runQueue) /\ pc' = "slice"
    /\ UNCHANGED <<handleVars, fiber, spawned, cascade, ran, ruleVars, device,
                   walk, back, pageVars, cursor>>
(* tick: the next fiber of the round; one that is no longer runnable is    *)
(* passed over.                                                            *)
RunNext ==
    /\ pc = "round" /\ roundLeft > 0 /\ runQueue # << >>
    /\ runQueue' = Tail(runQueue)
    /\ roundLeft' = roundLeft - 1
    /\ IF fiber[Head(runQueue)].state = "Runnable"
       THEN running' = Head(runQueue) /\ pc' = "slice"
       ELSE UNCHANGED <<running, pc>>
    /\ UNCHANGED <<handleVars, fiber, spawned, cascade, ran, ruleVars, device,
                   walk, back, pageVars, cursor>>

(* Mutant of Sweep: only the fibers that returned or faulted are reclaimed.*)
SweepUncancelled ==
    /\ pc = "round" /\ (roundLeft = 0 \/ runQueue = << >>)
    /\ pc' = "idle" /\ roundLeft' = 0
    /\ fiber' = [f \in Fibers |-> IF FiberHas(f, {"Done", "Fault"}) THEN FreeFiber
                                                                   ELSE fiber[f]]
    /\ UNCHANGED <<handleVars, queueVars, running, ran, ruleVars, device, walk,
                   back, page, desired, ruleFibers, cursor>>

(* The round is over: sweep reclaims the finished fibers and the think     *)
(* ends.  A fiber id of ruleFibers that names a swept fiber finds none.    *)
Sweep ==
    /\ pc = "round" /\ (roundLeft = 0 \/ runQueue = << >>)
    /\ pc' = "idle" /\ roundLeft' = 0
    /\ fiber' = [f \in Fibers |-> IF FiberHas(f, Terminal) THEN FreeFiber ELSE fiber[f]]
    /\ ruleFibers' = [i \in 1..Len(ruleFibers) |->
          IF ruleFibers[i].fiber # NoFiber /\ FiberHas(ruleFibers[i].fiber, Terminal)
          THEN [ruleFibers[i] EXCEPT !.fiber = NoFiber]
          ELSE ruleFibers[i]]
    /\ UNCHANGED <<handleVars, queueVars, running, ran, ruleVars, device, walk,
                   back, page, desired, cursor>>

(* shutdown, from the host, between thinks.                                *)
Shutdown ==
    /\ pc = "idle"
    /\ pc' = "cancel" /\ back' = "down"
    /\ UNCHANGED <<handleVars, fiber, queueVars, running, ran, ruleVars, device,
                   walk, thinkVars>>

(* After a failed think the host loop only shows the fault; after a        *)
(* shutdown a think returns at once.                                       *)
Stopped == pc \in {"fault", "down"} /\ UNCHANGED vars

ThinkStep ==
    \/ SchedulerStep
    \/ ActivateRule \/ ActivationDone \/ CancelDone \/ DrainDone
    \/ RespawnRule \/ OpenRound \/ RunNext \/ Sweep

Next ==
    \/ ThinkStep
    \/ BeginThink
    \/ \E h \in Handles : DeviceSettle(h)
    \/ Shutdown
    \/ Stopped

(* The VM runs to the end of a think once it has begun, the host loop      *)
(* begins a think after every poll, and every poll round gives an          *)
(* operation whose time has come the chance to report.                     *)
Fairness ==
    /\ WF_vars(ThinkStep)
    /\ WF_vars(BeginThink)
    /\ \A h \in Handles : SF_vars(DeviceSettle(h) /\ pc = "idle")

Spec == Init /\ [][Next]_vars
FairSpec == Spec /\ Fairness

-----------------------------------------------------------------------------
QueueTypeOK ==
    runQueue \in Seq(Fibers) /\ spawned \in Seq(Fibers) /\ cascade \in Seq(Fibers)
RuleTypeOK ==
    /\ watcher \in [Rules -> Handles \cup {NoHandle}]
    /\ firing \in [Rules -> FiringState]
    /\ abandoned \in [Rules -> BOOLEAN]
    /\ device \in SUBSET Handles
ControlTypeOK ==
    /\ running \in Fibers \cup {NoFiber} /\ ran \in BOOLEAN
    /\ walk \in [fiber : Fibers \cup {NoFiber}, rule : Rules \cup {NoRule},
                 liveAbove : BOOLEAN]
    /\ pc \in {"activate", "idle", "drain", "cancel", "settle", "respawn", "round",
              "slice", "body", "sensor", "cascade", "fault", "down"}
    /\ back \in {"idle", "slice", "activate", "respawn", "down"}
PageTypeOK ==
    /\ page \in Pages /\ desired \in Pages
    /\ ruleFibers \in Seq([rule : Rules, fiber : Fibers \cup {NoFiber}])
    /\ cursor \in Nat \ {0} /\ roundLeft \in Nat

(* Every variable has its type; a backpressured fiber has been refused     *)
(* fewer than FaultRounds times (noteHandleBackpressure).                  *)
TypeOK ==
    /\ HandleTypeOK
    /\ fiber \in [Fibers -> FiberRecord]
    /\ QueueTypeOK
    /\ RuleTypeOK
    /\ ControlTypeOK
    /\ PageTypeOK

(* No wakeup is lost and none is spurious: a Waiting fiber is on the       *)
(* waiter list of the live handle it awaits, and a listed waiter is a      *)
(* fiber waiting on that handle, through await, resume, cancellation,      *)
(* reclaim and the sweep (runFiberSlice, cancelRecord,                     *)
(* resumeFiberFromHandle).  A shutdown drops the waiters.                  *)
NoLostWakeup ==
    pc # "down" =>
    /\ \A f \in Fibers : fiber[f].state = "Waiting" =>
          /\ fiber[f].await \in LiveHandles
          /\ InSeq(f, waiters[fiber[f].await])
    /\ \A h \in Handles : \A i \in 1..Len(waiters[h]) :
          /\ fiber[waiters[h][i]].state = "Waiting"
          /\ fiber[waiters[h][i]].await = h

(* A runnable fiber is in exactly one place: running, in the run queue, on *)
(* the spawn list or in the cascade; so it is never dropped and never runs *)
(* twice, and the run queue holds no fiber a sweep could free (cancelRecord*)
(* and removeFromQueue against tick, drainSpawnedSubtrees and sweep).      *)
QueueSound ==
    LET places == runQueue \o spawned \o cascade
                     \o (IF running = NoFiber THEN << >> ELSE <<running>>)
    IN  /\ Distinct(places)
        /\ \A f \in Fibers : fiber[f].state = "Runnable" => InSeq(f, places)
        /\ \A i \in 1..Len(runQueue) : fiber[runQueue[i]].state = "Runnable"

(* A parked trigger is pending, in one slot, and the cluster it waits for  *)
(* is live, so some terminal transition will still walk past it            *)
(* (settleRuleWatchers, execRuleTrigger).                                  *)
WatcherLive ==
    pc # "down" =>
    \A r \in Rules : watcher[r] # NoHandle =>
        /\ hstate[watcher[r]] = "Pending"
        /\ \A q \in Rules : watcher[q] = watcher[r] => q = r
        /\ pc # "settle" => LiveRuleSubtree(r)

(* Every capped pending handle has exactly one party that will settle it:  *)
(* the device, the live async-action child it is the result of, or the     *)
(* dispatch that is just handing it to its body (spawnAsyncActionChild,    *)
(* SettleResult, the rollback of HOST_CALL_ASYNC).  A child's result stays *)
(* pending as long as the child lives.                                     *)
Owners(h) ==
    {f \in Fibers : fiber[f].result = h}
      \cup (IF h \in device THEN {"device"} ELSE {})
      \cup (IF pc \in {"body", "sensor"} /\ fiber[running].held = h
            THEN {"dispatch"} ELSE {})
PromiseOwned ==
    pc # "down" =>
    \A h \in Handles :
        /\ hstate[h] = "Pending" /\ hcapped[h] => Cardinality(Owners(h)) = 1
        /\ hstate[h] # "Pending" => Owners(h) = {}

(* A pending capped handle has exactly one party to settle it, its owner,  *)
(* and a trigger's handle in a watcher slot the cluster it waits for.  Of  *)
(* a trigger's handle that was displaced from its slot nothing is said: it *)
(* has nobody (rule-trigger.h:53, the UncappedBounded of MCBrainRuntime).  *)
PromiseKept == PromiseOwned /\ WatcherLive

(* The root rule a rule fiber belongs to.                                  *)
RootOf(f) == IF fiber[f].subtree # NoRule THEN fiber[f].subtree ELSE fiber[f].func
LiveRuleFibers == {f \in Fibers : Alive(f) /\ fiber[f].func \in Rules}

(* Exactly one page is active: every live rule fiber descends from a root  *)
(* rule of the current page, and once another page is requested none is    *)
(* left to run (fiber-scheduler.h, cancelChildRuleFibers;                  *)
(* brain-runtime.h, requestPageChange).                                    *)
PageScoped ==
    /\ \A f \in LiveRuleFibers : InSeq(RootOf(f), Roots[page])
    /\ page # desired /\ pc \notin {"cancel", "settle", "down"} => LiveRuleFibers = {}

(* A rule never runs twice at once: a root rule respawns only when its     *)
(* whole firing is over, child rules included (think, needsRespawn).       *)
OneFiring ==
    \A f, g \in LiveRuleFibers : fiber[f].func = fiber[g].func => f = g

(* The rules that run are those of the page, each in one firing.            *)
RulesInStep == PageScoped /\ OneFiring

(* The fiber cap never refuses a rule its respawn, however many actions and *)
(* triggers of other rules took slots since it fired: a rule whose firing  *)
(* is over left the slot of its root rule or of its last child rule to the *)
(* sweep, and nothing is spawned between the sweep and the respawn (think, *)
(* sweep, allocFiber).  Only an activation can run into the cap.           *)
RespawnFindsSlot ==
    pc = "respawn" =>
        \A i \in cursor..Len(ruleFibers) : NeedsRespawn(ruleFibers[i]) => CanSpawn

(* A finished fiber stays finished until the sweep reclaims it (the state  *)
(* tests of cancel, resumeFiberFromHandle, tick and drainSpawnedSubtrees). *)
TerminalIsFinal ==
    [][\A f \in Fibers : FiberHas(f, Terminal) =>
          fiber'[f].state \in {fiber[f].state, "Free"}]_vars

Halted == pc \in {"fault", "down"}

(* A fiber that parks is resumed or cancelled in the end: its device       *)
(* operation reports, its async action ends, or the rule it follows        *)
(* completes.                                                              *)
ParkedResumes ==
    \A f \in Fibers :
        fiber[f].state = "Waiting" ~> fiber[f].state # "Waiting" \/ Halted

(* A queued fiber gets its slice: no fiber is starved by the others'       *)
(* yields and retries.                                                     *)
QueuedRuns ==
    \A f \in Fibers :
        fiber[f].state = "Runnable" ~> running = f \/ ~Alive(f) \/ Halted

(* Every fiber gets on, parked or queued.                                   *)
Progress == ParkedResumes /\ QueuedRuns
=============================================================================
