--------------------------- MODULE EnvironmentStore ---------------------------
(***************************************************************************)
(* The simulator app's environment store                                   *)
(* (services/microbit-sim-environment-store.ts): the project lifecycle,    *)
(* the brain list, the fleet of simulated devices with what each runs, and *)
(* the reflash that follows a recompile (services/user-code-reflasher.ts). *)
(*                                                                         *)
(* JavaScript runs one task at a time.  A function that awaits the project *)
(* store parks here as an entry of tasks and resumes in a later step, in   *)
(* any order with the others.  An await of a function that itself waits    *)
(* for nothing (buildInputForBrain) resumes within the task, so it is part *)
(* of its caller's step.  The project store takes reads and writes in the  *)
(* order they are issued: a write takes effect, and a read takes its       *)
(* value, when it is issued, and the promise settles later.                *)
(***************************************************************************)
EXTENDS Naturals, Sequences, FiniteSets, SequencesExt

CONSTANTS Projects, Brains, Instances, Keys,
          NoProject, NoBrain, NoInstance, NoFleet,
          Uses,          \* the user actions each brain has a tile of
          Broken,        \* the versions of an action that do not build
          Refused,       \* the versions whose image the runtime refuses
          Seeds,         \* what each project may be stored with when the app opens
          FaultCap,      \* RUNTIME_FAULT_CAP
          Slots,         \* the operations that can await at once
          MaxActs,       \* bound: operations of the user and the compiler
          Patient,       \* whether the user waits for what is still awaiting
          Folder         \* whether the app runs in a folder session

(* What a project is stored with: a saved fleet lists every device with the *)
(* brain it is flashed with, the index lists no brain twice, and a project  *)
(* that does not exist has no brain.                                        *)
SavedFleets == Seq(Instances \X (Brains \cup {NoBrain}))
StoredProjects == [exists : BOOLEAN, defs : [Brains -> Nat], index : Seq(Brains),
                   saved : SavedFleets \cup {NoFleet}, bridge : BOOLEAN]
StoreParameters ==
    /\ Uses \in [Brains -> SUBSET Keys] /\ IsFiniteSet(Brains)
    /\ Broken \subseteq Nat /\ Refused \subseteq Nat
    /\ FaultCap \in Nat \ {0} /\ MaxActs \in Nat
    /\ Slots \subseteq Nat /\ Slots # {} /\ IsFiniteSet(Slots) /\ Patient \in BOOLEAN /\ Folder \in BOOLEAN
    /\ NoProject \notin Projects /\ NoBrain \notin Brains /\ NoInstance \notin Instances
    /\ NoFleet \notin SavedFleets
    /\ \A p \in Projects : \A seed \in Seeds[p] :
         /\ seed \in StoredProjects /\ IsInjective(seed.index)
         /\ ~seed.exists => \A b \in Brains : seed.defs[b] = 0

VARIABLES
    active,      \* projectManager.activeProject
    stored,      \* per project: its brain records, "brains-index", "simulator-state", ui preferences
    cache,       \* the host's brain cache: the definition of each cached brain, 0 when not cached
    failure,     \* projectRecordFailure of the last load
    brainIds, brains,   \* _brainIds and the list derived from it
    fleet,       \* the simulator's instances
    tasks,       \* per slot: an operation that awaits, or Idle
    keyVersion,  \* the compiled version of each user action
    pendingKeys, \* the reflasher's pendingActionKeys; its timer runs while armed
    armed,
    faults,      \* _runtimeFaults: how many faults each brain's buffer holds
    bridge,      \* _uiPreferences.bridgeEnabled
    switching,   \* _isSwitchingProject
    acts         \* how many operations have been asked for
host == <<active, stored, cache, failure>>
list == <<brainIds, brains>>
reflasher == <<keyVersion, pendingKeys, armed>>
vars == <<host, list, fleet, tasks, reflasher, faults, bridge, switching, acts>>

-----------------------------------------------------------------------------
NoImage == <<>>
EmptyInstance(i) == [id |-> i, status |-> "empty", brain |-> NoBrain, image |-> NoImage]

(* buildWodalProgramImage: the image records the definition and the version *)
(* of every user action it was built from.                                  *)
ImageOf(b, defs, versions) == <<b, defs[b], [k \in Uses[b] |-> versions[k]]>>
Builds(b, versions) == \A k \in Uses[b] : versions[k] \notin Broken
LoadsOn(b, versions) == \A k \in Uses[b] : versions[k] \notin Refused

(* A flash that does not build, or whose image the runtime refuses, leaves  *)
(* the device unloaded and still associated with the brain.                 *)
Flashed(instance, b, defs, versions) ==
    LET ok == Builds(b, versions) /\ LoadsOn(b, versions)
    IN  [instance EXCEPT !.status = IF ok THEN "loaded" ELSE "failed",
                         !.brain = b,
                         !.image = IF ok THEN ImageOf(b, defs, versions) ELSE NoImage]

Index(i) == {n \in DOMAIN fleet : fleet[n].id = i}
Cached(b) == cache[b] # 0
CachedSet == {b \in Brains : Cached(b)}
Associated(b) == {n \in DOMAIN fleet : fleet[n].brain = b}
(* simulatorStateSnapshot: the order and what each instance is flashed with *)
Snapshot(instances) == [n \in DOMAIN instances |-> <<instances[n].id, instances[n].brain>>]
Reflashed(instances, bs, defs, versions) ==
    [n \in DOMAIN instances |->
        IF instances[n].brain \in bs THEN Flashed(instances[n], instances[n].brain, defs, versions)
        ELSE instances[n]]
Unflashed(instances, bs) ==
    [n \in DOMAIN instances |->
        IF instances[n].brain \in bs THEN EmptyInstance(instances[n].id) ELSE instances[n]]
(* setInstances, then each flashed with its saved brain while it is cached  *)
Restored(saved, defs, versions) ==
    [n \in DOMAIN saved |->
        IF saved[n][2] # NoBrain /\ defs[saved[n][2]] # 0
        THEN Flashed(EmptyInstance(saved[n][1]), saved[n][2], defs, versions)
        ELSE EmptyInstance(saved[n][1])]

-----------------------------------------------------------------------------
(* The operations that await, and the stages they await in.  History: a     *)
(* switch is overtaken when another one ends while it is under way.         *)
Idle == [op |-> "idle", at |-> "idle", brain |-> NoBrain, project |-> NoProject, ids |-> <<>>,
         saved |-> NoFleet, changed |-> {}, removed |-> {}, overtaken |-> FALSE]
Op(op, at) == [Idle EXCEPT !.op = op, !.at = at]
FreeSlots == {s \in Slots : tasks[s] = Idle}
NextSlot == CHOOSE s \in FreeSlots : \A t \in FreeSlots : s <= t
Awaiting(ops) == {s \in Slots : tasks[s].op \in ops}
Start(task) == /\ FreeSlots # {}
               /\ tasks' = [tasks EXCEPT ![NextSlot] = task]
Resume(s, task) == tasks' = [tasks EXCEPT ![s] = task]
End(s) == tasks' = [tasks EXCEPT ![s] = Idle]

(* readAppData: a store that cannot be read restores what an empty one does *)
Readings(value, none) == IF failure THEN {value, none} ELSE {value}
(* persistSimulatorState, as the instance listener calls it                 *)
Persisted(instances) ==
    IF failure THEN stored
    ELSE [stored EXCEPT ![active].saved = Snapshot(instances)]
(* persistBrainIndex and rebuildBrains                                      *)
Indexed(ids) == [stored EXCEPT ![active].index = ids]
(* The members of ids that are in S, in their order.                        *)
Retained(ids, S) ==
    LET kept[n \in 0..Len(ids)] ==
            IF n = 0 THEN <<>>
            ELSE IF ids[n] \in S THEN Append(kept[n - 1], ids[n]) ELSE kept[n - 1]
    IN  kept[Len(ids)]
(* Mutant: the cached brains the index omits are not appended.              *)
ReconciledIndex(ids) == Retained(ids, CachedSet)
(* reloadBrains: the index order, without dangling ids, then the cached     *)
(* brains the index omits                                                   *)
Reconciled(ids) ==
    LET known == Retained(ids, CachedSet)
    IN  known \o SetToSeq(CachedSet \ ToSet(known))

-----------------------------------------------------------------------------
Init ==
    /\ active = NoProject /\ failure = FALSE
    /\ stored \in {f \in [Projects -> UNION {Seeds[p] : p \in Projects}] : \A p \in Projects : f[p] \in Seeds[p]}
    /\ \E p \in Projects : stored[p].exists
    /\ cache = [b \in Brains |-> 0]
    /\ brainIds = <<>> /\ brains = <<>>
    /\ \E i \in Instances : fleet = <<EmptyInstance(i)>>
    /\ tasks = [s \in Slots |-> IF \A t \in Slots : s <= t THEN Op("initialize", "open") ELSE Idle]
    /\ keyVersion = [k \in Keys |-> 1] /\ pendingKeys = {} /\ armed = FALSE
    /\ faults = [b \in Brains |-> 0]
    /\ bridge = FALSE /\ switching = FALSE /\ acts = 0

(* The host loads a project: its brain cache, or none when a record cannot  *)
(* be read, then onProjectLoaded: the preferences and, not awaited, a       *)
(* reload of the brain list and the fleet.                                  *)
LoadProject(p, s, then) ==
    /\ active' = p
    /\ failure' \in BOOLEAN
    /\ cache' = IF failure' THEN [b \in Brains |-> 0] ELSE stored[p].defs
    /\ bridge' = (stored[p].bridge /\ ~switching)
    /\ FreeSlots # {}
    /\ \E ids \in (IF failure' THEN {stored[p].index, <<>>} ELSE {stored[p].index}) :
         tasks' = [tasks EXCEPT ![NextSlot] = [Op("reload", "index") EXCEPT !.ids = ids], ![s] = then]

(* initialize: opens the last project, and reloads once more when the host  *)
(* has finished.                                                            *)
InitializeOpen(s, p) ==
    /\ tasks[s].op = "initialize" /\ tasks[s].at = "open"
    /\ stored[p].exists
    /\ LoadProject(p, s, Op("initialize", "opened"))
    /\ UNCHANGED <<stored, list, fleet, reflasher, faults, switching, acts>>
InitializeReload(s) ==
    /\ tasks[s].op = "initialize" /\ tasks[s].at = "opened"
    /\ bridge' = stored[active].bridge
    /\ \E ids \in Readings(stored[active].index, <<>>) :
         Resume(s, [Op("initialize", "index") EXCEPT !.ids = ids])
    /\ UNCHANGED <<host, list, fleet, reflasher, faults, switching, acts>>

(* The page shows once initialize has returned; an act of the user takes    *)
(* one of MaxActs, and a patient user waits for what is still awaiting.     *)
UserActs ==
    /\ acts < MaxActs /\ acts' = acts + 1
    /\ Awaiting({"initialize"}) = {}
    /\ Patient => Awaiting({"idle"}) = Slots
CreateProject(p) ==
    /\ UserActs /\ ~stored[p].exists
    /\ stored' = [stored EXCEPT ![p].exists = TRUE]
    /\ switching' = TRUE
    /\ Start([Op("switch", "open") EXCEPT !.project = p])
    /\ UNCHANGED <<active, cache, failure, list, fleet, reflasher, faults, bridge>>
SwitchProject(p) ==
    /\ UserActs /\ stored[p].exists /\ p # active
    /\ switching' = TRUE
    /\ Start([Op("switch", "open") EXCEPT !.project = p])
    /\ UNCHANGED <<host, list, fleet, reflasher, faults, bridge>>
(* importProject: the document seeds a new project, which becomes active    *)
ImportProject(p, seed) ==
    /\ UserActs /\ ~stored[p].exists
    /\ stored' = [stored EXCEPT ![p] = [seed EXCEPT !.exists = TRUE, !.bridge = FALSE]]
    /\ switching' = TRUE
    /\ Start([Op("switch", "open") EXCEPT !.project = p])
    /\ UNCHANGED <<active, cache, failure, list, fleet, reflasher, faults, bridge>>
SwitchLoaded(s) ==
    /\ tasks[s].op = "switch" /\ tasks[s].at = "open"
    /\ LoadProject(tasks[s].project, s, [tasks[s] EXCEPT !.at = "loaded"])
    /\ UNCHANGED <<stored, list, fleet, reflasher, faults, switching, acts>>
SwitchDone(s) ==
    /\ tasks[s].op = "switch" /\ tasks[s].at = "loaded"
    /\ switching' = FALSE
    /\ tasks' = [t \in Slots |-> IF t = s THEN Idle
                               ELSE [tasks[t] EXCEPT !.overtaken = tasks[t].op = "switch"]]
    /\ UNCHANGED <<host, list, fleet, reflasher, faults, bridge, acts>>

-----------------------------------------------------------------------------
(* reloadProjectState, stage by stage.  The reload of initialize, of a      *)
(* loaded project and of an external edit of the manifest share them.       *)
Reloads == {"initialize", "reload", "external"}
(* The edit of the manifest flashes its changed brains again, and unflashes *)
(* the removed ones, before it reads the fleet.                             *)
FleetAfterBrains(s) ==
    Reflashed(Unflashed(fleet, tasks[s].removed), tasks[s].changed \cap CachedSet, cache, keyVersion)
AfterBrains(s) ==
    /\ brains' = brainIds'
    /\ fleet' = FleetAfterBrains(s)
    /\ stored' = IF \E b \in tasks[s].removed \cup (tasks[s].changed \cap CachedSet) : Associated(b) # {}
                 THEN Persisted(fleet') ELSE stored
    /\ \E saved \in Readings(stored'[active].saved, NoFleet) :
         Resume(s, [Op(tasks[s].op, IF tasks[s].op = "external" THEN "compare" ELSE "fleet")
                      EXCEPT !.saved = saved])
ReloadBrains(s) ==
    LET ids == Reconciled(tasks[s].ids) IN
    /\ tasks[s].op \in Reloads /\ tasks[s].at = "index"
    /\ brainIds' = ids
    /\ IF ids # tasks[s].ids /\ ~failure
       THEN /\ stored' = Indexed(ids)
            /\ Resume(s, [tasks[s] EXCEPT !.at = "indexed", !.ids = <<>>])
            /\ UNCHANGED <<brains, fleet>>
       ELSE AfterBrains(s)
    /\ UNCHANGED <<active, cache, failure, reflasher, faults, bridge, switching, acts>>
ReloadIndexed(s) ==
    /\ tasks[s].op \in Reloads /\ tasks[s].at = "indexed"
    /\ UNCHANGED brainIds
    /\ AfterBrains(s)
    /\ UNCHANGED <<active, cache, failure, reflasher, faults, bridge, switching, acts>>
(* reloadSimulatorState: _restoringFleet is up from the read to the last    *)
(* flash, which is within this step, so nothing is persisted by it.         *)
CancelPending == pendingKeys' = {} /\ armed' = FALSE
(* Mutant: setInstances is persisted, the restore not being flagged.        *)
ReloadFleetUnflagged(s) ==
    /\ tasks[s].op \in Reloads /\ tasks[s].at = "fleet"
    /\ tasks[s].saved \notin {NoFleet, <<>>}
    /\ fleet' = Restored(tasks[s].saved, cache, keyVersion)
    /\ stored' = Persisted([n \in DOMAIN fleet' |-> EmptyInstance(fleet'[n].id)])
    /\ CancelPending
    /\ End(s)
    /\ UNCHANGED <<active, cache, failure, list, keyVersion, faults, bridge, switching, acts>>
ReloadFleet(s) ==
    /\ tasks[s].op \in Reloads /\ tasks[s].at = "fleet"
    /\ \/ /\ tasks[s].saved \in {NoFleet, <<>>}
          /\ \E i \in Instances : Index(i) = {} /\ fleet' = <<EmptyInstance(i)>>
          /\ stored' = Persisted(fleet')
          /\ IF failure THEN CancelPending /\ End(s)
             ELSE Resume(s, Op(tasks[s].op, "default")) /\ UNCHANGED <<pendingKeys, armed>>
       \/ /\ tasks[s].saved \notin {NoFleet, <<>>}
          /\ fleet' = Restored(tasks[s].saved, cache, keyVersion)
          /\ CancelPending
          /\ End(s)
          /\ UNCHANGED stored
    /\ UNCHANGED <<active, cache, failure, list, keyVersion, faults, bridge, switching, acts>>
ReloadDefault(s) ==
    /\ tasks[s].op \in Reloads /\ tasks[s].at = "default"
    /\ CancelPending
    /\ End(s)
    /\ UNCHANGED <<host, list, fleet, keyVersion, faults, bridge, switching, acts>>
ReloadStep(s) == ReloadBrains(s) \/ ReloadIndexed(s) \/ ReloadFleet(s) \/ ReloadDefault(s)

(* refreshFromExternalManifest, in a folder session: the manifest changed   *)
(* outside the app, and the host reconciles its cache with it.              *)
ExternalEdit(b) ==
    /\ Folder /\ UserActs /\ ~failure
    /\ \E saved \in {stored[active].saved} \cup {seed.saved : seed \in Seeds[active]} :
       \E def \in {0, stored[active].defs[b] + 1} :
         /\ stored' = [stored EXCEPT ![active].saved = saved, ![active].defs[b] = def]
         /\ cache' = [cache EXCEPT ![b] = def]
         /\ Start([Op("external", "index") EXCEPT
                !.ids = stored[active].index,
                !.changed = IF def # 0 /\ Cached(b) THEN {b} ELSE {},
                !.removed = IF def = 0 /\ Cached(b) THEN {b} ELSE {}])
    /\ UNCHANGED <<active, failure, list, fleet, reflasher, faults, bridge, switching>>
CompareFleet(s) ==
    /\ tasks[s].op = "external" /\ tasks[s].at = "compare"
    /\ IF tasks[s].saved \notin {NoFleet, Snapshot(fleet)}
       THEN Resume(s, [tasks[s] EXCEPT !.at = "fleet", !.saved = stored[active].saved])
       ELSE End(s)
    /\ UNCHANGED <<host, list, fleet, reflasher, faults, bridge, switching, acts>>

-----------------------------------------------------------------------------
(* The brain list.  saveBrainForKey caches and records when it is called.   *)
SaveForKey(b) ==
    /\ stored' = [stored EXCEPT ![active].defs[b] = @ + 1]
    /\ cache' = [cache EXCEPT ![b] = stored'[active].defs[b]]
Unused(b) == \A p \in Projects : stored[p].defs[b] = 0 /\ b \notin ToSet(stored[p].index)
(* addBrain, and importBrain of a file whose id no listed brain has, though *)
(* another project may be stored with it; both buttons are disabled while a *)
(* record could not be read.                                                *)
AddBrain(b) ==
    /\ UserActs /\ ~failure
    /\ Unused(b)
    /\ SaveForKey(b)
    /\ Start([Op("add", "record") EXCEPT !.brain = b])
    /\ UNCHANGED <<active, failure, list, fleet, reflasher, faults, bridge, switching>>
ImportBrain(b) ==
    /\ UserActs /\ ~failure
    /\ b \notin ToSet(brainIds)
    /\ SaveForKey(b)
    /\ Start([Op("add", "record") EXCEPT !.brain = b])
    /\ UNCHANGED <<active, failure, list, fleet, reflasher, faults, bridge, switching>>
AddIndexed(s) ==
    /\ tasks[s].op = "add" /\ tasks[s].at = "record"
    /\ brainIds' = Append(brainIds, tasks[s].brain)
    /\ stored' = Indexed(brainIds')
    /\ Resume(s, [tasks[s] EXCEPT !.at = "index"])
    /\ UNCHANGED <<active, cache, failure, brains, fleet, reflasher, faults, bridge, switching, acts>>
AddListed(s) ==
    /\ tasks[s].op = "add" /\ tasks[s].at = "index"
    /\ brains' = brainIds
    /\ End(s)
    /\ UNCHANGED <<host, brainIds, fleet, reflasher, faults, bridge, switching, acts>>
RemoveBrain(b) ==
    /\ UserActs /\ b \in ToSet(brains)
    /\ cache' = [cache EXCEPT ![b] = 0]
    /\ stored' = [stored EXCEPT ![active].defs[b] = 0]
    /\ Start([Op("remove", "record") EXCEPT !.brain = b])
    /\ UNCHANGED <<active, failure, list, fleet, reflasher, faults, bridge, switching>>
RemoveIndexed(s) ==
    /\ tasks[s].op = "remove" /\ tasks[s].at = "record"
    /\ brainIds' = Retained(brainIds, Brains \ {tasks[s].brain})
    /\ stored' = Indexed(brainIds')
    /\ Resume(s, [tasks[s] EXCEPT !.at = "index"])
    /\ UNCHANGED <<active, cache, failure, brains, fleet, reflasher, faults, bridge, switching, acts>>
RemoveUnflash(s) ==
    /\ tasks[s].op = "remove" /\ tasks[s].at = "index"
    /\ brains' = brainIds
    /\ fleet' = Unflashed(fleet, {tasks[s].brain})
    /\ stored' = IF Associated(tasks[s].brain) # {} THEN Persisted(fleet') ELSE stored
    /\ faults' = [faults EXCEPT ![tasks[s].brain] = 0]
    /\ End(s)
    /\ UNCHANGED <<active, cache, failure, brainIds, reflasher, bridge, switching, acts>>
(* saveBrain: the edited definition replaces the cached one, and every      *)
(* instance associated with the brain is flashed again.  renameBrain ends   *)
(* with the list: a name is not in the image.                               *)
SaveBrain(b) ==
    /\ UserActs /\ Cached(b)
    /\ SaveForKey(b)
    /\ Start([Op("save", "record") EXCEPT !.brain = b])
    /\ UNCHANGED <<active, failure, list, fleet, reflasher, faults, bridge, switching>>
SaveReflash(s) ==
    /\ tasks[s].op = "save"
    /\ brains' = brainIds
    /\ LET bs == {tasks[s].brain} \cap CachedSet IN
       /\ fleet' = Reflashed(fleet, bs, cache, keyVersion)
       /\ stored' = IF \E b \in bs : Associated(b) # {} THEN Persisted(fleet') ELSE stored
    /\ End(s)
    /\ UNCHANGED <<active, cache, failure, brainIds, reflasher, faults, bridge, switching, acts>>
RenameBrain(b) ==
    /\ UserActs /\ Cached(b)
    /\ Start([Op("rename", "record") EXCEPT !.brain = b])
    /\ UNCHANGED <<host, list, fleet, reflasher, faults, bridge, switching>>
RenameListed(s) ==
    /\ tasks[s].op = "rename"
    /\ brains' = brainIds
    /\ End(s)
    /\ UNCHANGED <<host, brainIds, fleet, reflasher, faults, bridge, switching, acts>>

-----------------------------------------------------------------------------
(* The fleet.  Every change is persisted by the instance listener.  Bound:  *)
(* one id of Instances is left for the next fresh fleet.                    *)
SetFleet(instances) == fleet' = instances /\ stored' = Persisted(instances)
AddInstance(i) ==
    /\ UserActs /\ Index(i) = {}
    /\ Len(fleet) + 1 < Cardinality(Instances)
    /\ SetFleet(Append(fleet, EmptyInstance(i)))
    /\ UNCHANGED <<active, cache, failure, list, tasks, reflasher, faults, bridge, switching>>
RemoveInstance(n) ==
    /\ UserActs
    /\ SetFleet(RemoveAt(fleet, n))
    /\ UNCHANGED <<active, cache, failure, list, tasks, reflasher, faults, bridge, switching>>
FlashBrain(n, b) ==
    /\ UserActs /\ Cached(b) /\ b \in ToSet(brains)
    /\ SetFleet([fleet EXCEPT ![n] = Flashed(fleet[n], b, cache, keyVersion)])
    /\ UNCHANGED <<active, cache, failure, list, tasks, reflasher, faults, bridge, switching>>
ResetInstance(n) ==
    /\ UserActs /\ fleet[n].brain \in CachedSet
    /\ SetFleet([fleet EXCEPT ![n] = Flashed(fleet[n], fleet[n].brain, cache, keyVersion)])
    /\ UNCHANGED <<active, cache, failure, list, tasks, reflasher, faults, bridge, switching>>

(* A fiber of a running device faults: the buffer keeps the newest FaultCap *)
FiberFault(n) ==
    /\ fleet[n].status = "loaded"
    /\ faults[fleet[n].brain] < FaultCap
    /\ faults' = [faults EXCEPT ![fleet[n].brain] = @ + 1]
    /\ UNCHANGED <<host, list, fleet, tasks, reflasher, bridge, switching, acts>>

(* The compiler finishes: some user actions changed (onDidCompile), and the *)
(* reflasher's quiet period starts again.                                   *)
Compile(ks) ==
    /\ acts < MaxActs /\ acts' = acts + 1
    /\ active # NoProject
    /\ keyVersion' = [k \in Keys |-> IF k \in ks THEN keyVersion[k] + 1 ELSE keyVersion[k]]
    /\ pendingKeys' = pendingKeys \cup ks
    /\ armed' = TRUE
    /\ UNCHANGED <<host, list, fleet, tasks, faults, bridge, switching>>
(* Mutant: an instance whose last flash failed is not flashed again.        *)
AffectedLoaded == {b \in CachedSet : Uses[b] \cap pendingKeys # {}
                                     /\ \E n \in Associated(b) : fleet[n].status = "loaded"}
(* flush: each affected brain is flashed again, once                        *)
Affected == {b \in CachedSet : Uses[b] \cap pendingKeys # {} /\ Associated(b) # {}}
(* Mutant: the flush leaves its timer armed.                                *)
FlushArmed ==
    /\ armed
    /\ armed' = armed /\ pendingKeys' = {}
    /\ fleet' = Reflashed(fleet, Affected, cache, keyVersion)
    /\ stored' = IF Affected # {} THEN Persisted(fleet') ELSE stored
    /\ UNCHANGED <<active, cache, failure, list, tasks, keyVersion, faults, bridge, switching, acts>>
Flush ==
    /\ armed
    /\ armed' = FALSE /\ pendingKeys' = {}
    /\ fleet' = Reflashed(fleet, Affected, cache, keyVersion)
    /\ stored' = IF Affected # {} THEN Persisted(fleet') ELSE stored
    /\ UNCHANGED <<active, cache, failure, list, tasks, keyVersion, faults, bridge, switching, acts>>

ToggleBridge ==
    /\ UserActs
    /\ bridge' = ~bridge
    /\ stored' = [stored EXCEPT ![active].bridge = ~bridge]
    /\ UNCHANGED <<active, cache, failure, list, fleet, tasks, reflasher, faults, switching>>

(* The page is closed or reloaded at any moment: what was issued to the     *)
(* store stays, everything else is gone.                                    *)
ReloadPage ==
    /\ acts < MaxActs /\ acts' = acts + 1
    /\ active' = NoProject /\ failure' = FALSE
    /\ cache' = [b \in Brains |-> 0]
    /\ brainIds' = <<>> /\ brains' = <<>>
    /\ \E i \in Instances : fleet' = <<EmptyInstance(i)>>
    /\ tasks' = [s \in Slots |-> IF \A t \in Slots : s <= t THEN Op("initialize", "open") ELSE Idle]
    /\ keyVersion' = keyVersion /\ pendingKeys' = {} /\ armed' = FALSE
    /\ faults' = [b \in Brains |-> 0]
    /\ bridge' = FALSE /\ switching' = FALSE
    /\ UNCHANGED stored

-----------------------------------------------------------------------------
Resumes(s) ==
    \/ \E p \in Projects : InitializeOpen(s, p)
    \/ InitializeReload(s) \/ SwitchLoaded(s) \/ SwitchDone(s)
    \/ ReloadStep(s) \/ CompareFleet(s)
    \/ AddIndexed(s) \/ AddListed(s) \/ RemoveIndexed(s) \/ RemoveUnflash(s)
    \/ SaveReflash(s) \/ RenameListed(s)
ProjectAct ==
    \E p \in Projects :
       CreateProject(p) \/ SwitchProject(p) \/ \E seed \in Seeds[p] : ImportProject(p, seed)
BrainAct ==
    \E b \in Brains :
       AddBrain(b) \/ ImportBrain(b) \/ RemoveBrain(b) \/ SaveBrain(b) \/ RenameBrain(b) \/ ExternalEdit(b)
FleetAct ==
    \/ \E i \in Instances : AddInstance(i)
    \/ \E n \in DOMAIN fleet :
         RemoveInstance(n) \/ ResetInstance(n) \/ (\E b \in Brains : FlashBrain(n, b))
Next ==
    \/ \E s \in Slots : Resumes(s)
    \/ ProjectAct \/ BrainAct \/ FleetAct
    \/ \E n \in DOMAIN fleet : FiberFault(n)
    \/ \E ks \in SUBSET Keys \ {{}} : Compile(ks)
    \/ Flush \/ ToggleBridge \/ ReloadPage
Spec == Init /\ [][Next]_vars
(* The project store answers and the reflash timer fires.                   *)
FairSpec == Spec /\ (\A s \in Slots : WF_vars(Resumes(s))) /\ WF_vars(Flush)

-----------------------------------------------------------------------------
(* What the store promises.                                                 *)
Image == {NoImage} \cup {<<b, v, w>> : b \in Brains, v \in 1..(MaxActs + 1),
                                      w \in UNION {[ks -> 1..(MaxActs + 1)] : ks \in SUBSET Keys}}
TypeOK ==
    /\ active \in Projects \cup {NoProject}
    /\ cache \in [Brains -> Nat] /\ failure \in BOOLEAN
    /\ \A p \in Projects : stored[p].index \in Seq(Brains)
    /\ brainIds \in Seq(Brains) /\ brains \in Seq(Brains)
    /\ \A n \in DOMAIN fleet :
         /\ fleet[n].id \in Instances
         /\ fleet[n].image \in Image
         /\ (fleet[n].brain = NoBrain) = (fleet[n].status = "empty")
    /\ (pendingKeys # {}) = armed
    /\ \A b \in Brains : faults[b] \in 0..FaultCap

Quiet == active # NoProject /\ Awaiting({"idle"}) = Slots

(* reloadBrains, addBrain, removeBrain: once nothing awaits, the list shows *)
(* every stored brain once, in the order the project is stored with, after  *)
(* any page reload in the middle of an add or a remove.                     *)
ListExact ==
    Quiet /\ ~failure =>
        /\ brains = brainIds /\ stored[active].index = brainIds
        /\ IsInjective(brainIds) /\ ToSet(brainIds) = CachedSet

(* persistSimulatorState and reloadSimulatorState: once nothing awaits, the *)
(* project is stored with the fleet that is shown; a brain that was gone    *)
(* when the fleet was restored leaves its instance empty.                   *)
FleetSaved ==
    Quiet /\ ~failure =>
        /\ stored[active].saved # NoFleet /\ Len(stored[active].saved) = Len(fleet)
        /\ \A n \in DOMAIN fleet :
             /\ stored[active].saved[n][1] = fleet[n].id
             /\ fleet[n].brain \in {stored[active].saved[n][2], NoBrain}

(* saveBrain, UserCodeReflasher: once nothing awaits and no reflash is due, *)
(* every instance runs the latest definition of its brain built from the    *)
(* latest user actions, or is dark because that does not build or load.     *)
RunsLatest ==
    Quiet /\ ~armed =>
        \A n \in DOMAIN fleet :
            fleet[n].brain \in CachedSet =>
                fleet[n] = Flashed(fleet[n], fleet[n].brain, cache, keyVersion)

(* removeBrain: no runtime fault is kept for a brain no project has.        *)
FaultsOfBrains ==
    Quiet => \A b \in Brains : faults[b] > 0 => \E p \in Projects : stored[p].defs[b] # 0

(* projectRecordFailure: while a stored record could not be read, neither   *)
(* the saved brain order nor the saved fleet is written.                    *)
RecordsUnwritten ==
    failure /\ failure' /\ active' = active /\ active # NoProject =>
        /\ stored'[active].index = stored[active].index
        /\ stored'[active].saved = stored[active].saved
FailureKeepsRecords == [][RecordsUnwritten]_vars

(* The restores in flight.                                                  *)
Restoring == {s \in Awaiting({"initialize", "reload"}) : tasks[s].at \in {"index", "indexed", "fleet"}}
(* A reflash falls due between a switch and the restore of the new project's *)
(* fleet, of a brain that the new project and another are both stored with: *)
(* the devices still shown are those of the project that was left, and they *)
(* are persisted.                                                           *)
Crosses ==
    /\ Restoring # {} /\ armed /\ ~armed'
    /\ \E b \in Affected, p \in Projects \ {active} : stored[p].defs[b] # 0
(* persistSimulatorState: while a restore is in flight the saved fleet keeps *)
(* its devices, their order and the brain of each, but for brains that are  *)
(* gone, unless a restore that found no fleet saves its fresh one or a      *)
(* reflash crosses the restore.                                             *)
FleetKept ==
    Restoring # {} /\ active' = active /\ stored[active].saved \notin {NoFleet, <<>>} =>
        LET was == stored[active].saved
            is == stored'[active].saved
        IN  \/ \E s \in Restoring : tasks[s].saved \in {NoFleet, <<>>} /\ tasks'[s].at = "default"
            \/ Crosses
            \/ /\ Len(is) = Len(was)
               /\ \A n \in DOMAIN was :
                    /\ is[n][1] = was[n][1]
                    /\ is[n][2] = was[n][2] \/ (is[n][2] = NoBrain /\ was[n][2] \notin CachedSet)
RestoreKeepsFleet == [][FleetKept]_vars

(* onProjectLoaded, _isSwitchingProject: a switch of project that no other  *)
(* switch has overtaken does not connect the project's bridge by itself,    *)
(* however many switches are under way.                                     *)
SwitchStaysOff ==
    \A s \in Slots :
        /\ tasks[s].op = "switch" /\ tasks[s].at = "open" /\ ~tasks[s].overtaken
        /\ tasks'[s].op = "switch" /\ tasks'[s].at = "loaded"
        => ~bridge'
BridgeStaysOff == [][SwitchStaysOff]_vars

(* Every operation ends, and every change of the user's code reaches the    *)
(* devices: from some point on nothing awaits and no reflash is due.        *)
Settles == <>[](Quiet /\ ~armed)
=============================================================================
