------------------------------ MODULE MCStore ------------------------------
(***************************************************************************)
(* The simulator's environment store and the bridge panel on small         *)
(* instances.  The panel's preference is the one the store loads and saves *)
(* with a project; nothing else is shared, and each keeps it by itself, so *)
(* a behaviour moves one of them.                                          *)
(***************************************************************************)
EXTENDS BridgePanel, Sequences, TLC

CONSTANTS a, b, p, q,                  \* tabs and projects of the panel
          p1, p2, p3, b1, b2, b3, i1, i2, i3, i4, k1,   \* of the store
          NoProject, NoBrain, NoInstance, NoFleet

VARIABLES
    part,    \* which of them moves
    crossed, \* history: a reflash has crossed the last load of a project
    active, records, cache, failure, brainIds, brains, fleet, tasks, keyVersion,
    pendingKeys, armed, faults, bridge, switching, operations
store == <<active, records, cache, failure, brainIds, brains, fleet, tasks, keyVersion,
           pendingKeys, armed, faults, bridge, switching, operations>>

-----------------------------------------------------------------------------
(* One tab, settings of an earlier version, and the settings dialog; or two *)
(* tabs of different projects.  The invariants look at the first tab: the   *)
(* two can be swapped.                                                      *)
MCHome == a :> p
MCKept == { [k \in Fields |-> "default"], [k \in Fields |-> "legacy"] }
TwoTabs == INSTANCE BridgePanel WITH
    Tabs <- {a, b}, Home <- (a :> p) @@ (b :> q), Kept <- {[k \in Fields |-> "default"]}, Typed <- {}

(* A project with a brain that uses the one user action, of which the       *)
(* second version does not build and the third has an image that is         *)
(* refused.  A stored index and fleet may name a brain that is gone.        *)
Used == [exists |-> TRUE, defs |-> [x \in {b1, b2, b3} |-> IF x = b1 THEN 1 ELSE 0], index |-> <<b1>>,
         saved |-> << <<i1, b1>>, <<i2, NoBrain>> >>, bridge |-> TRUE]
Dangling == [Used EXCEPT !.index = <<b3, b1>>, !.saved = << <<i2, b1>>, <<i1, b3>> >>]
Missing == [exists |-> FALSE, defs |-> [x \in {b1, b2, b3} |-> 0], index |-> <<>>, saved |-> NoFleet, bridge |-> FALSE]
(* The brain b1 was exported from the one project and imported in the other. *)
Other == [Used EXCEPT !.defs = [x \in {b1, b2, b3} |-> IF x = b3 THEN 0 ELSE 1],
                      !.index = <<b2, b1>>, !.saved = << <<i3, b2>> >>]
(* In the browser there are two projects, in a folder there is one, whose   *)
(* files others may change.                                                 *)
SomeBrains == {b1, b2, b3}
SomeUses == [x \in SomeBrains |-> IF x = b1 THEN {k1} ELSE {}]
Devices == {i1, i2, i3, i4}
Browser == INSTANCE EnvironmentStore WITH
    Projects <- {p1, p2}, Seeds <- [x \in {p1, p2} |-> IF x = p1 THEN {Used, Dangling} ELSE {Missing, Other}],
    Brains <- SomeBrains, Instances <- Devices, Keys <- {k1}, Uses <- SomeUses, Broken <- {2}, Refused <- {3},
    FaultCap <- 2, Slots <- {1, 2, 3}, MaxActs <- 3, Patient <- TRUE, Folder <- FALSE,
    stored <- records, acts <- operations
(* A user who waits for nothing, with three projects and little else.       *)
Bare(x) == [exists |-> x # p2, defs |-> [y \in {} |-> 0], index |-> <<>>, saved |-> << <<i1, NoBrain>> >>, bridge |-> TRUE]
Hasty == INSTANCE EnvironmentStore WITH
    Projects <- {p1, p2, p3}, Seeds <- [x \in {p1, p2, p3} |-> {Bare(x)}],
    Brains <- {}, Instances <- {i1, i2}, Keys <- {}, Uses <- [x \in {} |-> {}], Broken <- {}, Refused <- {},
    FaultCap <- 1, Slots <- {1, 2, 3}, MaxActs <- 3, Patient <- FALSE, Folder <- FALSE,
    stored <- records, acts <- operations
Folder == INSTANCE EnvironmentStore WITH
    Projects <- {p1}, Seeds <- [x \in {p1} |-> {Used, Dangling}],
    Brains <- SomeBrains, Instances <- Devices, Keys <- {k1}, Uses <- SomeUses, Broken <- {2}, Refused <- {3},
    FaultCap <- 2, Slots <- {1, 2, 3}, MaxActs <- 3, Patient <- TRUE, Folder <- TRUE,
    stored <- records, acts <- operations

ASSUME MCStoreAssumption == Browser!StoreParameters /\ Folder!StoreParameters /\ Hasty!StoreParameters

StoreInit ==
    /\ part \in {"panel", "tabs", "browser", "folder", "hasty"} /\ crossed = FALSE
    /\ IF part = "panel" THEN Init ELSE TwoTabs!Init
    /\ CASE part = "folder" -> Folder!Init [] part = "hasty" -> Hasty!Init [] OTHER -> Browser!Init
    /\ part \in {"browser", "folder", "hasty"} => \A x \in Projects : ~stored.prefs[x]
    /\ part \in {"panel", "tabs"} => records[p1] = Used /\ records[p2] = Missing /\ fleet[1].id = i1
Cross == crossed' = (active' = active /\ (crossed \/ Browser!Crosses))
StoreNext ==
    /\ UNCHANGED part
    /\ \/ part = "panel" /\ Next /\ UNCHANGED <<store, crossed>>
       \/ part = "tabs" /\ TwoTabs!Next /\ UNCHANGED <<store, crossed>>
       \/ part = "browser" /\ Browser!Next /\ Cross /\ UNCHANGED vars
       \/ part = "folder" /\ Folder!Next /\ UNCHANGED <<vars, crossed>>
       \/ part = "hasty" /\ Hasty!Next /\ UNCHANGED <<vars, crossed>>
StoreVars == <<part, crossed, vars, store>>

(* The project store answers and the reflash timer fires.                   *)
InFolder(A) == part = "folder" /\ A /\ UNCHANGED <<part, crossed, vars>>
StoreSpec ==
    /\ StoreInit /\ [][StoreNext]_StoreVars
    /\ \A s \in {1, 2, 3} : WF_StoreVars(InFolder(Folder!Resumes(s)))
    /\ WF_StoreVars(InFolder(Folder!Flush))

-----------------------------------------------------------------------------
(* While the user waits for what still awaits: once nothing awaits and no   *)
(* reflash is due, every device runs the latest build of its brain, or is   *)
(* dark (saveBrain, UserCodeReflasher).                                     *)
RunsLatest ==
    /\ part = "panel" => TypeOK
    /\ CASE part = "folder" -> Folder!TypeOK /\ Folder!RunsLatest
         [] part = "hasty" -> Hasty!TypeOK
         [] OTHER -> Browser!TypeOK /\ Browser!RunsLatest
(* While the user waits for what still awaits: once nothing awaits, the     *)
(* list shows every stored brain once, in the order it is stored, no        *)
(* runtime fault is kept for a brain no project has, and the project is     *)
(* stored with the fleet that is shown, unless a reflash crossed its load   *)
(* (reloadBrains, addBrain, removeBrain, persistSimulatorState).            *)
ShownIsStored ==
    part = "browser" =>
        Browser!ListExact /\ Browser!FaultsOfBrains /\ (crossed \/ Browser!FleetSaved)
(* Nothing that loads a project damages it.  While the user waits: a record *)
(* that could not be read is not overwritten, and the saved fleet keeps its *)
(* devices and their order while a restore is in flight, unless a reflash   *)
(* crosses it.  Whatever the user does: a switch that no other switch has   *)
(* overtaken does not connect its bridge (projectRecordFailure,             *)
(* reloadSimulatorState, onProjectLoaded).                                  *)
LoadsAreSafe ==
    [][/\ part = "browser" => Browser!RecordsUnwritten /\ Browser!FleetKept /\ Browser!SwitchStaysOff
       /\ part = "hasty" => Hasty!SwitchStaysOff]_StoreVars
(* Every operation ends and every change reaches the devices: from some     *)
(* point on nothing awaits and no reflash is due.                           *)
StoreSettles == part = "folder" => Folder!Settles
=============================================================================
