----------------------------- MODULE MCProjects -----------------------------
(***************************************************************************)
(* What the app does around a project, on small instances: the warnings of *)
(* unresolved libraries, installing and removing libraries, the screen's   *)
(* dialogs and editor, and the flashing of a real device.  They share no   *)
(* state, so a behaviour moves one of them, and the properties of all are  *)
(* checked together.                                                       *)
(***************************************************************************)
EXTENDS ResolutionWarningsToast, DeviceFlasher

CONSTANTS
    Catalog, Platform, Embedded, DependsOn, Manifests, Slots, MaxActs, MaxSwitches, NoLibrary, NoSlot,   \* libraries
    Projects, Has, MaxDialogs, MaxOpens, MaxMoves, NoProject, NoBrain,                     \* screen
    target, robot, arm        \* the libraries of the catalog

VARIABLES
    part,    \* which of them moves
    extensions, inUse, latest, handler, pendingUninstall, updates, told, acts, switches,
    project, saved, name, dialog, submitted, toOpen, editor, loads, switching, picker, draft, early, dialogs, opens, moves
manifest == <<extensions, inUse, latest, handler, pendingUninstall, updates, told, acts, switches>>
screen == <<project, saved, name, dialog, submitted, toOpen, editor, loads, switching, picker, draft, early, dialogs, opens, moves>>

-----------------------------------------------------------------------------
(* The target, and two libraries of which the second depends on the first,  *)
(* which is bundled with the app.                                           *)
MCDependsOn == [l \in Catalog |-> IF l = arm THEN {robot} ELSE {}]
(* A project is opened with the target alone, or with both libraries.       *)
MCManifests == {[l \in Catalog |-> IF l \in {target} \cup more THEN 1 ELSE 0] : more \in {{}, {robot, arm}}}
Manifest == INSTANCE ProjectLibraries WITH Libraries <- Catalog

(* The second project is an import of a document exported from the first:   *)
(* it holds a brain under the same id.                                      *)
MCHas == [p \in Projects |-> {CHOOSE b \in Brains : TRUE}]
Screen == INSTANCE ProjectScreen

ASSUME ProjectsAssumption == Manifest!LibrariesParameters /\ Screen!ScreenParameters

ProjectsInit ==
    /\ part \in {"toast", "flasher", "libraries", "screen"}
    /\ Init /\ FlasherInit /\ Manifest!Init /\ Screen!Init
    /\ part # "toast" => warnings = {}
    /\ project = (CHOOSE p \in Projects : TRUE)   \* they are alike
ProjectsNext ==
    /\ UNCHANGED part
    /\ \/ part = "toast" /\ Next /\ UNCHANGED <<flasherVars, manifest, screen>>
       \/ part = "flasher" /\ FlasherNext /\ UNCHANGED <<vars, manifest, screen>>
       \/ part = "libraries" /\ Manifest!Next /\ UNCHANGED <<vars, flasherVars, screen>>
       \/ part = "screen" /\ Screen!Next /\ UNCHANGED <<vars, flasherVars, manifest>>
projectsVars == <<part, vars, flasherVars, manifest, screen>>

(* Each fair action of a part, the others standing still.                   *)
Flashing(A) == part = "flasher" /\ A /\ UNCHANGED <<part, vars, manifest, screen>>
Installing(A) == part = "libraries" /\ A /\ UNCHANGED <<part, vars, flasherVars, screen>>
ProjectsSpec ==
    /\ ProjectsInit /\ [][ProjectsNext]_projectsVars
    /\ WF_projectsVars(Flashing(Settles))
    /\ \A s \in Slots : WF_projectsVars(Installing(\E ok \in BOOLEAN : Manifest!Commit(s, ok) \/ Manifest!ReferenceResolved(s, ok)))
    /\ \A s \in Slots : WF_projectsVars(Installing(\E l \in Catalog, ok \in BOOLEAN : Manifest!Checked(s, l, ok)))

-----------------------------------------------------------------------------
(* What the user was told last of a library is so; the target and the       *)
(* layers it stands on are never removed, a library another one depends on  *)
(* does not leave, and one in use leaves only after the dialog that lists   *)
(* its users was confirmed.  The one exception: a handler that was overtaken *)
(* while it waited, by another's map or another project, puts its own map   *)
(* in place and so may bring back or drop other libraries than its own      *)
(* (presentExtensionTransaction, runGuardedLibraryUninstall,                *)
(* microbit-extension-browser.ts).                                          *)
LibrariesKept ==
    [](Manifest!TypeOK /\ Manifest!PlatformStays)
        /\ Manifest!ToldIsTrue /\ Manifest!DependedStay /\ Manifest!AskedFirst
(* A brain is stored under the brain and the project it was made from, the  *)
(* add dialog opens the brain it has just named, and a name is given to the *)
(* project whose name was edited, with three exceptions and no other: the   *)
(* project changed under the open editor or under the name, the open editor *)
(* was turned to another brain and saved before that one had come, or the   *)
(* dialog was closed before the store had answered it (BrainEditor,         *)
(* openNamedBrain, InlineRename).                                           *)
GoesWhereMeant ==
    /\ TypeOK /\ Screen!TypeOK
    /\ Screen!SavesWhereOpened /\ Screen!OpensWhatItNamed /\ Screen!NamesItsProject
(* What waits ends, whatever fails: a handler for the host, and the flash   *)
(* that holds the drive (microbit-extension-browser.ts, BrainList.tsx).     *)
WaitingEnds == (part = "libraries" => Manifest!HandlersEnd) /\ DriveFreed
=============================================================================
