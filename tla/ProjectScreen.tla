---------------------------- MODULE ProjectScreen ----------------------------
(***************************************************************************)
(* What the user does to the project on the screen: the brain list with    *)
(* its dialogs (components/BrainList.tsx, NameInputDialog, ConfirmDialog), *)
(* the editor (BrainEditor.tsx), the name in the header (InlineRename) and *)
(* the ways to another project (ProjectPickerDialog, the import).          *)
(*                                                                         *)
(* A component keeps its state while it awaits the store, and while the    *)
(* project under it changes: nothing is mounted anew for a project.  A     *)
(* dialog that is open is modal, but an import that was begun changes the  *)
(* project under it when it comes to it.  Saves go to the project that is  *)
(* active when they are asked for.                                         *)
(*                                                                         *)
(* A definition carries what became of the editor it was loaded into: the  *)
(* project changed under it, or the editor was turned to another brain     *)
(* before that one's definition had come.  So does a name.                 *)
(***************************************************************************)
EXTENDS Naturals, FiniteSets

CONSTANTS
    Projects, Brains,
    Has,          \* the brains each project starts with
    MaxDialogs,   \* bound: dialogs opened
    MaxOpens,     \* bound: times the editor is opened
    MaxMoves,     \* bound: changes to another project asked for
    NoProject, NoBrain

ScreenParameters ==
    /\ IsFiniteSet(Projects) /\ IsFiniteSet(Brains) /\ Has \in [Projects -> SUBSET Brains]
    /\ MaxDialogs \in Nat /\ MaxOpens \in Nat /\ MaxMoves \in Nat
    /\ NoProject \notin Projects /\ NoBrain \notin Brains

VARIABLES
    project,    \* the active project
    saved,      \* per project and brain: whose definition is stored there, and what changed under it
    name,       \* per project: whose name was being edited when it was set, and what changed under it
    dialog,     \* the brain list's dialog: its kind, brain and number, and whether it is busy
    submitted,  \* submissions the store has yet to end
    toOpen,     \* brainToOpenAfterNaming, with the dialog that named it
    editor,     \* editingBrainId and the state of BrainEditor
    loads,      \* getBrain calls under way
    switching,  \* the projects that imports and the picker are changing to
    picker,     \* whether the header's picker is open
    draft,      \* the project whose name is being edited, and what changed under it
    early,      \* the dialogs that closed before the store had answered them
    dialogs, opens, moves
list == <<dialog, submitted, toOpen, early>>
editing == <<editor, loads, opens>>
header == <<switching, picker, draft, moves>>
vars == <<project, saved, name, list, editing, header, dialogs>>

-----------------------------------------------------------------------------
Absent == <<NoProject, NoBrain, {}>>
Original(p, b) == <<p, b, {}>>
Marked(def, what) == IF def = Absent THEN def ELSE <<def[1], def[2], def[3] \cup {what}>>
Here(b) == saved[project][b] # Absent

NoDialog == [kind |-> "none", brain |-> NoBrain, number |-> 0, busy |-> FALSE]
NoNaming == [brain |-> NoBrain, number |-> 0]
NoDraft == <<NoProject, {}>>
NoEditor == [brain |-> NoBrain, load |-> 0, open |-> FALSE, def |-> Absent, named |-> 0, by |-> 0]

Modal == dialog # NoDialog \/ editor.open \/ picker
(* A press elsewhere takes the focus from the name that is edited.         *)
Blurred == NoDraft

Init == /\ project \in Projects
        /\ saved = [p \in Projects |-> [b \in Brains |-> IF b \in Has[p] THEN Original(p, b) ELSE Absent]]
        /\ name = [p \in Projects |-> <<p, {}>>]
        /\ dialog = NoDialog /\ submitted = {} /\ toOpen = NoNaming /\ early = {}
        /\ editor = NoEditor /\ loads = {} /\ opens = 0
        /\ switching = {} /\ picker = FALSE /\ draft = NoDraft /\ dialogs = 0 /\ moves = 0

-----------------------------------------------------------------------------
(* The editor opens on b: its definition is asked for, of the project that *)
(* is active now, and it stands once that has come.  What an open editor    *)
(* shows until then is the brain it was on.                                *)
Opening(b, named, by) ==
    /\ opens < MaxOpens /\ opens' = opens + 1
    /\ editor' = [editor EXCEPT !.brain = b, !.load = opens + 1, !.named = named, !.by = by,
                                 !.def = Marked(@, "brain")]
    /\ loads' = loads \cup {[number |-> opens + 1, def |-> saved[project][b]]}

OpenDialog(kind, b) ==
    /\ ~Modal
    /\ dialogs < MaxDialogs /\ dialogs' = dialogs + 1
    /\ IF kind = "add" THEN b = NoBrain ELSE b \in Brains /\ Here(b)
    /\ dialog' = [kind |-> kind, brain |-> b, number |-> dialogs + 1, busy |-> FALSE]
    /\ draft' = Blurred
    /\ UNCHANGED <<project, saved, name, submitted, toOpen, early, editing, switching, picker, moves>>

(* The store takes what is submitted, or refuses it; the dialog is busy     *)
(* until it has answered.                                                  *)
Submit(b, ok) ==
    /\ dialog # NoDialog /\ ~dialog.busy
    /\ IF dialog.kind = "add" THEN ~Here(b) ELSE b = dialog.brain
    /\ dialog' = [dialog EXCEPT !.busy = TRUE]
    /\ submitted' = submitted \cup {[kind |-> dialog.kind, brain |-> b, number |-> dialog.number, ok |-> ok]}
    /\ saved' = [saved EXCEPT ![project][b] = CASE ok /\ dialog.kind = "add" -> Original(project, b)
                                               [] ok /\ dialog.kind = "remove" -> Absent
                                               [] OTHER -> @]
    /\ UNCHANGED <<project, name, toOpen, early, editing, header, dialogs>>

(* openNamedBrain, run as the add dialog closes: the brain it created, if  *)
(* one is waiting, is opened.                                              *)
(* Mutant of Taken: the brain is opened and kept for the next dialog.       *)
TakenAgain(naming) == naming

Taken(naming) == NoNaming
Closed(naming, answered) ==
    /\ dialog' = NoDialog
    /\ early' = IF dialog.busy /\ dialog.number # answered THEN early \cup {dialog.number} ELSE early
    /\ IF dialog.kind = "add" /\ naming # NoNaming
       THEN Opening(naming.brain, naming.number, dialog.number) /\ toOpen' = Taken(naming)
       ELSE toOpen' = naming /\ UNCHANGED editing

(* Cancel and Escape work while a submission is awaited.                   *)
Cancel == /\ dialog # NoDialog
          /\ Closed(toOpen, 0)
          /\ UNCHANGED <<project, saved, name, submitted, header, dialogs>>
(* The awaited call ends and closes the dialog there is, its own or not.   *)
Ends(x) == /\ x \in submitted /\ x.ok /\ submitted' = submitted \ {x}
           /\ Closed(IF x.kind = "add" THEN [brain |-> x.brain, number |-> x.number] ELSE toOpen, x.number)
           /\ UNCHANGED <<project, saved, name, header, dialogs>>

(* A refused call leaves its dialog open, and no longer busy.               *)
Refused(x) == IF dialog.number = x.number THEN [dialog EXCEPT !.busy = FALSE] ELSE dialog
Fails(x) == /\ x \in submitted /\ ~x.ok /\ submitted' = submitted \ {x}
            /\ dialog' = Refused(x)
            /\ UNCHANGED <<project, saved, name, toOpen, early, editing, header, dialogs>>

-----------------------------------------------------------------------------
OpenEditor(b) == /\ ~Modal /\ Here(b)
                 /\ Opening(b, 0, 0) /\ draft' = Blurred
                 /\ UNCHANGED <<project, saved, name, list, switching, picker, moves, dialogs>>

(* A definition that comes for an effect that was cleaned up is dropped.   *)
Active(x) == editor.load = x.number
Loaded(x) == /\ x \in loads /\ loads' = loads \ {x}
             /\ editor' = IF Active(x) THEN [editor EXCEPT !.def = x.def, !.open = TRUE] ELSE editor
             /\ UNCHANGED <<project, saved, name, list, opens, header, dialogs>>

(* The working copy is saved under the brain the editor was opened for.    *)
SubmitEdit ==
    /\ editor.open /\ editor.def # Absent
    /\ saved' = [saved EXCEPT ![project][editor.brain] = editor.def]
    /\ editor' = NoEditor
    /\ UNCHANGED <<project, name, list, loads, opens, header, dialogs>>
CloseEditor == /\ editor.open /\ editor' = NoEditor
               /\ UNCHANGED <<project, saved, name, list, loads, opens, header, dialogs>>

-----------------------------------------------------------------------------
OpenPicker == /\ ~Modal /\ picker' = TRUE /\ draft' = Blurred
              /\ UNCHANGED <<project, saved, name, list, editing, switching, moves, dialogs>>
ClosePicker == /\ picker /\ picker' = FALSE
               /\ UNCHANGED <<project, saved, name, list, editing, switching, draft, moves, dialogs>>
(* A project is picked, or made by an import, which opens nothing; several  *)
(* may be on their way.                                                    *)
SwitchTo(p) ==
    /\ moves < MaxMoves /\ moves' = moves + 1
    /\ p # project /\ switching' = switching \cup {p}
    /\ picker \/ ~Modal
    /\ draft' = Blurred
    /\ UNCHANGED <<project, saved, name, list, editing, picker, dialogs>>
(* The picker closes the picker there is; an import closes nothing.         *)
Switched(p) ==
    /\ p \in switching /\ switching' = switching \ {p} /\ project' = p
    /\ picker' \in {FALSE, picker}
    /\ editor' = [editor EXCEPT !.def = Marked(@, "project")]
    /\ loads' = {[x EXCEPT !.def = Marked(@, "project")] : x \in loads}
    /\ draft' = IF draft = NoDraft THEN draft ELSE <<draft[1], {"project"}>>
    /\ UNCHANGED <<saved, name, list, opens, moves, dialogs>>

(* The name shown is the active project's; what is typed over it goes to   *)
(* the project that is active when it is saved.                            *)
StartRename == /\ ~Modal /\ draft = NoDraft
               /\ draft' = <<project, {}>>
               /\ UNCHANGED <<project, saved, name, list, editing, switching, picker, moves, dialogs>>
CommitRename == /\ draft # NoDraft /\ draft' = NoDraft
                /\ name' = [name EXCEPT ![project] = draft]
                /\ UNCHANGED <<project, saved, list, editing, switching, picker, moves, dialogs>>
CancelRename == /\ draft # NoDraft /\ draft' = NoDraft
                /\ UNCHANGED <<project, saved, name, list, editing, switching, picker, moves, dialogs>>

Next ==
    \/ \E kind \in {"add", "rename", "remove"}, b \in Brains \cup {NoBrain} : OpenDialog(kind, b)
    \/ \E b \in Brains, ok \in BOOLEAN : Submit(b, ok)
    \/ \E b \in Brains : OpenEditor(b)
    \/ Cancel \/ \E x \in submitted : Ends(x) \/ Fails(x)
    \/ \E x \in loads : Loaded(x)
    \/ SubmitEdit \/ CloseEditor
    \/ OpenPicker \/ ClosePicker \/ \E p \in Projects : SwitchTo(p) \/ Switched(p)
    \/ StartRename \/ CommitRename \/ CancelRename

Spec == Init /\ [][Next]_vars

-----------------------------------------------------------------------------
Changes == SUBSET {"project", "brain"}
Definitions == (Projects \X Brains \X Changes) \cup {Absent}

TypeOK ==
    /\ project \in Projects /\ switching \subseteq Projects /\ draft \in (Projects \X Changes) \cup {NoDraft}
    /\ saved \in [Projects -> [Brains -> Definitions]] /\ name \in [Projects -> Projects \X Changes]
    /\ dialog.kind \in {"none", "add", "rename", "remove"} /\ dialog.brain \in Brains \cup {NoBrain}
    /\ dialog.busy => \E x \in submitted : x.number = dialog.number
    /\ toOpen.brain \in Brains \cup {NoBrain} /\ editor.brain \in Brains \cup {NoBrain}
    /\ editor.open => editor.load \in 1..opens

(* What is stored under a brain of a project was made from that brain,     *)
(* unless the open editor was turned to another one and saved before that  *)
(* one had come; and of that project, unless the project changed between   *)
(* the editor's opening and its save, which then goes to the project of    *)
(* now (BrainEditor, saveBrain).                                           *)
SavesWhereOpened == \A p \in Projects, b \in Brains :
    LET def == saved[p][b] IN
        def # Absent => /\ def[1] = p \/ "project" \in def[3]
                        /\ def[2] = b \/ "brain" \in def[3]

(* The add dialog opens the editor on the brain it has just named, or on   *)
(* one whose dialog was closed before the store had answered it, and never *)
(* on another (openNamedBrain).                                            *)
OpensWhatItNamed == editor.named = editor.by \/ editor.named \in early

(* A name is given to the project whose name was edited, unless the        *)
(* project changed under the edit (InlineRename).                          *)
NamesItsProject == \A p \in Projects : name[p][1] = p \/ "project" \in name[p][2]
=============================================================================
