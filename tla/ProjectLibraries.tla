-------------------------- MODULE ProjectLibraries --------------------------
(***************************************************************************)
(* The libraries of the simulator's project: the header's handlers         *)
(* (components/ProjectHeader.tsx) over the map of installed extensions     *)
(* (services/microbit-extension-browser.ts), and what they tell the user.  *)
(*                                                                         *)
(* A handler takes the project's extensions map when it is called, may     *)
(* wait for a reference to be resolved or for the user to confirm, makes a *)
(* map of its own and hands it to the host's transaction, which ends later *)
(* and puts that map in place or fails.  Nothing keeps another handler, or *)
(* the opening of another project, from changing the map meanwhile.        *)
(***************************************************************************)
EXTENDS Naturals, FiniteSets

CONSTANTS
    Libraries,
    Platform,     \* MICROBIT_PLATFORM_COORDINATES
    Embedded,     \* bundled: installed without resolving a reference
    DependsOn,    \* what the manifest of each library names
    Slots,        \* the handlers that can wait at once
    Manifests,    \* the maps that other projects are opened with
    MaxActs,      \* bound: handlers called
    MaxSwitches,  \* bound: projects opened
    NoLibrary, NoSlot

VARIABLES
    extensions,   \* the active project's map: the version of each library, 0 when absent
    inUse,        \* the libraries a saved brain or file of that project uses
    latest,       \* the version each library is published at
    handler,      \* per slot: the handler that waits there
    pendingUninstall,  \* the slot whose confirmation dialog is open
    updates,      \* the libraries the "update(s) available" toast would update
    told,         \* what the last toast about each library said since the project was opened
    acts, switches
vars == <<extensions, inUse, latest, handler, pendingUninstall, updates, told, acts, switches>>

-----------------------------------------------------------------------------
Versions == 0..2
Absent == 0
Maps == [Libraries -> Versions]
Installed(map) == {l \in Libraries : map[l] # Absent}

LibrariesParameters ==
    /\ IsFiniteSet(Libraries) /\ IsFiniteSet(Slots) /\ MaxActs \in Nat /\ MaxSwitches \in Nat
    /\ Platform \subseteq Libraries /\ Embedded \subseteq Libraries
    /\ \A map \in Manifests : map \in Maps /\ Platform \subseteq Installed(map)
    /\ DependsOn \in [Libraries -> SUBSET Libraries]
    /\ NoLibrary \notin Libraries /\ NoSlot \notin Slots

Steps == {"idle", "resolve", "confirm", "commit", "check"}
Verbs == {"installed", "removed", "refreshed", "none"}
Waiting == [step : Steps, verb : Verbs, library : Libraries \cup {NoLibrary},
            map : Maps, left : SUBSET Libraries, found : SUBSET Libraries, asked : BOOLEAN,
            overtaken : BOOLEAN]   \* the map has changed since the handler took its own
Nothing == [l \in Libraries |-> Absent]
Idle == [step |-> "idle", verb |-> "none", library |-> NoLibrary, map |-> Nothing,
         left |-> {}, found |-> {}, asked |-> FALSE, overtaken |-> FALSE]

(* Mutant of TakesMap: the map a handler starts from is an empty one.       *)
TakesMapEmpty == [l \in Libraries |-> IF l \in Platform THEN extensions[l] ELSE Absent]

TakesMap == extensions

(* The map an install asks for: the library at the version the reference   *)
(* resolves to.  A library already there under it changes nothing.         *)
MapWith(map, l) == [map EXCEPT ![l] = latest[l]]
(* uninstallExtension: a platform coordinate, one that is not installed    *)
(* and one another installed library depends on are refused.               *)
Removable(map, l) == /\ map[l] # Absent /\ l \notin Platform
                     /\ \A k \in Installed(map) : l \notin DependsOn[k]
MapWithout(map, l) == [map EXCEPT ![l] = Absent]

Committing(w, map) == [w EXCEPT !.step = "commit", !.map = map]
(* Whoever waits with a map of his own is overtaken when another one takes *)
(* its place.                                                              *)
Overtaken(w) == IF w.step \in {"resolve", "confirm", "commit"} THEN [w EXCEPT !.overtaken = TRUE] ELSE w

-----------------------------------------------------------------------------
Init == /\ extensions = [l \in Libraries |-> IF l \in Platform THEN 1 ELSE Absent]
        /\ inUse = {} /\ latest = [l \in Libraries |-> 1]
        /\ handler = [s \in Slots |-> Idle] /\ pendingUninstall = NoSlot
        /\ updates = {} /\ told = [l \in Libraries |-> "none"] /\ acts = 0 /\ switches = 0

(* A handler is called, whatever others wait; only the confirmation dialog *)
(* is modal.                                                               *)
Call(s, w) == /\ acts < MaxActs /\ acts' = acts + 1
              /\ handler[s].step = "idle" /\ pendingUninstall = NoSlot
              /\ handler' = [handler EXCEPT ![s] = w]

(* A catalog offer, the add field or the assistant's offer: an embedded    *)
(* library goes to the transaction, a reference is resolved first.         *)
Install(s, l) ==
    LET w == [Idle EXCEPT !.verb = "installed", !.library = l, !.map = TakesMap]
    IN  /\ extensions[l] = Absent
        /\ Call(s, IF l \in Embedded THEN Committing(w, MapWith(w.map, l))
                                     ELSE [w EXCEPT !.step = "resolve"])
        /\ UNCHANGED <<extensions, inUse, latest, pendingUninstall, updates, told, switches>>
ReferenceResolved(s, ok) ==
    /\ handler[s].step = "resolve"
    /\ handler' = [handler EXCEPT ![s] = IF ok THEN Committing(@, MapWith(@.map, @.library)) ELSE Idle]
    /\ UNCHANGED <<extensions, inUse, latest, pendingUninstall, updates, told, acts, switches>>

(* runGuardedLibraryUninstall: an empty impact removes at once, another    *)
(* one waits for the dialog.                                               *)
NeedsConfirmation(l) == l \in inUse
Removing(w) == IF Removable(w.map, w.library) THEN Committing(w, MapWithout(w.map, w.library)) ELSE Idle
Uninstall(s, l) ==
    LET w == [Idle EXCEPT !.verb = "removed", !.library = l, !.map = TakesMap]
    IN  /\ extensions[l] # Absent
        /\ Call(s, IF NeedsConfirmation(l) THEN [w EXCEPT !.step = "confirm"] ELSE Removing(w))
        /\ pendingUninstall' = IF NeedsConfirmation(l) THEN s ELSE NoSlot
        /\ UNCHANGED <<extensions, inUse, latest, updates, told, switches>>
Answer(confirmed) ==
    /\ pendingUninstall # NoSlot
    /\ pendingUninstall' = NoSlot
    /\ handler' = [handler EXCEPT ![pendingUninstall] =
                     IF confirmed THEN Removing([@ EXCEPT !.asked = TRUE]) ELSE Idle]
    /\ UNCHANGED <<extensions, inUse, latest, updates, told, acts, switches>>

(* The transaction ends: its map is the project's, and the toast says so,  *)
(* or it failed and nothing changed.                                       *)
Commit(s, ok) ==
    /\ handler[s].step = "commit"
    /\ extensions' = IF ok THEN handler[s].map ELSE extensions
    /\ handler' = [r \in Slots |-> IF r = s THEN Idle
                                  ELSE IF extensions' # extensions THEN Overtaken(handler[r]) ELSE handler[r]]
    /\ told' = IF ok /\ handler[s].library # NoLibrary
               THEN [told EXCEPT ![handler[s].library] = handler[s].verb] ELSE told
    /\ UNCHANGED <<inUse, latest, pendingUninstall, updates, acts, switches>>

Retry(s) == /\ Call(s, Committing([Idle EXCEPT !.verb = "refreshed"], extensions))
            /\ UNCHANGED <<extensions, inUse, latest, pendingUninstall, updates, told, switches>>

(* Every updatable library is checked, one after the other; the toast then *)
(* offers what was found, and stays for as long as the user leaves it.     *)
CheckUpdates(s) ==
    /\ Installed(extensions) \ Platform # {}
    /\ Call(s, [Idle EXCEPT !.step = "check", !.left = Installed(extensions) \ Platform])
    /\ UNCHANGED <<extensions, inUse, latest, pendingUninstall, updates, told, switches>>
Checked(s, l, ok) ==
    /\ handler[s].step = "check" /\ l \in handler[s].left
    /\ LET w == handler[s]
           newer == ok /\ extensions[l] # Absent /\ latest[l] > extensions[l]
           found == IF newer THEN w.found \cup {l} ELSE w.found
           done == w.left = {l}
       IN  /\ handler' = [handler EXCEPT ![s] =
                            IF done THEN Idle ELSE [w EXCEPT !.left = w.left \ {l}, !.found = found]]
           /\ updates' = IF done /\ found # {} THEN found ELSE updates
    /\ UNCHANGED <<extensions, inUse, latest, pendingUninstall, told, acts, switches>>
(* The toast's button: the host applies the updates to the map there is.   *)
ApplyUpdates(s) ==
    /\ updates # {} /\ updates' = {}
    /\ LET due == {l \in updates : extensions[l] # Absent}
       IN  Call(s, Committing([Idle EXCEPT !.verb = "refreshed"],
                              [l \in Libraries |-> IF l \in due THEN latest[l] ELSE extensions[l]]))
    /\ UNCHANGED <<extensions, inUse, latest, pendingUninstall, told, switches>>

(* A brain is saved, with or without a tile of a library.                  *)
SaveBrain(l) == /\ extensions[l] # Absent /\ l \notin Platform
                /\ inUse' = (IF l \in inUse THEN inUse \ {l} ELSE inUse \cup {l})
                /\ UNCHANGED <<extensions, latest, handler, pendingUninstall, updates, told, acts, switches>>
Publish(l) == /\ latest[l] < 2 /\ l \notin Platform
              /\ latest' = [latest EXCEPT ![l] = 2]
              /\ UNCHANGED <<extensions, inUse, handler, pendingUninstall, updates, told, acts, switches>>

(* Another project is opened: the header shows its map, and what waits     *)
(* waits on and keeps the map it took.                                     *)
SwitchProject(map) ==
    /\ switches < MaxSwitches /\ switches' = switches + 1
    /\ extensions' = map
    /\ inUse' \in SUBSET (Installed(map) \ Platform)
    /\ handler' = [s \in Slots |-> Overtaken(handler[s])]
    /\ told' = [l \in Libraries |-> "none"]
    /\ UNCHANGED <<latest, pendingUninstall, updates, acts>>

Next ==
    \/ \E s \in Slots, l \in Libraries : Install(s, l) \/ Uninstall(s, l)
    \/ \E s \in Slots, ok \in BOOLEAN : ReferenceResolved(s, ok) \/ Commit(s, ok)
    \/ \E confirmed \in BOOLEAN : Answer(confirmed)
    \/ \E s \in Slots : Retry(s) \/ CheckUpdates(s) \/ ApplyUpdates(s)
    \/ \E s \in Slots, l \in Libraries, ok \in BOOLEAN : Checked(s, l, ok)
    \/ \E l \in Libraries : SaveBrain(l) \/ Publish(l)
    \/ \E map \in Manifests : SwitchProject(map)

(* A transaction and a check end; the user answers a dialog or not.        *)
Fairness == /\ \A s \in Slots : WF_vars(\E ok \in BOOLEAN : Commit(s, ok) \/ ReferenceResolved(s, ok))
            /\ \A s \in Slots : WF_vars(\E l \in Libraries, ok \in BOOLEAN : Checked(s, l, ok))
Spec == Init /\ [][Next]_vars /\ Fairness

-----------------------------------------------------------------------------
TypeOK ==
    /\ extensions \in Maps /\ inUse \subseteq Libraries /\ latest \in Maps
    /\ handler \in [Slots -> Waiting] /\ updates \subseteq Libraries
    /\ pendingUninstall \in Slots \cup {NoSlot}
    /\ \A s \in Slots : handler[s].step = "confirm" <=> pendingUninstall = s
    /\ told \in [Libraries -> Verbs] /\ acts \in 0..MaxActs /\ switches \in 0..MaxSwitches

(* The handler in s ends, having put in place a map that it took before    *)
(* the project's map was changed by another one, or was another project's. *)
PutsBack(s) == handler[s].step = "commit" /\ handler[s].overtaken /\ handler'[s].step = "idle"

(* What the user was told last of a library is so: "Installed" means the   *)
(* project has it until it is removed, "Removed" that it is gone.  Nothing *)
(* makes it untrue but the map of a handler that was overtaken, and of its *)
(* own library even that one tells the truth (presentExtensionTransaction  *)
(* over a map taken before the wait).                                      *)
Told(l) == /\ told[l] = "installed" => extensions[l] # Absent
           /\ told[l] = "removed" => extensions[l] = Absent
ToldIsTrue == [][ \A l \in Libraries : Told(l) \/ told'[l] # told[l] =>
                     Told(l)' \/ \E s \in Slots : PutsBack(s) /\ handler[s].library # l ]_vars

(* The target and the layers it stands on are never removed, whatever maps *)
(* overwrite one another.                                                  *)
PlatformStays == Platform \subseteq Installed(extensions)

(* A library another installed library depends on does not leave a         *)
(* project, unless by the map of a handler that was overtaken.             *)
DependedStay == [][ switches' = switches => \A l \in Libraries :
    extensions[l] # Absent /\ extensions'[l] = Absent
      => \/ \A k \in Installed(extensions') : l \notin DependsOn[k]
         \/ \E s \in Slots : PutsBack(s) ]_vars

(* A library something uses when it is asked to go leaves only after the   *)
(* dialog that lists the users was confirmed (runGuardedLibraryUninstall). *)
AskedFirst == [][ \A s \in Slots :
    handler[s].step # "commit" /\ handler'[s].step = "commit" /\ handler'[s].verb = "removed"
      => handler'[s].asked \/ handler'[s].library \notin inUse ]_vars

(* A call that waits for the host ends, and an open dialog is all that     *)
(* keeps a handler waiting.                                                *)
HandlersEnd == \A s \in Slots : handler[s].step \in {"resolve", "commit", "check"}
                                  ~> handler[s].step \notin {"resolve", "commit", "check"}
=============================================================================
