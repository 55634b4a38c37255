----------------------- MODULE ResolutionWarningsToast -----------------------
(***************************************************************************)
(* The standing warning about libraries that did not resolve               *)
(* (services/resolution-warnings.ts, resolution-warnings-toast.ts): one    *)
(* toast, shown or updated in place as the set of unresolved libraries     *)
(* changes, and silent about a set the user has dismissed.                 *)
(*                                                                         *)
(* The presenter reports a close with the set the toast was issued for.  A *)
(* toast it was told to remove can still be closed while it leaves.        *)
(***************************************************************************)
EXTENDS Naturals, FiniteSets, FiniteSetsExt

CONSTANTS
    Libraries,
    Kinds,       \* the warning kinds
    Unresolved,  \* UNRESOLVED_LIBRARY_WARNING_KINDS
    MaxVisible,  \* MAX_VISIBLE_COORDINATES
    MaxChanges,  \* bound: changes of the warnings, loads included
    NoToast

ASSUME ToastAssumption ==
    /\ IsFiniteSet(Libraries) /\ Unresolved \subseteq Kinds /\ MaxVisible \in Nat /\ MaxChanges \in Nat
    /\ \A set \in SUBSET Libraries : set # NoToast

VARIABLES
    warnings,    \* the project's latest warnings
    shown,       \* shownSignature: the set the toast shows, or NoToast
    dismissed,   \* dismissedSignature
    toast,       \* what the presenter shows: the named libraries, how many more, and the set
    leaving,     \* the set of a removed toast that is still on the screen
    refused,     \* the set the user last saw and dismissed, since the set changed
    changes
vars == <<warnings, shown, dismissed, toast, leaving, refused, changes>>

-----------------------------------------------------------------------------
Warnings == Libraries \X Kinds
Coordinates(ws) == {w[1] : w \in {v \in ws : v[2] \in Unresolved}}

NothingShown == [of |-> NoToast, named |-> 0, overflow |-> 0]
MinOf(a, b) == IF a < b THEN a ELSE b
ToastOf(set) == [of |-> set, named |-> MinOf(Cardinality(set), MaxVisible),
                 overflow |-> IF Cardinality(set) > MaxVisible THEN Cardinality(set) - MaxVisible ELSE 0]

(* Mutant of Cleared: a load does not ask again.                            *)
ClearedOnChange(set, fresh) == IF dismissed # set THEN NoToast ELSE dismissed

Cleared(set, fresh) == IF fresh \/ dismissed # set THEN NoToast ELSE dismissed

Shows(set, kept) == set # {} /\ kept # set /\ shown # set

(* evaluate, for the warnings there are now.                               *)
Evaluate(ws, fresh) ==
    LET set == Coordinates(ws)
        kept == Cleared(set, fresh)
    IN  /\ dismissed' = kept
        /\ shown' = IF set = {} THEN NoToast ELSE IF Shows(set, kept) THEN set ELSE shown
        /\ toast' = IF set = {} THEN (IF shown # NoToast THEN NothingShown ELSE toast)
                    ELSE IF Shows(set, kept) THEN ToastOf(set) ELSE toast
        /\ leaving' = IF set = {} /\ shown # NoToast THEN toast.of
                      ELSE IF Shows(set, kept) THEN NoToast ELSE leaving
        /\ refused' = IF fresh \/ set # Coordinates(warnings) THEN NoToast ELSE refused

Init == /\ warnings \in SUBSET Warnings
        /\ LET set == Coordinates(warnings)
           IN  /\ shown = (IF set = {} THEN NoToast ELSE set)
               /\ toast = (IF set = {} THEN NothingShown ELSE ToastOf(set))
        /\ dismissed = NoToast /\ leaving = NoToast /\ refused = NoToast /\ changes = 0

Change(ws, fresh) == /\ changes < MaxChanges /\ changes' = changes + 1
                     /\ warnings' = ws /\ Evaluate(ws, fresh)

(* handleUserDismiss: a dismissal of what no longer shows records nothing. *)
Recorded(set) == shown = set
UserDismiss(set) == /\ shown' = IF Recorded(set) THEN NoToast ELSE shown
                    /\ dismissed' = IF Recorded(set) THEN set ELSE dismissed
                    /\ UNCHANGED <<warnings, changes>>

(* The close button, of the toast there is or of the one that leaves.      *)
Close == /\ toast # NothingShown
         /\ toast' = NothingShown /\ refused' = toast.of
         /\ UserDismiss(toast.of) /\ UNCHANGED leaving
CloseLeaving == /\ leaving # NoToast /\ leaving' = NoToast
                /\ UserDismiss(leaving) /\ UNCHANGED <<toast, refused>>
Left == /\ leaving # NoToast /\ leaving' = NoToast
        /\ UNCHANGED <<warnings, shown, dismissed, toast, refused, changes>>

Next == \/ \E ws \in SUBSET Warnings, fresh \in BOOLEAN : Change(ws, fresh)
        \/ Close \/ CloseLeaving \/ Left

Spec == Init /\ [][Next]_vars

-----------------------------------------------------------------------------
TypeOK ==
    /\ warnings \subseteq Warnings
    /\ \A set \in {shown, dismissed, toast.of, leaving} : set = NoToast \/ set \subseteq Libraries
    /\ toast.named \in 0..MaxVisible
    /\ toast.named + toast.overflow = (IF toast.of = NoToast THEN 0 ELSE Cardinality(toast.of))
    /\ changes \in 0..MaxChanges

(* The toast never names a library that has since resolved, nor hides one  *)
(* that has not: what it shows is the set of now.                          *)
ShowsTheSet == toast # NothingShown => toast.of = Coordinates(warnings)

(* A set of unresolved libraries is in front of the user unless the user   *)
(* has closed its toast since the set last changed or the project loaded.  *)
NotSilent == Coordinates(warnings) # {} /\ refused # Coordinates(warnings)
                => toast # NothingShown

(* What the user closed stays closed while nothing changes.                *)
StaysClosed == refused # NoToast /\ refused = Coordinates(warnings)
                => toast = NothingShown

(* The toast and the set agree: an unresolved set is on show as it is now,  *)
(* or the user has closed its toast, which then stays closed (the notifier *)
(* of resolution-warnings-toast.ts).                                       *)
WarningStands == ShowsTheSet /\ NotSilent /\ StaysClosed
=============================================================================
