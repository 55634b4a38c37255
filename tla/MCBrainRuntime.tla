--------------------------- MODULE MCBrainRuntime ---------------------------
(***************************************************************************)
(* Small brains for TLC: two pages, a root rule with two child rules, a    *)
(* root rule that follows it, and an async bytecode action; and properties *)
(* the repository's comments state of the program.                         *)
(***************************************************************************)
EXTENDS BrainRuntime, TLC, SequencesExt

CONSTANTS
    r1, r2, c1, c2, s1, a1, p1, p2,
    Idlers      \* rules that do nothing, crowding the second page

Ins(op) == [op |-> op, arg |-> NoRule]
InsOf(op, arg) == [op |-> op, arg |-> arg]

MCRules == {r1, r2, c1, c2, s1} \cup Idlers
MCParent == [r \in MCRules |-> IF r \in {c1, c2} THEN r1 ELSE NoRule]
MCAnc == [r \in MCRules |-> IF r \in {c1, c2} THEN {r, r1} ELSE {r}]
MCSubject ==
    [r \in MCRules |->
        IF r = c2 THEN c1
        ELSE IF \E p \in Pages : \E i \in 2..Len(Roots[p]) : Roots[p][i] = r
        THEN CHOOSE q \in MCRules : \E p \in Pages : \E i \in 2..Len(Roots[p]) :
                                       Roots[p][i] = r /\ Roots[p][i - 1] = q
        ELSE NoRule]
TwoPages == (p1 :> <<r1, r2>>) @@ (p2 :> <<s1>> \o SetToSeq(Idlers))
RestartLast == (p1 :> <<r1, r2, s1>>) @@ (p2 :> << >>)
(* Everything at once: child rules, one following the other, an action     *)
(* that may fail, triggers that park and that answer at once, device       *)
(* operations, a restart from a child rule, and page switches that orphan  *)
(* a running action.                                                       *)
CoreCode ==
    (r1 :> <<Ins("when"), Ins("gate"), InsOf("spawn", c1), InsOf("spawn", c2)>>) @@
    (c1 :> <<Ins("gate"), InsOf("action", a1)>>) @@
    (c2 :> <<Ins("trigger"), Ins("gate"), Ins("restart")>>) @@
    (r2 :> <<Ins("when"), Ins("trigger"), Ins("chain"), InsOf("page", p2)>>) @@
    (s1 :> <<Ins("clear"), InsOf("action", a1), InsOf("page", p1)>>) @@
    (a1 :> <<Ins("host"), Ins("yield")>>)

(* An arena too small for the brain: handles run out under triggers and    *)
(* operations, and fibers under child rules, actions and page switches.    *)
ArenaCode ==
    (r1 :> <<InsOf("spawn", c1), Ins("host"), InsOf("spawn", c2), InsOf("page", p2)>>) @@
    (c1 :> <<InsOf("action", a1)>>) @@
    (r2 :> <<Ins("trigger"), Ins("script"), InsOf("action", a1), Ins("restart")>>) @@
    (c2 :> << >>) @@
    (s1 :> <<InsOf("page", p1)>>) @@
    (a1 :> <<Ins("host")>>) @@
    [i \in Idlers |-> << >>]

(* A rule that restarts its page each time it runs, beside a rule that     *)
(* awaits an action and a rule that follows it.                            *)
RestartCode ==
    (r1 :> <<InsOf("action", a1)>>) @@
    (r2 :> <<Ins("when"), Ins("trigger"), Ins("gate")>>) @@
    (s1 :> <<Ins("restart")>>) @@
    (c1 :> << >>) @@ (c2 :> << >>) @@
    (a1 :> <<Ins("yield"), Ins("yield")>>)

(* For one capped handle in the whole brain: a child rule holds it while   *)
(* it awaits an action that needs one too, beside a rule that wants it for *)
(* the device and a rule that follows.                                     *)
ProgressCode ==
    (r1 :> <<Ins("when"), Ins("gate"), InsOf("spawn", c1), Ins("host")>>) @@
    (c1 :> <<InsOf("action", a1)>>) @@
    (r2 :> <<Ins("trigger"), InsOf("page", p2)>>) @@
    (c2 :> << >>) @@
    (s1 :> <<Ins("clear"), InsOf("page", p1)>>) @@
    (a1 :> <<Ins("yield"), Ins("host")>>)

-----------------------------------------------------------------------------
(* handle-table.h:278-279: a resolved handle holds its result until a      *)
(* waiter consumes it; so a fiber that still holds the handle it           *)
(* dispatched finds it at its AWAIT.                                       *)
ResultHeldForWaiter == \A f \in Fibers : Alive(f) => fiber[f].held # Gone

(* handle-table.h:55-57: the live count of uncapped handles is bounded by  *)
(* construction: each pending one sits in its subject's watcher slot.      *)
UncappedBounded ==
    \A h \in Handles :
        hstate[h] = "Pending" /\ ~hcapped[h] =>
            \/ \E r \in Rules : watcher[r] = h
            \/ pc = "sensor" /\ fiber[running].held = h

=============================================================================
