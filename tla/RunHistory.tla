----------------------------- MODULE RunHistory -----------------------------
(***************************************************************************)
(* Properties of a whole round and of a whole firing.  Two history         *)
(* variables observe what a round owes and what a rule's firing has lost.  *)
(***************************************************************************)
EXTENDS BrainRuntime

VARIABLES
    owed,    \* the fibers queued when the round opened, not yet given a slice
    harmed   \* rules whose firing lost a fiber of its cluster

historyVars == <<vars, owed, harmed>>

Spawns(r) == \E f \in Fibers : fiber[f].state = "Free" /\ fiber'[f].func = r
LosesFiber(r) ==
    \E f \in Fibers :
        /\ Alive(f) /\ fiber'[f].state \in {"Fault", "Cancelled"}
        /\ fiber[f].rule \in Rules /\ r \in Anc[fiber[f].rule]
StartsSlice == running' # NoFiber /\ running' # running

HistoryStep ==
    /\ owed' = CASE pc = "respawn" /\ pc' = "round" -> {runQueue[i] : i \in 1..Len(runQueue)}
                 [] StartsSlice -> owed \ {running'}
                 [] pc' = "idle" -> {}
                 [] OTHER -> owed
    /\ harmed' = {r \in harmed : ~Spawns(r)} \cup {r \in Rules : LosesFiber(r)}

HistoryInit == Init /\ owed = {} /\ harmed = {}
HistoryNext == Next /\ HistoryStep
HistorySpec == HistoryInit /\ [][HistoryNext]_historyVars

-----------------------------------------------------------------------------
(* A round leaves nobody out: when it ends, every fiber that was queued    *)
(* when it opened has had a slice or was cancelled (tick).                 *)
RoundServesAll ==
    pc = "round" /\ (roundLeft = 0 \/ runQueue = << >>) => \A f \in owed : ~Alive(f)

(* The rule a trigger handle is about.                                     *)
AnsweredRule == IF pc = "settle" THEN walk.rule ELSE Subject[fiber[running].rule]

(* A rule trigger answers true only when the firing it is about is over,   *)
(* every fiber of its cluster included, and none of them faulted or was    *)
(* cancelled (execRuleTrigger, settleRuleWatchers).                        *)
TriggerTruthful ==
    [][\A h \in Handles :
          hresult[h] # "true" /\ hresult'[h] = "true" =>
             AnsweredRule \notin harmed /\ ~LiveRuleSubtree(AnsweredRule)]_historyVars

=============================================================================
