--------------------------- MODULE OperationLease ---------------------------
(***************************************************************************)
(* What a leased device subsystem promises its callers                     *)
(* (packages/wodal/src/core/operation-end.ts): it holds one operation at a *)
(* time and reports once how each operation it was offered ended, the      *)
(* dropped ones included.  Only a power-on reset loses an operation        *)
(* without a report.                                                       *)
(***************************************************************************)
EXTENDS Naturals

CONSTANT Ops            \* the operations callers may offer

VARIABLES
    phase,              \* per operation, how far the subsystem is with it
    clock               \* its time since power-on

Held == {o \in Ops : phase[o] = "held"}

LeaseInit == phase = [o \in Ops |-> "unasked"] /\ clock = 0

(* An operation is taken, or ends at once: refused by a busy subsystem, or  *)
(* one that needs no time.                                                 *)
Offer(o) ==
    /\ phase[o] = "unasked"
    /\ \/ Held = {} /\ phase' = [phase EXCEPT ![o] = "held"]
       \/ phase' = [phase EXCEPT ![o] = "ended"]
    /\ UNCHANGED clock

(* An operation that takes over from the one held, which is told so.       *)
Supersede(o, p) ==
    /\ phase[o] = "held" /\ phase[p] = "unasked"
    /\ \E next \in {"held", "ended"} :
           phase' = [phase EXCEPT ![o] = "ended", ![p] = next]
    /\ UNCHANGED clock

Release(o) ==
    /\ phase[o] = "held"
    /\ phase' = [phase EXCEPT ![o] = "ended"]
    /\ UNCHANGED clock

Pass == clock' > clock /\ UNCHANGED phase

PowerOnReset ==
    /\ clock' = 0
    /\ phase' = [o \in Ops |-> IF phase[o] = "held" THEN "lost" ELSE phase[o]]

LeaseNext ==
    \/ \E o \in Ops : Offer(o) \/ Release(o)
    \/ \E o, p \in Ops : Supersede(o, p)
    \/ Pass \/ PowerOnReset

LeaseSpec == LeaseInit /\ [][LeaseNext]_<<phase, clock>>
=============================================================================
