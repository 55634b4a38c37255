----------------------- MODULE DeviceOperationsProofs -----------------------
(***************************************************************************)
(* The display and the speaker of the simulated device keep the promise of *)
(* operation-end.ts, and no caller waits for an operation that holds       *)
(* nothing, for every set of dispatches, every geometry and every time.    *)
(*                                                                         *)
(* The promise is not inductive alone: an operation must hold the slot of  *)
(* its own kind, so that it holds one at most; an operation that holds its *)
(* slot, or was not dispatched yet, has no ending; and its handle is not    *)
(* gone.  The clock does not wrap (~MayWrap): an end time beyond the wrap   *)
(* would never come.                                                       *)
(*                                                                         *)
(* The screen is in time from the same invariant and four facts more: a    *)
(* lease began in the past and, once polled, is not over; the frame on     *)
(* show was the last one painted; a column of a text is as old as its      *)
(* place on the screen says; a text reported complete has left it.         *)
(***************************************************************************)
EXTENDS DeviceOperations, FiniteSetTheorems, SequenceTheorems, TLAPS

Handle == {"none", "pending", "resolved", "gone"}
Kind == {"none"} \cup Slots
OpRecord == [kind : Kind, start : Int, length : Int, hold : Int, rendered : Int,
             background : BOOLEAN]

(* Each operation holds the slot of its kind, and one rendering excludes    *)
(* the others; a draw takes time, or it would hold no lease.               *)
LeaseKinds == \A s \in Slots : lease[s] # NoOp => op[lease[s]].kind = s
Exclusive == \A s, t \in DisplaySlots : lease[s] # NoOp /\ lease[t] # NoOp => s = t
DrawsLast == lease["draw"] # NoOp => op[lease["draw"]].hold > 0

(* Nothing was reported of an operation that is not over.                  *)
Unreported ==
    \A o \in Ops : HoldsLease(o) \/ FreshOp(o) => endings[o] = << >> /\ handle[o] # "gone"
FreshUnhandled == \A o \in Ops : FreshOp(o) => handle[o] = "none"

Shapes ==
    /\ now \in Nat
    /\ lease \in [Slots -> Ops \cup {NoOp}]
    /\ op \in [Ops -> OpRecord]
    /\ handle \in [Ops -> Handle]
    /\ endings \in [Ops -> Seq(OperationEnd)]

LeaseInv ==
    /\ Shapes /\ LeaseKinds /\ Exclusive /\ DrawsLast
    /\ Unreported /\ FreshUnhandled /\ PendingHolds

(* OneReport for one step.                                                 *)
ReportStep ==
    \A o \in Ops : endings'[o] # endings[o] => endings[o] = << >> /\ handle[o] # "gone"

(* The operations a subsystem can hold, and what a step makes of its        *)
(* promise: the actions of OperationLease, one operation at a time.        *)
Families == {DisplaySlots, {"play"}}

Others(kinds, moved) == \A o \in Ops \ moved : PhaseOf(o, kinds)' = PhaseOf(o, kinds)
Takes(kinds, o, next) ==
    /\ PhaseOf(o, kinds) = "unasked" /\ PhaseOf(o, kinds)' = next
    /\ next \in {"held", "ended"}
Leaves(kinds, o) == PhaseOf(o, kinds) = "held" /\ PhaseOf(o, kinds)' = "ended"
NoneHeld(kinds) == \A o \in Ops : PhaseOf(o, kinds) # "held"

PromiseNext(kinds) ==
    \/ \E o \in Ops, next \in {"held", "ended"} :
          Takes(kinds, o, next) /\ (next = "held" => NoneHeld(kinds)) /\ Others(kinds, {o})
    \/ \E o, q \in Ops, next \in {"held", "ended"} :
          Takes(kinds, o, next) /\ Leaves(kinds, q) /\ Others(kinds, {o, q})
    \/ \E o \in Ops : Leaves(kinds, o) /\ Others(kinds, {o})
    \/ Others(kinds, {})

PromiseReset(kinds) ==
    \A o \in Ops : PhaseOf(o, kinds)' =
        IF PhaseOf(o, kinds) = "held" THEN "lost" ELSE PhaseOf(o, kinds)

PromiseStep ==
    \/ now' = now /\ \A kinds \in Families : PromiseNext(kinds)
    \/ now' > now /\ \A kinds \in Families : Others(kinds, {})
    \/ now' = 0 /\ \A kinds \in Families : PromiseReset(kinds)

-----------------------------------------------------------------------------
(* An operation that holds a slot holds the slot of its kind alone.        *)
LEMMA HolderKind ==
    ASSUME Shapes, LeaseKinds, NEW o \in Ops
    PROVE  /\ HoldsLease(o) <=> op[o].kind \in Slots /\ lease[op[o].kind] = o
           /\ \A slots \in SUBSET Slots :
                 o \in HoldersOf(slots) <=> HoldsLease(o) /\ op[o].kind \in slots
<1>1. o # NoOp
  BY NoOpAssumption
<1>2. HoldsLease(o) <=> op[o].kind \in Slots /\ lease[op[o].kind] = o
  BY <1>1 DEF HoldsLease, LeaseKinds
<1>3. ASSUME NEW slots \in SUBSET Slots
      PROVE  o \in HoldersOf(slots) <=> HoldsLease(o) /\ op[o].kind \in slots
  BY <1>1, <1>2, <1>3 DEF HoldersOf, LeaseKinds, HoldsLease
<1> QED
  BY <1>2, <1>3

(* The subsystem of an operation it holds is the subsystem of its kind, and *)
(* it holds one at most.                                                   *)
LEMMA OneHolder ==
    ASSUME LeaseInv, NEW kinds \in Families
    PROVE  /\ \A o \in Ops : PhaseOf(o, kinds) = "held" <=> o \in HoldersOf(kinds)
           /\ \A o, p \in HoldersOf(kinds) : o = p
           /\ HoldersOf(kinds) \subseteq Ops
<1> USE DEF LeaseInv
<1>1. kinds \subseteq Slots /\ "none" \notin kinds
  BY DEF Families, Slots, DisplaySlots
<1>2. HoldersOf(kinds) \subseteq Ops
  BY <1>1 DEF HoldersOf, Shapes
<1>3. ASSUME NEW o \in Ops
      PROVE  PhaseOf(o, kinds) = "held" <=> o \in HoldersOf(kinds)
  BY <1>1, HolderKind DEF PhaseOf, Unreported
<1>4. \A o, p \in HoldersOf(kinds) : o = p
  BY DEF HoldersOf, Families, Exclusive
<1> QED
  BY <1>2, <1>3, <1>4

(* A report leaves a report.                                               *)
LEMMA AppendReports ==
    ASSUME NEW reports \in Seq(OperationEnd), NEW how \in OperationEnd
    PROVE  Append(reports, how) # << >> /\ Append(reports, how) \in Seq(OperationEnd)
<1>1. Len(Append(reports, how)) = Len(reports) + 1 /\ Len(reports) \in Nat
  BY AppendProperties, LenProperties
<1> QED
  BY <1>1, AppendProperties, EmptySeq

(* What is left of an operation whose lease is gone is its kind.           *)
LEMMA SpentRecord ==
    ASSUME NEW k \in Kind
    PROVE  /\ [NoRequest EXCEPT !.kind = k] \in OpRecord
           /\ [NoRequest EXCEPT !.kind = k].kind = k
           /\ [NoRequest EXCEPT !.kind = k].background = FALSE
<1>1. NoRequest \in OpRecord /\ NoRequest.background = FALSE
  BY DEF NoRequest, OpRecord, Kind
<1>2. ASSUME NEW r \in OpRecord, r.background = FALSE
      PROVE  /\ [r EXCEPT !.kind = k] \in OpRecord
             /\ [r EXCEPT !.kind = k].kind = k
             /\ [r EXCEPT !.kind = k].background = FALSE
  BY <1>2 DEF OpRecord
<1> QED
  BY <1>1, <1>2

(* A dispatch: what holds its subsystem is out if it is immediate, and the *)
(* operation is held only when nothing else holds it.                      *)
LEMMA DispatchStep ==
    ASSUME LeaseInv, NEW o \in Ops, NEW request \in OpRecord,
           NEW slots \in Families, request.kind \in slots,
           NEW immediately \in BOOLEAN, NEW outcome \in OperationEnd \cup {"held"},
           outcome = "held" => ~Busy(slots, immediately),
           outcome = "held" /\ request.kind = "draw" => request.hold > 0,
           Dispatch(o, request, slots, immediately, outcome)
    PROVE  LeaseInv' /\ ReportStep /\ PromiseStep
<1> DEFINE out == IF immediately THEN HoldersOf(slots) ELSE {}
           left == IF immediately THEN Without(slots) ELSE lease
           ended == outcome # "held"
           over == [NoRequest EXCEPT !.kind = request.kind]
<1> USE DEF LeaseInv
<1>0. slots \subseteq Slots /\ slots # {} /\ request.kind \in Slots
  BY DEF Families, Slots, DisplaySlots
<1>1. o # NoOp /\ FreshOp(o) /\ ~HoldsLease(o) /\ endings[o] = << >> /\ handle[o] = "none"
  <2>1. "none" \notin Slots
    BY DEF Slots, DisplaySlots
  <2>2. FreshOp(o)
    BY DEF Dispatch
  <2> QED
    BY <2>1, <2>2, NoOpAssumption, HolderKind DEF FreshOp, Unreported, FreshUnhandled
<1>2. \A p \in out : p # o /\ p \in Ops /\ HoldsLease(p) /\ op[p].kind \in slots
  <2>1. HoldersOf(slots) \subseteq Ops
    BY <1>0 DEF HoldersOf, Shapes
  <2> QED
    BY <1>0, <1>1, <2>1, HolderKind
<1>3. left \in [Slots -> Ops \cup {NoOp}] /\ \A s \in Slots : left[s] = IF immediately /\ s \in slots THEN NoOp ELSE lease[s]
  BY DEF Without, Shapes
<1>4. /\ now' = now
      /\ lease' = IF ended THEN left ELSE [left EXCEPT ![request.kind] = o]
      /\ op' = [p \in Ops |->
               IF p \in out THEN Spent(p)
               ELSE IF p # o THEN op[p]
               ELSE IF ended THEN over ELSE request]
      /\ handle' = [p \in Ops |->
               IF p \in out \/ (p = o /\ (ended \/ request.background)) THEN "resolved"
               ELSE IF p = o THEN "pending" ELSE handle[p]]
      /\ endings' = [p \in Ops |->
               IF p \in out THEN Append(endings[p], "preempted")
               ELSE IF p = o /\ ended THEN Append(endings[p], outcome) ELSE endings[p]]
  BY DEF Dispatch
<1>5. \A p \in Ops : /\ Spent(p) \in OpRecord /\ Spent(p).kind = op[p].kind
                     /\ Spent(p).background = FALSE
  <2>1. ASSUME NEW p \in Ops
        PROVE  Spent(p) \in OpRecord /\ Spent(p).kind = op[p].kind /\ Spent(p).background = FALSE
    BY SpentRecord DEF Spent, OpRecord, Shapes
  <2> QED
    BY <2>1
<1>6. over \in OpRecord /\ over.kind = request.kind
  BY SpentRecord DEF OpRecord
<1> HIDE DEF over
<1>7. \A p \in Ops : op'[p].kind = IF p = o THEN request.kind ELSE op[p].kind
  BY <1>2, <1>4, <1>5, <1>6
<1>8. \A s \in Slots : lease'[s] = IF ~ended /\ s = request.kind THEN o
                                   ELSE IF immediately /\ s \in slots THEN NoOp ELSE lease[s]
  BY <1>0, <1>3, <1>4
<1>9. ASSUME NEW p \in Ops
      PROVE  HoldsLease(p)' <=> IF p = o THEN ~ended ELSE HoldsLease(p) /\ p \notin out
  <2>1. CASE p = o
    BY <1>0, <1>1, <1>8, <2>1 DEF HoldsLease
  <2>2. CASE p # o /\ HoldsLease(p)'
    BY <1>0, <1>8, <2>2, NoOpAssumption, HolderKind DEF HoldsLease, LeaseKinds
  <2>3. CASE p # o /\ HoldsLease(p) /\ p \notin out
    <3>1. PICK s \in Slots : lease[s] = p
      BY <2>3 DEF HoldsLease
    <3>2. p # NoOp
      BY NoOpAssumption
    <3>3. ~(immediately /\ s \in slots)
      BY <2>3, <3>1, <3>2 DEF HoldersOf
    <3>4. ~(~ended /\ s = request.kind)
      BY <3>1, <3>2, <3>3 DEF Busy, HoldersOf
    <3> QED
      BY <2>3, <3>1, <3>3, <3>4, <1>8 DEF HoldsLease
  <2> QED
    BY <2>1, <2>2, <2>3
<1>10. Shapes'
  <2>1. lease' \in [Slots -> Ops \cup {NoOp}]
    BY <1>0, <1>3, <1>4
  <2>2. op' \in [Ops -> OpRecord]
    BY <1>4, <1>5, <1>6 DEF Shapes
  <2>3. handle' \in [Ops -> Handle]
    BY <1>4 DEF Handle, Shapes
  <2>4. endings' \in [Ops -> Seq(OperationEnd)]
    <3>1. ASSUME NEW p \in Ops, NEW e \in OperationEnd
          PROVE  Append(endings[p], e) \in Seq(OperationEnd)
      BY <3>1 DEF Shapes
    <3>2. "preempted" \in OperationEnd /\ (ended => outcome \in OperationEnd)
      BY DEF OperationEnd
    <3> QED
      BY <1>4, <3>1, <3>2 DEF Shapes
  <2> QED
    BY <2>1, <2>2, <2>3, <2>4, <1>4 DEF Shapes
<1>11. LeaseKinds'
  BY <1>0, <1>1, <1>7, <1>8, NoOpAssumption DEF LeaseKinds, HoldsLease, Shapes
<1>12. Exclusive'
  <2>1. CASE ended
    BY <1>8, <2>1 DEF Exclusive, DisplaySlots, Slots
  <2>2. CASE slots = DisplaySlots /\ ~ended
    <3>1. \A s \in DisplaySlots : lease'[s] # NoOp => s = request.kind
      BY <1>8, <2>2 DEF Busy, HoldersOf, DisplaySlots, Slots
    <3> QED
      BY <3>1 DEF Exclusive
  <2>3. CASE slots = {"play"} /\ ~ended
    BY <1>8, <2>3 DEF Exclusive, DisplaySlots, Slots
  <2> QED
    BY <2>1, <2>2, <2>3 DEF Families
<1>13. DrawsLast'
  <2>1. CASE ~ended /\ request.kind = "draw"
    BY <1>1, <1>2, <1>4, <1>8, <2>1 DEF DrawsLast, Slots, DisplaySlots
  <2>2. CASE ~(~ended /\ request.kind = "draw")
    <3>1. SUFFICES ASSUME lease'["draw"] # NoOp
                   PROVE  op'[lease'["draw"]].hold > 0
      BY DEF DrawsLast
    <3>2. lease'["draw"] = lease["draw"] /\ lease["draw"] \in Ops /\ lease["draw"] # NoOp
      BY <1>8, <2>2, <3>1 DEF Slots, DisplaySlots, Shapes
    <3>3. lease["draw"] # o /\ lease["draw"] \notin out
      BY <1>1, <1>9, <1>8, <3>2, <2>2 DEF Slots, DisplaySlots, HoldsLease
    <3> QED
      BY <1>4, <3>2, <3>3 DEF DrawsLast
  <2> QED
    BY <2>1, <2>2
<1>14. Unreported' /\ FreshUnhandled'
  <2>1. ASSUME NEW p \in Ops
        PROVE  /\ HoldsLease(p)' \/ FreshOp(p)' => endings'[p] = << >> /\ handle'[p] # "gone"
               /\ FreshOp(p)' => handle'[p] = "none"
    <3>1. "none" \notin Slots
      BY DEF Slots, DisplaySlots
    <3>2. CASE p = o
      BY <1>0, <1>1, <1>2, <1>4, <1>7, <1>9, <3>1, <3>2 DEF FreshOp
    <3>3. CASE p # o
      BY <1>0, <1>2, <1>4, <1>7, <1>9, <3>1, <3>3 DEF FreshOp, Unreported, FreshUnhandled
    <3> QED
      BY <3>2, <3>3
  <2> QED
    BY <2>1 DEF Unreported, FreshUnhandled
<1>15. PendingHolds'
  <2>1. ASSUME NEW p \in Ops
        PROVE  handle'[p] = "pending" <=> HoldsLease(p)' /\ ~op'[p].background
    <3>1. CASE p = o
      BY <1>1, <1>2, <1>4, <1>9, <3>1
    <3>2. CASE p \in out
      BY <1>4, <1>9, <1>2, <3>2
    <3>3. CASE p # o /\ p \notin out
      BY <1>4, <1>9, <3>3 DEF PendingHolds
    <3> QED
      BY <3>1, <3>2, <3>3
  <2> QED
    BY <2>1 DEF PendingHolds
<1>16. ReportStep
  BY <1>1, <1>2, <1>4 DEF ReportStep, Unreported
<1>17. PromiseStep
  <2>1. slots = DisplaySlots \/ slots = {"play"}
    BY DEF Families
  <2>2. ASSUME NEW kinds \in Families, kinds # slots
        PROVE  Others(kinds, {})
    <3>1. kinds \cap slots = {}
      BY <2>1, <2>2 DEF Families, DisplaySlots
    <3>2. "none" \notin kinds
      BY DEF Families, DisplaySlots
    <3>3. ASSUME NEW p \in Ops
          PROVE  PhaseOf(p, kinds)' = PhaseOf(p, kinds)
      <4>1. CASE p = o
        BY <1>1, <1>7, <3>1, <3>2, <4>1 DEF PhaseOf, FreshOp
      <4>2. CASE p \in out
        BY <1>2, <1>7, <3>1, <4>2 DEF PhaseOf
      <4>3. CASE p # o /\ p \notin out
        BY <1>4, <1>7, <1>9, <4>3 DEF PhaseOf
      <4> QED
        BY <4>1, <4>2, <4>3
    <3> QED
      BY <3>3 DEF Others
  <2>3. PromiseNext(slots)
    <3>1. "none" \notin slots
      BY DEF Families, DisplaySlots
    <3>2. PhaseOf(o, slots) = "unasked"
      BY <1>1, <3>1 DEF PhaseOf, FreshOp
    <3>3. PhaseOf(o, slots)' = IF ended THEN "ended" ELSE "held"
      <4>1. ended => endings'[o] # << >>
        BY <1>1, <1>2, <1>4
      <4>2. ~ended => endings'[o] = << >>
        BY <1>1, <1>2, <1>4
      <4> QED
        BY <1>7, <1>9, <4>1, <4>2 DEF PhaseOf
    <3>4. ASSUME NEW p \in out
          PROVE  PhaseOf(p, slots) = "held" /\ PhaseOf(p, slots)' = "ended"
      <4>1. endings[p] = << >>
        BY <1>2 DEF Unreported
      <4>2. endings'[p] # << >>
        BY <1>2, <1>4, <4>1, AppendReports DEF Shapes, OperationEnd
      <4> QED
        BY <1>2, <1>7, <4>1, <4>2 DEF PhaseOf
    <3>5. \A p \in Ops : p # o /\ p \notin out => PhaseOf(p, slots)' = PhaseOf(p, slots)
      BY <1>4, <1>7, <1>9 DEF PhaseOf
    <3>6. \A p, q \in out : p = q
      BY OneHolder
    <3>7. out = {} /\ ~ended => NoneHeld(slots)
      BY OneHolder DEF Busy, NoneHeld
    <3>8. CASE out = {}
      BY <3>2, <3>3, <3>5, <3>7, <3>8 DEF PromiseNext, Takes, Others
    <3>9. CASE out # {}
      <4>1. PICK q \in out : TRUE
        BY <3>9
      <4>2. q \in Ops /\ Leaves(slots, q)
        BY <1>2, <3>4, <4>1 DEF Leaves
      <4>3. Others(slots, {o, q})
        BY <3>5, <3>6, <4>1 DEF Others
      <4>4. \E next \in {"held", "ended"} : Takes(slots, o, next)
        BY <3>2, <3>3 DEF Takes
      <4> QED
        BY <4>2, <4>3, <4>4 DEF PromiseNext
    <3> QED
      BY <3>8, <3>9
  <2> QED
    BY <1>4, <2>2, <2>3 DEF PromiseStep, PromiseNext
<1> QED
  BY <1>10, <1>11, <1>12, <1>13, <1>14, <1>15, <1>16, <1>17

(* An ending: every operation that holds one of the slots leaves it.       *)
LEMMA EndStep ==
    ASSUME LeaseInv, NEW slots \in SUBSET Slots, NEW how \in OperationEnd,
           lease' = Without(slots), EndAll(HoldersOf(slots), how), now' = now,
           slots = DisplaySlots \/ \E s \in Slots : slots = {s}
    PROVE  LeaseInv' /\ ReportStep /\ PromiseStep
<1> DEFINE out == HoldersOf(slots)
<1> USE DEF LeaseInv
<1>1. out \subseteq Ops
  BY DEF HoldersOf, Shapes
<1>2. \A p \in out : HoldsLease(p) /\ op[p].kind \in slots /\ endings[p] = << >> /\ handle[p] # "gone"
  BY <1>1, HolderKind DEF Unreported
<1>3. \A s \in Slots : lease'[s] = IF s \in slots THEN NoOp ELSE lease[s]
  BY DEF Without
<1>4. /\ op' = [p \in Ops |-> IF p \in out THEN Spent(p) ELSE op[p]]
      /\ handle' = [p \in Ops |-> IF p \in out THEN "resolved" ELSE handle[p]]
      /\ endings' = [p \in Ops |-> IF p \in out THEN Append(endings[p], how) ELSE endings[p]]
  BY DEF EndAll
<1>5. ASSUME NEW p \in Ops
      PROVE  Spent(p) \in OpRecord /\ Spent(p).kind = op[p].kind
  BY SpentRecord DEF Spent, OpRecord, Shapes
<1>6. \A p \in Ops : op'[p].kind = op[p].kind
  BY <1>4, <1>5
<1>7. ASSUME NEW p \in Ops
      PROVE  HoldsLease(p)' <=> HoldsLease(p) /\ p \notin out
  <2>1. CASE HoldsLease(p)'
    BY <1>3, <2>1, NoOpAssumption, HolderKind DEF HoldsLease, LeaseKinds
  <2>2. CASE HoldsLease(p) /\ p \notin out
    <3>1. PICK s \in Slots : lease[s] = p
      BY <2>2 DEF HoldsLease
    <3>2. s \notin slots
      BY <2>2, <3>1, NoOpAssumption DEF HoldersOf
    <3> QED
      BY <2>2, <3>1, <3>2, <1>3 DEF HoldsLease
  <2> QED
    BY <2>1, <2>2
<1>8. \A p \in out : endings'[p] # << >> /\ endings'[p] \in Seq(OperationEnd)
  BY <1>1, <1>4, AppendReports DEF Shapes
<1>9. Shapes'
  <2>1. lease' \in [Slots -> Ops \cup {NoOp}]
    BY DEF Without, Shapes
  <2>2. op' \in [Ops -> OpRecord]
    BY <1>4, <1>5 DEF Shapes
  <2>3. handle' \in [Ops -> Handle]
    BY <1>4 DEF Handle, Shapes
  <2>4. endings' \in [Ops -> Seq(OperationEnd)]
    BY <1>4, <1>8 DEF Shapes
  <2> QED
    BY <2>1, <2>2, <2>3, <2>4 DEF Shapes
<1>10. LeaseKinds' /\ Exclusive'
  BY <1>3, <1>6 DEF LeaseKinds, Exclusive, Shapes, Slots, DisplaySlots
<1>11. DrawsLast'
  <2>1. SUFFICES ASSUME lease'["draw"] # NoOp
                 PROVE  op'[lease'["draw"]].hold > 0
    BY DEF DrawsLast
  <2>2. lease'["draw"] = lease["draw"] /\ lease["draw"] \in Ops
    BY <1>3, <2>1 DEF Slots, DisplaySlots, Shapes
  <2>3. lease["draw"] \notin out
    BY <1>3, <1>7, <2>1, <2>2 DEF Slots, DisplaySlots, HoldsLease
  <2> QED
    BY <1>4, <2>1, <2>2, <2>3 DEF DrawsLast
<1>12. Unreported' /\ FreshUnhandled'
  <2>1. ASSUME NEW p \in Ops
        PROVE  /\ HoldsLease(p)' \/ FreshOp(p)' => endings'[p] = << >> /\ handle'[p] # "gone"
               /\ FreshOp(p)' => handle'[p] = "none"
    <3>1. "none" \notin Slots
      BY DEF Slots, DisplaySlots
    <3> QED
      BY <1>2, <1>4, <1>6, <1>7, <3>1 DEF FreshOp, Unreported, FreshUnhandled
  <2> QED
    BY <2>1 DEF Unreported, FreshUnhandled
<1>13. PendingHolds'
  <2>1. ASSUME NEW p \in Ops
        PROVE  handle'[p] = "pending" <=> HoldsLease(p)' /\ ~op'[p].background
    BY <1>4, <1>7 DEF PendingHolds
  <2> QED
    BY <2>1 DEF PendingHolds
<1>14. ReportStep
  BY <1>2, <1>4 DEF ReportStep
<1>15. ASSUME NEW kinds \in Families
       PROVE  PromiseNext(kinds)
  <2>1. ASSUME NEW p \in Ops
        PROVE  PhaseOf(p, kinds)' = IF p \in out /\ op[p].kind \in kinds THEN "ended" ELSE PhaseOf(p, kinds)
    <3>1. CASE p \in out
      BY <1>6, <1>8, <3>1 DEF PhaseOf
    <3>2. CASE p \notin out
      BY <1>4, <1>6, <1>7, <3>2 DEF PhaseOf
    <3> QED
      BY <3>1, <3>2
  <2>2. CASE \E q \in out : op[q].kind \in kinds
    <3>1. PICK q \in out : op[q].kind \in kinds
      BY <2>2
    <3>2. Leaves(kinds, q)
      BY <1>1, <1>2, <2>1, <3>1 DEF Leaves, PhaseOf
    <3>3. ASSUME NEW p \in Ops, p \in out, op[p].kind \in kinds
          PROVE  p = q
      <4>1. kinds \subseteq Slots
        BY DEF Families, Slots, DisplaySlots
      <4>2. p \in HoldersOf(kinds) /\ q \in HoldersOf(kinds)
        BY <1>1, <1>2, <3>1, <3>3, <4>1, HolderKind
      <4> QED
        BY <4>2, OneHolder
    <3>4. Others(kinds, {q})
      BY <2>1, <3>3 DEF Others
    <3> QED
      BY <1>1, <3>1, <3>2, <3>4 DEF PromiseNext
  <2>3. CASE ~ \E q \in out : op[q].kind \in kinds
    BY <2>1, <2>3 DEF Others, PromiseNext
  <2> QED
    BY <2>2, <2>3
<1> QED
  BY <1>9, <1>10, <1>11, <1>12, <1>13, <1>14, <1>15 DEF PromiseStep

(* A step that renders: the leases, the handles and the reports stay.      *)
LEMMA QuietStep ==
    ASSUME LeaseInv, UNCHANGED <<lease, handle, endings>>,
           now' \in Nat, now' >= now, op' \in [Ops -> OpRecord],
           \A o \in Ops : /\ op'[o].kind = op[o].kind
                          /\ op'[o].background = op[o].background
                          /\ op'[o].hold = op[o].hold
    PROVE  LeaseInv' /\ ReportStep /\ PromiseStep
<1> USE DEF LeaseInv
<1>1. \A o \in Ops : (HoldsLease(o)' <=> HoldsLease(o)) /\ (FreshOp(o)' <=> FreshOp(o))
  BY DEF HoldsLease, FreshOp
<1>2. Shapes' /\ LeaseKinds' /\ Exclusive' /\ DrawsLast'
  <2>1. Shapes'
    BY DEF Shapes
  <2>2. LeaseKinds' /\ Exclusive' /\ DrawsLast'
    BY DEF LeaseKinds, Exclusive, DrawsLast, Shapes, Slots, DisplaySlots
  <2> QED
    BY <2>1, <2>2
<1>3. Unreported' /\ FreshUnhandled' /\ PendingHolds'
  BY <1>1 DEF Unreported, FreshUnhandled, PendingHolds
<1>4. ReportStep
  BY DEF ReportStep
<1>5. ASSUME NEW kinds \in Families
      PROVE  Others(kinds, {}) /\ PromiseNext(kinds)
  BY <1>1 DEF Others, PhaseOf, PromiseNext
<1>6. PromiseStep
  BY <1>5 DEF PromiseStep, Shapes
<1> QED
  BY <1>2, <1>3, <1>4, <1>6

(* A reset drops every lease, and the handles with it, without a report.   *)
LEMMA ResetStep ==
    ASSUME LeaseInv, ResetDevice
    PROVE  LeaseInv' /\ ReportStep /\ PromiseStep
<1> USE DEF LeaseInv
<1>1. /\ now' = 0 /\ endings' = endings
      /\ \A s \in Slots : lease'[s] = NoOp
      /\ lease' \in [Slots -> Ops \cup {NoOp}]
      /\ handle' = [o \in Ops |-> IF handle[o] = "pending" THEN "gone" ELSE handle[o]]
      /\ op' = [o \in Ops |-> IF HoldsLease(o) THEN Spent(o) ELSE op[o]]
  BY DEF ResetDevice, Free
<1>2. \A o \in Ops : ~HoldsLease(o)'
  BY <1>1, NoOpAssumption DEF HoldsLease
<1>3. ASSUME NEW p \in Ops
      PROVE  Spent(p) \in OpRecord /\ Spent(p).kind = op[p].kind
  BY SpentRecord DEF Spent, OpRecord, Shapes
<1>4. \A p \in Ops : op'[p].kind = op[p].kind
  BY <1>1, <1>3
<1>5. Shapes'
  <2>1. op' \in [Ops -> OpRecord]
    BY <1>1, <1>3 DEF Shapes
  <2>2. handle' \in [Ops -> Handle]
    BY <1>1 DEF Handle, Shapes
  <2> QED
    BY <1>1, <2>1, <2>2 DEF Shapes
<1>6. LeaseKinds' /\ Exclusive' /\ DrawsLast'
  BY <1>1 DEF LeaseKinds, Exclusive, DrawsLast, Slots, DisplaySlots
<1>7. ASSUME NEW p \in Ops
      PROVE  FreshOp(p)' => endings'[p] = << >> /\ handle'[p] = "none"
  BY <1>1, <1>4 DEF FreshOp, Unreported, FreshUnhandled
<1>8. Unreported' /\ FreshUnhandled'
  BY <1>2, <1>7 DEF Unreported, FreshUnhandled
<1>9. PendingHolds'
  BY <1>1, <1>2 DEF PendingHolds
<1>10. ReportStep
  BY <1>1 DEF ReportStep
<1>11. ASSUME NEW kinds \in Families, NEW p \in Ops
       PROVE  PhaseOf(p, kinds)' = IF PhaseOf(p, kinds) = "held" THEN "lost" ELSE PhaseOf(p, kinds)
  BY <1>1, <1>2, <1>4 DEF PhaseOf
<1>12. PromiseStep
  BY <1>1, <1>11 DEF PromiseStep, PromiseReset
<1> QED
  BY <1>5, <1>6, <1>8, <1>9, <1>10, <1>12

-----------------------------------------------------------------------------
(* The actions are such steps.                                             *)
LEMMA RequestRecord ==
    ASSUME Shapes, NEW kind \in Kind, NEW length \in Int, NEW hold \in Int,
           NEW rendered \in Int, NEW background \in BOOLEAN
    PROVE  /\ Request(kind, length, hold, rendered, background) \in OpRecord
           /\ Request(kind, length, hold, rendered, background).kind = kind
           /\ Request(kind, length, hold, rendered, background).hold = hold
  BY DEF Request, OpRecord, Shapes

LEMMA ScrollStep ==
    ASSUME LeaseInv, NEW o \in Ops, NEW n \in TextLengths,
           NEW immediately \in BOOLEAN, NEW background \in BOOLEAN,
           DisplayScroll(o, n, immediately, background)
    PROVE  LeaseInv' /\ ReportStep /\ PromiseStep
<1> DEFINE kind == IF n = 1 THEN "show" ELSE "scroll"
           request == Request(kind, n, ScrollSteps(n), 0, background)
           outcome == TextOutcome(immediately)
<1>1. kind \in DisplaySlots /\ kind \in Kind /\ kind # "draw"
  BY DEF Kind, Slots, DisplaySlots
<1>2. n \in Int /\ ScrollSteps(n) \in Int
  BY DeviceAssumption DEF ScrollSteps, StepsPerCharacter
<1>3. request \in OpRecord /\ request.kind = kind
  BY <1>1, <1>2, RequestRecord DEF LeaseInv
<1>4. outcome \in OperationEnd \cup {"held"} /\ (outcome = "held" => ~Busy(DisplaySlots, immediately))
  BY DEF TextOutcome, OperationEnd
<1>5. Dispatch(o, request, DisplaySlots, immediately, outcome)
  BY DEF DisplayScroll
<1> HIDE DEF request, outcome, kind
<1>6. request.kind \in DisplaySlots /\ request.kind # "draw" /\ DisplaySlots \in Families
  BY <1>1, <1>3 DEF Families
<1> QED
  BY <1>3, <1>4, <1>5, <1>6, DispatchStep

LEMMA DrawStep ==
    ASSUME LeaseInv, NEW o \in Ops, NEW images \in Nat, NEW duration \in Int,
           NEW immediately \in BOOLEAN, NEW background \in BOOLEAN,
           DrawImage(o, images, duration, immediately, background)
    PROVE  LeaseInv' /\ ReportStep /\ PromiseStep
<1> DEFINE request == Request("draw", FramesOf(images), Hold(duration), 1, background)
           outcome == DrawOutcome(Hold(duration), immediately)
<1>1. "draw" \in DisplaySlots /\ "draw" \in Kind
  BY DEF Kind, Slots, DisplaySlots
<1>2. FramesOf(images) \in Int /\ Hold(duration) \in Int /\ Hold(duration) >= 0
  BY DEF FramesOf, Hold
<1>3. request \in OpRecord /\ request.kind = "draw" /\ request.hold = Hold(duration)
  BY <1>1, <1>2, RequestRecord DEF LeaseInv
<1>4. /\ outcome \in OperationEnd \cup {"held"}
      /\ outcome = "held" => ~Busy(DisplaySlots, immediately) /\ Hold(duration) # 0
  BY DEF DrawOutcome, OperationEnd
<1>5. Dispatch(o, request, DisplaySlots, immediately, outcome)
  BY DEF DrawImage
<1> HIDE DEF request, outcome
<1>6. request.kind \in DisplaySlots /\ DisplaySlots \in Families
  BY <1>1, <1>3 DEF Families
<1>7. outcome = "held" /\ request.kind = "draw" => request.hold > 0
  BY <1>2, <1>3, <1>4
<1> QED
  BY <1>3, <1>4, <1>5, <1>6, <1>7, DispatchStep

(* What a play is dispatched as, whatever became of it.                    *)
LEMMA PlayStep ==
    ASSUME LeaseInv, NEW o \in Ops, NEW duration \in Int,
           NEW immediately \in BOOLEAN, NEW background \in BOOLEAN,
           NEW outcome \in {"held", "dropped"},
           outcome = "held" => ~Busy({"play"}, immediately),
           Dispatch(o, Request("play", 1, duration, 0, background), {"play"}, immediately, outcome)
    PROVE  LeaseInv' /\ ReportStep /\ PromiseStep
<1> DEFINE request == Request("play", 1, duration, 0, background)
<1>1. request \in OpRecord /\ request.kind = "play"
  <2>1. "play" \in Kind
    BY DEF Kind, Slots
  <2> QED
    BY <2>1, RequestRecord DEF LeaseInv
<1>2. Dispatch(o, request, {"play"}, immediately, outcome)
  OBVIOUS
<1> HIDE DEF request
<1>3. request.kind \in {"play"} /\ request.kind # "draw" /\ {"play"} \in Families
  BY <1>1 DEF Families
<1>4. outcome \in OperationEnd \cup {"held"}
  BY DEF OperationEnd
<1> QED
  BY <1>1, <1>2, <1>3, <1>4, DispatchStep

LEMMA ToneStep ==
    ASSUME LeaseInv, NEW o \in Ops, NEW duration \in Int,
           NEW immediately \in BOOLEAN, NEW background \in BOOLEAN,
           PlayTone(o, duration, immediately, background)
    PROVE  LeaseInv' /\ ReportStep /\ PromiseStep
<1>1. /\ ToneOutcome(duration, immediately) \in {"held", "dropped"}
      /\ ToneOutcome(duration, immediately) = "held" => ~Busy({"play"}, immediately)
  BY DEF ToneOutcome
<1> QED
  BY <1>1, PlayStep DEF PlayTone

LEMMA SoundStep ==
    ASSUME LeaseInv, NEW o \in Ops, NEW known \in BOOLEAN,
           NEW immediately \in BOOLEAN, NEW background \in BOOLEAN,
           PlaySound(o, known, immediately, background)
    PROVE  LeaseInv' /\ ReportStep /\ PromiseStep
<1>1. /\ SoundOutcome(known, immediately) \in {"held", "dropped"}
      /\ SoundOutcome(known, immediately) = "held" => ~Busy({"play"}, immediately)
  BY DEF SoundOutcome
<1>2. SoundLength \in Int
  BY DeviceAssumption
<1> QED
  BY <1>1, <1>2, PlayStep DEF PlaySound

LEMMA ApiToneStep ==
    ASSUME LeaseInv, NEW o \in Ops, NEW wave \in BOOLEAN, NEW duration \in Int,
           NEW immediately \in BOOLEAN, NEW background \in BOOLEAN,
           ApiPlayTone(o, wave, duration, immediately, background)
    PROVE  LeaseInv' /\ ReportStep /\ PromiseStep
<1>1. CASE wave
  BY <1>1, ToneStep DEF ApiPlayTone
<1>2. CASE ~wave
  BY <1>2, PlayStep DEF ApiPlayTone
<1> QED
  BY <1>1, <1>2

LEMMA ClearStep ==
    ASSUME LeaseInv, DisplayClear
    PROVE  LeaseInv' /\ ReportStep /\ PromiseStep
<1>1. DisplaySlots \in SUBSET Slots /\ "preempted" \in OperationEnd
  BY DEF Slots, OperationEnd
<1>2. lease' = Without(DisplaySlots) /\ EndAll(HoldersOf(DisplaySlots), "preempted") /\ now' = now
  BY DEF DisplayClear
<1> QED
  BY <1>1, <1>2, EndStep

(* A release of a slot that is held.                                       *)
LEMMA ReleaseStep ==
    ASSUME LeaseInv, NEW slot \in Slots, lease[slot] # NoOp, Release(slot, "completed"), now' = now
    PROVE  LeaseInv' /\ ReportStep /\ PromiseStep
<1>1. {slot} \in SUBSET Slots /\ "completed" \in OperationEnd
  BY DEF OperationEnd
<1>2. HoldersOf({slot}) = {lease[slot]}
  BY DEF HoldersOf
<1>3. lease' = Without({slot}) /\ EndAll(HoldersOf({slot}), "completed")
  BY <1>2 DEF Release
<1> QED
  BY <1>1, <1>3, EndStep

(* A step that repaints: of the operations, at most one's count changes.   *)
LEMMA RenderStep ==
    ASSUME LeaseInv, NEW o \in Ops, NEW rendered \in Int,
           op' = [op EXCEPT ![o].rendered = rendered],
           UNCHANGED <<now, lease, handle, endings>>
    PROVE  LeaseInv' /\ ReportStep /\ PromiseStep
<1>1. op \in [Ops -> OpRecord] /\ now \in Nat
  BY DEF LeaseInv, Shapes
<1>2. /\ op' \in [Ops -> OpRecord]
      /\ \A p \in Ops : /\ op'[p].kind = op[p].kind
                        /\ op'[p].background = op[p].background
                        /\ op'[p].hold = op[p].hold
  BY <1>1 DEF OpRecord
<1> QED
  BY <1>1, <1>2, QuietStep

LEMMA IdleStep ==
    ASSUME LeaseInv, UNCHANGED <<lease, op, handle, endings>>, now' \in Nat, now' >= now
    PROVE  LeaseInv' /\ ReportStep /\ PromiseStep
  BY QuietStep DEF LeaseInv, Shapes

LEMMA AdvanceDrawStep ==
    ASSUME LeaseInv, AdvanceDraw
    PROVE  LeaseInv' /\ ReportStep /\ PromiseStep
<1> DEFINE o == lease["draw"]
           painted == IF op[o].rendered <= FrameDue(o) THEN FrameDue(o) + 1 ELSE op[o].rendered
<1>1. "draw" \in Slots /\ o # NoOp /\ now' = now
  BY DEF AdvanceDraw, EndThink, Slots, DisplaySlots
<1>2. o \in Ops
  BY <1>1 DEF LeaseInv, Shapes
<1>3. CASE DrawOver(o)
  BY <1>1, <1>3, ReleaseStep DEF AdvanceDraw
<1>4. CASE ~DrawOver(o)
  <2>1. op[o] \in OpRecord /\ op[o].hold > 0 /\ now \in Int
    BY <1>1, <1>2 DEF LeaseInv, Shapes, DrawsLast
  <2>2. (now - op[o].start) \div op[o].hold \in Int
    BY <2>1 DEF OpRecord
  <2>3. painted \in Int
    BY <2>1, <2>2 DEF FrameDue, OpRecord
  <2>4. op' = [op EXCEPT ![o].rendered = painted] /\ UNCHANGED <<lease, handle, endings>>
    BY <1>4 DEF AdvanceDraw
  <2> HIDE DEF painted
  <2> QED
    BY <1>1, <1>2, <2>3, <2>4, RenderStep
<1> QED
  BY <1>3, <1>4

LEMMA AdvanceShowStep ==
    ASSUME LeaseInv, AdvanceShow
    PROVE  LeaseInv' /\ ReportStep /\ PromiseStep
<1> DEFINE o == lease["show"]
<1>1. "show" \in Slots /\ o # NoOp /\ now' = now /\ now \in Nat
  BY DEF AdvanceShow, EndThink, Slots, DisplaySlots, LeaseInv, Shapes
<1>2. CASE now < op[o].start + op[o].hold
  BY <1>1, <1>2, IdleStep DEF AdvanceShow
<1>3. CASE ~(now < op[o].start + op[o].hold)
  BY <1>1, <1>3, ReleaseStep DEF AdvanceShow
<1> QED
  BY <1>2, <1>3

LEMMA AdvanceScrollStep ==
    ASSUME LeaseInv, AdvanceScroll
    PROVE  LeaseInv' /\ ReportStep /\ PromiseStep
<1> DEFINE o == lease["scroll"]
           steps == IF StepDue(o) > op[o].rendered THEN StepDue(o) ELSE op[o].rendered
<1>1. "scroll" \in Slots /\ o # NoOp /\ now' = now
  BY DEF AdvanceScroll, EndThink, Slots, DisplaySlots
<1>2. o \in Ops
  BY <1>1 DEF LeaseInv, Shapes
<1>3. CASE steps >= op[o].hold
  BY <1>1, <1>3, ReleaseStep DEF AdvanceScroll
<1>4. CASE ~(steps >= op[o].hold)
  <2>1. op[o] \in OpRecord /\ now \in Int
    BY <1>2 DEF LeaseInv, Shapes
  <2>2. steps \in Int
    BY <2>1 DEF StepDue, OpRecord
  <2>3. op' = [op EXCEPT ![o].rendered = steps] /\ UNCHANGED <<lease, handle, endings>>
    BY <1>4 DEF AdvanceScroll
  <2> HIDE DEF steps
  <2> QED
    BY <1>1, <1>2, <2>2, <2>3, RenderStep
<1> QED
  BY <1>3, <1>4

LEMMA AdvancePlayStep ==
    ASSUME LeaseInv, AdvancePlay
    PROVE  LeaseInv' /\ ReportStep /\ PromiseStep
<1> DEFINE o == lease["play"]
<1>1. "play" \in Slots /\ now' = now /\ now \in Nat
  BY DEF AdvancePlay, Slots, LeaseInv, Shapes
<1>2. CASE o = NoOp \/ now < op[o].start + op[o].hold
  BY <1>1, <1>2, IdleStep DEF AdvancePlay
<1>3. CASE ~(o = NoOp \/ now < op[o].start + op[o].hold)
  BY <1>1, <1>3, ReleaseStep DEF AdvancePlay
<1> QED
  BY <1>2, <1>3

(* The clock only moves on, since it does not wrap.                        *)
LEMMA TickStep ==
    ASSUME ~MayWrap, LeaseInv, NEW milliseconds \in TickLengths, Tick(milliseconds)
    PROVE  LeaseInv' /\ ReportStep /\ PromiseStep
<1>1. now \in Nat /\ milliseconds \in Nat /\ Modulus \in Nat \ {0} /\ now + milliseconds < Modulus
  BY DeviceAssumption DEF Tick, LeaseInv, Shapes
<1>2. now' = now + milliseconds
  <2>1. \A a, m \in Nat : a < m => a % m = a
    OBVIOUS
  <2> QED
    BY <1>1, <2>1 DEF Tick
<1> QED
  BY <1>1, <1>2, IdleStep DEF Tick

(* Every step keeps the invariant, reports soundly and keeps the promise.  *)
LEMMA NextStep ==
    ASSUME ~MayWrap, LeaseInv, [Next]_vars
    PROVE  LeaseInv' /\ ReportStep /\ PromiseStep
<1>1. now \in Nat
  BY DEF LeaseInv, Shapes
<1>2. ASSUME NEW o \in Ops, NEW immediately \in BOOLEAN, NEW background \in BOOLEAN
      PROVE  /\ \A n \in TextLengths : DisplayScroll(o, n, immediately, background)
                  => LeaseInv' /\ ReportStep /\ PromiseStep
             /\ \A n \in FrameCounts, d \in Durations : DrawImage(o, n, d, immediately, background)
                  => LeaseInv' /\ ReportStep /\ PromiseStep
             /\ \A d \in Durations : PlayTone(o, d, immediately, background)
                  => LeaseInv' /\ ReportStep /\ PromiseStep
             /\ \A known \in BOOLEAN : PlaySound(o, known, immediately, background)
                  => LeaseInv' /\ ReportStep /\ PromiseStep
             /\ \A n \in TextLengths : ApiScrollText(o, n, immediately, background)
                  => LeaseInv' /\ ReportStep /\ PromiseStep
             /\ \A d \in Durations : ApiDrawImage(o, d, immediately, background)
                  => LeaseInv' /\ ReportStep /\ PromiseStep
             /\ \A wave \in BOOLEAN, d \in Durations : ApiPlayTone(o, wave, d, immediately, background)
                  => LeaseInv' /\ ReportStep /\ PromiseStep
             /\ \A known \in BOOLEAN : ApiPlaySound(o, known, immediately, background)
                  => LeaseInv' /\ ReportStep /\ PromiseStep
  <2>1. FrameCounts \subseteq Nat /\ Durations \subseteq Int
    BY DeviceAssumption
  <2>2. \A n \in TextLengths : ApiScrollText(o, n, immediately, background)
                  => LeaseInv' /\ ReportStep /\ PromiseStep
    BY ScrollStep DEF ApiScrollText
  <2>3. \A d \in Durations : ApiDrawImage(o, d, immediately, background)
                  => LeaseInv' /\ ReportStep /\ PromiseStep
    BY <2>1, DrawStep DEF ApiDrawImage
  <2>4. \A known \in BOOLEAN : ApiPlaySound(o, known, immediately, background)
                  => LeaseInv' /\ ReportStep /\ PromiseStep
    BY SoundStep DEF ApiPlaySound
  <2> QED
    BY <2>1, <2>2, <2>3, <2>4, ScrollStep, DrawStep, ToneStep, SoundStep, ApiToneStep
<1>3. CASE Think
  <2>1. CASE \E o \in Ops, immediately, background \in BOOLEAN :
        \/ \E n \in TextLengths : DisplayScroll(o, n, immediately, background)
        \/ \E n \in FrameCounts, d \in Durations : DrawImage(o, n, d, immediately, background)
        \/ \E d \in Durations : PlayTone(o, d, immediately, background)
        \/ \E known \in BOOLEAN : PlaySound(o, known, immediately, background)
        \/ \E n \in TextLengths : ApiScrollText(o, n, immediately, background)
        \/ \E d \in Durations : ApiDrawImage(o, d, immediately, background)
        \/ \E wave \in BOOLEAN, d \in Durations : ApiPlayTone(o, wave, d, immediately, background)
        \/ \E known \in BOOLEAN : ApiPlaySound(o, known, immediately, background)
    BY <1>2, <2>1
  <2>2. CASE DisplayClear \/ ApiClear
    BY <2>2, ClearStep DEF ApiClear
  <2>3. CASE \E x \in Pixels : DisplaySetPixel(x) \/ ApiSetPixelValue(x)
    BY <1>1, <2>3, IdleStep DEF ApiSetPixelValue, DisplaySetPixel
  <2> QED
    BY <1>3, <2>1, <2>2, <2>3 DEF Think
<1>4. CASE AdvanceIdle
  BY <1>1, <1>4, IdleStep DEF AdvanceIdle, EndThink
<1>5. CASE Load \/ Unload
  BY <1>5, ResetStep DEF Load, Unload
<1>6. CASE \E milliseconds \in TickLengths : Tick(milliseconds)
  BY <1>6, TickStep
<1>7. CASE UNCHANGED vars
  BY <1>1, <1>7, IdleStep DEF vars
<1> QED
  BY <1>3, <1>4, <1>5, <1>6, <1>7, AdvanceDrawStep, AdvanceShowStep, AdvanceScrollStep,
     AdvancePlayStep DEF Next, Settle

LEMMA InitLease == Init => LeaseInv
<1> SUFFICES ASSUME Init PROVE LeaseInv
  OBVIOUS
<1>1. \A o \in Ops : op[o] = NoRequest /\ handle[o] = "none" /\ endings[o] = << >>
  BY DEF Init
<1>2. \A s \in Slots : lease[s] = NoOp
  BY DEF Init, Free
<1>3. \A o \in Ops : ~HoldsLease(o)
  BY <1>2, NoOpAssumption DEF HoldsLease
<1>4. Shapes
  <2>1. NoRequest \in OpRecord
    BY DEF NoRequest, OpRecord, Kind
  <2>2. << >> \in Seq(OperationEnd)
    BY EmptySeq
  <2> QED
    BY <2>1, <2>2 DEF Init, Free, Shapes, Handle
<1>5. LeaseKinds /\ Exclusive /\ DrawsLast
  BY <1>2 DEF LeaseKinds, Exclusive, DrawsLast, Slots, DisplaySlots
<1>6. Unreported /\ FreshUnhandled /\ PendingHolds
  BY <1>1, <1>3 DEF Unreported, FreshUnhandled, PendingHolds
<1> QED
  BY <1>4, <1>5, <1>6 DEF LeaseInv

-----------------------------------------------------------------------------
(* The invariant holds in every reachable state.                           *)
THEOREM LeaseInvariant ==
    ASSUME ~MayWrap
    PROVE  Spec => []LeaseInv
<1>1. LeaseInv /\ [Next]_vars => LeaseInv'
  BY NextStep
<1> QED
  BY InitLease, <1>1, PTL DEF Spec

(* A call that waits never waits for nothing: a handle is pending exactly   *)
(* while its operation holds the display or the speaker (display.preempt,   *)
(* the advances, a refused offer, a background dispatch).                  *)
THEOREM WaitsForSomething ==
    ASSUME ~MayWrap
    PROVE  Spec => []PendingHolds
<1>0. Spec => []LeaseInv
  BY LeaseInvariant
<1>1. LeaseInv => PendingHolds
  BY DEF LeaseInv
<1> QED
  BY <1>0, <1>1, PTL

(* The three display renderings exclude one another (isBusy), so the poll   *)
(* that advances them in a fixed order never advances two.                 *)
THEOREM RenderingsExclude ==
    ASSUME ~MayWrap
    PROVE  Spec => []OneRendering
<1>0. Spec => []LeaseInv
  BY LeaseInvariant
<1>1. LeaseInv => OneRendering
  <2>1. SUFFICES ASSUME LeaseInv PROVE OneRendering
    OBVIOUS
  <2>2. \A o, p \in HoldersOf(DisplaySlots) : o = p
    BY <2>1, OneHolder DEF Families
  <2>3. CASE HoldersOf(DisplaySlots) = {}
    BY <2>3, FS_EmptySet DEF OneRendering
  <2>4. CASE HoldersOf(DisplaySlots) # {}
    <3>1. PICK o \in HoldersOf(DisplaySlots) : TRUE
      BY <2>4
    <3>2. HoldersOf(DisplaySlots) = {o}
      BY <2>2, <3>1
    <3>3. Cardinality({o}) = 1
      BY FS_Singleton
    <3> QED
      BY <3>2, <3>3 DEF OneRendering
  <2> QED
    BY <2>3, <2>4
<1> QED
  BY <1>0, <1>1, PTL

(* No operation is reported twice, and none after its device was reset.    *)
THEOREM ReportedOnce ==
    ASSUME ~MayWrap
    PROVE  Spec => OneReport
<1>0. Spec => []LeaseInv
  BY LeaseInvariant
<1>1. LeaseInv /\ [Next]_vars => [ReportStep]_vars
  BY NextStep
<1> QED
  BY <1>0, <1>1, PTL DEF Spec, OneReport, ReportStep

-----------------------------------------------------------------------------
(* The promise's steps on whole functions, as OperationLease states them.  *)
Phases(kinds) == [o \in Ops |-> PhaseOf(o, kinds)]
LeaseStep(kinds) ==
    \/ /\ now' = now
       /\ \/ \E o \in Ops, next \in {"held", "ended"} :
               /\ Phases(kinds)[o] = "unasked"
               /\ next = "held" => {p \in Ops : Phases(kinds)[p] = "held"} = {}
               /\ Phases(kinds)' = [Phases(kinds) EXCEPT ![o] = next]
          \/ \E o, q \in Ops, next \in {"held", "ended"} :
               /\ Phases(kinds)[q] = "held" /\ Phases(kinds)[o] = "unasked"
               /\ Phases(kinds)' = [Phases(kinds) EXCEPT ![q] = "ended", ![o] = next]
          \/ \E o \in Ops :
               /\ Phases(kinds)[o] = "held"
               /\ Phases(kinds)' = [Phases(kinds) EXCEPT ![o] = "ended"]
          \/ Phases(kinds)' = Phases(kinds)
    \/ now' > now /\ Phases(kinds)' = Phases(kinds)
    \/ /\ now' = 0
       /\ Phases(kinds)' = [o \in Ops |-> IF Phases(kinds)[o] = "held" THEN "lost" ELSE Phases(kinds)[o]]

LEMMA StepOfLease ==
    ASSUME PromiseStep, NEW kinds \in Families
    PROVE  LeaseStep(kinds)
<1> DEFINE was == Phases(kinds)
<1>1. /\ was = [o \in Ops |-> PhaseOf(o, kinds)]
      /\ was' = [o \in Ops |-> PhaseOf(o, kinds)']
      /\ \A o \in Ops : was[o] = PhaseOf(o, kinds)
  BY DEF Phases
<1>2. Others(kinds, {}) => was' = was
  BY <1>1 DEF Others
<1>3. CASE now' = now /\ PromiseNext(kinds)
  <2>1. CASE \E o \in Ops, next \in {"held", "ended"} :
               Takes(kinds, o, next) /\ (next = "held" => NoneHeld(kinds)) /\ Others(kinds, {o})
    <3>1. PICK o \in Ops, next \in {"held", "ended"} :
               Takes(kinds, o, next) /\ (next = "held" => NoneHeld(kinds)) /\ Others(kinds, {o})
      BY <2>1
    <3>2. was' = [was EXCEPT ![o] = next]
      BY <1>1, <3>1 DEF Takes, Others
    <3>3. was[o] = "unasked" /\ (next = "held" => {p \in Ops : was[p] = "held"} = {})
      BY <1>1, <3>1 DEF Takes, NoneHeld
    <3> QED
      BY <1>3, <3>2, <3>3 DEF LeaseStep
  <2>2. CASE \E o, q \in Ops, next \in {"held", "ended"} :
               Takes(kinds, o, next) /\ Leaves(kinds, q) /\ Others(kinds, {o, q})
    <3>1. PICK o \in Ops, q \in Ops, next \in {"held", "ended"} :
               Takes(kinds, o, next) /\ Leaves(kinds, q) /\ Others(kinds, {o, q})
      BY <2>2
    <3>2. was[o] = "unasked" /\ was[q] = "held"
      BY <1>1, <3>1 DEF Takes, Leaves
    <3>3. was' = [was EXCEPT ![q] = "ended", ![o] = next]
      BY <1>1, <3>1, <3>2 DEF Takes, Leaves, Others
    <3> QED
      BY <1>3, <3>2, <3>3 DEF LeaseStep
  <2>3. CASE \E o \in Ops : Leaves(kinds, o) /\ Others(kinds, {o})
    <3>1. PICK o \in Ops : Leaves(kinds, o) /\ Others(kinds, {o})
      BY <2>3
    <3>2. was[o] = "held" /\ was' = [was EXCEPT ![o] = "ended"]
      BY <1>1, <3>1 DEF Leaves, Others
    <3> QED
      BY <1>3, <3>2 DEF LeaseStep
  <2> QED
    BY <1>2, <1>3, <2>1, <2>2, <2>3 DEF PromiseNext, LeaseStep
<1>4. CASE now' > now /\ Others(kinds, {})
  BY <1>2, <1>4 DEF LeaseStep
<1>5. CASE now' = 0 /\ PromiseReset(kinds)
  <2>1. was' = [o \in Ops |-> IF was[o] = "held" THEN "lost" ELSE was[o]]
    BY <1>1, <1>5 DEF PromiseReset
  <2> QED
    BY <1>5, <2>1 DEF LeaseStep
<1> QED
  BY <1>3, <1>4, <1>5 DEF PromiseStep

LEMMA InitOfLease ==
    ASSUME Init, NEW kinds \in Families
    PROVE  Phases(kinds) = [o \in Ops |-> "unasked"] /\ now = 0
<1>1. \A o \in Ops : op[o].kind = "none"
  BY DEF Init, NoRequest
<1>2. "none" \notin kinds
  BY DEF Families, DisplaySlots
<1> QED
  BY <1>1, <1>2 DEF Phases, PhaseOf, Init

(* The display is a leased subsystem as operation-end.ts promises it: one   *)
(* operation at a time, each reported once, only a reset loses one.        *)
THEOREM DisplayKeepsPromise ==
    ASSUME ~MayWrap
    PROVE  Spec => DisplayLease
<1>0. Spec => []LeaseInv
  BY LeaseInvariant
<1>1. Phases(DisplaySlots) = [o \in Ops |-> PhaseOf(o, DisplaySlots)]
  BY DEF Phases
<1>2. Init => Display!LeaseInit
  <2>1. DisplaySlots \in Families
    BY DEF Families
  <2> QED
    BY <1>1, <2>1, InitOfLease DEF Display!LeaseInit
<1>3. LeaseInv /\ [Next]_vars => [Display!LeaseNext]_<<[o \in Ops |-> PhaseOf(o, DisplaySlots)], now>>
  <2>1. SUFFICES ASSUME LeaseInv, [Next]_vars
                 PROVE  Display!LeaseNext \/ UNCHANGED <<Phases(DisplaySlots), now>>
    BY DEF Phases
  <2>2. LeaseStep(DisplaySlots)
    BY <2>1, NextStep, StepOfLease DEF Families
  <2> QED
    BY <2>2 DEF LeaseStep, Phases, Display!LeaseNext, Display!Offer, Display!Supersede,
       Display!Release, Display!Pass, Display!PowerOnReset, Display!Held
<1> QED
  BY <1>0, <1>2, <1>3, PTL DEF Spec, DisplayLease, Display!LeaseSpec

(* So is the speaker.                                                      *)
THEOREM SpeakerKeepsPromise ==
    ASSUME ~MayWrap
    PROVE  Spec => SpeakerLease
<1>0. Spec => []LeaseInv
  BY LeaseInvariant
<1>1. Phases({"play"}) = [o \in Ops |-> PhaseOf(o, {"play"})]
  BY DEF Phases
<1>2. Init => Speaker!LeaseInit
  <2>1. {"play"} \in Families
    BY DEF Families
  <2> QED
    BY <1>1, <2>1, InitOfLease DEF Speaker!LeaseInit
<1>3. LeaseInv /\ [Next]_vars => [Speaker!LeaseNext]_<<[o \in Ops |-> PhaseOf(o, {"play"})], now>>
  <2>1. SUFFICES ASSUME LeaseInv, [Next]_vars
                 PROVE  Speaker!LeaseNext \/ UNCHANGED <<Phases({"play"}), now>>
    BY DEF Phases
  <2>2. LeaseStep({"play"})
    BY <2>1, NextStep, StepOfLease DEF Families
  <2> QED
    BY <2>2 DEF LeaseStep, Phases, Speaker!LeaseNext, Speaker!Offer, Speaker!Supersede,
       Speaker!Release, Speaker!Pass, Speaker!PowerOnReset, Speaker!Held
<1> QED
  BY <1>0, <1>2, <1>3, PTL DEF Spec, SpeakerLease, Speaker!LeaseSpec

(* Display and speaker keep the promise of operation-end.ts, and no ending  *)
(* is reported twice or after a reset (the leases and onEnd of              *)
(* microbit-display.ts and microbit-speaker.ts).                            *)
THEOREM PromiseOfOperationEnd ==
    ASSUME ~MayWrap
    PROVE  Spec => LeasesKept
<1>1. Spec => DisplayLease
  BY DisplayKeepsPromise
<1>2. Spec => SpeakerLease
  BY SpeakerKeepsPromise
<1>3. Spec => OneReport
  BY ReportedOnce
<1> QED
  BY <1>1, <1>2, <1>3 DEF LeasesKept

-----------------------------------------------------------------------------
(* The screen is where the clock is.  ScreenInTime is not inductive: what  *)
(* the poll paints depends on how far the rendering was before it.         *)

(* Whatever holds a lease began in the past, and what the poll has passed   *)
(* is not over.                                                            *)
Begun == \A s \in Slots : lease[s] # NoOp => op[lease[s]].start <= now
Current(s) == lease[s] # NoOp => now < op[lease[s]].start + Span(lease[s])
Polled ==
    /\ pc # "think" => \A s \in DisplaySlots : Current(s)
    /\ pc = "idle" => Current("play")

(* The frame on show was due at an earlier time, and is due now once the   *)
(* display was polled.                                                     *)
FrameKept ==
    LET o == lease["draw"]
        shown == op[o].rendered - 1
        due == (now - op[o].start) \div op[o].hold
    IN  o # NoOp =>
            /\ shown \in 0..due
            /\ pc # "think" => shown = due
            /\ \A x \in Columns : screen[x] \in {Pixel, Frame(o, shown)[x]}

(* A column of the text on show was pasted by the step that many steps ago, *)
(* and no step of the blank cycle pastes one.                              *)
TextKept ==
    LET o == lease["scroll"]
        blank == StepsPerCharacter * op[o].length
    IN  o # NoOp =>
            /\ op[o].hold = ScrollSteps(op[o].length) /\ op[o].rendered < op[o].hold
            /\ \A x \in Columns :
                  screen[x][1] = o => op[o].rendered - 1 - (Width - x) < blank

ScreenInv == TypeOK /\ Begun /\ Polled /\ FrameKept /\ TextKept /\ TextLeaves

-----------------------------------------------------------------------------
LEMMA Division ==
    ASSUME NEW a \in Nat, NEW b \in Nat \ {0}
    PROVE  /\ a \div b \in Nat
           /\ \A n \in Int : a \div b < n <=> a < n * b
           /\ \A c \in Nat : a <= c => a \div b <= c \div b
<1>1. a \div b \in Nat /\ (a \div b) * b <= a /\ a < (a \div b) * b + b
  OBVIOUS
<1>2. ASSUME NEW n \in Int
      PROVE  a \div b < n <=> a < n * b
  <2> DEFINE q == a \div b
  <2>0. q \in Nat /\ q * b <= a /\ a < q * b + b
    BY <1>1
  <2> HIDE DEF q
  <2>1. ASSUME q < n PROVE a < n * b
    <3>1. (q + 1) * b <= n * b
      BY <2>0, <2>1
    <3>2. (q + 1) * b = q * b + b
      BY <2>0
    <3> QED
      BY <2>0, <3>1, <3>2
  <2>2. ASSUME n <= q PROVE n * b <= a
    <3>1. n * b <= q * b
      BY <2>0, <2>2
    <3> QED
      BY <2>0, <3>1
  <2> QED
    BY <2>0, <2>1, <2>2 DEF q
<1>3. \A c \in Nat : a <= c => a \div b <= c \div b
  OBVIOUS
<1> QED
  BY <1>1, <1>2, <1>3

NatRecord == [kind : {"none"} \cup Slots, start : Nat, length : Nat, hold : Int,
              rendered : Nat, background : BOOLEAN]

(* The types: LeaseInv has those of the leases, the handles and the reports.*)
LEMMA TypesStep ==
    ASSUME LeaseInv', now' \in 0..(Modulus - 1), loaded' \in BOOLEAN,
           pc' \in {"idle", "think", "settle"},
           op' \in [Ops -> NatRecord], screen' \in [Columns -> Cells]
    PROVE  TypeOK'
BY DEF TypeOK, LeaseInv, Shapes, Handle, NatRecord

LEMMA TypesNow ==
    ASSUME TypeOK
    PROVE  /\ now \in Nat /\ now \in 0..(Modulus - 1) /\ op \in [Ops -> NatRecord]
           /\ loaded \in BOOLEAN /\ pc \in {"idle", "think", "settle"}
           /\ screen \in [Columns -> Cells]
           /\ Width \in Nat \ {0} /\ Modulus \in Nat \ {0}
BY DeviceAssumption DEF TypeOK, NatRecord

(* What is left of an operation whose lease is gone.                       *)
LEMMA SpentNat ==
    ASSUME NEW k \in Kind
    PROVE  /\ [NoRequest EXCEPT !.kind = k] \in NatRecord
           /\ [NoRequest EXCEPT !.kind = k].kind = k
<1>1. NoRequest \in NatRecord
  BY DEF NoRequest, NatRecord, Slots, DisplaySlots
<1>2. ASSUME NEW r \in NatRecord
      PROVE  [r EXCEPT !.kind = k] \in NatRecord /\ [r EXCEPT !.kind = k].kind = k
  BY DEF NatRecord, Kind
<1> QED
  BY <1>1, <1>2

(* What a dispatch does to the display and to what was reported.           *)
LEMMA DispatchShows ==
    ASSUME TypeOK, LeaseInv, NEW o \in Ops, NEW request \in NatRecord,
           NEW slots \in Families, request.kind \in slots,
           NEW immediately \in BOOLEAN, NEW outcome \in OperationEnd \cup {"held"},
           Dispatch(o, request, slots, immediately, outcome)
    PROVE  /\ pc = "think" /\ UNCHANGED <<now, loaded, pc>>
           /\ op' \in [Ops -> NatRecord]
           /\ \A s \in Slots : lease'[s] =
                 IF outcome = "held" /\ s = request.kind THEN o
                 ELSE IF immediately /\ s \in slots THEN NoOp ELSE lease[s]
           /\ \A s \in Slots : lease[s] # NoOp /\ ~(immediately /\ s \in slots)
                 => lease[s] # o /\ op'[lease[s]] = op[lease[s]]
           /\ outcome = "held" => op'[o] = request
           /\ op'[o].kind = request.kind
           /\ \A p \in Ops : p # o => op'[p].kind = op[p].kind
           /\ endings'[o] = <<"completed">> => outcome = "completed"
           /\ \A p \in Ops : p # o /\ endings'[p] = <<"completed">> => endings[p] = <<"completed">>
<1> DEFINE out == IF immediately THEN HoldersOf(slots) ELSE {}
           left == IF immediately THEN Without(slots) ELSE lease
           ended == outcome # "held"
           over == [NoRequest EXCEPT !.kind = request.kind]
<1> USE DEF LeaseInv
<1>0. slots \subseteq Slots /\ request.kind \in Slots /\ request.kind \in Kind
  BY DEF Families, Slots, DisplaySlots, Kind
<1>1. FreshOp(o) /\ ~HoldsLease(o) /\ endings[o] = << >>
  <2>1. "none" \notin Slots
    BY DEF Slots, DisplaySlots
  <2>2. FreshOp(o)
    BY DEF Dispatch
  <2> QED
    BY <2>1, <2>2, HolderKind DEF FreshOp, Unreported
<1>2. \A p \in out : p # o /\ p \in Ops /\ endings[p] = << >>
  <2>1. HoldersOf(slots) \subseteq Ops
    BY <1>0 DEF HoldersOf, Shapes
  <2> QED
    BY <1>0, <1>1, <2>1, HolderKind DEF Unreported
<1>3. left \in [Slots -> Ops \cup {NoOp}]
      /\ \A s \in Slots : left[s] = IF immediately /\ s \in slots THEN NoOp ELSE lease[s]
  BY DEF Without, Shapes
<1>4. /\ pc = "think" /\ UNCHANGED <<now, loaded, pc>>
      /\ lease' = IF ended THEN left ELSE [left EXCEPT ![request.kind] = o]
      /\ op' = [p \in Ops |->
               IF p \in out THEN Spent(p)
               ELSE IF p # o THEN op[p]
               ELSE IF ended THEN over ELSE request]
      /\ endings' = [p \in Ops |->
               IF p \in out THEN Append(endings[p], "preempted")
               ELSE IF p = o /\ ended THEN Append(endings[p], outcome) ELSE endings[p]]
  BY DEF Dispatch
<1>5. over \in NatRecord /\ over.kind = request.kind
  BY <1>0, SpentNat
<1>6. \A p \in Ops : Spent(p) \in NatRecord /\ Spent(p).kind = op[p].kind
  <2>1. ASSUME NEW p \in Ops PROVE op[p].kind \in Kind
    BY DEF Shapes, OpRecord
  <2> QED
    BY <2>1, SpentNat DEF Spent
<1> HIDE DEF over
<1>7. op' \in [Ops -> NatRecord]
  BY <1>4, <1>5, <1>6, TypesNow
<1>8. /\ op'[o].kind = request.kind /\ (outcome = "held" => op'[o] = request)
      /\ \A p \in Ops : p # o => op'[p].kind = op[p].kind
  BY <1>2, <1>4, <1>5, <1>6
<1>9. \A s \in Slots : lease'[s] =
         IF outcome = "held" /\ s = request.kind THEN o
         ELSE IF immediately /\ s \in slots THEN NoOp ELSE lease[s]
  BY <1>0, <1>3, <1>4
<1>10. ASSUME NEW s \in Slots, lease[s] # NoOp, ~(immediately /\ s \in slots)
       PROVE  lease[s] # o /\ op'[lease[s]] = op[lease[s]]
  <2>1. lease[s] \in Ops /\ lease[s] # o
    BY <1>1, <1>10 DEF HoldsLease, Shapes
  <2>2. lease[s] \notin out
    <3>1. op[lease[s]].kind = s
      BY <1>10 DEF LeaseKinds
    <3>2. \A p \in HoldersOf(slots) : p \in Ops /\ op[p].kind \in slots
      <4>1. HoldersOf(slots) \subseteq Ops /\ slots \in SUBSET Slots
        BY <1>0 DEF HoldersOf, Shapes
      <4> QED
        BY <4>1, HolderKind
    <3> QED
      BY <1>10, <3>1, <3>2
  <2> QED
    BY <1>4, <2>1, <2>2
<1>11. endings'[o] = <<"completed">> => outcome = "completed"
  <2>1. endings'[o] = IF ended THEN Append(<< >>, outcome) ELSE << >>
    BY <1>1, <1>2, <1>4
  <2>2. << >> # <<"completed">> /\ Append(<< >>, outcome) = <<outcome>>
    OBVIOUS
  <2>3. <<outcome>> = <<"completed">> => outcome = "completed"
    OBVIOUS
  <2> QED
    BY <2>1, <2>2, <2>3
<1>12. \A p \in Ops : p # o /\ endings'[p] = <<"completed">> => endings[p] = <<"completed">>
  <2>1. Append(<< >>, "preempted") # <<"completed">>
    OBVIOUS
  <2> QED
    BY <1>2, <1>4, <2>1
<1> QED
  BY <1>4, <1>7, <1>8, <1>9, <1>10, <1>11, <1>12

-----------------------------------------------------------------------------
(* A text that was reported complete.                                      *)
Finished(p) == op[p].kind \in {"show", "scroll"} /\ endings[p] = <<"completed">>

(* A step that paints nothing and ends at most a rendering.                *)
LEMMA DisplayStays ==
    ASSUME ScreenInv, LeaseInv, UNCHANGED <<now, screen>>,
           \A s \in DisplaySlots :
              lease'[s] = NoOp \/ (lease'[s] = lease[s] /\ op'[lease[s]] = op[lease[s]]),
           pc' # "think" => pc # "think" \/ lease'["draw"] = NoOp,
           \A p \in Ops : Finished(p)' => Finished(p)
    PROVE  FrameKept' /\ TextKept' /\ TextLeaves'
<1>1. "draw" \in DisplaySlots /\ "scroll" \in DisplaySlots
  BY DEF DisplaySlots
<1>2. FrameKept'
  BY <1>1 DEF ScreenInv, FrameKept, Frame
<1>3. TextKept'
  BY <1>1 DEF ScreenInv, TextKept
<1>4. TextLeaves'
  BY DEF ScreenInv, TextLeaves, Finished
<1> QED
  BY <1>2, <1>3, <1>4

(* A step that blanks the screen, and starts a text at most.               *)
LEMMA DisplayDarkens ==
    ASSUME TypeOK', screen' = Dark, lease'["draw"] = NoOp,
           lease'["scroll"] # NoOp => /\ op'[lease'["scroll"]].rendered = 0
                                      /\ op'[lease'["scroll"]].hold
                                           = ScrollSteps(op'[lease'["scroll"]].length)
    PROVE  FrameKept' /\ TextKept' /\ TextLeaves'
<1>1. \A x \in Columns : screen'[x][1] = NoOp
  BY DEF Dark, Blank
<1>2. NoOp \notin Ops
  BY NoOpAssumption
<1>3. TextKept'
  <2> SUFFICES ASSUME lease'["scroll"] # NoOp PROVE TextKept'
    BY DEF TextKept
  <2>1. lease'["scroll"] \in Ops
    BY DEF TypeOK, Slots, DisplaySlots
  <2>2. op'[lease'["scroll"]].length \in Nat
    BY <2>1 DEF TypeOK
  <2>3. Width \in Nat \ {0}
    BY DeviceAssumption
  <2> DEFINE n == op'[lease'["scroll"]].length
  <2>4. n \in Nat /\ (Width + 1) * (n + 1) > 0
    <3>1. \A i, j \in Nat \ {0} : i * j > 0
      OBVIOUS
    <3> QED
      BY <2>2, <2>3, <3>1
  <2> QED
    BY <1>1, <1>2, <2>1, <2>4 DEF TextKept, ScrollSteps, StepsPerCharacter
<1>4. TextLeaves'
  BY <1>1, <1>2 DEF TextLeaves
<1>5. FrameKept'
  BY DEF FrameKept
<1> QED
  BY <1>3, <1>4, <1>5

(* What the poll passes is over or not; a dispatch is not polled yet.      *)
LEMMA ThinkKeeps ==
    ASSUME pc' = "think"
    PROVE  Polled'
BY DEF Polled

LEMMA BegunStays ==
    ASSUME TypeOK, Begun, now' \in Nat, now' >= now,
           \A s \in Slots :
              \/ lease'[s] = NoOp
              \/ lease'[s] = lease[s] /\ op'[lease[s]].start = op[lease[s]].start
              \/ op'[lease'[s]].start = now'
    PROVE  Begun'
<1>1. \A s \in Slots : lease[s] # NoOp => op[lease[s]].start \in Nat
  BY DEF TypeOK
<1>2. now \in Nat
  BY TypesNow
<1> QED
  BY <1>1, <1>2 DEF Begun

(* A dispatch of the speaker, or one that finds the display busy.          *)
LEMMA UnseenDispatch ==
    ASSUME ScreenInv, LeaseInv, LeaseInv', NEW o \in Ops, NEW request \in NatRecord,
           NEW slots \in Families, request.kind \in slots, request.start = now,
           NEW immediately \in BOOLEAN, NEW outcome \in {"held", "dropped"},
           slots = {"play"} \/ (outcome = "dropped" /\ ~immediately),
           Dispatch(o, request, slots, immediately, outcome), UNCHANGED screen
    PROVE  ScreenInv'
<1>0. TypeOK /\ Begun /\ outcome \in OperationEnd \cup {"held"}
  BY DEF ScreenInv, OperationEnd
<1>1. /\ pc = "think" /\ UNCHANGED <<now, loaded, pc>>
      /\ op' \in [Ops -> NatRecord]
      /\ \A s \in Slots : lease'[s] =
            IF outcome = "held" /\ s = request.kind THEN o
            ELSE IF immediately /\ s \in slots THEN NoOp ELSE lease[s]
      /\ \A s \in Slots : lease[s] # NoOp /\ ~(immediately /\ s \in slots)
            => lease[s] # o /\ op'[lease[s]] = op[lease[s]]
      /\ outcome = "held" => op'[o] = request
      /\ \A p \in Ops : p # o => op'[p].kind = op[p].kind
      /\ endings'[o] = <<"completed">> => outcome = "completed"
      /\ \A p \in Ops : p # o /\ endings'[p] = <<"completed">> => endings[p] = <<"completed">>
  BY <1>0, DispatchShows
<1>2. \A s \in Slots : \/ lease'[s] = NoOp
                       \/ lease'[s] = lease[s] /\ op'[lease[s]] = op[lease[s]]
                       \/ s = request.kind /\ outcome = "held" /\ op'[lease'[s]] = request
  BY <1>1
<1>3. TypeOK'
  BY <1>0, <1>1, TypesNow, TypesStep
<1>4. Begun'
  <2>1. \A s \in Slots : \/ lease'[s] = NoOp
                         \/ lease'[s] = lease[s] /\ op'[lease[s]].start = op[lease[s]].start
                         \/ op'[lease'[s]].start = now'
    BY <1>1, <1>2
  <2>2. now' \in Nat /\ now' >= now
    BY <1>0, <1>1, TypesNow
  <2> QED
    BY <1>0, <2>1, <2>2, BegunStays
<1>5. Polled'
  BY <1>1, ThinkKeeps
<1>6. \A s \in DisplaySlots :
         lease'[s] = NoOp \/ (lease'[s] = lease[s] /\ op'[lease[s]] = op[lease[s]])
  <2>1. outcome = "held" => request.kind \notin DisplaySlots
    BY DEF DisplaySlots
  <2> QED
    BY <1>2, <2>1 DEF Slots
<1>7. \A p \in Ops : Finished(p)' => Finished(p)
  BY <1>1 DEF Finished
<1>8. FrameKept' /\ TextKept' /\ TextLeaves'
  BY <1>1, <1>6, <1>7, DisplayStays
<1> QED
  BY <1>3, <1>4, <1>5, <1>8 DEF ScreenInv

(* What is requested of the display or of the speaker.                     *)
LEMMA RequestNat ==
    ASSUME TypeOK, NEW kind \in Kind, NEW length \in Nat, NEW hold \in Int,
           NEW rendered \in Nat, NEW background \in BOOLEAN
    PROVE  /\ Request(kind, length, hold, rendered, background) \in NatRecord
           /\ Request(kind, length, hold, rendered, background).kind = kind
           /\ Request(kind, length, hold, rendered, background).start = now
           /\ Request(kind, length, hold, rendered, background).length = length
           /\ Request(kind, length, hold, rendered, background).hold = hold
           /\ Request(kind, length, hold, rendered, background).rendered = rendered
BY TypesNow DEF Request, NatRecord, Kind

LEMMA PlayShows ==
    ASSUME ScreenInv, LeaseInv, LeaseInv', NEW o \in Ops, NEW duration \in Int,
           NEW immediately \in BOOLEAN, NEW background \in BOOLEAN,
           NEW outcome \in {"held", "dropped"},
           Dispatch(o, Request("play", 1, duration, 0, background), {"play"}, immediately, outcome),
           UNCHANGED screen
    PROVE  ScreenInv'
<1> DEFINE request == Request("play", 1, duration, 0, background)
<1>1. request \in NatRecord /\ request.kind = "play" /\ request.start = now
  <2>1. "play" \in Kind
    BY DEF Kind, Slots
  <2> QED
    BY <2>1, RequestNat DEF ScreenInv
<1>2. Dispatch(o, request, {"play"}, immediately, outcome)
  OBVIOUS
<1> HIDE DEF request
<1>3. PICK slots \in Families : slots = {"play"}
  BY DEF Families
<1>4. request.kind \in slots /\ Dispatch(o, request, slots, immediately, outcome)
  BY <1>1, <1>2, <1>3
<1> QED
  BY <1>1, <1>3, <1>4, UnseenDispatch

(* A text: a glyph at once, or a dark screen to scroll into.               *)
LEMMA TextShows ==
    ASSUME ScreenInv, LeaseInv, LeaseInv', NEW o \in Ops, NEW n \in TextLengths,
           NEW immediately \in BOOLEAN, NEW background \in BOOLEAN,
           DisplayScroll(o, n, immediately, background)
    PROVE  ScreenInv'
<1> DEFINE kind == IF n = 1 THEN "show" ELSE "scroll"
           request == Request(kind, n, ScrollSteps(n), 0, background)
           outcome == TextOutcome(immediately)
<1>1. kind \in DisplaySlots /\ kind \in Kind /\ DisplaySlots \in Families
  BY DEF Kind, Slots, DisplaySlots, Families
<1>2. n \in Nat /\ ScrollSteps(n) \in Int
  BY DeviceAssumption DEF ScrollSteps, StepsPerCharacter
<1>3. /\ request \in NatRecord /\ request.kind = kind /\ request.start = now
      /\ request.length = n /\ request.hold = ScrollSteps(n) /\ request.rendered = 0
  BY <1>1, <1>2, RequestNat DEF ScreenInv
<1>4. /\ Dispatch(o, request, DisplaySlots, immediately, outcome)
      /\ screen' = IF outcome = "dropped" THEN screen ELSE IF n = 1 THEN Glyph(o) ELSE Dark
  BY DEF DisplayScroll
<1>5. outcome = IF Busy(DisplaySlots, immediately) THEN "dropped" ELSE "held"
  BY DEF TextOutcome
<1> HIDE DEF request, outcome
<1>6. CASE outcome = "dropped"
  <2>1. ~immediately
    BY <1>5, <1>6 DEF Busy
  <2> QED
    BY <1>1, <1>3, <1>4, <1>6, <2>1, UnseenDispatch
<1>7. CASE outcome = "held"
  <2>0. TypeOK /\ Begun /\ outcome \in OperationEnd \cup {"held"} /\ kind \in Slots
    BY <1>1, <1>7 DEF ScreenInv, OperationEnd, Slots
  <2>1. /\ pc = "think" /\ UNCHANGED <<now, loaded, pc>>
        /\ op' \in [Ops -> NatRecord]
        /\ \A s \in Slots : lease'[s] =
              IF s = kind THEN o
              ELSE IF immediately /\ s \in DisplaySlots THEN NoOp ELSE lease[s]
        /\ \A s \in Slots : lease[s] # NoOp /\ ~(immediately /\ s \in DisplaySlots)
              => lease[s] # o /\ op'[lease[s]] = op[lease[s]]
        /\ op'[o] = request
        /\ endings'[o] # <<"completed">>
        /\ \A p \in Ops : p # o => op'[p].kind = op[p].kind
        /\ \A p \in Ops : p # o /\ endings'[p] = <<"completed">> => endings[p] = <<"completed">>
    BY <1>1, <1>3, <1>4, <1>7, <2>0, DispatchShows
  <2>2. screen' \in [Columns -> Cells]
    <3>1. Columns \subseteq Nat \ {0}
      BY DEF Columns
    <3>2. \A x \in Columns : <<o, 0, x - 1>> \in Cells
      BY <3>1 DEF Cells
    <3> QED
      BY <1>4, <1>7, <3>2 DEF Glyph, Dark, Cells
  <2>3. TypeOK'
    BY <2>0, <2>1, <2>2, TypesNow, TypesStep
  <2>4. Begun'
    <3>1. \A s \in Slots : \/ lease'[s] = NoOp
                           \/ lease'[s] = lease[s] /\ op'[lease[s]] = op[lease[s]]
                           \/ op'[lease'[s]] = request
      BY <2>1
    <3>2. \A s \in Slots : \/ lease'[s] = NoOp
                           \/ lease'[s] = lease[s] /\ op'[lease[s]].start = op[lease[s]].start
                           \/ op'[lease'[s]].start = now'
      BY <1>3, <2>1, <3>1
    <3>3. now' \in Nat /\ now' >= now
      BY <2>0, <2>1, TypesNow
    <3> QED
      BY <2>0, <3>2, <3>3, BegunStays
  <2>5. Polled'
    BY <2>1, ThinkKeeps
  <2>6. o # NoOp /\ \A s \in DisplaySlots : s # kind => lease'[s] = NoOp
    <3>1. lease'[kind] # NoOp
      BY <2>0, <2>1, NoOpAssumption
    <3> QED
      BY <1>1, <3>1, NoOpAssumption DEF LeaseInv, Exclusive
  <2>7. "draw" \in DisplaySlots /\ "scroll" \in DisplaySlots /\ "draw" # kind
    BY DEF DisplaySlots
  <2>8. CASE n # 1
    <3>1. kind = "scroll" /\ lease'["scroll"] = o
      BY <2>0, <2>1, <2>8
    <3> QED
      BY <1>3, <1>4, <1>7, <2>1, <2>3, <2>4, <2>5, <2>6, <2>7, <2>8, <3>1, DisplayDarkens
      DEF ScreenInv
  <2>9. CASE n = 1
    <3>1. lease'["draw"] = NoOp /\ lease'["scroll"] = NoOp
      BY <2>6, <2>7, <2>9
    <3>2. FrameKept' /\ TextKept'
      BY <3>1 DEF FrameKept, TextKept
    <3>3. \A x \in Columns : screen'[x][1] = o
      BY <1>4, <1>7, <2>9 DEF Glyph
    <3>4. TextLeaves'
      BY <2>1, <3>3 DEF TextLeaves
    <3> QED
      BY <2>3, <2>4, <2>5, <3>2, <3>4 DEF ScreenInv
  <2> QED
    BY <2>8, <2>9
<1> QED
  BY <1>5, <1>6, <1>7

(* An image: its first frame while it is held, its last one if it takes no *)
(* time.                                                                   *)
LEMMA ImageShows ==
    ASSUME ScreenInv, LeaseInv, LeaseInv', NEW o \in Ops, NEW images \in Nat, NEW duration \in Int,
           NEW immediately \in BOOLEAN, NEW background \in BOOLEAN,
           DrawImage(o, images, duration, immediately, background)
    PROVE  ScreenInv'
<1> DEFINE request == Request("draw", FramesOf(images), Hold(duration), 1, background)
           outcome == DrawOutcome(Hold(duration), immediately)
           frame == IF outcome = "held" THEN 0 ELSE FramesOf(images) - 1
<1>1. "draw" \in DisplaySlots /\ "draw" \in Kind /\ DisplaySlots \in Families
      /\ "scroll" \in DisplaySlots /\ DisplaySlots \subseteq Slots
  BY DEF Kind, Slots, DisplaySlots, Families
<1>2. FramesOf(images) \in Nat /\ FramesOf(images) >= 1 /\ Hold(duration) \in Int
      /\ Hold(duration) >= 0 /\ frame \in Nat
  BY DEF FramesOf, Hold
<1>3. /\ request \in NatRecord /\ request.kind = "draw" /\ request.start = now
      /\ request.hold = Hold(duration) /\ request.rendered = 1
  BY <1>1, <1>2, RequestNat DEF ScreenInv
<1>4. /\ Dispatch(o, request, DisplaySlots, immediately, outcome)
      /\ screen' = IF outcome = "dropped" THEN screen ELSE Frame(o, frame)
  BY DEF DrawImage, DrawOutcome
<1>5. /\ outcome \in {"dropped", "completed", "held"}
      /\ outcome = "dropped" => ~immediately
      /\ outcome = "held" => Hold(duration) > 0
      /\ outcome # "dropped" => ~Busy(DisplaySlots, immediately)
  BY <1>2 DEF DrawOutcome, Busy
<1> HIDE DEF request, outcome, frame
<1>6. CASE outcome = "dropped"
  BY <1>1, <1>3, <1>4, <1>5, <1>6, UnseenDispatch
<1>7. CASE outcome # "dropped"
  <2>0. TypeOK /\ Begun /\ outcome \in OperationEnd \cup {"held"}
    BY <1>5, <1>7 DEF ScreenInv, OperationEnd
  <2>1. /\ pc = "think" /\ UNCHANGED <<now, loaded, pc>>
        /\ op' \in [Ops -> NatRecord]
        /\ \A s \in Slots : lease'[s] =
              IF outcome = "held" /\ s = "draw" THEN o
              ELSE IF immediately /\ s \in DisplaySlots THEN NoOp ELSE lease[s]
        /\ \A s \in Slots : lease[s] # NoOp /\ ~(immediately /\ s \in DisplaySlots)
              => lease[s] # o /\ op'[lease[s]] = op[lease[s]]
        /\ outcome = "held" => op'[o] = request
        /\ op'[o].kind = "draw"
        /\ \A p \in Ops : p # o => op'[p].kind = op[p].kind
        /\ \A p \in Ops : p # o /\ endings'[p] = <<"completed">> => endings[p] = <<"completed">>
    BY <1>1, <1>3, <1>4, <2>0, DispatchShows
  <2>2. screen' = Frame(o, frame) /\ screen' \in [Columns -> Cells]
    <3>1. \A x \in Columns : <<o, frame, x - 1>> \in Cells
      BY <1>2 DEF Cells, Columns
    <3> QED
      BY <1>4, <1>7, <3>1 DEF Frame
  <2>3. TypeOK'
    BY <2>0, <2>1, <2>2, TypesNow, TypesStep
  <2>4. Begun'
    <3>2. \A s \in Slots : \/ lease'[s] = NoOp
                           \/ lease'[s] = lease[s] /\ op'[lease[s]].start = op[lease[s]].start
                           \/ op'[lease'[s]].start = now'
      BY <1>3, <2>1
    <3>3. now' \in Nat /\ now' >= now
      BY <2>0, <2>1, TypesNow
    <3> QED
      BY <2>0, <3>2, <3>3, BegunStays
  <2>5. Polled'
    BY <2>1, ThinkKeeps
  <2>6. o # NoOp /\ \A s \in DisplaySlots : lease'[s] = NoOp \/ (s = "draw" /\ outcome = "held")
    <3>1. ASSUME NEW s \in DisplaySlots, lease'[s] # NoOp
          PROVE  s = "draw" /\ outcome = "held"
      <4>1. ~immediately => lease[s] = NoOp
        BY <1>5, <1>7 DEF Busy, HoldersOf
      <4> QED
        BY <1>1, <2>1, <3>1, <4>1
    <3> QED
      BY <3>1, NoOpAssumption
  <2>7. TextKept'
    BY <1>1, <2>6 DEF TextKept
  <2>8. TextLeaves'
    <3>1. \A x \in Columns : screen'[x][1] = o
      BY <2>2 DEF Frame
    <3> QED
      BY <2>1, <3>1 DEF TextLeaves
  <2>9. FrameKept'
    <3> SUFFICES ASSUME lease'["draw"] # NoOp PROVE FrameKept'
      BY DEF FrameKept
    <3>1. outcome = "held" /\ lease'["draw"] = o /\ op'[o] = request
      BY <1>1, <2>1, <2>6
    <3>2. (now' - request.start) \div request.hold \in Nat
      <4>1. now' - request.start = 0 /\ request.hold \in Nat \ {0}
        BY <1>2, <1>3, <1>5, <2>0, <2>1, <3>1, TypesNow
      <4> QED
        BY <4>1, Division
    <3>3. screen' = Frame(o, 0) /\ request.rendered - 1 = 0
      BY <1>3, <2>2, <3>1 DEF frame
    <3> QED
      BY <2>1, <3>1, <3>2, <3>3 DEF FrameKept, Frame
  <2> QED
    BY <2>3, <2>4, <2>5, <2>7, <2>8, <2>9 DEF ScreenInv
<1> QED
  BY <1>6, <1>7

LEMMA PixelShows ==
    ASSUME ScreenInv, LeaseInv, LeaseInv', NEW x \in Pixels, DisplaySetPixel(x)
    PROVE  ScreenInv'
<1>1. /\ pc = "think" /\ UNCHANGED <<now, loaded, pc, lease, op, handle, endings>>
      /\ screen' = IF x \in Columns THEN [screen EXCEPT ![x] = Pixel] ELSE screen
  BY DEF DisplaySetPixel
<1>2. TypeOK /\ Begun
  BY DEF ScreenInv
<1>3. TypeOK'
  <2>1. Pixel \in Cells
    BY DEF Cells
  <2>2. screen' \in [Columns -> Cells]
    BY <1>1, <1>2, <2>1, TypesNow
  <2> QED
    BY <1>1, <1>2, <2>2, TypesNow, TypesStep
<1>4. \A y \in Columns : screen'[y] = screen[y] \/ screen'[y] = Pixel
  BY <1>1, <1>2, TypesNow
<1>5. Pixel[1] = NoOp /\ NoOp \notin Ops
  BY NoOpAssumption DEF Pixel
<1>6. Begun' /\ Polled'
  BY <1>1, <1>2 DEF Begun, Polled
<1>7. FrameKept'
  BY <1>1, <1>4 DEF ScreenInv, FrameKept, Frame
<1>8. TextKept'
  <2>1. lease["scroll"] \in Ops \cup {NoOp}
    BY <1>2 DEF TypeOK, Slots, DisplaySlots
  <2> QED
    BY <1>1, <1>4, <1>5, <2>1 DEF ScreenInv, TextKept
<1>9. TextLeaves'
  BY <1>1, <1>4, <1>5 DEF ScreenInv, TextLeaves
<1> QED
  BY <1>3, <1>6, <1>7, <1>8, <1>9 DEF ScreenInv

(* The types of what an ending leaves.                                     *)
LEMMA EndTypes ==
    ASSUME TypeOK, LeaseInv, NEW set, NEW how, EndAll(set, how)
    PROVE  /\ op' \in [Ops -> NatRecord]
           /\ \A p \in Ops : op'[p].kind = op[p].kind /\ (p \notin set => op'[p] = op[p])
<1>1. op' = [o \in Ops |-> IF o \in set THEN Spent(o) ELSE op[o]]
  BY DEF EndAll
<1>2. \A p \in Ops : Spent(p) \in NatRecord /\ Spent(p).kind = op[p].kind
  <2>1. ASSUME NEW p \in Ops PROVE op[p].kind \in Kind
    BY DEF LeaseInv, Shapes, OpRecord
  <2> QED
    BY <2>1, SpentNat DEF Spent
<1> QED
  BY <1>1, <1>2, TypesNow

LEMMA DarkTypes == Dark \in [Columns -> Cells]
BY DEF Dark, Cells

LEMMA ClearShows ==
    ASSUME ScreenInv, LeaseInv, LeaseInv', DisplayClear
    PROVE  ScreenInv'
<1>1. /\ pc = "think" /\ UNCHANGED <<now, loaded, pc>> /\ screen' = Dark
      /\ lease' = Without(DisplaySlots) /\ EndAll(HoldersOf(DisplaySlots), "preempted")
  BY DEF DisplayClear
<1>2. TypeOK /\ Begun
  BY DEF ScreenInv
<1>3. TypeOK'
  BY <1>1, <1>2, EndTypes, DarkTypes, TypesNow, TypesStep
<1>4. \A s \in Slots : lease'[s] = IF s \in DisplaySlots THEN NoOp ELSE lease[s]
  BY <1>1 DEF Without
<1>5. "draw" \in DisplaySlots /\ "scroll" \in DisplaySlots /\ DisplaySlots \subseteq Slots
  BY DEF DisplaySlots, Slots
<1>6. Begun'
  <2>1. ASSUME NEW s \in Slots, lease'[s] # NoOp
        PROVE  lease'[s] = lease[s] /\ op'[lease[s]].start = op[lease[s]].start
    <3>1. lease'[s] = lease[s] /\ s \notin DisplaySlots
      BY <1>4, <2>1
    <3>2. lease[s] \in Ops /\ lease[s] \notin HoldersOf(DisplaySlots)
      <4>1. lease[s] \in Ops /\ op[lease[s]].kind = s
        BY <2>1, <3>1 DEF LeaseInv, Shapes, LeaseKinds
      <4> QED
        BY <1>5, <3>1, <4>1, HolderKind DEF LeaseInv
    <3> QED
      BY <1>1, <1>2, <3>1, <3>2, EndTypes
  <2> QED
    BY <1>1, <1>2, <2>1, BegunStays, TypesNow
<1>7. Polled'
  BY <1>1, ThinkKeeps
<1>8. FrameKept' /\ TextKept' /\ TextLeaves'
  BY <1>1, <1>3, <1>4, <1>5, DisplayDarkens
<1> QED
  BY <1>3, <1>6, <1>7, <1>8 DEF ScreenInv

LEMMA ResetShows ==
    ASSUME ScreenInv, LeaseInv, LeaseInv', ResetDevice, loaded' \in BOOLEAN
    PROVE  ScreenInv'
<1>1. /\ now' = 0 /\ screen' = Dark /\ UNCHANGED <<pc, endings>>
      /\ \A s \in Slots : lease'[s] = NoOp
      /\ op' = [o \in Ops |-> IF HoldsLease(o) THEN Spent(o) ELSE op[o]]
  BY DEF ResetDevice, Free
<1>2. TypeOK
  BY DEF ScreenInv
<1>3. TypeOK'
  <2>1. \A p \in Ops : Spent(p) \in NatRecord
    <3>1. ASSUME NEW p \in Ops PROVE op[p].kind \in Kind
      BY DEF LeaseInv, Shapes, OpRecord
    <3> QED
      BY <3>1, SpentNat DEF Spent
  <2>2. op' \in [Ops -> NatRecord]
    BY <1>1, <1>2, <2>1, TypesNow
  <2>3. now' \in 0..(Modulus - 1)
    BY <1>1, <1>2, TypesNow
  <2> QED
    BY <1>1, <1>2, <2>2, <2>3, DarkTypes, TypesNow, TypesStep
<1>4. "draw" \in Slots /\ "scroll" \in Slots /\ "play" \in Slots /\ DisplaySlots \subseteq Slots
  BY DEF DisplaySlots, Slots
<1>5. Begun' /\ Polled'
  BY <1>1, <1>4 DEF Begun, Polled, Current
<1>6. FrameKept' /\ TextKept' /\ TextLeaves'
  BY <1>1, <1>3, <1>4, DisplayDarkens
<1> QED
  BY <1>3, <1>5, <1>6 DEF ScreenInv

(* Time passes: the frame on show may fall behind until the next poll.     *)
LEMMA TickShows ==
    ASSUME ~MayWrap, ScreenInv, LeaseInv, LeaseInv', NEW milliseconds \in TickLengths,
           Tick(milliseconds)
    PROVE  ScreenInv'
<1>1. TypeOK /\ Begun
  BY DEF ScreenInv
<1>2. /\ pc' = "think" /\ UNCHANGED <<loaded, lease, op, handle, endings, screen>>
      /\ milliseconds \in Nat /\ now + milliseconds < Modulus /\ now' = now + milliseconds
  <2>1. \A a, m \in Nat : a < m => a % m = a
    OBVIOUS
  <2>2. milliseconds \in Nat /\ now + milliseconds < Modulus /\ now' = (now + milliseconds) % Modulus
    BY DeviceAssumption DEF Tick
  <2> QED
    BY <1>1, <2>1, <2>2, TypesNow DEF Tick
<1>3. now' \in Nat /\ now' >= now /\ now' \in 0..(Modulus - 1)
  BY <1>1, <1>2, TypesNow
<1>4. TypeOK'
  BY <1>1, <1>2, <1>3, TypesNow, TypesStep
<1>5. Begun'
  BY <1>1, <1>2, <1>3, BegunStays
<1>6. Polled'
  BY <1>2, ThinkKeeps
<1>7. TextKept' /\ TextLeaves'
  BY <1>2 DEF ScreenInv, TextKept, TextLeaves
<1>8. FrameKept'
  <2> DEFINE o == lease["draw"]
  <2> SUFFICES ASSUME o # NoOp PROVE FrameKept'
    BY <1>2 DEF FrameKept
  <2>1. op[o].start \in Nat /\ op[o].start <= now /\ op[o].hold \in Nat \ {0}
    <3>1. "draw" \in Slots
      BY DEF Slots, DisplaySlots
    <3>2. o \in Ops
      BY <1>1, <3>1 DEF TypeOK
    <3> QED
      BY <1>1, <3>1, <3>2 DEF TypeOK, Begun, LeaseInv, DrawsLast
  <2>2. now - op[o].start \in Nat /\ now' - op[o].start \in Nat
        /\ now - op[o].start <= now' - op[o].start
    BY <1>1, <1>3, <2>1, TypesNow
  <2>3. /\ (now - op[o].start) \div op[o].hold \in Nat
        /\ (now' - op[o].start) \div op[o].hold \in Nat
        /\ (now - op[o].start) \div op[o].hold <= (now' - op[o].start) \div op[o].hold
    BY <2>1, <2>2, Division
  <2>4. /\ op[o].rendered - 1 \in 0..((now - op[o].start) \div op[o].hold)
        /\ \A x \in Columns : screen[x] \in {Pixel, Frame(o, op[o].rendered - 1)[x]}
    BY DEF ScreenInv, FrameKept
  <2>5. op[o].rendered - 1 \in 0..((now' - op[o].start) \div op[o].hold)
    BY <2>3, <2>4
  <2> QED
    BY <1>2, <2>4, <2>5 DEF FrameKept, Frame
<1> QED
  BY <1>4, <1>5, <1>6, <1>7, <1>8 DEF ScreenInv

-----------------------------------------------------------------------------
(* The polls.  A rendering that is over leaves its slot.                   *)
LEMMA ReleaseShows ==
    ASSUME TypeOK, LeaseInv, NEW slot \in Slots, lease[slot] # NoOp, Release(slot, "completed")
    PROVE  /\ lease[slot] \in Ops /\ op[lease[slot]].kind = slot
           /\ op' \in [Ops -> NatRecord]
           /\ \A s \in Slots : lease'[s] = IF s = slot THEN NoOp ELSE lease[s]
           /\ \A s \in Slots : lease'[s] # NoOp => op'[lease[s]] = op[lease[s]]
           /\ \A p \in Ops : op'[p].kind = op[p].kind
           /\ \A p \in Ops : p # lease[slot] => endings'[p] = endings[p]
<1>1. lease[slot] \in Ops /\ op[lease[slot]].kind = slot
  BY DEF LeaseInv, Shapes, LeaseKinds
<1>2. lease' = Without({slot}) /\ EndAll({lease[slot]}, "completed")
  BY DEF Release
<1>3. \A s \in Slots : lease'[s] = IF s = slot THEN NoOp ELSE lease[s]
  BY <1>2 DEF Without
<1>4. /\ op' \in [Ops -> NatRecord]
      /\ \A p \in Ops : op'[p].kind = op[p].kind /\ (p \notin {lease[slot]} => op'[p] = op[p])
  BY <1>2, EndTypes
<1>5. ASSUME NEW s \in Slots, lease'[s] # NoOp
      PROVE  op'[lease[s]] = op[lease[s]]
  <2>1. s # slot /\ lease[s] \in Ops /\ op[lease[s]].kind = s
    BY <1>3, <1>5 DEF LeaseInv, Shapes, LeaseKinds
  <2>2. lease[s] # lease[slot]
    BY <1>1, <2>1
  <2> QED
    BY <1>4, <2>1, <2>2
<1>6. \A p \in Ops : p # lease[slot] => endings'[p] = endings[p]
  BY <1>2 DEF EndAll
<1> QED
  BY <1>1, <1>3, <1>4, <1>5, <1>6

LEMMA IdleShows ==
    ASSUME ScreenInv, LeaseInv, LeaseInv', AdvanceIdle
    PROVE  ScreenInv'
<1>1. /\ pc' = "settle" /\ UNCHANGED <<now, loaded, lease, op, handle, endings, screen>>
      /\ HoldersOf(DisplaySlots) = {}
  BY DEF AdvanceIdle, EndThink
<1>2. TypeOK /\ Begun
  BY DEF ScreenInv
<1>3. \A s \in DisplaySlots : lease[s] = NoOp
  BY <1>1 DEF HoldersOf
<1>4. TypeOK' /\ Begun'
  BY <1>1, <1>2, TypesNow, TypesStep DEF Begun
<1>5. Polled'
  BY <1>1, <1>3 DEF Polled, Current
<1>6. FrameKept' /\ TextKept' /\ TextLeaves'
  <2>1. "draw" \in DisplaySlots
    BY DEF DisplaySlots
  <2>2. \A p \in Ops : Finished(p)' => Finished(p)
    BY <1>1 DEF Finished
  <2> QED
    BY <1>1, <1>3, <2>1, <2>2, DisplayStays
<1> QED
  BY <1>4, <1>5, <1>6 DEF ScreenInv

LEMMA ShowShows ==
    ASSUME ScreenInv, LeaseInv, LeaseInv', AdvanceShow
    PROVE  ScreenInv'
<1> DEFINE o == lease["show"]
<1>1. o # NoOp /\ pc' = "settle" /\ UNCHANGED <<now, loaded>>
  BY DEF AdvanceShow, EndThink
<1>2. TypeOK /\ Begun
  BY DEF ScreenInv
<1>3. "show" \in DisplaySlots /\ "draw" \in DisplaySlots /\ "scroll" \in DisplaySlots
      /\ "show" \in Slots /\ "draw" \in Slots /\ "scroll" \in Slots
  BY DEF DisplaySlots, Slots
<1>4. lease["draw"] = NoOp /\ lease["scroll"] = NoOp /\ op[o].kind = "show"
      /\ \A s \in DisplaySlots : lease[s] # NoOp => s = "show"
  BY <1>1, <1>3 DEF LeaseInv, Exclusive, LeaseKinds
<1>5. CASE now < op[o].start + op[o].hold
  <2>1. UNCHANGED <<lease, op, handle, endings, screen>>
    BY <1>5 DEF AdvanceShow
  <2>2. TypeOK' /\ Begun'
    BY <1>1, <1>2, <2>1, TypesNow, TypesStep DEF Begun
  <2>3. Polled'
    BY <1>1, <1>4, <1>5, <2>1 DEF Polled, Current, Span
  <2>4. \A p \in Ops : Finished(p)' => Finished(p)
    BY <2>1 DEF Finished
  <2>5. FrameKept' /\ TextKept' /\ TextLeaves'
    BY <1>1, <1>4, <2>1, <2>4, DisplayStays
  <2> QED
    BY <2>2, <2>3, <2>5 DEF ScreenInv
<1>6. CASE ~(now < op[o].start + op[o].hold)
  <2>1. Release("show", "completed") /\ screen' = Dark
    BY <1>6 DEF AdvanceShow
  <2>2. /\ op' \in [Ops -> NatRecord]
        /\ \A s \in Slots : lease'[s] = IF s = "show" THEN NoOp ELSE lease[s]
        /\ \A s \in Slots : lease'[s] # NoOp => op'[lease[s]] = op[lease[s]]
    BY <1>1, <1>2, <1>3, <2>1, ReleaseShows
  <2>3. TypeOK'
    BY <1>1, <1>2, <2>1, <2>2, DarkTypes, TypesNow, TypesStep
  <2>4. Begun'
    BY <1>1, <1>2, <2>2, BegunStays, TypesNow
  <2>5. Polled'
    BY <1>1, <1>3, <1>4, <2>2 DEF Polled, Current, Slots
  <2>6. FrameKept' /\ TextKept' /\ TextLeaves'
    BY <1>3, <1>4, <2>1, <2>2, <2>3, DisplayDarkens
  <2> QED
    BY <2>3, <2>4, <2>5, <2>6 DEF ScreenInv
<1> QED
  BY <1>5, <1>6

(* The speaker's poll ends the tick.                                       *)
LEMMA SpeakerShows ==
    ASSUME ScreenInv, LeaseInv, LeaseInv', AdvancePlay
    PROVE  ScreenInv'
<1> DEFINE o == lease["play"]
<1>1. pc = "settle" /\ pc' = "idle" /\ UNCHANGED <<now, loaded, screen>>
  BY DEF AdvancePlay
<1>2. TypeOK /\ Begun /\ Polled
  BY DEF ScreenInv
<1>3. "play" \in Slots /\ DisplaySlots \subseteq Slots /\ "play" \notin DisplaySlots
  BY DEF DisplaySlots, Slots
<1>4. CASE o = NoOp \/ now < op[o].start + op[o].hold
  <2>1. UNCHANGED <<lease, op, handle, endings>>
    BY <1>4 DEF AdvancePlay
  <2>2. TypeOK' /\ Begun'
    BY <1>1, <1>2, <2>1, TypesNow, TypesStep DEF Begun
  <2>3. o # NoOp => op[o].kind = "play"
    BY <1>3 DEF LeaseInv, LeaseKinds
  <2>4. Polled'
    BY <1>1, <1>2, <1>4, <2>1, <2>3 DEF Polled, Current, Span
  <2>5. \A p \in Ops : Finished(p)' => Finished(p)
    BY <2>1 DEF Finished
  <2>6. FrameKept' /\ TextKept' /\ TextLeaves'
    BY <1>1, <2>1, <2>5, DisplayStays
  <2> QED
    BY <2>2, <2>4, <2>6 DEF ScreenInv
<1>5. CASE ~(o = NoOp \/ now < op[o].start + op[o].hold)
  <2>1. Release("play", "completed") /\ o # NoOp
    BY <1>5 DEF AdvancePlay
  <2>2. /\ op' \in [Ops -> NatRecord] /\ o \in Ops /\ op[o].kind = "play"
        /\ \A s \in Slots : lease'[s] = IF s = "play" THEN NoOp ELSE lease[s]
        /\ \A s \in Slots : lease'[s] # NoOp => op'[lease[s]] = op[lease[s]]
        /\ \A p \in Ops : op'[p].kind = op[p].kind
        /\ \A p \in Ops : p # o => endings'[p] = endings[p]
    BY <1>2, <1>3, <2>1, ReleaseShows
  <2>3. TypeOK'
    BY <1>1, <1>2, <2>2, TypesNow, TypesStep
  <2>4. Begun'
    BY <1>1, <1>2, <2>2, BegunStays, TypesNow
  <2>5. Polled'
    BY <1>1, <1>2, <1>3, <2>2 DEF Polled, Current, Span
  <2>6. \A p \in Ops : Finished(p)' => Finished(p)
    BY <2>2 DEF Finished
  <2>7. \A s \in DisplaySlots :
           lease'[s] = NoOp \/ (lease'[s] = lease[s] /\ op'[lease[s]] = op[lease[s]])
    BY <1>3, <2>2
  <2>8. FrameKept' /\ TextKept' /\ TextLeaves'
    BY <1>1, <2>6, <2>7, DisplayStays
  <2> QED
    BY <2>3, <2>4, <2>5, <2>8 DEF ScreenInv
<1> QED
  BY <1>4, <1>5

(* A rendering that goes on keeps what was asked of it.                    *)
LEMMA GoesOn ==
    ASSUME TypeOK, NEW o \in Ops, NEW n \in Nat, op' = [op EXCEPT ![o].rendered = n]
    PROVE  /\ op' \in [Ops -> NatRecord]
           /\ op'[o].rendered = n
           /\ \A p \in Ops : /\ op'[p].kind = op[p].kind /\ op'[p].start = op[p].start
                             /\ op'[p].length = op[p].length /\ op'[p].hold = op[p].hold
<1>1. op \in [Ops -> NatRecord]
  BY TypesNow
<1>2. ASSUME NEW r \in NatRecord
      PROVE  /\ [r EXCEPT !.rendered = n] \in NatRecord
             /\ [r EXCEPT !.rendered = n].rendered = n
             /\ [r EXCEPT !.rendered = n].kind = r.kind
             /\ [r EXCEPT !.rendered = n].start = r.start
             /\ [r EXCEPT !.rendered = n].length = r.length
             /\ [r EXCEPT !.rendered = n].hold = r.hold
  BY DEF NatRecord
<1>3. \A p \in Ops : op'[p] = IF p = o THEN [op[p] EXCEPT !.rendered = n] ELSE op[p]
  BY <1>1
<1>4. op' \in [Ops -> NatRecord]
  BY <1>1, <1>2
<1>5. \A p \in Ops : /\ op'[p].kind = op[p].kind /\ op'[p].start = op[p].start
                     /\ op'[p].length = op[p].length /\ op'[p].hold = op[p].hold
  BY <1>1, <1>2, <1>3
<1>6. op'[o].rendered = n
  BY <1>1, <1>2, <1>3
<1> QED
  BY <1>4, <1>5, <1>6

(* The poll of a draw paints the frame that is due, unless it is on show.  *)
LEMMA DrawShows ==
    ASSUME ScreenInv, LeaseInv, LeaseInv', AdvanceDraw
    PROVE  ScreenInv'
<1> DEFINE o == lease["draw"]
           due == (now - op[o].start) \div op[o].hold
           painted == IF op[o].rendered <= FrameDue(o) THEN FrameDue(o) + 1 ELSE op[o].rendered
<1>1. /\ o # NoOp /\ pc' = "settle" /\ UNCHANGED <<now, loaded>>
      /\ screen' = IF painted = op[o].rendered THEN screen ELSE Frame(o, painted - 1)
  BY DEF AdvanceDraw, EndThink
<1>2. TypeOK /\ Begun
  BY DEF ScreenInv
<1>3. "draw" \in DisplaySlots /\ "scroll" \in DisplaySlots
      /\ "draw" \in Slots /\ "scroll" \in Slots /\ DisplaySlots \subseteq Slots
  BY DEF DisplaySlots, Slots
<1>4. /\ o \in Ops /\ op[o].kind = "draw" /\ op[o].start \in Nat /\ op[o].start <= now
      /\ op[o].hold \in Nat \ {0} /\ op[o].length \in Nat /\ op[o].rendered \in Nat
  <2>1. o \in Ops /\ op[o].kind = "draw" /\ op[o].start <= now /\ op[o].hold > 0
    BY <1>1, <1>2, <1>3 DEF LeaseInv, Shapes, LeaseKinds, DrawsLast, Begun
  <2> QED
    BY <1>2, <2>1 DEF TypeOK
<1>5. /\ op[o].rendered - 1 \in 0..due
      /\ \A x \in Columns : screen[x] \in {Pixel, Frame(o, op[o].rendered - 1)[x]}
  BY <1>1 DEF ScreenInv, FrameKept
<1>6. \A s \in DisplaySlots : lease[s] # NoOp => s = "draw"
  BY <1>1, <1>3 DEF LeaseInv, Exclusive
<1>7. now - op[o].start \in Nat /\ op[o].length * op[o].hold \in Nat
      /\ now \in Nat
  <2>1. \A i, j \in Nat : i * j \in Nat
    OBVIOUS
  <2> QED
    BY <1>2, <1>4, <2>1, TypesNow
<1>8. due \in Nat /\ (due < op[o].length <=> now - op[o].start < op[o].length * op[o].hold)
  <2>1. PICK a \in Nat : a = now - op[o].start
    BY <1>7
  <2>2. PICK b \in Nat \ {0} : b = op[o].hold
    BY <1>4
  <2>3. a \div b \in Nat /\ \A n \in Int : a \div b < n <=> a < n * b
    BY Division
  <2>4. due = a \div b
    BY <2>1, <2>2
  <2> QED
    BY <1>4, <2>1, <2>2, <2>3, <2>4
<1>9. DrawOver(o) <=> ~(due < op[o].length)
  BY <1>4, <1>7, <1>8 DEF DrawOver
<1>10. FrameDue(o) = IF due < op[o].length - 1 THEN due ELSE op[o].length - 1
  BY DEF FrameDue
<1> HIDE DEF due
<1>11. /\ painted \in Nat /\ painted - 1 \in Nat
       /\ ~DrawOver(o) => painted - 1 = due
  BY <1>4, <1>5, <1>8, <1>9, <1>10
<1> HIDE DEF painted
<1>12. screen' \in [Columns -> Cells]
  <2>0. Columns \subseteq Nat \ {0}
    BY DEF Columns
  <2>1. \A x \in Columns : <<o, painted - 1, x - 1>> \in Cells
    BY <1>4, <1>11, <2>0 DEF Cells
  <2> QED
    BY <1>1, <1>2, <2>1, TypesNow DEF Frame
<1>13. \A x \in Columns : screen'[x] \in {Pixel, Frame(o, painted - 1)[x]}
  BY <1>1, <1>5 DEF Frame
<1>14. \A p \in Ops, x \in Columns : op[p].kind \in {"show", "scroll"} => screen'[x][1] # p
  <2>1. Pixel[1] = NoOp /\ \A x \in Columns : Frame(o, painted - 1)[x][1] = o
    BY DEF Pixel, Frame
  <2> QED
    BY <1>4, <1>13, <2>1, NoOpAssumption
<1>15. CASE ~DrawOver(o)
  <2>1. op' = [op EXCEPT ![o].rendered = painted] /\ UNCHANGED <<lease, handle, endings>>
    BY <1>15 DEF AdvanceDraw, painted
  <2>2. /\ op' \in [Ops -> NatRecord] /\ op'[o].rendered = painted
        /\ \A p \in Ops : /\ op'[p].kind = op[p].kind /\ op'[p].start = op[p].start
                          /\ op'[p].length = op[p].length /\ op'[p].hold = op[p].hold
    BY <1>2, <1>4, <1>11, <2>1, GoesOn
  <2>3. TypeOK'
    BY <1>1, <1>2, <1>12, <2>1, <2>2, TypesNow, TypesStep
  <2>4. Begun'
    <3>1. \A s \in Slots : lease[s] # NoOp => lease[s] \in Ops
      BY <1>2 DEF TypeOK
    <3> QED
      BY <1>1, <1>2, <2>1, <2>2, <3>1 DEF Begun
  <2>5. Polled'
    <3>1. now < op[o].start + op[o].length * op[o].hold
      BY <1>4, <1>7, <1>15 DEF DrawOver
    <3>2. \A s \in DisplaySlots : Current(s)'
      BY <1>1, <1>4, <1>6, <2>1, <2>2, <3>1 DEF Current, Span
    <3> QED
      BY <1>1, <3>2 DEF Polled
  <2>6. FrameKept'
    <3>1. (now' - op'[o].start) \div op'[o].hold = due
      BY <1>1, <1>4, <2>2 DEF due
    <3>2. op'[o].rendered - 1 = due /\ due \in 0..due
      BY <1>8, <1>11, <1>15, <2>2
    <3>3. \A x \in Columns : screen'[x] \in {Pixel, <<o, op'[o].rendered - 1, x - 1>>}
      BY <1>13, <2>2 DEF Frame
    <3>4. lease'["draw"] = o
      BY <2>1
    <3> QED
      BY <3>1, <3>2, <3>3, <3>4 DEF FrameKept, Frame
  <2>7. TextKept'
    BY <1>3, <1>6, <2>1 DEF TextKept
  <2>8. TextLeaves'
    BY <1>14, <2>2 DEF TextLeaves
  <2> QED
    BY <2>3, <2>4, <2>5, <2>6, <2>7, <2>8 DEF ScreenInv
<1>16. CASE DrawOver(o)
  <2>1. Release("draw", "completed")
    BY <1>16 DEF AdvanceDraw
  <2>2. /\ op' \in [Ops -> NatRecord]
        /\ \A s \in Slots : lease'[s] = IF s = "draw" THEN NoOp ELSE lease[s]
        /\ \A s \in Slots : lease'[s] # NoOp => op'[lease[s]] = op[lease[s]]
        /\ \A p \in Ops : op'[p].kind = op[p].kind
    BY <1>1, <1>2, <1>3, <2>1, ReleaseShows
  <2>3. TypeOK'
    BY <1>1, <1>2, <1>12, <2>2, TypesNow, TypesStep
  <2>4. Begun'
    BY <1>1, <1>2, <2>2, BegunStays, TypesNow
  <2>5. \A s \in DisplaySlots : lease'[s] = NoOp
    BY <1>3, <1>6, <2>2
  <2>6. Polled' /\ FrameKept' /\ TextKept'
    BY <1>1, <1>3, <2>5 DEF Polled, Current, FrameKept, TextKept
  <2>7. TextLeaves'
    BY <1>14, <2>2 DEF TextLeaves
  <2> QED
    BY <2>3, <2>4, <2>6, <2>7 DEF ScreenInv
<1> QED
  BY <1>15, <1>16

(* A step of the characters pastes a column of the text, one of the blank   *)
(* cycle does not.                                                         *)
LEMMA PastedText ==
    ASSUME TypeOK, NEW o \in Ops, NEW k \in Nat
    PROVE  /\ Pasted(o, k) \in Cells
           /\ Pasted(o, k)[1] \in {o, NoOp}
           /\ Pasted(o, k)[1] = o => k < StepsPerCharacter * op[o].length
<1>1. StepsPerCharacter \in Nat \ {0} /\ op[o].length \in Nat
  BY TypesNow DEF StepsPerCharacter, TypeOK
<1>2. k \div StepsPerCharacter \in Nat /\ k % StepsPerCharacter \in Nat
  BY <1>1, Division
<1>3. k \div StepsPerCharacter < op[o].length <=> k < op[o].length * StepsPerCharacter
  BY <1>1, Division
<1>4. op[o].length * StepsPerCharacter = StepsPerCharacter * op[o].length
  BY <1>1
<1>5. <<o, k \div StepsPerCharacter, k % StepsPerCharacter>> \in Cells /\ Blank \in Cells
  BY <1>2 DEF Cells
<1>6. Pasted(o, k) = IF k % StepsPerCharacter < Width /\ k \div StepsPerCharacter < op[o].length
                     THEN <<o, k \div StepsPerCharacter, k % StepsPerCharacter>> ELSE Blank
  BY DEF Pasted
<1>7. Blank[1] = NoOp /\ NoOp # o
  BY NoOpAssumption DEF Blank
<1> QED
  BY <1>3, <1>4, <1>5, <1>6, <1>7

(* The poll of a scroll: what is on the screen moved left, and the columns  *)
(* pasted since the last poll follow it.                                   *)
LEMMA ScrollShows ==
    ASSUME ScreenInv, LeaseInv, LeaseInv', AdvanceScroll
    PROVE  ScreenInv'
<1> DEFINE o == lease["scroll"]
           from == op[o].rendered
           to == IF StepDue(o) > op[o].rendered THEN StepDue(o) ELSE op[o].rendered
           blank == StepsPerCharacter * op[o].length
<1>1. /\ o # NoOp /\ pc' = "settle" /\ UNCHANGED <<now, loaded>>
      /\ screen' = Scrolled(o, from, to)
  BY DEF AdvanceScroll, EndThink
<1>2. TypeOK /\ Begun
  BY DEF ScreenInv
<1>3. "draw" \in DisplaySlots /\ "scroll" \in DisplaySlots
      /\ "draw" \in Slots /\ "scroll" \in Slots /\ DisplaySlots \subseteq Slots
  BY DEF DisplaySlots, Slots
<1>4. /\ o \in Ops /\ op[o].kind = "scroll" /\ op[o].start \in Nat /\ op[o].start <= now
      /\ op[o].hold \in Int /\ op[o].length \in Nat /\ op[o].rendered \in Nat
      /\ Width \in Nat \ {0} /\ now \in Nat
  <2>1. o \in Ops /\ op[o].kind = "scroll" /\ op[o].start <= now
    BY <1>1, <1>2, <1>3 DEF LeaseInv, Shapes, LeaseKinds, Begun
  <2> QED
    BY <1>2, <2>1, TypesNow DEF TypeOK
<1>5. /\ op[o].hold = ScrollSteps(op[o].length) /\ from < op[o].hold
      /\ \A x \in Columns : screen[x][1] = o => from - 1 - (Width - x) < blank
  BY <1>1 DEF ScreenInv, TextKept
<1>6. \A s \in DisplaySlots : lease[s] # NoOp => s = "scroll"
  BY <1>1, <1>3 DEF LeaseInv, Exclusive
<1>7. blank \in Nat /\ op[o].hold = blank + Width + 1
  <2>1. \A w, n \in Nat : (w + 1) * n \in Nat /\ (w + 1) * (n + 1) = (w + 1) * n + w + 1
    OBVIOUS
  <2> QED
    BY <1>4, <1>5, <2>1 DEF ScrollSteps, StepsPerCharacter
<1>8. to \in Nat /\ from <= to /\ to <= op[o].hold
      /\ (to < op[o].hold => now < op[o].start + op[o].hold)
  BY <1>4, <1>5, <1>7 DEF StepDue
<1> HIDE DEF to, blank
<1>9. ASSUME NEW x \in Columns
      PROVE  \/ \E y \in Columns : y = x + (to - from) /\ screen'[x] = screen[y]
             \/ \E k \in Nat : k = to - 1 - (Width - x) /\ screen'[x] = Pasted(o, k)
  <2>1. x \in Nat /\ 1 <= x /\ x <= Width /\ from \in Nat
    BY <1>4 DEF Columns
  <2>2. screen'[x] = IF x + (to - from) <= Width THEN screen[x + (to - from)]
                                                ELSE Pasted(o, to - 1 - (Width - x))
    BY <1>1, <1>9 DEF Scrolled
  <2>3. x + (to - from) <= Width => x + (to - from) \in Columns
    BY <1>4, <1>8, <2>1 DEF Columns
  <2>4. ~(x + (to - from) <= Width) => to - 1 - (Width - x) \in Nat
    BY <1>4, <1>8, <2>1
  <2> QED
    BY <2>2, <2>3, <2>4
<1>10. screen' \in [Columns -> Cells]
  <2>1. \A x \in Columns : screen'[x] \in Cells
    BY <1>2, <1>4, <1>9, PastedText, TypesNow
  <2> QED
    BY <1>1, <2>1 DEF Scrolled
<1>11. \A x \in Columns : screen'[x][1] = o => to - 1 - (Width - x) < blank
  <2> SUFFICES ASSUME NEW x \in Columns, screen'[x][1] = o
               PROVE  to - 1 - (Width - x) < blank
    OBVIOUS
  <2>1. CASE \E y \in Columns : y = x + (to - from) /\ screen'[x] = screen[y]
    <3>1. PICK y \in Columns : y = x + (to - from) /\ screen'[x] = screen[y]
      BY <2>1
    <3>2. from - 1 - (Width - y) < blank
      BY <1>5, <3>1
    <3>3. x \in Int /\ from \in Nat
      BY <1>4 DEF Columns
    <3> QED
      BY <1>4, <1>7, <1>8, <3>1, <3>2, <3>3
  <2>2. CASE \E k \in Nat : k = to - 1 - (Width - x) /\ screen'[x] = Pasted(o, k)
    BY <1>2, <1>4, <2>2, PastedText DEF blank
  <2> QED
    BY <1>9, <2>1, <2>2
<1>12. \A p \in Ops, x \in Columns : p # o /\ screen'[x][1] = p =>
          \E y \in Columns : screen[y][1] = p
  <2>1. ASSUME NEW k \in Nat PROVE Pasted(o, k)[1] \in {o, NoOp}
    BY <1>2, <1>4, PastedText
  <2> QED
    BY <1>9, <2>1, NoOpAssumption
<1>13. endings[o] = << >>
  BY <1>3, <1>4 DEF LeaseInv, Unreported, HoldsLease
<1>14. CASE to < op[o].hold
  <2>1. op' = [op EXCEPT ![o].rendered = to] /\ UNCHANGED <<lease, handle, endings>>
    BY <1>4, <1>8, <1>14 DEF AdvanceScroll, to
  <2>2. /\ op' \in [Ops -> NatRecord]
        /\ op'[o].rendered = to
        /\ \A p \in Ops : /\ op'[p].kind = op[p].kind /\ op'[p].start = op[p].start
                          /\ op'[p].length = op[p].length /\ op'[p].hold = op[p].hold
    BY <1>2, <1>4, <1>8, <2>1, GoesOn
  <2>3. TypeOK'
    BY <1>1, <1>2, <1>10, <2>1, <2>2, TypesNow, TypesStep
  <2>4. Begun'
    <3>1. \A s \in Slots : lease[s] # NoOp => lease[s] \in Ops
      BY <1>2 DEF TypeOK
    <3> QED
      BY <1>1, <1>2, <2>1, <2>2, <3>1 DEF Begun
  <2>5. Polled'
    <3>1. now < op[o].start + op[o].hold
      BY <1>8, <1>14
    <3>2. \A s \in DisplaySlots : Current(s)'
      BY <1>1, <1>4, <1>6, <2>1, <2>2, <3>1 DEF Current, Span
    <3> QED
      BY <1>1, <3>2 DEF Polled
  <2>6. FrameKept'
    BY <1>3, <1>6, <2>1 DEF FrameKept
  <2>7. TextKept'
    BY <1>5, <1>11, <1>14, <2>1, <2>2 DEF TextKept, blank
  <2>8. TextLeaves'
    <3>1. \A p \in Ops : op[p].kind \in {"show", "scroll"} /\ endings[p] = <<"completed">> =>
             p # o /\ \A y \in Columns : screen[y][1] # p
      <4>1. << >> # <<"completed">>
        OBVIOUS
      <4> QED
        BY <1>13, <4>1 DEF ScreenInv, TextLeaves
    <3> QED
      BY <1>12, <2>1, <2>2, <3>1 DEF TextLeaves
  <2> QED
    BY <2>3, <2>4, <2>5, <2>6, <2>7, <2>8 DEF ScreenInv
<1>15. CASE ~(to < op[o].hold)
  <2>1. Release("scroll", "completed") /\ to = op[o].hold
    BY <1>4, <1>8, <1>15 DEF AdvanceScroll, to
  <2>2. /\ op' \in [Ops -> NatRecord]
        /\ \A s \in Slots : lease'[s] = IF s = "scroll" THEN NoOp ELSE lease[s]
        /\ \A s \in Slots : lease'[s] # NoOp => op'[lease[s]] = op[lease[s]]
        /\ \A p \in Ops : op'[p].kind = op[p].kind
        /\ \A p \in Ops : p # o => endings'[p] = endings[p]
    BY <1>1, <1>2, <1>3, <2>1, ReleaseShows
  <2>3. TypeOK'
    BY <1>1, <1>2, <1>10, <2>2, TypesNow, TypesStep
  <2>4. Begun'
    BY <1>1, <1>2, <2>2, BegunStays, TypesNow
  <2>5. \A s \in DisplaySlots : lease'[s] = NoOp
    BY <1>3, <1>6, <2>2
  <2>6. Polled' /\ FrameKept' /\ TextKept'
    BY <1>1, <1>3, <2>5 DEF Polled, Current, FrameKept, TextKept
  <2>7. TextLeaves'
    <3>1. \A x \in Columns : screen'[x][1] # o
      <4>1. \A x \in Columns : ~(to - 1 - (Width - x) < blank)
        BY <1>4, <1>7, <1>8, <2>1 DEF Columns
      <4> QED
        BY <1>11, <4>1
    <3> QED
      BY <1>12, <2>2, <3>1 DEF ScreenInv, TextLeaves
  <2> QED
    BY <2>3, <2>4, <2>6, <2>7 DEF ScreenInv
<1> QED
  BY <1>14, <1>15

-----------------------------------------------------------------------------
(* Every step keeps the screen in time.                                    *)
LEMMA CallShows ==
    ASSUME ScreenInv, LeaseInv, LeaseInv', NEW o \in Ops,
           NEW immediately \in BOOLEAN, NEW background \in BOOLEAN
    PROVE  /\ \A n \in TextLengths : DisplayScroll(o, n, immediately, background) => ScreenInv'
           /\ \A n \in FrameCounts, d \in Durations :
                 DrawImage(o, n, d, immediately, background) => ScreenInv'
           /\ \A d \in Durations : PlayTone(o, d, immediately, background) => ScreenInv'
           /\ \A known \in BOOLEAN : PlaySound(o, known, immediately, background) => ScreenInv'
           /\ \A n \in TextLengths : ApiScrollText(o, n, immediately, background) => ScreenInv'
           /\ \A d \in Durations : ApiDrawImage(o, d, immediately, background) => ScreenInv'
           /\ \A wave \in BOOLEAN, d \in Durations :
                 ApiPlayTone(o, wave, d, immediately, background) => ScreenInv'
           /\ \A known \in BOOLEAN : ApiPlaySound(o, known, immediately, background) => ScreenInv'
<1>1. FrameCounts \subseteq Nat /\ Durations \subseteq Int /\ SoundLength \in Int
  BY DeviceAssumption
<1>2. \A d \in Durations : PlayTone(o, d, immediately, background) => ScreenInv'
  <2>1. \A d \in Int : ToneOutcome(d, immediately) \in {"held", "dropped"}
    BY DEF ToneOutcome
  <2> QED
    BY <1>1, <2>1, PlayShows DEF PlayTone
<1>3. \A known \in BOOLEAN : PlaySound(o, known, immediately, background) => ScreenInv'
  <2>1. \A known \in BOOLEAN : SoundOutcome(known, immediately) \in {"held", "dropped"}
    BY DEF SoundOutcome
  <2> QED
    BY <1>1, <2>1, PlayShows DEF PlaySound
<1>4. \A n \in TextLengths : DisplayScroll(o, n, immediately, background) => ScreenInv'
  BY TextShows
<1>5. \A n \in Nat, d \in Int : DrawImage(o, n, d, immediately, background) => ScreenInv'
  BY ImageShows
<1>6. \A wave \in BOOLEAN, d \in Durations :
         ApiPlayTone(o, wave, d, immediately, background) => ScreenInv'
  <2> SUFFICES ASSUME NEW wave \in BOOLEAN, NEW d \in Durations,
                      ApiPlayTone(o, wave, d, immediately, background)
               PROVE  ScreenInv'
    OBVIOUS
  <2>1. CASE wave
    BY <1>2, <2>1 DEF ApiPlayTone
  <2>2. CASE ~wave
    <3>1. Dispatch(o, Request("play", 1, d, 0, FALSE), {"play"}, immediately, "dropped")
          /\ UNCHANGED screen
      BY <2>2 DEF ApiPlayTone
    <3> QED
      BY <1>1, <3>1, PlayShows
  <2> QED
    BY <2>1, <2>2
<1>7. \A n \in TextLengths : ApiScrollText(o, n, immediately, background) => ScreenInv'
  BY <1>4 DEF ApiScrollText
<1>8. \A d \in Durations : ApiDrawImage(o, d, immediately, background) => ScreenInv'
  BY <1>1, <1>5 DEF ApiDrawImage
<1>9. \A known \in BOOLEAN : ApiPlaySound(o, known, immediately, background) => ScreenInv'
  BY <1>3 DEF ApiPlaySound
<1> QED
  BY <1>1, <1>2, <1>3, <1>4, <1>5, <1>6, <1>7, <1>8, <1>9

LEMMA ScreenStep ==
    ASSUME ~MayWrap, ScreenInv, LeaseInv, [Next]_vars
    PROVE  ScreenInv'
<1>0. LeaseInv'
  BY NextStep
<1>1. CASE Think
  <2>1. CASE \E o \in Ops, immediately, background \in BOOLEAN :
        \/ \E n \in TextLengths : DisplayScroll(o, n, immediately, background)
        \/ \E n \in FrameCounts, d \in Durations : DrawImage(o, n, d, immediately, background)
        \/ \E d \in Durations : PlayTone(o, d, immediately, background)
        \/ \E known \in BOOLEAN : PlaySound(o, known, immediately, background)
        \/ \E n \in TextLengths : ApiScrollText(o, n, immediately, background)
        \/ \E d \in Durations : ApiDrawImage(o, d, immediately, background)
        \/ \E wave \in BOOLEAN, d \in Durations : ApiPlayTone(o, wave, d, immediately, background)
        \/ \E known \in BOOLEAN : ApiPlaySound(o, known, immediately, background)
    <3>1. PICK o \in Ops, immediately \in BOOLEAN, background \in BOOLEAN :
        \/ \E n \in TextLengths : DisplayScroll(o, n, immediately, background)
        \/ \E n \in FrameCounts, d \in Durations : DrawImage(o, n, d, immediately, background)
        \/ \E d \in Durations : PlayTone(o, d, immediately, background)
        \/ \E known \in BOOLEAN : PlaySound(o, known, immediately, background)
        \/ \E n \in TextLengths : ApiScrollText(o, n, immediately, background)
        \/ \E d \in Durations : ApiDrawImage(o, d, immediately, background)
        \/ \E wave \in BOOLEAN, d \in Durations : ApiPlayTone(o, wave, d, immediately, background)
        \/ \E known \in BOOLEAN : ApiPlaySound(o, known, immediately, background)
      BY <2>1
    <3> QED
      BY <1>0, <3>1, CallShows
  <2>2. CASE DisplayClear \/ ApiClear
    BY <1>0, <2>2, ClearShows DEF ApiClear
  <2>3. CASE \E x \in Pixels : DisplaySetPixel(x) \/ ApiSetPixelValue(x)
    BY <1>0, <2>3, PixelShows DEF ApiSetPixelValue
  <2> QED
    BY <1>1, <2>1, <2>2, <2>3 DEF Think
<1>2. CASE Settle
  BY <1>0, <1>2, IdleShows, DrawShows, ShowShows, ScrollShows, SpeakerShows DEF Settle
<1>3. CASE Load \/ Unload
  <2>1. ResetDevice /\ loaded' \in BOOLEAN
    BY <1>3 DEF Load, Unload
  <2> QED
    BY <1>0, <2>1, ResetShows
<1>4. CASE \E milliseconds \in TickLengths : Tick(milliseconds)
  BY <1>0, <1>4, TickShows
<1>5. CASE UNCHANGED vars
  <2>1. UNCHANGED <<now, loaded, pc, lease, op, handle, endings, screen>>
    BY <1>5 DEF vars
  <2>2. TypeOK' /\ Begun' /\ Polled'
    BY <2>1 DEF ScreenInv, TypeOK, Begun, Polled, Current, Span
  <2>3. FrameKept' /\ TextKept' /\ TextLeaves'
    BY <2>1 DEF ScreenInv, FrameKept, TextKept, TextLeaves, Frame
  <2> QED
    BY <2>2, <2>3 DEF ScreenInv
<1> QED
  BY <1>1, <1>2, <1>3, <1>4, <1>5 DEF Next

LEMMA InitScreen == Init => ScreenInv
<1> SUFFICES ASSUME Init PROVE ScreenInv
  OBVIOUS
<1>1. /\ now = 0 /\ loaded = FALSE /\ pc = "idle" /\ screen = Dark
      /\ \A s \in Slots : lease[s] = NoOp
      /\ \A o \in Ops : op[o] = NoRequest
      /\ \A o \in Ops : op[o].kind = "none"
  BY DEF Init, Free, NoRequest
<1>2. "draw" \in Slots /\ "scroll" \in Slots /\ "play" \in Slots /\ DisplaySlots \subseteq Slots
  BY DEF DisplaySlots, Slots
<1>3. TypeOK
  <2>1. NoRequest \in NatRecord
    BY DEF NoRequest, NatRecord
  <2>2. << >> \in Seq(OperationEnd)
    BY EmptySeq
  <2>3. 0 \in 0..(Modulus - 1)
    BY DeviceAssumption
  <2> QED
    BY <1>1, <2>1, <2>2, <2>3, DarkTypes DEF Init, Free, TypeOK, NatRecord
<1>4. Begun /\ Polled /\ FrameKept /\ TextKept
  BY <1>1, <1>2 DEF Begun, Polled, Current, FrameKept, TextKept
<1>5. TextLeaves
  BY <1>1 DEF TextLeaves
<1> QED
  BY <1>3, <1>4, <1>5 DEF ScreenInv

(* How the poll keeps the screen in time: what holds a lease began in the   *)
(* past and is not over once it was polled, the frame on show is the last  *)
(* one painted, and a column of a text is as old as its place says.        *)
THEOREM ScreenInvariant ==
    ASSUME ~MayWrap
    PROVE  Spec => []ScreenInv
<1>1. Init => ScreenInv
  BY InitScreen
<1>2. LeaseInv /\ ScreenInv /\ [Next]_vars => ScreenInv'
  BY ScreenStep
<1>3. Spec => []LeaseInv
  BY LeaseInvariant
<1> QED
  BY <1>1, <1>2, <1>3, PTL DEF Spec

(* Between two ticks the screen is where the clock is (display.tick and the *)
(* three advances): one rendering at most, none that is over, the frame on  *)
(* show the one that is due, and nothing left of a text that finished,      *)
(* however long the ticks were.                                            *)
THEOREM ScreenStaysInTime ==
    ASSUME ~MayWrap
    PROVE  Spec => []ScreenInTime
<1>1. Spec => []LeaseInv
  BY LeaseInvariant
<1>2. Spec => []ScreenInv
  BY ScreenInvariant
<1>3. Spec => []OneRendering
  BY RenderingsExclude
<1>4. LeaseInv /\ ScreenInv /\ OneRendering => ScreenInTime
  <2> SUFFICES ASSUME LeaseInv, ScreenInv, OneRendering PROVE ScreenInTime
    OBVIOUS
  <2>1. TypeOK /\ TextLeaves
    BY DEF ScreenInv
  <2>2. NoneOverdue
    <3> SUFFICES ASSUME pc = "idle", NEW o \in Ops, HoldsLease(o)
                 PROVE  now < op[o].start + Span(o)
      BY DEF NoneOverdue
    <3>1. PICK s \in Slots : lease[s] = o
      BY DEF HoldsLease
    <3>2. Current(s)
      BY DEF ScreenInv, Polled, Slots
    <3> QED
      BY <3>1, <3>2, NoOpAssumption DEF Current
  <2>3. FrameShown
    <3> SUFFICES ASSUME pc = "idle", NEW o \in Ops, lease["draw"] = o, NEW x \in Columns
                 PROVE  screen[x] \in {Pixel, Frame(o, (now - op[o].start) \div op[o].hold)[x]}
      BY DEF FrameShown
    <3> QED
      BY NoOpAssumption DEF ScreenInv, FrameKept
  <2> QED
    BY <2>1, <2>2, <2>3 DEF ScreenInTime
<1> QED
  BY <1>1, <1>2, <1>3, <1>4, PTL
=============================================================================
