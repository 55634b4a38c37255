------------------------- MODULE BrainRuntimeProofs -------------------------
(***************************************************************************)
(* The handle table is sound: its types and its three safety invariants    *)
(* are inductive together, since the queue invariant needs the types, the  *)
(* count needs to know which slots are live and capped, and a free slot    *)
(* must be empty for a slot carved again to start afresh.                  *)
(*                                                                         *)
(* The think loop keeps its types, implements the handle table and never   *)
(* revives a finished fiber, for every page, rule tree, program, number of *)
(* fibers and number of handles.                                           *)
(*                                                                         *)
(* The types are not inductive alone.  A dispatch that called its body     *)
(* must still be run by a runnable fiber that holds the handle, the settle *)
(* walk must have a fiber, and a rule's fiber must run for that rule, or   *)
(* the index of a firing record could be no rule; RuntimeInv adds these.   *)
(***************************************************************************)
EXTENDS BrainRuntime, FiniteSetTheorems, SequenceTheorems, TLAPS

-----------------------------------------------------------------------------
(* The handle table, under every client that deletes a settled handle only  *)
(* through the drain.                                                       *)

TableInv ==
    /\ HandleTypeOK
    /\ CompletedSound
    /\ FreeSlotsEmpty
    /\ CappedAccounting

-----------------------------------------------------------------------------
(* Removing an element from a waiter list or the run queue leaves a        *)
(* sequence over the same set.                                             *)
LEMMA WithoutType ==
    ASSUME NEW S, NEW s \in Seq(S), NEW x
    PROVE  Without(s, x) \in Seq(S)
<1>1. CASE ~InSeq(x, s)
  BY <1>1 DEF Without
<1>2. CASE InSeq(x, s)
  <2> DEFINE P(i) == s[i] = x /\ \A j \in 1..(i - 1) : s[j] # x
             k == CHOOSE i \in 1..Len(s) : P(i)
             t == [i \in 1..(Len(s) - 1) |-> IF i < k THEN s[i] ELSE s[i + 1]]
  <2>1. Len(s) \in Nat \ {0}
    BY <1>2, LenProperties DEF InSeq
  <2>2. \A i \in 1..(Len(s) - 1) : (IF i < k THEN s[i] ELSE s[i + 1]) \in S
    BY <2>1, ElementOfSeq
  <2>3. t \in [1..(Len(s) - 1) -> S]
    BY <2>2
  <2>4. t \in Seq(S)
    BY <2>1, <2>3, SeqDef
  <2> QED
    BY <1>2, <2>4 DEF Without
<1> QED
  BY <1>1, <1>2

(* Appending adds one element, and keeps a sequence without repetitions    *)
(* when the element is new.                                                *)
LEMMA AppendElements ==
    ASSUME NEW S, NEW s \in Seq(S), NEW e \in S
    PROVE  /\ \A x : InSeq(x, Append(s, e)) <=> InSeq(x, s) \/ x = e
           /\ Distinct(s) /\ ~InSeq(e, s) => Distinct(Append(s, e))
<1>1. Len(s) \in Nat /\ Len(Append(s, e)) = Len(s) + 1
  BY AppendProperties, LenProperties
<1>2. \A i \in 1..Len(s) : Append(s, e)[i] = s[i]
  BY AppendProperties
<1>3. Append(s, e)[Len(s) + 1] = e
  BY AppendProperties
<1>4. ASSUME NEW x
      PROVE  InSeq(x, Append(s, e)) <=> InSeq(x, s) \/ x = e
  <2>1. InSeq(x, s) => InSeq(x, Append(s, e))
    BY <1>1, <1>2 DEF InSeq
  <2>2. x = e => InSeq(x, Append(s, e))
    BY <1>1, <1>3 DEF InSeq
  <2>3. InSeq(x, Append(s, e)) => InSeq(x, s) \/ x = e
    BY <1>1, <1>2, <1>3 DEF InSeq
  <2> QED
    BY <2>1, <2>2, <2>3
<1>5. Distinct(s) /\ ~InSeq(e, s) => Distinct(Append(s, e))
  BY <1>1, <1>2, <1>3 DEF Distinct, InSeq
<1> QED
  BY <1>4, <1>5

(* Dropping the head of a sequence without repetitions removes exactly the *)
(* head.                                                                   *)
LEMMA TailElements ==
    ASSUME NEW S, NEW s \in Seq(S), s # << >>, Distinct(s)
    PROVE  /\ \A x : InSeq(x, Tail(s)) <=> InSeq(x, s) /\ x # Head(s)
           /\ Distinct(Tail(s))
<1>1. Len(s) \in Nat \ {0} /\ Len(Tail(s)) = Len(s) - 1 /\ Head(s) = s[1]
  BY HeadTailProperties, EmptySeq
<1>2. \A i \in 1..(Len(s) - 1) : Tail(s)[i] = s[i + 1]
  BY <1>1, HeadTailProperties
<1>3. ASSUME NEW x
      PROVE  InSeq(x, Tail(s)) <=> InSeq(x, s) /\ x # Head(s)
  <2>1. ASSUME InSeq(x, Tail(s))
        PROVE  InSeq(x, s) /\ x # Head(s)
    <3>1. PICK i \in 1..(Len(s) - 1) : x = s[i + 1]
      BY <1>1, <1>2, <2>1 DEF InSeq
    <3>2. i + 1 \in 1..Len(s) /\ 1 \in 1..Len(s) /\ i + 1 # 1
      BY <1>1
    <3> QED
      BY <1>1, <3>1, <3>2 DEF InSeq, Distinct
  <2>2. ASSUME InSeq(x, s), x # Head(s)
        PROVE  InSeq(x, Tail(s))
    <3>1. PICK i \in 1..Len(s) : s[i] = x
      BY <2>2 DEF InSeq
    <3>2. i - 1 \in 1..(Len(s) - 1) /\ (i - 1) + 1 = i
      BY <1>1, <2>2, <3>1
    <3> QED
      BY <1>1, <1>2, <3>1, <3>2 DEF InSeq
  <2> QED
    BY <2>1, <2>2
<1>4. Distinct(Tail(s))
  BY <1>1, <1>2 DEF Distinct
<1> QED
  BY <1>3, <1>4

-----------------------------------------------------------------------------
(* The live capped handles are a finite set.                               *)
LEMMA CappedFinite ==
    /\ IsFiniteSet(CappedHandles)
    /\ Cardinality(CappedHandles) \in Nat
BY HandlesAssumption, FS_Subset, FS_CardinalityType DEF CappedHandles, LiveHandles

(* An empty table satisfies the invariant (initially and after clear).     *)
LEMMA InitTableInv ==
    HandleTableInit => TableInv
<1> SUFFICES ASSUME HandleTableInit PROVE TableInv
  OBVIOUS
<1> USE DEF HandleTableInit
<1>1. HandleTypeOK
  BY EmptySeq DEF HandleTypeOK, HandleState, Values
<1>2. CompletedSound
  BY EmptySeq DEF CompletedSound, InSeq, Distinct, Settled
<1>3. FreeSlotsEmpty
  BY DEF FreeSlotsEmpty
<1>4. CappedAccounting
  <2>1. CappedHandles = {}
    BY DEF CappedHandles, LiveHandles
  <2> QED
    BY <2>1, FS_EmptySet, MaxHandlesAssumption DEF CappedAccounting
<1> QED
  BY <1>1, <1>2, <1>3, <1>4 DEF TableInv

LEMMA CreatePreserves ==
    ASSUME TableInv, NEW h \in Handles, NEW capped \in BOOLEAN,
           CreatePending(h, capped)
    PROVE  TableInv'
<1> USE DEF TableInv
<1>1. HandleTypeOK'
  BY EmptySeq DEF HandleTypeOK, HandleState, Values, CreatePending
<1>2. CompletedSound'
  BY DEF HandleTypeOK, CompletedSound, CreatePending, Settled
<1>3. FreeSlotsEmpty'
  BY DEF HandleTypeOK, FreeSlotsEmpty, CreatePending
<1>4. CappedAccounting'
  <2>1. h \notin CappedHandles
    BY DEF CreatePending, CappedHandles, LiveHandles
  <2>2. CappedHandles' = IF capped THEN CappedHandles \cup {h} ELSE CappedHandles
    BY DEF HandleTypeOK, CreatePending, CappedHandles, LiveHandles
  <2>3. Cardinality(CappedHandles \cup {h}) = Cardinality(CappedHandles) + 1
    BY <2>1, CappedFinite, FS_AddElement
  <2>4. cappedCount' = IF capped THEN cappedCount + 1 ELSE cappedCount
    BY DEF CreatePending
  <2>5. cappedCount = Cardinality(CappedHandles) /\ cappedCount <= MaxHandles
    BY DEF CappedAccounting
  <2>6. capped => cappedCount < MaxHandles
    BY DEF CreatePending, HasCapacity
  <2>7. cappedCount \in Nat
    BY DEF HandleTypeOK
  <2>8. cappedCount' = Cardinality(CappedHandles')
    BY <2>2, <2>3, <2>4, <2>5
  <2>9. cappedCount' <= MaxHandles
    BY <2>4, <2>5, <2>6, <2>7, MaxHandlesAssumption
  <2> QED
    BY <2>8, <2>9 DEF CappedAccounting
<1> QED
  BY <1>1, <1>2, <1>3, <1>4

LEMMA SettlePreserves ==
    ASSUME TableInv, NEW h \in Handles, NEW outcome \in Settled,
           NEW value \in Values, Settle(h, outcome, value)
    PROVE  TableInv'
<1> USE DEF TableInv
<1>1. CASE hstate[h] # "Pending"
  BY <1>1 DEF Settle, handleVars, HandleTypeOK, CompletedSound, FreeSlotsEmpty,
              CappedAccounting, CappedHandles, LiveHandles
<1>2. CASE hstate[h] = "Pending"
  <2>1. /\ hstate' = [hstate EXCEPT ![h] = outcome]
        /\ hresult' = [hresult EXCEPT ![h] = value]
        /\ completed' = Append(completed, h)
        /\ UNCHANGED <<hcapped, waiters, cappedCount>>
    BY <1>2 DEF Settle
  <2>2. HandleTypeOK'
    BY <2>1, AppendProperties DEF HandleTypeOK, HandleState
  <2>3. CompletedSound'
    <3>1. ~InSeq(h, completed)
      BY <1>2 DEF CompletedSound, Settled
    <3>2. completed \in Seq(Handles)
      BY DEF HandleTypeOK
    <3>3. Distinct(completed')
      BY <2>1, <3>1, <3>2, AppendElements DEF CompletedSound
    <3>4. \A g \in Handles : InSeq(g, completed') <=> InSeq(g, completed) \/ g = h
      BY <2>1, <3>2, AppendElements
    <3>5. \A g \in Handles : hstate'[g] = IF g = h THEN outcome ELSE hstate[g]
      BY <2>1 DEF HandleTypeOK
    <3> QED
      BY <3>3, <3>4, <3>5 DEF CompletedSound
  <2>4. FreeSlotsEmpty'
    BY <1>2, <2>1 DEF HandleTypeOK, FreeSlotsEmpty, Settled
  <2>5. CappedAccounting'
    <3>1. CappedHandles' = CappedHandles
      BY <1>2, <2>1 DEF HandleTypeOK, CappedHandles, LiveHandles, Settled
    <3> QED
      BY <2>1, <3>1 DEF CappedAccounting
  <2> QED
    BY <2>2, <2>3, <2>4, <2>5
<1> QED
  BY <1>1, <1>2

(* A step that changes waiter lists of live handles only.                  *)
LEMMA WaitersPreserve ==
    ASSUME TableInv, NEW h \in Handles, NEW w \in Seq(Fibers),
           waiters' = [waiters EXCEPT ![h] = w],
           hstate[h] = "Free" => w = << >>,
           UNCHANGED <<hstate, hresult, hcapped, completed, cappedCount>>
    PROVE  TableInv'
BY DEF TableInv, HandleTypeOK, CompletedSound, FreeSlotsEmpty, CappedAccounting,
       CappedHandles, LiveHandles

(* Deleting a handle that has left, or never joined, the completed queue.  *)
LEMMA DeletePreserves ==
    ASSUME TableInv, NEW h \in Handles, DeleteHandle(h),
           completed' \in Seq(Handles), Distinct(completed'),
           \A g \in Handles : InSeq(g, completed') <=> InSeq(g, completed) /\ g # h
    PROVE  TableInv'
<1> USE DEF TableInv
<1>1. h \in CappedHandles <=> hcapped[h]
  BY DEF CappedHandles, LiveHandles, DeleteHandle
<1>2. CappedHandles' = CappedHandles \ {h}
  BY DEF HandleTypeOK, DeleteHandle, CappedHandles, LiveHandles
<1>3. cappedCount' = Cardinality(CappedHandles') /\ cappedCount' \in Nat
  <2>1. /\ IsFiniteSet(CappedHandles \ {h})
        /\ Cardinality(CappedHandles \ {h}) =
             IF h \in CappedHandles THEN Cardinality(CappedHandles) - 1
                                    ELSE Cardinality(CappedHandles)
    BY CappedFinite, FS_RemoveElement
  <2>2. Cardinality(CappedHandles \ {h}) \in Nat
    BY <2>1, FS_CardinalityType
  <2>3. cappedCount' = IF hcapped[h] THEN cappedCount - 1 ELSE cappedCount
    BY DEF DeleteHandle
  <2>4. cappedCount = Cardinality(CappedHandles)
    BY DEF CappedAccounting
  <2>5. cappedCount' = Cardinality(CappedHandles \ {h})
    BY <1>1, <2>1, <2>3, <2>4
  <2> QED
    BY <1>2, <2>2, <2>5
<1>4. cappedCount' <= MaxHandles
  BY MaxHandlesAssumption DEF CappedAccounting, DeleteHandle, HandleTypeOK
<1>5. HandleTypeOK'
  BY <1>3, EmptySeq DEF HandleTypeOK, HandleState, Values, DeleteHandle
<1>6. CompletedSound'
  BY DEF HandleTypeOK, CompletedSound, DeleteHandle, Settled
<1>7. FreeSlotsEmpty'
  BY DEF HandleTypeOK, FreeSlotsEmpty, DeleteHandle
<1> QED
  BY <1>3, <1>4, <1>5, <1>6, <1>7 DEF CappedAccounting

LEMMA RollbackPreserves ==
    ASSUME TableInv, NEW h \in Handles, Rollback(h)
    PROVE  TableInv'
<1>1. ~InSeq(h, completed)
  BY DEF Rollback, TableInv, CompletedSound, Settled
<1>2. completed' = completed
  BY DEF Rollback
<1> QED
  BY <1>1, <1>2, DeletePreserves DEF Rollback, TableInv, HandleTypeOK, CompletedSound

LEMMA ReclaimPreserves ==
    ASSUME TableInv, Reclaim
    PROVE  TableInv'
<1>1. completed \in Seq(Handles) /\ completed # << >> /\ Distinct(completed)
  BY DEF Reclaim, TableInv, HandleTypeOK, CompletedSound
<1>2. Head(completed) \in Handles /\ Tail(completed) \in Seq(Handles)
  BY <1>1, HeadTailProperties
<1> QED
  BY <1>1, <1>2, TailElements, DeletePreserves DEF Reclaim

LEMMA ClearPreserves ==
    ASSUME Clear
    PROVE  TableInv'
<1> USE DEF Clear
<1>1. HandleTypeOK'
  BY EmptySeq DEF HandleTypeOK, HandleState, Values
<1>2. CompletedSound'
  BY EmptySeq DEF CompletedSound, InSeq, Distinct, Settled
<1>3. FreeSlotsEmpty'
  BY DEF FreeSlotsEmpty
<1>4. CappedAccounting'
  <2>1. CappedHandles' = {}
    BY DEF CappedHandles, LiveHandles
  <2> QED
    BY <2>1, FS_EmptySet, MaxHandlesAssumption DEF CappedAccounting
<1> QED
  BY <1>1, <1>2, <1>3, <1>4 DEF TableInv

(* Every step of the table preserves the invariant.                        *)
LEMMA NextTableInv ==
    TableInv /\ [HandleTableNext]_handleVars => TableInv'
<1> SUFFICES ASSUME TableInv, [HandleTableNext]_handleVars PROVE TableInv'
  OBVIOUS
<1>1. ASSUME NEW h \in Handles, NEW capped \in BOOLEAN, CreatePending(h, capped)
      PROVE  TableInv'
  BY <1>1, CreatePreserves
<1>2. ASSUME NEW h \in Handles, NEW outcome \in Settled, NEW value \in Values,
             Settle(h, outcome, value)
      PROVE  TableInv'
  BY <1>2, SettlePreserves
<1>3. ASSUME NEW h \in Handles, NEW f \in Fibers, AddWaiter(h, f)
      PROVE  TableInv'
  <2>1. CASE UNCHANGED handleVars
    BY <2>1 DEF handleVars, TableInv, HandleTypeOK, CompletedSound, FreeSlotsEmpty,
                CappedAccounting, CappedHandles, LiveHandles
  <2>2. CASE ~UNCHANGED handleVars
    <3>1. Append(waiters[h], f) \in Seq(Fibers)
      BY AppendProperties DEF TableInv, HandleTypeOK
    <3> QED
      BY <1>3, <2>2, <3>1, WaitersPreserve DEF AddWaiter
  <2> QED
    BY <2>1, <2>2
<1>4. ASSUME NEW h \in Handles, NEW f \in Fibers, RemoveWaiter(h, f)
      PROVE  TableInv'
  <2>1. Without(waiters[h], f) \in Seq(Fibers)
    BY WithoutType DEF TableInv, HandleTypeOK
  <2>2. hstate[h] = "Free" => Without(waiters[h], f) = << >>
    BY EmptySeq DEF TableInv, FreeSlotsEmpty, Without, InSeq
  <2> QED
    BY <1>4, <2>1, <2>2, WaitersPreserve DEF RemoveWaiter
<1>5. ASSUME NEW h \in Handles, Rollback(h)
      PROVE  TableInv'
  BY <1>5, RollbackPreserves
<1>6. CASE VisitWaiter
  <2>1. Head(completed) \in Handles
    BY <1>6, HeadTailProperties DEF VisitWaiter, TableInv, HandleTypeOK
  <2>2. Tail(waiters[Head(completed)]) \in Seq(Fibers)
    BY <1>6, <2>1, HeadTailProperties DEF VisitWaiter, TableInv, HandleTypeOK
  <2>3. hstate[Head(completed)] # "Free"
    BY <1>6, <2>1 DEF VisitWaiter, TableInv, FreeSlotsEmpty
  <2> QED
    BY <1>6, <2>1, <2>2, <2>3, WaitersPreserve DEF VisitWaiter
<1>7. CASE Reclaim
  BY <1>7, ReclaimPreserves
<1>8. CASE Clear
  BY <1>8, ClearPreserves
<1>9. CASE UNCHANGED handleVars
  BY <1>9 DEF handleVars, TableInv, HandleTypeOK, CompletedSound, FreeSlotsEmpty,
              CappedAccounting, CappedHandles, LiveHandles
<1> QED
  BY <1>1, <1>2, <1>3, <1>4, <1>5, <1>6, <1>7, <1>8, <1>9 DEF HandleTableNext

(* The table keeps its types, its queue, its free slots and its count.     *)
THEOREM TableInvariant ==
    HandleTableSpec => []TableInv
<1>1. HandleTableInit => TableInv
  BY InitTableInv
<1>2. TableInv /\ [HandleTableNext]_handleVars => TableInv'
  BY NextTableInv
<1> QED
  BY <1>1, <1>2, PTL DEF HandleTableSpec

(* Settled handles and the completed queue are the same set, without       *)
(* repetitions, for any number of handles and fibers.                      *)
THEOREM CompletedQueueSound ==
    HandleTableSpec => []CompletedSound
<1>1. TableInv => CompletedSound
  BY DEF TableInv
<1> QED
  BY <1>1, TableInvariant, PTL

(* The count the backpressure test reads is the number of live capped      *)
(* handles, and never exceeds maxHandles.                                  *)
THEOREM CappedCountSound ==
    HandleTableSpec => []CappedAccounting
<1>1. TableInv => CappedAccounting
  BY DEF TableInv
<1> QED
  BY <1>1, TableInvariant, PTL

(* No step changes the outcome of a settled handle.                        *)
THEOREM OutcomeIsFinal ==
    HandleTableSpec => SettleOnce
<1> DEFINE Keeps(h) == hstate[h] \in Settled => hstate'[h] \in {hstate[h], "Free"}
<1>1. ASSUME TableInv, [HandleTableNext]_handleVars
      PROVE  [\A h \in Handles : Keeps(h)]_handleVars
  <2> SUFFICES ASSUME NEW h \in Handles, HandleTableNext PROVE Keeps(h)
    BY <1>1
  <2>1. hstate \in [Handles -> HandleState]
    BY <1>1 DEF TableInv, HandleTypeOK
  <2>2. CASE \E g \in Handles, capped \in BOOLEAN : CreatePending(g, capped)
    BY <2>1, <2>2 DEF CreatePending, Settled
  <2>3. CASE \E g \in Handles, outcome \in Settled, value \in Values :
                Settle(g, outcome, value)
    BY <2>1, <2>3 DEF Settle, Settled, handleVars
  <2>4. CASE \E g \in Handles : DeleteHandle(g)
    BY <2>1, <2>4 DEF DeleteHandle
  <2>5. CASE hstate' = hstate
    BY <2>5
  <2>6. CASE Clear
    BY <2>6 DEF Clear
  <2>7. completed # << >> => Head(completed) \in Handles
    BY <1>1, HeadTailProperties DEF TableInv, HandleTypeOK
  <2> QED
    BY <2>2, <2>3, <2>4, <2>5, <2>6, <2>7
    DEF HandleTableNext, AddWaiter, RemoveWaiter, VisitWaiter, Rollback, Reclaim,
        handleVars
<1> QED
  BY <1>1, TableInvariant, PTL DEF HandleTableSpec, SettleOnce

-----------------------------------------------------------------------------
(* The runtime.                                                             *)

(* A fiber in use runs a function of the program; a rule runs for itself.  *)
SoundRecord ==
    {r \in FiberRecord : r.state # "Free" => /\ r.func \in Funcs
                                             /\ r.func \in Rules => r.rule = r.func}
FiberInv == fiber \in [Fibers -> SoundRecord]

Dispatching ==
    /\ running \in Fibers
    /\ fiber[running].state = "Runnable"
    /\ fiber[running].held \in Handles
ControlInv ==
    /\ ControlTypeOK
    /\ pc = "settle" => walk.fiber \in Fibers
    /\ pc \in {"body", "sensor"} => Dispatching
    /\ pc = "sensor" => fiber[running].func \in Rules

RuntimeInv ==
    /\ TableInv
    /\ FiberInv
    /\ QueueTypeOK
    /\ RuleTypeOK
    /\ ControlInv
    /\ PageTypeOK

(* What every step must do; FinalStep is TerminalIsFinal for one step.     *)
TableStep == [HandleTableNext]_handleVars
FinalStep ==
    \A f \in Fibers : FiberHas(f, Terminal) => fiber'[f].state \in {fiber[f].state, "Free"}
FiberStep == FiberInv' /\ FinalStep
SoundStep ==
    /\ TableStep
    /\ FiberStep
    /\ QueueTypeOK'
    /\ RuleTypeOK'
    /\ ControlInv'
    /\ PageTypeOK'

-----------------------------------------------------------------------------
(* A slot found free is a slot; a fresh record is a sound one.             *)
LEMMA FreshHandleType ==
    ASSUME NEW capped, CanCreate(capped)
    PROVE  FreshHandle \in Handles
BY DEF CanCreate, FreshHandle

LEMMA FreshFiberType ==
    CanSpawn => FreshFiber \in Fibers /\ fiber[FreshFiber].state = "Free"
BY DEF CanSpawn, FreshFiber

LEMMA NoRefusal ==
    0 \in 0..(FaultRounds - 1)
BY FunctionsAssumption

LEMMA NewFiberSound ==
    ASSUME NEW fn \in Funcs, NEW r \in Rules \cup {NoRule},
           NEW root \in Rules \cup {NoRule}, NEW res \in Handles \cup {NoHandle},
           fn \in Rules => r = fn
    PROVE  NewFiber(fn, r, root, res) \in SoundRecord
BY FunctionsAssumption
DEF NewFiber, SoundRecord, FiberRecord, FiberState, Values

LEMMA FreeFiberSound ==
    FreeFiber \in SoundRecord /\ FreeFiber.state = "Free"
<1> DEFINE blank == NewFiber(NoRule, NoRule, NoRule, NoHandle)
<1>1. blank \in FiberRecord
  BY NoRefusal DEF NewFiber, FiberRecord, FiberState, Values
<1> HIDE DEF blank
<1>2. FreeFiber = [blank EXCEPT !.state = "Free"]
  BY DEF FreeFiber, blank
<1> QED
  BY <1>1, <1>2 DEF SoundRecord, FiberRecord, FiberState

(* Replacing the record of a fiber that is not finished.                   *)
LEMMA RecordStep ==
    ASSUME FiberInv, NEW f \in Fibers, ~FiberHas(f, Terminal),
           NEW record \in SoundRecord, fiber' = [fiber EXCEPT ![f] = record]
    PROVE  FiberStep
BY DEF FiberInv, FiberStep, FinalStep, FiberHas

LEMMA NoFiberStep ==
    FiberInv /\ UNCHANGED fiber => FiberStep
BY DEF FiberInv, FiberStep, FinalStep

(* A fiber that is run is a rule or an action, and not a finished one.     *)
LEMMA RunnableFiber ==
    ASSUME FiberInv, NEW f \in Fibers, fiber[f].state = "Runnable"
    PROVE  /\ fiber[f] \in SoundRecord /\ fiber[f] \in FiberRecord
           /\ fiber[f].func \in Funcs
           /\ fiber[f].func \in Rules => fiber[f].rule = fiber[f].func
           /\ ~FiberHas(f, Terminal)
BY DEF FiberInv, SoundRecord, FiberHas, Terminal

(* The changes of a record that keep the state, the function and the rule. *)
LEMMA Advance ==
    ASSUME FiberInv, NEW f \in Fibers, fiber[f].state = "Runnable",
           NEW ip \in Nat \ {0}, NEW held \in Handles \cup {NoHandle, Gone},
           NEW top \in Values, NEW throwing \in BOOLEAN, NEW rounds \in 0..(FaultRounds - 1)
    PROVE  [fiber[f] EXCEPT !.ip = ip, !.held = held, !.top = top,
                            !.throwing = throwing, !.rounds = rounds] \in SoundRecord
BY ZenonT(60), RunnableFiber DEF SoundRecord, FiberRecord

(* The three ways a step of a slice ends.                                  *)
LEMMA FinishSliceSound ==
    ASSUME RuntimeInv, NEW f \in Fibers, fiber[f].state = "Runnable",
           NEW terminal \in Terminal, FinishSlice(f, terminal)
    PROVE  FiberStep /\ QueueTypeOK' /\ ControlInv'
<1> DEFINE record == [fiber[f] EXCEPT !.state = terminal, !.held = NoHandle]
<1> USE DEF RuntimeInv
<1>1. record \in SoundRecord
  BY ZenonT(60), RunnableFiber DEF SoundRecord, FiberRecord, FiberState, Terminal
<1>2. fiber' = [fiber EXCEPT ![f] = record]
  BY DEF FinishSlice, FiberInv, SoundRecord, FiberRecord
<1>3. FiberStep
  BY <1>1, <1>2, RunnableFiber, RecordStep
<1>4. QueueTypeOK'
  BY DEF FinishSlice, queueVars, QueueTypeOK
<1>5. ControlInv'
  <2>1. fiber[f].rule \in Rules \cup {NoRule}
    BY RunnableFiber DEF FiberRecord
  <2> QED
    BY <2>1 DEF FinishSlice, StartWalk, EndSlice, ControlInv, ControlTypeOK
<1> QED
  BY <1>3, <1>4, <1>5

LEMMA YieldSliceSound ==
    ASSUME RuntimeInv, NEW f \in Fibers, fiber[f].state = "Runnable",
           NEW record \in SoundRecord, YieldSlice(f, record)
    PROVE  FiberStep /\ QueueTypeOK' /\ ControlInv'
<1> USE DEF RuntimeInv
<1>1. FiberStep
  BY RunnableFiber, RecordStep DEF YieldSlice
<1>2. QueueTypeOK'
  BY AppendProperties DEF YieldSlice, QueueTypeOK
<1>3. ControlInv'
  BY DEF YieldSlice, EndSlice, ControlInv, ControlTypeOK
<1> QED
  BY <1>1, <1>2, <1>3

LEMMA ContinueSound ==
    ControlInv /\ pc = "slice" /\ Continue => ControlInv'
BY DEF ControlInv, ControlTypeOK, Continue

-----------------------------------------------------------------------------
(* A step that leaves the table, the rules' records and the page alone is  *)
(* judged by its fiber, its queues and its control.                        *)
LEMMA QuietStep ==
    ASSUME RuntimeInv, FiberStep, QueueTypeOK', ControlInv',
           UNCHANGED <<handleVars, ruleVars, device, thinkVars>>
    PROVE  SoundStep
BY
DEF SoundStep, TableStep, RuntimeInv, RuleTypeOK, PageTypeOK, ruleVars, thinkVars,
    pageVars, loopVars

(* The running fiber at an instruction of its function.                    *)
LEMMA AtInstruction ==
    ASSUME RuntimeInv, NEW f \in Fibers, NEW op, At(f, op)
    PROVE  /\ pc = "slice" /\ running = f /\ fiber[f].state = "Runnable"
           /\ fiber[f].held = NoHandle
           /\ op = "action" => Arg(f) \in Actions
           /\ op = "spawn" => Arg(f) \in Rules
           /\ op \in {"when", "gate", "chain", "trigger"} =>
                 fiber[f].func \in Rules /\ fiber[f].rule \in Rules
           /\ op = "page" => Arg(f) \in Pages
<1>1. pc = "slice" /\ running = f /\ fiber[f].state = "Runnable" /\ fiber[f].held = NoHandle
  BY DEF At, AtNext, InSlice
<1>2. /\ fiber[f].func \in Funcs
      /\ fiber[f].func \in Rules => fiber[f].rule = fiber[f].func
  BY <1>1, RunnableFiber DEF RuntimeInv
<1>3. /\ fiber[f].ip \in 1..Len(Code[fiber[f].func])
      /\ Code[fiber[f].func][fiber[f].ip].op = op
  BY DEF At
<1> QED
  BY <1>1, <1>2, <1>3, CodeAssumption DEF Arg

(* The running fiber goes on, its record changed and still sound.          *)
LEMMA ContinueStep ==
    ASSUME RuntimeInv, NEW f \in Fibers, pc = "slice", fiber[f].state = "Runnable",
           NEW record \in SoundRecord, fiber' = [fiber EXCEPT ![f] = record],
           Continue, UNCHANGED queueVars
    PROVE  FiberStep /\ QueueTypeOK' /\ ControlInv'
BY RunnableFiber, RecordStep, ContinueSound DEF RuntimeInv, QueueTypeOK, queueVars

(* The dispatch sites: a fresh handle goes on the stack and a body runs.   *)
LEMMA DispatchStep ==
    ASSUME RuntimeInv, NEW f \in Fibers, pc = "slice", running = f,
           fiber[f].state = "Runnable",
           NEW capped \in BOOLEAN, CanCreate(capped),
           CreatePending(FreshHandle, capped),
           fiber' = [fiber EXCEPT ![f].held = FreshHandle, ![f].rounds = 0],
           NEW body \in {"body", "sensor"}, pc' = body, ran' = TRUE,
           body = "sensor" => fiber[f].func \in Rules,
           UNCHANGED <<queueVars, running, ruleVars, device, walk, back, thinkVars>>
    PROVE  SoundStep
<1> DEFINE record == [fiber[f] EXCEPT !.held = FreshHandle, !.rounds = 0]
<1> USE DEF RuntimeInv
<1>1. FreshHandle \in Handles
  BY FreshHandleType
<1>2. record \in SoundRecord
  BY ZenonT(60), <1>1, NoRefusal, RunnableFiber DEF SoundRecord, FiberRecord
<1>3. fiber' = [fiber EXCEPT ![f] = record]
  BY DEF FiberInv, SoundRecord, FiberRecord
<1>4. FiberStep
  BY <1>2, <1>3, RunnableFiber, RecordStep
<1>5. TableStep
  BY <1>1 DEF TableStep, HandleTableNext
<1>6. ControlInv'
  BY <1>1, <1>3, RunnableFiber
  DEF ControlInv, ControlTypeOK, Dispatching, FiberInv, FiberRecord
<1> QED
  BY <1>4, <1>5, <1>6
  DEF SoundStep, QueueTypeOK, RuleTypeOK, PageTypeOK, queueVars, ruleVars, thinkVars,
      pageVars, loopVars

LEMMA BackpressureSound ==
    ASSUME RuntimeInv, NEW f \in Fibers, pc = "slice", fiber[f].state = "Runnable",
           Backpressure(f)
    PROVE  SoundStep
<1>1. CASE fiber[f].rounds + 1 >= FaultRounds
  BY <1>1, FinishSliceSound, QuietStep DEF Backpressure, Terminal
<1>2. CASE ~(fiber[f].rounds + 1 >= FaultRounds)
  <2> DEFINE record == [fiber[f] EXCEPT !.rounds = @ + 1]
  <2>1. fiber[f].rounds + 1 \in 0..(FaultRounds - 1)
    BY <1>2, RunnableFiber, FunctionsAssumption DEF RuntimeInv, FiberRecord
  <2>2. record \in FiberRecord /\ record.state = fiber[f].state
        /\ record.func = fiber[f].func /\ record.rule = fiber[f].rule
    BY <2>1, RunnableFiber DEF RuntimeInv, FiberRecord
  <2>3. record \in SoundRecord
    BY <2>2, RunnableFiber DEF RuntimeInv, SoundRecord
  <2> QED
    BY <1>2, <2>3, YieldSliceSound, QuietStep DEF Backpressure
<1> QED
  BY <1>1, <1>2

LEMMA DispatchFaultSound ==
    ASSUME RuntimeInv, NEW f \in Fibers, fiber[f].state = "Runnable",
           DispatchFault(f)
    PROVE  SoundStep
BY FinishSliceSound, QuietStep DEF DispatchFault, Terminal

LEMMA HostCallAsyncSound ==
    ASSUME RuntimeInv, NEW f \in Fibers, HostCallAsync(f)
    PROVE  SoundStep
<1>1. pc = "slice" /\ running = f /\ fiber[f].state = "Runnable"
  BY AtInstruction DEF HostCallAsync
<1>2. CASE Backpressure(f)
  BY <1>1, <1>2, BackpressureSound
<1>3. CASE DispatchFault(f)
  BY <1>1, <1>3, DispatchFaultSound
<1>4. CASE CanCreate(TRUE) /\ ~Backpressure(f) /\ ~DispatchFault(f)
  BY <1>1, <1>4, DispatchStep DEF HostCallAsync
<1> QED
  BY <1>2, <1>3, <1>4 DEF HostCallAsync

LEMMA TriggerCallSound ==
    ASSUME RuntimeInv, NEW f \in Fibers, TriggerCall(f)
    PROVE  SoundStep
<1>1. /\ pc = "slice" /\ running = f /\ fiber[f].state = "Runnable"
      /\ fiber[f].func \in Rules
  BY AtInstruction DEF TriggerCall
<1>2. CASE DispatchFault(f)
  BY <1>1, <1>2, DispatchFaultSound
<1>3. CASE CanCreate(FALSE) /\ ~DispatchFault(f)
  BY <1>1, <1>3, DispatchStep DEF TriggerCall
<1> QED
  BY <1>2, <1>3 DEF TriggerCall

(* The record of the dispatching fiber when the body returns.              *)
LEMMA BodyReturn ==
    ASSUME RuntimeInv, NEW f \in Fibers, fiber[f].state = "Runnable",
           fiber' = [fiber EXCEPT ![f].ip = @ + 1]
    PROVE  FiberStep
<1> DEFINE record == [fiber[f] EXCEPT !.ip = @ + 1]
<1>1. record \in SoundRecord
  BY RunnableFiber DEF RuntimeInv, SoundRecord, FiberRecord
<1>2. fiber' = [fiber EXCEPT ![f] = record]
  BY DEF RuntimeInv, FiberInv, SoundRecord, FiberRecord
<1> QED
  BY <1>1, <1>2, RunnableFiber, RecordStep DEF RuntimeInv

LEMMA HostBodySound ==
    ASSUME RuntimeInv, NEW f \in Fibers, HostBody(f)
    PROVE  SoundStep
<1> DEFINE h == fiber[f].held
<1> USE DEF RuntimeInv
<1>1. fiber[f].state = "Runnable" /\ h \in Handles /\ pc = "body" /\ running = f
  BY DEF HostBody, ControlInv, Dispatching
<1>2. ASSUME fiber' = [fiber EXCEPT ![f].ip = @ + 1], pc' = "slice",
             TableStep, device' \in SUBSET Handles,
             UNCHANGED <<queueVars, running, ran, walk, back, ruleVars, thinkVars>>
      PROVE  SoundStep
  <2>1. ControlInv'
    BY <1>2 DEF ControlInv, ControlTypeOK
  <2> QED
    BY <1>1, <1>2, <2>1, BodyReturn
    DEF SoundStep, QueueTypeOK, RuleTypeOK, PageTypeOK, queueVars, ruleVars, thinkVars,
        pageVars, loopVars
<1>3. CASE device' = device \cup {h} /\ pc' = "slice" /\ UNCHANGED handleVars
  BY <1>1, <1>2, <1>3 DEF HostBody, FinishSlice, StartWalk, RuleTypeOK, TableStep
<1>4. CASE Settle(h, "Resolved", "any") /\ pc' = "slice"
  <2>1. TableStep
    BY <1>1, <1>4 DEF TableStep, HandleTableNext, Settled, Values
  <2> QED
    BY <1>1, <1>2, <1>4, <2>1 DEF HostBody, FinishSlice, StartWalk, RuleTypeOK
<1>5. CASE Rollback(h) /\ FinishSlice(f, "Fault")
  <2>1. TableStep
    BY <1>1, <1>5 DEF TableStep, HandleTableNext
  <2>2. FiberStep /\ QueueTypeOK' /\ ControlInv'
    BY <1>1, <1>5, FinishSliceSound DEF Terminal
  <2>3. UNCHANGED <<ruleVars, device, thinkVars>>
    BY <1>1, <1>5 DEF HostBody, FinishSlice, StartWalk
  <2> QED
    BY <2>1, <2>2, <2>3
    DEF SoundStep, RuleTypeOK, PageTypeOK, ruleVars, thinkVars, pageVars, loopVars
<1> QED
  BY <1>3, <1>4, <1>5 DEF HostBody

(* A change of the record that keeps its state, function and rule, told    *)
(* field by field.                                                         *)
LEMMA NextInstruction ==
    ASSUME FiberInv, NEW f \in Fibers, fiber[f].state = "Runnable"
    PROVE  /\ [fiber[f] EXCEPT !.ip = @ + 1] \in SoundRecord
           /\ [fiber EXCEPT ![f].ip = @ + 1]
                = [fiber EXCEPT ![f] = [fiber[f] EXCEPT !.ip = @ + 1]]
BY RunnableFiber DEF FiberInv, SoundRecord, FiberRecord

LEMMA ClearDeviceSound ==
    ASSUME RuntimeInv, NEW f \in Fibers, ClearDevice(f)
    PROVE  SoundStep
<1> USE DEF RuntimeInv
<1>1. pc = "slice" /\ fiber[f].state = "Runnable"
  BY AtInstruction DEF ClearDevice
<1>2. FiberStep /\ QueueTypeOK' /\ ControlInv'
  BY <1>1, NextInstruction, ContinueStep DEF ClearDevice
<1>3. TableStep /\ device' \in SUBSET Handles
  <2>1. CASE \E h \in device : Settle(h, "Resolved", "any") /\ device' = device \ {h}
    BY <2>1 DEF TableStep, HandleTableNext, Settled, Values, RuleTypeOK
  <2> QED
    BY <2>1 DEF ClearDevice, TableStep, RuleTypeOK
<1> QED
  BY <1>2, <1>3
  DEF ClearDevice, SoundStep, RuleTypeOK, PageTypeOK, ruleVars, thinkVars, pageVars,
      loopVars

LEMMA TriggerBodySound ==
    ASSUME RuntimeInv, NEW f \in Fibers, TriggerBody(f)
    PROVE  SoundStep
<1> DEFINE h == fiber[f].held
           subject == Subject[fiber[f].rule]
           pending == SubjectPending(subject)
           answer == /\ subject # NoRule
                     /\ firing[subject] = "DidFire" /\ ~abandoned[subject]
<1> USE DEF RuntimeInv
<1>1. fiber[f].state = "Runnable" /\ h \in Handles /\ fiber[f].func \in Rules
  BY DEF TriggerBody, ControlInv, Dispatching
<1>2. fiber[f].rule \in Rules
  BY <1>1, RunnableFiber
<1>3. FiberStep
  BY <1>1, BodyReturn DEF TriggerBody
<1>4. ControlInv'
  BY DEF TriggerBody, ControlInv, ControlTypeOK
<1>5. CASE /\ pending
           /\ firing' = [firing EXCEPT ![fiber[f].rule] = "DidNotFire"]
           /\ watcher' = [watcher EXCEPT ![subject] = h]
           /\ UNCHANGED handleVars
  <2>1. subject \in Rules
    BY <1>2, <1>5, RuleTreeAssumption DEF SubjectPending
  <2>2. RuleTypeOK'
    BY <1>1, <1>2, <1>5, <2>1 DEF TriggerBody, RuleTypeOK, FiringState
  <2> QED
    BY <1>3, <1>4, <1>5, <2>2
    DEF TriggerBody, SoundStep, TableStep, QueueTypeOK, PageTypeOK, queueVars, thinkVars,
        pageVars, loopVars
<1>6. CASE /\ ~pending
           /\ Settle(h, "Resolved", Truth(answer))
           /\ UNCHANGED <<watcher, firing>>
  <2>1. Truth(answer) \in Values
    BY DEF Truth, Values
  <2>2. TableStep
    BY <1>1, <1>6, <2>1 DEF TableStep, HandleTableNext, Settled
  <2> QED
    BY <1>3, <1>4, <1>6, <2>2
    DEF TriggerBody, SoundStep, QueueTypeOK, RuleTypeOK, PageTypeOK, queueVars,
        thinkVars, pageVars, loopVars
<1> QED
  BY <1>5, <1>6 DEF TriggerBody

LEMMA ActionCallAsyncSound ==
    ASSUME RuntimeInv, NEW f \in Fibers, ActionCallAsync(f)
    PROVE  SoundStep
<1> USE DEF RuntimeInv
<1>1. /\ pc = "slice" /\ running = f /\ fiber[f].state = "Runnable"
      /\ Arg(f) \in Actions
  BY AtInstruction DEF ActionCallAsync
<1>2. CASE Backpressure(f)
  BY <1>1, <1>2, BackpressureSound
<1>3. CASE DispatchFault(f)
  BY <1>1, <1>3, DispatchFaultSound
<1>4. CASE CanCreate(TRUE) /\ CanSpawn /\ ~Backpressure(f) /\ ~DispatchFault(f)
  <2> DEFINE record == [fiber[f] EXCEPT !.held = FreshHandle, !.ip = @ + 1, !.rounds = 0]
             child == NewFiber(Arg(f), fiber[f].rule, NoRule, FreshHandle)
  <2>1. FreshHandle \in Handles /\ FreshFiber \in Fibers /\ fiber[FreshFiber].state = "Free"
    BY <1>4, FreshHandleType, FreshFiberType
  <2>2. record \in SoundRecord
    <3>1. fiber[f].ip + 1 \in Nat \ {0} /\ fiber[f] \in SoundRecord
      BY <1>1, RunnableFiber DEF FiberRecord
    <3> QED
      BY <2>1, <3>1, NoRefusal DEF SoundRecord, FiberRecord
  <2>3. child \in SoundRecord
    <3>1. fiber[f].rule \in Rules \cup {NoRule}
      BY <1>1, RunnableFiber DEF FiberRecord
    <3>2. Arg(f) \in Funcs /\ Arg(f) \notin Rules
      BY <1>1, FunctionsAssumption DEF Funcs
    <3> QED
      BY <2>1, <3>1, <3>2, NewFiberSound
  <2>4. fiber' = [fiber EXCEPT ![f] = record, ![FreshFiber] = child]
    BY <1>1, <1>4, <2>1 DEF ActionCallAsync, FiberInv, SoundRecord, FiberRecord
  <2>5. FiberStep
    BY <1>1, <2>1, <2>2, <2>3, <2>4 DEF FiberInv, FiberStep, FinalStep, FiberHas, Terminal
  <2>6. TableStep
    BY <1>4, <2>1 DEF ActionCallAsync, TableStep, HandleTableNext
  <2>7. QueueTypeOK'
    <3>1. runQueue' = Append(runQueue, FreshFiber) /\ UNCHANGED <<spawned, cascade>>
      BY <1>4 DEF ActionCallAsync
    <3> QED
      BY <2>1, <3>1, AppendProperties DEF QueueTypeOK
  <2>8. ControlInv'
    BY <1>1, <1>4, ContinueSound DEF ActionCallAsync
  <2> QED
    BY <1>4, <2>5, <2>6, <2>7, <2>8
    DEF ActionCallAsync, SoundStep, RuleTypeOK, PageTypeOK, ruleVars, thinkVars,
        pageVars, loopVars
<1> QED
  BY <1>2, <1>3, <1>4 DEF ActionCallAsync

LEMMA ThrowSound ==
    ASSUME RuntimeInv, NEW f \in Fibers, pc = "slice", fiber[f].state = "Runnable",
           Throw(f), UNCHANGED <<handleVars, ruleVars, device, thinkVars>>
    PROVE  SoundStep
<1> DEFINE record == [fiber[f] EXCEPT !.throwing = FALSE, !.held = NoHandle]
<1>1. record \in SoundRecord
  BY ZenonT(60), RunnableFiber DEF RuntimeInv, SoundRecord, FiberRecord
<1>2. CASE FinishSlice(f, "Fault")
  BY <1>2, FinishSliceSound, QuietStep DEF Terminal
<1>3. CASE ~FinishSlice(f, "Fault")
  <2>1. fiber' = [fiber EXCEPT ![f] = record]
    BY <1>3 DEF Throw, RuntimeInv, FiberInv, SoundRecord, FiberRecord
  <2> QED
    BY <1>1, <1>3, <2>1, ContinueStep, QuietStep DEF Throw
<1> QED
  BY <1>2, <1>3

LEMMA InjectedThrowSound ==
    ASSUME RuntimeInv, NEW f \in Fibers, InjectedThrow(f)
    PROVE  SoundStep
BY ThrowSound DEF InjectedThrow, InSlice

LEMMA AwaitSound ==
    ASSUME RuntimeInv, NEW f \in Fibers, Await(f)
    PROVE  SoundStep
<1> USE DEF RuntimeInv
<1>1. pc = "slice" /\ fiber[f].state = "Runnable"
  BY DEF Await, AwaitMissing, AwaitSettled, AwaitPending, Awaits, InSlice
<1>2. CASE AwaitMissing(f)
  BY <1>1, <1>2, FinishSliceSound, QuietStep DEF AwaitMissing, Terminal
<1>3. CASE AwaitSettled(f)
  <2>1. PICK h \in Handles :
           /\ IF hstate[h] = "Resolved"
              THEN /\ fiber' = [fiber EXCEPT ![f].held = NoHandle, ![f].top = hresult[h]]
                   /\ Continue
                   /\ UNCHANGED queueVars
              ELSE Throw(f)
           /\ UNCHANGED <<handleVars, ruleVars, device, thinkVars>>
    BY <1>3 DEF AwaitSettled
  <2>2. CASE hstate[h] = "Resolved"
    <3> DEFINE record == [fiber[f] EXCEPT !.held = NoHandle, !.top = hresult[h]]
    <3>1. hresult[h] \in Values
      BY DEF TableInv, HandleTypeOK
    <3>2. record \in SoundRecord
      BY ZenonT(60), <1>1, <3>1, RunnableFiber DEF SoundRecord, FiberRecord
    <3>3. fiber' = [fiber EXCEPT ![f] = record]
      BY <2>1, <2>2 DEF FiberInv, SoundRecord, FiberRecord
    <3> QED
      BY <1>1, <2>1, <2>2, <3>2, <3>3, ContinueStep, QuietStep
  <2>3. CASE hstate[h] # "Resolved"
    BY <1>1, <2>1, <2>3, ThrowSound
  <2> QED
    BY <2>2, <2>3
<1>4. CASE AwaitPending(f)
  <2>1. PICK h \in Handles :
           /\ fiber' = [fiber EXCEPT ![f].state = "Waiting", ![f].held = NoHandle,
                                     ![f].await = h]
           /\ AddWaiter(h, f)
    BY <1>4 DEF AwaitPending
  <2> DEFINE record == [fiber[f] EXCEPT !.state = "Waiting", !.held = NoHandle, !.await = h]
  <2>2. record \in SoundRecord
    BY ZenonT(60), <1>1, RunnableFiber DEF SoundRecord, FiberRecord, FiberState
  <2>3. fiber' = [fiber EXCEPT ![f] = record]
    BY <2>1 DEF FiberInv, SoundRecord, FiberRecord
  <2>4. FiberStep
    BY <1>1, <2>2, <2>3, RunnableFiber, RecordStep
  <2>5. TableStep
    BY <2>1 DEF TableStep, HandleTableNext
  <2>6. ControlInv'
    BY <1>4 DEF AwaitPending, EndSlice, ControlInv, ControlTypeOK
  <2> QED
    BY <1>4, <2>4, <2>5, <2>6
    DEF AwaitPending, SoundStep, QueueTypeOK, RuleTypeOK, PageTypeOK,
        queueVars, ruleVars, thinkVars, pageVars, loopVars
<1> QED
  BY <1>2, <1>3, <1>4 DEF Await

LEMMA SpawnRuleSound ==
    ASSUME RuntimeInv, NEW f \in Fibers, SpawnRule(f)
    PROVE  SoundStep
<1> USE DEF RuntimeInv
<1>1. /\ pc = "slice" /\ running = f /\ fiber[f].state = "Runnable"
      /\ Arg(f) \in Rules
  BY AtInstruction DEF SpawnRule
<1>2. CASE DispatchFault(f)
  BY <1>1, <1>2, DispatchFaultSound
<1>3. CASE CanSpawn /\ ~DispatchFault(f)
  <2> DEFINE root == IF fiber[f].subtree # NoRule THEN fiber[f].subtree
                                                  ELSE fiber[f].func
             record == [fiber[f] EXCEPT !.ip = @ + 1]
             child == NewFiber(Arg(f), Arg(f), root, NoHandle)
  <2>1. FreshFiber \in Fibers /\ fiber[FreshFiber].state = "Free"
    BY <1>3, FreshFiberType
  <2>2. record \in SoundRecord
    BY <1>1, NextInstruction
  <2>3. child \in SoundRecord
    <3>1. fiber[f].func \in Rules
      BY CodeAssumption, RunnableFiber DEF SpawnRule, At, AtNext, InSlice
    <3>2. root \in Rules \cup {NoRule}
      BY <1>1, <3>1, RunnableFiber DEF FiberRecord
    <3>3. Arg(f) \in Funcs
      BY <1>1 DEF Funcs
    <3> QED
      BY <1>1, <3>2, <3>3, NewFiberSound
  <2>4. fiber' = [fiber EXCEPT ![f] = record, ![FreshFiber] = child]
    BY <1>1, <1>3, <2>1 DEF SpawnRule, FiberInv, SoundRecord, FiberRecord
  <2>5. FiberStep
    BY <1>1, <2>1, <2>2, <2>3, <2>4 DEF FiberInv, FiberStep, FinalStep, FiberHas, Terminal
  <2>6. QueueTypeOK'
    <3>1. spawned' = Append(spawned, FreshFiber) /\ UNCHANGED <<runQueue, cascade>>
      BY <1>3 DEF SpawnRule
    <3> QED
      BY <2>1, <3>1, AppendProperties DEF QueueTypeOK
  <2>7. ControlInv'
    BY <1>1, <1>3, ContinueSound DEF SpawnRule
  <2>8. RuleTypeOK'
    BY <1>1, <1>3 DEF SpawnRule, RuleTypeOK
  <2> QED
    BY <1>3, <2>5, <2>6, <2>7, <2>8
    DEF SpawnRule, SoundStep, TableStep, PageTypeOK, thinkVars, pageVars, loopVars
<1> QED
  BY <1>2, <1>3 DEF SpawnRule

LEMMA RequestPageSound ==
    ASSUME RuntimeInv, NEW f \in Fibers, RequestPage(f)
    PROVE  SoundStep
<1> USE DEF RuntimeInv
<1>1. fiber[f].state = "Runnable" /\ (At(f, "page") => Arg(f) \in Pages)
  BY AtInstruction DEF RequestPage
<1>2. FiberStep
  BY <1>1, BodyReturn DEF RequestPage
<1>3. ControlInv'
  BY DEF RequestPage, ControlInv, ControlTypeOK
<1>4. PageTypeOK'
  BY <1>1 DEF RequestPage, PageTypeOK, loopVars
<1> QED
  BY <1>2, <1>3, <1>4
  DEF RequestPage, SoundStep, TableStep, QueueTypeOK, RuleTypeOK, queueVars, ruleVars

LEMMA WhenStartSound ==
    ASSUME RuntimeInv, NEW f \in Fibers, WhenStart(f)
    PROVE  SoundStep
<1> USE DEF RuntimeInv
<1>1. pc = "slice" /\ fiber[f].state = "Runnable" /\ fiber[f].rule \in Rules
  BY AtInstruction DEF WhenStart
<1>2. FiberStep /\ QueueTypeOK' /\ ControlInv'
  BY <1>1, NextInstruction, ContinueStep DEF WhenStart
<1>3. RuleTypeOK'
  BY <1>1 DEF WhenStart, RuleTypeOK, FiringState
<1> QED
  BY <1>2, <1>3
  DEF WhenStart, SoundStep, TableStep, PageTypeOK, thinkVars, pageVars, loopVars

LEMMA WhenGateSound ==
    ASSUME RuntimeInv, NEW f \in Fibers, WhenGate(f)
    PROVE  SoundStep
<1> USE DEF RuntimeInv
<1>1. pc = "slice" /\ fiber[f].state = "Runnable" /\ fiber[f].rule \in Rules
  BY AtInstruction DEF WhenGate
<1>2. PICK fired \in BOOLEAN :
         /\ firing' = [firing EXCEPT ![fiber[f].rule] =
                           WhenRecord(fiber[f].rule, fired, At(f, "chain"))]
         /\ fiber' = [fiber EXCEPT ![f].top = "any",
               ![f].ip = IF fired THEN @ + 1 ELSE Len(Code[fiber[f].func]) + 1]
  BY DEF WhenGate
<1> DEFINE next == IF fired THEN fiber[f].ip + 1 ELSE Len(Code[fiber[f].func]) + 1
           record == [fiber[f] EXCEPT !.top = "any", !.ip = next]
<1>3. next \in Nat \ {0}
  <2>1. Len(Code[fiber[f].func]) \in Nat
    BY <1>1, RunnableFiber, FunctionsAssumption, LenProperties
  <2>2. fiber[f].ip \in Nat
    BY <1>1, RunnableFiber DEF FiberRecord
  <2> QED
    BY <2>1, <2>2
<1>4. record \in SoundRecord
  <2> HIDE DEF next
  <2> QED
    BY ZenonT(60), <1>1, <1>3, RunnableFiber DEF SoundRecord, FiberRecord, Values
<1>5. fiber' = [fiber EXCEPT ![f] = record]
  BY <1>2 DEF FiberInv, SoundRecord, FiberRecord
<1>6. FiberStep /\ QueueTypeOK' /\ ControlInv'
  BY <1>1, <1>4, <1>5, ContinueStep DEF WhenGate
<1>7. RuleTypeOK'
  <2>1. WhenRecord(fiber[f].rule, fired, At(f, "chain")) \in FiringState
    BY <1>1, RuleTreeAssumption DEF WhenRecord, FiringState, RuleTypeOK
  <2> QED
    BY <1>2, <2>1 DEF WhenGate, RuleTypeOK
<1> QED
  BY <1>6, <1>7
  DEF WhenGate, SoundStep, TableStep, PageTypeOK, thinkVars, pageVars, loopVars

LEMMA ScriptSound ==
    ASSUME RuntimeInv, NEW f \in Fibers, Script(f)
    PROVE  SoundStep
<1>1. pc = "slice" /\ fiber[f].state = "Runnable"
  BY AtInstruction DEF Script
<1>2. CASE FinishSlice(f, "Fault")
  BY <1>1, <1>2, FinishSliceSound, QuietStep DEF Script, Terminal
<1>3. CASE ~FinishSlice(f, "Fault")
  BY <1>1, <1>3, NextInstruction, ContinueStep, QuietStep DEF Script, RuntimeInv
<1> QED
  BY <1>2, <1>3

LEMMA YieldOpSound ==
    ASSUME RuntimeInv, NEW f \in Fibers, YieldOp(f)
    PROVE  SoundStep
<1>1. fiber[f].state = "Runnable"
  BY AtInstruction DEF YieldOp
<1> QED
  BY <1>1, NextInstruction, YieldSliceSound, QuietStep DEF YieldOp, RuntimeInv

LEMMA BudgetExpiresSound ==
    ASSUME RuntimeInv, NEW f \in Fibers, BudgetExpires(f)
    PROVE  SoundStep
BY RunnableFiber, YieldSliceSound, QuietStep DEF BudgetExpires, InSlice, RuntimeInv

LEMMA ReturnSound ==
    ASSUME RuntimeInv, NEW f \in Fibers, Return(f)
    PROVE  SoundStep
BY FinishSliceSound, QuietStep DEF Return, AtNext, InSlice, Terminal

LEMMA SliceCancelledSound ==
    ASSUME RuntimeInv, NEW f \in Fibers, SliceCancelled(f)
    PROVE  SoundStep
<1>1. ControlInv'
  BY DEF RuntimeInv, SliceCancelled, EndSlice, ControlInv, ControlTypeOK
<1> QED
  BY <1>1, NoFiberStep, QuietStep DEF RuntimeInv, SliceCancelled, QueueTypeOK, queueVars

LEMMA SliceStepSound ==
    ASSUME RuntimeInv, NEW f \in Fibers, SliceStep(f)
    PROVE  SoundStep
BY HostCallAsyncSound, HostBodySound, ClearDeviceSound, TriggerCallSound, TriggerBodySound,
   ActionCallAsyncSound, AwaitSound, InjectedThrowSound, SpawnRuleSound, RequestPageSound,
   WhenStartSound, WhenGateSound, ScriptSound, YieldOpSound, BudgetExpiresSound,
   ReturnSound, SliceCancelledSound
DEF SliceStep

-----------------------------------------------------------------------------
(* The terminal transition.                                                *)
LEMMA SettleRuleSound ==
    ASSUME RuntimeInv, SettleRule
    PROVE  SoundStep
<1> DEFINE r == walk.rule
           h == watcher[r]
           passed == h = NoHandle \/ walk.liveAbove
           live == ~passed /\ LiveRuleSubtree(r)
           value == Truth(~Lost(r) /\ firing[r] = "DidFire")
<1> USE DEF RuntimeInv
<1>1. r \in Rules /\ walk.fiber \in Fibers /\ walk.liveAbove \in BOOLEAN
  BY DEF SettleRule, ControlInv, ControlTypeOK
<1>2. FiberStep
  BY NoFiberStep DEF SettleRule
<1>3. TableStep /\ watcher' \in [Rules -> Handles \cup {NoHandle}]
  <2>1. CASE UNCHANGED <<handleVars, watcher>>
    BY <2>1 DEF TableStep, RuleTypeOK
  <2>2. CASE /\ ~passed
             /\ watcher' = [watcher EXCEPT ![r] = NoHandle]
             /\ Settle(h, "Resolved", value)
    <3>1. h \in Handles
      BY <1>1, <2>2 DEF RuleTypeOK
    <3>2. value \in Values
      BY DEF Truth, Values
    <3> QED
      BY <2>2, <3>1, <3>2 DEF TableStep, HandleTableNext, Settled, RuleTypeOK
  <2> QED
    BY <2>1, <2>2 DEF SettleRule
<1>4. abandoned' \in [Rules -> BOOLEAN]
  <2>1. Lost(r) \in BOOLEAN
    BY <1>1 DEF Lost, RuleTypeOK
  <2> QED
    BY <2>1 DEF SettleRule, RuleTypeOK
<1>5. ControlInv'
  <2>1. Parent[r] \in Rules \cup {NoRule}
    BY <1>1, RuleTreeAssumption
  <2>2. live \in BOOLEAN
    OBVIOUS
  <2>3. walk' = [walk EXCEPT !.rule = Parent[r], !.liveAbove = @ \/ live]
    BY DEF SettleRule
  <2> HIDE DEF live
  <2>4. walk' \in [fiber : Fibers \cup {NoFiber}, rule : Rules \cup {NoRule},
                   liveAbove : BOOLEAN]
    BY <2>1, <2>2, <2>3 DEF ControlInv, ControlTypeOK
  <2>5. walk'.fiber = walk.fiber
    BY <2>3 DEF ControlInv, ControlTypeOK
  <2> QED
    BY <1>1, <2>4, <2>5 DEF SettleRule, ControlInv, ControlTypeOK
<1> QED
  BY <1>2, <1>3, <1>4, <1>5
  DEF SettleRule, SoundStep, QueueTypeOK, RuleTypeOK, PageTypeOK, queueVars, thinkVars,
      pageVars, loopVars

LEMMA SettleResultSound ==
    ASSUME RuntimeInv, SettleResult
    PROVE  SoundStep
<1> DEFINE f == walk.fiber
           outcome == CASE fiber[f].state = "Done" -> "Resolved"
                        [] fiber[f].state = "Fault" -> "Rejected"
                        [] OTHER -> "Cancelled"
           record == [fiber[f] EXCEPT !.result = NoHandle]
<1> USE DEF RuntimeInv
<1>1. f \in Fibers
  BY DEF SettleResult, ControlInv
<1>2. CASE fiber[f].result = NoHandle
  <2>1. FiberStep /\ TableStep
    BY <1>2, NoFiberStep DEF SettleResult, TableStep
  <2>2. ControlInv'
    BY DEF SettleResult, NoWalk, ControlInv, ControlTypeOK
  <2> QED
    BY <2>1, <2>2
    DEF SettleResult, SoundStep, QueueTypeOK, RuleTypeOK, PageTypeOK,
        queueVars, ruleVars, thinkVars, pageVars, loopVars
<1>3. CASE fiber[f].result # NoHandle
  <2>1. fiber[f].result \in Handles /\ record \in SoundRecord
    BY <1>1, <1>3 DEF FiberInv, SoundRecord, FiberRecord
  <2>2. fiber' = [fiber EXCEPT ![f] = record]
    BY <1>3 DEF SettleResult, FiberInv, SoundRecord, FiberRecord
  <2>3. FiberStep
    BY <1>1, <2>1, <2>2
    DEF FiberInv, SoundRecord, FiberRecord, FiberStep, FinalStep, FiberHas
  <2>4. TableStep
    <3>1. outcome \in Settled
      BY DEF Settled
    <3>2. Settle(fiber[f].result, outcome, "any")
      BY <1>3 DEF SettleResult
    <3> QED
      BY <2>1, <3>1, <3>2 DEF TableStep, HandleTableNext, Values
  <2>5. ControlInv'
    BY DEF SettleResult, NoWalk, ControlInv, ControlTypeOK
  <2> QED
    BY <2>3, <2>4, <2>5
    DEF SettleResult, SoundStep, QueueTypeOK, RuleTypeOK, PageTypeOK,
        queueVars, ruleVars, thinkVars, pageVars, loopVars
<1> QED
  BY <1>2, <1>3

LEMMA CancelRecordSound ==
    ASSUME RuntimeInv, NEW f \in Fibers, Alive(f), CancelRecord(f)
    PROVE  SoundStep
<1> DEFINE record == [fiber[f] EXCEPT !.state = "Cancelled", !.await = NoHandle,
                                      !.held = NoHandle]
<1> USE DEF RuntimeInv
<1>1. record \in SoundRecord /\ ~FiberHas(f, Terminal) /\ fiber[f].rule \in Rules \cup {NoRule}
  BY ZenonT(60) DEF Alive, FiberHas, Terminal, FiberInv, SoundRecord, FiberRecord, FiberState
<1>2. fiber' = [fiber EXCEPT ![f] = record]
  BY DEF CancelRecord, FiberInv, SoundRecord, FiberRecord
<1>3. FiberStep
  BY <1>1, <1>2, RecordStep
<1>4. TableStep
  BY DEF CancelRecord, LeaveWaiters, TableStep, HandleTableNext
<1>5. QueueTypeOK'
  BY WithoutType DEF CancelRecord, LeaveQueue, QueueTypeOK
<1>6. ControlInv'
  BY <1>1 DEF CancelRecord, StartWalk, ControlInv, ControlTypeOK
<1> QED
  BY <1>3, <1>4, <1>5, <1>6
  DEF CancelRecord, SoundStep, RuleTypeOK, PageTypeOK, ruleVars, thinkVars, pageVars,
      loopVars

LEMMA CancelSound ==
    ASSUME RuntimeInv, CancelRoot \/ CancelChildRule
    PROVE  SoundStep
<1>1. CASE CancelRoot
  <2>1. PICK i \in LiveRoots : CancelRecord(ruleFibers[i].fiber)
    BY <1>1 DEF CancelRoot
  <2>2. ruleFibers[i] \in [rule : Rules, fiber : Fibers \cup {NoFiber}]
    BY ElementOfSeq DEF LiveRoots, RuntimeInv, PageTypeOK
  <2>3. ruleFibers[i].fiber \in Fibers /\ Alive(ruleFibers[i].fiber)
    BY <2>2 DEF LiveRoots
  <2> QED
    BY <2>1, <2>3, CancelRecordSound
<1>2. CASE CancelChildRule
  BY <1>2, CancelRecordSound DEF CancelChildRule, LiveChildRules
<1> QED
  BY <1>1, <1>2

-----------------------------------------------------------------------------
(* The drain of the settled handles.                                       *)
LEMMA ResumeWaiterSound ==
    ASSUME RuntimeInv, ResumeWaiter
    PROVE  SoundStep
<1> DEFINE h == Head(completed)
           f == Head(waiters[h])
           record == [fiber[f] EXCEPT !.state = "Runnable", !.await = NoHandle,
                                      !.top = hresult[h],
                                      !.throwing = hstate[h] # "Resolved"]
<1> USE DEF RuntimeInv
<1>1. TableStep
  BY DEF ResumeWaiter, TableStep, HandleTableNext
<1>2. h \in Handles
  BY HeadTailProperties DEF ResumeWaiter, VisitWaiter, TableInv, HandleTypeOK
<1>3. f \in Fibers
  BY <1>2, HeadTailProperties DEF ResumeWaiter, VisitWaiter, TableInv, HandleTypeOK
<1>4. FiberStep /\ QueueTypeOK'
  <2>1. CASE fiber[f].state = "Waiting" /\ fiber[f].await = h
    <3>1. hresult[h] \in Values
      BY <1>2 DEF TableInv, HandleTypeOK
    <3>2. record \in SoundRecord /\ ~FiberHas(f, Terminal)
      BY ZenonT(60), <1>3, <2>1, <3>1
      DEF FiberHas, Terminal, FiberInv, SoundRecord, FiberRecord, FiberState
    <3>3. fiber' = [fiber EXCEPT ![f] = record] /\ runQueue' = Append(runQueue, f)
      BY <2>1 DEF ResumeWaiter, Wake, FiberInv, SoundRecord, FiberRecord
    <3> QED
      BY <1>3, <3>2, <3>3, RecordStep, AppendProperties DEF ResumeWaiter, QueueTypeOK
  <2>2. CASE ~(fiber[f].state = "Waiting" /\ fiber[f].await = h)
    BY <2>2, NoFiberStep DEF ResumeWaiter, QueueTypeOK
  <2> QED
    BY <2>1, <2>2
<1>5. ControlInv'
  BY DEF ResumeWaiter, ControlInv, ControlTypeOK
<1> QED
  BY <1>1, <1>4, <1>5
  DEF ResumeWaiter, SoundStep, RuleTypeOK, PageTypeOK, ruleVars, thinkVars, pageVars,
      loopVars

(* Forgetting a stale reference leaves every record sound.                 *)
LEMMA ForgetSound ==
    ASSUME FiberInv, NEW h \in Handles, fiber' = Forget(fiber, h)
    PROVE  FiberStep
<1>1. ASSUME NEW f \in Fibers
      PROVE  fiber'[f] \in SoundRecord /\ fiber'[f].state = fiber[f].state
  <2> DEFINE held == IF fiber[f].held = h THEN Gone ELSE fiber[f].held
             await == IF fiber[f].await = h THEN Gone ELSE fiber[f].await
  <2>1. fiber[f] \in SoundRecord /\ fiber[f] \in FiberRecord
    BY DEF FiberInv, SoundRecord
  <2>2. /\ held \in Handles \cup {NoHandle, Gone}
        /\ await \in Handles \cup {NoHandle, Gone}
    BY <2>1 DEF FiberRecord
  <2>3. fiber'[f] = [fiber[f] EXCEPT !.held = held, !.await = await]
    BY <2>1 DEF Forget, FiberRecord
  <2> HIDE DEF held, await
  <2> QED
    BY <2>1, <2>2, <2>3 DEF SoundRecord, FiberRecord
<1>2. fiber' = [f \in Fibers |-> fiber'[f]]
  BY DEF Forget
<1> QED
  BY <1>1, <1>2 DEF FiberInv, FiberStep, FinalStep, FiberHas

LEMMA ReclaimHandleSound ==
    ASSUME RuntimeInv, ReclaimHandle
    PROVE  SoundStep
<1> USE DEF RuntimeInv
<1>1. Head(completed) \in Handles
  BY HeadTailProperties DEF ReclaimHandle, Reclaim, TableInv, HandleTypeOK
<1>2. FiberStep
  BY <1>1, ForgetSound DEF ReclaimHandle
<1>3. TableStep
  BY DEF ReclaimHandle, TableStep, HandleTableNext
<1>4. ControlInv'
  BY DEF ReclaimHandle, ControlInv, ControlTypeOK
<1> QED
  BY <1>2, <1>3, <1>4
  DEF ReclaimHandle, SoundStep, QueueTypeOK, RuleTypeOK, PageTypeOK,
      queueVars, ruleVars, thinkVars, pageVars, loopVars

-----------------------------------------------------------------------------
(* The cascade of spawned child rules.                                     *)
LEMMA DetachSpawnedSound ==
    ASSUME RuntimeInv, DetachSpawned
    PROVE  SoundStep
<1>1. QueueTypeOK'
  BY EmptySeq, ConcatProperties DEF RuntimeInv, DetachSpawned, QueueTypeOK
<1>2. ControlInv'
  BY DEF RuntimeInv, DetachSpawned, ControlInv, ControlTypeOK, Dispatching
<1> QED
  BY <1>1, <1>2, NoFiberStep, QuietStep DEF DetachSpawned, RuntimeInv

LEMMA RunChildSound ==
    ASSUME RuntimeInv, RunChild
    PROVE  SoundStep
<1>1. Head(cascade) \in Fibers /\ Tail(cascade) \in Seq(Fibers)
  BY HeadTailProperties DEF RuntimeInv, RunChild, QueueTypeOK
<1>2. QueueTypeOK'
  BY <1>1 DEF RuntimeInv, RunChild, QueueTypeOK
<1>3. ControlInv'
  BY <1>1 DEF RuntimeInv, RunChild, ControlInv, ControlTypeOK
<1> QED
  BY <1>2, <1>3, NoFiberStep, QuietStep DEF RunChild, RuntimeInv

LEMMA CascadeDoneSound ==
    ASSUME RuntimeInv, CascadeDone
    PROVE  SoundStep
<1>1. QueueTypeOK'
  BY DEF RuntimeInv, CascadeDone, QueueTypeOK, queueVars
<1>2. ControlInv'
  BY DEF RuntimeInv, CascadeDone, ControlInv, ControlTypeOK
<1> QED
  BY <1>1, <1>2, NoFiberStep, QuietStep DEF CascadeDone, RuntimeInv

LEMMA SchedulerStepSound ==
    ASSUME RuntimeInv, SchedulerStep
    PROVE  SoundStep
BY SliceStepSound, SettleRuleSound, SettleResultSound, CancelSound, ResumeWaiterSound,
   ReclaimHandleSound, DetachSpawnedSound, RunChildSound, CascadeDoneSound
DEF SchedulerStep

-----------------------------------------------------------------------------
(* The think loop.  A root rule of a page is a rule, and so is a rule of   *)
(* the page's table.                                                       *)
LEMMA RootType ==
    ASSUME RuntimeInv, cursor <= Len(Roots[page])
    PROVE  Roots[page][cursor] \in Rules
<1>1. Roots[page] \in Seq(Rules) /\ cursor \in Nat \ {0}
  BY PagesAssumption DEF RuntimeInv, PageTypeOK
<1>2. cursor \in 1..Len(Roots[page])
  BY <1>1, LenProperties
<1> QED
  BY <1>1, <1>2, ElementOfSeq

LEMMA EntryType ==
    ASSUME RuntimeInv, NEW i \in 1..Len(ruleFibers)
    PROVE  /\ ruleFibers[i] \in [rule : Rules, fiber : Fibers \cup {NoFiber}]
           /\ ruleFibers[i].rule \in Rules
<1>1. ruleFibers[i] \in [rule : Rules, fiber : Fibers \cup {NoFiber}]
  BY ElementOfSeq DEF RuntimeInv, PageTypeOK
<1> QED
  BY <1>1

LEMMA SpawnSound ==
    ASSUME RuntimeInv, NEW r \in Rules, CanSpawn, Spawn(r),
           UNCHANGED <<spawned, cascade, watcher, firing, device>>
    PROVE  FiberStep /\ QueueTypeOK' /\ RuleTypeOK' /\ FreshFiber \in Fibers
<1> USE DEF RuntimeInv
<1>1. FreshFiber \in Fibers /\ fiber[FreshFiber].state = "Free"
  BY FreshFiberType
<1>2. NewFiber(r, r, NoRule, NoHandle) \in SoundRecord
  BY NewFiberSound DEF Funcs
<1>3. FiberStep
  BY <1>1, <1>2, RecordStep DEF Spawn, FiberHas, Terminal
<1>4. QueueTypeOK'
  BY <1>1, AppendProperties DEF Spawn, QueueTypeOK
<1>5. RuleTypeOK'
  BY DEF Spawn, RuleTypeOK
<1> QED
  BY <1>1, <1>3, <1>4, <1>5

(* A step of the loop that stops at a fault changes only the control.      *)
LEMMA FaultStep ==
    ASSUME RuntimeInv, pc' = "fault",
           UNCHANGED <<handleVars, fiber, queueVars, running, ran, ruleVars, device,
                       walk, back, thinkVars>>
    PROVE  SoundStep
<1>1. ControlInv'
  BY DEF RuntimeInv, ControlInv, ControlTypeOK
<1> QED
  BY <1>1, NoFiberStep, QuietStep DEF RuntimeInv, QueueTypeOK, queueVars

LEMMA ActivateRuleSound ==
    ASSUME RuntimeInv, ActivateRule
    PROVE  SoundStep
<1> DEFINE entry == [rule |-> Roots[page][cursor], fiber |-> FreshFiber]
<1>1. CASE CanSpawn
  <2>1. Roots[page][cursor] \in Rules
    BY RootType DEF ActivateRule
  <2>2. FiberStep /\ QueueTypeOK' /\ RuleTypeOK' /\ FreshFiber \in Fibers
    BY <1>1, <2>1, SpawnSound DEF ActivateRule
  <2>3. entry \in [rule : Rules, fiber : Fibers \cup {NoFiber}]
    BY <2>1, <2>2
  <2>4. PageTypeOK'
    <3>1. ruleFibers' = Append(ruleFibers, entry) /\ cursor' = cursor + 1
      BY <1>1 DEF ActivateRule
    <3>2. UNCHANGED <<page, desired, roundLeft>>
      BY DEF ActivateRule
    <3> HIDE DEF entry
    <3> QED
      BY <2>3, <3>1, <3>2, AppendProperties DEF RuntimeInv, PageTypeOK
  <2>5. ControlInv'
    BY <1>1 DEF ActivateRule, RuntimeInv, ControlInv, ControlTypeOK
  <2> QED
    BY <2>2, <2>4, <2>5 DEF ActivateRule, SoundStep, TableStep
<1>2. CASE ~CanSpawn
  BY <1>2, FaultStep DEF ActivateRule, queueVars, ruleVars, thinkVars, pageVars, loopVars
<1> QED
  BY <1>1, <1>2

LEMMA ActivationDoneSound ==
    ASSUME RuntimeInv, ActivationDone
    PROVE  SoundStep
<1>1. ControlInv'
  BY DEF ActivationDone, RuntimeInv, ControlInv, ControlTypeOK
<1>2. PageTypeOK'
  BY DEF ActivationDone, RuntimeInv, PageTypeOK, pageVars
<1> QED
  BY <1>1, <1>2, NoFiberStep
  DEF ActivationDone, RuntimeInv, SoundStep, TableStep, QueueTypeOK, RuleTypeOK,
      queueVars, ruleVars

LEMMA CancelDoneSound ==
    ASSUME RuntimeInv, CancelDone
    PROVE  SoundStep
<1>1. TableStep
  BY DEF CancelDone, TableStep, HandleTableNext
<1>2. ControlInv'
  BY DEF CancelDone, RuntimeInv, ControlInv, ControlTypeOK
<1>3. PageTypeOK'
  <2>1. << >> \in Seq([rule : Rules, fiber : Fibers \cup {NoFiber}])
    BY EmptySeq
  <2>2. CASE back = "slice"
    BY <2>2 DEF CancelDone, RuntimeInv, PageTypeOK, pageVars
  <2>3. CASE back = "activate"
    BY <2>1, <2>3 DEF CancelDone, RuntimeInv, PageTypeOK
  <2>4. CASE back = "down"
    BY <2>1, <2>4 DEF CancelDone, RuntimeInv, PageTypeOK
  <2> QED
    BY <2>2, <2>3, <2>4 DEF CancelDone
<1> QED
  BY <1>1, <1>2, <1>3, NoFiberStep
  DEF CancelDone, RuntimeInv, SoundStep, QueueTypeOK, RuleTypeOK, queueVars, ruleVars

LEMMA ControlStepSound ==
    ASSUME RuntimeInv, BeginThink \/ DrainDone \/ Shutdown
    PROVE  SoundStep
<1>1. ControlInv'
  BY DEF BeginThink, DrainDone, Shutdown, RuntimeInv, ControlInv, ControlTypeOK
<1>2. PageTypeOK'
  BY
  DEF BeginThink, DrainDone, Shutdown, RuntimeInv, PageTypeOK, thinkVars, pageVars, loopVars
<1> QED
  BY <1>1, <1>2, NoFiberStep
  DEF BeginThink, DrainDone, Shutdown, RuntimeInv, SoundStep, TableStep, QueueTypeOK,
      RuleTypeOK, queueVars, ruleVars

LEMMA RespawnRuleSound ==
    ASSUME RuntimeInv, RespawnRule
    PROVE  SoundStep
<1> DEFINE entry == [ruleFibers[cursor] EXCEPT !.fiber = FreshFiber]
<1>1. cursor \in 1..Len(ruleFibers)
  BY LenProperties DEF RespawnRule, RuntimeInv, PageTypeOK
<1>2. CASE ~NeedsRespawn(ruleFibers[cursor])
  <2>1. ControlInv'
    BY <1>2 DEF RespawnRule, RuntimeInv, ControlInv, ControlTypeOK
  <2>2. PageTypeOK'
    BY <1>2 DEF RespawnRule, RuntimeInv, PageTypeOK
  <2> QED
    BY <1>2, <2>1, <2>2, NoFiberStep
    DEF RespawnRule, RuntimeInv, SoundStep, TableStep, QueueTypeOK, RuleTypeOK
<1>3. CASE NeedsRespawn(ruleFibers[cursor]) /\ CanSpawn
  <2>1. FiberStep /\ QueueTypeOK' /\ RuleTypeOK' /\ FreshFiber \in Fibers
    BY <1>1, <1>3, EntryType, SpawnSound DEF RespawnRule
  <2>2. PageTypeOK'
    <3>1. entry \in [rule : Rules, fiber : Fibers \cup {NoFiber}]
      BY <1>1, <2>1, EntryType
    <3>2. ruleFibers' = [ruleFibers EXCEPT ![cursor] = entry]
      BY <1>1, <1>3 DEF RespawnRule
    <3>3. cursor' = cursor + 1 /\ UNCHANGED <<page, desired, roundLeft>>
      BY <1>3 DEF RespawnRule
    <3> HIDE DEF entry
    <3> QED
      BY <1>1, <3>1, <3>2, <3>3, ExceptSeq DEF RuntimeInv, PageTypeOK
  <2>3. ControlInv'
    BY <1>3 DEF RespawnRule, RuntimeInv, ControlInv, ControlTypeOK
  <2> QED
    BY <2>1, <2>2, <2>3 DEF RespawnRule, SoundStep, TableStep
<1>4. CASE NeedsRespawn(ruleFibers[cursor]) /\ ~CanSpawn
  BY <1>4, FaultStep DEF RespawnRule, queueVars, ruleVars, thinkVars, pageVars, loopVars
<1> QED
  BY <1>2, <1>3, <1>4

LEMMA OpenRoundSound ==
    ASSUME RuntimeInv, OpenRound
    PROVE  SoundStep
<1>1. ControlInv'
  BY DEF OpenRound, RuntimeInv, ControlInv, ControlTypeOK
<1>2. PageTypeOK'
  BY LenProperties DEF OpenRound, RuntimeInv, QueueTypeOK, PageTypeOK, pageVars
<1> QED
  BY <1>1, <1>2, NoFiberStep
  DEF OpenRound, RuntimeInv, SoundStep, TableStep, QueueTypeOK, RuleTypeOK, queueVars,
      ruleVars

LEMMA RunNextSound ==
    ASSUME RuntimeInv, RunNext
    PROVE  SoundStep
<1>1. Head(runQueue) \in Fibers /\ Tail(runQueue) \in Seq(Fibers)
  BY HeadTailProperties DEF RuntimeInv, RunNext, QueueTypeOK
<1>2. ControlInv'
  BY <1>1 DEF RunNext, RuntimeInv, ControlInv, ControlTypeOK
<1>3. PageTypeOK'
  BY DEF RunNext, RuntimeInv, PageTypeOK, pageVars
<1>4. QueueTypeOK'
  BY <1>1 DEF RunNext, RuntimeInv, QueueTypeOK
<1> QED
  BY <1>2, <1>3, <1>4, NoFiberStep
  DEF RunNext, RuntimeInv, SoundStep, TableStep, RuleTypeOK, ruleVars

LEMMA SweepSound ==
    ASSUME RuntimeInv, Sweep
    PROVE  SoundStep
<1>2. FiberStep
  BY FreeFiberSound DEF Sweep, RuntimeInv, FiberInv, FiberStep, FinalStep
<1>3. ControlInv'
  BY DEF Sweep, RuntimeInv, ControlInv, ControlTypeOK
<1>4. PageTypeOK'
  <2> DEFINE Swept(i) == IF ruleFibers[i].fiber # NoFiber /\ FiberHas(ruleFibers[i].fiber, Terminal)
                         THEN [ruleFibers[i] EXCEPT !.fiber = NoFiber]
                         ELSE ruleFibers[i]
             n == Len(ruleFibers)
  <2>1. \A i \in 1..n : Swept(i) \in [rule : Rules, fiber : Fibers \cup {NoFiber}]
    BY EntryType
  <2>2. n \in Nat
    BY LenProperties DEF RuntimeInv, PageTypeOK
  <2>3. ruleFibers' = [i \in 1..n |-> Swept(i)]
    BY DEF Sweep
  <2> HIDE DEF Swept, n
  <2>4. ruleFibers' \in Seq([rule : Rules, fiber : Fibers \cup {NoFiber}])
    BY <2>1, <2>2, <2>3, SeqDef
  <2> QED
    BY <2>4 DEF Sweep, RuntimeInv, PageTypeOK
<1> QED
  BY <1>2, <1>3, <1>4
  DEF Sweep, RuntimeInv, SoundStep, TableStep, QueueTypeOK, RuleTypeOK, queueVars, ruleVars

(* A device reports between thinks, or inside an async body: neither the   *)
(* dispatching fiber nor the handle it holds is touched.                   *)
LEMMA DeviceSettleSound ==
    ASSUME RuntimeInv, NEW h \in Handles, DeviceSettle(h)
    PROVE  SoundStep
<1>1. TableStep
  BY DEF DeviceSettle, TableStep, HandleTableNext, Settled, Values
<1>2. ControlInv'
  BY DEF DeviceSettle, RuntimeInv, ControlInv, ControlTypeOK, Dispatching
<1>3. PageTypeOK'
  BY DEF DeviceSettle, RuntimeInv, PageTypeOK, thinkVars, pageVars, loopVars
<1> QED
  BY <1>1, <1>2, <1>3, NoFiberStep
  DEF DeviceSettle, RuntimeInv, SoundStep, QueueTypeOK, RuleTypeOK, queueVars, ruleVars

LEMMA StutterSound ==
    ASSUME RuntimeInv, UNCHANGED vars
    PROVE  SoundStep
<1>1. UNCHANGED <<handleVars, fiber, queueVars, running, ran, ruleVars, device, walk,
                  pc, back, thinkVars>>
  BY DEF vars, queueVars, ruleVars, thinkVars, pageVars, loopVars
<1>2. ControlInv'
  BY <1>1 DEF RuntimeInv, ControlInv, ControlTypeOK, Dispatching
<1> QED
  BY <1>1, <1>2, NoFiberStep, QuietStep DEF RuntimeInv, QueueTypeOK, queueVars

-----------------------------------------------------------------------------
(* The invariant holds at startup.                                         *)
LEMMA InitRuntimeInv ==
    Init => RuntimeInv
<1> SUFFICES ASSUME Init PROVE RuntimeInv
  OBVIOUS
<1> USE DEF Init
<1>1. TableInv
  BY InitTableInv
<1>2. FiberInv
  BY FreeFiberSound DEF FiberInv
<1>3. QueueTypeOK
  BY EmptySeq DEF QueueTypeOK
<1>4. RuleTypeOK
  BY DEF RuleTypeOK, FiringState
<1>5. ControlInv
  BY DEF ControlInv, ControlTypeOK, NoWalk
<1>6. PageTypeOK
  BY EmptySeq, PagesAssumption DEF PageTypeOK
<1> QED
  BY <1>1, <1>2, <1>3, <1>4, <1>5, <1>6 DEF RuntimeInv

(* Every step of the brain is sound, one lemma per action.                 *)
LEMMA NextSound ==
    RuntimeInv /\ [Next]_vars => SoundStep
<1> SUFFICES ASSUME RuntimeInv, [Next]_vars PROVE SoundStep
  OBVIOUS
<1>1. CASE ThinkStep
  BY <1>1, SchedulerStepSound, ActivateRuleSound, ActivationDoneSound, CancelDoneSound,
     ControlStepSound, RespawnRuleSound, OpenRoundSound, RunNextSound, SweepSound
  DEF ThinkStep
<1>2. CASE BeginThink \/ Shutdown
  BY <1>2, ControlStepSound
<1>3. CASE \E h \in Handles : DeviceSettle(h)
  BY <1>3, DeviceSettleSound
<1>4. CASE UNCHANGED vars
  BY <1>4, StutterSound
<1> QED
  BY <1>1, <1>2, <1>3, <1>4 DEF Next, Stopped

LEMMA NextRuntimeInv ==
    RuntimeInv /\ [Next]_vars => RuntimeInv'
<1> SUFFICES ASSUME RuntimeInv, [Next]_vars PROVE RuntimeInv'
  OBVIOUS
<1>1. SoundStep
  BY NextSound
<1>2. TableInv'
  BY <1>1, NextTableInv DEF SoundStep, TableStep, RuntimeInv
<1> QED
  BY <1>1, <1>2 DEF SoundStep, FiberStep, RuntimeInv

THEOREM RuntimeInvariant ==
    Spec => []RuntimeInv
<1>1. Init => RuntimeInv
  BY InitRuntimeInv
<1>2. RuntimeInv /\ [Next]_vars => RuntimeInv'
  BY NextRuntimeInv
<1> QED
  BY <1>1, <1>2, PTL DEF Spec

(* Every variable keeps its type; in particular no fiber is refused a      *)
(* handle FaultRounds times, and no rule's record is written by a fiber    *)
(* that runs for none.                                                     *)
THEOREM RuntimeTypes ==
    Spec => []TypeOK
<1>1. RuntimeInv => TypeOK
  BY DEF RuntimeInv, TableInv, FiberInv, SoundRecord, ControlInv, TypeOK
<1> QED
  BY <1>1, RuntimeInvariant, PTL

(* The runtime implements the handle table: every path of the VM, the      *)
(* scheduler and the devices uses the table as its contract allows.        *)
THEOREM ImplementsHandleTable ==
    Spec => HandleTableSpec
<1>1. Init => HandleTableInit
  BY DEF Init
<1>2. RuntimeInv /\ [Next]_vars => [HandleTableNext]_handleVars
  BY NextSound DEF SoundStep, TableStep
<1> QED
  BY <1>1, <1>2, RuntimeInvariant, PTL DEF Spec, HandleTableSpec

(* The table's guarantees, in the running brain.                           *)
THEOREM RuntimeQueueSound ==
    Spec => []CompletedSound
BY ImplementsHandleTable, CompletedQueueSound, PTL

THEOREM RuntimeCountSound ==
    Spec => []CappedAccounting
BY ImplementsHandleTable, CappedCountSound, PTL

(* No step revives a finished fiber or changes how it ended.               *)
THEOREM FinishedStaysFinished ==
    Spec => TerminalIsFinal
<1>1. RuntimeInv /\ [Next]_vars => [FinalStep]_vars
  BY NextSound DEF SoundStep, FiberStep
<1> QED
  BY <1>1, RuntimeInvariant, PTL DEF Spec, TerminalIsFinal, FinalStep
=============================================================================
