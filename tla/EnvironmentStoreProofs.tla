------------------------ MODULE EnvironmentStoreProofs ------------------------
(***************************************************************************)
(* Proofs about the environment store, for any projects, brains, devices,  *)
(* user actions and slots: while the user waits for what is still awaiting *)
(* (Patient), what the list shows at rest is what is stored, every device  *)
(* runs the latest build, no fault outlives its brain in the browser and a *)
(* load that failed loses no record.  Whatever the user does meanwhile, a  *)
(* switch of project that none has overtaken connects no bridge.           *)
(*                                                                         *)
(* The argument is one inductive invariant, StoreInv: which operations can *)
(* await together (Flight), how the cache and the indexes stand to the     *)
(* active project's records (Records), how far the list is behind them and *)
(* for which operation (Lists), what the two restores of a start can leave *)
(* (Restores), and why a device does not yet run what it should (Flashes). *)
(* The last is apart, and needs only how the shared flag of the switches   *)
(* stands to those under way (SwitchInv).                                  *)
(***************************************************************************)
EXTENDS EnvironmentStore, SequenceTheorems, FiniteSetTheorems, WellFoundedInduction, TLAPS

-----------------------------------------------------------------------------
(* The lists of brains: what the helpers on sequences return.               *)

(* The recursive function that Retained defines, over a prefix of ids.          *)
Steps(ids, S, K, m) ==
    K = [n \in 0..m |->
            IF n = 0 THEN <<>>
            ELSE IF ids[n] \in S THEN Append(K[n - 1], ids[n]) ELSE K[n - 1]]

(* A set of natural numbers has a least element.                           *)
LEMMA LeastNatural ==
    ASSUME NEW T \in SUBSET Nat, T # {}
    PROVE  \E x \in T : \A y \in T : x <= y
<1>1. \E x \in T : \A y \in T : ~ (<<y, x>> \in OpToRel(<,Nat))
  <2>1. IsWellFoundedOn(OpToRel(<,Nat), Nat)
    BY NatLessThanWellFounded
  <2> HIDE DEF OpToRel
  <2> DEFINE R == OpToRel(<,Nat)
  <2>2. IsWellFoundedOn(R, Nat)
    BY <2>1
  <2> HIDE DEF R
  <2>3. \E x \in T : \A y \in T : ~ (<<y, x>> \in R)
    BY <2>2, WFMin, Zenon
  <2> QED
    BY <2>3 DEF R
<1>2. ASSUME NEW x \in Nat, NEW y \in Nat, y < x
      PROVE  <<y, x>> \in OpToRel(<,Nat)
  <2>1. <<y, x>> \in Nat \X Nat /\ <<y, x>>[1] = y /\ <<y, x>>[2] = x
    OBVIOUS
  <2>2. <<y, x>>[1] < <<y, x>>[2]
    BY <1>2, <2>1
  <2> QED
    BY <2>1, <2>2, Zenon DEF OpToRel
<1>3. PICK x \in T : \A y \in T : ~ (<<y, x>> \in OpToRel(<,Nat))
  BY <1>1, Zenon
<1>4. ASSUME NEW y \in T PROVE ~(y < x)
  BY <1>2, <1>3, Zenon
<1>5. \A y \in T : x <= y
  BY <1>4
<1> QED
  BY <1>5

LEMMA KeptSteps ==
    ASSUME NEW ids, Len(ids) \in Nat, NEW S
    PROVE  \E K : Steps(ids, S, K, Len(ids)) /\ Retained(ids, S) = K[Len(ids)]
<1> DEFINE Failing == {m \in Nat : ~ \E K : Steps(ids, S, K, m)}
<1>1. Failing = {}
  <2> SUFFICES ASSUME Failing # {} PROVE FALSE
    OBVIOUS
  <2>1. PICK m \in Failing : \A k \in Failing : m <= k
    BY LeastNatural
  <2>2. CASE m = 0
    <3> DEFINE K == [n \in 0..0 |-> <<>>]
    <3>1. Steps(ids, S, K, 0)
      BY DEF Steps
    <3> QED
      BY <3>1, <2>2, <2>1
  <2>3. CASE m # 0
    <3>1. m \in Nat /\ m - 1 \in Nat /\ m - 1 \notin Failing
      BY <2>1, <2>3
    <3>2. PICK L : Steps(ids, S, L, m - 1)
      BY <3>1
    <3> DEFINE K == [n \in 0..m |->
                       IF n < m THEN L[n]
                       ELSE IF ids[n] \in S THEN Append(L[n - 1], ids[n]) ELSE L[n - 1]]
    <3>3. \A n \in 0..m : n # 0 => n - 1 \in 0..(m - 1) /\ n - 1 < m /\ K[n - 1] = L[n - 1]
      BY <3>1
    <3>4. \A n \in 0..m : K[n] = IF n = 0 THEN <<>>
                                 ELSE IF ids[n] \in S THEN Append(K[n - 1], ids[n]) ELSE K[n - 1]
      <4> SUFFICES ASSUME NEW n \in 0..m
                   PROVE  K[n] = IF n = 0 THEN <<>>
                                 ELSE IF ids[n] \in S THEN Append(K[n - 1], ids[n]) ELSE K[n - 1]
        OBVIOUS
      <4>1. CASE n = m
        BY <4>1, <3>1, <3>3, <2>3
      <4>2. CASE n # m
        <5>1. n \in 0..(m - 1) /\ n < m
          BY <4>2, <3>1
        <5>2. L[n] = IF n = 0 THEN <<>>
                     ELSE IF ids[n] \in S THEN Append(L[n - 1], ids[n]) ELSE L[n - 1]
          BY <5>1, <3>2 DEF Steps
        <5> QED
          BY <5>1, <5>2, <3>3
      <4> QED
        BY <4>1, <4>2
    <3>5. Steps(ids, S, K, m)
      BY <3>4 DEF Steps
    <3> QED
      BY <3>5, <2>1
  <2> QED
    BY <2>2, <2>3
<1>2. PICK K : Steps(ids, S, K, Len(ids))
  BY <1>1
<1> QED
  BY <1>2 DEF Retained, Steps

LEMMA AppendFacts ==
    ASSUME NEW T, NEW s \in Seq(T), NEW x \in T
    PROVE  /\ Append(s, x) \in Seq(T)
           /\ ToSet(Append(s, x)) = ToSet(s) \cup {x}
           /\ IsInjective(s) /\ x \notin ToSet(s) => IsInjective(Append(s, x))
<1>1. Append(s, x) \in Seq(T) /\ Len(Append(s, x)) = Len(s) + 1 /\ Append(s, x)[Len(s) + 1] = x
      /\ \A i \in 1..Len(s) : Append(s, x)[i] = s[i]
  OBVIOUS
<1>2. DOMAIN s = 1..Len(s) /\ DOMAIN Append(s, x) = 1..(Len(s) + 1) /\ Len(s) \in Nat
  BY <1>1
<1>3. ToSet(Append(s, x)) = ToSet(s) \cup {x}
  <2>1. \A i \in 1..(Len(s) + 1) : i \in 1..Len(s) \/ i = Len(s) + 1
    BY <1>2
  <2>2. 1..Len(s) \subseteq 1..(Len(s) + 1) /\ Len(s) + 1 \in 1..(Len(s) + 1)
    BY <1>2
  <2> QED
    BY <1>1, <1>2, <2>1, <2>2 DEF ToSet
<1>4. ASSUME IsInjective(s), x \notin ToSet(s) PROVE IsInjective(Append(s, x))
  <2>1. \A i \in 1..(Len(s) + 1) : i \in 1..Len(s) \/ i = Len(s) + 1
    BY <1>2
  <2> QED
    BY <1>1, <1>2, <1>4, <2>1 DEF ToSet, IsInjective
<1> QED
  BY <1>1, <1>3, <1>4

LEMMA KeptFacts ==
    ASSUME NEW T, NEW ids \in Seq(T), NEW S
    PROVE  /\ Retained(ids, S) \in Seq(T)
           /\ ToSet(Retained(ids, S)) = ToSet(ids) \cap S
           /\ IsInjective(ids) => IsInjective(Retained(ids, S))
           /\ ToSet(ids) \subseteq S => Retained(ids, S) = ids
<1> DEFINE First(m) == {ids[i] : i \in 1..m}
           Good(k, m) ==
               /\ k \in Seq(T) /\ ToSet(k) = First(m) \cap S
               /\ IsInjective(ids) => IsInjective(k)
               /\ ToSet(ids) \subseteq S => Len(k) = m /\ \A i \in 1..m : k[i] = ids[i]
<1>1. Len(ids) \in Nat /\ DOMAIN ids = 1..Len(ids) /\ \A i \in 1..Len(ids) : ids[i] \in T
  OBVIOUS
<1>2. PICK K : Steps(ids, S, K, Len(ids)) /\ Retained(ids, S) = K[Len(ids)]
  BY <1>1, KeptSteps
<1>3. K[0] = <<>>
  BY <1>1, <1>2 DEF Steps
<1>4. \A m \in 1..Len(ids) : K[m] = IF ids[m] \in S THEN Append(K[m - 1], ids[m]) ELSE K[m - 1]
  <2>1. \A n \in 0..Len(ids) :
           K[n] = IF n = 0 THEN <<>>
                  ELSE IF ids[n] \in S THEN Append(K[n - 1], ids[n]) ELSE K[n - 1]
    BY <1>2 DEF Steps
  <2>2. \A m \in 1..Len(ids) : m \in 0..Len(ids) /\ m # 0
    BY <1>1
  <2> QED
    BY <2>1, <2>2
<1>5. Good(<<>>, 0)
  BY DEF ToSet, IsInjective
<1>6. ASSUME NEW m \in 1..Len(ids), NEW k, Good(k, m - 1), ids[m] \notin S
      PROVE  Good(k, m)
  <2>1. First(m) = First(m - 1) \cup {ids[m]}
    <3>1. 1..m = (1..(m - 1)) \cup {m}
      BY <1>1
    <3> QED
      BY <3>1
  <2>2. ids[m] \in ToSet(ids)
    BY <1>1 DEF ToSet
  <2> HIDE DEF First
  <2> QED
    BY <1>6, <2>1, <2>2
<1>7. ASSUME NEW m \in 1..Len(ids), NEW k, Good(k, m - 1), ids[m] \in S
      PROVE  Good(Append(k, ids[m]), m)
  <2>1. First(m) = First(m - 1) \cup {ids[m]}
    <3>1. 1..m = (1..(m - 1)) \cup {m}
      BY <1>1
    <3> QED
      BY <3>1
  <2>2. ids[m] \in T /\ k \in Seq(T)
    BY <1>1, <1>7
  <2>3. IsInjective(ids) => ids[m] \notin ToSet(k)
    <3>1. ASSUME IsInjective(ids), ids[m] \in First(m - 1) PROVE FALSE
      <4>1. PICK i \in 1..(m - 1) : ids[i] = ids[m]
        BY <3>1
      <4>2. i \in DOMAIN ids /\ m \in DOMAIN ids /\ i # m
        BY <1>1
      <4> QED
        BY <3>1, <4>1, <4>2 DEF IsInjective
    <3> HIDE DEF First
    <3> QED
      BY <1>7, <3>1
  <2>4. /\ Append(k, ids[m]) \in Seq(T)
        /\ ToSet(Append(k, ids[m])) = ToSet(k) \cup {ids[m]}
        /\ IsInjective(k) /\ ids[m] \notin ToSet(k) => IsInjective(Append(k, ids[m]))
    BY <2>2, AppendFacts
  <2>5. ASSUME ToSet(ids) \subseteq S
        PROVE  Len(Append(k, ids[m])) = m /\ \A i \in 1..m : Append(k, ids[m])[i] = ids[i]
    <3>1. Len(k) = m - 1 /\ \A i \in 1..(m - 1) : k[i] = ids[i]
      BY <1>7, <2>5
    <3> QED
      BY <2>2, <3>1
  <2> HIDE DEF First
  <2> QED
    BY <1>7, <2>1, <2>3, <2>4, <2>5
<1>8. \A m \in 0..Len(ids) : Good(K[m], m)
  <2> DEFINE Failing == {m \in 0..Len(ids) : ~ Good(K[m], m)}
  <2> SUFFICES ASSUME Failing # {} PROVE FALSE
    OBVIOUS
  <2> HIDE DEF Good
  <2>1. PICK m \in Failing : \A i \in Failing : m <= i
    <3>1. Failing \in SUBSET Nat
      BY <1>1
    <3> QED
      BY <3>1, LeastNatural
  <2>2. m # 0
    BY <1>3, <1>5, <2>1
  <2>3. m \in 1..Len(ids) /\ m - 1 \in 0..Len(ids) /\ m - 1 \notin Failing
    BY <1>1, <2>1, <2>2
  <2>4. Good(K[m - 1], m - 1)
    BY <2>3
  <2> QED
    BY <1>4, <1>6, <1>7, <2>1, <2>3, <2>4
<1>9. Good(Retained(ids, S), Len(ids))
  <2>1. Len(ids) \in 0..Len(ids)
    BY <1>1
  <2> HIDE DEF Good
  <2> QED
    BY <1>2, <1>8, <2>1
<1>10. First(Len(ids)) = ToSet(ids)
  BY <1>1 DEF ToSet
<1>11. ASSUME ToSet(ids) \subseteq S PROVE Retained(ids, S) = ids
  BY <1>1, <1>9, <1>11
<1> HIDE DEF First
<1> QED
  BY <1>9, <1>10, <1>11

LEMMA SetToSeqFacts ==
    ASSUME NEW S, IsFiniteSet(S)
    PROVE  SetToSeq(S) \in Seq(S) /\ IsInjective(SetToSeq(S)) /\ ToSet(SetToSeq(S)) = S
<1> DEFINE n == Cardinality(S)
           f == SetToSeq(S)
<1>1. n \in Nat /\ Bijection(1..n, S) # {}
  BY FS_CardinalityType DEF ExistsBijection
<1>2. IsFiniteSet(1..n) /\ Cardinality(1..n) = n
  <2> HIDE DEF n
  <2> QED
    BY <1>1, FS_Interval
<1>3. \E g \in [1..n -> S] : IsInjective(g)
  BY <1>1 DEF Bijection, Injection
<1>4. f \in [1..n -> S] /\ IsInjective(f)
  BY <1>3 DEF SetToSeq
<1> HIDE DEF f, n
<1>5. f \in Surjection(1..n, S)
  <2>1. f \in Injection(1..n, S)
    BY <1>4 DEF Injection
  <2>2. Cardinality(1..n) = Cardinality(S)
    BY <1>2 DEF n
  <2> QED
    BY <2>1, <2>2, FS_Injection
<1>6. f \in Seq(S)
  BY <1>1, <1>4
<1>7. ToSet(f) = S
  BY <1>4, <1>5 DEF Surjection, ToSet
<1> QED
  BY <1>4, <1>6, <1>7 DEF f

LEMMA SetToSeqEmpty == SetToSeq({}) = <<>>
<1>1. IsFiniteSet({})
  BY FS_EmptySet
<1>2. SetToSeq({}) \in Seq({})
  BY <1>1, SetToSeqFacts
<1> QED
  BY <1>2

LEMMA ConcatFacts ==
    ASSUME NEW T, NEW s \in Seq(T), NEW t \in Seq(T)
    PROVE  /\ s \o t \in Seq(T)
           /\ ToSet(s \o t) = ToSet(s) \cup ToSet(t)
           /\ IsInjective(s) /\ IsInjective(t) /\ ToSet(s) \cap ToSet(t) = {} => IsInjective(s \o t)
<1>1. s \o t \in Seq(T) /\ Len(s) \in Nat /\ Len(t) \in Nat /\ Len(s \o t) = Len(s) + Len(t)
      /\ DOMAIN s = 1..Len(s) /\ DOMAIN t = 1..Len(t) /\ DOMAIN (s \o t) = 1..(Len(s) + Len(t))
  OBVIOUS
<1>2. /\ \A i \in 1..Len(s) : i \in 1..(Len(s) + Len(t)) /\ (s \o t)[i] = s[i]
      /\ \A i \in 1..Len(t) : Len(s) + i \in 1..(Len(s) + Len(t)) /\ (s \o t)[Len(s) + i] = t[i]
  BY <1>1
<1>3. \A i \in 1..(Len(s) + Len(t)) :
         i \in 1..Len(s) \/ (i - Len(s) \in 1..Len(t) /\ i = Len(s) + (i - Len(s)))
  BY <1>1
<1>4. ToSet(s \o t) \subseteq ToSet(s) \cup ToSet(t)
  <2> SUFFICES ASSUME NEW i \in 1..(Len(s) + Len(t)) PROVE (s \o t)[i] \in ToSet(s) \cup ToSet(t)
    BY <1>1 DEF ToSet
  <2>1. CASE i \in 1..Len(s)
    BY <2>1, <1>1, <1>2 DEF ToSet
  <2>2. CASE i \notin 1..Len(s)
    <3>1. PICK j \in 1..Len(t) : i = Len(s) + j
      BY <2>2, <1>3
    <3> QED
      BY <3>1, <1>1, <1>2 DEF ToSet
  <2> QED
    BY <2>1, <2>2
<1>5. ToSet(s) \cup ToSet(t) \subseteq ToSet(s \o t)
  BY <1>1, <1>2 DEF ToSet
<1>6. ASSUME IsInjective(s), IsInjective(t), ToSet(s) \cap ToSet(t) = {}
      PROVE  IsInjective(s \o t)
  <2> SUFFICES ASSUME NEW i \in 1..(Len(s) + Len(t)), NEW j \in 1..(Len(s) + Len(t)),
                      (s \o t)[i] = (s \o t)[j]
               PROVE  i = j
    BY <1>1 DEF IsInjective
  <2>1. CASE i \in 1..Len(s) /\ j \in 1..Len(s)
    BY <2>1, <1>1, <1>2, <1>6 DEF IsInjective
  <2>2. CASE i \in 1..Len(s) /\ j \notin 1..Len(s)
    <3>1. PICK k \in 1..Len(t) : j = Len(s) + k
      BY <2>2, <1>3
    <3>2. s[i] \in ToSet(s) /\ t[k] \in ToSet(t)
      BY <2>2, <1>1 DEF ToSet
    <3> QED
      BY <3>1, <3>2, <2>2, <1>2, <1>6
  <2>3. CASE i \notin 1..Len(s) /\ j \in 1..Len(s)
    <3>1. PICK k \in 1..Len(t) : i = Len(s) + k
      BY <2>3, <1>3
    <3>2. s[j] \in ToSet(s) /\ t[k] \in ToSet(t)
      BY <2>3, <1>1 DEF ToSet
    <3> QED
      BY <3>1, <3>2, <2>3, <1>2, <1>6
  <2>4. CASE i \notin 1..Len(s) /\ j \notin 1..Len(s)
    <3>1. PICK k \in 1..Len(t) : i = Len(s) + k
      BY <2>4, <1>3
    <3>2. PICK l \in 1..Len(t) : j = Len(s) + l
      BY <2>4, <1>3
    <3>3. k = l
      BY <3>1, <3>2, <1>1, <1>2, <1>6 DEF IsInjective
    <3> QED
      BY <3>1, <3>2, <3>3
  <2> QED
    BY <2>1, <2>2, <2>3, <2>4
<1> QED
  BY <1>1, <1>4, <1>5, <1>6

(* reloadBrains: the list shows every cached brain, each once, and a second *)
(* reload leaves it as it is.                                               *)
LEMMA ReconciledFacts ==
    ASSUME IsFiniteSet(Brains), NEW ids \in Seq(Brains)
    PROVE  /\ Reconciled(ids) \in Seq(Brains)
           /\ ToSet(Reconciled(ids)) = CachedSet
           /\ IsInjective(ids) => IsInjective(Reconciled(ids))
           /\ Reconciled(Reconciled(ids)) = Reconciled(ids)
<1> DEFINE known == Retained(ids, CachedSet)
           rest == SetToSeq(CachedSet \ ToSet(known))
<1>1. CachedSet \subseteq Brains
  BY DEF CachedSet
<1>2. /\ known \in Seq(Brains) /\ ToSet(known) = ToSet(ids) \cap CachedSet
      /\ IsInjective(ids) => IsInjective(known)
  BY KeptFacts
<1>3. IsFiniteSet(CachedSet \ ToSet(known))
  BY <1>1, FS_Subset
<1>4. rest \in Seq(CachedSet \ ToSet(known)) /\ IsInjective(rest) /\ ToSet(rest) = CachedSet \ ToSet(known)
  BY <1>3, SetToSeqFacts
<1>5. Reconciled(ids) = known \o rest
  BY DEF Reconciled
<1> HIDE DEF known, rest
<1>6. rest \in Seq(Brains)
  BY <1>1, <1>4
<1>7. /\ Reconciled(ids) \in Seq(Brains)
      /\ ToSet(Reconciled(ids)) = CachedSet
      /\ IsInjective(ids) => IsInjective(Reconciled(ids))
  <2>1. known \in Seq(Brains)
    BY <1>2
  <2>2. /\ known \o rest \in Seq(Brains)
        /\ ToSet(known \o rest) = ToSet(known) \cup ToSet(rest)
        /\ IsInjective(known) /\ IsInjective(rest) /\ ToSet(known) \cap ToSet(rest) = {}
              => IsInjective(known \o rest)
    BY <1>6, <2>1, ConcatFacts
  <2>3. ToSet(known) \cap ToSet(rest) = {} /\ ToSet(known) \cup ToSet(rest) = CachedSet
    BY <1>2, <1>4
  <2> QED
    BY <1>2, <1>4, <1>5, <2>2, <2>3
<1>8. Retained(Reconciled(ids), CachedSet) = Reconciled(ids)
  BY <1>7, KeptFacts
<1>9. CachedSet \ ToSet(Reconciled(ids)) = {}
  BY <1>7
<1>10. Reconciled(Reconciled(ids)) = Reconciled(ids) \o <<>>
  BY <1>8, <1>9, SetToSeqEmpty DEF Reconciled
<1>11. \A s \in Seq(Brains) : s \o <<>> = s
  BY ConcatEmptySeq
<1> QED
  BY <1>7, <1>10, <1>11

-----------------------------------------------------------------------------
(* Types: what the store holds, and what each helper returns.               *)

(* What each variable ranges over: the operations and their stages, what a  *)
(* device and a task record.                                                *)
Ops == {"idle", "initialize", "switch", "reload", "external", "add", "remove", "save", "rename"}
Stages == {"idle", "open", "opened", "loaded", "record", "index", "indexed", "fleet", "compare", "default"}
Images == {NoImage} \cup UNION {{b} \X Nat \X [Uses[b] -> Nat] : b \in Brains}
Devices == [id : Instances, status : {"empty", "loaded", "failed"}, brain : Brains \cup {NoBrain}, image : Images]
Tasks == [op : Ops, at : Stages, brain : Brains \cup {NoBrain}, project : Projects \cup {NoProject},
          ids : Seq(Brains), saved : SavedFleets \cup {NoFleet}, changed : SUBSET Brains, removed : SUBSET Brains,
          overtaken : {FALSE}]
Catalog == [Projects -> StoredProjects]
StoreTypes ==
    /\ active \in Projects \cup {NoProject} /\ failure \in BOOLEAN
    /\ cache \in [Brains -> Nat]
    /\ stored \in Catalog
    /\ brainIds \in Seq(Brains) /\ brains \in Seq(Brains)
    /\ fleet \in Seq(Devices)
    /\ tasks \in [Slots -> Tasks]
    /\ keyVersion \in [Keys -> Nat] /\ pendingKeys \subseteq Keys /\ armed \in BOOLEAN
    /\ faults \in [Brains -> Nat]
    /\ bridge \in BOOLEAN /\ switching \in BOOLEAN /\ acts \in Nat

LEMMA FlashedType ==
    ASSUME StoreParameters, NEW d \in Devices, NEW b \in Brains,
           NEW defs \in [Brains -> Nat], NEW versions \in [Keys -> Nat]
    PROVE  /\ Flashed(d, b, defs, versions) \in Devices
           /\ Flashed(d, b, defs, versions).id = d.id
           /\ Flashed(d, b, defs, versions).brain = b
           /\ Flashed(d, b, defs, versions).status \in {"loaded", "failed"}
<1>1. Uses[b] \subseteq Keys
  BY DEF StoreParameters
<1>2. ImageOf(b, defs, versions) \in {b} \X Nat \X [Uses[b] -> Nat]
  <2>1. defs[b] \in Nat /\ [k \in Uses[b] |-> versions[k]] \in [Uses[b] -> Nat]
    BY <1>1
  <2> QED
    BY <2>1 DEF ImageOf
<1>3. ImageOf(b, defs, versions) \in Images /\ NoImage \in Images
  BY <1>2 DEF Images
<1> HIDE DEF Images
<1> QED
  BY <1>3 DEF Flashed, Devices

LEMMA EmptyType ==
    ASSUME NEW i \in Instances
    PROVE  /\ EmptyInstance(i) \in Devices
           /\ EmptyInstance(i).id = i /\ EmptyInstance(i).brain = NoBrain /\ EmptyInstance(i).status = "empty"
<1>1. NoImage \in Images
  BY DEF Images
<1> QED
  BY <1>1 DEF EmptyInstance, Devices

LEMMA DeviceFields ==
    ASSUME NEW f \in Seq(Devices)
    PROVE  \A n \in DOMAIN f :
              /\ f[n] \in Devices /\ f[n].id \in Instances
              /\ f[n].brain \in Brains \cup {NoBrain} /\ f[n].status \in {"empty", "loaded", "failed"}
<1>1. \A n \in DOMAIN f : f[n] \in Devices
  OBVIOUS
<1> QED
  BY <1>1 DEF Devices

LEMMA MapType ==
    ASSUME NEW T, NEW s \in Seq(T), NEW U, NEW f, DOMAIN f = DOMAIN s, \A n \in DOMAIN s : f[n] \in U,
           f = [n \in DOMAIN s |-> f[n]]
    PROVE  f \in Seq(U) /\ Len(f) = Len(s)
<1>1. DOMAIN s = 1..Len(s) /\ Len(s) \in Nat
  BY LenProperties
<1>2. f = [n \in 1..Len(s) |-> f[n]] /\ \A n \in 1..Len(s) : f[n] \in U
  BY <1>1
<1> DEFINE g == [n \in 1..Len(s) |-> f[n]]
<1>3. g \in Seq(U) /\ Len(g) = Len(s)
  BY <1>1, <1>2
<1> QED
  BY <1>2, <1>3

LEMMA ReflashedType ==
    ASSUME StoreParameters, NEW f \in Seq(Devices), NEW bs \in SUBSET Brains,
           NEW defs \in [Brains -> Nat], NEW versions \in [Keys -> Nat]
    PROVE  /\ Reflashed(f, bs, defs, versions) \in Seq(Devices)
           /\ Len(Reflashed(f, bs, defs, versions)) = Len(f)
           /\ DOMAIN Reflashed(f, bs, defs, versions) = DOMAIN f
           /\ \A n \in DOMAIN f : Reflashed(f, bs, defs, versions)[n] =
                 IF f[n].brain \in bs THEN Flashed(f[n], f[n].brain, defs, versions) ELSE f[n]
<1> DEFINE g == Reflashed(f, bs, defs, versions)
<1>1. DOMAIN g = DOMAIN f /\ g = [n \in DOMAIN f |-> g[n]]
      /\ \A n \in DOMAIN f : g[n] = IF f[n].brain \in bs THEN Flashed(f[n], f[n].brain, defs, versions) ELSE f[n]
  BY DEF Reflashed
<1>2. \A n \in DOMAIN f : f[n] \in Devices
  OBVIOUS
<1>3. ASSUME NEW n \in DOMAIN f PROVE g[n] \in Devices
  <2>1. CASE f[n].brain \in bs
    <3>1. f[n] \in Devices /\ f[n].brain \in Brains
      BY <1>2, <2>1
    <3>2. Flashed(f[n], f[n].brain, defs, versions) \in Devices
      BY <3>1, FlashedType
    <3> QED
      BY <1>1, <2>1, <3>2
  <2>2. CASE f[n].brain \notin bs
    BY <1>1, <1>2, <2>2
  <2> QED
    BY <2>1, <2>2
<1> HIDE DEF g
<1>4. g \in Seq(Devices) /\ Len(g) = Len(f)
  BY <1>1, <1>3, MapType
<1> QED
  BY <1>1, <1>4 DEF g

LEMMA UnflashedType ==
    ASSUME NEW f \in Seq(Devices), NEW bs
    PROVE  /\ Unflashed(f, bs) \in Seq(Devices)
           /\ Len(Unflashed(f, bs)) = Len(f)
           /\ DOMAIN Unflashed(f, bs) = DOMAIN f
           /\ \A n \in DOMAIN f : Unflashed(f, bs)[n] =
                 IF f[n].brain \in bs THEN EmptyInstance(f[n].id) ELSE f[n]
<1> DEFINE g == Unflashed(f, bs)
<1>1. DOMAIN g = DOMAIN f /\ g = [n \in DOMAIN f |-> g[n]]
      /\ \A n \in DOMAIN f : g[n] = IF f[n].brain \in bs THEN EmptyInstance(f[n].id) ELSE f[n]
  BY DEF Unflashed
<1>2. \A n \in DOMAIN f : f[n] \in Devices /\ f[n].id \in Instances
  BY DeviceFields
<1>3. \A n \in DOMAIN f : g[n] \in Devices
  BY <1>1, <1>2, EmptyType
<1> HIDE DEF g
<1>4. g \in Seq(Devices) /\ Len(g) = Len(f)
  BY <1>1, <1>3, MapType
<1> QED
  BY <1>1, <1>4 DEF g

LEMMA SnapshotType ==
    ASSUME NEW f \in Seq(Devices)
    PROVE  /\ Snapshot(f) \in SavedFleets /\ Len(Snapshot(f)) = Len(f)
           /\ DOMAIN Snapshot(f) = DOMAIN f
           /\ \A n \in DOMAIN f : Snapshot(f)[n][1] = f[n].id /\ Snapshot(f)[n][2] = f[n].brain
<1> DEFINE g == Snapshot(f)
<1>1. DOMAIN g = DOMAIN f /\ g = [n \in DOMAIN f |-> g[n]]
      /\ \A n \in DOMAIN f : g[n] = <<f[n].id, f[n].brain>>
  BY DEF Snapshot
<1>2. \A n \in DOMAIN f : f[n].id \in Instances /\ f[n].brain \in Brains \cup {NoBrain}
  BY DeviceFields
<1>3. \A n \in DOMAIN f : g[n] \in Instances \X (Brains \cup {NoBrain})
  <2> SUFFICES ASSUME NEW n \in DOMAIN f PROVE <<f[n].id, f[n].brain>> \in Instances \X (Brains \cup {NoBrain})
    BY <1>1
  <2> QED
    BY <1>2
<1> HIDE DEF g
<1>4. g \in Seq(Instances \X (Brains \cup {NoBrain})) /\ Len(g) = Len(f)
  BY <1>1, <1>3, MapType
<1>5. \A n \in DOMAIN f : g[n][1] = f[n].id /\ g[n][2] = f[n].brain
  BY <1>1
<1> QED
  BY <1>1, <1>4, <1>5 DEF g, SavedFleets

LEMMA RestoredType ==
    ASSUME StoreParameters, NEW saved \in SavedFleets, NEW defs \in [Brains -> Nat], NEW versions \in [Keys -> Nat]
    PROVE  /\ Restored(saved, defs, versions) \in Seq(Devices)
           /\ Len(Restored(saved, defs, versions)) = Len(saved)
           /\ DOMAIN Restored(saved, defs, versions) = DOMAIN saved
           /\ \A n \in DOMAIN saved :
                 /\ saved[n][1] \in Instances /\ saved[n][2] \in Brains \cup {NoBrain}
                 /\ Restored(saved, defs, versions)[n] =
                       IF saved[n][2] # NoBrain /\ defs[saved[n][2]] # 0
                       THEN Flashed(EmptyInstance(saved[n][1]), saved[n][2], defs, versions)
                       ELSE EmptyInstance(saved[n][1])
<1> DEFINE g == Restored(saved, defs, versions)
<1>1. DOMAIN g = DOMAIN saved /\ g = [n \in DOMAIN saved |-> g[n]]
      /\ \A n \in DOMAIN saved : g[n] = IF saved[n][2] # NoBrain /\ defs[saved[n][2]] # 0
                       THEN Flashed(EmptyInstance(saved[n][1]), saved[n][2], defs, versions)
                       ELSE EmptyInstance(saved[n][1])
  BY DEF Restored
<1>2. \A n \in DOMAIN saved : saved[n][1] \in Instances /\ saved[n][2] \in Brains \cup {NoBrain}
  <2>1. \A n \in DOMAIN saved : saved[n] \in Instances \X (Brains \cup {NoBrain})
    BY DEF SavedFleets
  <2> QED
    BY <2>1
<1>3. \A n \in DOMAIN saved : g[n] \in Devices
  BY <1>1, <1>2, FlashedType, EmptyType
<1> HIDE DEF g
<1>4. g \in Seq(Devices) /\ Len(g) = Len(saved)
  <2> DEFINE T == Instances \X (Brains \cup {NoBrain})
  <2>1. saved \in Seq(T)
    BY DEF SavedFleets
  <2> HIDE DEF T
  <2>2. DOMAIN g = DOMAIN saved /\ g = [n \in DOMAIN saved |-> g[n]]
    BY <1>1
  <2> QED
    BY <1>3, <2>1, <2>2, MapType
<1> QED
  BY <1>1, <1>2, <1>4 DEF g

LEMMA PersistedType ==
    ASSUME StoreTypes, NEW f \in Seq(Devices)
    PROVE  /\ Persisted(f) \in Catalog
           /\ \A p \in Projects :
                 /\ Persisted(f)[p].exists = stored[p].exists /\ Persisted(f)[p].defs = stored[p].defs
                 /\ Persisted(f)[p].index = stored[p].index /\ Persisted(f)[p].bridge = stored[p].bridge
                 /\ p # active \/ failure => Persisted(f)[p] = stored[p]
           /\ active \in Projects /\ ~failure => Persisted(f)[active].saved = Snapshot(f)
<1>1. Snapshot(f) \in SavedFleets
  BY SnapshotType
<1>2. stored \in [Projects -> StoredProjects] /\ failure \in BOOLEAN
  BY DEF StoreTypes, Catalog
<1>3. CASE failure
  BY <1>2, <1>3 DEF Persisted, Catalog
<1>4. CASE ~failure
  <2>1. Persisted(f) = [stored EXCEPT ![active].saved = Snapshot(f)]
    BY <1>4 DEF Persisted
  <2>2. \A p \in Projects : Persisted(f)[p] = IF p = active THEN [stored[p] EXCEPT !.saved = Snapshot(f)] ELSE stored[p]
    BY <2>1, <1>2
  <2>3. \A r \in StoredProjects :
           LET q == [r EXCEPT !.saved = Snapshot(f)] IN
           q \in StoredProjects /\ q.exists = r.exists /\ q.defs = r.defs /\ q.index = r.index
             /\ q.bridge = r.bridge /\ q.saved = Snapshot(f)
    BY <1>1 DEF StoredProjects
  <2>4. \A p \in Projects : stored[p] \in StoredProjects
    BY <1>2
  <2>5. Persisted(f) \in [Projects -> StoredProjects]
    BY <1>2, <2>1, <2>2, <2>3, <2>4
  <2>6. \A p \in Projects :
           /\ Persisted(f)[p].exists = stored[p].exists /\ Persisted(f)[p].defs = stored[p].defs
           /\ Persisted(f)[p].index = stored[p].index /\ Persisted(f)[p].bridge = stored[p].bridge
    <3> TAKE p \in Projects
    <3>1. CASE p = active
      <4>1. Persisted(f)[p] = [stored[p] EXCEPT !.saved = Snapshot(f)] /\ stored[p] \in StoredProjects
        BY <2>2, <2>4, <3>1
      <4> QED
        BY <2>3, <4>1
    <3>2. CASE p # active
      BY <2>2, <3>2
    <3> QED
      BY <3>1, <3>2
  <2>7. \A p \in Projects : p # active => Persisted(f)[p] = stored[p]
    BY <2>2
  <2>8. ASSUME active \in Projects PROVE Persisted(f)[active].saved = Snapshot(f)
    <3>1. Persisted(f)[active] = [stored[active] EXCEPT !.saved = Snapshot(f)] /\ stored[active] \in StoredProjects
      BY <2>2, <2>4, <2>8
    <3> QED
      BY <2>3, <3>1
  <2> QED
    BY <1>4, <2>5, <2>6, <2>7, <2>8 DEF Catalog
<1> QED
  BY <1>3, <1>4

LEMMA OpType ==
    ASSUME NEW o \in Ops, NEW a \in Stages
    PROVE  /\ Op(o, a) \in Tasks /\ Op(o, a).op = o /\ Op(o, a).at = a /\ Op(o, a).brain = NoBrain
           /\ Op(o, a).ids = <<>> /\ Op(o, a).saved = NoFleet
           /\ Op(o, a).changed = {} /\ Op(o, a).removed = {}
<1>1. <<>> \in Seq(Brains)
  OBVIOUS
<1> QED
  BY <1>1 DEF Op, Idle, Tasks, Ops, Stages

LEMMA IdleType == Idle \in Tasks /\ Idle.op = "idle" /\ Idle.at = "idle"
<1>1. <<>> \in Seq(Brains)
  OBVIOUS
<1> QED
  BY <1>1 DEF Idle, Tasks, Ops, Stages

LEMMA TaskFields ==
    ASSUME NEW t \in Tasks
    PROVE  /\ t.op \in Ops /\ t.at \in Stages /\ t.brain \in Brains \cup {NoBrain}
           /\ t.project \in Projects \cup {NoProject} /\ t.ids \in Seq(Brains)
           /\ t.saved \in SavedFleets \cup {NoFleet} /\ t.changed \in SUBSET Brains /\ t.removed \in SUBSET Brains
BY DEF Tasks

LEMMA WithIds ==
    ASSUME NEW t \in Tasks, NEW ids \in Seq(Brains)
    PROVE  LET u == [t EXCEPT !.ids = ids] IN
           /\ u \in Tasks /\ u.ids = ids /\ u.op = t.op /\ u.at = t.at /\ u.brain = t.brain /\ u.project = t.project
           /\ u.saved = t.saved /\ u.changed = t.changed /\ u.removed = t.removed
BY DEF Tasks
LEMMA WithSaved ==
    ASSUME NEW t \in Tasks, NEW saved \in SavedFleets \cup {NoFleet}
    PROVE  LET u == [t EXCEPT !.saved = saved] IN
           /\ u \in Tasks /\ u.saved = saved /\ u.op = t.op /\ u.at = t.at /\ u.brain = t.brain /\ u.project = t.project
           /\ u.ids = t.ids /\ u.changed = t.changed /\ u.removed = t.removed
BY DEF Tasks
LEMMA WithBrain ==
    ASSUME NEW t \in Tasks, NEW b \in Brains
    PROVE  LET u == [t EXCEPT !.brain = b] IN
           /\ u \in Tasks /\ u.saved = t.saved /\ u.op = t.op /\ u.at = t.at /\ u.brain = b /\ u.project = t.project
           /\ u.ids = t.ids /\ u.changed = t.changed /\ u.removed = t.removed
BY DEF Tasks
LEMMA WithProject ==
    ASSUME NEW t \in Tasks, NEW p \in Projects
    PROVE  LET u == [t EXCEPT !.project = p] IN
           /\ u \in Tasks /\ u.saved = t.saved /\ u.op = t.op /\ u.at = t.at /\ u.brain = t.brain /\ u.project = p
           /\ u.ids = t.ids /\ u.changed = t.changed /\ u.removed = t.removed
BY DEF Tasks
LEMMA WithStage ==
    ASSUME NEW t \in Tasks, NEW a \in Stages
    PROVE  LET u == [t EXCEPT !.at = a] IN
           /\ u \in Tasks /\ u.saved = t.saved /\ u.op = t.op /\ u.at = a /\ u.brain = t.brain /\ u.project = t.project
           /\ u.ids = t.ids /\ u.changed = t.changed /\ u.removed = t.removed
BY DEF Tasks
LEMMA WithEdit ==
    ASSUME NEW t \in Tasks, NEW ids \in Seq(Brains), NEW changed \in SUBSET Brains, NEW removed \in SUBSET Brains
    PROVE  LET u == [t EXCEPT !.ids = ids, !.changed = changed, !.removed = removed] IN
           /\ u \in Tasks /\ u.saved = t.saved /\ u.op = t.op /\ u.at = t.at /\ u.brain = t.brain /\ u.project = t.project
           /\ u.ids = ids /\ u.changed = changed /\ u.removed = removed
BY DEF Tasks
LEMMA WithStageIds ==
    ASSUME NEW t \in Tasks, NEW a \in Stages, NEW ids \in Seq(Brains)
    PROVE  LET u == [t EXCEPT !.at = a, !.ids = ids] IN
           /\ u \in Tasks /\ u.saved = t.saved /\ u.op = t.op /\ u.at = a /\ u.brain = t.brain /\ u.project = t.project
           /\ u.ids = ids /\ u.changed = t.changed /\ u.removed = t.removed
BY DEF Tasks
LEMMA WithStageSaved ==
    ASSUME NEW t \in Tasks, NEW a \in Stages, NEW saved \in SavedFleets \cup {NoFleet}
    PROVE  LET u == [t EXCEPT !.at = a, !.saved = saved] IN
           /\ u \in Tasks /\ u.saved = saved /\ u.op = t.op /\ u.at = a /\ u.brain = t.brain /\ u.project = t.project
           /\ u.ids = t.ids /\ u.changed = t.changed /\ u.removed = t.removed
BY DEF Tasks

LEMMA FreeSlot ==
    ASSUME StoreParameters, FreeSlots # {}
    PROVE  NextSlot \in Slots /\ tasks[NextSlot] = Idle
<1>1. FreeSlots \in SUBSET Nat
  BY DEF StoreParameters, FreeSlots
<1>2. \E s \in FreeSlots : \A t \in FreeSlots : s <= t
  BY <1>1, LeastNatural
<1>3. NextSlot \in FreeSlots
  BY <1>2 DEF NextSlot
<1> QED
  BY <1>3 DEF FreeSlots

LEMMA StoredType ==
    ASSUME StoreTypes, NEW p \in Projects
    PROVE  /\ stored[p] \in StoredProjects /\ stored[p].exists \in BOOLEAN /\ stored[p].defs \in [Brains -> Nat]
           /\ stored[p].index \in Seq(Brains) /\ stored[p].saved \in SavedFleets \cup {NoFleet}
           /\ stored[p].bridge \in BOOLEAN
<1>1. stored[p] \in StoredProjects
  BY DEF StoreTypes, Catalog
<1> QED
  BY <1>1 DEF StoredProjects

-----------------------------------------------------------------------------
(* The operations in flight: one at a time, but for the reload of a         *)
(* project beside the switch or the start that loaded it.                   *)

(* Slot s awaits in one of these operations, at one of these stages.        *)
At(s, ops, stages) == tasks[s].op \in ops /\ tasks[s].at \in stages
StageOf(op) ==
    CASE op = "initialize" -> {"open", "opened", "index", "indexed", "fleet", "default"}
      [] op = "switch" -> {"open", "loaded"}
      [] op = "reload" -> {"index", "indexed", "fleet", "default"}
      [] op = "external" -> {"index", "indexed", "compare", "fleet", "default"}
      [] op \in {"add", "remove"} -> {"record", "index"}
      [] op \in {"save", "rename"} -> {"record"}
      [] OTHER -> {"idle"}
(* The two operations that can await together: a start or a switch that has *)
(* loaded its project, and the reload of that project.                      *)
Beside(t, u) == t.op \in {"initialize", "switch"} /\ t.at # "open" /\ u.op = "reload"
TaskSound(t) ==
    /\ t.at \in StageOf(t.op)
    /\ t.op = "idle" => t = Idle
    /\ t.op = "switch" => t.project \in Projects /\ stored[t.project].exists
    /\ t.op \in {"add", "remove", "save", "rename"} => t.brain \in Brains
    /\ t.op = "switch" /\ t.at = "open" => switching
Apart(t, u) == t.op = "idle" \/ u.op = "idle" \/ Beside(t, u) \/ Beside(u, t)
(* A task is at a stage of its operation and names what it works on; two    *)
(* tasks await together only beside each other; no project is active until  *)
(* the start has opened one.                                                *)
Flight ==
    /\ \A s \in Slots : TaskSound(tasks[s])
    /\ \A s, t \in Slots : s # t => Apart(tasks[s], tasks[t])
    /\ (active = NoProject) = (\E s \in Slots : At(s, {"initialize"}, {"open"}))

(* Of switches that do not overlap none is overtaken: its end is only its   *)
(* own.                                                                     *)
LEMMA SwitchEnds ==
    ASSUME StoreTypes, Flight, NEW s \in Slots, SwitchDone(s)
    PROVE  End(s)
<1>1. tasks \in [Slots -> Tasks]
  BY DEF StoreTypes
<1>2. ASSUME NEW t \in Slots, t # s PROVE [tasks[t] EXCEPT !.overtaken = tasks[t].op = "switch"] = tasks[t]
  <2>1. Apart(tasks[s], tasks[t]) /\ tasks[s].op = "switch"
    BY <1>2 DEF Flight, SwitchDone
  <2>2. (tasks[t].op = "switch") = FALSE
    BY <2>1 DEF Apart, Beside
  <2>3. tasks[t] \in Tasks
    BY <1>1
  <2>4. [tasks[t] EXCEPT !.overtaken = FALSE] = tasks[t]
    BY <2>3 DEF Tasks
  <2> QED
    BY <2>2, <2>4
<1>3. \A t \in Slots : t # s => tasks'[t] = tasks[t]
  BY <1>2 DEF SwitchDone
<1>4. tasks' = [t \in Slots |-> tasks'[t]] /\ tasks'[s] = Idle
  BY DEF SwitchDone
<1> QED
  BY <1>1, <1>3, <1>4 DEF End

LEMMA UserQuiet ==
    ASSUME Patient, UserActs, Flight, StoreTypes
    PROVE  /\ \A s \in Slots : tasks[s] = Idle
           /\ active \in Projects
<1>1. \A s \in Slots : tasks[s].op = "idle"
  BY DEF UserActs, Awaiting
<1>2. \A s \in Slots : tasks[s] = Idle
  BY <1>1 DEF Flight, TaskSound
<1>3. active # NoProject
  BY <1>1 DEF Flight, At
<1> QED
  BY <1>2, <1>3 DEF StoreTypes

(* AfterBrains: what it leaves, whichever fleet it starts from.             *)
LEMMA AfterBrainsEffect ==
    ASSUME StoreParameters, StoreTypes, NEW s \in Slots, active \in Projects, AfterBrains(s),
           tasks[s].op \in Reloads
    PROVE  /\ brains' = brainIds'
           /\ fleet' = FleetAfterBrains(s) /\ fleet' \in Seq(Devices) /\ DOMAIN fleet' = DOMAIN fleet
           /\ \A n \in DOMAIN fleet :
                 fleet'[n] = IF fleet[n].brain \in tasks[s].removed THEN EmptyInstance(fleet[n].id)
                             ELSE IF fleet[n].brain \in tasks[s].changed \cap CachedSet
                             THEN Flashed(fleet[n], fleet[n].brain, cache, keyVersion) ELSE fleet[n]
           /\ stored' \in Catalog
           /\ stored' = stored \/ (~failure /\ stored' = Persisted(fleet'))
           /\ tasks[s].removed = {} /\ tasks[s].changed = {} => stored' = stored /\ fleet' = fleet
           /\ \E saved \in SavedFleets \cup {NoFleet} :
                 /\ saved \in {stored'[active].saved, NoFleet}
                 /\ ~failure => saved = stored'[active].saved
                 /\ tasks' = [tasks EXCEPT ![s] =
                       [Op(tasks[s].op, IF tasks[s].op = "external" THEN "compare" ELSE "fleet")
                          EXCEPT !.saved = saved]]
<1> DEFINE bare == Unflashed(fleet, tasks[s].removed)
<1>1. fleet \in Seq(Devices) /\ cache \in [Brains -> Nat] /\ keyVersion \in [Keys -> Nat] /\ tasks[s] \in Tasks
      /\ failure \in BOOLEAN /\ stored \in Catalog
  BY DEF StoreTypes
<1>2. tasks[s].changed \in SUBSET Brains /\ tasks[s].removed \in SUBSET Brains
  BY <1>1, TaskFields
<1>3. bare \in Seq(Devices) /\ DOMAIN bare = DOMAIN fleet
      /\ \A n \in DOMAIN fleet :
            bare[n] = IF fleet[n].brain \in tasks[s].removed THEN EmptyInstance(fleet[n].id) ELSE fleet[n]
  BY <1>1, UnflashedType
<1>4. tasks[s].changed \cap CachedSet \in SUBSET Brains /\ NoBrain \notin tasks[s].changed
  BY <1>2 DEF StoreParameters, CachedSet
<1>5. fleet' = Reflashed(bare, tasks[s].changed \cap CachedSet, cache, keyVersion)
  BY DEF AfterBrains, FleetAfterBrains
<1> HIDE DEF bare
<1>6. fleet' \in Seq(Devices) /\ DOMAIN fleet' = DOMAIN bare
      /\ \A n \in DOMAIN bare : fleet'[n] =
            IF bare[n].brain \in tasks[s].changed \cap CachedSet
            THEN Flashed(bare[n], bare[n].brain, cache, keyVersion) ELSE bare[n]
  <2> DEFINE again == tasks[s].changed \cap CachedSet
  <2>1. again \in SUBSET Brains /\ bare \in Seq(Devices) /\ cache \in [Brains -> Nat] /\ keyVersion \in [Keys -> Nat]
        /\ fleet' = Reflashed(bare, again, cache, keyVersion)
    BY <1>1, <1>3, <1>4, <1>5
  <2> HIDE DEF again
  <2>2. /\ Reflashed(bare, again, cache, keyVersion) \in Seq(Devices)
        /\ DOMAIN Reflashed(bare, again, cache, keyVersion) = DOMAIN bare
        /\ \A n \in DOMAIN bare : Reflashed(bare, again, cache, keyVersion)[n] =
              IF bare[n].brain \in again THEN Flashed(bare[n], bare[n].brain, cache, keyVersion) ELSE bare[n]
    <3>1. Reflashed(bare, again, cache, keyVersion) \in Seq(Devices)
      BY <2>1, ReflashedType
    <3>2. DOMAIN Reflashed(bare, again, cache, keyVersion) = DOMAIN bare
      BY <2>1, ReflashedType
    <3>3. \A n \in DOMAIN bare : Reflashed(bare, again, cache, keyVersion)[n] =
              IF bare[n].brain \in again THEN Flashed(bare[n], bare[n].brain, cache, keyVersion) ELSE bare[n]
      BY <2>1, ReflashedType
    <3> QED BY <3>1, <3>2, <3>3
  <2> QED
    BY <2>1, <2>2 DEF again
<1>7. \A n \in DOMAIN fleet : fleet[n].id \in Instances
  BY <1>1, DeviceFields
<1>8. \A n \in DOMAIN fleet :
         fleet'[n] = IF fleet[n].brain \in tasks[s].removed THEN EmptyInstance(fleet[n].id)
                     ELSE IF fleet[n].brain \in tasks[s].changed \cap CachedSet
                     THEN Flashed(fleet[n], fleet[n].brain, cache, keyVersion) ELSE fleet[n]
  <2> SUFFICES ASSUME NEW n \in DOMAIN fleet
               PROVE  fleet'[n] = IF fleet[n].brain \in tasks[s].removed THEN EmptyInstance(fleet[n].id)
                     ELSE IF fleet[n].brain \in tasks[s].changed \cap CachedSet
                     THEN Flashed(fleet[n], fleet[n].brain, cache, keyVersion) ELSE fleet[n]
    OBVIOUS
  <2>1. CASE fleet[n].brain \in tasks[s].removed
    <3>1. bare[n] = EmptyInstance(fleet[n].id) /\ bare[n].brain = NoBrain
      BY <1>3, <1>7, <2>1, EmptyType
    <3> QED
      BY <1>3, <1>4, <1>6, <2>1, <3>1
  <2>2. CASE fleet[n].brain \notin tasks[s].removed
    BY <1>3, <1>6, <2>2
  <2> QED
    BY <2>1, <2>2
<1>9. stored' = stored \/ (~failure /\ stored' = Persisted(fleet'))
  BY DEF AfterBrains, Persisted
<1>10. stored' \in Catalog
  BY <1>1, <1>6, <1>9, PersistedType
<1>11. ASSUME tasks[s].removed = {}, tasks[s].changed = {}
       PROVE  stored' = stored /\ fleet' = fleet
  <2>1. \A n \in DOMAIN fleet : fleet'[n] = fleet[n]
    BY <1>8, <1>11
  <2>2. fleet' = fleet
    BY <1>1, <1>3, <1>6, <2>1
  <2>3. stored' = stored
    BY <1>11 DEF AfterBrains
  <2> QED
    BY <2>2, <2>3
<1>12. PICK saved \in Readings(stored'[active].saved, NoFleet) :
          tasks' = [tasks EXCEPT ![s] =
                       [Op(tasks[s].op, IF tasks[s].op = "external" THEN "compare" ELSE "fleet")
                          EXCEPT !.saved = saved]]
  BY DEF AfterBrains, Resume
<1>13. saved \in {stored'[active].saved, NoFleet} /\ (~failure => saved = stored'[active].saved)
  BY <1>12 DEF Readings
<1>14. stored'[active].saved \in SavedFleets \cup {NoFleet}
  BY <1>10 DEF Catalog, StoredProjects
<1>15. brains' = brainIds' /\ fleet' = FleetAfterBrains(s)
  BY DEF AfterBrains
<1> QED
  BY <1>3, <1>6, <1>8, <1>9, <1>10, <1>11, <1>12, <1>13, <1>14, <1>15

LEMMA CataloguedType ==
    ASSUME StoreTypes, NEW p \in Projects, NEW r \in StoredProjects
    PROVE  [stored EXCEPT ![p] = r] \in Catalog
BY DEF StoreTypes, Catalog

LEMMA IndexedType ==
    ASSUME StoreTypes, active \in Projects, NEW ids \in Seq(Brains)
    PROVE  /\ Indexed(ids) \in Catalog
           /\ \A p \in Projects :
                 /\ Indexed(ids)[p].exists = stored[p].exists /\ Indexed(ids)[p].defs = stored[p].defs
                 /\ Indexed(ids)[p].saved = stored[p].saved
                 /\ p # active => Indexed(ids)[p] = stored[p]
           /\ Indexed(ids)[active].index = ids
<1>1. stored \in [Projects -> StoredProjects]
  BY DEF StoreTypes, Catalog
<1>2. \A r \in StoredProjects :
         LET q == [r EXCEPT !.index = ids] IN
         q \in StoredProjects /\ q.exists = r.exists /\ q.defs = r.defs /\ q.saved = r.saved /\ q.index = ids
  BY DEF StoredProjects
<1>3. \A p \in Projects : Indexed(ids)[p] = IF p = active THEN [stored[p] EXCEPT !.index = ids] ELSE stored[p]
  BY <1>1 DEF Indexed
<1>4. \A p \in Projects : stored[p] \in StoredProjects
  BY <1>1
<1>5. Indexed(ids) \in [Projects -> StoredProjects]
  BY <1>1, <1>2, <1>3, <1>4 DEF Indexed
<1>6. ASSUME NEW p \in Projects
      PROVE  /\ Indexed(ids)[p].exists = stored[p].exists /\ Indexed(ids)[p].defs = stored[p].defs
             /\ Indexed(ids)[p].saved = stored[p].saved
             /\ p # active => Indexed(ids)[p] = stored[p]
             /\ p = active => Indexed(ids)[p].index = ids
  <2>1. CASE p = active
    <3>1. Indexed(ids)[p] = [stored[p] EXCEPT !.index = ids] /\ stored[p] \in StoredProjects
      BY <1>3, <1>4, <2>1
    <3> QED
      BY <1>2, <2>1, <3>1
  <2>2. CASE p # active
    BY <1>3, <2>2
  <2> QED
    BY <2>1, <2>2
<1> QED
  BY <1>5, <1>6 DEF Catalog

(* saveBrainForKey, and the removal of a record: the definition of one      *)
(* brain of the active project changes, in the store and in the cache.      *)
Defined(b, def) == [stored EXCEPT ![active].defs[b] = def]
DefinedAs(c, b, def) ==
    /\ c \in Catalog
    /\ \A p \in Projects :
          /\ c[p].exists = stored[p].exists /\ c[p].index = stored[p].index /\ c[p].saved = stored[p].saved
          /\ p # active => c[p] = stored[p]
    /\ c[active].defs = [stored[active].defs EXCEPT ![b] = def]
    /\ c[active].defs[b] = def
LEMMA DefinedType ==
    ASSUME StoreTypes, active \in Projects, NEW b \in Brains, NEW def \in Nat
    PROVE  DefinedAs(Defined(b, def), b, def)
<1>1. stored \in [Projects -> StoredProjects]
  BY DEF StoreTypes, Catalog
<1>2. \A r \in StoredProjects :
         LET q == [r EXCEPT !.defs = [r.defs EXCEPT ![b] = def]] IN
         /\ q \in StoredProjects /\ q.exists = r.exists /\ q.index = r.index /\ q.saved = r.saved
         /\ q.defs = [r.defs EXCEPT ![b] = def] /\ q.defs[b] = def
  BY DEF StoredProjects
<1>3. \A p \in Projects : stored[p] \in StoredProjects
  BY <1>1
<1>4. \A p \in Projects :
         Defined(b, def)[p] =
            IF p = active THEN [stored[p] EXCEPT !.defs = [stored[p].defs EXCEPT ![b] = def]] ELSE stored[p]
  BY <1>1 DEF Defined
<1>5. Defined(b, def) \in [Projects -> StoredProjects]
  BY <1>1, <1>2, <1>3, <1>4 DEF Defined
<1>6. ASSUME NEW p \in Projects
      PROVE  /\ Defined(b, def)[p].exists = stored[p].exists /\ Defined(b, def)[p].index = stored[p].index
             /\ Defined(b, def)[p].saved = stored[p].saved
             /\ p # active => Defined(b, def)[p] = stored[p]
             /\ p = active => /\ Defined(b, def)[p].defs = [stored[p].defs EXCEPT ![b] = def]
                              /\ Defined(b, def)[p].defs[b] = def
  <2>1. CASE p = active
    <3>1. Defined(b, def)[p] = [stored[p] EXCEPT !.defs = [stored[p].defs EXCEPT ![b] = def]]
          /\ stored[p] \in StoredProjects
      BY <1>3, <1>4, <2>1
    <3> QED
      BY <1>2, <2>1, <3>1
  <2>2. CASE p # active
    BY <1>4, <2>2
  <2> QED
    BY <2>1, <2>2
<1> QED
  BY <1>5, <1>6 DEF Catalog, DefinedAs

LEMMA SaveForKeyEffect ==
    ASSUME StoreTypes, active \in Projects, NEW b \in Brains, SaveForKey(b)
    PROVE  /\ stored[active].defs[b] + 1 \in Nat \ {0}
           /\ stored' = Defined(b, stored[active].defs[b] + 1)
           /\ cache' = [cache EXCEPT ![b] = stored[active].defs[b] + 1]
<1>1. stored[active].defs[b] \in Nat
  BY StoredType
<1>2. stored' = Defined(b, stored[active].defs[b] + 1)
  BY DEF SaveForKey, Defined
<1>3. stored'[active].defs[b] = stored[active].defs[b] + 1
  <2> DEFINE def == stored[active].defs[b] + 1
  <2>1. def \in Nat /\ stored' = Defined(b, def)
    BY <1>1, <1>2
  <2> HIDE DEF def
  <2>2. Defined(b, def)[active].defs[b] = def
    BY <2>1, DefinedType DEF DefinedAs
  <2> QED
    BY <2>1, <2>2 DEF def
<1>4. cache' = [cache EXCEPT ![b] = stored[active].defs[b] + 1]
  BY <1>3 DEF SaveForKey
<1>5. stored[active].defs[b] + 1 \in Nat \ {0}
  BY <1>1
<1> QED
  BY <1>2, <1>4, <1>5

LEMMA LoadEffect ==
    ASSUME StoreParameters, StoreTypes, NEW p \in Projects, NEW s \in Slots, NEW then \in Tasks,
           tasks[s] # Idle, LoadProject(p, s, then)
    PROVE  /\ active' = p /\ failure' \in BOOLEAN
           /\ cache' = IF failure' THEN [b \in Brains |-> 0] ELSE stored[p].defs
           /\ cache' \in [Brains -> Nat]
           /\ bridge' = (stored[p].bridge /\ ~switching)
           /\ \E n \in Slots, ids \in Seq(Brains) :
                 /\ tasks[n] = Idle /\ n # s
                 /\ ids \in {stored[p].index, <<>>} /\ (~failure' => ids = stored[p].index)
                 /\ tasks' = [tasks EXCEPT ![n] = [Op("reload", "index") EXCEPT !.ids = ids], ![s] = then]
<1>1. stored[p].defs \in [Brains -> Nat] /\ stored[p].index \in Seq(Brains) /\ <<>> \in Seq(Brains)
  BY StoredType
<1>2. active' = p /\ failure' \in BOOLEAN /\ bridge' = (stored[p].bridge /\ ~switching)
      /\ cache' = IF failure' THEN [b \in Brains |-> 0] ELSE stored[p].defs
  BY DEF LoadProject
<1>3. cache' \in [Brains -> Nat]
  BY <1>1, <1>2
<1>4. NextSlot \in Slots /\ tasks[NextSlot] = Idle
  BY FreeSlot DEF LoadProject
<1>5. PICK ids \in (IF failure' THEN {stored[p].index, <<>>} ELSE {stored[p].index}) :
         tasks' = [tasks EXCEPT ![NextSlot] = [Op("reload", "index") EXCEPT !.ids = ids], ![s] = then]
  BY DEF LoadProject
<1>6. ids \in {stored[p].index, <<>>} /\ (~failure' => ids = stored[p].index) /\ ids \in Seq(Brains)
  BY <1>1, <1>2, <1>5
<1> QED
  BY <1>2, <1>3, <1>4, <1>5, <1>6

LEMMA StartEffect ==
    ASSUME StoreParameters, NEW t, Start(t)
    PROVE  \E n \in Slots : tasks[n] = Idle /\ tasks' = [tasks EXCEPT ![n] = t]
BY FreeSlot DEF Start

LEMMA TasksType ==
    ASSUME StoreTypes, NEW s \in Slots, NEW t \in Tasks
    PROVE  [tasks EXCEPT ![s] = t] \in [Slots -> Tasks]
BY DEF StoreTypes

(* The tasks the operations start with, and what they become.               *)
ReloadTask(ids) == [Op("reload", "index") EXCEPT !.ids = ids]
LEMMA MadeTasks ==
    /\ \A ids \in Seq(Brains) :
         /\ ReloadTask(ids) \in Tasks
         /\ [Op("initialize", "index") EXCEPT !.ids = ids] \in Tasks
    /\ \A p \in Projects : [Op("switch", "open") EXCEPT !.project = p] \in Tasks
    /\ \A b \in Brains, o \in {"add", "remove", "save", "rename"} : [Op(o, "record") EXCEPT !.brain = b] \in Tasks
    /\ \A a \in Stages, o \in Ops : Op(o, a) \in Tasks
    /\ Idle \in Tasks
<1>1. \A a \in Stages, o \in Ops : Op(o, a) \in Tasks
  BY OpType
<1>2. {"add", "remove", "save", "rename", "switch", "initialize", "reload"} \subseteq Ops
      /\ {"index", "open", "record"} \subseteq Stages
  BY DEF Ops, Stages
<1>3. \A ids \in Seq(Brains) : ReloadTask(ids) \in Tasks /\ [Op("initialize", "index") EXCEPT !.ids = ids] \in Tasks
  BY <1>1, <1>2, WithIds DEF ReloadTask
<1>4. \A p \in Projects : [Op("switch", "open") EXCEPT !.project = p] \in Tasks
  BY <1>1, <1>2, WithProject
<1>5. \A b \in Brains, o \in {"add", "remove", "save", "rename"} : [Op(o, "record") EXCEPT !.brain = b] \in Tasks
  BY <1>1, <1>2, WithBrain
<1> QED
  BY <1>1, <1>3, <1>4, <1>5, IdleType

LEMMA ZeroDefs == [b \in Brains |-> 0] \in [Brains -> Nat]
OBVIOUS

LEMMA UserActsType ==
    ASSUME StoreTypes, UserActs
    PROVE  acts' \in Nat
BY DEF StoreTypes, UserActs

LEMMA TypesInit == StoreParameters /\ Init => StoreTypes
<1> SUFFICES ASSUME StoreParameters, Init PROVE StoreTypes
  OBVIOUS
<1>1. fleet \in Seq(Devices)
  <2>1. PICK i \in Instances : fleet = <<EmptyInstance(i)>>
    BY DEF Init
  <2>2. EmptyInstance(i) \in Devices
    BY EmptyType
  <2> QED
    BY <2>1, <2>2
<1>2. stored \in Catalog
  <2>1. stored \in [Projects -> UNION {Seeds[p] : p \in Projects}] /\ \A p \in Projects : stored[p] \in Seeds[p]
    BY DEF Init
  <2>2. \A p \in Projects : stored[p] \in StoredProjects
    BY <2>1 DEF StoreParameters
  <2> QED
    BY <2>1, <2>2 DEF Catalog
<1>3. tasks \in [Slots -> Tasks]
  <2>1. Op("initialize", "open") \in Tasks /\ Idle \in Tasks
    BY MadeTasks DEF Ops, Stages
  <2> QED
    BY <2>1 DEF Init
<1>4. brainIds \in Seq(Brains) /\ brains \in Seq(Brains)
  BY DEF Init
<1>5. cache \in [Brains -> Nat] /\ faults \in [Brains -> Nat] /\ keyVersion \in [Keys -> Nat]
  BY DEF Init
<1> QED
  BY <1>1, <1>2, <1>3, <1>4, <1>5 DEF Init, StoreTypes

LEMMA ProjectTypes ==
    ASSUME StoreParameters, StoreTypes, Flight, NEW p \in Projects,
           CreateProject(p) \/ SwitchProject(p) \/ \E seed \in Seeds[p] : ImportProject(p, seed)
    PROVE  StoreTypes'
<1> DEFINE t == [Op("switch", "open") EXCEPT !.project = p]
<1>1. acts' \in Nat
  BY UserActsType DEF CreateProject, SwitchProject, ImportProject
<1>2. Start(t) /\ t \in Tasks
  BY MadeTasks DEF CreateProject, SwitchProject, ImportProject
<1> HIDE DEF t
<1>3. tasks' \in [Slots -> Tasks]
  BY <1>2, StartEffect, TasksType
<1>4. stored' \in Catalog
  <2>1. CASE CreateProject(p)
    <3>1. \A r \in StoredProjects : [r EXCEPT !.exists = TRUE] \in StoredProjects
      BY DEF StoredProjects
    <3>2. stored' = [stored EXCEPT ![p] = [stored[p] EXCEPT !.exists = TRUE]]
      BY <2>1 DEF CreateProject
    <3>3. [stored[p] EXCEPT !.exists = TRUE] \in StoredProjects
      BY <3>1, StoredType
    <3> QED
      BY <3>2, <3>3, CataloguedType
  <2>2. CASE SwitchProject(p)
    BY <2>2 DEF SwitchProject, host, StoreTypes
  <2>3. ASSUME NEW seed \in Seeds[p], ImportProject(p, seed) PROVE stored' \in Catalog
    <3>1. [seed EXCEPT !.exists = TRUE, !.bridge = FALSE] \in StoredProjects
      <4>1. seed \in StoredProjects
        BY DEF StoreParameters
      <4> QED
        BY <4>1 DEF StoredProjects
    <3> QED
      BY <2>3, <3>1, CataloguedType DEF ImportProject
  <2> QED
    BY <2>1, <2>2, <2>3
<1> QED
  BY <1>1, <1>3, <1>4 DEF StoreTypes, CreateProject, SwitchProject, ImportProject, host, list, reflasher

LEMMA LoadTypes ==
    ASSUME StoreParameters, StoreTypes, Flight, NEW s \in Slots,
           (\E p \in Projects : InitializeOpen(s, p)) \/ SwitchLoaded(s)
    PROVE  StoreTypes'
<1>1. PICK p \in Projects, then \in Tasks : tasks[s] # Idle /\ LoadProject(p, s, then)
  <2>1. ASSUME NEW p \in Projects, InitializeOpen(s, p)
        PROVE  Op("initialize", "opened") \in Tasks /\ tasks[s] # Idle /\ LoadProject(p, s, Op("initialize", "opened"))
    BY <2>1, MadeTasks, IdleType DEF InitializeOpen, Ops, Stages
  <2>2. ASSUME SwitchLoaded(s)
        PROVE  /\ [tasks[s] EXCEPT !.at = "loaded"] \in Tasks /\ tasks[s].project \in Projects /\ tasks[s] # Idle
               /\ LoadProject(tasks[s].project, s, [tasks[s] EXCEPT !.at = "loaded"])
    <3>1. tasks[s] \in Tasks /\ "loaded" \in Stages
      BY DEF StoreTypes, Stages
    <3>2. [tasks[s] EXCEPT !.at = "loaded"] \in Tasks
      BY <3>1, WithStage
    <3> QED
      BY <2>2, <3>2, IdleType DEF SwitchLoaded, Flight, TaskSound
  <2> QED
    BY <2>1, <2>2
<1>2. /\ active' = p /\ failure' \in BOOLEAN /\ cache' \in [Brains -> Nat]
      /\ bridge' = (stored[p].bridge /\ ~switching)
  BY <1>1, LoadEffect
<1>3. tasks' \in [Slots -> Tasks]
  <2>1. PICK n \in Slots, ids \in Seq(Brains) :
           tasks' = [tasks EXCEPT ![n] = [Op("reload", "index") EXCEPT !.ids = ids], ![s] = then]
    BY <1>1, LoadEffect
  <2>2. ReloadTask(ids) \in Tasks
    BY MadeTasks
  <2> QED
    BY <2>1, <2>2 DEF StoreTypes, ReloadTask
<1>4. stored[p].bridge \in BOOLEAN
  BY StoredType
<1> QED
  BY <1>2, <1>3, <1>4 DEF StoreTypes, InitializeOpen, SwitchLoaded, host, list, reflasher

LEMMA ReloadTypes ==
    ASSUME StoreParameters, StoreTypes, Flight, active \in Projects, NEW s \in Slots, ReloadStep(s)
    PROVE  StoreTypes'
<1>1. tasks[s] \in Tasks /\ tasks[s].op \in Reloads
      /\ tasks[s].ids \in Seq(Brains) /\ tasks[s].saved \in SavedFleets \cup {NoFleet}
  <2>1. tasks[s] \in Tasks
    BY DEF StoreTypes
  <2> QED
    BY <2>1, TaskFields DEF ReloadStep, ReloadBrains, ReloadIndexed, ReloadFleet, ReloadDefault
<1>2. Reloads \subseteq Ops /\ {"compare", "fleet", "default", "indexed"} \subseteq Stages
  BY DEF Reloads, Ops, Stages
<1>3. ASSUME AfterBrains(s), brainIds' \in Seq(Brains),
             UNCHANGED <<active, cache, failure, reflasher, faults, bridge, switching, acts>>
      PROVE  StoreTypes'
  <2>1. brains' \in Seq(Brains) /\ fleet' \in Seq(Devices) /\ stored' \in Catalog
    BY <1>1, <1>3, AfterBrainsEffect
  <2>2. tasks' \in [Slots -> Tasks]
    <3>1. PICK saved \in SavedFleets \cup {NoFleet} : tasks' = [tasks EXCEPT ![s] =
                       [Op(tasks[s].op, IF tasks[s].op = "external" THEN "compare" ELSE "fleet")
                          EXCEPT !.saved = saved]]
      BY <1>1, <1>3, AfterBrainsEffect
    <3>2. Op(tasks[s].op, IF tasks[s].op = "external" THEN "compare" ELSE "fleet") \in Tasks
      BY <1>1, <1>2, OpType
    <3> QED
      BY <3>1, <3>2, WithSaved, TasksType
  <2> QED
    BY <1>3, <2>1, <2>2 DEF StoreTypes, reflasher
<1>4. CASE ReloadBrains(s)
  <2>1. brainIds' = Reconciled(tasks[s].ids) /\ brainIds' \in Seq(Brains)
    BY <1>1, <1>4, ReconciledFacts DEF ReloadBrains, StoreParameters
  <2>2. ASSUME stored' = Indexed(Reconciled(tasks[s].ids)),
               Resume(s, [tasks[s] EXCEPT !.at = "indexed", !.ids = <<>>]), UNCHANGED <<brains, fleet>>
        PROVE  StoreTypes'
    <3>1. stored' \in Catalog
      BY <2>1, <2>2, IndexedType
    <3>2. <<>> \in Seq(Brains)
      OBVIOUS
    <3>3. tasks' \in [Slots -> Tasks]
      BY <1>1, <1>2, <2>2, <3>2, WithStageIds, TasksType DEF Resume
    <3> QED
      BY <1>4, <2>1, <2>2, <3>1, <3>3 DEF ReloadBrains, StoreTypes, reflasher
  <2>3. ASSUME AfterBrains(s) PROVE StoreTypes'
    BY <1>3, <1>4, <2>1, <2>3 DEF ReloadBrains
  <2> QED
    BY <1>4, <2>2, <2>3 DEF ReloadBrains
<1>5. CASE ReloadIndexed(s)
  <2>1. brainIds' \in Seq(Brains)
    BY <1>5 DEF ReloadIndexed, StoreTypes
  <2> QED
    BY <1>3, <1>5, <2>1 DEF ReloadIndexed
<1>6. CASE ReloadFleet(s)
  <2>1. /\ fleet' \in Seq(Devices) /\ (stored' = stored \/ stored' = Persisted(fleet'))
        /\ \/ tasks' = [tasks EXCEPT ![s] = Idle] \/ tasks' = [tasks EXCEPT ![s] = Op(tasks[s].op, "default")]
    <3>1. ASSUME NEW i \in Instances, fleet' = <<EmptyInstance(i)>> PROVE fleet' \in Seq(Devices)
      <4>1. EmptyInstance(i) \in Devices
        BY EmptyType
      <4> QED
        BY <3>1, <4>1
    <3>2. ASSUME tasks[s].saved \notin {NoFleet, <<>>}, fleet' = Restored(tasks[s].saved, cache, keyVersion)
          PROVE  fleet' \in Seq(Devices)
      <4>1. tasks[s].saved \in SavedFleets /\ cache \in [Brains -> Nat] /\ keyVersion \in [Keys -> Nat]
        BY <1>1, <3>2 DEF StoreTypes
      <4> QED
        BY <3>2, <4>1, RestoredType
    <3> QED
      BY <1>6, <3>1, <3>2 DEF ReloadFleet, End, Resume
  <2>2. stored' \in Catalog
    <3>1. stored \in Catalog
      BY DEF StoreTypes
    <3> QED
      BY <2>1, <3>1, PersistedType
  <2>3. tasks' \in [Slots -> Tasks]
    BY <1>1, <1>2, <2>1, MadeTasks, TasksType
  <2>4. pendingKeys' \subseteq Keys /\ armed' \in BOOLEAN
    BY <1>6 DEF ReloadFleet, CancelPending, StoreTypes
  <2> QED
    BY <1>6, <2>1, <2>2, <2>3, <2>4 DEF ReloadFleet, StoreTypes, list
<1>7. CASE ReloadDefault(s)
  <2>1. tasks' \in [Slots -> Tasks]
    BY <1>7, MadeTasks, TasksType DEF ReloadDefault, End
  <2> QED
    BY <1>7, <2>1 DEF ReloadDefault, CancelPending, StoreTypes, host, list
<1> QED
  BY <1>4, <1>5, <1>6, <1>7 DEF ReloadStep

LEMMA ActiveLoaded ==
    ASSUME StoreTypes, Flight, NEW s \in Slots, tasks[s].op # "idle", ~At(s, {"initialize"}, {"open"})
    PROVE  active \in Projects
<1>1. ASSUME NEW t \in Slots, At(t, {"initialize"}, {"open"}) PROVE FALSE
  <2>1. s # t /\ Apart(tasks[s], tasks[t])
    BY <1>1 DEF Flight, At
  <2> QED
    BY <1>1, <2>1 DEF Apart, Beside, At
<1> QED
  BY <1>1 DEF Flight, StoreTypes

LEMMA EditTypes ==
    ASSUME StoreParameters, StoreTypes, Flight, NEW s \in Slots,
           InitializeReload(s) \/ SwitchDone(s) \/ CompareFleet(s) \/ AddIndexed(s) \/ AddListed(s)
              \/ RemoveIndexed(s) \/ RemoveUnflash(s) \/ SaveReflash(s) \/ RenameListed(s)
    PROVE  StoreTypes'
<1>1. active \in Projects
  BY ActiveLoaded DEF At, InitializeReload, SwitchDone, CompareFleet, AddIndexed, AddListed, RemoveIndexed,
         RemoveUnflash, SaveReflash, RenameListed
<1>2. tasks[s] \in Tasks /\ Idle \in Tasks /\ fleet \in Seq(Devices) /\ stored \in Catalog
      /\ cache \in [Brains -> Nat] /\ keyVersion \in [Keys -> Nat]
  BY IdleType DEF StoreTypes
<1>3. [tasks EXCEPT ![s] = Idle] \in [Slots -> Tasks]
  BY <1>2, TasksType
<1>4. {"index", "fleet"} \subseteq Stages /\ {"initialize"} \subseteq Ops
  BY DEF Stages, Ops
<1>5. CASE InitializeReload(s)
  <2>1. stored[active].index \in Seq(Brains) /\ <<>> \in Seq(Brains) /\ stored[active].bridge \in BOOLEAN
    BY <1>1, StoredType
  <2>2. PICK ids \in Seq(Brains) : tasks' = [tasks EXCEPT ![s] = [Op("initialize", "index") EXCEPT !.ids = ids]]
    BY <1>5, <2>1 DEF InitializeReload, Readings, Resume
  <2>3. tasks' \in [Slots -> Tasks]
    BY <2>2, MadeTasks, TasksType
  <2> QED
    BY <1>5, <2>1, <2>3 DEF InitializeReload, StoreTypes, host, list, reflasher
<1>6. CASE SwitchDone(s)
  BY <1>3, <1>6, SwitchEnds DEF SwitchDone, End, StoreTypes, host, list, reflasher
<1>7. CASE CompareFleet(s)
  <2>1. stored[active].saved \in SavedFleets \cup {NoFleet}
    BY <1>1, StoredType
  <2>2. [tasks[s] EXCEPT !.at = "fleet", !.saved = stored[active].saved] \in Tasks
    BY <1>2, <1>4, <2>1, WithStageSaved
  <2>3. tasks' \in [Slots -> Tasks]
    BY <1>3, <1>7, <2>2, TasksType DEF CompareFleet, Resume, End
  <2> QED
    BY <1>7, <2>3 DEF CompareFleet, StoreTypes, host, list, reflasher
<1>8. [tasks[s] EXCEPT !.at = "index"] \in Tasks
  BY <1>2, <1>4, WithStage
<1>9. CASE AddIndexed(s)
  <2>1. tasks[s].brain \in Brains
    BY <1>9 DEF AddIndexed, Flight, TaskSound
  <2>2. brainIds' \in Seq(Brains)
    BY <1>9, <2>1 DEF AddIndexed, StoreTypes
  <2>3. stored' = Indexed(brainIds') /\ tasks' = [tasks EXCEPT ![s] = [tasks[s] EXCEPT !.at = "index"]]
    BY <1>9 DEF AddIndexed, Resume
  <2>4. stored' \in Catalog /\ tasks' \in [Slots -> Tasks]
    BY <1>1, <1>8, <2>2, <2>3, IndexedType, TasksType
  <2> QED
    BY <1>9, <2>2, <2>4 DEF AddIndexed, StoreTypes, reflasher
<1>10. CASE AddListed(s)
  BY <1>3, <1>10 DEF AddListed, End, StoreTypes, host, reflasher
<1>11. CASE RemoveIndexed(s)
  <2>1. brainIds' \in Seq(Brains)
    BY <1>11, KeptFacts DEF RemoveIndexed, StoreTypes
  <2>2. stored' = Indexed(brainIds') /\ tasks' = [tasks EXCEPT ![s] = [tasks[s] EXCEPT !.at = "index"]]
    BY <1>11 DEF RemoveIndexed, Resume
  <2>3. stored' \in Catalog /\ tasks' \in [Slots -> Tasks]
    BY <1>1, <1>8, <2>1, <2>2, IndexedType, TasksType
  <2> QED
    BY <1>11, <2>1, <2>3 DEF RemoveIndexed, StoreTypes, reflasher
<1>12. CASE RemoveUnflash(s)
  <2>1. fleet' \in Seq(Devices)
    BY <1>2, <1>12, UnflashedType DEF RemoveUnflash
  <2>2. stored' \in Catalog
    BY <1>2, <1>12, <2>1, PersistedType DEF RemoveUnflash
  <2>3. faults' \in [Brains -> Nat]
    BY <1>12 DEF RemoveUnflash, StoreTypes
  <2> QED
    BY <1>3, <1>12, <2>1, <2>2, <2>3 DEF RemoveUnflash, End, StoreTypes, reflasher
<1>13. CASE SaveReflash(s)
  <2> DEFINE bs == {tasks[s].brain} \cap CachedSet
  <2>1. bs \in SUBSET Brains
    BY DEF CachedSet
  <2>2. fleet' = Reflashed(fleet, bs, cache, keyVersion) /\ (stored' = stored \/ stored' = Persisted(fleet'))
    BY <1>13 DEF SaveReflash
  <2> HIDE DEF bs
  <2>3. fleet' \in Seq(Devices)
    BY <1>2, <2>1, <2>2, ReflashedType
  <2>4. stored' \in Catalog
    BY <1>2, <2>2, <2>3, PersistedType
  <2> QED
    BY <1>3, <1>13, <2>3, <2>4 DEF SaveReflash, End, StoreTypes, reflasher
<1>14. CASE RenameListed(s)
  BY <1>3, <1>14 DEF RenameListed, End, StoreTypes, host, reflasher
<1> QED
  BY <1>5, <1>6, <1>7, <1>9, <1>10, <1>11, <1>12, <1>13, <1>14

LEMMA BrainTypes ==
    ASSUME StoreParameters, Patient, StoreTypes, Flight, NEW b \in Brains,
           AddBrain(b) \/ ImportBrain(b) \/ RemoveBrain(b) \/ SaveBrain(b) \/ RenameBrain(b) \/ ExternalEdit(b)
    PROVE  StoreTypes'
<1>1. active \in Projects /\ acts' \in Nat
  BY UserQuiet, UserActsType DEF AddBrain, ImportBrain, RemoveBrain, SaveBrain, RenameBrain, ExternalEdit
<1>2. cache \in [Brains -> Nat] /\ stored \in Catalog
  BY DEF StoreTypes
<1>3. ASSUME NEW o \in {"add", "remove", "save", "rename"}, Start([Op(o, "record") EXCEPT !.brain = b])
      PROVE  tasks' \in [Slots -> Tasks]
  <2> DEFINE t == [Op(o, "record") EXCEPT !.brain = b]
  <2>1. t \in Tasks /\ Start(t)
    BY <1>3, MadeTasks
  <2> HIDE DEF t
  <2> QED
    BY <2>1, StartEffect, TasksType
<1>4. ASSUME SaveForKey(b) PROVE stored' \in Catalog /\ cache' \in [Brains -> Nat]
  <2> DEFINE def == stored[active].defs[b] + 1
  <2>1. def \in Nat /\ stored' = Defined(b, def) /\ cache' = [cache EXCEPT ![b] = def]
    BY <1>1, <1>4, SaveForKeyEffect
  <2> HIDE DEF def
  <2>2. stored' \in Catalog
    BY <1>1, <2>1, DefinedType DEF DefinedAs
  <2> QED
    BY <1>2, <2>1, <2>2
<1>5. CASE AddBrain(b)
  BY <1>1, <1>3, <1>4, <1>5 DEF AddBrain, StoreTypes, list, reflasher
<1>6. CASE ImportBrain(b)
  BY <1>1, <1>3, <1>4, <1>6 DEF ImportBrain, StoreTypes, list, reflasher
<1>7. CASE SaveBrain(b)
  BY <1>1, <1>3, <1>4, <1>7 DEF SaveBrain, StoreTypes, list, reflasher
<1>8. CASE RemoveBrain(b)
  <2>1. stored' = Defined(b, 0)
    BY <1>8 DEF RemoveBrain, Defined
  <2>2. stored' \in Catalog
    BY <1>1, <2>1, DefinedType DEF DefinedAs
  <2>3. cache' \in [Brains -> Nat]
    BY <1>2, <1>8 DEF RemoveBrain
  <2> QED
    BY <1>1, <1>3, <1>8, <2>2, <2>3 DEF RemoveBrain, StoreTypes, list, reflasher
<1>9. CASE RenameBrain(b)
  BY <1>1, <1>3, <1>9 DEF RenameBrain, StoreTypes, host, list, reflasher
<1>10. CASE ExternalEdit(b)
  <2>1. PICK saved \in {stored[active].saved} \cup {seed.saved : seed \in Seeds[active]},
             def \in {0, stored[active].defs[b] + 1} :
          /\ stored' = [stored EXCEPT ![active].saved = saved, ![active].defs[b] = def]
          /\ cache' = [cache EXCEPT ![b] = def]
          /\ Start([Op("external", "index") EXCEPT
                 !.ids = stored[active].index,
                 !.changed = IF def # 0 /\ Cached(b) THEN {b} ELSE {},
                 !.removed = IF def = 0 /\ Cached(b) THEN {b} ELSE {}])
    BY <1>10 DEF ExternalEdit
  <2>2. def \in Nat /\ saved \in SavedFleets \cup {NoFleet}
    <3>1. \A seed \in Seeds[active] : seed.saved \in SavedFleets \cup {NoFleet}
      BY <1>1 DEF StoreParameters, StoredProjects
    <3>2. stored[active].saved \in SavedFleets \cup {NoFleet} /\ stored[active].defs[b] \in Nat
      BY <1>1, StoredType
    <3> QED
      BY <3>1, <3>2
  <2>3. stored' \in Catalog
    <3>1. \A r \in StoredProjects : [[r EXCEPT !.saved = saved] EXCEPT !.defs = [r.defs EXCEPT ![b] = def]] \in StoredProjects
      BY <2>2 DEF StoredProjects
    <3>2. [[stored[active] EXCEPT !.saved = saved] EXCEPT !.defs = [stored[active].defs EXCEPT ![b] = def]] \in StoredProjects
      BY <1>1, <3>1, StoredType
    <3>3. stored' = [stored EXCEPT ![active] =
                       [[stored[active] EXCEPT !.saved = saved] EXCEPT !.defs = [stored[active].defs EXCEPT ![b] = def]]]
      <4>1. stored[active] \in StoredProjects /\ stored \in [Projects -> StoredProjects]
        BY <1>1, <1>2, StoredType DEF Catalog
      <4>2. [stored[active] EXCEPT !.saved = saved].defs = stored[active].defs
        BY <4>1 DEF StoredProjects
      <4> QED
        BY <1>1, <2>1, <4>1, <4>2
    <3> QED
      BY <1>1, <3>2, <3>3, CataloguedType
  <2>4. cache' \in [Brains -> Nat]
    BY <1>2, <2>1, <2>2
  <2>5. tasks' \in [Slots -> Tasks]
    <3> DEFINE changed == IF def # 0 /\ Cached(b) THEN {b} ELSE {}
               removed == IF def = 0 /\ Cached(b) THEN {b} ELSE {}
               t == [Op("external", "index") EXCEPT !.ids = stored[active].index, !.changed = changed, !.removed = removed]
    <3>1. changed \in SUBSET Brains /\ removed \in SUBSET Brains /\ stored[active].index \in Seq(Brains)
      BY <1>1, StoredType
    <3>2. Op("external", "index") \in Tasks
      BY MadeTasks DEF Ops, Stages
    <3>3. Start(t)
      BY <2>1
    <3> HIDE DEF changed, removed
    <3>4. t \in Tasks
      BY <3>1, <3>2, WithEdit
    <3> HIDE DEF t
    <3> QED
      BY <3>3, <3>4, StartEffect, TasksType
  <2> QED
    BY <1>1, <1>10, <2>3, <2>4, <2>5 DEF ExternalEdit, StoreTypes, list, reflasher
<1> QED
  BY <1>5, <1>6, <1>7, <1>8, <1>9, <1>10

LEMMA RemoveAtFacts ==
    ASSUME NEW T, NEW s \in Seq(T), NEW n \in DOMAIN s
    PROVE  /\ RemoveAt(s, n) \in Seq(T) /\ Len(RemoveAt(s, n)) = Len(s) - 1
           /\ \A k \in DOMAIN RemoveAt(s, n) : \E m \in DOMAIN s : RemoveAt(s, n)[k] = s[m]
<1>1. n \in 1..Len(s) /\ Len(s) \in Nat /\ n - 1 \in 0..Len(s) /\ n + 1 \in 1..(Len(s) + 1)
  OBVIOUS
<1> DEFINE a == SubSeq(s, 1, n - 1)
           b == SubSeq(s, n + 1, Len(s))
<1>2. a \in Seq(T) /\ Len(a) = n - 1 /\ \A k \in 1..(n - 1) : a[k] = s[k]
  BY <1>1
<1>3. b \in Seq(T) /\ Len(b) = Len(s) - n /\ \A k \in 1..(Len(s) - n) : b[k] = s[n + k]
  BY <1>1
<1>4. RemoveAt(s, n) = a \o b
  BY DEF RemoveAt
<1> HIDE DEF a, b
<1>5. a \o b \in Seq(T) /\ Len(a \o b) = Len(s) - 1 /\ DOMAIN (a \o b) = 1..(Len(s) - 1)
  BY <1>1, <1>2, <1>3
<1>6. \A k \in 1..(Len(s) - 1) : \E m \in 1..Len(s) : (a \o b)[k] = s[m]
  <2> SUFFICES ASSUME NEW k \in 1..(Len(s) - 1) PROVE \E m \in 1..Len(s) : (a \o b)[k] = s[m]
    OBVIOUS
  <2>1. CASE k <= n - 1
    <3>1. k \in 1..(n - 1) /\ k \in 1..Len(s) /\ k \in 1..Len(a)
      BY <2>1, <1>1, <1>2
    <3>2. (a \o b)[k] = a[k]
      BY <3>1, <1>2, <1>3
    <3> QED
      BY <3>1, <3>2, <1>2
  <2>2. CASE ~(k <= n - 1)
    <3>1. k - (n - 1) \in 1..(Len(s) - n) /\ n + (k - (n - 1)) = k + 1 /\ k + 1 \in 1..Len(s)
      BY <2>2, <1>1
    <3>2. (a \o b)[k] = b[k - (n - 1)]
      <4>1. k \in 1..(Len(a) + Len(b)) /\ ~(k <= Len(a)) /\ a \in Seq(T) /\ b \in Seq(T)
        <5>1. a \in Seq(T) /\ b \in Seq(T) /\ Len(a) = n - 1 /\ Len(b) = Len(s) - n
          BY <1>2, <1>3
        <5>2. (n - 1) + (Len(s) - n) = Len(s) - 1
          BY <1>1
        <5> QED
          BY <2>2, <5>1, <5>2
      <4>2. (a \o b)[k] = b[k - Len(a)]
        BY <4>1
      <4> QED
        BY <4>2, <1>2
    <3>3. b[k - (n - 1)] = s[n + (k - (n - 1))]
      BY <3>1, <1>3
    <3>4. (a \o b)[k] = s[k + 1]
      BY <3>1, <3>2, <3>3
    <3> QED
      BY <3>1, <3>4
  <2> QED
    BY <2>1, <2>2
<1>7. DOMAIN s = 1..Len(s)
  OBVIOUS
<1> QED
  BY <1>4, <1>5, <1>6, <1>7

LEMMA FleetTypes ==
    ASSUME StoreParameters, StoreTypes,
           \/ \E i \in Instances : AddInstance(i)
           \/ \E n \in DOMAIN fleet :
                RemoveInstance(n) \/ ResetInstance(n) \/ \E b \in Brains : FlashBrain(n, b)
    PROVE  StoreTypes'
<1>1. fleet \in Seq(Devices) /\ cache \in [Brains -> Nat] /\ keyVersion \in [Keys -> Nat]
  BY DEF StoreTypes
<1>2. acts' \in Nat
  BY UserActsType DEF AddInstance, RemoveInstance, ResetInstance, FlashBrain
<1>3. fleet' \in Seq(Devices)
  <2>1. ASSUME NEW i \in Instances, AddInstance(i) PROVE fleet' \in Seq(Devices)
    <3>1. EmptyInstance(i) \in Devices
      BY EmptyType
    <3> QED
      BY <1>1, <2>1, <3>1 DEF AddInstance, SetFleet
  <2>2. ASSUME NEW n \in DOMAIN fleet, RemoveInstance(n) PROVE fleet' \in Seq(Devices)
    BY <1>1, <2>2, RemoveAtFacts DEF RemoveInstance, SetFleet
  <2>3. ASSUME NEW n \in DOMAIN fleet, NEW b \in Brains, SetFleet([fleet EXCEPT ![n] = Flashed(fleet[n], b, cache, keyVersion)])
        PROVE  fleet' \in Seq(Devices)
    <3>1. fleet[n] \in Devices
      BY <1>1
    <3>2. Flashed(fleet[n], b, cache, keyVersion) \in Devices
      BY <1>1, <3>1, FlashedType
    <3> QED
      BY <1>1, <2>3, <3>2 DEF SetFleet
  <2> QED
    BY <2>1, <2>2, <2>3 DEF ResetInstance, FlashBrain, CachedSet
<1>4. stored' = Persisted(fleet')
  BY DEF AddInstance, RemoveInstance, ResetInstance, FlashBrain, SetFleet
<1>5. stored' \in Catalog
  BY <1>3, <1>4, PersistedType
<1> QED
  BY <1>2, <1>3, <1>5 DEF StoreTypes, AddInstance, RemoveInstance, ResetInstance, FlashBrain, list, reflasher

LEMMA RestTypes ==
    ASSUME StoreParameters, StoreTypes, Flight, Patient,
           \/ \E n \in DOMAIN fleet : FiberFault(n)
           \/ \E ks \in SUBSET Keys \ {{}} : Compile(ks)
           \/ Flush \/ ToggleBridge \/ ReloadPage
    PROVE  StoreTypes'
<1>1. ASSUME NEW n \in DOMAIN fleet, FiberFault(n) PROVE StoreTypes'
  <2>1. faults' \in [Brains -> Nat]
    <3> DEFINE b == fleet[n].brain
    <3>1. faults \in [Brains -> Nat] /\ faults' = [faults EXCEPT ![b] = @ + 1]
      BY <1>1 DEF FiberFault, StoreTypes
    <3> HIDE DEF b
    <3>2. CASE b \in Brains
      BY <3>1, <3>2
    <3>3. CASE b \notin Brains
      <4>1. faults' = faults
        BY <3>1, <3>3
      <4> QED
        BY <3>1, <4>1
    <3> QED
      BY <3>2, <3>3
  <2> QED
    BY <1>1, <2>1 DEF FiberFault, StoreTypes, host, list, reflasher
<1>2. ASSUME NEW ks \in SUBSET Keys \ {{}}, Compile(ks) PROVE StoreTypes'
  <2>1. keyVersion' \in [Keys -> Nat] /\ pendingKeys' \subseteq Keys /\ acts' \in Nat
    BY <1>2 DEF Compile, StoreTypes
  <2> QED
    BY <1>2, <2>1 DEF Compile, StoreTypes, host, list
<1>3. CASE Flush
  <2>1. Affected \in SUBSET Brains
    BY DEF Affected, CachedSet
  <2>2. fleet \in Seq(Devices) /\ cache \in [Brains -> Nat] /\ keyVersion \in [Keys -> Nat] /\ stored \in Catalog
    BY DEF StoreTypes
  <2>3. fleet' = Reflashed(fleet, Affected, cache, keyVersion) /\ (stored' = stored \/ stored' = Persisted(fleet'))
    BY <1>3 DEF Flush
  <2>4. fleet' \in Seq(Devices)
    BY <2>1, <2>2, <2>3, ReflashedType
  <2>5. stored' \in Catalog
    BY <2>2, <2>3, <2>4, PersistedType
  <2> QED
    BY <1>3, <2>4, <2>5 DEF Flush, StoreTypes, list
<1>4. CASE ToggleBridge
  <2>1. active \in Projects /\ acts' \in Nat
    BY <1>4, UserQuiet, UserActsType DEF ToggleBridge
  <2>2. bridge' \in BOOLEAN
    BY <1>4 DEF ToggleBridge
  <2>3. [stored[active] EXCEPT !.bridge = bridge'] \in StoredProjects
    <3>1. stored[active] \in StoredProjects
      BY <2>1, StoredType
    <3> QED
      BY <2>2, <3>1 DEF StoredProjects
  <2>4. stored' = [stored EXCEPT ![active] = [stored[active] EXCEPT !.bridge = bridge']]
    BY <1>4 DEF ToggleBridge
  <2>5. stored' \in Catalog
    BY <2>1, <2>3, <2>4, CataloguedType
  <2> QED
    BY <1>4, <2>1, <2>2, <2>5 DEF ToggleBridge, StoreTypes, list, reflasher
<1>5. CASE ReloadPage
  <2>1. fleet' \in Seq(Devices)
    <3>1. PICK i \in Instances : fleet' = <<EmptyInstance(i)>>
      BY <1>5 DEF ReloadPage
    <3>2. EmptyInstance(i) \in Devices
      BY EmptyType
    <3> QED
      BY <3>1, <3>2
  <2>2. tasks' \in [Slots -> Tasks]
    <3>1. Op("initialize", "open") \in Tasks /\ Idle \in Tasks
      BY MadeTasks DEF Ops, Stages
    <3> QED
      BY <1>5, <3>1 DEF ReloadPage
  <2>3. /\ brainIds' \in Seq(Brains) /\ brains' \in Seq(Brains) /\ cache' \in [Brains -> Nat]
        /\ faults' \in [Brains -> Nat] /\ acts' \in Nat
    BY <1>5 DEF ReloadPage, StoreTypes
  <2> QED
    BY <1>5, <2>1, <2>2, <2>3 DEF ReloadPage, StoreTypes
<1> QED
  BY <1>1, <1>2, <1>3, <1>4, <1>5

LEMMA TypesStep ==
    StoreParameters /\ Patient /\ StoreTypes /\ Flight /\ [Next]_vars => StoreTypes'
<1> SUFFICES ASSUME StoreParameters, Patient, StoreTypes, Flight, [Next]_vars PROVE StoreTypes'
  OBVIOUS
<1>1. CASE UNCHANGED vars
  BY <1>1 DEF StoreTypes, vars, host, list, reflasher
<1>2. ASSUME NEW s \in Slots, Resumes(s) PROVE StoreTypes'
  <2>1. CASE (\E p \in Projects : InitializeOpen(s, p)) \/ SwitchLoaded(s)
    BY <2>1, LoadTypes
  <2>2. CASE ReloadStep(s)
    <3>1. active \in Projects
      BY <2>2, ActiveLoaded DEF At, ReloadStep, ReloadBrains, ReloadIndexed, ReloadFleet, ReloadDefault, Reloads
    <3> QED
      BY <2>2, <3>1, ReloadTypes
  <2>3. CASE ~ReloadStep(s) /\ ~((\E p \in Projects : InitializeOpen(s, p)) \/ SwitchLoaded(s))
    BY <1>2, <2>3, EditTypes DEF Resumes
  <2> QED
    BY <2>1, <2>2, <2>3
<1>3. CASE ProjectAct
  BY <1>3, ProjectTypes DEF ProjectAct
<1>4. CASE BrainAct
  BY <1>4, BrainTypes DEF BrainAct
<1>5. CASE FleetAct
  BY <1>5, FleetTypes DEF FleetAct
<1>6. CASE (\E n \in DOMAIN fleet : FiberFault(n)) \/ (\E ks \in SUBSET Keys \ {{}} : Compile(ks))
              \/ Flush \/ ToggleBridge \/ ReloadPage
  BY <1>6, RestTypes
<1> QED
  BY <1>1, <1>2, <1>3, <1>4, <1>5, <1>6 DEF Next

-----------------------------------------------------------------------------
(* What each resumption leaves in flight.                                   *)

(* No project is deleted.                                                   *)
ProjectsStay == \A p \in Projects : stored[p].exists => stored'[p].exists

LEMMA ExistsPersisted ==
    ASSUME StoreTypes, NEW f \in Seq(Devices), stored' = Persisted(f) \/ stored' = stored
    PROVE  ProjectsStay
BY PersistedType DEF ProjectsStay

LEMMA FlightSame ==
    ASSUME Flight, tasks' = tasks, active' = active, switching' = switching, ProjectsStay
    PROVE  Flight'
BY DEF Flight, TaskSound, At, ProjectsStay

LEMMA FlightResume ==
    ASSUME StoreTypes, Flight, NEW s \in Slots, NEW t \in Tasks, tasks' = [tasks EXCEPT ![s] = t],
           active' = active, ProjectsStay,
           \A u \in Slots : u # s /\ tasks[u].op = "switch" => switching' = switching,
           tasks[s].op # "idle", ~At(s, {"initialize"}, {"open"}),
           t = Idle \/ /\ t.op = tasks[s].op /\ t.at \in StageOf(t.op) /\ t.at # "open"
                       /\ t.op \in {"add", "remove", "save", "rename"} => t.brain = tasks[s].brain
                       /\ t.op = "switch" => t.project = tasks[s].project
    PROVE  Flight'
<1>1. \A u \in Slots : tasks'[u] = IF u = s THEN t ELSE tasks[u]
  BY DEF StoreTypes
<1>2. \A u \in Slots : TaskSound(tasks[u])
  BY DEF Flight
<1>3. Idle.op = "idle" /\ Idle.at = "idle" /\ Idle.at \in StageOf(Idle.op)
  BY IdleType DEF StageOf
<1>4. ASSUME NEW u \in Slots PROVE TaskSound(tasks[u])'
  <2>1. CASE u # s
    <3>1. tasks'[u] = tasks[u]
      BY <1>1, <2>1
    <3> QED
      BY <1>2, <2>1, <3>1 DEF TaskSound, ProjectsStay
  <2>2. CASE u = s
    <3>1. tasks'[u] = t
      BY <1>1, <2>2
    <3>2. CASE t = Idle
      BY <1>3, <3>1, <3>2 DEF TaskSound
    <3>3. CASE t # Idle
      <4>1. TaskSound(tasks[s])
        BY <1>2
      <4>2. /\ t.op # "idle" /\ t.at \in StageOf(t.op) /\ t.at # "open"
            /\ t.op = "switch" => t.project \in Projects /\ stored[t.project].exists
            /\ t.op \in {"add", "remove", "save", "rename"} => t.brain \in Brains
        BY <3>3, <4>1 DEF TaskSound
      <4> QED
        BY <3>1, <4>2 DEF TaskSound, ProjectsStay
    <3> QED
      BY <3>2, <3>3
  <2> QED
    BY <2>1, <2>2
<1>5. ASSUME NEW u \in Slots, NEW v \in Slots, u # v PROVE Apart(tasks[u], tasks[v])'
  <2>1. Apart(tasks[u], tasks[v])
    BY <1>5 DEF Flight
  <2>2. t.op = "idle" \/ (t.op = tasks[s].op /\ t.at # "open")
    BY <1>3
  <2> QED
    BY <1>1, <1>5, <2>1, <2>2 DEF Apart, Beside
<1>6. (active' = NoProject) = (\E u \in Slots : At(u, {"initialize"}, {"open"})')
  <2>1. \A u \in Slots : At(u, {"initialize"}, {"open"})' = At(u, {"initialize"}, {"open"})
    BY <1>1, <1>3 DEF At
  <2> QED
    BY <2>1 DEF Flight
<1> QED
  BY <1>4, <1>5, <1>6 DEF Flight

LEMMA FlightStart ==
    ASSUME StoreTypes, StoreParameters, \A u \in Slots : tasks[u] = Idle, NEW t \in Tasks, Start(t), active' = active,
           active \in Projects, TaskSound(t)', t.op \notin {"initialize", "idle"}
    PROVE  Flight'
<1>1. PICK n \in Slots : tasks' = [tasks EXCEPT ![n] = t]
  BY StartEffect
<1>2. \A u \in Slots : tasks'[u] = IF u = n THEN t ELSE Idle
  BY <1>1 DEF StoreTypes
<1>3. Idle.op = "idle" /\ Idle.at = "idle" /\ Idle.at \in StageOf(Idle.op)
  BY IdleType DEF StageOf
<1>4. TaskSound(Idle)'
  BY <1>3 DEF TaskSound
<1>5. \A u \in Slots : TaskSound(tasks[u])'
  BY <1>2, <1>4 DEF TaskSound
<1>6. \A u, v \in Slots : u # v => Apart(tasks[u], tasks[v])'
  BY <1>2, <1>3 DEF Apart
<1>7. \A u \in Slots : ~At(u, {"initialize"}, {"open"})'
  BY <1>2, <1>3 DEF At
<1>8. active' # NoProject
  BY DEF StoreParameters
<1> QED
  BY <1>5, <1>6, <1>7, <1>8 DEF Flight

LEMMA FlightLoad ==
    ASSUME StoreTypes, StoreParameters, Flight, NEW s \in Slots, NEW t \in Tasks, NEW n \in Slots, NEW ids \in Seq(Brains),
           NEW p \in Projects,
           tasks[s].op \in {"initialize", "switch"} /\ tasks[s].at = "open",
           n # s, tasks' = [tasks EXCEPT ![n] = ReloadTask(ids), ![s] = t],
           active' = p, switching' = switching, ProjectsStay,
           t.op = tasks[s].op /\ t.at \in StageOf(t.op) /\ t.at # "open",
           t.op = "switch" => t.project = tasks[s].project
    PROVE  /\ Flight'
           /\ \A u \in Slots : u # s => tasks[u] = Idle
           /\ \A u \in Slots : tasks'[u] = IF u = n THEN ReloadTask(ids)
                                           ELSE IF u = s THEN t ELSE Idle
<1>1. \A u \in Slots : TaskSound(tasks[u])
  BY DEF Flight
<1>2. ASSUME NEW u \in Slots, u # s PROVE tasks[u] = Idle
  <2>1. Apart(tasks[s], tasks[u])
    BY <1>2 DEF Flight
  <2>2. tasks[u].op = "idle"
    BY <2>1 DEF Apart, Beside
  <2> QED
    BY <1>1, <2>2 DEF TaskSound
<1> DEFINE r == ReloadTask(ids)
<1>3. r \in Tasks /\ r.op = "reload" /\ r.at = "index"
  <2>1. Op("reload", "index") \in Tasks /\ Op("reload", "index").op = "reload" /\ Op("reload", "index").at = "index"
    BY OpType DEF Ops, Stages
  <2> QED
    BY <2>1, WithIds DEF ReloadTask
<1>4. tasks' = [tasks EXCEPT ![n] = r, ![s] = t]
  OBVIOUS
<1> HIDE DEF r
<1>5. \A u \in Slots : tasks'[u] = IF u = n THEN r ELSE IF u = s THEN t ELSE Idle
  BY <1>2, <1>4 DEF StoreTypes
<1>6. Idle.op = "idle" /\ Idle.at = "idle" /\ Idle.at \in StageOf(Idle.op)
  BY IdleType DEF StageOf
<1>71. TaskSound(t)'
  <2>1. TaskSound(tasks[s])
    BY <1>1
  <2>2. t.op \in {"initialize", "switch"} /\ t.at \in StageOf(t.op) /\ t.at # "open"
    OBVIOUS
  <2>3. t.op = "switch" => t.project \in Projects /\ stored[t.project].exists
    BY <2>1 DEF TaskSound
  <2>4. t.op = "switch" => t.project \in Projects /\ stored'[t.project].exists
    BY <2>3 DEF ProjectsStay
  <2> QED
    BY <2>2, <2>4 DEF TaskSound
<1>72. TaskSound(r)'
  <2>1. "index" \in StageOf("reload")
    BY DEF StageOf
  <2> QED
    BY <1>3, <2>1 DEF TaskSound
<1>73. TaskSound(Idle)'
  BY <1>6 DEF TaskSound
<1>8. ASSUME NEW u \in Slots PROVE TaskSound(tasks[u])'
  <2>1. CASE u = n
    <3>1. tasks'[u] = r
      BY <1>5, <2>1
    <3> QED
      BY <3>1, <1>72 DEF TaskSound
  <2>2. CASE u # n /\ u = s
    <3>1. tasks'[u] = t
      BY <1>5, <2>2
    <3> QED
      BY <3>1, <1>71 DEF TaskSound
  <2>3. CASE u # n /\ u # s
    <3>1. tasks'[u] = Idle
      BY <1>5, <2>3
    <3> QED
      BY <3>1, <1>73 DEF TaskSound
  <2> QED
    BY <2>1, <2>2, <2>3
<1>9. ASSUME NEW u \in Slots, NEW v \in Slots, u # v PROVE Apart(tasks[u], tasks[v])'
  <2>1. Apart(t, r) /\ Apart(r, t) /\ Apart(Idle, tasks'[v]) /\ Apart(tasks'[u], Idle)
    <3>1. t.op \in {"initialize", "switch"} /\ t.at # "open"
      OBVIOUS
    <3> QED
      BY <1>3, <1>6, <3>1 DEF Apart, Beside
  <2>2. \/ tasks'[u] = Idle
        \/ tasks'[v] = Idle
        \/ (tasks'[u] = t /\ tasks'[v] = r)
        \/ (tasks'[u] = r /\ tasks'[v] = t)
    BY <1>5, <1>9
  <2> QED
    BY <2>1, <2>2 DEF Apart, Beside
<1>10. ASSUME NEW u \in Slots PROVE ~At(u, {"initialize"}, {"open"})'
  <2>1. tasks'[u] = Idle \/ tasks'[u] = t \/ tasks'[u] = r
    BY <1>5
  <2> QED
    BY <1>3, <1>6, <2>1 DEF At
<1>11. active' # NoProject
  BY DEF StoreParameters
<1>12. Flight'
  BY <1>8, <1>9, <1>10, <1>11 DEF Flight
<1> QED
  BY <1>2, <1>5, <1>12 DEF r

LEMMA FlightPage ==
    ASSUME StoreParameters, active' = NoProject,
           tasks' = [s \in Slots |-> IF \A t \in Slots : s <= t THEN Op("initialize", "open") ELSE Idle]
    PROVE  Flight'
<1> DEFINE o == Op("initialize", "open")
<1>1. o.op = "initialize" /\ o.at = "open"
  BY OpType DEF Ops, Stages
<1>2. \A s \in Slots : tasks'[s] = IF \A t \in Slots : s <= t THEN o ELSE Idle
  OBVIOUS
<1> HIDE DEF o
<1>3. \E s \in Slots : \A t \in Slots : s <= t
  <2>1. Slots \in SUBSET Nat /\ Slots # {}
    BY DEF StoreParameters
  <2> QED
    BY <2>1, LeastNatural
<1>4. \A s, t \in Slots : (\A u \in Slots : s <= u) /\ (\A u \in Slots : t <= u) => s = t
  BY DEF StoreParameters
<1>5. Idle.op = "idle" /\ Idle.at = "idle" /\ Idle.at \in StageOf(Idle.op)
  BY IdleType DEF StageOf
<1>6. \A s \in Slots : TaskSound(tasks[s])'
  BY <1>1, <1>2, <1>5 DEF TaskSound, StageOf
<1>7. \A s, t \in Slots : s # t => Apart(tasks[s], tasks[t])'
  BY <1>2, <1>4, <1>5 DEF Apart
<1>8. \E s \in Slots : At(s, {"initialize"}, {"open"})'
  BY <1>1, <1>2, <1>3 DEF At
<1> QED
  BY <1>6, <1>7, <1>8 DEF Flight

(* What a resumption leaves of the task: it ends, or goes on to a later     *)
(* stage of the same operation.                                             *)
GoesOn(s, t) ==
    \/ t = Idle
    \/ /\ t.op = tasks[s].op /\ t.at \in StageOf(t.op) /\ t.at # "open"
       /\ t.op \in {"add", "remove", "save", "rename"} => t.brain = tasks[s].brain
       /\ t.op = "switch" => t.project = tasks[s].project
Edits(s) ==
    \/ InitializeReload(s) \/ SwitchDone(s) \/ CompareFleet(s) \/ AddIndexed(s) \/ AddListed(s)
    \/ RemoveIndexed(s) \/ RemoveUnflash(s) \/ SaveReflash(s) \/ RenameListed(s)

LEMMA ReloadEffect ==
    ASSUME StoreParameters, StoreTypes, Flight, NEW s \in Slots, ReloadStep(s)
    PROVE  /\ active \in Projects /\ tasks[s].op \in Reloads /\ tasks[s].at \in {"index", "indexed", "fleet", "default"}
           /\ \E t \in Tasks : tasks' = [tasks EXCEPT ![s] = t] /\ GoesOn(s, t)
           /\ active' = active /\ switching' = switching
           /\ ProjectsStay
<1>1. active \in Projects /\ tasks[s].op \in Reloads /\ tasks[s].at \in {"index", "indexed", "fleet", "default"}
  BY ActiveLoaded DEF At, ReloadStep, ReloadBrains, ReloadIndexed, ReloadFleet, ReloadDefault, Reloads
<1>2. tasks[s] \in Tasks /\ tasks[s].ids \in Seq(Brains)
  BY TaskFields DEF StoreTypes
<1>3. Reloads \subseteq Ops /\ {"compare", "fleet", "default", "indexed"} \subseteq Stages /\ Idle \in Tasks
  BY IdleType DEF Reloads, Ops, Stages
<1>4. /\ "indexed" \in StageOf(tasks[s].op) /\ "default" \in StageOf(tasks[s].op) /\ "fleet" \in StageOf(tasks[s].op)
      /\ tasks[s].op = "external" => "compare" \in StageOf(tasks[s].op)
  BY <1>1 DEF Reloads, StageOf
<1>5. active' = active /\ switching' = switching
  BY DEF ReloadStep, ReloadBrains, ReloadIndexed, ReloadFleet, ReloadDefault, host
<1>6. ASSUME AfterBrains(s)
      PROVE  /\ \E t \in Tasks : tasks' = [tasks EXCEPT ![s] = t] /\ GoesOn(s, t)
             /\ ProjectsStay
  <2>1. PICK saved \in SavedFleets \cup {NoFleet} : tasks' = [tasks EXCEPT ![s] =
                       [Op(tasks[s].op, IF tasks[s].op = "external" THEN "compare" ELSE "fleet")
                          EXCEPT !.saved = saved]]
    BY <1>1, <1>6, AfterBrainsEffect
  <2>2. fleet' \in Seq(Devices) /\ (stored' = stored \/ stored' = Persisted(fleet'))
    BY <1>1, <1>6, AfterBrainsEffect
  <2> DEFINE at == IF tasks[s].op = "external" THEN "compare" ELSE "fleet"
             t == [Op(tasks[s].op, at) EXCEPT !.saved = saved]
  <2>3. at \in Stages /\ at \in StageOf(tasks[s].op) /\ at # "open"
    BY <1>3, <1>4
  <2>4. tasks' = [tasks EXCEPT ![s] = t]
    BY <2>1
  <2> HIDE DEF at
  <2>5. Op(tasks[s].op, at) \in Tasks /\ Op(tasks[s].op, at).op = tasks[s].op /\ Op(tasks[s].op, at).at = at
    BY <1>1, <1>3, <2>3, OpType
  <2>6. t \in Tasks /\ t.op = tasks[s].op /\ t.at = at
    BY <2>5, WithSaved
  <2> HIDE DEF t
  <2>7. GoesOn(s, t)
    BY <1>1, <2>3, <2>6 DEF GoesOn, Reloads
  <2> QED
    BY <2>2, <2>4, <2>6, <2>7, ExistsPersisted
<1>7. CASE ReloadBrains(s)
  <2>1. ASSUME stored' = Indexed(Reconciled(tasks[s].ids)), Resume(s, [tasks[s] EXCEPT !.at = "indexed", !.ids = <<>>])
        PROVE  /\ \E t \in Tasks : tasks' = [tasks EXCEPT ![s] = t] /\ GoesOn(s, t)
               /\ ProjectsStay
    <3>1. Reconciled(tasks[s].ids) \in Seq(Brains)
      BY <1>2, ReconciledFacts DEF StoreParameters
    <3>2. ProjectsStay
      BY <1>1, <2>1, <3>1, IndexedType DEF ProjectsStay
    <3> DEFINE t == [tasks[s] EXCEPT !.at = "indexed", !.ids = <<>>]
    <3>3. tasks' = [tasks EXCEPT ![s] = t]
      BY <2>1 DEF Resume
    <3>4. t \in Tasks /\ t.op = tasks[s].op /\ t.at = "indexed"
      <4>1. <<>> \in Seq(Brains) /\ "indexed" \in Stages
        BY <1>3
      <4>2. [tasks[s] EXCEPT !.at = "indexed", !.ids = <<>>] \in Tasks
        BY <1>2, <4>1, WithStageIds
      <4>3. t.op = tasks[s].op /\ t.at = "indexed"
        BY <1>2 DEF Tasks
      <4> QED
        BY <4>2, <4>3
    <3> HIDE DEF t
    <3>5. GoesOn(s, t)
      BY <1>1, <1>4, <3>4 DEF GoesOn, Reloads
    <3> QED
      BY <3>2, <3>3, <3>4, <3>5
  <2> QED
    BY <1>1, <1>5, <1>6, <1>7, <2>1 DEF ReloadBrains
<1>8. CASE ReloadIndexed(s)
  BY <1>1, <1>5, <1>6, <1>8 DEF ReloadIndexed
<1>9. CASE ReloadFleet(s)
  <2>1. \E t \in Tasks : tasks' = [tasks EXCEPT ![s] = t] /\ GoesOn(s, t)
    <3>1. CASE End(s)
      BY <1>3, <3>1 DEF End, GoesOn
    <3>2. CASE Resume(s, Op(tasks[s].op, "default"))
      <4>1. Op(tasks[s].op, "default") \in Tasks /\ Op(tasks[s].op, "default").op = tasks[s].op
            /\ Op(tasks[s].op, "default").at = "default"
        BY <1>1, <1>3, OpType
      <4>2. GoesOn(s, Op(tasks[s].op, "default"))
        BY <1>1, <1>4, <4>1 DEF GoesOn, Reloads
      <4> QED
        BY <3>2, <4>1, <4>2 DEF Resume
    <3> QED
      BY <1>9, <3>1, <3>2 DEF ReloadFleet
  <2>2. ProjectsStay
    <3>1. CASE stored' = stored
      BY <3>1 DEF ProjectsStay
    <3>2. CASE stored' # stored
      <4>1. PICK i \in Instances : fleet' = <<EmptyInstance(i)>> /\ stored' = Persisted(fleet')
        BY <1>9, <3>2 DEF ReloadFleet
      <4>2. fleet' \in Seq(Devices)
        <5>1. EmptyInstance(i) \in Devices
          BY EmptyType
        <5> QED
          BY <4>1, <5>1
      <4> QED
        BY <4>1, <4>2, ExistsPersisted
    <3> QED
      BY <3>1, <3>2
  <2> QED
    BY <1>1, <1>5, <2>1, <2>2
<1>10. CASE ReloadDefault(s)
  BY <1>1, <1>3, <1>5, <1>10 DEF ReloadDefault, End, GoesOn, ProjectsStay, host
<1> QED
  BY <1>7, <1>8, <1>9, <1>10 DEF ReloadStep

LEMMA EditEffect ==
    ASSUME StoreParameters, StoreTypes, Flight, NEW s \in Slots, Edits(s)
    PROVE  /\ active \in Projects /\ tasks[s].op # "idle" /\ ~At(s, {"initialize"}, {"open"})
           /\ \E t \in Tasks : tasks' = [tasks EXCEPT ![s] = t] /\ GoesOn(s, t)
           /\ active' = active /\ cache' = cache /\ failure' = failure
           /\ switching' = switching \/ tasks[s].op = "switch"
           /\ ProjectsStay
<1>1. tasks[s].op # "idle" /\ ~At(s, {"initialize"}, {"open"})
  BY DEF Edits, At, InitializeReload, SwitchDone, CompareFleet, AddIndexed, AddListed, RemoveIndexed,
         RemoveUnflash, SaveReflash, RenameListed
<1>2. active \in Projects
  BY <1>1, ActiveLoaded
<1>3. tasks[s] \in Tasks /\ Idle \in Tasks /\ fleet \in Seq(Devices) /\ cache \in [Brains -> Nat] /\ keyVersion \in [Keys -> Nat]
  BY IdleType DEF StoreTypes
<1>4. active' = active /\ cache' = cache /\ failure' = failure /\ (switching' = switching \/ tasks[s].op = "switch")
  BY DEF Edits, InitializeReload, SwitchDone, CompareFleet, AddIndexed, AddListed, RemoveIndexed,
         RemoveUnflash, SaveReflash, RenameListed, host
<1>5. \E t \in Tasks : tasks' = [tasks EXCEPT ![s] = t] /\ GoesOn(s, t)
  <2>1. CASE End(s)
    BY <1>3, <2>1 DEF End, GoesOn
  <2>2. CASE InitializeReload(s)
    <3>1. stored[active].index \in Seq(Brains) /\ <<>> \in Seq(Brains)
      BY <1>2, StoredType
    <3>2. PICK ids \in Seq(Brains) : tasks' = [tasks EXCEPT ![s] = [Op("initialize", "index") EXCEPT !.ids = ids]]
      BY <2>2, <3>1 DEF InitializeReload, Readings, Resume
    <3> DEFINE t == [Op("initialize", "index") EXCEPT !.ids = ids]
    <3>3. Op("initialize", "index") \in Tasks /\ Op("initialize", "index").op = "initialize"
          /\ Op("initialize", "index").at = "index"
      BY OpType DEF Ops, Stages
    <3>4. t \in Tasks /\ t.op = "initialize" /\ t.at = "index"
      BY <3>3, WithIds
    <3>5. tasks' = [tasks EXCEPT ![s] = t] /\ tasks[s].op = "initialize"
      BY <2>2, <3>2 DEF InitializeReload
    <3> HIDE DEF t
    <3> QED
      BY <3>4, <3>5 DEF GoesOn, StageOf
  <2>3. ASSUME CompareFleet(s), ~End(s) PROVE \E t \in Tasks : tasks' = [tasks EXCEPT ![s] = t] /\ GoesOn(s, t)
    <3> DEFINE t == [tasks[s] EXCEPT !.at = "fleet", !.saved = stored[active].saved]
    <3>1. tasks' = [tasks EXCEPT ![s] = t] /\ tasks[s].op = "external"
      BY <2>3 DEF CompareFleet, Resume
    <3>2. stored[active].saved \in SavedFleets \cup {NoFleet} /\ "fleet" \in Stages
      BY <1>2, StoredType DEF Stages
    <3>3. t \in Tasks
      BY <1>3, <3>2, WithStageSaved
    <3>4. t.op = "external" /\ t.at = "fleet"
      BY <1>3, <3>1 DEF Tasks
    <3> HIDE DEF t
    <3> QED
      BY <3>1, <3>3, <3>4 DEF GoesOn, StageOf
  <2>4. ASSUME AddIndexed(s) \/ RemoveIndexed(s) PROVE \E t \in Tasks : tasks' = [tasks EXCEPT ![s] = t] /\ GoesOn(s, t)
    <3> DEFINE t == [tasks[s] EXCEPT !.at = "index"]
    <3>1. tasks' = [tasks EXCEPT ![s] = t] /\ tasks[s].op \in {"add", "remove"}
      BY <2>4 DEF AddIndexed, RemoveIndexed, Resume
    <3>2. t \in Tasks
      BY <1>3, WithStage DEF Stages
    <3>3. t.op = tasks[s].op /\ t.at = "index" /\ t.brain = tasks[s].brain
      BY <1>3 DEF Tasks
    <3> HIDE DEF t
    <3> QED
      BY <3>1, <3>2, <3>3 DEF GoesOn, StageOf
  <2> QED
    BY <2>1, <2>2, <2>3, <2>4, SwitchEnds DEF Edits, AddListed, RemoveUnflash, SaveReflash, RenameListed
<1>6. ProjectsStay
  <2>1. ASSUME NEW ids \in Seq(Brains), stored' = Indexed(ids) PROVE ProjectsStay
    BY <1>2, <2>1, IndexedType DEF ProjectsStay
  <2>2. CASE AddIndexed(s)
    <3>1. tasks[s].brain \in Brains
      BY <2>2 DEF AddIndexed, Flight, TaskSound
    <3>2. brainIds' \in Seq(Brains)
      BY <2>2, <3>1 DEF AddIndexed, StoreTypes
    <3> QED
      BY <2>1, <2>2, <3>2 DEF AddIndexed
  <2>3. CASE RemoveIndexed(s)
    <3>1. brainIds' \in Seq(Brains)
      BY <2>3, KeptFacts DEF RemoveIndexed, StoreTypes
    <3> QED
      BY <2>1, <2>3, <3>1 DEF RemoveIndexed
  <2>4. CASE RemoveUnflash(s)
    <3>1. fleet' \in Seq(Devices) /\ (stored' = stored \/ stored' = Persisted(fleet'))
      BY <1>3, <2>4, UnflashedType DEF RemoveUnflash
    <3> QED
      BY <3>1, ExistsPersisted
  <2>5. CASE SaveReflash(s)
    <3> DEFINE bs == {tasks[s].brain} \cap CachedSet
    <3>1. bs \in SUBSET Brains
      BY DEF CachedSet
    <3>2. fleet' = Reflashed(fleet, bs, cache, keyVersion) /\ (stored' = stored \/ stored' = Persisted(fleet'))
      BY <2>5 DEF SaveReflash
    <3> HIDE DEF bs
    <3>3. fleet' \in Seq(Devices)
      BY <1>3, <3>1, <3>2, ReflashedType
    <3> QED
      BY <3>2, <3>3, ExistsPersisted
  <2>6. CASE stored' = stored
    BY <2>6 DEF ProjectsStay
  <2> QED
    BY <2>2, <2>3, <2>4, <2>5, <2>6 DEF Edits, InitializeReload, SwitchDone, CompareFleet, AddListed, RenameListed, host
<1> QED
  BY <1>1, <1>2, <1>4, <1>5, <1>6

LEMMA LoadingEffect ==
    ASSUME StoreParameters, StoreTypes, Flight, NEW s \in Slots,
           (\E p \in Projects : InitializeOpen(s, p)) \/ SwitchLoaded(s)
    PROVE  \E p \in Projects, n \in Slots, ids \in Seq(Brains), t \in Tasks :
             /\ stored[p].exists
             /\ tasks[s].op \in {"initialize", "switch"} /\ tasks[s].at = "open" /\ n # s
             /\ tasks' = [tasks EXCEPT ![n] = ReloadTask(ids), ![s] = t]
             /\ t.op = tasks[s].op /\ t.at \in StageOf(t.op) \cap {"opened", "loaded"}
             /\ t.op = "switch" => t.project = tasks[s].project
             /\ active' = p /\ failure' \in BOOLEAN
             /\ cache' = IF failure' THEN [b \in Brains |-> 0] ELSE stored[p].defs
             /\ bridge' = (stored[p].bridge /\ ~switching)
             /\ ids \in {stored[p].index, <<>>} /\ (~failure' => ids = stored[p].index)
             /\ UNCHANGED <<stored, list, fleet, reflasher, faults, switching, acts>>
<1>1. ASSUME NEW p \in Projects, NEW t \in Tasks, LoadProject(p, s, t), tasks[s].op # "idle"
      PROVE  \E n \in Slots, ids \in Seq(Brains) :
               /\ n # s /\ tasks' = [tasks EXCEPT ![n] = ReloadTask(ids), ![s] = t]
               /\ active' = p /\ failure' \in BOOLEAN
               /\ cache' = IF failure' THEN [b \in Brains |-> 0] ELSE stored[p].defs
               /\ bridge' = (stored[p].bridge /\ ~switching)
               /\ ids \in {stored[p].index, <<>>} /\ (~failure' => ids = stored[p].index)
  <2>1. tasks[s] # Idle
    BY <1>1, IdleType
  <2> QED
    BY <1>1, <2>1, LoadEffect DEF ReloadTask
<1>2. UNCHANGED <<stored, list, fleet, reflasher, faults, switching, acts>>
  BY DEF InitializeOpen, SwitchLoaded
<1>3. ASSUME NEW p \in Projects, InitializeOpen(s, p)
      PROVE  \E t \in Tasks :
                /\ LoadProject(p, s, t) /\ stored[p].exists
                /\ tasks[s].op = "initialize" /\ tasks[s].at = "open" /\ t.op = "initialize" /\ t.at = "opened"
  <2>1. Op("initialize", "opened") \in Tasks /\ Op("initialize", "opened").op = "initialize"
        /\ Op("initialize", "opened").at = "opened"
    BY OpType DEF Ops, Stages
  <2> QED
    BY <1>3, <2>1 DEF InitializeOpen
<1>4. ASSUME SwitchLoaded(s)
      PROVE  \E t \in Tasks :
                /\ LoadProject(tasks[s].project, s, t) /\ tasks[s].project \in Projects /\ stored[tasks[s].project].exists
                /\ tasks[s].op = "switch" /\ tasks[s].at = "open" /\ t.op = "switch" /\ t.at = "loaded"
                /\ t.project = tasks[s].project
  <2>1. tasks[s] \in Tasks /\ "loaded" \in Stages
    BY DEF StoreTypes, Stages
  <2>2. [tasks[s] EXCEPT !.at = "loaded"] \in Tasks
    BY <2>1, WithStage
  <2> DEFINE t == [tasks[s] EXCEPT !.at = "loaded"]
  <2>3. t.op = tasks[s].op /\ t.at = "loaded" /\ t.project = tasks[s].project
    BY <2>1 DEF Tasks
  <2>4. tasks[s].op = "switch" /\ tasks[s].at = "open" /\ LoadProject(tasks[s].project, s, t)
    BY <1>4 DEF SwitchLoaded
  <2>5. tasks[s].project \in Projects /\ stored[tasks[s].project].exists
    BY <2>4 DEF Flight, TaskSound
  <2> HIDE DEF t
  <2> QED
    BY <2>2, <2>3, <2>4, <2>5 DEF t
<1>5. "opened" \in StageOf("initialize") /\ "loaded" \in StageOf("switch")
  BY DEF StageOf
<1>6. \E p \in Projects, t \in Tasks :
         /\ LoadProject(p, s, t) /\ stored[p].exists
         /\ tasks[s].op \in {"initialize", "switch"} /\ tasks[s].at = "open"
         /\ t.op = tasks[s].op /\ t.at \in StageOf(t.op) \cap {"opened", "loaded"}
         /\ t.op = "switch" => t.project = tasks[s].project
  <2>1. CASE \E p \in Projects : InitializeOpen(s, p)
    <3>1. PICK p \in Projects : InitializeOpen(s, p)
      BY <2>1
    <3>2. PICK t \in Tasks : /\ LoadProject(p, s, t) /\ stored[p].exists
                            /\ tasks[s].op = "initialize" /\ tasks[s].at = "open" /\ t.op = "initialize" /\ t.at = "opened"
      BY <1>3, <3>1
    <3> QED
      BY <1>5, <3>2
  <2>2. CASE SwitchLoaded(s)
    BY <1>4, <1>5, <2>2
  <2> QED
    BY <2>1, <2>2
<1>7. PICK p \in Projects, t \in Tasks :
         /\ LoadProject(p, s, t) /\ stored[p].exists
         /\ tasks[s].op \in {"initialize", "switch"} /\ tasks[s].at = "open"
         /\ t.op = tasks[s].op /\ t.at \in StageOf(t.op) \cap {"opened", "loaded"}
         /\ t.op = "switch" => t.project = tasks[s].project
  BY <1>6
<1>8. PICK n \in Slots, ids \in Seq(Brains) :
               /\ n # s /\ tasks' = [tasks EXCEPT ![n] = ReloadTask(ids), ![s] = t]
               /\ active' = p /\ failure' \in BOOLEAN
               /\ cache' = IF failure' THEN [b \in Brains |-> 0] ELSE stored[p].defs
               /\ bridge' = (stored[p].bridge /\ ~switching)
               /\ ids \in {stored[p].index, <<>>} /\ (~failure' => ids = stored[p].index)
  BY <1>1, <1>7
<1> QED
  BY <1>2, <1>7, <1>8

LEMMA ProjectActFlight ==
    ASSUME StoreParameters, Patient, StoreTypes, Flight, NEW p \in Projects,
           CreateProject(p) \/ SwitchProject(p) \/ \E seed \in Seeds[p] : ImportProject(p, seed)
    PROVE  Flight'
<1>1. (\A s \in Slots : tasks[s] = Idle) /\ active \in Projects
  BY UserQuiet DEF CreateProject, SwitchProject, ImportProject
<1> DEFINE t == [Op("switch", "open") EXCEPT !.project = p]
<1>2. t \in Tasks
  BY MadeTasks
<1>3. t.op = "switch" /\ t.at = "open" /\ t.project = p
  BY DEF Op, Idle
<1>4. Start(t) /\ active' = active /\ switching' = TRUE
  BY DEF CreateProject, SwitchProject, ImportProject, host
<1>5. stored'[p].exists
  <2>1. CASE CreateProject(p)
    <3>1. stored' = [stored EXCEPT ![p] = [stored[p] EXCEPT !.exists = TRUE]]
      BY <2>1 DEF CreateProject
    <3>2. [stored[p] EXCEPT !.exists = TRUE].exists
      BY StoredType DEF StoredProjects
    <3> QED
      BY <3>1, <3>2 DEF StoreTypes, Catalog
  <2>2. CASE SwitchProject(p)
    BY <2>2 DEF SwitchProject, host
  <2>3. CASE \E seed \in Seeds[p] : ImportProject(p, seed)
    <3>1. PICK seed \in Seeds[p] : stored' = [stored EXCEPT ![p] = [seed EXCEPT !.exists = TRUE, !.bridge = FALSE]]
      BY <2>3 DEF ImportProject
    <3>2. seed \in StoredProjects
      BY DEF StoreParameters
    <3>3. [seed EXCEPT !.exists = TRUE, !.bridge = FALSE].exists
      BY <3>2 DEF StoredProjects
    <3> QED
      BY <3>1, <3>3 DEF StoreTypes, Catalog
  <2> QED
    BY <2>1, <2>2, <2>3
<1> HIDE DEF t
<1>6. TaskSound(t)'
  BY <1>3, <1>4, <1>5 DEF TaskSound, StageOf
<1> QED
  BY <1>1, <1>2, <1>3, <1>4, <1>6, FlightStart

LEMMA BrainActFlight ==
    ASSUME StoreParameters, Patient, StoreTypes, Flight, NEW b \in Brains,
           AddBrain(b) \/ ImportBrain(b) \/ RemoveBrain(b) \/ SaveBrain(b) \/ RenameBrain(b) \/ ExternalEdit(b)
    PROVE  Flight'
<1>1. (\A s \in Slots : tasks[s] = Idle) /\ active \in Projects
  BY UserQuiet DEF AddBrain, ImportBrain, RemoveBrain, SaveBrain, RenameBrain, ExternalEdit
<1>2. active' = active
  BY DEF AddBrain, ImportBrain, RemoveBrain, SaveBrain, RenameBrain, ExternalEdit, host
<1>3. ASSUME NEW o \in {"add", "remove", "save", "rename"}, Start([Op(o, "record") EXCEPT !.brain = b]) PROVE Flight'
  <2> DEFINE t == [Op(o, "record") EXCEPT !.brain = b]
  <2>1. t \in Tasks /\ Start(t)
    BY <1>3, MadeTasks
  <2>2. t.op = o /\ t.at = "record" /\ t.brain = b
    BY DEF Op, Idle
  <2> HIDE DEF t
  <2>3. "record" \in StageOf(o)
    BY DEF StageOf
  <2>4. TaskSound(t)'
    BY <2>2, <2>3 DEF TaskSound
  <2> QED
    BY <1>1, <1>2, <2>1, <2>2, <2>4, FlightStart
<1>4. ASSUME ExternalEdit(b) PROVE Flight'
  <2>1. stored[active].index \in Seq(Brains)
    BY <1>1, StoredType
  <2>2. PICK ids \in Seq(Brains), changed \in SUBSET Brains, removed \in SUBSET Brains :
           Start([Op("external", "index") EXCEPT !.ids = ids, !.changed = changed, !.removed = removed])
    BY <1>4, <2>1 DEF ExternalEdit
  <2> DEFINE o == Op("external", "index")
             t == [o EXCEPT !.ids = ids, !.changed = changed, !.removed = removed]
  <2>3. o \in Tasks /\ o.op = "external" /\ o.at = "index"
    BY OpType DEF Ops, Stages
  <2>4. Start(t)
    BY <2>2
  <2> HIDE DEF o
  <2>5. [o EXCEPT !.ids = ids, !.changed = changed, !.removed = removed] \in Tasks
    BY <2>3, WithEdit
  <2>6. t.op = "external" /\ t.at = "index"
    BY <2>3 DEF Tasks
  <2> HIDE DEF t
  <2>7. TaskSound(t)'
    BY <2>6 DEF TaskSound, StageOf
  <2>8. t \in Tasks
    BY <2>5 DEF t
  <2> QED
    BY <1>1, <1>2, <2>4, <2>6, <2>7, <2>8, FlightStart
<1> QED
  BY <1>3, <1>4 DEF AddBrain, ImportBrain, RemoveBrain, SaveBrain, RenameBrain

LEMMA StoredStays ==
    ASSUME StoreParameters, Patient, StoreTypes, Flight,
           FleetAct \/ Flush \/ ToggleBridge
    PROVE  ProjectsStay
<1>1. CASE FleetAct \/ Flush
  <2>1. StoreTypes'
    BY <1>1, FleetTypes, RestTypes DEF FleetAct
  <2>2. fleet' \in Seq(Devices)
    BY <2>1 DEF StoreTypes
  <2>3. stored' = stored \/ stored' = Persisted(fleet')
    BY <1>1 DEF FleetAct, AddInstance, RemoveInstance, ResetInstance, FlashBrain, SetFleet, Flush
  <2> QED
    BY <2>2, <2>3, ExistsPersisted
<1>2. CASE ToggleBridge
  <2>1. active \in Projects
    BY <1>2, UserQuiet DEF ToggleBridge
  <2>2. stored' = [stored EXCEPT ![active] = [stored[active] EXCEPT !.bridge = bridge']]
    BY <1>2 DEF ToggleBridge
  <2>3. [stored[active] EXCEPT !.bridge = bridge'].exists = stored[active].exists
    BY <2>1, StoredType DEF StoredProjects
  <2> QED
    BY <2>1, <2>2, <2>3 DEF ProjectsStay, StoreTypes, Catalog
<1> QED
  BY <1>1, <1>2

LEMMA FlightStep ==
    StoreParameters /\ Patient /\ StoreTypes /\ Flight /\ [Next]_vars => Flight'
<1> SUFFICES ASSUME StoreParameters, Patient, StoreTypes, Flight, [Next]_vars PROVE Flight'
  OBVIOUS
<1>1. CASE UNCHANGED vars
  BY <1>1 DEF Flight, TaskSound, Apart, Beside, At, vars, host
<1>2. ASSUME NEW s \in Slots, Resumes(s) PROVE Flight'
  <2>1. CASE (\E p \in Projects : InitializeOpen(s, p)) \/ SwitchLoaded(s)
    <3>1. PICK p \in Projects, n \in Slots, ids \in Seq(Brains), t \in Tasks :
             /\ tasks[s].op \in {"initialize", "switch"} /\ tasks[s].at = "open" /\ n # s
             /\ tasks' = [tasks EXCEPT ![n] = ReloadTask(ids), ![s] = t]
             /\ t.op = tasks[s].op /\ t.at \in StageOf(t.op) \cap {"opened", "loaded"}
             /\ t.op = "switch" => t.project = tasks[s].project
             /\ active' = p /\ UNCHANGED <<stored, switching>>
      BY <2>1, LoadingEffect
    <3>2. ProjectsStay /\ switching' = switching
      BY <3>1 DEF ProjectsStay
    <3>3. t.at \in StageOf(t.op) /\ t.at # "open"
      BY <3>1
    <3> QED
      BY <3>1, <3>2, <3>3, FlightLoad
  <2>2. CASE ReloadStep(s)
    <3>1. PICK t \in Tasks : tasks' = [tasks EXCEPT ![s] = t] /\ GoesOn(s, t)
      BY <2>2, ReloadEffect
    <3>2. active' = active /\ switching' = switching /\ ProjectsStay /\ tasks[s].op # "idle" /\ ~At(s, {"initialize"}, {"open"})
      BY <2>2, ReloadEffect DEF Reloads, At
    <3> QED
      BY <3>1, <3>2, FlightResume DEF GoesOn
  <2>3. CASE Edits(s)
    <3>1. PICK t \in Tasks : tasks' = [tasks EXCEPT ![s] = t] /\ GoesOn(s, t)
      BY <2>3, EditEffect
    <3>2. active' = active /\ ProjectsStay /\ tasks[s].op # "idle" /\ ~At(s, {"initialize"}, {"open"})
          /\ (switching' = switching \/ tasks[s].op = "switch")
      BY <2>3, EditEffect
    <3>3. \A u \in Slots : u # s /\ tasks[u].op = "switch" => switching' = switching
      BY <3>2 DEF Flight, Apart, Beside
    <3> QED
      BY <3>1, <3>2, <3>3, FlightResume DEF GoesOn
  <2> QED
    BY <1>2, <2>1, <2>2, <2>3 DEF Resumes, Edits
<1>3. CASE ProjectAct
  BY <1>3, ProjectActFlight DEF ProjectAct
<1>4. CASE BrainAct
  BY <1>4, BrainActFlight DEF BrainAct
<1>5. CASE FleetAct \/ Flush \/ ToggleBridge
  <2>1. tasks' = tasks /\ active' = active /\ switching' = switching
    BY <1>5 DEF FleetAct, AddInstance, RemoveInstance, ResetInstance, FlashBrain, Flush, ToggleBridge
  <2> QED
    BY <1>5, <2>1, StoredStays, FlightSame
<1>6. CASE (\E n \in DOMAIN fleet : FiberFault(n)) \/ (\E ks \in SUBSET Keys \ {{}} : Compile(ks))
  <2>1. tasks' = tasks /\ active' = active /\ switching' = switching /\ stored' = stored
    BY <1>6 DEF FiberFault, Compile, host
  <2> QED
    BY <2>1, FlightSame DEF ProjectsStay
<1>7. CASE ReloadPage
  BY <1>7, FlightPage DEF ReloadPage
<1> QED
  BY <1>1, <1>2, <1>3, <1>4, <1>5, <1>6, <1>7 DEF Next

LEMMA FlightInit == StoreParameters /\ Init => Flight
<1> SUFFICES ASSUME StoreParameters, Init PROVE Flight
  OBVIOUS
<1> DEFINE o == Op("initialize", "open")
<1>1. o.op = "initialize" /\ o.at = "open"
  BY OpType DEF Ops, Stages
<1>2. (\A s \in Slots : tasks[s] = IF \A t \in Slots : s <= t THEN o ELSE Idle) /\ active = NoProject
  BY DEF Init
<1> HIDE DEF o
<1>3. \E s \in Slots : \A t \in Slots : s <= t
  <2>1. Slots \in SUBSET Nat /\ Slots # {}
    BY DEF StoreParameters
  <2> QED
    BY <2>1, LeastNatural
<1>4. \A s, t \in Slots : (\A u \in Slots : s <= u) /\ (\A u \in Slots : t <= u) => s = t
  BY DEF StoreParameters
<1>5. Idle.op = "idle" /\ Idle.at = "idle" /\ Idle.at \in StageOf(Idle.op)
  BY IdleType DEF StageOf
<1>6. \A s \in Slots : TaskSound(tasks[s])
  BY <1>1, <1>2, <1>5 DEF TaskSound, StageOf
<1>7. \A s, t \in Slots : s # t => Apart(tasks[s], tasks[t])
  BY <1>2, <1>4, <1>5 DEF Apart
<1>8. \E s \in Slots : At(s, {"initialize"}, {"open"})
  BY <1>1, <1>2, <1>3 DEF At
<1> QED
  BY <1>2, <1>6, <1>7, <1>8 DEF Flight

-----------------------------------------------------------------------------
(* The records, the cache and the indexes.                                  *)

NoneCached == [b \in Brains |-> 0]
(* The cache is the active project's records, or empty after a load that    *)
(* failed; no index lists a brain twice; a project that does not exist has  *)
(* no brain.                                                                *)
Records ==
    /\ active # NoProject => stored[active].exists /\ cache = IF failure THEN NoneCached ELSE stored[active].defs
    /\ active = NoProject => cache = NoneCached
    /\ \A p \in Projects : IsInjective(stored[p].index)
    /\ \A p \in Projects : ~stored[p].exists => \A b \in Brains : stored[p].defs[b] = 0

(* No record of a brain changes, nor does an index.                         *)
KeepsIndexes ==
    \A p \in Projects : /\ stored'[p].exists = stored[p].exists /\ stored'[p].defs = stored[p].defs
                        /\ stored'[p].index = stored[p].index
Keeps == KeepsIndexes /\ active' = active /\ cache' = cache /\ failure' = failure

LEMMA KeptPersisted ==
    ASSUME StoreTypes, NEW f \in Seq(Devices), stored' = Persisted(f) \/ stored' = stored
    PROVE  KeepsIndexes
BY PersistedType DEF KeepsIndexes

LEMMA RecordsKept ==
    ASSUME StoreTypes, Records, Keeps
    PROVE  Records'
<1>1. active' = active /\ cache' = cache /\ failure' = failure /\ active \in Projects \cup {NoProject}
  BY DEF Keeps, StoreTypes
<1>2. \A p \in Projects : /\ stored'[p].exists = stored[p].exists /\ stored'[p].defs = stored[p].defs
                          /\ stored'[p].index = stored[p].index
  BY DEF Keeps, KeepsIndexes
<1>3. active # NoProject => stored'[active].exists /\ cache = IF failure THEN NoneCached ELSE stored'[active].defs
  BY <1>1, <1>2 DEF Records
<1>4. \A p \in Projects : IsInjective(stored'[p].index)
  BY <1>2 DEF Records
<1>5. \A p \in Projects : ~stored'[p].exists => \A b \in Brains : stored'[p].defs[b] = 0
  BY <1>2 DEF Records
<1> QED
  BY <1>1, <1>3, <1>4, <1>5 DEF Records, NoneCached

LEMMA ReloadKeeps ==
    ASSUME StoreParameters, StoreTypes, Flight, NEW s \in Slots, ReloadStep(s)
    PROVE  /\ active' = active /\ cache' = cache /\ failure' = failure
           /\ ~ReloadBrains(s) => KeepsIndexes
           /\ ReloadBrains(s) =>
                \/ KeepsIndexes
                \/ /\ ~failure /\ stored' = Indexed(Reconciled(tasks[s].ids))
                   /\ tasks' = [tasks EXCEPT ![s] = [tasks[s] EXCEPT !.at = "indexed", !.ids = <<>>]]
<1>1. active' = active /\ cache' = cache /\ failure' = failure
  BY DEF ReloadStep, ReloadBrains, ReloadIndexed, ReloadFleet, ReloadDefault, host
<1>2. StoreTypes'
  BY ReloadTypes, ReloadEffect
<1>3. fleet' \in Seq(Devices)
  BY <1>2 DEF StoreTypes
<1>4. ASSUME AfterBrains(s) PROVE KeepsIndexes
  BY <1>3, <1>4, KeptPersisted DEF AfterBrains
<1>5. ASSUME ReloadBrains(s)
      PROVE  \/ KeepsIndexes
             \/ /\ ~failure /\ stored' = Indexed(Reconciled(tasks[s].ids))
                /\ tasks' = [tasks EXCEPT ![s] = [tasks[s] EXCEPT !.at = "indexed", !.ids = <<>>]]
  BY <1>4, <1>5 DEF ReloadBrains, Resume
<1>6. ASSUME ~ReloadBrains(s) PROVE KeepsIndexes
  <2>1. stored' = stored \/ stored' = Persisted(fleet') \/ AfterBrains(s)
    BY <1>6 DEF ReloadStep, ReloadIndexed, ReloadFleet, ReloadDefault, host
  <2> QED
    BY <1>3, <1>4, <2>1, KeptPersisted
<1> QED
  BY <1>1, <1>5, <1>6

(* What adding to the list and removing from it write.                      *)
LEMMA EditKeeps ==
    ASSUME StoreParameters, StoreTypes, Flight, NEW s \in Slots, Edits(s)
    PROVE  /\ ~(AddIndexed(s) \/ RemoveIndexed(s)) => KeepsIndexes
           /\ AddIndexed(s) \/ RemoveIndexed(s) => stored' = Indexed(brainIds') /\ brainIds' \in Seq(Brains)
<1>1. StoreTypes'
  BY EditTypes DEF Edits
<1>2. fleet' \in Seq(Devices) /\ brainIds' \in Seq(Brains)
  BY <1>1 DEF StoreTypes
<1>3. ASSUME ~(AddIndexed(s) \/ RemoveIndexed(s)) PROVE stored' = stored \/ stored' = Persisted(fleet')
  BY <1>3 DEF Edits, InitializeReload, SwitchDone, CompareFleet, AddListed, RemoveUnflash, SaveReflash, RenameListed, host
<1> QED
  BY <1>2, <1>3, KeptPersisted DEF AddIndexed, RemoveIndexed

LEMMA FleetKeeps ==
    ASSUME StoreParameters, StoreTypes, Flight, Patient, FleetAct \/ Flush \/ ToggleBridge
    PROVE  Keeps
<1>1. active' = active /\ cache' = cache /\ failure' = failure
  BY DEF FleetAct, AddInstance, RemoveInstance, ResetInstance, FlashBrain, Flush, ToggleBridge
<1>2. CASE FleetAct \/ Flush
  <2>1. StoreTypes'
    BY <1>2, FleetTypes, RestTypes DEF FleetAct
  <2>2. fleet' \in Seq(Devices)
    BY <2>1 DEF StoreTypes
  <2>3. stored' = stored \/ stored' = Persisted(fleet')
    BY <1>2 DEF FleetAct, AddInstance, RemoveInstance, ResetInstance, FlashBrain, SetFleet, Flush
  <2> QED
    BY <1>1, <2>2, <2>3, KeptPersisted DEF Keeps
<1>3. CASE ToggleBridge
  <2>1. active \in Projects
    BY <1>3, UserQuiet DEF ToggleBridge
  <2>2. stored' = [stored EXCEPT ![active] = [stored[active] EXCEPT !.bridge = bridge']]
    BY <1>3 DEF ToggleBridge
  <2> DEFINE r == [stored[active] EXCEPT !.bridge = bridge']
  <2>3. r.exists = stored[active].exists /\ r.defs = stored[active].defs /\ r.index = stored[active].index
    BY <2>1, StoredType DEF StoredProjects
  <2> HIDE DEF r
  <2>4. \A p \in Projects : stored'[p] = IF p = active THEN r ELSE stored[p]
    BY <2>1, <2>2 DEF StoreTypes, Catalog, r
  <2> QED
    BY <1>1, <2>3, <2>4 DEF Keeps, KeepsIndexes
<1> QED
  BY <1>2, <1>3

(* One brain of the active project has a new definition, in the store and   *)
(* in the cache; no index changes.                                          *)
Redefines(b, def) ==
    /\ \A p \in Projects : stored'[p].exists = stored[p].exists /\ stored'[p].index = stored[p].index
    /\ \A p \in Projects : p # active => stored'[p] = stored[p]
    /\ stored'[active].defs = [stored[active].defs EXCEPT ![b] = def]
    /\ cache' = [cache EXCEPT ![b] = def] /\ active' = active /\ failure' = failure

LEMMA ExternalEffect ==
    ASSUME StoreParameters, Patient, StoreTypes, Flight, NEW b \in Brains, ExternalEdit(b)
    PROVE  /\ ~failure /\ active \in Projects /\ \A s \in Slots : tasks[s] = Idle
           /\ \E def \in Nat, changed \in SUBSET Brains, removed \in SUBSET Brains, n \in Slots, t \in Tasks :
                /\ Redefines(b, def)
                /\ changed = IF def # 0 /\ Cached(b) THEN {b} ELSE {}
                /\ removed = IF def = 0 /\ Cached(b) THEN {b} ELSE {}
                /\ tasks' = [tasks EXCEPT ![n] = t]
                /\ t.op = "external" /\ t.at = "index" /\ t.ids = stored[active].index
                /\ t.changed = changed /\ t.removed = removed
           /\ UNCHANGED <<active, failure, list, fleet, reflasher, faults, bridge, switching>>
<1>1. (\A s \in Slots : tasks[s] = Idle) /\ active \in Projects /\ ~failure
  BY UserQuiet DEF ExternalEdit
<1>2. UNCHANGED <<active, failure, list, fleet, reflasher, faults, bridge, switching>>
  BY DEF ExternalEdit
<1>3. PICK saved \in {stored[active].saved} \cup {seed.saved : seed \in Seeds[active]},
             def \in {0, stored[active].defs[b] + 1} :
          /\ stored' = [stored EXCEPT ![active].saved = saved, ![active].defs[b] = def]
          /\ cache' = [cache EXCEPT ![b] = def]
          /\ Start([Op("external", "index") EXCEPT
                 !.ids = stored[active].index,
                 !.changed = IF def # 0 /\ Cached(b) THEN {b} ELSE {},
                 !.removed = IF def = 0 /\ Cached(b) THEN {b} ELSE {}])
  BY DEF ExternalEdit
<1>4. def \in Nat /\ saved \in SavedFleets \cup {NoFleet}
  <2>1. \A seed \in Seeds[active] : seed.saved \in SavedFleets \cup {NoFleet}
    BY <1>1 DEF StoreParameters, StoredProjects
  <2>2. stored[active].saved \in SavedFleets \cup {NoFleet} /\ stored[active].defs[b] \in Nat
    BY <1>1, StoredType
  <2> QED
    BY <2>1, <2>2
<1>5. Redefines(b, def)
  <2> DEFINE r == [[stored[active] EXCEPT !.saved = saved] EXCEPT !.defs = [stored[active].defs EXCEPT ![b] = def]]
  <2>1. stored[active] \in StoredProjects /\ stored \in [Projects -> StoredProjects]
    BY <1>1, StoredType DEF StoreTypes, Catalog
  <2>2. [stored[active] EXCEPT !.saved = saved].defs = stored[active].defs
    BY <2>1 DEF StoredProjects
  <2>3. stored' = [stored EXCEPT ![active] = r]
    BY <1>1, <1>3, <2>1, <2>2
  <2>4. r.exists = stored[active].exists /\ r.index = stored[active].index
        /\ r.defs = [stored[active].defs EXCEPT ![b] = def]
    BY <2>1 DEF StoredProjects
  <2> HIDE DEF r
  <2>5. \A p \in Projects : stored'[p] = IF p = active THEN r ELSE stored[p]
    BY <1>1, <2>1, <2>3
  <2> QED
    BY <1>1, <1>2, <1>3, <2>4, <2>5 DEF Redefines
<1> DEFINE changed == IF def # 0 /\ Cached(b) THEN {b} ELSE {}
           removed == IF def = 0 /\ Cached(b) THEN {b} ELSE {}
           o == Op("external", "index")
           t == [o EXCEPT !.ids = stored[active].index, !.changed = changed, !.removed = removed]
<1>6. changed \in SUBSET Brains /\ removed \in SUBSET Brains /\ stored[active].index \in Seq(Brains)
  BY <1>1, StoredType
<1>7. o \in Tasks /\ o.op = "external" /\ o.at = "index"
  BY OpType DEF Ops, Stages
<1>8. Start(t)
  BY <1>3
<1> HIDE DEF changed, removed, o
<1>9. [o EXCEPT !.ids = stored[active].index, !.changed = changed, !.removed = removed] \in Tasks
  BY <1>6, <1>7, WithEdit
<1>10. t.op = "external" /\ t.at = "index" /\ t.ids = stored[active].index /\ t.changed = changed /\ t.removed = removed
  BY <1>7 DEF Tasks
<1>11. PICK n \in Slots : tasks' = [tasks EXCEPT ![n] = t]
  <2> HIDE DEF t
  <2> QED
    BY <1>8, StartEffect
<1>12. t \in Tasks
  BY <1>9
<1> HIDE DEF t
<1> QED
  BY <1>1, <1>2, <1>4, <1>5, <1>6, <1>10, <1>11, <1>12 DEF changed, removed

LEMMA BrainActEffect ==
    ASSUME StoreParameters, Patient, StoreTypes, Flight, NEW b \in Brains,
           AddBrain(b) \/ ImportBrain(b) \/ RemoveBrain(b) \/ SaveBrain(b) \/ RenameBrain(b)
    PROVE  /\ active \in Projects /\ \A s \in Slots : tasks[s] = Idle
           /\ RenameBrain(b) => Keeps
           /\ RemoveBrain(b) => Redefines(b, 0)
           /\ AddBrain(b) \/ ImportBrain(b) \/ SaveBrain(b) => \E def \in Nat \ {0} : Redefines(b, def)
           /\ \E n \in Slots, t \in Tasks :
                /\ tasks' = [tasks EXCEPT ![n] = t] /\ t.at = "record" /\ t.brain = b
                /\ \/ t.op = "add" /\ (AddBrain(b) \/ ImportBrain(b))
                   \/ t.op = "remove" /\ RemoveBrain(b)
                   \/ t.op = "save" /\ SaveBrain(b)
                   \/ t.op = "rename" /\ RenameBrain(b)
           /\ UNCHANGED <<active, failure, list, fleet, reflasher, faults, bridge, switching>>
<1>1. (\A s \in Slots : tasks[s] = Idle) /\ active \in Projects
  BY UserQuiet DEF AddBrain, ImportBrain, RemoveBrain, SaveBrain, RenameBrain
<1>2. UNCHANGED <<active, failure, list, fleet, reflasher, faults, bridge, switching>>
  BY DEF AddBrain, ImportBrain, RemoveBrain, SaveBrain, RenameBrain, host
<1>3. RenameBrain(b) => Keeps
  BY DEF RenameBrain, Keeps, KeepsIndexes, host
<1>4. ASSUME NEW def \in Nat, stored' = Defined(b, def), cache' = [cache EXCEPT ![b] = def] PROVE Redefines(b, def)
  <2>1. DefinedAs(Defined(b, def), b, def)
    BY <1>1, DefinedType
  <2>2. DefinedAs(stored', b, def)
    BY <1>4, <2>1
  <2>3. /\ \A p \in Projects :
              /\ stored'[p].exists = stored[p].exists /\ stored'[p].index = stored[p].index
              /\ p # active => stored'[p] = stored[p]
        /\ stored'[active].defs = [stored[active].defs EXCEPT ![b] = def]
    BY <2>2 DEF DefinedAs
  <2> QED
    BY <1>2, <1>4, <2>3 DEF Redefines
<1>5. RemoveBrain(b) => Redefines(b, 0)
  BY <1>4 DEF RemoveBrain, Defined
<1>6. ASSUME AddBrain(b) \/ ImportBrain(b) \/ SaveBrain(b) PROVE \E def \in Nat \ {0} : Redefines(b, def)
  <2> DEFINE def == stored[active].defs[b] + 1
  <2>1. SaveForKey(b)
    BY <1>6 DEF AddBrain, ImportBrain, SaveBrain
  <2>2. def \in Nat \ {0} /\ stored' = Defined(b, def) /\ cache' = [cache EXCEPT ![b] = def]
    BY <1>1, <2>1, SaveForKeyEffect
  <2> HIDE DEF def
  <2> QED
    BY <1>4, <2>2
<1>7. ASSUME NEW o \in {"add", "remove", "save", "rename"}, Start([Op(o, "record") EXCEPT !.brain = b])
      PROVE  \E n \in Slots, t \in Tasks :
                tasks' = [tasks EXCEPT ![n] = t] /\ t.at = "record" /\ t.brain = b /\ t.op = o
  <2> DEFINE t == [Op(o, "record") EXCEPT !.brain = b]
  <2>1. t \in Tasks /\ Start(t)
    BY <1>7, MadeTasks
  <2>2. t.op = o /\ t.at = "record" /\ t.brain = b
    BY DEF Op, Idle
  <2> HIDE DEF t
  <2> QED
    BY <2>1, <2>2, StartEffect
<1>8. \E o \in {"add", "remove", "save", "rename"} :
         /\ Start([Op(o, "record") EXCEPT !.brain = b])
         /\ \/ o = "add" /\ (AddBrain(b) \/ ImportBrain(b))
            \/ o = "remove" /\ RemoveBrain(b)
            \/ o = "save" /\ SaveBrain(b)
            \/ o = "rename" /\ RenameBrain(b)
  BY DEF AddBrain, ImportBrain, RemoveBrain, SaveBrain, RenameBrain
<1>9. PICK o \in {"add", "remove", "save", "rename"} :
         /\ Start([Op(o, "record") EXCEPT !.brain = b])
         /\ \/ o = "add" /\ (AddBrain(b) \/ ImportBrain(b))
            \/ o = "remove" /\ RemoveBrain(b)
            \/ o = "save" /\ SaveBrain(b)
            \/ o = "rename" /\ RenameBrain(b)
  BY <1>8
<1>10. PICK n \in Slots, t \in Tasks :
                tasks' = [tasks EXCEPT ![n] = t] /\ t.at = "record" /\ t.brain = b /\ t.op = o
  BY <1>7, <1>9
<1>11. \/ t.op = "add" /\ (AddBrain(b) \/ ImportBrain(b))
       \/ t.op = "remove" /\ RemoveBrain(b)
       \/ t.op = "save" /\ SaveBrain(b)
       \/ t.op = "rename" /\ RenameBrain(b)
  BY <1>9, <1>10
<1> QED
  BY <1>1, <1>2, <1>3, <1>5, <1>6, <1>10, <1>11

LEMMA InjectiveEmpty == IsInjective(<<>>)
BY DEF IsInjective

LEMMA RecordsRedefined ==
    ASSUME StoreParameters, StoreTypes, Records, active \in Projects, ~failure, NEW b \in Brains, NEW def \in Nat,
           Redefines(b, def)
    PROVE  Records'
<1>0. active # NoProject
  BY DEF StoreParameters
<1>1. stored[active].exists /\ cache = stored[active].defs
  BY <1>0 DEF Records
<1>2. cache' = stored'[active].defs /\ active' = active /\ failure' = failure
  BY <1>1 DEF Redefines
<1>3. \A p \in Projects : /\ stored'[p].exists = stored[p].exists /\ stored'[p].index = stored[p].index
                          /\ p # active => stored'[p] = stored[p]
  BY DEF Redefines
<1>4. \A p \in Projects : ~stored'[p].exists => \A x \in Brains : stored'[p].defs[x] = 0
  BY <1>1, <1>3 DEF Records
<1>5. \A p \in Projects : IsInjective(stored'[p].index)
  BY <1>3 DEF Records
<1> QED
  BY <1>0, <1>1, <1>2, <1>3, <1>4, <1>5 DEF Records

LEMMA RecordsIndexed ==
    ASSUME StoreParameters, StoreTypes, Records, active \in Projects, NEW ids \in Seq(Brains), IsInjective(ids),
           stored' = Indexed(ids), active' = active, cache' = cache, failure' = failure
    PROVE  Records'
<1>1. \A p \in Projects :
         /\ Indexed(ids)[p].exists = stored[p].exists /\ Indexed(ids)[p].defs = stored[p].defs
         /\ p # active => Indexed(ids)[p] = stored[p]
  BY IndexedType
<1>2. Indexed(ids)[active].index = ids
  BY IndexedType
<1>3. \A p \in Projects : IsInjective(stored'[p].index)
  BY <1>1, <1>2 DEF Records
<1>4. \A p \in Projects : stored'[p].exists = stored[p].exists /\ stored'[p].defs = stored[p].defs
  BY <1>1
<1> QED
  BY <1>3, <1>4 DEF Records, NoneCached

(* A new project is stored, and seeded when it is imported; the active one  *)
(* exists already.                                                          *)
LEMMA ProjectActEffect ==
    ASSUME StoreParameters, Patient, StoreTypes, Flight, Records, NEW p \in Projects,
           CreateProject(p) \/ SwitchProject(p) \/ \E seed \in Seeds[p] : ImportProject(p, seed)
    PROVE  /\ active \in Projects /\ \A s \in Slots : tasks[s] = Idle
           /\ p # active /\ \A r \in Projects : r # p => stored'[r] = stored[r]
           /\ stored'[p].exists
           /\ \E seed \in Seeds[p] \cup {stored[p]} :
                 /\ stored'[p].defs = seed.defs /\ stored'[p].index = seed.index
           /\ ~stored[p].exists \/ stored' = stored
           /\ \E n \in Slots, t \in Tasks : tasks' = [tasks EXCEPT ![n] = t] /\ t.op = "switch" /\ t.at = "open"
           /\ UNCHANGED <<active, cache, failure, list, fleet, reflasher, faults, bridge>>
<1>1. active \in Projects /\ \A s \in Slots : tasks[s] = Idle
  BY UserQuiet DEF CreateProject, SwitchProject, ImportProject
<1>2. stored[active].exists
  BY <1>1 DEF Records, StoreParameters
<1>3. p # active
  BY <1>2 DEF CreateProject, SwitchProject, ImportProject
<1>4. UNCHANGED <<active, cache, failure, list, fleet, reflasher, faults, bridge>>
  BY DEF CreateProject, SwitchProject, ImportProject, host
<1>5. \E n \in Slots, t \in Tasks : tasks' = [tasks EXCEPT ![n] = t] /\ t.op = "switch" /\ t.at = "open"
  <2> DEFINE t == [Op("switch", "open") EXCEPT !.project = p]
  <2>1. t \in Tasks /\ Start(t)
    BY MadeTasks DEF CreateProject, SwitchProject, ImportProject
  <2>2. t.op = "switch" /\ t.at = "open"
    BY DEF Op, Idle
  <2> HIDE DEF t
  <2> QED
    BY <2>1, <2>2, StartEffect
<1>6. /\ stored'[p].exists
      /\ \A r \in Projects : r # p => stored'[r] = stored[r]
      /\ ~stored[p].exists \/ stored' = stored
      /\ \E seed \in Seeds[p] \cup {stored[p]} : stored'[p].defs = seed.defs /\ stored'[p].index = seed.index
  <2>1. CASE CreateProject(p)
    <3> DEFINE r == [stored[p] EXCEPT !.exists = TRUE]
    <3>1. stored' = [stored EXCEPT ![p] = r]
      BY <2>1 DEF CreateProject
    <3>2. r.exists /\ r.defs = stored[p].defs /\ r.index = stored[p].index
      BY StoredType DEF StoredProjects
    <3> HIDE DEF r
    <3> QED
      BY <2>1, <3>1, <3>2 DEF StoreTypes, Catalog, CreateProject
  <2>2. CASE SwitchProject(p)
    BY <2>2 DEF SwitchProject, host
  <2>3. CASE \E seed \in Seeds[p] : ImportProject(p, seed)
    <3>1. PICK seed \in Seeds[p] : ImportProject(p, seed)
      BY <2>3
    <3> DEFINE r == [seed EXCEPT !.exists = TRUE, !.bridge = FALSE]
    <3>2. stored' = [stored EXCEPT ![p] = r] /\ ~stored[p].exists
      BY <3>1 DEF ImportProject
    <3>3. seed \in StoredProjects
      BY DEF StoreParameters
    <3>4. r.exists /\ r.defs = seed.defs /\ r.index = seed.index
      BY <3>3 DEF StoredProjects
    <3> HIDE DEF r
    <3> QED
      BY <3>2, <3>4 DEF StoreTypes, Catalog
  <2> QED
    BY <2>1, <2>2, <2>3
<1> QED
  BY <1>1, <1>3, <1>4, <1>5, <1>6

(* The brains whose record is written and whose place in the list is not,   *)
(* and those whose record is gone and whose place in the list is not; a     *)
(* reload or an external edit that has not rebuilt the list yet.            *)
Adding == {b \in Brains : \E s \in Slots : At(s, {"add"}, {"record"}) /\ tasks[s].brain = b}
Removing == {b \in Brains : \E s \in Slots : At(s, {"remove"}, {"record"}) /\ tasks[s].brain = b}
Unlisted == \E s \in Slots : At(s, {"reload", "external"}, {"index"})
(* The list and the stored index, but for the adds and removes in flight.   *)
Listed ==
    /\ IsInjective(brainIds) /\ ToSet(brainIds) = (CachedSet \ Adding) \cup Removing
    /\ ~failure => stored[active].index = brainIds
(* The index a task has read is the stored one, or will be once reconciled; *)
(* nothing is added or removed after a load that failed.                    *)
TaskListed(t) ==
    /\ t.op \in Reloads /\ t.at = "index" =>
          /\ IsInjective(t.ids)
          /\ ~failure => stored[active].index \in {t.ids, Reconciled(t.ids)}
    /\ t.op \in {"add", "remove", "external"} => ~failure
    /\ t.op = "add" /\ t.at = "record" => Cached(t.brain)
    /\ t.op = "remove" /\ t.at = "record" => ~Cached(t.brain)
(* The list is exact, or the reload that makes it so is in flight.          *)
Lists ==
    active # NoProject =>
        /\ \A s \in Slots : TaskListed(tasks[s])
        /\ Unlisted \/ Listed
        /\ brains = brainIds \/ \E s \in Slots : tasks[s].at \in {"index", "indexed"}

LEMMA QuietLists ==
    ASSUME StoreParameters, StoreTypes, Lists, active \in Projects, \A s \in Slots : tasks[s] = Idle
    PROVE  /\ IsInjective(brainIds) /\ ToSet(brainIds) = CachedSet /\ brains = brainIds
           /\ ~failure => stored[active].index = brainIds
<1>1. active # NoProject
  BY DEF StoreParameters
<1>2. \A s \in Slots : tasks[s].op = "idle" /\ tasks[s].at = "idle"
  BY IdleType
<1>3. ~Unlisted /\ Adding = {} /\ Removing = {}
  BY <1>2 DEF Unlisted, Adding, Removing, At
<1>4. brains = brainIds
  BY <1>1, <1>2 DEF Lists
<1> QED
  BY <1>1, <1>3, <1>4 DEF Lists, Listed

LEMMA FailureLists ==
    ASSUME StoreParameters, StoreTypes, Records, failure
    PROVE  CachedSet = {}
BY DEF Records, CachedSet, Cached, NoneCached, StoreTypes

LEMMA RecordsInit == StoreParameters /\ Init => Records
<1> SUFFICES ASSUME StoreParameters, Init PROVE Records
  OBVIOUS
<1>1. \A p \in Projects : stored[p] \in Seeds[p]
  BY DEF Init
<1> QED
  BY <1>1 DEF Init, Records, StoreParameters, NoneCached

LEMMA RecordsStep ==
    StoreParameters /\ Patient /\ StoreTypes /\ Flight /\ Records /\ Lists /\ [Next]_vars => Records'
<1> SUFFICES ASSUME StoreParameters, Patient, StoreTypes, Flight, Records, Lists, [Next]_vars PROVE Records'
  OBVIOUS
<1>1. CASE UNCHANGED vars
  BY <1>1, RecordsKept DEF Keeps, KeepsIndexes, vars, host
<1>2. ASSUME NEW s \in Slots, Resumes(s) PROVE Records'
  <2>1. CASE (\E p \in Projects : InitializeOpen(s, p)) \/ SwitchLoaded(s)
    <3>1. PICK p \in Projects :
             /\ stored[p].exists /\ active' = p /\ failure' \in BOOLEAN
             /\ cache' = IF failure' THEN [b \in Brains |-> 0] ELSE stored[p].defs
             /\ stored' = stored
      BY <2>1, LoadingEffect
    <3> QED
      BY <3>1 DEF Records, NoneCached, StoreParameters
  <2>2. CASE ReloadStep(s)
    <3>1. active \in Projects /\ active' = active /\ cache' = cache /\ failure' = failure /\ tasks[s].op \in Reloads
      BY <2>2, ReloadEffect, ReloadKeeps
    <3>2. CASE KeepsIndexes
      BY <3>1, <3>2, RecordsKept DEF Keeps
    <3>3. CASE ReloadBrains(s) /\ stored' = Indexed(Reconciled(tasks[s].ids))
      <4>1. tasks[s].ids \in Seq(Brains)
        BY TaskFields DEF StoreTypes
      <4>2. IsInjective(tasks[s].ids)
        BY <3>1, <3>3 DEF Lists, TaskListed, ReloadBrains, StoreParameters
      <4>3. Reconciled(tasks[s].ids) \in Seq(Brains) /\ IsInjective(Reconciled(tasks[s].ids))
        BY <4>1, <4>2, ReconciledFacts DEF StoreParameters
      <4> QED
        BY <3>1, <3>3, <4>3, RecordsIndexed
    <3> QED
      BY <2>2, <3>2, <3>3, ReloadKeeps
  <2>3. CASE Edits(s)
    <3>1. active \in Projects /\ active' = active /\ cache' = cache /\ failure' = failure
      BY <2>3, EditEffect
    <3>2. CASE KeepsIndexes
      BY <3>1, <3>2, RecordsKept DEF Keeps
    <3>3. CASE AddIndexed(s) \/ RemoveIndexed(s)
      <4>1. stored' = Indexed(brainIds') /\ brainIds' \in Seq(Brains) /\ brainIds \in Seq(Brains)
        BY <2>3, <3>3, EditKeeps DEF StoreTypes
      <4>2. \A u \in Slots : u # s => tasks[u].op \notin {"reload", "external"}
        BY <3>3 DEF Flight, Apart, Beside, AddIndexed, RemoveIndexed
      <4>3. Listed /\ TaskListed(tasks[s])
        <5>1. ~Unlisted /\ active # NoProject
          BY <3>1, <3>3, <4>2 DEF Unlisted, At, AddIndexed, RemoveIndexed, StoreParameters
        <5> QED
          BY <5>1 DEF Lists
      <4>4. IsInjective(brainIds')
        <5>1. CASE AddIndexed(s)
          <6>1. tasks[s].brain \in Brains
            BY <5>1 DEF AddIndexed, Flight, TaskSound
          <6>2. tasks[s].brain \notin ToSet(brainIds)
            <7>1. tasks[s].brain \in Adding /\ tasks[s].brain \notin Removing
              BY <4>2, <5>1, <6>1 DEF Adding, Removing, At, AddIndexed, Flight, Apart, Beside
            <7> QED
              BY <4>3, <7>1 DEF Listed
          <6> QED
            BY <4>1, <4>3, <5>1, <6>1, <6>2, AppendFacts DEF AddIndexed, Listed
        <5>2. CASE RemoveIndexed(s)
          BY <4>1, <4>3, <5>2, KeptFacts DEF RemoveIndexed, Listed
        <5> QED
          BY <3>3, <5>1, <5>2
      <4> QED
        BY <3>1, <4>1, <4>4, RecordsIndexed
    <3> QED
      BY <2>3, <3>2, <3>3, EditKeeps
  <2> QED
    BY <1>2, <2>1, <2>2, <2>3 DEF Resumes, Edits
<1>3. CASE ProjectAct
  <2>1. PICK p \in Projects : CreateProject(p) \/ SwitchProject(p) \/ \E seed \in Seeds[p] : ImportProject(p, seed)
    BY <1>3 DEF ProjectAct
  <2>2. /\ active \in Projects /\ p # active /\ \A r \in Projects : r # p => stored'[r] = stored[r]
        /\ stored'[p].exists /\ active' = active /\ cache' = cache /\ failure' = failure
    BY <2>1, ProjectActEffect
  <2>3. IsInjective(stored'[p].index)
    <3>1. PICK seed \in Seeds[p] \cup {stored[p]} : stored'[p].index = seed.index
      BY <2>1, ProjectActEffect
    <3> QED
      BY <3>1 DEF Records, StoreParameters
  <2> QED
    BY <2>2, <2>3 DEF Records, StoreParameters
<1>4. CASE BrainAct
  <2>1. PICK b \in Brains :
           AddBrain(b) \/ ImportBrain(b) \/ RemoveBrain(b) \/ SaveBrain(b) \/ RenameBrain(b) \/ ExternalEdit(b)
    BY <1>4 DEF BrainAct
  <2>2. CASE ExternalEdit(b)
    <3>1. PICK def \in Nat : Redefines(b, def)
      BY <2>2, ExternalEffect
    <3>2. ~failure /\ active \in Projects
      BY <2>2, ExternalEffect
    <3> QED
      BY <3>1, <3>2, RecordsRedefined
  <2>3. CASE RenameBrain(b)
    BY <2>3, BrainActEffect, RecordsKept
  <2>4. CASE AddBrain(b) \/ ImportBrain(b) \/ SaveBrain(b) \/ RemoveBrain(b)
    <3>1. \E def \in Nat : Redefines(b, def)
      BY <2>4, BrainActEffect
    <3>2. active \in Projects /\ \A s \in Slots : tasks[s] = Idle
      BY <2>4, BrainActEffect
    <3>3. ~failure
      <4>1. ASSUME RemoveBrain(b) \/ SaveBrain(b) PROVE CachedSet # {}
        BY <3>2, <4>1, QuietLists DEF RemoveBrain, SaveBrain, CachedSet
      <4> QED
        BY <2>4, <4>1, FailureLists DEF AddBrain, ImportBrain
    <3> QED
      BY <3>1, <3>2, <3>3, RecordsRedefined
  <2> QED
    BY <2>1, <2>2, <2>3, <2>4
<1>5. CASE FleetAct \/ Flush \/ ToggleBridge
  BY <1>5, FleetKeeps, RecordsKept
<1>6. CASE (\E n \in DOMAIN fleet : FiberFault(n)) \/ (\E ks \in SUBSET Keys \ {{}} : Compile(ks))
  BY <1>6, RecordsKept DEF FiberFault, Compile, Keeps, KeepsIndexes, host
<1>7. CASE ReloadPage
  BY <1>7 DEF ReloadPage, Records, NoneCached
<1> QED
  BY <1>1, <1>2, <1>3, <1>4, <1>5, <1>6, <1>7 DEF Next

-----------------------------------------------------------------------------
(* The brain list.                                                          *)

LEMMA SameCached ==
    ASSUME cache' = cache
    PROVE  /\ CachedSet' = CachedSet
           /\ \A ids : Reconciled(ids)' = Reconciled(ids)
BY DEF CachedSet, Cached, Reconciled

(* A step that leaves the lists, the cache and the indexes alone.           *)
LEMMA ListsKept ==
    ASSUME StoreTypes, Lists, Keeps, brainIds' = brainIds, brains' = brains, tasks' = tasks
    PROVE  Lists'
<1>1. CachedSet' = CachedSet /\ \A ids : Reconciled(ids)' = Reconciled(ids)
  BY SameCached DEF Keeps
<1>2. active # NoProject => stored'[active].index = stored[active].index
  BY DEF Keeps, KeepsIndexes, StoreTypes
<1>3. active' = active /\ failure' = failure /\ cache' = cache
  BY DEF Keeps
<1>4. Adding' = Adding /\ Removing' = Removing /\ Unlisted' = Unlisted
  BY DEF Adding, Removing, Unlisted, At
<1>5. ASSUME active # NoProject, NEW s \in Slots, TaskListed(tasks[s]) PROVE TaskListed(tasks[s])'
  BY <1>1, <1>2, <1>3, <1>5 DEF TaskListed, Cached
<1>6. active # NoProject /\ Listed => Listed'
  BY <1>1, <1>2, <1>3, <1>4 DEF Listed
<1> QED
  BY <1>3, <1>4, <1>5, <1>6 DEF Lists

(* A resumption that ends, or goes on, and that does not write the list.    *)
LEMMA ListsResumed ==
    ASSUME StoreParameters, StoreTypes, Flight, Lists, NEW s \in Slots, NEW t \in Tasks, tasks' = [tasks EXCEPT ![s] = t],
           active \in Projects, active' = active, cache' = cache, failure' = failure, KeepsIndexes,
           brainIds' = brainIds, brains' \in {brains, brainIds},
           t = Idle \/ t.op = tasks[s].op,
           tasks[s].op \in {"add", "remove"} => tasks[s].at # "record" /\ t.at # "record",
           ~At(s, {"reload", "external"}, {"index"}),
           t.at = "index" => IsInjective(t.ids) /\ (~failure => t.ids = stored[active].index),
           brains' = brainIds \/ tasks[s].at \notin {"index", "indexed"} \/ t.at \in {"index", "indexed"}
    PROVE  Lists'
<1>1. CachedSet' = CachedSet /\ \A ids : Reconciled(ids)' = Reconciled(ids)
  BY SameCached
<1>2. stored'[active].index = stored[active].index /\ active # NoProject
  BY DEF KeepsIndexes, StoreParameters
<1>3. \A u \in Slots : tasks'[u] = IF u = s THEN t ELSE tasks[u]
  BY DEF StoreTypes
<1>4. Idle.op = "idle" /\ Idle.at = "idle"
  BY IdleType
<1>5. \A u \in Slots, ops \in {{"add"}, {"remove"}} :
         /\ At(u, ops, {"record"})' = At(u, ops, {"record"})
         /\ At(u, ops, {"record"}) => tasks'[u] = tasks[u]
  BY <1>3, <1>4 DEF At
<1>6. Adding' = Adding
  BY <1>5 DEF Adding
<1>7. Removing' = Removing
  BY <1>5 DEF Removing
<1>8. Unlisted => Unlisted'
  BY <1>3 DEF Unlisted, At
<1>9. Listed => Listed'
  BY <1>1, <1>2, <1>6, <1>7 DEF Listed
<1>10. ASSUME NEW u \in Slots PROVE TaskListed(tasks[u])'
  <2>1. TaskListed(tasks[u]) /\ TaskListed(tasks[s])
    BY <1>2 DEF Lists
  <2>2. CASE u # s
    <3>1. tasks'[u] = tasks[u]
      BY <1>3, <2>2
    <3> QED
      BY <1>1, <1>2, <2>1, <3>1 DEF TaskListed, Cached
  <2>3. CASE u = s
    <3>1. tasks'[u] = t
      BY <1>3, <2>3
    <3>2. /\ t.op \in {"add", "remove", "external"} => ~failure'
          /\ ~(t.op = "add" /\ t.at = "record") /\ ~(t.op = "remove" /\ t.at = "record")
      BY <1>4, <2>1 DEF TaskListed
    <3>3. t.op \in Reloads /\ t.at = "index" =>
             IsInjective(t.ids) /\ (~failure' => stored'[active'].index \in {t.ids, Reconciled(t.ids)'})
      BY <1>2
    <3> QED
      BY <3>1, <3>2, <3>3 DEF TaskListed
  <2> QED
    BY <2>2, <2>3
<1>11. brains' = brainIds' \/ \E u \in Slots : tasks'[u].at \in {"index", "indexed"}
  <2>1. CASE brains' = brainIds
    BY <2>1
  <2>2. CASE brains' = brains /\ brains = brainIds
    BY <2>2
  <2>3. CASE brains' # brainIds /\ brains # brainIds
    <3>1. PICK u \in Slots : tasks[u].at \in {"index", "indexed"}
      BY <1>2, <2>3 DEF Lists
    <3> QED
      BY <1>3, <2>3, <3>1
  <2> QED
    BY <2>1, <2>2, <2>3
<1> QED
  BY <1>2, <1>8, <1>9, <1>10, <1>11 DEF Lists

LEMMA ListsLoaded ==
    ASSUME StoreParameters, StoreTypes, Flight, Records, NEW s \in Slots,
           (\E p \in Projects : InitializeOpen(s, p)) \/ SwitchLoaded(s)
    PROVE  Lists'
<1>1. PICK p \in Projects, n \in Slots, ids \in Seq(Brains), t \in Tasks :
             /\ tasks[s].op \in {"initialize", "switch"} /\ tasks[s].at = "open" /\ n # s
             /\ tasks' = [tasks EXCEPT ![n] = ReloadTask(ids), ![s] = t]
             /\ t.op = tasks[s].op /\ t.at \in StageOf(t.op) \cap {"opened", "loaded"}
             /\ t.op = "switch" => t.project = tasks[s].project
             /\ active' = p /\ UNCHANGED <<stored, switching>>
             /\ ids \in {stored[p].index, <<>>} /\ (~failure' => ids = stored[p].index)
  BY LoadingEffect
<1>2. ProjectsStay /\ switching' = switching /\ t.at \in StageOf(t.op) /\ t.at \in {"opened", "loaded"} /\ t.at # "open"
  BY <1>1 DEF ProjectsStay
<1>3. \A u \in Slots : tasks'[u] = IF u = n THEN ReloadTask(ids) ELSE IF u = s THEN t ELSE Idle
  <2>1. tasks[s].op \in {"initialize", "switch"} /\ tasks[s].at = "open"
    BY <1>1
  <2>2. n # s /\ tasks' = [tasks EXCEPT ![n] = ReloadTask(ids), ![s] = t] /\ active' = p
    BY <1>1
  <2>3. t.op = tasks[s].op /\ t.at \in StageOf(t.op) /\ t.at # "open"
    BY <1>1, <1>2
  <2>4. t.op = "switch" => t.project = tasks[s].project
    BY <1>1
  <2>5. ProjectsStay /\ switching' = switching
    BY <1>2
  <2>6. \A u \in Slots : u # s => tasks[u] = Idle
    BY <2>1, <2>2, <2>3, <2>4, <2>5, FlightLoad
  <2> QED
    BY <2>2, <2>6 DEF StoreTypes
<1>4. ReloadTask(ids).op = "reload" /\ ReloadTask(ids).at = "index" /\ ReloadTask(ids).ids = ids
  BY OpType, WithIds DEF ReloadTask, Ops, Stages
<1>5. Idle.op = "idle" /\ Idle.at = "idle"
  BY IdleType
<1>6. IsInjective(ids)
  BY <1>1, InjectiveEmpty DEF Records
<1>7. ASSUME NEW u \in Slots PROVE TaskListed(tasks[u])'
  <2>1. CASE u = n
    <3>1. tasks'[u] = ReloadTask(ids)
      BY <1>3, <2>1
    <3> QED
      BY <1>1, <1>4, <1>6, <3>1 DEF TaskListed
  <2>2. CASE u # n
    <3>1. tasks'[u].at # "index" /\ tasks'[u].op \notin {"add", "remove", "external"}
      BY <1>1, <1>2, <1>3, <1>5, <2>2
    <3> QED
      BY <3>1 DEF TaskListed
  <2> QED
    BY <2>1, <2>2
<1>8. Unlisted' /\ \E u \in Slots : tasks'[u].at \in {"index", "indexed"}
  BY <1>3, <1>4 DEF Unlisted, At
<1> QED
  BY <1>7, <1>8 DEF Lists

(* The user's operations start from the list that is shown.                 *)
LEMMA ListsStarted ==
    ASSUME StoreParameters, StoreTypes, active \in Projects, \A s \in Slots : tasks[s] = Idle,
           active' = active, failure' = failure, brainIds' = brainIds, brains' = brains, brains = brainIds,
           IsInjective(brainIds), ~failure => stored'[active].index = brainIds,
           NEW n \in Slots, NEW t \in Tasks, tasks' = [tasks EXCEPT ![n] = t], t.at # "index", t.op # "external",
           t.op = "add" => ~failure /\ t.at = "record" /\ t.brain \in Brains /\ CachedSet' = ToSet(brainIds) \cup {t.brain}
                           /\ t.brain \notin ToSet(brainIds),
           t.op = "remove" => ~failure /\ t.at = "record" /\ t.brain \in Brains /\ CachedSet' = ToSet(brainIds) \ {t.brain}
                              /\ t.brain \in ToSet(brainIds),
           t.op \notin {"add", "remove"} => CachedSet' = ToSet(brainIds)
    PROVE  Lists'
<1>1. Idle.op = "idle" /\ Idle.at = "idle"
  BY IdleType
<1>2. \A u \in Slots : tasks'[u] = IF u = n THEN t ELSE Idle
  BY DEF StoreTypes
<1>3. Adding' = (IF t.op = "add" THEN {t.brain} ELSE {}) /\ Removing' = (IF t.op = "remove" THEN {t.brain} ELSE {})
  BY <1>1, <1>2 DEF Adding, Removing, At
<1>4. Listed'
  <2>1. ToSet(brainIds)' = (CachedSet' \ Adding') \cup Removing'
    BY <1>3
  <2> QED
    BY <2>1 DEF Listed
<1>5. ASSUME NEW u \in Slots PROVE TaskListed(tasks[u])'
  <2>1. CASE u = n
    <3>1. tasks'[u] = t
      BY <1>2, <2>1
    <3> QED
      BY <3>1 DEF TaskListed, CachedSet
  <2>2. CASE u # n
    <3>1. tasks'[u] = Idle
      BY <1>2, <2>2
    <3> QED
      BY <1>1, <3>1 DEF TaskListed
  <2> QED
    BY <2>1, <2>2
<1> QED
  BY <1>4, <1>5 DEF Lists

LEMMA AfterBrainsTask ==
    ASSUME StoreParameters, StoreTypes, NEW s \in Slots, active \in Projects, AfterBrains(s), tasks[s].op \in Reloads
    PROVE  \E t \in Tasks :
             /\ tasks' = [tasks EXCEPT ![s] = t] /\ t.op = tasks[s].op
             /\ t.at = IF tasks[s].op = "external" THEN "compare" ELSE "fleet"
             /\ t.saved \in {stored'[active].saved, NoFleet} /\ (~failure => t.saved = stored'[active].saved)
             /\ t.changed = {} /\ t.removed = {}
<1>1. PICK saved \in SavedFleets \cup {NoFleet} :
         /\ saved \in {stored'[active].saved, NoFleet}
         /\ ~failure => saved = stored'[active].saved
         /\ tasks' = [tasks EXCEPT ![s] =
                       [Op(tasks[s].op, IF tasks[s].op = "external" THEN "compare" ELSE "fleet")
                          EXCEPT !.saved = saved]]
  BY AfterBrainsEffect
<1> DEFINE at == IF tasks[s].op = "external" THEN "compare" ELSE "fleet"
           o == Op(tasks[s].op, at)
           t == [o EXCEPT !.saved = saved]
<1>2. at \in Stages /\ tasks[s].op \in Ops
  BY DEF Stages, Reloads, Ops
<1>3. tasks' = [tasks EXCEPT ![s] = t]
  BY <1>1
<1>4. o \in Tasks /\ o.op = tasks[s].op /\ o.at = at /\ o.changed = {} /\ o.removed = {}
  <2> HIDE DEF at
  <2> QED
    BY <1>2, OpType
<1> HIDE DEF o
<1>5. [o EXCEPT !.saved = saved] \in Tasks
  BY <1>4, WithSaved
<1>6. t.op = o.op /\ t.at = o.at /\ t.saved = saved /\ t.changed = o.changed /\ t.removed = o.removed
  BY <1>4 DEF Tasks
<1> QED
  BY <1>1, <1>3, <1>4, <1>5, <1>6

LEMMA ReloadBrainsEffect ==
    ASSUME StoreParameters, StoreTypes, Flight, NEW s \in Slots, ReloadBrains(s)
    PROVE  /\ active \in Projects /\ tasks[s].op \in Reloads /\ tasks[s].at = "index" /\ tasks[s].ids \in Seq(Brains)
           /\ active' = active /\ cache' = cache /\ failure' = failure /\ switching' = switching
           /\ brainIds' = Reconciled(tasks[s].ids)
           /\ \E t \in Tasks :
                /\ tasks' = [tasks EXCEPT ![s] = t] /\ t.op = tasks[s].op
                /\ \/ /\ t.at = "indexed" /\ ~failure /\ brains' = brains /\ fleet' = fleet
                      /\ t.changed = tasks[s].changed /\ t.removed = tasks[s].removed
                      /\ stored' = Indexed(brainIds') /\ stored'[active].index = brainIds'
                      /\ stored'[active].saved = stored[active].saved
                   \/ /\ AfterBrains(s)
                      /\ t.at = IF tasks[s].op = "external" THEN "compare" ELSE "fleet"
                      /\ t.saved \in {stored'[active].saved, NoFleet} /\ (~failure => t.saved = stored'[active].saved)
                      /\ KeepsIndexes /\ brains' = brainIds' /\ (failure \/ brainIds' = tasks[s].ids)
                      /\ t.changed = {} /\ t.removed = {}
<1>1. active \in Projects /\ tasks[s].op \in Reloads /\ tasks[s].at = "index"
      /\ active' = active /\ cache' = cache /\ failure' = failure /\ switching' = switching
      /\ brainIds' = Reconciled(tasks[s].ids)
  BY ReloadEffect, ReloadKeeps DEF ReloadStep, ReloadBrains
<1>2. tasks[s] \in Tasks /\ tasks[s].ids \in Seq(Brains)
  BY TaskFields DEF StoreTypes
<1>3. brainIds' \in Seq(Brains)
  BY <1>1, <1>2, ReconciledFacts DEF StoreParameters
<1>4. CASE AfterBrains(s) /\ ~(Reconciled(tasks[s].ids) # tasks[s].ids /\ ~failure)
  <2>1. KeepsIndexes
    <3>1. StoreTypes'
      BY <1>1, ReloadTypes DEF ReloadStep
    <3>2. fleet' \in Seq(Devices)
      BY <3>1 DEF StoreTypes
    <3> QED
      BY <1>4, <3>2, KeptPersisted DEF AfterBrains
  <2>2. brains' = brainIds'
    BY <1>4 DEF AfterBrains
  <2> QED
    BY <1>1, <1>2, <1>4, <2>1, <2>2, AfterBrainsTask
<1>5. CASE /\ Reconciled(tasks[s].ids) # tasks[s].ids /\ ~failure
           /\ stored' = Indexed(Reconciled(tasks[s].ids))
           /\ Resume(s, [tasks[s] EXCEPT !.at = "indexed", !.ids = <<>>])
           /\ UNCHANGED <<brains, fleet>>
  <2> DEFINE t == [tasks[s] EXCEPT !.at = "indexed", !.ids = <<>>]
  <2>1. <<>> \in Seq(Brains) /\ "indexed" \in Stages
    BY DEF Stages
  <2>2. [tasks[s] EXCEPT !.at = "indexed", !.ids = <<>>] \in Tasks
    BY <1>2, <2>1, WithStageIds
  <2>3. t.op = tasks[s].op /\ t.at = "indexed" /\ t.changed = tasks[s].changed /\ t.removed = tasks[s].removed
    BY <1>2 DEF Tasks
  <2>4. tasks' = [tasks EXCEPT ![s] = t]
    BY <1>5 DEF Resume
  <2> HIDE DEF t
  <2>5. stored' = Indexed(brainIds') /\ stored'[active].index = brainIds' /\ stored'[active].saved = stored[active].saved
    <3>1. Indexed(brainIds')[active].index = brainIds'
      BY <1>1, <1>3, IndexedType
    <3>2. Indexed(brainIds')[active].saved = stored[active].saved
      BY <1>1, <1>3, IndexedType
    <3> QED
      BY <1>1, <1>5, <3>1, <3>2
  <2>6. t \in Tasks
    BY <2>2 DEF t
  <2> QED
    BY <1>1, <1>2, <1>5, <2>3, <2>4, <2>5, <2>6
<1>6. \/ AfterBrains(s) /\ ~(Reconciled(tasks[s].ids) # tasks[s].ids /\ ~failure)
      \/ /\ Reconciled(tasks[s].ids) # tasks[s].ids /\ ~failure
         /\ stored' = Indexed(Reconciled(tasks[s].ids))
         /\ Resume(s, [tasks[s] EXCEPT !.at = "indexed", !.ids = <<>>])
         /\ UNCHANGED <<brains, fleet>>
  BY DEF ReloadBrains
<1> QED
  BY <1>4, <1>5, <1>6

LEMMA ListsReconciled ==
    ASSUME StoreParameters, StoreTypes, Flight, Lists, NEW s \in Slots, ReloadBrains(s)
    PROVE  Lists'
<1>1. PICK t \in Tasks :
                /\ tasks' = [tasks EXCEPT ![s] = t] /\ t.op = tasks[s].op
                /\ \/ /\ t.at = "indexed" /\ ~failure /\ brains' = brains
                      /\ stored'[active].index = brainIds'
                   \/ /\ t.at \in {"compare", "fleet"}
                      /\ KeepsIndexes /\ brains' = brainIds' /\ (failure \/ brainIds' = tasks[s].ids)
  BY ReloadBrainsEffect
<1>2. /\ active \in Projects /\ tasks[s].op \in Reloads /\ tasks[s].at = "index" /\ tasks[s].ids \in Seq(Brains)
      /\ active' = active /\ cache' = cache /\ failure' = failure
      /\ brainIds' = Reconciled(tasks[s].ids)
  BY ReloadBrainsEffect
<1>3. CachedSet' = CachedSet /\ \A ids : Reconciled(ids)' = Reconciled(ids)
  BY <1>2, SameCached
<1>4. active # NoProject /\ \A u \in Slots : TaskListed(tasks[u])
  BY <1>2 DEF StoreParameters, Lists
<1>5. IsInjective(tasks[s].ids) /\ (~failure => stored[active].index \in {tasks[s].ids, Reconciled(tasks[s].ids)})
  BY <1>2, <1>4 DEF TaskListed
<1>6. brainIds' \in Seq(Brains) /\ ToSet(brainIds') = CachedSet /\ IsInjective(brainIds')
      /\ Reconciled(brainIds') = brainIds'
  BY <1>2, <1>5, ReconciledFacts DEF StoreParameters
<1>7. \A u \in Slots : tasks'[u] = IF u = s THEN t ELSE tasks[u]
  BY <1>1 DEF StoreTypes
<1>8. \A u \in Slots : u # s => tasks[u].op \in {"idle", "initialize", "switch", "reload"}
  BY <1>2 DEF Flight, Apart, Beside, Reloads
<1>9. ~failure => stored'[active].index = brainIds'
  BY <1>1, <1>2, <1>5 DEF KeepsIndexes
<1>10. Listed'
  <2>1. \A u \in Slots : tasks'[u].op \notin {"add", "remove"}
    BY <1>1, <1>2, <1>7, <1>8 DEF Reloads
  <2>2. Adding' = {} /\ Removing' = {}
    BY <2>1 DEF Adding, Removing, At
  <2> QED
    BY <1>2, <1>3, <1>6, <1>9, <2>2 DEF Listed
<1>11. ASSUME NEW u \in Slots PROVE TaskListed(tasks[u])'
  <2>1. CASE u = s
    <3>1. tasks'[u] = t
      BY <1>7, <2>1
    <3>2. t.op \in {"add", "remove", "external"} => ~failure'
      BY <1>1, <1>2, <1>4 DEF TaskListed
    <3>3. t.op \notin {"add", "remove"} /\ t.at # "index"
      BY <1>1, <1>2 DEF Reloads
    <3> QED
      BY <3>1, <3>2, <3>3 DEF TaskListed
  <2>2. CASE u # s
    <3>1. tasks'[u] = tasks[u] /\ TaskListed(tasks[u]) /\ tasks[u].ids \in Seq(Brains)
      <4>1. tasks[u] \in Tasks
        BY DEF StoreTypes
      <4> QED
        BY <1>4, <1>7, <2>2, <4>1, TaskFields
    <3>2. tasks[u].op \notin {"add", "remove", "external"}
      BY <1>8, <2>2
    <3>3. ASSUME tasks[u].op \in Reloads, tasks[u].at = "index", ~failure
          PROVE  brainIds' \in {tasks[u].ids, Reconciled(tasks[u].ids)}
      <4>1. stored[active].index \in {tasks[u].ids, Reconciled(tasks[u].ids)}
        BY <3>1, <3>3 DEF TaskListed
      <4>2. Reconciled(Reconciled(tasks[u].ids)) = Reconciled(tasks[u].ids)
        BY <3>1, ReconciledFacts DEF StoreParameters
      <4>3. CASE stored[active].index = tasks[s].ids
        BY <1>2, <4>1, <4>2, <4>3
      <4>4. CASE stored[active].index = Reconciled(tasks[s].ids)
        BY <1>2, <4>1, <4>4
      <4> QED
        BY <1>5, <3>3, <4>3, <4>4
    <3>4. tasks[u].op \in Reloads /\ tasks[u].at = "index" => IsInjective(tasks[u].ids)
      BY <3>1 DEF TaskListed
    <3> QED
      BY <1>2, <1>3, <1>9, <3>1, <3>2, <3>3, <3>4 DEF TaskListed
  <2> QED
    BY <2>1, <2>2
<1>12. brains' = brainIds' \/ \E u \in Slots : tasks'[u].at \in {"index", "indexed"}
  BY <1>1, <1>7
<1> QED
  BY <1>10, <1>11, <1>12 DEF Lists

LEMMA ListsEdited ==
    ASSUME StoreParameters, StoreTypes, Flight, Lists, NEW s \in Slots, AddIndexed(s) \/ RemoveIndexed(s)
    PROVE  Lists'
<1>1. /\ tasks[s].op \in {"add", "remove"} /\ tasks[s].at = "record"
      /\ tasks' = [tasks EXCEPT ![s] = [tasks[s] EXCEPT !.at = "index"]]
      /\ active' = active /\ cache' = cache /\ failure' = failure /\ brains' = brains
  BY DEF AddIndexed, RemoveIndexed, Resume
<1>2. active \in Projects /\ stored' = Indexed(brainIds') /\ brainIds' \in Seq(Brains)
  BY EditEffect, EditKeeps DEF Edits
<1>3. stored'[active].index = brainIds'
  <2>1. Indexed(brainIds')[active].index = brainIds'
    BY <1>2, IndexedType
  <2> QED
    BY <1>2, <2>1
<1>4. \A u \in Slots : u # s => tasks[u].op = "idle"
  BY <1>1 DEF Flight, Apart, Beside
<1> DEFINE t == [tasks[s] EXCEPT !.at = "index"]
<1>5. t.op = tasks[s].op /\ t.at = "index" /\ t.brain = tasks[s].brain
  BY DEF StoreTypes, Tasks
<1>6. \A u \in Slots : tasks'[u] = IF u = s THEN t ELSE tasks[u]
  BY <1>1 DEF StoreTypes
<1> HIDE DEF t
<1>7. active # NoProject /\ ~Unlisted /\ Listed /\ TaskListed(tasks[s])
  <2>1. active # NoProject /\ ~Unlisted
    BY <1>1, <1>2, <1>4 DEF Unlisted, At, StoreParameters
  <2> QED
    BY <2>1 DEF Lists
<1>8. tasks[s].brain \in Brains /\ brainIds \in Seq(Brains)
  BY <1>1 DEF Flight, TaskSound, StoreTypes
<1>9. CachedSet' = CachedSet
  BY <1>1, SameCached
<1>10. \A u \in Slots : tasks'[u].op \notin {"add", "remove"} \/ tasks'[u].at # "record"
  BY <1>1, <1>4, <1>5, <1>6
<1>11. Adding' = {} /\ Removing' = {}
  BY <1>10 DEF Adding, Removing, At
<1>12. IsInjective(brainIds') /\ ToSet(brainIds') = CachedSet
  <2>1. CASE AddIndexed(s)
    <3>1. Adding = {tasks[s].brain} /\ Removing = {} /\ tasks[s].brain \in CachedSet
      <4>1. tasks[s].op = "add"
        BY <2>1 DEF AddIndexed
      <4>2. Adding = {tasks[s].brain}
        BY <1>1, <1>4, <1>8, <4>1 DEF Adding, At
      <4>3. Removing = {}
        BY <1>4, <4>1 DEF Removing, At
      <4>4. tasks[s].brain \in CachedSet
        BY <1>1, <1>7, <1>8, <4>1 DEF TaskListed, CachedSet
      <4> QED
        BY <4>2, <4>3, <4>4
    <3>2. ToSet(brainIds) = CachedSet \ {tasks[s].brain} /\ IsInjective(brainIds)
      BY <1>7, <3>1 DEF Listed
    <3>3. brainIds' = Append(brainIds, tasks[s].brain) /\ tasks[s].brain \notin ToSet(brainIds)
      BY <2>1, <3>2 DEF AddIndexed
    <3>4. ToSet(brainIds') = ToSet(brainIds) \cup {tasks[s].brain}
      BY <1>8, <3>3, AppendFacts
    <3>5. IsInjective(brainIds')
      BY <1>8, <3>2, <3>3, AppendFacts
    <3> QED
      BY <3>1, <3>2, <3>4, <3>5
  <2>2. CASE RemoveIndexed(s)
    <3>1. Removing = {tasks[s].brain} /\ Adding = {} /\ tasks[s].brain \notin CachedSet
      <4>1. tasks[s].op = "remove"
        BY <2>2 DEF RemoveIndexed
      <4>2. Removing = {tasks[s].brain}
        BY <1>1, <1>4, <1>8, <4>1 DEF Removing, At
      <4>3. Adding = {}
        BY <1>4, <4>1 DEF Adding, At
      <4>4. tasks[s].brain \notin CachedSet
        BY <1>1, <1>7, <1>8, <4>1 DEF TaskListed, CachedSet
      <4> QED
        BY <4>2, <4>3, <4>4
    <3>2. ToSet(brainIds) = CachedSet \cup {tasks[s].brain} /\ IsInjective(brainIds)
      BY <1>7, <3>1 DEF Listed
    <3>3. brainIds' = Retained(brainIds, Brains \ {tasks[s].brain})
      BY <2>2 DEF RemoveIndexed
    <3>4. ToSet(brainIds') = ToSet(brainIds) \cap (Brains \ {tasks[s].brain}) /\ IsInjective(brainIds')
      BY <1>8, <3>2, <3>3, KeptFacts
    <3> QED
      BY <3>1, <3>2, <3>4 DEF CachedSet
  <2> QED
    BY <2>1, <2>2
<1>13. Listed'
  BY <1>1, <1>3, <1>9, <1>11, <1>12 DEF Listed
<1>14. ASSUME NEW u \in Slots PROVE TaskListed(tasks[u])'
  <2>1. CASE u = s
    <3>1. tasks'[u] = t /\ ~failure'
      BY <1>1, <1>6, <1>7, <2>1 DEF TaskListed
    <3> QED
      BY <1>1, <1>5, <3>1 DEF TaskListed, Reloads
  <2>2. CASE u # s
    <3>1. tasks'[u].op = "idle"
      BY <1>4, <1>6, <2>2
    <3> QED
      BY <3>1 DEF TaskListed, Reloads
  <2> QED
    BY <2>1, <2>2
<1>15. tasks'[s].at = "index"
  BY <1>5, <1>6
<1> QED
  BY <1>13, <1>14, <1>15 DEF Lists

LEMMA ListsBrain ==
    ASSUME StoreParameters, Patient, StoreTypes, Flight, Records, Lists, NEW b \in Brains,
           AddBrain(b) \/ ImportBrain(b) \/ RemoveBrain(b) \/ SaveBrain(b) \/ RenameBrain(b)
    PROVE  Lists'
<1>1. active \in Projects /\ \A s \in Slots : tasks[s] = Idle
  BY BrainActEffect
<1>2. active' = active /\ failure' = failure /\ brainIds' = brainIds /\ brains' = brains
  BY BrainActEffect DEF list
<1>3. IsInjective(brainIds) /\ ToSet(brainIds) = CachedSet /\ brains = brainIds
      /\ (~failure => stored[active].index = brainIds)
  BY <1>1, QuietLists
<1>4. PICK n \in Slots, t \in Tasks :
                /\ tasks' = [tasks EXCEPT ![n] = t] /\ t.at = "record" /\ t.brain = b
                /\ \/ t.op = "add" /\ (AddBrain(b) \/ ImportBrain(b))
                   \/ t.op = "remove" /\ RemoveBrain(b)
                   \/ t.op = "save" /\ SaveBrain(b)
                   \/ t.op = "rename" /\ RenameBrain(b)
  BY BrainActEffect
<1>5. stored'[active].index = stored[active].index
  <2>1. CASE RenameBrain(b)
    BY <1>1, <2>1, BrainActEffect DEF Keeps, KeepsIndexes
  <2>2. CASE ~RenameBrain(b)
    <3>1. \E def \in Nat : Redefines(b, def)
      BY <2>2, BrainActEffect
    <3> QED
      BY <1>1, <3>1 DEF Redefines
  <2> QED
    BY <2>1, <2>2
<1>6. ASSUME NEW def \in Nat \ {0}, Redefines(b, def) PROVE CachedSet' = CachedSet \cup {b}
  BY <1>6 DEF Redefines, CachedSet, Cached, StoreTypes
<1>7. CASE t.op = "add"
  <2>1. b \notin ToSet(brainIds) /\ ~failure
    BY <1>1, <1>3, <1>4, <1>7 DEF AddBrain, ImportBrain, Unused
  <2>2. CachedSet' = CachedSet \cup {b}
    BY <1>4, <1>6, <1>7, BrainActEffect
  <2> QED
    BY <1>1, <1>2, <1>3, <1>4, <1>5, <1>7, <2>1, <2>2, ListsStarted
<1>8. CASE t.op = "remove"
  <2>1. Redefines(b, 0) /\ b \in ToSet(brainIds)
    BY <1>3, <1>4, <1>8, BrainActEffect DEF RemoveBrain
  <2>2. CachedSet' = CachedSet \ {b}
    BY <2>1 DEF Redefines, CachedSet, Cached, StoreTypes
  <2>3. ~failure
    BY <1>3, <2>1, FailureLists
  <2> QED
    BY <1>1, <1>2, <1>3, <1>4, <1>5, <1>8, <2>1, <2>2, <2>3, ListsStarted
<1>9. CASE t.op = "save"
  <2>1. CachedSet' = CachedSet \cup {b} /\ b \in CachedSet
    BY <1>4, <1>6, <1>9, BrainActEffect DEF SaveBrain, CachedSet
  <2> QED
    BY <1>1, <1>2, <1>3, <1>4, <1>5, <1>9, <2>1, ListsStarted
<1>10. CASE t.op = "rename"
  <2>1. CachedSet' = CachedSet
    BY <1>4, <1>10, BrainActEffect, SameCached DEF Keeps
  <2> QED
    BY <1>1, <1>2, <1>3, <1>4, <1>5, <1>10, <2>1, ListsStarted
<1> QED
  BY <1>4, <1>7, <1>8, <1>9, <1>10

LEMMA ListsExternal ==
    ASSUME StoreParameters, Patient, StoreTypes, Flight, Records, NEW b \in Brains, ExternalEdit(b)
    PROVE  Lists'
<1>1. ~failure /\ active \in Projects /\ (\A s \in Slots : tasks[s] = Idle) /\ active' = active /\ failure' = failure
  BY ExternalEffect
<1>2. PICK def \in Nat, n \in Slots, t \in Tasks :
                /\ Redefines(b, def)
                /\ tasks' = [tasks EXCEPT ![n] = t]
                /\ t.op = "external" /\ t.at = "index" /\ t.ids = stored[active].index
  BY ExternalEffect
<1>3. \A u \in Slots : tasks'[u] = IF u = n THEN t ELSE Idle
  BY <1>1, <1>2 DEF StoreTypes
<1>4. Idle.op = "idle" /\ Idle.at = "idle"
  BY IdleType
<1>5. stored'[active].index = t.ids /\ IsInjective(t.ids)
  BY <1>1, <1>2 DEF Redefines, Records
<1>6. ASSUME NEW u \in Slots PROVE TaskListed(tasks[u])'
  <2>1. CASE u = n
    <3>1. tasks'[u] = t
      BY <1>3, <2>1
    <3> QED
      BY <1>1, <1>2, <1>5, <3>1 DEF TaskListed
  <2>2. CASE u # n
    <3>1. tasks'[u] = Idle
      BY <1>3, <2>2
    <3> QED
      BY <1>4, <3>1 DEF TaskListed, Reloads
  <2> QED
    BY <2>1, <2>2
<1>7. Unlisted' /\ \E u \in Slots : tasks'[u].at \in {"index", "indexed"}
  BY <1>2, <1>3 DEF Unlisted, At
<1> QED
  BY <1>6, <1>7 DEF Lists

LEMMA ListsStep ==
    StoreParameters /\ Patient /\ StoreTypes /\ Flight /\ Records /\ Lists /\ [Next]_vars => Lists'
<1> SUFFICES ASSUME StoreParameters, Patient, StoreTypes, Flight, Records, Lists, [Next]_vars PROVE Lists'
  OBVIOUS
<1>1. CASE UNCHANGED vars
  BY <1>1, ListsKept DEF Keeps, KeepsIndexes, vars, host, list
<1>2. ASSUME NEW s \in Slots, Resumes(s) PROVE Lists'
  <2>1. CASE (\E p \in Projects : InitializeOpen(s, p)) \/ SwitchLoaded(s)
    BY <2>1, ListsLoaded
  <2>2. CASE ReloadBrains(s)
    BY <2>2, ListsReconciled
  <2>3. CASE ReloadStep(s) /\ ~ReloadBrains(s)
    <3>1. PICK t \in Tasks : tasks' = [tasks EXCEPT ![s] = t] /\ GoesOn(s, t) /\ t.at \notin {"index", "indexed"}
      <4>1. active \in Projects
        BY <2>3, ReloadEffect
      <4>2. CASE ReloadIndexed(s)
        <5>1. PICK t \in Tasks : tasks' = [tasks EXCEPT ![s] = t] /\ t.op = tasks[s].op
                                 /\ t.at = IF tasks[s].op = "external" THEN "compare" ELSE "fleet"
          BY <4>1, <4>2, AfterBrainsTask DEF ReloadIndexed
        <5> QED
          BY <4>2, <5>1 DEF GoesOn, StageOf, Reloads, ReloadIndexed
      <4>3. CASE ReloadFleet(s) \/ ReloadDefault(s)
        <5>1. Idle \in Tasks /\ Idle.at = "idle" /\ (tasks[s].op \in Reloads)
          BY <4>3, IdleType DEF ReloadFleet, ReloadDefault
        <5>2. CASE End(s)
          BY <5>1, <5>2 DEF End, GoesOn
        <5>3. CASE Resume(s, Op(tasks[s].op, "default"))
          <6>1. Op(tasks[s].op, "default") \in Tasks /\ Op(tasks[s].op, "default").op = tasks[s].op
                /\ Op(tasks[s].op, "default").at = "default"
            BY <5>1, OpType DEF Reloads, Ops, Stages
          <6> QED
            BY <5>1, <5>3, <6>1 DEF GoesOn, StageOf, Reloads, Resume
        <5> QED
          BY <4>3, <5>2, <5>3 DEF ReloadFleet, ReloadDefault
      <4> QED
        BY <2>3, <4>2, <4>3 DEF ReloadStep
    <3>2. active \in Projects /\ active' = active /\ cache' = cache /\ failure' = failure /\ KeepsIndexes
      BY <2>3, ReloadEffect, ReloadKeeps
    <3>3. /\ brainIds' = brainIds /\ brains' \in {brains, brainIds}
          /\ brains' = brainIds \/ tasks[s].at \notin {"index", "indexed"}
          /\ tasks[s].op \in Reloads /\ tasks[s].at # "index"
      BY <2>3 DEF ReloadStep, ReloadIndexed, ReloadFleet, ReloadDefault, AfterBrains, list
    <3>4. tasks[s].op \notin {"add", "remove"} /\ ~At(s, {"reload", "external"}, {"index"})
      BY <3>3 DEF Reloads, At
    <3>5. t = Idle \/ t.op = tasks[s].op
      BY <3>1 DEF GoesOn
    <3> QED
      BY <3>1, <3>2, <3>3, <3>4, <3>5, ListsResumed
  <2>4. CASE AddIndexed(s) \/ RemoveIndexed(s)
    BY <2>4, ListsEdited
  <2>5. CASE Edits(s) /\ ~AddIndexed(s) /\ ~RemoveIndexed(s)
    <3>1. /\ active \in Projects /\ active' = active /\ cache' = cache /\ failure' = failure /\ KeepsIndexes
      BY <2>5, EditEffect, EditKeeps
    <3>2. /\ brainIds' = brainIds /\ brains' \in {brains, brainIds}
          /\ brains' = brainIds \/ tasks[s].at \notin {"index", "indexed"}
          /\ ~At(s, {"reload", "external"}, {"index"})
          /\ tasks[s].op \in {"add", "remove"} => tasks[s].at # "record"
      BY <2>5 DEF Edits, InitializeReload, SwitchDone, CompareFleet, AddListed, RemoveUnflash, SaveReflash, RenameListed,
             list, At
    <3>3. CASE InitializeReload(s)
      <4>1. stored[active].index \in Seq(Brains) /\ <<>> \in Seq(Brains)
        BY <3>1, StoredType
      <4>2. PICK ids \in {stored[active].index, <<>>} :
               /\ ~failure => ids = stored[active].index
               /\ tasks' = [tasks EXCEPT ![s] = [Op("initialize", "index") EXCEPT !.ids = ids]]
        BY <3>3 DEF InitializeReload, Readings, Resume
      <4> DEFINE o == Op("initialize", "index")
                 t == [o EXCEPT !.ids = ids]
      <4>3. o \in Tasks /\ o.op = "initialize" /\ o.at = "index"
        BY OpType DEF Ops, Stages
      <4>4. tasks' = [tasks EXCEPT ![s] = t] /\ tasks[s].op = "initialize"
        BY <3>3, <4>2 DEF InitializeReload
      <4> HIDE DEF o
      <4>5. [o EXCEPT !.ids = ids] \in Tasks
        BY <4>1, <4>2, <4>3, WithIds
      <4>6. t.op = "initialize" /\ t.at = "index" /\ t.ids = ids
        BY <4>3 DEF Tasks
      <4>7. IsInjective(ids)
        BY <3>1, <4>2, InjectiveEmpty DEF Records
      <4>8. t \in Tasks
        BY <4>5
      <4> HIDE DEF t
      <4> QED
        BY <3>1, <3>2, <4>2, <4>4, <4>6, <4>7, <4>8, ListsResumed
    <3>4. CASE CompareFleet(s) /\ ~End(s)
      <4> DEFINE t == [tasks[s] EXCEPT !.at = "fleet", !.saved = stored[active].saved]
      <4>1. tasks' = [tasks EXCEPT ![s] = t] /\ tasks[s].op = "external"
        BY <3>4 DEF CompareFleet, Resume
      <4>2. stored[active].saved \in SavedFleets \cup {NoFleet} /\ "fleet" \in Stages /\ tasks[s] \in Tasks
        BY <3>1, StoredType DEF Stages, StoreTypes
      <4>3. t \in Tasks
        BY <4>2, WithStageSaved
      <4>4. t.op = tasks[s].op /\ t.at = "fleet"
        BY <4>2 DEF Tasks
      <4> HIDE DEF t
      <4> QED
        BY <3>1, <3>2, <4>1, <4>3, <4>4, ListsResumed
    <3>5. CASE End(s)
      <4>1. tasks' = [tasks EXCEPT ![s] = Idle] /\ Idle \in Tasks /\ Idle.at = "idle"
        BY <3>5, IdleType DEF End
      <4> QED
        BY <3>1, <3>2, <4>1, ListsResumed
    <3> QED
      BY <2>5, <3>3, <3>4, <3>5, SwitchEnds DEF Edits, AddListed, RemoveUnflash, SaveReflash, RenameListed
  <2> QED
    BY <1>2, <2>1, <2>2, <2>3, <2>4, <2>5 DEF Resumes, Edits
<1>3. CASE ProjectAct
  <2>1. PICK p \in Projects : CreateProject(p) \/ SwitchProject(p) \/ \E seed \in Seeds[p] : ImportProject(p, seed)
    BY <1>3 DEF ProjectAct
  <2>2. /\ active \in Projects /\ \A s \in Slots : tasks[s] = Idle
        /\ stored'[active] = stored[active] /\ cache' = cache
        /\ active' = active /\ failure' = failure /\ brainIds' = brainIds /\ brains' = brains
    BY <2>1, ProjectActEffect DEF list
  <2>3. PICK n \in Slots, t \in Tasks : tasks' = [tasks EXCEPT ![n] = t] /\ t.op = "switch" /\ t.at = "open"
    BY <2>1, ProjectActEffect
  <2>4. IsInjective(brainIds) /\ ToSet(brainIds) = CachedSet /\ brains = brainIds
        /\ (~failure => stored[active].index = brainIds)
    BY <2>2, QuietLists
  <2>5. CachedSet' = ToSet(brainIds)
    BY <2>2, <2>4, SameCached
  <2> QED
    BY <2>2, <2>3, <2>4, <2>5, ListsStarted
<1>4. CASE BrainAct
  <2>1. PICK b \in Brains :
           AddBrain(b) \/ ImportBrain(b) \/ RemoveBrain(b) \/ SaveBrain(b) \/ RenameBrain(b) \/ ExternalEdit(b)
    BY <1>4 DEF BrainAct
  <2>2. CASE ExternalEdit(b)
    BY <2>2, ListsExternal
  <2>3. CASE AddBrain(b) \/ ImportBrain(b) \/ RemoveBrain(b) \/ SaveBrain(b) \/ RenameBrain(b)
    BY <2>3, ListsBrain
  <2> QED
    BY <2>1, <2>2, <2>3
<1>5. CASE FleetAct \/ Flush \/ ToggleBridge
  <2>1. brainIds' = brainIds /\ brains' = brains /\ tasks' = tasks
    BY <1>5 DEF FleetAct, AddInstance, RemoveInstance, ResetInstance, FlashBrain, Flush, ToggleBridge, list
  <2> QED
    BY <1>5, <2>1, FleetKeeps, ListsKept
<1>6. CASE (\E n \in DOMAIN fleet : FiberFault(n)) \/ (\E ks \in SUBSET Keys \ {{}} : Compile(ks))
  BY <1>6, ListsKept DEF FiberFault, Compile, Keeps, KeepsIndexes, host, list
<1>7. CASE ReloadPage
  BY <1>7 DEF ReloadPage, Lists
<1> QED
  BY <1>1, <1>2, <1>3, <1>4, <1>5, <1>6, <1>7 DEF Next

LEMMA FailureStep ==
    StoreParameters /\ Patient /\ StoreTypes /\ Flight /\ Records /\ Lists /\ [Next]_vars
      => (failure /\ failure' /\ active' = active /\ active # NoProject =>
            /\ stored'[active].index = stored[active].index
            /\ stored'[active].saved = stored[active].saved)
<1> SUFFICES ASSUME StoreParameters, Patient, StoreTypes, Flight, Records, Lists, [Next]_vars,
                    failure, failure', active' = active, active # NoProject
             PROVE  stored'[active].index = stored[active].index /\ stored'[active].saved = stored[active].saved
  OBVIOUS
<1>1. active \in Projects
  BY DEF StoreTypes
<1>2. \A s \in Slots : TaskListed(tasks[s])
  BY DEF Lists
<1>3. ASSUME NEW s \in Slots, Resumes(s) PROVE stored' = stored
  <2>1. CASE (\E p \in Projects : InitializeOpen(s, p)) \/ SwitchLoaded(s)
    BY <2>1, LoadingEffect
  <2>2. CASE ReloadStep(s)
    <3>1. ASSUME AfterBrains(s) PROVE stored' = stored
      BY <3>1 DEF AfterBrains, Persisted
    <3> QED
      BY <2>2, <3>1 DEF ReloadStep, ReloadBrains, ReloadIndexed, ReloadFleet, ReloadDefault, Persisted, host
  <2>3. CASE Edits(s)
    <3>1. tasks[s].op \notin {"add", "remove"}
      BY <1>2 DEF TaskListed
    <3> QED
      BY <2>3, <3>1 DEF Edits, InitializeReload, SwitchDone, CompareFleet, AddIndexed, AddListed, RemoveIndexed,
         RemoveUnflash, SaveReflash, RenameListed, Persisted, host
  <2> QED
    BY <1>3, <2>1, <2>2, <2>3 DEF Resumes, Edits
<1>4. CASE ProjectAct
  <2>1. PICK p \in Projects : CreateProject(p) \/ SwitchProject(p) \/ \E seed \in Seeds[p] : ImportProject(p, seed)
    BY <1>4 DEF ProjectAct
  <2>2. p # active /\ \A r \in Projects : r # p => stored'[r] = stored[r]
    BY <2>1, ProjectActEffect
  <2> QED
    BY <1>1, <2>2
<1>5. CASE BrainAct
  <2>1. PICK b \in Brains :
           AddBrain(b) \/ ImportBrain(b) \/ RemoveBrain(b) \/ SaveBrain(b) \/ RenameBrain(b) \/ ExternalEdit(b)
    BY <1>5 DEF BrainAct
  <2>2. CASE RenameBrain(b)
    BY <2>2 DEF RenameBrain, host
  <2>3. CASE RemoveBrain(b) \/ SaveBrain(b)
    <3>1. \A s \in Slots : tasks[s] = Idle
      BY <2>3, BrainActEffect
    <3>2. CachedSet # {}
      BY <1>1, <2>3, <3>1, QuietLists DEF RemoveBrain, SaveBrain, CachedSet
    <3> QED
      BY <3>2, FailureLists
  <2> QED
    BY <2>1, <2>2, <2>3 DEF AddBrain, ImportBrain, ExternalEdit
<1>6. CASE FleetAct \/ Flush
  BY <1>6 DEF FleetAct, AddInstance, RemoveInstance, ResetInstance, FlashBrain, SetFleet, Flush, Persisted
<1>7. CASE ToggleBridge
  <2>1. stored' = [stored EXCEPT ![active] = [stored[active] EXCEPT !.bridge = bridge']]
    BY <1>7 DEF ToggleBridge
  <2> DEFINE r == [stored[active] EXCEPT !.bridge = bridge']
  <2>2. r.saved = stored[active].saved /\ r.index = stored[active].index
    BY <1>1, StoredType DEF StoredProjects
  <2>3. stored'[active] = r
    BY <1>1, <2>1 DEF StoreTypes, Catalog
  <2> QED
    BY <2>2, <2>3
<1>8. CASE (\E n \in DOMAIN fleet : FiberFault(n)) \/ (\E ks \in SUBSET Keys \ {{}} : Compile(ks)) \/ ReloadPage \/ UNCHANGED vars
  BY <1>8 DEF FiberFault, Compile, ReloadPage, vars, host
<1> QED
  BY <1>3, <1>4, <1>5, <1>6, <1>7, <1>8 DEF Next

LEMMA ListsInit == StoreParameters /\ Init => Lists
BY DEF Init, Lists

LEMMA ListExactOf ==
    ASSUME StoreParameters, StoreTypes, Flight, Lists
    PROVE  ListExact
<1> SUFFICES ASSUME Quiet, ~failure
             PROVE  /\ brains = brainIds /\ stored[active].index = brainIds
                    /\ IsInjective(brainIds) /\ ToSet(brainIds) = CachedSet
  BY DEF ListExact
<1>1. active \in Projects
  BY DEF Quiet, StoreTypes
<1>2. \A s \in Slots : tasks[s] = Idle
  <2>1. \A s \in Slots : tasks[s].op = "idle"
    BY DEF Quiet, Awaiting
  <2> QED
    BY <2>1 DEF Flight, TaskSound
<1> QED
  BY <1>1, <1>2, QuietLists

-----------------------------------------------------------------------------
(* The restores in flight.                                                  *)

Prior == {"index", "indexed", "fleet"}
BareFleet == \A n \in DOMAIN fleet : fleet[n].brain = NoBrain
BareSaved(saved) == saved # NoFleet => \A n \in DOMAIN saved : saved[n][2] = NoBrain
(* The start restores beside the reload of the project it opened; a restore *)
(* has put up the default fleet.                                            *)
Doubly == \E s, t \in Slots : At(s, {"initialize"}, {"opened"} \cup Prior) /\ At(t, {"reload"}, Prior)
Defaulted == \E s \in Slots : At(s, Reloads, {"default"})
(* While both restores of a start are in flight the fleet is bare and both  *)
(* have read what is saved; while the default fleet is up nothing that will *)
(* be restored has a brain. Hence the reflash that a restore drops was due  *)
(* on no device.                                                            *)
Restores ==
    /\ active = NoProject => BareFleet
    /\ Doubly => /\ BareFleet
                 /\ ~failure => \A u \in Slots : tasks[u].at = "fleet" => tasks[u].saved = stored[active].saved
    /\ Defaulted => /\ BareFleet /\ BareSaved(stored[active].saved)
                    /\ \A u \in Slots : tasks[u].at = "fleet" => BareSaved(tasks[u].saved)

(* After an operation that ran alone nothing is being restored.             *)
LEMMA RestoresAlone ==
    ASSUME StoreParameters, StoreTypes, active' \in Projects, NEW s \in Slots,
           \A u \in Slots : u # s => tasks'[u] = Idle,
           tasks'[s].op # "initialize", tasks'[s].at # "default"
    PROVE  Restores'
<1>1. Idle.op = "idle" /\ Idle.at = "idle"
  BY IdleType
<1>2. \A u \in Slots : tasks'[u].op # "initialize" /\ tasks'[u].at # "default"
  BY <1>1
<1>3. ~Doubly' /\ ~Defaulted' /\ active' # NoProject
  BY <1>2 DEF Doubly, Defaulted, At, StoreParameters
<1> QED
  BY <1>3 DEF Restores

LEMMA RestoresLoaded ==
    ASSUME StoreParameters, StoreTypes, Flight, Restores, NEW s \in Slots,
           (\E p \in Projects : InitializeOpen(s, p)) \/ SwitchLoaded(s)
    PROVE  Restores'
<1>1. PICK p \in Projects, n \in Slots, ids \in Seq(Brains), t \in Tasks :
             /\ tasks[s].op \in {"initialize", "switch"} /\ tasks[s].at = "open" /\ n # s
             /\ tasks' = [tasks EXCEPT ![n] = ReloadTask(ids), ![s] = t]
             /\ t.op = tasks[s].op /\ t.at \in {"opened", "loaded"}
             /\ active' = p /\ UNCHANGED <<stored, list, fleet, reflasher, faults, switching, acts>>
  BY LoadingEffect
<1>2. \A u \in Slots : u # s => tasks[u] = Idle
  <2>1. \A u \in Slots : u # s => tasks[u].op = "idle"
    BY <1>1 DEF Flight, Apart, Beside
  <2> QED
    BY <2>1 DEF Flight, TaskSound
<1>3. \A u \in Slots : tasks'[u] = IF u = s THEN t ELSE IF u = n THEN ReloadTask(ids) ELSE Idle
  BY <1>1, <1>2 DEF StoreTypes
<1>4. Idle.op = "idle" /\ Idle.at = "idle" /\ ReloadTask(ids).op = "reload" /\ ReloadTask(ids).at = "index"
  BY IdleType, OpType, WithIds DEF ReloadTask, Ops, Stages
<1>5. \A u \in Slots : tasks'[u].at \notin {"fleet", "default"}
  BY <1>1, <1>3, <1>4
<1>6. ~Defaulted' /\ active' # NoProject
  BY <1>1, <1>5 DEF Defaulted, At, StoreParameters
<1>7. Doubly' => BareFleet'
  <2>1. Doubly' => tasks[s].op = "initialize"
    BY <1>1, <1>3, <1>4 DEF Doubly, At
  <2>2. tasks[s].op = "initialize" => active = NoProject
    BY <1>1 DEF Flight, At
  <2> QED
    BY <1>1, <2>1, <2>2 DEF Restores, BareFleet
<1> QED
  BY <1>5, <1>6, <1>7 DEF Restores

(* A fleet without brains stays one when brains are flashed again, and      *)
(* nothing is persisted.                                                    *)
LEMMA RestoresFlushed ==
    ASSUME StoreParameters, StoreTypes, Restores, Flush
    PROVE  Restores'
<1>1. Affected \in SUBSET Brains
  BY DEF Affected, CachedSet
<1>2. fleet \in Seq(Devices) /\ cache \in [Brains -> Nat] /\ keyVersion \in [Keys -> Nat]
  BY DEF StoreTypes
<1>3. BareFleet => Affected = {}
  BY DEF BareFleet, Affected, Associated, CachedSet, StoreParameters
<1>4. fleet' = Reflashed(fleet, Affected, cache, keyVersion)
  BY DEF Flush
<1>5. DOMAIN fleet' = DOMAIN fleet
      /\ \A n \in DOMAIN fleet : fleet'[n] = IF fleet[n].brain \in Affected
                                             THEN Flashed(fleet[n], fleet[n].brain, cache, keyVersion) ELSE fleet[n]
  <2>1. DOMAIN fleet' = DOMAIN fleet
    BY <1>1, <1>2, <1>4, ReflashedType
  <2>2. \A n \in DOMAIN fleet : fleet'[n] = IF fleet[n].brain \in Affected
                                             THEN Flashed(fleet[n], fleet[n].brain, cache, keyVersion) ELSE fleet[n]
    BY <1>1, <1>2, <1>4, ReflashedType
  <2> QED BY <2>1, <2>2
<1>6. BareFleet => BareFleet' /\ stored' = stored
  BY <1>3, <1>5 DEF BareFleet, Flush
<1>7. tasks' = tasks /\ active' = active /\ failure' = failure
  BY DEF Flush
<1>8. Doubly' = Doubly /\ Defaulted' = Defaulted
  BY <1>7 DEF Doubly, Defaulted, At
<1> QED
  BY <1>6, <1>7, <1>8 DEF Restores, BareSaved

(* A resumption that leaves a fleet without brains, and what is saved, as   *)
(* they were, and that restores from what is saved.                         *)
LEMMA RestoresResumed ==
    ASSUME StoreParameters, StoreTypes, Restores, NEW s \in Slots, NEW t \in Tasks, tasks' = [tasks EXCEPT ![s] = t],
           active \in Projects, active' = active, failure' = failure,
           BareFleet => BareFleet' /\ stored'[active].saved = stored[active].saved,
           t = Idle \/ t.op = tasks[s].op,
           t.at # "default", t.at \in Prior => tasks[s].at \in {"opened"} \cup Prior,
           tasks[s].op = "reload" /\ t.at \in Prior => tasks[s].at \in Prior,
           t.at = "fleet" => /\ t.saved \in {stored'[active].saved, NoFleet}
                             /\ ~failure => t.saved = stored'[active].saved,
           t.at # "opened"
    PROVE  Restores'
<1>1. Idle.op = "idle" /\ Idle.at = "idle"
  BY IdleType
<1>2. \A u \in Slots : tasks'[u] = IF u = s THEN t ELSE tasks[u]
  BY DEF StoreTypes
<1>3. ASSUME Doubly' PROVE Doubly
  <2>1. PICK x \in Slots, y \in Slots : At(x, {"initialize"}, {"opened"} \cup Prior)' /\ At(y, {"reload"}, Prior)'
    BY <1>3 DEF Doubly
  <2>2. At(x, {"initialize"}, {"opened"} \cup Prior)
    BY <1>1, <1>2, <2>1 DEF At, Prior
  <2>3. At(y, {"reload"}, Prior)
    BY <1>1, <1>2, <2>1 DEF At, Prior
  <2> QED
    BY <2>2, <2>3 DEF Doubly
<1>4. ASSUME Defaulted' PROVE Defaulted
  BY <1>1, <1>2, <1>4 DEF Defaulted, At
<1>5. active' # NoProject
  BY DEF StoreParameters
<1>6. Doubly' => /\ BareFleet'
                 /\ ~failure' => \A u \in Slots : tasks'[u].at = "fleet" => tasks'[u].saved = stored'[active'].saved
  BY <1>2, <1>3 DEF Restores
<1>7. Defaulted' => /\ BareFleet' /\ BareSaved(stored'[active'].saved)
                    /\ \A u \in Slots : tasks'[u].at = "fleet" => BareSaved(tasks'[u].saved)
  BY <1>2, <1>4 DEF Restores, BareSaved
<1> QED
  BY <1>5, <1>6, <1>7 DEF Restores

(* The edits of a brain list find no device in a fleet without brains.      *)
LEMMA BareAfterBrains ==
    ASSUME StoreParameters, StoreTypes, NEW s \in Slots, active \in Projects, AfterBrains(s), tasks[s].op \in Reloads, BareFleet
    PROVE  BareFleet' /\ stored' = stored
<1>1. tasks[s] \in Tasks
  BY DEF StoreTypes
<1>2. tasks[s].removed \in SUBSET Brains /\ tasks[s].changed \in SUBSET Brains
  BY <1>1, TaskFields
<1>3. NoBrain \notin tasks[s].removed /\ NoBrain \notin tasks[s].changed
  BY <1>2 DEF StoreParameters
<1>4. DOMAIN fleet' = DOMAIN fleet
      /\ \A n \in DOMAIN fleet :
            fleet'[n] = IF fleet[n].brain \in tasks[s].removed THEN EmptyInstance(fleet[n].id)
                        ELSE IF fleet[n].brain \in tasks[s].changed \cap CachedSet
                        THEN Flashed(fleet[n], fleet[n].brain, cache, keyVersion) ELSE fleet[n]
  <2>1. DOMAIN fleet' = DOMAIN fleet
    BY AfterBrainsEffect
  <2>2. \A n \in DOMAIN fleet :
            fleet'[n] = IF fleet[n].brain \in tasks[s].removed THEN EmptyInstance(fleet[n].id)
                        ELSE IF fleet[n].brain \in tasks[s].changed \cap CachedSet
                        THEN Flashed(fleet[n], fleet[n].brain, cache, keyVersion) ELSE fleet[n]
    BY AfterBrainsEffect
  <2> QED
    BY <2>1, <2>2
<1>5. BareFleet'
  BY <1>3, <1>4 DEF BareFleet
<1>6. \A b \in Brains : Associated(b) = {}
  BY DEF Associated, BareFleet, StoreParameters
<1>7. stored' = stored
  BY <1>2, <1>6 DEF AfterBrains
<1> QED
  BY <1>5, <1>7

LEMMA RestoresBrains ==
    ASSUME StoreParameters, StoreTypes, Flight, Restores, NEW s \in Slots, ReloadBrains(s) \/ ReloadIndexed(s)
    PROVE  Restores'
<1>1. /\ active \in Projects /\ tasks[s].op \in Reloads /\ tasks[s].at \in {"index", "indexed"}
      /\ active' = active /\ failure' = failure
  BY ReloadEffect, ReloadKeeps DEF ReloadStep, ReloadBrains, ReloadIndexed
<1>2. CASE AfterBrains(s)
  <2>1. PICK t \in Tasks :
             /\ tasks' = [tasks EXCEPT ![s] = t] /\ t.op = tasks[s].op
             /\ t.at = IF tasks[s].op = "external" THEN "compare" ELSE "fleet"
             /\ t.saved \in {stored'[active].saved, NoFleet} /\ (~failure => t.saved = stored'[active].saved)
    BY <1>1, <1>2, AfterBrainsTask
  <2>2. BareFleet => BareFleet' /\ stored'[active].saved = stored[active].saved
    BY <1>1, <1>2, BareAfterBrains
  <2>3. t.at \in {"compare", "fleet"} /\ tasks[s].at \in Prior
    BY <1>1, <2>1 DEF Prior
  <2> QED
    BY <1>1, <2>1, <2>2, <2>3, RestoresResumed
<1>3. CASE ~AfterBrains(s)
  <2>0. ReloadBrains(s)
    BY <1>3 DEF ReloadIndexed
  <2>1. PICK t \in Tasks :
                /\ tasks' = [tasks EXCEPT ![s] = t] /\ t.op = tasks[s].op
                /\ t.at = "indexed" /\ fleet' = fleet /\ stored'[active].saved = stored[active].saved
    BY <1>3, <2>0, ReloadBrainsEffect
  <2>2. BareFleet => BareFleet'
    BY <2>1 DEF BareFleet
  <2>3. tasks[s].at \in Prior
    BY <1>1 DEF Prior
  <2> QED
    BY <1>1, <2>1, <2>2, <2>3, RestoresResumed
<1> QED
  BY <1>2, <1>3

LEMMA RestoresFleet ==
    ASSUME StoreParameters, StoreTypes, Flight, Restores, NEW s \in Slots, ReloadFleet(s)
    PROVE  Restores'
<1>1. /\ active \in Projects /\ tasks[s].op \in Reloads /\ tasks[s].at = "fleet"
      /\ active' = active /\ failure' = failure /\ tasks[s].saved \in SavedFleets \cup {NoFleet}
  <2>1. tasks[s] \in Tasks
    BY DEF StoreTypes
  <2> QED
    BY <2>1, TaskFields, ReloadEffect, ReloadKeeps DEF ReloadStep, ReloadFleet
<1>2. Idle.op = "idle" /\ Idle.at = "idle" /\ active # NoProject
  BY <1>1, IdleType DEF StoreParameters
<1>3. \E t \in {Idle, Op(tasks[s].op, "default")} : tasks' = [tasks EXCEPT ![s] = t]
  BY DEF ReloadFleet, End, Resume
<1>4. PICK t \in {Idle, Op(tasks[s].op, "default")} : tasks' = [tasks EXCEPT ![s] = t]
  BY <1>3
<1>5. t.at \notin Prior \cup {"opened"} /\ (t = Idle \/ t.at = "default")
  BY <1>1, <1>2, <1>4, OpType DEF Reloads, Ops, Stages, Prior
<1>6. \A u \in Slots : tasks'[u] = IF u = s THEN t ELSE tasks[u]
  BY <1>4 DEF StoreTypes
(* The restore of initialize runs beside that of the loaded project alone.  *)
<1>7. ~Doubly'
  <2> SUFFICES ASSUME NEW x \in Slots, NEW y \in Slots,
                      At(x, {"initialize"}, {"opened"} \cup Prior)', At(y, {"reload"}, Prior)'
               PROVE  FALSE
    BY DEF Doubly
  <2>1. x # s /\ y # s /\ tasks'[x] = tasks[x] /\ tasks'[y] = tasks[y]
    BY <1>5, <1>6 DEF At
  <2>2. tasks[x].op = "initialize" /\ tasks[y].op = "reload"
    BY <2>1 DEF At
  <2>3. Apart(tasks[x], tasks[s]) /\ Apart(tasks[y], tasks[s])
    BY <2>1 DEF Flight
  <2> QED
    BY <1>1, <2>2, <2>3 DEF Apart, Beside, Reloads
<1>8. \A u \in Slots : u # s /\ tasks[u].at = "fleet" => Doubly
  <2> SUFFICES ASSUME NEW u \in Slots, u # s, tasks[u].at = "fleet" PROVE Doubly
    OBVIOUS
  <2>1. Apart(tasks[u], tasks[s]) /\ TaskSound(tasks[u])
    BY DEF Flight
  <2>2. tasks[u].op \notin {"idle", "switch"}
    BY <2>1 DEF TaskSound, StageOf
  <2>3. \/ (tasks[u].op = "initialize" /\ tasks[s].op = "reload")
        \/ (tasks[s].op = "initialize" /\ tasks[u].op = "reload")
    BY <1>1, <2>1, <2>2 DEF Apart, Beside, Reloads
  <2> QED
    BY <1>1, <2>3 DEF Doubly, At, Prior
<1>9. ASSUME Defaulted'
      PROVE  /\ BareFleet' /\ BareSaved(stored'[active].saved)
             /\ \A u \in Slots : tasks'[u].at = "fleet" => BareSaved(tasks'[u].saved)
  <2>1. CASE tasks[s].saved \in {NoFleet, <<>>}
    <3>1. PICK i \in Instances : fleet' = <<EmptyInstance(i)>> /\ stored' = Persisted(fleet')
      BY <1>2, <2>1 DEF ReloadFleet
    <3>2. EmptyInstance(i) \in Devices /\ EmptyInstance(i).brain = NoBrain
      BY EmptyType
    <3>3. fleet' \in Seq(Devices) /\ BareFleet'
      BY <3>1, <3>2 DEF BareFleet
    <3>4. CASE ~failure
      <4>1. stored'[active].saved = Snapshot(fleet')
        BY <1>1, <3>1, <3>3, <3>4, PersistedType
      <4>2. BareSaved(stored'[active].saved)
        BY <3>3, <4>1, SnapshotType DEF BareSaved, BareFleet
      <4>3. ASSUME NEW u \in Slots, tasks'[u].at = "fleet" PROVE BareSaved(tasks'[u].saved)
        <5>1. u # s /\ tasks'[u] = tasks[u]
          BY <1>5, <1>6, <4>3 DEF Prior
        <5>2. Doubly
          BY <1>8, <4>3, <5>1
        <5>3. tasks[u].saved = tasks[s].saved
          BY <1>1, <3>4, <4>3, <5>1, <5>2 DEF Restores
        <5> QED
          BY <2>1, <5>1, <5>3 DEF BareSaved
      <4> QED
        BY <3>3, <4>2, <4>3
    <3>5. CASE failure
      <4>1. tasks' = [tasks EXCEPT ![s] = Idle] /\ stored' = stored
        BY <2>1, <3>1, <3>5 DEF ReloadFleet, End, Persisted
      <4>2. \A u \in Slots : tasks'[u] = IF u = s THEN Idle ELSE tasks[u]
        BY <4>1 DEF StoreTypes
      <4>3. Defaulted
        BY <1>2, <1>9, <4>2 DEF Defaulted, At
      <4> QED
        BY <1>2, <3>3, <4>1, <4>2, <4>3 DEF Restores
    <3> QED
      BY <3>4, <3>5
  <2>2. CASE tasks[s].saved \notin {NoFleet, <<>>}
    <3>1. fleet' = Restored(tasks[s].saved, cache, keyVersion) /\ stored' = stored
          /\ tasks' = [tasks EXCEPT ![s] = Idle]
      BY <2>2 DEF ReloadFleet, End
    <3>2. \A u \in Slots : tasks'[u] = IF u = s THEN Idle ELSE tasks[u]
      BY <3>1 DEF StoreTypes
    <3>3. Defaulted
      BY <1>2, <1>9, <3>2 DEF Defaulted, At
    <3>4. BareSaved(tasks[s].saved) /\ BareSaved(stored[active].saved)
          /\ \A u \in Slots : tasks[u].at = "fleet" => BareSaved(tasks[u].saved)
      BY <1>1, <3>3 DEF Restores
    <3>5. BareFleet'
      <4> DEFINE saved == tasks[s].saved
      <4>1. saved \in SavedFleets /\ cache \in [Brains -> Nat] /\ keyVersion \in [Keys -> Nat]
        BY <1>1, <2>2 DEF StoreTypes
      <4>2. \A n \in DOMAIN saved : saved[n][2] = NoBrain
        BY <2>2, <3>4 DEF BareSaved
      <4>3. fleet' = Restored(saved, cache, keyVersion)
        BY <3>1
      <4> HIDE DEF saved
      <4>4. DOMAIN fleet' = DOMAIN saved
        BY <4>1, <4>3, RestoredType
      <4>5. \A n \in DOMAIN saved :
                 /\ saved[n][1] \in Instances
                 /\ fleet'[n] = IF saved[n][2] # NoBrain /\ cache[saved[n][2]] # 0
                       THEN Flashed(EmptyInstance(saved[n][1]), saved[n][2], cache, keyVersion)
                       ELSE EmptyInstance(saved[n][1])
        BY <4>1, <4>3, RestoredType
      <4>6. \A n \in DOMAIN saved : fleet'[n].brain = NoBrain
        BY <4>2, <4>5, EmptyType
      <4> QED
        BY <4>4, <4>6 DEF BareFleet
    <3> QED
      BY <1>2, <3>1, <3>2, <3>4, <3>5
  <2> QED
    BY <2>1, <2>2
<1> QED
  BY <1>1, <1>2, <1>7, <1>9 DEF Restores

LEMMA RestoresInit == StoreParameters /\ Init => Restores
<1> SUFFICES ASSUME StoreParameters, Init PROVE Restores
  OBVIOUS
<1>1. PICK i \in Instances : fleet = <<EmptyInstance(i)>>
  BY DEF Init
<1>2. EmptyInstance(i).brain = NoBrain
  BY EmptyType
<1>3. BareFleet
  BY <1>1, <1>2 DEF BareFleet
<1>4. Idle.op = "idle" /\ Idle.at = "idle" /\ Op("initialize", "open").at = "open"
  BY IdleType, OpType DEF Ops, Stages
<1>5. \A s \in Slots : tasks[s].at \in {"open", "idle"}
  BY <1>4 DEF Init
<1> QED
  BY <1>3, <1>5 DEF Restores, Doubly, Defaulted, At, Prior

LEMMA RestoresPage ==
    ASSUME StoreParameters, ReloadPage
    PROVE  Restores'
<1>1. PICK i \in Instances : fleet' = <<EmptyInstance(i)>>
  BY DEF ReloadPage
<1>2. EmptyInstance(i).brain = NoBrain
  BY EmptyType
<1>3. BareFleet'
  BY <1>1, <1>2 DEF BareFleet
<1>4. Idle.op = "idle" /\ Idle.at = "idle" /\ Op("initialize", "open").at = "open"
  BY IdleType, OpType DEF Ops, Stages
<1>5. \A s \in Slots : tasks'[s].at \in {"open", "idle"}
  BY <1>4 DEF ReloadPage
<1> QED
  BY <1>3, <1>5 DEF Restores, Doubly, Defaulted, At, Prior

(* The operations of the user but for a switch run alone.                   *)
LEMMA AloneTask ==
    ASSUME StoreTypes, Flight, NEW s \in Slots, tasks[s].op \in {"external", "add", "remove", "save", "rename"}
    PROVE  \A u \in Slots : u # s => tasks[u] = Idle
<1> SUFFICES ASSUME NEW u \in Slots, u # s PROVE tasks[u] = Idle
  OBVIOUS
<1>1. Apart(tasks[u], tasks[s]) /\ TaskSound(tasks[u])
  BY DEF Flight
<1> QED
  BY <1>1 DEF Apart, Beside, TaskSound

LEMMA RestoresEdited ==
    ASSUME StoreParameters, StoreTypes, Flight, Restores, NEW s \in Slots, Edits(s)
    PROVE  Restores'
<1>1. /\ active \in Projects /\ active' = active /\ failure' = failure
      /\ \E t \in Tasks : tasks' = [tasks EXCEPT ![s] = t] /\ GoesOn(s, t)
  BY EditEffect
<1>2. Idle \in Tasks /\ Idle.op = "idle" /\ Idle.at = "idle"
  BY IdleType
<1>3. CASE InitializeReload(s)
  <2>1. stored[active].index \in Seq(Brains) /\ <<>> \in Seq(Brains)
    BY <1>1, StoredType
  <2>2. PICK ids \in {stored[active].index, <<>>} :
           tasks' = [tasks EXCEPT ![s] = [Op("initialize", "index") EXCEPT !.ids = ids]]
    BY <1>3 DEF InitializeReload, Readings, Resume
  <2> DEFINE o == Op("initialize", "index")
             t == [o EXCEPT !.ids = ids]
  <2>3. o \in Tasks /\ o.op = "initialize" /\ o.at = "index"
    BY OpType DEF Ops, Stages
  <2>4. tasks' = [tasks EXCEPT ![s] = t] /\ tasks[s].op = "initialize" /\ tasks[s].at = "opened"
    BY <1>3, <2>2 DEF InitializeReload
  <2> HIDE DEF o
  <2>5. [o EXCEPT !.ids = ids] \in Tasks
    BY <2>1, <2>2, <2>3, WithIds
  <2>6. t.op = "initialize" /\ t.at = "index"
    BY <2>3 DEF Tasks
  <2>8. t \in Tasks
    BY <2>5
  <2> HIDE DEF t
  <2>9. BareFleet => BareFleet' /\ stored'[active].saved = stored[active].saved
    BY <1>3 DEF InitializeReload, BareFleet, host
  <2> QED
    BY <1>1, <2>4, <2>6, <2>8, <2>9, RestoresResumed DEF Prior
<1>4. CASE SwitchDone(s)
  <2>1. tasks' = [tasks EXCEPT ![s] = Idle]
    BY <1>4, SwitchEnds DEF End
  <2>2. BareFleet => BareFleet' /\ stored'[active].saved = stored[active].saved
    BY <1>4 DEF SwitchDone, BareFleet, host
  <2>3. Idle.at \notin Prior
    BY <1>2 DEF Prior
  <2> QED
    BY <1>1, <1>2, <2>1, <2>2, <2>3, RestoresResumed
<1>5. CASE ~InitializeReload(s) /\ ~SwitchDone(s)
  <2>1. tasks[s].op \in {"external", "add", "remove", "save", "rename"}
    BY <1>5 DEF Edits, CompareFleet, AddIndexed, AddListed, RemoveIndexed, RemoveUnflash, SaveReflash, RenameListed
  <2>2. \A u \in Slots : u # s => tasks'[u] = Idle
    BY <1>1, <2>1, AloneTask DEF StoreTypes
  <2>3. PICK t \in Tasks : tasks' = [tasks EXCEPT ![s] = t] /\ GoesOn(s, t)
    BY <1>1
  <2>4. tasks'[s] = t
    BY <2>3 DEF StoreTypes
  <2>5. t.op # "initialize"
    BY <1>2, <2>1, <2>3 DEF GoesOn
  <2>6. t.at # "default"
    <3>1. CASE CompareFleet(s)
      <4>1. tasks'[s] = Idle \/ tasks'[s] = [tasks[s] EXCEPT !.at = "fleet", !.saved = stored[active].saved]
        BY <3>1 DEF CompareFleet, Resume, End, StoreTypes
      <4>2. tasks[s] \in Tasks
        BY DEF StoreTypes
      <4>3. [tasks[s] EXCEPT !.at = "fleet", !.saved = stored[active].saved].at = "fleet"
        BY <4>2 DEF Tasks
      <4> QED
        BY <1>2, <2>4, <4>1, <4>3
    <3>2. CASE ~CompareFleet(s)
      <4>1. tasks[s].op \in {"add", "remove", "save", "rename"}
        BY <1>5, <3>2 DEF Edits, AddIndexed, AddListed, RemoveIndexed, RemoveUnflash, SaveReflash, RenameListed
      <4> QED
        BY <1>2, <2>3, <4>1 DEF GoesOn, StageOf
    <3> QED
      BY <3>1, <3>2
  <2> QED
    BY <1>1, <2>2, <2>4, <2>5, <2>6, RestoresAlone
<1> QED
  BY <1>3, <1>4, <1>5

LEMMA RestoresDefault ==
    ASSUME StoreParameters, StoreTypes, Flight, Restores, NEW s \in Slots, ReloadDefault(s)
    PROVE  Restores'
<1>1. /\ active \in Projects /\ active' = active /\ failure' = failure
  BY ReloadEffect DEF ReloadStep, ReloadDefault, host
<1>2. Idle \in Tasks /\ Idle.op = "idle" /\ Idle.at \notin Prior \cup {"opened", "default"}
  BY IdleType DEF Prior
<1>3. tasks' = [tasks EXCEPT ![s] = Idle]
  BY DEF ReloadDefault, End
<1>4. BareFleet => BareFleet' /\ stored'[active].saved = stored[active].saved
  BY DEF ReloadDefault, BareFleet, host
<1> QED
  BY <1>1, <1>2, <1>3, <1>4, RestoresResumed DEF Prior

LEMMA RestoresStarted ==
    ASSUME StoreParameters, StoreTypes, active \in Projects, active' = active, \A u \in Slots : tasks[u] = Idle,
           NEW n \in Slots, NEW t \in Tasks, tasks' = [tasks EXCEPT ![n] = t],
           t.op # "initialize", t.at # "default"
    PROVE  Restores'
<1>1. \A u \in Slots : tasks'[u] = IF u = n THEN t ELSE Idle
  BY DEF StoreTypes
<1> QED
  BY <1>1, RestoresAlone

LEMMA RestoresStep ==
    StoreParameters /\ Patient /\ StoreTypes /\ Flight /\ Records /\ Restores /\ [Next]_vars => Restores'
<1> SUFFICES ASSUME StoreParameters, Patient, StoreTypes, Flight, Records, Restores, [Next]_vars PROVE Restores'
  OBVIOUS
<1>0. Idle \in Tasks /\ Idle.op = "idle" /\ Idle.at = "idle"
  BY IdleType
<1>1. CASE (\E n \in DOMAIN fleet : FiberFault(n)) \/ (\E ks \in SUBSET Keys \ {{}} : Compile(ks)) \/ UNCHANGED vars
  <2>1. UNCHANGED <<active, failure, fleet, tasks, stored>>
    BY <1>1 DEF FiberFault, Compile, vars, host
  <2>2. BareFleet' = BareFleet /\ Doubly' = Doubly /\ Defaulted' = Defaulted
    BY <2>1 DEF BareFleet, Doubly, Defaulted, At
  <2> QED
    BY <2>1, <2>2 DEF Restores, BareSaved
<1>2. ASSUME NEW s \in Slots, Resumes(s) PROVE Restores'
  <2>1. CASE (\E p \in Projects : InitializeOpen(s, p)) \/ SwitchLoaded(s)
    BY <2>1, RestoresLoaded
  <2>2. CASE ReloadStep(s)
    BY <2>2, RestoresBrains, RestoresFleet, RestoresDefault DEF ReloadStep
  <2>3. CASE Edits(s)
    BY <2>3, RestoresEdited
  <2> QED
    BY <1>2, <2>1, <2>2, <2>3 DEF Resumes, Edits
<1>3. CASE ProjectAct
  <2>1. PICK p \in Projects : CreateProject(p) \/ SwitchProject(p) \/ \E seed \in Seeds[p] : ImportProject(p, seed)
    BY <1>3 DEF ProjectAct
  <2>2. active \in Projects /\ active' = active /\ \A u \in Slots : tasks[u] = Idle
    BY <2>1, ProjectActEffect
  <2>3. PICK n \in Slots, t \in Tasks : tasks' = [tasks EXCEPT ![n] = t] /\ t.op = "switch" /\ t.at = "open"
    BY <2>1, ProjectActEffect
  <2> QED
    BY <2>2, <2>3, RestoresStarted
<1>4. CASE BrainAct
  <2>1. PICK b \in Brains :
           AddBrain(b) \/ ImportBrain(b) \/ RemoveBrain(b) \/ SaveBrain(b) \/ RenameBrain(b) \/ ExternalEdit(b)
    BY <1>4 DEF BrainAct
  <2>2. CASE ExternalEdit(b)
    <3>1. active \in Projects /\ active' = active /\ \A u \in Slots : tasks[u] = Idle
      BY <2>2, ExternalEffect
    <3>2. PICK n \in Slots, t \in Tasks : tasks' = [tasks EXCEPT ![n] = t] /\ t.op = "external" /\ t.at = "index"
      BY <2>2, ExternalEffect
    <3> QED
      BY <3>1, <3>2, RestoresStarted
  <2>3. CASE AddBrain(b) \/ ImportBrain(b) \/ RemoveBrain(b) \/ SaveBrain(b) \/ RenameBrain(b)
    <3>1. active \in Projects /\ active' = active /\ \A u \in Slots : tasks[u] = Idle
      BY <2>3, BrainActEffect
    <3>2. PICK n \in Slots, t \in Tasks : tasks' = [tasks EXCEPT ![n] = t] /\ t.at = "record"
                                          /\ t.op \in {"add", "remove", "save", "rename"}
      BY <2>3, BrainActEffect
    <3> QED
      BY <3>1, <3>2, RestoresStarted
  <2> QED
    BY <2>1, <2>2, <2>3
<1>5. CASE FleetAct \/ ToggleBridge
  <2>1. tasks' = tasks /\ UserActs /\ active' = active
    BY <1>5 DEF FleetAct, AddInstance, RemoveInstance, ResetInstance, FlashBrain, ToggleBridge
  <2>2. active \in Projects /\ \A u \in Slots : tasks[u] = Idle
    BY <2>1, UserQuiet
  <2>3. PICK n \in Slots : TRUE
    BY DEF StoreParameters
  <2>4. \A u \in Slots : tasks'[u] = Idle
    BY <2>1, <2>2
  <2> QED
    BY <1>0, <2>1, <2>2, <2>3, <2>4, RestoresAlone
<1>6. CASE Flush
  BY <1>6, RestoresFlushed
<1>7. CASE ReloadPage
  BY <1>7, RestoresPage
<1> QED
  BY <1>1, <1>2, <1>3, <1>4, <1>5, <1>6, <1>7 DEF Next

-----------------------------------------------------------------------------
(* What the devices run.                                                    *)

(* What a task will still do to the devices of a brain.                     *)
Excuses(t, b) ==
    \/ t.op = "reload" /\ t.at \in Prior
    \/ t.op = "remove" /\ t.brain = b
    \/ t.op = "external" /\ t.at \in {"index", "indexed"} /\ b \in t.removed
Renews(t, b) ==
    \/ t.op = "save" /\ t.brain = b
    \/ t.op = "external" /\ t.at \in {"index", "indexed"} /\ b \in t.changed
Due(b) == armed /\ Uses[b] \cap pendingKeys # {}
(* Why a device may not run the latest build: it is to be replaced,         *)
(* emptied, or flashed again by a task or by the reflash timer.             *)
Latest(d) ==
    \/ d.brain = NoBrain
    \/ \E s \in Slots : Excuses(tasks[s], d.brain)
    \/ /\ Cached(d.brain)
       /\ \/ d = Flashed(d, d.brain, cache, keyVersion)
          \/ Due(d.brain)
          \/ \E s \in Slots : Renews(tasks[s], d.brain)
Flashes == \A n \in DOMAIN fleet : Latest(fleet[n])

(* A flash depends on the definition of its brain, and on the versions of   *)
(* the user actions that brain uses.                                        *)
LEMMA FlashedSame ==
    ASSUME StoreParameters, NEW d, NEW b \in Brains, NEW defs, NEW versions, NEW defs2, NEW versions2,
           defs[b] = defs2[b], \A k \in Uses[b] : versions[k] = versions2[k]
    PROVE  Flashed(d, b, defs, versions) = Flashed(d, b, defs2, versions2)
<1>1. Builds(b, versions) = Builds(b, versions2) /\ LoadsOn(b, versions) = LoadsOn(b, versions2)
  BY DEF Builds, LoadsOn
<1>2. [k \in Uses[b] |-> versions[k]] = [k \in Uses[b] |-> versions2[k]]
  OBVIOUS
<1>3. ImageOf(b, defs, versions) = ImageOf(b, defs2, versions2)
  BY <1>2 DEF ImageOf
<1> QED
  BY <1>1, <1>3 DEF Flashed

(* A second flash of the same brain changes nothing.                        *)
LEMMA FlashedTwice ==
    ASSUME NEW d \in Devices, NEW b \in Brains, NEW defs, NEW versions
    PROVE  Flashed(Flashed(d, b, defs, versions), b, defs, versions) = Flashed(d, b, defs, versions)
<1> DEFINE ok == Builds(b, versions) /\ LoadsOn(b, versions)
           status == IF ok THEN "loaded" ELSE "failed"
           image == IF ok THEN ImageOf(b, defs, versions) ELSE NoImage
           f == [d EXCEPT !.status = status, !.brain = b, !.image = image]
<1>1. \A x : Flashed(x, b, defs, versions) = [x EXCEPT !.status = status, !.brain = b, !.image = image]
  BY DEF Flashed
<1> HIDE DEF status, image
<1> HIDE DEF ok
<1>2. /\ DOMAIN d = {"id", "status", "brain", "image"}
      /\ d = [x \in {"id", "status", "brain", "image"} |-> d[x]]
  BY DEF Devices
<1>3. [f EXCEPT !.status = status, !.brain = b, !.image = image] = f
  BY <1>2
<1>4. Flashed(d, b, defs, versions) = f
  BY <1>1 DEF f
<1> QED
  BY <1>1, <1>3, <1>4

LEMMA IdleExcuses == \A b : ~Excuses(Idle, b) /\ ~Renews(Idle, b)
  BY IdleType DEF Excuses, Renews

(* A device after a step: it is bare, has just been flashed, or keeps the   *)
(* reason it had, through the task t that slot s goes on with.              *)
Accounted(n, s, t) ==
    \/ fleet'[n].brain = NoBrain
    \/ Cached(fleet'[n].brain) /\ fleet'[n] = Flashed(fleet'[n], fleet'[n].brain, cache, keyVersion)
    \/ \E m \in DOMAIN fleet :
          /\ fleet'[n] = fleet[m]
          /\ Excuses(tasks[s], fleet[m].brain) => Excuses(t, fleet[m].brain)
          /\ Cached(fleet[m].brain) /\ Renews(tasks[s], fleet[m].brain) => Renews(t, fleet[m].brain)
          /\ Cached(fleet[m].brain) /\ Due(fleet[m].brain) => armed' /\ Uses[fleet[m].brain] \cap pendingKeys' # {}

(* One task goes on or ends, and every device is new or keeps its reason.   *)
LEMMA FlashesResumed ==
    ASSUME StoreParameters, StoreTypes, Flashes, NEW s \in Slots, NEW t, tasks' = [tasks EXCEPT ![s] = t],
           cache' = cache, keyVersion' = keyVersion,
           \A n \in DOMAIN fleet' : Accounted(n, s, t)
    PROVE  Flashes'
<1>1. \A u \in Slots : tasks'[u] = IF u = s THEN t ELSE tasks[u]
  BY DEF StoreTypes
<1> SUFFICES ASSUME NEW n \in DOMAIN fleet' PROVE Latest(fleet[n])'
  BY DEF Flashes
<1>2. CASE fleet'[n].brain = NoBrain
  BY <1>2 DEF Latest
<1>3. CASE Cached(fleet'[n].brain) /\ fleet'[n] = Flashed(fleet'[n], fleet'[n].brain, cache, keyVersion)
  BY <1>3 DEF Latest, Cached
<1>4. ASSUME NEW m \in DOMAIN fleet,
             fleet'[n] = fleet[m],
             Excuses(tasks[s], fleet[m].brain) => Excuses(t, fleet[m].brain),
             Cached(fleet[m].brain) /\ Renews(tasks[s], fleet[m].brain) => Renews(t, fleet[m].brain),
             Cached(fleet[m].brain) /\ Due(fleet[m].brain) => armed' /\ Uses[fleet[m].brain] \cap pendingKeys' # {}
      PROVE  Latest(fleet[n])'
  <2> DEFINE b == fleet[m].brain
  <2>0. b \in Brains \cup {NoBrain} /\ fleet[m].brain = b
    BY DeviceFields DEF StoreTypes
  <2>1. Latest(fleet[m])
    BY DEF Flashes
  <2>2. PICK c \in Brains \cup {NoBrain} : c = b
    BY <2>0
  <2>3. /\ fleet'[n].brain = c
        /\ Excuses(tasks[s], c) => Excuses(t, c)
        /\ Cached(c) /\ Renews(tasks[s], c) => Renews(t, c)
        /\ Cached(c) /\ Due(c) => Due(c)'
    BY <1>4, <2>2 DEF Due
  <2>4. ASSUME NEW u \in Slots, Excuses(tasks[u], c) PROVE \E v \in Slots : Excuses(tasks'[v], c)
    BY <1>1, <2>3, <2>4
  <2>5. ASSUME NEW u \in Slots, Cached(c), Renews(tasks[u], c) PROVE \E v \in Slots : Renews(tasks'[v], c)
    BY <1>1, <2>3, <2>5
  <2>6. Cached(c)' = Cached(c)
    BY DEF Cached
  <2> HIDE DEF b
  <2>7. \/ c = NoBrain
        \/ \E u \in Slots : Excuses(tasks[u], c)
        \/ Cached(c) /\ \/ fleet[m] = Flashed(fleet[m], c, cache, keyVersion)
                        \/ Due(c)
                        \/ \E u \in Slots : Renews(tasks[u], c)
    BY <2>0, <2>1, <2>2 DEF Latest
  <2>8. \/ c = NoBrain
        \/ \E u \in Slots : Excuses(tasks'[u], c)
        \/ Cached(c)' /\ \/ fleet'[n] = Flashed(fleet'[n], c, cache', keyVersion')
                         \/ Due(c)'
                         \/ \E u \in Slots : Renews(tasks'[u], c)
    BY <1>4, <2>3, <2>4, <2>5, <2>6, <2>7
  <2> QED
    BY <2>3, <2>8 DEF Latest, Cached, Due
<1> QED
  BY <1>2, <1>3, <1>4 DEF Accounted

(* A device that is flashed now runs what a flash would give it.            *)
LEMMA FlashedFresh ==
    ASSUME StoreParameters, StoreTypes, NEW d \in Devices, NEW b \in Brains
    PROVE  LET f == Flashed(d, b, cache, keyVersion) IN
           f.brain = b /\ f = Flashed(f, f.brain, cache, keyVersion)
<1>0. cache \in [Brains -> Nat] /\ keyVersion \in [Keys -> Nat]
  BY DEF StoreTypes
<1>1. Flashed(d, b, cache, keyVersion).brain = b
  BY <1>0, FlashedType
<1>2. Flashed(Flashed(d, b, cache, keyVersion), b, cache, keyVersion) = Flashed(d, b, cache, keyVersion)
  BY FlashedTwice
<1> QED
  BY <1>1, <1>2

LEMMA FlashesBrains ==
    ASSUME StoreParameters, StoreTypes, Flashes, NEW s \in Slots, active \in Projects, AfterBrains(s),
           tasks[s].op \in Reloads, tasks[s].at \in {"index", "indexed"},
           cache' = cache, keyVersion' = keyVersion, pendingKeys' = pendingKeys, armed' = armed
    PROVE  Flashes'
<1>1. PICK t \in Tasks :
             /\ tasks' = [tasks EXCEPT ![s] = t] /\ t.op = tasks[s].op
             /\ t.at = IF tasks[s].op = "external" THEN "compare" ELSE "fleet"
  BY AfterBrainsTask
<1>2. tasks[s].removed \in SUBSET Brains /\ tasks[s].changed \in SUBSET Brains
  BY TaskFields DEF StoreTypes
<1>3. DOMAIN fleet' = DOMAIN fleet
  BY AfterBrainsEffect
<1>4. \A n \in DOMAIN fleet :
            fleet'[n] = IF fleet[n].brain \in tasks[s].removed THEN EmptyInstance(fleet[n].id)
                        ELSE IF fleet[n].brain \in tasks[s].changed \cap CachedSet
                        THEN Flashed(fleet[n], fleet[n].brain, cache, keyVersion) ELSE fleet[n]
  BY AfterBrainsEffect
<1>5. ASSUME NEW n \in DOMAIN fleet'
      PROVE  Accounted(n, s, t)
  <2>0. n \in DOMAIN fleet /\ fleet[n] \in Devices /\ fleet[n].id \in Instances /\ fleet[n].brain \in Brains \cup {NoBrain}
    BY <1>3, DeviceFields DEF StoreTypes
  <2>1. CASE fleet[n].brain \in tasks[s].removed
    BY <1>4, <2>0, <2>1, EmptyType DEF Accounted
  <2>2. CASE fleet[n].brain \notin tasks[s].removed /\ fleet[n].brain \in tasks[s].changed \cap CachedSet
    <3>1. fleet'[n] = Flashed(fleet[n], fleet[n].brain, cache, keyVersion)
      BY <1>4, <2>0, <2>2
    <3>2. fleet[n].brain \in Brains /\ Cached(fleet[n].brain)
      BY <1>2, <2>2 DEF CachedSet
    <3>3. fleet'[n].brain = fleet[n].brain /\ fleet'[n] = Flashed(fleet'[n], fleet'[n].brain, cache, keyVersion)
      BY <2>0, <3>1, <3>2, FlashedFresh
    <3> QED
      BY <3>2, <3>3 DEF Accounted
  <2>3. CASE fleet[n].brain \notin tasks[s].removed /\ fleet[n].brain \notin tasks[s].changed \cap CachedSet
    <3>1. fleet'[n] = fleet[n]
      BY <1>4, <2>0, <2>3
    <3>2. Excuses(tasks[s], fleet[n].brain) => Excuses(t, fleet[n].brain)
      BY <1>1, <2>3 DEF Excuses, Reloads, Prior
    <3>3. Cached(fleet[n].brain) /\ Renews(tasks[s], fleet[n].brain) => FALSE
      BY <1>2, <2>3 DEF Renews, Reloads, CachedSet
    <3>4. Due(fleet[n].brain) => armed' /\ Uses[fleet[n].brain] \cap pendingKeys' # {}
      BY DEF Due
    <3> QED
      BY <2>0, <3>1, <3>2, <3>3, <3>4 DEF Accounted
  <2> QED
    BY <2>1, <2>2, <2>3
<1> QED
  BY <1>1, <1>5, FlashesResumed

(* A step that leaves the devices as they are, or empties some.             *)
LEMMA FlashesStay ==
    ASSUME StoreParameters, StoreTypes, Flashes, NEW s \in Slots, NEW t, tasks' = [tasks EXCEPT ![s] = t],
           cache' = cache, keyVersion' = keyVersion, pendingKeys' = pendingKeys, armed' = armed,
           fleet' = fleet,
           \A b \in Brains : /\ Excuses(tasks[s], b) => Excuses(t, b)
                             /\ Renews(tasks[s], b) => Renews(t, b)
    PROVE  Flashes'
<1>1. ASSUME NEW n \in DOMAIN fleet'
      PROVE  Accounted(n, s, t)
  <2>1. n \in DOMAIN fleet /\ fleet[n].brain \in Brains \cup {NoBrain} /\ fleet'[n] = fleet[n]
    BY DeviceFields DEF StoreTypes
  <2>2. Due(fleet[n].brain) => armed' /\ Uses[fleet[n].brain] \cap pendingKeys' # {}
    BY DEF Due
  <2> QED
    BY <2>1, <2>2 DEF Accounted
<1> QED
  BY <1>1, FlashesResumed

LEMMA FlashesReloadBrains ==
    ASSUME StoreParameters, StoreTypes, Flight, Flashes, NEW s \in Slots, ReloadBrains(s) \/ ReloadIndexed(s)
    PROVE  Flashes'
<1>1. /\ active \in Projects /\ tasks[s].op \in Reloads /\ tasks[s].at \in {"index", "indexed"}
      /\ cache' = cache /\ keyVersion' = keyVersion /\ pendingKeys' = pendingKeys /\ armed' = armed
  BY ReloadEffect, ReloadKeeps DEF ReloadStep, ReloadBrains, ReloadIndexed, reflasher
<1>2. CASE AfterBrains(s)
  BY <1>1, <1>2, FlashesBrains
<1>3. CASE ~AfterBrains(s)
  <2>1. ReloadBrains(s)
    BY <1>3 DEF ReloadIndexed
  <2>2. PICK t \in Tasks :
                /\ tasks' = [tasks EXCEPT ![s] = t] /\ t.op = tasks[s].op
                /\ t.at = "indexed" /\ fleet' = fleet /\ t.changed = tasks[s].changed /\ t.removed = tasks[s].removed
    BY <1>3, <2>1, ReloadBrainsEffect
  <2>3. \A b \in Brains : /\ Excuses(tasks[s], b) => Excuses(t, b)
                          /\ Renews(tasks[s], b) => Renews(t, b)
    BY <1>1, <2>2 DEF Excuses, Renews, Prior, Reloads
  <2> QED
    BY <1>1, <2>2, <2>3, FlashesStay
<1> QED
  BY <1>2, <1>3

(* The whole fleet is new.                                                  *)
LEMMA FlashesNew ==
    ASSUME cache' = cache, keyVersion' = keyVersion,
           \A n \in DOMAIN fleet' :
              \/ fleet'[n].brain = NoBrain
              \/ Cached(fleet'[n].brain) /\ fleet'[n] = Flashed(fleet'[n], fleet'[n].brain, cache, keyVersion)
    PROVE  Flashes'
  BY DEF Flashes, Latest, Cached

LEMMA FlashesRestored ==
    ASSUME StoreParameters, StoreTypes, Flight, NEW s \in Slots, ReloadFleet(s)
    PROVE  Flashes'
<1>1. /\ cache' = cache /\ keyVersion' = keyVersion /\ tasks[s].saved \in SavedFleets \cup {NoFleet}
      /\ cache \in [Brains -> Nat] /\ keyVersion \in [Keys -> Nat]
  BY TaskFields DEF ReloadFleet, StoreTypes
<1>2. CASE tasks[s].saved \in {NoFleet, <<>>}
  <2>1. PICK i \in Instances : fleet' = <<EmptyInstance(i)>>
    BY <1>2 DEF ReloadFleet
  <2>2. EmptyInstance(i).brain = NoBrain
    BY EmptyType
  <2> QED
    BY <1>1, <2>1, <2>2, FlashesNew
<1>3. CASE tasks[s].saved \notin {NoFleet, <<>>}
  <2> DEFINE saved == tasks[s].saved
  <2>1. saved \in SavedFleets /\ fleet' = Restored(saved, cache, keyVersion)
    BY <1>1, <1>3 DEF ReloadFleet
  <2> HIDE DEF saved
  <2>2. DOMAIN fleet' = DOMAIN saved
    BY <1>1, <2>1, RestoredType
  <2>3. \A n \in DOMAIN saved :
           /\ saved[n][1] \in Instances /\ saved[n][2] \in Brains \cup {NoBrain}
           /\ fleet'[n] = IF saved[n][2] # NoBrain /\ cache[saved[n][2]] # 0
                          THEN Flashed(EmptyInstance(saved[n][1]), saved[n][2], cache, keyVersion)
                          ELSE EmptyInstance(saved[n][1])
    BY <1>1, <2>1, RestoredType
  <2>4. ASSUME NEW n \in DOMAIN fleet'
        PROVE  \/ fleet'[n].brain = NoBrain
               \/ Cached(fleet'[n].brain) /\ fleet'[n] = Flashed(fleet'[n], fleet'[n].brain, cache, keyVersion)
    <3>1. PICK i \in Instances, b \in Brains \cup {NoBrain} : i = saved[n][1] /\ b = saved[n][2]
      BY <2>2, <2>3
    <3>2. EmptyInstance(i) \in Devices /\ EmptyInstance(i).brain = NoBrain
      BY EmptyType
    <3>3. CASE b # NoBrain /\ cache[b] # 0
      <4>1. fleet'[n] = Flashed(EmptyInstance(i), b, cache, keyVersion)
        BY <2>2, <2>3, <3>1, <3>3
      <4>2. fleet'[n].brain = b /\ fleet'[n] = Flashed(fleet'[n], fleet'[n].brain, cache, keyVersion)
        BY <3>2, <3>3, <4>1, FlashedFresh
      <4> QED
        BY <3>3, <4>2 DEF Cached
    <3>4. CASE ~(b # NoBrain /\ cache[b] # 0)
      <4>1. fleet'[n] = EmptyInstance(i)
        BY <2>2, <2>3, <3>1, <3>4
      <4> QED
        BY <3>2, <4>1
    <3> QED
      BY <3>3, <3>4
  <2> QED
    BY <1>1, <2>4, FlashesNew
<1> QED
  BY <1>2, <1>3

(* The brain list is never reloaded into its default while a device runs.   *)
LEMMA FlashesDefault ==
    ASSUME StoreParameters, StoreTypes, Flight, Restores, NEW s \in Slots, ReloadDefault(s)
    PROVE  Flashes'
<1>1. BareFleet
  BY DEF ReloadDefault, Restores, Defaulted, At
<1>2. fleet' = fleet /\ cache' = cache /\ keyVersion' = keyVersion
  BY DEF ReloadDefault, host
<1> QED
  BY <1>1, <1>2, FlashesNew DEF BareFleet

(* An operation of the user starts: it tells what it will do to the devices *)
(* of the brains whose definition it changed.                               *)
LEMMA FlashesStarted ==
    ASSUME StoreParameters, StoreTypes, Flashes, \A u \in Slots : tasks[u] = Idle,
           NEW s \in Slots, NEW t, tasks' = [tasks EXCEPT ![s] = t],
           fleet' = fleet, keyVersion' = keyVersion, pendingKeys' = pendingKeys, armed' = armed,
           \A b \in Brains : cache'[b] = cache[b] \/ cache[b] = 0 \/ Excuses(t, b) \/ (cache'[b] # 0 /\ Renews(t, b))
    PROVE  Flashes'
<1> SUFFICES ASSUME NEW n \in DOMAIN fleet' PROVE Latest(fleet[n])'
  BY DEF Flashes
<1>1. tasks'[s] = t
  BY DEF StoreTypes
<1>2. n \in DOMAIN fleet /\ fleet'[n] = fleet[n] /\ fleet[n].brain \in Brains \cup {NoBrain}
  BY DeviceFields DEF StoreTypes
<1>3. CASE fleet[n].brain = NoBrain
  BY <1>2, <1>3 DEF Latest
<1>4. CASE fleet[n].brain # NoBrain
  <2>1. PICK b \in Brains : fleet[n].brain = b
    BY <1>2, <1>4
  <2>2. Cached(b) /\ (fleet[n] = Flashed(fleet[n], b, cache, keyVersion) \/ Due(b))
    <3>1. Latest(fleet[n])
      BY <1>2 DEF Flashes
    <3> QED
      BY <1>4, <2>1, <3>1, IdleExcuses DEF Latest
  <2>3. CASE Excuses(t, b)
    BY <1>1, <1>2, <2>1, <2>3 DEF Latest
  <2>4. CASE cache'[b] # 0 /\ Renews(t, b)
    BY <1>1, <1>2, <2>1, <2>4 DEF Latest, Cached
  <2>5. CASE cache'[b] = cache[b]
    <3>1. Flashed(fleet[n], b, cache, keyVersion) = Flashed(fleet[n], b, cache', keyVersion)
      BY <2>5, FlashedSame
    <3>2. Cached(b)' /\ (fleet'[n] = Flashed(fleet'[n], b, cache', keyVersion') \/ Due(b)')
      BY <1>2, <2>2, <2>5, <3>1 DEF Cached, Due
    <3> QED
      BY <1>2, <2>1, <3>2 DEF Latest, Cached, Due
  <2> QED
    BY <2>2, <2>3, <2>4, <2>5 DEF Cached
<1> QED
  BY <1>3, <1>4

LEMMA FlashesEdited ==
    ASSUME StoreParameters, StoreTypes, Flight, Flashes, NEW s \in Slots, Edits(s)
    PROVE  Flashes'
<1>1. cache' = cache /\ keyVersion' = keyVersion /\ pendingKeys' = pendingKeys /\ armed' = armed
  BY EditEffect DEF Edits, InitializeReload, SwitchDone, CompareFleet, AddIndexed, AddListed, RemoveIndexed, RemoveUnflash,
     SaveReflash, RenameListed, reflasher
<1>2. tasks[s] \in Tasks /\ fleet \in Seq(Devices) /\ cache \in [Brains -> Nat] /\ keyVersion \in [Keys -> Nat]
  BY DEF StoreTypes
<1>3. CASE RemoveIndexed(s)
  <2> DEFINE t == [tasks[s] EXCEPT !.at = "index"]
  <2>1. tasks' = [tasks EXCEPT ![s] = t] /\ fleet' = fleet /\ tasks[s].op = "remove"
    BY <1>3 DEF RemoveIndexed, Resume
  <2>2. t.op = tasks[s].op /\ t.brain = tasks[s].brain
    BY <1>2 DEF Tasks
  <2> HIDE DEF t
  <2>3. \A b \in Brains : /\ Excuses(tasks[s], b) => Excuses(t, b)
                          /\ Renews(tasks[s], b) => Renews(t, b)
    BY <2>1, <2>2 DEF Excuses, Renews
  <2> QED
    BY <1>1, <2>1, <2>3, FlashesStay
<1>4. CASE RemoveUnflash(s)
  <2>1. /\ tasks' = [tasks EXCEPT ![s] = Idle] /\ tasks[s].op = "remove"
        /\ fleet' = Unflashed(fleet, {tasks[s].brain})
    BY <1>4 DEF RemoveUnflash, End
  <2>2. DOMAIN fleet' = DOMAIN fleet
        /\ \A n \in DOMAIN fleet :
              fleet'[n] = IF fleet[n].brain \in {tasks[s].brain} THEN EmptyInstance(fleet[n].id) ELSE fleet[n]
    BY <1>2, <2>1, UnflashedType
  <2>3. ASSUME NEW n \in DOMAIN fleet' PROVE Accounted(n, s, Idle)
    <3>1. n \in DOMAIN fleet /\ fleet[n].id \in Instances
      BY <1>2, <2>2, DeviceFields
    <3>2. CASE fleet[n].brain = tasks[s].brain
      BY <2>2, <3>1, <3>2, EmptyType DEF Accounted
    <3>3. CASE fleet[n].brain # tasks[s].brain
      <4>1. fleet'[n] = fleet[n] /\ ~Excuses(tasks[s], fleet[n].brain) /\ ~Renews(tasks[s], fleet[n].brain)
        BY <2>1, <2>2, <3>1, <3>3 DEF Excuses, Renews
      <4> QED
        BY <1>1, <3>1, <4>1 DEF Accounted, Due
    <3> QED
      BY <3>2, <3>3
  <2> QED
    BY <1>1, <2>1, <2>3, FlashesResumed
<1>5. CASE SaveReflash(s)
  <2> DEFINE bs == {tasks[s].brain} \cap CachedSet
  <2>1. /\ tasks' = [tasks EXCEPT ![s] = Idle] /\ tasks[s].op = "save"
        /\ fleet' = Reflashed(fleet, bs, cache, keyVersion)
    BY <1>5 DEF SaveReflash, End
  <2>2. \A b \in bs : b \in Brains /\ Cached(b)
    BY DEF CachedSet
  <2>0. bs \in SUBSET Brains /\ fleet' = Reflashed(fleet, bs, cache, keyVersion)
    BY <2>1, <2>2
  <2>3. ASSUME NEW b \in Brains, Cached(b), Renews(tasks[s], b) PROVE b \in bs
    <3>1. tasks[s].brain = b
      BY <2>1, <2>3 DEF Renews
    <3> QED
      BY <2>3, <3>1 DEF CachedSet
  <2> HIDE DEF bs
  <2>4. DOMAIN fleet' = DOMAIN fleet
    BY <1>2, <2>0, ReflashedType
  <2>5. \A n \in DOMAIN fleet :
           fleet'[n] = IF fleet[n].brain \in bs THEN Flashed(fleet[n], fleet[n].brain, cache, keyVersion) ELSE fleet[n]
    BY <1>2, <2>0, ReflashedType
  <2>6. ASSUME NEW n \in DOMAIN fleet' PROVE Accounted(n, s, Idle)
    <3>1. n \in DOMAIN fleet /\ fleet[n] \in Devices /\ fleet[n].brain \in Brains \cup {NoBrain}
      BY <1>2, <2>4, DeviceFields
    <3>2. CASE fleet[n].brain \in bs
      <4>1. fleet'[n] = Flashed(fleet[n], fleet[n].brain, cache, keyVersion) /\ fleet[n].brain \in Brains
        BY <2>2, <2>5, <3>1, <3>2
      <4>2. fleet'[n].brain = fleet[n].brain /\ fleet'[n] = Flashed(fleet'[n], fleet'[n].brain, cache, keyVersion)
        BY <3>1, <4>1, FlashedFresh
      <4> QED
        BY <2>2, <3>2, <4>2 DEF Accounted
    <3>3. CASE fleet[n].brain \notin bs
      <4>1. fleet'[n] = fleet[n] /\ ~Excuses(tasks[s], fleet[n].brain)
        BY <2>1, <2>5, <3>1, <3>3 DEF Excuses
      <4>2. fleet[n].brain = NoBrain \/ ~(Cached(fleet[n].brain) /\ Renews(tasks[s], fleet[n].brain))
        BY <2>3, <3>1, <3>3
      <4> QED
        BY <1>1, <3>1, <4>1, <4>2 DEF Accounted, Due
    <3> QED
      BY <3>2, <3>3
  <2> QED
    BY <1>1, <2>1, <2>6, FlashesResumed
<1>6. CASE ~RemoveIndexed(s) /\ ~RemoveUnflash(s) /\ ~SaveReflash(s)
  <2>1. PICK t \in Tasks : tasks' = [tasks EXCEPT ![s] = t]
    BY EditEffect
  <2>2. fleet' = fleet /\ \A b \in Brains : ~Excuses(tasks[s], b) /\ ~Renews(tasks[s], b)
    BY <1>6 DEF Edits, InitializeReload, SwitchDone, CompareFleet, AddIndexed, AddListed, RenameListed, Excuses, Renews
  <2> QED
    BY <1>1, <2>1, <2>2, FlashesStay
<1> QED
  BY <1>3, <1>4, <1>5, <1>6

LEMMA FlashesLoaded ==
    ASSUME StoreParameters, StoreTypes, Flight, NEW s \in Slots,
           (\E p \in Projects : InitializeOpen(s, p)) \/ SwitchLoaded(s)
    PROVE  Flashes'
<1>1. PICK n \in Slots, ids \in Seq(Brains), t \in Tasks :
             n # s /\ tasks' = [tasks EXCEPT ![n] = ReloadTask(ids), ![s] = t]
  BY LoadingEffect
<1>2. tasks'[n] = ReloadTask(ids)
  BY <1>1 DEF StoreTypes
<1>3. ReloadTask(ids).op = "reload" /\ ReloadTask(ids).at = "index"
  BY OpType, WithIds DEF ReloadTask, Ops, Stages
<1>4. \A b : Excuses(tasks'[n], b)
  BY <1>2, <1>3 DEF Excuses, Prior
<1> QED
  BY <1>4 DEF Flashes, Latest

(* No task changes.                                                         *)
LEMMA FlashesShown ==
    ASSUME StoreParameters, StoreTypes, Flashes, tasks' = tasks, cache' = cache, keyVersion' = keyVersion,
           NEW s \in Slots, \A n \in DOMAIN fleet' : Accounted(n, s, tasks[s])
    PROVE  Flashes'
<1>1. tasks' = [tasks EXCEPT ![s] = tasks[s]]
  BY DEF StoreTypes
<1> QED
  BY <1>1, FlashesResumed

(* The user's operations on the fleet: a device is new, flashed, or as it   *)
(* was.                                                                     *)
LEMMA FlashesFleet ==
    ASSUME StoreParameters, StoreTypes, Flashes, FleetAct
    PROVE  Flashes'
<1>1. /\ tasks' = tasks /\ cache' = cache /\ keyVersion' = keyVersion /\ pendingKeys' = pendingKeys /\ armed' = armed
      /\ fleet \in Seq(Devices) /\ cache \in [Brains -> Nat] /\ keyVersion \in [Keys -> Nat]
  BY DEF FleetAct, AddInstance, RemoveInstance, ResetInstance, FlashBrain, reflasher, StoreTypes
<1>2. PICK s \in Slots : TRUE
  BY DEF StoreParameters
<1>3. ASSUME NEW n \in DOMAIN fleet', NEW m \in DOMAIN fleet, fleet'[n] = fleet[m] PROVE Accounted(n, s, tasks[s])
  BY <1>1, <1>3 DEF Accounted, Due
<1>4. ASSUME NEW i \in Instances, AddInstance(i), NEW n \in DOMAIN fleet' PROVE Accounted(n, s, tasks[s])
  <2>1. EmptyInstance(i) \in Devices /\ EmptyInstance(i).brain = NoBrain
    BY EmptyType
  <2>2. fleet' = Append(fleet, EmptyInstance(i))
    BY <1>4 DEF AddInstance, SetFleet
  <2>3. n \in DOMAIN fleet \/ fleet'[n] = EmptyInstance(i)
    BY <1>1, <2>1, <2>2
  <2>4. n \in DOMAIN fleet => fleet'[n] = fleet[n]
    BY <1>1, <2>1, <2>2
  <2>5. CASE n \in DOMAIN fleet
    BY <1>3, <2>4, <2>5
  <2>6. CASE fleet'[n] = EmptyInstance(i)
    BY <2>1, <2>6 DEF Accounted
  <2> QED
    BY <2>3, <2>5, <2>6
<1>5. ASSUME NEW k \in DOMAIN fleet, RemoveInstance(k), NEW n \in DOMAIN fleet' PROVE Accounted(n, s, tasks[s])
  <2>1. fleet' = RemoveAt(fleet, k)
    BY <1>5 DEF RemoveInstance, SetFleet
  <2>2. PICK m \in DOMAIN fleet : fleet'[n] = fleet[m]
    BY <1>1, <2>1, RemoveAtFacts
  <2> QED
    BY <1>3, <2>2
<1>6. ASSUME NEW k \in DOMAIN fleet, NEW b \in Brains, Cached(b), NEW n \in DOMAIN fleet',
             fleet' = [fleet EXCEPT ![k] = Flashed(fleet[k], b, cache, keyVersion)]
      PROVE  Accounted(n, s, tasks[s])
  <2>1. n \in DOMAIN fleet /\ fleet[k] \in Devices
    BY <1>1, <1>6, DeviceFields
  <2>2. CASE n # k
    <3>1. fleet'[n] = fleet[n]
      BY <1>6, <2>1, <2>2
    <3> QED
      BY <1>3, <2>1, <3>1
  <2>3. CASE n = k
    <3>1. fleet'[n] = Flashed(fleet[k], b, cache, keyVersion)
      BY <1>6, <2>1, <2>3
    <3>2. fleet'[n].brain = b /\ fleet'[n] = Flashed(fleet'[n], fleet'[n].brain, cache, keyVersion)
      BY <2>1, <3>1, FlashedFresh
    <3> QED
      BY <1>6, <3>2 DEF Accounted
  <2> QED
    BY <2>2, <2>3
<1>7. ASSUME NEW k \in DOMAIN fleet, ResetInstance(k), NEW n \in DOMAIN fleet' PROVE Accounted(n, s, tasks[s])
  <2>1. PICK b \in Brains : b = fleet[k].brain /\ Cached(b)
    BY <1>7 DEF ResetInstance, CachedSet
  <2>2. fleet' = [fleet EXCEPT ![k] = Flashed(fleet[k], b, cache, keyVersion)]
    BY <1>7, <2>1 DEF ResetInstance, SetFleet
  <2> QED
    BY <1>6, <2>1, <2>2
<1>8. ASSUME NEW k \in DOMAIN fleet, NEW b \in Brains, FlashBrain(k, b), NEW n \in DOMAIN fleet'
      PROVE  Accounted(n, s, tasks[s])
  <2>1. Cached(b) /\ fleet' = [fleet EXCEPT ![k] = Flashed(fleet[k], b, cache, keyVersion)]
    BY <1>8 DEF FlashBrain, SetFleet
  <2> QED
    BY <1>6, <2>1
<1>9. \A n \in DOMAIN fleet' : Accounted(n, s, tasks[s])
  BY <1>4, <1>5, <1>7, <1>8 DEF FleetAct
<1> QED
  BY <1>1, <1>9, FlashesShown

(* UserCodeReflasher: a flush reaches every device whose brain uses an      *)
(* action that changed.                                                     *)
LEMMA FlashesFlushed ==
    ASSUME StoreParameters, StoreTypes, Flashes, Flush
    PROVE  Flashes'
<1>1. /\ tasks' = tasks /\ cache' = cache /\ keyVersion' = keyVersion
  BY DEF Flush
<1>8. fleet \in Seq(Devices) /\ cache \in [Brains -> Nat] /\ keyVersion \in [Keys -> Nat]
  BY DEF StoreTypes
<1>9. fleet' = Reflashed(fleet, Affected, cache, keyVersion)
  BY DEF Flush
<1>2. PICK s \in Slots : TRUE
  BY DEF StoreParameters
<1>3. Affected \in SUBSET Brains
  BY DEF Affected, CachedSet
<1>4. \A b \in Affected : Cached(b)
  BY DEF Affected, CachedSet
<1>5. DOMAIN fleet' = DOMAIN fleet
  BY <1>3, <1>8, <1>9, ReflashedType
<1>6. \A n \in DOMAIN fleet : fleet'[n] = IF fleet[n].brain \in Affected
                                          THEN Flashed(fleet[n], fleet[n].brain, cache, keyVersion) ELSE fleet[n]
  BY <1>3, <1>8, <1>9, ReflashedType
<1>7. ASSUME NEW n \in DOMAIN fleet' PROVE Accounted(n, s, tasks[s])
  <2>1. n \in DOMAIN fleet /\ fleet[n] \in Devices /\ fleet[n].brain \in Brains \cup {NoBrain}
    BY <1>5, <1>8, DeviceFields
  <2>2. CASE fleet[n].brain \in Affected
    <3>1. fleet'[n] = Flashed(fleet[n], fleet[n].brain, cache, keyVersion) /\ fleet[n].brain \in Brains
      BY <1>3, <1>6, <2>1, <2>2
    <3>2. fleet'[n].brain = fleet[n].brain /\ fleet'[n] = Flashed(fleet'[n], fleet'[n].brain, cache, keyVersion)
      BY <2>1, <3>1, FlashedFresh
    <3> QED
      BY <1>4, <2>2, <3>2 DEF Accounted
  <2>3. CASE fleet[n].brain \notin Affected
    <3>1. fleet'[n] = fleet[n]
      BY <1>6, <2>1, <2>3
    <3>2. fleet[n].brain = NoBrain \/ ~(Cached(fleet[n].brain) /\ Due(fleet[n].brain))
      BY <2>1, <2>3 DEF Affected, CachedSet, Due, Associated
    <3> QED
      BY <2>1, <3>1, <3>2 DEF Accounted
  <2> QED
    BY <2>2, <2>3
<1> QED
  BY <1>1, <1>7, FlashesShown

LEMMA FlashesCompiled ==
    ASSUME StoreParameters, StoreTypes, Flashes, NEW ks \in SUBSET Keys, Compile(ks)
    PROVE  Flashes'
<1>1. /\ fleet' = fleet /\ cache' = cache /\ tasks' = tasks /\ armed' /\ pendingKeys' = pendingKeys \cup ks
      /\ \A k \in Keys : keyVersion'[k] = IF k \in ks THEN keyVersion[k] + 1 ELSE keyVersion[k]
  BY DEF Compile, host
<1> SUFFICES ASSUME NEW n \in DOMAIN fleet' PROVE Latest(fleet[n])'
  BY DEF Flashes
<1>2. n \in DOMAIN fleet /\ fleet'[n] = fleet[n] /\ fleet[n].brain \in Brains \cup {NoBrain}
  BY <1>1, DeviceFields DEF StoreTypes
<1>3. CASE fleet[n].brain = NoBrain
  BY <1>2, <1>3 DEF Latest
<1>4. CASE fleet[n].brain # NoBrain
  <2>1. PICK b \in Brains : fleet[n].brain = b
    BY <1>2, <1>4
  <2>2. \/ \E u \in Slots : Excuses(tasks[u], b)
        \/ Cached(b) /\ (\/ fleet[n] = Flashed(fleet[n], b, cache, keyVersion)
                         \/ Due(b) \/ \E u \in Slots : Renews(tasks[u], b))
    <3>1. Latest(fleet[n])
      BY <1>2 DEF Flashes
    <3> QED
      BY <1>4, <2>1, <3>1 DEF Latest
  <2>3. CASE Uses[b] \cap ks = {}
    <3>1. \A k \in Uses[b] : keyVersion'[k] = keyVersion[k]
      BY <1>1, <2>3 DEF StoreParameters
    <3>2. Flashed(fleet[n], b, cache, keyVersion) = Flashed(fleet[n], b, cache', keyVersion')
      BY <1>1, <3>1, FlashedSame
    <3>3. Due(b) => Due(b)'
      BY <1>1 DEF Due
    <3>4. \/ \E u \in Slots : Excuses(tasks'[u], b)
          \/ Cached(b)' /\ (\/ fleet'[n] = Flashed(fleet'[n], b, cache', keyVersion')
                            \/ Due(b)' \/ \E u \in Slots : Renews(tasks'[u], b))
      BY <1>1, <1>2, <2>2, <3>2, <3>3 DEF Cached
    <3> QED
      BY <1>2, <2>1, <3>4 DEF Latest, Cached, Due
  <2>4. CASE Uses[b] \cap ks # {}
    <3>1. Due(b)'
      BY <1>1, <2>4 DEF Due
    <3>2. (\E u \in Slots : Excuses(tasks'[u], b)) \/ (Cached(b)' /\ Due(b)')
      BY <1>1, <2>2, <3>1 DEF Cached
    <3> QED
      BY <1>2, <2>1, <3>2 DEF Latest, Cached, Due
  <2> QED
    BY <2>3, <2>4
<1> QED
  BY <1>3, <1>4

LEMMA FlashesBrain ==
    ASSUME StoreParameters, Patient, StoreTypes, Flight, Records, Lists, Flashes, NEW b \in Brains,
           AddBrain(b) \/ ImportBrain(b) \/ RemoveBrain(b) \/ SaveBrain(b) \/ RenameBrain(b)
    PROVE  Flashes'
<1>1. active \in Projects /\ \A u \in Slots : tasks[u] = Idle
  BY BrainActEffect
<1>2. PICK n \in Slots, t \in Tasks :
            /\ tasks' = [tasks EXCEPT ![n] = t] /\ t.at = "record" /\ t.brain = b
            /\ \/ t.op = "add" /\ (AddBrain(b) \/ ImportBrain(b))
               \/ t.op = "remove" /\ RemoveBrain(b)
               \/ t.op = "save" /\ SaveBrain(b)
               \/ t.op = "rename" /\ RenameBrain(b)
  BY BrainActEffect
<1>3. fleet' = fleet /\ keyVersion' = keyVersion /\ pendingKeys' = pendingKeys /\ armed' = armed
  BY DEF AddBrain, ImportBrain, RemoveBrain, SaveBrain, RenameBrain, reflasher
<1>4. cache \in [Brains -> Nat]
  BY DEF StoreTypes
<1>5. CASE t.op = "add"
  <2>1. AddBrain(b) \/ ImportBrain(b)
    BY <1>2, <1>5
  <2>2. PICK def \in Nat \ {0} : Redefines(b, def)
    BY <2>1, BrainActEffect
  <2>3. cache[b] = 0
    <3>1. CASE AddBrain(b)
      <4>1. stored[active].defs[b] = 0
        BY <1>1, <3>1 DEF AddBrain, Unused
      <4>2. cache = NoneCached \/ cache = stored[active].defs
        BY <1>1 DEF Records, StoreParameters
      <4> QED
        BY <4>1, <4>2 DEF NoneCached
    <3>2. CASE ImportBrain(b)
      <4>1. b \notin ToSet(brainIds)
        BY <3>2 DEF ImportBrain
      <4>2. ToSet(brainIds) = CachedSet
        BY <1>1, QuietLists
      <4> QED
        BY <4>1, <4>2 DEF CachedSet, Cached
    <3> QED
      BY <2>1, <3>1, <3>2
  <2>4. \A c \in Brains : cache'[c] = cache[c] \/ cache[c] = 0
    BY <1>4, <2>2, <2>3 DEF Redefines
  <2> QED
    BY <1>1, <1>2, <1>3, <2>4, FlashesStarted
<1>6. CASE t.op = "remove"
  <2>1. RemoveBrain(b) /\ Excuses(t, b)
    BY <1>2, <1>6 DEF Excuses
  <2>2. Redefines(b, 0)
    BY <2>1, BrainActEffect
  <2>3. \A c \in Brains : cache'[c] = cache[c] \/ Excuses(t, c)
    BY <1>4, <2>1, <2>2 DEF Redefines
  <2> QED
    BY <1>1, <1>2, <1>3, <2>3, FlashesStarted
<1>7. CASE t.op = "save"
  <2>1. SaveBrain(b) /\ Renews(t, b)
    BY <1>2, <1>7 DEF Renews
  <2>2. PICK def \in Nat \ {0} : Redefines(b, def)
    BY <2>1, BrainActEffect
  <2>3. \A c \in Brains : cache'[c] = cache[c] \/ (cache'[c] # 0 /\ Renews(t, c))
    BY <1>4, <2>1, <2>2 DEF Redefines
  <2> QED
    BY <1>1, <1>2, <1>3, <2>3, FlashesStarted
<1>8. CASE t.op = "rename"
  <2>1. cache' = cache
    BY <1>2, <1>8, BrainActEffect DEF Keeps
  <2> QED
    BY <1>1, <1>2, <1>3, <2>1, FlashesStarted
<1> QED
  BY <1>2, <1>5, <1>6, <1>7, <1>8

LEMMA FlashesExternal ==
    ASSUME StoreParameters, Patient, StoreTypes, Flight, Flashes, NEW b \in Brains, ExternalEdit(b)
    PROVE  Flashes'
<1>1. \A u \in Slots : tasks[u] = Idle
  BY ExternalEffect
<1>2. PICK def \in Nat, changed \in SUBSET Brains, removed \in SUBSET Brains, n \in Slots, t \in Tasks :
                /\ Redefines(b, def)
                /\ changed = IF def # 0 /\ Cached(b) THEN {b} ELSE {}
                /\ removed = IF def = 0 /\ Cached(b) THEN {b} ELSE {}
                /\ tasks' = [tasks EXCEPT ![n] = t]
                /\ t.op = "external" /\ t.at = "index"
                /\ t.changed = changed /\ t.removed = removed
  BY ExternalEffect
<1>3. fleet' = fleet /\ keyVersion' = keyVersion /\ pendingKeys' = pendingKeys /\ armed' = armed
  BY DEF ExternalEdit, reflasher
<1>4. cache' = [cache EXCEPT ![b] = def] /\ cache \in [Brains -> Nat]
  BY <1>2 DEF Redefines, StoreTypes
<1>5. cache[b] = 0 \/ Excuses(t, b) \/ (cache'[b] # 0 /\ Renews(t, b))
  BY <1>2, <1>4 DEF Cached, Excuses, Renews
<1>6. \A c \in Brains : c # b => cache'[c] = cache[c]
  BY <1>4
<1> QED
  BY <1>1, <1>2, <1>3, <1>5, <1>6, FlashesStarted

LEMMA FlashesInit == StoreParameters /\ Init => Flashes
<1> SUFFICES ASSUME StoreParameters, Init PROVE Flashes
  OBVIOUS
<1>1. PICK i \in Instances : fleet = <<EmptyInstance(i)>>
  BY DEF Init
<1> QED
  BY <1>1, EmptyType DEF Flashes, Latest

LEMMA FlashesStep ==
    StoreParameters /\ Patient /\ StoreTypes /\ Flight /\ Records /\ Lists /\ Restores /\ Flashes /\ [Next]_vars
      => Flashes'
<1> SUFFICES ASSUME StoreParameters, Patient, StoreTypes, Flight, Records, Lists, Restores, Flashes, [Next]_vars
             PROVE  Flashes'
  OBVIOUS
<1>1. CASE (\E n \in DOMAIN fleet : FiberFault(n)) \/ ToggleBridge \/ UNCHANGED vars
  <2>1. UNCHANGED <<fleet, tasks, cache, keyVersion, pendingKeys, armed>>
    BY <1>1 DEF FiberFault, ToggleBridge, vars, host, reflasher
  <2>2. PICK s \in Slots : TRUE
    BY DEF StoreParameters
  <2>3. tasks' = [tasks EXCEPT ![s] = tasks[s]]
    BY <2>1 DEF StoreTypes
  <2> QED
    BY <2>1, <2>3, FlashesStay
<1>2. ASSUME NEW s \in Slots, Resumes(s) PROVE Flashes'
  <2>1. CASE (\E p \in Projects : InitializeOpen(s, p)) \/ SwitchLoaded(s)
    BY <2>1, FlashesLoaded
  <2>2. CASE ReloadStep(s)
    BY <2>2, FlashesReloadBrains, FlashesRestored, FlashesDefault DEF ReloadStep
  <2>3. CASE Edits(s)
    BY <2>3, FlashesEdited
  <2> QED
    BY <1>2, <2>1, <2>2, <2>3 DEF Resumes, Edits
<1>3. CASE ProjectAct
  <2>1. PICK p \in Projects : CreateProject(p) \/ SwitchProject(p) \/ \E seed \in Seeds[p] : ImportProject(p, seed)
    BY <1>3 DEF ProjectAct
  <2>2. /\ \A u \in Slots : tasks[u] = Idle
        /\ fleet' = fleet /\ cache' = cache /\ keyVersion' = keyVersion /\ pendingKeys' = pendingKeys /\ armed' = armed
    BY <2>1, ProjectActEffect DEF reflasher
  <2>3. PICK n \in Slots, t \in Tasks : tasks' = [tasks EXCEPT ![n] = t]
    BY <2>1, ProjectActEffect
  <2> QED
    BY <2>2, <2>3, FlashesStarted
<1>4. CASE BrainAct
  BY <1>4, FlashesBrain, FlashesExternal DEF BrainAct
<1>5. CASE FleetAct
  BY <1>5, FlashesFleet
<1>6. CASE Flush
  BY <1>6, FlashesFlushed
<1>7. CASE \E ks \in SUBSET Keys \ {{}} : Compile(ks)
  BY <1>7, FlashesCompiled
<1>8. CASE ReloadPage
  <2>1. PICK i \in Instances : fleet' = <<EmptyInstance(i)>>
    BY <1>8 DEF ReloadPage
  <2>2. EmptyInstance(i).brain = NoBrain
    BY EmptyType
  <2> QED
    BY <2>1, <2>2 DEF Flashes, Latest
<1> QED
  BY <1>1, <1>2, <1>3, <1>4, <1>5, <1>6, <1>7, <1>8 DEF Next

LEMMA RunsLatestOf ==
    ASSUME StoreParameters, StoreTypes, Flight, Flashes
    PROVE  RunsLatest
<1> SUFFICES ASSUME Quiet, ~armed, NEW n \in DOMAIN fleet, fleet[n].brain \in CachedSet
             PROVE  fleet[n] = Flashed(fleet[n], fleet[n].brain, cache, keyVersion)
  BY DEF RunsLatest
<1>1. \A s \in Slots : tasks[s] = Idle
  BY DEF Quiet, Awaiting, Flight, TaskSound
<1>2. Latest(fleet[n]) /\ fleet[n].brain # NoBrain
  BY DEF Flashes, CachedSet, StoreParameters
<1>3. \A s \in Slots : ~Excuses(tasks[s], fleet[n].brain) /\ ~Renews(tasks[s], fleet[n].brain)
  BY <1>1, IdleExcuses
<1> QED
  BY <1>2, <1>3 DEF Latest, Due

-----------------------------------------------------------------------------
(* The runtime faults.                                                      *)

(* A brain is stored, or a task is removing it.                             *)
Removes(t, b) == t.op = "remove" /\ t.brain = b
Owned(b) == (\E p \in Projects : stored[p].defs[b] # 0) \/ (\E s \in Slots : Removes(tasks[s], b))
Sound(d) == (d.brain = NoBrain /\ d.status # "loaded") \/ (d.brain \in Brains /\ Owned(d.brain))
(* Faults, and devices that can fault, belong to brains that are stored or  *)
(* being removed.                                                           *)
Faults ==
    /\ \A b \in Brains : faults[b] > 0 => Owned(b)
    /\ \A n \in DOMAIN fleet : Sound(fleet[n])

LEMMA CachedOwned ==
    ASSUME StoreParameters, StoreTypes, Records, NEW b \in Brains, Cached(b)
    PROVE  Owned(b)
<1>1. cache # NoneCached
  BY DEF Cached, NoneCached
<1>2. active \in Projects /\ cache = stored[active].defs
  BY <1>1 DEF Records, StoreTypes
<1> QED
  BY <1>2 DEF Cached, Owned

LEMMA EmptySound ==
    ASSUME NEW i \in Instances
    PROVE  Sound(EmptyInstance(i))
  BY EmptyType DEF Sound

LEMMA FlashedSound ==
    ASSUME StoreParameters, StoreTypes, NEW d \in Devices, NEW b \in Brains, Owned(b)
    PROVE  Sound(Flashed(d, b, cache, keyVersion))
<1>0. cache \in [Brains -> Nat] /\ keyVersion \in [Keys -> Nat]
  BY DEF StoreTypes
<1>1. Flashed(d, b, cache, keyVersion).brain = b
  BY <1>0, FlashedType
<1> QED
  BY <1>1 DEF Sound

(* A flash again of what a device is associated with.                       *)
LEMMA AgainSound ==
    ASSUME StoreParameters, StoreTypes, NEW d \in Devices, Sound(d), d.brain \in Brains
    PROVE  Sound(Flashed(d, d.brain, cache, keyVersion))
<1>1. Owned(d.brain)
  BY DEF Sound, StoreParameters
<1> QED
  BY <1>1, FlashedSound

LEMMA FaultsKept ==
    ASSUME Faults, \A b \in Brains : Owned(b) => Owned(b)',
           \A b \in Brains : faults'[b] > 0 => Owned(b),
           NEW f, f = fleet', \A n \in DOMAIN f : Sound(f[n])
    PROVE  Faults'
<1>1. ASSUME NEW n \in DOMAIN fleet' PROVE Sound(fleet[n])'
  <2>1. n \in DOMAIN f /\ f[n] = fleet'[n]
    BY <1>1
  <2>2. (f[n].brain = NoBrain /\ f[n].status # "loaded") \/ (f[n].brain \in Brains /\ Owned(f[n].brain))
    BY <2>1 DEF Sound
  <2>3. CASE f[n].brain = NoBrain /\ f[n].status # "loaded"
    BY <2>1, <2>3 DEF Sound
  <2>4. CASE f[n].brain \in Brains /\ Owned(f[n].brain)
    <3>1. PICK b \in Brains : b = f[n].brain /\ Owned(b)
      BY <2>4
    <3>2. Owned(b)'
      BY <3>1
    <3>3. fleet'[n].brain = b
      BY <2>1, <3>1
    <3> QED
      BY <3>2, <3>3 DEF Sound, Owned
  <2> QED
    BY <2>2, <2>3, <2>4
<1>2. \A b \in Brains : faults'[b] > 0 => Owned(b)'
  OBVIOUS
<1> QED
  BY <1>1, <1>2 DEF Faults

(* No record of a brain changes.                                            *)
SameDefs == \A p \in Projects : stored'[p].defs = stored[p].defs
LEMMA OwnedKept ==
    ASSUME StoreTypes, SameDefs, NEW s \in Slots, NEW t, tasks' = [tasks EXCEPT ![s] = t],
           \A b \in Brains : Removes(tasks[s], b) => Removes(t, b)
    PROVE  \A b \in Brains : Owned(b) => Owned(b)'
<1> SUFFICES ASSUME NEW b \in Brains, Owned(b) PROVE Owned(b)'
  OBVIOUS
<1>1. \A u \in Slots : tasks'[u] = IF u = s THEN t ELSE tasks[u]
  BY DEF StoreTypes
<1>2. CASE \E p \in Projects : stored[p].defs[b] # 0
  BY <1>2 DEF Owned, SameDefs
<1>3. CASE \E u \in Slots : Removes(tasks[u], b)
  <2>1. \E u \in Slots : Removes(tasks'[u], b)
    BY <1>1, <1>3
  <2> QED
    BY <2>1 DEF Owned
<1> QED
  BY <1>2, <1>3 DEF Owned

LEMMA FaultsReloaded ==
    ASSUME StoreParameters, StoreTypes, Flight, Records, Faults, NEW s \in Slots, ReloadStep(s)
    PROVE  Faults'
<1>1. /\ active \in Projects /\ tasks[s].op \in Reloads /\ faults' = faults
  BY ReloadEffect DEF ReloadStep, ReloadBrains, ReloadIndexed, ReloadFleet, ReloadDefault
<1>2. SameDefs
  <2>1. CASE KeepsIndexes
    BY <2>1 DEF KeepsIndexes, SameDefs
  <2>2. CASE ~KeepsIndexes
    <3>1. stored' = Indexed(Reconciled(tasks[s].ids)) /\ ReloadBrains(s)
      BY <2>2, ReloadKeeps
    <3>2. brainIds' \in Seq(Brains) /\ brainIds' = Reconciled(tasks[s].ids)
      BY <1>1, <3>1, ReloadTypes DEF StoreTypes, ReloadBrains
    <3> QED
      BY <1>1, <3>1, <3>2, IndexedType DEF SameDefs
  <2> QED
    BY <2>1, <2>2
<1>3. PICK t \in Tasks : tasks' = [tasks EXCEPT ![s] = t]
  BY ReloadEffect
<1>4. \A b \in Brains : Owned(b) => Owned(b)'
  BY <1>1, <1>2, <1>3, OwnedKept DEF Removes, Reloads
<1>5. fleet \in Seq(Devices) /\ cache \in [Brains -> Nat] /\ keyVersion \in [Keys -> Nat]
  BY DEF StoreTypes
<1>6. \A n \in DOMAIN fleet : Sound(fleet[n])
  BY DEF Faults
<1>7. \A b \in Brains : faults'[b] > 0 => Owned(b)
  BY <1>1 DEF Faults
<1>8. PICK f : f = fleet'
  OBVIOUS
<1>9. CASE fleet' = fleet
  BY <1>4, <1>6, <1>7, <1>9, FaultsKept
<1>10. CASE AfterBrains(s)
  <2>1. DOMAIN fleet' = DOMAIN fleet
    BY <1>1, <1>10, AfterBrainsEffect
  <2>2. \A n \in DOMAIN fleet :
            fleet'[n] = IF fleet[n].brain \in tasks[s].removed THEN EmptyInstance(fleet[n].id)
                        ELSE IF fleet[n].brain \in tasks[s].changed \cap CachedSet
                        THEN Flashed(fleet[n], fleet[n].brain, cache, keyVersion) ELSE fleet[n]
    BY <1>1, <1>10, AfterBrainsEffect
  <2>3. ASSUME NEW n \in DOMAIN f PROVE Sound(f[n])
    <3>1. n \in DOMAIN fleet /\ fleet[n] \in Devices /\ fleet[n].id \in Instances /\ Sound(fleet[n])
      BY <1>5, <1>6, <1>8, <2>1, <2>3, DeviceFields
    <3>2. CASE fleet[n].brain \in tasks[s].removed
      <4>1. f[n] = EmptyInstance(fleet[n].id)
        BY <1>8, <2>2, <3>1, <3>2
      <4> QED
        BY <3>1, <4>1, EmptySound
    <3>3. CASE fleet[n].brain \notin tasks[s].removed /\ fleet[n].brain \in tasks[s].changed \cap CachedSet
      <4>1. f[n] = Flashed(fleet[n], fleet[n].brain, cache, keyVersion) /\ fleet[n].brain \in Brains
        BY <1>8, <2>2, <3>1, <3>3 DEF CachedSet
      <4> QED
        BY <3>1, <4>1, AgainSound
    <3>4. CASE fleet[n].brain \notin tasks[s].removed /\ fleet[n].brain \notin tasks[s].changed \cap CachedSet
      <4>1. f[n] = fleet[n]
        BY <1>8, <2>2, <3>1, <3>4
      <4> QED
        BY <3>1, <4>1
    <3> QED
      BY <3>2, <3>3, <3>4
  <2> QED
    BY <1>4, <1>7, <1>8, <2>3, FaultsKept
<1>11. CASE ReloadFleet(s)
  <2>1. tasks[s].saved \in SavedFleets \cup {NoFleet}
    BY TaskFields DEF StoreTypes
  <2>2. CASE tasks[s].saved \in {NoFleet, <<>>}
    <3>1. PICK i \in Instances : f = <<EmptyInstance(i)>>
      BY <1>8, <1>11, <2>2 DEF ReloadFleet
    <3>2. \A n \in DOMAIN f : Sound(f[n])
      BY <3>1, EmptySound
    <3> QED
      BY <1>4, <1>7, <1>8, <3>2, FaultsKept
  <2>3. CASE tasks[s].saved \notin {NoFleet, <<>>}
    <3> DEFINE saved == tasks[s].saved
    <3>1. saved \in SavedFleets /\ f = Restored(saved, cache, keyVersion)
      BY <1>8, <1>11, <2>1, <2>3 DEF ReloadFleet
    <3> HIDE DEF saved
    <3>2. DOMAIN f = DOMAIN saved
      BY <1>5, <3>1, RestoredType
    <3>3. \A n \in DOMAIN saved :
           /\ saved[n][1] \in Instances /\ saved[n][2] \in Brains \cup {NoBrain}
           /\ f[n] = IF saved[n][2] # NoBrain /\ cache[saved[n][2]] # 0
                          THEN Flashed(EmptyInstance(saved[n][1]), saved[n][2], cache, keyVersion)
                          ELSE EmptyInstance(saved[n][1])
      BY <1>5, <3>1, RestoredType
    <3>4. ASSUME NEW n \in DOMAIN f PROVE Sound(f[n])
      <4>1. PICK i \in Instances, b \in Brains \cup {NoBrain} : i = saved[n][1] /\ b = saved[n][2]
        BY <3>2, <3>3
      <4>2. CASE b # NoBrain /\ cache[b] # 0
        <5>1. f[n] = Flashed(EmptyInstance(i), b, cache, keyVersion) /\ EmptyInstance(i) \in Devices
          BY <3>2, <3>3, <4>1, <4>2, EmptyType
        <5>2. b \in Brains /\ Owned(b)
          BY <4>2, CachedOwned DEF Cached
        <5> QED
          BY <5>1, <5>2, FlashedSound
      <4>3. CASE ~(b # NoBrain /\ cache[b] # 0)
        <5>1. f[n] = EmptyInstance(i)
          BY <3>2, <3>3, <4>1, <4>3
        <5> QED
          BY <5>1, EmptySound
      <4> QED
        BY <4>2, <4>3
    <3> QED
      BY <1>4, <1>7, <1>8, <3>4, FaultsKept
  <2> QED
    BY <2>2, <2>3
<1>12. fleet' = fleet \/ AfterBrains(s) \/ ReloadFleet(s)
  BY DEF ReloadStep, ReloadBrains, ReloadIndexed, ReloadDefault
<1> QED
  BY <1>9, <1>10, <1>11, <1>12

(* removeBrain ends: no device keeps the brain, and its faults are dropped. *)
LEMMA FaultsRemoved ==
    ASSUME StoreParameters, StoreTypes, Flight, Faults, NEW s \in Slots, RemoveUnflash(s)
    PROVE  Faults'
<1>1. /\ tasks' = [tasks EXCEPT ![s] = Idle] /\ tasks[s].op = "remove"
      /\ fleet' = Unflashed(fleet, {tasks[s].brain}) /\ faults' = [faults EXCEPT ![tasks[s].brain] = 0]
  BY DEF RemoveUnflash, End
<1>2. PICK c \in Brains : c = tasks[s].brain
  BY <1>1 DEF Flight, TaskSound
<1>3. SameDefs
  BY EditKeeps DEF Edits, KeepsIndexes, SameDefs, RemoveUnflash, AddIndexed, RemoveIndexed
<1>4. ASSUME NEW b \in Brains, b # c, Owned(b) PROVE Owned(b)'
  <2>1. \A u \in Slots : tasks'[u] = IF u = s THEN Idle ELSE tasks[u]
    BY <1>1 DEF StoreTypes
  <2>2. CASE \E p \in Projects : stored[p].defs[b] # 0
    BY <1>3, <2>2 DEF Owned, SameDefs
  <2>3. CASE \E u \in Slots : Removes(tasks[u], b)
    <3>1. \E u \in Slots : Removes(tasks'[u], b)
      BY <1>2, <1>4, <2>1, <2>3 DEF Removes
    <3> QED
      BY <3>1 DEF Owned
  <2> QED
    BY <1>4, <2>2, <2>3 DEF Owned
<1>5. fleet \in Seq(Devices) /\ faults \in [Brains -> Nat]
  BY DEF StoreTypes
<1>6. \A b \in Brains : faults'[b] = IF b = c THEN 0 ELSE faults[b]
  BY <1>1, <1>2, <1>5
<1>7. \A b \in Brains : faults'[b] > 0 => Owned(b)'
  <2> SUFFICES ASSUME NEW b \in Brains, faults'[b] > 0 PROVE Owned(b)'
    OBVIOUS
  <2>1. b # c /\ faults[b] > 0
    BY <1>6
  <2> QED
    BY <1>4, <2>1 DEF Faults
<1>8. /\ DOMAIN fleet' = DOMAIN fleet
      /\ \A n \in DOMAIN fleet :
            fleet'[n] = IF fleet[n].brain \in {tasks[s].brain} THEN EmptyInstance(fleet[n].id) ELSE fleet[n]
  BY <1>1, <1>5, UnflashedType
<1>9. ASSUME NEW n \in DOMAIN fleet' PROVE Sound(fleet[n])'
  <2>1. n \in DOMAIN fleet /\ fleet[n].id \in Instances /\ Sound(fleet[n])
    BY <1>5, <1>8, DeviceFields DEF Faults
  <2>2. CASE fleet[n].brain = c
    <3>1. fleet'[n] = EmptyInstance(fleet[n].id)
      BY <1>2, <1>8, <2>1, <2>2
    <3>2. fleet'[n].brain = NoBrain /\ fleet'[n].status = "empty"
      BY <2>1, <3>1, EmptyType
    <3> QED
      BY <3>2 DEF Sound
  <2>3. CASE fleet[n].brain # c
    <3>1. fleet'[n] = fleet[n]
      BY <1>2, <1>8, <2>1, <2>3
    <3>2. CASE fleet[n].brain = NoBrain /\ fleet[n].status # "loaded"
      BY <3>1, <3>2 DEF Sound
    <3>3. CASE fleet[n].brain \in Brains /\ Owned(fleet[n].brain)
      <4>1. PICK b \in Brains : b = fleet[n].brain /\ b # c /\ Owned(b)
        BY <2>3, <3>3
      <4>2. Owned(b)'
        BY <1>4, <4>1
      <4>3. fleet'[n].brain = b
        BY <3>1, <4>1
      <4> QED
        BY <4>2, <4>3 DEF Sound, Owned
    <3> QED
      BY <2>1, <3>2, <3>3 DEF Sound
  <2> QED
    BY <2>2, <2>3
<1> QED
  BY <1>7, <1>9 DEF Faults

LEMMA FaultsEdited ==
    ASSUME StoreParameters, StoreTypes, Flight, Faults, NEW s \in Slots, Edits(s), ~RemoveUnflash(s)
    PROVE  Faults'
<1>1. active \in Projects /\ faults' = faults
  BY EditEffect DEF Edits, InitializeReload, SwitchDone, CompareFleet, AddIndexed, AddListed, RemoveIndexed, SaveReflash,
     RenameListed
<1>2. SameDefs
  <2>1. CASE ~(AddIndexed(s) \/ RemoveIndexed(s))
    BY <2>1, EditKeeps DEF KeepsIndexes, SameDefs
  <2>2. CASE AddIndexed(s) \/ RemoveIndexed(s)
    <3>1. stored' = Indexed(brainIds') /\ brainIds' \in Seq(Brains)
      BY <2>2, EditKeeps
    <3>2. \A p \in Projects : Indexed(brainIds')[p].defs = stored[p].defs
      BY <1>1, <3>1, IndexedType
    <3> QED
      BY <3>1, <3>2 DEF SameDefs
  <2> QED
    BY <2>1, <2>2
<1>3. PICK t \in Tasks : tasks' = [tasks EXCEPT ![s] = t] /\ \A b \in Brains : Removes(tasks[s], b) => Removes(t, b)
  <2>1. CASE RemoveIndexed(s)
    <3> DEFINE t == [tasks[s] EXCEPT !.at = "index"]
    <3>1. tasks[s] \in Tasks /\ "index" \in Stages /\ tasks' = [tasks EXCEPT ![s] = t]
      BY <2>1 DEF RemoveIndexed, Resume, StoreTypes, Stages
    <3>2. t \in Tasks
      BY <3>1, WithStage
    <3>3. t.op = tasks[s].op /\ t.brain = tasks[s].brain
      BY <3>1 DEF Tasks
    <3> HIDE DEF t
    <3> QED
      BY <3>1, <3>2, <3>3 DEF Removes
  <2>2. CASE ~RemoveIndexed(s)
    <3>1. tasks[s].op # "remove"
      BY <2>2 DEF Edits, InitializeReload, SwitchDone, CompareFleet, AddIndexed, AddListed, SaveReflash, RenameListed
    <3> QED
      BY <3>1, EditEffect DEF Removes
  <2> QED
    BY <2>1, <2>2
<1>4. \A b \in Brains : Owned(b) => Owned(b)'
  BY <1>2, <1>3, OwnedKept
<1>5. fleet \in Seq(Devices) /\ cache \in [Brains -> Nat] /\ keyVersion \in [Keys -> Nat]
  BY DEF StoreTypes
<1>6. \A n \in DOMAIN fleet : Sound(fleet[n])
  BY DEF Faults
<1>7. \A b \in Brains : faults'[b] > 0 => Owned(b)
  BY <1>1 DEF Faults
<1>8. CASE ~SaveReflash(s)
  <2>1. fleet' = fleet
    BY <1>8 DEF Edits, InitializeReload, SwitchDone, CompareFleet, AddIndexed, AddListed, RemoveIndexed, RenameListed
  <2> QED
    BY <1>4, <1>6, <1>7, <2>1, FaultsKept
<1>9. CASE SaveReflash(s)
  <2> DEFINE bs == {tasks[s].brain} \cap CachedSet
  <2>2. bs \in SUBSET Brains
    BY DEF CachedSet
  <2>1. PICK f : f = fleet' /\ f = Reflashed(fleet, bs, cache, keyVersion)
    BY <1>9 DEF SaveReflash
  <2> HIDE DEF bs
  <2>3. DOMAIN f = DOMAIN fleet
    BY <1>5, <2>1, <2>2, ReflashedType
  <2>4. \A n \in DOMAIN fleet :
           f[n] = IF fleet[n].brain \in bs THEN Flashed(fleet[n], fleet[n].brain, cache, keyVersion) ELSE fleet[n]
    BY <1>5, <2>1, <2>2, ReflashedType
  <2>5. ASSUME NEW n \in DOMAIN f PROVE Sound(f[n])
    <3>1. n \in DOMAIN fleet /\ fleet[n] \in Devices /\ Sound(fleet[n])
      BY <1>5, <1>6, <2>3, DeviceFields
    <3>2. CASE fleet[n].brain \in bs
      BY <2>2, <2>4, <3>1, <3>2, AgainSound
    <3>3. CASE fleet[n].brain \notin bs
      BY <2>4, <3>1, <3>3
    <3> QED
      BY <3>2, <3>3
  <2> QED
    BY <1>4, <1>7, <2>1, <2>5, FaultsKept
<1> QED
  BY <1>8, <1>9

LEMMA FaultsLoaded ==
    ASSUME StoreParameters, StoreTypes, Flight, Faults, NEW s \in Slots,
           (\E p \in Projects : InitializeOpen(s, p)) \/ SwitchLoaded(s)
    PROVE  Faults'
<1>1. PICK p \in Projects, n \in Slots, ids \in Seq(Brains), t \in Tasks :
             /\ tasks[s].op \in {"initialize", "switch"} /\ tasks[s].at = "open" /\ n # s
             /\ tasks' = [tasks EXCEPT ![n] = ReloadTask(ids), ![s] = t]
             /\ UNCHANGED <<stored, list, fleet, reflasher, faults, switching, acts>>
  BY LoadingEffect
<1>2. \A u \in Slots : tasks[u].op # "remove"
  <2> SUFFICES ASSUME NEW u \in Slots, tasks[u].op = "remove" PROVE FALSE
    OBVIOUS
  <2>1. u # s /\ Apart(tasks[u], tasks[s])
    BY <1>1 DEF Flight
  <2> QED
    BY <1>1, <2>1 DEF Apart, Beside
<1>3. \A b \in Brains : Owned(b) => Owned(b)'
  BY <1>1, <1>2 DEF Owned, Removes
<1> QED
  BY <1>1, <1>3, FaultsKept DEF Faults

(* An operation of the user starts; only a removal takes a record away.     *)
LEMMA FaultsStarted ==
    ASSUME StoreParameters, StoreTypes, Faults, fleet' = fleet, faults' = faults, \A u \in Slots : tasks[u] = Idle,
           NEW s \in Slots, NEW t, tasks' = [tasks EXCEPT ![s] = t],
           \A b \in Brains, p \in Projects :
              stored[p].defs[b] # 0 => stored'[p].defs[b] # 0 \/ Removes(t, b)
    PROVE  Faults'
<1>1. tasks'[s] = t
  BY DEF StoreTypes
<1>2. \A b \in Brains : Owned(b) => Owned(b)'
  <2> SUFFICES ASSUME NEW b \in Brains, Owned(b) PROVE Owned(b)'
    OBVIOUS
  <2>1. PICK p \in Projects : stored[p].defs[b] # 0
    BY IdleType DEF Owned, Removes
  <2> QED
    BY <1>1, <2>1 DEF Owned
<1> QED
  BY <1>2, FaultsKept DEF Faults

LEMMA FaultsBrain ==
    ASSUME StoreParameters, Patient, StoreTypes, Flight, Faults, NEW b \in Brains,
           AddBrain(b) \/ ImportBrain(b) \/ RemoveBrain(b) \/ SaveBrain(b) \/ RenameBrain(b)
    PROVE  Faults'
<1>1. active \in Projects /\ \A u \in Slots : tasks[u] = Idle
  BY BrainActEffect
<1>2. PICK n \in Slots, t \in Tasks :
            /\ tasks' = [tasks EXCEPT ![n] = t] /\ t.brain = b
            /\ \/ t.op = "add" /\ (AddBrain(b) \/ ImportBrain(b))
               \/ t.op = "remove" /\ RemoveBrain(b)
               \/ t.op = "save" /\ SaveBrain(b)
               \/ t.op = "rename" /\ RenameBrain(b)
  BY BrainActEffect
<1>3. fleet' = fleet /\ faults' = faults
  BY DEF AddBrain, ImportBrain, RemoveBrain, SaveBrain, RenameBrain
<1>4. stored[active].defs \in [Brains -> Nat]
  BY <1>1, StoredType
<1>5. CASE RenameBrain(b) /\ t.op = "rename"
  <2>1. \A p \in Projects : stored'[p].defs = stored[p].defs
    BY <1>5, BrainActEffect DEF Keeps, KeepsIndexes
  <2> QED
    BY <1>1, <1>2, <1>3, <2>1, FaultsStarted
<1>6. CASE RemoveBrain(b) /\ t.op = "remove"
  <2>1. Redefines(b, 0)
    BY <1>6, BrainActEffect
  <2>2. \A c \in Brains, p \in Projects : stored'[p].defs[c] = stored[p].defs[c] \/ c = b
    BY <1>4, <2>1 DEF Redefines
  <2>3. Removes(t, b)
    BY <1>2, <1>6 DEF Removes
  <2> QED
    BY <1>1, <1>2, <1>3, <2>2, <2>3, FaultsStarted
<1>7. CASE AddBrain(b) \/ ImportBrain(b) \/ SaveBrain(b)
  <2>1. PICK def \in Nat \ {0} : Redefines(b, def)
    BY <1>7, BrainActEffect
  <2>2. \A c \in Brains, p \in Projects : stored[p].defs[c] # 0 => stored'[p].defs[c] # 0
    BY <1>4, <2>1 DEF Redefines
  <2> QED
    BY <1>1, <1>2, <1>3, <2>2, FaultsStarted
<1> QED
  BY <1>2, <1>5, <1>6, <1>7

LEMMA FaultsFleet ==
    ASSUME StoreParameters, Patient, StoreTypes, Flight, Records, Faults, FleetAct \/ Flush \/ ToggleBridge
    PROVE  Faults'
<1>1. tasks' = tasks /\ faults' = faults
  BY DEF FleetAct, AddInstance, RemoveInstance, ResetInstance, FlashBrain, Flush, ToggleBridge
<1>2. SameDefs
  BY FleetKeeps DEF Keeps, KeepsIndexes, SameDefs
<1>3. \A b \in Brains : Owned(b) => Owned(b)'
  BY <1>1, <1>2 DEF Owned, SameDefs
<1>4. \A b \in Brains : faults'[b] > 0 => Owned(b)
  BY <1>1 DEF Faults
<1>5. fleet \in Seq(Devices) /\ cache \in [Brains -> Nat] /\ keyVersion \in [Keys -> Nat]
  BY DEF StoreTypes
<1>6. \A n \in DOMAIN fleet : n \in Nat /\ fleet[n] \in Devices /\ Sound(fleet[n])
  BY <1>5, DeviceFields DEF Faults
<1>7. PICK f : f = fleet'
  OBVIOUS
<1>8. ASSUME NEW i \in Instances, AddInstance(i), NEW n \in DOMAIN f PROVE Sound(f[n])
  <2>1. EmptyInstance(i) \in Devices /\ Sound(EmptyInstance(i))
    BY EmptyType, EmptySound
  <2>2. f = Append(fleet, EmptyInstance(i))
    BY <1>7, <1>8 DEF AddInstance, SetFleet
  <2>3. (n \in DOMAIN fleet /\ f[n] = fleet[n]) \/ f[n] = EmptyInstance(i)
    BY <1>5, <2>1, <2>2
  <2> QED
    BY <1>6, <2>1, <2>3
<1>9. ASSUME NEW k \in DOMAIN fleet, RemoveInstance(k), NEW n \in DOMAIN f PROVE Sound(f[n])
  <2>1. f = RemoveAt(fleet, k)
    BY <1>7, <1>9 DEF RemoveInstance, SetFleet
  <2>2. PICK m \in DOMAIN fleet : f[n] = fleet[m]
    BY <1>5, <2>1, RemoveAtFacts
  <2> QED
    BY <1>6, <2>2
<1>10. ASSUME NEW k \in DOMAIN fleet, NEW b \in Brains, Cached(b), NEW n \in DOMAIN f,
              f = [fleet EXCEPT ![k] = Flashed(fleet[k], b, cache, keyVersion)]
       PROVE  Sound(f[n])
  <2>1. Owned(b)
    BY <1>10, CachedOwned
  <2>2. Sound(Flashed(fleet[k], b, cache, keyVersion))
    BY <1>6, <2>1, FlashedSound
  <2>3. n \in DOMAIN fleet /\ f[n] = IF n = k THEN Flashed(fleet[k], b, cache, keyVersion) ELSE fleet[n]
    BY <1>10
  <2> QED
    BY <1>6, <2>2, <2>3
<1>11. ASSUME NEW k \in DOMAIN fleet, ResetInstance(k), NEW n \in DOMAIN f PROVE Sound(f[n])
  <2>1. PICK b \in Brains : b = fleet[k].brain /\ Cached(b)
    BY <1>11 DEF ResetInstance, CachedSet
  <2>2. f = [fleet EXCEPT ![k] = Flashed(fleet[k], b, cache, keyVersion)]
    BY <1>7, <1>11, <2>1 DEF ResetInstance, SetFleet
  <2> QED
    BY <1>10, <2>1, <2>2
<1>12. ASSUME NEW k \in DOMAIN fleet, NEW b \in Brains, FlashBrain(k, b), NEW n \in DOMAIN f PROVE Sound(f[n])
  <2>1. Cached(b) /\ f = [fleet EXCEPT ![k] = Flashed(fleet[k], b, cache, keyVersion)]
    BY <1>7, <1>12 DEF FlashBrain, SetFleet
  <2> QED
    BY <1>10, <2>1
<1>13. ASSUME Flush, NEW n \in DOMAIN f PROVE Sound(f[n])
  <2>1. Affected \in SUBSET Brains
    BY DEF Affected, CachedSet
  <2>2. f = Reflashed(fleet, Affected, cache, keyVersion)
    BY <1>7, <1>13 DEF Flush
  <2>3. DOMAIN f = DOMAIN fleet
    BY <1>5, <2>1, <2>2, ReflashedType
  <2>4. f[n] = IF fleet[n].brain \in Affected THEN Flashed(fleet[n], fleet[n].brain, cache, keyVersion) ELSE fleet[n]
    BY <1>5, <1>13, <2>1, <2>2, <2>3, ReflashedType
  <2>5. fleet[n] \in Devices /\ Sound(fleet[n])
    BY <1>6, <1>13, <2>3
  <2>6. CASE fleet[n].brain \in Affected
    BY <2>1, <2>4, <2>5, <2>6, AgainSound
  <2>7. CASE fleet[n].brain \notin Affected
    BY <2>4, <2>5, <2>7
  <2> QED
    BY <2>6, <2>7
<1>14. ASSUME ToggleBridge, NEW n \in DOMAIN f PROVE Sound(f[n])
  BY <1>6, <1>7, <1>14 DEF ToggleBridge
<1>15. \A n \in DOMAIN f : Sound(f[n])
  BY <1>8, <1>9, <1>11, <1>12, <1>13, <1>14 DEF FleetAct
<1> QED
  BY <1>3, <1>4, <1>7, <1>15, FaultsKept

LEMMA FaultsInit == StoreParameters /\ Init => Faults
<1> SUFFICES ASSUME StoreParameters, Init PROVE Faults
  OBVIOUS
<1>1. PICK i \in Instances : fleet = <<EmptyInstance(i)>>
  BY DEF Init
<1>2. \A n \in DOMAIN fleet : Sound(fleet[n])
  BY <1>1, EmptySound
<1> QED
  BY <1>2 DEF Faults, Init

LEMMA FaultsStep ==
    StoreParameters /\ Patient /\ ~Folder /\ StoreTypes /\ Flight /\ Records /\ Faults /\ [Next]_vars => Faults'
<1> SUFFICES ASSUME StoreParameters, Patient, ~Folder, StoreTypes, Flight, Records, Faults, [Next]_vars PROVE Faults'
  OBVIOUS
<1>1. CASE (\E ks \in SUBSET Keys \ {{}} : Compile(ks)) \/ UNCHANGED vars
  BY <1>1 DEF Compile, vars, host, Faults, Owned, Sound
<1>2. ASSUME NEW s \in Slots, Resumes(s) PROVE Faults'
  <2>1. CASE (\E p \in Projects : InitializeOpen(s, p)) \/ SwitchLoaded(s)
    BY <2>1, FaultsLoaded
  <2>2. CASE ReloadStep(s)
    BY <2>2, FaultsReloaded
  <2>3. CASE Edits(s)
    BY <2>3, FaultsEdited, FaultsRemoved
  <2> QED
    BY <1>2, <2>1, <2>2, <2>3 DEF Resumes, Edits
<1>3. CASE ProjectAct
  <2>1. PICK p \in Projects : CreateProject(p) \/ SwitchProject(p) \/ \E seed \in Seeds[p] : ImportProject(p, seed)
    BY <1>3 DEF ProjectAct
  <2>2. /\ \A u \in Slots : tasks[u] = Idle
        /\ \A r \in Projects : r # p => stored'[r] = stored[r]
        /\ ~stored[p].exists \/ stored' = stored
        /\ fleet' = fleet /\ faults' = faults
    BY <2>1, ProjectActEffect
  <2>3. \A b \in Brains, r \in Projects : stored[r].defs[b] # 0 => stored'[r].defs[b] # 0
    BY <2>2 DEF Records
  <2>4. PICK n \in Slots, t \in Tasks : tasks' = [tasks EXCEPT ![n] = t]
    BY <2>1, ProjectActEffect
  <2> QED
    BY <2>2, <2>3, <2>4, FaultsStarted
<1>4. CASE BrainAct
  BY <1>4, FaultsBrain DEF BrainAct, ExternalEdit
<1>5. CASE FleetAct \/ Flush \/ ToggleBridge
  BY <1>5, FaultsFleet
<1>6. ASSUME NEW n \in DOMAIN fleet, FiberFault(n) PROVE Faults'
  <2>1. /\ fleet' = fleet /\ tasks' = tasks /\ stored' = stored /\ fleet[n].status = "loaded"
        /\ faults' = [faults EXCEPT ![fleet[n].brain] = @ + 1] /\ faults \in [Brains -> Nat]
    BY <1>6 DEF FiberFault, host, StoreTypes
  <2>2. fleet[n].brain \in Brains /\ Owned(fleet[n].brain)
    BY <1>6, <2>1 DEF Faults, Sound
  <2>3. \A b \in Brains : faults'[b] > 0 => Owned(b)
    BY <2>1, <2>2 DEF Faults
  <2>4. \A b \in Brains : Owned(b) => Owned(b)'
    BY <2>1 DEF Owned
  <2> QED
    BY <2>1, <2>3, <2>4, FaultsKept DEF Faults
<1>7. CASE ReloadPage
  <2>1. PICK i \in Instances : fleet' = <<EmptyInstance(i)>>
    BY <1>7 DEF ReloadPage
  <2>2. EmptyInstance(i).brain = NoBrain /\ EmptyInstance(i).status = "empty"
    BY EmptyType
  <2>3. \A n \in DOMAIN fleet' : Sound(fleet[n])'
    BY <2>1, <2>2 DEF Sound
  <2> QED
    BY <1>7, <2>3 DEF ReloadPage, Faults
<1> QED
  BY <1>1, <1>2, <1>3, <1>4, <1>5, <1>6, <1>7 DEF Next

LEMMA FaultsOfBrainsOf ==
    ASSUME StoreTypes, Flight, Faults
    PROVE  FaultsOfBrains
<1> SUFFICES ASSUME Quiet, NEW b \in Brains, faults[b] > 0 PROVE \E p \in Projects : stored[p].defs[b] # 0
  BY DEF FaultsOfBrains
<1>1. \A s \in Slots : tasks[s].op = "idle"
  BY DEF Quiet, Awaiting
<1> QED
  BY <1>1 DEF Faults, Owned, Removes

-----------------------------------------------------------------------------
(* Switches that overlap.  The flag is up while a switch that no other one  *)
(* has overtaken is under way, whatever else awaits.                        *)
Formed(t) == {"op", "at", "overtaken"} \subseteq DOMAIN t
Pressed(t) == t.op = "switch" /\ ~t.overtaken
SwitchInv ==
    /\ tasks = [s \in Slots |-> tasks[s]]
    /\ \A s \in Slots : Formed(tasks[s])
    /\ \A s \in Slots : Pressed(tasks[s]) => switching

(* A record that differs in a field that is not the operation's name.       *)
LEMMA Altered ==
    ASSUME NEW t, Formed(t), NEW f, f \notin {"op", "overtaken"}, NEW v
    PROVE  /\ Formed([t EXCEPT ![f] = v])
           /\ [t EXCEPT ![f] = v].op = t.op
           /\ Pressed([t EXCEPT ![f] = v]) = Pressed(t)
           /\ [t EXCEPT ![f] = v].at = IF f = "at" THEN v ELSE t.at
BY DEF Formed, Pressed
LEMMA OpFormed ==
    ASSUME NEW op, NEW at
    PROVE  /\ Formed(Op(op, at)) /\ Op(op, at).op = op
           /\ Op(op, at).at = at /\ (Pressed(Op(op, at)) <=> op = "switch")
           /\ Formed(Idle) /\ ~Pressed(Idle)
BY DEF Formed, Pressed, Op, Idle

(* One task, or a task and the one that a load starts beside it, changes.   *)
LEMMA SwitchKept ==
    ASSUME SwitchInv, NEW n, NEW s, NEW t, NEW u, Formed(t), Formed(u), switching' = switching,
           tasks' = [tasks EXCEPT ![n] = t, ![s] = u], s \in Slots, ~Pressed(t), Pressed(u) => Pressed(tasks[s])
    PROVE  SwitchInv'
<1>1. \A x \in Slots : tasks'[x] \in {tasks[x], t, u} /\ (tasks'[x] = u => x = s \/ tasks[x] = u \/ t = u)
  BY DEF SwitchInv
<1>2. tasks' = [x \in Slots |-> tasks'[x]]
  BY DEF SwitchInv
<1> QED
  BY <1>1, <1>2 DEF SwitchInv, Formed, Pressed
LEMMA SwitchResumed ==
    ASSUME SwitchInv, NEW s \in Slots, NEW t, Formed(t), switching' = switching,
           tasks' = [tasks EXCEPT ![s] = t], Pressed(t) => Pressed(tasks[s])
    PROVE  SwitchInv'
<1>1. \A x \in Slots : tasks'[x] = IF x = s THEN t ELSE tasks[x]
  BY DEF SwitchInv
<1>2. tasks' = [x \in Slots |-> tasks'[x]]
  BY DEF SwitchInv
<1> QED
  BY <1>1, <1>2 DEF SwitchInv, Formed, Pressed
LEMMA SwitchStarted ==
    ASSUME SwitchInv, NEW t, Formed(t), Start(t), switching' \/ (switching' = switching /\ ~Pressed(t))
    PROVE  SwitchInv'
<1>1. \A x \in Slots : tasks'[x] \in {tasks[x], t}
  BY DEF SwitchInv, Start
<1>2. tasks' = [x \in Slots |-> tasks'[x]]
  BY DEF SwitchInv, Start
<1> QED
  BY <1>1, <1>2 DEF SwitchInv, Formed, Pressed

(* What a load leaves of a switch.                                          *)
LEMMA SwitchLoads ==
    ASSUME SwitchInv, NEW s \in Slots, NEW p, NEW then, LoadProject(p, s, then), switching' = switching,
           Formed(then), Pressed(then) => Pressed(tasks[s])
    PROVE  SwitchInv'
<1>1. PICK ids : tasks' = [tasks EXCEPT ![NextSlot] = [Op("reload", "index") EXCEPT !.ids = ids], ![s] = then]
  BY DEF LoadProject
<1>2. Formed([Op("reload", "index") EXCEPT !.ids = ids]) /\ ~Pressed([Op("reload", "index") EXCEPT !.ids = ids])
  BY OpFormed, Altered
<1> QED
  BY <1>1, <1>2, SwitchKept

LEMMA SwitchReloads ==
    ASSUME SwitchInv, NEW s \in Slots, ReloadStep(s)
    PROVE  SwitchInv'
<1>1. switching' = switching /\ tasks[s].op \in Reloads /\ Formed(tasks[s])
  BY DEF ReloadStep, ReloadBrains, ReloadIndexed, ReloadFleet, ReloadDefault, SwitchInv
<1>2. CASE AfterBrains(s)
  <2>1. PICK saved, at : tasks' = [tasks EXCEPT ![s] = [Op(tasks[s].op, at) EXCEPT !.saved = saved]]
    BY <1>2 DEF AfterBrains, Resume
  <2>2. Formed([Op(tasks[s].op, at) EXCEPT !.saved = saved]) /\ ~Pressed([Op(tasks[s].op, at) EXCEPT !.saved = saved])
    BY <1>1, OpFormed, Altered DEF Reloads
  <2> QED
    BY <1>1, <2>1, <2>2, SwitchResumed
<1>3. CASE Resume(s, [tasks[s] EXCEPT !.at = "indexed", !.ids = <<>>])
  <2> DEFINE t == [tasks[s] EXCEPT !.at = "indexed", !.ids = <<>>]
  <2>1. Formed(t) /\ Pressed(t) = Pressed(tasks[s])
    BY <1>1 DEF Formed, Pressed
  <2>2. tasks' = [tasks EXCEPT ![s] = t]
    BY <1>3 DEF Resume
  <2> HIDE DEF t
  <2> QED
    BY <1>1, <2>1, <2>2, SwitchResumed
<1>4. ASSUME NEW t, tasks' = [tasks EXCEPT ![s] = t], t = Idle \/ t = Op(tasks[s].op, "default") PROVE SwitchInv'
  <2>1. Formed(t) /\ ~Pressed(t)
    BY <1>1, <1>4, OpFormed DEF Reloads
  <2> QED
    BY <1>1, <1>4, <2>1, SwitchResumed
<1> QED
  BY <1>2, <1>3, <1>4 DEF ReloadStep, ReloadBrains, ReloadIndexed, ReloadFleet, ReloadDefault, End, Resume

LEMMA SwitchResumes ==
    ASSUME SwitchInv, NEW s \in Slots, Resumes(s)
    PROVE  SwitchInv'
<1>1. Formed(tasks[s])
  BY DEF SwitchInv
<1>2. ASSUME NEW p \in Projects, InitializeOpen(s, p) PROVE SwitchInv'
  BY <1>2, OpFormed, SwitchLoads DEF InitializeOpen
<1>3. CASE InitializeReload(s)
  <2>1. PICK ids : tasks' = [tasks EXCEPT ![s] = [Op("initialize", "index") EXCEPT !.ids = ids]]
    BY <1>3 DEF InitializeReload, Resume
  <2>2. Formed([Op("initialize", "index") EXCEPT !.ids = ids]) /\ ~Pressed([Op("initialize", "index") EXCEPT !.ids = ids])
    BY OpFormed, Altered
  <2> QED
    BY <1>3, <2>1, <2>2, SwitchResumed DEF InitializeReload
<1>4. CASE SwitchLoaded(s)
  <2>1. Formed([tasks[s] EXCEPT !.at = "loaded"]) /\ Pressed([tasks[s] EXCEPT !.at = "loaded"]) = Pressed(tasks[s])
    BY <1>1, Altered
  <2> QED
    BY <1>4, <2>1, SwitchLoads DEF SwitchLoaded
<1>5. CASE SwitchDone(s)
  <2>1. \A t \in Slots : tasks'[t] = IF t = s THEN Idle ELSE [tasks[t] EXCEPT !.overtaken = tasks[t].op = "switch"]
    BY <1>5 DEF SwitchDone
  <2>2. \A t \in Slots : Formed(tasks'[t]) /\ ~Pressed(tasks'[t])
    <3> SUFFICES ASSUME NEW t \in Slots PROVE Formed(tasks'[t]) /\ ~Pressed(tasks'[t])
      OBVIOUS
    <3>1. CASE t = s
      BY <2>1, <3>1, OpFormed
    <3>2. CASE t # s
      BY <2>1, <3>2 DEF SwitchInv, Formed, Pressed
    <3> QED
      BY <3>1, <3>2
  <2>3. tasks' = [t \in Slots |-> tasks'[t]]
    BY <1>5 DEF SwitchDone
  <2> QED
    BY <2>2, <2>3 DEF SwitchInv, Formed, Pressed
<1>6. CASE CompareFleet(s)
  <2> DEFINE t == [tasks[s] EXCEPT !.at = "fleet", !.saved = stored[active].saved]
  <2>1. Formed(t) /\ Pressed(t) = Pressed(tasks[s])
    BY <1>1 DEF Formed, Pressed
  <2>2. \/ tasks' = [tasks EXCEPT ![s] = t]
        \/ tasks' = [tasks EXCEPT ![s] = Idle]
    BY <1>6 DEF CompareFleet, Resume, End
  <2>3. switching' = switching
    BY <1>6 DEF CompareFleet
  <2> HIDE DEF t
  <2> QED
    BY <2>1, <2>2, <2>3, OpFormed, SwitchResumed
<1>7. CASE AddIndexed(s) \/ RemoveIndexed(s)
  <2>1. Formed([tasks[s] EXCEPT !.at = "index"]) /\ Pressed([tasks[s] EXCEPT !.at = "index"]) = Pressed(tasks[s])
    BY <1>1, Altered
  <2> QED
    BY <1>7, <2>1, SwitchResumed DEF AddIndexed, RemoveIndexed, Resume
<1>8. CASE AddListed(s) \/ RemoveUnflash(s) \/ SaveReflash(s) \/ RenameListed(s)
  BY <1>8, OpFormed, SwitchResumed DEF AddListed, RemoveUnflash, SaveReflash, RenameListed, End
<1>9. CASE ReloadStep(s)
  BY <1>9, SwitchReloads
<1> QED
  BY <1>2, <1>3, <1>4, <1>5, <1>6, <1>7, <1>8, <1>9 DEF Resumes

LEMMA ExternalStarts ==
    ASSUME NEW b, ExternalEdit(b)
    PROVE  \E t : Start(t) /\ Formed(t) /\ t.op = "external"
<1> DEFINE o == Op("external", "index")
           t(ids, c, r) == [o EXCEPT !.ids = ids, !.changed = c, !.removed = r]
<1>1. PICK ids, c, r : Start(t(ids, c, r))
  BY DEF ExternalEdit
<1>2. Formed(o) /\ o.op = "external"
  BY OpFormed
<1> HIDE DEF o
<1>3. Formed(t(ids, c, r)) /\ t(ids, c, r).op = "external"
  BY <1>2 DEF Formed
<1> HIDE DEF t
<1> QED
  BY <1>1, <1>3

LEMMA SwitchStep == SwitchInv /\ [Next]_vars => SwitchInv'
<1> SUFFICES ASSUME SwitchInv, [Next]_vars PROVE SwitchInv'
  OBVIOUS
<1>1. ASSUME NEW s \in Slots, Resumes(s) PROVE SwitchInv'
  BY <1>1, SwitchResumes
<1>2. CASE ProjectAct
  <2>1. PICK p \in Projects : CreateProject(p) \/ SwitchProject(p) \/ \E seed \in Seeds[p] : ImportProject(p, seed)
    BY <1>2 DEF ProjectAct
  <2>2. Formed([Op("switch", "open") EXCEPT !.project = p])
    BY OpFormed, Altered
  <2> QED
    BY <2>1, <2>2, SwitchStarted DEF CreateProject, SwitchProject, ImportProject
<1>3. CASE BrainAct
  <2>1. PICK b \in Brains : AddBrain(b) \/ ImportBrain(b) \/ RemoveBrain(b) \/ SaveBrain(b) \/ RenameBrain(b) \/ ExternalEdit(b)
    BY <1>3 DEF BrainAct
  <2>2. ASSUME NEW op \in {"add", "remove", "save", "rename"}, Start([Op(op, "record") EXCEPT !.brain = b]), switching' = switching
        PROVE  SwitchInv'
    <3>1. Formed([Op(op, "record") EXCEPT !.brain = b]) /\ ~Pressed([Op(op, "record") EXCEPT !.brain = b])
      BY <2>2, OpFormed, Altered
    <3> QED
      BY <2>2, <3>1, SwitchStarted
  <2>3. CASE ExternalEdit(b)
    <3>1. PICK t : Start(t) /\ Formed(t) /\ t.op = "external"
      BY <2>3, ExternalStarts
    <3>2. switching' = switching
      BY <2>3 DEF ExternalEdit
    <3> QED
      BY <3>1, <3>2, SwitchStarted DEF Pressed
  <2> QED
    BY <2>1, <2>2, <2>3 DEF AddBrain, ImportBrain, RemoveBrain, SaveBrain, RenameBrain
<1>4. CASE ReloadPage
  <2>1. \A t \in Slots : tasks'[t] \in {Idle, Op("initialize", "open")}
    BY <1>4 DEF ReloadPage
  <2>2. \A t \in Slots : Formed(tasks'[t]) /\ ~Pressed(tasks'[t])
    BY <2>1, OpFormed
  <2>3. tasks' = [t \in Slots |-> tasks'[t]]
    BY <1>4 DEF ReloadPage
  <2> QED
    BY <2>2, <2>3 DEF SwitchInv, Formed, Pressed
<1>5. ASSUME tasks' = tasks, switching' = switching PROVE SwitchInv'
  BY <1>5 DEF SwitchInv, Formed, Pressed
<1> QED
  BY <1>1, <1>2, <1>3, <1>4, <1>5 DEF Next, vars, FleetAct, AddInstance, RemoveInstance, ResetInstance, FlashBrain,
     FiberFault, Compile, Flush, ToggleBridge

LEMMA SwitchInit == Init => SwitchInv
<1> SUFFICES ASSUME Init PROVE SwitchInv
  OBVIOUS
<1>1. \A t \in Slots : tasks[t] \in {Idle, Op("initialize", "open")}
  BY DEF Init
<1>2. \A t \in Slots : Formed(tasks[t]) /\ ~Pressed(tasks[t])
  BY <1>1, OpFormed
<1>3. tasks = [t \in Slots |-> tasks[t]]
  BY DEF Init
<1> QED
  BY <1>2, <1>3 DEF SwitchInv

(* Only its load takes a switch from its start to its end.                  *)
Advances(s) ==
    /\ tasks[s].op = "switch" /\ tasks[s].at = "open"
    /\ tasks'[s].op = "switch" /\ tasks'[s].at = "loaded"

LEMMA OnlyLoadsAdvance ==
    ASSUME SwitchInv, [Next]_vars, NEW s \in Slots, Advances(s)
    PROVE  SwitchLoaded(s)
<1>1. ASSUME NEW u \in Slots, Resumes(u), u # s PROVE FALSE
  <2>1. ASSUME NEW p, NEW then, LoadProject(p, u, then) PROVE FALSE
    <3>1. PICK ids : tasks' = [tasks EXCEPT ![NextSlot] = [Op("reload", "index") EXCEPT !.ids = ids], ![u] = then]
      BY <2>1 DEF LoadProject
    <3>2. [Op("reload", "index") EXCEPT !.ids = ids].op = "reload"
      BY OpFormed, Altered
    <3>3. tasks'[s] = tasks[s] \/ tasks'[s] = [Op("reload", "index") EXCEPT !.ids = ids]
      BY <1>1, <3>1 DEF SwitchInv
    <3> QED
      BY <3>2, <3>3 DEF Advances
  <2>2. ASSUME NEW t, tasks' = [tasks EXCEPT ![u] = t] PROVE FALSE
    BY <1>1, <2>2 DEF Advances, SwitchInv
  <2>3. CASE SwitchDone(u)
    <3>1. tasks'[s] = [tasks[s] EXCEPT !.overtaken = tasks[s].op = "switch"]
      BY <1>1, <2>3 DEF SwitchDone
    <3>2. tasks'[s].at = tasks[s].at
      BY <3>1 DEF SwitchInv, Formed
    <3> QED
      BY <3>2 DEF Advances
  <2> QED
    BY <1>1, <2>1, <2>2, <2>3 DEF Resumes, InitializeOpen, InitializeReload, SwitchLoaded, ReloadStep, ReloadBrains,
       ReloadIndexed, ReloadFleet, ReloadDefault, AfterBrains, CompareFleet, AddIndexed, AddListed, RemoveIndexed,
       RemoveUnflash, SaveReflash, RenameListed, Resume, End
<1>2. ASSUME Resumes(s) PROVE SwitchLoaded(s)
  BY <1>2 DEF Advances, Resumes, InitializeOpen, InitializeReload, SwitchDone, ReloadStep, ReloadBrains,
     ReloadIndexed, ReloadFleet, ReloadDefault, CompareFleet, AddIndexed, AddListed, RemoveIndexed,
     RemoveUnflash, SaveReflash, RenameListed, Reloads
<1>3. ASSUME NEW t, Start(t), t.op # "switch" \/ t.at # "loaded" PROVE FALSE
  BY <1>3 DEF Advances, Start, SwitchInv
<1>4. CASE ProjectAct
  <2>1. PICK p \in Projects : Start([Op("switch", "open") EXCEPT !.project = p])
    BY <1>4 DEF ProjectAct, CreateProject, SwitchProject, ImportProject
  <2>2. [Op("switch", "open") EXCEPT !.project = p].at = "open"
    BY OpFormed, Altered
  <2> QED
    BY <1>3, <2>1, <2>2
<1>5. CASE BrainAct
  <2>1. ASSUME NEW b, NEW op \in {"add", "remove", "save", "rename"}, Start([Op(op, "record") EXCEPT !.brain = b])
        PROVE  FALSE
    <3>1. [Op(op, "record") EXCEPT !.brain = b].op = op
      BY OpFormed, Altered
    <3> QED
      BY <1>3, <2>1, <3>1
  <2>2. ASSUME NEW b, ExternalEdit(b) PROVE FALSE
    <3>1. PICK t : Start(t) /\ t.op = "external"
      BY <2>2, ExternalStarts
    <3> QED
      BY <1>3, <3>1
  <2> QED
    BY <1>5, <2>1, <2>2 DEF BrainAct, AddBrain, ImportBrain, RemoveBrain, SaveBrain, RenameBrain
<1>6. CASE ReloadPage
  <2>1. tasks'[s] \in {Idle, Op("initialize", "open")}
    BY <1>6 DEF ReloadPage
  <2> QED
    BY <2>1, OpFormed DEF Advances, Idle
<1>7. tasks' = tasks => FALSE
  BY DEF Advances
<1> QED
  BY <1>1, <1>2, <1>4, <1>5, <1>6, <1>7 DEF Next, vars, FleetAct, AddInstance, RemoveInstance, ResetInstance, FlashBrain,
     FiberFault, Compile, Flush, ToggleBridge

LEMMA SwitchLoadsOff ==
    SwitchInv /\ [Next]_vars => SwitchStaysOff
<1> SUFFICES ASSUME SwitchInv, [Next]_vars, NEW s \in Slots, Advances(s), ~tasks[s].overtaken
             PROVE  ~bridge'
  BY DEF SwitchStaysOff, Advances
<1>1. SwitchLoaded(s)
  BY OnlyLoadsAdvance
<1>2. switching
  BY DEF SwitchInv, Pressed, Advances
<1> QED
  BY <1>1, <1>2 DEF SwitchLoaded, LoadProject

-----------------------------------------------------------------------------
(* The invariant, and the theorems.                                         *)

(* The inductive invariant.                                                 *)
StoreInv == StoreTypes /\ Flight /\ Records /\ Lists /\ Restores /\ Flashes

(* The invariant holds of every reachable state of the store.               *)
THEOREM StoreInvariant == ASSUME StoreParameters, Patient PROVE Spec => []StoreInv
<1>1. Init => StoreInv
  BY TypesInit, FlightInit, RecordsInit, ListsInit, RestoresInit, FlashesInit DEF StoreInv
<1>2. StoreInv /\ [Next]_vars => StoreInv'
  BY TypesStep, FlightStep, RecordsStep, ListsStep, RestoresStep, FlashesStep DEF StoreInv
<1> QED
  BY <1>1, <1>2, PTL DEF Spec

(* reloadBrains, addBrain, removeBrain: once nothing awaits, the list shows *)
(* every stored brain once, in the order the project is stored with.        *)
THEOREM StoreListExact == ASSUME StoreParameters, Patient PROVE Spec => []ListExact
<1>1. StoreInv => ListExact
  BY ListExactOf DEF StoreInv
<1> QED
  BY <1>1, StoreInvariant, PTL

(* saveBrain, UserCodeReflasher: once nothing awaits and no reflash is due, *)
(* every device runs the latest build of its brain, or is dark because that *)
(* does not build or load.                                                  *)
THEOREM StoreRunsLatest == ASSUME StoreParameters, Patient PROVE Spec => []RunsLatest
<1>1. StoreInv => RunsLatest
  BY RunsLatestOf DEF StoreInv
<1> QED
  BY <1>1, StoreInvariant, PTL

(* removeBrain: at rest no runtime fault is kept for a brain no project     *)
(* has, where nobody else removes brains (the browser).                     *)
THEOREM StoreFaultsOfBrains == ASSUME StoreParameters, Patient, ~Folder PROVE Spec => []FaultsOfBrains
<1>1. Init => Faults
  BY FaultsInit
<1>2. StoreInv /\ Faults /\ [Next]_vars => Faults'
  BY FaultsStep DEF StoreInv
<1>3. StoreInv /\ Faults => FaultsOfBrains
  BY FaultsOfBrainsOf DEF StoreInv
<1> QED
  BY <1>1, <1>2, <1>3, StoreInvariant, PTL DEF Spec

(* projectRecordFailure: while a stored record could not be read, neither   *)
(* the saved brain order nor the saved fleet is written.                    *)
THEOREM StoreFailureKeepsRecords == ASSUME StoreParameters, Patient PROVE Spec => FailureKeepsRecords
<1>1. StoreInv /\ [Next]_vars =>
        (failure /\ failure' /\ active' = active /\ active # NoProject =>
            /\ stored'[active].index = stored[active].index
            /\ stored'[active].saved = stored[active].saved)
  BY FailureStep DEF StoreInv
<1> QED
  BY <1>1, StoreInvariant, PTL DEF Spec, FailureKeepsRecords, RecordsUnwritten

(* onProjectLoaded, _isSwitchingProject: whatever the user does meanwhile,  *)
(* a switch of project that no other switch has overtaken does not connect  *)
(* the project's bridge by itself.                                          *)
THEOREM StoreBridgeStaysOff == ASSUME StoreParameters PROVE Spec => BridgeStaysOff
<1>1. Init => SwitchInv
  BY SwitchInit
<1>2. SwitchInv /\ [Next]_vars => SwitchInv'
  BY SwitchStep
<1>3. SwitchInv /\ [Next]_vars => SwitchStaysOff
  BY SwitchLoadsOff
<1> QED
  BY <1>1, <1>2, <1>3, PTL DEF Spec, BridgeStaysOff
=============================================================================
