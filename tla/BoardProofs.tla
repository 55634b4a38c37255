----------------------------- MODULE BoardProofs -----------------------------
(***************************************************************************)
(* The peripherals of a simulated device, for every value of the           *)
(* constants that BoardAssumption admits: any listeners and events, any    *)
(* handlers nested, any devices and sounds, any frames, readings and       *)
(* presses.                                                                *)
(*                                                                         *)
(* Bus.  The numbers of the queued events increase and are those not yet   *)
(* delivered; of every delivery under way, what it passed it called, and   *)
(* what it has still to pass holds every listener that was there when it   *)
(* began and still is.                                                     *)
(*                                                                         *)
(* Speaker.  A play is known by its number alone: at most one source of a  *)
(* device sounds, its voice tells which play that is, a voice whose number *)
(* is the speaker's is as far as the speaker is, and a voice of the device *)
(* before can only be that of its first play once the new one has played.  *)
(*                                                                         *)
(* Gestures.  What one sample keeps, every frame keeps: a held posture     *)
(* ramps, crosses no axis once it stands, and is damped; of a shake that   *)
(* was not recognized the samples left are as many as the crossings it     *)
(* still needs, whatever the detector lets decay.                          *)
(*                                                                         *)
(* Ports.  Every level tells of the reset it follows; a sonar measured at  *)
(* the end of a think the echo it had then; what was driven is what was    *)
(* asked of the pins there are, in order, P0 for a negative number.        *)
(*                                                                         *)
(* Card.  The bus alternates per button and ends with its level; a sensor's*)
(* state is what its log of evaluations says, so that a click, a long click*)
(* and a double click are told by the times of the presses themselves.     *)
(***************************************************************************)
EXTENDS MCBoard, SequencesExt, SequenceTheorems, FiniteSetTheorems, WellFoundedInduction, TLAPS

-----------------------------------------------------------------------------
(* A set of natural numbers has a least element.                           *)
LEMMA LeastNatural ==
    ASSUME NEW T \in SUBSET Nat, T # {}
    PROVE  \E x \in T : \A y \in T : x <= y
<1>1. \E x \in T : \A y \in T : ~ (<<y, x>> \in OpToRel(<,Nat))
  <2>1. IsWellFoundedOn(OpToRel(<,Nat), Nat)
    BY NatLessThanWellFounded
  <2> HIDE DEF OpToRel
  <2> DEFINE R == OpToRel(<,Nat)
  <2>2. IsWellFoundedOn(R, Nat)
    BY <2>1
  <2> HIDE DEF R
  <2>3. \E x \in T : \A y \in T : ~ (<<y, x>> \in R)
    BY <2>2, WFMin, Zenon
  <2> QED
    BY <2>3 DEF R
<1>2. ASSUME NEW x \in Nat, NEW y \in Nat, y < x
      PROVE  <<y, x>> \in OpToRel(<,Nat)
  <2>1. <<y, x>> \in Nat \X Nat /\ <<y, x>>[1] = y /\ <<y, x>>[2] = x
    OBVIOUS
  <2>2. <<y, x>>[1] < <<y, x>>[2]
    BY <1>2, <2>1
  <2> QED
    BY <2>1, <2>2, Zenon DEF OpToRel
<1>3. PICK x \in T : \A y \in T : ~ (<<y, x>> \in OpToRel(<,Nat))
  BY <1>1, Zenon
<1>4. ASSUME NEW y \in T PROVE ~(y < x)
  BY <1>2, <1>3, Zenon
<1>5. \A y \in T : x <= y
  BY <1>4
<1> QED
  BY <1>5

-----------------------------------------------------------------------------
(* The bus.                                                                 *)

(* The recursive function that Without defines, over a prefix of a list.    *)
LeftSteps(list, P, K, m) ==
    K = [n \in 0..m |->
            IF n = 0 THEN <<>>
            ELSE IF n \in P THEN K[n - 1] ELSE Append(K[n - 1], list[n])]

LEMMA LeftExist ==
    ASSUME NEW list, Len(list) \in Nat, NEW P
    PROVE  \E K : LeftSteps(list, P, K, Len(list)) /\ Bus!Without(list, P) = K[Len(list)]
<1> DEFINE Failing == {m \in Nat : ~ \E K : LeftSteps(list, P, K, m)}
<1>1. Failing = {}
  <2> SUFFICES ASSUME Failing # {} PROVE FALSE
    OBVIOUS
  <2>1. PICK m \in Failing : \A k \in Failing : m <= k
    BY LeastNatural
  <2>2. CASE m = 0
    <3> DEFINE K == [n \in 0..0 |-> <<>>]
    <3>1. LeftSteps(list, P, K, 0)
      BY DEF LeftSteps
    <3> QED
      BY <3>1, <2>2, <2>1
  <2>3. CASE m # 0
    <3>1. m \in Nat /\ m - 1 \in Nat /\ m - 1 \notin Failing
      BY <2>1, <2>3
    <3>2. PICK L : LeftSteps(list, P, L, m - 1)
      BY <3>1
    <3> DEFINE K == [n \in 0..m |->
                       IF n < m THEN L[n]
                       ELSE IF n \in P THEN L[n - 1] ELSE Append(L[n - 1], list[n])]
    <3>3. \A n \in 0..m : n # 0 => n - 1 \in 0..(m - 1) /\ n - 1 < m /\ K[n - 1] = L[n - 1]
      BY <3>1
    <3>4. \A n \in 0..m : K[n] = IF n = 0 THEN <<>>
                                 ELSE IF n \in P THEN K[n - 1] ELSE Append(K[n - 1], list[n])
      <4> SUFFICES ASSUME NEW n \in 0..m
                   PROVE  K[n] = IF n = 0 THEN <<>>
                                 ELSE IF n \in P THEN K[n - 1] ELSE Append(K[n - 1], list[n])
        OBVIOUS
      <4>1. CASE n = m
        BY <4>1, <3>1, <3>3, <2>3
      <4>2. CASE n # m
        <5>1. n \in 0..(m - 1) /\ n < m
          BY <4>2, <3>1
        <5>2. L[n] = IF n = 0 THEN <<>>
                     ELSE IF n \in P THEN L[n - 1] ELSE Append(L[n - 1], list[n])
          BY <5>1, <3>2 DEF LeftSteps
        <5> QED
          BY <5>1, <5>2, <3>3
      <4> QED
        BY <4>1, <4>2
    <3>5. LeftSteps(list, P, K, m)
      BY <3>4 DEF LeftSteps
    <3> QED
      BY <3>5, <2>1
  <2> QED
    BY <2>2, <2>3
<1>2. PICK K : LeftSteps(list, P, K, Len(list))
  BY <1>1
<1> QED
  BY <1>2 DEF Bus!Without, LeftSteps

(* No two registrations have the same number.                               *)
Distinct(list) == \A i, j \in DOMAIN list : list[i].id = list[j].id => i = j

LEMMA WithoutFacts ==
    ASSUME NEW T, NEW list \in Seq(T), Distinct(list), NEW P
    PROVE  /\ Bus!Without(list, P) \in Seq(T) /\ Distinct(Bus!Without(list, P))
           /\ \A i \in DOMAIN Bus!Without(list, P) : \E j \in DOMAIN list : Bus!Without(list, P)[i] = list[j]
<1> DEFINE N == Len(list)
           Good(k, m) == k \in Seq(T) /\ Distinct(k) /\ \A i \in DOMAIN k : \E j \in 1..m : k[i] = list[j]
<1>1. N \in Nat /\ DOMAIN list = 1..N /\ \A i \in 1..N : list[i] \in T
  OBVIOUS
<1>2. PICK K : LeftSteps(list, P, K, N) /\ Bus!Without(list, P) = K[N]
  BY <1>1, LeftExist
<1> HIDE DEF N
<1>3. K[0] = <<>>
  BY <1>1, <1>2 DEF LeftSteps
<1>4. \A m \in 1..N : K[m] = IF m \in P THEN K[m - 1] ELSE Append(K[m - 1], list[m])
  <2>1. \A n \in 0..N :
           K[n] = IF n = 0 THEN <<>>
                  ELSE IF n \in P THEN K[n - 1] ELSE Append(K[n - 1], list[n])
    BY <1>2 DEF LeftSteps
  <2>2. \A m \in 1..N : m \in 0..N /\ m # 0
    BY <1>1
  <2> QED
    BY <2>1, <2>2
<1>5. Good(<<>>, 0)
  <2>1. <<>> \in Seq(T) /\ DOMAIN <<>> = {}
    OBVIOUS
  <2> QED
    BY <2>1 DEF Distinct
<1>6. ASSUME NEW m \in 1..N, NEW k, Good(k, m - 1)
      PROVE  Good(k, m)
  <2>1. 1..(m - 1) \subseteq 1..m
    BY <1>1
  <2> QED
    BY <1>6, <2>1
<1>7. ASSUME NEW m \in 1..N, NEW k, Good(k, m - 1)
      PROVE  Good(Append(k, list[m]), m)
  <2> DEFINE n == Len(k)
             r == Append(k, list[m])
  <2>1. n \in Nat /\ DOMAIN k = 1..n
    BY <1>7
  <2>2. /\ r \in Seq(T) /\ DOMAIN r = 1..(n + 1) /\ r[n + 1] = list[m]
        /\ \A i \in 1..n : r[i] = k[i]
    <3>1. list[m] \in T /\ k \in Seq(T)
      BY <1>1, <1>7
    <3> QED
      BY <3>1
  <2> HIDE DEF n, r
  <2>3. \A i \in 1..(n + 1) : i \in 1..n \/ i = n + 1
    BY <2>1
  <2>4. \A i \in 1..n : \E j \in 1..(m - 1) : r[i] = list[j]
    BY <1>7, <2>1, <2>2
  <2>5. \A i \in 1..n : r[i].id # r[n + 1].id
    <3> TAKE i \in 1..n
    <3>1. PICK j \in 1..(m - 1) : r[i] = list[j]
      BY <2>4
    <3>2. j \in DOMAIN list /\ m \in DOMAIN list /\ j # m
      BY <1>1
    <3> QED
      BY <2>2, <3>1, <3>2 DEF Distinct
  <2>6. Distinct(r)
    <3> SUFFICES ASSUME NEW i \in DOMAIN r, NEW j \in DOMAIN r, r[i].id = r[j].id PROVE i = j
      BY DEF Distinct
    <3> QED
      BY <1>7, <2>1, <2>2, <2>3, <2>5 DEF Distinct
  <2>7. \A i \in DOMAIN r : \E j \in 1..m : r[i] = list[j]
    <3>1. 1..(m - 1) \subseteq 1..m /\ m \in 1..m
      BY <1>1
    <3> QED
      BY <2>2, <2>3, <2>4, <3>1
  <2> QED
    BY <2>2, <2>6, <2>7 DEF r
<1>8. \A m \in 0..N : Good(K[m], m)
  <2> DEFINE Failing == {m \in 0..N : ~ Good(K[m], m)}
  <2> SUFFICES ASSUME Failing # {} PROVE FALSE
    OBVIOUS
  <2> HIDE DEF Good
  <2>1. PICK m \in Failing : \A i \in Failing : m <= i
    <3>1. Failing \in SUBSET Nat
      BY <1>1
    <3> QED
      BY <3>1, LeastNatural
  <2>2. m # 0
    BY <1>3, <1>5, <2>1
  <2>3. m \in 1..N /\ m - 1 \in 0..N /\ m - 1 \notin Failing
    BY <1>1, <2>1, <2>2
  <2>4. Good(K[m - 1], m - 1)
    BY <2>3
  <2> QED
    BY <1>4, <1>6, <1>7, <2>1, <2>3, <2>4
<1>9. Good(K[N], N)
  <2>1. N \in 0..N
    BY <1>1
  <2> HIDE DEF Good
  <2> QED
    BY <1>8, <2>1
<1> QED
  BY <1>1, <1>2, <1>9

Listener(n) == [source : Nat, value : Nat, id : 1..(n - 1)]
WodalEvents == [source : Nat, value : Nat, n : Nat]
DeliveryRecord(n) ==
    [event : WodalEvents, list : Seq(Listener(n)), at : Nat \ {0},
     called : SUBSET (1..(n - 1)), before : SUBSET (1..(n - 1))]

BusTypes ==
    /\ nextId \in 1..(MaxListeners + 1) /\ nextEvent \in Nat \ {0}
    /\ listeners \in Seq(Listener(nextId)) /\ queue \in Seq(WodalEvents)
    /\ stack \in Seq(DeliveryRecord(nextId)) /\ running \in BOOLEAN /\ budget \in 0..2

(* The queue is in the order of the numbers, all later than the last one    *)
(* delivered and none still to be given.                                    *)
QueueInv ==
    /\ delivered \in 0..(nextEvent - 1)
    /\ \A i \in DOMAIN queue : delivered < queue[i].n /\ queue[i].n < nextEvent
    /\ \A i, j \in DOMAIN queue : i < j => queue[i].n < queue[j].n

(* A delivery under way has called every matching listener of its list that *)
(* it has passed, and what is registered now and was before is in the list. *)
SoundDelivery(d, list) ==
    /\ d.at <= Len(d.list) + 1 /\ d.called \subseteq d.before
    /\ \A j \in DOMAIN d.list : d.list[j].id \in d.before
    /\ \A j \in DOMAIN d.list : j < d.at /\ Bus!Matching(d.list[j], d.event) => d.list[j].id \in d.called
    /\ \A i \in DOMAIN list : list[i].id \in d.before => \E j \in DOMAIN d.list : d.list[j] = list[i]
StackInv ==
    /\ Distinct(listeners)
    /\ Len(stack) <= MaxDepth /\ (running => stack # <<>>)
    /\ \A k \in DOMAIN stack : SoundDelivery(stack[k], listeners)

BusInv == BusTypes /\ QueueInv /\ StackInv

-----------------------------------------------------------------------------
LEMMA Elements ==
    ASSUME NEW S, NEW q \in Seq(S)
    PROVE  DOMAIN q = 1..Len(q) /\ Len(q) \in Nat /\ \A i \in DOMAIN q : q[i] \in S
  OBVIOUS

LEMMA BusInit == Bus!BusParameters /\ Bus!Init => BusInv
<1> SUFFICES ASSUME Bus!BusParameters, Bus!Init PROVE BusInv
  OBVIOUS
<1>1. /\ listeners = <<>> /\ queue = <<>> /\ stack = <<>> /\ running = FALSE /\ budget = 0
      /\ nextId = 1 /\ nextEvent = 1 /\ delivered = 0
  BY DEF Bus!Init
<1>2. MaxListeners \in Nat /\ MaxDepth \in Nat \ {0}
  BY DEF Bus!BusParameters
<1>3. DOMAIN <<>> = {} /\ Len(<<>>) = 0 /\ \A S : <<>> \in Seq(S)
  OBVIOUS
<1>4. BusTypes
  <2>1. 1 \in 1..(MaxListeners + 1) /\ 1 \in Nat \ {0} /\ 0 \in 0..2
    BY <1>2
  <2>2. listeners \in Seq(Listener(nextId)) /\ queue \in Seq(WodalEvents) /\ stack \in Seq(DeliveryRecord(nextId))
    BY <1>1, <1>3
  <2> QED
    BY <1>1, <2>1, <2>2 DEF BusTypes
<1>5. QueueInv
  BY <1>1, <1>3 DEF QueueInv
<1>6. StackInv
  BY <1>1, <1>2, <1>3 DEF StackInv, Distinct
<1> QED
  BY <1>4, <1>5, <1>6 DEF BusInv

LEMMA ListenKeeps ==
    ASSUME Bus!BusParameters, BusInv, NEW s \in Sources \cup {Bus!ANY}, NEW v \in Values \cup {Bus!ANY}, Bus!Listen(s, v)
    PROVE  BusInv'
<1> DEFINE l == [source |-> s, value |-> v, id |-> nextId]
<1>1. /\ listeners' = Append(listeners, l) /\ nextId' = nextId + 1 /\ nextId <= MaxListeners
      /\ queue' = queue /\ stack' = stack /\ running' = running /\ budget' = budget
      /\ nextEvent' = nextEvent /\ delivered' = delivered
  BY DEF Bus!Listen
<1>2. s \in Nat /\ v \in Nat /\ MaxListeners \in Nat
  BY DEF Bus!BusParameters, Bus!ANY
<1>3. nextId \in 1..(MaxListeners + 1) /\ nextId' \in 1..(MaxListeners + 1)
  BY <1>1, <1>2 DEF BusInv, BusTypes
<1>4. 1..(nextId - 1) \subseteq 1..(nextId' - 1) /\ nextId \in 1..(nextId' - 1) /\ nextId \notin 1..(nextId - 1)
  BY <1>1, <1>3
<1>5. Listener(nextId) \subseteq Listener(nextId') /\ l \in Listener(nextId')
  BY <1>2, <1>4 DEF Listener
<1>6. Seq(Listener(nextId)) \subseteq Seq(Listener(nextId'))
  BY <1>5, SeqMonotonic
<1>7. DeliveryRecord(nextId) \subseteq DeliveryRecord(nextId')
  BY <1>4, <1>6 DEF DeliveryRecord
<1>8. Seq(DeliveryRecord(nextId)) \subseteq Seq(DeliveryRecord(nextId'))
  BY <1>7, SeqMonotonic
<1>9. listeners \in Seq(Listener(nextId)) /\ listeners \in Seq(Listener(nextId')) /\ stack \in Seq(DeliveryRecord(nextId'))
  BY <1>6, <1>8 DEF BusInv, BusTypes
<1> HIDE DEF l
<1>10. BusTypes'
  <2>1. listeners' \in Seq(Listener(nextId'))
    BY <1>1, <1>5, <1>9, AppendProperties
  <2> QED
    BY <1>1, <1>3, <1>9, <2>1 DEF BusInv, BusTypes
<1>11. /\ DOMAIN listeners' = 1..(Len(listeners) + 1) /\ DOMAIN listeners = 1..Len(listeners) /\ Len(listeners) \in Nat
       /\ listeners'[Len(listeners) + 1] = l /\ \A i \in 1..Len(listeners) : listeners'[i] = listeners[i]
  BY <1>1, <1>5, <1>9
<1>12. \A i \in DOMAIN listeners' : (i \in DOMAIN listeners /\ listeners'[i] = listeners[i]) \/ i = Len(listeners) + 1
  BY <1>11
<1>13. \A i \in DOMAIN listeners : listeners[i].id \in 1..(nextId - 1)
  <2>1. \A i \in DOMAIN listeners : listeners[i] \in Listener(nextId)
    BY <1>9, Elements
  <2> QED
    BY <2>1 DEF Listener
<1>14. listeners'[Len(listeners) + 1].id = nextId
  BY <1>11 DEF l
<1>15. Distinct(listeners)'
  <2> SUFFICES ASSUME NEW i \in DOMAIN listeners', NEW j \in DOMAIN listeners', listeners'[i].id = listeners'[j].id
               PROVE  i = j
    BY DEF Distinct
  <2>1. Distinct(listeners)
    BY DEF BusInv, StackInv
  <2> QED
    BY <1>4, <1>12, <1>13, <1>14, <2>1 DEF Distinct
<1>16. \A k \in DOMAIN stack : SoundDelivery(stack[k], listeners')
  <2> TAKE k \in DOMAIN stack
  <2> DEFINE d == stack[k]
  <2>1. d.before \in SUBSET (1..(nextId - 1)) /\ SoundDelivery(d, listeners)
    <3>1. stack \in Seq(DeliveryRecord(nextId)) /\ SoundDelivery(d, listeners)
      BY DEF BusInv, BusTypes, StackInv
    <3>2. d \in DeliveryRecord(nextId)
      BY <3>1, Elements
    <3> QED
      BY <3>1, <3>2 DEF DeliveryRecord
  <2> HIDE DEF d
  <2>2. \A i \in DOMAIN listeners' : listeners'[i].id \in d.before => \E j \in DOMAIN d.list : d.list[j] = listeners'[i]
    BY <1>4, <1>12, <1>14, <2>1 DEF SoundDelivery
  <2>3. SoundDelivery(d, listeners')
    BY <2>1, <2>2 DEF SoundDelivery
  <2> QED
    BY <2>3 DEF d
<1>17. StackInv'
  BY <1>1, <1>15, <1>16 DEF BusInv, StackInv
<1>18. QueueInv'
  BY <1>1 DEF BusInv, QueueInv
<1> QED
  BY <1>10, <1>17, <1>18 DEF BusInv

(* A delivery stays sound when listeners go.                                *)
LEMMA FewerListeners ==
    ASSUME NEW d, NEW list, SoundDelivery(d, list), NEW rest,
           \A i \in DOMAIN rest : \E j \in DOMAIN list : rest[i] = list[j]
    PROVE  SoundDelivery(d, rest)
  BY DEF SoundDelivery

LEMMA IgnoreKeeps ==
    ASSUME BusInv, NEW s, NEW v, NEW only, Bus!Ignore(s, v, only)
    PROVE  BusInv'
<1> DEFINE P == {i \in DOMAIN listeners : Bus!Named(listeners[i], s, v, only)}
<1>1. /\ listeners' = Bus!Without(listeners, P) /\ nextId' = nextId
      /\ queue' = queue /\ stack' = stack /\ running' = running /\ budget' = budget
      /\ nextEvent' = nextEvent /\ delivered' = delivered
  BY DEF Bus!Ignore
<1> HIDE DEF P
<1>2. listeners \in Seq(Listener(nextId)) /\ Distinct(listeners)
  BY DEF BusInv, BusTypes, StackInv
<1>3. /\ listeners' \in Seq(Listener(nextId)) /\ Distinct(listeners')
      /\ \A i \in DOMAIN listeners' : \E j \in DOMAIN listeners : listeners'[i] = listeners[j]
  BY <1>1, <1>2, WithoutFacts
<1>4. \A k \in DOMAIN stack : SoundDelivery(stack[k], listeners')
  BY <1>3, FewerListeners DEF BusInv, StackInv
<1>5. BusTypes'
  BY <1>1, <1>3 DEF BusInv, BusTypes
<1>6. QueueInv'
  BY <1>1 DEF BusInv, QueueInv
<1>7. StackInv'
  BY <1>1, <1>3, <1>4 DEF BusInv, StackInv
<1> QED
  BY <1>5, <1>6, <1>7 DEF BusInv

LEMMA SendKeeps ==
    ASSUME Bus!BusParameters, BusInv, NEW s \in Sources, NEW v \in Values, Bus!Send(s, v)
    PROVE  BusInv'
<1> DEFINE e == Bus!WodalEvent(s, v, nextEvent)
<1>1. /\ queue' = Append(queue, e) /\ nextEvent' = nextEvent + 1 /\ nextId' = nextId
      /\ listeners' = listeners /\ stack' = stack /\ running' = running /\ budget' = budget
      /\ delivered' = delivered
  BY DEF Bus!Send
<1>2. nextEvent \in Nat \ {0} /\ queue \in Seq(WodalEvents)
  BY DEF BusInv, BusTypes
<1>3. e \in WodalEvents /\ e.n = nextEvent
  BY <1>2 DEF WodalEvents, Bus!WodalEvent, Bus!BusParameters, Bus!ANY
<1> HIDE DEF e
<1>4. /\ queue' \in Seq(WodalEvents) /\ DOMAIN queue' = 1..(Len(queue) + 1) /\ DOMAIN queue = 1..Len(queue) /\ Len(queue) \in Nat
      /\ queue'[Len(queue) + 1] = e /\ \A i \in 1..Len(queue) : queue'[i] = queue[i]
  BY <1>1, <1>2, <1>3
<1>5. \A i \in DOMAIN queue' : (i \in DOMAIN queue /\ queue'[i] = queue[i]) \/ i = Len(queue) + 1
  BY <1>4
<1>6. \A i \in DOMAIN queue : queue[i].n \in Nat
  <2>1. \A i \in DOMAIN queue : queue[i] \in WodalEvents
    BY <1>2, Elements
  <2> QED
    BY <2>1 DEF WodalEvents
<1>7. /\ delivered \in 0..(nextEvent - 1)
      /\ \A i \in DOMAIN queue : delivered < queue[i].n /\ queue[i].n < nextEvent
      /\ \A i, j \in DOMAIN queue : i < j => queue[i].n < queue[j].n
  BY DEF BusInv, QueueInv
<1>8. \A i \in DOMAIN queue' : delivered < queue'[i].n /\ queue'[i].n < nextEvent + 1
  BY <1>2, <1>3, <1>4, <1>5, <1>6, <1>7
<1>9. \A i, j \in DOMAIN queue' : i < j => queue'[i].n < queue'[j].n
  <2> SUFFICES ASSUME NEW i \in DOMAIN queue', NEW j \in DOMAIN queue', i < j PROVE queue'[i].n < queue'[j].n
    OBVIOUS
  <2>1. i \in DOMAIN queue /\ queue'[i] = queue[i]
    BY <1>4, <1>5
  <2> QED
    BY <1>3, <1>4, <1>5, <1>7, <2>1
<1>10. QueueInv'
  <2>1. delivered \in 0..((nextEvent + 1) - 1)
    BY <1>2, <1>7
  <2> QED
    BY <1>1, <1>8, <1>9, <2>1 DEF QueueInv
<1>11. BusTypes'
  BY <1>1, <1>2, <1>4 DEF BusInv, BusTypes
<1>12. StackInv'
  BY <1>1 DEF BusInv, StackInv
<1> QED
  BY <1>10, <1>11, <1>12 DEF BusInv

(* A delivery that begins has its own copy of the list.                     *)
LEMMA DeliveryFacts ==
    ASSUME BusInv, NEW e \in WodalEvents
    PROVE  Bus!Delivery(e) \in DeliveryRecord(nextId) /\ SoundDelivery(Bus!Delivery(e), listeners)
<1> DEFINE d == Bus!Delivery(e)
<1>1. listeners \in Seq(Listener(nextId))
  BY DEF BusInv, BusTypes
<1>2. DOMAIN listeners = 1..Len(listeners) /\ Len(listeners) \in Nat
  BY <1>1
<1>3. Bus!Ids(listeners) \in SUBSET (1..(nextId - 1))
  <2>1. \A i \in DOMAIN listeners : listeners[i] \in Listener(nextId)
    BY <1>1, Elements
  <2> QED
    BY <2>1 DEF Bus!Ids, Listener
<1>4. d = [event |-> e, list |-> listeners, at |-> 1, called |-> {}, before |-> Bus!Ids(listeners)]
  BY DEF Bus!Delivery
<1> HIDE DEF d
<1>5. d \in DeliveryRecord(nextId)
  BY <1>1, <1>3, <1>4 DEF DeliveryRecord
<1>6. /\ d.list = listeners /\ d.at = 1 /\ d.called = {} /\ d.before = Bus!Ids(listeners)
  BY <1>4
<1>7. \A j \in DOMAIN listeners : listeners[j].id \in Bus!Ids(listeners) /\ ~(j < 1)
  BY <1>2 DEF Bus!Ids
<1>8. SoundDelivery(d, listeners)
  BY <1>2, <1>6, <1>7 DEF SoundDelivery
<1> QED
  BY <1>5, <1>8 DEF d

LEMMA SendImmediateKeeps ==
    ASSUME Bus!BusParameters, BusInv, NEW s \in Sources, NEW v \in Values, Bus!SendImmediate(s, v)
    PROVE  BusInv'
<1> DEFINE d == Bus!Delivery(Bus!WodalEvent(s, v, 0))
<1>1. /\ stack' = Append(stack, d) /\ Len(stack) < MaxDepth /\ running' = FALSE
      /\ nextEvent' = nextEvent + 1 /\ nextId' = nextId /\ listeners' = listeners /\ queue' = queue
      /\ budget' = budget /\ delivered' = delivered
  BY DEF Bus!SendImmediate
<1>2. /\ nextEvent \in Nat \ {0} /\ MaxDepth \in Nat /\ queue \in Seq(WodalEvents)
      /\ stack \in Seq(DeliveryRecord(nextId))
  BY DEF BusInv, BusTypes, Bus!BusParameters
<1>3. Bus!WodalEvent(s, v, 0) \in WodalEvents
  BY DEF WodalEvents, Bus!WodalEvent, Bus!BusParameters, Bus!ANY
<1>4. d \in DeliveryRecord(nextId) /\ SoundDelivery(d, listeners)
  BY <1>3, DeliveryFacts
<1> HIDE DEF d
<1>5. /\ stack' \in Seq(DeliveryRecord(nextId)) /\ Len(stack') = Len(stack) + 1 /\ Len(stack) \in Nat
      /\ DOMAIN stack = 1..Len(stack) /\ DOMAIN stack' = 1..(Len(stack) + 1)
      /\ stack'[Len(stack) + 1] = d /\ \A i \in 1..Len(stack) : stack'[i] = stack[i]
  BY <1>1, <1>2, <1>4
<1>6. BusTypes'
  <2>0. running' \in BOOLEAN
    BY <1>1, Zenon
  <2>1. nextEvent' \in Nat \ {0}
    BY <1>1, <1>2
  <2>2. /\ nextId' \in 1..(MaxListeners + 1) /\ listeners' \in Seq(Listener(nextId')) /\ queue' \in Seq(WodalEvents)
        /\ budget' \in 0..2
    BY <1>1 DEF BusInv, BusTypes
  <2>3. stack' \in Seq(DeliveryRecord(nextId'))
    BY <1>1, <1>5
  <2> QED
    BY <2>0, <2>1, <2>2, <2>3 DEF BusTypes
<1>7. QueueInv'
  <2>1. /\ delivered \in 0..(nextEvent - 1)
        /\ \A i \in DOMAIN queue : delivered < queue[i].n /\ queue[i].n < nextEvent
        /\ \A i, j \in DOMAIN queue : i < j => queue[i].n < queue[j].n
    BY DEF BusInv, QueueInv
  <2>2. \A i \in DOMAIN queue : queue[i].n \in Nat
    <3>1. \A i \in DOMAIN queue : queue[i] \in WodalEvents
      BY <1>2, Elements
    <3> QED
      BY <3>1 DEF WodalEvents
  <2>3. delivered \in 0..((nextEvent + 1) - 1) /\ \A i \in DOMAIN queue : queue[i].n < nextEvent + 1
    BY <1>2, <2>1, <2>2
  <2> QED
    BY <1>1, <2>1, <2>3 DEF QueueInv
<1>8. StackInv'
  <2>1. \A k \in DOMAIN stack' : k \in 1..Len(stack) \/ k = Len(stack) + 1
    BY <1>5
  <2>2. \A k \in DOMAIN stack' : SoundDelivery(stack'[k], listeners)
    BY <1>4, <1>5, <2>1 DEF BusInv, StackInv
  <2>3. Len(stack') <= MaxDepth /\ Distinct(listeners)
    BY <1>1, <1>2, <1>5 DEF BusInv, StackInv
  <2> QED
    BY <1>1, <2>2, <2>3 DEF StackInv
<1> QED
  BY <1>6, <1>7, <1>8 DEF BusInv

LEMMA DrainKeeps ==
    ASSUME BusInv, NEW limit \in 1..2, Bus!Drain(limit)
    PROVE  BusInv'
<1>1. /\ budget' \in 0..2 /\ queue' = queue /\ stack' = stack /\ running' = running /\ nextId' = nextId
      /\ listeners' = listeners /\ nextEvent' = nextEvent /\ delivered' = delivered
  BY DEF Bus!Drain
<1>2. BusTypes'
  BY <1>1 DEF BusInv, BusTypes
<1>3. QueueInv'
  BY <1>1 DEF BusInv, QueueInv
<1>4. StackInv'
  BY <1>1 DEF BusInv, StackInv
<1> QED
  BY <1>2, <1>3, <1>4 DEF BusInv

LEMMA DrainNextKeeps ==
    ASSUME Bus!BusParameters, BusInv, Bus!DrainNext
    PROVE  BusInv'
<1>1. /\ stack = <<>> /\ budget > 0 /\ running' = FALSE /\ nextId' = nextId
      /\ listeners' = listeners /\ nextEvent' = nextEvent
  BY DEF Bus!DrainNext
<1>2. /\ nextEvent \in Nat \ {0} /\ MaxDepth \in Nat \ {0} /\ queue \in Seq(WodalEvents)
      /\ stack \in Seq(DeliveryRecord(nextId)) /\ budget \in 0..2
      /\ nextId \in 1..(MaxListeners + 1) /\ listeners \in Seq(Listener(nextId))
  BY DEF BusInv, BusTypes, Bus!BusParameters
<1>3. /\ delivered \in 0..(nextEvent - 1)
      /\ \A i \in DOMAIN queue : delivered < queue[i].n /\ queue[i].n < nextEvent
      /\ \A i, j \in DOMAIN queue : i < j => queue[i].n < queue[j].n
  BY DEF BusInv, QueueInv
<1>4. Distinct(listeners)
  BY DEF BusInv, StackInv
<1>5. CASE queue = <<>>
  <2>1. budget' = 0 /\ queue' = queue /\ stack' = stack /\ delivered' = delivered
    BY <1>5 DEF Bus!DrainNext
  <2>2. BusTypes'
    <3>0. running' \in BOOLEAN
      BY <1>1, Zenon
    <3>1. budget' \in 0..2
      BY <2>1
    <3> QED
      BY <1>1, <2>1, <3>0, <3>1 DEF BusInv, BusTypes
  <2>3. QueueInv'
    BY <1>1, <1>3, <2>1 DEF QueueInv
  <2>4. StackInv'
    BY <1>1, <2>1 DEF BusInv, StackInv
  <2> QED
    BY <2>2, <2>3, <2>4 DEF BusInv
<1>6. CASE queue # <<>>
  <2> DEFINE d == Bus!Delivery(Head(queue))
  <2>1. stack' = <<d>> /\ queue' = Tail(queue) /\ budget' = budget - 1 /\ delivered' = Head(queue).n
    BY <1>6 DEF Bus!DrainNext
  <2>2. /\ Len(queue) \in Nat \ {0} /\ DOMAIN queue = 1..Len(queue) /\ Head(queue) = queue[1] /\ 1 \in DOMAIN queue
        /\ \A i \in DOMAIN queue : queue[i] \in WodalEvents
    BY <1>2, <1>6
  <2>3. /\ queue' \in Seq(WodalEvents) /\ DOMAIN queue' = 1..(Len(queue) - 1)
        /\ \A i \in 1..(Len(queue) - 1) : queue'[i] = queue[i + 1]
    BY <1>2, <1>6, <2>1
  <2>4. d \in DeliveryRecord(nextId) /\ SoundDelivery(d, listeners)
    BY <2>2, DeliveryFacts
  <2>5. \A i \in DOMAIN queue : queue[i].n \in Nat
    BY <2>2 DEF WodalEvents
  <2> HIDE DEF d
  <2>6. /\ stack' \in Seq(DeliveryRecord(nextId)) /\ Len(stack') = 1 /\ DOMAIN stack' = {1} /\ stack'[1] = d
    <3>1. <<d>> \in Seq(DeliveryRecord(nextId)) /\ Len(<<d>>) = 1 /\ DOMAIN <<d>> = {1} /\ <<d>>[1] = d
      BY <2>4
    <3> QED
      BY <2>1, <3>1
  <2>7. budget' \in 0..2
    BY <1>1, <1>2, <2>1
  <2>8. BusTypes'
    <3>1. running' \in BOOLEAN
      BY <1>1
    <3> QED
      BY <1>1, <1>2, <2>3, <2>6, <2>7, <3>1 DEF BusTypes
  <2>9. QueueInv'
    <3>1. \A i \in DOMAIN queue' : i \in Nat /\ i + 1 \in DOMAIN queue /\ 1 < i + 1 /\ queue'[i] = queue[i + 1]
      BY <2>2, <2>3
    <3>2. delivered' \in 0..(nextEvent - 1)
      <4> DEFINE h == queue[1].n
      <4>1. delivered' = h /\ h \in Nat /\ h < nextEvent
        BY <1>3, <2>1, <2>2, <2>5
      <4> HIDE DEF h
      <4> QED
        BY <1>2, <4>1
    <3>3. \A i \in DOMAIN queue' : delivered' < queue'[i].n /\ queue'[i].n < nextEvent
      BY <1>3, <2>1, <2>2, <3>1
    <3>4. \A i, j \in DOMAIN queue' : i < j => queue'[i].n < queue'[j].n
      BY <1>3, <3>1
    <3> QED
      BY <1>1, <3>2, <3>3, <3>4 DEF QueueInv
  <2>10. StackInv'
    <3>1. \A k \in DOMAIN stack' : SoundDelivery(stack'[k], listeners)
      BY <2>4, <2>6
    <3>2. Len(stack') <= MaxDepth
      BY <1>2, <2>6
    <3> QED
      BY <1>1, <1>4, <3>1, <3>2 DEF StackInv
  <2> QED
    BY <2>8, <2>9, <2>10 DEF BusInv
<1> QED
  BY <1>5, <1>6

(* A turn of the loop of the innermost delivery moves it past one listener  *)
(* of its list, called if it matches.                                       *)
LEMMA StepKeeps ==
    ASSUME BusInv, Bus!Step
    PROVE  BusInv'
<1> DEFINE n == Len(stack)
           d == stack[n]
           l == d.list[d.at]
           r == stack'[n]
<1>1. /\ stack # <<>> /\ d.at <= Len(d.list) /\ nextId' = nextId /\ listeners' = listeners
      /\ queue' = queue /\ budget' = budget /\ nextEvent' = nextEvent /\ delivered' = delivered
  BY DEF Bus!Step, Bus!Innermost, Bus!Walked
<1>2. stack \in Seq(DeliveryRecord(nextId)) /\ \A k \in DOMAIN stack : SoundDelivery(stack[k], listeners)
  BY DEF BusInv, BusTypes, StackInv
<1>3. n \in Nat /\ n \in DOMAIN stack /\ DOMAIN stack = 1..n /\ \A k \in DOMAIN stack : stack[k] \in DeliveryRecord(nextId)
  BY <1>1, <1>2
<1>4. d \in DeliveryRecord(nextId) /\ SoundDelivery(d, listeners)
  BY <1>2, <1>3
<1>5. \/ /\ Bus!Matching(l, d.event) /\ running' = TRUE
         /\ stack' = [stack EXCEPT ![n] = [d EXCEPT !.at = @ + 1, !.called = @ \cup {l.id}]]
      \/ /\ ~Bus!Matching(l, d.event) /\ running' = FALSE
         /\ stack' = [stack EXCEPT ![n] = [d EXCEPT !.at = @ + 1]]
  BY DEF Bus!Step, Bus!Innermost, Bus!Walked
<1> HIDE DEF d
<1>6. /\ d.event \in WodalEvents /\ d.list \in Seq(Listener(nextId)) /\ d.at \in Nat \ {0}
      /\ d.called \in SUBSET (1..(nextId - 1)) /\ d.before \in SUBSET (1..(nextId - 1))
      /\ d = [event |-> d.event, list |-> d.list, at |-> d.at, called |-> d.called, before |-> d.before]
  BY <1>4 DEF DeliveryRecord
<1>7. d.at \in DOMAIN d.list /\ Len(d.list) \in Nat
  BY <1>1, <1>6
<1>8. l.id \in d.before
  BY <1>4, <1>7 DEF SoundDelivery
<1> HIDE DEF l, n
<1>9. /\ r.event = d.event /\ r.list = d.list /\ r.at = d.at + 1 /\ r.before = d.before
      /\ r.called = IF Bus!Matching(l, d.event) THEN d.called \cup {l.id} ELSE d.called
      /\ r \in DeliveryRecord(nextId)
  <2>1. CASE Bus!Matching(l, d.event)
    <3>1. r = [d EXCEPT !.at = @ + 1, !.called = @ \cup {l.id}]
      BY <2>1, <1>3, <1>5
    <3>2. r = [event |-> d.event, list |-> d.list, at |-> d.at + 1, called |-> d.called \cup {l.id}, before |-> d.before]
      BY <3>1, <1>6
    <3> HIDE DEF r
    <3>3. d.at + 1 \in Nat \ {0} /\ d.called \cup {l.id} \in SUBSET (1..(nextId - 1))
      BY <1>6, <1>8
    <3>4. r \in DeliveryRecord(nextId)
      BY <1>6, <3>2, <3>3 DEF DeliveryRecord
    <3>5. r.event = d.event /\ r.list = d.list /\ r.at = d.at + 1 /\ r.before = d.before /\ r.called = d.called \cup {l.id}
      BY <3>2
    <3> QED
      BY <2>1, <3>4, <3>5
  <2>2. CASE ~Bus!Matching(l, d.event)
    <3>1. r = [d EXCEPT !.at = @ + 1]
      BY <2>2, <1>3, <1>5
    <3>2. r = [event |-> d.event, list |-> d.list, at |-> d.at + 1, called |-> d.called, before |-> d.before]
      BY <3>1, <1>6
    <3> HIDE DEF r
    <3>3. d.at + 1 \in Nat \ {0}
      BY <1>6
    <3>4. r \in DeliveryRecord(nextId)
      BY <1>6, <3>2, <3>3 DEF DeliveryRecord
    <3>5. r.event = d.event /\ r.list = d.list /\ r.at = d.at + 1 /\ r.before = d.before /\ r.called = d.called
      BY <3>2
    <3> QED
      BY <2>2, <3>4, <3>5
  <2> QED
    BY <2>1, <2>2
<1>10. \A k \in DOMAIN stack : k # n => stack'[k] = stack[k]
  BY <1>3, <1>5
<1>11. /\ DOMAIN stack' = 1..n /\ Len(stack') = n /\ stack' \in Seq(DeliveryRecord(nextId))
  <2>1. DOMAIN stack' = 1..n /\ stack' = [k \in 1..n |-> stack'[k]]
    BY <1>3, <1>5
  <2>2. \A k \in 1..n : stack'[k] \in DeliveryRecord(nextId)
    <3> HIDE DEF r
    <3>1. stack'[n] \in DeliveryRecord(nextId)
      BY <1>9 DEF r
    <3> QED
      BY <1>3, <1>10, <3>1
  <2>3. stack' \in Seq(DeliveryRecord(nextId))
    BY <1>3, <2>1, <2>2
  <2> QED
    BY <1>3, <2>1, <2>3
<1> HIDE DEF r
<1>12. SoundDelivery(r, listeners)
  <2>1. r.at <= Len(r.list) + 1
    BY <1>1, <1>6, <1>7, <1>9
  <2>2. r.called \subseteq r.before
    BY <1>4, <1>8, <1>9 DEF SoundDelivery
  <2>3. \A j \in DOMAIN r.list : j < r.at /\ Bus!Matching(r.list[j], r.event) => r.list[j].id \in r.called
    <3> SUFFICES ASSUME NEW j \in DOMAIN d.list, j < d.at + 1, Bus!Matching(d.list[j], d.event)
                 PROVE  d.list[j].id \in r.called
      BY <1>9
    <3>1. j \in Nat
      BY <1>6
    <3>2. CASE j < d.at
      <4>1. d.list[j].id \in d.called
        BY <1>4, <3>2 DEF SoundDelivery
      <4> QED
        BY <1>9, <4>1
    <3>3. CASE j = d.at
      <4>1. d.list[j] = l
        BY <3>3 DEF l
      <4> QED
        BY <1>9, <4>1
    <3> QED
      BY <1>6, <3>1, <3>2, <3>3
  <2>4. \A i \in DOMAIN listeners : listeners[i].id \in r.before => \E j \in DOMAIN r.list : r.list[j] = listeners[i]
    BY <1>4, <1>9 DEF SoundDelivery
  <2>5. \A j \in DOMAIN r.list : r.list[j].id \in r.before
    BY <1>4, <1>9 DEF SoundDelivery
  <2> QED
    BY <2>1, <2>2, <2>3, <2>4, <2>5 DEF SoundDelivery
<1>13. BusTypes'
  <2>1. running' \in BOOLEAN
    BY <1>5
  <2>2. /\ nextId' \in 1..(MaxListeners + 1) /\ listeners' \in Seq(Listener(nextId')) /\ queue' \in Seq(WodalEvents)
        /\ budget' \in 0..2 /\ nextEvent' \in Nat \ {0}
    BY <1>1 DEF BusInv, BusTypes
  <2>3. stack' \in Seq(DeliveryRecord(nextId'))
    BY <1>1, <1>11
  <2> QED
    BY <2>1, <2>2, <2>3 DEF BusTypes
<1>14. QueueInv'
  BY <1>1 DEF BusInv, QueueInv
<1>15. StackInv'
  <2>1. \A k \in DOMAIN stack' : SoundDelivery(stack'[k], listeners)
    BY <1>2, <1>3, <1>10, <1>11, <1>12 DEF r
  <2>2. Len(stack') <= MaxDepth /\ Distinct(listeners)
    BY <1>11 DEF n, BusInv, StackInv
  <2>3. stack' # <<>>
    <3>1. DOMAIN <<>> = {} /\ n \in DOMAIN stack'
      BY <1>3, <1>11
    <3> QED
      BY <3>1
  <2> QED
    BY <1>1, <2>1, <2>2, <2>3 DEF StackInv
<1> QED
  BY <1>13, <1>14, <1>15 DEF BusInv

LEMMA ReturnKeeps ==
    ASSUME BusInv, Bus!Return
    PROVE  BusInv'
<1>1. /\ running' = FALSE /\ budget' = budget /\ queue' = queue /\ stack' = stack /\ nextId' = nextId
      /\ listeners' = listeners /\ nextEvent' = nextEvent /\ delivered' = delivered
  BY DEF Bus!Return
<1>2. BusTypes'
  <2>1. running' \in BOOLEAN
    BY <1>1
  <2> QED
    BY <1>1, <2>1 DEF BusInv, BusTypes
<1>3. QueueInv'
  BY <1>1 DEF BusInv, QueueInv
<1>4. StackInv'
  BY <1>1 DEF BusInv, StackInv
<1> QED
  BY <1>2, <1>3, <1>4 DEF BusInv

LEMMA EndDeliveryKeeps ==
    ASSUME Bus!BusParameters, BusInv, Bus!EndDelivery
    PROVE  BusInv'
<1> DEFINE n == Len(stack)
<1>1. /\ stack # <<>> /\ stack' = SubSeq(stack, 1, n - 1) /\ running' = (n > 1)
      /\ nextId' = nextId /\ listeners' = listeners
      /\ queue' = queue /\ budget' = budget /\ nextEvent' = nextEvent /\ delivered' = delivered
  BY DEF Bus!EndDelivery, Bus!Finished, Bus!Front
<1>2. stack \in Seq(DeliveryRecord(nextId)) /\ \A k \in DOMAIN stack : SoundDelivery(stack[k], listeners)
  BY DEF BusInv, BusTypes, StackInv
<1>3. n \in Nat \ {0} /\ DOMAIN stack = 1..n
  BY <1>1, <1>2
<1> HIDE DEF n
<1>4. 1 \in Int /\ n - 1 \in Int /\ 1 <= n /\ n - 1 <= n
  BY <1>3
<1>5. /\ stack' \in Seq(DeliveryRecord(nextId)) /\ Len(stack') = n - 1
      /\ DOMAIN stack' = 1..(n - 1) /\ \A i \in 1..(n - 1) : stack'[i] = stack[i]
  <2>1. \A i \in 1..(n - 1) : stack[i] \in DeliveryRecord(nextId)
    BY <1>2, <1>3
  <2>2. SubSeq(stack, 1, n - 1) = [i \in 1..(n - 1) |-> stack[i]]
    BY <1>2, <1>3 DEF n
  <2>3. stack' = [i \in 1..(n - 1) |-> stack[i]] /\ n - 1 \in Nat
    BY <1>1, <1>3, <2>2
  <2>4. stack' \in Seq(DeliveryRecord(nextId))
    BY <2>1, <2>3
  <2> QED
    BY <2>3, <2>4
<1>6. BusTypes'
  <2>1. running' \in BOOLEAN
    BY <1>1
  <2>2. /\ nextId' \in 1..(MaxListeners + 1) /\ listeners' \in Seq(Listener(nextId')) /\ queue' \in Seq(WodalEvents)
        /\ budget' \in 0..2 /\ nextEvent' \in Nat \ {0}
    BY <1>1 DEF BusInv, BusTypes
  <2>3. stack' \in Seq(DeliveryRecord(nextId'))
    BY <1>1, <1>5
  <2> QED
    BY <2>1, <2>2, <2>3 DEF BusTypes
<1>7. QueueInv'
  BY <1>1 DEF BusInv, QueueInv
<1>8. StackInv'
  <2>1. \A k \in DOMAIN stack' : k \in 1..(n - 1) /\ k \in DOMAIN stack /\ stack'[k] = stack[k]
    BY <1>3, <1>5
  <2>2. \A k \in DOMAIN stack' : SoundDelivery(stack'[k], listeners)
    BY <1>2, <2>1
  <2>3. Len(stack') <= MaxDepth
    <3>1. n <= MaxDepth /\ MaxDepth \in Nat
      BY DEF n, BusInv, StackInv, Bus!BusParameters
    <3> QED
      BY <1>3, <1>5, <3>1
  <2>4. running' => stack' # <<>>
    <3>1. DOMAIN <<>> = {}
      OBVIOUS
    <3>2. n > 1 => 1 \in DOMAIN stack'
      BY <1>3, <1>5
    <3> QED
      BY <1>1, <3>1, <3>2
  <2> QED
    BY <1>1, <2>2, <2>3, <2>4 DEF BusInv, StackInv
<1> QED
  BY <1>6, <1>7, <1>8 DEF BusInv

LEMMA ClearKeeps ==
    ASSUME BusInv, Bus!Clear
    PROVE  BusInv'
<1>1. /\ stack = <<>> /\ listeners' = <<>> /\ queue' = <<>> /\ running' = running /\ budget' = budget /\ stack' = stack
      /\ nextId' = nextId /\ nextEvent' = nextEvent /\ delivered' = delivered
  BY DEF Bus!Clear
<1>2. DOMAIN <<>> = {} /\ \A S : <<>> \in Seq(S)
  OBVIOUS
<1>3. BusTypes'
  <2>1. listeners' \in Seq(Listener(nextId')) /\ queue' \in Seq(WodalEvents)
    BY <1>1, <1>2
  <2> QED
    BY <1>1, <2>1 DEF BusInv, BusTypes
<1>4. QueueInv'
  BY <1>1, <1>2 DEF BusInv, QueueInv
<1>5. StackInv'
  <2>1. \A k \in DOMAIN stack' : SoundDelivery(stack'[k], listeners')
    BY <1>1, <1>2
  <2>2. Distinct(listeners)'
    BY <1>1, <1>2 DEF Distinct
  <2> QED
    BY <1>1, <2>1, <2>2 DEF BusInv, StackInv
<1> QED
  BY <1>3, <1>4, <1>5 DEF BusInv

LEMMA BusStep == Bus!BusParameters /\ BusInv /\ Bus!Next => BusInv'
<1> SUFFICES ASSUME Bus!BusParameters, BusInv, Bus!Next PROVE BusInv'
  OBVIOUS
<1>1. CASE \E s \in Sources \cup {Bus!ANY}, v \in Values \cup {Bus!ANY} : Bus!Listen(s, v)
  BY <1>1, ListenKeeps
<1>2. CASE \E s \in Sources \cup {Bus!ANY}, v \in Values \cup {Bus!ANY} :
             \E only \in {Bus!ANY} \cup Bus!Ids(listeners) : Bus!Ignore(s, v, only)
  BY <1>2, IgnoreKeeps
<1>3. CASE \E s \in Sources, v \in Values : Bus!Send(s, v)
  BY <1>3, SendKeeps
<1>4. CASE \E s \in Sources, v \in Values : Bus!SendImmediate(s, v)
  BY <1>4, SendImmediateKeeps
<1>5. CASE \E limit \in 1..2 : Bus!Drain(limit)
  BY <1>5, DrainKeeps
<1>6. CASE Bus!DrainNext
  BY <1>6, DrainNextKeeps
<1>7. CASE Bus!Step
  BY <1>7, StepKeeps
<1>8. CASE Bus!Return
  BY <1>8, ReturnKeeps
<1>9. CASE Bus!EndDelivery
  BY <1>9, EndDeliveryKeeps
<1>10. CASE Bus!Clear
  BY <1>10, ClearKeeps
<1> QED
  BY <1>1, <1>2, <1>3, <1>4, <1>5, <1>6, <1>7, <1>8, <1>9, <1>10 DEF Bus!Next

LEMMA BusHolds == BoardSpec => []BusInv
<1>1. Bus!BusParameters
  BY BoardAssumption
<1>2. BoardInit => BusInv
  BY <1>1, BusInit DEF BoardInit
<1>3. ASSUME BusInv, [BoardNext]_<<part, ports, card, motion, events, audio>>
      PROVE  BusInv'
  <2>1. CASE UNCHANGED events
    <3>1. /\ listeners' = listeners /\ queue' = queue /\ stack' = stack /\ running' = running /\ budget' = budget
          /\ nextId' = nextId /\ nextEvent' = nextEvent /\ delivered' = delivered
      BY <2>1 DEF events
    <3> QED
      BY <1>3, <3>1 DEF BusInv, BusTypes, QueueInv, StackInv
  <2>2. CASE Bus!Next
    BY <1>1, <1>3, <2>2, BusStep
  <2> QED
    BY <1>3, <2>1, <2>2 DEF BoardNext
<1> QED
  BY <1>2, <1>3, PTL DEF BoardSpec

(* What the properties of the bus say of a state.                           *)
LEMMA Registered ==
    ASSUME NEW list, NEW T, list \in Seq(T), Distinct(list)
    PROVE  Cardinality(Bus!Ids(list)) = Len(list)
<1> DEFINE n == Len(list)
           f == [i \in 1..n |-> list[i].id]
<1>1. n \in Nat /\ DOMAIN list = 1..n
  OBVIOUS
<1> HIDE DEF n
<1>2. f \in Bijection(1..n, Bus!Ids(list))
  <2>1. f \in [1..n -> Bus!Ids(list)] /\ \A a, b \in 1..n : f[a] = f[b] => a = b
    BY <1>1 DEF Bus!Ids, Distinct
  <2>2. \A t \in Bus!Ids(list) : \E s \in 1..n : f[s] = t
    BY <1>1 DEF Bus!Ids
  <2> HIDE DEF f
  <2> QED
    BY <2>1, <2>2 DEF Bijection, Injection, Surjection, IsInjective
<1>3. Cardinality(1..n) = n /\ IsFiniteSet(1..n)
  <2>1. IsFiniteSet(1..n) /\ Cardinality(1..n) = IF 1 > n THEN 0 ELSE n - 1 + 1
    BY <1>1, FS_Interval
  <2> QED
    BY <1>1, <2>1
<1>4. Cardinality(Bus!Ids(list)) = Cardinality(1..n)
  BY <1>2, <1>3, FS_Bijection DEF ExistsBijection
<1> QED
  BY <1>3, <1>4 DEF n

LEMMA BusDelivers == Bus!BusParameters /\ BusInv => Bus!TypeOK /\ Bus!InOrder /\ Bus!NoneSkipped
<1> SUFFICES ASSUME Bus!BusParameters, BusInv PROVE Bus!TypeOK /\ Bus!InOrder /\ Bus!NoneSkipped
  OBVIOUS
<1>1. /\ nextId \in 1..(MaxListeners + 1) /\ listeners \in Seq(Listener(nextId)) /\ queue \in Seq(WodalEvents)
      /\ stack \in Seq(DeliveryRecord(nextId)) /\ budget \in 0..2 /\ MaxListeners \in Nat
  BY DEF BusInv, BusTypes, Bus!BusParameters
<1>2. Bus!TypeOK
  <2>1. \A i \in DOMAIN listeners : listeners[i] \in Listener(nextId)
    BY <1>1, Elements
  <2>2. 1..(nextId - 1) \subseteq 1..MaxListeners
    BY <1>1
  <2>3. Bus!Ids(listeners) \subseteq 1..MaxListeners
    BY <2>1, <2>2 DEF Listener, Bus!Ids
  <2>4. Cardinality(Bus!Ids(listeners)) = Len(listeners)
    BY <1>1, Registered DEF BusInv, StackInv
  <2>5. Len(stack) <= MaxDepth /\ (running => stack # <<>>)
    BY DEF BusInv, StackInv
  <2>6. Bus!Cardinality(Bus!Ids(listeners)) = Cardinality(Bus!Ids(listeners))
    BY DEF Bus!Cardinality, Cardinality
  <2> QED
    BY <1>1, <2>3, <2>4, <2>5, <2>6 DEF Bus!TypeOK
<1>3. Bus!InOrder
  <2>1. DOMAIN queue = 1..Len(queue) /\ Len(queue) \in Nat
    BY <1>1
  <2>2. \A i \in DOMAIN queue : queue[i] \in WodalEvents
    BY <1>1, Elements
  <2>3. \A i \in DOMAIN queue : queue[i].n \in Nat
    BY <2>2 DEF WodalEvents
  <2>4. /\ delivered \in Int
        /\ \A i \in DOMAIN queue : delivered < queue[i].n
        /\ \A i, j \in DOMAIN queue : i < j => queue[i].n < queue[j].n
    BY DEF BusInv, QueueInv
  <2>5. \A i \in DOMAIN queue : queue[i].n > delivered
    BY <2>3, <2>4
  <2>6. \A i \in DOMAIN queue : \A j \in 1..(i - 1) : j \in DOMAIN queue /\ j < i
    BY <2>1
  <2> QED
    BY <2>4, <2>5, <2>6 DEF Bus!InOrder
<1>4. Bus!NoneSkipped
  <2> DEFINE d == stack[Len(stack)]
  <2> SUFFICES ASSUME Bus!Finished
               PROVE  /\ d.called \subseteq d.before
                      /\ \A i \in DOMAIN listeners :
                            listeners[i].id \in d.before /\ Bus!Matching(listeners[i], d.event)
                            => listeners[i].id \in d.called
    BY DEF Bus!NoneSkipped, Bus!Innermost
  <2>1. stack # <<>> /\ d.at > Len(d.list)
    BY DEF Bus!Finished, Bus!Innermost, Bus!Walked
  <2>2. Len(stack) \in DOMAIN stack
    BY <1>1, <2>1
  <2>3. d \in DeliveryRecord(nextId) /\ SoundDelivery(d, listeners)
    BY <1>1, <2>2, Elements DEF BusInv, StackInv
  <2> HIDE DEF d
  <2>4. d.list \in Seq(Listener(nextId)) /\ d.at \in Nat
    BY <2>3 DEF DeliveryRecord
  <2>5. \A j \in DOMAIN d.list : j < d.at
    BY <2>1, <2>4
  <2> QED
    BY <2>3, <2>5 DEF SoundDelivery
<1> QED
  BY <1>2, <1>3, <1>4

(* Queued events are delivered in the order they were raised, each once,    *)
(* and a delivery calls every matching listener that was there when it      *)
(* began and still is, whatever the handlers raise, listen for or ignore    *)
(* meanwhile (MessageBus.drain, MessageBus.deliver).                        *)
THEOREM EventsAreDeliveredOnce == BoardSpec => []DeliveredOnce
<1>1. Bus!BusParameters
  BY BoardAssumption
<1>2. BusInv => DeliveredOnce
  BY <1>1, BusDelivers DEF DeliveredOnce
<1> QED
  BY <1>2, BusHolds, PTL

-----------------------------------------------------------------------------
(* The speaker.                                                             *)

Numbered(n) == (1..n) \cup {NoPlay}
SpeakerRecord == [lastId : Nat, play : Nat \cup {NoPlay}, playId : Nat,
                  sound : Sounds \cup {NoPlay}, left : Nat, before : Nat]
VoiceRecord == [play : Nat \cup {NoPlay}, playId : Nat]

SpeakerTypes ==
    /\ fleet \subseteq Owners /\ plays \in 0..MaxPlays /\ fleets \in 0..MaxFleets
    /\ context \in {"none", "suspended", "running"} /\ gestures \subseteq Speaker!UnlockGestures
    /\ resuming \in BOOLEAN /\ synced \in BOOLEAN
    /\ speaker \in [Owners -> SpeakerRecord] /\ voice \in [Owners -> VoiceRecord]

(* What a speaker says of its play: it was made since the device was put    *)
(* up, its id is one the device has given, and its time is not over.        *)
Sane(s, n) ==
    /\ s.play \in Numbered(n) /\ s.lastId <= n /\ s.before <= n
    /\ Speaker!Busy(s) => s.playId \in 1..s.lastId /\ s.left > 0 /\ s.sound \in Sounds /\ s.play > s.before
(* A voice and the speaker it may be told from by the id of its play alone. *)
(* A voice of the device itself: a play of the same id is the same play,    *)
(* and a play that is to come has a later id.  A voice of the device before *)
(* it: once the new one has made a play, the voice is that of a first play. *)
Told(v, s) == Speaker!Sounding(v) =>
    /\ v.play > s.before => v.playId <= s.lastId /\ (Speaker!Kept(v, s) => v.play = s.play)
    /\ v.play <= s.before => s.lastId = 0 \/ v.playId = 1
(* What the end of a frame leaves of a voice that sounds.                   *)
Owned(v, s) == /\ Speaker!Busy(s) /\ v.playId = s.playId
               /\ v.play = s.play \/ Speaker!PassesFor(v, s)
OneSource(i) == sources[i] = (IF Speaker!Sounding(voice[i]) THEN 1 ELSE 0)

SpeakerInv ==
    /\ SpeakerTypes
    /\ \A i \in Owners : Sane(speaker[i], plays) /\ voice[i].play \in Numbered(plays) /\ Told(voice[i], speaker[i])
    /\ \A i \in Owners : OneSource(i) /\ (Speaker!Sounding(voice[i]) => i \in fleet)
    /\ Speaker!HeardIsPlayed /\ Speaker!PlayedIsHeard

-----------------------------------------------------------------------------
LEMMA FreshFacts ==
    ASSUME Speaker!SpeakerParameters, NEW n \in Nat
    PROVE  /\ Speaker!FreshSpeaker(n) \in SpeakerRecord /\ Sane(Speaker!FreshSpeaker(n), n)
           /\ \A v : v.play \in Numbered(n) => Told(v, Speaker!FreshSpeaker(n))
<1> DEFINE f == Speaker!FreshSpeaker(n)
<1>1. f = [lastId |-> 0, play |-> NoPlay, playId |-> 0, sound |-> NoPlay, left |-> 0, before |-> n]
  BY DEF Speaker!FreshSpeaker
<1> HIDE DEF f
<1>2. f.play = NoPlay /\ f.lastId = 0 /\ f.before = n
  BY <1>1
<1>3. f \in SpeakerRecord
  BY <1>1 DEF SpeakerRecord
<1>4. ~Speaker!Busy(f)
  BY <1>2 DEF Speaker!Busy
<1>5. Sane(f, n)
  BY <1>2, <1>4 DEF Sane, Numbered
<1>6. \A v : v.play \in Numbered(n) => Told(v, f)
  BY <1>2, <1>4 DEF Told, Numbered, Speaker!Kept, Speaker!Sounding
<1> QED
  BY <1>3, <1>5, <1>6 DEF f

LEMMA SilentFacts ==
    ASSUME Speaker!SpeakerParameters, NEW n \in Nat
    PROVE  /\ Speaker!Silent \in VoiceRecord /\ Speaker!Silent.play \in Numbered(n) /\ ~Speaker!Sounding(Speaker!Silent)
           /\ \A s : Told(Speaker!Silent, s)
<1> DEFINE v == Speaker!Silent
<1>1. v = [play |-> NoPlay, playId |-> 0]
  BY DEF Speaker!Silent
<1> HIDE DEF v
<1>2. v.play = NoPlay
  BY <1>1
<1>3. v \in VoiceRecord
  BY <1>1 DEF VoiceRecord
<1>4. ~Speaker!Sounding(v) /\ v.play \in Numbered(n)
  BY <1>2 DEF Speaker!Sounding, Numbered
<1>5. \A s : Told(v, s)
  BY <1>4 DEF Told, Speaker!Kept
<1> QED
  BY <1>3, <1>4, <1>5 DEF v

(* A voice that changes stops its source and begins another.                *)
LEMMA HeardFacts ==
    ASSUME NEW v, NEW w, NEW b, b = IF Speaker!Sounding(v) THEN 1 ELSE 0
    PROVE  Speaker!Heard(b, v, w) = IF Speaker!Sounding(w) THEN 1 ELSE 0
<1>1. b \in {0, 1}
  OBVIOUS
<1> QED
  BY <1>1 DEF Speaker!Heard

LEMMA SilenceFacts ==
    ASSUME Speaker!SpeakerParameters, NEW s \in SpeakerRecord, NEW n \in Nat, Sane(s, n)
    PROVE  /\ Speaker!Silence(s) \in SpeakerRecord /\ Sane(Speaker!Silence(s), n)
           /\ Speaker!Silence(s).lastId = s.lastId /\ Speaker!Silence(s).before = s.before
           /\ ~Speaker!Busy(Speaker!Silence(s))
           /\ \A v : Told(v, s) => Told(v, Speaker!Silence(s))
<1> DEFINE r == Speaker!Silence(s)
<1>1. r = [s EXCEPT !.play = NoPlay, !.playId = 0, !.sound = NoPlay, !.left = 0]
  BY DEF Speaker!Silence
<1> HIDE DEF r
<1>2. s = [lastId |-> s.lastId, play |-> s.play, playId |-> s.playId, sound |-> s.sound, left |-> s.left, before |-> s.before]
      /\ s.lastId \in Nat /\ s.before \in Nat
  BY DEF SpeakerRecord
<1>3. r = [lastId |-> s.lastId, play |-> NoPlay, playId |-> 0, sound |-> NoPlay, left |-> 0, before |-> s.before]
  BY <1>1, <1>2
<1>4. r.play = NoPlay /\ r.lastId = s.lastId /\ r.before = s.before
  BY <1>3
<1>5. r \in SpeakerRecord
  BY <1>2, <1>3 DEF SpeakerRecord
<1>6. ~Speaker!Busy(r)
  BY <1>4 DEF Speaker!Busy
<1>7. Sane(r, n)
  BY <1>4, <1>6 DEF Sane, Numbered
<1>8. \A v : Told(v, s) => Told(v, r)
  BY <1>4, <1>6 DEF Told, Speaker!Kept
<1> QED
  BY <1>4, <1>5, <1>6, <1>7, <1>8 DEF r

(* The speaker of a device at the end of a tick in which no play began.     *)
Ticked(s) == Speaker!Completed(Speaker!Elapsed(s, FALSE))
LEMMA TickedFacts ==
    ASSUME Speaker!SpeakerParameters, NEW s \in SpeakerRecord, NEW n \in Nat, Sane(s, n)
    PROVE  /\ Ticked(s) \in SpeakerRecord /\ Sane(Ticked(s), n) /\ Ticked(s).before = s.before /\ Ticked(s).lastId = s.lastId
           /\ Speaker!Busy(Ticked(s)) => Speaker!Busy(s) /\ Ticked(s).play = s.play /\ Ticked(s).playId = s.playId
<1> DEFINE e == Speaker!Elapsed(s, FALSE)
           c == Speaker!Completed(e)
           r == Ticked(s)
<1>1. /\ s = [lastId |-> s.lastId, play |-> s.play, playId |-> s.playId, sound |-> s.sound, left |-> s.left, before |-> s.before]
      /\ s.lastId \in Nat /\ s.before \in Nat /\ s.play \in Nat \cup {NoPlay} /\ s.playId \in Nat
      /\ s.sound \in Sounds \cup {NoPlay} /\ s.left \in Nat
  BY DEF SpeakerRecord
<1>2. r = c
  BY DEF Ticked
<1>3. CASE ~Speaker!Busy(s)
  <2>1. e = s
    BY <1>3 DEF Speaker!Elapsed
  <2>2. c = s
    BY <1>3, <2>1 DEF Speaker!Completed
  <2> HIDE DEF c, e, r
  <2>3. r = [lastId |-> s.lastId, play |-> s.play, playId |-> s.playId, sound |-> s.sound, left |-> s.left, before |-> s.before]
    BY <1>1, <1>2, <2>2
  <2>4. r.play = s.play /\ r.lastId = s.lastId /\ r.before = s.before
    BY <2>3
  <2>5. r \in SpeakerRecord
    BY <1>1, <2>3 DEF SpeakerRecord
  <2>6. ~Speaker!Busy(r)
    BY <1>3, <2>4 DEF Speaker!Busy
  <2>7. Sane(r, n)
    BY <2>4, <2>6 DEF Sane
  <2> QED
    BY <2>4, <2>5, <2>6, <2>7 DEF r
<1>4. CASE Speaker!Busy(s) /\ s.left > 1
  <2>1. e = [s EXCEPT !.left = @ - 1]
    BY <1>4 DEF Speaker!Elapsed
  <2> HIDE DEF e
  <2>2. e = [lastId |-> s.lastId, play |-> s.play, playId |-> s.playId, sound |-> s.sound, left |-> s.left - 1, before |-> s.before]
    BY <1>1, <2>1
  <2>3. e.left = s.left - 1 /\ ~(s.left - 1 <= 0)
    BY <1>1, <1>4, <2>2
  <2>4. c = e
    BY <2>3 DEF Speaker!Completed
  <2> HIDE DEF c, r
  <2>5. r = [lastId |-> s.lastId, play |-> s.play, playId |-> s.playId, sound |-> s.sound, left |-> s.left - 1, before |-> s.before]
    BY <1>1, <1>2, <2>2, <2>4
  <2>6. r.play = s.play /\ r.lastId = s.lastId /\ r.before = s.before /\ r.playId = s.playId /\ r.sound = s.sound /\ r.left = s.left - 1
    BY <2>5
  <2>7. s.left - 1 \in Nat /\ s.left - 1 > 0
    BY <1>1, <1>4
  <2>8. r \in SpeakerRecord
    BY <1>1, <2>5, <2>7 DEF SpeakerRecord
  <2>9. Sane(r, n)
    <3>1. Speaker!Busy(r) = Speaker!Busy(s)
      BY <2>6 DEF Speaker!Busy
    <3> QED
      BY <1>4, <2>6, <2>7, <3>1 DEF Sane
  <2> QED
    BY <1>4, <2>6, <2>8, <2>9 DEF r
<1>5. CASE Speaker!Busy(s) /\ ~(s.left > 1)
  <2>1. e = [s EXCEPT !.left = @ - 1]
    BY <1>5 DEF Speaker!Elapsed
  <2> HIDE DEF e
  <2>2. e = [lastId |-> s.lastId, play |-> s.play, playId |-> s.playId, sound |-> s.sound, left |-> s.left - 1, before |-> s.before]
    BY <1>1, <2>1
  <2>3. s.left > 0
    BY <1>5 DEF Sane
  <2>4. e.left <= 0 /\ Speaker!Busy(e)
    BY <1>1, <1>5, <2>2, <2>3 DEF Speaker!Busy
  <2>5. c = [e EXCEPT !.play = NoPlay, !.playId = 0, !.sound = NoPlay, !.left = 0]
    BY <2>4 DEF Speaker!Completed, Speaker!Silence
  <2> HIDE DEF c, r
  <2>6. r = [lastId |-> s.lastId, play |-> NoPlay, playId |-> 0, sound |-> NoPlay, left |-> 0, before |-> s.before]
    BY <1>1, <1>2, <2>2, <2>5
  <2>7. r.play = NoPlay /\ r.lastId = s.lastId /\ r.before = s.before
    BY <2>6
  <2>8. r \in SpeakerRecord
    BY <1>1, <2>6 DEF SpeakerRecord
  <2>9. ~Speaker!Busy(r)
    BY <2>7 DEF Speaker!Busy
  <2>10. Sane(r, n)
    BY <2>7, <2>9 DEF Sane, Numbered
  <2> QED
    BY <2>7, <2>8, <2>9, <2>10 DEF r
<1> QED
  BY <1>3, <1>4, <1>5

(* And of a device in which play n began: one that renders no samples ends  *)
(* in the tick it began in.                                                 *)
Begun(s, w, n) == Speaker!Completed(Speaker!Elapsed(Speaker!Started(s, w, n), TRUE))
LEMMA BegunFacts ==
    ASSUME Speaker!SpeakerParameters, NEW s \in SpeakerRecord, NEW n \in Nat, Sane(s, n), NEW w \in Sounds
    PROVE  /\ Begun(s, w, n + 1) \in SpeakerRecord /\ Sane(Begun(s, w, n + 1), n + 1)
           /\ Begun(s, w, n + 1).before = s.before /\ Begun(s, w, n + 1).lastId = s.lastId + 1
           /\ Speaker!Busy(Begun(s, w, n + 1)) => Begun(s, w, n + 1).playId = s.lastId + 1
<1> DEFINE e == Speaker!Started(s, w, n + 1)
           c == Speaker!Completed(e)
           r == Begun(s, w, n + 1)
<1>1. /\ s = [lastId |-> s.lastId, play |-> s.play, playId |-> s.playId, sound |-> s.sound, left |-> s.left, before |-> s.before]
      /\ s.lastId \in Nat /\ s.before \in Nat
  BY DEF SpeakerRecord
<1>2. Durations[w] \in Nat /\ NoPlay \notin Nat /\ s.lastId <= n /\ s.before <= n
  BY DEF Speaker!SpeakerParameters, Sane
<1>3. r = c
  BY DEF Begun, Speaker!Elapsed
<1>4. e = [s EXCEPT !.lastId = @ + 1, !.play = n + 1, !.playId = s.lastId + 1, !.sound = w, !.left = Durations[w]]
  BY DEF Speaker!Started
<1> HIDE DEF e
<1>5. e = [lastId |-> s.lastId + 1, play |-> n + 1, playId |-> s.lastId + 1, sound |-> w, left |-> Durations[w], before |-> s.before]
  BY <1>1, <1>4
<1>6. n + 1 \in 1..(n + 1) /\ n + 1 # NoPlay /\ s.lastId + 1 \in 1..(s.lastId + 1) /\ s.lastId + 1 <= n + 1 /\ s.lastId + 1 \in Nat
      /\ s.before <= n + 1 /\ n + 1 > s.before
  BY <1>1, <1>2
<1>7. CASE Durations[w] > 0
  <2>1. c = e
    BY <1>2, <1>5, <1>7 DEF Speaker!Completed
  <2> HIDE DEF c, r
  <2>2. r = [lastId |-> s.lastId + 1, play |-> n + 1, playId |-> s.lastId + 1, sound |-> w, left |-> Durations[w], before |-> s.before]
    BY <1>3, <1>5, <2>1
  <2>3. /\ r.play = n + 1 /\ r.lastId = s.lastId + 1 /\ r.before = s.before /\ r.playId = s.lastId + 1
        /\ r.sound = w /\ r.left = Durations[w]
    BY <2>2
  <2>4. r \in SpeakerRecord
    BY <1>2, <1>6, <2>2 DEF SpeakerRecord
  <2>5. Sane(r, n + 1)
    BY <1>6, <1>7, <2>3 DEF Sane, Numbered
  <2> QED
    BY <2>3, <2>4, <2>5 DEF r
<1>8. CASE ~(Durations[w] > 0)
  <2>1. e.left <= 0 /\ Speaker!Busy(e)
    BY <1>2, <1>5, <1>6, <1>8 DEF Speaker!Busy
  <2>2. c = [e EXCEPT !.play = NoPlay, !.playId = 0, !.sound = NoPlay, !.left = 0]
    BY <2>1 DEF Speaker!Completed, Speaker!Silence
  <2> HIDE DEF c, r
  <2>3. r = [lastId |-> s.lastId + 1, play |-> NoPlay, playId |-> 0, sound |-> NoPlay, left |-> 0, before |-> s.before]
    BY <1>3, <1>5, <2>2
  <2>4. r.play = NoPlay /\ r.lastId = s.lastId + 1 /\ r.before = s.before
    BY <2>3
  <2>5. r \in SpeakerRecord
    BY <1>6, <2>3 DEF SpeakerRecord
  <2>6. ~Speaker!Busy(r)
    BY <2>4 DEF Speaker!Busy
  <2>7. Sane(r, n + 1)
    BY <1>6, <2>4, <2>6 DEF Sane, Numbered
  <2> QED
    BY <2>4, <2>5, <2>6, <2>7 DEF r
<1> QED
  BY <1>2, <1>7, <1>8

(* What the renderer makes of a voice and its speaker.                      *)
LEMMA SyncedFacts ==
    ASSUME Speaker!SpeakerParameters, NEW n \in Nat, NEW v \in VoiceRecord, v.play \in Numbered(n),
           NEW s \in SpeakerRecord, Sane(s, n), Speaker!Kept(v, s) => Owned(v, s)
    PROVE  LET w == Speaker!Synced(v, s) IN
           /\ w \in VoiceRecord /\ w.play \in Numbered(n) /\ Told(w, s)
           /\ Speaker!Sounding(w) => Owned(w, s)
           /\ Speaker!Plays(s) => Speaker!Sounding(w)
<1> DEFINE w == Speaker!Synced(v, s)
<1>1. /\ s.lastId \in Nat /\ s.playId \in Nat /\ s.play \in Nat \cup {NoPlay} /\ s.before \in Nat
      /\ v.play \in Nat \cup {NoPlay}
  BY DEF SpeakerRecord, VoiceRecord
<1>2. CASE Speaker!Kept(v, s)
  <2>1. w = v /\ Owned(v, s) /\ Speaker!Sounding(v) /\ Speaker!Busy(s) /\ v.playId = s.playId
    BY <1>2 DEF Speaker!Synced, Speaker!Kept
  <2> HIDE DEF w
  <2>2. s.playId <= s.lastId /\ s.play > s.before /\ s.play \in Nat
    BY <1>1, <2>1 DEF Sane, Speaker!Busy
  <2>3. ASSUME v.play = s.play PROVE Told(v, s)
    <3>1. v.play > s.before /\ ~(v.play <= s.before) /\ v.playId <= s.lastId
      BY <1>1, <2>1, <2>2, <2>3
    <3> QED
      BY <2>3, <3>1 DEF Told
  <2>4. ASSUME v.play <= s.before, v.playId = 1 PROVE Told(v, s)
    <3>1. v.play \in Nat
      BY <1>1, <2>1 DEF Speaker!Sounding
    <3>2. ~(v.play > s.before)
      BY <1>1, <2>4, <3>1
    <3> QED
      BY <2>4, <3>2 DEF Told
  <2>5. Told(w, s)
    BY <2>1, <2>3, <2>4 DEF Owned, Speaker!PassesFor
  <2> QED
    BY <2>1, <2>5 DEF w
<1>3. CASE ~Speaker!Kept(v, s) /\ Speaker!Plays(s)
  <2>1. w = [play |-> s.play, playId |-> s.playId] /\ Speaker!Busy(s)
    BY <1>3 DEF Speaker!Synced, Speaker!Plays
  <2> HIDE DEF w
  <2>2. w.play = s.play /\ w.playId = s.playId
    BY <2>1
  <2>3. w \in VoiceRecord
    BY <1>1, <2>1 DEF VoiceRecord
  <2>4. s.playId <= s.lastId /\ s.play \in Numbered(n) /\ s.play > s.before /\ s.play \in Nat
    BY <1>1, <2>1 DEF Sane, Speaker!Busy
  <2>5. Told(w, s)
    BY <1>1, <2>2, <2>4 DEF Told
  <2>6. Speaker!Sounding(w) /\ Owned(w, s)
    BY <2>1, <2>2 DEF Owned, Speaker!Sounding, Speaker!Busy
  <2> QED
    BY <2>2, <2>3, <2>4, <2>5, <2>6 DEF w
<1>4. CASE ~Speaker!Kept(v, s) /\ ~Speaker!Plays(s)
  <2>1. w = Speaker!Silent
    BY <1>4 DEF Speaker!Synced
  <2> HIDE DEF w
  <2>2. w \in VoiceRecord /\ w.play \in Numbered(n) /\ ~Speaker!Sounding(w) /\ Told(w, s)
    BY <2>1, SilentFacts
  <2> QED
    BY <1>4, <2>2 DEF w
<1> QED
  BY <1>2, <1>3, <1>4

LEMMA SpeakerInit == Speaker!SpeakerParameters /\ Speaker!Init => SpeakerInv
<1> SUFFICES ASSUME Speaker!SpeakerParameters, Speaker!Init PROVE SpeakerInv
  OBVIOUS
<1>1. /\ fleet \in SUBSET Owners /\ speaker = [i \in Owners |-> Speaker!FreshSpeaker(0)]
      /\ context = "none" /\ resuming = FALSE /\ gestures = Speaker!UnlockGestures
      /\ voice = [i \in Owners |-> Speaker!Silent] /\ sources = [i \in Owners |-> 0]
      /\ synced = FALSE /\ plays = 0 /\ fleets = 0
  BY DEF Speaker!Init
<1>2. 0 \in Nat /\ MaxPlays \in Nat /\ MaxFleets \in Nat
  BY DEF Speaker!SpeakerParameters
<1>3. /\ Speaker!FreshSpeaker(0) \in SpeakerRecord /\ Sane(Speaker!FreshSpeaker(0), 0)
      /\ Told(Speaker!Silent, Speaker!FreshSpeaker(0))
      /\ Speaker!Silent \in VoiceRecord /\ Speaker!Silent.play \in Numbered(0) /\ ~Speaker!Sounding(Speaker!Silent)
  BY <1>2, FreshFacts, SilentFacts
<1>4. SpeakerTypes
  <2>1. plays \in 0..MaxPlays /\ fleets \in 0..MaxFleets
    BY <1>1, <1>2
  <2>2. speaker \in [Owners -> SpeakerRecord] /\ voice \in [Owners -> VoiceRecord]
    BY <1>1, <1>3
  <2>3. resuming \in BOOLEAN /\ synced \in BOOLEAN
    BY <1>1, Zenon
  <2> QED
    BY <1>1, <2>1, <2>2, <2>3 DEF SpeakerTypes
<1>5. \A i \in Owners : speaker[i] = Speaker!FreshSpeaker(0) /\ voice[i] = Speaker!Silent /\ sources[i] = 0
  BY <1>1
<1>6. \A i \in Owners : Sane(speaker[i], plays) /\ voice[i].play \in Numbered(plays) /\ Told(voice[i], speaker[i])
  BY <1>1, <1>3, <1>5
<1>7. \A i \in Owners : OneSource(i) /\ (Speaker!Sounding(voice[i]) => i \in fleet)
  BY <1>3, <1>5 DEF OneSource
<1>8. Speaker!HeardIsPlayed /\ Speaker!PlayedIsHeard
  BY <1>1 DEF Speaker!HeardIsPlayed, Speaker!PlayedIsHeard
<1> QED
  BY <1>4, <1>6, <1>7, <1>8 DEF SpeakerInv

-----------------------------------------------------------------------------
(* Steps that are no frame: the program, the fleet, the browser.            *)
LEMMA FlashKeeps ==
    ASSUME Speaker!SpeakerParameters, SpeakerInv, NEW i \in Owners, Speaker!Flash(i)
    PROVE  SpeakerInv'
<1>1. /\ speaker' = [speaker EXCEPT ![i] = Speaker!Silence(@)] /\ synced' = FALSE /\ fleet' = fleet
      /\ context' = context /\ resuming' = resuming /\ gestures' = gestures
      /\ voice' = voice /\ sources' = sources /\ plays' = plays /\ fleets' = fleets
  BY DEF Speaker!Flash, Speaker!audio
<1>2. /\ SpeakerTypes
      /\ \A j \in Owners : Sane(speaker[j], plays) /\ voice[j].play \in Numbered(plays) /\ Told(voice[j], speaker[j])
      /\ \A j \in Owners : OneSource(j) /\ (Speaker!Sounding(voice[j]) => j \in fleet)
  BY DEF SpeakerInv
<1>3. speaker \in [Owners -> SpeakerRecord] /\ plays \in Nat /\ MaxPlays \in Nat
  BY <1>2 DEF SpeakerTypes, Speaker!SpeakerParameters
<1>4. \A j \in Owners : speaker'[j] = IF j = i THEN Speaker!Silence(speaker[i]) ELSE speaker[j]
  BY <1>1, <1>3
<1>5. speaker[i] \in SpeakerRecord
  BY <1>3
<1>6. /\ Speaker!Silence(speaker[i]) \in SpeakerRecord /\ Sane(Speaker!Silence(speaker[i]), plays)
      /\ Told(voice[i], Speaker!Silence(speaker[i]))
  BY <1>2, <1>3, <1>5, SilenceFacts
<1>7. SpeakerTypes'
  <2>1. speaker' \in [Owners -> SpeakerRecord]
    BY <1>1, <1>3, <1>6
  <2>2. synced' \in BOOLEAN
    BY <1>1, Zenon
  <2> QED
    BY <1>1, <1>2, <2>1, <2>2 DEF SpeakerTypes
<1>8. \A j \in Owners : Sane(speaker'[j], plays) /\ voice[j].play \in Numbered(plays) /\ Told(voice[j], speaker'[j])
  BY <1>2, <1>4, <1>6
<1>9. (Speaker!HeardIsPlayed /\ Speaker!PlayedIsHeard)'
  BY <1>1 DEF Speaker!HeardIsPlayed, Speaker!PlayedIsHeard
<1> QED
  BY <1>1, <1>2, <1>7, <1>8, <1>9 DEF SpeakerInv, OneSource

LEMMA FleetBecomesKeeps ==
    ASSUME Speaker!SpeakerParameters, SpeakerInv, NEW ids \in SUBSET Owners, NEW fresh,
           Speaker!FleetBecomes(ids, fresh)
    PROVE  SpeakerInv'
<1>1. /\ fleets < MaxFleets /\ fleets' = fleets + 1 /\ fleet' = ids
      /\ speaker' = [j \in Owners |-> IF j \in fresh THEN Speaker!FreshSpeaker(plays) ELSE speaker[j]]
      /\ voice' = [j \in Owners |-> IF j \in ids THEN voice[j] ELSE Speaker!Silent]
      /\ sources' = [j \in Owners |-> Speaker!Heard(sources[j], voice[j], voice'[j])]
      /\ synced' = FALSE /\ context' = context /\ resuming' = resuming /\ gestures' = gestures /\ plays' = plays
  BY DEF Speaker!FleetBecomes, Speaker!Retained, Speaker!audio
<1>2. /\ SpeakerTypes
      /\ \A j \in Owners : Sane(speaker[j], plays) /\ voice[j].play \in Numbered(plays) /\ Told(voice[j], speaker[j])
      /\ \A j \in Owners : OneSource(j) /\ (Speaker!Sounding(voice[j]) => j \in fleet)
  BY DEF SpeakerInv
<1>3. /\ speaker \in [Owners -> SpeakerRecord] /\ voice \in [Owners -> VoiceRecord] /\ plays \in Nat
      /\ fleets \in 0..MaxFleets /\ MaxFleets \in Nat
  BY <1>2 DEF SpeakerTypes, Speaker!SpeakerParameters
<1>4. \A j \in Owners : speaker'[j] \in SpeakerRecord /\ Sane(speaker'[j], plays) /\ Told(voice[j], speaker'[j])
  <2> TAKE j \in Owners
  <2>1. CASE j \in fresh
    <3>1. speaker'[j] = Speaker!FreshSpeaker(plays)
      BY <1>1, <2>1
    <3> QED
      BY <1>2, <1>3, <3>1, FreshFacts
  <2>2. CASE j \notin fresh
    <3>1. speaker'[j] = speaker[j]
      BY <1>1, <2>2
    <3> QED
      BY <1>2, <1>3, <3>1
  <2> QED
    BY <2>1, <2>2
<1>5. \A j \in Owners : /\ voice'[j] \in VoiceRecord /\ voice'[j].play \in Numbered(plays)
                        /\ Told(voice'[j], speaker'[j])
                        /\ Speaker!Sounding(voice'[j]) => j \in ids
  <2> TAKE j \in Owners
  <2>1. CASE j \in ids
    <3>1. voice'[j] = voice[j]
      BY <1>1, <2>1
    <3> QED
      BY <1>2, <1>3, <1>4, <2>1, <3>1
  <2>2. CASE j \notin ids
    <3>1. voice'[j] = Speaker!Silent
      BY <1>1, <2>2
    <3> QED
      BY <1>3, <3>1, SilentFacts
  <2> QED
    BY <2>1, <2>2
<1>6. \A j \in Owners : sources'[j] = IF Speaker!Sounding(voice'[j]) THEN 1 ELSE 0
  <2> TAKE j \in Owners
  <2>1. sources[j] = IF Speaker!Sounding(voice[j]) THEN 1 ELSE 0
    BY <1>2 DEF OneSource
  <2>2. sources'[j] = Speaker!Heard(sources[j], voice[j], voice'[j])
    BY <1>1
  <2> QED
    BY <2>1, <2>2, HeardFacts
<1>7. SpeakerTypes'
  <2>1. speaker' \in [Owners -> SpeakerRecord] /\ voice' \in [Owners -> VoiceRecord]
    <3>1. speaker' = [j \in Owners |-> speaker'[j]] /\ voice' = [j \in Owners |-> voice'[j]]
      BY <1>1
    <3>2. \A j \in Owners : speaker'[j] \in SpeakerRecord
      BY <1>4
    <3>3. \A j \in Owners : voice'[j] \in VoiceRecord
      BY <1>5
    <3>4. speaker' \in [Owners -> SpeakerRecord]
      BY <3>1, <3>2
    <3>5. voice' \in [Owners -> VoiceRecord]
      BY <3>1, <3>3
    <3> QED
      BY <3>4, <3>5
  <2>2. synced' \in BOOLEAN
    BY <1>1, Zenon
  <2>3. fleets' \in 0..MaxFleets
    BY <1>1, <1>3
  <2> QED
    BY <1>1, <1>2, <2>1, <2>2, <2>3 DEF SpeakerTypes
<1>8. (Speaker!HeardIsPlayed /\ Speaker!PlayedIsHeard)'
  BY <1>1 DEF Speaker!HeardIsPlayed, Speaker!PlayedIsHeard
<1>9. (\A j \in Owners : OneSource(j) /\ (Speaker!Sounding(voice[j]) => j \in fleet))'
  <2>1. fleet' = ids
    BY <1>1
  <2>2. \A j \in Owners : Speaker!Sounding(voice'[j]) => j \in ids
    BY <1>5
  <2> QED
    BY <1>6, <2>1, <2>2 DEF OneSource
<1>10. (\A j \in Owners : Sane(speaker[j], plays) /\ voice[j].play \in Numbered(plays) /\ Told(voice[j], speaker[j]))'
  <2>1. plays' = plays
    BY <1>1
  <2> QED
    BY <1>4, <1>5, <2>1
<1> QED
  BY <1>7, <1>8, <1>9, <1>10 DEF SpeakerInv

(* The audio context changes and the speakers do not.                       *)
LEMMA ContextKeeps ==
    ASSUME Speaker!SpeakerParameters, SpeakerInv, UNCHANGED <<fleet, speaker, voice, sources, plays, fleets>>,
           synced' = FALSE, context' \in {"none", "suspended", "running"}, resuming' \in BOOLEAN,
           gestures' \subseteq Speaker!UnlockGestures
    PROVE  SpeakerInv'
<1>1. /\ fleet' = fleet /\ speaker' = speaker /\ voice' = voice /\ sources' = sources /\ plays' = plays /\ fleets' = fleets
  OBVIOUS
<1>2. synced' \in BOOLEAN
  BY Zenon
<1>3. SpeakerTypes'
  BY <1>1, <1>2 DEF SpeakerInv, SpeakerTypes
<1>4. (Speaker!HeardIsPlayed /\ Speaker!PlayedIsHeard)'
  BY DEF Speaker!HeardIsPlayed, Speaker!PlayedIsHeard
<1> QED
  BY <1>1, <1>3, <1>4 DEF SpeakerInv, OneSource

LEMMA UnlockKeeps ==
    ASSUME Speaker!SpeakerParameters, SpeakerInv, NEW g \in gestures, Speaker!Unlock(g)
    PROVE  SpeakerInv'
<1>1. /\ UNCHANGED <<fleet, speaker, voice, sources, plays, fleets>> /\ synced' = FALSE
      /\ context' \in (IF context = "none" THEN {"none", "suspended", "running"} ELSE {context})
      /\ resuming' = (resuming \/ context' = "suspended") /\ gestures' = gestures \ {g}
  BY DEF Speaker!Unlock
<1>2. context \in {"none", "suspended", "running"} /\ gestures \subseteq Speaker!UnlockGestures
  BY DEF SpeakerInv, SpeakerTypes
<1>3. context' \in {"none", "suspended", "running"} /\ gestures' \subseteq Speaker!UnlockGestures
  BY <1>1, <1>2
<1>4. resuming' \in BOOLEAN
  BY <1>1, Zenon
<1> QED
  BY <1>1, <1>3, <1>4, ContextKeeps

LEMMA BrowserKeeps ==
    ASSUME Speaker!SpeakerParameters, SpeakerInv, Speaker!Resumed \/ Speaker!Interrupted
    PROVE  SpeakerInv'
<1>1. context \in {"none", "suspended", "running"} /\ gestures \subseteq Speaker!UnlockGestures /\ resuming \in BOOLEAN
  BY DEF SpeakerInv, SpeakerTypes
<1>2. CASE Speaker!Resumed
  <2>1. /\ UNCHANGED <<fleet, speaker, voice, sources, plays, fleets>> /\ synced' = FALSE
        /\ context' = "running" /\ resuming' = FALSE /\ gestures' = gestures
    BY <1>2 DEF Speaker!Resumed
  <2>2. resuming' \in BOOLEAN
    BY <2>1, Zenon
  <2> QED
    BY <1>1, <2>1, <2>2, ContextKeeps
<1>3. CASE Speaker!Interrupted
  <2>1. /\ UNCHANGED <<fleet, speaker, voice, sources, plays, fleets>> /\ synced' = FALSE
        /\ context' = "suspended" /\ resuming' = resuming /\ gestures' = gestures
    BY <1>3 DEF Speaker!Interrupted
  <2> QED
    BY <1>1, <2>1, ContextKeeps
<1> QED
  BY <1>2, <1>3

LEMMA DisposeKeeps ==
    ASSUME Speaker!SpeakerParameters, SpeakerInv, Speaker!Dispose
    PROVE  SpeakerInv'
<1>1. /\ fleet' = fleet /\ speaker' = speaker /\ plays' = plays /\ fleets' = fleets /\ gestures' = gestures
      /\ context' = "none" /\ resuming' = FALSE /\ synced' = FALSE
      /\ voice' = [j \in Owners |-> Speaker!Silent]
      /\ sources' = [j \in Owners |-> Speaker!Heard(sources[j], voice[j], Speaker!Silent)]
  BY DEF Speaker!Dispose
<1>2. /\ SpeakerTypes
      /\ \A j \in Owners : Sane(speaker[j], plays) /\ Told(voice[j], speaker[j])
      /\ \A j \in Owners : OneSource(j)
  BY DEF SpeakerInv
<1>3. plays \in Nat
  BY <1>2 DEF SpeakerTypes, Speaker!SpeakerParameters
<1>4. /\ Speaker!Silent \in VoiceRecord /\ Speaker!Silent.play \in Numbered(plays) /\ ~Speaker!Sounding(Speaker!Silent)
      /\ \A s : Told(Speaker!Silent, s)
  BY <1>3, SilentFacts
<1>5. \A j \in Owners : voice'[j] = Speaker!Silent
  BY <1>1
<1>6. \A j \in Owners : sources'[j] = 0
  <2> TAKE j \in Owners
  <2>1. sources[j] = IF Speaker!Sounding(voice[j]) THEN 1 ELSE 0
    BY <1>2 DEF OneSource
  <2>2. sources'[j] = Speaker!Heard(sources[j], voice[j], Speaker!Silent)
    BY <1>1
  <2> QED
    BY <1>4, <2>1, <2>2, HeardFacts
<1>7. SpeakerTypes'
  <2>1. voice' \in [Owners -> VoiceRecord]
    BY <1>1, <1>4
  <2>2. synced' \in BOOLEAN /\ resuming' \in BOOLEAN
    BY <1>1, Zenon
  <2>3. context' \in {"none", "suspended", "running"}
    BY <1>1
  <2> QED
    BY <1>1, <1>2, <2>1, <2>2, <2>3 DEF SpeakerTypes
<1>8. (Speaker!HeardIsPlayed /\ Speaker!PlayedIsHeard)'
  BY <1>1 DEF Speaker!HeardIsPlayed, Speaker!PlayedIsHeard
<1>9. (\A j \in Owners : OneSource(j) /\ (Speaker!Sounding(voice[j]) => j \in fleet))'
  BY <1>4, <1>5, <1>6 DEF OneSource
<1>10. (\A j \in Owners : Sane(speaker[j], plays) /\ voice[j].play \in Numbered(plays) /\ Told(voice[j], speaker[j]))'
  BY <1>1, <1>2, <1>4, <1>5
<1> QED
  BY <1>7, <1>8, <1>9, <1>10 DEF SpeakerInv

-----------------------------------------------------------------------------
(* A frame: every device ticks, and its voice becomes what it plays.        *)
LEMMA FrameKeeps ==
    ASSUME Speaker!SpeakerParameters, SpeakerInv, NEW i \in Owners, NEW w \in Sounds \cup {NoPlay},
           NEW preempt \in BOOLEAN, Speaker!Frame(i, w, preempt)
    PROVE  SpeakerInv'
<1> DEFINE starts == w # NoPlay /\ i \in fleet /\ Speaker!Accepts(speaker[i], preempt)
           base == IF preempt THEN Speaker!Silence(speaker[i]) ELSE speaker[i]
           n == IF starts THEN plays + 1 ELSE plays
           after(j) == IF starts /\ j = i THEN Begun(base, w, plays + 1) ELSE Ticked(speaker[j])
<1>1. /\ starts => plays < MaxPlays
      /\ plays' = n /\ synced' = TRUE /\ fleet' = fleet /\ context' = context /\ resuming' = resuming
      /\ gestures' = gestures /\ fleets' = fleets
      /\ sources' = [j \in Owners |-> Speaker!Heard(sources[j], voice[j], voice'[j])]
  BY DEF Speaker!Frame, Speaker!audio
<1>2. ASSUME NEW j \in Owners
      PROVE  LET asks == w # NoPlay /\ i \in fleet
                 s == IF j = i /\ asks /\ preempt THEN Speaker!Silence(speaker[j]) ELSE speaker[j]
                 t == IF j = i /\ starts THEN Speaker!Started(s, w, plays + 1) ELSE s
             IN  Speaker!Completed(Speaker!Elapsed(t, j = i /\ starts)) = after(j)
  <2>1. CASE j = i /\ starts
    <3>1. (j = i /\ starts) = TRUE
      BY <2>1
    <3> QED
      BY <2>1, <3>1 DEF Begun
  <2>2. CASE ~(j = i /\ starts)
    <3>1. ~(j = i /\ w # NoPlay /\ i \in fleet /\ preempt)
      BY <2>2 DEF Speaker!Accepts
    <3>2. (j = i /\ starts) = FALSE
      BY <2>2
    <3> QED
      BY <2>2, <3>1, <3>2 DEF Ticked
  <2> QED
    BY <2>1, <2>2
<1>3. \A j \in Owners : speaker'[j] = IF j \in fleet THEN after(j) ELSE speaker[j]
  <2> HIDE DEF after
  <2> QED
    BY <1>2 DEF Speaker!Frame
<1>4. \A j \in Owners : voice'[j] = IF j \in fleet THEN Speaker!Synced(voice[j], after(j)) ELSE voice[j]
  <2> HIDE DEF after
  <2> QED
    BY <1>2 DEF Speaker!Frame
<1>5. speaker' = [j \in Owners |-> speaker'[j]] /\ voice' = [j \in Owners |-> voice'[j]]
  BY DEF Speaker!Frame
<1>6. /\ SpeakerTypes
      /\ \A j \in Owners : Sane(speaker[j], plays) /\ voice[j].play \in Numbered(plays) /\ Told(voice[j], speaker[j])
      /\ \A j \in Owners : OneSource(j) /\ (Speaker!Sounding(voice[j]) => j \in fleet)
  BY DEF SpeakerInv
<1>7. /\ speaker \in [Owners -> SpeakerRecord] /\ voice \in [Owners -> VoiceRecord] /\ plays \in 0..MaxPlays
      /\ MaxPlays \in Nat /\ fleet \subseteq Owners
  BY <1>6 DEF SpeakerTypes, Speaker!SpeakerParameters
<1>8. n \in 0..MaxPlays /\ plays <= n /\ n \in Nat /\ (starts => n = plays + 1)
  <2> HIDE DEF starts
  <2> QED
    BY <1>1, <1>7
<1> HIDE DEF n
<1>9. \A j \in Owners : /\ speaker[j] \in SpeakerRecord /\ Sane(speaker[j], plays) /\ Sane(speaker[j], n)
                        /\ voice[j] \in VoiceRecord /\ voice[j].play \in Numbered(n) /\ Told(voice[j], speaker[j])
  <2>1. 1..plays \subseteq 1..n
    BY <1>7, <1>8
  <2>2. Numbered(plays) \subseteq Numbered(n)
    BY <2>1 DEF Numbered
  <2> TAKE j \in Owners
  <2>3. speaker[j] \in SpeakerRecord /\ voice[j] \in VoiceRecord
    BY <1>7
  <2>4. speaker[j].lastId \in Nat /\ speaker[j].before \in Nat
    BY <2>3 DEF SpeakerRecord
  <2>5. Sane(speaker[j], n)
    BY <1>6, <1>7, <1>8, <2>2, <2>4 DEF Sane
  <2> QED
    BY <1>6, <2>2, <2>3, <2>5
(* What a device's speaker is after its tick, and what its voice was before.*)
<1>10. ASSUME NEW j \in Owners
       PROVE  /\ after(j) \in SpeakerRecord /\ Sane(after(j), n)
              /\ Speaker!Kept(voice[j], after(j)) => Owned(voice[j], after(j))
  <2> DEFINE s == speaker[j]
             a == after(j)
  <2>1. s \in SpeakerRecord /\ Sane(s, plays) /\ Sane(s, n) /\ voice[j] \in VoiceRecord /\ Told(voice[j], s)
    BY <1>9
  <2>2. /\ s.lastId \in Nat /\ s.before \in Nat /\ s.playId \in Nat
        /\ voice[j].playId \in Nat /\ voice[j].play \in Nat \cup {NoPlay}
    BY <2>1 DEF SpeakerRecord, VoiceRecord
  <2>3. CASE ~(starts /\ j = i)
    <3>1. a = Ticked(s)
      BY <2>3
    <3> HIDE DEF a, s
    <3>2. /\ a \in SpeakerRecord /\ Sane(a, n) /\ a.before = s.before
          /\ Speaker!Busy(a) => Speaker!Busy(s) /\ a.play = s.play /\ a.playId = s.playId
      BY <1>8, <2>1, <3>1, TickedFacts
    <3>3. ASSUME Speaker!Kept(voice[j], a) PROVE Owned(voice[j], a)
      <4>1. /\ Speaker!Sounding(voice[j]) /\ Speaker!Busy(a) /\ voice[j].playId = a.playId
            /\ Speaker!Busy(s) /\ a.play = s.play /\ a.playId = s.playId /\ Speaker!Kept(voice[j], s)
        BY <3>2, <3>3 DEF Speaker!Kept
      <4>2. voice[j].play \in Nat
        BY <2>2, <4>1 DEF Speaker!Sounding
      <4>3. s.lastId # 0
        BY <2>1, <2>2, <4>1 DEF Sane
      <4>4. voice[j].play = s.play \/ (voice[j].play <= s.before /\ voice[j].playId = 1)
        BY <2>1, <2>2, <4>1, <4>2, <4>3 DEF Told
      <4> QED
        BY <3>2, <4>1, <4>4 DEF Owned, Speaker!PassesFor
    <3> QED
      BY <3>2, <3>3 DEF a
  <2>4. CASE starts /\ j = i
    <3>1. a = Begun(base, w, plays + 1) /\ w \in Sounds /\ plays \in Nat /\ n = plays + 1
      BY <1>7, <1>8, <2>4
    <3>2. /\ base \in SpeakerRecord /\ Sane(base, plays) /\ base.lastId = s.lastId /\ base.before = s.before
      <4>1. CASE preempt
        <5>1. base = Speaker!Silence(s)
          BY <2>4, <4>1
        <5> HIDE DEF base, s
        <5> QED
          BY <2>1, <3>1, <5>1, SilenceFacts
      <4>2. CASE ~preempt
        <5>1. base = s
          BY <2>4, <4>2
        <5> HIDE DEF base, s
        <5> QED
          BY <2>1, <5>1
      <4> QED
        BY <4>1, <4>2
    <3> HIDE DEF a, s, base
    <3>3. /\ a \in SpeakerRecord /\ Sane(a, n) /\ a.before = s.before
          /\ Speaker!Busy(a) => a.playId = s.lastId + 1
      <4> DEFINE b == Begun(base, w, plays + 1)
      <4>1. /\ b \in SpeakerRecord /\ Sane(b, plays + 1) /\ b.before = base.before
            /\ Speaker!Busy(b) => b.playId = base.lastId + 1
        BY <3>1, <3>2, BegunFacts
      <4>2. a = b
        BY <3>1
      <4> HIDE DEF b
      <4> QED
        BY <3>1, <3>2, <4>1, <4>2
    <3>4. ASSUME Speaker!Kept(voice[j], a) PROVE Owned(voice[j], a)
      <4>1. /\ Speaker!Sounding(voice[j]) /\ Speaker!Busy(a) /\ voice[j].playId = a.playId
            /\ voice[j].playId = s.lastId + 1
        BY <3>3, <3>4 DEF Speaker!Kept
      <4>2. voice[j].play \in Nat
        BY <2>2, <4>1 DEF Speaker!Sounding
      <4>3. ~(voice[j].play > s.before)
        BY <2>1, <2>2, <4>1 DEF Told
      <4>4. voice[j].play <= s.before
        BY <2>2, <4>2, <4>3
      <4>5. voice[j].playId = 1
        BY <2>1, <4>1, <4>4 DEF Told
      <4> QED
        BY <3>3, <4>1, <4>4, <4>5 DEF Owned, Speaker!PassesFor
    <3> QED
      BY <3>3, <3>4 DEF a
  <2> QED
    BY <2>3, <2>4
<1> HIDE DEF after, starts, base
<1>11. \A j \in Owners : /\ speaker'[j] \in SpeakerRecord /\ Sane(speaker'[j], n)
                         /\ voice'[j] \in VoiceRecord /\ voice'[j].play \in Numbered(n)
                         /\ Told(voice'[j], speaker'[j])
                         /\ Speaker!Sounding(voice'[j]) => j \in fleet /\ Owned(voice'[j], speaker'[j])
                         /\ (j \in fleet /\ Speaker!Plays(speaker'[j])) => Speaker!Sounding(voice'[j])
  <2> TAKE j \in Owners
  <2>1. CASE j \in fleet
    <3> DEFINE a == after(j)
    <3>1. speaker'[j] = a /\ voice'[j] = Speaker!Synced(voice[j], a)
      BY <1>3, <1>4, <2>1
    <3>2. /\ a \in SpeakerRecord /\ Sane(a, n)
          /\ Speaker!Kept(voice[j], a) => Owned(voice[j], a)
      BY <1>10
    <3> HIDE DEF a
    <3>3. /\ Speaker!Synced(voice[j], a) \in VoiceRecord /\ Speaker!Synced(voice[j], a).play \in Numbered(n)
          /\ Told(Speaker!Synced(voice[j], a), a)
          /\ Speaker!Sounding(Speaker!Synced(voice[j], a)) => Owned(Speaker!Synced(voice[j], a), a)
          /\ Speaker!Plays(a) => Speaker!Sounding(Speaker!Synced(voice[j], a))
      BY <1>8, <1>9, <3>2, SyncedFacts
    <3> QED
      BY <2>1, <3>1, <3>2, <3>3
  <2>2. CASE j \notin fleet
    <3>1. speaker'[j] = speaker[j] /\ voice'[j] = voice[j]
      BY <1>3, <1>4, <2>2
    <3>2. ~Speaker!Sounding(voice[j])
      BY <1>6, <2>2
    <3> QED
      BY <1>9, <2>2, <3>1, <3>2
  <2> QED
    BY <2>1, <2>2
<1>12. \A j \in Owners : sources'[j] = IF Speaker!Sounding(voice'[j]) THEN 1 ELSE 0
  <2> TAKE j \in Owners
  <2>1. sources[j] = IF Speaker!Sounding(voice[j]) THEN 1 ELSE 0
    BY <1>6 DEF OneSource
  <2>2. sources'[j] = Speaker!Heard(sources[j], voice[j], voice'[j])
    BY <1>1
  <2> QED
    BY <2>1, <2>2, HeardFacts
<1>13. SpeakerTypes'
  <2>1. \A j \in Owners : speaker'[j] \in SpeakerRecord
    BY <1>11
  <2>2. \A j \in Owners : voice'[j] \in VoiceRecord
    BY <1>11
  <2>3. speaker' \in [Owners -> SpeakerRecord]
    BY <1>5, <2>1
  <2>4. voice' \in [Owners -> VoiceRecord]
    BY <1>5, <2>2
  <2>5. synced' \in BOOLEAN
    BY <1>1, Zenon
  <2>6. /\ plays' \in 0..MaxPlays /\ fleet' = fleet /\ context' = context /\ resuming' = resuming
        /\ gestures' = gestures /\ fleets' = fleets
    BY <1>1, <1>8
  <2> QED
    BY <1>6, <2>3, <2>4, <2>5, <2>6 DEF SpeakerTypes
<1>14. plays' = n /\ fleet' = fleet /\ context' = context
  BY <1>1
<1>15. (\A j \in Owners : Sane(speaker[j], plays) /\ voice[j].play \in Numbered(plays) /\ Told(voice[j], speaker[j]))'
  BY <1>11, <1>14
<1>16. (\A j \in Owners : OneSource(j) /\ (Speaker!Sounding(voice[j]) => j \in fleet))'
  BY <1>11, <1>12, <1>14 DEF OneSource
<1>17. Speaker!HeardIsPlayed'
  BY <1>11, <1>14 DEF Speaker!HeardIsPlayed, Owned, Speaker!PassesFor
<1>18. Speaker!PlayedIsHeard'
  <2>1. \A j \in fleet : j \in Owners
    BY <1>7
  <2>2. \A j \in fleet : Speaker!Plays(speaker'[j]) => Speaker!Sounding(voice'[j])
    BY <1>11, <2>1
  <2> QED
    BY <1>14, <2>2 DEF Speaker!PlayedIsHeard, Speaker!Plays
<1> QED
  BY <1>13, <1>15, <1>16, <1>17, <1>18 DEF SpeakerInv

LEMMA SpeakerStep == Speaker!SpeakerParameters /\ SpeakerInv /\ Speaker!Next => SpeakerInv'
<1> SUFFICES ASSUME Speaker!SpeakerParameters, SpeakerInv, Speaker!Next PROVE SpeakerInv'
  OBVIOUS
<1>1. fleet \subseteq Owners
  BY DEF SpeakerInv, SpeakerTypes
<1>2. CASE \E i \in Owners : Speaker!AddInstance(i) \/ Speaker!RemoveInstance(i)
  <2>1. PICK i \in Owners : Speaker!AddInstance(i) \/ Speaker!RemoveInstance(i)
    BY <1>2
  <2>2. fleet \cup {i} \in SUBSET Owners /\ fleet \ {i} \in SUBSET Owners
    BY <1>1
  <2>3. Speaker!FleetBecomes(fleet \cup {i}, {i}) \/ Speaker!FleetBecomes(fleet \ {i}, {})
    BY <2>1 DEF Speaker!AddInstance, Speaker!RemoveInstance
  <2> QED
    BY <2>2, <2>3, FleetBecomesKeeps
<1>3. CASE \E i \in Owners : Speaker!Flash(i)
  BY <1>3, FlashKeeps
<1>4. CASE \E i \in Owners, w \in Sounds \cup {NoPlay}, preempt \in BOOLEAN : Speaker!Frame(i, w, preempt)
  BY <1>4, FrameKeeps
<1>5. CASE \E ids \in SUBSET Owners \ {{}} : Speaker!SetInstances(ids)
  <2>1. PICK ids \in SUBSET Owners : Speaker!FleetBecomes(ids, ids)
    BY <1>5 DEF Speaker!SetInstances
  <2> QED
    BY <2>1, FleetBecomesKeeps
<1>6. CASE \E g \in gestures : Speaker!Unlock(g)
  BY <1>6, UnlockKeeps
<1>7. CASE Speaker!Resumed \/ Speaker!Interrupted
  BY <1>7, BrowserKeeps
<1>8. CASE Speaker!Dispose
  BY <1>8, DisposeKeeps
<1> QED
  BY <1>2, <1>3, <1>4, <1>5, <1>6, <1>7, <1>8 DEF Speaker!Next

LEMMA SpeakerHolds == BoardSpec => []SpeakerInv
<1>1. Speaker!SpeakerParameters
  BY BoardAssumption
<1>2. BoardInit => SpeakerInv
  BY <1>1, SpeakerInit DEF BoardInit
<1>3. ASSUME SpeakerInv, [BoardNext]_<<part, ports, card, motion, events, audio>>
      PROVE  SpeakerInv'
  <2>1. CASE UNCHANGED audio
    <3>1. /\ fleet' = fleet /\ speaker' = speaker /\ context' = context /\ resuming' = resuming
          /\ gestures' = gestures /\ voice' = voice /\ sources' = sources /\ synced' = synced
          /\ plays' = plays /\ fleets' = fleets
      BY <2>1 DEF audio
    <3>2. SpeakerTypes' /\ (Speaker!HeardIsPlayed /\ Speaker!PlayedIsHeard)'
      BY <1>3, <3>1 DEF SpeakerInv, SpeakerTypes, Speaker!HeardIsPlayed, Speaker!PlayedIsHeard, Speaker!Plays
    <3> QED
      BY <1>3, <3>1, <3>2 DEF SpeakerInv, OneSource
  <2>2. CASE Speaker!Next
    BY <1>1, <1>3, <2>2, SpeakerStep
  <2> QED
    BY <1>3, <2>1, <2>2 DEF BoardNext
<1> QED
  BY <1>2, <1>3, PTL DEF BoardSpec

(* What the properties of the speaker say of a state.                       *)
LEMMA SpeakerSounds ==
    ASSUME Speaker!SpeakerParameters, SpeakerInv
    PROVE  Speaker!TypeOK /\ Speaker!HeardIsPlayed /\ Speaker!PlayedIsHeard /\ Speaker!NoneRingsOn
<1>1. /\ SpeakerTypes
      /\ \A i \in Owners : Sane(speaker[i], plays) /\ voice[i].play \in Numbered(plays)
      /\ \A i \in Owners : OneSource(i) /\ (Speaker!Sounding(voice[i]) => i \in fleet)
  BY DEF SpeakerInv
<1>2. \A i \in Owners : sources[i] \in 0..1 /\ (sources[i] = 1 => i \in fleet)
  BY <1>1 DEF OneSource
<1>3. Speaker!NoneRingsOn
  BY <1>1, <1>2 DEF Speaker!NoneRingsOn, OneSource
<1>4. plays \in Nat /\ speaker \in [Owners -> SpeakerRecord]
  BY <1>1 DEF SpeakerTypes, Speaker!SpeakerParameters
<1>5. \A i \in Owners : speaker[i].play \in Numbered(plays) /\ speaker[i].lastId <= plays
  BY <1>1 DEF Sane
<1>6. \A i \in Owners : speaker[i].sound \in Sounds \cup {NoPlay} /\ speaker[i].lastId \in Nat /\ speaker[i].left \in Nat
  BY <1>4 DEF SpeakerRecord
<1>7. \A i \in Owners : speaker[i].lastId \in 0..plays
  BY <1>4, <1>5, <1>6
<1>8. Speaker!TypeOK
  BY <1>1, <1>2, <1>5, <1>6, <1>7 DEF Speaker!TypeOK, SpeakerTypes, Numbered
<1> QED
  BY <1>3, <1>8 DEF SpeakerInv

(* Through any changes of the fleet, at the end of a frame the voice of     *)
(* every device is the play it is making, but for a restored device's first *)
(* play, which can pass for its predecessor's first; a device that plays    *)
(* samples has a voice while the context runs, and nothing sounds for a     *)
(* device that is gone (SpeakerAudio.sync, retain, dispose).                *)
THEOREM SpeakersAreHeard == BoardSpec => []SpeakersHeard
<1>1. Speaker!SpeakerParameters
  BY BoardAssumption
<1>2. SpeakerInv => SpeakersHeard
  BY <1>1, SpeakerSounds DEF SpeakersHeard
<1> QED
  BY <1>2, SpeakerHolds, PTL

-----------------------------------------------------------------------------
(* The gestures.                                                            *)

Postural == DOMAIN Gestures!Postures
Reported == Postural \cup Gestures!Momentary \cup {"none"}
Readings == [Gestures!Axes -> Int]
Detector == [sigma : 0..5, last : Reported, current : Reported, crossed : SUBSET Gestures!Axes,
             shaken : BOOLEAN, count : 0..4, timer : 0..29]
(* Four crossings make a shake, and only a shake's window is long.          *)
DetectorSane(d) == (d.shaken <=> d.count = 4) /\ (~d.shaken => d.timer <= 9)
Target(g) == IF g = "none" THEN Gestures!Idle ELSE Gestures!Postures[g]

LEMMA Names ==
    /\ Postural = {"tiltLeft", "tiltRight", "tiltDown", "tiltUp", "faceUp", "faceDown"}
    /\ Postural \cap Gestures!Momentary = {} /\ "none" \notin Postural \cup Gestures!Momentary
    /\ "closed" \notin Reported
<1>1. Postural = {"tiltLeft", "tiltRight", "tiltDown", "tiltUp", "faceUp", "faceDown"}
  BY DEF Postural, Gestures!Postures
<1> QED
  BY <1>1 DEF Gestures!Momentary, Reported

LEMMA Readable ==
    /\ Gestures!Idle \in Readings /\ \A g \in Postural : Gestures!Postures[g] \in Readings
    /\ [a \in Gestures!Axes |-> 0] \in Readings
    /\ \A n \in Int : [x |-> n, y |-> 0, z |-> 0] \in Readings
<1>1. ASSUME NEW x \in Int, NEW y \in Int, NEW z \in Int
      PROVE  [x |-> x, y |-> y, z |-> z] \in Readings
  BY DEF Readings, Gestures!Axes
<1>2. Gestures!Idle \in Readings
  BY <1>1 DEF Gestures!Idle
<1>3. \A g \in Postural : Gestures!Postures[g] \in Readings
  BY <1>1, Names DEF Gestures!Postures
<1>4. [a \in Gestures!Axes |-> 0] \in Readings
  BY DEF Readings
<1> QED
  BY <1>1, <1>2, <1>3, <1>4

(* A posture held is the posture reported, and what is at rest is none.     *)
LEMMA PostureOfTarget ==
    ASSUME NEW g \in Postural \cup {"none"}
    PROVE  Target(g) \in Readings /\ Gestures!Posture(Target(g)) = g
<1>1. Target(g) \in Readings
  BY Names, Readable DEF Target
<1>2. CASE g = "none"
  <2>1. Target(g) = [x |-> 480, y |-> -600, z |-> -640]
    BY <1>2 DEF Target, Gestures!Idle
  <2> DEFINE s == Target(g)
  <2>2. s.x = 480 /\ s.y = -600 /\ s.z = -640
    BY <2>1
  <2> HIDE DEF s
  <2>3. Gestures!Posture(s) = "none"
    BY <2>2 DEF Gestures!Posture, Gestures!Sum3
  <2> QED
    BY <1>1, <1>2, <2>3 DEF s
<1>3. CASE g # "none"
  <2> DEFINE s == Target(g)
  <2>1. s = Gestures!Postures[g]
    BY <1>3 DEF Target
  <2>2. g \in {"tiltLeft", "tiltRight", "tiltDown", "tiltUp", "faceUp", "faceDown"}
    BY <1>3, Names
  <2>3. /\ g = "tiltLeft" => s.x = -1000 /\ s.y = 0 /\ s.z = 0
        /\ g = "tiltRight" => s.x = 1000 /\ s.y = 0 /\ s.z = 0
        /\ g = "tiltDown" => s.x = 0 /\ s.y = -1000 /\ s.z = 0
        /\ g = "tiltUp" => s.x = 0 /\ s.y = 1000 /\ s.z = 0
        /\ g = "faceUp" => s.x = 0 /\ s.y = 0 /\ s.z = -1000
        /\ g = "faceDown" => s.x = 0 /\ s.y = 0 /\ s.z = 1000
    BY <2>1 DEF Gestures!Postures
  <2> HIDE DEF s
  <2>4. Gestures!Posture(s) = g
    BY <2>2, <2>3 DEF Gestures!Posture, Gestures!Sum3
  <2> QED
    BY <1>1, <2>4 DEF s
<1> QED
  BY <1>2, <1>3

LEMMA PostureReported == \A s : Gestures!Posture(s) \in Reported
  BY Names DEF Gestures!Posture, Reported, Gestures!Momentary

-----------------------------------------------------------------------------
(* What one sample does to the detector.                                    *)
Toggled(d, s) == (d.crossed \ Gestures!Crossing(d, s)) \cup (Gestures!Crossing(d, s) \ d.crossed)

LEMMA CountedFacts ==
    ASSUME NEW d \in Detector, DetectorSane(d), NEW s \in Readings
    PROVE  LET r == Gestures!Counted(d, s) IN
           /\ r \in Detector /\ DetectorSane(r)
           /\ r.sigma = d.sigma /\ r.last = d.last /\ r.current = d.current /\ r.crossed = Toggled(d, s)
           /\ IF Gestures!Crossing(d, s) = {} \/ d.count = 4
              THEN r.count = d.count /\ r.timer = d.timer /\ r.shaken = d.shaken
              ELSE /\ r.count = d.count + 1 /\ r.timer = (IF d.count \in {0, 3} THEN 0 ELSE d.timer)
                   /\ r.shaken = (d.count = 3)
<1> DEFINE r == Gestures!Counted(d, s)
           X == Gestures!Crossing(d, s)
           t == [d EXCEPT !.crossed = (@ \ X) \cup (X \ @)]
<1>1. /\ d = [sigma |-> d.sigma, last |-> d.last, current |-> d.current, crossed |-> d.crossed,
              shaken |-> d.shaken, count |-> d.count, timer |-> d.timer]
      /\ d.sigma \in 0..5 /\ d.last \in Reported /\ d.current \in Reported /\ d.crossed \in SUBSET Gestures!Axes
      /\ d.shaken \in BOOLEAN /\ d.count \in 0..4 /\ d.timer \in 0..29
  BY DEF Detector
<1>2. X \subseteq Gestures!Axes
  BY DEF Gestures!Crossing
<1>3. r = IF X = {} \/ d.count >= 4 THEN t
          ELSE [t EXCEPT !.count = @ + 1, !.timer = IF d.count \in {0, 3} THEN 0 ELSE @,
                         !.shaken = @ \/ d.count = 3]
  BY DEF Gestures!Counted
<1>4. Toggled(d, s) = (d.crossed \ X) \cup (X \ d.crossed) /\ Toggled(d, s) \in SUBSET Gestures!Axes
  BY <1>1, <1>2 DEF Toggled
<1> HIDE DEF X, r
<1>5. t = [sigma |-> d.sigma, last |-> d.last, current |-> d.current, crossed |-> Toggled(d, s),
           shaken |-> d.shaken, count |-> d.count, timer |-> d.timer]
  BY <1>1, <1>4
<1> HIDE DEF t
<1>6. CASE X = {} \/ d.count = 4
  <2>1. r = t
    BY <1>3, <1>6
  <2>2. r \in Detector
    BY <1>1, <1>4, <1>5, <2>1 DEF Detector
  <2>3. /\ r.sigma = d.sigma /\ r.last = d.last /\ r.current = d.current /\ r.crossed = Toggled(d, s)
        /\ r.count = d.count /\ r.timer = d.timer /\ r.shaken = d.shaken
    BY <1>5, <2>1
  <2>4. DetectorSane(r)
    BY <2>3 DEF DetectorSane
  <2> QED
    BY <1>6, <2>2, <2>3, <2>4 DEF r, X
<1>7. CASE ~(X = {} \/ d.count = 4)
  <2>1. d.count \in 0..3 /\ ~d.shaken
    BY <1>1, <1>7 DEF DetectorSane
  <2>2. r = [t EXCEPT !.count = @ + 1, !.timer = IF d.count \in {0, 3} THEN 0 ELSE @, !.shaken = @ \/ d.count = 3]
    BY <1>3, <1>7, <2>1
  <2> DEFINE m == IF d.count \in {0, 3} THEN 0 ELSE d.timer
             h == d.shaken \/ d.count = 3
  <2>3. r = [sigma |-> d.sigma, last |-> d.last, current |-> d.current, crossed |-> Toggled(d, s),
             shaken |-> h, count |-> d.count + 1, timer |-> m]
    <3>1. t.count = d.count /\ t.timer = d.timer /\ t.shaken = d.shaken
      BY <1>5
    <3>2. r = [t EXCEPT !.count = d.count + 1, !.timer = m, !.shaken = h]
      <4>1. (t.shaken \/ d.count = 3) = h
        BY <3>1
      <4> QED
        BY <2>2, <3>1, <4>1
    <3> HIDE DEF m, h
    <3> QED
      BY <1>5, <3>2
  <2>4. m \in 0..29 /\ m <= 9 /\ d.count + 1 \in 0..4
    BY <1>1, <2>1 DEF DetectorSane
  <2>5. h \in BOOLEAN /\ h = (d.count = 3)
    BY <2>1
  <2> HIDE DEF m, h
  <2>6. r \in Detector
    BY <1>1, <1>4, <2>3, <2>4, <2>5 DEF Detector
  <2>7. /\ r.sigma = d.sigma /\ r.last = d.last /\ r.current = d.current /\ r.crossed = Toggled(d, s)
        /\ r.count = d.count + 1 /\ r.timer = m /\ r.shaken = h
    BY <2>3
  <2>8. DetectorSane(r)
    <3>1. r.shaken <=> d.count = 3
      BY <2>5, <2>7
    <3>2. d.count = 3 <=> r.count = 4
      BY <2>1, <2>7
    <3>3. r.timer <= 9
      BY <2>4, <2>7
    <3> QED
      BY <3>1, <3>2, <3>3 DEF DetectorSane
  <2>9. r.timer = (IF d.count \in {0, 3} THEN 0 ELSE d.timer)
    BY <2>7 DEF m
  <2>10. r.shaken = (d.count = 3)
    <3>1. r.shaken = h
      BY <2>7
    <3> HIDE DEF r
    <3> QED
      BY <2>5, <3>1, Zenon
  <2> QED
    BY <1>7, <2>6, <2>7, <2>8, <2>9, <2>10 DEF r, X
<1> QED
  BY <1>6, <1>7

LEMMA AgedFacts ==
    ASSUME NEW d \in Detector, DetectorSane(d)
    PROVE  LET r == Gestures!Aged(d) IN
           /\ r \in Detector /\ DetectorSane(r)
           /\ r.sigma = d.sigma /\ r.last = d.last /\ r.current = d.current /\ r.crossed = d.crossed
           /\ ~d.shaken /\ d.count > 0 => IF d.timer + 1 >= 10 THEN r.count = d.count - 1 /\ r.timer = 0
                                          ELSE r.count = d.count /\ r.timer = d.timer + 1
           /\ ~d.shaken => ~r.shaken
<1> DEFINE r == Gestures!Aged(d)
<1>1. /\ d = [sigma |-> d.sigma, last |-> d.last, current |-> d.current, crossed |-> d.crossed,
              shaken |-> d.shaken, count |-> d.count, timer |-> d.timer]
      /\ d.sigma \in 0..5 /\ d.last \in Reported /\ d.current \in Reported /\ d.crossed \in SUBSET Gestures!Axes
      /\ d.shaken \in BOOLEAN /\ d.count \in 0..4 /\ d.timer \in 0..29
  BY DEF Detector
<1>2. (d.shaken <=> d.count = 4) /\ (~d.shaken => d.timer <= 9)
  BY DEF DetectorSane
<1>3. CASE d.count = 0
  <2>1. r = d
    BY <1>3 DEF Gestures!Aged
  <2> QED
    BY <1>3, <2>1
<1>4. CASE d.count # 0 /\ d.shaken /\ d.timer + 1 >= 30
  <2>1. r = [d EXCEPT !.shaken = FALSE, !.timer = 0, !.count = 0]
    BY <1>4 DEF Gestures!Aged
  <2> HIDE DEF r
  <2>2. r = [sigma |-> d.sigma, last |-> d.last, current |-> d.current, crossed |-> d.crossed,
             shaken |-> FALSE, count |-> 0, timer |-> 0]
    BY <1>1, <2>1
  <2>3. r \in Detector
    BY <1>1, <2>2 DEF Detector
  <2>4. /\ r.sigma = d.sigma /\ r.last = d.last /\ r.current = d.current /\ r.crossed = d.crossed
        /\ r.shaken = FALSE /\ r.count = 0 /\ r.timer = 0
    BY <2>2
  <2>5. DetectorSane(r)
    BY <2>4 DEF DetectorSane
  <2> QED
    BY <1>4, <2>3, <2>4, <2>5 DEF r
<1>5. CASE d.count # 0 /\ ~d.shaken /\ d.timer + 1 >= 10
  <2>1. r = [d EXCEPT !.timer = 0, !.count = @ - 1]
    BY <1>5 DEF Gestures!Aged
  <2> HIDE DEF r
  <2>2. r = [sigma |-> d.sigma, last |-> d.last, current |-> d.current, crossed |-> d.crossed,
             shaken |-> d.shaken, count |-> d.count - 1, timer |-> 0]
    BY <1>1, <2>1
  <2>3. d.count - 1 \in 0..4 /\ d.count - 1 # 4
    BY <1>1, <1>5
  <2>4. r \in Detector
    BY <1>1, <2>2, <2>3 DEF Detector
  <2>5. /\ r.sigma = d.sigma /\ r.last = d.last /\ r.current = d.current /\ r.crossed = d.crossed
        /\ r.shaken = d.shaken /\ r.count = d.count - 1 /\ r.timer = 0
    BY <2>2
  <2>6. DetectorSane(r)
    BY <1>5, <2>3, <2>5 DEF DetectorSane
  <2> QED
    BY <1>5, <2>4, <2>5, <2>6 DEF r
<1>6. CASE /\ d.count # 0 /\ ~(d.shaken /\ d.timer + 1 >= 30) /\ ~(~d.shaken /\ d.timer + 1 >= 10)
  <2>1. r = [d EXCEPT !.timer = @ + 1]
    BY <1>6 DEF Gestures!Aged
  <2> HIDE DEF r
  <2>2. r = [sigma |-> d.sigma, last |-> d.last, current |-> d.current, crossed |-> d.crossed,
             shaken |-> d.shaken, count |-> d.count, timer |-> d.timer + 1]
    BY <1>1, <2>1
  <2>3. d.timer + 1 \in 0..29 /\ (~d.shaken => d.timer + 1 <= 9)
    BY <1>1, <1>6
  <2>4. r \in Detector
    BY <1>1, <2>2, <2>3 DEF Detector
  <2>5. /\ r.sigma = d.sigma /\ r.last = d.last /\ r.current = d.current /\ r.crossed = d.crossed
        /\ r.shaken = d.shaken /\ r.count = d.count /\ r.timer = d.timer + 1
    BY <2>2
  <2>6. DetectorSane(r)
    BY <1>2, <2>3, <2>5 DEF DetectorSane
  <2> QED
    BY <1>6, <2>4, <2>5, <2>6 DEF r
<1> QED
  BY <1>3, <1>4, <1>5, <1>6

LEMMA FilteredFacts ==
    ASSUME NEW d \in Detector, DetectorSane(d), NEW p \in Reported
    PROVE  LET r == Gestures!Filtered(d, p) IN
           /\ r \in Detector /\ DetectorSane(r)
           /\ r.crossed = d.crossed /\ r.count = d.count /\ r.timer = d.timer /\ r.shaken = d.shaken
           /\ r.current = p /\ (r.sigma = 5 => r.last = p)
           /\ r.sigma = (IF p = d.current THEN IF d.sigma < 5 THEN d.sigma + 1 ELSE d.sigma ELSE 0)
<1> DEFINE r == Gestures!Filtered(d, p)
           n == IF p = d.current THEN [d EXCEPT !.sigma = IF @ < 5 THEN @ + 1 ELSE @]
                ELSE [d EXCEPT !.current = p, !.sigma = 0]
           g == IF p = d.current THEN IF d.sigma < 5 THEN d.sigma + 1 ELSE d.sigma ELSE 0
<1>1. /\ d = [sigma |-> d.sigma, last |-> d.last, current |-> d.current, crossed |-> d.crossed,
              shaken |-> d.shaken, count |-> d.count, timer |-> d.timer]
      /\ d.sigma \in 0..5 /\ d.last \in Reported /\ d.current \in Reported /\ d.crossed \in SUBSET Gestures!Axes
      /\ d.shaken \in BOOLEAN /\ d.count \in 0..4 /\ d.timer \in 0..29
  BY DEF Detector
<1>2. r = IF n.sigma >= 5 THEN [n EXCEPT !.last = n.current] ELSE n
  BY DEF Gestures!Filtered
<1>3. n = [sigma |-> g, last |-> d.last, current |-> p, crossed |-> d.crossed,
           shaken |-> d.shaken, count |-> d.count, timer |-> d.timer]
  BY <1>1
<1>4. g \in 0..5
  BY <1>1
<1> HIDE DEF n, g, r
<1>5. n.sigma = g /\ n.current = p /\ n.last = d.last
  BY <1>3
<1>6. r = [sigma |-> g, last |-> IF g = 5 THEN p ELSE d.last, current |-> p, crossed |-> d.crossed,
           shaken |-> d.shaken, count |-> d.count, timer |-> d.timer]
  <2>1. CASE g = 5
    <3>1. r = [n EXCEPT !.last = p]
      BY <1>2, <1>5, <2>1
    <3> QED
      BY <1>3, <2>1, <3>1
  <2>2. CASE g # 5
    <3>1. r = n
      BY <1>2, <1>4, <1>5, <2>2
    <3> QED
      BY <1>3, <2>2, <3>1
  <2> QED
    BY <2>1, <2>2
<1>7. r \in Detector
  <2>1. (IF g = 5 THEN p ELSE d.last) \in Reported
    BY <1>1
  <2> QED
    BY <1>1, <1>4, <1>6, <2>1 DEF Detector
<1>8. /\ r.sigma = g /\ r.last = (IF g = 5 THEN p ELSE d.last) /\ r.current = p /\ r.crossed = d.crossed
      /\ r.count = d.count /\ r.timer = d.timer /\ r.shaken = d.shaken
  BY <1>6
<1>9. DetectorSane(r)
  BY <1>8 DEF DetectorSane
<1> QED
  BY <1>7, <1>8, <1>9 DEF r, g

(* The axes stand as a reading leaves them: it crosses none of them again.  *)
CrossedRight(d, s) ==
    \A a \in Gestures!Axes : (s[a] > 400 => a \in d.crossed) /\ (s[a] < -400 => a \notin d.crossed)
(* How many crossings of a shake are still to come, whatever decays.        *)
Calls(d) == IF d.count = 3 THEN 1
            ELSE IF d.count = 2 THEN (IF d.timer <= 8 THEN 2 ELSE 3)
            ELSE IF d.count = 1 /\ d.timer <= 7 THEN 3 ELSE 4

LEMMA CrossingFacts ==
    ASSUME NEW d \in Detector, NEW s \in Readings
    PROVE  /\ Gestures!Crossing(d, s) \subseteq Gestures!Axes
           /\ \A r : r.crossed = Toggled(d, s) => CrossedRight(r, s)
           /\ CrossedRight(d, s) => Gestures!Crossing(d, s) = {}
<1>1. \A a \in Gestures!Axes : s[a] \in Int
  BY DEF Readings
<1>2. \A a \in Gestures!Axes :
         a \in Gestures!Crossing(d, s) <=> IF a \in d.crossed THEN s[a] < -400 ELSE s[a] > 400
  BY DEF Gestures!Crossing
<1>3. Gestures!Crossing(d, s) \subseteq Gestures!Axes
  BY DEF Gestures!Crossing
<1>4. ASSUME NEW r, r.crossed = Toggled(d, s), NEW a \in Gestures!Axes
      PROVE  (s[a] > 400 => a \in r.crossed) /\ (s[a] < -400 => a \notin r.crossed)
  <2>1. a \in r.crossed <=> (a \in d.crossed <=> a \notin Gestures!Crossing(d, s))
    BY <1>4 DEF Toggled
  <2> QED
    BY <1>1, <1>2, <2>1
<1>5. CrossedRight(d, s) => Gestures!Crossing(d, s) = {}
  BY <1>1, <1>2, <1>3 DEF CrossedRight
<1> QED
  BY <1>3, <1>4, <1>5 DEF CrossedRight

LEMMA UpdateFacts ==
    ASSUME NEW d \in Detector, DetectorSane(d), NEW s \in Readings
    PROVE  LET r == Gestures!Update(d, s)
               p == Gestures!Posture(s)
           IN  /\ r \in Detector /\ DetectorSane(r) /\ CrossedRight(r, s) /\ r.crossed = Toggled(d, s)
               /\ Gestures!ShakesNow(d, s) => r.last = "shake"
               /\ ~Gestures!ShakesNow(d, s) =>
                     /\ r.current = p /\ (r.sigma = 5 => r.last = p)
                     /\ r.sigma = (IF p = d.current THEN IF d.sigma < 5 THEN d.sigma + 1 ELSE d.sigma ELSE 0)
                     /\ ~d.shaken => ~r.shaken /\ (Gestures!Crossing(d, s) # {} => Calls(r) <= Calls(d) - 1)
<1> DEFINE r == Gestures!Update(d, s)
           p == Gestures!Posture(s)
           c == Gestures!Counted(d, s)
           X == Gestures!Crossing(d, s)
<1>1. /\ c \in Detector /\ DetectorSane(c)
      /\ c.sigma = d.sigma /\ c.last = d.last /\ c.current = d.current /\ c.crossed = Toggled(d, s)
      /\ IF X = {} \/ d.count = 4
         THEN c.count = d.count /\ c.timer = d.timer /\ c.shaken = d.shaken
         ELSE /\ c.count = d.count + 1 /\ c.timer = (IF d.count \in {0, 3} THEN 0 ELSE d.timer)
              /\ c.shaken = (d.count = 3)
  BY CountedFacts
<1>2. \A t : t.crossed = Toggled(d, s) => CrossedRight(t, s)
  BY CrossingFacts
<1>3. d.count \in 0..4 /\ d.timer \in 0..29 /\ d.shaken \in BOOLEAN
  BY DEF Detector
<1>4. (d.shaken <=> d.count = 4) /\ (~d.shaken => d.timer <= 9)
  BY DEF DetectorSane
<1> HIDE DEF c, X
<1>5. CASE Gestures!ShakesNow(d, s)
  <2>1. r = [c EXCEPT !.last = "shake"]
    BY <1>5 DEF Gestures!Update, c
  <2> HIDE DEF r
  <2>2. /\ c = [sigma |-> c.sigma, last |-> c.last, current |-> c.current, crossed |-> c.crossed,
                shaken |-> c.shaken, count |-> c.count, timer |-> c.timer]
        /\ c.sigma \in 0..5 /\ c.current \in Reported /\ c.crossed \in SUBSET Gestures!Axes
        /\ c.shaken \in BOOLEAN /\ c.count \in 0..4 /\ c.timer \in 0..29
    BY <1>1 DEF Detector
  <2>3. r = [sigma |-> c.sigma, last |-> "shake", current |-> c.current, crossed |-> c.crossed,
             shaken |-> c.shaken, count |-> c.count, timer |-> c.timer]
    BY <2>1, <2>2
  <2>4. "shake" \in Reported
    BY DEF Reported, Gestures!Momentary
  <2>5. r \in Detector
    BY <2>2, <2>3, <2>4 DEF Detector
  <2>6. /\ r.last = "shake" /\ r.crossed = c.crossed /\ r.shaken = c.shaken /\ r.count = c.count /\ r.timer = c.timer
    BY <2>3
  <2>7. DetectorSane(r)
    BY <1>1, <2>6 DEF DetectorSane
  <2>8. CrossedRight(r, s) /\ r.crossed = Toggled(d, s)
    BY <1>1, <1>2, <2>6
  <2> QED
    BY <1>5, <2>5, <2>6, <2>7, <2>8 DEF r
<1>6. CASE ~Gestures!ShakesNow(d, s)
  <2> DEFINE e == Gestures!Aged(c)
  <2>1. r = Gestures!Filtered(e, p) /\ p \in Reported
    BY <1>6, PostureReported DEF Gestures!Update, c
  <2>2. /\ e \in Detector /\ DetectorSane(e)
        /\ e.sigma = c.sigma /\ e.last = c.last /\ e.current = c.current /\ e.crossed = c.crossed
        /\ ~c.shaken /\ c.count > 0 => IF c.timer + 1 >= 10 THEN e.count = c.count - 1 /\ e.timer = 0
                                       ELSE e.count = c.count /\ e.timer = c.timer + 1
        /\ ~c.shaken => ~e.shaken
    BY <1>1, AgedFacts
  <2> HIDE DEF e, r, p
  <2>3. /\ r \in Detector /\ DetectorSane(r)
        /\ r.crossed = e.crossed /\ r.count = e.count /\ r.timer = e.timer /\ r.shaken = e.shaken
        /\ r.current = p /\ (r.sigma = 5 => r.last = p)
        /\ r.sigma = (IF p = e.current THEN IF e.sigma < 5 THEN e.sigma + 1 ELSE e.sigma ELSE 0)
    BY <2>1, <2>2, FilteredFacts
  <2>4. CrossedRight(r, s) /\ r.crossed = Toggled(d, s)
    BY <1>1, <1>2, <2>2, <2>3
  <2>5. r.sigma = (IF p = d.current THEN IF d.sigma < 5 THEN d.sigma + 1 ELSE d.sigma ELSE 0)
    BY <1>1, <2>2, <2>3
  <2>6. X = {} \/ d.count # 3
    BY <1>6 DEF Gestures!ShakesNow, X
  <2>7. ASSUME ~d.shaken
        PROVE  ~r.shaken /\ (X # {} => Calls(r) <= Calls(d) - 1)
    <3>1. d.count \in 0..3 /\ d.timer \in 0..9
      BY <1>3, <1>4, <2>7
    <3>2. ~c.shaken
      <4>1. CASE X = {}
        BY <1>1, <2>7, <4>1
      <4>2. CASE X # {}
        <5>1. d.count # 3 /\ ~(X = {} \/ d.count = 4)
          BY <2>6, <3>1, <4>2
        <5>2. c.shaken = (d.count = 3)
          BY <1>1, <5>1
        <5> QED
          BY <5>1, <5>2
      <4> QED
        BY <4>1, <4>2
    <3>3. ~r.shaken
      BY <2>2, <2>3, <3>2
    <3>4. ASSUME X # {}
          PROVE  Calls(r) <= Calls(d) - 1
      <4>1. d.count \in {0, 1, 2} /\ c.count = d.count + 1 /\ c.timer = (IF d.count = 0 THEN 0 ELSE d.timer)
        BY <1>1, <2>6, <3>1, <3>4
      <4>2. c.count > 0
        BY <4>1
      <4>3. IF c.timer + 1 >= 10 THEN r.count = c.count - 1 /\ r.timer = 0
            ELSE r.count = c.count /\ r.timer = c.timer + 1
        BY <2>2, <2>3, <3>2, <4>2
      <4> QED
        BY <3>1, <4>1, <4>3 DEF Calls
    <3> QED
      BY <3>3, <3>4
  <2> QED
    BY <1>6, <2>3, <2>4, <2>5, <2>7 DEF r, p, X
<1> QED
  BY <1>5, <1>6

-----------------------------------------------------------------------------
(* What the injector feeds.                                                 *)
Injector == [mode : {"hold", "momentary"}, from : Readings, to : Readings, step : 0..10,
             playing : Gestures!Momentary \cup {"none"}, last : Readings, selected : Picks \cup {"none"}]
InjectorSane(i) ==
    /\ (i.mode = "momentary") = (i.playing \in Gestures!Momentary)
    /\ i.mode = "momentary" => i.selected = i.playing /\ i.step <= Gestures!Length(i.playing)
    /\ i.mode = "hold" => i.step <= 8 /\ i.selected \in Postural \cup {"none"} /\ i.to = Target(i.selected)

LEMMA BetweenFacts ==
    ASSUME NEW f \in Readings, NEW t \in Readings
    PROVE  /\ \A k \in Int : Gestures!Between(f, t, k) \in Readings
           /\ Gestures!Between(f, t, 8) = t
<1>1. \A a \in Gestures!Axes : f[a] \in Int /\ t[a] \in Int
  BY DEF Readings
<1>2. ASSUME NEW k \in Int
      PROVE  Gestures!Between(f, t, k) \in Readings
  <2>1. \A a \in Gestures!Axes : (8 * f[a] + (t[a] - f[a]) * k + 8 \div 2) \div 8 \in Int
    BY <1>1
  <2> QED
    BY <2>1 DEF Gestures!Between, Gestures!Ramp, Readings
<1>3. \A a \in Gestures!Axes : (8 * f[a] + (t[a] - f[a]) * 8 + 8 \div 2) \div 8 = t[a]
  <2> TAKE a \in Gestures!Axes
  <2>1. f[a] \in Int /\ t[a] \in Int
    BY <1>1
  <2>2. 8 * f[a] + (t[a] - f[a]) * 8 + 8 \div 2 = 8 * t[a] + 4
    BY <2>1
  <2>3. (8 * t[a] + 4) \div 8 = t[a]
    BY <2>1
  <2> QED
    BY <2>2, <2>3
<1>4. Gestures!Between(f, t, 8) = t
  <2>1. Gestures!Between(f, t, 8) = [a \in Gestures!Axes |-> t[a]]
    BY <1>3 DEF Gestures!Between, Gestures!Ramp
  <2>2. t = [a \in Gestures!Axes |-> t[a]]
    BY DEF Readings
  <2> QED
    BY <2>1, <2>2
<1> QED
  BY <1>2, <1>4

LEMMA HoldStepFacts ==
    ASSUME NEW i \in Injector, i.step <= 8
    PROVE  LET r == Gestures!HoldStep(i) IN
           /\ r \in Injector /\ r.mode = i.mode /\ r.to = i.to /\ r.playing = i.playing /\ r.selected = i.selected
           /\ r.step = (IF i.step < 8 THEN i.step + 1 ELSE i.step)
           /\ i.step >= 7 => r.last = i.to
<1> DEFINE r == Gestures!HoldStep(i)
           s == Gestures!HoldSample(i)
           n == IF i.step < 8 THEN i.step + 1 ELSE i.step
<1>1. /\ i = [mode |-> i.mode, from |-> i.from, to |-> i.to, step |-> i.step, playing |-> i.playing,
              last |-> i.last, selected |-> i.selected]
      /\ i.mode \in {"hold", "momentary"} /\ i.from \in Readings /\ i.to \in Readings /\ i.step \in 0..10
      /\ i.playing \in Gestures!Momentary \cup {"none"} /\ i.last \in Readings /\ i.selected \in Picks \cup {"none"}
  BY DEF Injector
<1>2. s = IF i.step < 8 THEN Gestures!Between(i.from, i.to, i.step + 1) ELSE i.to
  BY DEF Gestures!HoldSample, Gestures!Ramp
<1>3. /\ \A k \in Int : Gestures!Between(i.from, i.to, k) \in Readings
      /\ Gestures!Between(i.from, i.to, 8) = i.to
  BY <1>1, BetweenFacts
<1>4. s \in Readings
  BY <1>1, <1>2, <1>3
<1>5. i.step >= 7 => s = i.to
  <2>1. i.step >= 7 => i.step + 1 = 8 \/ ~(i.step < 8)
    BY <1>1
  <2> QED
    BY <1>2, <1>3, <2>1
<1>6. n \in 0..10
  BY <1>1
<1>7. r = [i EXCEPT !.last = s, !.step = n]
  <2>1. (IF i.step < Gestures!Ramp THEN i.step + 1 ELSE i.step) = n
    BY DEF Gestures!Ramp
  <2> QED
    BY <1>1, <2>1 DEF Gestures!HoldStep
<1> HIDE DEF r, s, n
<1>8. r = [mode |-> i.mode, from |-> i.from, to |-> i.to, step |-> n, playing |-> i.playing,
           last |-> s, selected |-> i.selected]
  BY <1>1, <1>7
<1>9. r \in Injector
  BY <1>1, <1>4, <1>6, <1>8 DEF Injector
<1>10. r.mode = i.mode /\ r.to = i.to /\ r.playing = i.playing /\ r.selected = i.selected /\ r.step = n /\ r.last = s
  BY <1>8
<1> QED
  BY <1>5, <1>9, <1>10 DEF r, n

LEMMA HoldFacts ==
    ASSUME NEW i \in Injector, NEW t \in Readings, NEW g \in Picks \cup {"none"}
    PROVE  LET r == [Gestures!Hold(i, t) EXCEPT !.selected = g] IN
           /\ r \in Injector /\ r.mode = "hold" /\ r.to = t /\ r.step = 0 /\ r.playing = "none" /\ r.selected = g
<1> DEFINE h == Gestures!Hold(i, t)
           r == [h EXCEPT !.selected = g]
<1>1. /\ i = [mode |-> i.mode, from |-> i.from, to |-> i.to, step |-> i.step, playing |-> i.playing,
              last |-> i.last, selected |-> i.selected]
      /\ i.last \in Readings
  BY DEF Injector
<1>2. h = [i EXCEPT !.mode = "hold", !.from = i.last, !.to = t, !.step = 0, !.playing = "none"]
  BY DEF Gestures!Hold
<1> HIDE DEF h
<1>3. h = [mode |-> "hold", from |-> i.last, to |-> t, step |-> 0, playing |-> "none",
           last |-> i.last, selected |-> i.selected]
  BY <1>1, <1>2
<1>4. r = [mode |-> "hold", from |-> i.last, to |-> t, step |-> 0, playing |-> "none",
           last |-> i.last, selected |-> g]
  BY <1>3
<1> HIDE DEF r
<1>5. r \in Injector
  BY <1>1, <1>4 DEF Injector
<1>6. r.mode = "hold" /\ r.to = t /\ r.step = 0 /\ r.playing = "none" /\ r.selected = g
  BY <1>4
<1> QED
  BY <1>5, <1>6 DEF r, h

-----------------------------------------------------------------------------
(* The device as one sample finds it and leaves it.                         *)
Fed == [det : Detector, inj : Injector, picker : Picks \cup {"none", "closed"}, held : 0..16,
        recognized : SUBSET Reported, ended : Gestures!Momentary \cup {"none"}]
Now == [det |-> det, inj |-> inj, picker |-> picker, held |-> held, recognized |-> recognized, ended |-> ended]

(* A posture that is held ramps to its target, stands there, and is damped. *)
Holding(g) ==
    g.inj.mode = "hold" =>
        /\ g.inj.step >= g.held \/ g.inj.step = 8
        /\ g.held >= 8 => CrossedRight(g.det, g.inj.to)
        /\ g.held >= 9 => /\ g.det.current = g.inj.selected
                          /\ g.det.sigma >= g.held - 9 \/ g.det.sigma = 5
                          /\ g.det.sigma = 5 => g.det.last = g.inj.selected
(* A freefall is damped as it plays.                                        *)
Falling(g, c) ==
    g.inj.mode = "momentary" /\ g.inj.playing = "freefall" /\ ~c /\ g.inj.step >= 1 =>
        /\ g.det.current = "freefall"
        /\ g.det.sigma >= g.inj.step - 1 \/ g.det.sigma = 5
        /\ g.det.sigma = 5 => "freefall" \in g.recognized
(* A shake that was not recognized yet has enough samples left for it: each *)
(* of them crosses, once the first has played.                              *)
Shaking(g, w, c) ==
    g.inj.mode = "momentary" /\ g.inj.playing = "shake" /\ ~c /\ ~w =>
        \/ "shake" \in g.recognized
        \/ /\ ~g.det.shaken
           /\ g.inj.step >= 1 => /\ ("x" \in g.det.crossed) = (g.inj.step % 2 = 1)
                                 /\ Calls(g.det) <= 6 - g.inj.step
Seen(g, w, c) ==
    /\ g.ended = "freefall" /\ ~c => "freefall" \in g.recognized
    /\ g.ended = "shake" /\ ~c /\ ~w => "shake" \in g.recognized
Sound(g, w, c) ==
    /\ g \in Fed /\ DetectorSane(g.det) /\ InjectorSane(g.inj)
    /\ g.picker = "closed" \/ g.picker = g.inj.selected
    /\ g.inj.mode = "momentary" => g.held = 0
    /\ Holding(g) /\ Falling(g, c) /\ Shaking(g, w, c) /\ Seen(g, w, c)

LEMMA FedRecord ==
    ASSUME NEW g \in Fed
    PROVE  /\ g.det \in Detector /\ g.inj \in Injector /\ g.picker \in Picks \cup {"none", "closed"}
           /\ g.held \in 0..16 /\ g.recognized \in SUBSET Reported /\ g.ended \in Gestures!Momentary \cup {"none"}
  BY DEF Fed

(* What FeedStep does, field by field.                                      *)
LEMMA FeedFields ==
    ASSUME NEW g \in Fed, DetectorSane(g.det), NEW i, i = Gestures!InjectorStep(g.inj), i \in Injector
    PROVE  LET r == Gestures!FeedStep(g)
               d == Gestures!Update(g.det, i.last)
           IN  /\ r \in Fed /\ DetectorSane(r.det)
               /\ r.det = d /\ r.inj = i
               /\ r.picker = (IF Gestures!Ends(g.inj) /\ g.picker # "closed" THEN "none" ELSE g.picker)
               /\ r.held = (IF i.mode = "hold" /\ g.held < 16 THEN g.held + 1 ELSE g.held)
               /\ r.recognized = g.recognized \cup {d.last}
               /\ r.ended = (IF Gestures!Ends(g.inj) THEN g.inj.playing ELSE g.ended)
<1> DEFINE r == Gestures!FeedStep(g)
           d == Gestures!Update(g.det, i.last)
           pk == IF Gestures!Ends(g.inj) /\ g.picker # "closed" THEN "none" ELSE g.picker
           h == IF i.mode = "hold" /\ g.held < 16 THEN g.held + 1 ELSE g.held
           e == IF Gestures!Ends(g.inj) THEN g.inj.playing ELSE g.ended
<1>1. r = [det |-> d, inj |-> i, picker |-> pk, held |-> h, recognized |-> g.recognized \cup {d.last}, ended |-> e]
  BY DEF Gestures!FeedStep
<1>2. /\ g.det \in Detector /\ g.inj \in Injector /\ g.picker \in Picks \cup {"none", "closed"}
      /\ g.held \in 0..16 /\ g.recognized \in SUBSET Reported /\ g.ended \in Gestures!Momentary \cup {"none"}
  BY FedRecord
<1>3. i.last \in Readings /\ g.inj.playing \in Gestures!Momentary \cup {"none"}
  BY <1>2 DEF Injector
<1>4. d \in Detector /\ DetectorSane(d)
  BY <1>2, <1>3, UpdateFacts
<1>5. d.last \in Reported
  BY <1>4 DEF Detector
<1>6. pk \in Picks \cup {"none", "closed"} /\ h \in 0..16 /\ e \in Gestures!Momentary \cup {"none"}
  BY <1>2, <1>3
<1> HIDE DEF r, d, pk, h, e
<1>7. r \in Fed
  BY <1>1, <1>2, <1>4, <1>5, <1>6 DEF Fed
<1>8. r.det = d /\ r.inj = i /\ r.picker = pk /\ r.held = h /\ r.recognized = g.recognized \cup {d.last} /\ r.ended = e
  BY <1>1
<1> QED
  BY <1>4, <1>7, <1>8 DEF r, d, pk, h, e

(* A posture that goes on being held.                                       *)
LEMMA HoldingFed ==
    ASSUME NEW g, NEW w \in BOOLEAN, NEW c \in BOOLEAN, Sound(g, w, c), g.inj.mode = "hold"
    PROVE  Sound(Gestures!FeedStep(g), w, c)
<1> DEFINE r == Gestures!FeedStep(g)
           i == Gestures!HoldStep(g.inj)
<1>1. /\ g \in Fed /\ DetectorSane(g.det) /\ InjectorSane(g.inj) /\ Holding(g) /\ Seen(g, w, c)
      /\ g.picker = "closed" \/ g.picker = g.inj.selected
  BY DEF Sound
<1>2. g.det \in Detector /\ g.inj \in Injector /\ g.held \in 0..16
  BY <1>1, FedRecord
<1>3. /\ g.inj.step \in 0..8 /\ g.inj.selected \in Postural \cup {"none"} /\ g.inj.to = Target(g.inj.selected)
      /\ g.inj.playing \notin Gestures!Momentary
  <2>1. g.inj.step \in 0..10
    BY <1>2 DEF Injector
  <2> QED
    BY <1>1, <2>1 DEF InjectorSane
<1>4. ~Gestures!Ends(g.inj) /\ Gestures!InjectorStep(g.inj) = i
  <2>1. ~Gestures!Ends(g.inj)
    BY DEF Gestures!Ends
  <2> QED
    BY <2>1 DEF Gestures!InjectorStep
<1>5. /\ i \in Injector /\ i.mode = "hold" /\ i.to = g.inj.to /\ i.playing = g.inj.playing /\ i.selected = g.inj.selected
      /\ i.step = (IF g.inj.step < 8 THEN g.inj.step + 1 ELSE g.inj.step)
      /\ g.inj.step >= 7 => i.last = g.inj.to
  <2>1. g.inj.step <= 8
    BY <1>3
  <2> QED
    BY <1>2, <2>1, HoldStepFacts
<1> DEFINE d == Gestures!Update(g.det, i.last)
<1> HIDE DEF i
<1>6. /\ r \in Fed /\ DetectorSane(r.det) /\ r.det = d /\ r.inj = i /\ r.picker = g.picker
      /\ r.held = (IF g.held < 16 THEN g.held + 1 ELSE g.held)
      /\ r.recognized = g.recognized \cup {d.last} /\ r.ended = g.ended
  BY <1>1, <1>4, <1>5, FeedFields
<1> HIDE DEF r
<1>7. i.last \in Readings
  BY <1>5 DEF Injector
<1>8. /\ d \in Detector /\ CrossedRight(d, i.last)
      /\ ~Gestures!ShakesNow(g.det, i.last) =>
            /\ d.current = Gestures!Posture(i.last) /\ (d.sigma = 5 => d.last = Gestures!Posture(i.last))
            /\ d.sigma = (IF Gestures!Posture(i.last) = g.det.current
                          THEN IF g.det.sigma < 5 THEN g.det.sigma + 1 ELSE g.det.sigma ELSE 0)
  BY <1>1, <1>2, <1>7, UpdateFacts
<1> HIDE DEF d
<1>9. InjectorSane(i)
  BY <1>1, <1>3, <1>5 DEF InjectorSane
<1>10. g.inj.to \in Readings /\ Gestures!Posture(g.inj.to) = g.inj.selected
  BY <1>3, PostureOfTarget
<1>11. r.held \in 0..16 /\ (r.held >= 8 => g.held >= 7) /\ (r.held >= 9 => g.held >= 8)
  BY <1>2, <1>6
<1>12. g.inj.step >= g.held \/ g.inj.step = 8
  BY <1>1 DEF Holding
<1>13. i.step >= r.held \/ i.step = 8
  BY <1>2, <1>3, <1>5, <1>6, <1>12
<1>14. r.held >= 8 => i.last = g.inj.to
  BY <1>2, <1>3, <1>5, <1>11, <1>12
<1>15. r.held >= 8 => CrossedRight(d, i.to)
  BY <1>5, <1>8, <1>14
<1>16. ASSUME r.held >= 9
       PROVE  /\ d.current = i.selected /\ (d.sigma >= r.held - 9 \/ d.sigma = 5)
              /\ d.sigma = 5 => d.last = i.selected
  <2>1. i.last = g.inj.to /\ g.held >= 8
    BY <1>11, <1>14, <1>16
  <2>2. CrossedRight(g.det, i.last)
    BY <1>1, <2>1 DEF Holding
  <2>3. ~Gestures!ShakesNow(g.det, i.last)
    BY <1>2, <1>7, <2>2, CrossingFacts DEF Gestures!ShakesNow
  <2>4. /\ d.current = i.selected /\ (d.sigma = 5 => d.last = i.selected)
        /\ d.sigma = (IF i.selected = g.det.current
                      THEN IF g.det.sigma < 5 THEN g.det.sigma + 1 ELSE g.det.sigma ELSE 0)
    BY <1>5, <1>8, <1>10, <2>1, <2>3
  <2>5. g.held >= 9 => g.det.current = i.selected /\ (g.det.sigma >= g.held - 9 \/ g.det.sigma = 5)
    BY <1>1, <1>5 DEF Holding
  <2>6. g.det.sigma \in 0..5
    BY <1>2 DEF Detector
  <2>7. d.sigma >= r.held - 9 \/ d.sigma = 5
    <3>1. CASE g.held = 8
      <4>1. r.held = 9
        BY <1>6, <3>1
      <4>2. d.sigma \in 0..5
        BY <1>8 DEF Detector
      <4> QED
        BY <4>1, <4>2
    <3>2. CASE g.held >= 9
      <4>1. r.held <= g.held + 1
        BY <1>2, <1>6
      <4>2. d.sigma = IF g.det.sigma < 5 THEN g.det.sigma + 1 ELSE g.det.sigma
        BY <2>4, <2>5, <3>2
      <4> QED
        BY <1>2, <1>11, <2>5, <2>6, <3>2, <4>1, <4>2
    <3> QED
      BY <1>2, <2>1, <3>1, <3>2
  <2> QED
    BY <2>4, <2>7
<1>17. Holding(r)
  BY <1>5, <1>6, <1>13, <1>15, <1>16 DEF Holding
<1>18. Falling(r, c) /\ Shaking(r, w, c)
  BY <1>5, <1>6 DEF Falling, Shaking
<1>19. Seen(r, w, c)
  BY <1>1, <1>6 DEF Seen
<1>20. /\ r.picker = "closed" \/ r.picker = r.inj.selected
       /\ r.inj.mode # "momentary" /\ InjectorSane(r.inj)
  BY <1>1, <1>5, <1>6, <1>9
<1> QED
  BY <1>6, <1>17, <1>18, <1>19, <1>20 DEF Sound, r

(* A sequence that played to its end: the posture goes back to rest.        *)
LEMMA EndedFed ==
    ASSUME NEW g, NEW w \in BOOLEAN, NEW c \in BOOLEAN, Sound(g, w, c), Gestures!Ends(g.inj)
    PROVE  Sound(Gestures!FeedStep(g), w, c)
<1> DEFINE r == Gestures!FeedStep(g)
           h == [Gestures!Hold(g.inj, Gestures!Idle) EXCEPT !.selected = "none"]
           i == Gestures!HoldStep(h)
           d == Gestures!Update(g.det, i.last)
<1>1. /\ g \in Fed /\ DetectorSane(g.det) /\ InjectorSane(g.inj) /\ Falling(g, c) /\ Shaking(g, w, c) /\ Seen(g, w, c)
      /\ g.picker = "closed" \/ g.picker = g.inj.selected
      /\ g.inj.mode = "momentary" => g.held = 0
  BY DEF Sound
<1>2. g.det \in Detector /\ g.inj \in Injector /\ g.held \in 0..16
  BY <1>1, FedRecord
<1>3. /\ g.inj.mode = "momentary" /\ g.inj.step >= Gestures!Length(g.inj.playing)
      /\ g.inj.playing \in {"shake", "freefall"} /\ g.inj.step = Gestures!Length(g.inj.playing) /\ g.held = 0
  <2>1. g.inj.mode = "momentary" /\ g.inj.step >= Gestures!Length(g.inj.playing)
    BY DEF Gestures!Ends
  <2>2. g.inj.playing \in Gestures!Momentary /\ g.inj.step <= Gestures!Length(g.inj.playing)
    BY <1>1, <2>1 DEF InjectorSane
  <2>3. g.inj.step \in 0..10 /\ Gestures!Length(g.inj.playing) \in Int
    BY <1>2 DEF Injector, Gestures!Length
  <2> QED
    BY <1>1, <2>1, <2>2, <2>3 DEF Gestures!Momentary
<1>4. Gestures!InjectorStep(g.inj) = i
  BY DEF Gestures!InjectorStep, Gestures!Completed
<1>5. h \in Injector /\ h.mode = "hold" /\ h.to = Gestures!Idle /\ h.step = 0 /\ h.playing = "none" /\ h.selected = "none"
  BY <1>2, Readable, HoldFacts
<1> HIDE DEF h
<1>6. /\ i \in Injector /\ i.mode = "hold" /\ i.to = Gestures!Idle /\ i.playing = "none" /\ i.selected = "none" /\ i.step = 1
  <2>1. h.step <= 8
    BY <1>5
  <2>2. /\ i \in Injector /\ i.mode = h.mode /\ i.to = h.to /\ i.playing = h.playing /\ i.selected = h.selected
        /\ i.step = (IF h.step < 8 THEN h.step + 1 ELSE h.step)
    BY <1>5, <2>1, HoldStepFacts
  <2> HIDE DEF i
  <2> QED
    BY <1>5, <2>2
<1> HIDE DEF i
<1>7. /\ r \in Fed /\ DetectorSane(r.det) /\ r.det = d /\ r.inj = i
      /\ r.picker = (IF g.picker # "closed" THEN "none" ELSE g.picker)
      /\ r.held = (IF g.held < 16 THEN g.held + 1 ELSE g.held)
      /\ r.recognized = g.recognized \cup {d.last} /\ r.ended = g.inj.playing
  BY <1>1, <1>4, <1>6, FeedFields
<1> HIDE DEF r, d
<1>8. r.held = 1
  BY <1>3, <1>7
<1>9. InjectorSane(i)
  BY <1>6 DEF InjectorSane, Target, Gestures!Momentary
<1>10. Holding(r)
  BY <1>6, <1>7, <1>8 DEF Holding
<1>11. Falling(r, c) /\ Shaking(r, w, c)
  BY <1>6, <1>7 DEF Falling, Shaking
<1>12. g.inj.playing = "freefall" /\ ~c => "freefall" \in g.recognized
  <2> SUFFICES ASSUME g.inj.playing = "freefall", ~c PROVE "freefall" \in g.recognized
    OBVIOUS
  <2>1. g.inj.step = 10
    BY <1>3 DEF Gestures!Length
  <2>2. g.det.sigma >= g.inj.step - 1 \/ g.det.sigma = 5
    BY <1>1, <1>3, <2>1 DEF Falling
  <2>3. g.det.sigma \in 0..5
    BY <1>2 DEF Detector
  <2>4. g.det.sigma = 5
    BY <2>1, <2>2, <2>3
  <2> QED
    BY <1>1, <1>3, <2>1, <2>4 DEF Falling
<1>13. g.inj.playing = "shake" /\ ~c /\ ~w => "shake" \in g.recognized
  <2> SUFFICES ASSUME g.inj.playing = "shake", ~c, ~w PROVE "shake" \in g.recognized
    OBVIOUS
  <2>1. g.inj.step = 6
    BY <1>3 DEF Gestures!Length
  <2>2. "shake" \in g.recognized \/ Calls(g.det) <= 6 - g.inj.step
    BY <1>1, <1>3, <2>1 DEF Shaking
  <2>3. Calls(g.det) \in 1..4
    BY DEF Calls
  <2> QED
    BY <2>1, <2>2, <2>3
<1>14. Seen(r, w, c)
  BY <1>7, <1>12, <1>13 DEF Seen
<1>15. /\ r.picker = "closed" \/ r.picker = r.inj.selected
       /\ r.inj.mode # "momentary" /\ InjectorSane(r.inj)
  BY <1>6, <1>7, <1>9
<1> QED
  BY <1>7, <1>10, <1>11, <1>14, <1>15 DEF Sound, r

(* A sequence that goes on playing.                                         *)
LEMMA PlayingFed ==
    ASSUME NEW g, NEW w \in BOOLEAN, NEW c \in BOOLEAN, Sound(g, w, c),
           g.inj.mode = "momentary", ~Gestures!Ends(g.inj)
    PROVE  Sound(Gestures!FeedStep(g), w, c)
<1> DEFINE r == Gestures!FeedStep(g)
           s == Gestures!Sample(g.inj.playing, g.inj.step)
           i == [g.inj EXCEPT !.last = s, !.step = @ + 1]
           d == Gestures!Update(g.det, s)
<1>1. /\ g \in Fed /\ DetectorSane(g.det) /\ InjectorSane(g.inj) /\ Falling(g, c) /\ Shaking(g, w, c) /\ Seen(g, w, c)
      /\ g.picker = "closed" \/ g.picker = g.inj.selected
      /\ g.held = 0
  BY DEF Sound
<1>2. g.det \in Detector /\ g.inj \in Injector
  BY <1>1, FedRecord
<1>3. /\ g.inj.playing \in {"shake", "freefall"} /\ g.inj.step \in 0..10 /\ g.inj.step < Gestures!Length(g.inj.playing)
      /\ g.inj.selected = g.inj.playing /\ Gestures!Length(g.inj.playing) \in {6, 10}
  <2>1. ~(g.inj.step >= Gestures!Length(g.inj.playing))
    BY DEF Gestures!Ends
  <2>2. g.inj.playing \in Gestures!Momentary /\ g.inj.selected = g.inj.playing
    BY <1>1 DEF InjectorSane
  <2>3. g.inj.step \in 0..10 /\ Gestures!Length(g.inj.playing) \in {6, 10}
    BY <1>2 DEF Injector, Gestures!Length
  <2> QED
    BY <2>1, <2>2, <2>3 DEF Gestures!Momentary
<1>4. Gestures!InjectorStep(g.inj) = i
  BY DEF Gestures!InjectorStep
<1>5. s \in Readings
  <2>1. 600 \in Int /\ -600 \in Int
    OBVIOUS
  <2>2. [x |-> 600, y |-> 0, z |-> 0] \in Readings /\ [x |-> -600, y |-> 0, z |-> 0] \in Readings
    BY <2>1, Readable
  <2> QED
    BY <2>2, Readable DEF Gestures!Sample
<1> HIDE DEF s
<1>6. /\ g.inj = [mode |-> g.inj.mode, from |-> g.inj.from, to |-> g.inj.to, step |-> g.inj.step,
                  playing |-> g.inj.playing, last |-> g.inj.last, selected |-> g.inj.selected]
      /\ g.inj.mode \in {"hold", "momentary"} /\ g.inj.from \in Readings /\ g.inj.to \in Readings
      /\ g.inj.playing \in Gestures!Momentary \cup {"none"} /\ g.inj.selected \in Picks \cup {"none"}
  BY <1>2 DEF Injector
<1>7. i = [mode |-> "momentary", from |-> g.inj.from, to |-> g.inj.to, step |-> g.inj.step + 1,
           playing |-> g.inj.playing, last |-> s, selected |-> g.inj.selected]
  <2> DEFINE j == g.inj
             n == j.step + 1
  <2>1. i = [j EXCEPT !.last = s, !.step = n]
    OBVIOUS
  <2>2. /\ j = [mode |-> j.mode, from |-> j.from, to |-> j.to, step |-> j.step, playing |-> j.playing,
                last |-> j.last, selected |-> j.selected]
        /\ j.mode = "momentary"
    BY <1>6
  <2> HIDE DEF i, j, n
  <2>3. i = [mode |-> "momentary", from |-> j.from, to |-> j.to, step |-> n, playing |-> j.playing,
             last |-> s, selected |-> j.selected]
    BY <2>1, <2>2
  <2> QED
    BY <2>3 DEF j, n
<1>8. g.inj.step + 1 \in 0..10 /\ g.inj.step + 1 <= Gestures!Length(g.inj.playing)
  <2> DEFINE n == Gestures!Length(g.inj.playing)
  <2>1. n \in {6, 10} /\ g.inj.step \in 0..10 /\ g.inj.step < n
    BY <1>3
  <2> HIDE DEF n
  <2>2. g.inj.step + 1 \in 0..10 /\ g.inj.step + 1 <= n
    BY <2>1
  <2> QED
    BY <2>2 DEF n
<1> HIDE DEF i
<1>9. i \in Injector
  BY <1>5, <1>6, <1>7, <1>8 DEF Injector
<1>10. /\ i.mode = "momentary" /\ i.step = g.inj.step + 1 /\ i.playing = g.inj.playing /\ i.last = s
       /\ i.selected = g.inj.selected
  BY <1>7
<1>11. InjectorSane(i)
  BY <1>3, <1>8, <1>10 DEF InjectorSane, Gestures!Momentary
<1>12. /\ r \in Fed /\ DetectorSane(r.det) /\ r.det = d /\ r.inj = i /\ r.picker = g.picker
       /\ r.held = g.held /\ r.recognized = g.recognized \cup {d.last} /\ r.ended = g.ended
  BY <1>1, <1>4, <1>9, <1>10, FeedFields
<1> HIDE DEF r
<1>13. /\ d \in Detector /\ d.crossed = Toggled(g.det, s)
       /\ Gestures!ShakesNow(g.det, s) => d.last = "shake"
       /\ ~Gestures!ShakesNow(g.det, s) =>
             /\ d.current = Gestures!Posture(s) /\ (d.sigma = 5 => d.last = Gestures!Posture(s))
             /\ d.sigma = (IF Gestures!Posture(s) = g.det.current
                           THEN IF g.det.sigma < 5 THEN g.det.sigma + 1 ELSE g.det.sigma ELSE 0)
             /\ ~g.det.shaken => ~d.shaken /\ (Gestures!Crossing(g.det, s) # {} => Calls(d) <= Calls(g.det) - 1)
  BY <1>1, <1>2, <1>5, UpdateFacts
<1> HIDE DEF d
<1>14. Falling(r, c)
  <2> SUFFICES ASSUME i.playing = "freefall", ~c
               PROVE  /\ d.current = "freefall" /\ (d.sigma >= i.step - 1 \/ d.sigma = 5)
                      /\ d.sigma = 5 => "freefall" \in r.recognized
    BY <1>12 DEF Falling
  <2>1. s = [a \in Gestures!Axes |-> 0]
    BY <1>10 DEF s, Gestures!Sample
  <2>2. Gestures!Crossing(g.det, s) = {}
    BY <2>1 DEF Gestures!Crossing
  <2>3. Gestures!Posture(s) = "freefall"
    <3>1. s.x = 0 /\ s.y = 0 /\ s.z = 0
      BY <2>1 DEF Gestures!Axes
    <3> QED
      BY <3>1 DEF Gestures!Posture, Gestures!Sum3
  <2>4. /\ d.current = "freefall" /\ (d.sigma = 5 => d.last = "freefall")
        /\ d.sigma = (IF "freefall" = g.det.current
                      THEN IF g.det.sigma < 5 THEN g.det.sigma + 1 ELSE g.det.sigma ELSE 0)
    BY <1>13, <2>2, <2>3 DEF Gestures!ShakesNow
  <2>5. d.sigma = 5 => "freefall" \in r.recognized
    BY <1>12, <2>4
  <2>6. g.det.sigma \in 0..5 /\ d.sigma \in 0..5
    BY <1>2, <1>13 DEF Detector
  <2>7. g.inj.step >= 1 => g.det.current = "freefall" /\ (g.det.sigma >= g.inj.step - 1 \/ g.det.sigma = 5)
    BY <1>1, <1>10 DEF Falling
  <2>8. d.sigma >= i.step - 1 \/ d.sigma = 5
    <3>1. CASE g.inj.step = 0
      BY <1>10, <2>6, <3>1
    <3>2. CASE g.inj.step >= 1
      BY <1>3, <1>10, <2>4, <2>6, <2>7, <3>2
    <3> QED
      BY <1>3, <3>1, <3>2
  <2> QED
    BY <2>4, <2>5, <2>8
<1>15. Shaking(r, w, c)
  <2> SUFFICES ASSUME i.playing = "shake", ~c, ~w, "shake" \notin r.recognized
               PROVE  /\ ~d.shaken
                      /\ i.step >= 1 => /\ ("x" \in d.crossed) = (i.step % 2 = 1)
                                        /\ Calls(d) <= 6 - i.step
    BY <1>12 DEF Shaking
  <2>1. /\ ~g.det.shaken /\ d.last # "shake"
        /\ g.inj.step >= 1 => /\ ("x" \in g.det.crossed) = (g.inj.step % 2 = 1)
                              /\ Calls(g.det) <= 6 - g.inj.step
    BY <1>1, <1>10, <1>12 DEF Shaking
  <2>2. ~Gestures!ShakesNow(g.det, s)
    BY <1>13, <2>1
  <2>3. ~d.shaken /\ (Gestures!Crossing(g.det, s) # {} => Calls(d) <= Calls(g.det) - 1)
    BY <1>13, <2>1, <2>2
  <2>4. s["x"] = (IF g.inj.step % 2 = 0 THEN 600 ELSE -600)
    BY <1>10 DEF s, Gestures!Sample
  <2>5. "x" \in Gestures!Axes
    BY DEF Gestures!Axes
  <2>6. "x" \in Gestures!Crossing(g.det, s) <=> IF "x" \in g.det.crossed THEN s["x"] < -400 ELSE s["x"] > 400
    BY <2>5 DEF Gestures!Crossing
  <2>7. "x" \in d.crossed <=> ("x" \in g.det.crossed <=> "x" \notin Gestures!Crossing(g.det, s))
    BY <1>13 DEF Toggled
  <2>8. "x" \in d.crossed <=> s["x"] > 0
    BY <2>4, <2>6, <2>7
  <2>9. "x" \in d.crossed <=> i.step % 2 = 1
    <3>1. g.inj.step % 2 = 0 <=> (g.inj.step + 1) % 2 = 1
      BY <1>3
    <3> QED
      BY <1>10, <2>4, <2>8, <3>1
  <2>10. Calls(d) <= 6 - i.step
    <3>1. Calls(d) \in 1..4 /\ Calls(g.det) \in 1..4
      BY DEF Calls
    <3>2. CASE g.inj.step = 0
      BY <1>10, <3>1, <3>2
    <3>3. CASE g.inj.step >= 1
      <4>1. "x" \in g.det.crossed <=> g.inj.step % 2 = 1
        BY <2>1, <3>3
      <4>2. g.inj.step % 2 \in {0, 1}
        BY <1>3
      <4>3. "x" \in Gestures!Crossing(g.det, s)
        BY <2>4, <2>6, <4>1, <4>2
      <4>4. Calls(d) <= Calls(g.det) - 1 /\ Calls(g.det) <= 6 - g.inj.step
        BY <2>1, <2>3, <3>3, <4>3
      <4> QED
        BY <1>3, <1>10, <3>1, <4>4
    <3> QED
      BY <1>3, <3>2, <3>3
  <2> QED
    BY <2>3, <2>9, <2>10
<1>16. Seen(r, w, c)
  BY <1>1, <1>12 DEF Seen
<1>17. Holding(r)
  BY <1>10, <1>12 DEF Holding
<1>18. /\ r.picker = "closed" \/ r.picker = r.inj.selected
       /\ r.held = 0 /\ InjectorSane(r.inj)
  BY <1>1, <1>10, <1>11, <1>12
<1> QED
  BY <1>12, <1>14, <1>15, <1>16, <1>17, <1>18 DEF Sound, r

LEMMA FeedKeeps ==
    ASSUME NEW g, NEW w \in BOOLEAN, NEW c \in BOOLEAN, Sound(g, w, c)
    PROVE  Sound(Gestures!FeedStep(g), w, c)
<1>1. g.inj.mode \in {"hold", "momentary"}
  BY FedRecord DEF Sound, Injector
<1> QED
  BY <1>1, HoldingFed, EndedFed, PlayingFed

-----------------------------------------------------------------------------
(* The samples of a frame, one after the other.                             *)
FedSteps(K, m) ==
    K = [k \in 0..m |-> IF k = 0 THEN Now ELSE Gestures!FeedStep(K[k - 1])]

LEMMA FedExist ==
    ASSUME NEW ms, Gestures!Due(ms) \in Nat
    PROVE  \E K : FedSteps(K, Gestures!Due(ms)) /\ Gestures!Fed(ms) = K[Gestures!Due(ms)]
<1> DEFINE Failing == {m \in Nat : ~ \E K : FedSteps(K, m)}
<1>1. Failing = {}
  <2> SUFFICES ASSUME Failing # {} PROVE FALSE
    OBVIOUS
  <2>1. PICK m \in Failing : \A k \in Failing : m <= k
    BY LeastNatural
  <2>2. CASE m = 0
    <3> DEFINE K == [k \in 0..0 |-> Now]
    <3>1. FedSteps(K, 0)
      BY DEF FedSteps
    <3> QED
      BY <3>1, <2>2, <2>1
  <2>3. CASE m # 0
    <3>1. m \in Nat /\ m - 1 \in Nat /\ m - 1 \notin Failing
      BY <2>1, <2>3
    <3>2. PICK L : FedSteps(L, m - 1)
      BY <3>1
    <3> DEFINE K == [k \in 0..m |-> IF k < m THEN L[k] ELSE Gestures!FeedStep(L[k - 1])]
    <3>3. \A k \in 0..m : k # 0 => k - 1 \in 0..(m - 1) /\ k - 1 < m /\ K[k - 1] = L[k - 1]
      BY <3>1
    <3>4. \A k \in 0..m : K[k] = IF k = 0 THEN Now ELSE Gestures!FeedStep(K[k - 1])
      <4> SUFFICES ASSUME NEW k \in 0..m
                   PROVE  K[k] = IF k = 0 THEN Now ELSE Gestures!FeedStep(K[k - 1])
        OBVIOUS
      <4>1. CASE k = m
        BY <4>1, <3>1, <3>3, <2>3
      <4>2. CASE k # m
        <5>1. k \in 0..(m - 1) /\ k < m
          BY <4>2, <3>1
        <5>2. L[k] = IF k = 0 THEN Now ELSE Gestures!FeedStep(L[k - 1])
          BY <5>1, <3>2 DEF FedSteps
        <5> QED
          BY <5>1, <5>2, <3>3
      <4> QED
        BY <4>1, <4>2
    <3>5. FedSteps(K, m)
      BY <3>4 DEF FedSteps
    <3> QED
      BY <3>5, <2>1
  <2> QED
    BY <2>2, <2>3
<1>2. PICK K : FedSteps(K, Gestures!Due(ms))
  BY <1>1
<1> QED
  BY <1>2 DEF Gestures!Fed, FedSteps, Now

(* However many samples a frame feeds, what one keeps all keep.             *)
LEMMA FedSound ==
    ASSUME NEW ms, Gestures!Due(ms) \in Nat, window \in BOOLEAN, cut \in BOOLEAN, Sound(Now, window, cut)
    PROVE  /\ Sound(Gestures!Fed(ms), window, cut)
           /\ Gestures!Due(ms) <= 1 =>
                 Gestures!Fed(ms).recognized \subseteq recognized \cup {Gestures!Fed(ms).det.last}
<1> DEFINE n == Gestures!Due(ms)
<1>1. PICK K : FedSteps(K, n) /\ Gestures!Fed(ms) = K[n]
  BY FedExist
<1> HIDE DEF n
<1>2. n \in Nat
  BY DEF n
<1>3. /\ K[0] = Now
      /\ \A k \in 0..n : k # 0 => K[k] = Gestures!FeedStep(K[k - 1])
  BY <1>1, <1>2 DEF FedSteps
<1> DEFINE Failing == {k \in 0..n : ~Sound(K[k], window, cut)}
<1>4. Failing = {}
  <2> SUFFICES ASSUME Failing # {} PROVE FALSE
    OBVIOUS
  <2>1. Failing \subseteq Nat
    BY <1>2
  <2>2. PICK m \in Failing : \A k \in Failing : m <= k
    <3> HIDE DEF Failing
    <3> QED
      BY <2>1, LeastNatural
  <2>3. m # 0 /\ m \in 0..n
    BY <1>3, <2>2
  <2>4. m - 1 \in 0..n /\ m - 1 \notin Failing
    BY <1>2, <2>2, <2>3
  <2>5. Sound(K[m - 1], window, cut)
    BY <2>4
  <2>6. Sound(Gestures!FeedStep(K[m - 1]), window, cut)
    BY <2>5, FeedKeeps
  <2> QED
    BY <1>3, <2>2, <2>3, <2>6
<1>5. Sound(K[n], window, cut)
  BY <1>2, <1>4
<1>6. ASSUME n <= 1
      PROVE  K[n].recognized \subseteq recognized \cup {K[n].det.last}
  <2>1. CASE n = 0
    BY <1>3, <2>1 DEF Now
  <2>2. CASE n = 1
    <3>1. K[1] = Gestures!FeedStep(Now)
      BY <1>3, <2>2
    <3> DEFINE d == Gestures!Update(Now.det, Gestures!InjectorStep(Now.inj).last)
    <3>2. Gestures!FeedStep(Now).det = d /\ Gestures!FeedStep(Now).recognized = Now.recognized \cup {d.last}
      BY DEF Gestures!FeedStep
    <3> HIDE DEF d
    <3>3. Now.recognized = recognized
      BY DEF Now
    <3> QED
      BY <2>2, <3>1, <3>2, <3>3
  <2> QED
    BY <1>2, <1>6, <2>1, <2>2
<1> QED
  BY <1>1, <1>5, <1>6 DEF n

(* Between two steps the device is as a sample leaves it, and a brain whose *)
(* frames are short has polled all that was recognized.                     *)
GestureInv ==
    /\ Sound(Now, window, cut) /\ window \in BOOLEAN /\ cut \in BOOLEAN
    /\ acc \in 0..19 /\ Gestures!PollSees

LEMMA NowFields ==
    /\ Now.det = det /\ Now.inj = inj /\ Now.picker = picker /\ Now.held = held
    /\ Now.recognized = recognized /\ Now.ended = ended
  BY DEF Now

LEMMA GestureStart == Gestures!GestureParameters /\ Gestures!Init => GestureInv
<1> SUFFICES ASSUME Gestures!GestureParameters, Gestures!Init PROVE GestureInv
  OBVIOUS
<1>1. /\ det = Gestures!Resting /\ acc = 0 /\ picker = "none"
      /\ inj = [mode |-> "hold", from |-> Gestures!Idle, to |-> Gestures!Idle, step |-> 0, playing |-> "none",
                last |-> Gestures!Idle, selected |-> "none"]
      /\ held = 0 /\ recognized = {} /\ polled = {} /\ window = FALSE /\ cut = FALSE /\ ended = "none"
  BY DEF Gestures!Init
<1>2. det \in Detector /\ DetectorSane(det)
  <2>1. "none" \in Reported
    BY DEF Reported
  <2>2. det = [sigma |-> 0, last |-> "none", current |-> "none", crossed |-> {}, shaken |-> FALSE, count |-> 0, timer |-> 0]
    BY <1>1 DEF Gestures!Resting
  <2>3. det \in Detector
    BY <2>1, <2>2 DEF Detector
  <2>4. DetectorSane(det)
    BY <2>2 DEF DetectorSane
  <2> QED
    BY <2>3, <2>4
<1>3. inj \in Injector
  BY <1>1, Readable DEF Injector
<1>4. inj.mode = "hold" /\ inj.step = 0 /\ inj.selected = "none" /\ inj.to = Gestures!Idle /\ inj.playing = "none"
  BY <1>1
<1>5. InjectorSane(inj)
  BY <1>4 DEF InjectorSane, Target, Gestures!Momentary
<1>6. Now \in Fed
  <2>1. /\ picker \in Picks \cup {"none", "closed"} /\ held \in 0..16 /\ recognized \in SUBSET Reported
        /\ ended \in Gestures!Momentary \cup {"none"}
    BY <1>1
  <2> QED
    BY <1>2, <1>3, <2>1 DEF Fed, Now
<1>7. Holding(Now) /\ Falling(Now, cut) /\ Shaking(Now, window, cut) /\ Seen(Now, window, cut)
  BY <1>1, <1>4, NowFields DEF Holding, Falling, Shaking, Seen
<1>8. Sound(Now, window, cut)
  BY <1>1, <1>2, <1>4, <1>5, <1>6, <1>7, NowFields DEF Sound
<1>9. window \in BOOLEAN /\ cut \in BOOLEAN /\ acc \in 0..19
  <2>1. window \in BOOLEAN /\ cut \in BOOLEAN
    BY <1>1, Zenon
  <2>2. acc \in 0..19
    BY <1>1, SMT
  <2> QED
    BY <2>1, <2>2
<1>10. Gestures!PollSees
  BY <1>1 DEF Gestures!PollSees
<1> QED
  BY <1>8, <1>9, <1>10 DEF GestureInv

LEMMA NowTypes ==
    ASSUME GestureInv
    PROVE  /\ det \in Detector /\ inj \in Injector /\ picker \in Picks \cup {"none", "closed"}
           /\ held \in 0..16 /\ recognized \in SUBSET Reported /\ ended \in Gestures!Momentary \cup {"none"}
           /\ DetectorSane(det) /\ InjectorSane(inj) /\ (picker = "closed" \/ picker = inj.selected)
           /\ Now \in Fed
<1>1. /\ Now \in Fed /\ DetectorSane(Now.det) /\ InjectorSane(Now.inj)
      /\ Now.picker = "closed" \/ Now.picker = Now.inj.selected
  BY DEF GestureInv, Sound
<1> QED
  BY <1>1, NowFields, FedRecord

LEMMA SamplesKeep ==
    ASSUME Gestures!GestureParameters, GestureInv, NEW ms \in Frames, Gestures!Frame(ms)
    PROVE  GestureInv'
<1> DEFINE r == Gestures!Fed(ms)
           n == Gestures!Due(ms)
<1>1. ms \in Nat /\ acc \in 0..19 /\ window \in BOOLEAN /\ cut \in BOOLEAN /\ Sound(Now, window, cut)
  BY DEF GestureInv, Gestures!GestureParameters
<1>2. /\ acc' = (acc + ms) % 20 /\ det' = r.det /\ inj' = r.inj /\ picker' = r.picker
      /\ held' = r.held /\ recognized' = r.recognized /\ ended' = r.ended
      /\ polled' = polled \cup Gestures!Sensed(r.det)
      /\ window' = window /\ cut' = cut
  BY DEF Gestures!Frame, Gestures!Carry, Gestures!Period
<1>3. n = (acc + ms) \div 20
  BY DEF Gestures!Due, Gestures!Period
<1>4. n \in Nat /\ acc' \in 0..19 /\ (ms <= 20 => n <= 1)
  BY <1>1, <1>2, <1>3
<1>5. Sound(r, window, cut) /\ (n <= 1 => r.recognized \subseteq recognized \cup {r.det.last})
  BY <1>1, <1>4, FedSound
<1> HIDE DEF r, n
<1>6. r \in Fed
  BY <1>5 DEF Sound
<1>7. Now' = r
  <2>1. r = [det |-> r.det, inj |-> r.inj, picker |-> r.picker, held |-> r.held, recognized |-> r.recognized,
             ended |-> r.ended]
    BY <1>6 DEF Fed
  <2> QED
    BY <1>2, <2>1 DEF Now
<1>8. Gestures!PollSees'
  <2> SUFFICES ASSUME \A m \in Frames : m <= 20
               PROVE  recognized' \ {"none"} \subseteq polled'
    BY DEF Gestures!PollSees, Gestures!Period
  <2>1. r.recognized \subseteq recognized \cup {r.det.last}
    BY <1>4, <1>5
  <2>2. recognized \ {"none"} \subseteq polled
    BY DEF GestureInv, Gestures!PollSees, Gestures!Period
  <2>3. r.det.last \in Reported
    BY <1>6, FedRecord DEF Detector
  <2>4. r.det.last # "none" => r.det.last \in Gestures!Sensed(r.det)
    BY <2>3 DEF Gestures!Sensed, Reported, Postural
  <2> QED
    BY <1>2, <2>1, <2>2, <2>4
<1>9. Sound(Now', window', cut')
  BY <1>2, <1>5, <1>7
<1> QED
  BY <1>1, <1>2, <1>4, <1>8, <1>9 DEF GestureInv

LEMMA SelectionKeeps ==
    ASSUME Gestures!GestureParameters, GestureInv, NEW g \in Picks, Gestures!Select(g)
    PROVE  GestureInv'
<1>1. /\ picker' = g /\ inj' = Gestures!Selected(inj, g) /\ window' = det.shaken /\ cut' = FALSE
      /\ held' = 0 /\ recognized' = {} /\ polled' = {} /\ ended' = "none" /\ det' = det /\ acc' = acc
  BY DEF Gestures!Select, Gestures!FreshHistory
<1>2. /\ det \in Detector /\ inj \in Injector /\ DetectorSane(det) /\ acc \in 0..19
  BY NowTypes DEF GestureInv
<1>3. g \in Postural \cup Gestures!Momentary \cup {"none"}
  BY DEF Gestures!GestureParameters, Postural
<1> DEFINE i == Gestures!Selected(inj, g)
<1>4. /\ i \in Injector /\ InjectorSane(i) /\ i.step = 0 /\ i.selected = g
  <2>1. CASE g \in Gestures!Momentary
    <3>1. i = [inj EXCEPT !.mode = "momentary", !.playing = g, !.step = 0, !.selected = g]
      BY <2>1 DEF Gestures!Selected
    <3> HIDE DEF i
    <3>2. /\ inj = [mode |-> inj.mode, from |-> inj.from, to |-> inj.to, step |-> inj.step,
                    playing |-> inj.playing, last |-> inj.last, selected |-> inj.selected]
          /\ inj.from \in Readings /\ inj.to \in Readings /\ inj.last \in Readings
      BY <1>2 DEF Injector
    <3>3. i = [mode |-> "momentary", from |-> inj.from, to |-> inj.to, step |-> 0,
               playing |-> g, last |-> inj.last, selected |-> g]
      BY <3>1, <3>2
    <3>4. i \in Injector
      BY <2>1, <3>2, <3>3 DEF Injector
    <3>5. i.mode = "momentary" /\ i.playing = g /\ i.step = 0 /\ i.selected = g
      BY <3>3
    <3>6. 0 <= Gestures!Length(g)
      BY DEF Gestures!Length
    <3>7. InjectorSane(i)
      BY <2>1, <3>5, <3>6 DEF InjectorSane
    <3> QED
      BY <3>4, <3>5, <3>7
  <2>2. CASE g \notin Gestures!Momentary
    <3> DEFINE t == Target(g)
    <3>1. i = [Gestures!Hold(inj, t) EXCEPT !.selected = g]
      BY <2>2 DEF Gestures!Selected, Target
    <3>2. t \in Readings /\ g \in Postural \cup {"none"}
      BY <1>3, <2>2, PostureOfTarget
    <3> HIDE DEF t
    <3>3. i \in Injector /\ i.mode = "hold" /\ i.to = t /\ i.step = 0 /\ i.playing = "none" /\ i.selected = g
      BY <1>2, <3>1, <3>2, HoldFacts
    <3> HIDE DEF i
    <3>4. "none" \notin Gestures!Momentary
      BY DEF Gestures!Momentary
    <3>5. InjectorSane(i)
      BY <3>2, <3>3, <3>4 DEF InjectorSane, t
    <3> QED
      BY <3>3, <3>5
  <2> QED
    BY <2>1, <2>2
<1> HIDE DEF i
<1> DEFINE r == [det |-> det, inj |-> i, picker |-> g, held |-> 0, recognized |-> {}, ended |-> "none"]
<1>5. Now' = r
  BY <1>1 DEF Now, i
<1>6. r \in Fed
  <2>1. g \in Picks \cup {"none", "closed"} /\ 0 \in 0..16
    OBVIOUS
  <2> QED
    BY <1>2, <1>4, <2>1 DEF Fed
<1>7. /\ r.det = det /\ r.inj = i /\ r.picker = g /\ r.held = 0 /\ r.recognized = {} /\ r.ended = "none"
  OBVIOUS
<1> HIDE DEF r
<1>8. Holding(r) /\ Falling(r, FALSE) /\ Shaking(r, det.shaken, FALSE) /\ Seen(r, det.shaken, FALSE)
  BY <1>4, <1>7 DEF Holding, Falling, Shaking, Seen
<1>9. Sound(r, det.shaken, FALSE)
  BY <1>2, <1>4, <1>6, <1>7, <1>8 DEF Sound
<1>10. Sound(Now', window', cut')
  BY <1>1, <1>5, <1>9
<1>11. det.shaken \in BOOLEAN
  BY <1>2 DEF Detector
<1>12. window' \in BOOLEAN /\ cut' \in BOOLEAN /\ acc' \in 0..19
  BY <1>1, <1>2, <1>11
<1>13. Gestures!PollSees'
  BY <1>1 DEF Gestures!PollSees
<1> QED
  BY <1>10, <1>12, <1>13 DEF GestureInv

LEMMA CardKeeps ==
    ASSUME GestureInv, Gestures!CloseCard \/ Gestures!OpenCard
    PROVE  GestureInv'
<1>1. /\ picker' \in {"closed", inj.selected}
      /\ inj' = inj /\ det' = det /\ acc' = acc /\ held' = held /\ recognized' = recognized /\ polled' = polled
      /\ window' = window /\ cut' = cut /\ ended' = ended
  BY DEF Gestures!CloseCard, Gestures!OpenCard
<1>2. /\ det \in Detector /\ inj \in Injector /\ held \in 0..16 /\ recognized \in SUBSET Reported
      /\ ended \in Gestures!Momentary \cup {"none"} /\ DetectorSane(det) /\ InjectorSane(inj)
  BY NowTypes
<1>3. inj.selected \in Picks \cup {"none"}
  BY <1>2 DEF Injector
<1> DEFINE r == [det |-> det, inj |-> inj, picker |-> picker', held |-> held, recognized |-> recognized, ended |-> ended]
<1>4. Now' = r
  BY <1>1 DEF Now
<1>5. r \in Fed
  BY <1>1, <1>2, <1>3 DEF Fed
<1>6. r.det = det /\ r.inj = inj /\ r.picker = picker' /\ r.held = held /\ r.recognized = recognized /\ r.ended = ended
  OBVIOUS
<1> HIDE DEF r
<1>7. /\ Holding(Now) /\ Falling(Now, cut) /\ Shaking(Now, window, cut) /\ Seen(Now, window, cut)
      /\ Now.inj.mode = "momentary" => Now.held = 0
  BY DEF GestureInv, Sound
<1>8. Holding(r) /\ Falling(r, cut) /\ Shaking(r, window, cut) /\ Seen(r, window, cut)
  BY <1>6, <1>7, NowFields DEF Holding, Falling, Shaking, Seen
<1>9. Sound(r, window, cut)
  BY <1>1, <1>2, <1>5, <1>6, <1>7, <1>8, NowFields DEF Sound
<1>10. Sound(Now', window', cut')
  BY <1>1, <1>4, <1>9
<1>11. window' \in BOOLEAN /\ cut' \in BOOLEAN /\ acc' \in 0..19
  BY <1>1 DEF GestureInv
<1>12. Gestures!PollSees'
  BY <1>1 DEF GestureInv, Gestures!PollSees
<1> QED
  BY <1>10, <1>11, <1>12 DEF GestureInv

LEMMA RestingKeeps ==
    ASSUME GestureInv, Gestures!Reset
    PROVE  GestureInv'
<1>1. /\ det' = Gestures!Resting /\ held' = 0 /\ recognized' = {} /\ polled' = {} /\ cut' = TRUE
      /\ inj' = inj /\ acc' = acc /\ picker' = picker /\ window' = window /\ ended' = ended
  BY DEF Gestures!Reset
<1>2. /\ inj \in Injector /\ InjectorSane(inj) /\ picker \in Picks \cup {"none", "closed"}
      /\ ended \in Gestures!Momentary \cup {"none"} /\ (picker = "closed" \/ picker = inj.selected)
  BY NowTypes
<1> DEFINE d == Gestures!Resting
<1>3. d \in Detector /\ DetectorSane(d)
  <2>1. "none" \in Reported
    BY DEF Reported
  <2>2. d = [sigma |-> 0, last |-> "none", current |-> "none", crossed |-> {}, shaken |-> FALSE, count |-> 0, timer |-> 0]
    BY DEF Gestures!Resting
  <2>3. d \in Detector
    BY <2>1, <2>2 DEF Detector
  <2>4. DetectorSane(d)
    BY <2>2 DEF DetectorSane
  <2> QED
    BY <2>3, <2>4
<1> HIDE DEF d
<1> DEFINE r == [det |-> d, inj |-> inj, picker |-> picker, held |-> 0, recognized |-> {}, ended |-> ended]
<1>4. Now' = r
  BY <1>1 DEF Now, d
<1>5. r \in Fed
  <2>1. 0 \in 0..16
    OBVIOUS
  <2> QED
    BY <1>2, <1>3, <2>1 DEF Fed
<1>6. r.det = d /\ r.inj = inj /\ r.picker = picker /\ r.held = 0 /\ r.recognized = {} /\ r.ended = ended
  OBVIOUS
<1> HIDE DEF r
<1>7. inj.step >= 0
  BY <1>2 DEF Injector
<1>8. Holding(r) /\ Falling(r, TRUE) /\ Shaking(r, window, TRUE) /\ Seen(r, window, TRUE)
  BY <1>6, <1>7 DEF Holding, Falling, Shaking, Seen
<1>9. Sound(r, window, TRUE)
  BY <1>2, <1>3, <1>5, <1>6, <1>8 DEF Sound
<1>10. Sound(Now', window', cut')
  BY <1>1, <1>4, <1>9
<1>11. window' \in BOOLEAN /\ cut' \in BOOLEAN /\ acc' \in 0..19
  BY <1>1 DEF GestureInv
<1>12. Gestures!PollSees'
  BY <1>1 DEF Gestures!PollSees
<1> QED
  BY <1>10, <1>11, <1>12 DEF GestureInv

LEMMA GestureHolds == BoardSpec => []GestureInv
<1>1. Gestures!GestureParameters
  BY BoardAssumption
<1>2. BoardInit => GestureInv
  BY <1>1, GestureStart DEF BoardInit
<1>3. ASSUME GestureInv, [BoardNext]_<<part, ports, card, motion, events, audio>>
      PROVE  GestureInv'
  <2>1. CASE UNCHANGED motion
    <3>1. /\ det' = det /\ inj' = inj /\ acc' = acc /\ picker' = picker /\ held' = held
          /\ recognized' = recognized /\ polled' = polled /\ window' = window /\ cut' = cut /\ ended' = ended
      BY <2>1 DEF motion
    <3> QED
      BY <1>3, <3>1 DEF GestureInv, Now, Gestures!PollSees
  <2>2. CASE Gestures!Next
    BY <1>1, <1>3, <2>2, SamplesKeep, SelectionKeeps, CardKeeps, RestingKeeps DEF Gestures!Next
  <2> QED
    BY <1>3, <2>1, <2>2 DEF BoardNext
<1> QED
  BY <1>2, <1>3, PTL DEF BoardSpec

(* What the properties of the gestures say of a state.                      *)
LEMMA GestureSound ==
    ASSUME GestureInv
    PROVE  /\ Gestures!TypeOK /\ Gestures!Settles /\ Gestures!FreefallSeen /\ Gestures!ShakeSeen
           /\ Gestures!PollSees /\ Gestures!PickerShows
<1>1. /\ det \in Detector /\ inj \in Injector /\ held \in 0..16 /\ DetectorSane(det) /\ InjectorSane(inj)
      /\ picker = "closed" \/ picker = inj.selected
  BY NowTypes
<1>2. /\ acc \in 0..19 /\ Gestures!PollSees /\ Holding(Now) /\ Seen(Now, window, cut)
  BY DEF GestureInv, Sound
<1>3. /\ det.sigma \in 0..5 /\ det.count \in 0..4 /\ det.timer \in 0..29 /\ det.crossed \in SUBSET Gestures!Axes
      /\ inj.step \in 0..10 /\ inj.selected \in Picks \cup {"none"}
  BY <1>1 DEF Detector, Injector
<1>4. Gestures!TypeOK
  BY <1>1, <1>2, <1>3 DEF Gestures!TypeOK, Gestures!Period, DetectorSane, InjectorSane
<1>5. Gestures!Settles
  <2> SUFFICES ASSUME inj.mode = "hold", held >= 14
               PROVE  det.last = inj.selected
    BY DEF Gestures!Settles
  <2>1. held >= 9
    BY <1>1
  <2>2. /\ det.sigma >= held - 9 \/ det.sigma = 5
        /\ det.sigma = 5 => det.last = inj.selected
    BY <1>2, <2>1, NowFields DEF Holding
  <2> QED
    BY <1>1, <1>3, <2>2
<1>6. Gestures!FreefallSeen /\ Gestures!ShakeSeen
  BY <1>2, NowFields DEF Seen, Gestures!FreefallSeen, Gestures!ShakeSeen
<1> QED
  BY <1>1, <1>2, <1>4, <1>5, <1>6 DEF Gestures!PickerShows

(* A gesture the user selects is the one the program polls: a posture that  *)
(* was held, a freefall and a shake that played to their end, the last two  *)
(* even for one sample; and the card shows what plays (GestureInjector,      *)
(* GestureDetector.update, gesture-sensor.ts, GesturePicker.tsx).           *)
THEOREM GesturesAreSeen == BoardSpec => []GesturesSeen
<1>1. GestureInv => GesturesSeen
  BY GestureSound DEF GesturesSeen
<1> QED
  BY <1>1, GestureHolds, PTL

-----------------------------------------------------------------------------
(* The ports and the card.  A threshold below one presses a logo at rest,   *)
(* and differences of times go wrong over a wrap of the timer: the two are  *)
(* left out.                                                                *)
WithinDocs == Thresholds \subseteq 1..(Half - 1) /\ MaxClock < Wrap

(* The ports.                                                               *)
SonarRecord == [echo : Int, cache : 0..Ports!MaxDistance]

(* Every reading is of the epoch that runs, and the sliders' two are there. *)
LevelSound ==
    /\ epoch \in Nat /\ panelEpoch \in 0..epoch
    /\ \A x \in DOMAIN level : level[x].epoch = epoch /\ level[x].value \in Seq(Int)
    /\ Ports!Light \in DOMAIN level /\ level[Ports!Light].value[1] \in 0..255
    /\ Ports!Temp \in DOMAIN level /\ level[Ports!Temp].value[1] \in Int
(* The sonar's cache is the distance of the last cycle.                     *)
SonarSound ==
    /\ atCycle \in Int /\ DOMAIN sonars \subseteq {Ports!Sonar}
    /\ Ports!Sonar \notin DOMAIN sonars => atCycle = -1
    /\ Ports!Sonar \in DOMAIN sonars => /\ sonars[Ports!Sonar] \in SonarRecord
                                        /\ sonars[Ports!Sonar].cache = Ports!Distance(atCycle)
PinsSound == asked \in Seq(Args \X {0, 1}) /\ Len(driven) \in Nat /\ driven \in Seq(Int \X {0, 1}) /\ Ports!OwnPin
HeardSound == Ports!SonarLags /\ Ports!WholeReads /\ Ports!FreshReads
PortsInv == LevelSound /\ SonarSound /\ PinsSound /\ HeardSound /\ Ports!SliderFollows

LEMMA DistanceFacts ==
    /\ \A e \in Int : Ports!Distance(e) \in 0..Ports!MaxDistance
    /\ Ports!Distance(-1) = Ports!MaxDistance
<1>1. ASSUME NEW e \in Int, ~(e < 0) PROVE (e * 34) \div 2000 \in Nat
  <2>1. e * 34 \in Nat
    BY <1>1
  <2> QED
    BY <2>1
<1> QED
  BY <1>1 DEF Ports!Distance, Ports!MaxDistance, Ports!AtMost

LEMMA PortNames ==
    /\ Ports!Light # Ports!Temp
    /\ \A n : /\ <<"digital", n>> # Ports!Light /\ <<"digital", n>> # Ports!Temp /\ <<"digital", n>> # Ports!Sonar
              /\ <<"analog", n>> # Ports!Light /\ <<"analog", n>> # Ports!Temp /\ <<"analog", n>> # Ports!Sonar
              /\ <<"i2c", n>> # Ports!Light /\ <<"i2c", n>> # Ports!Temp /\ <<"i2c", n>> # Ports!Sonar
              /\ <<"digital", n>>[1] = "digital" /\ <<"analog", n>>[1] = "analog" /\ <<"i2c", n>>[1] = "i2c"
              /\ <<"i2c", n>>[2] = n
    /\ Ports!Light # Ports!Sonar /\ Ports!Temp # Ports!Sonar
    /\ Ports!Light[1] = "light" /\ Ports!Temp[1] = "temp" /\ Ports!Sonar[1] = "sonar"
<1>1. Ports!Light[1] = "light" /\ Ports!Temp[1] = "temp" /\ Ports!Sonar[1] = "sonar"
  BY DEF Ports!Light, Ports!Temp, Ports!Sonar
<1>2. ASSUME NEW n
      PROVE  <<"digital", n>>[1] = "digital" /\ <<"analog", n>>[1] = "analog" /\ <<"i2c", n>>[1] = "i2c"
             /\ <<"i2c", n>>[2] = n
  OBVIOUS
<1> QED
  BY <1>1, <1>2

LEMMA PortsCardinality == \A S : Ports!Cardinality(S) = Cardinality(S)
  BY DEF Ports!Cardinality, Cardinality

LEMMA PortsStart == Ports!PortsParameters /\ Ports!Init => PortsInv
<1> SUFFICES ASSUME Ports!PortsParameters, Ports!Init PROVE PortsInv
  OBVIOUS
<1>1. /\ epoch = 0 /\ level = Ports!Resting(0) /\ sonars = <<>> /\ driven = <<>> /\ panel = <<>> /\ thinking = FALSE
      /\ panelEpoch = 0 /\ asked = <<>> /\ heard = {} /\ atCycle = -1
  BY DEF Ports!Init
<1>2. LevelSound
  BY <1>1, PortNames DEF LevelSound, Ports!Resting
<1>3. SonarSound
  <2>1. Ports!Sonar \notin DOMAIN << >>
    BY DEF Ports!Sonar
  <2>2. DOMAIN << >> \subseteq {Ports!Sonar}
    <3>1. DOMAIN << >> = {}
      OBVIOUS
    <3> QED
      BY <3>1
  <2> QED
    BY <1>1, <2>1, <2>2 DEF SonarSound
<1>4. PinsSound
  <2>1. Ports!Landing = {} /\ Len(driven) = 0
    BY <1>1 DEF Ports!Landing
  <2>2. Ports!Cardinality({}) = 0
    BY FS_EmptySet, PortsCardinality
  <2> QED
    BY <1>1, <2>1, <2>2 DEF PinsSound, Ports!OwnPin
<1>5. HeardSound /\ Ports!SliderFollows
  BY <1>1 DEF HeardSound, Ports!SonarLags, Ports!WholeReads, Ports!FreshReads, Ports!SliderFollows
<1> QED
  BY <1>2, <1>3, <1>4, <1>5 DEF PortsInv

(* A reading is put at a port: every other port keeps its own.              *)
LEMMA InjectFacts ==
    ASSUME PortsInv, NEW port, NEW v \in Seq(Int), Ports!Inject(port, v),
           port = Ports!Light => v[1] \in 0..255, port = Ports!Temp => v[1] \in Int
    PROVE  /\ LevelSound' /\ SonarSound' /\ PinsSound' /\ HeardSound'
           /\ level'[port].value = v /\ \A x \in DOMAIN level : x # port => level'[x] = level[x]
<1>1. LevelSound /\ SonarSound /\ PinsSound /\ HeardSound
  BY DEF PortsInv
<1>2. /\ ~thinking
      /\ level' = [x \in DOMAIN level \cup {port} |-> IF x = port THEN [value |-> v, epoch |-> epoch] ELSE level[x]]
      /\ sonars' = sonars /\ driven' = driven /\ thinking' = thinking /\ epoch' = epoch
      /\ panelEpoch' = panelEpoch /\ asked' = asked /\ heard' = heard /\ atCycle' = atCycle
  BY DEF Ports!Inject
<1>3. /\ DOMAIN level' = DOMAIN level \cup {port}
      /\ level'[port].value = v /\ level'[port].epoch = epoch
      /\ \A x \in DOMAIN level : x # port => level'[x] = level[x]
  BY <1>2
<1>4. LevelSound'
  <2>1. \A x \in DOMAIN level' : level'[x].epoch = epoch /\ level'[x].value \in Seq(Int)
    BY <1>1, <1>3 DEF LevelSound
  <2>2. level'[Ports!Light].value[1] \in 0..255
    <3>1. CASE port = Ports!Light
      BY <1>3, <3>1
    <3>2. CASE port # Ports!Light
      BY <1>1, <1>3, <3>2 DEF LevelSound
    <3> QED
      BY <3>1, <3>2
  <2>3. level'[Ports!Temp].value[1] \in Int
    <3>1. CASE port = Ports!Temp
      BY <1>3, <3>1
    <3>2. CASE port # Ports!Temp
      BY <1>1, <1>3, <3>2 DEF LevelSound
    <3> QED
      BY <3>1, <3>2
  <2> QED
    BY <1>1, <1>2, <1>3, <2>1, <2>2, <2>3 DEF LevelSound
<1>5. SonarSound' /\ PinsSound'
  BY <1>1, <1>2 DEF SonarSound, PinsSound, Ports!OwnPin, Ports!Landing, Ports!Meant
<1>6. HeardSound'
  BY <1>1, <1>2 DEF HeardSound, Ports!SonarLags, Ports!WholeReads, Ports!FreshReads
<1> QED
  BY <1>3, <1>4, <1>5, <1>6

LEMMA PutKeeps ==
    ASSUME PortsInv, NEW port, NEW v \in Seq(Int), Ports!Inject(port, v), panel' = panel,
           port # Ports!Light, port # Ports!Temp
    PROVE  PortsInv'
<1>3. /\ LevelSound' /\ SonarSound' /\ PinsSound' /\ HeardSound'
      /\ \A x \in DOMAIN level : x # port => level'[x] = level[x]
  BY InjectFacts
<1>4. level'[Ports!Light] = level[Ports!Light] /\ level'[Ports!Temp] = level[Ports!Temp]
  BY <1>3 DEF PortsInv, LevelSound
<1>5. epoch' = epoch /\ panelEpoch' = panelEpoch
  BY DEF Ports!Inject
<1>6. Ports!SliderFollows'
  BY <1>4, <1>5 DEF PortsInv, Ports!SliderFollows, Ports!Shows
<1> QED
  BY <1>3, <1>6 DEF PortsInv

LEMMA ReadingsKeep ==
    ASSUME Ports!PortsParameters, PortsInv,
           \/ \E pin \in {2} : Ports!SetDigitalRead(pin) \/ Ports!SetAnalogRead(pin)
           \/ \E n \in Responses : Ports!SetReadResponse(n)
    PROVE  PortsInv'
<1>1. CASE \E pin \in {2} : Ports!SetDigitalRead(pin)
  <2>1. Ports!Inject(<<"digital", 2>>, <<1>>) /\ panel' = panel
    BY <1>1 DEF Ports!SetDigitalRead
  <2>2. <<1>> \in Seq(Int) /\ <<"digital", 2>> # Ports!Light /\ <<"digital", 2>> # Ports!Temp
    BY PortNames
  <2> QED
    BY <2>1, <2>2, PutKeeps
<1>2. CASE \E pin \in {2} : Ports!SetAnalogRead(pin)
  <2>1. Ports!Inject(<<"analog", 2>>, <<1023>>) /\ panel' = panel
    BY <1>2 DEF Ports!SetAnalogRead
  <2>2. <<1023>> \in Seq(Int) /\ <<"analog", 2>> # Ports!Light /\ <<"analog", 2>> # Ports!Temp
    BY PortNames
  <2> QED
    BY <2>1, <2>2, PutKeeps
<1>3. CASE \E n \in Responses : Ports!SetReadResponse(n)
  <2>1. PICK n \in Responses : Ports!SetReadResponse(n)
    BY <1>3
  <2> DEFINE v == [i \in 1..n |-> i]
  <2>2. Ports!Inject(<<"i2c", 8>>, v) /\ panel' = panel
    BY <2>1 DEF Ports!SetReadResponse
  <2>3. v \in Seq(Int)
    <3>1. n \in Nat
      BY DEF Ports!PortsParameters
    <3> QED
      BY <3>1
  <2>4. <<"i2c", 8>> # Ports!Light /\ <<"i2c", 8>> # Ports!Temp
    BY PortNames
  <2> HIDE DEF v
  <2> QED
    BY <2>2, <2>3, <2>4, PutKeeps
<1> QED
  BY <1>1, <1>2, <1>3

LEMMA SlidersKeep ==
    ASSUME Ports!PortsParameters, PortsInv, NEW v \in Levels, Ports!MoveLight(v) \/ Ports!MoveTemperature(v)
    PROVE  PortsInv'
<1> DEFINE q == <<v>>
<1>1. q \in Seq(Int) /\ q[1] = v /\ v \in Int
  BY DEF Ports!PortsParameters
<1>2. Ports!Light # Ports!Temp /\ Ports!Light \in DOMAIN level /\ Ports!Temp \in DOMAIN level /\ Ports!SliderFollows
  BY PortNames DEF PortsInv, LevelSound
<1>3. CASE Ports!MoveLight(v)
  <2>1. v \in 0..255 /\ Ports!Clamp255(v) = v
    <3>1. v \in 0..255
      BY <1>3 DEF Ports!MoveLight
    <3> QED
      BY <3>1 DEF Ports!Clamp255, Ports!NonNegative, Ports!AtMost
  <2>2. Ports!Inject(Ports!Light, q) /\ panel' = [panel EXCEPT !.light = v]
    BY <1>3, <2>1 DEF Ports!MoveLight
  <2>3. epoch' = epoch /\ panelEpoch' = panelEpoch
    BY <2>2 DEF Ports!Inject
  <2> HIDE DEF q
  <2>4. q[1] \in 0..255
    BY <1>1, <2>1
  <2>5. /\ LevelSound' /\ SonarSound' /\ PinsSound' /\ HeardSound'
        /\ level'[Ports!Light].value = q /\ \A x \in DOMAIN level : x # Ports!Light => level'[x] = level[x]
    BY <1>1, <1>2, <2>2, <2>4, InjectFacts
  <2>6. level'[Ports!Light].value[1] = v /\ level'[Ports!Temp] = level[Ports!Temp]
    BY <1>1, <1>2, <2>5
  <2>7. Ports!SliderFollows'
    BY <1>2, <2>2, <2>3, <2>6 DEF Ports!SliderFollows, Ports!Shows
  <2> QED
    BY <2>5, <2>7 DEF PortsInv
<1>4. CASE Ports!MoveTemperature(v)
  <2>1. Ports!Inject(Ports!Temp, q) /\ panel' = [panel EXCEPT !.temp = v]
    BY <1>4 DEF Ports!MoveTemperature
  <2>2. epoch' = epoch /\ panelEpoch' = panelEpoch
    BY <2>1 DEF Ports!Inject
  <2> HIDE DEF q
  <2>3. q[1] \in Int
    BY <1>1
  <2>4. /\ LevelSound' /\ SonarSound' /\ PinsSound' /\ HeardSound'
        /\ level'[Ports!Temp].value = q /\ \A x \in DOMAIN level : x # Ports!Temp => level'[x] = level[x]
    BY <1>1, <1>2, <2>1, <2>3, InjectFacts
  <2>5. level'[Ports!Temp].value[1] = v /\ level'[Ports!Light] = level[Ports!Light]
    BY <1>1, <1>2, <2>4
  <2>6. Ports!SliderFollows'
    BY <1>2, <2>1, <2>2, <2>5 DEF Ports!SliderFollows, Ports!Shows
  <2> QED
    BY <2>4, <2>6 DEF PortsInv
<1> QED
  BY <1>3, <1>4

(* A sonar is registered once, resting at the distance of no echo.          *)
LEMMA RegisteredFacts ==
    ASSUME SonarSound
    PROVE  LET s == Ports!Registered(sonars) IN
           DOMAIN s = {Ports!Sonar} /\ s[Ports!Sonar] \in SonarRecord /\ s[Ports!Sonar].cache = Ports!Distance(atCycle)
<1>1. CASE Ports!Sonar \in DOMAIN sonars
  BY <1>1 DEF SonarSound, Ports!Registered
<1>2. CASE Ports!Sonar \notin DOMAIN sonars
  <2>1. Ports!Registered(sonars) = [x \in {Ports!Sonar} |-> Ports!SonarState] /\ atCycle = -1
    BY <1>2 DEF SonarSound, Ports!Registered
  <2>2. Ports!SonarState \in SonarRecord /\ Ports!SonarState.cache = Ports!MaxDistance
    BY DEF Ports!SonarState, SonarRecord, Ports!MaxDistance
  <2> QED
    BY <2>1, <2>2, DistanceFacts
<1> QED
  BY <1>1, <1>2

LEMMA EchoKeeps ==
    ASSUME PortsInv, NEW e \in Int, Ports!SetEchoMicros(e)
    PROVE  PortsInv'
<1> DEFINE s == Ports!Registered(sonars)
<1>1. SonarSound /\ LevelSound
  BY DEF PortsInv
<1>2. DOMAIN s = {Ports!Sonar} /\ s[Ports!Sonar] \in SonarRecord /\ s[Ports!Sonar].cache = Ports!Distance(atCycle)
  BY <1>1, RegisteredFacts
<1>3. sonars' = [s EXCEPT ![Ports!Sonar].echo = e]
      /\ UNCHANGED <<level, driven, panel, thinking, epoch, panelEpoch, asked, heard, atCycle>>
  BY DEF Ports!SetEchoMicros
<1> HIDE DEF s
<1>4. DOMAIN sonars' = {Ports!Sonar} /\ sonars'[Ports!Sonar] = [s[Ports!Sonar] EXCEPT !.echo = e]
  BY <1>2, <1>3
<1>5. sonars'[Ports!Sonar] \in SonarRecord /\ sonars'[Ports!Sonar].cache = Ports!Distance(atCycle)
  BY <1>2, <1>4 DEF SonarRecord
<1>6. SonarSound'
  BY <1>1, <1>3, <1>4, <1>5 DEF SonarSound
<1> QED
  BY <1>3, <1>6 DEF PortsInv, LevelSound, PinsSound, HeardSound, Ports!OwnPin, Ports!Landing, Ports!Meant,
        Ports!SonarLags, Ports!WholeReads, Ports!FreshReads, Ports!SliderFollows, Ports!Shows

LEMMA PanelKeeps ==
    ASSUME PortsInv, Ports!OpenPanel \/ Ports!ClosePanel
    PROVE  PortsInv'
<1>1. UNCHANGED <<level, sonars, driven, thinking, epoch, asked, heard, atCycle>>
  BY DEF Ports!OpenPanel, Ports!ClosePanel
<1>2. SonarSound' /\ PinsSound' /\ HeardSound'
  BY <1>1 DEF PortsInv, SonarSound, PinsSound, HeardSound, Ports!OwnPin, Ports!Landing, Ports!Meant,
        Ports!SonarLags, Ports!WholeReads, Ports!FreshReads
<1>3. LevelSound'
  BY <1>1 DEF PortsInv, LevelSound, Ports!OpenPanel, Ports!ClosePanel
<1>4. Ports!SliderFollows'
  BY <1>1 DEF PortsInv, Ports!SliderFollows, Ports!Shows, Ports!OpenPanel, Ports!ClosePanel
<1> QED
  BY <1>2, <1>3, <1>4 DEF PortsInv

LEMMA PortsResetKeep ==
    ASSUME PortsInv, Ports!Reset
    PROVE  PortsInv'
<1>1. /\ epoch' = epoch + 1 /\ level' = Ports!Resting(epoch') /\ sonars' = <<>> /\ driven' = <<>> /\ asked' = <<>>
      /\ heard' = {} /\ atCycle' = -1 /\ panelEpoch' = panelEpoch /\ panelEpoch \in 0..epoch /\ epoch \in Nat
  BY DEF Ports!Reset, PortsInv, LevelSound
<1>2. LevelSound'
  <2>1. /\ DOMAIN level' = {Ports!Light, Ports!Temp} /\ level'[Ports!Light] = [value |-> <<128>>, epoch |-> epoch']
        /\ level'[Ports!Temp] = [value |-> <<21>>, epoch |-> epoch']
    BY <1>1, PortNames DEF Ports!Resting
  <2>2. /\ level'[Ports!Light].value = <<128>> /\ level'[Ports!Light].epoch = epoch'
        /\ level'[Ports!Temp].value = <<21>> /\ level'[Ports!Temp].epoch = epoch'
    BY <2>1
  <2>3. /\ <<128>> \in Seq(Int) /\ <<128>>[1] \in 0..255 /\ <<21>> \in Seq(Int) /\ <<21>>[1] \in Int
    OBVIOUS
  <2>4. ASSUME NEW x \in DOMAIN level' PROVE level'[x].epoch = epoch' /\ level'[x].value \in Seq(Int)
    <3>1. CASE x = Ports!Light
      BY <2>2, <2>3, <3>1
    <3>2. CASE x = Ports!Temp
      BY <2>2, <2>3, <3>2
    <3> QED
      BY <2>1, <3>1, <3>2
  <2>5. level'[Ports!Light].value[1] \in 0..255 /\ level'[Ports!Temp].value[1] \in Int
    BY <2>2, <2>3
  <2>6. epoch' \in Nat /\ panelEpoch' \in 0..epoch'
    BY <1>1
  <2>7. Ports!Light \in DOMAIN level' /\ Ports!Temp \in DOMAIN level'
    BY <2>1
  <2> QED
    BY <2>4, <2>5, <2>6, <2>7 DEF LevelSound
<1>3. SonarSound'
  <2>1. DOMAIN << >> = {}
    OBVIOUS
  <2> QED
    BY <1>1, <2>1 DEF SonarSound
<1>4. PinsSound'
  <2>1. Ports!Landing' = {} /\ Len(driven') = 0
    BY <1>1 DEF Ports!Landing
  <2>2. Ports!Cardinality({}) = 0
    BY FS_EmptySet, PortsCardinality
  <2> QED
    BY <1>1, <2>1, <2>2 DEF PinsSound, Ports!OwnPin
<1>5. HeardSound' /\ Ports!SliderFollows'
  BY <1>1 DEF HeardSound, Ports!SonarLags, Ports!WholeReads, Ports!FreshReads, Ports!SliderFollows
<1> QED
  BY <1>2, <1>3, <1>4, <1>5 DEF PortsInv

LEMMA ThinkKeeps ==
    ASSUME PortsInv, Ports!Think
    PROVE  PortsInv'
<1>1. heard' = {} /\ UNCHANGED <<level, sonars, driven, panel, epoch, panelEpoch, asked, atCycle>>
  BY DEF Ports!Think
<1>2. HeardSound'
  BY <1>1 DEF HeardSound, Ports!SonarLags, Ports!WholeReads, Ports!FreshReads
<1> QED
  BY <1>1, <1>2 DEF PortsInv, LevelSound, SonarSound, PinsSound, Ports!OwnPin, Ports!Landing, Ports!Meant,
        Ports!SliderFollows, Ports!Shows

(* The driver measures at the end of a think.                               *)
LEMMA CycleKeeps ==
    ASSUME PortsInv, Ports!Cycle
    PROVE  PortsInv'
<1>1. /\ thinking' = FALSE /\ UNCHANGED <<level, driven, panel, epoch, panelEpoch, asked, heard>>
      /\ sonars' = [s \in DOMAIN sonars |-> [sonars[s] EXCEPT !.cache = Ports!Distance(sonars[s].echo)]]
      /\ atCycle' = IF Ports!Sonar \in DOMAIN sonars THEN sonars[Ports!Sonar].echo ELSE -1
  BY DEF Ports!Cycle
<1>2. SonarSound
  BY DEF PortsInv
<1>3. SonarSound'
  <2>1. CASE Ports!Sonar \in DOMAIN sonars
    <3> DEFINE r == sonars[Ports!Sonar]
    <3>1. r \in SonarRecord /\ DOMAIN sonars \subseteq {Ports!Sonar}
      BY <1>2, <2>1 DEF SonarSound
    <3>2. r.echo \in Int
      BY <3>1 DEF SonarRecord
    <3>3. Ports!Distance(r.echo) \in 0..Ports!MaxDistance
      BY <3>2, DistanceFacts
    <3>4. DOMAIN sonars' = DOMAIN sonars /\ sonars'[Ports!Sonar] = [r EXCEPT !.cache = Ports!Distance(r.echo)]
          /\ atCycle' = r.echo
      BY <1>1, <2>1
    <3> HIDE DEF r
    <3>5. sonars'[Ports!Sonar] \in SonarRecord /\ sonars'[Ports!Sonar].cache = Ports!Distance(atCycle')
      BY <3>1, <3>3, <3>4 DEF SonarRecord
    <3>6. \A e, f : e = f => Ports!Distance(e) = Ports!Distance(f)
      OBVIOUS
    <3> QED
      BY <2>1, <3>1, <3>2, <3>4, <3>5 DEF SonarSound, Ports!Distance, Ports!MaxDistance
  <2>2. CASE Ports!Sonar \notin DOMAIN sonars
    BY <1>1, <1>2, <2>2 DEF SonarSound
  <2> QED
    BY <2>1, <2>2
<1>4. HeardSound'
  BY <1>1 DEF PortsInv, HeardSound, Ports!SonarLags, Ports!WholeReads, Ports!FreshReads
<1> QED
  BY <1>1, <1>3, <1>4 DEF PortsInv, LevelSound, PinsSound, Ports!OwnPin, Ports!Landing, Ports!Meant,
        Ports!SliderFollows, Ports!Shows

(* What a program reads is of the epoch that runs, whole, and a sonar's the *)
(* distance of the last cycle.                                              *)
LEMMA HearKeeps ==
    ASSUME PortsInv, NEW port, NEW v, Ports!Hear(port, v, epoch), SonarSound',
           port = Ports!Sonar => v = <<Ports!Distance(atCycle)>>,
           port[1] = "i2c" => Len(v) \in {0, port[2]}
    PROVE  PortsInv'
<1> DEFINE r == [port |-> port, value |-> v, epoch |-> epoch]
<1>1. heard' = heard \cup {r} /\ UNCHANGED <<level, driven, panel, thinking, epoch, panelEpoch, asked, atCycle>>
  BY DEF Ports!Hear
<1>2. Ports!SonarLags' /\ Ports!FreshReads'
  BY <1>1 DEF PortsInv, HeardSound, Ports!SonarLags, Ports!FreshReads
<1>3. Ports!WholeReads'
  BY <1>1 DEF PortsInv, HeardSound, Ports!WholeReads
<1> QED
  BY <1>1, <1>2, <1>3 DEF PortsInv, LevelSound, PinsSound, HeardSound, Ports!OwnPin, Ports!Landing, Ports!Meant,
        Ports!SliderFollows, Ports!Shows

LEMMA ReadKeeps ==
    ASSUME PortsInv, NEW port, NEW default, Ports!Read(port, default), port # Ports!Sonar, port[1] # "i2c"
    PROVE  PortsInv'
<1>1. sonars' = sonars /\ SonarSound /\ LevelSound
  BY DEF Ports!Read, PortsInv
<1>2. atCycle' = atCycle
  BY DEF Ports!Read, Ports!Hear
<1>3. SonarSound'
  BY <1>1, <1>2 DEF SonarSound
<1>4. CASE port \in DOMAIN level
  <2>1. Ports!Hear(port, level[port].value, epoch)
    BY <1>1, <1>4 DEF Ports!Read, LevelSound
  <2> QED
    BY <1>3, <2>1, HearKeeps
<1>5. CASE port \notin DOMAIN level
  <2>1. Ports!Hear(port, default, epoch)
    BY <1>5 DEF Ports!Read
  <2> QED
    BY <1>3, <2>1, HearKeeps
<1> QED
  BY <1>4, <1>5

LEMMA ReadsKeep ==
    ASSUME PortsInv,
           \/ \E arg \in Args : Ports!DigitalRead(arg) \/ Ports!AnalogRead(arg)
           \/ Ports!LightLevel \/ Ports!Temperature
    PROVE  PortsInv'
<1>1. CASE \E arg \in Args : Ports!DigitalRead(arg)
  <2>1. PICK arg \in Args : Ports!DigitalRead(arg)
    BY <1>1
  <2> DEFINE port == <<"digital", Ports!NonNegative(arg)>>
  <2>2. Ports!Read(port, <<0>>) /\ port # Ports!Sonar /\ port[1] # "i2c"
    BY <2>1, PortNames DEF Ports!DigitalRead
  <2> HIDE DEF port
  <2> QED
    BY <2>2, ReadKeeps
<1>2. CASE \E arg \in Args : Ports!AnalogRead(arg)
  <2>1. PICK arg \in Args : Ports!AnalogRead(arg)
    BY <1>2
  <2> DEFINE port == <<"analog", Ports!NonNegative(arg)>>
  <2>2. Ports!Read(port, <<0>>) /\ port # Ports!Sonar /\ port[1] # "i2c"
    BY <2>1, PortNames DEF Ports!AnalogRead
  <2> HIDE DEF port
  <2> QED
    BY <2>2, ReadKeeps
<1>3. CASE Ports!LightLevel
  BY <1>3, PortNames, ReadKeeps DEF Ports!LightLevel
<1>4. CASE Ports!Temperature
  BY <1>4, PortNames, ReadKeeps DEF Ports!Temperature
<1> QED
  BY <1>1, <1>2, <1>3, <1>4

LEMMA BufferKeeps ==
    ASSUME PortsInv, NEW length \in Nat, Ports!ReadBuffer(length)
    PROVE  PortsInv'
<1> DEFINE port == <<"i2c", length>>
           bytes == level[<<"i2c", 8>>].value
           whole == [i \in 1..length |-> IF i \in DOMAIN bytes THEN bytes[i] ELSE 0]
<1>1. sonars' = sonars /\ SonarSound /\ LevelSound
  BY DEF Ports!ReadBuffer, PortsInv
<1>2. atCycle' = atCycle
  BY DEF Ports!ReadBuffer, Ports!Hear
<1>3. SonarSound'
  BY <1>1, <1>2 DEF SonarSound
<1>4. port # Ports!Sonar /\ port[2] = length
  BY PortNames
<1>5. CASE <<"i2c", 8>> \in DOMAIN level
  <2>1. Ports!Hear(port, whole, epoch)
    BY <1>1, <1>5 DEF Ports!ReadBuffer, LevelSound
  <2>2. Len(whole) = length
    <3>1. bytes \in Seq(Int)
      BY <1>1, <1>5 DEF LevelSound
    <3>2. whole \in Seq(Int)
      BY <3>1
    <3> QED
      BY <3>2
  <2> HIDE DEF port, whole
  <2> QED
    BY <1>3, <1>4, <2>1, <2>2, HearKeeps
<1>6. CASE <<"i2c", 8>> \notin DOMAIN level
  <2>1. Ports!Hear(port, << >>, epoch) /\ Len(<< >>) = 0
    BY <1>6 DEF Ports!ReadBuffer
  <2> HIDE DEF port
  <2> QED
    BY <1>3, <1>4, <2>1, HearKeeps
<1> QED
  BY <1>5, <1>6

LEMMA SonarKeeps ==
    ASSUME PortsInv, Ports!SonarDistance
    PROVE  PortsInv'
<1> DEFINE s == Ports!Registered(sonars)
<1>1. SonarSound
  BY DEF PortsInv
<1>2. DOMAIN s = {Ports!Sonar} /\ s[Ports!Sonar] \in SonarRecord /\ s[Ports!Sonar].cache = Ports!Distance(atCycle)
  BY <1>1, RegisteredFacts
<1>3. sonars' = s /\ Ports!Hear(Ports!Sonar, <<s[Ports!Sonar].cache>>, epoch)
  BY DEF Ports!SonarDistance
<1> HIDE DEF s
<1>4. atCycle' = atCycle
  BY <1>3 DEF Ports!Hear
<1>5. SonarSound'
  BY <1>1, <1>2, <1>3, <1>4 DEF SonarSound
<1> QED
  BY <1>2, <1>3, <1>5, PortNames, HearKeeps

(* A write on a pin is recorded behind those before it: the writes that     *)
(* landed are the recorded ones, in order.                                  *)
LEMMA DriveKeeps ==
    ASSUME PortsInv, Args \subseteq Int, NEW arg \in Args, NEW v \in {0, 1}, Ports!Drive(arg, v)
    PROVE  PortsInv'
<1> DEFINE n == Len(asked)
           L == Ports!Landing
           Upto(i) == {j \in L : j <= i}
           pin == Ports!NonNegative(arg)
<1>1. /\ asked \in Seq(Args \X {0, 1}) /\ driven \in Seq(Int \X {0, 1})
      /\ Len(driven) = Cardinality(L) /\ \A i \in L : driven[Cardinality(Upto(i))] = Ports!Meant(i)
  BY PortsCardinality DEF PortsInv, PinsSound, Ports!OwnPin
<1>2. /\ asked' = Append(asked, <<arg, v>>)
      /\ driven' = IF pin \in Ports!Pins THEN Append(driven, <<pin, v>>) ELSE driven
      /\ UNCHANGED <<level, sonars, panel, thinking, epoch, panelEpoch, heard, atCycle>>
  BY DEF Ports!Drive, Ports!WriteRecord
<1>3. LevelSound' /\ SonarSound' /\ HeardSound' /\ Ports!SliderFollows'
  BY <1>2 DEF PortsInv, LevelSound, SonarSound, HeardSound, Ports!SonarLags, Ports!WholeReads, Ports!FreshReads,
        Ports!SliderFollows, Ports!Shows
<1>4. n \in Nat /\ DOMAIN asked = 1..n /\ asked' \in Seq(Args \X {0, 1}) /\ DOMAIN asked' = 1..(n + 1)
      /\ asked'[n + 1] = <<arg, v>> /\ \A i \in 1..n : asked'[i] = asked[i]
  BY <1>1, <1>2
<1>m. pin \in Int /\ \A i \in 1..(n + 1) : Ports!Meant(i)' = IF i = n + 1 THEN <<pin, v>> ELSE Ports!Meant(i)
  <2>1. pin \in Int
    BY DEF Ports!NonNegative
  <2>2. asked'[n + 1][1] = arg /\ asked'[n + 1][2] = v
    BY <1>4
  <2>3. ASSUME NEW i \in 1..(n + 1)
        PROVE  Ports!Meant(i)' = IF i = n + 1 THEN <<pin, v>> ELSE Ports!Meant(i)
    <3>1. CASE i = n + 1
      BY <2>2, <3>1 DEF Ports!Meant
    <3>2. CASE i # n + 1
      <4>1. i \in 1..n
        BY <1>4, <3>2
      <4>2. asked'[i] = asked[i]
        BY <1>4, <4>1
      <4> QED
        BY <3>2, <4>2 DEF Ports!Meant
    <3> QED
      BY <3>1, <3>2
  <2> QED
    BY <2>1, <2>3
<1> HIDE DEF pin
<1>5. L \subseteq 1..n /\ IsFiniteSet(L) /\ \A i \in L : IsFiniteSet(Upto(i))
  <2>1. L \subseteq 1..n
    <3> HIDE DEF n
    <3>1. L = {i \in DOMAIN asked : Ports!Meant(i)[1] \in Ports!Pins}
      BY Zenon DEF Ports!Landing
    <3>2. DOMAIN asked = 1..n
      BY <1>4
    <3> HIDE DEF L
    <3> QED
      BY <3>1, <3>2
  <2>2. IsFiniteSet(1..n)
    <3>1. n \in Int /\ 1 \in Int
      BY <1>4
    <3> HIDE DEF n
    <3> QED
      BY <3>1, FS_Interval
  <2>3. IsFiniteSet(L)
    BY <2>1, <2>2, FS_Subset
  <2> QED
    BY <2>1, <2>3, FS_Subset
<1>6. CASE pin \in Ports!Pins
  <2>1. driven' = Append(driven, <<pin, v>>) /\ driven' \in Seq(Int \X {0, 1}) /\ Len(driven') = Len(driven) + 1
        /\ driven'[Len(driven) + 1] = <<pin, v>> /\ \A i \in 1..Len(driven) : driven'[i] = driven[i]
    BY <1>1, <1>2, <1>6, <1>m
  <2>2. Ports!Landing' = L \cup {n + 1}
    BY <1>4, <1>6, <1>m DEF Ports!Landing
  <2>3. Cardinality(L \cup {n + 1}) = Cardinality(L) + 1
    <3>1. n + 1 \notin L
      BY <1>4, <1>5
    <3> QED
      BY <1>5, <3>1, FS_AddElement
  <2>4. \A i \in L : Cardinality(Upto(i)) \in 1..Cardinality(L)
    <3> SUFFICES ASSUME NEW i \in L PROVE Cardinality(Upto(i)) \in 1..Cardinality(L)
      OBVIOUS
    <3>1. Cardinality(Upto(i)) <= Cardinality(L) /\ Cardinality(Upto(i)) \in Nat /\ Cardinality(L) \in Nat
      BY <1>5, FS_Subset, FS_CardinalityType
    <3>2. i \in Upto(i)
      BY <1>5
    <3>3. Cardinality(Upto(i)) # 0
      BY <1>5, <3>2, FS_EmptySet
    <3> QED
      BY <3>1, <3>3
  <2>5. ASSUME NEW i \in L \cup {n + 1}
        PROVE  driven'[Cardinality({j \in L \cup {n + 1} : j <= i})] = Ports!Meant(i)'
    <3>1. CASE i \in L
      <4>1. {j \in L \cup {n + 1} : j <= i} = Upto(i)
        BY <1>4, <1>5, <3>1
      <4>2. driven'[Cardinality(Upto(i))] = driven[Cardinality(Upto(i))]
        BY <1>1, <2>1, <2>4, <3>1
      <4>3. i \in 1..(n + 1) /\ i # n + 1
        BY <1>4, <1>5, <3>1
      <4>4. Ports!Meant(i)' = Ports!Meant(i)
        BY <1>m, <4>3
      <4>5. driven[Cardinality(Upto(i))] = Ports!Meant(i)
        BY <1>1, <3>1
      <4> QED
        BY <4>1, <4>2, <4>4, <4>5
    <3>2. CASE i = n + 1
      <4>1. {j \in L \cup {n + 1} : j <= i} = L \cup {n + 1}
        <5>1. \A j \in L \cup {n + 1} : j <= n + 1
          BY <1>4, <1>5
        <5> HIDE DEF L
        <5> QED
          BY <3>2, <5>1
      <4>2. Ports!Meant(i)' = <<pin, v>>
        BY <1>4, <1>m, <3>2
      <4>3. driven'[Cardinality(L \cup {n + 1})] = <<pin, v>>
        BY <1>1, <2>1, <2>3
      <4> QED
        BY <4>1, <4>2, <4>3
    <3> QED
      BY <3>1, <3>2
  <2>6. Len(driven') = Cardinality(L \cup {n + 1})
    BY <1>1, <2>1, <2>3
  <2> HIDE DEF L
  <2>7. Ports!OwnPin'
    BY <2>2, <2>5, <2>6, PortsCardinality DEF Ports!OwnPin
  <2>8. PinsSound'
    BY <1>4, <2>1, <2>7 DEF PinsSound
  <2> QED
    BY <1>3, <2>8 DEF PortsInv
<1>7. CASE pin \notin Ports!Pins
  <2>1. driven' = driven
    BY <1>2, <1>7
  <2>2. Ports!Landing' = L
    BY <1>4, <1>7, <1>m DEF Ports!Landing
  <2>3. \A i \in L : Ports!Meant(i)' = Ports!Meant(i)
    BY <1>m, <1>5
  <2> HIDE DEF L
  <2>4. Ports!OwnPin'
    BY <1>1, <2>1, <2>2, <2>3, PortsCardinality DEF Ports!OwnPin
  <2>5. PinsSound'
    BY <1>1, <1>4, <2>1, <2>4 DEF PinsSound
  <2> QED
    BY <1>3, <2>5 DEF PortsInv
<1> QED
  BY <1>6, <1>7

LEMMA PortsStep ==
    ASSUME Ports!PortsParameters, PortsInv, Ports!Next
    PROVE  PortsInv'
<1>1. CASE \E e \in Echoes : Ports!SetEchoMicros(e)
  BY <1>1, EchoKeeps DEF Ports!PortsParameters
<1>2. CASE \E v \in Levels : Ports!MoveLight(v) \/ Ports!MoveTemperature(v)
  BY <1>2, SlidersKeep
<1>3. CASE \E arg \in Args, v \in {0, 1} : Ports!Drive(arg, v)
  BY <1>3, DriveKeeps DEF Ports!PortsParameters
<1>4. CASE \E length \in Lengths : Ports!ReadBuffer(length)
  BY <1>4, BufferKeeps DEF Ports!PortsParameters
<1>5. CASE \/ \E arg \in Args : Ports!DigitalRead(arg) \/ Ports!AnalogRead(arg)
           \/ Ports!LightLevel \/ Ports!Temperature
  BY <1>5, ReadsKeep
<1>6. CASE \/ \E pin \in {2} : Ports!SetDigitalRead(pin) \/ Ports!SetAnalogRead(pin)
           \/ \E n \in Responses : Ports!SetReadResponse(n)
  BY <1>6, ReadingsKeep
<1>7. CASE Ports!OpenPanel \/ Ports!ClosePanel
  BY <1>7, PanelKeeps
<1>8. CASE Ports!Reset
  BY <1>8, PortsResetKeep
<1>9. CASE Ports!Think
  BY <1>9, ThinkKeeps
<1>10. CASE Ports!Cycle
  BY <1>10, CycleKeeps
<1>11. CASE Ports!SonarDistance
  BY <1>11, SonarKeeps
<1> QED
  BY <1>1, <1>2, <1>3, <1>4, <1>5, <1>6, <1>7, <1>8, <1>9, <1>10, <1>11 DEF Ports!Next

LEMMA PortsImply ==
    ASSUME PortsInv
    PROVE  /\ Ports!TypeOK /\ Ports!SonarLags /\ Ports!WholeReads /\ Ports!FreshReads
           /\ Ports!OwnPin /\ Ports!SliderFollows
<1>1. \A s \in DOMAIN sonars : sonars[s].cache \in 0..Ports!MaxDistance
  BY DEF PortsInv, SonarSound, SonarRecord
<1>2. Ports!TypeOK
  BY <1>1 DEF Ports!TypeOK, PortsInv, LevelSound
<1> QED
  BY <1>2 DEF PortsInv, HeardSound, PinsSound

LEMMA PortsStutter == PortsInv /\ UNCHANGED ports => PortsInv'
<1> SUFFICES ASSUME PortsInv, UNCHANGED ports PROVE PortsInv'
  OBVIOUS
<1>1. UNCHANGED <<level, sonars, driven, panel, thinking, epoch, panelEpoch, asked, heard, atCycle>>
  BY DEF ports
<1>2. LevelSound' /\ SonarSound'
  BY <1>1 DEF PortsInv, LevelSound, SonarSound
<1>3. PinsSound'
  BY <1>1 DEF PortsInv, PinsSound, Ports!OwnPin, Ports!Landing, Ports!Meant
<1>4. HeardSound' /\ Ports!SliderFollows'
  BY <1>1 DEF PortsInv, HeardSound, Ports!SonarLags, Ports!WholeReads, Ports!FreshReads, Ports!SliderFollows, Ports!Shows
<1> QED
  BY <1>2, <1>3, <1>4 DEF PortsInv

-----------------------------------------------------------------------------
(* The events of the card's buttons, in their order.                        *)
Inputs == {"A", "B", "logo"}
Event == Inputs \X {"DOWN", "UP", "CLICK"}
Own(q, b) == {i \in DOMAIN q : q[i][1] = b}
Runs(q, b) ==
    \A i, j \in Own(q, b) :
        i < j /\ (\A k \in Own(q, b) : k <= i \/ k >= j) => q[j][2] = Card!After[q[i][2]]
(* Its last event is of E, if it has one.                                   *)
Ends(q, b, E) == \A i \in Own(q, b) : (\A j \in Own(q, b) : j <= i) => q[i][2] \in E
Rests(b, P) == IF b \in P THEN {"DOWN"} ELSE {"CLICK"}
BusSound(q, P) == q \in Seq(Event) /\ \A b \in Inputs : Runs(q, b) /\ Ends(q, b, Rests(b, P))

LEMMA AfterFacts ==
    Card!After["DOWN"] = "UP" /\ Card!After["UP"] = "CLICK" /\ Card!After["CLICK"] = "DOWN"
  BY DEF Card!After

Longer(q, b, e) == Append(q, <<b, e>>)
LEMMA OneMore ==
    ASSUME NEW q \in Seq(Event), NEW b \in Inputs, NEW e \in {"DOWN", "UP", "CLICK"}
    PROVE  LET r == Longer(q, b, e) IN
           /\ r \in Seq(Event) /\ Len(r) = Len(q) + 1
           /\ \A i \in DOMAIN q : r[i] = q[i]
           /\ r[Len(q) + 1] = <<b, e>>
           /\ Own(r, b) = Own(q, b) \cup {Len(q) + 1}
           /\ \A c : Own(q, c) \subseteq 1..Len(q)
<1> DEFINE n == Len(q)
           r == Longer(q, b, e)
<1>1. <<b, e>> \in Event /\ <<b, e>>[1] = b
  BY DEF Event
<1>2. n \in Nat /\ DOMAIN q = 1..n
  OBVIOUS
<1>3. r \in Seq(Event) /\ Len(r) = n + 1 /\ DOMAIN r = 1..(n + 1) /\ r[n + 1] = <<b, e>> /\ \A i \in 1..n : r[i] = q[i]
  BY <1>1 DEF Longer
<1> HIDE DEF n, r
<1>4. Own(r, b) = Own(q, b) \cup {n + 1}
  BY <1>1, <1>2, <1>3 DEF Own
<1>6. \A c : Own(q, c) \subseteq 1..n
  BY <1>2 DEF Own
<1> QED
  BY <1>2, <1>3, <1>4, <1>6 DEF n, r

(* An event that may follow those before it.                                *)
LEMMA OneMoreRuns ==
    ASSUME NEW q \in Seq(Event), NEW b \in Inputs, NEW e \in {"DOWN", "UP", "CLICK"}, NEW E,
           Runs(q, b), Ends(q, b, E), \A x \in E : Card!After[x] = e
    PROVE  Runs(Longer(q, b, e), b) /\ Ends(Longer(q, b, e), b, {e})
<1> DEFINE r == Longer(q, b, e)
           n == Len(q)
           O == Own(q, b)
<1>1. /\ Own(r, b) = O \cup {n + 1} /\ O \subseteq 1..n /\ n \in Nat /\ DOMAIN q = 1..n
      /\ r[n + 1] = <<b, e>> /\ \A i \in 1..n : r[i] = q[i]
  <2>2. n \in Nat /\ DOMAIN q = 1..n
    OBVIOUS
  <2>3. \A i \in DOMAIN q : r[i] = q[i]
    BY OneMore
  <2>4. Own(r, b) = Own(q, b) \cup {Len(q) + 1} /\ r[Len(q) + 1] = <<b, e>>
    BY OneMore
  <2>5. \A c : Own(q, c) \subseteq 1..Len(q)
    BY OneMore
  <2> QED
    BY <2>2, <2>3, <2>4, <2>5
<1>2. <<b, e>>[2] = e
  OBVIOUS
<1>3. /\ \A i, j \in O : i < j /\ (\A k \in O : k <= i \/ k >= j) => q[j][2] = Card!After[q[i][2]]
      /\ \A i \in O : (\A j \in O : j <= i) => q[i][2] \in E
  BY DEF Runs, Ends
<1> HIDE DEF r, n, O
<1>4. ASSUME NEW i \in O \cup {n + 1}, NEW j \in O \cup {n + 1}, i < j, \A k \in O \cup {n + 1} : k <= i \/ k >= j
      PROVE  r[j][2] = Card!After[r[i][2]]
  <2>1. i \in O /\ i \in 1..n
    <3>1. i \in 1..(n + 1) /\ j \in 1..(n + 1)
      BY <1>1
    <3> QED
      BY <1>1, <1>4, <3>1
  <2>2. CASE j \in O
    BY <1>1, <1>3, <1>4, <2>1, <2>2
  <2>3. CASE j = n + 1
    <3>1. \A k \in O : k <= i
      BY <1>1, <1>4, <2>3
    <3>2. q[i][2] \in E
      BY <1>3, <2>1, <3>1
    <3> QED
      BY <1>1, <1>2, <2>1, <2>3, <3>2
  <2> QED
    BY <2>2, <2>3
<1>5. ASSUME NEW i \in O \cup {n + 1}, \A j \in O \cup {n + 1} : j <= i
      PROVE  r[i][2] = e
  <2>1. i = n + 1
    BY <1>1, <1>5
  <2> QED
    BY <1>1, <1>2, <2>1
<1>6. Runs(r, b)
  BY <1>1, <1>4 DEF Runs
<1>7. Ends(r, b, {e})
  BY <1>1, <1>5 DEF Ends
<1> QED
  BY <1>6, <1>7 DEF r

LEMMA OneMoreOther ==
    ASSUME NEW q \in Seq(Event), NEW b \in Inputs, NEW e \in {"DOWN", "UP", "CLICK"}, NEW E,
           NEW c \in Inputs, c # b, Runs(q, c), Ends(q, c, E)
    PROVE  Runs(Longer(q, b, e), c) /\ Ends(Longer(q, b, e), c, E)
<1> DEFINE r == Longer(q, b, e)
           O == Own(q, c)
<1>1. Own(r, c) = O /\ O \subseteq DOMAIN q /\ \A i \in DOMAIN q : r[i] = q[i]
  <2>1. O \subseteq DOMAIN q
    BY DEF Own
  <2>2. Own(Longer(q, b, e), c) = Own(q, c)
    <3>1. /\ Longer(q, b, e) \in Seq(Event) /\ Len(Longer(q, b, e)) = Len(q) + 1
          /\ Longer(q, b, e)[Len(q) + 1] = <<b, e>>
      BY OneMore
    <3>2. \A i \in DOMAIN q : Longer(q, b, e)[i] = q[i]
      BY OneMore
    <3>3. <<b, e>>[1] = b
      OBVIOUS
    <3>4. DOMAIN q = 1..Len(q) /\ Len(q) \in Nat
      OBVIOUS
    <3>5. DOMAIN Longer(q, b, e) = 1..(Len(q) + 1)
      BY <3>1
    <3> QED
      BY <3>1, <3>2, <3>3, <3>4, <3>5 DEF Own
  <2>3. \A i \in DOMAIN q : Longer(q, b, e)[i] = q[i]
    BY OneMore
  <2> QED
    BY <2>1, <2>2, <2>3
<1> HIDE DEF r, O
<1>2. \A i \in O : r[i] = q[i]
  BY <1>1
<1>3. Runs(r, c)
  BY <1>1, <1>2 DEF Runs, O
<1>4. Ends(r, c, E)
  BY <1>1, <1>2 DEF Ends, O
<1> QED
  BY <1>3, <1>4 DEF r

(* A button goes down, or comes up and clicks.                              *)
LEMMA RaisedSound ==
    ASSUME NEW q, NEW P, NEW b \in Inputs, NEW down \in BOOLEAN, BusSound(q, P), down # (b \in P)
    PROVE  BusSound(q \o Card!Raised(b, down), IF down THEN P \cup {b} ELSE P \ {b})
<1>1. q \in Seq(Event) /\ \A c \in Inputs : Runs(q, c) /\ Ends(q, c, Rests(c, P))
  BY DEF BusSound
<1>2. CASE down
  <2> DEFINE r == Longer(q, b, "DOWN")
  <2>1. q \o Card!Raised(b, down) = r
    BY <1>1, <1>2, AppendIsConcat DEF Card!Raised, Event, Longer
  <2>2. r \in Seq(Event)
    BY <1>1, OneMore
  <2>3. ASSUME NEW c \in Inputs PROVE Runs(r, c) /\ Ends(r, c, Rests(c, P \cup {b}))
    <3>1. CASE c = b
      <4>1. Rests(b, P) = {"CLICK"} /\ Rests(b, P \cup {b}) = {"DOWN"}
        BY <1>2 DEF Rests
      <4>2. \A x \in {"CLICK"} : Card!After[x] = "DOWN"
        BY AfterFacts
      <4>3. Runs(r, b) /\ Ends(r, b, {"DOWN"})
        BY <1>1, <4>1, <4>2, OneMoreRuns
      <4> QED
        BY <3>1, <4>1, <4>3
    <3>2. CASE c # b
      <4>1. Rests(c, P) = Rests(c, P \cup {b})
        BY <3>2 DEF Rests
      <4>2. Runs(r, c) /\ Ends(r, c, Rests(c, P))
        BY <1>1, <3>2, OneMoreOther
      <4> QED
        BY <4>1, <4>2
    <3> QED
      BY <3>1, <3>2
  <2> HIDE DEF r
  <2>4. BusSound(r, P \cup {b})
    BY <2>2, <2>3 DEF BusSound
  <2> QED
    BY <1>2, <2>1, <2>4
<1>3. CASE ~down
  <2> DEFINE u == Longer(q, b, "UP")
             r == Longer(u, b, "CLICK")
  <2>1. q \o Card!Raised(b, down) = r
    <3>1. Card!Raised(b, down) = << <<b, "UP">>, <<b, "CLICK">> >> /\ <<b, "UP">> \in Event /\ <<b, "CLICK">> \in Event
      BY <1>3 DEF Card!Raised, Event
    <3> QED
      BY <1>1, <3>1 DEF Longer
  <2>2. u \in Seq(Event)
    BY <1>1, OneMore
  <2>3. r \in Seq(Event)
    BY <2>2, OneMore
  <2>4. ASSUME NEW c \in Inputs PROVE Runs(r, c) /\ Ends(r, c, Rests(c, P \ {b}))
    <3>1. CASE c = b
      <4>1. Rests(b, P) = {"DOWN"} /\ Rests(b, P \ {b}) = {"CLICK"}
        BY <1>3 DEF Rests
      <4>2. \A x \in {"DOWN"} : Card!After[x] = "UP"
        BY AfterFacts
      <4>3. Runs(u, b) /\ Ends(u, b, {"UP"})
        BY <1>1, <4>1, <4>2, OneMoreRuns
      <4>4. \A x \in {"UP"} : Card!After[x] = "CLICK"
        BY AfterFacts
      <4> HIDE DEF u
      <4>5. Runs(r, b) /\ Ends(r, b, {"CLICK"})
        BY <2>2, <4>3, <4>4, OneMoreRuns
      <4> QED
        BY <3>1, <4>1, <4>5
    <3>2. CASE c # b
      <4>1. Rests(c, P) = Rests(c, P \ {b})
        BY <3>2 DEF Rests
      <4>2. Runs(u, c) /\ Ends(u, c, Rests(c, P))
        BY <1>1, <3>2, OneMoreOther
      <4> HIDE DEF u
      <4>3. Runs(r, c) /\ Ends(r, c, Rests(c, P))
        BY <2>2, <3>2, <4>2, OneMoreOther
      <4> QED
        BY <4>1, <4>3
    <3> QED
      BY <3>1, <3>2
  <2> HIDE DEF r, u
  <2>5. BusSound(r, P \ {b})
    BY <2>3, <2>4 DEF BusSound
  <2> QED
    BY <1>3, <2>1, <2>5
<1> QED
  BY <1>2, <1>3

LEMMA EmptyBusSound == \A P : BusSound(<< >>, P)
<1>1. << >> \in Seq(Event) /\ DOMAIN << >> = {}
  OBVIOUS
<1>2. \A b : Own(<< >>, b) = {}
  BY <1>1 DEF Own
<1> QED
  BY <1>1, <1>2 DEF BusSound, Runs, Ends

LEMMA SoundAlternates == BusSound(bus, pressed) => Card!Alternates
<1> SUFFICES ASSUME BusSound(bus, pressed) PROVE Card!Alternates
  OBVIOUS
<1>1. \A b \in Inputs : Runs(bus, b) /\ Ends(bus, b, Rests(b, pressed))
  BY DEF BusSound
<1> SUFFICES ASSUME NEW b \in Inputs, NEW i \in Own(bus, b)
             PROVE  /\ \A j \in Own(bus, b) : i < j /\ (\A k \in Own(bus, b) : k <= i \/ k >= j)
                                                => bus[j][2] = Card!After[bus[i][2]]
                    /\ (\A j \in Own(bus, b) : j <= i) => (b \in pressed) = (bus[i][2] = "DOWN")
  BY DEF Card!Alternates, Inputs, Own
<1>2. \A j \in Own(bus, b) : i < j /\ (\A k \in Own(bus, b) : k <= i \/ k >= j) => bus[j][2] = Card!After[bus[i][2]]
  BY <1>1 DEF Runs
<1>3. ASSUME \A j \in Own(bus, b) : j <= i PROVE (b \in pressed) = (bus[i][2] = "DOWN")
  <2>1. bus[i][2] \in Rests(b, pressed)
    BY <1>1, <1>3 DEF Ends
  <2>2. CASE b \in pressed
    BY <2>1, <2>2 DEF Rests
  <2>3. CASE b \notin pressed
    BY <2>1, <2>3 DEF Rests
  <2> QED
    BY <2>2, <2>3
<1> QED
  BY <1>2, <1>3

-----------------------------------------------------------------------------
(* What a call site logged, r its state, n the time of the device and t how *)
(* far the clock is ahead of it.                                            *)
EventNames == {"pressed", "double click", "released", "long click", "click", "held"}
Entry == [events : SUBSET EventNames, at : Nat]
SiteState == [seeded : BOOLEAN, prev : BOOLEAN, start : Nat, last : Nat, pending : BOOLEAN]
Pressed(l, i) == "pressed" \in l[i].events
Doubled(l, i) == "double click" \in l[i].events
Released(l, i) == "released" \in l[i].events
LongClicked(l, i) == "long click" \in l[i].events
Clicked(l, i) == "click" \in l[i].events
Longs(l) == \A i \in 2..Len(l) :
    Released(l, i) => (LongClicked(l, i) <=> l[i].at - l[i - 1].at >= LongClick)
Doubles(l) == \A i \in 2..Len(l) :
    Pressed(l, i) =>
        (Doubled(l, i) <=>
            \E j \in 2..(i - 1) :
                /\ Clicked(l, j) /\ l[i].at - l[j].at <= Window
                /\ ~\E k \in j..(i - 1) : Doubled(l, k))
(* No double click used the click at j.                                     *)
Unused(l, j) == \A k \in j..Len(l) : ~Doubled(l, k)
(* A site that is pressed logged that last; one that has a click pending    *)
(* logged it, and every other was used or came before it.                   *)
PressLogged(l, r, t) == r.prev => l[Len(l)].at = r.start + t
ClickLogged(l, r, t) == r.pending => \E j \in 2..Len(l) : Clicked(l, j) /\ l[j].at = r.last + t /\ Unused(l, j)
ClicksUsed(l, r, t) == \A j \in 2..Len(l) :
    Clicked(l, j) => l[j].at <= r.last + t /\ (Unused(l, j) => r.pending)
Timely(l, r, n, t) == r.start <= n /\ r.last <= n /\ \A i \in DOMAIN l : l[i].at <= n + t
SiteSound(l, r, n, t) ==
    /\ l \in Seq(Entry) /\ r \in SiteState /\ (r.seeded => Len(l) >= 1)
    /\ Timely(l, r, n, t) /\ (r.seeded => PressLogged(l, r, t)) /\ ClickLogged(l, r, t) /\ ClicksUsed(l, r, t)
    /\ Longs(l) /\ Doubles(l)

(* A new entry whose release is long by its duration, and whose press is a  *)
(* double click if a click is pending and its window open.                  *)
Tells(l, r, n, t, e) ==
    /\ e \in Entry /\ e.at = n + t
    /\ "released" \in e.events => ("long click" \in e.events <=> n + t - l[Len(l)].at >= LongClick)
    /\ "pressed" \in e.events => ("double click" \in e.events <=> r.pending /\ n - r.last <= Window)

Logged(l, e) == Append(l, e)
LEMMA OneEntry ==
    ASSUME NEW l \in Seq(Entry), NEW e \in Entry
    PROVE  /\ Logged(l, e) \in Seq(Entry) /\ Len(Logged(l, e)) = Len(l) + 1
           /\ Logged(l, e)[Len(l) + 1] = e
           /\ \A i \in 1..Len(l) : Logged(l, e)[i] = l[i]
           /\ DOMAIN l = 1..Len(l) /\ DOMAIN Logged(l, e) = 1..(Len(l) + 1) /\ Len(l) \in Nat
  BY DEF Logged

LEMMA EntryTells ==
    ASSUME NEW l, NEW r, NEW n \in Nat, NEW t \in Nat, SiteSound(l, r, n, t), Len(l) >= 1,
           NEW e, Tells(l, r, n, t, e), Window \in Nat
    PROVE  Longs(Logged(l, e)) /\ Doubles(Logged(l, e))
<1> DEFINE m == Len(l)
           w == Logged(l, e)
<1>1. /\ l \in Seq(Entry) /\ m >= 1 /\ r \in SiteState /\ ClickLogged(l, r, t) /\ ClicksUsed(l, r, t) /\ Longs(l) /\ Doubles(l)
  BY DEF SiteSound
<1>2. /\ w \in Seq(Entry) /\ Len(w) = m + 1 /\ w[m + 1] = e /\ \A i \in 1..m : w[i] = l[i]
      /\ m \in Nat /\ DOMAIN l = 1..m
  <2>1. e \in Entry
    BY DEF Tells
  <2> QED
    BY <1>1, <2>1, OneEntry
<1>3. r.last \in Nat /\ \A i \in 1..m : l[i].at \in Nat
  <2>1. r.last \in Nat
    BY <1>1 DEF SiteState
  <2>2. \A x \in Entry : x.at \in Nat
    BY DEF Entry
  <2>3. \A i \in 1..m : l[i] \in Entry
    BY <1>1
  <2> QED
    BY <2>1, <2>2, <2>3
<1>4. \A i \in 1..m : /\ Pressed(w, i) <=> Pressed(l, i)
                      /\ Doubled(w, i) <=> Doubled(l, i)
                      /\ Released(w, i) <=> Released(l, i)
                      /\ LongClicked(w, i) <=> LongClicked(l, i)
                      /\ Clicked(w, i) <=> Clicked(l, i)
  BY <1>2 DEF Pressed, Doubled, Released, LongClicked, Clicked
<1>5. /\ Pressed(w, m + 1) <=> "pressed" \in e.events
      /\ Doubled(w, m + 1) <=> "double click" \in e.events
      /\ Released(w, m + 1) <=> "released" \in e.events
      /\ LongClicked(w, m + 1) <=> "long click" \in e.events
  BY <1>2 DEF Pressed, Doubled, Released, LongClicked
<1>6. Longs(w)
  <2> SUFFICES ASSUME NEW i \in 2..(m + 1), Released(w, i)
               PROVE  LongClicked(w, i) <=> w[i].at - w[i - 1].at >= LongClick
    BY <1>2 DEF Longs
  <2> HIDE DEF w
  <2>1. CASE i = m + 1
    <3>1. w[i] = e /\ w[i - 1] = l[Len(l)]
      BY <1>1, <1>2, <2>1
    <3>2. "released" \in e.events /\ (LongClicked(w, i) <=> "long click" \in e.events)
      BY <1>5, <2>1
    <3>3. "long click" \in e.events <=> n + t - l[Len(l)].at >= LongClick
      BY <3>2 DEF Tells
    <3>4. w[i].at - w[i - 1].at = n + t - l[Len(l)].at
      <4>1. w[i].at = n + t
        BY <3>1 DEF Tells
      <4>2. w[i - 1].at = l[Len(l)].at
        BY <3>1
      <4>3. l[Len(l)].at \in Nat
        BY <1>1, <1>2, <1>3
      <4> QED
        BY <4>1, <4>2, <4>3
    <3> QED
      BY <3>2, <3>3, <3>4
  <2>2. CASE i \in 2..m
    <3>1. w[i] = l[i] /\ w[i - 1] = l[i - 1]
      BY <1>2, <2>2
    <3>2. Released(l, i) /\ (LongClicked(w, i) <=> LongClicked(l, i))
      BY <1>4, <2>2
    <3>3. LongClicked(l, i) <=> l[i].at - l[i - 1].at >= LongClick
      BY <1>1, <2>2, <3>2 DEF Longs
    <3> QED
      BY <3>1, <3>2, <3>3
  <2> QED
    BY <1>2, <2>1, <2>2
<1>7. Doubles(w)
  <2> SUFFICES ASSUME NEW i \in 2..(m + 1), Pressed(w, i)
               PROVE  Doubled(w, i) <=>
                        \E j \in 2..(i - 1) :
                            /\ Clicked(w, j) /\ w[i].at - w[j].at <= Window
                            /\ ~\E k \in j..(i - 1) : Doubled(w, k)
    BY <1>2 DEF Doubles
  <2> HIDE DEF w, m
  <2>2. CASE i \in 2..m
    <3>1. Doubled(l, i) <=>
             \E j \in 2..(i - 1) :
                 /\ Clicked(l, j) /\ l[i].at - l[j].at <= Window
                 /\ ~\E k \in j..(i - 1) : Doubled(l, k)
      BY <1>1, <1>4, <2>2 DEF Doubles, m
    <3>2. \A j \in 2..(i - 1) : /\ Clicked(w, j) <=> Clicked(l, j)
                                /\ w[j] = l[j]
                                /\ \A k \in j..(i - 1) : Doubled(w, k) <=> Doubled(l, k)
      BY <1>2, <1>4, <2>2
    <3>3. (Doubled(w, i) <=> Doubled(l, i)) /\ w[i] = l[i]
      BY <1>2, <1>4, <2>2
    <3> QED
      BY <3>1, <3>2, <3>3
  <2>3. CASE i = m + 1
    <3>1. w[i] = e /\ e.at = n + t
      BY <1>2, <2>3 DEF Tells
    <3>2. Doubled(w, i) <=> r.pending /\ n - r.last <= Window
      BY <1>5, <2>3 DEF Tells
    <3>3. ASSUME r.pending, n - r.last <= Window
          PROVE  \E j \in 2..m : /\ Clicked(w, j) /\ w[i].at - w[j].at <= Window
                                 /\ ~\E k \in j..m : Doubled(w, k)
      <4>1. PICK j \in 2..m : Clicked(l, j) /\ l[j].at = r.last + t /\ Unused(l, j)
        BY <1>1, <3>3 DEF ClickLogged, m
      <4>2. w[i].at - w[j].at <= Window
        <5>1. w[j] = l[j]
          BY <1>2
        <5>2. w[i].at = n + t
          BY <3>1
        <5>3. w[j].at = r.last + t
          BY <4>1, <5>1
        <5>4. (n + t) - (r.last + t) = n - r.last
          BY <1>3
        <5> QED
          BY <3>3, <5>2, <5>3, <5>4
      <4>3. ~\E k \in j..m : Doubled(w, k)
        BY <1>2, <1>4, <4>1 DEF Unused, m
      <4>4. Clicked(w, j)
        BY <1>4, <4>1
      <4> QED
        BY <4>2, <4>3, <4>4
    <3>4. ASSUME NEW j \in 2..m, Clicked(w, j), w[i].at - w[j].at <= Window,
                 ~\E k \in j..m : Doubled(w, k)
          PROVE  r.pending /\ n - r.last <= Window
      <4>1. Clicked(l, j) /\ w[j] = l[j]
        BY <1>2, <1>4, <3>4
      <4>2. Unused(l, j)
        BY <1>2, <1>4, <3>4 DEF Unused, m
      <4>3. l[j].at <= r.last + t /\ r.pending
        BY <1>1, <4>1, <4>2 DEF ClicksUsed, m
      <4>4. w[i].at = n + t /\ w[j].at = l[j].at
        BY <3>1, <4>1
      <4>5. l[j].at \in Nat /\ r.last \in Nat
        BY <1>2, <1>3
      <4>6. n + t - l[j].at <= Window
        <5>1. w[i].at - w[j].at = n + t - l[j].at
          BY <4>4, <4>5
        <5> QED
          BY <3>4, <5>1
      <4>7. n - r.last <= Window
        <5> DEFINE a == l[j].at
                   b == r.last
        <5>1. a \in Nat /\ b \in Nat /\ a <= b + t /\ n + t - a <= Window
          BY <4>3, <4>5, <4>6
        <5> HIDE DEF a, b
        <5>2. n - b <= Window
          BY <5>1
        <5> QED
          BY <5>2 DEF b
      <4> QED
        BY <4>3, <4>7
    <3>5. i - 1 = m
      BY <1>2, <2>3
    <3> QED
      BY <3>2, <3>3, <3>4, <3>5
  <2> QED
    BY <1>2, <2>2, <2>3
<1> QED
  BY <1>6, <1>7

LEMMA StateFields ==
    \A r \in SiteState : /\ r.seeded \in BOOLEAN /\ r.prev \in BOOLEAN /\ r.pending \in BOOLEAN
                         /\ r.start \in Nat /\ r.last \in Nat
  BY DEF SiteState

LEMMA EntryTimes ==
    ASSUME NEW l \in Seq(Entry)
    PROVE  Len(l) \in Nat /\ DOMAIN l = 1..Len(l) /\ \A i \in 1..Len(l) : l[i].at \in Nat
<1>1. \A x \in Entry : x.at \in Nat
  BY DEF Entry
<1>2. \A i \in 1..Len(l) : l[i] \in Entry
  OBVIOUS
<1> QED
  BY <1>1, <1>2

(* The state u after a press, after a release and with no edge.             *)
AfterPress(r, u, n, e) ==
    /\ "click" \notin e.events /\ u \in SiteState /\ u.seeded /\ u.start = n /\ u.last = r.last
    /\ u.pending <=> r.pending /\ "double click" \notin e.events
AfterRelease(r, u, n, e) ==
    /\ "double click" \notin e.events /\ u \in SiteState /\ u.seeded /\ ~u.prev /\ u.start = r.start
    /\ "click" \in e.events => u.last = n /\ u.pending
    /\ "click" \notin e.events => u.last = r.last /\ (u.pending <=> r.pending)
AfterNone(r, u) ==
    /\ u \in SiteState /\ (u.seeded <=> r.seeded) /\ (u.prev <=> r.prev) /\ (u.pending <=> r.pending)
    /\ u.start = r.start /\ u.last = r.last

(* A press is logged.                                                       *)
LEMMA PressSound ==
    ASSUME NEW l, NEW r, NEW n \in Nat, NEW t \in Nat, SiteSound(l, r, n, t), Len(l) >= 1, Window \in Nat,
           NEW e, Tells(l, r, n, t, e), NEW u, AfterPress(r, u, n, e)
    PROVE  SiteSound(Logged(l, e), u, n, t)
<1> DEFINE m == Len(l)
           w == Logged(l, e)
<1>1. /\ l \in Seq(Entry) /\ m >= 1 /\ r \in SiteState /\ ClickLogged(l, r, t) /\ ClicksUsed(l, r, t) /\ Timely(l, r, n, t)
  BY DEF SiteSound
<1>2. e \in Entry /\ e.at = n + t
  BY DEF Tells
<1>3. /\ w \in Seq(Entry) /\ Len(w) = m + 1 /\ w[m + 1] = e /\ \A i \in 1..m : w[i] = l[i]
      /\ m \in Nat /\ DOMAIN l = 1..m /\ DOMAIN w = 1..(m + 1)
  BY <1>1, <1>2, OneEntry
<1>4. r.last \in Nat /\ \A i \in 1..m : l[i].at \in Nat
  BY <1>1, StateFields, EntryTimes
<1>5. Longs(w) /\ Doubles(w)
  BY EntryTells
<1>6. \A i \in 1..m : (Clicked(w, i) <=> Clicked(l, i)) /\ (Doubled(w, i) <=> Doubled(l, i))
  BY <1>3 DEF Clicked, Doubled
<1>7. ~Clicked(w, m + 1) /\ (u.pending <=> r.pending /\ ~Doubled(w, m + 1))
  BY <1>3 DEF Clicked, Doubled, AfterPress
<1>13. u \in SiteState /\ u.seeded /\ u.start = n /\ u.last = r.last
  BY DEF AfterPress
<1> HIDE DEF w, m
<1>8. Timely(w, u, n, t)
  <2>1. r.last <= n /\ \A i \in 1..m : l[i].at <= n + t
    BY <1>1, <1>3 DEF Timely
  <2>2. \A i \in 1..(m + 1) : w[i].at <= n + t
    <3> SUFFICES ASSUME NEW i \in 1..(m + 1) PROVE w[i].at <= n + t
      OBVIOUS
    <3>1. CASE i \in 1..m
      BY <1>3, <2>1, <3>1
    <3>2. CASE i = m + 1
      <4>1. w[i].at = n + t
        BY <1>2, <1>3, <3>2
      <4> QED
        BY <4>1
    <3> QED
      BY <1>3, <3>1, <3>2
  <2> QED
    BY <1>3, <1>13, <2>1, <2>2 DEF Timely
<1>9. PressLogged(w, u, t)
  BY <1>2, <1>3, <1>13 DEF PressLogged
<1>10. ClickLogged(w, u, t)
  <2> SUFFICES ASSUME u.pending
               PROVE  \E j \in 2..Len(w) : Clicked(w, j) /\ w[j].at = u.last + t /\ Unused(w, j)
    BY DEF ClickLogged
  <2>1. PICK j \in 2..m : Clicked(l, j) /\ l[j].at = r.last + t /\ Unused(l, j)
    BY <1>1, <1>7 DEF ClickLogged, m
  <2>2. j \in 2..(m + 1) /\ j \in 1..m
    BY <1>3
  <2>3. Clicked(w, j) /\ w[j].at = u.last + t
    BY <1>3, <1>6, <1>13, <2>1, <2>2
  <2>4. ASSUME NEW k \in j..(m + 1) PROVE ~Doubled(w, k)
    <3>1. CASE k = m + 1
      BY <1>7, <3>1
    <3>2. CASE k \in j..m
      <4>1. k \in 1..m
        BY <1>3, <2>2, <3>2
      <4> QED
        BY <1>6, <2>1, <3>2, <4>1 DEF Unused, m
    <3> QED
      BY <1>3, <2>2, <3>1, <3>2
  <2> QED
    BY <1>3, <2>2, <2>3, <2>4 DEF Unused
<1>11. ClicksUsed(w, u, t)
  <2> SUFFICES ASSUME NEW j \in 2..(m + 1), Clicked(w, j)
               PROVE  w[j].at <= u.last + t /\ (Unused(w, j) => u.pending)
    BY <1>3 DEF ClicksUsed
  <2>1. j \in 2..m /\ j \in 1..m
    BY <1>3, <1>7
  <2>2. Clicked(l, j) /\ w[j] = l[j]
    BY <1>3, <1>6, <2>1
  <2>3. l[j].at <= r.last + t /\ (Unused(l, j) => r.pending)
    BY <1>1, <2>1, <2>2 DEF ClicksUsed, m
  <2>4. ASSUME Unused(w, j) PROVE u.pending
    <3>1. \A k \in j..(m + 1) : ~Doubled(w, k)
      BY <1>3, <2>4 DEF Unused
    <3>2. ~Doubled(w, m + 1)
      BY <1>3, <2>1, <3>1
    <3>3. \A k \in j..m : ~Doubled(l, k)
      BY <1>3, <1>6, <2>1, <3>1
    <3>4. Unused(l, j)
      BY <3>3 DEF Unused, m
    <3> QED
      BY <1>7, <2>3, <3>2, <3>4
  <2> QED
    BY <1>13, <2>2, <2>3, <2>4
<1>12. Len(w) >= 1
  BY <1>3
<1> QED
  BY <1>3, <1>5, <1>8, <1>9, <1>10, <1>11, <1>12, <1>13 DEF SiteSound, w

(* A release is logged.                                                     *)
LEMMA ReleaseSound ==
    ASSUME NEW l, NEW r, NEW n \in Nat, NEW t \in Nat, SiteSound(l, r, n, t), Len(l) >= 1, Window \in Nat,
           NEW e, Tells(l, r, n, t, e), NEW u, AfterRelease(r, u, n, e)
    PROVE  SiteSound(Logged(l, e), u, n, t)
<1> DEFINE m == Len(l)
           w == Logged(l, e)
<1>1. /\ l \in Seq(Entry) /\ m >= 1 /\ r \in SiteState /\ ClickLogged(l, r, t) /\ ClicksUsed(l, r, t) /\ Timely(l, r, n, t)
  BY DEF SiteSound
<1>2. e \in Entry /\ e.at = n + t
  BY DEF Tells
<1>3. /\ w \in Seq(Entry) /\ Len(w) = m + 1 /\ w[m + 1] = e /\ \A i \in 1..m : w[i] = l[i]
      /\ m \in Nat /\ DOMAIN l = 1..m /\ DOMAIN w = 1..(m + 1)
  BY <1>1, <1>2, OneEntry
<1>4. r.last \in Nat /\ \A i \in 1..m : l[i].at \in Nat
  BY <1>1, StateFields, EntryTimes
<1>5. Longs(w) /\ Doubles(w)
  BY EntryTells
<1>6. \A i \in 1..m : (Clicked(w, i) <=> Clicked(l, i)) /\ (Doubled(w, i) <=> Doubled(l, i))
  BY <1>3 DEF Clicked, Doubled
<1>7. /\ Clicked(w, m + 1) => u.last = n /\ u.pending
      /\ ~Clicked(w, m + 1) => u.last = r.last /\ (u.pending <=> r.pending)
      /\ ~Doubled(w, m + 1)
  BY <1>3 DEF Clicked, Doubled, AfterRelease
<1>13. u \in SiteState /\ u.seeded /\ ~u.prev /\ u.start = r.start
  BY DEF AfterRelease
<1> HIDE DEF w, m
<1>8. Timely(w, u, n, t)
  <2>1. r.start <= n /\ r.last <= n /\ \A i \in 1..m : l[i].at <= n + t
    BY <1>1, <1>3 DEF Timely
  <2>2. \A i \in 1..(m + 1) : w[i].at <= n + t
    <3> SUFFICES ASSUME NEW i \in 1..(m + 1) PROVE w[i].at <= n + t
      OBVIOUS
    <3>1. CASE i \in 1..m
      BY <1>3, <2>1, <3>1
    <3>2. CASE i = m + 1
      <4>1. w[i].at = n + t
        BY <1>2, <1>3, <3>2
      <4> QED
        BY <4>1
    <3> QED
      BY <1>3, <3>1, <3>2
  <2>3. u.last <= n
    BY <1>7, <2>1
  <2> QED
    BY <1>3, <1>13, <2>1, <2>2, <2>3 DEF Timely
<1>9. PressLogged(w, u, t)
  BY <1>13 DEF PressLogged
<1>10. ClickLogged(w, u, t)
  <2> SUFFICES ASSUME u.pending
               PROVE  \E j \in 2..Len(w) : Clicked(w, j) /\ w[j].at = u.last + t /\ Unused(w, j)
    BY DEF ClickLogged
  <2>1. CASE Clicked(w, m + 1)
    <3>1. m + 1 \in 2..(m + 1) /\ Clicked(w, m + 1) /\ w[m + 1].at = u.last + t
      BY <1>1, <1>2, <1>3, <1>7, <2>1
    <3>2. \A k \in (m + 1)..(m + 1) : k = m + 1
      BY <1>3
    <3>3. Unused(w, m + 1)
      BY <1>3, <1>7, <3>2 DEF Unused
    <3> QED
      BY <1>3, <3>1, <3>3
  <2>2. CASE ~Clicked(w, m + 1)
    <3>1. PICK j \in 2..m : Clicked(l, j) /\ l[j].at = r.last + t /\ Unused(l, j)
      BY <1>1, <1>7, <2>2 DEF ClickLogged, m
    <3>2. j \in 2..(m + 1) /\ j \in 1..m
      BY <1>3
    <3>3. Clicked(w, j) /\ w[j].at = u.last + t
      BY <1>3, <1>6, <1>7, <2>2, <3>1, <3>2
    <3>4. ASSUME NEW k \in j..(m + 1) PROVE ~Doubled(w, k)
      <4>1. CASE k = m + 1
        BY <1>7, <4>1
      <4>2. CASE k \in j..m
        <5>1. k \in 1..m
          BY <1>3, <3>2, <4>2
        <5> QED
          BY <1>6, <3>1, <4>2, <5>1 DEF Unused, m
      <4> QED
        BY <1>3, <3>2, <4>1, <4>2
    <3> QED
      BY <1>3, <3>2, <3>3, <3>4 DEF Unused
  <2> QED
    BY <2>1, <2>2
<1>11. ClicksUsed(w, u, t)
  <2> SUFFICES ASSUME NEW j \in 2..(m + 1), Clicked(w, j)
               PROVE  w[j].at <= u.last + t /\ (Unused(w, j) => u.pending)
    BY <1>3 DEF ClicksUsed
  <2>1. CASE Clicked(w, m + 1)
    <3>1. w[j].at <= n + t
      BY <1>3, <1>8 DEF Timely
    <3> QED
      BY <1>7, <2>1, <3>1
  <2>2. CASE ~Clicked(w, m + 1)
    <3>1. j \in 2..m /\ j \in 1..m
      BY <1>3, <1>7, <2>2
    <3>2. Clicked(l, j) /\ w[j] = l[j]
      BY <1>3, <1>6, <3>1
    <3>3. l[j].at <= r.last + t /\ (Unused(l, j) => r.pending)
      BY <1>1, <3>1, <3>2 DEF ClicksUsed, m
    <3>4. ASSUME Unused(w, j) PROVE u.pending
      <4>1. \A k \in j..(m + 1) : ~Doubled(w, k)
        BY <1>3, <3>4 DEF Unused
      <4>2. \A k \in j..m : ~Doubled(l, k)
        BY <1>3, <1>6, <3>1, <4>1
      <4>3. Unused(l, j)
        BY <4>2 DEF Unused, m
      <4> QED
        BY <1>7, <2>2, <3>3, <4>3
    <3> QED
      BY <1>7, <2>2, <3>2, <3>3, <3>4
  <2> QED
    BY <2>1, <2>2
<1>12. Len(w) >= 1
  BY <1>3
<1> QED
  BY <1>3, <1>5, <1>8, <1>9, <1>10, <1>11, <1>12, <1>13 DEF SiteSound, w

(* A page's first look takes the level as it is.                            *)
LEMMA SeedSound ==
    ASSUME NEW n \in Nat, NEW t \in Nat, NEW e \in Entry, e.at = n + t,
           NEW u \in SiteState, ~u.pending, u.start = n, u.last = 0
    PROVE  SiteSound(<<e>>, u, n, t)
<1> DEFINE l == <<e>>
<1>1. l \in Seq(Entry) /\ Len(l) = 1 /\ l[1] = e /\ DOMAIN l = 1..1
  OBVIOUS
<1> HIDE DEF l
<1>2. \A i \in 1..1 : l[i].at <= n + t
  BY <1>1
<1>3. Timely(l, u, n, t)
  BY <1>1, <1>2 DEF Timely
<1>4. PressLogged(l, u, t)
  BY <1>1 DEF PressLogged
<1>5. ClickLogged(l, u, t) /\ ClicksUsed(l, u, t) /\ Longs(l) /\ Doubles(l)
  <2>1. \A i \in 2..Len(l) : FALSE
    BY <1>1
  <2> QED
    BY <2>1 DEF ClickLogged, ClicksUsed, Longs, Doubles
<1> QED
  BY <1>1, <1>3, <1>4, <1>5 DEF SiteSound, l

(* No edge: nothing is logged, and the time may pass.                       *)
LEMMA QuietSound ==
    ASSUME NEW l, NEW r, NEW n \in Nat, NEW t \in Nat, SiteSound(l, r, n, t), NEW k \in Nat, n <= k, NEW u, AfterNone(r, u)
    PROVE  SiteSound(l, u, k, t)
<1>1. l \in Seq(Entry) /\ r \in SiteState /\ Timely(l, r, n, t)
  BY DEF SiteSound
<1>7. /\ u \in SiteState /\ (u.seeded <=> r.seeded) /\ (u.prev <=> r.prev) /\ (u.pending <=> r.pending)
      /\ u.start = r.start /\ u.last = r.last
  BY DEF AfterNone
<1>2. r.start \in Nat /\ r.last \in Nat /\ DOMAIN l = 1..Len(l) /\ \A i \in 1..Len(l) : l[i].at \in Nat
  BY <1>1, StateFields, EntryTimes
<1>3. Timely(l, u, k, t)
  <2>1. r.start <= n /\ r.last <= n /\ \A i \in DOMAIN l : l[i].at <= n + t
    BY <1>1 DEF Timely
  <2>2. r.start <= k /\ r.last <= k
    BY <1>2, <2>1
  <2>3. \A i \in DOMAIN l : l[i].at <= k + t
    BY <1>2, <2>1
  <2> QED
    BY <1>7, <2>2, <2>3 DEF Timely
<1>4. r.seeded => PressLogged(l, u, t)
  BY <1>7 DEF SiteSound, PressLogged
<1>5. ClickLogged(l, u, t)
  BY <1>7 DEF SiteSound, ClickLogged
<1>6. ClicksUsed(l, u, t)
  BY <1>7 DEF SiteSound, ClicksUsed
<1> QED
  BY <1>3, <1>4, <1>5, <1>6, <1>7 DEF SiteSound

LEMMA UnseededSound == \A n, t \in Nat : SiteSound(<< >>, Card!Unseeded, n, t)
<1> SUFFICES ASSUME NEW n \in Nat, NEW t \in Nat PROVE SiteSound(<< >>, Card!Unseeded, n, t)
  OBVIOUS
<1> DEFINE l == << >>
           u == Card!Unseeded
<1>1. l \in Seq(Entry) /\ Len(l) = 0 /\ DOMAIN l = {}
  OBVIOUS
<1>2. u \in SiteState /\ ~u.seeded /\ ~u.pending /\ u.start = 0 /\ u.last = 0
  BY DEF SiteState, Card!Unseeded
<1> HIDE DEF l, u
<1>3. \A i \in 2..Len(l) : FALSE
  BY <1>1
<1>4. ClickLogged(l, u, t) /\ ClicksUsed(l, u, t) /\ Longs(l) /\ Doubles(l)
  BY <1>2, <1>3 DEF ClickLogged, ClicksUsed, Longs, Doubles
<1>5. Timely(l, u, n, t)
  BY <1>1, <1>2 DEF Timely
<1> QED
  BY <1>1, <1>2, <1>4, <1>5 DEF SiteSound, l, u

-----------------------------------------------------------------------------
(* What holds of the card and of the device under it.                       *)
LogoState == [value : (-Half)..(Half - 1), threshold : 1..(Half - 1)]
CardTypes ==
    /\ pressed \subseteq Inputs /\ logo \in LogoState /\ loaded \in BOOLEAN /\ evaluating \in BOOLEAN
    /\ (evaluating => loaded) /\ todo \subseteq Sites /\ (todo # {} => evaluating)
    /\ now \in Nat /\ clock \in Nat /\ now <= clock /\ clock <= MaxClock
    /\ DOMAIN state = Sites /\ DOMAIN log = Sites
CardLevels == BusSound(bus, pressed) /\ Card!TouchLevel /\ Card!NoStuckButton
CardLogs == \A s \in Sites : SiteSound(log[s], state[s], now, clock - now)
CardInv == CardTypes /\ CardLevels /\ CardLogs

LEMMA LogoFacts ==
    \A x \in LogoState : x.value \in (-Half)..(Half - 1) /\ x.threshold \in 1..(Half - 1)
  BY DEF LogoState

LEMMA CardStart == Card!InputsParameters /\ Card!CardInit => CardInv
<1> SUFFICES ASSUME Card!InputsParameters, Card!CardInit PROVE CardInv
  OBVIOUS
<1>1. /\ pressed = {} /\ logo = Card!Touch /\ bus = <<>> /\ shown = {}
      /\ loaded = FALSE /\ now = 0 /\ state = [s \in Sites |-> Card!Unseeded] /\ todo = {} /\ evaluating = FALSE
      /\ clock = 0 /\ log = [s \in Sites |-> <<>>]
  BY DEF Card!CardInit, Card!Init
<1>2. Half \in Nat \ {0, 1} /\ MaxClock \in Nat
  BY DEF Card!InputsParameters
<1>3. logo \in LogoState /\ logo.value = 0 /\ logo.threshold = 1
  BY <1>1, <1>2 DEF Card!Touch, LogoState
<1>4. CardTypes
  <2>1. DOMAIN state = Sites /\ DOMAIN log = Sites
    BY <1>1
  <2>2. now \in Nat /\ clock \in Nat /\ now <= clock /\ clock <= MaxClock
    BY <1>1, <1>2
  <2>3. pressed \subseteq Inputs /\ todo \subseteq Sites /\ loaded \in BOOLEAN /\ evaluating \in BOOLEAN
        /\ (evaluating => loaded) /\ (todo # {} => evaluating)
    BY <1>1
  <2> QED
    BY <1>3, <2>1, <2>2, <2>3 DEF CardTypes
<1>5. CardLevels
  <2>1. BusSound(bus, pressed)
    BY <1>1, EmptyBusSound
  <2>2. Card!TouchLevel /\ Card!NoStuckButton
    BY <1>1, <1>3 DEF Card!TouchLevel, Card!NoStuckButton
  <2> QED
    BY <2>1, <2>2 DEF CardLevels
<1>6. CardLogs
  BY <1>1, UnseededSound DEF CardLogs
<1> QED
  BY <1>4, <1>5, <1>6 DEF CardInv

(* A button is set.                                                         *)
LEMMA PressedSound ==
    ASSUME BusSound(bus, pressed), NEW b \in Inputs, NEW down \in BOOLEAN, Card!SetPressed(b, down)
    PROVE  BusSound(bus', pressed') /\ pressed' = IF down THEN pressed \cup {b} ELSE pressed \ {b}
<1>1. CASE down = (b \in pressed)
  <2>1. bus' = bus /\ pressed' = pressed
    BY <1>1 DEF Card!SetPressed
  <2> QED
    BY <1>1, <2>1
<1>2. CASE down # (b \in pressed)
  <2>1. bus' = bus \o Card!Raised(b, down) /\ pressed' = IF down THEN pressed \cup {b} ELSE pressed \ {b}
    BY <1>2 DEF Card!SetPressed
  <2>2. BusSound(bus \o Card!Raised(b, down), IF down THEN pressed \cup {b} ELSE pressed \ {b})
    BY <1>2, RaisedSound
  <2> QED
    BY <2>1, <2>2
<1> QED
  BY <1>1, <1>2

Flipped(P, b, C, down) == IF b \in C THEN IF down THEN P \cup {b} ELSE P \ {b} ELSE P
LEMMA RaisedIfSound ==
    ASSUME NEW q, NEW P, NEW b \in Inputs, NEW down \in BOOLEAN, NEW C, BusSound(q, P), b \in C => down # (b \in P)
    PROVE  BusSound(q \o Card!RaisedIf(b, C, down), Flipped(P, b, C, down))
<1>1. CASE b \in C
  <2>1. Card!RaisedIf(b, C, down) = Card!Raised(b, down)
    BY <1>1 DEF Card!RaisedIf
  <2>2. BusSound(q \o Card!Raised(b, down), IF down THEN P \cup {b} ELSE P \ {b})
    BY <1>1, RaisedSound
  <2> QED
    BY <1>1, <2>1, <2>2 DEF Flipped
<1>2. CASE b \notin C
  <2>1. Card!RaisedIf(b, C, down) = << >>
    BY <1>2 DEF Card!RaisedIf
  <2>2. q \in Seq(Event)
    BY DEF BusSound
  <2>3. q \o << >> = q
    BY <2>2
  <2> QED
    BY <1>2, <2>1, <2>3 DEF Flipped
<1> QED
  BY <1>1, <1>2

(* The buttons of the card: what is down is shown.                          *)
LEMMA SetKeeps ==
    ASSUME CardInv, NEW w \in Card!Buttons, NEW down \in BOOLEAN, Card!Set(w, down)
    PROVE  CardInv'
<1> DEFINE P == Card!Presses(w)
           C == {b \in P : down # (b \in pressed)}
           X == Flipped(pressed, "A", C, down)
           Y == Flipped(X, "B", C, down)
<1>1. /\ shown' = IF down THEN shown \cup {w} ELSE shown \ {w}
      /\ pressed' = IF down THEN pressed \cup C ELSE pressed \ C
      /\ bus' = bus \o Card!RaisedIf("A", C, down) \o Card!RaisedIf("B", C, down)
      /\ logo' = logo /\ loaded' = loaded /\ now' = now /\ state' = state /\ todo' = todo
      /\ evaluating' = evaluating /\ clock' = clock /\ log' = log
  BY DEF Card!Set, Card!Reached, Card!Device
<1>2. P \subseteq {"A", "B"}
  BY DEF Card!Presses, Card!Buttons
<1>3. pressed \subseteq Inputs /\ BusSound(bus, pressed) /\ Card!TouchLevel /\ Card!NoStuckButton
  BY DEF CardInv, CardTypes, CardLevels
<1>4. Y = IF down THEN pressed \cup C ELSE pressed \ C
  BY <1>2 DEF Flipped
<1>5. BusSound(bus', pressed')
  <2>1. BusSound(bus \o Card!RaisedIf("A", C, down), X)
    <3>1. "A" \in Inputs /\ ("A" \in C => down # ("A" \in pressed))
      BY DEF Inputs
    <3> HIDE DEF C
    <3> QED
      BY <1>3, <3>1, RaisedIfSound
  <2>2. "B" \in Inputs /\ ("B" \in C => down # ("B" \in X))
    BY DEF Inputs, Flipped
  <2> DEFINE q == bus \o Card!RaisedIf("A", C, down)
  <2>3. BusSound(q \o Card!RaisedIf("B", C, down), Y)
    <3> HIDE DEF C, X, q
    <3>1. BusSound(q, X)
      BY <2>1 DEF q
    <3> QED
      BY <2>2, <3>1, RaisedIfSound
  <2> QED
    BY <1>1, <1>4, <2>3
<1>6. pressed' \subseteq Inputs /\ ("logo" \in pressed' <=> "logo" \in pressed)
  BY <1>1, <1>2, <1>3 DEF Inputs
<1>7. Card!TouchLevel'
  <2>1. ("logo" \in pressed) = (logo.value >= logo.threshold)
    BY <1>3 DEF Card!TouchLevel
  <2> QED
    BY <1>1, <1>6, <2>1 DEF Card!TouchLevel
<1>8. Card!NoStuckButton'
  <2> SUFFICES ASSUME NEW b \in pressed' \cap {"A", "B"}
               PROVE  \E x \in Card!Buttons : x \in shown' /\ b \in Card!Presses(x)
    BY DEF Card!NoStuckButton
  <2>1. CASE down
    <3>1. CASE b \in pressed
      <4>1. PICK x \in Card!Buttons : x \in shown /\ b \in Card!Presses(x)
        BY <1>3, <3>1 DEF Card!NoStuckButton
      <4> QED
        BY <1>1, <2>1, <4>1
    <3>2. CASE b \notin pressed
      <4>1. b \in P
        BY <1>1, <2>1, <3>2
      <4> QED
        BY <1>1, <2>1, <4>1
    <3> QED
      BY <3>1, <3>2
  <2>2. CASE ~down
    <3>1. b \in pressed /\ b \notin P
      BY <1>1, <2>2
    <3>2. PICK x \in Card!Buttons : x \in shown /\ b \in Card!Presses(x)
      BY <1>3, <3>1 DEF Card!NoStuckButton
    <3>3. x # w
      BY <3>1, <3>2
    <3> QED
      BY <1>1, <2>2, <3>2, <3>3
  <2> QED
    BY <2>1, <2>2
<1> HIDE DEF P, C
<1>9. CardTypes' /\ CardLogs'
  BY <1>1, <1>6 DEF CardInv, CardTypes, CardLogs
<1> QED
  BY <1>5, <1>7, <1>8, <1>9 DEF CardInv, CardLevels

(* The logo is pressed at its threshold.                                    *)
LEMMA LogoKeeps ==
    ASSUME CardInv, NEW v \in LogoState, logo' = v, Card!SetPressed("logo", v.value >= v.threshold), UNCHANGED Card!Device,
           \A w \in Card!Buttons : w \in shown => w \in shown'
    PROVE  CardInv'
<1> DEFINE down == v.value >= v.threshold
<1>1. /\ loaded' = loaded /\ now' = now /\ state' = state /\ todo' = todo
      /\ evaluating' = evaluating /\ clock' = clock /\ log' = log
  BY DEF Card!Device
<1>2. pressed \subseteq Inputs /\ BusSound(bus, pressed) /\ Card!NoStuckButton
  BY DEF CardInv, CardTypes, CardLevels
<1>3. down \in BOOLEAN /\ "logo" \in Inputs
  BY DEF Inputs
<1>4. Card!SetPressed("logo", down)
  OBVIOUS
<1>5. (down <=> logo'.value >= logo'.threshold)
  OBVIOUS
<1> HIDE DEF down
<1>6. BusSound(bus', pressed') /\ pressed' = IF down THEN pressed \cup {"logo"} ELSE pressed \ {"logo"}
  BY <1>2, <1>3, <1>4, PressedSound
<1>7. "logo" \in pressed' <=> down
  BY <1>6
<1>8. Card!TouchLevel'
  BY <1>5, <1>7 DEF Card!TouchLevel
<1>9. Card!NoStuckButton'
  <2> SUFFICES ASSUME NEW b \in pressed' \cap {"A", "B"}
               PROVE  \E x \in Card!Buttons : x \in shown' /\ b \in Card!Presses(x)
    BY DEF Card!NoStuckButton
  <2>1. b \in pressed
    BY <1>6
  <2>2. PICK x \in Card!Buttons : x \in shown /\ b \in Card!Presses(x)
    BY <1>2, <2>1 DEF Card!NoStuckButton
  <2> QED
    BY <2>2
<1>10. pressed' \subseteq Inputs
  BY <1>2, <1>3, <1>6
<1>11. CardTypes' /\ CardLogs'
  BY <1>1, <1>10 DEF CardInv, CardTypes, CardLogs
<1> QED
  BY <1>6, <1>8, <1>9, <1>11 DEF CardInv, CardLevels

LEMMA Int32Range ==
    ASSUME Half \in Nat \ {0, 1}
    PROVE  \A v \in Int : Card!ToInt32(v) \in (-Half)..(Half - 1)
<1> SUFFICES ASSUME NEW v \in Int PROVE Card!ToInt32(v) \in (-Half)..(Half - 1)
  OBVIOUS
<1> DEFINE x == (v + Half) % (2 * Half)
<1>1. x \in 0..(2 * Half - 1)
  OBVIOUS
<1>2. Card!ToInt32(v) = x - Half
  BY DEF Card!ToInt32
<1> HIDE DEF x
<1> QED
  BY <1>1, <1>2

LEMMA TouchKeeps ==
    ASSUME Card!InputsParameters, Thresholds \subseteq 1..(Half - 1), CardInv,
           \/ \E down \in BOOLEAN : Card!SetLogo(down)
           \/ \E t \in Thresholds : (Card!SetThreshold(t) \/ Card!SetValue(t)) /\ UNCHANGED shown
    PROVE  CardInv'
<1>1. Half \in Nat \ {0, 1} /\ logo \in LogoState
  BY DEF Card!InputsParameters, CardInv, CardTypes
<1>2. logo.threshold \in 1..(Half - 1) /\ logo.value \in (-Half)..(Half - 1)
  BY <1>1, LogoFacts
(* A reading is written.                                                    *)
<1>3. ASSUME NEW v \in Int, Card!TouchValue(v), UNCHANGED Card!Device, \A w \in Card!Buttons : w \in shown => w \in shown'
      PROVE  CardInv'
  <2> DEFINE x == Card!ToInt32(v)
             new == [logo EXCEPT !.value = x]
  <2>1. x \in (-Half)..(Half - 1)
    BY <1>1, Int32Range
  <2>2. logo' = new /\ Card!SetPressed("logo", x >= logo.threshold)
    BY <1>3 DEF Card!TouchValue
  <2> HIDE DEF x
  <2>3. new \in LogoState /\ new.value = x /\ new.threshold = logo.threshold
    BY <1>1, <2>1 DEF LogoState
  <2> HIDE DEF new
  <2>4. Card!SetPressed("logo", new.value >= new.threshold)
    BY <2>2, <2>3
  <2> QED
    BY <1>3, <2>2, <2>3, <2>4, LogoKeeps
<1>4. ASSUME NEW down \in BOOLEAN, Card!SetLogo(down) PROVE CardInv'
  <2> DEFINE v == IF down THEN (IF logo.threshold > 1 THEN logo.threshold ELSE 1) ELSE logo.threshold - 1
  <2>1. Card!TouchValue(v) /\ UNCHANGED Card!Device
    BY <1>4 DEF Card!SetLogo, Card!SetLogoTouched
  <2>2. v \in Int
    BY <1>2
  <2>3. \A w \in Card!Buttons : w \in shown => w \in shown'
    <3>1. shown' = IF down THEN shown \cup {"Logo"} ELSE shown \ {"Logo"}
      BY <1>4 DEF Card!SetLogo
    <3>2. "Logo" \notin Card!Buttons
      BY DEF Card!Buttons
    <3> QED
      BY <3>1, <3>2
  <2> HIDE DEF v
  <2> QED
    BY <1>3, <2>1, <2>2, <2>3
<1>5. ASSUME NEW t \in Thresholds, Card!SetValue(t), shown' = shown PROVE CardInv'
  <2>1. t \in Int /\ Card!TouchValue(t) /\ UNCHANGED Card!Device
    BY <1>1, <1>5 DEF Card!SetValue
  <2> QED
    BY <1>3, <1>5, <2>1
<1>6. ASSUME NEW t \in Thresholds, Card!SetThreshold(t), shown' = shown PROVE CardInv'
  <2> DEFINE new == [logo EXCEPT !.threshold = t]
  <2>1. logo' = new /\ Card!SetPressed("logo", logo.value >= t) /\ UNCHANGED Card!Device
    BY <1>6 DEF Card!SetThreshold
  <2>2. new \in LogoState /\ new.value = logo.value /\ new.threshold = t
    BY <1>1 DEF LogoState
  <2> HIDE DEF new
  <2>3. Card!SetPressed("logo", new.value >= new.threshold)
    BY <2>1, <2>2
  <2> QED
    BY <1>6, <2>1, <2>2, <2>3, LogoKeeps
<1> QED
  BY <1>4, <1>5, <1>6

(* A load and an unload: the power-on state.                                *)
LEMMA PowerOnKeeps ==
    ASSUME Card!InputsParameters, CardInv, Card!Load \/ Card!Unload, UNCHANGED shown
    PROVE  CardInv'
<1>1. /\ ~evaluating /\ loaded' \in BOOLEAN /\ now' = 0 /\ bus' = <<>> /\ pressed' = {} /\ logo' = [logo EXCEPT !.value = 0]
      /\ state' = [s \in Sites |-> Card!Unseeded] /\ log' = [s \in Sites |-> <<>>]
      /\ todo' = todo /\ evaluating' = evaluating /\ clock' = clock /\ shown' = shown
  BY DEF Card!Load, Card!Unload, Card!Clear
<1>2. CardTypes /\ Half \in Nat \ {0, 1}
  BY DEF CardInv, Card!InputsParameters
<1>3. logo \in LogoState /\ clock \in Nat
  BY <1>2 DEF CardTypes
<1>4. logo.threshold \in 1..(Half - 1)
  BY <1>3, LogoFacts
<1>5. logo' \in LogoState /\ logo'.value = 0 /\ logo'.threshold = logo.threshold
  BY <1>1, <1>2, <1>3 DEF LogoState
<1>6. CardTypes'
  <2>1. DOMAIN state' = Sites /\ DOMAIN log' = Sites
    BY <1>1
  <2>2. now' \in Nat /\ clock' \in Nat /\ now' <= clock' /\ clock' <= MaxClock
    BY <1>1, <1>2 DEF CardTypes
  <2>3. pressed' \subseteq Inputs /\ todo' \subseteq Sites /\ loaded' \in BOOLEAN /\ evaluating' \in BOOLEAN
        /\ (evaluating' => loaded') /\ (todo' # {} => evaluating')
    BY <1>1, <1>2 DEF CardTypes
  <2> QED
    BY <1>5, <2>1, <2>2, <2>3 DEF CardTypes
<1>7. CardLevels'
  <2>1. BusSound(bus', pressed')
    BY <1>1, EmptyBusSound
  <2>2. Card!TouchLevel'
    BY <1>1, <1>4, <1>5 DEF Card!TouchLevel
  <2>3. Card!NoStuckButton'
    BY <1>1 DEF Card!NoStuckButton
  <2> QED
    BY <2>1, <2>2, <2>3 DEF CardLevels
<1>8. CardLogs'
  <2> SUFFICES ASSUME NEW s \in Sites PROVE SiteSound(log'[s], state'[s], now', clock' - now')
    BY DEF CardLogs
  <2>1. log'[s] = << >> /\ state'[s] = Card!Unseeded /\ now' = 0 /\ clock' - now' = clock
    BY <1>1, <1>3
  <2> QED
    BY <1>3, <2>1, UnseededSound
<1> QED
  BY <1>6, <1>7, <1>8 DEF CardInv

(* The time of the device and the clock pass together.                      *)
LEMMA TickKeeps ==
    ASSUME Card!InputsParameters, MaxClock < Wrap, CardInv, NEW ms \in Steps, Card!Tick(ms), UNCHANGED shown
    PROVE  CardInv'
<1>1. /\ loaded /\ clock + ms <= MaxClock /\ now' = (now + ms) % Wrap /\ clock' = clock + ms
      /\ bus' = <<>> /\ evaluating' = TRUE /\ todo' = Sites
      /\ pressed' = pressed /\ logo' = logo /\ loaded' = loaded /\ state' = state /\ log' = log /\ shown' = shown
  BY DEF Card!Tick, Card!Advance, Card!ToUint32
<1>2. CardTypes /\ CardLevels /\ CardLogs /\ ms \in Nat /\ Wrap \in Nat \ {0} /\ MaxClock \in Nat
  BY DEF CardInv, Card!InputsParameters
<1>3. now \in Nat /\ clock \in Nat /\ now <= clock
  BY <1>2 DEF CardTypes
<1>4. now' = now + ms
  <2>1. \A x \in Nat : x < Wrap => x % Wrap = x
    BY <1>2
  <2>2. now + ms \in Nat /\ now + ms < Wrap
    BY <1>1, <1>2, <1>3
  <2> QED
    BY <1>1, <2>1, <2>2
<1>5. CardTypes'
  <2>1. now' \in Nat /\ clock' \in Nat /\ now' <= clock' /\ clock' <= MaxClock
    BY <1>1, <1>2, <1>3, <1>4
  <2> QED
    BY <1>1, <1>2, <2>1 DEF CardTypes
<1>6. CardLevels'
  <2>1. BusSound(bus', pressed')
    BY <1>1, EmptyBusSound
  <2>2. Card!TouchLevel' /\ Card!NoStuckButton'
    BY <1>1, <1>2 DEF CardLevels, Card!TouchLevel, Card!NoStuckButton
  <2> QED
    BY <2>1, <2>2 DEF CardLevels
<1>7. CardLogs'
  <2> SUFFICES ASSUME NEW s \in Sites PROVE SiteSound(log'[s], state'[s], now', clock' - now')
    BY DEF CardLogs
  <2> DEFINE t == clock - now
  <2>1. t \in Nat /\ clock' - now' = t /\ now <= now' /\ now' \in Nat
    BY <1>1, <1>2, <1>3, <1>4
  <2>2. SiteSound(log[s], state[s], now, t)
    BY <1>2 DEF CardLogs
  <2>3. AfterNone(state[s], state[s])
    BY <2>2 DEF AfterNone, SiteSound
  <2> HIDE DEF t
  <2>4. SiteSound(log[s], state[s], now', t)
    BY <1>3, <2>1, <2>2, <2>3, QuietSound
  <2> QED
    BY <1>1, <2>1, <2>4
<1> QED
  BY <1>5, <1>6, <1>7 DEF CardInv

(* Another page is entered: every site starts afresh.                       *)
LEMMA PageKeeps ==
    ASSUME CardInv, Card!EndThink \/ Card!EnterPage, UNCHANGED shown
    PROVE  CardInv'
<1>1. /\ pressed' = pressed /\ logo' = logo /\ bus' = bus /\ loaded' = loaded /\ now' = now /\ clock' = clock /\ shown' = shown
      /\ evaluating' \in BOOLEAN /\ (evaluating' => evaluating) /\ todo' = {}
      /\ \/ state' = state /\ log' = log
         \/ state' = [s \in Sites |-> Card!Unseeded] /\ log' = [s \in Sites |-> <<>>]
  BY DEF Card!EndThink, Card!EnterPage, CardInv, CardTypes
<1>2. CardTypes /\ CardLevels /\ CardLogs
  BY DEF CardInv
<1>3. CardTypes'
  <2>1. DOMAIN state' = Sites /\ DOMAIN log' = Sites
    BY <1>1, <1>2 DEF CardTypes
  <2> QED
    BY <1>1, <1>2, <2>1 DEF CardTypes
<1>4. CardLevels'
  BY <1>1, <1>2 DEF CardLevels, Card!TouchLevel, Card!NoStuckButton
<1>5. CardLogs'
  <2>1. CASE state' = state /\ log' = log
    BY <1>1, <1>2, <2>1 DEF CardLogs
  <2>2. CASE state' = [s \in Sites |-> Card!Unseeded] /\ log' = [s \in Sites |-> <<>>]
    <3> SUFFICES ASSUME NEW s \in Sites PROVE SiteSound(log'[s], state'[s], now', clock' - now')
      BY DEF CardLogs
    <3>1. now \in Nat /\ clock - now \in Nat
      BY <1>2 DEF CardTypes
    <3>2. log'[s] = << >> /\ state'[s] = Card!Unseeded
      BY <2>2
    <3> QED
      BY <1>1, <3>1, <3>2, UnseededSound
  <2> QED
    BY <1>1, <2>1, <2>2
<1> QED
  BY <1>3, <1>4, <1>5 DEF CardInv

-----------------------------------------------------------------------------
(* A sensor is evaluated.                                                   *)
EventParts(A, B, C, D, E) ==
    /\ A \in {{}, {"pressed"}} /\ B \in {{}, {"double click"}} /\ (B # {} => A # {})
    /\ C \in {{}, {"released", "long click"}, {"released", "click"}} /\ D \in {{}, {"held"}}
    /\ E = A \cup B \cup C \cup D
EventsOf(A, B, C, E) ==
    /\ E \subseteq EventNames
    /\ "pressed" \in E <=> A # {}
    /\ "released" \in E <=> C # {}
    /\ "double click" \in E <=> B # {}
    /\ "long click" \in E <=> C = {"released", "long click"}
    /\ "click" \in E <=> C = {"released", "click"}
    /\ E \subseteq {"held"} <=> A = {} /\ C = {}
LEMMA EventSet ==
    ASSUME NEW A, NEW B, NEW C, NEW D, NEW E, EventParts(A, B, C, D, E)
    PROVE  EventsOf(A, B, C, E)
<1> USE DEF EventParts
<1>1. E \subseteq EventNames
  BY DEF EventNames
<1>2. /\ "pressed" \in E <=> A # {}
      /\ "released" \in E <=> C # {}
      /\ "double click" \in E <=> B # {}
  OBVIOUS
<1>3. "long click" \in E <=> C = {"released", "long click"}
  OBVIOUS
<1>4. "click" \in E <=> C = {"released", "click"}
  OBVIOUS
<1>5. E \subseteq {"held"} <=> A = {} /\ C = {}
  OBVIOUS
<1> QED
  BY <1>1, <1>2, <1>3, <1>4, <1>5 DEF EventsOf

LEMMA LevelIsBoolean == \A s : Card!Level(s) \in BOOLEAN
<1> SUFFICES ASSUME NEW s PROVE Card!Level(s) \in BOOLEAN
  OBVIOUS
<1>1. CASE s = "AB"
  BY <1>1, Zenon DEF Card!Level
<1>2. CASE s # "AB"
  <2>1. Card!Level(s) = (s \in pressed)
    BY <1>2, Zenon DEF Card!Level
  <2>2. (s \in pressed) \in BOOLEAN
    OBVIOUS
  <2> QED
    BY <2>1, <2>2, Zenon
<1> QED
  BY <1>1, <1>2

LEMMA EventFacts ==
    ASSUME NEW s
    PROVE  /\ Card!Events(s) \subseteq EventNames
           /\ "pressed" \in Card!Events(s) <=> Card!PressEdge(s)
           /\ "released" \in Card!Events(s) <=> Card!ReleaseEdge(s)
           /\ "double click" \in Card!Events(s) <=> Card!IsDouble(s)
           /\ "long click" \in Card!Events(s) <=> Card!ReleaseEdge(s) /\ Card!IsLong(s)
           /\ "click" \in Card!Events(s) <=> Card!ReleaseEdge(s) /\ ~Card!IsLong(s)
           /\ Card!Events(s) \subseteq {"held"} <=> ~Card!PressEdge(s) /\ ~Card!ReleaseEdge(s)
<1>1. Card!Events(s) = (IF Card!PressEdge(s) THEN {"pressed"} ELSE {}) \cup (IF Card!IsDouble(s) THEN {"double click"} ELSE {})
          \cup (IF Card!ReleaseEdge(s) THEN {"released", IF Card!IsLong(s) THEN "long click" ELSE "click"} ELSE {})
          \cup (IF Card!Level(s) THEN {"held"} ELSE {})
  BY DEF Card!Events
<1>2. Card!IsDouble(s) => Card!PressEdge(s)
  BY DEF Card!IsDouble
<1> DEFINE A == IF Card!PressEdge(s) THEN {"pressed"} ELSE {}
           B == IF Card!IsDouble(s) THEN {"double click"} ELSE {}
           C == IF Card!ReleaseEdge(s) THEN {"released", IF Card!IsLong(s) THEN "long click" ELSE "click"} ELSE {}
           D == IF Card!Level(s) THEN {"held"} ELSE {}
<1>3. A \in {{}, {"pressed"}} /\ (A # {} <=> Card!PressEdge(s))
  OBVIOUS
<1>4. B \in {{}, {"double click"}} /\ (B # {} <=> Card!IsDouble(s))
  OBVIOUS
<1>5. D \in {{}, {"held"}}
  OBVIOUS
<1>6. /\ C \in {{}, {"released", "long click"}, {"released", "click"}} /\ (C # {} <=> Card!ReleaseEdge(s))
      /\ C = {"released", "long click"} <=> Card!ReleaseEdge(s) /\ Card!IsLong(s)
      /\ C = {"released", "click"} <=> Card!ReleaseEdge(s) /\ ~Card!IsLong(s)
  <2>0. /\ {"released", "long click"} # {"released", "click"}
        /\ {"released", "long click"} # {} /\ {"released", "click"} # {}
    <3>1. "long click" \in {"released", "long click"} /\ "long click" \notin {"released", "click"}
          /\ "released" \in {"released", "click"} /\ "released" \notin {}
      OBVIOUS
    <3> QED
      BY <3>1, Zenon
  <2>1. CASE ~Card!ReleaseEdge(s)
    BY <2>0, <2>1
  <2>2. CASE Card!ReleaseEdge(s) /\ Card!IsLong(s)
    <3>1. C = {"released", "long click"}
      BY <2>2
    <3> QED
      BY <2>0, <2>2, <3>1
  <2>3. CASE Card!ReleaseEdge(s) /\ ~Card!IsLong(s)
    <3>1. C = {"released", "click"}
      BY <2>3
    <3> QED
      BY <2>0, <2>3, <3>1
  <2> QED
    BY <2>1, <2>2, <2>3
<1>7. Card!Events(s) = A \cup B \cup C \cup D
  BY <1>1
<1>8. B # {} => A # {}
  BY <1>2, <1>3, <1>4
<1> HIDE DEF A, B, C, D
<1>9. EventParts(A, B, C, D, Card!Events(s))
  BY <1>3, <1>4, <1>5, <1>6, <1>7, <1>8, Zenon DEF EventParts
<1>10. EventsOf(A, B, C, Card!Events(s))
  BY <1>9, EventSet
<1>11. /\ Card!Events(s) \subseteq EventNames
       /\ "pressed" \in Card!Events(s) <=> Card!PressEdge(s)
       /\ "released" \in Card!Events(s) <=> Card!ReleaseEdge(s)
       /\ "double click" \in Card!Events(s) <=> Card!IsDouble(s)
  BY <1>3, <1>4, <1>6, <1>10, Zenon DEF EventsOf
<1>12. /\ "long click" \in Card!Events(s) <=> Card!ReleaseEdge(s) /\ Card!IsLong(s)
       /\ "click" \in Card!Events(s) <=> Card!ReleaseEdge(s) /\ ~Card!IsLong(s)
  BY <1>6, <1>10, Zenon DEF EventsOf
<1>13. Card!Events(s) \subseteq {"held"} <=> ~Card!PressEdge(s) /\ ~Card!ReleaseEdge(s)
  BY <1>3, <1>6, <1>10, Zenon DEF EventsOf
<1> QED
  BY <1>11, <1>12, <1>13

(* What deriveEvents makes of the state of a site.                          *)
LEMMA AdvancedFacts ==
    ASSUME NEW s \in Sites, state[s] \in SiteState, now \in Nat
    PROVE  LET u == Card!Advanced(s)
               r == state[s]
               c == Card!ReleaseEdge(s) /\ ~Card!IsLong(s)
           IN  /\ u \in SiteState /\ (u.seeded <=> r.seeded) /\ (u.prev <=> Card!Level(s))
               /\ u.start = IF Card!PressEdge(s) THEN now ELSE r.start
               /\ u.last = IF c THEN now ELSE r.last
               /\ u.pending <=> (r.pending /\ ~Card!IsDouble(s)) \/ c
<1> DEFINE r == state[s]
           c == Card!ReleaseEdge(s) /\ ~Card!IsLong(s)
           u == Card!Advanced(s)
           v == Card!Level(s)
           b == IF Card!PressEdge(s) THEN now ELSE r.start
           d == IF c THEN now ELSE r.last
           p == (r.pending /\ ~Card!IsDouble(s)) \/ c
<1>1. u = [r EXCEPT !.prev = v, !.start = b, !.last = d, !.pending = p]
  BY DEF Card!Advanced
<1>2. v \in BOOLEAN /\ p \in BOOLEAN
  <2>1. v \in BOOLEAN
    BY LevelIsBoolean
  <2>2. p \in BOOLEAN
    BY Zenon
  <2> QED
    BY <2>1, <2>2
<1>3. b \in Nat /\ d \in Nat
  BY StateFields
<1>4. r \in SiteState
  OBVIOUS
<1> HIDE DEF r, u, v, b, d, p
<1>5. u \in SiteState
  BY <1>1, <1>2, <1>3, <1>4 DEF SiteState
<1>6. u.seeded = r.seeded /\ u.prev = v /\ u.start = b /\ u.last = d /\ u.pending = p
  BY <1>1, <1>4 DEF SiteState
<1> QED
  BY <1>5, <1>6 DEF r, u, v, b, d, p

LEMMA EvaluationSound ==
    ASSUME NEW s \in Sites, now \in Nat, NEW t \in Nat, clock = now + t, SiteSound(log[s], state[s], now, t),
           state[s].seeded, Window \in Nat
    PROVE  SiteSound(IF Card!Events(s) \subseteq {"held"} THEN log[s]
                     ELSE Append(log[s], [events |-> Card!Events(s), at |-> clock]), Card!Advanced(s), now, t)
<1> DEFINE l == log[s]
           r == state[s]
           u == Card!Advanced(s)
           e == [events |-> Card!Events(s), at |-> clock]
<1>1. r \in SiteState /\ Len(l) >= 1 /\ PressLogged(l, r, t)
  BY DEF SiteSound
<1>2. /\ u \in SiteState /\ (u.seeded <=> r.seeded) /\ (u.prev <=> Card!Level(s))
      /\ u.start = IF Card!PressEdge(s) THEN now ELSE r.start
      /\ u.last = IF Card!ReleaseEdge(s) /\ ~Card!IsLong(s) THEN now ELSE r.last
      /\ u.pending <=> (r.pending /\ ~Card!IsDouble(s)) \/ (Card!ReleaseEdge(s) /\ ~Card!IsLong(s))
  BY <1>1, AdvancedFacts
<1>3. e \in Entry /\ e.at = now + t /\ e.events = Card!Events(s)
  <2>1. Card!Events(s) \in SUBSET EventNames
    BY EventFacts
  <2>2. clock \in Nat
    OBVIOUS
  <2>3. e \in Entry
    BY <2>1, <2>2 DEF Entry
  <2> QED
    BY <2>3
<1>4. /\ Card!PressEdge(s) <=> ~r.prev /\ Card!Level(s)
      /\ Card!ReleaseEdge(s) <=> r.prev /\ ~Card!Level(s)
      /\ Card!IsDouble(s) <=> Card!PressEdge(s) /\ r.pending /\ now - r.last <= Window
      /\ Card!IsLong(s) <=> Card!ReleaseEdge(s) /\ now - r.start >= LongClick
  BY DEF Card!PressEdge, Card!ReleaseEdge, Card!IsDouble, Card!IsLong
<1>5. /\ "pressed" \in e.events <=> Card!PressEdge(s)
      /\ "released" \in e.events <=> Card!ReleaseEdge(s)
      /\ "double click" \in e.events <=> Card!IsDouble(s)
      /\ "long click" \in e.events <=> Card!ReleaseEdge(s) /\ Card!IsLong(s)
      /\ "click" \in e.events <=> Card!ReleaseEdge(s) /\ ~Card!IsLong(s)
      /\ Card!Events(s) \subseteq {"held"} <=> ~Card!PressEdge(s) /\ ~Card!ReleaseEdge(s)
  BY <1>3, EventFacts
<1>6. Append(l, e) = Logged(l, e)
  BY DEF Logged
<1>7. SiteSound(l, r, now, t)
  OBVIOUS
<1> HIDE DEF l, r, u, e
<1>8. Tells(l, r, now, t, e)
  <2>1. "released" \in e.events => ("long click" \in e.events <=> now + t - l[Len(l)].at >= LongClick)
    <3> SUFFICES ASSUME "released" \in e.events
                 PROVE  "long click" \in e.events <=> now + t - l[Len(l)].at >= LongClick
      OBVIOUS
    <3>1. r.prev /\ Card!ReleaseEdge(s)
      BY <1>4, <1>5
    <3>2. l[Len(l)].at = r.start + t
      BY <1>1, <3>1 DEF PressLogged
    <3>3. now + t - l[Len(l)].at = now - r.start
      <4>1. r.start \in Nat
        BY <1>1, StateFields
      <4> QED
        BY <3>2, <4>1
    <3> QED
      BY <1>4, <1>5, <3>1, <3>3
  <2>2. "pressed" \in e.events => ("double click" \in e.events <=> r.pending /\ now - r.last <= Window)
    BY <1>4, <1>5
  <2> QED
    BY <1>3, <2>1, <2>2 DEF Tells
<1>9. CASE Card!PressEdge(s)
  <2>1. ~Card!ReleaseEdge(s) /\ ~(Card!Events(s) \subseteq {"held"})
    BY <1>4, <1>5, <1>9
  <2>2. AfterPress(r, u, now, e)
    BY <1>2, <1>5, <1>9, <2>1 DEF AfterPress, r
  <2>3. SiteSound(Logged(l, e), u, now, t)
    BY <1>1, <1>7, <1>8, <2>2, PressSound
  <2> QED
    BY <1>6, <2>1, <2>3 DEF l, u, e
<1>10. CASE Card!ReleaseEdge(s)
  <2>1. ~Card!PressEdge(s) /\ ~Card!IsDouble(s) /\ ~(Card!Events(s) \subseteq {"held"}) /\ ~Card!Level(s)
    BY <1>4, <1>5, <1>10
  <2>2. AfterRelease(r, u, now, e)
    BY <1>2, <1>5, <1>10, <2>1 DEF AfterRelease, r
  <2>3. SiteSound(Logged(l, e), u, now, t)
    BY <1>1, <1>7, <1>8, <2>2, ReleaseSound
  <2> QED
    BY <1>6, <2>1, <2>3 DEF l, u, e
<1>11. CASE ~Card!PressEdge(s) /\ ~Card!ReleaseEdge(s)
  <2>1. Card!Events(s) \subseteq {"held"} /\ ~Card!IsDouble(s) /\ (Card!Level(s) <=> r.prev)
    BY <1>4, <1>5, <1>11
  <2>2. AfterNone(r, u)
    BY <1>2, <1>11, <2>1 DEF AfterNone
  <2>3. SiteSound(l, u, now, t)
    BY <1>7, <2>2, QuietSound
  <2> QED
    BY <2>1, <2>3 DEF l, u
<1> QED
  BY <1>9, <1>10, <1>11

LEMMA EvaluateKeeps ==
    ASSUME Card!InputsParameters, CardInv, NEW s \in Sites, Card!Evaluate(s), UNCHANGED shown
    PROVE  CardInv'
<1> DEFINE t == clock - now
           l == IF state[s].seeded
                THEN IF Card!Events(s) \subseteq {"held"} THEN log[s]
                     ELSE Append(log[s], [events |-> Card!Events(s), at |-> clock])
                ELSE << [events |-> IF Card!Level(s) THEN {"held"} ELSE {}, at |-> clock] >>
           u == IF state[s].seeded THEN Card!Advanced(s) ELSE Card!Seed(s)
<1>1. CardTypes /\ CardLevels /\ CardLogs /\ Window \in Nat
  BY DEF CardInv, Card!InputsParameters
<1>2. now \in Nat /\ t \in Nat /\ clock = now + t /\ DOMAIN state = Sites /\ DOMAIN log = Sites
  BY <1>1 DEF CardTypes
<1>3. /\ todo' = todo \ {s} /\ state' = [state EXCEPT ![s] = u] /\ log' = [log EXCEPT ![s] = l]
      /\ pressed' = pressed /\ logo' = logo /\ bus' = bus /\ loaded' = loaded /\ now' = now
      /\ evaluating' = evaluating /\ clock' = clock /\ shown' = shown
  BY DEF Card!Evaluate
<1>4. SiteSound(log[s], state[s], now, t)
  BY <1>1 DEF CardLogs
<1>5. SiteSound(l, u, now, t)
  <2>1. CASE state[s].seeded
    BY <1>1, <1>2, <1>4, <2>1, EvaluationSound
  <2>2. CASE ~state[s].seeded
    <3> DEFINE e == [events |-> IF Card!Level(s) THEN {"held"} ELSE {}, at |-> clock]
               w == Card!Seed(s)
    <3>1. e \in Entry /\ e.at = now + t
      <4>1. (IF Card!Level(s) THEN {"held"} ELSE {}) \in SUBSET EventNames
        BY DEF EventNames
      <4> QED
        BY <1>2, <4>1 DEF Entry
    <3>2. w \in SiteState /\ ~w.pending /\ w.start = now /\ w.last = 0
      <4> DEFINE z == Card!Unseeded
                 v == Card!Level(s)
      <4>1. z \in SiteState /\ ~z.pending /\ z.last = 0
        BY DEF SiteState, Card!Unseeded
      <4>2. w = [z EXCEPT !.seeded = TRUE, !.prev = v, !.start = now]
        BY DEF Card!Seed
      <4>3. v \in BOOLEAN
        BY LevelIsBoolean
      <4> HIDE DEF z, v, w
      <4> QED
        BY <1>2, <4>1, <4>2, <4>3 DEF SiteState
    <3> HIDE DEF w, t
    <3>3. SiteSound(<<e>>, w, now, t)
      <4> HIDE DEF e
      <4> QED
        BY <1>2, <3>1, <3>2, SeedSound
    <3> QED
      BY <2>2, <3>3 DEF w
  <2> QED
    BY <2>1, <2>2
<1>6. /\ log'[s] = l /\ state'[s] = u /\ DOMAIN state' = Sites /\ DOMAIN log' = Sites
      /\ \A x \in Sites : x # s => log'[x] = log[x] /\ state'[x] = state[x]
  BY <1>2, <1>3
<1> HIDE DEF l, u, t
<1>7. CardTypes'
  BY <1>1, <1>3, <1>6 DEF CardTypes
<1>8. CardLevels'
  BY <1>1, <1>3 DEF CardLevels, Card!TouchLevel, Card!NoStuckButton
<1>9. CardLogs'
  <2>1. ASSUME NEW x \in Sites PROVE SiteSound(log'[x], state'[x], now', clock' - now')
    <3>1. CASE x = s
      BY <1>3, <1>5, <1>6, <3>1 DEF t
    <3>2. CASE x # s
      BY <1>1, <1>3, <1>6, <3>2 DEF CardLogs
    <3> QED
      BY <3>1, <3>2
  <2> QED
    BY <2>1 DEF CardLogs
<1> QED
  BY <1>7, <1>8, <1>9 DEF CardInv

LEMMA CardStep ==
    ASSUME Card!InputsParameters, Thresholds \subseteq 1..(Half - 1), MaxClock < Wrap, CardInv, Card!CardNext
    PROVE  CardInv'
<1>1. CASE \E w \in Card!Buttons, down \in BOOLEAN : Card!Set(w, down)
  BY <1>1, SetKeeps
<1>2. CASE \E down \in BOOLEAN : Card!SetLogo(down)
  BY <1>2, TouchKeeps
<1>3. CASE Card!DeviceNext /\ UNCHANGED shown
  BY <1>3, TouchKeeps, PowerOnKeeps, TickKeeps, PageKeeps, EvaluateKeeps DEF Card!DeviceNext
<1> QED
  BY <1>1, <1>2, <1>3 DEF Card!CardNext

LEMMA CardStutter == CardInv /\ UNCHANGED card => CardInv'
<1> SUFFICES ASSUME CardInv, UNCHANGED card PROVE CardInv'
  OBVIOUS
<1>1. UNCHANGED <<pressed, logo, bus, loaded, now, state, todo, evaluating, clock, log, shown>>
  BY DEF card
<1> QED
  BY <1>1 DEF CardInv, CardTypes, CardLevels, CardLogs, Card!TouchLevel, Card!NoStuckButton

(* What the properties of the card say of a state.                          *)
LEMMA CardImplies ==
    ASSUME CardInv, Card!InputsParameters, MaxClock < Wrap
    PROVE  /\ Card!TypeOK /\ Card!Alternates /\ Card!LongIsLong /\ Card!DoubleIsDouble
           /\ Card!TouchLevel /\ Card!NoStuckButton
<1>1. CardTypes /\ CardLevels /\ CardLogs /\ Half \in Nat \ {0, 1} /\ Wrap \in Nat \ {0} /\ MaxClock \in Nat
  BY DEF CardInv, Card!InputsParameters
<1>2. Card!Alternates /\ Card!TouchLevel /\ Card!NoStuckButton
  BY <1>1, SoundAlternates DEF CardLevels
<1>3. Card!TypeOK
  <2>1. logo \in LogoState /\ now \in Nat /\ now <= clock /\ clock <= MaxClock /\ clock \in Nat
    BY <1>1 DEF CardTypes
  <2>2. logo.value \in (-Half)..(Half - 1) /\ logo.threshold \in (-Half)..(Half - 1)
    BY <1>1, <2>1, LogoFacts
  <2>3. now \in 0..(Wrap - 1)
    BY <1>1, <2>1
  <2>4. pressed \subseteq {"A", "B", "logo"} /\ (evaluating => loaded) /\ todo \subseteq Sites /\ (todo # {} => evaluating)
    BY <1>1 DEF CardTypes, Inputs
  <2> QED
    BY <2>2, <2>3, <2>4 DEF Card!TypeOK
<1>4. \A s \in Sites : Longs(log[s]) /\ Doubles(log[s])
  BY <1>1 DEF CardLogs, SiteSound
<1>5. Card!LongIsLong
  <2> SUFFICES ASSUME NEW s \in Sites, NEW i \in 2..Len(log[s]), "released" \in log[s][i].events
               PROVE  "long click" \in log[s][i].events <=> log[s][i].at - log[s][i - 1].at >= LongClick
    BY DEF Card!LongIsLong
  <2> DEFINE l == log[s]
  <2>1. Released(l, i) => (LongClicked(l, i) <=> l[i].at - l[i - 1].at >= LongClick)
    BY <1>4 DEF Longs
  <2>2. "long click" \in log[s][i].events <=> log[s][i].at - log[s][i - 1].at >= LongClick
    BY <2>1 DEF Released, LongClicked
  <2> QED
    BY <2>2
<1>6. Card!DoubleIsDouble
  <2> SUFFICES ASSUME NEW s \in Sites, NEW i \in 2..Len(log[s]), "pressed" \in log[s][i].events
               PROVE  Card!Has(s, i, "double click") <=>
                        \E j \in 2..(i - 1) :
                            /\ Card!Has(s, j, "click") /\ log[s][i].at - log[s][j].at <= Window
                            /\ ~\E k \in j..(i - 1) : Card!Has(s, k, "double click")
    BY DEF Card!DoubleIsDouble
  <2> DEFINE l == log[s]
  <2>1. Pressed(l, i) =>
          (Doubled(l, i) <=>
            \E j \in 2..(i - 1) :
                /\ Clicked(l, j) /\ l[i].at - l[j].at <= Window
                /\ ~\E k \in j..(i - 1) : Doubled(l, k))
    BY <1>4 DEF Doubles
  <2>2. \A j : (Doubled(l, j) <=> Card!Has(s, j, "double click")) /\ (Clicked(l, j) <=> Card!Has(s, j, "click"))
    BY DEF Doubled, Clicked, Card!Has
  <2>3. Pressed(l, i)
    BY DEF Pressed
  <2> QED
    BY <2>1, <2>2, <2>3
<1> QED
  BY <1>2, <1>3, <1>5, <1>6

-----------------------------------------------------------------------------
LEMMA InputsHold == ASSUME WithinDocs PROVE BoardSpec => [](PortsInv /\ CardInv)
<1>1. /\ Ports!PortsParameters /\ Card!InputsParameters
      /\ Thresholds \subseteq 1..(Half - 1) /\ MaxClock < Wrap
  BY BoardAssumption DEF WithinDocs
<1>2. BoardInit => PortsInv /\ CardInv
  BY <1>1, PortsStart, CardStart DEF BoardInit
<1>3. ASSUME PortsInv, CardInv, [BoardNext]_<<part, ports, card, motion, events, audio>>
      PROVE  PortsInv' /\ CardInv'
  <2>1. CASE Ports!Next /\ UNCHANGED card
    BY <1>1, <1>3, <2>1, PortsStep, CardStutter
  <2>2. CASE Card!CardNext /\ UNCHANGED ports
    BY <1>1, <1>3, <2>2, CardStep, PortsStutter
  <2>3. CASE UNCHANGED <<ports, card>>
    BY <1>3, <2>3, PortsStutter, CardStutter
  <2> QED
    BY <1>3, <2>1, <2>2, <2>3 DEF BoardNext
<1> QED
  BY <1>2, <1>3, PTL DEF BoardSpec

(* A program reads of its ports what the world put there since the last     *)
(* reset and drives, of whatever numbers it names, the pins there are, in   *)
(* order, a negative number counting as P0; an open slider shows the        *)
(* reading; and of the buttons it reads what the card's user did: presses,  *)
(* releases, long and double clicks by the time between them, and none that *)
(* is stuck (gpio.ts, core/sensor-driver.ts, i2c-bus.ts, MicroBit.clear,    *)
(* LightLevelSlider.tsx, Button.setPressed, TouchButton, deriveEvents,      *)
(* MicrobitDevice.tsx).                                                     *)
THEOREM InputsAreRead == ASSUME WithinDocs PROVE BoardSpec => []InputsRead
<1>1. PortsInv /\ CardInv => InputsRead
  BY BoardAssumption, PortsImply, CardImplies DEF InputsRead, WithinDocs
<1>2. BoardSpec => [](PortsInv /\ CardInv)
  BY InputsHold
<1> QED
  BY <1>1, <1>2, PTL
=============================================================================
