-------------------------- MODULE RadioFleetProofs --------------------------
(***************************************************************************)
(* The receive rings of the simulated radios, for every set of devices,    *)
(* groups and receive sites, every depth and any number of frames.         *)
(*                                                                         *)
(* A ring holds the latest packets without a gap, so that a cursor, which  *)
(* is an arrival number, finds its place in it however many packets were   *)
(* overwritten; no cursor is ahead of its ring.  The second needs the      *)
(* first: the packet a site takes is one of the ring, whose numbers end at *)
(* lastSeq.  That a site with candidates has a first and a last one is the *)
(* well-ordering of the natural numbers (LeastNatural).                    *)
(*                                                                         *)
(* With them every reader implements LossyQueue.  Its queue is computed    *)
(* from the ring by recursion, so the proof follows what the queue holds:  *)
(* the numbers a site still wants, in increasing order, and no two         *)
(* increasing sequences hold the same numbers.                             *)
(***************************************************************************)
EXTENDS RadioFleet, SequenceTheorems, WellFoundedInduction, TLAPS

(* Nothing of a packet matters here but its number and its sender, which    *)
(* the ring keeps as they came: S stands for what groups and packets are.  *)
RadioRecord(S) == [group : S, ring : Seq(S), last : Nat]
CursorRecord == [armed : BOOLEAN, at : Nat]

RadioTypes ==
    /\ \E S : radio \in [Devices -> RadioRecord(S)]
    /\ cursor \in [Devices -> [Sites -> CursorRecord]]

(* RingSound and NotOwn, device by device.                                 *)
SoundRing(r) ==
    /\ Len(r.ring) <= Depth /\ Len(r.ring) <= r.last
    /\ \A i \in DOMAIN r.ring : r.ring[i].seq = r.last - Len(r.ring) + i
SoundCursors(d) == \A s \in Sites : cursor[d][s].at <= radio[d].last
Foreign(d, r) == \A i \in DOMAIN r.ring : r.ring[i].from # d

RadioInv ==
    /\ RadioTypes
    /\ \A d \in Devices : SoundRing(radio[d]) /\ SoundCursors(d) /\ Foreign(d, radio[d])

(* NextThink for one step.                                                 *)
DeliverStep ==
    \A d \in Devices : radio'[d].last # radio[d].last => phase = "deliver" \/ radio'[d] = PowerOn

-----------------------------------------------------------------------------
(* A set of natural numbers has a least element.                           *)
LEMMA LeastNatural ==
    ASSUME NEW T \in SUBSET Nat, T # {}
    PROVE  \E x \in T : \A y \in T : x <= y
<1>1. \E x \in T : \A y \in T : ~ (<<y, x>> \in OpToRel(<,Nat))
  <2>1. IsWellFoundedOn(OpToRel(<,Nat), Nat)
    BY NatLessThanWellFounded
  <2> HIDE DEF OpToRel
  <2> DEFINE R == OpToRel(<,Nat)
  <2>2. IsWellFoundedOn(R, Nat)
    BY <2>1
  <2> HIDE DEF R
  <2>3. \E x \in T : \A y \in T : ~ (<<y, x>> \in R)
    BY <2>2, WFMin, Zenon
  <2> QED
    BY <2>3 DEF R
<1>2. ASSUME NEW x \in Nat, NEW y \in Nat, y < x
      PROVE  <<y, x>> \in OpToRel(<,Nat)
  <2>1. <<y, x>> \in Nat \X Nat /\ <<y, x>>[1] = y /\ <<y, x>>[2] = x
    OBVIOUS
  <2>2. <<y, x>>[1] < <<y, x>>[2]
    BY <1>2, <2>1
  <2> QED
    BY <2>1, <2>2, Zenon DEF OpToRel
<1>3. PICK x \in T : \A y \in T : ~ (<<y, x>> \in OpToRel(<,Nat))
  BY <1>1, Zenon
<1>4. ASSUME NEW y \in T PROVE ~(y < x)
  BY <1>2, <1>3, Zenon
<1>5. \A y \in T : x <= y
  BY <1>4
<1> QED
  BY <1>5

(* So a set of indices has a first and a last one.                         *)
LEMMA FirstAndLast ==
    ASSUME NEW n \in Nat, NEW T \in SUBSET (1..n), T # {}
    PROVE  (\E i \in T : \A j \in T : i <= j) /\ (\E i \in T : \A j \in T : i >= j)
<1>1. \E i \in T : \A j \in T : i <= j
  BY LeastNatural
<1>2. \E i \in T : \A j \in T : i >= j
  <2> DEFINE U == {n - i : i \in T}
  <2>1. U \in SUBSET Nat /\ U # {}
    <3>1. \A i \in T : n - i \in Nat
      OBVIOUS
    <3> QED
      BY <3>1
  <2>2. PICK u \in U : \A v \in U : u <= v
    BY <2>1, LeastNatural
  <2>3. PICK i \in T : u = n - i
    BY <2>2
  <2>4. ASSUME NEW j \in T PROVE i >= j
    <3>1. n - i <= n - j
      BY <2>2, <2>3
    <3> QED
      BY <3>1
  <2> QED
    BY <2>4
<1> QED
  BY <1>1, <1>2

(* A delivery appends the next number and drops the oldest of a full ring.  *)
LEMMA DeliveredSound ==
    ASSUME NEW S, NEW r \in RadioRecord(S), NEW packet,
           [seq |-> r.last + 1, type |-> packet.type, from |-> packet.from] \in S, SoundRing(r)
    PROVE  /\ Delivered(r, packet) \in RadioRecord(S)
           /\ SoundRing(Delivered(r, packet))
           /\ Delivered(r, packet).last >= r.last
           /\ \A d : packet.from # d /\ Foreign(d, r) => Foreign(d, Delivered(r, packet))
<1> DEFINE entry == [seq |-> r.last + 1, type |-> packet.type, from |-> packet.from]
           stored == Append(r.ring, entry)
           kept == IF Len(stored) > Depth THEN Tail(stored) ELSE stored
<1>1. r.ring \in Seq(S) /\ r.last \in Nat /\ entry \in S /\ entry.seq = r.last + 1 /\ entry.from = packet.from
  BY DEF RadioRecord
<1> HIDE DEF entry
<1>2. Len(r.ring) \in Nat /\ DOMAIN r.ring = 1..Len(r.ring)
  BY <1>1, LenProperties
<1>3. /\ stored \in Seq(S) /\ Len(stored) = Len(r.ring) + 1 /\ stored # << >>
      /\ \A i \in 1..Len(r.ring) : stored[i] = r.ring[i]
      /\ stored[Len(r.ring) + 1] = entry
  BY <1>1, <1>2, AppendProperties, EmptySeq
<1>4. ASSUME NEW i \in 1..Len(stored) PROVE stored[i].seq = r.last - Len(r.ring) + i
  <2>1. CASE i \in 1..Len(r.ring)
    <3>1. stored[i] = r.ring[i] /\ i \in DOMAIN r.ring
      BY <1>2, <1>3, <2>1
    <3> QED
      BY <3>1 DEF SoundRing
  <2>2. CASE i = Len(r.ring) + 1
    <3>1. stored[i].seq = r.last + 1
      BY <1>1, <1>3, <2>2
    <3> QED
      BY <1>1, <1>2, <2>2, <3>1
  <2> QED
    BY <1>2, <1>3, <1>4, <2>1, <2>2
<1>5. ASSUME NEW d, packet.from # d, Foreign(d, r), NEW i \in 1..Len(stored)
      PROVE  stored[i].from # d
  BY <1>1, <1>2, <1>3, <1>5 DEF Foreign
<1> HIDE DEF stored
<1>6. /\ Tail(stored) \in Seq(S) /\ Len(Tail(stored)) = Len(stored) - 1
      /\ \A i \in 1..(Len(stored) - 1) : Tail(stored)[i] = stored[i + 1]
  BY <1>3, HeadTailProperties
<1>7. Depth \in Nat \ {0}
  BY FleetAssumption
<1>8. /\ kept \in Seq(S) /\ Len(kept) \in Nat /\ DOMAIN kept = 1..Len(kept)
      /\ Len(kept) <= Depth /\ Len(kept) <= r.last + 1
      /\ \A i \in 1..Len(kept) : kept[i].seq = r.last + 1 - Len(kept) + i
      /\ \A d : packet.from # d /\ Foreign(d, r) => \A i \in 1..Len(kept) : kept[i].from # d
  <2>1. CASE Len(stored) > Depth
    <3>1. kept = Tail(stored) /\ Len(kept) = Len(r.ring)
      BY <1>2, <1>3, <1>6, <2>1
    <3>2. Len(kept) <= Depth /\ Len(kept) <= r.last + 1
      BY <1>1, <1>2, <3>1 DEF SoundRing
    <3>3. \A i \in 1..Len(kept) : i + 1 \in 1..Len(stored) /\ kept[i] = stored[i + 1]
      BY <1>2, <1>3, <1>6, <3>1
    <3>4. ASSUME NEW i \in 1..Len(kept)
          PROVE  kept[i].seq = r.last + 1 - Len(kept) + i
      <4>1. kept[i].seq = r.last - Len(r.ring) + (i + 1)
        <5>1. i + 1 \in 1..Len(stored) /\ kept[i] = stored[i + 1]
          BY <3>3
        <5>2. stored[i + 1].seq = r.last - Len(r.ring) + (i + 1)
          BY <1>4, <5>1
        <5> QED
          BY <5>1, <5>2
      <4>2. i \in Int /\ r.last - Len(r.ring) + (i + 1) = r.last + 1 - Len(r.ring) + i
        BY <1>1, <1>2
      <4> QED
        BY <3>1, <4>1, <4>2
    <3>5. ASSUME NEW d, packet.from # d, Foreign(d, r), NEW i \in 1..Len(kept)
          PROVE  kept[i].from # d
      BY <1>5, <3>3, <3>5
    <3>6. Len(kept) \in Nat /\ DOMAIN kept = 1..Len(kept)
      BY <1>6, LenProperties
    <3> QED
      BY <1>6, <3>2, <3>4, <3>5, <3>6
  <2>2. CASE ~(Len(stored) > Depth)
    <3>1. kept = stored
      BY <2>2
    <3> HIDE DEF kept
    <3>2. kept \in Seq(S) /\ Len(kept) = Len(r.ring) + 1 /\ DOMAIN kept = 1..Len(kept)
      BY <1>3, <3>1, LenProperties
    <3>3. Len(kept) \in Nat /\ Len(kept) <= Depth /\ Len(kept) <= r.last + 1
      BY <1>1, <1>2, <1>3, <1>7, <2>2, <3>2 DEF SoundRing
    <3>4. ASSUME NEW i \in 1..Len(kept)
          PROVE  kept[i].seq = r.last + 1 - Len(kept) + i
      <4>1. kept[i].seq = r.last - Len(r.ring) + i
        BY <1>4, <3>1
      <4> QED
        BY <1>1, <1>2, <3>2, <4>1
    <3>5. ASSUME NEW d, packet.from # d, Foreign(d, r), NEW i \in 1..Len(kept)
          PROVE  kept[i].from # d
      BY <1>5, <3>1, <3>5
    <3> QED
      BY <3>2, <3>3, <3>4, <3>5
  <2> QED
    BY <2>1, <2>2
<1> HIDE DEF kept
<1>9. CASE packet.group # r.group
  BY <1>1, <1>9 DEF Delivered
<1>10. CASE packet.group = r.group
  <2>1. Delivered(r, packet) = [r EXCEPT !.last = r.last + 1, !.ring = kept]
    BY <1>10, Zenon DEF Delivered, kept, stored, entry
  <2>2. /\ [r EXCEPT !.last = r.last + 1] \in RadioRecord(S)
        /\ [r EXCEPT !.last = r.last + 1].last = r.last + 1
    BY <1>1 DEF RadioRecord
  <2>3. ASSUME NEW q \in RadioRecord(S)
        PROVE  /\ [q EXCEPT !.ring = kept] \in RadioRecord(S)
               /\ [q EXCEPT !.ring = kept].last = q.last /\ [q EXCEPT !.ring = kept].ring = kept
    BY <1>8 DEF RadioRecord
  <2>4. Delivered(r, packet) = [[r EXCEPT !.last = r.last + 1] EXCEPT !.ring = kept]
    BY <2>1, Zenon
  <2>5. /\ Delivered(r, packet) \in RadioRecord(S)
        /\ Delivered(r, packet).last = r.last + 1 /\ Delivered(r, packet).ring = kept
    BY <2>2, <2>3, <2>4, Zenon
  <2> QED
    <3> DEFINE q == Delivered(r, packet)
    <3>1. q \in RadioRecord(S) /\ q.last = r.last + 1 /\ q.ring = kept
      BY <2>5
    <3> HIDE DEF q
    <3>2. SoundRing(q)
      <4>1. Len(q.ring) <= Depth /\ Len(q.ring) <= q.last /\ DOMAIN q.ring = 1..Len(kept)
        BY <1>8, <3>1
      <4>2. ASSUME NEW i \in DOMAIN q.ring PROVE q.ring[i].seq = q.last - Len(q.ring) + i
        <5>1. kept[i].seq = r.last + 1 - Len(kept) + i
          BY <1>8, <4>1, <4>2
        <5>2. q.ring[i] = kept[i] /\ Len(q.ring) = Len(kept)
          BY <3>1
        <5>3. (r.last + 1) - Len(kept) + i = r.last + 1 - Len(kept) + i
          BY <1>1, <1>8, <4>1, <4>2
        <5> QED
          BY <3>1, <5>1, <5>2, <5>3
      <4> QED
        BY <4>1, <4>2 DEF SoundRing
    <3>3. \A d : packet.from # d /\ Foreign(d, r) => Foreign(d, q)
      BY <1>8, <3>1 DEF Foreign
    <3>4. q.last >= r.last
      BY <1>1, <3>1
    <3> QED
      BY <3>1, <3>2, <3>3, <3>4 DEF q
<1> QED
  BY <1>9, <1>10
(* What a site takes is a packet of the ring, and no later than lastSeq.    *)
LEMMA TakenFromRing ==
    ASSUME RadioInv, NEW d \in Devices, NEW site, Candidates(d, site) # {}
    PROVE  /\ NextAfter(d, site).seq \in Nat /\ NextAfter(d, site).seq <= radio[d].last
           /\ radio[d].ring[Max(Candidates(d, site))].seq \in Nat
           /\ radio[d].ring[Max(Candidates(d, site))].seq <= radio[d].last
<1> DEFINE r == radio[d]
           T == Candidates(d, site)
<1>1. PICK S : radio \in [Devices -> RadioRecord(S)]
  BY DEF RadioInv, RadioTypes
<1>2. r.ring \in Seq(S) /\ r.last \in Nat /\ SoundRing(r)
  BY <1>1 DEF RadioRecord, RadioInv
<1>3. Len(r.ring) \in Nat /\ DOMAIN r.ring = 1..Len(r.ring)
  BY <1>2, LenProperties
<1>4. T \in SUBSET (1..Len(r.ring)) /\ T # {}
  BY <1>3 DEF Candidates
<1>5. ASSUME NEW i \in T
      PROVE  r.ring[i].seq \in Nat /\ r.ring[i].seq <= r.last
  <2>1. i \in 1..Len(r.ring) /\ r.ring[i].seq = r.last - Len(r.ring) + i /\ Len(r.ring) <= r.last
    BY <1>2, <1>3, <1>4 DEF SoundRing
  <2>2. r.last - Len(r.ring) + i \in Nat /\ r.last - Len(r.ring) + i <= r.last
    BY <1>2, <1>3, <2>1
  <2> QED
    BY <2>1, <2>2
<1> HIDE DEF T
<1>6. (CHOOSE i \in T : \A j \in T : i <= j) \in T /\ Max(T) \in T
  BY <1>3, <1>4, FirstAndLast DEF Max
<1> QED
  BY <1>5, <1>6 DEF NextAfter, T

-----------------------------------------------------------------------------
(* A step that leaves the radios alone and moves no cursor past its ring.   *)
LEMMA CursorsKeep ==
    ASSUME RadioInv, radio' = radio, cursor' \in [Devices -> [Sites -> CursorRecord]],
           \A d \in Devices, s \in Sites : cursor'[d][s].at <= radio[d].last
    PROVE  RadioInv' /\ DeliverStep
  BY DEF RadioInv, RadioTypes, SoundCursors, DeliverStep

LEMMA IdleKeeps ==
    ASSUME RadioInv, UNCHANGED <<radio, cursor>>
    PROVE  RadioInv' /\ DeliverStep
  BY DEF RadioInv, RadioTypes, SoundCursors, DeliverStep

(* A reset radio is sound with any site's cursor unarmed.                  *)
LEMMA ResetKeeps ==
    ASSUME RadioInv, NEW x \in Devices,
           radio' = [radio EXCEPT ![x] = PowerOn], cursor' = [cursor EXCEPT ![x] = Unarmed]
    PROVE  RadioInv' /\ DeliverStep
<1>1. PICK S : radio \in [Devices -> RadioRecord(S)]
  BY DEF RadioInv, RadioTypes
<1>2. PowerOn \in RadioRecord(S \cup {Default}) /\ PowerOn.last = 0 /\ PowerOn.ring = << >>
  BY EmptySeq DEF PowerOn, RadioRecord
<1>3. \A r \in RadioRecord(S) : r \in RadioRecord(S \cup {Default})
  BY SeqMonotonic DEF RadioRecord
<1>4. radio' \in [Devices -> RadioRecord(S \cup {Default})]
  BY <1>1, <1>2, <1>3
<1>5. Unarmed \in [Sites -> CursorRecord] /\ \A s \in Sites : Unarmed[s].at = 0
  BY DEF Unarmed, CursorRecord
<1>6. RadioTypes'
  BY <1>4, <1>5 DEF RadioTypes, RadioInv
<1>7. SoundRing(PowerOn) /\ Foreign(x, PowerOn)
  <2>1. DOMAIN PowerOn.ring = {} /\ Len(PowerOn.ring) = 0
    BY <1>2
  <2> QED
    BY <1>2, <2>1, FleetAssumption DEF SoundRing, Foreign
<1>8. ASSUME NEW d \in Devices
      PROVE  SoundRing(radio'[d]) /\ SoundCursors(d)' /\ Foreign(d, radio'[d])
  <2>1. CASE d = x
    <3>1. radio'[d] = PowerOn /\ cursor'[d] = Unarmed
      BY <1>1, <2>1 DEF RadioInv, RadioTypes
    <3> QED
      BY <1>2, <1>5, <1>7, <2>1, <3>1 DEF SoundCursors
  <2>2. CASE d # x
    <3>1. radio'[d] = radio[d] /\ cursor'[d] = cursor[d]
      BY <1>1, <2>2 DEF RadioInv, RadioTypes
    <3> QED
      BY <3>1 DEF RadioInv, SoundCursors
  <2> QED
    BY <2>1, <2>2
<1>9. DeliverStep
  BY <1>1 DEF DeliverStep
<1> QED
  BY <1>6, <1>8, <1>9 DEF RadioInv
(* A packet delivered to those that hear it, the sender never among them.   *)
LEMMA TransmitKeeps ==
    ASSUME RadioInv, Transmit
    PROVE  RadioInv' /\ DeliverStep
<1> DEFINE packet == Head(outbox)
           entry(r) == [seq |-> r.last + 1, type |-> packet.type, from |-> packet.from]
<1>1. PICK S : radio \in [Devices -> RadioRecord(S)]
  BY DEF RadioInv, RadioTypes
<1>2. /\ radio' = [d \in Devices |-> IF Hears(d, packet) THEN Delivered(radio[d], packet) ELSE radio[d]]
      /\ cursor' = cursor /\ phase = "deliver"
  BY DEF Transmit
<1> HIDE DEF packet
<1> DEFINE T == S \cup {entry(radio[d]) : d \in Devices}
<1>3. \A r \in RadioRecord(S) : r \in RadioRecord(T)
  <2>1. S \subseteq T
    OBVIOUS
  <2> HIDE DEF T
  <2> QED
    BY <2>1, SeqMonotonic DEF RadioRecord
<1>4. ASSUME NEW d \in Devices
      PROVE  /\ radio'[d] \in RadioRecord(T) /\ SoundRing(radio'[d])
             /\ radio'[d].last >= radio[d].last /\ Foreign(d, radio'[d])
  <2>1. radio[d] \in RadioRecord(T) /\ entry(radio[d]) \in T
    BY <1>1, <1>3
  <2> HIDE DEF T
  <2>2. SoundRing(radio[d]) /\ Foreign(d, radio[d]) /\ radio[d].last \in Nat
    BY <1>1 DEF RadioInv, RadioRecord
  <2>3. CASE Hears(d, packet)
    <3>1. radio'[d] = Delivered(radio[d], packet)
      BY <1>2, <2>3
    <3>2. packet.from # d
      BY <2>3 DEF Hears
    <3> QED
      BY <2>1, <2>2, <3>1, <3>2, DeliveredSound
  <2>4. CASE ~Hears(d, packet)
    <3>1. radio'[d] = radio[d]
      BY <1>2, <2>4
    <3> QED
      BY <2>1, <2>2, <3>1
  <2> QED
    BY <2>3, <2>4
<1> HIDE DEF T
<1>5. RadioTypes'
  <2>1. radio' \in [Devices -> RadioRecord(T)]
    BY <1>2, <1>4
  <2> QED
    BY <1>2, <2>1 DEF RadioTypes, RadioInv
<1>6. ASSUME NEW d \in Devices PROVE SoundCursors(d)'
  <2>1. radio'[d].last \in Nat /\ radio[d].last \in Nat
    BY <1>1, <1>4 DEF RadioRecord
  <2>2. \A s \in Sites : cursor[d][s].at \in Nat /\ cursor[d][s].at <= radio[d].last
    BY DEF RadioInv, RadioTypes, CursorRecord, SoundCursors
  <2>3. \A s \in Sites : cursor[d][s].at <= radio'[d].last
    BY <1>4, <2>1, <2>2
  <2> QED
    BY <1>2, <2>3 DEF SoundCursors
<1> QED
  BY <1>2, <1>4, <1>5, <1>6 DEF RadioInv, DeliverStep

LEMMA GroupKeeps ==
    ASSUME RadioInv, NEW x \in Devices, NEW g \in Groups, SetRadioGroup(x, g)
    PROVE  RadioInv' /\ DeliverStep
<1>1. PICK S : radio \in [Devices -> RadioRecord(S)]
  BY DEF RadioInv, RadioTypes
<1>2. radio' = [radio EXCEPT ![x].group = g] /\ cursor' = cursor
  BY DEF SetRadioGroup
<1>3. \A r \in RadioRecord(S) : r \in RadioRecord(S \cup {g})
  BY SeqMonotonic DEF RadioRecord
<1>4. ASSUME NEW r \in RadioRecord(S)
      PROVE  /\ [r EXCEPT !.group = g] \in RadioRecord(S \cup {g})
             /\ [r EXCEPT !.group = g].ring = r.ring /\ [r EXCEPT !.group = g].last = r.last
  <2>1. r \in RadioRecord(S \cup {g})
    BY <1>3
  <2> QED
    BY <2>1 DEF RadioRecord
<1>5. radio' = [radio EXCEPT ![x] = [radio[x] EXCEPT !.group = g]]
  BY <1>2
<1>6. ASSUME NEW d \in Devices
      PROVE  /\ radio'[d] \in RadioRecord(S \cup {g})
             /\ radio'[d].ring = radio[d].ring /\ radio'[d].last = radio[d].last
  <2>1. CASE d = x
    <3>1. radio'[d] = [radio[x] EXCEPT !.group = g]
      BY <1>1, <1>5, <2>1
    <3> QED
      BY <1>1, <1>4, <2>1, <3>1
  <2>2. CASE d # x
    BY <1>1, <1>3, <1>5, <2>2
  <2> QED
    BY <2>1, <2>2
<1>7. radio' \in [Devices -> RadioRecord(S \cup {g})]
  BY <1>1, <1>5, <1>6
<1>8. RadioTypes'
  BY <1>2, <1>7 DEF RadioTypes, RadioInv
<1>9. \A d \in Devices : SoundRing(radio'[d]) /\ SoundCursors(d)' /\ Foreign(d, radio'[d])
  BY <1>2, <1>6 DEF RadioInv, SoundRing, SoundCursors, Foreign
<1> QED
  BY <1>6, <1>8, <1>9 DEF RadioInv, DeliverStep

(* Arming a cursor, taking the next packet or all of them, entering a page. *)
LEMMA ReceiveKeeps ==
    ASSUME RadioInv, NEW d \in Devices,
           (\E s \in Sites : Receive(d, s)) \/ ReceiveBatch(d) \/ EnterPage(d)
    PROVE  RadioInv' /\ DeliverStep
<1>1. radio' = radio /\ radio[d].last \in Nat
  BY DEF Receive, ReceiveBatch, EnterPage, RadioInv, RadioTypes, RadioRecord
<1>2. cursor \in [Devices -> [Sites -> CursorRecord]]
  BY DEF RadioInv, RadioTypes
<1>3. \A e \in Devices, s \in Sites : cursor[e][s].at <= radio[e].last
  BY DEF RadioInv, SoundCursors
<1>4. ASSUME NEW s \in Sites, NEW c \in CursorRecord, c.at <= radio[d].last,
             cursor' = [cursor EXCEPT ![d][s] = c]
      PROVE  RadioInv' /\ DeliverStep
  <2>1. cursor' \in [Devices -> [Sites -> CursorRecord]]
    BY <1>2, <1>4
  <2>2. \A e \in Devices, t \in Sites :
           cursor'[e][t] = IF e = d /\ t = s THEN c ELSE cursor[e][t]
    BY <1>2, <1>4
  <2>3. \A e \in Devices, t \in Sites : cursor'[e][t].at <= radio[e].last
    BY <1>3, <1>4, <2>2
  <2> QED
    BY <1>1, <2>1, <2>3, CursorsKeep
<1>5. ASSUME NEW s \in Sites, NEW n \in Nat, n <= radio[d].last,
             cursor' = [cursor EXCEPT ![d][s].at = n]
      PROVE  RadioInv' /\ DeliverStep
  <2>1. cursor' = [cursor EXCEPT ![d][s] = [cursor[d][s] EXCEPT !.at = n]]
    BY <1>2, <1>5
  <2>2. /\ [cursor[d][s] EXCEPT !.at = n] \in CursorRecord
        /\ [cursor[d][s] EXCEPT !.at = n].at = n
    BY <1>2 DEF CursorRecord
  <2> DEFINE c == [cursor[d][s] EXCEPT !.at = n]
  <2>3. c \in CursorRecord /\ c.at <= radio[d].last /\ cursor' = [cursor EXCEPT ![d][s] = c]
    BY <1>5, <2>1, <2>2
  <2> HIDE DEF c
  <2> QED
    BY <1>4, <2>3
<1>6. ASSUME NEW s \in Sites,
             cursor' = [cursor EXCEPT ![d][s] = [armed |-> TRUE, at |-> radio[d].last]]
      PROVE  RadioInv' /\ DeliverStep
  <2>1. [armed |-> TRUE, at |-> radio[d].last] \in CursorRecord
    BY <1>1 DEF CursorRecord
  <2> DEFINE c == [armed |-> TRUE, at |-> radio[d].last]
  <2>2. c \in CursorRecord /\ c.at <= radio[d].last /\ cursor' = [cursor EXCEPT ![d][s] = c]
    BY <1>1, <1>6, <2>1
  <2> HIDE DEF c
  <2> QED
    BY <1>4, <2>2
<1>7. CASE \E s \in Sites : Receive(d, s)
  BY <1>5, <1>6, <1>7, TakenFromRing DEF Receive
<1>8. CASE ReceiveBatch(d)
  BY <1>5, <1>6, <1>8, TakenFromRing DEF ReceiveBatch
<1>9. CASE EnterPage(d)
  <2> DEFINE fresh == [s \in Sites |-> IF s = "batch" THEN cursor[d][s] ELSE Unarmed[s]]
  <2>1. cursor' = [cursor EXCEPT ![d] = fresh]
    BY <1>9 DEF EnterPage
  <2>2. \A s \in Sites : Unarmed[s] \in CursorRecord /\ Unarmed[s].at = 0
    BY DEF Unarmed, CursorRecord
  <2>3. fresh \in [Sites -> CursorRecord] /\ \A s \in Sites : fresh[s].at <= radio[d].last
    BY <1>1, <1>2, <1>3, <2>2
  <2> HIDE DEF fresh
  <2>4. cursor' \in [Devices -> [Sites -> CursorRecord]]
    BY <1>2, <2>1, <2>3
  <2>5. \A e \in Devices, s \in Sites : cursor'[e][s].at <= radio[e].last
    BY <1>2, <1>3, <2>1, <2>3
  <2> QED
    BY <1>1, <2>4, <2>5, CursorsKeep
<1> QED
  BY <1>7, <1>8, <1>9

LEMMA FleetStep ==
    ASSUME RadioInv, [Next]_vars
    PROVE  RadioInv' /\ DeliverStep
<1>1. ASSUME NEW d \in Devices, AddInstance(d) \/ Flash(d) \/ Unflash(d)
      PROVE  RadioInv' /\ DeliverStep
  BY <1>1, ResetKeeps DEF AddInstance, Flash, Unflash
<1>2. ASSUME NEW d \in Devices, RemoveInstance(d) \/ \E p \in Sent : RadioSend(d, p)
      PROVE  RadioInv' /\ DeliverStep
  BY <1>2, IdleKeeps DEF RemoveInstance, RadioSend
<1>3. CASE StartDriver \/ StopDriver \/ BeginFrame \/ EndThink \/ EndFrame
  BY <1>3, IdleKeeps DEF StartDriver, StopDriver, BeginFrame, EndThink, EndFrame
<1>4. CASE UNCHANGED vars
  BY <1>4, IdleKeeps DEF vars
<1> QED
  BY <1>1, <1>2, <1>3, <1>4, TransmitKeeps, GroupKeeps, ReceiveKeeps DEF Next

LEMMA InitFleet == Init => RadioInv
<1> SUFFICES ASSUME Init PROVE RadioInv
  OBVIOUS
<1>1. radio = [d \in Devices |-> PowerOn] /\ cursor = [d \in Devices |-> Unarmed]
  BY DEF Init
<1>2. PowerOn \in RadioRecord({Default}) /\ PowerOn.last = 0 /\ PowerOn.ring = << >>
  BY EmptySeq DEF PowerOn, RadioRecord
<1>3. Unarmed \in [Sites -> CursorRecord] /\ \A s \in Sites : Unarmed[s].at = 0
  BY DEF Unarmed, CursorRecord
<1>4. RadioTypes
  BY <1>1, <1>2, <1>3 DEF RadioTypes
<1>5. DOMAIN PowerOn.ring = {} /\ Len(PowerOn.ring) = 0
  BY <1>2
<1>6. SoundRing(PowerOn) /\ \A d : Foreign(d, PowerOn)
  BY <1>2, <1>5, FleetAssumption DEF SoundRing, Foreign
<1> QED
  BY <1>1, <1>2, <1>3, <1>4, <1>6 DEF RadioInv, SoundCursors

LEMMA FleetInvariant == Spec => []RadioInv
  BY InitFleet, FleetStep, PTL DEF Spec

(* Radio.deliver: a ring holds the latest packets, at most Depth, without a *)
(* gap, and no cursor is ahead of it.                                      *)
THEOREM RingsAreSound == Spec => []RingSound
<1>1. RadioInv => RingSound
  BY DEF RadioInv, RingSound, SoundRing, SoundCursors
<1> QED
  BY FleetInvariant, <1>1, PTL

(* SharedMedium.transmit: no device receives what it sent.                 *)
THEOREM NoneHearsItself == Spec => []NotOwn
<1>1. RadioInv => NotOwn
  BY DEF RadioInv, NotOwn, Foreign
<1> QED
  BY FleetInvariant, <1>1, PTL

(* tick: what is sent in a frame reaches nobody before the frame is over.   *)
THEOREM DeliveredNextThink == Spec => NextThink
<1>1. RadioInv /\ [Next]_vars => [DeliverStep]_vars
  BY FleetStep
<1> QED
  BY FleetInvariant, <1>1, PTL DEF Spec, NextThink, DeliverStep

-----------------------------------------------------------------------------
(* The readers, as queues.                                                  *)

Increasing(q) == \A i, j \in DOMAIN q : i < j => q[i] < q[j]
Values(q) == {q[i] : i \in DOMAIN q}

(* Two increasing sequences of the same numbers are the same.               *)
LEMMA IncreasingUnique ==
    ASSUME NEW p \in Seq(Nat), NEW q \in Seq(Nat), Increasing(p), Increasing(q), Values(p) = Values(q)
    PROVE  p = q
<1>1. /\ Len(p) \in Nat /\ DOMAIN p = 1..Len(p) /\ \A i \in 1..Len(p) : p[i] \in Nat
      /\ Len(q) \in Nat /\ DOMAIN q = 1..Len(q) /\ \A i \in 1..Len(q) : q[i] \in Nat
  OBVIOUS
<1> DEFINE Differ == {i \in Nat : i > 0 /\ (i \in DOMAIN p \/ i \in DOMAIN q)
                                    /\ ~(i \in DOMAIN p /\ i \in DOMAIN q /\ p[i] = q[i])}
<1>2. Differ = {}
  <2> SUFFICES ASSUME Differ # {} PROVE FALSE
    OBVIOUS
  <2>1. PICK i \in Differ : \A j \in Differ : i <= j
    BY LeastNatural
  <2>2. \A j \in 1..(i - 1) : (j \in DOMAIN p <=> j \in DOMAIN q) /\ (j \in DOMAIN p => p[j] = q[j])
    BY <2>1
  <2>3. ASSUME i \in DOMAIN p PROVE FALSE
    <3>1. PICK j \in DOMAIN q : q[j] = p[i]
      BY <2>3 DEF Values
    <3>2. CASE j < i
      <4>1. j \in DOMAIN p /\ p[j] = q[j]
        BY <1>1, <2>1, <2>2, <3>1, <3>2
      <4>2. p[j] < p[i]
        BY <2>3, <3>2, <4>1 DEF Increasing
      <4> QED
        BY <1>1, <2>3, <3>1, <4>1, <4>2
    <3>3. CASE j = i
      BY <2>1, <2>3, <3>1, <3>3
    <3>4. CASE i < j
      <4>1. i \in DOMAIN q /\ q[i] < q[j]
        BY <1>1, <2>3, <3>1, <3>4 DEF Increasing
      <4>2. PICK k \in DOMAIN p : p[k] = q[i]
        BY <4>1 DEF Values
      <4>3. CASE k < i
        <5>1. p[k] = q[k] /\ k \in DOMAIN q
          BY <1>1, <2>1, <2>2, <4>2, <4>3
        <5>2. q[k] < q[i]
          BY <4>1, <4>3, <5>1 DEF Increasing
        <5> QED
          BY <1>1, <4>1, <4>2, <5>1, <5>2
      <4>4. CASE k >= i
        <5>1. k = i \/ p[i] < p[k]
          BY <1>1, <2>3, <4>2, <4>4 DEF Increasing
        <5> QED
          BY <1>1, <2>3, <3>1, <4>1, <4>2, <5>1
      <4> QED
        BY <1>1, <2>3, <4>2, <4>3, <4>4
    <3> QED
      BY <1>1, <2>3, <3>1, <3>2, <3>3, <3>4
  <2>4. i \in DOMAIN q /\ i \notin DOMAIN p
    BY <2>1, <2>3
  <2>5. PICK k \in DOMAIN p : p[k] = q[i]
    BY <2>4 DEF Values
  <2>6. k < i /\ k \in DOMAIN q /\ p[k] = q[k]
    <3>1. k < i /\ k \in 1..(i - 1)
      BY <1>1, <2>1, <2>4, <2>5
    <3> QED
      BY <2>2, <2>5, <3>1
  <2>7. q[k] < q[i]
    BY <2>4, <2>6 DEF Increasing
  <2>8. q[k] = q[i] /\ q[i] \in Nat
    BY <1>1, <2>4, <2>5, <2>6
  <2> QED
    BY <2>7, <2>8
<1>3. ASSUME NEW i \in 1..Len(p) PROVE i \in DOMAIN q /\ p[i] = q[i]
  <2>1. i \in Nat /\ i > 0 /\ i \in DOMAIN p
    BY <1>1
  <2>2. i \notin Differ
    BY <1>2
  <2> QED
    BY <2>1, <2>2
<1>4. ASSUME NEW i \in 1..Len(q) PROVE i \in DOMAIN p
  <2>1. i \in Nat /\ i > 0 /\ i \in DOMAIN q
    BY <1>1
  <2>2. i \notin Differ
    BY <1>2
  <2> QED
    BY <2>1, <2>2
<1>5. Len(p) = Len(q)
  <2> DEFINE m == Len(p)
             n == Len(q)
  <2>1. m \in Nat /\ n \in Nat
    BY <1>1
  <2>2. \A i \in 1..m : i \in 1..n
    BY <1>1, <1>3
  <2>3. \A i \in 1..n : i \in 1..m
    BY <1>1, <1>4
  <2> HIDE DEF m, n
  <2>4. (m > 0 => m \in 1..m) /\ (n > 0 => n \in 1..n)
    BY <2>1
  <2>5. m > 0 => m <= n
    BY <2>1, <2>2, <2>4
  <2>5a. n > 0 => n <= m
    BY <2>1, <2>3, <2>4
  <2>6. m = n
    BY <2>1, <2>5, <2>5a
  <2> QED
    BY <2>6 DEF m, n
<1> QED
  BY <1>1, <1>3, <1>5, SeqEqual

(* What is left of an increasing sequence without its first k entries.      *)
LEMMA OldestFacts ==
    ASSUME NEW q \in Seq(Nat), Increasing(q), NEW k \in 0..Len(q)
    PROVE  LET rest == SubSeq(q, k + 1, Len(q)) IN
           /\ rest \in Seq(Nat) /\ Increasing(rest) /\ Len(rest) = Len(q) - k
           /\ Values(rest) = {q[i] : i \in (k + 1)..Len(q)}
<1> DEFINE n == Len(q)
           rest == SubSeq(q, k + 1, n)
<1>1. n \in Nat /\ DOMAIN q = 1..n /\ k \in Nat /\ k <= n
  OBVIOUS
<1>1a. \A i \in 1..n : q[i] \in Nat
  OBVIOUS
<1>2. /\ rest \in Seq(Nat) /\ Len(rest) = n - k
      /\ \A i \in 1..(n - k) : rest[i] = q[k + i]
  <2>1. \A i \in (k + 1)..n : q[i] \in Nat
    BY <1>1, <1>1a
  <2>2. k + 1 \in Int /\ n \in Int
    BY <1>1
  <2>3. /\ rest \in Seq(Nat) /\ Len(rest) = IF k + 1 <= n THEN n - (k + 1) + 1 ELSE 0
        /\ \A i \in 1..(n - (k + 1) + 1) : rest[i] = q[(k + 1) + i - 1]
    <3> HIDE DEF n
    <3> QED
      BY <2>1, <2>2, SubSeqProperties
  <2> HIDE DEF rest, n
  <2>4. n - (k + 1) + 1 = n - k /\ (k + 1 > n => n - k = 0)
    BY <1>1
  <2>5. \A i \in 1..(n - k) : (k + 1) + i - 1 = k + i
    BY <1>1
  <2>6. rest \in Seq(Nat) /\ Len(rest) = n - k
    BY <1>1, <2>3, <2>4
  <2>7. \A i \in 1..(n - k) : rest[i] = q[k + i]
    <3> TAKE i \in 1..(n - k)
    <3>1. i \in 1..(n - (k + 1) + 1)
      BY <2>4
    <3>2. rest[i] = q[(k + 1) + i - 1]
      BY <2>3, <3>1
    <3> QED
      BY <2>5, <3>2
  <2> QED
    BY <2>6, <2>7
<1> HIDE DEF rest, n
<1>3. DOMAIN rest = 1..(n - k)
  BY <1>1, <1>2
<1>4. Increasing(rest)
  <2> SUFFICES ASSUME NEW i \in DOMAIN rest, NEW j \in DOMAIN rest, i < j PROVE rest[i] < rest[j]
    BY DEF Increasing
  <2>0. i \in 1..(n - k) /\ j \in 1..(n - k)
    BY <1>3
  <2>1. k + i \in DOMAIN q /\ k + j \in DOMAIN q /\ k + i < k + j
    BY <1>1, <2>0
  <2>2. q[k + i] < q[k + j]
    BY <2>1 DEF Increasing
  <2>3. rest[i] = q[k + i] /\ rest[j] = q[k + j]
    BY <1>2, <2>0
  <2> QED
    BY <2>2, <2>3
<1>5. Values(rest) = {q[i] : i \in (k + 1)..n}
  <2>1. \A i \in DOMAIN rest : k + i \in (k + 1)..n /\ rest[i] = q[k + i]
    BY <1>1, <1>2, <1>3
  <2>2. \A i \in (k + 1)..n : i - k \in DOMAIN rest /\ k + (i - k) = i
    BY <1>1, <1>3
  <2>3. \A i \in (k + 1)..n : rest[i - k] = q[i]
    BY <1>2, <1>3, <2>2
  <2> QED
    BY <2>1, <2>2, <2>3 DEF Values
<1> QED
  BY <1>2, <1>4, <1>5 DEF rest, n

LEMMA AppendedFacts ==
    ASSUME NEW q \in Seq(Nat), Increasing(q), NEW n \in Nat, \A x \in Values(q) : x < n
    PROVE  /\ Append(q, n) \in Seq(Nat) /\ Increasing(Append(q, n))
           /\ Values(Append(q, n)) = Values(q) \cup {n} /\ Len(Append(q, n)) = Len(q) + 1
<1>1. Len(q) \in Nat /\ DOMAIN q = 1..Len(q) /\ \A i \in 1..Len(q) : q[i] \in Nat
  OBVIOUS
<1>2. /\ Append(q, n) \in Seq(Nat) /\ Len(Append(q, n)) = Len(q) + 1 /\ Append(q, n)[Len(q) + 1] = n
      /\ \A i \in 1..Len(q) : Append(q, n)[i] = q[i]
  OBVIOUS
<1>3. DOMAIN Append(q, n) = 1..(Len(q) + 1)
  BY <1>1, <1>2
<1>4. \A i \in 1..(Len(q) + 1) : i \in 1..Len(q) \/ i = Len(q) + 1
  BY <1>1
<1>5. Increasing(Append(q, n))
  <2> SUFFICES ASSUME NEW i \in 1..(Len(q) + 1), NEW j \in 1..(Len(q) + 1), i < j
               PROVE  Append(q, n)[i] < Append(q, n)[j]
    BY <1>3 DEF Increasing
  <2>1. i \in 1..Len(q)
    BY <1>1
  <2>2. CASE j = Len(q) + 1
    BY <1>1, <1>2, <2>1, <2>2 DEF Values
  <2>3. CASE j \in 1..Len(q)
    BY <1>1, <1>2, <2>1, <2>3 DEF Increasing
  <2> QED
    BY <1>4, <2>2, <2>3
<1>6. Values(Append(q, n)) = Values(q) \cup {n}
  <2>1. Len(q) + 1 \in 1..(Len(q) + 1) /\ 1..Len(q) \subseteq 1..(Len(q) + 1)
    BY <1>1
  <2> QED
    BY <1>1, <1>2, <1>3, <1>4, <2>1 DEF Values
<1> QED
  BY <1>2, <1>5, <1>6

(* The queue after its least entry has gone, and one has come at its end.   *)
LEMMA LeastGone ==
    ASSUME NEW q \in Seq(Nat), Increasing(q), NEW m, m \in Values(q), \A x \in Values(q) : m <= x
    PROVE  /\ 1 \in DOMAIN q /\ q[1] = m
           /\ Values(SubSeq(q, 2, Len(q))) = Values(q) \ {m}
           /\ SubSeq(q, 2, Len(q)) \in Seq(Nat) /\ Increasing(SubSeq(q, 2, Len(q)))
<1>1. Len(q) \in Nat /\ DOMAIN q = 1..Len(q) /\ \A i \in 1..Len(q) : q[i] \in Nat
  OBVIOUS
<1>2. PICK i \in DOMAIN q : q[i] = m
  BY DEF Values
<1>3. 1 \in DOMAIN q
  BY <1>1, <1>2
<1>4. i = 1
  <2>1. m <= q[1]
    BY <1>3 DEF Values
  <2>2. i > 1 => q[1] < q[i]
    BY <1>2, <1>3 DEF Increasing
  <2> QED
    BY <1>1, <1>2, <1>3, <2>1, <2>2
<1>5. /\ SubSeq(q, 2, Len(q)) \in Seq(Nat) /\ Increasing(SubSeq(q, 2, Len(q)))
      /\ Values(SubSeq(q, 2, Len(q))) = {q[j] : j \in 2..Len(q)}
  <2>1. 1 \in 0..Len(q) /\ 1 + 1 = 2
    BY <1>1, <1>3
  <2> QED
    BY <2>1, OldestFacts
<1>6. {q[j] : j \in 2..Len(q)} = Values(q) \ {m}
  <2>1. \A j \in 2..Len(q) : j \in DOMAIN q /\ q[j] # m
    BY <1>1, <1>2, <1>3, <1>4 DEF Increasing
  <2>2. \A j \in DOMAIN q : q[j] # m => j \in 2..Len(q)
    BY <1>1, <1>2, <1>4
  <2> QED
    BY <2>1, <2>2 DEF Values
<1> QED
  BY <1>2, <1>3, <1>4, <1>5, <1>6
(* The last entry of an increasing sequence is its greatest.                *)
LEMMA GreatestLast ==
    ASSUME NEW q \in Seq(Nat), Increasing(q), NEW m, m \in Values(q), \A x \in Values(q) : m >= x
    PROVE  Len(q) \in DOMAIN q /\ q[Len(q)] = m
<1> DEFINE n == Len(q)
<1>1. n \in Nat /\ DOMAIN q = 1..n
  OBVIOUS
<1>1a. \A i \in 1..n : q[i] \in Nat
  OBVIOUS
<1> HIDE DEF n
<1>2. PICK i \in DOMAIN q : q[i] = m
  BY DEF Values
<1>3. n \in DOMAIN q
  BY <1>1, <1>2
<1>4. m >= q[n]
  BY <1>3 DEF Values
<1>5. i < n => q[i] < q[n]
  BY <1>2, <1>3 DEF Increasing
<1>6. i = n
  BY <1>1, <1>1a, <1>2, <1>3, <1>4, <1>5
<1> QED
  BY <1>2, <1>3, <1>6 DEF n

(* The recursive function that Numbers defines, over a prefix of a ring.    *)
NumberSteps(ring, P, K, m) ==
    K = [n \in 0..m |->
            IF n = 0 THEN <<>>
            ELSE IF n \in P THEN Append(K[n - 1], ring[n].seq) ELSE K[n - 1]]

LEMMA NumbersExist ==
    ASSUME NEW ring, Len(ring) \in Nat, NEW P
    PROVE  \E K : NumberSteps(ring, P, K, Len(ring)) /\ Numbers(ring, P) = K[Len(ring)]
<1> DEFINE Failing == {m \in Nat : ~ \E K : NumberSteps(ring, P, K, m)}
<1>1. Failing = {}
  <2> SUFFICES ASSUME Failing # {} PROVE FALSE
    OBVIOUS
  <2>1. PICK m \in Failing : \A k \in Failing : m <= k
    BY LeastNatural
  <2>2. CASE m = 0
    <3> DEFINE K == [n \in 0..0 |-> <<>>]
    <3>1. NumberSteps(ring, P, K, 0)
      BY DEF NumberSteps
    <3> QED
      BY <3>1, <2>2, <2>1
  <2>3. CASE m # 0
    <3>1. m \in Nat /\ m - 1 \in Nat /\ m - 1 \notin Failing
      BY <2>1, <2>3
    <3>2. PICK L : NumberSteps(ring, P, L, m - 1)
      BY <3>1
    <3> DEFINE K == [n \in 0..m |->
                       IF n < m THEN L[n]
                       ELSE IF n \in P THEN Append(L[n - 1], ring[n].seq) ELSE L[n - 1]]
    <3>3. \A n \in 0..m : n # 0 => n - 1 \in 0..(m - 1) /\ n - 1 < m /\ K[n - 1] = L[n - 1]
      BY <3>1
    <3>4. \A n \in 0..m : K[n] = IF n = 0 THEN <<>>
                                 ELSE IF n \in P THEN Append(K[n - 1], ring[n].seq) ELSE K[n - 1]
      <4> SUFFICES ASSUME NEW n \in 0..m
                   PROVE  K[n] = IF n = 0 THEN <<>>
                                 ELSE IF n \in P THEN Append(K[n - 1], ring[n].seq) ELSE K[n - 1]
        OBVIOUS
      <4>1. CASE n = m
        BY <4>1, <3>1, <3>3, <2>3
      <4>2. CASE n # m
        <5>1. n \in 0..(m - 1) /\ n < m
          BY <4>2, <3>1
        <5>2. L[n] = IF n = 0 THEN <<>>
                     ELSE IF n \in P THEN Append(L[n - 1], ring[n].seq) ELSE L[n - 1]
          BY <5>1, <3>2 DEF NumberSteps
        <5> QED
          BY <5>1, <5>2, <3>3
      <4> QED
        BY <4>1, <4>2
    <3>5. NumberSteps(ring, P, K, m)
      BY <3>4 DEF NumberSteps
    <3> QED
      BY <3>5, <2>1
  <2> QED
    BY <2>2, <2>3
<1>2. PICK K : NumberSteps(ring, P, K, Len(ring))
  BY <1>1
<1> QED
  BY <1>2 DEF Numbers, NumberSteps

(* The numbers at the places P of a ring whose numbers increase.            *)
LEMMA NumbersFacts ==
    ASSUME NEW ring, Len(ring) \in Nat, NEW P,
           \A i \in 1..Len(ring) : ring[i].seq \in Nat,
           \A i, j \in 1..Len(ring) : i < j => ring[i].seq < ring[j].seq
    PROVE  /\ Numbers(ring, P) \in Seq(Nat) /\ Increasing(Numbers(ring, P))
           /\ Values(Numbers(ring, P)) = {ring[i].seq : i \in P \cap (1..Len(ring))}
           /\ Len(Numbers(ring, P)) <= Len(ring)
<1> DEFINE N == Len(ring)
           First(m) == {ring[i].seq : i \in P \cap (1..m)}
           Good(k, m) == k \in Seq(Nat) /\ Increasing(k) /\ Values(k) = First(m) /\ Len(k) <= m
<1>1. N \in Nat
  OBVIOUS
<1>2. PICK K : NumberSteps(ring, P, K, N) /\ Numbers(ring, P) = K[N]
  BY <1>1, NumbersExist
<1> HIDE DEF N
<1>3. K[0] = <<>>
  BY <1>1, <1>2 DEF NumberSteps
<1>4. \A m \in 1..N : K[m] = IF m \in P THEN Append(K[m - 1], ring[m].seq) ELSE K[m - 1]
  <2>1. \A n \in 0..N :
           K[n] = IF n = 0 THEN <<>>
                  ELSE IF n \in P THEN Append(K[n - 1], ring[n].seq) ELSE K[n - 1]
    BY <1>2 DEF NumberSteps
  <2>2. \A m \in 1..N : m \in 0..N /\ m # 0
    BY <1>1
  <2> QED
    BY <2>1, <2>2
<1>5. Good(<<>>, 0)
  <2>1. <<>> \in Seq(Nat) /\ DOMAIN <<>> = {} /\ Len(<<>>) = 0
    OBVIOUS
  <2> QED
    BY <2>1 DEF Increasing, Values
<1>6. ASSUME NEW m \in 1..N, NEW k, Good(k, m - 1), m \notin P
      PROVE  Good(k, m)
  <2>1. P \cap (1..m) = P \cap (1..(m - 1))
    BY <1>1, <1>6
  <2>2. Len(k) <= m
    BY <1>1, <1>6
  <2> QED
    BY <1>6, <2>1, <2>2
<1>7. ASSUME NEW m \in 1..N, NEW k, Good(k, m - 1), m \in P
      PROVE  Good(Append(k, ring[m].seq), m)
  <2>1. First(m) = First(m - 1) \cup {ring[m].seq}
    <3>1. P \cap (1..m) = (P \cap (1..(m - 1))) \cup {m}
      BY <1>1, <1>7
    <3> QED
      BY <3>1
  <2>2. k \in Seq(Nat) /\ Increasing(k) /\ Values(k) = First(m - 1) /\ Len(k) <= m - 1 /\ ring[m].seq \in Nat
    BY <1>7 DEF N
  <2>3. \A x \in Values(k) : x < ring[m].seq
    <3>1. \A i \in 1..(m - 1) : i \in 1..N /\ i < m
      BY <1>1
    <3> QED
      BY <2>2, <3>1 DEF N
  <2> HIDE DEF First
  <2>4. /\ Append(k, ring[m].seq) \in Seq(Nat) /\ Increasing(Append(k, ring[m].seq))
        /\ Values(Append(k, ring[m].seq)) = Values(k) \cup {ring[m].seq}
        /\ Len(Append(k, ring[m].seq)) = Len(k) + 1
    BY <2>2, <2>3, AppendedFacts
  <2>5. Len(Append(k, ring[m].seq)) <= m
    <3>1. Len(k) \in Nat
      BY <2>2
    <3> QED
      BY <1>1, <2>2, <2>4, <3>1
  <2> QED
    BY <2>1, <2>2, <2>4, <2>5
<1>8. \A m \in 0..N : Good(K[m], m)
  <2> DEFINE Failing == {m \in 0..N : ~ Good(K[m], m)}
  <2> SUFFICES ASSUME Failing # {} PROVE FALSE
    OBVIOUS
  <2> HIDE DEF Good
  <2>1. PICK m \in Failing : \A i \in Failing : m <= i
    <3>1. Failing \in SUBSET Nat
      BY <1>1
    <3> QED
      BY <3>1, LeastNatural
  <2>2. m # 0
    BY <1>3, <1>5, <2>1
  <2>3. m \in 1..N /\ m - 1 \in 0..N /\ m - 1 \notin Failing
    BY <1>1, <2>1, <2>2
  <2>4. Good(K[m - 1], m - 1)
    BY <2>3
  <2> QED
    BY <1>4, <1>6, <1>7, <2>1, <2>3, <2>4
<1>9. Good(K[N], N)
  <2>1. N \in 0..N
    BY <1>1
  <2> HIDE DEF Good
  <2> QED
    BY <1>8, <2>1
<1> QED
  BY <1>2, <1>9 DEF N
-----------------------------------------------------------------------------
(* What a site with cursor c wants of a radio r, as a set and as a queue.   *)
Wants(r, c, s) == {i \in DOMAIN r.ring : r.ring[i].seq > c.at /\ Matches(s, r.ring[i].type)}
Due(r, c, s) == {r.ring[i].seq : i \in Wants(r, c, s)}
Queue(r, c, s) == IF c.armed THEN Numbers(r.ring, Wants(r, c, s)) ELSE <<>>

LEMMA UnreadIsQueue ==
    ASSUME NEW d, NEW s
    PROVE  Unread(d, s) = Queue(radio[d], cursor[d][s], s) /\ Candidates(d, s) = Wants(radio[d], cursor[d][s], s)
  BY DEF Unread, Queue, Candidates, Wants

LEMMA RingFacts ==
    ASSUME NEW S, NEW r \in RadioRecord(S), SoundRing(r)
    PROVE  /\ Len(r.ring) \in Nat /\ DOMAIN r.ring = 1..Len(r.ring) /\ r.last \in Nat /\ Len(r.ring) <= r.last
           /\ \A i \in 1..Len(r.ring) : r.ring[i].seq \in Nat /\ r.ring[i].seq <= r.last
           /\ \A i, j \in 1..Len(r.ring) : i < j => r.ring[i].seq < r.ring[j].seq
<1> DEFINE n == Len(r.ring)
<1>1. r.ring \in Seq(S) /\ r.last \in Nat
  BY DEF RadioRecord
<1>2. n \in Nat /\ DOMAIN r.ring = 1..n
  BY <1>1, LenProperties
<1>3. n <= r.last /\ \A i \in 1..n : r.ring[i].seq = r.last - n + i
  BY <1>2 DEF SoundRing
<1> HIDE DEF n
<1>4. \A i \in 1..n : r.last - n + i \in Nat /\ r.last - n + i <= r.last
  BY <1>1, <1>2, <1>3
<1>5. \A i, j \in 1..n : i < j => r.last - n + i < r.last - n + j
  BY <1>1, <1>2
<1> QED
  BY <1>1, <1>2, <1>3, <1>4, <1>5 DEF n

LEMMA QueueFacts ==
    ASSUME NEW S, NEW r \in RadioRecord(S), SoundRing(r), NEW c, NEW s
    PROVE  /\ Queue(r, c, s) \in Seq(Nat) /\ Increasing(Queue(r, c, s))
           /\ c.armed => Values(Queue(r, c, s)) = Due(r, c, s) /\ Len(Queue(r, c, s)) <= Len(r.ring)
<1>1. CASE ~c.armed
  <2>1. <<>> \in Seq(Nat) /\ DOMAIN <<>> = {}
    OBVIOUS
  <2>2. Queue(r, c, s) = <<>>
    BY <1>1 DEF Queue
  <2>3. Increasing(<<>>)
    BY <2>1 DEF Increasing
  <2> QED
    BY <1>1, <2>1, <2>2, <2>3
<1>2. CASE c.armed
  <2> DEFINE P == Wants(r, c, s)
  <2>1. P \cap (1..Len(r.ring)) = P
    BY RingFacts DEF Wants
  <2> HIDE DEF P
  <2>2. /\ Len(r.ring) \in Nat
        /\ \A i \in 1..Len(r.ring) : r.ring[i].seq \in Nat
        /\ \A i, j \in 1..Len(r.ring) : i < j => r.ring[i].seq < r.ring[j].seq
    BY RingFacts
  <2>3. /\ Numbers(r.ring, P) \in Seq(Nat) /\ Increasing(Numbers(r.ring, P))
        /\ Values(Numbers(r.ring, P)) = {r.ring[i].seq : i \in P \cap (1..Len(r.ring))}
        /\ Len(Numbers(r.ring, P)) <= Len(r.ring)
    BY <2>2, NumbersFacts
  <2>4. Queue(r, c, s) = Numbers(r.ring, P)
    BY <1>2 DEF Queue, P
  <2> QED
    BY <2>1, <2>3, <2>4 DEF Due, P
<1> QED
  BY <1>1, <1>2

(* A site takes the least number it wants: the head of its queue.           *)
LEMMA TakeOne ==
    ASSUME NEW S, NEW r \in RadioRecord(S), SoundRing(r), NEW c, c.armed, NEW s,
           NEW i \in Wants(r, c, s), \A j \in Wants(r, c, s) : i <= j,
           NEW c2, c2.armed, c2.at = r.ring[i].seq, c.at \in Nat
    PROVE  LET q == Queue(r, c, s) IN
           q # <<>> /\ q[1] = c2.at /\ Queue(r, c2, s) = SubSeq(q, 2, Len(q))
<1> DEFINE q == Queue(r, c, s)
           q2 == Queue(r, c2, s)
           m == r.ring[i].seq
<1>1. q \in Seq(Nat) /\ Increasing(q) /\ Values(q) = Due(r, c, s)
  BY QueueFacts
<1>2. q2 \in Seq(Nat) /\ Increasing(q2) /\ Values(q2) = Due(r, c2, s)
  BY QueueFacts
<1>3. /\ Len(r.ring) \in Nat /\ DOMAIN r.ring = 1..Len(r.ring)
      /\ \A j \in 1..Len(r.ring) : r.ring[j].seq \in Nat
      /\ \A j, k \in 1..Len(r.ring) : j < k => r.ring[j].seq < r.ring[k].seq
  BY RingFacts
<1>4. Wants(r, c, s) \subseteq 1..Len(r.ring)
  BY <1>3 DEF Wants
<1>5. \A j \in Wants(r, c, s) : j = i \/ m < r.ring[j].seq
  BY <1>3, <1>4
<1>6. m \in Values(q) /\ m \in Nat /\ \A x \in Values(q) : m <= x
  BY <1>1, <1>3, <1>4, <1>5 DEF Due
<1>7. Wants(r, c2, s) = Wants(r, c, s) \ {i}
  <2>1. m > c.at
    BY DEF Wants
  <2>2. \A j \in 1..Len(r.ring) : r.ring[j].seq > m => r.ring[j].seq > c.at
    BY <1>3, <1>6, <2>1
  <2>3. \A j \in Wants(r, c, s) : j # i => r.ring[j].seq > m
    BY <1>3, <1>4, <1>5, <1>6
  <2>4. ~(m > m)
    BY <1>6
  <2> QED
    BY <1>3, <2>2, <2>3, <2>4 DEF Wants
<1>8. Due(r, c2, s) = Due(r, c, s) \ {m}
  <2>1. \A j \in Wants(r, c, s) : j # i => r.ring[j].seq # m
    BY <1>3, <1>4, <1>5, <1>6
  <2> QED
    BY <1>7, <2>1 DEF Due
<1> HIDE DEF q, q2, m
<1>9. /\ 1 \in DOMAIN q /\ q[1] = m
      /\ Values(SubSeq(q, 2, Len(q))) = Values(q) \ {m}
      /\ SubSeq(q, 2, Len(q)) \in Seq(Nat) /\ Increasing(SubSeq(q, 2, Len(q)))
  BY <1>1, <1>6, LeastGone
<1>10. q2 = SubSeq(q, 2, Len(q))
  BY <1>1, <1>2, <1>8, <1>9, IncreasingUnique
<1> QED
  BY <1>9, <1>10 DEF q, q2, m

(* User code takes everything it wants, up to the greatest number.          *)
LEMMA TakeAll ==
    ASSUME NEW S, NEW r \in RadioRecord(S), SoundRing(r), NEW c, c.armed, NEW s,
           NEW i \in Wants(r, c, s), \A j \in Wants(r, c, s) : i >= j,
           NEW c2, c2.armed, c2.at = r.ring[i].seq, c.at \in Nat
    PROVE  LET q == Queue(r, c, s) IN
           q # <<>> /\ q[Len(q)] = c2.at /\ Queue(r, c2, s) = SubSeq(q, Len(q) + 1, Len(q))
<1> DEFINE q == Queue(r, c, s)
           q2 == Queue(r, c2, s)
           m == r.ring[i].seq
<1>1. q \in Seq(Nat) /\ Increasing(q) /\ Values(q) = Due(r, c, s)
  BY QueueFacts
<1>2. q2 \in Seq(Nat) /\ Increasing(q2) /\ Values(q2) = Due(r, c2, s)
  BY QueueFacts
<1>3. /\ Len(r.ring) \in Nat /\ DOMAIN r.ring = 1..Len(r.ring)
      /\ \A j \in 1..Len(r.ring) : r.ring[j].seq \in Nat
      /\ \A j, k \in 1..Len(r.ring) : j < k => r.ring[j].seq < r.ring[k].seq
  BY RingFacts
<1>4. Wants(r, c, s) \subseteq 1..Len(r.ring)
  BY <1>3 DEF Wants
<1>5. \A j \in Wants(r, c, s) : j = i \/ r.ring[j].seq < m
  BY <1>3, <1>4
<1>6. m \in Values(q) /\ m \in Nat /\ \A x \in Values(q) : m >= x
  <2>1. m \in Nat /\ \A j \in Wants(r, c, s) : r.ring[j].seq \in Nat /\ m >= r.ring[j].seq
    BY <1>3, <1>4, <1>5
  <2>2. Values(q) = {r.ring[j].seq : j \in Wants(r, c, s)}
    BY <1>1 DEF Due
  <2> QED
    BY <2>1, <2>2
<1>7. Wants(r, c2, s) = {}
  <2>1. m > c.at
    BY DEF Wants
  <2>2. \A j \in 1..Len(r.ring) : r.ring[j].seq > m => r.ring[j].seq > c.at
    BY <1>3, <1>6, <2>1
  <2>3. \A j \in Wants(r, c, s) : ~(r.ring[j].seq > m)
    BY <1>3, <1>4, <1>5, <1>6
  <2> QED
    BY <1>3, <2>2, <2>3 DEF Wants
<1>8. Due(r, c2, s) = {}
  BY <1>7 DEF Due
<1> HIDE DEF q, q2, m
<1>9. Len(q) \in DOMAIN q /\ q[Len(q)] = m
  BY <1>1, <1>6, GreatestLast
<1>10. q # <<>>
  BY <1>1, <1>6 DEF Values
<1>11. /\ SubSeq(q, Len(q) + 1, Len(q)) \in Seq(Nat)
       /\ Increasing(SubSeq(q, Len(q) + 1, Len(q)))
       /\ Values(SubSeq(q, Len(q) + 1, Len(q))) = {}
  <2> DEFINE n == Len(q)
  <2>1. n \in 0..Len(q) /\ n \in Nat
    BY <1>1
  <2>2. (n + 1)..n = {}
    BY <2>1
  <2> HIDE DEF n
  <2>3. /\ SubSeq(q, n + 1, Len(q)) \in Seq(Nat) /\ Increasing(SubSeq(q, n + 1, Len(q)))
        /\ Values(SubSeq(q, n + 1, Len(q))) = {q[j] : j \in (n + 1)..Len(q)}
    BY <1>1, <2>1, OldestFacts
  <2> QED
    BY <2>2, <2>3 DEF n
<1>12. q2 = SubSeq(q, Len(q) + 1, Len(q))
  BY <1>2, <1>8, <1>11, IncreasingUnique
<1> QED
  BY <1>9, <1>10, <1>12 DEF q, q2, m
-----------------------------------------------------------------------------
(* A delivery, as what it puts at the end of a ring and drops at its head.  *)
LEMMA DeliveredRing ==
    ASSUME NEW S, NEW r \in RadioRecord(S), NEW packet, NEW entry \in S,
           entry = [seq |-> r.last + 1, type |-> packet.type, from |-> packet.from], SoundRing(r)
    PROVE  LET n == Len(r.ring)
               ring == Delivered(r, packet).ring
           IN \/ Delivered(r, packet) = r
              \/ /\ Len(ring) = n + 1 /\ DOMAIN ring = 1..(n + 1) /\ ring[n + 1] = entry
                 /\ \A i \in 1..n : ring[i] = r.ring[i]
              \/ /\ n > 0 /\ Len(ring) = n /\ DOMAIN ring = 1..n /\ ring[n] = entry
                 /\ \A i \in 1..(n - 1) : ring[i] = r.ring[i + 1]
<1> DEFINE n == Len(r.ring)
           stored == Append(r.ring, entry)
           ring == IF Len(stored) > Depth THEN Tail(stored) ELSE stored
<1>1. r.ring \in Seq(S) /\ r.last \in Nat
  BY DEF RadioRecord
<1>2. n \in Nat /\ n <= Depth /\ Depth \in Nat \ {0}
  BY <1>1, LenProperties, FleetAssumption DEF SoundRing
<1>3. /\ stored \in Seq(S) /\ Len(stored) = n + 1 /\ stored # << >>
      /\ \A i \in 1..n : stored[i] = r.ring[i]
      /\ stored[n + 1] = entry
  BY <1>1, <1>2, AppendProperties, EmptySeq
<1>4. Delivered(r, packet) # r => Delivered(r, packet).ring = ring
  <2>1. Delivered(r, packet) # r => Delivered(r, packet) = [r EXCEPT !.last = r.last + 1, !.ring = ring]
    BY Zenon DEF Delivered
  <2>2. [r EXCEPT !.last = r.last + 1] \in RadioRecord(S)
    BY <1>1 DEF RadioRecord
  <2>3. \A v : \A q \in RadioRecord(S) : [q EXCEPT !.ring = v].ring = v
    BY DEF RadioRecord
  <2> HIDE DEF ring
  <2>4. [r EXCEPT !.last = r.last + 1, !.ring = ring] = [[r EXCEPT !.last = r.last + 1] EXCEPT !.ring = ring]
    BY Zenon
  <2> QED
    BY <2>1, <2>2, <2>3, <2>4
<1> HIDE DEF stored, n
<1>5. /\ Tail(stored) \in Seq(S) /\ Len(Tail(stored)) = n
      /\ \A i \in 1..n : Tail(stored)[i] = stored[i + 1]
  <2>1. /\ Tail(stored) \in Seq(S) /\ Len(Tail(stored)) = Len(stored) - 1
        /\ \A i \in 1..(Len(stored) - 1) : Tail(stored)[i] = stored[i + 1]
    BY <1>3, HeadTailProperties
  <2>2. Len(stored) - 1 = n
    BY <1>2, <1>3
  <2> QED
    BY <2>1, <2>2
<1>6. CASE Len(stored) > Depth
  <2>1. ring = Tail(stored) /\ n > 0
    BY <1>2, <1>3, <1>6
  <2> HIDE DEF ring
  <2>2. Len(ring) = n /\ DOMAIN ring = 1..n
    BY <1>5, <2>1, LenProperties
  <2>3. n \in 1..n /\ \A i \in 1..(n - 1) : i \in 1..n /\ i + 1 \in 1..n
    BY <1>2, <2>1
  <2>4. ring[n] = entry /\ \A i \in 1..(n - 1) : ring[i] = r.ring[i + 1]
    BY <1>3, <1>5, <2>1, <2>3
  <2> QED
    BY <1>4, <2>1, <2>2, <2>4 DEF n
<1>7. CASE ~(Len(stored) > Depth)
  <2>1. ring = stored
    BY <1>7
  <2> HIDE DEF ring
  <2>2. Len(ring) = n + 1 /\ DOMAIN ring = 1..(n + 1)
    BY <1>3, <2>1, LenProperties
  <2> QED
    BY <1>3, <1>4, <2>1, <2>2 DEF n
<1> QED
  BY <1>6, <1>7

(* What a site still wants after it.                                        *)
LEMMA DeliveredDue ==
    ASSUME NEW S, NEW r \in RadioRecord(S), NEW packet,
           [seq |-> r.last + 1, type |-> packet.type, from |-> packet.from] \in S, SoundRing(r),
           NEW c, c.at \in Nat, c.at <= r.last, NEW s
    PROVE  \/ Delivered(r, packet) = r
           \/ \E new \in {{}, {r.last + 1}} :
                 \/ Due(Delivered(r, packet), c, s) = Due(r, c, s) \cup new
                 \/ 1 \in DOMAIN r.ring /\ Due(Delivered(r, packet), c, s) = (Due(r, c, s) \ {r.ring[1].seq}) \cup new
<1> DEFINE n == Len(r.ring)
           d == Delivered(r, packet)
           entry == [seq |-> r.last + 1, type |-> packet.type, from |-> packet.from]
           new == IF Matches(s, packet.type) THEN {r.last + 1} ELSE {}
<1>1. entry \in S /\ entry.seq = r.last + 1 /\ entry.type = packet.type
  OBVIOUS
<1>2. /\ n \in Nat /\ DOMAIN r.ring = 1..n /\ r.last \in Nat
      /\ \A i \in 1..n : r.ring[i].seq \in Nat
      /\ \A i, j \in 1..n : i < j => r.ring[i].seq < r.ring[j].seq
  BY RingFacts
<1>3. \/ d = r
      \/ /\ Len(d.ring) = n + 1 /\ DOMAIN d.ring = 1..(n + 1) /\ d.ring[n + 1] = entry
         /\ \A i \in 1..n : d.ring[i] = r.ring[i]
      \/ /\ n > 0 /\ Len(d.ring) = n /\ DOMAIN d.ring = 1..n /\ d.ring[n] = entry
         /\ \A i \in 1..(n - 1) : d.ring[i] = r.ring[i + 1]
  <2>1. entry \in S
    BY <1>1
  <2> HIDE DEF d, n
  <2> QED
    BY <2>1, DeliveredRing DEF d, n
<1> HIDE DEF entry, d, n
<1>4. r.last + 1 > c.at
  BY <1>2
<1>5. new \in {{}, {r.last + 1}}
  OBVIOUS
<1>6. ASSUME Len(d.ring) = n + 1 /\ DOMAIN d.ring = 1..(n + 1) /\ d.ring[n + 1] = entry,
             \A i \in 1..n : d.ring[i] = r.ring[i]
      PROVE  Due(d, c, s) = Due(r, c, s) \cup new
  <2>1. \A i \in 1..(n + 1) : i \in 1..n \/ i = n + 1
    BY <1>2
  <2>2. n + 1 \in 1..(n + 1) /\ 1..n \subseteq 1..(n + 1)
    BY <1>2
  <2>3. Wants(d, c, s) = Wants(r, c, s) \cup (IF Matches(s, packet.type) THEN {n + 1} ELSE {})
    <3>1. \A i \in 1..n : i \in Wants(d, c, s) <=> i \in Wants(r, c, s)
      BY <1>2, <1>6, <2>2 DEF Wants
    <3>2. n + 1 \in Wants(d, c, s) <=> Matches(s, packet.type)
      BY <1>1, <1>4, <1>6, <2>2 DEF Wants
    <3>3. Wants(r, c, s) \subseteq 1..n /\ Wants(d, c, s) \subseteq 1..(n + 1)
      BY <1>2, <1>6 DEF Wants
    <3> QED
      BY <2>1, <3>1, <3>2, <3>3
  <2>4. \A i \in Wants(r, c, s) : d.ring[i] = r.ring[i]
    BY <1>2, <1>6 DEF Wants
  <2> QED
    BY <1>1, <1>6, <2>3, <2>4 DEF Due
<1>7. ASSUME n > 0 /\ Len(d.ring) = n /\ DOMAIN d.ring = 1..n /\ d.ring[n] = entry,
             \A i \in 1..(n - 1) : d.ring[i] = r.ring[i + 1]
      PROVE  1 \in DOMAIN r.ring /\ Due(d, c, s) = (Due(r, c, s) \ {r.ring[1].seq}) \cup new
  <2>1. 1 \in 1..n /\ n \in 1..n /\ \A i \in 1..n : i = n \/ (i \in 1..(n - 1) /\ i + 1 \in 1..n)
    BY <1>2, <1>7
  <2>2. \A i \in 1..n : i = 1 \/ (i - 1 \in 1..(n - 1) /\ i - 1 \in 1..n /\ (i - 1) + 1 = i)
    BY <1>2, <1>7
  <2>3. \A i \in 1..n : i # 1 => r.ring[i].seq # r.ring[1].seq
    BY <1>2, <2>1
  <2>4. \A i \in 1..(n - 1) : i \in Wants(d, c, s) <=> i + 1 \in Wants(r, c, s)
    <3>1. \A i \in 1..(n - 1) : i \in 1..n /\ i + 1 \in 1..n
      BY <1>2
    <3> QED
      BY <1>2, <1>7, <3>1 DEF Wants
  <2>5. n \in Wants(d, c, s) <=> Matches(s, packet.type)
    BY <1>1, <1>4, <1>7, <2>1 DEF Wants
  <2>6. Wants(r, c, s) \subseteq 1..n /\ Wants(d, c, s) \subseteq 1..n
    BY <1>2, <1>7 DEF Wants
  <2>7. ASSUME NEW x \in Due(d, c, s) PROVE x \in (Due(r, c, s) \ {r.ring[1].seq}) \cup new
    <3>1. PICK i \in Wants(d, c, s) : x = d.ring[i].seq
      BY DEF Due
    <3>2. CASE i = n
      BY <1>1, <1>7, <2>5, <3>1, <3>2
    <3>3. CASE i \in 1..(n - 1)
      <4>1. i + 1 \in Wants(r, c, s) /\ x = r.ring[i + 1].seq /\ i + 1 # 1
        BY <1>7, <2>4, <3>1, <3>3
      <4>2. x # r.ring[1].seq
        BY <2>3, <2>6, <4>1
      <4> QED
        BY <4>1, <4>2 DEF Due
    <3> QED
      BY <2>1, <2>6, <3>1, <3>2, <3>3
  <2>8. ASSUME NEW x \in Due(r, c, s), x # r.ring[1].seq PROVE x \in Due(d, c, s)
    <3>1. PICK i \in Wants(r, c, s) : x = r.ring[i].seq
      BY DEF Due
    <3>2. i - 1 \in 1..(n - 1) /\ (i - 1) + 1 = i
      BY <2>2, <2>6, <2>8, <3>1
    <3>3. i - 1 \in Wants(d, c, s) /\ d.ring[i - 1] = r.ring[i]
      BY <1>7, <2>4, <3>1, <3>2
    <3> QED
      BY <3>1, <3>3 DEF Due
  <2>9. ASSUME NEW x \in new PROVE x \in Due(d, c, s)
    BY <1>1, <1>7, <2>5, <2>9 DEF Due
  <2> HIDE DEF new
  <2> QED
    BY <1>2, <2>1, <2>7, <2>8, <2>9
<1> HIDE DEF new
<1> QED
  BY <1>3, <1>5, <1>6, <1>7 DEF d
(* An increasing queue with the least of its values gone, or with another.  *)
LEMMA HeadGone ==
    ASSUME NEW q \in Seq(Nat), Increasing(q), NEW m, \A x \in Values(q) : m <= x
    PROVE  \E k \in 0..Len(q) : LET rest == SubSeq(q, k + 1, Len(q)) IN
              /\ k \in {0, 1} /\ rest \in Seq(Nat) /\ Increasing(rest) /\ Values(rest) = Values(q) \ {m}
              /\ k = 0 => rest = q
<1>1. CASE m \in Values(q)
  <2>1. /\ 1 \in DOMAIN q
        /\ Values(SubSeq(q, 2, Len(q))) = Values(q) \ {m}
        /\ SubSeq(q, 2, Len(q)) \in Seq(Nat) /\ Increasing(SubSeq(q, 2, Len(q)))
    BY <1>1, LeastGone
  <2>2. 1 \in 0..Len(q) /\ 1 + 1 = 2 /\ 1 # 0
    <3>1. Len(q) \in Nat /\ DOMAIN q = 1..Len(q)
      OBVIOUS
    <3> QED
      BY <2>1, <3>1
  <2> QED
    BY <2>1, <2>2
<1>2. CASE m \notin Values(q)
  <2>1. 0 \in 0..Len(q) /\ 0 + 1 = 1
    OBVIOUS
  <2>2. SubSeq(q, 1, Len(q)) = q
    OBVIOUS
  <2>3. Values(q) = Values(q) \ {m}
    BY <1>2
  <2> QED
    BY <2>1, <2>2, <2>3
<1> QED
  BY <1>1, <1>2

(* The queue of a site after a delivery: the same, the oldest lost, or the  *)
(* packet at its end; its numbers were up to last.                          *)
MovesOn(q, q2, last) ==
    /\ Len(q2) <= Depth
    /\ \A i \in DOMAIN q : q[i] <= last
    /\ \E k \in 0..Len(q) :
          LET rest == SubSeq(q, k + 1, Len(q)) IN
          \/ q2 = rest /\ (k = 0 => q2 = q)
          \/ rest \in Seq(Nat) /\ q2 = Append(rest, last + 1)
LEMMA DeliveredQueue ==
    ASSUME NEW S, NEW r \in RadioRecord(S), NEW packet,
           [seq |-> r.last + 1, type |-> packet.type, from |-> packet.from] \in S, SoundRing(r),
           NEW c, c.armed, c.at \in Nat, c.at <= r.last, NEW s
    PROVE  MovesOn(Queue(r, c, s), Queue(Delivered(r, packet), c, s), r.last)
<1> DEFINE d == Delivered(r, packet)
           q == Queue(r, c, s)
           q2 == Queue(d, c, s)
<1>1. d \in RadioRecord(S) /\ SoundRing(d)
  BY DeliveredSound
<1>2. /\ Len(r.ring) \in Nat /\ DOMAIN r.ring = 1..Len(r.ring) /\ r.last \in Nat
      /\ \A i \in 1..Len(r.ring) : r.ring[i].seq \in Nat /\ r.ring[i].seq <= r.last
      /\ \A i, j \in 1..Len(r.ring) : i < j => r.ring[i].seq < r.ring[j].seq
  BY RingFacts
<1>3. q \in Seq(Nat) /\ Increasing(q) /\ Values(q) = Due(r, c, s)
  BY QueueFacts
<1>4. \/ d = r
      \/ \E new \in {{}, {r.last + 1}} :
            \/ Due(d, c, s) = Due(r, c, s) \cup new
            \/ 1 \in DOMAIN r.ring /\ Due(d, c, s) = (Due(r, c, s) \ {r.ring[1].seq}) \cup new
  BY DeliveredDue
<1> HIDE DEF d
<1>5. q2 \in Seq(Nat) /\ Increasing(q2) /\ Values(q2) = Due(d, c, s) /\ Len(q2) <= Len(d.ring)
  BY <1>1, QueueFacts
<1>6. Len(q2) <= Depth
  <2>1. Len(d.ring) <= Depth /\ Len(d.ring) \in Nat /\ Len(q2) \in Nat /\ Depth \in Nat
    BY <1>1, <1>5, RingFacts, FleetAssumption DEF SoundRing
  <2> QED
    BY <1>5, <2>1
<1>7. \A x \in Due(r, c, s) : x \in Nat /\ x <= r.last /\ (1 \in DOMAIN r.ring => r.ring[1].seq <= x)
  <2>1. Wants(r, c, s) \subseteq 1..Len(r.ring)
    BY <1>2 DEF Wants
  <2>2. \A i \in 1..Len(r.ring) : 1 \in 1..Len(r.ring) /\ (i = 1 \/ 1 < i)
    BY <1>2
  <2>3. \A i \in 1..Len(r.ring) : r.ring[1].seq <= r.ring[i].seq
    BY <1>2, <2>2
  <2> QED
    BY <1>2, <2>1, <2>3 DEF Due
<1> HIDE DEF q, q2
<1>8. \A i \in DOMAIN q : q[i] <= r.last
  BY <1>3, <1>7 DEF Values
<1>9. ASSUME NEW k \in 0..Len(q), NEW rest, rest = SubSeq(q, k + 1, Len(q)), k = 0 => rest = q,
             rest \in Seq(Nat), Increasing(rest), Values(rest) \subseteq Values(q),
             NEW new \in {{}, {r.last + 1}}, Values(q2) = Values(rest) \cup new
      PROVE  \/ q2 = rest /\ (k = 0 => q2 = q)
             \/ rest \in Seq(Nat) /\ q2 = Append(rest, r.last + 1)
  <2>1. CASE new = {}
    <3>1. q2 = rest
      BY <1>5, <1>9, <2>1, IncreasingUnique
    <3> QED
      BY <1>9, <3>1
  <2>2. CASE new = {r.last + 1}
    <3>1. r.last + 1 \in Nat /\ \A x \in Values(rest) : x < r.last + 1
      BY <1>2, <1>3, <1>7, <1>9
    <3>2. /\ Append(rest, r.last + 1) \in Seq(Nat) /\ Increasing(Append(rest, r.last + 1))
          /\ Values(Append(rest, r.last + 1)) = Values(rest) \cup {r.last + 1}
      BY <1>9, <3>1, AppendedFacts
    <3>3. q2 = Append(rest, r.last + 1)
      BY <1>5, <1>9, <2>2, <3>2, IncreasingUnique
    <3> QED
      BY <1>9, <3>3
  <2> QED
    BY <2>1, <2>2
<1>10. \E k \in 0..Len(q) :
          LET rest == SubSeq(q, k + 1, Len(q)) IN
          \/ q2 = rest /\ (k = 0 => q2 = q)
          \/ rest \in Seq(Nat) /\ q2 = Append(rest, r.last + 1)
  <2>1. 0 \in 0..Len(q) /\ SubSeq(q, 0 + 1, Len(q)) = q
    BY <1>3
  <2>2. CASE d = r
    BY <2>1, <2>2 DEF q, q2
  <2>3. ASSUME NEW new \in {{}, {r.last + 1}}, Due(d, c, s) = Due(r, c, s) \cup new
        PROVE  <1>10
    BY <1>3, <1>5, <1>9, <2>1, <2>3
  <2>4. ASSUME NEW new \in {{}, {r.last + 1}}, 1 \in DOMAIN r.ring,
               Due(d, c, s) = (Due(r, c, s) \ {r.ring[1].seq}) \cup new
        PROVE  <1>10
    <3>1. \A x \in Values(q) : r.ring[1].seq <= x
      BY <1>3, <1>7, <2>4
    <3>2. PICK k \in 0..Len(q) :
              LET rest == SubSeq(q, k + 1, Len(q)) IN
              /\ k \in {0, 1} /\ rest \in Seq(Nat) /\ Increasing(rest) /\ Values(rest) = Values(q) \ {r.ring[1].seq}
              /\ k = 0 => rest = q
      BY <1>3, <3>1, HeadGone
    <3> QED
      BY <1>3, <1>5, <1>9, <2>4, <3>2
  <2> QED
    BY <1>4, <2>2, <2>3, <2>4
<1> QED
  BY <1>6, <1>8, <1>10 DEF d, q, q2, MovesOn

(* One step of a reader, in terms of its queue.                             *)
LEMMA ReaderMoves ==
    ASSUME NEW d, NEW s,
           NEW q, q = Unread(d, s), NEW q2, q2 = Unread(d, s)',
           NEW c, c = cursor[d][s], NEW c2, c2 = cursor'[d][s],
           \/ q2 = q /\ c2.armed = c.armed /\ c2.at = c.at
           \/ q2 = <<>> /\ c2.armed = FALSE /\ c2.at = 0
           \/ q2 = <<>> /\ ~c.armed /\ c2.armed = TRUE /\ c2.at \in Nat
           \/ /\ c.armed /\ c2.armed = c.armed /\ q # <<>>
              /\ \E k \in Nat : /\ k = IF s = "batch" THEN Len(q) ELSE 1
                                /\ c2.at = q[k] /\ q2 = SubSeq(q, k + 1, Len(q))
           \/ /\ c.armed /\ c2.armed = c.armed /\ c2.at = c.at
              /\ \E k \in DOMAIN q : q2 = SubSeq(q, k + 1, Len(q))
           \/ /\ c.armed /\ c2.armed = c.armed /\ c2.at = c.at /\ Len(q2) <= Depth
              /\ \E n \in Nat, k \in 0..Len(q) :
                   /\ n > c.at /\ \A i \in DOMAIN q : n > q[i]
                   /\ SubSeq(q, k + 1, Len(q)) \in Seq(Nat) /\ q2 = Append(SubSeq(q, k + 1, Len(q)), n)
    PROVE  ReaderStep(d, s)
<1>1. CASE q2 = q /\ c2.armed = c.armed /\ c2.at = c.at
  BY <1>1 DEF ReaderStep, Reader!lossyVars
<1>2. CASE q2 = <<>> /\ c2.armed = FALSE /\ c2.at = 0
  BY <1>2 DEF ReaderStep, Reader!LossyNext, Reader!Close
<1>3. CASE q2 = <<>> /\ ~c.armed /\ c2.armed = TRUE /\ c2.at \in Nat
  BY <1>3 DEF ReaderStep, Reader!LossyNext, Reader!Open
<1>4. CASE /\ c.armed /\ c2.armed = c.armed /\ q # <<>>
           /\ \E k \in Nat : /\ k = IF s = "batch" THEN Len(q) ELSE 1
                             /\ c2.at = q[k] /\ q2 = SubSeq(q, k + 1, Len(q))
  <2>1. Reader(d, s)!Take
    BY <1>4 DEF Reader!Take, Reader!Oldest
  <2> QED
    BY <2>1 DEF ReaderStep, Reader!LossyNext
<1>5. CASE /\ c.armed /\ c2.armed = c.armed /\ c2.at = c.at
           /\ \E k \in DOMAIN q : q2 = SubSeq(q, k + 1, Len(q))
  <2>1. Reader(d, s)!Lose
    BY <1>5 DEF Reader!Lose, Reader!Oldest
  <2> QED
    BY <2>1 DEF ReaderStep, Reader!LossyNext
<1>6. CASE /\ c.armed /\ c2.armed = c.armed /\ c2.at = c.at /\ Len(q2) <= Depth
           /\ \E n \in Nat, k \in 0..Len(q) :
                /\ n > c.at /\ \A i \in DOMAIN q : n > q[i]
                /\ SubSeq(q, k + 1, Len(q)) \in Seq(Nat) /\ q2 = Append(SubSeq(q, k + 1, Len(q)), n)
  <2>1. PICK n \in Nat, k \in 0..Len(q) :
                /\ n > c.at /\ \A i \in DOMAIN q : n > q[i]
                /\ SubSeq(q, k + 1, Len(q)) \in Seq(Nat) /\ q2 = Append(SubSeq(q, k + 1, Len(q)), n)
    BY <1>6
  <2> DEFINE rest == SubSeq(q, k + 1, Len(q))
  <2>2. rest \in Seq(Nat) /\ q2 = Append(rest, n)
    BY <2>1
  <2> HIDE DEF rest
  <2>3. q2 # <<>> /\ q2[Len(q2)] = n
    <3>1. Len(q2) = Len(rest) + 1 /\ q2[Len(rest) + 1] = n /\ Len(rest) \in Nat
      BY <2>2
    <3> QED
      BY <2>2, <3>1
  <2>4. \E j \in 0..Len(q) : q2 = Append(Reader(d, s)!Oldest(q, j), n)
    BY <2>2 DEF rest, Reader!Oldest
  <2>5. Reader(d, s)!Arrive
    BY <1>6, <2>1, <2>3, <2>4 DEF Reader!Arrive
  <2> QED
    BY <2>5 DEF ReaderStep, Reader!LossyNext
<1> QED
  BY <1>1, <1>2, <1>3, <1>4, <1>5, <1>6

LEMMA UnreadIsQueueNext ==
    ASSUME NEW d, NEW s
    PROVE  Unread(d, s)' = Queue(radio'[d], cursor'[d][s], s)
  BY DEF Unread, Queue, Candidates, Wants

(* A reset of a device closes its readers, and a group changes nothing of   *)
(* what a ring holds.                                                       *)
LEMMA ResetReads ==
    ASSUME RadioInv, NEW x \in Devices, NEW d \in Devices, NEW s \in Sites,
           radio' = [radio EXCEPT ![x] = PowerOn], cursor' = [cursor EXCEPT ![x] = Unarmed]
    PROVE  UNCHANGED <<radio[d], cursor[d][s]>> \/ ReaderStep(d, s)
<1>1. DOMAIN radio = Devices /\ DOMAIN cursor = Devices
  BY DEF RadioInv, RadioTypes
<1>2. CASE d # x
  BY <1>1, <1>2
<1>3. CASE d = x
  <2>1. cursor'[d] = Unarmed
    BY <1>1, <1>3
  <2>2. cursor'[d][s].armed = FALSE /\ cursor'[d][s].at = 0
    BY <2>1 DEF Unarmed
  <2>3. Unread(d, s)' = <<>>
    BY <2>2, UnreadIsQueueNext DEF Queue
  <2> QED
    BY <2>2, <2>3, ReaderMoves
<1> QED
  BY <1>2, <1>3

LEMMA GroupReads ==
    ASSUME RadioInv, NEW x \in Devices, NEW g \in Groups, SetRadioGroup(x, g),
           NEW d \in Devices, NEW s \in Sites
    PROVE  UNCHANGED <<radio[d], cursor[d][s]>> \/ ReaderStep(d, s)
<1>1. PICK S : radio \in [Devices -> RadioRecord(S)]
  BY DEF RadioInv, RadioTypes
<1>2. radio' = [radio EXCEPT ![x].group = g] /\ cursor' = cursor
  BY DEF SetRadioGroup
<1>3. CASE d # x
  BY <1>1, <1>2, <1>3
<1>4. CASE d = x
  <2>1. radio'[d] = [radio[d] EXCEPT !.group = g]
    BY <1>1, <1>2, <1>4
  <2>2. radio'[d].ring = radio[d].ring
    BY <1>1, <2>1 DEF RadioRecord
  <2>3. Unread(d, s)' = Unread(d, s)
    BY <1>2, <2>2, UnreadIsQueueNext, UnreadIsQueue DEF Queue, Wants
  <2> QED
    BY <1>2, <2>3, ReaderMoves
<1> QED
  BY <1>3, <1>4

(* A delivery is an arrival, a loss or nothing.                             *)
LEMMA TransmitReads ==
    ASSUME RadioInv, Transmit, NEW d \in Devices, NEW s \in Sites
    PROVE  UNCHANGED <<radio[d], cursor[d][s]>> \/ ReaderStep(d, s)
<1> DEFINE packet == Head(outbox)
           r == radio[d]
           c == cursor[d][s]
           entry == [seq |-> r.last + 1, type |-> packet.type, from |-> packet.from]
<1>1. PICK S : radio \in [Devices -> RadioRecord(S)]
  BY DEF RadioInv, RadioTypes
<1>2. /\ radio' = [e \in Devices |-> IF Hears(e, packet) THEN Delivered(radio[e], packet) ELSE radio[e]]
      /\ cursor' = cursor
  BY DEF Transmit
<1>3. c \in CursorRecord /\ c.at <= r.last /\ SoundRing(r) /\ r \in RadioRecord(S)
  BY <1>1 DEF RadioInv, RadioTypes, SoundCursors
<1>4. c.at \in Nat /\ c.armed \in BOOLEAN /\ r.last \in Nat
  BY <1>3 DEF CursorRecord, RadioRecord
<1> HIDE DEF packet
<1>5. CASE ~Hears(d, packet)
  BY <1>2, <1>5
<1>6. CASE Hears(d, packet) /\ ~c.armed
  <2>1. Unread(d, s) = <<>> /\ Unread(d, s)' = <<>>
    BY <1>2, <1>6, UnreadIsQueue, UnreadIsQueueNext DEF Queue
  <2> QED
    BY <1>2, <2>1, ReaderMoves
<1>7. CASE Hears(d, packet) /\ c.armed
  <2> DEFINE q == Queue(r, c, s)
             q2 == Queue(Delivered(r, packet), c, s)
  <2>1. Unread(d, s) = q /\ Unread(d, s)' = q2
    BY <1>2, <1>7, UnreadIsQueue, UnreadIsQueueNext
  <2>2. r \in RadioRecord(S \cup {entry}) /\ entry \in S \cup {entry}
    <3> HIDE DEF entry
    <3> QED
      BY <1>3, SeqMonotonic DEF RadioRecord
  <2>3. /\ Len(q2) <= Depth
        /\ \A i \in DOMAIN q : q[i] <= r.last
        /\ \E k \in 0..Len(q) :
              LET rest == SubSeq(q, k + 1, Len(q)) IN
              \/ q2 = rest /\ (k = 0 => q2 = q)
              \/ rest \in Seq(Nat) /\ q2 = Append(rest, r.last + 1)
    <3> DEFINE T == S \cup {entry}
    <3>1. r \in RadioRecord(T) /\ entry \in T
      BY <2>2
    <3> HIDE DEF T, r, c
    <3>2. MovesOn(Queue(r, c, s), Queue(Delivered(r, packet), c, s), r.last)
      BY <1>3, <1>4, <1>7, <3>1, DeliveredQueue
    <3> QED
      BY <3>2 DEF MovesOn
  <2>4. q \in Seq(Nat)
    BY <1>3, QueueFacts
  <2>5. cursor'[d][s] = c
    BY <1>2
  <2> HIDE DEF q, q2
  <2>6. PICK k \in 0..Len(q) :
           \/ q2 = SubSeq(q, k + 1, Len(q)) /\ (k = 0 => q2 = q)
           \/ SubSeq(q, k + 1, Len(q)) \in Seq(Nat) /\ q2 = Append(SubSeq(q, k + 1, Len(q)), r.last + 1)
    BY <2>3
  <2> HIDE DEF r, c
  <2>7. CASE q2 = SubSeq(q, k + 1, Len(q)) /\ k = 0 /\ q2 = q
    BY <2>1, <2>5, <2>7, ReaderMoves DEF c
  <2>8. CASE q2 = SubSeq(q, k + 1, Len(q)) /\ k # 0
    <3>1. k \in DOMAIN q
      BY <2>4, <2>8
    <3> QED
      BY <1>7, <2>1, <2>5, <2>8, <3>1, ReaderMoves DEF c
  <2>9. CASE SubSeq(q, k + 1, Len(q)) \in Seq(Nat) /\ q2 = Append(SubSeq(q, k + 1, Len(q)), r.last + 1)
    <3> DEFINE n == r.last + 1
    <3>1. n \in Nat /\ n > c.at
      BY <1>3, <1>4
    <3>2. \A i \in DOMAIN q : n > q[i]
      <4>1. \A i \in DOMAIN q : q[i] \in Nat /\ q[i] <= r.last
        BY <2>3, <2>4
      <4> QED
        BY <1>4, <4>1
    <3> HIDE DEF n
    <3>3. q2 = Append(SubSeq(q, k + 1, Len(q)), n)
      BY <2>9 DEF n
    <3> QED
      BY <1>7, <2>1, <2>3, <2>5, <2>9, <3>1, <3>2, <3>3, ReaderMoves DEF c
  <2> QED
    BY <2>6, <2>7, <2>8, <2>9
<1> QED
  BY <1>4, <1>5, <1>6, <1>7

(* A site takes the head of its queue, or opens at the end of the ring.     *)
LEMMA TakesReads ==
    ASSUME RadioInv, radio' = radio, NEW d \in Devices, NEW s \in Sites, NEW T, T = Candidates(d, s),
           NEW i \in T,
           IF s = "batch" THEN \A j \in T : i >= j ELSE \A j \in T : i <= j,
           cursor[d][s].armed,
           cursor' = [cursor EXCEPT ![d][s].at = radio[d].ring[i].seq]
    PROVE  ReaderStep(d, s)
<1> DEFINE r == radio[d]
           c == cursor[d][s]
           c2 == cursor'[d][s]
           q == Queue(r, c, s)
           q2 == Queue(r, c2, s)
<1>1. PICK S : radio \in [Devices -> RadioRecord(S)]
  BY DEF RadioInv, RadioTypes
<1>2. cursor \in [Devices -> [Sites -> CursorRecord]]
  BY DEF RadioInv, RadioTypes
<1>3. SoundRing(r) /\ r \in RadioRecord(S) /\ c \in CursorRecord /\ c.armed
  BY <1>1, <1>2 DEF RadioInv
<1>4. c.at \in Nat
  BY <1>3 DEF CursorRecord
<1>5. T = Wants(r, c, s)
  BY UnreadIsQueue
<1>6. c2 = [c EXCEPT !.at = r.ring[i].seq]
  BY <1>2
<1>7. c2.armed /\ c2.armed = c.armed /\ c2.at = r.ring[i].seq
  BY <1>3, <1>6 DEF CursorRecord
<1>8. Unread(d, s) = q /\ Unread(d, s)' = q2
  BY UnreadIsQueue, UnreadIsQueueNext
<1>9. q \in Seq(Nat)
  BY <1>3, QueueFacts
<1> HIDE DEF r, c, c2
<1>10. CASE s = "batch"
  <2>1. q # <<>> /\ q[Len(q)] = c2.at /\ q2 = SubSeq(q, Len(q) + 1, Len(q))
    BY <1>3, <1>4, <1>5, <1>7, <1>10, TakeAll
  <2> HIDE DEF q, q2
  <2>2. Len(q) \in Nat
    BY <1>9
  <2> QED
    BY <1>3, <1>7, <1>8, <1>10, <2>1, <2>2, ReaderMoves DEF c, c2
<1>11. CASE s # "batch"
  <2>1. q # <<>> /\ q[1] = c2.at /\ q2 = SubSeq(q, 1 + 1, Len(q))
    BY <1>3, <1>4, <1>5, <1>7, <1>11, TakeOne
  <2> HIDE DEF q, q2
  <2> QED
    BY <1>3, <1>7, <1>8, <1>11, <2>1, ReaderMoves DEF c, c2
<1> QED
  BY <1>10, <1>11

LEMMA ArmsReads ==
    ASSUME RadioInv, radio' = radio, NEW d \in Devices, NEW s \in Sites, ~cursor[d][s].armed,
           cursor' = [cursor EXCEPT ![d][s] = [armed |-> TRUE, at |-> radio[d].last]]
    PROVE  ReaderStep(d, s)
<1>1. PICK S : radio \in [Devices -> RadioRecord(S)]
  BY DEF RadioInv, RadioTypes
<1>2. cursor \in [Devices -> [Sites -> CursorRecord]]
  BY DEF RadioInv, RadioTypes
<1> DEFINE r == radio[d]
           c2 == cursor'[d][s]
           q2 == Queue(r, c2, s)
<1>3. SoundRing(r) /\ r \in RadioRecord(S) /\ r.last \in Nat
  BY <1>1 DEF RadioInv, RadioRecord
<1>4. c2.armed = TRUE /\ c2.at = r.last
  BY <1>2
<1>5. Unread(d, s)' = q2
  BY UnreadIsQueueNext
<1> HIDE DEF r, c2
<1>6. q2 \in Seq(Nat) /\ Values(q2) = Due(r, c2, s)
  BY <1>3, <1>4, QueueFacts
<1>7. Due(r, c2, s) = {}
  <2>1. \A i \in DOMAIN r.ring : r.ring[i].seq \in Nat /\ r.ring[i].seq <= r.last
    BY <1>3, RingFacts
  <2>2. \A i \in DOMAIN r.ring : ~(r.ring[i].seq > c2.at)
    BY <1>3, <1>4, <2>1
  <2> QED
    BY <2>2 DEF Due, Wants
<1> HIDE DEF q2
<1>8. q2 = <<>>
  <2>1. DOMAIN q2 = {}
    BY <1>6, <1>7 DEF Values
  <2> QED
    BY <1>6, <2>1
<1> QED
  BY <1>3, <1>4, <1>5, <1>8, ReaderMoves DEF c2

LEMMA ReceiveReads ==
    ASSUME RadioInv, NEW x \in Devices, NEW site \in Sites, Receive(x, site) \/ (site = "batch" /\ ReceiveBatch(x)),
           NEW d \in Devices, NEW s \in Sites
    PROVE  UNCHANGED <<radio[d], cursor[d][s]>> \/ ReaderStep(d, s)
<1> DEFINE T == Candidates(x, site)
           i == IF site = "batch" THEN Max(T) ELSE CHOOSE k \in T : \A j \in T : k <= j
<1>1. PICK S : radio \in [Devices -> RadioRecord(S)]
  BY DEF RadioInv, RadioTypes
<1>2. cursor \in [Devices -> [Sites -> CursorRecord]] /\ radio' = radio
  BY DEF RadioInv, RadioTypes, Receive, ReceiveBatch
<1>3. \/ ~cursor[x][site].armed /\ cursor' = [cursor EXCEPT ![x][site] = [armed |-> TRUE, at |-> radio[x].last]]
      \/ /\ cursor[x][site].armed /\ T # {}
         /\ cursor' = [cursor EXCEPT ![x][site].at = radio[x].ring[i].seq]
  BY DEF Receive, ReceiveBatch, NextAfter
<1>4. d # x \/ s # site => cursor'[d][s] = cursor[d][s]
  BY <1>2, <1>3
<1>5. ASSUME d = x, s = site PROVE ReaderStep(d, s)
  <2>1. CASE ~cursor[x][site].armed
    BY <1>2, <1>3, <1>5, <2>1, ArmsReads
  <2>2. CASE cursor[x][site].armed
    <3>1. T \in SUBSET (1..Len(radio[x].ring)) /\ Len(radio[x].ring) \in Nat /\ T # {}
      <4>1. SoundRing(radio[x]) /\ radio[x] \in RadioRecord(S)
        BY <1>1 DEF RadioInv
      <4> QED
        BY <1>3, <2>2, <4>1, RingFacts DEF Candidates
    <3> HIDE DEF T
    <3>2. i \in T /\ IF site = "batch" THEN \A j \in T : i >= j ELSE \A j \in T : i <= j
      BY <3>1, FirstAndLast DEF Max
    <3>3. cursor' = [cursor EXCEPT ![d][s].at = radio[d].ring[i].seq]
      BY <1>3, <1>5, <2>2
    <3> HIDE DEF i
    <3> QED
      BY <1>2, <1>5, <2>2, <3>2, <3>3, TakesReads DEF T
  <2> QED
    BY <2>1, <2>2
<1> QED
  BY <1>2, <1>4, <1>5

(* Entering a page closes the readers of the page's callsites.              *)
LEMMA PageReads ==
    ASSUME RadioInv, NEW x \in Devices, EnterPage(x), NEW d \in Devices, NEW s \in Sites
    PROVE  UNCHANGED <<radio[d], cursor[d][s]>> \/ ReaderStep(d, s)
<1>1. cursor \in [Devices -> [Sites -> CursorRecord]] /\ radio' = radio
  BY DEF RadioInv, RadioTypes, EnterPage
<1>2. CASE d # x \/ s = "batch"
  BY <1>1, <1>2 DEF EnterPage
<1>3. CASE d = x /\ s # "batch"
  <2>1. cursor'[d][s] = Unarmed[s]
    BY <1>1, <1>3 DEF EnterPage
  <2>2. cursor'[d][s].armed = FALSE /\ cursor'[d][s].at = 0
    BY <2>1 DEF Unarmed
  <2>3. Unread(d, s)' = <<>>
    BY <2>2, UnreadIsQueueNext DEF Queue
  <2> QED
    BY <2>2, <2>3, ReaderMoves
<1> QED
  BY <1>2, <1>3

LEMMA ReaderSteps ==
    ASSUME RadioInv, [Next]_vars, NEW d \in Devices, NEW s \in Sites
    PROVE  UNCHANGED <<radio[d], cursor[d][s]>> \/ ReaderStep(d, s)
<1>1. ASSUME NEW x \in Devices, AddInstance(x) \/ Flash(x) \/ Unflash(x)
      PROVE  UNCHANGED <<radio[d], cursor[d][s]>> \/ ReaderStep(d, s)
  BY <1>1, ResetReads DEF AddInstance, Flash, Unflash
<1>2. ASSUME NEW x \in Devices, RemoveInstance(x) \/ \E p \in Sent : RadioSend(x, p)
      PROVE  UNCHANGED <<radio[d], cursor[d][s]>>
  BY <1>2 DEF RemoveInstance, RadioSend
<1>3. CASE StartDriver \/ StopDriver \/ BeginFrame \/ EndThink \/ EndFrame
  BY <1>3 DEF StartDriver, StopDriver, BeginFrame, EndThink, EndFrame
<1>4. CASE UNCHANGED vars
  BY <1>4 DEF vars
<1>5. ASSUME NEW x \in Devices, ReceiveBatch(x)
      PROVE  UNCHANGED <<radio[d], cursor[d][s]>> \/ ReaderStep(d, s)
  BY <1>5, ReceiveReads DEF ReceiveBatch
<1> QED
  BY <1>1, <1>2, <1>3, <1>4, <1>5, TransmitReads, GroupReads, ReceiveReads, PageReads DEF Next

(* A receive site is served first in, first out, loses only the oldest and  *)
(* reads nothing twice; user code takes the whole queue at a time           *)
(* (Radio.deliver, Radio.nextAfter, Radio.receive): every site of every     *)
(* device implements LossyQueue.                                            *)
THEOREM ReadersAreServed == Spec => ReadersServed
<1>1. Init => \A d \in Devices, s \in Sites : Reader(d, s)!LossyInit
  <2> SUFFICES ASSUME Init, NEW d \in Devices, NEW s \in Sites PROVE Reader(d, s)!LossyInit
    OBVIOUS
  <2>1. cursor[d][s].armed = FALSE /\ cursor[d][s].at = 0
    BY DEF Init, Unarmed
  <2> QED
    BY <2>1 DEF Unread, Reader!LossyInit
<1>2. RadioInv /\ [Next]_vars =>
        [\A d \in Devices, s \in Sites : UNCHANGED <<radio[d], cursor[d][s]>> \/ ReaderStep(d, s)]_vars
  BY ReaderSteps
<1> QED
  BY FleetInvariant, <1>1, <1>2, PTL DEF Spec, ReadersServed
=============================================================================
