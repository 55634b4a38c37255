------------------------------ MODULE RadioFleet ------------------------------
(***************************************************************************)
(* The simulated micro:bits and the air between them: the frame loop and   *)
(* the outbox of services/simulator.ts, services/shared-medium.ts, the     *)
(* receive ring of core/radio.ts, and the radio tiles that use it          *)
(* (wendoo/actions/radio-send.ts, radio-receive.ts, set-radio-group.ts).   *)
(*                                                                         *)
(* A frame lets every device think, in the order of the list, and then     *)
(* delivers what they sent.  Device ids are numbers, compared as the code  *)
(* compares the id strings; the order of the list is another one.          *)
(***************************************************************************)
EXTENDS Naturals, Sequences, FiniteSets, SequencesExt, FiniteSetsExt

CONSTANTS Devices, Groups, Sites,
          Default,      \* RADIO_DEFAULT_GROUP
          Depth,        \* RADIO_RX_RING_DEPTH
          Sent,         \* bounds: the kinds of values sent, the frames,
    MaxFrames, MaxSends   \* and the sends

(* What a brain may send, and the packet it becomes (recordFor and the send *)
(* functions of wendoo/module.ts): a boolean is a number, and a value of    *)
(* another type is not sent.                                                *)
Payloads == {"integer", "fraction", "boolean", "text", "bytes", "struct", "pair", "raw"}
NotSent == "none"
RecordFor(payload) ==
    CASE payload \in {"integer", "boolean"} -> "Number"
      [] payload = "fraction" -> "Double"
      [] payload = "text" -> "String"
      [] payload = "bytes" -> "Buffer"
      [] payload = "pair" -> "Value"
      [] payload = "raw" -> "Raw"
      [] OTHER -> NotSent
(* The packet types each receive sensor delivers; "batch" is user code that *)
(* keeps a cursor of its own and reads with Radio.receive(since).           *)
Matches(site, type) ==
    CASE site = "number" -> type \in {"Number", "Double"}
      [] site = "string" -> type = "String"
      [] site = "buffer" -> type = "Buffer"
      [] site = "batch" -> TRUE

ASSUME FleetAssumption ==
    /\ Devices \subseteq Nat /\ IsFiniteSet(Devices) /\ Default \in Groups
    /\ Depth \in Nat \ {0} /\ MaxFrames \in Nat /\ MaxSends \in Nat /\ Sent \subseteq Payloads
    /\ Sites \subseteq {"number", "string", "buffer", "batch"}

VARIABLES
    fleet,      \* instances_: the device ids in list order
    endpoints,  \* the ids registered in the medium
    radio,      \* per device: its group, its receive ring and lastSeq
    cursor,     \* per device and receive site: [armed, at]
    loaded,     \* the devices that run a program
    turn,       \* whose think it is: an index of the fleet, 0 between frames
    outbox,     \* the sends of this frame
    phase,      \* "idle", "think" or "deliver"
    running,    \* rafHandle: the frame driver is started
    frame,      \* frame_
    sends       \* how many values were sent (for the bound)
vars == <<fleet, endpoints, radio, cursor, loaded, turn, outbox, phase, running, frame, sends>>

PowerOn == [group |-> Default, ring |-> <<>>, last |-> 0]
Unarmed == [s \in Sites |-> [armed |-> FALSE, at |-> 0]]
Thinking(d) == phase = "think" /\ turn \in DOMAIN fleet /\ fleet[turn] = d /\ d \in loaded

-----------------------------------------------------------------------------
(* Radio.deliver: the group filter, the next number, the oldest overwritten *)
Delivered(r, packet) ==
    IF packet.group # r.group THEN r
    ELSE LET stored == Append(r.ring, [seq |-> r.last + 1, type |-> packet.type, from |-> packet.from])
         IN  [r EXCEPT !.last = @ + 1,
                       !.ring = IF Len(stored) > Depth THEN Tail(stored) ELSE stored]
(* Radio.nextAfter: the oldest packet after the cursor that the site reads. *)
Candidates(d, site) ==
    {i \in DOMAIN radio[d].ring :
        radio[d].ring[i].seq > cursor[d][site].at /\ Matches(site, radio[d].ring[i].type)}
(* Mutant: the newest one.                                                  *)
NextAfterNewest(d, site) ==
    radio[d].ring[CHOOSE i \in Candidates(d, site) : \A j \in Candidates(d, site) : i >= j]
NextAfter(d, site) ==
    radio[d].ring[CHOOSE i \in Candidates(d, site) : \A j \in Candidates(d, site) : i <= j]

(* SharedMedium.transmit: every other registered device on the group.       *)
Hears(d, packet) == d \in endpoints /\ d # packet.from /\ radio[d].group = packet.group

(* The order of delivery: a stable sort by sender id.                       *)
SentBy(box, d) == SelectSeq(box, LAMBDA packet : packet.from = d)
(* Mutant: the order they were sent in.                                     *)
BySenderUnsorted(box) == box
BySender(box) ==
    FoldLeft(LAMBDA sorted, d : sorted \o SentBy(box, d), <<>>, SetToSortSeq(Devices, <))

-----------------------------------------------------------------------------
Init ==
    /\ \E d \in Devices : fleet = <<d>> /\ endpoints = {d}
    /\ radio = [d \in Devices |-> PowerOn] /\ cursor = [d \in Devices |-> Unarmed]
    /\ loaded = {} /\ turn = 0 /\ outbox = <<>> /\ phase = "idle"
    /\ running = FALSE /\ frame = 0 /\ sends = 0

(* addInstance and removeInstance, between frames: the device is registered *)
(* in the medium while it is in the list.                                   *)
AddInstance(d) ==
    /\ phase = "idle" /\ d \notin ToSet(fleet)
    /\ fleet' = Append(fleet, d)
    /\ endpoints' = endpoints \cup {d}
    /\ radio' = [radio EXCEPT ![d] = PowerOn] /\ cursor' = [cursor EXCEPT ![d] = Unarmed]
    /\ UNCHANGED <<loaded, turn, outbox, phase, running, frame, sends>>
RemoveInstance(d) ==
    /\ phase = "idle" /\ d \in ToSet(fleet)
    /\ fleet' = SelectSeq(fleet, LAMBDA x : x # d)
    /\ endpoints' = endpoints \ {d} /\ loaded' = loaded \ {d}
    /\ UNCHANGED <<radio, cursor, turn, outbox, phase, running, frame, sends>>
(* flash and unflash: both reset the device, and with it its radio; the     *)
(* callsites of a freshly loaded brain are new.                             *)
Flash(d) ==
    /\ phase = "idle" /\ d \in ToSet(fleet)
    /\ loaded' = loaded \cup {d}
    /\ radio' = [radio EXCEPT ![d] = PowerOn] /\ cursor' = [cursor EXCEPT ![d] = Unarmed]
    /\ UNCHANGED <<fleet, endpoints, turn, outbox, phase, running, frame, sends>>
Unflash(d) ==
    /\ phase = "idle" /\ d \in loaded
    /\ loaded' = loaded \ {d}
    /\ radio' = [radio EXCEPT ![d] = PowerOn] /\ cursor' = [cursor EXCEPT ![d] = Unarmed]
    /\ UNCHANGED <<fleet, endpoints, turn, outbox, phase, running, frame, sends>>
StartDriver ==
    /\ phase = "idle" /\ ~running /\ running' = TRUE
    /\ UNCHANGED <<fleet, endpoints, radio, cursor, loaded, turn, outbox, phase, frame, sends>>
StopDriver ==
    /\ phase = "idle" /\ running /\ running' = FALSE
    /\ UNCHANGED <<fleet, endpoints, radio, cursor, loaded, turn, outbox, phase, frame, sends>>

(* tick: every instance in list order, then deliverOutbox.                  *)
BeginFrame ==
    /\ phase = "idle" /\ running /\ frame < MaxFrames
    /\ phase' = "think" /\ turn' = 1
    /\ UNCHANGED <<fleet, endpoints, radio, cursor, loaded, outbox, running, frame, sends>>
EndThink ==
    /\ phase = "think"
    /\ IF turn < Len(fleet) THEN turn' = turn + 1 /\ UNCHANGED <<phase, outbox>>
       ELSE turn' = 0 /\ phase' = "deliver" /\ outbox' = BySender(outbox)
    /\ UNCHANGED <<fleet, endpoints, radio, cursor, loaded, running, frame, sends>>
Transmit ==
    /\ phase = "deliver" /\ outbox # <<>>
    /\ LET packet == Head(outbox) IN
       radio' = [d \in Devices |-> IF Hears(d, packet) THEN Delivered(radio[d], packet) ELSE radio[d]]
    /\ outbox' = Tail(outbox)
    /\ UNCHANGED <<fleet, endpoints, cursor, loaded, turn, phase, running, frame, sends>>
EndFrame ==
    /\ phase = "deliver" /\ outbox = <<>>
    /\ phase' = "idle" /\ frame' = frame + 1
    /\ UNCHANGED <<fleet, endpoints, radio, cursor, loaded, turn, outbox, running, sends>>

(* The radio tiles, called while a device thinks.                           *)
(* Mutant: the packet goes out at once.                                     *)
RadioSendNow(d, payload) ==
    /\ Thinking(d) /\ sends < MaxSends /\ sends' = sends + 1
    /\ LET packet == [from |-> d, type |-> RecordFor(payload), group |-> radio[d].group] IN
       /\ packet.type # NotSent
       /\ radio' = [x \in Devices |-> IF Hears(x, packet) THEN Delivered(radio[x], packet) ELSE radio[x]]
    /\ UNCHANGED <<fleet, endpoints, cursor, loaded, turn, outbox, phase, running, frame>>
RadioSend(d, payload) ==
    /\ Thinking(d) /\ sends < MaxSends /\ sends' = sends + 1
    /\ LET packet == [from |-> d, type |-> RecordFor(payload), group |-> radio[d].group] IN
       outbox' = IF packet.type = NotSent THEN outbox ELSE Append(outbox, packet)
    /\ UNCHANGED <<fleet, endpoints, radio, cursor, loaded, turn, phase, running, frame>>
SetRadioGroup(d, g) ==
    /\ Thinking(d)
    /\ radio' = [radio EXCEPT ![d].group = g]
    /\ UNCHANGED <<fleet, endpoints, cursor, loaded, turn, outbox, phase, running, frame, sends>>
(* The first evaluation on a page arms the cursor to the head of the ring;  *)
(* a later one delivers the next packet, if any.                            *)
Receive(d, site) ==
    /\ Thinking(d) /\ site # "batch"
    /\ IF ~cursor[d][site].armed
       THEN cursor' = [cursor EXCEPT ![d][site] = [armed |-> TRUE, at |-> radio[d].last]]
       ELSE /\ Candidates(d, site) # {}
            /\ cursor' = [cursor EXCEPT ![d][site].at = NextAfter(d, site).seq]
    /\ UNCHANGED <<fleet, endpoints, radio, loaded, turn, outbox, phase, running, frame, sends>>
(* Radio.currentSeq and Radio.receive(since) of user code: it takes every   *)
(* packet after its cursor and moves the cursor to the last of them.        *)
ReceiveBatch(d) ==
    /\ Thinking(d) /\ "batch" \in Sites
    /\ IF ~cursor[d]["batch"].armed
       THEN cursor' = [cursor EXCEPT ![d]["batch"] = [armed |-> TRUE, at |-> radio[d].last]]
       ELSE /\ Candidates(d, "batch") # {}
            /\ cursor' = [cursor EXCEPT ![d]["batch"].at = radio[d].ring[Max(Candidates(d, "batch"))].seq]
    /\ UNCHANGED <<fleet, endpoints, radio, loaded, turn, outbox, phase, running, frame, sends>>
(* onPageEntered clears the callsites of the page, not the user's variables.*)
EnterPage(d) ==
    /\ Thinking(d)
    /\ cursor' = [cursor EXCEPT ![d] = [s \in Sites |-> IF s = "batch" THEN @[s] ELSE Unarmed[s]]]
    /\ UNCHANGED <<fleet, endpoints, radio, loaded, turn, outbox, phase, running, frame, sends>>

Next ==
    \/ \E d \in Devices :
         \/ AddInstance(d) \/ RemoveInstance(d) \/ Flash(d) \/ Unflash(d)
         \/ EnterPage(d) \/ ReceiveBatch(d)
         \/ \E p \in Sent : RadioSend(d, p)
         \/ \E g \in Groups : SetRadioGroup(d, g)
         \/ \E s \in Sites : Receive(d, s)
    \/ StartDriver \/ StopDriver \/ BeginFrame \/ EndThink \/ Transmit \/ EndFrame
Spec == Init /\ [][Next]_vars

-----------------------------------------------------------------------------
Types == {"Number", "Double", "String", "Buffer", "Value", "Raw"}
TypeOK ==
    /\ endpoints = ToSet(fleet) /\ IsInjective(fleet) /\ loaded \subseteq endpoints
    /\ \A d \in Devices :
         /\ radio[d].group \in Groups
         /\ \A i \in DOMAIN radio[d].ring : radio[d].ring[i].type \in Types /\ radio[d].ring[i].from \in Devices
    /\ turn \in 0..(Len(fleet) + 1) /\ (phase = "think") = (turn > 0)
    /\ phase \in {"idle", "think", "deliver"}

(* Radio.deliver: the ring holds the latest packets, at most Depth, in the  *)
(* order they arrived and without a gap, and no cursor is ahead of it.      *)
RingSound ==
    \A d \in Devices :
        LET ring == radio[d].ring IN
        /\ Len(ring) <= Depth
        /\ \A i \in DOMAIN ring : ring[i].seq = radio[d].last - Len(ring) + i
        /\ \A s \in Sites : cursor[d][s].at <= radio[d].last

(* SharedMedium.transmit: the sender is never delivered its own packet.     *)
NotOwn == \A d \in Devices : \A i \in DOMAIN radio[d].ring : radio[d].ring[i].from # d

(* deliverOutbox: the order of delivery is the same in whatever order the   *)
(* devices thought.                                                         *)
OrderIndependent ==
    \A order \in SetToAllKPermutations(Devices) :
        Len(order) = Cardinality(Devices) =>
            LET box == FoldLeft(LAMBDA sent, d : sent \o SentBy(outbox, d), <<>>, order)
            IN  BySender(box) = BySender(outbox)

(* What the rings hold is what the others sent, in one order for all.       *)
FleetSound == TypeOK /\ RingSound /\ NotOwn /\ OrderIndependent

(* tick: what is sent in a frame reaches nobody before the frame is over,   *)
(* so the order of the devices within it does not show.                     *)
NextThink ==
    [][\A d \in Devices : radio'[d].last # radio[d].last =>
         phase = "deliver" \/ radio'[d] = PowerOn]_vars

(* The arrival numbers of the packets of a ring at the places P.            *)
Numbers(ring, P) ==
    LET numbers[n \in 0..Len(ring)] ==
            IF n = 0 THEN <<>>
            ELSE IF n \in P THEN Append(numbers[n - 1], ring[n].seq) ELSE numbers[n - 1]
    IN  numbers[Len(ring)]
(* What a receive site of a device has still to read: the queue that        *)
(* LossyQueue specifies.                                                    *)
Unread(d, s) ==
    IF cursor[d][s].armed THEN Numbers(radio[d].ring, Candidates(d, s)) ELSE <<>>

(* A receive sensor is served first in, first out, loses only the oldest    *)
(* and reads nothing twice (Radio.nextAfter); user code that reads in       *)
(* batches with Radio.receive(since) is promised the same, the whole queue  *)
(* at a time.                                                               *)
Reader(d, s) == INSTANCE LossyQueue WITH Batch <- (s = "batch"),
    queue <- Unread(d, s), open <- cursor[d][s].armed, passed <- cursor[d][s].at
ReaderStep(d, s) == [Reader(d, s)!LossyNext]_(Reader(d, s)!lossyVars)
ReadersServed ==
    /\ \A d \in Devices, s \in Sites : Reader(d, s)!LossyInit
    /\ [][\A d \in Devices, s \in Sites : UNCHANGED <<radio[d], cursor[d][s]>> \/ ReaderStep(d, s)]_vars
=============================================================================
