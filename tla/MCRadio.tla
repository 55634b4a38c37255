------------------------------ MODULE MCRadio ------------------------------
(***************************************************************************)
(* The radio on small instances: the fleet's medium, the frame a value is  *)
(* packed into, and a rehearsal's scripted world with its receive ring.    *)
(* They share no state, so a behaviour moves one of them, and the          *)
(* invariants of all are checked together.                                 *)
(***************************************************************************)
EXTENDS RadioFleet

VARIABLES
    part,    \* which of the three moves
    packet, airborne, decoded, stage,
    world, script, think, level, rssi, ring, position, felt, mode, lease, settled, published
wire == <<packet, airborne, decoded, stage>>
rehearsal == <<world, script, think, level, rssi, ring, position, felt, mode, lease, settled, published>>

-----------------------------------------------------------------------------
(* Texts of one character of one to four bytes repeated, with at most two   *)
(* of another at the end, on either side of the limits: 8 bytes of a name, *)
(* 19 of a text.                                                           *)
Lengths == {0, 1, 2, 3, 4, 6, 7, 8, 9, 12, 18, 19}
Characters == {<<"a">>, <<"e">>, <<"c">>, <<"hi", "lo">>}
Repeated(c, n) == FlattenSeq([i \in 1..n |-> c])
SomeTexts == {Repeated(c, n) \o Repeated(d, m) :
                 c \in Characters, n \in Lengths, d \in Characters, m \in 0..2}
Wire == INSTANCE RadioWire WITH
    Texts <- SomeTexts, Integers32 <- {0, 7, 0 - 7, 16777217, 0 - 16777219}, Fractions <- {1, 0 - 3},
    ByteCounts <- {0, 1, 18, 19, 20, 21}, Times <- {<<0, 5>>, <<1, 5>>},
    frame <- airborne, heard <- decoded

(* The scripts of a rehearsal: up to two entries of every kind at the first *)
(* three thinks, and a few longer ones.                                     *)
Entry(kind, values, thinks) == [kind : {kind}, at : thinks, value : values]
Entries ==
    Entry("button-a", {0, 1}, {0, 2}) \cup Entry("light-level", {0 - 5, 7, 30}, {0, 1})
        \cup Entry("radio-message-number", {11, 12}, 0 .. 2)
        \cup Entry("radio-signal-strength", {70, 0 - 80}, 0 .. 1)
Message(at, value) == [kind |-> "radio-message-number", at |-> at, value |-> value]
Near(at, value) == [kind |-> "radio-signal-strength", at |-> at, value |-> value]
Longer == { <<Message(1, 11), Near(1, 70), Message(2, 12)>>,
            <<Near(2, 70), Message(1, 11), Message(2, 12)>>,
            <<Message(1, 11), Message(1, 12), Near(2, 70), Message(2, 13)>>,
            <<Message(1, 11), Message(1, 12), Message(1, 13), Message(2, 14)>> }
SomeScripts == {<<>>} \cup {<<a>> : a \in Entries} \cup {<<a, b>> : a \in Entries, b \in Entries} \cup Longer
Rehearsal == INSTANCE RehearsalWorld WITH
    Scripts <- SomeScripts, DefaultRssi <- 0 - 42, Bright <- 20, Depth <- 2, Thinks <- 4,
    MaxOps <- 2, Long <- 2, radio <- ring, cursor <- position

ASSUME RadioAssumption == Wire!WireParameters /\ Rehearsal!RehearsalParameters

RadioInit ==
    /\ part \in {"fleet", "wire", "rehearsal"}
    /\ Init /\ Wire!Init /\ Rehearsal!Init
    /\ part # "rehearsal" => script = <<>>
    /\ part # "fleet" => fleet = <<1>>
RadioNext ==
    /\ UNCHANGED part
    /\ \/ part = "fleet" /\ Next /\ UNCHANGED <<wire, rehearsal>>
       \/ part = "wire" /\ Wire!Next /\ UNCHANGED <<vars, rehearsal>>
       \/ part = "rehearsal" /\ Rehearsal!Next /\ UNCHANGED <<vars, wire>>
RadioSpec == RadioInit /\ [][RadioNext]_<<part, vars, wire, rehearsal>>

-----------------------------------------------------------------------------
(* What fits a frame arrives as it was sent, and what does not is cut at    *)
(* its end: a number at single precision, whatever name lies beside it, a   *)
(* text and a name as the longest whole prefix but for a pair cut in two, a *)
(* buffer in place; and the simulated ether hands over what the air would   *)
(* of what fits (encodeRadioFrame, decodeRadioFrame, truncateUtf8,          *)
(* SharedMedium).                                                           *)
FrameCarries ==
    Wire!TypeOK /\ Wire!NumberArrives /\ Wire!TextArrives /\ Wire!BytesArrive /\ Wire!EtherAsAir
(* A rehearsed brain lives through its script: at every think it reads the  *)
(* last level scripted up to it, receives a message on the think it names   *)
(* and on no other, with the strength of its moment, and every operation    *)
(* that lost its subsystem was told of once, or its caller waited for it    *)
(* (rehearsal/world.ts).                                                    *)
ScriptFollowed ==
    /\ Rehearsal!TypeOK /\ Rehearsal!LevelsHold /\ Rehearsal!ArrivesOnItsThink
    /\ Rehearsal!CarriesItsStrength /\ Rehearsal!ToldOrAnswered
=============================================================================
