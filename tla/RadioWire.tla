------------------------------ MODULE RadioWire ------------------------------
(***************************************************************************)
(* What a radio packet is on the air, and what arrives: encodeRadioFrame   *)
(* and decodeRadioFrame of core/radio.ts, the send functions of            *)
(* wendoo/module.ts, the scripted messages of rehearsal/world.ts, which    *)
(* pass through a frame, and the simulated ether, which does not.          *)
(*                                                                         *)
(* A text is a sequence of UTF-16 units: "a", "e" and "c" stand for a      *)
(* character of one, two and three UTF-8 bytes, and the surrogates "hi"    *)
(* and "lo" for one of four.  A frame is a function from offsets to cells, *)
(* and a cell names the item and the byte of it that lies there, so that   *)
(* fields that overlap show.                                               *)
(***************************************************************************)
EXTENDS Integers, Sequences, FiniteSets, SequencesExt, FiniteSetsExt

CONSTANTS
    Texts,      \* the texts and names that are sent
    Integers32, Fractions,  \* the numbers: whole, and in halves
    ByteCounts, \* the lengths of the byte buffers
    Times       \* the sender's running times
WireParameters ==
    /\ \A v \in Integers32 \cup Fractions : v \in -33554431..33554431
    /\ Integers32 \cap Fractions = {} /\ ByteCounts \subseteq Nat /\ IsFiniteSet(ByteCounts)

PACKET == 32
PREFIX == 9
PAYLOAD == 20
NAME == 8
NameLengthOffset == [Value |-> 13, DoubleValue |-> 17]
Framed == {"Number", "Value", "String", "Buffer", "Double", "DoubleValue"}

VARIABLES packet, frame, heard, stage
vars == <<packet, frame, heard, stage>>

-----------------------------------------------------------------------------
(* TextEncoder: a pair is one character, a surrogate alone is U+FFFD ("R"). *)
Chars(units) ==
    LET Joined == FoldLeft(LAMBDA acc, u :
            IF u = "lo" /\ acc # <<>> /\ Last(acc) = "hi" THEN Append(Front(acc), "pair")
            ELSE Append(acc, u), <<>>, units)
    IN  [i \in DOMAIN Joined |-> IF Joined[i] \in {"hi", "lo"} THEN "R" ELSE Joined[i]]
Width(c) == CASE c = "a" -> 1 [] c = "e" -> 2 [] c \in {"c", "R"} -> 3 [] c = "pair" -> 4
ByteLength(chars) == FoldLeft(LAMBDA n, c : n + Width(c), 0, chars)
Utf8(chars) == FoldLeft(LAMBDA acc, c : acc \o [k \in 1..Width(c) |-> <<c, k>>], <<>>, chars)
(* TextDecoder: an incomplete sequence is U+FFFD.                           *)
Decoded(cells) ==
    LET starts == SelectSeq([i \in DOMAIN cells |-> i], LAMBDA i : cells[i][2] = 1)
        Complete(i) == \A k \in 1..Width(cells[i][1]) :
                           i + k - 1 \in DOMAIN cells /\ cells[i + k - 1] = <<cells[i][1], k>>
    IN  [j \in DOMAIN starts |-> IF Complete(starts[j]) THEN cells[starts[j]][1] ELSE "R"]

(* truncateUtf8: one UTF-16 unit at a time is dropped until the rest fits.  *)
TruncateUtf8(text, max) ==
    Chars(SubSeq(text, 1, Max({n \in 0..Len(text) : ByteLength(Chars(SubSeq(text, 1, n))) <= max})))

(* Math.fround for whole numbers below 2^25, ties to even.                  *)
Fround(v) ==
    LET mag == IF v < 0 THEN -v ELSE v
        half == mag \div 2
        near == IF mag <= 16777216 \/ mag % 2 = 0 THEN mag
                ELSE IF half % 2 = 0 THEN mag - 1 ELSE mag + 1
    IN  IF v < 0 THEN -near ELSE near
(* toInt32 of a running time of 32 bits; TLC has no integers that large, so *)
(* a time is <<high half, low part>>, the high half the sign bit.           *)
Int32(time) == <<IF time[1] = 1 THEN -1 ELSE 0, time[2]>>

-----------------------------------------------------------------------------
(* An item of n bytes, and what is read back from the cells it was put in.  *)
Item(tag, v, n) == [k \in 1..n |-> <<tag, v, k>>]
Put(f, offset, cells) ==
    [i \in DOMAIN f |-> IF i - offset + 1 \in DOMAIN cells THEN cells[i - offset + 1] ELSE f[i]]
Get(f, offset, n) == [k \in 1..n |-> f[offset + k - 1]]
Garbled == 99
(* The number the cells hold, if they are all one number's.                 *)
Read(f, offset, tag, n) ==
    IF \E v \in Integers32 \cup Fractions : Get(f, offset, n) = Item(tag, v, n)
    THEN f[offset][2] ELSE Garbled
Lengthed(cells) == << <<"len", Len(cells), 1>> >> \o [k \in DOMAIN cells |-> <<"byte", cells[k][1], cells[k][2]>>]
WriteString(f, offset, text, max) == Put(f, offset, Lengthed(Utf8(TruncateUtf8(text, max))))
ReadCells(f, offset) ==
    IF f[offset][1] # "len" THEN <<>>
    ELSE LET cells == Get(f, offset + 1, f[offset][2])
         IN  [k \in DOMAIN cells |-> <<cells[k][2], cells[k][3]>>]

(* The buffer of n bytes, each told from the others.                        *)
Bytes(n) == [k \in 1..n |-> <<"b", k>>]

Empty == [i \in 0..(PACKET - 1) |-> <<"zero", 0, 0>>]
(* Mutant: both kinds of pair keep the name where the short one does.       *)
NamedOverlap(f, p) == WriteString(f, 13, p.name, NAME)
Named(f, p) == WriteString(f, NameLengthOffset[p.type], p.name, NAME)
BufferCells(p) == Lengthed(Bytes(Min({p.bytes, PAYLOAD - 1})))
Payload(f, p) ==
    CASE p.type = "Number" -> Put(f, PREFIX, Item("int32", p.value, 4))
      [] p.type = "Value" -> Named(Put(f, PREFIX, Item("int32", p.value, 4)), p)
      [] p.type = "Double" -> Put(f, PREFIX, Item("float64", p.value, 8))
      [] p.type = "DoubleValue" -> Named(Put(f, PREFIX, Item("float64", p.value, 8)), p)
      [] p.type = "String" -> WriteString(f, PREFIX, p.text, PAYLOAD - 1)
      [] p.type = "Buffer" -> Put(f, PREFIX, BufferCells(p))
EncodeRadioFrame(p) ==
    Payload([Empty EXCEPT ![0] = <<"type", p.type, 1>>, ![1] = <<"time", Int32(p.time), 1>>], p)

Nothing == [type |-> "none", value |-> 0, name |-> <<>>, text |-> <<>>, bytes |-> <<>>, time |-> <<0, 0>>]
DecodeRadioFrame(f) ==
    LET type == f[0][2]
        bare == [Nothing EXCEPT !.type = type, !.time = f[1][2]]
        name(p) == [p EXCEPT !.name = Decoded(ReadCells(f, NameLengthOffset[type]))]
    IN  CASE type = "Number" -> [bare EXCEPT !.value = Fround(Read(f, PREFIX, "int32", 4))]
          [] type = "Value" -> name([bare EXCEPT !.value = Fround(Read(f, PREFIX, "int32", 4))])
          [] type = "Double" -> [bare EXCEPT !.value = Read(f, PREFIX, "float64", 8)]
          [] type = "DoubleValue" -> name([bare EXCEPT !.value = Read(f, PREFIX, "float64", 8)])
          [] type = "String" -> [bare EXCEPT !.text = Decoded(ReadCells(f, PREFIX))]
          [] type = "Buffer" -> [bare EXCEPT !.bytes = ReadCells(f, PREFIX)]

-----------------------------------------------------------------------------
(* The send functions and the send tile: the type follows the value.        *)
Bare == [type |-> "Number", value |-> 0, name |-> <<>>, text |-> <<>>, bytes |-> 0, time |-> <<0, 0>>]
Init == packet = Bare /\ frame = Empty /\ heard = Nothing /\ stage = "idle"
Compose(p) ==
    /\ stage = "idle" /\ stage' = "sent" /\ \E t \in Times : packet' = [p EXCEPT !.time = t]
    /\ UNCHANGED <<frame, heard>>
SendNumber(v) == Compose([Bare EXCEPT !.type = IF v \in Integers32 THEN "Number" ELSE "Double", !.value = v])
SendValue(name, v) ==
    Compose([Bare EXCEPT !.type = IF v \in Integers32 THEN "Value" ELSE "DoubleValue", !.value = v, !.name = name])
SendString(text) == Compose([Bare EXCEPT !.type = "String", !.text = text])
SendBuffer(n) == Compose([Bare EXCEPT !.type = "Buffer", !.bytes = n])
SendRawBuffer(n) == Compose([Bare EXCEPT !.type = "Raw", !.bytes = n])

(* A scripted message: the frame is encoded, decoded and delivered.         *)
Encode ==
    /\ stage = "sent" /\ packet.type \in Framed
    /\ frame' = EncodeRadioFrame(packet) /\ stage' = "air"
    /\ UNCHANGED <<packet, heard>>
Decode ==
    /\ stage = "air" /\ heard' = DecodeRadioFrame(frame) /\ stage' = "heard"
    /\ UNCHANGED <<packet, frame>>
(* The simulated ether hands over the sender's packet; a brain's numbers    *)
(* have single precision already.                                           *)
ToIncoming(p) ==
    [Nothing EXCEPT !.type = p.type, !.value = p.value, !.name = Chars(p.name),
                    !.text = Chars(p.text), !.bytes = Bytes(p.bytes)]
Ether ==
    /\ stage = "sent" /\ Fround(packet.value) = packet.value
    /\ heard' = ToIncoming(packet) /\ stage' = "ether"
    /\ UNCHANGED <<packet, frame>>
Again == stage \in {"heard", "ether"} /\ packet' = Bare /\ frame' = Empty /\ heard' = Nothing /\ stage' = "idle"

Next ==
    \/ \E v \in Integers32 \cup Fractions : SendNumber(v) \/ \E name \in Texts : SendValue(name, v)
    \/ \E text \in Texts : SendString(text)
    \/ \E n \in ByteCounts : SendBuffer(n) \/ SendRawBuffer(n)
    \/ Encode \/ Decode \/ Ether \/ Again
Spec == Init /\ [][Next]_vars

-----------------------------------------------------------------------------
TypeOK ==
    /\ stage \in {"idle", "sent", "air", "heard", "ether"} /\ DOMAIN frame = 0..(PACKET - 1)
    /\ packet.type \in Framed \cup {"Raw"} /\ heard.type \in Framed \cup {"Raw", "none"}

(* encodeRadioFrame and decodeRadioFrame: the number arrives, at single     *)
(* precision, whatever name lies beside it.                                 *)
NumberArrives ==
    stage = "heard" =>
        /\ heard.type = packet.type
        /\ heard.value = IF packet.value \in Integers32 THEN Fround(packet.value) ELSE packet.value
        /\ heard.time = Int32(packet.time)

(* The longest run of whole characters that fits.                           *)
WholePrefix(text, max) ==
    LET chars == Chars(text)
    IN  SubSeq(chars, 1, Max({n \in 0..Len(chars) : ByteLength(SubSeq(chars, 1, n)) <= max}))
Cut(kept, text, max) ==
    LET whole == WholePrefix(text, max) IN
    /\ ByteLength(kept) <= max
    /\ kept = whole \/ /\ kept = Append(whole, "R")
                       /\ Chars(text)[Len(whole) + 1] = "pair"
(* A text and a name arrive as the longest whole prefix that fits, but for  *)
(* a pair that is cut in two and arrives as U+FFFD if that fits.            *)
TextArrives ==
    stage = "heard" => Cut(heard.text, packet.text, PAYLOAD - 1) /\ Cut(heard.name, packet.name, NAME)

(* A buffer arrives as its first 19 bytes, in place.                        *)
BytesArrive ==
    stage = "heard" /\ packet.type = "Buffer" => heard.bytes = Bytes(Min({packet.bytes, 19}))

(* docs/specs/radio.md: the simulated ether does not encode, and hands over *)
(* what the air would of every record that fits a frame.                    *)
FitsFrame(p) ==
    /\ p.type \in Framed /\ p.bytes <= 19
    /\ ByteLength(Chars(p.text)) <= PAYLOAD - 1 /\ ByteLength(Chars(p.name)) <= NAME
EtherAsAir ==
    stage = "ether" /\ FitsFrame(packet) =>
        heard = [DecodeRadioFrame(EncodeRadioFrame(packet)) EXCEPT !.time = heard.time]

=============================================================================
