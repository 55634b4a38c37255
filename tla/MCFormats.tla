------------------------------ MODULE MCFormats ------------------------------
(***************************************************************************)
(* The formats WODAL writes and reads, on small instances: a program in a  *)
(* firmware image, the pictures of the literal editor, the sounds of CODAL *)
(* and their synthesis, and the observable trace.  They share no state, so *)
(* a behaviour moves one of them, and the properties of all are checked    *)
(* together.                                                               *)
(***************************************************************************)
EXTENDS SoundExpression, IntelHex

CONSTANT NoHex

VARIABLES
    part,                                        \* which of them moves
    out, origin, exit, flash, loaded, boot,      \* the firmware
    tile, open, state, level, picture, touched, dabs,   \* the literal editor
    values, spoilt, stage,                       \* a sound that is decoded
    sound, segment, written, step, skip, position, low, output,   \* one that is rendered
    events, lines                                \* the traces of two runs
firmware == <<out, origin, exit, flash, loaded, boot>>
drawing == <<tile, open, state, level, picture, touched, dabs>>
decoding == <<values, spoilt, stage>>
rendering == <<sound, segment, written, step, skip, position, low, output>>
traces == <<events, lines>>

-----------------------------------------------------------------------------
(* Firmware: two banks of 32 bytes with the region across their border, one *)
(* firmware that ends in the upper bank and one without an end; programs as *)
(* long as the region, a byte longer, and short.                            *)
HighEnd == <<Record(0, DataType, <<9, 8, 7, 6>>), Record(0, UpperType, <<1>>),
             Record(28, DataType, <<5, 5>>), EofRecord>>
Endless == <<Record(0, DataType, <<1, 2, 3, 4>>)>>

Short == <<1, 1, 221>>   \* the bytes of its first record add up to 0
Full == <<1, 7, 250, 250, 250, 250, 250, 250, 250>>
TooLong == <<1, 8, 1, 1, 1, 1, 1, 1, 1, 1>>
Foreign == <<2, 1, 60>>  \* of another profile
File(encoding, profile, lacks, program) ==
    [encoding |-> encoding, profile |-> profile, lacks |-> lacks, program |-> program]
ProgramFiles ==
    {File("binary", "none", {}, p) : p \in {Short, Full, TooLong, Foreign}}
      \cup {File("json", "microbit-v2", {}, p) : p \in {Short, Full, TooLong}}
      \cup {File("json", "other", {}, Foreign)}
      \cup {File("json", profile, lacks, Short) : profile \in {"none", "other", "microbit-v2"},
                                                  lacks \in {{"format"}, {"program"}, {"format", "program"}}}
Linkings ==
    {[link |-> link, image |-> image, program |-> p] :
        link \in {"threw", "no program", "linked"}, image \in BOOLEAN, p \in {Short, TooLong}}
Firmware == INSTANCE FirmwareImage WITH
    RecordLength <- 4, BankSize <- 32, Banks <- 2, PageSize <- 8, RegionOffset <- 24, RegionSize <- 14,
    Firmwares <- {HighEnd, Endless}, Files <- ProgramFiles, Builds <- Linkings, MaxRecords <- 10

-----------------------------------------------------------------------------
(* Pictures: the built-in heart and images of other sizes, with brightnesses *)
(* between the levels, and a short buffer.                                   *)
Heart == { <<0, 1>>, <<0, 3>> } \cup ((1 .. 2) \X (0 .. 4)) \cup { <<3, 1>>, <<3, 2>>, <<3, 3>>, <<4, 2>> }
Shades == <<0, 8, 9, 16, 25, 26, 128, 255>>
\* A picture of the size whose cells run through the shades.
Shaded(w, h, held) ==
    [width |-> w, height |-> h, held |-> held,
     cells |-> [c \in (0 .. h - 1) \X (0 .. w - 1) |-> Shades[((3 * c[1] + 5 * c[2]) % 8) + 1]]]
Nothing == Shaded(0, 0, 0)
Editor == INSTANCE ImageLiteral WITH
    GridSize <- 5, Wells <- {0, 4, 12, 24}, Levels <- {1, 9, 15}, MaxTaps <- 2, Icons <- {Heart},
    Pictures <- {Shaded(5, 5, 25), Shaded(3, 7, 21), Shaded(8, 2, 16), Shaded(6, 5, 20), Nothing}

-----------------------------------------------------------------------------
(* Decoding: segments written out from the values of their fields as CODAL   *)
(* writes them, with a character spoilt here and there, alone and in a sound *)
(* of two.                                                                   *)
Digits(n, width) == [i \in 1 .. width |-> (n \div 10 ^ (width - i)) % 10]
Random(width) == [i \in 1 .. width |-> 8]
Encoded(v) ==
    Digits(v.wave, 1) \o Digits(v.volume, 4) \o Digits(v.frequency, 4) \o Digits(v.duration, 4)
    \o Digits(v.shape, 2) \o Random(3) \o Digits(v.endFrequency, 4) \o Random(4)
    \o Digits(v.endVolume, 4) \o Digits(v.steps, 4) \o Digits(v.fxChoice, 2)
    \o Digits(v.fxParam, 4) \o Digits(v.fxnSteps, 4) \o Random(28)
FieldValues ==
    [wave : {0, 4, 9}, volume : {0, 1500}, frequency : {37}, duration : {16, 9999},
     shape : 0 .. 19, endFrequency : {2404}, endVolume : {1023, 1024}, steps : {128},
     fxChoice : {0, 1, 2, 3, 99}, fxParam : {241}, fxnSteps : {0, 24}]
Plainest == CHOOSE v \in FieldValues : TRUE
Untouched == [at |-> 0, short |-> FALSE]
SpoiltAt == [at : {0, 1, 8, 16, 21, 24, 29, 39, 43, 44, 72}, short : BOOLEAN]
Written ==
    LET text == Encoded(values)
        spoiled == [i \in DOMAIN text |-> IF i = spoilt.at THEN NotDigit ELSE text[i]]
    IN  IF spoilt.short THEN Front(spoiled) ELSE spoiled

DecodingInit ==
    /\ stage = "written"
    /\ values \in FieldValues /\ spoilt \in SpoiltAt
    /\ spoilt = Untouched \/ values = Plainest
Decodes == stage = "written" /\ stage' = "decoded" /\ UNCHANGED <<values, spoilt>>

(* A segment is refused exactly when it is not 72 characters long or one of *)
(* the characters that are read is no digit: a spoilt random part is no     *)
(* error, and both decoders refuse the same segments, also inside a sound   *)
(* (decodeSoundExpression, decodeSoundExpressionRaw).                       *)
ReadPositions == (1 .. 15) \cup (19 .. 22) \cup (27 .. 44)
RefusedTogether ==
    part = "decoding" =>
    LET bad == spoilt.short \/ spoilt.at \in ReadPositions
        good == Encoded(values)
    IN  /\ (DecodeSegment(Written) = Malformed) = bad
        /\ (DecodeSoundExpressionRaw(<<good, Written>>) = Malformed) = bad
        /\ (DecodeSoundExpression(<<Written, good>>) = Malformed) = bad

(* What CODAL wrote is what is read: every field has its value back         *)
(* (parseField and the offsets of decodeSegment).                           *)
FieldsRecovered == part = "decoding" /\ spoilt = Untouched => Fields(Written) = values

(* The two decoders tell of one sound: the same waveform and length, the    *)
(* same sweep and end frequency, the same modulation with its steps, and    *)
(* volumes that agree below the largest one (decodeSegment,                 *)
(* decodeRawSegment).                                                       *)
DecodersAgree ==
    part = "decoding" /\ spoilt = Untouched =>
        LET view == DecodeSegment(Written)[1]
            raw == DecodeRawSegment(Written)[1]
            sweep == raw.effects[1]
            ramp == raw.effects[2]
            modulation == raw.effects[3]
        IN  /\ view.waveform = raw.waveform /\ view.durationMs = raw.durationMs
            /\ view.interpolation = sweep.kind /\ view.steps = sweep.steps
            /\ view.endFrequency = IF sweep.param = 0 THEN raw.frequency ELSE sweep.param
            /\ (sweep.progression # <<>>) =
                   (view.interpolation \in {"arpeggio-ascending", "arpeggio-descending"})
            /\ view.effect = modulation.kind /\ view.effectParam = modulation.param
            /\ view.effectSteps \div 10000 = modulation.steps
            /\ view.startVolume < 1024 => raw.volume = view.startVolume
            /\ view.endVolume < 1024 => ramp.param = view.endVolume

-----------------------------------------------------------------------------
(* Rendering: sounds of one or two segments whose slots have fewer and more  *)
(* steps than the segment has samples, a tone, and the empty sound.          *)
Effect(kind, steps) == [kind |-> kind, steps |-> steps]
Effects == { <<Effect(k, a), Effect("volume-ramp", b), Effect(m, c)>> :
                 k \in {"curve", "none"}, m \in {"frequency-vibrato", "volume-tremolo"},
                 a \in {0, 2, 7}, b \in {4}, c \in {0, 1, 3} }
Segments == [durationMs : {0, 4, 12}, effects : Effects]
Tone == [durationMs |-> 0 - 9, effects |-> <<Effect("none", 0), Effect("none", 0), Effect("none", 0)>>]
Sounds ==
    {<<>>, <<Tone>>} \cup {<<s>> : s \in Segments} \cup {<<s, Tone>> : s \in Segments}
      \cup {<<Tone, s>> : s \in {s \in Segments : s.durationMs = 4 /\ s.effects[1].steps = 7}}
Synthesis == INSTANCE SoundSynthesis WITH Rate <- 700, Width <- 8, Skips <- {0, 3, 21}

-----------------------------------------------------------------------------
(* Traces: values of every kind, strings that could be taken for the end of  *)
(* one, nested and empty lists, argument lists of up to two values, enums    *)
(* and structs that differ by their type alone, numbers that differ by what  *)
(* single precision leaves out, and ids that are equal in a word.            *)
Value(t, type, number, bytes, slots, native) ==
    [t |-> t, type |-> type, number |-> number, bytes |-> bytes, slots |-> slots, native |-> native]
Plain(t) == Value(t, "", <<>>, <<>>, <<>>, FALSE)
Bytes(t, s) == Value(t, "", <<>>, s, <<>>, FALSE)
ListOf(t, slots) == Value(t, "", <<>>, <<>>, slots, FALSE)
Doubles == { <<"a", "0">>, <<"a", "1">>, <<"b", "0">> }
Texts == { <<>>, <<"quote">>, <<"backslash">>, <<"backslash", "quote">>, <<"newline">>, <<"x", "newline">> }
Numeral(x) == Value("number", "", x, <<>>, <<>>, FALSE)
One == Numeral(<<"a", "0">>)
Leaves ==
    {Plain("void"), Plain("nil"), Bytes("bool", <<"1">>), Bytes("buffer", <<>>), Bytes("buffer", <<"ff">>),
     Plain("function"), Value("struct", "", <<>>, <<>>, <<>>, TRUE)}
    \cup {Value("enum", type, <<>>, <<"letter">>, <<>>, FALSE) : type \in {"Note", "Mode"}}
    \cup {Numeral(x) : x \in Doubles} \cup {Bytes("string", s) : s \in Texts}
Nested ==
    {ListOf(t, <<>>) : t \in {"list", "struct"}} \cup {ListOf("list", <<v>>) : v \in {Plain("nil"), One}}
    \cup {ListOf("list", <<One, One>>), ListOf("list", <<ListOf("list", <<>>), One>>),
          ListOf("list", <<ListOf("list", <<One>>)>>)}
    \cup {Value("struct", type, <<>>, <<>>, <<One>>, FALSE) : type \in {"Note", "Mode"}}
Tricky == {Plain("nil"), ListOf("list", <<>>), ListOf("list", <<Plain("nil")>>), Bytes("string", <<"quote">>)}
Arguments == {<<>>} \cup {<<v>> : v \in Leaves \cup Nested} \cup {<<v, w>> : v \in Tricky, w \in Tricky}
Outcomes == {<<>>, <<Plain("void")>>}
VMs == {"vm", "reference"}
AllPorts ==
    {"display set-pixel", "display scroll", "display draw", "display clear", "i2c write", "i2c read",
     "gpio digital-write", "gpio digital-read", "gpio set-pull", "gpio servo-write", "gpio analog-read",
     "sonar distance", "speaker play", "speaker tone"}

\* Every event, one per run; and runs of two events, of each kind a few.
Trace == INSTANCE ObservableTrace WITH
    Args <- Arguments, Results <- Outcomes, Numbers <- Doubles, Ids <- {1, -1, 3}, Called <- AllPorts,
    Texts <- Texts, Buffers <- {<<>>, <<"00">>, <<"ff">>}, Runs <- VMs, Precision <- "f32", Word <- 4,
    MaxEvents <- 1, out <- lines
Traces == INSTANCE ObservableTrace WITH
    Args <- {<<>>, <<Bytes("string", <<"newline">>)>>}, Results <- Outcomes, Numbers <- {<<"a", "0">>},
    Ids <- {1}, Called <- {"display scroll", "display clear", "gpio servo-write"},
    Texts <- {<<"quote">>}, Buffers <- {<<>>}, Runs <- VMs, Precision <- "f64", Word <- 4,
    MaxEvents <- 2, out <- lines

-----------------------------------------------------------------------------
ASSUME FormatsAssumption ==
    Editor!GridParameters /\ Editor!PictureParameters /\ Firmware!LayoutParameters /\ Synthesis!SynthesisParameters

FormatsInit ==
    /\ part \in {"firmware", "pictures", "decoding", "rendering", "event", "traces"}
    /\ Firmware!Init
    /\ Editor!Init /\ (part # "pictures" => picture = Nothing)
    /\ DecodingInit /\ (part # "decoding" => values = Plainest /\ spoilt = Untouched)
    /\ Synthesis!Init /\ (part # "rendering" => sound = <<>> /\ skip = 0)
    /\ IF part = "traces" THEN Traces!Init ELSE Trace!Init
FormatsNext ==
    /\ UNCHANGED part
    /\ \/ part = "firmware" /\ Firmware!Next /\ UNCHANGED <<drawing, decoding, rendering, traces>>
       \/ part = "pictures" /\ Editor!Next /\ UNCHANGED <<firmware, decoding, rendering, traces>>
       \/ part = "decoding" /\ Decodes /\ UNCHANGED <<firmware, drawing, rendering, traces>>
       \/ part = "rendering" /\ Synthesis!Next /\ UNCHANGED <<firmware, drawing, decoding, traces>>
       \/ part = "event" /\ Trace!Next /\ UNCHANGED <<firmware, drawing, decoding, rendering>>
       \/ part = "traces" /\ Traces!Next /\ UNCHANGED <<firmware, drawing, decoding, rendering>>
formatsVars == <<part, firmware, drawing, decoding, rendering, traces>>
FormatsSpec ==
    /\ FormatsInit /\ [][FormatsNext]_formatsVars
    /\ WF_formatsVars(part = "rendering" /\ Synthesis!Next /\ UNCHANGED <<part, firmware, drawing, decoding, traces>>)

-----------------------------------------------------------------------------
(* A patched firmware loads, keeps every byte outside the region, and boots *)
(* the program that was last patched into it; a program of another profile  *)
(* reaches a device only as a binary; and the errors of a file are named in *)
(* the order of its fields, each once (firmware-patcher.ts, the boot of     *)
(* main.cpp, wodalProgramBytes, insertUnsupportedProfileError).             *)
FirmwareBoots ==
    part = "firmware" =>
        Firmware!TypeOK /\ Firmware!FirmwareIntact /\ Firmware!BootsTheProgram
            /\ Firmware!OthersOnlyAsBinary /\ Firmware!ErrorsInOrder
(* An image survives the editor: a cell nobody tapped keeps what the first  *)
(* picture showed there, to half a step, a cell tapped twice is lit as it   *)
(* was, the device draws what the tile previews, and a saved tile opens     *)
(* again on what the editor showed (imageGridBytes, paintGridDigit,         *)
(* clipImage, parseValue, toInputState).                                    *)
PicturesKept ==
    [](part = "pictures" =>
           Editor!TypeOK /\ Editor!UntouchedKept /\ Editor!DrawnAsPreviewed /\ Editor!TwiceIsNothing)
        /\ Editor!SavedAsDrawn
(* A sound is heard as CODAL wrote it: both decoders refuse the same texts, *)
(* read every field where it stands and tell of one sound; a sample hears   *)
(* exactly the steps whose boundary is not after it, whatever the rounding  *)
(* of the boundaries, none is left unfired, and the render ends             *)
(* (decodeSegment, decodeRawSegment, effectStepEnd, renderSegment).         *)
SoundsHeard ==
    /\ [](RefusedTogether /\ FieldsRecovered /\ DecodersAgree)
    /\ [](part = "rendering" =>
              Synthesis!TypeOK /\ Synthesis!NoneBehind /\ Synthesis!HeardOnTime /\ Synthesis!AllFired)
    /\ part = "rendering" => Synthesis!Rendered
(* Two traces are equal exactly when the same events were seen in the same  *)
(* order, as far as the format tells events apart: it names no type, takes  *)
(* whole numbers in 32 bits and others at the profile's precision, and      *)
(* renders nothing of an opaque value (observable-trace.ts).                *)
TracesTellRuns ==
    /\ part = "event" => Trace!TracesTellRuns
    /\ part = "traces" => Traces!TracesTellRuns
=============================================================================
