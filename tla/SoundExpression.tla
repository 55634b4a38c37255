---------------------------- MODULE SoundExpression ----------------------------
(***************************************************************************)
(* The two decoders of the micro:bit's sound expressions                   *)
(* (sound-expression.ts): a segment is 72 decimal characters, and becomes  *)
(* the view the simulator shows and the raw effect the synthesizer plays.  *)
(*                                                                         *)
(* A character is its digit, NotDigit any other one.  A volume is kept in  *)
(* 1/1023ths and an effect's share of the duration in 1/10000ths, which    *)
(* the code divides out.                                                   *)
(***************************************************************************)
EXTENDS Integers, Sequences, FiniteSets, SequencesExt

Chars == 72         \* CHARS_PER_SEGMENT
NotDigit == 10
NaN == -1
Malformed == <<>>   \* the error that is thrown; a decoded segment is a sequence of one

(* parseField *)
ParseField(segment, offset, digits) ==
    LET slice == SubSeq(segment, offset + 1, offset + digits)
    IN  IF \E i \in DOMAIN slice : slice[i] = NotDigit THEN NaN
        ELSE FoldLeft(LAMBDA n, d : 10 * n + d, 0, slice)

(* Where each field of a segment stands: its offset and its digits.  The    *)
(* others (15..17, 22..25, 44..71) are the random parts and are not read.   *)
At(offset, digits) == [offset |-> offset, digits |-> digits]
Layout ==
    [wave |-> At(0, 1), volume |-> At(1, 4), frequency |-> At(5, 4), duration |-> At(9, 4),
     shape |-> At(13, 2), endFrequency |-> At(18, 4), endVolume |-> At(26, 4),
     steps |-> At(30, 4), fxChoice |-> At(34, 2), fxParam |-> At(36, 4), fxnSteps |-> At(40, 4)]
Fields(segment) ==
    [f \in DOMAIN Layout |-> ParseField(segment, Layout[f].offset, Layout[f].digits)]
Read(segment) == Len(segment) = Chars /\ \A f \in DOMAIN Layout : Fields(segment)[f] # NaN

WaveformFromField(wave) ==
    CASE wave = 1 -> "sawtooth" [] wave = 2 -> "triangle" [] wave = 3 -> "square"
      [] wave = 4 -> "noise" [] OTHER -> "sine"

-----------------------------------------------------------------------------
(* The view: interpolationFromShape, shapeHasEndFrequency, effectFromChoice.*)
InterpolationFromShape(shape) ==
    CASE shape = 1 -> "linear" [] shape = 2 -> "curve" [] shape = 5 -> "exponential-rising"
      [] shape = 6 -> "exponential-falling" [] shape = 18 -> "logarithmic"
      [] shape \in {8, 10, 12, 14, 16} -> "arpeggio-ascending"
      [] shape \in {9, 11, 13, 15, 17} -> "arpeggio-descending"
      [] OTHER -> "none"
Swept == {"linear", "curve", "exponential-rising", "exponential-falling", "logarithmic"}
EffectFromChoice(fxChoice) ==
    CASE fxChoice = 1 -> "frequency-vibrato" [] fxChoice = 2 -> "volume-tremolo"
      [] fxChoice = 3 -> "warble" [] OTHER -> "none"
View(f) ==
    LET interpolation == InterpolationFromShape(f.shape)
        effect == EffectFromChoice(f.fxChoice)
    IN  [waveform |-> WaveformFromField(f.wave), interpolation |-> interpolation,
         startFrequency |-> f.frequency,
         endFrequency |-> IF interpolation \in Swept THEN f.endFrequency ELSE f.frequency,
         steps |-> f.steps, durationMs |-> f.duration,
         startVolume |-> f.volume, endVolume |-> f.endVolume, effect |-> effect,
         effectParam |-> IF effect = "none" THEN 0 ELSE f.fxParam,
         effectSteps |-> IF effect = "none" THEN 0 ELSE f.duration * f.fxnSteps]
DecodeSegment(segment) == IF Read(segment) THEN <<View(Fields(segment))>> ELSE Malformed

-----------------------------------------------------------------------------
(* The raw effect: rawFrequencySlot, the 36 steps of the volume's ramp,     *)
(* rawModulationSlot.                                                       *)
MajorScale == <<0, 2, 4, 5, 7, 9, 11>>
MinorScale == <<0, 2, 3, 5, 7, 8, 10>>
Diminished == <<0, 3, 6, 9>>
Chromatic == <<0, 1, 2, 3, 4, 5, 6, 7, 8, 9, 10, 11>>
WholeTone == <<0, 2, 4, 6, 8, 10>>
Progression(shape) ==
    CASE shape \in {8, 9} -> MajorScale [] shape \in {10, 11} -> MinorScale
      [] shape \in {12, 13} -> Diminished [] shape \in {14, 15} -> Chromatic
      [] shape \in {16, 17} -> WholeTone [] OTHER -> <<>>
Slot(kind, steps, param) == [kind |-> kind, steps |-> steps, param |-> param, progression |-> <<>>]
RawFrequencySlot(shape, steps, endFrequency) ==
    CASE shape = 1 -> Slot("linear", steps, endFrequency)
      [] shape = 2 -> Slot("curve", steps, endFrequency)
      [] shape = 5 -> Slot("exponential-rising", steps, endFrequency)
      [] shape = 6 -> Slot("exponential-falling", steps, endFrequency)
      [] shape = 18 -> Slot("logarithmic", steps, endFrequency)
      [] shape \in 8 .. 17 ->
             [Slot(IF shape % 2 = 0 THEN "arpeggio-ascending" ELSE "arpeggio-descending", steps, 0)
                 EXCEPT !.progression = Progression(shape)]
      [] OTHER -> Slot("none", steps, 0)
RawModulationSlot(fxChoice, steps, fxParam) ==
    CASE fxChoice = 1 -> Slot("frequency-vibrato", steps, fxParam)
      [] fxChoice = 2 -> Slot("volume-tremolo", steps, fxParam)
      [] fxChoice = 3 -> Slot("warble", steps, fxParam)
      [] OTHER -> Slot("none", 0, 0)
NormalizeVolume(v) == IF v > 1023 THEN 1023 ELSE v
Raw(f) ==
    [waveform |-> WaveformFromField(f.wave), frequency |-> f.frequency,
     volume |-> NormalizeVolume(f.volume), durationMs |-> f.duration,
     effects |-> <<RawFrequencySlot(f.shape, f.steps, f.endFrequency),
                   Slot("volume-ramp", 36, NormalizeVolume(f.endVolume)),
                   RawModulationSlot(f.fxChoice, (f.duration * f.fxnSteps) \div 10000, f.fxParam)>>]
DecodeRawSegment(segment) == IF Read(segment) THEN <<Raw(Fields(segment))>> ELSE Malformed

-----------------------------------------------------------------------------
(* decodeSoundExpression and its raw twin: the segments in order, and an    *)
(* error when one is malformed.                                             *)
Joined(decoded) == IF Malformed \in ToSet(decoded) THEN Malformed ELSE FlattenSeq(decoded)
DecodeSoundExpression(sound) == Joined([i \in DOMAIN sound |-> DecodeSegment(sound[i])])
DecodeSoundExpressionRaw(sound) == Joined([i \in DOMAIN sound |-> DecodeRawSegment(sound[i])])
=============================================================================
