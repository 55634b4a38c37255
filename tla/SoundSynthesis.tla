---------------------------- MODULE SoundSynthesis ----------------------------
(***************************************************************************)
(* The synthesizer of the micro:bit's sounds (sound-synthesis.ts): the     *)
(* segments of a sound are rendered back to back; in each one three effect *)
(* slots fire at their own step boundaries between runs of samples, and    *)
(* change the pitch or the volume of the samples that follow.              *)
(*                                                                         *)
(* Time is counted in samples.  A pitch is the phase it advances in one    *)
(* sample; the amplitudes are left out.  The boundary samplesPerStep * step*)
(* is a product of doubles: where it is a whole number, it may come out    *)
(* just below it and be truncated to the number before.                    *)
(***************************************************************************)
EXTENDS Integers, Sequences, FiniteSets, SequencesExt

CONSTANTS Sounds,   \* sequences of [durationMs, effects]: an effect is [kind, steps]
          Rate,     \* SYNTH_SAMPLE_RATE
          Width,    \* TONE_WIDTH
          Skips     \* the phases a sample may advance by

Slots == 1 .. 3     \* TONE_EFFECTS
FrequencyKinds == {"linear", "logarithmic", "curve", "exponential-rising", "exponential-falling",
                   "arpeggio-ascending", "arpeggio-descending", "frequency-vibrato", "warble"}
Kinds == FrequencyKinds \cup {"none", "volume-ramp", "volume-tremolo"}

SynthesisParameters ==
    /\ Rate \in Nat /\ Width \in Nat \ {0} /\ Skips \subseteq Nat /\ Skips # {}
    /\ \A sound \in Sounds : \A k \in DOMAIN sound :
           /\ sound[k].durationMs \in Int
           /\ \A i \in Slots : sound[k].effects[i].steps \in Nat /\ sound[k].effects[i].kind \in Kinds

VARIABLES
    sound,     \* the effects that are rendered
    segment,   \* which of them: 0 before the first
    written,   \* samplesWritten of this segment
    step,      \* step: per slot, the next step to fire
    skip,      \* what the pitch advances the phase by
    position,  \* the phase
    low,       \* the slots whose whole boundaries are truncated to the number before
    output     \* per sample, the steps that had fired when it was rendered
vars == <<sound, segment, written, step, skip, position, low, output>>

Abs(n) == IF n < 0 THEN -n ELSE n
(* determineSampleCount *)
SampleCount(k) == (Rate * Abs(sound[k].durationMs)) \div 1000
Samples == SampleCount(segment)
Steps(i) == IF sound[segment].effects[i].steps = 0 THEN 1 ELSE sound[segment].effects[i].steps

(* Math.trunc(samplesPerStep * step) *)
Boundary(i, s) ==
    LET exact == (Samples * s) \div Steps(i)
    IN  IF i \in low /\ exact > 0 /\ (Samples * s) % Steps(i) = 0 THEN exact - 1 ELSE exact
(* Mutant: the last step has no end of its own.                             *)
EffectStepEndPlain(i) == Boundary(i, step[i])
(* effectStepEnd: the last step fires when the segment is over.             *)
EffectStepEnd(i) == IF step[i] = Steps(i) - 1 THEN Samples ELSE Boundary(i, step[i])
StepEndPosition ==
    CHOOSE n \in {EffectStepEnd(i) : i \in Slots} : \A i \in Slots : n <= EffectStepEnd(i)

(* One sample further: position += skip, reduced to at most the width.      *)
Advance(p) == IF p + skip > Width THEN ((p + skip - 1) % Width) + 1 ELSE p + skip
Advanced(n) == FoldLeft(LAMBDA p, i : Advance(p), position, [i \in 1 .. n |-> i])

(* applyEffect: whether the slot, at this step, sets the frequency; vibrato *)
(* leaves its step 0 alone.                                                 *)
Repitches(i) ==
    LET kind == sound[segment].effects[i].kind
    IN  kind \in FrequencyKinds /\ (kind = "frequency-vibrato" => step[i] > 0)
Fires(n) == {i \in Slots : n = EffectStepEnd(i) /\ step[i] < Steps(i)}

-----------------------------------------------------------------------------
Init ==
    /\ sound \in Sounds /\ segment = 0 /\ written = 0 /\ step = [i \in Slots |-> 0]
    /\ skip \in Skips /\ position = 0 /\ low = {} /\ output = <<>>

(* renderSegment is entered: the phase carries over, the state is the       *)
(* segment's base tone.                                                     *)
SegmentOver == IF segment = 0 THEN TRUE ELSE written = Samples
Enter ==
    /\ SegmentOver /\ segment < Len(sound) /\ segment' = segment + 1
    /\ written' = 0 /\ step' = [i \in Slots |-> 0]
    /\ skip' \in Skips /\ low' \in SUBSET Slots
    /\ UNCHANGED <<sound, position, output>>

(* One turn of the outer loop: the samples up to the nearest boundary, and  *)
(* the slots whose boundary it is.                                          *)
Turn ==
    /\ segment # 0 /\ written < Samples
    /\ LET n == IF StepEndPosition > written THEN StepEndPosition ELSE written
           fired == Fires(n)
       IN  /\ written' = n
           /\ output' = output \o [j \in 1 .. (n - written) |-> step]
           /\ position' = Advanced(n - written)
           /\ step' = [i \in Slots |-> IF i \in fired THEN step[i] + 1 ELSE step[i]]
           /\ IF \E i \in fired : Repitches(i) THEN skip' \in Skips ELSE skip' = skip
    /\ UNCHANGED <<sound, segment, low>>

Next == Enter \/ Turn
Spec == Init /\ [][Next]_vars /\ WF_vars(Next)

-----------------------------------------------------------------------------
(* Every variable stays in its type; the phase stays in the tone's table.   *)
TypeOK ==
    /\ sound \in Sounds /\ segment \in 0 .. Len(sound) /\ skip \in Skips /\ low \subseteq Slots
    /\ position \in 0 .. Width
    /\ segment # 0 => written \in 0 .. Samples /\ \A i \in Slots : step[i] \in 0 .. Steps(i)

(* While a segment is being rendered, no slot has fallen behind: its next   *)
(* boundary is still ahead.  The loop has no other way to come to an end.   *)
NoneBehind ==
    segment # 0 /\ written < Samples =>
        \A i \in Slots : step[i] < Steps(i) /\ EffectStepEnd(i) >= written

Before(k) == FoldLeft(LAMBDA n, j : n + SampleCount(j), 0, [j \in 1 .. k |-> j])
(* A sample hears exactly the steps whose boundary is not after it, of      *)
(* every slot, and never the last one; samples of the segments before it    *)
(* are all there.                                                           *)
HeardOnTime ==
    segment # 0 =>
        /\ Len(output) = Before(segment - 1) + written
        /\ \A p \in 0 .. (written - 1) : \A i \in Slots :
               output[Before(segment - 1) + p + 1][i] =
                   Cardinality({s \in 0 .. (Steps(i) - 2) : Boundary(i, s) <= p})

(* Every step of every slot has fired when a segment that has samples ends. *)
AllFired == segment # 0 /\ written = Samples /\ Samples > 0 => \A i \in Slots : step[i] = Steps(i)

(* Every sound is rendered to its end.                                      *)
Rendered == <>(segment = Len(sound) /\ (segment # 0 => written = Samples))
=============================================================================
