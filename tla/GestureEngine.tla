---------------------------- MODULE GestureEngine ----------------------------
(***************************************************************************)
(* The gestures of a simulated device, from the picker on its card to the  *)
(* sensor a program polls: GesturePicker.tsx, core/gesture-injector.ts,    *)
(* core/accelerometer.ts, core/gesture-detector.ts,                        *)
(* wendoo/actions/gesture-sensor.ts.                                       *)
(*                                                                         *)
(* A frame feeds the samples that its time makes due, then the brain       *)
(* thinks and polls the gesture.  Between frames the user selects, closes  *)
(* and opens the card, and flashes the device.  Readings are in milli-g    *)
(* and all constants are the code's; pitch and roll are left out.          *)
(***************************************************************************)
EXTENDS Integers, FiniteSets

CONSTANTS
    Gestures,     \* the entries of the picker the user selects
    Frames,       \* how long a frame may be, in milliseconds
    MaxSelects, MaxResets   \* bounds
Period == 20
Postures == [tiltLeft  |-> [x |-> -1000, y |-> 0, z |-> 0], tiltRight |-> [x |-> 1000, y |-> 0, z |-> 0],
             tiltDown  |-> [x |-> 0, y |-> -1000, z |-> 0], tiltUp    |-> [x |-> 0, y |-> 1000, z |-> 0],
             faceUp    |-> [x |-> 0, y |-> 0, z |-> -1000], faceDown  |-> [x |-> 0, y |-> 0, z |-> 1000]]
Momentary == {"shake", "freefall"}
GestureParameters ==
    /\ Gestures \subseteq DOMAIN Postures \cup Momentary \cup {"none"}
    /\ Frames \subseteq Nat \ {0} /\ MaxSelects \in Nat /\ MaxResets \in Nat

VARIABLES
    det,      \* GestureDetector: [sigma, last, current, crossed, shaken, count, timer]
    inj,      \* GestureInjector: [mode, from, to, step, playing, last, selected]
    acc,      \* accumulatorMs
    picker,   \* the entry the picker shows, "closed" while the card is
    selects, resets,
    \* For the properties, since the last selection or reset: the samples fed
    \* to a posture, the gestures recognized and polled, whether the window of
    \* an earlier shake was open at the selection, whether the device was
    \* reset, and the sequence that ended.
    held, recognized, polled, window, cut, ended
vars == <<det, inj, acc, picker, selects, resets, held, recognized, polled, window, cut, ended>>

-----------------------------------------------------------------------------
(* GestureDetector.                                                         *)
Resting == [sigma |-> 0, last |-> "none", current |-> "none", crossed |-> {}, shaken |-> FALSE, count |-> 0, timer |-> 0]
Axes == {"x", "y", "z"}
(* The axes on which this sample crosses zero, past the tolerance.          *)
Crossing(d, s) == {a \in Axes : IF a \in d.crossed THEN s[a] < -400 ELSE s[a] > 400}
Sum3(s) == s.x * s.x + s.y * s.y + s.z * s.z
Posture(s) ==
    CASE Sum3(s) < 400 * 400 -> "freefall"
      [] OTHER -> IF s.x < -800 THEN "tiltLeft" ELSE IF s.x > 800 THEN "tiltRight"
                  ELSE IF s.y < -800 THEN "tiltDown" ELSE IF s.y > 800 THEN "tiltUp"
                  ELSE IF s.z < -800 THEN "faceUp" ELSE IF s.z > 800 THEN "faceDown" ELSE "none"
(* One crossing more, however many axes crossed.                            *)
Counted(d, s) ==
    LET toggled == [d EXCEPT !.crossed = (@ \ Crossing(d, s)) \cup (Crossing(d, s) \ @)]
    IN  IF Crossing(d, s) = {} \/ d.count >= 4 THEN toggled
        ELSE [toggled EXCEPT !.count = @ + 1, !.timer = IF d.count \in {0, 3} THEN 0 ELSE @,
                             !.shaken = @ \/ d.count = 3]
ShakesNow(d, s) == Crossing(d, s) # {} /\ d.count = 3
(* The window of a shake closes; crossings that came to nothing decay.      *)
Aged(d) ==
    IF d.count = 0 THEN d
    ELSE IF d.shaken /\ d.timer + 1 >= 30 THEN [d EXCEPT !.shaken = FALSE, !.timer = 0, !.count = 0]
    ELSE IF ~d.shaken /\ d.timer + 1 >= 10 THEN [d EXCEPT !.timer = 0, !.count = @ - 1]
    ELSE [d EXCEPT !.timer = @ + 1]
(* The low-pass filter: a posture is reported once it lasted.               *)
Filtered(d, p) ==
    LET next == IF p = d.current THEN [d EXCEPT !.sigma = IF @ < 5 THEN @ + 1 ELSE @]
                ELSE [d EXCEPT !.current = p, !.sigma = 0]
    IN  IF next.sigma >= 5 THEN [next EXCEPT !.last = next.current] ELSE next
Update(d, s) ==
    IF ShakesNow(d, s) THEN [Counted(d, s) EXCEPT !.last = "shake"]
    ELSE Filtered(Aged(Counted(d, s)), Posture(s))

-----------------------------------------------------------------------------
(* GestureInjector.                                                         *)
Idle == [x |-> 480, y |-> -600, z |-> -640]
Ramp == 8
Between(from, to, k) == [a \in Axes |-> (Ramp * from[a] + (to[a] - from[a]) * k + Ramp \div 2) \div Ramp]
Length(g) == IF g = "shake" THEN 6 ELSE 10
Sample(g, i) == IF g = "shake" THEN [x |-> IF i % 2 = 0 THEN 600 ELSE -600, y |-> 0, z |-> 0] ELSE [a \in Axes |-> 0]
Hold(i, target) == [i EXCEPT !.mode = "hold", !.from = i.last, !.to = target, !.step = 0, !.playing = "none"]
Selected(i, g) ==
    IF g \in Momentary THEN [i EXCEPT !.mode = "momentary", !.playing = g, !.step = 0, !.selected = g]
    ELSE [Hold(i, IF g = "none" THEN Idle ELSE Postures[g]) EXCEPT !.selected = g]
(* feedHoldStep.                                                            *)
HoldSample(i) == IF i.step < Ramp THEN Between(i.from, i.to, i.step + 1) ELSE i.to
HoldStep(i) == [i EXCEPT !.last = HoldSample(i), !.step = IF @ < Ramp THEN @ + 1 ELSE @]
(* feedMomentaryStep: past its end a sequence goes back to idle.            *)
Ends(i) == i.mode = "momentary" /\ i.step >= Length(i.playing)
Completed(i) == HoldStep([Hold(i, Idle) EXCEPT !.selected = "none"])
InjectorStep(i) ==
    CASE Ends(i) -> Completed(i)
      [] i.mode = "momentary" /\ ~Ends(i) -> [i EXCEPT !.last = Sample(i.playing, i.step), !.step = @ + 1]
      [] OTHER -> HoldStep(i)
(* What one sample does to everything: the completion listener is the       *)
(* picker's, while it is there.                                             *)
FeedStep(g) ==
    LET i == InjectorStep(g.inj)
        d == Update(g.det, i.last)
    IN  [det |-> d, inj |-> i,
         picker |-> IF Ends(g.inj) /\ g.picker # "closed" THEN "none" ELSE g.picker,
         held |-> IF i.mode = "hold" /\ g.held < 16 THEN g.held + 1 ELSE g.held,
         recognized |-> g.recognized \cup {d.last},
         ended |-> IF Ends(g.inj) THEN g.inj.playing ELSE g.ended]

Init ==
    /\ det = Resting /\ acc = 0 /\ picker = "none" /\ selects = 0 /\ resets = 0
    /\ inj = [mode |-> "hold", from |-> Idle, to |-> Idle, step |-> 0, playing |-> "none", last |-> Idle, selected |-> "none"]
    /\ held = 0 /\ recognized = {} /\ polled = {} /\ window = FALSE /\ cut = FALSE /\ ended = "none"

(* GestureInjector.advance: the samples that are due, and what is left.     *)
Due(ms) == (acc + ms) \div Period
(* Mutant: the time that made a sample due is not used up.                  *)
CarryAll(ms) == acc + ms
Carry(ms) == (acc + ms) % Period
(* The gestures whose sensor is true: the one the detector reports.         *)
Sensed(d) == (DOMAIN Postures \cup Momentary) \cap {d.last}
(* The samples that are due, one after the other.                           *)
Fed(ms) ==
    LET fed[k \in 0..Due(ms)] ==
            IF k = 0
            THEN [det |-> det, inj |-> inj, picker |-> picker, held |-> held, recognized |-> recognized, ended |-> ended]
            ELSE FeedStep(fed[k - 1])
    IN  fed[Due(ms)]
(* SimulatorInstance.tick.                                                  *)
Frame(ms) ==
    LET fed == Fed(ms)
    IN  /\ acc' = Carry(ms) /\ det' = fed.det /\ inj' = fed.inj /\ picker' = fed.picker
        /\ held' = fed.held /\ recognized' = fed.recognized /\ ended' = fed.ended
        /\ polled' = polled \cup Sensed(fed.det)
        /\ UNCHANGED <<selects, resets, window, cut>>
FreshHistory == held' = 0 /\ recognized' = {} /\ polled' = {} /\ ended' = "none"
(* GesturePicker.onSelect.                                                  *)
Select(g) ==
    /\ picker # "closed" /\ g # picker /\ selects < MaxSelects
    /\ selects' = selects + 1 /\ picker' = g /\ inj' = Selected(inj, g)
    /\ window' = det.shaken /\ cut' = FALSE /\ FreshHistory
    /\ UNCHANGED <<det, acc, resets>>
CloseCard == picker # "closed" /\ picker' = "closed"
             /\ UNCHANGED <<det, inj, acc, selects, resets, held, recognized, polled, window, cut, ended>>
(* The picker is seeded from the injector when the card opens again.        *)
OpenCard ==
    /\ picker = "closed" /\ picker' = inj.selected
    /\ UNCHANGED <<det, inj, acc, selects, resets, held, recognized, polled, window, cut, ended>>
(* Accelerometer.reset, when a program is loaded: the injector plays on.    *)
Reset ==
    /\ resets < MaxResets /\ resets' = resets + 1 /\ det' = Resting
    /\ held' = 0 /\ recognized' = {} /\ polled' = {} /\ cut' = TRUE
    /\ UNCHANGED <<inj, acc, picker, selects, window, ended>>

Next ==
    \/ \E ms \in Frames : Frame(ms)
    \/ \E g \in Gestures : Select(g)
    \/ CloseCard \/ OpenCard \/ Reset
Spec == Init /\ [][Next]_vars

-----------------------------------------------------------------------------
TypeOK ==
    /\ det.sigma \in 0..5 /\ det.count \in 0..4 /\ det.timer \in 0..29 /\ det.crossed \subseteq Axes
    /\ (det.shaken => det.count = 4) /\ acc \in 0..(Period - 1) /\ inj.step \in 0..10
    /\ inj.selected \in Gestures \cup {"none"} /\ (inj.mode = "momentary") = (inj.playing \in Momentary)

(* gesture-injector.ts: a posture that has been held past its ramp and the  *)
(* damping is the gesture reported, and the idle reading is none, whatever  *)
(* was selected before and wherever the ramp began.                         *)
Settles == inj.mode = "hold" /\ held >= 14 => det.last = inj.selected

(* GestureInjector: a momentary gesture that played to its end on a device  *)
(* that was not reset meanwhile was recognized: a freefall always, a shake  *)
(* unless the window of an earlier one was open when it was selected.       *)
FreefallSeen == ended = "freefall" /\ ~cut => "freefall" \in recognized
ShakeSeen == ended = "shake" /\ ~cut /\ ~window => "shake" \in recognized
(* gesture-sensor.ts: with frames no longer than the sample period the      *)
(* brain polls every gesture that was recognized, even for one sample.      *)
PollSees == (\A ms \in Frames : ms <= Period) => recognized \ {"none"} \subseteq polled

(* GesturePicker: an open card shows what the injector is playing.          *)
PickerShows == picker = "closed" \/ picker = inj.selected
=============================================================================
