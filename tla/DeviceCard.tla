------------------------------ MODULE DeviceCard ------------------------------
(***************************************************************************)
(* A device and its card in the simulator: the four buttons of             *)
(* MicrobitDevice.tsx, two of which press button A and two button B.  A    *)
(* button of the card remembers that it is down; the device may be reset   *)
(* meanwhile and knows nothing of it.                                      *)
(***************************************************************************)
EXTENDS DeviceInputs

VARIABLE shown    \* the buttons of the card that are drawn as pressed
cardVars == <<vars, shown>>

(* The buttons of the device each one presses.                              *)
Buttons == {"A", "B", "A+B"}
Presses(w) == IF w = "A+B" THEN {"A", "B"} ELSE {w}
CardInit == Init /\ shown = {}

(* DeviceButton.set: any number of releases may come, from the pointer, the *)
(* keyboard and the focus.  A is set before B, and a button whose level     *)
(* does not change raises nothing.                                          *)
RaisedIf(b, changed, down) == IF b \in changed THEN Raised(b, down) ELSE <<>>
(* Mutant of Reached: a release of A+B releases B only.                     *)
ReachedLast(w, down) == IF ~down /\ w = "A+B" THEN {"B"} ELSE Presses(w)
Reached(w, down) == Presses(w)
Set(w, down) ==
    LET changed == {b \in Reached(w, down) : down # (b \in pressed)}
    IN  /\ UserActs
        /\ shown' = IF down THEN shown \cup {w} ELSE shown \ {w}
        /\ pressed' = IF down THEN pressed \cup changed ELSE pressed \ changed
        /\ bus' = bus \o RaisedIf("A", changed, down) \o RaisedIf("B", changed, down)
        /\ UNCHANGED <<logo, Device>>
SetLogo(down) ==
    /\ SetLogoTouched(down)
    /\ shown' = IF down THEN shown \cup {"Logo"} ELSE shown \ {"Logo"}

CardNext ==
    \/ \E w \in Buttons, down \in BOOLEAN : Set(w, down)
    \/ \E down \in BOOLEAN : SetLogo(down)
    \/ DeviceNext /\ UNCHANGED shown
-----------------------------------------------------------------------------
(* No button of the device is stuck: while A or B is down, one of the       *)
(* card's buttons that press it is drawn as pressed, so that letting go of  *)
(* everything on the card lets go of everything on the device.              *)
NoStuckButton ==
    \A b \in pressed \cap {"A", "B"} : \E w \in Buttons : w \in shown /\ b \in Presses(w)
=============================================================================
