----------------------------- MODULE DevicePorts -----------------------------
(***************************************************************************)
(* The ports a program reads and drives besides display, speaker, buttons  *)
(* and radio: the pins, the I2C bus, the background sensor driver, the     *)
(* light level and the thermometer, with the two sliders of the card that  *)
(* set the last two.  core/gpio.ts, core/i2c-bus.ts,                       *)
(* core/sensor-driver.ts, core/thermometer.ts, wendoo/module.ts,           *)
(* LightLevelSlider.tsx, TemperatureSlider.tsx.                            *)
(*                                                                         *)
(* The world outside injects readings between thinks; user code reads and  *)
(* drives in a think, which ends with a cycle of the sensor driver.        *)
(***************************************************************************)
EXTENDS Integers, Sequences, FiniteSets

CONSTANTS
    Args,        \* the numbers user code passes as a pin
    Lengths,     \* the lengths it asks to read
    Responses,   \* how many bytes the I2C device may answer
    Echoes,      \* echo widths in microseconds, negative for no echo
    Levels,      \* what the sliders may be set to
    MaxResets, MaxDrives, MaxReads   \* bounds
PortsParameters ==
    /\ Args \subseteq Int /\ Lengths \subseteq Nat /\ Responses \subseteq Nat
    /\ Echoes \subseteq Int /\ Levels \subseteq Int /\ {MaxResets, MaxDrives, MaxReads} \subseteq Nat

VARIABLES
    level,       \* per port the reading that was injected, [value, epoch]
    sonars,      \* the sonars that were mentioned: [echo, cache]
    driven,      \* what was recorded on the pins, <<pin, value>> in order
    panel,       \* the sliders, <<>> while the panel is closed
    thinking,
    \* For the properties: the number of resets, the one the panel was opened
    \* in, what user code asked for, what it read in this think, and the echo
    \* width at the last cycle.
    epoch, panelEpoch, asked, heard, atCycle
vars == <<level, sonars, driven, panel, thinking, epoch, panelEpoch, asked, heard, atCycle>>

Pins == 0..20
AtMost(v, limit) == IF v > limit THEN limit ELSE v
NonNegative(v) == IF v < 0 THEN 0 ELSE v
Clamp255(v) == AtMost(NonNegative(v), 255)
Light == <<"light">>
Temp == <<"temp">>
(* The readings after a reset: the two that rest at a value of their own.   *)
Resting(e) == [port \in {Light, Temp} |-> [value |-> IF port = Light THEN <<128>> ELSE <<21>>, epoch |-> e]]
Sonar == <<"sonar", 1, 2>>
MaxDistance == 200
Distance(e) == IF e < 0 THEN MaxDistance ELSE AtMost((e * 34) \div 2000, MaxDistance)

Init ==
    /\ epoch = 0 /\ level = Resting(0) /\ sonars = <<>> /\ driven = <<>> /\ panel = <<>> /\ thinking = FALSE
    /\ panelEpoch = 0 /\ asked = <<>> /\ heard = {} /\ atCycle = -1

-----------------------------------------------------------------------------
(* Between thinks: injection.                                               *)
Inject(port, v) ==
    /\ ~thinking
    /\ level' = [x \in DOMAIN level \cup {port} |-> IF x = port THEN [value |-> v, epoch |-> epoch] ELSE level[x]]
    /\ UNCHANGED <<sonars, driven, thinking, epoch, panelEpoch, asked, heard, atCycle>>
SetDigitalRead(pin) == pin \in Pins /\ Inject(<<"digital", pin>>, <<1>>) /\ UNCHANGED panel
SetAnalogRead(pin) == pin \in Pins /\ Inject(<<"analog", pin>>, <<1023>>) /\ UNCHANGED panel
SetReadResponse(n) == Inject(<<"i2c", 8>>, [i \in 1..n |-> i]) /\ UNCHANGED panel
(* A sonar is registered by whoever mentions its pins first.                *)
SonarState == [echo |-> -1, cache |-> MaxDistance]
Registered(s) == IF Sonar \in DOMAIN s THEN s ELSE [x \in {Sonar} |-> SonarState]
SetEchoMicros(e) ==
    /\ ~thinking /\ sonars' = [Registered(sonars) EXCEPT ![Sonar].echo = e]
    /\ UNCHANGED <<level, driven, panel, thinking, epoch, panelEpoch, asked, heard, atCycle>>
(* The sliders write to the device and remember what they wrote.  That of   *)
(* the light ranges over the sensor's readings.                             *)
MoveLight(v) == panel # <<>> /\ v \in 0..255 /\ Inject(Light, <<Clamp255(v)>>) /\ panel' = [panel EXCEPT !.light = v]
MoveTemperature(v) == panel # <<>> /\ Inject(Temp, <<v>>) /\ panel' = [panel EXCEPT !.temp = v]
(* They are seeded from the device when the panel opens.                    *)
OpenPanel ==
    /\ panel = <<>> /\ panel' = [light |-> level[Light].value[1], temp |-> level[Temp].value[1]]
    /\ panelEpoch' = epoch
    /\ UNCHANGED <<level, sonars, driven, thinking, epoch, asked, heard, atCycle>>
ClosePanel ==
    /\ panel # <<>> /\ panel' = <<>>
    /\ UNCHANGED <<level, sonars, driven, thinking, epoch, panelEpoch, asked, heard, atCycle>>
(* MicroBit.clear, when a program is loaded: every port resets.             *)
Reset ==
    /\ ~thinking /\ epoch < MaxResets /\ epoch' = epoch + 1
    /\ level' = Resting(epoch')
    /\ sonars' = <<>> /\ driven' = <<>> /\ asked' = <<>> /\ heard' = {} /\ atCycle' = -1
    /\ UNCHANGED <<panel, thinking, panelEpoch>>

-----------------------------------------------------------------------------
(* A think: reads and writes of user code.                                  *)
Think ==
    /\ ~thinking /\ thinking' = TRUE /\ heard' = {}
    /\ UNCHANGED <<level, sonars, driven, panel, epoch, panelEpoch, asked, atCycle>>
Hear(port, v, e) ==
    /\ thinking /\ Cardinality(heard) < MaxReads
    /\ heard' = heard \cup {[port |-> port, value |-> v, epoch |-> e]}
    /\ UNCHANGED <<level, driven, panel, thinking, epoch, panelEpoch, asked, atCycle>>
Read(port, default) ==
    /\ UNCHANGED sonars
    /\ IF port \in DOMAIN level THEN Hear(port, level[port].value, level[port].epoch) ELSE Hear(port, default, epoch)
DigitalRead(arg) == Read(<<"digital", NonNegative(arg)>>, <<0>>)
AnalogRead(arg) == Read(<<"analog", NonNegative(arg)>>, <<0>>)
LightLevel == Read(Light, <<0>>)
Temperature == Read(Temp, <<0>>)
(* Exactly as many bytes as were asked for, or none if nobody answers.      *)
ReadBuffer(length) ==
    /\ UNCHANGED sonars
    /\ LET port == <<"i2c", 8>> IN
       IF port \notin DOMAIN level THEN Hear(<<"i2c", length>>, <<>>, epoch)
       ELSE LET bytes == level[port].value
            IN  Hear(<<"i2c", length>>, [i \in 1..length |-> IF i \in DOMAIN bytes THEN bytes[i] ELSE 0], level[port].epoch)
SonarDistance ==
    /\ sonars' = Registered(sonars)
    /\ Hear(Sonar, <<sonars'[Sonar].cache>>, epoch)
(* digitalWrite, setPull and servoWrite; the API takes the argument as a    *)
(* non-negative integer first.                                              *)
WriteRecord(pin, v) == <<pin, v>>
Drive(arg, v) ==
    LET pin == NonNegative(arg) IN
    /\ thinking /\ Len(asked) < MaxDrives
    /\ asked' = Append(asked, <<arg, v>>)
    /\ driven' = IF pin \in Pins THEN Append(driven, WriteRecord(pin, v)) ELSE driven
    /\ UNCHANGED <<level, sonars, panel, thinking, epoch, panelEpoch, heard, atCycle>>
(* The end of the think and the driver's cycle after it.                    *)
Cycle ==
    /\ thinking /\ thinking' = FALSE
    /\ sonars' = [s \in DOMAIN sonars |-> [sonars[s] EXCEPT !.cache = Distance(sonars[s].echo)]]
    /\ atCycle' = IF Sonar \in DOMAIN sonars THEN sonars[Sonar].echo ELSE -1
    /\ UNCHANGED <<level, driven, panel, epoch, panelEpoch, asked, heard>>

Next ==
    \/ \E pin \in {2} : SetDigitalRead(pin) \/ SetAnalogRead(pin)
    \/ \E n \in Responses : SetReadResponse(n)
    \/ \E e \in Echoes : SetEchoMicros(e)
    \/ \E v \in Levels : MoveLight(v) \/ MoveTemperature(v)
    \/ OpenPanel \/ ClosePanel \/ Reset \/ Think \/ Cycle
    \/ \E arg \in Args : DigitalRead(arg) \/ AnalogRead(arg) \/ \E v \in {0, 1} : Drive(arg, v)
    \/ LightLevel \/ Temperature \/ SonarDistance
    \/ \E length \in Lengths : ReadBuffer(length)
Spec == Init /\ [][Next]_vars

-----------------------------------------------------------------------------
TypeOK ==
    /\ \A p \in DOMAIN level : level[p].epoch \in 0..epoch /\ level[p].value \in Seq(Int)
    /\ level[Light].value[1] \in 0..255 /\ level[Temp].value[1] \in Int
    /\ \A s \in DOMAIN sonars : sonars[s].cache \in 0..MaxDistance

(* docs/specs/background-sensor-driver.md: a read returns the measurement   *)
(* of the cycle before, the same for all readers of a think, and the        *)
(* distance of no echo before any.                                          *)
SonarLags == \A r \in heard : thinking /\ r.port = Sonar => r.value = <<Distance(atCycle)>>

(* I2CBus.read: all the bytes of a transaction come, or none.               *)
WholeReads == \A r \in heard : r.port[1] = "i2c" => Len(r.value) \in {0, r.port[2]}

(* MicroBit.clear: after a reset no port returns a reading injected before. *)
FreshReads == \A r \in heard : r.epoch = epoch

(* docs/specs/gpio.md: "Pin range 0-20; an out-of-range pin is a no-op".    *)
(* What was asked of pins there are is what the pins saw, in order; only a  *)
(* negative pin, which the document would drop too, counts as P0.           *)
Meant(i) == <<NonNegative(asked[i][1]), asked[i][2]>>
Landing == {i \in DOMAIN asked : Meant(i)[1] \in Pins}
OwnPin == /\ Len(driven) = Cardinality(Landing)
          /\ \A i \in Landing : driven[Cardinality({j \in Landing : j <= i})] = Meant(i)
(* LightLevelSlider.tsx, TemperatureSlider.tsx: what an open panel shows is *)
(* what the device reads, until a reset.                                    *)
Shows == panel.light = level[Light].value[1] /\ panel.temp = level[Temp].value[1]
SliderFollows == panel # <<>> /\ panelEpoch = epoch => Shows
=============================================================================
