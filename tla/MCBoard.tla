------------------------------ MODULE MCBoard ------------------------------
(***************************************************************************)
(* The peripherals of a simulated device on small instances: its ports,    *)
(* its buttons with their card, the gesture engine, the message bus and    *)
(* the speaker of the browser.  They share no state, so what one of them   *)
(* can reach does not depend on the others' steps: a behaviour moves one   *)
(* of them, and the invariants of all are checked together.                *)
(***************************************************************************)
EXTENDS Integers, Sequences, FiniteSets

CONSTANTS
    Args, Lengths, Responses, Echoes, Levels, MaxDrives, MaxReads,                     \* ports
    Sites, LongClick, Window, Wrap, Half, Thresholds, Steps, MaxClock, MaxBus,         \* card
    Picks, Frames, MaxSelects,                                                         \* gestures
    MaxResets,                                                                         \* ports, gestures
    Sources, Values, MaxListeners, MaxEvents, MaxDepth,                                \* bus
    Owners, Sounds, Durations, MaxPlays, MaxFleets, NoPlay                             \* speaker

VARIABLES
    part,    \* the peripheral that moves
    level, sonars, driven, panel, thinking, epoch, panelEpoch, asked, heard, atCycle,
    pressed, logo, bus, loaded, now, state, todo, evaluating, clock, log, shown,
    det, inj, acc, picker, selects, resets, held, recognized, polled, window, cut, ended,
    listeners, queue, stack, running, budget, nextId, nextEvent, delivered,
    fleet, speaker, context, resuming, gestures, voice, sources, synced, plays, fleets
ports == <<level, sonars, driven, panel, thinking, epoch, panelEpoch, asked, heard, atCycle>>
card == <<pressed, logo, bus, loaded, now, state, todo, evaluating, clock, log, shown>>
motion == <<det, inj, acc, picker, selects, resets, held, recognized, polled, window, cut, ended>>
events == <<listeners, queue, stack, running, budget, nextId, nextEvent, delivered>>
audio == <<fleet, speaker, context, resuming, gestures, voice, sources, synced, plays, fleets>>

(* One pin of the edge connector and two that are none, a buffer that is    *)
(* answered short or in full, no echo and one distance.                     *)
MCArgs == {-1, 2, 21}
MCEchoes == {-1, 5900}
Ports == INSTANCE DevicePorts
(* A press of four ticks is long; the clock wraps far beyond the run.       *)
Card == INSTANCE DeviceCard WITH thinking <- evaluating
Gestures == INSTANCE GestureEngine WITH Gestures <- Picks
Bus == INSTANCE MessageBus
(* A sound of two frames, and a tone of no duration.                        *)
MCDurations == [s \in Sounds |-> IF s = "sound" THEN 2 ELSE 0]
Speaker == INSTANCE SpeakerAudio WITH Ids <- Owners, Length <- Durations

ASSUME BoardAssumption ==
    /\ Ports!PortsParameters /\ Card!InputsParameters /\ Gestures!GestureParameters
    /\ Bus!BusParameters /\ Speaker!SpeakerParameters

BoardInit ==
    /\ part \in {"ports", "card", "gestures", "bus", "speaker"}
    /\ Ports!Init /\ Card!CardInit /\ Gestures!Init /\ Bus!Init /\ Speaker!Init
    /\ part # "speaker" => fleet = {}
BoardNext ==
    /\ UNCHANGED part
    /\ \/ part = "ports" /\ Ports!Next /\ UNCHANGED <<card, motion, events, audio>>
       \/ part = "card" /\ Card!CardNext /\ UNCHANGED <<ports, motion, events, audio>>
       \/ part = "gestures" /\ Gestures!Next /\ UNCHANGED <<ports, card, events, audio>>
       \/ part = "bus" /\ Bus!Next /\ UNCHANGED <<ports, card, motion, audio>>
       \/ part = "speaker" /\ Speaker!Next /\ UNCHANGED <<ports, card, motion, events>>
BoardSpec == BoardInit /\ [][BoardNext]_<<part, ports, card, motion, events, audio>>

-----------------------------------------------------------------------------
(* A program reads of the ports what was put there, when it was put there:  *)
(* a sonar's measurement of the cycle before, all the bytes of an I2C read, *)
(* nothing from before a reset; it drives the pin it named and no other, a  *)
(* negative number counting as P0 and one beyond the pins as none; and an   *)
(* open slider shows the reading (core/sensor-driver.ts, i2c-bus.ts,        *)
(* gpio.ts, MicroBit.clear, LightLevelSlider.tsx).  Of the buttons it reads *)
(* what the card's user did: events that alternate, long clicks by their    *)
(* duration, each click in one double click, a logo that is pressed at its  *)
(* threshold, and no button that stays down when nothing on the card is     *)
(* (Button.setPressed, TouchButton, deriveEvents, MicrobitDevice.tsx).      *)
InputsRead ==
    /\ Ports!TypeOK /\ Ports!SonarLags /\ Ports!WholeReads /\ Ports!FreshReads
    /\ Ports!OwnPin /\ Ports!SliderFollows
    /\ Card!TypeOK /\ Card!Alternates /\ Card!LongIsLong /\ Card!DoubleIsDouble
    /\ Card!TouchLevel /\ Card!NoStuckButton
(* A gesture the user selects is the one the program polls: a posture held  *)
(* past its ramp and the damping is reported, a freefall or a shake that    *)
(* played to its end was recognized, unless an earlier shake's window was   *)
(* open, and what was recognized is polled in frames no longer than the     *)
(* sample period; the picker shows what plays (GestureInjector,             *)
(* GestureDetector, gesture-sensor.ts, GesturePicker.tsx).                  *)
GesturesSeen ==
    /\ Gestures!TypeOK /\ Gestures!Settles /\ Gestures!FreefallSeen /\ Gestures!ShakeSeen
    /\ Gestures!PollSees /\ Gestures!PickerShows
(* Queued events are delivered in the order they were raised, each once,    *)
(* whatever handlers raise in between; and a delivery calls every matching  *)
(* listener that was there when it began and still is, and none that came   *)
(* later (MessageBus.drain, MessageBus.deliver).                            *)
DeliveredOnce == Bus!TypeOK /\ Bus!InOrder /\ Bus!NoneSkipped
(* At the end of a frame every voice is the play its device is making, but  *)
(* for a restored device's first play, which can pass for its predecessor's *)
(* first; every device that plays samples has a voice while the context     *)
(* runs; and nothing sounds for a device that is gone (SpeakerAudio.sync,   *)
(* retain).                                                                 *)
SpeakersHeard == Speaker!TypeOK /\ Speaker!HeardIsPlayed /\ Speaker!PlayedIsHeard /\ Speaker!NoneRingsOn
=============================================================================
