-------------------------- MODULE DeviceOperations --------------------------
(***************************************************************************)
(* The asynchronous outputs of the simulated micro:bit: the display and    *)
(* speaker leases (microbit-display.ts, microbit-speaker.ts), the host     *)
(* actuators that dispatch them (wendoo/actions/), and the runtime facade  *)
(* that advances time, thinks and settles them (wendoo/runtime.ts).        *)
(*                                                                         *)
(* One unit of time is one scroll step (SCROLL_DEFAULT_DELAY_MS).  The     *)
(* screen is a row of columns, which is all a scroll tells apart; a frame  *)
(* covers it whole.  Every dispatch is an operation of its own with its    *)
(* own handle.                                                             *)
(***************************************************************************)
EXTENDS Integers, Sequences, FiniteSets

CONSTANTS
    Ops,            \* the dispatches of a run
    Width,          \* display columns, also the width of a glyph
    TextLengths,    \* lengths of the texts shown
    FrameCounts,    \* lengths of the image sequences drawn
    Durations,      \* requested durations, negative ones included
    SoundLength,    \* nominal duration of a built-in sound
    Pixels,         \* columns pixels are set in, some off the display
    TickLengths,    \* time between two ticks of the host
    Modulus,        \* the timer counts modulo this (2^32 in the code)
    MayWrap         \* FALSE: a run ends before the timer wraps

ASSUME DeviceAssumption ==
    /\ IsFiniteSet(Ops) /\ Width \in Nat \ {0} /\ Modulus \in Nat \ {0}
    /\ TextLengths \subseteq Nat /\ FrameCounts \subseteq Nat /\ SoundLength \in Nat
    /\ Pixels \subseteq Nat /\ Durations \subseteq Int /\ TickLengths \subseteq Nat /\ MayWrap \in BOOLEAN

VARIABLES
    now,        \* Timer.now
    loaded,     \* whether a brain is loaded
    pc,         \* where the tick stands: "idle" between two ticks
    lease,      \* activeScroll, activeShow, activeDraw, activePlay
    op,         \* per operation, what was asked and how far it is
    handle,     \* per operation, the state of the handle it was dispatched on
    endings,    \* per operation, the endings that were reported of it
    screen      \* what every display column shows

vars == <<now, loaded, pc, lease, op, handle, endings, screen>>

CONSTANT NoOp
ASSUME NoOpAssumption == NoOp \notin Ops

DisplaySlots == {"scroll", "show", "draw"}
Slots == DisplaySlots \cup {"play"}
OperationEnd == {"completed", "dropped", "preempted"}
Columns == 1..Width

(* An operation: its slot, the time it was requested, its length (the text *)
(* length or the number of frames), the duration of the whole or of one    *)
(* frame, the steps or frames rendered, and the background modifier.       *)
Blank == <<NoOp, 0, 0>>
Pixel == <<NoOp, 1, 0>>
NoRequest == [kind |-> "none", start |-> 0, length |-> 0, hold |-> 0,
              rendered |-> 0, background |-> FALSE]
Cells == {Blank, Pixel} \cup (Ops \X Nat \X Nat)

Dark == [x \in Columns |-> Blank]
(* What is left of an operation whose lease is gone.                       *)
Spent(o) == [NoRequest EXCEPT !.kind = op[o].kind]

Free == [s \in Slots |-> NoOp]
HoldsLease(o) == \E s \in Slots : lease[s] = o
FreshOp(o) == op[o].kind = "none"

-----------------------------------------------------------------------------
(* Rendering.                                                              *)

(* display-scroll.ts: a text scrolls its characters and one blank cycle.   *)
StepsPerCharacter == Width + 1
ScrollSteps(length) == StepsPerCharacter * (length + 1)

Glyph(o) == [x \in Columns |-> <<o, 0, x - 1>>]
Frame(o, i) == [x \in Columns |-> <<o, i, x - 1>>]

(* The column that step k of a scroll pastes on the right.                 *)
Pasted(o, k) ==
    LET character == k \div StepsPerCharacter
        column == k % StepsPerCharacter
    IN  IF column < Width /\ character < op[o].length THEN <<o, character, column>> ELSE Blank

(* The screen after the steps from..to-1: each shifts every column left.   *)
Scrolled(o, from, to) ==
    [x \in Columns |->
        IF x + (to - from) <= Width THEN screen[x + (to - from)]
                                    ELSE Pasted(o, to - 1 - (Width - x))]

-----------------------------------------------------------------------------
(* Endings.  An operation that ends leaves its lease, settles its handle   *)
(* (a second settling changes nothing) and is reported.                    *)

(* Mutant of EndAll: a preempted operation is reported, its handle forgotten. *)
EndAllUnsettled(set, how) ==
    /\ op' = [o \in Ops |-> IF o \in set THEN Spent(o) ELSE op[o]]
    /\ handle' = [o \in Ops |-> IF o \in set /\ how = "completed" THEN "resolved" ELSE handle[o]]
    /\ endings' = [o \in Ops |-> IF o \in set THEN Append(endings[o], how) ELSE endings[o]]

EndAll(set, how) ==
    /\ op' = [o \in Ops |-> IF o \in set THEN Spent(o) ELSE op[o]]
    /\ handle' = [o \in Ops |-> IF o \in set THEN "resolved" ELSE handle[o]]
    /\ endings' = [o \in Ops |-> IF o \in set THEN Append(endings[o], how) ELSE endings[o]]

HoldersOf(slots) == {lease[s] : s \in slots} \ {NoOp}
Without(slots) == [s \in Slots |-> IF s \in slots THEN NoOp ELSE lease[s]]

Release(slot, how) ==
    /\ lease' = Without({slot})
    /\ EndAll({lease[slot]}, how)

-----------------------------------------------------------------------------
(* Dispatch.  Without "immediately" the subsystem is left as it is; with it *)
(* whatever holds the subsystem is preempted first.  A background call     *)
(* resolves its handle at dispatch and keeps its operation.                *)

Busy(slots, immediately) == ~immediately /\ HoldersOf(slots) # {}

Dispatch(o, request, slots, immediately, outcome) ==
    LET out == IF immediately THEN HoldersOf(slots) ELSE {}
        left == IF immediately THEN Without(slots) ELSE lease
        ended == outcome # "held"
    IN  /\ pc = "think" /\ FreshOp(o)
        /\ op' = [p \in Ops |->
               IF p \in out THEN Spent(p)
               ELSE IF p # o THEN op[p]
               ELSE IF ended THEN [NoRequest EXCEPT !.kind = request.kind] ELSE request]
        /\ lease' = IF ended THEN left ELSE [left EXCEPT ![request.kind] = o]
        /\ handle' = [p \in Ops |->
               IF p \in out \/ (p = o /\ (ended \/ request.background)) THEN "resolved"
               ELSE IF p = o THEN "pending" ELSE handle[p]]
        /\ endings' = [p \in Ops |->
               IF p \in out THEN Append(endings[p], "preempted")
               ELSE IF p = o /\ ended THEN Append(endings[p], outcome) ELSE endings[p]]
        /\ UNCHANGED <<now, loaded, pc>>

Request(kind, length, hold, rendered, background) ==
    [kind |-> kind, start |-> now, length |-> length, hold |-> hold,
     rendered |-> rendered, background |-> background]

(* What becomes of an offered operation: display.scrollText, drawImage and  *)
(* speaker.playTone, playSoundEmoji.  A draw of no duration only paints; a  *)
(* name outside the built-in set and a negative duration are refused.      *)
TextOutcome(immediately) == IF Busy(DisplaySlots, immediately) THEN "dropped" ELSE "held"

DrawOutcome(hold, immediately) ==
    IF Busy(DisplaySlots, immediately) THEN "dropped"
    ELSE IF hold = 0 THEN "completed" ELSE "held"

ToneOutcome(duration, immediately) ==
    IF Busy({"play"}, immediately) \/ duration < 0 THEN "dropped" ELSE "held"

SoundOutcome(known, immediately) ==
    IF Busy({"play"}, immediately) \/ ~known THEN "dropped" ELSE "held"

(* toNonNegativeInteger, and the default image of an empty sequence.       *)
Hold(duration) == IF duration > 0 THEN duration ELSE 0
FramesOf(images) == IF images = 0 THEN 1 ELSE images

(* A one-character text is a static show.                                  *)
DisplayScroll(o, length, immediately, background) ==
    LET kind == IF length = 1 THEN "show" ELSE "scroll"
        outcome == TextOutcome(immediately)
    IN  /\ Dispatch(o, Request(kind, length, ScrollSteps(length), 0, background),
                    DisplaySlots, immediately, outcome)
        /\ screen' = IF outcome = "dropped" THEN screen
                     ELSE IF length = 1 THEN Glyph(o) ELSE Dark

(* A draw that takes no lease paints its last frame.                       *)
DrawImage(o, images, duration, immediately, background) ==
    LET outcome == DrawOutcome(Hold(duration), immediately)
    IN  /\ Dispatch(o, Request("draw", FramesOf(images), Hold(duration), 1, background),
                    DisplaySlots, immediately, outcome)
        /\ screen' = CASE outcome = "dropped" -> screen
                       [] outcome = "held" -> Frame(o, 0)
                       [] outcome = "completed" -> Frame(o, FramesOf(images) - 1)

PlayTone(o, duration, immediately, background) ==
    /\ Dispatch(o, Request("play", 1, duration, 0, background), {"play"}, immediately,
                ToneOutcome(duration, immediately))
    /\ UNCHANGED screen

PlaySound(o, known, immediately, background) ==
    /\ Dispatch(o, Request("play", 1, SoundLength, 0, background), {"play"}, immediately,
                SoundOutcome(known, immediately))
    /\ UNCHANGED screen

(* execDisplayClear: preempt, then blank.                                  *)
DisplayClear ==
    /\ pc = "think"
    /\ lease' = Without(DisplaySlots)
    /\ EndAll(HoldersOf(DisplaySlots), "preempted")
    /\ screen' = Dark
    /\ UNCHANGED <<now, loaded, pc>>

(* execDisplaySetPixel takes no lease; a coordinate off the display is not  *)
(* written.                                                                *)
DisplaySetPixel(x) ==
    /\ pc = "think"
    /\ screen' = IF x \in Columns THEN [screen EXCEPT ![x] = Pixel] ELSE screen
    /\ UNCHANGED <<now, loaded, pc, lease, op, handle, endings>>

(* The Device API a user tile calls (wendoo/module.ts) has dispatches of   *)
(* its own onto the same ports: a draw is of one image, and a tone of a    *)
(* wave the port does not sound is resolved where it is asked for, once    *)
(* "immediately" has had its way.  No ending is reported to the context    *)
(* for them: endings has what the port, or the function, made of the call. *)
ApiScrollText(o, length, immediately, background) ==
    DisplayScroll(o, length, immediately, background)
ApiDrawImage(o, duration, immediately, background) ==
    DrawImage(o, 1, duration, immediately, background)
ApiPlaySound(o, known, immediately, background) ==
    PlaySound(o, known, immediately, background)
ApiPlayTone(o, wave, duration, immediately, background) ==
    IF wave
    THEN PlayTone(o, duration, immediately, background)
    ELSE /\ Dispatch(o, Request("play", 1, duration, 0, FALSE), {"play"}, immediately, "dropped")
         /\ UNCHANGED screen
ApiClear == DisplayClear
ApiSetPixelValue(x) == DisplaySetPixel(x)

-----------------------------------------------------------------------------
(* WodalMicroBitRuntime: tick, load and unload.                            *)

Tick(milliseconds) ==
    /\ pc = "idle" /\ loaded
    /\ MayWrap \/ now + milliseconds < Modulus
    /\ now' = (now + milliseconds) % Modulus
    /\ pc' = "think"
    /\ UNCHANGED <<loaded, lease, op, handle, endings, screen>>

(* display.advanceScroll: the poll of the display once the brain thought.   *)
(* One rendering at most holds the lease (OneRendering), so the poll is    *)
(* split over the three renderings and the idle display.                   *)
EndThink(rendering) ==
    /\ pc = "think" /\ pc' = "settle"
    /\ rendering \in HoldersOf(DisplaySlots) \cup {NoOp}
    /\ rendering = NoOp => HoldersOf(DisplaySlots) = {}
    /\ UNCHANGED <<now, loaded>>

AdvanceIdle == EndThink(NoOp) /\ UNCHANGED <<lease, op, handle, endings, screen>>

(* The frame due at a time, and whether a draw is over.                    *)
FrameDue(o) ==
    LET due == (now - op[o].start) \div op[o].hold
    IN  IF due < op[o].length - 1 THEN due ELSE op[o].length - 1
DrawOver(o) == now >= op[o].start + op[o].length * op[o].hold

(* Mutant of AdvanceDraw: one frame per tick at most.                      *)
AdvanceDrawSlow ==
    LET o == lease["draw"]
        painted == IF op[o].rendered <= FrameDue(o) THEN op[o].rendered + 1 ELSE op[o].rendered
    IN  /\ o # NoOp /\ EndThink(o)
        /\ screen' = IF painted = op[o].rendered THEN screen ELSE Frame(o, painted - 1)
        /\ IF DrawOver(o)
           THEN Release("draw", "completed")
           ELSE /\ op' = [op EXCEPT ![o].rendered = painted]
                /\ UNCHANGED <<lease, handle, endings>>

AdvanceDraw ==
    LET o == lease["draw"]
        painted == IF op[o].rendered <= FrameDue(o) THEN FrameDue(o) + 1 ELSE op[o].rendered
    IN  /\ o # NoOp /\ EndThink(o)
        /\ screen' = IF painted = op[o].rendered THEN screen ELSE Frame(o, painted - 1)
        /\ IF DrawOver(o)
           THEN Release("draw", "completed")
           ELSE /\ op' = [op EXCEPT ![o].rendered = painted]
                /\ UNCHANGED <<lease, handle, endings>>

AdvanceShow ==
    LET o == lease["show"]
    IN  /\ o # NoOp /\ EndThink(o)
        /\ IF now < op[o].start + op[o].hold
           THEN UNCHANGED <<lease, op, handle, endings, screen>>
           ELSE Release("show", "completed") /\ screen' = Dark

(* Mutant of StepDue: the last step is never due.                          *)
StepDueShort(o) ==
    IF now <= op[o].start THEN 0
    ELSE IF now - op[o].start < op[o].hold THEN now - op[o].start ELSE op[o].hold - 1

(* The step due at a time: the duration is one unit per step.              *)
StepDue(o) ==
    IF now <= op[o].start THEN 0
    ELSE IF now - op[o].start < op[o].hold THEN now - op[o].start ELSE op[o].hold

AdvanceScroll ==
    LET o == lease["scroll"]
        steps == IF StepDue(o) > op[o].rendered THEN StepDue(o) ELSE op[o].rendered
    IN  /\ o # NoOp /\ EndThink(o)
        /\ screen' = Scrolled(o, op[o].rendered, steps)
        /\ IF steps >= op[o].hold
           THEN Release("scroll", "completed")
           ELSE /\ op' = [op EXCEPT ![o].rendered = steps]
                /\ UNCHANGED <<lease, handle, endings>>

(* speaker.advancePlay ends the tick.                                      *)
AdvancePlay ==
    LET o == lease["play"]
    IN  /\ pc = "settle" /\ pc' = "idle"
        /\ IF o = NoOp \/ now < op[o].start + op[o].hold
           THEN UNCHANGED <<lease, op, handle, endings>>
           ELSE Release("play", "completed")
        /\ UNCHANGED <<now, loaded, screen>>

(* Mutant of ResetDevice: the speaker keeps its play.                      *)
ResetDeviceKeepsPlay ==
    /\ now' = 0
    /\ lease' = Without(DisplaySlots)
    /\ handle' = [o \in Ops |-> IF handle[o] = "pending" THEN "gone" ELSE handle[o]]
    /\ op' = [o \in Ops |-> IF o \in HoldersOf(DisplaySlots) THEN Spent(o) ELSE op[o]]
    /\ screen' = Dark
    /\ UNCHANGED <<pc, endings>>

(* resetDevice: the brain is shut down, taking its handles with it, and the *)
(* device drops its leases without a report.                               *)
ResetDevice ==
    /\ now' = 0
    /\ lease' = Free
    /\ handle' = [o \in Ops |-> IF handle[o] = "pending" THEN "gone" ELSE handle[o]]
    /\ op' = [o \in Ops |-> IF HoldsLease(o) THEN Spent(o) ELSE op[o]]
    /\ screen' = Dark
    /\ UNCHANGED <<pc, endings>>

Load == pc = "idle" /\ loaded' = TRUE /\ ResetDevice
Unload == pc = "idle" /\ loaded /\ loaded' = FALSE /\ ResetDevice

-----------------------------------------------------------------------------
Init ==
    /\ now = 0 /\ loaded = FALSE /\ pc = "idle"
    /\ lease = Free
    /\ op = [o \in Ops |-> NoRequest]
    /\ handle = [o \in Ops |-> "none"]
    /\ endings = [o \in Ops |-> << >>]
    /\ screen = Dark

Think ==
    \/ \E o \in Ops, immediately, background \in BOOLEAN :
        \/ \E n \in TextLengths : DisplayScroll(o, n, immediately, background)
        \/ \E n \in FrameCounts, d \in Durations : DrawImage(o, n, d, immediately, background)
        \/ \E d \in Durations : PlayTone(o, d, immediately, background)
        \/ \E known \in BOOLEAN : PlaySound(o, known, immediately, background)
        \/ \E n \in TextLengths : ApiScrollText(o, n, immediately, background)
        \/ \E d \in Durations : ApiDrawImage(o, d, immediately, background)
        \/ \E wave \in BOOLEAN, d \in Durations : ApiPlayTone(o, wave, d, immediately, background)
        \/ \E known \in BOOLEAN : ApiPlaySound(o, known, immediately, background)
    \/ DisplayClear \/ ApiClear
    \/ \E x \in Pixels : DisplaySetPixel(x) \/ ApiSetPixelValue(x)

Settle == AdvanceIdle \/ AdvanceDraw \/ AdvanceShow \/ AdvanceScroll \/ AdvancePlay

Next ==
    \/ \E milliseconds \in TickLengths : Tick(milliseconds)
    \/ Think \/ Settle \/ Load \/ Unload

(* The frame loop keeps ticking a loaded device and its frames are not all  *)
(* at the same time; a tick runs to its end.                               *)
TimePasses == \E milliseconds \in TickLengths \ {0} : Tick(milliseconds)
Fairness == SF_vars(TimePasses) /\ WF_vars(Settle)

Spec == Init /\ [][Next]_vars /\ Fairness

-----------------------------------------------------------------------------
(* Properties.                                                             *)

TypeOK ==
    /\ now \in 0..(Modulus - 1) /\ loaded \in BOOLEAN
    /\ pc \in {"idle", "think", "settle"}
    /\ lease \in [Slots -> Ops \cup {NoOp}]
    /\ op \in [Ops -> [kind : {"none"} \cup Slots, start : Nat, length : Nat, hold : Int,
                       rendered : Nat, background : BOOLEAN]]
    /\ handle \in [Ops -> {"none", "pending", "resolved", "gone"}]
    /\ endings \in [Ops -> Seq(OperationEnd)]
    /\ screen \in [Columns -> Cells]

(* A call that waits never waits for nothing: its handle is pending exactly *)
(* while its operation holds the display or the speaker, so every way an   *)
(* operation can leave a lease settles the handle (display.preempt, the     *)
(* advances, a refused offer, a background dispatch).                      *)
PendingHolds ==
    \A o \in Ops : handle[o] = "pending" <=> HoldsLease(o) /\ ~op[o].background

(* isBusy keeps the three display renderings exclusive, so the poll that    *)
(* advances them in a fixed order never advances two.                      *)
OneRendering == Cardinality(HoldersOf(DisplaySlots)) <= 1

(* The total time an accepted operation holds its lease.                   *)
Span(o) == IF op[o].kind = "draw" THEN op[o].length * op[o].hold ELSE op[o].hold

(* Between two ticks no lease is overdue: the poll after the think settles  *)
(* everything whose time has come, whatever the length of the tick, and a   *)
(* reset leaves no lease of the earlier clock behind.                      *)
NoneOverdue ==
    pc = "idle" => \A o \in Ops : HoldsLease(o) => now < op[o].start + Span(o)

(* Between two ticks a draw shows the frame whose time it is, however many  *)
(* frames the tick skipped; columns a pixel was set on aside.              *)
FrameShown ==
    \A o \in Ops :
        pc = "idle" /\ lease["draw"] = o =>
            LET i == (now - op[o].start) \div op[o].hold
            IN  \A x \in Columns : screen[x] \in {Pixel, Frame(o, i)[x]}

(* A text that finished has left the screen: the blank cycle of a scroll    *)
(* shifts its last column out and the end of a show blanks the glyph.      *)
TextLeaves ==
    \A o \in Ops, x \in Columns :
        op[o].kind \in {"show", "scroll"} /\ endings[o] = <<"completed">> =>
            screen[x][1] # o

(* Between two ticks the screen is where the clock is: one rendering at     *)
(* most, none that is over, at the frame that is due, and of a text that    *)
(* finished nothing is left.                                                *)
ScreenInTime == TypeOK /\ OneRendering /\ NoneOverdue /\ FrameShown /\ TextLeaves

(* Both subsystems implement the promise of operation-end.ts: one operation *)
(* at a time, and one report of how each ended, a reset apart.             *)
PhaseOf(o, kinds) ==
    IF op[o].kind \notin kinds THEN "unasked"
    ELSE IF endings[o] # << >> THEN "ended"
    ELSE IF HoldsLease(o) THEN "held" ELSE "lost"
Display == INSTANCE OperationLease
           WITH phase <- [o \in Ops |-> PhaseOf(o, DisplaySlots)], clock <- now
Speaker == INSTANCE OperationLease
           WITH phase <- [o \in Ops |-> PhaseOf(o, {"play"})], clock <- now
DisplayLease == Display!LeaseSpec
SpeakerLease == Speaker!LeaseSpec

(* No operation is reported twice, and none after its device was reset.    *)
OneReport == [][\A o \in Ops : endings'[o] # endings[o] => endings[o] = << >> /\ handle[o] # "gone"]_vars

(* Display and speaker keep the promise of operation-end.ts, and no ending  *)
(* is reported that the promise does not allow (the leases and onEnd of     *)
(* microbit-display.ts and microbit-speaker.ts).                            *)
LeasesKept == DisplayLease /\ SpeakerLease /\ OneReport

(* An operation whose time comes before the run's last tick ends: no lease  *)
(* is held for ever while the frame loop ticks.                            *)
LeaseEnds ==
    \A o \in Ops :
        (HoldsLease(o) /\ op[o].start + Span(o) < Modulus) ~> ~HoldsLease(o)

=============================================================================
