----------------------------- MODULE DeviceInputs -----------------------------
(***************************************************************************)
(* The buttons and the touch logo of a device and the sensors that read    *)
(* them: core/button.ts, core/touch-button.ts, targets/microbit-v2/        *)
(* microbit.ts, wendoo/actions/button-sensor.ts.                           *)
(*                                                                         *)
(* The user acts between ticks.  A tick advances the timer, drains the bus *)
(* (nothing listens in this program) and thinks: every sensor call site of *)
(* the page is evaluated at most once, and one whose rule is not reached   *)
(* is not.                                                                 *)
(***************************************************************************)
EXTENDS Integers, Sequences, FiniteSets

CONSTANTS
    Sites,          \* call sites, named for the button they read: "A", "B", "AB", "logo"
    LongClick,      \* LONG_CLICK_THRESHOLD_MS
    Window,         \* DOUBLE_CLICK_WINDOW_MS
    Wrap,           \* the timer counts modulo Wrap (2^32)
    Half,           \* int32 is -Half..Half-1 (2^31)
    Thresholds,     \* what user code sets the touch threshold to
    Steps,          \* how long a tick may be
    MaxClock, MaxBus   \* bounds: total time, events between two ticks
InputsParameters ==
    /\ Sites \subseteq {"A", "B", "AB", "logo"} /\ LongClick \in Nat /\ Window \in Nat
    /\ Wrap \in Nat \ {0} /\ Half \in Nat \ {0, 1} /\ Thresholds \subseteq (-Half)..(Half - 1)
    /\ Steps \subseteq Nat /\ MaxClock \in Nat /\ MaxBus \in Nat

VARIABLES
    pressed,    \* the buttons "A", "B" and "logo" that are pressed
    logo,       \* [value, threshold]
    bus,        \* the queued events, <<source, event>>
    loaded, now,
    state,      \* per site: [seeded, prev, start, last, pending]
    todo,       \* the sites this think has not evaluated
    thinking,
    clock, log  \* for the properties: time that does not wrap, and what each
                \* site reported since its page was entered
vars == <<pressed, logo, bus, loaded, now, state, todo, thinking, clock, log>>

Unseeded == [seeded |-> FALSE, prev |-> FALSE, start |-> 0, last |-> 0, pending |-> FALSE]
Level(s) == IF s = "AB" THEN {"A", "B"} \subseteq pressed ELSE s \in pressed
Touch == [value |-> 0, threshold |-> 1]
ToInt32(v) == ((v + Half) % (2 * Half)) - Half

Init ==
    /\ pressed = {} /\ logo = Touch /\ bus = <<>>
    /\ loaded = FALSE /\ now = 0 /\ state = [s \in Sites |-> Unseeded] /\ todo = {} /\ thinking = FALSE
    /\ clock = 0 /\ log = [s \in Sites |-> <<>>]

-----------------------------------------------------------------------------
(* Button.setPressed: nothing happens unless the level changes.             *)
Raised(b, down) == IF down THEN << <<b, "DOWN">> >> ELSE << <<b, "UP">>, <<b, "CLICK">> >>
SetPressed(b, down) ==
    IF down = (b \in pressed) THEN UNCHANGED <<pressed, bus>>
    ELSE /\ pressed' = IF down THEN pressed \cup {b} ELSE pressed \ {b}
         /\ bus' = bus \o Raised(b, down)
Device == <<loaded, now, state, todo, thinking, clock, log>>
UserActs == ~thinking /\ Len(bus) < MaxBus

(* TouchButton.setValue and setThreshold.                                   *)
TouchValue(v) ==
    LET value == ToInt32(v) IN
    logo' = [logo EXCEPT !.value = value] /\ SetPressed("logo", value >= logo.threshold)
(* MicroBit.setLogoTouched: a reading on either side of the threshold.      *)
SetLogoTouched(touched) ==
    /\ UserActs /\ UNCHANGED Device
    /\ TouchValue(IF touched THEN (IF logo.threshold > 1 THEN logo.threshold ELSE 1) ELSE logo.threshold - 1)
(* User code, in a think.                                                   *)
SetValue(v) == thinking /\ Len(bus) < MaxBus /\ TouchValue(v) /\ UNCHANGED Device
SetThreshold(t) ==
    /\ thinking /\ Len(bus) < MaxBus /\ UNCHANGED Device
    /\ logo' = [logo EXCEPT !.threshold = t] /\ SetPressed("logo", logo.value >= t)

(* clear: a load or an unload puts the device back to its power-on state,   *)
(* but for the threshold.                                                   *)
Clear ==
    /\ now' = 0 /\ bus' = <<>> /\ pressed' = {} /\ logo' = [logo EXCEPT !.value = 0]
    /\ state' = [s \in Sites |-> Unseeded] /\ log' = [s \in Sites |-> <<>>]
    /\ UNCHANGED <<todo, thinking, clock>>
Load == ~thinking /\ loaded' = TRUE /\ Clear
Unload == ~thinking /\ loaded /\ loaded' = FALSE /\ Clear

(* tick: the time passes, the bus is drained, the brain thinks.             *)
ToUint32(v) == v % Wrap
Advance(ms) == ToUint32(now + ms)
Tick(ms) ==
    /\ loaded /\ ~thinking /\ clock + ms <= MaxClock
    /\ now' = Advance(ms) /\ clock' = clock + ms
    /\ bus' = <<>> /\ thinking' = TRUE /\ todo' = Sites
    /\ UNCHANGED <<pressed, logo, loaded, state, log>>
EndThink == thinking /\ thinking' = FALSE /\ todo' = {}
            /\ UNCHANGED <<pressed, logo, bus, loaded, now, state, clock, log>>
(* The page is entered: onPageEntered clears the call sites.                *)
EnterPage ==
    /\ thinking /\ todo' = {}
    /\ state' = [s \in Sites |-> Unseeded] /\ log' = [s \in Sites |-> <<>>]
    /\ UNCHANGED <<pressed, logo, bus, loaded, now, thinking, clock>>

-----------------------------------------------------------------------------
(* deriveEvents.                                                            *)
PressEdge(s) == ~state[s].prev /\ Level(s)
ReleaseEdge(s) == state[s].prev /\ ~Level(s)
IsDouble(s) == PressEdge(s) /\ state[s].pending /\ now - state[s].last <= Window
IsLong(s) == ReleaseEdge(s) /\ now - state[s].start >= LongClick
Events(s) ==
    (IF PressEdge(s) THEN {"pressed"} ELSE {}) \cup (IF IsDouble(s) THEN {"double click"} ELSE {})
    \cup (IF ReleaseEdge(s) THEN {"released", IF IsLong(s) THEN "long click" ELSE "click"} ELSE {})
    \cup (IF Level(s) THEN {"held"} ELSE {})
Advanced(s) ==
    LET old == state[s]
        clicked == ReleaseEdge(s) /\ ~IsLong(s)
    IN  [old EXCEPT !.prev = Level(s), !.start = IF PressEdge(s) THEN now ELSE @,
                    !.last = IF clicked THEN now ELSE @, !.pending = (@ /\ ~IsDouble(s)) \/ clicked]
(* The first evaluation on a page takes the level as it is.                 *)
Seed(s) == [Unseeded EXCEPT !.seeded = TRUE, !.prev = Level(s), !.start = now]
Evaluate(s) ==
    /\ thinking /\ s \in todo /\ todo' = todo \ {s}
    /\ IF ~state[s].seeded
       THEN /\ state' = [state EXCEPT ![s] = Seed(s)]
            /\ log' = [log EXCEPT ![s] = << [events |-> IF Level(s) THEN {"held"} ELSE {}, at |-> clock] >>]
       ELSE /\ state' = [state EXCEPT ![s] = Advanced(s)]
            /\ log' = [log EXCEPT ![s] = IF Events(s) \subseteq {"held"} THEN @
                                         ELSE Append(@, [events |-> Events(s), at |-> clock])]
    /\ UNCHANGED <<pressed, logo, bus, loaded, now, thinking, clock>>

DeviceNext ==
    \/ \E t \in Thresholds : SetThreshold(t) \/ SetValue(t)
    \/ Load \/ Unload \/ EndThink \/ EnterPage
    \/ \E ms \in Steps : Tick(ms)
    \/ \E s \in Sites : Evaluate(s)
-----------------------------------------------------------------------------
TypeOK ==
    /\ pressed \subseteq {"A", "B", "logo"} /\ logo.value \in (-Half)..(Half - 1)
    /\ logo.threshold \in (-Half)..(Half - 1) /\ now \in 0..(Wrap - 1)
    /\ (thinking => loaded) /\ todo \subseteq Sites /\ (todo # {} => thinking)

After == [DOWN |-> "UP", UP |-> "CLICK", CLICK |-> "DOWN"]
(* Button.setPressed: the events of a button in the queue alternate, and a  *)
(* click follows each release and nothing else.                             *)
Alternates ==
    \A b \in {"A", "B", "logo"} :
        LET own == {i \in DOMAIN bus : bus[i][1] = b}
        IN  \A i \in own :
              /\ \A j \in own : i < j /\ (\A k \in own : k <= i \/ k >= j) => bus[j][2] = After[bus[i][2]]
              /\ (\A j \in own : j <= i) => (b \in pressed) = (bus[i][2] = "DOWN")

(* TouchButton: "readings at or above this value are pressed".              *)
TouchLevel == ("logo" \in pressed) = (logo.value >= logo.threshold)

(* LONG_CLICK_THRESHOLD_MS: a release is one click, a long one exactly if   *)
(* the press lasted as long, measured in time that does not wrap.           *)
LongIsLong ==
    \A s \in Sites : \A i \in 2..Len(log[s]) :
        "released" \in log[s][i].events =>
            ("long click" \in log[s][i].events <=> log[s][i].at - log[s][i - 1].at >= LongClick)

(* DOUBLE_CLICK_WINDOW_MS: a press is a double click exactly if it comes    *)
(* within the window of a click that no other double click has used.        *)
Has(s, i, e) == e \in log[s][i].events
DoubleIsDouble ==
    \A s \in Sites : \A i \in 2..Len(log[s]) :
        "pressed" \in log[s][i].events =>
            (Has(s, i, "double click") <=>
                \E j \in 2..(i - 1) :
                    /\ Has(s, j, "click") /\ log[s][i].at - log[s][j].at <= Window
                    /\ ~\E k \in j..(i - 1) : Has(s, k, "double click"))
=============================================================================
