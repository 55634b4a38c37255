---------------------------- MODULE RehearsalWorld ----------------------------
(***************************************************************************)
(* A rehearsal of a brain on one simulated device (rehearsal/world.ts and  *)
(* adapter.ts): a script of percepts is applied before the think it names, *)
(* the device is ticked (wendoo/runtime.ts), and the endings of the        *)
(* operations the brain starts are published.                              *)
(*                                                                         *)
(* The brain listens with one number receiver and reads the button and the *)
(* light at every think, and may start operations on one leased subsystem. *)
(* Gestures are the business of GestureEngine and are left out.            *)
(***************************************************************************)
EXTENDS Integers, Sequences, FiniteSets, FiniteSetsExt, SequencesExt

CONSTANTS Scripts,      \* the scripts: sequences of [kind, at, value]
          DefaultRssi,  \* DEFAULT_RSSI
          Bright,       \* the largest light level
          Depth,        \* RADIO_RX_RING_DEPTH
          Thinks, MaxOps, Long   \* bounds: thinks, operations, their length

Levels == {"button-a", "light-level"}
Kinds == Levels \cup {"radio-message-number", "radio-signal-strength"}
Modes == [background : BOOLEAN, immediately : BOOLEAN, thinks : 1 .. Long]
None == 0
Free == [op |-> None, until |-> 0]

RehearsalParameters ==
    /\ DefaultRssi \in Int /\ DefaultRssi <= 0 /\ Bright \in Nat /\ Depth \in Nat \ {0}
    /\ Thinks \in Nat /\ MaxOps \in Nat /\ Long \in Nat \ {0}
    /\ \A s \in Scripts : \A i \in DOMAIN s :
           s[i].kind \in Kinds /\ s[i].at \in Nat /\ s[i].value \in Int

VARIABLES
    world,     \* "none", "staged", "failed" or "shut"
    script,    \* inputs
    think,     \* think: how many thinks were stepped
    level,     \* what the button and the light matrix stand at
    rssi,      \* stage.rssi
    radio,     \* the receive ring: [ring, last]
    cursor,    \* the receiver's call-site state: [armed, at]
    felt,      \* per think stepped: what the brain read
    mode,      \* the operations started: how the call was made
    lease,     \* the operation that holds the subsystem, and until which think
    settled,   \* the operations whose call was answered
    published  \* publishOperationEnding: the endings, in order
vars == <<world, script, think, level, rssi, radio, cursor, felt, mode, lease, settled, published>>

Off == [k \in Levels |-> 0]
Silent == [armed |-> FALSE, at |-> 0]
Nothing == <<>>

-----------------------------------------------------------------------------
(* The percepts of PERCEPTS: a level is set, a strength is stored as -dBm,  *)
(* a message goes into the ring with the strength of the moment.            *)
Clamped(v) == IF v < 0 THEN 0 ELSE IF v > Bright THEN Bright ELSE v
Standing(kind, v) == CASE kind = "light-level" -> Clamped(v) [] OTHER -> IF v # 0 THEN 1 ELSE 0
Strength(v) == IF v < 0 THEN v ELSE -v
(* deliverRadioMessage *)
Deliver(r, v, dbm) ==
    LET all == Append(r.ring, [seq |-> r.last + 1, value |-> v, rssi |-> dbm])
    IN  [ring |-> IF Len(all) > Depth THEN Tail(all) ELSE all, last |-> r.last + 1]

Stage0 == [level |-> Off, rssi |-> DefaultRssi, radio |-> [ring |-> <<>>, last |-> 0]]
Applied(stage, input) ==
    CASE input.kind \in Levels ->
             [stage EXCEPT !.level[input.kind] = Standing(input.kind, input.value)]
      [] input.kind = "radio-message-number" ->
             [stage EXCEPT !.radio = Deliver(@, input.value, stage.rssi)]
      [] input.kind = "radio-signal-strength" -> [stage EXCEPT !.rssi = Strength(input.value)]
Due == SelectSeq(script, LAMBDA input : input.at = think)
Percepts(stage) == FoldLeft(Applied, stage, Due)

(* The receive sensor arms at the head on its first evaluation, and         *)
(* delivers one packet, the oldest, on each one after.                      *)
Armed(last) == [armed |-> TRUE, at |-> last]
Waiting(r) == SelectSeq(r.ring, LAMBDA packet : packet.seq > cursor.at)
Heard(r) == IF cursor.armed /\ Waiting(r) # <<>> THEN <<Head(Waiting(r))>> ELSE Nothing
Cursor(r) ==
    IF ~cursor.armed THEN Armed(r.last)
    ELSE IF Heard(r) = Nothing THEN cursor ELSE [cursor EXCEPT !.at = Heard(r)[1].seq]

-----------------------------------------------------------------------------
(* Mutant: an operation the call waited for is reported as a background end.*)
PublishedEndingAll(op, end, m) ==
    <<[op |-> op, ending |-> IF end = "completed" THEN "background-end" ELSE end]>>
(* publishedEnding: nothing for an end its caller's handle tells.           *)
PublishedEnding(op, end, m) ==
    IF end \in {"dropped", "preempted"} THEN <<[op |-> op, ending |-> end]>>
    ELSE IF m.background THEN <<[op |-> op, ending |-> "background-end"]>> ELSE <<>>

(* What the brain's think did to the subsystem: it started nothing, or one  *)
(* operation, which with "immediately" ends the one that holds the lease    *)
(* and without it is turned away while there is one.                        *)
Start(o, m) ==
    LET busy == lease.op # None
    IN  IF busy /\ ~m.immediately
        THEN [lease |-> lease, ends |-> <<[op |-> o, end |-> "dropped"]>>]
        ELSE [lease |-> [op |-> o, until |-> think + m.thinks],
              ends |-> IF busy THEN <<[op |-> lease.op, end |-> "preempted"]>> ELSE <<>>]
(* The tick's advanceScroll and advancePlay: a lease whose time has come.   *)
Elapsed(l) == l.op # None /\ think >= l.until
Finished(run) ==
    IF Elapsed(run.lease)
    THEN [lease |-> Free, ends |-> Append(run.ends, [op |-> run.lease.op, end |-> "completed"])]
    ELSE run
Publish(modes, ends) ==
    FlattenSeq([i \in DOMAIN ends |-> PublishedEnding(ends[i].op, ends[i].end, modes[ends[i].op])])

-----------------------------------------------------------------------------
Init ==
    /\ world = "none" /\ script \in Scripts /\ think = 0
    /\ level = Off /\ rssi = DefaultRssi /\ radio = Stage0.radio /\ cursor = Silent
    /\ felt = <<>> /\ mode = <<>> /\ lease = Free /\ settled = {} /\ published = <<>>

(* createDeviceWorld: it throws when the brain does not build, the device   *)
(* refuses the image, or there is no stream of events.                      *)
Staged(outcome) ==
    /\ world = "none" /\ world' = outcome
    /\ UNCHANGED <<script, think, level, rssi, radio, cursor, felt, mode, lease, settled, published>>
StageOk == Staged("staged")
StageThrows == Staged("failed")

(* step(): the inputs of this think, in the order of the script, and the    *)
(* tick.  A call in the background is answered at once.                     *)
Step(modes, run) ==
    LET staged == Percepts([level |-> level, rssi |-> rssi, radio |-> radio])
        done == Finished(run)
        ended == {done.ends[i].op : i \in DOMAIN done.ends}
    IN  /\ world = "staged" /\ think < Thinks
        /\ level' = staged.level /\ rssi' = staged.rssi /\ radio' = staged.radio
        /\ cursor' = Cursor(staged.radio)
        /\ felt' = Append(felt, [level |-> staged.level, heard |-> Heard(staged.radio)])
        /\ mode' = modes /\ lease' = done.lease
        /\ settled' = settled \cup ended \cup {o \in DOMAIN modes : modes[o].background}
        /\ published' = published \o Publish(modes, done.ends)
        /\ think' = think + 1
        /\ UNCHANGED <<world, script>>
StepQuiet == Step(mode, [lease |-> lease, ends |-> <<>>])
StepStarts ==
    /\ Len(mode) < MaxOps
    /\ \E m \in Modes : Step(Append(mode, m), Start(Len(mode) + 1, m))

(* shutdown(): the program is unloaded and the device reset; an operation   *)
(* that holds a lease is forgotten, it does not end.                        *)
Shutdown ==
    /\ world = "staged" /\ world' = "shut"
    /\ level' = Off /\ radio' = Stage0.radio /\ cursor' = Silent /\ lease' = Free
    /\ UNCHANGED <<script, think, rssi, felt, mode, settled, published>>

Next == StageOk \/ StageThrows \/ StepQuiet \/ StepStarts \/ Shutdown
Spec == Init /\ [][Next]_vars

-----------------------------------------------------------------------------
(* Every variable stays in its type, the levels in their ranges.            *)
TypeOK ==
    /\ world \in {"none", "staged", "failed", "shut"} /\ script \in Scripts /\ think \in 0 .. Thinks
    /\ level["button-a"] \in 0 .. 1 /\ level["light-level"] \in 0 .. Bright
    /\ rssi \in Int /\ rssi <= 0 /\ Len(radio.ring) <= Depth
    /\ Len(felt) = think /\ mode \in Seq(Modes) /\ settled \subseteq DOMAIN mode
    /\ lease.op \in {None} \cup DOMAIN mode
    /\ \A i \in DOMAIN published : published[i].op \in DOMAIN mode

(* The entries of a kind applied up to think t, the last one applied last:  *)
(* by think, and within one think by their place in the script.             *)
Before(i, j) == \/ script[i].at < script[j].at
                \/ script[i].at = script[j].at /\ i < j
Latest(I) == CHOOSE i \in I : \A j \in I : j = i \/ Before(j, i)
OfKind(kind, t) == {i \in DOMAIN script : script[i].kind = kind /\ script[i].at <= t}
(* "A level applied by one entry holds until a later entry of the same kind *)
(* changes it": at every think the brain reads the last entry's level.      *)
LevelsHold ==
    \A t \in DOMAIN felt : \A kind \in Levels :
        LET entries == OfKind(kind, t - 1)
        IN  felt[t].level[kind] =
                IF entries = {} THEN 0 ELSE Standing(kind, script[Latest(entries)].value)

Messages(t) == {i \in OfKind("radio-message-number", t) : script[i].at = t}
HeardValue(t) == IF felt[t].heard = Nothing THEN {} ELSE {felt[t].heard[1].value}
Arrives(t) == HeardValue(t) = {script[i].value : i \in Messages(t - 1)}
(* No message before the receiver has been evaluated once, and no two for   *)
(* the same think.                                                          *)
Spaced == Messages(0) = {} /\ \A t \in 1 .. Thinks : Cardinality(Messages(t)) <= 1
(* "delivered once, on this think alone": such a message is received by the *)
(* think it names and by no other.                                          *)
ArrivesOnItsThink == Spaced => \A t \in DOMAIN felt : Arrives(t)
(* A received message carries the strength of the last strength entry       *)
(* applied before it was delivered, also when it is read later.             *)
CarriesItsStrength ==
    \A t \in DOMAIN felt : felt[t].heard # Nothing =>
        \E i \in OfKind("radio-message-number", t - 1) :
            /\ script[i].value = felt[t].heard[1].value
            /\ LET before == {j \in OfKind("radio-signal-strength", t - 1) : Before(j, i)}
               IN  felt[t].heard[1].rssi =
                       IF before = {} THEN DefaultRssi ELSE Strength(script[Latest(before)].value)

Told(o) == {i \in DOMAIN published : published[i].op = o}
(* An operation is told of at most once; one that its caller still waits    *)
(* for is not told of; and every operation the run has started and that no  *)
(* longer holds the subsystem was told of, or its caller waited for it.     *)
ToldOrAnswered ==
    \A o \in DOMAIN mode :
        /\ Cardinality(Told(o)) <= 1
        /\ o = lease.op => Told(o) = {} /\ (o \in settled <=> mode[o].background)
        /\ o # lease.op /\ world = "staged" =>
               /\ o \in settled
               /\ Told(o) = {} => ~mode[o].background
               /\ \A i \in Told(o) : published[i].ending = "background-end" => mode[o].background
=============================================================================
