---------------------------- MODULE ObservableTrace ----------------------------
(***************************************************************************)
(* The observable trace of a run (wendoo/observable-trace.ts): a line      *)
(* for every event at the host binding, by which two VMs are compared.     *)
(* Two VMs run here, each with its own writer.                             *)
(*                                                                         *)
(* A trace is a sequence of tokens, the line ends among them; a quoted     *)
(* string is split into its quotes and its escaped bytes, since nothing    *)
(* else keeps it apart from what follows.  Ids, counts, bytes and bit      *)
(* patterns are tokens of their own.                                       *)
(***************************************************************************)
EXTENDS Integers, Sequences, FiniteSets, SequencesExt, TLC

CONSTANTS
    Args, Results,  \* argument lists, and results: one value, or none
    Numbers,        \* doubles: the nearest single, and what that leaves out
    Ids,            \* whole numbers: ids, groups, pins, levels, codes
    Called,         \* the ports the programs call
    Texts, Buffers, \* strings and buffers, as sequences of bytes
    Runs,           \* the VMs that are compared
    Precision,      \* the profile's numeric precision
    Word,           \* 2^32: what a whole number is taken modulo
    MaxEvents       \* bound: the events of a run

(* hexU32: the unsigned 32-bit value.  numberBits: at single precision the *)
(* number is rounded first.                                                *)
Hex(n) == <<ToString(n % Word)>>
Bits(x) == IF Precision = "f32" THEN <<x[1]>> ELSE <<x[1], x[2]>>

(* quoted: a quote and a backslash behind a backslash, another byte that is *)
(* not printable as its number behind one.                                  *)
Escaped(byte) ==
    CASE byte \in {"quote", "backslash"} -> <<"backslash", byte>>
      [] byte \in {"newline", "accent"} -> <<"backslash", "x", byte>>
      [] OTHER -> <<byte>>
Quoted(text) == <<"quote">> \o FlattenSeq([i \in DOMAIN text |-> Escaped(text[i])]) \o <<"quote">>

(* A value: its kind and, as fits, the name of its type, a number, the      *)
(* bytes of a string or a buffer, or the slots.  The name is not rendered,  *)
(* and a value whose contents cannot be reached, a native one, is opaque.   *)
Opaque == <<"opaque">>
(* Mutant: the elements of a list are not counted.                          *)
RECURSIVE ValueTokenUncounted(_)
ValueTokenUncounted(v) ==
    CASE v.t \in {"void", "nil"} -> <<v.t>>
      [] v.t \in {"bool", "buffer"} -> <<v.t>> \o v.bytes
      [] v.t = "number" -> <<"number">> \o Bits(v.number)
      [] v.t \in {"string", "enum"} -> <<v.t>> \o Quoted(v.bytes)
      [] v.t = "struct" /\ ~v.native ->
             <<"struct">> \o FlattenSeq([i \in DOMAIN v.slots |-> ValueTokenUncounted(v.slots[i])])
      [] v.t = "list" -> <<"list">> \o FlattenSeq([i \in DOMAIN v.slots |-> ValueTokenUncounted(v.slots[i])])
      [] OTHER -> Opaque
(* valueToken *)
RECURSIVE ValueToken(_)
ValueToken(v) ==
    LET slots == FlattenSeq([i \in DOMAIN v.slots |-> ValueToken(v.slots[i])])
    IN  CASE v.t \in {"void", "nil"} -> <<v.t>>
          [] v.t \in {"bool", "buffer"} -> <<v.t>> \o v.bytes
          [] v.t = "number" -> <<"number">> \o Bits(v.number)
          [] v.t \in {"string", "enum"} -> <<v.t>> \o Quoted(v.bytes)
          [] v.t = "struct" /\ ~v.native -> <<"struct">> \o Hex(Len(v.slots)) \o slots
          [] v.t = "list" -> <<"list">> \o Hex(Len(v.slots)) \o slots
          [] OTHER -> Opaque

-----------------------------------------------------------------------------
(* The lines of the events.                                                 *)
Header(profile) == <<"mctrace 1", "lf", "profile", profile, "lf", "precision", Precision, "lf">>
CallPrefix(verb, e) ==
    <<verb>> \o Hex(e.id) \o <<"site">> \o Hex(e.site) \o <<"args">> \o Hex(Len(e.args))
    \o FlattenSeq([i \in DOMAIN e.args |-> ValueToken(e.args[i])])
(* onHostActionReturn: by the binding, and by whether there is a result.    *)
ActionLine(e) ==
    CallPrefix(IF e.binding = "bytecode" THEN "tile" ELSE "action", e)
    \o IF e.result = <<>> THEN <<"async">> ELSE <<"result">> \o ValueToken(e.result[1])
(* A port line: the port's words and what it was given.                     *)
Texted == {"display scroll", "speaker play"}
PortLine(e) ==
    <<"port", e.port>>
    \o CASE e.port = "speaker tone" ->
               <<e.wave>> \o Bits(e.numbers[1]) \o Hex(e.whole[1]) \o Bits(e.numbers[2])
         [] e.port \in Texted -> Quoted(e.bytes)
         [] OTHER -> FlattenSeq([i \in DOMAIN e.numbers |-> Bits(e.numbers[i])])
                     \o FlattenSeq([i \in DOMAIN e.whole |-> Hex(e.whole[i])]) \o e.bytes
RadioLine(e) ==
    <<"port", "radio send group">> \o Hex(e.id)
    \o CASE e.type = "number" -> <<"number">> \o Bits(e.number)
         [] e.type = "double" -> <<"double">> \o Bits(e.number)
         [] e.type = "string" -> <<"string">> \o Quoted(e.bytes)
         [] e.type = "value" -> <<"value">> \o Quoted(e.bytes) \o <<"number">> \o Bits(e.number)
         [] e.type = "doubleValue" -> <<"value">> \o Quoted(e.bytes) \o <<"double">> \o Bits(e.number)
         [] e.type = "buffer" -> <<"buffer">> \o e.bytes
         [] e.type = "raw" -> <<"raw">> \o e.bytes
FaultLine(e) == <<"fault">> \o Hex(e.fiber) \o Hex(e.code)

(* The events there can be: of a call, the ids vary or the values do.       *)
Calls ==
    [binding : {"host", "bytecode"}, id : Ids, site : Ids, args : {<<>>}, result : {<<>>}]
      \cup [binding : {"host", "bytecode"}, id : {1}, site : {1}, args : Args, result : Results]
Port(port, wave, numbers, whole, bytes) ==
    [port |-> port, wave |-> wave, numbers |-> numbers, whole |-> whole, bytes |-> bytes]
Ports ==
    LET zero == CHOOSE x \in Numbers : TRUE
        calls ==
            {Port("display set-pixel", "", <<x, y, zero>>, <<>>, <<>>) : x \in Numbers, y \in Numbers}
            \cup {Port(p, "", <<>>, <<>>, text) : p \in Texted, text \in Texts}
            \cup {Port("display clear", "", <<>>, <<>>, <<>>)}
            \cup {Port(p, "", <<>>, <<m, n>>, <<>>) :
                     p \in {"gpio digital-write", "gpio digital-read", "gpio set-pull", "gpio servo-write",
                            "gpio analog-read"}, m \in Ids, n \in Ids}
            \cup {Port("sonar distance", "", <<>>, <<m, 1, n>>, <<>>) : m \in Ids, n \in Ids}
            \cup {Port("i2c write", "", <<>>, <<m>>, buffer) : m \in Ids, buffer \in Buffers}
            \cup {Port(p, "", <<>>, <<1, n>>, buffer) :
                     p \in {"i2c read", "display draw"}, n \in Ids, buffer \in Buffers}
            \cup {Port("speaker tone", wave, <<x, zero>>, <<n>>, <<>>) :
                     wave \in {"square", "sine"}, x \in Numbers, n \in Ids}
    IN  {e \in calls : e.port \in Called}
Send(id, type, number, bytes) == [id |-> id, type |-> type, number |-> number, bytes |-> bytes]
Sends ==
    {Send(id, type, x, <<>>) : id \in Ids, type \in {"number", "double"}, x \in Numbers}
    \cup {Send(id, type, x, bytes) : id \in Ids, type \in {"value", "doubleValue"}, x \in Numbers,
                                     bytes \in {<<>>, <<"letter">>}}
    \cup {Send(id, "string", <<>>, text) : id \in Ids, text \in Texts}
    \cup {Send(id, type, <<>>, buffer) : id \in Ids, type \in {"buffer", "raw"}, buffer \in Buffers}
Faults == [fiber : Ids, code : Ids]

-----------------------------------------------------------------------------
VARIABLES
    events,  \* per run: what happened, in order
    out      \* per run: the text of its writer
vars == <<events, out>>

Init ==
    /\ events = [r \in Runs |-> <<>>]
    /\ out = [r \in Runs |-> Header("1")]
Emit(r, kind, e, line) ==
    /\ events' = [events EXCEPT ![r] = Append(@, [kind |-> kind, event |-> e])]
    /\ out' = [out EXCEPT ![r] = @ \o line \o <<"lf">>]

(* tick: an ordinal, the time and the step since the think before it.       *)
Tick(r) ==
    \E time \in Numbers, dt \in Numbers :
        LET ordinal == Cardinality({i \in DOMAIN events[r] : events[r][i].kind = "tick"}) + 1
        IN  Emit(r, "tick", <<time, dt>>,
                 <<"tick">> \o Hex(ordinal) \o <<"time">> \o Bits(time) \o <<"dt">> \o Bits(dt))
ActionReturns(r) == \E e \in Calls : Emit(r, "call", e, ActionLine(e))
PortCall(r) == \E e \in Ports : Emit(r, "port", e, PortLine(e))
RadioSend(r) == \E e \in Sends : Emit(r, "radio", e, RadioLine(e))
FiberFault(r) == \E e \in Faults : Emit(r, "fault", e, FaultLine(e))

Next ==
    \E r \in Runs :
        /\ Len(events[r]) < MaxEvents
        /\ Tick(r) \/ ActionReturns(r) \/ PortCall(r) \/ RadioSend(r) \/ FiberFault(r)
Spec == Init /\ [][Next]_vars

-----------------------------------------------------------------------------
(* What the format does not tell: the name of a type, what a value of an    *)
(* unrendered kind or a native one holds, what single precision rounds off, *)
(* and all of a whole number but its unsigned 32-bit value.                 *)
Rounded(x) == IF Precision = "f32" /\ x # <<>> THEN <<x[1], "rounded">> ELSE x
Unsigned(n) == n % Word
Rendered == {"void", "nil", "bool", "number", "string", "enum", "buffer", "list"}
RECURSIVE Shown(_)
Shown(v) ==
    IF v.t \in Rendered \/ (v.t = "struct" /\ ~v.native)
    THEN [v EXCEPT !.type = "", !.number = Rounded(@), !.slots = [i \in DOMAIN @ |-> Shown(@[i])]]
    ELSE [t |-> "opaque", type |-> "", number |-> <<>>, bytes |-> <<>>, slots |-> <<>>, native |-> FALSE]
AllShown(list) == [i \in DOMAIN list |-> Shown(list[i])]

Told(kind, e) ==
    CASE kind = "tick" -> [i \in DOMAIN e |-> Rounded(e[i])]
      [] kind = "call" -> [e EXCEPT !.id = Unsigned(@), !.site = Unsigned(@),
                                    !.args = AllShown(@), !.result = AllShown(@)]
      [] kind = "port" -> [e EXCEPT !.numbers = [i \in DOMAIN @ |-> Rounded(@[i])],
                                    !.whole = [i \in DOMAIN @ |-> Unsigned(@[i])]]
      [] kind = "radio" -> [e EXCEPT !.id = Unsigned(@), !.number = Rounded(@)]
      [] kind = "fault" -> [fiber |-> Unsigned(e.fiber), code |-> Unsigned(e.code)]
SameEvent(a, b) == a.kind = b.kind /\ Told(a.kind, a.event) = Told(b.kind, b.event)
SameRun(q, r) ==
    Len(events[q]) = Len(events[r]) /\ \A i \in DOMAIN events[q] : SameEvent(events[q][i], events[r][i])

(* "Two VM implementations fed the same program and schedule produce        *)
(* byte-identical traces": two traces are equal exactly when the same       *)
(* events were seen in the same order, as far as the format tells events    *)
(* apart (Told).  A quote or a line end in a string, an argument that runs  *)
(* into the next one or a nested list would break it.                       *)
TracesTellRuns == \A q, r \in Runs : out[q] = out[r] <=> SameRun(q, r)

=============================================================================
