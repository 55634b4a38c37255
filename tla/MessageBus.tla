------------------------------ MODULE MessageBus ------------------------------
(***************************************************************************)
(* The event bus of a device: core/message-bus.ts, core/event.ts.          *)
(*                                                                         *)
(* A handler runs within the delivery of an event, and may register and    *)
(* remove listeners, queue events, or deliver another one at once, in the  *)
(* middle of the first; the deliveries under way are a stack.  Every       *)
(* registration and every queued event has a number of its own, for the    *)
(* properties.                                                             *)
(***************************************************************************)
EXTENDS Naturals, Sequences, SequencesExt, FiniteSets

CONSTANTS Sources, Values,
          MaxListeners, MaxEvents, MaxDepth   \* bounds: registrations, events, nesting
ANY == 0
BusParameters ==
    /\ Sources \subseteq Nat \ {ANY} /\ Values \subseteq Nat \ {ANY}
    /\ MaxListeners \in Nat /\ MaxEvents \in Nat /\ MaxDepth \in Nat \ {0}

VARIABLES listeners, queue,
          stack,     \* the deliveries under way: [event, list, at, called, before]
          running,   \* a handler of the innermost delivery is running
          budget,    \* what is left of the drain's limit, 0 when none is under way
          nextId, nextEvent, delivered
vars == <<listeners, queue, stack, running, budget, nextId, nextEvent, delivered>>

Ids(list) == {list[i].id : i \in DOMAIN list}
(* A list without the entries at the places P.                              *)
Without(list, P) ==
    LET left[n \in 0..Len(list)] ==
            IF n = 0 THEN <<>>
            ELSE IF n \in P THEN left[n - 1] ELSE Append(left[n - 1], list[n])
    IN  left[Len(list)]
Matching(l, e) == l.source \in {e.source, ANY} /\ l.value \in {e.value, ANY}
Innermost == stack[Len(stack)]
(* Code that calls the bus: the program outside it, or a handler.           *)
Caller == IF stack = <<>> THEN budget = 0 ELSE running

Init == /\ listeners = <<>> /\ queue = <<>> /\ stack = <<>> /\ running = FALSE /\ budget = 0
        /\ nextId = 1 /\ nextEvent = 1 /\ delivered = 0

Listen(s, v) ==
    /\ Caller /\ nextId <= MaxListeners
    /\ listeners' = Append(listeners, [source |-> s, value |-> v, id |-> nextId])
    /\ nextId' = nextId + 1
    /\ UNCHANGED <<queue, stack, running, budget, nextEvent, delivered>>
(* Every registration of the pair, or the one of a given handler.           *)
Named(l, s, v, only) == l.source = s /\ l.value = v /\ (only = ANY \/ only = l.id)
Ignore(s, v, only) ==
    /\ Caller
    /\ listeners' = Without(listeners, {i \in DOMAIN listeners : Named(listeners[i], s, v, only)})
    /\ listeners' # listeners
    /\ UNCHANGED <<queue, stack, running, budget, nextId, nextEvent, delivered>>
(* Events are numbered in the order they are queued.                        *)
WodalEvent(s, v, n) == [source |-> s, value |-> v, n |-> n]
Send(s, v) ==
    /\ Caller /\ nextEvent <= MaxEvents
    /\ queue' = Append(queue, WodalEvent(s, v, nextEvent))
    /\ nextEvent' = nextEvent + 1
    /\ UNCHANGED <<listeners, stack, running, budget, nextId, delivered>>

(* deliver works on a copy of the listeners.                                *)
Delivery(e) == [event |-> e, list |-> listeners, at |-> 1, called |-> {}, before |-> Ids(listeners)]
SendImmediate(s, v) ==
    /\ Caller /\ Len(stack) < MaxDepth /\ nextEvent <= MaxEvents
    /\ stack' = Append(stack, Delivery(WodalEvent(s, v, 0)))
    /\ running' = FALSE /\ nextEvent' = nextEvent + 1
    /\ UNCHANGED <<listeners, queue, budget, nextId, delivered>>
Drain(limit) ==
    /\ stack = <<>> /\ budget = 0 /\ queue # <<>> /\ budget' = limit
    /\ UNCHANGED <<listeners, queue, stack, running, nextId, nextEvent, delivered>>
DrainNext ==
    /\ stack = <<>> /\ budget > 0
    /\ IF queue = <<>> THEN budget' = 0 /\ UNCHANGED <<queue, stack, delivered>>
       ELSE /\ stack' = <<Delivery(Head(queue))>> /\ queue' = Tail(queue)
            /\ budget' = budget - 1 /\ delivered' = Head(queue).n
    /\ running' = FALSE
    /\ UNCHANGED <<listeners, nextId, nextEvent>>

(* The list the loop of a delivery walks.                                   *)
(* Mutant: the live list, not the copy.                                     *)
WalkedLive(d) == listeners
Walked(d) == d.list
(* One turn of the loop: the listener at hand is called if it matches.      *)
Step ==
    /\ stack # <<>> /\ ~running /\ Innermost.at <= Len(Walked(Innermost))
    /\ LET d == Innermost
           l == Walked(d)[d.at]
       IN  IF Matching(l, d.event)
           THEN /\ running' = TRUE
                /\ stack' = [stack EXCEPT ![Len(stack)] = [d EXCEPT !.at = @ + 1, !.called = @ \cup {l.id}]]
           ELSE running' = FALSE /\ stack' = [stack EXCEPT ![Len(stack)].at = @ + 1]
    /\ UNCHANGED <<listeners, queue, budget, nextId, nextEvent, delivered>>
Return ==
    /\ running /\ running' = FALSE
    /\ UNCHANGED <<listeners, queue, stack, budget, nextId, nextEvent, delivered>>
(* An inner delivery ends in the middle of the handler that began it.       *)
Finished == stack # <<>> /\ ~running /\ Innermost.at > Len(Walked(Innermost))
EndDelivery ==
    /\ Finished
    /\ stack' = Front(stack) /\ running' = (Len(stack) > 1)
    /\ UNCHANGED <<listeners, queue, budget, nextId, nextEvent, delivered>>
Clear ==
    /\ stack = <<>> /\ budget = 0
    /\ listeners' = <<>> /\ queue' = <<>>
    /\ UNCHANGED <<stack, running, budget, nextId, nextEvent, delivered>>

Next ==
    \/ \E s \in Sources \cup {ANY}, v \in Values \cup {ANY} :
         Listen(s, v) \/ \E only \in {ANY} \cup Ids(listeners) : Ignore(s, v, only)
    \/ \E s \in Sources, v \in Values : Send(s, v) \/ SendImmediate(s, v)
    \/ \E limit \in 1..2 : Drain(limit)
    \/ DrainNext \/ Step \/ Return \/ EndDelivery \/ Clear
Spec == Init /\ [][Next]_vars

-----------------------------------------------------------------------------
TypeOK ==
    /\ Len(stack) <= MaxDepth /\ (running => stack # <<>>) /\ budget \in 0..2
    /\ Ids(listeners) \subseteq 1..MaxListeners /\ Cardinality(Ids(listeners)) = Len(listeners)

(* MessageBus.drain: queued events are delivered in the order they were     *)
(* raised, each once, whatever handlers raise in between.                   *)
InOrder ==
    \A i \in DOMAIN queue :
        queue[i].n > delivered /\ \A j \in 1..(i - 1) : queue[j].n < queue[i].n

(* MessageBus.deliver: when a delivery ends, every matching listener that   *)
(* was there when it began and still is has been called, however the        *)
(* handlers changed the list meanwhile, and none that came later.           *)
NoneSkipped ==
    Finished =>
        LET d == Innermost IN
        /\ d.called \subseteq d.before
        /\ \A i \in DOMAIN listeners :
              listeners[i].id \in d.before /\ Matching(listeners[i], d.event) => listeners[i].id \in d.called
=============================================================================
