------------------------------ MODULE LossyQueue ------------------------------
(***************************************************************************)
(* What a receiving callsite is promised of the packets of its type:       *)
(* first in, first out, each at most once; a full queue loses its oldest   *)
(* entries and nothing else; and nothing that came before it was opened    *)
(* (core/radio.ts nextAfter, wendoo/actions/radio-receive.ts).             *)
(***************************************************************************)
EXTENDS Naturals, Sequences

CONSTANTS Depth,
          Batch     \* the reader takes everything at once, not the next entry
VARIABLES queue,    \* the arrival numbers of the entries it still holds
          open,
          passed    \* the arrival number it has read up to
lossyVars == <<queue, open, passed>>

Oldest(q, k) == SubSeq(q, k + 1, Len(q))

LossyInit == queue = <<>> /\ ~open /\ passed = 0

Open == /\ ~open /\ open' = TRUE
        /\ queue' = <<>>
        /\ passed' \in Nat
Close == /\ open' = FALSE /\ queue' = <<>> /\ passed' = 0
(* One entry arrives, later than every other; room is made from the head.   *)
Arrive == /\ open /\ UNCHANGED <<open, passed>> /\ queue' # <<>>
          /\ LET n == queue'[Len(queue')] IN
               /\ n \in Nat /\ n > passed /\ \A i \in DOMAIN queue : n > queue[i]
               /\ Len(queue') <= Depth
               /\ \E k \in 0..Len(queue) : queue' = Append(Oldest(queue, k), n)
(* Entries of another type push the oldest out as well.                     *)
Lose == /\ open /\ UNCHANGED <<open, passed>>
        /\ \E k \in DOMAIN queue : queue' = Oldest(queue, k)
Take == /\ open /\ queue # <<>> /\ UNCHANGED open
        /\ LET k == IF Batch THEN Len(queue) ELSE 1
           IN  passed' = queue[k] /\ queue' = Oldest(queue, k)

LossyNext == Open \/ Close \/ Arrive \/ Lose \/ Take
LossySpec == LossyInit /\ [][LossyNext]_lossyVars
=============================================================================
