---- MODULE BoundedFifo ----
(***************************************************************************)
(* What an Iron channel promises the tasks that share it, with no ring,    *)
(* no lock and no reference count: a FIFO of at most Bound items that can  *)
(* be shut, and that is discarded once, with whatever it still holds.      *)
(***************************************************************************)
EXTENDS Naturals, Sequences

CONSTANTS Item, Bound

VARIABLES
    queue,      \* items accepted and not yet taken
    taken,      \* items taken, oldest first
    shut,       \* no further item is accepted
    discarded   \* the items dropped with the channel, once it is gone

fifoVars == <<queue, taken, shut, discarded>>

Alive == discarded = {}

Init ==
    /\ queue = <<>>
    /\ taken = <<>>
    /\ shut = FALSE
    /\ discarded = {}

Put(x) ==
    /\ Alive /\ ~shut
    /\ Len(queue) < Bound
    /\ queue' = Append(queue, x)
    /\ UNCHANGED <<taken, shut, discarded>>

Take ==
    /\ Alive /\ queue # <<>>
    /\ taken' = Append(taken, Head(queue))
    /\ queue' = Tail(queue)
    /\ UNCHANGED <<shut, discarded>>

Shut ==
    /\ Alive
    /\ shut' = TRUE
    /\ UNCHANGED <<queue, taken, discarded>>

\* discarded holds the dropped sequence itself, as the one member of a set.
Discard ==
    /\ Alive
    /\ discarded' = {queue}
    /\ queue' = <<>>
    /\ UNCHANGED <<taken, shut>>

Next == (\E x \in Item : Put(x)) \/ Take \/ Shut \/ Discard

Spec == Init /\ [][Next]_fifoVars
====
