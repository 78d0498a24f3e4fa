---- MODULE IronChannel ----
(***************************************************************************)
(* Iron_Channel of the runtime (src/src/runtime/iron_threads.c): a bounded *)
(* ring of boxes under one mutex and two condition variables, shared by    *)
(* reference count between the owner's scope and the tasks it spawns.      *)
(*                                                                         *)
(* A critical section under ch->lock is one action.  A condition variable  *)
(* is the set of the threads parked on it: waiting adds the thread,        *)
(* signalling removes one, broadcasting empties it, and a thread may also  *)
(* leave on its own (spurious wakeup).  A thread inside a call and in no   *)
(* wait set is about to take the lock and evaluate its while condition.    *)
(* The reference count and the final free happen outside the lock.         *)
(***************************************************************************)
EXTENDS Integers, Sequences, FiniteSets

CONSTANTS
    Threads,    \* the threads of the program
    Owner,      \* the thread whose scope created the channel
    Items,      \* the boxes: each send allocates a fresh one
    Capacity,   \* the ring's size after Iron_channel_create's clamp
    Closers,    \* threads that call Iron_channel_close (none in Iron code)
    NoItem

ASSUME ChannelAssumption ==
    /\ IsFiniteSet(Threads) /\ Owner \in Threads
    /\ Capacity \in Nat \ {0}
    /\ Closers \subseteq Threads
    /\ NoItem \notin Items

VARIABLES
    ring, head, tail, count, closed, refs,      \* struct Iron_Channel
    not_full, not_empty,                        \* wait sets
    pc,         \* where each thread is
    arg,        \* the box a thread in send wants to enqueue
    boxed,      \* boxes allocated so far
    sent, got,  \* boxes enqueued and dequeued, in the order of the lock
    reclaimed   \* {} until freed, then {the boxes dropped with the channel}

vars == <<ring, head, tail, count, closed, refs, not_full, not_empty,
          pc, arg, boxed, sent, got, reclaimed>>

chan == <<ring, head, tail, count>>
hist == <<boxed, sent, got>>

Index == 0 .. Capacity - 1
SlotNoWrap(i) == i
Slot(i) == i % Capacity

\* The queued boxes, oldest first: what destroy drains, what recv will see.
Queue == [i \in 1 .. count |-> ring[Slot(head + i - 1)]]

\* Iron_channel_create, called in the owner's scope.
Init ==
    /\ ring = [i \in Index |-> NoItem]
    /\ head = 0 /\ tail = 0 /\ count = 0
    /\ closed = FALSE
    /\ refs = 1
    /\ not_full = {} /\ not_empty = {}
    /\ pc = [t \in Threads |-> IF t = Owner THEN "idle" ELSE "unborn"]
    /\ arg = [t \in Threads |-> NoItem]
    /\ boxed = {} /\ sent = <<>> /\ got = <<>>
    /\ reclaimed = {}

\* IRON_COND_SIGNAL on a wait set: one waiter leaves it, if there is one.
Signal(waiters) == IF waiters = {} THEN {{}} ELSE {waiters \ {u} : u \in waiters}

Goto(t, label) == pc' = [pc EXCEPT ![t] = label]

RetainSkipped == UNCHANGED refs
Retain == refs' = refs + 1

\* t spawns u with the channel captured: the task's env takes its own share.
Spawn(t, u) ==
    /\ pc[t] = "idle" /\ pc[u] = "unborn"
    /\ Retain
    /\ Goto(u, "idle")
    /\ UNCHANGED <<chan, closed, not_full, not_empty, arg, hist, reclaimed>>

\* The generated glue boxes the value and enters Iron_channel_send.
SendCall(t, x) ==
    /\ pc[t] = "idle"
    /\ x \in Items \ boxed
    /\ boxed' = boxed \cup {x}
    /\ arg' = [arg EXCEPT ![t] = x]
    /\ Goto(t, "send")
    /\ UNCHANGED <<chan, closed, refs, not_full, not_empty, sent, got, reclaimed>>

Sending(t) == pc[t] = "send" /\ t \notin not_full

SendWait(t) ==
    /\ Sending(t)
    /\ count = Capacity /\ ~closed
    /\ not_full' = not_full \cup {t}
    /\ UNCHANGED <<chan, closed, refs, not_empty, pc, arg, hist, reclaimed>>

SendRefused(t) ==
    /\ Sending(t)
    /\ closed
    /\ arg' = [arg EXCEPT ![t] = NoItem]
    /\ Goto(t, "idle")
    /\ UNCHANGED <<chan, closed, refs, not_full, not_empty, hist, reclaimed>>

Enqueue(t) ==
    /\ Sending(t)
    /\ count # Capacity
    /\ ring' = [ring EXCEPT ![tail] = arg[t]]
    /\ tail' = Slot(tail + 1)
    /\ count' = count + 1
    /\ sent' = Append(sent, arg[t])
    /\ arg' = [arg EXCEPT ![t] = NoItem]
    /\ Goto(t, "idle")
    /\ UNCHANGED <<head, closed, refs, not_full, boxed, got, reclaimed>>

SendEnqueueIgnoresClosed(t) == Enqueue(t) /\ not_empty' \in Signal(not_empty)
SendEnqueueSignalsIfEmpty(t) ==
    /\ Enqueue(t) /\ ~closed
    /\ not_empty' \in IF count = 0 THEN Signal(not_empty) ELSE {not_empty}
SendEnqueue(t) == Enqueue(t) /\ ~closed /\ not_empty' \in Signal(not_empty)

RecvCall(t) ==
    /\ pc[t] = "idle"
    /\ Goto(t, "recv")
    /\ UNCHANGED <<chan, closed, refs, not_full, not_empty, arg, hist, reclaimed>>

Receiving(t) == pc[t] = "recv" /\ t \notin not_empty

RecvWait(t) ==
    /\ Receiving(t)
    /\ count = 0 /\ ~closed
    /\ not_empty' = not_empty \cup {t}
    /\ UNCHANGED <<chan, closed, refs, not_full, pc, arg, hist, reclaimed>>

RecvClosed(t) ==
    /\ Receiving(t)
    /\ count = 0 /\ closed
    /\ Goto(t, "idle")
    /\ UNCHANGED <<chan, closed, refs, not_full, not_empty, arg, hist, reclaimed>>

TakeHead ==
    /\ count # 0
    /\ got' = Append(got, ring[head])
    /\ head' = Slot(head + 1)
    /\ count' = count - 1
    /\ UNCHANGED <<ring, tail, closed, refs, not_empty, arg, boxed, sent, reclaimed>>

\* The dequeue shared by recv and try_recv.
Dequeue == TakeHead /\ not_full' \in Signal(not_full)

RecvDequeue(t) == Receiving(t) /\ Dequeue /\ Goto(t, "idle")

\* try_recv on an empty ring returns false and changes nothing.
TryRecv(t) == pc[t] = "idle" /\ Dequeue /\ UNCHANGED pc

CloseSignals(t) ==
    /\ t \in Closers /\ pc[t] = "idle"
    /\ closed' = TRUE
    /\ not_full' \in Signal(not_full) /\ not_empty' \in Signal(not_empty)
    /\ UNCHANGED <<chan, refs, pc, arg, hist, reclaimed>>

Close(t) ==
    /\ t \in Closers /\ pc[t] = "idle"
    /\ closed' = TRUE
    /\ not_full' = {} /\ not_empty' = {}
    /\ UNCHANGED <<chan, refs, pc, arg, hist, reclaimed>>

\* Iron_channel_destroy_with, first half: iron_shared_release's decrement
\* decides who frees.
Release(t) ==
    /\ pc[t] = "idle"
    /\ refs' = refs - 1
    /\ Goto(t, IF refs = 1 THEN "reclaim" ELSE "gone")
    /\ UNCHANGED <<chan, closed, not_full, not_empty, arg, hist, reclaimed>>

ReclaimFromZero(t) ==
    /\ pc[t] = "reclaim"
    /\ reclaimed' = {[i \in 1 .. count |-> ring[i - 1]]}
    /\ Goto(t, "gone")
    /\ UNCHANGED <<chan, closed, refs, not_full, not_empty, arg, hist>>

\* Second half, without the lock: drop what is queued, free the ring.
Reclaim(t) ==
    /\ pc[t] = "reclaim"
    /\ reclaimed' = {Queue}
    /\ Goto(t, "gone")
    /\ UNCHANGED <<chan, closed, refs, not_full, not_empty, arg, hist>>

SpuriousWake(t) ==
    /\ t \in not_full \cup not_empty
    /\ not_full' = not_full \ {t}
    /\ not_empty' = not_empty \ {t}
    /\ UNCHANGED <<chan, closed, refs, pc, arg, hist, reclaimed>>

SendStep(t) == SendWait(t) \/ SendRefused(t) \/ SendEnqueue(t)
RecvStep(t) == RecvWait(t) \/ RecvClosed(t) \/ RecvDequeue(t)

ThreadNext(t) ==
    \/ \E u \in Threads : Spawn(t, u)
    \/ \E x \in Items : SendCall(t, x)
    \/ SendStep(t)
    \/ RecvCall(t)
    \/ RecvStep(t)
    \/ TryRecv(t)
    \/ Close(t)
    \/ Release(t)
    \/ Reclaim(t)
    \/ SpuriousWake(t)

Next == \E t \in Threads : ThreadNext(t)

Spec == Init /\ [][Next]_vars

(***************************************************************************)
(* A thread inside a call keeps running: the lock is free between actions, *)
(* and a thread that asks for it gets it.  Nothing is assumed of what a    *)
(* program does between calls.                                             *)
(***************************************************************************)
Fairness == \A t \in Threads :
    WF_vars(SendStep(t)) /\ WF_vars(RecvStep(t)) /\ WF_vars(Reclaim(t))

FairSpec == Spec /\ Fairness

----------------------------------------------------------------------------

Labels == {"unborn", "idle", "send", "recv", "reclaim", "gone"}
Users == {t \in Threads : pc[t] \in {"idle", "send", "recv"}}
AwakeSenders == {t \in Threads : Sending(t)}
AwakeReceivers == {t \in Threads : Receiving(t)}

\* Types, and the ring's indices in range of its allocation.
TypeOK ==
    /\ ring \in [Index -> Items \cup {NoItem}]
    /\ head \in Index /\ tail \in Index /\ count \in 0 .. Capacity
    /\ closed \in BOOLEAN
    /\ refs \in Int
    /\ not_full \in SUBSET Threads /\ not_empty \in SUBSET Threads
    /\ pc \in [Threads -> Labels]
    /\ arg \in [Threads -> Items \cup {NoItem}]
    /\ boxed \in SUBSET Items
    /\ sent \in Seq(Items) /\ got \in Seq(Items)
    /\ reclaimed \in SUBSET Seq(Items)

\* What recv and try_recv returned, followed by what the ring holds (or
\* what destroy dropped from it), is exactly what send enqueued: no box is
\* lost, duplicated, reordered or overwritten, across wraparound and free.
Conservation ==
    /\ reclaimed = {} => sent = got \o Queue
    /\ \A q \in reclaimed : sent = got \o q

\* A thread parked on a condition variable is never forgotten: while one
\* waits for an item there are at least as many receivers on their way to
\* the lock as queued items (signal wakes one waiter per item, and items
\* taken by a barging recv or try_recv are gone), likewise for senders and
\* free slots, and nobody waits on a closed channel.
NoLostWakeup ==
    /\ not_empty # {} => ~closed /\ count =< Cardinality(AwakeReceivers)
    /\ not_full # {} => ~closed /\ Capacity - count =< Cardinality(AwakeSenders)

\* destroy drains and frees without the lock, so it must be alone and happen
\* once: when a thread has dropped the last reference, no other thread holds
\* one, is inside a call, is parked on the channel or is about to free it.
ReclaimAlone ==
    /\ \A t \in Threads : pc[t] = "reclaim" =>
           /\ reclaimed = {}
           /\ \A u \in Threads \ {t} : pc[u] \in {"unborn", "gone"}
    /\ reclaimed # {} => Users = {} /\ not_full = {} /\ not_empty = {}

\* The channel implements the abstract bounded FIFO.
Fifo == INSTANCE BoundedFifo WITH
    Item <- Items, Bound <- Capacity,
    queue <- IF reclaimed = {} THEN Queue ELSE <<>>,
    taken <- got, shut <- closed, discarded <- reclaimed

ImplementsFifo == Fifo!Spec

\* A thread blocked in recv while an item is queued gets to run: it returns
\* or somebody else takes the last item.
ReceiverServed == \A t \in Threads :
    (pc[t] = "recv" /\ count > 0) ~> (pc[t] # "recv" \/ count = 0)

\* The same for a thread in send while there is room.
SenderServed == \A t \in Threads :
    (pc[t] = "send" /\ count < Capacity) ~> (pc[t] # "send" \/ count = Capacity)

\* Iron_channel_close lets every blocked call return.
CloseReleases == \A t \in Threads :
    (closed /\ pc[t] \in {"send", "recv"}) ~> pc[t] = "idle"

\* A blocked call goes on when it can.
BlockedServed == ReceiverServed /\ SenderServed /\ CloseReleases
====
