---- MODULE WorkQueue ----
(***************************************************************************)
(* The circular work queue of Iron_Pool (src/src/runtime/iron_threads.c):  *)
(* a ring that doubles when it is full, dequeued at the head by workers    *)
(* and at any position by Iron_pool_group_wait.  Every operation holds     *)
(* pool->lock, so each is one action.                                      *)
(***************************************************************************)
EXTENDS Integers, Sequences

CONSTANTS
    Item,       \* the work items
    InitCap,    \* queue_capacity of a new pool (256 in the code)
    MaxQueued,  \* bound on the queue's length
    Garbage     \* the content of a slot that was never written

ASSUME QueueAssumption ==
    InitCap \in Nat \ {0} /\ MaxQueued \in Nat /\ Garbage \notin Item

VARIABLES queue, queue_head, queue_tail, queue_count, queue_capacity,
          item      \* the item last dequeued

vars == <<queue, queue_head, queue_tail, queue_count, queue_capacity, item>>

SlotNoWrap(i, capacity) == i
Slot(i, capacity) == i % capacity

Init ==
    /\ queue_capacity = InitCap
    /\ queue = [i \in 0 .. InitCap - 1 |-> Garbage]
    /\ queue_head = 0 /\ queue_tail = 0 /\ queue_count = 0
    /\ item = Garbage

\* The i-th queued item, 0 the oldest.
At(i) == queue[Slot(queue_head + i, queue_capacity)]

\* pool_queue_grow: the queued items, moved to the front of a ring twice as
\* large.
Grown == [i \in 0 .. 2 * queue_capacity - 1 |->
             IF i < queue_count THEN At(i) ELSE Garbage]

Enqueue(ring, head, tail, capacity, x) ==
    /\ queue' = [ring EXCEPT ![tail] = x]
    /\ queue_head' = head
    /\ queue_tail' = Slot(tail + 1, capacity)
    /\ queue_capacity' = capacity
    /\ queue_count' = queue_count + 1
    /\ UNCHANGED item

Submit(x) ==
    /\ queue_count < MaxQueued
    /\ queue_count # queue_capacity
    /\ Enqueue(queue, queue_head, queue_tail, queue_capacity, x)

SubmitGrowsKeepingIndices(x) ==
    /\ queue_count < MaxQueued
    /\ queue_count = queue_capacity
    /\ Enqueue(Grown, queue_head, queue_count, 2 * queue_capacity, x)

SubmitGrows(x) ==
    /\ queue_count < MaxQueued
    /\ queue_count = queue_capacity
    /\ Enqueue(Grown, 0, queue_count, 2 * queue_capacity, x)

\* pool_worker and pool_worker_elastic.
Dequeue ==
    /\ queue_count # 0
    /\ item' = queue[queue_head]
    /\ queue_head' = Slot(queue_head + 1, queue_capacity)
    /\ queue_count' = queue_count - 1
    /\ UNCHANGED <<queue, queue_tail, queue_capacity>>

\* How far slot i is behind the head.
Offset(i) == Slot(i + queue_capacity - queue_head, queue_capacity)

\* Iron_pool_group_wait takes the k-th item and moves the later ones up.
GroupTake(k) ==
    /\ item' = At(k)
    /\ queue' = [i \in 0 .. queue_capacity - 1 |->
                    IF Offset(i) \in k .. queue_count - 2
                      THEN queue[Slot(i + 1, queue_capacity)] ELSE queue[i]]
    /\ queue_tail' = Slot(queue_tail + queue_capacity - 1, queue_capacity)
    /\ queue_count' = queue_count - 1
    /\ UNCHANGED <<queue_head, queue_capacity>>

Next ==
    \/ \E x \in Item : Submit(x) \/ SubmitGrows(x)
    \/ Dequeue
    \/ \E k \in 0 .. queue_count - 1 : GroupTake(k)

Spec == Init /\ [][Next]_vars

----------------------------------------------------------------------------

\* Types; the indices stay inside the ring as it grows.
TypeOK ==
    /\ queue_capacity \in Nat \ {0}
    /\ queue \in [0 .. queue_capacity - 1 -> Item \cup {Garbage}]
    /\ queue_head \in 0 .. queue_capacity - 1
    /\ queue_tail \in 0 .. queue_capacity - 1
    /\ queue_count \in 0 .. queue_capacity
    /\ item \in Item \cup {Garbage}

Contents == [i \in 1 .. queue_count |-> At(i - 1)]

List == INSTANCE ItemList WITH list <- Contents, out <- item

\* The ring implements a list: growth keeps every item in order whatever
\* the head was, and removal from the middle takes that one item only, with
\* the indices inside the allocation throughout.
ImplementsList == []TypeOK /\ List!Spec
====
