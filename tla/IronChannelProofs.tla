---- MODULE IronChannelProofs ----
(***************************************************************************)
(* Proofs, for any threads, boxes and capacity, of the safety properties   *)
(* of IronChannel: exclusive reclamation, FIFO conservation, no lost       *)
(* wakeup, and the refinement of BoundedFifo.                              *)
(***************************************************************************)
EXTENDS IronChannel, FiniteSetTheorems, SequenceTheorems, TLAPS

\* tail is where the next box goes, and every queued slot holds a box.
RingOK ==
    /\ tail = Slot(head + count)
    /\ \A i \in 1 .. count : ring[Slot(head + i - 1)] \in Items

\* A thread in send carries a box; a parked thread is inside its call.
CallsOK ==
    /\ \A t \in Threads : pc[t] = "send" => arg[t] \in Items
    /\ \A t \in not_full : pc[t] = "send"
    /\ \A t \in not_empty : pc[t] = "recv"

\* The reference count is the number of threads that may still use the
\* channel: each took its share when it was spawned.
RefsOK == refs = Cardinality(Users)

IInv == TypeOK /\ RingOK /\ CallsOK /\ RefsOK /\ ReclaimAlone

\* Ring arithmetic: the modulus wraps an index at most once.
LEMMA Wrap ==
    ASSUME NEW x \in 0 .. 2 * Capacity - 1
    PROVE  Slot(x) = IF x < Capacity THEN x ELSE x - Capacity
<1>1. ASSUME x < Capacity PROVE x % Capacity = x
  BY <1>1, ChannelAssumption
<1>2. ASSUME ~(x < Capacity) PROVE x % Capacity = x - Capacity
  BY <1>2, ChannelAssumption
<1> QED BY <1>1, <1>2 DEF Slot

\* The threads that share the channel are finitely many, so they can be counted.
LEMMA UsersFinite == IsFiniteSet(Users) /\ Cardinality(Users) \in Nat
BY ChannelAssumption, FS_Subset, FS_CardinalityType DEF Users

\* A channel just created by Iron_channel_create satisfies the invariant.
LEMMA InitIInv == Init => IInv
<1> SUFFICES ASSUME Init PROVE IInv
  OBVIOUS
<1> USE ChannelAssumption
<1>1. TypeOK
  <2>1. ring \in [Index -> Items \cup {NoItem}] /\ head \in Index /\ tail \in Index
    BY DEF Init, Index
  <2>2. pc \in [Threads -> Labels] /\ arg \in [Threads -> Items \cup {NoItem}]
    BY DEF Init, Labels
  <2> QED BY <2>1, <2>2 DEF Init, TypeOK
<1>2. RingOK
  BY Wrap DEF Init, RingOK
<1>3. CallsOK
  BY DEF Init, CallsOK
<1>4. RefsOK
  <2>1. Users = {Owner}
    BY DEF Init, Users
  <2> QED BY <2>1, FS_Singleton DEF RefsOK, Init
<1>5. ReclaimAlone
  BY DEF Init, ReclaimAlone
<1> QED BY <1>1, <1>2, <1>3, <1>4, <1>5 DEF IInv

\* Signalling never adds a waiter.
LEMMA SignalShrinks ==
    ASSUME NEW W, NEW V \in Signal(W)
    PROVE  V \subseteq W
BY DEF Signal

\* Every operation keeps the types, and the ring's indices inside its allocation.
LEMMA StepTypeOK ==
    ASSUME IInv, NEW t \in Threads, ThreadNext(t)
    PROVE  TypeOK'
<1> USE ChannelAssumption
<1> USE DEF Goto, chan, hist, Labels, Index
<1>1. ASSUME NEW u \in Threads, Spawn(t, u) PROVE TypeOK'
  BY <1>1 DEF IInv, TypeOK, Spawn, Retain
<1>2. ASSUME NEW x \in Items, SendCall(t, x) PROVE TypeOK'
  BY <1>2 DEF IInv, TypeOK, SendCall
<1>3. CASE SendWait(t)
  BY <1>3 DEF IInv, TypeOK, SendWait
<1>4. CASE SendRefused(t)
  BY <1>4 DEF IInv, TypeOK, SendRefused
<1>5. CASE SendEnqueue(t)
  <2>1. arg[t] \in Items
    BY <1>5 DEF SendEnqueue, Enqueue, Sending, IInv, CallsOK
  <2>2. tail' \in Index /\ count' \in 0 .. Capacity
    BY <1>5, Wrap DEF SendEnqueue, Enqueue, IInv, TypeOK
  <2>3. not_empty' \in SUBSET Threads
    BY <1>5, SignalShrinks DEF SendEnqueue, IInv, TypeOK
  <2>4. ring' \in [Index -> Items \cup {NoItem}] /\ sent' \in Seq(Items)
    BY <1>5, <2>1 DEF SendEnqueue, Enqueue, IInv, TypeOK
  <2>5. pc' \in [Threads -> Labels] /\ arg' \in [Threads -> Items \cup {NoItem}]
    BY <1>5 DEF SendEnqueue, Enqueue, IInv, TypeOK
  <2> QED BY <1>5, <2>1, <2>2, <2>3, <2>4, <2>5 DEF SendEnqueue, Enqueue, IInv, TypeOK
<1>6. CASE RecvCall(t)
  BY <1>6 DEF IInv, TypeOK, RecvCall
<1>7. CASE RecvWait(t)
  BY <1>7 DEF IInv, TypeOK, RecvWait
<1>8. CASE RecvClosed(t)
  BY <1>8 DEF IInv, TypeOK, RecvClosed
<1>9. ASSUME Dequeue, pc' \in [Threads -> Labels] PROVE TypeOK'
  <2>1. ring[head] \in Items
    <3>1. 1 \in 1 .. count /\ head \in 0 .. Capacity - 1
      BY <1>9 DEF Dequeue, TakeHead, IInv, TypeOK
    <3>2. Slot(head + 1 - 1) = head
      BY <3>1, Wrap
    <3> QED BY <3>1, <3>2 DEF IInv, RingOK
  <2>2. head' \in Index /\ count' \in 0 .. Capacity
    BY <1>9, Wrap DEF Dequeue, TakeHead, IInv, TypeOK
  <2>3. not_full' \in SUBSET Threads
    BY <1>9, SignalShrinks DEF Dequeue, IInv, TypeOK
  <2>4. got' \in Seq(Items)
    BY <1>9, <2>1 DEF Dequeue, TakeHead, IInv, TypeOK
  <2> QED BY <1>9, <2>2, <2>3, <2>4 DEF Dequeue, TakeHead, IInv, TypeOK
<1>10. CASE RecvDequeue(t)
  BY <1>10, <1>9 DEF RecvDequeue, IInv, TypeOK
<1>11. CASE TryRecv(t)
  BY <1>11, <1>9 DEF TryRecv, IInv, TypeOK
<1>12. CASE Close(t)
  BY <1>12 DEF IInv, TypeOK, Close
<1>13. CASE Release(t)
  BY <1>13 DEF IInv, TypeOK, Release
<1>14. CASE Reclaim(t)
  <2>1. Queue \in Seq(Items)
    BY DEF IInv, TypeOK, RingOK, Queue
  <2> QED BY <1>14, <2>1 DEF IInv, TypeOK, Reclaim
<1>15. CASE SpuriousWake(t)
  BY <1>15 DEF IInv, TypeOK, SpuriousWake
<1> QED
  BY <1>1, <1>2, <1>3, <1>4, <1>5, <1>6, <1>7, <1>8, <1>10, <1>11, <1>12,
     <1>13, <1>14, <1>15 DEF ThreadNext, SendStep, RecvStep

\* A sequence is determined by its length and elements.
LEMMA SeqIsFunction ==
    ASSUME NEW S, NEW s \in Seq(S)
    PROVE  s = [i \in 1 .. Len(s) |-> s[i]]
OBVIOUS

\* The ring after an enqueue: the new box is last and nothing else moved.
LEMMA EnqueueQueue ==
    ASSUME IInv, NEW t \in Threads, Enqueue(t)
    PROVE  /\ Queue' = Append(Queue, arg[t])
           /\ tail' = Slot(head' + count')
<1> USE ChannelAssumption
<1>1. /\ head \in 0 .. Capacity - 1 /\ tail \in 0 .. Capacity - 1
      /\ count \in 0 .. Capacity - 1
      /\ count' = count + 1 /\ head' = head
      /\ ring' = [ring EXCEPT ![tail] = arg[t]]
      /\ ring \in [0 .. Capacity - 1 -> Items \cup {NoItem}]
      /\ arg[t] \in Items
      /\ tail = Slot(head + count)
      /\ tail' = Slot(tail + 1)
  BY DEF IInv, TypeOK, RingOK, CallsOK, Enqueue, Sending, Index
<1>2. tail = IF head + count < Capacity THEN head + count ELSE head + count - Capacity
  BY <1>1, Wrap
<1>3. tail' = IF tail + 1 < Capacity THEN tail + 1 ELSE tail + 1 - Capacity
  BY <1>1, Wrap
<1>4. Slot(head' + count') =
        IF head + count + 1 < Capacity THEN head + count + 1
                                       ELSE head + count + 1 - Capacity
  BY <1>1, Wrap
<1>5. ASSUME NEW i \in 1 .. count
      PROVE  /\ Slot(head + i - 1) \in 0 .. Capacity - 1
             /\ Slot(head + i - 1) # tail
  <2>1. Slot(head + i - 1) =
          IF head + i - 1 < Capacity THEN head + i - 1 ELSE head + i - 1 - Capacity
    BY <1>1, Wrap
  <2> QED BY <1>1, <1>2, <2>1
<1>6. Queue' = [i \in 1 .. count + 1 |-> ring'[Slot(head + i - 1)]]
  BY <1>1 DEF Queue
<1>7. \A i \in 1 .. count : ring'[Slot(head + i - 1)] = ring[Slot(head + i - 1)]
  BY <1>1, <1>5
<1>8. ring'[Slot(head + (count + 1) - 1)] = arg[t]
  <2>1. head + (count + 1) - 1 = head + count
    BY <1>1
  <2> QED BY <1>1, <2>1
<1>9. Queue \in Seq(Items) /\ Len(Queue) = count
  BY <1>1 DEF Queue, IInv, RingOK
<1>10. Append(Queue, arg[t]) =
         [i \in 1 .. count + 1 |-> IF i \in 1 .. count THEN Queue[i] ELSE arg[t]]
  BY <1>1, <1>9
<1>11. Queue' = Append(Queue, arg[t])
  <2>1. \A i \in 1 .. count : Queue[i] = ring[Slot(head + i - 1)]
    BY DEF Queue
  <2>2. \A i \in 1 .. count + 1 : i \notin 1 .. count => i = count + 1
    BY <1>1
  <2>3. \A i \in 1 .. count + 1 : ring'[Slot(head + i - 1)] =
            IF i \in 1 .. count THEN Queue[i] ELSE arg[t]
    BY <2>1, <2>2, <1>7, <1>8
  <2> QED BY <1>6, <1>10, <2>3
<1> QED BY <1>1, <1>2, <1>3, <1>4, <1>11

\* The ring after a dequeue: the oldest box is gone and nothing else moved.
LEMMA DequeueQueue ==
    ASSUME IInv, TakeHead
    PROVE  /\ Queue' = Tail(Queue) /\ Queue # <<>> /\ Head(Queue) = ring[head]
           /\ tail' = Slot(head' + count')
<1> USE ChannelAssumption
<1>1. /\ head \in 0 .. Capacity - 1 /\ count \in 1 .. Capacity
      /\ count' = count - 1 /\ head' = Slot(head + 1)
      /\ ring' = ring /\ tail' = tail
      /\ tail = Slot(head + count)
  BY DEF IInv, TypeOK, RingOK, TakeHead, Index
<1>2. head' = IF head + 1 < Capacity THEN head + 1 ELSE 0
  BY <1>1, Wrap
<1>3. ASSUME NEW i \in 0 .. count - 1
      PROVE Slot(head' + i) = Slot(head + 1 + i)
  <2>1. Slot(head + 1 + i) =
          IF head + 1 + i < Capacity THEN head + 1 + i ELSE head + 1 + i - Capacity
    BY <1>1, Wrap
  <2>2. Slot(head' + i) =
          IF head' + i < Capacity THEN head' + i ELSE head' + i - Capacity
    BY <1>1, <1>2, Wrap
  <2> QED BY <1>1, <1>2, <2>1, <2>2
<1>4. tail' = Slot(head' + count')
  <2>1. head + 1 + (count - 1) = head + count /\ count - 1 \in 0 .. count - 1
    BY <1>1
  <2>2. Slot(head' + (count - 1)) = Slot(head + 1 + (count - 1))
    BY <2>1, <1>3
  <2> QED BY <1>1, <2>1, <2>2
<1>5. Queue \in Seq(Items) /\ Len(Queue) = count /\ Queue # <<>>
  BY <1>1 DEF Queue, IInv, RingOK
<1>6. Head(Queue) = ring[head]
  <2>1. Slot(head + 1 - 1) = head
    BY <1>1, Wrap
  <2> QED BY <1>1, <1>5, <2>1 DEF Queue
<1>7. Tail(Queue) = [i \in 1 .. count - 1 |-> ring[Slot(head + (i + 1) - 1)]]
  <2>1. Tail(Queue) = [i \in 1 .. count - 1 |-> Queue[i + 1]]
    <3>1. /\ Tail(Queue) \in Seq(Items) /\ Len(Tail(Queue)) = count - 1
          /\ \A i \in 1 .. count - 1 : Tail(Queue)[i] = Queue[i + 1]
      BY <1>5, HeadTailProperties
    <3>2. Tail(Queue) = [i \in 1 .. Len(Tail(Queue)) |-> Tail(Queue)[i]]
      BY <3>1, SeqIsFunction
    <3> QED BY <3>1, <3>2
  <2>2. \A i \in 1 .. count - 1 : i + 1 \in 1 .. count
    BY <1>1
  <2>3. \A i \in 1 .. count : Queue[i] = ring[Slot(head + i - 1)]
    BY DEF Queue
  <2>4. \A i \in 1 .. count - 1 : Queue[i + 1] = ring[Slot(head + (i + 1) - 1)]
    BY <2>2, <2>3
  <2> QED BY <2>1, <2>4
<1>8. \A i \in 1 .. count - 1 :
         Slot(head' + i - 1) = Slot(head + (i + 1) - 1)
  <2> TAKE i \in 1 .. count - 1
  <2>1. /\ i - 1 \in 0 .. count - 1 /\ head' + (i - 1) = head' + i - 1
        /\ head + 1 + (i - 1) = head + (i + 1) - 1
    BY <1>1, <1>2
  <2>2. Slot(head' + (i - 1)) = Slot(head + 1 + (i - 1))
    BY <2>1, <1>3
  <2> QED BY <2>1, <2>2
<1>9. Queue' = [i \in 1 .. count - 1 |-> ring[Slot(head' + i - 1)]]
  BY <1>1 DEF Queue
<1>10. Queue' = Tail(Queue)
  BY <1>7, <1>8, <1>9
<1> QED BY <1>4, <1>5, <1>6, <1>10

\* send, recv and try_recv keep tail in step with head and count.
LEMMA StepRingOK ==
    ASSUME IInv, NEW t \in Threads, ThreadNext(t)
    PROVE  RingOK'
<1> USE ChannelAssumption
<1>1. CASE UNCHANGED chan
  BY <1>1 DEF IInv, RingOK, chan, Slot
<1>2. CASE Enqueue(t)
  <2>1. \A i \in 1 .. count + 1 : Queue'[i] \in Items
    <3>1. arg[t] \in Items /\ Queue \in Seq(Items) /\ Len(Queue) = count
      BY <1>2 DEF Enqueue, Sending, IInv, CallsOK, RingOK, Queue, TypeOK
    <3> QED BY <1>2, <3>1, EnqueueQueue, AppendProperties
  <2>2. count' = count + 1
    BY <1>2 DEF Enqueue
  <2> QED BY <1>2, <2>1, <2>2, EnqueueQueue DEF RingOK, Queue
<1>3. CASE TakeHead
  <2>1. Queue \in Seq(Items) /\ Len(Queue) = count /\ Queue # <<>>
    <3>1. Queue \in Seq(Items) /\ Len(Queue) = count
      BY DEF IInv, TypeOK, RingOK, Queue
    <3> QED BY <1>3, <3>1, DequeueQueue
  <2>2. \A i \in 1 .. count' : Queue'[i] \in Items
    BY <1>3, <2>1, DequeueQueue, HeadTailProperties, SMTT(30) DEF TakeHead
  <2> QED BY <1>3, <2>2, DequeueQueue DEF RingOK, Queue
<1> QED
  BY <1>1, <1>2, <1>3 DEF ThreadNext, SendStep, RecvStep, Spawn, SendCall,
     SendWait, SendRefused, SendEnqueue, RecvCall, RecvWait, RecvClosed,
     RecvDequeue, TryRecv, Dequeue, Close, Release, Reclaim, SpuriousWake, chan

\* A thread that leaves a call leaves its wait set, and gives up its box.
LEMMA StepCallsOK ==
    ASSUME IInv, NEW t \in Threads, ThreadNext(t)
    PROVE  CallsOK'
<1> USE DEF Goto, IInv, TypeOK, CallsOK
<1>1. ASSUME NEW u \in Threads, Spawn(t, u) PROVE CallsOK'
  BY <1>1 DEF Spawn
<1>2. ASSUME NEW x \in Items, SendCall(t, x) PROVE CallsOK'
  BY <1>2 DEF SendCall
<1>3. CASE SendWait(t)
  BY <1>3 DEF SendWait, Sending
<1>4. CASE SendRefused(t)
  BY <1>4 DEF SendRefused, Sending
<1>5. CASE SendEnqueue(t)
  BY <1>5, SignalShrinks DEF SendEnqueue, Enqueue, Sending
<1>6. CASE RecvCall(t)
  BY <1>6 DEF RecvCall
<1>7. CASE RecvWait(t)
  BY <1>7 DEF RecvWait, Receiving
<1>8. CASE RecvClosed(t)
  BY <1>8 DEF RecvClosed, Receiving
<1>9. CASE RecvDequeue(t)
  BY <1>9, SignalShrinks DEF RecvDequeue, Receiving, Dequeue, TakeHead
<1>10. CASE TryRecv(t)
  BY <1>10, SignalShrinks DEF TryRecv, Dequeue, TakeHead
<1>11. CASE Close(t)
  BY <1>11 DEF Close
<1>12. CASE Release(t)
  BY <1>12 DEF Release
<1>13. CASE Reclaim(t)
  BY <1>13 DEF Reclaim
<1>14. CASE SpuriousWake(t)
  BY <1>14 DEF SpuriousWake
<1> QED
  BY <1>1, <1>2, <1>3, <1>4, <1>5, <1>6, <1>7, <1>8, <1>9, <1>10, <1>11,
     <1>12, <1>13, <1>14 DEF ThreadNext, SendStep, RecvStep

\* The reference count follows the set of users: Spawn and Release are the
\* only actions that change either.
LEMMA StepRefsOK ==
    ASSUME IInv, NEW t \in Threads, ThreadNext(t)
    PROVE  RefsOK'
<1> USE UsersFinite DEF IInv, TypeOK, RefsOK, Goto
<1>1. ASSUME NEW u \in Threads, Spawn(t, u) PROVE RefsOK'
  <2>1. Users' = Users \cup {u} /\ u \notin Users
    BY <1>1 DEF Spawn, Users
  <2> QED BY <1>1, <2>1, FS_AddElement DEF Spawn, Retain
<1>2. CASE Release(t)
  <2>1. Users' = Users \ {t} /\ t \in Users
    BY <1>2 DEF Release, Users
  <2> QED BY <1>2, <2>1, FS_RemoveElement DEF Release
<1>3. ASSUME refs' = refs, Users' = Users PROVE RefsOK'
  BY <1>3
<1>4. ASSUME NEW x \in Items, SendCall(t, x) PROVE RefsOK'
  BY <1>3, <1>4 DEF SendCall, Users
<1>5. CASE SendStep(t)
  BY <1>3, <1>5 DEF SendStep, SendWait, SendRefused, SendEnqueue, Enqueue, Sending, Users
<1>6. CASE RecvCall(t)
  BY <1>3, <1>6 DEF RecvCall, Users
<1>7. CASE RecvStep(t)
  BY <1>3, <1>7 DEF RecvStep, RecvWait, RecvClosed, RecvDequeue, Receiving,
                    Dequeue, TakeHead, Users
<1>8. CASE TryRecv(t) \/ Close(t) \/ SpuriousWake(t)
  BY <1>3, <1>8 DEF TryRecv, Dequeue, TakeHead, Close, SpuriousWake, Users
<1>9. CASE Reclaim(t)
  BY <1>3, <1>9 DEF Reclaim, Users
<1> QED BY <1>1, <1>2, <1>4, <1>5, <1>6, <1>7, <1>8, <1>9 DEF ThreadNext

\* Whoever sees the count go from 1 to 0 was the last user.
LEMMA StepReclaimAlone ==
    ASSUME IInv, NEW t \in Threads, ThreadNext(t)
    PROVE  ReclaimAlone'
<1> USE DEF IInv, TypeOK, CallsOK, Goto, ReclaimAlone, Users
<1>1. ASSUME NEW u \in Threads, Spawn(t, u) PROVE ReclaimAlone'
  BY <1>1 DEF Spawn
<1>2. CASE Release(t)
  <2>1. CASE refs = 1
    <3>1. Users = {t}
      <4>1. PICK x : Users = {x}
        BY <2>1, UsersFinite, FS_Singleton DEF RefsOK
      <4> QED BY <4>1, <1>2 DEF Release
    <3>2. \A u \in Threads \ {t} : pc[u] \in {"unborn", "gone"}
      BY <3>1, <1>2 DEF Release, Labels
    <3> QED BY <1>2, <2>1, <3>1, <3>2 DEF Release
  <2>2. CASE refs # 1
    BY <1>2, <2>2 DEF Release
  <2> QED BY <2>1, <2>2
<1>3. ASSUME NEW x \in Items, SendCall(t, x) PROVE ReclaimAlone'
  BY <1>3 DEF SendCall
<1>4. CASE SendWait(t) \/ SendRefused(t)
  BY <1>4 DEF SendWait, SendRefused, Sending
<1>5. CASE SendEnqueue(t)
  BY <1>5 DEF SendEnqueue, Enqueue, Sending
<1>6. CASE RecvCall(t)
  BY <1>6 DEF RecvCall
<1>7. CASE RecvWait(t) \/ RecvClosed(t)
  BY <1>7 DEF RecvWait, RecvClosed, Receiving
<1>8. CASE RecvDequeue(t)
  BY <1>8 DEF RecvDequeue, Receiving, Dequeue, TakeHead
<1>9. CASE TryRecv(t) \/ Close(t)
  BY <1>9 DEF TryRecv, Dequeue, TakeHead, Close
<1>10. CASE SpuriousWake(t)
  BY <1>10 DEF SpuriousWake
<1>11. CASE Reclaim(t)
  BY <1>11 DEF Reclaim
<1> QED
  BY <1>1, <1>2, <1>3, <1>4, <1>5, <1>6, <1>7, <1>8, <1>9, <1>10, <1>11
     DEF ThreadNext, SendStep, RecvStep

\* The inductive invariant holds in every reachable state of the channel.
THEOREM Inductive == Spec => []IInv
<1>1. IInv /\ [Next]_vars => IInv'
  <2> SUFFICES ASSUME IInv, [Next]_vars PROVE IInv'
    OBVIOUS
  <2>1. ASSUME NEW t \in Threads, ThreadNext(t) PROVE IInv'
    BY <2>1, StepTypeOK, StepRingOK, StepCallsOK, StepRefsOK, StepReclaimAlone DEF IInv
  <2>2. CASE UNCHANGED vars
    BY <2>2 DEF vars, IInv, TypeOK, RingOK, CallsOK, RefsOK, ReclaimAlone, Users
  <2> QED BY <2>1, <2>2 DEF Next
<1> QED BY <1>1, InitIInv, PTL DEF Spec

\* Every ring index stays inside the allocation, whatever the capacity.
THEOREM TypeCorrect == Spec => []TypeOK
BY Inductive, PTL DEF IInv

\* The thread that drains and frees the channel is alone with it: no task
\* that shares it can be inside a call, and nobody else frees it.
THEOREM ReclaimExclusive == Spec => []ReclaimAlone
BY Inductive, PTL DEF IInv

\* What is queued is a sequence of boxes, as long as count says.
LEMMA QueueIsSeq == ASSUME IInv PROVE Queue \in Seq(Items) /\ Len(Queue) = count
BY DEF IInv, TypeOK, RingOK, Queue

\* Nothing has been sent, received or dropped by a new channel.
LEMMA ConservationInit == Init => Conservation
BY DEF Init, Conservation, Queue

\* No operation of the channel loses, duplicates or reorders a box.
LEMMA ConservationStep ==
    ASSUME IInv, Conservation, NEW t \in Threads, ThreadNext(t)
    PROVE  Conservation'
<1> USE DEF Conservation
<1>1. CASE UNCHANGED <<chan, sent, got, reclaimed>>
  BY <1>1 DEF chan, Queue, Slot
<1>2. CASE Enqueue(t)
  <2>1. reclaimed = {} /\ arg[t] \in Items
    BY <1>2 DEF IInv, ReclaimAlone, Users, Enqueue, Sending, CallsOK
  <2>2. sent' = Append(got \o Queue, arg[t]) /\ got' = got /\ reclaimed' = reclaimed
    BY <1>2, <2>1 DEF Enqueue
  <2>3. Append(got \o Queue, arg[t]) = got \o Append(Queue, arg[t])
    BY <2>1, QueueIsSeq, AppendIsConcat, ConcatAssociative, ConcatProperties DEF IInv, TypeOK
  <2> QED BY <1>2, <2>1, <2>2, <2>3, EnqueueQueue
<1>3. CASE TakeHead /\ pc[t] \in {"idle", "recv"}
  <2>1. reclaimed = {}
    BY <1>3 DEF IInv, ReclaimAlone, Users
  <2>2. sent' = got \o Queue /\ got' = Append(got, ring[head]) /\ reclaimed' = reclaimed
    BY <1>3, <2>1 DEF TakeHead
  <2>3. Queue = <<Head(Queue)>> \o Tail(Queue)
    BY <1>3, DequeueQueue, QueueIsSeq
  <2>4. Append(got, Head(Queue)) \o Tail(Queue) = got \o Queue
    <3>1. /\ got \in Seq(Items) /\ Head(Queue) \in Items /\ Tail(Queue) \in Seq(Items)
          /\ <<Head(Queue)>> \in Seq(Items)
      BY <1>3, DequeueQueue, QueueIsSeq, HeadTailProperties DEF IInv, TypeOK
    <3>2. Append(got, Head(Queue)) = got \o <<Head(Queue)>>
      BY <3>1, AppendIsConcat
    <3> QED BY <2>3, <3>1, <3>2, ConcatAssociative
  <2> QED BY <1>3, <2>1, <2>2, <2>4, DequeueQueue
<1>4. CASE Reclaim(t)
  <2>1. reclaimed = {} /\ reclaimed' = {Queue} /\ sent' = sent /\ got' = got
    BY <1>4 DEF Reclaim, IInv, ReclaimAlone, hist
  <2> QED BY <2>1
<1> QED
  BY <1>1, <1>2, <1>3, <1>4 DEF ThreadNext, SendStep, RecvStep, Spawn, SendCall,
     SendWait, SendRefused, SendEnqueue, RecvCall, RecvWait, RecvClosed, Receiving,
     RecvDequeue, TryRecv, Dequeue, Close, Release, SpuriousWake, chan, hist

\* No box is lost, duplicated, reordered or overwritten: what was received,
\* followed by what is queued (or was dropped with the channel), is what was
\* sent.
THEOREM FifoConservation == Spec => []Conservation
<1>1. IInv /\ Conservation /\ [Next]_vars => Conservation'
  <2> SUFFICES ASSUME IInv, Conservation, [Next]_vars PROVE Conservation'
    OBVIOUS
  <2>1. CASE UNCHANGED vars
    BY <2>1 DEF vars, Conservation, Queue, Slot
  <2> QED BY <2>1, ConservationStep DEF Next
<1> QED BY <1>1, ConservationInit, Inductive, PTL DEF Spec

\* Threads on their way to the lock are finitely many.
LEMMA AwakeFinite ==
    /\ IsFiniteSet(AwakeReceivers) /\ Cardinality(AwakeReceivers) \in Nat
    /\ IsFiniteSet(AwakeSenders) /\ Cardinality(AwakeSenders) \in Nat
BY ChannelAssumption, FS_Subset, FS_CardinalityType DEF AwakeReceivers, AwakeSenders

\* A signal moves exactly one waiter to the woken threads.
LEMMA SignalWakesOne ==
    ASSUME NEW W, NEW V \in Signal(W), W # {}
    PROVE  \E u \in W : V = W \ {u}
BY DEF Signal

\* The receivers' half of NoLostWakeup.
ReceiversWoken ==
    not_empty # {} => ~closed /\ count =< Cardinality(AwakeReceivers)

\* The senders' half.
SendersWoken ==
    not_full # {} => ~closed /\ Capacity - count =< Cardinality(AwakeSenders)

\* Every enqueue wakes a receiver if one waits; no dequeue leaves one behind.
LEMMA StepReceiversWoken ==
    ASSUME IInv, ReceiversWoken, NEW t \in Threads, ThreadNext(t)
    PROVE  ReceiversWoken'
<1> USE AwakeFinite, ChannelAssumption DEF ReceiversWoken
<1> USE DEF IInv, TypeOK, CallsOK, Goto, chan
<1>0. IsFiniteSet(AwakeReceivers') /\ Cardinality(AwakeReceivers') \in Nat
  BY ChannelAssumption, FS_Subset, FS_CardinalityType DEF AwakeReceivers
<1> USE <1>0
<1>1. ASSUME AwakeReceivers \subseteq AwakeReceivers', not_empty' \subseteq not_empty,
             closed' = closed, count' \in {count, count - 1}
      PROVE  ReceiversWoken'
  <2>1. Cardinality(AwakeReceivers) =< Cardinality(AwakeReceivers')
    BY <1>1, FS_Subset
  <2> QED BY <1>1, <2>1
<1>2. CASE SendEnqueue(t)
  <2>1. CASE not_empty = {}
    BY <1>2, <2>1, SignalShrinks DEF SendEnqueue
  <2>2. CASE not_empty # {}
    <3>1. PICK u \in not_empty : not_empty' = not_empty \ {u}
      BY <1>2, <2>2, SignalWakesOne DEF SendEnqueue
    <3>2. AwakeReceivers' = AwakeReceivers \cup {u} /\ u \notin AwakeReceivers
      BY <1>2, <3>1 DEF SendEnqueue, Enqueue, Sending, AwakeReceivers, Receiving
    <3>3. Cardinality(AwakeReceivers') = Cardinality(AwakeReceivers) + 1
      BY <3>2, FS_AddElement
    <3>4. count' = count + 1 /\ closed' = closed
      BY <1>2 DEF SendEnqueue, Enqueue
    <3> QED BY <2>2, <3>3, <3>4
  <2> QED BY <2>1, <2>2
<1>3. CASE RecvDequeue(t)
  <2>1. AwakeReceivers' = AwakeReceivers \ {t} /\ t \in AwakeReceivers
    BY <1>3 DEF RecvDequeue, Dequeue, TakeHead, AwakeReceivers, Receiving
  <2>2. Cardinality(AwakeReceivers') = Cardinality(AwakeReceivers) - 1
    BY <2>1, FS_RemoveElement
  <2>3. count' = count - 1 /\ closed' = closed /\ not_empty' = not_empty
    BY <1>3 DEF RecvDequeue, Dequeue, TakeHead
  <2> QED BY <2>2, <2>3
<1>4. CASE RecvWait(t)
  BY <1>4 DEF RecvWait
<1>5. CASE RecvClosed(t) \/ Close(t)
  BY <1>5 DEF RecvClosed, Close
<1>6. CASE TryRecv(t)
  BY <1>6, <1>1 DEF TryRecv, Dequeue, TakeHead, AwakeReceivers, Receiving
<1>7. ASSUME NEW u \in Threads, Spawn(t, u) PROVE ReceiversWoken'
  BY <1>7, <1>1 DEF Spawn, AwakeReceivers, Receiving
<1>8. ASSUME NEW x \in Items, SendCall(t, x) PROVE ReceiversWoken'
  BY <1>8, <1>1 DEF SendCall, AwakeReceivers, Receiving
<1>9. CASE SendWait(t) \/ SendRefused(t)
  BY <1>9, <1>1 DEF SendWait, SendRefused, Sending, AwakeReceivers, Receiving
<1>10. CASE RecvCall(t)
  BY <1>10, <1>1 DEF RecvCall, AwakeReceivers, Receiving
<1>11. CASE Release(t) \/ Reclaim(t)
  BY <1>11, <1>1 DEF Release, Reclaim, AwakeReceivers, Receiving
<1>12. CASE SpuriousWake(t)
  BY <1>12, <1>1 DEF SpuriousWake, AwakeReceivers, Receiving
<1> QED
  BY <1>2, <1>3, <1>4, <1>5, <1>6, <1>7, <1>8, <1>9, <1>10, <1>11, <1>12
     DEF ThreadNext, SendStep, RecvStep

\* Every dequeue wakes a sender if one waits; no enqueue leaves one behind.
LEMMA StepSendersWoken ==
    ASSUME IInv, SendersWoken, NEW t \in Threads, ThreadNext(t)
    PROVE  SendersWoken'
<1> USE AwakeFinite, ChannelAssumption DEF SendersWoken
<1> USE DEF IInv, TypeOK, CallsOK, Goto, chan
<1>0. IsFiniteSet(AwakeSenders') /\ Cardinality(AwakeSenders') \in Nat
  BY ChannelAssumption, FS_Subset, FS_CardinalityType DEF AwakeSenders
<1> USE <1>0
<1>1. ASSUME AwakeSenders \subseteq AwakeSenders', not_full' \subseteq not_full,
             closed' = closed, count' = count
      PROVE  SendersWoken'
  <2>1. Cardinality(AwakeSenders) =< Cardinality(AwakeSenders')
    BY <1>1, FS_Subset
  <2> QED BY <1>1, <2>1
<1>2. ASSUME Dequeue, t \notin not_full, pc[t] # "send", pc'[t] # "send",
             \A u \in Threads \ {t} : pc'[u] = pc[u]
      PROVE  SendersWoken'
  <2>1. CASE not_full = {}
    BY <1>2, <2>1, SignalShrinks DEF Dequeue
  <2>2. CASE not_full # {}
    <3>1. PICK u \in not_full : not_full' = not_full \ {u}
      BY <1>2, <2>2, SignalWakesOne DEF Dequeue
    <3>2. AwakeSenders' = AwakeSenders \cup {u} /\ u \notin AwakeSenders
      BY <1>2, <3>1 DEF Dequeue, TakeHead, AwakeSenders, Sending
    <3>3. Cardinality(AwakeSenders') = Cardinality(AwakeSenders) + 1
      BY <3>2, FS_AddElement
    <3>4. count' = count - 1 /\ closed' = closed
      BY <1>2 DEF Dequeue, TakeHead
    <3> QED BY <2>2, <3>3, <3>4
  <2> QED BY <2>1, <2>2
<1>3. CASE SendEnqueue(t)
  <2>1. AwakeSenders' = AwakeSenders \ {t} /\ t \in AwakeSenders
    BY <1>3 DEF SendEnqueue, Enqueue, AwakeSenders, Sending
  <2>2. Cardinality(AwakeSenders') = Cardinality(AwakeSenders) - 1
    BY <2>1, FS_RemoveElement
  <2>3. count' = count + 1 /\ closed' = closed /\ not_full' = not_full
    BY <1>3 DEF SendEnqueue, Enqueue
  <2> QED BY <2>2, <2>3
<1>4. CASE SendWait(t)
  BY <1>4 DEF SendWait
<1>5. CASE SendRefused(t) \/ Close(t)
  BY <1>5 DEF SendRefused, Close
<1>6. CASE TryRecv(t)
  BY <1>6, <1>2 DEF TryRecv
<1>7. CASE RecvDequeue(t)
  BY <1>7, <1>2 DEF RecvDequeue, Receiving
<1>8. ASSUME NEW u \in Threads, Spawn(t, u) PROVE SendersWoken'
  BY <1>8, <1>1 DEF Spawn, AwakeSenders, Sending
<1>9. ASSUME NEW x \in Items, SendCall(t, x) PROVE SendersWoken'
  BY <1>9, <1>1 DEF SendCall, AwakeSenders, Sending
<1>10. CASE RecvCall(t)
  BY <1>10, <1>1 DEF RecvCall, AwakeSenders, Sending
<1>11. CASE RecvWait(t) \/ RecvClosed(t)
  BY <1>11, <1>1 DEF RecvWait, RecvClosed, Receiving, AwakeSenders, Sending
<1>12. CASE Release(t) \/ Reclaim(t)
  BY <1>12, <1>1 DEF Release, Reclaim, AwakeSenders, Sending
<1>13. CASE SpuriousWake(t)
  BY <1>13, <1>1 DEF SpuriousWake, AwakeSenders, Sending
<1> QED
  BY <1>2, <1>3, <1>4, <1>5, <1>6, <1>7, <1>8, <1>9, <1>10, <1>11, <1>12, <1>13
     DEF ThreadNext, SendStep, RecvStep

\* No wakeup is lost: while a thread is parked, the threads already on
\* their way to the lock are enough for every queued item (for receivers)
\* and for every free slot (for senders).
THEOREM WakeupsKept == Spec => []NoLostWakeup
<1>1. Init => ReceiversWoken /\ SendersWoken
  BY DEF Init, ReceiversWoken, SendersWoken
<1>2. IInv /\ ReceiversWoken /\ SendersWoken /\ [Next]_vars
        => ReceiversWoken' /\ SendersWoken'
  <2> SUFFICES ASSUME IInv, ReceiversWoken, SendersWoken, [Next]_vars
               PROVE  ReceiversWoken' /\ SendersWoken'
    OBVIOUS
  <2>1. CASE UNCHANGED vars
    BY <2>1 DEF vars, ReceiversWoken, SendersWoken, AwakeReceivers, AwakeSenders,
                Sending, Receiving
  <2> QED BY <2>1, StepReceiversWoken, StepSendersWoken DEF Next
<1>3. ReceiversWoken /\ SendersWoken => NoLostWakeup
  BY DEF ReceiversWoken, SendersWoken, NoLostWakeup
<1> QED BY <1>1, <1>2, <1>3, Inductive, PTL DEF Spec

\* A new channel is an empty, open FIFO.
LEMMA RefineInit == Init => Fifo!Init
BY DEF Init, Fifo!Init, Queue

\* Every step of the channel is a step of the abstract FIFO or leaves it alone.
LEMMA RefineStep ==
    ASSUME IInv, IInv', NEW t \in Threads, ThreadNext(t)
    PROVE  [Fifo!Next]_(Fifo!fifoVars)
<1>1. CASE UNCHANGED <<chan, got, closed, reclaimed>>
  BY <1>1 DEF chan, Queue, Slot, Fifo!fifoVars
<1>2. CASE SendEnqueue(t)
  <2>1. reclaimed = {} /\ arg[t] \in Items /\ ~closed /\ count # Capacity
    BY <1>2 DEF IInv, ReclaimAlone, Users, SendEnqueue, Enqueue, Sending, CallsOK
  <2>2. Len(Queue) < Capacity
    BY <2>1, QueueIsSeq, ChannelAssumption DEF IInv, TypeOK
  <2>3. Fifo!Put(arg[t])
    BY <1>2, <2>1, <2>2, EnqueueQueue DEF SendEnqueue, Enqueue, Fifo!Put, Fifo!Alive
  <2> QED BY <2>1, <2>3 DEF Fifo!Next
<1>3. CASE Dequeue /\ pc[t] \in {"idle", "recv"}
  <2>1. reclaimed = {}
    BY <1>3 DEF IInv, ReclaimAlone, Users
  <2>2. Fifo!Take
    BY <1>3, <2>1, DequeueQueue DEF Dequeue, TakeHead, Fifo!Take, Fifo!Alive
  <2> QED BY <2>2 DEF Fifo!Next
<1>4. CASE Close(t)
  <2>1. reclaimed = {}
    BY <1>4 DEF Close, IInv, ReclaimAlone, Users
  <2>2. Fifo!Shut
    BY <1>4, <2>1 DEF Close, Fifo!Shut, Fifo!Alive, chan, hist, Queue, Slot
  <2> QED BY <2>2 DEF Fifo!Next
<1>5. CASE Reclaim(t)
  <2>1. reclaimed = {} /\ reclaimed' = {Queue}
    BY <1>5 DEF Reclaim, IInv, ReclaimAlone
  <2>2. Fifo!Discard
    BY <1>5, <2>1 DEF Reclaim, Fifo!Discard, Fifo!Alive, chan, hist
  <2> QED BY <2>2 DEF Fifo!Next
<1> QED
  BY <1>1, <1>2, <1>3, <1>4, <1>5 DEF ThreadNext, SendStep, RecvStep, Spawn,
     SendCall, SendWait, SendRefused, RecvCall, RecvWait, RecvClosed, Receiving,
     RecvDequeue, TryRecv, Release, SpuriousWake, chan, hist

\* The ring, its lock, its condition variables and its reference count
\* implement a bounded FIFO that is shut at most once and discarded once.
THEOREM RefinesFifo == Spec => ImplementsFifo
<1>1. IInv /\ IInv' /\ [Next]_vars => [Fifo!Next]_(Fifo!fifoVars)
  <2> SUFFICES ASSUME IInv, IInv', [Next]_vars PROVE [Fifo!Next]_(Fifo!fifoVars)
    OBVIOUS
  <2>1. CASE UNCHANGED vars
    BY <2>1 DEF vars, Fifo!fifoVars, Queue, Slot
  <2> QED BY <2>1, RefineStep DEF Next
<1> QED BY <1>1, RefineInit, Inductive, PTL DEF Spec, ImplementsFifo, Fifo!Spec
====
