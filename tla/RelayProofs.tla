---- MODULE RelayProofs ----
(***************************************************************************)
(* Proofs about the parts that hand things on in order: the ring of the    *)
(* work pool (WorkQueue, which implements ItemList), the queue of outgoing *)
(* messages of the language server (LspWriter), and the supervisor between *)
(* the editor and the server (LspSupervisor).  They hold for any items,    *)
(* capacities, pipes, windows and lengths of the runs.                     *)
(***************************************************************************)
EXTENDS WorkQueue, LspWriter, LspSupervisor, FiniteSetTheorems, SequenceTheorems,
        WellFoundedInduction, TLAPS

\* tail is where the next item goes, and every queued slot holds an item.
RingOK ==
    /\ queue_tail = Slot(queue_head + queue_count, queue_capacity)
    /\ \A i \in 0 .. queue_count - 1 : At(i) \in Item

IInv == TypeOK /\ RingOK

\* Ring arithmetic: the modulus wraps an index at most once.
LEMMA Wrap ==
    ASSUME NEW c \in Nat \ {0}, NEW x \in 0 .. 2 * c - 1
    PROVE  Slot(x, c) = IF x < c THEN x ELSE x - c
<1>1. ASSUME x < c PROVE x % c = x
  BY <1>1
<1>2. ASSUME ~(x < c) PROVE x % c = x - c
  BY <1>2
<1> QED BY <1>1, <1>2 DEF Slot

\* The slot of the i-th queued item.
Where(i) == Slot(queue_head + i, queue_capacity)

\* The ring has a slot of its own for every offset from the head; the slots
\* follow each other, and Offset finds the way back.
LEMMA WhereIs ==
    ASSUME TypeOK
    PROVE  /\ \A i \in 0 .. queue_capacity - 1 :
                /\ Where(i) \in 0 .. queue_capacity - 1
                /\ Offset(Where(i)) = i
                /\ Where(i) = IF queue_head + i < queue_capacity THEN queue_head + i
                              ELSE queue_head + i - queue_capacity
           /\ \A i \in 0 .. queue_capacity - 1 :
                Slot(Where(i) + 1, queue_capacity) = Where(i + 1)
           /\ \A i, j \in 0 .. queue_capacity - 1 : Where(i) = Where(j) => i = j
<1> DEFINE c == queue_capacity
           hd == queue_head
<1>0. c \in Nat \ {0} /\ hd \in 0 .. c - 1
  BY DEF TypeOK
<1> HIDE DEF c, hd
<1>a. \A x \in 0 .. 2 * c - 1 : Slot(x, c) = IF x < c THEN x ELSE x - c
  BY <1>0, Wrap
<1>b. /\ \A i : Where(i) = Slot(hd + i, c)
      /\ \A i : Offset(i) = Slot(i + c - hd, c)
  BY DEF Where, Offset, c, hd
<1>1. ASSUME NEW i \in 0 .. c - 1
      PROVE  Where(i) \in 0 .. c - 1
             /\ Where(i) = IF hd + i < c THEN hd + i ELSE hd + i - c
  BY <1>0, <1>a, <1>b
<1>2. ASSUME NEW i \in 0 .. c - 1 PROVE Offset(Where(i)) = i
  <2>1. PICK w \in Int : w = Where(i) /\ w = IF hd + i < c THEN hd + i ELSE hd + i - c
    BY <1>0, <1>1
  <2>2. w + c - hd \in 0 .. 2 * c - 1
    BY <1>0, <2>1
  <2>3. Slot(w + c - hd, c) = IF w + c - hd < c THEN w + c - hd ELSE w + c - hd - c
    BY <1>0, <1>a, <2>2
  <2>4. Slot(w + c - hd, c) = i
    BY <1>0, <2>1, <2>3
  <2> QED BY <1>b, <2>1, <2>4
<1>3. ASSUME NEW i \in 0 .. c - 1 PROVE Slot(Where(i) + 1, c) = Where(i + 1)
  <2>1. PICK w \in Int : w = Where(i) /\ w = IF hd + i < c THEN hd + i ELSE hd + i - c
    BY <1>0, <1>1
  <2>2. Slot(w + 1, c) = IF w + 1 < c THEN w + 1 ELSE w + 1 - c
    BY <1>0, <1>a, <2>1
  <2>3. Slot(hd + (i + 1), c) = IF hd + i + 1 < c THEN hd + i + 1 ELSE hd + i + 1 - c
    BY <1>0, <1>a
  <2>4. Slot(w + 1, c) = Slot(hd + (i + 1), c)
    BY <1>0, <2>1, <2>2, <2>3
  <2> QED BY <1>b, <2>1, <2>4
<1>4. ASSUME NEW i \in 0 .. c - 1, NEW j \in 0 .. c - 1, Where(i) = Where(j)
      PROVE  i = j
  BY <1>0, <1>1, <1>4
<1> QED BY <1>1, <1>2, <1>3, <1>4 DEF c, hd

\* An empty ring.
LEMMA InitIInv == Init => IInv
BY QueueAssumption, Wrap DEF Init, IInv, TypeOK, RingOK

\* Adding to a ring that has room: the item goes where nothing is queued.
LEMMA SubmitContents ==
    ASSUME IInv, NEW x \in Item, Submit(x)
    PROVE  /\ IInv' /\ queue_count' = queue_count + 1 /\ item' = item
           /\ \A i \in 0 .. queue_count :
                At(i)' = IF i < queue_count THEN At(i) ELSE x
<1> USE DEF IInv, Submit, Enqueue
<1>1. queue_count \in 0 .. queue_capacity - 1 /\ queue_tail = Where(queue_count)
  BY DEF TypeOK, RingOK, Where
<1>2. ASSUME NEW i \in 0 .. queue_count - 1 PROVE At(i)' = At(i)
  <2>1. i \in 0 .. queue_capacity - 1 /\ i # queue_count
    BY <1>1 DEF TypeOK
  <2>2. Where(i) # queue_tail /\ Where(i) \in 0 .. queue_capacity - 1
    BY <1>1, <2>1, WhereIs
  <2>3. At(i)' = queue'[Where(i)] /\ At(i) = queue[Where(i)]
    BY DEF At, Where
  <2> QED BY <2>2, <2>3 DEF TypeOK
<1>3. ASSUME NEW i \in Nat, i = queue_count PROVE At(i)' = x
  <2>1. At(i)' = queue'[Where(i)]
    BY DEF At, Where
  <2> QED BY <1>1, <1>3, <2>1 DEF TypeOK
<1>4. queue_tail' = Slot(queue_head' + queue_count', queue_capacity')
  <2>1. queue_tail' = Where(queue_count + 1)
    BY <1>1, WhereIs DEF TypeOK
  <2> QED BY <2>1 DEF Where, TypeOK
<1>5. TypeOK'
  <2>1. queue_tail' \in 0 .. queue_capacity - 1
    BY Wrap DEF TypeOK
  <2> QED BY <1>1, <2>1 DEF TypeOK
<1>6. \A i \in 0 .. queue_count : At(i)' = IF i < queue_count THEN At(i) ELSE x
  BY <1>2, <1>3 DEF TypeOK
<1>7. RingOK'
  BY <1>4, <1>6 DEF TypeOK, RingOK
<1> QED BY <1>5, <1>6, <1>7

\* Adding to a full ring: the items move to the front of one twice as large.
LEMMA GrowContents ==
    ASSUME IInv, NEW x \in Item, SubmitGrows(x)
    PROVE  /\ IInv' /\ queue_count' = queue_count + 1 /\ item' = item
           /\ \A i \in 0 .. queue_count :
                At(i)' = IF i < queue_count THEN At(i) ELSE x
<1> USE DEF IInv, SubmitGrows, Enqueue
<1>1. /\ queue_count = queue_capacity /\ queue_capacity' = 2 * queue_capacity
      /\ queue_head' = 0 /\ queue_count' = queue_count + 1
  OBVIOUS
<1>2. \A i \in 0 .. 2 * queue_capacity - 1 : Slot(0 + i, 2 * queue_capacity) = i
  BY Wrap DEF TypeOK
<1>3. ASSUME NEW i \in 0 .. queue_count PROVE At(i)' = queue'[i]
  <2>1. Slot(queue_head' + i, queue_capacity') = i
    BY <1>1, <1>2 DEF TypeOK
  <2> QED BY <2>1 DEF At
<1>4. queue_tail' = Slot(queue_head' + queue_count', queue_capacity')
  BY <1>1
<1>5. ASSUME NEW i \in 0 .. queue_count
      PROVE  At(i)' = IF i < queue_count THEN At(i) ELSE x
  <2>1. queue' = [Grown EXCEPT ![queue_count] = x]
    OBVIOUS
  <2>2. i \in 0 .. 2 * queue_capacity - 1
    BY <1>1 DEF TypeOK
  <2>3. Grown[i] = IF i < queue_count THEN At(i) ELSE Garbage
    BY <2>2 DEF Grown
  <2>4. queue'[i] = IF i = queue_count THEN x ELSE Grown[i]
    BY <2>1, <2>2 DEF Grown
  <2> QED BY <1>3, <2>3, <2>4 DEF TypeOK
<1>6. TypeOK'
  <2>1. queue_tail' \in 0 .. 2 * queue_capacity - 1
    BY <1>1, Wrap DEF TypeOK
  <2>2. \A i \in 0 .. queue_count - 1 : At(i) \in Item
    BY DEF RingOK
  <2>3. Grown \in [0 .. 2 * queue_capacity - 1 -> Item \cup {Garbage}]
    BY <2>2 DEF Grown, TypeOK
  <2>4. queue' \in [0 .. 2 * queue_capacity - 1 -> Item \cup {Garbage}]
    BY <2>3 DEF TypeOK
  <2> QED BY <1>1, <2>1, <2>4 DEF TypeOK
<1>7. RingOK'
  BY <1>1, <1>4, <1>5 DEF TypeOK, RingOK
<1> QED BY <1>5, <1>6, <1>7

\* A worker takes the oldest item; the others move up by one.
LEMMA DequeueContents ==
    ASSUME IInv, Dequeue
    PROVE  /\ IInv' /\ queue_count' = queue_count - 1 /\ item' = At(0)
           /\ \A i \in 0 .. queue_count - 2 : At(i)' = At(i + 1)
<1> USE DEF IInv, Dequeue
<1>1. queue_head = Where(0) /\ queue_head' = Where(1)
  BY WhereIs DEF TypeOK
<1>2. ASSUME NEW i \in 0 .. queue_count - 1
      PROVE  Slot(queue_head' + i, queue_capacity) = Where(i + 1)
  <2>1. CASE queue_capacity = 1
    BY <1>1, <2>1, Wrap DEF Where, TypeOK
  <2>2. CASE queue_capacity > 1
    <3>1. Where(1) = IF queue_head + 1 < queue_capacity THEN queue_head + 1
                     ELSE queue_head + 1 - queue_capacity
      BY <2>2, WhereIs DEF TypeOK
    <3>2. Where(i + 1) = IF queue_head + i + 1 < queue_capacity THEN queue_head + i + 1
                         ELSE queue_head + i + 1 - queue_capacity
      BY <2>2, Wrap DEF Where, TypeOK
    <3> QED BY <1>1, <3>1, <3>2, Wrap DEF TypeOK
  <2> QED BY <2>1, <2>2 DEF TypeOK
<1>3. ASSUME NEW i \in 0 .. queue_count - 2 PROVE At(i)' = At(i + 1)
  BY <1>2 DEF At, Where, TypeOK
<1>4. item' = At(0)
  BY <1>1 DEF At, Where
<1>5. TypeOK'
  <2>1. queue_head' \in 0 .. queue_capacity - 1
    BY Wrap DEF TypeOK
  <2>2. item' \in Item
    BY <1>4 DEF RingOK, TypeOK
  <2> QED BY <2>1, <2>2 DEF TypeOK
<1>6. RingOK'
  <2>1. queue_tail' = Slot(queue_head' + queue_count', queue_capacity')
    BY <1>2 DEF RingOK, TypeOK, Where
  <2> QED BY <1>3, <2>1 DEF RingOK, TypeOK
<1> QED BY <1>3, <1>4, <1>5, <1>6

\* A waiting job takes the k-th item; those behind it move up by one, those
\* before it stay.
LEMMA GroupTakeContents ==
    ASSUME IInv, NEW k \in 0 .. queue_count - 1, GroupTake(k)
    PROVE  /\ IInv' /\ queue_count' = queue_count - 1 /\ item' = At(k)
           /\ \A i \in 0 .. queue_count - 2 :
                At(i)' = IF i < k THEN At(i) ELSE At(i + 1)
<1> USE DEF IInv, GroupTake
<1>1. ASSUME NEW i \in 0 .. queue_count - 2
      PROVE  At(i)' = IF i < k THEN At(i) ELSE At(i + 1)
  <2>1. /\ Where(i) \in 0 .. queue_capacity - 1 /\ Offset(Where(i)) = i
        /\ Slot(Where(i) + 1, queue_capacity) = Where(i + 1)
    <3>1. i \in 0 .. queue_capacity - 1
      BY DEF TypeOK
    <3> QED BY <3>1, WhereIs
  <2>2. At(i)' = queue'[Where(i)]
    BY DEF At, Where
  <2> QED BY <2>1, <2>2 DEF At, Where, TypeOK
<1>2. queue_tail' = Slot(queue_head + queue_count - 1, queue_capacity)
  <2>1. queue_head + queue_count \in 0 .. 2 * queue_capacity - 1
    BY DEF TypeOK
  <2>2. queue_tail = IF queue_head + queue_count < queue_capacity
                     THEN queue_head + queue_count
                     ELSE queue_head + queue_count - queue_capacity
    BY <2>1, Wrap DEF RingOK, TypeOK
  <2>3. queue_tail + queue_capacity - 1 \in 0 .. 2 * queue_capacity - 1
    BY DEF TypeOK
  <2>4. queue_head + queue_count - 1 \in 0 .. 2 * queue_capacity - 1
    BY DEF TypeOK
  <2> QED BY <2>2, <2>3, <2>4, Wrap DEF TypeOK
<1>3. TypeOK'
  <2>1. queue_tail' \in 0 .. queue_capacity - 1
    <3>1. queue_tail + queue_capacity - 1 \in 0 .. 2 * queue_capacity - 1
      BY DEF TypeOK
    <3> QED BY <3>1, Wrap DEF TypeOK
  <2>2. item' \in Item
    BY DEF RingOK
  <2>3. queue' \in [0 .. queue_capacity - 1 -> Item \cup {Garbage}]
    <3>1. ASSUME NEW i \in 0 .. queue_capacity - 1
          PROVE  Slot(i + 1, queue_capacity) \in 0 .. queue_capacity - 1
      <4>1. i + 1 \in 0 .. 2 * queue_capacity - 1
        BY DEF TypeOK
      <4> QED BY <4>1, Wrap, SMTT(30) DEF TypeOK
    <3> QED BY <3>1 DEF TypeOK
  <2> QED BY <2>1, <2>2, <2>3 DEF TypeOK
<1>4. RingOK'
  BY <1>1, <1>2 DEF RingOK, TypeOK
<1> QED BY <1>1, <1>3, <1>4

\* The invariant is inductive.
LEMMA StepIInv == IInv /\ [Next]_vars => IInv'
<1> SUFFICES ASSUME IInv, [Next]_vars PROVE IInv'
  OBVIOUS
<1>1. CASE UNCHANGED vars
  BY <1>1 DEF vars, IInv, TypeOK, RingOK, At
<1> QED
  BY <1>1, SubmitContents, GrowContents, DequeueContents, GroupTakeContents DEF Next

\* Removing one element of a sequence, element by element.
LEMMA RemoveElement ==
    ASSUME NEW S, NEW q \in Seq(S), NEW k \in 1 .. Len(q)
    PROVE  LET r == SubSeq(q, 1, k - 1) \o SubSeq(q, k + 1, Len(q))
           IN  /\ r \in Seq(S) /\ Len(r) = Len(q) - 1
               /\ \A i \in 1 .. Len(q) - 1 : r[i] = IF i < k THEN q[i] ELSE q[i + 1]
<1> DEFINE a == SubSeq(q, 1, k - 1)
           b == SubSeq(q, k + 1, Len(q))
<1>0. Len(q) \in Nat /\ k \in Nat /\ \A i \in 1 .. Len(q) : q[i] \in S
  BY ElementOfSeq, LenProperties
<1>1. a \in Seq(S) /\ Len(a) = k - 1 /\ \A i \in 1 .. k - 1 : a[i] = q[i]
  <2>1. \A i \in 1 .. k - 1 : q[i] \in S
    BY <1>0
  <2> QED BY <1>0, <2>1, SubSeqProperties
<1>2. /\ b \in Seq(S) /\ Len(b) = Len(q) - k
      /\ \A i \in 1 .. Len(q) - k : b[i] = q[k + i]
  <2>1. \A i \in k + 1 .. Len(q) : q[i] \in S
    BY <1>0
  <2>2. /\ b \in Seq(S)
        /\ Len(b) = IF k + 1 <= Len(q) THEN Len(q) - (k + 1) + 1 ELSE 0
        /\ \A i \in 1 .. Len(q) - (k + 1) + 1 : b[i] = q[(k + 1) + i - 1]
    <3>1. k + 1 \in Int /\ Len(q) \in Int
      BY <1>0
    <3> HIDE DEF b
    <3> QED BY <2>1, <3>1, SubSeqProperties DEF b
  <2> HIDE DEF b
  <2>3. \A i \in 1 .. Len(q) - k : (k + 1) + i - 1 = k + i
    BY <1>0
  <2> QED BY <1>0, <2>2, <2>3
<1> HIDE DEF a, b
<1>3. /\ a \o b \in Seq(S) /\ Len(a \o b) = Len(q) - 1
      /\ \A i \in 1 .. Len(q) - 1 : (a \o b)[i] = IF i <= k - 1 THEN a[i] ELSE b[i - (k - 1)]
  <2>1. /\ a \o b \in Seq(S) /\ Len(a \o b) = Len(a) + Len(b)
        /\ \A i \in 1 .. Len(a) + Len(b) :
             (a \o b)[i] = IF i <= Len(a) THEN a[i] ELSE b[i - Len(a)]
    BY <1>1, <1>2, ConcatProperties
  <2>2. Len(a) + Len(b) = Len(q) - 1
    BY <1>0, <1>1, <1>2
  <2> QED BY <1>1, <2>1, <2>2
<1>4. ASSUME NEW i \in 1 .. Len(q) - 1
      PROVE  (a \o b)[i] = IF i < k THEN q[i] ELSE q[i + 1]
  <2>1. CASE i < k
    BY <1>0, <1>1, <1>3, <2>1
  <2>2. CASE ~(i < k)
    <3>1. i - (k - 1) \in 1 .. Len(q) - k /\ k + (i - (k - 1)) = i + 1
      BY <1>0, <2>2
    <3>2. b[i - (k - 1)] = q[i + 1]
      BY <1>2, <3>1
    <3> QED BY <1>0, <1>3, <2>2, <3>2
  <2> QED BY <2>1, <2>2
<1> QED BY <1>3, <1>4 DEF a, b

\* The queued items are a sequence.
LEMMA ContentsSeq ==
    ASSUME IInv
    PROVE  /\ Contents \in Seq(Item) /\ Len(Contents) = queue_count
           /\ \A i \in 1 .. queue_count : Contents[i] = At(i - 1)
<1>1. queue_count \in Nat /\ \A i \in 1 .. queue_count : At(i - 1) \in Item
  BY DEF IInv, TypeOK, RingOK
<1>2. Contents \in [1 .. queue_count -> Item]
  BY <1>1 DEF Contents
<1> QED BY <1>1, <1>2 DEF Contents

\* The same after a step.
LEMMA ContentsSeqNext ==
    ASSUME IInv'
    PROVE  /\ Contents' \in Seq(Item) /\ Len(Contents') = queue_count'
           /\ \A i \in 1 .. queue_count' : Contents'[i] = At(i - 1)'
<1>1. queue_count' \in Nat
  BY DEF IInv, TypeOK
<1>2. \A i \in 0 .. queue_count' - 1 : At(i)' \in Item
  BY DEF IInv, RingOK
<1>3. ASSUME NEW n \in Nat, n = queue_count'
      PROVE  \A i \in 1 .. n : At(i - 1)' \in Item
  <2>1. \A i \in 0 .. n - 1 : At(i)' \in Item
    BY <1>2, <1>3
  <2>2. \A i \in 1 .. n : i - 1 \in 0 .. n - 1
    OBVIOUS
  <2> QED BY <2>1, <2>2
<1>4. \A i \in 1 .. queue_count' : At(i - 1)' \in Item
  BY <1>1, <1>3
<1>5. Contents' \in [1 .. queue_count' -> Item]
  BY <1>1, <1>4 DEF Contents
<1> QED BY <1>1, <1>5 DEF Contents

\* Every operation on the ring is one on the list.
LEMMA RefineStep ==
    ASSUME IInv, IInv', [Next]_vars
    PROVE  [List!Next]_<<Contents, item>>
<1>0. /\ Contents \in Seq(Item) /\ Len(Contents) = queue_count
      /\ \A i \in 1 .. queue_count : Contents[i] = At(i - 1)
  BY ContentsSeq
<1>0a. /\ Contents' \in Seq(Item) /\ Len(Contents') = queue_count'
       /\ \A i \in 1 .. queue_count' : Contents'[i] = At(i - 1)'
  BY ContentsSeqNext
<1>0b. queue_count \in Nat
  BY DEF IInv, TypeOK
<1>1. ASSUME NEW x \in Item, Submit(x) \/ SubmitGrows(x)
      PROVE  List!Push(x)
  <2>1. /\ queue_count' = queue_count + 1 /\ item' = item
        /\ \A i \in 0 .. queue_count : At(i)' = IF i < queue_count THEN At(i) ELSE x
    BY <1>1, SubmitContents, GrowContents
  <2>2. /\ Append(Contents, x) \in Seq(Item)
        /\ Len(Append(Contents, x)) = queue_count + 1
        /\ \A i \in 1 .. queue_count : Append(Contents, x)[i] = Contents[i]
        /\ Append(Contents, x)[queue_count + 1] = x
    BY <1>0, <1>0b, AppendProperties
  <2>3. ASSUME NEW i \in 1 .. queue_count + 1 PROVE Contents'[i] = Append(Contents, x)[i]
    <3>1. i - 1 \in 0 .. queue_count /\ Contents'[i] = At(i - 1)'
      BY <1>0a, <1>0b, <2>1
    <3>2. Contents'[i] = IF i - 1 < queue_count THEN At(i - 1) ELSE x
      BY <2>1, <3>1
    <3> QED BY <1>0, <1>0b, <2>2, <3>2
  <2>4. Contents' = Append(Contents, x)
    BY <1>0a, <1>0b, <2>1, <2>2, <2>3, SeqEqual
  <2> QED BY <2>1, <2>4 DEF List!Push
<1>2. ASSUME NEW k \in 1 .. queue_count,
             queue_count' = queue_count - 1, item' = At(k - 1),
             \A i \in 0 .. queue_count - 2 :
               At(i)' = IF i < k - 1 THEN At(i) ELSE At(i + 1)
      PROVE  List!Remove(k)
  <2> DEFINE r == SubSeq(Contents, 1, k - 1) \o SubSeq(Contents, k + 1, Len(Contents))
  <2>1. /\ r \in Seq(Item) /\ Len(r) = Len(Contents) - 1
        /\ \A i \in 1 .. Len(Contents) - 1 :
             r[i] = IF i < k THEN Contents[i] ELSE Contents[i + 1]
    <3>1. k \in 1 .. Len(Contents)
      BY <1>0, <1>0b
    <3> QED BY <1>0, <3>1, RemoveElement
  <2> HIDE DEF r
  <2>2. ASSUME NEW i \in 1 .. queue_count - 1 PROVE Contents'[i] = r[i]
    <3>1. i - 1 \in 0 .. queue_count - 2 /\ Contents'[i] = At(i - 1)'
      BY <1>0a, <1>0b, <1>2
    <3>2. Contents'[i] = IF i - 1 < k - 1 THEN At(i - 1) ELSE At(i - 1 + 1)
      BY <1>2, <3>1
    <3>3. Contents[i] = At(i - 1) /\ Contents[i + 1] = At(i + 1 - 1)
      BY <1>0, <1>0b
    <3>4. i - 1 + 1 = i + 1 - 1
      OBVIOUS
    <3>5. r[i] = IF i < k THEN Contents[i] ELSE Contents[i + 1]
      BY <1>0, <2>1
    <3> QED BY <1>0b, <3>2, <3>3, <3>4, <3>5
  <2>3. Contents' = r
    BY <1>0, <1>0a, <1>0b, <1>2, <2>1, <2>2, SeqEqual
  <2>4. item' = Contents[k]
    BY <1>0, <1>2
  <2> QED BY <2>3, <2>4 DEF List!Remove, r
<1>3. ASSUME NEW k \in 1 .. queue_count, List!Remove(k)
      PROVE  [List!Next]_<<Contents, item>>
  <2>1. k \in 1 .. Len(Contents)
    BY <1>0, <1>0b
  <2> QED BY <1>3, <2>1 DEF List!Next
<1>4. CASE Dequeue
  <2>1. 1 \in 1 .. queue_count /\ 1 - 1 = 0
    BY <1>0b, <1>4 DEF Dequeue
  <2>2. /\ queue_count' = queue_count - 1 /\ item' = At(0)
        /\ \A i \in 0 .. queue_count - 2 : At(i)' = At(i + 1)
    BY <1>4, DequeueContents
  <2>3. \A i \in 0 .. queue_count - 2 : At(i)' = IF i < 1 - 1 THEN At(i) ELSE At(i + 1)
    BY <1>0b, <2>2
  <2>4. List!Remove(1)
    BY <1>2, <2>1, <2>2, <2>3
  <2> QED BY <1>3, <2>1, <2>4
<1>5. ASSUME NEW k \in 0 .. queue_count - 1, GroupTake(k)
      PROVE  [List!Next]_<<Contents, item>>
  <2>1. PICK m \in 1 .. queue_count : m - 1 = k
    <3>1. k + 1 \in 1 .. queue_count /\ k + 1 - 1 = k
      BY <1>0b
    <3> QED BY <3>1
  <2>2. /\ queue_count' = queue_count - 1 /\ item' = At(m - 1)
        /\ \A i \in 0 .. queue_count - 2 :
             At(i)' = IF i < m - 1 THEN At(i) ELSE At(i + 1)
    BY <1>5, <2>1, GroupTakeContents
  <2>3. List!Remove(m)
    BY <1>2, <2>2
  <2> QED BY <1>3, <2>3
<1>6. CASE UNCHANGED vars
  BY <1>6 DEF vars, Contents, At
<1> QED BY <1>1, <1>4, <1>5, <1>6 DEF Next, List!Next

\* The ring implements a list: whatever the head is when it grows and wherever
\* an item is taken out, the others keep their order, none is lost or doubled,
\* and no index leaves the allocation.
THEOREM RingImplementsList == Spec => ImplementsList
<1>1. Init => List!Init
  BY QueueAssumption DEF Init, List!Init, Contents
<1>2. IInv => TypeOK
  BY DEF IInv
<1>3. IInv /\ IInv' /\ [Next]_vars => [List!Next]_<<Contents, item>>
  BY RefineStep
<1> QED
  BY <1>1, <1>2, <1>3, InitIInv, StepIInv, PTL DEF Spec, ImplementsList, List!Spec

-----------------------------------------------------------------------------

\* The ring q: a record whose slots in use, and no others, hold a message.
QueueOK(q) ==
  /\ q = [slots |-> q.slots, cap |-> q.cap, head |-> q.head, count |-> q.count]
  /\ q.cap \in Nat \ {0} /\ q.head \in 0..q.cap - 1 /\ q.count \in 0..q.cap
  /\ q.slots \in [0..q.cap - 1 -> Items]
  /\ \A s \in 0..q.cap - 1 :
       q.slots[s] # Empty <=> \E i \in 0..q.count - 1 : s = RingSlot(q, i)

\* Its i-th message, 0 the oldest.
Nth(q, i) == q.slots[RingSlot(q, i)]

\* How far the end of the process is: the flag is set by main() or by a
\* write that failed, and the writer exits only after that, with an empty queue.
Stopping ==
  /\ flag /\ sink => main \in {"wake_writer", "join_writer", "returned"}
  /\ writer.at = "exited" => flag /\ (sink => ring.count = 0)
  /\ main = "returned" => writer.at = "exited"

\* At most one log message is in a queue longer than its capacity.
FewLogs(q) == q.count > Capacity => \A i, j \in Logs(q) : i = j

WriterInv == WriterTypeOK /\ QueueOK(ring) /\ OrderKept /\ FewLogs(ring) /\ Stopping

\* % on what two turns of the ring reach.
LEMMA Wraps ==
    ASSUME NEW c \in Nat \ {0}, NEW x \in 0 .. 2 * c - 1
    PROVE  x % c = IF x < c THEN x ELSE x - c
<1>1. ASSUME x < c PROVE x % c = x
  BY <1>1
<1>2. ASSUME ~(x < c) PROVE x % c = x - c
  BY <1>2
<1> QED BY <1>1, <1>2

\* Where the i-th message is: every offset has a slot of its own, and the slots
\* follow each other.
LEMMA SlotFacts ==
  ASSUME NEW q, QueueOK(q)
  PROVE  /\ \A i \in 0..q.cap :
              RingSlot(q, i) = IF q.head + i < q.cap THEN q.head + i ELSE q.head + i - q.cap
         /\ \A i \in 0..q.cap : RingSlot(q, i) \in 0..q.cap - 1
         /\ \A i, j \in 0..q.cap - 1 : RingSlot(q, i) = RingSlot(q, j) => i = j
         /\ \A i \in 0..q.cap - 1 : (RingSlot(q, i) + 1) % q.cap = RingSlot(q, i + 1)
<1>1. PICK c \in Nat \ {0}, h \in Nat : c = q.cap /\ h = q.head /\ h < c
  BY DEF QueueOK
<1>2. \A x \in 0..2 * c - 1 : x % c = IF x < c THEN x ELSE x - c
  BY Wraps
<1>3. ASSUME NEW i \in 0..c PROVE RingSlot(q, i) = IF h + i < c THEN h + i ELSE h + i - c
  <2>1. h + i \in 0..2 * c - 1
    BY <1>1
  <2> QED BY <1>1, <1>2, <2>1 DEF RingSlot
<1>4. ASSUME NEW i \in 0..c PROVE RingSlot(q, i) \in 0..c - 1
  BY <1>1, <1>3
<1>5. ASSUME NEW i \in 0..c - 1, NEW j \in 0..c - 1, RingSlot(q, i) = RingSlot(q, j) PROVE i = j
  BY <1>1, <1>3, <1>5
<1>6. ASSUME NEW i \in 0..c - 1 PROVE (RingSlot(q, i) + 1) % c = RingSlot(q, i + 1)
  <2>1. PICK s \in 0..c - 1 : s = RingSlot(q, i) /\ s = IF h + i < c THEN h + i ELSE h + i - c
    <3>1. i \in 0..c
      BY <1>1
    <3> QED BY <1>1, <1>3, <1>4, <3>1
  <2>2. (s + 1) % c = IF s + 1 < c THEN s + 1 ELSE s + 1 - c
    BY <1>1, <1>2
  <2>3. RingSlot(q, i + 1) = IF h + i + 1 < c THEN h + i + 1 ELSE h + i + 1 - c
    BY <1>1, <1>3
  <2>4. (s + 1) % c = RingSlot(q, i + 1)
    BY <1>1, <2>1, <2>2, <2>3
  <2> QED BY <2>1, <2>4
<1> QED BY <1>1, <1>3, <1>4, <1>5, <1>6

\* The messages are no empty slots.
LEMMA NthFacts ==
  ASSUME NEW q, QueueOK(q), NEW i \in 0..q.count - 1
  PROVE  Nth(q, i) \in Items /\ Nth(q, i) # Empty
<1>1. i \in 0..q.cap /\ q.count \in Nat
  BY DEF QueueOK
<1>2. RingSlot(q, i) \in 0..q.cap - 1
  BY <1>1, SlotFacts
<1> QED BY <1>2 DEF QueueOK, Nth

\* A message put behind the last one.
LEMMA InsertFacts ==
  ASSUME NEW q, QueueOK(q), q.count < q.cap, NEW m \in Items, m # Empty,
         NEW r, r = Insert(q, m)
  PROVE  /\ QueueOK(r) /\ r.count = q.count + 1 /\ r.cap = q.cap
         /\ \A i \in 0..q.count - 1 : Nth(r, i) = Nth(q, i)
         /\ Nth(r, q.count) = m
<1>1. PICK c \in Nat \ {0}, n \in Nat, h \in Nat :
        c = q.cap /\ n = q.count /\ h = q.head /\ n < c /\ h < c
  BY DEF QueueOK
<1>2. PICK t \in 0..c - 1 : t = RingSlot(q, n)
  BY <1>1, SlotFacts
<1>3. /\ r = [slots |-> [q.slots EXCEPT ![t] = m], cap |-> c, head |-> h, count |-> n + 1]
      /\ q.slots \in [0..c - 1 -> Items]
  BY <1>1, <1>2 DEF QueueOK, Insert
<1>a. /\ r.cap = c /\ r.head = h /\ r.count = n + 1
      /\ r.slots = [q.slots EXCEPT ![t] = m]
      /\ r = [slots |-> r.slots, cap |-> r.cap, head |-> r.head, count |-> r.count]
  BY <1>3
<1>b. r.slots[t] = m /\ \A s \in 0..c - 1 : s # t => r.slots[s] = q.slots[s]
  BY <1>3, <1>a
<1>c. r.slots \in [0..c - 1 -> Items]
  BY <1>3, <1>a
<1>4. \A i : RingSlot(r, i) = RingSlot(q, i)
  BY <1>1, <1>a DEF RingSlot
<1>5. \A i \in 0..n - 1 : RingSlot(q, i) # t /\ RingSlot(q, i) \in 0..c - 1
  BY <1>1, <1>2, SlotFacts
<1>6. \A i \in 0..n - 1 : Nth(r, i) = Nth(q, i)
  BY <1>b, <1>4, <1>5 DEF Nth
<1>7. Nth(r, n) = m
  BY <1>2, <1>b, <1>4 DEF Nth
<1>8. ASSUME NEW s \in 0..c - 1
      PROVE  r.slots[s] # Empty <=> \E i \in 0..n : s = RingSlot(r, i)
  <2>1. CASE s = t
    <3>1. n \in 0..n /\ s = RingSlot(r, n)
      BY <1>1, <1>2, <1>4, <2>1
    <3> QED BY <1>b, <2>1, <3>1
  <2>2. CASE s # t
    <3>1. r.slots[s] = q.slots[s]
      BY <1>b, <2>2
    <3>2. q.slots[s] # Empty <=> \E i \in 0..n - 1 : s = RingSlot(q, i)
      BY <1>1 DEF QueueOK
    <3>3. \A i \in 0..n : i \in 0..n - 1 \/ i = n
      BY <1>1
    <3>4. \A i \in 0..n - 1 : i \in 0..n
      BY <1>1
    <3> QED BY <1>2, <1>4, <2>2, <3>1, <3>2, <3>3, <3>4
  <2> QED BY <2>1, <2>2
<1>9. QueueOK(r)
  <2>1. r.count - 1 = n /\ r.count \in 0..r.cap /\ r.head \in 0..r.cap - 1
    BY <1>1, <1>a
  <2>2. \A s \in 0..r.cap - 1 : r.slots[s] # Empty <=> \E i \in 0..r.count - 1 : s = RingSlot(r, i)
    BY <1>8, <1>a, <2>1
  <2> QED BY <1>1, <1>a, <1>c, <2>1, <2>2 DEF QueueOK
<1> QED BY <1>1, <1>a, <1>6, <1>7, <1>9

\* The larger ring holds the same messages in the same order.
LEMMA GrowFacts ==
  ASSUME NEW q, QueueOK(q), NEW r, r = Grow(q)
  PROVE  /\ QueueOK(r) /\ r.count = q.count /\ r.count < r.cap
         /\ \A i \in 0..q.count - 1 : Nth(r, i) = Nth(q, i)
<1>1. PICK c \in Nat \ {0}, n \in Nat : c = q.cap /\ n = q.count /\ n <= c
  BY DEF QueueOK
<1>2. /\ r.cap = 2 * c /\ r.head = 0 /\ r.count = n
      /\ r.slots = [s \in 0..2 * c - 1 |-> IF s < n THEN Nth(q, s) ELSE Empty]
      /\ r = [slots |-> r.slots, cap |-> r.cap, head |-> r.head, count |-> r.count]
  BY <1>1 DEF Grow, Nth
<1>3. Empty \in Items
  BY DEF Empty, Items
<1>4. \A i \in 0..n - 1 : Nth(q, i) \in Items /\ Nth(q, i) # Empty
  BY <1>1, NthFacts
<1>5. \A s \in 0..2 * c - 1 : /\ s < n => s \in 0..n - 1 /\ r.slots[s] = Nth(q, s)
                              /\ ~(s < n) => s \notin 0..n - 1 /\ r.slots[s] = Empty
  BY <1>1, <1>2
<1>6. r.slots \in [0..2 * c - 1 -> Items]
  <2>1. \A s \in 0..2 * c - 1 : (IF s < n THEN Nth(q, s) ELSE Empty) \in Items
    BY <1>3, <1>4, <1>5
  <2> QED BY <1>2, <2>1
<1>7. ASSUME NEW i \in 0..n - 1 PROVE RingSlot(r, i) = i /\ i \in 0..2 * c - 1 /\ i < n
  <2>1. 2 * c \in Nat \ {0} /\ i \in 0..2 * (2 * c) - 1 /\ i < 2 * c /\ i \in Nat /\ i < n
    BY <1>1
  <2>2. i % (2 * c) = i
    BY <2>1, Wraps
  <2>3. 0 + i = i
    BY <2>1
  <2> QED BY <1>2, <2>1, <2>2, <2>3 DEF RingSlot
<1>8. \A i \in 0..n - 1 : Nth(r, i) = Nth(q, i)
  BY <1>5, <1>7 DEF Nth
<1>9. ASSUME NEW s \in 0..2 * c - 1
      PROVE  r.slots[s] # Empty <=> \E i \in 0..n - 1 : s = RingSlot(r, i)
  <2>1. CASE s < n
    <3>1. s \in 0..n - 1 /\ s = RingSlot(r, s)
      BY <1>5, <1>7, <2>1
    <3> QED BY <1>4, <1>5, <2>1, <3>1
  <2>2. CASE ~(s < n)
    BY <1>5, <1>7, <2>2
  <2> QED BY <2>1, <2>2
<1>10. QueueOK(r)
  <2>1. r.cap \in Nat \ {0} /\ r.head \in 0..r.cap - 1 /\ r.count \in 0..r.cap
    BY <1>1, <1>2
  <2> QED BY <1>2, <1>6, <1>9, <2>1 DEF QueueOK
<1> QED BY <1>1, <1>2, <1>8, <1>10

\* remove_logical closes the gap and leaves the others in order.
LEMMA RemoveFacts ==
  ASSUME NEW q, QueueOK(q), NEW k \in 0..q.count - 1, NEW r, r = RemoveLogical(q, k)
  PROVE  /\ QueueOK(r) /\ r.count = q.count - 1 /\ r.cap = q.cap
         /\ \A i \in 0..q.count - 2 : Nth(r, i) = IF i < k THEN Nth(q, i) ELSE Nth(q, i + 1)
<1>1. PICK c \in Nat \ {0}, n \in Nat \ {0}, h \in Nat :
        c = q.cap /\ n = q.count /\ h = q.head /\ n <= c /\ h < c /\ k < n /\ k \in Nat
  BY DEF QueueOK
<1>2. PICK t \in 0..c - 1 : t = RingSlot(q, n - 1)
  BY <1>1, SlotFacts
<1>3. /\ r.cap = c /\ r.head = h /\ r.count = n - 1
      /\ r.slots = [s \in 0..c - 1 |->
           IF \E j \in k..n - 2 : s = RingSlot(q, j) THEN q.slots[(s + 1) % c]
           ELSE IF s = t THEN Empty ELSE q.slots[s]]
      /\ r = [slots |-> r.slots, cap |-> r.cap, head |-> r.head, count |-> r.count]
  <2>1. /\ DOMAIN q.slots = 0..c - 1
        /\ q = [slots |-> q.slots, cap |-> c, head |-> h, count |-> n]
    BY <1>1 DEF QueueOK
  <2>2. r = [slots |-> [s \in 0..c - 1 |->
               IF \E j \in k..n - 2 : s = RingSlot(q, j) THEN q.slots[(s + 1) % c]
               ELSE IF s = t THEN Empty ELSE q.slots[s]],
             cap |-> c, head |-> h, count |-> n - 1]
    BY <1>1, <1>2, <2>1 DEF RemoveLogical
  <2> QED BY <2>2
<1>4. \A i : RingSlot(r, i) = RingSlot(q, i)
  BY <1>1, <1>3 DEF RingSlot
<1>5. /\ \A i \in 0..n - 1 : RingSlot(q, i) \in 0..c - 1
      /\ \A i, j \in 0..n - 1 : RingSlot(q, i) = RingSlot(q, j) => i = j
      /\ \A i \in 0..n - 1 : (RingSlot(q, i) + 1) % c = RingSlot(q, i + 1)
  <2>1. \A i \in 0..n - 1 : i \in 0..q.cap - 1 /\ i \in 0..q.cap
    BY <1>1
  <2> QED BY <1>1, <2>1, SlotFacts
<1>6. /\ n - 1 \in 0..n - 1
      /\ \A i \in 0..n - 2 : i \in 0..n - 1 /\ i # n - 1 /\ i + 1 \in 0..n - 1
      /\ \A i \in k..n - 2 : i \in 0..n - 2
      /\ \A i \in 0..n - 2 : ~(i < k) <=> i \in k..n - 2
      /\ \A i \in 0..n - 1 : i \in 0..n - 2 \/ i = n - 1
  BY <1>1
<1>7. ASSUME NEW i \in 0..n - 2
      PROVE  r.slots[RingSlot(q, i)] = IF i < k THEN Nth(q, i) ELSE Nth(q, i + 1)
  <2>1. RingSlot(q, i) \in 0..c - 1 /\ RingSlot(q, i) # t /\ (RingSlot(q, i) + 1) % c = RingSlot(q, i + 1)
    BY <1>2, <1>5, <1>6
  <2>2. (\E j \in k..n - 2 : RingSlot(q, i) = RingSlot(q, j)) <=> ~(i < k)
    BY <1>5, <1>6
  <2> QED BY <1>3, <2>1, <2>2 DEF Nth
<1>8. r.slots[t] = Empty
  <2>1. ~\E j \in k..n - 2 : t = RingSlot(q, j)
    BY <1>2, <1>5, <1>6
  <2> QED BY <1>3, <2>1
<1>9. ASSUME NEW s \in 0..c - 1, \A i \in 0..n - 1 : s # RingSlot(q, i)
      PROVE  r.slots[s] = Empty
  <2>1. q.slots[s] = Empty
    BY <1>1, <1>9 DEF QueueOK
  <2>2. ~\E j \in k..n - 2 : s = RingSlot(q, j)
    BY <1>6, <1>9
  <2> QED BY <1>3, <2>1, <2>2
<1>10. ASSUME NEW i \in 0..n - 2
       PROVE  r.slots[RingSlot(q, i)] \in Items /\ r.slots[RingSlot(q, i)] # Empty
  <2>1. /\ Nth(q, i) \in Items /\ Nth(q, i) # Empty
        /\ Nth(q, i + 1) \in Items /\ Nth(q, i + 1) # Empty
    BY <1>1, <1>6, NthFacts
  <2> QED BY <1>7, <2>1
<1>11. ASSUME NEW s \in 0..c - 1
       PROVE  /\ r.slots[s] \in Items
              /\ r.slots[s] # Empty <=> \E i \in 0..n - 2 : s = RingSlot(r, i)
  <2>0. Empty \in Items
    BY DEF Empty, Items
  <2>1. CASE \E i \in 0..n - 2 : s = RingSlot(q, i)
    BY <1>4, <1>10, <2>1
  <2>2. CASE ~\E i \in 0..n - 2 : s = RingSlot(q, i)
    <3>1. r.slots[s] = Empty
      BY <1>2, <1>6, <1>8, <1>9, <2>2
    <3> QED BY <1>4, <2>0, <2>2, <3>1
  <2> QED BY <2>1, <2>2
<1>12. QueueOK(r)
  <2>1. r.cap \in Nat \ {0} /\ r.head \in 0..r.cap - 1 /\ r.count \in 0..r.cap /\ r.count - 1 = n - 2
    BY <1>1, <1>3
  <2>2. r.slots \in [0..c - 1 -> Items]
    BY <1>3, <1>11
  <2>3. \A s \in 0..r.cap - 1 :
          r.slots[s] # Empty <=> \E i \in 0..r.count - 1 : s = RingSlot(r, i)
    BY <1>3, <1>11, <2>1
  <2> QED BY <1>3, <2>1, <2>2, <2>3 DEF QueueOK
<1>13. \A i \in 0..n - 2 : Nth(r, i) = IF i < k THEN Nth(q, i) ELSE Nth(q, i + 1)
  BY <1>4, <1>7 DEF Nth
<1> QED BY <1>1, <1>3, <1>12, <1>13

\* The queue without its oldest message.
Popped(q) == [q EXCEPT !.slots[q.head] = Empty, !.count = @ - 1, !.head = (@ + 1) % q.cap]

\* What the writer thread leaves behind when it takes the first message.
LEMMA PopFacts ==
  ASSUME NEW q, QueueOK(q), q.count > 0, NEW r, r = Popped(q)
  PROVE  /\ QueueOK(r) /\ r.count = q.count - 1 /\ q.slots[q.head] = Nth(q, 0)
         /\ \A i \in 0..q.count - 2 : Nth(r, i) = Nth(q, i + 1)
<1>1. PICK c \in Nat \ {0}, n \in Nat \ {0}, h \in Nat :
        c = q.cap /\ n = q.count /\ h = q.head /\ n <= c /\ h < c
  BY DEF QueueOK
<1>2. h = RingSlot(q, 0)
  <2>1. 0 \in 0..q.cap
    BY <1>1
  <2> QED BY <1>1, <2>1, SlotFacts
<1>a. PICK g \in 0..c - 1 : g = (h + 1) % c /\ g = IF h + 1 < c THEN h + 1 ELSE h + 1 - c
  <2>1. (h + 1) % c = IF h + 1 < c THEN h + 1 ELSE h + 1 - c
    BY <1>1, Wraps
  <2> QED BY <1>1, <2>1
<1>3. /\ r.cap = c /\ r.head = g /\ r.count = n - 1
      /\ r.slots = [q.slots EXCEPT ![h] = Empty]
      /\ r = [slots |-> r.slots, cap |-> r.cap, head |-> r.head, count |-> r.count]
  <2>1. q = [slots |-> q.slots, cap |-> c, head |-> h, count |-> n]
    BY <1>1 DEF QueueOK
  <2>2. r = [slots |-> [q.slots EXCEPT ![h] = Empty], cap |-> c, head |-> g, count |-> n - 1]
    BY <1>1, <1>a, <2>1 DEF Popped
  <2> QED BY <2>2
<1>4. ASSUME NEW i \in 0..n - 2 PROVE RingSlot(r, i) = RingSlot(q, i + 1)
  <2>1. RingSlot(q, i + 1) = IF h + (i + 1) < c THEN h + (i + 1) ELSE h + (i + 1) - c
    <3>1. i + 1 \in 0..q.cap
      BY <1>1
    <3> QED BY <1>1, <3>1, SlotFacts
  <2>2. (g + i) % c = IF g + i < c THEN g + i ELSE g + i - c
    <3>1. g + i \in 0..2 * c - 1 /\ c \in Nat \ {0}
      BY <1>1
    <3>2. \A x \in 0..2 * c - 1 : x % c = IF x < c THEN x ELSE x - c
      BY <3>1, Wraps
    <3> QED BY <3>1, <3>2
  <2>3. (g + i) % c = RingSlot(q, i + 1)
    <3>1. /\ c \in Nat /\ h \in Nat /\ g \in Nat /\ i \in Nat /\ h < c /\ i + 1 < c
          /\ g = IF h + 1 < c THEN h + 1 ELSE h + 1 - c
      BY <1>1, <1>a
    <3>2. (IF g + i < c THEN g + i ELSE g + i - c)
            = IF h + (i + 1) < c THEN h + (i + 1) ELSE h + (i + 1) - c
      BY ONLY <3>1
    <3> QED BY <2>1, <2>2, <3>2
  <2> QED BY <1>3, <2>3 DEF RingSlot
<1>5. /\ \A i \in 0..n - 2 : i + 1 \in 0..n - 1 /\ i + 1 # 0
      /\ \A i \in 0..n - 1 : i = 0 \/ \E j \in 0..n - 2 : i = j + 1
      /\ 0 \in 0..n - 1
  <2>1. \A i \in 0..n - 1 : i # 0 => i - 1 \in 0..n - 2 /\ i = (i - 1) + 1
    BY <1>1
  <2> QED BY <1>1, <2>1
<1>6. /\ \A i \in 0..n - 1 : RingSlot(q, i) \in 0..c - 1
      /\ \A i, j \in 0..n - 1 : RingSlot(q, i) = RingSlot(q, j) => i = j
  <2>1. \A i \in 0..n - 1 : i \in 0..q.cap - 1 /\ i \in 0..q.cap
    BY <1>1
  <2> QED BY <1>1, <2>1, SlotFacts
<1>7. q.slots \in [0..c - 1 -> Items] /\ Empty \in Items
  BY <1>1 DEF QueueOK, Empty, Items
<1>8. /\ r.slots \in [0..c - 1 -> Items] /\ r.slots[h] = Empty
      /\ \A s \in 0..c - 1 : s # h => r.slots[s] = q.slots[s]
  BY <1>1, <1>3, <1>7
<1>9. \A i \in 0..n - 2 : Nth(r, i) = Nth(q, i + 1)
  BY <1>2, <1>4, <1>5, <1>6, <1>8 DEF Nth
<1>10. ASSUME NEW s \in 0..c - 1
       PROVE  r.slots[s] # Empty <=> \E i \in 0..n - 2 : s = RingSlot(r, i)
  <2>1. CASE s = h
    BY <1>2, <1>4, <1>5, <1>6, <1>8, <2>1
  <2>2. CASE s # h
    <3>1. q.slots[s] # Empty <=> \E i \in 0..n - 1 : s = RingSlot(q, i)
      BY <1>1 DEF QueueOK
    <3>2. (\E i \in 0..n - 1 : s = RingSlot(q, i)) <=> \E i \in 0..n - 2 : s = RingSlot(q, i + 1)
      BY <1>2, <1>5, <2>2
    <3> QED BY <1>4, <1>8, <2>2, <3>1, <3>2
  <2> QED BY <2>1, <2>2
<1>11. QueueOK(r)
  <2>1. r.cap \in Nat \ {0} /\ r.head \in 0..r.cap - 1 /\ r.count \in 0..r.cap /\ r.count - 1 = n - 2
    BY <1>1, <1>3
  <2> QED BY <1>3, <1>8, <1>10, <2>1 DEF QueueOK
<1> QED BY <1>1, <1>2, <1>3, <1>9, <1>11 DEF Nth

(* What OrderKept says of a function f from 0..n to messages. *)

Response(f, n) == {i \in 0..n : f[i].prio = "response"}

Ordered(f, n, lo, hi) ==
  /\ lo <= hi
  /\ {f[i].no : i \in Response(f, n)} = lo + 1..hi
  /\ \A i, j \in Response(f, n) : i < j => f[i].no < f[j].no

\* Without a message that is no response.
LEMMA OrderedRemove ==
  ASSUME NEW n \in Nat, NEW k \in 0..n, NEW lo, NEW hi, NEW f, NEW g,
         Ordered(f, n, lo, hi), f[k].prio # "response",
         \A i \in 0..n - 1 : g[i] = IF i < k THEN f[i] ELSE f[i + 1]
  PROVE  Ordered(g, n - 1, lo, hi)
<1> DEFINE up(i) == IF i < k THEN i ELSE i + 1
<1>1. /\ \A i \in 0..n - 1 : up(i) \in 0..n /\ up(i) # k /\ g[i] = f[up(i)]
      /\ \A i, j \in 0..n - 1 : i < j => up(i) < up(j)
  OBVIOUS
<1>2. \A i \in 0..n : i # k => \E j \in 0..n - 1 : up(j) = i
  <2>1. ASSUME NEW i \in 0..n, i < k PROVE i \in 0..n - 1 /\ up(i) = i
    BY <2>1
  <2>2. ASSUME NEW i \in 0..n, ~(i < k), i # k PROVE i - 1 \in 0..n - 1 /\ up(i - 1) = i
    BY <2>2
  <2> QED BY <2>1, <2>2
<1> HIDE DEF up
<1>3. \A i \in Response(g, n - 1) : i \in 0..n - 1 /\ up(i) \in Response(f, n) /\ g[i] = f[up(i)]
  BY <1>1 DEF Response
<1>4. \A i \in Response(f, n) : \E j \in Response(g, n - 1) : up(j) = i
  BY <1>1, <1>2 DEF Response
<1>5. {g[i].no : i \in Response(g, n - 1)} = {f[i].no : i \in Response(f, n)}
  BY <1>3, <1>4
<1>6. ASSUME NEW i \in Response(g, n - 1), NEW j \in Response(g, n - 1), i < j
      PROVE  g[i].no < g[j].no
  <2>1. up(i) < up(j)
    BY <1>1, <1>3, <1>6
  <2> QED BY <1>3, <2>1 DEF Ordered
<1> QED BY <1>5, <1>6 DEF Ordered

\* With another behind them.
LEMMA OrderedAppend ==
  ASSUME NEW n \in Nat, NEW lo \in Nat, NEW hi \in Nat, NEW f, NEW g,
         Ordered(f, n, lo, hi), NEW top \in Nat,
         \A i \in 0..n : g[i] = f[i],
         \/ g[n + 1].prio # "response" /\ top = hi
         \/ g[n + 1].prio = "response" /\ g[n + 1].no = hi + 1 /\ top = hi + 1
  PROVE  Ordered(g, n + 1, lo, top)
<1>1. \A i \in 0..n + 1 : i \in 0..n \/ i = n + 1
  OBVIOUS
<1>2. n + 1 \in 0..n + 1 /\ n + 1 \notin 0..n /\ \A i \in 0..n : i \in 0..n + 1 /\ i < n + 1
  OBVIOUS
<1>3. CASE g[n + 1].prio # "response" /\ top = hi
  <2>1. Response(g, n + 1) = Response(f, n) /\ \A i \in Response(f, n) : g[i] = f[i]
    BY <1>1, <1>2, <1>3 DEF Response
  <2>2. {g[i].no : i \in Response(g, n + 1)} = {f[i].no : i \in Response(f, n)}
    BY <2>1
  <2> QED BY <1>3, <2>1, <2>2 DEF Ordered
<1>4. CASE g[n + 1].prio = "response" /\ g[n + 1].no = hi + 1 /\ top = hi + 1
  <2>1. /\ Response(g, n + 1) = Response(f, n) \cup {n + 1}
        /\ \A i \in Response(f, n) : g[i] = f[i] /\ i \in 0..n
    BY <1>1, <1>2, <1>4 DEF Response
  <2>2. {g[i].no : i \in Response(g, n + 1)} = {f[i].no : i \in Response(f, n)} \cup {hi + 1}
    BY <1>4, <2>1
  <2>3. lo <= hi /\ (lo + 1..hi) \cup {hi + 1} = lo + 1..hi + 1
    BY DEF Ordered
  <2>4. \A i \in Response(f, n) : f[i].no \in lo + 1..hi
    BY DEF Ordered
  <2>5. ASSUME NEW i \in Response(g, n + 1), NEW j \in Response(g, n + 1), i < j
        PROVE  g[i].no < g[j].no
    <3>1. i \in Response(f, n)
      BY <1>2, <2>1, <2>5
    <3>2. CASE j = n + 1
      <4>1. f[i].no \in lo + 1..hi /\ g[i] = f[i] /\ g[j].no = hi + 1
        BY <1>4, <2>1, <2>4, <3>1, <3>2
      <4> QED BY <4>1
    <3>3. CASE j # n + 1
      BY <2>1, <2>5, <3>1, <3>3 DEF Ordered
    <3> QED BY <3>2, <3>3
  <2>6. {g[i].no : i \in Response(g, n + 1)} = lo + 1..top
    BY <1>4, <2>2, <2>3 DEF Ordered
  <2> QED BY <1>4, <2>3, <2>5, <2>6 DEF Ordered
<1> QED BY <1>3, <1>4

\* Without the oldest, which has been written.
LEMMA OrderedWrite ==
  ASSUME NEW n \in Nat, NEW lo \in Nat, NEW hi \in Nat, NEW f, NEW g,
         Ordered(f, n, lo, hi), NEW bottom \in Nat,
         \A i \in 1..n : g[i] = f[i], g[0].prio # "response",
         bottom = IF f[0].prio = "response" THEN lo + 1 ELSE lo
  PROVE  Ordered(g, n, bottom, hi)
<1>1. \A i \in 0..n : i = 0 \/ (i \in 1..n /\ 0 < i)
  OBVIOUS
<1>2. \A i \in 1..n : i \in 0..n /\ i # 0
  OBVIOUS
<1>3. /\ Response(g, n) = Response(f, n) \ {0}
      /\ \A i \in Response(g, n) : g[i] = f[i] /\ 0 < i
  BY <1>1, <1>2 DEF Response
<1>4. \A i, j \in Response(g, n) : i < j => g[i].no < g[j].no
  BY <1>3 DEF Ordered
<1>5. CASE f[0].prio # "response"
  <2>1. Response(g, n) = Response(f, n)
    BY <1>3, <1>5 DEF Response
  <2>2. {g[i].no : i \in Response(g, n)} = {f[i].no : i \in Response(f, n)}
    BY <1>3, <2>1
  <2> QED BY <1>4, <1>5, <2>2 DEF Ordered
<1>6. CASE f[0].prio = "response"
  <2>1. 0 \in Response(f, n)
    BY <1>6 DEF Response
  <2>2. \A i \in Response(f, n) : f[i].no \in lo + 1..hi
    BY DEF Ordered
  <2>3. \A x \in lo + 1..hi : \E i \in Response(f, n) : f[i].no = x
    BY DEF Ordered
  <2>4. \A i \in Response(g, n) : f[0].no < f[i].no /\ i \in Response(f, n)
    BY <1>3, <2>1 DEF Ordered
  <2>5. f[0].no = lo + 1
    <3>1. lo + 1 \in lo + 1..hi
      BY <2>1, <2>2
    <3>2. PICK i \in Response(f, n) : f[i].no = lo + 1
      BY <2>3, <3>1
    <3>3. CASE i = 0
      BY <3>2, <3>3
    <3>4. CASE i # 0
      BY <1>3, <2>1, <2>2, <2>4, <3>2, <3>4
    <3> QED BY <3>3, <3>4
  <2>6. ASSUME NEW x \in {g[i].no : i \in Response(g, n)} PROVE x \in lo + 2..hi
    BY <1>3, <2>2, <2>4, <2>5
  <2>7. ASSUME NEW x \in lo + 2..hi PROVE x \in {g[i].no : i \in Response(g, n)}
    <3>1. x \in lo + 1..hi /\ x # lo + 1
      OBVIOUS
    <3>2. PICK i \in Response(f, n) : f[i].no = x
      BY <2>3, <3>1
    <3>3. i \in Response(g, n)
      BY <1>3, <2>5, <3>1, <3>2
    <3> QED BY <1>3, <3>2, <3>3
  <2>8. {g[i].no : i \in Response(g, n)} = lo + 2..hi
    BY <2>6, <2>7
  <2>9. bottom = lo + 1 /\ lo + 1 <= hi /\ bottom + 1 = lo + 2
    BY <1>6, <2>1, <2>2
  <2> QED BY <1>4, <2>8, <2>9 DEF Ordered
<1> QED BY <1>5, <1>6

\* The messages with the writer and in the queue, as such a function.
Line(m, q) == [i \in 0..q.count |-> IF i = 0 THEN m ELSE Nth(q, i - 1)]

\* OrderKept as a statement about the line of messages.
LEMMA LineOrder ==
  ASSUME NEW m, NEW q, NEW lo, NEW hi, q.count \in Nat
  PROVE  LET M(i) == IF i = 0 THEN m ELSE q.slots[RingSlot(q, i - 1)]
             U == {i \in 0..q.count : M(i).prio = "response"}
         IN  Ordered(Line(m, q), q.count, lo, hi) <=>
               /\ lo <= hi
               /\ {M(i).no : i \in U} = lo + 1..hi
               /\ \A i, j \in U : i < j => M(i).no < M(j).no
<1> DEFINE M(i) == IF i = 0 THEN m ELSE q.slots[RingSlot(q, i - 1)]
           U == {i \in 0..q.count : M(i).prio = "response"}
<1>1. \A i \in 0..q.count : Line(m, q)[i] = M(i)
  BY DEF Line, Nth
<1> HIDE DEF M
<1>2. U = Response(Line(m, q), q.count)
  BY <1>1 DEF Response
<1>3. \A i \in U : Line(m, q)[i] = M(i)
  BY <1>1
<1> HIDE DEF U
<1>4. {M(i).no : i \in U} = {Line(m, q)[i].no : i \in U}
  BY <1>3
<1>5. Ordered(Line(m, q), q.count, lo, hi) <=>
               /\ lo <= hi
               /\ {M(i).no : i \in U} = lo + 1..hi
               /\ \A i, j \in U : i < j => M(i).no < M(j).no
  BY <1>2, <1>3, <1>4 DEF Ordered
<1> QED BY <1>5 DEF M, U

\* OrderKept, now and in the next state, in those terms.
LEMMA OrderIs ==
  ASSUME ring.count \in Nat
  PROVE  OrderKept <=>
           (sink /\ ~oom => Ordered(Line(writer.item, ring), ring.count, written, queued))
BY LineOrder DEF OrderKept, Message, Unwritten

LEMMA OrderIsNext ==
  ASSUME ring'.count \in Nat
  PROVE  OrderKept' <=>
           (sink' /\ ~oom' => Ordered(Line(writer'.item, ring'), ring'.count, written', queued'))
BY LineOrder DEF OrderKept, Message, Unwritten

\* A nonempty set of numbers has a least one.
LEMMA LeastElement ==
  ASSUME NEW S, S \subseteq Nat, S # {}
  PROVE  \E x \in S : \A y \in S : x <= y
<1>1. \E x \in S : \A y \in S : ~ (<<y, x>> \in OpToRel(<, Nat))
  BY NatLessThanWellFounded, WFMin, Zenon
<1>2. PICK x \in S : \A y \in S : ~ (<<y, x>> \in OpToRel(<, Nat))
  BY <1>1, Zenon
<1>3. x \in S
  BY <1>2, Zenon
<1>4. \A y \in S : <<y, x>> \in Nat \X Nat /\ ~(y < x)
  BY <1>2, <1>3 DEF OpToRel
<1>5. \A y \in S : x <= y
  <2>1. x \in Nat /\ \A y \in S : y \in Nat /\ ~(y < x)
    BY <1>3, <1>4
  <2> QED BY <2>1
<1> QED BY <1>3, <1>5

\* A full queue gives up its oldest log message, if it has any; it was the only
\* one if the queue is longer than its capacity.
LEMMA MakeRoomFacts ==
  ASSUME WriterAssumption, NEW q, QueueOK(q), FewLogs(q), NEW r, r = MakeRoom(q)
  PROVE  /\ QueueOK(r)
         /\ \/ r = q /\ (q.count < Capacity \/ Logs(q) = {})
            \/ \E k \in 0..q.count - 1 :
                 /\ r = RemoveLogical(q, k) /\ Nth(q, k).prio = "log"
                 /\ q.count > Capacity => Logs(r) = {}
<1>0. q.count \in Nat /\ Capacity \in Nat
  BY DEF QueueOK, WriterAssumption
<1>1. CASE ~(q.count >= Capacity /\ Logs(q) # {})
  BY <1>0, <1>1 DEF MakeRoom
<1>2. CASE q.count >= Capacity /\ Logs(q) # {}
  <2>1. Logs(q) \subseteq Nat
    BY <1>0 DEF Logs
  <2>2. OldestLog(q) \in Logs(q)
    BY <1>2, <2>1, LeastElement DEF OldestLog
  <2>3. PICK k \in 0..q.count - 1 : k \in Logs(q) /\ r = RemoveLogical(q, k)
    BY <1>2, <2>2 DEF Logs, MakeRoom
  <2>4. /\ QueueOK(r) /\ r.count = q.count - 1
        /\ \A i \in 0..q.count - 2 : Nth(r, i) = IF i < k THEN Nth(q, i) ELSE Nth(q, i + 1)
    BY <2>3, RemoveFacts
  <2>5. Nth(q, k).prio = "log"
    BY <2>3 DEF Logs, Nth
  <2>6. ASSUME q.count > Capacity PROVE Logs(r) = {}
    <3>1. \A j \in Logs(q) : j = k
      BY <2>3, <2>6 DEF FewLogs
    <3>2. ASSUME NEW i \in Logs(r) PROVE FALSE
      <4>1. i \in 0..q.count - 2 /\ Nth(r, i).prio = "log"
        BY <1>0, <2>4 DEF Logs, Nth
      <4>2. CASE i < k
        <5>1. i \in Logs(q)
          BY <1>0, <2>4, <4>1, <4>2 DEF Logs, Nth
        <5> QED BY <1>0, <3>1, <4>1, <4>2, <5>1
      <4>3. CASE ~(i < k)
        <5>1. i + 1 \in Logs(q)
          BY <1>0, <2>4, <4>1, <4>3 DEF Logs, Nth
        <5> QED BY <1>0, <3>1, <4>1, <4>3, <5>1
      <4> QED BY <4>2, <4>3
    <3> QED BY <3>2
  <2> QED BY <2>3, <2>4, <2>5, <2>6
<1> QED BY <1>1, <1>2

\* The queue with a message behind the others, after it gave one up and grew.
LEMMA EnqueueFacts ==
  ASSUME WriterAssumption, NEW q, QueueOK(q), FewLogs(q), NEW m \in Items, m # Empty,
         NEW r, r = MakeRoom(q),
         NEW t, t = Insert(IF r.count >= r.cap THEN Grow(r) ELSE r, m)
  PROVE  /\ QueueOK(t) /\ t.count = r.count + 1 /\ FewLogs(t)
         /\ \A i \in 0..r.count - 1 : Nth(t, i) = Nth(r, i)
         /\ Nth(t, r.count) = m
<1>1. QueueOK(r)
  BY MakeRoomFacts
<1>2. PICK g : g = IF r.count >= r.cap THEN Grow(r) ELSE r
  OBVIOUS
<1>3. /\ QueueOK(g) /\ g.count = r.count /\ g.count < g.cap
      /\ \A i \in 0..r.count - 1 : Nth(g, i) = Nth(r, i)
  <2>1. CASE r.count >= r.cap
    BY <1>1, <1>2, <2>1, GrowFacts
  <2>2. CASE ~(r.count >= r.cap)
    <3>1. r.count \in Nat /\ r.cap \in Nat
      BY <1>1 DEF QueueOK
    <3> QED BY <1>1, <1>2, <2>2, <3>1
  <2> QED BY <2>1, <2>2
<1>4. /\ QueueOK(t) /\ t.count = g.count + 1
      /\ \A i \in 0..g.count - 1 : Nth(t, i) = Nth(g, i)
      /\ Nth(t, g.count) = m
  <2>1. t = Insert(g, m)
    BY <1>2
  <2> QED BY <1>3, <2>1, InsertFacts
<1>5. \A i \in 0..r.count - 1 : Nth(t, i) = Nth(r, i)
  BY <1>3, <1>4
<1>6. FewLogs(t)
  <2>0. r.count \in Nat /\ q.count \in Nat /\ Capacity \in Nat \ {0}
    BY <1>1 DEF QueueOK, WriterAssumption
  <2>1. SUFFICES ASSUME t.count > Capacity PROVE \A i, j \in Logs(t) : i = j
    BY DEF FewLogs
  <2>2. Logs(r) = {}
    <3>1. CASE r = q /\ (q.count < Capacity \/ Logs(q) = {})
      BY <1>3, <1>4, <2>0, <2>1, <3>1
    <3>2. ASSUME NEW k \in 0..q.count - 1, r = RemoveLogical(q, k),
                 q.count > Capacity => Logs(r) = {}
          PROVE  Logs(r) = {}
      <4>1. r.count = q.count - 1
        BY <3>2, RemoveFacts
      <4> QED BY <1>3, <1>4, <2>0, <2>1, <3>2, <4>1
    <3> QED BY <3>1, <3>2, MakeRoomFacts
  <2>3. ASSUME NEW i \in Logs(t) PROVE i = r.count
    <3>1. i \in 0..r.count /\ Nth(t, i).prio = "log"
      BY <1>3, <1>4, <2>0 DEF Logs, Nth
    <3>2. CASE i \in 0..r.count - 1
      BY <1>5, <2>2, <3>1, <3>2 DEF Logs, Nth
    <3> QED BY <2>0, <3>1, <3>2
  <2> QED BY <2>3
<1> QED BY <1>3, <1>4, <1>5, <1>6

\* Making room takes no response from the line.
LEMMA LineMakeRoom ==
  ASSUME WriterAssumption, NEW q, QueueOK(q), FewLogs(q), NEW r, r = MakeRoom(q),
         NEW w, NEW lo, NEW hi, Ordered(Line(w, q), q.count, lo, hi)
  PROVE  Ordered(Line(w, r), r.count, lo, hi)
<1>0. q.count \in Nat
  BY DEF QueueOK
<1>1. CASE r = q
  BY <1>1
<1>2. ASSUME NEW k \in 0..q.count - 1, r = RemoveLogical(q, k), Nth(q, k).prio = "log"
      PROVE  Ordered(Line(w, r), r.count, lo, hi)
  <2>1. /\ r.count = q.count - 1
        /\ \A i \in 0..q.count - 2 : Nth(r, i) = IF i < k THEN Nth(q, i) ELSE Nth(q, i + 1)
    BY <1>2, RemoveFacts
  <2>2. k + 1 \in 0..q.count /\ k + 1 # 0 /\ k + 1 - 1 = k
    BY <1>0
  <2>3. Line(w, q)[k + 1].prio # "response"
    BY <1>2, <2>2 DEF Line
  <2>4. ASSUME NEW i \in 0..q.count - 1
        PROVE  Line(w, r)[i] = IF i < k + 1 THEN Line(w, q)[i] ELSE Line(w, q)[i + 1]
    <3>1. i \in 0..r.count /\ i \in 0..q.count /\ i + 1 \in 0..q.count /\ i + 1 # 0 /\ i + 1 - 1 = i
      BY <1>0, <2>1
    <3>2. CASE i = 0
      BY <1>0, <3>1, <3>2 DEF Line
    <3>3. CASE i # 0
      <4>1. /\ i - 1 \in 0..q.count - 2 /\ (i - 1 < k <=> i < k + 1) /\ (i - 1) + 1 = i
        BY <1>0, <3>3
      <4>2. Nth(r, i - 1) = IF i < k + 1 THEN Nth(q, i - 1) ELSE Nth(q, i)
        BY <2>1, <4>1
      <4>3. /\ Line(w, r)[i] = Nth(r, i - 1)
            /\ Line(w, q)[i] = Nth(q, i - 1) /\ Line(w, q)[i + 1] = Nth(q, i)
        BY <3>1, <3>3 DEF Line
      <4> QED BY <4>2, <4>3
    <3> QED BY <3>2, <3>3
  <2> QED BY <1>0, <2>1, <2>2, <2>3, <2>4, OrderedRemove
<1> QED BY <1>1, <1>2, MakeRoomFacts

\* ilsp_writer_enqueue keeps the order, whichever way it makes room.
LEMMA EnqueueKeeps ==
  ASSUME WriterAssumption, WriterInv, NEW prio \in {"response", "log"}, WriterEnqueue(prio)
  PROVE  WriterInv'
<1>1. PICK q : q = MakeRoom(ring)
  OBVIOUS
<1>2. PICK m : m = [prio |-> prio, no |-> IF prio = "log" THEN 0 ELSE queued + 1]
  OBVIOUS
<1>3. /\ main \in {"read", "join_workers"} /\ main' = main /\ flag' = flag /\ sink' = sink
      /\ sent' = sent + 1 /\ written' = written
      /\ queued' = IF prio = "log" THEN queued ELSE queued + 1
  BY DEF WriterEnqueue
<1>4. \/ /\ ring' = Insert(IF q.count >= q.cap THEN Grow(q) ELSE q, m)
         /\ writer' = Wake /\ UNCHANGED <<oom, faults>>
      \/ /\ oom' = TRUE /\ ring' = q /\ faults' = faults + 1 /\ writer' = writer
  BY <1>1, <1>2, Zenon DEF WriterEnqueue
<1>5. m \in Items /\ m # Empty /\ m.prio = prio /\ (prio = "response" => m.no = queued + 1)
  BY <1>2 DEF Items, Empty, WriterInv, WriterTypeOK
<1>6. QueueOK(q) /\ FewLogs(q) /\ q.count \in Nat
  <2>1. QueueOK(q)
    BY <1>1, MakeRoomFacts DEF WriterInv
  <2>2. FewLogs(q)
    <3>1. CASE q = ring
      BY <3>1 DEF WriterInv
    <3>2. ASSUME NEW k \in 0..ring.count - 1, q = RemoveLogical(ring, k),
                 ring.count > Capacity => Logs(q) = {}
          PROVE  FewLogs(q)
      <4>1. q.count = ring.count - 1
        BY <3>2, RemoveFacts DEF WriterInv
      <4>2. ring.count \in Nat /\ Capacity \in Nat
        BY DEF WriterInv, QueueOK, WriterAssumption
      <4> QED BY <3>2, <4>1, <4>2 DEF FewLogs
    <3> QED BY <1>1, <3>1, <3>2, MakeRoomFacts DEF WriterInv
  <2> QED BY <2>1, <2>2 DEF QueueOK
<1>7. /\ QueueOK(ring') /\ FewLogs(ring)'
      /\ writer' = Wake \/ writer' = writer
      /\ oom' \in BOOLEAN /\ faults' \in Nat
  <2>1. CASE /\ ring' = Insert(IF q.count >= q.cap THEN Grow(q) ELSE q, m)
             /\ writer' = Wake /\ UNCHANGED <<oom, faults>>
    <3>1. QueueOK(ring') /\ FewLogs(ring')
      BY <1>1, <1>5, <2>1, EnqueueFacts DEF WriterInv
    <3> QED BY <2>1, <3>1 DEF FewLogs, Logs, RingSlot, WriterInv, WriterTypeOK
  <2>2. CASE /\ oom' = TRUE /\ ring' = q /\ faults' = faults + 1 /\ writer' = writer
    BY <1>6, <2>2 DEF FewLogs, Logs, RingSlot, WriterInv, WriterTypeOK
  <2> QED BY <1>4, <2>1, <2>2
<1>8. /\ writer' \in [at: {"loop", "wait", "write", "exited"}, item: Items]
      /\ writer'.item = writer.item
      /\ writer'.at = "write" <=> writer.at = "write"
      /\ writer'.at = "exited" <=> writer.at = "exited"
  BY <1>7 DEF Wake, WriterInv, WriterTypeOK
<1>9. WriterTypeOK'
  <2>1. /\ main \in {"read", "join_workers"} /\ flag \in BOOLEAN /\ sink \in BOOLEAN
        /\ sent \in Nat /\ queued \in Nat /\ written \in Nat
        /\ writer.at = "write" <=> writer.item # Empty
    BY <1>3 DEF WriterInv, WriterTypeOK
  <2>2. sent' \in Nat /\ queued' \in Nat /\ written' \in Nat
    BY <1>3, <2>1
  <2>3. writer'.at = "write" <=> writer'.item # Empty
    BY <1>8, <2>1
  <2>4. /\ ring'.cap \in Nat \ {0} /\ ring'.head \in 0..ring'.cap - 1
        /\ ring'.count \in 0..ring'.cap /\ ring'.slots \in [0..ring'.cap - 1 -> Items]
        /\ \A s \in 0..ring'.cap - 1 :
             ring'.slots[s] # Empty <=> \E i \in 0..ring'.count - 1 : s = RingSlot(ring', i)
    BY <1>7 DEF QueueOK
  <2> QED BY <1>3, <1>7, <1>8, <2>1, <2>2, <2>3, <2>4 DEF WriterTypeOK, RingSlot
<1>10. Stopping'
  BY <1>3, <1>8 DEF WriterInv, Stopping
<1>11. OrderKept'
  <2>0. ring.count \in Nat /\ ring'.count \in Nat /\ written \in Nat /\ queued \in Nat
    BY <1>7 DEF WriterInv, QueueOK, WriterTypeOK
  <2>1. SUFFICES ASSUME sink', ~oom'
                 PROVE  Ordered(Line(writer'.item, ring'), ring'.count, written', queued')
    BY <2>0, OrderIsNext
  <2>2. /\ ring' = Insert(IF q.count >= q.cap THEN Grow(q) ELSE q, m)
        /\ oom' = oom
    BY <1>4, <2>1
  <2>3. Ordered(Line(writer.item, ring), ring.count, written, queued)
    BY <1>3, <2>0, <2>1, <2>2, OrderIs DEF WriterInv
  <2>4. Ordered(Line(writer.item, q), q.count, written, queued)
    BY <1>1, <2>3, LineMakeRoom DEF WriterInv
  <2>5. /\ ring'.count = q.count + 1
        /\ \A i \in 0..q.count - 1 : Nth(ring', i) = Nth(q, i)
        /\ Nth(ring', q.count) = m
    BY <1>1, <1>5, <2>2, EnqueueFacts DEF WriterInv
  <2> DEFINE f == Line(writer.item, q)
             g == Line(writer'.item, ring')
  <2>6. ASSUME NEW i \in 0..q.count PROVE g[i] = f[i]
    <3>1. i \in 0..ring'.count
      BY <1>6, <2>5
    <3>2. CASE i = 0
      BY <1>8, <3>1, <3>2 DEF Line
    <3>3. CASE i # 0
      <4>1. i - 1 \in 0..q.count - 1
        BY <1>6, <3>3
      <4> QED BY <2>5, <3>1, <3>3, <4>1 DEF Line
    <3> QED BY <3>2, <3>3
  <2>7. g[q.count + 1] = m
    <3>1. PICK x \in 0..ring'.count : x = q.count + 1 /\ x # 0 /\ x - 1 = q.count
      BY <1>6, <2>5
    <3>2. g[x] = Nth(ring', x - 1)
      BY <3>1 DEF Line
    <3> QED BY <2>5, <3>1, <3>2
  <2>8. /\ queued' \in Nat
        /\ \/ g[q.count + 1].prio # "response" /\ queued' = queued
           \/ g[q.count + 1].prio = "response" /\ g[q.count + 1].no = queued + 1 /\ queued' = queued + 1
    BY <1>3, <1>5, <2>0, <2>7
  <2> HIDE DEF f, g
  <2>9. Ordered(g, q.count + 1, written, queued')
    BY <1>6, <2>0, <2>4, <2>6, <2>8, OrderedAppend DEF f
  <2> QED BY <1>3, <2>5, <2>9 DEF g
<1> QED BY <1>7, <1>9, <1>10, <1>11 DEF WriterInv

\* The writer thread takes the first message, or finds none.
LEMMA TakeKeeps ==
  ASSUME WriterAssumption, WriterInv, Take
  PROVE  WriterInv'
<1>1. /\ writer.at = "loop" /\ main \notin {"exited", "returned"}
      /\ UNCHANGED <<main, flag, sink, sent, queued, written, oom, faults>>
  BY DEF Take, Alive
<1>2. /\ QueueOK(ring) /\ ring.count \in Nat /\ writer.item = Empty /\ written \in Nat /\ queued \in Nat
      /\ writer \in [at: {"loop", "wait", "write", "exited"}, item: Items]
  BY <1>1 DEF WriterInv, QueueOK, WriterTypeOK
<1>3. CASE ring.count > 0
  <2>1. writer' = [at |-> "write", item |-> Nth(ring, 0)] /\ ring' = Popped(ring)
    BY <1>2, <1>3, PopFacts DEF Take, Popped
  <2>2. /\ QueueOK(ring') /\ ring'.count = ring.count - 1
        /\ \A i \in 0..ring.count - 2 : Nth(ring', i) = Nth(ring, i + 1)
    BY <1>2, <1>3, <2>1, PopFacts
  <2>3. Nth(ring, 0) \in Items /\ Nth(ring, 0) # Empty
    BY <1>2, <1>3, NthFacts
  <2>4. WriterTypeOK'
    BY <1>1, <2>1, <2>2, <2>3 DEF WriterInv, WriterTypeOK, QueueOK, RingSlot
  <2>5. Stopping'
    BY <1>1, <2>1 DEF WriterInv, Stopping
  <2>6. FewLogs(ring)'
    <3>1. SUFFICES ASSUME ring'.count > Capacity, NEW i \in Logs(ring'), NEW j \in Logs(ring')
                   PROVE  i = j
      BY DEF FewLogs, Logs, RingSlot
    <3>2. \A k \in Logs(ring') : k \in Nat /\ k + 1 \in Logs(ring)
      <4>1. ASSUME NEW k \in Logs(ring') PROVE k \in Nat /\ k + 1 \in Logs(ring)
        <5>1. k \in 0..ring.count - 2 /\ Nth(ring', k).prio = "log" /\ k + 1 \in 0..ring.count - 1
          BY <1>2, <2>2 DEF Logs, Nth
        <5>2. Nth(ring, k + 1).prio = "log"
          BY <2>2, <5>1
        <5> QED BY <5>1, <5>2 DEF Logs, Nth
      <4> QED BY <4>1
    <3>3. i + 1 = j + 1
      <4>1. ring.count > Capacity
        BY <1>2, <2>2, <3>1 DEF WriterAssumption
      <4>2. \A k, l \in Logs(ring) : ring.count > Capacity => k = l
        BY DEF WriterInv, FewLogs
      <4> QED BY <3>2, <4>1, <4>2
    <3> QED BY <3>2, <3>3
  <2>7. OrderKept'
    <3>1. SUFFICES ASSUME sink', ~oom'
                   PROVE  Ordered(Line(writer'.item, ring'), ring'.count, written', queued')
      BY <1>2, <1>3, <2>2, OrderIsNext
    <3>2. Ordered(Line(Empty, ring), ring.count, written, queued)
      BY <1>1, <1>2, <3>1, OrderIs DEF WriterInv
    <3> DEFINE f == Line(Empty, ring)
               g == Line(Nth(ring, 0), ring')
    <3>3. f[0].prio # "response"
      BY <1>2 DEF Line, Empty
    <3>4. ASSUME NEW i \in 0..ring.count - 1 PROVE g[i] = f[i + 1]
      <4>1. i \in 0..ring'.count /\ i + 1 \in 0..ring.count /\ i + 1 # 0 /\ i + 1 - 1 = i
        BY <1>2, <2>2
      <4>2. f[i + 1] = Nth(ring, i)
        BY <4>1 DEF Line
      <4>3. CASE i = 0
        BY <4>1, <4>2, <4>3 DEF Line
      <4>4. CASE i # 0
        <5>1. i - 1 \in 0..ring.count - 2 /\ (i - 1) + 1 = i
          BY <1>2, <4>4
        <5>2. g[i] = Nth(ring', i - 1)
          BY <4>1, <4>4 DEF Line
        <5> QED BY <2>2, <4>2, <5>1, <5>2
      <4> QED BY <4>3, <4>4
    <3> HIDE DEF f, g
    <3>5. 0 \in 0..ring.count /\ \A i \in 0..ring.count - 1 : ~(i < 0)
      BY <1>2
    <3>6. \A i \in 0..ring.count - 1 : g[i] = IF i < 0 THEN f[i] ELSE f[i + 1]
      BY <3>4, <3>5
    <3>7. Ordered(g, ring.count - 1, written, queued)
      BY <1>2, <3>2, <3>3, <3>5, <3>6, OrderedRemove DEF f
    <3> QED BY <1>1, <2>1, <2>2, <3>7 DEF g
  <2> QED BY <2>2, <2>4, <2>5, <2>6, <2>7 DEF WriterInv
<1>4. CASE ~(ring.count > 0)
  <2>1. ring' = ring /\ writer' = [writer EXCEPT !.at = IF flag THEN "exited" ELSE "wait"]
    BY <1>4 DEF Take
  <2>2. /\ writer' \in [at: {"loop", "wait", "write", "exited"}, item: Items]
        /\ writer'.item = writer.item /\ writer'.at = IF flag THEN "exited" ELSE "wait"
    BY <1>2, <2>1
  <2>3. WriterTypeOK'
    BY <1>1, <1>2, <2>1, <2>2 DEF WriterInv, WriterTypeOK, RingSlot
  <2>4. Stopping'
    BY <1>1, <1>2, <1>4, <2>1, <2>2 DEF WriterInv, Stopping
  <2>5. OrderKept'
    BY <1>1, <2>1, <2>2 DEF WriterInv, OrderKept, Unwritten, Message, RingSlot
  <2>6. FewLogs(ring)'
    BY <2>1 DEF WriterInv, FewLogs, Logs, RingSlot
  <2> QED BY <2>1, <2>3, <2>4, <2>5, <2>6 DEF WriterInv
<1> QED BY <1>3, <1>4

\* The writer thread writes the message it holds.
LEMMA WriteKeeps ==
  ASSUME WriterInv, Write
  PROVE  WriterInv'
<1>1. /\ main \notin {"exited", "returned"} /\ writer.at = "write"
      /\ written' = IF sink /\ writer.item.prio # "log" THEN written + 1 ELSE written
      /\ flag' = (flag \/ ~sink)
      /\ writer' = [at |-> "loop", item |-> Empty]
      /\ UNCHANGED <<main, ring, sink, sent, queued, oom, faults>>
  BY DEF Write, Alive
<1>2. QueueOK(ring) /\ ring.count \in Nat /\ written \in Nat /\ queued \in Nat /\ flag \in BOOLEAN /\ sink \in BOOLEAN
  BY DEF WriterInv, QueueOK, WriterTypeOK
<1>3. Empty \in Items /\ Empty.prio = "none"
  BY DEF Empty, Items
<1>4. WriterTypeOK'
  <2>1. writer' \in [at: {"loop", "wait", "write", "exited"}, item: Items] /\ writer'.at = "loop" /\ writer'.item = Empty
    BY <1>1, <1>3
  <2>2. written' \in Nat /\ flag' \in BOOLEAN
    BY <1>1, <1>2
  <2> QED BY <1>1, <2>1, <2>2 DEF WriterInv, WriterTypeOK, RingSlot
<1>5. Stopping'
  BY <1>1, <1>2 DEF WriterInv, Stopping
<1>6. FewLogs(ring)'
  BY <1>1 DEF WriterInv, FewLogs, Logs, RingSlot
<1>7. OrderKept'
  <2>1. SUFFICES ASSUME sink', ~oom'
                 PROVE  Ordered(Line(Empty, ring), ring.count, written', queued)
    BY <1>1, <1>2, OrderIsNext
  <2>2. Ordered(Line(writer.item, ring), ring.count, written, queued)
    BY <1>1, <1>2, <2>1, OrderIs DEF WriterInv
  <2> DEFINE f == Line(writer.item, ring)
             g == Line(Empty, ring)
  <2>3. f[0] = writer.item /\ g[0] = Empty /\ \A i \in 1..ring.count : g[i] = f[i]
    BY <1>2 DEF Line
  <2>4. writer.item.prio # "log" <=> writer.item.prio = "response"
    BY <1>1 DEF WriterInv, WriterTypeOK, Items
  <2>5. written' \in Nat /\ written' = IF f[0].prio = "response" THEN written + 1 ELSE written
    BY <1>1, <1>2, <2>1, <2>3, <2>4
  <2>6. g[0].prio # "response"
    BY <1>3, <2>3
  <2> HIDE DEF f, g
  <2>7. Ordered(g, ring.count, written', queued)
    BY <1>2, <2>2, <2>3, <2>5, <2>6, OrderedWrite DEF f
  <2> QED BY <2>7 DEF g
<1> QED BY <1>1, <1>2, <1>4, <1>5, <1>6, <1>7 DEF WriterInv

\* The client's closing and the end of the process leave the queue alone.
LEMMA EndKeeps ==
  ASSUME WriterInv,
         SinkCloses \/ HandleExit \/ Eof \/ WorkersJoined \/ StopWriter \/ WakeWriter \/ WriterJoined
  PROVE  WriterInv'
<1>1. /\ UNCHANGED <<ring, sent, queued, written, oom>>
      /\ writer' = writer \/ writer' = Wake
  BY DEF SinkCloses, HandleExit, Eof, WorkersJoined, StopWriter, WakeWriter, WriterJoined
<1>2. /\ writer' \in [at: {"loop", "wait", "write", "exited"}, item: Items]
      /\ writer'.item = writer.item
      /\ writer'.at = "write" <=> writer.at = "write"
      /\ writer'.at = "exited" <=> writer.at = "exited"
  BY <1>1 DEF Wake, WriterInv, WriterTypeOK
<1>3. /\ main' \in {"read", "join_workers", "stop_writer", "wake_writer", "join_writer",
                    "exited", "returned"}
      /\ flag' \in BOOLEAN /\ sink' \in BOOLEAN /\ faults' \in Nat
      /\ sink' => sink
  <2>1. /\ main \in {"read", "join_workers", "stop_writer", "wake_writer", "join_writer",
                     "exited", "returned"}
        /\ flag \in BOOLEAN /\ sink \in BOOLEAN /\ faults \in Nat
    BY DEF WriterInv, WriterTypeOK
  <2>2. main' \in {"read", "join_workers", "stop_writer", "wake_writer", "join_writer",
                   "exited", "returned"}
    BY <2>1 DEF SinkCloses, HandleExit, Eof, WorkersJoined, StopWriter, WakeWriter,
           WriterJoined
  <2>3. (flag' = flag \/ flag' = TRUE) /\ (sink' = sink \/ sink' = FALSE)
    BY DEF SinkCloses, HandleExit, Eof, WorkersJoined, StopWriter, WakeWriter,
           WriterJoined
  <2>4. faults' = faults \/ faults' = faults + 1
    BY DEF SinkCloses, HandleExit, Eof, WorkersJoined, StopWriter, WakeWriter,
           WriterJoined
  <2>5. flag' \in BOOLEAN /\ sink' \in BOOLEAN
    BY <2>1, <2>3
  <2>7. ASSUME sink' PROVE sink
    BY <2>3, <2>7
  <2>6. faults' \in Nat
    BY <2>1, <2>4
  <2> QED BY <2>2, <2>5, <2>6, <2>7
<1>4. WriterTypeOK'
  BY <1>1, <1>2, <1>3 DEF WriterInv, WriterTypeOK, RingSlot
<1>5. Stopping'
  BY <1>1, <1>2 DEF SinkCloses, HandleExit, Eof, WorkersJoined, StopWriter, WakeWriter,
                    WriterJoined, WriterInv, Stopping, WriterTypeOK, Alive
<1>6. OrderKept'
  BY <1>1, <1>2, <1>3 DEF WriterInv, OrderKept, Unwritten, Message, RingSlot
<1>7. FewLogs(ring)'
  BY <1>1 DEF WriterInv, FewLogs, Logs, RingSlot
<1> QED BY <1>1, <1>4, <1>5, <1>6, <1>7 DEF WriterInv

\* The invariant holds at the start and is kept by every step.
LEMMA WriterInvInit == ASSUME WriterAssumption, WriterInit PROVE WriterInv
<1>1. Empty \in Items /\ Empty.prio = "none"
  BY DEF Empty, Items
<1>2. /\ ring.cap = Capacity /\ ring.head = 0 /\ ring.count = 0 /\ Capacity \in Nat \ {0}
      /\ ring.slots = [i \in 0..Capacity - 1 |-> Empty]
      /\ ring = [slots |-> ring.slots, cap |-> ring.cap, head |-> ring.head, count |-> ring.count]
  BY DEF WriterInit, WriterAssumption
<1>3. QueueOK(ring)
  BY <1>1, <1>2 DEF QueueOK
<1>4. /\ writer.at = "loop" /\ writer.item = Empty
      /\ writer \in [at: {"loop", "wait", "write", "exited"}, item: Items]
      /\ written = 0 /\ queued = 0
  BY <1>1 DEF WriterInit
<1>5. WriterTypeOK
  <2>1. /\ main = "read" /\ flag = FALSE /\ sink = TRUE /\ oom = FALSE
        /\ sent = 0 /\ faults = 0
    BY DEF WriterInit
  <2> QED BY <1>3, <1>4, <2>1 DEF WriterTypeOK, QueueOK
<1>6. FewLogs(ring) /\ Stopping
  BY <1>2, <1>4 DEF FewLogs, Stopping, WriterInit
<1>7. OrderKept
  <2>1. Unwritten = {}
    BY <1>1, <1>2, <1>4 DEF Unwritten, Message
  <2>2. 1..0 = {} /\ 0 + 1 = 1 /\ 0 <= 0
    OBVIOUS
  <2> QED BY <1>4, <2>1, <2>2 DEF OrderKept
<1> QED BY <1>3, <1>5, <1>6, <1>7 DEF WriterInv

LEMMA WriterStep == ASSUME WriterAssumption, WriterInv, [WriterNext]_WriterVars PROVE WriterInv'
<1>1. CASE UNCHANGED WriterVars
  BY <1>1 DEF WriterVars, WriterInv, WriterTypeOK, QueueOK, OrderKept, FewLogs, Stopping, RingSlot, Logs,
              Unwritten, Message
<1>2. CASE WriterNext
  <2>1. \/ \E prio \in {"response", "log"} : WriterEnqueue(prio)
        \/ Take \/ Write
        \/ SinkCloses \/ HandleExit \/ Eof \/ WorkersJoined \/ StopWriter \/ WakeWriter
        \/ WriterJoined
    BY <1>2, Zenon DEF WriterNext
  <2> QED BY <2>1, EnqueueKeeps, TakeKeeps, WriteKeeps, EndKeeps
<1> QED BY <1>1, <1>2

\* What the invariant says of the queue.
LEMMA QueueFollows ==
  ASSUME WriterAssumption, WriterInv
  PROVE  QueueKept /\ DrainedAtEof
<1>1. LogsYield
  <2>1. SUFFICES ASSUME ring.count > Capacity PROVE Cardinality(Logs(ring)) <= 1
    BY DEF LogsYield
  <2>2. \A i, j \in Logs(ring) : i = j
    BY <2>1 DEF WriterInv, FewLogs
  <2>3. CASE Logs(ring) = {}
    BY <2>3, FS_EmptySet
  <2>4. CASE Logs(ring) # {}
    <3>1. PICK k : Logs(ring) = {k}
      BY <2>2, <2>4
    <3>2. Cardinality(Logs(ring)) = 1
      BY <3>1, FS_Singleton
    <3> QED BY <3>2
  <2> QED BY <2>3, <2>4
<1>2. DrainedAtEof
  <2>1. SUFFICES ASSUME main = "returned", sink, ~oom PROVE written = queued
    BY DEF DrainedAtEof
  <2>2. ring.count = 0 /\ writer.item = Empty
    BY <2>1 DEF WriterInv, Stopping, WriterTypeOK
  <2>3. Unwritten = {}
    BY <2>2 DEF Unwritten, Message, Empty
  <2>4. written <= queued /\ written + 1..queued = {} /\ written \in Nat /\ queued \in Nat
    <3>1. written <= queued /\ {Message(i).no : i \in Unwritten} = written + 1..queued
      BY <2>1, Zenon DEF WriterInv, OrderKept
    <3> QED BY <2>3, <3>1 DEF WriterInv, WriterTypeOK
  <2>5. written + 1 \notin written + 1..queued
    BY <2>4
  <2> QED BY <2>4, <2>5
<1> QED BY <1>1, <1>2 DEF QueueKept, WriterInv

\* The invariant of the writer and its queue.
LEMMA WriterInvariant == ASSUME WriterAssumption PROVE WriterSpec => []WriterInv
<1>1. WriterInit => WriterInv
  BY WriterInvInit
<1>2. WriterInv /\ [WriterNext]_WriterVars => WriterInv'
  BY WriterStep
<1> QED BY <1>1, <1>2, PTL DEF WriterSpec

\* The queue of writer.c: its indices and slots agree however it wraps, grows
\* and drops log messages from its middle, responses and notifications keep their
\* order and none is lost, and log messages give way to the others.
THEOREM QueueIsKept == WriterSpec => []QueueKept
<1>1. WriterInv => QueueKept
  BY QueueFollows, WriterAssumption
<1>2. WriterSpec => []WriterInv
  BY WriterInvariant, WriterAssumption
<1> QED BY <1>1, <1>2, PTL

\* When main() returns, a client that reads has been given every response and
\* notification that was queued: writer_thread_main drains before it stops.
THEOREM EverythingIsWritten == WriterSpec => []DrainedAtEof
<1>1. WriterInv => DrainedAtEof
  BY QueueFollows, WriterAssumption
<1>2. WriterSpec => []WriterInv
  BY WriterInvariant, WriterAssumption
<1> QED BY <1>1, <1>2, PTL

-----------------------------------------------------------------------------

(* Counting in sequences. *)

\* Counts are numbers.
LEMMA CountType ==
  ASSUME NEW S, NEW s \in Seq(S), NEW r
  PROVE  /\ IsFiniteSet({i \in DOMAIN s : s[i].id = r}) /\ Count(s, r) \in Nat
<1>1. DOMAIN s = 1..Len(s) /\ Len(s) \in Nat
  BY LenProperties
<1>2. IsFiniteSet(1..Len(s))
  BY <1>1, FS_Interval
<1>3. IsFiniteSet({i \in DOMAIN s : s[i].id = r})
  BY <1>1, <1>2, FS_Subset
<1> QED BY <1>3, FS_CardinalityType DEF Count

\* A sequence in two parts.
Parts(s, a, b) ==
  /\ Len(s) = Len(a) + Len(b)
  /\ \A i \in 1..Len(a) : a[i] = s[i]
  /\ \A i \in 1..Len(b) : b[i] = s[Len(a) + i]

\* The count of a sequence is that of its two parts.
LEMMA CountSplit ==
  ASSUME NEW S, NEW s \in Seq(S), NEW a \in Seq(S), NEW b \in Seq(S), Parts(s, a, b), NEW r
  PROVE  Count(s, r) = Count(a, r) + Count(b, r)
<1> USE DEF Parts
<1>1. PICK k \in Nat, n \in Nat :
        /\ k = Len(a) /\ n = Len(b) /\ Len(s) = k + n
        /\ DOMAIN s = 1..k + n /\ DOMAIN a = 1..k /\ DOMAIN b = 1..n
  BY LenProperties
<1> DEFINE P == {i \in DOMAIN s : s[i].id = r}
           A == {i \in DOMAIN a : a[i].id = r}
           B == {i \in DOMAIN b : b[i].id = r}
           C == {i \in k + 1..k + n : s[i].id = r}
<1>2. IsFiniteSet(A) /\ IsFiniteSet(B)
  BY CountType
<1>3. \A i \in k + 1..k + n : i - k \in 1..n /\ k + (i - k) = i
  BY <1>1
<1>4. \A i \in 1..n : k + i \in k + 1..k + n /\ (k + i) - k = i
  BY <1>1
<1>5. IsFiniteSet(C) /\ Cardinality(C) = Cardinality(B)
  <2> DEFINE f == [i \in B |-> k + i]
  <2>1. \A i \in B : i \in 1..n /\ b[i] = s[k + i] /\ k + i \in k + 1..k + n
    BY <1>1, <1>4
  <2>2. f \in [B -> C]
    BY <2>1
  <2>3. \A x, y \in B : f[x] = f[y] => x = y
    BY <2>1
  <2>4. \A y \in C : \E x \in B : f[x] = y
    <3>1. ASSUME NEW y \in C PROVE \E x \in B : f[x] = y
      <4>1. y - k \in 1..n /\ k + (y - k) = y
        BY <1>3
      <4>2. y - k \in B
        BY <1>1, <4>1
      <4> QED BY <4>1, <4>2
    <3> QED BY <3>1
  <2>5. ExistsBijection(B, C)
    BY <2>2, <2>3, <2>4 DEF ExistsBijection, Bijection, Injection, Surjection, IsInjective
  <2> QED BY <1>2, <2>5, FS_Bijection
<1>6. P = A \cup C /\ A \cap C = {}
  <2>1. /\ \A i \in 1..k + n : i \in 1..k \/ i \in k + 1..k + n
        /\ \A i \in 1..k : i \in 1..k + n /\ i \notin k + 1..k + n
        /\ \A i \in k + 1..k + n : i \in 1..k + n
    BY <1>1
  <2> QED BY <1>1, <2>1
<1> HIDE DEF P, A, B, C
<1>7. Cardinality(P) = Cardinality(A) + Cardinality(C)
  <2>0. Cardinality(A \cup C) = Cardinality(A) + Cardinality(C) - Cardinality(A \cap C)
    BY <1>2, <1>5, FS_Union
  <2>1. Cardinality(P) = Cardinality(A) + Cardinality(C) - Cardinality({})
    BY <1>6, <2>0
  <2>2. Cardinality({}) = 0 /\ Cardinality(A) \in Nat /\ Cardinality(C) \in Nat
    BY <1>2, <1>5, FS_EmptySet, FS_CardinalityType
  <2> QED BY <2>1, <2>2
<1> QED BY <1>5, <1>7 DEF Count, P, A, B

\* Counts of short sequences, and of those the actions build.
LEMMA CountEmpty == ASSUME NEW r PROVE Count(<<>>, r) = 0
<1>1. {i \in DOMAIN <<>> : <<>>[i].id = r} = {}
  OBVIOUS
<1> QED BY <1>1, FS_EmptySet DEF Count

LEMMA CountOne ==
  ASSUME NEW x, NEW r
  PROVE  Count(<<x>>, r) = IF x.id = r THEN 1 ELSE 0
<1>1. DOMAIN <<x>> = {1} /\ <<x>>[1] = x
  OBVIOUS
<1>2. CASE x.id = r
  <2>1. {i \in DOMAIN <<x>> : <<x>>[i].id = r} = {1}
    BY <1>1, <1>2
  <2>2. Cardinality({1}) = 1
    BY FS_Singleton
  <2> QED BY <1>2, <2>1, <2>2, CountEmpty DEF Count
<1>3. CASE x.id # r
  <2>1. {i \in DOMAIN <<x>> : <<x>>[i].id = r} = {}
    BY <1>1, <1>3
  <2> QED BY <1>3, <2>1, FS_EmptySet, CountEmpty DEF Count
<1> QED BY <1>2, <1>3

LEMMA CountAppend ==
  ASSUME NEW S, NEW s \in Seq(S), NEW x \in S, NEW r
  PROVE  Count(Append(s, x), r) = Count(s, r) + (IF x.id = r THEN 1 ELSE 0)
<1>1. PICK t : t = Append(s, x)
  OBVIOUS
<1>2. PICK u : u = <<x>>
  OBVIOUS
<1>3. /\ t \in Seq(S) /\ Len(t) = Len(s) + 1
      /\ \A i \in 1..Len(s) : t[i] = s[i]
      /\ t[Len(s) + 1] = x
  BY <1>1, AppendProperties
<1>4. u \in Seq(S) /\ Len(u) = 1 /\ u[1] = x
  BY <1>2
<1>5. \A i \in 1..Len(u) : u[i] = t[Len(s) + i]
  BY <1>3, <1>4
<1>6. Len(t) = Len(s) + Len(u)
  BY <1>3, <1>4
<1>7. Count(t, r) = Count(s, r) + Count(u, r)
  <2>1. Parts(t, s, u)
    BY <1>3, <1>5, <1>6 DEF Parts
  <2> QED BY <1>3, <1>4, <2>1, CountSplit
<1> QED BY <1>1, <1>2, <1>7, CountOne

LEMMA CountTail ==
  ASSUME NEW S, NEW s \in Seq(S), s # <<>>, NEW r
  PROVE  /\ Head(s) \in S /\ Tail(s) \in Seq(S) /\ Len(Tail(s)) = Len(s) - 1 /\ Len(s) \in Nat \ {0}
         /\ Count(s, r) = Count(Tail(s), r) + (IF Head(s).id = r THEN 1 ELSE 0)
<1>1. /\ Head(s) \in S /\ Tail(s) \in Seq(S) /\ Len(Tail(s)) = Len(s) - 1
      /\ \A i \in 1..Len(Tail(s)) : Tail(s)[i] = s[i + 1]
  BY HeadTailProperties
<1>2. Len(s) \in Nat \ {0} /\ Head(s) = s[1]
  BY LenProperties, EmptySeq
<1>3. PICK u : u = <<Head(s)>>
  OBVIOUS
<1>4. u \in Seq(S) /\ Len(u) = 1 /\ u[1] = s[1]
  BY <1>1, <1>2, <1>3
<1>5. PICK t : t = Tail(s)
  OBVIOUS
<1>6. /\ t \in Seq(S) /\ Len(t) = Len(s) - 1 /\ Len(t) \in Nat
      /\ \A i \in 1..Len(t) : t[i] = s[i + 1]
  BY <1>1, <1>2, <1>5
<1>7. /\ Len(s) = Len(u) + Len(t)
      /\ \A i \in 1..Len(u) : u[i] = s[i]
      /\ \A i \in 1..Len(t) : t[i] = s[Len(u) + i]
  <2>1. \A i \in 1..Len(t) : i + 1 = 1 + i
    BY <1>6
  <2> QED BY <1>2, <1>4, <1>6, <2>1
<1>8. Count(s, r) = Count(u, r) + Count(t, r)
  <2>1. Parts(s, u, t)
    BY <1>7 DEF Parts
  <2> QED BY <1>4, <1>6, <2>1, CountSplit
<1>9. Count(t, r) \in Nat /\ Count(u, r) = IF Head(s).id = r THEN 1 ELSE 0
  BY <1>3, <1>6, CountType, CountOne
<1>10. Count(s, r) = Count(t, r) + (IF Head(s).id = r THEN 1 ELSE 0)
  BY <1>8, <1>9
<1> QED BY <1>1, <1>2, <1>5, <1>10

\* What one read takes, and what it leaves.
LEMMA CountRead ==
  ASSUME SupervisorAssumption, NEW S, NEW s \in Seq(S)
  PROVE  /\ Prefix(s) \in Seq(S) /\ Rest(s) \in Seq(S)
         /\ Len(Rest(s)) <= Len(s)
         /\ \A r : Count(s, r) = Count(Prefix(s), r) + Count(Rest(s), r)
         /\ Len(s) <= Chunk => Rest(s) = <<>>
         /\ s # <<>> => Prefix(s) # <<>>
<1>1. PICK n \in Nat : n = Len(s) /\ \A i \in 1..n : s[i] \in S
  BY LenProperties, ElementOfSeq
<1>2. Chunk \in Nat \ {0}
  BY DEF SupervisorAssumption
<1>3. PICK k \in 0..n : /\ k = IF n < Chunk THEN n ELSE Chunk
                        /\ n <= Chunk => k = n
                        /\ n # 0 => k # 0
  BY <1>1, <1>2
<1>4. Prefix(s) = SubSeq(s, 1, k)
  BY <1>1, <1>3 DEF Prefix
<1>5. /\ Prefix(s) \in Seq(S) /\ Len(Prefix(s)) = k
      /\ \A i \in 1..k : Prefix(s)[i] = s[i]
  <2>1. /\ SubSeq(s, 1, k) \in Seq(S)
        /\ Len(SubSeq(s, 1, k)) = IF 1 <= k THEN k - 1 + 1 ELSE 0
        /\ \A i \in 1..k - 1 + 1 : SubSeq(s, 1, k)[i] = s[1 + i - 1]
    <3>1. \A i \in 1..k : s[i] \in S
      BY <1>1, <1>3
    <3> QED BY <1>1, <1>3, <3>1, SubSeqProperties
  <2>2. k \in Nat /\ \A i \in 1..k : 1 + i - 1 = i
    BY <1>1, <1>3
  <2> QED BY <1>4, <2>1, <2>2
<1>6. Rest(s) = SubSeq(s, k + 1, n)
  BY <1>1, <1>5 DEF Rest
<1>7. /\ Rest(s) \in Seq(S) /\ Len(Rest(s)) = n - k
      /\ \A i \in 1..n - k : Rest(s)[i] = s[k + i]
  <2>1. /\ SubSeq(s, k + 1, n) \in Seq(S)
        /\ Len(SubSeq(s, k + 1, n)) = IF k + 1 <= n THEN n - (k + 1) + 1 ELSE 0
        /\ \A i \in 1..n - (k + 1) + 1 : SubSeq(s, k + 1, n)[i] = s[(k + 1) + i - 1]
    <3>1. k + 1 \in Int /\ n \in Int /\ \A i \in k + 1..n : s[i] \in S
      BY <1>1, <1>3
    <3> QED BY <3>1, SubSeqProperties
  <2>2. k \in Nat /\ n - (k + 1) + 1 = n - k /\ \A i \in 1..n - k : (k + 1) + i - 1 = k + i
    BY <1>1, <1>3
  <2>3. (IF k + 1 <= n THEN n - (k + 1) + 1 ELSE 0) = n - k
    <3>1. k \in Nat /\ n \in Nat /\ k <= n
      BY <1>1, <1>3
    <3> QED BY ONLY <3>1
  <2> QED BY <1>6, <2>1, <2>2, <2>3
<1>8. ASSUME NEW r PROVE Count(s, r) = Count(Prefix(s), r) + Count(Rest(s), r)
  <2>1. Len(s) = Len(Prefix(s)) + Len(Rest(s))
    BY <1>1, <1>3, <1>5, <1>7
  <2>2. \A i \in 1..Len(Rest(s)) : Rest(s)[i] = s[Len(Prefix(s)) + i]
    BY <1>5, <1>7
  <2>3. PICK a, b : a = Prefix(s) /\ b = Rest(s)
    OBVIOUS
  <2>4. /\ a \in Seq(S) /\ b \in Seq(S) /\ Len(s) = Len(a) + Len(b)
        /\ \A i \in 1..Len(a) : a[i] = s[i]
        /\ \A i \in 1..Len(b) : b[i] = s[Len(a) + i]
    BY <1>5, <1>7, <2>1, <2>2, <2>3
  <2>5. Count(s, r) = Count(a, r) + Count(b, r)
    <3>1. Parts(s, a, b)
      BY <2>4 DEF Parts
    <3> QED BY <2>4, <3>1, CountSplit
  <2> QED BY <2>3, <2>5
<1>9. Len(s) <= Chunk => Rest(s) = <<>>
  BY <1>1, <1>3, <1>7, EmptySeq
<1>10. s # <<>> => Prefix(s) # <<>>
  BY <1>1, <1>3, <1>5, EmptySeq
<1> QED BY <1>1, <1>3, <1>5, <1>7, <1>8, <1>9, <1>10

\* Cutting the last message, or completing it, moves no request.
LEMMA EditFacts ==
  ASSUME NEW s \in Seq(Asks), s # <<>>, s[Len(s)] # Remainder, NEW b \in BOOLEAN, NEW t,
         t = [s EXCEPT ![Len(s)].whole = b]
  PROVE  /\ t \in Seq(Asks) /\ Len(t) = Len(s)
         /\ \A r : Count(t, r) = Count(s, r)
<1>1. PICK n \in Nat : n = Len(s) /\ DOMAIN s = 1..n /\ n # 0 /\ \A i \in 1..n : s[i] \in Asks
  BY LenProperties, ElementOfSeq, EmptySeq
<1>2. n \in 1..n
  BY <1>1
<1>3. PICK x \in Asks : x = s[n] /\ x # Remainder
  BY <1>1, <1>2
<1>4. [x EXCEPT !.whole = b] \in Asks /\ [x EXCEPT !.whole = b].id = x.id
  BY <1>3 DEF Asks
<1>5. PICK y \in Asks : y = [x EXCEPT !.whole = b] /\ y.id = x.id
  BY <1>4
<1>6. t = [i \in 1..n |-> IF i = n THEN y ELSE s[i]]
  BY <1>1, <1>2, <1>3, <1>5
<1>7. DOMAIN t = 1..n /\ \A i \in 1..n : t[i] \in Asks /\ t[i].id = s[i].id
  BY <1>1, <1>3, <1>5, <1>6
<1>8. t \in Seq(Asks) /\ Len(t) = n
  <2>1. t = [i \in 1..n |-> t[i]]
    BY <1>6
  <2>2. t \in Seq(Asks)
    BY <1>1, <1>7, <2>1, IsASeq
  <2> QED BY <1>1, <1>7, <2>2, LenProperties
<1>9. ASSUME NEW r PROVE Count(t, r) = Count(s, r)
  <2>1. {i \in DOMAIN t : t[i].id = r} = {i \in DOMAIN s : s[i].id = r}
    BY <1>1, <1>7
  <2> QED BY <2>1 DEF Count
<1> QED BY <1>1, <1>8, <1>9

\* What a read takes, the last message whole or cut, and what it leaves.
LEMMA ReadsFacts ==
  ASSUME SupervisorAssumption, NEW s \in Seq(Asks), s # <<>>, NEW read \in Reads(s)
  PROVE  /\ read[1] \in Seq(Asks) /\ read[2] \in Seq(Asks)
         /\ \A r \in Requests : Count(s, r) = Count(read[1], r) + Count(read[2], r)
<1>1. PICK p, q : p = Prefix(s) /\ q = Rest(s)
  OBVIOUS
<1>2. /\ p \in Seq(Asks) /\ q \in Seq(Asks) /\ p # <<>>
      /\ \A r : Count(s, r) = Count(p, r) + Count(q, r)
  BY <1>1, CountRead
<1>3. CASE read = <<p, q>>
  BY <1>2, <1>3
<1>4. CASE p[Len(p)].whole /\ read = <<Beginning(p), <<Remainder>> \o q>>
  <2>1. PICK a, z, b : a = Beginning(p) /\ z = <<Remainder>> /\ b = z \o q
    OBVIOUS
  <2>2. p[Len(p)] # Remainder
    BY <1>4 DEF Remainder
  <2>3. a \in Seq(Asks) /\ \A r : Count(a, r) = Count(p, r)
    <3>1. a = [p EXCEPT ![Len(p)].whole = FALSE] /\ FALSE \in BOOLEAN
      BY <2>1 DEF Beginning
    <3>2. p \in Seq(Asks) /\ p # <<>>
      BY <1>2
    <3> QED BY ONLY <2>2, <3>1, <3>2, EditFacts
  <2>4. z \in Seq(Asks) /\ Len(z) = 1
    <3>1. Remainder \in Asks
      BY DEF Asks
    <3> QED BY <2>1, <3>1
  <2>5. /\ b \in Seq(Asks) /\ Len(b) = Len(z) + Len(q)
        /\ \A i \in 1..Len(z) : z[i] = b[i]
        /\ \A i \in 1..Len(q) : q[i] = b[Len(z) + i]
    <3>1. Len(q) \in Nat
      BY <1>2, LenProperties
    <3>2. /\ b \in Seq(Asks) /\ Len(b) = Len(z) + Len(q)
          /\ \A i \in 1..Len(z) + Len(q) :
               b[i] = IF i <= Len(z) THEN z[i] ELSE q[i - Len(z)]
      BY <1>2, <2>1, <2>4, ConcatProperties
    <3>3. \A i \in 1..Len(q) : 1 + i \in 1..1 + Len(q) /\ ~(1 + i <= 1) /\ (1 + i) - 1 = i
      BY <3>1
    <3>4. 1 \in 1..1 + Len(q) /\ \A i \in 1..1 : i = 1
      BY <3>1
    <3> QED BY <2>4, <3>2, <3>3, <3>4
  <2>6. ASSUME NEW r \in Requests PROVE Count(s, r) = Count(a, r) + Count(b, r)
    <3>1. Count(b, r) = Count(z, r) + Count(q, r)
      <4>1. Parts(b, z, q)
        BY <2>5 DEF Parts
      <4> QED BY <1>2, <2>4, <2>5, <4>1, CountSplit
    <3>2. Count(z, r) = 0
      <4>1. Remainder.id # r
        BY DEF Remainder, Requests
      <4> QED BY <2>1, <4>1, CountOne
    <3>3. Count(q, r) \in Nat
      BY <1>2, CountType
    <3> QED BY <1>2, <2>3, <3>1, <3>2, <3>3
  <2>7. read[1] = a /\ read[2] = b
    BY <1>4, <2>1
  <2> QED BY <2>3, <2>5, <2>6, <2>7
<1> QED BY <1>1, <1>3, <1>4 DEF Reads

\* A message is added, or the rest of the last one, which is no request.
LEMMA JoinedFacts ==
  ASSUME NEW s \in Seq(Asks), NEW m \in Asks
  PROVE  /\ Joined(s, m) \in Seq(Asks)
         /\ \A r \in Requests :
              Count(Joined(s, m), r) = Count(s, r) + (IF m.id = r THEN 1 ELSE 0)
<1>1. CASE m = Remainder /\ s # <<>> /\ s[Len(s)] # Remainder
  <2>1. PICK t : t = [s EXCEPT ![Len(s)].whole = TRUE]
    OBVIOUS
  <2>2. t \in Seq(Asks) /\ \A r : Count(t, r) = Count(s, r)
    <3>1. TRUE \in BOOLEAN
      OBVIOUS
    <3> QED BY <1>1, <2>1, <3>1, EditFacts
  <2>3. Joined(s, m) = t
    BY <1>1, <2>1 DEF Joined
  <2>4. \A r \in Requests : m.id # r
    BY <1>1 DEF Remainder, Requests
  <2>5. \A r : Count(s, r) \in Nat
    BY CountType
  <2> QED BY <2>2, <2>3, <2>4, <2>5
<1>2. CASE ~(m = Remainder /\ s # <<>> /\ s[Len(s)] # Remainder)
  <2>1. Joined(s, m) = Append(s, m)
    BY <1>2 DEF Joined
  <2> QED BY <2>1, AppendProperties, CountAppend
<1> QED BY <1>1, <1>2

-----------------------------------------------------------------------------
(* The relay. *)

\* What the records hold.
Methods == {"initialize", "initialized", "hover", "shutdown", "exit"}
Streams == [msgs: Seq(Asks), closed: BOOLEAN]

Shapes ==
  /\ input \in Streams /\ toWorker \in Streams /\ Len(toWorker.msgs) <= Pipe
  /\ sup \in [at: {"poll", "out", "in", "reap", "dead", "broken", "sleep", "ended"},
              ready: SUBSET {"out", "in", "chld"}, buf: Seq(Asks), editor_eof: BOOLEAN,
              worker_eof: BOOLEAN, end: {"none", "sigpipe", "eof", "bailout", "setup"}]
  /\ sup.buf # <<>> => sup.at = "in"
  /\ sup.end # "none" <=> sup.at = "ended"
  /\ worker \in [up: BOOLEAN, lifecycle: {"UNINIT", "INITIALIZING", "RUNNING", "SHUTDOWN"},
                 out: Seq(Replies), did: SUBSET Methods]
  /\ fromWorker \in Seq(Replies) /\ Len(fromWorker) <= Pipe
  /\ answers \in [Requests -> Nat] /\ chld \in BOOLEAN
  /\ asked \in Nat /\ inputs \in Nat /\ asked <= inputs /\ inputs <= MaxInput
  /\ mishaps \in Nat

\* A request is in one place only: on its way to a worker, with it, or, as a
\* response, on its way back; or it is answered, or lost with a worker.
Places(r) ==
  answers[r] + Count(fromWorker, r) + Count(worker.out, r)
    + Count(toWorker.msgs, r) + Count(sup.buf, r) + Count(input.msgs, r)

Once == \A r \in Requests : Places(r) <= 1 /\ (r > asked => Places(r) = 0)

\* What the parent knows of a dead worker, and that it has read its output
\* before it looks at the death, while every SIGCHLD is one and poll() has not
\* failed.
Drains ==
  /\ chld => ~worker.up
  /\ sup.at \in {"out", "in", "reap"} /\ "chld" \in sup.ready => ~worker.up
  /\ sup.worker_eof => ~worker.up /\ fromWorker = <<>>
  /\ sup.at = "out" /\ "chld" \in sup.ready => sup.worker_eof \/ "out" \in sup.ready
  /\ sup.at = "out" /\ "out" \in sup.ready /\ worker.up => fromWorker # <<>>
  /\ sup.at \in {"in", "reap"} /\ "chld" \in sup.ready => fromWorker = <<>>
  /\ sup.at \in {"dead", "sleep"} => ~worker.up /\ ~chld
  /\ sup.at = "dead" => fromWorker = <<>>
  /\ sup.at # "broken"

Draining == mishaps = 0 => Drains

\* A worker that gives results, or has left its first state, was initialized.
Initialized == (worker.lifecycle # "UNINIT" \/ "hover" \in worker.did) => "initialize" \in worker.did

\* The inductive invariant of the relay.
RelayInv == Shapes /\ Once /\ Draining /\ Initialized

\* Places, as a sum of numbers.
LEMMA PlacesIs ==
  ASSUME NEW r
  PROVE  Places(r) = answers[r] + Count(fromWorker, r) + Count(worker.out, r)
           + Count(toWorker.msgs, r) + Count(sup.buf, r) + Count(input.msgs, r)
BY DEF Places

LEMMA CountsAre ==
  ASSUME Shapes, NEW r
  PROVE  /\ Count(fromWorker, r) \in Nat /\ Count(worker.out, r) \in Nat
         /\ Count(toWorker.msgs, r) \in Nat /\ Count(sup.buf, r) \in Nat
         /\ Count(input.msgs, r) \in Nat
<1>1. /\ fromWorker \in Seq(Replies) /\ worker.out \in Seq(Replies)
      /\ toWorker.msgs \in Seq(Asks) /\ sup.buf \in Seq(Asks) /\ input.msgs \in Seq(Asks)
  BY DEF Shapes, Streams
<1> QED BY <1>1, CountType

\* The editor sends a message, whose id is that of a new request or 0.
LEMMA SendKeeps ==
  ASSUME SupervisorAssumption, RelayInv, NEW m \in Asks, Send(m),
         \/ asked' = asked + 1 /\ m.id = asked + 1
         \/ asked' = asked /\ m.id = 0
  PROVE  RelayInv'
<1>1. /\ inputs < MaxInput /\ inputs' = inputs + 1
      /\ input' = [input EXCEPT !.msgs = Append(@, m)]
      /\ UNCHANGED <<answers, sup, worker, toWorker, fromWorker, chld, mishaps>>
  BY DEF Send, pipes, wire
<1>2. input'.msgs = Append(input.msgs, m) /\ input' \in Streams /\ input.msgs \in Seq(Asks)
  <2>1. input \in Streams /\ input.msgs \in Seq(Asks)
    BY DEF RelayInv, Shapes, Streams
  <2>2. Append(input.msgs, m) \in Seq(Asks)
    BY <2>1, AppendProperties
  <2>3. input' = [msgs |-> Append(input.msgs, m), closed |-> input.closed]
    BY <1>1, <2>1 DEF Streams
  <2> QED BY <2>1, <2>2, <2>3 DEF Streams
<1>3. Shapes'
  <2>1. asked \in Nat /\ inputs \in Nat /\ asked <= inputs /\ inputs < MaxInput
    BY <1>1 DEF RelayInv, Shapes
  <2>2. asked' \in Nat /\ inputs' \in Nat /\ asked' <= inputs' /\ inputs' <= MaxInput
    BY <1>1, <2>1 DEF SupervisorAssumption
  <2> QED BY <1>1, <1>2, <2>2 DEF RelayInv, Shapes
<1>4. Once'
  <2>1. SUFFICES ASSUME NEW r \in Requests
                 PROVE  Places(r)' <= 1 /\ (r > asked' => Places(r)' = 0)
    BY DEF Once
  <2>2. Count(input'.msgs, r) = Count(input.msgs, r) + (IF m.id = r THEN 1 ELSE 0)
    BY <1>2, CountAppend
  <2>3. Places(r) <= 1 /\ (r > asked => Places(r) = 0) /\ r \in Nat \ {0} /\ asked \in Nat
    BY DEF RelayInv, Once, Shapes, Requests
  <2>4. answers[r] \in Nat
    BY DEF RelayInv, Shapes
  <2>5. Places(r)' = Places(r) + (IF m.id = r THEN 1 ELSE 0)
    <3>1. Places(r)' = answers[r] + Count(fromWorker, r) + Count(worker.out, r)
            + Count(toWorker.msgs, r) + Count(sup.buf, r) + Count(input'.msgs, r)
      BY <1>1 DEF Places
    <3> QED BY <2>2, <2>4, <3>1, CountsAre DEF Places, RelayInv
  <2>6. Places(r) \in Nat
    BY <2>4, CountsAre DEF Places, RelayInv
  <2> QED BY <2>3, <2>5, <2>6
<1>5. Draining' /\ Initialized'
  BY <1>1 DEF RelayInv, Draining, Drains, Initialized
<1> QED BY <1>3, <1>4, <1>5 DEF RelayInv

\* The editor: a request gets a new id, a notification none.
LEMMA EditorKeeps ==
  ASSUME SupervisorAssumption, RelayInv, Editor
  PROVE  RelayInv'
<1>0. asked \in Nat /\ inputs \in Nat /\ asked <= inputs /\ MaxInput \in Nat
  BY DEF RelayInv, Shapes, SupervisorAssumption
<1>1. ASSUME NEW method \in Calls, Request(method)
      PROVE  RelayInv'
  <2>1. inputs < MaxInput /\ asked' = asked + 1 /\ Send(Msg(method, asked + 1))
    BY <1>1 DEF Request, Send
  <2>2. asked + 1 \in Requests
    BY <1>0, <2>1 DEF Requests
  <2>3. Msg(method, asked + 1) \in Asks /\ Msg(method, asked + 1).id = asked + 1
    <3>1. method \in {"initialize", "hover", "shutdown"}
      BY DEF SupervisorAssumption
    <3> QED BY <2>2, <3>1 DEF Msg, Asks
  <2> QED BY <2>1, <2>3, SendKeeps
<1>2. ASSUME NEW method \in {"initialized", "exit"}, Notify(method)
      PROVE  RelayInv'
  <2>1. asked' = asked /\ Send(Msg(method, 0))
    BY <1>2 DEF Notify
  <2>2. Msg(method, 0) \in Asks /\ Msg(method, 0).id = 0
    BY DEF Msg, Asks
  <2> QED BY <2>1, <2>2, SendKeeps
<1>3. CASE Close
  <2>1. /\ input' = [input EXCEPT !.closed = TRUE]
        /\ UNCHANGED <<answers, sup, worker, toWorker, fromWorker, chld, asked, inputs, mishaps>>
    BY <1>3 DEF Close, pipes, editor, wire
  <2>2. input'.msgs = input.msgs /\ input' \in Streams
    BY <2>1 DEF RelayInv, Shapes, Streams
  <2>3. Shapes'
    BY <2>1, <2>2 DEF RelayInv, Shapes
  <2>4. Once'
    BY <2>1, <2>2 DEF RelayInv, Once, Places
  <2>5. Draining' /\ Initialized'
    BY <2>1 DEF RelayInv, Draining, Drains, Initialized
  <2> QED BY <2>3, <2>4, <2>5 DEF RelayInv
<1> QED BY <1>1, <1>2, <1>3 DEF Editor

\* A step that moves requests on, or loses them, doubles none.
LEMMA OnceFollows ==
  ASSUME Shapes, Once, asked' = asked,
         \A r \in Requests : Places(r)' \in Nat /\ Places(r)' <= Places(r)
  PROVE  Once'
<1>1. ASSUME NEW r \in Requests PROVE Places(r)' <= 1 /\ (r > asked' => Places(r)' = 0)
  <2>1. answers[r] \in Nat
    BY DEF Shapes
  <2>2. Places(r) \in Nat
    BY <2>1, CountsAre DEF Places
  <2>3. /\ Places(r) <= 1 /\ (r > asked => Places(r) = 0)
        /\ Places(r)' \in Nat /\ Places(r)' <= Places(r)
    BY DEF Once
  <2> QED BY <2>2, <2>3
<1> QED BY <1>1 DEF Once

\* What the worker and the pipes are after its death.
LEMMA DiesKeeps ==
  ASSUME RelayInv, Running, Dies, toWorker' \in Streams, Len(toWorker'.msgs) <= Pipe,
         fromWorker' \in Seq(Replies), Len(fromWorker') <= Pipe,
         \A r \in Requests : Count(fromWorker', r) = Count(fromWorker, r),
         \A r \in Requests : Count(toWorker'.msgs, r) \in Nat
                             /\ Count(toWorker'.msgs, r) <= Count(toWorker.msgs, r),
         UNCHANGED <<input, answers, sup, asked, inputs, mishaps>>
  PROVE  RelayInv'
<1>1. /\ worker' = [worker EXCEPT !.up = FALSE, !.out = <<>>] /\ chld' = TRUE /\ worker.up
      /\ sup.at # "ended"
  BY DEF Running, Dies, Supervised
<1>2. /\ worker' \in [up: BOOLEAN, lifecycle: {"UNINIT", "INITIALIZING", "RUNNING", "SHUTDOWN"},
                      out: Seq(Replies), did: SUBSET Methods]
      /\ ~worker'.up /\ worker'.out = <<>>
      /\ worker'.lifecycle = worker.lifecycle /\ worker'.did = worker.did
  <2>1. <<>> \in Seq(Replies)
    OBVIOUS
  <2> QED BY <1>1, <2>1 DEF RelayInv, Shapes
<1>3. Shapes'
  BY <1>1, <1>2 DEF RelayInv, Shapes
<1>4. Once'
  <2>1. ASSUME NEW r \in Requests PROVE Places(r)' \in Nat /\ Places(r)' <= Places(r)
    <3>1. Places(r)' = answers[r] + Count(fromWorker, r) + 0
            + Count(toWorker'.msgs, r) + Count(sup.buf, r) + Count(input.msgs, r)
      <4>1. Count(fromWorker', r) = Count(fromWorker, r)
        OBVIOUS
      <4> QED BY <1>2, <4>1, CountEmpty DEF Places
    <3>2. answers[r] \in Nat
      BY DEF RelayInv, Shapes
    <3>3. Count(toWorker'.msgs, r) \in Nat /\ Count(toWorker'.msgs, r) <= Count(toWorker.msgs, r)
      OBVIOUS
    <3>4. /\ Count(fromWorker, r) \in Nat /\ Count(worker.out, r) \in Nat
          /\ Count(toWorker.msgs, r) \in Nat /\ Count(sup.buf, r) \in Nat
          /\ Count(input.msgs, r) \in Nat
      BY CountsAre DEF RelayInv
    <3>5. Places(r) = answers[r] + Count(fromWorker, r) + Count(worker.out, r)
            + Count(toWorker.msgs, r) + Count(sup.buf, r) + Count(input.msgs, r)
      BY PlacesIs
    <3>6. \A a, f, w, t, s, i \in Nat, t1 \in Nat :
            t1 <= t => /\ a + f + 0 + t1 + s + i \in Nat
                       /\ a + f + 0 + t1 + s + i <= a + f + w + t + s + i
      OBVIOUS
    <3> QED BY ONLY <3>1, <3>2, <3>3, <3>4, <3>5, <3>6
  <2> QED BY <2>1, OnceFollows DEF RelayInv
<1>5. Draining'
  BY <1>1, <1>2 DEF RelayInv, Draining, Drains
<1>6. Initialized'
  BY <1>2 DEF RelayInv, Initialized
<1> QED BY <1>3, <1>4, <1>5, <1>6 DEF RelayInv

\* A death leaves the pipes as they are, but for part of a reply.
LEMMA CrashKeeps ==
  ASSUME SupervisorAssumption, RelayInv, Crash \/ WorkerEof \/ Misframed
  PROVE  RelayInv'
<1>1. Running /\ Dies /\ UNCHANGED <<input, answers, sup, toWorker, asked, inputs, mishaps>>
  BY DEF Crash, WorkerEof, Misframed, pipes, editor, wire
<1>0. \/ fromWorker' = fromWorker
      \/ fromWorker' = Append(fromWorker, Partial) /\ Len(fromWorker) < Pipe
  BY DEF Crash, WorkerEof, Misframed, pipes
<1>4. /\ fromWorker' \in Seq(Replies) /\ Len(fromWorker') <= Pipe
      /\ \A r \in Requests : Count(fromWorker', r) = Count(fromWorker, r)
  <2>1. fromWorker \in Seq(Replies) /\ Len(fromWorker) <= Pipe /\ Len(fromWorker) \in Nat
    BY LenProperties DEF RelayInv, Shapes
  <2>2. CASE fromWorker' = fromWorker
    BY <2>1, <2>2
  <2>3. CASE fromWorker' = Append(fromWorker, Partial) /\ Len(fromWorker) < Pipe
    <3>1. Partial \in Replies /\ \A r \in Requests : Partial.id # r
      BY DEF Partial, Replies, Requests
    <3>2. /\ Append(fromWorker, Partial) \in Seq(Replies)
          /\ Len(Append(fromWorker, Partial)) = Len(fromWorker) + 1
      BY <2>1, <3>1, AppendProperties
    <3>3. Len(fromWorker) + 1 <= Pipe
      BY <2>1, <2>3 DEF SupervisorAssumption
    <3>4. ASSUME NEW r \in Requests PROVE Count(fromWorker', r) = Count(fromWorker, r)
      <4>1. Count(Append(fromWorker, Partial), r) = Count(fromWorker, r) + 0
        BY <2>1, <3>1, CountAppend
      <4>2. Count(fromWorker, r) \in Nat
        BY <2>1, CountType
      <4> QED BY <2>3, <4>1, <4>2
    <3> QED BY <2>3, <3>2, <3>3, <3>4
  <2> QED BY <1>0, <2>2, <2>3
<1>2. toWorker' \in Streams /\ Len(toWorker'.msgs) <= Pipe
  BY <1>1 DEF RelayInv, Shapes
<1>3. \A r \in Requests : Count(toWorker'.msgs, r) \in Nat
                          /\ Count(toWorker'.msgs, r) <= Count(toWorker.msgs, r)
  BY <1>1, CountsAre DEF RelayInv
<1> QED BY <1>1, <1>2, <1>3, <1>4, DiesKeeps

\* The worker answers a message, or exits.
LEMMA RouteKeeps ==
  ASSUME SupervisorAssumption, RelayInv, Route
  PROVE  RelayInv'
<1>1. PICK m : m = Head(toWorker.msgs)
  OBVIOUS
<1>2. /\ Running /\ toWorker.msgs # <<>> /\ m.whole
      /\ toWorker' = [toWorker EXCEPT !.msgs = Tail(@)]
      /\ UNCHANGED <<input, answers, sup, fromWorker, asked, inputs, mishaps>>
  BY <1>1 DEF Route, HasMessage, editor, wire
<1>3. toWorker \in Streams /\ toWorker.msgs \in Seq(Asks) /\ Len(toWorker.msgs) <= Pipe
  BY DEF RelayInv, Shapes, Streams
<1>4. m \in Asks /\ Tail(toWorker.msgs) \in Seq(Asks)
      /\ Len(Tail(toWorker.msgs)) = Len(toWorker.msgs) - 1 /\ Len(toWorker.msgs) \in Nat
  BY <1>1, <1>2, <1>3, CountTail
<1>5. /\ toWorker' \in Streams /\ toWorker'.msgs = Tail(toWorker.msgs)
      /\ Len(toWorker'.msgs) <= Pipe
  <2>1. toWorker' = [msgs |-> Tail(toWorker.msgs), closed |-> toWorker.closed]
        /\ toWorker.closed \in BOOLEAN
    BY <1>2, <1>3 DEF Streams
  <2>2. Len(Tail(toWorker.msgs)) <= Pipe
    BY <1>3, <1>4 DEF SupervisorAssumption
  <2> QED BY <1>4, <2>1, <2>2 DEF Streams
<1>6. \A r : /\ Count(toWorker.msgs, r) = Count(toWorker'.msgs, r) + (IF m.id = r THEN 1 ELSE 0)
             /\ Count(toWorker'.msgs, r) \in Nat
  <2>1. ASSUME NEW r
        PROVE  Count(toWorker.msgs, r) = Count(toWorker'.msgs, r) + (IF m.id = r THEN 1 ELSE 0)
    <3>1. Count(toWorker.msgs, r) = Count(Tail(toWorker.msgs), r)
            + (IF Head(toWorker.msgs).id = r THEN 1 ELSE 0)
      BY <1>2, <1>3, CountTail
    <3> QED BY <1>1, <1>5, <3>1
  <2>2. \A r : Count(Tail(toWorker.msgs), r) \in Nat
    BY <1>4, CountType
  <2> QED BY <1>5, <2>1, <2>2
<1>7. CASE m.method = "exit"
  <2>1. Dies
    BY <1>1, <1>7 DEF Route
  <2>2. \A r \in Requests : Count(toWorker'.msgs, r) <= Count(toWorker.msgs, r)
    BY <1>6
  <2>3. fromWorker' \in Seq(Replies) /\ Len(fromWorker') <= Pipe
        /\ \A r \in Requests : Count(fromWorker', r) = Count(fromWorker, r)
    BY <1>2 DEF RelayInv, Shapes
  <2> QED BY <1>2, <1>5, <1>6, <2>1, <2>2, <2>3, DiesKeeps
<1>8. CASE m.method # "exit"
  <2> DEFINE allowed == AllowRequest(worker.lifecycle, m.method)
             reply == [kind |-> IF allowed THEN m.method ELSE "error", id |-> m.id]
  <2>1. /\ worker' = [worker EXCEPT
                !.out = IF m.method = "initialized" THEN @ ELSE Append(@, reply),
                !.lifecycle = IF allowed THEN LifecycleNext(@, m.method) ELSE @,
                !.did = IF allowed THEN @ \cup {m.method} ELSE @]
        /\ chld' = chld
    BY <1>1, <1>8 DEF Route
  <2>2. worker \in [up: BOOLEAN, lifecycle: {"UNINIT", "INITIALIZING", "RUNNING", "SHUTDOWN"},
                    out: Seq(Replies), did: SUBSET Methods]
    BY DEF RelayInv, Shapes
  <2> HIDE DEF allowed
  <2>3. m.method # "initialized" => reply \in Replies /\ m.id \in Requests
    BY <1>2, <1>4, <1>8 DEF Asks, Replies, Remainder
  <2>4. m.method \in Methods /\ LifecycleNext(worker.lifecycle, m.method) \in
          {"UNINIT", "INITIALIZING", "RUNNING", "SHUTDOWN"}
    BY <1>2, <1>4, <2>2 DEF Asks, Methods, LifecycleNext, Remainder
  <2> HIDE DEF reply
  <2>5. /\ worker'.up = worker.up
        /\ worker'.out = IF m.method = "initialized" THEN worker.out ELSE Append(worker.out, reply)
        /\ worker'.lifecycle = IF allowed THEN LifecycleNext(worker.lifecycle, m.method)
                                          ELSE worker.lifecycle
        /\ worker'.did = IF allowed THEN worker.did \cup {m.method} ELSE worker.did
        /\ worker' = [up |-> worker'.up, lifecycle |-> worker'.lifecycle, out |-> worker'.out,
                      did |-> worker'.did]
    BY <2>1, <2>2
  <2>6. worker'.out \in Seq(Replies)
    BY <2>2, <2>3, <2>5, AppendProperties
  <2>7. worker' \in [up: BOOLEAN, lifecycle: {"UNINIT", "INITIALIZING", "RUNNING", "SHUTDOWN"},
                     out: Seq(Replies), did: SUBSET Methods]
    BY <2>2, <2>4, <2>5, <2>6
  <2>8. Shapes'
    BY <1>2, <1>5, <2>1, <2>7 DEF RelayInv, Shapes
  <2>9. Once'
    <3>1. ASSUME NEW r \in Requests PROVE Places(r)' \in Nat /\ Places(r)' <= Places(r)
      <4>1. Places(r)' = answers[r] + Count(fromWorker, r) + Count(worker'.out, r)
              + Count(toWorker'.msgs, r) + Count(sup.buf, r) + Count(input.msgs, r)
        BY <1>2 DEF Places
      <4>2. answers[r] \in Nat
        BY DEF RelayInv, Shapes
      <4>3. Count(worker'.out, r) = Count(worker.out, r)
            \/ Count(worker'.out, r) = Count(worker.out, r) + (IF m.id = r THEN 1 ELSE 0)
        <5>1. CASE m.method = "initialized"
          BY <2>5, <5>1
        <5>2. CASE m.method # "initialized"
          <6>1. reply.id = m.id
            BY DEF reply
          <6>2. worker'.out = Append(worker.out, reply) /\ worker.out \in Seq(Replies)
            BY <2>2, <2>5, <5>2
          <6> QED BY <2>3, <5>2, <6>1, <6>2, CountAppend
        <5> QED BY <5>1, <5>2
      <4>4. Places(r) = answers[r] + Count(fromWorker, r) + Count(worker.out, r)
              + Count(toWorker.msgs, r) + Count(sup.buf, r) + Count(input.msgs, r)
        BY DEF Places
      <4> QED BY <1>6, <4>1, <4>2, <4>3, <4>4, CountsAre DEF RelayInv
    <3> QED BY <1>2, <3>1, OnceFollows DEF RelayInv
  <2>10. Draining'
    BY <1>2, <2>1, <2>5 DEF RelayInv, Draining, Drains
  <2>11. Initialized'
    BY <2>2, <2>5 DEF RelayInv, Initialized, LifecycleNext, AllowRequest, allowed
  <2> QED BY <2>8, <2>9, <2>10, <2>11 DEF RelayInv
<1> QED BY <1>7, <1>8

\* A step of the parent that moves messages on: from one place to another.
LEMMA MovesKeep ==
  ASSUME RelayInv, Shapes', Draining', Initialized', asked' = asked,
         \A r \in Requests : Places(r)' = Places(r)
  PROVE  RelayInv'
<1>1. ASSUME NEW r \in Requests PROVE Places(r) \in Nat
  <2>1. answers[r] \in Nat
    BY DEF RelayInv, Shapes
  <2>2. /\ Count(fromWorker, r) \in Nat /\ Count(worker.out, r) \in Nat
        /\ Count(toWorker.msgs, r) \in Nat /\ Count(sup.buf, r) \in Nat
        /\ Count(input.msgs, r) \in Nat
    BY CountsAre DEF RelayInv
  <2> QED BY <2>1, <2>2, PlacesIs
<1>2. Once'
  BY <1>1, OnceFollows DEF RelayInv
<1> QED BY <1>2 DEF RelayInv

\* A reply goes from the writer thread into the pipe.
LEMMA WorkerWritesKeeps ==
  ASSUME SupervisorAssumption, RelayInv, WorkerWrites
  PROVE  RelayInv'
<1>1. /\ worker.up /\ worker.out # <<>> /\ Len(fromWorker) < Pipe
      /\ fromWorker' = Append(fromWorker, Head(worker.out))
      /\ worker' = [worker EXCEPT !.out = Tail(@)]
      /\ UNCHANGED <<input, answers, sup, toWorker, chld, asked, inputs, mishaps>>
  BY DEF WorkerWrites, Running, editor, wire
<1>2. /\ worker \in [up: BOOLEAN, lifecycle: {"UNINIT", "INITIALIZING", "RUNNING", "SHUTDOWN"},
                     out: Seq(Replies), did: SUBSET Methods]
      /\ worker.out \in Seq(Replies) /\ fromWorker \in Seq(Replies)
  BY DEF RelayInv, Shapes
<1>3. /\ Head(worker.out) \in Replies /\ Tail(worker.out) \in Seq(Replies)
      /\ \A r : Count(worker.out, r) = Count(Tail(worker.out), r)
                   + (IF Head(worker.out).id = r THEN 1 ELSE 0)
      /\ \A r : Count(Tail(worker.out), r) \in Nat
  <2>1. PICK s : s = worker.out /\ s \in Seq(Replies) /\ s # <<>>
    BY <1>1, <1>2
  <2>2. /\ Head(s) \in Replies /\ Tail(s) \in Seq(Replies)
        /\ \A r : Count(s, r) = Count(Tail(s), r) + (IF Head(s).id = r THEN 1 ELSE 0)
    BY ONLY <2>1, CountTail
  <2>3. \A r : Count(Tail(s), r) \in Nat
    BY ONLY <2>2, CountType
  <2> QED BY <2>1, <2>2, <2>3
<1>4. /\ fromWorker' \in Seq(Replies) /\ Len(fromWorker') <= Pipe /\ fromWorker' # <<>>
      /\ \A r : Count(fromWorker', r) = Count(fromWorker, r)
                   + (IF Head(worker.out).id = r THEN 1 ELSE 0)
  <2>1. /\ Append(fromWorker, Head(worker.out)) \in Seq(Replies)
        /\ Len(Append(fromWorker, Head(worker.out))) = Len(fromWorker) + 1
        /\ Append(fromWorker, Head(worker.out)) # <<>>
    BY <1>2, <1>3, AppendProperties
  <2>2. Len(fromWorker) + 1 <= Pipe
    BY <1>1, <1>2, LenProperties DEF SupervisorAssumption
  <2>3. \A r : Count(Append(fromWorker, Head(worker.out)), r) = Count(fromWorker, r)
                   + (IF Head(worker.out).id = r THEN 1 ELSE 0)
    BY <1>2, <1>3, CountAppend
  <2> QED BY <1>1, <2>1, <2>2, <2>3
<1>5. /\ worker' = [up |-> worker.up, lifecycle |-> worker.lifecycle, out |-> Tail(worker.out),
                    did |-> worker.did]
      /\ worker' \in [up: BOOLEAN, lifecycle: {"UNINIT", "INITIALIZING", "RUNNING", "SHUTDOWN"},
                     out: Seq(Replies), did: SUBSET Methods]
      /\ worker'.up /\ worker'.lifecycle = worker.lifecycle /\ worker'.did = worker.did
      /\ worker'.out = Tail(worker.out)
  <2>1. worker' = [up |-> worker.up, lifecycle |-> worker.lifecycle, out |-> Tail(worker.out),
                   did |-> worker.did]
    BY <1>1, <1>2
  <2> QED BY <1>1, <1>2, <1>3, <2>1
<1>6. Shapes'
  BY <1>1, <1>4, <1>5 DEF RelayInv, Shapes
<1>7. ASSUME NEW r \in Requests PROVE Places(r)' = Places(r)
  <2>1. Places(r)' = answers[r] + Count(fromWorker', r) + Count(Tail(worker.out), r)
          + Count(toWorker.msgs, r) + Count(sup.buf, r) + Count(input.msgs, r)
    BY <1>1, <1>5 DEF Places
  <2>2. /\ answers[r] \in Nat /\ Count(fromWorker, r) \in Nat
        /\ Count(Tail(worker.out), r) \in Nat
        /\ Count(toWorker.msgs, r) \in Nat /\ Count(sup.buf, r) \in Nat
        /\ Count(input.msgs, r) \in Nat
    <3>1. answers[r] \in Nat
      BY DEF RelayInv, Shapes
    <3> QED BY <1>3, <3>1, CountsAre DEF RelayInv
  <2>3. Places(r) = answers[r] + Count(fromWorker, r) + Count(worker.out, r)
          + Count(toWorker.msgs, r) + Count(sup.buf, r) + Count(input.msgs, r)
    BY PlacesIs
  <2>4. /\ Count(worker.out, r) = Count(Tail(worker.out), r)
             + (IF Head(worker.out).id = r THEN 1 ELSE 0)
        /\ Count(fromWorker', r) = Count(fromWorker, r)
             + (IF Head(worker.out).id = r THEN 1 ELSE 0)
    BY <1>3, <1>4
  <2> QED BY <2>1, <2>2, <2>3, <2>4
<1>8. Draining'
  BY <1>1, <1>4, <1>5 DEF RelayInv, Draining, Drains
<1>9. Initialized'
  BY <1>5 DEF RelayInv, Initialized
<1> QED BY <1>1, <1>6, <1>7, <1>8, <1>9, MovesKeep

\* What the parent's own record can become.
SupShape(s) ==
  /\ s \in [at: {"poll", "out", "in", "reap", "dead", "broken", "sleep", "ended"},
            ready: SUBSET {"out", "in", "chld"}, buf: Seq(Asks), editor_eof: BOOLEAN,
            worker_eof: BOOLEAN, end: {"none", "sigpipe", "eof", "bailout", "setup"}]
  /\ s.buf # <<>> => s.at = "in"
  /\ s.end # "none" <=> s.at = "ended"

\* poll() reports a death together with the output that came before it.
LEMMA PollKeeps ==
  ASSUME RelayInv, Poll
  PROVE  RelayInv'
<1>1. /\ sup.at = "poll" /\ sup' = [sup EXCEPT !.at = "out", !.ready = Readable]
      /\ UNCHANGED <<input, answers, worker, toWorker, fromWorker, chld, asked, inputs, mishaps>>
  BY DEF Poll, pipes, editor, wire
<1>2. SupShape(sup) /\ Readable \subseteq {"out", "in", "chld"}
  BY DEF RelayInv, Shapes, SupShape, Readable
<1>3. /\ sup' = [at |-> "out", ready |-> Readable, buf |-> sup.buf, end |-> sup.end,
                 editor_eof |-> sup.editor_eof, worker_eof |-> sup.worker_eof]
      /\ SupShape(sup')
  <2>1. sup' = [at |-> "out", ready |-> Readable, buf |-> sup.buf, end |-> sup.end,
                editor_eof |-> sup.editor_eof, worker_eof |-> sup.worker_eof]
    BY <1>1, <1>2 DEF SupShape
  <2>2. sup.buf = <<>> /\ sup.end = "none"
    BY <1>1, <1>2 DEF SupShape
  <2> QED BY <1>2, <2>1, <2>2 DEF SupShape
<1>4. Shapes'
  BY <1>1, <1>3 DEF RelayInv, Shapes, SupShape
<1>5. \A r \in Requests : Places(r)' = Places(r)
  BY <1>1, <1>3 DEF Places
<1>6. /\ "out" \in Readable <=> ~sup.worker_eof /\ (fromWorker # <<>> \/ ~worker.up)
      /\ "chld" \in Readable <=> chld
  BY DEF Readable
<1>7. Draining'
  BY <1>1, <1>3, <1>6 DEF RelayInv, Draining, Drains
<1>8. Initialized'
  BY <1>1 DEF RelayInv, Initialized
<1> QED BY <1>1, <1>4, <1>5, <1>7, <1>8, MovesKeep

\* All the places a request can be in.
LEMMA CountsOf ==
  ASSUME RelayInv, NEW r \in Requests
  PROVE  /\ answers[r] \in Nat
         /\ Count(fromWorker, r) \in Nat /\ Count(worker.out, r) \in Nat
         /\ Count(toWorker.msgs, r) \in Nat /\ Count(sup.buf, r) \in Nat
         /\ Count(input.msgs, r) \in Nat
<1>1. answers[r] \in Nat
  BY DEF RelayInv, Shapes
<1> QED BY <1>1, CountsAre DEF RelayInv

\* The parent reads all that the worker has written: a pipe is no longer than a
\* read, so nothing stays behind.
LEMMA ForwardOutKeeps ==
  ASSUME SupervisorAssumption, RelayInv, ForwardOut
  PROVE  RelayInv'
<1>1. sup.at = "out" /\ UNCHANGED <<input, worker, toWorker, chld, asked, inputs, mishaps>>
  BY DEF ForwardOut, editor, wire
<1>2. SupShape(sup) /\ sup.buf = <<>> /\ sup.end = "none"
  BY <1>1 DEF RelayInv, Shapes, SupShape
<1>3. CASE "out" \in sup.ready
  <2>1. /\ answers' = [r \in Requests |->
                        answers[r] + IF torn THEN 0 ELSE Count(Prefix(fromWorker), r)]
        /\ fromWorker' = Rest(fromWorker)
        /\ sup' = [sup EXCEPT !.at = "in", !.worker_eof = fromWorker = <<>>]
    BY <1>3 DEF ForwardOut
  <2>2. fromWorker \in Seq(Replies) /\ Len(fromWorker) <= Chunk
    <3>1. fromWorker \in Seq(Replies) /\ Len(fromWorker) <= Pipe
      BY DEF RelayInv, Shapes
    <3> QED BY <3>1, LenProperties DEF SupervisorAssumption
  <2>3. /\ Prefix(fromWorker) \in Seq(Replies) /\ Rest(fromWorker) = <<>>
        /\ \A r : Count(fromWorker, r) = Count(Prefix(fromWorker), r) + Count(Rest(fromWorker), r)
    BY <2>2, CountRead
  <2>4. \A r : Count(Prefix(fromWorker), r) \in Nat /\ Count(<<>>, r) = 0
    BY <2>3, CountType, CountEmpty
  <2>5. \A r : Count(fromWorker, r) = Count(Prefix(fromWorker), r)
    BY <2>3, <2>4
  <2>6. answers' \in [Requests -> Nat]
    BY <2>1, <2>4 DEF RelayInv, Shapes
  <2>7. /\ sup' = [at |-> "in", ready |-> sup.ready, buf |-> sup.buf, end |-> sup.end,
                   editor_eof |-> sup.editor_eof, worker_eof |-> (fromWorker = <<>>)]
        /\ SupShape(sup')
    <3>1. sup' = [at |-> "in", ready |-> sup.ready, buf |-> sup.buf, end |-> sup.end,
                  editor_eof |-> sup.editor_eof, worker_eof |-> (fromWorker = <<>>)]
      BY <1>2, <2>1 DEF SupShape
    <3> QED BY <1>2, <3>1 DEF SupShape
  <2>8. Shapes'
    <3>1. fromWorker' \in Seq(Replies) /\ Len(fromWorker') <= Pipe
      BY <2>1, <2>3 DEF SupervisorAssumption
    <3> QED BY <1>1, <2>6, <2>7, <3>1 DEF RelayInv, Shapes, SupShape
  <2>9. ASSUME NEW r \in Requests PROVE Places(r)' \in Nat /\ Places(r)' <= Places(r)
    <3> DEFINE n == IF torn THEN 0 ELSE Count(fromWorker, r)
    <3>1. Places(r)' = (answers[r] + n) + 0 + Count(worker.out, r)
            + Count(toWorker.msgs, r) + Count(sup.buf, r) + Count(input.msgs, r)
      <4>1. answers'[r] = answers[r] + n /\ Count(fromWorker', r) = 0
        BY <2>1, <2>3, <2>4, <2>5
      <4> QED BY <1>1, <2>7, <4>1 DEF Places
    <3>2. Places(r) = answers[r] + Count(fromWorker, r) + Count(worker.out, r)
            + Count(toWorker.msgs, r) + Count(sup.buf, r) + Count(input.msgs, r)
      BY PlacesIs
    <3>3. /\ answers[r] \in Nat
          /\ Count(fromWorker, r) \in Nat /\ Count(worker.out, r) \in Nat
          /\ Count(toWorker.msgs, r) \in Nat /\ Count(sup.buf, r) \in Nat
          /\ Count(input.msgs, r) \in Nat
      BY CountsOf
    <3>4. n \in Nat /\ n <= Count(fromWorker, r)
      BY <3>3
    <3> HIDE DEF n
    <3> QED BY <3>1, <3>2, <3>3, <3>4
  <2>12. Once'
    BY <1>1, <2>9, OnceFollows DEF RelayInv
  <2>10. Draining'
    <3>1. SUFFICES ASSUME mishaps' = 0 PROVE Drains'
      BY DEF Draining
    <3>2. Drains
      BY <1>1, <3>1 DEF RelayInv, Draining
    <3>3. fromWorker' = <<>> /\ worker' = worker /\ chld' = chld
      BY <1>1, <2>1, <2>3
    <3>4. /\ sup'.at = "in" /\ sup'.ready = sup.ready
          /\ sup'.worker_eof = (fromWorker = <<>>)
      BY <2>7
    <3>5. fromWorker = <<>> => ~worker.up
      BY <1>1, <1>3, <3>2 DEF Drains
    <3>6. "chld" \in sup.ready => ~worker.up
      BY <1>1, <3>2 DEF Drains
    <3>7. chld => ~worker.up
      BY <3>2 DEF Drains
    <3> QED BY <3>3, <3>4, <3>5, <3>6, <3>7 DEF Drains
  <2>11. Initialized'
    BY <1>1 DEF RelayInv, Initialized
  <2> QED BY <2>8, <2>10, <2>11, <2>12 DEF RelayInv
<1>4. CASE "out" \notin sup.ready
  <2>1. sup' = [sup EXCEPT !.at = "in"] /\ UNCHANGED <<answers, fromWorker>>
    BY <1>4 DEF ForwardOut
  <2>2. /\ sup' = [at |-> "in", ready |-> sup.ready, buf |-> sup.buf, end |-> sup.end,
                   editor_eof |-> sup.editor_eof, worker_eof |-> sup.worker_eof]
        /\ SupShape(sup')
    <3>1. sup' = [at |-> "in", ready |-> sup.ready, buf |-> sup.buf, end |-> sup.end,
                  editor_eof |-> sup.editor_eof, worker_eof |-> sup.worker_eof]
      BY <1>2, <2>1 DEF SupShape
    <3> QED BY <1>2, <3>1 DEF SupShape
  <2>3. Shapes'
    BY <1>1, <2>1, <2>2 DEF RelayInv, Shapes, SupShape
  <2>4. \A r \in Requests : Places(r)' = Places(r)
    BY <1>1, <2>1, <2>2 DEF Places
  <2>5. Draining'
    BY <1>1, <1>4, <2>1, <2>2 DEF RelayInv, Draining, Drains
  <2>6. Initialized'
    BY <1>1 DEF RelayInv, Initialized
  <2> QED BY <1>1, <2>3, <2>4, <2>5, <2>6, MovesKeep
<1> QED BY <1>3, <1>4

\* The parent reads from the editor into its buffer, or sees its end.
LEMMA ReadInKeeps ==
  ASSUME SupervisorAssumption, RelayInv, ReadIn
  PROVE  RelayInv'
<1>1. /\ sup.at = "in" /\ sup.buf = <<>>
      /\ UNCHANGED <<answers, worker, fromWorker, chld, asked, inputs, mishaps>>
  BY DEF ReadIn, editor, wire
<1>2. SupShape(sup) /\ sup.end = "none"
  BY <1>1 DEF RelayInv, Shapes, SupShape
<1>3. Initialized'
  BY <1>1 DEF RelayInv, Initialized
<1>4. CASE "in" \notin sup.ready
  <2>1. sup' = [sup EXCEPT !.at = "reap"] /\ UNCHANGED <<input, toWorker>>
    BY <1>4 DEF ReadIn
  <2>2. /\ sup' = [at |-> "reap", ready |-> sup.ready, buf |-> sup.buf, end |-> sup.end,
                   editor_eof |-> sup.editor_eof, worker_eof |-> sup.worker_eof]
        /\ SupShape(sup')
    <3>1. sup' = [at |-> "reap", ready |-> sup.ready, buf |-> sup.buf, end |-> sup.end,
                  editor_eof |-> sup.editor_eof, worker_eof |-> sup.worker_eof]
      BY <1>2, <2>1 DEF SupShape
    <3> QED BY <1>1, <1>2, <3>1 DEF SupShape
  <2>3. Shapes'
    BY <1>1, <2>1, <2>2 DEF RelayInv, Shapes, SupShape
  <2>4. \A r \in Requests : Places(r)' = Places(r)
    BY <1>1, <2>1, <2>2 DEF Places
  <2>5. Draining'
    BY <1>1, <2>1, <2>2 DEF RelayInv, Draining, Drains
  <2> QED BY <1>1, <1>3, <2>3, <2>4, <2>5, MovesKeep
<1>5. CASE "in" \in sup.ready /\ input.msgs = <<>>
  <2>1. /\ sup' = [sup EXCEPT !.at = "reap", !.editor_eof = TRUE]
        /\ toWorker' = [toWorker EXCEPT !.closed = TRUE] /\ UNCHANGED input
    BY <1>5 DEF ReadIn, CloseWorkerIn
  <2>2. /\ sup' = [at |-> "reap", ready |-> sup.ready, buf |-> sup.buf, end |-> sup.end,
                   editor_eof |-> TRUE, worker_eof |-> sup.worker_eof]
        /\ SupShape(sup')
    <3>1. sup' = [at |-> "reap", ready |-> sup.ready, buf |-> sup.buf, end |-> sup.end,
                  editor_eof |-> TRUE, worker_eof |-> sup.worker_eof]
      BY <1>2, <2>1 DEF SupShape
    <3> QED BY <1>1, <1>2, <3>1 DEF SupShape
  <2>3. toWorker' \in Streams /\ toWorker'.msgs = toWorker.msgs
    BY <2>1 DEF RelayInv, Shapes, Streams
  <2>4. Shapes'
    BY <1>1, <2>1, <2>2, <2>3 DEF RelayInv, Shapes, SupShape
  <2>5. \A r \in Requests : Places(r)' = Places(r)
    BY <1>1, <2>1, <2>2, <2>3 DEF Places
  <2>6. Draining'
    BY <1>1, <2>2 DEF RelayInv, Draining, Drains
  <2> QED BY <1>1, <1>3, <2>4, <2>5, <2>6, MovesKeep
<1>6. CASE "in" \in sup.ready /\ input.msgs # <<>>
  <2>1. PICK read \in Reads(input.msgs) :
          /\ sup' = [sup EXCEPT !.buf = read[1]]
          /\ input' = [input EXCEPT !.msgs = read[2]] /\ UNCHANGED toWorker
    BY <1>6 DEF ReadIn
  <2>2. input.msgs \in Seq(Asks) /\ input \in Streams
    BY DEF RelayInv, Shapes, Streams
  <2>3. /\ read[1] \in Seq(Asks) /\ read[2] \in Seq(Asks)
        /\ \A r \in Requests : Count(input.msgs, r) = Count(read[1], r) + Count(read[2], r)
    BY <1>6, <2>2, ReadsFacts
  <2>4. \A r : /\ Count(read[1], r) \in Nat /\ Count(read[2], r) \in Nat
               /\ Count(<<>>, r) = 0
    BY <2>3, CountType, CountEmpty
  <2>5. /\ sup' = [at |-> "in", ready |-> sup.ready, buf |-> read[1], end |-> sup.end,
                   editor_eof |-> sup.editor_eof, worker_eof |-> sup.worker_eof]
        /\ SupShape(sup')
    <3>1. sup' = [at |-> "in", ready |-> sup.ready, buf |-> read[1], end |-> sup.end,
                  editor_eof |-> sup.editor_eof, worker_eof |-> sup.worker_eof]
      BY <1>1, <1>2, <2>1 DEF SupShape
    <3> QED BY <1>2, <2>3, <3>1 DEF SupShape
  <2>6. input' \in Streams /\ input'.msgs = read[2]
    BY <2>1, <2>2, <2>3 DEF Streams
  <2>7. Shapes'
    BY <1>1, <2>1, <2>5, <2>6 DEF RelayInv, Shapes, SupShape
  <2>8. ASSUME NEW r \in Requests PROVE Places(r)' = Places(r)
    <3>1. Places(r)' = answers[r] + Count(fromWorker, r) + Count(worker.out, r)
            + Count(toWorker.msgs, r) + Count(read[1], r) + Count(read[2], r)
      BY <1>1, <2>1, <2>5, <2>6 DEF Places
    <3>2. Places(r) = answers[r] + Count(fromWorker, r) + Count(worker.out, r)
            + Count(toWorker.msgs, r) + 0 + Count(input.msgs, r)
      BY <1>1, <2>4, PlacesIs
    <3>3. /\ answers[r] \in Nat
          /\ Count(fromWorker, r) \in Nat /\ Count(worker.out, r) \in Nat
          /\ Count(toWorker.msgs, r) \in Nat
      BY CountsOf
    <3>4. /\ Count(input.msgs, r) = Count(read[1], r) + Count(read[2], r)
          /\ Count(read[1], r) \in Nat /\ Count(read[2], r) \in Nat
      BY <2>3, <2>4
    <3> QED BY <3>1, <3>2, <3>3, <3>4
  <2>9. Draining'
    BY <1>1, <2>5 DEF RelayInv, Draining, Drains
  <2> QED BY <1>1, <1>3, <2>7, <2>8, <2>9, MovesKeep
<1> QED BY <1>4, <1>5, <1>6

\* A step of the parent that may lose what is in a pipe or a buffer, whole.
LEMMA LossKeeps ==
  ASSUME RelayInv, Shapes', Draining', Initialized', UNCHANGED <<answers, input, asked>>,
         fromWorker' \in {fromWorker, <<>>}, worker'.out \in {worker.out, <<>>},
         toWorker'.msgs \in {toWorker.msgs, <<>>}, sup'.buf \in {sup.buf, <<>>}
  PROVE  RelayInv'
<1>1. ASSUME NEW r \in Requests PROVE Places(r)' \in Nat /\ Places(r)' <= Places(r)
  <2>1. /\ answers[r] \in Nat
        /\ Count(fromWorker, r) \in Nat /\ Count(worker.out, r) \in Nat
        /\ Count(toWorker.msgs, r) \in Nat /\ Count(sup.buf, r) \in Nat
        /\ Count(input.msgs, r) \in Nat
    BY CountsOf
  <2>2. /\ Count(fromWorker', r) \in {Count(fromWorker, r), 0}
        /\ Count(worker'.out, r) \in {Count(worker.out, r), 0}
        /\ Count(toWorker'.msgs, r) \in {Count(toWorker.msgs, r), 0}
        /\ Count(sup'.buf, r) \in {Count(sup.buf, r), 0}
    BY CountEmpty
  <2>3. Places(r)' = answers[r] + Count(fromWorker', r) + Count(worker'.out, r)
          + Count(toWorker'.msgs, r) + Count(sup'.buf, r) + Count(input.msgs, r)
    BY DEF Places
  <2>4. Places(r) = answers[r] + Count(fromWorker, r) + Count(worker.out, r)
          + Count(toWorker.msgs, r) + Count(sup.buf, r) + Count(input.msgs, r)
    BY PlacesIs
  <2>5. /\ Count(fromWorker', r) \in Nat /\ Count(fromWorker', r) <= Count(fromWorker, r)
        /\ Count(worker'.out, r) \in Nat /\ Count(worker'.out, r) <= Count(worker.out, r)
        /\ Count(toWorker'.msgs, r) \in Nat /\ Count(toWorker'.msgs, r) <= Count(toWorker.msgs, r)
        /\ Count(sup'.buf, r) \in Nat /\ Count(sup'.buf, r) <= Count(sup.buf, r)
    <3>1. \A m \in Nat : \A n \in {m, 0} : n \in Nat /\ n <= m
      OBVIOUS
    <3> QED BY <2>1, <2>2, <3>1
  <2>6. \A a, f, w, t, s, i \in Nat, f1, w1, t1, s1 \in Nat :
          f1 <= f /\ w1 <= w /\ t1 <= t /\ s1 <= s =>
            /\ a + f1 + w1 + t1 + s1 + i \in Nat
            /\ a + f1 + w1 + t1 + s1 + i <= a + f + w + t + s + i
    OBVIOUS
  <2> HIDE DEF Count, Places
  <2> QED BY ONLY <2>1, <2>3, <2>4, <2>5, <2>6
<1> QED BY <1>1, OnceFollows DEF RelayInv

\* The parent that has ended.
LEMMA EndedIs ==
  ASSUME NEW why \in {"sigpipe", "eof", "bailout", "setup"}
  PROVE  /\ SupShape(Ended(why)) /\ Ended(why).at = "ended" /\ Ended(why).buf = <<>>
         /\ ~Ended(why).worker_eof /\ Ended(why).end = why
<1>0. PICK s : s = Ended(why)
  OBVIOUS
<1>1. s = [at |-> "ended", ready |-> {}, buf |-> <<>>, editor_eof |-> FALSE,
           worker_eof |-> FALSE, end |-> why]
  BY <1>0 DEF Ended, Fresh
<1>2. <<>> \in Seq(Asks)
  OBVIOUS
<1>3. /\ SupShape(s) /\ s.at = "ended" /\ s.buf = <<>> /\ ~s.worker_eof /\ s.end = why
  BY <1>1, <1>2 DEF SupShape
<1> QED BY <1>0, <1>3

\* A message goes from the buffer into the pipe, or SIGPIPE ends the parent.
LEMMA WriteInKeeps ==
  ASSUME SupervisorAssumption, RelayInv, WriteIn
  PROVE  RelayInv'
<1>1. /\ sup.at = "in" /\ sup.buf # <<>>
      /\ UNCHANGED <<input, answers, worker, fromWorker, chld, asked, inputs, mishaps>>
  BY DEF WriteIn, editor, wire
<1>2. SupShape(sup) /\ sup.end = "none" /\ sup.buf \in Seq(Asks)
  BY <1>1 DEF RelayInv, Shapes, SupShape
<1>3. Initialized'
  BY <1>1 DEF RelayInv, Initialized
<1>4. CASE ~worker.up
  <2>1. sup' = Ended("sigpipe") /\ UNCHANGED toWorker
    BY <1>4 DEF WriteIn
  <2>2. SupShape(sup') /\ sup'.at = "ended" /\ sup'.buf = <<>> /\ ~sup'.worker_eof
    BY <2>1, EndedIs
  <2>3. Shapes'
    BY <1>1, <2>1, <2>2 DEF RelayInv, Shapes, SupShape
  <2>4. Draining'
    BY <1>1, <2>1, <2>2 DEF RelayInv, Draining, Drains
  <2> QED BY <1>1, <1>3, <2>1, <2>2, <2>3, <2>4, LossKeeps
<1>5. CASE worker.up
  <2>1. /\ Len(Joined(toWorker.msgs, Head(sup.buf))) <= Pipe
        /\ toWorker' = [toWorker EXCEPT !.msgs = Joined(@, Head(sup.buf))]
        /\ sup' = [sup EXCEPT !.buf = Tail(@),
                              !.at = IF Len(sup.buf) = 1 THEN "reap" ELSE "in"]
    BY <1>5 DEF WriteIn
  <2>2. /\ Head(sup.buf) \in Asks /\ Tail(sup.buf) \in Seq(Asks)
        /\ Len(Tail(sup.buf)) = Len(sup.buf) - 1 /\ Len(sup.buf) \in Nat \ {0}
        /\ \A r : Count(sup.buf, r) = Count(Tail(sup.buf), r)
                     + (IF Head(sup.buf).id = r THEN 1 ELSE 0)
        /\ \A r : Count(Tail(sup.buf), r) \in Nat
    BY <1>1, <1>2, CountTail, CountType
  <2>3. Len(sup.buf) = 1 => Tail(sup.buf) = <<>>
    <3>1. Len(sup.buf) = 1 => Len(Tail(sup.buf)) = 0
      BY <2>2
    <3> QED BY <2>2, <3>1, EmptySeq
  <2>4. toWorker \in Streams /\ toWorker.msgs \in Seq(Asks)
    BY DEF RelayInv, Shapes, Streams
  <2>5. /\ Joined(toWorker.msgs, Head(sup.buf)) \in Seq(Asks)
        /\ \A r \in Requests :
             Count(Joined(toWorker.msgs, Head(sup.buf)), r) = Count(toWorker.msgs, r)
               + (IF Head(sup.buf).id = r THEN 1 ELSE 0)
    BY <2>2, <2>4, JoinedFacts
  <2>6. /\ toWorker' \in Streams /\ toWorker'.msgs = Joined(toWorker.msgs, Head(sup.buf))
        /\ Len(toWorker'.msgs) <= Pipe
    <3>1. toWorker' = [msgs |-> Joined(toWorker.msgs, Head(sup.buf)), closed |-> toWorker.closed]
          /\ toWorker.closed \in BOOLEAN
      BY <2>1, <2>4 DEF Streams
    <3> QED BY <2>1, <2>5, <3>1 DEF Streams
  <2>7. /\ sup' = [at |-> IF Len(sup.buf) = 1 THEN "reap" ELSE "in", ready |-> sup.ready,
                   buf |-> Tail(sup.buf), end |-> sup.end,
                   editor_eof |-> sup.editor_eof, worker_eof |-> sup.worker_eof]
        /\ SupShape(sup')
    <3>1. sup' = [at |-> IF Len(sup.buf) = 1 THEN "reap" ELSE "in", ready |-> sup.ready,
                  buf |-> Tail(sup.buf), end |-> sup.end,
                  editor_eof |-> sup.editor_eof, worker_eof |-> sup.worker_eof]
      BY <1>2, <2>1 DEF SupShape
    <3> QED BY <1>2, <2>2, <2>3, <3>1 DEF SupShape
  <2>8. Shapes'
    BY <1>1, <2>6, <2>7 DEF RelayInv, Shapes, SupShape
  <2>9. ASSUME NEW r \in Requests PROVE Places(r)' = Places(r)
    <3>1. Places(r)' = answers[r] + Count(fromWorker, r) + Count(worker.out, r)
            + Count(Joined(toWorker.msgs, Head(sup.buf)), r) + Count(Tail(sup.buf), r)
            + Count(input.msgs, r)
      BY <1>1, <2>6, <2>7 DEF Places
    <3>2. Places(r) = answers[r] + Count(fromWorker, r) + Count(worker.out, r)
            + Count(toWorker.msgs, r) + Count(sup.buf, r) + Count(input.msgs, r)
      BY PlacesIs
    <3>3. /\ answers[r] \in Nat
          /\ Count(fromWorker, r) \in Nat /\ Count(worker.out, r) \in Nat
          /\ Count(toWorker.msgs, r) \in Nat /\ Count(input.msgs, r) \in Nat
      BY CountsOf
    <3>4. /\ Count(sup.buf, r) = Count(Tail(sup.buf), r)
               + (IF Head(sup.buf).id = r THEN 1 ELSE 0)
          /\ Count(Joined(toWorker.msgs, Head(sup.buf)), r) = Count(toWorker.msgs, r)
               + (IF Head(sup.buf).id = r THEN 1 ELSE 0)
          /\ Count(Tail(sup.buf), r) \in Nat
      BY <2>2, <2>5
    <3> QED BY <3>1, <3>2, <3>3, <3>4
  <2>10. Draining'
    BY <1>1, <1>5, <2>7 DEF RelayInv, Draining, Drains
  <2> QED BY <1>1, <1>3, <2>8, <2>9, <2>10, MovesKeep
<1> QED BY <1>4, <1>5

\* waitpid: the worker is seen dead only when its output has been read.
LEMMA ReapKeeps ==
  ASSUME RelayInv, Reap
  PROVE  RelayInv'
<1>1. /\ sup.at = "reap" /\ chld' = (chld /\ "chld" \notin sup.ready)
      /\ UNCHANGED <<input, answers, worker, toWorker, fromWorker, asked, inputs, mishaps>>
  BY DEF Reap, pipes, editor, wire
<1>2. SupShape(sup) /\ sup.end = "none" /\ sup.buf = <<>>
  BY <1>1 DEF RelayInv, Shapes, SupShape
<1>3. Initialized'
  BY <1>1 DEF RelayInv, Initialized
<1>4. ASSUME NEW at \in {"poll", "dead"}, sup' = [sup EXCEPT !.at = at]
      PROVE  /\ sup'.at = at /\ sup'.worker_eof = sup.worker_eof /\ SupShape(sup')
             /\ sup'.buf = <<>>
  <2>1. sup' = [at |-> at, ready |-> sup.ready, buf |-> sup.buf, end |-> sup.end,
                editor_eof |-> sup.editor_eof, worker_eof |-> sup.worker_eof]
    BY <1>2, <1>4 DEF SupShape
  <2> QED BY <1>2, <2>1 DEF SupShape
<1>5. CASE "chld" \in sup.ready /\ ~worker.up /\ sup.editor_eof
  <2>1. sup' = Ended("eof")
    BY <1>5 DEF Reap
  <2>2. SupShape(sup') /\ sup'.at = "ended" /\ sup'.buf = <<>> /\ ~sup'.worker_eof
    BY <2>1, EndedIs
  <2>3. Shapes'
    BY <1>1, <2>2 DEF RelayInv, Shapes, SupShape
  <2>4. Draining'
    BY <1>1, <2>2 DEF RelayInv, Draining, Drains
  <2> QED BY <1>1, <1>3, <2>2, <2>3, <2>4, LossKeeps
<1>6. CASE "chld" \in sup.ready /\ ~worker.up /\ ~sup.editor_eof
  <2>1. sup' = [sup EXCEPT !.at = "dead"]
    BY <1>6 DEF Reap
  <2>2. /\ sup'.at = "dead" /\ sup'.worker_eof = sup.worker_eof /\ SupShape(sup')
        /\ sup'.buf = <<>>
    BY <1>4, <2>1
  <2>3. Shapes'
    BY <1>1, <2>2 DEF RelayInv, Shapes, SupShape
  <2>4. Draining'
    BY <1>1, <1>6, <2>2 DEF RelayInv, Draining, Drains
  <2> QED BY <1>1, <1>3, <2>2, <2>3, <2>4, LossKeeps
<1>7. CASE ~("chld" \in sup.ready /\ ~worker.up)
  <2>1. sup' = [sup EXCEPT !.at = "poll"]
    BY <1>7 DEF Reap
  <2>2. /\ sup'.at = "poll" /\ sup'.worker_eof = sup.worker_eof /\ SupShape(sup')
        /\ sup'.buf = <<>>
    BY <1>4, <2>1
  <2>3. Shapes'
    BY <1>1, <2>2 DEF RelayInv, Shapes, SupShape
  <2>4. Draining'
    BY <1>1, <2>2 DEF RelayInv, Draining, Drains
  <2> QED BY <1>1, <1>3, <2>2, <2>3, <2>4, LossKeeps
<1> QED BY <1>5, <1>6, <1>7

\* What was on its way to the dead worker is lost with the pipes.
LEMMA BuryKeeps ==
  ASSUME SupervisorAssumption, RelayInv, Bury
  PROVE  RelayInv'
<1>1. /\ sup.at \in {"dead", "broken"} /\ toWorker' = NoInput /\ fromWorker' = <<>>
      /\ worker' = [worker EXCEPT !.up = FALSE, !.out = <<>>]
      /\ UNCHANGED <<input, answers, chld, asked, inputs, mishaps>>
  BY DEF Bury, editor, wire
<1>2. /\ SupShape(sup') /\ sup'.at \in {"sleep", "ended"} /\ sup'.buf = <<>>
      /\ ~sup'.worker_eof
  <2>1. CASE sup' = Ended("bailout")
    BY <2>1, EndedIs
  <2>2. CASE sup' = [Fresh EXCEPT !.at = "sleep"]
    <3>1. sup' = [at |-> "sleep", ready |-> {}, buf |-> <<>>, editor_eof |-> FALSE,
                  worker_eof |-> FALSE, end |-> "none"]
      BY <2>2 DEF Fresh
    <3>2. <<>> \in Seq(Asks)
      OBVIOUS
    <3> QED BY <3>1, <3>2 DEF SupShape
  <2> QED BY <2>1, <2>2 DEF Bury
<1>3. toWorker' \in Streams /\ toWorker'.msgs = <<>> /\ Len(toWorker'.msgs) <= Pipe
  BY <1>1 DEF NoInput, Streams, SupervisorAssumption
<1>4. fromWorker' \in Seq(Replies) /\ Len(fromWorker') <= Pipe
  BY <1>1 DEF SupervisorAssumption
<1>7. /\ worker' \in [up: BOOLEAN, lifecycle: {"UNINIT", "INITIALIZING", "RUNNING", "SHUTDOWN"},
                      out: Seq(Replies), did: SUBSET Methods]
      /\ ~worker'.up /\ worker'.out = <<>>
      /\ worker'.lifecycle = worker.lifecycle /\ worker'.did = worker.did
  <2>1. <<>> \in Seq(Replies)
    OBVIOUS
  <2> QED BY <1>1, <2>1 DEF RelayInv, Shapes
<1>5. Shapes'
  BY <1>1, <1>2, <1>3, <1>4, <1>7 DEF RelayInv, Shapes, SupShape
<1>6. Draining' /\ Initialized'
  BY <1>1, <1>2, <1>7 DEF RelayInv, Draining, Drains, Initialized
<1> QED BY <1>1, <1>2, <1>3, <1>5, <1>6, <1>7, LossKeeps

\* A new turn of the loop, and a new worker.
LEMMA FreshIs == SupShape(Fresh) /\ Fresh.at = "poll" /\ Fresh.buf = <<>> /\ ~Fresh.worker_eof
<1>1. <<>> \in Seq(Asks)
  OBVIOUS
<1> QED BY <1>1 DEF SupShape, Fresh

LEMMA StartedIs ==
  /\ Started \in [up: BOOLEAN, lifecycle: {"UNINIT", "INITIALIZING", "RUNNING", "SHUTDOWN"},
                  out: Seq(Replies), did: SUBSET Methods]
  /\ Started.up /\ Started.out = <<>> /\ Started.lifecycle = "UNINIT" /\ Started.did = {}
<1>1. <<>> \in Seq(Replies)
  OBVIOUS
<1> QED BY <1>1 DEF Started

\* The next worker starts with empty pipes and has been told nothing.
LEMMA RespawnKeeps ==
  ASSUME RelayInv, Respawn
  PROVE  RelayInv'
<1>1. /\ sup.at = "sleep"
      /\ UNCHANGED <<input, answers, toWorker, fromWorker, chld, asked, inputs, mishaps>>
  BY DEF Respawn, pipes, editor, wire
<1>2. CASE sup' = Fresh /\ worker' = Started
  <2>1. Shapes'
    BY <1>1, <1>2, FreshIs, StartedIs DEF RelayInv, Shapes, SupShape
  <2>2. Draining' /\ Initialized'
    BY <1>1, <1>2, FreshIs, StartedIs DEF RelayInv, Draining, Drains, Initialized
  <2> QED BY <1>1, <1>2, <2>1, <2>2, FreshIs, StartedIs, LossKeeps
<1>3. CASE sup' = Ended("setup") /\ UNCHANGED worker
  <2>1. SupShape(sup') /\ sup'.at = "ended" /\ sup'.buf = <<>> /\ ~sup'.worker_eof
    BY <1>3, EndedIs
  <2>2. Shapes'
    BY <1>1, <1>3, <2>1 DEF RelayInv, Shapes, SupShape
  <2>3. Draining' /\ Initialized'
    BY <1>1, <1>3, <2>1 DEF RelayInv, Draining, Drains, Initialized
  <2> QED BY <1>1, <1>3, <2>1, <2>2, <2>3, LossKeeps
<1> QED BY <1>2, <1>3 DEF Respawn

\* SIGCHLD without a death, and poll() failing: neither doubles a request.
LEMMA SignalKeeps ==
  ASSUME RelayInv, Signal
  PROVE  RelayInv'
<1>1. /\ chld' = TRUE /\ mishaps' = mishaps + 1 /\ mishaps \in Nat
      /\ UNCHANGED <<input, answers, sup, worker, toWorker, fromWorker, asked, inputs>>
  BY DEF Signal, pipes, editor, RelayInv, Shapes
<1>2. mishaps' \in Nat /\ mishaps' # 0
  BY <1>1
<1>3. Shapes'
  BY <1>1, <1>2 DEF RelayInv, Shapes
<1>4. Draining' /\ Initialized'
  BY <1>1, <1>2 DEF RelayInv, Draining, Initialized
<1>5. \A r \in Requests : Places(r)' = Places(r)
  BY <1>1 DEF Places
<1> QED BY <1>1, <1>3, <1>4, <1>5, MovesKeep

LEMMA PollFailsKeeps ==
  ASSUME RelayInv, PollFails
  PROVE  RelayInv'
<1>1. /\ sup.at = "poll" /\ mishaps' = mishaps + 1 /\ mishaps \in Nat
      /\ sup' = Ended("eof") \/ sup' = [sup EXCEPT !.at = "broken"]
      /\ UNCHANGED <<input, answers, worker, toWorker, fromWorker, chld, asked, inputs>>
  BY DEF PollFails, pipes, editor, RelayInv, Shapes
<1>2. mishaps' \in Nat /\ mishaps' # 0
  BY <1>1
<1>3. SupShape(sup') /\ sup'.buf = <<>>
  <2>1. CASE sup' = Ended("eof")
    BY <2>1, EndedIs
  <2>2. CASE sup' = [sup EXCEPT !.at = "broken"]
    <3>1. SupShape(sup) /\ sup.end = "none" /\ sup.buf = <<>>
      BY <1>1 DEF RelayInv, Shapes, SupShape
    <3>2. sup' = [at |-> "broken", ready |-> sup.ready, buf |-> sup.buf, end |-> sup.end,
                  editor_eof |-> sup.editor_eof, worker_eof |-> sup.worker_eof]
      BY <2>2, <3>1 DEF SupShape
    <3> QED BY <3>1, <3>2 DEF SupShape
  <2> QED BY <1>1, <2>1, <2>2
<1>4. Shapes'
  BY <1>1, <1>2, <1>3 DEF RelayInv, Shapes, SupShape
<1>5. Draining' /\ Initialized'
  BY <1>1, <1>2 DEF RelayInv, Draining, Initialized
<1> QED BY <1>1, <1>3, <1>4, <1>5, LossKeeps

\* The relay starts right, and every step keeps it so.
LEMMA RelayInit == ASSUME SupervisorAssumption, SupervisorInit PROVE RelayInv
<1>1. <<>> \in Seq(Asks) /\ <<>> \in Seq(Replies)
  OBVIOUS
<1>2. input \in Streams /\ toWorker \in Streams /\ toWorker.msgs = <<>> /\ input.msgs = <<>>
  BY <1>1 DEF SupervisorInit, NoInput, Streams
<1>3. Shapes
  <2>1. SupShape(sup) /\ worker = Started
    BY FreshIs DEF SupervisorInit
  <2>2. fromWorker \in Seq(Replies) /\ Len(fromWorker) <= Pipe /\ Len(toWorker.msgs) <= Pipe
    BY <1>1, <1>2 DEF SupervisorInit, SupervisorAssumption
  <2>3. /\ answers \in [Requests -> Nat] /\ chld \in BOOLEAN
        /\ asked \in Nat /\ inputs \in Nat /\ asked <= inputs /\ inputs <= MaxInput /\ mishaps \in Nat
    <3>1. answers = [r \in Requests |-> 0] /\ chld = FALSE /\ asked = 0 /\ inputs = 0
          /\ mishaps = 0
      BY DEF SupervisorInit
    <3>2. answers \in [Requests -> Nat]
      BY <3>1
    <3>3. MaxInput \in Nat
      BY DEF SupervisorAssumption
    <3>4. asked \in Nat /\ inputs \in Nat /\ asked <= inputs /\ inputs <= MaxInput
      BY <3>1, <3>3
    <3>5. chld \in BOOLEAN
      BY <3>1, Zenon
    <3> QED BY <3>1, <3>2, <3>4, <3>5
  <2> QED BY <1>2, <2>1, <2>2, <2>3, StartedIs DEF Shapes, SupShape
<1>4. \A r \in Requests : Places(r) = 0
  BY <1>2, FreshIs, StartedIs, CountEmpty DEF SupervisorInit, Places
<1>5. Once
  BY <1>4 DEF Once
<1>6. Draining /\ Initialized
  BY FreshIs, StartedIs DEF SupervisorInit, Draining, Drains, Initialized
<1> QED BY <1>3, <1>5, <1>6 DEF RelayInv

LEMMA RelayStep ==
  ASSUME SupervisorAssumption, RelayInv, [SupervisorNext]_SupervisorVars
  PROVE  RelayInv'
<1>1. CASE Parent
  BY <1>1, PollKeeps, ForwardOutKeeps, ReadInKeeps, WriteInKeeps, ReapKeeps, BuryKeeps,
     RespawnKeeps DEF Parent
<1>2. CASE Worker \/ Mishap
  BY <1>2, RouteKeeps, WorkerWritesKeeps, CrashKeeps, SignalKeeps, PollFailsKeeps DEF Worker, Mishap
<1>3. CASE UNCHANGED SupervisorVars
  BY <1>3 DEF SupervisorVars, RelayInv, Shapes, Once, Places, Draining, Drains, Initialized
<1> QED BY <1>1, <1>2, <1>3, EditorKeeps DEF SupervisorNext

-----------------------------------------------------------------------------
(* The breaker. *)

\* Ages of deaths, all alike beyond the window.
Ages == 0..BailoutWin + 1

\* The deaths within the window are the last ones of those remembered, and
\* those remembered before them are beyond it.
Aligned(w, r) ==
  /\ w \in Seq(Ages) /\ r \in Seq(Ages) /\ Len(r) <= Len(w)
  /\ \A i, j \in 1..Len(w) : i <= j => w[i] >= w[j]
  /\ \A i \in 1..Len(r) : r[i] = w[i + (Len(w) - Len(r))] /\ r[i] <= BailoutWin
  /\ \A i \in 1..Len(w) - Len(r) : w[i] > BailoutWin

\* The code remembers enough deaths, and bails out exactly when it must.
BreakerInv ==
  /\ Aligned(window, recent) /\ Len(window) <= BailoutN
  /\ crashes \in 0..4
  /\ BreakerExact

\* Every age is d more, up to the first beyond the window.
LEMMA LaterFacts ==
  ASSUME SupervisorAssumption, NEW s \in Seq(Ages), NEW d \in Nat
  PROVE  /\ Later(s, d) \in Seq(Ages) /\ Len(Later(s, d)) = Len(s)
         /\ \A i \in 1..Len(s) :
              /\ s[i] \in Ages
              /\ Later(s, d)[i] = IF s[i] + d <= BailoutWin + 1 THEN s[i] + d ELSE BailoutWin + 1
<1>1. PICK n \in Nat : n = Len(s) /\ DOMAIN s = 1..n /\ \A i \in 1..n : s[i] \in Ages
  BY LenProperties, ElementOfSeq
<1>2. PICK t : t = [i \in 1..n |-> IF s[i] + d <= BailoutWin + 1 THEN s[i] + d ELSE BailoutWin + 1]
  OBVIOUS
<1>3. Later(s, d) = t
  BY <1>1, <1>2 DEF Later, Min
<1>4. \A i \in 1..n : t[i] \in Ages
  BY <1>1, <1>2 DEF Ages, SupervisorAssumption
<1>5. t \in Seq(Ages) /\ Len(t) = n
  <2>1. DOMAIN t = 1..n /\ t = [i \in 1..n |-> t[i]]
    BY <1>2
  <2>2. t \in Seq(Ages)
    BY <1>1, <1>4, <2>1, IsASeq
  <2> QED BY <1>1, <2>1, <2>2, LenProperties
<1> QED BY <1>1, <1>2, <1>3, <1>5

\* What Within keeps of ages: the part from some place on.
LEMMA WithinFacts ==
  ASSUME SupervisorAssumption, NEW s \in Seq(Ages)
  PROVE  \E f \in 1..Len(s) + 1 :
           /\ Within(s) = SubSeq(s, f, Len(s))
           /\ \A j \in 1..f - 1 : s[j] > BailoutWin
           /\ f <= Len(s) => s[f] <= BailoutWin
<1>1. PICK n \in Nat : n = Len(s) /\ \A i \in 1..n : s[i] \in Ages
  BY LenProperties, ElementOfSeq
<1> DEFINE P(i) == /\ \A j \in 1..i - 1 : s[j] > BailoutWin
                   /\ i <= n => s[i] <= BailoutWin
           S == {i \in 1..n : s[i] <= BailoutWin}
<1>2. \E i \in 1..n + 1 : P(i)
  <2>1. CASE S = {}
    <3>1. \A j \in 1..n : s[j] > BailoutWin
      BY <1>1, <2>1 DEF Ages, SupervisorAssumption
    <3>2. (n + 1) - 1 = n /\ n + 1 \in 1..n + 1 /\ ~(n + 1 <= n)
      BY <1>1
    <3>3. P(n + 1)
      BY <3>1, <3>2
    <3> QED BY <3>2, <3>3
  <2>2. CASE S # {}
    <3>1. S \subseteq Nat
      BY <1>1
    <3>2. PICK x \in S : \A y \in S : x <= y
      BY <2>2, <3>1, LeastElement
    <3>3. x \in 1..n /\ s[x] <= BailoutWin
      BY <3>2
    <3>4. ASSUME NEW j \in 1..x - 1 PROVE s[j] > BailoutWin
      <4>1. j \in 1..n /\ ~(x <= j)
        BY <1>1, <3>3
      <4>2. j \notin S
        BY <3>2, <4>1
      <4> QED BY <1>1, <4>1, <4>2 DEF Ages, SupervisorAssumption
    <3>5. P(x) /\ x \in 1..n + 1
      BY <1>1, <3>3, <3>4
    <3> QED BY <3>5
  <2> QED BY <2>1, <2>2
<1>3. PICK f : f = CHOOSE i \in 1..n + 1 : P(i)
  OBVIOUS
<1>4. f \in 1..n + 1 /\ P(f)
  BY <1>2, <1>3
<1>5. Within(s) = SubSeq(s, f, n)
  BY <1>1, <1>3 DEF Within
<1> QED BY <1>1, <1>4, <1>5

\* Time passes: the code forgets nothing that is within the window.
LEMMA AlignedLater ==
  ASSUME SupervisorAssumption, NEW w, NEW r, Aligned(w, r), NEW d \in Nat
  PROVE  /\ Aligned(Later(w, d), Within(Later(r, d)))
         /\ Len(Later(w, d)) = Len(w) /\ Len(Within(Later(r, d))) <= Len(r)
<1>1. PICK k \in Nat, m \in Nat : k = Len(w) /\ m = Len(r) /\ m <= k
  BY LenProperties DEF Aligned
<1>2. PICK o \in Nat : o = k - m /\ k = o + m
  BY <1>1
<1>3. /\ w \in Seq(Ages) /\ r \in Seq(Ages)
      /\ \A i, j \in 1..k : i <= j => w[i] >= w[j]
      /\ \A i \in 1..m : r[i] = w[i + o] /\ r[i] <= BailoutWin
      /\ \A i \in 1..o : w[i] > BailoutWin
  BY <1>1, <1>2 DEF Aligned
<1>4. PICK v, t : v = Later(w, d) /\ t = Later(r, d)
  OBVIOUS
<1>5. /\ v \in Seq(Ages) /\ Len(v) = k
      /\ \A i \in 1..k : /\ w[i] \in Ages
                         /\ v[i] = IF w[i] + d <= BailoutWin + 1 THEN w[i] + d ELSE BailoutWin + 1
  BY <1>1, <1>3, <1>4, LaterFacts
<1>6. /\ t \in Seq(Ages) /\ Len(t) = m
      /\ \A i \in 1..m : /\ r[i] \in Ages
                         /\ t[i] = IF r[i] + d <= BailoutWin + 1 THEN r[i] + d ELSE BailoutWin + 1
  BY <1>1, <1>3, <1>4, LaterFacts
<1>7. BailoutWin \in Nat /\ (\A x \in Ages : x \in Nat)
  BY DEF SupervisorAssumption, Ages
<1>8. ASSUME NEW i \in 1..k, NEW j \in 1..k, i <= j PROVE v[i] >= v[j]
  <2>1. w[i] \in Nat /\ w[j] \in Nat /\ w[i] >= w[j]
    BY <1>3, <1>5, <1>7, <1>8
  <2>2. /\ v[i] = IF w[i] + d <= BailoutWin + 1 THEN w[i] + d ELSE BailoutWin + 1
        /\ v[j] = IF w[j] + d <= BailoutWin + 1 THEN w[j] + d ELSE BailoutWin + 1
    BY <1>5
  <2> QED BY <1>7, <2>1, <2>2
<1>9. ASSUME NEW i \in 1..m PROVE i + o \in 1..k /\ t[i] = v[i + o]
  <2>1. i + o \in 1..k
    BY <1>1, <1>2
  <2>2. r[i] = w[i + o]
    BY <1>3
  <2> QED BY <1>5, <1>6, <2>1, <2>2
<1>10. ASSUME NEW i \in 1..o PROVE v[i] > BailoutWin
  <2>1. i \in 1..k
    BY <1>1, <1>2
  <2>2. w[i] > BailoutWin /\ w[i] \in Nat
    BY <1>3, <1>5, <1>7, <2>1
  <2>3. v[i] = IF w[i] + d <= BailoutWin + 1 THEN w[i] + d ELSE BailoutWin + 1
    BY <1>5, <2>1
  <2> QED BY <1>7, <2>2, <2>3
<1>11. PICK f \in 1..m + 1 :
         /\ Within(t) = SubSeq(t, f, m)
         /\ \A j \in 1..f - 1 : t[j] > BailoutWin
         /\ f <= m => t[f] <= BailoutWin
  BY <1>6, WithinFacts
<1>12. PICK n \in Nat : n = m + 1 - f /\ f \in Nat /\ m = n + f - 1 /\ n <= m
  BY <1>1, <1>11
<1> DEFINE u == Within(t)
<1>13. u \in Seq(Ages) /\ Len(u) = n /\ \A i \in 1..n : u[i] = t[f + i - 1]
  <2>1. \A i \in f..m : t[i] \in Ages
    <3>1. \A i \in f..m : i \in 1..m
      BY <1>1, <1>11
    <3> QED BY <1>6, <3>1, ElementOfSeq
  <2>2. f \in Int /\ m \in Int
    BY <1>1, <1>11
  <2>3. /\ SubSeq(t, f, m) \in Seq(Ages)
        /\ Len(SubSeq(t, f, m)) = IF f <= m THEN m - f + 1 ELSE 0
        /\ \A i \in 1..m - f + 1 : SubSeq(t, f, m)[i] = t[f + i - 1]
    BY <2>1, <2>2, SubSeqProperties
  <2>4. n = m - f + 1 /\ n = IF f <= m THEN m - f + 1 ELSE 0
    BY <1>1, <1>11, <1>12
  <2> QED BY <1>11, <1>12, <2>3, <2>4
<1>14. PICK p \in Nat : p = o + f - 1 /\ k - n = p
  <2>1. f \in Nat /\ f >= 1 /\ o \in Nat /\ k = o + m /\ m = n + f - 1
    BY <1>2, <1>11, <1>12
  <2>2. o + f - 1 \in Nat /\ k - n = o + f - 1
    BY <2>1
  <2> QED BY <2>2
<1>15. ASSUME NEW i \in 1..n PROVE u[i] = v[i + p] /\ u[i] <= BailoutWin
  <2>1. f + i - 1 \in 1..m /\ f + i - 1 + o = i + p /\ f \in 1..m /\ f <= f + i - 1
    BY <1>1, <1>2, <1>12, <1>14
  <2>2. u[i] = t[f + i - 1] /\ t[f + i - 1] = v[i + p] /\ i + p \in 1..k
    BY <1>9, <1>13, <2>1
  <2>3. t[f] = v[f + o] /\ f + o \in 1..k /\ f + o <= i + p
    BY <1>2, <1>9, <1>14, <2>1
  <2>4. v[f + o] >= v[i + p] /\ t[f] <= BailoutWin
    BY <1>8, <1>11, <2>1, <2>2, <2>3
  <2>5. v[f + o] \in Ages /\ v[i + p] \in Ages
    BY <1>5, <2>2, <2>3, ElementOfSeq
  <2> QED BY <1>7, <2>2, <2>3, <2>4, <2>5
<1>16. ASSUME NEW i \in 1..p PROVE v[i] > BailoutWin
  <2>1. CASE i \in 1..o
    BY <1>10, <2>1
  <2>2. CASE i \notin 1..o
    <3>1. i - o \in 1..f - 1 /\ i - o \in 1..m /\ (i - o) + o = i
      BY <1>1, <1>2, <1>11, <1>14, <2>2
    <3>2. t[i - o] > BailoutWin /\ t[i - o] = v[i]
      BY <1>9, <1>11, <3>1
    <3> QED BY <3>2
  <2> QED BY <2>1, <2>2
<1>17. Aligned(v, u)
  <2> HIDE DEF u
  <2>1. Len(u) = n /\ Len(v) = k /\ n <= k /\ k - n = p
    <3>1. Len(u) = n /\ Len(v) = k
      BY <1>5, <1>13
    <3>2. k - n = p
      BY <1>14
    <3>3. n <= k
      BY ONLY <3>2, k \in Nat, n \in Nat, p \in Nat
    <3> QED BY <3>1, <3>2, <3>3
  <2>2. u \in Seq(Ages) /\ v \in Seq(Ages)
    BY <1>5, <1>13
  <2> QED BY <1>8, <1>15, <1>16, <2>1, <2>2 DEF Aligned
<1> HIDE DEF u
<1>18. Len(u) <= Len(r)
  BY <1>1, <1>12, <1>13
<1> QED BY <1>1, <1>4, <1>5, <1>17, <1>18 DEF u

\* The death now joins both; when the window is full, the one it drives out was
\* beyond it.
LEMMA AlignedRecord ==
  ASSUME SupervisorAssumption, NEW w, NEW r, Aligned(w, r), Len(w) <= BailoutN, Len(r) < BailoutN
  PROVE  /\ Aligned(RecordCrash(w), Append(r, 0)) /\ Len(RecordCrash(w)) <= BailoutN
         /\ Len(Append(r, 0)) = Len(r) + 1
<1>1. PICK k \in Nat, m \in Nat : k = Len(w) /\ m = Len(r) /\ m <= k
  BY LenProperties DEF Aligned
<1>2. PICK o \in Nat : o = k - m /\ k = o + m
  BY <1>1
<1>3. /\ w \in Seq(Ages) /\ r \in Seq(Ages)
      /\ \A i, j \in 1..k : i <= j => w[i] >= w[j]
      /\ \A i \in 1..m : r[i] = w[i + o] /\ r[i] <= BailoutWin
      /\ \A i \in 1..o : w[i] > BailoutWin
      /\ \A i \in 1..k : w[i] \in Ages
  BY <1>1, <1>2, ElementOfSeq DEF Aligned
<1>4. BailoutWin \in Nat /\ (\A x \in Ages : x \in Nat) /\ 0 \in Ages /\ BailoutN \in Nat
  BY DEF SupervisorAssumption, Ages
<1>5. PICK t : t = Append(r, 0)
  OBVIOUS
<1>6. /\ t \in Seq(Ages) /\ Len(t) = m + 1
      /\ \A i \in 1..m : t[i] = r[i]
      /\ t[m + 1] = 0
  BY <1>1, <1>3, <1>4, <1>5, AppendProperties
<1>7. CASE k < BailoutN
  <2>1. PICK v : v = Append(w, 0)
    OBVIOUS
  <2>2. /\ v \in Seq(Ages) /\ Len(v) = k + 1
        /\ \A i \in 1..k : v[i] = w[i]
        /\ v[k + 1] = 0
    BY <1>1, <1>3, <1>4, <2>1, AppendProperties
  <2>3. RecordCrash(w) = v
    BY <1>1, <1>7, <2>1 DEF RecordCrash
  <2>4. ASSUME NEW i \in 1..k + 1, NEW j \in 1..k + 1, i <= j PROVE v[i] >= v[j]
    <3>1. \A x \in 1..k + 1 : x = k + 1 \/ x \in 1..k
      BY <1>1
    <3>2. CASE j = k + 1
      <4>1. v[i] \in Nat
        BY <1>3, <1>4, <2>2, <3>1
      <4> QED BY <2>2, <3>2, <4>1
    <3>3. CASE j \in 1..k
      <4>1. i \in 1..k
        BY <2>4, <3>3
      <4> QED BY <1>3, <2>2, <2>4, <3>3, <4>1
    <3> QED BY <3>1, <3>2, <3>3
  <2>5. ASSUME NEW i \in 1..m + 1 PROVE t[i] = v[i + o] /\ t[i] <= BailoutWin
    <3>1. CASE i = m + 1
      <4>1. i + o = k + 1
        BY <1>2, <3>1
      <4> QED BY <1>4, <1>6, <2>2, <3>1, <4>1
    <3>2. CASE i # m + 1
      <4>1. i \in 1..m /\ i + o \in 1..k
        BY <1>1, <1>2, <3>2
      <4> QED BY <1>3, <1>6, <2>2, <4>1
    <3> QED BY <3>1, <3>2
  <2>6. \A i \in 1..o : v[i] > BailoutWin
    <3>1. \A i \in 1..o : i \in 1..k
      BY <1>1, <1>2
    <3> QED BY <1>3, <2>2, <3>1
  <2>7. (k + 1) - (m + 1) = o /\ m + 1 <= k + 1 /\ k + 1 <= BailoutN
    BY <1>1, <1>2, <1>4, <1>7
  <2>8. Aligned(v, t)
    BY <1>6, <2>2, <2>4, <2>5, <2>6, <2>7 DEF Aligned
  <2> QED BY <1>1, <1>5, <1>6, <2>2, <2>3, <2>7, <2>8
<1>8. CASE k = BailoutN
  <2>1. o >= 1 /\ k >= 1 /\ o - 1 \in Nat /\ k - 1 \in Nat
    BY <1>1, <1>2, <1>4, <1>8
  <2>2. PICK u : u = Tail(w)
    OBVIOUS
  <2>3. /\ u \in Seq(Ages) /\ Len(u) = k - 1 /\ \A i \in 1..k - 1 : u[i] = w[i + 1]
    <3>1. w # <<>>
      BY <1>1, <2>1, EmptySeq
    <3> QED BY <1>1, <1>3, <2>2, <3>1, HeadTailProperties
  <2>4. PICK v : v = Append(u, 0)
    OBVIOUS
  <2>5. /\ v \in Seq(Ages) /\ Len(v) = k
        /\ \A i \in 1..k - 1 : v[i] = w[i + 1]
        /\ v[k] = 0
    <3>1. /\ v \in Seq(Ages) /\ Len(v) = (k - 1) + 1
          /\ \A i \in 1..k - 1 : v[i] = u[i]
          /\ v[(k - 1) + 1] = 0
      BY <1>4, <2>3, <2>4, AppendProperties
    <3>2. (k - 1) + 1 = k
      BY <1>1
    <3> QED BY <2>3, <3>1, <3>2
  <2>6. RecordCrash(w) = v
    BY <1>1, <1>8, <2>2, <2>4 DEF RecordCrash
  <2>7. ASSUME NEW i \in 1..k, NEW j \in 1..k, i <= j PROVE v[i] >= v[j]
    <3>1. \A x \in 1..k : x = k \/ (x \in 1..k - 1 /\ x + 1 \in 1..k)
      BY <1>1
    <3>2. CASE j = k
      <4>1. v[i] \in Nat
        BY <1>3, <1>4, <2>5, <3>1
      <4> QED BY <2>5, <3>2, <4>1
    <3>3. CASE j # k
      <4>1. i \in 1..k - 1 /\ j \in 1..k - 1 /\ i + 1 \in 1..k /\ j + 1 \in 1..k /\ i + 1 <= j + 1
        BY <1>1, <2>7, <3>3
      <4> QED BY <1>3, <2>5, <4>1
    <3> QED BY <3>2, <3>3
  <2>8. ASSUME NEW i \in 1..m + 1 PROVE t[i] = v[i + (o - 1)] /\ t[i] <= BailoutWin
    <3>1. CASE i = m + 1
      <4>1. i + (o - 1) = k
        BY <1>2, <3>1
      <4> QED BY <1>4, <1>6, <2>5, <3>1, <4>1
    <3>2. CASE i # m + 1
      <4>1. /\ i \in 1..m /\ i + (o - 1) \in 1..k - 1 /\ (i + (o - 1)) + 1 = i + o
        BY <1>1, <1>2, <2>1, <3>2
      <4> QED BY <1>3, <1>6, <2>5, <4>1
    <3> QED BY <3>1, <3>2
  <2>9. \A i \in 1..o - 1 : v[i] > BailoutWin
    <3>1. \A i \in 1..o - 1 : i \in 1..k - 1 /\ i + 1 \in 1..o
      BY <1>1, <1>2
    <3> QED BY <1>3, <2>5, <3>1
  <2>10. k - (m + 1) = o - 1 /\ m + 1 <= k
    BY <1>1, <1>2, <2>1
  <2>11. Aligned(v, t)
    BY <1>6, <2>5, <2>7, <2>8, <2>9, <2>10 DEF Aligned
  <2> QED BY <1>1, <1>5, <1>6, <1>8, <1>4, <2>5, <2>6, <2>11
<1> QED BY <1>1, <1>4, <1>7, <1>8

\* What the code tests: the last BailoutN deaths, and the age of the first.
LEMMA BailIs ==
  ASSUME SupervisorAssumption, NEW w, NEW r, Aligned(w, r), Len(w) <= BailoutN
  PROVE  Bail(w) <=> Len(r) >= BailoutN
<1>1. PICK k \in Nat, m \in Nat : k = Len(w) /\ m = Len(r) /\ m <= k
  BY LenProperties DEF Aligned
<1>2. /\ \A i \in 1..m : r[i] = w[i + (k - m)] /\ r[i] <= BailoutWin
      /\ \A i \in 1..k - m : w[i] > BailoutWin
      /\ \A i \in 1..k : w[i] \in Ages
  BY <1>1, ElementOfSeq DEF Aligned
<1>3. BailoutWin \in Nat /\ (\A x \in Ages : x \in Nat) /\ BailoutN \in Nat \ {0}
  BY DEF SupervisorAssumption, Ages
<1>4. ASSUME m >= BailoutN PROVE Bail(w)
  <2>1. k = m /\ 1 \in 1..m /\ 1 + (k - m) = 1 /\ k >= BailoutN
    BY <1>1, <1>3, <1>4
  <2>2. w[1] <= BailoutWin
    BY <1>2, <2>1
  <2> QED BY <1>1, <2>1, <2>2 DEF Bail
<1>5. ASSUME Bail(w) PROVE m >= BailoutN
  <2>1. k >= BailoutN /\ w[1] <= BailoutWin /\ 1 \in 1..k
    BY <1>1, <1>3, <1>5 DEF Bail
  <2>2. ASSUME m < k PROVE FALSE
    <3>1. 1 \in 1..k - m
      BY <1>1, <2>2
    <3>2. w[1] > BailoutWin /\ w[1] \in Nat
      BY <1>2, <1>3, <2>1, <3>1
    <3> QED BY <1>3, <2>1, <3>2
  <2> QED BY <1>1, <1>3, <2>1, <2>2
<1> QED BY <1>1, <1>4, <1>5

\* The deaths are counted the same by the code and by the definition of the
\* breaker, at each step that records one or lets time pass.
LEMMA BreakerStep ==
  ASSUME SupervisorAssumption, RelayInv, BreakerInv, [SupervisorNext]_SupervisorVars
  PROVE  BreakerInv'
<1> USE DEF BreakerInv
<1>0. SupShape(sup)
  BY DEF RelayInv, Shapes, SupShape
<1>1. CASE Bury
  <2>1. PICK d \in Lifetimes : /\ window' = RecordCrash(Later(window, d))
                               /\ recent' = Append(Within(Later(recent, d)), 0)
    BY <1>1 DEF Bury
  <2>2. d \in Nat
    BY DEF SupervisorAssumption
  <2>3. PICK w, r : w = Later(window, d) /\ r = Within(Later(recent, d))
    OBVIOUS
  <2>4. Aligned(w, r) /\ Len(w) = Len(window) /\ Len(r) <= Len(recent)
    BY <2>2, <2>3, AlignedLater
  <2>5. sup.end = "none" /\ ~(Len(recent) >= BailoutN)
    BY <1>0, <1>1 DEF Bury, SupShape, BreakerExact
  <2>6. Len(w) <= BailoutN /\ Len(r) < BailoutN
    <3>1. Len(recent) \in Nat /\ Len(r) \in Nat /\ BailoutN \in Nat
      BY <2>4, LenProperties DEF Aligned, SupervisorAssumption
    <3> QED BY <2>4, <2>5, <3>1
  <2>7. Aligned(RecordCrash(w), Append(r, 0)) /\ Len(RecordCrash(w)) <= BailoutN
    BY <2>4, <2>6, AlignedRecord
  <2>8. Aligned(window', recent') /\ Len(window') <= BailoutN
    BY <2>1, <2>3, <2>7
  <2>9. Bail(window') <=> Len(recent') >= BailoutN
    BY <2>8, BailIs
  <2>10. sup'.end = IF Bail(window') THEN "bailout" ELSE "none"
    <3>1. CASE Bail(window')
      <4>1. sup' = Ended("bailout")
        BY <1>1, <3>1 DEF Bury
      <4> QED BY <3>1, <4>1, EndedIs
    <3>2. CASE ~Bail(window')
      <4>1. sup' = [Fresh EXCEPT !.at = "sleep"]
        BY <1>1, <3>2 DEF Bury
      <4> QED BY <3>2, <4>1 DEF Fresh
    <3> QED BY <3>1, <3>2
  <2>11. crashes' = crashes
    BY <1>1 DEF Bury
  <2> QED BY <2>8, <2>9, <2>10, <2>11 DEF BreakerExact
<1>2. CASE Respawn
  <2>1. /\ window' = Later(window, BackoffSecs(crashes))
        /\ recent' = Within(Later(recent, BackoffSecs(crashes)))
        /\ crashes' = Min(crashes + 1, Len(Backoff) - 1)
        /\ sup.at = "sleep"
    BY <1>2 DEF Respawn
  <2>2. Len(Backoff) = 5
    BY DEF Backoff
  <2>3. BackoffSecs(crashes) \in Nat /\ crashes' \in 0..4
    <3>1. Min(crashes, 4) + 1 \in 1..5 /\ Min(crashes + 1, 4) \in 0..4
      BY DEF Min
    <3>2. \A i \in 1..5 : Backoff[i] \in Nat
      BY DEF Backoff
    <3>3. BackoffSecs(crashes) = Backoff[Min(crashes, 4) + 1]
      BY <2>2 DEF BackoffSecs
    <3> QED BY <2>1, <2>2, <3>1, <3>2, <3>3
  <2>4. Aligned(window', recent') /\ Len(window') = Len(window) /\ Len(recent') <= Len(recent)
    BY <2>1, <2>3, AlignedLater
  <2>5. sup.end = "none" /\ ~(Len(recent) >= BailoutN)
    BY <1>0, <2>1 DEF SupShape, BreakerExact
  <2>6. ~(Len(recent') >= BailoutN)
    <3>1. Len(recent) \in Nat /\ Len(recent') \in Nat /\ BailoutN \in Nat
      BY <2>4, LenProperties DEF Aligned, SupervisorAssumption
    <3> QED BY <2>4, <2>5, <3>1
  <2>7. sup'.end # "bailout"
    <3>1. CASE sup' = Fresh
      BY <3>1 DEF Fresh
    <3>2. CASE sup' = Ended("setup")
      BY <3>2, EndedIs
    <3> QED BY <1>2, <3>1, <3>2 DEF Respawn
  <2> QED BY <2>3, <2>4, <2>6, <2>7 DEF BreakerExact
<1>3. CASE WriteIn
  <2>1. UNCHANGED <<window, recent, crashes>> /\ sup.at = "in"
    BY <1>3 DEF WriteIn, clock
  <2>2. sup.end = "none"
    BY <1>0, <2>1 DEF SupShape
  <2>3. sup'.end # "bailout"
    <3>1. CASE sup' = Ended("sigpipe")
      BY <3>1, EndedIs
    <3>2. CASE sup' # Ended("sigpipe")
      <4>1. sup' = [sup EXCEPT !.buf = Tail(@), !.at = IF Len(sup.buf) = 1 THEN "reap" ELSE "in"]
        BY <1>3, <3>2 DEF WriteIn
      <4>2. sup'.end = sup.end
        BY <1>0, <4>1 DEF SupShape
      <4> QED BY <2>2, <4>2
    <3> QED BY <3>1, <3>2
  <2> QED BY <2>1, <2>2, <2>3 DEF BreakerExact
<1>4. CASE Reap
  <2>1. UNCHANGED <<window, recent, crashes>> /\ sup.at = "reap"
    BY <1>4 DEF Reap, clock
  <2>2. sup.end = "none"
    BY <1>0, <2>1 DEF SupShape
  <2>3. sup'.end # "bailout"
    <3>1. CASE sup' = Ended("eof")
      BY <3>1, EndedIs
    <3>2. CASE sup' # Ended("eof")
      <4>1. sup' = [sup EXCEPT !.at = "poll"] \/ sup' = [sup EXCEPT !.at = "dead"]
        BY <1>4, <3>2 DEF Reap
      <4>2. sup'.end = sup.end
        BY <1>0, <4>1 DEF SupShape
      <4> QED BY <2>2, <4>2
    <3> QED BY <3>1, <3>2
  <2> QED BY <2>1, <2>2, <2>3 DEF BreakerExact
<1>5. CASE Poll \/ ForwardOut \/ ReadIn
  <2>1. UNCHANGED <<window, recent, crashes>>
    BY <1>5 DEF Poll, ForwardOut, ReadIn, clock
  <2>2. sup'.end = sup.end
    BY <1>0, <1>5 DEF Poll, ForwardOut, ReadIn, SupShape
  <2> QED BY <2>1, <2>2 DEF BreakerExact
<1>7. CASE PollFails
  <2>1. UNCHANGED <<window, recent, crashes>> /\ sup.at = "poll"
    BY <1>7 DEF PollFails, clock
  <2>2. sup.end = "none"
    BY <1>0, <2>1 DEF SupShape
  <2>3. sup'.end # "bailout"
    <3>1. CASE sup' = Ended("eof")
      BY <3>1, EndedIs
    <3>2. CASE sup' = [sup EXCEPT !.at = "broken"]
      <4>1. sup'.end = sup.end
        BY <1>0, <3>2 DEF SupShape
      <4> QED BY <2>2, <4>1
    <3> QED BY <1>7, <3>1, <3>2 DEF PollFails
  <2> QED BY <2>1, <2>2, <2>3 DEF BreakerExact
<1>6. CASE Editor \/ Worker \/ Crash \/ Misframed \/ Signal \/ UNCHANGED SupervisorVars
  <2>1. UNCHANGED <<window, recent, crashes, sup>>
    BY <1>6 DEF Editor, Worker, Crash, Misframed, Signal, Request, Notify, Send, Close, Route, WorkerWrites, WorkerEof,
       SupervisorVars, clock
  <2> QED BY <2>1 DEF BreakerExact
<1> QED BY <1>1, <1>2, <1>3, <1>4, <1>5, <1>6, <1>7 DEF SupervisorNext, Parent, Mishap

\* No death so far.
LEMMA BreakerInit == ASSUME SupervisorAssumption, SupervisorInit PROVE BreakerInv
<1>1. window = <<>> /\ recent = <<>> /\ crashes = 0 /\ sup = Fresh
  BY DEF SupervisorInit
<1>2. <<>> \in Seq(Ages) /\ Len(<<>>) = 0
  OBVIOUS
<1>3. BailoutN \in Nat \ {0}
  BY DEF SupervisorAssumption
<1>4. Aligned(window, recent)
  BY <1>1, <1>2 DEF Aligned
<1>5. BreakerExact
  BY <1>1, <1>2, <1>3 DEF BreakerExact, Fresh
<1> QED BY <1>1, <1>2, <1>3, <1>4, <1>5 DEF BreakerInv

\* What the two invariants say of the relay.
LEMMA RelayFollows ==
  ASSUME SupervisorAssumption, RelayInv, BreakerInv
  PROVE  RelayExact
<1>1. ASSUME NEW r \in Requests
      PROVE  /\ answers[r] \in 0..1
             /\ answers[r] + Count(fromWorker, r) + Count(worker.out, r) <= 1
  <2>1. /\ answers[r] \in Nat
        /\ Count(fromWorker, r) \in Nat /\ Count(worker.out, r) \in Nat
        /\ Count(toWorker.msgs, r) \in Nat /\ Count(sup.buf, r) \in Nat
        /\ Count(input.msgs, r) \in Nat
    BY CountsOf
  <2>2. Places(r) <= 1
    BY DEF RelayInv, Once
  <2>3. answers[r] + Count(fromWorker, r) + Count(worker.out, r)
          + Count(toWorker.msgs, r) + Count(sup.buf, r) + Count(input.msgs, r) <= 1
    BY <2>2, PlacesIs
  <2>4. PICK a \in Nat, b \in Nat, c \in Nat :
            a = answers[r] /\ b = Count(fromWorker, r) /\ c = Count(worker.out, r)
    BY <2>1
  <2>5. PICK d \in Nat, e \in Nat, f \in Nat :
            d = Count(toWorker.msgs, r) /\ e = Count(sup.buf, r) /\ f = Count(input.msgs, r)
    BY <2>1
  <2>6. a + b + c + d + e + f <= 1
    BY <2>3, <2>4, <2>5
  <2>7. a \in 0..1 /\ a + b + c <= 1
    BY ONLY <2>6, a \in Nat, b \in Nat, c \in Nat, d \in Nat, e \in Nat, f \in Nat
  <2> QED BY <2>4, <2>7
<1>2. answers \in [Requests -> 0..1]
  BY <1>1 DEF RelayInv, Shapes
<1>3. Len(Backoff) = 5
  BY DEF Backoff
<1>4. Range(window) \subseteq 0..BailoutWin + 1 /\ Len(window) <= BailoutN /\ crashes \in 0..4
  <2>1. window \in Seq(0..BailoutWin + 1)
    BY DEF BreakerInv, Aligned, Ages
  <2>2. \A i \in DOMAIN window : window[i] \in 0..BailoutWin + 1
    BY <2>1, LenProperties, ElementOfSeq
  <2> QED BY <2>2 DEF Range, BreakerInv
<1>5. SupervisorTypeOK
  BY <1>2, <1>3, <1>4 DEF RelayInv, Shapes, Streams, SupervisorTypeOK
<1>6. OutputComplete /\ InitializeFirst
  BY DEF RelayInv, Draining, Drains, Initialized, OutputComplete, InitializeFirst
<1> QED BY <1>1, <1>5, <1>6 DEF AnsweredOnce, RelayExact

\* The two invariants hold together: the breaker needs to know where the
\* parent is when it records a death.
LEMMA SupervisorInvariant ==
  ASSUME SupervisorAssumption PROVE SupervisorSpec => [](RelayInv /\ BreakerInv)
<1>1. SupervisorInit => RelayInv /\ BreakerInv
  BY RelayInit, BreakerInit
<1>2. RelayInv /\ BreakerInv /\ [SupervisorNext]_SupervisorVars => (RelayInv /\ BreakerInv)'
  BY RelayStep, BreakerStep
<1> QED BY <1>1, <1>2, PTL DEF SupervisorSpec

\* However workers die and chunks end (forward_bytes, the poll loop of
\* supervisor.c), no request is answered twice and none by a worker that was not
\* initialized, and what a worker wrote before its death is forwarded, unless a
\* SIGCHLD that was no death or a failure of poll() made the parent look early.
THEOREM RelayIsExact == SupervisorSpec => []RelayExact
<1>1. RelayInv /\ BreakerInv => RelayExact
  BY RelayFollows, SupervisorAssumption
<1>2. SupervisorSpec => [](RelayInv /\ BreakerInv)
  BY SupervisorInvariant, SupervisorAssumption
<1> QED BY <1>1, <1>2, PTL

\* The breaker (record_crash, should_bail) trips exactly when BailoutN workers
\* have died within BailoutWin seconds.
THEOREM BreakerIsExact == SupervisorSpec => []BreakerExact
<1>1. BreakerInv => BreakerExact
  BY DEF BreakerInv
<1>2. SupervisorSpec => [](RelayInv /\ BreakerInv)
  BY SupervisorInvariant, SupervisorAssumption
<1> QED BY <1>1, <1>2, PTL

====
