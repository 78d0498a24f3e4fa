---------------------------- MODULE IronPoolProofs ----------------------------
(***************************************************************************)
(* Proofs, for any workers, program threads and trees of jobs, that the    *)
(* fixed pool of IronPool keeps its books, loses no wakeup, honours its    *)
(* barrier and is freed only when nobody uses it.                          *)
(***************************************************************************)
EXTENDS IronPool, FiniteSetTheorems, SequenceTheorems, WellFoundedInduction, TLAPS

-----------------------------------------------------------------------------
(* The inductive invariant.  Stacks first: st is a value of stack.         *)

\* A program thread is the bottom job of its own stack and of no other, and a
\* job runs on top of the job whose chunk it is.
StackShape(st) ==
  /\ st \in [Threads -> Seq(Jobs)]
  /\ \A c \in Clients : Len(st[c]) >= 1 /\ st[c][1] = c
  /\ \A t \in Threads : \A k \in 1 .. Len(st[t]) :
       /\ st[t][k] \in Clients => t = st[t][k] /\ k = 1
       /\ k > 1 => Parent[st[t][k]] = st[t][k - 1]

\* The frames that belong to items, one for each run of an item.
ItemFrames(s) == {k \in 1 .. Len(s) : s[k] \in Items}
Frames(st) == UNION {{<<t, k>> : k \in ItemFrames(st[t])} : t \in Threads}

RunningOn(st) == {i \in Items : \E t \in Threads : \E k \in 1 .. Len(st[t]) : st[t][k] = i}

\* No job is on a stack twice.
Distinct(st) ==
  \A t, u \in Threads : \A k \in 1 .. Len(st[t]), m \in 1 .. Len(st[u]) :
    st[t][k] = st[u][m] => t = u /\ k = m

\* Nothing has been dropped from the queue.
Whole == queue_count = Len(slots)

Lives ==
  /\ \A w \in Workers : life[w] # "live" => stack[w] = <<>>
  /\ \A w \in work_ready : life[w] = "live" /\ stack[w] = <<>>
  /\ \A t \in work_done : stack[t] # <<>>

\* pending counts what was submitted and has not returned, dropped or not.
Counted == IsFiniteSet(Frames(stack)) /\ pending = Len(slots) + Cardinality(Frames(stack))

Located ==
  /\ IsInjective(slots) /\ Distinct(stack)
  /\ submitted = ToSet(slots) \cup RunningOn(stack) \cup ran
  /\ ToSet(slots) \cap (RunningOn(stack) \cup ran) = {}
  /\ RunningOn(stack) \cap ran = {}

Numbers ==
  /\ pending = Cardinality(submitted \ ran)
  /\ \A j \in Jobs : gpending[j] = Cardinality((Kids(j) \cap submitted) \ ran)

Done == \A i \in ran : Kids(i) \subseteq ran

Sleepers == \A t \in work_done :
  LET j == Last(stack[t]) IN
  \/ InGroupWait(j) /\ gpending[j] > 0 /\ OwnQueued(j) = {}
  \/ j \in Clients /\ barrier[j] # {} /\ pending > 0

Exact == Located /\ Numbers /\ Done /\ Sleepers

Barriers == \A c \in Clients : UNION barrier[c] \subseteq submitted

IInv ==
  /\ TypeOK /\ StackShape(stack) /\ Lives /\ Counted
  /\ ~Abandoned => Whole
  /\ Whole => Exact
  /\ ReadyWakeups /\ Barriers

-----------------------------------------------------------------------------
(* Sequences without repetition. *)

LEMMA AppendFacts ==
  ASSUME NEW S, NEW s \in Seq(S), NEW x \in S
  PROVE  /\ Append(s, x) \in Seq(S) /\ Len(Append(s, x)) = Len(s) + 1
         /\ \A k \in 1 .. Len(s) : Append(s, x)[k] = s[k]
         /\ Append(s, x)[Len(s) + 1] = x
         /\ ToSet(Append(s, x)) = ToSet(s) \cup {x}
         /\ IsInjective(s) /\ x \notin ToSet(s) => IsInjective(Append(s, x))
<1> DEFINE a == Append(s, x)
<1>1. /\ a \in Seq(S) /\ a # <<>> /\ Len(a) = Len(s) + 1 /\ Len(s) \in Nat
      /\ \A i \in 1 .. Len(s) : a[i] = s[i]
      /\ a[Len(s) + 1] = x
      /\ DOMAIN a = 1 .. Len(s) + 1 /\ DOMAIN s = 1 .. Len(s)
  BY AppendProperties, LenProperties
<1> HIDE DEF a
<1>2. DOMAIN a = DOMAIN s \cup {Len(s) + 1} /\ Len(s) + 1 \notin DOMAIN s
  BY <1>1
<1>3. ToSet(a) = ToSet(s) \cup {x}
  BY <1>1, <1>2 DEF ToSet
<1>4. ASSUME IsInjective(s), x \notin ToSet(s) PROVE IsInjective(a)
  BY <1>1, <1>2, <1>4 DEF ToSet, IsInjective
<1> QED BY <1>1, <1>3, <1>4 DEF a

\* The item at position k taken out and the ones behind it moved up.
Closed(s, k) == [m \in 1 .. Len(s) - 1 |-> IF m \in k .. Len(s) - 1 THEN s[m + 1] ELSE s[m]]

LEMMA ClosedFacts ==
  ASSUME NEW S, NEW s \in Seq(S), NEW k \in 1 .. Len(s)
  PROVE  /\ Closed(s, k) \in Seq(S) /\ Len(Closed(s, k)) = Len(s) - 1
         /\ IsInjective(s) => /\ IsInjective(Closed(s, k))
                              /\ ToSet(Closed(s, k)) = ToSet(s) \ {s[k]}
<1> DEFINE n == Len(s)
           r == Closed(s, k)
<1>1. n \in Nat \ {0} /\ DOMAIN s = 1 .. n /\ \A i \in 1 .. n : s[i] \in S
  BY LenProperties, ElementOfSeq
<1>2. /\ r = [m \in 1 .. n - 1 |-> IF m \in k .. n - 1 THEN s[m + 1] ELSE s[m]]
      /\ n - 1 \in Nat
  BY <1>1 DEF Closed
<1> HIDE DEF n, r
<1>3. \A m \in 1 .. n - 1 : /\ m >= k => m + 1 \in 1 .. n /\ r[m] = s[m + 1]
                            /\ m < k => m \in 1 .. n /\ r[m] = s[m]
  BY <1>1, <1>2
<1>4. r \in Seq(S) /\ Len(r) = n - 1 /\ DOMAIN r = 1 .. n - 1
  <2>1. r \in [1 .. n - 1 -> S]
    BY <1>1, <1>2, <1>3
  <2>a. PICK m \in Nat : m = n - 1
    BY <1>2
  <2>2. r \in Seq(S)
    BY <2>1, <2>a, SeqDef
  <2>3. DOMAIN r = 1 .. n - 1
    BY <2>1
  <2> QED BY <1>2, <2>2, <2>3, LenProperties
<1>5. ASSUME IsInjective(s) PROVE IsInjective(r) /\ ToSet(r) = ToSet(s) \ {s[k]}
  <2>0. k \in 1 .. n
    BY DEF n
  <2>1. \A i, j \in 1 .. n : s[i] = s[j] => i = j
    BY <1>1, <1>5 DEF IsInjective
  <2>2. IsInjective(r)
    <3>1. ASSUME NEW i \in 1 .. n - 1, NEW j \in 1 .. n - 1, r[i] = r[j] PROVE i = j
      BY <1>1, <1>3, <2>0, <2>1, <3>1
    <3> QED BY <1>4, <3>1 DEF IsInjective
  <2>3. ASSUME NEW i \in 1 .. n - 1 PROVE r[i] \in ToSet(s) /\ r[i] # s[k]
    <3>1. PICK j \in 1 .. n : r[i] = s[j] /\ j # k
      <4>1. CASE i >= k
        <5>1. i + 1 \in 1 .. n /\ r[i] = s[i + 1] /\ i + 1 # k
          BY <1>1, <1>3, <2>0, <4>1
        <5> QED BY <5>1
      <4>2. CASE i < k
        <5>1. i \in 1 .. n /\ r[i] = s[i] /\ i # k
          BY <1>1, <1>3, <2>0, <4>2
        <5> QED BY <5>1
      <4> QED BY <1>1, <2>0, <4>1, <4>2
    <3>2. s[j] \in ToSet(s)
      BY <1>1 DEF ToSet
    <3> QED BY <2>0, <2>1, <3>1, <3>2
  <2>4. ASSUME NEW j \in 1 .. n, j # k PROVE \E i \in 1 .. n - 1 : r[i] = s[j]
    <3>1. CASE j < k
      <4>1. j \in 1 .. n - 1 /\ r[j] = s[j]
        BY <1>1, <1>3, <2>0, <3>1
      <4> QED BY <4>1
    <3>2. CASE j > k
      <4>1. PICK i \in 1 .. n - 1 : i = j - 1 /\ i >= k
        BY <1>1, <2>0, <3>2
      <4>2. r[i] = s[j]
        BY <1>1, <1>3, <4>1
      <4> QED BY <4>2
    <3> QED BY <1>1, <2>0, <2>4, <3>1, <3>2
  <2>5. ToSet(r) \subseteq ToSet(s) \ {s[k]}
    BY <1>4, <2>3 DEF ToSet
  <2>6. ASSUME NEW x \in ToSet(s) \ {s[k]} PROVE x \in ToSet(r)
    <3>1. PICK j \in 1 .. n : x = s[j] /\ j # k
      BY <1>1 DEF ToSet
    <3> QED BY <1>4, <2>4, <3>1 DEF ToSet
  <2> QED BY <2>2, <2>5, <2>6
<1> QED BY <1>4, <1>5 DEF n, r

\* Taking the first item is closing the gap at the front.
LEMMA TailFacts ==
  ASSUME NEW S, NEW s \in Seq(S), Len(s) >= 1
  PROVE  Tail(s) = Closed(s, 1)
<1>1. /\ Len(s) \in Nat \ {0} /\ Tail(s) \in Seq(S) /\ Len(Tail(s)) = Len(s) - 1
      /\ \A i \in 1 .. Len(Tail(s)) : Tail(s)[i] = s[i + 1]
  BY HeadTailProperties, EmptySeq, LenProperties
<1>a. 1 \in 1 .. Len(s)
  BY <1>1
<1>2. Closed(s, 1) \in Seq(S) /\ Len(Closed(s, 1)) = Len(s) - 1
  BY <1>a, ClosedFacts
<1>3. \A i \in 1 .. Len(s) - 1 : Closed(s, 1)[i] = s[i + 1]
  BY <1>1 DEF Closed
<1> QED BY <1>1, <1>2, <1>3, SeqEqual

\* A prefix of a sequence, as queue is one of slots.
LEMMA PrefixFacts ==
  ASSUME NEW S, NEW s \in Seq(S), NEW n \in 0 .. Len(s)
  PROVE  LET q == SubSeq(s, 1, n)
         IN  /\ q \in Seq(S) /\ Len(q) = n /\ DOMAIN q = 1 .. n
             /\ \A k \in 1 .. n : q[k] = s[k]
             /\ q = <<>> <=> n = 0
             /\ n > 0 => Head(q) = s[1]
             /\ n = Len(s) => q = s
<1> DEFINE q == SubSeq(s, 1, n)
<1>1. Len(s) \in Nat /\ n \in Nat /\ n <= Len(s) /\ DOMAIN s = 1 .. Len(s)
  BY LenProperties
<1>2. q \in Seq(S) /\ Len(q) = n /\ \A k \in 1 .. n : q[k] = s[k]
  BY <1>1, SubSeqProperties
<1>3. DOMAIN q = 1 .. n
  BY <1>2, LenProperties
<1>4. q = <<>> <=> n = 0
  BY <1>2, EmptySeq
<1>5. n > 0 => Head(q) = s[1]
  BY <1>1, <1>2
<1>6. n = Len(s) => q = s
  BY <1>1, <1>2, SeqEqual
<1> QED BY <1>2, <1>3, <1>4, <1>5, <1>6

-----------------------------------------------------------------------------
(* Stacks.  An item is pushed on a stack, or the item on top of it returns. *)

LEMMA FrameFacts ==
  ASSUME NEW st, NEW t \in Threads, NEW k
  PROVE  <<t, k>> \in Frames(st) <=> k \in 1 .. Len(st[t]) /\ st[t][k] \in Items
BY DEF Frames, ItemFrames

LEMMA FramesAre ==
  ASSUME NEW st, NEW f \in Frames(st)
  PROVE  \E t \in Threads : \E k \in 1 .. Len(st[t]) : f = <<t, k>>
BY DEF Frames, ItemFrames

Pushed(st, t, i) == [st EXCEPT ![t] = Append(st[t], i)]

LEMMA PushFacts ==
  ASSUME StackShape(stack), NEW t \in Threads, NEW i \in Items,
         stack[t] # <<>> => Parent[i] = Last(stack[t]),
         IsFiniteSet(Frames(stack)), stack' = Pushed(stack, t, i)
  PROVE  /\ StackShape(stack') /\ stack'[t] # <<>> /\ Last(stack'[t]) = i
         /\ \A u \in Threads \ {t} : stack'[u] = stack[u]
         /\ IsFiniteSet(Frames(stack'))
         /\ Cardinality(Frames(stack')) = Cardinality(Frames(stack)) + 1
         /\ RunningOn(stack') = RunningOn(stack) \cup {i}
         /\ Distinct(stack) /\ i \notin RunningOn(stack) => Distinct(stack')
<1> USE PoolAssumption
<1> DEFINE n == Len(stack[t])
<1>0. i \in Jobs /\ i \notin Clients /\ stack \in [Threads -> Seq(Jobs)]
      /\ \A u \in Threads : Len(stack[u]) \in Nat
  BY LenProperties DEF Jobs, StackShape
<1>1. /\ stack' \in [Threads -> Seq(Jobs)]
      /\ stack'[t] = Append(stack[t], i)
      /\ \A u \in Threads \ {t} : stack'[u] = stack[u]
  <2>1. Append(stack[t], i) \in Seq(Jobs)
    BY <1>0, AppendFacts
  <2> QED BY <1>0, <2>1 DEF Pushed
<1>2. /\ Len(stack'[t]) = n + 1 /\ n \in Nat
      /\ \A k \in 1 .. n : stack'[t][k] = stack[t][k]
      /\ stack'[t][n + 1] = i
  BY <1>0, <1>1, AppendFacts
<1> HIDE DEF n
<1>3. stack'[t] # <<>> /\ Last(stack'[t]) = i
  BY <1>1, <1>2, EmptySeq DEF Last
<1>4. n > 0 => Parent[i] = stack[t][n]
  BY <1>0, EmptySeq DEF Last, n
<1>5. n = Len(stack[t])
  BY DEF n
<1>6. StackShape(stack')
  <2>1. ASSUME NEW c \in Clients PROVE Len(stack'[c]) >= 1 /\ stack'[c][1] = c
    <3>1. Len(stack[c]) >= 1 /\ stack[c][1] = c /\ c \in Threads
      BY DEF StackShape, Threads
    <3> QED BY <1>1, <1>2, <1>5, <3>1
  <2>2. ASSUME NEW u \in Threads, NEW k \in 1 .. Len(stack'[u])
        PROVE  /\ stack'[u][k] \in Clients => u = stack'[u][k] /\ k = 1
               /\ k > 1 => Parent[stack'[u][k]] = stack'[u][k - 1]
    <3>1. CASE u # t
      BY <1>1, <2>2, <3>1 DEF StackShape
    <3>2. CASE u = t /\ k = n + 1
      <4>1. k > 1 => n \in 1 .. n /\ stack'[t][n] = stack[t][n] /\ k - 1 = n
        BY <1>2, <3>2
      <4> QED BY <1>0, <1>2, <1>4, <3>2, <4>1
    <3>3. CASE u = t /\ k # n + 1
      <4>1. k \in 1 .. n /\ (k > 1 => k - 1 \in 1 .. n)
        BY <1>2, <2>2, <3>3
      <4>2. /\ stack[t][k] \in Clients => t = stack[t][k] /\ k = 1
            /\ k > 1 => Parent[stack[t][k]] = stack[t][k - 1]
        BY <1>5, <4>1 DEF StackShape
      <4>3. stack'[t][k] = stack[t][k] /\ (k > 1 => stack'[t][k - 1] = stack[t][k - 1])
        BY <1>2, <4>1
      <4> QED BY <3>3, <4>2, <4>3
    <3> QED BY <3>1, <3>2, <3>3
  <2> QED BY <1>1, <2>1, <2>2 DEF StackShape
<1>7. Frames(stack') = Frames(stack) \cup {<<t, n + 1>>} /\ <<t, n + 1>> \notin Frames(stack)
  <2>1. \A u \in Threads, k \in Nat :
          <<u, k>> \in Frames(stack') <=> <<u, k>> \in Frames(stack) \/ (u = t /\ k = n + 1)
    <3> SUFFICES ASSUME NEW u \in Threads, NEW k \in Nat
                 PROVE  <<u, k>> \in Frames(stack')
                          <=> <<u, k>> \in Frames(stack) \/ (u = t /\ k = n + 1)
      OBVIOUS
    <3>1. /\ <<u, k>> \in Frames(stack') <=> k \in 1 .. Len(stack'[u]) /\ stack'[u][k] \in Items
          /\ <<u, k>> \in Frames(stack) <=> k \in 1 .. Len(stack[u]) /\ stack[u][k] \in Items
      BY FrameFacts
    <3>2. CASE u # t
      BY <1>1, <3>1, <3>2
    <3>3. CASE u = t
      BY <1>2, <1>5, <3>1, <3>3
    <3> QED BY <3>2, <3>3
  <2>2. /\ \A f \in Frames(stack') : \E u \in Threads, k \in Nat : f = <<u, k>>
        /\ \A f \in Frames(stack) : \E u \in Threads, k \in Nat : f = <<u, k>>
    <3>1. \A u \in Threads : 1 .. Len(stack[u]) \subseteq Nat /\ 1 .. Len(stack'[u]) \subseteq Nat
      BY <1>0, <1>1, LenProperties
    <3> QED BY <3>1, FramesAre
  <2>3. <<t, n + 1>> \notin Frames(stack)
    BY <1>2, <1>5, FrameFacts
  <2>4. n + 1 \in Nat
    BY <1>2
  <2> QED BY <2>1, <2>2, <2>3, <2>4
<1>8. /\ IsFiniteSet(Frames(stack'))
      /\ Cardinality(Frames(stack')) = Cardinality(Frames(stack)) + 1
  <2> DEFINE F == Frames(stack)
             x == <<t, n + 1>>
  <2>1. IsFiniteSet(F) /\ x \notin F /\ Frames(stack') = F \cup {x}
    BY <1>7
  <2> HIDE DEF F, x
  <2>2. IsFiniteSet(F \cup {x}) /\ Cardinality(F \cup {x}) = Cardinality(F) + 1
    BY <2>1, FS_AddElement
  <2> QED BY <2>1, <2>2 DEF F
<1>9. RunningOn(stack') = RunningOn(stack) \cup {i}
  <2>1. ASSUME NEW j \in RunningOn(stack') PROVE j \in RunningOn(stack) \cup {i}
    <3>a. PICK u \in Threads : \E k \in 1 .. Len(stack'[u]) : stack'[u][k] = j
      BY DEF RunningOn
    <3>1. PICK k \in 1 .. Len(stack'[u]) : stack'[u][k] = j
      BY <3>a
    <3>2. j \in Items
      BY DEF RunningOn
    <3>3. CASE u # t
      BY <1>1, <3>1, <3>2, <3>3 DEF RunningOn
    <3>4. CASE u = t /\ k = n + 1
      BY <1>2, <3>1, <3>4
    <3>5. CASE u = t /\ k # n + 1
      <4>1. k \in 1 .. n
        BY <1>2, <3>1, <3>5
      <4> QED BY <1>2, <1>5, <3>1, <3>2, <3>5, <4>1 DEF RunningOn
    <3> QED BY <3>3, <3>4, <3>5
  <2>2. ASSUME NEW j \in RunningOn(stack) PROVE j \in RunningOn(stack')
    <3>a. PICK u \in Threads : \E k \in 1 .. Len(stack[u]) : stack[u][k] = j
      BY DEF RunningOn
    <3>1. PICK k \in 1 .. Len(stack[u]) : stack[u][k] = j
      BY <3>a
    <3>2. k \in 1 .. Len(stack'[u]) /\ stack'[u][k] = j
      <4>1. CASE u # t
        BY <1>1, <3>1, <4>1
      <4>2. CASE u = t
        <5>1. k \in 1 .. n /\ k \in 1 .. n + 1
          BY <1>2, <1>5, <4>2
        <5> QED BY <1>2, <3>1, <4>2, <5>1
      <4> QED BY <4>1, <4>2
    <3> QED BY <3>2 DEF RunningOn
  <2>3. i \in RunningOn(stack')
    <3>1. n + 1 \in 1 .. Len(stack'[t])
      BY <1>2
    <3> QED BY <1>2, <3>1 DEF RunningOn
  <2> QED BY <2>1, <2>2, <2>3
<1>10. ASSUME Distinct(stack), i \notin RunningOn(stack) PROVE Distinct(stack')
  <2>1. \A u \in Threads : \A k \in 1 .. Len(stack[u]) : stack[u][k] # i
    BY <1>10 DEF RunningOn
  <2>2. ASSUME NEW u \in Threads, NEW v \in Threads,
               NEW k \in 1 .. Len(stack'[u]), NEW m \in 1 .. Len(stack'[v]),
               stack'[u][k] = stack'[v][m]
        PROVE  u = v /\ k = m
    <3>1. \/ u = t /\ k = n + 1 /\ stack'[u][k] = i
          \/ k \in 1 .. Len(stack[u]) /\ stack'[u][k] = stack[u][k]
      <4>1. CASE u # t
        BY <1>1, <4>1
      <4>2. CASE u = t
        <5>1. k \in 1 .. n + 1
          BY <1>2, <4>2
        <5>2. k = n + 1 \/ k \in 1 .. n
          BY <1>2, <5>1
        <5> QED BY <1>2, <1>5, <4>2, <5>2
      <4> QED BY <4>1, <4>2
    <3>2. \/ v = t /\ m = n + 1 /\ stack'[v][m] = i
          \/ m \in 1 .. Len(stack[v]) /\ stack'[v][m] = stack[v][m]
      <4>1. CASE v # t
        BY <1>1, <4>1
      <4>2. CASE v = t
        <5>1. m \in 1 .. n + 1
          BY <1>2, <4>2
        <5>2. m = n + 1 \/ m \in 1 .. n
          BY <1>2, <5>1
        <5> QED BY <1>2, <1>5, <4>2, <5>2
      <4> QED BY <4>1, <4>2
    <3> QED BY <1>10, <2>1, <2>2, <3>1, <3>2 DEF Distinct
  <2> QED BY <2>2 DEF Distinct
<1> QED BY <1>1, <1>3, <1>6, <1>8, <1>9, <1>10

Popped(st, t) == [st EXCEPT ![t] = Front(st[t])]

LEMMA PopFacts ==
  ASSUME StackShape(stack), NEW t \in Threads, NEW i \in Items,
         stack[t] # <<>>, Last(stack[t]) = i,
         IsFiniteSet(Frames(stack)), stack' = Popped(stack, t)
  PROVE  /\ StackShape(stack')
         /\ \A u \in Threads \ {t} : stack'[u] = stack[u]
         /\ Len(stack'[t]) = Len(stack[t]) - 1
         /\ \A k \in 1 .. Len(stack[t]) - 1 : stack'[t][k] = stack[t][k]
         /\ IsFiniteSet(Frames(stack'))
         /\ Cardinality(Frames(stack')) = Cardinality(Frames(stack)) - 1
         /\ RunningOn(stack') \subseteq RunningOn(stack) /\ i \in RunningOn(stack)
         /\ Distinct(stack) => /\ Distinct(stack')
                               /\ RunningOn(stack') = RunningOn(stack) \ {i}
<1> USE PoolAssumption
<1> DEFINE n == Len(stack[t])
<1>0. i \in Jobs /\ i \notin Clients /\ stack \in [Threads -> Seq(Jobs)]
      /\ \A u \in Threads : Len(stack[u]) \in Nat
  BY LenProperties DEF Jobs, StackShape
<1>1. n \in Nat \ {0} /\ n = Len(stack[t]) /\ stack[t][n] = i
  BY <1>0, EmptySeq DEF Last
<1> HIDE DEF n
<1>2. /\ Front(stack[t]) \in Seq(Jobs) /\ Len(Front(stack[t])) = n - 1
      /\ \A k \in 1 .. n - 1 : Front(stack[t])[k] = stack[t][k]
  <2>a. n - 1 \in 0 .. Len(stack[t])
    BY <1>1
  <2>1. PICK m \in 0 .. Len(stack[t]) : m = n - 1
    BY <2>a
  <2>2. Front(stack[t]) = SubSeq(stack[t], 1, m)
    BY <1>1, <2>1 DEF Front
  <2>3. /\ SubSeq(stack[t], 1, m) \in Seq(Jobs) /\ Len(SubSeq(stack[t], 1, m)) = m
        /\ \A k \in 1 .. m : SubSeq(stack[t], 1, m)[k] = stack[t][k]
    BY <1>0, PrefixFacts
  <2> QED BY <2>1, <2>2, <2>3
<1>3. /\ stack' \in [Threads -> Seq(Jobs)]
      /\ \A u \in Threads \ {t} : stack'[u] = stack[u]
      /\ Len(stack'[t]) = n - 1
      /\ \A k \in 1 .. n - 1 : stack'[t][k] = stack[t][k]
  BY <1>0, <1>2 DEF Popped
<1>4. \A u \in Threads : \A k \in 1 .. Len(stack'[u]) :
        k \in 1 .. Len(stack[u]) /\ stack'[u][k] = stack[u][k] /\ (u # t \/ k # n)
  <2> SUFFICES ASSUME NEW u \in Threads, NEW k \in 1 .. Len(stack'[u])
               PROVE  k \in 1 .. Len(stack[u]) /\ stack'[u][k] = stack[u][k] /\ (u # t \/ k # n)
    OBVIOUS
  <2>1. CASE u = t
    BY <1>1, <1>3, <2>1
  <2>2. CASE u # t
    BY <1>3, <2>2
  <2> QED BY <2>1, <2>2
<1>5. \A u \in Threads : \A k \in 1 .. Len(stack[u]) :
        u # t \/ k # n => k \in 1 .. Len(stack'[u]) /\ stack'[u][k] = stack[u][k]
  <2> SUFFICES ASSUME NEW u \in Threads, NEW k \in 1 .. Len(stack[u]), u # t \/ k # n
               PROVE  k \in 1 .. Len(stack'[u]) /\ stack'[u][k] = stack[u][k]
    OBVIOUS
  <2>1. CASE u = t
    BY <1>1, <1>3, <2>1
  <2>2. CASE u # t
    BY <1>3, <2>2
  <2> QED BY <2>1, <2>2
<1>6. StackShape(stack')
  <2>1. ASSUME NEW c \in Clients PROVE Len(stack'[c]) >= 1 /\ stack'[c][1] = c
    <3>1. Len(stack[c]) >= 1 /\ stack[c][1] = c /\ c \in Threads /\ Len(stack[c]) \in Nat
      BY <1>0 DEF StackShape, Threads
    <3>2. 1 \in 1 .. Len(stack[c]) /\ (c # t \/ 1 # n)
      BY <1>0, <1>1, <3>1
    <3>3. 1 \in 1 .. Len(stack'[c]) /\ stack'[c][1] = c
      BY <1>5, <3>1, <3>2
    <3> QED BY <1>3, <3>1, <3>3, LenProperties
  <2>2. ASSUME NEW u \in Threads, NEW k \in 1 .. Len(stack'[u])
        PROVE  /\ stack'[u][k] \in Clients => u = stack'[u][k] /\ k = 1
               /\ k > 1 => Parent[stack'[u][k]] = stack'[u][k - 1]
    <3>1. k \in 1 .. Len(stack[u]) /\ stack'[u][k] = stack[u][k]
      BY <1>4
    <3>2. Len(stack'[u]) \in Nat
      BY <1>3, LenProperties
    <3>3. k > 1 => k - 1 \in 1 .. Len(stack'[u])
      BY <3>2
    <3>4. k > 1 => stack'[u][k - 1] = stack[u][k - 1]
      BY <1>4, <3>3
    <3> QED BY <3>1, <3>4 DEF StackShape
  <2> QED BY <1>3, <2>1, <2>2 DEF StackShape
<1>7. Frames(stack') = Frames(stack) \ {<<t, n>>} /\ <<t, n>> \in Frames(stack)
  <2>1. \A u \in Threads, k \in Nat :
          <<u, k>> \in Frames(stack') <=> <<u, k>> \in Frames(stack) /\ ~(u = t /\ k = n)
    <3> SUFFICES ASSUME NEW u \in Threads, NEW k \in Nat
                 PROVE  <<u, k>> \in Frames(stack')
                          <=> <<u, k>> \in Frames(stack) /\ ~(u = t /\ k = n)
      OBVIOUS
    <3>1. /\ <<u, k>> \in Frames(stack') <=> k \in 1 .. Len(stack'[u]) /\ stack'[u][k] \in Items
          /\ <<u, k>> \in Frames(stack) <=> k \in 1 .. Len(stack[u]) /\ stack[u][k] \in Items
      BY FrameFacts
    <3> QED BY <1>4, <1>5, <3>1
  <2>2. /\ \A f \in Frames(stack') : \E u \in Threads, k \in Nat : f = <<u, k>>
        /\ \A f \in Frames(stack) : \E u \in Threads, k \in Nat : f = <<u, k>>
    <3>1. \A u \in Threads : 1 .. Len(stack[u]) \subseteq Nat /\ 1 .. Len(stack'[u]) \subseteq Nat
      BY <1>0, <1>3, LenProperties
    <3> QED BY <3>1, FramesAre
  <2>3. <<t, n>> \in Frames(stack)
    <3>1. n \in 1 .. Len(stack[t])
      BY <1>1
    <3> QED BY <1>1, <3>1, FrameFacts
  <2> QED BY <1>1, <2>1, <2>2, <2>3
<1>8. /\ IsFiniteSet(Frames(stack'))
      /\ Cardinality(Frames(stack')) = Cardinality(Frames(stack)) - 1
  <2> DEFINE F == Frames(stack)
             x == <<t, n>>
  <2>1. IsFiniteSet(F) /\ x \in F /\ Frames(stack') = F \ {x}
    BY <1>7
  <2> HIDE DEF F, x
  <2>2. IsFiniteSet(F \ {x}) /\ Cardinality(F \ {x}) = Cardinality(F) - 1
    BY <2>1, FS_RemoveElement
  <2> QED BY <2>1, <2>2 DEF F
<1>9. i \in RunningOn(stack)
  <2>1. n \in 1 .. Len(stack[t])
    BY <1>1
  <2> QED BY <1>1, <2>1 DEF RunningOn
<1>10. RunningOn(stack') \subseteq RunningOn(stack)
  BY <1>4 DEF RunningOn
<1>11. ASSUME Distinct(stack) PROVE Distinct(stack') /\ RunningOn(stack') = RunningOn(stack) \ {i}
  <2>1. Distinct(stack')
    BY <1>4, <1>11 DEF Distinct
  <2>2. n \in 1 .. Len(stack[t])
    BY <1>1
  <2>3. \A u \in Threads : \A k \in 1 .. Len(stack[u]) : stack[u][k] = i <=> u = t /\ k = n
    BY <1>1, <1>11, <2>2 DEF Distinct
  <2>4. i \notin RunningOn(stack')
    BY <1>4, <2>3 DEF RunningOn
  <2>5. ASSUME NEW j \in RunningOn(stack), j # i PROVE j \in RunningOn(stack')
    <3>1. PICK u \in Threads : \E k \in 1 .. Len(stack[u]) : stack[u][k] = j
      BY DEF RunningOn
    <3>2. PICK k \in 1 .. Len(stack[u]) : stack[u][k] = j
      BY <3>1
    <3>3. k \in 1 .. Len(stack'[u]) /\ stack'[u][k] = j
      BY <1>1, <1>5, <2>5, <3>2
    <3> QED BY <3>3 DEF RunningOn
  <2> QED BY <1>10, <2>1, <2>4, <2>5
<1> QED BY <1>1, <1>3, <1>6, <1>8, <1>9, <1>10, <1>11

-----------------------------------------------------------------------------
(* What holds stays so in the steps that leave most of the pool alone.     *)

Tops == {w \in Workers : AtLoopTop(w)}

LEMMA QueueFacts ==
  ASSUME TypeOK
  PROVE  /\ queue \in Seq(Items) /\ Len(queue) = queue_count /\ DOMAIN queue = 1 .. queue_count
         /\ \A k \in 1 .. queue_count : queue[k] = slots[k]
         /\ queue = <<>> <=> queue_count = 0
         /\ queue_count > 0 => Head(queue) = slots[1]
         /\ Whole => queue = slots
         /\ queue_count \in Nat /\ Len(slots) \in Nat /\ queue_count <= Len(slots)
<1>1. slots \in Seq(Items) /\ queue_count \in 0 .. Len(slots) /\ Len(slots) \in Nat
  BY LenProperties DEF TypeOK
<1> QED BY <1>1, PrefixFacts DEF queue, Whole

LEMMA QueueFactsNext ==
  ASSUME TypeOK'
  PROVE  /\ queue' \in Seq(Items) /\ Len(queue') = queue_count'
         /\ DOMAIN queue' = 1 .. queue_count'
         /\ \A k \in 1 .. queue_count' : queue'[k] = slots'[k]
         /\ Whole' => queue' = slots'
         /\ queue_count' \in Nat
<1>1. slots' \in Seq(Items) /\ queue_count' \in 0 .. Len(slots') /\ Len(slots') \in Nat
  BY LenProperties DEF TypeOK
<1>2. PICK s \in Seq(Items), n \in Nat : s = slots' /\ n = queue_count' /\ n \in 0 .. Len(s)
  BY <1>1
<1>3. queue' = SubSeq(s, 1, n)
  BY <1>2 DEF queue
<1>4. /\ queue' \in Seq(Items) /\ Len(queue') = n /\ DOMAIN queue' = 1 .. n
      /\ \A k \in 1 .. n : queue'[k] = s[k]
      /\ n = Len(s) => queue' = s
  <2>1. PICK q : q = SubSeq(s, 1, n)
    OBVIOUS
  <2>2. /\ q \in Seq(Items) /\ Len(q) = n /\ DOMAIN q = 1 .. n
        /\ \A k \in 1 .. n : q[k] = s[k]
        /\ n = Len(s) => q = s
    BY <1>2, <2>1, PrefixFacts, ZenonT(30)
  <2> QED BY <1>3, <2>1, <2>2
<1> QED BY <1>2, <1>4 DEF Whole

LEMMA TopsFinite == IsFiniteSet(Tops) /\ IsFiniteSet(Tops') /\ Cardinality(Tops) \in Nat
                    /\ Cardinality(Tops') \in Nat
<1>1. IsFiniteSet(Workers) /\ Tops \subseteq Workers /\ Tops' \subseteq Workers
  BY PoolAssumption DEF Tops
<1> QED BY <1>1, FS_Subset, FS_CardinalityType

LEMMA ReadyKept ==
  ASSUME TypeOK, TypeOK', ReadyWakeups, queue_count' <= queue_count,
         work_ready' \subseteq work_ready, Tops \subseteq Tops'
  PROVE  ReadyWakeups'
<1>1. Cardinality(Tops) <= Cardinality(Tops') /\ Cardinality(Tops) \in Nat
      /\ Cardinality(Tops') \in Nat
  BY TopsFinite, FS_Subset
<1>2. work_ready # {} => queue_count <= Cardinality(Tops)
  BY QueueFacts DEF ReadyWakeups, Tops
<1>3. queue_count \in Nat /\ queue_count' \in Nat /\ Len(queue') = queue_count'
  BY QueueFacts, QueueFactsNext
<1>4. work_ready' # {} => queue_count' <= Cardinality(Tops')
  BY <1>1, <1>2, <1>3
<1> QED BY <1>3, <1>4 DEF ReadyWakeups, Tops

LEMMA BooksKept ==
  ASSUME IInv, UNCHANGED <<slots, queue_count, pending, gpending, stack, submitted, ran>>,
         Whole => Sleepers'
  PROVE  StackShape(stack') /\ Counted' /\ (Whole' => Exact') /\ (Whole' <=> Whole)
<1>1. StackShape(stack') /\ Counted'
  BY DEF IInv, StackShape, Counted, Frames
<1>2. Whole' <=> Whole
  BY DEF Whole
<1>3. ASSUME Whole PROVE Exact'
  <2>1. Located /\ Numbers /\ Done
    BY <1>3 DEF IInv, Exact
  <2>2. Located'
    BY <2>1 DEF Located, Distinct, RunningOn
  <2>3. Numbers' /\ Done'
    BY <2>1 DEF Numbers, Done
  <2> QED BY <1>3, <2>2, <2>3 DEF Exact
<1> QED BY <1>1, <1>2, <1>3

LEMMA SleepersKept ==
  ASSUME IInv, Whole, UNCHANGED <<slots, queue_count, pending, gpending, stack, submitted>>,
         work_done' \subseteq work_done,
         \A c \in Clients : c \in work_done' => barrier'[c] = barrier[c]
  PROVE  Sleepers'
<1>1. Sleepers
  BY DEF IInv, Exact
<1>2. ASSUME NEW t \in work_done', NEW j, j = Last(stack[t])
      PROVE  \/ InGroupWait(j)' /\ gpending'[j] > 0 /\ OwnQueued(j)' = {}
             \/ j \in Clients /\ barrier'[j] # {} /\ pending' > 0
  <2>1. \/ InGroupWait(j) /\ gpending[j] > 0 /\ OwnQueued(j) = {}
        \/ j \in Clients /\ barrier[j] # {} /\ pending > 0
    BY <1>1, <1>2 DEF Sleepers
  <2>2. t \in Threads /\ stack[t] # <<>> /\ Len(stack[t]) \in Nat \ {0}
    BY EmptySeq, LenProperties DEF IInv, TypeOK, Lives
  <2>3. j = stack[t][Len(stack[t])] /\ Len(stack[t]) \in 1 .. Len(stack[t])
    BY <1>2, <2>2 DEF Last
  <2>4. j \in Clients => t = j
    BY <2>2, <2>3 DEF IInv, StackShape
  <2>5. InGroupWait(j) => InGroupWait(j)'
    BY DEF InGroupWait, Kids
  <2>6. OwnQueued(j)' = OwnQueued(j)
    BY DEF OwnQueued, queue
  <2> QED BY <1>2, <2>1, <2>4, <2>5, <2>6
<1> QED BY <1>2 DEF Sleepers

-----------------------------------------------------------------------------
LEMMA InitHolds == Init => IInv
<1> SUFFICES ASSUME Init PROVE IInv
  OBVIOUS
<1> USE PoolAssumption
<1>1. slots = <<>> /\ Len(slots) = 0 /\ DOMAIN slots = 1 .. 0 /\ slots \in Seq(Items)
  BY EmptySeq DEF Init
<1>a. \A t \in Clients : t \in Jobs /\ <<t>> \in Seq(Jobs) /\ Len(<<t>>) = 1 /\ <<t>>[1] = t
  BY DEF Jobs
<1>2. /\ stack \in [Threads -> Seq(Jobs)]
      /\ \A t \in Clients : stack[t] = <<t>> /\ Len(stack[t]) = 1 /\ stack[t][1] = t
      /\ \A t \in Workers : stack[t] = <<>> /\ Len(stack[t]) = 0
      /\ Threads = Clients \cup Workers
  BY <1>a, EmptySeq DEF Init, Threads
<1>3. TypeOK
  <2>1. queue_count \in 0 .. Len(slots) /\ pending \in Nat
    BY <1>1 DEF Init
  <2>2. /\ gpending \in [Jobs -> Int] /\ life \in [Workers -> {"none", "live", "exited"}]
        /\ barrier \in [Clients -> SUBSET SUBSET Items]
    BY DEF Init
  <2> QED BY <1>1, <1>2, <2>1, <2>2 DEF Init, TypeOK
<1>4. \A t \in Threads : \A k \in 1 .. Len(stack[t]) : t \in Clients /\ k = 1 /\ stack[t][k] = t
  <2>1. 1 .. 0 = {} /\ 1 .. 1 = {1}
    OBVIOUS
  <2> QED BY <1>2, <2>1
<1>5. StackShape(stack)
  BY <1>2, <1>4 DEF StackShape
<1>6. Frames(stack) = {} /\ RunningOn(stack) = {} /\ Distinct(stack)
  <2>1. \A t \in Threads : \A k \in 1 .. Len(stack[t]) : stack[t][k] \notin Items
    BY <1>4
  <2>2. \A f \in Frames(stack) : FALSE
    BY <2>1, FramesAre DEF Frames, ItemFrames
  <2> QED BY <1>4, <2>1, <2>2 DEF RunningOn, Distinct
<1>7. Lives /\ Barriers
  BY <1>2 DEF Init, Lives, Barriers
<1>8. Counted
  <2>1. IsFiniteSet({}) /\ Cardinality({}) = 0 /\ pending = 0
    BY FS_EmptySet DEF Init
  <2> QED BY <1>1, <1>6, <2>1 DEF Counted
<1>9. Located
  <2>1. ToSet(slots) = {} /\ IsInjective(slots)
    BY <1>1 DEF ToSet, IsInjective
  <2> QED BY <1>6, <2>1 DEF Located, Init
<1>10. Numbers /\ Done /\ Sleepers
  <2>1. submitted \ ran = {} /\ \A j \in Jobs : (Kids(j) \cap submitted) \ ran = {}
    BY DEF Init
  <2> QED BY <2>1, FS_EmptySet DEF Numbers, Done, Sleepers, Init
<1>11. ReadyWakeups
  BY DEF ReadyWakeups, Init
<1> QED BY <1>1, <1>3, <1>5, <1>7, <1>8, <1>9, <1>10, <1>11 DEF IInv, Exact, Whole, Init

LEMMA WorkerWaitKeeps == ASSUME IInv, NEW w \in Workers, WorkerWait(w) PROVE IInv'
<1> USE DEF IInv
<1>1. /\ life[w] = "live" /\ stack[w] = <<>> /\ queue = <<>>
      /\ work_ready' = work_ready \cup {w}
      /\ UNCHANGED <<slots, queue_count, pending, shutdown, started, work_done, gpending, stack,
                     life, barrier, exit, submitted, ran>>
  BY DEF WorkerWait, AtLoopTop, ring
<1>2. TypeOK'
  BY <1>1 DEF TypeOK
<1>3. Lives' /\ Barriers'
  BY <1>1 DEF Lives, Barriers
<1>4. ReadyWakeups'
  <2>1. Len(queue') = 0
    BY <1>1, <1>2, QueueFacts, QueueFactsNext
  <2> QED BY <2>1, TopsFinite DEF ReadyWakeups, Tops
<1>5. Whole => Sleepers'
  BY <1>1, SleepersKept
<1>6. StackShape(stack') /\ Counted' /\ (Whole' => Exact') /\ (Whole' <=> Whole)
  BY <1>1, <1>5, BooksKept
<1>7. ~Abandoned' => Whole'
  BY <1>1, <1>6 DEF Abandoned
<1> QED BY <1>2, <1>3, <1>4, <1>6, <1>7

LEMMA WorkerExitKeeps == ASSUME IInv, NEW w \in Workers, WorkerExit(w) PROVE IInv'
<1> USE DEF IInv
<1>1. /\ life[w] = "live" /\ stack[w] = <<>> /\ queue = <<>> /\ w \notin work_ready
      /\ life' = [life EXCEPT ![w] = "exited"] /\ shutdown
      /\ UNCHANGED <<slots, queue_count, pending, shutdown, started, work_ready, work_done,
                     gpending, stack, barrier, exit, submitted, ran>>
  BY DEF WorkerExit, AtLoopTop, Awake, ring
<1>2. TypeOK'
  BY <1>1 DEF TypeOK
<1>3. Lives' /\ Barriers'
  BY <1>1 DEF Lives, Barriers, TypeOK
<1>4. ReadyWakeups'
  <2>1. Len(queue') = 0
    BY <1>1, <1>2, QueueFacts, QueueFactsNext
  <2> QED BY <2>1, TopsFinite DEF ReadyWakeups, Tops
<1>5. Whole => Sleepers'
  BY <1>1, SleepersKept
<1>6. StackShape(stack') /\ Counted' /\ (Whole' => Exact') /\ (Whole' <=> Whole)
  BY <1>1, <1>5, BooksKept
<1>7. ~Abandoned' => Whole'
  BY <1>1, <1>6 DEF Abandoned
<1> QED BY <1>2, <1>3, <1>4, <1>6, <1>7

-----------------------------------------------------------------------------
(* The items a step takes, adds or settles. *)

LEMMA LowestFacts ==
  ASSUME NEW S, S \subseteq Nat, S # {}
  PROVE  Lowest(S) \in S
<1>1. \E x \in S : \A y \in S : ~ (<<y, x>> \in OpToRel(<, Nat))
  BY NatLessThanWellFounded, WFMin, Zenon
<1>2. PICK x \in S : \A y \in S : ~ (<<y, x>> \in OpToRel(<, Nat))
  BY <1>1, Zenon
<1>a. x \in S
  BY <1>2, Zenon
<1>3. \A y \in S : <<y, x>> \in Nat \X Nat /\ ~(y < x)
  BY <1>a, <1>2 DEF OpToRel
<1>4. \A y \in S : x =< y
  <2>1. x \in Nat /\ \A y \in S : y \in Nat /\ ~(y < x)
    BY <1>a, <1>3
  <2> QED BY <2>1
<1> QED BY <1>a, <1>4 DEF Lowest

\* Whoever is asleep for items to finish still has a reason to be.
LEMMA SleepersStep ==
  ASSUME IInv, Whole, Whole', TypeOK', submitted \subseteq submitted',
         \A t \in work_done' : /\ t \in work_done /\ stack'[t] = stack[t]
                               /\ t \in Clients => barrier'[t] = barrier[t]
                               /\ gpending[Last(stack[t])] > 0 => gpending'[Last(stack[t])] > 0
                               /\ pending > 0 => pending' > 0,
         \A x \in ToSet(slots') \ ToSet(slots) : Parent[x] \in Jobs => ~InGroupWait(Parent[x])
  PROVE  Sleepers'
<1>1. Sleepers
  BY DEF IInv, Exact
<1>2. ASSUME NEW t \in work_done', NEW j, j = Last(stack[t])
      PROVE  \/ InGroupWait(j)' /\ gpending'[j] > 0 /\ OwnQueued(j)' = {}
             \/ j \in Clients /\ barrier'[j] # {} /\ pending' > 0
  <2>1. \/ InGroupWait(j) /\ gpending[j] > 0 /\ OwnQueued(j) = {}
        \/ j \in Clients /\ barrier[j] # {} /\ pending > 0
    BY <1>1, <1>2 DEF Sleepers
  <2>2. t \in Threads /\ stack[t] # <<>> /\ Len(stack[t]) \in Nat \ {0} /\ stack[t] \in Seq(Jobs)
    BY EmptySeq, LenProperties DEF IInv, TypeOK, Lives
  <2>3. j = stack[t][Len(stack[t])] /\ Len(stack[t]) \in 1 .. Len(stack[t])
    BY <1>2, <2>2 DEF Last
  <2>4. (j \in Clients => t = j) /\ j \in Jobs
    BY <2>2, <2>3, ElementOfSeq DEF IInv, StackShape
  <2>5. InGroupWait(j) => InGroupWait(j)'
    BY DEF InGroupWait, Kids
  <2>6. ASSUME InGroupWait(j), OwnQueued(j) = {} PROVE OwnQueued(j)' = {}
    <3>1. queue = slots /\ queue' = slots'
      BY QueueFacts, QueueFactsNext DEF IInv
    <3>2. \A x \in ToSet(slots) : Parent[x] # j
      BY <2>6, <3>1 DEF OwnQueued, ToSet
    <3>3. \A k \in DOMAIN slots' : slots'[k] \in ToSet(slots')
      BY DEF ToSet
    <3>4. \A k \in DOMAIN slots' : Parent[slots'[k]] # j
      BY <2>4, <2>6, <3>2, <3>3
    <3> QED BY <3>1, <3>4 DEF OwnQueued
  <2> QED BY <1>2, <2>1, <2>4, <2>5, <2>6
<1> QED BY <1>2 DEF Sleepers

LEMMA WorkerTakeKeeps == ASSUME IInv, NEW w \in Workers, WorkerTake(w) PROVE IInv'
<1> USE DEF IInv
<1> DEFINE x == slots[1]
<1>1. /\ life[w] = "live" /\ stack[w] = <<>> /\ queue_count > 0 /\ w \notin work_ready
      /\ w \notin work_done /\ Head(queue) = x /\ w \in Threads
  BY QueueFacts DEF WorkerTake, AtLoopTop, Awake, Threads
<1>2. /\ stack' = [stack EXCEPT ![w] = <<Head(queue)>>]
      /\ slots' = Tail(slots) /\ queue_count' = queue_count - 1
      /\ UNCHANGED <<pending, shutdown, started, work_ready, work_done, gpending, life,
                     barrier, exit, submitted, ran>>
  BY DEF WorkerTake
<1>3. /\ slots \in Seq(Items) /\ Len(slots) \in Nat /\ queue_count \in Nat
      /\ queue_count <= Len(slots) /\ DOMAIN slots = 1 .. Len(slots)
      /\ 1 \in 1 .. Len(slots)
  BY <1>1, QueueFacts, LenProperties DEF TypeOK
<1>4. x \in Items /\ x \in ToSet(slots)
  BY <1>3, ElementOfSeq DEF ToSet
<1>5. /\ slots' \in Seq(Items) /\ Len(slots') = Len(slots) - 1
      /\ IsInjective(slots) => IsInjective(slots') /\ ToSet(slots') = ToSet(slots) \ {x}
  <2>1. slots' = Closed(slots, 1)
    BY <1>2, <1>3, TailFacts
  <2> QED BY <1>3, <2>1, ClosedFacts
<1>6. stack' = Pushed(stack, w, x)
  <2>1. Append(<<>>, x) = <<x>>
    OBVIOUS
  <2> QED BY <1>1, <1>2, <2>1 DEF Pushed
<1> HIDE DEF x
<1>7. /\ StackShape(stack') /\ stack'[w] # <<>>
      /\ \A u \in Threads \ {w} : stack'[u] = stack[u]
      /\ IsFiniteSet(Frames(stack'))
      /\ Cardinality(Frames(stack')) = Cardinality(Frames(stack)) + 1
      /\ RunningOn(stack') = RunningOn(stack) \cup {x}
      /\ Distinct(stack) /\ x \notin RunningOn(stack) => Distinct(stack')
  BY <1>1, <1>4, <1>6, PushFacts DEF Counted
<1>8. TypeOK'
  <2>1. queue_count' \in 0 .. Len(slots')
    BY <1>1, <1>2, <1>3, <1>5
  <2> QED BY <1>2, <1>5, <1>7, <2>1 DEF TypeOK, StackShape
<1>9. Lives'
  <2>1. Workers \subseteq Threads /\ work_done \subseteq Threads /\ work_ready \subseteq Workers
    BY DEF Threads, TypeOK
  <2> QED BY <1>1, <1>2, <1>7, <2>1 DEF Lives
<1>10. Counted'
  <2>1. Cardinality(Frames(stack)) \in Nat
    BY FS_CardinalityType DEF Counted
  <2> QED BY <1>2, <1>3, <1>5, <1>7, <2>1 DEF Counted
<1>11. Whole' <=> Whole
  <2>1. PICK n \in Nat, m \in Nat : n = Len(slots) /\ m = queue_count
    BY <1>3
  <2>2. Len(slots') = n - 1 /\ queue_count' = m - 1
    BY <1>2, <1>5, <2>1
  <2>3. m - 1 = n - 1 <=> m = n
    BY <2>1
  <2> QED BY <2>1, <2>2, <2>3 DEF Whole
<1>12. ASSUME Whole PROVE Exact'
  <2>1. Located /\ Numbers /\ Done
    BY <1>12 DEF Exact
  <2>2. Located'
    BY <1>2, <1>4, <1>5, <1>7, <2>1 DEF Located
  <2>3. Numbers' /\ Done'
    BY <1>2, <2>1 DEF Numbers, Done
  <2>4. Sleepers'
    <3>1. \A t \in work_done' : t \in work_done /\ stack'[t] = stack[t]
      BY <1>1, <1>2, <1>7 DEF TypeOK
    <3>2. ToSet(slots') \ ToSet(slots) = {}
      BY <1>5, <2>1 DEF Located
    <3> QED BY <1>2, <1>8, <1>11, <1>12, <3>1, <3>2, SleepersStep
  <2> QED BY <2>2, <2>3, <2>4 DEF Exact
<1>13. ReadyWakeups'
  <2>1. w \in Tops /\ Tops' = Tops \ {w}
    <3>1. ASSUME NEW v \in Workers \ {w} PROVE AtLoopTop(v)' <=> AtLoopTop(v)
      <4>1. stack'[v] = stack[v]
        BY <1>7 DEF Threads
      <4> QED BY <1>2, <4>1 DEF AtLoopTop, Awake
    <3>2. AtLoopTop(w) /\ ~AtLoopTop(w)'
      BY <1>7 DEF WorkerTake, AtLoopTop
    <3> QED BY <3>1, <3>2 DEF Tops
  <2>2. Cardinality(Tops') = Cardinality(Tops) - 1 /\ Cardinality(Tops) \in Nat
    BY <2>1, TopsFinite, FS_RemoveElement
  <2>3. work_ready # {} => queue_count <= Cardinality(Tops)
    BY QueueFacts DEF ReadyWakeups, Tops
  <2>4. Len(queue') = queue_count'
    BY <1>8, QueueFactsNext
  <2>5. work_ready' # {} => queue_count' <= Cardinality(Tops')
    BY <1>2, <1>3, <2>2, <2>3
  <2> QED BY <2>4, <2>5 DEF ReadyWakeups, Tops
<1>14. Barriers'
  BY <1>2 DEF Barriers
<1>15. ~Abandoned' => Whole'
  BY <1>2, <1>11 DEF Abandoned
<1> QED BY <1>7, <1>8, <1>9, <1>10, <1>11, <1>12, <1>13, <1>14, <1>15

\* The gap is closed within the queue; the slots behind it stay behind it.
LEMMA CloseGapFacts ==
  ASSUME TypeOK, NEW k \in 1 .. queue_count
  PROVE  /\ CloseGap(k) \in Seq(Items) /\ Len(CloseGap(k)) = Len(slots) - 1
         /\ Whole => CloseGap(k) = Closed(slots, k)
<1>1. PICK n \in Nat : n = Len(slots) /\ slots \in Seq(Items)
  BY LenProperties DEF TypeOK
<1>2. PICK q \in Nat : q = queue_count /\ q <= n
  BY <1>1 DEF TypeOK
<1>3. k \in 1 .. q /\ n - 1 \in Nat
  BY <1>1, <1>2
<1> DEFINE r == [m \in 1 .. n - 1 |-> IF m \in k .. q - 1 THEN slots[m + 1] ELSE slots[m]]
<1>4. CloseGap(k) = r
  BY <1>1, <1>2 DEF CloseGap
<1>5. r \in [1 .. n - 1 -> Items]
  <2>1. ASSUME NEW m \in 1 .. n - 1
        PROVE  (IF m \in k .. q - 1 THEN slots[m + 1] ELSE slots[m]) \in Items
    <3>1. m \in 1 .. Len(slots) /\ m + 1 \in 1 .. Len(slots)
      BY <1>1
    <3>2. slots[m] \in Items /\ slots[m + 1] \in Items
      BY <1>1, <3>1, ElementOfSeq
    <3> QED BY <3>2
  <2> QED BY <2>1
<1>6. r \in Seq(Items) /\ DOMAIN r = 1 .. n - 1
  <2>1. DOMAIN r = 1 .. n - 1
    OBVIOUS
  <2> HIDE DEF r
  <2>2. r \in Seq(Items)
    BY <1>3, <1>5, SeqDef
  <2> QED BY <2>1, <2>2
<1>7. Whole => r = Closed(slots, k)
  BY <1>1, <1>2 DEF Whole, Closed
<1> HIDE DEF r
<1>8. Len(r) = n - 1
  BY <1>3, <1>6, LenProperties
<1> QED BY <1>1, <1>4, <1>6, <1>7, <1>8

LEMMA GroupWaitParksKeeps ==
  ASSUME IInv, NEW t \in Threads, NEW j \in Jobs, Runs(t, j), InGroupWait(j), gpending[j] > 0,
         GroupWaitParks(t, j),
         UNCHANGED <<pending, shutdown, started, work_ready, gpending, life, barrier,
                     exit, submitted, ran>>
  PROVE  IInv'
<1> USE DEF IInv
<1>1. /\ OwnQueued(j) = {} /\ work_done' = work_done \cup {t}
      /\ stack[t] # <<>> /\ Last(stack[t]) = j
      /\ UNCHANGED <<slots, queue_count, pending, shutdown, started, work_ready, gpending, stack,
                     life, barrier, exit, submitted, ran>>
  BY DEF GroupWaitParks, Runs, ring
<1>2. TypeOK'
  BY <1>1 DEF TypeOK
<1>3. Lives' /\ Barriers'
  BY <1>1 DEF Lives, Barriers
<1>4. ReadyWakeups'
  <2>1. Tops \subseteq Tops'
    <3>1. \A w \in Workers : AtLoopTop(w) => AtLoopTop(w)'
      BY <1>1 DEF AtLoopTop, Awake
    <3> QED BY <3>1 DEF Tops
  <2>2. queue_count' <= queue_count
    BY <1>1, QueueFacts
  <2> QED BY <1>1, <1>2, <2>1, <2>2, ReadyKept
<1>5. ASSUME Whole PROVE Sleepers'
  <2>1. Sleepers
    BY <1>5 DEF Exact
  <2>2. \A i : /\ InGroupWait(i)' <=> InGroupWait(i)
               /\ OwnQueued(i)' = OwnQueued(i)
    BY <1>1 DEF InGroupWait, Kids, OwnQueued, queue
  <2> QED BY <1>1, <2>1, <2>2 DEF Sleepers
<1>6. StackShape(stack') /\ Counted' /\ (Whole' => Exact') /\ (Whole' <=> Whole)
  BY <1>1, <1>5, BooksKept
<1>7. ~Abandoned' => Whole'
  BY <1>1, <1>6 DEF Abandoned
<1> QED BY <1>2, <1>3, <1>4, <1>6, <1>7

LEMMA GroupWaitRunsKeeps ==
  ASSUME IInv, NEW t \in Threads, NEW j \in Jobs, Runs(t, j), GroupWaitRuns(t, j),
         UNCHANGED <<pending, shutdown, started, work_ready, gpending, life, barrier,
                     exit, submitted, ran>>
  PROVE  IInv'
<1> USE DEF IInv
<1>0. /\ OwnQueued(j) # {} /\ stack[t] # <<>> /\ Last(stack[t]) = j
      /\ t \notin work_ready /\ t \notin work_done
  BY DEF Runs, Awake, GroupWaitRuns
<1>1. PICK k \in 1 .. queue_count : k = Lowest(OwnQueued(j)) /\ Parent[queue[k]] = j
  <2>1. OwnQueued(j) \subseteq 1 .. queue_count /\ queue_count \in Nat
    BY QueueFacts DEF OwnQueued
  <2>2. OwnQueued(j) \subseteq Nat
    BY <2>1
  <2>3. Lowest(OwnQueued(j)) \in OwnQueued(j)
    BY <1>0, <2>2, LowestFacts
  <2> QED BY <2>1, <2>3 DEF OwnQueued
<1>2. PICK x : x = slots[k] /\ x = queue[k]
  BY <1>1, QueueFacts
<1>3. /\ slots \in Seq(Items) /\ Len(slots) \in Nat /\ queue_count \in Nat
      /\ queue_count <= Len(slots) /\ DOMAIN slots = 1 .. Len(slots)
      /\ k \in 1 .. Len(slots) /\ queue_count > 0
  BY <1>1, QueueFacts, LenProperties DEF TypeOK
<1>4. x \in Items /\ x \in ToSet(slots) /\ Parent[x] = j
  BY <1>1, <1>2, <1>3, ElementOfSeq DEF ToSet
<1>5. /\ stack' = Pushed(stack, t, x) /\ slots' = CloseGap(k) /\ queue_count' = queue_count - 1
      /\ work_done' = work_done
  BY <1>1, <1>2 DEF GroupWaitRuns, TakeOwn, Pushed
<1>6. /\ slots' \in Seq(Items) /\ Len(slots') = Len(slots) - 1
      /\ Whole /\ IsInjective(slots) => IsInjective(slots') /\ ToSet(slots') = ToSet(slots) \ {x}
  <2>1. /\ CloseGap(k) \in Seq(Items) /\ Len(CloseGap(k)) = Len(slots) - 1
        /\ Whole => CloseGap(k) = Closed(slots, k)
    BY <1>1, CloseGapFacts
  <2>2. IsInjective(slots) => /\ IsInjective(Closed(slots, k))
                              /\ ToSet(Closed(slots, k)) = ToSet(slots) \ {slots[k]}
    BY <1>3, ClosedFacts
  <2> QED BY <1>2, <1>5, <2>1, <2>2
<1>7. /\ StackShape(stack') /\ stack'[t] # <<>>
      /\ \A u \in Threads \ {t} : stack'[u] = stack[u]
      /\ IsFiniteSet(Frames(stack'))
      /\ Cardinality(Frames(stack')) = Cardinality(Frames(stack)) + 1
      /\ RunningOn(stack') = RunningOn(stack) \cup {x}
      /\ Distinct(stack) /\ x \notin RunningOn(stack) => Distinct(stack')
  BY <1>0, <1>4, <1>5, PushFacts DEF Counted
<1>8. TypeOK'
  <2>1. queue_count' \in 0 .. Len(slots')
    BY <1>3, <1>5, <1>6
  <2> QED BY <1>5, <1>6, <1>7, <2>1 DEF TypeOK, StackShape
<1>9. Lives'
  <2>1. Workers \subseteq Threads /\ work_done \subseteq Threads /\ work_ready \subseteq Workers
    BY DEF Threads, TypeOK
  <2> QED BY <1>0, <1>5, <1>7, <2>1 DEF Lives
<1>10. Counted'
  <2>1. Cardinality(Frames(stack)) \in Nat
    BY FS_CardinalityType DEF Counted
  <2> QED BY <1>3, <1>6, <1>7, <2>1 DEF Counted
<1>11. Whole' <=> Whole
  <2>1. PICK n \in Nat, m \in Nat : n = Len(slots) /\ m = queue_count
    BY <1>3
  <2>2. Len(slots') = n - 1 /\ queue_count' = m - 1
    BY <1>5, <1>6, <2>1
  <2>3. m - 1 = n - 1 <=> m = n
    BY <2>1
  <2> QED BY <2>1, <2>2, <2>3 DEF Whole
<1>12. ASSUME Whole PROVE Exact'
  <2>1. Located /\ Numbers /\ Done
    BY <1>12 DEF Exact
  <2>2. Located'
    BY <1>4, <1>6, <1>7, <1>12, <2>1 DEF Located
  <2>3. Numbers' /\ Done'
    BY <2>1 DEF Numbers, Done
  <2>4. Sleepers'
    <3>1. \A u \in work_done' : u \in work_done /\ stack'[u] = stack[u]
      BY <1>0, <1>5, <1>7 DEF TypeOK
    <3>2. ToSet(slots') \ ToSet(slots) = {}
      BY <1>6, <1>12, <2>1 DEF Located
    <3> QED BY <1>5, <1>8, <1>11, <1>12, <3>1, <3>2, SleepersStep
  <2> QED BY <2>2, <2>3, <2>4 DEF Exact
<1>13. ReadyWakeups'
  <2>1. Tops \subseteq Tops'
    <3>1. ASSUME NEW v \in Workers, AtLoopTop(v) PROVE AtLoopTop(v)'
      <4>1. stack'[v] = stack[v]
        BY <1>0, <1>7, <3>1 DEF Threads, AtLoopTop
      <4> QED BY <1>5, <3>1, <4>1 DEF AtLoopTop, Awake
    <3> QED BY <3>1 DEF Tops
  <2>2. queue_count' <= queue_count
    BY <1>3, <1>5
  <2> QED BY <1>5, <1>8, <2>1, <2>2, ReadyKept
<1>14. Barriers'
  BY DEF Barriers
<1>15. ~Abandoned' => Whole'
  BY <1>11 DEF Abandoned
<1> QED BY <1>7, <1>8, <1>9, <1>10, <1>11, <1>12, <1>13, <1>14, <1>15

-----------------------------------------------------------------------------
(* Submitting an item. *)

LEMMA SubmitKeeps ==
  ASSUME IInv, NEW i \in Items, i \notin submitted, NEW g, g = Parent[i], SubmitTo(g, i)
  PROVE  IInv'
<1> USE DEF IInv
<1> USE PoolAssumption
<1>1. /\ slots' = Append(slots, i) /\ queue_count' = queue_count + 1 /\ pending' = pending + 1
      /\ submitted' = submitted \cup {i} /\ started' = TRUE
      /\ UNCHANGED <<shutdown, work_done, stack, barrier, exit, ran>>
      /\ work_ready' \in Signal(work_ready)
  BY DEF SubmitTo, pool_start_locked, WakeWorker
<1>2. /\ slots \in Seq(Items) /\ Len(slots) \in Nat /\ queue_count \in Nat
      /\ queue_count <= Len(slots) /\ DOMAIN slots = 1 .. Len(slots)
  BY QueueFacts, LenProperties DEF TypeOK
<1>3. /\ slots' \in Seq(Items) /\ Len(slots') = Len(slots) + 1
      /\ ToSet(slots') = ToSet(slots) \cup {i}
      /\ IsInjective(slots) /\ i \notin ToSet(slots) => IsInjective(slots')
  BY <1>1, <1>2, AppendFacts
<1>4. /\ gpending' \in [Jobs -> Int]
      /\ \A j \in Jobs : gpending'[j] = IF j = g THEN gpending[j] + 1 ELSE gpending[j]
      /\ \A j \in Jobs : gpending[j] \in Int
  BY DEF SubmitTo, TypeOK
<1>5. \/ work_ready = {} /\ work_ready' = {}
      \/ \E u \in work_ready : work_ready' = work_ready \ {u}
  BY <1>1 DEF Signal
<1>6. /\ life' \in [Workers -> {"none", "live", "exited"}]
      /\ \A w \in Workers : life'[w] = "live" \/ life'[w] = life[w]
      /\ ~shutdown => \A w \in Restart : life'[w] = life[w]
  BY DEF SubmitTo, pool_start_locked, TypeOK, Workers
<1>7. TypeOK'
  <2>1. queue_count' \in 0 .. Len(slots') /\ pending' \in Nat
    BY <1>1, <1>2, <1>3 DEF TypeOK
  <2>2. work_ready' \in SUBSET Workers
    BY <1>5 DEF TypeOK
  <2> QED BY <1>1, <1>3, <1>4, <1>6, <2>1, <2>2 DEF TypeOK
<1>8. StackShape(stack') /\ Lives'
  <2>1. StackShape(stack')
    BY <1>1
  <2> QED BY <1>1, <1>5, <1>6, <2>1 DEF Lives, TypeOK
<1>9. Counted'
  <2>1. Cardinality(Frames(stack)) \in Nat /\ Frames(stack)' = Frames(stack)
    BY <1>1, FS_CardinalityType DEF Counted, Frames
  <2> QED BY <1>1, <1>2, <1>3, <2>1 DEF Counted
<1>10. Whole' <=> Whole
  <2>1. PICK n \in Nat, m \in Nat : n = Len(slots) /\ m = queue_count
    BY <1>2
  <2>2. Len(slots') = n + 1 /\ queue_count' = m + 1
    BY <1>1, <1>3, <2>1
  <2>3. m + 1 = n + 1 <=> m = n
    BY <2>1
  <2> QED BY <2>1, <2>2, <2>3 DEF Whole
<1>11. ASSUME Whole PROVE Exact'
  <2>1. Located /\ Numbers /\ Done
    BY <1>11 DEF Exact
  <2>2. i \notin ToSet(slots) /\ i \notin RunningOn(stack) /\ i \notin ran
    BY <2>1 DEF Located
  <2>3. Located'
    <3>1. RunningOn(stack)' = RunningOn(stack) /\ Distinct(stack)'
      BY <1>1, <2>1 DEF RunningOn, Distinct, Located
    <3> QED BY <1>1, <1>3, <2>1, <2>2, <3>1 DEF Located
  <2>4. Numbers'
    <3>1. IsFiniteSet(Items) /\ submitted \subseteq Items
      BY DEF TypeOK
    <3>2. pending' = Cardinality(submitted' \ ran')
      <4> DEFINE F == submitted \ ran
      <4>1. IsFiniteSet(F) /\ i \notin F /\ submitted' \ ran' = F \cup {i} /\ pending = Cardinality(F)
        BY <1>1, <2>1, <2>2, <3>1, FS_Subset DEF Numbers
      <4> HIDE DEF F
      <4>2. Cardinality(F \cup {i}) = Cardinality(F) + 1
        BY <4>1, FS_AddElement
      <4> QED BY <1>1, <4>1, <4>2
    <3>3. ASSUME NEW j \in Jobs PROVE gpending'[j] = Cardinality((Kids(j) \cap submitted') \ ran')
      <4> DEFINE F == (Kids(j) \cap submitted) \ ran
      <4>1. IsFiniteSet(F) /\ i \notin F /\ gpending[j] = Cardinality(F)
        BY <2>1, <2>2, <3>1, FS_Subset DEF Numbers
      <4>2. CASE j = g
        <5>1. (Kids(j) \cap submitted') \ ran' = F \cup {i}
          BY <1>1, <2>2, <4>2 DEF Kids
        <5> HIDE DEF F
        <5>2. Cardinality(F \cup {i}) = Cardinality(F) + 1
          BY <4>1, FS_AddElement
        <5> QED BY <1>4, <4>1, <4>2, <5>1, <5>2
      <4>3. CASE j # g
        <5>1. (Kids(j) \cap submitted') \ ran' = F
          BY <1>1, <4>3 DEF Kids
        <5> QED BY <1>4, <4>1, <4>3, <5>1
      <4> QED BY <4>2, <4>3
    <3> QED BY <3>2, <3>3 DEF Numbers, Kids
  <2>5. Done'
    BY <1>1, <2>1 DEF Done, Kids
  <2>6. Sleepers'
    <3>1. \A t \in work_done : t \in Threads /\ Last(stack[t]) \in Jobs
      <4> SUFFICES ASSUME NEW t \in work_done PROVE t \in Threads /\ Last(stack[t]) \in Jobs
        OBVIOUS
      <4>1. t \in Threads /\ stack[t] \in Seq(Jobs) /\ stack[t] # <<>>
        BY DEF TypeOK, Lives
      <4>2. Len(stack[t]) \in 1 .. Len(stack[t])
        BY <4>1, LenProperties, EmptySeq
      <4> QED BY <4>1, <4>2, ElementOfSeq DEF Last
    <3>2. \A x \in ToSet(slots') \ ToSet(slots) : Parent[x] \in Jobs => ~InGroupWait(Parent[x])
      BY <1>3 DEF InGroupWait, Kids
    <3>3. pending > 0 => pending' > 0
      BY <1>1 DEF TypeOK
    <3>4. \A t \in work_done' : gpending[Last(stack[t])] > 0 => gpending'[Last(stack[t])] > 0
      BY <1>1, <1>4, <3>1
    <3> QED BY <1>1, <1>7, <1>10, <1>11, <3>2, <3>3, <3>4, SleepersStep
  <2> QED BY <2>3, <2>4, <2>5, <2>6 DEF Exact
<1>12. ReadyWakeups'
  <2> SUFFICES ASSUME work_ready' # {} PROVE ReadyWakeups'
    BY DEF ReadyWakeups
  <2>1. PICK u \in work_ready : work_ready' = work_ready \ {u}
    BY <1>5
  <2>2. /\ u \in Workers /\ life[u] = "live" /\ stack[u] = <<>> /\ u \notin work_done
    BY DEF Lives, TypeOK
  <2>3. u \notin Tops /\ u \in Tops'
    BY <1>1, <1>6, <2>1, <2>2 DEF Tops, AtLoopTop, Awake
  <2>4. Tops \cup {u} \subseteq Tops'
    BY <1>1, <1>6, <2>1, <2>3 DEF Tops, AtLoopTop, Awake
  <2>5. Cardinality(Tops \cup {u}) = Cardinality(Tops) + 1
    BY <2>3, TopsFinite, FS_AddElement
  <2>6. Cardinality(Tops \cup {u}) <= Cardinality(Tops')
    BY <2>4, TopsFinite, FS_Subset
  <2>7. queue_count <= Cardinality(Tops)
    BY QueueFacts DEF ReadyWakeups, Tops
  <2>8. queue_count' <= Cardinality(Tops') /\ Len(queue') = queue_count'
    BY <1>1, <1>2, <1>7, <2>5, <2>6, <2>7, TopsFinite, QueueFactsNext
  <2> QED BY <2>8 DEF ReadyWakeups, Tops
<1>13. Barriers'
  BY <1>1 DEF Barriers
<1>14. ~Abandoned' => Whole'
  BY <1>1, <1>10 DEF Abandoned
<1> QED BY <1>7, <1>8, <1>9, <1>10, <1>11, <1>12, <1>13, <1>14

LEMMA SpawnKeeps ==
  ASSUME IInv, NEW t \in Threads, NEW j \in Jobs, NEW i \in Items, SpawnStatement(t, j, i)
  PROVE  IInv'
<1>1. InProgram(t, j) /\ Parent[i] = NoGroup /\ i \notin submitted /\ SubmitTo(NoGroup, i)
  BY DEF SpawnStatement
<1> QED BY <1>1, SubmitKeeps

LEMMA SubmitChunkKeeps ==
  ASSUME IInv, NEW t \in Threads, NEW j \in Jobs, NEW i \in Items, SubmitChunk(t, j, i)
  PROVE  IInv'
<1>1. InProgram(t, j) /\ Parent[i] = j /\ i \notin submitted /\ SubmitTo(j, i)
  BY DEF SubmitChunk
<1> QED BY <1>1, SubmitKeeps

-----------------------------------------------------------------------------
(* An item returns. *)

\* The top of a stack.
LEMMA TopFacts ==
  ASSUME TypeOK, NEW t \in Threads, stack[t] # <<>>
  PROVE  /\ Len(stack[t]) \in Nat \ {0} /\ Len(stack[t]) \in 1 .. Len(stack[t])
         /\ Last(stack[t]) = stack[t][Len(stack[t])] /\ Last(stack[t]) \in Jobs
<1>1. stack[t] \in Seq(Jobs)
  BY DEF TypeOK
<1>2. Len(stack[t]) \in Nat \ {0} /\ Len(stack[t]) \in 1 .. Len(stack[t])
  BY <1>1, LenProperties, EmptySeq
<1> QED BY <1>1, <1>2, ElementOfSeq DEF Last

\* It is enough that whoever is left asleep waits for another loop, and that
\* the last item wakes everybody.
LEMMA SettleKeeps ==
  ASSUME IInv, NEW t \in Threads, NEW i \in Items, Settle(t, i),
         work_done' \subseteq work_done, pending' = 0 => work_done' = {},
         Whole => \A u \in work_done' : Last(stack[u]) # Parent[i]
  PROVE  IInv'
<1> USE DEF IInv
<1> USE PoolAssumption
<1>1. /\ t \notin work_ready /\ t \notin work_done /\ stack[t] # <<>> /\ Last(stack[t]) = i
      /\ OutsideLoop(i) /\ Kids(i) \subseteq submitted
      /\ stack' = Popped(stack, t) /\ pending' = pending - 1 /\ ran' = ran \cup {i}
      /\ UNCHANGED <<slots, queue_count, shutdown, started, work_ready, life, barrier, exit,
                     submitted>>
  BY DEF Settle, Runs, Awake, Popped, ring
<1>2. /\ StackShape(stack')
      /\ \A u \in Threads \ {t} : stack'[u] = stack[u]
      /\ IsFiniteSet(Frames(stack'))
      /\ Cardinality(Frames(stack')) = Cardinality(Frames(stack)) - 1
      /\ i \in RunningOn(stack)
      /\ Distinct(stack) => Distinct(stack') /\ RunningOn(stack') = RunningOn(stack) \ {i}
  BY <1>1, PopFacts DEF Counted
<1>3. /\ gpending' \in [Jobs -> Int]
      /\ \A j \in Jobs : gpending'[j] = IF j = Parent[i] THEN gpending[j] - 1 ELSE gpending[j]
      /\ \A j \in Jobs : gpending[j] \in Int
  BY DEF Settle, TypeOK
<1>4. Counted' /\ pending' \in Nat
  <2>1. Cardinality(Frames(stack)) \in Nat /\ Cardinality(Frames(stack')) \in Nat
    BY <1>2, FS_CardinalityType DEF Counted
  <2>2. Len(slots) \in Nat /\ Len(slots') = Len(slots)
    BY <1>1, QueueFacts
  <2>3. pending' = Len(slots') + Cardinality(Frames(stack'))
    BY <1>1, <1>2, <2>1, <2>2 DEF Counted
  <2> QED BY <1>2, <2>1, <2>2, <2>3 DEF Counted
<1>5. TypeOK'
  BY <1>1, <1>2, <1>3, <1>4 DEF TypeOK, StackShape
<1>6. Lives'
  <2>1. Workers \subseteq Threads /\ work_done \subseteq Threads /\ work_ready \subseteq Workers
    BY DEF Threads, TypeOK
  <2> QED BY <1>1, <1>2, <2>1 DEF Lives
<1>7. Whole' <=> Whole
  BY <1>1 DEF Whole
<1>8. ASSUME Whole PROVE Exact'
  <2>1. Located /\ Numbers /\ Done
    BY <1>8 DEF Exact
  <2>2. i \notin ToSet(slots) /\ i \notin ran /\ i \in submitted
    BY <1>2, <2>1 DEF Located
  <2>3. Located'
    BY <1>1, <1>2, <2>1, <2>2 DEF Located
  <2>a. IsFiniteSet(Items) /\ submitted \subseteq Items
    BY DEF TypeOK
  <2>4. Numbers'
    <3>2. pending' = Cardinality(submitted' \ ran')
      <4> DEFINE F == submitted \ ran
      <4>1. IsFiniteSet(F) /\ i \in F /\ submitted' \ ran' = F \ {i} /\ pending = Cardinality(F)
        BY <1>1, <2>1, <2>2, <2>a, FS_Subset DEF Numbers
      <4> HIDE DEF F
      <4>2. Cardinality(F \ {i}) = Cardinality(F) - 1
        BY <4>1, FS_RemoveElement
      <4> QED BY <1>1, <4>1, <4>2
    <3>3. ASSUME NEW j \in Jobs PROVE gpending'[j] = Cardinality((Kids(j) \cap submitted') \ ran')
      <4> DEFINE F == (Kids(j) \cap submitted) \ ran
      <4>1. IsFiniteSet(F) /\ gpending[j] = Cardinality(F)
        BY <2>1, <2>a, FS_Subset DEF Numbers
      <4>2. CASE j = Parent[i]
        <5>1. (Kids(j) \cap submitted') \ ran' = F \ {i} /\ i \in F
          BY <1>1, <2>2, <4>2 DEF Kids
        <5> HIDE DEF F
        <5>2. Cardinality(F \ {i}) = Cardinality(F) - 1
          BY <4>1, <5>1, FS_RemoveElement
        <5> QED BY <1>3, <4>1, <4>2, <5>1, <5>2
      <4>3. CASE j # Parent[i]
        <5>1. (Kids(j) \cap submitted') \ ran' = F
          BY <1>1, <4>3 DEF Kids
        <5> QED BY <1>3, <4>1, <4>3, <5>1
      <4> QED BY <4>2, <4>3
    <3> QED BY <3>2, <3>3 DEF Numbers, Kids
  <2>5. Done'
    <3>1. Kids(i) \subseteq ran
      <4>1. CASE Kids(i) \cap submitted = {}
        BY <1>1, <4>1
      <4>2. CASE gpending[i] =< 0
        <5> DEFINE F == (Kids(i) \cap submitted) \ ran
        <5>1. i \in Jobs
          BY DEF Jobs
        <5>2. IsFiniteSet(F) /\ gpending[i] = Cardinality(F)
          BY <2>1, <2>a, <5>1, FS_Subset DEF Numbers
        <5>3. F = {}
          <6> HIDE DEF F
          <6>1. Cardinality(F) \in Nat /\ Cardinality(F) =< 0
            BY <4>2, <5>2, FS_CardinalityType
          <6>2. Cardinality(F) = 0
            BY <6>1
          <6> QED BY <5>2, <6>2, FS_EmptySet
        <5> QED BY <1>1, <5>3
      <4> QED BY <1>1, <4>1, <4>2 DEF OutsideLoop
    <3> QED BY <1>1, <2>1, <3>1 DEF Done, Kids
  <2>6. Sleepers'
    <3>1. ASSUME NEW u \in work_done'
          PROVE  /\ u \in work_done /\ stack'[u] = stack[u]
                 /\ gpending[Last(stack[u])] > 0 => gpending'[Last(stack[u])] > 0
                 /\ pending > 0 => pending' > 0
      <4>1. u \in work_done /\ u \in Threads /\ u # t /\ stack[u] # <<>>
        BY <1>1 DEF TypeOK, Lives
      <4>2. Last(stack[u]) \in Jobs /\ Last(stack[u]) # Parent[i]
        BY <1>8, <4>1, TopFacts
      <4>3. pending' > 0
        BY <1>4
      <4> QED BY <1>2, <1>3, <4>1, <4>2, <4>3
    <3>2. ToSet(slots') \ ToSet(slots) = {}
      BY <1>1
    <3> QED BY <1>1, <1>5, <1>7, <1>8, <3>1, <3>2, SleepersStep
  <2> QED BY <2>3, <2>4, <2>5, <2>6 DEF Exact
<1>9. ReadyWakeups'
  <2>1. Tops \subseteq Tops'
    <3>1. ASSUME NEW v \in Workers, AtLoopTop(v) PROVE AtLoopTop(v)'
      <4>1. stack'[v] = stack[v]
        BY <1>1, <1>2, <3>1 DEF Threads, AtLoopTop
      <4> QED BY <1>1, <3>1, <4>1 DEF AtLoopTop, Awake
    <3> QED BY <3>1 DEF Tops
  <2>2. queue_count' <= queue_count
    BY <1>1, QueueFacts
  <2> QED BY <1>1, <1>5, <2>1, <2>2, ReadyKept
<1>10. Barriers'
  BY <1>1 DEF Barriers
<1>11. ~Abandoned' => Whole'
  BY <1>1, <1>7 DEF Abandoned
<1> QED BY <1>2, <1>4, <1>5, <1>6, <1>7, <1>8, <1>9, <1>10, <1>11

LEMMA WorkerSettlesKeeps ==
  ASSUME IInv, NEW t \in Threads, NEW i \in Items, WorkerSettles(t, i)
  PROVE  IInv'
<1>1. /\ Settle(t, i)
      /\ work_done' = IF pending' = 0 \/ Parent[i] # NoGroup THEN {} ELSE work_done
  BY DEF WorkerSettles
<1>2. ASSUME NEW u \in work_done' PROVE Last(stack[u]) # Parent[i]
  <2>1. Parent[i] = NoGroup /\ u \in work_done
    BY <1>1
  <2>2. u \in Threads /\ stack[u] # <<>>
    BY <2>1 DEF IInv, TypeOK, Lives
  <2>3. Last(stack[u]) \in Jobs
    BY <2>2, TopFacts DEF IInv
  <2> QED BY <2>1, <2>3, PoolAssumption
<1> QED BY <1>1, <1>2, SettleKeeps

\* Only the thread that waits for the loop runs its chunks on top of the loop's
\* job, so nobody else is asleep for that loop.
LEMMA GroupSettlesKeeps ==
  ASSUME IInv, NEW t \in Threads, NEW i \in Items, GroupSettles(t, i)
  PROVE  IInv'
<1>1. /\ Settle(t, i) /\ Len(stack[t]) > 1
      /\ work_done' = IF pending' = 0 THEN {} ELSE work_done
  BY DEF GroupSettles
<1>2. stack[t] # <<>> /\ Last(stack[t]) = i
  BY <1>1 DEF Settle, Runs
<1>3. PICK n \in Nat : n = Len(stack[t]) /\ n > 1 /\ stack[t][n] = i
  BY <1>1, <1>2, TopFacts DEF IInv
<1>4. n \in 1 .. Len(stack[t]) /\ n - 1 \in 1 .. Len(stack[t]) /\ n - 1 # n
  BY <1>3
<1>5. Parent[i] = stack[t][n - 1]
  BY <1>3, <1>4 DEF IInv, StackShape
<1>6. ASSUME Whole, NEW u \in work_done' PROVE Last(stack[u]) # Parent[i]
  <2>1. u \in work_done
    BY <1>1, <1>6
  <2>2. u \in Threads /\ stack[u] # <<>>
    BY <2>1 DEF IInv, TypeOK, Lives
  <2>3. Last(stack[u]) = stack[u][Len(stack[u])] /\ Len(stack[u]) \in 1 .. Len(stack[u])
    BY <2>2, TopFacts DEF IInv
  <2>4. Distinct(stack)
    BY <1>6 DEF IInv, Exact, Located
  <2>5. ASSUME Last(stack[u]) = Parent[i] PROVE u = t /\ Len(stack[u]) = n - 1
    <3>1. PICK m \in 1 .. Len(stack[t]) : m = n - 1
      BY <1>4
    <3>2. PICK k \in 1 .. Len(stack[u]) : k = Len(stack[u])
      BY <2>3
    <3>3. stack[u][k] = stack[t][m]
      BY <1>5, <2>3, <2>5, <3>1, <3>2
    <3>4. u = t /\ k = m
      BY <2>2, <2>4, <3>3 DEF Distinct
    <3> QED BY <3>1, <3>2, <3>4
  <2> QED BY <1>3, <1>4, <2>5
<1> QED BY <1>1, <1>6, SettleKeeps

-----------------------------------------------------------------------------
(* Barriers, the end of the program, and wakeups out of the blue. *)

\* Nothing is pending: nothing is queued and nothing runs.
LEMMA IdleFacts ==
  ASSUME IInv, pending =< 0
  PROVE  slots = <<>> /\ Frames(stack) = {} /\ Whole
<1> USE DEF IInv
<1> DEFINE F == Frames(stack)
<1>1. IsFiniteSet(F) /\ Cardinality(F) \in Nat /\ pending = Len(slots) + Cardinality(F)
      /\ Len(slots) \in Nat /\ queue_count \in Nat /\ queue_count <= Len(slots)
  BY QueueFacts, FS_CardinalityType DEF Counted
<1> HIDE DEF F
<1>2. Len(slots) = 0 /\ Cardinality(F) = 0 /\ queue_count = 0
  BY <1>1
<1>3. slots = <<>>
  BY <1>2, EmptySeq DEF TypeOK
<1>4. F = {}
  BY <1>1, <1>2, FS_EmptySet
<1> QED BY <1>2, <1>3, <1>4 DEF F, Whole

LEMMA BarrierCallKeeps == ASSUME IInv, NEW c \in Clients, BarrierCall(c) PROVE IInv'
<1> USE DEF IInv
<1>1. /\ barrier' = [barrier EXCEPT ![c] = {submitted}] /\ c \notin work_done /\ InProgram(c, c)
      /\ UNCHANGED <<slots, queue_count, pending, shutdown, started, work_ready, work_done,
                     gpending, stack, life, exit, submitted, ran>>
  BY DEF BarrierCall, InProgram, Runs, Awake, ring
<1>2. /\ barrier' \in [Clients -> SUBSET SUBSET Items]
      /\ \A d \in Clients : barrier'[d] = IF d = c THEN {submitted} ELSE barrier[d]
  BY <1>1 DEF TypeOK
<1>3. TypeOK'
  BY <1>1, <1>2 DEF TypeOK
<1>4. Lives' /\ Barriers'
  BY <1>1, <1>2 DEF Lives, Barriers
<1>5. ReadyWakeups'
  BY <1>1 DEF ReadyWakeups, AtLoopTop, Awake, queue
<1>6. Whole => Sleepers'
  BY <1>1, <1>2, SleepersKept
<1>7. StackShape(stack') /\ Counted' /\ (Whole' => Exact') /\ (Whole' <=> Whole)
  BY <1>1, <1>6, BooksKept
<1>8. ~Abandoned' => Whole'
  BY <1>1, <1>7 DEF Abandoned
<1> QED BY <1>3, <1>4, <1>5, <1>7, <1>8

LEMMA BarrierWaitKeeps == ASSUME IInv, NEW c \in Clients, BarrierWait(c) PROVE IInv'
<1> USE DEF IInv
<1>1. /\ barrier[c] # {} /\ pending > 0 /\ stack[c] # <<>> /\ Last(stack[c]) = c
      /\ work_done' = work_done \cup {c} /\ c \in Threads
      /\ UNCHANGED <<slots, queue_count, pending, shutdown, started, work_ready,
                     gpending, stack, life, barrier, exit, submitted, ran>>
  BY DEF BarrierWait, Runs, ring, Threads
<1>2. TypeOK'
  BY <1>1 DEF TypeOK
<1>3. Lives' /\ Barriers'
  BY <1>1 DEF Lives, Barriers
<1>4. ReadyWakeups'
  <2>1. Tops \subseteq Tops'
    <3>1. \A w \in Workers : AtLoopTop(w) => AtLoopTop(w)'
      BY <1>1 DEF AtLoopTop, Awake
    <3> QED BY <3>1 DEF Tops
  <2>2. queue_count' <= queue_count
    BY <1>1, QueueFacts
  <2> QED BY <1>1, <1>2, <2>1, <2>2, ReadyKept
<1>5. ASSUME Whole PROVE Sleepers'
  <2>1. Sleepers
    BY <1>5 DEF Exact
  <2>2. \A i : /\ InGroupWait(i)' <=> InGroupWait(i)
               /\ OwnQueued(i)' = OwnQueued(i)
    BY <1>1 DEF InGroupWait, Kids, OwnQueued, queue
  <2> QED BY <1>1, <2>1, <2>2 DEF Sleepers
<1>6. StackShape(stack') /\ Counted' /\ (Whole' => Exact') /\ (Whole' <=> Whole)
  BY <1>1, <1>5, BooksKept
<1>7. ~Abandoned' => Whole'
  BY <1>1, <1>6 DEF Abandoned
<1> QED BY <1>2, <1>3, <1>4, <1>6, <1>7

LEMMA BarrierReturnKeeps == ASSUME IInv, NEW c \in Clients, BarrierReturn(c) PROVE IInv'
<1> USE DEF IInv
<1>1. /\ barrier' = [barrier EXCEPT ![c] = {}] /\ c \notin work_done
      /\ UNCHANGED <<slots, queue_count, pending, shutdown, started, work_ready, work_done,
                     gpending, stack, life, exit, submitted, ran>>
  BY DEF BarrierReturn, BarrierReturnWhen, Runs, Awake, ring
<1>2. /\ barrier' \in [Clients -> SUBSET SUBSET Items]
      /\ \A d \in Clients : barrier'[d] = IF d = c THEN {} ELSE barrier[d]
  BY <1>1 DEF TypeOK
<1>3. TypeOK'
  BY <1>1, <1>2 DEF TypeOK
<1>4. Lives' /\ Barriers'
  BY <1>1, <1>2 DEF Lives, Barriers
<1>5. ReadyWakeups'
  BY <1>1 DEF ReadyWakeups, AtLoopTop, Awake, queue
<1>6. Whole => Sleepers'
  BY <1>1, <1>2, SleepersKept
<1>7. StackShape(stack') /\ Counted' /\ (Whole' => Exact') /\ (Whole' <=> Whole)
  BY <1>1, <1>6, BooksKept
<1>8. ~Abandoned' => Whole'
  BY <1>1, <1>7 DEF Abandoned
<1> QED BY <1>3, <1>4, <1>5, <1>7, <1>8

\* The items still in the ring are dropped, or there were none.
LEMMA ShutdownBusyKeeps == ASSUME IInv, ShutdownBusy PROVE IInv'
<1> USE DEF IInv
<1>1. /\ queue_count' = 0 /\ work_ready' = {} /\ exit' = "abandoned" /\ pending > 0
      /\ shutdown' = TRUE /\ started' = FALSE /\ exit = "running"
      /\ UNCHANGED <<slots, pending, work_done, gpending, stack, life, barrier, submitted, ran>>
  BY DEF ShutdownBusy, EndOfMain
<1>2. TypeOK'
  <2>1. Len(slots) \in Nat /\ 0 \in 0 .. Len(slots)
    BY QueueFacts
  <2> QED BY <1>1, <2>1 DEF TypeOK
<1>3. StackShape(stack') /\ Lives' /\ Barriers' /\ ReadyWakeups'
  <2>1. StackShape(stack')
    BY <1>1
  <2> QED BY <1>1, <2>1 DEF Lives, Barriers, ReadyWakeups
<1>4. Counted'
  BY <1>1 DEF Counted, Frames
<1>5. ASSUME Whole' PROVE Exact'
  <2>1. queue_count = 0 /\ Len(slots) = 0
    BY <1>1, <1>5, QueueFacts DEF Abandoned, Whole
  <2>2. Whole /\ queue_count' = queue_count
    BY <1>1, <2>1 DEF Whole
  <2>3. Sleepers'
    BY <1>1, <2>2, SleepersKept
  <2> QED BY <1>1, <1>5, <2>2, <2>3, BooksKept
<1>6. Abandoned'
  BY <1>1 DEF Abandoned
<1> QED BY <1>2, <1>3, <1>4, <1>5, <1>6

LEMMA ShutdownIdleKeeps == ASSUME IInv, ShutdownIdle PROVE IInv'
<1> USE DEF IInv
<1>1. /\ exit = "running" /\ pending =< 0 /\ exit' = "destroy"
      /\ InProgram(Main, Main) /\ OutsideLoop(Main)
      /\ UNCHANGED <<slots, queue_count, pending, shutdown, started, work_ready, work_done,
                     gpending, stack, life, barrier, submitted, ran>>
  BY DEF ShutdownIdle, EndOfMain, ring
<1>2. TypeOK' /\ Lives' /\ Barriers' /\ ReadyWakeups'
  BY <1>1 DEF TypeOK, Lives, Barriers, ReadyWakeups, AtLoopTop, Awake, queue
<1>3. Whole => Sleepers'
  BY <1>1, SleepersKept
<1>4. StackShape(stack') /\ Counted' /\ (Whole' => Exact') /\ (Whole' <=> Whole)
  BY <1>1, <1>3, BooksKept
<1>5. ~Abandoned' => Whole'
  BY <1>1, <1>4, IdleFacts
<1> QED BY <1>2, <1>4, <1>5

LEMMA DestroyBeginKeeps == ASSUME IInv, DestroyBegin PROVE IInv'
<1> USE DEF IInv
<1>1. /\ exit = "destroy" /\ exit' = "joining" /\ shutdown' = TRUE /\ work_ready' = {}
      /\ UNCHANGED <<slots, queue_count, pending, started, work_done,
                     gpending, stack, life, barrier, submitted, ran>>
  BY DEF DestroyBegin, ring
<1>2. TypeOK' /\ Lives' /\ Barriers' /\ ReadyWakeups'
  BY <1>1 DEF TypeOK, Lives, Barriers, ReadyWakeups
<1>3. Whole => Sleepers'
  BY <1>1, SleepersKept
<1>4. StackShape(stack') /\ Counted' /\ (Whole' => Exact') /\ (Whole' <=> Whole)
  BY <1>1, <1>3, BooksKept
<1>5. ~Abandoned' => Whole'
  BY <1>1, <1>4 DEF Abandoned
<1> QED BY <1>2, <1>4, <1>5

LEMMA DestroyFreeKeeps == ASSUME IInv, DestroyFree PROVE IInv'
<1> USE DEF IInv
<1>1. /\ exit = "joining" /\ exit' = "freed" /\ Joined
      /\ UNCHANGED <<slots, queue_count, pending, shutdown, started, work_ready, work_done,
                     gpending, stack, life, barrier, submitted, ran>>
  BY DEF DestroyFree, ring
<1>2. TypeOK' /\ Lives' /\ Barriers' /\ ReadyWakeups'
  BY <1>1 DEF TypeOK, Lives, Barriers, ReadyWakeups, AtLoopTop, Awake, queue
<1>3. Whole => Sleepers'
  BY <1>1, SleepersKept
<1>4. StackShape(stack') /\ Counted' /\ (Whole' => Exact') /\ (Whole' <=> Whole)
  BY <1>1, <1>3, BooksKept
<1>5. ~Abandoned' => Whole'
  BY <1>1, <1>4 DEF Abandoned
<1> QED BY <1>2, <1>4, <1>5

LEMMA SpuriousWakeKeeps == ASSUME IInv, NEW t \in Threads, SpuriousWake(t) PROVE IInv'
<1> USE DEF IInv
<1>1. /\ work_ready' = work_ready \ {t} /\ work_done' = work_done \ {t}
      /\ UNCHANGED <<slots, queue_count, pending, shutdown, started, gpending, stack,
                     life, barrier, exit, submitted, ran>>
  BY DEF SpuriousWake, ring
<1>2. TypeOK' /\ Lives' /\ Barriers'
  BY <1>1 DEF TypeOK, Lives, Barriers
<1>3. ReadyWakeups'
  <2>1. Tops \subseteq Tops'
    <3>1. \A w \in Workers : AtLoopTop(w) => AtLoopTop(w)'
      BY <1>1 DEF AtLoopTop, Awake
    <3> QED BY <3>1 DEF Tops
  <2>2. queue_count' <= queue_count
    BY <1>1, QueueFacts
  <2> QED BY <1>1, <1>2, <2>1, <2>2, ReadyKept
<1>4. Whole => Sleepers'
  BY <1>1, SleepersKept
<1>5. StackShape(stack') /\ Counted' /\ (Whole' => Exact') /\ (Whole' <=> Whole)
  BY <1>1, <1>4, BooksKept
<1>6. ~Abandoned' => Whole'
  BY <1>1, <1>5 DEF Abandoned
<1> QED BY <1>2, <1>3, <1>5, <1>6

LEMMA StutterKeeps == ASSUME IInv, UNCHANGED vars PROVE IInv'
<1> USE DEF IInv
<1>1. UNCHANGED <<slots, queue_count, pending, shutdown, started, work_ready, work_done,
                  gpending, stack, life, barrier, exit, submitted, ran>>
  BY DEF vars, ring
<1>2. TypeOK' /\ Lives' /\ Barriers' /\ ReadyWakeups'
  BY <1>1 DEF TypeOK, Lives, Barriers, ReadyWakeups, AtLoopTop, Awake, queue
<1>3. Whole => Sleepers'
  BY <1>1, SleepersKept
<1>4. StackShape(stack') /\ Counted' /\ (Whole' => Exact') /\ (Whole' <=> Whole)
  BY <1>1, <1>3, BooksKept
<1>5. ~Abandoned' => Whole'
  BY <1>1, <1>4 DEF Abandoned
<1> QED BY <1>2, <1>4, <1>5

-----------------------------------------------------------------------------
LEMMA Inductive == IInv /\ [Next]_vars => IInv'
<1> SUFFICES ASSUME IInv, [Next]_vars PROVE IInv'
  OBVIOUS
<1>1. ASSUME NEW w \in Workers, WorkerStep(w) PROVE IInv'
  BY <1>1, WorkerWaitKeeps, WorkerExitKeeps, WorkerTakeKeeps DEF WorkerStep
<1>2. ASSUME NEW t \in Threads, JobStep(t) PROVE IInv'
  <2>1. ASSUME NEW j \in Jobs, GroupWait(t, j) PROVE IInv'
    BY <2>1, GroupWaitParksKeeps, GroupWaitRunsKeeps DEF GroupWait
  <2> QED BY <1>2, <2>1, SubmitChunkKeeps, WorkerSettlesKeeps, GroupSettlesKeeps DEF JobStep
<1>3. ASSUME NEW t \in Threads, NEW j \in Jobs, NEW i \in Items, SpawnStatement(t, j, i)
      PROVE  IInv'
  BY <1>3, SpawnKeeps
<1>4. ASSUME NEW t \in Threads, SpuriousWake(t) PROVE IInv'
  BY <1>4, SpuriousWakeKeeps
<1>5. ASSUME NEW c \in Clients, ClientStep(c) PROVE IInv'
  BY <1>5, BarrierCallKeeps, BarrierWaitKeeps, BarrierReturnKeeps DEF ClientStep
<1>6. ASSUME ExitStep PROVE IInv'
  BY <1>6, ShutdownBusyKeeps, ShutdownIdleKeeps, DestroyBeginKeeps, DestroyFreeKeeps DEF ExitStep
<1>7. ASSUME UNCHANGED vars PROVE IInv'
  BY <1>7, StutterKeeps
<1> QED BY <1>1, <1>2, <1>3, <1>4, <1>5, <1>6, <1>7 DEF Next

LEMMA Invariant == Spec => []IInv
BY InitHolds, Inductive, PTL DEF Spec

LEMMA BooksFollow == IInv => BooksExact
<1> SUFFICES ASSUME IInv PROVE BooksExact
  OBVIOUS
<1> USE DEF IInv
<1>1. \A t \in Threads : DOMAIN stack[t] = 1 .. Len(stack[t])
  BY LenProperties DEF TypeOK
<1>2. Running = RunningOn(stack)
  BY <1>1 DEF Running, RunningOn
<1>3. ASSUME ~Abandoned PROVE queue = slots /\ Exact
  BY <1>3, QueueFacts
<1>4. RunOnce
  BY <1>1, <1>2, <1>3 DEF RunOnce, Exact, Located, Distinct
<1>5. CountsExact /\ LoopComplete
  BY <1>3 DEF CountsExact, LoopComplete, Exact, Numbers, Done
<1> QED BY <1>4, <1>5 DEF BooksExact

\* Until the program ends, every submitted item is in one place (queued once, on
\* one stack, or finished), pending and every group's pending count exactly the
\* items that have not returned, and a job that is past its loop has every chunk
\* of it behind it: iron_threads.c's submit, worker and group wait agree, with
\* any number of workers, program threads and nested loops.
THEOREM BooksAreExact == Spec => []BooksExact
BY Invariant, BooksFollow, PTL

\* No wakeup of the fixed pool is lost: while a worker sleeps on work_ready as
\* many workers as there are queued items are on their way to the queue, and
\* who sleeps on work_done waits for items of which none of its own is queued.
THEOREM WakeupsAreKept == Spec => []WakeupsKept
<1>1. IInv => WakeupsKept
  <2> SUFFICES ASSUME IInv PROVE WakeupsKept
    OBVIOUS
  <2>1. DoneWakeups
    BY DEF IInv, Exact, Sleepers, DoneWakeups
  <2> QED BY <2>1 DEF IInv, WakeupsKept
<1> QED BY <1>1, Invariant, PTL

\* Iron_pool_barrier returns only after every item submitted before it was
\* called has run, whoever submitted it and whatever else goes on.
THEOREM BarrierIsSound == Spec => BarrierSound
<1>1. ASSUME IInv, [Next]_vars
      PROVE  [\A c \in Clients :
                barrier[c] # {} /\ barrier'[c] = {} => UNION barrier[c] \subseteq ran]_vars
  <2> SUFFICES ASSUME Next, NEW c \in Clients, barrier[c] # {}, barrier'[c] = {}
               PROVE  UNION barrier[c] \subseteq ran
    BY <1>1
  <2> USE DEF IInv
  <2>1. \E d \in Clients : BarrierCall(d) \/ BarrierReturn(d)
    <3>1. UNCHANGED barrier \/ \E d \in Clients : BarrierCall(d) \/ BarrierReturn(d)
      <4>1. ASSUME NEW w \in Workers, WorkerStep(w) PROVE UNCHANGED barrier
        BY <4>1 DEF WorkerStep, WorkerWait, WorkerExit, WorkerTake
      <4>2. ASSUME NEW t \in Threads, JobStep(t) PROVE UNCHANGED barrier
        BY <4>2 DEF JobStep, SubmitChunk, SubmitTo, GroupWait, WorkerSettles, GroupSettles, Settle
      <4>3. ASSUME NEW t \in Threads, SpuriousWake(t) PROVE UNCHANGED barrier
        BY <4>3 DEF SpuriousWake
      <4>4. ASSUME NEW t \in Threads, NEW j \in Jobs, NEW i \in Items, SpawnStatement(t, j, i)
            PROVE  UNCHANGED barrier
        BY <4>4 DEF SpawnStatement, SubmitTo
      <4>5. ASSUME ExitStep PROVE UNCHANGED barrier
        BY <4>5 DEF ExitStep, ShutdownBusy, ShutdownIdle, DestroyBegin, DestroyFree
      <4>6. ASSUME NEW d \in Clients, BarrierWait(d) PROVE UNCHANGED barrier
        BY <4>6 DEF BarrierWait
      <4> QED BY <4>1, <4>2, <4>3, <4>4, <4>5, <4>6 DEF Next, ClientStep
    <3> QED BY <3>1
  <2>2. PICK d \in Clients : BarrierCall(d) \/ BarrierReturn(d)
    BY <2>1
  <2>3. BarrierReturn(d)
    <3>1. ASSUME BarrierCall(d) PROVE FALSE
      <4>1. barrier' = [barrier EXCEPT ![d] = {submitted}]
        BY <3>1 DEF BarrierCall
      <4> QED BY <4>1 DEF IInv, TypeOK
    <3> QED BY <2>2, <3>1
  <2>4. pending =< 0
    BY <2>3 DEF BarrierReturn, BarrierReturnWhen
  <2>5. slots = <<>> /\ Frames(stack) = {} /\ Whole
    BY <1>1, <2>4, IdleFacts
  <2>6. ToSet(slots) = {} /\ RunningOn(stack) = {}
    <3>1. DOMAIN slots = 1 .. 0
      BY <2>5, EmptySeq
    <3>2. ASSUME NEW i \in RunningOn(stack) PROVE FALSE
      <4>1. PICK t \in Threads : \E k \in 1 .. Len(stack[t]) : stack[t][k] = i
        BY DEF RunningOn
      <4>2. PICK k \in 1 .. Len(stack[t]) : stack[t][k] = i
        BY <4>1
      <4>3. <<t, k>> \in Frames(stack)
        BY <4>2, FrameFacts DEF RunningOn
      <4> QED BY <2>5, <4>3
    <3> QED BY <3>1, <3>2 DEF ToSet
  <2>7. submitted = ran
    BY <1>1, <2>5, <2>6 DEF Exact, Located
  <2> QED BY <1>1, <2>7 DEF Barriers
<1> QED BY <1>1, Invariant, PTL DEF Spec, BarrierSound

=============================================================================
