---------------------------- MODULE MysqlPoolProofs ----------------------------
(***************************************************************************)
(* Proofs, for any tasks, limits and numbers of calls, that the connection *)
(* pool of MysqlPool keeps its books, loses no wakeup and runs a statement *)
(* at most once.                                                           *)
(***************************************************************************)
EXTENDS MysqlPool, FiniteSetTheorems, SequenceTheorems, TLAPS

-----------------------------------------------------------------------------
(* The inductive invariant: what the properties say and what they rest on. *)

\* Where a task is tells what it has: a connection, discards, a statement the
\* server has run, a second try to make.
Shape(t) ==
  /\ task[t].conn # 0 <=> task[t].pc \in {"vet", "dead", "held", "giving"}
  /\ task[t].trash # <<>> <=> task[t].pc \in {"dropping", "given"}
  /\ task[t].pc \notin {"giving", "given"} => task[t].ran = 0 /\ ~task[t].retry
  /\ task[t].retry => task[t].ran = 0 /\ t \notin Acquirers
  /\ task[t].ran <= 1

\* The places a connection can be in: idle, with a task, or on its way out.
Idle == ToSet(pool.idle)
Bin(t) == ToSet(task[t].trash)
MainBin == ToSet(main.trash)
Live == {c \in Conns : conn[c].link # "none"}

\* A connection is in one place at a time, and those in a place exist.
Apart ==
  /\ Idle \subseteq Live /\ MainBin \subseteq Live /\ Idle \cap MainBin = {}
  /\ \A t \in Tasks : Bin(t) \subseteq Live
  /\ \A t \in Tasks : Bin(t) \cap Idle = {} /\ Bin(t) \cap MainBin = {}
  /\ \A t, u \in Tasks : t # u => Bin(t) \cap Bin(u) = {}
  /\ \A t \in Tasks : task[t].conn # 0 =>
       /\ task[t].conn \in Live
       /\ task[t].conn \notin Idle
       /\ task[t].conn \notin MainBin
  /\ \A t, u \in Tasks : task[t].conn # 0 => task[t].conn \notin Bin(u)
  /\ \A t, u \in Tasks : task[t].conn # 0 /\ t # u => task[u].conn # task[t].conn

\* It is in that place once.
Unrepeated ==
  /\ IsInjective(pool.idle) /\ IsInjective(main.trash)
  /\ \A t \in Tasks : IsInjective(task[t].trash)

\* The pool is referred to by its handle and by every connection.
Counted == pool.refs = Cardinality(Live) + (IF main.pc = "gone" THEN 0 ELSE 1)

Clean ==
  /\ \A c \in Idle : ~conn[c].tx
  /\ \A t \in Tasks : task[t].pc \in {"vet", "held"} => ~conn[task[t].conn].tx

\* Once the last handle is dropped nobody gets one again.
HandlesGone == main.pc \in {"freeing", "gone"} => \A t \in Tasks : ~HoldsHandle(t)

IInv ==
  /\ TypeOK /\ CountsExact /\ NoLostWakeup
  /\ \A t \in Tasks : Shape(t)
  /\ Apart /\ Unrepeated /\ Counted /\ Clean /\ HandlesGone

-----------------------------------------------------------------------------
(* Sequences without repetition, as the sets of their elements.            *)

LEMMA EmptyFacts ==
  ASSUME NEW S
  PROVE  /\ <<>> \in Seq(S) /\ Len(<<>>) = 0
         /\ ToSet(<<>>) = {} /\ IsInjective(<<>>)
<1>1. <<>> \in Seq(S) /\ Len(<<>>) = 0 /\ DOMAIN <<>> = 1 .. 0
  BY EmptySeq
<1>2. \A i : i \notin 1 .. 0
  OBVIOUS
<1> QED BY <1>1, <1>2 DEF ToSet, IsInjective

LEMMA AppendFacts ==
  ASSUME NEW S, NEW s \in Seq(S), NEW x \in S
  PROVE  /\ Append(s, x) \in Seq(S) /\ Append(s, x) # <<>>
         /\ Len(Append(s, x)) = Len(s) + 1
         /\ ToSet(Append(s, x)) = ToSet(s) \cup {x}
         /\ IsInjective(s) /\ x \notin ToSet(s) => IsInjective(Append(s, x))
<1> DEFINE a == Append(s, x)
<1>1. /\ a \in Seq(S) /\ a # <<>> /\ Len(a) = Len(s) + 1 /\ Len(s) \in Nat
      /\ \A i \in 1 .. Len(s) : a[i] = s[i]
      /\ a[Len(s) + 1] = x
      /\ DOMAIN a = 1 .. Len(s) + 1 /\ DOMAIN s = 1 .. Len(s)
  BY AppendProperties, LenProperties
<1> HIDE DEF a
<1>2. DOMAIN a = DOMAIN s \cup {Len(s) + 1} /\ Len(s) + 1 \notin DOMAIN s
  BY <1>1
<1>3. ToSet(a) = ToSet(s) \cup {x}
  BY <1>1, <1>2 DEF ToSet
<1>4. ASSUME IsInjective(s), x \notin ToSet(s) PROVE IsInjective(a)
  BY <1>1, <1>2, <1>4 DEF ToSet, IsInjective
<1> QED BY <1>1, <1>3, <1>4 DEF a

LEMMA SingleFacts ==
  ASSUME NEW S, NEW x \in S
  PROVE  /\ <<x>> \in Seq(S) /\ <<x>> # <<>> /\ Len(<<x>>) = 1
         /\ ToSet(<<x>>) = {x} /\ IsInjective(<<x>>)
<1> DEFINE e == <<x>>
<1>1. e \in Seq(S) /\ Len(e) = 1 /\ e[1] = x /\ e # <<>>
  OBVIOUS
<1> HIDE DEF e
<1>2. DOMAIN e = {1}
  BY <1>1, LenProperties
<1>3. ToSet(e) = {x} /\ IsInjective(e)
  BY <1>1, <1>2 DEF ToSet, IsInjective
<1> QED BY <1>1, <1>3 DEF e

LEMMA TailFacts ==
  ASSUME NEW S, NEW s \in Seq(S), s # <<>>
  PROVE  /\ Head(s) \in ToSet(s) /\ Head(s) \in S /\ Head(s) = s[1]
         /\ Tail(s) \in Seq(S) /\ Len(Tail(s)) = Len(s) - 1
         /\ ToSet(Tail(s)) \subseteq ToSet(s)
         /\ IsInjective(s) =>
              IsInjective(Tail(s)) /\ ToSet(Tail(s)) = ToSet(s) \ {Head(s)}
<1> DEFINE r == Tail(s)
<1>1. /\ Len(s) \in Nat \ {0} /\ DOMAIN s = 1 .. Len(s)
      /\ r \in Seq(S) /\ Len(r) = Len(s) - 1 /\ Head(s) \in S
      /\ \A i \in 1 .. Len(r) : r[i] = s[i + 1]
  BY HeadTailProperties, EmptySeq, LenProperties
<1>2. Head(s) = s[1]
  OBVIOUS
<1>3. DOMAIN r = 1 .. Len(s) - 1
  BY <1>1, LenProperties
<1> HIDE DEF r
<1>4. \A i \in DOMAIN r : i + 1 \in DOMAIN s /\ i + 1 # 1 /\ r[i] = s[i + 1]
  BY <1>1, <1>3
<1>5. \A j \in DOMAIN s : j # 1 => \E i \in DOMAIN r : j = i + 1
  <2>1. ASSUME NEW j \in DOMAIN s, j # 1 PROVE j - 1 \in DOMAIN r /\ j = j - 1 + 1
    BY <1>1, <1>3, <2>1
  <2> QED BY <2>1
<1>6. 1 \in DOMAIN s
  BY <1>1
<1>7. ToSet(r) \subseteq ToSet(s) /\ Head(s) \in ToSet(s)
  BY <1>2, <1>4, <1>6 DEF ToSet
<1>8. ASSUME IsInjective(s) PROVE IsInjective(r) /\ ToSet(r) = ToSet(s) \ {Head(s)}
  <2>1. IsInjective(r)
    <3>1. ASSUME NEW i \in DOMAIN r, NEW j \in DOMAIN r, r[i] = r[j] PROVE i = j
      <4>1. i + 1 = j + 1
        BY <1>4, <1>8, <3>1 DEF IsInjective
      <4> QED BY <1>1, <1>3, <4>1
    <3> QED BY <3>1 DEF IsInjective
  <2>2. Head(s) \notin ToSet(r)
    BY <1>2, <1>4, <1>6, <1>8 DEF ToSet, IsInjective
  <2>3. ToSet(s) \ {Head(s)} \subseteq ToSet(r)
    BY <1>2, <1>4, <1>5 DEF ToSet
  <2> QED BY <1>7, <2>1, <2>2, <2>3
<1> QED BY <1>1, <1>2, <1>7, <1>8 DEF r

LEMMA FrontFacts ==
  ASSUME NEW S, NEW s \in Seq(S), s # <<>>, IsInjective(s)
  PROVE  /\ Last(s) \in ToSet(s) /\ Last(s) \in S
         /\ Front(s) \in Seq(S) /\ Len(Front(s)) = Len(s) - 1
         /\ IsInjective(Front(s)) /\ ToSet(Front(s)) = ToSet(s) \ {Last(s)}
<1> DEFINE r == SubSeq(s, 1, Len(s) - 1)
<1>1. /\ Len(s) \in Nat \ {0} /\ DOMAIN s = 1 .. Len(s)
      /\ \A i \in 1 .. Len(s) : s[i] \in S
  BY EmptySeq, LenProperties
<1>2. /\ r \in Seq(S) /\ Len(r) = Len(s) - 1
      /\ \A i \in 1 .. Len(s) - 1 : r[i] = s[i]
  <2>1. \A i \in 1 .. Len(s) - 1 : s[i] \in S
    BY <1>1
  <2>2. /\ r \in Seq(S)
        /\ Len(r) = IF 1 <= Len(s) - 1 THEN Len(s) - 1 - 1 + 1 ELSE 0
        /\ \A i \in 1 .. Len(s) - 1 - 1 + 1 : r[i] = s[1 + i - 1]
    BY <1>1, <2>1, SubSeqProperties
  <2> QED BY <1>1, <2>2
<1>3. DOMAIN r = 1 .. Len(s) - 1
  BY <1>2, LenProperties
<1> HIDE DEF r
<1>4. DOMAIN s = DOMAIN r \cup {Len(s)} /\ Len(s) \notin DOMAIN r
  BY <1>1, <1>3
<1>5. \A i \in DOMAIN r : r[i] = s[i]
  BY <1>2, <1>3
<1>6. IsInjective(r) /\ ToSet(r) = ToSet(s) \ {s[Len(s)]} /\ s[Len(s)] \in ToSet(s)
  <2>1. IsInjective(r)
    BY <1>4, <1>5 DEF IsInjective
  <2>2. \A i \in DOMAIN r : s[i] # s[Len(s)]
    BY <1>4 DEF IsInjective
  <2>3. ToSet(r) = {s[i] : i \in DOMAIN r}
    BY <1>5 DEF ToSet
  <2> QED BY <1>4, <2>1, <2>2, <2>3 DEF ToSet
<1>7. s[Len(s)] \in S
  BY <1>1
<1> QED BY <1>2, <1>6, <1>7 DEF Front, Last, r

-----------------------------------------------------------------------------
(* What the invariant says in the terms of the properties.                 *)

LEMMA LiveFinite == IsFiniteSet(Live) /\ Cardinality(Live) \in Nat /\ Cardinality(Live) <= Structs
<1>1. IsFiniteSet(Conns) /\ Cardinality(Conns) = Structs
  BY FS_Interval, PoolAssumption DEF Conns
<1>2. Live \in SUBSET Conns
  BY DEF Live
<1> QED BY <1>1, <1>2, FS_Subset, FS_CardinalityType

LEMMA Books == IInv => BooksExact
<1> SUFFICES ASSUME IInv PROVE BooksExact
  OBVIOUS
<1> USE DEF IInv
<1>1. OneHolder
  <2>1. \A c : c \in Trash <=> c \in MainBin \/ \E t \in Tasks : c \in Bin(t)
    BY DEF Trash, MainBin, Bin
  <2>2. ASSUME NEW t \in Tasks, task[t].conn # 0
        PROVE  /\ conn[task[t].conn].link # "none"
               /\ task[t].conn \notin ToSet(pool.idle) \cup Trash
               /\ \A u \in Tasks \ {t} : task[u].conn # task[t].conn
    BY <2>1, <2>2 DEF Apart, Live, Idle
  <2>3. ToSet(pool.idle) \cap Trash = {}
    BY <2>1 DEF Apart, Idle
  <2>4. \A c \in ToSet(pool.idle) \cup Trash : conn[c].link # "none"
    BY <2>1 DEF Apart, Idle, Live
  <2> QED BY <2>2, <2>3, <2>4 DEF OneHolder, Unrepeated
<1>2. RefsExact
  <2>1. ASSUME pool.refs = 0 PROVE \A t \in Tasks : task[t].pc \in {"ready", "given"}
    <3>1. main.pc = "gone" /\ Live = {}
      BY <2>1, LiveFinite, FS_EmptySet DEF Counted
    <3>2. \A t \in Tasks : task[t].conn = 0
      BY <3>1 DEF Apart
    <3> QED BY <3>1, <3>2 DEF HandlesGone, HoldsHandle, Shape
  <2> QED BY <2>1 DEF RefsExact, Counted, Live
<1>3. HandedOutClean
  <2>1. \A i \in DOMAIN pool.idle : pool.idle[i] \in Idle
    BY DEF Idle, ToSet
  <2> QED BY <2>1 DEF HandedOutClean, Clean
<1> QED BY <1>1, <1>2, <1>3 DEF BooksExact

LEMMA Once == IInv => RunsOnce
BY DEF IInv, RunsOnce, Shape

-----------------------------------------------------------------------------
(* The initial states.                                                     *)

LEMMA InitIInv == Init => IInv
<1> SUFFICES ASSUME Init PROVE IInv
  OBVIOUS
<1>1. PICK ok \in BOOLEAN : OpenPool(ok)
  BY DEF Init
<1> DEFINE n == IF ok THEN MinConns ELSE 0
<1>2. /\ n \in 0 .. MaxConns /\ n <= Structs /\ n \in Nat
      /\ pool = [idle |-> [i \in 1..n |-> i], total |-> n, in_use |-> 0,
                 closing |-> ~ok, refs |-> n + 1]
      /\ conn = [c \in Conns |-> IF c <= n THEN Opened ELSE None]
  BY <1>1, PoolAssumption DEF OpenPool
<1> HIDE DEF n
<1>3. pool.idle \in Seq(Conns) /\ Len(pool.idle) = n /\ Idle = 1 .. n /\ IsInjective(pool.idle)
  BY <1>2, PoolAssumption DEF Conns, Idle, ToSet, IsInjective
<1>4. <<>> \in Seq(Conns) /\ ToSet(<<>>) = {} /\ IsInjective(<<>>)
  BY EmptyFacts
<1>5. task = [t \in Tasks |-> Resting] /\ main = [pc |-> "live", trash |-> <<>>]
  BY DEF Init
<1>6. TypeOK
  <2>1. Resting \in Task
    BY <1>4, PoolAssumption DEF Resting, Task
  <2>2. conn \in [Conns -> MyConn]
    BY <1>2 DEF Opened, None, MyConn
  <2>3. pool \in MyPool /\ Len(pool.idle) <= MaxConns
    BY <1>2, <1>3, PoolAssumption DEF MyPool
  <2> QED BY <1>4, <1>5, <2>1, <2>2, <2>3, PoolAssumption DEF Init, TypeOK
<1>7. Live = 1 .. n
  BY <1>2, PoolAssumption DEF Live, Conns, Opened, None
<1>8. \A t \in Tasks : Shape(t) /\ task[t].conn = 0 /\ task[t].trash = <<>> /\ task[t].pc = "ready"
  BY <1>5 DEF Resting, Shape
<1>9. Users = {} /\ main.pc = "live"
  BY <1>5, <1>8 DEF Users
<1>10. CountsExact /\ NoLostWakeup /\ HandlesGone
  BY <1>2, <1>3, <1>8, <1>9, FS_EmptySet DEF CountsExact, NoLostWakeup, HandlesGone
<1>11. Apart /\ Unrepeated
  BY <1>3, <1>4, <1>5, <1>7, <1>8 DEF Apart, Unrepeated, Bin, MainBin
<1>12. Counted
  BY <1>2, <1>7, <1>9, FS_Interval DEF Counted
<1>13. Clean
  BY <1>2, <1>3, <1>8, PoolAssumption DEF Clean, Opened, None, Conns
<1> QED BY <1>6, <1>8, <1>10, <1>11, <1>12, <1>13 DEF IInv

-----------------------------------------------------------------------------
(* What every step has in common.                                          *)

\* A task another one's step leaves alone or wakes.
Same(u) ==
  \/ task'[u] = task[u]
  \/ task[u].pc = "wait" /\ task'[u] = [task[u] EXCEPT !.pc = "take"]

LEMMA SameFacts ==
  ASSUME TypeOK, NEW u \in Tasks, Same(u)
  PROVE  /\ task'[u].conn = task[u].conn /\ task'[u].trash = task[u].trash
         /\ task'[u].ran = task[u].ran /\ task'[u].retry = task[u].retry
         /\ task'[u] \in Task
         /\ \/ task'[u].pc = task[u].pc
            \/ task[u].pc = "wait" /\ task'[u].pc = "take"
         /\ Shape(u) => Shape(u)'
         /\ u \in Users <=> u \in Users'
         /\ u \in Refilling <=> u \in Refilling'
         /\ Bin(u)' = Bin(u)
<1>0. task[u] \in Task
  BY DEF TypeOK
<1>1. /\ task'[u].conn = task[u].conn /\ task'[u].trash = task[u].trash
      /\ task'[u].ran = task[u].ran /\ task'[u].retry = task[u].retry
      /\ task'[u] \in Task
      /\ \/ task'[u].pc = task[u].pc
         \/ task[u].pc = "wait" /\ task'[u].pc = "take"
  BY <1>0 DEF Same, Task
<1> QED BY <1>1 DEF Shape, Users, Refilling, Bin

\* Membership of one element decides a cardinality.
LEMMA OneChanges ==
  ASSUME NEW S, NEW T, IsFiniteSet(S), NEW t, \A u : u # t => (u \in S <=> u \in T)
  PROVE  /\ Cardinality(S) \in Nat /\ Cardinality(T) \in Nat
         /\ (t \in S <=> t \in T) => T = S /\ Cardinality(T) = Cardinality(S)
         /\ t \in S /\ t \notin T => Cardinality(T) = Cardinality(S) - 1
         /\ t \notin S /\ t \in T => Cardinality(T) = Cardinality(S) + 1
<1>1. Cardinality(S) \in Nat
  BY FS_CardinalityType
<1>2. (t \in S <=> t \in T) => T = S
  OBVIOUS
<1>3. ASSUME t \in S, t \notin T PROVE T = S \ {t}
  BY <1>3
<1>4. ASSUME t \notin S, t \in T PROVE T = S \cup {t}
  BY <1>4
<1>5. /\ Cardinality(S \ {t}) = IF t \in S THEN Cardinality(S) - 1 ELSE Cardinality(S)
      /\ IsFiniteSet(S \ {t})
  BY FS_RemoveElement
<1>6. /\ Cardinality(S \cup {t}) = IF t \in S THEN Cardinality(S) ELSE Cardinality(S) + 1
      /\ IsFiniteSet(S \cup {t})
  BY FS_AddElement
<1>7. Cardinality(T) \in Nat
  BY <1>1, <1>2, <1>3, <1>4, <1>5, <1>6, FS_CardinalityType
<1> QED BY <1>1, <1>2, <1>3, <1>4, <1>5, <1>6, <1>7

LEMMA UsersFinite == IsFiniteSet(Users) /\ IsFiniteSet(Refilling)
BY FS_Subset, PoolAssumption DEF Users, Refilling

\* A step of task t that leaves the others alone or wakes them: their shapes
\* stay, and t alone decides how the two counts change.
LEMMA Others ==
  ASSUME IInv, NEW t \in Tasks, \A u \in Tasks \ {t} : Same(u),
         Shape(t)', task' \in [Tasks -> Task]
  PROVE  /\ \A u \in Tasks : Shape(u)'
         /\ Cardinality(Users) \in Nat /\ Cardinality(Users)' \in Nat
         /\ Cardinality(Refilling) \in Nat /\ Cardinality(Refilling)' \in Nat
         /\ (t \in Users <=> t \in Users') => Cardinality(Users)' = Cardinality(Users)
         /\ t \in Users /\ t \notin Users' => Cardinality(Users)' = Cardinality(Users) - 1
         /\ t \notin Users /\ t \in Users' => Cardinality(Users)' = Cardinality(Users) + 1
         /\ (t \in Refilling <=> t \in Refilling') =>
               Cardinality(Refilling)' = Cardinality(Refilling)
         /\ t \in Refilling /\ t \notin Refilling' =>
               Cardinality(Refilling)' = Cardinality(Refilling) - 1
         /\ t \notin Refilling /\ t \in Refilling' =>
               Cardinality(Refilling)' = Cardinality(Refilling) + 1
<1>1. TypeOK /\ \A u \in Tasks : Shape(u)
  BY DEF IInv
<1>2. \A u \in Tasks \ {t} : Shape(u)' /\ (u \in Users <=> u \in Users')
                             /\ (u \in Refilling <=> u \in Refilling')
  BY <1>1, SameFacts
<1>3. \A u : u \in Users \/ u \in Users' \/ u \in Refilling \/ u \in Refilling' => u \in Tasks
  BY DEF Users, Refilling
<1>4. \A u : u # t => (u \in Users <=> u \in Users')
  BY <1>2, <1>3
<1>5. \A u : u # t => (u \in Refilling <=> u \in Refilling')
  BY <1>2, <1>3
<1>6. \A u \in Tasks : Shape(u)'
  BY <1>2
<1>7. /\ Cardinality(Users) \in Nat /\ Cardinality(Users') \in Nat
      /\ (t \in Users <=> t \in Users') => Cardinality(Users') = Cardinality(Users)
      /\ t \in Users /\ t \notin Users' => Cardinality(Users') = Cardinality(Users) - 1
      /\ t \notin Users /\ t \in Users' => Cardinality(Users') = Cardinality(Users) + 1
  BY <1>4, UsersFinite, OneChanges
<1>8. /\ Cardinality(Refilling) \in Nat /\ Cardinality(Refilling') \in Nat
      /\ (t \in Refilling <=> t \in Refilling') => Cardinality(Refilling') = Cardinality(Refilling)
      /\ t \in Refilling /\ t \notin Refilling' => Cardinality(Refilling') = Cardinality(Refilling) - 1
      /\ t \notin Refilling /\ t \in Refilling' => Cardinality(Refilling') = Cardinality(Refilling) + 1
  BY <1>5, UsersFinite, OneChanges
<1> QED BY <1>6, <1>7, <1>8
\* A step of task t that moves no connection.
LEMMA Unmoved ==
  ASSUME IInv, NEW t \in Tasks, \A u \in Tasks \ {t} : Same(u),
         Live' = Live, main' = main, pool'.idle = pool.idle,
         task'[t].conn = task[t].conn, task'[t].trash = task[t].trash
  PROVE  /\ Apart' /\ Unrepeated' /\ Idle' = Idle
         /\ \A u \in Tasks : task'[u].conn = task[u].conn
<1>1. \A u \in Tasks : task'[u].conn = task[u].conn /\ task'[u].trash = task[u].trash
  BY SameFacts DEF IInv
<1>2. Idle' = Idle /\ MainBin' = MainBin /\ \A u \in Tasks : Bin(u)' = Bin(u)
  BY <1>1 DEF Idle, MainBin, Bin
<1>3. Apart /\ Unrepeated
  BY DEF IInv
<1>4. Apart'
  BY <1>1, <1>2, <1>3 DEF Apart
<1>5. Unrepeated'
  BY <1>1, <1>3 DEF Unrepeated
<1> QED BY <1>1, <1>2, <1>4, <1>5

\* The others have no more handles than before.
LEMMA OtherHandles ==
  ASSUME IInv, NEW t \in Tasks, \A u \in Tasks \ {t} : Same(u) /\ left'[u] = left[u]
  PROVE  \A u \in Tasks \ {t} : HoldsHandle(u)' => HoldsHandle(u)
<1> SUFFICES ASSUME NEW u \in Tasks \ {t}, HoldsHandle(u)' PROVE HoldsHandle(u)
  OBVIOUS
<1>1. \/ task'[u].pc = task[u].pc
      \/ task[u].pc = "wait" /\ task'[u].pc = "take"
  BY SameFacts DEF IInv
<1> QED BY <1>1 DEF HoldsHandle

\* A step of task t that leaves the connections alone.
LEMMA Quiet ==
  ASSUME IInv, NEW t \in Tasks, \A u \in Tasks \ {t} : Same(u) /\ left'[u] = left[u],
         conn' = conn, main' = main, pool'.idle = pool.idle, pool'.refs = pool.refs,
         task'[t].conn = task[t].conn, task'[t].trash = task[t].trash,
         task'[t].pc \in {"vet", "held"} => task[t].pc \in {"vet", "held"},
         HoldsHandle(t)' => HoldsHandle(t)
  PROVE  Apart' /\ Unrepeated' /\ Counted' /\ Clean' /\ HandlesGone'
<1>1. Live' = Live
  BY DEF Live
<1>2. /\ Apart' /\ Unrepeated' /\ Idle' = Idle
      /\ \A u \in Tasks : task'[u].conn = task[u].conn
  BY <1>1, Unmoved
<1>3. Counted'
  BY <1>1 DEF IInv, Counted
<1>4. \A u \in Tasks : task'[u].pc \in {"vet", "held"} => task[u].pc \in {"vet", "held"}
  BY SameFacts DEF IInv
<1>5. Clean'
  BY <1>2, <1>4 DEF IInv, Clean
<1>6. HandlesGone'
  BY OtherHandles DEF IInv, HandlesGone
<1> QED BY <1>2, <1>3, <1>5, <1>6
-----------------------------------------------------------------------------
(* Steps that leave the connections alone.                                 *)

LEMMA Typed ==
  ASSUME IInv
  PROVE  /\ conn \in [Conns -> MyConn] /\ pool \in MyPool /\ Len(pool.idle) <= MaxConns
         /\ task \in [Tasks -> Task] /\ left \in [Tasks -> 0..Calls]
         /\ events \in 0..Events
         /\ MaxConns \in Nat \ {0} /\ Calls \in Nat /\ Events \in Nat /\ Structs \in Nat
         /\ pool.in_use = Cardinality(Users) /\ pool.total = Len(pool.idle) + pool.in_use
         /\ Len(pool.idle) \in Nat /\ pool.idle \in Seq(Conns)
         /\ pool.in_use \in 0..MaxConns /\ pool.total \in 0..MaxConns
         /\ pool.refs \in 0..Structs + 1
BY LenProperties, PoolAssumption DEF IInv, TypeOK, CountsExact, MyPool

\* The counters of a pool with one user or connection more or fewer.
LEMMA PoolCounts ==
  ASSUME IInv, NEW i \in Seq(Conns), NEW n \in 0..MaxConns, NEW k \in 0..MaxConns,
         pool' = [pool EXCEPT !.idle = i, !.total = n, !.in_use = k]
  PROVE  /\ pool' \in MyPool /\ pool'.idle = i /\ pool'.total = n /\ pool'.in_use = k
         /\ pool'.refs = pool.refs /\ pool'.closing = pool.closing
BY Typed DEF MyPool

\* A user is one the pool counts.
LEMMA CountedUser ==
  ASSUME IInv, NEW t \in Users
  PROVE  pool.in_use - 1 \in 0..MaxConns /\ pool.total - 1 \in 0..MaxConns
<1>1. Cardinality(Users) \in Nat /\ Cardinality(Users) # 0
  BY UsersFinite, FS_CardinalityType, FS_EmptySet
<1>2. /\ pool.in_use = Cardinality(Users) /\ pool.total = Len(pool.idle) + pool.in_use
      /\ Len(pool.idle) \in Nat /\ pool.in_use \in 0..MaxConns /\ pool.total \in 0..MaxConns
      /\ MaxConns \in Nat
  BY Typed
<1> QED BY <1>1, <1>2

\* Task t becomes r, the others stay as they are or are all woken.
Becomes(t, r) ==
  \/ task' = [task EXCEPT ![t] = r]
  \/ r.pc # "wait" /\ task' = Broadcast([task EXCEPT ![t] = r])

LEMMA BecomesFacts ==
  ASSUME TypeOK, NEW t \in Tasks, NEW r \in Task, Becomes(t, r)
  PROVE  /\ task' \in [Tasks -> Task] /\ task'[t] = r
         /\ \A u \in Tasks \ {t} : Same(u)
<1>1. task \in [Tasks -> Task]
  BY DEF TypeOK
<1>2. CASE task' = [task EXCEPT ![t] = r]
  BY <1>1, <1>2 DEF Same
<1>3. CASE r.pc # "wait" /\ task' = Broadcast([task EXCEPT ![t] = r])
  <2>1. ASSUME NEW x \in Task PROVE [x EXCEPT !.pc = "take"] \in Task
    BY DEF Task
  <2>2. [task EXCEPT ![t] = r] \in [Tasks -> Task]
    BY <1>1
  <2> QED BY <1>1, <1>3, <2>1, <2>2 DEF Same, Broadcast
<1> QED BY <1>2, <1>3 DEF Becomes

\* After a broadcast nobody waits.
LEMMA BroadcastFacts ==
  ASSUME NEW ts \in [Tasks -> Task], task' = Broadcast(ts)
  PROVE  \A u \in Tasks : task'[u].pc # "wait"
BY DEF Broadcast, Task

\* Where nobody starts to wait and no place is freed, no wakeup is lost.
LEMMA NoNewWaiter ==
  ASSUME IInv, \A u \in Tasks : task'[u].pc = "wait" => task[u].pc = "wait",
         pool' \in MyPool, pool'.idle = pool.idle, Cardinality(Refilling)' \in Nat,
         pool'.total + Cardinality(Refilling)' >= pool.total + Cardinality(Refilling)
  PROVE  NoLostWakeup'
<1>1. Cardinality(Refilling) \in Nat
  BY UsersFinite, FS_CardinalityType
<1>2. pool.total \in Nat /\ pool'.total \in Nat /\ MaxConns \in Nat
  BY Typed DEF MyPool
<1>3. NoLostWakeup
  BY DEF IInv
<1> QED BY <1>1, <1>2, <1>3 DEF NoLostWakeup

\* A step of task t that leaves the connections alone keeps the invariant if it
\* keeps the counts.
LEMMA QuietStep ==
  ASSUME IInv, NEW t \in Tasks, task' \in [Tasks -> Task],
         \A u \in Tasks \ {t} : Same(u) /\ left'[u] = left[u],
         Shape(t)', pool' \in MyPool, left' \in [Tasks -> 0..Calls], events' \in 0..Events,
         UNCHANGED <<conn, reset, main>>, pool'.idle = pool.idle, pool'.refs = pool.refs,
         task'[t].conn = task[t].conn, task'[t].trash = task[t].trash,
         task'[t].pc = "held" => task[t].pc = "vet",
         task'[t].pc # "vet",
         HoldsHandle(t)' => HoldsHandle(t),
         CountsExact', NoLostWakeup'
  PROVE  IInv'
<1>1. TypeOK'
  BY DEF IInv, TypeOK
<1>2. \A u \in Tasks : Shape(u)'
  BY Others
<1>3. Apart' /\ Unrepeated' /\ Counted' /\ Clean' /\ HandlesGone'
  BY Quiet
<1> QED BY <1>1, <1>2, <1>3 DEF IInv

\* A task calls the pool.
LEMMA BeginIInv == ASSUME IInv, NEW t \in Tasks, Begin(t) PROVE IInv'
<1>0. task[t] \in Task /\ task[t].pc = "ready" /\ Shape(t) /\ left[t] \in 0..Calls /\ left[t] > 0
  BY Typed DEF IInv, Begin
<1> DEFINE r == [task[t] EXCEPT !.pc = "take"]
<1>1. r \in Task /\ r.pc = "take" /\ r.conn = task[t].conn /\ r.trash = task[t].trash
      /\ r.ran = task[t].ran /\ r.retry = task[t].retry
  BY <1>0 DEF Task
<1>2. Becomes(t, r)
  BY DEF Begin, Becomes
<1> HIDE DEF r
<1>3. task' \in [Tasks -> Task] /\ task'[t] = r /\ \A u \in Tasks \ {t} : Same(u)
  BY <1>1, <1>2, BecomesFacts DEF IInv
<1>4. /\ \A u \in Tasks \ {t} : left'[u] = left[u]
      /\ left' \in [Tasks -> 0..Calls]
      /\ UNCHANGED <<conn, pool, reset, main, events>>
  <2>1. left \in [Tasks -> 0..Calls] /\ Calls \in Nat /\ left[t] > 0
    BY Typed DEF Begin
  <2>2. left[t] - 1 \in 0..Calls
    BY <2>1
  <2> QED BY <2>1, <2>2 DEF Begin
<1>5. Shape(t)' /\ (t \in Users <=> t \in Users') /\ (t \in Refilling <=> t \in Refilling')
  BY <1>0, <1>1, <1>3 DEF Shape, Users, Refilling
<1>6. /\ Cardinality(Users)' = Cardinality(Users)
      /\ Cardinality(Refilling)' = Cardinality(Refilling)
  BY <1>3, <1>5, Others
<1>7. CountsExact'
  BY <1>4, <1>6 DEF IInv, CountsExact
<1>8. NoLostWakeup'
  <2>1. \A u \in Tasks : task'[u].pc = "wait" => task[u].pc = "wait"
    BY <1>1, <1>3, SameFacts DEF IInv
  <2> QED BY <1>4, <1>6, <2>1 DEF IInv, NoLostWakeup
<1>9. HoldsHandle(t)
  BY <1>0 DEF HoldsHandle
<1> QED BY <1>1, <1>3, <1>4, <1>5, <1>7, <1>8, <1>9, Typed, QuietStep
\* A closed pool turns it away.
LEMMA RefuseIInv == ASSUME IInv, NEW t \in Tasks, Refuse(t) PROVE IInv'
<1>0. task[t] \in Task /\ task[t].pc = "take" /\ Shape(t)
  BY Typed DEF IInv, Refuse
<1>1. Resting \in Task
  BY EmptyFacts, PoolAssumption DEF Resting, Task
<1>2. Becomes(t, Resting)
  BY DEF Refuse, Becomes
<1>3. task' \in [Tasks -> Task] /\ task'[t] = Resting /\ \A u \in Tasks \ {t} : Same(u)
  BY <1>1, <1>2, BecomesFacts DEF IInv
<1>4. UNCHANGED <<conn, pool, reset, left, main, events>>
  BY DEF Refuse
<1>5. /\ Shape(t)' /\ (t \in Users <=> t \in Users') /\ (t \in Refilling <=> t \in Refilling')
      /\ task'[t].pc = "ready"
      /\ task'[t].conn = task[t].conn /\ task'[t].trash = task[t].trash
  BY <1>0, <1>3 DEF Shape, Users, Refilling, Resting
<1>6. /\ Cardinality(Users)' = Cardinality(Users)
      /\ Cardinality(Refilling)' = Cardinality(Refilling)
      /\ Cardinality(Refilling)' \in Nat
  BY <1>3, <1>5, Others
<1>7. CountsExact'
  BY <1>4, <1>6 DEF IInv, CountsExact
<1>8. NoLostWakeup'
  <2>1. \A u \in Tasks : task'[u].pc = "wait" => task[u].pc = "wait"
    BY <1>3, <1>5, SameFacts DEF IInv
  <2> QED BY <1>4, <1>6, <2>1 DEF IInv, NoLostWakeup
<1>9. HoldsHandle(t)
  BY <1>0 DEF HoldsHandle
<1> QED BY <1>3, <1>4, <1>5, <1>7, <1>8, <1>9, Typed, QuietStep

\* A place is reserved.
LEMMA ReserveIInv == ASSUME IInv, NEW t \in Tasks, Reserve(t) PROVE IInv'
<1>0. task[t] \in Task /\ task[t].pc \in {"take", "retake"} /\ Shape(t)
  BY Typed DEF IInv, Reserve, Choosing
<1> DEFINE r == [task[t] EXCEPT !.pc = "open"]
<1>1. r \in Task /\ r.pc = "open" /\ r.conn = task[t].conn /\ r.trash = task[t].trash
      /\ r.ran = task[t].ran /\ r.retry = task[t].retry
  BY <1>0 DEF Task
<1>2. Becomes(t, r)
  BY DEF Reserve, Becomes
<1> HIDE DEF r
<1>3. task' \in [Tasks -> Task] /\ task'[t] = r /\ \A u \in Tasks \ {t} : Same(u)
  BY <1>1, <1>2, BecomesFacts DEF IInv
<1>5. Shape(t)' /\ t \notin Users /\ t \in Users' /\ t \notin Refilling'
  BY <1>0, <1>1, <1>3 DEF Shape, Users, Refilling
<1>6. /\ Cardinality(Users)' = Cardinality(Users) + 1
      /\ Cardinality(Refilling)' >= Cardinality(Refilling) - 1
      /\ Cardinality(Refilling)' \in Nat /\ Cardinality(Refilling) \in Nat
      /\ Cardinality(Users) \in Nat
  BY <1>3, <1>5, Others
<1>4. /\ pool' \in MyPool /\ pool'.idle = pool.idle /\ pool'.refs = pool.refs
      /\ pool'.total = pool.total + 1 /\ pool'.in_use = pool.in_use + 1
      /\ UNCHANGED <<conn, reset, left, main, events>>
  <2>1. pool.total + 1 \in 0..MaxConns /\ pool.in_use + 1 \in 0..MaxConns
    BY Typed DEF Reserve
  <2>2. pool' = [pool EXCEPT !.idle = pool.idle, !.total = pool.total + 1,
                             !.in_use = pool.in_use + 1]
    BY Typed DEF Reserve, MyPool
  <2>3. pool.idle \in Seq(Conns)
    BY Typed
  <2>4. /\ pool' \in MyPool /\ pool'.idle = pool.idle /\ pool'.refs = pool.refs
        /\ pool'.total = pool.total + 1 /\ pool'.in_use = pool.in_use + 1
    BY <2>1, <2>2, <2>3, PoolCounts
  <2> QED BY <2>4 DEF Reserve
<1>7. CountsExact'
  <2>0. pool.total = Len(pool.idle) + pool.in_use /\ Len(pool.idle) \in Nat /\ pool.in_use \in Nat
    BY Typed
  <2>a. Len(pool'.idle) = Len(pool.idle)
    BY <1>4
  <2>1. pool'.total = Len(pool'.idle) + pool'.in_use
    BY <1>4, <2>0, <2>a
  <2>2. pool'.in_use = Cardinality(Users)'
    BY <1>4, <1>6, Typed
  <2> QED BY <2>1, <2>2 DEF CountsExact
<1>8. NoLostWakeup'
  <2>1. \A u \in Tasks : task'[u].pc = "wait" => task[u].pc = "wait"
    BY <1>1, <1>3, SameFacts DEF IInv
  <2>2. pool.total \in Nat
    BY Typed DEF MyPool
  <2>3. pool'.total + Cardinality(Refilling)' >= pool.total + Cardinality(Refilling)
    BY <1>4, <1>6, <2>2
  <2> QED BY <1>4, <1>6, <2>1, <2>3, NoNewWaiter
<1>9. HoldsHandle(t)
  BY <1>0 DEF HoldsHandle
<1> QED BY <1>1, <1>3, <1>4, <1>5, <1>7, <1>8, <1>9, Typed, QuietStep
\* Every connection is in use.
LEMMA FullIInv == ASSUME IInv, NEW t \in Tasks, Full(t) PROVE IInv'
<1>0. /\ task[t] \in Task /\ task[t].pc \in {"take", "retake"} /\ Shape(t)
      /\ pool.idle = <<>> /\ pool.total >= MaxConns
      /\ UNCHANGED <<conn, pool, reset, left, main>>
  BY Typed DEF IInv, Full, Choosing
<1>1. PICK r \in Task : /\ r.pc \in {"wait", "ready"} /\ r.conn = 0 /\ r.trash = <<>>
                        /\ r.ran = 0 /\ ~r.retry
                        /\ Becomes(t, r)
  <2>1. CASE task' = [task EXCEPT ![t].pc = "wait"]
    <3> DEFINE r == [task[t] EXCEPT !.pc = "wait"]
    <3>1. r \in Task /\ r.pc = "wait" /\ r.conn = task[t].conn /\ r.trash = task[t].trash
          /\ r.ran = task[t].ran /\ r.retry = task[t].retry
      BY <1>0 DEF Task
    <3>2. Becomes(t, r)
      BY <2>1 DEF Becomes
    <3> HIDE DEF r
    <3> QED BY <1>0, <3>1, <3>2 DEF Shape
  <2>2. CASE task' = [task EXCEPT ![t] = Resting]
    <3>1. Resting \in Task
      BY EmptyFacts, PoolAssumption DEF Resting, Task
    <3> QED BY <2>2, <3>1 DEF Resting, Becomes
  <2> QED BY <2>1, <2>2 DEF Full
<1>2. events' \in 0..Events
  BY Typed DEF Full, Event
<1>3. task' \in [Tasks -> Task] /\ task'[t] = r /\ \A u \in Tasks \ {t} : Same(u)
  BY <1>1, BecomesFacts DEF IInv
<1>5. /\ Shape(t)' /\ (t \in Users <=> t \in Users')
      /\ task'[t].conn = task[t].conn /\ task'[t].trash = task[t].trash
  BY <1>0, <1>1, <1>3 DEF Shape, Users
<1>6. Cardinality(Users)' = Cardinality(Users) /\ Cardinality(Refilling)' \in Nat
  BY <1>3, <1>5, Others
<1>7. CountsExact'
  BY <1>0, <1>6 DEF IInv, CountsExact
<1>8. NoLostWakeup'
  <2>1. pool.total + Cardinality(Refilling)' >= MaxConns
    BY <1>0, <1>6, Typed
  <2> QED BY <1>0, <2>1 DEF NoLostWakeup
<1>9. HoldsHandle(t)
  BY <1>0 DEF HoldsHandle
<1> QED BY <1>0, <1>1, <1>2, <1>3, <1>5, <1>7, <1>8, <1>9, Typed, QuietStep

\* A wait ends by itself.
LEMMA WakeUpIInv == ASSUME IInv, NEW t \in Tasks, WakeUp(t) PROVE IInv'
<1>0. /\ task[t] \in Task /\ task[t].pc = "wait" /\ Shape(t)
      /\ UNCHANGED <<conn, pool, reset, left, main, events>>
  BY Typed DEF IInv, WakeUp
<1> DEFINE r == [task[t] EXCEPT !.pc = "take"]
<1>1. r \in Task /\ r.pc = "take" /\ r.conn = task[t].conn /\ r.trash = task[t].trash
      /\ r.ran = task[t].ran /\ r.retry = task[t].retry
  BY <1>0 DEF Task
<1>2. Becomes(t, r)
  BY DEF WakeUp, Becomes
<1> HIDE DEF r
<1>3. task' \in [Tasks -> Task] /\ task'[t] = r /\ \A u \in Tasks \ {t} : Same(u)
  BY <1>1, <1>2, BecomesFacts DEF IInv
<1>5. Shape(t)' /\ (t \in Users <=> t \in Users') /\ (t \in Refilling <=> t \in Refilling')
  BY <1>0, <1>1, <1>3 DEF Shape, Users, Refilling
<1>6. /\ Cardinality(Users)' = Cardinality(Users)
      /\ Cardinality(Refilling)' = Cardinality(Refilling)
  BY <1>3, <1>5, Others
<1>7. CountsExact'
  BY <1>0, <1>6 DEF IInv, CountsExact
<1>8. NoLostWakeup'
  <2>1. \A u \in Tasks : task'[u].pc = "wait" => task[u].pc = "wait"
    BY <1>1, <1>3, SameFacts DEF IInv
  <2> QED BY <1>0, <1>6, <2>1 DEF IInv, NoLostWakeup
<1>9. HoldsHandle(t)
  BY <1>0 DEF HoldsHandle
<1> QED BY <1>0, <1>1, <1>3, <1>5, <1>7, <1>8, <1>9, Typed, QuietStep

\* A connection that is alive is handed out.
LEMMA VetIInv == ASSUME IInv, NEW t \in Tasks, Vet(t) PROVE IInv'
<1>0. /\ task[t] \in Task /\ task[t].pc = "vet" /\ Shape(t)
      /\ UNCHANGED <<conn, pool, reset, left, main, events>>
  BY Typed DEF IInv, Vet
<1> DEFINE r == [task[t] EXCEPT !.pc = "held", !.reused = TRUE]
<1>1. r \in Task /\ r.pc = "held" /\ r.conn = task[t].conn /\ r.trash = task[t].trash
      /\ r.ran = task[t].ran /\ r.retry = task[t].retry
  BY <1>0 DEF Task
<1>2. Becomes(t, r)
  BY DEF Vet, Becomes
<1> HIDE DEF r
<1>3. task' \in [Tasks -> Task] /\ task'[t] = r /\ \A u \in Tasks \ {t} : Same(u)
  BY <1>1, <1>2, BecomesFacts DEF IInv
<1>5. Shape(t)' /\ (t \in Users <=> t \in Users') /\ (t \in Refilling <=> t \in Refilling')
  BY <1>0, <1>1, <1>3 DEF Shape, Users, Refilling
<1>6. /\ Cardinality(Users)' = Cardinality(Users)
      /\ Cardinality(Refilling)' = Cardinality(Refilling)
  BY <1>3, <1>5, Others
<1>7. CountsExact'
  BY <1>0, <1>6 DEF IInv, CountsExact
<1>8. NoLostWakeup'
  <2>1. \A u \in Tasks : task'[u].pc = "wait" => task[u].pc = "wait"
    BY <1>1, <1>3, SameFacts DEF IInv
  <2> QED BY <1>0, <1>6, <2>1 DEF IInv, NoLostWakeup
<1>9. HoldsHandle(t)
  BY <1>0 DEF HoldsHandle
<1> QED BY <1>0, <1>1, <1>3, <1>5, <1>7, <1>8, <1>9, Typed, QuietStep

\* The place reserved is given up.
LEMMA OpenFailsIInv == ASSUME IInv, NEW t \in Tasks, OpenFails(t) PROVE IInv'
<1>0. /\ task[t] \in Task /\ task[t].pc = "open" /\ Shape(t)
      /\ UNCHANGED <<conn, reset, left, main>> /\ events' \in 0..Events
  BY Typed DEF IInv, OpenFails, Event
<1>1. Resting \in Task /\ Resting.pc = "ready"
  BY EmptyFacts, PoolAssumption DEF Resting, Task
<1>2. Becomes(t, Resting)
  BY <1>1 DEF OpenFails, Becomes
<1>3. task' \in [Tasks -> Task] /\ task'[t] = Resting /\ \A u \in Tasks \ {t} : Same(u)
  BY <1>1, <1>2, BecomesFacts DEF IInv
<1>5. /\ Shape(t)' /\ t \in Users /\ t \notin Users'
      /\ task'[t].pc = "ready"
      /\ task'[t].conn = task[t].conn /\ task'[t].trash = task[t].trash
  BY <1>0, <1>3 DEF Shape, Users, Resting
<1>6. /\ Cardinality(Users)' = Cardinality(Users) - 1
      /\ Cardinality(Users) \in Nat /\ Cardinality(Users)' \in Nat
  BY <1>3, <1>5, Others
<1>4. /\ pool' \in MyPool /\ pool'.idle = pool.idle /\ pool'.refs = pool.refs
      /\ pool'.total = pool.total - 1 /\ pool'.in_use = pool.in_use - 1
  <2>1. pool.total - 1 \in 0..MaxConns /\ pool.in_use - 1 \in 0..MaxConns
    BY <1>5, CountedUser
  <2>2. pool' = [pool EXCEPT !.idle = pool.idle, !.total = pool.total - 1,
                             !.in_use = pool.in_use - 1]
    BY Typed DEF OpenFails, MyPool
  <2>3. pool.idle \in Seq(Conns)
    BY Typed
  <2> QED BY <2>1, <2>2, <2>3, PoolCounts
<1>7. CountsExact'
  <2>1. pool.total = Len(pool.idle) + pool.in_use /\ Len(pool.idle) \in Nat /\ pool.in_use \in Nat
    BY Typed
  <2>2. Len(pool'.idle) = Len(pool.idle)
    BY <1>4
  <2>3. pool'.total = Len(pool'.idle) + pool'.in_use
    BY <1>4, <2>1, <2>2
  <2>4. pool'.in_use = Cardinality(Users)'
    BY <1>4, <1>6, Typed
  <2> QED BY <2>3, <2>4 DEF CountsExact
<1>8. NoLostWakeup'
  <2>1. [task EXCEPT ![t] = Resting] \in [Tasks -> Task]
    BY <1>1, Typed
  <2>2. \A u \in Tasks : task'[u].pc # "wait"
    BY <2>1, BroadcastFacts DEF OpenFails
  <2> QED BY <2>2 DEF NoLostWakeup
<1>9. HoldsHandle(t)
  BY <1>0 DEF HoldsHandle
<1> QED BY <1>0, <1>3, <1>4, <1>5, <1>7, <1>8, <1>9, Typed, QuietStep
-----------------------------------------------------------------------------
(* Steps that change a connection where it is.                             *)

\* A task has used the connection it holds.
LEMMA UsedStep ==
  ASSUME IInv, NEW t \in Tasks, task[t].pc = "held",
         NEW x \in MyConn, x.link # "none", conn' = [conn EXCEPT ![task[t].conn] = x],
         NEW r \in Task, Becomes(t, r), r.pc = "giving", r.conn = task[t].conn,
         r.trash = task[t].trash, r.ran \in 0..1,
         r.retry => r.ran = 0 /\ t \notin Acquirers,
         UNCHANGED <<pool, reset, left, main>>, events' \in 0..Events
  PROVE  IInv'
<1> DEFINE c == task[t].conn
<1>1. /\ c # 0 /\ c \in Live /\ c \in Conns /\ c \notin Idle /\ task[t].trash = <<>>
      /\ \A u \in Tasks \ {t} : task[u].conn # c
  BY DEF IInv, Shape, Apart, Live
<1>2. /\ conn' \in [Conns -> MyConn] /\ conn'[c] = x
      /\ \A d \in Conns \ {c} : conn'[d] = conn[d]
  BY <1>1, Typed
<1>3. task' \in [Tasks -> Task] /\ task'[t] = r /\ \A u \in Tasks \ {t} : Same(u)
  BY BecomesFacts DEF IInv
<1>4. Live' = Live
  BY <1>1, <1>2 DEF Live
<1> HIDE DEF c
<1>5. TypeOK'
  BY <1>2, <1>3 DEF IInv, TypeOK
<1>6. /\ Shape(t)' /\ (t \in Users <=> t \in Users') /\ (t \in Refilling <=> t \in Refilling')
  BY <1>1, <1>3 DEF Shape, Users, Refilling, c
<1>7. /\ \A u \in Tasks : Shape(u)'
      /\ Cardinality(Users)' = Cardinality(Users)
      /\ Cardinality(Refilling)' = Cardinality(Refilling)
  BY <1>3, <1>6, Others
<1>8. CountsExact'
  BY <1>7 DEF IInv, CountsExact
<1>9. NoLostWakeup'
  <2>1. \A u \in Tasks : task'[u].pc = "wait" => task[u].pc = "wait"
    BY <1>3, SameFacts DEF IInv
  <2> QED BY <1>7, <2>1 DEF IInv, NoLostWakeup
<1>10. /\ Apart' /\ Unrepeated' /\ Idle' = Idle
       /\ \A u \in Tasks : task'[u].conn = task[u].conn
  BY <1>3, <1>4, Unmoved
<1>11. Counted'
  BY <1>4 DEF IInv, Counted
<1>12. Clean'
  <2>1. \A d \in Idle' : ~conn'[d].tx
    BY <1>1, <1>2, <1>10 DEF IInv, Clean, Apart, Live
  <2>2. ASSUME NEW u \in Tasks, task'[u].pc \in {"vet", "held"}
        PROVE  ~conn'[task'[u].conn].tx
    <3>1. u # t
      BY <1>3, <2>2
    <3>2. task[u].pc \in {"vet", "held"}
      BY <1>3, <2>2, <3>1, SameFacts DEF IInv
    <3>3. task[u].conn # c /\ task[u].conn \in Conns /\ ~conn[task[u].conn].tx
      BY <1>1, <3>1, <3>2 DEF IInv, Shape, Apart, Live, Clean
    <3> QED BY <1>2, <1>10, <3>3
  <2> QED BY <2>1, <2>2 DEF Clean
<1>13. HandlesGone'
  <2>1. HoldsHandle(t)' => HoldsHandle(t)
    BY <1>3 DEF HoldsHandle
  <2>2. \A u \in Tasks \ {t} : HoldsHandle(u)' => HoldsHandle(u)
    BY <1>3, OtherHandles
  <2> QED BY <2>1, <2>2 DEF IInv, HandlesGone
<1> QED BY <1>5, <1>7, <1>8, <1>9, <1>10, <1>11, <1>12, <1>13 DEF IInv

\* A statement is run, once more only when the first try cannot have been.
LEMMA CommandIInv == ASSUME IInv, NEW t \in Tasks, Command(t) PROVE IInv'
<1>0. /\ task[t] \in Task /\ task[t].pc = "held" /\ task[t].ran = 0 /\ task[t].conn \in Conns
      /\ UNCHANGED <<pool, reset, left, main>> /\ events' \in 0..Events
      /\ conn[task[t].conn] \in MyConn
  <2>1. task[t] \in Task /\ task[t].pc = "held" /\ task[t].ran = 0
    BY Typed DEF IInv, Command, Shape
  <2>2. task[t].conn \in Conns
    BY <2>1 DEF IInv, Shape, Apart, Live
  <2>3. UNCHANGED <<pool, reset, left, main>> /\ events' \in 0..Events
    <3>1. UNCHANGED <<pool, reset, left, main>> /\ (UNCHANGED events \/ Event)
      BY DEF Command
    <3> QED BY <3>1, Typed DEF Event
  <2> QED BY <2>1, <2>2, <2>3, Typed
<1>1. PICK o \in Outcomes(conn[task[t].conn]) \cup Failures(conn[task[t].conn]) :
        /\ conn' = [conn EXCEPT ![task[t].conn].link = o.link, ![task[t].conn].tx = o.tx]
        /\ task' = [task EXCEPT ![t].pc = "giving", ![t].ran = @ + o.ran,
                                ![t].retry = Retries(t, o)]
  BY DEF Command
<1>2. /\ o.link \in {"up", "broken"} /\ o.tx \in BOOLEAN /\ o.ran \in 0..1
      /\ o.unsent => o.ran = 0
  BY <1>0 DEF Outcomes, Failures, MyConn
<1>a. PICK b \in BOOLEAN : b = Retries(t, o)
  BY DEF Retries
<1> DEFINE x == [conn[task[t].conn] EXCEPT !.link = o.link, !.tx = o.tx]
           r == [task[t] EXCEPT !.pc = "giving", !.ran = o.ran, !.retry = b]
<1>3. x \in MyConn /\ x.link # "none" /\ conn' = [conn EXCEPT ![task[t].conn] = x]
  BY <1>0, <1>1, <1>2, Typed DEF MyConn
<1>4. o.ran \in Nat
  BY <1>2
<1>5. /\ r \in Task /\ r.pc = "giving" /\ r.conn = task[t].conn /\ r.trash = task[t].trash
      /\ r.ran = o.ran /\ r.retry = b
  BY <1>0, <1>4 DEF Task
<1>6. Becomes(t, r)
  <2>1. task[t].ran + o.ran = o.ran
    BY <1>0, <1>2
  <2> QED BY <1>1, <1>a, <2>1 DEF Becomes
<1>7. b => o.ran = 0 /\ t \notin Acquirers
  BY <1>2, <1>a DEF Retries
<1> HIDE DEF x, r
<1> QED BY <1>0, <1>2, <1>3, <1>5, <1>6, <1>7, UsedStep

\* An acquired connection is closed.
LEMMA CloseConnIInv == ASSUME IInv, NEW t \in Tasks, CloseConn(t) PROVE IInv'
<1>0. /\ task[t] \in Task /\ task[t].pc = "held" /\ task[t].ran = 0 /\ ~task[t].retry
      /\ task[t].conn \in Conns /\ conn[task[t].conn] \in MyConn
      /\ UNCHANGED <<pool, reset, left, main>> /\ events' \in 0..Events
  BY Typed DEF IInv, CloseConn, Shape, Apart, Live
<1> DEFINE x == [conn[task[t].conn] EXCEPT !.link = "broken"]
           r == [task[t] EXCEPT !.pc = "giving"]
<1>1. x \in MyConn /\ x.link # "none" /\ conn' = [conn EXCEPT ![task[t].conn] = x]
  BY <1>0 DEF MyConn, CloseConn
<1>2. /\ r \in Task /\ r.pc = "giving" /\ r.conn = task[t].conn /\ r.trash = task[t].trash
      /\ r.ran \in 0..1 /\ ~r.retry
  BY <1>0 DEF Task
<1>3. Becomes(t, r)
  BY DEF CloseConn, Becomes
<1> HIDE DEF x, r
<1> QED BY <1>0, <1>1, <1>2, <1>3, UsedStep

\* The server or the clock: a connection stays where it is.
LEMMA ConnStep ==
  ASSUME IInv, conn' \in [Conns -> MyConn],
         \A c \in Conns : /\ conn'[c].tx = conn[c].tx
                          /\ conn'[c].link = "none" <=> conn[c].link = "none",
         UNCHANGED <<pool, reset, task, left, main>>, events' \in 0..Events
  PROVE  IInv'
<1>1. Live' = Live /\ Idle' = Idle /\ MainBin' = MainBin /\ \A t \in Tasks : Bin(t)' = Bin(t)
  BY DEF Live, Idle, MainBin, Bin
<1>2. TypeOK' /\ CountsExact' /\ NoLostWakeup' /\ \A t \in Tasks : Shape(t)'
  <2>1. Users' = Users /\ Refilling' = Refilling
    BY DEF Users, Refilling
  <2>2. TypeOK' /\ \A t \in Tasks : Shape(t)'
    BY DEF IInv, TypeOK, Shape
  <2>3. CountsExact' /\ NoLostWakeup'
    BY <2>1 DEF IInv, CountsExact, NoLostWakeup
  <2> QED BY <2>2, <2>3
<1>3. Apart' /\ Unrepeated'
  BY <1>1 DEF IInv, Apart, Unrepeated
<1>4. Counted'
  BY <1>1 DEF IInv, Counted
<1>5. Clean'
  <2>1. Idle \subseteq Conns /\ \A t \in Tasks : task[t].pc \in {"vet", "held"} => task[t].conn \in Conns
    BY DEF IInv, Apart, Live, Shape
  <2> QED BY <1>1, <2>1 DEF IInv, Clean
<1>6. HandlesGone'
  BY DEF IInv, HandlesGone, HoldsHandle
<1> QED BY <1>2, <1>3, <1>4, <1>5, <1>6 DEF IInv

LEMMA WorldIInv ==
  ASSUME IInv, NEW c \in Conns, ServerCloses(c) \/ Ages(c) \/ Rests(c)
  PROVE  IInv'
<1>1. UNCHANGED <<pool, reset, task, left, main>> /\ events' \in 0..Events
  BY Typed DEF ServerCloses, Ages, Rests, Event
<1>2. CASE ServerCloses(c)
  BY <1>1, <1>2, Typed, ConnStep DEF ServerCloses, MyConn
<1>3. CASE Ages(c)
  BY <1>1, <1>3, Typed, ConnStep DEF Ages, MyConn
<1>4. CASE Rests(c)
  <2>1. pool.idle[c] \in Conns
    BY <1>4, Typed DEF Rests
  <2>2. conn[pool.idle[c]] \in MyConn /\ conn' = [conn EXCEPT ![pool.idle[c]].rested = TRUE]
    BY <1>4, <2>1, Typed DEF Rests
  <2>3. conn' \in [Conns -> MyConn]
    BY <2>1, <2>2, Typed DEF MyConn
  <2>4. \A d \in Conns : /\ conn'[d].tx = conn[d].tx
                         /\ conn'[d].link = "none" <=> conn[d].link = "none"
    BY <2>1, <2>2, Typed DEF MyConn
  <2> QED BY <1>1, <2>3, <2>4, ConnStep
<1> QED BY <1>2, <1>3, <1>4
-----------------------------------------------------------------------------
(* Steps that move a connection.                                           *)

\* What the others have stays theirs.
LEMMA OthersKeep ==
  ASSUME IInv, NEW t \in Tasks, \A u \in Tasks \ {t} : Same(u)
  PROVE  \A u \in Tasks \ {t} :
           /\ task'[u].conn = task[u].conn /\ task'[u].trash = task[u].trash
           /\ Bin(u)' = Bin(u)
           /\ task'[u].pc \in {"vet", "held"} => task[u].pc \in {"vet", "held"}
           /\ task'[u].pc = "wait" => task[u].pc = "wait"
BY SameFacts DEF IInv

\* Who looks at, or uses, a connection has one.
LEMMA HasConn ==
  ASSUME IInv
  PROVE  \A t \in Tasks : task[t].pc \in {"vet", "dead", "held", "giving"} =>
           /\ task[t].conn # 0 /\ task[t].conn \in Live /\ task[t].conn \in Conns
           /\ task[t].conn \notin Idle /\ task[t].conn \notin MainBin
           /\ task[t].trash = <<>> /\ task[t].ran \in 0..1
BY Typed DEF IInv, Shape, Apart, Live, Task

\* Idle, then with a task.
LEMMA TakeIdleIInv == ASSUME IInv, NEW t \in Tasks, TakeIdle(t) PROVE IInv'
<1>0. /\ task[t] \in Task /\ task[t].pc \in {"take", "retake"} /\ Shape(t)
      /\ pool.idle # <<>> /\ IsInjective(pool.idle)
      /\ UNCHANGED <<conn, reset, left, main, events>>
  BY Typed DEF IInv, TakeIdle, Choosing, Unrepeated
<1> DEFINE c == Last(pool.idle)
           i == Front(pool.idle)
<1>1. /\ c \in Idle /\ c \in Conns /\ i \in Seq(Conns) /\ Len(i) = Len(pool.idle) - 1
      /\ IsInjective(i) /\ ToSet(i) = Idle \ {c}
  BY <1>0, Typed, FrontFacts DEF Idle
<1>2. PICK p \in {"dead", "vet"} :
        /\ task' = [task EXCEPT ![t].conn = c, ![t].pc = p]
        /\ pool' = [pool EXCEPT !.idle = i, !.in_use = @ + 1]
  BY DEF TakeIdle
<1> HIDE DEF c, i
<1> DEFINE r == [task[t] EXCEPT !.conn = c, !.pc = p]
<1>3. /\ r \in Task /\ r.pc = p /\ r.conn = c /\ r.trash = task[t].trash
      /\ r.ran = task[t].ran /\ r.retry = task[t].retry
  <2>1. c \in 0..Structs
    BY <1>1, PoolAssumption DEF Conns
  <2>2. p \in {"ready", "take", "retake", "wait", "vet", "dead", "dropping", "open",
               "held", "giving", "given"}
    OBVIOUS
  <2> QED BY <1>0, <2>1, <2>2 DEF Task
<1>4. Becomes(t, r)
  BY <1>2 DEF Becomes
<1> HIDE DEF r
<1>5. task' \in [Tasks -> Task] /\ task'[t] = r /\ \A u \in Tasks \ {t} : Same(u)
  BY <1>3, <1>4, BecomesFacts DEF IInv
<1>6. /\ task[t].conn = 0 /\ task[t].trash = <<>> /\ c # 0
      /\ Shape(t)' /\ t \notin Users /\ t \in Users'
  BY <1>0, <1>1, <1>3, <1>5 DEF Shape, Users, Conns
<1>7. /\ \A u \in Tasks : Shape(u)'
      /\ Cardinality(Users)' = Cardinality(Users) + 1
  BY <1>5, <1>6, Others
<1>8. /\ pool' \in MyPool /\ pool'.idle = i /\ pool'.refs = pool.refs
      /\ pool'.total = pool.total /\ pool'.in_use = pool.in_use + 1
  <2>1. /\ pool.total = Len(pool.idle) + pool.in_use /\ Len(i) = Len(pool.idle) - 1
        /\ Len(pool.idle) \in Nat /\ Len(i) \in Nat /\ MaxConns \in Nat
        /\ pool.in_use \in 0..MaxConns /\ pool.total \in 0..MaxConns
    BY <1>1, Typed, LenProperties
  <2>2. pool.in_use + 1 \in 0..MaxConns
    BY <2>1
  <2>3. pool' = [pool EXCEPT !.idle = i, !.total = pool.total, !.in_use = pool.in_use + 1]
    BY <1>2, Typed DEF MyPool
  <2> QED BY <1>1, <2>1, <2>2, <2>3, PoolCounts
<1>9. TypeOK'
  <2>1. Len(pool'.idle) <= MaxConns
    BY <1>1, <1>8, Typed
  <2> QED BY <1>0, <1>5, <1>8, <2>1 DEF IInv, TypeOK
<1>10. CountsExact'
  <2>1. pool.total = Len(pool.idle) + pool.in_use /\ Len(pool.idle) \in Nat /\ pool.in_use \in Nat
    BY Typed
  <2>2. Len(pool'.idle) = Len(pool.idle) - 1
    BY <1>1, <1>8
  <2>3. pool'.total = Len(pool'.idle) + pool'.in_use
    BY <1>8, <2>1, <2>2
  <2>4. pool'.in_use = Cardinality(Users)'
    BY <1>7, <1>8, Typed
  <2> QED BY <2>3, <2>4 DEF CountsExact
<1>11. NoLostWakeup'
  <2>1. \A u \in Tasks : task[u].pc # "wait"
    BY <1>0 DEF IInv, NoLostWakeup
  <2>2. \A u \in Tasks : task'[u].pc # "wait"
    BY <1>3, <1>5, <2>1, OthersKeep
  <2> QED BY <2>2 DEF NoLostWakeup
<1>12. Live' = Live /\ MainBin' = MainBin /\ Idle' = Idle \ {c}
       /\ \A u \in Tasks : Bin(u)' = Bin(u)
  BY <1>0, <1>1, <1>3, <1>5, <1>8, OthersKeep DEF Live, MainBin, Idle, Bin
<1>13. \A u \in Tasks : task'[u].conn = IF u = t THEN c ELSE task[u].conn
  BY <1>3, <1>5, OthersKeep
<1>14. Apart'
  BY <1>1, <1>6, <1>12, <1>13 DEF IInv, Apart
<1>15. Unrepeated'
  <2>1. \A u \in Tasks : task'[u].trash = task[u].trash
    BY <1>3, <1>5, OthersKeep
  <2> QED BY <1>0, <1>1, <1>8, <2>1 DEF IInv, Unrepeated
<1>16. Counted'
  BY <1>0, <1>8, <1>12 DEF IInv, Counted
<1>17. Clean'
  <2>1. \A u \in Tasks \ {t} : task'[u].pc \in {"vet", "held"} => task[u].pc \in {"vet", "held"}
    BY <1>5, OthersKeep
  <2> QED BY <1>0, <1>1, <1>12, <1>13, <2>1 DEF IInv, Clean
<1>18. HandlesGone'
  <2>1. HoldsHandle(t)
    BY <1>0 DEF HoldsHandle
  <2> QED BY <1>0, <1>5, <2>1, OtherHandles DEF IInv, HandlesGone
<1> QED BY <1>7, <1>9, <1>10, <1>11, <1>14, <1>15, <1>16, <1>17, <1>18 DEF IInv
\* With a task, then on its way out.
LEMMA DropDeadIInv == ASSUME IInv, NEW t \in Tasks, DropDead(t) PROVE IInv'
<1> DEFINE c == task[t].conn
<1>0. /\ task[t] \in Task /\ task[t].pc \in {"vet", "dead"} /\ Shape(t)
      /\ UNCHANGED <<conn, reset, left, main>>
      /\ task' = [task EXCEPT ![t].pc = "dropping", ![t].trash = <<c>>, ![t].conn = 0]
      /\ pool' = [pool EXCEPT !.total = @ - 1, !.in_use = @ - 1]
      /\ UNCHANGED events \/ Event
  BY Typed DEF IInv, DropDead
<1>1. /\ c # 0 /\ c \in Live /\ c \in Conns /\ c \notin Idle /\ c \notin MainBin
      /\ task[t].trash = <<>>
  BY <1>0, HasConn
<1> HIDE DEF c
<1> DEFINE e == <<c>>
<1>2. e \in Seq(Conns) /\ e # <<>> /\ IsInjective(e) /\ ToSet(e) = {c}
  BY <1>1, SingleFacts
<1> DEFINE r == [task[t] EXCEPT !.pc = "dropping", !.trash = e, !.conn = 0]
<1>3. Becomes(t, r)
  BY <1>0 DEF Becomes
<1> HIDE DEF e
<1>4. /\ r \in Task /\ r.pc = "dropping" /\ r.conn = 0 /\ r.trash = e
      /\ r.ran = task[t].ran /\ r.retry = task[t].retry
  <2>1. 0 \in 0..Structs
    BY PoolAssumption
  <2> QED BY <1>0, <1>2, <2>1 DEF Task
<1> HIDE DEF r
<1>5. task' \in [Tasks -> Task] /\ task'[t] = r /\ \A u \in Tasks \ {t} : Same(u)
  BY <1>3, <1>4, BecomesFacts DEF IInv
<1>6. /\ Shape(t)' /\ t \in Users /\ t \notin Users'
      /\ t \notin Refilling /\ t \in Refilling'
  BY <1>0, <1>2, <1>4, <1>5 DEF Shape, Users, Refilling
<1>7. /\ \A u \in Tasks : Shape(u)'
      /\ Cardinality(Users)' = Cardinality(Users) - 1
      /\ Cardinality(Refilling)' = Cardinality(Refilling) + 1
      /\ Cardinality(Refilling) \in Nat
  BY <1>5, <1>6, Others
<1>8. /\ pool' \in MyPool /\ pool'.idle = pool.idle /\ pool'.refs = pool.refs
      /\ pool'.total = pool.total - 1 /\ pool'.in_use = pool.in_use - 1
  <2>1. pool.total - 1 \in 0..MaxConns /\ pool.in_use - 1 \in 0..MaxConns
    BY <1>6, CountedUser
  <2>2. pool' = [pool EXCEPT !.idle = pool.idle, !.total = pool.total - 1,
                             !.in_use = pool.in_use - 1]
    BY <1>0, Typed DEF MyPool
  <2>3. pool.idle \in Seq(Conns)
    BY Typed
  <2> QED BY <2>1, <2>2, <2>3, PoolCounts
<1>9. TypeOK'
  <2>1. events' \in 0..Events
    BY <1>0, Typed DEF Event
  <2> QED BY <1>0, <1>5, <1>8, <2>1 DEF IInv, TypeOK
<1>10. CountsExact'
  <2>1. pool.total = Len(pool.idle) + pool.in_use /\ Len(pool.idle) \in Nat /\ pool.in_use \in Nat
    BY Typed
  <2>2. Len(pool'.idle) = Len(pool.idle)
    BY <1>8
  <2>3. pool'.total = Len(pool'.idle) + pool'.in_use
    BY <1>8, <2>1, <2>2
  <2>4. pool'.in_use = Cardinality(Users)'
    BY <1>7, <1>8, Typed
  <2> QED BY <2>3, <2>4 DEF CountsExact
<1>11. NoLostWakeup'
  <2>1. \A u \in Tasks : task'[u].pc = "wait" => task[u].pc = "wait"
    BY <1>4, <1>5, OthersKeep
  <2>2. pool.total \in Nat
    BY Typed
  <2>3. pool'.total + Cardinality(Refilling)' >= pool.total + Cardinality(Refilling)
    BY <1>7, <1>8, <2>2
  <2>4. Cardinality(Refilling)' \in Nat
    BY <1>7
  <2> QED BY <1>8, <2>1, <2>3, <2>4, NoNewWaiter
<1>12. Live' = Live /\ MainBin' = MainBin /\ Idle' = Idle
       /\ \A u \in Tasks : Bin(u)' = IF u = t THEN {c} ELSE Bin(u)
  BY <1>0, <1>2, <1>4, <1>5, <1>8, OthersKeep DEF Live, MainBin, Idle, Bin
<1>13. \A u \in Tasks : task'[u].conn = IF u = t THEN 0 ELSE task[u].conn
  BY <1>4, <1>5, OthersKeep
<1>14. Apart'
  <2>1. Apart /\ c = task[t].conn
    BY DEF IInv, c
  <2> QED BY <1>1, <1>12, <1>13, <2>1 DEF Apart
<1>15. Unrepeated'
  <2>1. \A u \in Tasks : task'[u].trash = IF u = t THEN e ELSE task[u].trash
    BY <1>4, <1>5, OthersKeep
  <2> QED BY <1>0, <1>2, <1>8, <2>1 DEF IInv, Unrepeated
<1>16. Counted'
  BY <1>0, <1>8, <1>12 DEF IInv, Counted
<1>17. Clean'
  BY <1>0, <1>4, <1>5, <1>12, <1>13, OthersKeep DEF IInv, Clean
<1>18. HandlesGone'
  <2>1. HoldsHandle(t)
    BY <1>0 DEF HoldsHandle
  <2> QED BY <1>0, <1>5, <2>1, OtherHandles DEF IInv, HandlesGone
<1> QED BY <1>7, <1>9, <1>10, <1>11, <1>14, <1>15, <1>16, <1>17, <1>18 DEF IInv

\* A new connection, with the task that reserved the place.
LEMMA OpenIInv == ASSUME IInv, NEW t \in Tasks, Open(t) PROVE IInv'
<1>0. /\ task[t] \in Task /\ task[t].pc = "open" /\ Shape(t)
      /\ UNCHANGED <<reset, left, main, events>>
      /\ pool' = [pool EXCEPT !.refs = @ + 1]
  BY Typed DEF IInv, Open
<1>1. PICK c \in Conns :
        /\ conn[c].link = "none"
        /\ conn' = [conn EXCEPT ![c] = Opened]
        /\ task' = [task EXCEPT ![t].pc = "held", ![t].conn = c, ![t].reused = FALSE]
  BY DEF Open
<1>2. c \notin Live /\ c # 0 /\ c \in 0..Structs
  BY <1>1, PoolAssumption DEF Live, Conns
<1> DEFINE r == [task[t] EXCEPT !.pc = "held", !.conn = c, !.reused = FALSE]
<1>3. Becomes(t, r)
  BY <1>1 DEF Becomes
<1>4. /\ r \in Task /\ r.pc = "held" /\ r.conn = c /\ r.trash = task[t].trash
      /\ r.ran = task[t].ran /\ r.retry = task[t].retry
  BY <1>0, <1>2 DEF Task
<1> HIDE DEF r
<1>5. task' \in [Tasks -> Task] /\ task'[t] = r /\ \A u \in Tasks \ {t} : Same(u)
  BY <1>3, <1>4, BecomesFacts DEF IInv
<1>6. /\ Shape(t)' /\ (t \in Users <=> t \in Users') /\ (t \in Refilling <=> t \in Refilling')
      /\ task[t].conn = 0 /\ task[t].trash = <<>>
  BY <1>0, <1>2, <1>4, <1>5 DEF Shape, Users, Refilling
<1>7. /\ \A u \in Tasks : Shape(u)'
      /\ Cardinality(Users)' = Cardinality(Users)
      /\ Cardinality(Refilling)' = Cardinality(Refilling)
  BY <1>5, <1>6, Others
<1>8. /\ conn' \in [Conns -> MyConn] /\ conn'[c] = Opened /\ Opened.link = "up" /\ ~Opened.tx
      /\ \A d \in Conns \ {c} : conn'[d] = conn[d]
  BY <1>1, Typed DEF Opened, None, MyConn
<1>9. Live' = Live \cup {c}
  BY <1>8 DEF Live
<1>10. Cardinality(Live') = Cardinality(Live) + 1 /\ Cardinality(Live') <= Structs
       /\ Cardinality(Live) \in Nat
  <2>1. Live' \in SUBSET Conns
    BY <1>9 DEF Live
  <2>2. IsFiniteSet(Conns) /\ Cardinality(Conns) = Structs
    BY FS_Interval, PoolAssumption DEF Conns
  <2>3. Cardinality(Live') <= Structs
    BY <2>1, <2>2, FS_Subset
  <2> QED BY <1>2, <1>9, <2>3, LiveFinite, FS_AddElement
<1>11. /\ pool' \in MyPool /\ pool'.idle = pool.idle /\ pool'.refs = pool.refs + 1
       /\ pool'.total = pool.total /\ pool'.in_use = pool.in_use
  <2>1. pool.refs + 1 \in 0..Structs + 1
    BY <1>10, Typed DEF IInv, Counted
  <2> QED BY <1>0, <2>1, Typed DEF MyPool
<1>12. TypeOK'
  BY <1>0, <1>5, <1>8, <1>11 DEF IInv, TypeOK
<1>13. CountsExact'
  BY <1>7, <1>11 DEF IInv, CountsExact
<1>14. NoLostWakeup'
  <2>1. \A u \in Tasks : task'[u].pc = "wait" => task[u].pc = "wait"
    BY <1>4, <1>5, OthersKeep
  <2> QED BY <1>7, <1>11, <2>1 DEF IInv, NoLostWakeup
<1>15. /\ MainBin' = MainBin /\ Idle' = Idle /\ \A u \in Tasks : Bin(u)' = Bin(u)
       /\ \A u \in Tasks : task'[u].trash = task[u].trash
       /\ \A u \in Tasks : task'[u].conn = IF u = t THEN c ELSE task[u].conn
  BY <1>0, <1>4, <1>5, <1>11, OthersKeep DEF MainBin, Idle, Bin
<1>16. Apart'
  BY <1>2, <1>6, <1>9, <1>15 DEF IInv, Apart
<1>17. Unrepeated'
  BY <1>0, <1>11, <1>15 DEF IInv, Unrepeated
<1>18. Counted'
  BY <1>0, <1>10, <1>11, Typed DEF IInv, Counted
<1>19. Clean'
  <2>1. \A d \in Idle : d # c /\ d \in Conns
    BY <1>2 DEF IInv, Apart, Live
  <2>2. ASSUME NEW u \in Tasks \ {t}, task'[u].pc \in {"vet", "held"}
        PROVE  task[u].pc \in {"vet", "held"} /\ task[u].conn # c /\ task[u].conn \in Conns
    BY <1>2, <1>5, <2>2, OthersKeep, HasConn
  <2> QED BY <1>8, <1>15, <2>1, <2>2 DEF IInv, Clean
<1>20. HandlesGone'
  <2>1. HoldsHandle(t)
    BY <1>0 DEF HoldsHandle
  <2> QED BY <1>0, <1>5, <2>1, OtherHandles DEF IInv, HandlesGone
<1> QED BY <1>7, <1>12, <1>13, <1>14, <1>16, <1>17, <1>18, <1>19, <1>20 DEF IInv
\* What a task does next once it holds nothing, its discards apart.
LEMMA AfterFacts ==
  ASSUME NEW s \in Task, s.pc \in {"dropping", "given"}, s.conn = 0, s.ran \in 0..1,
         s.retry => s.ran = 0, s.pc = "dropping" => s.ran = 0 /\ ~s.retry
  PROVE  /\ After(s) \in Task /\ After(s).conn = 0 /\ After(s).trash = s.trash
         /\ s.trash # <<>> => After(s).pc = s.pc
         /\ s.trash = <<>> /\ s.pc = "dropping" => After(s).pc = "retake"
         /\ s.trash = <<>> /\ s.pc = "given" => After(s).pc \in {"take", "ready"}
         /\ After(s).pc = "take" => s.retry
         /\ After(s).retry => s.retry
         /\ After(s).ran \in 0..1 /\ (After(s).retry => After(s).ran = 0)
         /\ After(s).pc # "given" => After(s).ran = 0 /\ ~After(s).retry
<1>1. CASE s.trash # <<>>
  BY <1>1 DEF After, Task
<1>2. CASE s.trash = <<>> /\ s.pc = "dropping"
  BY <1>2 DEF After, Task
<1>3. CASE s.trash = <<>> /\ s.pc = "given" /\ s.retry
  BY <1>3 DEF After, Task
<1>4. CASE s.trash = <<>> /\ s.pc = "given" /\ ~s.retry
  <2>1. After(s) = Resting
    BY <1>4 DEF After
  <2>2. Resting \in Task
    BY EmptyFacts, PoolAssumption DEF Resting, Task
  <2> QED BY <1>4, <2>1, <2>2 DEF Resting
<1> QED BY <1>1, <1>2, <1>3, <1>4

\* A connection is closed and lets go of the pool.
LEMMA DiscardedFacts ==
  ASSUME IInv, NEW c \in Live, Discarded(c)
  PROVE  /\ conn' \in [Conns -> MyConn] /\ Live' = Live \ {c}
         /\ \A d \in Conns \ {c} : conn'[d] = conn[d]
         /\ pool' \in MyPool /\ pool'.idle = pool.idle /\ pool'.refs = pool.refs - 1
         /\ pool'.total = pool.total /\ pool'.in_use = pool.in_use
         /\ Cardinality(Live)' = Cardinality(Live) - 1 /\ Cardinality(Live) \in Nat \ {0}
<1>1. /\ conn' \in [Conns -> MyConn] /\ conn'[c].link = "none"
      /\ \A d \in Conns \ {c} : conn'[d] = conn[d]
  BY Typed DEF Discarded, Live, None, MyConn
<1>2. Live' = Live \ {c}
  BY <1>1 DEF Live
<1>3. Cardinality(Live') = Cardinality(Live) - 1 /\ Cardinality(Live) \in Nat \ {0}
  <2>1. Cardinality(Live) # 0
    BY LiveFinite, FS_EmptySet
  <2> QED BY <1>2, <2>1, LiveFinite, FS_RemoveElement
<1>4. pool.refs - 1 \in 0..Structs + 1
  BY <1>3, Typed DEF IInv, Counted
<1>5. /\ pool' \in MyPool /\ pool'.idle = pool.idle /\ pool'.refs = pool.refs - 1
      /\ pool'.total = pool.total /\ pool'.in_use = pool.in_use
  BY <1>4, Typed DEF Discarded, MyPool
<1> QED BY <1>1, <1>2, <1>3, <1>5

\* A task closes what it discards.
LEMMA DiscardIInv == ASSUME IInv, NEW t \in Tasks, Discard(t) PROVE IInv'
<1> DEFINE c == Head(task[t].trash)
           s == [task[t] EXCEPT !.trash = Tail(@)]
<1>0. /\ task[t] \in Task /\ task[t].trash # <<>> /\ task[t].trash \in Seq(Conns)
      /\ Shape(t) /\ task[t].pc \in {"dropping", "given"} /\ task[t].conn = 0
      /\ IsInjective(task[t].trash)
  BY Typed DEF IInv, Discard, Shape, Unrepeated, Task
<1>1. /\ Discarded(c) /\ Becomes(t, After(s))
      /\ UNCHANGED <<reset, left, main, events>>
  <2>1. task' = [task EXCEPT ![t] = After(s)]
    BY <1>0, Typed DEF Discard
  <2> QED BY <2>1 DEF Discard, Becomes
<1>2. /\ c \in Bin(t) /\ Tail(task[t].trash) \in Seq(Conns)
      /\ IsInjective(Tail(task[t].trash)) /\ ToSet(Tail(task[t].trash)) = Bin(t) \ {c}
  BY <1>0, TailFacts DEF Bin
<1>3. /\ s \in Task /\ s.pc = task[t].pc /\ s.conn = 0 /\ s.ran = task[t].ran
      /\ s.retry = task[t].retry /\ s.trash = Tail(task[t].trash)
  BY <1>0, <1>2 DEF Task
<1> HIDE DEF c, s
<1>4. /\ s.ran \in 0..1 /\ (s.retry => s.ran = 0)
      /\ s.pc = "dropping" => s.ran = 0 /\ ~s.retry
  BY <1>0, <1>3 DEF Shape, Task
<1>5. /\ After(s) \in Task /\ After(s).conn = 0 /\ After(s).trash = s.trash
      /\ s.trash # <<>> => After(s).pc = s.pc
      /\ s.trash = <<>> /\ s.pc = "dropping" => After(s).pc = "retake"
      /\ s.trash = <<>> /\ s.pc = "given" => After(s).pc \in {"take", "ready"}
      /\ After(s).pc = "take" => s.retry
      /\ After(s).retry => s.retry
      /\ After(s).ran \in 0..1 /\ (After(s).retry => After(s).ran = 0)
      /\ After(s).pc # "given" => After(s).ran = 0 /\ ~After(s).retry
  BY <1>0, <1>3, <1>4, AfterFacts
<1>6. task' \in [Tasks -> Task] /\ task'[t] = After(s) /\ \A u \in Tasks \ {t} : Same(u)
  BY <1>1, <1>5, BecomesFacts DEF IInv
<1>7. /\ Shape(t)' /\ (t \in Users <=> t \in Users') /\ (t \in Refilling <=> t \in Refilling')
      /\ task'[t].pc \notin {"wait", "vet", "held"}
  <2>1. /\ task'[t].pc \in {"dropping", "given", "retake", "take", "ready"}
        /\ task'[t].pc \in {"dropping", "retake"} <=> task[t].pc \in {"dropping", "retake"}
        /\ task'[t].trash # <<>> <=> task'[t].pc \in {"dropping", "given"}
        /\ task'[t].conn = 0
    BY <1>0, <1>3, <1>5, <1>6
  <2>2. /\ task'[t].pc # "given" => task'[t].ran = 0 /\ ~task'[t].retry
        /\ task'[t].retry => task'[t].ran = 0 /\ t \notin Acquirers
        /\ task'[t].ran <= 1
    BY <1>0, <1>3, <1>5, <1>6 DEF Shape
  <2>3. Shape(t)'
    BY <2>1, <2>2 DEF Shape
  <2> QED BY <1>0, <2>1, <2>3 DEF Users, Refilling
<1>8. /\ \A u \in Tasks : Shape(u)'
      /\ Cardinality(Users)' = Cardinality(Users)
      /\ Cardinality(Refilling)' = Cardinality(Refilling)
  BY <1>6, <1>7, Others
<1>9. c \in Live /\ \A u \in Tasks \ {t} : c \notin Bin(u)
  BY <1>2 DEF IInv, Apart
<1>10. c \notin Idle /\ c \notin MainBin /\ \A u \in Tasks : task[u].conn # c
  <2>1. c # 0
    BY <1>9, PoolAssumption DEF Live, Conns
  <2> QED BY <1>2, <2>1 DEF IInv, Apart
<1>11. /\ conn' \in [Conns -> MyConn] /\ Live' = Live \ {c}
       /\ \A d \in Conns \ {c} : conn'[d] = conn[d]
       /\ pool' \in MyPool /\ pool'.idle = pool.idle /\ pool'.refs = pool.refs - 1
       /\ pool'.total = pool.total /\ pool'.in_use = pool.in_use
       /\ Cardinality(Live)' = Cardinality(Live) - 1 /\ Cardinality(Live) \in Nat \ {0}
  BY <1>1, <1>9, DiscardedFacts
<1>12. TypeOK'
  BY <1>1, <1>6, <1>11 DEF IInv, TypeOK
<1>13. CountsExact'
  BY <1>8, <1>11 DEF IInv, CountsExact
<1>14. NoLostWakeup'
  <2>1. \A u \in Tasks : task'[u].pc = "wait" => task[u].pc = "wait"
    BY <1>6, <1>7, OthersKeep
  <2> QED BY <1>8, <1>11, <2>1 DEF IInv, NoLostWakeup
<1>15. /\ MainBin' = MainBin /\ Idle' = Idle
       /\ \A u \in Tasks : Bin(u)' = IF u = t THEN Bin(t) \ {c} ELSE Bin(u)
       /\ \A u \in Tasks : task'[u].conn = task[u].conn
  <2>1. MainBin' = MainBin /\ Idle' = Idle
    BY <1>1, <1>11 DEF MainBin, Idle
  <2>2. Bin(t)' = Bin(t) \ {c} /\ task'[t].conn = task[t].conn
    BY <1>0, <1>2, <1>3, <1>5, <1>6 DEF Bin
  <2> QED BY <1>6, <2>1, <2>2, OthersKeep
<1>16. Apart'
  BY <1>9, <1>10, <1>11, <1>15 DEF IInv, Apart
<1>17. Unrepeated'
  BY <1>1, <1>2, <1>3, <1>5, <1>6, <1>11, OthersKeep DEF IInv, Unrepeated
<1>18. Counted'
  BY <1>1, <1>11, Typed DEF IInv, Counted
<1>19. Clean'
  <2>1. \A d \in Idle : d # c /\ d \in Conns
    BY <1>10 DEF IInv, Apart, Live
  <2>2. ASSUME NEW u \in Tasks, task'[u].pc \in {"vet", "held"}
        PROVE  task[u].pc \in {"vet", "held"} /\ task[u].conn # c /\ task[u].conn \in Conns
    BY <1>6, <1>7, <1>10, <2>2, OthersKeep, HasConn
  <2> QED BY <1>11, <1>15, <2>1, <2>2 DEF IInv, Clean
<1>20. HandlesGone'
  <2>1. HoldsHandle(t)' => HoldsHandle(t)
    BY <1>0, <1>1, <1>3, <1>5, <1>6 DEF HoldsHandle, Shape
  <2>2. \A u \in Tasks \ {t} : HoldsHandle(u)' => HoldsHandle(u)
    BY <1>1, <1>6, OtherHandles
  <2> QED BY <1>1, <2>1, <2>2 DEF IInv, HandlesGone
<1> QED BY <1>8, <1>12, <1>13, <1>14, <1>16, <1>17, <1>18, <1>19, <1>20 DEF IInv
\* The owner closes what was idle.
LEMMA MainDiscardIInv == ASSUME IInv, MainDiscard PROVE IInv'
<1> DEFINE c == Head(main.trash)
<1>0. /\ main \in [pc : {"live", "closed", "freeing", "gone"}, trash : Seq(Conns)]
      /\ main.trash # <<>> /\ IsInjective(main.trash)
      /\ Discarded(c) /\ main' = [main EXCEPT !.trash = Tail(@)]
      /\ UNCHANGED <<reset, task, left, events>>
  BY DEF IInv, TypeOK, Unrepeated, MainDiscard
<1>1. /\ c \in MainBin /\ Tail(main.trash) \in Seq(Conns)
      /\ IsInjective(Tail(main.trash)) /\ ToSet(Tail(main.trash)) = MainBin \ {c}
  BY <1>0, TailFacts DEF MainBin
<1>2. /\ main' \in [pc : {"live", "closed", "freeing", "gone"}, trash : Seq(Conns)]
      /\ main'.pc = main.pc /\ main'.trash = Tail(main.trash)
  BY <1>0, <1>1
<1> HIDE DEF c
<1>3. c \in Live /\ c \notin Idle /\ \A u \in Tasks : c \notin Bin(u)
  BY <1>1 DEF IInv, Apart
<1>4. \A u \in Tasks : task[u].conn # c
  <2>1. c # 0
    BY <1>3, PoolAssumption DEF Live, Conns
  <2> QED BY <1>1, <2>1 DEF IInv, Apart
<1>5. /\ conn' \in [Conns -> MyConn] /\ Live' = Live \ {c}
      /\ \A d \in Conns \ {c} : conn'[d] = conn[d]
      /\ pool' \in MyPool /\ pool'.idle = pool.idle /\ pool'.refs = pool.refs - 1
      /\ pool'.total = pool.total /\ pool'.in_use = pool.in_use
      /\ Cardinality(Live)' = Cardinality(Live) - 1 /\ Cardinality(Live) \in Nat \ {0}
  BY <1>0, <1>3, DiscardedFacts
<1>6. Users' = Users /\ Refilling' = Refilling /\ MainBin' = MainBin \ {c} /\ Idle' = Idle
      /\ \A u \in Tasks : Bin(u)' = Bin(u)
  BY <1>0, <1>1, <1>2, <1>5 DEF Users, Refilling, MainBin, Idle, Bin
<1>7. TypeOK'
  BY <1>0, <1>2, <1>5 DEF IInv, TypeOK
<1>8. CountsExact' /\ NoLostWakeup' /\ \A u \in Tasks : Shape(u)'
  BY <1>0, <1>5, <1>6 DEF IInv, CountsExact, NoLostWakeup, Shape
<1>9. Apart'
  BY <1>0, <1>3, <1>4, <1>5, <1>6 DEF IInv, Apart
<1>10. Unrepeated'
  BY <1>0, <1>1, <1>2, <1>5 DEF IInv, Unrepeated
<1>11. Counted'
  BY <1>2, <1>5, Typed DEF IInv, Counted
<1>12. Clean'
  <2>1. \A d \in Idle : d # c /\ d \in Conns
    BY <1>3 DEF IInv, Apart, Live
  <2>2. \A u \in Tasks : task[u].pc \in {"vet", "held"} => task[u].conn # c /\ task[u].conn \in Conns
    BY <1>4, HasConn
  <2> QED BY <1>0, <1>5, <1>6, <2>1, <2>2 DEF IInv, Clean
<1>13. HandlesGone'
  BY <1>0, <1>2 DEF IInv, HandlesGone, HoldsHandle
<1> QED BY <1>7, <1>8, <1>9, <1>10, <1>11, <1>12, <1>13 DEF IInv

\* The pool is shut down: what was idle is on its way out.
LEMMA ShutdownStep ==
  ASSUME IInv, NEW p \in {"closed", "freeing"}, Shutdown(p), main.pc \in {"live", "closed"},
         p = "freeing" => \A t \in Tasks : ~HoldsHandle(t)
  PROVE  IInv'
<1>0. UNCHANGED <<conn, reset, left, events>> /\ main' = [pc |-> p, trash |-> pool.idle]
  BY DEF Shutdown
<1>1. task' \in [Tasks -> Task] /\ \A u \in Tasks : task'[u].pc # "wait"
  <2>1. task \in [Tasks -> Task] /\ task' = Broadcast(task)
    BY Typed DEF Shutdown
  <2>2. \A u \in Tasks : task'[u].pc # "wait"
    BY <2>1, BroadcastFacts
  <2>3. ASSUME NEW u \in Tasks PROVE task'[u] \in Task
    BY <2>1 DEF Broadcast, Task
  <2>4. task' = [u \in Tasks |-> task'[u]]
    BY <2>1 DEF Broadcast
  <2> QED BY <2>2, <2>3, <2>4
<1>2. \A u \in Tasks : Same(u)
  BY DEF Shutdown, Broadcast, Same
<1>3. \A u \in Tasks :
        /\ task'[u].conn = task[u].conn /\ task'[u].trash = task[u].trash
        /\ Shape(u)' /\ (u \in Users <=> u \in Users') /\ Bin(u)' = Bin(u)
        /\ task'[u].pc = task[u].pc \/ (task[u].pc = "wait" /\ task'[u].pc = "take")
  BY <1>2, SameFacts DEF IInv
<1>4. Users' = Users
  BY <1>3 DEF Users
<1>5. /\ pool' \in MyPool /\ pool'.idle = <<>> /\ pool'.refs = pool.refs
      /\ pool'.total = pool.in_use /\ pool'.in_use = pool.in_use
  <2>1. /\ pool.total = Len(pool.idle) + pool.in_use /\ pool.in_use \in 0..MaxConns
        /\ Len(pool.idle) \in Nat
    BY Typed
  <2>2. pool.total - Len(pool.idle) = pool.in_use
    BY <2>1
  <2>3. <<>> \in Seq(Conns)
    BY EmptyFacts
  <2>4. pool' = [pool EXCEPT !.closing = TRUE, !.idle = <<>>, !.total = pool.in_use]
    BY <2>2 DEF Shutdown
  <2> QED BY <2>1, <2>3, <2>4, Typed DEF MyPool
<1>6. Len(pool'.idle) = 0 /\ ToSet(pool'.idle) = {} /\ IsInjective(pool'.idle)
  BY <1>5, EmptyFacts
<1>7. TypeOK'
  <2>1. Len(pool'.idle) <= MaxConns
    BY <1>6, Typed
  <2>2. main' \in [pc : {"live", "closed", "freeing", "gone"}, trash : Seq(Conns)]
    BY <1>0, Typed
  <2> QED BY <1>0, <1>1, <1>5, <2>1, <2>2 DEF IInv, TypeOK
<1>8. CountsExact'
  <2>1. pool'.total = Len(pool'.idle) + pool'.in_use
    BY <1>5, <1>6, Typed
  <2> QED BY <1>4, <1>5, <2>1, Typed DEF CountsExact
<1>9. NoLostWakeup'
  BY <1>1 DEF NoLostWakeup
<1>10. Live' = Live /\ MainBin' = Idle /\ Idle' = {}
  BY <1>0, <1>6 DEF Live, MainBin, Idle
<1>11. Apart'
  BY <1>3, <1>10 DEF IInv, Apart
<1>12. Unrepeated'
  BY <1>0, <1>3, <1>6 DEF IInv, Unrepeated
<1>13. Counted'
  BY <1>0, <1>5, <1>10 DEF IInv, Counted
<1>14. Clean'
  BY <1>0, <1>3, <1>10 DEF IInv, Clean
<1>15. HandlesGone'
  BY <1>0, <1>3 DEF HandlesGone, HoldsHandle
<1> QED BY <1>3, <1>7, <1>8, <1>9, <1>11, <1>12, <1>13, <1>14, <1>15 DEF IInv

LEMMA CloseDropIInv == ASSUME IInv, Close \/ Drop PROVE IInv'
BY ShutdownStep DEF Close, Drop

\* The owner lets go of the pool.
LEMMA UnrefIInv == ASSUME IInv, Unref PROVE IInv'
<1>0. /\ main \in [pc : {"live", "closed", "freeing", "gone"}, trash : Seq(Conns)]
      /\ main.pc = "freeing" /\ main' = [main EXCEPT !.pc = "gone"]
      /\ pool' = [pool EXCEPT !.refs = @ - 1]
      /\ UNCHANGED <<conn, reset, task, left, events>>
  BY DEF IInv, TypeOK, Unref
<1>1. /\ main' \in [pc : {"live", "closed", "freeing", "gone"}, trash : Seq(Conns)]
      /\ main'.pc = "gone" /\ main'.trash = main.trash
  BY <1>0
<1>2. pool.refs = Cardinality(Live) + 1 /\ Cardinality(Live) \in Nat
  BY <1>0, LiveFinite DEF IInv, Counted
<1>3. /\ pool' \in MyPool /\ pool'.idle = pool.idle /\ pool'.refs = Cardinality(Live)
      /\ pool'.total = pool.total /\ pool'.in_use = pool.in_use
  <2>1. pool.refs - 1 \in 0..Structs + 1 /\ pool.refs - 1 = Cardinality(Live)
    <3>1. pool.refs \in 0..Structs + 1 /\ Structs \in Nat
      BY Typed
    <3> QED BY <1>2, <3>1
  <2> QED BY <1>0, <2>1, Typed DEF MyPool
<1>4. Users' = Users /\ Refilling' = Refilling /\ MainBin' = MainBin /\ Idle' = Idle
      /\ Live' = Live /\ \A u \in Tasks : Bin(u)' = Bin(u)
  BY <1>0, <1>1, <1>3 DEF Users, Refilling, MainBin, Idle, Bin, Live
<1>5. TypeOK'
  BY <1>0, <1>1, <1>3 DEF IInv, TypeOK
<1>6. CountsExact' /\ NoLostWakeup' /\ \A u \in Tasks : Shape(u)'
  BY <1>0, <1>3, <1>4 DEF IInv, CountsExact, NoLostWakeup, Shape
<1>7. Apart' /\ Unrepeated'
  BY <1>0, <1>1, <1>3, <1>4 DEF IInv, Apart, Unrepeated
<1>8. Counted'
  BY <1>1, <1>2, <1>3, <1>4 DEF Counted
<1>9. Clean' /\ HandlesGone'
  BY <1>0, <1>1, <1>4 DEF IInv, Clean, HandlesGone, HoldsHandle
<1> QED BY <1>5, <1>6, <1>7, <1>8, <1>9 DEF IInv
\* The connection that has idled longest joins the discards.
LEMMA TrimFacts ==
  ASSUME NEW i \in Seq(Conns), IsInjective(i), Len(i) > 1,
         NEW o \in Seq(Conns), IsInjective(o), ToSet(i) \cap ToSet(o) = {}
  PROVE  /\ Tail(i) \in Seq(Conns) /\ IsInjective(Tail(i)) /\ Len(Tail(i)) = Len(i) - 1
         /\ Append(o, Head(i)) \in Seq(Conns) /\ IsInjective(Append(o, Head(i)))
         /\ ToSet(Tail(i)) \subseteq ToSet(i)
         /\ ToSet(Append(o, Head(i))) \subseteq ToSet(i) \cup ToSet(o)
         /\ ToSet(Tail(i)) \cap ToSet(Append(o, Head(i))) = {}
<1>1. i # <<>>
  BY EmptySeq
<1>2. PICK h : h = Head(i)
  OBVIOUS
<1>3. /\ h \in ToSet(i) /\ h \in Conns /\ Tail(i) \in Seq(Conns)
      /\ Len(Tail(i)) = Len(i) - 1 /\ IsInjective(Tail(i))
      /\ ToSet(Tail(i)) = ToSet(i) \ {h}
  BY <1>1, <1>2, TailFacts
<1>4. h \notin ToSet(o)
  BY <1>3
<1>5. /\ Append(o, h) \in Seq(Conns) /\ ToSet(Append(o, h)) = ToSet(o) \cup {h}
      /\ IsInjective(o) /\ h \notin ToSet(o) => IsInjective(Append(o, h))
  BY <1>3, AppendFacts
<1> QED BY <1>2, <1>3, <1>4, <1>5

\* A connection is given back: idle again or on its way out.
LEMMA GiveBackIInv == ASSUME IInv, NEW t \in Tasks, GiveBack(t) PROVE IInv'
<1> DEFINE c == task[t].conn
<1>0. /\ task[t] \in Task /\ task[t].pc = "giving" /\ Shape(t)
      /\ UNCHANGED <<reset, left, main>>
  BY Typed DEF IInv, GiveBack
<1>1. /\ c # 0 /\ c \in Live /\ c \in Conns /\ c \notin Idle /\ c \notin MainBin
      /\ task[t].trash = <<>> /\ task[t].ran \in 0..1 /\ conn[c] \in MyConn
  BY <1>0, HasConn, Typed
<1>2. PICK c1 \in {conn[c], [conn[c] EXCEPT !.tx = FALSE], [conn[c] EXCEPT !.link = "broken"]} :
        LET p1 == IF Keeps(c1)
                  THEN [pool EXCEPT !.in_use = @ - 1, !.idle = Append(@, c)]
                  ELSE [pool EXCEPT !.in_use = @ - 1, !.total = @ - 1]
            cs == [conn EXCEPT ![c] = [c1 EXCEPT !.rested = FALSE]]
            out == IF Keeps(c1) THEN <<>> ELSE <<c>>
            trim == Trims(p1, cs)
        IN /\ Tidied(conn[c], c1)
           /\ conn' = cs
           /\ pool' = IF trim THEN [p1 EXCEPT !.idle = Tail(@), !.total = @ - 1] ELSE p1
           /\ task' = Broadcast([task EXCEPT ![t] = After([task[t] EXCEPT
                        !.pc = "given", !.conn = 0,
                        !.trash = IF trim THEN Append(out, Head(p1.idle)) ELSE out])])
  BY DEF GiveBack
<1>3. PICK keep \in BOOLEAN : keep <=> Keeps(c1)
  BY DEF Keeps
<1> DEFINE x == [c1 EXCEPT !.rested = FALSE]
           k == pool.in_use - 1
           i1 == IF keep THEN Append(pool.idle, c) ELSE pool.idle
           n1 == IF keep THEN pool.total ELSE pool.total - 1
           o == IF keep THEN <<>> ELSE <<c>>
           p1 == [pool EXCEPT !.idle = i1, !.total = n1, !.in_use = k]
<1>4. p1 = IF Keeps(c1) THEN [pool EXCEPT !.in_use = @ - 1, !.idle = Append(@, c)]
                        ELSE [pool EXCEPT !.in_use = @ - 1, !.total = @ - 1]
  BY <1>3, Typed DEF MyPool
<1>5. p1.idle = i1 /\ p1.total = n1
  BY Typed DEF MyPool
<1>6. PICK trim \in BOOLEAN :
        trim <=> Trims(p1, [conn EXCEPT ![c] = x])
  BY DEF Trims
<1> DEFINE i2 == IF trim THEN Tail(i1) ELSE i1
           n2 == IF trim THEN n1 - 1 ELSE n1
           e == IF trim THEN Append(o, Head(i1)) ELSE o
           s == [task[t] EXCEPT !.pc = "given", !.conn = 0, !.trash = e]
<1>7. /\ Tidied(conn[c], c1)
      /\ conn' = [conn EXCEPT ![c] = x]
      /\ pool' = IF trim THEN [p1 EXCEPT !.idle = Tail(@), !.total = @ - 1] ELSE p1
      /\ task' = Broadcast([task EXCEPT ![t] = After(s)])
  <2> DEFINE q == IF Keeps(c1) THEN [pool EXCEPT !.in_use = @ - 1, !.idle = Append(@, c)]
                               ELSE [pool EXCEPT !.in_use = @ - 1, !.total = @ - 1]
             out == IF Keeps(c1) THEN <<>> ELSE <<c>>
             d == IF Trims(q, [conn EXCEPT ![c] = x]) THEN Append(out, Head(q.idle)) ELSE out
  <2>1. /\ Tidied(conn[c], c1)
        /\ conn' = [conn EXCEPT ![c] = x]
        /\ pool' = IF Trims(q, [conn EXCEPT ![c] = x])
                   THEN [q EXCEPT !.idle = Tail(@), !.total = @ - 1] ELSE q
        /\ task' = Broadcast([task EXCEPT ![t] = After([task[t] EXCEPT
                     !.pc = "given", !.conn = 0, !.trash = d])])
    BY <1>2
  <2>2. q = p1 /\ out = o
    BY <1>3, <1>4
  <2> HIDE DEF p1, q, out, o, x, i1
  <2>3. d = e
    BY <1>5, <1>6, <2>2
  <2> HIDE DEF d, e
  <2>4. pool' = IF trim THEN [p1 EXCEPT !.idle = Tail(@), !.total = @ - 1] ELSE p1
    BY <1>6, <2>1, <2>2
  <2> QED BY <2>1, <2>3, <2>4
<1>8. pool' = [pool EXCEPT !.idle = i2, !.total = n2, !.in_use = k]
  BY <1>7, Typed DEF MyPool
<1>9. trim => Len(i1) > 1
  BY <1>5, <1>6 DEF Trims
<1>10. /\ i1 \in Seq(Conns) /\ IsInjective(i1) /\ o \in Seq(Conns) /\ IsInjective(o)
       /\ ToSet(i1) \subseteq Idle \cup {c} /\ ToSet(o) \subseteq {c}
       /\ ToSet(i1) \cap ToSet(o) = {} /\ (~keep => c \notin ToSet(i1))
       /\ Len(i1) = Len(pool.idle) + (IF keep THEN 1 ELSE 0)
  <2>0. pool.idle \in Seq(Conns) /\ IsInjective(pool.idle) /\ Len(pool.idle) \in Nat
    BY Typed DEF IInv, Unrepeated
  <2>1. CASE keep
    <3>1. i1 = Append(pool.idle, c) /\ o = <<>>
      BY <2>1
    <3> HIDE DEF i1, o, c
    <3>2. /\ i1 \in Seq(Conns) /\ IsInjective(i1) /\ Len(i1) = Len(pool.idle) + 1
          /\ ToSet(i1) = Idle \cup {c}
      BY <1>1, <2>0, <3>1, AppendFacts DEF Idle
    <3>3. o \in Seq(Conns) /\ IsInjective(o) /\ ToSet(o) = {}
      BY <3>1, EmptyFacts
    <3> QED BY <2>1, <3>2, <3>3
  <2>2. CASE ~keep
    <3>1. i1 = pool.idle /\ o = <<c>>
      BY <2>2
    <3> HIDE DEF i1, o, c
    <3>2. ToSet(i1) = Idle
      BY <3>1 DEF Idle
    <3>3. o \in Seq(Conns) /\ IsInjective(o) /\ ToSet(o) = {c}
      BY <1>1, <3>1, SingleFacts
    <3>4. Len(i1) = Len(pool.idle) + (IF keep THEN 1 ELSE 0)
      BY <2>0, <2>2, <3>1
    <3> QED BY <1>1, <2>0, <3>1, <3>2, <3>3, <3>4
  <2> QED BY <2>1, <2>2
<1> HIDE DEF i1, o, c, x
<1>11. /\ i2 \in Seq(Conns) /\ IsInjective(i2) /\ e \in Seq(Conns) /\ IsInjective(e)
       /\ ToSet(i2) \subseteq ToSet(i1)
       /\ ToSet(i2) \subseteq Idle \cup {c} /\ ToSet(e) \subseteq Idle \cup {c}
       /\ ToSet(i2) \cap ToSet(e) = {}
       /\ Len(i2) = Len(i1) - (IF trim THEN 1 ELSE 0)
  <2>1. CASE trim
    BY <1>9, <1>10, <2>1, TrimFacts
  <2>2. CASE ~trim
    <3>1. Len(i1) \in Nat
      BY <1>10, LenProperties
    <3>2. i2 = i1 /\ e = o
      BY <2>2
    <3>3. Len(i1) = Len(i1) - (IF trim THEN 1 ELSE 0)
      BY <2>2, <3>1
    <3> HIDE DEF i2, e
    <3> QED BY <1>10, <3>2, <3>3
  <2> QED BY <2>1, <2>2
<1> HIDE DEF e
<1>12. /\ s \in Task /\ s.pc = "given" /\ s.conn = 0 /\ s.trash = e
       /\ s.ran = task[t].ran /\ s.retry = task[t].retry
  <2>1. 0 \in 0..Structs
    BY PoolAssumption
  <2> QED BY <1>0, <1>11, <2>1 DEF Task
<1> HIDE DEF s
<1>13. /\ After(s) \in Task /\ After(s).conn = 0 /\ After(s).trash = s.trash
       /\ s.trash # <<>> => After(s).pc = s.pc
       /\ s.trash = <<>> /\ s.pc = "given" => After(s).pc \in {"take", "ready"}
       /\ After(s).pc = "take" => s.retry
       /\ After(s).retry => s.retry
       /\ After(s).ran \in 0..1 /\ (After(s).retry => After(s).ran = 0)
       /\ After(s).pc # "given" => After(s).ran = 0 /\ ~After(s).retry
  <2>1. /\ s.ran \in 0..1 /\ (s.retry => s.ran = 0)
    BY <1>0, <1>1, <1>12 DEF Shape
  <2> QED BY <1>12, <2>1, AfterFacts
<1>14. /\ task' \in [Tasks -> Task] /\ task'[t] = After(s) /\ \A u \in Tasks \ {t} : Same(u)
       /\ task'[t].pc \in {"given", "take", "ready"}
       /\ \A u \in Tasks : task'[u].pc # "wait"
  <2>1. After(s).pc \in {"given", "take", "ready"}
    BY <1>12, <1>13
  <2>2. Becomes(t, After(s))
    BY <1>7, <2>1 DEF Becomes
  <2>3. [task EXCEPT ![t] = After(s)] \in [Tasks -> Task]
    BY <1>13, Typed
  <2>4. \A u \in Tasks : task'[u].pc # "wait"
    BY <1>7, <2>3, BroadcastFacts
  <2> QED BY <1>13, <2>1, <2>2, <2>4, BecomesFacts DEF IInv
<1>15. Shape(t)' /\ t \in Users /\ t \notin Users'
  <2>1. /\ task'[t].trash # <<>> <=> task'[t].pc \in {"dropping", "given"}
        /\ task'[t].conn = 0
    BY <1>12, <1>13, <1>14
  <2>2. /\ task'[t].pc # "given" => task'[t].ran = 0 /\ ~task'[t].retry
        /\ task'[t].retry => task'[t].ran = 0 /\ t \notin Acquirers
        /\ task'[t].ran <= 1
    BY <1>0, <1>12, <1>13, <1>14 DEF Shape
  <2>3. Shape(t)'
    BY <1>14, <2>1, <2>2 DEF Shape
  <2> QED BY <1>0, <1>14, <2>3 DEF Users
<1>16. /\ \A u \in Tasks : Shape(u)'
       /\ Cardinality(Users)' = Cardinality(Users) - 1
  BY <1>14, <1>15, Others
<1>17. /\ k \in 0..MaxConns /\ n2 \in 0..MaxConns /\ n2 = Len(i2) + k /\ Len(i2) <= MaxConns
  <2>1. /\ k \in 0..MaxConns /\ pool.total = Len(pool.idle) + pool.in_use
        /\ Len(pool.idle) \in Nat /\ pool.in_use \in 0..MaxConns /\ pool.total \in 0..MaxConns
        /\ MaxConns \in Nat
    BY <1>15, CountedUser, Typed
  <2>2. Len(i2) \in Nat
    BY <1>11, LenProperties
  <2>3. Len(i1) \in Nat /\ n1 = Len(i1) + k /\ n1 \in 0..MaxConns
    <3>1. CASE keep
      BY <1>10, <2>1, <3>1, SMTT(30)
    <3>2. CASE ~keep
      <4>1. n1 = pool.total - 1 /\ Len(i1) = Len(pool.idle) /\ pool.total - 1 \in 0..MaxConns
        BY <1>10, <1>15, <2>1, <3>2, CountedUser
      <4> QED BY <2>1, <4>1
    <3> QED BY <3>1, <3>2
  <2> HIDE DEF n1, k, i2
  <2>4. CASE trim
    BY <1>11, <2>1, <2>2, <2>3, <2>4, SMTT(30)
  <2>5. CASE ~trim
    BY <1>11, <2>1, <2>2, <2>3, <2>5, SMTT(30)
  <2> QED BY <2>4, <2>5
<1> HIDE DEF i2, n2, k
<1>18. /\ pool' \in MyPool /\ pool'.idle = i2 /\ pool'.total = n2 /\ pool'.in_use = k
       /\ pool'.refs = pool.refs
  BY <1>8, <1>11, <1>17, PoolCounts
<1>19. x \in MyConn /\ x.link # "none" /\ (keep => ~x.tx)
  <2>1. c1 \in MyConn /\ c1.link # "none"
    BY <1>1, <1>2 DEF MyConn, Live
  <2>2. ASSUME keep PROVE ~c1.tx
    <3>1. c1.link # "broken"
      BY <1>3, <2>2 DEF Keeps
    <3>2. CASE ~Talks(conn[c]) /\ c1 = conn[c]
      BY <1>1, <3>1, <3>2 DEF Talks, MyConn
    <3>3. CASE c1 = [conn[c] EXCEPT !.tx = FALSE]
      BY <1>1, <3>3 DEF MyConn
    <3>4. CASE c1 = [conn[c] EXCEPT !.link = "broken"]
      BY <1>1, <3>1, <3>4 DEF MyConn
    <3> QED BY <1>7, <3>2, <3>3, <3>4 DEF Tidied
  <2> QED BY <2>1, <2>2 DEF x, MyConn
<1>20. /\ conn' \in [Conns -> MyConn] /\ conn'[c] = x
       /\ \A d \in Conns \ {c} : conn'[d] = conn[d]
  BY <1>1, <1>7, <1>19, Typed
<1>21. Live' = Live
  BY <1>1, <1>19, <1>20 DEF Live
<1>22. TypeOK'
  <2>1. events' \in 0..Events
    <3>1. UNCHANGED events \/ Event
      BY <1>7 DEF Tidied
    <3> QED BY <3>1, Typed DEF Event
  <2> QED BY <1>0, <1>14, <1>17, <1>18, <1>20, <2>1 DEF IInv, TypeOK
<1>23. CountsExact'
  <2>1. k = Cardinality(Users)'
    BY <1>16, Typed DEF k
  <2> QED BY <1>17, <1>18, <2>1 DEF CountsExact
<1>24. NoLostWakeup'
  BY <1>14 DEF NoLostWakeup
<1>25. /\ Idle' \subseteq Idle \cup {c} /\ Bin(t)' \subseteq Idle \cup {c}
       /\ Idle' \cap Bin(t)' = {} /\ (~keep => c \notin Idle')
  BY <1>10, <1>11, <1>12, <1>13, <1>14, <1>18 DEF Idle, Bin
<1>26. MainBin' = MainBin /\ task'[t].conn = 0
  BY <1>0, <1>13, <1>14 DEF MainBin
<1>27. \A u \in Tasks \ {t} : Bin(u)' = Bin(u) /\ task'[u].conn = task[u].conn
  BY <1>14, OthersKeep
<1>28. \A u \in Tasks \ {t} : task[u].conn # c
  BY <1>1 DEF IInv, Apart, c
<1>29. \A u \in Tasks \ {t} : c \notin Bin(u)
  BY <1>1 DEF IInv, Apart, c
<1>30. Apart'
  <2>1. /\ Idle' \subseteq Live' /\ MainBin' \subseteq Live' /\ Idle' \cap MainBin' = {}
        /\ Bin(t)' \subseteq Live' /\ Bin(t)' \cap MainBin' = {}
    BY <1>1, <1>21, <1>25, <1>26 DEF IInv, Apart
  <2>2. ASSUME NEW u \in Tasks \ {t}
        PROVE  /\ Bin(u)' \subseteq Live' /\ Bin(u)' \cap Idle' = {} /\ Bin(u)' \cap MainBin' = {}
               /\ Bin(u)' \cap Bin(t)' = {}
    BY <1>21, <1>25, <1>26, <1>27, <1>29 DEF IInv, Apart
  <2>3. ASSUME NEW u \in Tasks, task'[u].conn # 0
        PROVE  /\ task'[u].conn \in Live' /\ task'[u].conn \notin Idle'
               /\ task'[u].conn \notin MainBin' /\ task'[u].conn \notin Bin(t)'
    <3>1. u # t /\ task'[u].conn = task[u].conn /\ task[u].conn # c
      BY <1>26, <1>27, <1>28, <2>3
    <3> QED BY <1>21, <1>25, <1>26, <2>3, <3>1 DEF IInv, Apart
  <2>4. \A u, v \in Tasks : task'[u].conn # 0 => task'[u].conn \notin Bin(v)'
    BY <1>26, <1>27, <2>3 DEF IInv, Apart
  <2>5. \A u, v \in Tasks : task'[u].conn # 0 /\ u # v => task'[v].conn # task'[u].conn
    BY <1>26, <1>27 DEF IInv, Apart
  <2>6. \A u, v \in Tasks : u # v => Bin(u)' \cap Bin(v)' = {}
    BY <1>27, <2>2 DEF IInv, Apart
  <2> QED BY <1>25, <2>1, <2>2, <2>3, <2>4, <2>5, <2>6 DEF Apart
<1>31. Unrepeated'
  BY <1>0, <1>11, <1>12, <1>13, <1>14, <1>18, OthersKeep DEF IInv, Unrepeated
<1>32. Counted'
  BY <1>0, <1>18, <1>21 DEF IInv, Counted
<1>33. Clean'
  <2>1. ASSUME NEW d \in Idle' PROVE ~conn'[d].tx
    <3>1. CASE d = c
      BY <1>19, <1>20, <1>25, <2>1, <3>1
    <3>2. CASE d # c
      BY <1>20, <1>25, <2>1, <3>2 DEF IInv, Clean, Apart, Live
    <3> QED BY <3>1, <3>2
  <2>2. ASSUME NEW u \in Tasks, task'[u].pc \in {"vet", "held"} PROVE ~conn'[task'[u].conn].tx
    <3>1. u # t /\ task[u].pc \in {"vet", "held"} /\ task'[u].conn = task[u].conn
      BY <1>14, <2>2, OthersKeep
    <3>2. task[u].conn \in Conns \ {c} /\ ~conn[task[u].conn].tx
      BY <1>28, <3>1, HasConn DEF IInv, Clean
    <3> QED BY <1>20, <3>1, <3>2
  <2> QED BY <2>1, <2>2 DEF Clean
<1>34. HandlesGone'
  <2>1. HoldsHandle(t)' => HoldsHandle(t)
    BY <1>0, <1>12, <1>13, <1>14 DEF HoldsHandle, Shape
  <2>2. \A u \in Tasks \ {t} : HoldsHandle(u)' => HoldsHandle(u)
    BY <1>0, <1>14, OtherHandles
  <2> QED BY <1>0, <2>1, <2>2 DEF IInv, HandlesGone
<1> QED BY <1>16, <1>22, <1>23, <1>24, <1>30, <1>31, <1>32, <1>33, <1>34 DEF IInv

-----------------------------------------------------------------------------
(* The theorems.                                                           *)

\* The invariant is inductive: one lemma per operation of the pool.
LEMMA StepIInv == IInv /\ [Next]_vars => IInv'
<1> SUFFICES ASSUME IInv, [Next]_vars PROVE IInv'
  OBVIOUS
<1>1. ASSUME NEW t \in Tasks, Step(t) \/ WakeUp(t) PROVE IInv'
  BY <1>1, BeginIInv, RefuseIInv, TakeIdleIInv, ReserveIInv, FullIInv, WakeUpIInv, VetIInv,
     DropDeadIInv, OpenIInv, OpenFailsIInv, CommandIInv, CloseConnIInv, GiveBackIInv,
     DiscardIInv DEF Step
<1>2. CASE Owner \/ Close
  BY <1>2, CloseDropIInv, MainDiscardIInv, UnrefIInv DEF Owner
<1>3. ASSUME NEW c \in Conns, ServerCloses(c) \/ Ages(c) \/ Rests(c) PROVE IInv'
  BY <1>3, WorldIInv
<1>4. CASE UNCHANGED vars
  <2>1. UNCHANGED <<conn, pool, reset, task, left, main, events>>
    BY <1>4 DEF vars
  <2> QED BY <2>1, Typed, ConnStep
<1> QED BY <1>1, <1>2, <1>3, <1>4 DEF Next

LEMMA AlwaysIInv == Spec => []IInv
BY InitIInv, StepIInv, PTL DEF Spec

\* The pool's books are exact at every unlock, whatever fails between two of
\* them: the counters, one holder for every connection, the reference count
\* that keeps the pool alive, no transaction left on what is handed out.
THEOREM BooksAreExact == Spec => []BooksExact
BY AlwaysIInv, Books, PTL

\* A task only waits while nothing is idle and every free place is about to be
\* filled by the task that freed it.
THEOREM NoWakeupIsLost == Spec => []NoLostWakeup
<1>1. IInv => NoLostWakeup
  BY DEF IInv
<1> QED BY <1>1, AlwaysIInv, PTL

\* pool_run never has the server run a statement twice.
THEOREM StatementsRunOnce == Spec => []RunsOnce
BY AlwaysIInv, Once, PTL
================================================================================
