--------------------------- MODULE IronIoPoolProofs ---------------------------
(***************************************************************************)
(* Proofs, for any lookups, workers and limit on threads, that the elastic *)
(* pool of IronIoPool and the caller of a lookup agree on who owns what,   *)
(* and that no queued lookup is left without a worker.                     *)
(***************************************************************************)
EXTENDS IronIoPool, FiniteSetTheorems, SequenceTheorems, WellFoundedInduction, TLAPS

-----------------------------------------------------------------------------
(* The inductive invariant: what the properties say and what they rest on. *)

Parked == {w \in Workers : wpc[w] = "parked"}
Created == {w \in Workers : wpc[w] # "none"}
Begun == {l \in Lookups : lpc[l] # "idle"}

\* What a submit decides by.  A leaked worker is no longer counted, so
\* thread_count may be too small, but never too large; and a submit creates at
\* most one worker.
Numbers ==
  /\ idle_threads = Cardinality(Parked) /\ work_ready \subseteq Parked
  /\ thread_count =< Cardinality(Alive)
  /\ Cardinality(Created) =< Cardinality(Begun)

\* A live worker has a slot, and a slot that is not empty is one worker's.
SlotsHeld ==
  /\ exit \in {"running", "stopping"} =>
       /\ \A w \in Alive : \E s \in Slots : threads[s] = w
       /\ \A s, r \in Slots : threads[s] = threads[r] /\ threads[s] # Nobody => s = r
  /\ \A s \in Slots : threads[s] \in Created \cup {Nobody}
  /\ exit = "running" => \A s \in Slots : threads[s] \in Alive \cup {Nobody}

\* A lookup that was begun before destroy is queued, with one worker, or
\* completed.  One that was begun later may have gone nowhere.
Places ==
  /\ \A w \in Workers : wjob[w] # Nobody <=> wpc[w] \in {"resolve", "settle"}
  /\ IsInjective(queue)
  /\ \A l \in ToSet(queue) : lpc[l] # "idle" /\ ~completed[l]
  /\ \A w \in Workers : wpc[w] = "resolve" =>
       /\ lpc[wjob[w]] # "idle" /\ ~completed[wjob[w]] /\ wjob[w] \notin ToSet(queue)
       /\ \A v \in Workers : wpc[v] = "resolve" /\ wjob[v] = wjob[w] => v = w
  /\ \A l \in Lookups \ intruders : lpc[l] # "idle" /\ ~completed[l] =>
       l \in ToSet(queue) \/ \E w \in Workers : wpc[w] = "resolve" /\ wjob[w] = l

\* Who frees the job: the caller that saw it completed, or the worker that
\* completes it after the caller has given it up.
Owner(l) ==
  /\ frees[l] =< 1
  /\ frees[l] = 1 => completed[l] /\ lpc[l] \in {"leak", "returned", "astray"}
  /\ lpc[l] \notin {"leak", "returned", "astray"} => frees[l] = 0 /\ ~abandoned[l]
  /\ lpc[l] = "done" => completed[l]
  /\ lpc[l] = "idle" => ~completed[l]

\* How far Iron_pool_destroy is.
Ends ==
  /\ shutdown <=> exit # "running"
  /\ exit = "running" => Contract
  /\ exit = "joining" /\ Contract => Alive \subseteq joining
  /\ ~Exists /\ Contract => Alive = {}

IInv ==
  /\ TypeOK /\ Numbers /\ SlotsHeld /\ Places
  /\ \A l \in Lookups : Owner(l)
  /\ Ends /\ NoStranded
-----------------------------------------------------------------------------
(* Sequences without repetition, numbers and sets of threads.              *)

LEMMA AppendFacts ==
  ASSUME NEW S, NEW q \in Seq(S), NEW x \in S
  PROVE  /\ Append(q, x) \in Seq(S)
         /\ ToSet(Append(q, x)) = ToSet(q) \cup {x}
         /\ IsInjective(q) /\ x \notin ToSet(q) => IsInjective(Append(q, x))
<1> DEFINE a == Append(q, x)
<1>1. /\ a \in Seq(S) /\ Len(q) \in Nat
      /\ \A i \in 1 .. Len(q) : a[i] = q[i]
      /\ a[Len(q) + 1] = x
      /\ DOMAIN a = 1 .. Len(q) + 1 /\ DOMAIN q = 1 .. Len(q)
  BY AppendProperties, LenProperties
<1> HIDE DEF a
<1>2. DOMAIN a = DOMAIN q \cup {Len(q) + 1} /\ Len(q) + 1 \notin DOMAIN q
  BY <1>1
<1>3. ToSet(a) = ToSet(q) \cup {x}
  BY <1>1, <1>2 DEF ToSet
<1>4. ASSUME IsInjective(q), x \notin ToSet(q) PROVE IsInjective(a)
  BY <1>1, <1>2, <1>4 DEF ToSet, IsInjective
<1> QED BY <1>1, <1>3, <1>4 DEF a

LEMMA TailFacts ==
  ASSUME NEW S, NEW q \in Seq(S), q # <<>>, IsInjective(q)
  PROVE  /\ Head(q) \in S /\ Head(q) \in ToSet(q)
         /\ Tail(q) \in Seq(S) /\ IsInjective(Tail(q))
         /\ ToSet(Tail(q)) = ToSet(q) \ {Head(q)}
<1>1. PICK n \in Nat \ {0} : n = Len(q) /\ DOMAIN q = 1 .. n
  BY LenProperties, EmptySeq
<1>2. PICK r : r = Tail(q)
  OBVIOUS
<1>3. /\ r \in Seq(S) /\ DOMAIN r = 1 .. n - 1 /\ Head(q) = q[1] /\ Head(q) \in S
      /\ \A i \in 1 .. n - 1 : r[i] = q[i + 1]
  <2>1. /\ Head(q) \in S /\ Tail(q) \in Seq(S) /\ Len(Tail(q)) = Len(q) - 1
        /\ \A i \in 1 .. Len(Tail(q)) : Tail(q)[i] = q[i + 1]
    BY HeadTailProperties
  <2>2. Len(r) = n - 1 /\ r \in Seq(S)
    BY <1>1, <1>2, <2>1
  <2>3. DOMAIN r = 1 .. n - 1
    BY <2>2, LenProperties
  <2>4. Head(q) = q[1]
    OBVIOUS
  <2>5. \A i \in 1 .. n - 1 : r[i] = q[i + 1]
    BY <1>2, <2>1, <2>2
  <2> QED BY <2>1, <2>2, <2>3, <2>4, <2>5
<1>4. \A i, j \in 1 .. n : q[i] = q[j] => i = j
  BY <1>1 DEF IsInjective
<1>5. \A i \in 1 .. n - 1 : i + 1 \in 1 .. n /\ i + 1 # 1 /\ 1 \in 1 .. n
  BY <1>1
<1>6. IsInjective(r)
  <2>1. ASSUME NEW i \in 1 .. n - 1, NEW j \in 1 .. n - 1, r[i] = r[j] PROVE i = j
    <3>1. i + 1 = j + 1
      BY <1>3, <1>4, <1>5, <2>1
    <3> QED BY <3>1
  <2> QED BY <1>3, <2>1 DEF IsInjective
<1>7. ToSet(r) \subseteq ToSet(q) \ {q[1]}
  <2>1. ASSUME NEW i \in 1 .. n - 1 PROVE r[i] \in ToSet(q) /\ r[i] # q[1]
    BY <1>1, <1>3, <1>4, <1>5 DEF ToSet
  <2> QED BY <1>3, <2>1 DEF ToSet
<1>8. ToSet(q) \ {q[1]} \subseteq ToSet(r)
  <2>1. ASSUME NEW x \in ToSet(q) \ {q[1]} PROVE x \in ToSet(r)
    <3>1. PICK j \in 1 .. n : x = q[j] /\ j # 1
      BY <1>1 DEF ToSet
    <3>2. PICK i \in 1 .. n - 1 : i + 1 = j
      <4>1. j - 1 \in 1 .. n - 1 /\ (j - 1) + 1 = j
        BY <1>1, <3>1
      <4> QED BY <4>1
    <3> QED BY <1>3, <3>1, <3>2 DEF ToSet
  <2> QED BY <2>1
<1>9. q[1] \in ToSet(q)
  <2>1. 1 \in 1 .. n
    BY <1>1
  <2> QED BY <1>1, <2>1 DEF ToSet
<1> QED BY <1>2, <1>3, <1>6, <1>7, <1>8, <1>9

LEMMA LowestFacts ==
  ASSUME NEW S, S \subseteq Nat, S # {}
  PROVE  Lowest(S) \in S
<1>1. \E x \in S : \A y \in S : ~ (<<y, x>> \in OpToRel(<, Nat))
  BY NatLessThanWellFounded, WFMin, Zenon
<1>2. PICK x \in S : \A y \in S : ~ (<<y, x>> \in OpToRel(<, Nat))
  BY <1>1, Zenon
<1>3. x \in S
  BY <1>2, Zenon
<1>4. \A y \in S : <<y, x>> \in Nat \X Nat /\ ~(y < x)
  BY <1>2, <1>3 DEF OpToRel
<1>5. \A y \in S : x =< y
  <2>1. x \in Nat /\ \A y \in S : y \in Nat /\ ~(y < x)
    BY <1>3, <1>4
  <2> QED BY <2>1
<1> QED BY <1>3, <1>5 DEF Lowest

LEMMA SlotsAre == Slots \subseteq Nat /\ 1 \in Slots
BY IoPoolAssumption DEF Slots

LEMMA Finite ==
  /\ IsFiniteSet(Parked) /\ IsFiniteSet(Created) /\ IsFiniteSet(Alive) /\ IsFiniteSet(Begun)
  /\ Cardinality(Parked) \in Nat /\ Cardinality(Created) \in Nat
  /\ Cardinality(Alive) \in Nat /\ Cardinality(Begun) \in Nat
<1>1. IsFiniteSet(Workers) /\ IsFiniteSet(Lookups)
  BY IoPoolAssumption
<1>2. Parked \subseteq Workers /\ Created \subseteq Workers /\ Alive \subseteq Workers
      /\ Begun \subseteq Lookups
  BY DEF Parked, Created, Alive, Begun
<1> QED BY <1>1, <1>2, FS_Subset, FS_CardinalityType

\* A worker that exists goes from one place to another.
LEMMA Moves ==
  ASSUME TypeOK, NEW w \in Workers,
         NEW b \in {"top", "parked", "resolve", "settle", "gone"},
         wpc[w] \notin {"none", "gone"}, wpc' = [wpc EXCEPT ![w] = b]
  PROVE  /\ wpc' \in [Workers -> {"none", "top", "parked", "resolve", "settle", "gone"}]
         /\ wpc'[w] = b /\ \A v \in Workers \ {w} : wpc'[v] = wpc[v]
         /\ Created' = Created /\ w \in Alive
         /\ b # "gone" => Alive' = Alive
         /\ b = "gone" => Alive' = Alive \ {w}
         /\ b = "parked" => Parked' = Parked \cup {w}
         /\ b # "parked" => Parked' = Parked \ {w}
<1>1. /\ wpc' \in [Workers -> {"none", "top", "parked", "resolve", "settle", "gone"}]
      /\ wpc'[w] = b /\ \A v \in Workers \ {w} : wpc'[v] = wpc[v]
  BY DEF TypeOK
<1> QED BY <1>1 DEF Created, Alive, Parked

-----------------------------------------------------------------------------
LEMMA InitHolds == Init => IInv
<1> SUFFICES ASSUME Init PROVE IInv
  OBVIOUS
<1>1. DOMAIN queue = {} /\ queue \in Seq(Lookups)
  <2>1. 1 .. 0 = {} /\ queue = <<>>
    BY DEF Init
  <2> QED BY <2>1, EmptySeq, LenProperties
<1>2. Parked = {} /\ Created = {} /\ Alive = {} /\ Begun = {}
  BY DEF Init, Parked, Created, Alive, Begun
<1>3. IsFiniteSet(Workers) /\ Cardinality(Workers) \in Nat /\ Cardinality({}) = 0
  BY IoPoolAssumption, FS_CardinalityType, FS_EmptySet
<1>4. TypeOK
  <2>1. idle_threads \in 0 .. Cardinality(Workers)
    BY <1>3 DEF Init
  <2>2. /\ threads \in [Slots -> Workers \cup {Nobody}]
        /\ wpc \in [Workers -> {"none", "top", "parked", "resolve", "settle", "gone"}]
        /\ wjob \in [Workers -> Lookups \cup {Nobody}] /\ expired \in [Workers -> BOOLEAN]
    BY DEF Init
  <2>3. /\ lpc \in [Lookups -> {"idle", "wait", "parked", "done", "leak", "returned", "astray"}]
        /\ late \in [Lookups -> BOOLEAN]
        /\ completed \in [Lookups -> BOOLEAN] /\ abandoned \in [Lookups -> BOOLEAN]
        /\ frees \in [Lookups -> Nat]
    BY DEF Init
  <2>4. pending \in Int /\ thread_count \in Int
    BY DEF Init
  <2>5. /\ work_ready \in SUBSET Workers /\ joining \in SUBSET Workers
        /\ exit \in {"running", "stopping", "joining", "freed", "gone"}
        /\ intruders \in SUBSET Lookups
    BY DEF Init
  <2>6. shutdown \in BOOLEAN
    BY DEF Init
  <2> QED BY <1>1, <2>1, <2>2, <2>3, <2>4, <2>5, <2>6 DEF TypeOK
<1>5. Numbers
  <2>1. idle_threads = 0 /\ thread_count = 0 /\ work_ready = {}
    BY DEF Init
  <2> QED BY <1>2, <1>3, <2>1 DEF Numbers
<1>6. SlotsHeld
  BY <1>2 DEF SlotsHeld, Init
<1>7. Places
  BY <1>1 DEF Places, Init, ToSet, IsInjective
<1>8. (\A l \in Lookups : Owner(l)) /\ Ends /\ NoStranded
  BY DEF Owner, Ends, NoStranded, Init, Contract, Exists
<1> QED BY <1>4, <1>5, <1>6, <1>7, <1>8 DEF IInv

-----------------------------------------------------------------------------
(* Steps of a caller that has submitted its lookup. *)

LEMMA LookupKeeps ==
  ASSUME IInv, TypeOK', thread_count' =< thread_count, NEW l \in Lookups,
         lpc[l] # "idle", lpc'[l] # "idle", \A k \in Lookups \ {l} : lpc'[k] = lpc[k],
         \A k \in Lookups : Owner(k)',
         UNCHANGED <<queue, idle_threads, shutdown, threads, work_ready, wpc, wjob, completed,
                     exit, joining, intruders>>
  PROVE  IInv'
<1> USE DEF IInv
<1>1. Parked' = Parked /\ Created' = Created /\ Alive' = Alive /\ Begun' = Begun
  BY DEF Parked, Created, Alive, Begun
<1>2. Numbers'
  <2>1. thread_count \in Int /\ thread_count' \in Int
    BY DEF TypeOK
  <2> QED BY <1>1, <2>1, Finite DEF Numbers
<1>3. SlotsHeld'
  BY <1>1 DEF SlotsHeld
<1>4. Places'
  <2>1. \A k \in Lookups : lpc'[k] = "idle" <=> lpc[k] = "idle"
    OBVIOUS
  <2>2. \A w \in Workers : wpc[w] = "resolve" => wjob[w] \in Lookups
    BY DEF Places, TypeOK
  <2>3. \A k \in ToSet(queue) : k \in Lookups
    BY LenProperties, ElementOfSeq DEF TypeOK, ToSet
  <2> QED BY <2>1, <2>2, <2>3 DEF Places
<1>5. Ends'
  BY <1>1 DEF Ends, Contract, Exists
<1>6. NoStranded'
  BY <1>1 DEF NoStranded, Contract
<1> QED BY <1>2, <1>3, <1>4, <1>5, <1>6

LEMMA DeadlineKeeps == ASSUME IInv, NEW l \in Lookups, Deadline(l) PROVE IInv'
<1> USE DEF IInv
<1>1. /\ lpc[l] # "idle" /\ late' = [late EXCEPT ![l] = TRUE]
      /\ UNCHANGED <<queue, pending, thread_count, idle_threads, shutdown, threads, work_ready,
                     wpc, wjob, expired, lpc, completed, abandoned, frees, exit, joining,
                     intruders>>
  BY DEF Deadline, pool, workers, ending
<1>2. TypeOK'
  BY <1>1 DEF TypeOK
<1>3. \A k \in Lookups : Owner(k)'
  BY <1>1 DEF Owner
<1>4. thread_count' =< thread_count
  BY <1>1 DEF TypeOK
<1> QED BY <1>1, <1>2, <1>3, <1>4, LookupKeeps

\* A caller that has given up its job leaves, and tells nobody.
LEMMA GivenUpKeeps ==
  ASSUME IInv, NEW l \in Lookups, NEW p \in {"returned", "astray"}, lpc[l] = "leak",
         lpc' = [lpc EXCEPT ![l] = p],
         UNCHANGED <<queue, pending, thread_count, idle_threads, shutdown, threads, work_ready,
                     wpc, wjob, expired, late, completed, abandoned, frees, exit, joining,
                     intruders>>
  PROVE  IInv'
<1> USE DEF IInv
<1>1. /\ lpc' \in [Lookups -> {"idle", "wait", "parked", "done", "leak", "returned", "astray"}]
      /\ lpc'[l] = p /\ \A k \in Lookups \ {l} : lpc'[k] = lpc[k]
  BY DEF TypeOK
<1>2. TypeOK'
  BY <1>1 DEF TypeOK
<1>3. \A k \in Lookups : Owner(k)'
  BY <1>1 DEF Owner
<1>4. thread_count' =< thread_count
  BY DEF TypeOK
<1> QED BY <1>1, <1>2, <1>3, <1>4, LookupKeeps

LEMMA LookupStepKeeps == ASSUME IInv, NEW l \in Lookups, LookupStep(l) PROVE IInv'
<1> USE DEF IInv
<1>0. /\ lpc \in [Lookups -> {"idle", "wait", "parked", "done", "leak", "returned", "astray"}]
      /\ abandoned \in [Lookups -> BOOLEAN] /\ frees \in [Lookups -> Nat]
      /\ thread_count \in Int /\ pending \in Int
  BY DEF TypeOK
<1>a. Owner(l)
  OBVIOUS
<1>1. ASSUME LookupWait(l) \/ LookupWake(l) PROVE IInv'
  <2>1. PICK p \in {"wait", "parked", "done"} :
          lpc' = [lpc EXCEPT ![l] = p] /\ (p = "done" => completed[l])
    BY <1>1 DEF LookupWait, LookupWake
  <2>2. /\ lpc[l] \in {"wait", "parked"}
        /\ UNCHANGED <<queue, pending, thread_count, idle_threads, shutdown, threads, work_ready,
                       wpc, wjob, expired, late, completed, abandoned, frees, exit, joining,
                       intruders>>
    BY <1>1 DEF LookupWait, LookupWake, pool, workers, ending
  <2>3. lpc'[l] = p /\ \A k \in Lookups \ {l} : lpc'[k] = lpc[k]
    BY <1>0, <2>1
  <2>4. TypeOK'
    <3>1. lpc' \in [Lookups -> {"idle", "wait", "parked", "done", "leak", "returned", "astray"}]
      BY <1>0, <2>1
    <3> QED BY <2>2, <3>1 DEF TypeOK
  <2>5. \A k \in Lookups : Owner(k)'
    BY <1>a, <2>1, <2>2, <2>3 DEF Owner
  <2>6. thread_count' =< thread_count
    BY <1>0, <2>2
  <2> QED BY <2>1, <2>2, <2>3, <2>4, <2>5, <2>6, LookupKeeps
<1>2. ASSUME LookupAbandon(l) PROVE IInv'
  <2>1. /\ lpc[l] \in {"wait", "parked"} /\ lpc' = [lpc EXCEPT ![l] = "leak"]
        /\ abandoned' = [abandoned EXCEPT ![l] = TRUE]
        /\ UNCHANGED <<queue, pending, thread_count, idle_threads, shutdown, threads, work_ready,
                       wpc, wjob, expired, late, completed, frees, exit, joining,
                       intruders>>
    BY <1>2 DEF LookupAbandon, pool, workers, ending
  <2>2. /\ lpc'[l] = "leak" /\ \A k \in Lookups \ {l} : lpc'[k] = lpc[k]
        /\ \A k \in Lookups \ {l} : abandoned'[k] = abandoned[k]
    BY <1>0, <2>1
  <2>3. TypeOK'
    <3>1. /\ lpc' \in [Lookups -> {"idle", "wait", "parked", "done", "leak", "returned", "astray"}]
          /\ abandoned' \in [Lookups -> BOOLEAN]
      BY <1>0, <2>1
    <3> QED BY <2>1, <3>1 DEF TypeOK
  <2>4. \A k \in Lookups : Owner(k)'
    BY <1>a, <2>1, <2>2 DEF Owner
  <2>5. thread_count' =< thread_count
    BY <1>0, <2>1
  <2> QED BY <2>1, <2>2, <2>3, <2>4, <2>5, LookupKeeps
<1>3. ASSUME LookupLeak(l) PROVE IInv'
  <2>1. /\ lpc[l] = "leak" /\ lpc' = [lpc EXCEPT ![l] = "returned"]
        /\ pending' = (IF pending > 0 THEN pending - 1 ELSE pending)
        /\ thread_count' = (IF thread_count > 0 THEN thread_count - 1 ELSE thread_count)
        /\ UNCHANGED <<queue, idle_threads, shutdown, threads, work_ready,
                       wpc, wjob, expired, late, completed, abandoned, frees, exit, joining,
                       intruders>>
    BY <1>3 DEF LookupLeak, workers, ending
  <2>2. lpc'[l] = "returned" /\ \A k \in Lookups \ {l} : lpc'[k] = lpc[k]
    BY <1>0, <2>1
  <2>3. pending' \in Int /\ thread_count' \in Int /\ thread_count' =< thread_count
    BY <1>0, <2>1
  <2>4. TypeOK'
    <3>1. lpc' \in [Lookups -> {"idle", "wait", "parked", "done", "leak", "returned", "astray"}]
      BY <1>0, <2>1
    <3> QED BY <2>1, <2>3, <3>1 DEF TypeOK
  <2>5. \A k \in Lookups : Owner(k)'
    BY <1>a, <2>1, <2>2 DEF Owner
  <2> QED BY <2>1, <2>2, <2>3, <2>4, <2>5, LookupKeeps
<1>4. ASSUME LookupReturn(l) PROVE IInv'
  <2>1. /\ lpc[l] = "done" /\ lpc' = [lpc EXCEPT ![l] = "returned"]
        /\ frees' = [frees EXCEPT ![l] = @ + 1]
        /\ UNCHANGED <<queue, pending, thread_count, idle_threads, shutdown, threads, work_ready,
                       wpc, wjob, expired, late, completed, abandoned, exit, joining,
                       intruders>>
    BY <1>4 DEF LookupReturn, pool, workers, ending
  <2>2. /\ lpc'[l] = "returned" /\ \A k \in Lookups \ {l} : lpc'[k] = lpc[k]
        /\ frees'[l] = 1 /\ \A k \in Lookups \ {l} : frees'[k] = frees[k]
    BY <1>0, <1>a, <2>1 DEF Owner
  <2>3. TypeOK'
    <3>1. /\ lpc' \in [Lookups -> {"idle", "wait", "parked", "done", "leak", "returned", "astray"}]
          /\ frees' \in [Lookups -> Nat]
      BY <1>0, <2>1
    <3> QED BY <2>1, <3>1 DEF TypeOK
  <2>4. \A k \in Lookups : Owner(k)'
    BY <1>a, <2>1, <2>2 DEF Owner
  <2>5. thread_count' =< thread_count
    BY <1>0, <2>1
  <2> QED BY <2>1, <2>2, <2>3, <2>4, <2>5, LookupKeeps
<1>5. ASSUME LookupLeakNull(l) PROVE IInv'
  <2>1. /\ lpc[l] = "leak" /\ lpc' = [lpc EXCEPT ![l] = "returned"]
        /\ UNCHANGED <<queue, pending, thread_count, idle_threads, shutdown, threads, work_ready,
                       wpc, wjob, expired, late, completed, abandoned, frees, exit, joining,
                       intruders>>
    BY <1>5 DEF LookupLeakNull, pool, workers, ending
  <2> QED BY <2>1, GivenUpKeeps
<1> QED BY <1>1, <1>2, <1>3, <1>4, <1>5 DEF LookupStep

\* A lookup that never reaches the pool.
LEMMA NowhereKeeps ==
  ASSUME IInv, NEW l \in Lookups, NEW p \in {"wait", "astray"}, Enter(l), ~Exists,
         lpc' = [lpc EXCEPT ![l] = p],
         UNCHANGED <<queue, pending, thread_count, idle_threads, shutdown, threads, work_ready,
                     wpc, wjob, expired, late, completed, abandoned, frees, exit, joining>>
  PROVE  IInv'
<1> USE DEF IInv
<1>1. lpc[l] = "idle" /\ intruders' = intruders \cup {l} /\ exit # "running"
  BY DEF Enter, Exists
<1>2. /\ lpc' \in [Lookups -> {"idle", "wait", "parked", "done", "leak", "returned", "astray"}]
      /\ lpc'[l] = p /\ \A k \in Lookups \ {l} : lpc'[k] = lpc[k]
  BY DEF TypeOK
<1>3. /\ Parked' = Parked /\ Created' = Created /\ Alive' = Alive
      /\ Begun' = Begun \cup {l} /\ l \notin Begun
  BY <1>1, <1>2 DEF Parked, Created, Alive, Begun
<1>4. TypeOK'
  BY <1>1, <1>2 DEF TypeOK
<1>5. Numbers'
  <2>1. Cardinality(Begun') = Cardinality(Begun) + 1
    BY <1>3, Finite, FS_AddElement
  <2>2. Cardinality(Created') =< Cardinality(Begun')
    BY <1>3, <2>1, Finite DEF Numbers
  <2> QED BY <1>3, <2>2 DEF Numbers
<1>6. SlotsHeld' /\ Ends' /\ NoStranded'
  BY <1>1, <1>3 DEF SlotsHeld, Ends, NoStranded, Contract, Exists
<1>7. \A k \in Lookups : Owner(k)'
  BY <1>1, <1>2 DEF Owner
<1>8. Places'
  <2>1. \A k \in Lookups : lpc[k] # "idle" => lpc'[k] # "idle"
    BY <1>1, <1>2
  <2>2. \A k \in Lookups \ intruders' : k \notin intruders /\ lpc'[k] = lpc[k]
    BY <1>1, <1>2
  <2>3. \A w \in Workers : wpc[w] = "resolve" => wjob[w] \in Lookups
    BY DEF Places, TypeOK
  <2>4. \A k \in ToSet(queue) : k \in Lookups
    BY LenProperties, ElementOfSeq DEF TypeOK, ToSet
  <2> QED BY <2>1, <2>2, <2>3, <2>4 DEF Places
<1> QED BY <1>4, <1>5, <1>6, <1>7, <1>8

LEMMA LookupSubmitNullKeeps == ASSUME IInv, NEW l \in Lookups, LookupSubmitNull(l) PROVE IInv'
<1>1. /\ Enter(l) /\ ~Exists /\ lpc' = [lpc EXCEPT ![l] = "wait"]
      /\ UNCHANGED <<queue, pending, thread_count, idle_threads, shutdown, threads, work_ready,
                     wpc, wjob, expired, late, completed, abandoned, frees, exit, joining>>
  BY DEF LookupSubmitNull, Exists, pool, workers
<1> QED BY <1>1, NowhereKeeps

LEMMA LookupAstrayKeeps == ASSUME IInv, NEW l \in Lookups, LookupAstray(l) PROVE IInv'
<1>1. /\ ~Exists /\ lpc' = [lpc EXCEPT ![l] = "astray"]
      /\ UNCHANGED <<queue, pending, thread_count, idle_threads, shutdown, threads, work_ready,
                     wpc, wjob, expired, late, completed, abandoned, frees, exit, joining>>
  BY DEF LookupAstray, Exists, pool, workers
<1>2. CASE Enter(l)
  BY <1>1, <1>2, NowhereKeeps
<1>3. CASE lpc[l] = "leak" /\ UNCHANGED intruders
  BY <1>1, <1>3, GivenUpKeeps
<1> QED BY <1>2, <1>3 DEF LookupAstray

-----------------------------------------------------------------------------
(* Steps of a worker. *)

\* The books of the lookups do not mention a worker that has none in hand.
LEMMA PlacesKept ==
  ASSUME IInv, NEW w \in Workers, wpc[w] \notin {"resolve", "settle"},
         wpc'[w] \notin {"resolve", "settle"}, \A v \in Workers \ {w} : wpc'[v] = wpc[v],
         UNCHANGED <<queue, wjob, lpc, late, completed, abandoned, frees, intruders>>
  PROVE  Places' /\ \A l \in Lookups : Owner(l)'
<1>1. Places'
  BY DEF IInv, Places
<1>2. \A l \in Lookups : Owner(l)'
  BY DEF IInv, Owner
<1> QED BY <1>1, <1>2

LEMMA WorkerParkKeeps == ASSUME IInv, NEW w \in Workers, WorkerPark(w) PROVE IInv'
<1> USE DEF IInv
<1>1. /\ wpc[w] = "top" /\ queue = <<>> /\ wpc' = [wpc EXCEPT ![w] = "parked"]
      /\ idle_threads' = idle_threads + 1 /\ work_ready' = work_ready \cup {w}
      /\ UNCHANGED <<queue, pending, thread_count, shutdown, threads, wjob, expired,
                     lpc, late, completed, abandoned, frees, exit, joining, intruders>>
  BY DEF WorkerPark, Looking, lookups, ending
<1>2. /\ wpc' \in [Workers -> {"none", "top", "parked", "resolve", "settle", "gone"}]
      /\ wpc'[w] = "parked" /\ \A v \in Workers \ {w} : wpc'[v] = wpc[v]
      /\ Created' = Created /\ Alive' = Alive /\ Parked' = Parked \cup {w}
  BY <1>1, Moves
<1>3. Cardinality(Parked') = Cardinality(Parked) + 1 /\ Cardinality(Parked') =< Cardinality(Workers)
      /\ Cardinality(Workers) \in Nat
  <2>1. w \notin Parked /\ Parked' \subseteq Workers /\ IsFiniteSet(Workers)
    BY <1>1, <1>2, IoPoolAssumption DEF Parked
  <2> QED BY <1>2, <2>1, Finite, FS_AddElement, FS_Subset, FS_CardinalityType
<1>4. Numbers'
  <2>1. Begun' = Begun
    BY <1>1 DEF Begun
  <2> QED BY <1>1, <1>2, <1>3, <2>1, Finite DEF Numbers
<1>5. TypeOK'
  <2>1. idle_threads' \in 0 .. Cardinality(Workers)
    BY <1>1, <1>3, Finite DEF Numbers
  <2> QED BY <1>1, <1>2, <2>1 DEF TypeOK
<1>6. SlotsHeld' /\ Ends' /\ NoStranded'
  BY <1>1, <1>2 DEF SlotsHeld, Ends, NoStranded, Contract, Exists
<1>7. Places' /\ \A l \in Lookups : Owner(l)'
  BY <1>1, <1>2, PlacesKept
<1> QED BY <1>4, <1>5, <1>6, <1>7

LEMMA WorkerUnparkKeeps ==
  ASSUME IInv, NEW w \in Workers, NEW timeout \in BOOLEAN, WorkerUnpark(w, timeout)
  PROVE  IInv'
<1> USE DEF IInv
<1>1. /\ wpc[w] = "parked" /\ wpc' = [wpc EXCEPT ![w] = "top"]
      /\ idle_threads' = idle_threads - 1 /\ work_ready' = work_ready \ {w}
      /\ expired' = [expired EXCEPT ![w] = timeout]
      /\ UNCHANGED <<queue, pending, thread_count, shutdown, threads, wjob,
                     lpc, late, completed, abandoned, frees, exit, joining, intruders>>
  BY DEF WorkerUnpark, lookups, ending
<1>2. /\ wpc' \in [Workers -> {"none", "top", "parked", "resolve", "settle", "gone"}]
      /\ wpc'[w] = "top" /\ \A v \in Workers \ {w} : wpc'[v] = wpc[v]
      /\ Created' = Created /\ Alive' = Alive /\ Parked' = Parked \ {w} /\ w \in Alive
  BY <1>1, Moves
<1>3. /\ Cardinality(Parked') = Cardinality(Parked) - 1 /\ Cardinality(Parked') \in Nat
      /\ Cardinality(Parked) =< Cardinality(Workers) /\ Cardinality(Workers) \in Nat
  <2>1. w \in Parked /\ Parked \subseteq Workers /\ IsFiniteSet(Workers)
    BY <1>1, IoPoolAssumption DEF Parked
  <2>2. IsFiniteSet(Parked')
    BY <1>2, Finite, FS_RemoveElement
  <2> QED BY <1>2, <2>1, <2>2, Finite, FS_RemoveElement, FS_Subset, FS_CardinalityType
<1>4. Numbers'
  <2>1. Begun' = Begun
    BY <1>1 DEF Begun
  <2> QED BY <1>1, <1>2, <1>3, <2>1, Finite DEF Numbers
<1>5. TypeOK'
  <2>1. idle_threads' \in 0 .. Cardinality(Workers)
    BY <1>1, <1>3, Finite DEF Numbers
  <2>2. expired' \in [Workers -> BOOLEAN]
    BY <1>1 DEF TypeOK
  <2> QED BY <1>1, <1>2, <2>1, <2>2 DEF TypeOK
<1>6. SlotsHeld' /\ Ends' /\ NoStranded'
  BY <1>1, <1>2 DEF SlotsHeld, Ends, NoStranded, Contract, Exists
<1>7. Places' /\ \A l \in Lookups : Owner(l)'
  BY <1>1, <1>2, PlacesKept
<1> QED BY <1>4, <1>5, <1>6, <1>7

\* A worker ends, at shutdown or after an idle time: nothing is queued.
LEMMA Leaves ==
  ASSUME IInv, NEW w \in Workers, wpc[w] = "top", wpc' = [wpc EXCEPT ![w] = "gone"],
         thread_count' = thread_count - 1, queue = <<>>, SlotsHeld',
         threads' \in [Slots -> Workers \cup {Nobody}],
         UNCHANGED <<queue, pending, idle_threads, shutdown, work_ready, wjob, expired,
                     lpc, late, completed, abandoned, frees, exit, joining, intruders>>
  PROVE  IInv'
<1> USE DEF IInv
<1>1. /\ wpc' \in [Workers -> {"none", "top", "parked", "resolve", "settle", "gone"}]
      /\ wpc'[w] = "gone" /\ \A v \in Workers \ {w} : wpc'[v] = wpc[v]
      /\ Created' = Created /\ Alive' = Alive \ {w} /\ Parked' = Parked \ {w} /\ w \in Alive
  BY Moves
<1>2. Parked' = Parked
  BY <1>1 DEF Parked
<1>3. Cardinality(Alive') = Cardinality(Alive) - 1
  BY <1>1, Finite, FS_RemoveElement
<1>4. TypeOK'
  <2>1. thread_count' \in Int
    BY DEF TypeOK
  <2> QED BY <1>1, <2>1 DEF TypeOK
<1>5. Numbers'
  <2>1. Begun' = Begun
    BY DEF Begun
  <2>2. thread_count \in Int
    BY DEF TypeOK
  <2>3. thread_count =< Cardinality(Alive) /\ Cardinality(Alive) \in Nat
    BY Finite DEF Numbers
  <2>4. thread_count' =< Cardinality(Alive')
    BY <1>3, <2>2, <2>3
  <2> QED BY <1>1, <1>2, <2>1, <2>4 DEF Numbers
<1>6. Ends' /\ NoStranded'
  BY <1>1 DEF Ends, NoStranded, Contract, Exists
<1>7. Places' /\ \A l \in Lookups : Owner(l)'
  BY <1>1, PlacesKept
<1> QED BY <1>4, <1>5, <1>6, <1>7

LEMMA WorkerStopKeeps == ASSUME IInv, NEW w \in Workers, WorkerStop(w) PROVE IInv'
<1> USE DEF IInv
<1>1. /\ wpc[w] = "top" /\ queue = <<>> /\ shutdown /\ wpc' = [wpc EXCEPT ![w] = "gone"]
      /\ thread_count' = thread_count - 1
      /\ UNCHANGED <<queue, pending, idle_threads, shutdown, threads, work_ready, wjob, expired,
                     lpc, late, completed, abandoned, frees, exit, joining, intruders>>
  BY DEF WorkerStop, Looking, lookups, ending
<1>2. Alive' \subseteq Alive /\ Created' = Created
  BY <1>1, Moves
<1>3. exit # "running"
  BY <1>1 DEF Ends, Contract, Exists
<1>4. SlotsHeld'
  BY <1>1, <1>2, <1>3 DEF SlotsHeld
<1>5. threads' \in [Slots -> Workers \cup {Nobody}]
  BY <1>1 DEF TypeOK
<1> QED BY <1>1, <1>4, <1>5, Leaves

LEMMA WorkerRetireKeeps == ASSUME IInv, NEW w \in Workers, WorkerRetire(w) PROVE IInv'
<1> USE DEF IInv
<1>1. /\ wpc[w] = "top" /\ queue = <<>> /\ ~shutdown /\ wpc' = [wpc EXCEPT ![w] = "gone"]
      /\ thread_count' = thread_count - 1
      /\ threads' = [threads EXCEPT ![RetiredSlot(w)] = Nobody]
      /\ UNCHANGED <<queue, pending, idle_threads, shutdown, work_ready, wjob, expired,
                     lpc, late, completed, abandoned, frees, exit, joining, intruders>>
  BY DEF WorkerRetire, Retire, Looking, lookups, ending
<1>2. w \in Alive /\ Alive' = Alive \ {w} /\ Created' = Created
  BY <1>1, Moves
<1>3. exit = "running"
  BY <1>1 DEF Ends, Contract, Exists
<1>4. PICK s \in Slots : s = RetiredSlot(w) /\ threads[s] = w
  <2> DEFINE S == {r \in Slots : threads[r] = w}
  <2>1. S # {} /\ S \subseteq Nat
    BY <1>2, <1>3, SlotsAre DEF SlotsHeld
  <2> HIDE DEF S
  <2>2. Lowest(S) \in S
    BY <2>1, LowestFacts
  <2> QED BY <2>2 DEF S, RetiredSlot
<1>5. /\ threads' \in [Slots -> Workers \cup {Nobody}]
      /\ threads'[s] = Nobody /\ \A r \in Slots \ {s} : threads'[r] = threads[r]
  BY <1>1, <1>4 DEF TypeOK
<1>6. \A r \in Slots \ {s} : threads[r] # w
  <2>1. w # Nobody
    BY IoPoolAssumption
  <2> QED BY <1>3, <1>4, <2>1 DEF SlotsHeld
<1>7. SlotsHeld'
  <2>1. \A v \in Alive' : \E r \in Slots : threads'[r] = v
    <3> SUFFICES ASSUME NEW v \in Alive' PROVE \E r \in Slots : threads'[r] = v
      OBVIOUS
    <3>1. PICK r \in Slots : threads[r] = v
      BY <1>2, <1>3 DEF SlotsHeld
    <3> QED BY <1>2, <1>4, <1>5, <3>1
  <2>2. \A q, r \in Slots : threads'[q] = threads'[r] /\ threads'[q] # Nobody => q = r
    BY <1>3, <1>5 DEF SlotsHeld
  <2>3. \A r \in Slots : threads'[r] \in Alive' \cup {Nobody}
    BY <1>2, <1>3, <1>5, <1>6 DEF SlotsHeld
  <2>4. \A r \in Slots : threads'[r] \in Created' \cup {Nobody}
    BY <1>2, <1>5 DEF SlotsHeld
  <2> QED BY <2>1, <2>2, <2>3, <2>4 DEF SlotsHeld
<1> QED BY <1>1, <1>5, <1>7, Leaves

LEMMA WorkerTakeKeeps == ASSUME IInv, NEW w \in Workers, WorkerTake(w) PROVE IInv'
<1> USE DEF IInv
<1>1. /\ wpc[w] = "top" /\ queue # <<>> /\ wpc' = [wpc EXCEPT ![w] = "resolve"]
      /\ wjob' = [wjob EXCEPT ![w] = Head(queue)] /\ queue' = Tail(queue)
      /\ expired' = [expired EXCEPT ![w] = FALSE]
      /\ UNCHANGED <<pending, thread_count, idle_threads, shutdown, threads, work_ready,
                     lpc, late, completed, abandoned, frees, exit, joining, intruders>>
  BY DEF WorkerTake, Looking, lookups, ending
<1>2. /\ wpc' \in [Workers -> {"none", "top", "parked", "resolve", "settle", "gone"}]
      /\ wpc'[w] = "resolve" /\ \A v \in Workers \ {w} : wpc'[v] = wpc[v]
      /\ Created' = Created /\ Alive' = Alive /\ Parked' = Parked \ {w} /\ w \in Alive
  BY <1>1, Moves
<1>3. PICK l \in Lookups : l = Head(queue) /\ l \in ToSet(queue)
  BY <1>1, TailFacts DEF TypeOK, Places
<1>4. /\ queue' \in Seq(Lookups) /\ IsInjective(queue') /\ ToSet(queue') = ToSet(queue) \ {l}
  BY <1>1, <1>3, TailFacts DEF TypeOK, Places
<1>5. /\ wjob' \in [Workers -> Lookups \cup {Nobody}] /\ wjob'[w] = l
      /\ \A v \in Workers \ {w} : wjob'[v] = wjob[v]
      /\ expired' \in [Workers -> BOOLEAN]
  BY <1>1, <1>3 DEF TypeOK
<1>6. TypeOK'
  BY <1>1, <1>2, <1>4, <1>5 DEF TypeOK
<1>7. Parked' = Parked /\ Begun' = Begun
  BY <1>1, <1>2 DEF Parked, Begun
<1>8. Numbers' /\ SlotsHeld' /\ Ends'
  BY <1>1, <1>2, <1>7 DEF Numbers, SlotsHeld, Ends, Contract, Exists
<1>9. \A k \in Lookups : Owner(k)'
  BY <1>1 DEF Owner
<1>10. NoStranded'
  <2>1. w \notin work_ready'
    BY <1>1 DEF Numbers, Parked
  <2> QED BY <1>2, <2>1 DEF NoStranded, Contract
<1>11. Places'
  <2>1. l # Nobody /\ lpc[l] # "idle" /\ ~completed[l]
    BY <1>3, IoPoolAssumption DEF Places
  <2>2. \A v \in Workers : wpc[v] = "resolve" => wjob[v] # l
    BY <1>3 DEF Places
  <2>3. \A v \in Workers : wjob'[v] # Nobody <=> wpc'[v] \in {"resolve", "settle"}
    BY <1>2, <1>5, <2>1 DEF Places
  <2>4. \A k \in ToSet(queue') : lpc'[k] # "idle" /\ ~completed'[k]
    BY <1>1, <1>4 DEF Places
  <2>5. ASSUME NEW v \in Workers, wpc'[v] = "resolve"
        PROVE  /\ lpc'[wjob'[v]] # "idle" /\ ~completed'[wjob'[v]] /\ wjob'[v] \notin ToSet(queue')
               /\ \A u \in Workers : wpc'[u] = "resolve" /\ wjob'[u] = wjob'[v] => u = v
    <3>1. CASE v = w
      BY <1>1, <1>2, <1>4, <1>5, <2>1, <2>2, <3>1
    <3>2. CASE v # w
      <4>1. wpc[v] = "resolve" /\ wjob'[v] = wjob[v] /\ wjob[v] # l
        BY <1>2, <1>5, <2>2, <2>5, <3>2
      <4>2. /\ lpc[wjob[v]] # "idle" /\ ~completed[wjob[v]] /\ wjob[v] \notin ToSet(queue)
            /\ \A u \in Workers : wpc[u] = "resolve" /\ wjob[u] = wjob[v] => u = v
        BY <4>1 DEF Places
      <4> QED BY <1>1, <1>2, <1>4, <1>5, <4>1, <4>2
    <3> QED BY <3>1, <3>2
  <2>6. ASSUME NEW k \in Lookups \ intruders', lpc'[k] # "idle", ~completed'[k]
        PROVE  k \in ToSet(queue') \/ \E v \in Workers : wpc'[v] = "resolve" /\ wjob'[v] = k
    <3>1. CASE k = l
      BY <1>2, <1>5, <3>1
    <3>2. CASE k # l
      <4>1. k \in ToSet(queue) \/ \E v \in Workers : wpc[v] = "resolve" /\ wjob[v] = k
        BY <1>1, <2>6 DEF Places
      <4> QED BY <1>1, <1>2, <1>4, <1>5, <3>2, <4>1
    <3> QED BY <3>1, <3>2
  <2> QED BY <1>4, <2>3, <2>4, <2>5, <2>6 DEF Places
<1> QED BY <1>6, <1>8, <1>9, <1>10, <1>11

\* The lookup's job is handed to its caller, or freed if it was given up.
LEMMA WorkerFinishKeeps == ASSUME IInv, NEW w \in Workers, WorkerFinish(w) PROVE IInv'
<1> USE DEF IInv
<1>0. wpc[w] = "resolve" /\ Finish(wjob[w]) /\ wpc' = [wpc EXCEPT ![w] = "settle"]
      /\ UNCHANGED <<queue, pending, thread_count, idle_threads, shutdown, threads, work_ready,
                     wjob, expired, lpc, late, abandoned, exit, joining, intruders>>
  BY DEF WorkerFinish, pool, ending
<1>1. PICK l \in Lookups : /\ l = wjob[w] /\ ~completed[l] /\ l \notin ToSet(queue)
                           /\ lpc[l] # "idle"
                           /\ \A v \in Workers : wpc[v] = "resolve" /\ wjob[v] = l => v = w
  BY <1>0 DEF Places, TypeOK
<1>2. /\ wpc' \in [Workers -> {"none", "top", "parked", "resolve", "settle", "gone"}]
      /\ wpc'[w] = "settle" /\ \A v \in Workers \ {w} : wpc'[v] = wpc[v]
      /\ Created' = Created /\ Alive' = Alive /\ Parked' = Parked \ {w}
  BY <1>0, Moves
<1>3. /\ completed' = [completed EXCEPT ![l] = TRUE]
      /\ frees' = IF abandoned[l] THEN [frees EXCEPT ![l] = @ + 1] ELSE frees
  BY <1>0, <1>1 DEF Finish
<1>4. /\ completed' \in [Lookups -> BOOLEAN] /\ frees' \in [Lookups -> Nat]
      /\ completed'[l] /\ \A k \in Lookups \ {l} : completed'[k] = completed[k]
      /\ \A k \in Lookups \ {l} : frees'[k] = frees[k]
      /\ frees'[l] = IF abandoned[l] THEN frees[l] + 1 ELSE frees[l]
      /\ frees[l] \in Nat
  BY <1>3 DEF TypeOK
<1>5. TypeOK'
  BY <1>0, <1>2, <1>4 DEF TypeOK
<1>6. Parked' = Parked /\ Begun' = Begun
  BY <1>0, <1>2 DEF Parked, Begun
<1>7. Numbers' /\ SlotsHeld' /\ Ends' /\ NoStranded'
  BY <1>0, <1>2, <1>6 DEF Numbers, SlotsHeld, Ends, NoStranded, Contract, Exists
<1>8. ASSUME NEW k \in Lookups PROVE Owner(k)'
  <2>1. CASE k # l
    BY <1>0, <1>4, <2>1 DEF Owner
  <2>2. CASE k = l
    <3>1. frees[l] = 0 /\ Owner(l)
      BY <1>1, <1>4 DEF Owner
    <3> QED BY <1>0, <1>1, <1>4, <2>2, <3>1 DEF Owner
  <2> QED BY <2>1, <2>2
<1>9. Places'
  <2>1. \A v \in Workers : wjob'[v] # Nobody <=> wpc'[v] \in {"resolve", "settle"}
    BY <1>0, <1>2 DEF Places
  <2>a. \A k \in ToSet(queue) : k \in Lookups
    BY LenProperties, ElementOfSeq DEF TypeOK, ToSet
  <2>2. IsInjective(queue') /\ \A k \in ToSet(queue') : lpc'[k] # "idle" /\ ~completed'[k]
    BY <1>0, <1>1, <1>4, <2>a DEF Places
  <2>3. ASSUME NEW v \in Workers, wpc'[v] = "resolve"
        PROVE  /\ lpc'[wjob'[v]] # "idle" /\ ~completed'[wjob'[v]] /\ wjob'[v] \notin ToSet(queue')
               /\ \A u \in Workers : wpc'[u] = "resolve" /\ wjob'[u] = wjob'[v] => u = v
    <3>1. v # w /\ wpc[v] = "resolve"
      BY <1>2, <2>3
    <3>2. wjob[v] \in Lookups /\ wjob[v] # l
      BY <1>1, <3>1 DEF Places, TypeOK
    <3>3. /\ lpc[wjob[v]] # "idle" /\ ~completed[wjob[v]] /\ wjob[v] \notin ToSet(queue)
          /\ \A u \in Workers : wpc[u] = "resolve" /\ wjob[u] = wjob[v] => u = v
      BY <3>1 DEF Places
    <3> QED BY <1>0, <1>2, <1>4, <3>1, <3>2, <3>3
  <2>4. ASSUME NEW k \in Lookups \ intruders', lpc'[k] # "idle", ~completed'[k]
        PROVE  k \in ToSet(queue') \/ \E v \in Workers : wpc'[v] = "resolve" /\ wjob'[v] = k
    <3>1. k # l /\ k \notin intruders /\ lpc[k] # "idle" /\ ~completed[k]
      BY <1>0, <1>4, <2>4
    <3>2. k \in ToSet(queue) \/ \E v \in Workers : wpc[v] = "resolve" /\ wjob[v] = k
      BY <3>1 DEF Places
    <3> QED BY <1>0, <1>1, <1>2, <3>1, <3>2
  <2> QED BY <2>1, <2>2, <2>3, <2>4 DEF Places
<1> QED BY <1>5, <1>7, <1>8, <1>9

LEMMA WorkerSettleKeeps == ASSUME IInv, NEW w \in Workers, WorkerSettle(w) PROVE IInv'
<1> USE DEF IInv
<1>1. /\ wpc[w] = "settle" /\ pending' = pending - 1 /\ wpc' = [wpc EXCEPT ![w] = "top"]
      /\ wjob' = [wjob EXCEPT ![w] = Nobody]
      /\ UNCHANGED <<queue, thread_count, idle_threads, shutdown, threads, work_ready,
                     expired, lpc, late, completed, abandoned, frees, exit, joining,
                     intruders>>
  BY DEF WorkerSettle, lookups, ending
<1>2. /\ wpc' \in [Workers -> {"none", "top", "parked", "resolve", "settle", "gone"}]
      /\ wpc'[w] = "top" /\ \A v \in Workers \ {w} : wpc'[v] = wpc[v]
      /\ Created' = Created /\ Alive' = Alive /\ Parked' = Parked \ {w}
  BY <1>1, Moves
<1>3. /\ wjob' \in [Workers -> Lookups \cup {Nobody}] /\ wjob'[w] = Nobody
      /\ \A v \in Workers \ {w} : wjob'[v] = wjob[v]
  BY <1>1 DEF TypeOK
<1>4. TypeOK'
  <2>1. pending' \in Int
    BY <1>1 DEF TypeOK
  <2> QED BY <1>1, <1>2, <1>3, <2>1 DEF TypeOK
<1>5. Parked' = Parked /\ Begun' = Begun
  BY <1>1, <1>2 DEF Parked, Begun
<1>6. Numbers' /\ SlotsHeld' /\ Ends' /\ NoStranded'
  BY <1>1, <1>2, <1>5 DEF Numbers, SlotsHeld, Ends, NoStranded, Contract, Exists
<1>7. \A k \in Lookups : Owner(k)'
  BY <1>1 DEF Owner
<1>8. \A v \in Workers : /\ wpc'[v] = "resolve" <=> wpc[v] = "resolve"
                         /\ wpc[v] = "resolve" => wjob'[v] = wjob[v]
                         /\ wjob'[v] # Nobody <=> wpc'[v] \in {"resolve", "settle"}
  BY <1>1, <1>2, <1>3 DEF Places
<1>9. Places'
  BY <1>1, <1>8 DEF Places
<1> QED BY <1>4, <1>6, <1>7, <1>9

-----------------------------------------------------------------------------
(* Iron_pool_destroy. *)

LEMMA DestroyBeginKeeps == ASSUME IInv, DestroyBegin PROVE IInv'
<1> USE DEF IInv
<1>1. /\ exit = "running"
      /\ shutdown' = TRUE /\ work_ready' = {} /\ exit' = "stopping"
      /\ UNCHANGED <<queue, pending, thread_count, idle_threads, threads, wpc, wjob, expired,
                     lpc, late, completed, abandoned, frees, joining, intruders>>
  BY DEF DestroyBegin, workers, lookups
<1>2. Parked' = Parked /\ Created' = Created /\ Alive' = Alive /\ Begun' = Begun
  BY <1>1 DEF Parked, Created, Alive, Begun
<1>3. TypeOK'
  BY <1>1 DEF TypeOK
<1>4. Numbers' /\ SlotsHeld' /\ Ends' /\ NoStranded'
  BY <1>1, <1>2 DEF Numbers, SlotsHeld, Ends, NoStranded, Contract, Exists
<1>5. Places' /\ \A k \in Lookups : Owner(k)'
  BY <1>1 DEF Places, Owner
<1> QED BY <1>3, <1>4, <1>5

\* Every live worker is in the snapshot.
LEMMA DestroySnapshotKeeps == ASSUME IInv, DestroySnapshot PROVE IInv'
<1> USE DEF IInv
<1>1. /\ exit = "stopping" /\ joining' = {threads[s] : s \in Slots} \ {Nobody}
      /\ threads' = [s \in Slots |-> Nobody] /\ exit' = "joining"
      /\ UNCHANGED <<queue, pending, thread_count, idle_threads, shutdown, work_ready,
                     wpc, wjob, expired, lpc, late, completed, abandoned, frees,
                     intruders>>
  BY DEF DestroySnapshot, workers, lookups
<1>2. Parked' = Parked /\ Created' = Created /\ Alive' = Alive /\ Begun' = Begun
  BY <1>1 DEF Parked, Created, Alive, Begun
<1>3. TypeOK'
  <2>1. joining' \in SUBSET Workers /\ threads' \in [Slots -> Workers \cup {Nobody}]
    BY <1>1 DEF TypeOK
  <2> QED BY <1>1, <2>1 DEF TypeOK
<1>4. Ends'
  <2>1. \A w \in Alive : w \in Workers /\ w # Nobody /\ \E s \in Slots : threads[s] = w
    BY <1>1, IoPoolAssumption DEF SlotsHeld, Alive
  <2> QED BY <1>1, <1>2, <2>1 DEF Ends, Contract, Exists
<1>5. Numbers' /\ SlotsHeld' /\ NoStranded'
  BY <1>1, <1>2 DEF Numbers, SlotsHeld, NoStranded, Contract
<1>6. Places' /\ \A k \in Lookups : Owner(k)'
  BY <1>1 DEF Places, Owner
<1> QED BY <1>3, <1>4, <1>5, <1>6

LEMMA DestroyFreeKeeps == ASSUME IInv, DestroyFree PROVE IInv'
<1> USE DEF IInv
<1>1. /\ exit = "joining" /\ exit' = "freed" /\ \A w \in joining : wpc[w] = "gone"
      /\ UNCHANGED <<queue, pending, thread_count, idle_threads, shutdown, threads, work_ready,
                     wpc, wjob, expired, lpc, late, completed, abandoned, frees, joining,
                     intruders>>
  BY DEF DestroyFree, Joined, pool, workers, lookups
<1>2. Parked' = Parked /\ Created' = Created /\ Alive' = Alive /\ Begun' = Begun
  BY <1>1 DEF Parked, Created, Alive, Begun
<1>3. Contract => Alive = {}
  BY <1>1 DEF Ends, Alive, Contract, Exists
<1>4. TypeOK'
  BY <1>1 DEF TypeOK
<1>5. Numbers' /\ SlotsHeld' /\ Ends' /\ NoStranded'
  BY <1>1, <1>2, <1>3 DEF Numbers, SlotsHeld, Ends, NoStranded, Contract, Exists
<1>6. Places' /\ \A k \in Lookups : Owner(k)'
  BY <1>1 DEF Places, Owner
<1> QED BY <1>4, <1>5, <1>6

LEMMA DestroyDoneKeeps == ASSUME IInv, DestroyDone PROVE IInv'
<1> USE DEF IInv
<1>1. /\ exit = "freed" /\ exit' = "gone"
      /\ UNCHANGED <<queue, pending, thread_count, idle_threads, shutdown, threads, work_ready,
                     wpc, wjob, expired, lpc, late, completed, abandoned, frees, joining,
                     intruders>>
  BY DEF DestroyDone, pool, workers, lookups
<1>2. Parked' = Parked /\ Created' = Created /\ Alive' = Alive /\ Begun' = Begun
  BY <1>1 DEF Parked, Created, Alive, Begun
<1>3. TypeOK'
  BY <1>1 DEF TypeOK
<1>4. Numbers' /\ SlotsHeld' /\ Ends' /\ NoStranded'
  BY <1>1, <1>2 DEF Numbers, SlotsHeld, Ends, NoStranded, Contract, Exists
<1>5. Places' /\ \A k \in Lookups : Owner(k)'
  BY <1>1 DEF Places, Owner
<1> QED BY <1>3, <1>4, <1>5

LEMMA StutterKeeps == ASSUME IInv, UNCHANGED vars PROVE IInv'
<1> USE DEF IInv
<1>1. UNCHANGED <<queue, pending, thread_count, idle_threads, shutdown, threads, work_ready,
                  wpc, wjob, expired, lpc, late, completed, abandoned, frees, exit, joining,
                  intruders>>
  BY DEF vars, pool, workers, lookups, ending
<1>2. Parked' = Parked /\ Created' = Created /\ Alive' = Alive /\ Begun' = Begun
  BY <1>1 DEF Parked, Created, Alive, Begun
<1>3. TypeOK'
  BY <1>1 DEF TypeOK
<1>4. Numbers' /\ SlotsHeld' /\ Ends' /\ NoStranded'
  BY <1>1, <1>2 DEF Numbers, SlotsHeld, Ends, NoStranded, Contract, Exists
<1>5. Places' /\ \A k \in Lookups : Owner(k)'
  BY <1>1 DEF Places, Owner
<1> QED BY <1>3, <1>4, <1>5

-----------------------------------------------------------------------------
(* Iron_pool_submit: a lookup is queued, and perhaps a worker created.     *)

\* The books of the lookups, wherever the workers without one are.
LEMMA SubmitBooks ==
  ASSUME IInv, NEW l \in Lookups, lpc[l] = "idle", lpc' = [lpc EXCEPT ![l] = "wait"],
         queue' = Append(queue, l),
         \A v \in Workers : \/ wpc'[v] = wpc[v]
                            \/ wpc[v] = "none" /\ wpc'[v] = "top",
         intruders \subseteq intruders', UNCHANGED <<wjob, completed, abandoned, frees>>
  PROVE  /\ lpc' \in [Lookups -> {"idle", "wait", "parked", "done", "leak", "returned", "astray"}]
         /\ queue' \in Seq(Lookups)
         /\ Places' /\ \A k \in Lookups : Owner(k)'
         /\ Cardinality(Begun') = Cardinality(Begun) + 1
         /\ Cardinality(Begun) < Cardinality(Lookups) /\ Cardinality(Lookups) \in Nat
<1> USE DEF IInv
<1>1. /\ lpc' \in [Lookups -> {"idle", "wait", "parked", "done", "leak", "returned", "astray"}]
      /\ lpc'[l] = "wait" /\ \A k \in Lookups \ {l} : lpc'[k] = lpc[k]
  BY DEF TypeOK
<1>2. ~completed[l] /\ l \notin ToSet(queue)
  BY DEF Owner, Places
<1>3. /\ queue' \in Seq(Lookups) /\ ToSet(queue') = ToSet(queue) \cup {l} /\ IsInjective(queue')
  BY <1>2, AppendFacts DEF TypeOK, Places
<1>4. \A v \in Workers : wpc[v] = "resolve" => wjob[v] \in Lookups /\ wjob[v] # l
  BY DEF Places, TypeOK
<1>5. \A v \in Workers : /\ wpc'[v] = "resolve" <=> wpc[v] = "resolve"
                         /\ wpc'[v] = "settle" <=> wpc[v] = "settle"
  OBVIOUS
<1>6. Places'
  <2>1. \A v \in Workers : wjob'[v] # Nobody <=> wpc'[v] \in {"resolve", "settle"}
    BY <1>5 DEF Places
  <2>a. \A k \in ToSet(queue) : k \in Lookups
    BY LenProperties, ElementOfSeq DEF TypeOK, ToSet
  <2>2. \A k \in ToSet(queue') : lpc'[k] # "idle" /\ ~completed'[k]
    BY <1>1, <1>2, <1>3, <2>a DEF Places
  <2>3. ASSUME NEW v \in Workers, wpc'[v] = "resolve"
        PROVE  /\ lpc'[wjob'[v]] # "idle" /\ ~completed'[wjob'[v]] /\ wjob'[v] \notin ToSet(queue')
               /\ \A u \in Workers : wpc'[u] = "resolve" /\ wjob'[u] = wjob'[v] => u = v
    <3>1. wpc[v] = "resolve" /\ wjob[v] \in Lookups /\ wjob[v] # l
      BY <1>4, <1>5, <2>3
    <3>2. /\ lpc[wjob[v]] # "idle" /\ ~completed[wjob[v]] /\ wjob[v] \notin ToSet(queue)
          /\ \A u \in Workers : wpc[u] = "resolve" /\ wjob[u] = wjob[v] => u = v
      BY <3>1 DEF Places
    <3> QED BY <1>1, <1>3, <1>5, <3>1, <3>2
  <2>4. ASSUME NEW k \in Lookups \ intruders', lpc'[k] # "idle", ~completed'[k]
        PROVE  k \in ToSet(queue') \/ \E v \in Workers : wpc'[v] = "resolve" /\ wjob'[v] = k
    <3>1. CASE k = l
      BY <1>3, <3>1
    <3>2. CASE k # l
      <4>1. k \in ToSet(queue) \/ \E v \in Workers : wpc[v] = "resolve" /\ wjob[v] = k
        BY <1>1, <2>4, <3>2 DEF Places
      <4> QED BY <1>3, <1>5, <4>1
    <3> QED BY <3>1, <3>2
  <2> QED BY <1>3, <2>1, <2>2, <2>3, <2>4 DEF Places
<1>7. \A k \in Lookups : Owner(k)'
  BY <1>1 DEF Owner
<1>8. Begun' = Begun \cup {l} /\ l \notin Begun /\ Begun' \subseteq Lookups
  BY <1>1 DEF Begun
<1>9. Cardinality(Begun') = Cardinality(Begun) + 1
  BY <1>8, Finite, FS_AddElement
<1>10. Cardinality(Begun') =< Cardinality(Lookups) /\ Cardinality(Lookups) \in Nat
  BY <1>8, IoPoolAssumption, FS_Subset, FS_CardinalityType
<1>11. Cardinality(Begun) < Cardinality(Lookups)
  BY <1>9, <1>10, Finite
<1> QED BY <1>1, <1>3, <1>6, <1>7, <1>9, <1>10, <1>11

\* There is a thread left to create.
LEMMA FreshWorker ==
  ASSUME IInv, Cardinality(Begun) < Cardinality(Lookups)
  PROVE  \E v \in Workers : wpc[v] = "none"
<1> SUFFICES ASSUME \A v \in Workers : wpc[v] # "none" PROVE FALSE
  OBVIOUS
<1>1. Created = Workers
  BY DEF Created
<1>2. /\ Cardinality(Created) =< Cardinality(Begun)
      /\ Cardinality(Lookups) =< Cardinality(Workers)
      /\ Cardinality(Lookups) \in Nat /\ Cardinality(Workers) \in Nat
  BY IoPoolAssumption, FS_CardinalityType DEF IInv, Numbers
<1> QED BY <1>1, <1>2, Finite

LEMMA LookupSubmitKeeps == ASSUME IInv, NEW l \in Lookups, LookupSubmit(l) PROVE IInv'
<1> USE DEF IInv
<1>1. /\ lpc[l] = "idle" /\ Exists /\ lpc' = [lpc EXCEPT ![l] = "wait"]
      /\ queue' = Append(queue, l) /\ pending' = pending + 1
      /\ work_ready' \in Signal(work_ready) /\ Grow
      /\ UNCHANGED <<idle_threads, shutdown, wjob, expired, late, completed, abandoned,
                     frees, exit, joining>>
      /\ intruders' = IF exit = "running" THEN intruders ELSE intruders \cup {l}
  BY DEF LookupSubmit, Enter
<1>a. /\ intruders \subseteq intruders' /\ intruders' \in SUBSET Lookups
      /\ exit = "running" <=> Contract'
  BY <1>1 DEF TypeOK, Ends, Contract, Exists
<1>2. \/ work_ready = {} /\ work_ready' = {}
      \/ \E u \in work_ready : work_ready' = work_ready \ {u}
  BY <1>1 DEF Signal
<1>3. pending' \in Int /\ work_ready' \in SUBSET Workers /\ thread_count \in Int
  BY <1>1, <1>2 DEF TypeOK
<1>4. CASE UNCHANGED <<threads, thread_count, wpc>> /\ ~(WantsWorker /\ FreeSlots # {})
  <2>1. Parked' = Parked /\ Created' = Created /\ Alive' = Alive
    BY <1>4 DEF Parked, Created, Alive
  <2>2. /\ lpc' \in [Lookups -> {"idle", "wait", "parked", "done", "leak", "returned", "astray"}]
        /\ queue' \in Seq(Lookups) /\ Places' /\ \A k \in Lookups : Owner(k)'
        /\ Cardinality(Begun') = Cardinality(Begun) + 1
    BY <1>1, <1>a, <1>4, SubmitBooks
  <2>3. TypeOK'
    BY <1>1, <1>a, <1>3, <1>4, <2>2 DEF TypeOK
  <2>4. Numbers'
    <3>1. Cardinality(Created') =< Cardinality(Begun')
      BY <2>1, <2>2, Finite DEF Numbers
    <3> QED BY <1>1, <1>2, <1>4, <2>1, <3>1 DEF Numbers
  <2>5. SlotsHeld' /\ Ends'
    BY <1>1, <1>a, <1>4, <2>1 DEF SlotsHeld, Ends, Contract, Exists
  <2>6. NoStranded'
    <3> SUFFICES ASSUME exit = "running" PROVE \E v \in Alive' : v \notin work_ready'
      BY <1>a DEF NoStranded
    <3>1. Parked \subseteq Alive
      BY DEF Parked, Alive
    <3>2. CASE Parked # {}
      <4>1. \E u \in Parked : u \notin work_ready'
        BY <1>2, <3>2 DEF Numbers
      <4> QED BY <2>1, <3>1, <4>1 DEF NoStranded, Contract
    <3>3. CASE Parked = {}
      <4>1. idle_threads = 0 /\ work_ready' = {}
        BY <1>2, <3>3, FS_EmptySet DEF Numbers
      <4>2. Alive # {}
        <5>1. CASE FreeSlots = {}
          <6>1. threads[1] # Nobody
            BY <5>1, SlotsAre DEF FreeSlots
          <6> QED BY <1>1, <6>1, SlotsAre DEF SlotsHeld
        <5>2. CASE ~(thread_count < max_threads)
          <6>1. thread_count > 0 /\ thread_count =< Cardinality(Alive)
            BY <1>3, <5>2, IoPoolAssumption DEF Numbers
          <6> QED BY <1>3, <6>1, FS_EmptySet
        <5> QED BY <1>4, <4>1, <5>1, <5>2 DEF WantsWorker
      <4> QED BY <2>1, <4>1, <4>2 DEF NoStranded, Contract
    <3> QED BY <3>2, <3>3
  <2> QED BY <2>2, <2>3, <2>4, <2>5, <2>6
<1>5. CASE WantsWorker /\ FreeSlots # {}
  <2>1. PICK w \in Workers : /\ wpc[w] = "none" /\ wpc' = [wpc EXCEPT ![w] = "top"]
                             /\ threads' = [threads EXCEPT ![Lowest(FreeSlots)] = w]
                             /\ thread_count' = thread_count + 1
    <3>1. Cardinality(Begun) < Cardinality(Lookups)
      <4>1. l \notin Begun /\ Begun \cup {l} \subseteq Lookups
        BY <1>1 DEF Begun
      <4>2. Cardinality(Begun \cup {l}) = Cardinality(Begun) + 1
        BY <4>1, Finite, FS_AddElement
      <4>3. Cardinality(Begun \cup {l}) =< Cardinality(Lookups) /\ Cardinality(Lookups) \in Nat
        BY <4>1, IoPoolAssumption, FS_Subset, FS_CardinalityType
      <4> QED BY <4>2, <4>3, Finite
    <3>2. \E v \in Workers : wpc[v] = "none"
      BY <3>1, FreshWorker
    <3>3. PICK w : w = CHOOSE v \in Workers : wpc[v] = "none"
      OBVIOUS
    <3>4. w \in Workers /\ wpc[w] = "none"
      BY <3>2, <3>3
    <3>5. /\ wpc' = [wpc EXCEPT ![w] = "top"] /\ thread_count' = thread_count + 1
          /\ threads' = [threads EXCEPT ![Lowest(FreeSlots)] = w]
      BY <1>1, <1>5, <3>3 DEF Grow, Spawn
    <3> QED BY <3>4, <3>5
  <2>2. PICK s \in Slots : s = Lowest(FreeSlots) /\ threads[s] = Nobody
    <3>1. FreeSlots \subseteq Nat
      BY SlotsAre DEF FreeSlots
    <3>2. Lowest(FreeSlots) \in FreeSlots
      BY <1>5, <3>1, LowestFacts
    <3> QED BY <3>2 DEF FreeSlots
  <2>3. /\ wpc' \in [Workers -> {"none", "top", "parked", "resolve", "settle", "gone"}]
        /\ wpc'[w] = "top" /\ \A v \in Workers \ {w} : wpc'[v] = wpc[v]
    BY <2>1 DEF TypeOK
  <2>4. /\ threads' \in [Slots -> Workers \cup {Nobody}]
        /\ threads'[s] = w /\ \A r \in Slots \ {s} : threads'[r] = threads[r]
    BY <2>1, <2>2 DEF TypeOK
  <2>5. /\ Parked' = Parked /\ Created' = Created \cup {w} /\ w \notin Created
        /\ Alive' = Alive \cup {w} /\ w \notin Alive
    BY <2>1, <2>3 DEF Parked, Created, Alive
  <2>6. /\ Cardinality(Created') = Cardinality(Created) + 1
        /\ Cardinality(Alive') = Cardinality(Alive) + 1
    BY <2>5, Finite, FS_AddElement
  <2>7. /\ lpc' \in [Lookups -> {"idle", "wait", "parked", "done", "leak", "returned", "astray"}]
        /\ queue' \in Seq(Lookups) /\ Places' /\ \A k \in Lookups : Owner(k)'
        /\ Cardinality(Begun') = Cardinality(Begun) + 1
    BY <1>1, <1>a, <2>1, <2>3, SubmitBooks
  <2>8. TypeOK'
    <3>1. thread_count' \in Int
      BY <1>3, <2>1
    <3> QED BY <1>1, <1>a, <1>3, <2>3, <2>4, <2>7, <3>1 DEF TypeOK
  <2>9. Numbers'
    <3>1. Cardinality(Created') =< Cardinality(Begun')
      BY <2>6, <2>7, Finite DEF Numbers
    <3>2. thread_count' =< Cardinality(Alive')
      BY <1>3, <2>1, <2>6, Finite DEF Numbers
    <3> QED BY <1>1, <1>2, <2>5, <3>1, <3>2 DEF Numbers
  <2>10. SlotsHeld'
    <3>1. w # Nobody /\ \A r \in Slots : threads[r] # w
      BY <2>5, IoPoolAssumption DEF SlotsHeld
    <3>2. ASSUME exit \in {"running", "stopping"}, NEW v \in Alive'
          PROVE  \E r \in Slots : threads'[r] = v
      <4> SUFFICES ASSUME v # w PROVE \E r \in Slots : threads'[r] = v
        BY <2>4
      <4>1. v \in Alive /\ v # Nobody
        BY <2>5, IoPoolAssumption DEF Alive
      <4>2. PICK r \in Slots : threads[r] = v
        BY <3>2, <4>1 DEF SlotsHeld
      <4> QED BY <2>2, <2>4, <4>1, <4>2
    <3>3. exit \in {"running", "stopping"} =>
            \A q, r \in Slots : threads'[q] = threads'[r] /\ threads'[q] # Nobody => q = r
      BY <2>4, <3>1 DEF SlotsHeld
    <3>4. exit = "running" => \A r \in Slots : threads'[r] \in Alive' \cup {Nobody}
      BY <2>4, <2>5 DEF SlotsHeld
    <3>5. \A r \in Slots : threads'[r] \in Created' \cup {Nobody}
      BY <2>4, <2>5 DEF SlotsHeld
    <3> QED BY <1>1, <3>2, <3>3, <3>4, <3>5 DEF SlotsHeld
  <2>11. Ends'
    BY <1>1, <1>a DEF Ends, Contract, Exists
  <2>12. NoStranded'
    <3>1. w \notin work_ready'
      BY <1>2, <2>1 DEF Numbers, Parked
    <3> QED BY <2>5, <3>1 DEF NoStranded, Contract
  <2> QED BY <2>7, <2>8, <2>9, <2>10, <2>11, <2>12
<1> QED BY <1>1, <1>4, <1>5 DEF Grow, Spawn

-----------------------------------------------------------------------------
LEMMA Inductive == IInv /\ [Next]_vars => IInv'
<1> SUFFICES ASSUME IInv, [Next]_vars PROVE IInv'
  OBVIOUS
<1>1. ASSUME NEW l \in Lookups,
             \/ LookupSubmit(l) \/ LookupSubmitNull(l) \/ LookupAstray(l)
             \/ Deadline(l) \/ LookupStep(l)
      PROVE  IInv'
  BY <1>1, LookupSubmitKeeps, LookupSubmitNullKeeps, LookupAstrayKeeps, DeadlineKeeps,
     LookupStepKeeps
<1>2. ASSUME NEW w \in Workers, WorkerStep(w) PROVE IInv'
  BY <1>2, WorkerParkKeeps, WorkerStopKeeps, WorkerRetireKeeps, WorkerTakeKeeps,
     WorkerSettleKeeps DEF WorkerStep
<1>3. ASSUME NEW w \in Workers, WorkerFinish(w) PROVE IInv'
  BY <1>3, WorkerFinishKeeps
<1>4. ASSUME NEW w \in Workers, NEW timeout \in BOOLEAN, WorkerUnpark(w, timeout) PROVE IInv'
  BY <1>4, WorkerUnparkKeeps
<1>5. ASSUME DestroyBegin \/ DestroyStep PROVE IInv'
  BY <1>5, DestroyBeginKeeps, DestroySnapshotKeeps, DestroyFreeKeeps, DestroyDoneKeeps
     DEF DestroyStep
<1>6. ASSUME UNCHANGED vars PROVE IInv'
  BY <1>6, StutterKeeps
<1> QED BY <1>1, <1>2, <1>3, <1>4, <1>5, <1>6 DEF Next

LEMMA Invariant == Spec => []IInv
BY InitHolds, Inductive, PTL DEF Spec

LEMMA OwnersFollow == IInv => OwnersExact
<1> SUFFICES ASSUME IInv PROVE OwnersExact
  OBVIOUS
<1> USE DEF IInv
<1>1. JobSafety
  <2> SUFFICES ASSUME NEW l \in Lookups
               PROVE  /\ frees[l] =< 1
                      /\ frees[l] = 1 =>
                           /\ lpc[l] \in {"leak", "returned", "astray"}
                           /\ l \notin ToSet(queue)
                           /\ \A w \in Workers : wjob[w] = l => wpc[w] = "settle"
    BY DEF JobSafety
  <2>1. Owner(l) /\ l # Nobody
    BY IoPoolAssumption
  <2>2. completed[l] => /\ l \notin ToSet(queue)
                        /\ \A w \in Workers : wjob[w] = l => wpc[w] = "settle"
    BY <2>1 DEF Places
  <2> QED BY <2>1, <2>2 DEF Owner
<1>2. SlotsExact
  <2>1. ASSUME exit \in {"running", "stopping"}, NEW w \in Alive
        PROVE  Cardinality({s \in Slots : threads[s] = w}) = 1
    <3>1. PICK r \in Slots : threads[r] = w
      BY <2>1 DEF SlotsHeld
    <3>2. w # Nobody
      BY IoPoolAssumption DEF Alive
    <3>3. {s \in Slots : threads[s] = w} = {r}
      BY <2>1, <3>1, <3>2 DEF SlotsHeld
    <3> QED BY <3>3, FS_Singleton
  <2> QED BY <2>1 DEF SlotsExact, SlotsHeld
<1>3. Drained
  <2> SUFFICES ASSUME ~Exists, Contract
               PROVE  /\ Alive = {} /\ queue = <<>>
                      /\ \A l \in Lookups : lpc[l] # "idle" => completed[l]
    BY DEF Drained
  <2>1. Alive = {} /\ queue = <<>>
    BY DEF Ends, NoStranded
  <2>2. ToSet(queue) = {}
    <3>1. 1 .. 0 = {}
      OBVIOUS
    <3> QED BY <2>1, <3>1, EmptySeq, LenProperties DEF ToSet
  <2>3. \A w \in Workers : wpc[w] # "resolve"
    BY <2>1 DEF Alive
  <2> QED BY <2>1, <2>2, <2>3 DEF Places, Contract
<1> QED BY <1>1, <1>2, <1>3 DEF OwnersExact

\* A lookup's job is freed at most once and never under the caller or the
\* worker, every live worker has the slot by which Iron_pool_destroy joins it,
\* and, unless lookups are submitted during destroy, the pool is freed after its
\* workers and with every lookup run: however deadlines, retirements and the end
\* of main fall, and with callers still inside a lookup.
THEOREM OwnersAreExact == Spec => []OwnersExact
BY Invariant, OwnersFollow, PTL

\* A queued lookup always has a worker that is awake, even when the submit
\* counted on a parked worker whose wait was just timing out, and although
\* leaked workers are no longer in thread_count; during destroy for as long as
\* nobody submits.
THEOREM NobodyIsStranded == Spec => []NoStranded
<1>1. IInv => NoStranded
  BY DEF IInv
<1> QED BY <1>1, Invariant, PTL

===============================================================================
