---- MODULE EmittedCodeProofs ----
(***************************************************************************)
(* Proofs about what emitted C relies on.                                  *)
(*                                                                         *)
(* IronRc, for any finite set of handles and any generations: the counts   *)
(* are exact, the object is dropped and its block freed once and in time,  *)
(* pointers into it die with it, and an upgrade fails only when the object *)
(* is gone.                                                                *)
(*                                                                         *)
(* LocalRanges, for any number of blocks, any graph and any width of an    *)
(* Int: the computed dominators are the dominators, and a counter that is  *)
(* declared with a narrower type stays in the range that was proved.       *)
(***************************************************************************)
EXTENDS IronRc, LocalRanges, FiniteSetTheorems, WellFoundedInduction, TLAPS

(***************************************************************************)
(* Reference counts.                                                       *)
(***************************************************************************)

\* How far the teardown is: the drop function has run exactly when the last
\* release is past it.
DropsExact ==
    /\ \A h \in Handles : pc[h] = "drop" => drops = 0
    /\ \A h \in Dying : pc[h] # "drop" => drops = 1
    /\ Strong \cup Dying = {} => drops = 1

\* The generations in play: a fresh one is live, nobody else's and not the
\* object's, and the object's own is live until it is ended.
GensExact ==
    /\ \A h \in Handles : fresh[h] # NoGen <=> pc[h] = "install"
    /\ \A h \in Handles : pc[h] = "install" => fresh[h] \in live /\ fresh[h] # gen
    /\ \A h, k \in Handles : pc[h] = "install" /\ fresh[h] = fresh[k] => h = k
    /\ gen # NoGen => gen \in live \cup ended
    /\ gen # NoGen /\ Strong # {} => gen \in live

\* An upgrade that read a count of zero stays right about it.
ZeroIsFinal == \A h \in Handles : pc[h] = "upgrade" /\ s[h] = 0 => refcount = 0

IInv == ObjectSafe /\ DropsExact /\ GensExact /\ ZeroIsFinal

\* The handles are finitely many, so the strong and the weak ones can be counted.
LEMMA HandlesFinite ==
    /\ IsFiniteSet(Strong) /\ Cardinality(Strong) \in Nat
    /\ IsFiniteSet(Weak) /\ Cardinality(Weak) \in Nat
BY RcAssumption, FS_Subset, FS_CardinalityType DEF Strong, Weak

\* A new object with its first handle.
LEMMA InitIInv == Init => IInv
<1> SUFFICES ASSUME Init PROVE IInv
  OBVIOUS
<1> USE RcAssumption DEF Init, Table!Init
<1>1. Strong = {First} /\ Weak = {} /\ Dying = {} /\ Freeing = {}
  BY DEF Strong, Weak, Dying, Freeing, InPtrCall
<1>2. TypeOK
  BY DEF TypeOK, Labels
<1>3. Counts
  <2>1. Cardinality({First}) = 1 /\ Cardinality({}) = 0
    BY FS_Singleton, FS_EmptySet
  <2> QED BY <1>1, <2>1 DEF Counts
<1>4. Lifetime /\ DropsExact
  BY <1>1 DEF Lifetime, DropsExact
<1>5. PointersSafe /\ GensExact /\ ZeroIsFinal
  BY <1>1 DEF PointersSafe, GensExact, ZeroIsFinal
<1> QED BY <1>2, <1>3, <1>4, <1>5 DEF IInv, ObjectSafe

\* Every call keeps the types; neither count is taken below zero.
LEMMA StepTypeOK ==
    ASSUME IInv, NEW h \in Handles, HandleNext(h)
    PROVE  TypeOK'
<1> USE RcAssumption, HandlesFinite
<1> USE DEF IInv, ObjectSafe, TypeOK, Goto, table, Labels
<1>1. ASSUME NEW n \in Handles, Retain(h, n) \/ WeakHandle(h, n) \/ Upgrade(h, n)
      PROVE  TypeOK'
  BY <1>1 DEF Retain, WeakHandle, Upgrade
<1>2. CASE Release(h)
  <2>1. h \in Strong
    BY <1>2 DEF Release, Strong
  <2>2. refcount - 1 \in Nat
    BY <2>1, FS_EmptySet DEF Counts
  <2> QED BY <1>2, <2>2 DEF Release
<1>3. CASE WeakRelease(h)
  <2>1. weak_count # 0
    <3>1. h \in Weak \/ h \in Dying
      BY <1>3 DEF WeakRelease, Weak, Dying
    <3> QED BY <3>1, FS_EmptySet DEF Counts
  <2> QED BY <1>3, <2>1 DEF WeakRelease
<1>4. CASE DropFn(h) \/ BodyDone(h) \/ FreeBlock(h)
  BY <1>4 DEF DropFn, BodyDone, FreeBlock
<1>5. CASE EndGen(h)
  BY <1>5 DEF EndGen, EndGeneration, Table!End
<1>6. CASE UpgradeLoad(h) \/ UpgradeNull(h) \/ UpgradeRetry(h)
  BY <1>6 DEF UpgradeLoad, UpgradeNull, UpgradeRetry
<1>7. CASE PtrKnown(h) \/ PtrUnknown(h)
  BY <1>7 DEF PtrKnown, PtrUnknown
<1>8. CASE PtrNew(h)
  BY <1>8 DEF PtrNew, Table!New
<1>9. CASE PtrInstall(h)
  <2>1. fresh[h] \in Gen
    BY <1>9 DEF PtrInstall, GensExact
  <2> QED BY <1>9, <2>1 DEF PtrInstall, PtrReturn
<1>10. CASE PtrLose(h)
  BY <1>10 DEF PtrLose, PtrReturn, EndGeneration, Table!End
<1> QED
  BY <1>1, <1>2, <1>3, <1>4, <1>5, <1>6, <1>7, <1>8, <1>9, <1>10 DEF HandleNext

\* Both counts stay what the handles say.
LEMMA StepCounts ==
    ASSUME IInv, NEW h \in Handles, HandleNext(h)
    PROVE  Counts'
<1> USE RcAssumption, HandlesFinite
<1> USE DEF IInv, ObjectSafe, TypeOK, Goto, InPtrCall, table
<1>1. ASSUME Strong' = Strong, Weak' = Weak, Dying' = Dying,
             refcount' = refcount, weak_count' = weak_count
      PROVE  Counts'
  BY <1>1 DEF Counts
<1>2. ASSUME NEW n \in Handles, Retain(h, n) PROVE Counts'
  <2>1. Strong' = Strong \cup {n} /\ n \notin Strong /\ h \in Strong
    BY <1>2 DEF Retain, Strong
  <2>2. Weak' = Weak /\ Dying' = Dying
    BY <1>2 DEF Retain, Weak, Dying
  <2>3. Cardinality(Strong') = Cardinality(Strong) + 1
    BY <2>1, FS_AddElement
  <2> QED BY <1>2, <2>1, <2>2, <2>3 DEF Retain, Counts
<1>3. ASSUME NEW n \in Handles, WeakHandle(h, n) PROVE Counts'
  <2>1. Weak' = Weak \cup {n} /\ n \notin Weak
    BY <1>3 DEF WeakHandle, Weak
  <2>2. Strong' = Strong /\ Dying' = Dying
    BY <1>3 DEF WeakHandle, Strong, Dying
  <2>3. Cardinality(Weak') = Cardinality(Weak) + 1
    BY <2>1, FS_AddElement
  <2> QED BY <1>3, <2>2, <2>3 DEF WeakHandle, Counts
<1>4. ASSUME NEW n \in Handles, Upgrade(h, n) PROVE Counts'
  <2>1. Strong' = Strong \cup {n} /\ n \notin Strong
    BY <1>4 DEF Upgrade, Strong
  <2>2. Weak' = Weak /\ Dying' = Dying
    BY <1>4 DEF Upgrade, Weak, Dying
  <2>3. Cardinality(Strong') = Cardinality(Strong) + 1
    BY <2>1, FS_AddElement
  <2>4. Strong # {}
    BY <1>4, FS_EmptySet DEF Upgrade, Counts
  <2> QED BY <1>4, <2>1, <2>2, <2>3, <2>4 DEF Upgrade, Counts
<1>5. CASE Release(h)
  <2>1. Strong' = Strong \ {h} /\ h \in Strong
    BY <1>5 DEF Release, Strong
  <2>2. Cardinality(Strong') = Cardinality(Strong) - 1
    BY <2>1, FS_RemoveElement
  <2>3. Weak' = Weak
    BY <1>5 DEF Release, Weak
  <2>4. refcount = 1 => h \in Dying'
    BY <1>5 DEF Release, Dying
  <2>5. refcount # 1 => Strong' # {}
    BY <2>1, FS_Singleton DEF Counts
  <2> QED BY <1>5, <2>1, <2>2, <2>3, <2>4, <2>5 DEF Release, Counts
<1>6. CASE WeakRelease(h) /\ pc[h] = "weak"
  <2>1. Weak' = Weak \ {h} /\ h \in Weak
    BY <1>6 DEF WeakRelease, Weak
  <2>2. Strong' = Strong /\ Dying' = Dying
    BY <1>6 DEF WeakRelease, Strong, Dying
  <2>3. Cardinality(Weak') = Cardinality(Weak) - 1
    BY <2>1, FS_RemoveElement
  <2> QED BY <1>6, <2>2, <2>3 DEF WeakRelease, Counts
<1>7. CASE WeakRelease(h) /\ pc[h] = "weakdec"
  <2>1. h \in Dying
    BY <1>7 DEF Dying
  <2>2. Dying' = {} /\ Strong = {}
    BY <1>7, <2>1 DEF WeakRelease, Dying, Lifetime
  <2>3. Strong' = Strong /\ Weak' = Weak
    BY <1>7 DEF WeakRelease, Strong, Weak
  <2> QED BY <1>7, <2>1, <2>2, <2>3 DEF WeakRelease, Counts
<1>8. CASE DropFn(h) \/ BodyDone(h) \/ FreeBlock(h) \/ EndGen(h)
  <2>1. Strong' = Strong /\ Weak' = Weak /\ Dying' = Dying
    BY <1>8 DEF DropFn, BodyDone, FreeBlock, EndGen, Strong, Weak, Dying
  <2> QED BY <1>1, <1>8, <2>1 DEF DropFn, BodyDone, FreeBlock, EndGen
<1>9. CASE UpgradeLoad(h) \/ UpgradeNull(h) \/ UpgradeRetry(h)
  <2>1. Strong' = Strong /\ Weak' = Weak /\ Dying' = Dying
    BY <1>9 DEF UpgradeLoad, UpgradeNull, UpgradeRetry, Strong, Weak, Dying
  <2> QED BY <1>1, <1>9, <2>1 DEF UpgradeLoad, UpgradeNull, UpgradeRetry
<1>10. CASE PtrKnown(h) \/ PtrUnknown(h) \/ PtrNew(h)
  <2>1. Strong' = Strong /\ Weak' = Weak /\ Dying' = Dying
    BY <1>10 DEF PtrKnown, PtrUnknown, PtrNew, Strong, Weak, Dying
  <2> QED BY <1>1, <1>10, <2>1 DEF PtrKnown, PtrUnknown, PtrNew
<1>11. CASE PtrInstall(h) \/ PtrLose(h)
  <2>1. Strong' = Strong /\ Weak' = Weak /\ Dying' = Dying
    BY <1>11 DEF PtrInstall, PtrLose, PtrReturn, Strong, Weak, Dying
  <2> QED BY <1>1, <1>11, <2>1 DEF PtrInstall, PtrLose
<1> QED
  BY <1>2, <1>3, <1>4, <1>5, <1>6, <1>7, <1>8, <1>9, <1>10, <1>11
     DEF HandleNext, WeakRelease

\* The object is dropped once, after its last strong handle, and its block freed
\* once, after everything else.
LEMMA StepLifetime ==
    ASSUME IInv, Counts', NEW h \in Handles, HandleNext(h)
    PROVE  Lifetime' /\ DropsExact'
<1> USE RcAssumption, HandlesFinite
<1> USE DEF IInv, ObjectSafe, TypeOK, Goto, InPtrCall, table
<1>1. ASSUME Strong' = Strong, Weak' = Weak, Dying' = Dying, Freeing' = Freeing,
             pc[h] # "none", pc[h] # "drop", pc'[h] # "drop",
             \A k \in Handles \ {h} : pc'[k] = pc[k],
             drops' = drops, frees' = frees
      PROVE  Lifetime' /\ DropsExact'
  <2>1. DropsExact'
    BY <1>1 DEF DropsExact, Dying
  <2>2. Lifetime'
    BY <1>1 DEF Lifetime
  <2> QED BY <2>1, <2>2
<1>2. ASSUME NEW n \in Handles, pc[n] = "none",
             Retain(h, n) \/ WeakHandle(h, n) \/ Upgrade(h, n)
      PROVE  Lifetime' /\ DropsExact'
  <2>1. pc[h] # "none" /\ drops' = drops /\ frees' = frees
    BY <1>2 DEF Retain, WeakHandle, Upgrade
  <2>2. Dying' = Dying /\ Freeing' = Freeing
    BY <1>2 DEF Retain, WeakHandle, Upgrade, Dying, Freeing
  <2>3. CASE Retain(h, n) \/ Upgrade(h, n)
    <3>1. Strong # {}
      BY <2>3, FS_EmptySet DEF Retain, Upgrade, Strong, Counts
    <3>2. Weak' = Weak /\ Strong' = Strong \cup {n}
      BY <2>3 DEF Retain, Upgrade, Weak, Strong
    <3> QED BY <2>1, <2>2, <2>3, <3>1, <3>2 DEF Lifetime, DropsExact, Retain, Upgrade
  <2>4. CASE WeakHandle(h, n)
    <3>1. Strong' = Strong /\ Freeing = {}
      BY <2>4 DEF WeakHandle, Strong, Weak, Lifetime
    <3> QED BY <2>1, <2>2, <2>4, <3>1 DEF Lifetime, DropsExact, WeakHandle
  <2> QED BY <1>2, <2>3, <2>4
<1>3. CASE Release(h)
  <2>1. Strong' = Strong \ {h} /\ h \in Strong /\ Weak' = Weak /\ Freeing' = Freeing
    BY <1>3 DEF Release, Strong, Weak, Freeing
  <2>2. Dying = {} /\ Freeing = {} /\ drops = 0 /\ frees # 1
    BY <1>3, <2>1 DEF Lifetime, Release
  <2>3. CASE refcount = 1
    <3>1. Strong' = {}
      <4>1. Cardinality(Strong) = 1
        BY <2>3 DEF Counts
      <4>2. PICK x : Strong = {x}
        BY <4>1, FS_Singleton
      <4> QED BY <2>1, <4>2
    <3>2. Dying' = {h} /\ pc'[h] = "drop"
      BY <1>3, <2>2, <2>3 DEF Release, Dying
    <3> QED BY <1>3, <2>1, <2>2, <3>1, <3>2 DEF Release, Lifetime, DropsExact, Dying, Strong
  <2>4. CASE refcount # 1
    <3>1. Strong' # {}
      <4>1. Strong = {h} => Cardinality(Strong) = 1
        BY FS_Singleton
      <4> QED BY <2>1, <2>4, <4>1 DEF Counts
    <3>2. Dying' = {}
      BY <1>3, <2>2, <2>4 DEF Release, Dying
    <3> QED BY <1>3, <2>1, <2>2, <2>4, <3>1, <3>2 DEF Release, Lifetime, DropsExact
  <2> QED BY <2>3, <2>4
<1>4. CASE DropFn(h)
  <2>1. Strong' = Strong /\ Weak' = Weak /\ Dying' = Dying /\ Freeing' = Freeing
    BY <1>4 DEF DropFn, Strong, Weak, Dying, Freeing
  <2>2. h \in Dying /\ Strong = {} /\ Freeing = {} /\ drops = 0 /\ frees # 1
    BY <1>4 DEF DropFn, Dying, Freeing, Lifetime, DropsExact
  <2>3. Dying = {h}
    BY <2>2 DEF Lifetime
  <2> QED BY <1>4, <2>1, <2>2, <2>3 DEF DropFn, Lifetime, DropsExact, Dying
<1>5. CASE BodyDone(h) \/ EndGen(h)
  <2>1. Strong' = Strong /\ Weak' = Weak /\ Dying' = Dying /\ Freeing' = Freeing
    BY <1>5 DEF BodyDone, EndGen, Strong, Weak, Dying, Freeing
  <2> QED BY <1>1, <1>5, <2>1 DEF BodyDone, EndGen
<1>6. CASE WeakRelease(h) /\ pc[h] = "weak"
  <2>1. Strong' = Strong /\ Weak' = Weak \ {h} /\ Dying' = Dying /\ h \in Weak
    BY <1>6 DEF WeakRelease, Strong, Weak, Dying
  <2>2. Freeing = {} /\ frees # 1
    BY <1>6, <2>1 DEF Lifetime
  <2>3. CASE weak_count = 1
    <3>1. Strong \cup Dying = {} /\ Cardinality(Weak) = 1
      BY <2>1, <2>3, FS_EmptySet DEF Counts
    <3>2. Weak' = {}
      BY <2>1, <3>1, FS_Singleton
    <3>3. Freeing' = {h}
      BY <1>6, <2>2, <2>3 DEF WeakRelease, Freeing
    <3> QED BY <1>6, <2>1, <2>2, <3>1, <3>2, <3>3 DEF WeakRelease, Lifetime, DropsExact
  <2>4. CASE weak_count # 1
    <3>1. Freeing' = {}
      BY <1>6, <2>2, <2>4 DEF WeakRelease, Freeing
    <3> QED BY <1>6, <2>1, <2>2, <2>4, <3>1 DEF WeakRelease, Lifetime, DropsExact
  <2> QED BY <2>3, <2>4
<1>7. CASE WeakRelease(h) /\ pc[h] = "weakdec"
  <2>1. h \in Dying
    BY <1>7 DEF Dying
  <2>2. Dying' = {} /\ Strong = {} /\ Freeing = {} /\ drops = 1 /\ frees # 1
    BY <1>7, <2>1 DEF WeakRelease, Dying, Freeing, Lifetime, DropsExact
  <2>3. Strong' = Strong /\ Weak' = Weak
    BY <1>7 DEF WeakRelease, Strong, Weak
  <2>4. CASE weak_count = 1
    <3>1. Weak = {}
      BY <2>1, <2>4, FS_EmptySet DEF Counts
    <3>2. Freeing' = {h}
      BY <1>7, <2>2, <2>4 DEF WeakRelease, Freeing
    <3> QED BY <1>7, <2>2, <2>3, <3>1, <3>2 DEF WeakRelease, Lifetime, DropsExact, Dying
  <2>5. CASE weak_count # 1
    <3>1. Freeing' = {}
      BY <1>7, <2>2, <2>5 DEF WeakRelease, Freeing
    <3> QED BY <1>7, <2>2, <2>3, <2>5, <3>1 DEF WeakRelease, Lifetime, DropsExact, Dying
  <2> QED BY <2>4, <2>5
<1>8. CASE FreeBlock(h)
  <2>1. h \in Freeing
    BY <1>8 DEF FreeBlock, Freeing
  <2>2. Strong = {} /\ Weak = {} /\ Dying = {} /\ drops = 1 /\ frees = 0 /\ Freeing = {h}
    BY <2>1 DEF Lifetime
  <2>3. \A k \in Handles : pc'[k] = "none"
    BY <1>8, <2>2 DEF FreeBlock, Strong, Weak, Dying, Freeing, Labels
  <2>4. Strong' = {} /\ Weak' = {} /\ Dying' = {} /\ Freeing' = {}
    BY <2>3 DEF Strong, Weak, Dying, Freeing
  <2> QED BY <1>8, <2>2, <2>3, <2>4 DEF FreeBlock, Lifetime, DropsExact
<1>9. CASE UpgradeLoad(h) \/ UpgradeNull(h) \/ UpgradeRetry(h)
  <2>1. Strong' = Strong /\ Weak' = Weak /\ Dying' = Dying /\ Freeing' = Freeing
    BY <1>9 DEF UpgradeLoad, UpgradeNull, UpgradeRetry, Strong, Weak, Dying, Freeing
  <2> QED BY <1>1, <1>9, <2>1 DEF UpgradeLoad, UpgradeNull, UpgradeRetry
<1>10. CASE PtrKnown(h) \/ PtrUnknown(h) \/ PtrNew(h)
  <2>1. Strong' = Strong /\ Weak' = Weak /\ Dying' = Dying /\ Freeing' = Freeing
    BY <1>10 DEF PtrKnown, PtrUnknown, PtrNew, Strong, Weak, Dying, Freeing
  <2> QED BY <1>1, <1>10, <2>1 DEF PtrKnown, PtrUnknown, PtrNew
<1>11. CASE PtrInstall(h) \/ PtrLose(h)
  <2>1. Strong' = Strong /\ Weak' = Weak /\ Dying' = Dying /\ Freeing' = Freeing
    BY <1>11 DEF PtrInstall, PtrLose, PtrReturn, Strong, Weak, Dying, Freeing
  <2> QED BY <1>1, <1>11, <2>1 DEF PtrInstall, PtrLose, PtrReturn
<1> QED
  BY <1>2, <1>3, <1>4, <1>5, <1>6, <1>7, <1>8, <1>9, <1>10, <1>11
     DEF HandleNext, WeakRelease, Retain, WeakHandle, Upgrade

\* Pointers carry the object's one generation, which outlives the strong handles
\* and no drop.
LEMMA StepPointers ==
    ASSUME IInv, Counts', NEW h \in Handles, HandleNext(h)
    PROVE  PointersSafe' /\ GensExact' /\ ZeroIsFinal'
<1> USE RcAssumption, HandlesFinite
<1> USE DEF IInv, ObjectSafe, TypeOK, Goto, InPtrCall, table
<1>1. ASSUME NEW n \in Handles, Retain(h, n) \/ Upgrade(h, n)
      PROVE  PointersSafe' /\ GensExact' /\ ZeroIsFinal'
  <2>1. Strong # {}
    BY <1>1, FS_EmptySet DEF Retain, Upgrade, Strong, Counts
  <2>2. n \in Strong' /\ refcount # 0
    BY <1>1, <2>1, FS_EmptySet DEF Retain, Upgrade, Strong, Counts
  <2>3. PointersSafe'
    BY <1>1, <2>1, <2>2 DEF Retain, Upgrade, PointersSafe
  <2>4. GensExact'
    BY <1>1, <2>1, <2>2 DEF Retain, Upgrade, GensExact
  <2>5. ZeroIsFinal'
    BY <1>1, <2>2 DEF Retain, Upgrade, ZeroIsFinal
  <2> QED BY <2>3, <2>4, <2>5
<1>2. ASSUME NEW n \in Handles, WeakHandle(h, n)
      PROVE  PointersSafe' /\ GensExact' /\ ZeroIsFinal'
  <2>1. Strong' = Strong /\ Dying' = Dying
    BY <1>2 DEF WeakHandle, Strong, Dying
  <2>2. PointersSafe'
    BY <1>2, <2>1 DEF WeakHandle, PointersSafe, Dying
  <2>3. GensExact' /\ ZeroIsFinal'
    BY <1>2, <2>1 DEF WeakHandle, GensExact, ZeroIsFinal
  <2> QED BY <2>2, <2>3
<1>3. CASE Release(h)
  <2>1. Strong' = Strong \ {h} /\ h \in Strong
    BY <1>3 DEF Release, Strong
  <2>2. Strong' # {} \/ (h \in Dying' /\ pc'[h] = "drop")
    <3>1. Strong = {h} => Cardinality(Strong) = 1
      BY FS_Singleton
    <3> QED BY <1>3, <2>1, <3>1 DEF Release, Dying, Counts
  <2>3. PointersSafe'
    BY <1>3, <2>1, <2>2 DEF Release, PointersSafe
  <2>4. GensExact'
    BY <1>3, <2>1 DEF Release, GensExact
  <2>5. refcount # 0
    BY <2>1, FS_EmptySet DEF Counts
  <2>6. ZeroIsFinal'
    BY <1>3, <2>5 DEF Release, ZeroIsFinal
  <2> QED BY <2>3, <2>4, <2>6
<1>4. CASE DropFn(h)
  <2>1. Strong' = Strong /\ h \in Dying' /\ pc'[h] = "body"
    BY <1>4 DEF DropFn, Strong, Dying
  <2> QED BY <1>4, <2>1 DEF DropFn, PointersSafe, GensExact, ZeroIsFinal
<1>5. CASE BodyDone(h) \/ EndGen(h)
  <2>1. Strong' = Strong /\ Dying' = Dying /\ h \in Dying
    BY <1>5 DEF BodyDone, EndGen, Strong, Dying
  <2>2. Strong = {} /\ Dying = {h}
    BY <2>1 DEF Lifetime
  <2>3. \A k \in Handles : fresh[k] = NoGen
    <3>1. ASSUME NEW k \in Handles PROVE pc[k] # "install"
      BY <1>5, <2>2 DEF BodyDone, EndGen, Strong, Dying
    <3> QED BY <3>1 DEF GensExact
  <2>4. live \subseteq {gen}
    BY <2>3 DEF PointersSafe
  <2>5. CASE BodyDone(h)
    <3>1. gen = NoGen => live = {}
      BY <2>4
    <3> QED BY <2>5, <2>1, <2>2, <3>1 DEF BodyDone, PointersSafe, GensExact, ZeroIsFinal
  <2>6. CASE EndGen(h)
    <3>1. live' = {}
      BY <2>4, <2>6 DEF EndGen, EndGeneration, Table!End
    <3>2. ended \subseteq ended' /\ (gen \in live => gen \in ended')
      BY <2>6 DEF EndGen, EndGeneration, Table!End
    <3>3. PointersSafe'
      BY <2>6, <2>1, <2>2, <3>1 DEF EndGen, PointersSafe
    <3>4. GensExact' /\ ZeroIsFinal'
      BY <2>6, <2>1, <2>2, <2>3, <3>2 DEF EndGen, GensExact, ZeroIsFinal
    <3> QED BY <3>3, <3>4
  <2> QED BY <1>5, <2>5, <2>6
<1>6. CASE WeakRelease(h) \/ FreeBlock(h)
  <2>1. Strong' = Strong /\ Dying' = Dying \ {h} /\ (h \in Dying => pc[h] = "weakdec")
    BY <1>6 DEF WeakRelease, FreeBlock, Strong, Dying
  <2>2. PointersSafe'
    BY <1>6, <2>1 DEF WeakRelease, FreeBlock, PointersSafe, Dying
  <2>3. GensExact' /\ ZeroIsFinal'
    BY <1>6, <2>1 DEF WeakRelease, FreeBlock, GensExact, ZeroIsFinal
  <2> QED BY <2>2, <2>3
<1>7. CASE UpgradeLoad(h) \/ UpgradeNull(h) \/ UpgradeRetry(h)
  <2>1. Strong' = Strong /\ Dying' = Dying /\ h \notin Dying
    BY <1>7 DEF UpgradeLoad, UpgradeNull, UpgradeRetry, Strong, Dying
  <2>2. PointersSafe'
    BY <1>7, <2>1 DEF UpgradeLoad, UpgradeNull, UpgradeRetry, PointersSafe, Dying
  <2>3. GensExact'
    BY <1>7, <2>1 DEF UpgradeLoad, UpgradeNull, UpgradeRetry, GensExact
  <2>4. ZeroIsFinal'
    BY <1>7 DEF UpgradeLoad, UpgradeNull, UpgradeRetry, ZeroIsFinal
  <2> QED BY <2>2, <2>3, <2>4
<1>8. CASE PtrKnown(h) \/ PtrUnknown(h) \/ PtrNew(h) \/ PtrInstall(h) \/ PtrLose(h)
  <2>1. Strong' = Strong /\ Dying' = Dying /\ h \in Strong \cup Dying /\ pc[h] # "weakdec"
        /\ pc'[h] # "weakdec"
    BY <1>8 DEF PtrKnown, PtrUnknown, PtrNew, PtrInstall, PtrLose, PtrReturn, Strong, Dying
  <2>2. ZeroIsFinal'
    BY <1>8 DEF PtrKnown, PtrUnknown, PtrNew, PtrInstall, PtrLose, PtrReturn, ZeroIsFinal
  <2>3. CASE PtrKnown(h)
    BY <2>1, <2>2, <2>3 DEF PtrKnown, PointersSafe, GensExact
  <2>4. CASE PtrUnknown(h)
    BY <2>1, <2>2, <2>4 DEF PtrUnknown, PointersSafe, GensExact
  <2>5. CASE PtrNew(h)
    <3>1. PICK g \in Gen : /\ g \notin live \cup ended /\ live' = live \cup {g}
                           /\ ended' = ended /\ fresh' = [fresh EXCEPT ![h] = g]
      BY <2>5 DEF PtrNew, Table!New
    <3>2. fresh[h] = NoGen
      BY <2>5 DEF PtrNew, GensExact
    <3>3. live' \subseteq {gen} \cup {fresh'[k] : k \in Handles}
      <4>1. ASSUME NEW x \in live', x # gen
            PROVE  \E k \in Handles : x = fresh'[k]
        <5>1. CASE x = g
          BY <3>1, <5>1
        <5>2. CASE x # g
          <6>1. PICK k \in Handles : x = fresh[k]
            BY <3>1, <4>1, <5>2 DEF PointersSafe
          <6> QED BY <3>1, <3>2, <5>2, <6>1
        <5> QED BY <5>1, <5>2
      <4> QED BY <4>1
    <3>4. PointersSafe'
      BY <2>1, <2>5, <3>1, <3>3 DEF PtrNew, PointersSafe
    <3>5. GensExact'
      BY <2>1, <2>5, <3>1, <3>2 DEF PtrNew, GensExact
    <3> QED BY <2>2, <3>4, <3>5
  <2>6. CASE PtrInstall(h)
    <3>1. taken' = {fresh[h]} /\ gen' = fresh[h] /\ fresh[h] \in live /\ live' = live
          /\ ended' = ended /\ gen = NoGen
      BY <2>6 DEF PtrInstall, PointersSafe, GensExact
    <3>2. fresh' = [fresh EXCEPT ![h] = NoGen]
      BY <2>6 DEF PtrInstall, PtrReturn
    <3>3. live' \subseteq {gen'} \cup {fresh'[k] : k \in Handles}
      BY <3>1, <3>2 DEF PointersSafe
    <3>4. PointersSafe'
      BY <2>1, <3>1, <3>3 DEF PointersSafe
    <3>5. GensExact'
      BY <2>1, <2>6, <3>1, <3>2 DEF PtrInstall, PtrReturn, GensExact
    <3> QED BY <2>2, <3>4, <3>5
  <2>7. CASE PtrLose(h)
    <3>1. live' = live \ {fresh[h]} /\ ended' = ended \cup {fresh[h]}
      BY <2>7 DEF PtrLose, EndGeneration, Table!End, GensExact
    <3>2. fresh' = [fresh EXCEPT ![h] = NoGen] /\ fresh[h] # gen /\ gen' = gen
          /\ taken' = taken \cup {gen} /\ gen # NoGen
      BY <2>7 DEF PtrLose, PtrReturn, GensExact
    <3>3. live' \subseteq {gen'} \cup {fresh'[k] : k \in Handles}
      BY <3>1, <3>2 DEF PointersSafe
    <3>4. PointersSafe'
      BY <2>1, <3>1, <3>2, <3>3 DEF PointersSafe, GensExact
    <3>5. GensExact'
      BY <2>1, <2>7, <3>1, <3>2 DEF PtrLose, PtrReturn, GensExact
    <3> QED BY <2>2, <3>4, <3>5
  <2> QED BY <1>8, <2>3, <2>4, <2>5, <2>6, <2>7
<1> QED
  BY <1>1, <1>2, <1>3, <1>4, <1>5, <1>6, <1>7, <1>8 DEF HandleNext

\* The invariant is inductive.
LEMMA StepIInv == IInv /\ [Next]_vars => IInv'
<1> SUFFICES ASSUME IInv, [Next]_vars PROVE IInv'
  OBVIOUS
<1>1. CASE UNCHANGED vars
  <2>1. Strong' = Strong /\ Weak' = Weak /\ Dying' = Dying /\ Freeing' = Freeing
    BY <1>1 DEF vars, Strong, Weak, Dying, Freeing, InPtrCall
  <2>2. ObjectSafe'
    BY <1>1, <2>1 DEF vars, IInv, ObjectSafe, TypeOK, Counts, Lifetime, PointersSafe
  <2>3. DropsExact' /\ GensExact' /\ ZeroIsFinal'
    BY <1>1, <2>1 DEF vars, IInv, DropsExact, GensExact, ZeroIsFinal
  <2> QED BY <2>2, <2>3 DEF IInv
<1>2. ASSUME NEW h \in Handles, HandleNext(h) PROVE IInv'
  BY <1>2, StepTypeOK, StepCounts, StepLifetime, StepPointers DEF IInv, ObjectSafe
<1> QED BY <1>1, <1>2 DEF Next

\* The object is dropped once, after its last strong handle, its block is freed
\* once, when no handle is left, the counts are exact throughout, and pointers
\* into the object are live while it is owned and stale once it is dropped.
THEOREM ObjectIsSafe == Spec => []ObjectSafe
<1>1. IInv => ObjectSafe
  BY DEF IInv
<1> QED BY <1>1, InitIInv, StepIInv, PTL DEF Spec

\* iron_rc_upgrade returns null only when the last strong handle is gone.
THEOREM UpgradesHonest == Spec => UpgradeHonest
<1> DEFINE Honest == \A h \in Handles :
      pc[h] = "upgrade" /\ pc'[h] = "weak" /\ refcount' = refcount => refcount = 0
<1>1. IInv /\ [Next]_vars => [Honest]_vars
  <2> SUFFICES ASSUME IInv, NEW k \in Handles, HandleNext(k), NEW h \in Handles,
                      pc[h] = "upgrade", pc'[h] = "weak", refcount' = refcount
               PROVE  refcount = 0
    BY DEF Next
  <2> USE DEF IInv, ObjectSafe, TypeOK, Goto
  <2>1. \A n \in Handles : ~Retain(k, n) /\ ~WeakHandle(k, n) /\ ~Upgrade(k, n)
    BY DEF Retain, WeakHandle, Upgrade
  <2>2. ~Release(k) /\ ~DropFn(k) /\ ~BodyDone(k) /\ ~EndGen(k) /\ ~WeakRelease(k)
        /\ ~FreeBlock(k) /\ ~UpgradeLoad(k) /\ ~UpgradeRetry(k)
    BY DEF Release, DropFn, BodyDone, EndGen, WeakRelease, FreeBlock, UpgradeLoad,
           UpgradeRetry
  <2>3. ~PtrKnown(k) /\ ~PtrUnknown(k) /\ ~PtrNew(k) /\ ~PtrInstall(k) /\ ~PtrLose(k)
    BY DEF PtrKnown, PtrUnknown, PtrNew, PtrInstall, PtrLose, PtrReturn
  <2>4. UpgradeNull(k)
    BY <2>1, <2>2, <2>3 DEF HandleNext
  <2> QED BY <2>4 DEF UpgradeNull, ZeroIsFinal
<1>2. Spec => [][Honest]_vars
  BY <1>1, InitIInv, StepIInv, PTL DEF Spec
<1> QED BY <1>2 DEF UpgradeHonest

(***************************************************************************)
(* Graphs.                                                                 *)
(***************************************************************************)

\* A closure has what it starts from and is left by no step.
LEMMA ClosureFacts ==
  ASSUME NEW S \in SUBSET Blocks, NEW step \in [Blocks -> SUBSET Blocks]
  PROVE  /\ Closure(S, step) \in SUBSET Blocks
         /\ S \subseteq Closure(S, step)
         /\ \A b \in Closure(S, step) : step[b] \subseteq Closure(S, step)
<1> DEFINE closed == {T \in SUBSET Blocks : S \subseteq T /\ \A b \in T : step[b] \subseteq T}
<1>1. Closure(S, step) = {b \in Blocks : \A T \in closed : b \in T}
  BY DEF Closure
<1>2. Closure(S, step) \in SUBSET Blocks
  BY <1>1
<1>3. S \subseteq Closure(S, step)
  BY <1>1
<1>4. ASSUME NEW b \in Closure(S, step), NEW c \in step[b] PROVE c \in Closure(S, step)
  <2>1. c \in Blocks
    BY <1>2
  <2>2. \A T \in closed : c \in T
    BY <1>1
  <2> QED BY <1>1, <2>1, <2>2
<1> QED BY <1>2, <1>3, <1>4

\* It is the least such set.
LEMMA ClosureLeast ==
  ASSUME NEW S, NEW step, NEW T \in SUBSET Blocks,
         S \subseteq T, \A b \in T : step[b] \subseteq T
  PROVE  Closure(S, step) \subseteq T
BY DEF Closure

\* Edges stay in the function and none enters block 0.
LEMMA SuccsFacts ==
  ASSUME succs \in Graphs
  PROVE  /\ \A b \in Blocks : Succs(b) \subseteq Blocks \ {0}
         /\ Len(succs[Header]) = 2 /\ DOMAIN succs[Header] = 1..2
<1>1. \A b \in Blocks : succs[b] \in UNION {[1..n -> Blocks \ {0}] : n \in 0..2}
  BY DEF Graphs
<1>2. ASSUME NEW b \in Blocks PROVE Succs(b) \subseteq Blocks \ {0}
  <2>1. PICK n \in 0..2 : succs[b] \in [1..n -> Blocks \ {0}]
    BY <1>1
  <2> QED BY <2>1 DEF Succs
<1>3. Header \in Blocks
  BY RangesAssumption DEF Header, Blocks
<1>4. PICK n \in 0..2 : succs[Header] \in [1..n -> Blocks \ {0}]
  BY <1>1, <1>3
<1>5. Len(succs[Header]) = 2
  BY DEF Graphs
<1>6. n = 2
  BY <1>4, <1>5
<1> QED BY <1>2, <1>4, <1>5, <1>6

\* The blocks with a role of their own are blocks.
LEMMA ZeroBlock == 0 \in Blocks /\ Header \in Blocks /\ Exit \in Blocks /\ 2 \in Blocks
BY RangesAssumption DEF Header, Blocks

\* The reachable blocks are the least set that has block 0 and that no edge leaves.
LEMMA ReachableFacts ==
  ASSUME succs \in Graphs
  PROVE  /\ Reachable \in SUBSET Blocks /\ 0 \in Reachable
         /\ \A b \in Reachable : Succs(b) \subseteq Reachable
         /\ \A T \in SUBSET Blocks :
              0 \in T /\ (\A b \in T : Succs(b) \subseteq T) => Reachable \subseteq T
<1> DEFINE step == [b \in Blocks |-> Succs(b)]
<1>1. step \in [Blocks -> SUBSET Blocks] /\ {0} \in SUBSET Blocks
  BY SuccsFacts, ZeroBlock
<1>2. Reachable = Closure({0}, step)
  BY DEF Reachable
<1>3. ASSUME NEW T \in SUBSET Blocks, 0 \in T, \A b \in T : Succs(b) \subseteq T
      PROVE  Reachable \subseteq T
  <2>1. {0} \subseteq T /\ \A b \in T : step[b] \subseteq T
    BY <1>3
  <2> HIDE DEF step
  <2> QED BY <1>2, <2>1, ClosureLeast
<1>4. /\ Closure({0}, step) \in SUBSET Blocks /\ {0} \subseteq Closure({0}, step)
      /\ \A b \in Closure({0}, step) : step[b] \subseteq Closure({0}, step)
  <2> HIDE DEF step
  <2> QED BY <1>1, ClosureFacts
<1> QED BY <1>2, <1>3, <1>4

\* So are the blocks reached without a, of the graph without a.
LEMMA AvoidFacts ==
  ASSUME succs \in Graphs, NEW a \in Blocks
  PROVE  /\ Avoid(a) \in SUBSET (Blocks \ {a})
         /\ a # 0 => 0 \in Avoid(a)
         /\ \A b \in Avoid(a) : Succs(b) \ {a} \subseteq Avoid(a)
         /\ \A T \in SUBSET Blocks :
              {0} \ {a} \subseteq T /\ (\A b \in T : Succs(b) \ {a} \subseteq T) => Avoid(a) \subseteq T
<1> DEFINE step == [b \in Blocks |-> Succs(b) \ {a}]
<1> DEFINE S == {0} \ {a}
<1>1. step \in [Blocks -> SUBSET Blocks] /\ S \in SUBSET Blocks
  BY SuccsFacts, ZeroBlock
<1>2. Avoid(a) = Closure(S, step)
  BY DEF Avoid
<1>3. ASSUME NEW T \in SUBSET Blocks, S \subseteq T, \A b \in T : Succs(b) \ {a} \subseteq T
      PROVE  Avoid(a) \subseteq T
  <2>1. \A b \in T : step[b] \subseteq T
    BY <1>3
  <2> HIDE DEF step, S
  <2> QED BY <1>2, <1>3, <2>1, ClosureLeast
<1>4. /\ Closure(S, step) \in SUBSET Blocks /\ S \subseteq Closure(S, step)
      /\ \A b \in Closure(S, step) : step[b] \subseteq Closure(S, step)
  <2> HIDE DEF step, S
  <2> QED BY <1>1, ClosureFacts
<1>5. a \notin Avoid(a)
  <2>1. Avoid(a) \subseteq Blocks \ {a}
    <3>1. Blocks \ {a} \in SUBSET Blocks /\ S \subseteq Blocks \ {a}
      BY ZeroBlock
    <3>2. \A b \in Blocks \ {a} : Succs(b) \ {a} \subseteq Blocks \ {a}
      BY SuccsFacts
    <3> QED BY <1>3, <3>1, <3>2
  <2> QED BY <2>1
<1>6. Avoid(a) \in SUBSET (Blocks \ {a})
  BY <1>2, <1>4, <1>5
<1>7. \A b \in Avoid(a) : Succs(b) \ {a} \subseteq Avoid(a)
  BY <1>2, <1>4
<1>8. a # 0 => 0 \in Avoid(a)
  BY <1>2, <1>4
<1> QED BY <1>3, <1>6, <1>7, <1>8

\* A block dominates a successor only if it is the successor or dominates the
\* block itself.
LEMMA DominatesBack ==
  ASSUME succs \in Graphs, NEW a \in Blocks, NEW b \in Reachable, NEW c \in Succs(b),
         a # c, Dominates(a, c)
  PROVE  Dominates(a, b)
BY AvoidFacts, ReachableFacts DEF Dominates

\* Only a reachable block dominates.
LEMMA DominatorReachable ==
  ASSUME succs \in Graphs, NEW a \in Blocks, NEW b \in Blocks, Dominates(a, b)
  PROVE  a \in Reachable
<1>1. SUFFICES ASSUME a \notin Reachable PROVE FALSE
  OBVIOUS
<1> DEFINE T == Reachable \cap Avoid(a)
<1>2. T \in SUBSET Blocks /\ 0 \in T
  BY <1>1, ReachableFacts, AvoidFacts
<1>3. ASSUME NEW x \in T PROVE Succs(x) \subseteq T
  BY <1>1, ReachableFacts, AvoidFacts
<1>4. Reachable \subseteq T
  BY <1>2, <1>3, ReachableFacts
<1> QED BY <1>4 DEF Dominates

\* A block that is reached has a predecessor that is, or is block 0.
LEMMA HasPred ==
  ASSUME succs \in Graphs, NEW b \in Reachable, b # 0
  PROVE  Preds(b) \cap Reachable # {}
<1>1. SUFFICES ASSUME Preds(b) \cap Reachable = {} PROVE FALSE
  OBVIOUS
<1> DEFINE T == Reachable \ {b}
<1>2. T \in SUBSET Blocks /\ 0 \in T
  BY ReachableFacts
<1>3. ASSUME NEW x \in T PROVE Succs(x) \subseteq T
  BY <1>1, ReachableFacts DEF Preds
<1>4. Reachable \subseteq T
  BY <1>2, <1>3, ReachableFacts
<1> QED BY <1>4

(***************************************************************************)
(* Dominators.                                                             *)
(***************************************************************************)

\* What the passes keep: rows lose no dominator, and the rows this pass has
\* visited are what their predecessors give, unless it changed something.
DomInv ==
  /\ phase \in {"dominators", "infer", "run", "wide"}
  /\ succs \in Graphs /\ dom \in [Blocks -> SUBSET Blocks]
  /\ cursor \in 1..Exit + 1 /\ changed \in BOOLEAN
  /\ \A a, b \in Blocks : Dominates(a, b) => a \in dom[b]
  /\ \A b \in Blocks : b \notin Reachable => dom[b] = {}
  /\ dom[0] = {0}
  /\ phase = "dominators" /\ ~changed =>
       \A b \in 1..cursor - 1 : b \in Reachable => dom[b] = Row(b)
  /\ phase # "dominators" => \A a, b \in Blocks : a \in dom[b] <=> Dominates(a, b)

\* The first rows have every reachable block, so every dominator.
LEMMA InitDom == RangesInit => DomInv
<1> SUFFICES ASSUME RangesInit PROVE DomInv
  OBVIOUS
<1>1. succs \in Graphs /\ dom = FirstRows /\ cursor = 1 /\ changed = FALSE /\ phase = "dominators"
  BY DEF RangesInit
<1>2. dom \in [Blocks -> SUBSET Blocks]
  BY <1>1, ReachableFacts, ZeroBlock DEF FirstRows
<1>3. ASSUME NEW a \in Blocks, NEW b \in Blocks, Dominates(a, b) PROVE a \in dom[b]
  <2>1. a \in Reachable /\ b \in Reachable
    BY <1>1, <1>3, DominatorReachable DEF Dominates
  <2>2. b = 0 => a = 0
    BY <1>1, <1>3, AvoidFacts DEF Dominates
  <2> QED BY <1>1, <2>1, <2>2 DEF FirstRows
<1>4. dom[0] = {0} /\ \A b \in Blocks : b \notin Reachable => dom[b] = {}
  BY <1>1, ReachableFacts, ZeroBlock DEF FirstRows
<1>5. cursor \in 1..Exit + 1 /\ 1..cursor - 1 = {}
  BY <1>1, RangesAssumption
<1> QED BY <1>1, <1>2, <1>3, <1>4, <1>5 DEF DomInv

\* A row computed from rows with all dominators has them all.
LEMMA RowKeeps ==
  ASSUME DomInv, NEW a \in Blocks, NEW b \in Blocks, b # 0, Dominates(a, b)
  PROVE  a \in Row(b)
<1>1. b \in Reachable /\ succs \in Graphs
  BY DEF Dominates, DomInv
<1>2. Preds(b) \cap Reachable # {}
  BY <1>1, HasPred
<1>3. ASSUME NEW p \in Preds(b) \cap Reachable, a # b PROVE a \in dom[p]
  <2>1. b \in Succs(p) /\ p \in Blocks
    BY DEF Preds
  <2>2. Dominates(a, p)
    BY <1>1, <1>3, <2>1, DominatesBack
  <2> QED BY <2>1, <2>2 DEF DomInv
<1> QED BY <1>2, <1>3 DEF Row

\* Rows that agree with their predecessors have nothing but dominators.
LEMMA FixpointExact ==
  ASSUME DomInv, \A b \in 1..Exit : b \in Reachable => dom[b] = Row(b),
         NEW a \in Blocks, NEW b \in Blocks, a \in dom[b]
  PROVE  Dominates(a, b)
<1> DEFINE T == {x \in Reachable : x # a /\ a \notin dom[x]}
<1>0. succs \in Graphs
  BY DEF DomInv
<1>1. T \in SUBSET Blocks /\ {0} \ {a} \subseteq T
  BY <1>0, ReachableFacts DEF DomInv
<1>2. ASSUME NEW x \in T, NEW c \in Succs(x) \ {a} PROVE c \in T
  <2>1. c \in Reachable /\ c \in 1..Exit /\ x \in Blocks
    BY <1>0, <1>1, <1>2, ReachableFacts, SuccsFacts DEF Blocks
  <2>2. dom[c] = Row(c)
    BY <2>1
  <2>3. x \in Preds(c) \cap Reachable
    BY <2>1 DEF Preds
  <2>4. a \notin Row(c)
    BY <2>3 DEF Row
  <2> QED BY <2>1, <2>2, <2>4
<1>3. Avoid(a) \subseteq T
  <2>1. \A x \in T : Succs(x) \ {a} \subseteq T
    BY <1>2
  <2> HIDE DEF T
  <2> QED BY <1>0, <1>1, <2>1, AvoidFacts
<1>4. b \in Reachable
  BY DEF DomInv
<1> QED BY <1>3, <1>4 DEF Dominates

\* The graph never changes.
LEMMA SameGraph ==
  ASSUME succs' = succs
  PROVE  /\ Reachable' = Reachable
         /\ \A a, b : Dominates(a, b)' <=> Dominates(a, b)
         /\ \A b : Succs(b)' = Succs(b) /\ Preds(b)' = Preds(b)
<1>1. \A b : Succs(b)' = Succs(b) /\ Preds(b)' = Preds(b)
  BY DEF Succs, Preds
<1>2. Reachable' = Reachable
  BY DEF Reachable, Succs, Closure
<1>3. \A a : Avoid(a)' = Avoid(a)
  BY DEF Avoid, Succs, Closure
<1> QED BY <1>1, <1>2, <1>3 DEF Dominates

\* A row that is computed keeps its dominators; a pass that changes nothing has
\* reached the fixpoint.
LEMMA StepDom ==
  ASSUME DomInv, [RangesNext]_RangesVars
  PROVE  DomInv'
<1>0. succs' = succs
  BY DEF RangesNext, RangesVars, Dominate, EndPass, Refuse, Infer, Block
<1>1. /\ Reachable' = Reachable
      /\ \A a, b : Dominates(a, b)' <=> Dominates(a, b)
      /\ \A b : Preds(b)' = Preds(b)
  BY <1>0, SameGraph
<1>2. CASE Dominate
  <2>1. /\ phase = "dominators" /\ cursor <= Exit /\ phase' = phase
        /\ dom' = [dom EXCEPT ![cursor] = IF cursor \in Reachable THEN Row(cursor) ELSE @]
        /\ changed' = (changed \/ dom' # dom) /\ cursor' = cursor + 1
    BY <1>2 DEF Dominate
  <2>2. cursor \in Blocks /\ cursor # 0 /\ cursor' \in 1..Exit + 1
    BY <2>1, RangesAssumption DEF DomInv, Blocks
  <2>3. \A b \in Blocks : Row(b) \in SUBSET Blocks
    BY DEF Row
  <2>4. dom' \in [Blocks -> SUBSET Blocks]
    BY <2>1, <2>2, <2>3 DEF DomInv
  <2>5. \A b \in Blocks : dom'[b] = IF b = cursor /\ cursor \in Reachable THEN Row(cursor) ELSE dom[b]
    BY <2>1 DEF DomInv
  <2>6. ASSUME NEW a \in Blocks, NEW b \in Blocks, Dominates(a, b) PROVE a \in dom'[b]
    BY <2>2, <2>5, <2>6, RowKeeps DEF DomInv
  <2>7. dom'[0] = {0} /\ \A b \in Blocks : b \notin Reachable => dom'[b] = {}
    BY <2>2, <2>5, ZeroBlock DEF DomInv
  <2>8. ASSUME ~changed', NEW b \in 1..cursor' - 1, b \in Reachable PROVE dom'[b] = Row(b)'
    <3>1. dom' = dom /\ ~changed
      BY <2>1, <2>8
    <3>2. Row(b)' = Row(b)
      BY <1>1, <3>1 DEF Row
    <3>3. b \in 1..cursor - 1 \/ b = cursor
      BY <2>1, <2>2, <2>8, RangesAssumption DEF Blocks
    <3> QED BY <2>1, <2>2, <2>5, <2>8, <3>1, <3>2, <3>3 DEF DomInv
  <2>9. changed' \in BOOLEAN
    BY <2>1 DEF DomInv
  <2> QED BY <1>0, <1>1, <2>1, <2>2, <2>4, <2>6, <2>7, <2>8, <2>9 DEF DomInv
<1>3. CASE EndPass
  <2>1. /\ phase = "dominators" /\ cursor > Exit /\ dom' = dom
        /\ phase' = IF changed THEN "dominators" ELSE "infer"
        /\ cursor' = 1 /\ changed' = FALSE
    BY <1>3 DEF EndPass
  <2>2. cursor' \in 1..Exit + 1 /\ 1..cursor' - 1 = {}
    BY <2>1, RangesAssumption
  <2>3. ASSUME ~changed PROVE \A b \in 1..Exit : b \in Reachable => dom[b] = Row(b)
    BY <2>1, <2>3, RangesAssumption DEF DomInv
  <2>4. ASSUME ~changed, NEW a \in Blocks, NEW b \in Blocks
        PROVE  a \in dom[b] <=> Dominates(a, b)
    BY <2>3, <2>4, FixpointExact DEF DomInv
  <2> QED BY <1>0, <1>1, <2>1, <2>2, <2>4 DEF DomInv
<1>4. CASE Refuse \/ Infer \/ Block \/ UNCHANGED RangesVars
  <2>1. /\ dom' = dom /\ cursor' = cursor /\ changed' = changed
        /\ \/ phase' = phase
           \/ phase = "infer" /\ phase' \in {"run", "wide"}
    BY <1>4 DEF Refuse, Infer, Block, RangesVars
  <2>2. \A b : Row(b)' = Row(b)
    BY <1>1, <2>1 DEF Row
  <2> QED BY <1>0, <1>1, <2>1, <2>2 DEF DomInv
<1> QED BY <1>2, <1>3, <1>4 DEF RangesNext

\* local_compute_dominators: the rows it ends with are the dominators.
THEOREM RowsAreDominators == RangesSpec => []DominatorsExact
<1>1. RangesInit => DomInv
  BY InitDom
<1>2. DomInv /\ [RangesNext]_RangesVars => DomInv'
  BY StepDom
<1>3. DomInv => DominatorsExact
  BY DEF DomInv, DominatorsExact
<1> QED BY <1>1, <1>2, <1>3, PTL DEF RangesSpec

(***************************************************************************)
(* Words and intervals.                                                    *)
(***************************************************************************)

\* A word is an Int, and an Int is its own word.
LEMMA WrapFacts ==
  ASSUME NEW x \in Int
  PROVE  Wrap(x) \in Ints /\ (x \in Ints => Wrap(x) = x)
<1> DEFINE m == 2 * Half
<1>1. m \in Nat /\ m > 0 /\ Half \in Nat /\ m = 2 * Half
  BY RangesAssumption
<1>2. (x + Half) % m \in 0..m - 1
  <2>1. \A y \in Int, d \in Nat \ {0} : y % d \in 0..d - 1
    OBVIOUS
  <2> HIDE DEF m
  <2> QED BY <1>1, <2>1
<1>3. ASSUME x \in Ints PROVE (x + Half) % m = x + Half
  <2>1. x + Half \in 0..m - 1
    BY <1>1, <1>3 DEF Ints
  <2>2. \A y \in Nat, d \in Nat \ {0} : y < d => y % d = y
    OBVIOUS
  <2> HIDE DEF m
  <2> QED BY <1>1, <2>1, <2>2
<1> QED BY <1>1, <1>2, <1>3 DEF Wrap, Ints

\* A word that is not negative reads the same either way.
LEMMA ReadingSame ==
  ASSUME NEW kind, NEW x \in Ints, kind = "UINT" => x >= 0
  PROVE  Reading(kind, x) = x
<1>1. kind = "UINT" => x \in Nat /\ x < 2 * Half /\ 2 * Half \in Nat \ {0}
  BY RangesAssumption DEF Ints
<1>2. \A y \in Nat, d \in Nat \ {0} : y < d => y % d = y
  OBVIOUS
<1> QED BY <1>1, <1>2 DEF Reading

\* The constants of a function are Ints.
LEMMA CodeFacts ==
  ASSUME NEW c \in Codes
  PROVE  /\ c.kind \in Kinds /\ c.init \in Ints /\ c.op \in {"ADD", "SUB"} /\ c.step \in Ints
         /\ c.cmp \in {"LT", "LTE", "GT", "GTE"} /\ c.flipped \in BOOLEAN /\ c.bound \in Ints
         /\ Delta(c) \in Int
<1>1. \A x \in Inits \cup Steps \cup Bounds : Wrap(x) \in Ints
  BY WrapFacts, RangesAssumption
<1>2. /\ c.kind \in Kinds /\ c.init \in Ints /\ c.op \in {"ADD", "SUB"} /\ c.step \in Ints
      /\ c.cmp \in {"LT", "LTE", "GT", "GTE"} /\ c.flipped \in BOOLEAN /\ c.bound \in Ints
  BY <1>1 DEF Codes
<1> QED BY <1>2, RangesAssumption DEF Delta, Ints

\* The comparison as it is normalised, of a signed value.
Signed(c, x) ==
  LET cmp == IF c.flipped THEN Invert(c.cmp) ELSE c.cmp
  IN  CASE cmp = "LT" -> x < c.bound [] cmp = "LTE" -> x <= c.bound
        [] cmp = "GT" -> x > c.bound [] OTHER -> x >= c.bound

\* The range of a counter: it has the first value, and the next one of every
\* value that passes the test.
LEMMA CountingFacts ==
  ASSUME NEW c \in Codes, ~Counting(c).top
  PROVE  LET r == Counting(c) IN
         /\ r.top = FALSE /\ r.min \in Ints /\ r.max \in Ints /\ r.min <= r.max
         /\ c.init \in r.min..r.max
         /\ \A x \in r.min..r.max : Signed(c, x) => x + Delta(c) \in r.min..r.max
<1> DEFINE d == Delta(c)
           cmp == IF c.flipped THEN Invert(c.cmp) ELSE c.cmp
           i == c.init
           b == c.bound
<1>1. /\ i \in Ints /\ b \in Ints /\ d \in Int /\ Half \in Nat /\ Ints \subseteq Int
      /\ i \in Int /\ b \in Int
  BY CodeFacts, RangesAssumption DEF Ints
<1>2. cmp \in {"LT", "LTE", "GT", "GTE"}
  BY CodeFacts DEF Invert
<1>3. Top.top = TRUE
  BY DEF Top
<1>4. \A x, y : Interval(x, y).top = FALSE /\ Interval(x, y).min = x /\ Interval(x, y).max = y
  BY DEF Interval
<1>5. ASSUME NEW x \in Int
      PROVE  /\ cmp = "LT" => (Signed(c, x) <=> x < b)
             /\ cmp = "LTE" => (Signed(c, x) <=> x <= b)
             /\ cmp = "GT" => (Signed(c, x) <=> x > b)
             /\ cmp = "GTE" => (Signed(c, x) <=> x >= b)
  BY DEF Signed
<1>6. Counting(c) =
        IF d \notin Ints \ {0} THEN Top ELSE
        CASE d > 0 /\ cmp = "LT" -> CountUp(i, b - 1, d)
        [] d > 0 /\ cmp = "LTE" -> CountUp(i, b, d)
        [] d < 0 /\ cmp = "GT" -> CountDown(i, b + 1, d)
        [] d < 0 /\ cmp = "GTE" -> CountDown(i, b, d)
        [] OTHER -> Top
  BY DEF Counting
<1> DEFINE Good(r) ==
      /\ r.top = FALSE /\ r.min \in Ints /\ r.max \in Ints /\ r.min <= r.max
      /\ i \in r.min..r.max
      /\ \A x \in r.min..r.max : Signed(c, x) => x + d \in r.min..r.max
<1> HIDE DEF d, cmp, i, b
<1>7. ASSUME d > 0, NEW h \in Int, ~CountUp(i, h, d).top, \A x \in Int : Signed(c, x) => x <= h
      PROVE  Good(CountUp(i, h, d))
  <2>1. CASE i > h
    <3>1. CountUp(i, h, d) = Interval(i, i)
      BY <2>1 DEF CountUp, Const
    <3> QED BY <1>1, <1>4, <1>7, <2>1, <3>1
  <2>2. CASE ~(i > h)
    <3>1. h + d \in Ints /\ CountUp(i, h, d) = Interval(i, h + d)
      BY <1>3, <1>7, <2>2 DEF CountUp
    <3> QED BY <1>1, <1>4, <1>7, <2>2, <3>1
  <2> QED BY <2>1, <2>2
<1>8. ASSUME d < 0, NEW h \in Int, ~CountDown(i, h, d).top, \A x \in Int : Signed(c, x) => x >= h
      PROVE  Good(CountDown(i, h, d))
  <2>1. CASE i < h
    <3>1. CountDown(i, h, d) = Interval(i, i)
      BY <2>1 DEF CountDown, Const
    <3> QED BY <1>1, <1>4, <1>8, <2>1, <3>1
  <2>2. CASE ~(i < h)
    <3>1. h + d \in Ints /\ CountDown(i, h, d) = Interval(h + d, i)
      BY <1>3, <1>8, <2>2 DEF CountDown
    <3> QED BY <1>1, <1>4, <1>8, <2>2, <3>1
  <2> QED BY <2>1, <2>2
<1>9. Good(Counting(c))
  <2> HIDE DEF Good
  <2>1. CASE d > 0 /\ cmp = "LT" /\ d \in Ints
    <3>1. Counting(c) = CountUp(i, b - 1, d)
      BY <1>6, <2>1
    <3>2. \A x \in Int : Signed(c, x) => x <= b - 1
      BY <1>1, <1>5, <2>1
    <3> QED BY <1>1, <1>7, <2>1, <3>1, <3>2
  <2>2. CASE d > 0 /\ cmp = "LTE" /\ d \in Ints
    <3>1. Counting(c) = CountUp(i, b, d)
      BY <1>6, <2>2
    <3>2. \A x \in Int : Signed(c, x) => x <= b
      BY <1>1, <1>5, <2>2
    <3> QED BY <1>1, <1>7, <2>2, <3>1, <3>2
  <2>3. CASE d < 0 /\ cmp = "GT" /\ d \in Ints
    <3>1. Counting(c) = CountDown(i, b + 1, d)
      BY <1>1, <1>6, <2>3
    <3>2. \A x \in Int : Signed(c, x) => x >= b + 1
      BY <1>1, <1>5, <2>3
    <3> QED BY <1>1, <1>8, <2>3, <3>1, <3>2
  <2>4. CASE d < 0 /\ cmp = "GTE" /\ d \in Ints
    <3>1. Counting(c) = CountDown(i, b, d)
      BY <1>1, <1>6, <2>4
    <3>2. \A x \in Int : Signed(c, x) => x >= b
      BY <1>1, <1>5, <2>4
    <3> QED BY <1>1, <1>8, <2>4, <3>1, <3>2
  <2>5. CASE ~(d > 0 /\ cmp = "LT" /\ d \in Ints) /\ ~(d > 0 /\ cmp = "LTE" /\ d \in Ints)
             /\ ~(d < 0 /\ cmp = "GT" /\ d \in Ints) /\ ~(d < 0 /\ cmp = "GTE" /\ d \in Ints)
    <3>1. d \in Ints \ {0} => ~(d > 0 /\ cmp = "LT") /\ ~(d > 0 /\ cmp = "LTE")
                               /\ ~(d < 0 /\ cmp = "GT") /\ ~(d < 0 /\ cmp = "GTE")
      BY <2>5
    <3>2. Counting(c) = Top
      <4>1. CASE d \in Ints \ {0}
        BY <1>6, <3>1, <4>1, Zenon
      <4>2. CASE d \notin Ints \ {0}
        BY <1>1, <1>6, <4>2
      <4> QED BY <4>1, <4>2
    <3> QED BY <1>3, <3>2
  <2> QED BY <2>1, <2>2, <2>3, <2>4, <2>5
<1> QED BY <1>9 DEF d, i

\* Sets of numbers have a least element.
LEMMA LeastElement ==
  ASSUME NEW S, S \subseteq Nat, S # {}
  PROVE  \E x \in S : \A y \in S : x <= y
<1>1. \E x \in S : \A y \in S : ~ (<<y, x>> \in OpToRel(<, Nat))
  BY NatLessThanWellFounded, WFMin, Zenon
<1>2. PICK x \in S : \A y \in S : ~ (<<y, x>> \in OpToRel(<, Nat))
  BY <1>1, Zenon
<1>3. x \in S
  BY <1>2, Zenon
<1>4. \A y \in S : <<y, x>> \in Nat \X Nat /\ ~(y < x)
  BY <1>2, <1>3 DEF OpToRel
<1>5. \A y \in S : x <= y
  <2>1. x \in Nat /\ \A y \in S : y \in Nat /\ ~(y < x)
    BY <1>3, <1>4
  <2> QED BY <2>1
<1> QED BY <1>3, <1>5

\* The extremes of a set of Ints.
LEMMA Extremes ==
  ASSUME NEW S, S \subseteq Ints, S # {}
  PROVE  /\ Min(S) \in S /\ \A y \in S : Min(S) <= y
         /\ Max(S) \in S /\ \A y \in S : y <= Max(S)
<1>1. Half \in Nat /\ \A x \in S : x \in Int /\ x + Half \in Nat /\ Half - x \in Nat
  BY RangesAssumption DEF Ints
<1>2. \E x \in S : \A y \in S : x <= y
  <2> DEFINE T == {x + Half : x \in S}
  <2>1. T \subseteq Nat /\ T # {}
    BY <1>1
  <2>2. PICK t \in T : \A y \in T : t <= y
    <3> HIDE DEF T
    <3> QED BY <2>1, LeastElement
  <2>3. PICK x \in S : t = x + Half
    BY <2>2
  <2>4. \A y \in S : x + Half <= y + Half
    BY <2>2, <2>3
  <2> QED BY <1>1, <2>3, <2>4
<1>3. \E x \in S : \A y \in S : x >= y
  <2> DEFINE T == {Half - x : x \in S}
  <2>1. T \subseteq Nat /\ T # {}
    BY <1>1
  <2>2. PICK t \in T : \A y \in T : t <= y
    <3> HIDE DEF T
    <3> QED BY <2>1, LeastElement
  <2>3. PICK x \in S : t = Half - x
    BY <2>2
  <2>4. \A y \in S : Half - x <= Half - y
    BY <2>2, <2>3
  <2> QED BY <1>1, <2>3, <2>4
<1>4. Min(S) \in S /\ \A y \in S : Min(S) <= y
  BY <1>2 DEF Min
<1>5. Max(S) \in S /\ \A y \in S : Max(S) >= y
  BY <1>3 DEF Max
<1> QED BY <1>1, <1>4, <1>5

\* A product lies between the products of the ends.
LEMMA ProductBetween ==
  ASSUME NEW a \in Int, NEW b \in Int, NEW c \in Int, NEW d \in Int,
         NEW v \in a..b, NEW x \in c..d, NEW lo \in Int, NEW hi \in Int,
         a * c \in lo..hi, a * d \in lo..hi, b * c \in lo..hi, b * d \in lo..hi
  PROVE  v * x \in lo..hi
<1>1. ASSUME NEW u \in Int, NEW w \in Int, NEW y \in Int, u <= w
      PROVE  (y >= 0 => u * y <= w * y) /\ (y <= 0 => w * y <= u * y)
  <2>1. PICK k \in Nat : w = u + k
    <3>1. w - u \in Nat /\ w = u + (w - u)
      BY <1>1
    <3> QED BY <3>1
  <2>2. w * y = u * y + k * y
    BY <2>1
  <2>3. u * y \in Int /\ k * y \in Int
    BY <2>1
  <2>4. (y >= 0 => k * y >= 0) /\ (y <= 0 => k * y <= 0)
    BY <2>1
  <2> QED BY <2>2, <2>3, <2>4
<1>2. ASSUME NEW e \in Int, e * c \in lo..hi, e * d \in lo..hi
      PROVE  e * x \in lo..hi
  <2>1. x \in Int /\ c <= x /\ x <= d
    OBVIOUS
  <2>2. /\ (e >= 0 => c * e <= x * e /\ x * e <= d * e)
        /\ (e <= 0 => x * e <= c * e /\ d * e <= x * e)
    BY <1>1, <2>1
  <2>3. c * e = e * c /\ x * e = e * x /\ d * e = e * d
    BY <2>1
  <2>4. e * x \in Int /\ e * c \in Int /\ e * d \in Int
    BY <2>1
  <2> QED BY ONLY <1>2, <2>2, <2>3, <2>4, e \in Int, lo \in Int, hi \in Int
<1>3. a * x \in lo..hi /\ b * x \in lo..hi
  BY <1>2
<1>4. v \in Int /\ x \in Int /\ a <= v /\ v <= b
  OBVIOUS
<1>5. /\ (x >= 0 => a * x <= v * x /\ v * x <= b * x)
      /\ (x <= 0 => v * x <= a * x /\ b * x <= v * x)
  BY <1>1, <1>4
<1>6. v * x \in Int
  BY <1>4
<1> QED BY ONLY <1>3, <1>4, <1>5, <1>6, lo \in Int, hi \in Int

\* A type is chosen: the range is known, the type holds it, and a value in it
\* reads as it is.
LEMMA NarrowedFacts ==
  ASSUME NEW kind, NEW r, r.min \in Ints, r.max \in Ints, r.top \in BOOLEAN,
         NarrowedType(kind, r) # Half
  PROVE  /\ ~r.top
         /\ \A x \in r.min..r.max :
              /\ x \in Ints /\ Reading(kind, x) = x /\ x \in Holds(kind, NarrowedType(kind, r))
              /\ kind = "UINT" => x >= 0
<1> DEFINE fits == {h \in Narrow : r.min \in Holds(kind, h) /\ r.max \in Holds(kind, h)}
           h == NarrowedType(kind, r)
<1>1. ~r.top /\ fits # {} /\ h = Min(fits)
  BY DEF NarrowedType
<1>2. fits \subseteq Ints
  <2>1. fits \subseteq Narrow
    OBVIOUS
  <2>2. Narrow \subseteq Ints
    BY RangesAssumption DEF Ints
  <2> QED BY ONLY <2>1, <2>2
<1>3. h \in fits
  <2> HIDE DEF fits
  <2> QED BY <1>1, <1>2, Extremes
<1>4. h \in Nat /\ r.min \in Holds(kind, h) /\ r.max \in Holds(kind, h)
  <2>1. h \in Narrow /\ r.min \in Holds(kind, h) /\ r.max \in Holds(kind, h)
    <3> HIDE DEF h
    <3> QED BY <1>3
  <2> HIDE DEF h
  <2> QED BY <2>1, RangesAssumption
<1> HIDE DEF h
<1>5. ASSUME NEW x \in r.min..r.max
      PROVE  x \in Ints /\ x \in Holds(kind, h) /\ (kind = "UINT" => x >= 0)
  BY <1>4, RangesAssumption DEF Holds, Ints
<1>6. \A x \in r.min..r.max : Reading(kind, x) = x
  BY <1>5, ReadingSame
<1> QED BY <1>1, <1>5, <1>6 DEF h

\* What is computed from values in two ranges is in the range computed from
\* those, if that one is narrow.
LEMMA EvalHolds ==
  ASSUME NEW kind, NEW op \in {"ADD", "SUB", "MUL"}, NEW a, NEW b,
         ~a.top, a.min \in Ints, a.max \in Ints, ~b.top, b.min \in Ints, b.max \in Ints,
         NEW v \in a.min..a.max, NEW x \in b.min..b.max,
         NarrowedType(kind, EvalValue(op, a, b)) # Half
  PROVE  LET r == EvalValue(op, a, b)
             result == CASE op = "ADD" -> v + x [] op = "SUB" -> v - x [] OTHER -> v * x
         IN  Reading(kind, Wrap(result)) \in r.min..r.max
<1> DEFINE r == EvalValue(op, a, b)
           result == CASE op = "ADD" -> v + x [] op = "SUB" -> v - x [] OTHER -> v * x
<1>1. /\ a.min \in Int /\ a.max \in Int /\ b.min \in Int /\ b.max \in Int
      /\ v \in Int /\ x \in Int /\ a.min <= v /\ v <= a.max /\ b.min <= x /\ x <= b.max
  BY RangesAssumption DEF Ints
<1> DEFINE S == CASE op = "ADD" -> {a.min + b.min, a.max + b.max}
                  [] op = "SUB" -> {a.min - b.max, a.max - b.min}
                  [] OTHER -> {y * z : y \in {a.min, a.max}, z \in {b.min, b.max}}
<1>2. r = Spanning(S)
  <2>1. CASE op = "ADD"
    BY <2>1 DEF EvalValue, RangeAdd
  <2>2. CASE op = "SUB"
    BY <2>2 DEF EvalValue, RangeSub
  <2>3. CASE op = "MUL"
    BY <2>3 DEF EvalValue, RangeMul
  <2> QED BY <2>1, <2>2, <2>3
<1>3. NarrowedType(kind, Top) = Half
  BY DEF NarrowedType, Top
<1>4. S \subseteq Ints /\ r = Interval(Min(S), Max(S))
  <2> HIDE DEF S
  <2> QED BY <1>2, <1>3 DEF Spanning
<1>5. S # {}
  <2>1. op = "ADD" => S = {a.min + b.min, a.max + b.max}
    OBVIOUS
  <2>2. op = "SUB" => S = {a.min - b.max, a.max - b.min}
    OBVIOUS
  <2>3. op = "MUL" => a.min * b.min \in S
    OBVIOUS
  <2> HIDE DEF S
  <2> QED BY <2>1, <2>2, <2>3
<1>6. /\ r.top = FALSE /\ r.min \in Ints /\ r.max \in Ints
      /\ \A y \in S : y \in Int /\ r.min <= y /\ y <= r.max
  <2>1. r.top = FALSE /\ r.min = Min(S) /\ r.max = Max(S)
    BY <1>4 DEF Interval
  <2> HIDE DEF S, r
  <2>2. /\ Min(S) \in S /\ \A y \in S : Min(S) <= y
        /\ Max(S) \in S /\ \A y \in S : y <= Max(S)
    BY <1>4, <1>5, Extremes
  <2>3. \A y \in S : y \in Int
    BY <1>4, RangesAssumption DEF Ints
  <2> QED BY <1>4, <2>1, <2>2, <2>3
<1>7. r.min \in Int /\ r.max \in Int
  <2> HIDE DEF r
  <2> QED BY <1>6, RangesAssumption DEF Ints
<1>8. result \in r.min..r.max
  <2>1. CASE op = "ADD"
    <3>1. /\ a.min + b.min \in S /\ a.max + b.max \in S /\ result = v + x
      BY <2>1
    <3> HIDE DEF S, r, result
    <3> QED BY <1>1, <1>6, <1>7, <3>1
  <2>2. CASE op = "SUB"
    <3>1. /\ a.min - b.max \in S /\ a.max - b.min \in S /\ result = v - x
      BY <2>2
    <3> HIDE DEF S, r, result
    <3> QED BY <1>1, <1>6, <1>7, <3>1
  <2>3. CASE op = "MUL"
    <3>1. /\ a.min * b.min \in S /\ a.min * b.max \in S /\ a.max * b.min \in S /\ a.max * b.max \in S
          /\ result = v * x
      BY <2>3
    <3> HIDE DEF S, r, result
    <3>2. /\ a.min * b.min \in r.min..r.max /\ a.min * b.max \in r.min..r.max
          /\ a.max * b.min \in r.min..r.max /\ a.max * b.max \in r.min..r.max
      BY <1>6, <1>7, <3>1
    <3>3. v * x \in r.min..r.max
      BY <1>1, <1>7, <3>2, ProductBetween
    <3> QED BY <3>1, <3>3
  <2> QED BY <2>1, <2>2, <2>3
<1> HIDE DEF S, r, result
<1>9. result \in Ints /\ Reading(kind, result) = result
  BY <1>6, <1>8, NarrowedFacts DEF r
<1>10. Wrap(result) = result
  BY <1>9, WrapFacts, RangesAssumption DEF Ints
<1> QED BY <1>8, <1>9, <1>10 DEF r, result

\* A bound that is an Int is tested as the analysis takes it to be tested.
LEMMA CompareSigned ==
  ASSUME code \in Codes, BoundIsInt,
         NEW x \in Ints, code.kind = "UINT" => x >= 0
  PROVE  Compare(x) <=> Signed(code, x)
<1>1. /\ code.kind \in Kinds /\ code.bound \in Ints
      /\ code.cmp \in {"LT", "LTE", "GT", "GTE"} /\ code.flipped \in BOOLEAN
  BY CodeFacts
<1>3. Reading(code.kind, x) = x /\ Reading(code.kind, code.bound) = code.bound
  BY <1>1, ReadingSame DEF BoundIsInt
<1>4. x \in Int /\ code.bound \in Int
  BY <1>1, RangesAssumption DEF Ints
<1>5. CASE ~code.flipped
  BY <1>1, <1>3, <1>4, <1>5 DEF Compare, Signed
<1>6. CASE code.flipped
  <2>1. CASE code.cmp = "LT"
    BY <1>3, <1>4, <1>6, <2>1 DEF Compare, Signed, Invert
  <2>2. CASE code.cmp = "LTE"
    BY <1>3, <1>4, <1>6, <2>2 DEF Compare, Signed, Invert
  <2>3. CASE code.cmp = "GT"
    BY <1>3, <1>4, <1>6, <2>3 DEF Compare, Signed, Invert
  <2>4. CASE code.cmp = "GTE"
    BY <1>3, <1>4, <1>6, <2>4 DEF Compare, Signed, Invert
  <2> QED BY <1>1, <2>1, <2>2, <2>3, <2>4
<1> QED BY <1>1, <1>5, <1>6

(***************************************************************************)
(* The loop.                                                               *)
(***************************************************************************)

\* The blocks of the loop that follow a block before the next test.
Onward == [b \in Blocks |-> (Succs(b) \cap Member) \ {Header}]

\* Those that follow the update.
Again == Closure(Onward[place.updateAt], Onward)

\* The blocks that are reached from the first store before the load.
Unloaded ==
  Closure(IF place.initAt = place.loadAt THEN {} ELSE Succs(place.initAt),
          [b \in Blocks |-> IF b = place.loadAt THEN {} ELSE Succs(b)])

\* Two blocks do not dominate each other.
LEMMA DominatesOneWay ==
  ASSUME succs \in Graphs, NEW a \in Blocks, NEW b \in Blocks, a # b, Dominates(a, b)
  PROVE  a \in Avoid(b)
<1>1. SUFFICES ASSUME a \notin Avoid(b) PROVE FALSE
  OBVIOUS
<1> DEFINE T == Avoid(a) \cap Avoid(b)
<1>2. b \notin Avoid(a) /\ b \in Reachable
  BY DEF Dominates
<1>3. 0 \in T /\ T \in SUBSET Blocks
  BY <1>1, <1>2, AvoidFacts
<1>4. ASSUME NEW x \in T, NEW c \in Succs(x) PROVE c \in T
  <2>1. c # a /\ c # b
    BY <1>1, <1>2, <1>4, AvoidFacts
  <2> QED BY <2>1, AvoidFacts
<1>5. Reachable \subseteq T
  <2>1. \A x \in T : Succs(x) \subseteq T
    BY <1>4
  <2> HIDE DEF T
  <2> QED BY <1>3, <2>1, ReachableFacts
<1> QED BY <1>2, <1>5

\* A loop is entered through its header only.
LEMMA MemberFacts ==
  ASSUME DomInv, phase # "dominators", Header \in Reachable
  PROVE  /\ Member \in SUBSET Blocks /\ 0 \notin Member
         /\ \A q \in Reachable, b \in Member \ {Header} : b \in Succs(q) => q \in Member
<1> DEFINE inside == [b \in Blocks |-> {p \in Preds(b) : Header \in dom[p]} \ {Header}]
           S == Latches \ {Header}
           C == Closure(S, inside)
<1>0. succs \in Graphs /\ \A a, b \in Blocks : a \in dom[b] <=> Dominates(a, b)
  BY DEF DomInv
<1>1. S \in SUBSET Blocks /\ inside \in [Blocks -> SUBSET Blocks]
  BY DEF Latches, Preds
<1>2. Member = {Header} \cup C
  BY DEF Member
<1>3. C \in SUBSET Blocks /\ \A b \in C : inside[b] \subseteq C
  <2> HIDE DEF S, inside
  <2> QED BY <1>1, ClosureFacts
<1>4. C \subseteq {b \in Blocks : Header \in dom[b]}
  <2> DEFINE T == {b \in Blocks : Header \in dom[b]}
  <2>1. T \in SUBSET Blocks /\ S \subseteq T /\ \A b \in T : inside[b] \subseteq T
    BY DEF Latches, Preds
  <2> HIDE DEF S, inside, T
  <2>2. Closure(S, inside) \subseteq T
    BY <2>1, ClosureLeast
  <2> QED BY <2>2 DEF T
<1>5. ASSUME NEW q \in Reachable, NEW b \in Member \ {Header}, b \in Succs(q) PROVE q \in Member
  <2> HIDE DEF C
  <2>1. b \in C /\ b \in Blocks /\ q \in Blocks
    BY <1>0, <1>2, <1>3, <1>5, ReachableFacts
  <2>2. Dominates(Header, b)
    BY <1>0, <1>4, <2>1, ZeroBlock
  <2>3. Dominates(Header, q)
    BY <1>0, <1>5, <2>2, ZeroBlock, DominatesBack
  <2>4. q \in Preds(b) /\ Header \in dom[q]
    BY <1>0, <1>5, <2>1, <2>3, ZeroBlock DEF Preds
  <2>5. q \in inside[b] \/ q = Header
    BY <2>1, <2>4
  <2> QED BY <1>2, <1>3, <2>1, <2>5
<1>6. 0 \notin Member
  <2>1. Header # 0 /\ 0 \in Avoid(Header)
    BY <1>0, ZeroBlock, AvoidFacts DEF Header
  <2>2. ~Dominates(Header, 0)
    BY <2>1 DEF Dominates
  <2> HIDE DEF C
  <2> QED BY <1>0, <1>2, <1>4, <2>1, <2>2, ZeroBlock
<1> QED BY <1>2, <1>3, <1>5, <1>6, ZeroBlock

\* What is known of the function once its counter has a range.
Compiled ==
  /\ phase # "run" => /\ place = Nowhere /\ code = NoCode /\ range = Top
                      /\ at = 0 /\ value = None /\ loaded = None
  /\ phase = "run" => /\ place \in Places /\ Lowered(place) /\ StructureOk(place)
                      /\ code \in Codes /\ range = Counting(code) /\ ~range.top

\* Where the stores and the load are: the first store is before the loop and
\* before the load, the update in the loop, and the loop runs while the test holds.
LEMMA LoopFacts ==
  ASSUME DomInv, Compiled, phase = "run"
  PROVE  /\ place.initAt \in Blocks /\ place.loadAt \in Blocks /\ place.updateAt \in Blocks
         /\ place.initAt \notin Member /\ place.initAt \notin {Header, place.updateAt}
         /\ place.updateAt \in Member \ {Header}
         /\ succs[Header][2] \notin Member
         /\ Header \notin Avoid(place.initAt) /\ place.loadAt \notin Avoid(place.initAt)
         /\ \A q \in Reachable, b \in Member \ {Header} : b \in Succs(q) => q \in Member
<1> DEFINE I == place.initAt
           L == place.loadAt
           U == place.updateAt
<1>1. I \in Blocks /\ L \in Blocks /\ U = 2 /\ U \in Blocks
  BY ZeroBlock DEF Compiled, Places
<1>2. I \notin {Header, U} /\ I \in dom[L] /\ L \in dom[U] /\ I \in dom[Header]
  BY DEF Compiled, Lowered, StructureOk
<1>3. I \notin Member /\ U \in Member /\ succs[Header][2] \notin Member
  BY DEF Compiled, StructureOk
<1>4. Dominates(I, L) /\ Dominates(L, U) /\ Dominates(I, Header)
  BY <1>1, <1>2, ZeroBlock DEF DomInv
<1>5. Header \in Reachable /\ Header \notin Avoid(I) /\ L \notin Avoid(I)
  BY <1>4 DEF Dominates
<1>6. \A q \in Reachable, b \in Member \ {Header} : b \in Succs(q) => q \in Member
  BY <1>5, MemberFacts DEF DomInv
<1>7. U # Header
  BY <1>1 DEF Header
<1> QED BY <1>1, <1>2, <1>3, <1>5, <1>6, <1>7

\* The update is not repeated before the header.
LEMMA AgainFacts ==
  ASSUME DomInv, Compiled, phase = "run"
  PROVE  /\ place.updateAt \notin Again
         /\ \A b \in Again \cup {place.updateAt} : (Succs(b) \cap Member) \ {Header} \subseteq Again
<1> DEFINE U == place.updateAt
<1>0. succs \in Graphs
  BY DEF DomInv
<1>1. U \in Blocks /\ U \notin Again
  <2>1. U \notin Closure(Onward[U], Onward)
    BY DEF Compiled, StructureOk, RepeatsBeforeHeader, Onward
  <2> QED BY <2>1, LoopFacts DEF Again
<1>2. /\ Onward \in [Blocks -> SUBSET Blocks]
      /\ \A b \in Blocks : Onward[b] = (Succs(b) \cap Member) \ {Header}
  BY <1>0, SuccsFacts DEF Onward
<1>3. /\ Again \in SUBSET Blocks /\ Onward[U] \subseteq Again
      /\ \A b \in Again : Onward[b] \subseteq Again
  BY <1>1, <1>2, ClosureFacts DEF Again
<1> QED BY <1>1, <1>2, <1>3

\* The load comes between the first store and the update.
LEMMA UnloadedFacts ==
  ASSUME DomInv, Compiled, phase = "run"
  PROVE  /\ place.loadAt # place.updateAt => place.updateAt \notin Unloaded
         /\ place.loadAt # place.initAt => Succs(place.initAt) \subseteq Unloaded
         /\ \A b \in Unloaded : b # place.loadAt => Succs(b) \subseteq Unloaded
<1> DEFINE I == place.initAt
           L == place.loadAt
           U == place.updateAt
           S == IF I = L THEN {} ELSE Succs(I)
           step == [b \in Blocks |-> IF b = L THEN {} ELSE Succs(b)]
<1>0. succs \in Graphs
  BY DEF DomInv
<1>1. I \in Blocks /\ L \in Blocks /\ U \in Blocks
  BY LoopFacts
<1>2. S \in SUBSET Blocks /\ step \in [Blocks -> SUBSET Blocks]
  BY <1>0, <1>1, SuccsFacts
<1>3. Unloaded = Closure(S, step)
  BY DEF Unloaded
<1>4. /\ Unloaded \in SUBSET Blocks /\ S \subseteq Unloaded
      /\ \A b \in Unloaded : step[b] \subseteq Unloaded
  <2> HIDE DEF S, step
  <2> QED BY <1>2, <1>3, ClosureFacts
<1>5. ASSUME L # U PROVE U \notin Unloaded
  <2>1. CASE I = L
    <3>1. S \subseteq {} /\ \A b \in {} : step[b] \subseteq {}
      BY <2>1
    <3>2. Unloaded \subseteq {}
      <4> HIDE DEF S, step
      <4> QED BY <1>3, <3>1, ClosureLeast
    <3> QED BY <3>2
  <2>2. CASE I # L
    <3>1. I \in dom[L] /\ L \in dom[U]
      BY DEF Compiled, Lowered
    <3>2. Dominates(I, L) /\ Dominates(L, U)
      BY <1>1, <3>1 DEF DomInv
    <3>3. I \in Avoid(L)
      BY <1>0, <1>1, <2>2, <3>2, DominatesOneWay
    <3> DEFINE T == Avoid(L) \cup {L}
    <3>4. T \in SUBSET Blocks /\ S \subseteq T
      BY <1>0, <1>1, <3>3, AvoidFacts
    <3>5. \A b \in T : step[b] \subseteq T
      BY <1>0, <1>1, AvoidFacts
    <3>6. Unloaded \subseteq T
      <4> HIDE DEF S, step, T
      <4> QED BY <1>3, <3>4, <3>5, ClosureLeast
    <3>7. U \notin T
      BY <1>5, <3>2 DEF Dominates
    <3> QED BY <3>6, <3>7
  <2> QED BY <2>1, <2>2
<1> QED BY <1>4, <1>5

(***************************************************************************)
(* The run.                                                                *)
(***************************************************************************)

\* Nothing is stored yet only before the first store; past the header's test
\* and before the update the counter passes the test, if the header makes it; so
\* does the value that was loaded, wherever the load is, since the update is what
\* follows it.
Running ==
  phase = "run" =>
    /\ at \in Reachable /\ value \in Ints \cup {None} /\ loaded \in Ints \cup {None}
    /\ value = None => at = place.initAt \/ at \in Avoid(place.initAt)
    /\ loaded # None => value # None
    /\ TestInHeader /\ at \in Member \ {Header} /\ at \notin Again
       => value # None /\ Compare(value)
    /\ /\ TestInHeader /\ place.loadAt # place.updateAt /\ value # None
       /\ at \notin Unloaded /\ Compare(value)
       => loaded # None /\ Compare(loaded)

\* The counter, and what was loaded of it, are in its range, if the program makes
\* the test the analysis takes it to make.
InRange ==
  phase = "run" /\ TestInHeader /\ BoundIsInt /\ Narrowed(range) =>
    /\ value # None => value \in range.min..range.max
    /\ loaded # None => loaded \in range.min..range.max

\* Before the analysis nothing is known and nothing has run.
LEMMA InitRun == RangesInit => Compiled /\ Running /\ InRange
BY DEF RangesInit, Compiled, Running, InRange

\* What a block that runs leaves alone.
LEMMA BlockKeeps ==
  ASSUME Block
  PROVE  /\ phase' = phase /\ succs' = succs /\ dom' = dom /\ place' = place
         /\ code' = code /\ range' = range
         /\ Reachable' = Reachable /\ Avoid(place.initAt)' = Avoid(place.initAt)
         /\ Member' = Member /\ Again' = Again /\ Unloaded' = Unloaded
         /\ \A b : Succs(b)' = Succs(b)
         /\ \A x : Compare(x)' = Compare(x)
         /\ Narrowed(range)' = Narrowed(range)
         /\ TestInHeader' = TestInHeader /\ BoundIsInt' = BoundIsInt
<1>1. /\ phase' = phase /\ succs' = succs /\ dom' = dom /\ place' = place
      /\ code' = code /\ range' = range
  BY DEF Block
<1>2. \A b : Succs(b)' = Succs(b) /\ Preds(b)' = Preds(b)
  BY <1>1 DEF Succs, Preds
<1>3. Reachable' = Reachable /\ Avoid(place.initAt)' = Avoid(place.initAt)
  BY <1>1 DEF Reachable, Avoid, Closure, Succs
<1>4. Member' = Member
  BY <1>1 DEF Member, Latches, Preds, Succs, Closure
<1>5. Again' = Again
  <2>1. Onward' = Onward
    BY <1>2, <1>4 DEF Onward
  <2> QED BY <1>1, <2>1 DEF Again, Closure
<1>6. Unloaded' = Unloaded
  BY <1>1 DEF Unloaded, Closure, Succs
<1>7. \A x : Compare(x)' = Compare(x)
  BY <1>1 DEF Compare
<1>8. Narrowed(range)' = Narrowed(range)
  BY <1>1 DEF Narrowed
<1>9. TestInHeader' = TestInHeader /\ BoundIsInt' = BoundIsInt
  BY <1>1 DEF TestInHeader, BoundIsInt, Reading
<1> QED BY <1>1, <1>2, <1>3, <1>4, <1>5, <1>6, <1>7, <1>8, <1>9

\* A block that runs keeps the counter in its range: only the update could take
\* it out, and what the update adds to has passed the test.
LEMMA BlockRuns ==
  ASSUME DomInv, Compiled, Running, InRange, Block
  PROVE  Running' /\ InRange'
<1> DEFINE I == place.initAt
           L == place.loadAt
           U == place.updateAt
           start == IF I = at THEN code.init ELSE value
<1>0. phase = "run" /\ at # Exit /\ succs \in Graphs
  BY DEF Block, DomInv
<1>1. /\ loaded' = IF L = at THEN start ELSE loaded
      /\ TestInHeader /\ Header = at => test' = Compare(start)
      /\ value' = IF U = at THEN Wrap(loaded' + Delta(code)) ELSE start
      /\ IF at = Header THEN at' = succs[at][IF test' THEN 1 ELSE 2] ELSE at' \in Succs(at)
  BY <1>0 DEF Block, TestInHeader
<1>2. /\ I \in Blocks /\ L \in Blocks /\ U \in Blocks
      /\ I \notin Member /\ I \notin {Header, U} /\ U \in Member \ {Header}
      /\ succs[Header][2] \notin Member
      /\ Header \notin Avoid(I) /\ L \notin Avoid(I)
      /\ \A q \in Reachable, b \in Member \ {Header} : b \in Succs(q) => q \in Member
  BY <1>0, LoopFacts
<1>3. /\ at \in Reachable /\ value \in Ints \cup {None} /\ loaded \in Ints \cup {None}
      /\ value = None => at = I \/ at \in Avoid(I)
      /\ loaded # None => value # None
      /\ TestInHeader /\ at \in Member \ {Header} /\ at \notin Again
           => value # None /\ Compare(value)
      /\ TestInHeader /\ L # U /\ value # None /\ at \notin Unloaded /\ Compare(value)
           => loaded # None /\ Compare(loaded)
  BY <1>0 DEF Running
<1>4. code \in Codes /\ code.init \in Ints /\ Delta(code) \in Int
  BY <1>0, CodeFacts DEF Compiled
<1>5. None \notin Ints /\ None \in Int /\ Ints \subseteq Int
  BY RangesAssumption DEF None, Ints
<1>6. at' \in Succs(at) /\ at' \in Reachable
  <2>1. at \in Blocks
    BY <1>0, <1>3, ReachableFacts
  <2>2. at' \in Succs(at)
    BY <1>0, <1>1, SuccsFacts DEF Succs
  <2> QED BY <1>0, <1>3, <2>2, ReachableFacts
<1> HIDE DEF I, L, U
<1>7. start \in Ints \cup {None} /\ (start = None => value = None /\ at # I /\ at \in Avoid(I))
  BY <1>3, <1>4, <1>5
<1>8. value' \in Ints \cup {None} /\ loaded' \in Ints \cup {None}
  <2>1. loaded' \in Ints \cup {None}
    BY <1>1, <1>3, <1>7
  <2>2. loaded' + Delta(code) \in Int
    BY <1>4, <1>5, <2>1
  <2>3. Wrap(loaded' + Delta(code)) \in Ints
    BY <2>2, WrapFacts
  <2> HIDE DEF start
  <2> QED BY <1>1, <1>7, <2>1, <2>3
<1>9. ASSUME value' = None PROVE (at' = I \/ at' \in Avoid(I)) /\ loaded' = None
  <2>1. at # U
    <3>1. ASSUME at = U PROVE FALSE
      <4>1. loaded' + Delta(code) \in Int
        BY <1>4, <1>5, <1>8
      <4>2. value' \in Ints
        BY <1>1, <3>1, <4>1, WrapFacts
      <4> QED BY <1>5, <1>9, <4>2
    <3> QED BY <3>1
  <2>2. value = None /\ at # I /\ at \in Avoid(I)
    BY <1>1, <1>7, <1>9, <2>1
  <2>3. at' = I \/ at' \in Avoid(I)
    BY <1>0, <1>2, <1>6, <2>2, AvoidFacts
  <2>4. at # L /\ loaded = None
    BY <1>2, <1>3, <2>2
  <2> QED BY <1>1, <2>3, <2>4
<1>10. ASSUME TestInHeader, at' \in Member \ {Header}, at' \notin Again
       PROVE  value' # None /\ Compare(value')
  <2>1. at \in Member
    BY <1>2, <1>3, <1>6, <1>10
  <2>2. at # I /\ start = value
    BY <1>2, <2>1
  <2>3. CASE at = Header
    <3>1. test' /\ test' = Compare(value)
      BY <1>1, <1>2, <1>10, <2>2, <2>3
    <3>2. value' = value /\ value # None
      BY <1>1, <1>2, <1>3, <2>2, <2>3
    <3> QED BY <3>1, <3>2
  <2>4. CASE at # Header
    <3>1. at # U /\ at \notin Again
      BY <1>0, <1>6, <1>10, <2>4, AgainFacts DEF U
    <3> QED BY <1>1, <1>3, <1>10, <2>1, <2>2, <2>4, <3>1
  <2> QED BY <2>3, <2>4
<1>11. ASSUME TestInHeader, at = U PROVE loaded' # None /\ Compare(loaded')
  <2>1. at \in Member \ {Header} /\ at \notin Again /\ start = value
    BY <1>0, <1>2, <1>11, AgainFacts DEF U
  <2>2. value # None /\ Compare(value)
    BY <1>3, <1>11, <2>1
  <2>3. CASE L = U
    BY <1>1, <1>11, <2>1, <2>2, <2>3
  <2>4. CASE L # U
    <3>1. at \notin Unloaded
      BY <1>0, <1>11, <2>4, UnloadedFacts DEF U, L
    <3> HIDE DEF start
    <3> QED BY <1>1, <1>3, <1>11, <2>2, <2>4, <3>1
  <2> QED BY <2>3, <2>4
<1>12. ASSUME TestInHeader, L # U, value' # None, at' \notin Unloaded, Compare(value')
       PROVE  loaded' # None /\ Compare(loaded')
  <2>1. CASE at = L
    BY <1>1, <1>12, <2>1
  <2>2. CASE at # L /\ at = U
    BY <1>11, <1>12, <2>2
  <2>3. CASE at # L /\ at # U
    <3>1. at # I
      BY <1>0, <1>6, <1>12, <2>3, UnloadedFacts DEF I, L
    <3>2. at \notin Unloaded
      BY <1>0, <1>6, <1>12, <2>3, UnloadedFacts DEF L
    <3>3. value' = value /\ loaded' = loaded
      BY <1>1, <2>3, <3>1
    <3> QED BY <1>3, <1>12, <3>2, <3>3
  <2> QED BY <2>1, <2>2, <2>3
<1>13. Running'
  BY <1>6, <1>8, <1>9, <1>10, <1>12, BlockKeeps DEF Running, I, L, U
<1>14. ASSUME TestInHeader, BoundIsInt, Narrowed(range)
       PROVE  /\ value' # None => value' \in range.min..range.max
              /\ loaded' # None => loaded' \in range.min..range.max
  <2>1. /\ range = Counting(code) /\ ~Counting(code).top
    BY <1>0 DEF Compiled
  <2>2. /\ range.top = FALSE /\ range.min \in Ints /\ range.max \in Ints /\ range.min <= range.max
        /\ code.init \in range.min..range.max
        /\ \A x \in range.min..range.max : Signed(code, x) => x + Delta(code) \in range.min..range.max
    BY <1>4, <2>1, CountingFacts
  <2>3. \A x \in range.min..range.max : x \in Ints /\ (code.kind = "UINT" => x >= 0)
    BY <1>14, <2>2, NarrowedFacts DEF Narrowed
  <2>4. /\ value # None => value \in range.min..range.max
        /\ loaded # None => loaded \in range.min..range.max
    BY <1>0, <1>14 DEF InRange
  <2>5. start # None => start \in range.min..range.max
    BY <2>2, <2>4
  <2> HIDE DEF start
  <2>6. loaded' # None => loaded' \in range.min..range.max
    BY <1>1, <2>4, <2>5
  <2>7. ASSUME at = U PROVE value' \in range.min..range.max
    <3>1. loaded' \in range.min..range.max /\ Compare(loaded')
      BY <1>11, <1>14, <2>6, <2>7
    <3>2. Signed(code, loaded')
      BY <1>4, <1>14, <2>3, <3>1, CompareSigned
    <3>3. loaded' + Delta(code) \in range.min..range.max
      BY <2>2, <3>1, <3>2
    <3>4. Wrap(loaded' + Delta(code)) = loaded' + Delta(code)
      BY <1>5, <2>3, <3>3, WrapFacts
    <3> QED BY <1>1, <2>7, <3>3, <3>4
  <2> QED BY <1>1, <2>5, <2>6, <2>7
<1>15. InRange'
  BY <1>14, BlockKeeps DEF InRange
<1> QED BY <1>13, <1>15

\* What the parts of the analysis are made of.
LEMMA SameAnalysis ==
  ASSUME succs' = succs, dom' = dom, NEW p
  PROVE  /\ Reachable' = Reachable /\ Member' = Member
         /\ \A a : Avoid(a)' = Avoid(a)
         /\ Lowered(p)' = Lowered(p) /\ StructureOk(p)' = StructureOk(p)
<1>1. \A b : Succs(b)' = Succs(b) /\ Preds(b)' = Preds(b)
  BY DEF Succs, Preds
<1>2. Latches' = Latches
  BY <1>1 DEF Latches
<1>3. Member' = Member
  BY <1>1, <1>2 DEF Member, Closure
<1>4. Lowered(p)' = Lowered(p)
  BY <1>1 DEF Lowered, Unfolded, Closure
<1>5. RepeatsBeforeHeader(p.updateAt)' = RepeatsBeforeHeader(p.updateAt)
  <2> DEFINE u == p.updateAt
  <2>1. Onward' = Onward
    BY <1>1, <1>3 DEF Onward
  <2>2. RepeatsBeforeHeader(u) = (u \in Closure(Onward[u], Onward))
    BY DEF RepeatsBeforeHeader, Onward
  <2>3. RepeatsBeforeHeader(u)' = (u \in Closure(Onward'[u], Onward'))
    BY DEF RepeatsBeforeHeader, Onward, Closure
  <2> QED BY <2>1, <2>2, <2>3
<1>6. StructureOk(p)' = StructureOk(p)
  BY <1>1, <1>2, <1>3, <1>5 DEF StructureOk
<1>7. Reachable' = Reachable /\ \A a : Avoid(a)' = Avoid(a)
  BY <1>1 DEF Reachable, Avoid, Closure
<1> QED BY <1>3, <1>4, <1>6, <1>7

\* A function that gets a range starts in block 0, outside its loop.
LEMMA InferRuns ==
  ASSUME DomInv, Compiled, Infer
  PROVE  Compiled' /\ Running' /\ InRange'
<1>1. /\ phase = "infer" /\ phase' = "run" /\ succs' = succs /\ dom' = dom
      /\ at' = at /\ value' = value /\ loaded' = loaded
  BY DEF Infer
<1>2. at = 0 /\ value = None /\ loaded = None
  BY <1>1 DEF Compiled
<1>3. PICK p \in Places : /\ Lowered(p) /\ StructureOk(p) /\ place' = p
                          /\ code' \in Codes /\ range' = Counting(code') /\ ~range'.top
  BY DEF Infer
<1>4. /\ Reachable' = Reachable /\ Member' = Member
      /\ \A a : Avoid(a)' = Avoid(a)
      /\ Lowered(p)' = Lowered(p) /\ StructureOk(p)' = StructureOk(p)
  BY <1>1, SameAnalysis
<1>5. Compiled'
  BY <1>1, <1>3, <1>4 DEF Compiled
<1>6. succs \in Graphs /\ \A a, b \in Blocks : a \in dom[b] <=> Dominates(a, b)
  BY <1>1 DEF DomInv
<1>7. p.initAt \in Blocks /\ Dominates(p.initAt, Header)
  BY <1>3, <1>6, ZeroBlock DEF Places, StructureOk
<1>8. 0 \notin Member
  BY <1>1, <1>7, MemberFacts DEF Dominates
<1>9. 0 \in Reachable /\ (0 = p.initAt \/ 0 \in Avoid(p.initAt))
  BY <1>6, <1>7, ReachableFacts, AvoidFacts
<1>10. Running'
  BY <1>1, <1>2, <1>3, <1>4, <1>8, <1>9 DEF Running
<1>11. InRange'
  BY <1>1, <1>2 DEF InRange
<1> QED BY <1>5, <1>10, <1>11

\* The inductive invariant of LocalRanges.
RunInv == DomInv /\ Compiled /\ Running /\ InRange

\* Every step keeps the invariant of the analysis and of the run.
LEMMA StepRun ==
  ASSUME RunInv, [RangesNext]_RangesVars
  PROVE  RunInv'
<1>1. DomInv'
  BY StepDom DEF RunInv
<1>2. CASE Dominate \/ EndPass \/ Refuse
  <2>1. /\ phase # "run" /\ phase' # "run" /\ place' = place /\ code' = code /\ range' = range
        /\ at' = at /\ value' = value /\ loaded' = loaded
    BY <1>2 DEF Dominate, EndPass, Refuse
  <2> QED BY <1>1, <2>1 DEF RunInv, Compiled, Running, InRange
<1>3. CASE Infer
  BY <1>1, <1>3, InferRuns DEF RunInv
<1>4. CASE Block
  <2>1. Compiled'
    <3>1. Lowered(place)' /\ StructureOk(place)'
      BY <1>4, BlockKeeps, SameAnalysis DEF RunInv, Compiled, Block
    <3> QED BY <1>4, <3>1 DEF RunInv, Compiled, Block
  <2> QED BY <1>1, <1>4, <2>1, BlockRuns DEF RunInv
<1>5. CASE UNCHANGED RangesVars
  <2>1. /\ phase' = phase /\ succs' = succs /\ dom' = dom /\ place' = place /\ code' = code
        /\ range' = range /\ at' = at /\ value' = value /\ loaded' = loaded
    BY <1>5 DEF RangesVars
  <2>2. Compiled'
    BY <2>1, SameAnalysis DEF RunInv, Compiled
  <2>3. InRange'
    BY <2>1 DEF RunInv, InRange, Narrowed, TestInHeader, BoundIsInt, Reading
  <2>4. Running'
    <3>1. /\ Reachable' = Reachable /\ Member' = Member
          /\ \A a : Avoid(a)' = Avoid(a)
      BY <2>1, SameAnalysis
    <3>2. Again' = Again
      <4>1. Onward' = Onward
        BY <2>1, <3>1 DEF Onward, Succs
      <4> QED BY <2>1, <4>1 DEF Again, Closure
    <3>3. Unloaded' = Unloaded
      BY <2>1 DEF Unloaded, Succs, Closure
    <3>4. \A x : Compare(x)' = Compare(x)
      BY <2>1 DEF Compare
    <3> QED BY <2>1, <3>1, <3>2, <3>3, <3>4 DEF RunInv, Running, TestInHeader
  <2> QED BY <1>1, <2>2, <2>3, <2>4 DEF RunInv
<1> QED BY <1>2, <1>3, <1>4, <1>5 DEF RangesNext

\* The invariant gives the ranges, of the counter and of what is computed from it.
LEMMA RunInvHolds ==
  ASSUME RunInv
  PROVE  RangesHold
<1>1. None \notin Ints /\ 0 \in Ints
  BY RangesAssumption DEF None, Ints
<1>2. ASSUME phase = "run"
      PROVE  /\ code \in Codes /\ code.init \in Ints /\ code.bound \in Ints
             /\ range.top = FALSE /\ range.min \in Ints /\ range.max \in Ints /\ range.min <= range.max
  BY <1>2, CodeFacts, CountingFacts DEF RunInv, Compiled
<1>3. RangesTypeOK
  <2>1. /\ phase \in {"dominators", "infer", "run", "wide"} /\ dom \in [Blocks -> SUBSET Blocks]
        /\ cursor \in 1..Exit + 1 /\ changed \in BOOLEAN
    BY DEF RunInv, DomInv
  <2>2. CASE phase = "run"
    <3>1. at \in Blocks /\ value \in Ints \cup {None} /\ loaded \in Ints \cup {None} /\ place \in Places
      BY <2>2, ReachableFacts DEF RunInv, DomInv, Running, Compiled
    <3> QED BY <1>2, <2>1, <2>2, <3>1 DEF RangesTypeOK
  <2>3. CASE phase # "run"
    <3>1. place = Nowhere /\ code = NoCode /\ range = Top /\ at = 0 /\ value = None /\ loaded = None
      BY <2>3 DEF RunInv, Compiled
    <3>2. Nowhere \in Places
      BY ZeroBlock DEF Nowhere, Places
    <3> QED BY <1>1, <2>1, <3>1, <3>2, ZeroBlock DEF RangesTypeOK, NoCode, Top
  <2> QED BY <2>2, <2>3
<1>4. ASSUME TestInHeader, BoundIsInt PROVE SlotFits
  <2> SUFFICES ASSUME phase = "run", value # None, Narrowed(range)
               PROVE  /\ Within(range, value)
                      /\ Reading(code.kind, value) \in Holds(code.kind, NarrowedType(code.kind, range))
    BY DEF SlotFits
  <2>1. value \in range.min..range.max
    BY <1>4 DEF RunInv, InRange
  <2>2. Reading(code.kind, value) = value /\ value \in Holds(code.kind, NarrowedType(code.kind, range))
    BY <1>2, <2>1, NarrowedFacts DEF Narrowed
  <2> QED BY <2>1, <2>2 DEF Within
<1>5. ASSUME TestInHeader, BoundIsInt PROVE DerivedFits
  <2> SUFFICES ASSUME phase = "run", loaded # None, Narrowed(range),
                      NEW op \in {"ADD", "SUB", "MUL"}, NEW k \in {Wrap(x) : x \in Steps} \cup {None}
               PROVE  LET x == IF k = None THEN loaded ELSE k
                          r == EvalValue(op, range, IF k = None THEN range ELSE Const(k))
                          result == CASE op = "ADD" -> value + x [] op = "SUB" -> value - x
                                      [] OTHER -> value * x
                      IN  Narrowed(r) => Within(r, Wrap(result))
    BY DEF DerivedFits
  <2> DEFINE x == IF k = None THEN loaded ELSE k
             b == IF k = None THEN range ELSE Const(k)
  <2>1. value \in range.min..range.max /\ loaded \in range.min..range.max
    BY <1>5 DEF RunInv, InRange, Running
  <2>2. k # None => k \in Ints
    BY WrapFacts, RangesAssumption
  <2>3. ~b.top /\ b.min \in Ints /\ b.max \in Ints /\ x \in b.min..b.max
    <3>1. CASE k = None
      BY <1>2, <2>1, <3>1
    <3>2. CASE k # None
      <4>1. b = [top |-> FALSE, min |-> k, max |-> k] /\ x = k /\ k \in Ints
        BY <2>2, <3>2 DEF Const, Interval
      <4> HIDE DEF x, b
      <4>2. k \in k..k
        BY <4>1, RangesAssumption DEF Ints
      <4> QED BY <4>1, <4>2
    <3> QED BY <3>1, <3>2
  <2> HIDE DEF x, b
  <2>4. ASSUME NarrowedType(code.kind, EvalValue(op, range, b)) # Half
        PROVE  LET r == EvalValue(op, range, b)
                   result == CASE op = "ADD" -> value + x [] op = "SUB" -> value - x
                               [] OTHER -> value * x
               IN  Reading(code.kind, Wrap(result)) \in r.min..r.max
    BY <1>2, <2>1, <2>3, <2>4, EvalHolds
  <2> QED BY <2>4 DEF Narrowed, Within, x, b
<1> QED BY <1>3, <1>4, <1>5 DEF RangesHold

\* local_infer_induction and select_local_narrowed_type, on every path of every
\* function, the ones they get wrong included: a counter declared with a narrower
\* type stays in the range that was proved and in the type, and so does what is
\* computed from it, unless the header branches on a test made elsewhere or the
\* bound is a UInt above the largest Int.  (Of those two, StaleFits and
\* UnsignedFits are refuted.)
THEOREM NarrowedCountersHold == RangesSpec => []RangesHold
<1>1. RangesInit => RunInv
  BY InitDom, InitRun DEF RunInv
<1>2. RunInv /\ [RangesNext]_RangesVars => RunInv'
  BY StepRun
<1>3. RunInv => RangesHold
  BY RunInvHolds
<1> QED BY <1>1, <1>2, <1>3, PTL DEF RangesSpec
====
