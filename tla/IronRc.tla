---- MODULE IronRc ----
(***************************************************************************)
(* One reference-counted object of src/src/runtime/iron_rc.c with its      *)
(* strong and weak handles, and the generation that checked pointers into  *)
(* it carry.  weak_count starts at 1 for all the strong handles together;  *)
(* whoever takes it to 0 frees the block.                                  *)
(*                                                                         *)
(* A handle is a variable of some thread that holds the object; different  *)
(* handles may be in calls at the same time, each call of a handle runs    *)
(* alone.  An action is one atomic access to the block.  Generations come  *)
(* from the table that GenTable models, here by its promise Generations.   *)
(* The saturation guards (2^64 - 2 handles) are out of reach.              *)
(***************************************************************************)
EXTENDS Integers, FiniteSets

CONSTANTS
    Handles,
    First,      \* the handle iron_rc_alloc returned
    Gen,        \* generations the table can still give out
    NoGen       \* gen 0

ASSUME RcAssumption ==
    IsFiniteSet(Handles) /\ First \in Handles /\ NoGen \notin Gen

VARIABLES
    refcount, weak_count, gen,  \* Iron_RcHeader, IronAllocHdr
    pc,         \* what each handle holds, or where its call is
    s,          \* iron_rc_upgrade: the count last read
    fresh,      \* iron_rc_ptr_gen: the generation it created
    from,       \* ... and what took the pointer
    taken,      \* generations carried by pointers into the object
    drops, frees,       \* how often drop_fn ran and the block was freed
    live, ended         \* the generation table

vars == <<refcount, weak_count, gen, pc, s, fresh, from, taken, drops, frees, live, ended>>
Table == INSTANCE Generations
table == <<live, ended>>

Init ==
    /\ refcount = 1 /\ weak_count = 1 /\ gen = NoGen
    /\ pc = [h \in Handles |-> IF h = First THEN "strong" ELSE "none"]
    /\ s = [h \in Handles |-> 0]
    /\ fresh = [h \in Handles |-> NoGen]
    /\ from = [h \in Handles |-> "strong"]
    /\ taken = {} /\ drops = 0 /\ frees = 0
    /\ Table!Init

Goto(h, p) == pc' = [pc EXCEPT ![h] = p]

----------------------------------------------------------------------------

\* iron_rc_retain: a copy of the handle, for this or another thread.
Retain(h, n) ==
    /\ pc[h] = "strong" /\ pc[n] = "none"
    /\ refcount' = refcount + 1
    /\ Goto(n, "strong")
    /\ UNCHANGED <<weak_count, gen, s, fresh, from, taken, drops, frees, table>>

\* iron_weak_rc_retain and iron_rc_downgrade.
WeakHandle(h, n) ==
    /\ pc[h] \in {"strong", "weak"} /\ pc[n] = "none"
    /\ weak_count' = weak_count + 1
    /\ Goto(n, "weak")
    /\ UNCHANGED <<refcount, gen, s, fresh, from, taken, drops, frees, table>>

Release(h) ==
    /\ pc[h] = "strong"
    /\ refcount' = refcount - 1
    /\ Goto(h, IF refcount = 1 THEN "drop" ELSE "none")
    /\ UNCHANGED <<weak_count, gen, s, fresh, from, taken, drops, frees, table>>

DropFn(h) ==
    /\ pc[h] = "drop"
    /\ drops' = drops + 1
    /\ Goto(h, "body")
    /\ UNCHANGED <<refcount, weak_count, gen, s, fresh, from, taken, frees, table>>

\* The drop body is over; the object's generation is loaded ...
BodyDone(h) ==
    /\ pc[h] = "body"
    /\ Goto(h, IF gen = NoGen THEN "weakdec" ELSE "endgen")
    /\ UNCHANGED <<refcount, weak_count, gen, s, fresh, from, taken, drops, frees, table>>

\* iron_gen_end, which does nothing to a dead generation.
EndGeneration(g) == IF g \in live THEN Table!End(g) ELSE UNCHANGED table

\* ... and ended: pointers into the object are stale.
EndGen(h) ==
    /\ pc[h] = "endgen"
    /\ EndGeneration(gen)
    /\ Goto(h, "weakdec")
    /\ UNCHANGED <<refcount, weak_count, gen, s, fresh, from, taken, drops, frees>>

\* iron_weak_rc_release, for a weak handle or for the strong ones together.
WeakReleaseLeaks(h) ==
    /\ pc[h] \in {"weak", "weakdec"}
    /\ weak_count' = weak_count - 1
    /\ Goto(h, IF weak_count = 1 /\ pc[h] = "weak" THEN "free" ELSE "none")
    /\ UNCHANGED <<refcount, gen, s, fresh, from, taken, drops, frees, table>>

WeakRelease(h) ==
    /\ pc[h] \in {"weak", "weakdec"}
    /\ weak_count' = weak_count - 1
    /\ Goto(h, IF weak_count = 1 THEN "free" ELSE "none")
    /\ UNCHANGED <<refcount, gen, s, fresh, from, taken, drops, frees, table>>

FreeBlock(h) ==
    /\ pc[h] = "free"
    /\ frees' = frees + 1
    /\ Goto(h, "none")
    /\ UNCHANGED <<refcount, weak_count, gen, s, fresh, from, taken, drops, table>>

----------------------------------------------------------------------------
(* iron_rc_upgrade                                                         *)

UpgradeLoad(h) ==
    /\ pc[h] = "weak"
    /\ s' = [s EXCEPT ![h] = refcount]
    /\ Goto(h, "upgrade")
    /\ UNCHANGED <<refcount, weak_count, gen, fresh, from, taken, drops, frees, table>>

UpgradeNull(h) ==
    /\ pc[h] = "upgrade" /\ s[h] = 0
    /\ Goto(h, "weak")
    /\ UNCHANGED <<refcount, weak_count, gen, s, fresh, from, taken, drops, frees, table>>

UpgradeBlind(h, n) ==
    /\ pc[h] = "upgrade" /\ s[h] # 0 /\ pc[n] = "none"
    /\ refcount' = s[h] + 1
    /\ pc' = [pc EXCEPT ![h] = "weak", ![n] = "strong"]
    /\ s' = [s EXCEPT ![h] = 0]
    /\ UNCHANGED <<weak_count, gen, fresh, from, taken, drops, frees, table>>

\* The compare-and-swap succeeds: n is the new strong handle.
Upgrade(h, n) ==
    /\ pc[h] = "upgrade" /\ s[h] # 0 /\ refcount = s[h] /\ pc[n] = "none"
    /\ refcount' = s[h] + 1
    /\ pc' = [pc EXCEPT ![h] = "weak", ![n] = "strong"]
    /\ s' = [s EXCEPT ![h] = 0]
    /\ UNCHANGED <<weak_count, gen, fresh, from, taken, drops, frees, table>>

UpgradeGivesUp(h) ==
    /\ pc[h] = "upgrade" /\ s[h] # 0
    /\ s' = [s EXCEPT ![h] = 0]
    /\ UNCHANGED <<refcount, weak_count, gen, pc, fresh, from, taken, drops, frees, table>>

\* It fails, perhaps spuriously, and reads the count again.
UpgradeRetry(h) ==
    /\ pc[h] = "upgrade" /\ s[h] # 0
    /\ s' = [s EXCEPT ![h] = refcount]
    /\ UNCHANGED <<refcount, weak_count, gen, pc, fresh, from, taken, drops, frees, table>>

----------------------------------------------------------------------------
(* iron_rc_ptr_gen, for `&r.field` through a strong handle or in the drop  *)
(* body.                                                                   *)

\* The object has a generation ...
PtrKnown(h) ==
    /\ pc[h] \in {"strong", "body"} /\ gen # NoGen
    /\ taken' = taken \cup {gen}
    /\ UNCHANGED <<refcount, weak_count, gen, pc, s, fresh, from, drops, frees, table>>

\* ... or none yet: iron_gen_new makes one.
PtrUnknown(h) ==
    /\ pc[h] \in {"strong", "body"} /\ gen = NoGen
    /\ from' = [from EXCEPT ![h] = pc[h]]
    /\ Goto(h, "newgen")
    /\ UNCHANGED <<refcount, weak_count, gen, s, fresh, taken, drops, frees, table>>

PtrNew(h) ==
    /\ pc[h] = "newgen"
    /\ \E g \in Gen : Table!New(g) /\ fresh' = [fresh EXCEPT ![h] = g]
    /\ Goto(h, "install")
    /\ UNCHANGED <<refcount, weak_count, gen, s, from, taken, drops, frees>>

PtrReturn(h) ==
    /\ Goto(h, from[h])
    /\ fresh' = [fresh EXCEPT ![h] = NoGen]
    /\ from' = [from EXCEPT ![h] = "strong"]

\* The compare-and-swap from 0 succeeds, ...
PtrInstall(h) ==
    /\ pc[h] = "install" /\ gen = NoGen
    /\ gen' = fresh[h]
    /\ taken' = taken \cup {fresh[h]}
    /\ PtrReturn(h)
    /\ UNCHANGED <<refcount, weak_count, s, drops, frees, table>>

\* ... or another thread was first: its generation is the object's.
PtrLose(h) ==
    /\ pc[h] = "install" /\ gen # NoGen
    /\ EndGeneration(fresh[h])
    /\ taken' = taken \cup {gen}
    /\ PtrReturn(h)
    /\ UNCHANGED <<refcount, weak_count, gen, s, drops, frees>>

----------------------------------------------------------------------------

\* The steps that finish the last release, none of which waits.
Teardown(h) ==
    \/ DropFn(h) \/ BodyDone(h) \/ EndGen(h) \/ (pc[h] = "weakdec" /\ WeakRelease(h))
    \/ FreeBlock(h)

HandleNext(h) ==
    \/ \E n \in Handles : Retain(h, n) \/ WeakHandle(h, n) \/ Upgrade(h, n)
    \/ Release(h) \/ DropFn(h) \/ BodyDone(h) \/ EndGen(h) \/ WeakRelease(h) \/ FreeBlock(h)
    \/ UpgradeLoad(h) \/ UpgradeNull(h) \/ UpgradeRetry(h)
    \/ PtrKnown(h) \/ PtrUnknown(h) \/ PtrNew(h) \/ PtrInstall(h) \/ PtrLose(h)

Next == \E h \in Handles : HandleNext(h)

Spec == Init /\ [][Next]_vars

(***************************************************************************)
(* The thread in the last release keeps running, through a drop body that  *)
(* takes finitely many pointers.                                           *)
(***************************************************************************)
Fairness == \A h \in Handles :
    WF_vars(Teardown(h)) /\ WF_vars(PtrNew(h) \/ PtrInstall(h) \/ PtrLose(h))

FairSpec == Spec /\ Fairness

----------------------------------------------------------------------------

InPtrCall(h) == pc[h] \in {"newgen", "install"}
Strong == {h \in Handles : pc[h] = "strong" \/ (InPtrCall(h) /\ from[h] = "strong")}
Weak == {h \in Handles : pc[h] \in {"weak", "upgrade"}}

\* The handle whose release was the last, until it gives up the weak count.
Dying == {h \in Handles :
    pc[h] \in {"drop", "body", "endgen", "weakdec"} \/ (InPtrCall(h) /\ from[h] = "body")}
Freeing == {h \in Handles : pc[h] = "free"}

Labels == {"none", "strong", "weak", "drop", "body", "endgen", "weakdec", "free",
           "upgrade", "newgen", "install"}

TypeOK ==
    /\ refcount \in Nat /\ weak_count \in Nat /\ gen \in Gen \cup {NoGen}
    /\ pc \in [Handles -> Labels]
    /\ s \in [Handles -> Nat]
    /\ fresh \in [Handles -> Gen \cup {NoGen}]
    /\ from \in [Handles -> {"strong", "body"}]
    /\ taken \in SUBSET Gen
    /\ drops \in Nat /\ frees \in Nat
    /\ live \in SUBSET Gen /\ ended \in SUBSET Gen

\* The counts are what the handles say: every strong handle is counted once,
\* every weak one once, and the strong ones once together until the drop of
\* the object is over.
Counts ==
    /\ refcount = Cardinality(Strong)
    /\ weak_count = Cardinality(Weak) + (IF Strong \cup Dying = {} THEN 0 ELSE 1)

\* The object is dropped at most once and never under a strong handle, and
\* the block is freed at most once, after the drop, when no handle and no
\* call is left that would touch it.
Lifetime ==
    /\ Strong # {} => drops = 0 /\ Dying = {}
    /\ drops =< 1 /\ frees =< 1
    /\ \A h, k \in Dying \cup Freeing : h = k
    /\ Freeing # {} => drops = 1 /\ frees = 0 /\ Strong \cup Weak \cup Dying = {}
    /\ frees = 1 => drops = 1 /\ \A h \in Handles : pc[h] = "none"

\* All pointers into the object carry one generation, live while a strong
\* handle exists and stale once the drop is over (even while weak handles
\* keep the block); no generation is left live by a race.
PointersSafe ==
    /\ taken \subseteq {gen}
    /\ Strong # {} => taken \subseteq live
    /\ Strong = {} /\ (\A h \in Dying : pc[h] = "weakdec") => live = {}
    /\ live \subseteq {gen} \cup {fresh[h] : h \in Handles}

\* The object is dropped and its block freed when the handles say so, and its
\* pointers die with it.
ObjectSafe == TypeOK /\ Counts /\ Lifetime /\ PointersSafe

\* iron_rc_upgrade returns null only when the last strong handle is gone.
UpgradeHonest == [][\A h \in Handles :
    pc[h] = "upgrade" /\ pc'[h] = "weak" /\ refcount' = refcount => refcount = 0]_vars

\* When the last handle is gone the block is freed.
Reclaimed == (Strong \cup Weak = {}) ~> (frees = 1)
====
