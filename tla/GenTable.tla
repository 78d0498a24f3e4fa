---- MODULE GenTable ----
(***************************************************************************)
(* The generation table of src/src/runtime/iron_heap_track.c.  A checked   *)
(* pointer carries a generation (slot, sequence number) and is valid while *)
(* the table entry of that slot holds exactly it.  Free slots are cached   *)
(* per thread, otherwise kept on a global stack under a spin lock; fresh   *)
(* ones come from a counter.                                               *)
(*                                                                         *)
(* An action is one atomic access to shared memory, or one section under   *)
(* the spin lock.  Free stacks are sets: the order in which free slots are *)
(* reused is left open.  That no slot is pushed twice is Exclusive.        *)
(***************************************************************************)
EXTENDS Integers, Sequences, FiniteSets

CONSTANTS
    Threads,
    MaxSlot,    \* the last usable slot, 2^IRON_GEN_SLOT_BITS - 1
    SeqMax,     \* IRON_GEN_SEQ_MASK
    TCache,     \* IRON_GEN_TCACHE
    ChunkSize,  \* 2^IRON_GEN_CHUNK_BITS
    MaxPins     \* bound on the nesting of pinned calls of a thread

ASSUME GenAssumption ==
    /\ MaxSlot \in Nat \ {0} /\ SeqMax \in Nat \ {0}
    /\ TCache \in Nat /\ TCache >= 2
    /\ ChunkSize \in Nat \ {0} /\ MaxPins \in Nat

Slots == 1 .. MaxSlot
Gen == [slot : Slots, seq : 1 .. SeqMax]

VARIABLES
    entry,          \* iron_gen_chunks: each slot's sequence number, and liveness
    published,      \* the chunks that have been allocated
    nullDead,       \* entry 0 holds IRON_STACK_TAG
    s_gen_fresh, s_gen_free,
    t_gen_free,     \* each thread's cache
    pins,           \* the receiver pins each thread's open calls placed in s_gpins
    pc, slot, old, gen,     \* each thread: place, and registers
    ended,          \* history: generations whose iron_gen_end returned true
    lost,           \* slots given up when realloc failed at thread exit
    down            \* the process has panicked or aborted

stacks == <<s_gen_free, t_gen_free>>
registers == <<slot, old, gen>>
vars == <<entry, published, nullDead, s_gen_fresh, stacks, pins, pc, registers,
          ended, lost, down>>

ChunkOf(s) == s \div ChunkSize
G(s, n) == [slot |-> s, seq |-> n]

\* iron_gen_live for a generation of slot form.
Live(g) ==
    /\ ChunkOf(g.slot) \in published
    /\ entry[g.slot] = [seq |-> g.seq, live |-> TRUE]
LiveGens == {g \in Gen : Live(g)}

Init ==
    /\ entry = [s \in Slots |-> [seq |-> 0, live |-> FALSE]]
    /\ published = {} /\ nullDead = FALSE
    /\ s_gen_fresh = 1 /\ s_gen_free = {}
    /\ t_gen_free = [t \in Threads |-> {}]
    /\ pins = [t \in Threads |-> <<>>]
    /\ pc = [t \in Threads |-> "idle"]
    /\ slot = [t \in Threads |-> 1]
    /\ old = [t \in Threads |-> 0]
    /\ gen = [t \in Threads |-> G(1, 1)]
    /\ ended = {} /\ lost = {} /\ down = FALSE

At(t, p) == pc[t] = p /\ ~down
Goto(t, p) == pc' = [pc EXCEPT ![t] = p]

\* The call returns: its locals are gone.
Return(t) ==
    /\ Goto(t, "idle")
    /\ slot' = [slot EXCEPT ![t] = 1]
    /\ old' = [old EXCEPT ![t] = 0]
    /\ gen' = [gen EXCEPT ![t] = G(1, 1)]

----------------------------------------------------------------------------
(* iron_gen_new                                                            *)

NewCall(t) ==
    /\ At(t, "idle")
    /\ Goto(t, "take")
    /\ UNCHANGED <<entry, published, nullDead, s_gen_fresh, stacks, pins, registers,
                   ended, lost, down>>

Take(t, s) == slot' = [slot EXCEPT ![t] = s] /\ Goto(t, "entry")

\* gen_take_slot: from the thread's cache, ...
TakeCached(t) ==
    /\ At(t, "take")
    /\ \E s \in t_gen_free[t] :
          /\ t_gen_free' = [t_gen_free EXCEPT ![t] = @ \ {s}]
          /\ Take(t, s)
    /\ UNCHANGED <<entry, published, nullDead, s_gen_fresh, s_gen_free, pins, old, gen,
                   ended, lost, down>>

Batches(n) == {B \in SUBSET s_gen_free : Cardinality(B) = n}
RefillSize ==
    IF Cardinality(s_gen_free) < TCache \div 2 THEN Cardinality(s_gen_free)
                                               ELSE TCache \div 2

\* ... refilled from the global stack, ...
TakeRefill(t) ==
    /\ At(t, "take") /\ t_gen_free[t] = {} /\ s_gen_free # {}
    /\ \E B \in Batches(RefillSize) : \E s \in B :
          /\ s_gen_free' = s_gen_free \ B
          /\ t_gen_free' = [t_gen_free EXCEPT ![t] = B \ {s}]
          /\ Take(t, s)
    /\ UNCHANGED <<entry, published, nullDead, s_gen_fresh, pins, old, gen, ended, lost,
                   down>>

\* ... or, with both empty, a fresh one.
TakeNone(t) ==
    /\ At(t, "take") /\ t_gen_free[t] = {} /\ s_gen_free = {}
    /\ Goto(t, "fresh")
    /\ UNCHANGED <<entry, published, nullDead, s_gen_fresh, stacks, pins, registers,
                   ended, lost, down>>

TakeFreshOneMore(t) ==
    /\ At(t, "fresh") /\ s_gen_fresh =< MaxSlot + 1
    /\ s_gen_fresh' = s_gen_fresh + 1
    /\ Take(t, s_gen_fresh)
    /\ UNCHANGED <<entry, published, nullDead, stacks, pins, old, gen, ended, lost, down>>

TakeFresh(t) ==
    /\ At(t, "fresh") /\ s_gen_fresh =< MaxSlot
    /\ s_gen_fresh' = s_gen_fresh + 1
    /\ Take(t, s_gen_fresh)
    /\ UNCHANGED <<entry, published, nullDead, stacks, pins, old, gen, ended, lost, down>>

TooMany(t) ==
    /\ At(t, "fresh") /\ s_gen_fresh > MaxSlot
    /\ s_gen_fresh' = s_gen_fresh + 1
    /\ down' = TRUE
    /\ UNCHANGED <<entry, published, nullDead, stacks, pins, pc, registers, ended, lost>>

\* gen_entry: the first to need a chunk publishes it, all zero, by a
\* compare-and-swap; the publisher of chunk 0 then kills entry 0.
EntryOf(t) ==
    /\ At(t, "entry")
    /\ published' = published \cup {ChunkOf(slot[t])}
    /\ Goto(t, IF 0 \in published' \ published THEN "null" ELSE "load")
    /\ UNCHANGED <<entry, nullDead, s_gen_fresh, stacks, pins, registers, ended, lost,
                   down>>

KillNull(t) ==
    /\ At(t, "null")
    /\ nullDead' = TRUE
    /\ Goto(t, "load")
    /\ UNCHANGED <<entry, published, s_gen_fresh, stacks, pins, registers, ended, lost,
                   down>>

\* An exhausted slot is dropped and another one taken.
NewLoad(t) ==
    /\ At(t, "load")
    /\ old' = [old EXCEPT ![t] = entry[slot[t]].seq]
    /\ Goto(t, IF old'[t] < SeqMax THEN "store" ELSE "take")
    /\ UNCHANGED <<entry, published, nullDead, s_gen_fresh, stacks, pins, slot, gen,
                   ended, lost, down>>

NewStoreSameSeq(t) ==
    /\ At(t, "store")
    /\ entry' = [entry EXCEPT ![slot[t]] =
                    [seq |-> IF old[t] = 0 THEN 1 ELSE old[t], live |-> TRUE]]
    /\ Return(t)
    /\ UNCHANGED <<published, nullDead, s_gen_fresh, stacks, pins, ended,
                   lost, down>>

NewStore(t) ==
    /\ At(t, "store")
    /\ entry' = [entry EXCEPT ![slot[t]] = [seq |-> old[t] + 1, live |-> TRUE]]
    /\ Return(t)
    /\ UNCHANGED <<published, nullDead, s_gen_fresh, stacks, pins, ended,
                   lost, down>>

----------------------------------------------------------------------------
(* iron_gen_end, called with any generation a pointer can carry, so also   *)
(* twice and by two threads at once.                                       *)

EndCall(t, g) ==
    /\ At(t, "idle")
    /\ g \in LiveGens \cup ended
    /\ gen' = [gen EXCEPT ![t] = g]
    /\ Goto(t, "check")
    /\ UNCHANGED <<entry, published, nullDead, s_gen_fresh, stacks, pins, slot, old,
                   ended, lost, down>>

Pinned(g) == \E t \in Threads : \E k \in DOMAIN pins[t] : pins[t][k] = g

EndCheckTrusts(t) ==
    /\ At(t, "check")
    /\ Goto(t, "cas")
    /\ UNCHANGED <<entry, published, nullDead, s_gen_fresh, stacks, pins, registers,
                   ended, lost, down>>

\* A pinned generation may not end: the process panics.
EndCheck(t) ==
    /\ At(t, "check")
    /\ IF Pinned(gen[t]) /\ Live(gen[t])
       THEN down' = TRUE /\ UNCHANGED pc
       ELSE Goto(t, "cas") /\ UNCHANGED down
    /\ UNCHANGED <<entry, published, nullDead, s_gen_fresh, stacks, pins, registers,
                   ended, lost>>

\* The compare-and-swap succeeded; an exhausted slot is retired.
EndWinsKeeping(t) ==
    /\ At(t, "cas") /\ Live(gen[t])
    /\ entry' = [entry EXCEPT ![gen[t].slot] =
                    [seq |-> gen[t].seq, live |-> FALSE]]
    /\ ended' = ended \cup {gen[t]}
    /\ Return(t)
    /\ UNCHANGED <<published, nullDead, s_gen_fresh, stacks, pins, lost,
                   down>>

EndWins(t) ==
    /\ At(t, "cas") /\ Live(gen[t])
    /\ entry' = [entry EXCEPT ![gen[t].slot] =
                    [seq |-> gen[t].seq, live |-> FALSE]]
    /\ ended' = ended \cup {gen[t]}
    /\ IF gen[t].seq < SeqMax
       THEN slot' = [slot EXCEPT ![t] = gen[t].slot] /\ Goto(t, "give")
                                                   /\ UNCHANGED <<old, gen>>
       ELSE Return(t)
    /\ UNCHANGED <<published, nullDead, s_gen_fresh, stacks, pins, lost, down>>

\* It failed: false is returned (a double free, say).
EndLosesGivesAnyway(t) ==
    /\ At(t, "cas") /\ ~Live(gen[t])
    /\ slot' = [slot EXCEPT ![t] = gen[t].slot]
    /\ Goto(t, "give")
    /\ UNCHANGED <<entry, published, nullDead, s_gen_fresh, stacks, pins, old, gen,
                   ended, lost, down>>

EndLoses(t) ==
    /\ At(t, "cas") /\ ~Live(gen[t])
    /\ Return(t)
    /\ UNCHANGED <<entry, published, nullDead, s_gen_fresh, stacks, pins, ended, lost, down>>

\* gen_give_slot: into the cache, of which a full one first spills half.
SpillNothing(t) == {{}}
Spill(t) ==
    IF Cardinality(t_gen_free[t]) = TCache
    THEN {B \in SUBSET t_gen_free[t] : Cardinality(B) = TCache - TCache \div 2}
    ELSE {{}}

Give(t) ==
    /\ At(t, "give")
    /\ \E B \in Spill(t) :
          /\ s_gen_free' = s_gen_free \cup B
          /\ t_gen_free' = [t_gen_free EXCEPT ![t] = (@ \ B) \cup {slot[t]}]
    /\ Return(t)
    /\ UNCHANGED <<entry, published, nullDead, s_gen_fresh, pins, ended, lost,
                   down>>

\* iron_gen_thread_exit; the slots are lost when the stack cannot grow.
ThreadExit(t, grown) ==
    /\ At(t, "idle") /\ pins[t] = <<>> /\ t_gen_free[t] # {}
    /\ t_gen_free' = [t_gen_free EXCEPT ![t] = {}]
    /\ IF grown THEN s_gen_free' = s_gen_free \cup t_gen_free[t] /\ UNCHANGED lost
                ELSE lost' = lost \cup t_gen_free[t] /\ UNCHANGED s_gen_free
    /\ UNCHANGED <<entry, published, nullDead, s_gen_fresh, pins, pc, registers, ended,
                   down>>

----------------------------------------------------------------------------
(* Pins around a call that may free its receiver.                          *)

Pin(t, g) ==
    /\ At(t, "idle") /\ Len(pins[t]) < MaxPins
    /\ g \in LiveGens \cup ended
    /\ pins' = [pins EXCEPT ![t] = Append(@, g)]
    /\ UNCHANGED <<entry, published, nullDead, s_gen_fresh, stacks, pc, registers, ended,
                   lost, down>>

Unpin(t) ==
    /\ At(t, "idle") /\ pins[t] # <<>>
    /\ pins' = [pins EXCEPT ![t] = SubSeq(@, 1, Len(@) - 1)]
    /\ UNCHANGED <<entry, published, nullDead, s_gen_fresh, stacks, pc, registers, ended,
                   lost, down>>

\* iron_oom_abort: a chunk, the global stack or the pin array cannot grow.
OutOfMemory(t) ==
    /\ \/ At(t, "entry") /\ ChunkOf(slot[t]) \notin published
       \/ At(t, "give") /\ Cardinality(t_gen_free[t]) = TCache
       \/ At(t, "idle") /\ Len(pins[t]) < MaxPins /\ LiveGens \cup ended # {}
    /\ down' = TRUE
    /\ UNCHANGED <<entry, published, nullDead, s_gen_fresh, stacks, pins, pc, registers,
                   ended, lost>>

NewStep(t) ==
    \/ NewCall(t) \/ TakeCached(t) \/ TakeRefill(t) \/ TakeNone(t) \/ TakeFresh(t)
    \/ TooMany(t) \/ EntryOf(t) \/ KillNull(t) \/ NewLoad(t) \/ NewStore(t)
EndStep(t) ==
    \/ \E g \in Gen : EndCall(t, g)
    \/ EndCheck(t) \/ EndWins(t) \/ EndLoses(t) \/ Give(t)
OtherStep(t) ==
    \/ \E grown \in BOOLEAN : ThreadExit(t, grown)
    \/ \E g \in Gen : Pin(t, g)
    \/ Unpin(t)
    \/ OutOfMemory(t)

Next == \E t \in Threads : NewStep(t) \/ EndStep(t) \/ OtherStep(t)

Spec == Init /\ [][Next]_vars

----------------------------------------------------------------------------

TypeOK ==
    /\ entry \in [Slots -> [seq : 0 .. SeqMax, live : BOOLEAN]]
    /\ published \in SUBSET Nat /\ nullDead \in BOOLEAN
    /\ s_gen_fresh \in Nat \ {0}
    /\ s_gen_free \in SUBSET Slots
    /\ t_gen_free \in [Threads -> SUBSET Slots]
    /\ pins \in [Threads -> Seq(Gen)]
    /\ pc \in [Threads -> {"idle", "take", "fresh", "entry", "null", "load", "store",
                           "check", "cas", "give"}]
    /\ slot \in [Threads -> Slots]
    /\ old \in [Threads -> 0 .. SeqMax]
    /\ gen \in [Threads -> Gen]
    /\ ended \in SUBSET Gen
    /\ lost \in SUBSET Slots
    /\ down \in BOOLEAN

\* Thread t has a slot in hand: taken and not yet given a generation, or won
\* from iron_gen_end and not yet given back.
Holds(t) == pc[t] \in {"entry", "null", "load", "store", "give"}

Free(s) == s \in s_gen_free \/ \E t \in Threads : s \in t_gen_free[t]

\* A slot has one owner.  The plain load and store of iron_gen_new, and a
\* free stack without duplicates, depend on it: two owners of a slot would
\* give two objects the same generation.
Exclusive ==
    /\ \A t \in Threads : t_gen_free[t] \cap s_gen_free = {}
    /\ \A t, u \in Threads : t # u => t_gen_free[t] \cap t_gen_free[u] = {}
    /\ \A t \in Threads : Holds(t) => ~Free(slot[t]) /\ ~entry[slot[t]].live
    /\ \A t, u \in Threads : t # u /\ Holds(t) /\ Holds(u) => slot[t] # slot[u]
    /\ \A s \in Slots : entry[s].live => ~Free(s)

\* No slot is forgotten: one that was handed out is free, in hand, live,
\* retired because its sequence is used up, or lost at thread exit.
NoSlotForgotten == \A s \in Slots : s < s_gen_fresh =>
    \/ Free(s)
    \/ \E t \in Threads : Holds(t) /\ slot[t] = s
    \/ entry[s].live \/ entry[s].seq = SeqMax
    \/ s \in lost

\* The fixed array t_gen_free is never overrun.
CacheFits == \A t \in Threads : Cardinality(t_gen_free[t]) =< TCache

\* A call never ends the generation it has itself pinned (a race with
\* another thread is outside the guarantee of POINTER-SAFETY.md).
PinHonoured == [][\A t \in Threads :
    gen[t] \in ended' \ ended /\ pc[t] = "cas" /\ pc'[t] # "cas" =>
        \A k \in DOMAIN pins[t] : pins[t][k] # gen[t]]_vars

Abstract == INSTANCE Generations WITH live <- LiveGens

\* Every generation is given out once, ends once and stays dead, whatever
\* the threads do and however often a slot is reused.
NeverRevived == Abstract!Spec
====
