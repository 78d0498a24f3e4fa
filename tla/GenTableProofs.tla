---- MODULE GenTableProofs ----
(***************************************************************************)
(* Proofs about GenTable for any number of threads, slots and sequence     *)
(* numbers: a slot has one owner, no slot is forgotten, the thread caches  *)
(* stay within their array, a call does not end what it pinned, and the    *)
(* table implements Generations (no generation comes back to life).        *)
(***************************************************************************)
EXTENDS GenTable, FiniteSetTheorems, TLAPS

----------------------------------------------------------------------------
(* The inductive invariant.                                                *)

\* A slot the counter has not reached has no owner.
FreshUnused == \A s \in Slots : s >= s_gen_fresh =>
    /\ ~Free(s) /\ ~entry[s].live
    /\ \A t \in Threads : Holds(t) => slot[t] # s

\* The entry of an ended generation has moved on, or is dead.
EndedDead == \A g \in ended :
    /\ g.seq =< entry[g.slot].seq
    /\ entry[g.slot].seq = g.seq => ~entry[g.slot].live

\* The value iron_gen_new loaded is still current when it stores.
LoadCurrent == \A t \in Threads :
    pc[t] = "store" => old[t] = entry[slot[t]].seq /\ old[t] < SeqMax

\* A live entry, and one about to be written, is in a published chunk.
ChunksReady ==
    /\ \A s \in Slots : entry[s].live => ChunkOf(s) \in published
    /\ \A t \in Threads : pc[t] \in {"null", "load", "store"} =>
                              ChunkOf(slot[t]) \in published

\* iron_gen_end works on a generation that is live or has ended, ...
EndKnown == \A t \in Threads : pc[t] \in {"check", "cas"} =>
    Live(gen[t]) \/ gen[t] \in ended

\* ... and past its check not on one the thread has pinned.
EndUnpinned == \A t \in Threads : pc[t] = "cas" =>
    gen[t] \in ended \/ \A k \in DOMAIN pins[t] : pins[t][k] # gen[t]

IInv ==
    /\ TypeOK /\ Exclusive /\ FreshUnused /\ EndedDead /\ LoadCurrent /\ ChunksReady
    /\ EndKnown /\ EndUnpinned

----------------------------------------------------------------------------

\* Chunk numbers are naturals.
LEMMA ChunkNat == \A s \in Slots : ChunkOf(s) \in Nat
BY GenAssumption DEF ChunkOf, Slots

\* The values registers have between calls are of their types.
LEMMA Defaults == 1 \in Slots /\ 0 \in 0 .. SeqMax /\ G(1, 1) \in Gen
BY GenAssumption DEF Slots, Gen, G

\* Every action keeps the types.
LEMMA StepTypeOK == TypeOK /\ LoadCurrent /\ [Next]_vars => TypeOK'
<1> SUFFICES ASSUME TypeOK, LoadCurrent, [Next]_vars PROVE TypeOK'
  OBVIOUS
<1> USE DEF TypeOK, At, Goto, stacks, registers
<1>1. ASSUME NEW t \in Threads, NewCall(t) PROVE TypeOK'
  BY <1>1 DEF NewCall
<1>2. ASSUME NEW t \in Threads, TakeCached(t) PROVE TypeOK'
  BY <1>2 DEF TakeCached, Take
<1>3. ASSUME NEW t \in Threads, TakeRefill(t) PROVE TypeOK'
  BY <1>3 DEF TakeRefill, Batches, Take
<1>4. ASSUME NEW t \in Threads, TakeNone(t) PROVE TypeOK'
  BY <1>4 DEF TakeNone
<1>5. ASSUME NEW t \in Threads, TakeFresh(t) PROVE TypeOK'
  BY <1>5 DEF TakeFresh, Take, Slots
<1>6. ASSUME NEW t \in Threads, TooMany(t) PROVE TypeOK'
  BY <1>6 DEF TooMany
<1>7. ASSUME NEW t \in Threads, EntryOf(t) PROVE TypeOK'
  BY <1>7, ChunkNat DEF EntryOf
<1>8. ASSUME NEW t \in Threads, KillNull(t) PROVE TypeOK'
  BY <1>8 DEF KillNull
<1>9. ASSUME NEW t \in Threads, NewLoad(t) PROVE TypeOK'
  <2>1. entry[slot[t]].seq \in 0 .. SeqMax
    OBVIOUS
  <2> QED
    BY <1>9, <2>1 DEF NewLoad
<1>10. ASSUME NEW t \in Threads, NewStore(t) PROVE TypeOK'
  BY <1>10, Defaults, GenAssumption DEF NewStore, LoadCurrent, Return
<1>11. ASSUME NEW t \in Threads, NEW g \in Gen, EndCall(t, g) PROVE TypeOK'
  BY <1>11 DEF EndCall
<1>12. ASSUME NEW t \in Threads, EndCheck(t) PROVE TypeOK'
  BY <1>12 DEF EndCheck
<1>13. ASSUME NEW t \in Threads, EndWins(t) PROVE TypeOK'
  <2>1. gen[t].slot \in Slots
    BY DEF Gen
  <2>2. entry' \in [Slots -> [seq : 0 .. SeqMax, live : BOOLEAN]]
    BY <1>13, <2>1 DEF EndWins, Gen
  <2>3. ended' \in SUBSET Gen
    BY <1>13 DEF EndWins
  <2>4. /\ slot' \in [Threads -> Slots] /\ old' \in [Threads -> 0 .. SeqMax]
        /\ gen' \in [Threads -> Gen]
    <3>1. CASE gen[t].seq < SeqMax
      BY <1>13, <2>1, <3>1 DEF EndWins
    <3>2. CASE ~(gen[t].seq < SeqMax)
      BY <1>13, <3>2, Defaults DEF EndWins, Return
    <3> QED
      BY <3>1, <3>2
  <2>5. pc' = [pc EXCEPT ![t] = "give"] \/ pc' = [pc EXCEPT ![t] = "idle"]
    BY <1>13 DEF EndWins, Return
  <2>6. UNCHANGED <<published, nullDead, s_gen_fresh, s_gen_free, t_gen_free, pins, lost, down>>
    BY <1>13 DEF EndWins
  <2> QED
    BY <2>2, <2>3, <2>4, <2>5, <2>6
<1>14. ASSUME NEW t \in Threads, EndLoses(t) PROVE TypeOK'
  BY <1>14, Defaults DEF EndLoses, Return
<1>15. ASSUME NEW t \in Threads, Give(t) PROVE TypeOK'
  BY <1>15, Defaults DEF Give, Spill, Return
<1>16. ASSUME NEW t \in Threads, NEW grown \in BOOLEAN, ThreadExit(t, grown) PROVE TypeOK'
  BY <1>16 DEF ThreadExit
<1>17. ASSUME NEW t \in Threads, NEW g \in Gen, Pin(t, g) PROVE TypeOK'
  BY <1>17 DEF Pin
<1>18. ASSUME NEW t \in Threads, Unpin(t) PROVE TypeOK'
  BY <1>18 DEF Unpin
<1>19. CASE UNCHANGED vars
  BY <1>19 DEF vars
<1>20. ASSUME NEW t \in Threads, OutOfMemory(t) PROVE TypeOK'
  BY <1>20 DEF OutOfMemory
<1> QED
  BY <1>1, <1>2, <1>3, <1>4, <1>5, <1>6, <1>7, <1>8, <1>9, <1>10, <1>11, <1>12, <1>13,
     <1>14, <1>15, <1>16, <1>17, <1>18, <1>19, <1>20 DEF Next, NewStep, EndStep, OtherStep
\* The winner of the compare-and-swap only clears the liveness of the entry,
\* and then holds its slot or has retired it.
LEMMA WinnersEntry ==
    ASSUME TypeOK, NEW t \in Threads, EndWins(t)
    PROVE  /\ gen[t] \in Gen /\ gen[t].slot \in Slots /\ gen[t].seq \in 1 .. SeqMax
           /\ entry[gen[t].slot].live /\ entry[gen[t].slot].seq = gen[t].seq
           /\ \A s \in Slots : entry'[s].seq = entry[s].seq
           /\ \A s \in Slots : entry'[s].live <=> entry[s].live /\ s # gen[t].slot
           /\ \A u \in Threads : slot[u] \in Slots
           /\ pc[t] = "cas"
           /\ \/ pc' = [pc EXCEPT ![t] = "give"] /\ slot' = [slot EXCEPT ![t] = gen[t].slot]
              \/ pc' = [pc EXCEPT ![t] = "idle"] /\ slot' = [slot EXCEPT ![t] = 1]
                                                 /\ gen[t].seq = SeqMax
<1>1. gen[t] \in Gen /\ gen[t].slot \in Slots /\ gen[t].seq \in 1 .. SeqMax
  BY DEF TypeOK, Gen
<1>2. entry[gen[t].slot] = [seq |-> gen[t].seq, live |-> TRUE]
  BY DEF EndWins, Live
<1>3. entry' = [entry EXCEPT ![gen[t].slot] = [seq |-> gen[t].seq, live |-> FALSE]]
  BY DEF EndWins
<1>4. /\ \A s \in Slots : entry'[s].seq = entry[s].seq
      /\ \A s \in Slots : entry'[s].live <=> entry[s].live /\ s # gen[t].slot
  BY <1>1, <1>2, <1>3 DEF TypeOK
<1>5. CASE gen[t].seq < SeqMax
  BY <1>1, <1>2, <1>4, <1>5 DEF EndWins, TypeOK, Goto, At
<1>6. CASE ~(gen[t].seq < SeqMax)
  BY <1>1, <1>2, <1>4, <1>6, GenAssumption DEF EndWins, TypeOK, Goto, At, Return
<1> QED
  BY <1>5, <1>6

\* A slot keeps one owner: what is taken leaves where it was.
LEMMA StepExclusive == TypeOK /\ Exclusive /\ FreshUnused /\ [Next]_vars => Exclusive'
<1> SUFFICES ASSUME TypeOK, Exclusive, FreshUnused, [Next]_vars PROVE Exclusive'
  OBVIOUS
<1> USE DEF TypeOK, At, Goto, stacks, registers, Exclusive, Holds, Free
<1>1. ASSUME NEW t \in Threads, NewCall(t) PROVE Exclusive'
  BY <1>1 DEF NewCall
<1>2. ASSUME NEW t \in Threads, TakeCached(t) PROVE Exclusive'
  BY <1>2 DEF TakeCached, Take
<1>3. ASSUME NEW t \in Threads, TakeRefill(t) PROVE Exclusive'
  BY <1>3 DEF TakeRefill, Take, Batches
<1>4. ASSUME NEW t \in Threads, TakeNone(t) PROVE Exclusive'
  BY <1>4 DEF TakeNone
<1>5. ASSUME NEW t \in Threads, TakeFresh(t) PROVE Exclusive'
  BY <1>5, SMTT(30) DEF TakeFresh, Take, FreshUnused, Slots
<1>6. ASSUME NEW t \in Threads, TooMany(t) PROVE Exclusive'
  BY <1>6 DEF TooMany
<1>7. ASSUME NEW t \in Threads, EntryOf(t) PROVE Exclusive'
  BY <1>7 DEF EntryOf
<1>8. ASSUME NEW t \in Threads, KillNull(t) PROVE Exclusive'
  BY <1>8 DEF KillNull
<1>9. ASSUME NEW t \in Threads, NewLoad(t) PROVE Exclusive'
  BY <1>9 DEF NewLoad
<1>10. ASSUME NEW t \in Threads, NewStore(t) PROVE Exclusive'
  BY <1>10 DEF NewStore, Return
<1>11. ASSUME NEW t \in Threads, NEW g \in Gen, EndCall(t, g) PROVE Exclusive'
  BY <1>11 DEF EndCall
<1>12. ASSUME NEW t \in Threads, EndCheck(t) PROVE Exclusive'
  BY <1>12, SMTT(30) DEF EndCheck
<1>13. ASSUME NEW t \in Threads, EndWins(t) PROVE Exclusive'
  <2>1. UNCHANGED <<s_gen_fresh, s_gen_free, t_gen_free>>
    BY <1>13 DEF EndWins
  <2>2. /\ gen[t].slot \in Slots /\ entry[gen[t].slot].live
        /\ \A s \in Slots : entry'[s].live <=> entry[s].live /\ s # gen[t].slot
        /\ \A u \in Threads : slot[u] \in Slots
    BY <1>13, WinnersEntry
  <2>3. \A u \in Threads : Holds(u)' =>
              \/ Holds(u) /\ slot'[u] = slot[u] /\ u # t
              \/ u = t /\ slot'[u] = gen[t].slot
    <3>1. \/ pc' = [pc EXCEPT ![t] = "give"] /\ slot' = [slot EXCEPT ![t] = gen[t].slot]
          \/ pc' = [pc EXCEPT ![t] = "idle"] /\ slot' = [slot EXCEPT ![t] = 1]
      BY <1>13, WinnersEntry
    <3> QED
      BY <3>1
  <2> HIDE DEF TypeOK
  <2> QED
    BY <2>1, <2>2, <2>3
<1>14. ASSUME NEW t \in Threads, EndLoses(t) PROVE Exclusive'
  BY <1>14 DEF EndLoses, Return
<1>15. ASSUME NEW t \in Threads, Give(t) PROVE Exclusive'
  BY <1>15 DEF Give, Return, Spill
<1>16. ASSUME NEW t \in Threads, NEW grown \in BOOLEAN, ThreadExit(t, grown) PROVE Exclusive'
  BY <1>16 DEF ThreadExit
<1>17. ASSUME NEW t \in Threads, NEW g \in Gen, Pin(t, g) PROVE Exclusive'
  BY <1>17 DEF Pin
<1>18. ASSUME NEW t \in Threads, Unpin(t) PROVE Exclusive'
  BY <1>18 DEF Unpin
<1>19. CASE UNCHANGED vars
  BY <1>19 DEF vars
<1>20. ASSUME NEW t \in Threads, OutOfMemory(t) PROVE Exclusive'
  BY <1>20 DEF OutOfMemory
<1> QED
  BY <1>1, <1>2, <1>3, <1>4, <1>5, <1>6, <1>7, <1>8, <1>9, <1>10, <1>11, <1>12, <1>13,
     <1>14, <1>15, <1>16, <1>17, <1>18, <1>19, <1>20 DEF Next, NewStep, EndStep, OtherStep

\* Only the counter hands out slots that were never used.
LEMMA StepFreshUnused == TypeOK /\ Exclusive /\ FreshUnused /\ [Next]_vars => FreshUnused'
<1> SUFFICES ASSUME TypeOK, Exclusive, FreshUnused, [Next]_vars PROVE FreshUnused'
  OBVIOUS
<1> USE DEF TypeOK, At, Goto, stacks, registers, FreshUnused, Holds, Free
<1>1. ASSUME NEW t \in Threads, NewCall(t) PROVE FreshUnused'
  BY <1>1 DEF NewCall
<1>2. ASSUME NEW t \in Threads, TakeCached(t) PROVE FreshUnused'
  BY <1>2 DEF TakeCached, Take
<1>3. ASSUME NEW t \in Threads, TakeRefill(t) PROVE FreshUnused'
  BY <1>3 DEF TakeRefill, Take, Batches
<1>4. ASSUME NEW t \in Threads, TakeNone(t) PROVE FreshUnused'
  BY <1>4 DEF TakeNone
<1>5. ASSUME NEW t \in Threads, TakeFresh(t) PROVE FreshUnused'
  BY <1>5 DEF TakeFresh, Take, Slots
<1>6. ASSUME NEW t \in Threads, TooMany(t) PROVE FreshUnused'
  BY <1>6 DEF TooMany, Slots
<1>7. ASSUME NEW t \in Threads, EntryOf(t) PROVE FreshUnused'
  BY <1>7 DEF EntryOf
<1>8. ASSUME NEW t \in Threads, KillNull(t) PROVE FreshUnused'
  BY <1>8 DEF KillNull
<1>9. ASSUME NEW t \in Threads, NewLoad(t) PROVE FreshUnused'
  BY <1>9 DEF NewLoad
<1>10. ASSUME NEW t \in Threads, NewStore(t) PROVE FreshUnused'
  BY <1>10 DEF NewStore, Return
<1>11. ASSUME NEW t \in Threads, NEW g \in Gen, EndCall(t, g) PROVE FreshUnused'
  BY <1>11 DEF EndCall
<1>12. ASSUME NEW t \in Threads, EndCheck(t) PROVE FreshUnused'
  BY <1>12 DEF EndCheck
<1>13. ASSUME NEW t \in Threads, EndWins(t) PROVE FreshUnused'
  <2>1. UNCHANGED <<s_gen_fresh, s_gen_free, t_gen_free>>
    BY <1>13 DEF EndWins
  <2>2. /\ gen[t].slot \in Slots /\ entry[gen[t].slot].live
        /\ \A s \in Slots : entry'[s].live <=> entry[s].live /\ s # gen[t].slot
        /\ \A u \in Threads : slot[u] \in Slots
    BY <1>13, WinnersEntry
  <2>3. \A u \in Threads : Holds(u)' =>
              \/ Holds(u) /\ slot'[u] = slot[u] /\ u # t
              \/ u = t /\ slot'[u] = gen[t].slot
    <3>1. \/ pc' = [pc EXCEPT ![t] = "give"] /\ slot' = [slot EXCEPT ![t] = gen[t].slot]
          \/ pc' = [pc EXCEPT ![t] = "idle"] /\ slot' = [slot EXCEPT ![t] = 1]
      BY <1>13, WinnersEntry
    <3> QED
      BY <3>1
  <2> HIDE DEF TypeOK
  <2> QED
    BY <2>1, <2>2, <2>3
<1>14. ASSUME NEW t \in Threads, EndLoses(t) PROVE FreshUnused'
  BY <1>14 DEF EndLoses, Return
<1>15. ASSUME NEW t \in Threads, Give(t) PROVE FreshUnused'
  BY <1>15 DEF Give, Return, Spill
<1>16. ASSUME NEW t \in Threads, NEW grown \in BOOLEAN, ThreadExit(t, grown) PROVE FreshUnused'
  BY <1>16 DEF ThreadExit
<1>17. ASSUME NEW t \in Threads, NEW g \in Gen, Pin(t, g) PROVE FreshUnused'
  BY <1>17 DEF Pin
<1>18. ASSUME NEW t \in Threads, Unpin(t) PROVE FreshUnused'
  BY <1>18 DEF Unpin
<1>19. CASE UNCHANGED vars
  BY <1>19 DEF vars
<1>20. ASSUME NEW t \in Threads, OutOfMemory(t) PROVE FreshUnused'
  BY <1>20 DEF OutOfMemory
<1> QED
  BY <1>1, <1>2, <1>3, <1>4, <1>5, <1>6, <1>7, <1>8, <1>9, <1>10, <1>11, <1>12, <1>13,
     <1>14, <1>15, <1>16, <1>17, <1>18, <1>19, <1>20 DEF Next, NewStep, EndStep, OtherStep

\* Sequence numbers only grow, so a dead generation is passed for good.
LEMMA StepEndedDead == TypeOK /\ EndedDead /\ LoadCurrent /\ [Next]_vars => EndedDead'
<1> SUFFICES ASSUME TypeOK, EndedDead, LoadCurrent, [Next]_vars PROVE EndedDead'
  OBVIOUS
<1> USE DEF TypeOK, At, Goto, stacks, registers, EndedDead
<1>1. ASSUME NEW t \in Threads, NewCall(t) PROVE EndedDead'
  BY <1>1 DEF NewCall
<1>2. ASSUME NEW t \in Threads, TakeCached(t) PROVE EndedDead'
  BY <1>2 DEF TakeCached, Take
<1>3. ASSUME NEW t \in Threads, TakeRefill(t) PROVE EndedDead'
  BY <1>3 DEF TakeRefill, Take, Batches
<1>4. ASSUME NEW t \in Threads, TakeNone(t) PROVE EndedDead'
  BY <1>4 DEF TakeNone
<1>5. ASSUME NEW t \in Threads, TakeFresh(t) PROVE EndedDead'
  BY <1>5 DEF TakeFresh, Take
<1>6. ASSUME NEW t \in Threads, TooMany(t) PROVE EndedDead'
  BY <1>6 DEF TooMany
<1>7. ASSUME NEW t \in Threads, EntryOf(t) PROVE EndedDead'
  BY <1>7 DEF EntryOf
<1>8. ASSUME NEW t \in Threads, KillNull(t) PROVE EndedDead'
  BY <1>8 DEF KillNull
<1>9. ASSUME NEW t \in Threads, NewLoad(t) PROVE EndedDead'
  BY <1>9 DEF NewLoad
<1>10. ASSUME NEW t \in Threads, NewStore(t) PROVE EndedDead'
  <2>1. /\ slot[t] \in Slots /\ old[t] = entry[slot[t]].seq /\ old[t] \in 0 .. SeqMax
        /\ entry' = [entry EXCEPT ![slot[t]] = [seq |-> old[t] + 1, live |-> TRUE]]
        /\ ended' = ended
    BY <1>10 DEF NewStore, LoadCurrent
  <2>2. \A g \in ended : g.slot \in Slots /\ g.seq \in 1 .. SeqMax
    BY DEF Gen
  <2>3. \A s \in Slots : entry[s].seq \in 0 .. SeqMax
    OBVIOUS
  <2> HIDE DEF TypeOK
  <2> QED
    BY <2>1, <2>2, <2>3
<1>11. ASSUME NEW t \in Threads, NEW g \in Gen, EndCall(t, g) PROVE EndedDead'
  BY <1>11 DEF EndCall
<1>12. ASSUME NEW t \in Threads, EndCheck(t) PROVE EndedDead'
  BY <1>12 DEF EndCheck
<1>13. ASSUME NEW t \in Threads, EndWins(t) PROVE EndedDead'
  <2>1. ended' = ended \cup {gen[t]}
    BY <1>13 DEF EndWins
  <2>2. /\ gen[t] \in Gen /\ gen[t].slot \in Slots /\ gen[t].seq \in 1 .. SeqMax
        /\ entry[gen[t].slot].seq = gen[t].seq
        /\ \A s \in Slots : entry'[s].seq = entry[s].seq
        /\ \A s \in Slots : entry'[s].live <=> entry[s].live /\ s # gen[t].slot
    BY <1>13, WinnersEntry
  <2>3. \A g \in ended : g.slot \in Slots /\ g.seq \in 1 .. SeqMax
    BY DEF Gen
  <2> HIDE DEF TypeOK
  <2> QED
    BY <2>1, <2>2, <2>3
<1>14. ASSUME NEW t \in Threads, EndLoses(t) PROVE EndedDead'
  BY <1>14 DEF EndLoses, Return
<1>15. ASSUME NEW t \in Threads, Give(t) PROVE EndedDead'
  BY <1>15 DEF Give, Return, Spill
<1>16. ASSUME NEW t \in Threads, NEW grown \in BOOLEAN, ThreadExit(t, grown) PROVE EndedDead'
  BY <1>16 DEF ThreadExit
<1>17. ASSUME NEW t \in Threads, NEW g \in Gen, Pin(t, g) PROVE EndedDead'
  BY <1>17 DEF Pin
<1>18. ASSUME NEW t \in Threads, Unpin(t) PROVE EndedDead'
  BY <1>18 DEF Unpin
<1>19. CASE UNCHANGED vars
  BY <1>19 DEF vars
<1>20. ASSUME NEW t \in Threads, OutOfMemory(t) PROVE EndedDead'
  BY <1>20 DEF OutOfMemory
<1> QED
  BY <1>1, <1>2, <1>3, <1>4, <1>5, <1>6, <1>7, <1>8, <1>9, <1>10, <1>11, <1>12, <1>13,
     <1>14, <1>15, <1>16, <1>17, <1>18, <1>19, <1>20 DEF Next, NewStep, EndStep, OtherStep

\* Nobody else writes the entry between the load and the store of iron_gen_new.
LEMMA StepLoadCurrent == TypeOK /\ Exclusive /\ LoadCurrent /\ [Next]_vars => LoadCurrent'
<1> SUFFICES ASSUME TypeOK, Exclusive, LoadCurrent, [Next]_vars PROVE LoadCurrent'
  OBVIOUS
<1> USE DEF TypeOK, At, Goto, stacks, registers, LoadCurrent
<1>1. ASSUME NEW t \in Threads, NewCall(t) PROVE LoadCurrent'
  BY <1>1 DEF NewCall
<1>2. ASSUME NEW t \in Threads, TakeCached(t) PROVE LoadCurrent'
  BY <1>2 DEF TakeCached, Take
<1>3. ASSUME NEW t \in Threads, TakeRefill(t) PROVE LoadCurrent'
  BY <1>3 DEF TakeRefill, Take, Batches
<1>4. ASSUME NEW t \in Threads, TakeNone(t) PROVE LoadCurrent'
  BY <1>4 DEF TakeNone
<1>5. ASSUME NEW t \in Threads, TakeFresh(t) PROVE LoadCurrent'
  BY <1>5 DEF TakeFresh, Take
<1>6. ASSUME NEW t \in Threads, TooMany(t) PROVE LoadCurrent'
  BY <1>6 DEF TooMany
<1>7. ASSUME NEW t \in Threads, EntryOf(t) PROVE LoadCurrent'
  BY <1>7 DEF EntryOf
<1>8. ASSUME NEW t \in Threads, KillNull(t) PROVE LoadCurrent'
  BY <1>8 DEF KillNull
<1>9. ASSUME NEW t \in Threads, NewLoad(t) PROVE LoadCurrent'
  BY <1>9 DEF NewLoad
<1>10. ASSUME NEW t \in Threads, NewStore(t) PROVE LoadCurrent'
  <2>1. \A u \in Threads : u # t /\ pc[u] = "store" => slot[u] # slot[t]
    BY <1>10 DEF NewStore, Exclusive, Holds
  <2> QED
    BY <1>10, <2>1 DEF NewStore, Return
<1>11. ASSUME NEW t \in Threads, NEW g \in Gen, EndCall(t, g) PROVE LoadCurrent'
  BY <1>11 DEF EndCall
<1>12. ASSUME NEW t \in Threads, EndCheck(t) PROVE LoadCurrent'
  BY <1>12 DEF EndCheck
<1>13. ASSUME NEW t \in Threads, EndWins(t) PROVE LoadCurrent'
  <2>2. /\ gen[t] \in Gen /\ gen[t].slot \in Slots /\ entry[gen[t].slot].live
        /\ entry[gen[t].slot].seq = gen[t].seq
        /\ \A s \in Slots : entry'[s].seq = entry[s].seq
        /\ \A s \in Slots : entry'[s].live <=> entry[s].live /\ s # gen[t].slot
        /\ \A u \in Threads : slot[u] \in Slots
    BY <1>13, WinnersEntry
  <2>3. \/ pc' = [pc EXCEPT ![t] = "give"] /\ slot' = [slot EXCEPT ![t] = gen[t].slot]
        \/ pc' = [pc EXCEPT ![t] = "idle"] /\ slot' = [slot EXCEPT ![t] = 1]
                                           /\ gen[t].seq = SeqMax
    BY <1>13, WinnersEntry
  <2>4. \A u \in Threads : u # t => old'[u] = old[u] /\ gen'[u] = gen[u]
    BY <1>13 DEF EndWins, Return
  <2>5. \A u \in Threads : pc'[u] = "store" => u # t /\ pc[u] = "store" /\ slot'[u] = slot[u]
    BY <2>3
  <2> HIDE DEF TypeOK
  <2> QED
    BY <2>2, <2>4, <2>5
<1>14. ASSUME NEW t \in Threads, EndLoses(t) PROVE LoadCurrent'
  BY <1>14 DEF EndLoses, Return
<1>15. ASSUME NEW t \in Threads, Give(t) PROVE LoadCurrent'
  BY <1>15 DEF Give, Return, Spill
<1>16. ASSUME NEW t \in Threads, NEW grown \in BOOLEAN, ThreadExit(t, grown) PROVE LoadCurrent'
  BY <1>16 DEF ThreadExit
<1>17. ASSUME NEW t \in Threads, NEW g \in Gen, Pin(t, g) PROVE LoadCurrent'
  BY <1>17 DEF Pin
<1>18. ASSUME NEW t \in Threads, Unpin(t) PROVE LoadCurrent'
  BY <1>18 DEF Unpin
<1>19. CASE UNCHANGED vars
  BY <1>19 DEF vars
<1>20. ASSUME NEW t \in Threads, OutOfMemory(t) PROVE LoadCurrent'
  BY <1>20 DEF OutOfMemory
<1> QED
  BY <1>1, <1>2, <1>3, <1>4, <1>5, <1>6, <1>7, <1>8, <1>9, <1>10, <1>11, <1>12, <1>13,
     <1>14, <1>15, <1>16, <1>17, <1>18, <1>19, <1>20 DEF Next, NewStep, EndStep, OtherStep

\* Chunks are published before they are used and never taken back.
LEMMA StepChunksReady == TypeOK /\ ChunksReady /\ [Next]_vars => ChunksReady'
<1> SUFFICES ASSUME TypeOK, ChunksReady, [Next]_vars PROVE ChunksReady'
  OBVIOUS
<1> USE DEF TypeOK, At, Goto, stacks, registers, ChunksReady
<1>1. ASSUME NEW t \in Threads, NewCall(t) PROVE ChunksReady'
  BY <1>1 DEF NewCall
<1>2. ASSUME NEW t \in Threads, TakeCached(t) PROVE ChunksReady'
  BY <1>2 DEF TakeCached, Take
<1>3. ASSUME NEW t \in Threads, TakeRefill(t) PROVE ChunksReady'
  BY <1>3 DEF TakeRefill, Take, Batches
<1>4. ASSUME NEW t \in Threads, TakeNone(t) PROVE ChunksReady'
  BY <1>4 DEF TakeNone
<1>5. ASSUME NEW t \in Threads, TakeFresh(t) PROVE ChunksReady'
  BY <1>5 DEF TakeFresh, Take
<1>6. ASSUME NEW t \in Threads, TooMany(t) PROVE ChunksReady'
  BY <1>6 DEF TooMany
<1>7. ASSUME NEW t \in Threads, EntryOf(t) PROVE ChunksReady'
  BY <1>7 DEF EntryOf
<1>8. ASSUME NEW t \in Threads, KillNull(t) PROVE ChunksReady'
  BY <1>8 DEF KillNull
<1>9. ASSUME NEW t \in Threads, NewLoad(t) PROVE ChunksReady'
  BY <1>9 DEF NewLoad
<1>10. ASSUME NEW t \in Threads, NewStore(t) PROVE ChunksReady'
  BY <1>10 DEF NewStore, Return
<1>11. ASSUME NEW t \in Threads, NEW g \in Gen, EndCall(t, g) PROVE ChunksReady'
  BY <1>11 DEF EndCall
<1>12. ASSUME NEW t \in Threads, EndCheck(t) PROVE ChunksReady'
  BY <1>12 DEF EndCheck
<1>13. ASSUME NEW t \in Threads, EndWins(t) PROVE ChunksReady'
  <2>2. /\ gen[t] \in Gen /\ gen[t].slot \in Slots /\ entry[gen[t].slot].live
        /\ entry[gen[t].slot].seq = gen[t].seq
        /\ \A s \in Slots : entry'[s].seq = entry[s].seq
        /\ \A s \in Slots : entry'[s].live <=> entry[s].live /\ s # gen[t].slot
        /\ \A u \in Threads : slot[u] \in Slots
    BY <1>13, WinnersEntry
  <2>3. \/ pc' = [pc EXCEPT ![t] = "give"] /\ slot' = [slot EXCEPT ![t] = gen[t].slot]
        \/ pc' = [pc EXCEPT ![t] = "idle"] /\ slot' = [slot EXCEPT ![t] = 1]
                                           /\ gen[t].seq = SeqMax
    BY <1>13, WinnersEntry
  <2>4. published' = published
    BY <1>13 DEF EndWins
  <2> QED
    BY <2>2, <2>3, <2>4, ZenonT(60)
<1>14. ASSUME NEW t \in Threads, EndLoses(t) PROVE ChunksReady'
  BY <1>14 DEF EndLoses, Return
<1>15. ASSUME NEW t \in Threads, Give(t) PROVE ChunksReady'
  BY <1>15 DEF Give, Return, Spill
<1>16. ASSUME NEW t \in Threads, NEW grown \in BOOLEAN, ThreadExit(t, grown) PROVE ChunksReady'
  BY <1>16 DEF ThreadExit
<1>17. ASSUME NEW t \in Threads, NEW g \in Gen, Pin(t, g) PROVE ChunksReady'
  BY <1>17 DEF Pin
<1>18. ASSUME NEW t \in Threads, Unpin(t) PROVE ChunksReady'
  BY <1>18 DEF Unpin
<1>19. CASE UNCHANGED vars
  BY <1>19 DEF vars
<1>20. ASSUME NEW t \in Threads, OutOfMemory(t) PROVE ChunksReady'
  BY <1>20 DEF OutOfMemory
<1> QED
  BY <1>1, <1>2, <1>3, <1>4, <1>5, <1>6, <1>7, <1>8, <1>9, <1>10, <1>11, <1>12, <1>13,
     <1>14, <1>15, <1>16, <1>17, <1>18, <1>19, <1>20 DEF Next, NewStep, EndStep, OtherStep

\* A generation that was live stays live until it is in ended.
LEMMA StepEndKnown == TypeOK /\ Exclusive /\ ChunksReady /\ EndKnown /\ [Next]_vars => EndKnown'
<1> SUFFICES ASSUME TypeOK, Exclusive, ChunksReady, EndKnown, [Next]_vars PROVE EndKnown'
  OBVIOUS
<1> USE DEF TypeOK, At, Goto, stacks, registers, EndKnown, Live
<1>1. ASSUME NEW t \in Threads, NewCall(t) PROVE EndKnown'
  BY <1>1 DEF NewCall
<1>2. ASSUME NEW t \in Threads, TakeCached(t) PROVE EndKnown'
  BY <1>2 DEF TakeCached, Take
<1>3. ASSUME NEW t \in Threads, TakeRefill(t) PROVE EndKnown'
  BY <1>3 DEF TakeRefill, Take, Batches
<1>4. ASSUME NEW t \in Threads, TakeNone(t) PROVE EndKnown'
  BY <1>4 DEF TakeNone
<1>5. ASSUME NEW t \in Threads, TakeFresh(t) PROVE EndKnown'
  BY <1>5 DEF TakeFresh, Take
<1>6. ASSUME NEW t \in Threads, TooMany(t) PROVE EndKnown'
  BY <1>6 DEF TooMany
<1>7. ASSUME NEW t \in Threads, EntryOf(t) PROVE EndKnown'
  BY <1>7 DEF EntryOf
<1>8. ASSUME NEW t \in Threads, KillNull(t) PROVE EndKnown'
  BY <1>8 DEF KillNull
<1>9. ASSUME NEW t \in Threads, NewLoad(t) PROVE EndKnown'
  BY <1>9 DEF NewLoad
<1>10. ASSUME NEW t \in Threads, NewStore(t) PROVE EndKnown'
  <2>1. ~entry[slot[t]].live /\ slot[t] \in Slots
    BY <1>10 DEF NewStore, Exclusive, Holds
  <2>2. \A u \in Threads : u # t /\ Live(gen[u]) => gen[u].slot # slot[t]
    BY <2>1
  <2>3. \A u \in Threads : gen[u].slot \in Slots
    BY DEF Gen
  <2>4. /\ entry' = [entry EXCEPT ![slot[t]] = [seq |-> old[t] + 1, live |-> TRUE]]
        /\ pc' = [pc EXCEPT ![t] = "idle"]
        /\ \A u \in Threads : u # t => gen'[u] = gen[u]
        /\ UNCHANGED <<published, ended>>
    BY <1>10 DEF NewStore, Return
  <2> QED
    BY <2>1, <2>2, <2>3, <2>4
<1>11. ASSUME NEW t \in Threads, NEW g \in Gen, EndCall(t, g) PROVE EndKnown'
  <2>1. g \in ended \/ Live(g)
    BY <1>11 DEF EndCall, LiveGens
  <2>2. /\ \A u \in Threads : u # t => gen'[u] = gen[u] /\ pc'[u] = pc[u]
        /\ gen'[t] = g
        /\ UNCHANGED <<entry, published, ended>>
    BY <1>11 DEF EndCall
  <2> HIDE DEF TypeOK
  <2> QED
    BY <2>1, <2>2
<1>12. ASSUME NEW t \in Threads, EndCheck(t) PROVE EndKnown'
  BY <1>12 DEF EndCheck
<1>13. ASSUME NEW t \in Threads, EndWins(t) PROVE EndKnown'
  <2>1. entry' = [entry EXCEPT ![gen[t].slot] = [seq |-> gen[t].seq, live |-> FALSE]]
    BY <1>13 DEF EndWins
  <2>2. entry[gen[t].slot] = [seq |-> gen[t].seq, live |-> TRUE] /\ gen[t] \in Gen
    BY <1>13 DEF EndWins
  <2>3. /\ gen[t] \in Gen /\ gen[t].slot \in Slots /\ entry[gen[t].slot].live
        /\ entry[gen[t].slot].seq = gen[t].seq
        /\ \A s \in Slots : entry'[s].seq = entry[s].seq
        /\ \A s \in Slots : entry'[s].live <=> entry[s].live /\ s # gen[t].slot
        /\ \A u \in Threads : slot[u] \in Slots
    BY <1>13, WinnersEntry
  <2>4. \/ pc' = [pc EXCEPT ![t] = "give"] /\ slot' = [slot EXCEPT ![t] = gen[t].slot]
        \/ pc' = [pc EXCEPT ![t] = "idle"] /\ slot' = [slot EXCEPT ![t] = 1]
                                           /\ gen[t].seq = SeqMax
    BY <1>13, WinnersEntry
  <2>5. /\ \A u \in Threads : u # t => gen'[u] = gen[u]
        /\ published' = published /\ ended' = ended \cup {gen[t]}
    BY <1>13 DEF EndWins, Return
  <2>6. \A u \in Threads : gen[u] \in Gen /\ gen[u].slot \in Slots
    BY DEF Gen
  <2>7. ASSUME NEW u \in Threads, u # t, Live(gen[u]), gen[u] # gen[t]
        PROVE  gen[u].slot # gen[t].slot
    <3>1. gen[u] \in Gen /\ gen[t] \in Gen
      OBVIOUS
    <3>2. gen[u].slot = gen[t].slot => gen[u].seq = gen[t].seq
      BY <2>2, <2>7
    <3> HIDE DEF TypeOK
    <3> QED
      BY <2>7, <3>1, <3>2 DEF Gen
  <2> QED
    BY <2>1, <2>4, <2>5, <2>6, <2>7, ZenonT(60)
<1>14. ASSUME NEW t \in Threads, EndLoses(t) PROVE EndKnown'
  BY <1>14 DEF EndLoses, Return
<1>15. ASSUME NEW t \in Threads, Give(t) PROVE EndKnown'
  BY <1>15 DEF Give, Return, Spill
<1>16. ASSUME NEW t \in Threads, NEW grown \in BOOLEAN, ThreadExit(t, grown) PROVE EndKnown'
  BY <1>16 DEF ThreadExit
<1>17. ASSUME NEW t \in Threads, NEW g \in Gen, Pin(t, g) PROVE EndKnown'
  BY <1>17 DEF Pin
<1>18. ASSUME NEW t \in Threads, Unpin(t) PROVE EndKnown'
  BY <1>18 DEF Unpin
<1>19. CASE UNCHANGED vars
  BY <1>19 DEF vars
<1>20. ASSUME NEW t \in Threads, OutOfMemory(t) PROVE EndKnown'
  BY <1>20 DEF OutOfMemory
<1> QED
  BY <1>1, <1>2, <1>3, <1>4, <1>5, <1>6, <1>7, <1>8, <1>9, <1>10, <1>11, <1>12, <1>13,
     <1>14, <1>15, <1>16, <1>17, <1>18, <1>19, <1>20 DEF Next, NewStep, EndStep, OtherStep

\* A pin that was there at the check stopped the end.
LEMMA StepEndUnpinned == TypeOK /\ EndKnown /\ EndUnpinned /\ [Next]_vars => EndUnpinned'
<1> SUFFICES ASSUME TypeOK, EndKnown, EndUnpinned, [Next]_vars PROVE EndUnpinned'
  OBVIOUS
<1> USE DEF TypeOK, At, Goto, stacks, registers, EndUnpinned
<1>1. ASSUME NEW t \in Threads, NewCall(t) PROVE EndUnpinned'
  BY <1>1 DEF NewCall
<1>2. ASSUME NEW t \in Threads, TakeCached(t) PROVE EndUnpinned'
  BY <1>2 DEF TakeCached, Take
<1>3. ASSUME NEW t \in Threads, TakeRefill(t) PROVE EndUnpinned'
  BY <1>3 DEF TakeRefill, Take, Batches
<1>4. ASSUME NEW t \in Threads, TakeNone(t) PROVE EndUnpinned'
  BY <1>4 DEF TakeNone
<1>5. ASSUME NEW t \in Threads, TakeFresh(t) PROVE EndUnpinned'
  BY <1>5 DEF TakeFresh, Take
<1>6. ASSUME NEW t \in Threads, TooMany(t) PROVE EndUnpinned'
  BY <1>6 DEF TooMany
<1>7. ASSUME NEW t \in Threads, EntryOf(t) PROVE EndUnpinned'
  BY <1>7 DEF EntryOf
<1>8. ASSUME NEW t \in Threads, KillNull(t) PROVE EndUnpinned'
  BY <1>8 DEF KillNull
<1>9. ASSUME NEW t \in Threads, NewLoad(t) PROVE EndUnpinned'
  BY <1>9 DEF NewLoad
<1>10. ASSUME NEW t \in Threads, NewStore(t) PROVE EndUnpinned'
  BY <1>10 DEF NewStore, Return
<1>11. ASSUME NEW t \in Threads, NEW g \in Gen, EndCall(t, g) PROVE EndUnpinned'
  BY <1>11 DEF EndCall
<1>12. ASSUME NEW t \in Threads, EndCheck(t) PROVE EndUnpinned'
  <2>1. CASE Pinned(gen[t]) /\ Live(gen[t])
    BY <1>12, <2>1 DEF EndCheck
  <2>2. CASE ~Pinned(gen[t])
    BY <1>12, <2>2 DEF EndCheck, Pinned
  <2>3. CASE ~Live(gen[t])
    BY <1>12, <2>3 DEF EndCheck, EndKnown
  <2> QED
    BY <2>1, <2>2, <2>3
<1>13. ASSUME NEW t \in Threads, EndWins(t) PROVE EndUnpinned'
  <2>1. /\ \A u \in Threads : u # t => gen'[u] = gen[u] /\ pc'[u] = pc[u]
        /\ pc'[t] # "cas"
        /\ pins' = pins /\ ended \subseteq ended'
    BY <1>13 DEF EndWins, Return
  <2> QED
    BY <2>1
<1>14. ASSUME NEW t \in Threads, EndLoses(t) PROVE EndUnpinned'
  BY <1>14 DEF EndLoses, Return
<1>15. ASSUME NEW t \in Threads, Give(t) PROVE EndUnpinned'
  BY <1>15 DEF Give, Return, Spill
<1>16. ASSUME NEW t \in Threads, NEW grown \in BOOLEAN, ThreadExit(t, grown) PROVE EndUnpinned'
  BY <1>16 DEF ThreadExit
<1>17. ASSUME NEW t \in Threads, NEW g \in Gen, Pin(t, g) PROVE EndUnpinned'
  BY <1>17 DEF Pin
<1>18. ASSUME NEW t \in Threads, Unpin(t) PROVE EndUnpinned'
  BY <1>18 DEF Unpin
<1>19. CASE UNCHANGED vars
  BY <1>19 DEF vars
<1>20. ASSUME NEW t \in Threads, OutOfMemory(t) PROVE EndUnpinned'
  BY <1>20 DEF OutOfMemory
<1> QED
  BY <1>1, <1>2, <1>3, <1>4, <1>5, <1>6, <1>7, <1>8, <1>9, <1>10, <1>11, <1>12, <1>13,
     <1>14, <1>15, <1>16, <1>17, <1>18, <1>19, <1>20 DEF Next, NewStep, EndStep, OtherStep

\* A slot that leaves one owner goes to another, or is retired or lost.
LEMMA StepNoSlotForgotten == TypeOK /\ LoadCurrent /\ NoSlotForgotten /\ [Next]_vars => NoSlotForgotten'
<1> SUFFICES ASSUME TypeOK, LoadCurrent, NoSlotForgotten, [Next]_vars PROVE NoSlotForgotten'
  OBVIOUS
<1> USE DEF TypeOK, At, Goto, stacks, registers, NoSlotForgotten, Holds, Free
<1>1. ASSUME NEW t \in Threads, NewCall(t) PROVE NoSlotForgotten'
  BY <1>1 DEF NewCall
<1>2. ASSUME NEW t \in Threads, TakeCached(t) PROVE NoSlotForgotten'
  BY <1>2 DEF TakeCached, Take
<1>3. ASSUME NEW t \in Threads, TakeRefill(t) PROVE NoSlotForgotten'
  BY <1>3 DEF TakeRefill, Take, Batches
<1>4. ASSUME NEW t \in Threads, TakeNone(t) PROVE NoSlotForgotten'
  BY <1>4 DEF TakeNone
<1>5. ASSUME NEW t \in Threads, TakeFresh(t) PROVE NoSlotForgotten'
  <2>1. s_gen_fresh \in Slots /\ pc[t] = "fresh"
    BY <1>5 DEF TakeFresh, Slots
  <2>2. /\ s_gen_fresh' = s_gen_fresh + 1
        /\ slot' = [slot EXCEPT ![t] = s_gen_fresh] /\ pc' = [pc EXCEPT ![t] = "entry"]
        /\ UNCHANGED <<entry, s_gen_free, t_gen_free, lost>>
    BY <1>5 DEF TakeFresh, Take
  <2>3. \A s \in Slots : s < s_gen_fresh + 1 => s < s_gen_fresh \/ s = s_gen_fresh
    BY <2>1 DEF Slots
  <2>4. pc'[t] = "entry" /\ slot'[t] = s_gen_fresh
    BY <2>2
  <2>5. \A u \in Threads : Holds(u) => Holds(u)' /\ slot'[u] = slot[u]
    BY <2>1, <2>2
  <2> HIDE DEF TypeOK
  <2> QED
    BY <2>2, <2>3, <2>4, <2>5
<1>6. ASSUME NEW t \in Threads, TooMany(t) PROVE NoSlotForgotten'
  <2>1. \A s \in Slots : s < s_gen_fresh
    BY <1>6, GenAssumption DEF TooMany, Slots
  <2>2. UNCHANGED <<entry, s_gen_free, t_gen_free, pc, slot, lost>>
    BY <1>6 DEF TooMany
  <2> HIDE DEF TypeOK
  <2> QED
    BY <2>1, <2>2
<1>7. ASSUME NEW t \in Threads, EntryOf(t) PROVE NoSlotForgotten'
  BY <1>7 DEF EntryOf
<1>8. ASSUME NEW t \in Threads, KillNull(t) PROVE NoSlotForgotten'
  BY <1>8 DEF KillNull
<1>9. ASSUME NEW t \in Threads, NewLoad(t) PROVE NoSlotForgotten'
  <2>1. /\ slot' = slot /\ pc[t] = "load"
        /\ \/ pc' = [pc EXCEPT ![t] = "store"]
           \/ pc' = [pc EXCEPT ![t] = "take"] /\ entry[slot[t]].seq = SeqMax
        /\ UNCHANGED <<entry, s_gen_fresh, s_gen_free, t_gen_free, lost>>
    <3>1. entry[slot[t]].seq \in 0 .. SeqMax
      OBVIOUS
    <3>2. old'[t] = entry[slot[t]].seq
      BY <1>9 DEF NewLoad
    <3>0. /\ slot' = slot /\ pc[t] = "load"
          /\ pc' = [pc EXCEPT ![t] = IF old'[t] < SeqMax THEN "store" ELSE "take"]
          /\ UNCHANGED <<entry, s_gen_fresh, s_gen_free, t_gen_free, lost>>
      BY <1>9 DEF NewLoad
    <3>3. CASE old'[t] < SeqMax
      BY <3>0, <3>3
    <3>4. CASE ~(old'[t] < SeqMax)
      <4>1. entry[slot[t]].seq = SeqMax
        BY <3>1, <3>2, <3>4, GenAssumption
      <4> QED
        BY <3>0, <3>4, <4>1
    <3> QED
      BY <3>3, <3>4
  <2>2. \A u \in Threads : Holds(u) => Holds(u)' \/ entry[slot[u]].seq = SeqMax
    BY <2>1
  <2> HIDE DEF TypeOK
  <2> QED
    BY <2>1, <2>2
<1>10. ASSUME NEW t \in Threads, NewStore(t) PROVE NoSlotForgotten'
  BY <1>10 DEF NewStore, Return
<1>11. ASSUME NEW t \in Threads, NEW g \in Gen, EndCall(t, g) PROVE NoSlotForgotten'
  BY <1>11 DEF EndCall
<1>12. ASSUME NEW t \in Threads, EndCheck(t) PROVE NoSlotForgotten'
  BY <1>12 DEF EndCheck
<1>13. ASSUME NEW t \in Threads, EndWins(t) PROVE NoSlotForgotten'
  <2>2. /\ gen[t] \in Gen /\ gen[t].slot \in Slots /\ entry[gen[t].slot].live
        /\ entry[gen[t].slot].seq = gen[t].seq
        /\ \A s \in Slots : entry'[s].seq = entry[s].seq
        /\ \A s \in Slots : entry'[s].live <=> entry[s].live /\ s # gen[t].slot
        /\ \A u \in Threads : slot[u] \in Slots
    BY <1>13, WinnersEntry
  <2>3. \/ pc' = [pc EXCEPT ![t] = "give"] /\ slot' = [slot EXCEPT ![t] = gen[t].slot]
        \/ pc' = [pc EXCEPT ![t] = "idle"] /\ slot' = [slot EXCEPT ![t] = 1]
                                           /\ gen[t].seq = SeqMax
    BY <1>13, WinnersEntry
  <2>4. UNCHANGED <<s_gen_fresh, s_gen_free, t_gen_free, lost>>
    BY <1>13 DEF EndWins
  <2>5. pc[t] = "cas"
    BY <1>13 DEF EndWins
  <2>6. \A u \in Threads : Holds(u) => Holds(u)' /\ slot'[u] = slot[u]
    BY <2>3, <2>5
  <2>7. (Holds(t)' /\ slot'[t] = gen[t].slot) \/ gen[t].seq = SeqMax
    BY <2>3
  <2> HIDE DEF TypeOK
  <2> QED
    BY <2>2, <2>4, <2>6, <2>7
<1>14. ASSUME NEW t \in Threads, EndLoses(t) PROVE NoSlotForgotten'
  BY <1>14 DEF EndLoses, Return
<1>15. ASSUME NEW t \in Threads, Give(t) PROVE NoSlotForgotten'
  <2>1. PICK B \in SUBSET t_gen_free[t] :
           /\ s_gen_free' = s_gen_free \cup B
           /\ t_gen_free' = [t_gen_free EXCEPT ![t] = (@ \ B) \cup {slot[t]}]
    BY <1>15 DEF Give, Spill
  <2>2. \A s \in Slots : Free(s) \/ s = slot[t] => Free(s)'
    BY <2>1
  <2>3. \A u \in Threads : Holds(u) /\ u # t => Holds(u)' /\ slot'[u] = slot[u]
    BY <1>15 DEF Give, Return
  <2>4. UNCHANGED <<entry, s_gen_fresh, lost>>
    BY <1>15 DEF Give
  <2> HIDE DEF TypeOK, Free, Holds
  <2> QED
    BY <2>2, <2>3, <2>4
<1>16. ASSUME NEW t \in Threads, NEW grown \in BOOLEAN, ThreadExit(t, grown) PROVE NoSlotForgotten'
  BY <1>16 DEF ThreadExit
<1>17. ASSUME NEW t \in Threads, NEW g \in Gen, Pin(t, g) PROVE NoSlotForgotten'
  BY <1>17 DEF Pin
<1>18. ASSUME NEW t \in Threads, Unpin(t) PROVE NoSlotForgotten'
  BY <1>18 DEF Unpin
<1>19. CASE UNCHANGED vars
  BY <1>19 DEF vars
<1>20. ASSUME NEW t \in Threads, OutOfMemory(t) PROVE NoSlotForgotten'
  BY <1>20 DEF OutOfMemory
<1> QED
  BY <1>1, <1>2, <1>3, <1>4, <1>5, <1>6, <1>7, <1>8, <1>9, <1>10, <1>11, <1>12, <1>13,
     <1>14, <1>15, <1>16, <1>17, <1>18, <1>19, <1>20 DEF Next, NewStep, EndStep, OtherStep

----------------------------------------------------------------------------
(* The thread caches.                                                      *)

\* Sets of slots are finite.
LEMMA SlotsFinite == \A S \in SUBSET Slots : IsFiniteSet(S) /\ Cardinality(S) \in Nat
<1>1. IsFiniteSet(Slots)
  BY FS_Interval, GenAssumption DEF Slots
<1> QED
  BY <1>1, FS_Subset, FS_CardinalityType

\* Refilling brings in at most half a cache, and a full cache spills half of
\* itself before a slot is pushed.
LEMMA StepCacheFits == TypeOK /\ CacheFits /\ [Next]_vars => CacheFits'
<1> SUFFICES ASSUME TypeOK, CacheFits, [Next]_vars PROVE CacheFits'
  OBVIOUS
<1>1. ASSUME UNCHANGED t_gen_free PROVE CacheFits'
  BY <1>1 DEF CacheFits
<1>2. ASSUME NEW t \in Threads, NEW C \in SUBSET Slots, Cardinality(C) =< TCache,
             t_gen_free' = [t_gen_free EXCEPT ![t] = C]
      PROVE  CacheFits'
  BY <1>2 DEF CacheFits, TypeOK
<1>3. ASSUME NEW t \in Threads, TakeCached(t) PROVE CacheFits'
  <2>1. PICK s : t_gen_free' = [t_gen_free EXCEPT ![t] = @ \ {s}]
    BY <1>3 DEF TakeCached
  <2> DEFINE C == t_gen_free[t] \ {s}
  <2>2. t_gen_free[t] \in SUBSET Slots /\ C \in SUBSET t_gen_free[t] /\ C \in SUBSET Slots
    BY DEF TypeOK
  <2>3. Cardinality(C) =< Cardinality(t_gen_free[t])
    BY <2>2, SlotsFinite, FS_Subset
  <2>4. Cardinality(C) =< TCache
    BY <2>2, <2>3, SlotsFinite, GenAssumption DEF CacheFits
  <2> QED
    BY <1>2, <2>1, <2>2, <2>4
<1>4. ASSUME NEW t \in Threads, TakeRefill(t) PROVE CacheFits'
  <2>1. PICK B \in Batches(RefillSize) : \E s \in B : t_gen_free' = [t_gen_free EXCEPT ![t] = B \ {s}]
    BY <1>4 DEF TakeRefill
  <2> PICK s \in B : t_gen_free' = [t_gen_free EXCEPT ![t] = B \ {s}]
    BY <2>1
  <2>2. B \in SUBSET Slots /\ Cardinality(B) = RefillSize
    BY DEF Batches, TypeOK
  <2>3. Cardinality(s_gen_free) \in Nat
    BY SlotsFinite DEF TypeOK
  <2>4. RefillSize =< TCache
    BY <2>3, GenAssumption DEF RefillSize
  <2>5. B \ {s} \in SUBSET Slots /\ Cardinality(B \ {s}) =< Cardinality(B)
    BY <2>2, SlotsFinite, FS_Subset
  <2>6. Cardinality(B \ {s}) =< TCache
    BY <2>2, <2>4, <2>5, SlotsFinite, GenAssumption
  <2> QED
    BY <1>2, <2>1, <2>5, <2>6
<1>5. ASSUME NEW t \in Threads, Give(t) PROVE CacheFits'
  <2>1. PICK B \in Spill(t) : t_gen_free' = [t_gen_free EXCEPT ![t] = (@ \ B) \cup {slot[t]}]
    BY <1>5 DEF Give
  <2> DEFINE F == t_gen_free[t]
             D == F \ B
             C == D \cup {slot[t]}
  <2>2. F \in SUBSET Slots /\ D \in SUBSET Slots /\ C \in SUBSET Slots
    BY DEF TypeOK
  <2>3. Cardinality(C) =< Cardinality(D) + 1
    <3>1. IsFiniteSet(D) /\ Cardinality(D) \in Nat
      BY <2>2, SlotsFinite
    <3>2. Cardinality(C) = IF slot[t] \in D THEN Cardinality(D) ELSE Cardinality(D) + 1
      BY <3>1, FS_AddElement
    <3> HIDE DEF C, D
    <3> QED
      BY <3>1, <3>2
  <2>4. Cardinality(D) + 1 =< TCache
    <3>1. CASE Cardinality(F) = TCache
      <4>1. B \in SUBSET F /\ Cardinality(B) = TCache - TCache \div 2
        BY <3>1 DEF Spill
      <4>2. Cardinality(D) = Cardinality(F) - Cardinality(F \cap B)
        BY <2>2, <4>1, SlotsFinite, FS_Difference
      <4>3. F \cap B = B
        BY <4>1
      <4>4. TCache \div 2 \in Nat /\ TCache \div 2 + 1 =< TCache
        BY GenAssumption
      <4>5. Cardinality(D) = TCache - (TCache - TCache \div 2)
        BY <3>1, <4>1, <4>2, <4>3
      <4> QED
        BY <4>4, <4>5, GenAssumption
    <3>2. CASE Cardinality(F) # TCache
      <4>1. D = F
        BY <3>2 DEF Spill
      <4>2. Cardinality(F) =< TCache /\ Cardinality(F) \in Nat
        BY <2>2, SlotsFinite DEF CacheFits
      <4> QED
        BY <3>2, <4>1, <4>2, GenAssumption
    <3> QED
      BY <3>1, <3>2
  <2>5. Cardinality(C) =< TCache
    BY <2>2, <2>3, <2>4, SlotsFinite, GenAssumption
  <2> QED
    BY <1>2, <2>1, <2>2, <2>5
<1>6. ASSUME NEW t \in Threads, NEW grown \in BOOLEAN, ThreadExit(t, grown) PROVE CacheFits'
  <2>1. {} \in SUBSET Slots /\ Cardinality({}) =< TCache
    BY FS_EmptySet, GenAssumption
  <2> QED
    BY <1>2, <1>6, <2>1 DEF ThreadExit
<1>7. ASSUME UNCHANGED vars PROVE CacheFits'
  BY <1>1, <1>7 DEF vars, stacks
<1>8. ASSUME NEW t \in Threads,
             \/ NewCall(t) \/ TakeNone(t) \/ TakeFresh(t) \/ TooMany(t) \/ EntryOf(t)
             \/ KillNull(t) \/ NewLoad(t) \/ NewStore(t) \/ (\E g \in Gen : EndCall(t, g))
             \/ EndCheck(t) \/ EndWins(t) \/ EndLoses(t) \/ (\E g \in Gen : Pin(t, g))
             \/ Unpin(t) \/ OutOfMemory(t)
      PROVE  CacheFits'
  <2>1. UNCHANGED t_gen_free
    BY <1>8 DEF NewCall, TakeNone, TakeFresh, TooMany, EntryOf, KillNull, NewLoad, NewStore,
         EndCall, EndCheck, EndWins, EndLoses, Pin, Unpin, OutOfMemory, stacks
  <2> QED
    BY <1>1, <2>1
<1> QED
  BY <1>3, <1>4, <1>5, <1>6, <1>7, <1>8 DEF Next, NewStep, EndStep, OtherStep

----------------------------------------------------------------------------
(* The theorems.                                                           *)

\* The table starts empty.
LEMMA InitIInv == Init => IInv /\ NoSlotForgotten /\ CacheFits
<1> SUFFICES ASSUME Init PROVE IInv /\ NoSlotForgotten /\ CacheFits
  OBVIOUS
<1>1. TypeOK
  <2>1. [seq |-> 0, live |-> FALSE] \in [seq : 0 .. SeqMax, live : BOOLEAN]
    BY Defaults
  <2>2. pins \in [Threads -> Seq(Gen)]
    BY DEF Init
  <2>3. entry \in [Slots -> [seq : 0 .. SeqMax, live : BOOLEAN]]
    BY <2>1 DEF Init
  <2>4. /\ slot \in [Threads -> Slots] /\ old \in [Threads -> 0 .. SeqMax]
        /\ gen \in [Threads -> Gen]
    BY Defaults DEF Init
  <2>5. nullDead \in BOOLEAN /\ down \in BOOLEAN
    BY DEF Init
  <2>6. /\ published \in SUBSET Nat /\ s_gen_free \in SUBSET Slots
        /\ ended \in SUBSET Gen /\ lost \in SUBSET Slots
        /\ t_gen_free \in [Threads -> SUBSET Slots] /\ s_gen_fresh \in Nat \ {0}
    BY DEF Init
  <2>7. pc \in [Threads -> {"idle", "take", "fresh", "entry", "null", "load", "store",
                            "check", "cas", "give"}]
    BY DEF Init
  <2> QED
    BY <2>2, <2>3, <2>4, <2>5, <2>6, <2>7 DEF TypeOK
<1>2. CacheFits
  BY FS_EmptySet, GenAssumption DEF Init, CacheFits
<1>3. NoSlotForgotten
  BY GenAssumption DEF Init, NoSlotForgotten, Slots
<1>4. Exclusive /\ FreshUnused /\ EndedDead /\ LoadCurrent /\ ChunksReady
  BY DEF Init, Exclusive, FreshUnused, EndedDead, LoadCurrent, ChunksReady, Free, Holds
<1>5. EndKnown /\ EndUnpinned
  BY DEF Init, EndKnown, EndUnpinned
<1> QED
  BY <1>1, <1>2, <1>3, <1>4, <1>5 DEF IInv

\* The inductive invariant holds in every reachable state of iron_heap_track.c.
THEOREM Inductive == Spec => []IInv
<1>1. IInv /\ [Next]_vars => IInv'
  BY StepTypeOK, StepExclusive, StepFreshUnused, StepEndedDead, StepLoadCurrent,
     StepChunksReady, StepEndKnown, StepEndUnpinned DEF IInv
<1> QED
  BY <1>1, InitIInv, PTL DEF Spec

\* The table, the free stacks and the registers keep their types.
THEOREM TypeCorrect == Spec => []TypeOK
BY Inductive, PTL DEF IInv

\* gen_take_slot and gen_give_slot never let a slot have two owners.
THEOREM OneOwner == Spec => []Exclusive
BY Inductive, PTL DEF IInv

\* Every slot ever handed out is accounted for: gen_take_slot, iron_gen_end
\* and iron_gen_thread_exit leak none but those a failed realloc loses.
THEOREM SlotsKept == Spec => []NoSlotForgotten
<1>1. IInv /\ NoSlotForgotten /\ [Next]_vars => NoSlotForgotten'
  BY StepNoSlotForgotten DEF IInv
<1> QED
  BY <1>1, InitIInv, Inductive, PTL DEF Spec

\* gen_give_slot never writes past the end of t_gen_free.
THEOREM CacheBounded == Spec => []CacheFits
<1>1. IInv /\ CacheFits /\ [Next]_vars => CacheFits'
  BY StepCacheFits DEF IInv
<1> QED
  BY <1>1, InitIInv, Inductive, PTL DEF Spec

\* iron_gen_end refuses, by panicking, to end a generation that the calling
\* thread has pinned.
THEOREM PinsHonoured == Spec => PinHonoured
<1> DEFINE Honoured == \A t \in Threads :
              gen[t] \in ended' \ ended /\ pc[t] = "cas" /\ pc'[t] # "cas" =>
                  \A k \in DOMAIN pins[t] : pins[t][k] # gen[t]
<1>1. IInv => Honoured
  BY DEF IInv, EndUnpinned
<1> QED
  BY <1>1, Inductive, PTL DEF PinHonoured, Honoured

----------------------------------------------------------------------------
(* The table implements Generations.                                       *)

\* A live generation is what its entry says.
LEMMA LiveIs == IInv => LiveGens = {g \in Gen : entry[g.slot].live /\ entry[g.slot].seq = g.seq}
<1> SUFFICES ASSUME IInv, NEW g \in Gen
             PROVE  Live(g) <=> entry[g.slot].live /\ entry[g.slot].seq = g.seq
  BY DEF LiveGens
<1>1. g.slot \in Slots /\ entry[g.slot] \in [seq : 0 .. SeqMax, live : BOOLEAN]
  BY DEF IInv, TypeOK, Gen
<1>2. Live(g) => entry[g.slot].live /\ entry[g.slot].seq = g.seq
  BY DEF Live
<1>3. ASSUME entry[g.slot].live, entry[g.slot].seq = g.seq PROVE Live(g)
  <2>1. ChunkOf(g.slot) \in published
    BY <1>1, <1>3 DEF IInv, ChunksReady
  <2>2. entry[g.slot] = [seq |-> g.seq, live |-> TRUE]
    BY <1>1, <1>3
  <2> QED
    BY <2>1, <2>2 DEF Live
<1> QED
  BY <1>2, <1>3

\* Generations are determined by slot and sequence number.
LEMMA GenIsG == \A g \in Gen : g = G(g.slot, g.seq)
BY DEF Gen, G

\* Every step is a step of Generations or leaves live and ended alone.
LEMMA RefineStep == IInv /\ IInv' /\ [Next]_vars => [Abstract!Next]_<<LiveGens, ended>>
<1> SUFFICES ASSUME IInv, IInv', [Next]_vars PROVE [Abstract!Next]_<<LiveGens, ended>>
  OBVIOUS
<1>1. /\ LiveGens = {g \in Gen : entry[g.slot].live /\ entry[g.slot].seq = g.seq}
      /\ LiveGens' = {g \in Gen : entry'[g.slot].live /\ entry'[g.slot].seq = g.seq}
  <2>1. (IInv => LiveGens = {g \in Gen : entry[g.slot].live /\ entry[g.slot].seq = g.seq})'
    BY LiveIs, PTL
  <2> QED
    BY <2>1, LiveIs
<1>2. ASSUME UNCHANGED <<entry, ended>> PROVE [Abstract!Next]_<<LiveGens, ended>>
  BY <1>1, <1>2
<1>3. ASSUME NEW t \in Threads, NewStore(t) PROVE [Abstract!Next]_<<LiveGens, ended>>
  <2> DEFINE n == G(slot[t], old[t] + 1)
  <2>1. /\ slot[t] \in Slots /\ old[t] \in 0 .. SeqMax /\ old[t] < SeqMax
        /\ old[t] = entry[slot[t]].seq /\ ~entry[slot[t]].live
        /\ entry' = [entry EXCEPT ![slot[t]] = [seq |-> old[t] + 1, live |-> TRUE]]
        /\ ended' = ended
    BY <1>3 DEF NewStore, At, IInv, TypeOK, LoadCurrent, Exclusive, Holds
  <2>2. n \in Gen /\ n.slot = slot[t] /\ n.seq = old[t] + 1
    BY <2>1, GenAssumption DEF Gen, G
  <2>3. n \notin LiveGens
    BY <1>1, <2>1, <2>2
  <2>4. n \notin ended
    BY <2>1, <2>2 DEF IInv, EndedDead
  <2>5. \A g \in Gen : g.slot \in Slots /\ g.seq \in 1 .. SeqMax
    BY DEF Gen
  <2>6. \A g \in Gen : g.slot = slot[t] /\ g.seq = old[t] + 1 => g = n
    BY GenIsG
  <2>7. \A s \in Slots : entry'[s] = IF s = slot[t] THEN [seq |-> old[t] + 1, live |-> TRUE] ELSE entry[s]
    BY <2>1 DEF IInv, TypeOK
  <2>8. LiveGens' = LiveGens \cup {n}
    <3>1. \A g \in Gen : entry'[g.slot].live /\ entry'[g.slot].seq = g.seq <=>
                           (entry[g.slot].live /\ entry[g.slot].seq = g.seq) \/ g = n
      BY <2>1, <2>2, <2>5, <2>6, <2>7
    <3> QED
      BY <1>1, <2>2, <3>1
  <2>9. Abstract!New(n)
    BY <2>1, <2>3, <2>4, <2>8 DEF Abstract!New
  <2> QED
    BY <2>2, <2>9 DEF Abstract!Next
<1>4. ASSUME NEW t \in Threads, EndWins(t) PROVE [Abstract!Next]_<<LiveGens, ended>>
  <2>1. /\ gen[t] \in Gen /\ gen[t].slot \in Slots /\ entry[gen[t].slot].live
        /\ entry[gen[t].slot].seq = gen[t].seq
        /\ \A s \in Slots : entry'[s].seq = entry[s].seq
        /\ \A s \in Slots : entry'[s].live <=> entry[s].live /\ s # gen[t].slot
    BY <1>4, WinnersEntry DEF IInv
  <2>2. ended' = ended \cup {gen[t]}
    BY <1>4 DEF EndWins
  <2>3. \A g \in Gen : g.slot \in Slots
    BY DEF Gen
  <2>4. \A g \in Gen : g.slot = gen[t].slot /\ g.seq = gen[t].seq => g = gen[t]
    BY <2>1, GenIsG
  <2>5. gen[t] \in LiveGens
    BY <1>1, <2>1
  <2>6. LiveGens' = LiveGens \ {gen[t]}
    <3>1. \A g \in Gen : entry'[g.slot].live /\ entry'[g.slot].seq = g.seq <=>
                           (entry[g.slot].live /\ entry[g.slot].seq = g.seq) /\ g # gen[t]
      BY <2>1, <2>3, <2>4
    <3> QED
      BY <1>1, <3>1
  <2>7. Abstract!End(gen[t])
    BY <2>2, <2>5, <2>6 DEF Abstract!End
  <2> QED
    BY <2>1, <2>7 DEF Abstract!Next
<1>5. ASSUME NEW t \in Threads,
             \/ NewCall(t) \/ TakeCached(t) \/ TakeRefill(t) \/ TakeNone(t) \/ TakeFresh(t)
             \/ TooMany(t) \/ EntryOf(t) \/ KillNull(t) \/ NewLoad(t) \/ OtherStep(t)
             \/ (\E g \in Gen : EndCall(t, g)) \/ EndCheck(t) \/ EndLoses(t) \/ Give(t)
      PROVE  [Abstract!Next]_<<LiveGens, ended>>
  <2>1. UNCHANGED <<entry, ended>>
    BY <1>5 DEF NewCall, TakeCached, TakeRefill, TakeNone, TakeFresh, TooMany, EntryOf,
         KillNull, NewLoad, OtherStep, EndCall, EndCheck, EndLoses, Give, ThreadExit, Pin,
         Unpin, OutOfMemory
  <2> QED
    BY <1>2, <2>1
<1>6. ASSUME UNCHANGED vars PROVE [Abstract!Next]_<<LiveGens, ended>>
  BY <1>2, <1>6 DEF vars
<1> QED
  BY <1>3, <1>4, <1>5, <1>6 DEF Next, NewStep, EndStep

\* iron_gen_new never gives out a generation twice, iron_gen_end ends each at
\* most once, and a dead pointer's generation is never live again, however
\* the slot is reused and whatever other threads do.
THEOREM RefinesGenerations == Spec => NeverRevived
<1>1. Init => Abstract!Init
  BY DEF Init, Abstract!Init, LiveGens, Live
<1>2. IInv /\ IInv' /\ [Next]_vars => [Abstract!Next]_<<LiveGens, ended>>
  BY RefineStep
<1> QED
  BY <1>1, <1>2, Inductive, PTL DEF Spec, NeverRevived, Abstract!Spec
====
