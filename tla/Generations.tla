---- MODULE Generations ----
(***************************************************************************)
(* What the generation table promises to checked pointers                  *)
(* (src/docs/dev/POINTER-SAFETY.md, I1 and I2): a generation is given out  *)
(* at most once, ends at most once, and never becomes live again.          *)
(***************************************************************************)
CONSTANT Gen

VARIABLES live, ended

Init == live = {} /\ ended = {}

New(g) ==
    /\ g \notin live \cup ended
    /\ live' = live \cup {g}
    /\ UNCHANGED ended

End(g) ==
    /\ g \in live
    /\ live' = live \ {g}
    /\ ended' = ended \cup {g}

Next == \E g \in Gen : New(g) \/ End(g)

Spec == Init /\ [][Next]_<<live, ended>>
====
