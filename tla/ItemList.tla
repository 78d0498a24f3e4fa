---- MODULE ItemList ----
(***************************************************************************)
(* What the pool's work queue promises its callers: an unbounded list that *)
(* grows at the end and shrinks at the front or at any one position.       *)
(***************************************************************************)
EXTENDS Integers, Sequences

CONSTANTS Item

VARIABLES list, out     \* the list, and the item last removed from it

Init == list = <<>> /\ out \notin Item

Push(x) == list' = Append(list, x) /\ out' = out

Remove(k) ==
    /\ out' = list[k]
    /\ list' = SubSeq(list, 1, k - 1) \o SubSeq(list, k + 1, Len(list))

Next == (\E x \in Item : Push(x)) \/ (\E k \in 1 .. Len(list) : Remove(k))

Spec == Init /\ [][Next]_<<list, out>>
====
