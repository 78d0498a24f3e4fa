---- MODULE MCIronPool ----
EXTENDS IronPool
CONSTANTS a, b, a1, a2, s, e

\* main's loop has chunks a and b; chunk a has a nested loop; s and e are spawn
\* statements, and e never returns.
MCParent == [i \in Items |-> CASE i \in {a, b} -> Main
                               [] i \in {a1, a2} -> a
                               [] OTHER -> NoGroup]

\* All items are chunks of the loop of another program thread: a bound spawn
\* that nobody awaits.
MCParentSpawn == [i \in Items |-> CHOOSE c \in Clients : c # Main]
====
