---- MODULE MCEmittedCode ----
(***************************************************************************)
(* What the compiler emits: the counted objects of the runtime, and the    *)
(* widths of local variables.  They share no state, and each is explored   *)
(* by itself: `part` is the one a behaviour is about, and the other rests  *)
(* in its first state.                                                     *)
(***************************************************************************)
EXTENDS IronRc, LocalRanges

VARIABLE part

emittedVars == <<vars, RangesVars, part>>

\* An object is explored once, not once for every control-flow graph.
OneGraph == CHOOSE g \in Graphs : TRUE

EmittedInit ==
  /\ Init /\ RangesInit
  /\ \/ part = "object" /\ succs = OneGraph
     \/ part = "ranges"

EmittedNext ==
  /\ UNCHANGED part
  /\ \/ part = "object" /\ Next /\ UNCHANGED RangesVars
     \/ part = "ranges" /\ RangesNext /\ UNCHANGED vars

EmittedFairness == \A h \in Handles :
  /\ WF_vars(part = "object" /\ Teardown(h))
  /\ WF_vars(part = "object" /\ (PtrNew(h) \/ PtrInstall(h) \/ PtrLose(h)))

EmittedSpec == EmittedInit /\ [][EmittedNext]_emittedVars /\ EmittedFairness
====
