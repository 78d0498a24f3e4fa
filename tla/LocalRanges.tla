----------------------------- MODULE LocalRanges -----------------------------
(***************************************************************************)
(* The proof by which the compiler declares an Int or UInt local with a    *)
(* narrower C type (lir/value_range.c, the function-local half): intervals *)
(* of values, the dominators of the function's blocks, and the bounds of a *)
(* loop counter.                                                           *)
(*                                                                         *)
(* A behaviour takes one function through the analysis and then runs it.   *)
(* The function is any graph of a few blocks around one loop header, with  *)
(* one local of interest: a constant stored into it somewhere, a second    *)
(* store somewhere else, and the header's test of it against a constant.   *)
(* Other branches go either way.  An Int is -Half..Half-1 and wraps.       *)
(*                                                                         *)
(* Two kinds of function are narrowed wrongly, and the model has them: the *)
(* header branches on a test that was made before the loop, or a UInt is   *)
(* tested against a bound above the largest Int.                           *)
(***************************************************************************)
EXTENDS Integers, Sequences, FiniteSets, FiniteSetsExt

CONSTANTS
  Half,        \* half the number of values of an Int
  Narrow,      \* the same for the narrower C types
  Kinds,       \* the types of the local: "INT", "UINT"
  Inits, Steps, Bounds,  \* bound: the constants the function uses, as words
  Exit         \* bound: its blocks are 0..Exit, Exit returns

ASSUME RangesAssumption ==
  /\ Half \in Nat \ {0} /\ Narrow \subseteq 1..Half - 1
  /\ Kinds \subseteq {"INT", "UINT"}
  /\ Exit \in Nat /\ Exit > 1
  /\ Inits \cup Steps \cup Bounds \subseteq 0..2 * Half - 1

VARIABLES
  phase,   \* "dominators", "infer", then "run", or "wide" when nothing is proved
  succs,   \* successors of each block; the header's in order: then, else
  dom,     \* dom[b]: blocks that dominate b, as far as is known
  cursor,  \* the block whose row the pass computes next
  changed, \* whether the pass has changed a row
  place,   \* where the function uses the local ...
  code,    \* ... and with which constants
  range,   \* what is proved of it
  at,      \* the block that runs next
  value,   \* of the local, None before the first store
  loaded,  \* what the second store's operand was when it was loaded
  test     \* the last result of the test

RangesVars == <<phase, succs, dom, cursor, changed, place, code, range, at, value, loaded, test>>

Ints == -Half..Half - 1
Blocks == 0..Exit
Header == 1
None == Half    \* no Int

\* Signed and unsigned readings of a machine word.
Wrap(x) == ((x + Half) % (2 * Half)) - Half
Reading(kind, x) == IF kind = "UINT" THEN x % (2 * Half) ELSE x

-----------------------------------------------------------------------------
(* Intervals. *)

Top == [top |-> TRUE, min |-> 0, max |-> 0]
Interval(lo, hi) == [top |-> FALSE, min |-> lo, max |-> hi]
Const(x) == Interval(x, x)

\* The interval between the extremes of S, unless computing one overflows.
Spanning(S) == IF S \subseteq Ints THEN Interval(Min(S), Max(S)) ELSE Top

RangeAdd(a, b) == IF a.top \/ b.top THEN Top ELSE Spanning({a.min + b.min, a.max + b.max})

RangeSub(a, b) == IF a.top \/ b.top THEN Top ELSE Spanning({a.min - b.max, a.max - b.min})

RangeMul(a, b) ==
  IF a.top \/ b.top THEN Top
  ELSE Spanning({x * y : x \in {a.min, a.max}, y \in {b.min, b.max}})

\* select_local_narrowed_type: the narrowest type that holds r, or Half.
Holds(kind, h) == IF kind = "UINT" THEN 0..2 * h - 1 ELSE -h..h - 1
NarrowedType(kind, r) ==
  LET fits == {h \in Narrow : r.min \in Holds(kind, h) /\ r.max \in Holds(kind, h)}
  IN  IF r.top \/ fits = {} THEN Half ELSE Min(fits)

-----------------------------------------------------------------------------
(* Graphs. *)

Succs(b) == {succs[b][k] : k \in DOMAIN succs[b]}
Preds(b) == {p \in Blocks : b \in Succs(p)}

\* What a worklist that starts with S and adds step[b] for every b ends with:
\* the least set that has S and that no step leaves.
Closure(S, step) ==
  LET closed == {T \in SUBSET Blocks : S \subseteq T /\ \A b \in T : step[b] \subseteq T}
  IN  {b \in Blocks : \A T \in closed : b \in T}

Reachable == Closure({0}, [b \in Blocks |-> Succs(b)])

\* local_compute_dominators: rows are intersections over the reachable
\* predecessors, taken block by block until a pass changes nothing.
FirstRows ==
  [b \in Blocks |-> IF b \notin Reachable THEN {} ELSE IF b = 0 THEN {0} ELSE Reachable]

RowOfOne(b) ==
  LET preds == Preds(b) \cap Reachable
  IN  {b} \cup (IF preds = {} THEN {} ELSE dom[Min(preds)])

Row(b) ==
  LET preds == Preds(b) \cap Reachable
  IN  {b} \cup {a \in Blocks : preds # {} /\ \A p \in preds : a \in dom[p]}

-----------------------------------------------------------------------------
(* The local: `init` is stored in block initAt; the local, loaded in loadAt,  *)
(* plus or minus `step` in updateAt; the header branches on a test, made in   *)
(* testAt, of the local against `bound`, which is on the left if flipped.     *)

\* (The update is neither in block 0 nor in the header; the others are alike.)
Places == [initAt: Blocks, loadAt: Blocks, updateAt: {2}, testAt: Blocks]
\* A UInt constant above the largest Int is kept as its bit pattern: Wrap.
Codes == [kind: Kinds, init: {Wrap(x) : x \in Inits}, op: {"ADD", "SUB"},
          step: {Wrap(x) : x \in Steps}, cmp: {"LT", "LTE", "GT", "GTE"},
          flipped: BOOLEAN, bound: {Wrap(x) : x \in Bounds}]

\* A load that only the first store can have given is that store's constant, and
\* a test of constants is folded: what is left can come after the update.  For a
\* test made before the loop, that takes an enclosing loop.
Unfolded(p) ==
  {p.loadAt, p.testAt} \subseteq Closure({p.updateAt}, [b \in Blocks |-> Succs(b)])

\* Functions that are lowered from a program: a value is made before it is used,
\* and a loop condition assigns nothing.
Lowered(p) ==
  /\ Exit \notin {p.initAt, p.loadAt, p.testAt}
  /\ p.initAt \notin {Header, p.updateAt}
  /\ p.initAt \in dom[p.testAt] /\ p.initAt \in dom[p.loadAt]
  /\ p.loadAt \in dom[p.updateAt] /\ p.testAt \in dom[Header]
  /\ Unfolded(p)

\* The natural loop of the header.
Latches == {p \in Preds(Header) : Header \in dom[p]}
Member ==
  {Header} \cup
  Closure(Latches \ {Header},
          [b \in Blocks |-> {p \in Preds(b) : Header \in dom[p]} \ {Header}])

\* A path of the loop leads from the update back to it without the header.
RepeatsBeforeHeader(update) ==
  LET onward == [b \in Blocks |-> (Succs(b) \cap Member) \ {Header}]
  IN  update \in Closure(onward[update], onward)

StructureOkRepeated(p) ==
  /\ Latches # {} /\ Cardinality(Preds(Header) \ Member) = 1
  /\ p.initAt \notin Member /\ p.updateAt \in Member /\ p.initAt \in dom[Header]
  /\ succs[Header][1] \in Member /\ succs[Header][2] \notin Member

\* One entry, the first store before the loop and the second in it, at most
\* once between two tests.
StructureOk(p) ==
  /\ Latches # {} /\ Cardinality(Preds(Header) \ Member) = 1
  /\ p.initAt \notin Member /\ p.updateAt \in Member /\ p.initAt \in dom[Header]
  /\ succs[Header][1] \in Member /\ succs[Header][2] \notin Member
  /\ ~RepeatsBeforeHeader(p.updateAt)

\* local_invert_comparison.
Invert(cmp) ==
  CASE cmp = "LT" -> "GT" [] cmp = "LTE" -> "GTE" [] cmp = "GT" -> "LT" [] OTHER -> "LTE"

Delta(c) == IF c.op = "ADD" THEN c.step ELSE -c.step

\* A counter that is raised while it is at most `highest`, and one that is
\* lowered while it is at least `lowest`: one step beyond, unless it overflows.
CountUp(init, highest, delta) ==
  IF init > highest THEN Const(init)
  ELSE IF highest + delta \notin Ints THEN Top
  ELSE Interval(init, highest + delta)

CountDown(init, lowest, delta) ==
  IF init < lowest THEN Const(init)
  ELSE IF lowest + delta \notin Ints THEN Top
  ELSE Interval(lowest + delta, init)

Counting(c) ==
  LET delta == Delta(c)
      cmp == IF c.flipped THEN Invert(c.cmp) ELSE c.cmp
  IN  IF delta \notin Ints \ {0} THEN Top ELSE
      CASE delta > 0 /\ cmp = "LT" -> CountUp(c.init, c.bound - 1, delta)
        [] delta > 0 /\ cmp = "LTE" -> CountUp(c.init, c.bound, delta)
        [] delta < 0 /\ cmp = "GT" -> CountDown(c.init, c.bound + 1, delta)
        [] delta < 0 /\ cmp = "GTE" -> CountDown(c.init, c.bound, delta)
        [] OTHER -> Top

\* local_eval_value of an operation on the local and an operand.
EvalValue(op, r, operand) ==
  CASE op = "ADD" -> RangeAdd(r, operand)
    [] op = "SUB" -> RangeSub(r, operand)
    [] OTHER -> RangeMul(r, operand)

-----------------------------------------------------------------------------
(* The analysis. The dominators are computed a row at a time. *)

Graphs ==
  {g \in [Blocks -> UNION {[1..n -> Blocks \ {0}] : n \in 0..2}] :
     /\ \A b \in Blocks : (g[b] = <<>>) = (b = Exit)
     /\ Len(g[Header]) = 2 /\ g[Header][1] # g[Header][2]
     /\ \A b \in Blocks \ {Header, Exit} : Len(g[b]) = 2 => g[b][1] < g[b][2]}

Nowhere == [initAt |-> 0, loadAt |-> 0, updateAt |-> 2, testAt |-> 0]
NoCode == [kind |-> "INT", init |-> 0, op |-> "ADD", step |-> 0, cmp |-> "LT",
           flipped |-> FALSE, bound |-> 0]

RangesInit ==
  /\ phase = "dominators" /\ succs \in Graphs /\ dom = FirstRows
  /\ cursor = 1 /\ changed = FALSE
  /\ place = Nowhere /\ code = NoCode /\ range = Top
  /\ at = 0 /\ value = None /\ loaded = None /\ test = FALSE

Dominate ==
  /\ phase = "dominators" /\ cursor <= Exit
  /\ dom' = [dom EXCEPT ![cursor] = IF cursor \in Reachable THEN Row(cursor) ELSE @]
  /\ changed' = (changed \/ dom' # dom)
  /\ cursor' = cursor + 1
  /\ UNCHANGED <<phase, succs, place, code, range, at, value, loaded, test>>

EndPass ==
  /\ phase = "dominators" /\ cursor > Exit
  /\ phase' = IF changed THEN "dominators" ELSE "infer"
  /\ cursor' = 1 /\ changed' = FALSE
  /\ UNCHANGED <<succs, dom, place, code, range, at, value, loaded, test>>

\* Nothing is proved of the local: it keeps its declared type.
Refuse ==
  /\ phase = "infer"
  /\ \E p \in Places : Lowered(p) /\ (~StructureOk(p) \/ \E c \in Codes : Counting(c).top)
  /\ phase' = "wide"
  /\ UNCHANGED <<succs, dom, cursor, changed, place, code, range, at, value, loaded, test>>

\* local_infer_induction succeeds; the function is compiled and called.
Infer ==
  /\ phase = "infer"
  /\ \E p \in Places :
       /\ Lowered(p) /\ StructureOk(p)
       /\ \E c \in Codes :
            /\ ~Counting(c).top
            /\ place' = p /\ code' = c /\ range' = Counting(c)
  /\ phase' = "run"
  /\ UNCHANGED <<succs, dom, cursor, changed, at, value, loaded, test>>

-----------------------------------------------------------------------------
(* The function runs, block by block, with a local as wide as declared.      *)

Compare(x) ==
  LET i == Reading(code.kind, x)
      bound == Reading(code.kind, code.bound)
      l == IF code.flipped THEN bound ELSE i
      r == IF code.flipped THEN i ELSE bound
  IN  CASE code.cmp = "LT" -> l < r [] code.cmp = "LTE" -> l <= r
        [] code.cmp = "GT" -> l > r [] OTHER -> l >= r

Block ==
  /\ phase = "run" /\ at # Exit
  /\ LET start == IF place.initAt = at THEN code.init ELSE value
     IN  /\ loaded' = IF place.loadAt = at THEN start ELSE loaded
         /\ test' = IF place.testAt = at THEN Compare(start) ELSE test
         /\ value' = IF place.updateAt = at THEN Wrap(loaded' + Delta(code)) ELSE start
  /\ IF at = Header THEN at' = succs[at][IF test' THEN 1 ELSE 2]
                    ELSE at' \in Succs(at)
  /\ UNCHANGED <<phase, succs, dom, cursor, changed, place, code, range>>

RangesNext == Dominate \/ EndPass \/ Refuse \/ Infer \/ Block

RangesSpec == RangesInit /\ [][RangesNext]_RangesVars

-----------------------------------------------------------------------------
(* Properties. *)

RangesTypeOK ==
  /\ phase \in {"dominators", "infer", "run", "wide"}
  /\ dom \in [Blocks -> SUBSET Blocks] /\ cursor \in 1..Exit + 1 /\ changed \in BOOLEAN
  /\ place \in Places /\ code.init \in Ints /\ code.bound \in Ints
  /\ range.top \in BOOLEAN /\ range.min \in Ints /\ range.max \in Ints
  /\ range.min <= range.max
  /\ at \in Blocks /\ value \in Ints \cup {None} /\ loaded \in Ints \cup {None}

\* What a type of the kind and a range tell of a value.
Within(r, x) == Reading(code.kind, x) \in r.min..r.max

Narrowed(r) == NarrowedType(code.kind, r) # Half

\* The blocks that are reached without passing a.
Avoid(a) == Closure({0} \ {a}, [b \in Blocks |-> Succs(b) \ {a}])

Dominates(a, b) == b \in Reachable /\ b \notin Avoid(a)

\* The rows of local_compute_dominators are the dominators: a dominates b when
\* b is not reached without passing a.
DominatorsExact ==
  phase = "infer" => \A a, b \in Blocks : a \in dom[b] <=> Dominates(a, b)

\* A local that is declared with a narrower C type never holds a value outside
\* the range that was proved, whatever way the branches go and wherever the
\* operand of its update was loaded, nor one the narrower type does not hold.
SlotFits ==
  phase = "run" /\ value # None /\ Narrowed(range) =>
    /\ Within(range, value)
    /\ Reading(code.kind, value) \in Holds(code.kind, NarrowedType(code.kind, range))

\* So does what is computed from it: sums, differences and products with a
\* constant and with an earlier value of it.
DerivedFits ==
  phase = "run" /\ loaded # None /\ Narrowed(range) =>
    \A op \in {"ADD", "SUB", "MUL"} : \A k \in {Wrap(x) : x \in Steps} \cup {None} :
      LET x == IF k = None THEN loaded ELSE k
          r == EvalValue(op, range, IF k = None THEN range ELSE Const(k))
          result == CASE op = "ADD" -> value + x [] op = "SUB" -> value - x
                      [] OTHER -> value * x
      IN  Narrowed(r) => Within(r, Wrap(result))

\* The header makes its own test.
TestInHeader == place.testAt = Header

\* The bound is the same number to the program as to the analysis, which takes
\* it, and compares it, as an Int.
BoundIsInt == Reading(code.kind, code.bound) = code.bound

\* The ranges hold, of the local and of what is computed from it, if the header
\* makes its own test and the bound is an Int; without either of the two they
\* need not: StaleFits, UnsignedFits.
RangesHold ==
  /\ RangesTypeOK
  /\ TestInHeader /\ BoundIsInt => SlotFits /\ DerivedFits

\* value_range.c:479-482, "one constant initializer, one constant-step update, a
\* single-entry natural loop, and a constant header bound.  Anything less explicit
\* remains 64-bit", whatever block the test was made in.
StaleFits == BoundIsInt => SlotFits

\* The same with bounds for which lir_optimize.c:1878 says, of folding: "UInt64
\* values above the largest Int are stored as negative bit patterns: order them
\* unsigned".  The analysis orders them signed, and takes the loop never to run.
UnsignedFits == TestInHeader => SlotFits
=============================================================================
