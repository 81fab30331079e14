---------------------------- MODULE ComputeBody -----------------------------
(***************************************************************************)
(* The body of a ttl.compute, as convert-ttl-to-compute builds it          *)
(* (TTLOpsUtils.cpp, ConvertTTLToCompute.cpp).  The tensor expression that *)
(* is stored is traced back to the tensors attached to circular buffers,   *)
(* operands before operators; each operator becomes one operation on       *)
(* tiles.  The trace is a stack: what is not yet an operand of something.  *)
(***************************************************************************)
EXTENDS Integers, FiniteSets, FiniteSetsExt, SequencesExt

CONSTANTS Unary, Binary, MinMax   \* names of elementwise operators

ASSUME OperatorsAssumption ==
  /\ Unary \cap (Binary \union MinMax) = {} /\ Binary \cap MinMax = {}
  /\ (Unary \union Binary \union MinMax)
       \cap {"col", "row", "scalar", "constant", "copy_tile", "copy_dst", "tile_store", "yield"} = {}

\* Values of a body: arguments, which are tiles of the inputs, and results.
Arg(n)    == <<"arg", n>>
Result(k) == <<"op", k>>
NoValue   == <<"none">>
IsArg(v)  == v[1] = "arg"

\* An input has the shape of the output ("full"), or one that a broadcast
\* expands: one column, one row, or one tile.
Shapes == {"full", "col", "row", "scalar"}

Operation(op, in, out) == [op |-> op, in |-> in, out |-> out]

-----------------------------------------------------------------------------
(* traceElementwiseToRoots, one value at a time.                           *)

NoTrace == [values |-> << >>, ops |-> << >>, roots |-> << >>]

\* An input met for the first time, and one met again.
NewRoot(t, shape) ==
  [t EXCEPT !.roots = Append(@, shape), !.values = Append(@, Arg(Len(t.roots) + 1))]
SameRoot(t, n) == [t EXCEPT !.values = Append(@, Arg(n))]

\* The result of an operation met again: opsInOrder holds it once.
SameResult(t, k) == [t EXCEPT !.values = Append(@, Result(k))]

\* Only results and inputs of the output's shape are operands of elementwise
\* operators; only an input can be broadcast.
Shape(t, v)       == IF IsArg(v) THEN t.roots[v[2]] ELSE "full"
Elementwise(t, n) ==
  /\ Len(t.values) >= n
  /\ \A i \in Len(t.values) - n + 1 .. Len(t.values) : Shape(t, t.values[i]) = "full"
CanBroadcast(t, kind) ==
  /\ t.values # << >> /\ IsArg(Last(t.values))
  /\ Shape(t, Last(t.values)) \in {"full", kind}

\* An operator of the last n values.
Apply(t, op, n) ==
  LET rest == Len(t.values) - n
      out  == Result(Len(t.ops) + 1)
  IN [t EXCEPT !.values = Append(SubSeq(@, 1, rest), out),
               !.ops = Append(@, Operation(op, SubSeq(t.values, rest + 1, rest + n), out))]

Traced(t) == Len(t.values) = 1 /\ (t.ops = << >> => Shape(t, t.values[1]) = "full")

-----------------------------------------------------------------------------
(* buildFusedCompute, buildBinaryCompute and LowerStoreToCompute.          *)

\* A single binary operator of inputs takes both as arguments, even when they
\* are the same tensor.
Direct(t) == Len(t.ops) = 1 /\ Len(t.ops[1].in) = 2

\* Tensors(t)[n]: the input that the argument n is a tile of.
Tensors(t) == IF Direct(t) THEN [n \in 1 .. 2 |-> t.ops[1].in[n][2]]
              ELSE [n \in 1 .. Len(t.roots) |-> n]

TileOps(t) == IF Direct(t) THEN <<[t.ops[1] EXCEPT !.in = <<Arg(1), Arg(2)>>]>> ELSE t.ops

\* Every store is a tile_store of the yielded value, before the yield.
Body(t, stores) ==
  TileOps(t) \o [i \in 1 .. stores |-> Operation("tile_store", <<Last(t.values)>>, NoValue)]
             \o <<Operation("yield", <<Last(t.values)>>, NoValue)>>

-----------------------------------------------------------------------------
(* What the expression means: the terms of its tiles.                      *)

Denotes(t, tile(_, _)) ==
  LET of[k \in 1 .. Len(t.ops)] ==
        LET o        == t.ops[k]
            value(v) == IF IsArg(v) THEN tile(v[2], t.roots[v[2]]) ELSE of[v[2]]
        IN <<o.op>> \o [i \in 1 .. Len(o.in) |-> value(o.in[i])]
      v == Last(t.values)
  IN IF IsArg(v) THEN tile(v[2], t.roots[v[2]]) ELSE of[v[2]]
=============================================================================
