----------------------------- MODULE MCGeometry -----------------------------
(***************************************************************************)
(* The functions of CoreGrid, WorkSplit, TileAccess, BlockMath and         *)
(* KernelLaunch, called with every small argument: a state is a call, and  *)
(* the invariants say what its result has to be.                           *)
(***************************************************************************)
EXTENDS CoreGrid, WorkSplit, BlockMath, KernelLaunch

CONSTANTS MaxGrid, MaxUnits, MaxExtent, MaxBlock

ASSUME BoundsAssumption ==
  MaxGrid \in Nat /\ MaxUnits \in Nat /\ MaxExtent \in Nat /\ MaxBlock \in Nat

VARIABLE call

Sizes == 1 .. MaxGrid
Grids == {<<a>> : a \in Sizes} \union (Sizes \X Sizes) \union (Sizes \X Sizes \X Sizes)

Slices == [start : {None, 0, 1}, stop : {None, 1, 2}, step : {1, 2}]
Ranges == {<<s>> : s \in Slices} \union (Slices \X Slices)

Extents == {n \in 1 .. MaxExtent : Aligned(n)}
Keys    == [start : -1 .. 2, stop : 0 .. 3]
Shapes  == (1 .. MaxBlock) \X (1 .. MaxBlock)

\* Views of a tensor of two dimensions, by a key in each.
Views ==
  {<<GetTiles(Whole(h), r), GetTiles(Whole(w), c)>> :
     h \in Extents, w \in {1, 2 * TileSize},
     r \in [start : 0 .. 1, stop : 1 .. 2], c \in [start : {0, 1}, stop : {2}]}

\* Kernels with a compute thread and two that move data.
Thread(type, tensors, buffers) == [type |-> type, tensors |-> tensors, buffers |-> buffers]
Kernels ==
  {[buffers |-> b, threads |-> <<Thread("compute", << >>, c), Thread("noc", r, {1}),
                                 Thread("noc", w, {2})>>] :
     b \in {<<1, 2>>, <<1, 2, 1>>, <<2, 1, 2, 1>>}, c \in {{1, 2}, {1, 2, 3}, {4}},
     r \in {<<1>>, <<2, 1>>}, w \in {<<2>>}}
UserKernels == {k \in Kernels : Captured(k) \subseteq DOMAIN k.buffers}

\* Calls with two tensors, which may be one.
Device == <<2, 2>>
Tensor(id, p) == [id |-> id, dtype |-> p[1], space |-> p[2], interleaved |-> p[3],
                  layout |-> "tile"]
Properties == {<<"bf16", "DRAM", TRUE>>, <<"f32", "DRAM", TRUE>>, <<"bf16", "L1", TRUE>>,
               <<"bf16", "DRAM", FALSE>>}
UserCalls ==
  [args : {<<Tensor(i, p), Tensor(j, q)>> : i, j \in 1 .. 2, p, q \in Properties},
   grid : {<<2, 1>>, <<3, 1>>}]
OneEach == {c \in UserCalls : c.args[1].id = c.args[2].id => c.args[1] = c.args[2]}

Calls ==
       [f : {"core"}, dims : 1 .. 3, grid : Grids]
  \union [f : {"range"}, range : Ranges, grid : Grids]
  \union [f : {"ranges"}, line : 1 .. MaxGrid + 1, lines : {MaxGrid + 1},
          from : 0 .. MaxGrid, target : 1 .. MaxUnits]
  \union [f : {"split"}, grid : Sizes \X Sizes, units : 1 .. MaxUnits, row_wise : BOOLEAN]
  \union [f : {"matmul"}, Mt : {1, 4, 6, 11, 22}, Nt : {1, 8, 12, 26, 64},
          y : {1, 2, 8}, x : {2, 8}, k : {1, 4, 8}]
  \union [f : {"tiles"}, dim : Extents, key : Keys]
  \union [f : {"copy"}, src : Views, dst : Views, block : Shapes]
  \union [f : {"elementwise"}, l : Shapes, r : Shapes]
  \union [f : {"product"}, m : 1 .. MaxBlock, k : 1 .. MaxBlock, n : 1 .. MaxBlock]
  \union [f : {"reduce"}, shape : Shapes, dims : {{0}, {1}, {0, 1}}]
  \union [f : {"launch"}, kernel : UserKernels, first : OneEach, next : OneEach]
  \union [f : {"registers"}, dtype : {"bf16", "f32"}, nested : BOOLEAN, call : OneEach,
          fp32 : {Unset, TRUE, FALSE}, sync : {Unset, TRUE, FALSE}]

Idle == [f |-> "none"]

Init == call = Idle
Make == call = Idle /\ call' \in Calls
Done == call # Idle /\ call' = Idle
Next == Make \/ Done
Spec == Init /\ [][Next]_call

-----------------------------------------------------------------------------
\* core, grid_size and flatten_core_index agree (CoordinatesFit).
Coordinates == call.f = "core" => CoordinatesFit(call.dims, call.grid)

\* A multicast counts every receiver that is let in (CountedAreLetIn).
Multicast == call.f = "range" => CountedAreLetIn(call.range, call.grid)

\* num_cores_to_grid_ranges returns the cores asked for, and both versions of
\* split_work_to_cores hand out the same work, wherever the compiler's returns a
\* split at all (RangesExact, SplitsAgree).
Splits ==
  /\ call.f = "ranges" /\ call.from < call.line =>
       RangesExact(<<0, call.from>>, call.target, call.lines, call.line)
  /\ call.f = "split" => SplitsAgree(call.grid, call.units, call.row_wise)

\* The blocks of get_large_matmul_params cover the matrix, and keep the budget
\* where a dimension has a large factor (MatmulCovers).
Blocks == call.f = "matmul" => MatmulCovers(call.Mt, call.Nt, call.y, call.x, call.k)

\* get_large_matmul_params respects the memory of a core, as its docstring says
\* (MatmulFits).  It does not: a height found for a smaller width is kept when
\* none fits beside a larger one.
BudgetKept == call.f = "matmul" => MatmulFits(call.Mt, call.Nt, call.y, call.x, call.k)

\* Tile slices that give what was asked for are inside, and copies between
\* tensors and blocks move every element (AskedIsInside, CopyIsExact).
Copies ==
  /\ call.f = "tiles" => AskedIsInside(call.dim, call.key)
  /\ call.f = "copy" => CopyIsExact(call.src, call.dst, call.block)

\* Elementwise operators (ElementwiseIsExact).
Elementwise == call.f = "elementwise" => ElementwiseIsExact(call.l, call.r)

\* Products and transposition (MatmulIsExact).
Products == call.f = "product" => MatmulIsExact(call.m, call.k, call.n)

\* Reductions and broadcasts (ReduceIsComplete).
Reductions == call.f = "reduce" => ReduceIsComplete(call.shape, call.dims)

\* What a call launches, cached or not, is its own (LaunchIsOwn).
Launches == call.f = "launch" => LaunchIsOwn(call.kernel, call.first, call.next, Device)

\* The registers that are given away exist (RegistersExist).
RegisterCounts ==
  call.f = "registers" => RegistersExist(call, call.call.args, call)
=============================================================================
