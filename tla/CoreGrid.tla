------------------------------ MODULE CoreGrid ------------------------------
(***************************************************************************)
(* Core coordinates (python/sim/corecontext.py) and the destinations of    *)
(* pipes (python/sim/pipe.py) as functions of the grid, a sequence of      *)
(* sizes.  A core is its linear index, what core(dims=1) returns; other    *)
(* coordinates are sequences, also those of one dimension.                 *)
(*                                                                         *)
(* A core range has one slice per dimension, [start, stop, step], where    *)
(* start and stop may be None; a fixed index i is the slice i, i + 1, 1.   *)
(***************************************************************************)
EXTENDS Integers, FiniteSets, SequencesExt

CONSTANT None  \* an omitted bound of a slice

Product(s) == FoldLeft(LAMBDA a, b : a * b, 1, s)

Cores(grid) == 0 .. Product(grid) - 1

\* flatten_core_index: the first coordinate is the most significant.
FlattenCoreIndex(coords, grid) ==
  FoldLeft(LAMBDA linear, i : linear * grid[i] + coords[i], coords[1],
           [j \in 1 .. Len(coords) - 1 |-> j + 1])

\* Surplus dimensions of the grid are folded into the last size asked for.
GridSize(dims, grid) ==
  IF dims <= Len(grid)
  THEN Append(SubSeq(grid, 1, dims - 1), Product(SubSeq(grid, dims, Len(grid))))
  ELSE grid \o [i \in 1 .. dims - Len(grid) |-> 1]

Digits(cid, grid) ==
  [i \in DOMAIN grid |-> (cid \div Product(SubSeq(grid, i + 1, Len(grid)))) % grid[i]]

\* Mutant: the folded coordinates are weighted with the sizes in front of them.
CoreWrongWeights(dims, cid, grid) ==
  LET c     == Digits(cid, grid)
      extra == Len(grid) - dims
  IN IF extra > 0
     THEN <<FlattenCoreIndex(SubSeq(c, 1, extra + 1), <<1>> \o grid)>>
            \o SubSeq(c, extra + 2, Len(c))
     ELSE c \o [i \in 1 .. -extra |-> 0]

\* Surplus dimensions of the grid are folded into the first coordinate.
Core(dims, cid, grid) ==
  LET c     == Digits(cid, grid)
      extra == Len(grid) - dims
  IN IF extra > 0
     THEN <<FlattenCoreIndex(SubSeq(c, 1, extra + 1), grid)>>
            \o SubSeq(c, extra + 2, Len(c))
     ELSE c \o [i \in 1 .. -extra |-> 0]

-----------------------------------------------------------------------------
Start(s)       == IF s.start = None THEN 0 ELSE s.start
Stop(s, size)  == IF s.stop = None THEN size ELSE s.stop

InSlice(x, s, size) ==
  Start(s) <= x /\ x < Stop(s, size) /\ (x - Start(s)) % s.step = 0

\* Mutant: the step of a slice is ignored.
ExpandCoreRangeDense(range, grid) ==
  LET size == GridSize(Len(range), grid)
      At(i) == Start(range[i]) .. Stop(range[i], size[i]) - 1
  IN {c \in [DOMAIN range -> UNION {At(i) : i \in DOMAIN range}] :
        \A i \in DOMAIN range : c[i] \in At(i)}

\* expand_core_range: every combination, whether or not the grid has the core.
ExpandCoreRange(range, grid) ==
  LET size == GridSize(Len(range), grid)
      At(i) == {x \in Start(range[i]) .. Stop(range[i], size[i]) - 1 :
                  (x - Start(range[i])) % range[i].step = 0}
  IN {c \in [DOMAIN range -> UNION {At(i) : i \in DOMAIN range}] :
        \A i \in DOMAIN range : c[i] \in At(i)}

\* core_in_dst_range for the core cid.
CoreInDstRange(cid, range, grid) ==
  LET dims == Len(range)
  IN \A i \in DOMAIN range :
       InSlice(Core(dims, cid, grid)[i], range[i], GridSize(dims, grid)[i])

\* How many receivers the sender of a message counts, and which cores are let in.
NumReceivers(range, grid) == Cardinality(ExpandCoreRange(range, grid))
Receivers(range, grid)    == {cid \in Cores(grid) : CoreInDstRange(cid, range, grid)}

\* PipeNet: the pipes whose functions a core calls, in the order of the list.
IfSrc(cid, pipes, grid) ==
  SelectSeq(pipes, LAMBDA p : FlattenCoreIndex(p.src, grid) = cid)
IfDst(cid, pipes, grid) ==
  SelectSeq(pipes, LAMBDA p : CoreInDstRange(cid, p.dst, grid))

\* Pipe.has_current_core.
HasCurrentCore(cid, p, grid) ==
  FlattenCoreIndex(p.src, grid) = cid \/ CoreInDstRange(cid, p.dst, grid)

-----------------------------------------------------------------------------
\* core() and grid_size() fold different ends of the grid, so that only with
\* this do their answers belong together.
Comparable(dims, grid) == dims = 1 \/ dims >= Len(grid)

\* The coordinates of different cores differ, and stay below grid_size(); what
\* one core calls its own place another one can address.
CoordinatesFit(dims, grid) ==
  \A c \in Cores(grid) :
    /\ \A b \in Cores(grid) : b # c => Core(dims, b, grid) # Core(dims, c, grid)
    /\ Comparable(dims, grid) =>
         \A i \in 1 .. dims : Core(dims, c, grid)[i] < GridSize(dims, grid)[i]
    /\ dims <= 1 \/ dims = Len(grid) => FlattenCoreIndex(Core(dims, c, grid), grid) = c

Bounded(range, grid) ==
  \A i \in DOMAIN range :
    Stop(range[i], GridSize(Len(range), grid)[i]) <= GridSize(Len(range), grid)[i]

\* The sender of a multicast counts every receiver that is let in, also where
\* the range leaves the grid or the two fold different dimensions: a message is
\* not removed before its last receiver.  Inside the grid it counts no others,
\* for which the message would stay forever.
CountedAreLetIn(range, grid) ==
  /\ Cardinality(Receivers(range, grid)) <= NumReceivers(range, grid)
  /\ Comparable(Len(range), grid) /\ Bounded(range, grid) =>
       NumReceivers(range, grid) = Cardinality(Receivers(range, grid))
=============================================================================
