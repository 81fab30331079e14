----------------------------- MODULE WorkSplit ------------------------------
(***************************************************************************)
(* How work is divided over the cores of a grid: split_work_to_cores of    *)
(* python/utils/block_allocation.py, its namesake in python/sim/ttnnsim.py *)
(* and get_large_matmul_params.                                            *)
(*                                                                         *)
(* A grid is <<rows, columns>>, a place in it <<y, x>>; leading ones and   *)
(* zeros of longer tuples are left out.  A rectangle is <<start, end>>,    *)
(* both inside.                                                            *)
(***************************************************************************)
EXTENDS Integers, FiniteSets, SequencesExt

Transposed(p) == <<p[2], p[1]>>

\* Rows and columns change places for a column-wise split.
Turn(p, row_wise) == IF row_wise THEN p ELSE Transposed(p)

\* Mutant: the rest of the first line is not taken off the cores still to place.
GridRangesRepeats(start, target, lines, line) ==
  LET head == IF start[2] # 0 /\ target > line - start[2] THEN line - start[2] ELSE 0
      from == IF head > 0 THEN <<start[1] + 1, 0>> ELSE start
      full == target \div line
      rest == target - full * line
      last == IF full > 0 THEN <<from[1] + full, 0>> ELSE from
  IN (IF head > 0 THEN << <<start, <<start[1], line - 1>> >> >> ELSE <<>>)
       \o (IF full > 0 THEN << <<from, <<from[1] + full - 1, line - 1>> >> >> ELSE <<>>)
       \o (IF rest > 0 THEN << <<last, <<last[1], last[2] + rest - 1>> >> >> ELSE <<>>)

\* num_cores_to_grid_ranges over lines of `line` cores: what is left of the
\* first line, full lines, and the beginning of the last one.
GridRanges(start, target, lines, line) ==
  LET head == IF start[2] # 0 /\ target > line - start[2] THEN line - start[2] ELSE 0
      from == IF head > 0 THEN <<start[1] + 1, 0>> ELSE start
      full == (target - head) \div line
      rest == target - head - full * line
      last == IF full > 0 THEN <<from[1] + full, 0>> ELSE from
  IN (IF head > 0 THEN << <<start, <<start[1], line - 1>> >> >> ELSE <<>>)
       \o (IF full > 0 THEN << <<from, <<from[1] + full - 1, line - 1>> >> >> ELSE <<>>)
       \o (IF rest > 0 THEN << <<last, <<last[1], last[2] + rest - 1>> >> >> ELSE <<>>)

Split(cores, g1, g2, w1, w2) == [cores |-> cores, g1 |-> g1, g2 |-> g2, w1 |-> w1, w2 |-> w2]

\* A single line of cores.  Group 1 ends at core `more`, one core too late.
SplitLine(n, units) ==
  LET base == units \div n
      more == units % n
  IN IF n >= units
     THEN Split(units, << <<0, 0>>, <<0, units - 1>> >>, <<>>, 1, 0)
     ELSE Split(n, << <<0, 0>>, <<0, more>> >>, << <<0, more + 1>>, <<0, n - 1>> >>,
                base + 1, base)

SplitGrid(grid, units, row_wise) ==
  LET turned == Turn(grid, row_wise)
      lines  == turned[1]
      line   == turned[2]
      n      == lines * line
      End(start, count) == Last(GridRanges(start, count, lines, line))[2]
      Group(start, count) == <<Turn(start, row_wise), Turn(End(start, count), row_wise)>>
      After(p) == IF p[2] # line - 1 THEN <<p[1], p[2] + 1>> ELSE <<p[1] + 1, 0>>
      base   == units \div n
      more   == units % n
  IN CASE n >= units -> Split(units, Group(<<0, 0>>, units), <<>>, 1, 0)
       [] n < units /\ more = 0 ->
            Split(n, << <<0, 0>>, <<grid[1] - 1, grid[2] - 1>> >>, <<>>, base, 0)
       [] OTHER      -> Split(n, Group(<<0, 0>>, more),
                              Group(After(End(<<0, 0>>, more)), n - more), base + 1, base)

\* Of a grid of one core remove_leading_ones leaves no dimension, and neither
\* branch is taken: end_coord is not bound for the one unit that fits, and with
\* more units the function ends without a return.
NoBranch(units) == [outcome |-> IF units = 1 THEN "UnboundLocalError" ELSE "None"]

\* split_work_to_cores for a positive number of units; remove_leading_ones takes
\* a grid of one row for a line.
SplitWorkToCores(grid, units, row_wise) ==
  CASE grid = <<1, 1>>                -> NoBranch(units)
    [] grid[1] = 1 /\ grid[2] # 1     -> SplitLine(grid[2], units)
    [] grid[1] # 1                    -> SplitGrid(grid, units, row_wise)

\* A split was returned.
IsSplit(s) == "cores" \in DOMAIN s

-----------------------------------------------------------------------------
(* The simulator's version lists the cores of both groups.                 *)

\* The n-th core from 0, row by row or column by column.
NthCore(grid, n, row_wise) ==
  LET line == Turn(grid, row_wise)[2] IN Turn(<<n \div line, n % line>>, row_wise)

SimSplit(grid, units, row_wise) ==
  LET n    == grid[1] * grid[2]
      used == IF units < n THEN units ELSE n
      more == units % used
      some == IF more > 0 THEN more ELSE used
      List(from, count) == {NthCore(grid, i, row_wise) : i \in from .. from + count - 1}
  IN IF used = 0 THEN Split(0, {}, {}, 0, 0)
     ELSE Split(used, List(0, some), List(some, used - some),
                IF more > 0 THEN units \div used + 1 ELSE units \div used,
                IF more > 0 THEN units \div used ELSE 0)

-----------------------------------------------------------------------------
(* Blocks of a matrix product.                                             *)

Divisors(n) == {d \in 1 .. n : n % d = 0}
IsPrime(p)  == p > 1 /\ Divisors(p) = {1, p}

\* The product, with multiplicity, of the prime factors of n up to `limit`, and
\* of the others: which every core has to handle itself.
Smooth(n, limit) ==
  LET free == {d \in Divisors(n) : \A p \in Divisors(d) : IsPrime(p) => p <= limit}
  IN CHOOSE d \in free : \A e \in free : e <= d
Large(n, limit) == n \div Smooth(n, limit)

Budget == 400

\* What a block of m by n tiles takes with k tiles in between.
TilesUsed(m, n, k) == 2 * k * m + 2 * k * n + m * n

\* Python's // rounds down, as \div does; not positive is "does not fit".
MaximumBlockDim(dim, k) ==
  LET other == (Budget - 2 * k * dim) \div (2 * k + dim)
  IN IF other > 0 THEN other ELSE 0

SubblockChoices ==
  << <<4, 2>>, <<2, 4>>, <<8, 1>>, <<1, 8>>, <<7, 1>>, <<1, 7>>, <<3, 2>>, <<2, 3>>,
     <<6, 1>>, <<1, 6>>, <<5, 1>>, <<1, 5>>, <<2, 2>>, <<4, 1>>, <<1, 4>>, <<3, 1>>,
     <<1, 3>>, <<2, 1>>, <<1, 2>>, <<1, 1>> >>

NoParams == [block_h |-> 0, block_w |-> 0, subblock |-> <<0, 0>>]

\* Mutant: only the height of a subblock has to divide the block's.
ParamsRagged(m, n) ==
  LET i == SelectInSeq(SubblockChoices, LAMBDA s : m % s[1] = 0 /\ s[2] <= n)
  IN [block_h |-> m, block_w |-> n, subblock |-> SubblockChoices[i]]

\* The first subblock that divides the block; <<1, 1>> always does.
Params(m, n) ==
  LET i == SelectInSeq(SubblockChoices, LAMBDA s : m % s[1] = 0 /\ n % s[2] = 0)
  IN [block_h |-> m, block_w |-> n, subblock |-> SubblockChoices[i]]

\* The largest of the choices up to the limit; `old` when there is none.
Largest(choices, limit, old) ==
  LET fit == {c \in choices : c <= limit}
  IN IF fit = {} THEN old ELSE CHOOSE c \in fit : \A d \in fit : d <= c

OnGrid(Mt, Nt, m, n, cores_y, cores_x) == Mt \div m <= cores_y /\ Nt \div n <= cores_x

\* Neither dimension has a large factor: the smallest width that works.  Mpc is
\* not reset from one width to the next.
SearchWidths(Mt, Nt, cores_y, cores_x, k) ==
  LET Try(s, n) ==
        IF s.found # NoParams \/ n \notin Divisors(Nt) THEN s
        ELSE LET m == Largest(Divisors(Mt), MaximumBlockDim(n, k), s.Mpc)
             IN [Mpc   |-> m,
                 found |-> IF OnGrid(Mt, Nt, m, n, cores_y, cores_x)
                           THEN Params(m, n) ELSE NoParams]
  IN FoldLeft(Try, [Mpc |-> 1, found |-> NoParams], [n \in 1 .. Nt |-> n]).found

LargeMatmulParams(Mt, Nt, cores_y, cores_x, k) ==
  LET Nmin == Large(Nt, cores_x)
      Mmin == Large(Mt, cores_y)
      Checked(m, n) == IF OnGrid(Mt, Nt, m, n, cores_y, cores_x) THEN Params(m, n) ELSE NoParams
      Grown(min, n, limit, other) ==
        Largest({d * min : d \in Divisors(Smooth(n, limit))}, MaximumBlockDim(other, k), min)
  IN CASE Nmin > MaximumBlockDim(Mmin, k) -> NoParams
       [] Nmin <= MaximumBlockDim(Mmin, k) /\ Mmin > 1 ->
            Checked(Mmin, Grown(Nmin, Nt, cores_x, Mmin))
       [] Nmin <= MaximumBlockDim(Mmin, k) /\ Mmin = 1 /\ Nmin > 1 ->
            Checked(Grown(Mmin, Mt, cores_y, Nmin), Nmin)
       [] OTHER -> SearchWidths(Mt, Nt, cores_y, cores_x, k)

-----------------------------------------------------------------------------
\* The places of a grid from the first of a group to its last, in the order of
\* the split.  Groups are returned as such pairs, not as rectangles.
Place(p, grid, row_wise) == Turn(p, row_wise)[1] * Turn(grid, row_wise)[2] + Turn(p, row_wise)[2]
Span(g, grid, row_wise) ==
  IF g = <<>> THEN {}
  ELSE {NthCore(grid, i, row_wise) :
          i \in Place(g[1], grid, row_wise) .. Place(g[2], grid, row_wise)}

Cells(r) == (r[1][1] .. r[2][1]) \X (r[1][2] .. r[2][2])

\* The ranges are disjoint rectangles, and hold the `target` cores that follow
\* `start`, whatever part of a line it begins in.
RangesExact(start, target, lines, line) ==
  LET r == GridRanges(start, target, lines, line)
      first == start[1] * line + start[2]
  IN /\ UNION {Cells(r[i]) : i \in DOMAIN r}
          = {<<n \div line, n % line>> : n \in first .. first + target - 1}
     /\ \A i, j \in DOMAIN r : i # j => Cells(r[i]) \intersect Cells(r[j]) = {}

\* Both versions of split_work_to_cores give the same cores the same work, and
\* all of it: except on a single line of cores, where the one of utils gives out
\* one unit too many, and on a grid of one core, the only one for which it
\* returns no split.
SplitsAgree(grid, units, row_wise) ==
  LET a  == SplitWorkToCores(grid, units, row_wise)
      b  == SimSplit(grid, units, row_wise)
      g1 == Span(a.g1, grid, row_wise)
      g2 == Span(a.g2, grid, row_wise)
      Total(s1, s2, s) == Cardinality(s1) * s.w1 + Cardinality(s2) * s.w2
  IN /\ Total(b.g1, b.g2, b) = units /\ b.g1 \intersect b.g2 = {}
     /\ IsSplit(a) <=> grid # <<1, 1>>
     /\ IsSplit(a) =>
          /\ a.cores = b.cores
          /\ g1 \union g2 = b.g1 \union b.g2 /\ g1 \intersect g2 = {}
          /\ IF grid[1] = 1 /\ units > grid[2]
             THEN Total(g1, g2, a) = units + 1
             ELSE g1 = b.g1 /\ g2 = b.g2 /\ a.w1 = b.w1 /\ a.w2 = b.w2

\* The blocks tile the matrix, there is a core for each, and the subblocks tile
\* the block and fit into the 8 tiles of DST.
Covers(p, Mt, Nt, cores_y, cores_x) ==
  /\ Mt % p.block_h = 0 /\ Mt \div p.block_h <= cores_y
  /\ Nt % p.block_w = 0 /\ Nt \div p.block_w <= cores_x
  /\ p.block_h % p.subblock[1] = 0 /\ p.block_w % p.subblock[2] = 0
  /\ p.subblock[1] * p.subblock[2] <= 8

InBudget(p, k) == TilesUsed(p.block_h, p.block_w, k) <= Budget

\* Whatever is returned covers the matrix; where a dimension has a large factor,
\* so that no search is needed, it also fits into the memory of a core.
MatmulCovers(Mt, Nt, cores_y, cores_x, k) ==
  LET p == LargeMatmulParams(Mt, Nt, cores_y, cores_x, k)
  IN p # NoParams =>
       /\ Covers(p, Mt, Nt, cores_y, cores_x)
       /\ Large(Mt, cores_y) > 1 \/ Large(Nt, cores_x) > 1 => InBudget(p, k)

\* Whatever is returned fits into the memory of a core.
MatmulFits(Mt, Nt, cores_y, cores_x, k) ==
  LET p == LargeMatmulParams(Mt, Nt, cores_y, cores_x, k)
  IN p # NoParams => InBudget(p, k)

=============================================================================
