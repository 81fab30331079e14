----------------------------- MODULE BlockMath ------------------------------
(***************************************************************************)
(* Arithmetic on blocks: the operators of Block and matmul                 *)
(* (python/sim/dfb.py), broadcast_tensors (python/sim/ttnnsim.py) and the  *)
(* functions of python/sim/math.py that move elements.                     *)
(*                                                                         *)
(* A block is its shape in tiles and its tiles, row by row.  An element is *)
(* the sequence of the terms it is the sum (or maximum) of, so that a lost *)
(* term and one counted twice show; zero has no terms.                     *)
(***************************************************************************)
EXTENDS TileAccess, SequencesExt

Offsets == 0 .. TileSize - 1
Places  == Offsets \X Offsets

MakeBlock(shape, Tile2(_, _)) ==
  [shape |-> shape,
   tiles |-> [t \in 1 .. shape[1] * shape[2] |->
                Tile2((t - 1) \div shape[2], (t - 1) % shape[2])]]

TileAt(b, i, j) == b.tiles[(i * b.shape[2]) + j + 1]

\* The element of a block at a row and a column of the matrix it holds.
At(b, r, c) == TileAt(b, r \div TileSize, c \div TileSize)[<<r % TileSize, c % TileSize>>]

Rows(b)    == 0 .. b.shape[1] * TileSize - 1
Columns(b) == 0 .. b.shape[2] * TileSize - 1

\* A block whose elements are all different.
Input(name, shape) ==
  MakeBlock(shape, LAMBDA i, j :
    [p \in Places |-> << <<name, i * TileSize + p[1], j * TileSize + p[2]>> >>])

-----------------------------------------------------------------------------
Compatible(l, r) == \A d \in 1 .. 2 : l[d] = r[d] \/ l[d] = 1 \/ r[d] = 1

\* _infer_broadcast_shape.
InferBroadcastShape(l, r) == [d \in 1 .. 2 |-> IF l[d] > r[d] THEN l[d] ELSE r[d]]

\* Mutant: tiles are paired by their number in the lists, the shorter repeated.
BinaryOpCyclic(l, r) ==
  LET shape == InferBroadcastShape(l.shape, r.shape)
      Nth(b, n) == b.tiles[(n % Len(b.tiles)) + 1]
  IN MakeBlock(shape, LAMBDA i, j :
       [p \in Places |-> << <<Nth(l, i * shape[2] + j)[p], Nth(r, i * shape[2] + j)[p]>> >>])

\* _binary_op: tile by tile, with the tiles of an extent of one repeated.
BinaryOp(l, r) ==
  LET Pick(b, i, j) == TileAt(b, IF b.shape[1] = 1 THEN 0 ELSE i, IF b.shape[2] = 1 THEN 0 ELSE j)
  IN MakeBlock(InferBroadcastShape(l.shape, r.shape), LAMBDA i, j :
       [p \in Places |-> << <<Pick(l, i, j)[p], Pick(r, i, j)[p]>> >>])

\* min and max of math.py pair the lists and keep the shape of the left one.
ZipOp(l, r) ==
  LET n == IF Len(l.tiles) < Len(r.tiles) THEN Len(l.tiles) ELSE Len(r.tiles)
  IN [shape |-> l.shape,
      tiles |-> [t \in 1 .. n |-> [p \in Places |-> << <<l.tiles[t][p], r.tiles[t][p]>> >>]]]

\* Mutant: the tiles of the second factor are taken row by row.
MatmulRowByRow(a, b) ==
  MakeBlock(<<a.shape[1], b.shape[2]>>, LAMBDA i, j :
    [p \in Places |->
       FlattenSeq([k \in 1 .. a.shape[2] |->
         FlattenSeq([q \in 1 .. TileSize |->
           << <<TileAt(a, i, k - 1)[<<p[1], q - 1>>], b.tiles[j * b.shape[1] + k][<<q - 1, p[2]>>]>> >>])])])

\* matmul: a sum over the inner tiles of the products of tiles.
Matmul(a, b) ==
  MakeBlock(<<a.shape[1], b.shape[2]>>, LAMBDA i, j :
    [p \in Places |->
       FlattenSeq([k \in 1 .. a.shape[2] |->
         FlattenSeq([q \in 1 .. TileSize |->
           << <<TileAt(a, i, k - 1)[<<p[1], q - 1>>], TileAt(b, k - 1, j)[<<q - 1, p[2]>>]>> >>])])])

\* transpose.
Transpose(b) ==
  MakeBlock(<<b.shape[2], b.shape[1]>>, LAMBDA j, i :
    [p \in Places |-> TileAt(b, i, j)[<<p[2], p[1]>>]])

-----------------------------------------------------------------------------
(* Reductions: dims is a set, and 0 stands for "one value per row" inside a *)
(* tile, but for "the rows of tiles are combined" between tiles.            *)

\* The first step, inside one tile.
ReduceTile(t, dims) ==
  [p \in Places |->
     CASE dims = {0, 1} /\ p = <<0, 0>> ->
            FlattenSeq([n \in 1 .. TileSize * TileSize |->
                          t[<<(n - 1) \div TileSize, (n - 1) % TileSize>>]])
       [] dims = {0} /\ p[2] = 0 -> FlattenSeq([n \in 1 .. TileSize |-> t[<<p[1], n - 1>>]])
       [] dims = {1} /\ p[1] = 0 -> FlattenSeq([n \in 1 .. TileSize |-> t[<<n - 1, p[2]>>]])
       [] OTHER -> << >>]

\* Mutant: the first tile of each result is left out.
ReduceSkipsFirst(b, dims) ==
  LET M == b.shape[1]
      N == b.shape[2]
      Part(i, j) == {n \in 1 .. M * N : /\ 0 \in dims \/ (n - 1) \div N = i
                                        /\ 1 \in dims \/ (n - 1) % N = j}
  IN MakeBlock(<<IF 0 \in dims THEN 1 ELSE M, IF 1 \in dims THEN 1 ELSE N>>, LAMBDA i, j :
       [p \in Places |->
          FlattenSeq([n \in 1 .. M * N |->
            IF n \in Part(i, j) /\ n # 1 THEN ReduceTile(b.tiles[n], dims)[p] ELSE << >>])])

\* reduce_sum and reduce_max, without the scaler: the tiles of one result added.
Reduce(b, dims) ==
  LET M == b.shape[1]
      N == b.shape[2]
      Part(i, j) == {n \in 1 .. M * N : /\ 0 \in dims \/ (n - 1) \div N = i
                                        /\ 1 \in dims \/ (n - 1) % N = j}
  IN MakeBlock(<<IF 0 \in dims THEN 1 ELSE M, IF 1 \in dims THEN 1 ELSE N>>, LAMBDA i, j :
       [p \in Places |->
          FlattenSeq([n \in 1 .. M * N |->
            IF n \in Part(i, j) THEN ReduceTile(b.tiles[n], dims)[p] ELSE << >>])])

\* broadcast is refused for a dimension of more than one tile.
Broadcastable(b, dims) == \A d \in dims : b.shape[d + 1] = 1

\* broadcast: element 0 of each dimension in dims, repeated.
Broadcast(b, dims) ==
  [b EXCEPT !.tiles = [t \in DOMAIN b.tiles |-> [p \in Places |->
     b.tiles[t][<<IF 0 \in dims THEN 0 ELSE p[1], IF 1 \in dims THEN 0 ELSE p[2]>>]]]]

-----------------------------------------------------------------------------
SameTerms(s, set) == Len(s) = Cardinality(set) /\ ToSet(s) = set

\* The operators of Block compute what the same operator computes on the
\* matrices, with rows or columns of tiles repeated; and min and max agree with
\* them where both blocks have one shape.
ElementwiseIsExact(l, r) ==
  Compatible(l, r) =>
    LET a == Input("l", l)
      b == Input("r", r)
      o == BinaryOp(a, b)
      From(x, d, n) == IF x.shape[d] = 1 THEN n % TileSize ELSE n
    IN /\ Len(o.tiles) = o.shape[1] * o.shape[2]
       /\ \A y \in Rows(o), x \in Columns(o) :
            At(o, y, x) = << <<At(a, From(a, 1, y), From(a, 2, x)),
                               At(b, From(b, 1, y), From(b, 2, x))>> >>
       /\ l = r => ZipOp(a, b) = o

\* A product of blocks is the product of the matrices, and transposing it gives
\* the product of the transposed factors.
MatmulIsExact(m, k, n) ==
  LET a == Input("a", <<m, k>>)
      b == Input("b", <<k, n>>)
      o == Matmul(a, b)
      t == Matmul(Transpose(b), Transpose(a))
  IN \A y \in Rows(o), x \in Columns(o) :
       /\ SameTerms(At(o, y, x), {<<At(a, y, q), At(b, q, x)>> : q \in Columns(a)})
       /\ {<<u[2], u[1]>> : u \in ToSet(At(t, x, y))} = ToSet(At(o, y, x))

\* A reduction counts every element of the block, and none twice; broadcast back
\* over a single tile it gives every element the sum of its line.
ReduceIsComplete(shape, dims) ==
  LET b   == Input("b", shape)
      o   == Reduce(b, dims)
      all == FlattenSeq([n \in DOMAIN o.tiles |->
               FlattenSeq([q \in 1 .. TileSize * TileSize |->
                 o.tiles[n][<<(q - 1) \div TileSize, (q - 1) % TileSize>>]])])
      across == {1 - d : d \in dims}
      back   == Broadcast(o, across)
  IN /\ SameTerms(all, {<<"b", y, x>> : y \in Rows(b), x \in Columns(b)})
     /\ shape = <<1, 1>> \/ dims = {0, 1} =>
          /\ Broadcastable(o, across)
          /\ \A y, x \in Offsets :
               SameTerms(At(back, y, x),
                 {<<"b", v, u>> : v \in IF 1 \in dims THEN Rows(b) ELSE {y},
                                  u \in IF 0 \in dims THEN Columns(b) ELSE {x}})

=============================================================================
