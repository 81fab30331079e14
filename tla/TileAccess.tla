----------------------------- MODULE TileAccess -----------------------------
(***************************************************************************)
(* Access to a tensor by tiles (python/sim/tensoraccessor.py, Tensor of    *)
(* python/sim/ttnnsim.py) and the copies between a tensor and a block that *)
(* are built on it (python/sim/copyhandlers.py).                           *)
(*                                                                         *)
(* Both dimensions of a tensor are treated alike, so an extent is modelled *)
(* on its own: a view is the interval [first, size] of the elements of one *)
(* dimension, a tensor or a view of one a pair of them.  A dimension of    *)
(* size one counts as a tile of its own.  A key is a slice of tiles,       *)
(* [start, stop]; an integer i is the slice i, i + 1.                      *)
(***************************************************************************)
EXTENDS Integers, FiniteSets

CONSTANT TileSize

ASSUME TileSizeAssumption == TileSize \in Nat /\ TileSize > 1

Whole(dim) == [first |-> 0, size |-> dim]

\* TensorAccessor.__init__, Tensor._is_tile_indexable.
Aligned(dim) == dim = 1 \/ dim % TileSize = 0

\* A Python index: negative ones count from the end, all are cut off at the ends.
PyIndex(i, dim) ==
  CASE i >= 0 /\ i <= dim -> i
    [] i > dim            -> dim
    [] i < 0 /\ dim + i >= 0 -> dim + i
    [] OTHER              -> 0

\* Mutant: tiles of a view are taken from the tensor the view belongs to.
GetTilesOfBase(view, key) ==
  LET a == PyIndex(key.start * TileSize, view.size)
      b == PyIndex(key.stop * TileSize, view.size)
  IN [first |-> a, size |-> IF a < b THEN b - a ELSE 0]

\* __getitem__ and __setitem__: the elements of the tiles from start to stop.
GetTiles(view, key) ==
  LET a == PyIndex(key.start * TileSize, view.size)
      b == PyIndex(key.stop * TileSize, view.size)
  IN [first |-> view.first + a, size |-> IF a < b THEN b - a ELSE 0]

ValidTileCoordinates(dim, key) ==
  LET tiles == IF dim = 1 THEN 1 ELSE dim \div TileSize
  IN 0 <= key.start /\ key.start < key.stop /\ key.stop <= tiles

-----------------------------------------------------------------------------

\* tensor_shape_in_tiles_with_skip.
Tiles(dim) == IF dim = 1 THEN 1 ELSE dim \div TileSize

\* validate of both handlers.
Accepted(view, block) == \A i \in 1 .. 2 : Aligned(view[i].size) /\ Tiles(view[i].size) = block[i]

\* Tile number n of a view, and of a block whose tiles are w wide.
Tile(view, n) ==
  LET width == Tiles(view[2].size)
      At(i, t) == GetTiles(view[i], [start |-> t, stop |-> t + 1])
  IN <<At(1, n \div width), At(2, n % width)>>

Elements(v) == (v[1].first .. v[1].first + v[1].size - 1)
               \X (v[2].first .. v[2].first + v[2].size - 1)

\* torch writes a value into a slice of its shape, and repeats an extent of one.
Writable(from, to) ==
  \A i \in 1 .. 2 : from[i].size = to[i].size \/ from[i].size = 1

\* Where the element e of the slice `to` comes from.
Origin(e, from, to) ==
  [i \in 1 .. 2 |-> IF from[i].size = 1 THEN from[i].first
                    ELSE from[i].first + e[i] - to[i].first]

Count(view) == Tiles(view[1].size) * Tiles(view[2].size)

\* copy(src, block) and copy(block, dst): what each element of dst is after it,
\* as the tile loop leaves it; None when a write is refused half-way.
Moved(src, dst) ==
  LET N    == 0 .. Count(src) - 1
      Fits == \A n \in N : Writable(Tile(src, n), Tile(dst, n))
      Last(e) == CHOOSE n \in N : /\ e \in Elements(Tile(dst, n))
                                  /\ \A m \in N : e \in Elements(Tile(dst, m)) => m <= n
  IN [done |-> Fits,
      from |-> IF Fits
               THEN [e \in UNION {Elements(Tile(dst, n)) : n \in N} |->
                       Origin(e, Tile(src, Last(e)), Tile(dst, Last(e)))]
               ELSE << >>]

-----------------------------------------------------------------------------
\* Only tiles that exist are moved: a view that has as many tiles as were asked
\* for lies inside the tensor, whatever slice was given.
AskedIsInside(dim, key) ==
  LET v == GetTiles(Whole(dim), key)
  IN Aligned(dim) /\ v.size > 0 /\ Tiles(v.size) = key.stop - key.start /\ key.start >= 0
       => ValidTileCoordinates(dim, key)

\* A tensor copied through a block into another one arrives element by element:
\* all of the view is written and nothing else, each element from the same
\* place of the source, or from the one element of an extent of size one.
CopyIsExact(src, dst, block) ==
  Accepted(src, block) /\ Accepted(dst, block) =>
    LET moved == Moved(src, dst)
    IN /\ moved.done <=> \A i \in 1 .. 2 : dst[i].size = src[i].size \/ src[i].size = 1
       /\ moved.done =>
            /\ DOMAIN moved.from = Elements(dst)
            /\ \A e \in Elements(dst) : moved.from[e] = Origin(e, src, dst)
=============================================================================
