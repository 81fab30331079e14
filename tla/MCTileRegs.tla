----------------------------- MODULE MCTileRegs -----------------------------
(***************************************************************************)
(* Expressions of a few operators over outputs of two by two tiles, with   *)
(* few registers, so that they are reused and run out.                     *)
(***************************************************************************)
EXTENDS TileRegs

MCModes ==
  { [capacity |-> 2, separate |-> FALSE, halves |-> 2, stores |-> 1],
    [capacity |-> 3, separate |-> FALSE, halves |-> 1, stores |-> 2],
    [capacity |-> 3, separate |-> TRUE,  halves |-> 2, stores |-> 1] }
=============================================================================
