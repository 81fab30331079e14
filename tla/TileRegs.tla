------------------------------ MODULE TileRegs ------------------------------
(***************************************************************************)
(* A ttl.compute from its trace to its execution.  An expression is traced *)
(* (ComputeBody) and given registers (AssignDST); synchronization is put   *)
(* around the body (TTLInsertTileRegsSync.cpp), which is repeated for every*)
(* tile (ConvertTTLComputeToSCF.cpp) and lowered to TTKernel operations    *)
(* (ConvertTTLTileOpsToTTKernel.cpp, ConvertTTLToTTKernel.cpp).  The MATH  *)
(* and the PACK thread run their parts of it, handing over halves of DST.  *)
(* Contents of registers and buffers are terms over the tiles of the       *)
(* inputs.                                                                 *)
(***************************************************************************)
EXTENDS AssignDST

CONSTANTS Rows, Cols,                     \* tiles of the output
          Modes,                          \* options and devices
          MaxRoots, MaxOps, MaxValues     \* bounds on the traces

ASSUME TilesAssumption == Rows \in Nat \ {0} /\ Cols \in Nat \ {0}

ASSUME ModesAssumption ==
  Modes \subseteq [capacity : Nat \ {0}, separate : BOOLEAN, halves : 1 .. 2, stores : Nat \ {0}]

VARIABLES trace,   \* what has been traced
          mode,    \* the options
          phase,   \* how far the compiler is, or its error
          body,    \* the operations with their copies, and their intervals
          scan,    \* the registers that are free, active and assigned
          code,    \* code[t]: the operations of thread t for one tile
          step,    \* step[t]: how many operations thread t has run
          hand,    \* how often DST was acquired, committed and released
          dst,     \* dst[h][r]: register r of half h
          out      \* out[i][s]: slot s of the buffer of the i-th store

vars == <<trace, mode, phase, body, scan, code, step, hand, dst, out>>

Threads == {"MATH", "PACK"}
Unknown == <<"unknown">>   \* left in a register by nobody knows whom
Empty   == <<"empty">>     \* a slot that nothing was packed into
Tiles   == Rows * Cols

-----------------------------------------------------------------------------
(* Buffers: slot s holds the tile that lowerTensorCBCopy reads there.      *)

Grid(shape) == CASE shape = "full"   -> <<Rows, Cols>>
                 [] shape = "col"    -> <<Rows, 1>>
                 [] shape = "row"    -> <<1, Cols>>
                 [] shape = "scalar" -> <<1, 1>>

Slot(n, shape, s) == <<"tile", n, s \div Grid(shape)[2], s % Grid(shape)[2]>>

\* The slot of a tile (r, c) of the output, and of an operand of its shape.
Linear(r, c) == r * Cols + c

\* The slot a broadcast reads (hasBcastShapeExpansion, computeBcast...Index).
BcastSlot(kind, shape, r, c) ==
  CASE Grid(shape) = <<Rows, Cols>>                  -> Linear(r, c)
    [] Grid(shape) # <<Rows, Cols>> /\ kind = "col"    -> r
    [] Grid(shape) # <<Rows, Cols>> /\ kind = "row"    -> c
    [] Grid(shape) # <<Rows, Cols>> /\ kind = "scalar" -> 0

-----------------------------------------------------------------------------
(* Lowering of a body ops whose values have the registers reg.             *)

\* reads: registers, or the argument when the operation reads its buffer.
Instr(thread, do, op, reads, writes) ==
  [thread |-> thread, do |-> do, op |-> op, reads |-> reads, writes |-> writes]

Unpack(n, r) == Instr("MATH", "unpack", "copy_tile", n, r)
Sync(thread, do) == Instr(thread, do, do, 0, 0)

\* Unary operators work in place and max and min overwrite their left
\* operand; add, sub and mul name their output.  The number of a store is the
\* number of its buffer.
Lower(ops, k, reg) ==
  LET o == ops[k]
      from == [i \in 1 .. Len(o.in) |-> reg[o.in[i]]]
  IN CASE o.op = "copy_tile" -> <<Unpack(o.in[1][2], reg[o.out])>>
       [] CBInput(o)         -> <<Instr("MATH", "bcast", o.op, o.in[1][2], reg[o.out])>>
       [] o.op \in Unary     -> <<Instr("MATH", "compute", o.op, <<reg[o.out]>>, reg[o.out])>>
       [] o.op \in Binary    -> <<Instr("MATH", "compute", o.op, from, reg[o.out])>>
       [] o.op \in MinMax    -> <<Instr("MATH", "compute", o.op, from, from[1])>>
       [] o.op = "tile_store" ->
            <<Instr("PACK", "pack", o.op, from[1],
                    Cardinality({j \in 1 .. k : ops[j].op = "tile_store"}))>>
       [] OTHER -> << >>

LowerAll(ops, reg) ==
  FlattenSeq([k \in 1 .. Len(ops) |->
    LET loads == Loads(ops, k)
    IN [i \in 1 .. Len(loads) |-> Unpack(loads[i][2], reg[loads[i]])] \o Lower(ops, k, reg)])

\* Mutant: nothing commits the registers.
SynchronizedUncommitted(instrs) ==
  LET packs(i) == i.thread = "PACK"
  IN <<Sync("MATH", "acquire")>> \o SelectSeq(instrs, LAMBDA i : ~packs(i))
     \o <<Sync("PACK", "wait")>> \o SelectSeq(instrs, packs) \o <<Sync("PACK", "release")>>

\* Acquire at the start, commit and wait before the first store, release at
\* the end.
Synchronized(instrs) ==
  LET packs(i) == i.thread = "PACK"
      first    == SelectInSeq(instrs, packs)
      before   == SubSeq(instrs, 1, first - 1)
      after    == SubSeq(instrs, first, Len(instrs))
  IN <<Sync("MATH", "acquire")>> \o before
     \o <<Sync("MATH", "commit"), Sync("PACK", "wait")>> \o after
     \o <<Sync("PACK", "release")>>

-----------------------------------------------------------------------------
Init ==
  /\ trace = NoTrace /\ mode \in Modes /\ phase = "trace"
  /\ body = [ops |-> << >>, live |-> [v \in {} |-> 0]]
  /\ scan = NoScan(mode.capacity)
  /\ code = [t \in Threads |-> << >>]
  /\ step = [t \in Threads |-> 0]
  /\ hand = [acquired |-> 0, committed |-> 0, released |-> 0]
  /\ dst = [h \in 0 .. mode.halves - 1 |-> [r \in 0 .. mode.capacity - 1 |-> Unknown]]
  /\ out = [i \in 1 .. mode.stores |-> [s \in 0 .. Tiles - 1 |-> Empty]]

Tracing == phase = "trace" /\ UNCHANGED <<mode, phase, body, scan, code, step, hand, dst, out>>
Room    == Len(trace.values) < MaxValues
RoomOp  == Len(trace.ops) < MaxOps

TraceNewRoot ==
  /\ Tracing /\ Room /\ Len(trace.roots) < MaxRoots
  /\ \E shape \in Shapes : trace' = NewRoot(trace, shape)
TraceSameRoot ==
  /\ Tracing /\ Room
  /\ \E n \in 1 .. Len(trace.roots) : trace' = SameRoot(trace, n)
TraceSameResult ==
  /\ Tracing /\ Room
  /\ \E k \in 1 .. Len(trace.ops) : trace' = SameResult(trace, k)
TraceUnary ==
  /\ Tracing /\ RoomOp /\ Elementwise(trace, 1)
  /\ \E op \in Unary : trace' = Apply(trace, op, 1)
TraceBinary ==
  /\ Tracing /\ RoomOp /\ Elementwise(trace, 2)
  /\ \E op \in Binary \union MinMax : trace' = Apply(trace, op, 2)
TraceBroadcast ==
  /\ Tracing /\ RoomOp
  /\ \E kind \in Shapes \ {"full"} :
       CanBroadcast(trace, kind) /\ trace' = Apply(trace, kind, 1)

\* The body gets its copies and live intervals.
Prepare ==
  /\ phase = "trace" /\ Traced(trace)
  /\ (trace.ops = << >> => mode.stores = 1)
  /\ LET ops == InsertCopies(Body(trace, mode.stores), Len(Tensors(trace)))
     IN body' = [ops |-> ops, live |-> Live(ops)]
  /\ phase' = IF mode.separate THEN "inner" ELSE "scan"
  /\ UNCHANGED <<trace, mode, scan, code, step, hand, dst, out>>

Wanted ==
  {v \in IF phase = "inner" THEN Inner(body.live, Yielded(body.ops))
         ELSE IF mode.separate THEN Yielded(body.ops)
         ELSE DOMAIN body.live : v \notin DOMAIN scan.reg}

Allocating == phase \in {"inner", "scan"} /\ UNCHANGED <<trace, mode, body, step, hand, dst, out>>

Allocate ==
  /\ Allocating /\ Wanted # {}
  /\ LET v == First(body.live, Wanted)
     IN /\ Open(body.live, scan, v) # {}
        /\ scan' = Allocated(body.live, scan, v)
  /\ UNCHANGED <<phase, code>>

\* Spilling is not implemented.
GiveUp ==
  /\ Allocating /\ Wanted # {}
  /\ Open(body.live, scan, First(body.live, Wanted)) = {}
  /\ phase' = "no_registers" /\ UNCHANGED <<scan, code>>

AllocateOutputs ==
  /\ Allocating /\ phase = "inner" /\ Wanted = {}
  /\ scan' = [scan EXCEPT !.free = Above(mode.capacity, scan.reg), !.active = {}]
  /\ phase' = "scan" /\ UNCHANGED code

\* convert-ttl-to-ttkernel declares every ttl operation illegal that is not a
\* tile operation or named, and has no pattern for ttl.copy_dst among those
\* that replace them.
Legal == \A k \in DOMAIN body.ops : body.ops[k].op # "copy_dst"

Convert ==
  /\ Allocating /\ phase = "scan" /\ Wanted = {}
  /\ IF Legal
     THEN /\ phase' = "run"
          /\ LET all == Synchronized(LowerAll(body.ops, scan.reg))
             IN code' = [t \in Threads |->
                           FlattenSeq([i \in 1 .. Len(all) |->
                             IF all[i].thread = t THEN <<all[i]>> ELSE << >>])]
     ELSE phase' = "illegal" /\ UNCHANGED code
  /\ UNCHANGED scan

-----------------------------------------------------------------------------
(* Execution: the next operation of a thread, and the tile it is for.      *)

Finished(t) == step[t] = Tiles * Len(code[t])
At(t)       == code[t][(step[t] % Len(code[t])) + 1]
Row(t)      == (step[t] \div Len(code[t])) \div Cols
Col(t)      == (step[t] \div Len(code[t])) % Cols

Runs(t, do) ==
  /\ phase = "run" /\ ~Finished(t) /\ At(t).do = do
  /\ step' = [step EXCEPT ![t] = @ + 1]
  /\ UNCHANGED <<trace, mode, phase, body, scan, code>>

\* The half that MATH fills and the half that PACK empties.
Filled  == (hand.acquired - 1) % mode.halves
Emptied == hand.released % mode.halves

\* Mutant: MATH takes a half that PACK still has.
HalfFreeLate == hand.acquired - hand.released <= mode.halves

HalfFree == hand.acquired - hand.released < mode.halves

Acquire ==
  /\ Runs("MATH", "acquire") /\ HalfFree
  /\ hand' = [hand EXCEPT !.acquired = @ + 1] /\ UNCHANGED <<dst, out>>

Write(term) == dst' = [dst EXCEPT ![Filled][At("MATH").writes] = term]

Root(n) == Tensors(trace)[n]

CopyTile ==
  /\ Runs("MATH", "unpack")
  /\ LET n == Root(At("MATH").reads)
     IN Write(Slot(n, trace.roots[n], Linear(Row("MATH"), Col("MATH"))))
  /\ UNCHANGED <<hand, out>>

Bcast ==
  /\ Runs("MATH", "bcast")
  /\ LET n == Root(At("MATH").reads)
         shape == trace.roots[n]
         kind  == At("MATH").op
     IN Write(<<kind, Slot(n, shape, BcastSlot(kind, shape, Row("MATH"), Col("MATH")))>>)
  /\ UNCHANGED <<hand, out>>

Compute ==
  /\ Runs("MATH", "compute")
  /\ LET i == At("MATH")
     IN Write(<<i.op>> \o [j \in 1 .. Len(i.reads) |-> dst[Filled][i.reads[j]]])
  /\ UNCHANGED <<hand, out>>

Commit ==
  /\ Runs("MATH", "commit")
  /\ hand' = [hand EXCEPT !.committed = @ + 1] /\ UNCHANGED <<dst, out>>

Wait ==
  /\ Runs("PACK", "wait") /\ hand.committed > hand.released
  /\ UNCHANGED <<hand, dst, out>>

Pack ==
  /\ Runs("PACK", "pack")
  /\ LET i == At("PACK")
     IN out' = [out EXCEPT ![i.writes][Linear(Row("PACK"), Col("PACK"))] = dst[Emptied][i.reads]]
  /\ UNCHANGED <<hand, dst>>

Release ==
  /\ Runs("PACK", "release")
  /\ hand' = [hand EXCEPT !.released = @ + 1] /\ UNCHANGED <<dst, out>>

MathStep == Acquire \/ CopyTile \/ Bcast \/ Compute \/ Commit
PackStep == Wait \/ Pack \/ Release

\* Nothing has been compiled, or everything is packed.
Stopped ==
  \/ phase \in {"trace", "no_registers", "illegal"}
  \/ phase = "run" /\ \A t \in Threads : Finished(t)

Next ==
  \/ TraceNewRoot \/ TraceSameRoot \/ TraceSameResult
  \/ TraceUnary \/ TraceBinary \/ TraceBroadcast
  \/ Prepare \/ Allocate \/ GiveUp \/ AllocateOutputs \/ Convert
  \/ MathStep \/ PackStep
  \/ Stopped /\ UNCHANGED vars

Spec     == Init /\ [][Next]_vars
FairSpec == Spec /\ WF_vars(MathStep) /\ WF_vars(PackStep)

-----------------------------------------------------------------------------
TypeOK ==
  /\ mode \in Modes
  /\ phase \in {"trace", "inner", "scan", "no_registers", "illegal", "run"}
  /\ \A t \in Threads : step[t] \in 0 .. Tiles * Len(code[t])
  /\ \A c \in DOMAIN hand : hand[c] \in 0 .. Tiles
  /\ hand.committed - hand.released \in 0 .. mode.halves

\* In-place operators whose operand is not where their result is expected: a
\* unary operator that was not merged with its operand, and max and min, whose
\* left operand gives its register to nobody.
Misplaced ==
  \E k \in 1 .. Len(body.ops) :
    LET o == body.ops[k]
    IN (IsUnary(o) \/ o.op \in MinMax) /\ scan.reg[o.in[1]] # scan.reg[o.out]

Meant(s) == Denotes(trace, LAMBDA n, shape :
              Slot(n, shape, CASE shape = "full"   -> s
                               [] shape = "col"    -> s \div Cols
                               [] shape = "row"    -> s % Cols
                               [] shape = "scalar" -> 0))

\* Every slot that is packed holds the expression that was stored, for the
\* tile of that slot (DST_Allocation.md, TTLAssignDST.cpp).
StoredAsWritten ==
  \A i \in DOMAIN out : \A s \in DOMAIN out[i] :
    out[i][s] # Empty => out[i][s] = Meant(s)

\* Register reuse, copies, index maps and the hand-over of DST keep every
\* stored tile right, except where an in-place operator is misplaced
\* (TTLAssignDST.cpp:254-597, ConvertTTLTileOpsToTTKernel.cpp).
Faithful == (phase = "run" /\ ~Misplaced) => StoredAsWritten

\* The compiler gives up only when more values are live than there are
\* registers: "insufficient DST registers: all ... in use"
\* (TTLAssignDST.cpp:621); a separate output region may give up before.
SpillsWhenFull ==
  (phase = "no_registers" /\ ~mode.separate) => Overfull(body.live, mode.capacity)

\* What is compiled is packed to the last tile: the two threads never wait
\* for each other (TTLInsertTileRegsSync.cpp:44-120).
Packed ==
  phase = "run" ~> \A i \in DOMAIN out : \A s \in DOMAIN out[i] : out[i][s] # Empty
=============================================================================
