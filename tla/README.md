# tt-lang in TLA+

A verification project for tt-lang: TLA+ modules that model the functional
simulator (`python/sim`), the passes of the compiler that assign and synchronize
DST registers (`lib/Dialect/TTL/Transforms`), and the launch of compiled kernels
(`python/ttl`); TLC configurations that check them on small instances; and theorems
that TLAPS checks for every value of the constants.

Paths below are relative to `src/`.

## 1. The system and its parts

tt-lang is a Python DSL for Tenstorrent hardware. A kernel is three functions per
core: one **compute** thread and two **data movement** (DM) threads, `dm0` and
`dm1`. They share nothing but **dataflow buffers**: bounded rings of tiles with a
reserve/push side and a wait/pop side. The same source is either compiled (Python
to MLIR's TTL dialect to TTKernel to C++) or *simulated*: `python/sim` runs the
three functions of every core as greenlets against an executable specification of
the buffers. The simulator is what users debug kernels with; if its rings,
scheduler or deadlock report are wrong, so is every conclusion drawn from it.

| component | source | state | operations | hard parts | what makes it right |
|---|---|---|---|---|---|
| ring | `python/sim/dfbstate.py`, `dfb.py` (DFBAPI) | `head`, `visible`, `reserved`, wait and reserve targets, `step`, recorded consumer and producer, slots | configure, reset, `dfb_wait_front`, `dfb_reserve_back`, `dfb_push_back`, `dfb_pop_front`, `get_read_ptr`, `get_write_ptr` | condition variables, timeouts, errors that leave state behind, wraparound, cumulative waits | a bounded FIFO; windows disjoint, stable, never invalidated |
| block | `blockstate.py`, `dfb.py` (Block) | access state, expected operations, span | copy in/out, `tx.wait`, store, accumulate, push, pop | the table and the checks around it are written apart | no dead ends; a copy locks its block; nothing unwritten is pushed |
| DataflowBuffer | `dfb.py` | the pending reserved and waited block | `wait`, `reserve`, `push_block`, `pop_block` | checks before a yield, used after it | agrees with ring and blocks |
| copy | `copy.py`, `copyhandlers.py` | completed or not | create, `wait` | yields while the block is locked | in-flight blocks are left alone |
| scheduler | `greenlet_scheduler.py` | active threads, what each is blocked on, timestamps | initialization phase, passes (fair, greedy), block, complete, fail, deadlock report | interleaving, staleness of `can_*` answers, fairness | deadlocks reported exactly when real; no starvation |
| program | `program.py`, `kernel.py` | contexts per core | build threads and buffers, run, check pending blocks | end to end ordering | output complete and in order |
| pipes | `pipe.py`, `copyhandlers.py` | a global queue, event and message counter per pipe; receivers per message | send, receive, `if_src`, `if_dst` | multicast counts, a timeout in a single OS thread, state that outlives a kernel | every receiver gets every message once, in order; none is left waiting |
| core indices | `corecontext.py`, `pipe.py` | none | `core`, `grid_size`, `expand_core_range`, `core_in_dst_range` | grids of more dimensions than asked for; two functions that must agree | counted receivers are those let in |
| block allocation | `python/utils/block_allocation.py`, `ttnnsim.py` | none | split work over cores, blocks of a matrix product | boundaries; two versions | all work is given out, once |
| tensors and block arithmetic | `ttnnsim.py`, `tensoraccessor.py`, `math.py`, `dfb.py`, `copyhandlers.py` | tensors | tile slices, copies, elementwise operators, products, reductions, broadcasts | tiles of tiles; extents of size one; silent cutting and broadcasting | every element in its place, counted once |
| compute bodies, DST assignment, register sync | `TTLOpsUtils.cpp`, `ConvertTTLToCompute.cpp`, `TTLAssignDST.cpp`, `TTLInsertTileRegsSync.cpp`, `ConvertTTLComputeToSCF.cpp`, `ConvertTTLTileOpsToTTKernel.cpp`, `ConvertTTLToTTKernel.cpp` | live intervals, merged sets, free registers; the two halves of DST | trace, copies, linear scans, sync ops, lowering | intervals that end too early; in-place operations; conventions shared by passes | what is packed is what was stored |
| compilation and launch | `ttl_api.py`, `circular_buffer.py`, `tensor_registry.py`, `kernel_runner.py`, `TTLSetComputeKernelConfig.cpp` | a cache of compiled kernels, a registry of tensors | call, compile, cache, launch | a stale entry; indices computed in two places | a launch reads its own tensors |
| front end's translation | `python/ttl/_src`, `python/pykernel` | AST visitors | build MLIR | no shared state | not modelled |
| numbers, statistics, tooling | `stats.py`, `golden_ops.py`, ... | counters | numerical code, reports | none that a model checker reaches | not modelled |

How they interact. The scheduler resumes a greenlet; the greenlet runs its
function, which calls `DataflowBuffer.wait`/`reserve` and `CopyTransaction.wait`;
each calls `block_if_needed`, which under the fair algorithm always yields and
under the greedy one yields only if the operation cannot proceed. While blocked a
thread is represented by the pair (object, operation), and the scheduler asks
`can_<operation>()` of the object. When it resumes, the buffer calls DFBAPI, which
would itself sleep on a condition variable if the tiles were missing. The blocks
handed out are checked against the state machine at every use.

Cores meet only in pipes. `copy(block, pipe)` appends a message to the queue of the
pipe, with the number of cores in its destination; each of these cores is to take
it once, the last one removes it. A receiver for which nothing is there waits for
an event, for a time, in the one OS thread that could set it.

The compiler's passes communicate through the IR: the tracer builds a compute
body, register assignment annotates its operations, the sync pass brackets it, the
loop pass repeats it for every tile, and the lowering reads the annotations back,
each with its own idea of which operations work in place. At run time two threads
of the device, MATH and PACK, execute their halves of the result and hand the
halves of the register file to each other.

`PROJECT.json` lists every component, and every behaviour that is hard to test at
the line where it bites.

## 2. The modules

```
StagedFifo      what a buffer promises         DFBState    operators of one buffer
     ^ refines                                    ^      ^
     +------------ DFBRing (OS threads) ----------+      |
                        ^                                |
                   DFBRing_proofs            BlockState  |   GreenletScheduler <-----+
                                                  ^      |     ^        ^            |
                                                  +-- SimKernel         SchedulerHistory
                                                      ^     ^             ^          |
                                              KernelRun     |     GreenletScheduler_proofs
                                                  ^         |             ^          |
                                              Pipeline <- SimKernel_proofs+          |
                                                                                     |
    CoreGrid --(destinations, counts)--> MCPipeNet ---> PipeNet ---------------------+
                                                          ^
                                                       PipeNet_proofs

    ComputeBody <- AssignDST <- TileRegs <- TileRegs_proofs <- Faithful_proofs
                                                       (compiler and execution)

    CoreGrid, WorkSplit, TileAccess <- BlockMath, KernelLaunch   functions, checked by
                                                                 MCGeometry
                                                                    ^
                                                                 Geometry_proofs

    Induction <- TileRegs_proofs, Geometry_proofs   induction, folds and sequences
```

**DFBState** translates `DFBState` and the body of every DFBAPI entry point into
operators on a record with the code's field names. The others share it, so there
is one translation of the bookkeeping.

**DFBRing** is a buffer driven by OS threads, as `test/sim/test_cb.py` and the
condition variables in DFBAPI intend. One action is one critical section:
`WaitFront` up to the return of `wait_for` or the start of its sleep,
`WaitResumes` the part after waking, `TimesOut` the timeout, and so on. The call a
thread sleeps in is `call[t]`, the block it holds `view[t]`. The callers keep the
discipline that `DataflowBuffer` keeps: they push tiles they reserved and filled,
as the recorded producer, pop as the recorded consumer, and give a block up with
the push or pop. Any number of tiles may be named, and a wait that is not
cumulative raises and leaves its caller recorded, as in the code.

**StagedFifo** is the abstract specification: a queue and a staging area, bounded
together. `DFBRing!Fifo` maps the visible tiles, in order from `head`, to the
queue and the reserved ones to the staging area.

**GreenletScheduler** has one action per step of the scheduler: `InitEnds`,
`PassBegins` (candidates fixed, `any_progress` cleared), `Skip` ("still blocked"),
`Switch`, `Deadlocks`, `AllDone`; and per way in which a greenlet gives the
processor back: `Block`, `Complete`, `Fail`. `Work` is what a thread does between
two synchronization points: it may change any answer `ready[t]` of `can_<op>()`.
The timestamps are abstracted to the order between them, `older`, so the state
space is finite without a bound on their values. **SchedulerHistory** adds a
history variable, `passed`, that restricts nothing.

**BlockState** is `STATE_TRANSITIONS`, the initial states and the checks.

**SimKernel** composes them: `INSTANCE GreenletScheduler WITH ready <- Ready`,
where `Ready` is computed from the buffers. A thread's function is any sequence of
operations: whenever a thread runs, each of its legal operations is an action, and
an illegal one ends the run (`Raise`). A wait is two actions, as the code has a
yield in the middle: `Acquire` (pending check, `block_if_needed`) and `Waited`
(DFBAPI calls, block). `UsesScheduler`, that this composition is a behaviour of the
scheduler's own specification, is proved (section 4). A tile's value is the set of
inputs it was computed from, or `Zero`, what `reserve()` fills a block with.

**KernelRun** fixes the functions, written as in `examples/tutorial`, to ask
what only whole runs can answer: does the kernel end, with which output.
**Pipeline** says which kernels: `dm0` reads a tile per round into one buffer, `dm1`
writes the blocks of another out, and `compute` has any body of waits, pops, reserves,
pushes and (accumulating) stores between the two. What the output should be is what
that body does when it is read from top to bottom, with no scheduler and no ring in
between: its `outline` counts the tiles taken and given and collects the inputs of the
tile being made (`Follows`). Whether the body keeps to the protocol, and whether the
threads agree on how much they exchange, is left open: a run stops at a statement that
the code rejects, or with a deadlock report. `MCKernelRun` has 14 such kernels, of
which nine do not balance.

**PipeNet** composes the copies through pipes with the same scheduler. The threads
are the data movement threads of several cores. `Send` and `Receive` start a copy,
up to its yield (`Begin`: `block_if_needed`); `Sent`, `Received`, `Mismatch` and
`TimesOut` are the ways `transfer` can go on when the thread is resumed.
`NextKernel` starts another kernel with a new scheduler and the messages the last
one left. `got` is a history variable. `MCPipeNet` takes destinations and counts
from the operators of `CoreGrid`, so that the counts are those of the code.

**CoreGrid**, **WorkSplit**, **TileAccess**, **BlockMath** are functions of the
simulator and of `utils`, each with the definition it is compared with at the end
of the module. An element of a block is symbolic: the sequence of terms it is the
sum of. **KernelLaunch** has the functions from a call of a kernel to the
descriptors that are launched, with the cache in between.

**ComputeBody** traces the expression that is stored to the operations on tiles;
its trace is a stack machine, so that every expression can be built step by step,
also ones that use a result twice. **AssignDST** translates the phases of the
register assignment into operators: copies, intervals and merging, one step of the
linear scan. **TileRegs** is the state machine around them: the trace, the passes
(`Prepare`, `Allocate`, `GiveUp`, `AllocateOutputs`, `Convert`), and then the MATH and
the PACK thread, one action per kind of TTKernel operation. The contents of
registers and buffers are terms, so that a register that was given away too early,
an index of another tile and a half of DST that was packed too early all show in
what is stored.

Each MC module gives the constants their values for TLC. Definitions marked
"Mutant" are the slips the properties are tested against; no specification uses
them.

## 3. What each run checks

| run | instance | what it shows |
|---|---|---|
| `ring` | 2 producers, 2 consumers, 4 slots, calls of 1, 2, 4 tiles, 2 values, timeouts | invariant `IInv`, `WindowsDisjoint`, `TilesFilled`, `HeldTilesStable`, refinement of `StagedFifo` |
| `scheduler` | the 3 threads of a core, both algorithms, every pattern of answers | `IInv` with `DeadlockSound`, `InitBlocksAll`, `OrderTotal`, `OvertakenOnce`, and under fairness `AllServed`, `StallReported` |
| `sim_kernel` | compute, dm0, dm1, buffers of 2 and 1 blocks, one input, any operations | `PendingMatchesRing`, `ResumedIsServed`, `PublishedWritten`, `BlocksConsistent`, `DeadlockOnBuffers`, `HeldBlocksStable`, `InFlightLocked` |
| `kernel_run` | 14 kernels of 3 rounds, balanced and not, blocks of 2 tiles, both algorithms | `InOrder`, `EndsAsItShould` |
| `pipes` | three cores, a multicast to two and an answer, 2 kernels, blocks of two lengths, both algorithms | `OnceInOrder`, `Owed`, `EventTracks`, and under fairness `ReceiverServed` |
| `dst` | every expression of at most 3 operators over 2 inputs, 2 or 3 registers, one or two halves, one or two stores, 2 x 2 tiles | `Faithful`, `SpillsWhenFull`, and under fairness `Packed` |
| `geometry` | every small argument of the functions (see below) | `Coordinates`, `Multicast`, `Splits`, `Blocks`, `Copies`, `Elementwise`, `Products`, `Reductions`, `Launches`, `RegisterCounts` |
| `shared_reserve` | two DM threads reserve one buffer | *violation* of `ReserveExclusive` |
| `pop_without_wait` | as `sim_kernel` | *violation* of `PopNeedsWait` |
| `pipe_can_wait` | as `pipes` | *violation* of `CanWaitHonest` |
| `dst_wrong` | as `dst` | *violation* of `StoredAsWritten` |
| `matmul_budget` | as `geometry` | *violation* of `BudgetKept` |

**Bounds.** A ring of four slots with calls of one, two and four tiles has
cumulative waits of several steps, reservations that grow, partial pushes and
pops, full and empty rings, and every wraparound. Two threads a side are what the
"only one thread" checks are about. Sizes not dividing the capacity are rejected
by `check_num_tiles`, so three is not of interest with four. Three threads are
what a core has, and a pass with a thread before, at and after any other; the
theorems are for any number. In `sim_kernel` one buffer can hold two blocks and
one a single block, so producer and consumer can both be ahead and be in lockstep;
the input buffer connects a DM with the compute thread and the output buffer the
reverse, so all four tables of the state machine are used. One input tile is
enough there: the properties tell written tiles from `Zero` and `None`. Three
rounds in `kernel_run` wrap the buffer of two blocks.

In `pipes` two receivers of one pipe are what is needed for one to be ahead of the
other and for the counter to pass a value that is neither the first nor the last;
two messages let a core be ahead by one message and by two; the second kernel meets
messages of the first. Two lengths on one receiver make a copy raise. The theorems
are for any number of all of these.

In `dst` three operators over two inputs are enough for a value with two consumers,
for a unary operator behind a binary one (merging) and beside another use (a copy),
for three values alive at once with two registers (reuse and giving up), and for
operands that are the same value. Four tiles in two rows tell rows from columns and
linear indices from both; with one half of DST the threads alternate, with two they
overlap. `MaxRoots`, `MaxOps` and `MaxValues` bound the expressions.

In `geometry` a state is a call. Grids have up to three dimensions of up to three
cores, so folding one and two surplus dimensions occurs; ranges have steps and
omitted bounds; work is divided into up to ten units over up to nine cores, so all
of fewer, equal, more, divisible and not occur; matrix sizes are chosen with
and without prime factors larger than the grid; tiles have a side of two elements,
which tells an element from a tile, and extents of one, one tile, and more; kernels
have two to four buffers of which threads capture some, and are called twice with
two tensors that may be one.

**Deadlock checking** is off where a run of the system really ends (the scheduler
is done, has reported a deadlock or an error) and on in `ring`.

**Fairness.** `GreenletScheduler!Fairness` asks that the scheduler's loop goes on
(it is ordinary sequential code) and that a running thread reaches its next
synchronization point or its end, i.e. that user functions do not loop for ever
without one. Nothing is assumed about who is switched to: that is the algorithm's
and what `AllServed` and `OvertakenOnce` are about. `KernelRun` asks only that the
interpreter keeps executing. The safety runs use no fairness. `PipeNet!Fairness` is the same for cores that
exchange messages; nobody has to start another kernel or to send a message.
`TileRegs` asks that each of MATH and PACK, which are separate processors, takes its
next step when it can.

### Findings

* `shared_reserve`: `reserve()` documents an error for "multiple concurrent
  reserves" (`dfb.py:1221`). The test (`dfb.py:1227`) comes before the yield in
  `block_if_needed` and is not repeated, and DFBAPI's own check compares OS threads,
  of which there is one. Two threads get a block over the same tiles.
* `pop_without_wait`: `pop_block()` documents an error "if called without a prior
  wait()" (`dfb.py:1302`); it removes the visible tiles.
* `pipe_can_wait`: `can_wait` promises that "the transfer can complete without
  blocking" (`copyhandlers.py:221`). A receive may proceed when the queue is not empty
  (`copyhandlers.py:426`), also when all of it was received by this core and waits for
  others. The core is resumed and its transfer times out, although the message it
  needs would have been sent had another thread been resumed.
* `dst_wrong`: the documentation says that binary operations, `max` among them, write
  to "a fresh DST slot" (`docs/development/DST_Allocation.md:9-11`) and register
  assignment relies on it; `max` and `min` are lowered to operations that write the
  register of their left operand (`ConvertTTLTileOpsToTTKernel.cpp:317-350`). The
  register of the result is packed without having been written, or an operand that
  is still needed is overwritten.
* `matmul_budget`: `get_large_matmul_params` says that it respects memory
  (`block_allocation.py:383`). Its search over widths keeps the height of an earlier width
  when none fits beside the next (`block_allocation.py:476-478`): for 4 x 64 tiles on 2 x 2
  cores with 8 tiles in between it returns blocks of 4 x 32, which take 704 of 400 tiles.

One comment disagrees with the code and does no harm, so no run is spent on it:
threads that block in their first check are said to "keep ts=0"
(`greenlet_scheduler.py:343`), but `block_if_needed` marks progress before it checks
(`greenlet_scheduler.py:671`), and all of them are stamped. The order is a total one all
the same (`OrderTotal`), and nobody is overtaken twice (`OvertakenOnce`).

Properties name the cases in which the code does not keep what they promise
elsewhere. These cases are facts about the code as well, found by weakening a
property until it held, and each was checked to be necessary:

* `Faithful` leaves out `Misplaced`: besides `max` and `min`, a unary operator whose
  operand was not merged with its result. `buildLiveIntervals` merges the two only if
  the result is yielded or every user of it is unary or the yield
  (`TTLAssignDST.cpp:424-447`); the tile operation then reads and writes the register
  of its result (`ConvertTTLTileOpsToTTKernel.cpp:249-257`), where the operand is not.
  In `(a*b)*(a*x) + exp(x)` the result of `exp` goes to an addition, so it gets a
  register of its own, which never received `x`.
* Kernels that need `copy_dst` are rejected by the conversion (`Legal`), which declares
  the dialect illegal before the pass that would lower it
  (`ConvertTTLToTTKernel.cpp:841`), while `TTLOps.td:485` describes the lowering.
* `LaunchIsOwn`: the cache key has neither the grid nor which arguments are the same
  tensor. A kernel called with `(a, a)` and then with `(b, c)` of the same properties
  reads `c` for both. Keyword arguments are missing from the key too
  (`ttl_api.py:1265`); they are not modelled. A sharded tensor has more accessor arguments than the compiler
  counts. A buffer that was created last and is captured by no thread is counted by
  the compiler (`ttl_api.py:1013`) and not by the launch (`kernel_runner.py:117`).
* `RegistersExist`: `ttl-set-compute-kernel-config` looks only at computes at the top of
  a function, so that an option does not reach one in a loop; a float32 argument that
  a compute does not read switches the device but not the compiler.
* `CoordinatesFit` bounds indices by the sizes for one dimension and for as many as the
  grid has: in between `core` and `grid_size` fold different ends of the grid. There, and
  for ranges that leave the grid, senders count receivers that do not exist; that
  `CountedAreLetIn` promises everywhere is that none is missing from the count.
* `SplitsAgree`: on a single line of cores group 1 ends one core too late, and one unit
  too many is given out. Of a grid of one core `remove_leading_ones` leaves nothing, and
  neither branch of `split_work_to_cores` is taken (`block_allocation.py:185`, `:200`): one
  unit raises `UnboundLocalError`, more units return `None` (`NoBranch`). The property says
  that this is the only grid without a split.
* `MatmulCovers` promises the budget of 400 tiles only where a dimension has a factor
  larger than the grid, so that no widths are searched (`matmul_budget`).
* `ElementwiseIsExact` speaks of `min` and `max` for blocks of one shape only: `zip` stops
  at the shorter list of tiles.

## 4. What is proved

The eight modules with theorems assume nothing beyond the named `ASSUME`s of the
modules and, in `SimKernel_proofs`, `Exclusive` or `IsCore` (see there). The named ones: the capacity is a
positive integer, sizes are positive, producers and consumers are different threads,
`None` is none of the values; places in `_active` are natural numbers, different for
different threads; a sender counts the cores that are let in (`CountedAssumption`, which
`EveryReceiverIsCounted` proves of the counts that the simulator makes), and there are
finitely many; `None`
is no thread (`ThreadsAssumption`); one thread waits on a buffer;
`None` and the zero tile are no sets of inputs, and `None` is no block and no call; the
statements of a kernel name its buffers (`KernelsAssumption`); the
bounds of `geometry` are natural numbers (`BoundsAssumption`); the three
kinds of operators of a compute body have different names, which are no names of shapes
or of copies and stores (`OperatorsAssumption`); an output has a tile (`TilesAssumption`),
and every mode a register and a store (`ModesAssumption`).

*Ring* (any capacity, sizes, threads, values, with or without timeouts):

* `RingInvariant`: `Spec => []IInv`. The invariant that is inductive says more than
  that the counters stay in range. That a read window stays at the head needs that
  its holder is the recorded consumer (nobody else pops); that a write window
  stays at the back needs that it covers only reserved tiles of the recorded
  producer; that the producer stays recorded needs `reserved <= last_reserve_target`
  and that reserved tiles have an owner; and a thread that wakes up late, after
  others pushed and popped, is only harmless because sleepers are recorded as
  well. Each action is a lemma; the arithmetic is in `SlotOnce`, `SlotShift` and
  `SlotInjective` (an index wraps at most once).
* `DisjointWindows`, `StableWindows`: from the places the invariant gives windows.
* `PopsFindTiles`: visible slots are filled; a second induction on top of `IInv`.
* `RingImplementsFifo`: `Spec => Fifo!Spec`. `TilesAt` turns slots into places from
  the head, and each action maps to `Stage`, `Fill`, `Publish`, `Consume`, `Clear`
  or a stutter.

*Scheduler* (any number of threads):

* `SchedulerInvariant`: `Spec => []IInv`. `DeadlockSound` is not inductive; it needs
  `Stalled`: in a pass that made no progress so far, every candidate already
  tried is blocked and still unable to proceed. Without progress nothing ran, so
  nothing changed an answer.
* `InitializationBlocks`, `TotalOrder`: with the strengthening `InitInv` (threads
  not yet tried are unblocked and unstamped, tried ones blocked and stamped).
* `NoSecondOvertaking`: `HSpec => OvertakenOnce`. A thread able to run that is
  passed in a pass was tried before it became able; threads that ran since are
  newer (fair), or, in the greedy loop, tried later than it in the next pass.

*Pipes* (any cores, threads, pipes, number of messages, kernels):

* `PipesInvariant`: `Spec => []IInv`. It says of each pipe that messages are queued in
  the order they were sent (`Sorted`), that a core which has received a message has
  received all before it (`Nested`), and that a message's counter is at least the
  number of cores still to come, and equal to it if nothing raised (`CountedRight`);
  of each core that all it received is older than what it is to receive (`Behind`),
  and, if nothing raised, that what it received and what is queued for it are
  together all that was sent (`Complete`). The core that receives takes the first
  message it has not, so nesting is kept; when the counter ends, every destination
  has the message, so removing it takes nothing from anybody. An exception only
  weakens the invariant (`Weakens`): a receiver that is recorded and not counted down.
* `ReceivedOnceInOrder`, `KeptForReceivers`, `EventsTrack` follow from it. The scheduler's
  actions stay unexpanded: they do not touch the pipes.

*Kernels* (any threads, buffers of any size, operations of any number of tiles, any
functions):

* `ImplementsScheduler`: `Spec => UsesScheduler`, which is `Scheduler!Spec` with
  `can_wait` and `can_reserve` of the buffers for `ready`. By it the scheduler's
  invariant holds of kernels: its theorem is not proved again but instantiated (`P`
  in the module).
* `KernelInvariant`: `Spec => []IInv`. `IInv` says of each buffer (`BufferInv`) that the
  counters agree with the pending blocks and that all visible tiles are written; of
  each block (`RefInv`, `BlockInv`) that its holder is the pending one, that it starts where
  the ring's window starts, that its state is one of those the tables lead to
  (`KnownStates`) and that, unless it is write-only or being copied into, its window
  is written; of each call (`CallInv`) that its thread is blocked until the operation
  can proceed and that the buffer's side is free. Each part needs the others: `push`
  publishes written tiles because a block that may be pushed is in a state in which
  its window is written, and the window is the one that becomes visible because the
  block is the pending one. `OneBuffer` reduces an operation to the buffer and the
  block it is about; then there is a lemma per operation. The arithmetic of windows
  is in `SlotOnce`, `SlotShift`, `BackSlots` and `FrontNotBack`.
* From it: `TypeCorrect`, `PendingMatches`, `ResumedServed`, `PublishedIsWritten`,
  `BlocksStayConsistent`, `DeadlocksOnBuffers`, and the action properties `HeldStable` and
  `InFlightStaysLocked`.
* These assume `Exclusive`, one thread that reserves a buffer, as the kernels of
  `examples/` have it. It is necessary: without it `shared_reserve` is what happens.
  `ImplementsScheduler` does not need it.
* `PipelinesAreKernels`, `PipelinesWriteInOrder`: `RunSpec => Spec` and `RunSpec => []InOrder`,
  for three threads and two buffers as `Pipeline` has them (`IsCore`) and kernels whose
  output is what the compute body says (`PipelinesAssumption`); any body, any number of
  rounds of each thread, any `Tiles` and `Factor`, both algorithms. `InOrder` by itself only
  speaks of what has arrived; `PipeInv` says where everything else is. A buffer's visible
  tiles are the blocks that were pushed and not yet popped, oldest first (`Queued`): how
  many that is, and which, follows from how far the two threads at its ends are. What
  a thread has in hand is what its place in the function says: `dm0`'s block holds the
  tile of its round once the copy is done, `compute`'s the inputs of its outline once
  something was stored, `dm1`'s is locked until its content is written (`ReaderInv`,
  `ComputeInv`, `WriterInv`). `KernelInv` supplies that windows stay where they are, that
  a waited block is the oldest one (`WaitedContent`) and that a block is pushed only after
  a store (`PushedNotFresh`); lemmas on the ring say what filling, pushing and popping do
  to whole blocks (`FillFronts`, `PushFronts`, `PopFronts`).

*Functions* (`Geometry_proofs`, any argument). For each of these there is a theorem
about every argument (`Every...`) and one that states the invariant of the run:

* `EveryCoordinatesFit`, `CoordinatesHold`: grids of any dimensions. The number of cores
  that share their first coordinates is a weight (`Weights`); a coordinate is a digit of the
  core's number (`DigitsAre`), the index of the first coordinates is what the number is
  divided by their weight (`PartialIsDiv`), and equal coordinates make equal digits.
* `EveryReceiverIsCounted`, `MulticastHolds`: the sender counts combinations of indices, the
  receivers ask whether their own coordinates are inside. Taking a core to its
  coordinates is an injection from the receivers to the combinations (`CoresDiffer`), of which
  there are finitely many (`FiniteTuples`): no receiver is missed. If `grid_size()` and
  `core()` fold the same dimensions and the range is inside the grid it is a bijection: what
  is below the sizes are the coordinates of a core (`CoreReached`).
* `EveryRangesExact`, `EverySplitsAgree`, `SplitsHold`: cores in the order of the split are
  numbers (`On`, `NthIs`), and what `num_cores_to_grid_ranges` returns tiles a run of them
  (`GridRangesAre`): the rest of a line, full lines, the beginning of one. Both versions of
  `split_work_to_cores` then give out the same runs (`SplitGridIs`, `SimSplitIs`); on a
  single line the first run of one is one core too long (`SplitLineIs`), and every grid but
  that of one core has a split (`SplitReturned`).
* `EveryMatmulIsCovered`, `BlocksHold`: what a core has to handle and what can be chosen are
  divisors (`SmoothIs`), so the blocks tile the matrix; a dimension up to
  `get_maximum_block_dim` keeps the budget (`BudgetIs`). The search keeps a divisor from one
  width to the next (`SearchFinds`), which is why it covers, but not why it would fit: it does
  not (`matmul_budget`).
* `EveryLaunchIsOwn`, `LaunchesHold`: for every kernel and any two calls of it. A call
  that hits the cache has the key of the call before, and the key says enough of the
  tensors that the same is compiled for both.
* `RegisterCountsHold`: by cases of types and options.
* `EverySliceAskedIsInside`, `EveryCopyIsExact`, `CopiesHold`: any extents, keys and blocks. A
  tile is where division by the width puts it, so tiles are disjoint and every element
  is in one; `Latest`, the last tile to write an element, is the only one.
* `EveryElementwiseIsExact`, `ElementwiseHolds`: any two shapes. The list of tiles of a block
  is addressed by row and column, and extents of one by zero.
* `EveryMatmulIsExact`, `ProductsHold`: any sizes. The terms of an element of the product
  are a sequence of sequences of products, laid out by `FlattenLayout`; transposition
  swaps the factors, which the comparison does not tell apart.
* `EveryReduceIsComplete`, `ReductionsHold`: any shape and dimensions. A reduction is two
  folds; every element has one `Home`, and the fold gathers those of each.

*Compiler* (`TileRegs_proofs`; any operators, number of registers, size of an output,
length of an expression and number of values on the stack):

* `TypeCorrect`: `Spec => []TypeOK`. Of the trace it needs `BodyOK`, that operands are
  values computed before; of the hand-over between the threads `HandInv`, that
  the counters are those of the tiles each thread has begun, committed and released,
  that PACK is never ahead of what is committed and MATH holds no more halves than
  there are; of both loops that the index computed from the number of the tile is one of the
  output's.
* `RegistersSound`, `GivesUpOnlyWhenFull`: `Spec => []SpillsWhenFull`. The scan keeps `ScanInv`:
  two classes that share a register have intervals that do not meet (`RegistersApart`),
  a register that is not free is held by a class that is still active, and nothing
  active has ended. A class is only refused when the pool is empty, so all registers
  are held by classes alive at its first operation, and these are as many as
  registers. That the intervals are right is not part of the scan: `LiveIs` proves that
  the folds of `Merged` and `Classes` give each class the interval from the first to the
  last mention of one of its values (`Partition`, `JoinParts`).

*Compiled programs* (`Faithful_proofs`; the same generality, any number of stores, one or
two halves of DST, every interleaving of the threads):

* `CompiledIsFaithful`: `Spec => []Faithful`: every tile that was packed is the value of the
  expression, if no in-place operator is `Misplaced`. It is the proof of the compiler, in the
  order of its passes:
  * Every value of the trace has a meaning (`Terms`), as operands come before their
    operation (`TraceStepInOrder`); the operations of the body compute it, broadcasts from
    the slot they read (`BcastRight`).
  * Copies (`BodySound`): the body with its copies is laid out as the body was, each
    operation after the copies it consumes (`Laid`); results stay unique, operands still
    come before, and what a unary operator overwrites is read by nobody else (`Single`).
    Bodies that need `copy_dst` are not converted.
  * Merging (`ChainsAre`): values of one class are a chain of unary operators, in which
    each is made when the one before is read for the last time. So a shared register is
    never needed for two of them.
  * Registers: intervals cover every use (`SpansIs`); with `RegistersApart`, a load or a result
    overwrites nothing that is needed later (`LoadApart`, `ResultApart`).
  * Lowering (`CodeCertified`, for every assignment that keeps intervals apart): every
    instruction is annotated with the values that are in their registers before and after it
    (`Leads`, `Flows`), and synchronization leaves all that computes before the commit and
    all packs behind the wait, with the result in its register between them (`Certified`).
  * Execution (`FaithInv`): MATH is at a place of the annotated code, and the half it fills
    holds what the annotation says for its tile; every half that was committed and not
    released holds the result of its tile, and the half that is filled is none of those,
    by the hand-over (`HandInv`).
* The proof needs of max and min only that the left operand has the register of the result. That it
  is not needed again follows from the intervals, so `Misplaced` does not ask for it.

*Induction over data.* The library's induction theorems take a formula as parameter,
which none of the provers can instantiate. `Induction` states them with a set for
the formula (`NumberInduction`, `SubsetInduction`, `LeastElement`), from the well-foundedness of
set inclusion on finite sets, and from these derives what the models need of folds
and of `FlattenSeq`. The functions above are proved with them.

*Only model-checked*: liveness (`AllServed`, `StallReported`, `EndsAsItShould`,
`ReceiverServed`, `Packed`), as `ENABLED` and fairness are out of the provers' reach. Every
safety invariant and every action property that a passing run checks has a theorem.

## 5. Limits of the models

* Callers of `DFBRing` behave as `DataflowBuffer` does (see above); a raw push by a
  thread that reserved nothing is not considered.
* In `SimKernel` all operations of a buffer move the same number of tiles, as in
  `DataflowBuffer`; at most one thread waits on a buffer (a second one meets the
  cumulative check, which raises); an expression is evaluated when it is stored,
  while the code computes it eagerly; an exception ends the run, and what the
  failed operation had changed is not looked at.
* In `SimKernel` copies connect a tensor with a block, and shapes are left out; the
  shapes are in `TileAccess` and `BlockMath`, the pipes in `PipeNet`, each without the
  state of the others.
* In `PipeNet` the timeout is modelled by what it comes to: no other thread can set the
  event while the one OS thread waits for it. Compute threads, which cannot use
  pipes, are left out.
* In `TileRegs` an expression ends in one store (or two of the same value, with two
  outputs); several results of one compute are not considered. The order in which
  operands are visited is that of the code. Registers hold whole tiles.
* In `KernelLaunch` an address is the tensor's identity, and `dtype` stands for shape and
  element type together.
* Statistics, printing and source locations are left out.

## 6. Not modelled, and what could follow

Not modelled, because there is nothing for a model checker to reach in them: the
statistics and the command line of the simulator, the profilers' reports, the
comparison of tensors, the translation of Python source to MLIR by the two front
ends (a walk over a tree, each node by itself), type conversion and verifiers of
the dialect, annotation and printing passes. The numbers themselves are not
modelled: a model compares places and terms.

What could follow, in this order:

1. the lowering of copies to NoC reads and writes with their barriers, together with
   the device's dataflow buffers;
2. matrix products and reductions in compute bodies.
