----------------------------- MODULE SimKernel ------------------------------
(***************************************************************************)
(* A kernel in the functional simulator: the threads of its cores, the     *)
(* dataflow buffers they share, the blocks they hold, and the cooperative  *)
(* scheduler (GreenletScheduler) that interleaves them.                    *)
(*                                                                         *)
(* The user's functions are not fixed: whenever a thread runs it may apply *)
(* any operation to the buffers it uses, or return.  An operation the code *)
(* rejects raises, which ends the run; what the failed operation had       *)
(* changed by then is never looked at again.                               *)
(*                                                                         *)
(* A tile is the set of input tiles its value was computed from.  All      *)
(* operations of a buffer move Tiles tiles, and a block holds one value.   *)
(***************************************************************************)
EXTENDS DFBState, BlockState

CONSTANTS
  Threads, Position,    \* as in GreenletScheduler
  Kind,                 \* Kind[t]: "DM" or "COMPUTE"
  Buffers,              \* dataflow buffers
  Reservers, Waiters,   \* Reservers[d]: threads whose function reserves d
  Tiles,                \* _tiles_per_operation of every buffer
  Factor,               \* Factor[d]: buffer_factor
  Inputs,               \* tiles of the input tensors
  Zero                  \* the tile reserve() fills a block with

ASSUME TilesAssumption  == Tiles \in Nat \ {0}
ASSUME FactorAssumption == Factor \in [Buffers -> Nat \ {0}]
ASSUME UsersAssumption  ==
  /\ Reservers \in [Buffers -> SUBSET Threads]
  /\ Waiters \in [Buffers -> SUBSET Threads]
  /\ \A d \in Buffers : \A t, u \in Waiters[d] : t = u
ASSUME KindAssumption   == Kind \in [Threads -> {"DM", "COMPUTE"}]
ASSUME ThreadsAssumption ==
  /\ None \notin Threads
  /\ Position \in [Threads -> Nat]
  /\ \A t, u \in Threads : Position[t] = Position[u] => t = u

VARIABLES
  algorithm, phase, active, blocked, older, todo, progress, current,
  dfb,       \* dfb[d]: the DFBState of buffer d
  block,     \* block[r]: the block reference r stands for; None also when the
             \* block is out of scope (OS, nothing expected), as any use raises
  pending,   \* pending[<<d, side>>]: whose block is _pending_reserved/_waited_block
  call       \* call[t]: the operation t is in block_if_needed for, or None

kernel == <<dfb, block, pending, call>>
sched  == <<algorithm, phase, active, blocked, older, todo, progress, current>>
vars   == <<sched, kernel>>

Sides == {"reserve", "wait"}
Users(d, side) == IF side = "wait" THEN Waiters[d] ELSE Reservers[d]
Refs == {r \in Buffers \X Sides \X Threads : r[3] \in Users(r[1], r[2])}

\* Every greenlet runs in the one OS thread threading.current_thread() names.
MainThread == "main"

Contents == SUBSET Inputs
ASSUME ContentsAssumption == \A v \in Contents : v # None /\ v # Zero

Cap(d) == Tiles * Factor[d]

-----------------------------------------------------------------------------
(* What a thread waits for.                                                *)

\* can_wait and can_reserve of the buffer; a copy between a tensor and a block
\* can always proceed.
Can(c) ==
  /\ c.op = "wait"    => WaitReady(dfb[c.buf], Tiles)
  /\ c.op = "reserve" => ReserveReady(dfb[c.buf], Tiles)

\* Mutant: a thread in tx.wait() is taken for blocked.
ReadyForgetsCopies ==
  [t \in Threads |-> call[t] # None /\ call[t].op # "tx_wait" /\ Can(call[t])]

Ready == [t \in Threads |-> call[t] # None /\ Can(call[t])]

Scheduler == INSTANCE GreenletScheduler WITH ready <- Ready

Init ==
  /\ dfb     = [d \in Buffers |-> Configured(Cap(d))]
  /\ block   = [r \in Refs |-> None]
  /\ pending = [p \in Buffers \X Sides |-> None]
  /\ call    = [t \in Threads |-> None]
  /\ Scheduler!Init

SchedulerStep == UNCHANGED kernel /\ Scheduler!Scheduler

\* t is in its function, and not in the middle of a blocking operation.
Running(t)   == current = t /\ call[t] = None
Resumed(t, op) == current = t /\ call[t] # None /\ call[t].op = op

\* block_if_needed.
BlockIfNeeded(t, c) ==
  /\ call' = [call EXCEPT ![t] = c]
  /\ UNCHANGED <<dfb, block, pending>>
  /\ IF algorithm = "fair" \/ ~Can(c) THEN Scheduler!Block ELSE UNCHANGED sched

\* The statements that follow up to the next synchronization point.
Continues(t) == call' = [call EXCEPT ![t] = None] /\ UNCHANGED sched

-----------------------------------------------------------------------------
(* DataflowBuffer.                                                         *)

\* wait() and reserve(): at most one pending block of each sort.
Acquire(t, d, side) ==
  /\ Running(t) /\ t \in Users(d, side)
  /\ pending[<<d, side>>] = None
  /\ BlockIfNeeded(t, [op |-> side, buf |-> d])

Holds(t, d, side, start) ==
  /\ block'   = [block EXCEPT ![<<d, side, t>>] = NewBlock(side, Kind[t], start)]
  /\ pending' = [pending EXCEPT ![<<d, side>>] = t]

\* dfb_wait_front and get_read_ptr.
Waited(t) ==
  /\ Resumed(t, "wait")
  /\ LET d == call[t].buf
         s == WaitDone(WaitBegun(dfb[d], Tiles, MainThread), Tiles)
     IN /\ WaitAdmitted(dfb[d], MainThread) /\ WaitCumulative(dfb[d], Tiles)
        /\ WaitReady(dfb[d], Tiles) /\ ReadPtrValid(s)
        /\ dfb' = [dfb EXCEPT ![d] = s]
        /\ Holds(t, d, "wait", FrontStart(s))
  /\ Continues(t)

\* A write through every slot of a block of d that starts at `start`.
Filled(s, start, v) ==
  [s EXCEPT !.buf = [i \in 0 .. s.cap - 1 |->
     IF i \in SpanSlots(s, start, Tiles) THEN v ELSE s.buf[i]]]

\* dfb_reserve_back, get_write_ptr, and the zero tensors.
Reserved(t) ==
  /\ Resumed(t, "reserve")
  /\ LET d == call[t].buf
         s == ReserveDone(ReserveBegun(dfb[d], MainThread), Tiles)
     IN /\ ReserveAdmitted(dfb[d], MainThread) /\ ReserveGrows(dfb[d], Tiles)
        /\ ReserveReady(dfb[d], Tiles) /\ WritePtrValid(s)
        /\ dfb' = [dfb EXCEPT ![d] = Filled(s, BackStart(s), Zero)]
        /\ Holds(t, d, "reserve", BackStart(s))
  /\ Continues(t)

\* Mutant: the block is closed but still recorded as pending.
ClosesKeepsPending(d, side) ==
  LET p == pending[<<d, side>>]
  IN /\ block' = IF p = None THEN block ELSE [block EXCEPT ![<<d, side, p>>] = None]
     /\ UNCHANGED pending

\* push_block and pop_block close the pending block, whoever's it is; without
\* one they go straight to the ring.
Closes(d, side) ==
  LET p == pending[<<d, side>>]
  IN /\ block' = IF p = None THEN block ELSE [block EXCEPT ![<<d, side, p>>] = None]
     /\ pending' = [pending EXCEPT ![<<d, side>>] = None]

MayClose(d, side, op) ==
  LET p == pending[<<d, side>>]
  IN p # None => block[<<d, side, p>>] # None /\ Expects(block[<<d, side, p>>], op)

PushLegal(d) == MayClose(d, "reserve", "PUSH") /\ PushAllowed(dfb[d], Tiles)
PopLegal(d)  == MayClose(d, "wait", "POP") /\ PopAllowed(dfb[d], Tiles)

Push(t, d) ==
  /\ Running(t) /\ t \in Reservers[d]
  /\ PushLegal(d)
  /\ Closes(d, "reserve")
  /\ dfb' = [dfb EXCEPT ![d] = PushBack(@, Tiles)]
  /\ Continues(t)

Pop(t, d) ==
  /\ Running(t) /\ t \in Waiters[d]
  /\ PopLegal(d)
  /\ Closes(d, "wait")
  /\ dfb' = [dfb EXCEPT ![d] = PopFront(@, Tiles)]
  /\ Continues(t)

-----------------------------------------------------------------------------
(* Copies and stores.  r, into and from are references of the thread.      *)

\* CopyTransaction(src, dst) with a tensor at the other end.
Copy(t, r, op) ==
  /\ Running(t) /\ r[3] = t
  /\ block[r] # None /\ Expects(block[r], op)
  /\ block' = [block EXCEPT ![r] = After(@, op)]
  /\ UNCHANGED <<dfb, pending>>
  /\ Continues(t)

\* tx.wait() on the block's outstanding transaction; `tile` is what the tensor
\* holds when the transfer is made.
TxWait(t, r, tile) ==
  /\ Running(t) /\ r[3] = t
  /\ block[r] # None /\ InFlight(block[r])
  /\ BlockIfNeeded(t, [op |-> "tx_wait", ref |-> r, tile |-> tile])

Transferred(t) ==
  /\ Resumed(t, "tx_wait")
  /\ LET r == call[t].ref
         d == r[1]
     IN /\ IF block[r].access = "NAW"
           THEN dfb' = [dfb EXCEPT ![d] = Filled(@, block[r].start, {call[t].tile})]
           ELSE UNCHANGED dfb
        /\ block' = [block EXCEPT ![r] = After(@, "TX_WAIT")]
  /\ UNCHANGED pending
  /\ Continues(t)

Content(r) == dfb[r[1]].buf[block[r].start]

\* The blocks store() marks as read: waited blocks of a compute thread.
Marks(b) == b.side = "wait" /\ b.kind = "COMPUTE" /\ Expects(b, "STORE_SRC")
Read(b)  == IF Marks(b) THEN After(b, "STORE_SRC") ELSE b

StoreOp(acc) == IF acc THEN "STORE_ACC" ELSE "STORE"

\* The block stored to, once the sources are marked.
Target(into, from) == IF into \in from THEN Read(block[into]) ELSE block[into]

StoreLegal(into, from, acc) ==
  /\ \A r \in from : block[r] # None /\ CanRead(block[r])
  /\ block[into] # None /\ CanWrite(block[into])
  /\ Expects(Target(into, from), StoreOp(acc))

\* into.store(e, acc), e an expression over the blocks `from`.  The first
\* accumulation assigns, the next ones add to what is there.
Store(t, into, from, acc) ==
  /\ Running(t) /\ \A r \in from \union {into} : r[3] = t
  /\ StoreLegal(into, from, acc)
  /\ LET result == UNION {Content(r) : r \in from}
         adds   == acc /\ block[into].access # "MW"
     IN dfb' = [dfb EXCEPT ![into[1]] =
                  Filled(@, block[into].start,
                         IF adds THEN Content(into) \union result ELSE result)]
  /\ block' = [r \in Refs |->
                 IF r = into THEN After(Target(into, from), StoreOp(acc))
                 ELSE IF r \in from THEN Read(block[r]) ELSE block[r]]
  /\ UNCHANGED pending
  /\ Continues(t)

-----------------------------------------------------------------------------
Return(t) ==
  /\ Running(t)
  /\ UNCHANGED kernel
  /\ Scheduler!Complete

\* The operations the code answers with an exception.
Illegal(t) ==
  \/ \E d \in Buffers, side \in Sides :
       t \in Users(d, side) /\ pending[<<d, side>>] # None
  \/ \E d \in Buffers : t \in Reservers[d] /\ ~PushLegal(d)
  \/ \E d \in Buffers : t \in Waiters[d] /\ ~PopLegal(d)
  \/ \E r \in Refs, op \in {"COPY_SRC", "COPY_DST"} :
       r[3] = t /\ block[r] # None /\ ~Expects(block[r], op)
  \/ \E into \in Refs, acc \in BOOLEAN : into[3] = t /\ ~StoreLegal(into, {}, acc)

Raise(t) ==
  /\ Running(t) /\ Illegal(t)
  /\ UNCHANGED kernel
  /\ Scheduler!Fail

Own(t) == {r \in Refs : r[3] = t}

Operate(t) ==
  \/ \E d \in Buffers : Push(t, d) \/ Pop(t, d)
  \/ \E d \in Buffers, side \in Sides : Acquire(t, d, side)
  \/ Waited(t) \/ Reserved(t) \/ Transferred(t)
  \/ \E r \in Own(t), op \in {"COPY_SRC", "COPY_DST"} : Copy(t, r, op)
  \/ \E r \in Own(t), tile \in Inputs : TxWait(t, r, tile)
  \/ \E into \in Own(t), from \in SUBSET Own(t), acc \in BOOLEAN :
       Store(t, into, from, acc)
  \/ Return(t)

Next == SchedulerStep \/ \E t \in Threads : Operate(t) \/ Raise(t)

Spec == Init /\ [][Next]_vars

-----------------------------------------------------------------------------
Blocks == [side : Sides, kind : {"DM", "COMPUTE"}, start : Nat,
           access : AccessState, expected : SUBSET ExpectedOp]
Calls  == [op : Sides, buf : Buffers]
            \union [op : {"tx_wait"}, ref : Refs, tile : Inputs]
ASSUME NoneAssumption == None \notin Blocks /\ None \notin Calls

\* Buffers, blocks and calls hold what their annotations say, and the ring of a
\* buffer never counts more tiles than it has slots (DFBState.free).
TypeOK ==
  /\ \A r \in Refs : block[r] # None => block[r] \in Blocks
  /\ \A d \in Buffers, side \in Sides :
       pending[<<d, side>>] \in Users(d, side) \union {None}
  /\ call \in [Threads -> Calls \union {None}]
  /\ \A d \in Buffers :
       /\ dfb[d].cap = Cap(d) /\ dfb[d].head \in 0 .. Cap(d) - 1
       /\ dfb[d].visible + dfb[d].reserved \in 0 .. Cap(d)
       /\ \A i \in 0 .. Cap(d) - 1 : dfb[d].buf[i] \in Contents \union {None, Zero}

\* The three layers agree, whatever the user's functions do: a buffer has a
\* pending block exactly when the ring has tiles reserved (waited for), and the
\* holder's block covers exactly those.
PendingMatchesRing ==
  \A d \in Buffers :
    /\ \A t \in Reservers[d] :
         block[<<d, "reserve", t>>] # None <=> pending[<<d, "reserve">>] = t
    /\ \A t \in Waiters[d] :
         block[<<d, "wait", t>>] # None <=> pending[<<d, "wait">>] = t
    /\ dfb[d].reserved = IF pending[<<d, "reserve">>] = None THEN 0 ELSE Tiles
    /\ dfb[d].last_wait_target = IF pending[<<d, "wait">>] = None THEN 0 ELSE Tiles
    /\ \A t \in Reservers[d] :
         pending[<<d, "reserve">>] = t =>
           block[<<d, "reserve", t>>].start = BackStart(dfb[d])
    /\ \A t \in Waiters[d] :
         pending[<<d, "wait">>] = t =>
           block[<<d, "wait", t>>].start = FrontStart(dfb[d])

\* When a thread gets the processor back in wait() or reserve(), the ring call
\* that follows is admitted, finds its tiles and its window: DFBAPI neither
\* sleeps nor times out nor reports a contract violation, and block_if_needed
\* never blocks a second time.
ResumedIsServed ==
  \A t \in Threads : current = t /\ call[t] # None =>
    /\ Can(call[t])
    /\ call[t].op = "wait" =>
         LET s == dfb[call[t].buf]
         IN WaitAdmitted(s, MainThread) /\ WaitCumulative(s, Tiles)
    /\ call[t].op = "reserve" =>
         LET s == dfb[call[t].buf]
         IN ReserveAdmitted(s, MainThread) /\ ReserveGrows(s, Tiles)
    /\ call[t].op = "tx_wait" =>
         block[call[t].ref] # None /\ InFlight(block[call[t].ref])

\* Nothing a consumer can wait for is a tile nobody wrote: a reserved block is
\* pushed only after a store or a completed copy replaced its zero fill.
PublishedWritten ==
  \A d \in Buffers : \A i \in 0 .. dfb[d].visible - 1 :
    dfb[d].buf[SpanSlot(dfb[d], dfb[d].head, i)] \notin {None, Zero}

\* The "Impossible!" errors are: no sequence of operations that block admits
\* leads to a state whose expected operation has no transition.
BlocksConsistent == \A r \in Refs : block[r] # None => Consistent(block[r])

\* A deadlock is about buffers: every thread left waits for tiles the others
\* never push, or for space they never free; none is stuck in a copy.
DeadlockOnBuffers ==
  phase = "deadlock" =>
    \A t \in active : call[t] # None /\ call[t].op \in Sides /\ ~Can(call[t])

\* While a thread is not running, the tiles of its blocks do not change: not by
\* the zero fill of another reserve(), not by a pop, not by a copy.
HeldBlocksStable ==
  [][\A r \in Refs : block[r] # None /\ block'[r] # None /\ current # r[3] =>
       Content(r)' = Content(r)]_vars

\* A block that a copy is reading or writing is left alone until its tx.wait().
InFlightLocked ==
  [][\A r \in Refs : block[r] # None /\ InFlight(block[r]) /\ block'[r] # block[r] =>
       /\ Resumed(r[3], "tx_wait") /\ call[r[3]].ref = r
       /\ block'[r] # None /\ pending'[<<r[1], r[2]>>] = r[3]]_vars

\* Threads go on only when the scheduler switched to them, and give the processor
\* back as it expects: a kernel is one of the behaviours GreenletScheduler allows,
\* with can_wait and can_reserve of the buffers for `ready`.
UsesScheduler == Scheduler!Spec

\* What the docstring of reserve() promises of "multiple concurrent reserves":
\* while a reserved block is pending no other reserve() returns one.
ReserveExclusive ==
  [][\A d \in Buffers : pending[<<d, "reserve">>] # None =>
       pending'[<<d, "reserve">>] \in {None, pending[<<d, "reserve">>]}]_vars

\* What the docstring of pop_block() promises: tiles leave a buffer only by the
\* pop() of a block that wait() returned.
PopNeedsWait ==
  [][\A d \in Buffers :
       dfb'[d].visible < dfb[d].visible => pending[<<d, "wait">>] # None]_vars
=============================================================================
