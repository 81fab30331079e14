------------------------------ MODULE DFBState ------------------------------
(***************************************************************************)
(* The bookkeeping of one dataflow buffer (python/sim/dfbstate.py) and the *)
(* effect of every DFBAPI entry point on it (python/sim/dfb.py), as pure   *)
(* operators on a record.  The modules that give the operations an order   *)
(* -- threads of a raw ring, cooperative kernel threads -- share them.     *)
(*                                                                         *)
(* A slot is None or an element; `head` is the slot of the oldest visible  *)
(* tile; the `visible` tiles follow it, and the `reserved` tiles follow    *)
(* those, all modulo `cap`.                                                *)
(***************************************************************************)
EXTENDS Integers

CONSTANT None  \* Python's None: an empty slot, no thread, no step yet

-----------------------------------------------------------------------------
\* DFBState.reset keeps last_reserve_target: only __init__ ever zeroes it.
ResetState(s) ==
  [s EXCEPT !.buf = [i \in 0 .. s.cap - 1 |-> None], !.head = 0,
            !.visible = 0, !.reserved = 0, !.step = None,
            !.last_wait_target = 0,
            !.consumer_waiting = None, !.producer_reserving = None]

\* host_configure_dfb on a slot of the pool that was never configured.
Configured(cap) ==
  [cap |-> cap, buf |-> [i \in 0 .. cap - 1 |-> None], head |-> 0,
   visible |-> 0, reserved |-> 0, step |-> None,
   last_wait_target |-> 0, last_reserve_target |-> 0,
   consumer_waiting |-> None, producer_reserving |-> None]

ValidTiles(s, n) == n <= s.cap /\ s.cap % n = 0

\* Mutant: the visible tiles are counted as free.
FreeForgetsVisible(s) == s.cap - s.reserved

Free(s) == s.cap - (s.visible + s.reserved)

\* Mutant: the back is taken to follow the reserved tiles.
BackStartAfterReserved(s) == (s.head + s.reserved) % s.cap

FrontStart(s) == s.head
BackStart(s)  == (s.head + s.visible) % s.cap

\* The slot numbers of a Span of `length` tiles, and one slot of it.
SpanSlot(s, start, i)      == (start + i) % s.cap
SpanSlots(s, start, length) == {SpanSlot(s, start, i) : i \in 0 .. length - 1}

-----------------------------------------------------------------------------
\* dfb_wait_front, up to and including the condition wait_for tests.
WaitAdmitted(s, t)    == s.consumer_waiting \in {None, t}
WaitCumulative(s, n)  == s.step # None => n = s.last_wait_target + s.step
WaitBegun(s, n, t)    == [s EXCEPT !.consumer_waiting = t,
                                   !.step = IF @ = None THEN n ELSE @]
WaitReady(s, n)       == s.visible >= n
WaitDone(s, n)        == [s EXCEPT !.last_wait_target = n]

\* The step check fails after the caller has been recorded as the consumer.
WaitRejected(s, t)    == [s EXCEPT !.consumer_waiting = t]

\* dfb_reserve_back.  A repeated reservation asks for n tiles on top of the
\* ones it already holds, and then holds n.
ReserveAdmitted(s, t) == s.producer_reserving \in {None, t}
ReserveGrows(s, n)    == n >= s.reserved
ReserveBegun(s, t)    == [s EXCEPT !.producer_reserving = t]
ReserveReady(s, n)    == Free(s) >= n
ReserveDone(s, n)     == [s EXCEPT !.reserved = n, !.last_reserve_target = n]

\* Mutant: the producer is let go while it still holds reserved tiles.
PushBackLetsGo(s, n) ==
  [s EXCEPT !.reserved = @ - n, !.visible = @ + n, !.producer_reserving = None]

PushAllowed(s, n) == n <= s.reserved
PushBack(s, n) ==
  [s EXCEPT !.reserved = @ - n, !.visible = @ + n,
            !.producer_reserving = IF s.reserved = n THEN None ELSE @]

\* Mutant: the newest tiles are dropped, the head stays.
PopFrontKeepsHead(s, n) ==
  [s EXCEPT !.visible = @ - n, !.last_wait_target = 0,
            !.consumer_waiting = IF s.visible = n THEN None ELSE @]

\* Mutant: the wait that was answered is not forgotten.
PopFrontKeepsTarget(s, n) ==
  [s EXCEPT !.buf = [i \in 0 .. s.cap - 1 |->
                       IF i \in SpanSlots(s, s.head, n) THEN None ELSE s.buf[i]],
            !.head = (@ + n) % s.cap, !.visible = @ - n,
            !.consumer_waiting = IF s.visible = n THEN None ELSE @]

\* dfb_pop_front empties the popped slots, none of which may be empty already;
\* `step` survives it.
PopAllowed(s, n) ==
  /\ n <= s.visible
  /\ \A i \in SpanSlots(s, s.head, n) : s.buf[i] # None
PopFront(s, n) ==
  [s EXCEPT !.buf = [i \in 0 .. s.cap - 1 |->
                       IF i \in SpanSlots(s, s.head, n) THEN None ELSE s.buf[i]],
            !.head = (@ + n) % s.cap,
            !.visible = @ - n,
            !.last_wait_target = 0,
            !.consumer_waiting = IF s.visible = n THEN None ELSE @]

\* get_read_ptr and get_write_ptr raise unless these hold.
ReadPtrValid(s)  == s.last_wait_target > 0 /\ s.visible >= s.last_wait_target
WritePtrValid(s) == s.last_reserve_target > 0 /\ s.reserved >= s.last_reserve_target

\* Block.write_slot through a span that starts at `start`.
WriteSlot(s, start, i, v) == [s EXCEPT !.buf[SpanSlot(s, start, i)] = v]

\* What the buffer holds, oldest first: the visible tiles, then the reserved.
VisibleTiles(s)  == [i \in 1 .. s.visible  |-> s.buf[(s.head + (i - 1)) % s.cap]]
ReservedTiles(s) ==
  [i \in 1 .. s.reserved |-> s.buf[(s.head + (s.visible + (i - 1))) % s.cap]]
=============================================================================
