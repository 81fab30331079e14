------------------------------ MODULE DFBRing -------------------------------
(***************************************************************************)
(* One dataflow buffer driven through DFBAPI by OS threads, as             *)
(* test/sim/test_cb.py does: every entry point holds the buffer's lock, a  *)
(* wait or reserve that cannot be served sleeps on a condition variable,   *)
(* and wakes up served or with a timeout.                                  *)
(*                                                                         *)
(* The callers are the ones DataflowBuffer stands for: a thread pushes     *)
(* tiles it reserved and filled and pops tiles it waited for, uses the     *)
(* block that get_write_ptr / get_read_ptr gave it, and gives that block   *)
(* up with the push or pop.  How many tiles each call names is free.       *)
(***************************************************************************)
EXTENDS DFBState, Sequences

CONSTANTS Producers, Consumers,  \* OS threads
          Cap,                   \* capacity_tiles of host_configure_dfb
          Sizes,                 \* numbers of tiles a call may name
          Values,                \* what a producer may write into a tile
          MayTimeOut             \* FALSE: DFBAPI(timeout=None)

ASSUME CapAssumption   == Cap \in Nat \ {0}
ASSUME SizesAssumption == Sizes \subseteq Nat \ {0}
ASSUME RolesAssumption  == Producers \cap Consumers = {}
ASSUME NoneAssumption  == /\ None \notin Values \union Producers \union Consumers
                          /\ None \notin Nat
ASSUME TimeOutAssumption == MayTimeOut \in BOOLEAN

Threads == Producers \union Consumers

VARIABLES
  dfb,    \* the DFBState
  call,   \* call[t]: the wait or reserve t sleeps in, or None
  view    \* view[t]: the span of the block t got from get_*_ptr, or None

vars == <<dfb, call, view>>

Calls == [op : {"wait", "reserve"}, tiles : Sizes]
Views == [start : 0 .. Cap - 1, length : 1 .. Cap]

Init ==
  /\ dfb  = Configured(Cap)
  /\ call = [t \in Threads |-> None]
  /\ view = [t \in Threads |-> None]

Idle(t) == call[t] = None
-----------------------------------------------------------------------------
\* A wait finds its tiles, or goes to sleep; both record the caller.
WaitFront(c, n) ==
  /\ Idle(c)
  /\ ValidTiles(dfb, n) /\ WaitAdmitted(dfb, c) /\ WaitCumulative(dfb, n)
  /\ LET begun == WaitBegun(dfb, n, c)
     IN \/ /\ WaitReady(dfb, n)
           /\ dfb' = WaitDone(begun, n)
           /\ UNCHANGED call
        \/ /\ ~WaitReady(dfb, n)
           /\ dfb' = begun
           /\ call' = [call EXCEPT ![c] = [op |-> "wait", tiles |-> n]]
  /\ UNCHANGED view

\* DFBContractError: not cumulative.  The caller stays recorded.
WaitNotCumulative(c, n) ==
  /\ Idle(c)
  /\ ValidTiles(dfb, n) /\ WaitAdmitted(dfb, c) /\ ~WaitCumulative(dfb, n)
  /\ dfb' = WaitRejected(dfb, c)
  /\ UNCHANGED <<call, view>>

\* A reservation below the one held raises.  It changes nothing: the caller is
\* the recorded producer already, as reserved tiles have an owner (TargetsHold).
ReserveBack(p, n) ==
  /\ Idle(p)
  /\ ValidTiles(dfb, n) /\ ReserveAdmitted(dfb, p) /\ ReserveGrows(dfb, n)
  /\ LET begun == ReserveBegun(dfb, p)
     IN \/ /\ ReserveReady(dfb, n)
           /\ dfb' = ReserveDone(begun, n)
           /\ UNCHANGED call
        \/ /\ ~ReserveReady(dfb, n)
           /\ dfb' = begun
           /\ call' = [call EXCEPT ![p] = [op |-> "reserve", tiles |-> n]]
  /\ UNCHANGED view

\* Condition.wait_for: the predicate is tested again with the lock held; a
\* sleeper that finds it true returns, however late it is.
WaitResumes(c) ==
  /\ ~Idle(c) /\ call[c].op = "wait"
  /\ WaitReady(dfb, call[c].tiles)
  /\ dfb'  = WaitDone(dfb, call[c].tiles)
  /\ call' = [call EXCEPT ![c] = None]
  /\ UNCHANGED view

ReserveResumes(p) ==
  /\ ~Idle(p) /\ call[p].op = "reserve"
  /\ ReserveReady(dfb, call[p].tiles)
  /\ dfb'  = ReserveDone(dfb, call[p].tiles)
  /\ call' = [call EXCEPT ![p] = None]
  /\ UNCHANGED view

\* DFBTimeoutError leaves step, consumer_waiting and producer_reserving set.
TimesOut(t) ==
  /\ MayTimeOut
  /\ ~Idle(t)
  /\ \/ call[t].op = "wait"    /\ ~WaitReady(dfb, call[t].tiles)
     \/ call[t].op = "reserve" /\ ~ReserveReady(dfb, call[t].tiles)
  /\ call' = [call EXCEPT ![t] = None]
  /\ UNCHANGED <<dfb, view>>

-----------------------------------------------------------------------------
GetWritePtr(p) ==
  /\ Idle(p) /\ dfb.producer_reserving = p
  /\ WritePtrValid(dfb)
  /\ view' = [view EXCEPT ![p] = [start  |-> BackStart(dfb),
                                  length |-> dfb.last_reserve_target]]
  /\ UNCHANGED <<dfb, call>>

GetReadPtr(c) ==
  /\ Idle(c) /\ dfb.consumer_waiting = c
  /\ ReadPtrValid(dfb)
  /\ view' = [view EXCEPT ![c] = [start  |-> FrontStart(dfb),
                                  length |-> dfb.last_wait_target]]
  /\ UNCHANGED <<dfb, call>>

Write(p, i, v) ==
  /\ Idle(p) /\ view[p] # None
  /\ i < view[p].length
  /\ dfb' = WriteSlot(dfb, view[p].start, i, v)
  /\ UNCHANGED <<call, view>>

\* The tiles a push of n makes visible.
Pushed(n) == SpanSlots(dfb, BackStart(dfb), n)

Push(p, n) ==
  /\ Idle(p) /\ dfb.producer_reserving = p
  /\ \A i \in Pushed(n) : dfb.buf[i] # None
  /\ ValidTiles(dfb, n) /\ PushAllowed(dfb, n)
  /\ dfb'  = PushBack(dfb, n)
  /\ view' = [view EXCEPT ![p] = None]
  /\ UNCHANGED call

Pop(c, n) ==
  /\ Idle(c) /\ dfb.consumer_waiting = c
  /\ ValidTiles(dfb, n) /\ PopAllowed(dfb, n)
  /\ dfb'  = PopFront(dfb, n)
  /\ view' = [view EXCEPT ![c] = None]
  /\ UNCHANGED call

\* host_reset_dfb, between kernels: no thread is in a call or holds a block.
HostReset ==
  /\ \A t \in Threads : Idle(t) /\ view[t] = None
  /\ dfb' = ResetState(dfb)
  /\ UNCHANGED <<call, view>>

Next ==
  \/ \E c \in Consumers, n \in Sizes :
       WaitFront(c, n) \/ WaitNotCumulative(c, n) \/ Pop(c, n)
  \/ \E p \in Producers, n \in Sizes : ReserveBack(p, n) \/ Push(p, n)
  \/ \E c \in Consumers : WaitResumes(c) \/ GetReadPtr(c)
  \/ \E p \in Producers : ReserveResumes(p) \/ GetWritePtr(p)
  \/ \E p \in Producers, i \in 0 .. Cap - 1, v \in Values : Write(p, i, v)
  \/ \E t \in Threads : TimesOut(t)
  \/ HostReset

Spec == Init /\ [][Next]_vars

-----------------------------------------------------------------------------
States ==
  [cap : {Cap}, buf : [0 .. Cap - 1 -> Values \union {None}],
   head : 0 .. Cap - 1, visible : 0 .. Cap, reserved : 0 .. Cap,
   step : Sizes \union {None},
   last_wait_target : 0 .. Cap, last_reserve_target : 0 .. Cap,
   consumer_waiting : Consumers \union {None},
   producer_reserving : Producers \union {None}]

\* The fields of DFBState hold what their annotations say, within the capacity.
TypeOK ==
  /\ dfb \in States
  /\ call \in [Threads -> Calls \union {None}]
  /\ view \in [Threads -> Views \union {None}]

\* DFBState.free never goes negative, whatever sizes and timeouts occur.
Occupancy == dfb.visible + dfb.reserved <= Cap

\* A block handed to a consumer covers visible tiles and starts at the head,
\* however the producers have moved since; one handed to a producer covers
\* reserved tiles and still starts at the back, however much was popped since.
ReadWindows ==
  \A c \in Consumers : view[c] # None =>
    /\ dfb.consumer_waiting = c
    /\ view[c].start = FrontStart(dfb) /\ view[c].length <= dfb.visible

WriteWindows ==
  \A p \in Producers : view[p] # None =>
    /\ dfb.producer_reserving = p
    /\ view[p].start = BackStart(dfb) /\ view[p].length <= dfb.reserved

\* A thread asleep in wait or reserve is the recorded consumer or producer, so
\* "only one thread may wait on a DFB at a time" also while the lock is free.
SleepersRecorded ==
  \A t \in Threads : ~Idle(t) =>
    \/ t \in Consumers /\ call[t].op = "wait" /\ dfb.consumer_waiting = t
    \/ /\ t \in Producers /\ call[t].op = "reserve"
       /\ dfb.producer_reserving = t /\ call[t].tiles >= dfb.reserved

\* "read window invalidated" (get_read_ptr) cannot be raised: what was waited
\* for stays visible until it is popped.  Reserved tiles have an owner.
TargetsHold ==
  /\ dfb.last_wait_target <= dfb.visible
  /\ dfb.reserved <= dfb.last_reserve_target
  /\ dfb.reserved > 0 => dfb.producer_reserving # None

\* What every call on the ring keeps, successful or not: the parts above.
IInv == /\ TypeOK /\ Occupancy /\ TargetsHold
        /\ SleepersRecorded /\ ReadWindows /\ WriteWindows

\* No slot is in a block being written and in a block being read.
WindowsDisjoint ==
  \A p \in Producers, c \in Consumers : view[p] # None /\ view[c] # None =>
    SpanSlots(dfb, view[p].start, view[p].length)
      \cap SpanSlots(dfb, view[c].start, view[c].length) = {}

\* pop_idx finds no empty slot ("Popping uninitialized or consumed slot"), so a
\* pop never stops half way with some of its tiles gone and the head unmoved.
TilesFilled == \A i \in SpanSlots(dfb, FrontStart(dfb), dfb.visible) : dfb.buf[i] # None

\* What a consumer sees through its block never changes while it holds it,
\* whatever producers reserve, write and push in the meantime.
HeldTilesStable ==
  [][\A c \in Consumers : view[c] # None /\ view'[c] = view[c] =>
       \A i \in 0 .. view[c].length - 1 :
         dfb'.buf[SpanSlot(dfb, view[c].start, i)]
           = dfb.buf[SpanSlot(dfb, view[c].start, i)]]_vars

\* The ring is a bounded FIFO: a push publishes the oldest reserved tiles as
\* written, in order; a pop removes the oldest visible ones and nothing else.
Fifo == INSTANCE StagedFifo WITH
  Elems  <- Values \union {None},
  queue  <- VisibleTiles(dfb),
  staged <- ReservedTiles(dfb)

ImplementsFifo == Fifo!Spec
=============================================================================
