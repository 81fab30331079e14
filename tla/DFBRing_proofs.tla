--------------------------- MODULE DFBRing_proofs ---------------------------
(***************************************************************************)
(* Proofs about DFBRing for every capacity, every set of sizes, values and *)
(* threads, with or without timeouts.                                      *)
(***************************************************************************)
EXTENDS DFBRing, SequenceTheorems, TLAPS

USE CapAssumption, SizesAssumption, NoneAssumption, RolesAssumption

-----------------------------------------------------------------------------
(* What each operation of DFBState does to the fields of a state.          *)

\* The fields a wait and a reservation leave alone.
SameTiles(r, s) ==
  /\ r.cap = s.cap /\ r.buf = s.buf
  /\ r.head = s.head /\ r.visible = s.visible

SameProducer(r, s) ==
  /\ r.reserved = s.reserved
  /\ r.last_reserve_target = s.last_reserve_target
  /\ r.producer_reserving = s.producer_reserving

SameConsumer(r, s) ==
  /\ r.step = s.step
  /\ r.last_wait_target = s.last_wait_target
  /\ r.consumer_waiting = s.consumer_waiting

\* An index computed modulo the capacity wraps at most once.
LEMMA ModOnce ==
  ASSUME NEW a \in Nat, a < 2 * Cap
  PROVE  a % Cap = IF a < Cap THEN a ELSE a - Cap
BY SMT

\* Beginning a wait records the consumer and the step, and touches no tile.
LEMMA WaitBegunEffect ==
  ASSUME NEW s \in States, NEW n \in Sizes, NEW c \in Consumers
  PROVE  /\ WaitBegun(s, n, c) \in States
         /\ WaitBegun(s, n, c).consumer_waiting = c
         /\ WaitBegun(s, n, c).last_wait_target = s.last_wait_target
         /\ SameTiles(WaitBegun(s, n, c), s)
         /\ SameProducer(WaitBegun(s, n, c), s)
<1> DEFINE st == IF s.step = None THEN n ELSE s.step
<1>1. st \in Sizes \union {None}
  BY DEF States
<1>2. WaitBegun(s, n, c) = [s EXCEPT !.consumer_waiting = c, !.step = st]
  BY DEF WaitBegun
<1> HIDE DEF st
<1> QED BY <1>1, <1>2 DEF States, SameTiles, SameProducer

\* A wait rejected as not cumulative records the consumer, and nothing else.
LEMMA WaitRejectedEffect ==
  ASSUME NEW s \in States, NEW c \in Consumers
  PROVE  /\ WaitRejected(s, c) \in States
         /\ WaitRejected(s, c).consumer_waiting = c
         /\ WaitRejected(s, c).last_wait_target = s.last_wait_target
         /\ SameTiles(WaitRejected(s, c), s)
         /\ SameProducer(WaitRejected(s, c), s)
BY DEF WaitRejected, States, SameTiles, SameProducer

\* Ending a wait sets its target, and touches no tile.
LEMMA WaitDoneEffect ==
  ASSUME NEW s \in States, NEW n \in 0 .. Cap
  PROVE  /\ WaitDone(s, n) \in States
         /\ WaitDone(s, n).last_wait_target = n
         /\ WaitDone(s, n).consumer_waiting = s.consumer_waiting
         /\ SameTiles(WaitDone(s, n), s)
         /\ SameProducer(WaitDone(s, n), s)
BY DEF WaitDone, States, SameTiles, SameProducer

\* Beginning a reservation records the producer, and touches no tile.
LEMMA ReserveBegunEffect ==
  ASSUME NEW s \in States, NEW p \in Producers
  PROVE  /\ ReserveBegun(s, p) \in States
         /\ ReserveBegun(s, p).producer_reserving = p
         /\ ReserveBegun(s, p).reserved = s.reserved
         /\ ReserveBegun(s, p).last_reserve_target = s.last_reserve_target
         /\ SameTiles(ReserveBegun(s, p), s)
         /\ SameConsumer(ReserveBegun(s, p), s)
BY DEF ReserveBegun, States, SameTiles, SameConsumer

\* Ending a reservation sets what is reserved, and touches no tile.
LEMMA ReserveDoneEffect ==
  ASSUME NEW s \in States, NEW n \in 0 .. Cap
  PROVE  /\ ReserveDone(s, n) \in States
         /\ ReserveDone(s, n).reserved = n
         /\ ReserveDone(s, n).last_reserve_target = n
         /\ ReserveDone(s, n).producer_reserving = s.producer_reserving
         /\ SameTiles(ReserveDone(s, n), s)
         /\ SameConsumer(ReserveDone(s, n), s)
BY DEF ReserveDone, States, SameTiles, SameConsumer

\* A push moves n tiles from reserved to visible, and nothing on the consumer's side.
LEMMA PushBackEffect ==
  ASSUME NEW s \in States, NEW n \in 1 .. s.reserved, s.visible + s.reserved <= Cap
  PROVE  /\ PushBack(s, n) \in States
         /\ PushBack(s, n).cap = s.cap /\ PushBack(s, n).buf = s.buf
         /\ PushBack(s, n).head = s.head
         /\ PushBack(s, n).visible = s.visible + n
         /\ PushBack(s, n).reserved = s.reserved - n
         /\ PushBack(s, n).last_reserve_target = s.last_reserve_target
         /\ PushBack(s, n).producer_reserving =
              IF s.reserved = n THEN None ELSE s.producer_reserving
         /\ SameConsumer(PushBack(s, n), s)
<1> DEFINE owner == IF s.reserved = n THEN None ELSE s.producer_reserving
<1>1. owner \in Producers \union {None} /\ s.reserved - n \in 0 .. Cap /\ s.visible + n \in 0 .. Cap
  BY DEF States
<1>2. PushBack(s, n) = [s EXCEPT !.reserved = s.reserved - n, !.visible = s.visible + n, !.producer_reserving = owner]
  BY DEF PushBack
<1> HIDE DEF owner
<1>3. /\ PushBack(s, n) \in States
      /\ PushBack(s, n).producer_reserving = owner
  BY <1>1, <1>2 DEF States
<1> QED BY <1>2, <1>3 DEF States, SameConsumer, owner

\* The slot k places after slot h.
Slot(h, k) == (h + k) % Cap

\* A slot number wraps at most once.
LEMMA SlotOnce ==
  ASSUME NEW h \in 0 .. Cap - 1, NEW k \in 0 .. Cap
  PROVE  Slot(h, k) = IF h + k < Cap THEN h + k ELSE h + k - Cap
BY ModOnce DEF Slot

\* A slot number is one of the buffer's.
LEMMA SlotRange ==
  ASSUME NEW h \in 0 .. Cap - 1, NEW k \in 0 .. Cap
  PROVE  Slot(h, k) \in 0 .. Cap - 1
BY SlotOnce

\* Which slot is how far from the head: moving the head moves the count.
LEMMA SlotShift ==
  ASSUME NEW h \in 0 .. Cap - 1, NEW n \in 0 .. Cap, NEW i \in 0 .. Cap, n + i <= Cap
  PROVE  Slot(Slot(h, n), i) = Slot(h, n + i)
<1>1. Slot(h, n) \in 0 .. Cap - 1 /\ n + i \in 0 .. Cap
  BY SlotRange
<1> QED BY <1>1, SlotOnce

\* Two places less than a capacity apart have different slots.
LEMMA SlotInjective ==
  ASSUME NEW h \in 0 .. Cap - 1, NEW i \in 0 .. Cap - 1, NEW j \in 0 .. Cap - 1,
         Slot(h, i) = Slot(h, j)
  PROVE  i = j
BY SlotOnce

\* A pop empties n slots at the head, moves the head past them, and nothing on
\* the producer's side.
LEMMA PopFrontEffect ==
  ASSUME NEW s \in States, NEW n \in 1 .. s.visible
  PROVE  /\ PopFront(s, n) \in States
         /\ PopFront(s, n).cap = s.cap
         /\ PopFront(s, n).head = Slot(s.head, n)
         /\ PopFront(s, n).visible = s.visible - n
         /\ PopFront(s, n).last_wait_target = 0
         /\ PopFront(s, n).consumer_waiting =
              IF s.visible = n THEN None ELSE s.consumer_waiting
         /\ \A i \in 0 .. Cap - 1 : i \notin SpanSlots(s, s.head, n) =>
              PopFront(s, n).buf[i] = s.buf[i]
         /\ SameProducer(PopFront(s, n), s)
<1> DEFINE owner == IF s.visible = n THEN None ELSE s.consumer_waiting
           kept  == [i \in 0 .. s.cap - 1 |->
                       IF i \in SpanSlots(s, s.head, n) THEN None ELSE s.buf[i]]
           next  == (s.head + n) % s.cap
<1>1. /\ s.cap = Cap /\ s.head \in 0 .. Cap - 1 /\ n \in 0 .. Cap
      /\ s.visible \in 0 .. Cap
      /\ s.buf \in [0 .. Cap - 1 -> Values \union {None}]
  BY DEF States
<1>2. owner \in Consumers \union {None} /\ s.visible - n \in 0 .. Cap
  BY DEF States
<1>3. kept \in [0 .. Cap - 1 -> Values \union {None}]
  BY <1>1
<1>4. next \in 0 .. Cap - 1 /\ next = Slot(s.head, n)
  <2>1. next = Slot(s.head, n)
    BY <1>1, Zenon DEF Slot
  <2> HIDE DEF next
  <2> QED BY <1>1, <2>1, SlotRange
<1>5. \A i \in 0 .. Cap - 1 : i \notin SpanSlots(s, s.head, n) => kept[i] = s.buf[i]
  BY <1>1
<1>6. PopFront(s, n) =
        [s EXCEPT !.buf = kept, !.head = next, !.visible = s.visible - n,
                  !.last_wait_target = 0, !.consumer_waiting = owner]
  BY DEF PopFront
<1> HIDE DEF owner, kept, next
<1>7. PopFront(s, n) \in States
  <2> DEFINE zero == 0
  <2>1. zero \in 0 .. Cap
    OBVIOUS
  <2>2. PopFront(s, n) =
          [s EXCEPT !.buf = kept, !.head = next, !.visible = s.visible - n,
                    !.last_wait_target = zero, !.consumer_waiting = owner]
    BY <1>6
  <2> HIDE DEF zero
  <2> DEFINE popped ==
        [s EXCEPT !.buf = kept, !.head = next, !.visible = s.visible - n,
                  !.last_wait_target = zero, !.consumer_waiting = owner]
  <2>3. popped \in States
    BY <1>2, <1>3, <1>4, <2>1 DEF States
  <2> QED BY <2>2, <2>3, Zenon
<1>8. /\ PopFront(s, n).buf = kept
      /\ PopFront(s, n).head = next
      /\ PopFront(s, n).visible = s.visible - n
      /\ PopFront(s, n).cap = s.cap
      /\ PopFront(s, n).last_wait_target = 0
      /\ PopFront(s, n).consumer_waiting = owner
      /\ SameProducer(PopFront(s, n), s)
  BY <1>6 DEF States, SameProducer
<1> QED BY <1>4, <1>5, <1>7, <1>8 DEF owner

\* A write changes one slot, and none of the counters.
LEMMA WriteSlotEffect ==
  ASSUME NEW s \in States, NEW start \in 0 .. Cap - 1, NEW i \in 0 .. Cap - 1,
         NEW v \in Values
  PROVE  /\ WriteSlot(s, start, i, v) \in States
         /\ WriteSlot(s, start, i, v).cap = s.cap
         /\ WriteSlot(s, start, i, v).head = s.head
         /\ WriteSlot(s, start, i, v).visible = s.visible
         /\ SameProducer(WriteSlot(s, start, i, v), s)
         /\ SameConsumer(WriteSlot(s, start, i, v), s)
<1>1. Slot(start, i) \in 0 .. Cap - 1 /\ s.cap = Cap
  <2>1. i \in 0 .. Cap
    OBVIOUS
  <2> QED BY <2>1, SlotRange DEF States
<1> DEFINE written == [s.buf EXCEPT ![Slot(start, i)] = v]
<1>2. written \in [0 .. Cap - 1 -> Values \union {None}]
  BY <1>1 DEF States
<1>3. WriteSlot(s, start, i, v) = [s EXCEPT !.buf = written]
  BY <1>1 DEF WriteSlot, SpanSlot, Slot
<1> HIDE DEF written
<1>4. /\ WriteSlot(s, start, i, v) \in States
      /\ WriteSlot(s, start, i, v).buf = written
      /\ WriteSlot(s, start, i, v).cap = s.cap
      /\ WriteSlot(s, start, i, v).head = s.head
      /\ WriteSlot(s, start, i, v).visible = s.visible
      /\ SameProducer(WriteSlot(s, start, i, v), s)
      /\ SameConsumer(WriteSlot(s, start, i, v), s)
  BY <1>2, <1>3 DEF States, SameProducer, SameConsumer
<1> QED BY <1>4

\* A reset empties the buffer, whatever state it finds.
LEMMA ResetStateEffect ==
  ASSUME NEW s \in States
  PROVE  /\ ResetState(s) \in States
         /\ ResetState(s).head = 0 /\ ResetState(s).visible = 0
         /\ ResetState(s).reserved = 0 /\ ResetState(s).last_wait_target = 0
<1> DEFINE empty == [i \in 0 .. s.cap - 1 |-> None]
<1>1. empty \in [0 .. Cap - 1 -> Values \union {None}]
  BY DEF States
<1> HIDE DEF empty
<1> DEFINE zero == 0
<1>2. zero \in 0 .. Cap /\ zero \in 0 .. Cap - 1
  OBVIOUS
<1>3. ResetState(s) =
        [s EXCEPT !.buf = empty, !.head = zero, !.visible = zero, !.reserved = zero,
                  !.step = None, !.last_wait_target = zero,
                  !.consumer_waiting = None, !.producer_reserving = None]
  BY DEF ResetState, empty
<1> HIDE DEF zero
<1>4. /\ ResetState(s) \in States
      /\ ResetState(s).head = zero /\ ResetState(s).visible = zero
      /\ ResetState(s).reserved = zero /\ ResetState(s).last_wait_target = zero
  <2> DEFINE reset ==
        [s EXCEPT !.buf = empty, !.head = zero, !.visible = zero, !.reserved = zero,
                  !.step = None, !.last_wait_target = zero,
                  !.consumer_waiting = None, !.producer_reserving = None]
  <2>1. reset \in States
    BY <1>1, <1>2 DEF States
  <2>2. /\ reset.head = zero /\ reset.visible = zero
        /\ reset.reserved = zero /\ reset.last_wait_target = zero
    BY DEF States
  <2> QED BY <1>3, <2>1, <2>2, Zenon
<1> QED BY <1>4 DEF zero
-----------------------------------------------------------------------------
(* The inductive invariant.                                                *)

\* A buffer just configured satisfies the invariant.
LEMMA InitIInv == Init => IInv
<1> SUFFICES ASSUME Init PROVE IInv
  OBVIOUS
<1> DEFINE zero == 0
           empty == [i \in 0 .. Cap - 1 |-> None]
<1>1. /\ zero \in 0 .. Cap /\ zero \in 0 .. Cap - 1
      /\ empty \in [0 .. Cap - 1 -> Values \union {None}]
  OBVIOUS
<1>2. dfb = [cap |-> Cap, buf |-> empty, head |-> zero, visible |-> zero,
             reserved |-> zero, step |-> None, last_wait_target |-> zero,
             last_reserve_target |-> zero, consumer_waiting |-> None,
             producer_reserving |-> None]
  BY DEF Init, Configured
<1> HIDE DEF zero, empty
<1>3. dfb \in States
  BY <1>1, <1>2 DEF States
<1>4. /\ dfb.visible = 0 /\ dfb.reserved = 0
      /\ dfb.last_wait_target = 0 /\ dfb.last_reserve_target = 0
  BY <1>2 DEF zero
<1>5. \A t \in Threads : call[t] = None /\ view[t] = None
  BY DEF Init
<1>6. TypeOK
  BY <1>3 DEF Init, TypeOK
<1> QED BY <1>4, <1>5, <1>6 DEF IInv, Occupancy, TargetsHold, SleepersRecorded,
           ReadWindows, WriteWindows, Idle, Threads

\* A wait keeps the invariant, whether it is served or goes to sleep.
LEMMA WaitFrontIInv ==
  ASSUME IInv, NEW c \in Consumers, NEW n \in Sizes, WaitFront(c, n)
  PROVE  IInv'
<1> DEFINE begun == WaitBegun(dfb, n, c)
<1>1. dfb \in States /\ n \in 0 .. Cap /\ c \in Threads /\ dfb.cap = Cap
  BY DEF IInv, TypeOK, WaitFront, ValidTiles, States, Threads
<1>2. /\ begun \in States /\ begun.consumer_waiting = c
      /\ begun.last_wait_target = dfb.last_wait_target
      /\ SameTiles(begun, dfb) /\ SameProducer(begun, dfb)
  BY <1>1, WaitBegunEffect
<1>3. dfb.consumer_waiting \in {None, c}
  BY DEF WaitFront, WaitAdmitted
<1> HIDE DEF begun
<1>4. CASE WaitReady(dfb, n) /\ dfb' = WaitDone(begun, n) /\ UNCHANGED <<call, view>>
  <2>1. /\ dfb' \in States /\ dfb'.last_wait_target = n
        /\ dfb'.consumer_waiting = c
        /\ SameTiles(dfb', dfb) /\ SameProducer(dfb', dfb)
    <3>1. /\ WaitDone(begun, n) \in States
          /\ WaitDone(begun, n).last_wait_target = n
          /\ WaitDone(begun, n).consumer_waiting = begun.consumer_waiting
          /\ SameTiles(WaitDone(begun, n), begun)
          /\ SameProducer(WaitDone(begun, n), begun)
      BY <1>1, <1>2, WaitDoneEffect, Zenon
    <3> QED BY <1>2, <1>4, <3>1, Zenon DEF SameTiles, SameProducer
  <2>2. TypeOK' /\ Occupancy' /\ SleepersRecorded'
    <3>1. TypeOK' /\ Occupancy'
      BY <1>4, <2>1 DEF IInv, TypeOK, Occupancy, SameTiles, SameProducer
    <3>2. SleepersRecorded'
      BY <1>1, <1>3, <1>4, <2>1 DEF IInv, SleepersRecorded, SameProducer, Idle
    <3> QED BY <3>1, <3>2
  <2>3. TargetsHold'
    BY <1>1, <1>4, <2>1
    DEF IInv, TargetsHold, SameTiles, SameProducer, WaitReady, States
  <2>4. ReadWindows' /\ WriteWindows'
    BY <1>1, <1>3, <1>4, <2>1
    DEF IInv, ReadWindows, WriteWindows, SameTiles, SameProducer, FrontStart, BackStart
  <2> QED BY <2>2, <2>3, <2>4 DEF IInv
<1>5. CASE dfb' = begun /\ call' = [call EXCEPT ![c] = [op |-> "wait", tiles |-> n]]
           /\ UNCHANGED view
  <2>1. call' \in [Threads -> Calls \union {None}]
    BY <1>1, <1>5 DEF IInv, TypeOK, Calls
  <2>2. SleepersRecorded'
    BY <1>1, <1>2, <1>3, <1>5
    DEF IInv, TypeOK, SleepersRecorded, SameProducer, Idle, Threads
  <2> QED
    BY <1>1, <1>2, <1>3, <1>5, <2>1, <2>2
    DEF IInv, TypeOK, Occupancy, TargetsHold, ReadWindows,
        WriteWindows, SameTiles, SameProducer, FrontStart, BackStart
<1> QED BY <1>4, <1>5 DEF WaitFront, begun

\* A wait that raises keeps the invariant.
LEMMA WaitNotCumulativeIInv ==
  ASSUME IInv, NEW c \in Consumers, NEW n \in Sizes, WaitNotCumulative(c, n)
  PROVE  IInv'
<1>1. dfb \in States
  BY DEF IInv, TypeOK
<1>2. /\ dfb' \in States /\ dfb'.last_wait_target = dfb.last_wait_target
      /\ dfb'.consumer_waiting = c
      /\ SameTiles(dfb', dfb) /\ SameProducer(dfb', dfb)
  BY <1>1, WaitRejectedEffect DEF WaitNotCumulative
<1>3. dfb.consumer_waiting \in {None, c} /\ UNCHANGED <<call, view>>
  BY DEF WaitNotCumulative, WaitAdmitted
<1> QED
  BY <1>1, <1>2, <1>3
  DEF IInv, TypeOK, Occupancy, TargetsHold, SleepersRecorded, ReadWindows,
      WriteWindows, SameTiles, SameProducer, FrontStart, BackStart, Idle

\* A reservation keeps the invariant, whether it is served or goes to sleep.
LEMMA ReserveBackIInv ==
  ASSUME IInv, NEW p \in Producers, NEW n \in Sizes, ReserveBack(p, n)
  PROVE  IInv'
<1> DEFINE begun == ReserveBegun(dfb, p)
<1>1. dfb \in States /\ n \in 0 .. Cap /\ n > 0 /\ p \in Threads /\ dfb.cap = Cap
  BY DEF IInv, TypeOK, ReserveBack, ValidTiles, States, Threads
<1>2. /\ begun \in States /\ begun.producer_reserving = p
      /\ begun.reserved = dfb.reserved
      /\ begun.last_reserve_target = dfb.last_reserve_target
      /\ SameTiles(begun, dfb) /\ SameConsumer(begun, dfb)
  BY <1>1, ReserveBegunEffect
<1>3. dfb.producer_reserving \in {None, p} /\ n >= dfb.reserved /\ Idle(p)
  BY DEF ReserveBack, ReserveAdmitted, ReserveGrows
<1> HIDE DEF begun
<1>4. CASE ReserveReady(dfb, n) /\ dfb' = ReserveDone(begun, n) /\ UNCHANGED <<call, view>>
  <2>1. /\ dfb' \in States /\ dfb'.reserved = n /\ dfb'.last_reserve_target = n
        /\ dfb'.producer_reserving = p
        /\ SameTiles(dfb', dfb) /\ SameConsumer(dfb', dfb)
    <3>1. /\ ReserveDone(begun, n) \in States
          /\ ReserveDone(begun, n).reserved = n
          /\ ReserveDone(begun, n).last_reserve_target = n
          /\ ReserveDone(begun, n).producer_reserving = begun.producer_reserving
          /\ SameTiles(ReserveDone(begun, n), begun)
          /\ SameConsumer(ReserveDone(begun, n), begun)
      BY <1>1, <1>2, ReserveDoneEffect, Zenon
    <3> QED BY <1>2, <1>4, <3>1, Zenon DEF SameTiles, SameConsumer
  <2>2. dfb.visible \in Nat /\ dfb.reserved \in Nat /\ dfb.last_wait_target \in Nat
    BY <1>1 DEF States
  <2>3. dfb.visible + n <= Cap
    BY <1>1, <1>4, <2>2 DEF ReserveReady, Free
  <2>4. p # None
    OBVIOUS
  <2>5. TypeOK' /\ Occupancy' /\ TargetsHold'
    <3>1. TypeOK'
      BY <1>4, <2>1 DEF IInv, TypeOK
    <3>2. Occupancy'
      BY <2>1, <2>3 DEF Occupancy, SameTiles
    <3>3. dfb.last_wait_target <= dfb.visible
      BY DEF IInv, TargetsHold
    <3>4. n <= n
      BY <1>1
    <3>5. TargetsHold'
      BY <2>1, <2>4, <3>3, <3>4 DEF TargetsHold, SameTiles, SameConsumer
    <3> QED BY <3>1, <3>2, <3>5
  <2>8. SleepersRecorded'
    BY <1>1, <1>3, <1>4, <2>1
    DEF IInv, SleepersRecorded, SameConsumer, Idle
  <2>6. ReadWindows'
    BY <1>1, <1>4, <2>1 DEF IInv, ReadWindows, SameTiles, SameConsumer, FrontStart
  <2>7. WriteWindows'
    BY <1>1, <1>3, <1>4, <2>1, <2>2
    DEF IInv, TypeOK, Threads, WriteWindows, SameTiles, BackStart, Views
  <2> QED BY <2>5, <2>6, <2>7, <2>8 DEF IInv
<1>5. CASE dfb' = begun /\ call' = [call EXCEPT ![p] = [op |-> "reserve", tiles |-> n]]
           /\ UNCHANGED view
  <2>1. call' \in [Threads -> Calls \union {None}]
    BY <1>1, <1>5 DEF IInv, TypeOK, Calls
  <2>2. SleepersRecorded'
    BY <1>1, <1>2, <1>3, <1>5
    DEF IInv, TypeOK, SleepersRecorded, SameConsumer, Idle, Threads
  <2>3. p # None
    OBVIOUS
  <2> QED
    BY <1>1, <1>2, <1>3, <1>5, <2>1, <2>2, <2>3
    DEF IInv, TypeOK, Occupancy, TargetsHold, ReadWindows,
        WriteWindows, SameTiles, SameConsumer, FrontStart, BackStart
<1> QED BY <1>4, <1>5 DEF ReserveBack, begun

\* A consumer that wakes up, however late, keeps the invariant.
LEMMA WaitResumesIInv ==
  ASSUME IInv, NEW c \in Consumers, WaitResumes(c)
  PROVE  IInv'
<1> DEFINE n == call[c].tiles
<1>1. dfb \in States /\ c \in Threads /\ call[c] \in Calls /\ ~Idle(c)
  BY DEF IInv, TypeOK, WaitResumes, Threads, Idle
<1>2. n \in 0 .. Cap /\ dfb.visible >= n /\ dfb.visible \in Nat
  <2>1. n \in Nat
    BY <1>1 DEF Calls
  <2>2. dfb.visible \in 0 .. Cap
    BY <1>1 DEF States
  <2>3. dfb.visible >= n
    BY DEF WaitResumes, WaitReady
  <2> QED BY <2>1, <2>2, <2>3
<1>3. dfb' = WaitDone(dfb, n) /\ call' = [call EXCEPT ![c] = None] /\ UNCHANGED view
  BY DEF WaitResumes
<1> HIDE DEF n
<1>4. /\ dfb' \in States /\ dfb'.last_wait_target = n
      /\ dfb'.consumer_waiting = dfb.consumer_waiting
      /\ SameTiles(dfb', dfb) /\ SameProducer(dfb', dfb)
  BY <1>1, <1>2, <1>3, WaitDoneEffect
<1>5. call' \in [Threads -> Calls \union {None}]
  BY <1>1, <1>3 DEF IInv, TypeOK
<1>6. SleepersRecorded'
  BY <1>1, <1>3, <1>4 DEF IInv, TypeOK, SleepersRecorded, SameProducer, Idle
<1> QED
  BY <1>1, <1>2, <1>3, <1>4, <1>5, <1>6
  DEF IInv, TypeOK, Occupancy, TargetsHold, ReadWindows, WriteWindows, SameTiles,
      SameProducer, FrontStart, BackStart

\* A producer that wakes up, however late, keeps the invariant.
LEMMA ReserveResumesIInv ==
  ASSUME IInv, NEW p \in Producers, ReserveResumes(p)
  PROVE  IInv'
<1> DEFINE n == call[p].tiles
<1>1. dfb \in States /\ p \in Threads /\ call[p] \in Calls /\ ~Idle(p) /\ p \notin Consumers
  BY DEF IInv, TypeOK, ReserveResumes, Threads, Idle
<1>2. /\ dfb.visible \in Nat /\ dfb.reserved \in Nat /\ n \in Nat
      /\ dfb.cap = Cap /\ dfb.last_wait_target \in Nat
  <2>1. n \in Nat
    BY <1>1 DEF Calls
  <2> QED BY <1>1, <2>1 DEF States
<1>3. n \in 0 .. Cap /\ dfb.visible + n <= Cap
  BY <1>2 DEF ReserveResumes, ReserveReady, Free
<1>4. dfb' = ReserveDone(dfb, n) /\ call' = [call EXCEPT ![p] = None] /\ UNCHANGED view
  BY DEF ReserveResumes
<1>5. dfb.producer_reserving = p /\ n >= dfb.reserved /\ p # None
  BY <1>1 DEF IInv, SleepersRecorded
<1> HIDE DEF n
<1>6. /\ dfb' \in States /\ dfb'.reserved = n /\ dfb'.last_reserve_target = n
      /\ dfb'.producer_reserving = p
      /\ SameTiles(dfb', dfb) /\ SameConsumer(dfb', dfb)
  BY <1>1, <1>3, <1>4, <1>5, ReserveDoneEffect
<1>7. call' \in [Threads -> Calls \union {None}]
  BY <1>1, <1>4 DEF IInv, TypeOK
<1>8. TypeOK' /\ Occupancy' /\ TargetsHold'
  BY <1>2, <1>3, <1>4, <1>5, <1>6, <1>7
  DEF IInv, TypeOK, Occupancy, TargetsHold, SameTiles, SameConsumer
<1>9. SleepersRecorded'
  BY <1>1, <1>4, <1>5, <1>6 DEF IInv, TypeOK, SleepersRecorded, SameConsumer, Idle
<1>10. ReadWindows'
  BY <1>4, <1>6 DEF IInv, ReadWindows, SameTiles, SameConsumer, FrontStart
<1>11. WriteWindows'
  BY <1>2, <1>4, <1>5, <1>6
  DEF IInv, TypeOK, Threads, WriteWindows, SameTiles, BackStart, Views
<1> QED BY <1>8, <1>9, <1>10, <1>11 DEF IInv

\* A timeout keeps the invariant, with the caller still recorded.
LEMMA TimesOutIInv ==
  ASSUME IInv, NEW t \in Threads, TimesOut(t)
  PROVE  IInv'
<1>1. call' \in [Threads -> Calls \union {None}]
  BY DEF IInv, TypeOK, TimesOut
<1>2. SleepersRecorded'
  BY DEF IInv, TypeOK, TimesOut, SleepersRecorded, Idle
<1> QED
  BY <1>1, <1>2 DEF IInv, TypeOK, TimesOut, Occupancy, TargetsHold, ReadWindows,
                    WriteWindows, FrontStart, BackStart

\* The block get_write_ptr returns covers the reserved tiles.
LEMMA GetWritePtrIInv ==
  ASSUME IInv, NEW p \in Producers, GetWritePtr(p)
  PROVE  IInv'
<1> DEFINE block == [start |-> BackStart(dfb), length |-> dfb.last_reserve_target]
<1>1. /\ dfb \in States /\ dfb.cap = Cap /\ dfb.head \in 0 .. Cap - 1
      /\ dfb.visible \in 0 .. Cap /\ dfb.last_reserve_target \in 0 .. Cap
      /\ p \in Threads /\ p \notin Consumers
  BY DEF IInv, TypeOK, States, Threads
<1>2. block.start \in 0 .. Cap - 1
  BY <1>1, SlotRange DEF BackStart, Slot
<1>3. block \in Views /\ block.start = BackStart(dfb) /\ block.length <= dfb.reserved
  BY <1>1, <1>2 DEF GetWritePtr, WritePtrValid, Views
<1>4. /\ view' = [view EXCEPT ![p] = block] /\ UNCHANGED <<dfb, call>>
      /\ dfb.producer_reserving = p
  BY DEF GetWritePtr
<1> HIDE DEF block
<1> QED
  BY <1>1, <1>3, <1>4
  DEF IInv, TypeOK, Occupancy, TargetsHold, SleepersRecorded, Idle, ReadWindows,
      WriteWindows, FrontStart, BackStart, Threads

\* The block get_read_ptr returns covers visible tiles from the head on.
LEMMA GetReadPtrIInv ==
  ASSUME IInv, NEW c \in Consumers, GetReadPtr(c)
  PROVE  IInv'
<1> DEFINE block == [start |-> FrontStart(dfb), length |-> dfb.last_wait_target]
<1>1. /\ dfb \in States /\ dfb.cap = Cap /\ dfb.head \in 0 .. Cap - 1
      /\ dfb.visible \in 0 .. Cap /\ dfb.last_wait_target \in 0 .. Cap
      /\ c \in Threads /\ c \notin Producers
  BY DEF IInv, TypeOK, States, Threads
<1>2. block \in Views /\ block.start = FrontStart(dfb) /\ block.length <= dfb.visible
  BY <1>1 DEF GetReadPtr, ReadPtrValid, Views, FrontStart
<1>3. /\ view' = [view EXCEPT ![c] = block] /\ UNCHANGED <<dfb, call>>
      /\ dfb.consumer_waiting = c
  BY DEF GetReadPtr
<1> HIDE DEF block
<1> QED
  BY <1>1, <1>2, <1>3
  DEF IInv, TypeOK, Occupancy, TargetsHold, SleepersRecorded, Idle, ReadWindows,
      WriteWindows, FrontStart, BackStart, Threads

\* A write through a block keeps the invariant.
LEMMA WriteIInv ==
  ASSUME IInv, NEW p \in Producers, NEW i \in 0 .. Cap - 1, NEW v \in Values,
         Write(p, i, v)
  PROVE  IInv'
<1> DEFINE start == view[p].start
<1>1. /\ dfb \in States /\ start \in 0 .. Cap - 1
      /\ dfb' = WriteSlot(dfb, start, i, v) /\ UNCHANGED <<call, view>>
  BY DEF IInv, TypeOK, Write, Views, Threads
<1> HIDE DEF start
<1>2. /\ dfb' \in States /\ dfb'.cap = dfb.cap /\ dfb'.head = dfb.head
      /\ dfb'.visible = dfb.visible
      /\ SameProducer(dfb', dfb) /\ SameConsumer(dfb', dfb)
  <2>1. /\ WriteSlot(dfb, start, i, v) \in States
        /\ WriteSlot(dfb, start, i, v).cap = dfb.cap
        /\ WriteSlot(dfb, start, i, v).head = dfb.head
        /\ WriteSlot(dfb, start, i, v).visible = dfb.visible
        /\ SameProducer(WriteSlot(dfb, start, i, v), dfb)
        /\ SameConsumer(WriteSlot(dfb, start, i, v), dfb)
    BY <1>1, WriteSlotEffect, Zenon
  <2> QED BY <1>1, <2>1, Zenon
<1> QED
  BY <1>1, <1>2
  DEF IInv, TypeOK, Occupancy, TargetsHold, SleepersRecorded, Idle, ReadWindows,
      WriteWindows, FrontStart, BackStart, SameProducer, SameConsumer

\* A push keeps the invariant: the consumers' blocks stay where they are.
LEMMA PushIInv ==
  ASSUME IInv, NEW p \in Producers, NEW n \in Sizes, Push(p, n)
  PROVE  IInv'
<1>1. /\ dfb \in States /\ p \in Threads /\ Idle(p) /\ p \notin Consumers
      /\ dfb.producer_reserving = p /\ p # None
      /\ dfb' = PushBack(dfb, n) /\ view' = [view EXCEPT ![p] = None]
      /\ UNCHANGED call
  BY DEF IInv, TypeOK, Push, Threads
<1>2. /\ dfb.visible \in Nat /\ dfb.reserved \in Nat /\ dfb.last_wait_target \in Nat
      /\ dfb.last_reserve_target \in Nat /\ dfb.visible + dfb.reserved <= Cap
  BY <1>1 DEF States, IInv, Occupancy
<1>3. n \in 1 .. dfb.reserved
  <2>1. n <= dfb.reserved
    BY Zenon DEF Push, PushAllowed
  <2> QED BY <1>2, <2>1
<1>4. /\ dfb' \in States /\ dfb'.cap = dfb.cap /\ dfb'.head = dfb.head
      /\ dfb'.visible = dfb.visible + n /\ dfb'.reserved = dfb.reserved - n
      /\ dfb'.last_reserve_target = dfb.last_reserve_target
      /\ dfb'.producer_reserving = IF dfb.reserved = n THEN None ELSE p
      /\ SameConsumer(dfb', dfb)
  BY <1>1, <1>2, <1>3, PushBackEffect
<1>5. TypeOK' /\ Occupancy' /\ TargetsHold'
  <2>1. TypeOK'
    BY <1>1, <1>4 DEF IInv, TypeOK
  <2>2. Occupancy'
    BY <1>2, <1>3, <1>4 DEF Occupancy
  <2>3. TargetsHold'
    BY <1>1, <1>2, <1>3, <1>4 DEF IInv, TargetsHold, SameConsumer
  <2> QED BY <2>1, <2>2, <2>3
<1>6. SleepersRecorded'
  BY <1>1, <1>4 DEF IInv, SleepersRecorded, Idle, SameConsumer
<1>7. ReadWindows'
  <2> SUFFICES ASSUME NEW c \in Consumers, view'[c] # None
               PROVE  /\ dfb'.consumer_waiting = c
                      /\ view'[c].start = FrontStart(dfb') /\ view'[c].length <= dfb'.visible
    BY DEF ReadWindows
  <2>1. view'[c] = view[c] /\ view[c] \in Views
    BY <1>1 DEF IInv, TypeOK, Threads
  <2>2. view[c].length \in Nat
    BY <2>1 DEF Views
  <2> QED BY <1>2, <1>3, <1>4, <2>1, <2>2 DEF IInv, ReadWindows, FrontStart, SameConsumer
<1>8. WriteWindows'
  BY <1>1 DEF IInv, TypeOK, Threads, WriteWindows
<1> QED BY <1>5, <1>6, <1>7, <1>8 DEF IInv

\* A pop keeps the invariant: the producers' blocks stay at the back.
LEMMA PopIInv ==
  ASSUME IInv, NEW c \in Consumers, NEW n \in Sizes, Pop(c, n)
  PROVE  IInv'
<1>1. /\ dfb \in States /\ c \in Threads /\ Idle(c) /\ c \notin Producers
      /\ dfb.consumer_waiting = c /\ c # None
      /\ dfb' = PopFront(dfb, n) /\ view' = [view EXCEPT ![c] = None]
      /\ UNCHANGED call
  BY DEF IInv, TypeOK, Pop, Threads
<1>2. /\ dfb.visible \in 0 .. Cap /\ dfb.reserved \in Nat /\ dfb.cap = Cap
      /\ dfb.visible + dfb.reserved <= Cap /\ dfb.head \in 0 .. Cap - 1
  BY <1>1 DEF States, IInv, Occupancy
<1>3. n \in 1 .. dfb.visible
  <2>1. n <= dfb.visible
    BY Zenon DEF Pop, PopAllowed
  <2> QED BY <1>2, <2>1
<1>4. /\ dfb' \in States /\ dfb'.cap = dfb.cap
      /\ dfb'.head = Slot(dfb.head, n)
      /\ dfb'.visible = dfb.visible - n /\ dfb'.last_wait_target = 0
      /\ dfb'.consumer_waiting = IF dfb.visible = n THEN None ELSE c
      /\ SameProducer(dfb', dfb)
  <2>1. /\ PopFront(dfb, n) \in States /\ PopFront(dfb, n).cap = dfb.cap
        /\ PopFront(dfb, n).head = Slot(dfb.head, n)
        /\ PopFront(dfb, n).visible = dfb.visible - n
        /\ PopFront(dfb, n).last_wait_target = 0
        /\ PopFront(dfb, n).consumer_waiting =
             IF dfb.visible = n THEN None ELSE dfb.consumer_waiting
        /\ SameProducer(PopFront(dfb, n), dfb)
    BY <1>1, <1>3, PopFrontEffect, Zenon
  <2> QED BY <1>1, <2>1, Zenon
<1>5. TypeOK' /\ Occupancy' /\ TargetsHold'
  <2>1. TypeOK'
    BY <1>1, <1>4 DEF IInv, TypeOK
  <2>2. Occupancy'
    BY <1>2, <1>3, <1>4 DEF Occupancy, SameProducer
  <2>3. 0 <= dfb.visible - n
    BY <1>2, <1>3
  <2>4. TargetsHold'
    BY <1>4, <2>3 DEF IInv, TargetsHold, SameProducer
  <2> QED BY <2>1, <2>2, <2>4
<1>6. SleepersRecorded'
  BY <1>1, <1>4 DEF IInv, SleepersRecorded, Idle, SameProducer
<1>7. ReadWindows'
  BY <1>1 DEF IInv, TypeOK, Threads, ReadWindows
<1>8. BackStart(dfb') = BackStart(dfb)
  <2>1. n \in 0 .. Cap /\ dfb.visible - n \in 0 .. Cap /\ n + (dfb.visible - n) = dfb.visible
    BY <1>2, <1>3
  <2>2. Slot(Slot(dfb.head, n), dfb.visible - n) = Slot(dfb.head, dfb.visible)
    BY <1>2, <2>1, SlotShift
  <2> QED BY <1>2, <1>4, <2>2 DEF BackStart, Slot
<1>9. WriteWindows'
  <2> SUFFICES ASSUME NEW p \in Producers, view'[p] # None
               PROVE  /\ dfb'.producer_reserving = p
                      /\ view'[p].start = BackStart(dfb') /\ view'[p].length <= dfb'.reserved
    BY DEF WriteWindows
  <2>1. view'[p] = view[p]
    BY <1>1 DEF IInv, TypeOK, Threads
  <2> QED BY <1>4, <1>8, <2>1 DEF IInv, WriteWindows, SameProducer
<1> QED BY <1>5, <1>6, <1>7, <1>9 DEF IInv

\* A reset between kernels keeps the invariant.
LEMMA HostResetIInv ==
  ASSUME IInv, HostReset
  PROVE  IInv'
<1>1. /\ dfb' \in States /\ dfb'.visible = 0 /\ dfb'.reserved = 0
      /\ dfb'.last_wait_target = 0
  BY ResetStateEffect DEF IInv, TypeOK, HostReset
<1>2. dfb'.last_reserve_target \in Nat
  BY <1>1 DEF States
<1>3. \A t \in Threads : call'[t] = None /\ view'[t] = None
  BY DEF HostReset, Idle
<1>4. TypeOK'
  BY <1>1 DEF IInv, TypeOK, HostReset
<1> QED
  BY <1>1, <1>2, <1>3, <1>4
  DEF IInv, Occupancy, TargetsHold, SleepersRecorded, Idle, ReadWindows,
      WriteWindows, Threads

\* Every step keeps the invariant.
LEMMA NextIInv == IInv /\ [Next]_vars => IInv'
<1> SUFFICES ASSUME IInv, [Next]_vars
             PROVE  IInv'
  OBVIOUS
<1>1. CASE UNCHANGED vars
  BY <1>1 DEF vars, IInv, TypeOK, Occupancy, TargetsHold, SleepersRecorded, Idle,
              ReadWindows, WriteWindows, FrontStart, BackStart
<1>2. CASE \E c \in Consumers, n \in Sizes :
             WaitFront(c, n) \/ WaitNotCumulative(c, n) \/ Pop(c, n)
  BY <1>2, WaitFrontIInv, WaitNotCumulativeIInv, PopIInv
<1>3. CASE \E p \in Producers, n \in Sizes : ReserveBack(p, n) \/ Push(p, n)
  BY <1>3, ReserveBackIInv, PushIInv
<1>4. CASE \E c \in Consumers : WaitResumes(c) \/ GetReadPtr(c)
  BY <1>4, WaitResumesIInv, GetReadPtrIInv
<1>5. CASE \E p \in Producers : ReserveResumes(p) \/ GetWritePtr(p)
  BY <1>5, ReserveResumesIInv, GetWritePtrIInv
<1>6. CASE \E p \in Producers, i \in 0 .. Cap - 1, v \in Values : Write(p, i, v)
  BY <1>6, WriteIInv
<1>7. CASE \E t \in Threads : TimesOut(t)
  BY <1>7, TimesOutIInv
<1>8. CASE HostReset
  BY <1>8, HostResetIInv
<1> QED BY <1>1, <1>2, <1>3, <1>4, <1>5, <1>6, <1>7, <1>8 DEF Next

\* Types, occupancy, recorded sleepers and valid blocks, in every reachable
\* state of the ring.
THEOREM RingInvariant == Spec => []IInv
<1>1. Init => IInv
  BY InitIInv
<1>2. IInv /\ [Next]_vars => IInv'
  BY NextIInv
<1> QED BY <1>1, <1>2, PTL DEF Spec

-----------------------------------------------------------------------------
(* Tiles counted from the head.                                            *)

Elems == Values \union {None}

\* The k-th tile from the head.
At(s, k) == s.buf[Slot(s.head, k)]

\* Every place of the buffer holds an element or nothing.
LEMMA AtType ==
  ASSUME NEW s \in States, NEW k \in 0 .. Cap
  PROVE  At(s, k) \in Elems
<1>1. s.head \in 0 .. Cap - 1 /\ s.buf \in [0 .. Cap - 1 -> Elems]
  BY DEF States, Elems
<1> QED BY <1>1, SlotRange DEF At

\* Tiles keep their content when neither slots nor head change.
LEMMA AtSame ==
  ASSUME NEW s, NEW r, r.buf = s.buf, r.head = s.head, NEW k
  PROVE  At(r, k) = At(s, k)
BY DEF At

\* A pop moves every later tile n places towards the head.
LEMMA AtPop ==
  ASSUME NEW s \in States, NEW n \in 1 .. s.visible, NEW k \in n .. Cap - 1
  PROVE  At(PopFront(s, n), k - n) = At(s, k)
<1> DEFINE slot == Slot(s.head, k)
<1>1. s.head \in 0 .. Cap - 1 /\ s.visible \in 0 .. Cap /\ s.cap = Cap
  BY DEF States
<1>2. n \in 0 .. Cap /\ k - n \in 0 .. Cap /\ n + (k - n) = k /\ k \in 0 .. Cap
  BY <1>1
<1>3. slot \in 0 .. Cap - 1
  BY <1>1, <1>2, SlotRange
<1>4. Slot(Slot(s.head, n), k - n) = slot
  BY <1>1, <1>2, SlotShift
<1>5. slot \notin SpanSlots(s, s.head, n)
  <2> SUFFICES ASSUME NEW j \in 0 .. n - 1, Slot(s.head, j) = Slot(s.head, k)
               PROVE  FALSE
    BY <1>1 DEF SpanSlots, SpanSlot, Slot
  <2>1. j \in 0 .. Cap - 1 /\ k \in 0 .. Cap - 1 /\ j < k
    BY <1>1
  <2> QED BY <1>1, <2>1, SlotInjective
<1> HIDE DEF slot
<1>6. PopFront(s, n).head = Slot(s.head, n)
  BY PopFrontEffect
<1>7. PopFront(s, n).buf[slot] = s.buf[slot]
  BY <1>3, <1>5, PopFrontEffect
<1> QED BY <1>4, <1>6, <1>7 DEF At, slot

\* Writing tile i of the reserved window changes that tile and no other.
LEMMA AtWrite ==
  ASSUME NEW s \in States, NEW i \in 0 .. Cap - 1, NEW v \in Values,
         s.visible + i < Cap, NEW k \in 0 .. Cap - 1
  PROVE  At(WriteSlot(s, BackStart(s), i, v), k) = IF k = s.visible + i THEN v ELSE At(s, k)
<1> DEFINE slot == Slot(s.head, s.visible + i)
<1>1. /\ s.head \in 0 .. Cap - 1 /\ s.visible \in 0 .. Cap /\ s.cap = Cap
      /\ s.buf \in [0 .. Cap - 1 -> Elems]
  BY DEF States, Elems
<1>2. /\ s.visible + i \in 0 .. Cap - 1 /\ s.visible + i \in 0 .. Cap
      /\ s.visible + i <= Cap /\ i \in 0 .. Cap /\ k \in 0 .. Cap
  BY <1>1
<1>3. SpanSlot(s, BackStart(s), i) = slot
  <2>1. SpanSlot(s, BackStart(s), i) = Slot(Slot(s.head, s.visible), i)
    BY <1>1, Zenon DEF SpanSlot, BackStart, Slot
  <2> QED BY <1>1, <1>2, <2>1, SlotShift
<1>4. slot \in 0 .. Cap - 1 /\ Slot(s.head, k) \in 0 .. Cap - 1
  BY <1>1, <1>2, SlotRange
<1>5. Slot(s.head, k) = slot => k = s.visible + i
  BY <1>1, <1>2, SlotInjective
<1> HIDE DEF slot
<1>6. /\ WriteSlot(s, BackStart(s), i, v).head = s.head
      /\ WriteSlot(s, BackStart(s), i, v).buf = [s.buf EXCEPT ![slot] = v]
  BY <1>3 DEF WriteSlot, States
<1>7. CASE k = s.visible + i
  BY <1>1, <1>4, <1>6, <1>7 DEF At, slot
<1>8. CASE k # s.visible + i
  BY <1>1, <1>4, <1>5, <1>6, <1>8 DEF At
<1> QED BY <1>7, <1>8

\* A function on 1 .. n into Elems is a sequence of length n.
LEMMA TilesSeq ==
  ASSUME NEW n \in Nat, NEW f, f = [i \in 1 .. n |-> f[i]], \A i \in 1 .. n : f[i] \in Elems
  PROVE  f \in Seq(Elems) /\ Len(f) = n
<1>1. f \in [1 .. n -> Elems] /\ DOMAIN f = 1 .. n
  OBVIOUS
<1>2. f \in Seq(Elems)
  BY <1>1, SeqDef
<1> QED BY <1>1, <1>2, LenProperties

\* The abstract queue and staging area, place by place.
LEMMA TilesAt ==
  ASSUME NEW s \in States, s.visible + s.reserved <= Cap
  PROVE  /\ VisibleTiles(s) \in Seq(Elems) /\ Len(VisibleTiles(s)) = s.visible
         /\ \A i \in 1 .. s.visible : VisibleTiles(s)[i] = At(s, i - 1)
         /\ ReservedTiles(s) \in Seq(Elems) /\ Len(ReservedTiles(s)) = s.reserved
         /\ \A i \in 1 .. s.reserved : ReservedTiles(s)[i] = At(s, s.visible + (i - 1))
<1>1. s.visible \in Nat /\ s.reserved \in Nat /\ s.cap = Cap
  BY DEF States
<1>2. VisibleTiles(s) = [i \in 1 .. s.visible |-> At(s, i - 1)]
  BY <1>1, Zenon DEF VisibleTiles, At, Slot
<1>3. ReservedTiles(s) = [i \in 1 .. s.reserved |-> At(s, s.visible + (i - 1))]
  BY <1>1, Zenon DEF ReservedTiles, At, Slot
<1>4. \A i \in 1 .. s.visible : At(s, i - 1) \in Elems
  BY <1>1, AtType
<1>5. \A i \in 1 .. s.reserved : At(s, s.visible + (i - 1)) \in Elems
  BY <1>1, AtType
<1>6. VisibleTiles(s) \in Seq(Elems) /\ Len(VisibleTiles(s)) = s.visible
  BY <1>1, <1>2, <1>4, TilesSeq
<1>7. ReservedTiles(s) \in Seq(Elems) /\ Len(ReservedTiles(s)) = s.reserved
  BY <1>1, <1>3, <1>5, TilesSeq
<1> QED BY <1>1, <1>2, <1>3, <1>6, <1>7

-----------------------------------------------------------------------------
(* Blocks: no slot is written and read at once, and held tiles stay.       *)

\* The invariant places producers' and consumers' blocks next to each other.
LEMMA WindowsApart == IInv => WindowsDisjoint
<1> SUFFICES ASSUME IInv, NEW p \in Producers, NEW c \in Consumers,
                    view[p] # None, view[c] # None,
                    NEW i \in 0 .. view[p].length - 1, NEW j \in 0 .. view[c].length - 1,
                    SpanSlot(dfb, view[p].start, i) = SpanSlot(dfb, view[c].start, j)
             PROVE  FALSE
  BY DEF WindowsDisjoint, SpanSlots
<1>1. /\ dfb.head \in 0 .. Cap - 1 /\ dfb.visible \in 0 .. Cap
      /\ dfb.reserved \in 0 .. Cap /\ dfb.cap = Cap
      /\ dfb.visible + dfb.reserved <= Cap
  BY DEF IInv, TypeOK, States, Occupancy
<1>2. view[p] \in Views /\ view[c] \in Views
  BY DEF IInv, TypeOK, Threads
<1>3. view[p].length \in Nat /\ view[c].length \in Nat
  BY <1>2 DEF Views
<1>4. /\ view[p].start = BackStart(dfb) /\ view[p].length <= dfb.reserved
      /\ view[c].start = dfb.head /\ view[c].length <= dfb.visible
  BY DEF IInv, ReadWindows, WriteWindows, FrontStart
<1>5. SpanSlot(dfb, view[p].start, i) = Slot(Slot(dfb.head, dfb.visible), i)
  BY <1>1, <1>4, Zenon DEF SpanSlot, BackStart, Slot
<1>6. SpanSlot(dfb, view[c].start, j) = Slot(dfb.head, j)
  BY <1>1, <1>4, Zenon DEF SpanSlot, Slot
<1>7. /\ i \in 0 .. Cap /\ dfb.visible + i <= Cap /\ dfb.visible + i \in 0 .. Cap - 1
      /\ j \in 0 .. Cap - 1 /\ j < dfb.visible
  BY <1>1, <1>3, <1>4
<1>8. Slot(dfb.head, dfb.visible + i) = Slot(dfb.head, j)
  <2>1. Slot(Slot(dfb.head, dfb.visible), i) = Slot(dfb.head, dfb.visible + i)
    BY <1>1, <1>7, SlotShift
  <2> QED BY <1>5, <1>6, <2>1
<1>9. dfb.visible + i = j
  BY <1>1, <1>7, <1>8, SlotInjective
<1> QED BY <1>1, <1>7, <1>9

\* WindowsDisjoint for every capacity: no block being written shares a slot
\* with a block being read.
THEOREM DisjointWindows == Spec => []WindowsDisjoint
BY RingInvariant, WindowsApart, PTL

\* What Write does to the tiles, seen from the head.
LEMMA WriteTiles ==
  ASSUME IInv, NEW p \in Producers, NEW i \in 0 .. Cap - 1, NEW v \in Values,
         Write(p, i, v)
  PROVE  /\ i < dfb.reserved
         /\ \A k \in 0 .. Cap - 1 : At(dfb', k) = IF k = dfb.visible + i THEN v ELSE At(dfb, k)
<1>1. /\ dfb \in States /\ dfb.visible \in Nat /\ dfb.reserved \in Nat
      /\ dfb.visible + dfb.reserved <= Cap
  BY DEF IInv, TypeOK, States, Occupancy
<1>2. view[p] \in Views /\ i < view[p].length /\ view[p].length <= dfb.reserved
      /\ view[p].start = BackStart(dfb)
  BY DEF Write, IInv, TypeOK, Threads, WriteWindows
<1>3. view[p].length \in Nat
  BY <1>2 DEF Views
<1>4. i < dfb.reserved /\ dfb.visible + i < Cap
  BY <1>1, <1>2, <1>3
<1>5. dfb' = WriteSlot(dfb, BackStart(dfb), i, v)
  BY <1>2 DEF Write
<1> QED BY <1>1, <1>4, <1>5, AtWrite

\* No step changes a slot of a block that its consumer keeps.
LEMMA SlotsStable ==
  ASSUME IInv, Next, NEW c \in Consumers, view[c] # None, view'[c] = view[c],
         NEW i \in 0 .. view[c].length - 1
  PROVE  dfb'.buf[SpanSlot(dfb, view[c].start, i)] = dfb.buf[SpanSlot(dfb, view[c].start, i)]
<1>1. /\ dfb \in States /\ dfb.head \in 0 .. Cap - 1 /\ dfb.visible \in 0 .. Cap
      /\ dfb.cap = Cap /\ view[c] \in Views /\ c \in Threads
  BY DEF IInv, TypeOK, States, Threads
<1>2. view[c].length \in Nat
  BY <1>1 DEF Views
<1>3. view[c].start = dfb.head /\ i \in 0 .. Cap - 1 /\ i < dfb.visible
      /\ dfb.consumer_waiting = c
  BY <1>1, <1>2 DEF IInv, ReadWindows, FrontStart
<1>4. SpanSlot(dfb, view[c].start, i) = Slot(dfb.head, i)
  BY <1>1, <1>3, Zenon DEF SpanSlot, Slot
<1>5. CASE dfb'.buf = dfb.buf
  BY <1>5
<1>6. ASSUME NEW p \in Producers, NEW j \in 0 .. Cap - 1, NEW v \in Values, Write(p, j, v)
      PROVE  dfb'.buf[Slot(dfb.head, i)] = dfb.buf[Slot(dfb.head, i)]
  <2>1. At(dfb', i) = At(dfb, i)
    BY <1>1, <1>3, <1>6, WriteTiles
  <2>2. dfb'.head = dfb.head
    BY <1>6 DEF Write, WriteSlot, IInv, TypeOK, States
  <2> QED BY <2>1, <2>2 DEF At
<1>7. ASSUME NEW d \in Consumers, NEW n \in Sizes, Pop(d, n)
      PROVE  FALSE
  BY <1>1, <1>3, <1>7 DEF Pop, IInv, TypeOK
<1>8. CASE HostReset
  BY <1>1, <1>8 DEF HostReset
<1>9. ASSUME NEW d \in Consumers, NEW n \in Sizes, WaitFront(d, n) \/ WaitNotCumulative(d, n)
      PROVE  dfb'.buf = dfb.buf
  BY <1>1, <1>9 DEF WaitFront, WaitNotCumulative, WaitBegun, WaitRejected, WaitDone, States
<1>10. ASSUME NEW p \in Producers, NEW n \in Sizes, ReserveBack(p, n) \/ Push(p, n)
       PROVE  dfb'.buf = dfb.buf
  BY <1>1, <1>10 DEF ReserveBack, Push, ReserveBegun, ReserveDone, PushBack, States
<1>11. ASSUME NEW d \in Consumers, WaitResumes(d) \/ GetReadPtr(d)
       PROVE  dfb'.buf = dfb.buf
  BY <1>1, <1>11 DEF WaitResumes, GetReadPtr, WaitDone, States
<1>12. ASSUME NEW p \in Producers, ReserveResumes(p) \/ GetWritePtr(p)
       PROVE  dfb'.buf = dfb.buf
  BY <1>1, <1>12 DEF ReserveResumes, GetWritePtr, ReserveDone, States
<1>13. CASE \E t \in Threads : TimesOut(t)
  BY <1>13 DEF TimesOut
<1> QED
  BY <1>4, <1>5, <1>6, <1>7, <1>8, <1>9, <1>10, <1>11, <1>12, <1>13 DEF Next

\* HeldTilesStable for every capacity: a consumer's block keeps its content
\* while it is held, whatever every other thread does.
THEOREM StableWindows == Spec => HeldTilesStable
<1>1. IInv /\ [Next]_vars =>
        [\A c \in Consumers : view[c] # None /\ view'[c] = view[c] =>
           \A i \in 0 .. view[c].length - 1 :
             dfb'.buf[SpanSlot(dfb, view[c].start, i)]
               = dfb.buf[SpanSlot(dfb, view[c].start, i)]]_vars
  BY SlotsStable
<1> QED BY <1>1, RingInvariant, PTL DEF Spec, HeldTilesStable

-----------------------------------------------------------------------------
(* Visible tiles are filled.                                               *)

\* The tiles a span of n slots from `start` covers, seen from the head.
LEMMA FilledAt ==
  ASSUME NEW s \in States, NEW j \in 0 .. Cap, NEW n \in 0 .. Cap, j + n <= Cap,
         NEW start, start = Slot(s.head, j)
  PROVE  (\A i \in SpanSlots(s, start, n) : s.buf[i] # None)
           <=> (\A k \in 0 .. n - 1 : At(s, j + k) # None)
<1>1. s.head \in 0 .. Cap - 1 /\ s.cap = Cap
  BY DEF States
<1>2. ASSUME NEW k \in 0 .. n - 1
      PROVE  SpanSlot(s, start, k) = Slot(s.head, j + k)
  <2>1. k \in 0 .. Cap /\ j + k <= Cap
    OBVIOUS
  <2>2. SpanSlot(s, start, k) = Slot(Slot(s.head, j), k)
    BY <1>1, Zenon DEF SpanSlot, Slot
  <2> QED BY <1>1, <2>1, <2>2, SlotShift
<1> QED BY <1>2 DEF SpanSlots, At

\* TilesFilled, seen from the head.
LEMMA FilledTiles ==
  ASSUME NEW s \in States
  PROVE  (\A i \in SpanSlots(s, FrontStart(s), s.visible) : s.buf[i] # None)
           <=> \A k \in 0 .. s.visible - 1 : At(s, k) # None
<1>1. s.head \in 0 .. Cap - 1 /\ s.visible \in 0 .. Cap
  BY DEF States
<1>2. FrontStart(s) = Slot(s.head, 0)
  BY <1>1, SlotOnce DEF FrontStart
<1>3. (\A i \in SpanSlots(s, FrontStart(s), s.visible) : s.buf[i] # None)
        <=> (\A k \in 0 .. s.visible - 1 : At(s, 0 + k) # None)
  BY <1>1, <1>2, FilledAt
<1>4. \A k \in 0 .. s.visible - 1 : 0 + k = k
  OBVIOUS
<1> QED BY <1>3, <1>4

\* Steps that move no tile.
LEMMA FilledSame ==
  ASSUME TilesFilled, dfb \in States, dfb' \in States, SameTiles(dfb', dfb)
  PROVE  TilesFilled'
BY DEF TilesFilled, SpanSlots, SpanSlot, FrontStart, SameTiles

\* A push of filled tiles leaves all visible tiles filled.
LEMMA FilledPush ==
  ASSUME IInv, IInv', TilesFilled, NEW p \in Producers, NEW n \in Sizes, Push(p, n)
  PROVE  TilesFilled'
<1>1. /\ dfb \in States /\ dfb' \in States
      /\ dfb.visible \in 0 .. Cap /\ dfb.reserved \in Nat /\ dfb.visible + dfb.reserved <= Cap
      /\ dfb.head \in 0 .. Cap - 1 /\ dfb.cap = Cap
  BY DEF IInv, TypeOK, States, Occupancy
<1>2. n \in 1 .. dfb.reserved
  <2>1. n <= dfb.reserved
    BY Zenon DEF Push, PushAllowed
  <2> QED BY <1>1, <2>1
<1>3. dfb'.visible = dfb.visible + n /\ dfb'.buf = dfb.buf /\ dfb'.head = dfb.head
  BY <1>1, <1>2, PushBackEffect DEF Push
<1>4. BackStart(dfb) = Slot(dfb.head, dfb.visible)
  BY <1>1, Zenon DEF BackStart, Slot
<1>5. n \in 0 .. Cap /\ dfb.visible + n <= Cap
  BY <1>1, <1>2
<1>6. \A i \in SpanSlots(dfb, BackStart(dfb), n) : dfb.buf[i] # None
  BY DEF Push, Pushed
<1>7. \A k \in 0 .. n - 1 : At(dfb, dfb.visible + k) # None
  BY <1>1, <1>4, <1>5, <1>6, FilledAt
<1>8. \A k \in 0 .. dfb.visible - 1 : At(dfb, k) # None
  BY <1>1, FilledTiles DEF TilesFilled
<1>9. ASSUME NEW k \in 0 .. dfb'.visible - 1
      PROVE  At(dfb', k) # None
  <2>1. At(dfb', k) = At(dfb, k)
    BY <1>3, AtSame
  <2>2. CASE k < dfb.visible
    BY <1>1, <1>8, <2>1, <2>2
  <2>3. CASE k >= dfb.visible
    <3>1. k - dfb.visible \in 0 .. n - 1 /\ dfb.visible + (k - dfb.visible) = k
      BY <1>1, <1>2, <1>3, <2>3
    <3> QED BY <1>7, <2>1, <3>1
  <2> QED BY <1>1, <2>2, <2>3
<1> QED BY <1>1, <1>9, FilledTiles DEF TilesFilled

\* A pop leaves the tiles behind the ones it removes filled.
LEMMA FilledPop ==
  ASSUME IInv, IInv', TilesFilled, NEW c \in Consumers, NEW n \in Sizes, Pop(c, n)
  PROVE  TilesFilled'
<1>1. dfb \in States /\ dfb' \in States /\ dfb.visible \in 0 .. Cap
  BY DEF IInv, TypeOK, States
<1>2. n \in 1 .. dfb.visible
  <2>1. n <= dfb.visible
    BY Zenon DEF Pop, PopAllowed
  <2> QED BY <1>1, <2>1
<1>3. dfb' = PopFront(dfb, n) /\ dfb'.visible = dfb.visible - n
  BY <1>1, <1>2, PopFrontEffect DEF Pop
<1>4. \A k \in 0 .. dfb.visible - 1 : At(dfb, k) # None
  BY <1>1, FilledTiles DEF TilesFilled
<1>5. ASSUME NEW k \in 0 .. dfb'.visible - 1
      PROVE  At(dfb', k) # None
  <2>1. k + n \in n .. Cap - 1 /\ k + n - n = k /\ k + n \in 0 .. dfb.visible - 1
    BY <1>1, <1>2, <1>3
  <2>2. At(PopFront(dfb, n), k + n - n) = At(dfb, k + n)
    BY <1>1, <1>2, <2>1, AtPop
  <2> QED BY <1>3, <1>4, <2>1, <2>2
<1> QED BY <1>1, <1>5, FilledTiles DEF TilesFilled

\* A write, which puts a value and never None, leaves visible tiles filled.
LEMMA FilledWrite ==
  ASSUME IInv, IInv', TilesFilled, NEW p \in Producers, NEW i \in 0 .. Cap - 1,
         NEW v \in Values, Write(p, i, v)
  PROVE  TilesFilled'
<1>1. dfb \in States /\ dfb' \in States /\ dfb.visible \in 0 .. Cap
  BY DEF IInv, TypeOK, States
<1>2. dfb'.visible = dfb.visible
  BY <1>1 DEF Write, WriteSlot, States
<1>3. \A k \in 0 .. dfb.visible - 1 : At(dfb, k) # None
  BY <1>1, FilledTiles DEF TilesFilled
<1>4. ASSUME NEW k \in 0 .. dfb'.visible - 1
      PROVE  At(dfb', k) # None
  <2>1. k \in 0 .. Cap - 1 /\ At(dfb, k) # None
    BY <1>1, <1>2, <1>3
  <2> QED BY <2>1, WriteTiles
<1> QED BY <1>1, <1>4, FilledTiles DEF TilesFilled

-----------------------------------------------------------------------------
(* The ring implements the staged FIFO.                                    *)

\* An empty ring is an empty queue.
LEMMA InitRefines == Init => Fifo!Init
<1> SUFFICES ASSUME Init PROVE Fifo!Init
  OBVIOUS
<1>1. dfb.visible = 0 /\ dfb.reserved = 0
  BY DEF Init, Configured
<1>2. VisibleTiles(dfb) = <<>> /\ ReservedTiles(dfb) = <<>>
  BY <1>1 DEF VisibleTiles, ReservedTiles
<1> QED BY <1>2 DEF Fifo!Init

\* A step that moves no tile and no reservation is a stutter of the FIFO.
LEMMA QuietStep ==
  ASSUME SameTiles(dfb', dfb), dfb'.reserved = dfb.reserved
  PROVE  UNCHANGED Fifo!vars
<1>1. VisibleTiles(dfb)' = VisibleTiles(dfb)
  BY DEF VisibleTiles, SameTiles
<1>2. ReservedTiles(dfb)' = ReservedTiles(dfb)
  BY DEF ReservedTiles, SameTiles
<1> QED BY <1>1, <1>2 DEF Fifo!vars

\* A reservation that is served stages tiles behind the staged ones.
LEMMA StageStep ==
  ASSUME IInv, IInv', SameTiles(dfb', dfb), dfb'.reserved >= dfb.reserved
  PROVE  Fifo!Stage
<1>1. /\ dfb \in States /\ dfb' \in States
      /\ dfb.visible + dfb.reserved <= Cap /\ dfb'.visible + dfb'.reserved <= Cap
      /\ dfb.visible \in Nat /\ dfb.reserved \in Nat /\ dfb'.reserved \in Nat
  BY DEF IInv, TypeOK, States, Occupancy
<1>2. VisibleTiles(dfb)' = VisibleTiles(dfb)
  BY DEF VisibleTiles, SameTiles
<1>3. /\ Len(VisibleTiles(dfb)) = dfb.visible /\ Len(ReservedTiles(dfb)) = dfb.reserved
      /\ Len(ReservedTiles(dfb')) = dfb'.reserved /\ ReservedTiles(dfb') \in Seq(Elems)
      /\ \A i \in 1 .. dfb.reserved : ReservedTiles(dfb)[i] = At(dfb, dfb.visible + (i - 1))
      /\ \A i \in 1 .. dfb'.reserved : ReservedTiles(dfb')[i] = At(dfb', dfb'.visible + (i - 1))
  BY <1>1, TilesAt
<1>4. \A i \in 1 .. dfb.reserved : ReservedTiles(dfb')[i] = ReservedTiles(dfb)[i]
  BY <1>1, <1>3, AtSame DEF SameTiles
<1>5. dfb'.visible = dfb.visible
  BY DEF SameTiles
<1> QED BY <1>1, <1>2, <1>3, <1>4, <1>5 DEF Fifo!Stage, Elems

\* A write is a Fill of the abstract staging area.
LEMMA FillStep ==
  ASSUME IInv, IInv', NEW p \in Producers, NEW i \in 0 .. Cap - 1, NEW v \in Values,
         Write(p, i, v)
  PROVE  Fifo!Fill
<1>1. /\ dfb \in States /\ dfb' \in States /\ dfb.visible + dfb.reserved <= Cap
      /\ dfb.visible \in Nat /\ dfb.reserved \in Nat
  BY DEF IInv, TypeOK, States, Occupancy
<1>2. dfb'.visible = dfb.visible /\ dfb'.reserved = dfb.reserved
  BY <1>1 DEF Write, WriteSlot, States
<1>3. /\ VisibleTiles(dfb) \in Seq(Elems) /\ VisibleTiles(dfb') \in Seq(Elems)
      /\ ReservedTiles(dfb) \in Seq(Elems) /\ ReservedTiles(dfb') \in Seq(Elems)
      /\ Len(VisibleTiles(dfb)) = dfb.visible /\ Len(VisibleTiles(dfb')) = dfb.visible
      /\ Len(ReservedTiles(dfb)) = dfb.reserved /\ Len(ReservedTiles(dfb')) = dfb.reserved
  BY <1>1, <1>2, TilesAt
<1>4. i < dfb.reserved
  BY WriteTiles
<1>5. \A k \in 1 .. dfb.visible : VisibleTiles(dfb')[k] = VisibleTiles(dfb)[k]
  <2> TAKE k \in 1 .. dfb.visible
  <2>1. k - 1 \in 0 .. Cap - 1 /\ k - 1 # dfb.visible + i
    BY <1>1
  <2>2. At(dfb', k - 1) = At(dfb, k - 1)
    BY <2>1, WriteTiles
  <2> QED BY <1>1, <1>2, <2>2, TilesAt
<1>6. \A k \in 1 .. dfb.reserved :
        ReservedTiles(dfb')[k] = IF k = i + 1 THEN v ELSE ReservedTiles(dfb)[k]
  <2> TAKE k \in 1 .. dfb.reserved
  <2>1. dfb.visible + (k - 1) \in 0 .. Cap - 1
    BY <1>1
  <2>2. At(dfb', dfb.visible + (k - 1))
          = IF dfb.visible + (k - 1) = dfb.visible + i THEN v ELSE At(dfb, dfb.visible + (k - 1))
    BY <2>1, WriteTiles
  <2>3. dfb.visible + (k - 1) = dfb.visible + i <=> k = i + 1
    BY <1>1
  <2> QED BY <1>1, <1>2, <2>2, <2>3, TilesAt
<1>7. VisibleTiles(dfb') = VisibleTiles(dfb)
  BY <1>3, <1>5, SeqEqual
<1>8. ReservedTiles(dfb') = [ReservedTiles(dfb) EXCEPT ![i + 1] = v]
  <2>1. i + 1 \in 1 .. Len(ReservedTiles(dfb)) /\ v \in Elems
    BY <1>1, <1>3, <1>4 DEF Elems
  <2>2. /\ [ReservedTiles(dfb) EXCEPT ![i + 1] = v] \in Seq(Elems)
        /\ Len([ReservedTiles(dfb) EXCEPT ![i + 1] = v]) = Len(ReservedTiles(dfb))
        /\ \A j \in 1 .. Len(ReservedTiles(dfb)) :
             [ReservedTiles(dfb) EXCEPT ![i + 1] = v][j]
               = IF j = i + 1 THEN v ELSE ReservedTiles(dfb)[j]
    BY <1>3, <2>1, ExceptSeq
  <2> DEFINE filled == [ReservedTiles(dfb) EXCEPT ![i + 1] = v]
  <2>3. /\ filled \in Seq(Elems) /\ Len(filled) = dfb.reserved
        /\ \A j \in 1 .. dfb.reserved :
             filled[j] = IF j = i + 1 THEN v ELSE ReservedTiles(dfb)[j]
    BY <1>3, <2>2, Zenon
  <2> HIDE DEF filled
  <2>4. \A j \in 1 .. dfb.reserved : ReservedTiles(dfb')[j] = filled[j]
    BY <1>6, <2>3, Zenon
  <2>5. ReservedTiles(dfb') = filled
    BY <1>3, <2>3, <2>4, SeqEqual
  <2> QED BY <2>5 DEF filled
<1>9. i + 1 \in 1 .. Len(ReservedTiles(dfb)) /\ v \in Elems
  BY <1>1, <1>3, <1>4 DEF Elems
<1> QED BY <1>7, <1>8, <1>9 DEF Fifo!Fill, Elems

\* A push is a Publish: the oldest reserved tiles go behind the visible ones.
LEMMA PublishStep ==
  ASSUME IInv, IInv', NEW p \in Producers, NEW n \in Sizes, Push(p, n)
  PROVE  Fifo!Publish
<1> DEFINE q == VisibleTiles(dfb)    r == ReservedTiles(dfb)
           q2 == VisibleTiles(dfb')  r2 == ReservedTiles(dfb')
           front == SubSeq(r, 1, n)
           back  == SubSeq(r, n + 1, Len(r))
<1>1. /\ dfb \in States /\ dfb' \in States
      /\ dfb.visible \in Nat /\ dfb.reserved \in Nat /\ dfb.visible + dfb.reserved <= Cap
      /\ dfb'.visible + dfb'.reserved <= Cap
  BY DEF IInv, TypeOK, States, Occupancy
<1>2. n \in 1 .. dfb.reserved
  <2>1. n <= dfb.reserved
    BY Zenon DEF Push, PushAllowed
  <2> QED BY <1>1, <2>1
<1>3. /\ dfb'.visible = dfb.visible + n /\ dfb'.reserved = dfb.reserved - n
      /\ dfb'.buf = dfb.buf /\ dfb'.head = dfb.head
  BY <1>1, <1>2, PushBackEffect DEF Push
<1>4. /\ q \in Seq(Elems) /\ r \in Seq(Elems)
      /\ Len(q) = dfb.visible /\ Len(r) = dfb.reserved
      /\ \A i \in 1 .. dfb.visible : q[i] = At(dfb, i - 1)
      /\ \A i \in 1 .. dfb.reserved : r[i] = At(dfb, dfb.visible + (i - 1))
  BY <1>1, TilesAt
<1>5. /\ q2 \in Seq(Elems) /\ r2 \in Seq(Elems)
      /\ Len(q2) = dfb.visible + n /\ Len(r2) = dfb.reserved - n
      /\ \A i \in 1 .. dfb.visible + n : q2[i] = At(dfb', i - 1)
      /\ \A i \in 1 .. dfb.reserved - n : r2[i] = At(dfb', dfb.visible + n + (i - 1))
  BY <1>1, <1>3, TilesAt
<1>6. \A k \in Int : At(dfb', k) = At(dfb, k)
  BY <1>3, AtSame
<1> HIDE DEF q, r, q2, r2
<1>7. \A i \in 1 .. dfb.reserved : r[i] \in Elems
  BY <1>4, ElementOfSeq
<1>8. /\ front \in Seq(Elems) /\ Len(front) = n
      /\ \A i \in 1 .. n : front[i] = r[i]
  <2>1. \A i \in 1 .. n : r[i] \in Elems
    BY <1>1, <1>2, <1>7
  <2>2. /\ front \in Seq(Elems)
        /\ Len(front) = IF 1 <= n THEN n - 1 + 1 ELSE 0
        /\ \A i \in 1 .. n - 1 + 1 : front[i] = r[1 + i - 1]
    BY <1>2, <2>1, SubSeqProperties
  <2> QED BY <1>2, <2>2
<1>9. /\ back \in Seq(Elems) /\ Len(back) = dfb.reserved - n
      /\ \A i \in 1 .. dfb.reserved - n : back[i] = r[n + i]
  <2>1. \A i \in n + 1 .. Len(r) : r[i] \in Elems
    BY <1>1, <1>2, <1>4, <1>7
  <2>2. /\ back \in Seq(Elems)
        /\ Len(back) = IF n + 1 <= Len(r) THEN Len(r) - (n + 1) + 1 ELSE 0
        /\ \A i \in 1 .. Len(r) - (n + 1) + 1 : back[i] = r[n + 1 + i - 1]
    BY <1>1, <1>2, <1>4, <2>1, SubSeqProperties
  <2>3. \A i \in 1 .. dfb.reserved - n : n + 1 + i - 1 = n + i
    BY <1>1, <1>2
  <2> QED BY <1>1, <1>2, <1>4, <2>2, <2>3
<1> HIDE DEF front, back
<1>10. /\ q \o front \in Seq(Elems) /\ Len(q \o front) = dfb.visible + n
       /\ \A i \in 1 .. dfb.visible + n : (q \o front)[i] =
            IF i <= dfb.visible THEN q[i] ELSE front[i - dfb.visible]
  <2>1. /\ q \o front \in Seq(Elems) /\ Len(q \o front) = Len(q) + Len(front)
        /\ \A i \in 1 .. Len(q) + Len(front) : (q \o front)[i] =
             IF i <= Len(q) THEN q[i] ELSE front[i - Len(q)]
    <3>1. q \in Seq(Elems) /\ front \in Seq(Elems)
      BY <1>4, <1>8
    <3> QED BY <3>1, ConcatProperties
  <2> QED BY <1>4, <1>8, <2>1
<1>11. q2 = q \o front
  <2>1. \A i \in 1 .. dfb.visible + n : q2[i] = (q \o front)[i]
    <3> TAKE i \in 1 .. dfb.visible + n
    <3>1. q2[i] = At(dfb, i - 1)
      <4>1. q2[i] = At(dfb', i - 1)
        BY <1>5, Zenon
      <4>2. i - 1 \in Int
        BY <1>1, <1>2
      <4> QED BY <1>6, <4>1, <4>2, Zenon
    <3>2. CASE i <= dfb.visible
      BY <1>1, <1>2, <1>4, <1>10, <3>1, <3>2
    <3>3. CASE i > dfb.visible
      <4> DEFINE k == i - dfb.visible
      <4>1. k \in 1 .. n /\ k \in 1 .. dfb.reserved /\ dfb.visible + (k - 1) = i - 1
        BY <1>1, <1>2, <3>3
      <4> HIDE DEF k
      <4>2. front[k] = At(dfb, dfb.visible + (k - 1))
        <5>1. front[k] = r[k]
          BY <1>8, <4>1, Zenon
        <5>2. r[k] = At(dfb, dfb.visible + (k - 1))
          BY <1>4, <4>1, Zenon
        <5> QED BY <5>1, <5>2, Zenon
      <4>3. At(dfb, dfb.visible + (k - 1)) = At(dfb, i - 1)
        BY <4>1, Zenon
      <4>4. (q \o front)[i] = front[k]
        BY <1>1, <1>2, <1>10, <3>3 DEF k
      <4> QED BY <3>1, <4>2, <4>3, <4>4, Zenon
    <3>4. i <= dfb.visible \/ i > dfb.visible
      BY <1>1, <1>2
    <3> QED BY <3>2, <3>3, <3>4, Zenon
  <2> QED BY <1>5, <1>10, <2>1, SeqEqual
<1>12. r2 = back
  <2>1. \A i \in 1 .. dfb.reserved - n : r2[i] = back[i]
    <3> TAKE i \in 1 .. dfb.reserved - n
    <3> DEFINE k == n + i
    <3>1. back[i] = r[k]
      BY <1>9, Zenon
    <3>2. k \in 1 .. dfb.reserved /\ dfb.visible + (k - 1) = dfb.visible + n + (i - 1)
      BY <1>1, <1>2
    <3> HIDE DEF k
    <3>3. back[i] = At(dfb, dfb.visible + (k - 1))
      BY <1>4, <3>1, <3>2, Zenon
    <3>4. r2[i] = At(dfb', dfb.visible + n + (i - 1))
      BY <1>5, Zenon
    <3>5. dfb.visible + n + (i - 1) \in Int
      BY <1>1, <1>2
    <3>6. At(dfb', dfb.visible + n + (i - 1)) = At(dfb, dfb.visible + n + (i - 1))
      BY <1>6, <3>5, Zenon
    <3> QED BY <3>2, <3>3, <3>4, <3>6, Zenon
  <2> QED BY <1>5, <1>9, <2>1, SeqEqual
<1>13. n \in 1 .. Len(r)
  BY <1>2, <1>4
<1> QED BY <1>11, <1>12, <1>13 DEF Fifo!Publish, q, r, q2, r2, front, back

\* A pop is a Consume: the oldest visible tiles go.
LEMMA ConsumeStep ==
  ASSUME IInv, IInv', NEW c \in Consumers, NEW n \in Sizes, Pop(c, n)
  PROVE  Fifo!Consume
<1> DEFINE q == VisibleTiles(dfb)    r == ReservedTiles(dfb)
           q2 == VisibleTiles(dfb')  r2 == ReservedTiles(dfb')
           back == SubSeq(q, n + 1, Len(q))
<1>1. /\ dfb \in States /\ dfb' \in States
      /\ dfb.visible \in Nat /\ dfb.reserved \in Nat /\ dfb.visible + dfb.reserved <= Cap
      /\ dfb'.visible + dfb'.reserved <= Cap
  BY DEF IInv, TypeOK, States, Occupancy
<1>2. n \in 1 .. dfb.visible
  <2>1. n <= dfb.visible
    BY Zenon DEF Pop, PopAllowed
  <2> QED BY <1>1, <2>1
<1>3. dfb' = PopFront(dfb, n) /\ dfb'.visible = dfb.visible - n /\ dfb'.reserved = dfb.reserved
  BY <1>1, <1>2, PopFrontEffect DEF Pop, SameProducer
<1>4. /\ q \in Seq(Elems) /\ r \in Seq(Elems)
      /\ Len(q) = dfb.visible /\ Len(r) = dfb.reserved
      /\ \A i \in 1 .. dfb.visible : q[i] = At(dfb, i - 1)
      /\ \A i \in 1 .. dfb.reserved : r[i] = At(dfb, dfb.visible + (i - 1))
  BY <1>1, TilesAt
<1>5. /\ q2 \in Seq(Elems) /\ r2 \in Seq(Elems)
      /\ Len(q2) = dfb.visible - n /\ Len(r2) = dfb.reserved
      /\ \A i \in 1 .. dfb.visible - n : q2[i] = At(dfb', i - 1)
      /\ \A i \in 1 .. dfb.reserved : r2[i] = At(dfb', dfb.visible - n + (i - 1))
  BY <1>1, <1>3, TilesAt
<1>6. \A k \in n .. Cap - 1 : At(dfb', k - n) = At(dfb, k)
  BY <1>1, <1>2, <1>3, AtPop
<1> HIDE DEF q, r, q2, r2
<1>7. /\ back \in Seq(Elems) /\ Len(back) = dfb.visible - n
      /\ \A i \in 1 .. dfb.visible - n : back[i] = q[n + i]
  <2>1. \A i \in n + 1 .. Len(q) : q[i] \in Elems
    BY <1>1, <1>2, <1>4, ElementOfSeq
  <2>2. /\ back \in Seq(Elems)
        /\ Len(back) = IF n + 1 <= Len(q) THEN Len(q) - (n + 1) + 1 ELSE 0
        /\ \A i \in 1 .. Len(q) - (n + 1) + 1 : back[i] = q[n + 1 + i - 1]
    BY <1>1, <1>2, <1>4, <2>1, SubSeqProperties
  <2>3. \A i \in 1 .. dfb.visible - n : n + 1 + i - 1 = n + i
    BY <1>1, <1>2
  <2> QED BY <1>1, <1>2, <1>4, <2>2, <2>3
<1> HIDE DEF back
<1>8. q2 = back
  <2>1. \A i \in 1 .. dfb.visible - n : q2[i] = back[i]
    <3> TAKE i \in 1 .. dfb.visible - n
    <3>1. n + i - 1 \in n .. Cap - 1 /\ n + i - 1 - n = i - 1 /\ n + i \in 1 .. dfb.visible
      BY <1>1, <1>2
    <3>2. At(dfb', i - 1) = At(dfb, n + i - 1)
      BY <1>6, <3>1
    <3> QED BY <1>1, <1>2, <1>4, <1>5, <1>7, <3>1, <3>2
  <2> QED BY <1>5, <1>7, <2>1, SeqEqual
<1>9. r2 = r
  <2>1. \A i \in 1 .. dfb.reserved : r2[i] = r[i]
    <3> TAKE i \in 1 .. dfb.reserved
    <3> DEFINE k == dfb.visible + (i - 1)
               j == dfb.visible - n + (i - 1)
    <3>1. k \in n .. Cap - 1 /\ k - n = j
      BY <1>1, <1>2
    <3>2. r2[i] = At(dfb', j)
      BY <1>5, Zenon
    <3>3. r[i] = At(dfb, k)
      BY <1>4, Zenon
    <3> HIDE DEF k, j
    <3>4. At(dfb', k - n) = At(dfb, k)
      BY <1>6, <3>1
    <3> QED BY <3>1, <3>2, <3>3, <3>4
  <2> QED BY <1>4, <1>5, <2>1, SeqEqual
<1>10. n \in 1 .. Len(q)
  BY <1>2, <1>4
<1> QED BY <1>8, <1>9, <1>10 DEF Fifo!Consume, q, r, q2, r2, back

\* A reset is a Clear.
LEMMA ClearStep ==
  ASSUME IInv, HostReset
  PROVE  Fifo!Clear
<1>1. dfb'.visible = 0 /\ dfb'.reserved = 0
  BY ResetStateEffect DEF IInv, TypeOK, HostReset
<1>2. VisibleTiles(dfb') = <<>> /\ ReservedTiles(dfb') = <<>>
  BY <1>1 DEF VisibleTiles, ReservedTiles
<1> QED BY <1>2 DEF Fifo!Clear

\* The steps of the callers that move no tile.
LEMMA QuietTiles ==
  ASSUME IInv,
         \/ \E c \in Consumers, n \in Sizes : WaitFront(c, n) \/ WaitNotCumulative(c, n)
         \/ \E c \in Consumers : WaitResumes(c) \/ GetReadPtr(c)
         \/ \E p \in Producers : GetWritePtr(p)
         \/ \E t \in Threads : TimesOut(t)
  PROVE  SameTiles(dfb', dfb) /\ dfb'.reserved = dfb.reserved
<1>1. dfb \in States
  BY DEF IInv, TypeOK
<1>2. SameTiles(dfb', dfb) /\ dfb'.reserved = dfb.reserved
  <2>1. CASE UNCHANGED dfb
    BY <2>1 DEF SameTiles
  <2>2. ASSUME NEW c \in Consumers, NEW n \in Sizes, WaitFront(c, n)
        PROVE  SameTiles(dfb', dfb) /\ dfb'.reserved = dfb.reserved
    BY <1>1, <2>2 DEF WaitFront, WaitBegun, WaitDone, States, SameTiles
  <2>3. ASSUME NEW c \in Consumers, NEW n \in Sizes, WaitNotCumulative(c, n)
        PROVE  SameTiles(dfb', dfb) /\ dfb'.reserved = dfb.reserved
    BY <1>1, <2>3 DEF WaitNotCumulative, WaitRejected, States, SameTiles
  <2>4. ASSUME NEW c \in Consumers, WaitResumes(c)
        PROVE  SameTiles(dfb', dfb) /\ dfb'.reserved = dfb.reserved
    BY <1>1, <2>4 DEF WaitResumes, WaitDone, States, SameTiles
  <2> QED BY <2>1, <2>2, <2>3, <2>4 DEF GetReadPtr, GetWritePtr, TimesOut
<1> QED BY <1>2

\* A reservation only ever adds reserved tiles, behind those there are.
LEMMA ReserveTiles ==
  ASSUME IInv, IInv', NEW p \in Producers,
         (\E n \in Sizes : ReserveBack(p, n)) \/ ReserveResumes(p)
  PROVE  SameTiles(dfb', dfb) /\ dfb'.reserved >= dfb.reserved
<1>1. dfb \in States /\ p \in Threads /\ p \notin Consumers
  BY DEF IInv, TypeOK, Threads
<1>2. SameTiles(dfb', dfb) /\ dfb'.reserved >= dfb.reserved
  <2>1. ASSUME NEW n \in Sizes, ReserveBack(p, n)
        PROVE  SameTiles(dfb', dfb) /\ dfb'.reserved >= dfb.reserved
    <3>1. n \in 0 .. Cap /\ n >= dfb.reserved /\ dfb.reserved \in Nat
      BY <1>1, <2>1 DEF ReserveBack, ValidTiles, ReserveGrows, States
    <3> DEFINE begun == ReserveBegun(dfb, p)
    <3>2. begun \in States /\ begun.reserved = dfb.reserved /\ SameTiles(begun, dfb)
      BY <1>1, ReserveBegunEffect
    <3>3. dfb' = ReserveDone(begun, n) \/ dfb' = begun
      BY <2>1 DEF ReserveBack
    <3> HIDE DEF begun
    <3>4. CASE dfb' = ReserveDone(begun, n)
      BY <3>1, <3>2, <3>4, ReserveDoneEffect DEF SameTiles
    <3>5. CASE dfb' = begun
      BY <3>1, <3>2, <3>5
    <3> QED BY <3>3, <3>4, <3>5
  <2>2. CASE ReserveResumes(p)
    <3>1. /\ call[p].tiles \in 0 .. Cap /\ call[p].tiles >= dfb.reserved
          /\ dfb' = ReserveDone(dfb, call[p].tiles)
      <4>1. /\ call[p].tiles \in Nat /\ dfb.reserved \in Nat /\ dfb.visible \in Nat
            /\ dfb.cap = Cap
        <5>1. call[p] \in Calls
          BY <1>1, <2>2 DEF IInv, TypeOK, ReserveResumes, Idle
        <5>2. call[p].tiles \in Sizes
          BY <5>1 DEF Calls
        <5>3. call[p].tiles \in Nat
          BY <5>2
        <5> QED BY <1>1, <5>3 DEF States
      <4>2. call[p].tiles >= dfb.reserved
        BY <1>1, <2>2 DEF IInv, SleepersRecorded, ReserveResumes
      <4> QED BY <2>2, <4>1, <4>2 DEF ReserveResumes, ReserveReady, Free
    <3> QED BY <1>1, <3>1, ReserveDoneEffect
  <2> QED BY <2>1, <2>2
<1> QED BY <1>2

\* No step makes an empty tile visible.
LEMMA FilledStep == IInv /\ IInv' /\ TilesFilled /\ [Next]_vars => TilesFilled'
<1> SUFFICES ASSUME IInv, IInv', TilesFilled, [Next]_vars
             PROVE  TilesFilled'
  OBVIOUS
<1>0. dfb \in States /\ dfb' \in States
  BY DEF IInv, TypeOK
<1>1. CASE UNCHANGED vars
  BY <1>0, <1>1, FilledSame DEF vars, SameTiles
<1>2. CASE \/ \E c \in Consumers, n \in Sizes : WaitFront(c, n) \/ WaitNotCumulative(c, n)
           \/ \E c \in Consumers : WaitResumes(c) \/ GetReadPtr(c)
           \/ \E p \in Producers : GetWritePtr(p)
           \/ \E t \in Threads : TimesOut(t)
  BY <1>0, <1>2, QuietTiles, FilledSame
<1>3. CASE \E p \in Producers : (\E n \in Sizes : ReserveBack(p, n)) \/ ReserveResumes(p)
  BY <1>0, <1>3, ReserveTiles, FilledSame
<1>4. CASE \E p \in Producers, i \in 0 .. Cap - 1, v \in Values : Write(p, i, v)
  BY <1>4, FilledWrite
<1>5. CASE \E p \in Producers, n \in Sizes : Push(p, n)
  BY <1>5, FilledPush
<1>6. CASE \E c \in Consumers, n \in Sizes : Pop(c, n)
  BY <1>6, FilledPop
<1>7. CASE HostReset
  <2>1. dfb'.visible = 0
    BY <1>0, <1>7, ResetStateEffect DEF HostReset
  <2> QED BY <1>0, <2>1, FilledTiles DEF TilesFilled
<1> QED BY <1>1, <1>2, <1>3, <1>4, <1>5, <1>6, <1>7 DEF Next

\* TilesFilled for every capacity: as long as producers fill what they push, no
\* pop ever raises on an empty slot, however the buffer wraps.
THEOREM PopsFindTiles == Spec => []TilesFilled
<1>1. Init => TilesFilled
  <2> SUFFICES ASSUME Init PROVE TilesFilled
    OBVIOUS
  <2>1. dfb \in States /\ dfb.visible = 0
    BY InitIInv DEF Init, Configured, IInv, TypeOK
  <2> QED BY <2>1, FilledTiles DEF TilesFilled
<1> QED BY <1>1, FilledStep, RingInvariant, PTL DEF Spec

\* Every step of the ring is a step of the abstract FIFO, or none.
LEMMA NextRefines == IInv /\ IInv' /\ [Next]_vars => [Fifo!Next]_(Fifo!vars)
<1> SUFFICES ASSUME IInv, IInv', [Next]_vars
             PROVE  Fifo!Next \/ UNCHANGED Fifo!vars
  OBVIOUS
<1>1. CASE UNCHANGED vars
  BY <1>1, QuietStep DEF vars, SameTiles
<1>2. CASE \/ \E c \in Consumers, n \in Sizes : WaitFront(c, n) \/ WaitNotCumulative(c, n)
           \/ \E c \in Consumers : WaitResumes(c) \/ GetReadPtr(c)
           \/ \E p \in Producers : GetWritePtr(p)
           \/ \E t \in Threads : TimesOut(t)
  BY <1>2, QuietTiles, QuietStep
<1>3. CASE \E p \in Producers : (\E n \in Sizes : ReserveBack(p, n)) \/ ReserveResumes(p)
  BY <1>3, ReserveTiles, StageStep DEF Fifo!Next
<1>4. CASE \E p \in Producers, i \in 0 .. Cap - 1, v \in Values : Write(p, i, v)
  BY <1>4, FillStep DEF Fifo!Next
<1>5. CASE \E p \in Producers, n \in Sizes : Push(p, n)
  BY <1>5, PublishStep DEF Fifo!Next
<1>6. CASE \E c \in Consumers, n \in Sizes : Pop(c, n)
  BY <1>6, ConsumeStep DEF Fifo!Next
<1>7. CASE HostReset
  BY <1>7, ClearStep DEF Fifo!Next
<1> QED BY <1>1, <1>2, <1>3, <1>4, <1>5, <1>6, <1>7 DEF Next

\* ImplementsFifo for every capacity: seen from outside, the ring, its modular
\* indices and its locks are a bounded first-in first-out queue of tiles.
THEOREM RingImplementsFifo == Spec => ImplementsFifo
<1>1. Init => Fifo!Init
  BY InitRefines
<1>2. IInv /\ IInv' /\ [Next]_vars => [Fifo!Next]_(Fifo!vars)
  BY NextRefines
<1> QED BY <1>1, <1>2, RingInvariant, PTL DEF Spec, ImplementsFifo, Fifo!Spec
=============================================================================
