-------------------------- MODULE SimKernel_proofs --------------------------
(***************************************************************************)
(* Theorems about SimKernel, for any number of threads and buffers of any  *)
(* size.  The parts:                                                       *)
(*                                                                         *)
(*  - the states a block can get to (KnownStates) and what each expects,   *)
(*    from the transition tables of BlockState;                            *)
(*  - the ring: windows at its front and its back, which slots they have,  *)
(*    and that writing, pushing and popping keep the tiles written;        *)
(*  - the invariant.  What the runs check is not inductive: that a resumed *)
(*    thread is served needs that nobody else takes the tiles it was       *)
(*    resumed for (CallInv), that what is pushed was written needs the     *)
(*    access state of the block that is pushed (BlockInv), and that no     *)
(*    other thread closes a block needs its place in `pending` (RefInv);   *)
(*  - one lemma per operation; and the theorems.                           *)
(*                                                                         *)
(* GreenletScheduler is proved once: its invariant and its proof are used  *)
(* here with `ready` replaced by what the buffers say.                     *)
(*                                                                         *)
(* The last part is about the runs of a core's kernel (KernelRun,          *)
(* Pipeline): that its tiles reach the output in order is an invariant     *)
(* once it is said where the tiles are on their way, block by block in     *)
(* each buffer (Queued) and in the hands of each thread (ReaderInv,        *)
(* ComputeInv, WriterInv).                                                 *)
(***************************************************************************)
EXTENDS Pipeline, TLAPS

-----------------------------------------------------------------------------
(* The state machine of a block.                                           *)

\* The access states and expected operations a block can get to.
KnownStates(side, kind) ==
  IF side = "wait"
  THEN IF kind = "DM"
       THEN {<<"MR", {"COPY_SRC"}>>, <<"NAR", {"TX_WAIT"}>>, <<"NAW", {"TX_WAIT"}>>,
             <<"RW", {"COPY_DST", "COPY_SRC", "POP"}>>}
       ELSE {<<"MR", {"STORE_SRC"}>>, <<"A", {"STORE_SRC", "STORE_ACC"}>>,
             <<"RW", {"STORE_SRC", "STORE", "STORE_ACC", "POP"}>>}
  ELSE IF kind = "DM"
       THEN {<<"MW", {"COPY_DST"}>>, <<"NAR", {"TX_WAIT"}>>, <<"NAW", {"TX_WAIT"}>>,
             <<"MR", {"PUSH", "COPY_SRC"}>>,
             <<"RW", {"COPY_DST", "COPY_SRC", "PUSH"}>>}
       ELSE {<<"MW", {"STORE", "STORE_ACC"}>>, <<"MR", {"STORE_SRC", "PUSH"}>>,
             <<"A", {"STORE_SRC", "STORE_ACC", "PUSH"}>>,
             <<"RW", {"STORE_SRC", "STORE", "STORE_ACC", "PUSH"}>>}

\* A block in one of them.
Known(b) == <<b.access, b.expected>> \in KnownStates(b.side, b.kind)

\* The access state an operation leads to.
Leads(op, access) ==
  IF op = "COPY_SRC" THEN "NAR"
  ELSE IF op = "COPY_DST" THEN "NAW"
  ELSE IF op = "TX_WAIT" THEN IF access = "NAR" THEN "RW" ELSE "MR"
  ELSE IF op = "STORE" THEN "MR"
  ELSE IF op = "STORE_ACC" THEN "A" ELSE "RW"

\* What a row of a transition table says.
LEMMA RowFacts ==
  ASSUME NEW op, NEW from, NEW to, NEW expect
  PROVE  /\ \A r \in Row(op, from, to, expect) :
              r.op = op /\ r.from \in from /\ r.to = to /\ r.expect = expect
         /\ \A a \in from : \E r \in Row(op, from, to, expect) : r.op = op /\ r.from = a
<1>1. ASSUME NEW a \in from
      PROVE  \E r \in Row(op, from, to, expect) : r.op = op /\ r.from = a
  <2> DEFINE r == [op |-> op, from |-> a, to |-> to, expect |-> expect]
  <2>1. r \in Row(op, from, to, expect) /\ r.op = op /\ r.from = a
    BY DEF Row
  <2> QED BY <2>1
<1> QED BY <1>1 DEF Row

\* Whatever a known state expects, but push and pop, has a transition, and every
\* such transition leads to a known state.
Leading(table, known) ==
  \A s \in known : \A op \in s[2] \ {"PUSH", "POP"} :
    /\ \E r \in table : r.op = op /\ r.from = s[1]
    /\ \A r \in table : r.op = op /\ r.from = s[1] =>
         /\ <<r.to, r.expect>> \in known
         /\ r.to = Leads(op, s[1])

\* The tables, one by one: a waited block of a data movement thread,
LEMMA WaitDMLeads == Leading(WaitDM, KnownStates("wait", "DM"))
BY RowFacts DEF Leading, WaitDM, KnownStates, Leads

\* a waited block of a compute thread,
LEMMA WaitComputeLeads == Leading(WaitCompute, KnownStates("wait", "COMPUTE"))
BY RowFacts DEF Leading, WaitCompute, KnownStates, Leads

\* a reserved block of a data movement thread,
LEMMA ReserveDMLeads == Leading(ReserveDM, KnownStates("reserve", "DM"))
BY RowFacts DEF Leading, ReserveDM, KnownStates, Leads

\* a reserved block of a compute thread.
LEMMA ReserveComputeLeads == Leading(ReserveCompute, KnownStates("reserve", "COMPUTE"))
BY RowFacts DEF Leading, ReserveCompute, KnownStates, Leads

\* The tables lead from known states to known states.
LEMMA TransitionsLead ==
  ASSUME NEW side \in Sides, NEW kind \in {"DM", "COMPUTE"}
  PROVE  Leading(Transitions(side, kind), KnownStates(side, kind))
BY WaitDMLeads, WaitComputeLeads, ReserveDMLeads, ReserveComputeLeads
   DEF Transitions, Sides

\* States are made of what BlockState declares.
KnownType(known) == \A s \in known : s[1] \in AccessState /\ s[2] \in SUBSET ExpectedOp

\* So are the known ones.
LEMMA KnownStatesType ==
  ASSUME NEW side \in Sides, NEW kind \in {"DM", "COMPUTE"}
  PROVE  KnownType(KnownStates(side, kind))
BY DEF KnownType, KnownStates, Sides, AccessState, ExpectedOp

\* What an expected operation makes of a block: another known block in the same
\* place.
LEMMA AfterEffect ==
  ASSUME NEW b \in Blocks, Known(b), NEW op \in b.expected \ {"PUSH", "POP"}
  PROVE  /\ After(b, op) \in Blocks
         /\ Known(After(b, op))
         /\ After(b, op).access = Leads(op, b.access)
         /\ After(b, op).side = b.side
         /\ After(b, op).kind = b.kind
         /\ After(b, op).start = b.start
<1> DEFINE r == CHOOSE r \in Matching(b, op) : TRUE
<1>1. b.side \in Sides /\ b.kind \in {"DM", "COMPUTE"}
  BY DEF Blocks
<1>2. /\ \E m \in Transitions(b.side, b.kind) : m.op = op /\ m.from = b.access
      /\ \A m \in Transitions(b.side, b.kind) : m.op = op /\ m.from = b.access =>
           /\ <<m.to, m.expect>> \in KnownStates(b.side, b.kind)
           /\ m.to = Leads(op, b.access)
  BY <1>1, TransitionsLead DEF Leading, Known
<1>3. r \in Transitions(b.side, b.kind) /\ r.op = op /\ r.from = b.access
  BY <1>2 DEF Matching
<1>4. After(b, op) = [b EXCEPT !.access = r.to, !.expected = r.expect]
  BY DEF After
<1> HIDE DEF r
<1>5. /\ <<r.to, r.expect>> \in KnownStates(b.side, b.kind)
      /\ r.to = Leads(op, b.access)
  BY <1>2, <1>3
<1>6. r.to \in AccessState /\ r.expect \in SUBSET ExpectedOp
  BY <1>1, <1>5, KnownStatesType DEF KnownType
<1> QED BY <1>4, <1>5, <1>6 DEF Blocks, Known

\* wait() and reserve() return blocks in known states.
LEMMA NewBlockKnown ==
  ASSUME NEW side \in Sides, NEW kind \in {"DM", "COMPUTE"}, NEW start \in Nat
  PROVE  /\ NewBlock(side, kind, start) \in Blocks
         /\ Known(NewBlock(side, kind, start))
         /\ NewBlock(side, kind, start).side = side
         /\ NewBlock(side, kind, start).kind = kind
         /\ NewBlock(side, kind, start).start = start
         /\ NewBlock(side, kind, start).access = IF side = "wait" THEN "MR" ELSE "MW"
BY DEF NewBlock, Blocks, Known, KnownStates, Sides, AccessState, ExpectedOp

\* What a block in a known state expects tells what was done to it.
LEMMA KnownExpects ==
  ASSUME NEW b \in Blocks, Known(b)
  PROVE  /\ Expects(b, "PUSH") => b.side = "reserve" /\ b.access \notin {"MW", "NAW", "NAR"}
         /\ Expects(b, "POP")  => b.side = "wait" /\ b.access \in {"MR", "RW", "A"}
         /\ Expects(b, "TX_WAIT") <=> InFlight(b)
         /\ InFlight(b) => b.expected = {"TX_WAIT"}
         /\ Expects(b, "STORE_SRC") => ~InFlight(b)
         /\ b.side = "wait" => b.access # "MW"
         /\ Expects(b, "COPY_SRC") => b.access \notin {"MW", "NAW"}
BY DEF Known, KnownStates, Expects, InFlight, Blocks, Sides

\* A table has one row for an operation and an access state.
Alike(table) ==
  \A r, m \in table : r.op = m.op /\ r.from = m.from => r = m

\* The transitions of a row differ in the state they start from.
LEMMA RowAlike ==
  ASSUME NEW op, NEW from, NEW to, NEW expect,
         NEW r \in Row(op, from, to, expect), NEW m \in Row(op, from, to, expect),
         r.from = m.from
  PROVE  r = m
BY DEF Row

\* None of the four tables is ambiguous.
LEMMA TablesAlike == /\ Alike(WaitDM) /\ Alike(WaitCompute)
                     /\ Alike(ReserveDM) /\ Alike(ReserveCompute)
<1>1. Alike(WaitDM)
  BY RowFacts, RowAlike DEF Alike, WaitDM
<1>2. Alike(WaitCompute)
  BY RowFacts, RowAlike DEF Alike, WaitCompute
<1>3. Alike(ReserveDM)
  BY RowFacts, RowAlike DEF Alike, ReserveDM
<1>4. Alike(ReserveCompute)
  BY RowFacts, RowAlike DEF Alike, ReserveCompute
<1> QED BY <1>1, <1>2, <1>3, <1>4

\* No known block expects an operation that has no transition, or two.
LEMMA KnownConsistent ==
  ASSUME NEW b \in Blocks, Known(b)
  PROVE  Consistent(b)
<1>1. b.side \in Sides /\ b.kind \in {"DM", "COMPUTE"}
  BY DEF Blocks
<1>2. Alike(Transitions(b.side, b.kind))
  BY <1>1, TablesAlike DEF Transitions
<1>3. ASSUME NEW op \in b.expected \ {"PUSH", "POP"}
      PROVE  \E r \in Matching(b, op) : Matching(b, op) = {r}
  <2>1. PICK r \in Transitions(b.side, b.kind) : r.op = op /\ r.from = b.access
    BY <1>1, TransitionsLead DEF Leading, Known
  <2>2. r \in Matching(b, op)
    BY <2>1 DEF Matching
  <2>3. \A m \in Matching(b, op) : m = r
    BY <1>2, <2>1 DEF Matching, Alike
  <2> QED BY <2>2, <2>3
<1> QED BY <1>3, KnownExpects DEF Consistent, Expects

-----------------------------------------------------------------------------
(* The ring of a buffer with c slots.                                      *)

\* The states of a ring that SimKernel drives: all its operations move Tiles
\* tiles, and one thread stands for all of them.
Rings(c) ==
  [cap : {c}, buf : [0 .. c - 1 -> Contents \union {None, Zero}],
   head : 0 .. c - 1, visible : 0 .. c, reserved : {0, Tiles},
   step : {None, Tiles}, last_wait_target : {0, Tiles}, last_reserve_target : {0, Tiles},
   consumer_waiting : {None, MainThread}, producer_reserving : {None, MainThread}]

\* Nothing visible is empty, or the zero tile.
Written(s) ==
  \A i \in 0 .. s.visible - 1 : s.buf[SpanSlot(s, s.head, i)] \in Contents

\* Neither is anything in the window that follows the visible tiles.
BackWritten(s) ==
  \A i \in 0 .. Tiles - 1 : s.buf[SpanSlot(s, BackStart(s), i)] \in Contents

\* r has the tiles of s in the same places.
SamePlaces(r, s) == r.head = s.head /\ r.visible = s.visible /\ r.cap = s.cap

\* The k-th slot from h in a ring of c.
Slot(c, h, k) == (h + k) % c

\* A slot number wraps at most once.
LEMMA SlotOnce ==
  ASSUME NEW c \in Nat \ {0}, NEW h \in 0 .. c - 1, NEW k \in 0 .. c
  PROVE  /\ Slot(c, h, k) = IF h + k < c THEN h + k ELSE h + k - c
         /\ Slot(c, h, k) \in 0 .. c - 1
<1>1. ASSUME NEW a \in Nat, a < 2 * c
      PROVE  a % c = IF a < c THEN a ELSE a - c
  BY <1>1, SMT
<1>2. h + k \in Nat /\ h + k < 2 * c
  OBVIOUS
<1>3. Slot(c, h, k) = IF h + k < c THEN h + k ELSE h + k - c
  BY <1>1, <1>2 DEF Slot
<1> QED BY <1>3

\* The k-th slot after the one n places from h.
LEMMA SlotShift ==
  ASSUME NEW c \in Nat \ {0}, NEW h \in 0 .. c - 1, NEW n \in 0 .. c, NEW k \in 0 .. c,
         n + k <= c
  PROVE  Slot(c, Slot(c, h, n), k) = Slot(c, h, n + k)
<1> DEFINE m == Slot(c, h, n)
<1>1. m \in 0 .. c - 1 /\ m = IF h + n < c THEN h + n ELSE h + n - c
  BY SlotOnce
<1>2. n + k \in 0 .. c
  OBVIOUS
<1> HIDE DEF m
<1>3. Slot(c, m, k) = IF m + k < c THEN m + k ELSE m + k - c
  BY <1>1, SlotOnce
<1>4. Slot(c, h, n + k) = IF h + (n + k) < c THEN h + (n + k) ELSE h + (n + k) - c
  BY <1>2, SlotOnce
<1>5. Slot(c, m, k) = Slot(c, h, n + k)
  BY <1>1, <1>3, <1>4
<1> QED BY <1>5 DEF m

\* Different places have different slots.
LEMMA SlotInjective ==
  ASSUME NEW c \in Nat \ {0}, NEW h \in 0 .. c - 1,
         NEW i \in 0 .. c - 1, NEW j \in 0 .. c - 1, i # j
  PROVE  Slot(c, h, i) # Slot(c, h, j)
<1>1. Slot(c, h, i) = IF h + i < c THEN h + i ELSE h + i - c
  BY SlotOnce
<1>2. Slot(c, h, j) = IF h + j < c THEN h + j ELSE h + j - c
  BY SlotOnce
<1> QED BY <1>1, <1>2

\* The window that follows the visible tiles, place by place.
LEMMA BackSlots ==
  ASSUME NEW c \in Nat \ {0}, NEW s \in Rings(c), s.visible + Tiles <= c,
         NEW j \in 0 .. Tiles - 1
  PROVE  /\ BackStart(s) \in 0 .. c - 1
         /\ SpanSlot(s, BackStart(s), j) = Slot(c, s.head, s.visible + j)
         /\ SpanSlot(s, BackStart(s), j) \in 0 .. c - 1
         /\ s.visible + j \in 0 .. c - 1
<1>1. s.head \in 0 .. c - 1 /\ s.visible \in 0 .. c /\ s.cap = c
  BY DEF Rings
<1>2. BackStart(s) = Slot(c, s.head, s.visible)
  BY <1>1 DEF BackStart, Slot
<1>3. BackStart(s) \in 0 .. c - 1
  BY <1>1, <1>2, SlotOnce
<1>4. j \in 0 .. c /\ s.visible + j \in 0 .. c - 1
  BY <1>1, TilesAssumption
<1>5. SpanSlot(s, BackStart(s), j) = Slot(c, Slot(c, s.head, s.visible), j)
  BY <1>1, <1>2 DEF SpanSlot, Slot
<1>6. Slot(c, Slot(c, s.head, s.visible), j) = Slot(c, s.head, s.visible + j)
  BY <1>1, <1>4, SlotShift
<1>7. Slot(c, s.head, s.visible + j) \in 0 .. c - 1
  <2>1. s.visible + j \in 0 .. c
    BY <1>1, <1>4
  <2> QED BY <1>1, <2>1, SlotOnce
<1> QED BY <1>3, <1>4, <1>5, <1>6, <1>7

\* No visible tile is in that window.
LEMMA FrontNotBack ==
  ASSUME NEW c \in Nat \ {0}, NEW s \in Rings(c), s.visible + Tiles <= c,
         NEW i \in 0 .. s.visible - 1, NEW j \in 0 .. Tiles - 1
  PROVE  SpanSlot(s, s.head, i) # SpanSlot(s, BackStart(s), j)
<1>1. s.head \in 0 .. c - 1 /\ s.visible \in 0 .. c /\ s.cap = c
  BY DEF Rings
<1>2. /\ SpanSlot(s, BackStart(s), j) = Slot(c, s.head, s.visible + j)
      /\ s.visible + j \in 0 .. c - 1
  BY BackSlots
<1>3. SpanSlot(s, s.head, i) = Slot(c, s.head, i) /\ i \in 0 .. c - 1 /\ i # s.visible + j
  BY <1>1 DEF SpanSlot, Slot
<1> QED BY <1>1, <1>2, <1>3, SlotInjective

\* The slots of visible tiles are slots.
LEMMA FrontSlots ==
  ASSUME NEW c \in Nat \ {0}, NEW s \in Rings(c), NEW i \in 0 .. s.visible - 1
  PROVE  /\ SpanSlot(s, s.head, i) = Slot(c, s.head, i)
         /\ SpanSlot(s, s.head, i) \in 0 .. c - 1
<1>1. s.head \in 0 .. c - 1 /\ s.visible \in 0 .. c /\ s.cap = c
  BY DEF Rings
<1>2. i \in 0 .. c
  BY <1>1
<1> QED BY <1>1, <1>2, SlotOnce DEF SpanSlot, Slot

\* The first slot of a window is where it starts.
LEMMA FirstSlot ==
  ASSUME NEW c \in Nat \ {0}, NEW s \in Rings(c), NEW start \in 0 .. c - 1
  PROVE  SpanSlot(s, start, 0) = start
<1>1. 0 \in 0 .. c /\ start + 0 < c /\ Slot(c, start, 0) = SpanSlot(s, start, 0)
  BY DEF Slot, SpanSlot, Rings
<1> QED BY <1>1, SlotOnce

-----------------------------------------------------------------------------
(* What the operations of a buffer do to its ring.                         *)

\* dfb_wait_front leaves the tiles where they are.
LEMMA WaitRing ==
  ASSUME NEW c \in Nat \ {0}, NEW s \in Rings(c),
         NEW r, r = WaitDone(WaitBegun(s, Tiles, MainThread), Tiles)
  PROVE  /\ r \in Rings(c) /\ SamePlaces(r, s) /\ r.buf = s.buf
         /\ r.reserved = s.reserved /\ r.last_wait_target = Tiles
BY DEF WaitDone, WaitBegun, Rings, SamePlaces

\* So does dfb_reserve_back.
LEMMA ReserveRing ==
  ASSUME NEW c \in Nat \ {0}, NEW s \in Rings(c),
         NEW r, r = ReserveDone(ReserveBegun(s, MainThread), Tiles)
  PROVE  /\ r \in Rings(c) /\ SamePlaces(r, s) /\ r.buf = s.buf
         /\ r.reserved = Tiles /\ r.last_wait_target = s.last_wait_target
BY DEF ReserveDone, ReserveBegun, Rings, SamePlaces

\* A write through a block leaves the counters as they are.
LEMMA FillRing ==
  ASSUME NEW c \in Nat \ {0}, NEW s \in Rings(c), NEW start,
         NEW v \in Contents \union {Zero}, NEW r, r = Filled(s, start, v)
  PROVE  /\ r \in Rings(c) /\ SamePlaces(r, s)
         /\ r.reserved = s.reserved /\ r.last_wait_target = s.last_wait_target
         /\ \A i \in 0 .. c - 1 :
              r.buf[i] = IF i \in SpanSlots(s, start, Tiles) THEN v ELSE s.buf[i]
<1> DEFINE kept == [i \in 0 .. c - 1 |->
                      IF i \in SpanSlots(s, start, Tiles) THEN v ELSE s.buf[i]]
<1>1. r = [s EXCEPT !.buf = kept]
  BY DEF Filled, Rings
<1>2. kept \in [0 .. c - 1 -> Contents \union {None, Zero}]
  BY DEF Rings
<1>3. \A i \in 0 .. c - 1 :
        kept[i] = IF i \in SpanSlots(s, start, Tiles) THEN v ELSE s.buf[i]
  OBVIOUS
<1> HIDE DEF kept
<1> QED BY <1>1, <1>2, <1>3 DEF Rings, SamePlaces

\* push_back turns the reserved tiles into visible ones.
LEMMA PushRing ==
  ASSUME NEW c \in Nat \ {0}, NEW s \in Rings(c), s.reserved = Tiles,
         s.visible + Tiles <= c, NEW r, r = PushBack(s, Tiles)
  PROVE  /\ r \in Rings(c) /\ r.buf = s.buf /\ r.cap = s.cap /\ r.head = s.head
         /\ r.visible = s.visible + Tiles
         /\ r.reserved = 0 /\ r.last_wait_target = s.last_wait_target
<1> DEFINE owner == IF s.reserved = Tiles THEN None ELSE s.producer_reserving
           left  == s.reserved - Tiles
           more  == s.visible + Tiles
<1>1. r = [s EXCEPT !.reserved = left, !.visible = more, !.producer_reserving = owner]
  BY DEF PushBack
<1>2. left = 0 /\ left \in {0, Tiles} /\ more \in 0 .. c /\ owner \in {None, MainThread}
  BY TilesAssumption DEF Rings
<1>3. more = s.visible + Tiles
  OBVIOUS
<1> HIDE DEF left, more, owner
<1> QED BY <1>1, <1>2, <1>3 DEF Rings

\* pop_front takes visible tiles away.
LEMMA PopRing ==
  ASSUME NEW c \in Nat \ {0}, NEW s \in Rings(c), s.visible >= Tiles,
         NEW r, r = PopFront(s, Tiles)
  PROVE  /\ r \in Rings(c) /\ r.cap = s.cap /\ r.head = Slot(c, s.head, Tiles)
         /\ r.visible = s.visible - Tiles
         /\ r.reserved = s.reserved /\ r.last_wait_target = 0
         /\ \A i \in 0 .. c - 1 :
              r.buf[i] = IF i \in SpanSlots(s, s.head, Tiles) THEN None ELSE s.buf[i]
<1> DEFINE owner == IF s.visible = Tiles THEN None ELSE s.consumer_waiting
           kept  == [i \in 0 .. c - 1 |->
                       IF i \in SpanSlots(s, s.head, Tiles) THEN None ELSE s.buf[i]]
           next  == (s.head + Tiles) % c
           less  == s.visible - Tiles
           zero  == 0
<1>1. r = [s EXCEPT !.buf = kept, !.head = next, !.visible = less,
                    !.last_wait_target = zero, !.consumer_waiting = owner]
  BY DEF PopFront, Rings
<1>2. /\ owner \in {None, MainThread} /\ less \in 0 .. c /\ zero \in {0, Tiles}
      /\ less = s.visible - Tiles /\ zero = 0
  BY TilesAssumption DEF Rings
<1>3. next = Slot(c, s.head, Tiles)
  BY DEF Slot
<1>4. next \in 0 .. c - 1
  <2>1. s.head \in 0 .. c - 1 /\ Tiles \in 0 .. c
    BY TilesAssumption DEF Rings
  <2> HIDE DEF next
  <2> QED BY <1>3, <2>1, SlotOnce
<1>5. kept \in [0 .. c - 1 -> Contents \union {None, Zero}]
  BY DEF Rings
<1>6. \A i \in 0 .. c - 1 :
        kept[i] = IF i \in SpanSlots(s, s.head, Tiles) THEN None ELSE s.buf[i]
  OBVIOUS
<1> HIDE DEF owner, kept, next, less, zero
<1>7. r \in Rings(c)
  BY <1>1, <1>2, <1>4, <1>5 DEF Rings
<1>8. /\ r.buf = kept /\ r.head = next /\ r.visible = less /\ r.last_wait_target = zero
      /\ r.cap = s.cap /\ r.reserved = s.reserved
  BY <1>1 DEF Rings
<1> QED BY <1>2, <1>3, <1>6, <1>7, <1>8

-----------------------------------------------------------------------------
(* What stays in the windows.                                              *)

\* Filling the window behind the visible tiles touches none of them.
LEMMA FillBackKeeps ==
  ASSUME NEW c \in Nat \ {0}, NEW s \in Rings(c), s.visible + Tiles <= c,
         NEW v \in Contents \union {Zero}, NEW r, r = Filled(s, BackStart(s), v)
  PROVE  /\ s.visible >= Tiles => r.buf[s.head] = s.buf[s.head]
         /\ Written(s) => Written(r)
         /\ v \in Contents => BackWritten(r)
<1>1. /\ SamePlaces(r, s)
      /\ \A i \in 0 .. c - 1 :
           r.buf[i] = IF i \in SpanSlots(s, BackStart(s), Tiles) THEN v ELSE s.buf[i]
  BY FillRing
<1>2. ASSUME NEW i \in 0 .. s.visible - 1
      PROVE  r.buf[SpanSlot(s, s.head, i)] = s.buf[SpanSlot(s, s.head, i)]
  <2>1. SpanSlot(s, s.head, i) \in 0 .. c - 1
    BY FrontSlots
  <2>2. SpanSlot(s, s.head, i) \notin SpanSlots(s, BackStart(s), Tiles)
    BY FrontNotBack DEF SpanSlots
  <2> QED BY <1>1, <2>1, <2>2
<1>3. Written(s) => Written(r)
  BY <1>1, <1>2 DEF Written, SamePlaces, SpanSlot
<1>4. ASSUME v \in Contents, NEW j \in 0 .. Tiles - 1
      PROVE  r.buf[SpanSlot(r, BackStart(r), j)] \in Contents
  <2>1. SpanSlot(s, BackStart(s), j) \in 0 .. c - 1
    BY BackSlots
  <2>2. SpanSlot(s, BackStart(s), j) \in SpanSlots(s, BackStart(s), Tiles)
    BY DEF SpanSlots
  <2>3. SpanSlot(r, BackStart(r), j) = SpanSlot(s, BackStart(s), j)
    BY <1>1 DEF SamePlaces, SpanSlot, BackStart
  <2> QED BY <1>1, <1>4, <2>1, <2>2, <2>3
<1>5. ASSUME s.visible >= Tiles PROVE r.buf[s.head] = s.buf[s.head]
  <2>1. 0 \in 0 .. s.visible - 1 /\ s.head \in 0 .. c - 1
    BY <1>5, TilesAssumption DEF Rings
  <2> QED BY <1>2, <2>1, FirstSlot
<1> QED BY <1>3, <1>4, <1>5 DEF BackWritten

\* Filling the window of the first visible tiles keeps all of them written, and
\* touches nothing behind them.
LEMMA FillFrontKeeps ==
  ASSUME NEW c \in Nat \ {0}, NEW s \in Rings(c), s.visible >= Tiles,
         NEW v \in Contents, NEW r, r = Filled(s, s.head, v)
  PROVE  /\ Written(s) => Written(r)
         /\ s.visible + Tiles <= c => r.buf[BackStart(s)] = s.buf[BackStart(s)]
         /\ s.visible + Tiles <= c /\ BackWritten(s) => BackWritten(r)
<1>1. /\ SamePlaces(r, s)
      /\ \A i \in 0 .. c - 1 :
           r.buf[i] = IF i \in SpanSlots(s, s.head, Tiles) THEN v ELSE s.buf[i]
  BY FillRing
<1>2. ASSUME Written(s), NEW i \in 0 .. r.visible - 1
      PROVE  r.buf[SpanSlot(r, r.head, i)] \in Contents
  <2>1. i \in 0 .. s.visible - 1 /\ SpanSlot(r, r.head, i) = SpanSlot(s, s.head, i)
    BY <1>1 DEF SamePlaces, SpanSlot
  <2>2. SpanSlot(s, s.head, i) \in 0 .. c - 1
    BY <2>1, FrontSlots
  <2>3. s.buf[SpanSlot(s, s.head, i)] \in Contents
    BY <1>2, <2>1 DEF Written
  <2> QED BY <1>1, <2>1, <2>2, <2>3
<1>3. ASSUME s.visible + Tiles <= c, NEW j \in 0 .. Tiles - 1
      PROVE  r.buf[SpanSlot(s, BackStart(s), j)] = s.buf[SpanSlot(s, BackStart(s), j)]
  <2>1. SpanSlot(s, BackStart(s), j) \in 0 .. c - 1
    BY <1>3, BackSlots
  <2>2. \A i \in 0 .. Tiles - 1 : i \in 0 .. s.visible - 1
    BY TilesAssumption DEF Rings
  <2>3. SpanSlot(s, BackStart(s), j) \notin SpanSlots(s, s.head, Tiles)
    BY <1>3, <2>2, FrontNotBack DEF SpanSlots
  <2> QED BY <1>1, <2>1, <2>3
<1>4. ASSUME s.visible + Tiles <= c, BackWritten(s) PROVE BackWritten(r)
  <2>1. \A j \in 0 .. Tiles - 1 : SpanSlot(r, BackStart(r), j) = SpanSlot(s, BackStart(s), j)
    BY <1>1 DEF SamePlaces, SpanSlot, BackStart
  <2> QED BY <1>3, <1>4, <2>1 DEF BackWritten
<1>5. ASSUME s.visible + Tiles <= c PROVE r.buf[BackStart(s)] = s.buf[BackStart(s)]
  <2>1. 0 \in 0 .. Tiles - 1
    BY TilesAssumption
  <2>2. BackStart(s) \in 0 .. c - 1
    BY <1>5, <2>1, BackSlots
  <2> QED BY <1>3, <1>5, <2>1, <2>2, FirstSlot
<1> QED BY <1>2, <1>4, <1>5 DEF Written

\* A push makes the window behind the visible tiles visible.
LEMMA PushKeeps ==
  ASSUME NEW c \in Nat \ {0}, NEW s \in Rings(c), s.reserved = Tiles,
         s.visible + Tiles <= c, NEW r, r = PushBack(s, Tiles),
         Written(s), BackWritten(s)
  PROVE  Written(r)
<1>1. r.buf = s.buf /\ r.cap = s.cap /\ r.head = s.head /\ r.visible = s.visible + Tiles
  BY PushRing
<1>2. s.visible \in 0 .. c
  BY DEF Rings
<1> SUFFICES ASSUME NEW i \in 0 .. r.visible - 1
             PROVE  r.buf[SpanSlot(r, r.head, i)] \in Contents
  BY DEF Written
<1>3. SpanSlot(r, r.head, i) = SpanSlot(s, s.head, i)
  BY <1>1 DEF SpanSlot
<1>4. CASE i < s.visible
  <2>1. i \in 0 .. s.visible - 1
    BY <1>2, <1>4
  <2> QED BY <1>1, <1>3, <2>1 DEF Written
<1>5. CASE ~(i < s.visible)
  <2> DEFINE j == i - s.visible
  <2>1. j \in 0 .. Tiles - 1 /\ s.visible + j = i
    BY <1>1, <1>2, <1>5, TilesAssumption
  <2> HIDE DEF j
  <2>2. SpanSlot(s, BackStart(s), j) = Slot(c, s.head, s.visible + j)
    BY <2>1, BackSlots
  <2>3. SpanSlot(s, s.head, i) = Slot(c, s.head, i)
    BY DEF SpanSlot, Slot, Rings
  <2> QED BY <1>1, <1>3, <2>1, <2>2, <2>3 DEF BackWritten
<1> QED BY <1>4, <1>5

\* A pop keeps the tiles behind the popped ones, visible or reserved.
LEMMA PopKeeps ==
  ASSUME NEW c \in Nat \ {0}, NEW s \in Rings(c), s.visible >= Tiles,
         NEW r, r = PopFront(s, Tiles)
  PROVE  /\ BackStart(r) = BackStart(s)
         /\ Written(s) => Written(r)
         /\ s.visible + Tiles <= c => r.buf[BackStart(s)] = s.buf[BackStart(s)]
         /\ s.visible + Tiles <= c /\ BackWritten(s) => BackWritten(r)
<1>1. /\ r.cap = s.cap /\ r.head = Slot(c, s.head, Tiles)
      /\ r.visible = s.visible - Tiles
      /\ \A i \in 0 .. c - 1 :
           r.buf[i] = IF i \in SpanSlots(s, s.head, Tiles) THEN None ELSE s.buf[i]
  BY PopRing
<1>2. s.cap = c /\ s.head \in 0 .. c - 1 /\ s.visible \in 0 .. c /\ Tiles \in 1 .. c
  BY TilesAssumption DEF Rings
<1>3. BackStart(r) = BackStart(s)
  <2>1. Slot(c, Slot(c, s.head, Tiles), s.visible - Tiles) = Slot(c, s.head, s.visible)
    <3>1. /\ Tiles \in 0 .. c /\ s.visible - Tiles \in 0 .. c
          /\ Tiles + (s.visible - Tiles) = s.visible /\ s.visible <= c
      BY <1>2
    <3>2. Slot(c, Slot(c, s.head, Tiles), s.visible - Tiles)
            = Slot(c, s.head, Tiles + (s.visible - Tiles))
      BY <1>2, <3>1, SlotShift
    <3> QED BY <3>1, <3>2
  <2> QED BY <1>1, <1>2, <2>1 DEF BackStart, Slot
<1>4. ASSUME Written(s), NEW i \in 0 .. r.visible - 1
      PROVE  r.buf[SpanSlot(r, r.head, i)] \in Contents
  <2>1. /\ Tiles \in 0 .. c /\ i \in 0 .. c /\ Tiles + i <= c
        /\ Tiles + i \in 0 .. s.visible - 1
    BY <1>1, <1>2
  <2>2. SpanSlot(r, r.head, i) = Slot(c, s.head, Tiles + i)
    <3>1. SpanSlot(r, r.head, i) = Slot(c, Slot(c, s.head, Tiles), i)
      BY <1>1, <1>2 DEF SpanSlot, Slot
    <3> QED BY <1>2, <2>1, <3>1, SlotShift
  <2>3. /\ SpanSlot(s, s.head, Tiles + i) = Slot(c, s.head, Tiles + i)
        /\ SpanSlot(s, s.head, Tiles + i) \in 0 .. c - 1
    BY <2>1, FrontSlots
  <2>4. ASSUME NEW k \in 0 .. Tiles - 1
        PROVE  SpanSlot(s, s.head, k) # Slot(c, s.head, Tiles + i)
    <3>1. k \in 0 .. c - 1 /\ Tiles + i \in 0 .. c - 1 /\ k # Tiles + i
      BY <1>2, <2>1
    <3>2. SpanSlot(s, s.head, k) = Slot(c, s.head, k)
      BY <1>2 DEF SpanSlot, Slot
    <3> QED BY <1>2, <3>1, <3>2, SlotInjective
  <2>5. Slot(c, s.head, Tiles + i) \notin SpanSlots(s, s.head, Tiles)
    BY <2>4 DEF SpanSlots
  <2>6. s.buf[SpanSlot(s, s.head, Tiles + i)] \in Contents
    BY <1>4, <2>1 DEF Written
  <2> QED BY <1>1, <2>2, <2>3, <2>5, <2>6
<1>5. ASSUME s.visible + Tiles <= c, NEW j \in 0 .. Tiles - 1
      PROVE  r.buf[SpanSlot(s, BackStart(s), j)] = s.buf[SpanSlot(s, BackStart(s), j)]
  <2>1. SpanSlot(s, BackStart(s), j) \in 0 .. c - 1
    BY <1>5, BackSlots
  <2>2. \A i \in 0 .. Tiles - 1 : i \in 0 .. s.visible - 1
    BY <1>2
  <2>3. SpanSlot(s, BackStart(s), j) \notin SpanSlots(s, s.head, Tiles)
    BY <1>5, <2>2, FrontNotBack DEF SpanSlots
  <2> QED BY <1>1, <2>1, <2>3
<1>6. ASSUME s.visible + Tiles <= c, BackWritten(s) PROVE BackWritten(r)
  <2>1. \A j \in 0 .. Tiles - 1 : SpanSlot(r, BackStart(r), j) = SpanSlot(s, BackStart(s), j)
    BY <1>1, <1>3 DEF SpanSlot
  <2> QED BY <1>5, <1>6, <2>1 DEF BackWritten
<1>7. ASSUME s.visible + Tiles <= c PROVE r.buf[BackStart(s)] = s.buf[BackStart(s)]
  <2>1. 0 \in 0 .. Tiles - 1
    BY TilesAssumption
  <2>2. BackStart(s) \in 0 .. c - 1
    BY <1>7, <2>1, BackSlots
  <2> QED BY <1>5, <1>7, <2>1, <2>2, FirstSlot
<1> QED BY <1>3, <1>4, <1>6, <1>7 DEF Written

-----------------------------------------------------------------------------
(* The invariant.                                                          *)

\* One thread at each end of a buffer: the one that waits is single by
\* UsersAssumption, this is about the one that reserves.
Exclusive == \A d \in Buffers : \A t, u \in Reservers[d] : t = u

\* The variables are functions on what they should be.
Shapes ==
  /\ dfb \in [Buffers -> UNION {Rings(Cap(d)) : d \in Buffers}]
  /\ block \in [Refs -> Blocks \union {None}]
  /\ pending \in [Buffers \X Sides -> Threads \union {None}]
  /\ \A d \in Buffers, side \in Sides :
       pending[<<d, side>>] \in Users(d, side) \union {None}
  /\ call \in [Threads -> Calls \union {None}]

\* A buffer by itself, and what is pending.
BufferInv(d) ==
  /\ dfb[d] \in Rings(Cap(d))
  /\ dfb[d].visible + dfb[d].reserved <= Cap(d)
  /\ dfb[d].reserved = IF pending[<<d, "reserve">>] = None THEN 0 ELSE Tiles
  /\ dfb[d].last_wait_target = IF pending[<<d, "wait">>] = None THEN 0 ELSE Tiles
  /\ pending[<<d, "wait">>] # None => dfb[d].visible >= Tiles
  /\ Written(dfb[d])

\* A block: its state, its place, and its tiles once it is written.
BlockInv(r, b) ==
  /\ b \in Blocks /\ Known(b)
  /\ b.side = r[2]
  /\ b.start = IF r[2] = "wait" THEN FrontStart(dfb[r[1]]) ELSE BackStart(dfb[r[1]])
  /\ r[2] = "reserve" /\ b.access \notin {"MW", "NAW"} => BackWritten(dfb[r[1]])

\* A thread has a block exactly while it is the pending one.
RefInv(r) ==
  /\ block[r] # None <=> pending[<<r[1], r[2]>>] = r[3]
  /\ block[r] # None => BlockInv(r, block[r])

\* A thread in a blocking operation: it is blocked until it is resumed, by when
\* the operation can proceed, and nobody has taken away what it was called on.
CallInv(t) ==
  /\ blocked[t] => call[t] # None /\ current # t
  /\ call[t] # None =>
       /\ current # t => blocked[t]
       /\ current = t => Can(call[t])
       /\ call[t].op \in Sides =>
            /\ t \in Users(call[t].buf, call[t].op)
            /\ pending[<<call[t].buf, call[t].op>>] = None
       /\ call[t].op = "tx_wait" =>
            /\ call[t].ref[3] = t
            /\ block[call[t].ref] # None /\ InFlight(block[call[t].ref])

\* Buffers, blocks and calls.
KernelInv ==
  /\ Shapes
  /\ \A d \in Buffers : BufferInv(d)
  /\ \A r \in Refs : RefInv(r)
  /\ \A t \in Threads : CallInv(t)

\* With the scheduler's own invariant: what every step of a kernel keeps.
IInv == KernelInv /\ Scheduler!IInv

\* A buffer has room for an operation.
LEMMA CapType == \A d \in Buffers : Cap(d) \in Nat \ {0} /\ Tiles <= Cap(d)
<1> SUFFICES ASSUME NEW d \in Buffers PROVE Cap(d) \in Nat \ {0} /\ Tiles <= Cap(d)
  OBVIOUS
<1>1. Tiles \in Nat \ {0} /\ Factor[d] \in Nat \ {0}
  BY TilesAssumption, FactorAssumption
<1>2. ASSUME NEW m \in Nat \ {0}, NEW n \in Nat \ {0}
      PROVE  m * n \in Nat \ {0} /\ m <= m * n
  BY SMT
<1> QED BY <1>1, <1>2 DEF Cap

\* A reference is a buffer, a side of it, and a thread there.
LEMMA RefsType ==
  /\ \A r \in Refs : /\ r = <<r[1], r[2], r[3]>>
                     /\ r[1] \in Buffers /\ r[2] \in Sides /\ r[3] \in Threads
                     /\ r[3] \in Users(r[1], r[2])
  /\ \A d \in Buffers, side \in Sides : \A t \in Users(d, side) :
       <<d, side, t>> \in Refs /\ t \in Threads
  /\ \A d \in Buffers, side \in Sides : Users(d, side) \subseteq Threads
<1>1. \A d \in Buffers, side \in Sides : Users(d, side) \subseteq Threads
  BY UsersAssumption DEF Users, Sides
<1>2. \A r \in Refs : /\ r = <<r[1], r[2], r[3]>>
                      /\ r[1] \in Buffers /\ r[2] \in Sides /\ r[3] \in Threads
                      /\ r[3] \in Users(r[1], r[2])
  BY DEF Refs
<1>3. \A d \in Buffers, side \in Sides : \A t \in Users(d, side) :
        <<d, side, t>> \in Refs /\ t \in Threads
  BY <1>1 DEF Refs
<1> QED BY <1>1, <1>2, <1>3

\* A side of a buffer has one user.
LEMMA OneUser ==
  ASSUME Exclusive, NEW d \in Buffers, NEW side \in Sides,
         NEW t \in Users(d, side), NEW u \in Users(d, side)
  PROVE  t = u
BY UsersAssumption DEF Exclusive, Users, Sides

\* What the operations of a thread leave of the other threads' calls.
LEMMA CallsKept ==
  ASSUME KernelInv, Exclusive, NEW t \in Threads, current = t,
         call' = [call EXCEPT ![t] = None], UNCHANGED sched,
         \A r \in Refs : r[3] # t => block'[r] = block[r],
         \A d \in Buffers, side \in Sides :
           t \notin Users(d, side) => pending'[<<d, side>>] = pending[<<d, side>>]
  PROVE  call' \in [Threads -> Calls \union {None}] /\ \A u \in Threads : CallInv(u)'
<1>1. call \in [Threads -> Calls \union {None}]
  BY DEF KernelInv, Shapes
<1>2. ~blocked[t] /\ UNCHANGED <<current, blocked>>
  BY DEF KernelInv, CallInv, sched
<1>3. CallInv(t)'
  BY <1>1, <1>2 DEF CallInv
<1>4. ASSUME NEW u \in Threads, u # t PROVE CallInv(u)'
  <2>1. CallInv(u) /\ call'[u] = call[u] /\ call[u] \in Calls \union {None} /\ current' # u
    BY <1>1, <1>2, <1>4 DEF KernelInv
  <2>2. CASE call[u] = None
    BY <1>2, <2>1, <2>2 DEF CallInv
  <2>3. CASE call[u] \in [op : Sides, buf : Buffers]
    <3>1. call[u] # None
      BY <2>3, NoneAssumption DEF Calls
    <3>2. u \in Users(call[u].buf, call[u].op)
      BY <2>1, <2>3, <3>1 DEF CallInv
    <3>3. t \notin Users(call[u].buf, call[u].op)
      BY <1>4, <2>3, <3>2, OneUser
    <3>4. pending'[<<call[u].buf, call[u].op>>] = None
      BY <2>1, <2>3, <3>1, <3>3 DEF CallInv
    <3>5. call[u].op # "tx_wait"
      BY <2>3 DEF Sides
    <3> QED BY <1>2, <2>1, <3>1, <3>2, <3>4, <3>5 DEF CallInv
  <2>4. CASE call[u] \in [op : {"tx_wait"}, ref : Refs, tile : Inputs]
    <3>1. call[u] # None /\ call[u].op = "tx_wait" /\ call[u].op \notin Sides
      BY <2>4, NoneAssumption DEF Calls, Sides
    <3>2. call[u].ref \in Refs /\ call[u].ref[3] = u
      BY <2>1, <2>4, <3>1 DEF CallInv
    <3>3. block'[call[u].ref] = block[call[u].ref]
      BY <1>4, <3>2
    <3> QED BY <1>2, <2>1, <3>1, <3>2, <3>3 DEF CallInv
  <2> QED BY <2>1, <2>2, <2>3, <2>4 DEF Calls
<1>5. call' \in [Threads -> Calls \union {None}]
  BY <1>1
<1> QED BY <1>3, <1>4, <1>5

-----------------------------------------------------------------------------
(* The operations of a thread.                                             *)

\* What store() does to a block it reads from.
ReadBy(t, r) ==
  /\ r[2] = "wait" /\ r[3] = t /\ block[r] # None
  /\ block'[r] \in Blocks /\ Known(block'[r])
  /\ block'[r].side = "wait" /\ block'[r].start = block[r].start

\* The blocks of the other threads, with what is in them, stay as they are.
OthersKept(t) ==
  \A r \in Refs : block[r] # None /\ r[3] # t =>
    block'[r] = block[r] /\ Content(r)' = Content(r)

\* An operation of a thread on its side of a buffer: what it leaves alone keeps
\* the invariant, so that only its own buffer and block are to be looked at.
LEMMA OneBuffer ==
  ASSUME KernelInv, Exclusive, NEW t \in Threads, current = t, UNCHANGED sched,
         call' = [call EXCEPT ![t] = None],
         NEW d \in Buffers, NEW side \in Sides, t \in Users(d, side),
         dfb' \in [Buffers -> UNION {Rings(Cap(e)) : e \in Buffers}],
         \A e \in Buffers \ {d} : dfb'[e] = dfb[e],
         block' \in [Refs -> Blocks \union {None}],
         \A r \in Refs \ {<<d, side, t>>} : block'[r] = block[r] \/ ReadBy(t, r),
         pending' \in [Buffers \X Sides -> Threads \union {None}],
         \A p \in (Buffers \X Sides) \ {<<d, side>>} : pending'[p] = pending[p],
         pending'[<<d, side>>] \in {None, t},
         BufferInv(d)', RefInv(<<d, side, t>>)',
         side = "reserve" => dfb'[d].head = dfb[d].head,
         side = "wait" => /\ BackStart(dfb'[d]) = BackStart(dfb[d])
                          /\ pending[<<d, "reserve">>] # None /\ BackWritten(dfb[d]) =>
                               BackWritten(dfb'[d]),
         side = "reserve" /\ pending[<<d, "wait">>] # None =>
           dfb'[d].buf[dfb[d].head] = dfb[d].buf[dfb[d].head],
         side = "wait" /\ pending[<<d, "reserve">>] # None =>
           dfb'[d].buf[BackStart(dfb[d])] = dfb[d].buf[BackStart(dfb[d])]
  PROVE  KernelInv' /\ OthersKept(t)
<1>1. ASSUME NEW e \in Buffers PROVE BufferInv(e)'
  <2>1. CASE e # d
    <3>1. /\ dfb'[e] = dfb[e] /\ pending'[<<e, "reserve">>] = pending[<<e, "reserve">>]
          /\ pending'[<<e, "wait">>] = pending[<<e, "wait">>]
      BY <2>1 DEF Sides
    <3>2. BufferInv(e)
      BY DEF KernelInv
    <3> QED BY <3>1, <3>2 DEF BufferInv
  <2> QED BY <2>1
<1>2. ASSUME NEW r \in Refs, r # <<d, side, t>> PROVE RefInv(r)'
  <2>1. /\ r = <<r[1], r[2], r[3]>> /\ r[1] \in Buffers /\ r[2] \in Sides
        /\ r[3] \in Users(r[1], r[2]) /\ r[3] \in Threads
    BY RefsType
  <2>2. ~(r[1] = d /\ r[2] = side)
    BY <1>2, <2>1, OneUser
  <2>3. pending'[<<r[1], r[2]>>] = pending[<<r[1], r[2]>>]
    BY <2>1, <2>2
  <2>4. RefInv(r)
    BY DEF KernelInv
  <2>5. block'[r] # None <=> block[r] # None
    BY <1>2, NoneAssumption DEF ReadBy
  <2>6. CASE r[2] = "wait"
    <3>1. dfb'[r[1]].head = dfb[r[1]].head
      BY <2>1, <2>2, <2>6 DEF Sides
    <3>2. block[r] # None =>
            /\ block'[r] \in Blocks /\ Known(block'[r]) /\ block'[r].side = r[2]
            /\ block'[r].start = block[r].start
      BY <1>2, <2>4, <2>6 DEF ReadBy, RefInv, BlockInv
    <3>3. block[r] # None => block[r].start = dfb[r[1]].head
      BY <2>4, <2>6 DEF RefInv, BlockInv, FrontStart
    <3> QED BY <2>3, <2>4, <2>5, <2>6, <3>1, <3>2, <3>3 DEF RefInv, BlockInv, FrontStart
  <2>7. CASE r[2] = "reserve"
    <3>1. block'[r] = block[r]
      BY <1>2, <2>7 DEF ReadBy
    <3>2. CASE block[r] = None
      BY <2>3, <2>4, <3>1, <3>2 DEF RefInv
    <3>3. CASE block[r] # None
      <4>1. pending[<<r[1], "reserve">>] # None
        BY <2>1, <2>4, <2>7, <3>3, ThreadsAssumption DEF RefInv
      <4>2. /\ BackStart(dfb'[r[1]]) = BackStart(dfb[r[1]])
            /\ BackWritten(dfb[r[1]]) => BackWritten(dfb'[r[1]])
        BY <2>1, <2>2, <2>7, <4>1 DEF Sides
      <4> QED BY <2>3, <2>4, <2>7, <3>1, <4>2 DEF RefInv, BlockInv
    <3> QED BY <3>2, <3>3
  <2> QED BY <2>1, <2>6, <2>7 DEF Sides
<1>3. \A r \in Refs : RefInv(r)'
  BY <1>2
<1>4. ASSUME NEW e \in Buffers, NEW s \in Sides
      PROVE  pending'[<<e, s>>] \in Users(e, s) \union {None}
  <2>1. pending[<<e, s>>] \in Users(e, s) \union {None}
    BY DEF KernelInv, Shapes
  <2> QED BY <2>1
<1>5. /\ \A r \in Refs : r[3] # t => block'[r] = block[r]
      /\ \A e \in Buffers, s \in Sides :
           t \notin Users(e, s) => pending'[<<e, s>>] = pending[<<e, s>>]
  BY DEF ReadBy
<1>6. call' \in [Threads -> Calls \union {None}] /\ \A u \in Threads : CallInv(u)'
  BY <1>5, CallsKept
<1>7. Shapes'
  BY <1>4, <1>6 DEF Shapes
<1>8. ASSUME NEW r \in Refs, block[r] # None, r[3] # t
      PROVE  block'[r] = block[r] /\ Content(r)' = Content(r)
  <2>1. /\ r = <<r[1], r[2], r[3]>> /\ r[1] \in Buffers /\ r[2] \in Sides
        /\ r[3] \in Users(r[1], r[2]) /\ r[3] \in Threads
    BY RefsType
  <2>2. block'[r] = block[r]
    BY <1>5, <1>8
  <2>3. /\ pending[<<r[1], r[2]>>] # None
        /\ block[r].start = IF r[2] = "wait" THEN dfb[r[1]].head ELSE BackStart(dfb[r[1]])
    BY <1>8, <2>1, ThreadsAssumption DEF KernelInv, RefInv, BlockInv, FrontStart
  <2>4. ~(r[1] = d /\ r[2] = side)
    BY <1>8, <2>1, OneUser
  <2>5. dfb'[r[1]].buf[block[r].start] = dfb[r[1]].buf[block[r].start]
    BY <2>1, <2>3, <2>4 DEF Sides
  <2> QED BY <2>2, <2>5 DEF Content
<1> QED BY <1>1, <1>3, <1>6, <1>7, <1>8 DEF KernelInv, OthersKept

\* What is known of a buffer, and of a thread's own end of it.
LEMMA BufferFacts ==
  ASSUME KernelInv, NEW d \in Buffers
  PROVE  /\ Cap(d) \in Nat \ {0} /\ Tiles \in 1 .. Cap(d)
         /\ dfb[d] \in Rings(Cap(d)) /\ BufferInv(d)
         /\ dfb[d].visible \in 0 .. Cap(d) /\ dfb[d].cap = Cap(d)
         /\ dfb[d].head \in 0 .. Cap(d) - 1
         /\ pending[<<d, "reserve">>] # None => dfb[d].visible + Tiles <= Cap(d)
<1>1. dfb[d] \in Rings(Cap(d)) /\ BufferInv(d)
  BY DEF KernelInv, BufferInv
<1> QED BY <1>1, CapType, TilesAssumption DEF Rings, BufferInv

\* A change of one buffer leaves the others.
LEMMA RingFunction ==
  ASSUME KernelInv, NEW d \in Buffers, NEW s \in Rings(Cap(d)), dfb' = [dfb EXCEPT ![d] = s]
  PROVE  /\ dfb' \in [Buffers -> UNION {Rings(Cap(e)) : e \in Buffers}]
         /\ dfb'[d] = s /\ \A e \in Buffers \ {d} : dfb'[e] = dfb[e]
<1>1. dfb \in [Buffers -> UNION {Rings(Cap(e)) : e \in Buffers}]
  BY DEF KernelInv, Shapes
<1>2. s \in UNION {Rings(Cap(e)) : e \in Buffers}
  OBVIOUS
<1> HIDE DEF Rings
<1> QED BY <1>1, <1>2

\* wait() returns a block of visible tiles.
LEMMA WaitedStep ==
  ASSUME KernelInv, Exclusive, NEW t \in Threads, Waited(t)
  PROVE  KernelInv' /\ OthersKept(t)
<1>1. /\ current = t /\ call[t] # None /\ call[t].op = "wait"
      /\ call[t] \in Calls /\ CallInv(t)
  BY DEF Waited, Resumed, KernelInv, Shapes
<1>2. PICK d \in Buffers : d = call[t].buf
  BY <1>1 DEF Calls, Sides
<1>3. t \in Users(d, "wait") /\ pending[<<d, "wait">>] = None /\ "wait" \in Sides
  BY <1>1, <1>2 DEF CallInv, Sides
<1> DEFINE s == WaitDone(WaitBegun(dfb[d], Tiles, MainThread), Tiles)
           b == NewBlock("wait", Kind[t], FrontStart(s))
<1>4. /\ WaitReady(dfb[d], Tiles)
      /\ dfb' = [dfb EXCEPT ![d] = s]
      /\ block' = [block EXCEPT ![<<d, "wait", t>>] = b]
      /\ pending' = [pending EXCEPT ![<<d, "wait">>] = t]
      /\ call' = [call EXCEPT ![t] = None] /\ UNCHANGED sched
  BY <1>2 DEF Waited, Holds, Continues
<1>5. /\ Cap(d) \in Nat \ {0} /\ dfb[d] \in Rings(Cap(d)) /\ BufferInv(d)
      /\ dfb[d].head \in 0 .. Cap(d) - 1
  BY BufferFacts
<1>6. /\ s \in Rings(Cap(d)) /\ SamePlaces(s, dfb[d]) /\ s.buf = dfb[d].buf
      /\ s.reserved = dfb[d].reserved /\ s.last_wait_target = Tiles
  BY <1>5, WaitRing
<1>7. s.head \in Nat /\ FrontStart(s) = s.head /\ Kind[t] \in {"DM", "COMPUTE"}
  BY <1>5, <1>6, KindAssumption DEF SamePlaces, FrontStart
<1>8. /\ b \in Blocks /\ Known(b) /\ b.side = "wait" /\ b.start = s.head
  BY <1>3, <1>7, NewBlockKnown
<1> HIDE DEF s, b
<1>9. dfb' \in [Buffers -> UNION {Rings(Cap(e)) : e \in Buffers}]
      /\ dfb'[d] = s /\ \A e \in Buffers \ {d} : dfb'[e] = dfb[e]
  BY <1>4, <1>6, RingFunction
<1>10. /\ pending' \in [Buffers \X Sides -> Threads \union {None}]
       /\ pending'[<<d, "wait">>] = t
       /\ \A p \in (Buffers \X Sides) \ {<<d, "wait">>} : pending'[p] = pending[p]
  BY <1>3, <1>4 DEF KernelInv, Shapes
<1>11. <<d, "wait", t>> \in Refs
  BY <1>3, RefsType
<1>12. /\ block' \in [Refs -> Blocks \union {None}]
       /\ block'[<<d, "wait", t>>] = b
       /\ \A r \in Refs \ {<<d, "wait", t>>} : block'[r] = block[r]
  BY <1>4, <1>8, <1>11 DEF KernelInv, Shapes
<1>13. t # None /\ b # None
  BY <1>8, ThreadsAssumption, NoneAssumption
<1>14. Written(s) /\ (BackWritten(dfb[d]) => BackWritten(s))
       /\ BackStart(s) = BackStart(dfb[d]) /\ s.visible >= Tiles
  BY <1>4, <1>5, <1>6 DEF BufferInv, Written, BackWritten, SamePlaces, SpanSlot, BackStart, WaitReady
<1>15. BufferInv(d)'
  <2>1. pending'[<<d, "reserve">>] = pending[<<d, "reserve">>]
    BY <1>10 DEF Sides
  <2> QED BY <1>5, <1>6, <1>9, <1>10, <1>13, <1>14, <2>1 DEF BufferInv, SamePlaces
<1>16. RefInv(<<d, "wait", t>>)'
  BY <1>8, <1>9, <1>10, <1>12, <1>13 DEF RefInv, BlockInv, FrontStart
<1> QED BY <1>1, <1>3, <1>4, <1>6, <1>9, <1>10, <1>12, <1>14, <1>15, <1>16, OneBuffer

\* reserve() returns a block of zero tiles.
LEMMA ReservedStep ==
  ASSUME KernelInv, Exclusive, NEW t \in Threads, Reserved(t)
  PROVE  KernelInv' /\ OthersKept(t)
<1>1. /\ current = t /\ call[t] # None /\ call[t].op = "reserve"
      /\ call[t] \in Calls /\ CallInv(t)
  BY DEF Reserved, Resumed, KernelInv, Shapes
<1>2. PICK d \in Buffers : d = call[t].buf
  BY <1>1 DEF Calls, Sides
<1>3. t \in Users(d, "reserve") /\ pending[<<d, "reserve">>] = None /\ "reserve" \in Sides
  BY <1>1, <1>2 DEF CallInv, Sides
<1> DEFINE s == ReserveDone(ReserveBegun(dfb[d], MainThread), Tiles)
           f == Filled(s, BackStart(s), Zero)
           b == NewBlock("reserve", Kind[t], BackStart(s))
<1>4. /\ ReserveReady(dfb[d], Tiles)
      /\ dfb' = [dfb EXCEPT ![d] = f]
      /\ block' = [block EXCEPT ![<<d, "reserve", t>>] = b]
      /\ pending' = [pending EXCEPT ![<<d, "reserve">>] = t]
      /\ call' = [call EXCEPT ![t] = None] /\ UNCHANGED sched
  BY <1>2 DEF Reserved, Holds, Continues
<1>5. /\ Cap(d) \in Nat \ {0} /\ dfb[d] \in Rings(Cap(d)) /\ BufferInv(d)
      /\ dfb[d].visible \in 0 .. Cap(d) /\ dfb[d].cap = Cap(d)
  BY BufferFacts
<1>6. /\ s \in Rings(Cap(d)) /\ SamePlaces(s, dfb[d]) /\ s.buf = dfb[d].buf
      /\ s.reserved = Tiles /\ s.last_wait_target = dfb[d].last_wait_target
  BY <1>5, ReserveRing
<1>7. s.visible + Tiles <= Cap(d)
  <2>1. dfb[d].reserved = 0
    BY <1>3, <1>5 DEF BufferInv
  <2> QED BY <1>4, <1>5, <1>6, <2>1, TilesAssumption DEF ReserveReady, Free, SamePlaces
<1>8. Written(s)
  BY <1>5, <1>6 DEF BufferInv, Written, SamePlaces, SpanSlot
<1>9. BackStart(s) \in Nat
  <2>1. 0 \in 0 .. Tiles - 1
    BY TilesAssumption
  <2>2. BackStart(s) \in 0 .. Cap(d) - 1
    BY <1>5, <1>6, <1>7, <2>1, BackSlots
  <2> QED BY <2>2
<1>10. /\ b \in Blocks /\ Known(b) /\ b.side = "reserve" /\ b.start = BackStart(s)
       /\ b.access = "MW"
  <2>1. Kind[t] \in {"DM", "COMPUTE"}
    BY KindAssumption
  <2> QED BY <1>3, <1>9, <2>1, NewBlockKnown
<1>11. /\ f \in Rings(Cap(d)) /\ SamePlaces(f, s) /\ f.reserved = Tiles
       /\ f.last_wait_target = dfb[d].last_wait_target /\ Written(f)
       /\ s.visible >= Tiles => f.buf[s.head] = s.buf[s.head]
  BY <1>5, <1>6, <1>7, <1>8, FillRing, FillBackKeeps
<1>12. /\ SamePlaces(f, dfb[d]) /\ BackStart(f) = BackStart(s)
  BY <1>6, <1>11 DEF SamePlaces, BackStart
<1> HIDE DEF s, f, b
<1>13. /\ dfb' \in [Buffers -> UNION {Rings(Cap(e)) : e \in Buffers}]
       /\ dfb'[d] = f /\ \A e \in Buffers \ {d} : dfb'[e] = dfb[e]
  BY <1>4, <1>11, RingFunction
<1>14. /\ pending' \in [Buffers \X Sides -> Threads \union {None}]
       /\ pending'[<<d, "reserve">>] = t
       /\ \A p \in (Buffers \X Sides) \ {<<d, "reserve">>} : pending'[p] = pending[p]
  BY <1>3, <1>4 DEF KernelInv, Shapes
<1>15. <<d, "reserve", t>> \in Refs
  BY <1>3, RefsType
<1>16. /\ block' \in [Refs -> Blocks \union {None}]
       /\ block'[<<d, "reserve", t>>] = b
       /\ \A r \in Refs \ {<<d, "reserve", t>>} : block'[r] = block[r]
  BY <1>4, <1>10, <1>15 DEF KernelInv, Shapes
<1>17. t # None /\ b # None
  BY <1>10, ThreadsAssumption, NoneAssumption
<1>18. BufferInv(d)'
  <2>1. pending'[<<d, "wait">>] = pending[<<d, "wait">>]
    BY <1>14 DEF Sides
  <2>2. f.visible = dfb[d].visible /\ f.visible + Tiles <= Cap(d)
    BY <1>6, <1>7, <1>11 DEF SamePlaces
  <2> QED BY <1>5, <1>11, <1>13, <1>14, <1>17, <2>1, <2>2 DEF BufferInv
<1>19. RefInv(<<d, "reserve", t>>)'
  BY <1>10, <1>12, <1>13, <1>14, <1>16, <1>17 DEF RefInv, BlockInv
<1>20. dfb'[d].head = dfb[d].head
  BY <1>12, <1>13 DEF SamePlaces
<1>21. pending[<<d, "wait">>] # None =>
         dfb'[d].buf[dfb[d].head] = dfb[d].buf[dfb[d].head]
  BY <1>5, <1>6, <1>11, <1>13 DEF BufferInv, SamePlaces
<1> QED BY <1>1, <1>3, <1>4, <1>13, <1>14, <1>16, <1>18, <1>19, <1>20, <1>21, OneBuffer

\* push_block and pop_block: the block that is closed is the thread's own.
LEMMA ClosesEffect ==
  ASSUME KernelInv, Exclusive, NEW d \in Buffers, NEW side \in Sides,
         NEW t \in Users(d, side), Closes(d, side)
  PROVE  /\ pending[<<d, side>>] \in {None, t}
         /\ pending' \in [Buffers \X Sides -> Threads \union {None}]
         /\ pending'[<<d, side>>] = None
         /\ \A p \in (Buffers \X Sides) \ {<<d, side>>} : pending'[p] = pending[p]
         /\ block' \in [Refs -> Blocks \union {None}]
         /\ \A r \in Refs \ {<<d, side, t>>} : block'[r] = block[r]
         /\ block'[<<d, side, t>>] = None
<1>1. pending[<<d, side>>] \in {None, t}
  <2>1. pending[<<d, side>>] \in Users(d, side) \union {None}
    BY DEF KernelInv, Shapes
  <2> QED BY <2>1, OneUser
<1>2. /\ pending' \in [Buffers \X Sides -> Threads \union {None}]
      /\ pending'[<<d, side>>] = None
      /\ \A p \in (Buffers \X Sides) \ {<<d, side>>} : pending'[p] = pending[p]
  BY DEF KernelInv, Shapes, Closes
<1>3. <<d, side, t>> \in Refs /\ t # None
  BY RefsType, ThreadsAssumption
<1>4. block[<<d, side, t>>] # None <=> pending[<<d, side>>] = t
  BY <1>3 DEF KernelInv, RefInv
<1>5. CASE pending[<<d, side>>] = None
  <2>1. block' = block
    BY <1>5 DEF Closes
  <2>2. block'[<<d, side, t>>] = None
    BY <1>3, <1>4, <1>5, <2>1
  <2> QED BY <1>1, <1>2, <2>1, <2>2 DEF KernelInv, Shapes
<1>6. CASE pending[<<d, side>>] = t
  <2>1. block' = [block EXCEPT ![<<d, side, t>>] = None]
    BY <1>3, <1>6 DEF Closes
  <2> QED BY <1>1, <1>2, <1>3, <2>1 DEF KernelInv, Shapes
<1> QED BY <1>1, <1>5, <1>6

\* push() publishes what was written.
LEMMA PushStep ==
  ASSUME KernelInv, Exclusive, NEW t \in Threads, NEW d \in Buffers, Push(t, d)
  PROVE  KernelInv' /\ OthersKept(t)
<1> DEFINE s == PushBack(dfb[d], Tiles)
<1>1. /\ current = t /\ t \in Users(d, "reserve") /\ "reserve" \in Sides
      /\ MayClose(d, "reserve", "PUSH") /\ PushAllowed(dfb[d], Tiles)
      /\ Closes(d, "reserve")
      /\ dfb' = [dfb EXCEPT ![d] = s]
      /\ call' = [call EXCEPT ![t] = None] /\ UNCHANGED sched
  BY DEF Push, Running, PushLegal, Continues, Users, Sides
<1>2. /\ Cap(d) \in Nat \ {0} /\ Tiles \in 1 .. Cap(d)
      /\ dfb[d] \in Rings(Cap(d)) /\ BufferInv(d) /\ dfb[d].visible \in 0 .. Cap(d)
      /\ pending[<<d, "reserve">>] # None => dfb[d].visible + Tiles <= Cap(d)
  BY BufferFacts
<1>3. /\ pending[<<d, "reserve">>] \in {None, t}
      /\ pending' \in [Buffers \X Sides -> Threads \union {None}]
      /\ pending'[<<d, "reserve">>] = None
      /\ \A p \in (Buffers \X Sides) \ {<<d, "reserve">>} : pending'[p] = pending[p]
      /\ block' \in [Refs -> Blocks \union {None}]
      /\ \A r \in Refs \ {<<d, "reserve", t>>} : block'[r] = block[r]
      /\ block'[<<d, "reserve", t>>] = None
  BY <1>1, ClosesEffect
<1>4. pending[<<d, "reserve">>] = t /\ t # None /\ dfb[d].reserved = Tiles
  BY <1>1, <1>2, <1>3, ThreadsAssumption DEF BufferInv, PushAllowed
<1>5. BackWritten(dfb[d])
  <2>1. /\ <<d, "reserve", t>> \in Refs /\ block[<<d, "reserve", t>>] # None
        /\ Expects(block[<<d, "reserve", t>>], "PUSH")
    BY <1>1, <1>4, RefsType DEF MayClose
  <2>2. BlockInv(<<d, "reserve", t>>, block[<<d, "reserve", t>>])
    BY <2>1 DEF KernelInv, RefInv
  <2>3. block[<<d, "reserve", t>>].access \notin {"MW", "NAW"}
    BY <2>1, <2>2, KnownExpects DEF BlockInv
  <2> QED BY <2>2, <2>3 DEF BlockInv
<1>6. /\ s \in Rings(Cap(d)) /\ s.head = dfb[d].head /\ s.buf = dfb[d].buf
      /\ s.visible = dfb[d].visible + Tiles
      /\ s.reserved = 0 /\ s.last_wait_target = dfb[d].last_wait_target
  BY <1>2, <1>4, PushRing
<1>7. Written(s)
  BY <1>2, <1>4, <1>5, PushKeeps DEF BufferInv
<1> HIDE DEF s
<1>8. /\ dfb' \in [Buffers -> UNION {Rings(Cap(e)) : e \in Buffers}]
      /\ dfb'[d] = s /\ \A e \in Buffers \ {d} : dfb'[e] = dfb[e]
  BY <1>1, <1>6, RingFunction
<1>9. BufferInv(d)'
  <2>1. pending'[<<d, "wait">>] = pending[<<d, "wait">>]
    BY <1>3 DEF Sides
  <2> QED BY <1>2, <1>3, <1>4, <1>6, <1>7, <1>8, <2>1 DEF BufferInv
<1>10. RefInv(<<d, "reserve", t>>)'
  BY <1>3, <1>4 DEF RefInv
<1> QED BY <1>1, <1>3, <1>6, <1>8, <1>9, <1>10, OneBuffer

\* pop() gives the oldest tiles up.
LEMMA PopStep ==
  ASSUME KernelInv, Exclusive, NEW t \in Threads, NEW d \in Buffers, Pop(t, d)
  PROVE  KernelInv' /\ OthersKept(t)
<1> DEFINE s == PopFront(dfb[d], Tiles)
<1>1. /\ current = t /\ t \in Users(d, "wait") /\ "wait" \in Sides
      /\ PopAllowed(dfb[d], Tiles)
      /\ Closes(d, "wait")
      /\ dfb' = [dfb EXCEPT ![d] = s]
      /\ call' = [call EXCEPT ![t] = None] /\ UNCHANGED sched
  BY DEF Pop, Running, PopLegal, Continues, Users, Sides
<1>2. /\ Cap(d) \in Nat \ {0} /\ Tiles \in 1 .. Cap(d)
      /\ dfb[d] \in Rings(Cap(d)) /\ BufferInv(d) /\ dfb[d].visible \in 0 .. Cap(d)
      /\ pending[<<d, "reserve">>] # None => dfb[d].visible + Tiles <= Cap(d)
  BY BufferFacts
<1>3. /\ pending' \in [Buffers \X Sides -> Threads \union {None}]
      /\ pending'[<<d, "wait">>] = None
      /\ \A p \in (Buffers \X Sides) \ {<<d, "wait">>} : pending'[p] = pending[p]
      /\ block' \in [Refs -> Blocks \union {None}]
      /\ \A r \in Refs \ {<<d, "wait", t>>} : block'[r] = block[r]
      /\ block'[<<d, "wait", t>>] = None
  BY <1>1, ClosesEffect
<1>4. dfb[d].visible >= Tiles
  BY <1>1, <1>2 DEF PopAllowed
<1>5. /\ s \in Rings(Cap(d)) /\ s.visible = dfb[d].visible - Tiles
      /\ s.reserved = dfb[d].reserved /\ s.last_wait_target = 0
  BY <1>2, <1>4, PopRing
<1>6. /\ Written(s) /\ BackStart(s) = BackStart(dfb[d])
      /\ pending[<<d, "reserve">>] # None /\ BackWritten(dfb[d]) => BackWritten(s)
      /\ pending[<<d, "reserve">>] # None =>
           s.buf[BackStart(dfb[d])] = dfb[d].buf[BackStart(dfb[d])]
  BY <1>2, <1>4, PopKeeps DEF BufferInv
<1> HIDE DEF s
<1>7. /\ dfb' \in [Buffers -> UNION {Rings(Cap(e)) : e \in Buffers}]
      /\ dfb'[d] = s /\ \A e \in Buffers \ {d} : dfb'[e] = dfb[e]
  BY <1>1, <1>5, RingFunction
<1>8. BufferInv(d)'
  <2>1. pending'[<<d, "reserve">>] = pending[<<d, "reserve">>]
    BY <1>3 DEF Sides
  <2>2. dfb[d].reserved \in {0, Tiles}
    BY <1>2 DEF Rings
  <2>3. s.visible + s.reserved <= Cap(d)
    BY <1>2, <1>5, <2>2 DEF BufferInv
  <2> QED BY <1>2, <1>3, <1>5, <1>6, <1>7, <2>1, <2>3 DEF BufferInv
<1>9. RefInv(<<d, "wait", t>>)'
  BY <1>3, ThreadsAssumption DEF RefInv
<1> QED BY <1>1, <1>3, <1>6, <1>7, <1>8, <1>9, OneBuffer

\* A copy that starts changes the state of its block only.
LEMMA CopyStep ==
  ASSUME KernelInv, Exclusive, NEW t \in Threads, NEW r \in Refs,
         NEW op \in {"COPY_SRC", "COPY_DST"}, Copy(t, r, op)
  PROVE  KernelInv' /\ OthersKept(t)
<1>1. /\ r = <<r[1], r[2], t>> /\ r[1] \in Buffers /\ r[2] \in Sides
      /\ r[3] = t /\ t \in Users(r[1], r[2])
  BY RefsType DEF Copy
<1>2. /\ current = t /\ block[r] # None /\ Expects(block[r], op)
      /\ block' = [block EXCEPT ![r] = After(block[r], op)]
      /\ dfb' = dfb /\ pending' = pending
      /\ call' = [call EXCEPT ![t] = None] /\ UNCHANGED sched
  BY DEF Copy, Running, Continues
<1>3. /\ RefInv(r) /\ BlockInv(r, block[r]) /\ BufferInv(r[1])
      /\ pending[<<r[1], r[2]>>] = t
  BY <1>1, <1>2 DEF KernelInv, RefInv
<1>4. /\ After(block[r], op) \in Blocks /\ Known(After(block[r], op))
      /\ After(block[r], op).side = block[r].side
      /\ After(block[r], op).start = block[r].start
      /\ After(block[r], op).access = IF op = "COPY_SRC" THEN "NAR" ELSE "NAW"
  BY <1>2, <1>3, AfterEffect DEF BlockInv, Expects, Leads
<1>5. /\ block' \in [Refs -> Blocks \union {None}]
      /\ block'[r] = After(block[r], op)
      /\ \A q \in Refs \ {r} : block'[q] = block[q]
  BY <1>2, <1>4 DEF KernelInv, Shapes
<1>6. op = "COPY_SRC" => block[r].access \notin {"MW", "NAW"}
  BY <1>2, <1>3, KnownExpects DEF BlockInv
<1>7. BlockInv(r, block[r])'
  BY <1>2, <1>3, <1>4, <1>5, <1>6 DEF BlockInv
<1>8. RefInv(r)'
  BY <1>2, <1>3, <1>4, <1>5, <1>7, NoneAssumption DEF RefInv
<1>9. BufferInv(r[1])'
  BY <1>2, <1>3 DEF BufferInv
<1>10. /\ dfb' \in [Buffers -> UNION {Rings(Cap(e)) : e \in Buffers}]
       /\ pending' \in [Buffers \X Sides -> Threads \union {None}]
  BY <1>2 DEF KernelInv, Shapes
<1>11. /\ \A q \in Refs \ {<<r[1], r[2], t>>} : block'[q] = block[q]
       /\ RefInv(<<r[1], r[2], t>>)'
  BY <1>1, <1>5, <1>8
<1> QED BY <1>1, <1>2, <1>3, <1>5, <1>9, <1>10, <1>11, OneBuffer

\* The window at the other end of a buffer keeps its tiles.
WindowKept(d, side) ==
  /\ side = "reserve" /\ pending[<<d, "wait">>] # None =>
       dfb'[d].buf[dfb[d].head] = dfb[d].buf[dfb[d].head]
  /\ side = "wait" /\ pending[<<d, "reserve">>] # None =>
       dfb'[d].buf[BackStart(dfb[d])] = dfb[d].buf[BackStart(dfb[d])]

\* A value written through a block: the buffer keeps its invariant, and the
\* window of a reserved block is written.
LEMMA FillOwn ==
  ASSUME KernelInv, NEW r \in Refs, block[r] # None, NEW v \in Contents,
         dfb' = [dfb EXCEPT ![r[1]] = Filled(dfb[r[1]], block[r].start, v)],
         pending' = pending
  PROVE  /\ dfb' \in [Buffers -> UNION {Rings(Cap(e)) : e \in Buffers}]
         /\ \A e \in Buffers \ {r[1]} : dfb'[e] = dfb[e]
         /\ BufferInv(r[1])'
         /\ dfb'[r[1]].head = dfb[r[1]].head
         /\ BackStart(dfb'[r[1]]) = BackStart(dfb[r[1]])
         /\ r[2] = "reserve" => BackWritten(dfb'[r[1]])
         /\ pending[<<r[1], "reserve">>] # None /\ BackWritten(dfb[r[1]]) =>
              BackWritten(dfb'[r[1]])
         /\ WindowKept(r[1], r[2])
<1> DEFINE d == r[1]
           s == dfb[d]
           f == Filled(s, block[r].start, v)
<1>1. /\ r[1] \in Buffers /\ r[2] \in Sides /\ r[3] \in Threads
      /\ RefInv(r) /\ BlockInv(r, block[r])
  BY RefsType DEF KernelInv, RefInv
<1>2. pending[<<r[1], r[2]>>] # None
  BY <1>1, ThreadsAssumption DEF RefInv
<1>3. /\ Cap(d) \in Nat \ {0} /\ Tiles \in 1 .. Cap(d)
      /\ s \in Rings(Cap(d)) /\ BufferInv(d)
      /\ s.visible \in 0 .. Cap(d) /\ s.cap = Cap(d) /\ s.head \in 0 .. Cap(d) - 1
      /\ pending[<<d, "reserve">>] # None => s.visible + Tiles <= Cap(d)
  BY <1>1, BufferFacts
<1>4. /\ f \in Rings(Cap(d)) /\ SamePlaces(f, s)
      /\ f.reserved = s.reserved /\ f.last_wait_target = s.last_wait_target
  BY <1>3, FillRing
<1>5. ASSUME r[2] = "wait"
      PROVE  /\ Written(f)
             /\ pending[<<d, "reserve">>] # None /\ BackWritten(s) => BackWritten(f)
             /\ pending[<<d, "reserve">>] # None =>
                  f.buf[BackStart(s)] = s.buf[BackStart(s)]
  <2>1. s.visible >= Tiles /\ block[r].start = s.head
    BY <1>1, <1>2, <1>3, <1>5 DEF BufferInv, BlockInv, FrontStart
  <2>2. /\ Written(f)
        /\ pending[<<d, "reserve">>] # None /\ BackWritten(s) => BackWritten(f)
        /\ pending[<<d, "reserve">>] # None =>
             f.buf[BackStart(s)] = s.buf[BackStart(s)]
    BY <1>3, <2>1, FillFrontKeeps DEF BufferInv
  <2> QED BY <2>2
<1>6. ASSUME r[2] = "reserve"
      PROVE  /\ Written(f) /\ BackWritten(f)
             /\ pending[<<d, "wait">>] # None => f.buf[s.head] = s.buf[s.head]
  <2>1. s.visible + Tiles <= Cap(d) /\ block[r].start = BackStart(s)
    BY <1>1, <1>2, <1>3, <1>6 DEF BlockInv
  <2>2. /\ Written(f) /\ BackWritten(f)
        /\ pending[<<d, "wait">>] # None => f.buf[s.head] = s.buf[s.head]
    BY <1>3, <2>1, FillBackKeeps DEF BufferInv
  <2> QED BY <2>2
<1>7. /\ Written(f)
      /\ r[2] = "reserve" => BackWritten(f)
      /\ pending[<<d, "reserve">>] # None /\ BackWritten(s) => BackWritten(f)
  BY <1>1, <1>5, <1>6 DEF Sides
<1>8. BackStart(f) = BackStart(s) /\ f.head = s.head /\ f.visible = s.visible
  BY <1>4 DEF SamePlaces, BackStart
<1> HIDE DEF f
<1>9. /\ dfb' \in [Buffers -> UNION {Rings(Cap(e)) : e \in Buffers}]
       /\ dfb'[d] = f /\ \A e \in Buffers \ {d} : dfb'[e] = dfb[e]
  <2>1. dfb' = [dfb EXCEPT ![d] = f]
    BY DEF f
  <2> QED BY <1>1, <1>4, <2>1, RingFunction
<1>10. BufferInv(d)'
  BY <1>3, <1>4, <1>7, <1>8, <1>9 DEF BufferInv
<1>11. WindowKept(d, r[2])
  BY <1>5, <1>6, <1>9 DEF WindowKept
<1> QED BY <1>7, <1>8, <1>9, <1>10, <1>11

\* A block that is written, or waited for, holds a value.
LEMMA ContentType ==
  ASSUME KernelInv, NEW r \in Refs, block[r] # None,
         r[2] = "wait" \/ block[r].access \notin {"MW", "NAW"}
  PROVE  Content(r) \in Contents
<1> DEFINE d == r[1]
           s == dfb[d]
<1>1. /\ r[1] \in Buffers /\ r[2] \in Sides /\ r[3] \in Threads
      /\ RefInv(r) /\ BlockInv(r, block[r])
  BY RefsType DEF KernelInv, RefInv
<1>2. pending[<<r[1], r[2]>>] # None
  BY <1>1, ThreadsAssumption DEF RefInv
<1>3. /\ Cap(d) \in Nat \ {0} /\ Tiles \in 1 .. Cap(d)
      /\ s \in Rings(Cap(d)) /\ BufferInv(d)
      /\ s.visible \in 0 .. Cap(d) /\ s.cap = Cap(d) /\ s.head \in 0 .. Cap(d) - 1
      /\ pending[<<d, "reserve">>] # None => s.visible + Tiles <= Cap(d)
  BY <1>1, BufferFacts
<1>4. CASE r[2] = "wait"
  <2>1. block[r].start = s.head /\ 0 \in 0 .. s.visible - 1
    BY <1>1, <1>2, <1>3, <1>4 DEF BlockInv, BufferInv, FrontStart
  <2>2. SpanSlot(s, s.head, 0) = s.head
    BY <1>3, FirstSlot
  <2> QED BY <1>3, <2>1, <2>2 DEF BufferInv, Written, Content
<1>5. CASE r[2] = "reserve"
  <2>1. block[r].start = BackStart(s) /\ 0 \in 0 .. Tiles - 1 /\ BackWritten(s)
    BY <1>1, <1>3, <1>5 DEF BlockInv
  <2>2. BackStart(s) \in 0 .. Cap(d) - 1
    BY <1>2, <1>3, <1>5, <2>1, BackSlots
  <2>3. SpanSlot(s, BackStart(s), 0) = BackStart(s)
    BY <1>3, <2>2, FirstSlot
  <2> QED BY <2>1, <2>3 DEF BackWritten, Content
<1> QED BY <1>1, <1>4, <1>5 DEF Sides

\* tx.wait() ends a copy, which wrote its block if it is the destination.
LEMMA TransferredStep ==
  ASSUME KernelInv, Exclusive, NEW t \in Threads, Transferred(t)
  PROVE  KernelInv' /\ OthersKept(t)
<1>1. /\ current = t /\ call[t] # None /\ call[t].op = "tx_wait"
      /\ call[t] \in Calls /\ CallInv(t)
  BY DEF Transferred, Resumed, KernelInv, Shapes
<1>2. PICK r \in Refs : r = call[t].ref
  BY <1>1 DEF Calls, Sides
<1>3. PICK v \in Contents : v = {call[t].tile}
  BY <1>1 DEF Calls, Sides, Contents
<1>4. /\ r = <<r[1], r[2], t>> /\ r[1] \in Buffers /\ r[2] \in Sides
      /\ r[3] = t /\ t \in Users(r[1], r[2])
      /\ block[r] # None /\ InFlight(block[r])
  BY <1>1, <1>2, RefsType DEF CallInv
<1>5. /\ IF block[r].access = "NAW"
         THEN dfb' = [dfb EXCEPT ![r[1]] = Filled(dfb[r[1]], block[r].start, v)]
         ELSE dfb' = dfb
      /\ block' = [block EXCEPT ![r] = After(block[r], "TX_WAIT")]
      /\ pending' = pending
      /\ call' = [call EXCEPT ![t] = None] /\ UNCHANGED sched
  BY <1>2, <1>3 DEF Transferred, Continues
<1>6. /\ RefInv(r) /\ BlockInv(r, block[r]) /\ BufferInv(r[1])
      /\ pending[<<r[1], r[2]>>] = t
  BY <1>4 DEF KernelInv, RefInv
<1>7. Expects(block[r], "TX_WAIT")
  BY <1>4, <1>6, KnownExpects DEF BlockInv
<1>8. /\ After(block[r], "TX_WAIT") \in Blocks /\ Known(After(block[r], "TX_WAIT"))
      /\ After(block[r], "TX_WAIT").side = block[r].side
      /\ After(block[r], "TX_WAIT").start = block[r].start
  BY <1>6, <1>7, AfterEffect DEF BlockInv, Expects
<1>9. /\ block' \in [Refs -> Blocks \union {None}]
      /\ block'[r] = After(block[r], "TX_WAIT")
      /\ \A q \in Refs \ {r} : block'[q] = block[q]
  BY <1>5, <1>8 DEF KernelInv, Shapes
<1>10. /\ dfb' \in [Buffers -> UNION {Rings(Cap(e)) : e \in Buffers}]
       /\ \A e \in Buffers \ {r[1]} : dfb'[e] = dfb[e]
       /\ BufferInv(r[1])'
       /\ dfb'[r[1]].head = dfb[r[1]].head
       /\ BackStart(dfb'[r[1]]) = BackStart(dfb[r[1]])
       /\ r[2] = "reserve" => BackWritten(dfb'[r[1]])
       /\ pending[<<r[1], "reserve">>] # None /\ BackWritten(dfb[r[1]]) =>
            BackWritten(dfb'[r[1]])
       /\ WindowKept(r[1], r[2])
  <2>1. CASE block[r].access = "NAW"
    BY <1>4, <1>5, <2>1, FillOwn
  <2>2. CASE block[r].access # "NAW"
    <3>1. dfb' = dfb /\ block[r].access = "NAR"
      BY <1>4, <1>5, <2>2 DEF InFlight
    <3>2. r[2] = "reserve" => BackWritten(dfb[r[1]])
      BY <1>6, <3>1 DEF BlockInv
    <3>3. BufferInv(r[1])'
      BY <1>5, <1>6, <3>1 DEF BufferInv
    <3> QED BY <3>1, <3>2, <3>3 DEF KernelInv, Shapes, WindowKept
  <2> QED BY <2>1, <2>2
<1>11. BlockInv(r, block[r])'
  BY <1>6, <1>8, <1>9, <1>10 DEF BlockInv, FrontStart
<1>12. RefInv(r)'
  BY <1>4, <1>5, <1>6, <1>8, <1>9, <1>11, NoneAssumption DEF RefInv
<1>13. /\ pending' \in [Buffers \X Sides -> Threads \union {None}]
       /\ \A q \in Refs \ {<<r[1], r[2], t>>} : block'[q] = block[q]
       /\ RefInv(<<r[1], r[2], t>>)'
  BY <1>4, <1>5, <1>9, <1>12 DEF KernelInv, Shapes
<1>14. pending'[<<r[1], r[2]>>] \in {None, t} /\ \A p \in Buffers \X Sides : pending'[p] = pending[p]
  BY <1>5, <1>6
<1> QED BY <1>1, <1>4, <1>5, <1>9, <1>10, <1>13, <1>14, OneBuffer DEF WindowKept

\* Being read changes the state of a waited block only.
LEMMA ReadEffect ==
  ASSUME NEW b \in Blocks, Known(b)
  PROVE  /\ Read(b) \in Blocks /\ Known(Read(b))
         /\ Read(b).side = b.side /\ Read(b).start = b.start
         /\ b.side # "wait" => Read(b) = b
<1>1. CASE Marks(b)
  <2>1. "STORE_SRC" \in b.expected \ {"PUSH", "POP"} /\ b.side = "wait"
    BY <1>1 DEF Marks, Expects
  <2>2. Read(b) = After(b, "STORE_SRC")
    BY <1>1 DEF Read
  <2> QED BY <2>1, <2>2, AfterEffect
<1>2. CASE ~Marks(b)
  BY <1>2 DEF Read
<1> QED BY <1>1, <1>2

\* store() writes one block, and reads the others.
LEMMA StoreStep ==
  ASSUME KernelInv, Exclusive, NEW t \in Threads, NEW into \in Own(t),
         NEW from \in SUBSET Own(t), NEW acc \in BOOLEAN, Store(t, into, from, acc)
  PROVE  KernelInv' /\ OthersKept(t)
<1> DEFINE result == UNION {Content(x) : x \in from}
           adds   == acc /\ block[into].access # "MW"
           target == Target(into, from)
           stored == After(target, StoreOp(acc))
<1>1. /\ into \in Refs /\ into = <<into[1], into[2], t>>
      /\ into[1] \in Buffers /\ into[2] \in Sides
      /\ into[3] = t /\ t \in Users(into[1], into[2])
      /\ \A x \in from : x \in Refs /\ x[3] = t
  BY RefsType DEF Own
<1>2. /\ current = t
      /\ \A x \in from : block[x] # None /\ CanRead(block[x])
      /\ block[into] # None /\ CanWrite(block[into])
      /\ Expects(target, StoreOp(acc))
      /\ block' = [r \in Refs |->
                     IF r = into THEN stored
                     ELSE IF r \in from THEN Read(block[r]) ELSE block[r]]
      /\ pending' = pending
      /\ call' = [call EXCEPT ![t] = None] /\ UNCHANGED sched
  BY DEF Store, Running, StoreLegal, Continues
<1>3. result \in Contents
  <2>1. \A x \in from : Content(x) \in Contents
    BY <1>1, <1>2, ContentType DEF CanRead
  <2> QED BY <2>1 DEF Contents
<1>4. adds => Content(into) \in Contents
  BY <1>1, <1>2, ContentType DEF CanWrite
<1>5. PICK v \in Contents : v = IF adds THEN Content(into) \union result ELSE result
  BY <1>3, <1>4 DEF Contents
<1>6. dfb' = [dfb EXCEPT ![into[1]] = Filled(dfb[into[1]], block[into].start, v)]
  BY <1>5 DEF Store
<1>7. /\ RefInv(into) /\ BlockInv(into, block[into])
      /\ pending[<<into[1], into[2]>>] = t
  BY <1>1, <1>2 DEF KernelInv, RefInv
<1>8. /\ target \in Blocks /\ Known(target)
      /\ target.side = block[into].side /\ target.start = block[into].start
  BY <1>7, ReadEffect DEF BlockInv, Target
<1>9. /\ stored \in Blocks /\ Known(stored)
      /\ stored.side = block[into].side /\ stored.start = block[into].start
  <2>1. StoreOp(acc) \in target.expected \ {"PUSH", "POP"}
    BY <1>2 DEF Expects, StoreOp
  <2> HIDE DEF target
  <2> QED BY <1>8, <2>1, AfterEffect
<1> HIDE DEF result, adds, target, stored
<1>10. \A r \in Refs \ {into} : block'[r] = block[r] \/ ReadBy(t, r)
  <2> SUFFICES ASSUME NEW r \in Refs \ {into}, r \in from, block[r].side = "wait"
               PROVE  ReadBy(t, r)
    <3>1. ASSUME NEW r \in Refs \ {into}, r \in from, block[r].side # "wait"
          PROVE  block'[r] = block[r]
      <4>1. block'[r] = Read(block[r]) /\ block[r] # None
        BY <1>2, <3>1
      <4>2. block[r] \in Blocks /\ Known(block[r])
        BY <4>1 DEF KernelInv, RefInv, BlockInv
      <4> QED BY <3>1, <4>1, <4>2, ReadEffect
    <3>2. \A r \in Refs \ {into} : r \notin from => block'[r] = block[r]
      BY <1>2
    <3> QED BY <3>1, <3>2
  <2>1. block'[r] = Read(block[r]) /\ block[r] # None /\ r[3] = t
    BY <1>1, <1>2
  <2>2. block[r] \in Blocks /\ Known(block[r]) /\ r[2] = "wait"
    BY <2>1 DEF KernelInv, RefInv, BlockInv
  <2> QED BY <2>1, <2>2, ReadEffect DEF ReadBy
<1>11. block'[into] = stored
  BY <1>1, <1>2
<1>12. block' \in [Refs -> Blocks \union {None}]
  <2>1. \A r \in Refs : block'[r] \in Blocks \union {None}
    BY <1>9, <1>10, <1>11 DEF ReadBy, KernelInv, Shapes
  <2>2. block' = [r \in Refs |-> block'[r]]
    BY <1>2
  <2> QED BY <2>1, <2>2
<1>13. /\ dfb' \in [Buffers -> UNION {Rings(Cap(e)) : e \in Buffers}]
       /\ \A e \in Buffers \ {into[1]} : dfb'[e] = dfb[e]
       /\ BufferInv(into[1])'
       /\ dfb'[into[1]].head = dfb[into[1]].head
       /\ BackStart(dfb'[into[1]]) = BackStart(dfb[into[1]])
       /\ into[2] = "reserve" => BackWritten(dfb'[into[1]])
       /\ pending[<<into[1], "reserve">>] # None /\ BackWritten(dfb[into[1]]) =>
            BackWritten(dfb'[into[1]])
       /\ WindowKept(into[1], into[2])
  BY <1>1, <1>2, <1>6, FillOwn
<1>14. BlockInv(into, block[into])'
  BY <1>7, <1>9, <1>11, <1>13 DEF BlockInv, FrontStart
<1>15. RefInv(into)'
  BY <1>2, <1>7, <1>9, <1>11, <1>14, NoneAssumption DEF RefInv
<1>16. /\ \A r \in Refs \ {<<into[1], into[2], t>>} : block'[r] = block[r] \/ ReadBy(t, r)
       /\ RefInv(<<into[1], into[2], t>>)'
  BY <1>1, <1>10, <1>15
<1>17. /\ pending' \in [Buffers \X Sides -> Threads \union {None}]
       /\ pending'[<<into[1], into[2]>>] \in {None, t}
       /\ \A p \in Buffers \X Sides : pending'[p] = pending[p]
  BY <1>2, <1>7 DEF KernelInv, Shapes
<1> QED BY <1>1, <1>2, <1>12, <1>13, <1>16, <1>17, OneBuffer DEF WindowKept

-----------------------------------------------------------------------------
(* Blocking, and the scheduler.                                            *)

\* Steps that change neither buffers nor blocks.
LEMMA KernelKept ==
  ASSUME KernelInv, UNCHANGED <<dfb, block, pending>>,
         call' \in [Threads -> Calls \union {None}], \A u \in Threads : CallInv(u)'
  PROVE  KernelInv'
<1>1. \A d \in Buffers : BufferInv(d)'
  BY DEF KernelInv, BufferInv
<1>2. \A r \in Refs : RefInv(r)'
  BY DEF KernelInv, RefInv, BlockInv
<1>3. Shapes'
  BY DEF KernelInv, Shapes
<1> QED BY <1>1, <1>2, <1>3 DEF KernelInv

\* A thread begins an operation it may have to wait for.
LEMMA BlockStep ==
  ASSUME KernelInv, Scheduler!TypeOK, NEW t \in Threads, Running(t),
         NEW c \in Calls, BlockIfNeeded(t, c),
         c.op \in Sides => t \in Users(c.buf, c.op) /\ pending[<<c.buf, c.op>>] = None,
         c.op = "tx_wait" =>
           c.ref[3] = t /\ block[c.ref] # None /\ InFlight(block[c.ref])
  PROVE  KernelInv'
<1>1. /\ current = t /\ call[t] = None /\ call \in [Threads -> Calls \union {None}]
      /\ call' = [call EXCEPT ![t] = c] /\ UNCHANGED <<dfb, block, pending>>
  BY DEF Running, BlockIfNeeded, KernelInv, Shapes
<1>2. call' \in [Threads -> Calls \union {None}] /\ call'[t] = c /\ c # None
  BY <1>1, NoneAssumption
<1>3. CASE Can(c) /\ UNCHANGED sched
  <2>1. CallInv(t)'
    BY <1>1, <1>2, <1>3 DEF CallInv, Can, sched, KernelInv
  <2>2. ASSUME NEW u \in Threads, u # t PROVE CallInv(u)'
    <3>1. CallInv(u) /\ call'[u] = call[u]
      BY <1>1, <2>2 DEF KernelInv
    <3> QED BY <1>1, <1>3, <2>2, <3>1 DEF CallInv, sched
  <2> QED BY <1>1, <1>2, <2>1, <2>2, KernelKept
<1>4. CASE Scheduler!Block
  <2>1. current' = None /\ blocked' = [blocked EXCEPT ![t] = TRUE]
    BY <1>1, <1>4 DEF Scheduler!Block, Scheduler!Returns
  <2>2. blocked \in [Threads -> BOOLEAN] /\ t # None
    BY ThreadsAssumption DEF Scheduler!TypeOK
  <2>3. CallInv(t)'
    BY <1>1, <1>2, <2>1, <2>2 DEF CallInv
  <2>4. ASSUME NEW u \in Threads, u # t PROVE CallInv(u)'
    <3>1. CallInv(u) /\ call'[u] = call[u] /\ blocked'[u] = blocked[u] /\ current' # u
      BY <1>1, <2>1, <2>2, <2>4, ThreadsAssumption DEF KernelInv
    <3> QED BY <1>1, <2>4, <3>1 DEF CallInv
  <2> QED BY <1>1, <1>2, <2>3, <2>4, KernelKept
<1> QED BY <1>3, <1>4 DEF BlockIfNeeded

\* The calls of wait() and reserve().
LEMMA AcquireStep ==
  ASSUME KernelInv, Scheduler!TypeOK, NEW t \in Threads,
         NEW d \in Buffers, NEW side \in Sides, Acquire(t, d, side)
  PROVE  KernelInv'
<1> DEFINE c == [op |-> side, buf |-> d]
<1>1. c \in Calls /\ c.op = side /\ c.buf = d /\ c.op # "tx_wait"
  BY DEF Calls, Sides
<1>2. /\ Running(t) /\ BlockIfNeeded(t, c)
      /\ t \in Users(d, side) /\ pending[<<d, side>>] = None
  BY DEF Acquire
<1> HIDE DEF c
<1> QED BY <1>1, <1>2, BlockStep

\* The call of tx.wait().
LEMMA TxWaitStep ==
  ASSUME KernelInv, Scheduler!TypeOK, NEW t \in Threads,
         NEW r \in Own(t), NEW tile \in Inputs, TxWait(t, r, tile)
  PROVE  KernelInv'
<1> DEFINE c == [op |-> "tx_wait", ref |-> r, tile |-> tile]
<1>1. c \in Calls /\ c.op \notin Sides /\ c.ref = r
  BY DEF Calls, Sides, Own
<1>2. /\ Running(t) /\ BlockIfNeeded(t, c)
      /\ r[3] = t /\ block[r] # None /\ InFlight(block[r])
  BY DEF TxWait
<1> HIDE DEF c
<1> QED BY <1>1, <1>2, BlockStep

\* The scheduler gives a blocked thread the processor once it can proceed.
LEMMA SchedulerKeeps ==
  ASSUME KernelInv, Scheduler!TypeOK, SchedulerStep
  PROVE  KernelInv'
<1>1. UNCHANGED <<dfb, block, pending>> /\ call' = call
      /\ call \in [Threads -> Calls \union {None}] /\ blocked \in [Threads -> BOOLEAN]
  BY DEF SchedulerStep, kernel, KernelInv, Shapes, Scheduler!TypeOK
<1>2. CASE UNCHANGED <<blocked, current>>
  <2>1. ASSUME NEW u \in Threads PROVE CallInv(u)'
    <3>1. CallInv(u)
      BY DEF KernelInv
    <3> QED BY <1>1, <1>2, <3>1 DEF CallInv, Can
  <2> QED BY <1>1, <2>1, KernelKept
<1>3. ASSUME NEW t \in Threads, Scheduler!Switch(t) PROVE KernelInv'
  <2>1. /\ current = None /\ current' = t
        /\ blocked' = [blocked EXCEPT ![t] = FALSE]
        /\ blocked[t] => Ready[t]
    BY <1>3 DEF Scheduler!Switch, Scheduler!Idle
  <2>2. CallInv(t)'
    <3>1. call[t] # None => blocked[t]
      BY <2>1, ThreadsAssumption DEF KernelInv, CallInv
    <3>2. call[t] # None => Can(call[t])
      BY <2>1, <3>1 DEF Ready
    <3>3. CallInv(t)
      BY DEF KernelInv
    <3> QED BY <1>1, <2>1, <3>2, <3>3 DEF CallInv, Can
  <2>3. ASSUME NEW u \in Threads, u # t PROVE CallInv(u)'
    <3>1. CallInv(u) /\ blocked'[u] = blocked[u] /\ current # u /\ current' # u
      BY <1>1, <2>1, <2>3, ThreadsAssumption DEF KernelInv
    <3> QED BY <1>1, <3>1 DEF CallInv
  <2> QED BY <1>1, <2>2, <2>3, KernelKept
<1>4. ASSUME NEW t \in Threads, Scheduler!Skip(t) PROVE UNCHANGED <<blocked, current>>
  BY <1>4 DEF Scheduler!Skip
<1> QED BY <1>2, <1>3, <1>4 DEF SchedulerStep, Scheduler!Scheduler, Scheduler!InitEnds,
          Scheduler!PassBegins, Scheduler!AllDone, Scheduler!Deadlocks

\* A thread that ends, or raises, waits for nothing.
LEMMA EndStep ==
  ASSUME KernelInv, NEW t \in Threads, Return(t) \/ Raise(t)
  PROVE  KernelInv'
<1>1. /\ current = t /\ call[t] = None /\ current' = None /\ blocked' = blocked
      /\ UNCHANGED <<dfb, block, pending>> /\ call' = call
      /\ call \in [Threads -> Calls \union {None}]
  BY DEF Return, Raise, Running, kernel, Scheduler!Complete, Scheduler!Fail,
         Scheduler!Returns, KernelInv, Shapes
<1>2. ASSUME NEW u \in Threads PROVE CallInv(u)'
  <2>1. CallInv(u) /\ (u = t => call[u] = None) /\ current' # u
    BY <1>1, ThreadsAssumption DEF KernelInv
  <2> QED BY <1>1, <2>1 DEF CallInv
<1> QED BY <1>1, <1>2, KernelKept

-----------------------------------------------------------------------------
(* Every step.                                                             *)

\* A kernel starts with empty buffers and no blocks.
LEMMA KernelInvInit == Init => KernelInv
<1> SUFFICES ASSUME Init PROVE KernelInv
  OBVIOUS
<1>1. /\ dfb = [d \in Buffers |-> Configured(Cap(d))] /\ block = [r \in Refs |-> None]
      /\ pending = [p \in Buffers \X Sides |-> None]
      /\ call = [t \in Threads |-> None]
      /\ current = None /\ blocked = [t \in Threads |-> FALSE]
  BY DEF Init, Scheduler!Init
<1>2. ASSUME NEW d \in Buffers
      PROVE  /\ dfb[d] \in Rings(Cap(d)) /\ dfb[d].visible = 0 /\ dfb[d].reserved = 0
             /\ dfb[d].last_wait_target = 0
  <2>1. Cap(d) \in Nat \ {0}
    BY CapType
  <2>2. dfb[d] = Configured(Cap(d))
    BY <1>1
  <2> QED BY <2>1, <2>2 DEF Configured, Rings
<1>3. Shapes
  <2>1. dfb \in [Buffers -> UNION {Rings(Cap(d)) : d \in Buffers}]
    <3>1. \A d \in Buffers : Configured(Cap(d)) \in UNION {Rings(Cap(e)) : e \in Buffers}
      BY <1>1, <1>2
    <3> HIDE DEF Rings, Configured
    <3> QED BY <1>1, <3>1
  <2> QED BY <1>1, <2>1 DEF Shapes
<1>4. ASSUME NEW d \in Buffers PROVE BufferInv(d)
  BY <1>1, <1>2, CapType DEF BufferInv, Written, Sides
<1>5. ASSUME NEW r \in Refs PROVE RefInv(r)
  BY <1>1, RefsType, ThreadsAssumption DEF RefInv
<1>6. ASSUME NEW t \in Threads PROVE CallInv(t)
  BY <1>1 DEF CallInv
<1> QED BY <1>3, <1>4, <1>5, <1>6 DEF KernelInv

\* An operation of a thread.
Operates(t) ==
  \/ Waited(t) \/ Reserved(t) \/ Transferred(t)
  \/ \E d \in Buffers : Push(t, d) \/ Pop(t, d)
  \/ \E r \in Refs, op \in {"COPY_SRC", "COPY_DST"} : Copy(t, r, op)
  \/ \E into \in Own(t), from \in SUBSET Own(t), acc \in BOOLEAN : Store(t, into, from, acc)

\* Steps that change no buffer and no block.
Waits(t) ==
  \/ \E d \in Buffers, side \in Sides : Acquire(t, d, side)
  \/ \E r \in Own(t), tile \in Inputs : TxWait(t, r, tile)

\* Next, by what a step does to buffers and blocks.
LEMMA OperateCases ==
  ASSUME NEW t \in Threads, Operate(t)
  PROVE  Operates(t) \/ Waits(t) \/ Return(t)
BY DEF Operate, Operates, Waits, Own

\* The operations, together.
LEMMA OperatesStep ==
  ASSUME KernelInv, Exclusive, NEW t \in Threads, Operates(t)
  PROVE  KernelInv' /\ OthersKept(t)
BY WaitedStep, ReservedStep, TransferredStep, PushStep, PopStep, CopyStep, StoreStep
   DEF Operates

\* The calls of blocking operations, together.
LEMMA WaitsStep ==
  ASSUME KernelInv, Scheduler!TypeOK, NEW t \in Threads, Waits(t)
  PROVE  KernelInv' /\ dfb' = dfb /\ block' = block
<1>1. dfb' = dfb /\ block' = block
  BY DEF Waits, Acquire, TxWait, BlockIfNeeded
<1>2. KernelInv'
  BY AcquireStep, TxWaitStep DEF Waits
<1> QED BY <1>1, <1>2

\* Every step keeps the invariant of buffers, blocks and calls.
LEMMA KernelInvStep ==
  ASSUME KernelInv, Exclusive, Scheduler!TypeOK, [Next]_vars
  PROVE  KernelInv'
<1>1. CASE SchedulerStep
  BY <1>1, SchedulerKeeps
<1>2. ASSUME NEW t \in Threads, Operate(t) PROVE KernelInv'
  BY <1>2, OperateCases, OperatesStep, WaitsStep, EndStep
<1>3. ASSUME NEW t \in Threads, Raise(t) PROVE KernelInv'
  BY <1>3, EndStep
<1>4. CASE UNCHANGED vars
  <2>1. UNCHANGED <<dfb, block, pending, call, current, blocked>>
    BY <1>4 DEF vars, kernel, sched
  <2>2. \A u \in Threads : CallInv(u)'
    BY <2>1 DEF KernelInv, CallInv, Can
  <2>3. call' \in [Threads -> Calls \union {None}]
    BY <2>1 DEF KernelInv, Shapes
  <2> QED BY <2>1, <2>2, <2>3, KernelKept
<1> QED BY <1>1, <1>2, <1>3, <1>4 DEF Next

-----------------------------------------------------------------------------
(* The scheduler's own invariant, and its specification.                   *)

\* The theorems of GreenletScheduler, about its variables as SimKernel has them.
P == INSTANCE GreenletScheduler_proofs
       WITH ready <- Ready, passed <- [t \in Threads |-> {}]

\* Both instances speak of the same scheduler: its initial states,
LEMMA SameInit == Scheduler!Init <=> P!Init
BY DEF Scheduler!Init, P!Init

\* its invariant,
LEMMA SameInv == Scheduler!IInv <=> P!IInv
BY DEF Scheduler!IInv, P!IInv, Scheduler!TypeOK, P!TypeOK,
       Scheduler!CandidatesActive, P!CandidatesActive,
       Scheduler!CurrentRuns, P!CurrentRuns, Scheduler!FirstPassAhead, P!FirstPassAhead,
       Scheduler!Stalled, P!Stalled, Scheduler!DeadlockSound, P!DeadlockSound,
       Scheduler!Idle, P!Idle

\* and its steps.
LEMMA SameNext == [Scheduler!Next]_(Scheduler!vars) <=> [P!Next]_(P!vars)
BY DEF Scheduler!vars, P!vars, Scheduler!Next, P!Next, Scheduler!Scheduler, P!Scheduler,
       Scheduler!InitEnds, P!InitEnds, Scheduler!PassBegins, P!PassBegins,
       Scheduler!AllDone, P!AllDone, Scheduler!Deadlocks, P!Deadlocks,
       Scheduler!Skip, P!Skip, Scheduler!Switch, P!Switch, Scheduler!IsNext, P!IsNext,
       Scheduler!Work, P!Work, Scheduler!Block, P!Block, Scheduler!Returns, P!Returns,
       Scheduler!Complete, P!Complete, Scheduler!Fail, P!Fail,
       Scheduler!Stamped, P!Stamped, Scheduler!Idle, P!Idle,
       Scheduler!sched, P!sched

\* The scheduler's invariant holds at first.
LEMMA SchedulerInit == Scheduler!Init => Scheduler!IInv
BY SameInit, SameInv, P!InitInvariant, ThreadsAssumption

\* Every step the scheduler's specification allows keeps it.
LEMMA SchedulerInvStep ==
  Scheduler!IInv /\ [Scheduler!Next]_(Scheduler!vars) => Scheduler!IInv'
<1>1. P!IInv /\ [P!Next]_(P!vars) => P!IInv'
  BY P!StepInvariant, ThreadsAssumption
<1>2. Scheduler!IInv' <=> P!IInv'
  BY SameInv, PTL
<1> QED BY <1>1, <1>2, SameInv, SameNext

-----------------------------------------------------------------------------
(* The kernel behaves as the scheduler's specification allows.             *)

\* What the running thread does between two synchronization points.
LEMMA OperatesWorks ==
  ASSUME NEW t \in Threads, Operates(t)
  PROVE  Scheduler!Work
<1>1. current = t /\ UNCHANGED sched
  BY DEF Operates, Waited, Reserved, Transferred, Push, Pop, Copy, Store, Continues,
         Running, Resumed
<1>2. Ready' \in [Threads -> BOOLEAN]
  BY DEF Ready, Can, WaitReady, ReserveReady
<1> QED BY <1>1, <1>2, ThreadsAssumption
        DEF Scheduler!Work, Scheduler!Idle, Scheduler!sched, sched

\* block_if_needed goes on, or gives the processor back.
LEMMA WaitsAsScheduled ==
  ASSUME NEW t \in Threads, Waits(t)
  PROVE  Scheduler!Work \/ Scheduler!Block
<1>1. current = t /\ (UNCHANGED sched \/ Scheduler!Block)
  BY DEF Waits, Acquire, TxWait, BlockIfNeeded, Running
<1>2. Ready' \in [Threads -> BOOLEAN]
  BY DEF Ready, Can, WaitReady, ReserveReady
<1> QED BY <1>1, <1>2, ThreadsAssumption
        DEF Scheduler!Work, Scheduler!Idle, Scheduler!sched, sched

\* Every step of a kernel is one the scheduler's specification allows.
LEMMA NextIsScheduled == [Next]_vars => [Scheduler!Next]_(Scheduler!vars)
<1> SUFFICES ASSUME [Next]_vars PROVE [Scheduler!Next]_(Scheduler!vars)
  OBVIOUS
<1>1. CASE SchedulerStep
  BY <1>1 DEF SchedulerStep, Scheduler!Next
<1>2. ASSUME NEW t \in Threads, Operate(t) PROVE Scheduler!Next
  <2>1. CASE Return(t)
    BY <2>1 DEF Return, Scheduler!Next
  <2> QED BY <1>2, <2>1, OperateCases, OperatesWorks, WaitsAsScheduled DEF Scheduler!Next
<1>3. ASSUME NEW t \in Threads, Raise(t) PROVE Scheduler!Next
  BY <1>3 DEF Raise, Scheduler!Next
<1>4. CASE UNCHANGED vars
  <2>1. Ready' = Ready
    BY <1>4 DEF vars, kernel, Ready, Can
  <2> QED BY <1>4, <2>1 DEF vars, sched, Scheduler!vars
<1> QED BY <1>1, <1>2, <1>3, <1>4 DEF Next

\* A kernel is a behaviour of GreenletScheduler, even when two threads reserve
\* the same buffer.
THEOREM ImplementsScheduler == Spec => UsesScheduler
<1>1. Init => Scheduler!Init
  BY DEF Init
<1> QED BY <1>1, NextIsScheduled, PTL DEF Spec, UsesScheduler, Scheduler!Spec

-----------------------------------------------------------------------------
(* What every kernel with one reserver per buffer keeps.                   *)

\* The invariant holds at first.
LEMMA InvInit == Init => IInv
BY KernelInvInit, SchedulerInit DEF Init, IInv

\* Every step keeps it.
LEMMA InvStep == Exclusive /\ IInv /\ [Next]_vars => IInv'
BY KernelInvStep, NextIsScheduled, SchedulerInvStep DEF IInv, Scheduler!IInv

\* The inductive invariant, from which the properties below follow.
THEOREM KernelInvariant ==
  ASSUME Exclusive
  PROVE  Spec => []IInv
<1>1. IInv /\ [Next]_vars => IInv'
  BY InvStep
<1> QED BY InvInit, <1>1, PTL DEF Spec

\* No ring counts more tiles than it has slots, and blocks and calls are what
\* their annotations say.
THEOREM TypeCorrect ==
  ASSUME Exclusive
  PROVE  Spec => []TypeOK
<1>1. ASSUME IInv PROVE TypeOK
  <2>1. \A r \in Refs : block[r] # None => block[r] \in Blocks
    BY <1>1 DEF IInv, KernelInv, RefInv, BlockInv
  <2>2. ASSUME NEW d \in Buffers
        PROVE  /\ dfb[d].cap = Cap(d) /\ dfb[d].head \in 0 .. Cap(d) - 1
               /\ dfb[d].visible + dfb[d].reserved \in 0 .. Cap(d)
               /\ \A i \in 0 .. Cap(d) - 1 : dfb[d].buf[i] \in Contents \union {None, Zero}
    <3>1. /\ Cap(d) \in Nat /\ dfb[d].cap = Cap(d) /\ dfb[d].head \in 0 .. Cap(d) - 1
          /\ dfb[d].visible \in 0 .. Cap(d) /\ dfb[d] \in Rings(Cap(d)) /\ BufferInv(d)
      BY <1>1, BufferFacts DEF IInv
    <3>2. /\ dfb[d].buf \in [0 .. Cap(d) - 1 -> Contents \union {None, Zero}]
          /\ dfb[d].reserved \in {0, Tiles}
      BY <3>1 DEF Rings
    <3>3. dfb[d].visible + dfb[d].reserved \in 0 .. Cap(d)
      BY <3>1, <3>2, TilesAssumption DEF BufferInv
    <3> QED BY <3>1, <3>2, <3>3
  <2> QED BY <1>1, <2>1, <2>2 DEF TypeOK, IInv, KernelInv, Shapes
<1> QED BY KernelInvariant, <1>1, PTL

\* Pending blocks, the blocks of the threads and the counters of the ring agree.
THEOREM PendingMatches ==
  ASSUME Exclusive
  PROVE  Spec => []PendingMatchesRing
<1>1. ASSUME IInv, NEW d \in Buffers, NEW side \in Sides, NEW t \in Users(d, side)
      PROVE  /\ block[<<d, side, t>>] # None <=> pending[<<d, side>>] = t
             /\ pending[<<d, side>>] = t =>
                  block[<<d, side, t>>].start =
                    IF side = "wait" THEN FrontStart(dfb[d]) ELSE BackStart(dfb[d])
  <2>1. <<d, side, t>> \in Refs
    BY RefsType
  <2> QED BY <1>1, <2>1 DEF IInv, KernelInv, RefInv, BlockInv
<1>2. ASSUME IInv PROVE PendingMatchesRing
  BY <1>1, <1>2 DEF PendingMatchesRing, IInv, KernelInv, BufferInv, Users, Sides
<1> QED BY KernelInvariant, <1>2, PTL

\* A thread resumed in a blocking operation finds the operation possible.
THEOREM ResumedServed ==
  ASSUME Exclusive
  PROVE  Spec => []ResumedIsServed
<1>1. ASSUME IInv, NEW t \in Threads, current = t, call[t] # None
      PROVE  /\ Can(call[t])
             /\ call[t].op = "wait" =>
                  LET s == dfb[call[t].buf]
                  IN WaitAdmitted(s, MainThread) /\ WaitCumulative(s, Tiles)
             /\ call[t].op = "reserve" =>
                  LET s == dfb[call[t].buf]
                  IN ReserveAdmitted(s, MainThread) /\ ReserveGrows(s, Tiles)
             /\ call[t].op = "tx_wait" =>
                  block[call[t].ref] # None /\ InFlight(block[call[t].ref])
  <2>1. CallInv(t) /\ call[t] \in Calls
    BY <1>1 DEF IInv, KernelInv, Shapes
  <2>2. ASSUME call[t].op \in Sides
        PROVE  /\ call[t].buf \in Buffers /\ BufferInv(call[t].buf)
               /\ pending[<<call[t].buf, call[t].op>>] = None
    BY <1>1, <2>1, <2>2 DEF CallInv, Calls, Sides, IInv, KernelInv
  <2>3. ASSUME call[t].op = "wait"
        PROVE  WaitAdmitted(dfb[call[t].buf], MainThread)
               /\ WaitCumulative(dfb[call[t].buf], Tiles)
    BY <2>2, <2>3, TilesAssumption
       DEF Sides, BufferInv, Rings, WaitAdmitted, WaitCumulative
  <2>4. ASSUME call[t].op = "reserve"
        PROVE  ReserveAdmitted(dfb[call[t].buf], MainThread)
               /\ ReserveGrows(dfb[call[t].buf], Tiles)
    BY <2>2, <2>4, TilesAssumption
       DEF Sides, BufferInv, Rings, ReserveAdmitted, ReserveGrows
  <2> QED BY <1>1, <2>1, <2>3, <2>4 DEF CallInv
<1>2. ASSUME IInv PROVE ResumedIsServed
  BY <1>1, <1>2 DEF ResumedIsServed
<1> QED BY KernelInvariant, <1>2, PTL

\* No tile a consumer can wait for is empty or the zero fill.
THEOREM PublishedIsWritten ==
  ASSUME Exclusive
  PROVE  Spec => []PublishedWritten
<1>1. ASSUME IInv PROVE PublishedWritten
  BY <1>1, ContentsAssumption DEF IInv, KernelInv, BufferInv, Written, PublishedWritten
<1> QED BY KernelInvariant, <1>1, PTL

\* The "Impossible!" errors are.
THEOREM BlocksStayConsistent ==
  ASSUME Exclusive
  PROVE  Spec => []BlocksConsistent
<1>1. ASSUME IInv PROVE BlocksConsistent
  BY <1>1, KnownConsistent DEF IInv, KernelInv, RefInv, BlockInv, BlocksConsistent
<1> QED BY KernelInvariant, <1>1, PTL

\* A deadlock is about tiles and space, never about a copy.
THEOREM DeadlocksOnBuffers ==
  ASSUME Exclusive
  PROVE  Spec => []DeadlockOnBuffers
<1>1. ASSUME IInv, phase = "deadlock", NEW t \in active
      PROVE  call[t] # None /\ call[t].op \in Sides /\ ~Can(call[t])
  <2>1. t \in Threads /\ blocked[t] /\ ~Ready[t]
    BY <1>1 DEF IInv, Scheduler!IInv, Scheduler!TypeOK, Scheduler!DeadlockSound
  <2>2. call[t] # None /\ call[t] \in Calls
    BY <1>1, <2>1 DEF IInv, KernelInv, CallInv, Shapes
  <2>3. ~Can(call[t])
    BY <2>1, <2>2 DEF Ready
  <2>4. call[t].op \in Sides
    BY <2>2, <2>3 DEF Calls, Can
  <2> QED BY <2>2, <2>3, <2>4
<1>2. ASSUME IInv PROVE DeadlockOnBuffers
  BY <1>1, <1>2 DEF DeadlockOnBuffers
<1> QED BY KernelInvariant, <1>2, PTL

-----------------------------------------------------------------------------
(* What a step may not do.                                                 *)

\* Blocks and tiles change in the operations of the running thread only.
LEMMA OnlyOperates ==
  ASSUME Next, \A t \in Threads : ~Operates(t)
  PROVE  dfb' = dfb /\ block' = block
<1>1. ASSUME NEW t \in Threads, Waits(t) PROVE dfb' = dfb /\ block' = block
  BY <1>1 DEF Waits, Acquire, TxWait, BlockIfNeeded
<1>2. ASSUME NEW t \in Threads, Return(t) \/ Raise(t) PROVE dfb' = dfb /\ block' = block
  BY <1>2 DEF Return, Raise, kernel
<1>3. CASE SchedulerStep
  BY <1>3 DEF SchedulerStep, kernel
<1> QED BY <1>1, <1>2, <1>3, OperateCases DEF Next

\* While a thread does not run, nobody changes the tiles of its blocks.
THEOREM HeldStable ==
  ASSUME Exclusive
  PROVE  Spec => HeldBlocksStable
<1>1. ASSUME IInv, [Next]_vars
      PROVE  [\A r \in Refs : block[r] # None /\ block'[r] # None /\ current # r[3] =>
                Content(r)' = Content(r)]_vars
  <2>1. CASE UNCHANGED vars
    BY <2>1
  <2>2. ASSUME NEW r \in Refs, block[r] # None, current # r[3], Next
        PROVE  Content(r)' = Content(r)
    <3>1. ASSUME NEW t \in Threads, Operates(t) PROVE Content(r)' = Content(r)
      <4>1. current = t
        BY <3>1 DEF Operates, Waited, Reserved, Transferred, Push, Pop, Copy, Store,
                    Running, Resumed
      <4>2. OthersKept(t)
        BY <1>1, <3>1, OperatesStep DEF IInv
      <4> QED BY <2>2, <4>1, <4>2 DEF OthersKept
    <3>2. CASE dfb' = dfb /\ block' = block
      BY <3>2 DEF Content
    <3> QED BY <2>2, <3>1, <3>2, OnlyOperates
  <2> QED BY <1>1, <2>1, <2>2
<1> QED BY KernelInvariant, <1>1, PTL DEF Spec, HeldBlocksStable

\* The one operation that takes a block out of a copy is its tx.wait().
LEMMA InFlightKept ==
  ASSUME KernelInv, NEW t \in Threads, Operates(t), NEW r \in Refs,
         block[r] # None, InFlight(block[r]), block'[r] # block[r]
  PROVE  r[3] = t /\ Transferred(t) /\ call[t].ref = r
<1>1. /\ r = <<r[1], r[2], r[3]>> /\ r[1] \in Buffers /\ r[2] \in Sides
      /\ r[3] \in Users(r[1], r[2]) /\ r[3] \in Threads
  BY RefsType
<1>2. /\ block \in [Refs -> Blocks \union {None}]
      /\ pending[<<r[1], r[2]>>] = r[3] /\ r[3] # None
      /\ block[r] \in Blocks /\ Known(block[r])
  BY <1>1, ThreadsAssumption DEF KernelInv, Shapes, RefInv, BlockInv
<1>3. /\ ~Expects(block[r], "PUSH") /\ ~Expects(block[r], "POP")
      /\ ~Expects(block[r], "STORE_SRC")
      /\ ~Expects(block[r], "COPY_SRC") /\ ~Expects(block[r], "COPY_DST")
  BY <1>2, KnownExpects DEF Expects
<1>4. ASSUME NEW side \in Sides, NEW d \in Buffers, NEW start,
             pending[<<d, side>>] = None, Holds(t, d, side, start)
      PROVE  FALSE
  BY <1>1, <1>2, <1>4 DEF Holds
<1>5. CASE Waited(t) \/ Reserved(t)
  <2>1. CallInv(t) /\ call[t] \in Calls /\ call[t].op \in Sides
    BY <1>5 DEF Waited, Reserved, Resumed, KernelInv, Shapes, Sides
  <2>2. call[t].buf \in Buffers /\ pending[<<call[t].buf, call[t].op>>] = None
    BY <1>5, <2>1 DEF CallInv, Calls, Sides, Waited, Reserved, Resumed
  <2>3. \E start : Holds(t, call[t].buf, call[t].op, start)
    BY <1>5 DEF Waited, Reserved, Resumed
  <2> QED BY <1>4, <2>1, <2>2, <2>3
<1>6. ASSUME NEW d \in Buffers, NEW side \in Sides, NEW op \in {"PUSH", "POP"},
             Closes(d, side), MayClose(d, side, op)
      PROVE  FALSE
  BY <1>1, <1>2, <1>3, <1>6 DEF Closes, MayClose
<1>7. ASSUME NEW d \in Buffers, Push(t, d) \/ Pop(t, d) PROVE FALSE
  BY <1>6, <1>7 DEF Push, Pop, PushLegal, PopLegal, Sides
<1>8. ASSUME NEW q \in Refs, NEW op \in {"COPY_SRC", "COPY_DST"}, Copy(t, q, op)
      PROVE  FALSE
  BY <1>2, <1>3, <1>8 DEF Copy
<1>9. ASSUME NEW into \in Own(t), NEW from \in SUBSET Own(t), NEW acc \in BOOLEAN,
             Store(t, into, from, acc)
      PROVE  FALSE
  <2>1. r # into
    BY <1>9 DEF Store, StoreLegal, CanWrite, InFlight
  <2>2. Read(block[r]) = block[r]
    BY <1>3 DEF Read, Marks
  <2> QED BY <1>9, <2>1, <2>2 DEF Store
<1>10. CASE Transferred(t)
  <2>1. call[t].ref = r
    BY <1>2, <1>10 DEF Transferred
  <2>2. CallInv(t) /\ call[t] # None /\ call[t].op = "tx_wait"
    BY <1>10 DEF Transferred, Resumed, KernelInv
  <2> QED BY <1>10, <2>1, <2>2 DEF CallInv
<1> QED BY <1>5, <1>7, <1>8, <1>9, <1>10 DEF Operates

\* A block that a copy is reading or writing is left alone until its tx.wait().
THEOREM InFlightStaysLocked ==
  ASSUME Exclusive
  PROVE  Spec => InFlightLocked
<1>1. ASSUME IInv, [Next]_vars
      PROVE  [\A r \in Refs :
                block[r] # None /\ InFlight(block[r]) /\ block'[r] # block[r] =>
                  /\ Resumed(r[3], "tx_wait") /\ call[r[3]].ref = r
                  /\ block'[r] # None /\ pending'[<<r[1], r[2]>>] = r[3]]_vars
  <2>1. ASSUME NEW r \in Refs, Next,
               block[r] # None, InFlight(block[r]), block'[r] # block[r]
        PROVE  /\ Resumed(r[3], "tx_wait") /\ call[r[3]].ref = r
               /\ block'[r] # None /\ pending'[<<r[1], r[2]>>] = r[3]
    <3>1. PICK t \in Threads : Operates(t)
      BY <2>1, OnlyOperates
    <3>2. r[3] = t /\ Transferred(t) /\ call[t].ref = r
      BY <1>1, <2>1, <3>1, InFlightKept DEF IInv
    <3>3. KernelInv'
      BY <1>1, <3>1, OperatesStep DEF IInv
    <3>4. pending'[<<r[1], r[2]>>] = r[3]
      BY <1>1, <2>1, <3>2 DEF IInv, KernelInv, RefInv, Transferred
    <3>5. block'[r] # None
      BY <3>3, <3>4 DEF KernelInv, RefInv
    <3> QED BY <3>2, <3>4, <3>5 DEF Transferred
  <2> QED BY <1>1, <2>1
<1> QED BY KernelInvariant, <1>1, PTL DEF Spec, InFlightLocked
-----------------------------------------------------------------------------
(* Pipelines: the tiles that wait in a buffer, block by block.             *)

\* The first tile of the k-th visible block, counted from 0.
Front(s, k) == s.buf[Slot(s.cap, s.head, Tiles * k)]

\* A buffer keeps its n oldest blocks where they are.
FrontsKept(r, s, n) ==
  SamePlaces(r, s) /\ \A k \in 0 .. n - 1 : Front(r, k) = Front(s, k)

\* The blocks lie one behind the other in the visible tiles.
LEMMA FrontPlace ==
  ASSUME NEW c \in Nat \ {0}, NEW s \in Rings(c), NEW n \in Nat, s.visible = Tiles * n,
         NEW k \in 0 .. n - 1
  PROVE  /\ Tiles * k \in 0 .. s.visible - 1 /\ Tiles * k + Tiles <= s.visible
         /\ Front(s, k) = s.buf[SpanSlot(s, s.head, Tiles * k)]
         /\ SpanSlot(s, s.head, Tiles * k) \in 0 .. c - 1
<1>1. Tiles \in Nat \ {0} /\ s.cap = c
  BY TilesAssumption DEF Rings
<1>2. PICK m \in Nat : n = k + 1 + m
  <2>1. n - k - 1 \in Nat /\ n = k + 1 + (n - k - 1)
    OBVIOUS
  <2> QED BY <2>1
<1>3. Tiles * n = Tiles * k + Tiles + Tiles * m /\ Tiles * m \in Nat /\ Tiles * k \in Nat
  BY <1>1, <1>2
<1>4. Tiles * k \in 0 .. s.visible - 1 /\ Tiles * k + Tiles <= s.visible
  BY <1>1, <1>3
<1> QED BY <1>1, <1>4, FrontSlots DEF Front, SpanSlot, Slot

\* The oldest block is at the head.
LEMMA FrontFirst ==
  ASSUME NEW c \in Nat \ {0}, NEW s \in Rings(c), NEW n \in Nat, s.visible = Tiles * n,
         s.visible >= Tiles
  PROVE  n >= 1 /\ Front(s, 0) = s.buf[FrontStart(s)]
<1>1. Tiles \in Nat \ {0} /\ s.cap = c /\ s.head \in 0 .. c - 1
  BY TilesAssumption DEF Rings
<1>2. n >= 1
  BY <1>1
<1>3. Slot(c, s.head, 0) = s.head
  BY <1>1, FirstSlot DEF SpanSlot, Slot
<1>4. Tiles * 0 = 0
  BY <1>1
<1> QED BY <1>1, <1>2, <1>3, <1>4 DEF Front, FrontStart

\* Writing the window behind the visible tiles leaves the blocks in front of it.
LEMMA FillFronts ==
  ASSUME NEW c \in Nat \ {0}, NEW s \in Rings(c), s.visible + Tiles <= c,
         NEW n \in Nat, s.visible = Tiles * n,
         NEW v \in Contents \union {Zero}, NEW r, r = Filled(s, BackStart(s), v)
  PROVE  FrontsKept(r, s, n) /\ r.buf[BackStart(s)] = v
<1>1. /\ r \in Rings(c) /\ SamePlaces(r, s)
      /\ \A i \in 0 .. c - 1 :
           r.buf[i] = IF i \in SpanSlots(s, BackStart(s), Tiles) THEN v ELSE s.buf[i]
  BY FillRing
<1>2. ASSUME NEW k \in 0 .. n - 1 PROVE Front(r, k) = Front(s, k)
  <2>1. /\ Tiles * k \in 0 .. s.visible - 1
        /\ Front(s, k) = s.buf[SpanSlot(s, s.head, Tiles * k)]
        /\ SpanSlot(s, s.head, Tiles * k) \in 0 .. c - 1
    BY FrontPlace
  <2>2. SpanSlot(s, s.head, Tiles * k) \notin SpanSlots(s, BackStart(s), Tiles)
    BY <2>1, FrontNotBack DEF SpanSlots
  <2>3. Front(r, k) = r.buf[SpanSlot(s, s.head, Tiles * k)]
    BY <1>1 DEF SamePlaces, Front, SpanSlot, Slot
  <2> QED BY <1>1, <2>1, <2>2, <2>3
<1>3. r.buf[BackStart(s)] = v
  <2>1. 0 \in 0 .. Tiles - 1
    BY TilesAssumption
  <2>2. BackStart(s) \in 0 .. c - 1
    BY <2>1, BackSlots
  <2>3. BackStart(s) \in SpanSlots(s, BackStart(s), Tiles)
    BY <2>1, <2>2, FirstSlot DEF SpanSlots
  <2> QED BY <1>1, <2>2, <2>3
<1> QED BY <1>1, <1>2, <1>3 DEF FrontsKept

\* push() makes the window a block.
LEMMA PushFronts ==
  ASSUME NEW c \in Nat \ {0}, NEW s \in Rings(c), s.reserved = Tiles,
         s.visible + Tiles <= c, NEW n \in Nat, s.visible = Tiles * n,
         NEW r, r = PushBack(s, Tiles)
  PROVE  /\ r.visible = Tiles * (n + 1)
         /\ \A k \in 0 .. n - 1 : Front(r, k) = Front(s, k)
         /\ Front(r, n) = s.buf[BackStart(s)]
<1>1. /\ r.buf = s.buf /\ r.cap = s.cap /\ r.head = s.head
      /\ r.visible = s.visible + Tiles
  BY PushRing
<1>2. r.visible = Tiles * (n + 1)
  BY <1>1, TilesAssumption
<1> QED BY <1>1, <1>2 DEF Front, BackStart, Slot

\* pop() takes the oldest block; the others move up.
LEMMA PopFronts ==
  ASSUME NEW c \in Nat \ {0}, NEW s \in Rings(c), s.visible >= Tiles,
         NEW n \in Nat, s.visible = Tiles * n, NEW r, r = PopFront(s, Tiles)
  PROVE  /\ n - 1 \in Nat /\ r.visible = Tiles * (n - 1)
         /\ \A k \in 0 .. n - 2 : Front(r, k) = Front(s, k + 1)
<1>1. /\ r.cap = s.cap /\ r.head = Slot(c, s.head, Tiles)
      /\ r.visible = s.visible - Tiles
      /\ \A i \in 0 .. c - 1 :
           r.buf[i] = IF i \in SpanSlots(s, s.head, Tiles) THEN None ELSE s.buf[i]
  BY PopRing
<1>2. Tiles \in Nat \ {0} /\ s.cap = c /\ s.head \in 0 .. c - 1 /\ s.visible \in 0 .. c
  BY TilesAssumption DEF Rings
<1>3. n - 1 \in Nat /\ r.visible = Tiles * (n - 1)
  <2>1. n # 0
    BY <1>2
  <2>2. Tiles * n = Tiles * (n - 1) + Tiles
    BY <1>2
  <2> QED BY <1>1, <1>2, <2>1, <2>2
<1>4. ASSUME NEW k \in 0 .. n - 2 PROVE Front(r, k) = Front(s, k + 1)
  <2>1. k + 1 \in 0 .. n - 1 /\ Tiles * (k + 1) = Tiles + Tiles * k /\ Tiles * k \in Nat
    BY <1>2
  <2>2. /\ Tiles * (k + 1) \in 0 .. s.visible - 1
        /\ Front(s, k + 1) = s.buf[SpanSlot(s, s.head, Tiles * (k + 1))]
        /\ SpanSlot(s, s.head, Tiles * (k + 1)) \in 0 .. c - 1
    BY <2>1, FrontPlace
  <2>3. Slot(c, Slot(c, s.head, Tiles), Tiles * k) = Slot(c, s.head, Tiles + Tiles * k)
    <3>1. Tiles \in 0 .. c /\ Tiles * k \in 0 .. c /\ Tiles + Tiles * k <= c
      BY <1>2, <2>1, <2>2
    <3> QED BY <1>2, <3>1, SlotShift
  <2>4. Front(r, k) = r.buf[SpanSlot(s, s.head, Tiles * (k + 1))]
    BY <1>1, <1>2, <2>1, <2>3 DEF Front, SpanSlot, Slot
  <2>5. SpanSlot(s, s.head, Tiles * (k + 1)) \notin SpanSlots(s, s.head, Tiles)
    <3> SUFFICES ASSUME NEW j \in 0 .. Tiles - 1
                 PROVE  SpanSlot(s, s.head, Tiles * (k + 1)) # SpanSlot(s, s.head, j)
      BY DEF SpanSlots
    <3>1. /\ j \in 0 .. c - 1 /\ Tiles * (k + 1) \in 0 .. c - 1 /\ j # Tiles * (k + 1)
      BY <1>2, <2>1, <2>2
    <3> QED BY <1>2, <3>1, SlotInjective DEF SpanSlot, Slot
  <2> QED BY <1>1, <2>2, <2>4, <2>5
<1> QED BY <1>3, <1>4

-----------------------------------------------------------------------------
(* What the operations do to those blocks, and to the thread's own.        *)

\* Nothing but buffer d and the thread's block r, if anything, has changed.
OnlyAt(d, r, t) ==
  /\ \A e \in Buffers \ {d} : dfb'[e] = dfb[e]
  /\ \A q \in Refs \ {r} : block'[q] = block[q]
  /\ call' = [call EXCEPT ![t] = None]

\* wait() leaves the tiles where they are.
LEMMA WaitedEffect ==
  ASSUME KernelInv, NEW t \in Threads, Waited(t), NEW d \in Buffers, d = call[t].buf,
         NEW n \in Nat, dfb[d].visible = Tiles * n
  PROVE  FrontsKept(dfb'[d], dfb[d], n) /\ OnlyAt(d, <<d, "wait", t>>, t)
<1> DEFINE s == WaitDone(WaitBegun(dfb[d], Tiles, MainThread), Tiles)
           b == NewBlock("wait", Kind[t], FrontStart(s))
<1>1. /\ dfb' = [dfb EXCEPT ![d] = s]
      /\ block' = [block EXCEPT ![<<d, "wait", t>>] = b]
      /\ call' = [call EXCEPT ![t] = None]
  BY DEF Waited, Holds, Continues
<1>2. Cap(d) \in Nat \ {0} /\ dfb[d] \in Rings(Cap(d))
  BY BufferFacts
<1>3. SamePlaces(s, dfb[d]) /\ s.buf = dfb[d].buf
  BY <1>2, WaitRing
<1> HIDE DEF s, b
<1>4. dfb'[d] = s
  BY <1>1 DEF KernelInv, Shapes
<1>5. FrontsKept(dfb'[d], dfb[d], n)
  BY <1>3, <1>4 DEF FrontsKept, SamePlaces, Front
<1> QED BY <1>1, <1>5 DEF OnlyAt, KernelInv, Shapes

\* reserve() clears the window behind the visible tiles.
LEMMA ReservedEffect ==
  ASSUME KernelInv, NEW t \in Threads, Reserved(t), NEW d \in Buffers, d = call[t].buf,
         t \in Reservers[d], NEW n \in Nat, dfb[d].visible = Tiles * n
  PROVE  /\ FrontsKept(dfb'[d], dfb[d], n) /\ OnlyAt(d, <<d, "reserve", t>>, t)
         /\ block'[<<d, "reserve", t>>].access = "MW"
<1> DEFINE s == ReserveDone(ReserveBegun(dfb[d], MainThread), Tiles)
           f == Filled(s, BackStart(s), Zero)
           b == NewBlock("reserve", Kind[t], BackStart(s))
<1>1. /\ ReserveReady(dfb[d], Tiles)
      /\ dfb' = [dfb EXCEPT ![d] = f]
      /\ block' = [block EXCEPT ![<<d, "reserve", t>>] = b]
      /\ call' = [call EXCEPT ![t] = None]
  BY DEF Reserved, Holds, Continues
<1>2. /\ Cap(d) \in Nat \ {0} /\ dfb[d] \in Rings(Cap(d)) /\ BufferInv(d)
      /\ dfb[d].visible \in 0 .. Cap(d) /\ dfb[d].cap = Cap(d)
  BY BufferFacts
<1>3. /\ s \in Rings(Cap(d)) /\ SamePlaces(s, dfb[d]) /\ s.buf = dfb[d].buf
  BY <1>2, ReserveRing
<1>4. dfb[d].reserved \in {0, Tiles}
  BY <1>2 DEF Rings
<1>5. s.visible + Tiles <= Cap(d) /\ s.visible = Tiles * n
  BY <1>1, <1>2, <1>3, <1>4, TilesAssumption DEF ReserveReady, Free, SamePlaces
<1>6. b.access = "MW"
  BY DEF NewBlock
<1> HIDE DEF s, b
<1>7. FrontsKept(f, s, n)
  BY <1>2, <1>3, <1>5, FillFronts
<1> HIDE DEF f
<1>8. dfb'[d] = f /\ block'[<<d, "reserve", t>>] = b
  <2>1. <<d, "reserve", t>> \in Refs
    BY RefsType DEF Users, Sides
  <2> QED BY <1>1, <2>1 DEF KernelInv, Shapes
<1>9. FrontsKept(dfb'[d], dfb[d], n)
  BY <1>3, <1>7, <1>8 DEF FrontsKept, SamePlaces, Front
<1> QED BY <1>1, <1>6, <1>8, <1>9 DEF OnlyAt, KernelInv, Shapes

\* push() makes what is in the thread's block the youngest block of the buffer.
LEMMA PushEffect ==
  ASSUME KernelInv, Exclusive, NEW t \in Threads, NEW d \in Buffers, Push(t, d),
         NEW n \in Nat, dfb[d].visible = Tiles * n
  PROVE  /\ block[<<d, "reserve", t>>] # None /\ block'[<<d, "reserve", t>>] = None
         /\ dfb'[d].visible = Tiles * (n + 1)
         /\ \A k \in 0 .. n - 1 : Front(dfb'[d], k) = Front(dfb[d], k)
         /\ Front(dfb'[d], n) = Content(<<d, "reserve", t>>)
         /\ OnlyAt(d, <<d, "reserve", t>>, t)
<1> DEFINE r == <<d, "reserve", t>>
<1>1. /\ t \in Users(d, "reserve") /\ "reserve" \in Sides
      /\ PushAllowed(dfb[d], Tiles) /\ Closes(d, "reserve")
      /\ dfb' = [dfb EXCEPT ![d] = PushBack(dfb[d], Tiles)]
      /\ call' = [call EXCEPT ![t] = None]
  BY DEF Push, PushLegal, Continues, Users, Sides
<1>2. /\ Cap(d) \in Nat \ {0} /\ dfb[d] \in Rings(Cap(d)) /\ BufferInv(d)
      /\ pending[<<d, "reserve">>] # None => dfb[d].visible + Tiles <= Cap(d)
  BY BufferFacts
<1>3. /\ pending[<<d, "reserve">>] \in {None, t}
      /\ \A q \in Refs \ {r} : block'[q] = block[q]
      /\ block'[r] = None
  BY <1>1, ClosesEffect
<1>4. pending[<<d, "reserve">>] = t /\ t # None /\ dfb[d].reserved = Tiles
  BY <1>1, <1>2, <1>3, ThreadsAssumption, TilesAssumption DEF BufferInv, PushAllowed
<1>5. r \in Refs /\ block[r] # None /\ block[r].start = BackStart(dfb[d])
  <2>1. r \in Refs
    BY <1>1, RefsType
  <2>2. RefInv(r)
    BY <2>1 DEF KernelInv
  <2> QED BY <1>4, <2>1, <2>2 DEF RefInv, BlockInv
<1>6. dfb'[d] = PushBack(dfb[d], Tiles) /\ \A e \in Buffers \ {d} : dfb'[e] = dfb[e]
  BY <1>1 DEF KernelInv, Shapes
<1>7. /\ dfb'[d].visible = Tiles * (n + 1)
      /\ \A k \in 0 .. n - 1 : Front(dfb'[d], k) = Front(dfb[d], k)
      /\ Front(dfb'[d], n) = dfb[d].buf[BackStart(dfb[d])]
  BY <1>2, <1>4, <1>6, PushFronts
<1> QED BY <1>1, <1>3, <1>5, <1>6, <1>7 DEF OnlyAt, Content

\* pop() takes the oldest block away.
LEMMA PopEffect ==
  ASSUME KernelInv, Exclusive, NEW t \in Threads, NEW d \in Buffers, Pop(t, d),
         NEW n \in Nat, dfb[d].visible = Tiles * n
  PROVE  /\ n - 1 \in Nat /\ dfb'[d].visible = Tiles * (n - 1)
         /\ \A k \in 0 .. n - 2 : Front(dfb'[d], k) = Front(dfb[d], k + 1)
         /\ OnlyAt(d, <<d, "wait", t>>, t)
<1>1. /\ t \in Users(d, "wait") /\ "wait" \in Sides
      /\ PopAllowed(dfb[d], Tiles) /\ Closes(d, "wait")
      /\ dfb' = [dfb EXCEPT ![d] = PopFront(dfb[d], Tiles)]
      /\ call' = [call EXCEPT ![t] = None]
  BY DEF Pop, PopLegal, Continues, Users, Sides
<1>2. Cap(d) \in Nat \ {0} /\ dfb[d] \in Rings(Cap(d))
  BY BufferFacts
<1>3. \A q \in Refs \ {<<d, "wait", t>>} : block'[q] = block[q]
  BY <1>1, ClosesEffect
<1>4. dfb'[d] = PopFront(dfb[d], Tiles) /\ \A e \in Buffers \ {d} : dfb'[e] = dfb[e]
  BY <1>1 DEF KernelInv, Shapes
<1>5. dfb[d].visible >= Tiles
  BY <1>1, <1>2, TilesAssumption DEF PopAllowed, Rings
<1>6. /\ n - 1 \in Nat /\ dfb'[d].visible = Tiles * (n - 1)
      /\ \A k \in 0 .. n - 2 : Front(dfb'[d], k) = Front(dfb[d], k + 1)
  <2> DEFINE c == Cap(d)
             s == dfb[d]
             r == dfb'[d]
  <2>1. /\ c \in Nat \ {0} /\ s \in Rings(c) /\ s.visible >= Tiles /\ s.visible = Tiles * n
        /\ r = PopFront(s, Tiles)
    BY <1>2, <1>4, <1>5
  <2> HIDE DEF c, s, r
  <2>2. /\ n - 1 \in Nat /\ r.visible = Tiles * (n - 1)
        /\ \A k \in 0 .. n - 2 : Front(r, k) = Front(s, k + 1)
    BY <2>1, PopFronts
  <2> QED BY <2>2 DEF s, r
<1> QED BY <1>1, <1>3, <1>4, <1>6 DEF OnlyAt

\* What is written through a reserved block is in it, and in no visible tile.
LEMMA FillEffect ==
  ASSUME KernelInv, NEW r \in Refs, r[2] = "reserve", block[r] # None, NEW v \in Contents,
         dfb' = [dfb EXCEPT ![r[1]] = Filled(dfb[r[1]], block[r].start, v)],
         NEW n \in Nat, dfb[r[1]].visible = Tiles * n
  PROVE  /\ FrontsKept(dfb'[r[1]], dfb[r[1]], n)
         /\ dfb'[r[1]].buf[block[r].start] = v
         /\ \A e \in Buffers \ {r[1]} : dfb'[e] = dfb[e]
<1> DEFINE d == r[1]
<1>1. /\ d \in Buffers /\ r[3] \in Threads /\ r[3] # None /\ RefInv(r)
  BY RefsType, ThreadsAssumption DEF KernelInv
<1>2. pending[<<d, "reserve">>] # None /\ block[r].start = BackStart(dfb[d])
  BY <1>1 DEF RefInv, BlockInv
<1>3. /\ Cap(d) \in Nat \ {0} /\ dfb[d] \in Rings(Cap(d))
      /\ dfb[d].visible + Tiles <= Cap(d)
  BY <1>1, <1>2, BufferFacts
<1>4. /\ dfb'[d] = Filled(dfb[d], BackStart(dfb[d]), v)
      /\ \A e \in Buffers \ {d} : dfb'[e] = dfb[e]
  BY <1>1, <1>2 DEF KernelInv, Shapes
<1>5. v \in Contents \union {Zero}
  OBVIOUS
<1>6. FrontsKept(dfb'[d], dfb[d], n) /\ dfb'[d].buf[BackStart(dfb[d])] = v
  BY <1>3, <1>4, <1>5, FillFronts
<1> QED BY <1>2, <1>4, <1>6

\* A copy that starts changes the access state of its block.
LEMMA CopyEffect ==
  ASSUME KernelInv, NEW t \in Threads, NEW r \in Refs,
         NEW op \in {"COPY_SRC", "COPY_DST"}, Copy(t, r, op)
  PROVE  /\ dfb' = dfb /\ block'[r].access = Leads(op, block[r].access)
         /\ \A q \in Refs \ {r} : block'[q] = block[q]
         /\ call' = [call EXCEPT ![t] = None]
<1>1. /\ dfb' = dfb /\ block' = [block EXCEPT ![r] = After(block[r], op)]
      /\ call' = [call EXCEPT ![t] = None]
      /\ block[r] # None /\ op \in block[r].expected \ {"PUSH", "POP"}
  BY DEF Copy, Continues, Expects
<1>2. block[r] \in Blocks /\ Known(block[r])
  BY <1>1 DEF KernelInv, RefInv, BlockInv
<1>3. After(block[r], op).access = Leads(op, block[r].access)
  BY <1>1, <1>2, AfterEffect
<1> QED BY <1>1, <1>3 DEF KernelInv, Shapes

\* tx.wait() of a copy into the block writes it, one out of it changes no tile.
LEMMA TransferredEffect ==
  ASSUME KernelInv, NEW t \in Threads, Transferred(t), NEW r \in Refs, r = call[t].ref
  PROVE  /\ block[r] # None /\ InFlight(block[r]) /\ r[3] = t
         /\ block'[r].start = block[r].start
         /\ \A q \in Refs \ {r} : block'[q] = block[q]
         /\ call' = [call EXCEPT ![t] = None]
         /\ block[r].access = "NAR" => dfb' = dfb
         /\ block[r].access = "NAW" =>
              dfb' = [dfb EXCEPT ![r[1]] = Filled(dfb[r[1]], block[r].start, {call[t].tile})]
         /\ {call[t].tile} \in Contents
<1>1. /\ call[t] # None /\ call[t].op = "tx_wait" /\ call[t] \in Calls /\ CallInv(t)
  BY DEF Transferred, Resumed, KernelInv, Shapes
<1>2. block[r] # None /\ InFlight(block[r]) /\ r[3] = t
  BY <1>1 DEF CallInv
<1>3. block[r] \in Blocks /\ Known(block[r])
  BY <1>2 DEF KernelInv, RefInv, BlockInv
<1>4. "TX_WAIT" \in block[r].expected \ {"PUSH", "POP"}
  BY <1>2, <1>3, KnownExpects DEF Expects
<1>5. After(block[r], "TX_WAIT").start = block[r].start
  BY <1>3, <1>4, AfterEffect
<1>6. {call[t].tile} \in Contents
  BY <1>1 DEF Calls, Sides, Contents
<1>7. block' = [block EXCEPT ![r] = After(block[r], "TX_WAIT")]
  BY DEF Transferred
<1> QED BY <1>2, <1>5, <1>6, <1>7 DEF Transferred, Continues, KernelInv, Shapes, InFlight

\* What is in the blocks of an expression.
Stored(from) == UNION {Content(r) : r \in from}

\* What a store to `into` does, and what it leaves alone.
StoreDone(t, into, from, acc, n) ==
  /\ block[into] # None /\ \A r \in from : block[r] # None
  /\ FrontsKept(dfb'[into[1]], dfb[into[1]], n)
  /\ \A e \in Buffers \ {into[1]} : dfb'[e] = dfb[e]
  /\ \A q \in Refs : q[3] # t => block'[q] = block[q]
  /\ call' = [call EXCEPT ![t] = None]
  /\ block'[into].access # "MW"
  /\ acc /\ block[into].access # "MW" => Content(into)' = Content(into) \union Stored(from)
  /\ ~(acc /\ block[into].access # "MW") => Content(into)' = Stored(from)

\* store() writes its block with what is in the others.
LEMMA StoreEffect ==
  ASSUME KernelInv, NEW t \in Threads, NEW into \in Own(t), into[2] = "reserve",
         NEW from \in SUBSET Own(t), NEW acc \in BOOLEAN, Store(t, into, from, acc),
         NEW n \in Nat, dfb[into[1]].visible = Tiles * n
  PROVE  StoreDone(t, into, from, acc, n)
<1> DEFINE result == UNION {Content(r) : r \in from}
           adds   == acc /\ block[into].access # "MW"
           target == Target(into, from)
           stored == After(target, StoreOp(acc))
<1>1. into \in Refs /\ into[3] = t /\ \A x \in from : x \in Refs /\ x[3] = t
  BY DEF Own
<1>2. /\ \A x \in from : block[x] # None /\ CanRead(block[x])
      /\ block[into] # None /\ CanWrite(block[into])
      /\ Expects(target, StoreOp(acc))
      /\ block' = [r \in Refs |->
                     IF r = into THEN stored
                     ELSE IF r \in from THEN Read(block[r]) ELSE block[r]]
      /\ call' = [call EXCEPT ![t] = None]
  BY DEF Store, StoreLegal, Continues
<1>3. result \in Contents
  <2>1. \A x \in from : Content(x) \in Contents
    BY <1>1, <1>2, ContentType DEF CanRead
  <2> QED BY <2>1 DEF Contents
<1>4. adds => Content(into) \in Contents
  BY <1>1, <1>2, ContentType DEF CanWrite
<1>5. PICK v \in Contents : v = IF adds THEN Content(into) \union result ELSE result
  BY <1>3, <1>4 DEF Contents
<1>6. dfb' = [dfb EXCEPT ![into[1]] = Filled(dfb[into[1]], block[into].start, v)]
  BY <1>5 DEF Store
<1>7. block[into] \in Blocks /\ Known(block[into])
  BY <1>1, <1>2 DEF KernelInv, RefInv, BlockInv
<1>8. /\ target \in Blocks /\ Known(target) /\ target.start = block[into].start
  BY <1>7, ReadEffect DEF Target
<1>9. stored.start = block[into].start /\ stored.access # "MW"
  <2>1. StoreOp(acc) \in target.expected \ {"PUSH", "POP"}
    BY <1>2 DEF Expects, StoreOp
  <2>2. Leads(StoreOp(acc), target.access) # "MW"
    BY DEF Leads, StoreOp
  <2> HIDE DEF target
  <2> QED BY <1>8, <2>1, <2>2, AfterEffect
<1> HIDE DEF result, adds, target, stored
<1>10. block'[into] = stored /\ \A q \in Refs : q[3] # t => block'[q] = block[q]
  BY <1>1, <1>2
<1>11. /\ FrontsKept(dfb'[into[1]], dfb[into[1]], n)
       /\ dfb'[into[1]].buf[block[into].start] = v
       /\ \A e \in Buffers \ {into[1]} : dfb'[e] = dfb[e]
  BY <1>1, <1>2, <1>6, FillEffect
<1>12. Content(into)' = v
  BY <1>9, <1>10, <1>11 DEF Content
<1> QED BY <1>2, <1>5, <1>9, <1>10, <1>11, <1>12 DEF result, adds, Stored, StoreDone

-----------------------------------------------------------------------------
(* The invariant of a pipeline.                                            *)

InRef    == <<in, "reserve", dm0>>
OutRef   == <<out, "reserve", compute>>
WriteRef == <<out, "wait", dm1>>

\* The round of compute at its next statement, and the tiles that it has taken
\* from `in` and given to `out` since the start.
Here       == program.outline[at[compute].next]
TakenSoFar == (at[compute].round - 1) * Taken(program) + Here.taken
GivenSoFar == (at[compute].round - 1) * Given(program) + Here.given

\* The blocks that were pushed to a buffer and popped from it, and the value of
\* the i-th of them.
Pushed(d)    == IF d = in THEN at[dm0].round - 1 ELSE GivenSoFar
Popped(d)    == IF d = in THEN TakenSoFar ELSE at[dm1].round - 1
Passed(d, i) == IF d = in THEN {i} ELSE program.output[i]
Between(d)   == Pushed(d) - Popped(d)

\* A buffer holds the blocks that were pushed and not yet popped, in order.
Queued(d) ==
  /\ Between(d) \in Nat
  /\ dfb[d].visible = Tiles * Between(d)
  /\ \A k \in 0 .. Between(d) - 1 : Front(dfb[d], k) = Passed(d, Popped(d) + k + 1)

\* The threads are somewhere in their functions.
Placed ==
  /\ program \in Kernels
  /\ at \in [Threads -> [round : Nat, next : Nat]]
  /\ \A t \in Threads : /\ at[t].round \in 1 .. program.rounds[t] + 1
                        /\ at[t].next \in 1 .. Len(program.body[t])
  /\ TakenSoFar \in Nat /\ GivenSoFar \in 0 .. Len(program.output)

\* What dm0 is about to push is the tile of its round.
ReaderInv ==
  /\ call[dm0] # None =>
       \/ call[dm0].op = "reserve" /\ at[dm0].next = 2
       \/ call[dm0].op = "tx_wait" /\ at[dm0].next = 4 /\ call[dm0].tile = at[dm0].round
  /\ block[InRef] # None =>
       /\ at[dm0].next = 3 \/ (at[dm0].next = 4 /\ call[dm0] # None) =>
            block[InRef].access = "NAW"
       /\ at[dm0].next = 4 /\ call[dm0] = None => Content(InRef) = {at[dm0].round}

\* What compute is making is what its outline says, or nothing yet.
ComputeInv ==
  /\ call[compute] # None =>
       /\ call[compute].op \in Sides
       /\ call[compute].op = "reserve" => Here.open /\ Here.value = {}
  /\ block[OutRef] # None =>
       /\ Here.open
       /\ block[OutRef].access = "MW" => Here.value = {}
       /\ block[OutRef].access # "MW" =>
            Content(OutRef) = Tile(program, at[compute].round, Here.value)

\* dm1 writes one block in a round, and pops it afterwards.
WrittenSoFar == at[dm1].round - 1 + IF at[dm1].next = 4 /\ call[dm1] = None THEN 1 ELSE 0

WriterInv ==
  /\ call[dm1] # None =>
       \/ call[dm1].op = "wait" /\ at[dm1].next = 2
       \/ call[dm1].op = "tx_wait" /\ at[dm1].next = 4
  /\ block[WriteRef] # None /\ (at[dm1].next = 3 \/ (at[dm1].next = 4 /\ call[dm1] # None)) =>
       block[WriteRef].access = "NAR"
  /\ written \in Seq(Contents) /\ Len(written) = WrittenSoFar
  /\ InOrder

PipeInv == /\ Placed /\ Queued(in) /\ Queued(out)
           /\ ReaderInv /\ ComputeInv /\ WriterInv

\* The threads and buffers of a core.
LEMMA Core ==
  ASSUME IsCore
  PROVE
  /\ dm0 \in Threads /\ dm1 \in Threads /\ compute \in Threads
  /\ compute # dm0 /\ compute # dm1 /\ dm0 # dm1
  /\ \A t \in Threads : t = compute \/ t = dm0 \/ t = dm1
  /\ in \in Buffers /\ out \in Buffers /\ in # out
  /\ \A d \in Buffers : d = in \/ d = out
  /\ Users(in, "reserve") = {dm0} /\ Users(in, "wait") = {compute}
  /\ Users(out, "reserve") = {compute} /\ Users(out, "wait") = {dm1}
BY DEF IsCore, Users

\* One thread reserves a buffer.
LEMMA CoreExclusive == IsCore => Exclusive
BY DEF IsCore, Exclusive

\* The references of the threads.
LEMMA CoreRefs ==
  ASSUME IsCore
  PROVE
  /\ InRef \in Own(dm0) /\ OutRef \in Own(compute) /\ WriteRef \in Own(dm1)
  /\ <<in, "wait", compute>> \in Own(compute)
  /\ \A r \in Refs : /\ r[3] = dm0 => r = InRef
                     /\ r[3] = dm1 => r = WriteRef
                     /\ r[3] = compute => r = OutRef \/ r = <<in, "wait", compute>>
<1>1. /\ InRef \in Refs /\ OutRef \in Refs /\ WriteRef \in Refs
      /\ <<in, "wait", compute>> \in Refs
  BY Core, RefsType DEF InRef, OutRef, WriteRef, Sides
<1>2. ASSUME NEW r \in Refs
      PROVE  \/ r = InRef \/ r = WriteRef \/ r = OutRef \/ r = <<in, "wait", compute>>
  <2>1. r = <<r[1], r[2], r[3]>> /\ r[1] \in Buffers /\ r[2] \in Sides /\ r[3] \in Users(r[1], r[2])
    BY RefsType
  <2> QED BY <2>1, Core DEF Sides, InRef, OutRef, WriteRef
<1>3. /\ InRef[3] = dm0 /\ OutRef[3] = compute /\ WriteRef[3] = dm1
  BY DEF InRef, OutRef, WriteRef
<1> QED BY <1>1, <1>2, <1>3, Core DEF Own

\* A kernel is a pipeline.
LEMMA ProgramFacts ==
  ASSUME program \in Kernels
  PROVE  /\ program.body[dm0] = Reader /\ program.body[dm1] = Writer
         /\ Len(Reader) = 4 /\ Len(Writer) = 4
         /\ program.body[compute] \in Seq(ComputeStatements) /\ Len(program.body[compute]) >= 1
         /\ Outlined(program.body[compute], program.outline)
         /\ \A t \in Threads : program.rounds[t] \in Nat
         /\ 1 .. program.rounds[dm0] \subseteq Inputs /\ 1 .. program.rounds[dm1] \subseteq Inputs
         /\ Len(program.body[dm0]) \in Nat /\ Len(program.body[dm1]) \in Nat
         /\ Len(program.body[compute]) \in Nat
<1>1. IsPipeline(program) /\ program.rounds \in [Threads -> Nat]
  BY PipelinesAssumption, KernelsAssumption
<1>2. Len(Reader) = 4 /\ Len(Writer) = 4
  BY DEF Reader, Writer
<1>3. /\ program.body[compute] \in Seq(ComputeStatements) /\ program.body[compute] # <<>>
  BY <1>1 DEF IsPipeline
<1>4. Len(program.body[compute]) \in Nat /\ Len(program.body[compute]) >= 1
  BY <1>3
<1> QED BY <1>1, <1>2, <1>3, <1>4 DEF IsPipeline

\* The output of a kernel is a sequence of tiles.
LEMMA OutputType ==
  ASSUME program \in Kernels
  PROVE  Len(program.output) \in Nat
<1>1. program.output \in Seq(Contents)
  BY PipelinesAssumption DEF IsPipeline
<1> QED BY <1>1

\* Before a statement the outline is a round so far.
LEMMA OutlineFacts ==
  ASSUME program \in Kernels, NEW n \in 1 .. Len(program.body[compute])
  PROVE  LET outline == program.outline
             o == outline[n]
             s == program.body[compute][n]
             length == Len(program.body[compute])
         IN /\ o = [taken |-> o.taken, given |-> o.given, open |-> o.open, value |-> o.value]
            /\ o.taken \in Nat /\ o.given \in Nat /\ o.open \in BOOLEAN /\ o.value \in SUBSET Nat
            /\ s \in ComputeStatements
            /\ outline[n + 1] = Follows(o, s)
            /\ outline[1] = Outset
            /\ ~outline[length + 1].open
            /\ Taken(program) = outline[length + 1].taken /\ Taken(program) \in Nat
            /\ Given(program) = outline[length + 1].given /\ Given(program) \in Nat
<1> DEFINE outline == program.outline
           body == program.body[compute]
           states == [taken : Nat, given : Nat, open : BOOLEAN, value : SUBSET Nat]
<1>1. /\ body \in Seq(ComputeStatements) /\ Len(body) \in Nat
      /\ outline \in Seq(states) /\ Len(outline) = Len(body) + 1
      /\ outline[1] = Outset /\ ~outline[Len(outline)].open
      /\ outline[n + 1] = Follows(outline[n], body[n])
  BY ProgramFacts DEF Outlined
<1>2. n \in 1 .. Len(body)
  OBVIOUS
<1> HIDE DEF outline, body, states
<1>3. n \in 1 .. Len(outline) /\ Len(body) + 1 \in 1 .. Len(outline)
  BY <1>1, <1>2
<1>4. /\ outline[n] \in states /\ outline[Len(body) + 1] \in states
      /\ body[n] \in ComputeStatements
  BY <1>1, <1>2, <1>3
<1> QED BY <1>1, <1>4 DEF Taken, Given, outline, body, states

-----------------------------------------------------------------------------
(* What a step leaves alone.                                               *)

\* dm0, while others run.
LEMMA ReaderKept ==
  ASSUME ReaderInv, at'[dm0] = at[dm0], call'[dm0] = call[dm0],
         block'[InRef] = block[InRef],
         block[InRef] # None => Content(InRef)' = Content(InRef)
  PROVE  ReaderInv'
BY DEF ReaderInv

\* compute, while others run.
LEMMA ComputeKept ==
  ASSUME ComputeInv, program' = program, at'[compute] = at[compute],
         call'[compute] = call[compute], block'[OutRef] = block[OutRef],
         block[OutRef] # None => Content(OutRef)' = Content(OutRef)
  PROVE  ComputeInv'
BY DEF ComputeInv, Here

\* dm1, while others run.
LEMMA WriterKept ==
  ASSUME WriterInv, program' = program, written' = written, at'[dm1] = at[dm1],
         call'[dm1] = call[dm1], block'[WriteRef] = block[WriteRef]
  PROVE  WriterInv'
BY DEF WriterInv, WrittenSoFar, InOrder

\* A buffer that nothing is pushed to or popped from.
LEMMA QueuedKept ==
  ASSUME NEW d \in Buffers, Queued(d), program' = program,
         Pushed(d)' = Pushed(d), Popped(d)' = Popped(d),
         FrontsKept(dfb'[d], dfb[d], Between(d))
  PROVE  Queued(d)'
<1>1. Between(d)' = Between(d)
  BY DEF Between
<1>2. \A i : Passed(d, i)' = Passed(d, i)
  BY DEF Passed
<1> QED BY <1>1, <1>2 DEF Queued, FrontsKept, SamePlaces

\* A block is pushed.
LEMMA QueuedPush ==
  ASSUME NEW d \in Buffers, Queued(d), program' = program,
         Pushed(d) \in Nat, Popped(d) \in Nat,
         Pushed(d)' = Pushed(d) + 1, Popped(d)' = Popped(d),
         dfb'[d].visible = Tiles * (Between(d) + 1),
         \A k \in 0 .. Between(d) - 1 : Front(dfb'[d], k) = Front(dfb[d], k),
         Front(dfb'[d], Between(d)) = Passed(d, Pushed(d) + 1)
  PROVE  Queued(d)'
<1>1. Between(d)' = Between(d) + 1 /\ Between(d) \in Nat /\ Popped(d) + Between(d) = Pushed(d)
  BY DEF Between, Queued
<1>2. \A i : Passed(d, i)' = Passed(d, i)
  BY DEF Passed
<1>3. \A k \in 0 .. Between(d) : Front(dfb'[d], k) = Passed(d, Popped(d) + k + 1)
  <2> SUFFICES ASSUME NEW k \in 0 .. Between(d)
               PROVE  Front(dfb'[d], k) = Passed(d, Popped(d) + k + 1)
    OBVIOUS
  <2>1. CASE k = Between(d)
    <3>1. Popped(d) + k + 1 = Pushed(d) + 1
      BY <1>1, <2>1
    <3> QED BY <2>1, <3>1
  <2>2. CASE k # Between(d)
    <3>1. k \in 0 .. Between(d) - 1
      BY <1>1, <2>2
    <3> QED BY <3>1 DEF Queued
  <2> QED BY <2>1, <2>2
<1>4. \A k \in 0 .. Between(d)' - 1 : k \in 0 .. Between(d)
  BY <1>1
<1> QED BY <1>1, <1>2, <1>3, <1>4 DEF Queued

\* A block is popped.
LEMMA QueuedPop ==
  ASSUME NEW d \in Buffers, Queued(d), program' = program,
         Pushed(d) \in Nat, Popped(d) \in Nat,
         Pushed(d)' = Pushed(d), Popped(d)' = Popped(d) + 1,
         Between(d) - 1 \in Nat, dfb'[d].visible = Tiles * (Between(d) - 1),
         \A k \in 0 .. Between(d) - 2 : Front(dfb'[d], k) = Front(dfb[d], k + 1)
  PROVE  Queued(d)'
<1>1. Between(d)' = Between(d) - 1 /\ Between(d) \in Nat
  BY DEF Between
<1>2. \A i : Passed(d, i)' = Passed(d, i)
  BY DEF Passed
<1>3. ASSUME NEW k \in 0 .. Between(d)' - 1
      PROVE  Front(dfb'[d], k) = Passed(d, Popped(d)' + k + 1)
  <2>1. k \in 0 .. Between(d) - 2 /\ k + 1 \in 0 .. Between(d) - 1
    BY <1>1
  <2>2. Front(dfb[d], k + 1) = Passed(d, Popped(d) + (k + 1) + 1)
    BY <2>1 DEF Queued
  <2>3. Popped(d) + (k + 1) + 1 = Popped(d)' + k + 1
    BY <2>1
  <2> QED BY <2>1, <2>2, <2>3
<1> QED BY <1>1, <1>2, <1>3 DEF Queued

-----------------------------------------------------------------------------
(* Places.                                                                 *)

\* A statement leads to the next one, or to the next round.
LEMMA Advances ==
  ASSUME IsCore, Placed, NEW t \in Threads, ~Returned(t), Advance(t), program' = program
  PROVE  /\ at' \in [Threads -> [round : Nat, next : Nat]]
         /\ \A u \in Threads : /\ at'[u].round \in 1 .. program.rounds[u] + 1
                               /\ at'[u].next \in 1 .. Len(program.body[u])
         /\ \A u \in Threads \ {t} : at'[u] = at[u]
         /\ at[t].round <= program.rounds[t]
         /\ at[t].next = Len(program.body[t]) =>
              at'[t].round = at[t].round + 1 /\ at'[t].next = 1
         /\ at[t].next # Len(program.body[t]) =>
              at'[t].round = at[t].round /\ at'[t].next = at[t].next + 1
<1>1. /\ at[t] \in [round : Nat, next : Nat] /\ program.rounds[t] \in Nat
      /\ at[t].round \in 1 .. program.rounds[t] + 1
      /\ at[t].next \in 1 .. Len(program.body[t])
      /\ Len(program.body[t]) \in Nat
  BY ProgramFacts, Core DEF Placed
<1>2. at[t].round <= program.rounds[t]
  BY <1>1 DEF Returned
<1> DEFINE place == IF at[t].next = Len(program.body[t])
                    THEN [round |-> at[t].round + 1, next |-> 1]
                    ELSE [round |-> at[t].round, next |-> at[t].next + 1]
<1>3. at' = [at EXCEPT ![t] = place]
  BY <1>1 DEF Advance, Placed
<1>4. /\ place \in [round : Nat, next : Nat]
      /\ place.round \in 1 .. program.rounds[t] + 1
      /\ place.next \in 1 .. Len(program.body[t])
      /\ at[t].next = Len(program.body[t]) => place.round = at[t].round + 1 /\ place.next = 1
      /\ at[t].next # Len(program.body[t]) =>
           place.round = at[t].round /\ place.next = at[t].next + 1
  BY <1>1, <1>2
<1> HIDE DEF place
<1> QED BY <1>2, <1>3, <1>4 DEF Placed

\* The outline goes with compute from statement to statement, and from the end of
\* a round to the next.
LEMMA ComputeAdvances ==
  ASSUME IsCore, Placed, ~Returned(compute), Advance(compute), program' = program,
         NEW o, o = Follows(Here, Statement(compute))
  PROVE  /\ TakenSoFar' = TakenSoFar + IF Statement(compute).do = "pop" THEN 1 ELSE 0
         /\ GivenSoFar' = GivenSoFar + IF Statement(compute).do = "push" THEN 1 ELSE 0
         /\ Here'.open <=> o.open
         /\ o.open => Here'.value = o.value /\ at'[compute].round = at[compute].round
<1> DEFINE n == at[compute].next
           round == at[compute].round
           length == Len(program.body[compute])
           s == program.body[compute][n]
           outline == program.outline
           T == Taken(program)
           G == Given(program)
<1>1. /\ n \in 1 .. length /\ length \in Nat /\ round \in Nat \ {0} /\ program \in Kernels
  BY ProgramFacts, Core DEF Placed
<1>2. /\ outline[n].taken \in Nat /\ outline[n].given \in Nat
      /\ s \in ComputeStatements
      /\ outline[n + 1] = Follows(outline[n], s)
      /\ outline[1] = Outset
      /\ ~outline[length + 1].open
      /\ T = outline[length + 1].taken /\ T \in Nat
      /\ G = outline[length + 1].given /\ G \in Nat
      /\ outline[n] = Here /\ s = Statement(compute)
      /\ outline[n] = [taken |-> outline[n].taken, given |-> outline[n].given,
                       open |-> outline[n].open, value |-> outline[n].value]
  BY <1>1, OutlineFacts DEF Here, Statement
<1>3. /\ o = outline[n + 1]
      /\ o.taken = outline[n].taken + IF s.do = "pop" THEN 1 ELSE 0
      /\ o.given = outline[n].given + IF s.do = "push" THEN 1 ELSE 0
  BY <1>2 DEF Follows
<1>4. /\ n = length => at'[compute].round = round + 1 /\ at'[compute].next = 1
      /\ n # length => at'[compute].round = round /\ at'[compute].next = n + 1
  BY Core, Advances
<1>5. Here' = outline[at'[compute].next]
  BY DEF Here
<1>6. /\ TakenSoFar = (round - 1) * T + outline[n].taken
      /\ GivenSoFar = (round - 1) * G + outline[n].given
      /\ TakenSoFar' = (at'[compute].round - 1) * T + Here'.taken
      /\ GivenSoFar' = (at'[compute].round - 1) * G + Here'.given
  BY DEF TakenSoFar, GivenSoFar, Here
<1> HIDE DEF n, round, length, s, outline, T, G
<1>7. CASE n = length
  <2>1. /\ Here' = Outset /\ at'[compute].round - 1 = round /\ o.taken = T /\ o.given = G
        /\ ~o.open
    BY <1>1, <1>2, <1>3, <1>4, <1>5, <1>7
  <2>2. Here'.taken = 0 /\ Here'.given = 0 /\ ~Here'.open
    BY <2>1 DEF Outset
  <2>3. round * T = (round - 1) * T + T /\ round * G = (round - 1) * G + G
    BY <1>1, <1>2
  <2>4. (round - 1) * T \in Nat /\ (round - 1) * G \in Nat /\ round * T \in Nat /\ round * G \in Nat
    BY <1>1, <1>2
  <2> QED BY <1>2, <1>3, <1>6, <2>1, <2>2, <2>3, <2>4
<1>8. CASE n # length
  <2>1. Here' = o /\ at'[compute].round = round
    BY <1>3, <1>4, <1>5, <1>8
  <2>2. (round - 1) * T \in Nat /\ (round - 1) * G \in Nat
    BY <1>1, <1>2
  <2> QED BY <1>2, <1>3, <1>6, <2>1, <2>2 DEF round
<1> QED BY <1>7, <1>8

-----------------------------------------------------------------------------
(* Who leaves what alone.                                                  *)

\* A waited block is the oldest one of its buffer.
LEMMA WaitedContent ==
  ASSUME KernelInv, NEW d \in Buffers, NEW t \in Waiters[d], block[<<d, "wait", t>>] # None,
         Queued(d), Popped(d) \in Nat
  PROVE  Between(d) >= 1 /\ Content(<<d, "wait", t>>) = Passed(d, Popped(d) + 1)
<1> DEFINE r == <<d, "wait", t>>
<1>1. r \in Refs /\ t \in Threads /\ t # None
  BY RefsType, ThreadsAssumption DEF Users, Sides
<1>2. /\ block[r].start = FrontStart(dfb[d]) /\ pending[<<d, "wait">>] = t
  BY <1>1 DEF KernelInv, RefInv, BlockInv
<1>3. /\ Cap(d) \in Nat \ {0} /\ dfb[d] \in Rings(Cap(d)) /\ dfb[d].visible >= Tiles
  BY <1>1, <1>2, BufferFacts DEF BufferInv
<1>4. Between(d) \in Nat /\ dfb[d].visible = Tiles * Between(d)
  BY DEF Queued
<1>5. Between(d) >= 1 /\ Front(dfb[d], 0) = dfb[d].buf[FrontStart(dfb[d])]
  <2> DEFINE c == Cap(d)
             s == dfb[d]
             n == Between(d)
  <2>1. /\ c \in Nat \ {0} /\ s \in Rings(c) /\ s.visible >= Tiles
        /\ n \in Nat /\ s.visible = Tiles * n
    BY <1>3, <1>4
  <2> HIDE DEF c, s, n
  <2>2. n >= 1 /\ Front(s, 0) = s.buf[FrontStart(s)]
    BY <2>1, FrontFirst
  <2> QED BY <2>2 DEF s, n
<1>6. Front(dfb[d], 0) = Passed(d, Popped(d) + 0 + 1)
  BY <1>4, <1>5 DEF Queued
<1>7. Popped(d) + 0 + 1 = Popped(d) + 1
  OBVIOUS
<1> QED BY <1>2, <1>5, <1>6, <1>7 DEF Content

\* A step that changes no buffer keeps the fronts.
LEMMA SameFronts ==
  ASSUME NEW d, NEW n, dfb'[d] = dfb[d]
  PROVE  FrontsKept(dfb'[d], dfb[d], n)
BY DEF FrontsKept, SamePlaces

\* Counts are counted from where the threads are.
LEMMA CountsType ==
  ASSUME IsCore, Placed
  PROVE  /\ Pushed(in) \in Nat /\ Popped(in) \in Nat /\ Pushed(out) \in Nat /\ Popped(out) \in Nat
         /\ Pushed(in) = at[dm0].round - 1 /\ Popped(in) = TakenSoFar
         /\ Pushed(out) = GivenSoFar /\ Popped(out) = at[dm1].round - 1
<1>1. at[dm0].round \in Nat \ {0} /\ at[dm1].round \in Nat \ {0}
  <2>1. \A t \in {dm0, dm1} : program.rounds[t] \in Nat /\ at[t].round \in 1 .. program.rounds[t] + 1
    BY Core, ProgramFacts DEF Placed
  <2> QED BY <2>1
<1> QED BY <1>1, Core DEF Placed, Pushed, Popped

\* compute has taken and given no more when it has not moved.
LEMMA ComputeCounts ==
  ASSUME program' = program, at'[compute] = at[compute]
  PROVE  TakenSoFar' = TakenSoFar /\ GivenSoFar' = GivenSoFar /\ Here' = Here
BY DEF TakenSoFar, GivenSoFar, Here

\* What dm0 does to its buffer changes nothing else.
LEMMA ReaderElsewhere ==
  ASSUME IsCore, KernelInv, PipeInv, UNCHANGED <<program, written>>, NEW c, call' = [call EXCEPT ![dm0] = c],
         \A u \in Threads \ {dm0} : at'[u] = at[u],
         \A r \in Refs \ {InRef} : block'[r] = block[r], dfb'[out] = dfb[out]
  PROVE  ComputeInv' /\ WriterInv' /\ Queued(out)'
<1>1. /\ at'[compute] = at[compute] /\ at'[dm1] = at[dm1]
      /\ call'[compute] = call[compute] /\ call'[dm1] = call[dm1]
  BY Core DEF KernelInv, Shapes
<1>2. block'[OutRef] = block[OutRef] /\ block'[WriteRef] = block[WriteRef]
  <2>1. /\ OutRef \in Refs /\ WriteRef \in Refs /\ InRef # OutRef /\ InRef # WriteRef
    BY CoreRefs, Core DEF Own, InRef, OutRef, WriteRef
  <2> QED BY <2>1
<1>3. Content(OutRef)' = Content(OutRef)
  BY <1>2 DEF Content, OutRef
<1>4. Pushed(out)' = Pushed(out) /\ Popped(out)' = Popped(out)
  BY <1>1, ComputeCounts, Core DEF Pushed, Popped
<1>5. Queued(out)'
  BY <1>4, Core, QueuedKept, SameFronts DEF PipeInv
<1> QED BY <1>1, <1>2, <1>3, <1>5, ComputeKept, WriterKept DEF PipeInv

\* What compute does to its blocks changes nothing of the other threads.
LEMMA ComputeElsewhere ==
  ASSUME IsCore, KernelInv, PipeInv, UNCHANGED <<program, written>>, NEW c, call' = [call EXCEPT ![compute] = c],
         \A u \in Threads \ {compute} : at'[u] = at[u],
         \A r \in Refs : r[3] # compute => block'[r] = block[r],
         block[InRef] # None => Content(InRef)' = Content(InRef)
  PROVE  ReaderInv' /\ WriterInv'
<1>1. /\ at'[dm0] = at[dm0] /\ at'[dm1] = at[dm1]
      /\ call'[dm0] = call[dm0] /\ call'[dm1] = call[dm1]
  BY Core DEF KernelInv, Shapes
<1>2. block'[InRef] = block[InRef] /\ block'[WriteRef] = block[WriteRef]
  BY CoreRefs, Core DEF Own
<1> QED BY <1>1, <1>2, ReaderKept, WriterKept DEF PipeInv

\* What dm1 does to its buffer changes nothing else.
LEMMA WriterElsewhere ==
  ASSUME IsCore, KernelInv, PipeInv, program' = program, NEW c, call' = [call EXCEPT ![dm1] = c],
         \A u \in Threads \ {dm1} : at'[u] = at[u],
         \A r \in Refs \ {WriteRef} : block'[r] = block[r], dfb'[in] = dfb[in],
         block[OutRef] # None => Content(OutRef)' = Content(OutRef)
  PROVE  ReaderInv' /\ ComputeInv' /\ Queued(in)'
<1>1. /\ at'[compute] = at[compute] /\ at'[dm0] = at[dm0]
      /\ call'[compute] = call[compute] /\ call'[dm0] = call[dm0]
  BY Core DEF KernelInv, Shapes
<1>2. block'[OutRef] = block[OutRef] /\ block'[InRef] = block[InRef]
  <2>1. /\ OutRef \in Refs /\ InRef \in Refs /\ WriteRef # OutRef /\ WriteRef # InRef
    BY CoreRefs, Core DEF Own, InRef, OutRef, WriteRef
  <2> QED BY <2>1
<1>3. Content(InRef)' = Content(InRef)
  BY <1>2 DEF Content, InRef
<1>4. Pushed(in)' = Pushed(in) /\ Popped(in)' = Popped(in)
  BY <1>1, ComputeCounts, Core DEF Pushed, Popped
<1>5. Queued(in)'
  BY <1>4, Core, QueuedKept, SameFronts DEF PipeInv
<1> QED BY <1>1, <1>2, <1>3, <1>5, ComputeKept, ReaderKept DEF PipeInv

\* What a thread does by a statement.
LEMMA Executes ==
  ASSUME NEW t, NEW d
  PROVE  /\ Execute(t, Do("wait", d)) => Acquire(t, d, "wait")
         /\ Execute(t, Do("reserve", d)) => Acquire(t, d, "reserve")
         /\ Execute(t, Do("push", d)) => Push(t, d)
         /\ Execute(t, Do("pop", d)) => Pop(t, d)
         /\ Execute(t, Do("copy_to", d)) => Copy(t, <<d, "reserve", t>>, "COPY_DST")
         /\ Execute(t, Do("copy_from", d)) => Copy(t, <<d, "wait", t>>, "COPY_SRC")
BY DEF Execute, Do

\* The statement that waits for a copy.
LEMMA ExecutesTx ==
  ASSUME NEW t, NEW d, NEW side, Execute(t, Tx(d, side))
  PROVE  TxWait(t, <<d, side, t>>, at[t].round)
BY DEF Execute, Tx

\* The statement that stores.
LEMMA ExecutesPut ==
  ASSUME NEW t, NEW d, NEW from, NEW acc, Execute(t, Put(d, from, acc))
  PROVE  Store(t, <<d, "reserve", t>>, {<<e, "wait", t>> : e \in from}, acc)
BY DEF Execute, Put

\* Waiting for tiles, for space or for a copy changes no buffer and no block.
LEMMA WaitingEffect ==
  ASSUME NEW t, NEW c, BlockIfNeeded(t, c)
  PROVE  call' = [call EXCEPT ![t] = c] /\ dfb' = dfb /\ block' = block /\ pending' = pending
BY DEF BlockIfNeeded

-----------------------------------------------------------------------------
(* The steps of dm0.                                                       *)

\* Waiting for a transfer is a call: a thread that waits is not idle.
LEMMA TxCalls ==
  ASSUME NEW q \in Refs, NEW i \in Inputs
  PROVE  [op |-> "tx_wait", ref |-> q, tile |-> i] # None
<1>1. [op |-> "tx_wait", ref |-> q, tile |-> i] \in [op : {"tx_wait"}, ref : Refs, tile : Inputs]
  OBVIOUS
<1> QED BY <1>1, NoneAssumption DEF Calls

\* A statement of dm0.
LEMMA ReaderStep ==
  ASSUME IsCore, KernelInv, PipeInv, Step(dm0)
  PROVE  PipeInv'
<1>1. /\ ~Returned(dm0) /\ Execute(dm0, Statement(dm0)) /\ Advance(dm0)
      /\ program' = program /\ written' = written
  BY DEF Step
<1>2. Placed /\ ReaderInv /\ Queued(in) /\ program \in Kernels
  BY DEF PipeInv, Placed
<1>3. program.body[dm0] = Reader /\ Len(Reader) = 4 /\ program.rounds[dm0] \in Nat
  BY <1>2, ProgramFacts, Core
<1> DEFINE next == at[dm0].next
           round == at[dm0].round
<1>4. next \in 1 .. 4 /\ round \in 1 .. program.rounds[dm0] + 1 /\ round \in Nat
  BY <1>2, <1>3, Core DEF Placed
<1>5. /\ at' \in [Threads -> [round : Nat, next : Nat]]
      /\ \A u \in Threads : /\ at'[u].round \in 1 .. program.rounds[u] + 1
                            /\ at'[u].next \in 1 .. Len(program.body[u])
      /\ \A u \in Threads \ {dm0} : at'[u] = at[u]
      /\ round <= program.rounds[dm0]
      /\ next = 4 => at'[dm0].round = round + 1 /\ at'[dm0].next = 1
      /\ next # 4 => at'[dm0].round = round /\ at'[dm0].next = next + 1
  BY <1>1, <1>2, <1>3, Core, Advances
<1>6. TakenSoFar' = TakenSoFar /\ GivenSoFar' = GivenSoFar
  BY <1>1, <1>5, Core, ComputeCounts
<1>7. Placed'
  BY <1>1, <1>2, <1>5, <1>6 DEF Placed
<1>8. Statement(dm0) = Reader[next]
  BY <1>3 DEF Statement
<1>9. InRef \in Refs
  BY CoreRefs DEF Own
<1>10. /\ Pushed(in) \in Nat /\ Popped(in) \in Nat /\ Pushed(in) = round - 1
       /\ Pushed(in)' = at'[dm0].round - 1 /\ Popped(in)' = Popped(in)
  BY <1>2, <1>6, CountsType DEF Pushed, Popped
<1>11. call \in [Threads -> Calls \union {None}]
  BY DEF KernelInv, Shapes
<1> HIDE DEF next, round
<1>12. CASE next = 1
  <2>1. Acquire(dm0, in, "reserve")
    <3>1. Statement(dm0) = Do("reserve", in)
      BY <1>8, <1>12 DEF Reader
    <3> QED BY <1>1, <3>1, Executes
  <2>2. BlockIfNeeded(dm0, [op |-> "reserve", buf |-> in])
    BY <2>1 DEF Acquire
  <2>3. /\ call' = [call EXCEPT ![dm0] = [op |-> "reserve", buf |-> in]]
        /\ dfb' = dfb /\ block' = block
    BY <2>2, WaitingEffect
  <2>4. Queued(in)'
    <3>1. Pushed(in)' = Pushed(in)
      BY <1>4, <1>5, <1>10, <1>12
    <3>2. FrontsKept(dfb'[in], dfb[in], Between(in))
      BY <2>3, SameFronts
    <3> QED BY <1>1, <1>2, <1>10, <3>1, <3>2, Core, QueuedKept
  <2>5. ReaderInv'
    BY <1>5, <1>11, <1>12, <2>3, Core DEF ReaderInv
  <2> QED BY <1>1, <1>5, <1>7, <2>3, <2>4, <2>5, ReaderElsewhere DEF PipeInv
<1>13. CASE next = 2
  <2>1. Copy(dm0, InRef, "COPY_DST")
    <3>1. Statement(dm0) = Do("copy_to", in)
      BY <1>8, <1>13 DEF Reader
    <3> QED BY <1>1, <3>1, Executes DEF InRef
  <2>2. /\ dfb' = dfb /\ block'[InRef].access = Leads("COPY_DST", block[InRef].access)
        /\ \A q \in Refs \ {InRef} : block'[q] = block[q]
        /\ call' = [call EXCEPT ![dm0] = None]
    BY <1>9, <2>1, Core, CopyEffect
  <2>3. Queued(in)'
    <3>1. Pushed(in)' = Pushed(in)
      BY <1>4, <1>5, <1>10, <1>13
    <3>2. FrontsKept(dfb'[in], dfb[in], Between(in))
      BY <2>2, SameFronts
    <3> QED BY <1>1, <1>2, <1>10, <3>1, <3>2, Core, QueuedKept
  <2>4. ReaderInv'
    BY <1>5, <1>11, <1>13, <2>2, Core DEF ReaderInv, Leads
  <2> QED BY <1>1, <1>5, <1>7, <2>2, <2>3, <2>4, ReaderElsewhere DEF PipeInv
<1>14. CASE next = 3
  <2>1. TxWait(dm0, InRef, round)
    <3>1. Statement(dm0) = Tx(in, "reserve")
      BY <1>8, <1>14 DEF Reader
    <3> QED BY <1>1, <3>1, ExecutesTx DEF InRef, round
  <2>2. BlockIfNeeded(dm0, [op |-> "tx_wait", ref |-> InRef, tile |-> round])
    BY <2>1 DEF TxWait
  <2>3. /\ call' = [call EXCEPT ![dm0] = [op |-> "tx_wait", ref |-> InRef, tile |-> round]]
        /\ dfb' = dfb /\ block' = block
    BY <2>2, WaitingEffect
  <2>4. Queued(in)'
    <3>1. Pushed(in)' = Pushed(in)
      BY <1>4, <1>5, <1>10, <1>14
    <3>2. FrontsKept(dfb'[in], dfb[in], Between(in))
      BY <2>3, SameFronts
    <3> QED BY <1>1, <1>2, <1>10, <3>1, <3>2, Core, QueuedKept
  <2>5. call'[dm0] = [op |-> "tx_wait", ref |-> InRef, tile |-> round]
    BY <1>11, <2>3, Core
  <2>6. call'[dm0] # None
    <3>1. program.rounds[dm0] \in Nat /\ 1 .. program.rounds[dm0] \subseteq Inputs
      BY <1>2, <1>3, ProgramFacts
    <3>2. round \in 1 .. program.rounds[dm0]
      BY <1>4, <1>5, <3>1
    <3> QED BY <2>5, <1>9, <3>1, <3>2, TxCalls
  <2>7. ReaderInv'
    BY <1>2, <1>5, <1>14, <2>3, <2>5, <2>6 DEF ReaderInv, next, round
  <2> QED BY <1>1, <1>5, <1>7, <2>3, <2>4, <2>7, ReaderElsewhere DEF PipeInv
<1>15. CASE next = 4
  <2>1. Push(dm0, in) /\ call[dm0] = None
    <3>1. Statement(dm0) = Do("push", in)
      BY <1>8, <1>15 DEF Reader
    <3>2. Push(dm0, in)
      BY <1>1, <3>1, Executes
    <3> QED BY <3>2 DEF Push, Running
  <2>2. Between(in) \in Nat /\ dfb[in].visible = Tiles * Between(in)
    BY <1>2 DEF Queued
  <2>3. /\ block[InRef] # None /\ block'[InRef] = None
        /\ dfb'[in].visible = Tiles * (Between(in) + 1)
        /\ \A k \in 0 .. Between(in) - 1 : Front(dfb'[in], k) = Front(dfb[in], k)
        /\ Front(dfb'[in], Between(in)) = Content(InRef)
        /\ OnlyAt(in, InRef, dm0)
    BY <2>1, <2>2, Core, CoreExclusive, PushEffect DEF InRef
  <2>4. Content(InRef) = Passed(in, Pushed(in) + 1)
    <3>1. Content(InRef) = {round} /\ Pushed(in) + 1 = round
      BY <1>2, <1>4, <1>10, <1>15, <2>1, <2>3 DEF ReaderInv, next, round
    <3> QED BY <3>1 DEF Passed
  <2>5. Pushed(in)' = Pushed(in) + 1
    BY <1>4, <1>5, <1>10, <1>15
  <2>6. Queued(in)'
    BY <1>1, <1>2, <1>10, <2>3, <2>4, <2>5, Core, QueuedPush
  <2>7. ReaderInv'
    BY <1>5, <1>11, <1>15, <2>3, Core DEF ReaderInv, OnlyAt
  <2>8. dfb'[out] = dfb[out] /\ call' = [call EXCEPT ![dm0] = None]
    BY <2>3, Core DEF OnlyAt
  <2> QED BY <1>1, <1>5, <1>7, <2>3, <2>6, <2>7, <2>8, ReaderElsewhere DEF PipeInv, OnlyAt
<1> QED BY <1>4, <1>12, <1>13, <1>14, <1>15

\* dm0 has its space, or its copy.
LEMMA ReaderProceeds ==
  ASSUME IsCore, KernelInv, PipeInv, Proceed(dm0)
  PROVE  PipeInv'
<1>1. /\ Waited(dm0) \/ Reserved(dm0) \/ Transferred(dm0)
      /\ program' = program /\ at' = at
      /\ written' = IF call[dm0].op = "tx_wait" /\ block[call[dm0].ref].access = "NAR"
                    THEN Append(written, Content(call[dm0].ref)) ELSE written
  BY DEF Proceed
<1>2. Placed /\ ReaderInv /\ Queued(in)
  BY DEF PipeInv
<1>3. /\ call[dm0] # None /\ CallInv(dm0) /\ call[dm0] \in Calls
      /\ \/ call[dm0].op = "reserve" /\ at[dm0].next = 2
         \/ call[dm0].op = "tx_wait" /\ at[dm0].next = 4 /\ call[dm0].tile = at[dm0].round
  BY <1>1, <1>2, Core DEF Waited, Reserved, Transferred, Resumed, ReaderInv, KernelInv, Shapes
<1>4. TakenSoFar' = TakenSoFar /\ GivenSoFar' = GivenSoFar
  BY <1>1, ComputeCounts
<1>5. Placed'
  BY <1>1, <1>2, <1>4 DEF Placed
<1>6. Pushed(in)' = Pushed(in) /\ Popped(in)' = Popped(in)
  BY <1>1, <1>4 DEF Pushed, Popped
<1>7. /\ Between(in) \in Nat /\ dfb[in].visible = Tiles * Between(in)
      /\ call \in [Threads -> Calls \union {None}] /\ InRef \in Refs
  BY <1>2, CoreRefs DEF Queued, KernelInv, Shapes, Own
<1>8. CASE call[dm0].op = "reserve"
  <2>1. Reserved(dm0) /\ written' = written /\ call[dm0].buf \in Buffers
    BY <1>1, <1>3, <1>8 DEF Waited, Reserved, Transferred, Resumed, Calls, Sides
  <2>2. dm0 \in Users(call[dm0].buf, "reserve")
    BY <1>3, <1>8 DEF CallInv, Sides
  <2>3. call[dm0].buf = in /\ dm0 \in Reservers[in]
    BY <2>1, <2>2, Core DEF Users
  <2>4. FrontsKept(dfb'[in], dfb[in], Between(in)) /\ OnlyAt(in, InRef, dm0)
    BY <1>7, <2>1, <2>3, Core, ReservedEffect DEF InRef
  <2>5. Queued(in)'
    BY <1>1, <1>2, <1>6, <2>4, Core, QueuedKept
  <2>6. ReaderInv'
    BY <1>1, <1>3, <1>7, <1>8, <2>4, Core DEF ReaderInv, OnlyAt
  <2>7. dfb'[out] = dfb[out] /\ call' = [call EXCEPT ![dm0] = None]
    BY <2>4, Core DEF OnlyAt
  <2> QED BY <1>1, <1>5, <2>1, <2>4, <2>5, <2>6, <2>7, ReaderElsewhere DEF PipeInv, OnlyAt
<1>9. CASE call[dm0].op = "tx_wait"
  <2>1. Transferred(dm0) /\ call[dm0].ref \in Refs
    BY <1>1, <1>3, <1>9 DEF Waited, Reserved, Transferred, Resumed, Calls, Sides
  <2>2. call[dm0].ref = InRef /\ block[InRef] # None /\ block[InRef].access = "NAW"
    <3>1. call[dm0].ref[3] = dm0 /\ block[call[dm0].ref] # None
      BY <1>3, <1>9 DEF CallInv
    <3>2. call[dm0].ref = InRef
      BY <2>1, <3>1, CoreRefs
    <3> QED BY <1>2, <1>3, <1>9, <3>1, <3>2 DEF ReaderInv
  <2>3. /\ block'[InRef].start = block[InRef].start
        /\ \A q \in Refs \ {InRef} : block'[q] = block[q]
        /\ call' = [call EXCEPT ![dm0] = None]
        /\ dfb' = [dfb EXCEPT ![in] = Filled(dfb[in], block[InRef].start, {call[dm0].tile})]
        /\ {call[dm0].tile} \in Contents
    <3>1. dm0 \in Threads /\ InRef[1] = in
      BY Core DEF InRef
    <3> QED BY <1>7, <2>1, <2>2, <3>1, TransferredEffect
  <2>4. /\ FrontsKept(dfb'[in], dfb[in], Between(in))
        /\ dfb'[in].buf[block[InRef].start] = {call[dm0].tile}
        /\ dfb'[out] = dfb[out]
    <3> DEFINE v == {call[dm0].tile}
               n == Between(in)
    <3>1. /\ InRef[1] = in /\ InRef[2] = "reserve" /\ InRef \in Refs /\ block[InRef] # None
          /\ v \in Contents /\ n \in Nat /\ dfb[InRef[1]].visible = Tiles * n
          /\ dfb' = [dfb EXCEPT ![InRef[1]] = Filled(dfb[InRef[1]], block[InRef].start, v)]
      BY <1>7, <2>2, <2>3 DEF InRef
    <3> HIDE DEF v, n
    <3>2. /\ FrontsKept(dfb'[InRef[1]], dfb[InRef[1]], n)
          /\ dfb'[InRef[1]].buf[block[InRef].start] = v
          /\ \A e \in Buffers \ {InRef[1]} : dfb'[e] = dfb[e]
      BY <3>1, FillEffect
    <3> QED BY <3>1, <3>2, Core DEF v, n
  <2>5. Queued(in)'
    BY <1>1, <1>2, <1>6, <2>4, Core, QueuedKept
  <2>6. Content(InRef)' = {at[dm0].round}
    BY <1>3, <1>9, <2>3, <2>4 DEF Content, InRef
  <2>7. ReaderInv'
    BY <1>1, <1>3, <1>7, <1>9, <2>3, <2>6, Core DEF ReaderInv
  <2>8. written' = written
    BY <1>1, <2>2
  <2> QED BY <1>1, <1>5, <2>3, <2>4, <2>5, <2>7, <2>8, ReaderElsewhere DEF PipeInv
<1> QED BY <1>3, <1>8, <1>9

-----------------------------------------------------------------------------
(* The steps of compute.                                                   *)

\* The tile that compute pushes is the next one of the output.
LEMMA PushedTile ==
  ASSUME IsCore, Placed, ~Returned(compute), Statement(compute).do = "push"
  PROVE  /\ GivenSoFar + 1 \in 1 .. Len(program.output)
         /\ program.output[GivenSoFar + 1] = Tile(program, at[compute].round, Here.value)
<1> DEFINE n == at[compute].next
           round == at[compute].round
<1>1. /\ n \in 1 .. Len(program.body[compute]) /\ program \in Kernels
      /\ program.rounds[compute] \in Nat /\ round \in 1 .. program.rounds[compute] + 1
  BY Core, ProgramFacts DEF Placed
<1>2. round \in 1 .. program.rounds[compute]
  BY <1>1 DEF Returned
<1>3. program.body[compute][n].do = "push" /\ program.outline[n] = Here
  BY DEF Statement, Here
<1>4. LET i == (round - 1) * Given(program) + Here.given + 1
      IN i \in 1 .. Len(program.output) /\ program.output[i] = Tile(program, round, Here.value)
  BY <1>1, <1>2, <1>3, PipelinesAssumption DEF IsPipeline
<1> QED BY <1>4 DEF GivenSoFar

\* The input tiles of two outlines.
LEMMA TileUnion ==
  ASSUME NEW k, NEW round, NEW A, NEW B
  PROVE  Tile(k, round, A \union B) = Tile(k, round, A) \union Tile(k, round, B)
BY DEF Tile

\* What compute reads from `in` is its next input tile.
LEMMA StoredTile ==
  ASSUME IsCore, KernelInv, PipeInv, NEW from \in SUBSET {in}, NEW s, s.from = from,
         \A r \in {<<e, "wait", compute>> : e \in from} : block[r] # None
  PROVE  Stored({<<e, "wait", compute>> : e \in from})
           = Tile(program, at[compute].round, Operands(Here, s))
<1>1. CASE from = {}
  BY <1>1 DEF Operands, Tile, Stored
<1>2. CASE from = {in}
  <2> DEFINE r == <<in, "wait", compute>>
  <2>1. compute \in Waiters[in] /\ block[r] # None
    BY <1>2, Core DEF Users
  <2>2. Placed /\ Queued(in)
    BY DEF PipeInv
  <2>3. Content(r) = Passed(in, TakenSoFar + 1)
    BY <2>1, <2>2, Core, CountsType, WaitedContent
  <2>4. Content(r) = {TakenSoFar + 1}
    BY <2>3 DEF Passed
  <2>5. Operands(Here, s) = {Here.taken + 1}
    BY <1>2 DEF Operands
  <2>6. /\ Here.taken \in Nat /\ Taken(program) \in Nat /\ at[compute].round \in Nat
    BY <2>2, Core, OutlineFacts DEF Placed, Here
  <2>7. TakenSoFar + 1 = (at[compute].round - 1) * Taken(program) + (Here.taken + 1)
    <3> DEFINE before == (at[compute].round - 1) * Taken(program)
    <3>1. before \in Int /\ TakenSoFar = before + Here.taken
      BY <2>6 DEF TakenSoFar
    <3> HIDE DEF before
    <3>2. TakenSoFar + 1 = before + (Here.taken + 1)
      BY <2>6, <3>1
    <3> QED BY <3>2 DEF before
  <2>8. Tile(program, at[compute].round, {Here.taken + 1}) = {TakenSoFar + 1}
    BY <2>7 DEF Tile
  <2>9. {Content(q) : q \in {<<e, "wait", compute>> : e \in {in}}} = {Content(r)}
    OBVIOUS
  <2> QED BY <1>2, <2>4, <2>5, <2>8, <2>9 DEF Stored
<1> QED BY <1>1, <1>2

\* A block that may be pushed has been written to.
LEMMA PushedNotFresh ==
  ASSUME KernelInv, NEW t \in Threads, NEW d \in Buffers, Push(t, d),
         <<d, "reserve", t>> \in Refs, block[<<d, "reserve", t>>] # None
  PROVE  block[<<d, "reserve", t>>].access # "MW"
<1> DEFINE r == <<d, "reserve", t>>
           b == block[r]
<1>1. RefInv(r) /\ r[1] = d /\ r[2] = "reserve" /\ r[3] = t /\ t # None
  BY ThreadsAssumption DEF KernelInv
<1>2. pending[<<d, "reserve">>] = t /\ Known(b) /\ b.side = "reserve"
  BY <1>1 DEF RefInv, BlockInv
<1>3. "PUSH" \in b.expected
  BY <1>1, <1>2 DEF Push, PushLegal, MayClose, Expects
<1> HIDE DEF b
<1>4. b.access # "MW"
  BY <1>2, <1>3 DEF Known, KnownStates
<1> QED BY <1>4 DEF b

\* A statement of compute.
LEMMA ComputeStep ==
  ASSUME IsCore, KernelInv, PipeInv, Step(compute)
  PROVE  PipeInv'
<1>1. /\ ~Returned(compute) /\ Execute(compute, Statement(compute)) /\ Advance(compute)
      /\ program' = program /\ written' = written
  BY DEF Step
<1>2. /\ Placed /\ ComputeInv /\ Queued(in) /\ Queued(out) /\ program \in Kernels
      /\ TakenSoFar \in Nat /\ GivenSoFar \in 0 .. Len(program.output)
  BY DEF PipeInv, Placed
<1> DEFINE s == Statement(compute)
           o == Follows(Here, s)
<1>3. /\ s \in ComputeStatements
      /\ Here = [taken |-> Here.taken, given |-> Here.given, open |-> Here.open,
                 value |-> Here.value]
  BY <1>2, Core, OutlineFacts DEF Placed, Here, Statement
<1>4. /\ at' \in [Threads -> [round : Nat, next : Nat]]
      /\ \A u \in Threads : /\ at'[u].round \in 1 .. program.rounds[u] + 1
                            /\ at'[u].next \in 1 .. Len(program.body[u])
      /\ \A u \in Threads \ {compute} : at'[u] = at[u]
  BY <1>1, <1>2, Core, Advances
<1>5. /\ TakenSoFar' = TakenSoFar + IF s.do = "pop" THEN 1 ELSE 0
      /\ GivenSoFar' = GivenSoFar + IF s.do = "push" THEN 1 ELSE 0
      /\ Here'.open <=> o.open
      /\ o.open => Here'.value = o.value /\ at'[compute].round = at[compute].round
  BY <1>1, <1>2, ComputeAdvances
<1>6. s.do = "push" =>
        /\ GivenSoFar + 1 \in 1 .. Len(program.output)
        /\ program.output[GivenSoFar + 1] = Tile(program, at[compute].round, Here.value)
  BY <1>1, <1>2, PushedTile
<1>7. Placed'
  <2>1. TakenSoFar' \in Nat
    BY <1>2, <1>5
  <2>2. GivenSoFar' \in 0 .. Len(program.output)
    BY <1>2, <1>5, <1>6
  <2> QED BY <1>1, <1>2, <1>4, <2>1, <2>2 DEF Placed
<1>8. /\ Pushed(in) \in Nat /\ Pushed(in)' = Pushed(in)
      /\ Popped(in) = TakenSoFar /\ Popped(in)' = TakenSoFar'
      /\ Popped(out) \in Nat /\ Popped(out)' = Popped(out)
      /\ Pushed(out) = GivenSoFar /\ Pushed(out)' = GivenSoFar'
  BY <1>2, <1>4, CountsType, Core DEF Pushed, Popped
<1>9. /\ OutRef \in Refs /\ OutRef[3] = compute /\ InRef \in Refs /\ InRef[3] # compute
      /\ call \in [Threads -> Calls \union {None}]
  BY CoreRefs, Core DEF OutRef, InRef, Own, KernelInv, Shapes
<1>10. /\ Between(in) \in Nat /\ dfb[in].visible = Tiles * Between(in)
       /\ Between(out) \in Nat /\ dfb[out].visible = Tiles * Between(out)
  BY <1>2 DEF Queued
<1>11. /\ s.do # "pop" => Popped(in)' = Popped(in)
       /\ s.do # "push" => Pushed(out)' = Pushed(out)
  BY <1>2, <1>5, <1>8
<1> HIDE DEF s, o
<1>12. CASE s = Do("wait", in) \/ s = Do("reserve", out)
  <2>1. PICK d \in Buffers, side \in Sides :
          Acquire(compute, d, side) /\ s = Do(side, d)
    BY <1>1, <1>12, Executes, Core DEF s, Sides
  <2>2. /\ call' = [call EXCEPT ![compute] = [op |-> side, buf |-> d]]
        /\ dfb' = dfb /\ block' = block /\ pending[<<d, side>>] = None
    BY <2>1, WaitingEffect DEF Acquire
  <2>3. ReaderInv' /\ WriterInv'
    BY <1>1, <1>4, <2>2, ComputeElsewhere DEF Content, InRef
  <2>4. Queued(in)' /\ Queued(out)'
    <3>1. s.do # "pop" /\ s.do # "push"
      BY <1>12 DEF Do
    <3>2. /\ FrontsKept(dfb'[in], dfb[in], Between(in))
          /\ FrontsKept(dfb'[out], dfb[out], Between(out))
      BY <2>2, SameFronts
    <3> QED BY <1>1, <1>2, <1>8, <1>11, <3>1, <3>2, Core, QueuedKept
  <2>5. call'[compute] = [op |-> side, buf |-> d]
    BY <1>9, <2>2, Core
  <2>6. ComputeInv'
    <3>1. CASE s = Do("wait", in)
      <4>1. side = "wait" /\ o = Here
        BY <1>3, <2>1, <3>1 DEF o, Do, Follows
      <4>2. block[OutRef] # None => Content(OutRef)' = Content(OutRef)
        BY <2>2 DEF Content, OutRef
      <4>3. call'[compute].op \in Sides /\ call'[compute].op # "reserve"
        BY <2>5, <4>1
      <4> QED BY <1>1, <1>2, <1>5, <2>2, <4>1, <4>2, <4>3 DEF ComputeInv
    <3>2. CASE s = Do("reserve", out)
      <4>1. side = "reserve" /\ d = out /\ o.open /\ o.value = {}
        BY <1>3, <2>1, <3>2 DEF o, Do, Follows
      <4>2. block[OutRef] = None
        <5>1. RefInv(OutRef) /\ pending[<<out, "reserve">>] = None /\ compute # None
          BY <1>9, <2>2, <4>1, Core, ThreadsAssumption DEF KernelInv
        <5> QED BY <5>1 DEF RefInv, OutRef
      <4> QED BY <1>5, <2>2, <2>5, <4>1, <4>2 DEF ComputeInv
    <3> QED BY <1>12, <3>1, <3>2
  <2> QED BY <1>7, <2>3, <2>4, <2>6 DEF PipeInv
<1>13. CASE s = Do("pop", in)
  <2>1. Pop(compute, in) /\ s.do = "pop" /\ s.do # "push"
    <3>1. Pop(compute, in)
      BY <1>1, <1>13, Executes DEF s
    <3> QED BY <1>13, <3>1 DEF Do
  <2>2. /\ Between(in) - 1 \in Nat /\ dfb'[in].visible = Tiles * (Between(in) - 1)
        /\ \A k \in 0 .. Between(in) - 2 : Front(dfb'[in], k) = Front(dfb[in], k + 1)
        /\ OnlyAt(in, <<in, "wait", compute>>, compute)
    BY <1>10, <2>1, Core, CoreExclusive, PopEffect
  <2>3. OthersKept(compute)
    BY <2>1, Core, CoreExclusive, PopStep
  <2>4. /\ dfb'[out] = dfb[out] /\ block'[OutRef] = block[OutRef]
        /\ call' = [call EXCEPT ![compute] = None]
        /\ \A r \in Refs : r[3] # compute => block'[r] = block[r]
    <3>1. OutRef # <<in, "wait", compute>>
      BY Core DEF OutRef
    <3> QED BY <1>9, <2>2, <3>1, Core DEF OnlyAt
  <2>5. ReaderInv' /\ WriterInv'
    BY <1>1, <1>4, <1>9, <2>3, <2>4, ComputeElsewhere DEF OthersKept
  <2>6. Queued(in)'
    BY <1>1, <1>2, <1>5, <1>8, <2>1, <2>2, Core, QueuedPop
  <2>7. Queued(out)'
    BY <1>1, <1>2, <1>8, <1>11, <2>1, <2>4, Core, SameFronts, QueuedKept
  <2>8. ComputeInv'
    <3>1. o.open = Here.open /\ o.value = Here.value
      BY <1>3, <2>1 DEF o, Follows
    <3>2. Content(OutRef)' = Content(OutRef)
      BY <2>4 DEF Content, OutRef
    <3>3. call'[compute] = None
      BY <1>9, <2>4, Core
    <3> QED BY <1>1, <1>2, <1>5, <2>4, <3>1, <3>2, <3>3 DEF ComputeInv
  <2> QED BY <1>7, <2>5, <2>6, <2>7, <2>8 DEF PipeInv
<1>14. CASE s = Do("push", out)
  <2>1. Push(compute, out) /\ s.do = "push" /\ s.do # "pop"
    <3>1. Push(compute, out)
      BY <1>1, <1>14, Executes DEF s
    <3> QED BY <1>14, <3>1 DEF Do
  <2>2. /\ block[OutRef] # None /\ block'[OutRef] = None
        /\ dfb'[out].visible = Tiles * (Between(out) + 1)
        /\ \A k \in 0 .. Between(out) - 1 : Front(dfb'[out], k) = Front(dfb[out], k)
        /\ Front(dfb'[out], Between(out)) = Content(OutRef)
        /\ OnlyAt(out, OutRef, compute)
    BY <1>10, <2>1, Core, CoreExclusive, PushEffect DEF OutRef
  <2>3. block[OutRef].access # "MW"
    BY <1>9, <2>1, <2>2, Core, PushedNotFresh DEF OutRef
  <2>4. Content(OutRef) = Passed(out, Pushed(out) + 1)
    <3>1. Content(OutRef) = Tile(program, at[compute].round, Here.value)
      BY <1>2, <2>2, <2>3 DEF ComputeInv
    <3> QED BY <1>6, <1>8, <2>1, <3>1, Core DEF Passed
  <2>5. Pushed(out)' = Pushed(out) + 1 /\ Pushed(out) \in Nat
    BY <1>2, <1>5, <1>8, <2>1
  <2>6. Queued(out)'
    BY <1>1, <1>2, <1>8, <2>2, <2>4, <2>5, Core, QueuedPush
  <2>7. /\ dfb'[in] = dfb[in] /\ call' = [call EXCEPT ![compute] = None]
        /\ \A r \in Refs : r[3] # compute => block'[r] = block[r]
    BY <1>9, <2>2, Core DEF OnlyAt
  <2>8. Queued(in)'
    BY <1>1, <1>2, <1>8, <1>11, <2>1, <2>7, Core, SameFronts, QueuedKept
  <2>9. ReaderInv' /\ WriterInv'
    <3>1. Content(InRef)' = Content(InRef)
      BY <1>9, <2>7 DEF Content, InRef
    <3> QED BY <1>1, <1>4, <2>7, <3>1, ComputeElsewhere
  <2>10. ComputeInv'
    BY <1>9, <2>2, <2>7, Core DEF ComputeInv
  <2> QED BY <1>7, <2>6, <2>8, <2>9, <2>10 DEF PipeInv
<1>15. ASSUME NEW from \in SUBSET {in}, NEW acc \in BOOLEAN, s = Put(out, from, acc)
       PROVE  PipeInv'
  <2> DEFINE sources == {<<e, "wait", compute>> : e \in from}
             round == at[compute].round
             operands == Operands(Here, s)
  <2>1. Store(compute, OutRef, sources, acc)
    BY <1>1, <1>15, ExecutesPut DEF s, OutRef
  <2>2. /\ s.do # "pop" /\ s.do # "push" /\ s.from = from
        /\ o.open = Here.open
        /\ o.value = IF acc THEN Here.value \union operands ELSE operands
    BY <1>3, <1>15 DEF o, Put, Follows
  <2>3. /\ OutRef \in Own(compute) /\ OutRef[1] = out /\ OutRef[2] = "reserve"
        /\ sources \in SUBSET Own(compute)
    BY CoreRefs DEF OutRef
  <2> HIDE DEF sources, operands
  <2>4. /\ block[OutRef] # None /\ \A r \in sources : block[r] # None
        /\ FrontsKept(dfb'[out], dfb[out], Between(out))
        /\ \A e \in Buffers \ {out} : dfb'[e] = dfb[e]
        /\ \A q \in Refs : q[3] # compute => block'[q] = block[q]
        /\ call' = [call EXCEPT ![compute] = None]
        /\ block'[OutRef].access # "MW"
        /\ acc /\ block[OutRef].access # "MW" =>
             Content(OutRef)' = Content(OutRef) \union Stored(sources)
        /\ ~(acc /\ block[OutRef].access # "MW") =>
             Content(OutRef)' = Stored(sources)
    <3> DEFINE n == Between(out)
    <3>1. n \in Nat /\ dfb[OutRef[1]].visible = Tiles * n
      BY <1>10, <2>3
    <3> HIDE DEF n
    <3>2. compute \in Threads
      BY Core
    <3>3. StoreDone(compute, OutRef, sources, acc, n)
      BY <2>1, <2>3, <3>1, <3>2, StoreEffect
    <3> QED BY <2>3, <3>3 DEF n, StoreDone
  <2>5. Stored(sources) = Tile(program, round, operands)
    BY <2>2, <2>4, StoredTile DEF sources, operands
  <2>6. dfb'[in] = dfb[in]
    BY <2>4, Core
  <2>7. Queued(in)' /\ Queued(out)'
    BY <1>1, <1>2, <1>8, <1>11, <2>2, <2>4, <2>6, Core, SameFronts, QueuedKept
  <2>8. ReaderInv' /\ WriterInv'
    <3>1. Content(InRef)' = Content(InRef)
      BY <1>9, <2>4, <2>6 DEF Content, InRef
    <3> QED BY <1>1, <1>4, <2>4, <3>1, ComputeElsewhere
  <2>9. ComputeInv'
    <3>1. /\ Here.open
          /\ block[OutRef].access = "MW" => Here.value = {}
          /\ block[OutRef].access # "MW" => Content(OutRef) = Tile(program, round, Here.value)
      BY <1>2, <2>4 DEF ComputeInv
    <3>2. Here'.open /\ Here'.value = o.value /\ at'[compute].round = round
      BY <1>5, <2>2, <3>1
    <3>3. Content(OutRef)' = Tile(program, round, o.value)
      <4>1. CASE acc /\ block[OutRef].access # "MW"
        <5>1. Content(OutRef)' = Tile(program, round, Here.value)
                                   \union Tile(program, round, operands)
          BY <2>4, <2>5, <3>1, <4>1
        <5>2. o.value = Here.value \union operands
          BY <2>2, <4>1
        <5> QED BY <5>1, <5>2, TileUnion
      <4>2. CASE ~(acc /\ block[OutRef].access # "MW")
        <5>1. Content(OutRef)' = Tile(program, round, operands)
          BY <2>4, <2>5, <4>2
        <5>2. o.value = operands
          BY <2>2, <3>1, <4>2
        <5> QED BY <5>1, <5>2
      <4> QED BY <4>1, <4>2
    <3>4. Tile(program, round, o.value)
            = Tile(program', at'[compute].round, Here'.value)
      BY <1>1, <3>2
    <3>5. call'[compute] = None
      BY <1>9, <2>4, Core
    <3> QED BY <2>4, <3>2, <3>3, <3>4, <3>5 DEF ComputeInv
  <2> QED BY <1>7, <2>7, <2>8, <2>9 DEF PipeInv
<1> QED BY <1>3, <1>12, <1>13, <1>14, <1>15 DEF ComputeStatements

\* compute has its tiles, or its space.
LEMMA ComputeProceeds ==
  ASSUME IsCore, KernelInv, PipeInv, Proceed(compute)
  PROVE  PipeInv'
<1>1. /\ Waited(compute) \/ Reserved(compute) \/ Transferred(compute)
      /\ program' = program /\ at' = at
      /\ written' = IF call[compute].op = "tx_wait" /\ block[call[compute].ref].access = "NAR"
                    THEN Append(written, Content(call[compute].ref)) ELSE written
  BY DEF Proceed
<1>2. Placed /\ ComputeInv /\ Queued(in) /\ Queued(out)
  BY DEF PipeInv
<1>3. /\ call[compute] # None /\ CallInv(compute) /\ call[compute] \in Calls
      /\ call[compute].op \in Sides
      /\ call[compute].op = "reserve" => Here.open /\ Here.value = {}
  BY <1>1, <1>2, Core DEF Waited, Reserved, Transferred, Resumed, ComputeInv, KernelInv, Shapes
<1>4. TakenSoFar' = TakenSoFar /\ GivenSoFar' = GivenSoFar /\ Here' = Here
  BY <1>1, ComputeCounts
<1>5. Placed'
  BY <1>1, <1>2, <1>4 DEF Placed
<1>6. /\ Pushed(in)' = Pushed(in) /\ Popped(in)' = Popped(in)
      /\ Pushed(out)' = Pushed(out) /\ Popped(out)' = Popped(out)
  BY <1>1, <1>4 DEF Pushed, Popped
<1>7. /\ Between(in) \in Nat /\ dfb[in].visible = Tiles * Between(in)
      /\ Between(out) \in Nat /\ dfb[out].visible = Tiles * Between(out)
      /\ call \in [Threads -> Calls \union {None}]
      /\ OutRef \in Refs /\ InRef \in Refs /\ InRef[3] # compute
  BY <1>2, CoreRefs, Core DEF Queued, KernelInv, Shapes, Own, InRef
<1>8. /\ written' = written /\ call[compute].buf \in Buffers
      /\ compute \in Users(call[compute].buf, call[compute].op)
  BY <1>1, <1>3 DEF CallInv, Sides, Calls
<1>9. CASE call[compute].op = "wait"
  <2>1. Waited(compute) /\ call[compute].buf = in
    BY <1>1, <1>8, <1>9, Core DEF Waited, Reserved, Transferred, Resumed
  <2>2. FrontsKept(dfb'[in], dfb[in], Between(in)) /\ OnlyAt(in, <<in, "wait", compute>>, compute)
    BY <1>7, <2>1, Core, WaitedEffect
  <2>3. OthersKept(compute)
    BY <2>1, Core, CoreExclusive, WaitedStep
  <2>4. /\ dfb'[out] = dfb[out] /\ block'[OutRef] = block[OutRef]
        /\ call' = [call EXCEPT ![compute] = None]
        /\ \A r \in Refs : r[3] # compute => block'[r] = block[r]
    <3>1. OutRef # <<in, "wait", compute>>
      BY Core DEF OutRef
    <3> QED BY <1>7, <2>2, <3>1, Core DEF OnlyAt
  <2>5. ReaderInv' /\ WriterInv'
    BY <1>1, <1>7, <1>8, <2>3, <2>4, ComputeElsewhere DEF OthersKept
  <2>6. Queued(in)' /\ Queued(out)'
    BY <1>1, <1>2, <1>6, <2>2, <2>4, Core, SameFronts, QueuedKept
  <2>7. ComputeInv'
    <3>1. Content(OutRef)' = Content(OutRef)
      BY <2>4 DEF Content, OutRef
    <3>2. call'[compute] = None
      BY <1>7, <2>4, Core
    <3> QED BY <1>1, <1>2, <1>4, <2>4, <3>1, <3>2 DEF ComputeInv
  <2> QED BY <1>5, <2>5, <2>6, <2>7 DEF PipeInv
<1>10. CASE call[compute].op = "reserve"
  <2>1. Reserved(compute) /\ call[compute].buf = out /\ compute \in Reservers[out]
    BY <1>1, <1>8, <1>10, Core DEF Waited, Reserved, Transferred, Resumed, Users
  <2>2. /\ FrontsKept(dfb'[out], dfb[out], Between(out)) /\ OnlyAt(out, OutRef, compute)
        /\ block'[OutRef].access = "MW"
    BY <1>7, <2>1, Core, ReservedEffect DEF OutRef
  <2>3. /\ dfb'[in] = dfb[in] /\ call' = [call EXCEPT ![compute] = None]
        /\ \A r \in Refs : r[3] # compute => block'[r] = block[r]
    BY <1>7, <2>2, Core DEF OnlyAt, OutRef
  <2>4. ReaderInv' /\ WriterInv'
    <3>1. Content(InRef)' = Content(InRef)
      BY <1>7, <2>3 DEF Content, InRef
    <3> QED BY <1>1, <1>8, <2>3, <3>1, ComputeElsewhere
  <2>5. Queued(in)' /\ Queued(out)'
    BY <1>1, <1>2, <1>6, <2>2, <2>3, Core, SameFronts, QueuedKept
  <2>6. ComputeInv'
    <3>1. call'[compute] = None
      BY <1>7, <2>3, Core
    <3> QED BY <1>3, <1>4, <1>10, <2>2, <3>1 DEF ComputeInv
  <2> QED BY <1>5, <2>4, <2>5, <2>6 DEF PipeInv
<1> QED BY <1>3, <1>9, <1>10 DEF Sides

-----------------------------------------------------------------------------
(* The steps of dm1.                                                       *)

\* A statement of dm1.
LEMMA WriterStep ==
  ASSUME IsCore, KernelInv, PipeInv, Step(dm1)
  PROVE  PipeInv'
<1>1. /\ ~Returned(dm1) /\ Execute(dm1, Statement(dm1)) /\ Advance(dm1)
      /\ program' = program /\ written' = written
  BY DEF Step
<1>2. Placed /\ WriterInv /\ Queued(out) /\ program \in Kernels
  BY DEF PipeInv, Placed
<1>3. program.body[dm1] = Writer /\ Len(Writer) = 4 /\ program.rounds[dm1] \in Nat
  BY <1>2, ProgramFacts, Core
<1> DEFINE next == at[dm1].next
           round == at[dm1].round
<1>4. next \in 1 .. 4 /\ round \in 1 .. program.rounds[dm1] + 1 /\ round \in Nat
  BY <1>2, <1>3, Core DEF Placed
<1>5. /\ at' \in [Threads -> [round : Nat, next : Nat]]
      /\ \A u \in Threads : /\ at'[u].round \in 1 .. program.rounds[u] + 1
                            /\ at'[u].next \in 1 .. Len(program.body[u])
      /\ \A u \in Threads \ {dm1} : at'[u] = at[u]
      /\ round <= program.rounds[dm1]
      /\ next = 4 => at'[dm1].round = round + 1 /\ at'[dm1].next = 1
      /\ next # 4 => at'[dm1].round = round /\ at'[dm1].next = next + 1
  BY <1>1, <1>2, <1>3, Core, Advances
<1>6. TakenSoFar' = TakenSoFar /\ GivenSoFar' = GivenSoFar
  BY <1>1, <1>5, Core, ComputeCounts
<1>7. Placed'
  BY <1>1, <1>2, <1>5, <1>6 DEF Placed
<1>8. Statement(dm1) = Writer[next]
  BY <1>3 DEF Statement
<1>9. WriteRef \in Refs /\ OutRef \in Refs /\ OutRef[3] # dm1 /\ OutRef # WriteRef
  BY CoreRefs, Core DEF Own, OutRef, WriteRef
<1>10. /\ Pushed(out) \in Nat /\ Popped(out) \in Nat /\ Popped(out) = round - 1
       /\ Popped(out)' = at'[dm1].round - 1 /\ Pushed(out)' = Pushed(out)
  BY <1>2, <1>6, CountsType, Core DEF Pushed, Popped
<1>11. /\ call \in [Threads -> Calls \union {None}]
       /\ Between(out) \in Nat /\ dfb[out].visible = Tiles * Between(out)
  BY <1>2 DEF KernelInv, Shapes, Queued
<1>12. InOrder' /\ written' \in Seq(Contents) /\ Len(written') = WrittenSoFar
  BY <1>1, <1>2 DEF WriterInv, InOrder
<1> HIDE DEF next, round
<1>13. CASE next = 1
  <2>1. Acquire(dm1, out, "wait")
    <3>1. Statement(dm1) = Do("wait", out)
      BY <1>8, <1>13 DEF Writer
    <3> QED BY <1>1, <3>1, Executes
  <2>2. /\ call' = [call EXCEPT ![dm1] = [op |-> "wait", buf |-> out]]
        /\ dfb' = dfb /\ block' = block
    BY <2>1, WaitingEffect DEF Acquire
  <2>3. Popped(out)' = Popped(out)
    BY <1>4, <1>5, <1>10, <1>13
  <2>4. Queued(out)'
    BY <1>1, <1>2, <1>10, <2>2, <2>3, Core, SameFronts, QueuedKept
  <2>5. WriterInv'
    BY <1>5, <1>11, <1>12, <1>13, <2>2, Core DEF WriterInv, WrittenSoFar, next, round
  <2>6. Content(OutRef)' = Content(OutRef)
    BY <2>2 DEF Content, OutRef
  <2> QED BY <1>1, <1>5, <1>7, <2>2, <2>4, <2>5, <2>6, WriterElsewhere DEF PipeInv
<1>14. CASE next = 2
  <2>1. Copy(dm1, WriteRef, "COPY_SRC")
    <3>1. Statement(dm1) = Do("copy_from", out)
      BY <1>8, <1>14 DEF Writer
    <3> QED BY <1>1, <3>1, Executes DEF WriteRef
  <2>2. /\ dfb' = dfb /\ block'[WriteRef].access = Leads("COPY_SRC", block[WriteRef].access)
        /\ \A q \in Refs \ {WriteRef} : block'[q] = block[q]
        /\ call' = [call EXCEPT ![dm1] = None]
    BY <1>9, <2>1, Core, CopyEffect
  <2>3. Popped(out)' = Popped(out)
    BY <1>4, <1>5, <1>10, <1>14
  <2>4. Queued(out)'
    BY <1>1, <1>2, <1>10, <2>2, <2>3, Core, SameFronts, QueuedKept
  <2>5. WriterInv'
    BY <1>5, <1>11, <1>12, <1>14, <2>2, Core DEF WriterInv, WrittenSoFar, next, round, Leads
  <2>6. Content(OutRef)' = Content(OutRef)
    BY <1>9, <2>2 DEF Content, OutRef
  <2> QED BY <1>1, <1>5, <1>7, <2>2, <2>4, <2>5, <2>6, WriterElsewhere DEF PipeInv
<1>15. CASE next = 3
  <2>1. TxWait(dm1, WriteRef, round)
    <3>1. Statement(dm1) = Tx(out, "wait")
      BY <1>8, <1>15 DEF Writer
    <3> QED BY <1>1, <3>1, ExecutesTx DEF WriteRef, round
  <2>2. BlockIfNeeded(dm1, [op |-> "tx_wait", ref |-> WriteRef, tile |-> round])
    BY <2>1 DEF TxWait
  <2>3. /\ call' = [call EXCEPT ![dm1] = [op |-> "tx_wait", ref |-> WriteRef, tile |-> round]]
        /\ dfb' = dfb /\ block' = block
    BY <2>2, WaitingEffect
  <2>4. Popped(out)' = Popped(out)
    BY <1>4, <1>5, <1>10, <1>15
  <2>5. Queued(out)'
    BY <1>1, <1>2, <1>10, <2>3, <2>4, Core, SameFronts, QueuedKept
  <2>6. call'[dm1] = [op |-> "tx_wait", ref |-> WriteRef, tile |-> round]
    BY <1>11, <2>3, Core
  <2>7. call'[dm1] # None
    <3>1. program.rounds[dm1] \in Nat /\ 1 .. program.rounds[dm1] \subseteq Inputs
      BY <1>2, <1>3, ProgramFacts
    <3>2. round \in 1 .. program.rounds[dm1]
      BY <1>4, <1>5, <3>1
    <3> QED BY <2>6, <1>9, <3>1, <3>2, TxCalls
  <2>8. WriterInv'
    BY <1>2, <1>4, <1>5, <1>12, <1>15, <2>3, <2>6, <2>7 DEF WriterInv, WrittenSoFar, next, round
  <2>9. Content(OutRef)' = Content(OutRef)
    BY <2>3 DEF Content, OutRef
  <2> QED BY <1>1, <1>5, <1>7, <2>3, <2>5, <2>8, <2>9, WriterElsewhere DEF PipeInv
<1>16. CASE next = 4
  <2>1. Pop(dm1, out) /\ call[dm1] = None
    <3>1. Statement(dm1) = Do("pop", out)
      BY <1>8, <1>16 DEF Writer
    <3>2. Pop(dm1, out)
      BY <1>1, <3>1, Executes
    <3> QED BY <3>2 DEF Pop, Running
  <2>2. /\ Between(out) - 1 \in Nat /\ dfb'[out].visible = Tiles * (Between(out) - 1)
        /\ \A k \in 0 .. Between(out) - 2 : Front(dfb'[out], k) = Front(dfb[out], k + 1)
        /\ OnlyAt(out, WriteRef, dm1)
    BY <1>11, <2>1, Core, CoreExclusive, PopEffect DEF WriteRef
  <2>3. OthersKept(dm1)
    BY <2>1, Core, CoreExclusive, PopStep
  <2>4. Popped(out)' = Popped(out) + 1
    <3>1. at'[dm1].round = round + 1
      BY <1>5, <1>16
    <3> QED BY <1>4, <1>10, <3>1
  <2>5. Queued(out)'
    BY <1>1, <1>2, <1>10, <2>2, <2>4, Core, QueuedPop
  <2>6. /\ dfb'[in] = dfb[in] /\ call' = [call EXCEPT ![dm1] = None]
        /\ \A r \in Refs \ {WriteRef} : block'[r] = block[r]
    BY <2>2, Core DEF OnlyAt
  <2>7. WriterInv'
    <3>1. call'[dm1] = None
      BY <1>11, <2>6, Core
    <3>2. WrittenSoFar' = WrittenSoFar
      BY <1>4, <1>5, <1>16, <2>1 DEF WrittenSoFar, next, round
    <3> QED BY <1>5, <1>12, <1>16, <3>1, <3>2 DEF WriterInv
  <2>8. block[OutRef] # None => Content(OutRef)' = Content(OutRef)
    BY <1>9, <2>3 DEF OthersKept
  <2> QED BY <1>1, <1>5, <1>7, <2>5, <2>6, <2>7, <2>8, WriterElsewhere DEF PipeInv
<1> QED BY <1>4, <1>13, <1>14, <1>15, <1>16

\* dm1 has its tiles, or its copy: then a block has been written out.
LEMMA WriterProceeds ==
  ASSUME IsCore, KernelInv, PipeInv, Proceed(dm1)
  PROVE  PipeInv'
<1>1. /\ Waited(dm1) \/ Reserved(dm1) \/ Transferred(dm1)
      /\ program' = program /\ at' = at
      /\ written' = IF call[dm1].op = "tx_wait" /\ block[call[dm1].ref].access = "NAR"
                    THEN Append(written, Content(call[dm1].ref)) ELSE written
  BY DEF Proceed
<1>2. Placed /\ WriterInv /\ Queued(out)
  BY DEF PipeInv
<1>3. /\ call[dm1] # None /\ CallInv(dm1) /\ call[dm1] \in Calls
      /\ \/ call[dm1].op = "wait" /\ at[dm1].next = 2
         \/ call[dm1].op = "tx_wait" /\ at[dm1].next = 4
  BY <1>1, <1>2, Core DEF Waited, Reserved, Transferred, Resumed, WriterInv, KernelInv, Shapes
<1>4. TakenSoFar' = TakenSoFar /\ GivenSoFar' = GivenSoFar
  BY <1>1, ComputeCounts
<1>5. Placed'
  BY <1>1, <1>2, <1>4 DEF Placed
<1>6. Pushed(out)' = Pushed(out) /\ Popped(out)' = Popped(out)
  BY <1>1, <1>4 DEF Pushed, Popped
<1>7. /\ Between(out) \in Nat /\ dfb[out].visible = Tiles * Between(out)
      /\ call \in [Threads -> Calls \union {None}]
      /\ WriteRef \in Refs /\ OutRef \in Refs /\ OutRef[3] # dm1
  BY <1>2, CoreRefs, Core DEF Queued, KernelInv, Shapes, Own, OutRef
<1>8. CASE call[dm1].op = "wait"
  <2>1. Waited(dm1) /\ written' = written /\ call[dm1].buf \in Buffers
    BY <1>1, <1>3, <1>8 DEF Waited, Reserved, Transferred, Resumed, Calls, Sides
  <2>2. dm1 \in Users(call[dm1].buf, "wait")
    BY <1>3, <1>8 DEF CallInv, Sides
  <2>3. call[dm1].buf = out
    BY <2>1, <2>2, Core
  <2>4. FrontsKept(dfb'[out], dfb[out], Between(out)) /\ OnlyAt(out, WriteRef, dm1)
    BY <1>7, <2>1, <2>3, Core, WaitedEffect DEF WriteRef
  <2>5. OthersKept(dm1)
    BY <2>1, Core, CoreExclusive, WaitedStep
  <2>6. Queued(out)'
    BY <1>1, <1>2, <1>6, <2>4, Core, QueuedKept
  <2>7. /\ dfb'[in] = dfb[in] /\ call' = [call EXCEPT ![dm1] = None]
        /\ \A r \in Refs \ {WriteRef} : block'[r] = block[r]
    BY <2>4, Core DEF OnlyAt
  <2>8. WriterInv'
    <3>1. WrittenSoFar' = WrittenSoFar /\ InOrder'
      BY <1>1, <1>2, <1>3, <1>8, <2>1 DEF WrittenSoFar, WriterInv, InOrder
    <3>2. call'[dm1] = None
      BY <1>7, <2>7, Core
    <3> QED BY <1>1, <1>2, <1>3, <1>8, <2>1, <3>1, <3>2 DEF WriterInv
  <2>9. block[OutRef] # None => Content(OutRef)' = Content(OutRef)
    BY <1>7, <2>5 DEF OthersKept
  <2> QED BY <1>1, <1>5, <2>6, <2>7, <2>8, <2>9, WriterElsewhere DEF PipeInv
<1>9. CASE call[dm1].op = "tx_wait"
  <2>1. Transferred(dm1) /\ call[dm1].ref \in Refs /\ at[dm1].next = 4
    BY <1>1, <1>3, <1>9 DEF Waited, Reserved, Transferred, Resumed, Calls, Sides
  <2>2. call[dm1].ref = WriteRef /\ block[WriteRef] # None /\ block[WriteRef].access = "NAR"
    <3>1. call[dm1].ref[3] = dm1 /\ block[call[dm1].ref] # None
      BY <1>3, <1>9 DEF CallInv
    <3>2. call[dm1].ref = WriteRef
      BY <2>1, <3>1, CoreRefs
    <3> QED BY <1>2, <1>3, <2>1, <3>1, <3>2 DEF WriterInv
  <2>3. /\ \A q \in Refs \ {WriteRef} : block'[q] = block[q]
        /\ call' = [call EXCEPT ![dm1] = None] /\ dfb' = dfb
    BY <1>7, <2>1, <2>2, Core, TransferredEffect
  <2>4. Queued(out)'
    BY <1>1, <1>2, <1>6, <2>3, Core, SameFronts, QueuedKept
  <2>5. Content(OutRef)' = Content(OutRef)
    <3>1. OutRef # WriteRef
      BY <1>7 DEF WriteRef
    <3> QED BY <1>7, <2>3, <3>1 DEF Content, OutRef
  <2>6. written' = Append(written, Content(WriteRef))
    BY <1>1, <1>9, <2>2
  <2>7. /\ Content(WriteRef) \in Contents
        /\ Between(out) >= 1 /\ Content(WriteRef) = Passed(out, Popped(out) + 1)
    <3>1. WriteRef[2] = "wait" /\ dm1 \in Waiters[out]
      BY Core DEF WriteRef, Users
    <3>2. Content(WriteRef) \in Contents
      BY <1>7, <2>2, <3>1, ContentType
    <3>3. Popped(out) \in Nat
      BY <1>2, CountsType
    <3> QED BY <1>2, <2>2, <3>1, <3>2, <3>3, Core, WaitedContent DEF WriteRef
  <2> DEFINE round == at[dm1].round
  <2>8. /\ Popped(out) = round - 1 /\ round \in Nat
        /\ round <= Len(program.output) /\ Content(WriteRef) = program.output[round]
    <3>1. /\ Popped(out) = round - 1 /\ Popped(out) \in Nat
          /\ Pushed(out) = GivenSoFar /\ GivenSoFar \in Nat
          /\ GivenSoFar <= Len(program.output) /\ Len(program.output) \in Nat /\ round \in Nat
      BY <1>2, CountsType, Core, ProgramFacts, OutputType DEF Placed
    <3>2. round <= GivenSoFar
      BY <2>7, <3>1 DEF Between
    <3>3. Popped(out) + 1 = round
      BY <3>1
    <3> QED BY <2>7, <3>1, <3>2, <3>3, Core DEF Passed
  <2>9. WriterInv'
    <3>1. written \in Seq(Contents) /\ Len(written) = round - 1 /\ InOrder
      BY <1>2, <1>3, <2>1, <2>8 DEF WriterInv, WrittenSoFar
    <3>2. /\ written' \in Seq(Contents) /\ Len(written') = round
          /\ written'[round] = Content(WriteRef)
          /\ \A i \in 1 .. round - 1 : written'[i] = written[i]
      BY <2>6, <2>7, <2>8, <3>1
    <3>3. InOrder'
      <4>1. \A i \in 1 .. round : i = round \/ i \in 1 .. Len(written)
        BY <2>8, <3>1
      <4> QED BY <1>1, <2>8, <3>1, <3>2, <4>1 DEF InOrder
    <3>4. call'[dm1] = None
      BY <1>7, <2>3, Core
    <3>5. WrittenSoFar' = round
      BY <1>1, <2>1, <2>8, <3>4 DEF WrittenSoFar
    <3> QED BY <3>2, <3>3, <3>4, <3>5, <1>1, <2>1 DEF WriterInv
  <2> QED BY <1>1, <1>5, <2>3, <2>4, <2>5, <2>9, WriterElsewhere DEF PipeInv
<1> QED BY <1>3, <1>8, <1>9

-----------------------------------------------------------------------------
(* Pipelines run as kernels, and write what they should.                   *)

\* The invariant is one of the kernel and its statements.
LEMMA PipeSame ==
  ASSUME IsCore, PipeInv, UNCHANGED <<dfb, block, call, program, at, written>>
  PROVE  PipeInv'
<1>1. TakenSoFar' = TakenSoFar /\ GivenSoFar' = GivenSoFar
  BY ComputeCounts
<1>2. Placed'
  BY <1>1 DEF PipeInv, Placed
<1>3. ASSUME NEW d \in Buffers, Queued(d) PROVE Queued(d)'
  <2>1. Pushed(d)' = Pushed(d) /\ Popped(d)' = Popped(d)
    BY <1>1 DEF Pushed, Popped
  <2> QED BY <1>3, <2>1, SameFronts, QueuedKept
<1>4. \A r : Content(r)' = Content(r)
  BY DEF Content
<1>5. ReaderInv' /\ ComputeInv' /\ WriterInv'
  BY <1>4, ReaderKept, ComputeKept, WriterKept DEF PipeInv
<1> QED BY <1>2, <1>3, <1>5, Core DEF PipeInv

\* It holds at first: nothing is taken, given or written.
LEMMA PipeInit ==
  ASSUME IsCore
  PROVE  RunInit => PipeInv
<1> SUFFICES ASSUME RunInit PROVE PipeInv
  OBVIOUS
<1>1. /\ program \in Kernels /\ written = <<>>
      /\ at = [t \in Threads |-> [round |-> 1, next |-> 1]]
      /\ \A d \in Buffers : dfb[d] = Configured(Cap(d))
      /\ \A r \in Refs : block[r] = None
      /\ \A t \in Threads : call[t] = None
  BY DEF RunInit, Init
<1>2. /\ TakenSoFar = 0 /\ GivenSoFar = 0
  <2>1. at[compute].round = 1 /\ at[compute].next = 1
    BY <1>1, Core
  <2>2. 1 \in 1 .. Len(program.body[compute])
    BY <1>1, ProgramFacts
  <2>3. /\ Here = Outset /\ Taken(program) \in Nat /\ Given(program) \in Nat
    BY <1>1, <2>1, <2>2, OutlineFacts DEF Here
  <2>4. 0 * Taken(program) = 0 /\ 0 * Given(program) = 0
    BY <2>3
  <2> QED BY <2>1, <2>3, <2>4 DEF TakenSoFar, GivenSoFar, Outset
<1>3. Placed
  <2>1. \A t \in Threads : /\ at[t] = [round |-> 1, next |-> 1]
                           /\ program.rounds[t] \in Nat /\ Len(program.body[t]) \in Nat \ {0}
    <3>1. \A t \in Threads : at[t] = [round |-> 1, next |-> 1] /\ program.rounds[t] \in Nat
      BY <1>1, ProgramFacts
    <3>2. ASSUME NEW t \in Threads PROVE Len(program.body[t]) \in Nat \ {0}
      <4>1. Len(program.body[dm0]) \in Nat \ {0} /\ Len(program.body[dm1]) \in Nat \ {0}
        <5>1. Len(program.body[dm0]) = 4 /\ Len(program.body[dm1]) = 4
          BY <1>1, ProgramFacts
        <5> QED BY <5>1
      <4>2. Len(program.body[compute]) \in Nat \ {0}
        BY <1>1, ProgramFacts
      <4>3. t = compute \/ t = dm0 \/ t = dm1
        BY Core
      <4> QED BY <4>1, <4>2, <4>3, Zenon
    <3> QED BY <3>1, <3>2
  <2>2. 0 \in 0 .. Len(program.output)
    BY <1>1, OutputType
  <2> QED BY <1>1, <1>2, <2>1, <2>2 DEF Placed
<1>4. ASSUME NEW d \in Buffers PROVE Queued(d)
  <2>1. Between(d) = 0
    BY <1>1, <1>2, Core DEF Between, Pushed, Popped
  <2>2. dfb[d].visible = 0 /\ Tiles * 0 = 0
    <3>1. dfb[d] = Configured(Cap(d))
      BY <1>1
    <3>2. dfb[d].visible = 0
      BY <3>1 DEF Configured
    <3>3. Tiles * 0 = 0
      BY TilesAssumption
    <3> QED BY <3>2, <3>3
  <2> QED BY <2>1, <2>2 DEF Queued
<1>5. ReaderInv /\ ComputeInv
  BY <1>1, CoreRefs, Core DEF ReaderInv, ComputeInv, Own
<1>6. WriterInv
  <2>1. Len(program.output) \in Nat
    BY <1>1, OutputType
  <2> QED BY <1>1, <2>1, CoreRefs, Core DEF WriterInv, WrittenSoFar, InOrder, Own
<1> QED BY <1>3, <1>4, <1>5, <1>6, Core DEF PipeInv

\* Every step keeps it.
LEMMA PipeStep ==
  ASSUME IsCore
  PROVE  KernelInv /\ PipeInv /\ [RunNext]_runVars => PipeInv'
<1> SUFFICES ASSUME KernelInv, PipeInv, [RunNext]_runVars PROVE PipeInv'
  OBVIOUS
<1>1. CASE Schedule
  BY <1>1, PipeSame DEF Schedule, SchedulerStep, kernel
<1>2. ASSUME NEW t \in Threads, Step(t) PROVE PipeInv'
  BY <1>2, Core, ReaderStep, ComputeStep, WriterStep
<1>3. ASSUME NEW t \in Threads, Proceed(t) PROVE PipeInv'
  BY <1>3, Core, ReaderProceeds, ComputeProceeds, WriterProceeds
<1>4. ASSUME NEW t \in Threads, Finish(t) PROVE PipeInv'
  BY <1>4, PipeSame DEF Finish, Return, kernel
<1>5. CASE UNCHANGED runVars
  BY <1>5, PipeSame DEF runVars, vars, kernel
<1> QED BY <1>1, <1>2, <1>3, <1>4, <1>5 DEF RunNext

\* What dm0 and dm1 execute are operations of a kernel.
LEMMA MoverOperates ==
  ASSUME IsCore, Placed, NEW t \in {dm0, dm1}, Step(t)
  PROVE  Operate(t)
<1>1. /\ program.body[dm0] = Reader /\ program.body[dm1] = Writer
      /\ Len(Reader) = 4 /\ Len(Writer) = 4 /\ program.rounds[t] \in Nat
      /\ 1 .. program.rounds[t] \subseteq Inputs
      /\ at[t].next \in 1 .. Len(program.body[t])
      /\ at[t].round \in 1 .. program.rounds[t] + 1
  BY ProgramFacts, Core DEF Placed
<1>2. ~Returned(t) /\ Execute(t, Statement(t))
  BY DEF Step
<1>3. at[t].round \in Inputs
  <2>1. at[t].round \in 1 .. program.rounds[t]
    BY <1>1, <1>2 DEF Returned
  <2> QED BY <1>1, <2>1
<1>4. CASE t = dm0
  <2>1. /\ at[t].next \in 1 .. 4 /\ Statement(t) = Reader[at[t].next]
        /\ <<in, "reserve", t>> \in Own(t)
    BY <1>1, <1>4, CoreRefs DEF Statement, InRef
  <2>2. \/ Statement(t) = Do("reserve", in) \/ Statement(t) = Do("copy_to", in)
        \/ Statement(t) = Tx(in, "reserve") \/ Statement(t) = Do("push", in)
    BY <2>1 DEF Reader
  <2>3. \/ Acquire(t, in, "reserve") \/ Copy(t, <<in, "reserve", t>>, "COPY_DST")
        \/ TxWait(t, <<in, "reserve", t>>, at[t].round) \/ Push(t, in)
    BY <1>2, <2>2, Executes, ExecutesTx
  <2> QED BY <1>3, <2>1, <2>3, Core DEF Operate, Sides
<1>5. CASE t = dm1
  <2>1. /\ at[t].next \in 1 .. 4 /\ Statement(t) = Writer[at[t].next]
        /\ <<out, "wait", t>> \in Own(t)
    BY <1>1, <1>5, CoreRefs DEF Statement, WriteRef
  <2>2. \/ Statement(t) = Do("wait", out) \/ Statement(t) = Do("copy_from", out)
        \/ Statement(t) = Tx(out, "wait") \/ Statement(t) = Do("pop", out)
    BY <2>1 DEF Writer
  <2>3. \/ Acquire(t, out, "wait") \/ Copy(t, <<out, "wait", t>>, "COPY_SRC")
        \/ TxWait(t, <<out, "wait", t>>, at[t].round) \/ Pop(t, out)
    BY <1>2, <2>2, Executes, ExecutesTx
  <2> QED BY <1>3, <2>1, <2>3, Core DEF Operate, Sides
<1> QED BY <1>4, <1>5

\* So is what compute executes.
LEMMA ComputeOperates ==
  ASSUME IsCore, Placed, Step(compute)
  PROVE  Operate(compute)
<1> DEFINE s == Statement(compute)
<1>1. s \in ComputeStatements /\ Execute(compute, s)
  BY Core, OutlineFacts DEF Placed, Statement, Step
<1> HIDE DEF s
<1>2. CASE \/ s = Do("wait", in) \/ s = Do("pop", in) \/ s = Do("reserve", out)
           \/ s = Do("push", out)
  <2>1. \/ Acquire(compute, in, "wait") \/ Pop(compute, in)
        \/ Acquire(compute, out, "reserve") \/ Push(compute, out)
    BY <1>1, <1>2, Executes
  <2> QED BY <2>1, Core DEF Operate, Sides
<1>3. ASSUME NEW from \in SUBSET {in}, NEW acc \in BOOLEAN, s = Put(out, from, acc)
      PROVE  Operate(compute)
  <2> DEFINE sources == {<<e, "wait", compute>> : e \in from}
  <2>1. Store(compute, OutRef, sources, acc)
    BY <1>1, <1>3, ExecutesPut DEF OutRef
  <2>2. OutRef \in Own(compute) /\ sources \in SUBSET Own(compute)
    BY CoreRefs
  <2> HIDE DEF sources
  <2> QED BY <2>1, <2>2 DEF Operate
<1> QED BY <1>1, <1>2, <1>3 DEF ComputeStatements

\* A step of a run is one of a kernel.
LEMMA RunsAsKernel ==
  ASSUME IsCore
  PROVE  PipeInv /\ [RunNext]_runVars => [Next]_vars
<1> SUFFICES ASSUME PipeInv, [RunNext]_runVars PROVE [Next]_vars
  OBVIOUS
<1>1. CASE Schedule
  BY <1>1 DEF Schedule, Next
<1>2. ASSUME NEW t \in Threads, Step(t) PROVE Operate(t)
  BY <1>2, Core, MoverOperates, ComputeOperates DEF PipeInv
<1>3. ASSUME NEW t \in Threads, Proceed(t) \/ Finish(t) PROVE Operate(t)
  BY <1>3 DEF Proceed, Finish, Operate
<1>4. CASE UNCHANGED runVars
  BY <1>4 DEF runVars
<1> QED BY <1>1, <1>2, <1>3, <1>4 DEF RunNext, Next

\* The invariants of a kernel and of a pipeline, along every run.
LEMMA PipelineInvariant ==
  ASSUME IsCore
  PROVE  RunSpec => [](IInv /\ PipeInv)
<1>1. RunInit => IInv /\ PipeInv
  BY InvInit, PipeInit DEF RunInit
<1>2. (IInv /\ PipeInv) /\ [RunNext]_runVars => (IInv /\ PipeInv)'
  BY InvStep, PipeStep, RunsAsKernel, CoreExclusive DEF IInv
<1> QED BY <1>1, <1>2, PTL DEF RunSpec

\* The statements of a pipeline stay within what the operations allow: whatever is
\* proved above of the kernels whose functions may do anything holds of its runs.
THEOREM PipelinesAreKernels ==
  ASSUME IsCore
  PROVE  RunSpec => Spec
<1>1. RunInit => Init
  BY DEF RunInit
<1> QED BY <1>1, PipelineInvariant, RunsAsKernel, PTL DEF RunSpec, Spec

\* Whichever way the scheduler interleaves the threads, the tiles reach the output
\* tensor in the order in which the compute function makes them, none lost, none
\* twice, and each made of the input tiles it says: for any number of rounds, any
\* body of compute, any number of tiles in a block and of blocks in a buffer.
THEOREM PipelinesWriteInOrder ==
  ASSUME IsCore
  PROVE  RunSpec => []InOrder
<1>1. PipeInv => InOrder
  BY DEF PipeInv, WriterInv
<1> QED BY <1>1, PipelineInvariant, PTL
=============================================================================
