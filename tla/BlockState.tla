----------------------------- MODULE BlockState -----------------------------
(***************************************************************************)
(* The state machine of a block (python/sim/blockstate.py and the Block    *)
(* class of python/sim/dfb.py): which operations a kernel thread may apply *)
(* to a block it reserved or waited for, as operators on a record.         *)
(*                                                                         *)
(* An operation and the ExpectedOp that admits it have one name here.      *)
(***************************************************************************)
EXTENDS Integers

AccessState == {"MW", "MR", "RW", "A", "NAR", "NAW"}
ExpectedOp  == {"COPY_SRC", "COPY_DST", "TX_WAIT", "PUSH", "POP",
                "STORE", "STORE_ACC", "STORE_SRC"}

-----------------------------------------------------------------------------
(* STATE_TRANSITIONS.                                                      *)

Row(op, from, to, expect) ==
  {[op |-> op, from |-> a, to |-> to, expect |-> expect] : a \in from}

\* Mutant: the row that lets a waited block be copied into is missing.
WaitDMNoDest ==
  Row("COPY_SRC", {"MR", "RW"}, "NAR", {"TX_WAIT"})
    \union Row("TX_WAIT", {"NAR"}, "RW", {"COPY_DST", "COPY_SRC", "POP"})
    \union Row("TX_WAIT", {"NAW"}, "MR", {"COPY_SRC"})

WaitDM ==
  Row("COPY_SRC", {"MR", "RW"}, "NAR", {"TX_WAIT"})
    \union Row("COPY_DST", {"RW"}, "NAW", {"TX_WAIT"})
    \union Row("TX_WAIT", {"NAR"}, "RW", {"COPY_DST", "COPY_SRC", "POP"})
    \union Row("TX_WAIT", {"NAW"}, "MR", {"COPY_SRC"})

\* Mutant: a block may be pushed before the copy into it is waited for.
ReserveDMEarlyPush ==
  Row("COPY_SRC", {"MR", "RW"}, "NAR", {"TX_WAIT"})
    \union Row("COPY_DST", {"MW", "RW"}, "NAW", {"TX_WAIT", "PUSH"})
    \union Row("TX_WAIT", {"NAW"}, "MR", {"PUSH", "COPY_SRC"})
    \union Row("TX_WAIT", {"NAR"}, "RW", {"COPY_DST", "COPY_SRC", "PUSH"})

ReserveDM ==
  Row("COPY_SRC", {"MR", "RW"}, "NAR", {"TX_WAIT"})
    \union Row("COPY_DST", {"MW", "RW"}, "NAW", {"TX_WAIT"})
    \union Row("TX_WAIT", {"NAW"}, "MR", {"PUSH", "COPY_SRC"})
    \union Row("TX_WAIT", {"NAR"}, "RW", {"COPY_DST", "COPY_SRC", "PUSH"})

WaitCompute ==
  Row("STORE_SRC", {"MR", "RW", "A"}, "RW", {"STORE_SRC", "STORE", "STORE_ACC", "POP"})
    \union Row("STORE_ACC", {"RW", "A"}, "A", {"STORE_SRC", "STORE_ACC"})
    \union Row("STORE", {"RW"}, "MR", {"STORE_SRC"})

ReserveCompute ==
  Row("STORE_SRC", {"MR", "RW", "A"}, "RW", {"STORE_SRC", "STORE", "STORE_ACC", "PUSH"})
    \union Row("STORE_ACC", {"MW", "RW", "A"}, "A", {"STORE_SRC", "STORE_ACC", "PUSH"})
    \union Row("STORE", {"MW", "RW"}, "MR", {"STORE_SRC", "PUSH"})

Transitions(side, kind) ==
  IF side = "wait" THEN IF kind = "DM" THEN WaitDM ELSE WaitCompute
                   ELSE IF kind = "DM" THEN ReserveDM ELSE ReserveCompute

\* Mutant: a block that was just reserved may be pushed.
NewBlockPushable(side, kind, start) ==
  [side |-> side, kind |-> kind, start |-> start,
   access   |-> IF side = "wait" THEN "MR" ELSE "MW",
   expected |-> IF side = "wait"
                THEN IF kind = "DM" THEN {"COPY_SRC"} ELSE {"STORE_SRC"}
                ELSE IF kind = "DM" THEN {"COPY_DST", "PUSH"}
                                    ELSE {"STORE", "STORE_ACC", "PUSH"}]

\* Block._initialize_state.
NewBlock(side, kind, start) ==
  [side |-> side, kind |-> kind, start |-> start,
   access   |-> IF side = "wait" THEN "MR" ELSE "MW",
   expected |-> IF side = "wait"
                THEN IF kind = "DM" THEN {"COPY_SRC"} ELSE {"STORE_SRC"}
                ELSE IF kind = "DM" THEN {"COPY_DST"} ELSE {"STORE", "STORE_ACC"}]

-----------------------------------------------------------------------------
\* _validate_state.
Expects(b, op) == op \in b.expected

\* _transition_state, for an operation the block expects.
Matching(b, op) == {r \in Transitions(b.side, b.kind) : r.op = op /\ r.from = b.access}

After(b, op) ==
  LET r == CHOOSE r \in Matching(b, op) : TRUE
  IN [b EXCEPT !.access = r.to, !.expected = r.expect]

\* Neither "Impossible!" nor a check behind _validate_state can fail: what a
\* block expects has exactly one transition, and push and pop are expected by
\* the right blocks, in a state pop accepts.
Consistent(b) ==
  \A op \in b.expected :
    IF op = "PUSH" THEN b.side = "reserve"
    ELSE IF op = "POP" THEN b.side = "wait" /\ b.access \in {"MR", "RW", "A"}
    ELSE \E r \in Matching(b, op) : Matching(b, op) = {r}

\* _check_can_read and _check_can_write.
CanRead(b)  == b.access \notin {"MW", "NAW"}
CanWrite(b) == b.access \notin {"NAW", "NAR"}

InFlight(b) == b.access \in {"NAR", "NAW"}
=============================================================================
