------------------------------ MODULE Pipeline ------------------------------
(***************************************************************************)
(* The kernels of KernelRun that a core is made for: dm0 reads one tile of *)
(* the input after the other into a buffer, compute makes tiles of another *)
(* buffer from them, in any way a body of buffer operations and stores     *)
(* can, and dm1 writes those out.  What such a kernel is to write is what  *)
(* its compute body does when it is read from top to bottom, with nobody   *)
(* in between (After).                                                     *)
(***************************************************************************)
EXTENDS KernelRun

CONSTANTS compute, dm0, dm1,  \* the threads of a core
          in, out             \* its buffers

IsCore ==
  /\ Threads = {compute, dm0, dm1} /\ compute # dm0 /\ compute # dm1 /\ dm0 # dm1
  /\ Buffers = {in, out} /\ in # out
  /\ Reservers[in] = {dm0} /\ Waiters[in] = {compute}
  /\ Reservers[out] = {compute} /\ Waiters[out] = {dm1}

Do(op, d) == [do |-> op, buf |-> d]
Tx(d, side) == [do |-> "tx_wait", buf |-> d, side |-> side]
Put(d, from, acc) == [do |-> "store", buf |-> d, from |-> from, acc |-> acc]

Reader == <<Do("reserve", in), Do("copy_to", in), Tx(in, "reserve"), Do("push", in)>>
Writer == <<Do("wait", out), Do("copy_from", out), Tx(out, "wait"), Do("pop", out)>>

ComputeStatements ==
  {Do("wait", in), Do("pop", in), Do("reserve", out), Do("push", out)}
    \union {Put(out, from, acc) : from \in SUBSET {in}, acc \in BOOLEAN}

\* A round of compute as it is read: the tiles taken and given so far, whether
\* one is being made, and the input tiles it is made of, by their place in the
\* round.
Outset == [taken |-> 0, given |-> 0, open |-> FALSE, value |-> {}]

Operands(o, s) == IF s.from = {} THEN {} ELSE {o.taken + 1}

Follows(o, s) ==
  CASE s.do = "pop"     -> [o EXCEPT !.taken = @ + 1]
    [] s.do = "push"    -> [o EXCEPT !.given = @ + 1, !.open = FALSE]
    [] s.do = "reserve" -> [o EXCEPT !.open = TRUE, !.value = {}]
    [] s.do = "store"   -> [o EXCEPT !.value = IF s.acc THEN @ \union Operands(o, s)
                                               ELSE Operands(o, s)]
    [] OTHER            -> o

\* k.outline[n] is the round before statement n, the last one the round's end.
Outlined(body, outline) ==
  /\ outline \in Seq([taken : Nat, given : Nat, open : BOOLEAN, value : SUBSET Nat])
  /\ Len(outline) = Len(body) + 1
  /\ outline[1] = Outset /\ ~outline[Len(outline)].open
  /\ \A n \in 1 .. Len(body) : outline[n + 1] = Follows(outline[n], body[n])

Taken(k) == k.outline[Len(k.outline)].taken
Given(k) == k.outline[Len(k.outline)].given

\* The input tiles of an outline in a round of compute.
Tile(k, round, offsets) == {(round - 1) * Taken(k) + i : i \in offsets}

IsPipeline(k) ==
  /\ k.body[dm0] = Reader /\ k.body[dm1] = Writer
  /\ k.body[compute] \in Seq(ComputeStatements) \ {<<>>}
  /\ Outlined(k.body[compute], k.outline)
  /\ k.output \in Seq(Contents)
  /\ \A t \in {dm0, dm1} : 1 .. k.rounds[t] \subseteq Inputs
  /\ \A round \in 1 .. k.rounds[compute], n \in 1 .. Len(k.body[compute]) :
       k.body[compute][n].do = "push" =>
         LET i == (round - 1) * Given(k) + k.outline[n].given + 1
         IN i \in 1 .. Len(k.output) /\ k.output[i] = Tile(k, round, k.outline[n].value)

ASSUME PipelinesAssumption == \A k \in Kernels : IsPipeline(k)
=============================================================================
