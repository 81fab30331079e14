---------------------------- MODULE MCKernelRun -----------------------------
EXTENDS Pipeline, TLC

CONSTANT Rounds

MCThreads   == {compute, dm0, dm1}
MCPosition  == compute :> 0 @@ dm0 :> 1 @@ dm1 :> 2
MCKind      == compute :> "COMPUTE" @@ dm0 :> "DM" @@ dm1 :> "DM"
MCBuffers   == {in, out}
MCReservers == in :> {dm0} @@ out :> {compute}
MCWaiters   == in :> {compute} @@ out :> {dm1}
MCFactor    == in :> 2 @@ out :> 1

\* The blocks may be acquired and given back in any order.
Computers ==
  {first \o <<Put(out, {in}, FALSE)>> \o last :
     first \in {<<Do("wait", in), Do("reserve", out)>>, <<Do("reserve", out), Do("wait", in)>>},
     last  \in {<<Do("pop", in), Do("push", out)>>, <<Do("push", out), Do("pop", in)>>}}

\* Two input tiles are accumulated into one output tile.
Summer == <<Do("reserve", out),
            Do("wait", in), Put(out, {in}, TRUE), Do("pop", in),
            Do("wait", in), Put(out, {in}, TRUE), Do("pop", in),
            Do("push", out)>>

OutlineOf(body) ==
  LET o[n \in 1 .. Len(body) + 1] ==
        IF n = 1 THEN Outset ELSE Follows(o[n - 1], body[n - 1])
  IN o

Kernel(computer, r, c, w, ends, output) ==
  [body    |-> dm0 :> Reader @@ compute :> computer @@ dm1 :> Writer,
   rounds  |-> dm0 :> r @@ compute :> c @@ dm1 :> w,
   outline |-> OutlineOf(computer),
   ends    |-> ends, output |-> output]

Each == [i \in 1 .. Rounds |-> {i}]
Sums == [i \in 1 .. Rounds |-> {2 * i - 1, 2 * i}]

\* The last ones do not balance: a tile too few is read or computed, or the
\* reader never gets the space for its last tile.
MCKernels ==
  {Kernel(c, Rounds, Rounds, Rounds, "done", Each) : c \in Computers}
    \union {Kernel(Summer, 2 * Rounds, Rounds, Rounds, "done", Sums),
            Kernel(Summer, 2 * Rounds - 1, Rounds, Rounds, "deadlock", Sums)}
    \union {Kernel(c, Rounds, Rounds, Rounds + 1, "deadlock", Each) : c \in Computers}
    \union {Kernel(c, Rounds + 3, Rounds, Rounds, "deadlock", Each) : c \in Computers}

MCInputs == 1 .. 2 * Rounds + 3

ASSUME CoreAssumption == IsCore
=============================================================================
