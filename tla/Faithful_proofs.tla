-------------------------- MODULE Faithful_proofs ---------------------------
(***************************************************************************)
(* What is compiled stores what was written (TileRegs!Faithful), for any   *)
(* trace, any number of tiles, registers and stores, and any interleaving  *)
(* of MATH and PACK.  The parts:                                           *)
(*                                                                         *)
(*  - traces in order: operands come before the operation, and broadcasts  *)
(*    take inputs (TraceStepInOrder), so that every value has a meaning,   *)
(*    which the operations of the body compute (OpsCompute);               *)
(*  - chains: values that were merged are a chain of unary operations, of  *)
(*    which each is made when the one before is read last (ChainsAre);     *)
(*  - intervals: values that are needed at one place have registers of     *)
(*    their own, and what is overwritten is not needed any more;           *)
(*  - annotated code: every instruction leads from the values that are in  *)
(*    registers before it to those after it (CodeCertified);               *)
(*  - copies: a body with its copies is one of which this is true          *)
(*    (BodySound);                                                         *)
(*  - the hand-over: MATH is at a place of the annotated code in the half  *)
(*    that it fills, and the halves that wait hold the result (FaithInv).  *)
(***************************************************************************)
EXTENDS TileRegs_proofs

-----------------------------------------------------------------------------
(* Traces in order.                                                        *)

\* What operation k may use: an input, or the result of an operation before it.
Known(roots, v, k) ==
  (\E n \in 1 .. Len(roots) : v = Arg(n)) \/ (\E j \in 1 .. k - 1 : v = Result(j))

Elementwises == Unary \union Binary \union MinMax

\* The operation k of a trace: operands of elementwise operators have the shape
\* of the output; the operand of a broadcast is an input that it expands.
Sensible(roots, o, k) ==
  /\ o.op \in Operators /\ o.out = Result(k)
  /\ \A i \in 1 .. Len(o.in) : Known(roots, o.in[i], k)
  /\ o.op \in Elementwises =>
       /\ Len(o.in) = IF o.op \in Unary THEN 1 ELSE 2
       /\ \A i \in 1 .. Len(o.in) : IsArg(o.in[i]) => roots[o.in[i][2]] = "full"
  /\ CBInput(o) =>
       Len(o.in) = 1 /\ IsArg(o.in[1]) /\ roots[o.in[1][2]] \in {"full", o.op}

Sequential(values, ops, roots) ==
  /\ \A k \in 1 .. Len(ops) : Sensible(roots, ops[k], k)
  /\ \A i \in 1 .. Len(values) : Known(roots, values[i], Len(ops) + 1)
  /\ Len(ops) # 0 =>
       Len(values) # 0 /\ (Len(values) = 1 => values[1] = Result(Len(ops)))

TraceInOrder(t) == TraceOK(t) /\ Sequential(t.values, t.ops, t.roots)

\* Names of values tell them apart.
LEMMA NamesDiffer ==
  /\ \A n : IsArg(Arg(n)) /\ Arg(n)[2] = n
  /\ \A k : ~IsArg(Result(k)) /\ Result(k)[2] = k /\ Result(k)[1] = "op"
  /\ \A n, k : Arg(n) # Result(k)
  /\ \A n, k : Result(n) = Result(k) => n = k
  /\ \A n, k : Arg(n) = Arg(k) => n = k
BY DEF Arg, Result, IsArg

\* More inputs keep an operation sensible.
LEMMA SensibleStays ==
  ASSUME NEW roots \in Seq(Shapes), NEW more \in Seq(Shapes), Len(roots) <= Len(more),
         \A n \in 1 .. Len(roots) : more[n] = roots[n],
         NEW o, NEW k, Sensible(roots, o, k)
  PROVE  Sensible(more, o, k)
<1>1. Len(roots) \in Nat /\ Len(more) \in Nat
  OBVIOUS
<1>2. \A v : Known(roots, v, k) => Known(more, v, k)
  BY <1>1 DEF Known
<1>3. ASSUME NEW v, Known(roots, v, k), IsArg(v) PROVE more[v[2]] = roots[v[2]]
  BY <1>3, NamesDiffer DEF Known
<1>4. \A i \in 1 .. Len(o.in) : Known(roots, o.in[i], k)
  BY DEF Sensible
<1>5. CBInput(o) => 1 \in 1 .. Len(o.in)
  BY DEF Sensible
<1> QED BY <1>2, <1>3, <1>4, <1>5 DEF Sensible

\* A value that is pushed.
LEMMA PushInOrder ==
  ASSUME NEW values \in Seq(Given), NEW S, NEW ops \in Seq(S), NEW roots \in Seq(Shapes),
         Sequential(values, ops, roots), NEW more \in Seq(Shapes), Len(roots) <= Len(more),
         \A n \in 1 .. Len(roots) : more[n] = roots[n],
         NEW v \in Given, Known(more, v, Len(ops) + 1)
  PROVE  Sequential(Append(values, v), ops, more)
<1> DEFINE G == Given
           m == Append(values, v)
<1>1. values \in Seq(G) /\ v \in G
  OBVIOUS
<1> HIDE DEF G
<1>2. Len(m) = Len(values) + 1 /\ m[Len(values) + 1] = v /\ Len(values) \in Nat
      /\ \A i \in 1 .. Len(values) : m[i] = values[i]
  BY <1>1
<1> HIDE DEF m
<1>3. \A k \in 1 .. Len(ops) : Sensible(more, ops[k], k)
  BY SensibleStays DEF Sequential
<1>4. ASSUME NEW i \in 1 .. Len(m) PROVE Known(more, m[i], Len(ops) + 1)
  <2>1. Len(roots) \in Nat /\ Len(more) \in Nat
    OBVIOUS
  <2>2. CASE i = Len(values) + 1
    BY <1>2, <2>2
  <2>3. CASE i \in 1 .. Len(values)
    <3>1. Known(roots, values[i], Len(ops) + 1)
      BY <2>3 DEF Sequential
    <3>2. Known(more, values[i], Len(ops) + 1)
      BY <2>1, <3>1 DEF Known
    <3> QED BY <1>2, <2>3, <3>2
  <2> QED BY <1>2, <2>2, <2>3
<1>5. Len(ops) # 0 => Len(m) # 0 /\ (Len(m) = 1 => m[1] = Result(Len(ops)))
  BY <1>2 DEF Sequential
<1> QED BY <1>3, <1>4, <1>5 DEF Sequential, m

\* An operator of the last n values.
LEMMA ApplyInOrder ==
  ASSUME NEW values \in Seq(Given), NEW S, NEW ops \in Seq(S), NEW roots \in Seq(Shapes),
         Sequential(values, ops, roots), NEW n \in 1 .. 2, n <= Len(values),
         NEW o, o.out = Result(Len(ops) + 1),
         o.in = SubSeq(values, Len(values) - n + 1, Len(values) - n + n),
         o.op \in Operators,
         o.op \in Elementwises => /\ n = IF o.op \in Unary THEN 1 ELSE 2
                                  /\ \A i \in Len(values) - n + 1 .. Len(values) :
                                       IsArg(values[i]) => roots[values[i][2]] = "full",
         CBInput(o) => /\ n = 1 /\ IsArg(values[Len(values)])
                       /\ roots[values[Len(values)][2]] \in {"full", o.op}
  PROVE  Sequential(Append(SubSeq(values, 1, Len(values) - n), o.out), Append(ops, o), roots)
<1> DEFINE rest == Len(values) - n
           L == Len(ops)
           front == SubSeq(values, 1, rest)
           m == Append(front, o.out)
           all == Append(ops, o)
<1>1. L \in Nat /\ Len(all) = L + 1 /\ all[L + 1] = o /\ \A k \in 1 .. L : all[k] = ops[k]
  OBVIOUS
<1>2. rest \in Nat /\ Len(values) = rest + n
  OBVIOUS
<1>3. Len(front) = rest /\ (\A i \in 1 .. rest : front[i] = values[i]) /\ front \in Seq(Given)
  <2> DEFINE G == Given
  <2>1. values \in Seq(G) /\ \A i \in 1 .. rest : values[i] \in G
    BY <1>2
  <2> HIDE DEF G, rest
  <2>2. Len(front) = rest /\ (\A i \in 1 .. rest : front[i] = values[i]) /\ front \in Seq(G)
    BY <1>2, <2>1, SubSeqProperties
  <2> QED BY <2>2 DEF G
<1>4. Len(o.in) = n /\ \A i \in 1 .. n : o.in[i] = values[rest + i]
  <2> DEFINE G == Given
             a == rest + 1
             b == rest + n
  <2>1. values \in Seq(G) /\ \A i \in a .. b : values[i] \in G
    BY <1>2
  <2>2. a \in Int /\ b \in Int /\ a <= b /\ n = b - a + 1 /\ \A i \in 1 .. n : a + i - 1 = rest + i
    BY <1>2
  <2>3. o.in = SubSeq(values, a, b)
    OBVIOUS
  <2> HIDE DEF G, rest, a, b
  <2>4. Len(SubSeq(values, a, b)) = n /\ \A i \in 1 .. n : SubSeq(values, a, b)[i] = values[a + i - 1]
    BY <2>1, <2>2, SubSeqProperties
  <2> QED BY <2>2, <2>3, <2>4
<1>5. Len(m) = rest + 1 /\ m[rest + 1] = o.out /\ \A i \in 1 .. rest : m[i] = values[i]
  <2> HIDE DEF front
  <2> QED BY <1>2, <1>3
<1> HIDE DEF m, all, front
<1>6. \A i \in 1 .. Len(values) : Known(roots, values[i], L + 1)
  BY DEF Sequential
<1>7. Sensible(roots, o, L + 1)
  <2>1. \A i \in 1 .. n : rest + i \in 1 .. Len(values) /\ rest + i \in rest + 1 .. Len(values)
    BY <1>2
  <2>2. \A i \in 1 .. Len(o.in) : Known(roots, o.in[i], L + 1)
    BY <1>4, <1>6, <2>1
  <2>3. o.op \in Elementwises => \A i \in 1 .. Len(o.in) : IsArg(o.in[i]) => roots[o.in[i][2]] = "full"
    BY <1>4, <2>1
  <2>4. CBInput(o) => Len(o.in) = 1 /\ IsArg(o.in[1]) /\ roots[o.in[1][2]] \in {"full", o.op}
    BY <1>2, <1>4
  <2> QED BY <1>4, <2>2, <2>3, <2>4 DEF Sensible
<1>8. \A k \in 1 .. Len(all) : Sensible(roots, all[k], k)
  <2>1. \A k \in 1 .. L : Sensible(roots, ops[k], k)
    BY DEF Sequential
  <2> HIDE DEF L
  <2> QED BY <1>1, <1>7, <2>1
<1>9. \A i \in 1 .. Len(m) : Known(roots, m[i], Len(all) + 1)
  <2>1. ASSUME NEW i \in 1 .. rest PROVE Known(roots, values[i], L + 2)
    <3>1. i \in 1 .. Len(values)
      BY <1>2
    <3> QED BY <1>1, <1>6, <3>1 DEF Known
  <2>2. Known(roots, o.out, L + 2)
    BY <1>1 DEF Known
  <2> HIDE DEF rest, L
  <2> QED BY <1>1, <1>2, <1>5, <2>1, <2>2
<1>10. Len(m) # 0 /\ (Len(m) = 1 => m[1] = Result(Len(all)))
  <2>1. o.out = Result(L + 1)
    OBVIOUS
  <2> HIDE DEF rest, L
  <2>2. Len(all) = L + 1 /\ Len(m) = rest + 1 /\ rest \in Nat /\ m[rest + 1] = o.out
    BY <1>1, <1>2, <1>5
  <2> DEFINE e == Len(m)
  <2>3. e = 1 => rest + 1 = 1
    BY <2>2
  <2>4. e # 0
    BY <2>2
  <2>5. m[1] = m[rest + 1] => m[1] = Result(Len(all))
    BY <2>1, <2>2
  <2> QED BY <2>3, <2>4, <2>5
<1> QED BY <1>8, <1>9, <1>10 DEF Sequential, m, all, front

\* The parts of a trace, and of one that got a value.
LEMMA PushParts ==
  ASSUME NEW t, TraceOK(t), NEW v, NEW more
  PROVE  /\ [t EXCEPT !.values = Append(@, v)].values = Append(t.values, v)
         /\ [t EXCEPT !.values = Append(@, v)].ops = t.ops
         /\ [t EXCEPT !.values = Append(@, v)].roots = t.roots
         /\ [t EXCEPT !.roots = more, !.values = Append(@, v)].values = Append(t.values, v)
         /\ [t EXCEPT !.roots = more, !.values = Append(@, v)].ops = t.ops
         /\ [t EXCEPT !.roots = more, !.values = Append(@, v)].roots = more
<1> DEFINE G == Seq(Given)
           O == Seq(Ops(Given))
           R == Seq(Shapes)
           values == Append(t.values, v)
<1>1. t \in [values : G, ops : O, roots : R]
  BY DEF TraceOK
<1> HIDE DEF G, O, R, values
<1> QED BY <1>1 DEF values

\* Tracing keeps the trace in order.
LEMMA TraceStepInOrder ==
  ASSUME TraceInOrder(trace),
         TraceNewRoot \/ TraceSameRoot \/ TraceSameResult \/ TraceUnary \/ TraceBinary \/ TraceBroadcast
  PROVE  TraceInOrder(trace')
<1> DEFINE t == trace
           O == Ops(Given)
<1>1. TraceOK(t) /\ TraceOK(trace')
  BY TraceStep DEF TraceInOrder
<1>2. t.roots \in Seq(Shapes) /\ t.values \in Seq(Given) /\ t.ops \in Seq(O)
      /\ Len(t.roots) \in Nat /\ Len(t.ops) \in Nat /\ Len(t.values) \in Nat
  BY <1>1 DEF TraceOK
<1>3. Sequential(t.values, t.ops, t.roots)
  BY DEF TraceInOrder
<1> HIDE DEF t, O
<1>4. ASSUME NEW v \in Given, Known(t.roots, v, Len(t.ops) + 1),
             trace' = [t EXCEPT !.values = Append(@, v)]
      PROVE  TraceInOrder(trace')
  <2>1. Sequential(Append(t.values, v), t.ops, t.roots)
    BY <1>2, <1>3, <1>4, PushInOrder
  <2>2. trace'.values = Append(t.values, v) /\ trace'.ops = t.ops /\ trace'.roots = t.roots
    BY <1>1, <1>4, PushParts
  <2> QED BY <1>1, <2>1, <2>2 DEF TraceInOrder
<1>5. CASE TraceNewRoot
  <2>1. PICK shape \in Shapes : trace' = NewRoot(t, shape)
    BY <1>5 DEF TraceNewRoot, t
  <2> DEFINE v == Arg(Len(t.roots) + 1)
             more == Append(t.roots, shape)
  <2>2. v \in Given
    BY <1>2 DEF Given
  <2>3. more \in Seq(Shapes) /\ Len(more) = Len(t.roots) + 1
        /\ \A n \in 1 .. Len(t.roots) : more[n] = t.roots[n]
    <3> DEFINE S == Shapes
    <3>1. shape \in S /\ t.roots \in Seq(S)
      BY <1>2
    <3> HIDE DEF S
    <3>2. more \in Seq(S) /\ Len(more) = Len(t.roots) + 1
          /\ \A n \in 1 .. Len(t.roots) : more[n] = t.roots[n]
      BY <3>1
    <3> QED BY <3>2 DEF S
  <2>4. trace' = [t EXCEPT !.roots = more, !.values = Append(@, v)]
    BY <2>1 DEF NewRoot
  <2> HIDE DEF more
  <2>5. Known(more, v, Len(t.ops) + 1)
    BY <1>2, <2>3 DEF Known
  <2> HIDE DEF v
  <2>6. Len(t.roots) <= Len(more)
    BY <1>2, <2>3
  <2>7. Sequential(Append(t.values, v), t.ops, more)
    BY <1>2, <1>3, <2>2, <2>3, <2>5, <2>6, PushInOrder
  <2>8. trace'.values = Append(t.values, v) /\ trace'.ops = t.ops /\ trace'.roots = more
    BY <1>1, <2>4, PushParts
  <2> QED BY <1>1, <2>7, <2>8 DEF TraceInOrder
<1>6. CASE TraceSameRoot
  <2>1. PICK n \in 1 .. Len(t.roots) : trace' = SameRoot(t, n)
    BY <1>6 DEF TraceSameRoot, t
  <2>2. Arg(n) \in Given /\ Known(t.roots, Arg(n), Len(t.ops) + 1)
    BY <1>2 DEF Given, Known
  <2> QED BY <1>4, <2>1, <2>2 DEF SameRoot
<1>7. CASE TraceSameResult
  <2>1. PICK k \in 1 .. Len(t.ops) : trace' = SameResult(t, k)
    BY <1>7 DEF TraceSameResult, t
  <2>2. Result(k) \in Given /\ Known(t.roots, Result(k), Len(t.ops) + 1)
    BY <1>2 DEF Given, Known
  <2> QED BY <1>4, <2>1, <2>2 DEF SameResult
<1>8. ASSUME NEW op \in Operators, NEW n \in 1 .. 2, n <= Len(t.values), trace' = Apply(t, op, n),
             op \in Elementwises => n = (IF op \in Unary THEN 1 ELSE 2) /\ Elementwise(t, n),
             op \in {"col", "row", "scalar"} => n = 1 /\ CanBroadcast(t, op)
      PROVE  TraceInOrder(trace')
  <2> DEFINE rest == Len(t.values) - n
             in == SubSeq(t.values, rest + 1, rest + n)
             o == Operation(op, in, Result(Len(t.ops) + 1))
  <2>1. o.out = Result(Len(t.ops) + 1) /\ o.in = in /\ o.op = op
    BY DEF Operation
  <2> HIDE DEF in
  <2>2. o.op \in Elementwises => /\ n = IF o.op \in Unary THEN 1 ELSE 2
                                 /\ \A i \in Len(t.values) - n + 1 .. Len(t.values) :
                                      IsArg(t.values[i]) => t.roots[t.values[i][2]] = "full"
    BY <1>8, <2>1 DEF Elementwise, Shape
  <2>3. CBInput(o) => /\ n = 1 /\ IsArg(t.values[Len(t.values)])
                      /\ t.roots[t.values[Len(t.values)][2]] \in {"full", o.op}
    BY <1>8, <2>1 DEF CBInput, CanBroadcast, Shape, Last
  <2>4. o.op \in Operators /\ o.in = SubSeq(t.values, Len(t.values) - n + 1, Len(t.values) - n + n)
    BY <2>1 DEF in
  <2>5. trace' = [t EXCEPT !.values = Append(SubSeq(t.values, 1, rest), o.out),
                           !.ops = Append(t.ops, o)]
    BY <1>8, <2>1 DEF Apply, in
  <2> HIDE DEF o
  <2>6. Sequential(Append(SubSeq(t.values, 1, Len(t.values) - n), o.out), Append(t.ops, o), t.roots)
    BY <1>2, <1>3, <1>8, <2>1, <2>2, <2>3, <2>4, ApplyInOrder
  <2>7. trace'.values = Append(SubSeq(t.values, 1, rest), o.out) /\ trace'.ops = Append(t.ops, o)
        /\ trace'.roots = t.roots
    <3> DEFINE A == Append(SubSeq(t.values, 1, rest), o.out)
               B == Append(t.ops, o)
               V == Seq(Given)
               P == Seq(Ops(Given))
               R == Seq(Shapes)
    <3>1. t \in [values : V, ops : P, roots : R] /\ trace' = [t EXCEPT !.values = A, !.ops = B]
      BY <1>1, <2>5 DEF TraceOK
    <3> HIDE DEF A, B, V, P, R
    <3>2. trace'.values = A /\ trace'.ops = B /\ trace'.roots = t.roots
      BY <3>1
    <3> QED BY <3>2 DEF A, B
  <2> QED BY <1>1, <2>6, <2>7 DEF TraceInOrder
<1>9. CASE TraceUnary
  <2>1. PICK op \in Unary : trace' = Apply(t, op, 1)
    BY <1>9 DEF TraceUnary, t
  <2>2. 1 <= Len(t.values) /\ op \in Operators /\ 1 \in 1 .. 2 /\ Elementwise(t, 1)
    BY <1>2, <1>9 DEF TraceUnary, Elementwise, Operators, t
  <2>3. op \notin {"col", "row", "scalar"}
    BY OperatorsAssumption
  <2> QED BY <1>8, <2>1, <2>2, <2>3
<1>10. CASE TraceBinary
  <2>1. PICK op \in Binary \union MinMax : trace' = Apply(t, op, 2)
    BY <1>10 DEF TraceBinary, t
  <2>2. 2 <= Len(t.values) /\ op \in Operators /\ 2 \in 1 .. 2 /\ Elementwise(t, 2)
    BY <1>2, <1>10 DEF TraceBinary, Elementwise, Operators, t
  <2>3. op \notin {"col", "row", "scalar"} /\ op \notin Unary
    BY OperatorsAssumption
  <2> QED BY <1>8, <2>1, <2>2, <2>3
<1>11. CASE TraceBroadcast
  <2>1. PICK op \in Shapes \ {"full"} : CanBroadcast(t, op) /\ trace' = Apply(t, op, 1)
    BY <1>11 DEF TraceBroadcast, t
  <2>2. op \in Operators /\ op \in {"col", "row", "scalar"}
    BY DEF Shapes, Operators
  <2>3. 1 <= Len(t.values) /\ 1 \in 1 .. 2
    BY <1>2, <2>1 DEF CanBroadcast
  <2>4. op \notin Elementwises
    BY <2>2, OperatorsAssumption DEF Elementwises
  <2> QED BY <1>8, <2>1, <2>2, <2>3, <2>4
<1> QED BY <1>5, <1>6, <1>7, <1>9, <1>10, <1>11

\* An empty trace is in order.
LEMMA NoTraceInOrder == TraceInOrder(NoTrace)
<1>1. Len(<< >>) = 0
  OBVIOUS
<1>2. NoTrace.values = << >> /\ NoTrace.ops = << >> /\ NoTrace.roots = << >>
  BY DEF NoTrace
<1>3. Sequential(<< >>, << >>, << >>)
  BY <1>1 DEF Sequential
<1> QED BY <1>2, <1>3, NoTraceOK DEF TraceInOrder

-----------------------------------------------------------------------------
(* What values mean.                                                       *)

\* The tile of an input that an expression means at the slot s of the output.
TileOf(n, shape, s) ==
  Slot(n, shape, CASE shape = "full"   -> s
                   [] shape = "col"    -> s \div Cols
                   [] shape = "row"    -> s % Cols
                   [] shape = "scalar" -> 0)

\* The meanings of results, when of[k] is that of the result of operation k.
Given1(t, of, v, s) == IF IsArg(v) THEN TileOf(v[2], t.roots[v[2]], s) ELSE of[v[2]]
Unfolded(t, of, s) ==
  [k \in 1 .. Len(t.ops) |->
     <<t.ops[k].op>> \o [i \in 1 .. Len(t.ops[k].in) |-> Given1(t, of, t.ops[k].in[i], s)]]
Terms(t, s) == CHOOSE of : of = Unfolded(t, of, s)

\* The recursive function of Denotes.
LEMMA MeantIs ==
  ASSUME NEW s
  PROVE  Meant(s) = Given1(trace, Terms(trace, s), Last(trace.values), s)
BY DEF Meant, Denotes, Given1, Terms, Unfolded, TileOf

\* It exists: operands come before the operation.
LEMMA TermsUnfold ==
  ASSUME NEW t, TraceInOrder(t), NEW s
  PROVE  Terms(t, s) = Unfolded(t, Terms(t, s), s)
<1> DEFINE N == Len(t.ops)
           Upto(n) == \E f : /\ f = [k \in 1 .. N |-> f[k]]
                             /\ \A k \in 1 .. n : f[k] = Unfolded(t, f, s)[k]
           P == {n \in Nat : n <= N => Upto(n)}
<1>1. N \in Nat
  BY DEF TraceInOrder, TraceOK
<1>2. \A k \in 1 .. N : \A i \in 1 .. Len(t.ops[k].in) : Known(t.roots, t.ops[k].in[i], k)
  BY DEF TraceInOrder, Sequential, Sensible
<1>3. 0 \in P
  <2> DEFINE f == [k \in 1 .. N |-> << >>]
  <2>1. f = [k \in 1 .. N |-> f[k]]
    OBVIOUS
  <2> HIDE DEF f
  <2>2. Upto(0)
    BY <2>1
  <2> QED BY <2>2
<1>4. ASSUME NEW n \in Nat, n \in P PROVE n + 1 \in P
  <2>1. SUFFICES ASSUME n + 1 <= N PROVE Upto(n + 1)
    OBVIOUS
  <2>2. PICK f : /\ f = [k \in 1 .. N |-> f[k]]
                 /\ \A k \in 1 .. n : f[k] = Unfolded(t, f, s)[k]
    BY <1>1, <1>4, <2>1
  <2> DEFINE e == Unfolded(t, f, s)[n + 1]
             g == [k \in 1 .. N |-> IF k = n + 1 THEN e ELSE f[k]]
  <2>3. g = [k \in 1 .. N |-> g[k]] /\ (\A k \in 1 .. n : g[k] = f[k]) /\ g[n + 1] = e
    BY <1>1, <2>1
  <2> HIDE DEF e, g
  <2>4. ASSUME NEW k \in 1 .. n + 1 PROVE Unfolded(t, g, s)[k] = Unfolded(t, f, s)[k]
    <3>1. k \in 1 .. N
      BY <1>1, <2>1
    <3>2. ASSUME NEW i \in 1 .. Len(t.ops[k].in)
          PROVE  Given1(t, g, t.ops[k].in[i], s) = Given1(t, f, t.ops[k].in[i], s)
      <4> DEFINE v == t.ops[k].in[i]
      <4>1. Known(t.roots, v, k)
        BY <1>2, <3>1
      <4> SUFFICES Given1(t, g, v, s) = Given1(t, f, v, s)
        OBVIOUS
      <4> HIDE DEF v
      <4>2. CASE IsArg(v)
        BY <4>2 DEF Given1
      <4>3. CASE ~IsArg(v)
        <5>1. PICK j \in 1 .. k - 1 : v = Result(j)
          BY <4>1, <4>3, NamesDiffer DEF Known
        <5>2. v[2] \in 1 .. n
          BY <5>1, NamesDiffer
        <5> QED BY <2>3, <4>3, <5>2 DEF Given1
      <4> QED BY <4>2, <4>3
    <3> DEFINE A == [i \in 1 .. Len(t.ops[k].in) |-> Given1(t, g, t.ops[k].in[i], s)]
               B == [i \in 1 .. Len(t.ops[k].in) |-> Given1(t, f, t.ops[k].in[i], s)]
    <3>3. A = B
      BY <3>2
    <3>4. Unfolded(t, g, s)[k] = <<t.ops[k].op>> \o A /\ Unfolded(t, f, s)[k] = <<t.ops[k].op>> \o B
      BY <3>1 DEF Unfolded
    <3> HIDE DEF A, B
    <3> QED BY <3>3, <3>4
  <2>5. ASSUME NEW k \in 1 .. n + 1 PROVE g[k] = Unfolded(t, g, s)[k]
    <3>1. CASE k \in 1 .. n
      BY <2>2, <2>3, <2>4, <3>1
    <3>2. CASE k = n + 1
      BY <2>3, <2>4, <3>2 DEF e
    <3> QED BY <3>1, <3>2
  <2> QED BY <2>3, <2>5
<1> HIDE DEF P, Upto
<1>5. N \in P
  BY <1>1, <1>3, <1>4, NumberInduction
<1>6. PICK f : /\ f = [k \in 1 .. N |-> f[k]]
               /\ \A k \in 1 .. N : f[k] = Unfolded(t, f, s)[k]
  BY <1>1, <1>5 DEF P, Upto
<1>7. Unfolded(t, f, s) = [k \in 1 .. N |-> Unfolded(t, f, s)[k]]
  BY DEF Unfolded
<1> DEFINE U == Unfolded(t, f, s)
<1>8. f = U
  <2> HIDE DEF N, U
  <2>1. [k \in 1 .. N |-> f[k]] = [k \in 1 .. N |-> U[k]]
    BY <1>6 DEF U
  <2> QED BY <1>6, <1>7, <2>1 DEF U
<1> QED BY <1>8, Zenon DEF Terms, U

\* The slot that a broadcast reads is the one the expression means, also where
\* the input that it expands has the output's shape (hasBcastShapeExpansion).
LEMMA BcastRight ==
  ASSUME NEW kind \in {"col", "row", "scalar"}, NEW shape \in {"full", kind}, NEW n,
         NEW s \in 0 .. Tiles - 1
  PROVE  Slot(n, shape, BcastSlot(kind, shape, s \div Cols, s % Cols)) = TileOf(n, shape, s)
<1> DEFINE r == s \div Cols
           c == s % Cols
<1>1. Rows \in Nat \ {0} /\ Cols \in Nat \ {0} /\ s \in Nat /\ s < Rows * Cols
  BY TilesAssumption DEF Tiles
<1>2. r \in Nat /\ c \in Nat /\ s = (r * Cols) + c /\ c < Cols /\ r < Rows
  BY <1>1, TilesAssumption
<1>3. Cols = 1 => r = s
  BY <1>1
<1>4. Rows = 1 => c = s
  BY <1>1
<1>5. Rows = 1 /\ Cols = 1 => s = 0
  BY <1>1
<1>6. <<Rows, 1>> = <<Rows, Cols>> => Cols = 1
  OBVIOUS
<1>7. <<1, Cols>> = <<Rows, Cols>> => Rows = 1
  OBVIOUS
<1>8. <<1, 1>> = <<Rows, Cols>> => Rows = 1 /\ Cols = 1
  OBVIOUS
<1>9. Linear(r, c) = s
  BY <1>2 DEF Linear
<1> DEFINE slot == CASE shape = "full"   -> s
                     [] shape = "col"    -> r
                     [] shape = "row"    -> c
                     [] shape = "scalar" -> 0
<1> HIDE DEF r, c
<1>10. BcastSlot(kind, shape, r, c) = slot
  <2>1. CASE shape = "full"
    BY <1>9, <2>1 DEF BcastSlot, Grid
  <2>2. CASE shape = "col"
    BY <1>3, <1>6, <1>9, <2>2 DEF BcastSlot, Grid
  <2>3. CASE shape = "row"
    BY <1>4, <1>7, <1>9, <2>3 DEF BcastSlot, Grid
  <2>4. CASE shape = "scalar"
    BY <1>5, <1>8, <1>9, <2>4 DEF BcastSlot, Grid
  <2> QED BY <2>1, <2>2, <2>3, <2>4
<1> QED BY <1>10, Zenon DEF TileOf, slot, r, c

\* What copy_tile loads for the argument n at the slot s, and what a broadcast
\* of it makes.
Loaded(t, n, s) == Slot(Tensors(t)[n], t.roots[Tensors(t)[n]], s)
Spread(t, kind, n, s) ==
  <<kind, Slot(Tensors(t)[n], t.roots[Tensors(t)[n]],
               BcastSlot(kind, t.roots[Tensors(t)[n]], s \div Cols, s % Cols))>>

\* What a value of the body means; a copy means what was copied.
Base(v) == IF v[1] = "copy" THEN v[2] ELSE v
Term(t, v, s) == IF IsArg(Base(v)) THEN Loaded(t, Base(v)[2], s) ELSE Terms(t, s)[Base(v)[2]]

\* An operation whose result means what it makes of its operands.
Means(t, o) ==
  \A s \in 0 .. Tiles - 1 :
    /\ o.op = "copy_tile" => Term(t, o.out, s) = Loaded(t, o.in[1][2], s)
    /\ CBInput(o) => Term(t, o.out, s) = Spread(t, o.op, o.in[1][2], s)
    /\ o.op \in Elementwises =>
         Term(t, o.out, s) = <<o.op>> \o [i \in 1 .. Len(o.in) |-> Term(t, o.in[i], s)]

\* The operation k of a body.
Computes(t, o, k) ==
  /\ o.op \in Operators /\ o.out = Result(k)
  /\ \A i \in 1 .. Len(o.in) : Known(Tensors(t), o.in[i], k)
  /\ Len(o.in) = IF o.op \in Binary \union MinMax THEN 2 ELSE 1
  /\ CBInput(o) => IsArg(o.in[1])
  /\ Means(t, o)

\* Base and Term of the values of a trace.
LEMMA TermOf ==
  ASSUME NEW t, NEW s
  PROVE  /\ \A n : Base(Arg(n)) = Arg(n) /\ Term(t, Arg(n), s) = Loaded(t, n, s)
         /\ \A k : Base(Result(k)) = Result(k) /\ Term(t, Result(k), s) = Terms(t, s)[k]
BY DEF Base, Term, Arg, Result, IsArg

\* An input that is an operand of an elementwise operator is loaded as meant.
LEMMA FullOperand ==
  ASSUME NEW n, NEW s PROVE TileOf(n, "full", s) = Slot(n, "full", s)
BY DEF TileOf

\* Two sequences of one element.
LEMMA PairOf ==
  ASSUME NEW a, NEW e PROVE <<a>> \o <<e>> = <<a, e>>
<1> DEFINE S == {a, e}
           p == <<a>>
           q == <<e>>
           x == p \o q
<1>1. p \in Seq(S) /\ q \in Seq(S) /\ Len(p) = 1 /\ Len(q) = 1 /\ p[1] = a /\ q[1] = e
  OBVIOUS
<1>0. a \in S /\ e \in S
  OBVIOUS
<1> HIDE DEF S, p, q
<1>2. x \in Seq(S) /\ Len(x) = 2 /\ x[1] = a /\ x[2] = e
  <2>1. x \in Seq(S) /\ Joins(p, q, x)
    BY <1>1, JoinIs
  <2>2. 1 \in 1 .. 1 /\ 1 + 1 = 2
    OBVIOUS
  <2> HIDE DEF x
  <2> QED BY <1>1, <2>1, <2>2 DEF Joins
<1> HIDE DEF x
<1> DEFINE y == <<a, e>>
<1>3. y \in Seq(S) /\ Len(y) = 2 /\ y[1] = a /\ y[2] = e
  BY <1>0
<1> HIDE DEF y
<1>4. x = y
  <2>1. \A i \in 1 .. Len(x) : x[i] = y[i]
    <3>1. \A i \in 1 .. 2 : i = 1 \/ i = 2
      OBVIOUS
    <3> QED BY <1>2, <1>3, <3>1
  <2> QED BY <1>2, <1>3, <2>1, SeqEqual
<1> QED BY <1>4 DEF x, p, q, y

\* The operations of a body mean what those of the trace mean.
LEMMA OpsCompute ==
  ASSUME NEW t, TraceInOrder(t)
  PROVE  /\ Len(TileOps(t)) = Len(t.ops) /\ Len(t.ops) \in Nat /\ Len(Tensors(t)) \in Nat
         /\ \A k \in 1 .. Len(t.ops) : Computes(t, TileOps(t)[k], k)
<1> DEFINE N == Len(t.ops)
<1>1. N \in Nat /\ Len(t.roots) \in Nat
  BY DEF TraceInOrder, TraceOK
<1>2. \A k \in 1 .. N : Sensible(t.roots, t.ops[k], k)
  BY DEF TraceInOrder, Sequential
<1> DEFINE Same(k, s) ==
             Terms(t, s)[k]
             = <<t.ops[k].op>> \o [i \in 1 .. Len(t.ops[k].in) |-> Given1(t, Terms(t, s), t.ops[k].in[i], s)]
<1>3. ASSUME NEW s, NEW k \in 1 .. N PROVE Same(k, s)
  <2> DEFINE f == Terms(t, s)
  <2>1. f = Unfolded(t, f, s)
    BY TermsUnfold
  <2> HIDE DEF f
  <2>2. Unfolded(t, f, s)[k]
        = <<t.ops[k].op>> \o [i \in 1 .. Len(t.ops[k].in) |-> Given1(t, f, t.ops[k].in[i], s)]
    BY DEF Unfolded
  <2> QED BY <2>1, <2>2 DEF f
<1> HIDE DEF Same
<1>4. CASE Direct(t)
  <2> DEFINE o == t.ops[1]
             in == <<Arg(1), Arg(2)>>
             p == [o EXCEPT !.in = in]
             T == [n \in 1 .. 2 |-> o.in[n][2]]
  <2>1. N = 1 /\ Len(o.in) = 2
    BY <1>4 DEF Direct
  <2>2. Sensible(t.roots, o, 1)
    BY <1>2, <2>1
  <2>3. \A i \in 1 .. 2 : IsArg(o.in[i]) /\ o.in[i][2] \in 1 .. Len(t.roots)
    BY <2>1, <2>2, NamesDiffer DEF Sensible, Known
  <2>4. o.op \in Binary \union MinMax /\ o.op \in Elementwises /\ ~CBInput(o)
    BY <2>1, <2>2, OperatorsAssumption DEF Sensible, Elementwises, Operators, CBInput
  <2>5. \A i \in 1 .. 2 : t.roots[o.in[i][2]] = "full"
    BY <2>1, <2>2, <2>3, <2>4 DEF Sensible
  <2>6. TileOps(t) = <<p>> /\ Tensors(t) = T
    BY <1>4 DEF TileOps, Tensors
  <2>7. Len(<<p>>) = 1 /\ Len(T) = 2 /\ <<p>>[1] = p
    OBVIOUS
  <2>8. p.op = o.op /\ p.out = o.out /\ p.in = in
    <3>1. o \in Ops(Given)
      <4> DEFINE O == Ops(Given)
      <4>1. t.ops \in Seq(O)
        BY DEF TraceInOrder, TraceOK
      <4> HIDE DEF O
      <4>2. t.ops[1] \in O
        BY <2>1, <4>1
      <4> QED BY <4>2 DEF O
    <3> DEFINE A == Names
               B == Seq(Given)
               C == Given \union {NoValue}
    <3>2. o \in [op : A, in : B, out : C]
      BY <3>1 DEF Ops
    <3> HIDE DEF A, B, C, o, in
    <3> QED BY <3>2
  <2>9. Len(in) = 2 /\ in[1] = Arg(1) /\ in[2] = Arg(2)
    OBVIOUS
  <2> HIDE DEF in, p, o
  <2>10. \A i \in 1 .. Len(p.in) : Known(Tensors(t), p.in[i], 1)
    <3>1. Len(Tensors(t)) = 2 /\ Len(p.in) = 2 /\ p.in[1] = Arg(1) /\ p.in[2] = Arg(2)
      BY <2>6, <2>7, <2>8, <2>9
    <3>2. \A i \in 1 .. 2 : p.in[i] = Arg(i)
      BY <3>1
    <3> QED BY <3>1, <3>2 DEF Known
  <2>11. ASSUME NEW s
         PROVE  Term(t, p.out, s) = <<p.op>> \o [i \in 1 .. Len(p.in) |-> Term(t, p.in[i], s)]
    <3> DEFINE X == [i \in 1 .. Len(p.in) |-> Term(t, p.in[i], s)]
               Y == [i \in 1 .. Len(o.in) |-> Given1(t, Terms(t, s), o.in[i], s)]
    <3>1. ASSUME NEW i \in 1 .. 2
          PROVE  Term(t, p.in[i], s) = Given1(t, Terms(t, s), o.in[i], s)
      <4>1. p.in[i] = Arg(i)
        BY <2>8, <2>9
      <4>2. Term(t, p.in[i], s) = Loaded(t, i, s)
        BY <4>1, TermOf
      <4>3. Tensors(t)[i] = o.in[i][2]
        BY <2>6
      <4>4. Loaded(t, i, s) = Slot(o.in[i][2], "full", s)
        BY <2>5, <4>3 DEF Loaded
      <4>5. Given1(t, Terms(t, s), o.in[i], s) = Slot(o.in[i][2], "full", s)
        BY <2>3, <2>5, FullOperand DEF Given1
      <4> QED BY <4>2, <4>4, <4>5
    <3>2. X = Y
      BY <2>1, <2>8, <2>9, <3>1
    <3>3. Terms(t, s)[1] = <<o.op>> \o Y
      <4>1. Same(1, s)
        BY <1>3, <2>1
      <4> QED BY <4>1, Zenon DEF Same, o
    <3> HIDE DEF X, Y
    <3>4. o.out = Result(1)
      BY <2>2 DEF Sensible
    <3>5. Term(t, p.out, s) = Terms(t, s)[1]
      BY <2>8, <3>4, TermOf
    <3>6. Term(t, p.out, s) = <<p.op>> \o X
      BY <2>8, <3>2, <3>3, <3>5
    <3> QED BY <3>6 DEF X
  <2>12. Means(t, p)
    <3>1. p.op # "copy_tile" /\ ~CBInput(p)
      BY <2>4, <2>8, OperatorsAssumption DEF CBInput
    <3> QED BY <2>11, <3>1 DEF Means
  <2>13. Computes(t, p, 1)
    <3>1. p.op \in Operators /\ p.out = Result(1)
      BY <2>2, <2>8 DEF Sensible
    <3>2. Len(p.in) = IF p.op \in Binary \union MinMax THEN 2 ELSE 1
      BY <2>4, <2>8, <2>9
    <3>3. ~CBInput(p)
      BY <2>4, <2>8 DEF CBInput
    <3> QED BY <2>10, <2>12, <3>1, <3>2, <3>3 DEF Computes
  <2>14. TileOps(t)[1] = p /\ Len(TileOps(t)) = 1 /\ Len(Tensors(t)) = 2
    BY <2>6, <2>7
  <2> QED BY <2>1, <2>13, <2>14
<1>5. CASE ~Direct(t)
  <2> DEFINE T == [n \in 1 .. Len(t.roots) |-> n]
  <2>1. TileOps(t) = t.ops /\ Tensors(t) = T
    BY <1>5 DEF TileOps, Tensors
  <2>2. Len(T) = Len(t.roots) /\ \A n \in 1 .. Len(t.roots) : T[n] = n
    BY <1>1
  <2> HIDE DEF T
  <2>3. ASSUME NEW k \in 1 .. N PROVE Computes(t, t.ops[k], k)
    <3> DEFINE o == t.ops[k]
    <3>1. Sensible(t.roots, o, k)
      BY <1>2
    <3>2. ASSUME NEW s
          PROVE  Term(t, o.out, s)
                 = <<o.op>> \o [i \in 1 .. Len(o.in) |-> Given1(t, Terms(t, s), o.in[i], s)]
      <4> DEFINE e == <<o.op>> \o [i \in 1 .. Len(o.in) |-> Given1(t, Terms(t, s), o.in[i], s)]
      <4>1. o.out = Result(k)
        BY <3>1 DEF Sensible
      <4>2. Same(k, s)
        BY <1>3
      <4>3. Terms(t, s)[k] = e
        BY <4>2, Zenon DEF Same
      <4>4. Term(t, o.out, s) = Terms(t, s)[k]
        BY <4>1, TermOf
      <4> HIDE DEF e
      <4>5. Term(t, o.out, s) = e
        BY <4>3, <4>4
      <4> QED BY <4>5 DEF e
    <3> HIDE DEF o
    <3>3. ASSUME NEW i \in 1 .. Len(o.in), IsArg(o.in[i])
          PROVE  o.in[i][2] \in 1 .. Len(t.roots) /\ o.in[i] = Arg(o.in[i][2])
      BY <3>1, <3>3, NamesDiffer DEF Sensible, Known
    <3>4. ASSUME NEW s, o.op \in Elementwises, NEW i \in 1 .. Len(o.in)
          PROVE  Term(t, o.in[i], s) = Given1(t, Terms(t, s), o.in[i], s)
      <4> DEFINE v == o.in[i]
      <4>1. Known(t.roots, v, k) /\ (IsArg(v) => t.roots[v[2]] = "full")
        BY <3>1, <3>4 DEF Sensible
      <4>2. CASE IsArg(v)
        <5> DEFINE n == v[2]
        <5>1. n \in 1 .. Len(t.roots) /\ v = Arg(n) /\ t.roots[n] = "full" /\ Tensors(t)[n] = n
          BY <2>1, <2>2, <3>3, <4>1, <4>2
        <5>2. Term(t, v, s) = Slot(n, "full", s)
          <6>1. Term(t, Arg(n), s) = Loaded(t, n, s)
            BY TermOf
          <6> HIDE DEF n, v
          <6> QED BY <5>1, <6>1 DEF Loaded
        <5>3. Given1(t, Terms(t, s), v, s) = Slot(n, "full", s)
          BY <4>2, <5>1, FullOperand DEF Given1
        <5> QED BY <5>2, <5>3
      <4>3. CASE ~IsArg(v)
        <5>1. PICK j \in 1 .. k - 1 : v = Result(j)
          BY <4>1, <4>3, NamesDiffer DEF Known
        <5>2. Term(t, v, s) = Terms(t, s)[j]
          BY <5>1, TermOf
        <5>3. Given1(t, Terms(t, s), v, s) = Terms(t, s)[v[2]] /\ v[2] = j
          BY <4>3, <5>1, NamesDiffer DEF Given1
        <5> QED BY <5>2, <5>3
      <4> QED BY <4>2, <4>3
    <3>5. ASSUME NEW s \in 0 .. Tiles - 1, CBInput(o) PROVE Term(t, o.out, s) = Spread(t, o.op, o.in[1][2], s)
      <4> DEFINE v == o.in[1]
                 n == v[2]
                 e == Given1(t, Terms(t, s), v, s)
      <4>1. Len(o.in) = 1 /\ IsArg(v) /\ t.roots[n] \in {"full", o.op} /\ o.op \in {"col", "row", "scalar"}
        BY <3>1, <3>5 DEF Sensible, CBInput
      <4>2. n \in 1 .. Len(t.roots) /\ Tensors(t)[n] = n
        BY <2>1, <2>2, <3>3, <4>1
      <4>3. e = TileOf(n, t.roots[n], s)
        BY <4>1 DEF Given1
      <4>4. TileOf(n, t.roots[n], s)
            = Slot(n, t.roots[n], BcastSlot(o.op, t.roots[n], s \div Cols, s % Cols))
        BY <4>1, BcastRight
      <4>5. [i \in 1 .. Len(o.in) |-> Given1(t, Terms(t, s), o.in[i], s)] = <<e>>
        <5>1. [i \in 1 .. 1 |-> Given1(t, Terms(t, s), o.in[i], s)]
              = [i \in 1 .. 1 |-> e]
          OBVIOUS
        <5> HIDE DEF e
        <5>2. [i \in 1 .. 1 |-> e] = <<e>>
          OBVIOUS
        <5> QED BY <4>1, <5>1, <5>2
      <4>6. Term(t, o.out, s) = <<o.op>> \o <<e>>
        BY <3>2, <4>5
      <4> HIDE DEF e
      <4>7. <<o.op>> \o <<e>> = <<o.op, e>>
        BY PairOf
      <4>8. Spread(t, o.op, n, s) = <<o.op, e>>
        BY <4>2, <4>3, <4>4 DEF Spread
      <4> QED BY <4>6, <4>7, <4>8
    <3>6. ASSUME NEW s, o.op \in Elementwises
          PROVE  Term(t, o.out, s) = <<o.op>> \o [i \in 1 .. Len(o.in) |-> Term(t, o.in[i], s)]
      <4> DEFINE X == [i \in 1 .. Len(o.in) |-> Term(t, o.in[i], s)]
                 Y == [i \in 1 .. Len(o.in) |-> Given1(t, Terms(t, s), o.in[i], s)]
      <4>1. X = Y
        BY <3>4, <3>6
      <4>2. Term(t, o.out, s) = <<o.op>> \o Y
        BY <3>2
      <4> HIDE DEF X, Y
      <4>3. Term(t, o.out, s) = <<o.op>> \o X
        BY <4>1, <4>2
      <4> QED BY <4>3 DEF X
    <3>7. o.op # "copy_tile"
      BY <3>1, OperatorsAssumption DEF Sensible, Operators
    <3>8. Means(t, o)
      BY <3>5, <3>6, <3>7 DEF Means
    <3>9. \A i \in 1 .. Len(o.in) : Known(Tensors(t), o.in[i], k)
      BY <2>1, <2>2, <3>1 DEF Sensible, Known
    <3>10. Len(o.in) = IF o.op \in Binary \union MinMax THEN 2 ELSE 1
      BY <3>1, OperatorsAssumption DEF Sensible, Operators, Elementwises, CBInput
    <3> QED BY <3>1, <3>8, <3>9, <3>10 DEF Computes, Sensible, o
  <2> QED BY <1>1, <2>1, <2>2, <2>3
<1> QED BY <1>4, <1>5

-----------------------------------------------------------------------------
(* Values that share a register.                                           *)

\* Operation j reads v from its register.
Needs(ops, j, v) == ops[j].op # "copy_tile" /\ Contains(Operands(ops[j]), v)

\* Every result has one operation, operands are inputs or results of operations
\* before, and what a unary operation overwrites nobody else reads.
Single(ops) ==
  /\ \A j, k \in 1 .. Len(ops) : ops[j].out = ops[k].out /\ ops[j].out # NoValue => j = k
  /\ \A k \in 1 .. Len(ops) : ~IsArg(ops[k].out)
  /\ \A k \in 1 .. Len(ops) : \A v :
       Needs(ops, k, v) => IsArg(v) \/ \E j \in 1 .. k - 1 : ops[j].out = v
  /\ \A j, k \in 1 .. Len(ops) : IsUnary(ops[k]) /\ Needs(ops, j, ops[k].in[1]) => j = k

\* y is made when x is read for the last time, or later.
Behind(ops, x, y) ==
  \E d \in 1 .. Len(ops) :
    /\ ops[d].out = y
    /\ \A j \in 1 .. Len(ops) : (ops[j].out = x => j < d) /\ (Needs(ops, j, x) => j <= d)

Ordered(ops, x, y) == Behind(ops, x, y) \/ Behind(ops, y, x)

\* v is not the result of an operation after n.
Old(ops, v, n) == \A d \in 1 .. Len(ops) : ops[d].out = v => d <= n

\* root names the chain of unary operations that a value is in, as far as the
\* operation n.
Linked(ops, root, n) ==
  /\ root \in [Values(ops) -> Values(ops)]
  /\ \A k \in 1 .. n : IsUnary(ops[k]) => root[ops[k].out] = root[ops[k].in[1]]
  /\ \A v, w \in Values(ops) : root[v] = root[w] /\ v # w =>
       Ordered(ops, v, w) /\ Old(ops, v, n) /\ Old(ops, w, n)

\* A unary operation reads its operand, which is not its result.
LEMMA UnaryIs ==
  ASSUME NEW ops \in Seq(Ops(Held)), Single(ops), NEW k \in 1 .. Len(ops), IsUnary(ops[k])
  PROVE  /\ Needs(ops, k, ops[k].in[1]) /\ ops[k].in[1] # ops[k].out
         /\ ops[k].in[1] \in Values(ops) /\ ops[k].out \in Values(ops) /\ ops[k].out # NoValue
<1> DEFINE in == ops[k].in[1]
           res == ops[k].out
<1>1. k \in DOMAIN ops /\ Len(ops) \in Nat /\ DOMAIN ops = 1 .. Len(ops)
  <2> DEFINE O == Ops(Held)
  <2>1. ops \in Seq(O)
    OBVIOUS
  <2> HIDE DEF O
  <2> QED BY <2>1
<1>2. in \in ToSet(Operands(ops[k])) \ {NoValue} /\ res # NoValue
  BY <1>1, OperandsIn
<1>3. in \in Values(ops) /\ res \in Values(ops)
  BY <1>1, <1>2 DEF Values
<1>4. Needs(ops, k, in)
  <2>1. ops[k].op # "copy_tile"
    BY OperatorsAssumption DEF IsUnary
  <2>2. \E i \in DOMAIN Operands(ops[k]) : Operands(ops[k])[i] = in
    BY <1>2 DEF ToSet
  <2>3. Operands(ops[k]) \in Seq(Held)
    <3>1. ~CBInput(ops[k])
      BY OperatorsAssumption DEF IsUnary, CBInput
    <3> QED BY <1>1, <3>1, OperandsIn, Zenon DEF Operands
  <2>4. Contains(Operands(ops[k]), in)
    BY <2>2, <2>3 DEF Contains
  <2> QED BY <2>1, <2>4 DEF Needs
<1>5. in # res
  <2>1. IsArg(in) \/ \E j \in 1 .. k - 1 : ops[j].out = in
    BY <1>4 DEF Single
  <2>2. ~IsArg(res)
    BY DEF Single
  <2>3. ASSUME NEW j \in 1 .. k - 1, ops[j].out = in, in = res PROVE FALSE
    <3>1. j \in 1 .. Len(ops) /\ j # k
      BY <1>1
    <3> QED BY <1>2, <2>3, <3>1 DEF Single
  <2> QED BY <2>1, <2>2, <2>3
<1> QED BY <1>2, <1>3, <1>4, <1>5

\* One more operation.
LEMMA LinksOn ==
  ASSUME NEW ops \in Seq(Ops(Held)), Single(ops), NEW n \in Nat, n + 1 <= Len(ops),
         NEW root, Linked(ops, root, n)
  PROVE  \E next : Linked(ops, next, n + 1)
<1> DEFINE L == Len(ops)
           V == Values(ops)
           in == ops[n + 1].in[1]
           res == ops[n + 1].out
<1>1. L \in Nat /\ n + 1 \in 1 .. L
  BY UsesIs
<1>2. ASSUME NEW v, Old(ops, v, n) PROVE Old(ops, v, n + 1)
  BY <1>1, <1>2 DEF Old
<1>3. CASE ~IsUnary(ops[n + 1])
  <2>1. \A k \in 1 .. n + 1 : IsUnary(ops[k]) => k \in 1 .. n
    BY <1>3
  <2>2. Linked(ops, root, n + 1)
    BY <1>2, <2>1 DEF Linked
  <2> QED BY <2>2
<1>4. CASE IsUnary(ops[n + 1])
  <2>1. Needs(ops, n + 1, in) /\ in # res /\ in \in V /\ res \in V /\ res # NoValue
    BY <1>1, <1>4, UnaryIs
  <2>2. ~Old(ops, res, n)
    BY <1>1 DEF Old
  <2>3. Old(ops, in, n) /\ Old(ops, in, n + 1) /\ Old(ops, res, n + 1)
    <3>1. ASSUME NEW d \in 1 .. L, ops[d].out = in PROVE d <= n
      <4>1. IsArg(in) \/ \E j \in 1 .. (n + 1) - 1 : ops[j].out = in
        BY <1>1, <2>1 DEF Single
      <4>2. ~IsArg(in)
        BY <3>1 DEF Single
      <4>3. PICK j \in 1 .. (n + 1) - 1 : ops[j].out = in
        BY <4>1, <4>2
      <4>4. j \in 1 .. L /\ j <= n
        BY <1>1
      <4>5. in # NoValue
        BY <2>1 DEF Values
      <4> QED BY <3>1, <4>3, <4>4, <4>5 DEF Single
    <3>2. ASSUME NEW d \in 1 .. L, ops[d].out = res PROVE d <= n + 1
      BY <1>1, <2>1, <3>2 DEF Single
    <3>3. Old(ops, in, n) /\ Old(ops, res, n + 1)
      BY <3>1, <3>2 DEF Old
    <3> QED BY <1>2, <3>3
  <2>4. \A j \in 1 .. L : Needs(ops, j, in) => j = n + 1
    BY <1>1, <1>4 DEF Single
  <2>5. Behind(ops, in, res)
    <3>1. \A j \in 1 .. L : (ops[j].out = in => j < n + 1) /\ (Needs(ops, j, in) => j <= n + 1)
      BY <1>1, <2>3, <2>4 DEF Old
    <3> QED BY <1>1, <3>1 DEF Behind
  <2>6. ASSUME NEW w \in V, w # res, root[w] = root[in]
        PROVE  Behind(ops, w, res) /\ Old(ops, w, n)
    <3>1. CASE w = in
      BY <2>3, <2>5, <3>1
    <3>2. CASE w # in
      <4>1. Ordered(ops, w, in) /\ Old(ops, w, n)
        BY <2>1, <2>6, <3>2 DEF Linked
      <4>2. ~Behind(ops, in, w)
        <5>1. ASSUME NEW d \in 1 .. L, ops[d].out = w, Needs(ops, n + 1, in) => n + 1 <= d PROVE FALSE
          BY <1>1, <2>1, <4>1, <5>1 DEF Old
        <5> QED BY <1>1, <5>1 DEF Behind
      <4>3. PICK d \in 1 .. L : /\ ops[d].out = in
                                /\ \A j \in 1 .. L : (ops[j].out = w => j < d) /\ (Needs(ops, j, w) => j <= d)
        BY <4>1, <4>2 DEF Ordered, Behind
      <4>4. d <= n
        BY <2>3, <4>3 DEF Old
      <4>5. \A j \in 1 .. L : (ops[j].out = w => j < n + 1) /\ (Needs(ops, j, w) => j <= n + 1)
        BY <1>1, <4>3, <4>4
      <4>6. Behind(ops, w, res)
        BY <1>1, <4>5 DEF Behind
      <4> QED BY <4>1, <4>6
    <3> QED BY <3>1, <3>2
  <2> DEFINE next == [root EXCEPT ![res] = root[in]]
  <2>7. /\ next \in [V -> V] /\ next[res] = root[in]
        /\ \A v \in V : v # res => next[v] = root[v]
    BY <2>1 DEF Linked
  <2> HIDE DEF next
  <2>8. ASSUME NEW k \in 1 .. n + 1, IsUnary(ops[k]) PROVE next[ops[k].out] = next[ops[k].in[1]]
    <3>1. CASE k = n + 1
      BY <2>1, <2>7, <3>1
    <3>2. CASE k \in 1 .. n
      <4>1. k \in 1 .. L
        BY <1>1, <3>2
      <4>2. ops[k].in[1] \in V /\ ops[k].out \in V /\ Needs(ops, k, ops[k].in[1])
        BY <2>8, <4>1, UnaryIs
      <4>3. ops[k].out # res
        BY <1>1, <2>1, <3>2, <4>1 DEF Single
      <4>4. ops[k].in[1] # res
        <5>1. SUFFICES ASSUME ops[k].in[1] = res PROVE FALSE
          OBVIOUS
        <5>2. ~IsArg(res)
          BY <1>1 DEF Single
        <5>3. PICK j \in 1 .. k - 1 : ops[j].out = res
          BY <4>1, <4>2, <5>1, <5>2 DEF Single
        <5>4. j \in 1 .. L /\ j # n + 1
          BY <1>1, <3>2
        <5> QED BY <1>1, <2>1, <5>3, <5>4 DEF Single
      <4>5. root[ops[k].out] = root[ops[k].in[1]]
        BY <2>8, <3>2 DEF Linked
      <4> QED BY <2>7, <4>2, <4>3, <4>4, <4>5
    <3> QED BY <1>1, <3>1, <3>2
  <2>9. ASSUME NEW v \in V, NEW w \in V, next[v] = next[w], v # w
        PROVE  Ordered(ops, v, w) /\ Old(ops, v, n + 1) /\ Old(ops, w, n + 1)
    <3>1. CASE v = res
      <4>1. w # res /\ root[w] = root[in]
        BY <2>7, <2>9, <3>1
      <4> QED BY <1>2, <2>3, <2>6, <3>1, <4>1 DEF Ordered
    <3>2. CASE w = res
      <4>1. v # res /\ root[v] = root[in]
        BY <2>7, <2>9, <3>2
      <4> QED BY <1>2, <2>3, <2>6, <3>2, <4>1 DEF Ordered
    <3>3. CASE v # res /\ w # res
      <4>1. root[v] = root[w]
        BY <2>7, <2>9, <3>3
      <4> QED BY <1>2, <2>9, <4>1 DEF Linked
    <3> QED BY <3>1, <3>2, <3>3
  <2>10. Linked(ops, next, n + 1)
    BY <2>7, <2>8, <2>9 DEF Linked
  <2> QED BY <2>10
<1> QED BY <1>3, <1>4

\* The chains of a body.
LEMMA LinksExist ==
  ASSUME NEW ops \in Seq(Ops(Held)), Single(ops)
  PROVE  \E root : Linked(ops, root, Len(ops))
<1> DEFINE P == {n \in Nat : n <= Len(ops) => \E root : Linked(ops, root, n)}
<1>1. Len(ops) \in Nat
  BY UsesIs
<1>2. 0 \in P
  <2> DEFINE V == Values(ops)
             root == [v \in V |-> v]
  <2>1. root \in [V -> V] /\ \A v \in V : root[v] = v
    OBVIOUS
  <2> HIDE DEF root
  <2>2. Linked(ops, root, 0)
    BY <2>1 DEF Linked
  <2> QED BY <2>2
<1>3. ASSUME NEW n \in Nat, n \in P PROVE n + 1 \in P
  <2>1. SUFFICES ASSUME n + 1 <= Len(ops) PROVE \E root : Linked(ops, root, n + 1)
    OBVIOUS
  <2>2. PICK root : Linked(ops, root, n)
    BY <1>1, <1>3, <2>1
  <2> QED BY <2>1, <2>2, LinksOn
<1> HIDE DEF P
<1>4. Len(ops) \in P
  BY <1>1, <1>2, <1>3, NumberInduction
<1> QED BY <1>4 DEF P

\* Merged values are in one chain: one of them is read for the last time before
\* the other is made.
THEOREM ChainsAre ==
  ASSUME NEW ops \in Seq(Ops(Held)), Single(ops),
         NEW v \in Values(ops), NEW w \in Classes(ops)[v], w # v
  PROVE  w \in Values(ops) /\ Ordered(ops, v, w)
<1>1. PICK root : Linked(ops, root, Len(ops))
  BY LinksExist
<1> DEFINE U == Values(ops)
           Rooted(c) == Partition(c, U) /\ \A x \in U : \A y \in c[x] : root[y] = root[x]
           V == {c \in [U -> SUBSET U] : Rooted(c)}
           b == [x \in U |-> {x}]
<1>2. Rooted(b)
  BY DEF Partition
<1>3. \A c : Rooted(c) <=> c \in V
  BY DEF Partition
<1>4. ASSUME NEW c, Rooted(c), NEW p \in Merged(ops) PROVE Rooted(Join(c, p))
  <2>1. p \in SUBSET U
    BY MergedIn
  <2>2. Partition(Join(c, p), U)
    BY <1>4, <2>1, JoinParts
  <2>3. PICK k \in 1 .. Len(ops) : IsUnary(ops[k]) /\ p = {ops[k].in[1], ops[k].out}
    <3>1. DOMAIN ops = 1 .. Len(ops)
      BY OperandsIn, UsesIs
    <3> QED BY <3>1 DEF Merged, Merges
  <2>4. root[ops[k].out] = root[ops[k].in[1]]
    BY <1>1, <2>3 DEF Linked
  <2> DEFINE both == UNION {c[x] : x \in p}
             r == root[ops[k].out]
  <2>5. \A y \in both : root[y] = r
    <3>1. \A x \in p : root[x] = r /\ x \in U
      BY <2>1, <2>3, <2>4
    <3> HIDE DEF r
    <3> QED BY <1>4, <3>1
  <2> HIDE DEF r
  <2>6. ASSUME NEW x \in U, NEW y \in Join(c, p)[x] PROVE root[y] = root[x]
    <3>1. Join(c, p)[x] = IF x \in both THEN both ELSE c[x]
      BY <1>4 DEF Join, Partition
    <3> HIDE DEF both
    <3> QED BY <1>4, <2>5, <2>6, <3>1
  <2> QED BY <2>2, <2>6
<1> HIDE DEF Rooted
<1>5. \A c \in V : \A p \in Merged(ops) : Join(c, p) \in V
  BY <1>3, <1>4
<1>6. b \in V
  BY <1>2, <1>3
<1> HIDE DEF V
<1>7. Rooted(Classes(ops))
  BY <1>3, <1>5, <1>6, ClassesAre
<1>8. root[w] = root[v] /\ w \in U
  BY <1>7 DEF Rooted, Partition
<1> QED BY <1>1, <1>8 DEF Linked

\* The interval of a value holds its operation and all that read it; it begins
\* before the first one that reads an input.
Spans(ops, live, v) ==
  \A j \in 1 .. Len(ops) :
    /\ ops[j].out = v => live[v].start <= j /\ j <= live[v].end
    /\ Needs(ops, j, v) => j <= live[v].end /\ (IsArg(v) => live[v].start <= j - 1)

\* An operand is a value of the body, which uses it.
LEMMA NeedsIs ==
  ASSUME NEW ops \in Seq(Ops(Held)), NEW j \in 1 .. Len(ops), NEW v, Needs(ops, j, v)
  PROVE  v \in ToSet(Operands(ops[j])) /\ v \in Values(ops) /\ v # NoValue /\ j \in Uses(ops, v)
<1> DEFINE s == Operands(ops[j])
           T == ToSet(s)
<1>1. DOMAIN ops = 1 .. Len(ops) /\ Len(ops) \in Nat
  <2> DEFINE O == Ops(Held)
  <2>1. ops \in Seq(O)
    OBVIOUS
  <2> HIDE DEF O
  <2> QED BY <2>1
<1>2. s \in Seq(Held)
  <2>1. << >> \in Seq(Held) /\ ops[j].in \in Seq(Held)
    BY <1>1, OperandsIn
  <2> QED BY <2>1, Zenon DEF Operands
<1> HIDE DEF s
<1>3. v \in T
  <2>1. PICK i \in 1 .. Len(s) : s[i] = v
    BY DEF Needs, Contains, s
  <2>2. i \in DOMAIN s
    BY <1>2, <2>1
  <2> QED BY <2>1, <2>2 DEF ToSet
<1>4. v \in Held /\ v # NoValue
  <2>1. T \subseteq Held
    BY <1>1, OperandsIn DEF s
  <2> QED BY <1>3, <2>1, ValuesHeld
<1>5. v \in Values(ops)
  BY <1>1, <1>3, <1>4 DEF Values, s
<1> QED BY <1>1, <1>3, <1>4, <1>5, UsesIs DEF s

\* The intervals of a body do.
LEMMA SpansIs ==
  ASSUME NEW ops \in Seq(Ops(Held)), Single(ops), NEW v \in Values(ops)
  PROVE  Spans(ops, Live(ops), v)
<1> DEFINE V == Values(ops)
           class == Classes(ops)
           n == Len(ops)
           starts == {Interval(ops, w).start : w \in class[v]}
           ends == {Interval(ops, w).end : w \in class[v]}
           def == {k \in DOMAIN ops : ops[k].out = v}
           uses == Uses(ops, v)
           start == IF def = {} THEN Min(uses) - 1 ELSE Min(def)
           end == Max(uses \union def)
<1>1. n \in Nat /\ uses \subseteq 1 .. n /\ def \subseteq 1 .. n /\ DOMAIN ops = 1 .. n
  BY UsesIs, OperandsIn
<1>2. Live(ops)[v].start = Min(starts) /\ Live(ops)[v].end = Max(ends)
  BY DEF Live
<1>3. class[v] \subseteq V /\ v \in class[v]
  BY ClassesIs DEF Partition
<1>4. Min(starts) <= start /\ end <= Max(ends)
  <2>1. \A w \in class[v] : Interval(ops, w).start \in Nat /\ Interval(ops, w).end \in Nat
                            /\ Interval(ops, w).end <= n
    BY <1>3, IntervalIn
  <2>2. starts \in SUBSET Nat /\ ends \in SUBSET Nat /\ \A k \in ends : k <= n
    BY <2>1
  <2>3. start \in starts /\ end \in ends
    <3>1. Interval(ops, v).start = start /\ Interval(ops, v).end = end
      BY DEF Interval
    <3> HIDE DEF start, end
    <3> QED BY <1>3, <3>1
  <2> HIDE DEF starts, ends, start, end, n
  <2> QED BY <1>1, <2>2, <2>3, MinIs, MaxIs
<1>5. Min(starts) \in Nat /\ Max(ends) \in Nat /\ start \in Nat /\ end \in Nat
  <2>1. Live(ops)[v].start \in Nat /\ Live(ops)[v].end \in Nat
    BY LiveIs DEF LiveOK
  <2>2. start \in Nat /\ end \in Nat
    BY IntervalIn DEF Interval
  <2> HIDE DEF start, end
  <2> QED BY <1>2, <2>1, <2>2
<1> HIDE DEF starts, ends
<1>6. ASSUME NEW j \in uses \union def PROVE j <= end
  <2> DEFINE T == uses \union def
  <2>1. T \in SUBSET Nat /\ T # {} /\ \A k \in T : k <= n
    BY <1>1, <1>6
  <2> HIDE DEF T
  <2>2. \A k \in T : k <= Max(T)
    BY <1>1, <2>1, MaxIs
  <2> QED BY <1>6, <2>2 DEF T
<1>7. ASSUME NEW j \in def PROVE start <= j
  <2>1. def \in SUBSET Nat /\ def # {}
    BY <1>1, <1>7
  <2> HIDE DEF def
  <2>2. Min(def) <= j
    BY <1>7, <2>1, MinIs
  <2> QED BY <2>1, <2>2
<1>8. ASSUME NEW j \in uses, IsArg(v) PROVE start <= j - 1
  <2>1. def = {}
    BY <1>1, <1>8 DEF Single
  <2>2. uses \in SUBSET Nat /\ uses # {}
    BY <1>1, <1>8
  <2> HIDE DEF def, uses
  <2>3. Min(uses) <= j /\ Min(uses) \in Nat /\ j \in Nat
    BY <1>8, <2>2, MinIs
  <2> QED BY <2>1, <2>3
<1>9. ASSUME NEW j \in 1 .. n, Needs(ops, j, v) PROVE j \in uses
  BY <1>9, NeedsIs
<1>10. \A j \in 1 .. n : ops[j].out = v => j \in def
  BY <1>1
<1>11. uses \subseteq Nat /\ def \subseteq Nat
  BY <1>1
<1> DEFINE a == Live(ops)[v].start
           z == Live(ops)[v].end
<1>12. a \in Nat /\ z \in Nat /\ a <= start /\ end <= z
  BY <1>2, <1>4, <1>5
<1> HIDE DEF start, end, def, uses, a, z
<1>13. ASSUME NEW j \in 1 .. n
       PROVE  /\ ops[j].out = v => a <= j /\ j <= z
              /\ Needs(ops, j, v) => j <= z /\ (IsArg(v) => a <= j - 1)
  BY <1>1, <1>5, <1>6, <1>7, <1>8, <1>9, <1>10, <1>11, <1>12
<1> QED BY <1>13 DEF Spans, a, z

\* What is in a register when operation k runs, and after it.
Made(ops, v, k) == \E d \in 1 .. k : ops[d].out = v
Met1(ops, v, k) == IsArg(v) /\ \E j \in 1 .. k : Needs(ops, j, v)
Wants(ops, v, k) == \E j \in k .. Len(ops) : Needs(ops, j, v)
During(ops, k) == {v \in Values(ops) : (Made(ops, v, k - 1) \/ Met1(ops, v, k)) /\ Wants(ops, v, k)}
After(ops, k)  == {v \in Values(ops) : (Made(ops, v, k) \/ Met1(ops, v, k)) /\ Wants(ops, v, k + 1)}

\* An allocation of registers that keeps overlapping intervals apart.
Assigned(ops, reg) == DOMAIN reg = Values(ops) /\ RegistersApart(Live(ops), reg)

\* Values that are not in one chain and live at the same time are in different
\* registers.
LEMMA ApartAre ==
  ASSUME NEW ops \in Seq(Ops(Held)), Single(ops), NEW reg, Assigned(ops, reg),
         NEW v \in Values(ops), NEW w \in Values(ops), v # w, ~Ordered(ops, v, w),
         ~Disjoint(Live(ops), v, w)
  PROVE  reg[v] # reg[w]
<1>1. SUFFICES ASSUME reg[v] = reg[w] PROVE FALSE
  OBVIOUS
<1>2. Live(ops)[v].class = Live(ops)[w].class
  BY <1>1 DEF Assigned, RegistersApart
<1>3. Live(ops)[v].class = Classes(ops)[v] /\ Live(ops)[w].class = Classes(ops)[w]
  BY DEF Live
<1>4. w \in Classes(ops)[v]
  BY <1>2, <1>3, ClassesIs DEF Partition
<1> QED BY <1>4, ChainsAre

\* An input that is loaded overwrites nothing that is in use.
LEMMA LoadApart ==
  ASSUME NEW ops \in Seq(Ops(Held)), Single(ops), NEW reg, Assigned(ops, reg),
         NEW k \in 1 .. Len(ops), NEW v, IsArg(v), Needs(ops, k, v),
         \A j \in 1 .. k - 1 : ~Needs(ops, j, v),
         NEW w \in During(ops, k), w # v
  PROVE  v \in Values(ops) /\ reg[v] # reg[w]
<1> DEFINE live == Live(ops)
           n == Len(ops)
<1>1. v \in Values(ops) /\ w \in Values(ops)
  BY NeedsIs DEF During
<1>2. Spans(ops, live, v) /\ Spans(ops, live, w)
  BY <1>1, SpansIs
<1>3. n \in Nat
  BY UsesIs
<1>4. live[v].start \in Nat /\ live[v].end \in Nat /\ live[w].start \in Nat /\ live[w].end \in Nat
  BY <1>1, LiveIs DEF LiveOK
<1> DEFINE a == live[v].start
           b == live[v].end
           c == live[w].start
           e == live[w].end
<1>5. a <= k - 1 /\ k <= b
  BY <1>2 DEF Spans
<1>6. c <= k - 1
  <2>1. CASE Made(ops, w, k - 1)
    <3>1. PICK d \in 1 .. k - 1 : ops[d].out = w
      BY <2>1 DEF Made
    <3>2. c <= d /\ d \in 1 .. n
      BY <1>2, <1>3, <3>1 DEF Spans
    <3> HIDE DEF c
    <3> QED BY <1>4, <3>2 DEF c
  <2>2. CASE Met1(ops, w, k)
    <3>1. PICK j \in 1 .. k : Needs(ops, j, w) /\ IsArg(w)
      BY <2>2 DEF Met1
    <3>2. c <= j - 1 /\ j \in 1 .. n
      BY <1>2, <1>3, <3>1 DEF Spans
    <3> HIDE DEF c
    <3> QED BY <1>4, <3>2 DEF c
  <2> QED BY <2>1, <2>2 DEF During
<1>7. k <= e
  <2>1. PICK j \in k .. n : Needs(ops, j, w)
    BY DEF During, Wants
  <2>2. j \in 1 .. n
    BY <1>3, <2>1
  <2>3. j <= e
    BY <1>2, <2>1, <2>2 DEF Spans
  <2> HIDE DEF e
  <2> QED BY <1>4, <2>1, <2>3 DEF e
<1>8. ~Disjoint(live, v, w)
  <2> HIDE DEF live
  <2> QED BY <1>4, <1>5, <1>6, <1>7 DEF Disjoint
<1>9. ~Behind(ops, w, v)
  BY DEF Behind, Single
<1>10. ~Behind(ops, v, w)
  <2>1. SUFFICES ASSUME Behind(ops, v, w) PROVE FALSE
    OBVIOUS
  <2>2. PICK d \in 1 .. n : ops[d].out = w /\ k <= d
    BY <2>1 DEF Behind
  <2>3. ~IsArg(w) /\ w # NoValue
    BY <1>1, <2>2 DEF Single, Values
  <2>4. PICK x \in 1 .. k - 1 : ops[x].out = w
    BY <2>3 DEF During, Made, Met1
  <2>5. x \in 1 .. n /\ x # d
    BY <1>3, <2>2, <2>4
  <2> QED BY <2>2, <2>3, <2>4, <2>5 DEF Single
<1> QED BY <1>1, <1>8, <1>9, <1>10, ApartAre DEF Ordered

\* A result overwrites nothing that is needed after it.
LEMMA ResultApart ==
  ASSUME NEW ops \in Seq(Ops(Held)), Single(ops), NEW reg, Assigned(ops, reg),
         NEW k \in 1 .. Len(ops), NEW v, ops[k].out = v, v # NoValue,
         NEW w \in After(ops, k), w # v
  PROVE  v \in Values(ops) /\ reg[v] # reg[w]
<1> DEFINE live == Live(ops)
           n == Len(ops)
<1>3. n \in Nat /\ DOMAIN ops = 1 .. n
  BY UsesIs, OperandsIn
<1>1. v \in Values(ops) /\ w \in Values(ops)
  BY <1>3 DEF After, Values
<1>2. Spans(ops, live, v) /\ Spans(ops, live, w)
  BY <1>1, SpansIs
<1>4. live[v].start \in Nat /\ live[v].end \in Nat /\ live[w].start \in Nat /\ live[w].end \in Nat
  BY <1>1, LiveIs DEF LiveOK
<1> DEFINE a == live[v].start
           b == live[v].end
           c == live[w].start
           e == live[w].end
<1>5. a <= k /\ k <= b
  BY <1>2 DEF Spans
<1>6. c <= k - 1 /\ (\A d \in 1 .. n : ops[d].out = w => d < k)
  <2>1. CASE Made(ops, w, k)
    <3>1. PICK d \in 1 .. k : ops[d].out = w
      BY <2>1 DEF Made
    <3>2. c <= d /\ d \in 1 .. n /\ d # k
      BY <1>2, <1>3, <3>1 DEF Spans
    <3>3. \A x \in 1 .. n : ops[x].out = w => x = d
      BY <1>1, <3>1, <3>2 DEF Single, Values
    <3> HIDE DEF c
    <3> QED BY <1>4, <3>1, <3>2, <3>3 DEF c
  <2>2. CASE Met1(ops, w, k)
    <3>1. PICK j \in 1 .. k : Needs(ops, j, w) /\ IsArg(w)
      BY <2>2 DEF Met1
    <3>2. c <= j - 1 /\ j \in 1 .. n
      BY <1>2, <1>3, <3>1 DEF Spans
    <3>3. \A x \in 1 .. n : ops[x].out # w
      BY <3>1 DEF Single
    <3> HIDE DEF c
    <3> QED BY <1>4, <3>2, <3>3 DEF c
  <2> QED BY <2>1, <2>2 DEF After
<1>7. PICK j \in k + 1 .. n : Needs(ops, j, w) /\ j <= e
  <2>1. PICK j \in k + 1 .. n : Needs(ops, j, w)
    BY DEF After, Wants
  <2>2. j \in 1 .. n
    BY <1>3, <2>1
  <2> QED BY <1>2, <2>1, <2>2 DEF Spans
<1>8. ~Disjoint(live, v, w)
  <2> HIDE DEF live
  <2> QED BY <1>4, <1>5, <1>6, <1>7 DEF Disjoint
<1>9. ~Behind(ops, w, v)
  <2>1. SUFFICES ASSUME Behind(ops, w, v) PROVE FALSE
    OBVIOUS
  <2>2. PICK d \in 1 .. n : ops[d].out = v /\ (Needs(ops, j, w) => j <= d)
    BY <1>3, <1>7, <2>1 DEF Behind
  <2>3. d = k
    BY <2>2 DEF Single
  <2> QED BY <1>7, <2>2, <2>3
<1>10. ~Behind(ops, v, w)
  <2>1. SUFFICES ASSUME Behind(ops, v, w) PROVE FALSE
    OBVIOUS
  <2>2. PICK d \in 1 .. n : ops[d].out = w /\ k < d
    BY <2>1 DEF Behind
  <2> QED BY <1>3, <1>6, <2>2
<1> QED BY <1>1, <1>8, <1>9, <1>10, ApartAre DEF Ordered

-----------------------------------------------------------------------------
(* What the registers hold while the operations of a tile run.  A holds when,*)
(* for every value of A, its register holds what the value means.          *)

\* The instruction m computes what v means from the values of A.
Makes(t, reg, A, m, v) ==
  /\ m.do = "unpack" => \A s \in 0 .. Tiles - 1 : Term(t, v, s) = Loaded(t, m.reads, s)
  /\ m.do = "bcast" => \A s \in 0 .. Tiles - 1 : Term(t, v, s) = Spread(t, m.op, m.reads, s)
  /\ m.do = "compute" =>
       \E in : /\ \A j \in 1 .. Len(m.reads) : in[j] \in A /\ reg[in[j]] = m.reads[j]
               /\ \A s \in 0 .. Tiles - 1 :
                    Term(t, v, s) = <<m.op>> \o [j \in 1 .. Len(m.reads) |-> Term(t, in[j], s)]

\* When A holds, B holds after m; a pack stores the value final.
Leads(t, reg, final, A, m, B) ==
  /\ B \subseteq DOMAIN reg
  /\ m.thread = "MATH" => \A v \in B : \/ v \in A /\ reg[v] # m.writes
                                       \/ reg[v] = m.writes /\ Makes(t, reg, A, m, v)
  /\ m.thread = "PACK" => B \subseteq A /\ final \in A /\ m.reads = reg[final]

\* P[i] holds after i operations of the sequence.
Annotates(t, reg, final, P, seq) ==
  \A i \in 1 .. Len(seq) : Leads(t, reg, final, P[i - 1], seq[i], P[i])

Flows(t, reg, final, A, seq, B) ==
  \E P : P[0] \subseteq A /\ B \subseteq P[Len(seq)] /\ Annotates(t, reg, final, P, seq)

\* What holds before an operation may be more.
LEMMA LeadsMore ==
  ASSUME NEW t, NEW reg, NEW final, NEW A, NEW m, NEW B, Leads(t, reg, final, A, m, B),
         NEW C, A \subseteq C
  PROVE  Leads(t, reg, final, C, m, B)
<1>1. \A v : Makes(t, reg, A, m, v) => Makes(t, reg, C, m, v)
  <2> SUFFICES ASSUME NEW v, Makes(t, reg, A, m, v), m.do = "compute"
               PROVE  \E in : /\ \A j \in 1 .. Len(m.reads) : in[j] \in C /\ reg[in[j]] = m.reads[j]
                              /\ \A s \in 0 .. Tiles - 1 :
                                   Term(t, v, s) = <<m.op>> \o [j \in 1 .. Len(m.reads) |-> Term(t, in[j], s)]
    BY DEF Makes
  <2>1. PICK in : /\ \A j \in 1 .. Len(m.reads) : in[j] \in A /\ reg[in[j]] = m.reads[j]
                  /\ \A s \in 0 .. Tiles - 1 :
                       Term(t, v, s) = <<m.op>> \o [j \in 1 .. Len(m.reads) |-> Term(t, in[j], s)]
    BY DEF Makes
  <2>2. \A j \in 1 .. Len(m.reads) : in[j] \in C /\ reg[in[j]] = m.reads[j]
    BY <2>1
  <2> WITNESS in
  <2> QED BY <2>1, <2>2, Zenon
<1>2. \A v : v \in A => v \in C
  OBVIOUS
<1> QED BY <1>1, <1>2, Zenon DEF Leads

\* No operations.
LEMMA FlowsNone ==
  ASSUME NEW t, NEW reg, NEW final, NEW A, NEW B, B \subseteq A
  PROVE  Flows(t, reg, final, A, << >>, B)
<1> DEFINE P == [i \in {0} |-> B]
<1>1. P[0] = B /\ Len(<< >>) = 0
  OBVIOUS
<1> HIDE DEF P
<1>2. P[0] \subseteq A /\ B \subseteq P[Len(<< >>)] /\ Annotates(t, reg, final, P, << >>)
  BY <1>1 DEF Annotates
<1> QED BY <1>2 DEF Flows

\* One operation.
LEMMA FlowsOne ==
  ASSUME NEW t, NEW reg, NEW final, NEW A, NEW m, NEW B, Leads(t, reg, final, A, m, B)
  PROVE  Flows(t, reg, final, A, <<m>>, B)
<1> DEFINE P == [i \in 0 .. 1 |-> IF i = 0 THEN A ELSE B]
           q == <<m>>
<1>1. P[0] = A /\ P[1] = B /\ Len(q) = 1 /\ q[1] = m
  OBVIOUS
<1> HIDE DEF P, q
<1>2. Annotates(t, reg, final, P, q)
  <2> SUFFICES ASSUME NEW i \in 1 .. Len(q) PROVE Leads(t, reg, final, P[i - 1], q[i], P[i])
    BY DEF Annotates
  <2>1. i = 1 /\ i - 1 = 0
    BY <1>1
  <2> QED BY <1>1, <2>1
<1>3. P[0] \subseteq A /\ B \subseteq P[Len(q)]
  BY <1>1
<1> QED BY <1>2, <1>3 DEF Flows, q

\* One sequence after another.
LEMMA FlowsJoin ==
  ASSUME NEW t, NEW reg, NEW final, NEW S, NEW x \in Seq(S), NEW y \in Seq(S),
         NEW A, NEW B, NEW C, Flows(t, reg, final, A, x, B), Flows(t, reg, final, B, y, C)
  PROVE  Flows(t, reg, final, A, x \o y, C)
<1> DEFINE z == x \o y
           m == Len(x)
           n == Len(y)
<1>1. m \in Nat /\ n \in Nat /\ Len(z) = m + n
      /\ (\A i \in 1 .. m : z[i] = x[i]) /\ \A j \in 1 .. n : z[m + j] = y[j]
  BY JoinIs DEF Joins
<1>2. PICK P : P[0] \subseteq A /\ B \subseteq P[m] /\ Annotates(t, reg, final, P, x)
  BY DEF Flows
<1>3. PICK Q : Q[0] \subseteq B /\ C \subseteq Q[n] /\ Annotates(t, reg, final, Q, y)
  BY DEF Flows
<1> DEFINE R == [i \in 0 .. m + n |-> IF i <= m THEN P[i] ELSE Q[i - m]]
<1> HIDE DEF z, m, n
<1>4. (\A i \in 0 .. m : R[i] = P[i]) /\ \A j \in 1 .. n : R[m + j] = Q[j]
  <2>1. \A i \in 0 .. m : i \in 0 .. m + n /\ i <= m
    BY <1>1
  <2>2. \A j \in 1 .. n : m + j \in 0 .. m + n /\ ~(m + j <= m) /\ (m + j) - m = j
    BY <1>1
  <2> QED BY <2>1, <2>2
<1> HIDE DEF R
<1>5. ASSUME NEW i \in 1 .. Len(z) PROVE Leads(t, reg, final, R[i - 1], z[i], R[i])
  <2>1. CASE i \in 1 .. m
    <3>1. R[i - 1] = P[i - 1] /\ R[i] = P[i] /\ z[i] = x[i]
      BY <1>1, <1>4, <2>1
    <3> QED BY <1>2, <2>1, <3>1 DEF Annotates, m
  <2>2. CASE i \notin 1 .. m
    <3>1. PICK j \in 1 .. n : i = m + j
      <4>1. i - m \in 1 .. n /\ i = m + (i - m)
        BY <1>1, <2>2
      <4> QED BY <4>1
    <3>2. z[i] = y[j] /\ R[i] = Q[j] /\ Leads(t, reg, final, Q[j - 1], y[j], Q[j])
      BY <1>1, <1>3, <1>4, <3>1 DEF Annotates, n
    <3>3. Q[j - 1] \subseteq R[i - 1]
      <4>1. CASE j = 1
        <5>1. i - 1 = m /\ j - 1 = 0 /\ m \in 0 .. m
          BY <1>1, <3>1, <4>1
        <5>2. R[m] = P[m]
          BY <1>4, <5>1
        <5> QED BY <1>2, <1>3, <5>1, <5>2
      <4>2. CASE j # 1
        <5>1. j - 1 \in 1 .. n /\ i - 1 = m + (j - 1)
          BY <1>1, <3>1, <4>2
        <5> QED BY <1>4, <5>1
      <4> QED BY <4>1, <4>2
    <3> QED BY <3>2, <3>3, LeadsMore
  <2> QED BY <2>1, <2>2
<1>6. R[0] \subseteq A
  <2>1. 0 \in 0 .. m
    BY <1>1
  <2> QED BY <1>2, <1>4, <2>1
<1>7. C \subseteq R[Len(z)]
  <2>1. CASE n = 0
    <3>1. Len(z) = m /\ m \in 0 .. m
      BY <1>1, <2>1
    <3>2. R[Len(z)] = P[m]
      BY <1>4, <3>1
    <3> QED BY <1>2, <1>3, <2>1, <3>2
  <2>2. CASE n # 0
    <3>1. n \in 1 .. n
      BY <1>1, <2>2
    <3> QED BY <1>1, <1>3, <1>4, <3>1
  <2> QED BY <2>1, <2>2
<1>8. Annotates(t, reg, final, R, z)
  BY <1>5 DEF Annotates
<1>9. Flows(t, reg, final, A, z, C)
  BY <1>6, <1>7, <1>8 DEF Flows
<1> QED BY <1>9 DEF z

\* Many sequences one after another.
LEMMA FlowsAll ==
  ASSUME NEW t, NEW reg, NEW final, NEW S, NEW ss \in Seq(Seq(S)), NEW A,
         \A k \in 1 .. Len(ss) : Flows(t, reg, final, A[k - 1], ss[k], A[k])
  PROVE  Flows(t, reg, final, A[0], FlattenSeq(ss), A[Len(ss)])
<1> DEFINE n == Len(ss)
<1>1. n \in Nat
  OBVIOUS
<1>2. CASE n = 0
  <2>1. FlattenSeq(ss) = << >>
    <3>1. PICK off : Layout(off, ss, FlattenSeq(ss)) /\ FlattenSeq(ss) \in Seq(S)
      BY FlattenLayout
    <3>2. Len(FlattenSeq(ss)) = 0
      BY <1>2, <3>1 DEF Layout
    <3> DEFINE f == FlattenSeq(ss)
    <3> HIDE DEF f
    <3>3. f \in Seq(S) /\ Len(f) = 0
      BY <3>1, <3>2 DEF f
    <3>4. f = << >>
      BY <3>3
    <3> QED BY <3>4 DEF f
  <2>2. Flows(t, reg, final, A[0], << >>, A[0])
    BY FlowsNone
  <2> QED BY <1>2, <2>1, <2>2
<1>3. CASE n # 0
  <2>1. PICK g : Joined(g, ss, n, S) /\ FlattenSeq(ss) = g[n]
    BY <1>3, FlattenIsJoined
  <2> DEFINE T == {k \in Nat : k + 1 <= n => Flows(t, reg, final, A[0], g[k + 1], A[k + 1])}
  <2>2. \A k \in 1 .. n : ss[k] \in Seq(S) /\ g[k] \in Seq(S)
    BY <2>1 DEF Joined
  <2> HIDE DEF n
  <2>3. 0 \in T
    <3>1. 1 \in 1 .. n /\ 1 - 1 = 0 /\ 0 + 1 = 1
      BY <1>1, <1>3
    <3>2. g[1] = ss[1]
      BY <2>1, <3>1 DEF Joined
    <3>3. Flows(t, reg, final, A[0], ss[1], A[1])
      BY <3>1 DEF n
    <3> QED BY <3>1, <3>2, <3>3
  <2>4. ASSUME NEW k \in Nat, k \in T PROVE k + 1 \in T
    <3>1. SUFFICES ASSUME (k + 1) + 1 <= n
                   PROVE  Flows(t, reg, final, A[0], g[(k + 1) + 1], A[(k + 1) + 1])
      OBVIOUS
    <3> DEFINE i == k + 2
    <3>2. i \in 1 .. n /\ i - 1 \in 1 .. n /\ i # 1 /\ i - 1 = k + 1 /\ i = (k + 1) + 1
      BY <1>1, <3>1
    <3>3. Flows(t, reg, final, A[0], g[i - 1], A[i - 1])
      BY <2>4, <3>1, <3>2
    <3> HIDE DEF i
    <3>4. g[i] = g[i - 1] \o ss[i]
      BY <2>1, <3>2 DEF Joined
    <3>5. Flows(t, reg, final, A[i - 1], ss[i], A[i])
      BY <3>2 DEF n
    <3>6. Flows(t, reg, final, A[0], g[i - 1] \o ss[i], A[i])
      BY <2>2, <3>2, <3>3, <3>5, FlowsJoin
    <3> QED BY <3>2, <3>4, <3>6
  <2> HIDE DEF T
  <2>5. n - 1 \in T
    <3>1. n - 1 \in Nat
      BY <1>1, <1>3
    <3> QED BY <2>3, <2>4, <3>1, NumberInduction
  <2>6. Flows(t, reg, final, A[0], g[n], A[n])
    <3>1. (n - 1) + 1 = n /\ n <= n
      BY <1>1
    <3> QED BY <2>5, <3>1 DEF T
  <2> QED BY <2>1, <2>6 DEF n
<1> QED BY <1>2, <1>3

\* The registers of the operands, and the instructions of an operation.
From(o, reg) == [i \in 1 .. Len(o.in) |-> reg[o.in[i]]]
PackOf(ops, k, reg) ==
  Instr("PACK", "pack", ops[k].op, From(ops[k], reg)[1],
        Cardinality({j \in 1 .. k : ops[j].op = "tile_store"}))

\* What operations are lowered to.
LEMMA LowerTo ==
  ASSUME NEW ops, NEW k, NEW reg
  PROVE  LET o == ops[k]
         IN /\ o.op \in {"constant", "yield"} => Lower(ops, k, reg) = << >>
            /\ o.op = "tile_store" => Lower(ops, k, reg) = <<PackOf(ops, k, reg)>>
            /\ o.op = "copy_tile" => Lower(ops, k, reg) = <<Unpack(o.in[1][2], reg[o.out])>>
            /\ CBInput(o) => Lower(ops, k, reg)
                             = <<Instr("MATH", "bcast", o.op, o.in[1][2], reg[o.out])>>
            /\ o.op \in Unary => Lower(ops, k, reg)
                                 = <<Instr("MATH", "compute", o.op, <<reg[o.out]>>, reg[o.out])>>
            /\ o.op \in Binary => Lower(ops, k, reg)
                                  = <<Instr("MATH", "compute", o.op, From(o, reg), reg[o.out])>>
            /\ o.op \in MinMax => Lower(ops, k, reg)
                                  = <<Instr("MATH", "compute", o.op, From(o, reg), From(o, reg)[1])>>
<1> DEFINE o == ops[k]
           l == Lower(ops, k, reg)
           from == [i \in 1 .. Len(o.in) |-> reg[o.in[i]]]
           u == <<Unpack(o.in[1][2], reg[o.out])>>
           v == <<Instr("MATH", "bcast", o.op, o.in[1][2], reg[o.out])>>
           w == <<Instr("MATH", "compute", o.op, <<reg[o.out]>>, reg[o.out])>>
           x == <<Instr("MATH", "compute", o.op, from, reg[o.out])>>
           y == <<Instr("MATH", "compute", o.op, from, from[1])>>
           z == <<Instr("PACK", "pack", o.op, from[1],
                        Cardinality({j \in 1 .. k : ops[j].op = "tile_store"}))>>
<1>1. l = CASE o.op = "copy_tile"  -> u
            [] CBInput(o)          -> v
            [] o.op \in Unary      -> w
            [] o.op \in Binary     -> x
            [] o.op \in MinMax     -> y
            [] o.op = "tile_store" -> z
            [] OTHER               -> << >>
  BY Zenon DEF Lower
<1>2. x = <<Instr("MATH", "compute", o.op, From(o, reg), reg[o.out])>>
      /\ y = <<Instr("MATH", "compute", o.op, From(o, reg), From(o, reg)[1])>>
      /\ z = <<PackOf(ops, k, reg)>>
  BY Zenon DEF From, PackOf
<1>3. CBInput(o) <=> o.op \in {"col", "row", "scalar"}
  BY DEF CBInput
<1>4. /\ Unary \cap Binary = {} /\ Unary \cap MinMax = {} /\ Binary \cap MinMax = {}
      /\ (Unary \union Binary \union MinMax)
           \cap {"col", "row", "scalar", "constant", "copy_tile", "copy_dst", "tile_store", "yield"} = {}
  BY OperatorsAssumption
<1> DEFINE p == o.op
           b == CBInput(o)
<1> HIDE DEF l, u, v, w, x, y, z, p, b
<1>5. /\ p \in {"constant", "yield"} => l = << >>
      /\ p = "tile_store" => l = z
      /\ p = "copy_tile" => l = u
      /\ b => l = v
      /\ p \in Unary => l = w
      /\ p \in Binary => l = x
      /\ p \in MinMax => l = y
  <2>1. l = CASE p = "copy_tile"  -> u
              [] b                -> v
              [] p \in Unary      -> w
              [] p \in Binary     -> x
              [] p \in MinMax     -> y
              [] p = "tile_store" -> z
              [] OTHER            -> << >>
    BY <1>1 DEF p, b
  <2>2. b <=> p \in {"col", "row", "scalar"}
    BY <1>3 DEF p, b
  <2> HIDE <1>1, <1>2, <1>3
  <2>3. CASE p = "copy_tile"
    BY <1>4, <2>1, <2>2, <2>3
  <2>4. CASE b
    BY <1>4, <2>1, <2>2, <2>4
  <2>5. CASE p \in Unary
    BY <1>4, <2>1, <2>2, <2>5
  <2>6. CASE p \in Binary
    BY <1>4, <2>1, <2>2, <2>6
  <2>7. CASE p \in MinMax
    BY <1>4, <2>1, <2>2, <2>7
  <2>8. CASE p = "tile_store"
    BY <1>4, <2>1, <2>2, <2>8
  <2>9. CASE p \in {"constant", "yield"}
    BY <1>4, <2>1, <2>2, <2>9
  <2> QED BY <2>3, <2>4, <2>5, <2>6, <2>7, <2>8, <2>9
<1> QED BY <1>2, <1>5, Zenon DEF l, u, v, w, p, b, o

\* An input is loaded by the first operation that reads it from a register.
LEMMA LoadsAre ==
  ASSUME NEW ops \in Seq(Ops(Held)), NEW k \in 1 .. Len(ops)
  PROVE  /\ Loads(ops, k) \in Seq(Held)
         /\ \A v : v \in ToSet(Loads(ops, k)) <=>
              IsArg(v) /\ Needs(ops, k, v) /\ \A j \in 1 .. k - 1 : ~Needs(ops, j, v)
<1> DEFINE s == ops[k].in
           n == Len(s)
           fresh(i) == /\ IsArg(s[i]) /\ Needs(ops, k, s[i])
                       /\ \A j \in 1 .. k - 1 : ~Needs(ops, j, s[i])
                       /\ \A j \in 1 .. i - 1 : s[j] # s[i]
           ss == [i \in 1 .. n |-> IF fresh(i) THEN <<s[i]>> ELSE << >>]
           new(v) == IsArg(v) /\ Needs(ops, k, v) /\ \A j \in 1 .. k - 1 : ~Needs(ops, j, v)
<1>1. k \in DOMAIN ops /\ s \in Seq(Held) /\ n \in 0 .. 2 /\ DOMAIN s = 1 .. n
  <2>1. k \in DOMAIN ops
    <3> DEFINE O == Ops(Held)
    <3>1. ops \in Seq(O)
      OBVIOUS
    <3> HIDE DEF O
    <3> QED BY <3>1
  <2>2. s \in Seq(Held) /\ n \in 0 .. 2
    BY <2>1, OperandsIn
  <2> HIDE DEF s
  <2> QED BY <2>1, <2>2
<1>2. Loads(ops, k) = FlattenSeq(ss)
  <2>1. Loads(ops, k) = FlattenSeq([i \in DOMAIN s |-> IF fresh(i) THEN <<s[i]>> ELSE << >>])
    BY Zenon DEF Loads, Needs
  <2> HIDE DEF s, fresh
  <2>2. [i \in DOMAIN s |-> IF fresh(i) THEN <<s[i]>> ELSE << >>] = ss
    BY <1>1
  <2> QED BY <2>1, <2>2
<1>3. \A i \in 1 .. n : s[i] \in Held
  <2> HIDE DEF s
  <2> QED BY <1>1
<1>4. ss \in [1 .. n -> Seq(Held)]
  <2>1. \A x \in Held : <<x>> \in Seq(Held) /\ << >> \in Seq(Held)
    OBVIOUS
  <2> HIDE DEF s, fresh
  <2> QED BY <1>3, <2>1
<1>5. FlattenSeq(ss) \in Seq(Held) /\ ToSet(FlattenSeq(ss)) = UNION {ToSet(ss[i]) : i \in 1 .. n}
  <2>1. n \in Nat
    BY <1>1
  <2> HIDE DEF ss, n
  <2> QED BY <1>4, <2>1, FlattenIn
<1>6. \A i \in 1 .. n : \A v : v \in ToSet(ss[i]) <=> fresh(i) /\ v = s[i]
  <2>1. \A x, v : v \in ToSet(<<x>>) <=> v = x
    BY DEF ToSet
  <2>2. \A v : v \notin ToSet(<< >>)
    BY DEF ToSet
  <2> HIDE DEF fresh, s
  <2> QED BY <2>1, <2>2
<1>7. ASSUME NEW v PROVE new(v) <=> \E i \in 1 .. n : fresh(i) /\ v = s[i]
  <2>1. ASSUME new(v) PROVE \E i \in 1 .. n : fresh(i) /\ v = s[i]
    <3>1. v \in ToSet(Operands(ops[k]))
      BY <2>1, NeedsIs
    <3>2. \E i \in 1 .. n : s[i] = v
      <4>1. ToSet(Operands(ops[k])) \subseteq {s[i] : i \in DOMAIN s}
        BY <1>1, OperandsIn
      <4> HIDE DEF s
      <4> QED BY <1>1, <3>1, <4>1
    <3>3. CASE n # 0 /\ s[1] = v
      <4>1. 1 \in 1 .. n /\ fresh(1)
        BY <1>1, <2>1, <3>3
      <4> QED BY <3>3, <4>1
    <3>4. CASE n = 0 \/ s[1] # v
      <4>1. n = 2 /\ s[2] = v /\ s[1] # v
        <5> HIDE DEF s, new, fresh
        <5> QED BY <1>1, <3>2, <3>4
      <4>2. \A j \in 1 .. 2 - 1 : s[j] # s[2]
        <5>1. \A j \in 1 .. 2 - 1 : j = 1
          OBVIOUS
        <5> HIDE DEF s
        <5> QED BY <4>1, <5>1
      <4>3. fresh(2) /\ 2 \in 1 .. n
        BY <2>1, <4>1, <4>2
      <4> QED BY <4>1, <4>3
    <3> QED BY <3>3, <3>4
  <2>2. ASSUME NEW i \in 1 .. n, fresh(i), v = s[i] PROVE new(v)
    BY <2>2
  <2> QED BY <2>1, <2>2
<1> HIDE DEF new, ss, fresh, s, n
<1>8. \A v : v \in ToSet(Loads(ops, k)) <=> new(v)
  <2>1. \A v : v \in ToSet(Loads(ops, k)) <=> \E i \in 1 .. n : v \in ToSet(ss[i])
    BY <1>2, <1>5
  <2>2. \A v : (\E i \in 1 .. n : v \in ToSet(ss[i])) <=> \E i \in 1 .. n : fresh(i) /\ v = s[i]
    BY <1>6
  <2> QED BY <1>7, <2>1, <2>2
<1> QED BY <1>2, <1>5, <1>8 DEF new

\* An operation of a body of the trace t that stores and yields final.
SoundOp(t, o, final) ==
  \/ o.op = "constant" /\ o.in = << >> /\ o.out = NoValue
  \/ o.op \in {"tile_store", "yield"} /\ o.in = <<final>> /\ o.out = NoValue
  \/ /\ o.op \in Operators \union {"copy_tile"} /\ o.out # NoValue
     /\ Len(o.in) = (IF o.op \in Binary \union MinMax THEN 2 ELSE 1)
     /\ Means(t, o)

\* Operators that work in place have their operand where the result goes.
Placed(ops, reg) ==
  \A k \in 1 .. Len(ops) :
    IsUnary(ops[k]) \/ ops[k].op \in MinMax => reg[ops[k].in[1]] = reg[ops[k].out]

\* A body of t whose values have registers.
Compiled(t, ops, reg, final) ==
  /\ ops \in Seq(Ops(Held)) /\ Single(ops) /\ Assigned(ops, reg) /\ Placed(ops, reg)
  /\ \A k \in 1 .. Len(ops) : SoundOp(t, ops[k], final)

\* The loads before an operation.
LoadCode(ops, k, reg) ==
  [i \in 1 .. Len(Loads(ops, k)) |-> Unpack(Loads(ops, k)[i][2], reg[Loads(ops, k)[i]])]

\* After the loads every operand is in its register.
LEMMA LoadsFlow ==
  ASSUME NEW t, NEW ops, NEW reg, NEW final, Compiled(t, ops, reg, final),
         NEW k \in 1 .. Len(ops)
  PROVE  Flows(t, reg, final, After(ops, k - 1), LoadCode(ops, k, reg), During(ops, k))
<1> DEFINE l == Loads(ops, k)
           n == Len(l)
           c == LoadCode(ops, k, reg)
           D == During(ops, k)
           A == After(ops, k - 1)
           P == [i \in 0 .. n |-> (A \intersect D) \union {l[j] : j \in 1 .. i}]
           new(v) == IsArg(v) /\ Needs(ops, k, v) /\ \A j \in 1 .. k - 1 : ~Needs(ops, j, v)
<1>1. ops \in Seq(Ops(Held)) /\ Single(ops) /\ Assigned(ops, reg)
  BY DEF Compiled
<1>2. l \in Seq(Held) /\ \A v : v \in ToSet(l) <=> new(v)
  BY <1>1, LoadsAre
<1>3. n \in Nat /\ Len(c) = n /\ \A i \in 1 .. n : c[i] = Unpack(l[i][2], reg[l[i]])
  <2> HIDE DEF l
  <2>1. n \in Nat
    BY <1>2
  <2> HIDE DEF n
  <2>2. c = [i \in 1 .. n |-> Unpack(l[i][2], reg[l[i]])]
    BY Zenon DEF LoadCode, n, l
  <2> HIDE DEF c
  <2> QED BY <2>1, <2>2
<1>4. \A i \in 1 .. n : l[i] \in ToSet(l)
  <2> HIDE DEF l
  <2>1. DOMAIN l = 1 .. n
    BY <1>2
  <2> QED BY <2>1 DEF ToSet
<1>5. ASSUME NEW v, new(v) PROVE v \in D
  <2>1. Wants(ops, v, k) /\ Met1(ops, v, k)
    <3>1. k \in k .. Len(ops) /\ k \in 1 .. k
      BY <1>1, UsesIs
    <3> QED BY <1>5, <3>1 DEF Wants, Met1
  <2> QED BY <1>1, <1>5, <2>1, NeedsIs DEF During
<1> DEFINE N == 0 .. n
<1>6. P[0] = A \intersect D /\ P[n] = (A \intersect D) \union {l[j] : j \in 1 .. n}
      /\ \A i \in 1 .. n : P[i] = P[i - 1] \union {l[i]}
  <2> HIDE DEF A, D, l, n
  <2>1. P[0] = A \intersect D /\ P[n] = (A \intersect D) \union {l[j] : j \in 1 .. n}
    BY <1>3
  <2>2. ASSUME NEW i \in 1 .. n PROVE P[i] = P[i - 1] \union {l[i]}
    <3>1. i \in 0 .. n /\ i - 1 \in 0 .. n
      BY <1>3
    <3>2. {l[j] : j \in 1 .. i} = {l[j] : j \in 1 .. i - 1} \union {l[i]}
      <4>1. 1 .. i = (1 .. i - 1) \union {i}
        BY <1>3
      <4> QED BY <4>1
    <3> QED BY <3>1, <3>2
  <2> QED BY <2>1, <2>2
<1>7. \A i \in 1 .. n : P[i] \subseteq D /\ P[i - 1] \subseteq D
  <2>1. ASSUME NEW i \in 0 .. n PROVE P[i] \subseteq D
    <3>1. \A j \in 1 .. n : l[j] \in D
      BY <1>2, <1>4, <1>5
    <3>2. \A j \in 1 .. i : j \in 1 .. n
      BY <1>3
    <3> HIDE DEF A, D, l, n, new
    <3> QED BY <3>1, <3>2
  <2> HIDE DEF P
  <2> QED BY <1>3, <2>1
<1>8. D \subseteq P[n]
  <2> SUFFICES ASSUME NEW v \in D PROVE v \in A \/ new(v)
    <3>1. \A v : new(v) => \E j \in 1 .. n : v = l[j]
      <4> HIDE DEF l, new, n
      <4>1. DOMAIN l = 1 .. n
        BY <1>2 DEF n
      <4> QED BY <1>2, <4>1 DEF ToSet
    <3> HIDE DEF A, D, new, l, P
    <3> QED BY <1>6, <3>1
  <2>1. v \in Values(ops) /\ Wants(ops, v, k) /\ (Made(ops, v, k - 1) \/ Met1(ops, v, k))
    BY DEF During
  <2>2. Wants(ops, v, (k - 1) + 1)
    <3>1. (k - 1) + 1 = k
      BY <1>1, UsesIs
    <3> QED BY <2>1, <3>1
  <2>3. CASE Made(ops, v, k - 1) \/ Met1(ops, v, k - 1)
    BY <2>1, <2>2, <2>3 DEF After
  <2>4. CASE ~Made(ops, v, k - 1) /\ ~Met1(ops, v, k - 1)
    <3>1. IsArg(v) /\ (\E j \in 1 .. k : Needs(ops, j, v)) /\ \A j \in 1 .. k - 1 : ~Needs(ops, j, v)
      BY <2>1, <2>4 DEF Met1
    <3>2. Needs(ops, k, v)
      <4>1. \A j \in 1 .. k : j = k \/ j \in 1 .. k - 1
        BY <1>1, UsesIs
      <4> QED BY <3>1, <4>1
    <3> QED BY <3>1, <3>2
  <2> QED BY <2>3, <2>4
<1>9. ASSUME NEW i \in 1 .. n PROVE Leads(t, reg, final, P[i - 1], c[i], P[i])
  <2> DEFINE x == l[i]
             m == Unpack(x[2], reg[x])
  <2>1. c[i] = m /\ new(x)
    BY <1>2, <1>3, <1>4
  <2>2. m.thread = "MATH" /\ m.do = "unpack" /\ m.reads = x[2] /\ m.writes = reg[x]
    BY DEF Unpack, Instr
  <2>3. P[i] = P[i - 1] \union {x} /\ P[i] \subseteq D
    BY <1>6, <1>7
  <2>4. D \subseteq DOMAIN reg
    BY <1>1 DEF During, Assigned
  <2>5. \A v \in D : v # x => reg[v] # reg[x]
    BY <1>1, <2>1, LoadApart
  <2>6. Makes(t, reg, P[i - 1], m, x)
    <3>1. ASSUME NEW s \in 0 .. Tiles - 1 PROVE Term(t, x, s) = Loaded(t, x[2], s)
      <4>1. Base(x) = x
        BY <2>1 DEF Base, IsArg
      <4> QED BY <2>1, <4>1 DEF Term
    <3> QED BY <2>2, <3>1 DEF Makes
  <2> HIDE DEF D, P, m, x, c
  <2>7. \A v \in P[i] : \/ v \in P[i - 1] /\ reg[v] # m.writes
                        \/ reg[v] = m.writes /\ Makes(t, reg, P[i - 1], m, v)
    BY <2>2, <2>3, <2>5, <2>6
  <2> QED BY <2>1, <2>2, <2>3, <2>4, <2>7 DEF Leads
<1>10. P[0] \subseteq A
  BY <1>6
<1> HIDE DEF P, A, D, c, n
<1>11. Annotates(t, reg, final, P, c)
  BY <1>3, <1>9 DEF Annotates
<1>12. Flows(t, reg, final, A, c, D)
  BY <1>3, <1>8, <1>10, <1>11 DEF Flows
<1> QED BY <1>12 DEF A, D, c

\* The operands of an operation are there when it runs.
LEMMA OperandsThere ==
  ASSUME NEW ops \in Seq(Ops(Held)), Single(ops), NEW k \in 1 .. Len(ops),
         ops[k].op # "copy_tile", ~CBInput(ops[k]), NEW i \in 1 .. Len(ops[k].in)
  PROVE  ops[k].in[i] \in During(ops, k) /\ Needs(ops, k, ops[k].in[i])
<1> DEFINE v == ops[k].in[i]
<1>1. Needs(ops, k, v)
  <2>1. Operands(ops[k]) = ops[k].in
    BY DEF Operands
  <2> QED BY <2>1 DEF Needs, Contains
<1>2. Len(ops) \in Nat
  BY UsesIs
<1>3. Wants(ops, v, k)
  <2>1. k \in k .. Len(ops)
    BY <1>2
  <2> QED BY <1>1, <2>1 DEF Wants
<1>4. Made(ops, v, k - 1) \/ Met1(ops, v, k)
  <2>1. IsArg(v) \/ \E j \in 1 .. k - 1 : ops[j].out = v
    BY <1>1 DEF Single
  <2>2. k \in 1 .. k
    BY <1>2
  <2> QED BY <1>1, <2>1, <2>2 DEF Made, Met1
<1>5. v \in Values(ops)
  BY <1>1, NeedsIs
<1> QED BY <1>1, <1>3, <1>4, <1>5 DEF During

\* What is needed after an operation is its result, or was there before.
LEMMA AfterIs ==
  ASSUME NEW ops \in Seq(Ops(Held)), Single(ops), NEW k \in 1 .. Len(ops), NEW v \in After(ops, k)
  PROVE  v = ops[k].out \/ v \in During(ops, k)
<1>1. SUFFICES ASSUME v # ops[k].out PROVE v \in During(ops, k)
  OBVIOUS
<1>2. Len(ops) \in Nat
  BY UsesIs
<1>3. v \in Values(ops) /\ (Made(ops, v, k) \/ Met1(ops, v, k)) /\ Wants(ops, v, k + 1)
  BY DEF After
<1>4. Wants(ops, v, k)
  <2>1. PICK j \in k + 1 .. Len(ops) : Needs(ops, j, v)
    BY <1>3 DEF Wants
  <2>2. j \in k .. Len(ops)
    BY <1>2
  <2> QED BY <2>1, <2>2 DEF Wants
<1>5. Made(ops, v, k) => Made(ops, v, k - 1)
  <2>1. SUFFICES ASSUME NEW d \in 1 .. k, ops[d].out = v PROVE d \in 1 .. k - 1
    BY DEF Made
  <2>2. d # k
    BY <1>1, <2>1
  <2> QED BY <1>2, <2>2
<1> QED BY <1>3, <1>4, <1>5 DEF During

\* An instruction that puts the result of an operation into its register.
LEMMA ResultFlow ==
  ASSUME NEW t, NEW ops, NEW reg, NEW final, Compiled(t, ops, reg, final),
         NEW k \in 1 .. Len(ops), ops[k].out # NoValue,
         NEW m, m.thread = "MATH", m.writes = reg[ops[k].out],
         Makes(t, reg, During(ops, k), m, ops[k].out)
  PROVE  Flows(t, reg, final, During(ops, k), <<m>>, After(ops, k))
<1>1. ops \in Seq(Ops(Held)) /\ Single(ops) /\ Assigned(ops, reg)
  BY DEF Compiled
<1>2. After(ops, k) \subseteq DOMAIN reg
  BY <1>1 DEF After, Assigned
<1>3. ASSUME NEW v \in After(ops, k)
      PROVE  \/ v \in During(ops, k) /\ reg[v] # m.writes
             \/ reg[v] = m.writes /\ Makes(t, reg, During(ops, k), m, v)
  <2>1. CASE v = ops[k].out
    BY <2>1
  <2>2. CASE v # ops[k].out
    <3>1. v \in During(ops, k)
      BY <1>1, <2>2, AfterIs
    <3>2. reg[v] # reg[ops[k].out]
      BY <1>1, <2>2, ResultApart
    <3> QED BY <3>1, <3>2
  <2> QED BY <2>1, <2>2
<1>4. Leads(t, reg, final, During(ops, k), m, After(ops, k))
  BY <1>2, <1>3 DEF Leads
<1> QED BY <1>4, FlowsOne

\* An operation leaves its result and what is needed later.
LEMMA LowerFlow ==
  ASSUME NEW t, NEW ops, NEW reg, NEW final, Compiled(t, ops, reg, final),
         NEW k \in 1 .. Len(ops)
  PROVE  Flows(t, reg, final, During(ops, k), Lower(ops, k, reg), After(ops, k))
<1> DEFINE o == ops[k]
           D == During(ops, k)
           F == After(ops, k)
           l == Lower(ops, k, reg)
<1>1. ops \in Seq(Ops(Held)) /\ Single(ops) /\ Assigned(ops, reg) /\ SoundOp(t, o, final)
  BY DEF Compiled
<1>2. o.out = NoValue => F \subseteq D /\ F \subseteq DOMAIN reg
  <2>1. F \subseteq DOMAIN reg
    BY <1>1 DEF After, Assigned
  <2>2. \A v \in F : v # NoValue
    BY DEF After, Values
  <2> QED BY <1>1, <2>1, <2>2, AfterIs
<1>3. CASE o.op \in {"constant", "yield"} /\ o.out = NoValue
  <2>1. l = << >>
    BY <1>3, LowerTo
  <2> QED BY <1>2, <1>3, <2>1, FlowsNone
<1>4. CASE o.op = "tile_store" /\ o.in = <<final>> /\ o.out = NoValue
  <2> DEFINE m == PackOf(ops, k, reg)
  <2>1. l = <<m>>
    BY <1>4, LowerTo
  <2>2. Len(o.in) = 1 /\ o.in[1] = final /\ 1 \in 1 .. Len(o.in)
    BY <1>4
  <2>3. m.thread = "PACK" /\ m.reads = reg[final]
    <3>1. From(o, reg)[1] = reg[final]
      BY <2>2 DEF From
    <3> QED BY <3>1 DEF PackOf, Instr
  <2>4. final \in D
    <3>1. o.op # "copy_tile" /\ ~CBInput(o)
      BY <1>4 DEF CBInput
    <3> QED BY <1>1, <2>2, <3>1, OperandsThere
  <2> HIDE DEF m
  <2>5. Leads(t, reg, final, D, m, F)
    BY <1>2, <1>4, <2>3, <2>4 DEF Leads
  <2> QED BY <2>1, <2>5, FlowsOne
<1>5. CASE o.op \in Operators \union {"copy_tile"} /\ o.out # NoValue /\ Means(t, o)
           /\ Len(o.in) = (IF o.op \in Binary \union MinMax THEN 2 ELSE 1)
  <2>1. CASE o.op = "copy_tile"
    <3> DEFINE m == Unpack(o.in[1][2], reg[o.out])
    <3>1. l = <<m>>
      BY <2>1, LowerTo
    <3>2. m.thread = "MATH" /\ m.do = "unpack" /\ m.reads = o.in[1][2] /\ m.writes = reg[o.out]
      BY DEF Unpack, Instr
    <3> HIDE DEF m
    <3>3. Makes(t, reg, D, m, o.out)
      BY <1>5, <2>1, <3>2 DEF Makes, Means
    <3> QED BY <1>5, <3>1, <3>2, <3>3, ResultFlow
  <2>2. CASE CBInput(o)
    <3> DEFINE m == Instr("MATH", "bcast", o.op, o.in[1][2], reg[o.out])
    <3>1. l = <<m>>
      BY <2>2, LowerTo
    <3>2. m.thread = "MATH" /\ m.do = "bcast" /\ m.op = o.op /\ m.reads = o.in[1][2] /\ m.writes = reg[o.out]
      BY DEF Instr
    <3> HIDE DEF m
    <3>3. Makes(t, reg, D, m, o.out)
      BY <1>5, <2>2, <3>2 DEF Makes, Means
    <3> QED BY <1>5, <3>1, <3>2, <3>3, ResultFlow
  <2>3. ASSUME o.op \in Elementwises, NEW m, m.thread = "MATH", m.do = "compute", m.op = o.op,
               m.writes = reg[o.out], Len(m.reads) = Len(o.in),
               \A i \in 1 .. Len(o.in) : m.reads[i] = reg[o.in[i]]
        PROVE  Flows(t, reg, final, D, <<m>>, F)
    <3>1. o.op # "copy_tile" /\ ~CBInput(o)
      BY <2>3, OperatorsAssumption DEF Elementwises, CBInput
    <3>2. \A i \in 1 .. Len(m.reads) : o.in[i] \in D /\ reg[o.in[i]] = m.reads[i]
      BY <1>1, <2>3, <3>1, OperandsThere
    <3>3. ASSUME NEW s \in 0 .. Tiles - 1
          PROVE  Term(t, o.out, s) = <<m.op>> \o [j \in 1 .. Len(m.reads) |-> Term(t, o.in[j], s)]
      <4>1. Term(t, o.out, s) = <<o.op>> \o [j \in 1 .. Len(o.in) |-> Term(t, o.in[j], s)]
        BY <1>5, <2>3, Zenon DEF Means
      <4> HIDE DEF o
      <4> QED BY <2>3, <4>1
    <3> DEFINE in == o.in
               R(f) == \A s \in 0 .. Tiles - 1 :
                         Term(t, o.out, s) = <<m.op>> \o [j \in 1 .. Len(m.reads) |-> Term(t, f[j], s)]
    <3>4. R(in)
      BY <3>3
    <3>5. \E f : (\A j \in 1 .. Len(m.reads) : f[j] \in D /\ reg[f[j]] = m.reads[j]) /\ R(f)
      <4> HIDE DEF D, R
      <4> WITNESS in
      <4> QED BY <3>2, <3>4
    <3>6. Makes(t, reg, D, m, o.out)
      <4>1. m.do # "unpack" /\ m.do # "bcast"
        BY <2>3
      <4> HIDE DEF o, D
      <4> QED BY <3>5, <4>1, Zenon DEF Makes, R
    <3> QED BY <1>5, <2>3, <3>6, ResultFlow
  <2>4. CASE o.op \in Unary
    <3> DEFINE r == <<reg[o.out]>>
               m == Instr("MATH", "compute", o.op, r, reg[o.out])
    <3>1. l = <<m>>
      BY <2>4, LowerTo
    <3>2. m.thread = "MATH" /\ m.do = "compute" /\ m.op = o.op /\ m.reads = r /\ m.writes = reg[o.out]
      BY DEF Instr
    <3>3. reg[o.in[1]] = reg[o.out]
      BY <2>4 DEF Compiled, Placed, IsUnary
    <3>4. Len(r) = 1 /\ r[1] = reg[o.out] /\ Len(o.in) = 1
      BY <1>5, <2>4, OperatorsAssumption
    <3> HIDE DEF m, r
    <3>5. \A i \in 1 .. Len(o.in) : m.reads[i] = reg[o.in[i]]
      <4>1. \A i \in 1 .. 1 : i = 1
        OBVIOUS
      <4> QED BY <3>2, <3>3, <3>4, <4>1
    <3>6. o.op \in Elementwises
      BY <2>4 DEF Elementwises
    <3>7. Flows(t, reg, final, D, <<m>>, F)
      BY <2>3, <3>2, <3>4, <3>5, <3>6
    <3> QED BY <3>1, <3>7
  <2>5. CASE o.op \in Binary \union MinMax
    <3> DEFINE r == From(o, reg)
               w == IF o.op \in Binary THEN reg[o.out] ELSE From(o, reg)[1]
               m == Instr("MATH", "compute", o.op, r, w)
    <3>1. l = <<m>>
      BY <2>5, LowerTo, OperatorsAssumption
    <3>2. m.thread = "MATH" /\ m.do = "compute" /\ m.op = o.op /\ m.reads = r /\ m.writes = w
      BY DEF Instr
    <3>3. Len(o.in) = 2
      BY <1>5, <2>5
    <3>4. Len(r) = 2 /\ \A i \in 1 .. 2 : r[i] = reg[o.in[i]]
      BY <3>3 DEF From
    <3>5. w = reg[o.out]
      <4>1. CASE o.op \in Binary
        BY <4>1
      <4>2. CASE o.op \notin Binary
        <5>1. o.op \in MinMax
          BY <2>5, <4>2
        <5>2. reg[o.in[1]] = reg[o.out]
          BY <5>1 DEF Compiled, Placed
        <5>3. 1 \in 1 .. 2
          OBVIOUS
        <5> QED BY <3>4, <4>2, <5>2, <5>3
      <4> QED BY <4>1, <4>2
    <3>6. o.op \in Elementwises
      BY <2>5 DEF Elementwises
    <3> HIDE DEF m, r, w
    <3>7. Flows(t, reg, final, D, <<m>>, F)
      BY <2>3, <3>2, <3>3, <3>4, <3>5, <3>6
    <3> QED BY <3>1, <3>7
  <2> QED BY <1>5, <2>1, <2>2, <2>4, <2>5 DEF Operators, CBInput
<1> QED BY <1>1, <1>3, <1>4, <1>5 DEF SoundOp

\* The instructions of the operations are instructions.
LEMMA BlocksIn ==
  ASSUME NEW ops \in Seq(Ops(Held)), NEW reg, NEW k \in 1 .. Len(ops)
  PROVE  LET S == UNION {ToSet(LoadCode(ops, j, reg)) \union ToSet(Lower(ops, j, reg)) : j \in 1 .. Len(ops)}
         IN LoadCode(ops, k, reg) \in Seq(S) /\ Lower(ops, k, reg) \in Seq(S)
<1> DEFINE n == Len(ops)
           S == UNION {ToSet(LoadCode(ops, j, reg)) \union ToSet(Lower(ops, j, reg)) : j \in 1 .. n}
           x == LoadCode(ops, k, reg)
           y == Lower(ops, k, reg)
           X == ToSet(x)
           Y == ToSet(y)
<1>1. X \subseteq S /\ Y \subseteq S
  OBVIOUS
<1>2. x \in Seq(X)
  <2> DEFINE m == Len(Loads(ops, k))
  <2>1. m \in Nat
    <3>1. Loads(ops, k) \in Seq(Held)
      BY LoadsAre
    <3> QED BY <3>1
  <2> HIDE DEF m
  <2>2. x = [i \in 1 .. m |-> Unpack(Loads(ops, k)[i][2], reg[Loads(ops, k)[i]])]
    BY Zenon DEF LoadCode, m
  <2>3. DOMAIN x = 1 .. m /\ x = [i \in 1 .. m |-> x[i]]
    BY <2>2
  <2> HIDE DEF x
  <2>4. \A i \in 1 .. m : x[i] \in X
    BY <2>3 DEF ToSet
  <2> HIDE DEF X
  <2>5. x \in [1 .. m -> X]
    BY <2>3, <2>4
  <2> QED BY <2>1, <2>5
<1>3. y \in Seq(Y)
  <2>1. ops[k].op \in Names
    <3> DEFINE O == Ops(Held)
    <3>1. ops \in Seq(O)
      OBVIOUS
    <3> HIDE DEF O
    <3>2. ops[k] \in O
      BY <3>1
    <3> QED BY <3>2 DEF O, Ops
  <2> QED BY <2>1, LowerIs
<1> HIDE DEF X, Y, S, x, y
<1>4. x \in Seq(S) /\ y \in Seq(S)
  BY <1>1, <1>2, <1>3
<1> QED BY <1>4 DEF x, y, S

\* How many instructions an operation has.
LEMMA BlockLength ==
  ASSUME NEW ops \in Seq(Ops(Held)), NEW reg, NEW k \in 1 .. Len(ops)
  PROVE  Len(LoadCode(ops, k, reg) \o Lower(ops, k, reg)) = Len(Loads(ops, k)) + Len(Lower(ops, k, reg))
<1> DEFINE S == UNION {ToSet(LoadCode(ops, j, reg)) \union ToSet(Lower(ops, j, reg)) : j \in 1 .. Len(ops)}
           x == LoadCode(ops, k, reg)
           y == Lower(ops, k, reg)
           m == Len(Loads(ops, k))
<1>1. x \in Seq(S) /\ y \in Seq(S)
  BY BlocksIn
<1>2. Len(x) = m
  <2>1. Loads(ops, k) \in Seq(Held)
    BY LoadsAre
  <2>2. m \in Nat
    BY <2>1
  <2> HIDE DEF m
  <2>3. x = [z \in 1 .. m |-> Unpack(Loads(ops, k)[z][2], reg[Loads(ops, k)[z]])]
    BY Zenon DEF LoadCode, m
  <2> HIDE DEF x
  <2> QED BY <2>2, <2>3
<1> HIDE DEF S, x, y
<1>3. Len(x \o y) = Len(x) + Len(y)
  BY <1>1, ConcatParts
<1> QED BY <1>2, <1>3 DEF x, y

\* The code of an operation, and of the whole body.
LEMMA BodyFlow ==
  ASSUME NEW t, NEW ops, NEW reg, NEW final, Compiled(t, ops, reg, final)
  PROVE  Flows(t, reg, final, {}, LowerAll(ops, reg), {})
<1> DEFINE n == Len(ops)
           block(k) == LoadCode(ops, k, reg) \o Lower(ops, k, reg)
           ss == [k \in 1 .. n |-> block(k)]
           S == UNION {ToSet(LoadCode(ops, k, reg)) \union ToSet(Lower(ops, k, reg)) : k \in 1 .. n}
           A == [k \in 0 .. n |-> After(ops, k)]
<1>1. ops \in Seq(Ops(Held)) /\ n \in Nat
  BY UsesIs DEF Compiled
<1>2. LowerAll(ops, reg) = FlattenSeq(ss)
  BY Zenon DEF LowerAll, LoadCode
<1>3. \A k \in 1 .. n : LoadCode(ops, k, reg) \in Seq(S) /\ Lower(ops, k, reg) \in Seq(S)
  BY <1>1, BlocksIn
<1> HIDE DEF S
<1>4. ss \in Seq(Seq(S)) /\ Len(ss) = n
  <2> DEFINE Q == Seq(S)
  <2>1. \A k \in 1 .. n : block(k) \in Q
    BY <1>3
  <2> HIDE DEF Q, block
  <2>2. ss \in [1 .. n -> Q]
    BY <2>1
  <2> HIDE DEF ss, n
  <2>3. ss \in Seq(Q) /\ Len(ss) = n
    BY <1>1, <2>2
  <2> QED BY <2>3 DEF Q
<1>5. ASSUME NEW k \in 1 .. n PROVE Flows(t, reg, final, A[k - 1], ss[k], A[k])
  <2>1. Flows(t, reg, final, After(ops, k - 1), LoadCode(ops, k, reg), During(ops, k))
    BY LoadsFlow
  <2>2. Flows(t, reg, final, During(ops, k), Lower(ops, k, reg), After(ops, k))
    BY LowerFlow
  <2>3. Flows(t, reg, final, After(ops, k - 1), block(k), After(ops, k))
    BY <1>3, <2>1, <2>2, FlowsJoin
  <2>4. A[k - 1] = After(ops, k - 1) /\ A[k] = After(ops, k) /\ ss[k] = block(k)
    <3>1. k \in 0 .. n /\ k - 1 \in 0 .. n
      BY <1>1
    <3> HIDE DEF block, n
    <3> QED BY <3>1
  <2> QED BY <2>3, <2>4
<1>6. A[0] = {}
  <2>1. 0 \in 0 .. n
    BY <1>1
  <2>2. After(ops, 0) = {}
    BY DEF After, Made, Met1
  <2> QED BY <2>1, <2>2
<1>7. A[n] = {}
  <2>1. n \in 0 .. n
    BY <1>1
  <2>2. After(ops, n) = {}
    <3>1. \A j \in n + 1 .. n : FALSE
      BY <1>1
    <3>2. \A v : ~Wants(ops, v, n + 1)
      BY <3>1 DEF Wants
    <3> QED BY <3>2 DEF After
  <2> QED BY <2>1, <2>2
<1> HIDE DEF A, ss, n
<1>8. Flows(t, reg, final, A[0], FlattenSeq(ss), A[Len(ss)])
  BY <1>4, <1>5, FlowsAll
<1> QED BY <1>2, <1>4, <1>6, <1>7, <1>8

-----------------------------------------------------------------------------
(* The code of the two threads.                                            *)

\* A flattened sequence has its parts one after another.
LEMMA LayoutGrows ==
  ASSUME NEW off, NEW S, NEW ss \in Seq(Seq(S)), NEW flat, Layout(off, ss, flat),
         NEW i \in 1 .. Len(ss) + 1, NEW j \in 1 .. Len(ss) + 1, i <= j
  PROVE  off[i] <= off[j] /\ off[i] \in Nat /\ off[j] \in Nat
<1> DEFINE n == Len(ss)
           K == {d \in Nat : i + d <= n + 1 => off[i] <= off[i + d]}
<1>1. n \in Nat /\ \A k \in 1 .. n : Len(ss[k]) \in Nat
  <2> DEFINE Q == Seq(S)
  <2>1. ss \in Seq(Q) /\ \A q \in Q : Len(q) \in Nat
    OBVIOUS
  <2> HIDE DEF Q
  <2> QED BY <2>1
<1> HIDE DEF n
<1>2. (\A k \in 1 .. n + 1 : off[k] \in Nat) /\ \A k \in 1 .. n : off[k + 1] = off[k] + Len(ss[k])
  BY DEF Layout, n
<1>3. i \in 1 .. n + 1 /\ j \in 1 .. n + 1
  BY DEF n
<1>4. 0 \in K
  BY <1>1, <1>2, <1>3
<1>5. ASSUME NEW d \in Nat, d \in K PROVE d + 1 \in K
  <2>1. SUFFICES ASSUME i + (d + 1) <= n + 1 PROVE off[i] <= off[i + (d + 1)]
    OBVIOUS
  <2>2. i + d \in 1 .. n /\ i + d \in 1 .. n + 1 /\ i + (d + 1) = (i + d) + 1 /\ i + d <= n + 1
    BY <1>1, <1>3, <2>1
  <2>3. off[i] <= off[i + d]
    BY <1>5, <2>2
  <2>4. off[(i + d) + 1] = off[i + d] + Len(ss[i + d])
    BY <1>2, <2>2
  <2>5. off[i] \in Nat /\ off[i + d] \in Nat /\ Len(ss[i + d]) \in Nat
    BY <1>1, <1>2, <1>3, <2>2
  <2> QED BY <2>2, <2>3, <2>4, <2>5
<1> HIDE DEF K
<1>6. j - i \in K
  <2>1. j - i \in Nat
    BY <1>1, <1>3
  <2> QED BY <1>4, <1>5, <2>1, NumberInduction
<1>7. i + (j - i) = j /\ j <= n + 1
  BY <1>1, <1>3
<1> QED BY <1>2, <1>3, <1>6, <1>7 DEF K

\* An element of a flattened sequence is one of a sequence in it.
FlatIn(off, ss, flat, p) ==
  \E k \in 1 .. Len(ss) : \E x \in 1 .. Len(ss[k]) :
    p = off[k] + x /\ flat[p] = ss[k][x] /\ off[k + 1] = off[k] + Len(ss[k])

\* Every place in it is in one of the parts.
LEMMA FlatAt ==
  ASSUME NEW off, NEW ss, NEW flat, Layout(off, ss, flat), NEW p \in 1 .. Len(flat)
  PROVE  FlatIn(off, ss, flat, p)
<1>1. PICK k \in 1 .. Len(ss) : \E x \in 1 .. Len(ss[k]) : p = off[k] + x
  BY DEF Layout
<1>2. PICK x \in 1 .. Len(ss[k]) : p = off[k] + x
  BY <1>1
<1> QED BY <1>2 DEF Layout, FlatIn

\* Nothing but stores and the yield comes after a store.
Ends(ops) ==
  \A j, k \in 1 .. Len(ops) : j < k /\ ops[j].op = "tile_store" => ops[k].op \in {"tile_store", "yield"}

\* Nothing but packs comes after a pack, and every pack stores final.
LEMMA PacksLast ==
  ASSUME NEW t, NEW ops, NEW reg, NEW final, Compiled(t, ops, reg, final), Ends(ops),
         NEW i \in 1 .. Len(LowerAll(ops, reg)), NEW j \in 1 .. Len(LowerAll(ops, reg)), i < j,
         LowerAll(ops, reg)[i].thread = "PACK"
  PROVE  LowerAll(ops, reg)[j].thread = "PACK"
<1> DEFINE n == Len(ops)
           block(k) == LoadCode(ops, k, reg) \o Lower(ops, k, reg)
           ss == [k \in 1 .. n |-> block(k)]
           S == UNION {ToSet(LoadCode(ops, k, reg)) \union ToSet(Lower(ops, k, reg)) : k \in 1 .. n}
           flat == LowerAll(ops, reg)
<1>1. ops \in Seq(Ops(Held)) /\ n \in Nat /\ Single(ops)
  BY UsesIs DEF Compiled
<1>2. flat = FlattenSeq(ss)
  BY Zenon DEF LowerAll, LoadCode
<1>3. ASSUME NEW k \in 1 .. n
      PROVE  LoadCode(ops, k, reg) \in Seq(S) /\ Lower(ops, k, reg) \in Seq(S)
  BY <1>1, BlocksIn
<1> HIDE DEF S
<1>4. ss \in Seq(Seq(S)) /\ Len(ss) = n
  <2> DEFINE Q == Seq(S)
  <2>1. \A k \in 1 .. n : block(k) \in Q
    BY <1>3
  <2> HIDE DEF Q, block
  <2>2. ss \in [1 .. n -> Q]
    BY <2>1
  <2> HIDE DEF ss, n
  <2>3. ss \in Seq(Q) /\ Len(ss) = n
    BY <1>1, <2>2
  <2> QED BY <2>3 DEF Q
<1>5. \A k \in 1 .. n : ss[k] = block(k)
  <2> HIDE DEF block
  <2> QED OBVIOUS
<1> HIDE DEF ss, flat
<1>6. PICK off : Layout(off, ss, flat)
  BY <1>2, <1>4, FlattenLayout
\* Where the instructions of an operation are.
<1>7. ASSUME NEW k \in 1 .. n, NEW p \in 1 .. Len(block(k))
      PROVE  \/ p <= Len(Loads(ops, k)) /\ block(k)[p].thread = "MATH"
             \/ p > Len(Loads(ops, k)) /\ \E q \in 1 .. Len(Lower(ops, k, reg)) :
                  p = Len(Loads(ops, k)) + q /\ block(k)[p] = Lower(ops, k, reg)[q]
  <2> DEFINE x == LoadCode(ops, k, reg)
             y == Lower(ops, k, reg)
             m == Len(Loads(ops, k))
  <2>1. m \in Nat
    <3>1. Loads(ops, k) \in Seq(Held)
      BY <1>1, LoadsAre
    <3> QED BY <3>1
  <2>2. Len(x) = m /\ \A z \in 1 .. m : x[z].thread = "MATH"
    <3> HIDE DEF m
    <3>1. x = [z \in 1 .. m |-> Unpack(Loads(ops, k)[z][2], reg[Loads(ops, k)[z]])]
      BY Zenon DEF LoadCode, m
    <3>2. \A a, b : Unpack(a, b).thread = "MATH"
      BY DEF Unpack, Instr
    <3> HIDE DEF x
    <3> QED BY <2>1, <3>1, <3>2
  <2>3. x \in Seq(S) /\ y \in Seq(S) /\ Joins(x, y, x \o y) /\ Len(y) \in Nat
    BY <1>3, JoinIs
  <2> DEFINE z == x \o y
  <2>4. block(k) = z
    OBVIOUS
  <2> HIDE DEF z, x, y, m, block
  <2>5. Len(z) = m + Len(y) /\ (\A a \in 1 .. m : z[a] = x[a]) /\ \A b \in 1 .. Len(y) : z[m + b] = y[b]
    BY <2>2, <2>3 DEF Joins, z
  <2>6. CASE p <= m
    <3>1. p \in 1 .. m
      BY <2>1, <2>6
    <3> QED BY <2>2, <2>4, <2>5, <3>1 DEF m
  <2>7. CASE p > m
    <3>1. p - m \in 1 .. Len(y) /\ m + (p - m) = p
      BY <2>1, <2>3, <2>4, <2>5, <2>7
    <3>2. block(k)[p] = y[p - m]
      BY <2>4, <2>5, <3>1
    <3> QED BY <2>7, <3>1, <3>2 DEF y, m
  <2>8. p \in Nat
    OBVIOUS
  <2> QED BY <2>1, <2>6, <2>7, <2>8
<1>8. ASSUME NEW k \in 1 .. n
      PROVE  /\ ops[k].op = "tile_store" => Len(Lower(ops, k, reg)) = 1
                                            /\ Lower(ops, k, reg)[1].thread = "PACK"
             /\ ops[k].op = "yield" => Len(Lower(ops, k, reg)) = 0
             /\ ops[k].op # "tile_store" =>
                  \A q \in 1 .. Len(Lower(ops, k, reg)) : Lower(ops, k, reg)[q].thread # "PACK"
  <2> DEFINE o == ops[k]
             y == Lower(ops, k, reg)
  <2>1. \A a, b, c : Instr("MATH", "bcast", a, b, c).thread # "PACK"
                     /\ Instr("MATH", "compute", a, b, c).thread # "PACK"
                     /\ Unpack(a, b).thread # "PACK"
    BY DEF Instr, Unpack
  <2>2. PackOf(ops, k, reg).thread = "PACK"
    BY DEF PackOf, Instr
  <2>3. \A x : Len(<<x>>) = 1 /\ <<x>>[1] = x /\ \A q \in 1 .. Len(<<x>>) : <<x>>[q] = x
    OBVIOUS
  <2>4. Len(<< >>) = 0
    OBVIOUS
  <2>5. CASE o.op = "tile_store"
    <3>1. y = <<PackOf(ops, k, reg)>>
      BY <2>5, LowerTo
    <3> HIDE DEF y
    <3> QED BY <2>2, <2>3, <2>5, <3>1 DEF y
  <2>6. CASE o.op \in {"constant", "yield"}
    <3>1. y = << >>
      BY <2>6, LowerTo
    <3> HIDE DEF y
    <3> QED BY <2>4, <2>6, <3>1 DEF y
  <2>7. CASE o.op \notin {"constant", "yield", "tile_store"}
    <3>1. o.op \in Operators \union {"copy_tile"}
      BY <2>7 DEF Compiled, SoundOp
    <3>2. \E x : y = <<x>> /\ x.thread # "PACK"
      <4>1. CASE o.op = "copy_tile"
        <5>1. y = <<Unpack(o.in[1][2], reg[o.out])>>
          BY <4>1, LowerTo
        <5> HIDE DEF y
        <5> QED BY <2>1, <5>1
      <4>2. CASE CBInput(o)
        <5>1. y = <<Instr("MATH", "bcast", o.op, o.in[1][2], reg[o.out])>>
          BY <4>2, LowerTo
        <5> HIDE DEF y
        <5> QED BY <2>1, <5>1
      <4>3. CASE o.op \in Unary
        <5>1. y = <<Instr("MATH", "compute", o.op, <<reg[o.out]>>, reg[o.out])>>
          BY <4>3, LowerTo
        <5> HIDE DEF y
        <5> QED BY <2>1, <5>1
      <4>4. CASE o.op \in Binary
        <5>1. y = <<Instr("MATH", "compute", o.op, From(o, reg), reg[o.out])>>
          BY <4>4, LowerTo
        <5> HIDE DEF y
        <5> QED BY <2>1, <5>1
      <4>5. CASE o.op \in MinMax
        <5>1. y = <<Instr("MATH", "compute", o.op, From(o, reg), From(o, reg)[1])>>
          BY <4>5, LowerTo
        <5> HIDE DEF y
        <5> QED BY <2>1, <5>1
      <4> QED BY <3>1, <4>1, <4>2, <4>3, <4>4, <4>5 DEF Operators, CBInput
    <3> HIDE DEF y
    <3> QED BY <2>3, <2>7, <3>2 DEF y
  <2> QED BY <2>5, <2>6, <2>7
<1>9. \A p \in 1 .. Len(flat) : \E k \in 1 .. n : \E x \in 1 .. Len(block(k)) :
        p = off[k] + x /\ flat[p] = block(k)[x] /\ off[k + 1] = off[k] + Len(block(k))
  <2> SUFFICES ASSUME NEW p \in 1 .. Len(flat)
               PROVE  \E k \in 1 .. n : \E x \in 1 .. Len(block(k)) :
                        p = off[k] + x /\ flat[p] = block(k)[x] /\ off[k + 1] = off[k] + Len(block(k))
    OBVIOUS
  <2>a. FlatIn(off, ss, flat, p)
    BY <1>4, <1>6, FlatAt
  <2>1. PICK k \in 1 .. Len(ss) : \E x \in 1 .. Len(ss[k]) :
          p = off[k] + x /\ flat[p] = ss[k][x] /\ off[k + 1] = off[k] + Len(ss[k])
    BY <2>a, Zenon DEF FlatIn
  <2>2. k \in 1 .. n /\ ss[k] = block(k)
    BY <1>4, <1>5, <2>1
  <2> HIDE DEF block
  <2> QED BY <2>1, <2>2
<1>10. PICK a \in 1 .. n : \E x \in 1 .. Len(block(a)) :
         i = off[a] + x /\ flat[i] = block(a)[x] /\ off[a + 1] = off[a] + Len(block(a))
  BY <1>9 DEF flat
<1>11. PICK x \in 1 .. Len(block(a)) :
         i = off[a] + x /\ flat[i] = block(a)[x] /\ off[a + 1] = off[a] + Len(block(a))
  BY <1>10
<1>12. PICK b \in 1 .. n : \E y \in 1 .. Len(block(b)) :
         j = off[b] + y /\ flat[j] = block(b)[y] /\ off[b + 1] = off[b] + Len(block(b))
  BY <1>9 DEF flat
<1>13. PICK y \in 1 .. Len(block(b)) :
         j = off[b] + y /\ flat[j] = block(b)[y] /\ off[b + 1] = off[b] + Len(block(b))
  BY <1>12
<1>14. ops[a].op = "tile_store" /\ x = Len(block(a))
  <2>1. flat[i].thread = "PACK"
    BY DEF flat
  <2>2. PICK q \in 1 .. Len(Lower(ops, a, reg)) :
          x = Len(Loads(ops, a)) + q /\ block(a)[x] = Lower(ops, a, reg)[q]
    <3> HIDE DEF block
    <3> QED BY <1>7, <1>11, <2>1
  <2>3. ops[a].op = "tile_store"
    <3> HIDE DEF block
    <3> QED BY <1>8, <1>11, <2>1, <2>2
  <2>4. q = 1 /\ Len(Lower(ops, a, reg)) = 1
    BY <1>8, <2>2, <2>3, SMTT(30)
  <2>5. Len(block(a)) = Len(Loads(ops, a)) + Len(Lower(ops, a, reg))
    BY <1>1, BlockLength
  <2> QED BY <2>2, <2>3, <2>4, <2>5
<1>15. a < b
  <2>1. SUFFICES ASSUME b <= a PROVE FALSE
    BY <1>1
  <2>2. off[a] \in Nat /\ off[b] \in Nat /\ Len(block(a)) \in Nat /\ Len(block(b)) \in Nat
    <3>1. a \in 1 .. Len(ss) + 1 /\ b \in 1 .. Len(ss) + 1
      BY <1>1, <1>4
    <3>2. \A k \in 1 .. n : Len(block(k)) \in Nat
      <4> DEFINE Q == Seq(S)
      <4>1. \A q \in Q : Len(q) \in Nat
        OBVIOUS
      <4>2. \A k \in 1 .. n : block(k) \in Q
        BY <1>3
      <4> HIDE DEF Q, block
      <4> QED BY <4>1, <4>2
    <3> HIDE DEF block
    <3> QED BY <1>6, <3>1, <3>2 DEF Layout
  <2>3. CASE a = b
    <3> HIDE DEF block
    <3> QED BY <1>11, <1>13, <1>14, <2>2, <2>3
  <2>4. CASE b < a
    <3>1. off[b + 1] <= off[a]
      <4>1. b + 1 \in 1 .. Len(ss) + 1 /\ a \in 1 .. Len(ss) + 1 /\ b + 1 <= a
        BY <1>1, <1>4, <2>4
      <4> QED BY <1>4, <1>6, <4>1, LayoutGrows
    <3> DEFINE p == Len(block(a))
               q == Len(block(b))
               oa == off[a]
               ob == off[b]
    <3>2. p \in Nat /\ q \in Nat /\ x \in 1 .. p /\ y \in 1 .. q /\ off[a] \in Nat /\ off[b] \in Nat
          /\ i = off[a] + x /\ j = off[b] + y /\ off[b + 1] = off[b] + q
      BY <1>11, <1>13, <2>2
    <3>3. ob + q <= oa /\ p \in Nat /\ q \in Nat /\ x \in 1 .. p /\ y \in 1 .. q /\ oa \in Nat
          /\ ob \in Nat /\ i = oa + x /\ j = ob + y
      BY <3>1, <3>2
    <3> HIDE DEF p, q, block, oa, ob
    <3> QED BY <3>3
  <2> QED BY <1>1, <2>1, <2>3, <2>4
<1>16. ops[b].op \in {"tile_store", "yield"}
  BY <1>14, <1>15 DEF Ends
<1>17. Len(Loads(ops, b)) = 0
  <2> DEFINE l == Loads(ops, b)
  <2>1. l \in Seq(Held) /\ \A v : v \in ToSet(l) => Needs(ops, b, v) /\ ~Needs(ops, a, v)
    <3>1. a \in 1 .. b - 1
      BY <1>1, <1>15
    <3> QED BY <1>1, <3>1, LoadsAre
  <2>2. \A v : Needs(ops, b, v) => v = final
    <3>1. SoundOp(t, ops[b], final)
      BY DEF Compiled
    <3>2. ops[b].in = <<final>>
      BY <1>16, <3>1, OperatorsAssumption DEF SoundOp, Operators
    <3>3. Operands(ops[b]) = <<final>>
      BY <1>16, <3>2 DEF Operands, CBInput
    <3> QED BY <3>3 DEF Needs, Contains
  <2>3. Needs(ops, a, final)
    <3>1. SoundOp(t, ops[a], final)
      BY DEF Compiled
    <3>2. ops[a].in = <<final>>
      BY <1>14, <3>1, OperatorsAssumption DEF SoundOp, Operators
    <3>3. Operands(ops[a]) = <<final>>
      BY <1>14, <3>2 DEF Operands, CBInput
    <3> QED BY <1>14, <3>3 DEF Needs, Contains
  <2>4. \A v : v \notin ToSet(l)
    BY <2>1, <2>2, <2>3
  <2> HIDE DEF l
  <2>5. Len(l) = 0
    <3>1. \A z \in 1 .. Len(l) : l[z] \in ToSet(l)
      BY <2>1 DEF ToSet
    <3> QED BY <2>1, <2>4, <3>1
  <2> QED BY <2>5 DEF l
<1>18. PICK q \in 1 .. Len(Lower(ops, b, reg)) : block(b)[y] = Lower(ops, b, reg)[q]
  <2> HIDE DEF block
  <2>1. y > 0 /\ ~(y <= Len(Loads(ops, b)))
    BY <1>17
  <2> QED BY <1>7, <2>1
<1>19. flat[j].thread = "PACK"
  <2>1. ops[b].op = "tile_store" /\ q = 1
    BY <1>8, <1>16, <1>18
  <2> HIDE DEF block
  <2> QED BY <1>8, <1>13, <1>18, <2>1
<1> QED BY <1>19 DEF flat

\* The selection of the places from b to e is that part of the sequence.
LEMMA RunSelected ==
  ASSUME NEW s, NEW b \in Nat, NEW e \in Nat, b <= e, NEW m, Len(m) \in Nat,
         NEW rank, Ranks(rank, s, b .. e, m)
  PROVE  Len(m) = e - b + 1 /\ \A i \in 1 .. e - b + 1 : m[i] = s[b + i - 1]
<1> DEFINE C == b .. e
           L == Len(m)
           K == {d \in Nat : b + d <= e => rank[b + d] = d + 1}
<1>1. /\ rank \in [C -> 1 .. L]
      /\ \A i, j \in C : i < j => rank[i] < rank[j]
      /\ \A i \in C : m[rank[i]] = s[i]
      /\ \A p \in 1 .. L : \E i \in C : rank[i] = p
      /\ L \in Nat
  BY DEF Ranks
<1> HIDE DEF L
<1>2. \A i \in C : rank[i] \in 1 .. L /\ i \in Nat /\ b <= i /\ i <= e
  BY <1>1
<1>3. b \in C /\ e \in C
  OBVIOUS
<1>4. 0 \in K
  <2>1. rank[b] = 1
    <3>1. 1 \in 1 .. L
      BY <1>1, <1>2, <1>3
    <3>2. PICK i \in C : rank[i] = 1
      BY <1>1, <3>1
    <3>3. b < i => rank[b] < 1
      BY <1>1, <1>3, <3>2
    <3> QED BY <1>2, <1>3, <3>2, <3>3
  <2> QED BY <2>1
<1>5. ASSUME NEW d \in Nat, d \in K PROVE d + 1 \in K
  <2>1. SUFFICES ASSUME b + (d + 1) <= e PROVE rank[b + (d + 1)] = (d + 1) + 1
    OBVIOUS
  <2> DEFINE x == b + d
             y == b + (d + 1)
  <2>2. x \in C /\ y \in C /\ x < y /\ rank[x] = d + 1 /\ y = x + 1
    BY <1>5, <2>1
  <2> HIDE DEF C, K, x, y
  <2>3. rank[x] < rank[y] /\ rank[y] \in 1 .. L
    BY <1>1, <1>2, <2>2
  <2>4. d + 2 \in 1 .. L
    BY <1>1, <2>2, <2>3
  <2>5. PICK i \in C : rank[i] = d + 2
    BY <1>1, <2>4
  <2>6. ~(i < x) /\ i # x
    <3>1. i < x => rank[i] < rank[x]
      BY <1>1, <2>2, <2>5
    <3> QED BY <2>2, <2>5, <3>1
  <2>7. ~(y < i)
    <3>1. y < i => rank[y] < rank[i]
      BY <1>1, <2>2, <2>5
    <3> QED BY <2>2, <2>3, <2>5, <3>1
  <2>8. i = y
    BY <1>2, <2>2, <2>5, <2>6, <2>7
  <2> QED BY <2>5, <2>8 DEF y
<1> HIDE DEF K
<1>6. Nat \subseteq K
  BY <1>4, <1>5, NumberInduction
<1>7. \A i \in C : rank[i] = i - b + 1
  <2> SUFFICES ASSUME NEW i \in C PROVE rank[i] = i - b + 1
    OBVIOUS
  <2>1. i - b \in Nat /\ b + (i - b) = i /\ i <= e
    OBVIOUS
  <2>2. i - b \in K
    BY <1>6, <2>1
  <2> QED BY <2>1, <2>2 DEF K
<1>8. L = e - b + 1
  <2>1. rank[e] = e - b + 1 /\ rank[e] \in 1 .. L
    BY <1>2, <1>3, <1>7
  <2>2. L \in 1 .. L
    BY <1>1, <2>1
  <2>3. PICK i \in C : rank[i] = L
    BY <1>1, <2>2
  <2>4. rank[i] = i - b + 1 /\ i <= e /\ i \in Nat
    BY <1>2, <1>7, <2>3
  <2> HIDE DEF C
  <2> QED BY <1>1, <2>1, <2>3, <2>4
<1>9. ASSUME NEW i \in 1 .. e - b + 1 PROVE m[i] = s[b + i - 1]
  <2>1. b + i - 1 \in C /\ (b + i - 1) - b + 1 = i
    BY <1>9
  <2>2. rank[b + i - 1] = i
    BY <1>7, <2>1
  <2> HIDE DEF C
  <2> QED BY <1>1, <2>1, <2>2
<1> QED BY <1>8, <1>9 DEF L

\* The codes m of MATH and p of PACK compute and store what final means: the
\* operations of MATH lead from P to P, and final is there when it commits.
Certified(t, reg, final, P, m, p) ==
  /\ Len(m) \in Nat /\ Len(m) >= 2 /\ m[1].do = "acquire" /\ m[Len(m)].do = "commit"
  /\ P[0] = {}
  /\ \A i \in 2 .. Len(m) - 1 : m[i].thread = "MATH" /\ Leads(t, reg, final, P[i - 2], m[i], P[i - 1])
  /\ final \in P[Len(m) - 2]
  /\ Len(p) \in Nat /\ \A i \in 2 .. Len(p) - 1 : p[i].reads = reg[final]

\* What is synchronized is.
LEMMA CertifiedIs ==
  ASSUME NEW t, NEW reg, NEW final, NEW S, NEW l \in Seq(S), \A x \in S : Works(x),
         \E i \in 1 .. Len(l) : l[i].thread = "PACK",
         \A i, j \in 1 .. Len(l) : i < j /\ l[i].thread = "PACK" => l[j].thread = "PACK",
         Flows(t, reg, final, {}, l, {})
  PROVE  \E P : Certified(t, reg, final, P, Part(Synchronized(l), "MATH"), Part(Synchronized(l), "PACK"))
<1> DEFINE I == {i \in 1 .. Len(l) : l[i].thread = "PACK"}
           f == Min(I)
           n == Len(l)
           a == Sync("MATH", "acquire")
           b == Sync("MATH", "commit")
           c == Sync("PACK", "wait")
           d == Sync("PACK", "release")
           s == Synchronized(l)
           T == S \union {a, b, c, d}
<1>1. I \in SUBSET Nat /\ I # {} /\ n \in Nat
  OBVIOUS
<1>2. f \in I /\ \A i \in I : f <= i
  <2> HIDE DEF I
  <2> QED BY <1>1, MinIs
<1>3. /\ f \in 1 .. n /\ l[f].thread = "PACK" /\ (\A p \in 1 .. n : p < f => l[p].thread # "PACK")
      /\ \A p \in 1 .. n : f <= p => l[p].thread = "PACK"
  <2> HIDE DEF f
  <2>1. \A p \in 1 .. n : p < f => p \notin I
    BY <1>2
  <2>2. \A p \in 1 .. n : f <= p => f = p \/ f < p
    BY <1>2
  <2> QED BY <1>2, <2>1, <2>2
<1>4. s = Around(l, f, a, b, c, d)
  <2>1. SelectInSeq(l, LAMBDA i : i.thread = "PACK") = f
    BY <1>1 DEF SelectInSeq
  <2> QED BY <2>1 DEF Synchronized, Around
<1>5. /\ a.thread = "MATH" /\ a.do = "acquire" /\ b.thread = "MATH" /\ b.do = "commit"
      /\ c.thread = "PACK" /\ c.do = "wait" /\ d.thread = "PACK" /\ d.do = "release"
  BY DEF Sync, Instr
<1> HIDE DEF I, f, a, b, c, d, s
<1>6. l \in Seq(T) /\ a \in T /\ b \in T /\ c \in T /\ d \in T
  OBVIOUS
<1> HIDE DEF T
<1>7. /\ s \in Seq(T) /\ Len(s) = n + 4
      /\ s[1] = a /\ s[f + 1] = b /\ s[f + 2] = c /\ s[n + 4] = d
      /\ \A i \in 1 .. Len(s) : i \notin {1, f + 1, f + 2, n + 4} =>
           \E p \in 1 .. n : /\ s[i] = l[p]
                             /\ i <= f => i = p + 1 /\ p < f
                             /\ i > f + 2 => i = p + 3 /\ p >= f
  <2>1. s \in Seq(T) /\ Arounds(s, l, f, a, b, c, d)
    BY <1>3, <1>4, <1>6, PutAround
  <2> QED BY <2>1 DEF Arounds
<1>8. \A p \in 1 .. n : l[p].thread \in {"MATH", "PACK"} /\ Works(l[p])
  BY DEF Works
<1>9. /\ \A i \in 2 .. f : s[i] = l[i - 1] /\ s[i].thread = "MATH"
      /\ \A i \in f + 3 .. n + 3 : s[i] = l[i - 3] /\ s[i].thread = "PACK"
  <2>1. ASSUME NEW i \in 2 .. f PROVE s[i] = l[i - 1] /\ s[i].thread = "MATH"
    <3>1. i \in 1 .. Len(s) /\ i \notin {1, f + 1, f + 2, n + 4} /\ i <= f
      BY <1>1, <1>3, <1>7
    <3>2. PICK p \in 1 .. n : s[i] = l[p] /\ i = p + 1 /\ p < f
      BY <1>7, <3>1
    <3> QED BY <1>3, <1>8, <3>2
  <2>2. ASSUME NEW i \in f + 3 .. n + 3 PROVE s[i] = l[i - 3] /\ s[i].thread = "PACK"
    <3>1. i \in 1 .. Len(s) /\ i \notin {1, f + 1, f + 2, n + 4} /\ i > f + 2
      BY <1>1, <1>3, <1>7
    <3>2. PICK p \in 1 .. n : s[i] = l[p] /\ i = p + 3 /\ p >= f
      BY <1>7, <3>1
    <3>3. l[p].thread = "PACK"
      BY <1>3, <3>2
    <3> QED BY <3>2, <3>3
  <2> QED BY <2>1, <2>2
<1>10. ASSUME NEW thread
       PROVE  LET C == {i \in 1 .. Len(s) : s[i].thread = thread}
              IN \E rank : Ranks(rank, s, C, Part(s, thread)) /\ Part(s, thread) \in Seq(T)
  <2> DEFINE C == {i \in 1 .. Len(s) : s[i].thread = thread}
  <2>1. C \in SUBSET (1 .. Len(s)) /\ Part(s, thread) = Selection(s, C)
    BY DEF Part
  <2> HIDE DEF C
  <2>2. Selection(s, C) \in Seq(T) /\ \E rank : Ranks(rank, s, C, Selection(s, C))
    BY <1>7, <2>1, SelectionIs
  <2> QED BY <2>1, <2>2 DEF C
<1>11. ASSUME NEW i \in 1 .. n + 4 PROVE s[i].thread = IF i <= f + 1 THEN "MATH" ELSE "PACK"
  <2>1. n \in Nat /\ f \in Nat /\ 1 <= f /\ f <= n
    BY <1>1, <1>3
  <2> HIDE DEF n
  <2>2. i = 1 \/ i \in 2 .. f \/ i = f + 1 \/ i = f + 2 \/ i \in f + 3 .. n + 3 \/ i = n + 4
    BY <2>1
  <2>3. i = 1 \/ i = f + 1 => s[i].thread = "MATH"
    BY <1>5, <1>7
  <2>4. i = f + 2 \/ i = n + 4 => s[i].thread = "PACK"
    BY <1>5, <1>7
  <2>5. (i \in 2 .. f => s[i].thread = "MATH") /\ (i \in f + 3 .. n + 3 => s[i].thread = "PACK")
    BY <1>9
  <2>6. i <= f + 1 <=> i = 1 \/ i \in 2 .. f \/ i = f + 1
    BY <2>1
  <2> QED BY <2>1, <2>2, <2>3, <2>4, <2>5, <2>6
<1> DEFINE m == Part(s, "MATH")
           q == Part(s, "PACK")
<1>12. Len(m) = f + 1 /\ \A i \in 1 .. f + 1 : m[i] = s[i]
  <2> DEFINE C == {i \in 1 .. Len(s) : s[i].thread = "MATH"}
  <2>1. PICK rank : Ranks(rank, s, C, m) /\ m \in Seq(T)
    BY <1>10
  <2>2. C = 1 .. f + 1
    BY <1>1, <1>3, <1>7, <1>11
  <2> HIDE DEF C, m
  <2>3. Len(m) \in Nat /\ 1 \in Nat /\ f + 1 \in Nat /\ 1 <= f + 1
    BY <1>1, <1>3, <2>1
  <2> DEFINE e == f + 1
  <2>4. e \in Nat /\ 1 <= e /\ Ranks(rank, s, 1 .. e, m)
    BY <2>1, <2>2, <2>3
  <2>5. e - 1 + 1 = e /\ \A i \in 1 .. e : 1 + i - 1 = i
    BY <2>3
  <2> HIDE DEF e
  <2>6. Len(m) = e - 1 + 1 /\ \A i \in 1 .. e - 1 + 1 : m[i] = s[1 + i - 1]
    BY <2>3, <2>4, RunSelected
  <2>7. Len(m) = e /\ \A i \in 1 .. e : m[i] = s[i]
    BY <2>5, <2>6
  <2> QED BY <2>7 DEF e, m
<1>13. Len(q) = n - f + 3 /\ \A i \in 1 .. n - f + 3 : q[i] = s[f + 1 + i]
  <2> DEFINE C == {i \in 1 .. Len(s) : s[i].thread = "PACK"}
  <2>1. PICK rank : Ranks(rank, s, C, q) /\ q \in Seq(T)
    BY <1>10
  <2>2. C = f + 2 .. n + 4
    BY <1>1, <1>3, <1>7, <1>11
  <2> HIDE DEF C, q
  <2> DEFINE x == f + 2
             y == n + 4
  <2>3. Len(q) \in Nat /\ x \in Nat /\ y \in Nat /\ x <= y
    BY <1>1, <1>3, <2>1
  <2>4. Ranks(rank, s, x .. y, q)
    BY <2>1, <2>2
  <2>5. y - x + 1 = n - f + 3 /\ \A i \in 1 .. n - f + 3 : x + i - 1 = f + 1 + i
    BY <1>1, <1>3
  <2> HIDE DEF x, y
  <2>6. Len(q) = y - x + 1 /\ \A i \in 1 .. y - x + 1 : q[i] = s[x + i - 1]
    BY <2>3, <2>4, RunSelected
  <2> QED BY <2>5, <2>6
<1> HIDE DEF m, q
<1>14. PICK P : P[0] \subseteq {} /\ Annotates(t, reg, final, P, l)
  BY DEF Flows
<1>15. \A i \in 1 .. n : Leads(t, reg, final, P[i - 1], l[i], P[i])
  BY <1>14 DEF Annotates
<1>16. f \in Nat /\ 1 <= f /\ f <= n
  BY <1>1, <1>3
<1>17. ASSUME NEW i \in 2 .. Len(m) - 1
       PROVE  m[i].thread = "MATH" /\ Leads(t, reg, final, P[i - 2], m[i], P[i - 1])
  <2>1. i \in 2 .. f /\ i \in 1 .. f + 1 /\ i - 1 \in 1 .. n /\ (i - 1) - 1 = i - 2
    BY <1>1, <1>12, <1>16
  <2>2. m[i] = l[i - 1] /\ m[i].thread = "MATH"
    BY <1>9, <1>12, <2>1
  <2>3. Leads(t, reg, final, P[(i - 1) - 1], l[i - 1], P[i - 1])
    BY <1>15, <2>1
  <2> QED BY <2>1, <2>2, <2>3
<1>18. final \in P[Len(m) - 2]
  <2>1. Len(m) - 2 = f - 1
    BY <1>12, <1>16
  <2> QED BY <1>3, <1>15, <2>1 DEF Leads
<1>19. ASSUME NEW i \in 2 .. Len(q) - 1 PROVE q[i].reads = reg[final]
  <2>1. i \in 1 .. n - f + 3 /\ f + 1 + i \in f + 3 .. n + 3 /\ (f + 1 + i) - 3 \in 1 .. n
    BY <1>1, <1>13, <1>16
  <2>2. q[i] = l[(f + 1 + i) - 3] /\ l[(f + 1 + i) - 3].thread = "PACK"
    BY <1>9, <1>13, <2>1
  <2> QED BY <1>15, <2>1, <2>2 DEF Leads
<1>20. m[1] = a /\ m[Len(m)] = b /\ Len(m) \in Nat /\ Len(m) >= 2
  <2>1. 1 \in 1 .. f + 1 /\ f + 1 \in 1 .. f + 1
    BY <1>16
  <2> QED BY <1>7, <1>12, <1>16, <2>1
<1>21. Len(q) \in Nat
  BY <1>1, <1>13, <1>16
<1>22. Certified(t, reg, final, P, m, q)
  BY <1>5, <1>14, <1>17, <1>18, <1>19, <1>20, <1>21 DEF Certified
<1> QED BY <1>22 DEF m, q, s

\* A body is lowered to code that is.
THEOREM CodeCertified ==
  ASSUME NEW t, NEW ops, NEW reg, NEW final, Compiled(t, ops, reg, final), Ends(ops),
         \E k \in 1 .. Len(ops) : ops[k].op = "tile_store",
         NEW new, new = Split(Synchronized(LowerAll(ops, reg)))
  PROVE  \E P : Certified(t, reg, final, P, new["MATH"], new["PACK"])
<1> DEFINE l == LowerAll(ops, reg)
           all == Synchronized(l)
           S == ToSet(l)
<1>1. ops \in Seq(Ops(Held)) /\ DOMAIN ops = 1 .. Len(ops)
  BY UsesIs, OperandsIn DEF Compiled
<1>2. l \in Seq(S) /\ (\A x \in S : Works(x)) /\ \E x \in S : x.thread = "PACK"
  BY <1>1, LoweredWorks
<1>3. \E i \in 1 .. Len(l) : l[i].thread = "PACK"
  <2> DEFINE m == l
  <2>1. m \in Seq(ToSet(m)) /\ \E x \in ToSet(m) : x.thread = "PACK"
    BY <1>2
  <2> HIDE DEF m
  <2>2. DOMAIN m = 1 .. Len(m)
    BY <2>1
  <2>3. \E i \in 1 .. Len(m) : m[i].thread = "PACK"
    BY <2>1, <2>2 DEF ToSet
  <2> QED BY <2>3 DEF m
<1>4. \A i, j \in 1 .. Len(l) : i < j /\ l[i].thread = "PACK" => l[j].thread = "PACK"
  BY PacksLast
<1>5. Flows(t, reg, final, {}, l, {})
  BY BodyFlow
<1> HIDE DEF l, S, all
<1>6. \E P : Certified(t, reg, final, P, Part(Synchronized(l), "MATH"), Part(Synchronized(l), "PACK"))
  BY <1>2, <1>3, <1>4, <1>5, CertifiedIs
<1>7. \A thread \in Threads : new[thread] = Part(all, thread)
  <2> SUFFICES ASSUME NEW thread \in Threads PROVE new[thread] = Part(all, thread)
    OBVIOUS
  <2> DEFINE n == Len(all)
             C == {i \in 1 .. n : all[i].thread = thread}
             f == [i \in 1 .. n |-> IF all[i].thread = thread THEN <<all[i]>> ELSE << >>]
             g == [i \in 1 .. n |-> IF i \in C THEN <<all[i]>> ELSE << >>]
  <2>1. f = g
    <3> HIDE DEF n
    <3> QED OBVIOUS
  <2>2. new[thread] = FlattenSeq(f)
    BY Zenon DEF Split, all, l
  <2>3. Part(all, thread) = FlattenSeq(g)
    BY Zenon DEF Part, Selection
  <2> QED BY <2>1, <2>2, <2>3, Zenon
<1>8. "MATH" \in Threads /\ "PACK" \in Threads /\ all = Synchronized(l)
  BY DEF Threads, all
<1> QED BY <1>6, <1>7, <1>8

-----------------------------------------------------------------------------
(* Bodies, before and after copies are inserted.                           *)

\* A body of t without copies: n operators, then stores and the yield of final.
Plain(t, b, n, final) ==
  /\ b \in Seq(Ops(Given)) /\ Len(b) \in Nat /\ n \in Nat /\ n < Len(b)
  /\ \A k \in 1 .. n : Computes(t, b[k], k)
  /\ \A k \in n + 1 .. Len(b) :
       b[k].op \in {"tile_store", "yield"} /\ b[k].in = <<final>> /\ b[k].out = NoValue
  /\ Known(Tensors(t), final, n + 1)
  /\ IF n = 0 THEN IsArg(final) ELSE final = Result(n)

\* What a sequence of three parts has where.
Three(a, x, n, y) == a \o [i \in 1 .. n |-> x] \o <<y>>
ThreeAre(s, a, x, n, y) ==
  /\ Len(s) = Len(a) + n + 1
  /\ \A k \in 1 .. Len(a) : s[k] = a[k]
  /\ \A k \in Len(a) + 1 .. Len(a) + n : s[k] = x
  /\ s[Len(a) + n + 1] = y

\* And it has that.
LEMMA ThreeParts ==
  ASSUME NEW S, NEW a \in Seq(S), NEW x \in S, NEW y \in S, NEW n \in Nat,
         NEW s, s = Three(a, x, n, y)
  PROVE  ThreeAre(s, a, x, n, y)
<1> DEFINE b == [i \in 1 .. n |-> x]
           c == <<y>>
           d == a \o b
<1>1. b \in Seq(S) /\ c \in Seq(S) /\ Len(b) = n /\ Len(c) = 1 /\ c[1] = y /\ \A i \in 1 .. n : b[i] = x
  OBVIOUS
<1>3. s = d \o c
  BY Zenon DEF Three
<1> HIDE DEF b, c
<1>2. d \in Seq(S) /\ Joins(a, b, d)
  BY <1>1, JoinIs
<1> HIDE DEF d
<1>4. s \in Seq(S) /\ Joins(d, c, s)
  BY <1>1, <1>2, <1>3, JoinIs
<1>5. Len(a) \in Nat /\ Len(d) = Len(a) + n /\ Len(s) = Len(a) + n + 1
  BY <1>1, <1>2, <1>4 DEF Joins
<1>6. \A k \in 1 .. Len(d) : s[k] = d[k]
  BY <1>4 DEF Joins
<1>7. ASSUME NEW k \in 1 .. Len(a) PROVE s[k] = a[k]
  BY <1>2, <1>5, <1>6 DEF Joins
<1>8. ASSUME NEW k \in Len(a) + 1 .. Len(a) + n PROVE s[k] = x
  <2> DEFINE j == k - Len(a)
  <2>1. j \in 1 .. n /\ k = Len(a) + j /\ k \in 1 .. Len(d)
    BY <1>5
  <2> HIDE DEF j
  <2>2. d[Len(a) + j] = b[j]
    BY <1>1, <1>2, <2>1 DEF Joins
  <2> QED BY <1>1, <1>6, <2>1, <2>2
<1>9. s[Len(a) + n + 1] = y
  <2>1. 1 \in 1 .. Len(c)
    BY <1>1
  <2>2. s[Len(d) + 1] = c[1]
    BY <1>4, <2>1 DEF Joins
  <2> QED BY <1>1, <1>5, <2>2
<1> QED BY <1>4, <1>5, <1>7, <1>8, <1>9 DEF ThreeAre

\* The body of a trace is one.
LEMMA BodyPlain ==
  ASSUME NEW t, TraceInOrder(t), Traced(t), NEW stores \in Nat \ {0}
  PROVE  Plain(t, Body(t, stores), Len(t.ops), Last(t.values))
<1> DEFINE n == Len(t.ops)
           v == Last(t.values)
           a == TileOps(t)
           b == Body(t, stores)
           x == Operation("tile_store", <<v>>, NoValue)
           y == Operation("yield", <<v>>, NoValue)
           S == ToSet(a) \union {x, y}
<1>1. Len(a) = n /\ n \in Nat /\ \A k \in 1 .. n : Computes(t, a[k], k)
  BY OpsCompute
<1>2. b \in Seq(Ops(Given))
  <2>1. TraceOK(t)
    BY DEF TraceInOrder
  <2> QED BY <2>1, BodyOps DEF BodyOK
<1>3. a \in Seq(S)
  <2>1. DOMAIN a = 1 .. Len(a)
    <3>1. CASE Direct(t)
      <4> DEFINE o == [t.ops[1] EXCEPT !.in = <<Arg(1), Arg(2)>>]
      <4>1. a = <<o>>
        BY <3>1 DEF TileOps
      <4> HIDE DEF o, a
      <4> QED BY <4>1
    <3>2. CASE ~Direct(t)
      <4> DEFINE O == Ops(Given)
      <4>1. t.ops \in Seq(O) /\ a = t.ops
        BY <3>2 DEF TileOps, TraceInOrder, TraceOK
      <4> HIDE DEF O, a
      <4> QED BY <4>1
    <3> QED BY <3>1, <3>2
  <2> HIDE DEF a
  <2>2. \E m \in Nat : DOMAIN a = 1 .. m
    BY <1>1, <2>1
  <2>3. a = [i \in DOMAIN a |-> a[i]]
    <3>1. CASE Direct(t)
      <4> DEFINE o == [t.ops[1] EXCEPT !.in = <<Arg(1), Arg(2)>>]
      <4>1. a = <<o>>
        BY <3>1 DEF TileOps, a
      <4> HIDE DEF o
      <4> QED BY <4>1
    <3>2. CASE ~Direct(t)
      <4> DEFINE O == Ops(Given)
      <4>1. t.ops \in Seq(O) /\ a = t.ops
        BY <3>2 DEF TileOps, TraceInOrder, TraceOK, a
      <4> HIDE DEF O
      <4> QED BY <4>1
    <3> QED BY <3>1, <3>2
  <2>4. \A i \in 1 .. Len(a) : a[i] \in S
    BY <2>1 DEF ToSet
  <2> HIDE DEF S
  <2> QED BY <1>1, <2>1, <2>3, <2>4
<1>4. x \in S /\ y \in S
  OBVIOUS
<1>5. b = Three(a, x, stores, y)
  BY DEF Body, Three
<1>6. Len(b) = n + stores + 1 /\ (\A k \in 1 .. n : b[k] = a[k])
      /\ (\A k \in n + 1 .. n + stores : b[k] = x) /\ b[n + stores + 1] = y
  <2> HIDE DEF a, b, S, x, y, n
  <2>1. stores \in Nat
    OBVIOUS
  <2>2. ThreeAre(b, a, x, stores, y)
    BY <1>3, <1>4, <1>5, <2>1, ThreeParts, Zenon
  <2> QED BY <1>1, <2>2 DEF ThreeAre
<1>7. /\ x.op = "tile_store" /\ x.in = <<v>> /\ x.out = NoValue
      /\ y.op = "yield" /\ y.in = <<v>> /\ y.out = NoValue
  BY DEF Operation
<1>8. \A k \in n + 1 .. Len(b) : b[k] = x \/ b[k] = y
  <2> HIDE DEF n, b, x, y
  <2> QED BY <1>1, <1>6
<1>9. Len(t.values) = 1 /\ v = t.values[1]
  BY DEF Traced, Last
<1>10. Known(t.roots, v, n + 1) /\ (n # 0 => v = Result(n)) /\ Len(t.roots) \in Nat
  BY <1>9 DEF TraceInOrder, TraceOK, Sequential
<1>11. Known(Tensors(t), v, n + 1) /\ IF n = 0 THEN IsArg(v) ELSE v = Result(n)
  <2>1. CASE n = 0
    <3>1. Tensors(t) = [i \in 1 .. Len(t.roots) |-> i]
      BY <2>1 DEF Tensors, Direct
    <3>2. Len(Tensors(t)) = Len(t.roots)
      BY <1>10, <3>1
    <3>3. PICK i \in 1 .. Len(t.roots) : v = Arg(i)
      BY <1>10, <2>1 DEF Known
    <3> QED BY <2>1, <3>2, <3>3, NamesDiffer DEF Known
  <2>2. CASE n # 0
    <3>1. v = Result(n) /\ n \in 1 .. (n + 1) - 1
      BY <1>1, <1>10, <2>2
    <3> QED BY <2>2, <3>1 DEF Known
  <2> QED BY <2>1, <2>2
<1> HIDE DEF x, y, v, n, a
<1>12. \A k \in n + 1 .. Len(b) : b[k].op \in {"tile_store", "yield"} /\ b[k].in = <<v>> /\ b[k].out = NoValue
  BY <1>7, <1>8
<1> HIDE DEF b
<1>13. Len(b) \in Nat /\ n < Len(b)
  BY <1>1, <1>6
<1>14. \A k \in 1 .. n : Computes(t, b[k], k)
  BY <1>1, <1>6
<1> QED BY <1>1, <1>2, <1>11, <1>12, <1>13, <1>14 DEF Plain, b, n, v

\* What the last value of a trace means is what the expression means.
LEMMA MeantFinal ==
  ASSUME TraceInOrder(trace), Traced(trace), NEW s
  PROVE  Term(trace, Last(trace.values), s) = Meant(s)
<1> DEFINE t == trace
           n == Len(t.ops)
           v == Last(t.values)
<1>1. Meant(s) = Given1(t, Terms(t, s), v, s)
  BY MeantIs
<1>2. Len(t.values) = 1 /\ v = t.values[1]
  BY DEF Traced, Last
<1>3. Known(t.roots, v, n + 1) /\ (n # 0 => v = Result(n)) /\ Len(t.roots) \in Nat /\ n \in Nat
  BY <1>2 DEF TraceInOrder, TraceOK, Sequential
<1>4. CASE n # 0
  <2>1. v = Result(n) /\ ~IsArg(v) /\ v[2] = n
    BY <1>3, <1>4, NamesDiffer
  <2>2. Term(t, v, s) = Terms(t, s)[n]
    BY <2>1, TermOf
  <2> QED BY <1>1, <2>1, <2>2 DEF Given1
<1>5. CASE n = 0
  <2>1. PICK i \in 1 .. Len(t.roots) : v = Arg(i)
    BY <1>3, <1>5 DEF Known
  <2>2. IsArg(v) /\ v[2] = i
    BY <2>1, NamesDiffer
  <2>3. t.roots[i] = "full"
    <3>1. t.ops = << >>
      <4> DEFINE O == Ops(Given)
      <4>1. t.ops \in Seq(O)
        BY DEF TraceInOrder, TraceOK
      <4> HIDE DEF O
      <4> QED BY <1>5, <4>1
    <3> QED BY <1>2, <2>2, <3>1 DEF Traced, Shape
  <2>4. Tensors(t)[i] = i
    <3>1. Tensors(t) = [j \in 1 .. Len(t.roots) |-> j]
      BY <1>5 DEF Tensors, Direct
    <3> QED BY <3>1
  <2>5. Term(t, v, s) = Slot(i, "full", s)
    <3>1. Term(t, v, s) = Loaded(t, i, s)
      BY <2>1, TermOf
    <3> QED BY <2>3, <2>4, <3>1 DEF Loaded
  <2>6. Given1(t, Terms(t, s), v, s) = TileOf(i, "full", s)
    BY <2>2, <2>3 DEF Given1
  <2> QED BY <1>1, <2>5, <2>6, FullOperand
<1> QED BY <1>4, <1>5

\* Every result has one operation.
Once(s) == \A p, q \in 1 .. Len(s) : s[p].out = s[q].out /\ s[p].out # NoValue => p = q

Unshared(ss) ==
  \A i, j \in 1 .. Len(ss) : \A x \in 1 .. Len(ss[i]) : \A y \in 1 .. Len(ss[j]) :
    ss[i][x].out = ss[j][y].out /\ ss[i][x].out # NoValue => i = j

\* So it is in a flattened sequence, when it is in its parts and no two of them
\* share a result.
LEMMA OnceLaid ==
  ASSUME NEW off, NEW ss, NEW f, Layout(off, ss, f),
         \A i \in 1 .. Len(ss) : Once(ss[i]), Unshared(ss)
  PROVE  Once(f)
<1>1. \A p \in 1 .. Len(f) : \E i \in 1 .. Len(ss) : \E x \in 1 .. Len(ss[i]) :
        p = off[i] + x /\ f[p] = ss[i][x] /\ off[i + 1] = off[i] + Len(ss[i])
  <2>1. ASSUME NEW p \in 1 .. Len(f) PROVE FlatIn(off, ss, f, p)
    BY FlatAt
  <2> QED BY <2>1 DEF FlatIn
<1>2. ASSUME NEW p \in 1 .. Len(f), NEW q \in 1 .. Len(f), f[p].out = f[q].out, f[p].out # NoValue
      PROVE  p = q
  <2>1. PICK i \in 1 .. Len(ss) : \E x \in 1 .. Len(ss[i]) :
           p = off[i] + x /\ f[p] = ss[i][x] /\ off[i + 1] = off[i] + Len(ss[i])
    BY <1>1
  <2>2. PICK x \in 1 .. Len(ss[i]) : p = off[i] + x /\ f[p] = ss[i][x]
    BY <2>1
  <2>3. PICK j \in 1 .. Len(ss) : \E y \in 1 .. Len(ss[j]) :
           q = off[j] + y /\ f[q] = ss[j][y] /\ off[j + 1] = off[j] + Len(ss[j])
    BY <1>1
  <2>4. PICK y \in 1 .. Len(ss[j]) : q = off[j] + y /\ f[q] = ss[j][y]
    BY <2>3
  <2>5. i = j
    BY <1>2, <2>2, <2>4 DEF Unshared
  <2>6. x = y
    BY <1>2, <2>2, <2>4, <2>5 DEF Once
  <2> QED BY <2>2, <2>4, <2>5, <2>6
<1> QED BY <1>2 DEF Once

\* What occurs once in each of them, and in one of them, occurs once in all.
LEMMA OnceFlat ==
  ASSUME NEW S, NEW ss \in Seq(Seq(S)), \A i \in 1 .. Len(ss) : Once(ss[i]), Unshared(ss)
  PROVE  Once(FlattenSeq(ss))
<1>1. PICK off : Layout(off, ss, FlattenSeq(ss))
  BY FlattenLayout
<1> DEFINE f == FlattenSeq(ss)
<1>2. Layout(off, ss, f)
  BY <1>1
<1> HIDE DEF f
<1>3. Once(f)
  BY <1>2, OnceLaid, Zenon
<1> QED BY <1>3 DEF f

\* And when one more operation comes behind.
LEMMA OnceJoin ==
  ASSUME NEW S, NEW a \in Seq(S), NEW x \in S, Once(a),
         \A p \in 1 .. Len(a) : a[p].out # NoValue => a[p].out # x.out
  PROVE  Once(a \o <<x>>)
<1> DEFINE b == <<x>>
           c == a \o b
<1>1. b \in Seq(S) /\ Len(b) = 1 /\ b[1] = x
  OBVIOUS
<1> HIDE DEF b
<1>2. c \in Seq(S) /\ Joins(a, b, c)
  BY <1>1, JoinIs
<1> HIDE DEF c
<1>3. Len(a) \in Nat /\ Len(c) = Len(a) + 1 /\ (\A p \in 1 .. Len(a) : c[p] = a[p]) /\ c[Len(a) + 1] = x
  <2>1. 1 \in 1 .. Len(b)
    BY <1>1
  <2> QED BY <1>1, <1>2, <2>1 DEF Joins
<1>4. ASSUME NEW p \in 1 .. Len(c), NEW q \in 1 .. Len(c), c[p].out = c[q].out, c[p].out # NoValue
      PROVE  p = q
  <2>1. (p \in 1 .. Len(a) \/ p = Len(a) + 1) /\ (q \in 1 .. Len(a) \/ q = Len(a) + 1)
    BY <1>3
  <2>2. CASE p \in 1 .. Len(a) /\ q \in 1 .. Len(a)
    BY <1>3, <1>4, <2>2 DEF Once
  <2>3. CASE p \in 1 .. Len(a) /\ q = Len(a) + 1
    BY <1>3, <1>4, <2>3
  <2>4. CASE p = Len(a) + 1 /\ q \in 1 .. Len(a)
    BY <1>3, <1>4, <2>4
  <2> QED BY <2>1, <2>2, <2>3, <2>4
<1> QED BY <1>4 DEF Once, b, c

\* The parts of a body with its copies: those for an operation, and itself.
Inputs(args, n) == {Arg(i) : i \in 1 .. args} \union {Result(k) : k \in 1 .. n}
Renamed(b, k, v) == IF Copies(b, v, k) > 0 THEN Copy(v, k, 1) ELSE v
Adapted(b, k) == [b[k] EXCEPT !.in = [i \in DOMAIN @ |-> Renamed(b, k, @[i])]]
Sources(b, args) == [n \in 1 .. args |-> Arg(n)] \o
                    [k \in 1 .. Cardinality({j \in DOMAIN b : b[j].out # NoValue}) |-> Result(k)]
CopiesOf(b, v, k) == FlattenSeq([i \in 1 .. Copies(b, v, k) |-> CopyOps(v, k, i)])
Prefix(b, args, k) ==
  FlattenSeq([j \in 1 .. Len(Sources(b, args)) |-> CopiesOf(b, Sources(b, args)[j], k)])
Parts(b, args) == [k \in DOMAIN b |-> Prefix(b, args, k) \o <<Adapted(b, k)>>]

\* They are that.
LEMMA PartsAre ==
  ASSUME NEW b, NEW args
  PROVE  InsertCopies(b, args) = FlattenSeq(Parts(b, args))
BY Zenon DEF InsertCopies, Parts, Prefix, CopiesOf, Sources, Adapted, Renamed

\* o is made for a use of v by operation k.
CopyFor(b, vs, k, o) == \E v \in vs : \E i \in 1 .. Copies(b, v, k) : o \in ToSet(CopyOps(v, k, i))

\* The values that may get copies are those of the body, each once.
LEMMA SourcesAre ==
  ASSUME NEW t, NEW b, NEW n, NEW final, Plain(t, b, n, final), NEW args \in Nat
  PROVE  LET s == Sources(b, args)
         IN /\ Len(s) \in Nat
            /\ \A j \in 1 .. Len(s) : s[j] \in Inputs(args, n)
            /\ \A v \in Inputs(args, n) : \E j \in 1 .. Len(s) : s[j] = v
            /\ \A i, j \in 1 .. Len(s) : s[i] = s[j] => i = j
<1> DEFINE m == Cardinality({j \in DOMAIN b : b[j].out # NoValue})
           a == [i \in 1 .. args |-> Arg(i)]
           r == [k \in 1 .. n |-> Result(k)]
           s == Sources(b, args)
           I == Inputs(args, n)
<1>1. DOMAIN b = 1 .. Len(b) /\ Len(b) \in Nat /\ n \in Nat /\ n < Len(b)
  <2> DEFINE O == Ops(Given)
  <2>1. b \in Seq(O)
    BY DEF Plain
  <2> HIDE DEF O
  <2>2. DOMAIN b = 1 .. Len(b)
    BY <2>1
  <2> QED BY <2>2 DEF Plain
<1>2. m = n
  <2>1. \A k \in 1 .. n : b[k].out # NoValue
    BY DEF Plain, Computes, Result, NoValue
  <2>2. \A k \in n + 1 .. Len(b) : b[k].out = NoValue
    BY DEF Plain
  <2>3. {j \in DOMAIN b : b[j].out # NoValue} = 1 .. n
    BY <1>1, <2>1, <2>2
  <2>4. Cardinality(1 .. n) = n
    BY <1>1, FS_Interval
  <2> QED BY <2>3, <2>4
<1>3. s = a \o r
  BY <1>2, Zenon DEF Sources
<1>4. a \in Seq(I) /\ r \in Seq(I) /\ Len(a) = args /\ Len(r) = n
      /\ (\A i \in 1 .. args : a[i] = Arg(i)) /\ \A k \in 1 .. n : r[k] = Result(k)
  <2>1. (\A i \in 1 .. args : Arg(i) \in I) /\ \A k \in 1 .. n : Result(k) \in I
    BY DEF Inputs
  <2> HIDE DEF I
  <2> QED BY <1>1, <2>1
<1> HIDE DEF a, r, m, s
<1>5. s \in Seq(I) /\ Joins(a, r, s)
  BY <1>3, <1>4, JoinIs
<1>6. Len(s) = args + n /\ (\A i \in 1 .. args : s[i] = Arg(i)) /\ \A k \in 1 .. n : s[args + k] = Result(k)
  BY <1>1, <1>4, <1>5 DEF Joins
<1>7. \A j \in 1 .. Len(s) : s[j] \in I
  <2> HIDE DEF I
  <2> QED BY <1>5
<1>8. ASSUME NEW v \in I PROVE \E j \in 1 .. Len(s) : s[j] = v
  <2>1. CASE \E i \in 1 .. args : v = Arg(i)
    BY <1>1, <1>6, <2>1
  <2>2. CASE \E k \in 1 .. n : v = Result(k)
    <3>1. PICK k \in 1 .. n : v = Result(k)
      BY <2>2
    <3>2. args + k \in 1 .. Len(s) /\ s[args + k] = v
      BY <1>1, <1>6, <3>1
    <3> QED BY <3>2
  <2> QED BY <2>1, <2>2 DEF Inputs
<1>9. ASSUME NEW i \in 1 .. Len(s), NEW j \in 1 .. Len(s), s[i] = s[j] PROVE i = j
  <2>1. \A x \in 1 .. Len(s) : \/ x \in 1 .. args /\ s[x] = Arg(x)
                               \/ x - args \in 1 .. n /\ s[x] = Result(x - args)
    <3> SUFFICES ASSUME NEW x \in 1 .. Len(s), x \notin 1 .. args
                 PROVE  x - args \in 1 .. n /\ s[x] = Result(x - args)
      BY <1>6
    <3>1. x - args \in 1 .. n /\ args + (x - args) = x
      BY <1>1, <1>6
    <3> QED BY <1>6, <3>1
  <2> QED BY <1>9, <2>1, NamesDiffer
<1> QED BY <1>1, <1>6, <1>7, <1>8, <1>9 DEF s, I

\* The copies of a value for one use.
LEMMA CopyOpsAre ==
  ASSUME NEW v, NEW k, NEW i, NEW o \in ToSet(CopyOps(v, k, i))
  PROVE  \/ IsArg(v) /\ o.op = "constant" /\ o.in = << >> /\ o.out = NoValue
         \/ IsArg(v) /\ o.op = "copy_tile" /\ o.in = <<v>> /\ o.out = Copy(v, k, i)
         \/ ~IsArg(v) /\ o.op = "copy_dst" /\ o.in = <<v>> /\ o.out = Copy(v, k, i)
<1> DEFINE x == Operation("constant", << >>, NoValue)
           y == Operation("copy_tile", <<v>>, Copy(v, k, i))
           z == Operation("copy_dst", <<v>>, Copy(v, k, i))
<1>1. CopyOps(v, k, i) = IF IsArg(v) THEN <<x, y>> ELSE <<z>>
  BY Zenon DEF CopyOps
<1>2. /\ x.op = "constant" /\ x.in = << >> /\ x.out = NoValue
      /\ y.op = "copy_tile" /\ y.in = <<v>> /\ y.out = Copy(v, k, i)
      /\ z.op = "copy_dst" /\ z.in = <<v>> /\ z.out = Copy(v, k, i)
  BY DEF Operation
<1> HIDE DEF x, y, z
<1>3. ToSet(<<x, y>>) = {x, y} /\ ToSet(<<z>>) = {z}
  BY DEF ToSet
<1> QED BY <1>1, <1>2, <1>3

\* There is one that has the copy as its result, and no other.
LEMMA CopyOpsOnce ==
  ASSUME NEW v, NEW k, NEW i
  PROVE  /\ Once(CopyOps(v, k, i))
         /\ \E o \in ToSet(CopyOps(v, k, i)) : o.out = Copy(v, k, i)
<1> DEFINE x == Operation("constant", << >>, NoValue)
           y == Operation("copy_tile", <<v>>, Copy(v, k, i))
           z == Operation("copy_dst", <<v>>, Copy(v, k, i))
<1>1. CopyOps(v, k, i) = IF IsArg(v) THEN <<x, y>> ELSE <<z>>
  BY Zenon DEF CopyOps
<1>2. x.out = NoValue /\ y.out = Copy(v, k, i) /\ z.out = Copy(v, k, i)
  BY DEF Operation
<1> HIDE DEF x, y, z
<1>3. ToSet(<<x, y>>) = {x, y} /\ ToSet(<<z>>) = {z}
  BY DEF ToSet
<1>4. Once(<<x, y>>) /\ Once(<<z>>)
  BY <1>2 DEF Once, Copy, NoValue
<1> QED BY <1>1, <1>2, <1>3, <1>4

\* What a copy is made for can be told from its name.
LEMMA CopiesDiffer ==
  /\ \A v, k, i, w, l, j : Copy(v, k, i) = Copy(w, l, j) => v = w /\ k = l /\ i = j
  /\ \A v, k, i : Copy(v, k, i) # NoValue /\ Base(Copy(v, k, i)) = v /\ ~IsArg(Copy(v, k, i))
  /\ \A v, k, i : Copy(v, k, i) \notin Given
  /\ NoValue \notin Given
  /\ \A v \in Given : Base(v) = v
BY DEF Copy, NoValue, Base, IsArg, Given, Arg, Result

\* The results of the copies made for a use.
LEMMA CopyOut ==
  ASSUME NEW v, NEW k, NEW i, NEW o \in ToSet(CopyOps(v, k, i)), o.out # NoValue
  PROVE  o.out = Copy(v, k, i)
BY CopyOpsAre

\* An element of a sequence is in the set of them.
LEMMA AtIn ==
  ASSUME NEW S, NEW s \in Seq(S)
  PROVE  /\ \A x \in 1 .. Len(s) : s[x] \in ToSet(s) /\ s[x] \in S
         /\ \A e \in ToSet(s) : \E x \in 1 .. Len(s) : s[x] = e
         /\ Len(s) \in Nat
BY DEF ToSet

\* The copies of one value for one operation.
LEMMA CopiesOfIs ==
  ASSUME NEW b \in Seq(Ops(Given)), NEW v \in Given, NEW k \in 1 .. Len(b)
  PROVE  LET c == CopiesOf(b, v, k)
         IN /\ c \in Seq(Ops(Held)) /\ Once(c)
            /\ \A o \in ToSet(c) : \E i \in 1 .. Copies(b, v, k) : o \in ToSet(CopyOps(v, k, i))
            /\ Copies(b, v, k) > 0 => \E o \in ToSet(c) : o.out = Copy(v, k, 1)
<1> DEFINE n == Copies(b, v, k)
           ss == [i \in 1 .. n |-> CopyOps(v, k, i)]
           c == CopiesOf(b, v, k)
           O == Ops(Held)
<1>1. n \in Nat /\ k \in Nat
  <2>1. k \in DOMAIN b
    <3> DEFINE G == Ops(Given)
    <3>1. b \in Seq(G)
      OBVIOUS
    <3> HIDE DEF G
    <3> QED BY <3>1
  <2> QED BY <2>1, CopiesCount
<1>2. \A i \in 1 .. n : CopyOps(v, k, i) \in Seq(O)
  BY <1>1, CopyOpsIn
<1>3. c = FlattenSeq(ss)
  BY DEF CopiesOf
<1> HIDE DEF n, O, c
<1>4. ss \in [1 .. n -> Seq(O)] /\ \A i \in 1 .. n : ss[i] = CopyOps(v, k, i)
  BY <1>2
<1> HIDE DEF ss
<1>5. ss \in Seq(Seq(O)) /\ Len(ss) = n
  BY <1>1, <1>4
<1>6. c \in Seq(O) /\ ToSet(c) = UNION {ToSet(ss[i]) : i \in 1 .. n}
  BY <1>1, <1>3, <1>4, FlattenIn
<1>7. \A i \in 1 .. Len(ss) : Once(ss[i])
  BY <1>4, <1>5, CopyOpsOnce
<1>8. Unshared(ss)
  <2> SUFFICES ASSUME NEW i \in 1 .. Len(ss), NEW j \in 1 .. Len(ss),
                      NEW x \in 1 .. Len(ss[i]), NEW y \in 1 .. Len(ss[j]),
                      ss[i][x].out = ss[j][y].out, ss[i][x].out # NoValue
               PROVE  i = j
    BY Zenon DEF Unshared
  <2>1. ss[i][x] \in ToSet(CopyOps(v, k, i)) /\ ss[j][y] \in ToSet(CopyOps(v, k, j))
    <3>1. i \in 1 .. n /\ j \in 1 .. n
      BY <1>5
    <3>2. ss[i] \in Seq(O) /\ ss[j] \in Seq(O)
      BY <1>4, <3>1
    <3> QED BY <1>4, <3>1, <3>2, AtIn
  <2>2. ss[i][x].out = Copy(v, k, i) /\ ss[j][y].out = Copy(v, k, j)
    BY <2>1, CopyOut
  <2>3. Copy(v, k, i) = Copy(v, k, j)
    BY <2>2, Zenon
  <2> QED BY <2>3, CopiesDiffer
<1>9. Once(c)
  BY <1>3, <1>5, <1>7, <1>8, OnceFlat
<1>10. \A o \in ToSet(c) : \E i \in 1 .. n : o \in ToSet(CopyOps(v, k, i))
  BY <1>4, <1>6
<1>11. n > 0 => \E o \in ToSet(c) : o.out = Copy(v, k, 1)
  <2> SUFFICES ASSUME n > 0 PROVE \E o \in ToSet(c) : o.out = Copy(v, k, 1)
    OBVIOUS
  <2>1. 1 \in 1 .. n
    BY <1>1
  <2>2. PICK o \in ToSet(CopyOps(v, k, 1)) : o.out = Copy(v, k, 1)
    BY CopyOpsOnce
  <2> QED BY <1>4, <1>6, <2>1, <2>2
<1> QED BY <1>6, <1>9, <1>10, <1>11 DEF n, O, c

\* The copies for one operation.
LEMMA PrefixIs ==
  ASSUME NEW t, NEW b, NEW n, NEW final, Plain(t, b, n, final), NEW args \in Nat,
         NEW k \in 1 .. Len(b)
  PROVE  LET c == Prefix(b, args, k)
         IN /\ c \in Seq(Ops(Held)) /\ Once(c)
            /\ \A o \in ToSet(c) : CopyFor(b, Inputs(args, n), k, o)
            /\ \A v \in Inputs(args, n) : Copies(b, v, k) > 0 => \E o \in ToSet(c) : o.out = Copy(v, k, 1)
<1> DEFINE src == Sources(b, args)
           m == Len(src)
           ss == [j \in 1 .. m |-> CopiesOf(b, src[j], k)]
           c == Prefix(b, args, k)
           O == Ops(Held)
           I == Inputs(args, n)
<1>1. /\ m \in Nat /\ \A j \in 1 .. m : src[j] \in I
      /\ \A v \in I : \E j \in 1 .. m : src[j] = v
      /\ \A i, j \in 1 .. m : src[i] = src[j] => i = j
  BY SourcesAre
<1>2. \A v \in I : v \in Given
  BY DEF Inputs, Given, Plain
<1>3. b \in Seq(Ops(Given))
  BY DEF Plain
<1>4. c = FlattenSeq(ss)
  BY DEF Prefix
<1> HIDE DEF src, I, O, c
<1>5. \A v \in I : /\ CopiesOf(b, v, k) \in Seq(O) /\ Once(CopiesOf(b, v, k))
                   /\ \A o \in ToSet(CopiesOf(b, v, k)) : \E i \in 1 .. Copies(b, v, k) : o \in ToSet(CopyOps(v, k, i))
                   /\ Copies(b, v, k) > 0 => \E o \in ToSet(CopiesOf(b, v, k)) : o.out = Copy(v, k, 1)
  BY <1>2, <1>3, CopiesOfIs DEF O
<1> HIDE DEF m
<1>6. ss \in [1 .. m -> Seq(O)] /\ \A j \in 1 .. m : ss[j] = CopiesOf(b, src[j], k)
  BY <1>1, <1>5
<1> HIDE DEF ss
<1>7. ss \in Seq(Seq(O)) /\ Len(ss) = m
  BY <1>1, <1>6
<1>8. c \in Seq(O) /\ ToSet(c) = UNION {ToSet(ss[i]) : i \in 1 .. m}
  <2>1. m \in Nat /\ ss \in [1 .. m -> Seq(O)]
    BY <1>1, <1>6
  <2>2. FlattenSeq(ss) \in Seq(O) /\ ToSet(FlattenSeq(ss)) = UNION {ToSet(ss[i]) : i \in 1 .. m}
    BY <2>1, FlattenIn, ZenonT(40)
  <2> QED BY <1>4, <2>2
<1>9. \A i \in 1 .. Len(ss) : Once(ss[i])
  BY <1>1, <1>5, <1>6, <1>7
<1>10. Unshared(ss)
  <2> SUFFICES ASSUME NEW i \in 1 .. Len(ss), NEW j \in 1 .. Len(ss),
                      NEW x \in 1 .. Len(ss[i]), NEW y \in 1 .. Len(ss[j]),
                      ss[i][x].out = ss[j][y].out, ss[i][x].out # NoValue
               PROVE  i = j
    BY Zenon DEF Unshared
  <2>1. i \in 1 .. m /\ j \in 1 .. m /\ src[i] \in I /\ src[j] \in I
    BY <1>1, <1>7
  <2>2. ss[i] \in Seq(O) /\ ss[j] \in Seq(O)
    BY <1>6, <2>1
  <2>3. ss[i][x] \in ToSet(ss[i]) /\ ss[j][y] \in ToSet(ss[j])
    BY <2>2, AtIn
  <2>4. PICK e : ss[i][x] \in ToSet(CopyOps(src[i], k, e))
    BY <1>5, <1>6, <2>1, <2>3
  <2>5. PICK e2 : ss[j][y] \in ToSet(CopyOps(src[j], k, e2))
    BY <1>5, <1>6, <2>1, <2>3
  <2>6. ss[i][x].out = Copy(src[i], k, e) /\ ss[j][y].out = Copy(src[j], k, e2)
    BY <2>4, <2>5, CopyOut
  <2>8. Copy(src[i], k, e) = Copy(src[j], k, e2)
    BY <2>6, Zenon
  <2>7. src[i] = src[j]
    BY <2>8, CopiesDiffer
  <2> QED BY <1>1, <2>1, <2>7
<1>11. Once(c)
  BY <1>4, <1>7, <1>9, <1>10, OnceFlat
<1>12. ASSUME NEW o \in ToSet(c) PROVE CopyFor(b, I, k, o)
  <2>1. PICK j \in 1 .. m : o \in ToSet(ss[j])
    BY <1>8
  <2>2. src[j] \in I /\ \E i \in 1 .. Copies(b, src[j], k) : o \in ToSet(CopyOps(src[j], k, i))
    BY <1>1, <1>5, <1>6, <2>1
  <2> QED BY <2>2 DEF CopyFor
<1>13. ASSUME NEW v \in I, Copies(b, v, k) > 0 PROVE \E o \in ToSet(c) : o.out = Copy(v, k, 1)
  <2>1. PICK j \in 1 .. m : src[j] = v
    BY <1>1
  <2>2. PICK o \in ToSet(ss[j]) : o.out = Copy(v, k, 1)
    BY <1>5, <1>6, <1>13, <2>1
  <2> QED BY <1>8, <2>2
<1> QED BY <1>8, <1>11, <1>12, <1>13 DEF O, c, I

\* An operation whose operands were replaced by their copies.
LEMMA AdaptedIs ==
  ASSUME NEW b \in Seq(Ops(Given)), NEW k \in 1 .. Len(b)
  PROVE  LET o == Adapted(b, k)
         IN /\ o.op = b[k].op /\ o.out = b[k].out
            /\ b[k].in \in Seq(Given) /\ b[k].out \in Given \union {NoValue}
            /\ o.in = [i \in 1 .. Len(b[k].in) |-> Renamed(b, k, b[k].in[i])]
            /\ Len(o.in) = Len(b[k].in) /\ Len(o.in) \in Nat
            /\ \A i \in 1 .. Len(o.in) : o.in[i] = Renamed(b, k, b[k].in[i])
<1> DEFINE in == b[k].in
           N == Names
           G == Given
           U == Given \union {NoValue}
           O == Ops(Given)
           f(v) == Renamed(b, k, v)
           new == [i \in DOMAIN in |-> f(in[i])]
<1>1. b[k] \in [op : N, in : Seq(G), out : U]
  <2>1. b[k] \in O
    <3>1. b \in Seq(O)
      OBVIOUS
    <3> HIDE DEF O
    <3> QED BY <3>1
  <2> QED BY <2>1 DEF Ops
<1>2. Adapted(b, k) = [b[k] EXCEPT !.in = new]
  BY DEF Adapted
<1> HIDE DEF N, G, U, f
<1>3. in \in Seq(G) /\ b[k].out \in U
  BY <1>1
<1> HIDE DEF in
<1>4. DOMAIN in = 1 .. Len(in) /\ Len(in) \in Nat
  BY <1>3
<1>5. new = [i \in 1 .. Len(in) |-> f(in[i])]
  BY <1>4
<1>6. Len(new) = Len(in) /\ \A i \in 1 .. Len(in) : new[i] = f(in[i])
  BY <1>4, <1>5
<1> HIDE DEF new
<1>7. [b[k] EXCEPT !.in = new].in = new /\ [b[k] EXCEPT !.in = new].op = b[k].op
      /\ [b[k] EXCEPT !.in = new].out = b[k].out
  BY <1>1
<1> QED BY <1>2, <1>3, <1>4, <1>5, <1>6, <1>7 DEF in, G, U, f

\* Where the operations of a body b went in c; the copies for one are before it.
Places(b, vs, c, pos) ==
  /\ \A k \in 1 .. Len(b) : pos[k] \in 1 .. Len(c) /\ c[pos[k]] = Adapted(b, k)
  /\ \A j, k \in 1 .. Len(b) : j < k => pos[j] < pos[k]
  /\ \A p \in 1 .. Len(c) : \E k \in 1 .. Len(b) :
       \/ p = pos[k]
       \/ p < pos[k] /\ (\A j \in 1 .. k - 1 : pos[j] < p) /\ CopyFor(b, vs, k, c[p])
  /\ \A k \in 1 .. Len(b) : \A v \in vs : Copies(b, v, k) > 0 =>
       \E p \in 1 .. pos[k] - 1 : c[p].out = Copy(v, k, 1)

\* A body and its copies, laid out.
LEMMA CopiedIs ==
  ASSUME NEW t, NEW b, NEW n, NEW final, Plain(t, b, n, final), NEW args \in Nat,
         NEW c, c = InsertCopies(b, args)
  PROVE  Once(c) /\ \E pos : Places(b, Inputs(args, n), c, pos)
<1> DEFINE L == Len(b)
           S == Ops(Held) \union {Adapted(b, k) : k \in 1 .. L}
           I == Inputs(args, n)
           pre(k) == Prefix(b, args, k)
           own(k) == Adapted(b, k)
           part(k) == pre(k) \o <<own(k)>>
           ss == [k \in 1 .. L |-> part(k)]
<1>1. DOMAIN b = 1 .. L /\ L \in Nat /\ b \in Seq(Ops(Given))
  <2> DEFINE O == Ops(Given)
  <2>1. b \in Seq(O)
    BY DEF Plain
  <2> HIDE DEF O
  <2>2. DOMAIN b = 1 .. Len(b) /\ Len(b) \in Nat
    BY <2>1
  <2> QED BY <2>1, <2>2 DEF O
<1>2. c = FlattenSeq(ss)
  <2>1. Parts(b, args) = [k \in DOMAIN b |-> part(k)]
    BY Zenon DEF Parts
  <2>2. Parts(b, args) = ss
    <3> HIDE DEF L, part
    <3> QED BY <1>1, <2>1
  <2> QED BY <2>2, PartsAre
<1>3. \A k \in 1 .. L :
        /\ pre(k) \in Seq(S) /\ Once(pre(k))
        /\ \A o \in ToSet(pre(k)) : CopyFor(b, I, k, o)
        /\ \A v \in I : Copies(b, v, k) > 0 => \E o \in ToSet(pre(k)) : o.out = Copy(v, k, 1)
  <2> SUFFICES ASSUME NEW k \in 1 .. L
               PROVE  /\ pre(k) \in Seq(S) /\ Once(pre(k))
                      /\ \A o \in ToSet(pre(k)) : CopyFor(b, I, k, o)
                      /\ \A v \in I : Copies(b, v, k) > 0 => \E o \in ToSet(pre(k)) : o.out = Copy(v, k, 1)
    OBVIOUS
  <2> DEFINE O == Ops(Held)
  <2>1. /\ pre(k) \in Seq(O) /\ Once(pre(k))
        /\ \A o \in ToSet(pre(k)) : CopyFor(b, I, k, o)
        /\ \A v \in I : Copies(b, v, k) > 0 => \E o \in ToSet(pre(k)) : o.out = Copy(v, k, 1)
    BY PrefixIs
  <2> HIDE DEF pre, L, I
  <2>2. O \subseteq S
    OBVIOUS
  <2> HIDE DEF O, S
  <2>3. pre(k) \in Seq(S)
    BY <2>1, <2>2
  <2> QED BY <2>1, <2>3
<1>4. \A k \in 1 .. L : own(k) \in S /\ own(k).out = b[k].out
  BY <1>1, AdaptedIs
<1>5. \A k \in 1 .. L : b[k].out = NoValue \/ b[k].out = Result(k)
  BY <1>1 DEF Plain, Computes
<1> HIDE DEF I, S, pre, own, L
<1>6. ASSUME NEW k \in 1 .. L
      PROVE  /\ part(k) \in Seq(S) /\ Len(part(k)) = Len(pre(k)) + 1 /\ Len(pre(k)) \in Nat
             /\ \A x \in 1 .. Len(pre(k)) : part(k)[x] = pre(k)[x] /\ pre(k)[x] \in ToSet(pre(k))
             /\ part(k)[Len(part(k))] = own(k)
  <2> DEFINE a == pre(k)
             e == <<own(k)>>
  <2>1. a \in Seq(S) /\ e \in Seq(S) /\ Len(e) = 1 /\ e[1] = own(k)
    BY <1>3, <1>4
  <2>2. part(k) = a \o e
    OBVIOUS
  <2> HIDE DEF a, e, part
  <2>3. part(k) \in Seq(S) /\ Joins(a, e, part(k))
    BY <2>1, <2>2, JoinIs
  <2>4. (\A x \in 1 .. Len(a) : a[x] \in ToSet(a)) /\ Len(a) \in Nat
    BY <2>1, AtIn
  <2>5. 1 \in 1 .. Len(e) /\ Len(part(k)) = Len(a) + 1
    BY <2>1, <2>3 DEF Joins
  <2>6. part(k)[Len(a) + 1] = own(k)
    BY <2>1, <2>3, <2>5 DEF Joins
  <2>7. \A x \in 1 .. Len(a) : part(k)[x] = a[x]
    BY <2>3 DEF Joins
  <2> QED BY <2>3, <2>4, <2>5, <2>6, <2>7 DEF a
<1>7. ASSUME NEW k \in 1 .. L, NEW x \in 1 .. Len(part(k))
      PROVE  \/ x = Len(part(k)) /\ part(k)[x] = own(k)
             \/ x \in 1 .. Len(pre(k)) /\ part(k)[x] = pre(k)[x] /\ CopyFor(b, I, k, part(k)[x])
  <2> HIDE DEF part
  <2>1. x = Len(part(k)) \/ x \in 1 .. Len(pre(k))
    BY <1>6
  <2> QED BY <1>3, <1>6, <2>1
<1>8. ASSUME NEW k \in 1 .. L, NEW x \in 1 .. Len(part(k)), part(k)[x].out # NoValue
      PROVE  \/ part(k)[x].out = Result(k)
             \/ \E v, i : part(k)[x].out = Copy(v, k, i)
  <2> HIDE DEF part
  <2>1. CASE part(k)[x] = own(k)
    BY <1>4, <1>5, <1>8, <2>1
  <2>2. CASE CopyFor(b, I, k, part(k)[x])
    <3>1. PICK v \in I : \E i \in 1 .. Copies(b, v, k) : part(k)[x] \in ToSet(CopyOps(v, k, i))
      BY <2>2 DEF CopyFor
    <3>2. PICK i : part(k)[x] \in ToSet(CopyOps(v, k, i))
      BY <3>1
    <3> QED BY <1>8, <3>2, CopyOut
  <2> QED BY <1>7, <2>1, <2>2
<1> HIDE DEF ss
<1>9. ss \in Seq(Seq(S)) /\ Len(ss) = L /\ \A k \in 1 .. L : ss[k] = part(k)
  <2> HIDE DEF part
  <2>1. \A k \in 1 .. L : part(k) \in Seq(S)
    BY <1>6
  <2> QED BY <1>1, <2>1 DEF ss
<1>10. \A k \in 1 .. Len(ss) : Once(ss[k])
  <2> SUFFICES ASSUME NEW k \in 1 .. L PROVE Once(part(k))
    BY <1>9
  <2>1. pre(k) \in Seq(S) /\ own(k) \in S /\ Once(pre(k))
    BY <1>3, <1>4
  <2>2. ASSUME NEW x \in 1 .. Len(pre(k)), pre(k)[x].out # NoValue PROVE pre(k)[x].out # own(k).out
    <3>1. CopyFor(b, I, k, pre(k)[x])
      BY <1>3, <1>6
    <3>2. PICK v \in I : \E i \in 1 .. Copies(b, v, k) : pre(k)[x] \in ToSet(CopyOps(v, k, i))
      BY <3>1 DEF CopyFor
    <3>3. PICK i : pre(k)[x] \in ToSet(CopyOps(v, k, i))
      BY <3>2
    <3>4. pre(k)[x].out = Copy(v, k, i)
      BY <2>2, <3>3, CopyOut
    <3>5. Copy(v, k, i) # Result(k) /\ Copy(v, k, i) # NoValue
      BY DEF Copy, Result, NoValue
    <3>6. own(k).out = NoValue \/ own(k).out = Result(k)
      BY <1>4, <1>5
    <3> QED BY <3>4, <3>5, <3>6, Zenon
  <2> QED BY <2>1, <2>2, OnceJoin
<1>11. Unshared(ss)
  <2> SUFFICES ASSUME NEW i \in 1 .. Len(ss), NEW j \in 1 .. Len(ss),
                      NEW x \in 1 .. Len(ss[i]), NEW y \in 1 .. Len(ss[j]),
                      ss[i][x].out = ss[j][y].out, ss[i][x].out # NoValue
               PROVE  i = j
    BY Zenon DEF Unshared
  <2> DEFINE u == ss[i][x].out
             w == ss[j][y].out
  <2>1. i \in 1 .. L /\ j \in 1 .. L /\ ss[i] = part(i) /\ ss[j] = part(j)
    BY <1>9
  <2> HIDE DEF part
  <2>2. u = Result(i) \/ \E v, e : u = Copy(v, i, e)
    BY <1>8, <2>1
  <2>3. w = Result(j) \/ \E v, e : w = Copy(v, j, e)
    BY <1>8, <2>1
  <2>4. u = w
    OBVIOUS
  <2>5. \A v, e, k, l : Copy(v, k, e) # Result(l)
    BY DEF Copy, Result
  <2> HIDE DEF u, w
  <2> QED BY <2>2, <2>3, <2>4, <2>5, CopiesDiffer, NamesDiffer
<1>12. Once(c)
  BY <1>2, <1>9, <1>10, <1>11, OnceFlat
<1>13. PICK off : Layout(off, ss, c)
  BY <1>2, <1>9, FlattenLayout
<1> DEFINE pos == [k \in 1 .. L |-> off[k] + Len(part(k))]
<1> HIDE DEF part
<1>14. /\ \A k \in 1 .. L : off[k + 1] = off[k] + Len(part(k)) /\ off[k] \in Nat
       /\ \A k \in 1 .. L : \A x \in 1 .. Len(part(k)) :
            off[k] + x \in 1 .. Len(c) /\ c[off[k] + x] = part(k)[x]
  <2>1. Len(ss) = L /\ \A k \in 1 .. L : ss[k] = part(k)
    BY <1>9
  <2>2. /\ off \in [1 .. Len(ss) + 1 -> Nat]
        /\ \A i \in 1 .. Len(ss) : off[i + 1] = off[i] + Len(ss[i])
        /\ \A i \in 1 .. Len(ss) : \A j \in 1 .. Len(ss[i]) :
             off[i] + j \in 1 .. Len(c) /\ c[off[i] + j] = ss[i][j]
    BY <1>13, Zenon DEF Layout
  <2>3. L \in Nat
    BY <1>1
  <2>4. \A k \in 1 .. L : off[k + 1] = off[k] + Len(part(k)) /\ off[k] \in Nat
    BY <2>1, <2>2, <2>3
  <2>5. \A k \in 1 .. L : \A x \in 1 .. Len(part(k)) :
          off[k] + x \in 1 .. Len(c) /\ c[off[k] + x] = part(k)[x]
    BY <2>1, <2>2, ZenonT(40)
  <2> QED BY <2>4, <2>5
<1>15. ASSUME NEW j \in 1 .. L, NEW k \in 1 .. L, j < k PROVE pos[j] <= off[k]
  <2>1. j + 1 \in 1 .. Len(ss) + 1 /\ k \in 1 .. Len(ss) + 1 /\ j + 1 <= k
    BY <1>1, <1>9, <1>15
  <2>2. off[j + 1] <= off[k]
    BY <1>9, <1>13, <2>1, LayoutGrows
  <2> QED BY <1>14, <2>2
<1>16. \A k \in 1 .. L : pos[k] \in Nat /\ pos[k] = off[k] + Len(part(k)) /\ Len(part(k)) = Len(pre(k)) + 1
                         /\ Len(pre(k)) \in Nat /\ Len(part(k)) \in 1 .. Len(part(k))
  BY <1>6, <1>14
<1> HIDE DEF pos
<1>17. ASSUME NEW k \in 1 .. L PROVE pos[k] \in 1 .. Len(c) /\ c[pos[k]] = own(k)
  BY <1>6, <1>14, <1>16, SMTT(30)
<1>18. ASSUME NEW j \in 1 .. L, NEW k \in 1 .. L, j < k PROVE pos[j] < pos[k]
  <2>1. pos[j] <= off[k] /\ off[k] \in Nat /\ pos[j] \in Nat
    BY <1>14, <1>15, <1>16, <1>18
  <2>2. off[k] < pos[k]
    BY <1>14, <1>16, SMTT(30)
  <2>3. pos[k] \in Nat
    BY <1>16
  <2> QED BY <2>1, <2>2, <2>3
<1>19. ASSUME NEW p \in 1 .. Len(c)
       PROVE  \E k \in 1 .. L : \/ p = pos[k]
                                \/ p < pos[k] /\ (\A j \in 1 .. k - 1 : pos[j] < p) /\ CopyFor(b, I, k, c[p])
  <2>a. FlatIn(off, ss, c, p)
    BY <1>13, FlatAt
  <2>1. PICK k \in 1 .. Len(ss) : \E x \in 1 .. Len(ss[k]) :
          p = off[k] + x /\ c[p] = ss[k][x] /\ off[k + 1] = off[k] + Len(ss[k])
    BY <2>a, Zenon DEF FlatIn
  <2>2. PICK x \in 1 .. Len(ss[k]) : p = off[k] + x /\ c[p] = ss[k][x]
    BY <2>1
  <2>3. k \in 1 .. L /\ ss[k] = part(k)
    BY <1>9
  <2>4. CASE x = Len(part(k))
    BY <1>16, <2>2, <2>3, <2>4
  <2>5. CASE x \in 1 .. Len(pre(k)) /\ CopyFor(b, I, k, part(k)[x])
    <3>1. p < pos[k] /\ off[k] < p
      BY <1>14, <1>16, <2>2, <2>3, <2>5, SMTT(30)
    <3>2. ASSUME NEW j \in 1 .. k - 1 PROVE pos[j] < p
      <4>1. j \in 1 .. L /\ j < k
        BY <1>1, <2>3
      <4>2. pos[j] <= off[k] /\ pos[j] \in Nat /\ off[k] \in Nat /\ p \in Nat
        BY <1>14, <1>15, <1>16, <2>3, <4>1
      <4> QED BY <3>1, <4>2
    <3> QED BY <2>2, <2>3, <2>5, <3>1, <3>2
  <2> QED BY <1>7, <2>2, <2>3, <2>4, <2>5
<1>20. ASSUME NEW k \in 1 .. L, NEW v \in I, Copies(b, v, k) > 0
       PROVE  \E p \in 1 .. pos[k] - 1 : c[p].out = Copy(v, k, 1)
  <2>1. PICK o \in ToSet(pre(k)) : o.out = Copy(v, k, 1)
    BY <1>3, <1>20
  <2>2. PICK x \in 1 .. Len(pre(k)) : pre(k)[x] = o
    BY <1>3, <2>1, AtIn
  <2>3. x \in 1 .. Len(part(k)) /\ part(k)[x] = o
    BY <1>6, <1>16, <2>2
  <2>4. off[k] + x \in 1 .. pos[k] - 1
    BY <1>14, <1>16, <2>2, SMTT(30)
  <2>5. c[off[k] + x] = o
    BY <1>14, <2>3
  <2> QED BY <2>1, <2>4, <2>5
<1>21. Places(b, I, c, pos)
  BY <1>17, <1>18, <1>19, <1>20 DEF Places, L, own
<1> QED BY <1>12, <1>21 DEF I

\* A body b of t laid out in c with its copies, none of which copies a result.
Laid(t, b, n, final, c, pos) ==
  /\ Plain(t, b, n, final) /\ Once(c) /\ Places(b, Inputs(Len(Tensors(t)), n), c, pos)
  /\ Len(Tensors(t)) \in Nat /\ Len(c) \in Nat
  /\ \A p \in 1 .. Len(c) : c[p].op # "copy_dst"

\* Operations of a trace's values are operations of those of a body.
LEMMA GivenHeld ==
  ASSUME NEW b \in Seq(Ops(Given)) PROVE b \in Seq(Ops(Held)) /\ DOMAIN b = 1 .. Len(b) /\ Len(b) \in Nat
<1> DEFINE O == Ops(Given)
           H == Ops(Held)
<1>1. O \subseteq H
  <2> SUFFICES ASSUME NEW o \in O PROVE o \in H
    OBVIOUS
  <2> DEFINE G == Given
             D == Held
             N == Names
             x == NoValue
  <2>1. o \in [op : N, in : Seq(G), out : G \union {x}] /\ Fits(o)
    BY DEF Ops
  <2>2. G \subseteq D
    BY DEF Held
  <2> HIDE DEF G, D, N, x
  <2>3. Seq(G) \subseteq Seq(D)
    BY <2>2
  <2>4. o \in [op : N, in : Seq(D), out : D \union {x}]
    BY <2>1, <2>2, <2>3
  <2> QED BY <2>1, <2>4 DEF Ops, D, N, x
<1> HIDE DEF O, H
<1>2. b \in Seq(O)
  BY DEF O
<1>3. b \in Seq(H) /\ DOMAIN b = 1 .. Len(b) /\ Len(b) \in Nat
  BY <1>1, <1>2
<1> QED BY <1>3 DEF H

\* An operation that uses a value has it as an operand.
LEMMA UsesThen ==
  ASSUME NEW ops, NEW v, NEW k \in Uses(ops, v)
  PROVE  k \in DOMAIN ops /\ \E i \in DOMAIN Operands(ops[k]) : ops[k].in[i] = v
<1> DEFINE I == {i \in DOMAIN Operands(ops[k]) : ops[k].in[i] = v}
<1>1. k \in DOMAIN ops /\ Cardinality(I) > 0
  BY DEF Uses, Times
<1>2. I # {}
  <2> SUFFICES ASSUME I = {} PROVE FALSE
    OBVIOUS
  <2> QED BY <1>1, FS_EmptySet
<1> QED BY <1>1, <1>2

\* The operands of the operations of a body.
LEMMA PlainOperand ==
  ASSUME NEW t, NEW b, NEW n, NEW final, Plain(t, b, n, final), Len(Tensors(t)) \in Nat,
         NEW k \in 1 .. Len(b), NEW i \in 1 .. Len(b[k].in)
  PROVE  /\ b[k].in[i] \in Inputs(Len(Tensors(t)), n) /\ b[k].in[i] \in Given
         /\ (\E m \in 1 .. Len(Tensors(t)) : b[k].in[i] = Arg(m))
            \/ \E j \in 1 .. k - 1 : j <= n /\ b[k].in[i] = Result(j)
         /\ k > n => b[k].in[i] = final
<1> DEFINE v == b[k].in[i]
           args == Len(Tensors(t))
<1>1. n \in Nat /\ Len(b) \in Nat /\ n < Len(b)
  BY DEF Plain
<1>2. (\E m \in 1 .. args : v = Arg(m)) \/ \E j \in 1 .. k - 1 : j <= n /\ v = Result(j)
  <2>1. CASE k <= n
    <3>1. Known(Tensors(t), v, k)
      BY <1>1, <2>1 DEF Plain, Computes
    <3> HIDE DEF v
    <3> QED BY <1>1, <2>1, <3>1 DEF Known
  <2>2. CASE k > n
    <3>1. v = final
      BY <1>1, <2>2 DEF Plain
    <3>2. Known(Tensors(t), final, n + 1)
      BY DEF Plain
    <3> HIDE DEF v
    <3> QED BY <1>1, <2>2, <3>1, <3>2 DEF Known
  <2> QED BY <1>1, <2>1, <2>2
<1>3. k > n => v = final
  BY <1>1 DEF Plain
<1> HIDE DEF v
<1>4. v \in Inputs(args, n) /\ v \in Given
  BY <1>1, <1>2 DEF Inputs, Given
<1> QED BY <1>2, <1>3, <1>4 DEF v

\* What is stored is not copied: no unary operator overwrites it.
LEMMA FinalNotCopied ==
  ASSUME NEW t, NEW b, NEW n, NEW final, Plain(t, b, n, final), Len(Tensors(t)) \in Nat, NEW k
  PROVE  Copies(b, final, k) = 0 /\ Renamed(b, k, final) = final
<1>1. ~NeedsCopies(b, final)
  <2> SUFFICES ASSUME NEW j \in Uses(b, final), IsUnary(b[j]) PROVE FALSE
    BY DEF NeedsCopies
  <2>1. b \in Seq(Ops(Given)) /\ n \in Nat /\ Len(b) \in Nat
    BY DEF Plain
  <2>2. j \in DOMAIN b /\ \E i \in DOMAIN Operands(b[j]) : b[j].in[i] = final
    BY UsesThen
  <2>3. j \in 1 .. Len(b)
    BY <2>1, <2>2, GivenHeld
  <2>4. CASE j > n
    BY <2>1, <2>3, <2>4, OperatorsAssumption DEF Plain, IsUnary
  <2>5. CASE j <= n
    <3>1. final = Result(n)
      BY <2>3, <2>5 DEF Plain
    <3>2. PICK i \in DOMAIN Operands(b[j]) : b[j].in[i] = final
      BY <2>2
    <3>3. b[j].in \in Seq(Given)
      BY <2>1, <2>3, AdaptedIs
    <3>4. i \in 1 .. Len(b[j].in)
      <4> DEFINE s == b[j].in
      <4>1. s \in Seq(Given) /\ DOMAIN Operands(b[j]) \subseteq DOMAIN s
        BY <3>3 DEF Operands
      <4> HIDE DEF s
      <4>2. DOMAIN s = 1 .. Len(s)
        BY <4>1
      <4> QED BY <4>1, <4>2 DEF s
    <3>5. (\E m \in 1 .. Len(Tensors(t)) : final = Arg(m)) \/ \E l \in 1 .. j - 1 : final = Result(l)
      <4> DEFINE v == b[j].in[i]
      <4>1. (\E m \in 1 .. Len(Tensors(t)) : v = Arg(m)) \/ \E l \in 1 .. j - 1 : l <= n /\ v = Result(l)
        BY <2>3, <3>4, PlainOperand
      <4>2. v = final
        BY <3>2
      <4> HIDE DEF v
      <4> QED BY <4>1, <4>2
    <3> QED BY <2>1, <2>3, <2>5, <3>1, <3>5, NamesDiffer
  <2> QED BY <2>1, <2>3, <2>4, <2>5
<1> QED BY <1>1 DEF Copies, Renamed

\* The operation of the body at p reads v, or what v is a copy of.
ReadBy(b, pos, k, p, v) ==
  /\ p = pos[k] /\ ~CBInput(b[k])
  /\ \E i \in 1 .. Len(b[k].in) : v = Renamed(b, k, b[k].in[i]) /\ k \in Uses(b, b[k].in[i])

\* What an operation of the body reads from registers.
LEMMA NeedsOwn ==
  ASSUME NEW t, NEW b, NEW n, NEW final, NEW c, NEW pos, Laid(t, b, n, final, c, pos),
         NEW k \in 1 .. Len(b), NEW v, Needs(c, pos[k], v)
  PROVE  ReadBy(b, pos, k, pos[k], v)
<1> DEFINE o == Adapted(b, k)
           s == b[k].in
           f(x) == Renamed(b, k, x)
<1>1. b \in Seq(Ops(Given)) /\ c[pos[k]] = o
  BY DEF Laid, Plain, Places
<1>2. /\ o.op = b[k].op /\ s \in Seq(Given) /\ Len(o.in) = Len(s)
      /\ \A i \in 1 .. Len(o.in) : o.in[i] = f(s[i])
  BY <1>1, AdaptedIs
<1>3. Contains(Operands(o), v)
  BY <1>1, Zenon DEF Needs
<1>4. ~CBInput(b[k])
  <2> SUFFICES ASSUME CBInput(b[k]) PROVE FALSE
    OBVIOUS
  <2>1. Operands(o) = << >>
    BY <1>2 DEF Operands, CBInput
  <2>2. ~Contains(<< >>, v)
    BY DEF Contains
  <2> QED BY <1>3, <2>1, <2>2, Zenon
<1>5. Operands(o) = o.in /\ Operands(b[k]) = s
  BY <1>2, <1>4 DEF Operands, CBInput
<1> HIDE DEF o, s, f
<1>6. PICK i \in 1 .. Len(s) : v = f(s[i])
  BY <1>2, <1>3, <1>5 DEF Contains
<1>7. k \in Uses(b, s[i])
  <2>1. b \in Seq(Ops(Held)) /\ k \in DOMAIN b
    BY <1>1, GivenHeld
  <2>2. s[i] \in ToSet(Operands(b[k]))
    BY <1>2, <1>5, AtIn
  <2> QED BY <2>1, <2>2, UsesIs
<1> QED BY <1>4, <1>6, <1>7 DEF ReadBy, s, f

\* A copy: of an input, for the operation k, with the constants before it.
LoadFor(b, args, k, o) ==
  \/ o.op = "constant" /\ o.in = << >> /\ o.out = NoValue
     /\ \E m \in 1 .. args : Copies(b, Arg(m), k) > 0
  \/ \E m \in 1 .. args : \E i \in 1 .. Copies(b, Arg(m), k) :
       Copies(b, Arg(m), k) > 0 /\ o.op = "copy_tile" /\ o.in = <<Arg(m)>> /\ o.out = Copy(Arg(m), k, i)

\* Every operation is one of the body, or makes a copy of an input.
LEMMA KindsOf ==
  ASSUME NEW t, NEW b, NEW n, NEW final, NEW c, NEW pos, Laid(t, b, n, final, c, pos),
         NEW p \in 1 .. Len(c)
  PROVE  \E k \in 1 .. Len(b) :
           \/ p = pos[k]
           \/ p < pos[k] /\ (\A j \in 1 .. k - 1 : pos[j] < p) /\ LoadFor(b, Len(Tensors(t)), k, c[p])
<1> DEFINE args == Len(Tensors(t))
<1>1. PICK k \in 1 .. Len(b) :
        \/ p = pos[k]
        \/ p < pos[k] /\ (\A j \in 1 .. k - 1 : pos[j] < p) /\ CopyFor(b, Inputs(args, n), k, c[p])
  BY DEF Laid, Places
<1>2. ASSUME CopyFor(b, Inputs(args, n), k, c[p]) PROVE LoadFor(b, args, k, c[p])
  <2>1. PICK v \in Inputs(args, n) : \E i \in 1 .. Copies(b, v, k) : c[p] \in ToSet(CopyOps(v, k, i))
    BY <1>2 DEF CopyFor
  <2>2. PICK i \in 1 .. Copies(b, v, k) : c[p] \in ToSet(CopyOps(v, k, i))
    BY <2>1
  <2>3. c[p].op # "copy_dst"
    BY DEF Laid
  <2>4. IsArg(v) /\ \/ c[p].op = "constant" /\ c[p].in = << >> /\ c[p].out = NoValue
                    \/ c[p].op = "copy_tile" /\ c[p].in = <<v>> /\ c[p].out = Copy(v, k, i)
    BY <2>2, <2>3, CopyOpsAre
  <2>5. PICK m \in 1 .. args : v = Arg(m)
    BY <2>1, <2>4, NamesDiffer DEF Inputs
  <2>6. Copies(b, v, k) > 0
    <3>1. b \in Seq(Ops(Given)) /\ k \in DOMAIN b
      BY GivenHeld DEF Laid, Plain
    <3>2. Copies(b, v, k) \in Nat
      BY <3>1, CopiesCount
    <3> QED BY <2>2, <3>2
  <2> QED BY <2>2, <2>4, <2>5, <2>6 DEF LoadFor
<1> QED BY <1>1, <1>2

\* A copy of an input reads no register.
LEMMA LoadReads ==
  ASSUME NEW c, NEW p, NEW b, NEW args, NEW k, LoadFor(b, args, k, c[p]), NEW v
  PROVE  ~Needs(c, p, v)
<1>1. CASE c[p].op = "constant" /\ c[p].in = << >>
  <2>1. Operands(c[p]) = << >>
    BY <1>1 DEF Operands
  <2>2. ~Contains(<< >>, v)
    BY DEF Contains
  <2> QED BY <2>1, <2>2, Zenon DEF Needs
<1>2. CASE c[p].op = "copy_tile"
  BY <1>2 DEF Needs
<1> QED BY <1>1, <1>2 DEF LoadFor

\* What reads a register is an operation of the body.
LEMMA ReadsOwn ==
  ASSUME NEW t, NEW b, NEW n, NEW final, NEW c, NEW pos, Laid(t, b, n, final, c, pos),
         NEW p \in 1 .. Len(c), NEW v, Needs(c, p, v)
  PROVE  \E k \in 1 .. Len(b) : ReadBy(b, pos, k, p, v)
<1>1. PICK k \in 1 .. Len(b) : p = pos[k]
  <2>1. PICK k \in 1 .. Len(b) :
          \/ p = pos[k]
          \/ p < pos[k] /\ (\A j \in 1 .. k - 1 : pos[j] < p) /\ LoadFor(b, Len(Tensors(t)), k, c[p])
    BY KindsOf
  <2>2. ~LoadFor(b, Len(Tensors(t)), k, c[p])
    BY LoadReads, Zenon
  <2> QED BY <2>1, <2>2
<1>2. Needs(c, pos[k], v)
  BY <1>1
<1>3. ReadBy(b, pos, k, pos[k], v)
  BY <1>2, NeedsOwn
<1> QED BY <1>1, <1>3

\* Where an operation of the body is, and what it is there.
OwnAt(b, c, pos, k) ==
  /\ pos[k] \in 1 .. Len(c) /\ c[pos[k]].op = b[k].op /\ c[pos[k]].out = b[k].out
  /\ b[k].in \in Seq(Given) /\ Len(c[pos[k]].in) = Len(b[k].in)
  /\ \A i \in 1 .. Len(b[k].in) : c[pos[k]].in[i] = Renamed(b, k, b[k].in[i])
  /\ c[pos[k]].in = [i \in 1 .. Len(b[k].in) |-> Renamed(b, k, b[k].in[i])]

\* There it is.
LEMMA OwnIs ==
  ASSUME NEW t, NEW b, NEW n, NEW final, NEW c, NEW pos, Laid(t, b, n, final, c, pos),
         NEW k \in 1 .. Len(b)
  PROVE  OwnAt(b, c, pos, k)
<1> DEFINE o == Adapted(b, k)
           s == b[k].in
           f(x) == Renamed(b, k, x)
<1>1. b \in Seq(Ops(Given)) /\ c[pos[k]] = o /\ pos[k] \in 1 .. Len(c)
  BY DEF Laid, Plain, Places
<1>2. /\ o.op = b[k].op /\ o.out = b[k].out /\ s \in Seq(Given) /\ Len(o.in) = Len(s)
      /\ \A i \in 1 .. Len(o.in) : o.in[i] = f(s[i])
      /\ o.in = [i \in 1 .. Len(s) |-> f(s[i])]
  BY <1>1, AdaptedIs
<1> HIDE DEF o, f, s
<1> QED BY <1>1, <1>2, Zenon DEF OwnAt, f, s

\* Copies leave every result to one operation and every value that a unary
\* operation overwrites to that operation (insertCopiesForMultiConsumerValues).
LEMMA LaidSingle ==
  ASSUME NEW t, NEW b, NEW n, NEW final, NEW c, NEW pos, Laid(t, b, n, final, c, pos)
  PROVE  Single(c)
<1> DEFINE args == Len(Tensors(t))
           I == Inputs(args, n)
<1>1. /\ b \in Seq(Ops(Given)) /\ Len(b) \in Nat /\ Len(c) \in Nat /\ n \in Nat /\ args \in Nat /\ n < Len(b)
      /\ \A k \in 1 .. Len(b) : pos[k] \in 1 .. Len(c) /\ c[pos[k]] = Adapted(b, k)
      /\ \A j, k \in 1 .. Len(b) : j < k => pos[j] < pos[k]
      /\ \A k \in 1 .. Len(b) : \A v \in I : Copies(b, v, k) > 0 =>
           \E p \in 1 .. pos[k] - 1 : c[p].out = Copy(v, k, 1)
  BY DEF Laid, Plain, Places
<1>2. \A k \in 1 .. Len(b) : /\ c[pos[k]].op = b[k].op /\ c[pos[k]].out = b[k].out
                             /\ (b[k].out = NoValue \/ b[k].out = Result(k))
                             /\ (k <= n => b[k].out = Result(k))
  <2>1. \A k \in 1 .. Len(b) : c[pos[k]].op = b[k].op /\ c[pos[k]].out = b[k].out
    <3> SUFFICES ASSUME NEW k \in 1 .. Len(b) PROVE c[pos[k]].op = b[k].op /\ c[pos[k]].out = b[k].out
      OBVIOUS
    <3>1. OwnAt(b, c, pos, k)
      BY OwnIs
    <3> QED BY <3>1, Zenon DEF OwnAt
  <2>2. \A k \in 1 .. Len(b) : IF k <= n THEN b[k].out = Result(k) ELSE b[k].out = NoValue
    BY <1>1 DEF Laid, Plain, Computes
  <2> QED BY <2>1, <2>2
<1>3. \A k \in DOMAIN b : k \in 1 .. Len(b)
  BY <1>1, GivenHeld
<1>4. \A j, k \in 1 .. Len(c) : c[j].out = c[k].out /\ c[j].out # NoValue => j = k
  BY Zenon DEF Laid, Once
<1>5. ASSUME NEW p \in 1 .. Len(c) PROVE ~IsArg(c[p].out)
  <2>1. PICK k \in 1 .. Len(b) : p = pos[k] \/ LoadFor(b, args, k, c[p])
    BY KindsOf
  <2>2. ~IsArg(NoValue)
    BY DEF IsArg, NoValue
  <2>3. CASE p = pos[k]
    BY <1>2, <2>2, <2>3, NamesDiffer
  <2>4. CASE LoadFor(b, args, k, c[p])
    BY <2>2, <2>4, CopiesDiffer DEF LoadFor
  <2> QED BY <2>1, <2>3, <2>4
<1>6. ASSUME NEW p \in 1 .. Len(c), NEW v, Needs(c, p, v)
      PROVE  IsArg(v) \/ \E j \in 1 .. p - 1 : c[j].out = v
  <2>1. PICK k \in 1 .. Len(b) : ReadBy(b, pos, k, p, v)
    BY <1>6, ReadsOwn
  <2>2. PICK i \in 1 .. Len(b[k].in) : v = Renamed(b, k, b[k].in[i]) /\ p = pos[k]
    BY <2>1 DEF ReadBy
  <2> DEFINE u == b[k].in[i]
  <2>3. /\ u \in I
        /\ (\E m \in 1 .. args : u = Arg(m)) \/ \E j \in 1 .. k - 1 : j <= n /\ u = Result(j)
    BY PlainOperand DEF Laid
  <2>4. v = Renamed(b, k, u)
    BY <2>2
  <2> HIDE DEF u
  <2>5. CASE Copies(b, u, k) > 0
    <3>1. v = Copy(u, k, 1)
      BY <2>4, <2>5 DEF Renamed
    <3> QED BY <1>1, <2>2, <2>3, <2>5, <3>1
  <2>6. CASE ~(Copies(b, u, k) > 0)
    <3>1. v = u
      BY <2>4, <2>6 DEF Renamed
    <3>2. CASE \E m \in 1 .. args : u = Arg(m)
      BY <3>1, <3>2, NamesDiffer
    <3>3. CASE \E j \in 1 .. k - 1 : j <= n /\ u = Result(j)
      <4>1. PICK j \in 1 .. k - 1 : j <= n /\ u = Result(j)
        BY <3>3
      <4>2. j \in 1 .. Len(b) /\ j < k
        BY <1>1
      <4>3. pos[j] < pos[k] /\ pos[j] \in 1 .. Len(c) /\ pos[k] \in 1 .. Len(c)
        BY <1>1, <4>2
      <4>4. pos[j] \in 1 .. pos[k] - 1
        BY <1>1, <4>3
      <4>5. c[pos[j]].out = v
        BY <1>2, <3>1, <4>1, <4>2
      <4> QED BY <2>2, <4>4, <4>5
    <3> QED BY <2>3, <3>2, <3>3
  <2> QED BY <2>5, <2>6
<1>7. ASSUME NEW q \in 1 .. Len(c), NEW p \in 1 .. Len(c), IsUnary(c[p]), Needs(c, q, c[p].in[1])
      PROVE  q = p
  <2> DEFINE v == c[p].in[1]
  <2>1. PICK k \in 1 .. Len(b) : p = pos[k]
    <3>1. PICK k \in 1 .. Len(b) : p = pos[k] \/ LoadFor(b, args, k, c[p])
      BY KindsOf
    <3>2. ~LoadFor(b, args, k, c[p])
      BY <1>7, OperatorsAssumption DEF LoadFor, IsUnary
    <3> QED BY <3>1, <3>2
  <2>2. IsUnary(b[k]) /\ b[k].op \in Unary
    BY <1>2, <1>7, <2>1 DEF IsUnary
  <2>3. k <= n
    BY <1>1, <2>2, OperatorsAssumption DEF Laid, Plain
  <2>4. Len(b[k].in) = 1
    <3>1. Computes(t, b[k], k)
      BY <1>1, <2>3 DEF Laid, Plain
    <3>2. b[k].op \notin Binary \union MinMax
      BY <2>2, OperatorsAssumption
    <3> QED BY <3>1, <3>2, Zenon DEF Computes
  <2> DEFINE u == b[k].in[1]
  <2>5. u \in I /\ u \in Given
    BY <2>4, PlainOperand DEF Laid
  <2>6. v = Renamed(b, k, u)
    <3>1. 1 \in 1 .. Len(b[k].in)
      BY <2>4
    <3>3. OwnAt(b, c, pos, k)
      BY OwnIs
    <3>2. c[pos[k]].in[1] = Renamed(b, k, b[k].in[1])
      BY <3>1, <3>3, Zenon DEF OwnAt
    <3> QED BY <2>1, <3>2
  <2>7. k \in Uses(b, u)
    <3>1. ~CBInput(b[k])
      BY <2>2, OperatorsAssumption DEF CBInput
    <3>2. Operands(b[k]) = b[k].in /\ b[k].in \in Seq(Given)
      BY <3>1, OwnIs DEF Operands, OwnAt
    <3>3. u \in ToSet(Operands(b[k]))
      BY <2>4, <3>2, AtIn
    <3> QED BY <1>1, <3>3, GivenHeld, UsesIs
  <2>8. Needs(c, q, v)
    BY <1>7
  <2> HIDE DEF v
  <2>9. PICK l \in 1 .. Len(b) : ReadBy(b, pos, l, q, v)
    BY <2>8, ReadsOwn
  <2>10. PICK i \in 1 .. Len(b[l].in) : v = Renamed(b, l, b[l].in[i]) /\ l \in Uses(b, b[l].in[i])
    BY <2>9 DEF ReadBy
  <2> DEFINE w == b[l].in[i]
  <2>11. w \in Given
    BY PlainOperand DEF Laid
  <2>12. v = Renamed(b, l, w) /\ l \in Uses(b, w)
    BY <2>10
  <2> HIDE DEF u, w
  <2>13. k = l
    <3>1. CASE Copies(b, u, k) > 0
      <4>1. v = Copy(u, k, 1)
        BY <2>6, <3>1 DEF Renamed
      <4>2. v = Copy(w, l, 1) \/ v = w
        BY <2>12 DEF Renamed
      <4> QED BY <2>11, <4>1, <4>2, CopiesDiffer
    <3>2. CASE ~(Copies(b, u, k) > 0)
      <4>1. v = u
        BY <2>6, <3>2 DEF Renamed
      <4>2. w = u /\ ~(Copies(b, u, l) > 0)
        <5>1. CASE Copies(b, w, l) > 0
          BY <2>5, <2>12, <4>1, <5>1, CopiesDiffer DEF Renamed
        <5>2. CASE ~(Copies(b, w, l) > 0)
          BY <2>12, <4>1, <5>2 DEF Renamed
        <5> QED BY <5>1, <5>2
      <4>3. l \in Uses(b, u)
        BY <2>12, <4>2
      <4>4. CASE NeedsCopies(b, u)
        <5>1. \A j \in Uses(b, u) : j # Max(Uses(b, u)) => Copies(b, u, j) > 0
          BY <4>4 DEF Copies, Uses
        <5> QED BY <2>7, <3>2, <4>2, <4>3, <5>1
      <4>5. CASE ~NeedsCopies(b, u)
        <5>1. ~(Cardinality(Uses(b, u)) > 1)
          BY <2>2, <2>7, <4>5 DEF NeedsCopies
        <5>2. IsFiniteSet(Uses(b, u))
          <6>1. IsFiniteSet(1 .. Len(b)) /\ Uses(b, u) \subseteq 1 .. Len(b)
            <7>1. b \in Seq(Ops(Held)) /\ 1 \in Int /\ Len(b) \in Int
              BY <1>1, GivenHeld
            <7>2. IsFiniteSet(1 .. Len(b))
              BY <7>1, FS_Interval
            <7>3. Uses(b, u) \subseteq 1 .. Len(b)
              BY <7>1, UsesIs
            <7> QED BY <7>2, <7>3
          <6> QED BY <6>1, FS_Subset
        <5> DEFINE U == Uses(b, u)
        <5>3. k \in U /\ l \in U
          BY <2>7, <4>3
        <5>4. IsFiniteSet(U) /\ ~(Cardinality(U) > 1)
          BY <5>1, <5>2
        <5> HIDE DEF U
        <5>5. Cardinality(U) \in Nat
          BY <5>4, FS_CardinalityType
        <5>6. Cardinality(U) = 0 \/ Cardinality(U) = 1
          BY <5>4, <5>5
        <5>7. U = {} \/ \E x : U = {x}
          BY <5>4, <5>6, FS_EmptySet, FS_Singleton
        <5> QED BY <5>3, <5>7
      <4> QED BY <4>4, <4>5
    <3> QED BY <3>1, <3>2
  <2> QED BY <2>1, <2>9, <2>13 DEF ReadBy
<1>8. \A j, k \in 1 .. Len(c) : IsUnary(c[k]) /\ Needs(c, j, c[k].in[1]) => j = k
  BY <1>7
<1> QED BY <1>4, <1>5, <1>6, <1>8 DEF Single

\* Nothing is copied after a store.
LEMMA LaidEnds ==
  ASSUME NEW t, NEW b, NEW n, NEW final, NEW c, NEW pos, Laid(t, b, n, final, c, pos)
  PROVE  Ends(c)
<1> DEFINE args == Len(Tensors(t))
<1>1. /\ Len(b) \in Nat /\ Len(c) \in Nat /\ n \in Nat /\ args \in Nat /\ n < Len(b)
      /\ \A k \in 1 .. Len(b) : pos[k] \in 1 .. Len(c)
      /\ \A j, k \in 1 .. Len(b) : j < k => pos[j] < pos[k]
      /\ b \in Seq(Ops(Given)) /\ Plain(t, b, n, final)
  BY DEF Laid, Plain, Places
<1>2. \A k \in 1 .. Len(b) : c[pos[k]].op = b[k].op
  <2> SUFFICES ASSUME NEW k \in 1 .. Len(b) PROVE c[pos[k]].op = b[k].op
    OBVIOUS
  <2>1. OwnAt(b, c, pos, k)
    BY OwnIs
  <2> QED BY <2>1, Zenon DEF OwnAt
<1>3. ASSUME NEW p \in 1 .. Len(c), NEW q \in 1 .. Len(c), p < q, c[p].op = "tile_store"
      PROVE  c[q].op \in {"tile_store", "yield"}
  <2>1. PICK k \in 1 .. Len(b) : p = pos[k]
    <3>1. PICK k \in 1 .. Len(b) :
            \/ p = pos[k]
            \/ p < pos[k] /\ (\A j \in 1 .. k - 1 : pos[j] < p) /\ LoadFor(b, args, k, c[p])
      BY KindsOf
    <3>2. ~LoadFor(b, args, k, c[p])
      BY <1>3 DEF LoadFor
    <3> QED BY <3>1, <3>2
  <2>2. k > n
    <3> SUFFICES ASSUME k <= n PROVE FALSE
      BY <1>1
    <3>1. Computes(t, b[k], k)
      BY <1>1 DEF Plain
    <3>2. b[k].op \in Operators
      BY <3>1 DEF Computes
    <3>3. b[k].op = "tile_store"
      BY <1>2, <1>3, <2>1
    <3> QED BY <3>2, <3>3, OperatorsAssumption DEF Operators
  <2>3. PICK l \in 1 .. Len(b) :
          \/ q = pos[l]
          \/ q < pos[l] /\ (\A j \in 1 .. l - 1 : pos[j] < q) /\ LoadFor(b, args, l, c[q])
    BY KindsOf
  <2>4. q <= pos[l]
    BY <1>1, <2>3
  <2>5. ~(l < k)
    <3> SUFFICES ASSUME l < k PROVE FALSE
      OBVIOUS
    <3>1. pos[l] < pos[k] /\ pos[l] \in 1 .. Len(c) /\ pos[k] \in 1 .. Len(c)
      BY <1>1
    <3> QED BY <1>1, <1>3, <2>1, <2>4, <3>1
  <2>6. l > n /\ l \in n + 1 .. Len(b)
    BY <1>1, <2>2, <2>5
  <2>7. CASE q = pos[l]
    <3>1. b[l].op \in {"tile_store", "yield"}
      BY <1>1, <2>6 DEF Plain
    <3> QED BY <1>2, <2>7, <3>1
  <2>8. CASE LoadFor(b, args, l, c[q])
    <3>1. PICK m \in 1 .. args : Copies(b, Arg(m), l) > 0
      BY <2>8 DEF LoadFor
    <3>2. l \in Uses(b, Arg(m))
      BY <3>1 DEF Copies
    <3>3. PICK i \in DOMAIN Operands(b[l]) : b[l].in[i] = Arg(m)
      BY <3>2, UsesThen
    <3>4. b[l].in = <<final>>
      BY <1>1, <2>6 DEF Plain
    <3>5. Operands(b[l]) = << >> \/ Operands(b[l]) = <<final>>
      BY <3>4 DEF Operands
    <3>6. i = 1
      BY <3>3, <3>5
    <3>7. Arg(m) = final
      BY <3>3, <3>4, <3>6
    <3>8. Copies(b, final, l) = 0
      BY <1>1, FinalNotCopied
    <3> QED BY <3>1, <3>7, <3>8
  <2> QED BY <2>3, <2>7, <2>8
<1> QED BY <1>3 DEF Ends

\* A copy means what was copied.
LEMMA RenamedMeans ==
  ASSUME NEW t, NEW b, NEW k, NEW v \in Given, NEW s
  PROVE  Term(t, Renamed(b, k, v), s) = Term(t, v, s)
<1>1. Base(Copy(v, k, 1)) = v /\ Base(v) = v
  BY CopiesDiffer
<1>2. Base(Renamed(b, k, v)) = Base(v)
  BY <1>1 DEF Renamed
<1> QED BY <1>2 DEF Term

\* An operation whose operands are copies means what it meant.
LEMMA AdaptedMeans ==
  ASSUME NEW t, NEW b, NEW n, NEW final, NEW c, NEW pos, Laid(t, b, n, final, c, pos),
         NEW k \in 1 .. n
  PROVE  Means(t, c[pos[k]])
<1> DEFINE o == c[pos[k]]
           in == b[k].in
           L == Len(in)
           new == [i \in 1 .. L |-> Renamed(b, k, in[i])]
<1>1. k \in 1 .. Len(b) /\ Plain(t, b, n, final) /\ b \in Seq(Ops(Given)) /\ Len(Tensors(t)) \in Nat
  BY DEF Laid, Plain
<1>2. Computes(t, b[k], k)
  BY <1>1 DEF Plain
<1>3. OwnAt(b, c, pos, k)
  BY <1>1, OwnIs
<1>4. o.op = b[k].op /\ o.out = b[k].out /\ o.in = new /\ in \in Seq(Given) /\ Len(o.in) = L
  BY <1>3, Zenon DEF OwnAt
<1>5. L = (IF b[k].op \in Binary \union MinMax THEN 2 ELSE 1)
  BY <1>2, Zenon DEF Computes
<1>6. Means(t, b[k])
  BY <1>2, Zenon DEF Computes
<1>7. \A i \in 1 .. L : in[i] \in Given
  <2> HIDE DEF in
  <2> QED BY <1>4
<1> SUFFICES ASSUME NEW s \in 0 .. Tiles - 1
             PROVE  /\ o.op = "copy_tile" => Term(t, o.out, s) = Loaded(t, o.in[1][2], s)
                    /\ CBInput(o) => Term(t, o.out, s) = Spread(t, o.op, o.in[1][2], s)
                    /\ o.op \in Elementwises =>
                         Term(t, o.out, s) = <<o.op>> \o [i \in 1 .. Len(o.in) |-> Term(t, o.in[i], s)]
  BY Zenon DEF Means
<1>8. o.op # "copy_tile"
  BY <1>2, <1>4, OperatorsAssumption DEF Computes, Operators
<1>9. ASSUME CBInput(o) PROVE Term(t, o.out, s) = Spread(t, o.op, o.in[1][2], s)
  <2>1. CBInput(b[k]) /\ L = 1
    BY <1>4, <1>5, <1>9, OperatorsAssumption DEF CBInput
  <2>2. Term(t, b[k].out, s) = Spread(t, b[k].op, in[1][2], s)
    BY <1>6, <2>1, Zenon DEF Means
  <2>3. ~(Copies(b, in[1], k) > 0)
    <3> SUFFICES ASSUME Copies(b, in[1], k) > 0 PROVE FALSE
      OBVIOUS
    <3>1. k \in Uses(b, in[1])
      BY DEF Copies
    <3>2. Operands(b[k]) = << >>
      BY <2>1 DEF Operands
    <3>3. \E i \in DOMAIN Operands(b[k]) : b[k].in[i] = in[1]
      BY <3>1, UsesThen
    <3> QED BY <3>2, <3>3
  <2>4. new[1] = in[1]
    <3> HIDE DEF in, L
    <3>1. 1 \in 1 .. L
      BY <2>1
    <3> QED BY <2>3, <3>1 DEF Renamed
  <2>5. o.in[1] = in[1]
    BY <1>4, <2>4
  <2> QED BY <1>4, <2>2, <2>5, Zenon
<1>10. ASSUME o.op \in Elementwises
       PROVE  Term(t, o.out, s) = <<o.op>> \o [i \in 1 .. Len(o.in) |-> Term(t, o.in[i], s)]
  <2>1. Term(t, b[k].out, s) = <<b[k].op>> \o [i \in 1 .. L |-> Term(t, in[i], s)]
    BY <1>4, <1>6, <1>10, Zenon DEF Means
  <2>2. \A i \in 1 .. L : Term(t, o.in[i], s) = Term(t, in[i], s)
    <3> SUFFICES ASSUME NEW i \in 1 .. L PROVE Term(t, o.in[i], s) = Term(t, in[i], s)
      OBVIOUS
    <3>1. o.in[i] = Renamed(b, k, in[i])
      BY <1>3, Zenon DEF OwnAt
    <3> QED BY <1>7, <3>1, RenamedMeans
  <2> DEFINE x == [i \in 1 .. Len(o.in) |-> Term(t, o.in[i], s)]
             y == [i \in 1 .. L |-> Term(t, in[i], s)]
  <2>3. x = y
    <3>1. Len(o.in) = L
      BY <1>4
    <3> HIDE DEF in, L, o
    <3> QED BY <2>2, <3>1
  <2> QED BY <1>4, <2>1, <2>3, Zenon
<1> QED BY <1>8, <1>9, <1>10

\* Every operation means what the expression says.
LEMMA LaidSound ==
  ASSUME NEW t, NEW b, NEW n, NEW final, NEW c, NEW pos, Laid(t, b, n, final, c, pos),
         NEW p \in 1 .. Len(c)
  PROVE  SoundOp(t, c[p], final)
<1> DEFINE args == Len(Tensors(t))
<1>1. Plain(t, b, n, final) /\ args \in Nat /\ n \in Nat /\ n < Len(b) /\ Len(b) \in Nat
  BY DEF Laid, Plain
<1>2. PICK k \in 1 .. Len(b) : p = pos[k] \/ LoadFor(b, args, k, c[p])
  BY KindsOf
<1>3. CASE p = pos[k]
  <2> DEFINE o == c[pos[k]]
  <2>1. OwnAt(b, c, pos, k)
    BY OwnIs
  <2>2. o.op = b[k].op /\ o.out = b[k].out /\ Len(o.in) = Len(b[k].in)
        /\ o.in = [i \in 1 .. Len(b[k].in) |-> Renamed(b, k, b[k].in[i])]
    BY <2>1, Zenon DEF OwnAt
  <2>3. CASE k <= n
    <3>1. k \in 1 .. n
      BY <1>1, <2>3
    <3>2. Computes(t, b[k], k)
      BY <1>1, <3>1 DEF Plain
    <3>3. Means(t, o)
      BY <3>1, AdaptedMeans
    <3>4. b[k].op \in Operators /\ b[k].out = Result(k)
          /\ Len(b[k].in) = IF b[k].op \in Binary \union MinMax THEN 2 ELSE 1
      BY <3>2, Zenon DEF Computes
    <3>5. Result(k) # NoValue
      BY DEF Result, NoValue
    <3>6. o.op \in Operators /\ o.out # NoValue /\ Len(o.in) = (IF o.op \in Binary \union MinMax THEN 2 ELSE 1)
      BY <2>2, <3>4, <3>5, Zenon
    <3> HIDE DEF o
    <3>7. SoundOp(t, o, final)
      BY <3>3, <3>6 DEF SoundOp
    <3> QED BY <1>3, <3>7 DEF o
  <2>4. CASE k > n
    <3>1. b[k].op \in {"tile_store", "yield"} /\ b[k].in = <<final>> /\ b[k].out = NoValue
      BY <1>1, <2>4 DEF Plain
    <3>2. Renamed(b, k, final) = final
      BY <1>1, FinalNotCopied
    <3>3. o.in = <<final>>
      <4> DEFINE s == b[k].in
      <4>1. s = <<final>> /\ o.in = [i \in 1 .. Len(s) |-> Renamed(b, k, s[i])]
        BY <2>2, <3>1
      <4> HIDE DEF s, o
      <4>2. Len(s) = 1 /\ s[1] = final
        BY <4>1
      <4>3. o.in = [i \in 1 .. 1 |-> final]
        BY <3>2, <4>1, <4>2
      <4> QED BY <4>3
    <3>4. o.op \in {"tile_store", "yield"} /\ o.out = NoValue
      BY <2>2, <3>1
    <3> HIDE DEF o
    <3>5. SoundOp(t, o, final)
      BY <3>3, <3>4 DEF SoundOp
    <3> QED BY <1>3, <3>5 DEF o
  <2> QED BY <1>1, <2>3, <2>4
<1>4. CASE LoadFor(b, args, k, c[p])
  <2> DEFINE o == c[p]
  <2>1. CASE o.op = "constant" /\ o.in = << >> /\ o.out = NoValue
    BY <2>1 DEF SoundOp
  <2>2. CASE \E m \in 1 .. args : \E i : o.op = "copy_tile" /\ o.in = <<Arg(m)>> /\ o.out = Copy(Arg(m), k, i)
    <3>1. PICK m \in 1 .. args : \E i : o.op = "copy_tile" /\ o.in = <<Arg(m)>> /\ o.out = Copy(Arg(m), k, i)
      BY <2>2
    <3>2. PICK i : o.op = "copy_tile" /\ o.in = <<Arg(m)>> /\ o.out = Copy(Arg(m), k, i)
      BY <3>1
    <3> HIDE DEF o
    <3>3. o.out # NoValue /\ Base(o.out) = Arg(m)
      BY <3>2, CopiesDiffer
    <3>4. Len(o.in) = 1 /\ o.in[1] = Arg(m) /\ o.in[1][2] = m
      BY <3>2, NamesDiffer
    <3>5. o.op \notin Elementwises /\ ~CBInput(o) /\ o.op \notin Binary \union MinMax
      BY <3>2, OperatorsAssumption DEF Elementwises, CBInput
    <3>6. ASSUME NEW s PROVE Term(t, o.out, s) = Loaded(t, m, s)
      <4>1. IsArg(Arg(m)) /\ Arg(m)[2] = m
        BY NamesDiffer
      <4> QED BY <3>3, <4>1 DEF Term
    <3>7. Means(t, o)
      BY <3>4, <3>5, <3>6, Zenon DEF Means
    <3>8. SoundOp(t, o, final)
      BY <3>2, <3>3, <3>4, <3>5, <3>7 DEF SoundOp
    <3> QED BY <3>8 DEF o
  <2> QED BY <1>4, <2>1, <2>2 DEF LoadFor
<1> QED BY <1>2, <1>3, <1>4

\* What a trace is made into, when no copy of a result is in it.
LEMMA BodySound ==
  ASSUME NEW t, TraceInOrder(t), Traced(t), NEW stores \in Nat \ {0},
         NEW c, c = InsertCopies(Body(t, stores), Len(Tensors(t))),
         \A p \in DOMAIN c : c[p].op # "copy_dst"
  PROVE  /\ c \in Seq(Ops(Held)) /\ Single(c) /\ Ends(c)
         /\ \A p \in 1 .. Len(c) : SoundOp(t, c[p], Last(t.values))
         /\ \E p \in 1 .. Len(c) : c[p].op = "tile_store"
<1> DEFINE b == Body(t, stores)
           n == Len(t.ops)
           v == Last(t.values)
           args == Len(Tensors(t))
<1>1. Plain(t, b, n, v) /\ args \in Nat
  BY BodyPlain, OpsCompute
<1>2. BodyOK(c, Held)
  BY BodyIs DEF TraceInOrder
<1>3. c \in Seq(Ops(Held)) /\ DOMAIN c = 1 .. Len(c) /\ Len(c) \in Nat
  <2> DEFINE O == Ops(Held)
  <2>1. c \in Seq(O)
    BY <1>2 DEF BodyOK
  <2> HIDE DEF O
  <2>2. DOMAIN c = 1 .. Len(c) /\ Len(c) \in Nat
    BY <2>1
  <2> QED BY <2>1, <2>2 DEF O
<1>4. c = InsertCopies(b, args)
  OBVIOUS
<1> HIDE DEF b, n, v, args
<1>5. Once(c) /\ \E pos : Places(b, Inputs(args, n), c, pos)
  BY <1>1, <1>4, CopiedIs
<1>6. PICK pos : Places(b, Inputs(args, n), c, pos)
  BY <1>5
<1>7. Laid(t, b, n, v, c, pos)
  BY <1>1, <1>3, <1>5, <1>6 DEF Laid, args
<1>8. Single(c) /\ Ends(c) /\ \A p \in 1 .. Len(c) : SoundOp(t, c[p], v)
  BY <1>7, LaidSingle, LaidEnds, LaidSound
<1> QED BY <1>2, <1>3, <1>8 DEF BodyOK, v

-----------------------------------------------------------------------------
(* Running the code.                                                       *)

\* The value that is stored.
Final == Last(trace.values)

\* DST and the buffers have the size they have.
Memory ==
  /\ DOMAIN dst = 0 .. mode.halves - 1
  /\ \A h \in 0 .. mode.halves - 1 : DOMAIN dst[h] = 0 .. mode.capacity - 1
  /\ DOMAIN out = 1 .. mode.stores
  /\ \A i \in 1 .. mode.stores : DOMAIN out[i] = 0 .. Tiles - 1

\* MATH has computed what P says in the half that it fills, for its tile.
Computed(P) ==
  Done("MATH") # 0 =>
    \A v \in P[Done("MATH") - 1] : dst[Filled][scan.reg[v]] = Term(trace, v, Round("MATH"))

\* Every half that was committed holds what is stored, for its tile.
Waiting ==
  \A q \in Nat : hand.released <= q /\ q < hand.committed =>
    dst[q % mode.halves][scan.reg[Final]] = Term(trace, Final, q)

\* A slot is empty, or holds what is stored.
Stored ==
  \A i \in 1 .. mode.stores : \A s \in 0 .. Tiles - 1 :
    out[i][s] = Empty \/ out[i][s] = Term(trace, Final, s)

Running(P) ==
  /\ Certified(trace, scan.reg, Final, P, code["MATH"], code["PACK"])
  /\ Computed(P) /\ Waiting /\ Stored

\* The inductive invariant: the body is that of the trace, and while its code
\* runs the registers hold what they mean, unless an in-place operator is
\* misplaced.
FaithInv ==
  /\ ScanInv
  /\ TraceInOrder(trace)
  /\ Memory
  /\ phase # "trace" => /\ Traced(trace)
                        /\ body.ops = InsertCopies(Body(trace, mode.stores), Len(Tensors(trace)))
                        /\ body.live = Live(body.ops)
  /\ phase # "run" => \A i \in 1 .. mode.stores : \A s \in 0 .. Tiles - 1 : out[i][s] = Empty
  /\ phase = "run" /\ ~Misplaced => \E P : Running(P)

\* The instruction m writes x when the half it works in holds D.
Writing(t, m, D, s, x) ==
  \/ m.do = "unpack" /\ x = Loaded(t, m.reads, s)
  \/ m.do = "bcast" /\ x = Spread(t, m.op, m.reads, s)
  \/ m.do = "compute" /\ x = <<m.op>> \o [j \in 1 .. Len(m.reads) |-> D[m.reads[j]]]

\* The half D holds what the values of A mean at the slot s.
Holding(t, reg, A, D, s) == \A v \in A : D[reg[v]] = Term(t, v, s)

\* What an instruction writes makes what it leads to hold.
LEMMA LeadsStep ==
  ASSUME NEW t, NEW reg, NEW final, NEW A, NEW m, NEW B, Leads(t, reg, final, A, m, B),
         m.thread = "MATH", NEW D, \A v \in DOMAIN reg : reg[v] \in DOMAIN D,
         NEW s \in 0 .. Tiles - 1, Holding(t, reg, A, D, s), NEW x,
         Writing(t, m, D, s, x)
  PROVE  Holding(t, reg, B, [D EXCEPT ![m.writes] = x], s)
<1> DEFINE E == [D EXCEPT ![m.writes] = x]
<1> SUFFICES ASSUME NEW v \in B PROVE E[reg[v]] = Term(t, v, s)
  BY DEF Holding
<1>1. reg[v] \in DOMAIN D
  BY DEF Leads
<1>2. CASE v \in A /\ reg[v] # m.writes
  <2>1. E[reg[v]] = D[reg[v]]
    BY <1>1, <1>2
  <2> HIDE DEF E
  <2> QED BY <1>2, <2>1 DEF Holding
<1>3. CASE reg[v] = m.writes /\ Makes(t, reg, A, m, v)
  <2>1. E[reg[v]] = x
    BY <1>1, <1>3
  <2> HIDE DEF E
  <2>2. CASE m.do = "unpack"
    BY <1>3, <2>1, <2>2 DEF Makes, Writing
  <2>3. CASE m.do = "bcast"
    BY <1>3, <2>1, <2>3 DEF Makes, Writing
  <2>4. CASE m.do = "compute"
    <3>1. PICK in : /\ \A j \in 1 .. Len(m.reads) : in[j] \in A /\ reg[in[j]] = m.reads[j]
                    /\ \A z \in 0 .. Tiles - 1 :
                         Term(t, v, z) = <<m.op>> \o [j \in 1 .. Len(m.reads) |-> Term(t, in[j], z)]
      BY <1>3, <2>4, Zenon DEF Makes
    <3>2. \A j \in 1 .. Len(m.reads) : D[m.reads[j]] = Term(t, in[j], s)
      BY <3>1 DEF Holding
    <3>3. [j \in 1 .. Len(m.reads) |-> D[m.reads[j]]] = [j \in 1 .. Len(m.reads) |-> Term(t, in[j], s)]
      BY <3>2, Zenon
    <3>4. x = <<m.op>> \o [j \in 1 .. Len(m.reads) |-> D[m.reads[j]]]
      BY <2>4 DEF Writing
    <3>5. x = Term(t, v, s)
      BY <3>1, <3>3, <3>4, Zenon
    <3> QED BY <2>1, <3>5
  <2> QED BY <2>2, <2>3, <2>4 DEF Writing
<1> HIDE DEF E
<1> QED BY <1>2, <1>3 DEF Leads

\* What is written to one register of one half of DST.
LEMMA WrittenIs ==
  ASSUME NEW D, NEW h \in DOMAIN D, NEW r, NEW x, NEW E, E = [D EXCEPT ![h][r] = x]
  PROVE  /\ DOMAIN E = DOMAIN D /\ E[h] = [D[h] EXCEPT ![r] = x]
         /\ \A g \in DOMAIN D : DOMAIN E[g] = DOMAIN D[g]
         /\ \A g \in DOMAIN D : g # h => E[g] = D[g]
<1>1. DOMAIN E = DOMAIN D /\ E[h] = [D[h] EXCEPT ![r] = x] /\ \A g \in DOMAIN D : g # h => E[g] = D[g]
  OBVIOUS
<1>2. DOMAIN [D[h] EXCEPT ![r] = x] = DOMAIN D[h]
  OBVIOUS
<1> QED BY <1>1, <1>2

\* Certified code has the commit at its end, and the final value a register.
LEMMA CertificateIs ==
  ASSUME ScanInv, phase = "run", NEW P, Running(P)
  PROVE  /\ Handed(Len(code["MATH"])) /\ Len(code["MATH"]) \in Nat /\ Len(code["MATH"]) >= 2
         /\ Final \in DOMAIN scan.reg
         /\ \A v \in DOMAIN scan.reg : scan.reg[v] \in 0 .. mode.capacity - 1
         /\ mode.halves \in 1 .. 2
         /\ Tiles \in Nat /\ Cols \in Nat \ {0}
<1> DEFINE m == code["MATH"]
           L == Len(m)
<1>1. Certified(trace, scan.reg, Final, P, m, code["PACK"])
  BY DEF Running
<1>2. /\ L \in Nat /\ L >= 2 /\ m[L].do = "commit" /\ P[0] = {} /\ Final \in P[L - 2]
      /\ \A i \in 2 .. L - 1 : Leads(trace, scan.reg, Final, P[i - 2], m[i], P[i - 1])
  BY <1>1 DEF Certified
<1>3. PICK c : Handed(c)
  BY DEF ScanInv, HandInv
<1>4. c = L
  <2>1. c \in 2 .. L /\ \A i \in 1 .. L : i \notin {1, c} => m[i].do \in {"unpack", "bcast", "compute"}
    BY <1>3 DEF Handed, MathCode
  <2> HIDE DEF m, L
  <2>2. L \in 1 .. L /\ m[L].do \notin {"unpack", "bcast", "compute"}
    BY <1>2
  <2>3. L \in {1, c}
    BY <2>1, <2>2
  <2> QED BY <1>2, <2>3
<1>5. L # 2
  BY <1>2
<1>6. Final \in DOMAIN scan.reg
  <2> HIDE DEF m, L
  <2>1. L - 1 \in 2 .. L - 1 /\ (L - 1) - 1 = L - 2
    BY <1>2, <1>5
  <2>2. Leads(trace, scan.reg, Final, P[(L - 1) - 2], m[L - 1], P[(L - 1) - 1])
    BY <1>2, <2>1
  <2>3. P[L - 2] \subseteq DOMAIN scan.reg
    BY <2>1, <2>2 DEF Leads
  <2> QED BY <1>2, <2>3
<1>7. mode.halves \in 1 .. 2 /\ Tiles \in Nat /\ Cols \in Nat \ {0}
  <2>1. mode \in Modes
    BY DEF ScanInv, HandInv
  <2> QED BY <2>1, ModesAssumption, TilesAssumption DEF Tiles
<1> QED BY <1>2, <1>3, <1>4, <1>6, <1>7 DEF ScanInv

\* The tile that a thread is at, from its row and its column.
LEMMA TileAt ==
  ASSUME NEW t \in Threads, Round(t) \in Nat, Cols \in Nat \ {0}
  PROVE  /\ At(t) = code[t][Done(t) + 1]
         /\ Row(t) = Round(t) \div Cols /\ Col(t) = Round(t) % Cols
         /\ Linear(Row(t), Col(t)) = Round(t)
<1> DEFINE q == Round(t)
<1>1. At(t) = code[t][Done(t) + 1] /\ Row(t) = q \div Cols /\ Col(t) = q % Cols
  BY DEF At, Row, Col, Done, Round
<1>2. (q \div Cols) * Cols + (q % Cols) = q
  <2>1. q \in Nat
    OBVIOUS
  <2> HIDE DEF q
  <2> QED BY <2>1
<1>3. Linear(Row(t), Col(t)) = (q \div Cols) * Cols + (q % Cols)
  BY <1>1, Zenon DEF Linear
<1> QED BY <1>1, <1>2, <1>3

\* Where MATH is when it takes a step.
LEMMA MathAt ==
  ASSUME ScanInv, phase = "run", NEW P, Running(P), NEW do, Runs("MATH", do),
         NEW L, L = Len(code["MATH"]), NEW d, d = Done("MATH"), NEW q, q = Round("MATH")
  PROVE  /\ UNCHANGED <<trace, mode, phase, body, scan, code>>
         /\ d \in 0 .. L - 1 /\ At("MATH") = code["MATH"][d + 1] /\ At("MATH").do = do
         /\ q \in Nat /\ (d # 0 => q \in 0 .. Tiles - 1)
         /\ Row("MATH") = q \div Cols /\ Col("MATH") = q % Cols
         /\ Linear(Row("MATH"), Col("MATH")) = q
         /\ d + 1 < L => Done("MATH")' = d + 1 /\ Round("MATH")' = q
         /\ d + 1 = L => Done("MATH")' = 0 /\ Round("MATH")' = q + 1
         /\ hand.acquired = q + (IF d = 0 THEN 0 ELSE 1) /\ hand.committed = q
         /\ hand.released \in Nat /\ hand.released <= q
         /\ hand.acquired - hand.released <= mode.halves
<1>1. /\ Handed(L) /\ L \in Nat /\ L >= 2 /\ Tiles \in Nat /\ Cols \in Nat \ {0}
  BY CertificateIs
<1>2. "MATH" \in Threads /\ step \in [Threads -> Nat] /\ hand \in [acquired : Nat, committed : Nat, released : Nat]
  BY DEF Threads, ScanInv, HandInv
<1>3. step["MATH"] \in 0 .. Tiles * L
  BY <1>1, <1>2 DEF Handed
<1>4. /\ d \in 0 .. L - 1 /\ code["MATH"][d + 1].do = do /\ q \in Nat
      /\ d + 1 < L => Done("MATH")' = d + 1 /\ Round("MATH")' = q
      /\ d + 1 = L => Done("MATH")' = 0 /\ Round("MATH")' = q + 1
  <2>1. Len(code["MATH"]) \in Nat \ {0} /\ step["MATH"] \in 0 .. Tiles * Len(code["MATH"])
    BY <1>1, <1>3
  <2> QED BY <1>2, <2>1, RunsAt
<1>5. d # 0 => q < Tiles
  <2> DEFINE s == step["MATH"]
  <2>1. s \in 0 .. Tiles * L /\ d = s % L /\ q = s \div L
    BY <1>3 DEF Done, Round
  <2> HIDE DEF s
  <2>2. L \in Nat \ {0} /\ Tiles \in Nat
    BY <1>1
  <2>3. s % L # 0 => s \div L < Tiles
    BY <2>1, <2>2, NextPlace
  <2> QED BY <2>1, <2>3
<1>6. /\ At("MATH") = code["MATH"][d + 1] /\ Row("MATH") = q \div Cols /\ Col("MATH") = q % Cols
      /\ Linear(Row("MATH"), Col("MATH")) = q
  BY <1>1, <1>2, <1>4, TileAt
<1>7. /\ hand.acquired = q + (IF d = 0 THEN 0 ELSE 1)
      /\ hand.committed = q + (IF d < L THEN 0 ELSE 1)
      /\ hand.released <= hand.committed /\ hand.acquired - hand.released <= mode.halves
  BY <1>1 DEF Handed
<1>8. UNCHANGED <<trace, mode, phase, body, scan, code>>
  BY DEF Runs
<1>9. hand.committed = q /\ hand.released \in Nat
  BY <1>1, <1>2, <1>4, <1>7
<1>10. d # 0 => q \in 0 .. Tiles - 1
  BY <1>1, <1>4, <1>5
<1> QED BY <1>4, <1>6, <1>7, <1>8, <1>9, <1>10

\* Halves that wait are not the one that is filled.
LEMMA HalvesApart ==
  ASSUME NEW halves \in 1 .. 2, NEW released \in Nat, NEW q \in Nat, q + 1 - released <= halves,
         NEW x \in Nat, released <= x, x < q
  PROVE  x % halves # q % halves /\ x % halves \in 0 .. halves - 1
<1>1. halves = 2 /\ x + 1 = q
  OBVIOUS
<1>2. x % 2 # (x + 1) % 2 /\ x % 2 \in 0 .. 2 - 1
  OBVIOUS
<1> QED BY <1>1, <1>2

\* Certified code stays certified.
LEMMA CertifiedStays ==
  ASSUME NEW P, Running(P), UNCHANGED <<trace, mode, phase, body, scan, code>>
  PROVE  Certified(trace, scan.reg, Final, P, code["MATH"], code["PACK"])' /\ Final' = Final
<1>1. trace' = trace /\ scan' = scan /\ code' = code
  OBVIOUS
<1>2. Final' = Final
  BY <1>1 DEF Final
<1> QED BY <1>1, <1>2 DEF Running

\* MATH acquires a half: nothing is in it yet.
LEMMA Acquires ==
  ASSUME ScanInv, phase = "run", NEW P, Running(P), Acquire
  PROVE  Running(P)'
<1> DEFINE L == Len(code["MATH"])
           d == Done("MATH")
           q == Round("MATH")
<1>1. Runs("MATH", "acquire") /\ hand' = [hand EXCEPT !.acquired = @ + 1] /\ dst' = dst /\ out' = out
  BY DEF Acquire
<1>2. /\ UNCHANGED <<trace, mode, phase, body, scan, code>>
      /\ d \in 0 .. L - 1 /\ At("MATH") = code["MATH"][d + 1] /\ At("MATH").do = "acquire"
      /\ d + 1 < L => Done("MATH")' = d + 1
  BY <1>1, MathAt
<1>3. L \in Nat /\ L >= 2 /\ Handed(L)
  BY CertificateIs
<1>4. d = 0
  <2>1. \A i \in 1 .. L : i \notin {1, L} => code["MATH"][i].do \in {"unpack", "bcast", "compute"}
    BY <1>3 DEF Handed, MathCode
  <2>2. code["MATH"][L].do = "commit"
    BY <1>3 DEF Handed, MathCode
  <2> HIDE DEF L, d
  <2> QED BY <1>2, <1>3, <2>1, <2>2
<1>5. Done("MATH")' = 1
  BY <1>2, <1>3, <1>4
<1>6. Computed(P)'
  <2>1. P[Done("MATH")' - 1] = {}
    BY <1>5 DEF Running, Certified
  <2> QED BY <2>1 DEF Computed
<1>7. hand.released' = hand.released /\ hand.committed' = hand.committed
  <2>1. hand \in [acquired : Nat, committed : Nat, released : Nat]
    BY DEF ScanInv, HandInv
  <2> QED BY <1>1, <2>1
<1>8. Certified(trace, scan.reg, Final, P, code["MATH"], code["PACK"])' /\ Final' = Final
  BY <1>2, CertifiedStays
<1>9. Waiting'
  BY <1>1, <1>2, <1>7, <1>8 DEF Waiting, Running
<1>10. Stored'
  BY <1>1, <1>2, <1>8 DEF Stored, Running
<1> QED BY <1>6, <1>8, <1>9, <1>10 DEF Running

\* What MATH writes for its instruction.
LEMMA WritesIs ==
  ASSUME ScanInv, phase = "run", NEW P, Running(P), CopyTile \/ Bcast \/ Compute,
         NEW m, m = code["MATH"][Done("MATH") + 1], NEW q, q = Round("MATH"),
         NEW D, D = dst[Filled]
  PROVE  /\ Runs("MATH", m.do) /\ m.do \in {"unpack", "bcast", "compute"}
         /\ hand' = hand /\ out' = out
         /\ \E x : dst' = [dst EXCEPT ![Filled][m.writes] = x] /\ Writing(trace, m, D, q, x)
<1>1. CASE CopyTile
  <2>1. Runs("MATH", "unpack") /\ hand' = hand /\ out' = out
    BY <1>1 DEF CopyTile
  <2>2. m = At("MATH") /\ m.do = "unpack" /\ Linear(Row("MATH"), Col("MATH")) = q
    BY <2>1, MathAt
  <2> DEFINE x == Slot(Root(At("MATH").reads), trace.roots[Root(At("MATH").reads)],
                       Linear(Row("MATH"), Col("MATH")))
  <2>3. dst' = [dst EXCEPT ![Filled][At("MATH").writes] = x]
    BY <1>1, Zenon DEF CopyTile, Write
  <2>4. x = Loaded(trace, m.reads, q)
    BY <2>2, Zenon DEF Loaded, Root
  <2> HIDE DEF x
  <2> QED BY <2>1, <2>2, <2>3, <2>4 DEF Writing
<1>2. CASE Bcast
  <2>1. Runs("MATH", "bcast") /\ hand' = hand /\ out' = out
    BY <1>2 DEF Bcast
  <2>2. /\ m = At("MATH") /\ m.do = "bcast"
        /\ Row("MATH") = q \div Cols /\ Col("MATH") = q % Cols
    BY <2>1, MathAt
  <2> DEFINE n == Root(At("MATH").reads)
             x == <<At("MATH").op, Slot(n, trace.roots[n],
                      BcastSlot(At("MATH").op, trace.roots[n], Row("MATH"), Col("MATH")))>>
  <2>3. dst' = [dst EXCEPT ![Filled][At("MATH").writes] = x]
    BY <1>2, Zenon DEF Bcast, Write
  <2>4. x = Spread(trace, m.op, m.reads, q)
    BY <2>2, Zenon DEF Spread, Root
  <2> HIDE DEF x
  <2> QED BY <2>1, <2>2, <2>3, <2>4 DEF Writing
<1>3. CASE Compute
  <2>1. Runs("MATH", "compute") /\ hand' = hand /\ out' = out
    BY <1>3 DEF Compute
  <2>2. m = At("MATH") /\ m.do = "compute"
    BY <2>1, MathAt
  <2> DEFINE x == <<At("MATH").op>> \o [j \in 1 .. Len(At("MATH").reads) |-> dst[Filled][At("MATH").reads[j]]]
  <2>3. dst' = [dst EXCEPT ![Filled][At("MATH").writes] = x]
    BY <1>3, Zenon DEF Compute, Write
  <2>4. x = <<m.op>> \o [j \in 1 .. Len(m.reads) |-> D[m.reads[j]]]
    BY <2>2, Zenon
  <2> HIDE DEF x
  <2> QED BY <2>1, <2>2, <2>3, <2>4 DEF Writing
<1> QED BY <1>1, <1>2, <1>3

\* MATH computes in the half that it fills: the values of the next set of P are
\* there then, and the halves that wait are left alone.
LEMMA Writes ==
  ASSUME ScanInv, Memory, phase = "run", NEW P, Running(P), CopyTile \/ Bcast \/ Compute
  PROVE  Running(P)' /\ Memory'
<1> DEFINE L == Len(code["MATH"])
           d == Done("MATH")
           q == Round("MATH")
           m == code["MATH"][d + 1]
           h == Filled
           reg == scan.reg
<1>1. /\ Runs("MATH", m.do) /\ m.do \in {"unpack", "bcast", "compute"} /\ hand' = hand /\ out' = out
      /\ \E x : dst' = [dst EXCEPT ![h][m.writes] = x] /\ Writing(trace, m, dst[h], q, x)
  BY WritesIs
<1>2. PICK x : dst' = [dst EXCEPT ![h][m.writes] = x] /\ Writing(trace, m, dst[h], q, x)
  BY <1>1
<1>3. /\ UNCHANGED <<trace, mode, phase, body, scan, code>>
      /\ d \in 0 .. L - 1 /\ q \in Nat /\ (d # 0 => q \in 0 .. Tiles - 1)
      /\ d + 1 < L => Done("MATH")' = d + 1 /\ Round("MATH")' = q
      /\ hand.acquired = q + (IF d = 0 THEN 0 ELSE 1) /\ hand.committed = q
      /\ hand.released \in Nat /\ hand.released <= q
      /\ hand.acquired - hand.released <= mode.halves
  <2> DEFINE do == m.do
  <2>1. Runs("MATH", do) /\ L = Len(code["MATH"]) /\ d = Done("MATH") /\ q = Round("MATH")
    BY <1>1
  <2> HIDE DEF do, m, L, d, q
  <2> QED BY <2>1, MathAt
<1>4. /\ L \in Nat /\ L >= 2 /\ mode.halves \in 1 .. 2 /\ Final \in DOMAIN reg
      /\ \A v \in DOMAIN reg : reg[v] \in 0 .. mode.capacity - 1
  BY CertificateIs
<1>5. /\ code["MATH"][1].do = "acquire" /\ code["MATH"][L].do = "commit"
      /\ \A i \in 2 .. L - 1 : /\ code["MATH"][i].thread = "MATH"
                               /\ Leads(trace, reg, Final, P[i - 2], code["MATH"][i], P[i - 1])
  BY DEF Running, Certified
<1>6. d \in 1 .. L - 2
  <2>1. d + 1 # 1 /\ d + 1 # L
    BY <1>1, <1>5
  <2> HIDE DEF d, L
  <2> QED BY <1>3, <1>4, <2>1
<1>7. m.thread = "MATH" /\ Leads(trace, reg, Final, P[d - 1], m, P[d])
  <2> DEFINE i == d + 1
  <2>1. i \in 2 .. L - 1 /\ i - 2 = d - 1 /\ i - 1 = d
    <3> HIDE DEF d, L
    <3> QED BY <1>4, <1>6
  <2>2. code["MATH"][i].thread = "MATH" /\ Leads(trace, reg, Final, P[i - 2], code["MATH"][i], P[i - 1])
    BY <1>5, <2>1
  <2> HIDE DEF d, reg
  <2> QED BY <2>1, <2>2
<1>8. h = q % mode.halves /\ h \in 0 .. mode.halves - 1 /\ Filled' = h
  <2>1. Filled = (hand.acquired - 1) % mode.halves /\ Filled' = Filled
    BY <1>1, <1>3 DEF Filled
  <2>2. hand.acquired - 1 = q
    <3> HIDE DEF d, q, L
    <3> QED BY <1>3, <1>6
  <2> HIDE DEF q
  <2>3. q \in Nat /\ mode.halves \in 1 .. 2
    BY <1>3, <1>4
  <2>4. q % mode.halves \in 0 .. mode.halves - 1
    BY <2>3
  <2> QED BY <2>1, <2>2, <2>4
<1>9. DOMAIN dst = 0 .. mode.halves - 1 /\ DOMAIN dst[h] = 0 .. mode.capacity - 1
  BY <1>8 DEF Memory
<1>10. /\ DOMAIN dst' = DOMAIN dst /\ dst'[h] = [dst[h] EXCEPT ![m.writes] = x]
       /\ \A g \in DOMAIN dst : DOMAIN dst'[g] = DOMAIN dst[g]
       /\ \A g \in DOMAIN dst : g # h => dst'[g] = dst[g]
  <2>1. h \in DOMAIN dst
    BY <1>8, <1>9
  <2> DEFINE r == m.writes
             E == dst'
  <2>2. E = [dst EXCEPT ![h][r] = x]
    BY <1>2
  <2> HIDE DEF h, r, E, m
  <2>3. /\ DOMAIN E = DOMAIN dst /\ E[h] = [dst[h] EXCEPT ![r] = x]
        /\ \A g \in DOMAIN dst : DOMAIN E[g] = DOMAIN dst[g]
        /\ \A g \in DOMAIN dst : g # h => E[g] = dst[g]
    BY <2>1, <2>2, WrittenIs
  <2> QED BY <2>3 DEF E, r
<1>11. Memory'
  <2> HIDE DEF h, m
  <2> QED BY <1>1, <1>3, <1>9, <1>10 DEF Memory
<1>12. \A v \in P[d - 1] : dst[h][reg[v]] = Term(trace, v, q)
  BY <1>6 DEF Running, Computed
<1>13. \A v \in P[d] : dst'[h][reg[v]] = Term(trace, v, q)
  <2>1. q \in 0 .. Tiles - 1 /\ \A v \in DOMAIN reg : reg[v] \in DOMAIN dst[h]
    BY <1>3, <1>4, <1>6, <1>9
  <2> DEFINE D == dst[h]
             E == dst'[h]
             A == P[d - 1]
             B == P[d]
             final == Final
  <2>2. E = [D EXCEPT ![m.writes] = x]
    BY <1>10
  <2>3. Holding(trace, reg, A, D, q)
    BY <1>12 DEF Holding
  <2>4. Leads(trace, reg, final, A, m, B) /\ m.thread = "MATH"
    BY <1>7
  <2>5. Writing(trace, m, D, q, x)
    BY <1>2
  <2>6. \A v \in DOMAIN reg : reg[v] \in DOMAIN D
    BY <2>1
  <2> HIDE DEF D, E, A, B, final, m, h, reg, q, d
  <2>7. Holding(trace, reg, B, [D EXCEPT ![m.writes] = x], q)
    BY <2>1, <2>3, <2>4, <2>5, <2>6, LeadsStep
  <2>8. Holding(trace, reg, B, E, q)
    BY <2>2, <2>7
  <2> QED BY <2>8 DEF Holding, E, B
<1>14. Certified(trace, scan.reg, Final, P, code["MATH"], code["PACK"])' /\ Final' = Final
  BY <1>3, CertifiedStays
<1>15. Computed(P)'
  <2>1. Done("MATH")' = d + 1 /\ Round("MATH")' = q
    <3> HIDE DEF d, q, L
    <3> QED BY <1>3, <1>4, <1>6
  <2>2. Done("MATH")' - 1 = d
    <3> HIDE DEF d
    <3> QED BY <1>6, <2>1
  <2>3. \A v \in P[Done("MATH")' - 1] : dst'[Filled'][scan'.reg[v]] = Term(trace', v, Round("MATH")')
    BY <1>3, <1>8, <1>13, <2>1, <2>2
  <2> QED BY <2>3 DEF Computed
<1>16. Waiting'
  <2>1. SUFFICES ASSUME NEW y \in Nat, hand.released <= y, y < hand.committed
                 PROVE  dst'[y % mode.halves][reg[Final]] = Term(trace, Final, y)
    BY <1>1, <1>3, <1>14 DEF Waiting
  <2>2. y % mode.halves # h /\ y % mode.halves \in DOMAIN dst
    <3>1. q + 1 - hand.released <= mode.halves /\ y < q /\ hand.released \in Nat
      <4> HIDE DEF d, q, L
      <4> QED BY <1>3, <1>6, <2>1
    <3> HIDE DEF q, h
    <3> QED BY <1>3, <1>4, <1>8, <1>9, <2>1, <3>1, HalvesApart
  <2>3. dst'[y % mode.halves] = dst[y % mode.halves]
    BY <1>10, <2>2
  <2>4. dst[y % mode.halves][reg[Final]] = Term(trace, Final, y)
    BY <2>1 DEF Running, Waiting
  <2> QED BY <2>3, <2>4
<1>17. Stored'
  BY <1>1, <1>3, <1>14 DEF Stored, Running
<1> QED BY <1>11, <1>14, <1>15, <1>16, <1>17 DEF Running

\* MATH commits: the half that it filled holds what is stored.
LEMMA Commits ==
  ASSUME ScanInv, phase = "run", NEW P, Running(P), Commit
  PROVE  Running(P)'
<1> DEFINE L == Len(code["MATH"])
           d == Done("MATH")
           q == Round("MATH")
           reg == scan.reg
<1>1. Runs("MATH", "commit") /\ hand' = [hand EXCEPT !.committed = @ + 1] /\ dst' = dst /\ out' = out
  BY DEF Commit
<1>2. /\ UNCHANGED <<trace, mode, phase, body, scan, code>>
      /\ d \in 0 .. L - 1 /\ At("MATH") = code["MATH"][d + 1] /\ At("MATH").do = "commit"
      /\ q \in Nat /\ (d + 1 = L => Done("MATH")' = 0)
      /\ hand.acquired = q + (IF d = 0 THEN 0 ELSE 1) /\ hand.committed = q
  <2>1. L = Len(code["MATH"]) /\ d = Done("MATH") /\ q = Round("MATH")
    OBVIOUS
  <2> HIDE DEF L, d, q
  <2> QED BY <1>1, <2>1, MathAt
<1>3. L \in Nat /\ L >= 2 /\ Handed(L)
  BY CertificateIs
<1>4. d = L - 1
  <2>1. /\ \A i \in 1 .. L : i \notin {1, L} => code["MATH"][i].do \in {"unpack", "bcast", "compute"}
        /\ code["MATH"][1].do = "acquire"
    BY <1>3 DEF Handed, MathCode
  <2> HIDE DEF L, d
  <2> QED BY <1>2, <1>3, <2>1
<1>5. Done("MATH")' = 0
  <2> HIDE DEF L, d
  <2> QED BY <1>2, <1>3, <1>4
<1>6. Filled = q % mode.halves
  <2>1. hand.acquired - 1 = q
    <3> HIDE DEF L, d, q
    <3> QED BY <1>2, <1>3, <1>4
  <2> QED BY <2>1 DEF Filled
<1>7. dst[q % mode.halves][reg[Final]] = Term(trace, Final, q)
  <2>1. Final \in P[L - 2]
    BY DEF Running, Certified
  <2>2. L - 2 = d - 1 /\ d # 0
    <3> HIDE DEF L, d
    <3> QED BY <1>3, <1>4
  <2>3. \A v \in P[d - 1] : dst[Filled][reg[v]] = Term(trace, v, q)
    BY <2>2 DEF Running, Computed
  <2> QED BY <1>6, <2>1, <2>2, <2>3
<1>8. hand.released' = hand.released /\ hand.committed' = q + 1
  <2>1. hand \in [acquired : Nat, committed : Nat, released : Nat]
    BY DEF ScanInv, HandInv
  <2> QED BY <1>1, <1>2, <2>1
<1>9. Certified(trace, scan.reg, Final, P, code["MATH"], code["PACK"])' /\ Final' = Final
  BY <1>2, CertifiedStays
<1>10. Waiting'
  <2>1. SUFFICES ASSUME NEW y \in Nat, hand.released <= y, y < q + 1
                 PROVE  dst[y % mode.halves][reg[Final]] = Term(trace, Final, y)
    BY <1>1, <1>2, <1>8, <1>9 DEF Waiting
  <2>2. y = q \/ y < q
    <3> HIDE DEF q
    <3> QED BY <1>2, <2>1
  <2>3. CASE y = q
    BY <1>7, <2>3
  <2>4. CASE y < q
    BY <1>2, <2>1, <2>4 DEF Running, Waiting
  <2> QED BY <2>2, <2>3, <2>4
<1>11. Stored'
  BY <1>1, <1>2, <1>9 DEF Stored, Running
<1>12. Computed(P)'
  BY <1>5 DEF Computed
<1> QED BY <1>9, <1>10, <1>11, <1>12 DEF Running

\* Where PACK is when it takes a step; MATH stays where it is.
LEMMA PackAt ==
  ASSUME ScanInv, phase = "run", NEW P, Running(P), NEW do, Runs("PACK", do),
         NEW L, L = Len(code["PACK"]), NEW d, d = Done("PACK"), NEW q, q = Round("PACK")
  PROVE  /\ UNCHANGED <<trace, mode, phase, body, scan, code>>
         /\ PackCode(code["PACK"])
         /\ d \in 0 .. L - 1 /\ At("PACK") = code["PACK"][d + 1] /\ At("PACK").do = do
         /\ q \in Nat /\ (d # 0 => q \in 0 .. Tiles - 1 /\ q < hand.committed)
         /\ Linear(Row("PACK"), Col("PACK")) = q /\ hand.released = q
         /\ Done("MATH")' = Done("MATH") /\ Round("MATH")' = Round("MATH")
<1>1. /\ Handed(Len(code["MATH"])) /\ Tiles \in Nat /\ Cols \in Nat \ {0}
  BY CertificateIs
<1>2. /\ "PACK" \in Threads /\ "MATH" \in Threads /\ step \in [Threads -> Nat]
      /\ PackCode(code["PACK"]) /\ L \in Nat \ {0}
  BY <1>1 DEF Threads, ScanInv, HandInv, Handed, PackCode
<1>3. step["PACK"] \in 0 .. Tiles * L
  BY <1>1, <1>2 DEF Handed
<1>4. /\ d \in 0 .. L - 1 /\ code["PACK"][d + 1].do = do /\ q \in Nat
      /\ step' = [step EXCEPT !["PACK"] = @ + 1] /\ code' = code
  <2>1. Len(code["PACK"]) \in Nat \ {0} /\ step["PACK"] \in 0 .. Tiles * Len(code["PACK"])
    BY <1>2, <1>3
  <2> QED BY <1>2, <2>1, RunsAt
<1>5. Done("MATH")' = Done("MATH") /\ Round("MATH")' = Round("MATH")
  BY <1>2, <1>4, OtherStays
<1>6. d # 0 => q < Tiles
  <2> DEFINE s == step["PACK"]
  <2>1. s \in 0 .. Tiles * L /\ d = s % L /\ q = s \div L
    BY <1>3 DEF Done, Round
  <2> HIDE DEF s
  <2>2. L \in Nat \ {0} /\ Tiles \in Nat
    BY <1>1, <1>2
  <2>3. s % L # 0 => s \div L < Tiles
    BY <2>1, <2>2, NextPlace
  <2> QED BY <2>1, <2>3
<1>7. At("PACK") = code["PACK"][d + 1] /\ Linear(Row("PACK"), Col("PACK")) = q
  BY <1>1, <1>2, <1>4, TileAt
<1>8. hand.released = q /\ (d # 0 => q < hand.committed)
  BY <1>1 DEF Handed
<1>9. UNCHANGED <<trace, mode, phase, body, scan, code>>
  BY DEF Runs
<1>10. d # 0 => q \in 0 .. Tiles - 1
  BY <1>1, <1>4, <1>6
<1> QED BY <1>2, <1>4, <1>5, <1>7, <1>8, <1>9, <1>10

\* A step of PACK leaves what MATH has computed alone.
LEMMA PackLeaves ==
  ASSUME ScanInv, phase = "run", NEW P, Running(P), NEW do, Runs("PACK", do),
         hand'.acquired = hand.acquired, dst' = dst
  PROVE  /\ Certified(trace, scan.reg, Final, P, code["MATH"], code["PACK"])' /\ Final' = Final
         /\ Computed(P)'
<1>1. /\ UNCHANGED <<trace, mode, phase, body, scan, code>>
      /\ Done("MATH")' = Done("MATH") /\ Round("MATH")' = Round("MATH")
  BY PackAt
<1>2. Certified(trace, scan.reg, Final, P, code["MATH"], code["PACK"])' /\ Final' = Final
  BY <1>1, CertifiedStays
<1>3. Filled' = Filled
  BY <1>1 DEF Filled
<1>4. Computed(P)
  BY DEF Running
<1> QED BY <1>1, <1>2, <1>3, <1>4 DEF Computed

\* PACK waits, or releases a half.
LEMMA Releases ==
  ASSUME ScanInv, phase = "run", NEW P, Running(P), Wait \/ Release
  PROVE  Running(P)'
<1>1. hand \in [acquired : Nat, committed : Nat, released : Nat]
  BY DEF ScanInv, HandInv
<1>2. PICK do : Runs("PACK", do)
  BY DEF Wait, Release
<1>3. /\ hand'.acquired = hand.acquired /\ hand'.committed = hand.committed
      /\ hand'.released \in Nat /\ hand.released <= hand'.released /\ dst' = dst /\ out' = out
      /\ hand.released \in Nat
  BY <1>1 DEF Wait, Release
<1>4. /\ Certified(trace, scan.reg, Final, P, code["MATH"], code["PACK"])' /\ Final' = Final
      /\ Computed(P)'
  BY <1>2, <1>3, PackLeaves
<1>5. trace' = trace /\ mode' = mode /\ scan' = scan
  BY <1>2 DEF Runs
<1>6. Waiting'
  <2>1. SUFFICES ASSUME NEW y \in Nat, hand'.released <= y, y < hand.committed
                 PROVE  dst[y % mode.halves][scan.reg[Final]] = Term(trace, Final, y)
    BY <1>3, <1>4, <1>5 DEF Waiting
  <2>2. hand.released <= y
    BY <1>3, <2>1
  <2> QED BY <2>1, <2>2 DEF Running, Waiting
<1>7. Stored'
  BY <1>3, <1>4, <1>5 DEF Stored, Running
<1> QED BY <1>4, <1>6, <1>7 DEF Running

\* PACK stores the value that the half it empties holds.
LEMMA Packs ==
  ASSUME ScanInv, Memory, phase = "run", NEW P, Running(P), Pack
  PROVE  Running(P)' /\ Memory'
<1> DEFINE L == Len(code["PACK"])
           d == Done("PACK")
           q == Round("PACK")
           m == code["PACK"][d + 1]
           x == dst[Emptied][m.reads]
<1>1. Runs("PACK", "pack") /\ hand' = hand /\ dst' = dst
  BY DEF Pack
<1>2. /\ UNCHANGED <<trace, mode, phase, body, scan, code>>
      /\ PackCode(code["PACK"])
      /\ d \in 0 .. L - 1 /\ At("PACK") = m /\ m.do = "pack"
      /\ q \in Nat /\ (d # 0 => q \in 0 .. Tiles - 1 /\ q < hand.committed)
      /\ Linear(Row("PACK"), Col("PACK")) = q /\ hand.released = q
  <2>1. L = Len(code["PACK"]) /\ d = Done("PACK") /\ q = Round("PACK")
    OBVIOUS
  <2> HIDE DEF L, d, q
  <2> QED BY <1>1, <2>1, PackAt
<1>3. out' = [out EXCEPT ![m.writes][q] = x]
  BY <1>2, Zenon DEF Pack
<1>4. d + 1 \in 2 .. L - 1
  <2>1. code["PACK"][1].do = "wait" /\ code["PACK"][L].do = "release" /\ L \in Nat /\ L >= 2
    BY <1>2 DEF PackCode
  <2>2. d + 1 # 1 /\ d + 1 # L
    BY <1>2, <2>1
  <2> HIDE DEF d, L
  <2> QED BY <1>2, <2>1, <2>2
<1>5. m.reads = scan.reg[Final]
  BY <1>4 DEF Running, Certified
<1>6. d # 0
  <2> HIDE DEF L, d
  <2> QED BY <1>2, <1>4
<1>7. x = Term(trace, Final, q)
  <2>1. q <= q
    <3> HIDE DEF q
    <3> QED BY <1>2
  <2>2. dst[q % mode.halves][scan.reg[Final]] = Term(trace, Final, q)
    BY <1>2, <1>6, <2>1 DEF Running, Waiting
  <2>3. Emptied = q % mode.halves
    BY <1>2 DEF Emptied
  <2> QED BY <1>5, <2>2, <2>3
<1> HIDE DEF x
<1>8. /\ DOMAIN out' = DOMAIN out
      /\ \A i \in DOMAIN out : DOMAIN out'[i] = DOMAIN out[i]
      /\ \A i \in DOMAIN out : \A s \in DOMAIN out[i] :
           out'[i][s] = out[i][s] \/ (s = q /\ out'[i][s] = x)
  <2> DEFINE w == m.writes
  <2>1. out' = [out EXCEPT ![w][q] = x]
    BY <1>3
  <2> HIDE DEF w, q, m
  <2>2. DOMAIN out' = DOMAIN out
    BY <2>1
  <2>3. ASSUME NEW i \in DOMAIN out
        PROVE  /\ DOMAIN out'[i] = DOMAIN out[i]
               /\ \A s \in DOMAIN out[i] : out'[i][s] = out[i][s] \/ (s = q /\ out'[i][s] = x)
    <3>1. CASE i = w
      <4>1. out'[i] = [out[i] EXCEPT ![q] = x]
        BY <2>1, <2>3, <3>1
      <4> QED BY <4>1
    <3>2. CASE i # w
      <4>1. out'[i] = out[i]
        BY <2>1, <2>3, <3>2
      <4> QED BY <4>1
    <3> QED BY <3>1, <3>2
  <2> QED BY <2>2, <2>3
<1>9. /\ Certified(trace, scan.reg, Final, P, code["MATH"], code["PACK"])' /\ Final' = Final
      /\ Computed(P)'
  BY <1>1, PackLeaves
<1>10. Waiting'
  BY <1>1, <1>2, <1>9 DEF Waiting, Running
<1> HIDE DEF q
<1>11. Memory'
  BY <1>1, <1>2, <1>8 DEF Memory
<1>12. Stored'
  <2>1. SUFFICES ASSUME NEW i \in 1 .. mode.stores, NEW s \in 0 .. Tiles - 1
                 PROVE  out'[i][s] = Empty \/ out'[i][s] = Term(trace, Final, s)
    BY <1>2, <1>9 DEF Stored
  <2>2. i \in DOMAIN out /\ s \in DOMAIN out[i]
    BY DEF Memory
  <2>3. out[i][s] = Empty \/ out[i][s] = Term(trace, Final, s)
    BY DEF Running, Stored
  <2> QED BY <1>7, <1>8, <2>2, <2>3
<1> QED BY <1>9, <1>10, <1>11, <1>12 DEF Running

\* Registers that are given to the values of a body, and not misplaced, make
\* it one that is compiled right.
LEMMA AssignedRight ==
  ASSUME NEW ops \in Seq(Ops(Held)), NEW live, live = Live(ops), NEW reg, DOMAIN reg = DOMAIN live,
         RegistersApart(live, reg)
  PROVE  Assigned(ops, reg)
<1>1. DOMAIN Live(ops) = Values(ops)
  BY LiveIs
<1> QED BY <1>1 DEF Assigned

\* The body that is converted, when nothing in it is misplaced.
LEMMA BodyCompiled ==
  ASSUME FaithInv, phase = "scan", DOMAIN scan.reg = DOMAIN body.live, ~Misplaced, Legal
  PROVE  /\ Compiled(trace, body.ops, scan.reg, Final) /\ Ends(body.ops)
         /\ \E k \in 1 .. Len(body.ops) : body.ops[k].op = "tile_store"
<1> DEFINE ops == body.ops
           reg == scan.reg
<1>1. /\ TraceInOrder(trace) /\ Traced(trace) /\ mode.stores \in Nat \ {0}
      /\ ops = InsertCopies(Body(trace, mode.stores), Len(Tensors(trace)))
      /\ body.live = Live(ops) /\ RegistersApart(body.live, reg)
  <2>1. mode \in Modes
    BY DEF FaithInv, ScanInv, HandInv
  <2> QED BY <2>1, ModesAssumption DEF FaithInv, ScanInv
<1>2. \A p \in DOMAIN ops : ops[p].op # "copy_dst"
  BY DEF Legal
<1>3. Placed(ops, reg)
  BY DEF Misplaced, Placed
<1> HIDE DEF ops, reg
<1>4. /\ ops \in Seq(Ops(Held)) /\ Single(ops) /\ Ends(ops)
      /\ \A p \in 1 .. Len(ops) : SoundOp(trace, ops[p], Last(trace.values))
      /\ \E p \in 1 .. Len(ops) : ops[p].op = "tile_store"
  BY <1>1, <1>2, BodySound
<1>5. Assigned(ops, reg)
  <2>1. DOMAIN reg = DOMAIN body.live
    BY DEF reg
  <2> QED BY <1>1, <1>4, <2>1, AssignedRight
<1>6. Compiled(trace, ops, reg, Final)
  BY <1>3, <1>4, <1>5, Zenon DEF Compiled, Final
<1> QED BY <1>4, <1>6 DEF ops, reg

\* A body that is converted runs.
LEMMA Converts ==
  ASSUME FaithInv, ScanInv', Convert, phase' = "run", ~Misplaced'
  PROVE  \E P : Running(P)'
<1>1. /\ phase = "scan" /\ UNCHANGED <<trace, mode, body, step, hand, dst, out>> /\ scan' = scan
  BY DEF Convert, Allocating
<1>2. Legal
  BY DEF Convert
<1>3. ~Misplaced
  BY <1>1 DEF Misplaced
<1>4. DOMAIN scan.reg = DOMAIN body.live
  BY <1>1 DEF ScanInv
<1> DEFINE ops == body.ops
           reg == scan.reg
           new == Split(Synchronized(LowerAll(ops, reg)))
<1>5. code' = new
  BY <1>2, Zenon DEF Convert, Split
<1>6. /\ Compiled(trace, ops, reg, Final) /\ Ends(ops)
      /\ \E k \in 1 .. Len(ops) : ops[k].op = "tile_store"
  BY <1>1, <1>2, <1>3, <1>4, BodyCompiled
<1>7. \E P : Certified(trace, reg, Final, P, new["MATH"], new["PACK"])
  <2> DEFINE final == Final
             x == new
  <2>1. /\ Compiled(trace, ops, reg, final) /\ Ends(ops)
        /\ \E k \in 1 .. Len(ops) : ops[k].op = "tile_store"
        /\ x = Split(Synchronized(LowerAll(ops, reg)))
    BY <1>6
  <2> HIDE DEF ops, reg, final, x
  <2>2. \E P : Certified(trace, reg, final, P, x["MATH"], x["PACK"])
    BY <2>1, CodeCertified
  <2> QED BY <2>2 DEF final, x
<1> HIDE DEF new
<1>8. PICK P : Certified(trace, reg, Final, P, new["MATH"], new["PACK"])
  BY <1>7
<1>9. Final' = Final
  BY <1>1 DEF Final
<1>10. Certified(trace, scan.reg, Final, P, code["MATH"], code["PACK"])'
  BY <1>1, <1>5, <1>8, <1>9
<1>11. /\ step = [t \in Threads |-> 0] /\ hand = [acquired |-> 0, committed |-> 0, released |-> 0]
       /\ \A i \in 1 .. mode.stores : \A s \in 0 .. Tiles - 1 : out[i][s] = Empty
  BY <1>1 DEF FaithInv, ScanInv, HandInv
<1>12. Done("MATH")' = 0
  <2> DEFINE L == Len(code'["MATH"])
  <2>1. L \in Nat \ {0}
    <3>1. Len(code'["MATH"]) \in Nat /\ Len(code'["MATH"]) >= 2
      BY <1>10 DEF Certified
    <3> QED BY <3>1
  <2>2. step'["MATH"] = 0
    BY <1>1, <1>11 DEF Threads
  <2>3. Done("MATH")' = 0 % L
    BY <2>2 DEF Done
  <2> HIDE DEF L
  <2> QED BY <2>1, <2>3
<1>13. Computed(P)'
  BY <1>12 DEF Computed
<1>14. Waiting'
  BY <1>1, <1>11 DEF Waiting
<1>15. Stored'
  BY <1>1, <1>11 DEF Stored
<1> QED BY <1>10, <1>13, <1>14, <1>15 DEF Running

\* It holds initially.
LEMMA FaithInit == Init => FaithInv
<1> SUFFICES ASSUME Init PROVE FaithInv
  OBVIOUS
<1>1. ScanInv
  BY ScanInit
<1>2. TraceInOrder(trace) /\ phase = "trace"
  BY NoTraceInOrder DEF Init
<1>3. Memory
  BY DEF Init, Memory
<1>4. \A i \in 1 .. mode.stores : \A s \in 0 .. Tiles - 1 : out[i][s] = Empty
  BY DEF Init
<1> QED BY <1>1, <1>2, <1>3, <1>4 DEF FaithInv

\* Every step preserves it.
LEMMA FaithStep == FaithInv /\ [Next]_vars => FaithInv'
<1> SUFFICES ASSUME FaithInv, [Next]_vars PROVE FaithInv'
  OBVIOUS
<1>1. ScanInv /\ ScanInv' /\ Memory /\ TraceInOrder(trace)
  BY ScanStep DEF FaithInv
<1>2. CASE TraceNewRoot \/ TraceSameRoot \/ TraceSameResult \/ TraceUnary \/ TraceBinary \/ TraceBroadcast
  <2>1. Tracing
    BY <1>2 DEF TraceNewRoot, TraceSameRoot, TraceSameResult, TraceUnary, TraceBinary, TraceBroadcast
  <2>2. phase = "trace" /\ phase' = "trace" /\ UNCHANGED <<mode, dst, out>>
    BY <2>1 DEF Tracing
  <2>3. TraceInOrder(trace')
    BY <1>1, <1>2, TraceStepInOrder
  <2> QED BY <1>1, <2>2, <2>3 DEF FaithInv, Memory
<1>3. CASE Prepare
  <2>1. /\ phase = "trace" /\ phase' \in {"inner", "scan"} /\ UNCHANGED <<trace, mode, dst, out>>
        /\ Traced(trace)
        /\ body'.ops = InsertCopies(Body(trace, mode.stores), Len(Tensors(trace)))
        /\ body'.live = Live(body'.ops)
    BY <1>3 DEF Prepare
  <2> QED BY <1>1, <2>1 DEF FaithInv, Memory
<1>4. CASE Allocate \/ GiveUp \/ AllocateOutputs
  <2>1. /\ phase \in {"inner", "scan"} /\ phase' \in {"inner", "scan", "no_registers"}
        /\ UNCHANGED <<trace, mode, body, dst, out>>
    BY <1>4 DEF Allocate, GiveUp, AllocateOutputs, Allocating
  <2> QED BY <1>1, <2>1 DEF FaithInv, Memory
<1>5. CASE Convert
  <2>1. phase = "scan" /\ phase' \in {"run", "illegal"} /\ UNCHANGED <<trace, mode, body, dst, out>>
    BY <1>5 DEF Convert, Allocating
  <2>2. phase' = "run" /\ ~Misplaced' => \E P : Running(P)'
    BY <1>1, <1>5, Converts
  <2> QED BY <1>1, <2>1, <2>2 DEF FaithInv, Memory
<1>6. CASE MathStep \/ PackStep
  <2>1. phase = "run" /\ UNCHANGED <<trace, mode, phase, body, scan, code>>
    BY <1>6 DEF MathStep, PackStep, Acquire, CopyTile, Bcast, Compute, Commit, Wait, Pack, Release, Runs
  <2>2. Misplaced' = Misplaced
    BY <2>1 DEF Misplaced
  <2>3. Memory'
    <3>1. CASE Acquire \/ Commit \/ Wait \/ Release
      BY <1>1, <2>1, <3>1 DEF Acquire, Commit, Wait, Release, Memory
    <3>2. CASE CopyTile \/ Bcast \/ Compute
      <4>1. \E h, r, x : dst' = [dst EXCEPT ![h][r] = x] /\ out' = out
        BY <3>2, Zenon DEF CopyTile, Bcast, Compute, Write
      <4>2. PICK h, r, x : dst' = [dst EXCEPT ![h][r] = x] /\ out' = out
        BY <4>1
      <4>3. DOMAIN dst' = DOMAIN dst /\ \A g \in DOMAIN dst : DOMAIN dst'[g] = DOMAIN dst[g]
        BY <4>2
      <4> QED BY <1>1, <2>1, <4>2, <4>3 DEF Memory
    <3>3. CASE Pack
      <4>1. \E h, r, x : out' = [out EXCEPT ![h][r] = x] /\ dst' = dst
        BY <3>3, Zenon DEF Pack
      <4>2. PICK h, r, x : out' = [out EXCEPT ![h][r] = x] /\ dst' = dst
        BY <4>1
      <4>3. DOMAIN out' = DOMAIN out /\ \A g \in DOMAIN out : DOMAIN out'[g] = DOMAIN out[g]
        BY <4>2
      <4> QED BY <1>1, <2>1, <4>2, <4>3 DEF Memory
    <3> QED BY <1>6, <3>1, <3>2, <3>3 DEF MathStep, PackStep
  <2>4. ASSUME NEW P, Running(P) PROVE Running(P)'
    <3>1. CASE Acquire
      BY <1>1, <2>1, <2>4, <3>1, Acquires
    <3>2. CASE CopyTile \/ Bcast \/ Compute
      BY <1>1, <2>1, <2>4, <3>2, Writes
    <3>3. CASE Commit
      BY <1>1, <2>1, <2>4, <3>3, Commits
    <3>4. CASE Wait \/ Release
      BY <1>1, <2>1, <2>4, <3>4, Releases
    <3>5. CASE Pack
      BY <1>1, <2>1, <2>4, <3>5, Packs
    <3> QED BY <1>6, <3>1, <3>2, <3>3, <3>4, <3>5 DEF MathStep, PackStep
  <2>5. phase' = "run" /\ ~Misplaced' => \E P : Running(P)'
    BY <2>1, <2>2, <2>4 DEF FaithInv
  <2> QED BY <1>1, <2>1, <2>3, <2>5 DEF FaithInv
<1>7. CASE UNCHANGED vars
  <2>1. UNCHANGED <<trace, mode, phase, body, scan, code, step, hand, dst, out>>
    BY <1>7 DEF vars
  <2>2. Misplaced' = Misplaced /\ Memory' /\ Final' = Final /\ Filled' = Filled
        /\ Done("MATH")' = Done("MATH") /\ Round("MATH")' = Round("MATH")
    BY <1>1, <2>1 DEF Misplaced, Memory, Final, Filled, Done, Round
  <2>3. ASSUME NEW P, Running(P) PROVE Running(P)'
    BY <2>1, <2>2, <2>3 DEF Running, Computed, Waiting, Stored
  <2>4. phase' = "run" /\ ~Misplaced' => \E P : Running(P)'
    BY <2>1, <2>2, <2>3 DEF FaithInv
  <2> QED BY <1>1, <2>1, <2>2, <2>4 DEF FaithInv
<1> QED BY <1>2, <1>3, <1>4, <1>5, <1>6, <1>7 DEF Next

\* What is compiled and not misplaced stores what was written: whatever was
\* traced, for any capacity of DST, any number of tiles and of stores, and in
\* every interleaving of the two threads (TTLAssignDST.cpp:254-597,
\* TTLInsertTileRegsSync.cpp:44-120, ConvertTTLTileOpsToTTKernel.cpp).
THEOREM CompiledIsFaithful == Spec => []Faithful
<1>1. FaithInv => Faithful
  <2> SUFFICES ASSUME FaithInv, phase = "run", ~Misplaced PROVE StoredAsWritten
    BY DEF Faithful
  <2>1. PICK P : Running(P)
    BY DEF FaithInv
  <2>2. TraceInOrder(trace) /\ Traced(trace) /\ Memory
    BY DEF FaithInv
  <2>3. ASSUME NEW i \in DOMAIN out, NEW s \in DOMAIN out[i], out[i][s] # Empty
        PROVE  out[i][s] = Meant(s)
    <3>1. i \in 1 .. mode.stores /\ s \in 0 .. Tiles - 1
      BY <2>2, <2>3 DEF Memory
    <3>2. out[i][s] = Term(trace, Final, s)
      BY <2>1, <2>3, <3>1 DEF Running, Stored
    <3>3. Term(trace, Last(trace.values), s) = Meant(s)
      BY <2>2, MeantFinal
    <3> QED BY <3>2, <3>3 DEF Final
  <2> QED BY <2>3 DEF StoredAsWritten
<1> QED BY <1>1, FaithInit, FaithStep, PTL DEF Spec
=============================================================================
