-------------------------- MODULE TileRegs_proofs ---------------------------
(***************************************************************************)
(* Theorems about TileRegs, for any traces, any number of tiles and any    *)
(* capacity of DST.  The parts:                                            *)
(*                                                                         *)
(*  - bodies: what a trace is made into, copies included, is a sequence of *)
(*    operations of at most two operands, with a store (BodyIs);           *)
(*  - the code of the two threads: MATH acquires, computes and commits     *)
(*    once, PACK waits, packs and releases once (CodeIs);                  *)
(*  - the hand-over: how often DST was acquired, committed and released    *)
(*    follows from how far the threads are (HandInv);                      *)
(*  - live intervals: merged values form classes and have one interval     *)
(*    (LiveIs), and no two values are met at one place;                    *)
(*  - the scan: every register of the pool is free or has one active       *)
(*    interval, the next interval begins after all of them, and one that   *)
(*    has lost its register ends before all that are to come (ScanInv).    *)
(***************************************************************************)
EXTENDS TileRegs, Induction, TLAPS

-----------------------------------------------------------------------------
(* Traces and bodies.                                                      *)

\* Values of a trace, and of a body, which has copies too.
Given == {Arg(n) : n \in Nat} \union {Result(k) : k \in Nat}
Held  == Given \union {Copy(v, k, i) : v \in Given, k \in Nat, i \in Nat}

Operators == Unary \union Binary \union MinMax \union {"col", "row", "scalar"}
Names     == Operators \union {"constant", "copy_tile", "copy_dst", "tile_store", "yield"}

\* An operation has at most two operands, a unary one has an operand and a result.
Fits(o)     == Len(o.in) <= 2 /\ (IsUnary(o) => Len(o.in) >= 1 /\ o.out # NoValue)
Ops(values) == {o \in [op : Names, in : Seq(values), out : values \union {NoValue}] : Fits(o)}

TraceOK(t) == t \in [values : Seq(Given), ops : Seq(Ops(Given)), roots : Seq(Shapes)]

\* Nothing has been traced.
LEMMA NoTraceOK == TraceOK(NoTrace)
<1>1. << >> \in Seq(Given) /\ << >> \in Seq(Shapes) /\ << >> \in Seq(Ops(Given))
  OBVIOUS
<1> QED BY <1>1 DEF TraceOK, NoTrace

\* A value that is pushed.
LEMMA PushOK ==
  ASSUME NEW t, TraceOK(t), NEW v \in Given, NEW roots \in Seq(Shapes)
  PROVE  TraceOK([t EXCEPT !.values = Append(@, v)])
         /\ TraceOK([t EXCEPT !.roots = roots, !.values = Append(@, v)])
<1> DEFINE G == Given
           O == Ops(Given)
           values == Append(t.values, v)
<1>1. t \in [values : Seq(G), ops : Seq(O), roots : Seq(Shapes)]
  BY DEF TraceOK
<1> HIDE DEF O
<1>2. values \in Seq(G)
  <2>1. v \in G
    OBVIOUS
  <2> HIDE DEF G
  <2> QED BY <1>1, <2>1
<1> HIDE DEF G, values
<1>3. /\ [t EXCEPT !.values = values] \in [values : Seq(G), ops : Seq(O), roots : Seq(Shapes)]
      /\ [t EXCEPT !.roots = roots, !.values = values]
           \in [values : Seq(G), ops : Seq(O), roots : Seq(Shapes)]
  BY <1>1, <1>2
<1> QED BY <1>3 DEF TraceOK, G, O, values

\* An operator of the last n values.
LEMMA ApplyOK ==
  ASSUME NEW t, TraceOK(t), NEW op \in Operators, NEW n \in 1 .. 2, n <= Len(t.values)
  PROVE  TraceOK(Apply(t, op, n))
<1> DEFINE G == Given
           O == Ops(Given)
           s == t.values
           rest == Len(s) - n
           res == Result(Len(t.ops) + 1)
           in == SubSeq(s, rest + 1, rest + n)
           o == Operation(op, in, res)
           values == Append(SubSeq(s, 1, rest), res)
           ops == Append(t.ops, o)
<1>1. t \in [values : Seq(G), ops : Seq(O), roots : Seq(Shapes)]
  BY DEF TraceOK
<1>2. res \in G
  <2>1. Len(t.ops) + 1 \in Nat
    <3> HIDE DEF O
    <3> QED BY <1>1
  <2> QED BY <2>1 DEF Given
<1> HIDE DEF G, O, res
<1>3. s \in Seq(G) /\ n <= Len(s)
  BY <1>1
<1> HIDE DEF s
<1>4. rest \in Nat /\ rest + n = Len(s) /\ n = (rest + n) - (rest + 1) + 1
  BY <1>3
<1>5. in \in Seq(G) /\ Len(in) = n
  <2> DEFINE a == rest + 1
             b == rest + n
  <2>1. a \in Int /\ b \in Int /\ a <= b /\ n = b - a + 1 /\ \A i \in a .. b : s[i] \in G
    BY <1>3, <1>4
  <2> HIDE DEF a, b
  <2>2. SubSeq(s, a, b) \in Seq(G) /\ Len(SubSeq(s, a, b)) = n
    BY <2>1, SubSeqProperties
  <2> QED BY <2>2 DEF a, b
<1>6. SubSeq(s, 1, rest) \in Seq(G)
  <2>1. \A i \in 1 .. rest : s[i] \in G
    BY <1>3, <1>4
  <2> HIDE DEF rest
  <2> QED BY <1>4, <2>1, SubSeqProperties
<1> HIDE DEF in, rest
<1>7. o \in O
  <2>1. op \in Names /\ n \in 1 .. 2
    BY DEF Names
  <2>2. res # NoValue
    BY DEF res, Result, NoValue
  <2> DEFINE N == Names
             U == G \union {NoValue}
             R == [op : N, in : Seq(G), out : U]
  <2>3. O = {x \in R : Fits(x)}
    BY DEF O, G, Ops
  <2> HIDE DEF N, U
  <2>4. o \in R /\ o.in = in /\ o.out = res
    BY <1>2, <1>5, <2>1 DEF Operation, N, U
  <2> HIDE DEF o, R
  <2>5. Len(o.in) = n
    BY <1>5, <2>4, Zenon
  <2>6. Fits(o)
    BY <2>1, <2>2, <2>4, <2>5 DEF Fits
  <2> QED BY <2>3, <2>4, <2>6
<1> HIDE DEF o
<1>8. values \in Seq(G) /\ ops \in Seq(O)
  BY <1>1, <1>2, <1>6, <1>7
<1> HIDE DEF values, ops
<1>9. [t EXCEPT !.values = values, !.ops = ops] \in [values : Seq(G), ops : Seq(O), roots : Seq(Shapes)]
  BY <1>1, <1>8
<1> QED BY <1>9 DEF TraceOK, G, O, values, ops, Apply, rest, res, in, o, s

\* Tracing keeps the trace well-formed.
LEMMA TraceStep ==
  ASSUME TraceOK(trace),
         TraceNewRoot \/ TraceSameRoot \/ TraceSameResult \/ TraceUnary \/ TraceBinary \/ TraceBroadcast
  PROVE  TraceOK(trace')
<1>1. trace.roots \in Seq(Shapes) /\ trace.values \in Seq(Given)
      /\ Len(trace.roots) \in Nat /\ Len(trace.ops) \in Nat /\ Len(trace.values) \in Nat
  BY DEF TraceOK
<1>2. CASE TraceNewRoot
  <2>1. PICK shape \in Shapes : trace' = NewRoot(trace, shape)
    BY <1>2 DEF TraceNewRoot
  <2>2. Arg(Len(trace.roots) + 1) \in Given
    BY <1>1 DEF Given
  <2>3. Append(trace.roots, shape) \in Seq(Shapes)
    <3> DEFINE S == Shapes
    <3>1. shape \in S /\ trace.roots \in Seq(S)
      BY <1>1
    <3> HIDE DEF S
    <3>2. Append(trace.roots, shape) \in Seq(S)
      BY <3>1
    <3> QED BY <3>2 DEF S
  <2> QED BY <2>1, <2>2, <2>3, PushOK DEF NewRoot
<1>3. CASE TraceSameRoot
  <2>1. PICK n \in 1 .. Len(trace.roots) : trace' = SameRoot(trace, n)
    BY <1>3 DEF TraceSameRoot
  <2>2. Arg(n) \in Given
    BY <1>1 DEF Given
  <2> QED BY <1>1, <2>1, <2>2, PushOK DEF SameRoot
<1>4. CASE TraceSameResult
  <2>1. PICK k \in 1 .. Len(trace.ops) : trace' = SameResult(trace, k)
    BY <1>4 DEF TraceSameResult
  <2>2. Result(k) \in Given
    BY <1>1 DEF Given
  <2> QED BY <1>1, <2>1, <2>2, PushOK DEF SameResult
<1>5. CASE TraceUnary
  <2>1. PICK op \in Unary : trace' = Apply(trace, op, 1)
    BY <1>5 DEF TraceUnary
  <2>2. 1 <= Len(trace.values) /\ op \in Operators /\ 1 \in 1 .. 2
    BY <1>1, <1>5 DEF TraceUnary, Elementwise, Operators
  <2> QED BY <2>1, <2>2, ApplyOK
<1>6. CASE TraceBinary
  <2>1. PICK op \in Binary \union MinMax : trace' = Apply(trace, op, 2)
    BY <1>6 DEF TraceBinary
  <2>2. 2 <= Len(trace.values) /\ op \in Operators /\ 2 \in 1 .. 2
    BY <1>1, <1>6 DEF TraceBinary, Elementwise, Operators
  <2> QED BY <2>1, <2>2, ApplyOK
<1>7. CASE TraceBroadcast
  <2>1. PICK op \in Shapes \ {"full"} : CanBroadcast(trace, op) /\ trace' = Apply(trace, op, 1)
    BY <1>7 DEF TraceBroadcast
  <2>2. op \in Operators
    BY DEF Shapes, Operators
  <2>3. 1 <= Len(trace.values)
    BY <1>1, <2>1 DEF CanBroadcast
  <2>4. 1 \in 1 .. 2
    OBVIOUS
  <2> QED BY <2>1, <2>2, <2>3, <2>4, ApplyOK
<1> QED BY <1>2, <1>3, <1>4, <1>5, <1>6, <1>7

\* A body of such values, with a store, which ends with its yield.
BodyOK(ops, values) ==
  /\ ops \in Seq(Ops(values)) /\ \E k \in DOMAIN ops : ops[k].op = "tile_store"
  /\ Len(ops) # 0 /\ Last(ops).op = "yield"

\* The body of a compute is one, of the values of its trace.
LEMMA BodyOps ==
  ASSUME NEW t, TraceOK(t), Traced(t), NEW stores \in Nat \ {0}
  PROVE  BodyOK(Body(t, stores), Given)
<1> DEFINE G == Given
           O == Ops(Given)
           v == Last(t.values)
           store == Operation("tile_store", <<v>>, NoValue)
           yield == Operation("yield", <<v>>, NoValue)
           first == TileOps(t)
           second == [i \in 1 .. stores |-> store]
           b == Body(t, stores)
<1>1. t \in [values : Seq(G), ops : Seq(O), roots : Seq(Shapes)]
  BY DEF TraceOK
<1>2. v \in G
  <2> HIDE DEF G, O
  <2>1. t.values \in Seq(G) /\ Len(t.values) = 1
    BY <1>1 DEF Traced
  <2> QED BY <2>1 DEF Last
<1>3. Arg(1) \in G /\ Arg(2) \in G
  BY DEF Given
<1> HIDE DEF G
<1>4. store \in O /\ yield \in O
  <2> HIDE DEF v
  <2>1. <<v>> \in Seq(G) /\ Len(<<v>>) = 1
    BY <1>2
  <2>2. "tile_store" \in Names /\ "yield" \in Names
    BY DEF Names
  <2> DEFINE N == Names
             U == G \union {NoValue}
             R == [op : N, in : Seq(G), out : U]
  <2>3. NoValue \in U
    OBVIOUS
  <2> HIDE DEF N, U
  <2>4. store \in R /\ yield \in R /\ store.in = <<v>> /\ yield.in = <<v>>
    BY <2>1, <2>2, <2>3 DEF Operation, N
  <2>5. Len(store.in) <= 2 /\ Len(yield.in) <= 2
    <3>1. Len(<<v>>) <= 2
      BY <2>1
    <3> QED BY <2>4, <3>1, Zenon
  <2>6. O = {o \in R : Fits(o)}
    BY DEF Ops, N, U, G
  <2>7. ~IsUnary(store) /\ ~IsUnary(yield)
    BY OperatorsAssumption DEF IsUnary, Operation
  <2> HIDE DEF store, yield, R
  <2>8. Fits(store) /\ Fits(yield)
    BY <2>5, <2>7 DEF Fits
  <2> QED BY <2>4, <2>6, <2>8
<1>5. first \in Seq(O)
  <2>1. CASE Direct(t)
    <3>1. t.ops[1] \in O
      <4> HIDE DEF O
      <4> QED BY <1>1, <2>1 DEF Direct
    <3>2. <<Arg(1), Arg(2)>> \in Seq(G) /\ Len(<<Arg(1), Arg(2)>>) = 2
      BY <1>3
    <3> DEFINE o == [t.ops[1] EXCEPT !.in = <<Arg(1), Arg(2)>>]
    <3>3. o \in O
      <4> DEFINE s2 == <<Arg(1), Arg(2)>>
                 N == Names
                 U == G \union {NoValue}
                 R == [op : N, in : Seq(G), out : U]
      <4>1. s2 \in Seq(G) /\ Len(s2) <= 2
        BY <3>2
      <4>2. O = {x \in R : Fits(x)} /\ Len(s2) = 2
        BY DEF Ops, G
      <4> HIDE DEF s2, N, U
      <4> DEFINE c == [t.ops[1] EXCEPT !.in = s2]
      <4>3. c \in R /\ c.in = s2 /\ c.op = t.ops[1].op /\ c.out = t.ops[1].out
        BY <3>1, <4>1, <4>2
      <4> HIDE DEF c
      <4>4. Len(c.in) = 2
        BY <4>2, <4>3, Zenon
      <4>5. IsUnary(c) => c.out # NoValue
        BY <3>1, <4>2, <4>3 DEF Fits, IsUnary
      <4>6. Fits(c)
        BY <4>4, <4>5 DEF Fits
      <4> QED BY <4>2, <4>3, <4>6 DEF s2, c
    <3> HIDE DEF o, O
    <3>4. <<o>> \in Seq(O)
      BY <3>3
    <3> QED BY <2>1, <3>4 DEF TileOps, o
  <2>2. CASE ~Direct(t)
    <3> HIDE DEF O
    <3> QED BY <1>1, <2>2 DEF TileOps
  <2> QED BY <2>1, <2>2
<1> HIDE DEF O, store, yield, first
<1>6. second \in Seq(O) /\ Len(second) = stores
  BY <1>4
<1>7. <<yield>> \in Seq(O)
  BY <1>4
<1>8. b = first \o second \o <<yield>>
  BY Zenon DEF Body, first, second, store, yield, v
<1> HIDE DEF second
<1>9. b \in Seq(O)
  BY <1>5, <1>6, <1>7, <1>8
<1>10. \E k \in DOMAIN b : b[k] = store
  <2> DEFINE k == Len(first) + 1
  <2>1. first \o second \in Seq(O) /\ Len(first \o second) = Len(first) + stores
        /\ Len(first) \in Nat
    BY <1>5, <1>6
  <2>2. k \in 1 .. Len(first \o second) /\ (first \o second)[k] = second[1] /\ second[1] = store
    <3>1. k \in 1 .. Len(first \o second) /\ k > Len(first) /\ k - Len(first) = 1
      BY <2>1
    <3>2. second[1] = store
      BY DEF second
    <3> HIDE DEF k
    <3>3. (first \o second)[k] = second[k - Len(first)]
      BY <1>5, <1>6, <2>1, <3>1, ConcatProperties
    <3> QED BY <3>1, <3>2, <3>3
  <2> HIDE DEF k
  <2> DEFINE h == first \o second
  <2> HIDE DEF h
  <2>3. h \in Seq(O) /\ k \in 1 .. Len(h) /\ h[k] = store
    BY <2>1, <2>2 DEF h
  <2>4. (h \o <<yield>>)[k] = store /\ k \in DOMAIN (h \o <<yield>>)
    BY <1>7, <2>3
  <2> QED BY <1>8, <2>4 DEF h
<1>12. Len(b) # 0 /\ Last(b) = yield
  <2> DEFINE h == first \o second
  <2>1. h \in Seq(O)
    BY <1>5, <1>6
  <2> HIDE DEF h
  <2>2. Len(h \o <<yield>>) = Len(h) + 1 /\ Len(h) \in Nat /\ (h \o <<yield>>)[Len(h) + 1] = yield
    BY <1>7, <2>1
  <2>3. b = h \o <<yield>>
    BY <1>8 DEF h
  <2> HIDE DEF b
  <2> QED BY <2>2, <2>3 DEF Last
<1> HIDE DEF b
<1>11. store.op = "tile_store" /\ yield.op = "yield"
  BY DEF store, yield, Operation
<1> QED BY <1>9, <1>10, <1>11, <1>12 DEF b, O, BodyOK

\* An operation is one of the operations.
LEMMA OperationIn ==
  ASSUME NEW G, NEW op \in Names \ Unary, NEW in \in Seq(G), Len(in) <= 2,
         NEW res \in G \union {NoValue}
  PROVE  Operation(op, in, res) \in Ops(G)
<1> DEFINE N == Names
           U == G \union {NoValue}
           R == [op : N, in : Seq(G), out : U]
           o == Operation(op, in, res)
<1>1. Ops(G) = {x \in R : Fits(x)}
  BY DEF Ops
<1> HIDE DEF N, U
<1>2. o \in R /\ o.in = in /\ ~IsUnary(o)
  BY DEF Operation, N, U, IsUnary
<1> HIDE DEF o, R
<1>3. Len(o.in) <= 2
  BY <1>2, Zenon
<1>4. Fits(o)
  BY <1>2, <1>3 DEF Fits
<1> QED BY <1>1, <1>2, <1>4 DEF o

\* Sequences that are flattened.
LEMMA FlattenIn ==
  ASSUME NEW S, NEW n \in Nat, NEW ss \in [1 .. n -> Seq(S)]
  PROVE  /\ FlattenSeq(ss) \in Seq(S)
         /\ ToSet(FlattenSeq(ss)) = UNION {ToSet(ss[i]) : i \in 1 .. n}
<1> DEFINE Q == Seq(S)
<1>1. ss \in Seq(Q) /\ Len(ss) = n
  <2>1. ss \in [1 .. n -> Q]
    OBVIOUS
  <2> HIDE DEF Q
  <2> QED BY <2>1
<1> QED BY <1>1, FlattenElements

\* How often a value is consumed and copied is a number.
LEMMA CopiesCount ==
  ASSUME NEW G, NEW ops \in Seq(Ops(G)), NEW v, NEW k \in DOMAIN ops
  PROVE  Times(ops, v, k) \in Nat /\ Copies(ops, v, k) \in Nat
<1>1. \A j \in DOMAIN ops : Times(ops, v, j) \in Nat
  <2> SUFFICES ASSUME NEW j \in DOMAIN ops PROVE Times(ops, v, j) \in Nat
    OBVIOUS
  <2> DEFINE O == Ops(G)
             s == Operands(ops[j])
             I == {i \in DOMAIN s : ops[j].in[i] = v}
  <2>1. ops[j] \in O
    <3>1. ops \in Seq(O)
      OBVIOUS
    <3> HIDE DEF O
    <3> QED BY <3>1
  <2>2. ops[j].in \in Seq(G)
    BY <2>1 DEF Ops
  <2>3. s \in Seq(G)
    <3>1. << >> \in Seq(G)
      OBVIOUS
    <3> QED BY <2>2, <3>1, Zenon DEF Operands
  <2> HIDE DEF s
  <2>4. IsFiniteSet(I)
    <3>1. IsFiniteSet(1 .. Len(s)) /\ I \subseteq 1 .. Len(s)
      BY <2>3, FS_Interval
    <3> QED BY <3>1, FS_Subset
  <2>5. Cardinality(I) \in Nat
    <3> HIDE DEF I
    <3> QED BY <2>4, FS_CardinalityType
  <2> QED BY <2>5 DEF Times, s
<1>2. Times(ops, v, k) \in Nat
  BY <1>1
<1>3. k \in Uses(ops, v) => Times(ops, v, k) >= 1
  BY <1>2 DEF Uses
<1> QED BY <1>2, <1>3 DEF Copies

\* The copies made for one use of a value.
LEMMA CopyOpsIn ==
  ASSUME NEW v \in Given, NEW k \in Nat, NEW i \in Nat
  PROVE  CopyOps(v, k, i) \in Seq(Ops(Held))
<1> DEFINE O == Ops(Held)
           H == Held
<1>1. v \in H /\ Copy(v, k, i) \in H \union {NoValue} /\ NoValue \in H \union {NoValue}
  BY DEF Held
<1>2. {"constant", "copy_tile", "copy_dst"} \subseteq Names \ Unary
  BY OperatorsAssumption DEF Names
<1> HIDE DEF H
<1>3. <<v>> \in Seq(H) /\ << >> \in Seq(H)
  BY <1>1
<1>4. Len(<<v>>) <= 2 /\ Len(<< >>) <= 2
  OBVIOUS
<1>5. /\ Operation("constant", << >>, NoValue) \in Ops(H)
      /\ Operation("copy_tile", <<v>>, Copy(v, k, i)) \in Ops(H)
      /\ Operation("copy_dst", <<v>>, Copy(v, k, i)) \in Ops(H)
  BY <1>1, <1>2, <1>3, <1>4, OperationIn
<1> DEFINE a == Operation("constant", << >>, NoValue)
           b == Operation("copy_tile", <<v>>, Copy(v, k, i))
           c == Operation("copy_dst", <<v>>, Copy(v, k, i))
<1>6. a \in O /\ b \in O /\ c \in O
  BY <1>5 DEF H
<1> HIDE DEF a, b, c, O
<1>7. <<a, b>> \in Seq(O) /\ <<c>> \in Seq(O)
  BY <1>6
<1> QED BY <1>7 DEF CopyOps, a, b, c, O

\* A body with its copies is a body, of their values too.
LEMMA CopiesInserted ==
  ASSUME NEW ops, BodyOK(ops, Given), NEW args \in Nat
  PROVE  BodyOK(InsertCopies(ops, args), Held)
<1> DEFINE G == Given
           O == Ops(Held)
           L == Len(ops)
           results == Cardinality({j \in DOMAIN ops : ops[j].out # NoValue})
           values == [n \in 1 .. args |-> Arg(n)] \o [k \in 1 .. results |-> Result(k)]
           V == Len(values)
           copies(k, j) == [i \in 1 .. Copies(ops, values[j], k) |-> CopyOps(values[j], k, i)]
           each(k) == [j \in 1 .. V |-> FlattenSeq(copies(k, j))]
           now(k, v) == IF Copies(ops, v, k) > 0 THEN Copy(v, k, 1) ELSE v
           op(k) == [ops[k] EXCEPT !.in = [i \in DOMAIN @ |-> now(k, @[i])]]
           part(k) == FlattenSeq(each(k)) \o <<op(k)>>
           parts == [k \in 1 .. L |-> part(k)]
<1>0. ops \in Seq(Ops(Given)) /\ Len(ops) # 0 /\ Last(ops).op = "yield"
  BY DEF BodyOK
<1>1. L \in Nat /\ DOMAIN ops = 1 .. L
  <2> DEFINE S == Ops(Given)
  <2> HIDE DEF S
  <2>1. ops \in Seq(S)
    BY <1>0 DEF S
  <2> QED BY <2>1
<1>2. values \in Seq(G) /\ V \in Nat /\ \A j \in 1 .. V : values[j] \in G
  <2> DEFINE a == [n \in 1 .. args |-> Arg(n)]
             r == [k \in 1 .. results |-> Result(k)]
             I == {j \in DOMAIN ops : ops[j].out # NoValue}
  <2>1. results \in Nat
    <3>1. IsFiniteSet(I)
      <4>1. IsFiniteSet(1 .. L) /\ I \subseteq 1 .. L
        BY <1>1, FS_Interval
      <4> QED BY <4>1, FS_Subset
    <3> HIDE DEF I
    <3> QED BY <3>1, FS_CardinalityType DEF I
  <2>2. \A n \in Nat : Arg(n) \in G /\ Result(n) \in G
    BY DEF Given
  <2> HIDE DEF G, results
  <2>3. a \in Seq(G) /\ r \in Seq(G)
    BY <2>1, <2>2
  <2> HIDE DEF a, r
  <2>4. a \o r \in Seq(G)
    BY <2>3
  <2> DEFINE b == a \o r
  <2> HIDE DEF b
  <2>5. b \in Seq(G) /\ Len(b) \in Nat /\ \A j \in 1 .. Len(b) : b[j] \in G
    BY <2>4 DEF b
  <2> QED BY <2>5, Zenon DEF a, r, b
<1> HIDE DEF values
<1>3. ASSUME NEW k \in 1 .. L PROVE FlattenSeq(each(k)) \in Seq(O)
  <2>1. ASSUME NEW j \in 1 .. V PROVE FlattenSeq(copies(k, j)) \in Seq(O)
    <3> DEFINE n == Copies(ops, values[j], k)
               c == copies(k, j)
    <3>1. n \in Nat
      BY <1>0, <1>1, CopiesCount
    <3>2. \A i \in 1 .. n : CopyOps(values[j], k, i) \in Seq(O)
      <4>1. values[j] \in Given /\ k \in Nat
        BY <1>2
      <4> QED BY <4>1, CopyOpsIn
    <3> HIDE DEF n, O
    <3>3. c \in [1 .. n -> Seq(O)]
      BY <3>2 DEF n
    <3> HIDE DEF c
    <3> QED BY <3>1, <3>3, FlattenIn DEF c
  <2> DEFINE e == each(k)
  <2>2. e \in [1 .. V -> Seq(O)]
    <3> HIDE DEF O, V, copies
    <3> QED BY <2>1
  <2> HIDE DEF e, O, V
  <2> QED BY <1>2, <2>2, FlattenIn DEF e
<1>4. ASSUME NEW k \in 1 .. L PROVE op(k) \in O /\ op(k).op = ops[k].op
  <2> DEFINE S == Ops(Given)
             in == ops[k].in
             new == [i \in DOMAIN in |-> now(k, in[i])]
             H == Held
             N == Names
             U == H \union {NoValue}
  <2>1. ops[k] \in S
    <3>1. ops \in Seq(S)
      BY <1>0
    <3> HIDE DEF S
    <3> QED BY <1>1, <3>1
  <2>2. in \in Seq(G) /\ Len(in) <= 2
    BY <2>1 DEF Ops, Fits
  <2>3. \A v \in G : now(k, v) \in H
    <3>1. k \in Nat /\ 1 \in Nat
      OBVIOUS
    <3>2. \A v \in Given : v \in H /\ Copy(v, k, 1) \in H
      BY <3>1 DEF Held
    <3> QED BY <3>2
  <2>4. ops[k] \in [op : N, in : Seq(G), out : U]
    <3>1. G \union {NoValue} \subseteq U
      BY DEF Held
    <3>2. ops[k] \in [op : N, in : Seq(G), out : G \union {NoValue}]
      BY <2>1 DEF Ops
    <3> HIDE DEF G, N, U
    <3> QED BY <3>1, <3>2
  <2> HIDE DEF G, H, now, in
  <2>5. new \in Seq(H) /\ Len(new) = Len(in)
    <3>1. Len(in) \in Nat /\ DOMAIN in = 1 .. Len(in) /\ \A i \in 1 .. Len(in) : in[i] \in G
      BY <2>2
    <3>2. new \in [1 .. Len(in) -> H]
      BY <2>3, <3>1
    <3> HIDE DEF new
    <3> QED BY <2>2, <3>1, <3>2
  <2> HIDE DEF new, N, U
  <2> DEFINE o == [ops[k] EXCEPT !.in = new]
             R == [op : N, in : Seq(H), out : U]
  <2>6. o \in R /\ o.in = new /\ o.op = ops[k].op /\ o.out = ops[k].out
    BY <2>4, <2>5
  <2>7. O = {x \in R : Fits(x)}
    BY DEF Ops, N, U, H
  <2> HIDE DEF R, o
  <2>8. Fits(o)
    <3>1. Len(o.in) = Len(in)
      BY <2>5, <2>6, Zenon
    <3>2. Len(in) <= 2 /\ (IsUnary(ops[k]) => Len(in) >= 1 /\ ops[k].out # NoValue)
      BY <2>1 DEF Ops, Fits, in
    <3> QED BY <2>6, <3>1, <3>2 DEF Fits, IsUnary
  <2>9. o \in O
    BY <2>6, <2>7, <2>8
  <2> QED BY <2>6, <2>9 DEF o, new, in
<1> HIDE DEF each, op
<1>5. ASSUME NEW k \in 1 .. L
      PROVE  /\ part(k) \in Seq(O) /\ \E p \in DOMAIN part(k) : part(k)[p] = op(k)
             /\ Len(part(k)) # 0 /\ Last(part(k)) = op(k)
  <2> DEFINE f == FlattenSeq(each(k))
             o == op(k)
  <2>1. f \in Seq(O) /\ o \in O
    BY <1>3, <1>4
  <2> HIDE DEF f, o, O
  <2>2. f \o <<o>> \in Seq(O) /\ Len(f) + 1 \in DOMAIN (f \o <<o>>) /\ (f \o <<o>>)[Len(f) + 1] = o
        /\ Len(f \o <<o>>) = Len(f) + 1 /\ Len(f) \in Nat
    BY <2>1
  <2>3. Len(f \o <<o>>) # 0 /\ Last(f \o <<o>>) = o
    BY <2>2 DEF Last
  <2> QED BY <2>2, <2>3 DEF f, o
<1> HIDE DEF part, O
<1>6. parts \in [1 .. L -> Seq(O)]
  BY <1>5
<1>7. InsertCopies(ops, args) = FlattenSeq(parts)
  BY <1>1, Zenon DEF InsertCopies, parts, part, each, copies, op, now, values, results, V
<1>8. \A i \in 1 .. L : parts[i] = part(i)
  OBVIOUS
<1> HIDE DEF parts
<1>9. /\ FlattenSeq(parts) \in Seq(O)
      /\ ToSet(FlattenSeq(parts)) = UNION {ToSet(parts[i]) : i \in 1 .. L}
  <2> HIDE DEF L
  <2> QED BY <1>1, <1>6, FlattenIn
<1>14. Len(FlattenSeq(parts)) # 0 /\ Last(FlattenSeq(parts)).op = "yield"
  <2> DEFINE Q == Seq(O)
  <2>1. parts \in Seq(Q) /\ Len(parts) = L
    <3> HIDE DEF L, Q
    <3>1. parts \in [1 .. L -> Q]
      BY <1>6 DEF Q
    <3> QED BY <1>1, <3>1
  <2>2. L \in 1 .. L
    BY <1>0, <1>1
  <2>3. parts[L] = part(L) /\ Len(part(L)) # 0 /\ Last(part(L)) = op(L)
    BY <1>5, <1>8, <2>2
  <2>4. Len(parts) # 0 /\ Len(parts[Len(parts)]) # 0
    BY <1>0, <2>1, <2>3
  <2>5. Len(FlattenSeq(parts)) \in Nat \ {0} /\ Last(FlattenSeq(parts)) = Last(parts[Len(parts)])
    BY <2>1, <2>4, FlattenLast
  <2>6. op(L).op = ops[L].op /\ ops[L] = Last(ops)
    BY <1>4, <2>2 DEF Last
  <2> QED BY <1>0, <2>1, <2>3, <2>5, <2>6
<1>10. PICK k \in 1 .. L : ops[k].op = "tile_store"
  BY <1>1 DEF BodyOK
<1>11. PICK p \in DOMAIN part(k) : part(k)[p] = op(k)
  BY <1>5
<1>12. op(k) \in ToSet(FlattenSeq(parts))
  <2>1. op(k) \in ToSet(parts[k])
    BY <1>8, <1>11 DEF ToSet
  <2> QED BY <1>9, <2>1
<1>13. op(k).op = "tile_store"
  BY <1>4, <1>10
<1> QED BY <1>7, <1>9, <1>12, <1>13, <1>14 DEF O, ToSet, BodyOK

-----------------------------------------------------------------------------
(* The code of the two threads.                                            *)

\* Operations on tiles: MATH fills registers, PACK stores them.
Works(i) ==
  \/ i.thread = "MATH" /\ i.do \in {"unpack", "bcast", "compute"}
  \/ i.thread = "PACK" /\ i.do = "pack"

\* The loads of an operation are some of its operands.
LEMMA LoadsIn ==
  ASSUME NEW H, NEW ops \in Seq(Ops(H)), NEW k \in DOMAIN ops
  PROVE  Loads(ops, k) \in Seq(H)
<1> DEFINE O == Ops(H)
           s == ops[k].in
           uses(j, v) == ops[j].op # "copy_tile" /\ Contains(Operands(ops[j]), v)
           fresh(i)   == /\ IsArg(s[i]) /\ uses(k, s[i])
                         /\ \A j \in 1 .. k - 1 : ~uses(j, s[i])
                         /\ \A j \in 1 .. i - 1 : s[j] # s[i]
           C == {i \in 1 .. Len(s) : fresh(i)}
           f == [i \in 1 .. Len(s) |-> IF i \in C THEN <<s[i]>> ELSE << >>]
<1>1. s \in Seq(H)
  <2>1. ops[k] \in O
    <3>1. ops \in Seq(O)
      OBVIOUS
    <3> HIDE DEF O
    <3> QED BY <3>1
  <2> QED BY <2>1 DEF Ops
<1>2. DOMAIN s = 1 .. Len(s)
  <2> HIDE DEF s
  <2> QED BY <1>1
<1>3. Loads(ops, k) = FlattenSeq([i \in DOMAIN s |-> IF fresh(i) THEN <<s[i]>> ELSE << >>])
  BY Zenon DEF Loads
<1> HIDE DEF s, fresh
<1>4. [i \in DOMAIN s |-> IF fresh(i) THEN <<s[i]>> ELSE << >>] = f
  BY <1>2
<1>5. Loads(ops, k) = Selection(s, C)
  BY <1>3, <1>4, Zenon DEF Selection, f
<1>6. C \in SUBSET (1 .. Len(s))
  OBVIOUS
<1> HIDE DEF C
<1> QED BY <1>1, <1>5, <1>6, SelectionIs

\* An operation becomes at most one that works; a tile_store becomes a pack.
LEMMA LowerIs ==
  ASSUME NEW ops, NEW k, NEW reg, ops[k].op \in Names
  PROVE  /\ Lower(ops, k, reg) \in Seq(ToSet(Lower(ops, k, reg)))
         /\ \A x \in ToSet(Lower(ops, k, reg)) : Works(x)
         /\ ops[k].op = "tile_store" => \E x \in ToSet(Lower(ops, k, reg)) : x.thread = "PACK"
<1> DEFINE l == Lower(ops, k, reg)
           o == ops[k]
           from == [i \in 1 .. Len(o.in) |-> reg[o.in[i]]]
<1>1. \A s : s = << >> => s \in Seq(ToSet(s)) /\ \A x \in ToSet(s) : Works(x)
  BY DEF ToSet
<1>2. \A x, s : s = <<x>> => s \in Seq(ToSet(s)) /\ ToSet(s) = {x}
  BY DEF ToSet
<1>3. "tile_store" \notin Unary \union Binary \union MinMax \union {"copy_tile", "col", "row", "scalar"}
  BY OperatorsAssumption
<1>4. CASE o.op = "tile_store"
  <2> DEFINE x == Instr("PACK", "pack", o.op, from[1],
                        Cardinality({j \in 1 .. k : ops[j].op = "tile_store"}))
  <2>1. l = <<x>>
    BY <1>3, <1>4 DEF Lower, CBInput
  <2>2. Works(x) /\ x.thread = "PACK"
    BY DEF Works, Instr
  <2> HIDE DEF l, x
  <2> QED BY <1>2, <2>1, <2>2 DEF l
<1>5. CASE o.op # "tile_store"
  <2>1. \A a, b, c : Works(Instr("MATH", "bcast", a, b, c)) /\ Works(Instr("MATH", "compute", a, b, c))
                     /\ Works(Unpack(a, b))
    BY DEF Works, Instr, Unpack
  <2>2. \/ l = << >>
        \/ l = <<Unpack(o.in[1][2], reg[o.out])>>
        \/ l = <<Instr("MATH", "bcast", o.op, o.in[1][2], reg[o.out])>>
        \/ l = <<Instr("MATH", "compute", o.op, <<reg[o.out]>>, reg[o.out])>>
        \/ l = <<Instr("MATH", "compute", o.op, from, reg[o.out])>>
        \/ l = <<Instr("MATH", "compute", o.op, from, from[1])>>
    <3> DEFINE u == <<Unpack(o.in[1][2], reg[o.out])>>
               v == <<Instr("MATH", "bcast", o.op, o.in[1][2], reg[o.out])>>
               w == <<Instr("MATH", "compute", o.op, <<reg[o.out]>>, reg[o.out])>>
               x == <<Instr("MATH", "compute", o.op, from, reg[o.out])>>
               y == <<Instr("MATH", "compute", o.op, from, from[1])>>
               z == <<Instr("PACK", "pack", o.op, from[1],
                            Cardinality({j \in 1 .. k : ops[j].op = "tile_store"}))>>
    <3>1. l = CASE o.op = "copy_tile"  -> u
                [] CBInput(o)          -> v
                [] o.op \in Unary      -> w
                [] o.op \in Binary     -> x
                [] o.op \in MinMax     -> y
                [] o.op = "tile_store" -> z
                [] OTHER               -> << >>
      BY Zenon DEF Lower
    <3> HIDE DEF l, o, u, v, w, x, y, z
    <3>2. l = << >> \/ l = u \/ l = v \/ l = w \/ l = x \/ l = y
      BY <1>5, <3>1
    <3> QED BY <3>2, Zenon DEF u, v, w, x, y, o
  <2>3. l = << >> \/ \E x : Works(x) /\ l = <<x>>
    <3> HIDE DEF l, from, o
    <3> QED BY <2>1, <2>2
  <2> HIDE DEF l
  <2> QED BY <1>1, <1>2, <1>5, <2>3 DEF l, o
<1> QED BY <1>4, <1>5

\* A body becomes operations that work, with a pack among them.
LEMMA LoweredWorks ==
  ASSUME NEW H, NEW ops \in Seq(Ops(H)), NEW reg, \E k \in DOMAIN ops : ops[k].op = "tile_store"
  PROVE  /\ LowerAll(ops, reg) \in Seq(ToSet(LowerAll(ops, reg)))
         /\ \A x \in ToSet(LowerAll(ops, reg)) : Works(x)
         /\ \E x \in ToSet(LowerAll(ops, reg)) : x.thread = "PACK"
<1> DEFINE L == Len(ops)
           load(k) == [i \in 1 .. Len(Loads(ops, k)) |-> Unpack(Loads(ops, k)[i][2], reg[Loads(ops, k)[i]])]
           part(k) == load(k) \o Lower(ops, k, reg)
           parts == [k \in 1 .. L |-> part(k)]
           S == UNION {ToSet(parts[k]) : k \in 1 .. L}
<1>1. L \in Nat /\ DOMAIN ops = 1 .. L /\ \A k \in 1 .. L : ops[k] \in Ops(H)
  <2> DEFINE O == Ops(H)
  <2>1. ops \in Seq(O)
    OBVIOUS
  <2> HIDE DEF O
  <2>2. L \in Nat /\ DOMAIN ops = 1 .. L /\ \A k \in 1 .. L : ops[k] \in O
    BY <2>1
  <2> QED BY <2>2 DEF O
<1>2. ASSUME NEW k \in 1 .. L
      PROVE  /\ part(k) \in Seq(ToSet(part(k))) /\ \A x \in ToSet(part(k)) : Works(x)
             /\ ops[k].op = "tile_store" => \E x \in ToSet(part(k)) : x.thread = "PACK"
  <2> DEFINE a == load(k)
             b == Lower(ops, k, reg)
             W == ToSet(a) \union ToSet(b)
  <2>1. Loads(ops, k) \in Seq(H)
    BY <1>1, LoadsIn
  <2>2. a \in Seq(ToSet(a)) /\ \A x \in ToSet(a) : Works(x)
    <3> DEFINE n == Len(Loads(ops, k))
    <3>1. n \in Nat
      BY <2>1
    <3>2. \A r, s : Works(Unpack(r, s))
      BY DEF Works, Instr, Unpack
    <3> HIDE DEF n
    <3>3. a \in [1 .. n -> ToSet(a)] /\ DOMAIN a = 1 .. n
      BY DEF ToSet, n
    <3>4. \A x \in ToSet(a) : Works(x)
      BY <3>2 DEF ToSet
    <3> HIDE DEF a
    <3> QED BY <3>1, <3>3, <3>4
  <2>3. /\ b \in Seq(ToSet(b)) /\ \A x \in ToSet(b) : Works(x)
        /\ ops[k].op = "tile_store" => \E x \in ToSet(b) : x.thread = "PACK"
    <3>1. ops[k].op \in Names
      BY <1>1 DEF Ops
    <3> QED BY <3>1, LowerIs
  <2> HIDE DEF a, b
  <2>4. a \in Seq(W) /\ b \in Seq(W)
    BY <2>2, <2>3
  <2>5. a \o b \in Seq(W) /\ ToSet(a \o b) = W
    <3>1. a \o b \in Seq(W) /\ Len(a \o b) = Len(a) + Len(b)
      BY <2>4
    <3>2. \A x \in ToSet(a) : \E p \in 1 .. Len(a \o b) : (a \o b)[p] = x
      <4> SUFFICES ASSUME NEW i \in 1 .. Len(a) PROVE \E p \in 1 .. Len(a \o b) : (a \o b)[p] = a[i]
        BY <2>2 DEF ToSet
      <4>1. i \in 1 .. Len(a \o b) /\ (a \o b)[i] = a[i]
        BY <2>4
      <4> QED BY <4>1
    <3>3. \A x \in ToSet(b) : \E p \in 1 .. Len(a \o b) : (a \o b)[p] = x
      <4> SUFFICES ASSUME NEW i \in 1 .. Len(b) PROVE \E p \in 1 .. Len(a \o b) : (a \o b)[p] = b[i]
        <5>1. DOMAIN b = 1 .. Len(b)
          BY <2>4
        <5> QED BY <5>1, Zenon DEF ToSet
      <4>1. Len(a) + i \in 1 .. Len(a \o b) /\ (a \o b)[Len(a) + i] = b[i]
        BY <2>4
      <4> QED BY <4>1
    <3>4. \A p \in 1 .. Len(a \o b) : (a \o b)[p] \in W
      BY <3>1
    <3>5. DOMAIN (a \o b) = 1 .. Len(a \o b)
      BY <3>1
    <3> HIDE DEF W
    <3> QED BY <3>1, <3>2, <3>3, <3>4, <3>5 DEF ToSet, W
  <2> QED BY <2>2, <2>3, <2>5, Zenon DEF a, b
<1> HIDE DEF part
<1>3. \A k \in 1 .. L : parts[k] = part(k)
  OBVIOUS
<1>4. parts \in [1 .. L -> Seq(S)]
  <2>1. ASSUME NEW k \in 1 .. L PROVE parts[k] \in Seq(S)
    <3> DEFINE p == parts[k]
    <3>1. p \in Seq(ToSet(p)) /\ ToSet(p) \subseteq S
      BY <1>2
    <3> HIDE DEF p, S
    <3>2. p \in Seq(S)
      BY <3>1
    <3> QED BY <3>2 DEF p
  <2> HIDE DEF S
  <2> QED BY <2>1
<1>5. LowerAll(ops, reg) = FlattenSeq(parts)
  BY Zenon DEF LowerAll, parts, part, load, L
<1> HIDE DEF parts
<1>6. /\ FlattenSeq(parts) \in Seq(S)
      /\ ToSet(FlattenSeq(parts)) = UNION {ToSet(parts[i]) : i \in 1 .. L}
  <2> HIDE DEF L, S
  <2> QED BY <1>1, <1>4, FlattenIn
<1>7. ToSet(FlattenSeq(parts)) = S
  BY <1>6, Zenon DEF S
<1>8. \A x \in S : Works(x)
  BY <1>2, <1>3
<1>9. \E x \in S : x.thread = "PACK"
  <2>1. PICK k \in 1 .. L : ops[k].op = "tile_store"
    BY <1>1
  <2>2. PICK x \in ToSet(part(k)) : x.thread = "PACK"
    BY <1>2, <2>1
  <2> QED BY <1>3, <2>2
<1> QED BY <1>5, <1>6, <1>7, <1>8, <1>9

\* Two sequences joined, element by element.
Joins(a, b, t) ==
  /\ Len(t) = Len(a) + Len(b)
  /\ \A p \in 1 .. Len(a) : t[p] = a[p]
  /\ \A j \in 1 .. Len(b) : t[Len(a) + j] = b[j]

\* The operator \o joins them.
LEMMA JoinIs ==
  ASSUME NEW S, NEW a \in Seq(S), NEW b \in Seq(S)
  PROVE  a \o b \in Seq(S) /\ Joins(a, b, a \o b)
BY ConcatParts DEF Joins

\* A sequence with one element put in front, two before position f, one behind.
Around(t, f, a, b, c, d) ==
  <<a>> \o SubSeq(t, 1, f - 1) \o <<b, c>> \o SubSeq(t, f, Len(t)) \o <<d>>

Arounds(s, t, f, a, b, c, d) ==
  /\ Len(s) = Len(t) + 4
  /\ s[1] = a /\ s[f + 1] = b /\ s[f + 2] = c /\ s[Len(t) + 4] = d
  /\ \A i \in 1 .. Len(s) : i \notin {1, f + 1, f + 2, Len(t) + 4} =>
       \E p \in 1 .. Len(t) : /\ s[i] = t[p]
                              /\ i <= f => i = p + 1 /\ p < f
                              /\ i > f + 2 => i = p + 3 /\ p >= f

\* What the sequence has then.
LEMMA PutAround ==
  ASSUME NEW S, NEW t \in Seq(S), NEW f \in 1 .. Len(t),
         NEW a \in S, NEW b \in S, NEW c \in S, NEW d \in S
  PROVE  /\ Around(t, f, a, b, c, d) \in Seq(S)
         /\ Arounds(Around(t, f, a, b, c, d), t, f, a, b, c, d)
<1> DEFINE n == Len(t)
           before == SubSeq(t, 1, f - 1)
           after == SubSeq(t, f, n)
           sa == <<a>>
           sbc == <<b, c>>
           sd == <<d>>
           s1 == sa \o before
           s2 == s1 \o sbc
           s3 == s2 \o after
           s4 == s3 \o sd
<1>1. n \in Nat /\ f \in Int /\ f - 1 \in Int /\ n \in Int /\ 1 \in Int /\ 1 <= f /\ f <= n
      /\ \A i \in 1 .. n : t[i] \in S
  OBVIOUS
<1>2. before \in Seq(S) /\ Len(before) = f - 1 /\ \A i \in 1 .. f - 1 : before[i] = t[i]
  <2> DEFINE m == f - 1
  <2>1. m \in Int /\ \A i \in 1 .. m : t[i] \in S
    BY <1>1
  <2>2. m - 1 + 1 = m /\ (IF 1 <= m THEN m - 1 + 1 ELSE 0) = m /\ \A i \in 1 .. m : 1 + i - 1 = i
    BY <1>1
  <2> HIDE DEF m
  <2>3. /\ SubSeq(t, 1, m) \in Seq(S)
        /\ Len(SubSeq(t, 1, m)) = IF 1 <= m THEN m - 1 + 1 ELSE 0
        /\ \A i \in 1 .. m - 1 + 1 : SubSeq(t, 1, m)[i] = t[1 + i - 1]
    BY <1>1, <2>1, SubSeqProperties
  <2> QED BY <2>2, <2>3 DEF m
<1>3. after \in Seq(S) /\ Len(after) = n - f + 1 /\ \A i \in 1 .. n - f + 1 : after[i] = t[f + i - 1]
  <2>1. \A i \in f .. n : t[i] \in S
    BY <1>1
  <2> HIDE DEF n
  <2>2. /\ SubSeq(t, f, n) \in Seq(S)
        /\ Len(SubSeq(t, f, n)) = IF f <= n THEN n - f + 1 ELSE 0
        /\ \A i \in 1 .. n - f + 1 : SubSeq(t, f, n)[i] = t[f + i - 1]
    BY <1>1, <2>1, SubSeqProperties
  <2> QED BY <1>1, <2>2
<1>4. /\ sa \in Seq(S) /\ Len(sa) = 1 /\ sa[1] = a
      /\ sbc \in Seq(S) /\ Len(sbc) = 2 /\ sbc[1] = b /\ sbc[2] = c
      /\ sd \in Seq(S) /\ Len(sd) = 1 /\ sd[1] = d
  OBVIOUS
<1> HIDE DEF n, before, after, sa, sbc, sd
<1>5. /\ s1 \in Seq(S) /\ Len(s1) = f /\ s1[1] = a
      /\ \A j \in 1 .. f - 1 : s1[1 + j] = before[j]
  <2>1. s1 \in Seq(S) /\ Joins(sa, before, s1)
    BY <1>2, <1>4, JoinIs
  <2> HIDE DEF s1
  <2>2. s1 \in Seq(S) /\ Len(s1) = 1 + (f - 1) /\ s1[1] = sa[1]
        /\ \A j \in 1 .. f - 1 : s1[1 + j] = before[j]
    BY <1>2, <1>4, <2>1 DEF Joins
  <2> QED BY <1>1, <1>4, <2>2
<1> HIDE DEF s1
<1>6. /\ s2 \in Seq(S) /\ Len(s2) = f + 2
      /\ \A p \in 1 .. f : s2[p] = s1[p]
      /\ s2[f + 1] = b /\ s2[f + 2] = c
  <2>1. s2 \in Seq(S) /\ Joins(s1, sbc, s2)
    BY <1>4, <1>5, JoinIs
  <2>2. 1 \in 1 .. 2 /\ 2 \in 1 .. 2
    OBVIOUS
  <2> HIDE DEF s2
  <2> QED BY <1>4, <1>5, <2>1, <2>2 DEF Joins
<1> HIDE DEF s2
<1>7. /\ s3 \in Seq(S) /\ Len(s3) = n + 3
      /\ \A p \in 1 .. f + 2 : s3[p] = s2[p]
      /\ \A j \in 1 .. n - f + 1 : s3[(f + 2) + j] = after[j]
  <2>1. s3 \in Seq(S) /\ Joins(s2, after, s3)
    BY <1>3, <1>6, JoinIs
  <2>2. (f + 2) + (n - f + 1) = n + 3
    BY <1>1
  <2> HIDE DEF s3
  <2>3. s3 \in Seq(S) /\ Len(s3) = (f + 2) + (n - f + 1)
        /\ (\A p \in 1 .. f + 2 : s3[p] = s2[p])
        /\ \A j \in 1 .. n - f + 1 : s3[(f + 2) + j] = after[j]
    BY <1>3, <1>6, <2>1 DEF Joins
  <2> QED BY <2>2, <2>3
<1> HIDE DEF s3
<1>8. /\ s4 \in Seq(S) /\ Len(s4) = n + 4
      /\ \A p \in 1 .. n + 3 : s4[p] = s3[p]
      /\ s4[n + 4] = d
  <2>1. s4 \in Seq(S) /\ Joins(s3, sd, s4)
    BY <1>4, <1>7, JoinIs
  <2>2. (n + 3) + 1 = n + 4 /\ 1 \in 1 .. 1
    BY <1>1
  <2> HIDE DEF s4
  <2> QED BY <1>4, <1>7, <2>1, <2>2 DEF Joins
<1> HIDE DEF s4
<1>9. Around(t, f, a, b, c, d) = s4
  BY Zenon DEF Around, s1, s2, s3, s4, sa, sbc, sd, before, after, n
<1>10. s4[1] = a /\ s4[f + 1] = b /\ s4[f + 2] = c /\ s4[n + 4] = d
  <2>1. /\ 1 \in 1 .. f /\ 1 \in 1 .. f + 2 /\ 1 \in 1 .. n + 3
        /\ f + 1 \in 1 .. f + 2 /\ f + 1 \in 1 .. n + 3
        /\ f + 2 \in 1 .. f + 2 /\ f + 2 \in 1 .. n + 3
    BY <1>1
  <2> QED BY <1>5, <1>6, <1>7, <1>8, <2>1
<1>11. ASSUME NEW i \in 1 .. n + 4, i \notin {1, f + 1, f + 2, n + 4}
       PROVE  \E p \in 1 .. n : /\ s4[i] = t[p]
                                /\ i <= f => i = p + 1 /\ p < f
                                /\ i > f + 2 => i = p + 3 /\ p >= f
  <2>1. CASE i <= f
    <3>1. i - 1 \in 1 .. n /\ i - 1 < f /\ i - 1 \in 1 .. f - 1 /\ i = (i - 1) + 1
      BY <1>1, <1>11, <2>1
    <3>2. s4[i] = t[i - 1]
      <4>1. 1 + (i - 1) = i /\ i \in 1 .. f /\ i \in 1 .. f + 2 /\ i \in 1 .. n + 3
        BY <1>1, <1>11, <2>1
      <4> QED BY <1>2, <1>5, <1>6, <1>7, <1>8, <3>1, <4>1
    <3> QED BY <1>1, <2>1, <3>1, <3>2
  <2>2. CASE i > f + 2
    <3>1. i - 3 \in 1 .. n /\ i - (f + 2) \in 1 .. n - f + 1 /\ i = (i - 3) + 3 /\ i - 3 >= f /\ ~(i <= f)
          /\ f + (i - (f + 2)) - 1 = i - 3
      BY <1>1, <1>11, <2>2
    <3>2. s4[i] = after[i - (f + 2)]
      <4>1. (f + 2) + (i - (f + 2)) = i /\ i \in 1 .. n + 3
        BY <1>1, <1>11, <2>2
      <4> QED BY <1>7, <1>8, <3>1, <4>1
    <3>3. s4[i] = t[i - 3]
      BY <1>3, <3>1, <3>2
    <3> QED BY <3>1, <3>3
  <2>3. i \in Int
    BY <1>1
  <2> QED BY <1>1, <1>11, <2>1, <2>2, <2>3
<1>12. Arounds(s4, t, f, a, b, c, d)
  BY <1>8, <1>10, <1>11 DEF Arounds, n
<1> QED BY <1>8, <1>9, <1>12

\* The code of MATH and of PACK for a tile.
MathCode(m, c) ==
  /\ Len(m) \in Nat /\ c \in 2 .. Len(m) /\ m[1].do = "acquire" /\ m[c].do = "commit"
  /\ \A i \in 1 .. Len(m) : i \notin {1, c} => m[i].do \in {"unpack", "bcast", "compute"}
PackCode(p) ==
  /\ Len(p) \in Nat /\ Len(p) >= 2 /\ p[1].do = "wait" /\ p[Len(p)].do = "release"
  /\ \A i \in 2 .. Len(p) - 1 : p[i].do = "pack"

\* The operations of one thread, in order.
Part(all, thread) == Selection(all, {i \in 1 .. Len(all) : all[i].thread = thread})

\* Synchronization brackets the operations of both threads: what is not packed
\* before the first pack is before the commit, and what is packed is after the
\* wait.
LEMMA SynchronizedIs ==
  ASSUME NEW S, NEW t \in Seq(S), \A x \in S : Works(x), \E i \in 1 .. Len(t) : t[i].thread = "PACK"
  PROVE  /\ \E c : MathCode(Part(Synchronized(t), "MATH"), c)
         /\ PackCode(Part(Synchronized(t), "PACK"))
<1> DEFINE I == {i \in 1 .. Len(t) : t[i].thread = "PACK"}
           f == Min(I)
           n == Len(t)
           a == Sync("MATH", "acquire")
           b == Sync("MATH", "commit")
           c == Sync("PACK", "wait")
           d == Sync("PACK", "release")
           s == Synchronized(t)
           T == S \union {a, b, c, d}
<1>1. I \in SUBSET Nat /\ I # {} /\ n \in Nat
  OBVIOUS
<1>2. f \in I /\ \A i \in I : f <= i
  <2> HIDE DEF I
  <2> QED BY <1>1, MinIs
<1>3. f \in 1 .. n /\ t[f].thread = "PACK" /\ \A p \in 1 .. n : p < f => t[p].thread # "PACK"
  <2> HIDE DEF f
  <2>1. \A p \in 1 .. n : p < f => p \notin I
    BY <1>2
  <2> QED BY <1>2, <2>1
<1>4. s = Around(t, f, a, b, c, d)
  <2>1. SelectInSeq(t, LAMBDA i : i.thread = "PACK") = f
    BY <1>1 DEF SelectInSeq
  <2> QED BY <2>1 DEF Synchronized, Around
<1>5. /\ a.thread = "MATH" /\ a.do = "acquire" /\ b.thread = "MATH" /\ b.do = "commit"
      /\ c.thread = "PACK" /\ c.do = "wait" /\ d.thread = "PACK" /\ d.do = "release"
  BY DEF Sync, Instr
<1> HIDE DEF I, f, a, b, c, d, s
<1>6. t \in Seq(T) /\ a \in T /\ b \in T /\ c \in T /\ d \in T
  OBVIOUS
<1> HIDE DEF T
<1>7. /\ s \in Seq(T) /\ Len(s) = n + 4
      /\ s[1] = a /\ s[f + 1] = b /\ s[f + 2] = c /\ s[n + 4] = d
      /\ \A i \in 1 .. Len(s) : i \notin {1, f + 1, f + 2, n + 4} =>
           \E p \in 1 .. n : /\ s[i] = t[p]
                             /\ i <= f => p < f
                             /\ i > f + 2 => i = p + 3 /\ p >= f
  <2>1. s \in Seq(T) /\ Arounds(s, t, f, a, b, c, d)
    BY <1>3, <1>4, <1>6, PutAround
  <2> QED BY <2>1 DEF Arounds
<1>8. ASSUME NEW i \in 1 .. n + 4, i \notin {1, f + 1, f + 2, n + 4}
      PROVE  Works(s[i]) /\ (i <= f => s[i].thread # "PACK")
  <2>1. PICK p \in 1 .. n : s[i] = t[p] /\ (i <= f => p < f)
    BY <1>7, <1>8
  <2>2. t[p] \in S
    BY <1>1
  <2> QED BY <1>3, <2>1, <2>2
<1>9. ASSUME NEW thread
      PROVE  LET C == {i \in 1 .. Len(s) : s[i].thread = thread}
             IN \E rank : Ranks(rank, s, C, Part(s, thread)) /\ Part(s, thread) \in Seq(T)
  <2> DEFINE C == {i \in 1 .. Len(s) : s[i].thread = thread}
  <2>1. C \in SUBSET (1 .. Len(s)) /\ Part(s, thread) = Selection(s, C)
    BY DEF Part
  <2> HIDE DEF C
  <2>2. Selection(s, C) \in Seq(T) /\ \E rank : Ranks(rank, s, C, Selection(s, C))
    BY <1>7, <2>1, SelectionIs
  <2> QED BY <2>1, <2>2 DEF C
<1>10. \E x : MathCode(Part(s, "MATH"), x)
  <2> DEFINE C == {i \in 1 .. Len(s) : s[i].thread = "MATH"}
             m == Part(s, "MATH")
  <2>1. PICK rank : Ranks(rank, s, C, m) /\ m \in Seq(T)
    BY <1>9
  <2>2. 1 \in C /\ f + 1 \in C /\ C \subseteq 1 .. n + 4
    BY <1>1, <1>3, <1>5, <1>7
  <2>3. ASSUME NEW i \in C, i # 1, i # f + 1 PROVE s[i].do \in {"unpack", "bcast", "compute"}
    BY <1>3, <1>5, <1>7, <1>8, <2>2, <2>3 DEF Works
  <2> HIDE DEF C, m
  <2>4. /\ rank \in [C -> 1 .. Len(m)]
        /\ \A i, j \in C : i < j => rank[i] < rank[j]
        /\ \A i \in C : m[rank[i]] = s[i]
        /\ \A p \in 1 .. Len(m) : \E i \in C : rank[i] = p
        /\ Len(m) \in Nat
    BY <2>1 DEF Ranks
  <2>5. rank[1] = 1
    <3>1. rank[1] \in 1 .. Len(m) /\ 1 \in 1 .. Len(m)
      BY <2>2, <2>4
    <3>2. PICK i \in C : rank[i] = 1
      BY <2>4, <3>1
    <3>3. i = 1 \/ 1 < i
      BY <2>2
    <3> QED BY <2>2, <2>4, <3>1, <3>2, <3>3
  <2>6. rank[f + 1] \in 2 .. Len(m)
    <3>1. 1 < f + 1
      BY <1>3
    <3>2. rank[1] < rank[f + 1] /\ rank[f + 1] \in 1 .. Len(m)
      BY <2>2, <2>4, <3>1
    <3> QED BY <2>4, <2>5, <3>2
  <2>7. m[1].do = "acquire" /\ m[rank[f + 1]].do = "commit"
    BY <1>5, <1>7, <2>2, <2>4, <2>5
  <2>8. ASSUME NEW p \in 1 .. Len(m), p \notin {1, rank[f + 1]} PROVE m[p].do \in {"unpack", "bcast", "compute"}
    <3>1. PICK i \in C : rank[i] = p
      BY <2>4
    <3>2. i # 1 /\ i # f + 1
      BY <2>5, <2>8, <3>1
    <3> QED BY <2>3, <2>4, <3>1, <3>2
  <2>9. MathCode(m, rank[f + 1])
    BY <2>4, <2>6, <2>7, <2>8 DEF MathCode
  <2> QED BY <2>9 DEF m
<1>11. PackCode(Part(s, "PACK"))
  <2> DEFINE C == {i \in 1 .. Len(s) : s[i].thread = "PACK"}
             m == Part(s, "PACK")
  <2>1. PICK rank : Ranks(rank, s, C, m) /\ m \in Seq(T)
    BY <1>9
  <2>2. f + 2 \in C /\ n + 4 \in C /\ C \subseteq 1 .. n + 4
    BY <1>1, <1>3, <1>5, <1>7
  <2>3. ASSUME NEW i \in C, i # f + 2, i # n + 4 PROVE s[i].do = "pack" /\ i > f + 2
    <3>1. i \in 1 .. n + 4 /\ s[i].thread = "PACK"
      BY <2>2
    <3>2. i \notin {1, f + 1, f + 2, n + 4}
      BY <1>5, <1>7, <2>3, <3>1
    <3>3. Works(s[i]) /\ ~(i <= f)
      BY <1>8, <3>1, <3>2
    <3>4. s[i].do = "pack"
      BY <3>1, <3>3 DEF Works
    <3> QED BY <1>3, <3>1, <3>2, <3>3, <3>4
  <2> HIDE DEF C, m
  <2>4. /\ rank \in [C -> 1 .. Len(m)]
        /\ \A i, j \in C : i < j => rank[i] < rank[j]
        /\ \A i \in C : m[rank[i]] = s[i]
        /\ \A p \in 1 .. Len(m) : \E i \in C : rank[i] = p
        /\ Len(m) \in Nat
    BY <2>1 DEF Ranks
  <2>5. ASSUME NEW i \in C
        PROVE  i \in Int /\ (i = f + 2 \/ f + 2 < i) /\ (i = n + 4 \/ i < n + 4)
    <3>1. i \in 1 .. n + 4 /\ n \in Nat /\ f \in 1 .. n
      BY <1>1, <1>3, <2>2
    <3>2. i = f + 2 \/ i = n + 4 \/ i > f + 2
      BY <2>3
    <3> QED BY <3>1, <3>2
  <2>6. rank[f + 2] \in 1 .. Len(m) /\ rank[n + 4] \in 1 .. Len(m) /\ rank[f + 2] < rank[n + 4]
    <3>1. f + 2 < n + 4
      BY <1>1, <1>3
    <3> QED BY <2>2, <2>4, <3>1
  <2>7. rank[f + 2] = 1
    <3>1. 1 \in 1 .. Len(m)
      BY <2>4, <2>6
    <3>2. PICK i \in C : rank[i] = 1
      BY <2>4, <3>1
    <3>3. i = f + 2 \/ rank[f + 2] < rank[i]
      BY <2>2, <2>4, <2>5
    <3> QED BY <2>4, <2>6, <3>2, <3>3
  <2>8. rank[n + 4] = Len(m)
    <3>1. Len(m) \in 1 .. Len(m)
      BY <2>4, <2>6
    <3>2. PICK i \in C : rank[i] = Len(m)
      BY <2>4, <3>1
    <3>3. i = n + 4 \/ rank[i] < rank[n + 4]
      BY <2>2, <2>4, <2>5
    <3> QED BY <2>4, <2>6, <3>2, <3>3
  <2>9. m[1].do = "wait" /\ m[Len(m)].do = "release" /\ Len(m) >= 2
    <3>1. m[rank[f + 2]] = s[f + 2] /\ m[rank[n + 4]] = s[n + 4]
      BY <2>2, <2>4
    <3>2. s[f + 2] = c /\ s[n + 4] = d
      BY <1>7
    <3>3. Len(m) >= 2
      BY <2>4, <2>6, <2>7, <2>8
    <3> QED BY <1>5, <2>7, <2>8, <3>1, <3>2, <3>3
  <2>10. ASSUME NEW p \in 2 .. Len(m) - 1 PROVE m[p].do = "pack"
    <3>1. p \in 1 .. Len(m) /\ p # 1 /\ p # Len(m)
      BY <2>4
    <3>2. PICK i \in C : rank[i] = p
      BY <2>4, <3>1
    <3>3. i # f + 2 /\ i # n + 4
      BY <2>7, <2>8, <3>1, <3>2
    <3> QED BY <2>3, <2>4, <3>2, <3>3
  <2>11. PackCode(m)
    BY <2>4, <2>9, <2>10 DEF PackCode
  <2> QED BY <2>11 DEF m
<1> QED BY <1>10, <1>11 DEF s

\* The code of each thread.
Split(all) == [t \in Threads |-> FlattenSeq([i \in 1 .. Len(all) |->
                 IF all[i].thread = t THEN <<all[i]>> ELSE << >>])]

\* A body is lowered to the code of the two threads.
LEMMA CodeIs ==
  ASSUME NEW H, NEW ops \in Seq(Ops(H)), NEW reg, \E k \in DOMAIN ops : ops[k].op = "tile_store"
  PROVE  LET new == Split(Synchronized(LowerAll(ops, reg)))
         IN DOMAIN new = Threads /\ PackCode(new["PACK"]) /\ \E c : MathCode(new["MATH"], c)
<1> DEFINE l == LowerAll(ops, reg)
           all == Synchronized(l)
           new == Split(all)
           S == ToSet(l)
<1>1. l \in Seq(S) /\ (\A x \in S : Works(x)) /\ \E x \in S : x.thread = "PACK"
  BY LoweredWorks
<1>2. \E i \in 1 .. Len(l) : l[i].thread = "PACK"
  <2> DEFINE m == l
  <2>1. m \in Seq(ToSet(m)) /\ \E x \in ToSet(m) : x.thread = "PACK"
    BY <1>1
  <2> HIDE DEF m
  <2>2. DOMAIN m = 1 .. Len(m)
    BY <2>1
  <2>3. \E i \in 1 .. Len(m) : m[i].thread = "PACK"
    BY <2>1, <2>2 DEF ToSet
  <2> QED BY <2>3 DEF m
<1> HIDE DEF l, S, all
<1>3. (\E c : MathCode(Part(Synchronized(l), "MATH"), c)) /\ PackCode(Part(Synchronized(l), "PACK"))
  BY <1>1, <1>2, SynchronizedIs
<1>4. \A thread \in Threads : new[thread] = Part(all, thread)
  <2> SUFFICES ASSUME NEW thread \in Threads PROVE new[thread] = Part(all, thread)
    OBVIOUS
  <2> DEFINE n == Len(all)
             C == {i \in 1 .. n : all[i].thread = thread}
             f == [i \in 1 .. n |-> IF all[i].thread = thread THEN <<all[i]>> ELSE << >>]
             g == [i \in 1 .. n |-> IF i \in C THEN <<all[i]>> ELSE << >>]
  <2>1. f = g
    <3> HIDE DEF n
    <3> QED OBVIOUS
  <2>2. new[thread] = FlattenSeq(f)
    BY Zenon DEF Split
  <2>3. Part(all, thread) = FlattenSeq(g)
    BY Zenon DEF Part, Selection
  <2> QED BY <2>1, <2>2, <2>3, Zenon
<1>5. "MATH" \in Threads /\ "PACK" \in Threads
  BY DEF Threads
<1>6. all = Synchronized(l) /\ DOMAIN new = Threads
  BY DEF all, Split
<1> HIDE DEF new
<1>7. DOMAIN new = Threads /\ PackCode(new["PACK"]) /\ \E c : MathCode(new["MATH"], c)
  BY <1>3, <1>4, <1>5, <1>6, Zenon
<1> QED BY <1>7, Zenon DEF new, all, l

-----------------------------------------------------------------------------
(* Handing over halves of DST.                                             *)

\* The tile a thread is at, and how many operations it has run for it.
Round(t) == step[t] \div Len(code[t])
Done(t)  == step[t] % Len(code[t])

Handed(c) ==
  /\ MathCode(code["MATH"], c) /\ PackCode(code["PACK"])
  /\ \A t \in Threads : step[t] \in 0 .. Tiles * Len(code[t])
  /\ hand.acquired = Round("MATH") + (IF Done("MATH") = 0 THEN 0 ELSE 1)
  /\ hand.committed = Round("MATH") + (IF Done("MATH") < c THEN 0 ELSE 1)
  /\ hand.released = Round("PACK")
  /\ hand.released <= hand.committed
  /\ Done("PACK") # 0 => hand.released < hand.committed
  /\ hand.acquired - hand.released <= mode.halves

HandInv ==
  /\ mode \in Modes
  /\ phase \in {"trace", "inner", "scan", "no_registers", "illegal", "run"}
  /\ TraceOK(trace)
  /\ step \in [Threads -> Nat]
  /\ hand \in [acquired : Nat, committed : Nat, released : Nat]
  /\ phase \in {"inner", "scan"} => BodyOK(body.ops, Held)
  /\ phase # "run" =>
       /\ code = [t \in Threads |-> << >>] /\ step = [t \in Threads |-> 0]
       /\ hand = [acquired |-> 0, committed |-> 0, released |-> 0]
  /\ phase = "run" => \E c : Handed(c)

\* One step of n operations per tile: the next operation, or the next tile.
LEMMA NextPlace ==
  ASSUME NEW T \in Nat, NEW L \in Nat \ {0}, NEW s \in 0 .. T * L
  PROVE  /\ (s \div L) \in 0 .. T /\ (s % L) \in 0 .. L - 1
         /\ (s % L # 0 => s \div L < T)
         /\ (s < T * L => s + 1 \in 0 .. T * L)
         /\ ((s % L) + 1 < L => (s + 1) % L = (s % L) + 1 /\ (s + 1) \div L = s \div L)
         /\ ((s % L) + 1 = L => (s + 1) % L = 0 /\ (s + 1) \div L = (s \div L) + 1)
<1> DEFINE q == s \div L
           r == s % L
<1>1. T * L \in Nat /\ s \in Nat
  OBVIOUS
<1>2. q \in Nat /\ r \in 0 .. L - 1 /\ s = q * L + r
  BY <1>1
<1>3. (s < T * L => s + 1 \in 0 .. T * L)
  BY <1>1
<1>4. q <= T /\ (r # 0 => q < T)
  <2>1. q * L + r <= T * L
    BY <1>2
  <2> HIDE DEF q, r
  <2>2. ASSUME q > T PROVE FALSE
    <3>1. q >= T + 1 /\ q * L >= (T + 1) * L /\ (T + 1) * L = T * L + L
      BY <1>2, <2>2
    <3> QED BY <1>1, <1>2, <2>1, <3>1
  <2>3. ASSUME q = T, r # 0 PROVE FALSE
    BY <1>1, <1>2, <2>1, <2>3
  <2> QED BY <1>2, <2>2, <2>3
<1>5. ASSUME r + 1 < L PROVE (s + 1) % L = r + 1 /\ (s + 1) \div L = q
  <2> HIDE DEF q, r
  <2>1. s + 1 = q * L + (r + 1) /\ r + 1 \in 0 .. L - 1
    BY <1>2, <1>5
  <2> QED BY <1>2, <2>1
<1>6. ASSUME r + 1 = L PROVE (s + 1) % L = 0 /\ (s + 1) \div L = q + 1
  <2> HIDE DEF q, r
  <2>1. s + 1 = (q + 1) * L + 0
    BY <1>2, <1>6
  <2> QED BY <1>2, <2>1
<1> QED BY <1>2, <1>3, <1>4, <1>5, <1>6

\* The body of a trace.
LEMMA BodyIs ==
  ASSUME NEW t, TraceOK(t), Traced(t), NEW stores \in Nat \ {0},
         NEW ops, ops = InsertCopies(Body(t, stores), Len(Tensors(t)))
  PROVE  BodyOK(ops, Held)
<1>1. Len(Tensors(t)) \in Nat
  <2>1. Len(t.roots) \in Nat
    BY DEF TraceOK
  <2> DEFINE n == Len(t.roots)
             f == [i \in 1 .. 2 |-> t.ops[1].in[i][2]]
             g == [i \in 1 .. n |-> i]
  <2>2. Len(f) = 2
    OBVIOUS
  <2>3. Len(g) = n
    <3> HIDE DEF n
    <3> QED BY <2>1 DEF n
  <2> QED BY <2>1, <2>2, <2>3 DEF Tensors
<1> DEFINE b == Body(t, stores)
           n == Len(Tensors(t))
<1>2. BodyOK(b, Given)
  BY BodyOps
<1> HIDE DEF b, n
<1>3. BodyOK(InsertCopies(b, n), Held)
  BY <1>1, <1>2, CopiesInserted DEF n
<1> QED BY <1>3, Zenon DEF b, n

\* What a step of a thread does, at its place in the code for a tile.
LEMMA RunsAt ==
  ASSUME NEW t \in Threads, NEW do, Runs(t, do), step \in [Threads -> Nat],
         Len(code[t]) \in Nat \ {0}, step[t] \in 0 .. Tiles * Len(code[t])
  PROVE  /\ step' = [step EXCEPT ![t] = @ + 1] /\ step' \in [Threads -> Nat] /\ code' = code
         /\ step'[t] \in 0 .. Tiles * Len(code[t])
         /\ Done(t) \in 0 .. Len(code[t]) - 1 /\ code[t][Done(t) + 1].do = do
         /\ Round(t) \in Nat
         /\ Done(t) + 1 < Len(code[t]) => Done(t)' = Done(t) + 1 /\ Round(t)' = Round(t)
         /\ Done(t) + 1 = Len(code[t]) => Done(t)' = 0 /\ Round(t)' = Round(t) + 1
<1> DEFINE L == Len(code[t])
           s == step[t]
<1>1. Tiles \in Nat
  BY TilesAssumption DEF Tiles
<1>2. /\ step' = [step EXCEPT ![t] = @ + 1] /\ code' = code /\ s # Tiles * L
      /\ code[t][(s % L) + 1].do = do
  BY Zenon DEF Runs, Finished, At
<1>3. s \in Nat /\ step'[t] = s + 1 /\ step' \in [Threads -> Nat]
  BY <1>2
<1>4. Done(t) = s % L /\ Round(t) = s \div L
  BY DEF Done, Round
<1>5. Done(t)' = (s + 1) % L /\ Round(t)' = (s + 1) \div L
  BY <1>2, <1>3 DEF Done, Round
<1>6. s < Tiles * L
  BY <1>1, <1>2
<1> HIDE DEF L, s
<1>7. L \in Nat \ {0} /\ s \in 0 .. Tiles * L
  BY DEF L, s
<1>8. /\ (s \div L) \in 0 .. Tiles /\ (s % L) \in 0 .. L - 1
      /\ (s % L # 0 => s \div L < Tiles)
      /\ (s < Tiles * L => s + 1 \in 0 .. Tiles * L)
      /\ ((s % L) + 1 < L => (s + 1) % L = (s % L) + 1 /\ (s + 1) \div L = s \div L)
      /\ ((s % L) + 1 = L => (s + 1) % L = 0 /\ (s + 1) \div L = (s \div L) + 1)
  BY <1>1, <1>7, NextPlace
<1> DEFINE a == s % L
           b == s \div L
           a1 == (s + 1) % L
           b1 == (s + 1) \div L
           n == Tiles * L
<1>9. /\ b \in 0 .. Tiles /\ a \in 0 .. L - 1 /\ (s < n => s + 1 \in 0 .. n)
      /\ a + 1 < L => a1 = a + 1 /\ b1 = b
      /\ a + 1 = L => a1 = 0 /\ b1 = b + 1
      /\ Done(t) = a /\ Round(t) = b /\ Done(t)' = a1 /\ Round(t)' = b1
      /\ code[t][a + 1].do = do /\ s < n
  BY <1>2, <1>4, <1>5, <1>6, <1>8, Zenon DEF L
<1> HIDE DEF a, b, a1, b1, n
<1>10. /\ step'[t] \in 0 .. n
       /\ Done(t) \in 0 .. L - 1 /\ code[t][Done(t) + 1].do = do
       /\ Round(t) \in Nat
       /\ Done(t) + 1 < L => Done(t)' = Done(t) + 1 /\ Round(t)' = Round(t)
       /\ Done(t) + 1 = L => Done(t)' = 0 /\ Round(t)' = Round(t) + 1
  BY <1>1, <1>3, <1>9
<1> QED BY <1>2, <1>3, <1>10, Zenon DEF L, n

\* A thread is not at the place of the other.
LEMMA OtherStays ==
  ASSUME NEW t \in Threads, NEW u \in Threads, u # t, step \in [Threads -> Nat],
         step' = [step EXCEPT ![t] = @ + 1], code' = code
  PROVE  Done(u)' = Done(u) /\ Round(u)' = Round(u) /\ step'[u] = step[u]
BY DEF Done, Round

\* A step of MATH.
LEMMA MathHands ==
  ASSUME HandInv, phase = "run", NEW c, Handed(c), MathStep
  PROVE  Handed(c)' /\ step' \in [Threads -> Nat]
         /\ hand' \in [acquired : Nat, committed : Nat, released : Nat]
<1> DEFINE m == code["MATH"]
           L == Len(m)
           r == Done("MATH")
           q == Round("MATH")
<1>1. "MATH" \in Threads /\ "PACK" \in Threads /\ Threads = {"MATH", "PACK"}
  BY DEF Threads
<1>2. /\ L \in Nat /\ c \in 2 .. L /\ m[1].do = "acquire" /\ m[c].do = "commit"
      /\ \A i \in 1 .. L : i \notin {1, c} => m[i].do \in {"unpack", "bcast", "compute"}
  BY DEF Handed, MathCode
<1>3. L \in Nat \ {0} /\ step["MATH"] \in 0 .. Tiles * L /\ step \in [Threads -> Nat]
  BY <1>1, <1>2 DEF Handed, HandInv
<1>4. ASSUME NEW do, Runs("MATH", do)
      PROVE  /\ step' = [step EXCEPT !["MATH"] = @ + 1] /\ step' \in [Threads -> Nat]
             /\ code' = code /\ mode' = mode
             /\ step'["MATH"] \in 0 .. Tiles * L
             /\ r \in 0 .. L - 1 /\ m[r + 1].do = do /\ q \in Nat
             /\ r + 1 < L => Done("MATH")' = r + 1 /\ Round("MATH")' = q
             /\ r + 1 = L => Done("MATH")' = 0 /\ Round("MATH")' = q + 1
             /\ Done("PACK")' = Done("PACK") /\ Round("PACK")' = Round("PACK")
             /\ step'["PACK"] = step["PACK"]
  <2>1. mode' = mode
    BY <1>4 DEF Runs
  <2>2. /\ step' = [step EXCEPT !["MATH"] = @ + 1] /\ step' \in [Threads -> Nat] /\ code' = code
        /\ step'["MATH"] \in 0 .. Tiles * L
        /\ r \in 0 .. L - 1 /\ m[r + 1].do = do /\ q \in Nat
        /\ r + 1 < L => Done("MATH")' = r + 1 /\ Round("MATH")' = q
        /\ r + 1 = L => Done("MATH")' = 0 /\ Round("MATH")' = q + 1
    BY <1>1, <1>3, <1>4, RunsAt
  <2>3. Done("PACK")' = Done("PACK") /\ Round("PACK")' = Round("PACK") /\ step'["PACK"] = step["PACK"]
    BY <1>1, <1>3, <2>2, OtherStays
  <2> QED BY <2>1, <2>2, <2>3
<1> HIDE DEF L, m, r, q
<1>5. /\ hand.acquired = q + (IF r = 0 THEN 0 ELSE 1)
      /\ hand.committed = q + (IF r < c THEN 0 ELSE 1)
      /\ hand.released = Round("PACK") /\ hand.released <= hand.committed
      /\ Done("PACK") # 0 => hand.released < hand.committed
      /\ hand.acquired - hand.released <= mode.halves
      /\ hand \in [acquired : Nat, committed : Nat, released : Nat]
      /\ mode.halves \in Nat
  BY ModesAssumption DEF Handed, HandInv, r, q
<1>6. ASSUME NEW do, Runs("MATH", do),
             hand' \in [acquired : Nat, committed : Nat, released : Nat],
             hand.acquired' = Round("MATH")' + (IF Done("MATH")' = 0 THEN 0 ELSE 1),
             hand.committed' = Round("MATH")' + (IF Done("MATH")' < c THEN 0 ELSE 1),
             hand.released' = hand.released, hand.committed' >= hand.committed,
             hand.acquired' - hand.released <= mode.halves
      PROVE  Handed(c)' /\ step' \in [Threads -> Nat]
             /\ hand' \in [acquired : Nat, committed : Nat, released : Nat]
  <2>1. /\ step' \in [Threads -> Nat] /\ code' = code /\ mode' = mode
        /\ step'["MATH"] \in 0 .. Tiles * L /\ step'["PACK"] = step["PACK"]
        /\ Done("PACK")' = Done("PACK") /\ Round("PACK")' = Round("PACK")
    BY <1>4, <1>6
  <2>2. MathCode(code["MATH"], c)' /\ PackCode(code["PACK"])'
    BY <2>1 DEF Handed
  <2>3. \A t \in Threads : step[t]' \in 0 .. Tiles * Len(code[t]')
    <3>1. step["PACK"] \in 0 .. Tiles * Len(code["PACK"])
      BY <1>1 DEF Handed
    <3> QED BY <1>1, <2>1, <3>1 DEF L, m
  <2>4. /\ hand.released' = Round("PACK")' /\ hand.released' <= hand.committed'
        /\ Done("PACK")' # 0 => hand.released' < hand.committed'
        /\ hand.acquired' - hand.released' <= mode.halves'
    BY <1>5, <1>6, <2>1
  <2> QED BY <1>6, <2>1, <2>2, <2>3, <2>4 DEF Handed
<1>7. CASE Acquire
  <2>1. Runs("MATH", "acquire") /\ hand.acquired - hand.released < mode.halves
        /\ hand' = [hand EXCEPT !.acquired = @ + 1]
    BY <1>7 DEF Acquire, HalfFree
  <2>2. r = 0 /\ 1 < L
    <3>1. r \in 0 .. L - 1 /\ m[r + 1].do = "acquire"
      BY <1>4, <2>1
    <3>2. r + 1 # c /\ (r + 1 \in 1 .. L) /\ ~(r + 1 \notin {1, c})
      BY <1>2, <3>1
    <3> QED BY <1>2, <3>1, <3>2
  <2>3. Done("MATH")' = 1 /\ Round("MATH")' = q /\ q \in Nat
    BY <1>4, <2>1, <2>2
  <2> QED BY <1>2, <1>5, <1>6, <2>1, <2>2, <2>3
<1>8. CASE Commit
  <2>1. Runs("MATH", "commit") /\ hand' = [hand EXCEPT !.committed = @ + 1]
    BY <1>8 DEF Commit
  <2>2. r + 1 = c /\ r \in Nat
    <3>1. r \in 0 .. L - 1 /\ m[r + 1].do = "commit"
      BY <1>4, <2>1
    <3>2. r + 1 # 1 /\ (r + 1 \in 1 .. L) /\ ~(r + 1 \notin {1, c})
      BY <1>2, <3>1
    <3> QED BY <3>1, <3>2
  <2>3. /\ c < L => Done("MATH")' = c /\ Round("MATH")' = q
        /\ c = L => Done("MATH")' = 0 /\ Round("MATH")' = q + 1
        /\ q \in Nat /\ c \in 2 .. L /\ L \in Nat
    BY <1>2, <1>4, <2>1, <2>2
  <2>4. hand.acquired' = hand.acquired /\ hand.committed' = hand.committed + 1
        /\ hand.released' = hand.released /\ hand' \in [acquired : Nat, committed : Nat, released : Nat]
    BY <1>5, <2>1
  <2>5. hand.acquired = q + 1 /\ hand.committed = q
    BY <1>5, <2>2, <2>3
  <2>6. hand.acquired' = Round("MATH")' + (IF Done("MATH")' = 0 THEN 0 ELSE 1)
        /\ hand.committed' = Round("MATH")' + (IF Done("MATH")' < c THEN 0 ELSE 1)
    BY <2>3, <2>4, <2>5
  <2> QED BY <1>5, <1>6, <2>1, <2>4, <2>5, <2>6
<1>9. CASE CopyTile \/ Bcast \/ Compute
  <2>1. PICK do \in {"unpack", "bcast", "compute"} : Runs("MATH", do) /\ hand' = hand
    BY <1>9 DEF CopyTile, Bcast, Compute
  <2>2. r \in 0 .. L - 1 /\ r # 0 /\ r + 1 # c
    <3>1. r \in 0 .. L - 1 /\ m[r + 1].do = do
      BY <1>4, <2>1
    <3> QED BY <1>2, <2>1, <3>1
  <2>3. /\ r + 1 < L => Done("MATH")' = r + 1 /\ Round("MATH")' = q
        /\ r + 1 = L => Done("MATH")' = 0 /\ Round("MATH")' = q + 1
        /\ q \in Nat /\ c \in 2 .. L /\ L \in Nat
    BY <1>2, <1>4, <2>1
  <2>4. hand.acquired' = Round("MATH")' + (IF Done("MATH")' = 0 THEN 0 ELSE 1)
        /\ hand.committed' = Round("MATH")' + (IF Done("MATH")' < c THEN 0 ELSE 1)
    BY <1>5, <2>1, <2>2, <2>3
  <2> QED BY <1>5, <1>6, <2>1, <2>4
<1> QED BY <1>7, <1>8, <1>9 DEF MathStep

\* A step of PACK.
LEMMA PackHands ==
  ASSUME HandInv, phase = "run", NEW c, Handed(c), PackStep
  PROVE  Handed(c)' /\ step' \in [Threads -> Nat]
         /\ hand' \in [acquired : Nat, committed : Nat, released : Nat]
<1> DEFINE p == code["PACK"]
           L == Len(p)
           r == Done("PACK")
           q == Round("PACK")
<1>1. "MATH" \in Threads /\ "PACK" \in Threads /\ Threads = {"MATH", "PACK"}
  BY DEF Threads
<1>2. /\ L \in Nat /\ L >= 2 /\ p[1].do = "wait" /\ p[L].do = "release"
      /\ \A i \in 2 .. L - 1 : p[i].do = "pack"
  BY DEF Handed, PackCode
<1>3. L \in Nat \ {0} /\ step["PACK"] \in 0 .. Tiles * L /\ step \in [Threads -> Nat]
  BY <1>1, <1>2 DEF Handed, HandInv
<1>4. ASSUME NEW do, Runs("PACK", do)
      PROVE  /\ step' = [step EXCEPT !["PACK"] = @ + 1] /\ step' \in [Threads -> Nat]
             /\ code' = code /\ mode' = mode
             /\ step'["PACK"] \in 0 .. Tiles * L
             /\ r \in 0 .. L - 1 /\ p[r + 1].do = do /\ q \in Nat
             /\ r + 1 < L => Done("PACK")' = r + 1 /\ Round("PACK")' = q
             /\ r + 1 = L => Done("PACK")' = 0 /\ Round("PACK")' = q + 1
             /\ Done("MATH")' = Done("MATH") /\ Round("MATH")' = Round("MATH")
             /\ step'["MATH"] = step["MATH"]
  <2>1. mode' = mode
    BY <1>4 DEF Runs
  <2>2. /\ step' = [step EXCEPT !["PACK"] = @ + 1] /\ step' \in [Threads -> Nat] /\ code' = code
        /\ step'["PACK"] \in 0 .. Tiles * L
        /\ r \in 0 .. L - 1 /\ p[r + 1].do = do /\ q \in Nat
        /\ r + 1 < L => Done("PACK")' = r + 1 /\ Round("PACK")' = q
        /\ r + 1 = L => Done("PACK")' = 0 /\ Round("PACK")' = q + 1
    BY <1>1, <1>3, <1>4, RunsAt
  <2>3. Done("MATH")' = Done("MATH") /\ Round("MATH")' = Round("MATH") /\ step'["MATH"] = step["MATH"]
    BY <1>1, <1>3, <2>2, OtherStays
  <2> QED BY <2>1, <2>2, <2>3
<1> HIDE DEF L, p, r, q
<1>5. /\ hand.acquired = Round("MATH") + (IF Done("MATH") = 0 THEN 0 ELSE 1)
      /\ hand.committed = Round("MATH") + (IF Done("MATH") < c THEN 0 ELSE 1)
      /\ hand.released = q /\ hand.released <= hand.committed
      /\ r # 0 => hand.released < hand.committed
      /\ hand.acquired - hand.released <= mode.halves
      /\ hand \in [acquired : Nat, committed : Nat, released : Nat]
      /\ mode.halves \in Nat
  BY ModesAssumption DEF Handed, HandInv, r, q
<1>6. ASSUME NEW do, Runs("PACK", do),
             hand' \in [acquired : Nat, committed : Nat, released : Nat],
             hand.released' = Round("PACK")', hand.released' <= hand.committed,
             Done("PACK")' # 0 => hand.released' < hand.committed,
             hand.acquired' = hand.acquired, hand.committed' = hand.committed,
             hand.released' >= hand.released
      PROVE  Handed(c)' /\ step' \in [Threads -> Nat]
             /\ hand' \in [acquired : Nat, committed : Nat, released : Nat]
  <2>1. /\ step' \in [Threads -> Nat] /\ code' = code /\ mode' = mode
        /\ step'["PACK"] \in 0 .. Tiles * L /\ step'["MATH"] = step["MATH"]
        /\ Done("MATH")' = Done("MATH") /\ Round("MATH")' = Round("MATH")
    BY <1>4, <1>6
  <2>2. MathCode(code["MATH"], c)' /\ PackCode(code["PACK"])'
    BY <2>1 DEF Handed
  <2>3. \A t \in Threads : step[t]' \in 0 .. Tiles * Len(code[t]')
    <3>1. step["MATH"] \in 0 .. Tiles * Len(code["MATH"])
      BY <1>1 DEF Handed
    <3> QED BY <1>1, <2>1, <3>1 DEF L, p
  <2>4. /\ hand.released' <= hand.committed'
        /\ Done("PACK")' # 0 => hand.released' < hand.committed'
        /\ hand.acquired' - hand.released' <= mode.halves'
    BY <1>5, <1>6, <2>1
  <2>5. /\ hand.acquired' = Round("MATH")' + (IF Done("MATH")' = 0 THEN 0 ELSE 1)
        /\ hand.committed' = Round("MATH")' + (IF Done("MATH")' < c THEN 0 ELSE 1)
    BY <1>5, <1>6, <2>1
  <2> QED BY <1>6, <2>1, <2>2, <2>3, <2>4, <2>5 DEF Handed
<1>7. CASE Wait
  <2>1. Runs("PACK", "wait") /\ hand.committed > hand.released /\ hand' = hand
    BY <1>7 DEF Wait
  <2>2. r \in 0 .. L - 1 /\ p[r + 1].do = "wait"
    BY <1>4, <2>1
  <2>3. r = 0
    <3>1. r + 1 # L /\ r + 1 \notin 2 .. L - 1
      BY <1>2, <2>2
    <3> QED BY <1>2, <2>2, <3>1
  <2>4. Done("PACK")' = 1 /\ Round("PACK")' = q /\ q \in Nat
    BY <1>2, <1>4, <2>1, <2>3
  <2> QED BY <1>5, <1>6, <2>1, <2>4
<1>8. CASE Pack
  <2>1. Runs("PACK", "pack") /\ hand' = hand
    BY <1>8 DEF Pack
  <2>2. r \in 0 .. L - 1 /\ p[r + 1].do = "pack"
    BY <1>4, <2>1
  <2>3. r # 0 /\ r + 1 < L
    <3>1. r + 1 # L /\ r + 1 # 1
      BY <1>2, <2>2
    <3> QED BY <1>2, <2>2, <3>1
  <2>4. Done("PACK")' = r + 1 /\ Round("PACK")' = q /\ q \in Nat
    BY <1>4, <2>1, <2>3
  <2> QED BY <1>5, <1>6, <2>1, <2>3, <2>4
<1>9. CASE Release
  <2>1. Runs("PACK", "release") /\ hand' = [hand EXCEPT !.released = @ + 1]
    BY <1>9 DEF Release
  <2>2. r \in 0 .. L - 1 /\ p[r + 1].do = "release"
    BY <1>4, <2>1
  <2>3. r + 1 = L /\ r # 0
    <3>1. r + 1 \notin 2 .. L - 1 /\ r + 1 # 1
      BY <1>2, <2>2
    <3> QED BY <1>2, <2>2, <3>1
  <2>4. Done("PACK")' = 0 /\ Round("PACK")' = q + 1 /\ q \in Nat
    BY <1>4, <2>1, <2>3
  <2>5. hand.released' = q + 1 /\ hand.acquired' = hand.acquired /\ hand.committed' = hand.committed
        /\ hand' \in [acquired : Nat, committed : Nat, released : Nat]
    BY <1>5, <2>1
  <2> QED BY <1>5, <1>6, <2>1, <2>3, <2>4, <2>5
<1> QED BY <1>7, <1>8, <1>9 DEF PackStep

\* Every step keeps the hand-over.
LEMMA HandStep == HandInv /\ [Next]_vars => HandInv'
<1> SUFFICES ASSUME HandInv, [Next]_vars PROVE HandInv'
  OBVIOUS
<1>1. CASE UNCHANGED vars
  <2>1. /\ trace' = trace /\ mode' = mode /\ phase' = phase /\ body' = body /\ code' = code
        /\ step' = step /\ hand' = hand
    BY <1>1 DEF vars
  <2>2. \A t \in Threads : Done(t)' = Done(t) /\ Round(t)' = Round(t)
    BY <2>1 DEF Done, Round
  <2>3. "MATH" \in Threads /\ "PACK" \in Threads
    BY DEF Threads
  <2>4. ASSUME NEW c, Handed(c) PROVE Handed(c)'
    BY <2>1, <2>2, <2>3, <2>4 DEF Handed
  <2>5. phase = "run" => \E c : Handed(c)'
    BY <2>4 DEF HandInv
  <2> QED BY <2>1, <2>5 DEF HandInv
<1>2. CASE TraceNewRoot \/ TraceSameRoot \/ TraceSameResult \/ TraceUnary \/ TraceBinary \/ TraceBroadcast
  <2>1. Tracing
    BY <1>2 DEF TraceNewRoot, TraceSameRoot, TraceSameResult, TraceUnary, TraceBinary, TraceBroadcast
  <2>2. TraceOK(trace')
    BY <1>2, TraceStep DEF HandInv
  <2>3. phase = "trace" /\ phase' = "trace" /\ UNCHANGED <<mode, body, code, step, hand>>
    BY <2>1 DEF Tracing
  <2> QED BY <2>2, <2>3 DEF HandInv
<1>3. CASE Prepare
  <2>1. /\ phase = "trace" /\ phase' \in {"inner", "scan"} /\ UNCHANGED <<trace, mode, code, step, hand>>
        /\ Traced(trace)
        /\ body'.ops = InsertCopies(Body(trace, mode.stores), Len(Tensors(trace)))
    BY <1>3 DEF Prepare
  <2>2. mode.stores \in Nat \ {0} /\ TraceOK(trace)
    BY ModesAssumption DEF HandInv
  <2>3. BodyOK(body'.ops, Held)
    BY <2>1, <2>2, BodyIs
  <2> QED BY <2>1, <2>3 DEF HandInv
<1>4. CASE Allocate \/ GiveUp \/ AllocateOutputs
  <2>1. /\ phase \in {"inner", "scan"} /\ phase' \in {"inner", "scan", "no_registers"}
        /\ UNCHANGED <<trace, mode, body, code, step, hand>>
    BY <1>4 DEF Allocate, GiveUp, AllocateOutputs, Allocating
  <2> QED BY <2>1 DEF HandInv
<1>5. CASE Convert
  <2>1. phase = "scan" /\ UNCHANGED <<trace, mode, body, step, hand>>
    BY <1>5 DEF Convert, Allocating
  <2>2. CASE ~Legal
    <3>1. phase' = "illegal" /\ code' = code
      BY <1>5, <2>2 DEF Convert
    <3> QED BY <2>1, <3>1 DEF HandInv
  <2>3. CASE Legal
    <3>1. phase' = "run"
      BY <1>5, <2>3 DEF Convert
    <3> DEFINE ops == body.ops
    <3>2. code' = Split(Synchronized(LowerAll(ops, scan.reg)))
      BY <1>5, <2>3, Zenon DEF Convert, Split
    <3>3. ops \in Seq(Ops(Held)) /\ \E k \in DOMAIN ops : ops[k].op = "tile_store"
      BY <2>1 DEF HandInv, BodyOK
    <3>4. DOMAIN code' = Threads /\ PackCode(code'["PACK"]) /\ \E c : MathCode(code'["MATH"], c)
      <4> HIDE DEF ops
      <4> DEFINE new == Split(Synchronized(LowerAll(ops, scan.reg)))
      <4>1. DOMAIN new = Threads /\ PackCode(new["PACK"]) /\ \E c : MathCode(new["MATH"], c)
        BY <3>3, CodeIs, Zenon
      <4> HIDE DEF new
      <4>2. code' = new
        BY <3>2 DEF new
      <4> QED BY <4>1, <4>2
    <3>5. PICK c : MathCode(code'["MATH"], c)
      BY <3>4
    <3>6. step' = [t \in Threads |-> 0] /\ hand' = [acquired |-> 0, committed |-> 0, released |-> 0]
      BY <2>1 DEF HandInv
    <3>7. ASSUME NEW t \in Threads, Len(code'[t]) \in Nat \ {0}
          PROVE  Done(t)' = 0 /\ Round(t)' = 0 /\ step'[t] \in 0 .. Tiles * Len(code'[t])
      <4>1. Tiles \in Nat
        BY TilesAssumption DEF Tiles
      <4> DEFINE L == Len(code'[t])
      <4>2. L \in Nat \ {0}
        BY <3>7
      <4> HIDE DEF L
      <4>3. 0 % L = 0 /\ 0 \div L = 0 /\ 0 \in 0 .. Tiles * L
        BY <4>1, <4>2
      <4>4. Done(t)' = 0 % L /\ Round(t)' = 0 \div L /\ step'[t] = 0
        BY <3>6 DEF Done, Round, L
      <4> QED BY <4>3, <4>4 DEF L
    <3>8. /\ Len(code'["MATH"]) \in Nat \ {0} /\ Len(code'["PACK"]) \in Nat \ {0} /\ c \in Nat /\ c > 0
          /\ "MATH" \in Threads /\ "PACK" \in Threads /\ Threads = {"MATH", "PACK"}
      BY <3>4, <3>5 DEF MathCode, PackCode, Threads
    <3>9. \A t \in Threads : Len(code'[t]) \in Nat \ {0}
      BY <3>8
    <3>10. mode.halves \in Nat /\ mode' = mode
      BY <2>1, ModesAssumption DEF HandInv
    <3>11. \A t \in Threads : Done(t)' = 0 /\ Round(t)' = 0 /\ step'[t] \in 0 .. Tiles * Len(code'[t])
      BY <3>7, <3>9
    <3>12. hand.acquired' = 0 /\ hand.committed' = 0 /\ hand.released' = 0
      BY <3>6
    <3>13. Handed(c)'
      BY <3>4, <3>5, <3>8, <3>10, <3>11, <3>12 DEF Handed
    <3>14. step' \in [Threads -> Nat] /\ hand' \in [acquired : Nat, committed : Nat, released : Nat]
      BY <3>6
    <3> QED BY <2>1, <3>1, <3>13, <3>14 DEF HandInv
  <2> QED BY <2>2, <2>3
<1>6. CASE MathStep \/ PackStep
  <2>1. phase = "run" /\ UNCHANGED <<trace, mode, phase, body>>
    BY <1>6 DEF MathStep, PackStep, Acquire, CopyTile, Bcast, Compute, Commit, Wait, Pack, Release, Runs
  <2>2. PICK c : Handed(c)
    BY <2>1 DEF HandInv
  <2>3. Handed(c)' /\ step' \in [Threads -> Nat]
        /\ hand' \in [acquired : Nat, committed : Nat, released : Nat]
    BY <1>6, <2>1, <2>2, MathHands, PackHands
  <2> QED BY <2>1, <2>3 DEF HandInv
<1> QED BY <1>1, <1>2, <1>3, <1>4, <1>5, <1>6 DEF Next

\* The hand-over is right from the start.
LEMMA HandInit == Init => HandInv
<1> SUFFICES ASSUME Init PROVE HandInv
  OBVIOUS
<1>1. TraceOK(trace)
  BY NoTraceOK DEF Init
<1>2. step \in [Threads -> Nat] /\ hand \in [acquired : Nat, committed : Nat, released : Nat]
  BY DEF Init
<1> QED BY <1>1, <1>2 DEF Init, HandInv

\* MATH and PACK run every operation for every tile and no more; a half of DST
\* is handed over at most as often as there are tiles, and PACK never has more
\* halves than there are.
THEOREM TypeCorrect == Spec => []TypeOK
<1>1. HandInv => TypeOK
  <2> SUFFICES ASSUME HandInv PROVE TypeOK
    OBVIOUS
  <2>1. Tiles \in Nat /\ mode.halves \in Nat
    BY TilesAssumption, ModesAssumption DEF Tiles, HandInv
  <2>2. hand \in [acquired : Nat, committed : Nat, released : Nat] /\ DOMAIN hand = {"acquired", "committed", "released"}
    BY DEF HandInv
  <2>3. CASE phase # "run"
    <3>1. \A t \in Threads : step[t] = 0 /\ code[t] = << >> /\ Len(code[t]) = 0
      BY <2>3 DEF HandInv
    <3>2. \A t \in Threads : step[t] \in 0 .. Tiles * Len(code[t])
      BY <2>1, <3>1
    <3>3. hand.acquired = 0 /\ hand.committed = 0 /\ hand.released = 0
      BY <2>3 DEF HandInv
    <3> QED BY <2>1, <2>2, <3>2, <3>3 DEF HandInv, TypeOK
  <2>4. CASE phase = "run"
    <3>1. PICK c : Handed(c)
      BY <2>4 DEF HandInv
    <3>2. "MATH" \in Threads /\ "PACK" \in Threads /\ \A t \in Threads : step[t] \in 0 .. Tiles * Len(code[t])
      BY <3>1 DEF Handed, Threads
    <3>3. c \in Nat /\ Len(code["MATH"]) \in Nat \ {0} /\ Len(code["PACK"]) \in Nat \ {0} /\ c > 0
      BY <3>1 DEF Handed, MathCode, PackCode
    <3>4. ASSUME NEW t \in Threads, Len(code[t]) \in Nat \ {0}
          PROVE  Round(t) \in 0 .. Tiles /\ (Done(t) # 0 => Round(t) < Tiles) /\ Done(t) \in Nat
      <4> DEFINE L == Len(code[t])
                 s == step[t]
      <4>1. L \in Nat \ {0} /\ s \in 0 .. Tiles * L
        BY <3>2, <3>4
      <4> HIDE DEF L, s
      <4>2. (s \div L) \in 0 .. Tiles /\ (s % L) \in 0 .. L - 1 /\ (s % L # 0 => s \div L < Tiles)
        BY <2>1, <4>1, NextPlace
      <4>3. Round(t) = s \div L /\ Done(t) = s % L
        BY DEF Round, Done, L, s
      <4> QED BY <4>2, <4>3
    <3>5. /\ Round("MATH") \in 0 .. Tiles /\ (Done("MATH") # 0 => Round("MATH") < Tiles) /\ Done("MATH") \in Nat
          /\ Round("PACK") \in 0 .. Tiles
      BY <3>2, <3>3, <3>4
    <3>6. /\ hand.acquired = Round("MATH") + (IF Done("MATH") = 0 THEN 0 ELSE 1)
          /\ hand.committed = Round("MATH") + (IF Done("MATH") < c THEN 0 ELSE 1)
          /\ hand.released = Round("PACK") /\ hand.released <= hand.committed
          /\ hand.acquired - hand.released <= mode.halves
      BY <3>1 DEF Handed
    <3>7. hand.acquired \in 0 .. Tiles /\ hand.committed \in 0 .. Tiles /\ hand.released \in 0 .. Tiles
          /\ hand.committed - hand.released \in 0 .. mode.halves
      BY <2>1, <2>2, <3>3, <3>5, <3>6
    <3> QED BY <2>2, <3>2, <3>7 DEF HandInv, TypeOK
  <2> QED BY <2>3, <2>4
<1> QED BY <1>1, HandInit, HandStep, PTL DEF Spec

-----------------------------------------------------------------------------
(* Live intervals.                                                         *)

\* The operations that a value is an operand or the result of.
Occurs(ops, v) == {j \in DOMAIN ops : v \in ToSet(Operands(ops[j])) \union {ops[j].out}}

\* No value of a body is the one that stands for none.
LEMMA ValuesHeld == NoValue \notin Held
BY DEF Held, Given, Arg, Result, Copy, NoValue

\* The operands of an operation; a unary one has one, and a result.
LEMMA OperandsIn ==
  ASSUME NEW ops \in Seq(Ops(Held)), NEW k \in DOMAIN ops
  PROVE  /\ k \in 1 .. Len(ops) /\ ops[k].in \in Seq(Held) /\ Len(ops[k].in) \in 0 .. 2
         /\ ops[k].out \in Held \union {NoValue}
         /\ ToSet(Operands(ops[k])) \subseteq Held
         /\ ToSet(Operands(ops[k])) \subseteq {ops[k].in[i] : i \in DOMAIN ops[k].in}
         /\ IsFiniteSet(ToSet(Operands(ops[k])))
         /\ IsUnary(ops[k]) => /\ ops[k].in[1] \in ToSet(Operands(ops[k])) \ {NoValue}
                               /\ ops[k].out # NoValue
<1> DEFINE O == Ops(Held)
           o == ops[k]
           H == Held
           U == H \union {NoValue}
           R == [op : Names, in : Seq(H), out : U]
           s == o.in
<1>1. ops \in Seq(O)
  OBVIOUS
<1>2. O = {x \in R : Fits(x)}
  BY DEF Ops
<1> HIDE DEF O
<1>3. k \in 1 .. Len(ops) /\ o \in O
  BY <1>1
<1> HIDE DEF o
<1>4. o \in R /\ Fits(o)
  BY <1>2, <1>3
<1>5. o.out \in U /\ s \in Seq(H)
  <2> HIDE DEF H, U
  <2> QED BY <1>4
<1>6. Len(s) <= 2 /\ (IsUnary(o) => Len(s) >= 1 /\ o.out # NoValue)
  BY <1>4, Zenon DEF Fits
<1>7. NoValue \notin H
  BY ValuesHeld
<1> HIDE DEF H, s, U
<1>8. Len(s) \in 0 .. 2 /\ DOMAIN s = 1 .. Len(s) /\ \A i \in DOMAIN s : s[i] \in H
  <2>1. s \in Seq(H)
    BY <1>5
  <2>2. Len(s) \in Nat /\ DOMAIN s = 1 .. Len(s) /\ \A i \in DOMAIN s : s[i] \in H
    BY <2>1
  <2>3. Len(s) <= 2
    BY <1>6
  <2> QED BY <2>2, <2>3
<1>9. ToSet(s) \subseteq H /\ ToSet(s) = {s[i] : i \in DOMAIN s}
      /\ \A i \in DOMAIN s : s[i] \in ToSet(s)
  BY <1>8 DEF ToSet
<1>10. IsFiniteSet(ToSet(s))
  <2>1. IsFiniteSet(DOMAIN s)
    BY <1>8, FS_Interval
  <2>2. IsFiniteSet({s[i] : i \in DOMAIN s})
    BY <2>1, ImageFinite
  <2> QED BY <1>9, <2>2
<1>11. Operands(o) = s \/ Operands(o) = << >>
  BY DEF Operands, s
<1>12. ToSet(<< >>) = {} /\ IsFiniteSet({})
  BY FS_EmptySet DEF ToSet
<1>13. ASSUME IsUnary(o) PROVE s[1] \in ToSet(Operands(o)) \ {NoValue}
  <2>1. ~CBInput(o)
    BY <1>13, OperatorsAssumption DEF IsUnary, CBInput
  <2>2. Operands(o) = s /\ 1 \in DOMAIN s
    BY <1>6, <1>8, <1>13, <2>1 DEF Operands, s
  <2> QED BY <1>7, <1>8, <1>9, <2>2
<1>14. /\ ToSet(Operands(o)) \subseteq H /\ ToSet(Operands(o)) \subseteq {s[i] : i \in DOMAIN s}
       /\ IsFiniteSet(ToSet(Operands(o)))
  BY <1>9, <1>10, <1>11, <1>12
<1> QED BY <1>3, <1>5, <1>6, <1>8, <1>13, <1>14 DEF o, s, H, U

\* A body has finitely many values; each occurs in it.
LEMMA ValuesIn ==
  ASSUME NEW ops \in Seq(Ops(Held))
  PROVE  /\ IsFiniteSet(Values(ops)) /\ Values(ops) \subseteq Held
         /\ \A v \in Values(ops) : Occurs(ops, v) # {}
<1> DEFINE Of(k) == ToSet(Operands(ops[k])) \union {ops[k].out}
           K == DOMAIN ops
<1>1. Values(ops) = (UNION {Of(k) : k \in K}) \ {NoValue}
  BY DEF Values
<1>2. \A v : Occurs(ops, v) = {k \in K : v \in Of(k)}
  BY DEF Occurs
<1>3. \A k \in K : IsFiniteSet(Of(k)) /\ Of(k) \subseteq Held \union {NoValue}
  <2> SUFFICES ASSUME NEW k \in K PROVE IsFiniteSet(Of(k)) /\ Of(k) \subseteq Held \union {NoValue}
    OBVIOUS
  <2>1. IsFiniteSet(ToSet(Operands(ops[k]))) /\ ToSet(Operands(ops[k])) \subseteq Held
        /\ ops[k].out \in Held \union {NoValue}
    BY OperandsIn
  <2>2. IsFiniteSet(Of(k))
    BY <2>1, FS_AddElement
  <2> QED BY <2>1, <2>2
<1>4. IsFiniteSet(K)
  <2> DEFINE O == Ops(Held)
  <2>1. ops \in Seq(O)
    OBVIOUS
  <2> HIDE DEF O
  <2>2. K = 1 .. Len(ops) /\ Len(ops) \in Nat
    BY <2>1
  <2> QED BY <2>2, FS_Interval
<1> HIDE DEF Of, K
<1>5. IsFiniteSet(UNION {Of(k) : k \in K})
  <2> DEFINE f == [k \in K |-> Of(k)]
  <2>a. IsFiniteSet({f[k] : k \in K})
    <3>1. DOMAIN f = K
      OBVIOUS
    <3> HIDE DEF f
    <3> QED BY <1>4, <3>1, ImageFinite
  <2>1. IsFiniteSet({Of(k) : k \in K})
    BY <2>a
  <2> QED BY <1>3, <2>1, FS_UNION
<1>6. IsFiniteSet(Values(ops))
  BY <1>1, <1>5, FS_Subset
<1> QED BY <1>1, <1>2, <1>3, <1>6

\* Every value of V has a class, which is the class of each of its members.
Partition(class, V) ==
  /\ class \in [V -> SUBSET V]
  /\ \A v \in V : v \in class[v] /\ \A w \in class[v] : class[w] = class[v]

\* Joining classes leaves a partition.
LEMMA JoinParts ==
  ASSUME NEW V, NEW class, Partition(class, V), NEW pair \in SUBSET V
  PROVE  Partition(Join(class, pair), V)
<1> DEFINE both == UNION {class[v] : v \in pair}
           new == [v \in V |-> IF v \in both THEN both ELSE class[v]]
<1>1. Join(class, pair) = new
  BY DEF Join, Partition
<1>2. both \subseteq V
  BY DEF Partition
<1>3. \A v \in V : class[v] \in SUBSET V /\ v \in class[v] /\ \A w \in class[v] : class[w] = class[v]
  BY DEF Partition
<1>4. ASSUME NEW v \in V, v \notin both, NEW w \in class[v] PROVE w \notin both
  <2>1. SUFFICES ASSUME NEW u \in pair, w \in class[u] PROVE FALSE
    OBVIOUS
  <2>2. class[w] = class[v] /\ class[w] = class[u]
    BY <1>3, <2>1
  <2>3. v \in class[u]
    BY <1>3, <2>2
  <2>4. v \in both
    BY <2>3
  <2> QED BY <1>4, <2>4
<1> HIDE DEF both
<1>5. new \in [V -> SUBSET V]
  BY <1>2, <1>3
<1>6. ASSUME NEW v \in V PROVE v \in new[v] /\ \A w \in new[v] : new[w] = new[v]
  <2>1. CASE v \in both
    <3>1. new[v] = both /\ \A w \in both : w \in V /\ new[w] = both
      BY <1>2, <2>1
    <3> HIDE DEF new
    <3> QED BY <2>1, <3>1
  <2>2. CASE v \notin both
    <3>1. new[v] = class[v]
      BY <2>2
    <3>2. \A w \in class[v] : w \in V /\ w \notin both /\ class[w] = class[v]
      BY <1>3, <1>4, <2>2
    <3> QED BY <1>3, <3>1, <3>2
  <2> QED BY <2>1, <2>2
<1> HIDE DEF new
<1> QED BY <1>1, <1>5, <1>6 DEF Partition

\* The values that are merged are values of the body.
LEMMA MergedIn ==
  ASSUME NEW ops \in Seq(Ops(Held))
  PROVE  Merged(ops) \in SUBSET (SUBSET Values(ops)) /\ IsFiniteSet(Merged(ops))
<1>1. ASSUME NEW k \in DOMAIN ops, Merges(ops, k)
      PROVE  {ops[k].in[1], ops[k].out} \subseteq Values(ops)
  <2>1. IsUnary(ops[k])
    BY <1>1 DEF Merges
  <2>2. ops[k].in[1] \in ToSet(Operands(ops[k])) \ {NoValue} /\ ops[k].out # NoValue
    BY <2>1, OperandsIn
  <2> QED BY <2>2 DEF Values
<1>2. Merged(ops) \in SUBSET (SUBSET Values(ops))
  BY <1>1 DEF Merged
<1>3. IsFiniteSet(SUBSET Values(ops))
  BY ValuesIn, FS_SUBSET
<1> QED BY <1>2, <1>3, FS_Subset

\* What holds of single values, and stays true when merged values are joined,
\* holds of the classes of a body.
LEMMA ClassesAre ==
  ASSUME NEW ops \in Seq(Ops(Held)), NEW V, [v \in Values(ops) |-> {v}] \in V,
         \A c \in V : \A p \in Merged(ops) : Join(c, p) \in V
  PROVE  Classes(ops) \in V
<1> DEFINE S == Merged(ops)
           b == [v \in Values(ops) |-> {v}]
           ch == [T \in SUBSET S |-> CHOOSE x \in T : TRUE]
           G == [pc \in S \X V |-> Join(pc[2], pc[1])]
           all == CHOOSE f : f = [T \in SUBSET S |->
                    IF T = {} THEN b ELSE Join(f[T \ {CHOOSE x \in T : TRUE}], CHOOSE x \in T : TRUE)]
<1>1. Classes(ops) = all[S]
  BY DEF Classes, FoldSet, MapThenFoldSet
<1>2. IsFiniteSet(S)
  BY MergedIn
<1>3. b \in V
  OBVIOUS
<1> HIDE DEF b
<1>5. G \in [S \X V -> V]
  OBVIOUS
<1>6. \A T \in SUBSET S : T # {} => ch[T] \in T
  OBVIOUS
<1>7. \A p \in S : \A c \in V : G[<<p, c>>] = Join(c, p)
  OBVIOUS
<1>8. \A T \in SUBSET S : ch[T] = CHOOSE x \in T : TRUE
  OBVIOUS
<1> HIDE DEF S, ch, G
<1>9. PICK f : Folds(f, S, V, b, ch, G)
  BY <1>2, <1>3, <1>5, <1>6, FoldExists
<1>10. ASSUME NEW T \in SUBSET S
       PROVE  f[T] = IF T = {} THEN b ELSE Join(f[T \ {CHOOSE x \in T : TRUE}], CHOOSE x \in T : TRUE)
  <2>1. CASE T = {}
    BY <1>9, <2>1 DEF Folds
  <2>2. CASE T # {}
    <3>1. f[T] = G[<<ch[T], f[T \ {ch[T]}]>>]
      BY <1>9, <2>2 DEF Folds
    <3>2. ch[T] \in S /\ f[T \ {ch[T]}] \in V
      BY <1>6, <1>9, <2>2 DEF Folds
    <3> QED BY <1>7, <1>8, <2>2, <3>1, <3>2
  <2> QED BY <2>1, <2>2
<1>11. f = [T \in SUBSET S |->
         IF T = {} THEN b ELSE Join(f[T \ {CHOOSE x \in T : TRUE}], CHOOSE x \in T : TRUE)]
  <2>1. f \in [SUBSET S -> V]
    BY <1>9 DEF Folds
  <2> QED BY <1>10, <2>1
<1>12. all = [T \in SUBSET S |->
         IF T = {} THEN b ELSE Join(all[T \ {CHOOSE x \in T : TRUE}], CHOOSE x \in T : TRUE)]
  BY <1>11, Zenon
<1> HIDE DEF all
<1>13. all \in [SUBSET S -> V]
  <2> DEFINE F == {T \in SUBSET S : all[T] \in V}
  <2>1. \A U \in SUBSET S : \A T \in SUBSET U : T # {} => \E x \in T : T \ {x} \in F => T \in F
    <3> SUFFICES ASSUME NEW T \in SUBSET S, T # {} PROVE \E x \in T : T \ {x} \in F => T \in F
      OBVIOUS
    <3>1. ch[T] \in T /\ ch[T] = CHOOSE x \in T : TRUE
      BY <1>6, <1>8
    <3>2. all[T] = Join(all[T \ {ch[T]}], ch[T])
      BY <1>12, <3>1
    <3>3. ASSUME T \ {ch[T]} \in F PROVE T \in F
      BY <1>5, <1>7, <3>1, <3>2, <3>3
    <3> QED BY <3>1, <3>3
  <2>2. {} \in F
    BY <1>3, <1>12
  <2> HIDE DEF F
  <2>3. \A U \in SUBSET S : U \in F
    <3> SUFFICES ASSUME NEW U \in SUBSET S PROVE U \in F
      OBVIOUS
    <3>1. IsFiniteSet(U)
      BY <1>2, FS_Subset
    <3> QED BY <2>1, <2>2, <3>1, SubsetInduction
  <2>4. DOMAIN all = SUBSET S
    BY <1>12
  <2>5. all = [T \in SUBSET S |-> all[T]]
    BY <1>12
  <2> QED BY <2>3, <2>4, <2>5 DEF F
<1>14. S \in SUBSET S
  OBVIOUS
<1> QED BY <1>1, <1>13, <1>14

\* The classes of a body are a partition of its values.
LEMMA ClassesIs ==
  ASSUME NEW ops \in Seq(Ops(Held))
  PROVE  Partition(Classes(ops), Values(ops))
<1> DEFINE V == {class \in [Values(ops) -> SUBSET Values(ops)] : Partition(class, Values(ops))}
           b == [v \in Values(ops) |-> {v}]
<1>1. b \in V
  BY DEF Partition
<1>2. \A c : c \in V <=> Partition(c, Values(ops))
  BY DEF Partition
<1> HIDE DEF V
<1>3. \A c \in V : \A p \in Merged(ops) : Join(c, p) \in V
  BY <1>2, MergedIn, JoinParts
<1> QED BY <1>1, <1>2, <1>3, ClassesAre

\* Where values live: merged values have one interval, and no two values are
\* met at one place.
LiveOK(live) ==
  /\ IsFiniteSet(DOMAIN live)
  /\ \A v \in DOMAIN live : /\ live[v].start \in Nat /\ live[v].end \in Nat
                            /\ live[v].met[1] \in Nat /\ live[v].met[2] \in Nat
                            /\ v \in live[v].class /\ live[v].class \subseteq DOMAIN live
  /\ \A v \in DOMAIN live : \A w \in live[v].class :
       live[w].class = live[v].class /\ live[w].start = live[v].start /\ live[w].end = live[v].end
  /\ \A v, w \in DOMAIN live :
       live[v].met[1] = live[w].met[1] /\ live[v].met[2] = live[w].met[2] => v = w

\* A value that is not a result is consumed.
LEMMA UsesIs ==
  ASSUME NEW ops \in Seq(Ops(Held)), NEW v
  PROVE  /\ Uses(ops, v) \subseteq 1 .. Len(ops) /\ Len(ops) \in Nat
         /\ \A k \in DOMAIN ops : v \in ToSet(Operands(ops[k])) => k \in Uses(ops, v)
<1>1. Len(ops) \in Nat /\ DOMAIN ops = 1 .. Len(ops)
  <2> DEFINE O == Ops(Held)
  <2>1. ops \in Seq(O)
    OBVIOUS
  <2> HIDE DEF O
  <2> QED BY <2>1
<1>2. ASSUME NEW k \in DOMAIN ops, v \in ToSet(Operands(ops[k])) PROVE Times(ops, v, k) > 0
  <2> DEFINE s == ops[k].in
             d == DOMAIN Operands(ops[k])
             at == {i \in d : s[i] = v}
  <2>1. Operands(ops[k]) = s
    BY <1>2 DEF Operands, ToSet
  <2>2. PICK i \in d : s[i] = v
    BY <1>2, <2>1 DEF ToSet
  <2>3. s \in Seq(Held)
    BY OperandsIn
  <2>4. IsFiniteSet(d)
    <3>1. d = 1 .. Len(s) /\ Len(s) \in Nat
      BY <2>1, <2>3
    <3> QED BY <3>1, FS_Interval
  <2> HIDE DEF d, s
  <2>5. at # {} /\ IsFiniteSet(at)
    BY <2>2, <2>4, FS_Subset
  <2> HIDE DEF at
  <2>6. Cardinality(at) > 0
    BY <2>5, FS_EmptySet, FS_CardinalityType
  <2> QED BY <2>6 DEF Times, at, d, s
<1> QED BY <1>1, <1>2 DEF Uses

\* The interval of a value lies in the body.
LEMMA IntervalIn ==
  ASSUME NEW ops \in Seq(Ops(Held)), NEW v \in Values(ops)
  PROVE  Interval(ops, v).start \in Nat /\ Interval(ops, v).end \in Nat
         /\ Interval(ops, v).end <= Len(ops) /\ Len(ops) \in Nat
<1> DEFINE def == {k \in DOMAIN ops : ops[k].out = v}
           uses == Uses(ops, v)
           n == Len(ops)
           start == IF def = {} THEN Min(uses) - 1 ELSE Min(def)
           end == Max(uses \union def)
<1>1. uses \subseteq 1 .. n /\ n \in Nat
  BY UsesIs
<1>2. def \subseteq 1 .. n
  BY OperandsIn
<1>3. def = {} => uses # {}
  <2>1. SUFFICES ASSUME def = {} PROVE uses # {}
    OBVIOUS
  <2>2. PICK j \in DOMAIN ops : v \in ToSet(Operands(ops[j])) \union {ops[j].out}
    BY ValuesIn DEF Occurs
  <2>3. v \in ToSet(Operands(ops[j]))
    BY <2>1, <2>2
  <2> QED BY <2>3, UsesIs
<1> HIDE DEF def, uses, n
<1>4. start \in Nat
  <2>1. CASE def = {}
    <3>1. Min(uses) \in uses
      BY <1>1, <1>3, <2>1, MinIs
    <3>2. \A k \in uses : k - 1 \in Nat
      BY <1>1
    <3> QED BY <2>1, <3>1, <3>2
  <2>2. CASE def # {}
    <3>1. Min(def) \in def
      BY <1>2, <2>2, MinIs
    <3>2. \A k \in def : k \in Nat
      BY <1>2
    <3> QED BY <2>2, <3>1, <3>2
  <2> QED BY <2>1, <2>2
<1>5. end \in uses \union def
  <2> DEFINE T == uses \union def
  <2>1. T \in SUBSET Nat /\ T # {} /\ \A k \in T : k <= n
    BY <1>1, <1>2, <1>3
  <2> HIDE DEF T
  <2>2. Max(T) \in T
    BY <1>1, <2>1, MaxIs
  <2> QED BY <2>2 DEF T
<1>6. end \in Nat /\ end <= n
  <2>1. \A k \in uses \union def : k \in Nat /\ k <= n
    BY <1>1, <1>2
  <2> HIDE DEF end
  <2> QED BY <1>5, <2>1
<1>7. Interval(ops, v) = [start |-> start, end |-> end]
  BY DEF Interval, def, uses
<1> HIDE DEF start, end
<1> QED BY <1>1, <1>4, <1>6, <1>7 DEF n

\* A value is met as the first or second operand of an operation or its result.
LEMMA MetIs ==
  ASSUME NEW ops \in Seq(Ops(Held)), NEW v \in Values(ops)
  PROVE  LET m == Met(ops, v)
         IN /\ m[1] \in Nat /\ m[2] \in Nat
            /\ v = IF m[2] = 3 THEN ops[m[1]].out ELSE ops[m[1]].in[m[2]]
<1> DEFINE k == Min(Occurs(ops, v))
           at == {i \in DOMAIN ops[k].in : ops[k].in[i] = v}
<1>1. k \in Occurs(ops, v) /\ k \in Nat
  <2>1. Occurs(ops, v) # {} /\ Occurs(ops, v) \subseteq 1 .. Len(ops)
    BY ValuesIn, OperandsIn DEF Occurs
  <2>2. Occurs(ops, v) \in SUBSET Nat
    BY <2>1
  <2>3. Min(Occurs(ops, v)) \in Occurs(ops, v)
    BY <2>1, <2>2, MinIs
  <2> QED BY <2>2, <2>3
<1>2. Met(ops, v) = <<k, IF ops[k].out = v THEN 3 ELSE Min(at)>>
  BY DEF Met, Occurs
<1>3. k \in DOMAIN ops /\ v \in ToSet(Operands(ops[k])) \union {ops[k].out}
  BY <1>1 DEF Occurs
<1> HIDE DEF k
<1>4. CASE ops[k].out = v
  BY <1>1, <1>2, <1>4
<1>5. CASE ops[k].out # v
  <2>1. v \in {ops[k].in[i] : i \in DOMAIN ops[k].in}
    BY <1>3, <1>5, OperandsIn
  <2>2. at # {} /\ at \subseteq 1 .. 2
    <3>1. ops[k].in \in Seq(Held) /\ Len(ops[k].in) \in 0 .. 2
      BY <1>3, OperandsIn
    <3> QED BY <2>1, <3>1
  <2>3. \A i \in at : ops[k].in[i] = v
    OBVIOUS
  <2> HIDE DEF at
  <2>4. Min(at) \in at
    <3>1. at \in SUBSET Nat
      BY <2>2
    <3> QED BY <2>2, <3>1, MinIs
  <2> DEFINE i == Min(at)
  <2>5. i \in 1 .. 2 /\ ops[k].in[i] = v
    BY <2>2, <2>3, <2>4
  <2>6. Met(ops, v) = <<k, i>>
    BY <1>2, <1>5
  <2> HIDE DEF i
  <2>7. i \in Nat /\ i # 3
    BY <2>5
  <2> QED BY <1>1, <2>5, <2>6, <2>7
<1> QED BY <1>4, <1>5

\* The live intervals of a body.
LEMMA LiveIs ==
  ASSUME NEW ops \in Seq(Ops(Held))
  PROVE  LiveOK(Live(ops)) /\ DOMAIN Live(ops) = Values(ops)
<1> DEFINE class == Classes(ops)
           V == Values(ops)
           starts(v) == {Interval(ops, w).start : w \in class[v]}
           ends(v) == {Interval(ops, w).end : w \in class[v]}
           live == [v \in V |-> [class |-> class[v], met |-> Met(ops, v),
                                 start |-> Min(starts(v)), end |-> Max(ends(v))]]
           n == Len(ops)
<1>1. Live(ops) = live
  BY DEF Live
<1>2. Partition(class, V) /\ IsFiniteSet(V)
  BY ClassesIs, ValuesIn
<1>3. \A v \in V : class[v] \subseteq V /\ v \in class[v] /\ \A w \in class[v] : class[w] = class[v]
  BY <1>2 DEF Partition
<1>4. ASSUME NEW v \in V PROVE Min(starts(v)) \in Nat /\ Max(ends(v)) \in Nat
  <2>1. \A w \in class[v] : Interval(ops, w).start \in Nat /\ Interval(ops, w).end \in Nat
                            /\ Interval(ops, w).end <= n /\ n \in Nat
    BY <1>3, IntervalIn
  <2>2. starts(v) \in SUBSET Nat /\ starts(v) # {} /\ ends(v) \in SUBSET Nat /\ ends(v) # {}
        /\ n \in Nat /\ \A k \in ends(v) : k <= n
    BY <1>3, <2>1
  <2> HIDE DEF starts, ends, n
  <2>3. Min(starts(v)) \in starts(v) /\ Max(ends(v)) \in ends(v)
    BY <2>2, MinIs, MaxIs
  <2> QED BY <2>2, <2>3
<1>5. \A v \in V : \A w \in class[v] : starts(w) = starts(v) /\ ends(w) = ends(v)
  BY <1>3
<1>6. \A v \in V : LET m == Met(ops, v)
                   IN /\ m[1] \in Nat /\ m[2] \in Nat
                      /\ v = IF m[2] = 3 THEN ops[m[1]].out ELSE ops[m[1]].in[m[2]]
  BY MetIs
<1>7. \A v, w \in V : Met(ops, v)[1] = Met(ops, w)[1] /\ Met(ops, v)[2] = Met(ops, w)[2] => v = w
  BY <1>6
<1> HIDE DEF class, V, starts, ends
<1>8. \A v \in V : live[v].class = class[v] /\ live[v].met = Met(ops, v)
                   /\ live[v].start = Min(starts(v)) /\ live[v].end = Max(ends(v))
  OBVIOUS
<1>9. DOMAIN live = V
  OBVIOUS
<1> HIDE DEF live
<1>10. \A v \in V : live[v].start \in Nat /\ live[v].end \in Nat
                    /\ live[v].met[1] \in Nat /\ live[v].met[2] \in Nat
                    /\ v \in live[v].class /\ live[v].class \subseteq V
  BY <1>3, <1>4, <1>6, <1>8
<1>11. \A v \in V : \A w \in live[v].class :
         live[w].class = live[v].class /\ live[w].start = live[v].start /\ live[w].end = live[v].end
  <2> SUFFICES ASSUME NEW v \in V, NEW w \in class[v]
               PROVE  live[w].class = live[v].class /\ live[w].start = live[v].start
                      /\ live[w].end = live[v].end
    BY <1>8
  <2>1. w \in V /\ class[w] = class[v] /\ starts(w) = starts(v) /\ ends(w) = ends(v)
    BY <1>3, <1>5
  <2> QED BY <1>8, <2>1
<1>12. \A v, w \in V :
         live[v].met[1] = live[w].met[1] /\ live[v].met[2] = live[w].met[2] => v = w
  BY <1>7, <1>8
<1>13. LiveOK(live)
  BY <1>2, <1>9, <1>10, <1>11, <1>12 DEF LiveOK
<1> QED BY <1>1, <1>9, <1>13 DEF V

-----------------------------------------------------------------------------
(* The scan.                                                               *)

\* Registers that are free or that an active interval has.
Pool(s) == s.free \union {s.reg[a] : a \in s.active}

\* The intervals of v and w do not overlap.
Disjoint(live, v, w) == live[v].end <= live[w].start \/ live[w].end <= live[v].start

\* Values that were not merged have one register only after each other.
RegistersApart(live, reg) ==
  \A v, w \in DOMAIN reg : reg[v] = reg[w] /\ live[v].class # live[w].class => Disjoint(live, v, w)

\* A scan s of live that has n registers and still wants W: merged values get
\* their register together; every register of the pool is free or has one
\* active interval; intervals come in the order of their starts, and what was
\* ended to take its register ends before all that are to come.
ScanOK(live, s, W, n) ==
  /\ s.active \subseteq DOMAIN s.reg /\ DOMAIN s.reg \subseteq DOMAIN live
  /\ \A v \in DOMAIN s.reg : s.reg[v] \in 0 .. n - 1
  /\ \A v \in DOMAIN s.reg : \A w \in live[v].class : w \in DOMAIN s.reg /\ s.reg[w] = s.reg[v]
  /\ \A v, w \in s.active : live[v].class = live[w].class \/ s.reg[v] = s.reg[w] => v = w
  /\ s.free \subseteq 0 .. n - 1 /\ \A a \in s.active : s.reg[a] \notin s.free
  /\ W \subseteq DOMAIN live
  /\ \A v \in W : \A w \in live[v].class : w \notin DOMAIN s.reg
  /\ \A v \in W : \A a \in s.active : live[a].start <= live[v].start
  /\ \A w \in DOMAIN s.reg : s.reg[w] \in Pool(s) =>
       \/ \E a \in s.active : live[a].class = live[w].class
       \/ \A x \in W : live[w].end <= live[x].start
  /\ RegistersApart(live, s.reg)

\* The values wanted have a first.
LEMMA FirstIs ==
  ASSUME NEW live, LiveOK(live), NEW W \in SUBSET DOMAIN live, W # {}
  PROVE  First(live, W) \in W /\ \A w \in W : live[First(live, W)].start <= live[w].start
<1> DEFINE a(v) == live[v].start
           b(v) == live[v].met[1]
           c(v) == live[v].met[2]
<1>1. \A v \in W : a(v) \in Nat /\ b(v) \in Nat /\ c(v) \in Nat
  BY DEF LiveOK
<1>2. \A v, w \in W : b(v) = b(w) /\ c(v) = c(w) => v = w
  BY DEF LiveOK
<1>3. \A v, w : Before(live, v, w) <=> \/ a(v) < a(w)
                                       \/ a(v) = a(w) /\ b(v) < b(w)
                                       \/ a(v) = a(w) /\ b(v) = b(w) /\ c(v) < c(w)
  BY DEF Before
<1> HIDE DEF a, b, c
<1>4. \E v \in W : \A w \in W \ {v} : Before(live, v, w)
  <2>1. PICK x \in W : \A w \in W : a(x) <= a(w)
    <3> DEFINE T == {a(v) : v \in W}
    <3>1. T \in SUBSET Nat /\ T # {}
      BY <1>1
    <3>2. PICK m \in T : \A k \in T : m <= k
      <4> HIDE DEF T
      <4> QED BY <3>1, LeastElement
    <3> QED BY <3>2
  <2> DEFINE X == {v \in W : a(v) = a(x)}
  <2>2. PICK y \in X : \A w \in X : b(y) <= b(w)
    <3> DEFINE T == {b(v) : v \in X}
    <3>1. T \in SUBSET Nat /\ T # {}
      BY <1>1
    <3>2. PICK m \in T : \A k \in T : m <= k
      <4> HIDE DEF T
      <4> QED BY <3>1, LeastElement
    <3> QED BY <3>2
  <2> DEFINE Y == {v \in X : b(v) = b(y)}
  <2>3. PICK z \in Y : \A w \in Y : c(z) <= c(w)
    <3> DEFINE T == {c(v) : v \in Y}
    <3>1. T \in SUBSET Nat /\ T # {}
      BY <1>1
    <3>2. PICK m \in T : \A k \in T : m <= k
      <4> HIDE DEF T
      <4> QED BY <3>1, LeastElement
    <3> QED BY <3>2
  <2>4. z \in W /\ a(z) = a(x) /\ b(z) = b(y)
    BY <2>3
  <2>5. ASSUME NEW w \in W, w # z PROVE Before(live, z, w)
    <3>1. a(z) <= a(w)
      BY <2>1, <2>4
    <3>2. a(w) = a(z) => b(z) <= b(w)
      BY <2>2, <2>4
    <3>3. a(w) = a(z) /\ b(w) = b(z) => c(z) <= c(w)
      BY <2>3, <2>4
    <3>4. a(w) = a(z) /\ b(w) = b(z) => c(z) # c(w)
      BY <1>2, <2>4, <2>5
    <3> QED BY <1>1, <1>3, <2>4, <3>1, <3>2, <3>3, <3>4
  <2> QED BY <2>4, <2>5
<1> DEFINE f == First(live, W)
<1>5. f \in W /\ \A w \in W \ {f} : Before(live, f, w)
  BY <1>4, Zenon DEF First
<1> HIDE DEF f
<1>6. \A w \in W : a(f) <= a(w)
  BY <1>1, <1>3, <1>5
<1> QED BY <1>5, <1>6 DEF a, f

\* A scan that gives its first wanted value a register goes on.
LEMMA ScanGoesOn ==
  ASSUME NEW live, LiveOK(live), NEW n \in Nat, NEW s, NEW W, ScanOK(live, s, W, n),
         NEW v \in W, \A w \in W : live[v].start <= live[w].start, Open(live, s, v) # {},
         NEW next, next = Allocated(live, s, v), NEW X \in SUBSET (W \ live[v].class)
  PROVE  ScanOK(live, next, X, n) /\ Pool(next) = Pool(s)
         /\ DOMAIN next.reg = DOMAIN s.reg \union live[v].class
<1> DEFINE open == Open(live, s, v)
           over == Over(live, s, v)
           r == Min(open)
           C == live[v].class
           reg == [w \in DOMAIN s.reg \union C |-> IF w \in DOMAIN s.reg THEN s.reg[w] ELSE r]
<1>1. /\ next.free = open \ {r} /\ next.active = (s.active \ over) \union {v} /\ next.reg = reg
  BY DEF Allocated
<1>2. open = s.free \union {s.reg[w] : w \in over}
  BY DEF Open
<1>3. over = {w \in s.active : live[w].end <= live[v].start}
  BY DEF Over, Expired
<1>4. /\ s.active \subseteq DOMAIN s.reg /\ DOMAIN s.reg \subseteq DOMAIN live
      /\ \A x \in DOMAIN s.reg : s.reg[x] \in 0 .. n - 1
      /\ \A x \in DOMAIN s.reg : \A w \in live[x].class : w \in DOMAIN s.reg /\ s.reg[w] = s.reg[x]
      /\ \A x, w \in s.active : live[x].class = live[w].class \/ s.reg[x] = s.reg[w] => x = w
      /\ s.free \subseteq 0 .. n - 1 /\ \A a \in s.active : s.reg[a] \notin s.free
      /\ W \subseteq DOMAIN live
      /\ \A x \in W : \A w \in live[x].class : w \notin DOMAIN s.reg
      /\ \A x \in W : \A a \in s.active : live[a].start <= live[x].start
      /\ \A w \in DOMAIN s.reg : s.reg[w] \in Pool(s) =>
           \/ \E a \in s.active : live[a].class = live[w].class
           \/ \A x \in W : live[w].end <= live[x].start
      /\ \A x, w \in DOMAIN s.reg :
           s.reg[x] = s.reg[w] /\ live[x].class # live[w].class => Disjoint(live, x, w)
  BY DEF ScanOK, RegistersApart
<1>5. /\ v \in DOMAIN live /\ v \in C /\ C \subseteq DOMAIN live
      /\ \A w \in DOMAIN live : /\ live[w].start \in Nat /\ live[w].end \in Nat
                                /\ w \in live[w].class
      /\ \A w \in DOMAIN live : \A x \in live[w].class :
           live[x].class = live[w].class /\ live[x].start = live[w].start /\ live[x].end = live[w].end
  BY <1>4 DEF LiveOK
<1>6. r \in open /\ r \in 0 .. n - 1 /\ open \subseteq 0 .. n - 1
  <2>1. open \subseteq 0 .. n - 1
    BY <1>2, <1>3, <1>4
  <2> HIDE DEF open
  <2>2. open \in SUBSET Nat
    BY <2>1
  <2>3. Min(open) \in open
    BY <2>2, MinIs DEF open
  <2> QED BY <2>1, <2>3
<1> HIDE DEF open, over, r, C
<1>7. /\ DOMAIN reg = DOMAIN s.reg \union C
      /\ \A w \in DOMAIN s.reg : w \notin C /\ reg[w] = s.reg[w]
      /\ \A w \in C : w \notin DOMAIN s.reg /\ reg[w] = r
  BY <1>4 DEF C
<1> HIDE DEF reg
<1>8. X \subseteq W /\ \A x \in X : x \notin C
  BY DEF C
\* What is still active has a register that is not open.
<1>9. \A a \in s.active \ over : s.reg[a] \notin open /\ a \in DOMAIN s.reg /\ reg[a] = s.reg[a]
  BY <1>2, <1>3, <1>4, <1>7
<1>10. open \subseteq Pool(s)
  BY <1>2, <1>3 DEF Pool
<1>11. Pool(next) = Pool(s)
  <2>1. {reg[a] : a \in next.active} = {s.reg[a] : a \in s.active \ over} \union {r}
    BY <1>1, <1>5, <1>7, <1>9
  <2>2. Pool(next) = (open \ {r}) \union {s.reg[a] : a \in s.active \ over} \union {r}
    BY <1>1, <2>1 DEF Pool
  <2>3. Pool(s) = s.free \union {s.reg[a] : a \in over} \union {s.reg[a] : a \in s.active \ over}
    BY <1>3 DEF Pool
  <2> QED BY <1>2, <1>6, <2>2, <2>3
<1>12. next.active \subseteq DOMAIN reg /\ DOMAIN reg \subseteq DOMAIN live
  BY <1>1, <1>4, <1>5, <1>7
<1>13. \A x \in DOMAIN reg : reg[x] \in 0 .. n - 1
  BY <1>4, <1>6, <1>7
<1>14. ASSUME NEW x \in DOMAIN reg, NEW w \in live[x].class
       PROVE  w \in DOMAIN reg /\ reg[w] = reg[x]
  <2>1. CASE x \in DOMAIN s.reg
    BY <1>4, <1>7, <2>1
  <2>2. CASE x \in C
    <3>1. live[x].class = C
      BY <1>5, <2>2 DEF C
    <3> QED BY <1>7, <2>2, <3>1
  <2> QED BY <1>7, <2>1, <2>2
<1>15. ASSUME NEW x \in next.active, NEW w \in next.active,
              live[x].class = live[w].class \/ reg[x] = reg[w]
       PROVE  x = w
  <2>1. \A a \in s.active \ over : live[a].class # C /\ reg[a] # r
    <3>1. \A a \in s.active : a \in live[a].class /\ a \notin C
      BY <1>4, <1>5, <1>7
    <3> QED BY <1>6, <1>9, <3>1
  <2>2. reg[v] = r /\ live[v].class = C
    BY <1>5, <1>7 DEF C
  <2>3. CASE x = v \/ w = v
    BY <1>1, <1>15, <2>1, <2>2, <2>3
  <2>4. CASE x # v /\ w # v
    <3>1. x \in s.active \ over /\ w \in s.active \ over
      BY <1>1, <2>4
    <3> QED BY <1>4, <1>9, <1>15, <3>1
  <2> QED BY <2>3, <2>4
<1>16. next.free \subseteq 0 .. n - 1 /\ \A a \in next.active : reg[a] \notin next.free
  BY <1>1, <1>5, <1>6, <1>7, <1>9
<1>17. X \subseteq DOMAIN live /\ \A x \in X : \A w \in live[x].class : w \notin DOMAIN reg
  <2>1. ASSUME NEW x \in X, NEW w \in live[x].class, w \in C PROVE FALSE
    <3>1. live[w].class = live[x].class /\ live[w].class = C /\ x \in live[x].class
      BY <1>4, <1>5, <1>8, <2>1 DEF C
    <3> QED BY <1>8, <3>1
  <2> QED BY <1>4, <1>7, <1>8, <2>1
<1>18. \A x \in X : \A a \in next.active : live[a].start <= live[x].start
  BY <1>1, <1>4, <1>8
<1>19. ASSUME NEW w \in DOMAIN reg, reg[w] \in Pool(next)
       PROVE  \/ \E a \in next.active : live[a].class = live[w].class
              \/ \A x \in X : live[w].end <= live[x].start
  <2>1. CASE w \in C
    <3>1. v \in next.active /\ live[v].class = live[w].class
      BY <1>1, <1>5, <2>1 DEF C
    <3> QED BY <3>1
  <2>2. CASE w \in DOMAIN s.reg
    <3>1. s.reg[w] \in Pool(s)
      BY <1>7, <1>11, <1>19, <2>2
    <3>2. CASE \A x \in W : live[w].end <= live[x].start
      BY <1>8, <3>2
    <3>3. CASE \E a \in s.active : live[a].class = live[w].class
      <4>1. PICK a \in s.active : live[a].class = live[w].class
        BY <3>3
      <4>2. CASE a \notin over
        BY <1>1, <4>1, <4>2
      <4>3. CASE a \in over
        <5>1. live[a].end = live[w].end
          BY <1>4, <1>5, <2>2, <4>1
        <5>2. live[w].end <= live[v].start
          BY <1>3, <4>3, <5>1
        <5>3. \A x \in X : live[w].end <= live[x].start
          <6>1. live[w].end \in Nat /\ live[v].start \in Nat
            BY <1>4, <1>5, <2>2
          <6>2. \A x \in X : live[v].start <= live[x].start /\ live[x].start \in Nat
            BY <1>4, <1>5, <1>8
          <6> QED BY <5>2, <6>1, <6>2
        <5> QED BY <5>3
      <4> QED BY <4>2, <4>3
    <3> QED BY <1>4, <2>2, <3>1, <3>2, <3>3
  <2> QED BY <1>7, <2>1, <2>2
\* An older interval that had the register has ended.
<1>20. ASSUME NEW w \in DOMAIN s.reg, s.reg[w] = r PROVE live[w].end <= live[v].start
  <2>1. s.reg[w] \in Pool(s)
    BY <1>6, <1>10, <1>20
  <2>2. CASE \A x \in W : live[w].end <= live[x].start
    BY <2>2
  <2>3. CASE \E a \in s.active : live[a].class = live[w].class
    <3>1. PICK a \in s.active : live[a].class = live[w].class
      BY <2>3
    <3>2. w \in live[w].class /\ a \in live[a].class /\ a \in DOMAIN s.reg
      BY <1>4, <1>5
    <3>3. s.reg[a] = s.reg[w] /\ live[a].end = live[w].end
      BY <1>4, <1>5, <3>1, <3>2
    <3>4. a \in over
      BY <1>6, <1>9, <1>20, <3>3
    <3> QED BY <1>3, <3>3, <3>4
  <2> QED BY <1>4, <2>1, <2>2, <2>3
<1>21. ASSUME NEW x \in DOMAIN reg, NEW w \in DOMAIN reg, reg[x] = reg[w], live[x].class # live[w].class
       PROVE  Disjoint(live, x, w)
  <2>1. \A y \in C : live[y].class = C /\ live[y].start = live[v].start /\ reg[y] = r
    BY <1>5, <1>7 DEF C
  <2>2. CASE x \in C /\ w \in C
    BY <1>21, <2>1, <2>2
  <2>3. CASE x \in C /\ w \in DOMAIN s.reg
    <3>1. live[w].end <= live[v].start
      BY <1>7, <1>20, <1>21, <2>1, <2>3
    <3> QED BY <2>1, <2>3, <3>1 DEF Disjoint
  <2>4. CASE x \in DOMAIN s.reg /\ w \in C
    <3>1. live[x].end <= live[v].start
      BY <1>7, <1>20, <1>21, <2>1, <2>4
    <3> QED BY <2>1, <2>4, <3>1 DEF Disjoint
  <2>5. CASE x \in DOMAIN s.reg /\ w \in DOMAIN s.reg
    BY <1>4, <1>7, <1>21, <2>5
  <2> QED BY <1>7, <2>2, <2>3, <2>4, <2>5
<1>22. \A x, w \in DOMAIN reg : reg[x] = reg[w] /\ live[x].class # live[w].class => Disjoint(live, x, w)
  BY <1>21
<1>23. ScanOK(live, next, X, n)
  BY <1>1, <1>12, <1>13, <1>14, <1>15, <1>16, <1>17, <1>18, <1>19, <1>22 DEF ScanOK, RegistersApart
<1> QED BY <1>1, <1>7, <1>11, <1>23 DEF C

\* A scan whose pool is all n registers finds none only when more than n
\* intervals are live where the next one begins.
LEMMA ScanFull ==
  ASSUME NEW live, LiveOK(live), NEW n \in Nat, NEW s, NEW W, ScanOK(live, s, W, n),
         Pool(s) = 0 .. n - 1, NEW v \in W, Open(live, s, v) = {}
  PROVE  Overfull(live, n)
<1> DEFINE A == s.active
           at == {u \in DOMAIN live : live[u].start <= live[v].start /\ live[v].start < live[u].end}
           C == {live[w].class : w \in at \union {v}}
           D == {live[w].class : w \in A}
           R == {s.reg[a] : a \in A}
<1>1. /\ A \subseteq DOMAIN s.reg /\ DOMAIN s.reg \subseteq DOMAIN live
      /\ \A x, w \in A : live[x].class = live[w].class \/ s.reg[x] = s.reg[w] => x = w
      /\ W \subseteq DOMAIN live
      /\ \A x \in W : \A w \in live[x].class : w \notin DOMAIN s.reg
      /\ \A x \in W : \A a \in A : live[a].start <= live[x].start
  BY DEF ScanOK
<1>2. /\ IsFiniteSet(DOMAIN live)
      /\ \A w \in DOMAIN live : live[w].start \in Nat /\ live[w].end \in Nat /\ w \in live[w].class
  BY DEF LiveOK
<1>3. s.free = {} /\ \A a \in A : live[a].end > live[v].start
  <2>1. s.free = {} /\ Over(live, s, v) = {}
    BY DEF Open
  <2>2. \A a \in A : ~(live[a].end <= live[v].start)
    BY <2>1 DEF Over, Expired
  <2> QED BY <1>1, <1>2, <2>1, <2>2
<1>4. R = 0 .. n - 1
  BY <1>3 DEF Pool
<1>5. IsFiniteSet(A) /\ IsFiniteSet(at \union {v})
  <2>1. A \in SUBSET DOMAIN live /\ at \union {v} \in SUBSET DOMAIN live
    BY <1>1
  <2> QED BY <1>2, <2>1, FS_Subset
<1> HIDE DEF R
<1>6. Cardinality(A) = n
  <2> DEFINE f == [a \in A |-> s.reg[a]]
  <2>1. f \in Bijection(A, R)
    BY <1>1 DEF Bijection, Injection, Surjection, IsInjective, R
  <2>2. ExistsBijection(A, R)
    BY <2>1 DEF ExistsBijection
  <2>3. Cardinality(R) = n
    BY <1>4, FS_Interval
  <2> QED BY <1>5, <2>2, <2>3, FS_Bijection
<1>7. Cardinality(D) = n /\ IsFiniteSet(D)
  <2> DEFINE f == [a \in A |-> live[a].class]
  <2>1. f \in Bijection(A, D)
    BY <1>1 DEF Bijection, Injection, Surjection, IsInjective
  <2> HIDE DEF D
  <2>2. ExistsBijection(A, D)
    BY <2>1 DEF ExistsBijection
  <2> QED BY <1>5, <1>6, <2>2, FS_Bijection
<1>8. live[v].class \notin D
  BY <1>1, <1>2
<1>9. D \union {live[v].class} \subseteq C
  <2>1. A \subseteq at
    BY <1>1, <1>3
  <2> QED BY <2>1
<1>10. IsFiniteSet(C)
  <2> DEFINE f == [w \in at \union {v} |-> live[w].class]
  <2>1. f \in Surjection(at \union {v}, C)
    BY DEF Surjection
  <2> HIDE DEF C, f
  <2> QED BY <1>5, <2>1, FS_Surjection
<1> HIDE DEF D, C
<1>11. Cardinality(D \union {live[v].class}) = n + 1
  BY <1>7, <1>8, FS_AddElement
<1>12. Cardinality(C) > n
  <2>1. Cardinality(D \union {live[v].class}) <= Cardinality(C)
    BY <1>9, <1>10, FS_Subset
  <2>2. Cardinality(C) \in Nat
    BY <1>10, FS_CardinalityType
  <2> QED BY <1>11, <2>1, <2>2
<1>13. v \in DOMAIN live
  BY <1>1
<1> QED BY <1>12, <1>13 DEF Overfull, C

\* The inductive invariant: the live intervals are those of the body, the scan
\* is in order, and with a separate region of outputs those are left for the
\* end.
ScanInv ==
  /\ HandInv
  /\ LiveOK(body.live)
  /\ scan = [free |-> scan.free, active |-> scan.active, reg |-> scan.reg]
  /\ phase = "trace" => scan = NoScan(mode.capacity)
  /\ phase \in {"inner", "scan"} =>
       /\ ScanOK(body.live, scan, Wanted, mode.capacity)
       /\ Yielded(body.ops) \subseteq DOMAIN body.live
       /\ ~mode.separate => Pool(scan) = 0 .. mode.capacity - 1
  /\ phase = "inner" => mode.separate /\ DOMAIN scan.reg \subseteq Inner(body.live, Yielded(body.ops))
  /\ phase = "scan" /\ mode.separate => Inner(body.live, Yielded(body.ops)) \subseteq DOMAIN scan.reg
  /\ phase \in {"run", "illegal"} => DOMAIN scan.reg = DOMAIN body.live
  /\ \A v \in DOMAIN scan.reg : scan.reg[v] \in 0 .. mode.capacity - 1
  /\ RegistersApart(body.live, scan.reg)
  /\ SpillsWhenFull

\* It holds initially.
LEMMA ScanInit == Init => ScanInv
<1> SUFFICES ASSUME Init PROVE ScanInv
  OBVIOUS
<1>1. HandInv
  BY HandInit
<1>2. phase = "trace" /\ scan = NoScan(mode.capacity) /\ body.live = [v \in {} |-> 0]
  BY DEF Init
<1>3. LiveOK(body.live)
  <2>1. DOMAIN body.live = {}
    BY <1>2
  <2> QED BY <2>1, FS_EmptySet DEF LiveOK
<1>4. DOMAIN scan.reg = {} /\ scan = [free |-> scan.free, active |-> scan.active, reg |-> scan.reg]
  BY <1>2 DEF NoScan
<1> QED BY <1>1, <1>2, <1>3, <1>4 DEF ScanInv, RegistersApart, SpillsWhenFull

\* The yielded values are values of the body.
LEMMA YieldedIn ==
  ASSUME NEW ops, BodyOK(ops, Held)
  PROVE  Yielded(ops) \subseteq Values(ops)
<1> DEFINE n == Len(ops)
           s == ops[n].in
<1>1. ops \in Seq(Ops(Held)) /\ n # 0 /\ ops[n].op = "yield"
  BY DEF BodyOK, Last
<1>2. n \in DOMAIN ops
  <2> DEFINE O == Ops(Held)
  <2>1. ops \in Seq(O) /\ Len(ops) # 0
    BY <1>1
  <2> HIDE DEF O
  <2> QED BY <2>1
<1>3. s \in Seq(Held)
  BY <1>1, <1>2, OperandsIn
<1>4. Operands(ops[n]) = s
  BY <1>1 DEF Operands, CBInput
<1> HIDE DEF n, s
<1>5. \A i \in 1 .. Len(s) : s[i] \in ToSet(s) \ {NoValue}
  <2>1. \A i \in 1 .. Len(s) : i \in DOMAIN s /\ s[i] \in Held
    BY <1>3
  <2> QED BY <2>1, ValuesHeld DEF ToSet
<1>6. Yielded(ops) = {s[i] : i \in 1 .. Len(s)}
  BY DEF Yielded, Last, s, n
<1> QED BY <1>2, <1>4, <1>5, <1>6 DEF Values

\* A scan that has not begun.
LEMMA ScanBegins ==
  ASSUME NEW live, NEW n \in Nat, NEW W \in SUBSET DOMAIN live
  PROVE  ScanOK(live, NoScan(n), W, n) /\ Pool(NoScan(n)) = 0 .. n - 1
<1> DEFINE s == NoScan(n)
<1>1. s.free = 0 .. n - 1 /\ s.active = {} /\ DOMAIN s.reg = {}
  BY DEF NoScan
<1> HIDE DEF s
<1> QED BY <1>1 DEF ScanOK, Pool, RegistersApart, s

\* A value that is wanted in the scan of the inner values, of the outputs, or
\* of all of them.
Candidates(ph) ==
  IF ph = "inner" THEN Inner(body.live, Yielded(body.ops))
  ELSE IF mode.separate THEN Yielded(body.ops) ELSE DOMAIN body.live

\* What is wanted is a candidate without a register.
LEMMA WantedIs == Wanted = {v \in Candidates(phase) : v \notin DOMAIN scan.reg}
BY DEF Wanted, Candidates

\* Every step preserves it.
LEMMA ScanStep == ScanInv /\ [Next]_vars => ScanInv'
<1> SUFFICES ASSUME ScanInv, [Next]_vars PROVE ScanInv'
  OBVIOUS
<1> DEFINE n == mode.capacity
           live == body.live
           outs == Yielded(body.ops)
<1>1. HandInv'
  BY HandStep DEF ScanInv
<1>2. n \in Nat
  BY ModesAssumption DEF ScanInv, HandInv
<1>3. CASE UNCHANGED <<mode, phase, body, scan>>
  <2>1. Wanted' = Wanted
    BY <1>3 DEF Wanted
  <2> QED BY <1>1, <1>3, <2>1 DEF ScanInv, SpillsWhenFull
<1>4. CASE Prepare
  <2>1. /\ phase = "trace" /\ mode' = mode /\ scan' = scan
        /\ phase' = (IF mode.separate THEN "inner" ELSE "scan")
        /\ body'.live = Live(body'.ops)
    BY <1>4 DEF Prepare
  <2>2. BodyOK(body'.ops, Held)
    BY <1>1, <2>1 DEF HandInv
  <2>3. LiveOK(body'.live) /\ Yielded(body'.ops) \subseteq DOMAIN body'.live
    <3>1. body'.ops \in Seq(Ops(Held))
      BY <2>2 DEF BodyOK
    <3> QED BY <2>1, <2>2, <3>1, LiveIs, YieldedIn
  <2>4. scan' = NoScan(n) /\ DOMAIN scan'.reg = {}
    BY <2>1 DEF ScanInv, NoScan
  <2>5. Wanted' \subseteq DOMAIN body'.live
    BY <2>1, <2>3 DEF Wanted, Inner
  <2>6. ScanOK(body'.live, scan', Wanted', n) /\ Pool(scan') = 0 .. n - 1
    BY <1>2, <2>4, <2>5, ScanBegins
  <2>7. phase' = "scan" => ~mode.separate
    BY <2>1
  <2> QED BY <1>1, <2>1, <2>3, <2>4, <2>6, <2>7 DEF ScanInv, SpillsWhenFull, RegistersApart
<1>5. ASSUME Allocating PROVE /\ phase \in {"inner", "scan"} /\ mode' = mode /\ body' = body
                              /\ ScanOK(live, scan, Wanted, n) /\ LiveOK(live)
                              /\ Wanted \subseteq DOMAIN live /\ outs \subseteq DOMAIN live
                              /\ Wanted = {v \in Candidates(phase) : v \notin DOMAIN scan.reg}
  BY <1>5, WantedIs DEF Allocating, ScanInv, ScanOK
<1>6. ASSUME Wanted \subseteq DOMAIN live, LiveOK(live), Wanted # {}, NEW v, v = First(live, Wanted)
      PROVE  v \in Wanted /\ \A w \in Wanted : live[v].start <= live[w].start
  BY <1>6, FirstIs
<1>7. CASE Allocate
  <2> DEFINE v == First(live, Wanted)
             W == Wanted
  <2>1. Allocating /\ Wanted # {} /\ Open(live, scan, v) # {} /\ phase' = phase
        /\ scan' = Allocated(live, scan, v)
    BY <1>7 DEF Allocate
  <2>a. scan' = [free |-> scan'.free, active |-> scan'.active, reg |-> scan'.reg]
    BY <2>1 DEF Allocated
  <2>2. v \in W /\ \A w \in W : live[v].start <= live[w].start
    BY <1>5, <1>6, <2>1
  <2> DEFINE X == {x \in W : x \notin live[v].class}
             next == scan'
  <2> HIDE DEF v, W, live, n, next
  <2>3. ScanOK(live, scan', X, n) /\ Pool(scan') = Pool(scan)
        /\ DOMAIN scan'.reg = DOMAIN scan.reg \union live[v].class
    <3>1. ScanOK(live, scan, W, n) /\ LiveOK(live)
      BY <1>5, <2>1 DEF W
    <3>2. X \in SUBSET (W \ live[v].class)
      OBVIOUS
    <3>3. next = Allocated(live, scan, v) /\ Open(live, scan, v) # {} /\ v \in W
          /\ \A w \in W : live[v].start <= live[w].start
      BY <2>1, <2>2 DEF next
    <3> HIDE DEF X
    <3>4. ScanOK(live, next, X, n) /\ Pool(next) = Pool(scan)
          /\ DOMAIN next.reg = DOMAIN scan.reg \union live[v].class
      BY <1>2, <3>1, <3>2, <3>3, ScanGoesOn
    <3> QED BY <3>4 DEF next
  <2>4. Wanted' = X
    <3>1. Wanted' = {x \in Candidates(phase) : x \notin DOMAIN scan'.reg}
      BY <1>5, <2>1 DEF Wanted, Candidates
    <3>2. W = {x \in Candidates(phase) : x \notin DOMAIN scan.reg}
      BY <1>5, <2>1 DEF W
    <3> QED BY <2>3, <3>1, <3>2
  <2>5. \A x \in DOMAIN scan'.reg : scan'.reg[x] \in 0 .. n - 1
    BY <2>3 DEF ScanOK
  <2>6. phase = "inner" => DOMAIN scan'.reg \subseteq Inner(live, outs)
    <3>1. SUFFICES ASSUME phase = "inner" PROVE live[v].class \subseteq Inner(live, outs)
      BY <2>3 DEF ScanInv, live
    <3>2. v \in Inner(live, outs)
      BY <1>5, <2>1, <2>2, <3>1 DEF W, Candidates, live
    <3> QED BY <1>5, <2>1, <3>2 DEF Inner, LiveOK
  <2>7. phase = "scan" /\ mode.separate => Inner(live, outs) \subseteq DOMAIN scan'.reg
    BY <2>3 DEF ScanInv, live
  <2>8. RegistersApart(live, scan'.reg)
    BY <2>3 DEF ScanOK
  <2>9. ~mode.separate => Pool(scan') = 0 .. n - 1
    BY <1>5, <2>1, <2>3 DEF ScanInv, n
  <2> QED BY <1>1, <1>5, <2>1, <2>a, <2>3, <2>4, <2>5, <2>6, <2>7, <2>8, <2>9
          DEF ScanInv, SpillsWhenFull, live, n
<1>8. CASE GiveUp
  <2> DEFINE v == First(live, Wanted)
  <2>1. Allocating /\ Wanted # {} /\ Open(live, scan, v) = {} /\ phase' = "no_registers"
        /\ scan' = scan
    BY <1>8 DEF GiveUp
  <2>2. v \in Wanted
    BY <1>5, <1>6, <2>1
  <2> HIDE DEF v
  <2>3. ~mode.separate => Overfull(live, n)
    BY <1>2, <1>5, <2>1, <2>2, ScanFull DEF ScanInv
  <2> QED BY <1>1, <1>5, <2>1, <2>3 DEF ScanInv, SpillsWhenFull
<1>9. CASE AllocateOutputs
  <2>1. /\ Allocating /\ phase = "inner" /\ Wanted = {} /\ phase' = "scan" /\ mode.separate
        /\ scan' = [scan EXCEPT !.free = Above(n, scan.reg), !.active = {}]
        /\ DOMAIN scan.reg \subseteq Inner(live, outs)
    BY <1>9 DEF AllocateOutputs, ScanInv
  <2>2. Inner(live, outs) \subseteq DOMAIN scan.reg
    BY <1>5, <2>1 DEF Candidates
  <2> DEFINE s == scan'
  <2>3. /\ s.free = Above(n, scan.reg) /\ s.active = {} /\ s.reg = scan.reg
        /\ s = [free |-> s.free, active |-> s.active, reg |-> s.reg]
    <3>1. scan = [free |-> scan.free, active |-> scan.active, reg |-> scan.reg]
      BY DEF ScanInv
    <3> DEFINE a == scan.free
               b == scan.active
               c == scan.reg
               d == Above(n, scan.reg)
    <3>2. scan = [free |-> a, active |-> b, reg |-> c]
      BY <3>1
    <3>3. s = [scan EXCEPT !.free = d, !.active = {}]
      BY <2>1
    <3> HIDE DEF a, b, d, s
    <3>4. s = [free |-> d, active |-> {}, reg |-> c]
      BY <3>2, <3>3
    <3> QED BY <3>4 DEF d
  <2>4. Wanted' = {x \in outs : x \notin DOMAIN scan.reg}
    BY <1>5, <2>1, <2>3 DEF Wanted
  <2>5. \A x \in outs : \A w \in live[x].class : w \notin DOMAIN scan.reg
    <3>1. SUFFICES ASSUME NEW x \in outs, NEW w \in live[x].class, w \in DOMAIN scan.reg PROVE FALSE
      OBVIOUS
    <3>2. x \in DOMAIN live /\ x \in live[x].class /\ live[w].class = live[x].class
      BY <1>5, <2>1 DEF LiveOK
    <3>3. live[w].class \intersect outs = {}
      BY <2>1, <3>1 DEF Inner
    <3> QED BY <3>1, <3>2, <3>3
  <2>6. \A w \in DOMAIN scan.reg : scan.reg[w] \notin Pool(s)
    <3>1. Pool(s) = Above(n, scan.reg)
      BY <2>3 DEF Pool
    <3>2. \A w \in DOMAIN scan.reg : scan.reg[w] \in 0 .. n - 1
      BY <1>5, <2>1 DEF ScanOK
    <3> QED BY <3>1, <3>2 DEF Above
  <2>7. ScanOK(live, s, Wanted', n)
    <3>1. /\ DOMAIN scan.reg \subseteq DOMAIN live
          /\ \A v \in DOMAIN scan.reg : scan.reg[v] \in 0 .. n - 1
          /\ \A v \in DOMAIN scan.reg : \A w \in live[v].class :
               w \in DOMAIN scan.reg /\ scan.reg[w] = scan.reg[v]
          /\ RegistersApart(live, scan.reg)
      BY <1>5, <2>1 DEF ScanOK
    <3>2. s.free \subseteq 0 .. n - 1
      BY <2>3 DEF Above
    <3>3. Wanted' \subseteq DOMAIN live /\ \A x \in Wanted' : \A w \in live[x].class : w \notin DOMAIN s.reg
      BY <1>5, <2>1, <2>3, <2>4, <2>5
    <3> HIDE DEF s, live, outs
    <3> QED BY <2>3, <2>6, <3>1, <3>2, <3>3 DEF ScanOK
  <2>8. RegistersApart(live, s.reg) /\ \A v \in DOMAIN s.reg : s.reg[v] \in 0 .. n - 1
    BY <2>7 DEF ScanOK
  <2> HIDE DEF s
  <2> QED BY <1>1, <1>5, <2>1, <2>2, <2>3, <2>7, <2>8 DEF ScanInv, SpillsWhenFull, s
<1>10. CASE Convert
  <2>1. Allocating /\ phase = "scan" /\ Wanted = {} /\ scan' = scan /\ phase' \in {"run", "illegal"}
    BY <1>10 DEF Convert
  <2>2. /\ DOMAIN scan.reg \subseteq DOMAIN live
        /\ \A v \in DOMAIN scan.reg : \A w \in live[v].class : w \in DOMAIN scan.reg
    BY <1>5, <2>1 DEF ScanOK
  <2>3. Candidates("scan") \subseteq DOMAIN scan.reg
    BY <1>5, <2>1
  <2>4. DOMAIN scan.reg = DOMAIN live
    <3>1. CASE ~mode.separate
      BY <2>2, <2>3, <3>1 DEF Candidates
    <3>2. CASE mode.separate
      <4>1. SUFFICES ASSUME NEW v \in DOMAIN live PROVE v \in DOMAIN scan.reg
        BY <2>2
      <4>2. CASE live[v].class \intersect outs = {}
        BY <2>1, <3>2, <4>2 DEF ScanInv, Inner
      <4>3. CASE live[v].class \intersect outs # {}
        <5>1. PICK x \in live[v].class : x \in outs
          BY <4>3
        <5>2. x \in DOMAIN scan.reg
          BY <2>3, <3>2, <5>1 DEF Candidates
        <5>3. live[x].class = live[v].class /\ v \in live[v].class
          BY <1>5, <2>1, <5>1 DEF LiveOK
        <5> QED BY <2>2, <5>2, <5>3
      <4> QED BY <4>2, <4>3
    <3> QED BY <3>1, <3>2
  <2> QED BY <1>1, <1>5, <2>1, <2>4 DEF ScanInv, SpillsWhenFull
<1>11. CASE TraceNewRoot \/ TraceSameRoot \/ TraceSameResult \/ TraceUnary \/ TraceBinary \/ TraceBroadcast
  BY <1>3, <1>11 DEF TraceNewRoot, TraceSameRoot, TraceSameResult, TraceUnary, TraceBinary,
                     TraceBroadcast, Tracing
<1>12. CASE MathStep \/ PackStep
  BY <1>3, <1>12 DEF MathStep, PackStep, Acquire, CopyTile, Bcast, Compute, Commit, Wait, Pack,
                     Release, Runs
<1>13. CASE UNCHANGED vars
  BY <1>3, <1>13 DEF vars
<1> QED BY <1>4, <1>7, <1>8, <1>9, <1>10, <1>11, <1>12, <1>13 DEF Next

\* Values whose intervals overlap, and that were not merged, have different
\* registers, all of them registers that DST has, and what is run has one for
\* every value of its body (TTLAssignDST.cpp:521-597, 643-690).
THEOREM RegistersSound ==
  Spec => [](/\ RegistersApart(body.live, scan.reg)
             /\ \A v \in DOMAIN scan.reg : scan.reg[v] \in 0 .. mode.capacity - 1
             /\ phase = "run" => DOMAIN scan.reg = DOMAIN body.live)
<1>1. ScanInv => /\ RegistersApart(body.live, scan.reg)
                 /\ \A v \in DOMAIN scan.reg : scan.reg[v] \in 0 .. mode.capacity - 1
                 /\ phase = "run" => DOMAIN scan.reg = DOMAIN body.live
  BY DEF ScanInv
<1> QED BY <1>1, ScanInit, ScanStep, PTL DEF Spec

\* The compiler gives up only when more values are live at the start of one of
\* them than there are registers (TTLAssignDST.cpp:621).
THEOREM GivesUpOnlyWhenFull == Spec => []SpillsWhenFull
<1>1. ScanInv => SpillsWhenFull
  BY DEF ScanInv
<1> QED BY <1>1, ScanInit, ScanStep, PTL DEF Spec
=============================================================================
