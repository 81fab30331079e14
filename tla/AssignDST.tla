----------------------------- MODULE AssignDST ------------------------------
(***************************************************************************)
(* Assignment of DST registers to the values of a ttl.compute body         *)
(* (TTLAssignDST.cpp): copies for values that a unary operation would      *)
(* overwrite, live intervals with unary merging, linear scan, and loads of *)
(* the arguments.  The indices of operations are their places in the body. *)
(***************************************************************************)
EXTENDS ComputeBody

CBInput(o)  == o.op \in {"col", "row", "scalar"}   \* TileBcastOp of that type
IsUnary(o)  == o.op \in Unary
Operands(o) == IF CBInput(o) THEN << >> ELSE o.in

-----------------------------------------------------------------------------
(* Phase 1: insertCopiesForMultiConsumerValues.                            *)

\* How often operation k consumes v, and the operations that do.
Times(ops, v, k) == Cardinality({i \in DOMAIN Operands(ops[k]) : ops[k].in[i] = v})
Uses(ops, v)     == {k \in DOMAIN ops : Times(ops, v, k) > 0}

NeedsCopies(ops, v) ==
  /\ \/ Cardinality(Uses(ops, v)) > 1
     \/ \E k \in Uses(ops, v) : Times(ops, v, k) > 1
  /\ \E k \in Uses(ops, v) : IsUnary(ops[k])

\* Each use gets a copy but the last.
Copies(ops, v, k) ==
  IF k \notin Uses(ops, v) \/ ~NeedsCopies(ops, v) THEN 0
  ELSE IF k = Max(Uses(ops, v)) THEN Times(ops, v, k) - 1 ELSE Times(ops, v, k)

Copy(v, k, i) == <<"copy", v, k, i>>

\* A copy_tile of an argument comes with the constants of its indices.
CopyOps(v, k, i) ==
  IF IsArg(v)
  THEN <<Operation("constant", << >>, NoValue), Operation("copy_tile", <<v>>, Copy(v, k, i))>>
  ELSE <<Operation("copy_dst", <<v>>, Copy(v, k, i))>>

\* replaceUsesOfWith: the first copy for an operation takes all its uses.
InsertCopies(ops, args) ==
  LET values   == [n \in 1 .. args |-> Arg(n)] \o
                  [k \in 1 .. Cardinality({j \in DOMAIN ops : ops[j].out # NoValue}) |-> Result(k)]
      before(k) == FlattenSeq([j \in 1 .. Len(values) |->
        FlattenSeq([i \in 1 .. Copies(ops, values[j], k) |-> CopyOps(values[j], k, i)])])
      now(k, v) == IF Copies(ops, v, k) > 0 THEN Copy(v, k, 1) ELSE v
  IN FlattenSeq([k \in DOMAIN ops |->
       before(k) \o <<[ops[k] EXCEPT !.in = [i \in DOMAIN @ |-> now(k, @[i])]]>>])

-----------------------------------------------------------------------------
(* Phase 2: buildLiveIntervals.                                            *)

Values(ops) ==
  (UNION {ToSet(Operands(ops[k])) \union {ops[k].out} : k \in DOMAIN ops}) \ {NoValue}

\* A result starts at its operation, an argument just before its first use.
Interval(ops, v) ==
  LET def == {k \in DOMAIN ops : ops[k].out = v}
  IN [start |-> IF def = {} THEN Min(Uses(ops, v)) - 1 ELSE Min(def),
      end   |-> Max(Uses(ops, v) \union def)]

\* Values get their intervals in order: as operands of an operation, then as
\* its result.
Met(ops, v) ==
  LET k == Min({j \in DOMAIN ops : v \in ToSet(Operands(ops[j])) \union {ops[j].out}})
  IN <<k, IF ops[k].out = v THEN 3 ELSE Min({i \in DOMAIN ops[k].in : ops[k].in[i] = v})>>

Yielded(ops) == {Last(ops).in[i] : i \in 1 .. Len(Last(ops).in)}

Merges(ops, k) ==
  /\ IsUnary(ops[k])
  /\ \/ ops[k].out \in Yielded(ops)
     \/ \A j \in Uses(ops, ops[k].out) : IsUnary(ops[j])

\* Merged values become one class.
Merged(ops) == {{ops[k].in[1], ops[k].out} : k \in {j \in DOMAIN ops : Merges(ops, j)}}
Join(class, pair) ==
  LET both == UNION {class[v] : v \in pair}
  IN [v \in DOMAIN class |-> IF v \in both THEN both ELSE class[v]]

\* Classes(ops)[v]: v and the values merged with it, which have one interval.
Classes(ops) ==
  FoldSet(LAMBDA pair, class : Join(class, pair), [v \in Values(ops) |-> {v}], Merged(ops))

Live(ops) ==
  LET class == Classes(ops)
  IN [v \in Values(ops) |->
        [class |-> class[v], met |-> Met(ops, v),
         start |-> Min({Interval(ops, w).start : w \in class[v]}),
         end   |-> Max({Interval(ops, w).end : w \in class[v]})]]

-----------------------------------------------------------------------------
(* Phases 3 and 4: linearScanAllocateFiltered, one interval.               *)

\* Intervals are sorted by their start; values with one start stay in order
\* (std::sort inserts when there are at most sixteen).
Before(live, v, w) ==
  \/ live[v].start < live[w].start
  \/ live[v].start = live[w].start /\ live[v].met[1] < live[w].met[1]
  \/ live[v].start = live[w].start /\ live[v].met[1] = live[w].met[1]
     /\ live[v].met[2] < live[w].met[2]

First(live, values) == CHOOSE v \in values : \A w \in values \ {v} : Before(live, v, w)

\* With a separate output region, outputs and what is merged with them wait;
\* then the outputs get registers above all the others.
Inner(live, yielded) == {v \in DOMAIN live : live[v].class \cap yielded = {}}
Above(capacity, reg) == {r \in 0 .. capacity - 1 : \A v \in DOMAIN reg : r > reg[v]}

\* Mutants: an interval gives its register away one operation early, or late.
ExpiredEarly(live, w, v) == live[w].end <= live[v].start + 1
ExpiredLate(live, w, v)  == live[w].end < live[v].start

Expired(live, w, v) == live[w].end <= live[v].start

\* The scan: free registers, values whose intervals are active, registers.
NoScan(capacity) == [free |-> 0 .. capacity - 1, active |-> {}, reg |-> [v \in {} |-> 0]]

Over(live, s, v) == {w \in s.active : Expired(live, w, v)}
Open(live, s, v) == s.free \union {s.reg[w] : w \in Over(live, s, v)}

Allocated(live, s, v) ==
  LET r == Min(Open(live, s, v))
  IN [free |-> Open(live, s, v) \ {r}, active |-> (s.active \ Over(live, s, v)) \union {v},
      reg |-> [w \in DOMAIN s.reg \union live[v].class |->
                 IF w \in DOMAIN s.reg THEN s.reg[w] ELSE r]]

\* More values are live at the start of one of them than there are registers.
Overfull(live, capacity) ==
  \E v \in DOMAIN live :
    Cardinality({live[w].class : w \in {u \in DOMAIN live :
      live[u].start <= live[v].start /\ live[v].start < live[u].end} \union {v}}) > capacity

-----------------------------------------------------------------------------
\* Arguments loaded before operation k: those it is the first to use from DST.
Loads(ops, k) ==
  LET uses(j, v) == ops[j].op # "copy_tile" /\ Contains(Operands(ops[j]), v)
      fresh(i)   == /\ IsArg(ops[k].in[i]) /\ uses(k, ops[k].in[i])
                    /\ \A j \in 1 .. k - 1 : ~uses(j, ops[k].in[i])
                    /\ \A j \in 1 .. i - 1 : ops[k].in[j] # ops[k].in[i]
  IN FlattenSeq([i \in DOMAIN ops[k].in |-> IF fresh(i) THEN <<ops[k].in[i]>> ELSE << >>])
=============================================================================
