----------------------------- MODULE Induction ------------------------------
(***************************************************************************)
(* Induction over numbers and finite sets, stated about sets instead of    *)
(* predicates: what is to be proved is a set, and the theorem says that it *)
(* holds every case.  From it: that recursive functions exist, and what    *)
(* folds and flattened sequences consist of.                               *)
(***************************************************************************)
EXTENDS Integers, FiniteSets, SequencesExt, FiniteSetTheorems, SequenceTheorems,
        WellFoundedInduction, TLAPS

-----------------------------------------------------------------------------
(* Numbers.                                                                *)

\* A nonempty set of natural numbers has a least element: else the intervals
\* below its elements would shrink forever.
LEMMA LeastElement ==
  ASSUME NEW T \in SUBSET Nat, T # {}
  PROVE  \E m \in T : \A k \in T : m <= k
<1>1. PICK n \in T : TRUE
  OBVIOUS
<1> DEFINE S == 0 .. n
           U == {0 .. k : k \in {j \in T : j <= n}}
<1>2. IsFiniteSet(S)
  BY FS_Interval
<1>3. IsWellFoundedOn(StrictSubsetOrdering(S), FiniteSubsetsOf(S))
  BY <1>2, FS_StrictSubsetOrderingWellFounded, FS_FiniteSubsetsOfFinite
<1>4. U \subseteq FiniteSubsetsOf(S) /\ U # {}
  <2>1. ASSUME NEW k \in T, k <= n PROVE 0 .. k \in FiniteSubsetsOf(S)
    <3>1. IsFiniteSet(0 .. k) /\ 0 .. k \subseteq S
      BY <2>1, FS_Interval
    <3> QED BY <3>1 DEF FiniteSubsetsOf
  <2>2. 0 .. n \in U
    BY <1>1
  <2> QED BY <2>1, <2>2
<1>5. PICK X \in U : \A Y \in U : ~(<<Y, X>> \in StrictSubsetOrdering(S))
  <2> HIDE DEF U, S
  <2> QED BY <1>3, <1>4, WFMin
<1>6. PICK m \in T : m <= n /\ X = 0 .. m
  BY <1>5
<1>7. ASSUME NEW k \in T, k < m PROVE FALSE
  <2>1. k <= n /\ 0 .. k \in U
    BY <1>6, <1>7
  <2>2. 0 .. k \subseteq 0 .. m /\ m \notin 0 .. k /\ m \in 0 .. m
    BY <1>7
  <2>3. 0 .. k \subseteq S /\ 0 .. m \subseteq S
    BY <1>6, <2>1
  <2>4. <<0 .. k, X>> \in StrictSubsetOrdering(S)
    BY <1>6, <2>2, <2>3 DEF StrictSubsetOrdering
  <2> QED BY <2>4, <2>1, <1>5
<1> QED BY <1>7

\* A set that holds zero, and with a number the next one, holds all.
LEMMA NumberInduction ==
  ASSUME NEW S, 0 \in S, \A n \in Nat : n \in S => n + 1 \in S
  PROVE  Nat \subseteq S
<1> DEFINE T == {n \in Nat : n \notin S}
<1>1. SUFFICES ASSUME T # {} PROVE FALSE
  OBVIOUS
<1>2. PICK m \in T : \A k \in T : m <= k
  BY <1>1, LeastElement
<1>3. m \in Nat /\ m # 0 /\ m - 1 \in Nat /\ m - 1 \notin T
  BY <1>2
<1> QED BY <1>3

\* A nonempty set of numbers has a least element, its Min.
LEMMA MinIs ==
  ASSUME NEW T \in SUBSET Nat, T # {}
  PROVE  Min(T) \in T /\ \A k \in T : Min(T) <= k
BY LeastElement DEF Min

\* A bounded nonempty set of numbers has a greatest element, its Max.
LEMMA MaxIs ==
  ASSUME NEW T \in SUBSET Nat, T # {}, NEW n \in Nat, \A k \in T : k <= n
  PROVE  Max(T) \in T /\ \A k \in T : k <= Max(T)
<1> DEFINE U == {j \in Nat : \E k \in T : j = n - k}
<1>1. U \in SUBSET Nat /\ U # {}
  <2>1. PICK k \in T : TRUE
    OBVIOUS
  <2>2. n - k \in U
    BY <2>1
  <2> QED BY <2>2
<1>2. PICK j \in U : \A i \in U : j <= i
  BY <1>1, LeastElement
<1>3. PICK m \in T : j = n - m
  BY <1>2
<1>4. ASSUME NEW k \in T PROVE m >= k
  <2>1. n - k \in U
    OBVIOUS
  <2> QED BY <1>2, <1>3, <2>1
<1> QED BY <1>3, <1>4 DEF Max

-----------------------------------------------------------------------------
(* Finite sets.                                                            *)

\* A nonempty set of subsets of a finite set has a smallest member.
LEMMA SmallestSubset ==
  ASSUME NEW S, IsFiniteSet(S), NEW W \in SUBSET (SUBSET S), W # {}
  PROVE  \E X \in W : \A Y \in W : Y \subseteq X => Y = X
<1>1. IsWellFoundedOn(StrictSubsetOrdering(S), SUBSET S)
  BY FS_StrictSubsetOrderingWellFounded, FS_FiniteSubsetsOfFinite
<1>2. PICK X \in W : \A Y \in W : ~(<<Y, X>> \in StrictSubsetOrdering(S))
  BY <1>1, WFMin
<1>3. ASSUME NEW Y \in W, Y \subseteq X, Y # X PROVE FALSE
  BY <1>2, <1>3 DEF StrictSubsetOrdering
<1> QED BY <1>3

\* What holds of the empty set, and of every subset T of S as soon as it holds
\* of T without some element of it, holds of S.
LEMMA SubsetInduction ==
  ASSUME NEW S, IsFiniteSet(S), NEW F, {} \in F,
         \A T \in SUBSET S : T # {} => \E x \in T : T \ {x} \in F => T \in F
  PROVE  S \in F
<1> DEFINE W == {T \in SUBSET S : T \notin F}
<1>1. SUFFICES ASSUME W # {} PROVE FALSE
  <2>1. S \in SUBSET S
    OBVIOUS
  <2> QED BY <2>1, Zenon
<1>2. PICK X \in W : \A Y \in W : Y \subseteq X => Y = X
  <2>1. W \in SUBSET (SUBSET S)
    OBVIOUS
  <2> HIDE DEF W
  <2> QED BY <1>1, <2>1, SmallestSubset
<1>3. PICK x \in X : X \ {x} \in F => X \in F
  BY <1>2
<1>4. X \ {x} \notin W
  BY <1>2, <1>3
<1> QED BY <1>2, <1>3, <1>4

\* The values of a function on a finite set are finitely many.
LEMMA ImageFinite ==
  ASSUME NEW S, IsFiniteSet(S), NEW f, S = DOMAIN f
  PROVE  IsFiniteSet({f[x] : x \in S}) /\ Cardinality({f[x] : x \in S}) <= Cardinality(S)
<1> DEFINE T == {f[x] : x \in S}
           h == [x \in S |-> f[x]]
<1>1. h \in Surjection(S, T)
  BY DEF Surjection
<1> HIDE DEF T, h
<1>2. IsFiniteSet(T) /\ Cardinality(T) <= Cardinality(S)
  BY <1>1, FS_Surjection
<1> QED BY <1>2 DEF T
-----------------------------------------------------------------------------
(* Folds.  A fold over a set calls the step G with the element that ch     *)
(* takes from the set and the result for the rest.                         *)

\* g gives the folds of the subsets of U.
Folds(g, U, V, b, ch, G) ==
  /\ g \in [SUBSET U -> V]
  /\ \A T \in SUBSET U : g[T] = IF T = {} THEN b ELSE G[<<ch[T], g[T \ {ch[T]}]>>]

\* The result of a fold is determined by its steps.
LEMMA FoldUnique ==
  ASSUME NEW S, IsFiniteSet(S), NEW V, NEW b, NEW G, NEW ch,
         \A T \in SUBSET S : T # {} => ch[T] \in T,
         NEW U \in SUBSET S, NEW W \in SUBSET S, NEW g, NEW h,
         Folds(g, U, V, b, ch, G), Folds(h, W, V, b, ch, G),
         NEW T \in SUBSET (U \intersect W)
  PROVE  g[T] = h[T]
<1> DEFINE F == {X \in SUBSET T : g[X] = h[X]}
<1>1. IsFiniteSet(T)
  BY FS_Subset
<1>2. {} \in F
  BY DEF Folds
<1>3. ASSUME NEW X \in SUBSET T, X # {} PROVE \E x \in X : X \ {x} \in F => X \in F
  <2>1. ch[X] \in X
    BY <1>3
  <2>2. ASSUME X \ {ch[X]} \in F PROVE X \in F
    BY <1>3, <2>2 DEF Folds
  <2> QED BY <2>1, <2>2
<1>4. T \in F
  <2> HIDE DEF F
  <2> QED BY <1>1, <1>2, <1>3, SubsetInduction
<1> QED BY <1>4

\* Every fold of a finite set has a result.
LEMMA FoldExists ==
  ASSUME NEW S, IsFiniteSet(S), NEW V, NEW b \in V, NEW ch, NEW G \in [S \X V -> V],
         \A T \in SUBSET S : T # {} => ch[T] \in T
  PROVE  \E f : Folds(f, S, V, b, ch, G)
<1> DEFINE W == {T \in SUBSET S : ~\E g : Folds(g, T, V, b, ch, G)}
<1>1. SUFFICES ASSUME W # {} PROVE FALSE
  <2>1. S \in SUBSET S
    OBVIOUS
  <2> QED BY <2>1, Zenon
<1>2. PICK X \in W : \A Y \in W : Y \subseteq X => Y = X
  <2>1. W \in SUBSET (SUBSET S)
    OBVIOUS
  <2> HIDE DEF W
  <2> QED BY <1>1, <2>1, SmallestSubset
<1> DEFINE of(T) == CHOOSE g : Folds(g, T, V, b, ch, G)
           rest(T) == T \ {ch[T]}
           h == [T \in SUBSET X |->
                   IF T # X THEN of(T)[T]
                   ELSE IF X = {} THEN b ELSE G[<<ch[X], of(rest(X))[rest(X)]>>]]
<1>3. X \in SUBSET S
  OBVIOUS
<1>4. ASSUME NEW T \in SUBSET X, T # X PROVE Folds(of(T), T, V, b, ch, G)
  <2>1. \E g : Folds(g, T, V, b, ch, G)
    BY <1>2, <1>4
  <2> QED BY <2>1, Zenon
<1>5. ASSUME NEW T \in SUBSET X, T # {}
      PROVE  rest(T) \in SUBSET T /\ rest(T) # T /\ ch[T] \in T /\ ch[T] \in S
  BY <1>3, <1>5
<1> HIDE DEF of, W
<1>6. h \in [SUBSET X -> V]
  <2>1. ASSUME NEW T \in SUBSET X, T # X PROVE of(T)[T] \in V
    BY <1>4, <2>1, ZenonT(40) DEF Folds
  <2>2. ASSUME X # {} PROVE G[<<ch[X], of(rest(X))[rest(X)]>>] \in V
    BY <1>5, <2>1, <2>2
  <2> HIDE DEF rest
  <2> QED BY <2>1, <2>2
<1>7. ASSUME NEW T \in SUBSET X
      PROVE  h[T] = IF T = {} THEN b ELSE G[<<ch[T], h[T \ {ch[T]}]>>]
  <2>1. CASE T = {}
    <3>1. T # X => of(T)[T] = b
      BY <1>4, <2>1 DEF Folds
    <3> QED BY <2>1, <3>1
  <2>2. CASE T # {} /\ T = X
    <3>1. h[X] = G[<<ch[X], of(rest(X))[rest(X)]>>]
      BY <2>2
    <3>2. h[rest(X)] = of(rest(X))[rest(X)]
      BY <1>5, <2>2
    <3> QED BY <2>2, <3>1, <3>2
  <2>3. CASE T # {} /\ T # X
    <3>1. Folds(of(T), T, V, b, ch, G)
      BY <1>4, <2>3
    <3>2. rest(T) \in SUBSET X /\ rest(T) # X /\ rest(T) \in SUBSET T
      BY <1>5, <2>3
    <3>3. Folds(of(rest(T)), rest(T), V, b, ch, G)
      BY <1>4, <3>2
    <3>4. of(T)[rest(T)] = of(rest(T))[rest(T)]
      <4>1. T \in SUBSET S /\ rest(T) \in SUBSET S /\ rest(T) \in SUBSET (T \intersect rest(T))
        BY <1>3, <3>2
      <4> HIDE DEF rest
      <4> QED BY <3>1, <3>3, <4>1, FoldUnique
    <3>5. of(T)[T] = G[<<ch[T], of(T)[rest(T)]>>]
      BY <2>3, <3>1 DEF Folds
    <3>6. h[T] = of(T)[T] /\ h[rest(T)] = of(rest(T))[rest(T)]
      BY <2>3, <3>2
    <3> QED BY <2>3, <3>4, <3>5, <3>6
  <2> QED BY <2>1, <2>2, <2>3
<1>8. Folds(h, X, V, b, ch, G)
  <2> HIDE DEF h
  <2> QED BY <1>6, <1>7 DEF Folds
<1> QED BY <1>8 DEF W
-----------------------------------------------------------------------------
(* FlattenSeq.                                                             *)

\* g[i] is the concatenation of the first i of the sequences ss.
Joined(g, ss, n, S) ==
  /\ g \in [1 .. n -> Seq(S)]
  /\ \A i \in 1 .. n : g[i] = IF i = 1 THEN ss[i] ELSE g[i - 1] \o ss[i]

\* There are such concatenations.
LEMMA JoinedExist ==
  ASSUME NEW S, NEW ss \in Seq(Seq(S))
  PROVE  \E g : Joined(g, ss, Len(ss), S)
<1> DEFINE L == Len(ss)
           P == {n \in Nat : n <= L => \E g : Joined(g, ss, n, S)}
<1>1. L \in Nat /\ \A i \in 1 .. L : ss[i] \in Seq(S)
  BY LenProperties
<1> HIDE DEF L
<1>2. 0 \in P
  <2>1. Joined([i \in 1 .. 0 |-> << >>], ss, 0, S)
    BY DEF Joined
  <2> QED BY <2>1
<1>3. ASSUME NEW n \in Nat, n \in P PROVE n + 1 \in P
  <2>1. SUFFICES ASSUME n + 1 <= L PROVE \E g : Joined(g, ss, n + 1, S)
    OBVIOUS
  <2>2. PICK g : Joined(g, ss, n, S)
    BY <1>1, <1>3, <2>1
  <2> DEFINE h == [i \in 1 .. n + 1 |->
                     IF i <= n THEN g[i] ELSE IF i = 1 THEN ss[1] ELSE g[n] \o ss[n + 1]]
  <2>3. n # 0 => g[n] \o ss[n + 1] \in Seq(S)
    BY <1>1, <2>1, <2>2, ConcatProperties DEF Joined
  <2>4. ASSUME NEW i \in 1 .. n + 1 PROVE h[i] \in Seq(S)
    BY <1>1, <2>1, <2>2, <2>3 DEF Joined
  <2>5. ASSUME NEW i \in 1 .. n + 1
        PROVE  h[i] = IF i = 1 THEN ss[i] ELSE h[i - 1] \o ss[i]
    <3>1. CASE i <= n
      <4>1. i \in 1 .. n /\ h[i] = g[i] /\ (i # 1 => i - 1 \in 1 .. n /\ h[i - 1] = g[i - 1])
        BY <3>1
      <4> QED BY <2>2, <4>1, Zenon DEF Joined
    <3>2. CASE i = n + 1
      BY <2>2, <3>2 DEF Joined
    <3> QED BY <3>1, <3>2
  <2>6. Joined(h, ss, n + 1, S)
    <3>1. h \in [1 .. n + 1 -> Seq(S)]
      BY <2>4
    <3> HIDE DEF h
    <3> QED BY <2>5, <3>1 DEF Joined
  <2> QED BY <2>6
<1>4. L \in P
  <2> HIDE DEF P
  <2> QED BY <1>1, <1>2, <1>3, NumberInduction
<1> QED BY <1>1, <1>4 DEF L

\* FlattenSeq(ss) is the concatenation of all of them.
LEMMA FlattenIsJoined ==
  ASSUME NEW S, NEW ss \in Seq(Seq(S)), Len(ss) # 0
  PROVE  \E g : Joined(g, ss, Len(ss), S) /\ FlattenSeq(ss) = g[Len(ss)]
<1> DEFINE L == Len(ss)
           all == CHOOSE f : f = [i \in 1 .. L |->
                                    IF i = 1 THEN ss[i] ELSE f[i - 1] \o ss[i]]
<1>1. L \in Nat /\ L # 0
  BY LenProperties
<1>2. PICK g : Joined(g, ss, L, S)
  BY JoinedExist
<1>3. FlattenSeq(ss) = all[L]
  BY <1>1 DEF FlattenSeq
<1>4. all = [i \in 1 .. L |-> IF i = 1 THEN ss[i] ELSE all[i - 1] \o ss[i]]
  <2>1. g = [i \in 1 .. L |-> IF i = 1 THEN ss[i] ELSE g[i - 1] \o ss[i]]
    BY <1>2 DEF Joined
  <2> HIDE DEF L
  <2> QED BY <2>1, Zenon
<1> DEFINE P == {n \in Nat : n + 1 <= L => all[n + 1] = g[n + 1]}
<1> HIDE DEF all, L
<1>5. 0 \in P
  <2>1. 1 \in 1 .. L /\ 0 + 1 = 1
    BY <1>1
  <2>2. all[1] = ss[1] /\ g[1] = ss[1]
    BY <1>2, <1>4, <2>1, Zenon DEF Joined
  <2> QED BY <2>1, <2>2
<1>6. ASSUME NEW n \in Nat, n \in P PROVE n + 1 \in P
  <2>1. SUFFICES ASSUME n + 2 <= L PROVE all[n + 2] = g[n + 2]
    OBVIOUS
  <2>2. all[n + 1] = g[n + 1] /\ n + 2 \in 1 .. L /\ (n + 2) - 1 = n + 1 /\ n + 2 # 1
    BY <1>1, <1>6, <2>1
  <2>3. all[n + 2] = all[(n + 2) - 1] \o ss[n + 2] /\ g[n + 2] = g[(n + 2) - 1] \o ss[n + 2]
    BY <1>2, <1>4, <2>2, Zenon DEF Joined
  <2> QED BY <2>2, <2>3
<1>7. L - 1 \in P
  <2>1. L - 1 \in Nat
    BY <1>1
  <2> HIDE DEF P
  <2> QED BY <2>1, <1>1, <1>5, <1>6, NumberInduction
<1>8. all[L] = g[L]
  BY <1>1, <1>7
<1> QED BY <1>2, <1>3, <1>8 DEF L

\* What a concatenation consists of.
LEMMA ConcatParts ==
  ASSUME NEW S, NEW f \in Seq(S), NEW s \in Seq(S)
  PROVE  /\ f \o s \in Seq(S) /\ Len(f \o s) = Len(f) + Len(s)
         /\ \A p \in 1 .. Len(f) : p \in 1 .. Len(f \o s) /\ (f \o s)[p] = f[p]
         /\ \A j \in 1 .. Len(s) :
              Len(f) + j \in 1 .. Len(f \o s) /\ (f \o s)[Len(f) + j] = s[j]
         /\ \A p \in 1 .. Len(f \o s) :
              p \in 1 .. Len(f) \/ \E j \in 1 .. Len(s) : p = Len(f) + j
<1> DEFINE a == Len(f)
           b == Len(s)
           t == f \o s
<1>1. a \in Nat /\ b \in Nat
  BY LenProperties
<1>2. t \in Seq(S) /\ Len(t) = a + b
      /\ \A p \in 1 .. a + b : t[p] = IF p <= a THEN f[p] ELSE s[p - a]
  BY ConcatProperties
<1> HIDE DEF a, b, t
<1>3. \A p \in 1 .. a : p \in 1 .. a + b /\ t[p] = f[p]
  BY <1>1, <1>2
<1>4. ASSUME NEW j \in 1 .. b PROVE a + j \in 1 .. a + b /\ t[a + j] = s[j]
  <2>1. a + j \in 1 .. a + b /\ ~(a + j <= a) /\ (a + j) - a = j
    BY <1>1
  <2> QED BY <1>2, <2>1
<1>5. ASSUME NEW p \in 1 .. a + b, p \notin 1 .. a PROVE \E j \in 1 .. b : p = a + j
  <2>1. p - a \in 1 .. b /\ p = a + (p - a)
    BY <1>1, <1>5
  <2> QED BY <2>1
<1> QED BY <1>2, <1>3, <1>4, <1>5 DEF a, b, t

\* Where the sequences ss begin in FlattenSeq(ss), off[i] for the i-th, which
\* consists of them and nothing else.
Layout(off, ss, flat) ==
  /\ off \in [1 .. Len(ss) + 1 -> Nat] /\ off[1] = 0
  /\ \A i \in 1 .. Len(ss) : off[i + 1] = off[i] + Len(ss[i])
  /\ Len(flat) = off[Len(ss) + 1]
  /\ \A i \in 1 .. Len(ss) : \A j \in 1 .. Len(ss[i]) :
       off[i] + j \in 1 .. Len(flat) /\ flat[off[i] + j] = ss[i][j]
  /\ \A p \in 1 .. Len(flat) : \E i \in 1 .. Len(ss) : \E j \in 1 .. Len(ss[i]) : p = off[i] + j

\* Every flattened sequence has such a layout.
LEMMA FlattenLayout ==
  ASSUME NEW S, NEW ss \in Seq(Seq(S))
  PROVE  FlattenSeq(ss) \in Seq(S) /\ \E off : Layout(off, ss, FlattenSeq(ss))
<1> DEFINE L == Len(ss)
<1>1. L \in Nat /\ \A i \in 1 .. L : ss[i] \in Seq(S) /\ Len(ss[i]) \in Nat
  BY LenProperties
<1>2. CASE L = 0
  <2>1. FlattenSeq(ss) = << >>
    BY <1>2, EmptySeq DEF FlattenSeq
  <2>2. Layout([i \in 1 .. 1 |-> 0], ss, << >>)
    BY <1>2 DEF Layout
  <2> QED BY <2>1, <2>2
<1>3. CASE L # 0
  <2>1. PICK g : Joined(g, ss, L, S) /\ FlattenSeq(ss) = g[L]
    BY <1>3, FlattenIsJoined
  <2> DEFINE off == [i \in 1 .. L + 1 |-> IF i = 1 THEN 0 ELSE Len(g[i - 1])]
             Upto(n) == /\ \A i \in 1 .. n : \A j \in 1 .. Len(ss[i]) :
                             off[i] + j \in 1 .. Len(g[n]) /\ g[n][off[i] + j] = ss[i][j]
                        /\ \A p \in 1 .. Len(g[n]) :
                             \E i \in 1 .. n : \E j \in 1 .. Len(ss[i]) : p = off[i] + j
             P == {n \in Nat : n + 1 <= L => Upto(n + 1)}
  <2>2. \A i \in 1 .. L : g[i] \in Seq(S) /\ Len(g[i]) \in Nat
    BY <2>1, LenProperties DEF Joined
  <2>3. off \in [1 .. L + 1 -> Nat] /\ off[1] = 0 /\ off[L + 1] = Len(g[L])
    BY <1>1, <1>3, <2>2
  <2>4. g[1] = ss[1] /\ \A i \in 2 .. L : g[i] = g[i - 1] \o ss[i]
    <3>1. 1 \in 1 .. L /\ \A i \in 2 .. L : i \in 1 .. L /\ i # 1
      BY <1>1, <1>3
    <3> HIDE DEF L
    <3> QED BY <2>1, <3>1, Zenon DEF Joined
  <2>5. ASSUME NEW i \in 1 .. L PROVE off[i + 1] = off[i] + Len(ss[i])
    <3>1. off[i + 1] = Len(g[i])
      BY <1>1
    <3>2. CASE i = 1
      BY <2>3, <2>4, <3>1, <3>2
    <3>3. CASE i # 1
      <4>1. off[i] = Len(g[i - 1]) /\ g[i] = g[i - 1] \o ss[i] /\ i - 1 \in 1 .. L
        <5>1. i \in 2 .. L /\ i \in 1 .. L + 1
          BY <1>1, <3>3
        <5>2. i - 1 \in 1 .. L
          BY <5>1, <1>1
        <5> QED BY <2>4, <5>1, <5>2, <3>3
      <4>2. Len(g[i]) = Len(g[i - 1]) + Len(ss[i])
        BY <1>1, <2>2, <4>1, ConcatProperties
      <4> QED BY <3>1, <4>1, <4>2
    <3> QED BY <3>2, <3>3
  <2> HIDE DEF L, off
  <2>6. 0 \in P
    <3>1. \A j \in 1 .. Len(ss[1]) : off[1] + j = j
      BY <1>1, <1>3, <2>3
    <3> QED BY <1>1, <1>3, <2>3, <2>4, <3>1, SMTT(30)
  <2>7. ASSUME NEW n \in Nat, n \in P PROVE n + 1 \in P
    <3>1. SUFFICES ASSUME n + 2 <= L PROVE Upto(n + 2)
      OBVIOUS
    <3>2. Upto(n + 1) /\ n + 1 \in 1 .. L /\ n + 2 \in 1 .. L /\ n + 2 \in 1 .. L + 1
      BY <1>1, <2>7, <3>1
    <3>3. g[n + 2] = g[n + 1] \o ss[n + 2]
      <4>1. n + 2 \in 2 .. L /\ (n + 2) - 1 = n + 1
        BY <1>1, <3>1
      <4> QED BY <2>4, <4>1
    <3>4. off[n + 2] = Len(g[n + 1])
      BY <3>2, <1>1 DEF off
    <3>5. g[n + 1] \in Seq(S) /\ ss[n + 2] \in Seq(S)
      BY <1>1, <2>2, <3>2
    <3> DEFINE f == g[n + 1]
               s == ss[n + 2]
               t == g[n + 2]
    <3>6. /\ \A p \in 1 .. Len(f) : p \in 1 .. Len(t) /\ t[p] = f[p]
          /\ \A j \in 1 .. Len(s) : Len(f) + j \in 1 .. Len(t) /\ t[Len(f) + j] = s[j]
          /\ \A p \in 1 .. Len(t) : p \in 1 .. Len(f) \/ \E j \in 1 .. Len(s) : p = Len(f) + j
      <4>1. t = f \o s
        BY <3>3
      <4> HIDE DEF f, s, t
      <4>2. f \in Seq(S) /\ s \in Seq(S)
        BY <3>5 DEF f, s
      <4> QED BY <4>1, <4>2, ConcatParts
    <3>7. ASSUME NEW i \in 1 .. n + 2, NEW j \in 1 .. Len(ss[i])
          PROVE  off[i] + j \in 1 .. Len(g[n + 2]) /\ g[n + 2][off[i] + j] = ss[i][j]
      <4>1. CASE i \in 1 .. n + 1
        <5>1. off[i] + j \in 1 .. Len(g[n + 1]) /\ g[n + 1][off[i] + j] = ss[i][j]
          BY <3>2, <4>1
        <5> QED BY <3>6, <5>1
      <4>2. CASE i = n + 2
        BY <3>4, <3>6, <4>2
      <4> QED BY <4>1, <4>2
    <3>8. ASSUME NEW p \in 1 .. Len(g[n + 2])
          PROVE  \E i \in 1 .. n + 2 : \E j \in 1 .. Len(ss[i]) : p = off[i] + j
      <4>1. CASE p \in 1 .. Len(g[n + 1])
        <5>1. PICK i \in 1 .. n + 1 : \E j \in 1 .. Len(ss[i]) : p = off[i] + j
          BY <3>2, <4>1
        <5> QED BY <5>1
      <4>2. CASE \E j \in 1 .. Len(ss[n + 2]) : p = Len(g[n + 1]) + j
        BY <3>4, <4>2
      <4> QED BY <3>6, <4>1, <4>2
    <3> QED BY <3>7, <3>8
  <2>8. Upto(L)
    <3>1. L - 1 \in P
      <4>1. L - 1 \in Nat
        BY <1>1, <1>3
      <4> HIDE DEF P
      <4> QED BY <4>1, <1>1, <1>3, <2>6, <2>7, NumberInduction
    <3> QED BY <1>1, <1>3, <3>1
  <2>9. Layout(off, ss, g[L])
    BY <2>3, <2>5, <2>8 DEF Layout, L
  <2> QED BY <1>1, <1>3, <2>1, <2>2, <2>9
<1> QED BY <1>2, <1>3

\* The last of them ends it.
LEMMA FlattenLast ==
  ASSUME NEW S, NEW ss \in Seq(Seq(S)), Len(ss) # 0, Len(ss[Len(ss)]) # 0
  PROVE  Len(FlattenSeq(ss)) \in Nat \ {0} /\ Last(FlattenSeq(ss)) = Last(ss[Len(ss)])
<1> DEFINE L == Len(ss)
           t == FlattenSeq(ss)
           n == Len(ss[L])
<1>1. L \in Nat /\ L # 0 /\ n \in Nat /\ n # 0
  BY LenProperties
<1>2. t \in Seq(S) /\ \E off : Layout(off, ss, t)
  BY FlattenLayout
<1>3. PICK off : Layout(off, ss, t)
  BY <1>2
<1>4. Len(t) \in Nat
  <2> HIDE DEF t
  <2> QED BY <1>2
<1>5. L \in 1 .. L /\ n \in 1 .. n /\ L + 1 \in 1 .. L + 1
  BY <1>1
<1> HIDE DEF t
<1>6. /\ off \in [1 .. L + 1 -> Nat] /\ off[L + 1] = off[L] + n /\ Len(t) = off[L + 1]
      /\ t[off[L] + n] = ss[L][n]
  BY <1>3, <1>5, Zenon DEF Layout
<1>7. off[L] \in Nat
  BY <1>1, <1>6
<1>8. Len(t) = off[L] + n /\ Len(t) # 0
  BY <1>1, <1>6, <1>7
<1>9. Last(t) = Last(ss[L])
  BY <1>6, <1>8 DEF Last
<1> QED BY <1>4, <1>8, <1>9 DEF t

\* No element comes twice.
NoRepeats(s) == \A i, j \in DOMAIN s : s[i] = s[j] => i = j

\* FlattenSeq(ss) has the elements of the sequences ss; none comes twice when
\* none does in one of them, and no two of them share one.
LEMMA FlattenElements ==
  ASSUME NEW S, NEW ss \in Seq(Seq(S))
  PROVE  /\ FlattenSeq(ss) \in Seq(S)
         /\ ToSet(FlattenSeq(ss)) = UNION {ToSet(ss[i]) : i \in 1 .. Len(ss)}
         /\ (/\ \A i \in 1 .. Len(ss) : NoRepeats(ss[i])
             /\ \A i, j \in 1 .. Len(ss) : i # j => ToSet(ss[i]) \intersect ToSet(ss[j]) = {})
            => NoRepeats(FlattenSeq(ss))
<1> DEFINE L == Len(ss)
           t == FlattenSeq(ss)
<1>1. t \in Seq(S) /\ \E off : Layout(off, ss, t)
  BY FlattenLayout
<1>2. PICK off : Layout(off, ss, t)
  BY <1>1
<1>3. DOMAIN t = 1 .. Len(t) /\ \A i \in 1 .. L : DOMAIN ss[i] = 1 .. Len(ss[i])
  BY <1>1, LenProperties
<1> HIDE DEF t
<1>4. \A i \in 1 .. L : \A j \in 1 .. Len(ss[i]) :
        off[i] + j \in 1 .. Len(t) /\ t[off[i] + j] = ss[i][j]
  BY <1>2, Zenon DEF Layout
<1>5. \A p \in 1 .. Len(t) : \E i \in 1 .. L : \E j \in 1 .. Len(ss[i]) :
        p = off[i] + j /\ t[p] = ss[i][j]
  <2>1. ASSUME NEW p \in 1 .. Len(t)
        PROVE  \E i \in 1 .. L : \E j \in 1 .. Len(ss[i]) : p = off[i] + j
    BY <1>2, Zenon DEF Layout
  <2>2. ASSUME NEW p \in 1 .. Len(t)
        PROVE  \E i \in 1 .. L : \E j \in 1 .. Len(ss[i]) : p = off[i] + j /\ t[p] = ss[i][j]
    <3>1. PICK i \in 1 .. L : \E j \in 1 .. Len(ss[i]) : p = off[i] + j
      BY <2>1
    <3>2. PICK j \in 1 .. Len(ss[i]) : p = off[i] + j
      BY <3>1
    <3> QED BY <1>4, <3>2
  <2> QED BY <2>2
<1> HIDE DEF L
<1>6. ToSet(t) = UNION {ToSet(ss[i]) : i \in 1 .. L}
  <2>1. ASSUME NEW e \in ToSet(t) PROVE \E i \in 1 .. L : e \in ToSet(ss[i])
    <3>1. PICK p \in 1 .. Len(t) : e = t[p]
      BY <1>3 DEF ToSet
    <3> QED BY <1>3, <1>5, <3>1, ZenonT(40) DEF ToSet
  <2>2. ASSUME NEW i \in 1 .. L, NEW e \in ToSet(ss[i]) PROVE e \in ToSet(t)
    <3>1. PICK j \in 1 .. Len(ss[i]) : e = ss[i][j]
      BY <1>3 DEF ToSet
    <3> QED BY <1>3, <1>4, <3>1 DEF ToSet
  <2> QED BY <2>1, <2>2
<1>7. ASSUME \A i \in 1 .. L : NoRepeats(ss[i]),
             \A i, j \in 1 .. L : i # j => ToSet(ss[i]) \intersect ToSet(ss[j]) = {},
             NEW p \in 1 .. Len(t), NEW q \in 1 .. Len(t), t[p] = t[q]
      PROVE  p = q
  <2> DEFINE At(i, r) == \E j \in 1 .. Len(ss[i]) : r = off[i] + j /\ t[r] = ss[i][j]
  <2>a. PICK i \in 1 .. L : At(i, p)
    BY <1>5
  <2>b. PICK k \in 1 .. L : At(k, q)
    BY <1>5
  <2>1. PICK j \in 1 .. Len(ss[i]) : p = off[i] + j /\ t[p] = ss[i][j]
    BY <2>a
  <2>2. PICK l \in 1 .. Len(ss[k]) : q = off[k] + l /\ t[q] = ss[k][l]
    BY <2>b
  <2>3. t[p] \in ToSet(ss[i]) /\ t[p] \in ToSet(ss[k])
    BY <1>3, <1>7, <2>1, <2>2 DEF ToSet
  <2>4. i = k
    BY <1>7, <2>3
  <2>5. j = l
    BY <1>3, <1>7, <2>1, <2>2, <2>4 DEF NoRepeats
  <2> QED BY <2>1, <2>2, <2>4, <2>5
<1>8. ASSUME \A i \in 1 .. L : NoRepeats(ss[i]),
             \A i, j \in 1 .. L : i # j => ToSet(ss[i]) \intersect ToSet(ss[j]) = {}
      PROVE  NoRepeats(t)
  BY <1>3, <1>7, <1>8 DEF NoRepeats
<1> QED BY <1>1, <1>6, <1>8 DEF t, L

\* A sequence without repetitions is as long as it has elements.
LEMMA NoRepeatsLength ==
  ASSUME NEW S, NEW s \in Seq(S), NoRepeats(s)
  PROVE  Len(s) = Cardinality(ToSet(s)) /\ IsFiniteSet(ToSet(s))
<1>1. Len(s) \in Nat /\ DOMAIN s = 1 .. Len(s) /\ s \in [1 .. Len(s) -> ToSet(s)]
  BY LenProperties DEF ToSet
<1>2. s \in Bijection(1 .. Len(s), ToSet(s))
  BY <1>1 DEF NoRepeats, ToSet, Bijection, Injection, Surjection, IsInjective
<1>3. IsFiniteSet(1 .. Len(s)) /\ Cardinality(1 .. Len(s)) = Len(s)
  BY <1>1, FS_Interval
<1>4. ExistsBijection(1 .. Len(s), ToSet(s))
  BY <1>2 DEF ExistsBijection
<1> QED BY <1>3, <1>4, FS_Bijection

\* A sequence of single elements is flattened to their sequence.
LEMMA FlattenSingles ==
  ASSUME NEW S, NEW s \in Seq(S)
  PROVE  FlattenSeq([i \in 1 .. Len(s) |-> <<s[i]>>]) = s
<1> DEFINE ss == [i \in 1 .. Len(s) |-> <<s[i]>>]
           L == Len(s)
           Q == Seq(S)
<1>1. L \in Nat /\ s = [i \in 1 .. L |-> s[i]] /\ \A i \in 1 .. L : s[i] \in S
  BY LenProperties
<1>2. \A i \in 1 .. L : <<s[i]>> \in Q
  BY <1>1
<1>3. ss \in Seq(Q) /\ Len(ss) = L
  <2> HIDE DEF Q
  <2> QED BY <1>1, <1>2
<1>4. PICK off : FlattenSeq(ss) \in Seq(S) /\ Layout(off, ss, FlattenSeq(ss))
  BY <1>3, FlattenLayout
<1> DEFINE t == FlattenSeq(ss)
<1>5. \A i \in 1 .. L : Len(ss[i]) = 1 /\ ss[i][1] = s[i]
  OBVIOUS
<1> HIDE DEF ss, t, L
<1>6. /\ off \in [1 .. L + 1 -> Nat] /\ off[1] = 0
      /\ \A i \in 1 .. L : off[i + 1] = off[i] + 1
      /\ Len(t) = off[L + 1]
      /\ \A i \in 1 .. L : t[off[i] + 1] = s[i]
  <2>1. Len(ss) = L /\ Layout(off, ss, t)
    BY <1>3, <1>4 DEF t
  <2>2. /\ off \in [1 .. L + 1 -> Nat] /\ off[1] = 0
        /\ \A i \in 1 .. L : off[i + 1] = off[i] + Len(ss[i])
        /\ Len(t) = off[L + 1]
        /\ \A i \in 1 .. L : \A j \in 1 .. Len(ss[i]) : t[off[i] + j] = ss[i][j]
    BY <2>1, Zenon DEF Layout
  <2> QED BY <1>5, <2>2, SMTT(30)
<1> DEFINE P == {n \in Nat : n <= L => off[n + 1] = n}
<1>7. Nat \subseteq P
  <2>1. 0 \in P
    BY <1>6
  <2>2. ASSUME NEW n \in Nat, n \in P PROVE n + 1 \in P
    <3>1. n + 1 <= L => n + 1 \in 1 .. L
      OBVIOUS
    <3> QED BY <1>1, <1>6, <2>2, <3>1
  <2> HIDE DEF P
  <2> QED BY <2>1, <2>2, NumberInduction
<1>8. Len(t) = L /\ \A i \in 1 .. L : t[i] = s[i]
  <2>1. off[L + 1] = L
    BY <1>1, <1>7
  <2>2. ASSUME NEW i \in 1 .. L PROVE off[i] = i - 1
    <3>1. i - 1 \in P /\ (i - 1) + 1 = i /\ i - 1 <= L
      BY <1>1, <1>7
    <3> QED BY <3>1
  <2>3. \A i \in 1 .. L : (i - 1) + 1 = i
    BY <1>1
  <2> QED BY <1>6, <2>1, <2>2, <2>3
<1>9. t \in Seq(S)
  BY <1>4 DEF t
<1>10. t = s
  BY <1>8, <1>9, SeqEqual DEF L
<1> QED BY <1>10 DEF t, ss

\* The same, element by element: of n sequences that share no element.
Apart(ss, n) ==
  /\ \A i \in 1 .. n : NoRepeats(ss[i])
  /\ \A i, j \in 1 .. n : \A e : e \in ToSet(ss[i]) /\ e \in ToSet(ss[j]) => i = j

\* Flattened, they have each element of one of them once.
LEMMA FlattenParts ==
  ASSUME NEW S, NEW n \in Nat, NEW ss \in [1 .. n -> Seq(S)], Apart(ss, n)
  PROVE  /\ FlattenSeq(ss) \in Seq(S) /\ NoRepeats(FlattenSeq(ss))
         /\ \A e : e \in ToSet(FlattenSeq(ss)) <=> \E i \in 1 .. n : e \in ToSet(ss[i])
<1> DEFINE Q == Seq(S)
<1>1. ss \in Seq(Q) /\ Len(ss) = n
  <2>1. ss \in [1 .. n -> Q]
    OBVIOUS
  <2> HIDE DEF Q
  <2> QED BY <2>1
<1>2. \A i, j \in 1 .. Len(ss) : i # j => ToSet(ss[i]) \intersect ToSet(ss[j]) = {}
  BY <1>1 DEF Apart
<1>3. /\ FlattenSeq(ss) \in Seq(S)
      /\ ToSet(FlattenSeq(ss)) = UNION {ToSet(ss[i]) : i \in 1 .. Len(ss)}
      /\ NoRepeats(FlattenSeq(ss))
  BY <1>1, <1>2, FlattenElements DEF Apart
<1> QED BY <1>1, <1>3

-----------------------------------------------------------------------------
(* Selections.                                                             *)

\* The elements of s at the positions C, in order.
Selection(s, C) == FlattenSeq([i \in 1 .. Len(s) |-> IF i \in C THEN <<s[i]>> ELSE << >>])

\* Where the elements of a selection go.
Ranks(rank, s, C, t) ==
  /\ rank \in [C -> 1 .. Len(t)]
  /\ \A i, j \in C : i < j => rank[i] < rank[j]
  /\ \A i \in C : t[rank[i]] = s[i]
  /\ \A p \in 1 .. Len(t) : \E i \in C : rank[i] = p

\* A selection has the elements selected and nothing else, in their order.
LEMMA SelectionIs ==
  ASSUME NEW S, NEW s \in Seq(S), NEW C \in SUBSET (1 .. Len(s))
  PROVE  Selection(s, C) \in Seq(S) /\ \E rank : Ranks(rank, s, C, Selection(s, C))
<1> DEFINE L == Len(s)
           ss == [i \in 1 .. L |-> IF i \in C THEN <<s[i]>> ELSE << >>]
           t == FlattenSeq(ss)
           Q == Seq(S)
<1>1. L \in Nat /\ \A i \in 1 .. L : s[i] \in S
  OBVIOUS
<1>2. \A i \in 1 .. L : /\ ss[i] \in Q
                        /\ i \in C => Len(ss[i]) = 1 /\ ss[i][1] = s[i]
                        /\ i \notin C => Len(ss[i]) = 0
  BY <1>1
<1>3. ss \in Seq(Q) /\ Len(ss) = L
  <2> HIDE DEF Q
  <2> QED BY <1>1, <1>2
<1>4. t \in Seq(S) /\ \E off : Layout(off, ss, t)
  <2> HIDE DEF ss
  <2> QED BY <1>3, FlattenLayout DEF Q
<1>5. PICK off : Layout(off, ss, t)
  BY <1>4
<1> HIDE DEF ss, t, L
<1>6. /\ off \in [1 .. L + 1 -> Nat]
      /\ \A i \in 1 .. L : off[i + 1] = off[i] + Len(ss[i])
      /\ \A i \in 1 .. L : \A j \in 1 .. Len(ss[i]) :
           off[i] + j \in 1 .. Len(t) /\ t[off[i] + j] = ss[i][j]
      /\ \A p \in 1 .. Len(t) : \E i \in 1 .. L : \E j \in 1 .. Len(ss[i]) : p = off[i] + j
  BY <1>3, <1>5 DEF Layout
<1>7. \A i \in 1 .. L : Len(ss[i]) \in 0 .. 1 /\ (Len(ss[i]) = 1 <=> i \in C)
  BY <1>2
<1>8. C \subseteq 1 .. L
  BY DEF L
\* off does not decrease.
<1>9. \A i, j \in 1 .. L + 1 : i <= j => off[i] <= off[j]
  <2> DEFINE K == {d \in Nat : \A i \in 1 .. L + 1 : i + d <= L + 1 => off[i] <= off[i + d]}
  <2>1. 0 \in K
    BY <1>1, <1>6
  <2>2. ASSUME NEW d \in Nat, d \in K PROVE d + 1 \in K
    <3> SUFFICES ASSUME NEW i \in 1 .. L + 1, i + (d + 1) <= L + 1
                 PROVE  off[i] <= off[i + (d + 1)]
      OBVIOUS
    <3>1. off[i] <= off[i + d]
      BY <2>2, <1>1
    <3>2. i + d \in 1 .. L /\ (i + d) + 1 = i + (d + 1) /\ i + d \in 1 .. L + 1
          /\ i + (d + 1) \in 1 .. L + 1
      BY <1>1
    <3>3. off[(i + d) + 1] = off[i + d] + Len(ss[i + d])
      BY <1>6, <3>2
    <3>4. off[i] \in Nat /\ off[i + d] \in Nat /\ off[i + (d + 1)] \in Nat
      BY <1>6, <3>2
    <3> QED BY <1>7, <3>1, <3>2, <3>3, <3>4
  <2> HIDE DEF K
  <2>3. Nat \subseteq K
    BY <2>1, <2>2, NumberInduction
  <2> SUFFICES ASSUME NEW i \in 1 .. L + 1, NEW j \in 1 .. L + 1, i <= j PROVE off[i] <= off[j]
    OBVIOUS
  <2>4. j - i \in Nat /\ i + (j - i) = j
    BY <1>1
  <2>5. j - i \in K
    BY <2>3, <2>4
  <2> QED BY <1>1, <2>4, <2>5 DEF K
<1> DEFINE rank == [i \in C |-> off[i] + 1]
<1>10. \A i \in C : off[i] + 1 \in 1 .. Len(t) /\ t[off[i] + 1] = s[i]
  BY <1>2, <1>6, <1>8
<1>11. ASSUME NEW i \in C, NEW j \in C, i < j PROVE off[i] + 1 < off[j] + 1
  <2>1. off[i + 1] = off[i] + 1 /\ i + 1 <= j /\ i + 1 \in 1 .. L + 1 /\ j \in 1 .. L + 1
    <3>1. i \in 1 .. L /\ j \in 1 .. L
      BY <1>8
    <3>2. Len(ss[i]) = 1
      BY <1>7, <3>1
    <3>3. off[i + 1] = off[i] + Len(ss[i])
      BY <1>6, <3>1
    <3> QED BY <1>1, <1>11, <3>1, <3>2, <3>3
  <2>2. off[i + 1] <= off[j]
    BY <1>9, <2>1
  <2> QED BY <1>1, <1>6, <1>8, <2>1, <2>2
<1>12. ASSUME NEW p \in 1 .. Len(t) PROVE \E i \in C : off[i] + 1 = p
  <2>1. PICK i \in 1 .. L : \E j \in 1 .. Len(ss[i]) : p = off[i] + j
    BY <1>6
  <2>2. PICK j \in 1 .. Len(ss[i]) : p = off[i] + j
    BY <2>1
  <2>3. Len(ss[i]) \in 0 .. 1 /\ (Len(ss[i]) = 1 <=> i \in C)
    BY <1>7
  <2>4. j = 1 /\ i \in C
    <3> DEFINE l == Len(ss[i])
    <3>1. l \in 0 .. 1 /\ j \in 1 .. l
      BY <2>3
    <3> HIDE DEF l
    <3>2. l = 1 /\ j = 1
      BY <3>1
    <3> QED BY <2>3, <3>2 DEF l
  <2> QED BY <2>2, <2>4
<1>13. Ranks(rank, s, C, t)
  BY <1>10, <1>11, <1>12 DEF Ranks
<1> QED BY <1>4, <1>13 DEF Selection, t, ss, L
=============================================================================
