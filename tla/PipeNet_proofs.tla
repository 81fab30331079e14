--------------------------- MODULE PipeNet_proofs ---------------------------
(***************************************************************************)
(* Proofs about PipeNet, for any cores, pipes and threads and any number   *)
(* of messages: receivers get the messages once and in order, a message is *)
(* kept exactly as long as a receiver is to come, and the event tells      *)
(* whether messages are queued.                                            *)
(***************************************************************************)
EXTENDS PipeNet, FiniteSetTheorems, SequenceTheorems, WellFoundedInduction, TLAPS

Cores == {CoreOf[t] : t \in Threads}
Calls == [op : {"send", "receive"}, pipe : Pipes, length : Nat]

-----------------------------------------------------------------------------
(* The inductive invariant, about one pipe: q is its queue, n the number   *)
(* of messages sent, D its destination and g what a core received.         *)

\* Messages are queued in the order they were sent.
Sorted(q, n) ==
  /\ \A i \in 1 .. Len(q) : q[i].id < n
  /\ \A i, j \in 1 .. Len(q) : i < j => q[i].id < q[j].id

\* A core that has received a message has received all before it.
Nested(q, D) ==
  /\ \A i \in 1 .. Len(q) : q[i].receivers \subseteq D
  /\ \A i, j \in 1 .. Len(q) : i < j => q[j].receivers \subseteq q[i].receivers

\* Nobody is missing in the count, which does not reach zero; if nothing raised
\* (ok), nobody is counted who has come.
Counts(m, D, ok) ==
  /\ D # {} => m.remaining > 0
  /\ m.remaining >= Cardinality(D \ m.receivers)
  /\ ok => m.remaining = Cardinality(D \ m.receivers)

CountedRight(q, D, ok) == \A i \in 1 .. Len(q) : Counts(q[i], D, ok)

\* What a core received was sent, in this order, before what it is to receive.
Behind(q, n, g, c) ==
  /\ \A k \in 1 .. Len(g) : g[k] < n
  /\ \A k, l \in 1 .. Len(g) : k < l => g[k] < g[l]
  /\ \A i \in 1 .. Len(q) : c \notin q[i].receivers =>
       \A k \in 1 .. Len(g) : g[k] < q[i].id

\* If nothing raised, a core received the first messages, and the others are
\* queued for it.
Complete(q, n, g, c) ==
  /\ Len(g) <= n
  /\ \A k \in 1 .. Len(g) : g[k] = k - 1
  /\ \A i \in 1 .. Len(q) : c \in q[i].receivers <=> q[i].id < Len(g)
  /\ \A m \in Len(g) .. n - 1 : \E i \in 1 .. Len(q) : q[i].id = m

PipeInv(q, n, D, ok) == Sorted(q, n) /\ Nested(q, D) /\ CountedRight(q, D, ok)
CoreInv(q, n, g, c, ok) == Behind(q, n, g, c) /\ (ok => Complete(q, n, g, c))

Types ==
  /\ queue \in [Pipes -> Seq(Message)]
  /\ event \in [Pipes -> BOOLEAN]
  /\ sends \in [Pipes -> Nat]
  /\ call \in [Threads -> {None} \union Calls]
  /\ \A t \in Threads : call[t] # None /\ call[t].op = "receive"
       => CoreOf[t] \in Destination[call[t].pipe]
  /\ got \in [Pipes \X Cores -> Seq(Nat)]
  /\ failed \in BOOLEAN

IInv ==
  /\ Types
  /\ \A p \in Pipes : PipeInv(queue[p], sends[p], Destination[p], ~failed)
  /\ \A p \in Pipes : \A c \in Cores :
       IF c \in Destination[p] THEN CoreInv(queue[p], sends[p], got[<<p, c>>], c, ~failed)
       ELSE got[<<p, c>>] = << >>
  /\ EventTracks

-----------------------------------------------------------------------------
(* The operators on queues.                                                *)

\* A nonempty set of natural numbers has a least element, which is its Min.
LEMMA MinIsLeast ==
  ASSUME NEW S \in SUBSET Nat, S # {}
  PROVE  Min(S) \in S /\ \A y \in S : Min(S) <= y
<1>1. PICK x \in S : \A y \in S : <<y, x>> \notin OpToRel(<, Nat)
  BY WFMin, NatLessThanWellFounded, Zenon
<1>2. \A y \in S : ~(y < x)
  BY <1>1 DEF OpToRel
<1>3. \A y \in S : x <= y
  BY <1>2
<1> QED BY <1>3 DEF Min

\* What SelectInSeq finds for a receiver.
LEMMA FirstForIs ==
  ASSUME NEW c, NEW p \in Pipes, FirstFor(c, p) # 0,
         NEW i, i = FirstFor(c, p), Len(queue[p]) \in Nat
  PROVE  /\ i \in 1 .. Len(queue[p])
         /\ c \notin queue[p][i].receivers
         /\ \A j \in 1 .. i - 1 : c \in queue[p][j].receivers
<1> DEFINE I == {j \in 1 .. Len(queue[p]) : c \notin queue[p][j].receivers}
<1>1. FirstFor(c, p) = IF I # {} THEN Min(I) ELSE 0
  BY DEF FirstFor, SelectInSeq
<1>2. I # {} /\ i = Min(I)
  BY <1>1
<1>3. i \in I /\ \A j \in I : i <= j
  <2>1. I \in SUBSET Nat
    OBVIOUS
  <2> HIDE DEF I
  <2> QED BY <1>2, <2>1, MinIsLeast
<1>4. i \in 1 .. Len(queue[p]) /\ c \notin queue[p][i].receivers
  BY <1>3
<1>5. ASSUME NEW j \in 1 .. i - 1, c \notin queue[p][j].receivers PROVE FALSE
  <2>1. j \in I
    BY <1>4, <1>5
  <2> QED BY <2>1, <1>3, <1>4
<1> QED BY <1>4, <1>5

\* The sequence without its ith element.
LEMMA RemoveAtIs ==
  ASSUME NEW S, NEW q \in Seq(S), NEW i \in 1 .. Len(q)
  PROVE  /\ RemoveAt(q, i) \in Seq(S)
         /\ Len(RemoveAt(q, i)) = Len(q) - 1
         /\ \A j \in 1 .. Len(q) - 1 : RemoveAt(q, i)[j] = IF j < i THEN q[j] ELSE q[j + 1]
<1> DEFINE a == SubSeq(q, 1, i - 1)
           b == SubSeq(q, i + 1, Len(q))
<1>1. Len(q) \in Nat /\ \A j \in 1 .. Len(q) : q[j] \in S
  BY LenProperties
<1>2. /\ a \in Seq(S) /\ Len(a) = i - 1
      /\ \A j \in 1 .. i - 1 : a[j] = q[j]
  BY <1>1, SubSeqProperties, Z3
<1>3. /\ b \in Seq(S) /\ Len(b) = Len(q) - i
      /\ \A j \in 1 .. Len(q) - i : b[j] = q[i + j]
  BY <1>1, SubSeqProperties, Z3
<1>4. RemoveAt(q, i) = a \o b
  BY DEF RemoveAt
<1> HIDE DEF a, b
<1>5. /\ a \o b \in Seq(S)
      /\ Len(a \o b) = Len(q) - 1
      /\ \A j \in 1 .. Len(q) - 1 : (a \o b)[j] = IF j <= i - 1 THEN a[j] ELSE b[j - (i - 1)]
  <2>1. Len(a) + Len(b) = Len(q) - 1
    BY <1>1, <1>2, <1>3
  <2>2. /\ a \o b \in Seq(S)
        /\ Len(a \o b) = Len(a) + Len(b)
        /\ \A j \in 1 .. Len(a) + Len(b) : (a \o b)[j] =
             IF j <= Len(a) THEN a[j] ELSE b[j - Len(a)]
    BY <1>2, <1>3, ConcatProperties
  <2> QED BY <2>1, <2>2, <1>2
<1> QED BY <1>1, <1>2, <1>3, <1>4, <1>5

\* A finite set without one of its elements.
LEMMA OneFewer ==
  ASSUME NEW D, IsFiniteSet(D), NEW r, NEW c \in D, c \notin r
  PROVE  /\ Cardinality(D \ r) \in Nat \ {0}
         /\ Cardinality(D \ (r \union {c})) = Cardinality(D \ r) - 1
<1>1. IsFiniteSet(D \ r) /\ c \in D \ r
  BY FS_Subset
<1>2. D \ (r \union {c}) = (D \ r) \ {c}
  OBVIOUS
<1>3. Cardinality((D \ r) \ {c}) = Cardinality(D \ r) - 1 /\ IsFiniteSet((D \ r) \ {c})
  BY <1>1, FS_RemoveElement
<1>4. Cardinality(D \ r) \in Nat /\ Cardinality((D \ r) \ {c}) \in Nat
  BY <1>1, <1>3, FS_CardinalityType
<1>5. Cardinality(D \ r) \in Nat \ {0}
  BY <1>3, <1>4
<1> QED BY <1>2, <1>3, <1>5

-----------------------------------------------------------------------------
(* What the transfers do to one pipe and one core.                         *)

\* A message that is sent goes behind the others, and nobody has it.
LEMMA SendKeepsPipe ==
  ASSUME NEW q \in Seq(Message), NEW n \in Nat, NEW D, IsFiniteSet(D), NEW ok \in BOOLEAN,
         NEW m \in Message, m.id = n, m.remaining = Cardinality(D), m.receivers = {},
         PipeInv(q, n, D, ok)
  PROVE  PipeInv(Append(q, m), n + 1, D, ok)
<1> DEFINE r == Append(q, m)
<1>1. Len(q) \in Nat /\ \A i \in 1 .. Len(q) : q[i] \in Message
  BY LenProperties
<1>2. /\ Len(r) = Len(q) + 1 /\ r[Len(q) + 1] = m
      /\ \A i \in 1 .. Len(q) : r[i] = q[i]
  BY AppendProperties
<1>3. Cardinality(D) \in Nat /\ D \ {} = D
  BY FS_CardinalityType
<1> HIDE DEF r
<1>4. \A i \in 1 .. Len(r) : i \in 1 .. Len(q) \/ i = Len(q) + 1
  BY <1>1, <1>2
<1>5. Sorted(r, n + 1)
  <2>1. \A i \in 1 .. Len(r) : r[i].id < n + 1
    <3> SUFFICES ASSUME NEW i \in 1 .. Len(r) PROVE r[i].id < n + 1
      OBVIOUS
    <3>1. ASSUME i \in 1 .. Len(q) PROVE r[i].id < n /\ r[i].id \in Nat
      BY <1>1, <1>2, <3>1 DEF PipeInv, Sorted, Message
    <3>2. ASSUME i = Len(q) + 1 PROVE r[i].id = n
      BY <1>2, <3>2
    <3> QED BY <1>4, <3>1, <3>2
  <2>2. ASSUME NEW i \in 1 .. Len(r), NEW j \in 1 .. Len(r), i < j PROVE r[i].id < r[j].id
    <3>1. i \in 1 .. Len(q)
      BY <1>1, <1>2, <2>2
    <3> QED BY <1>1, <1>2, <1>4, <2>2, <3>1 DEF PipeInv, Sorted
  <2> QED BY <2>1, <2>2 DEF Sorted
<1>6. Nested(r, D)
  BY <1>1, <1>2, <1>4 DEF PipeInv, Nested
<1>7. CountedRight(r, D, ok)
  <2> SUFFICES ASSUME NEW i \in 1 .. Len(r) PROVE Counts(r[i], D, ok)
    BY DEF CountedRight
  <2>1. CASE i \in 1 .. Len(q)
    BY <1>2, <2>1 DEF PipeInv, CountedRight
  <2>2. CASE i = Len(q) + 1
    <3>1. r[i] = m
      BY <1>2, <2>2
    <3>2. D \ r[i].receivers = D
      BY <3>1
    <3>3. r[i].remaining = Cardinality(D)
      BY <3>1
    <3>4. Cardinality(D \ r[i].receivers) = Cardinality(D)
      BY <3>2
    <3>5. D # {} => Cardinality(D) # 0
      BY FS_EmptySet
    <3> QED BY <1>3, <3>3, <3>4, <3>5 DEF Counts
  <2> QED BY <1>4, <2>1, <2>2
<1> QED BY <1>5, <1>6, <1>7 DEF PipeInv, r

\* It is one more message that every core is to receive.
LEMMA SendKeepsCore ==
  ASSUME NEW q \in Seq(Message), NEW n \in Nat, NEW ok \in BOOLEAN, NEW c, NEW g \in Seq(Nat),
         NEW m \in Message, m.id = n, m.receivers = {},
         CoreInv(q, n, g, c, ok)
  PROVE  CoreInv(Append(q, m), n + 1, g, c, ok)
<1> DEFINE r == Append(q, m)
<1>1. Len(q) \in Nat /\ \A i \in 1 .. Len(q) : q[i] \in Message
  BY LenProperties
<1>2. /\ Len(r) = Len(q) + 1 /\ r[Len(q) + 1] = m
      /\ \A i \in 1 .. Len(q) : r[i] = q[i]
  BY AppendProperties
<1>3. Len(g) \in Nat /\ \A k \in 1 .. Len(g) : g[k] \in Nat
  BY LenProperties
<1> HIDE DEF r
<1>4. \A i \in 1 .. Len(r) : i \in 1 .. Len(q) \/ i = Len(q) + 1
  BY <1>1, <1>2
<1>5. Behind(r, n + 1, g, c)
  <2>1. \A k \in 1 .. Len(g) : g[k] < n
    BY DEF CoreInv, Behind
  <2>2. \A k \in 1 .. Len(g) : g[k] < n + 1
    BY <1>3, <2>1
  <2>3. \A k, l \in 1 .. Len(g) : k < l => g[k] < g[l]
    BY DEF CoreInv, Behind
  <2>4. ASSUME NEW i \in 1 .. Len(r), c \notin r[i].receivers, NEW k \in 1 .. Len(g)
        PROVE  g[k] < r[i].id
    <3>1. CASE i \in 1 .. Len(q)
      BY <1>2, <2>4, <3>1 DEF CoreInv, Behind
    <3>2. CASE i = Len(q) + 1
      BY <1>2, <2>1, <3>2
    <3> QED BY <1>4, <3>1, <3>2
  <2> QED BY <2>2, <2>3, <2>4 DEF Behind
<1>6. ASSUME ok PROVE Complete(r, n + 1, g, c)
  <2>1. Len(g) <= n /\ \A k \in 1 .. Len(g) : g[k] = k - 1
    BY <1>6 DEF CoreInv, Complete
  <2>2. \A i \in 1 .. Len(r) : c \in r[i].receivers <=> r[i].id < Len(g)
    BY <1>1, <1>2, <1>3, <1>4, <1>6, <2>1 DEF CoreInv, Complete
  <2>3. ASSUME NEW k \in Len(g) .. n PROVE \E i \in 1 .. Len(r) : r[i].id = k
    <3>1. CASE k = n
      BY <1>1, <1>2, <3>1
    <3>2. CASE k # n
      <4>1. k \in Len(g) .. n - 1
        BY <1>3, <3>2
      <4>2. PICK i \in 1 .. Len(q) : q[i].id = k
        BY <1>6, <4>1 DEF CoreInv, Complete
      <4> QED BY <1>1, <1>2, <4>2
    <3> QED BY <3>1, <3>2
  <2>4. (n + 1) - 1 = n /\ Len(g) <= n + 1
    BY <1>3, <2>1
  <2> QED BY <2>1, <2>2, <2>3, <2>4 DEF Complete
<1> QED BY <1>5, <1>6 DEF CoreInv, r

\* The ith message is the first that core c has not received.
ItsTurn(q, i, c) ==
  /\ i \in 1 .. Len(q) /\ c \notin q[i].receivers
  /\ \A j \in 1 .. i - 1 : c \in q[j].receivers

\* r is q with core c recorded as a receiver of the ith message.
IsMarked(r, q, i, c) ==
  /\ Len(r) = Len(q)
  /\ \A j \in 1 .. Len(q) : r[j].id = q[j].id
  /\ \A j \in 1 .. Len(q) :
       j # i => r[j].receivers = q[j].receivers /\ r[j].remaining = q[j].remaining
  /\ r[i].receivers = q[i].receivers \union {c}

\* Recording the receiver keeps the messages in order and receivers nested.
LEMMA MarkKeepsPipe ==
  ASSUME NEW q \in Seq(Message), NEW r \in Seq(Message), NEW n \in Nat, NEW D, NEW c \in D,
         NEW ok \in BOOLEAN, NEW i, ItsTurn(q, i, c), IsMarked(r, q, i, c),
         PipeInv(q, n, D, ok)
  PROVE  /\ Sorted(r, n) /\ Nested(r, D)
         /\ \A j \in 1 .. Len(r) : j # i => Counts(r[j], D, ok)
<1>1. Len(q) \in Nat /\ i \in 1 .. Len(q) /\ Len(r) = Len(q)
  BY LenProperties DEF ItsTurn, IsMarked
<1>2. Sorted(r, n)
  BY <1>1 DEF PipeInv, Sorted, IsMarked
<1>3. Nested(r, D)
  <2>1. \A j \in 1 .. Len(r) : r[j].receivers \subseteq D
    BY <1>1 DEF PipeInv, Nested, IsMarked
  <2>2. ASSUME NEW j \in 1 .. Len(r), NEW k \in 1 .. Len(r), j < k
        PROVE  r[k].receivers \subseteq r[j].receivers
    <3>1. q[k].receivers \subseteq q[j].receivers
      BY <1>1, <2>2 DEF PipeInv, Nested
    <3>2. q[j].receivers \subseteq r[j].receivers
      BY <1>1 DEF IsMarked
    <3>3. CASE k # i
      BY <1>1, <3>1, <3>2, <3>3 DEF IsMarked
    <3>4. CASE k = i
      <4>1. j \in 1 .. i - 1
        BY <1>1, <2>2, <3>4
      <4>2. c \in q[j].receivers
        BY <4>1 DEF ItsTurn
      <4> QED BY <3>1, <3>2, <3>4, <4>2 DEF IsMarked
    <3> QED BY <3>3, <3>4
  <2> QED BY <2>1, <2>2 DEF Nested
<1>4. ASSUME NEW j \in 1 .. Len(r), j # i PROVE Counts(r[j], D, ok)
  <2>1. r[j].receivers = q[j].receivers /\ r[j].remaining = q[j].remaining
    BY <1>1, <1>4 DEF IsMarked
  <2>2. Counts(q[j], D, ok)
    BY <1>1 DEF PipeInv, CountedRight
  <2> QED BY <2>1, <2>2 DEF Counts
<1> QED BY <1>2, <1>3, <1>4

\* It means nothing to another core.
LEMMA MarkKeepsOthers ==
  ASSUME NEW q \in Seq(Message), NEW r \in Seq(Message), NEW n \in Nat, NEW c, NEW d, d # c,
         NEW ok \in BOOLEAN, NEW i, ItsTurn(q, i, c), IsMarked(r, q, i, c),
         NEW g \in Seq(Nat), CoreInv(q, n, g, d, ok)
  PROVE  CoreInv(r, n, g, d, ok)
<1>1. Len(r) = Len(q) /\ \A j \in 1 .. Len(q) : r[j].id = q[j].id
  BY DEF IsMarked
<1>2. \A j \in 1 .. Len(q) : d \in r[j].receivers <=> d \in q[j].receivers
  BY DEF IsMarked
<1>3. Behind(r, n, g, d)
  BY <1>1, <1>2 DEF CoreInv, Behind
<1>4. ok => Complete(r, n, g, d)
  BY <1>1, <1>2 DEF CoreInv, Complete
<1> QED BY <1>3, <1>4 DEF CoreInv

\* If the copy raises, the core has not received the message.
LEMMA MarkKeepsLoser ==
  ASSUME NEW q \in Seq(Message), NEW r \in Seq(Message), NEW n \in Nat, NEW c, NEW d,
         NEW ok \in BOOLEAN, NEW i, IsMarked(r, q, i, c),
         NEW g \in Seq(Nat), CoreInv(q, n, g, d, ok)
  PROVE  CoreInv(r, n, g, d, FALSE)
<1>1. Len(r) = Len(q) /\ \A j \in 1 .. Len(q) : r[j].id = q[j].id
  BY DEF IsMarked
<1>2. \A j \in 1 .. Len(q) : d \notin r[j].receivers => d \notin q[j].receivers
  BY DEF IsMarked
<1> QED BY <1>1, <1>2 DEF CoreInv, Behind

\* If it does not, the message is the next one for the core.
LEMMA MarkServes ==
  ASSUME NEW q \in Seq(Message), NEW r \in Seq(Message), NEW n \in Nat, NEW c,
         NEW ok \in BOOLEAN, NEW i, ItsTurn(q, i, c), IsMarked(r, q, i, c), Sorted(q, n),
         NEW g \in Seq(Nat), CoreInv(q, n, g, c, ok)
  PROVE  CoreInv(r, n, Append(g, q[i].id), c, ok)
<1> DEFINE id == q[i].id
           h == Append(g, id)
<1>1. /\ Len(q) \in Nat /\ i \in 1 .. Len(q) /\ Len(r) = Len(q)
      /\ \A j \in 1 .. Len(q) : q[j].id \in Nat /\ r[j].id = q[j].id
  <2>1. \A j \in 1 .. Len(q) : q[j] \in Message
    BY LenProperties
  <2> QED BY <2>1, LenProperties DEF ItsTurn, IsMarked, Message
<1>2. Len(g) \in Nat /\ \A k \in 1 .. Len(g) : g[k] \in Nat
  BY LenProperties
<1>3. id \in Nat /\ id < n
  BY <1>1 DEF Sorted
<1>4. /\ Len(h) = Len(g) + 1 /\ h[Len(g) + 1] = id
      /\ \A k \in 1 .. Len(g) : h[k] = g[k]
  BY <1>3, AppendProperties
<1>5. \A j \in 1 .. Len(q) :
        c \in r[j].receivers <=> (j = i \/ c \in q[j].receivers)
  BY DEF IsMarked
<1>6. \A k \in 1 .. Len(g) : g[k] < id
  BY <1>1 DEF CoreInv, Behind, ItsTurn
<1>7. \A j \in 1 .. Len(q) : c \notin q[j].receivers => j >= i
  BY <1>1 DEF ItsTurn
<1>8. \A k \in 1 .. Len(h) : k \in 1 .. Len(g) \/ k = Len(g) + 1
  BY <1>2, <1>4
<1> HIDE DEF id, h
<1>9. Behind(r, n, h, c)
  <2>1. \A k \in 1 .. Len(h) : h[k] < n
    BY <1>3, <1>4, <1>8 DEF CoreInv, Behind
  <2>2. ASSUME NEW k \in 1 .. Len(h), NEW l \in 1 .. Len(h), k < l PROVE h[k] < h[l]
    <3>1. k \in 1 .. Len(g)
      BY <1>2, <1>4, <2>2
    <3>2. CASE l \in 1 .. Len(g)
      BY <1>4, <2>2, <3>1, <3>2 DEF CoreInv, Behind
    <3>3. CASE l = Len(g) + 1
      BY <1>4, <1>6, <3>1, <3>3
    <3> QED BY <1>8, <3>2, <3>3
  <2>3. ASSUME NEW j \in 1 .. Len(r), c \notin r[j].receivers, NEW k \in 1 .. Len(h)
        PROVE  h[k] < r[j].id
    <3>1. j \in 1 .. Len(q) /\ i < j /\ c \notin q[j].receivers
      BY <1>1, <1>5, <1>7, <2>3
    <3>2. id < r[j].id
      BY <1>1, <3>1 DEF Sorted, id
    <3>3. CASE k \in 1 .. Len(g)
      BY <1>1, <1>4, <3>1, <3>3 DEF CoreInv, Behind
    <3>4. CASE k = Len(g) + 1
      BY <1>4, <3>2, <3>4
    <3> QED BY <1>8, <3>3, <3>4
  <2> QED BY <2>1, <2>2, <2>3 DEF Behind
<1>10. ASSUME ok PROVE Complete(r, n, h, c)
  <2>1. /\ Len(g) <= n
        /\ \A k \in 1 .. Len(g) : g[k] = k - 1
        /\ \A j \in 1 .. Len(q) : c \in q[j].receivers <=> q[j].id < Len(g)
        /\ \A m \in Len(g) .. n - 1 : \E j \in 1 .. Len(q) : q[j].id = m
    BY <1>10 DEF CoreInv, Complete
  <2>2. id >= Len(g)
    BY <1>1, <1>2, <1>3, <2>1 DEF ItsTurn, id
  <2>3. PICK j \in 1 .. Len(q) : q[j].id = Len(g)
    <3>1. Len(g) \in Len(g) .. n - 1
      BY <1>2, <1>3, <2>2
    <3> QED BY <2>1, <3>1
  <2>4. c \notin q[j].receivers /\ j >= i
    BY <1>2, <1>7, <2>1, <2>3
  <2>5. id = Len(g)
    <3>1. CASE j = i
      BY <2>3, <3>1 DEF id
    <3>2. CASE j # i
      <4>1. id < q[j].id
        BY <1>1, <2>4, <3>2 DEF Sorted, id
      <4> QED BY <1>2, <1>3, <2>2, <2>3, <4>1
    <3> QED BY <3>1, <3>2
  <2>6. Len(h) <= n
    BY <1>2, <1>3, <1>4, <2>5
  <2>7. \A k \in 1 .. Len(h) : h[k] = k - 1
    <3> SUFFICES ASSUME NEW k \in 1 .. Len(h) PROVE h[k] = k - 1
      OBVIOUS
    <3>1. CASE k \in 1 .. Len(g)
      BY <1>4, <2>1, <3>1
    <3>2. CASE k = Len(g) + 1
      <4>1. h[k] = Len(g)
        BY <1>4, <2>5, <3>2
      <4>2. k - 1 = Len(g)
        BY <1>2, <3>2
      <4> QED BY <4>1, <4>2
    <3> QED BY <1>8, <3>1, <3>2
  <2>8. ASSUME NEW l \in 1 .. Len(r) PROVE c \in r[l].receivers <=> r[l].id < Len(h)
    <3>1. CASE l = i
      <4>1. c \in r[l].receivers
        BY <1>1, <1>5, <3>1
      <4>2. r[l].id = Len(g)
        BY <1>1, <2>5, <3>1 DEF id
      <4> QED BY <1>2, <1>4, <4>1, <4>2
    <3>2. CASE l # i
      <4>1. q[l].id # id
        BY <1>1, <3>2 DEF Sorted, id
      <4>2. r[l].id < Len(h) <=> q[l].id < Len(g)
        BY <1>1, <1>2, <1>4, <2>5, <4>1
      <4>3. c \in r[l].receivers <=> c \in q[l].receivers
        BY <1>1, <1>5, <3>2
      <4>4. c \in q[l].receivers <=> q[l].id < Len(g)
        BY <1>1, <2>1
      <4> QED BY <4>2, <4>3, <4>4
    <3> QED BY <3>1, <3>2
  <2>9. \A m \in Len(h) .. n - 1 : \E l \in 1 .. Len(r) : r[l].id = m
    <3> SUFFICES ASSUME NEW m \in Len(h) .. n - 1 PROVE \E l \in 1 .. Len(r) : r[l].id = m
      OBVIOUS
    <3>1. m \in Len(g) .. n - 1
      BY <1>2, <1>4
    <3>2. PICK l \in 1 .. Len(q) : q[l].id = m
      BY <2>1, <3>1
    <3> QED BY <1>1, <3>2
  <2> QED BY <2>6, <2>7, <2>8, <2>9 DEF Complete
<1> QED BY <1>9, <1>10 DEF CoreInv, h, id

\* Nor does the queue lose its order with a message.
LEMMA RemoveKeepsPipe ==
  ASSUME NEW q \in Seq(Message), NEW n \in Nat, NEW D, NEW ok \in BOOLEAN,
         NEW i \in 1 .. Len(q), Sorted(q, n), Nested(q, D),
         \A j \in 1 .. Len(q) : j # i => Counts(q[j], D, ok)
  PROVE  PipeInv(RemoveAt(q, i), n, D, ok)
<1> DEFINE r == RemoveAt(q, i)
           at(j) == IF j < i THEN j ELSE j + 1
<1>1. Len(q) \in Nat /\ Len(r) = Len(q) - 1
      /\ \A j \in 1 .. Len(q) - 1 : r[j] = IF j < i THEN q[j] ELSE q[j + 1]
  BY RemoveAtIs, LenProperties
<1>2. \A j \in 1 .. Len(r) : at(j) \in 1 .. Len(q) /\ at(j) # i /\ r[j] = q[at(j)]
  BY <1>1
<1>3. \A j, k \in 1 .. Len(r) : j < k => at(j) < at(k)
  BY <1>1
<1> HIDE DEF r, at
<1>4. Sorted(r, n)
  BY <1>2, <1>3 DEF Sorted
<1>5. Nested(r, D)
  BY <1>2, <1>3 DEF Nested
<1>6. CountedRight(r, D, ok)
  BY <1>2 DEF CountedRight
<1> QED BY <1>4, <1>5, <1>6 DEF PipeInv, r

\* A core that has received a message does not miss it.
LEMMA RemoveKeepsCore ==
  ASSUME NEW q \in Seq(Message), NEW n \in Nat, NEW c, NEW ok \in BOOLEAN,
         NEW i \in 1 .. Len(q), c \in q[i].receivers,
         NEW g \in Seq(Nat), CoreInv(q, n, g, c, ok)
  PROVE  CoreInv(RemoveAt(q, i), n, g, c, ok)
<1> DEFINE r == RemoveAt(q, i)
           at(j) == IF j < i THEN j ELSE j + 1
           back(j) == IF j < i THEN j ELSE j - 1
<1>1. Len(q) \in Nat /\ Len(r) = Len(q) - 1
      /\ \A j \in 1 .. Len(q) - 1 : r[j] = IF j < i THEN q[j] ELSE q[j + 1]
  BY RemoveAtIs, LenProperties
<1>2. \A j \in 1 .. Len(r) : at(j) \in 1 .. Len(q) /\ r[j] = q[at(j)]
  BY <1>1
<1>3. \A j \in 1 .. Len(q) : j # i => back(j) \in 1 .. Len(r) /\ r[back(j)] = q[j]
  BY <1>1
<1> HIDE DEF r, at, back
<1>4. Behind(r, n, g, c)
  BY <1>2 DEF CoreInv, Behind
<1>5. ASSUME ok PROVE Complete(r, n, g, c)
  <2>1. Len(g) <= n /\ \A k \in 1 .. Len(g) : g[k] = k - 1
    BY <1>5 DEF CoreInv, Complete
  <2>2. \A j \in 1 .. Len(r) : c \in r[j].receivers <=> r[j].id < Len(g)
    BY <1>2, <1>5 DEF CoreInv, Complete
  <2>3. ASSUME NEW m \in Len(g) .. n - 1 PROVE \E j \in 1 .. Len(r) : r[j].id = m
    <3>1. PICK j \in 1 .. Len(q) : q[j].id = m
      BY <1>5 DEF CoreInv, Complete
    <3>2. q[i].id < Len(g)
      BY <1>5 DEF CoreInv, Complete
    <3>3. j # i
      BY <3>1, <3>2, LenProperties
    <3> QED BY <1>3, <3>1, <3>3
  <2> QED BY <2>1, <2>2, <2>3 DEF Complete
<1> QED BY <1>4, <1>5 DEF CoreInv, r

-----------------------------------------------------------------------------
(* The operators of the model, and the steps.                              *)

\* Marked records the receiver, and nothing else.
LEMMA MarkedIs ==
  ASSUME NEW p \in Pipes, queue[p] \in Seq(Message), NEW c \in Cores,
         NEW i \in 1 .. Len(queue[p])
  PROVE  /\ Marked(p, i, c) \in Seq(Message)
         /\ IsMarked(Marked(p, i, c), queue[p], i, c)
         /\ Marked(p, i, c)[i].remaining = queue[p][i].remaining
<1> DEFINE q == queue[p]
           m == [q[i] EXCEPT !.receivers = @ \union {c}]
<1>1. q[i] \in Message
  BY LenProperties
<1>2. m \in Message
  BY <1>1 DEF Message, Cores
<1>3. Marked(p, i, c) = [q EXCEPT ![i] = m]
  BY DEF Marked
<1>4. /\ m.id = q[i].id /\ m.remaining = q[i].remaining
      /\ m.receivers = q[i].receivers \union {c}
  BY <1>1 DEF Message
<1> HIDE DEF m
<1>5. /\ Marked(p, i, c) \in Seq(Message) /\ Len(Marked(p, i, c)) = Len(q)
      /\ \A j \in 1 .. Len(q) : Marked(p, i, c)[j] = IF j = i THEN m ELSE q[j]
  BY <1>2, <1>3, ExceptSeq
<1> QED BY <1>4, <1>5 DEF IsMarked

\* One receiver less to come, of several.
LEMMA DownIs ==
  ASSUME NEW q \in Seq(Message), NEW i \in 1 .. Len(q),
         q[i].remaining # 1, q[i].remaining # 0
  PROVE  /\ CountedDown(q, i) \in Seq(Message)
         /\ Len(CountedDown(q, i)) = Len(q)
         /\ \A j \in 1 .. Len(q) : /\ CountedDown(q, i)[j].id = q[j].id
                                   /\ CountedDown(q, i)[j].receivers = q[j].receivers
                                   /\ j # i => CountedDown(q, i)[j].remaining = q[j].remaining
         /\ CountedDown(q, i)[i].remaining = q[i].remaining - 1
<1> DEFINE m == [q[i] EXCEPT !.remaining = @ - 1]
<1>1. \A j \in 1 .. Len(q) : q[j] \in Message
  BY LenProperties
<1>2. m \in Message
  <2>1. q[i] \in Message /\ q[i].remaining - 1 \in Nat
    BY <1>1 DEF Message
  <2> QED BY <2>1 DEF Message
<1>3. CountedDown(q, i) = [q EXCEPT ![i] = m]
  BY DEF CountedDown
<1>4. m.id = q[i].id /\ m.receivers = q[i].receivers /\ m.remaining = q[i].remaining - 1
  BY <1>1 DEF Message
<1> HIDE DEF m
<1>5. /\ CountedDown(q, i) \in Seq(Message) /\ Len(CountedDown(q, i)) = Len(q)
      /\ \A j \in 1 .. Len(q) : CountedDown(q, i)[j] = IF j = i THEN m ELSE q[j]
  BY <1>2, <1>3, ExceptSeq
<1> QED BY <1>4, <1>5

\* The receiver is let in, and the message found is the first it has not got.
LEMMA AtTransfer ==
  ASSUME IInv, NEW t \in Threads, NEW op, Resumed(t, op)
  PROVE  /\ call[t] \in Calls /\ call[t].pipe \in Pipes /\ call[t].length \in Nat
         /\ queue[call[t].pipe] \in Seq(Message) /\ sends[call[t].pipe] \in Nat
         /\ IsFiniteSet(Destination[call[t].pipe])
         /\ Counted[call[t].pipe] = Cardinality(Destination[call[t].pipe])
         /\ CoreOf[t] \in Cores
         /\ op = "receive" =>
              /\ CoreOf[t] \in Destination[call[t].pipe]
              /\ FirstFor(CoreOf[t], call[t].pipe) # 0 =>
                   ItsTurn(queue[call[t].pipe], FirstFor(CoreOf[t], call[t].pipe), CoreOf[t])
<1>1. call[t] \in Calls
  BY DEF IInv, Types, Resumed
<1>2. call[t].pipe \in Pipes /\ call[t].length \in Nat
  BY <1>1 DEF Calls
<1>3. queue[call[t].pipe] \in Seq(Message) /\ sends[call[t].pipe] \in Nat
  BY <1>2 DEF IInv, Types
<1>4. op = "receive" => CoreOf[t] \in Destination[call[t].pipe]
  BY DEF IInv, Types, Resumed
<1>5. ASSUME FirstFor(CoreOf[t], call[t].pipe) # 0
      PROVE  ItsTurn(queue[call[t].pipe], FirstFor(CoreOf[t], call[t].pipe), CoreOf[t])
  <2>1. Len(queue[call[t].pipe]) \in Nat
    BY <1>3, LenProperties
  <2> QED BY <1>2, <1>5, <2>1, FirstForIs DEF ItsTurn
<1> QED BY <1>1, <1>2, <1>3, <1>4, <1>5, CountedAssumption DEF Cores

\* Steps that leave the pipes alone.
LEMMA Unmoved ==
  ASSUME IInv, UNCHANGED <<buffer, got, failed>>,
         call' \in [Threads -> {None} \union Calls],
         \A t \in Threads : call'[t] # None /\ call'[t].op = "receive"
           => CoreOf[t] \in Destination[call'[t].pipe]
  PROVE  IInv'
<1>1. Types'
  BY DEF IInv, Types, buffer
<1>2. /\ queue' = queue /\ event' = event /\ sends' = sends
      /\ got' = got /\ failed' = failed
  BY DEF buffer
<1>3. \A p \in Pipes : PipeInv(queue'[p], sends'[p], Destination[p], ~failed')
  BY <1>2 DEF IInv
<1>4. \A p \in Pipes : \A c \in Cores :
        IF c \in Destination[p] THEN CoreInv(queue'[p], sends'[p], got'[<<p, c>>], c, ~failed')
        ELSE got'[<<p, c>>] = << >>
  <2> SUFFICES ASSUME NEW p \in Pipes, NEW c \in Cores
               PROVE  IF c \in Destination[p]
                      THEN CoreInv(queue'[p], sends'[p], got'[<<p, c>>], c, ~failed')
                      ELSE got'[<<p, c>>] = << >>
    OBVIOUS
  <2>1. CASE c \in Destination[p]
    <3>1. CoreInv(queue[p], sends[p], got[<<p, c>>], c, ~failed)
      BY <2>1 DEF IInv
    <3>2. CoreInv(queue'[p], sends'[p], got'[<<p, c>>], c, ~failed')
      BY <1>2, <3>1
    <3> QED BY <2>1, <3>2
  <2>2. CASE c \notin Destination[p]
    BY <1>2, <2>2 DEF IInv
  <2> QED BY <2>1, <2>2
<1>5. EventTracks'
  BY <1>2 DEF IInv, EventTracks
<1> QED BY <1>1, <1>3, <1>4, <1>5 DEF IInv

\* One call is added or given up.
LEMMA CallChanges ==
  ASSUME IInv, NEW t \in Threads, NEW k, call' = [call EXCEPT ![t] = k],
         k = None \/ (k \in Calls /\ (k.op = "receive" => CoreOf[t] \in Destination[k.pipe]))
  PROVE  /\ call' \in [Threads -> {None} \union Calls]
         /\ \A u \in Threads : call'[u] # None /\ call'[u].op = "receive"
              => CoreOf[u] \in Destination[call'[u].pipe]
BY DEF IInv, Types

\* At the start nothing was sent.
LEMMA InitIInv == Init => IInv
<1> SUFFICES ASSUME Init PROVE IInv
  OBVIOUS
<1>1. /\ queue = [p \in Pipes |-> << >>] /\ event = [p \in Pipes |-> FALSE]
      /\ sends = [p \in Pipes |-> 0] /\ call = [t \in Threads |-> None]
      /\ got = [e \in Pipes \X Cores |-> << >>] /\ failed = FALSE
  BY DEF Init, Cores
<1>2. Types
  <2>1. queue \in [Pipes -> Seq(Message)] /\ got \in [Pipes \X Cores -> Seq(Nat)]
    BY <1>1
  <2>2. call \in [Threads -> {None} \union Calls] /\ \A t \in Threads : call[t] = None
    BY <1>1
  <2> QED BY <1>1, <2>1, <2>2 DEF Types
<1>3. ASSUME NEW p \in Pipes PROVE PipeInv(queue[p], sends[p], Destination[p], ~failed)
  BY <1>1 DEF PipeInv, Sorted, Nested, CountedRight
<1>4. ASSUME NEW p \in Pipes, NEW c \in Cores
      PROVE  got[<<p, c>>] = << >> /\ CoreInv(queue[p], sends[p], got[<<p, c>>], c, ~failed)
  <2>1. got[<<p, c>>] = << >>
    BY <1>1
  <2>2. queue[p] = << >> /\ sends[p] = 0
    BY <1>1
  <2> QED BY <2>1, <2>2 DEF CoreInv, Behind, Complete
<1>5. EventTracks
  BY <1>1 DEF EventTracks
<1> QED BY <1>2, <1>3, <1>4, <1>5 DEF IInv

\* An exception only weakens what is kept of a pipe.
LEMMA Weakens ==
  ASSUME NEW q, NEW n, NEW D, NEW g, NEW c, NEW ok \in BOOLEAN, NEW ok2 \in BOOLEAN, ok2 => ok
  PROVE  /\ PipeInv(q, n, D, ok) => PipeInv(q, n, D, ok2)
         /\ CoreInv(q, n, g, c, ok) => CoreInv(q, n, g, c, ok2)
BY DEF PipeInv, CountedRight, Counts, CoreInv

\* Steps that change one pipe.
LEMMA OneMoved ==
  ASSUME IInv, NEW p \in Pipes, Types', failed => failed',
         \A o \in Pipes \ {p} :
           /\ queue'[o] = queue[o] /\ event'[o] = event[o] /\ sends'[o] = sends[o]
           /\ \A c \in Cores : got'[<<o, c>>] = got[<<o, c>>],
         PipeInv(queue'[p], sends'[p], Destination[p], ~failed'),
         \A c \in Cores :
           IF c \in Destination[p] THEN CoreInv(queue'[p], sends'[p], got'[<<p, c>>], c, ~failed')
           ELSE got'[<<p, c>>] = << >>,
         ~failed' => (event'[p] <=> queue'[p] # << >>)
  PROVE  IInv'
<1>1. failed \in BOOLEAN /\ failed' \in BOOLEAN
  BY DEF IInv, Types
<1>2. ASSUME NEW o \in Pipes PROVE PipeInv(queue'[o], sends'[o], Destination[o], ~failed')
  <2>1. CASE o # p
    <3>1. PipeInv(queue[o], sends[o], Destination[o], ~failed)
      BY DEF IInv
    <3>2. PipeInv(queue[o], sends[o], Destination[o], ~failed')
      BY <1>1, <3>1, Weakens
    <3> QED BY <2>1, <3>2
  <2> QED BY <2>1
<1>3. ASSUME NEW o \in Pipes, NEW c \in Cores
      PROVE  IF c \in Destination[o]
             THEN CoreInv(queue'[o], sends'[o], got'[<<o, c>>], c, ~failed')
             ELSE got'[<<o, c>>] = << >>
  <2>1. CASE o # p /\ c \in Destination[o]
    <3>1. CoreInv(queue[o], sends[o], got[<<o, c>>], c, ~failed)
      BY <2>1 DEF IInv
    <3>2. CoreInv(queue[o], sends[o], got[<<o, c>>], c, ~failed')
      BY <1>1, <3>1, Weakens
    <3> QED BY <2>1, <3>2
  <2>2. CASE o # p /\ c \notin Destination[o]
    BY <2>2 DEF IInv
  <2> QED BY <2>1, <2>2
<1>4. EventTracks'
  BY DEF IInv, EventTracks
<1> QED BY <1>2, <1>3, <1>4 DEF IInv

\* A message is sent.
LEMMA SentKeeps == ASSUME IInv, NEW t \in Threads, Sent(t) PROVE IInv'
<1> DEFINE p == call[t].pipe
           m == [id |-> sends[p], remaining |-> Counted[p], receivers |-> {},
                 length |-> call[t].length]
<1>1. Resumed(t, "send") /\ call' = [call EXCEPT ![t] = None]
  BY DEF Sent, Continues
<1>2. /\ p \in Pipes /\ queue[p] \in Seq(Message) /\ sends[p] \in Nat
      /\ IsFiniteSet(Destination[p]) /\ Counted[p] = Cardinality(Destination[p])
      /\ call[t].length \in Nat
  BY <1>1, AtTransfer
<1>3. m \in Message
  BY <1>2, FS_CardinalityType DEF Message
<1>4. m.id = sends[p] /\ m.remaining = Cardinality(Destination[p]) /\ m.receivers = {}
  BY <1>2
<1>5. /\ queue' = [queue EXCEPT ![p] = Append(queue[p], m)]
      /\ event' = [event EXCEPT ![p] = TRUE]
      /\ sends' = [sends EXCEPT ![p] = sends[p] + 1]
      /\ got' = got /\ failed' = failed
  BY DEF Sent
<1> HIDE DEF p, m
<1>6. Append(queue[p], m) \in Seq(Message) /\ Append(queue[p], m) # << >>
  BY <1>2, <1>3, AppendProperties
<1>7. /\ queue'[p] = Append(queue[p], m) /\ sends'[p] = sends[p] + 1 /\ event'[p]
      /\ \A o \in Pipes \ {p} :
           queue'[o] = queue[o] /\ event'[o] = event[o] /\ sends'[o] = sends[o]
  BY <1>2, <1>5 DEF IInv, Types
<1>8. Types'
  <2>1. /\ call' \in [Threads -> {None} \union Calls]
        /\ \A u \in Threads : call'[u] # None /\ call'[u].op = "receive"
             => CoreOf[u] \in Destination[call'[u].pipe]
    BY <1>1, CallChanges
  <2>2. queue' \in [Pipes -> Seq(Message)] /\ event' \in [Pipes -> BOOLEAN]
        /\ sends' \in [Pipes -> Nat]
    BY <1>2, <1>5, <1>6 DEF IInv, Types
  <2> QED BY <1>5, <2>1, <2>2 DEF IInv, Types
<1>9. failed \in BOOLEAN /\ (~failed) \in BOOLEAN
  BY DEF IInv, Types
<1>10. PipeInv(queue'[p], sends'[p], Destination[p], ~failed')
  <2>1. PipeInv(queue[p], sends[p], Destination[p], ~failed)
    BY <1>2 DEF IInv
  <2>2. PipeInv(Append(queue[p], m), sends[p] + 1, Destination[p], ~failed)
    BY <1>2, <1>3, <1>4, <1>9, <2>1, SendKeepsPipe
  <2> QED BY <1>5, <1>7, <2>2
<1>11. ASSUME NEW c \in Cores
       PROVE  IF c \in Destination[p]
              THEN CoreInv(queue'[p], sends'[p], got'[<<p, c>>], c, ~failed')
              ELSE got'[<<p, c>>] = << >>
  <2>1. CASE c \in Destination[p]
    <3>1. CoreInv(queue[p], sends[p], got[<<p, c>>], c, ~failed)
      BY <1>2, <2>1 DEF IInv
    <3>2. got[<<p, c>>] \in Seq(Nat)
      BY <1>2 DEF IInv, Types
    <3>3. CoreInv(Append(queue[p], m), sends[p] + 1, got[<<p, c>>], c, ~failed)
      BY <1>2, <1>3, <1>4, <1>9, <3>1, <3>2, SendKeepsCore
    <3> QED BY <1>5, <1>7, <2>1, <3>3
  <2>2. CASE c \notin Destination[p]
    BY <1>2, <1>5, <2>2 DEF IInv
  <2> QED BY <2>1, <2>2
<1> QED BY <1>2, <1>5, <1>6, <1>7, <1>8, <1>10, <1>11, OneMoved

\* A copy raises: the receiver is recorded, and not counted down.
LEMMA MismatchKeeps == ASSUME IInv, NEW t \in Threads, Mismatch(t) PROVE IInv'
<1> DEFINE p == call[t].pipe
           i == FirstFor(CoreOf[t], p)
           q == Marked(p, i, CoreOf[t])
<1>1. Resumed(t, "receive") /\ i # 0
  BY DEF Mismatch
<1>2. /\ p \in Pipes /\ queue[p] \in Seq(Message) /\ sends[p] \in Nat
      /\ IsFiniteSet(Destination[p]) /\ CoreOf[t] \in Cores /\ CoreOf[t] \in Destination[p]
      /\ ItsTurn(queue[p], i, CoreOf[t])
  BY <1>1, AtTransfer
<1>3. /\ queue' = [queue EXCEPT ![p] = q] /\ failed' = TRUE
      /\ event' = event /\ sends' = sends /\ call' = call /\ got' = got
  BY DEF Mismatch
<1>4. i \in 1 .. Len(queue[p]) /\ CoreOf[t] \notin queue[p][i].receivers
  BY <1>2 DEF ItsTurn
<1> HIDE DEF p, i
<1>5. /\ q \in Seq(Message) /\ IsMarked(q, queue[p], i, CoreOf[t])
      /\ q[i].remaining = queue[p][i].remaining
  BY <1>2, <1>4, MarkedIs
<1> HIDE DEF q
<1>6. queue'[p] = q /\ \A o \in Pipes \ {p} : queue'[o] = queue[o]
  BY <1>2, <1>3 DEF IInv, Types
<1>7. Types'
  BY <1>2, <1>3, <1>5 DEF IInv, Types
<1>8. PipeInv(queue[p], sends[p], Destination[p], ~failed) /\ (~failed) \in BOOLEAN
  BY <1>2 DEF IInv, Types
<1>9. PipeInv(q, sends[p], Destination[p], FALSE)
  <2>1. PipeInv(queue[p], sends[p], Destination[p], FALSE)
    BY <1>8, Weakens
  <2>2. /\ Sorted(q, sends[p]) /\ Nested(q, Destination[p])
        /\ \A j \in 1 .. Len(q) : j # i => Counts(q[j], Destination[p], FALSE)
    BY <1>2, <1>5, <2>1, MarkKeepsPipe
  <2>3. Counts(q[i], Destination[p], FALSE)
    <3>1. /\ queue[p][i].remaining >= Cardinality(Destination[p] \ queue[p][i].receivers)
          /\ Destination[p] # {} => queue[p][i].remaining > 0
      BY <1>4, <2>1 DEF PipeInv, CountedRight, Counts
    <3>2. queue[p][i].remaining \in Nat
      <4>1. queue[p][i] \in Message
        BY <1>2, <1>4, LenProperties
      <4> QED BY <4>1 DEF Message
    <3>3. /\ Cardinality(Destination[p] \ q[i].receivers)
               = Cardinality(Destination[p] \ queue[p][i].receivers) - 1
          /\ Cardinality(Destination[p] \ queue[p][i].receivers) \in Nat
      <4>1. q[i].receivers = queue[p][i].receivers \union {CoreOf[t]}
        BY <1>5 DEF IsMarked
      <4>2. /\ Cardinality(Destination[p] \ (queue[p][i].receivers \union {CoreOf[t]}))
                 = Cardinality(Destination[p] \ queue[p][i].receivers) - 1
            /\ Cardinality(Destination[p] \ queue[p][i].receivers) \in Nat
        BY <1>2, <1>4, OneFewer
      <4> QED BY <4>1, <4>2
    <3> QED BY <1>5, <3>1, <3>2, <3>3 DEF Counts
  <2> QED BY <2>2, <2>3 DEF PipeInv, CountedRight
<1>10. ASSUME NEW c \in Cores
       PROVE  IF c \in Destination[p]
              THEN CoreInv(queue'[p], sends'[p], got'[<<p, c>>], c, ~failed')
              ELSE got'[<<p, c>>] = << >>
  <2>1. CASE c \in Destination[p]
    <3>1. CoreInv(queue[p], sends[p], got[<<p, c>>], c, ~failed)
      BY <1>2, <2>1 DEF IInv
    <3>2. got[<<p, c>>] \in Seq(Nat)
      BY <1>2 DEF IInv, Types
    <3>3. CoreInv(q, sends[p], got[<<p, c>>], c, FALSE)
      BY <1>2, <1>5, <1>8, <3>1, <3>2, MarkKeepsLoser
    <3> QED BY <1>3, <1>6, <2>1, <3>3
  <2>2. CASE c \notin Destination[p]
    BY <1>2, <1>3, <2>2 DEF IInv
  <2> QED BY <2>1, <2>2
<1> QED BY <1>2, <1>3, <1>6, <1>7, <1>9, <1>10, OneMoved

\* A message is received, by its last receiver or by another.
LEMMA ReceivedKeeps == ASSUME IInv, NEW t \in Threads, Received(t) PROVE IInv'
<1> DEFINE p == call[t].pipe
           i == FirstFor(CoreOf[t], p)
           d == CoreOf[t]
           D == Destination[p]
           q == queue[p]
           n == sends[p]
           ok == ~failed
           r == Marked(p, i, d)
           s == CountedDown(r, i)
           g == got[<<p, d>>]
           h == Append(g, q[i].id)
<1>1. Resumed(t, "receive") /\ i # 0 /\ call' = [call EXCEPT ![t] = None]
  BY DEF Received, Continues
<1>2. /\ p \in Pipes /\ q \in Seq(Message) /\ n \in Nat /\ IsFiniteSet(D)
      /\ d \in Cores /\ d \in D /\ ItsTurn(q, i, d)
  BY <1>1, AtTransfer
<1>3. /\ queue' = [queue EXCEPT ![p] = s] /\ event' = [event EXCEPT ![p] = EventAfter(p, s)]
      /\ got' = [got EXCEPT ![<<p, d>>] = h]
      /\ sends' = sends /\ failed' = failed /\ event[p]
  BY DEF Received
<1>4. i \in 1 .. Len(q) /\ d \notin q[i].receivers
  BY <1>2 DEF ItsTurn
<1>5. /\ r \in Seq(Message) /\ IsMarked(r, q, i, d) /\ r[i].remaining = q[i].remaining
  <2> HIDE DEF i, p
  <2> QED BY <1>2, <1>4, MarkedIs
<1>6. /\ PipeInv(q, n, D, ok) /\ ok \in BOOLEAN /\ CoreInv(q, n, g, d, ok) /\ g \in Seq(Nat)
      /\ \A c \in Cores \intersect D : CoreInv(q, n, got[<<p, c>>], c, ok) /\ got[<<p, c>>] \in Seq(Nat)
      /\ \A c \in Cores \ D : got[<<p, c>>] = << >>
  BY <1>2 DEF IInv, Types
<1>7. q[i] \in Message /\ q[i].remaining \in Nat /\ q[i].id \in Nat
  <2>1. q[i] \in Message
    BY <1>2, <1>4, LenProperties
  <2> QED BY <2>1 DEF Message
<1>8. h \in Seq(Nat)
  BY <1>6, <1>7, AppendProperties
<1> HIDE DEF p, i, d, D, q, n, ok, r, s, g, h
\* The receiver counts down: the ways in which the message stays or goes.
<1>9. /\ Cardinality(D \ q[i].receivers) \in Nat \ {0}
      /\ Cardinality(D \ r[i].receivers) = Cardinality(D \ q[i].receivers) - 1
      /\ Cardinality(D \ q[i].receivers) = 1 => D \subseteq r[i].receivers
  <2>1. r[i].receivers = q[i].receivers \union {d}
    BY <1>5 DEF IsMarked
  <2>2. /\ Cardinality(D \ q[i].receivers) \in Nat \ {0}
        /\ Cardinality(D \ (q[i].receivers \union {d})) = Cardinality(D \ q[i].receivers) - 1
    BY <1>2, <1>4, OneFewer
  <2>3. ASSUME Cardinality(D \ q[i].receivers) = 1 PROVE D \subseteq r[i].receivers
    <3>1. Cardinality(D \ r[i].receivers) = 0
      BY <2>1, <2>2, <2>3
    <3>2. D \ r[i].receivers \in SUBSET D
      OBVIOUS
    <3>3. IsFiniteSet(D \ r[i].receivers)
      BY <1>2, <3>2, FS_Subset
    <3>4. D \ r[i].receivers = {}
      BY <3>1, <3>3, FS_EmptySet
    <3> QED BY <3>4
  <2> QED BY <2>1, <2>2, <2>3
<1>10. Counts(q[i], D, ok)
  BY <1>4, <1>6 DEF PipeInv, CountedRight
<1>11. /\ Sorted(r, n) /\ Nested(r, D) /\ Len(r) = Len(q) /\ r[i].receivers \subseteq D
       /\ \A j \in 1 .. Len(r) : j # i => Counts(r[j], D, ok)
  <2>1. /\ Sorted(r, n) /\ Nested(r, D)
        /\ \A j \in 1 .. Len(r) : j # i => Counts(r[j], D, ok)
    BY <1>2, <1>5, <1>6, MarkKeepsPipe
  <2>2. Len(r) = Len(q)
    BY <1>5 DEF IsMarked
  <2> QED BY <1>4, <2>1, <2>2 DEF Nested
<1>12. CoreInv(r, n, h, d, ok)
  <2>1. Sorted(q, n)
    BY <1>6 DEF PipeInv
  <2> QED BY <1>2, <1>5, <1>6, <2>1, MarkServes DEF h
<1>13. ASSUME NEW c \in Cores \intersect D, c # d PROVE CoreInv(r, n, got[<<p, c>>], c, ok)
  BY <1>2, <1>5, <1>6, <1>13, MarkKeepsOthers
<1>14. /\ s \in Seq(Message) /\ PipeInv(s, n, D, ok) /\ CoreInv(s, n, h, d, ok)
       /\ \A c \in Cores \intersect D : c # d => CoreInv(s, n, got[<<p, c>>], c, ok)
  <2>1. CASE q[i].remaining = 1
    <3>1. s = RemoveAt(r, i)
      BY <1>5, <2>1 DEF s, CountedDown
    <3>2. i \in 1 .. Len(r)
      BY <1>4, <1>11
    <3>3. D \subseteq r[i].receivers
      <4>1. Cardinality(D \ q[i].receivers) = 1
        BY <1>9, <1>10, <2>1 DEF Counts
      <4> QED BY <1>9, <4>1
    <3>4. s \in Seq(Message)
      BY <1>5, <3>1, <3>2, RemoveAtIs
    <3>5. PipeInv(s, n, D, ok)
      BY <1>2, <1>5, <1>6, <1>11, <3>1, <3>2, RemoveKeepsPipe
    <3>6. CoreInv(s, n, h, d, ok)
      BY <1>2, <1>5, <1>6, <1>8, <1>12, <3>1, <3>2, <3>3, RemoveKeepsCore
    <3>7. ASSUME NEW c \in Cores \intersect D, c # d PROVE CoreInv(s, n, got[<<p, c>>], c, ok)
      BY <1>2, <1>5, <1>6, <1>13, <3>1, <3>2, <3>3, <3>7, RemoveKeepsCore
    <3> QED BY <3>4, <3>5, <3>6, <3>7
  <2>2. CASE q[i].remaining # 1
    <3>1. r[i].remaining # 1 /\ r[i].remaining # 0 /\ i \in 1 .. Len(r)
      BY <1>4, <1>5, <1>7, <1>9, <1>10, <1>11, <2>2 DEF Counts
    <3>2. /\ s \in Seq(Message) /\ Len(s) = Len(r)
          /\ \A j \in 1 .. Len(r) : /\ s[j].id = r[j].id /\ s[j].receivers = r[j].receivers
                                    /\ j # i => s[j].remaining = r[j].remaining
          /\ s[i].remaining = r[i].remaining - 1
      BY <1>5, <3>1, DownIs DEF s
    <3>3. Sorted(s, n) /\ Nested(s, D)
      BY <1>11, <3>2 DEF Sorted, Nested
    <3>4. CountedRight(s, D, ok)
      <4> SUFFICES ASSUME NEW j \in 1 .. Len(s) PROVE Counts(s[j], D, ok)
        BY DEF CountedRight
      <4>1. CASE j # i
        BY <1>11, <3>2, <4>1 DEF Counts
      <4>2. CASE j = i
        <5>1. s[i].remaining = q[i].remaining - 1
          BY <1>5, <3>2
        <5>2. Cardinality(D \ s[i].receivers) = Cardinality(D \ q[i].receivers) - 1
          BY <1>9, <3>1, <3>2
        <5>3. /\ q[i].remaining >= Cardinality(D \ q[i].receivers)
              /\ ok => q[i].remaining = Cardinality(D \ q[i].receivers)
          BY <1>10 DEF Counts
        <5>4. s[i].remaining > 0
          BY <1>7, <1>9, <2>2, <5>1, <5>3
        <5>5. /\ s[i].remaining >= Cardinality(D \ s[i].receivers)
              /\ ok => s[i].remaining = Cardinality(D \ s[i].receivers)
          BY <1>7, <1>9, <5>1, <5>2, <5>3
        <5> QED BY <4>2, <5>4, <5>5 DEF Counts
      <4> QED BY <4>1, <4>2
    <3>5. \A c, x : CoreInv(r, n, x, c, ok) => CoreInv(s, n, x, c, ok)
      BY <3>2 DEF CoreInv, Behind, Complete
    <3> QED BY <1>12, <1>13, <3>2, <3>3, <3>4, <3>5 DEF PipeInv
  <2> QED BY <2>1, <2>2
<1>15. /\ queue'[p] = s /\ sends'[p] = n /\ event'[p] = EventAfter(p, s)
       /\ got'[<<p, d>>] = h
       /\ \A o \in Pipes \ {p} : queue'[o] = queue[o] /\ event'[o] = event[o]
       /\ \A o \in Pipes, c \in Cores : o # p \/ c # d => got'[<<o, c>>] = got[<<o, c>>]
  BY <1>2, <1>3 DEF IInv, Types, n
<1>16. Types'
  <2>1. /\ call' \in [Threads -> {None} \union Calls]
        /\ \A u \in Threads : call'[u] # None /\ call'[u].op = "receive"
             => CoreOf[u] \in Destination[call'[u].pipe]
    BY <1>1, CallChanges
  <2>2. queue' \in [Pipes -> Seq(Message)] /\ got' \in [Pipes \X Cores -> Seq(Nat)]
    BY <1>2, <1>3, <1>8, <1>14 DEF IInv, Types
  <2>3. event' \in [Pipes -> BOOLEAN]
    <3>1. EventAfter(p, s) \in BOOLEAN
      BY <1>2 DEF EventAfter, IInv, Types
    <3> QED BY <1>3, <3>1 DEF IInv, Types
  <2> QED BY <1>3, <2>1, <2>2, <2>3 DEF IInv, Types
<1>17. ASSUME NEW c \in Cores
       PROVE  IF c \in Destination[p]
              THEN CoreInv(queue'[p], sends'[p], got'[<<p, c>>], c, ~failed')
              ELSE got'[<<p, c>>] = << >>
  <2>1. CASE c = d
    BY <1>2, <1>3, <1>14, <1>15, <2>1 DEF D, ok
  <2>2. CASE c # d
    BY <1>2, <1>3, <1>6, <1>14, <1>15, <2>2 DEF D, ok
  <2> QED BY <2>1, <2>2
<1>18. PipeInv(queue'[p], sends'[p], Destination[p], ~failed')
  BY <1>3, <1>14, <1>15 DEF D, ok
<1>19. event'[p] <=> queue'[p] # << >>
  BY <1>3, <1>15 DEF EventAfter
<1>20. \A o \in Pipes \ {p} :
           /\ queue'[o] = queue[o] /\ event'[o] = event[o] /\ sends'[o] = sends[o]
           /\ \A c \in Cores : got'[<<o, c>>] = got[<<o, c>>]
  BY <1>3, <1>15
<1> QED BY <1>2, <1>3, <1>16, <1>17, <1>18, <1>19, <1>20, OneMoved

\* A receiver that waits in vain raises.
LEMMA TimesOutKeeps == ASSUME IInv, NEW t \in Threads, TimesOut(t) PROVE IInv'
<1> DEFINE p == call[t].pipe
<1>1. Resumed(t, "receive")
  BY DEF TimesOut
<1>2. p \in Pipes
  BY <1>1, AtTransfer
<1>3. /\ event' = [event EXCEPT ![p] = FALSE] /\ failed' = TRUE
      /\ queue' = queue /\ sends' = sends /\ call' = call /\ got' = got
  BY DEF TimesOut
<1> HIDE DEF p
<1>4. Types'
  BY <1>2, <1>3 DEF IInv, Types
<1>5. \A o \in Pipes \ {p} : event'[o] = event[o]
  BY <1>2, <1>3 DEF IInv, Types
<1>6. (~failed) \in BOOLEAN
  BY DEF IInv, Types
<1>7. PipeInv(queue'[p], sends'[p], Destination[p], ~failed')
  <2>1. PipeInv(queue[p], sends[p], Destination[p], FALSE)
    BY <1>2, <1>6, Weakens DEF IInv
  <2> QED BY <1>3, <2>1
<1>8. ASSUME NEW c \in Cores
      PROVE  IF c \in Destination[p]
             THEN CoreInv(queue'[p], sends'[p], got'[<<p, c>>], c, ~failed')
             ELSE got'[<<p, c>>] = << >>
  <2>1. CASE c \in Destination[p]
    <3>1. CoreInv(queue[p], sends[p], got[<<p, c>>], c, ~failed)
      BY <1>2, <2>1 DEF IInv
    <3>2. CoreInv(queue[p], sends[p], got[<<p, c>>], c, FALSE)
      BY <1>6, <3>1, Weakens
    <3> QED BY <1>3, <2>1, <3>2
  <2>2. CASE c \notin Destination[p]
    BY <1>2, <1>3, <2>2 DEF IInv
  <2> QED BY <2>1, <2>2
<1> QED BY <1>2, <1>3, <1>4, <1>5, <1>7, <1>8, OneMoved

\* A copy begins.
LEMMA BeginKeeps ==
  ASSUME IInv, NEW t \in Threads, NEW k \in Calls, Begin(t, k),
         k.op = "receive" => CoreOf[t] \in Destination[k.pipe]
  PROVE  IInv'
<1>1. call' = [call EXCEPT ![t] = k] /\ UNCHANGED <<buffer, got, failed>>
  BY DEF Begin
<1>2. /\ call' \in [Threads -> {None} \union Calls]
      /\ \A u \in Threads : call'[u] # None /\ call'[u].op = "receive"
           => CoreOf[u] \in Destination[call'[u].pipe]
  BY <1>1, CallChanges
<1> QED BY <1>1, <1>2, Unmoved

\* A step of a thread.
LEMMA ThreadKeeps == ASSUME IInv, NEW t \in Threads, ThreadStep(t) PROVE IInv'
<1> USE PlacesAssumption
<1>1. CASE Send(t)
  <2>1. PICK p \in Pipes, n \in Lengths[t] :
          Begin(t, [op |-> "send", pipe |-> p, length |-> n])
    BY <1>1 DEF Send
  <2>2. [op |-> "send", pipe |-> p, length |-> n] \in Calls
    BY DEF Calls
  <2> QED BY <2>1, <2>2, BeginKeeps
<1>2. CASE Receive(t)
  <2>1. PICK p \in Pipes, n \in Lengths[t] :
          /\ CoreOf[t] \in Destination[p]
          /\ Begin(t, [op |-> "receive", pipe |-> p, length |-> n])
    BY <1>2 DEF Receive
  <2>2. [op |-> "receive", pipe |-> p, length |-> n] \in Calls
    BY DEF Calls
  <2> QED BY <2>1, <2>2, BeginKeeps
<1>3. CASE Return(t)
  <2>1. call' = call /\ UNCHANGED <<buffer, got, failed>>
    BY <1>3 DEF Return
  <2> QED BY <2>1, Unmoved DEF IInv, Types
<1> QED BY <1>1, <1>2, <1>3, SentKeeps, ReceivedKeeps, MismatchKeeps, TimesOutKeeps DEF ThreadStep

\* Every step keeps the invariant; those of the scheduler do not touch the pipes.
LEMMA StepIInv == IInv /\ [Next]_vars => IInv'
<1> SUFFICES ASSUME IInv, [Next]_vars PROVE IInv'
  OBVIOUS
<1>1. CASE SchedulerStep \/ UNCHANGED vars
  <2>1. call' = call /\ UNCHANGED <<buffer, got, failed>>
    BY <1>1 DEF SchedulerStep, vars
  <2> QED BY <2>1, Unmoved DEF IInv, Types
<1>2. CASE NextKernel
  <2>1. call' = [t \in Threads |-> None] /\ UNCHANGED <<buffer, got, failed>>
    BY <1>2 DEF NextKernel
  <2>2. /\ call' \in [Threads -> {None} \union Calls]
        /\ \A t \in Threads : call'[t] = None
    BY <2>1
  <2> QED BY <2>1, <2>2, Unmoved
<1> QED BY <1>1, <1>2, ThreadKeeps DEF Next, Runs

-----------------------------------------------------------------------------
(* The theorems.                                                           *)

\* The invariant that is inductive: messages queued in order, receivers nested,
\* everybody counted, what was received and what is queued complete each other.
THEOREM PipesInvariant == Spec => []IInv
BY InitIInv, StepIInv, PTL DEF Spec

\* Every receiver gets every message once and in the order they were sent (the
\* transfer of PipeToBlockHandler), unless a copy raised.
THEOREM ReceivedOnceInOrder == Spec => []OnceInOrder
<1>1. IInv => OnceInOrder
  <2> SUFFICES ASSUME IInv, NEW p \in Pipes, NEW t \in Threads
               PROVE  LET g == got[<<p, CoreOf[t]>>]
                      IN /\ \A i \in 1 .. Len(g) - 1 : g[i] < g[i + 1]
                         /\ ~failed => \A i \in DOMAIN g : g[i] = i - 1
    BY DEF OnceInOrder
  <2> DEFINE g == got[<<p, CoreOf[t]>>]
  <2>1. CoreOf[t] \in Cores
    BY DEF Cores
  <2>2. g \in Seq(Nat)
    BY <2>1 DEF IInv, Types
  <2>3. Len(g) \in Nat /\ DOMAIN g = 1 .. Len(g)
    BY <2>2, LenProperties
  <2>4. CASE CoreOf[t] \in Destination[p]
    <3>1. CoreInv(queue[p], sends[p], g, CoreOf[t], ~failed)
      BY <2>1, <2>4 DEF IInv
    <3> HIDE DEF g
    <3>2. \A i \in 1 .. Len(g) - 1 : g[i] < g[i + 1]
      BY <2>3, <3>1 DEF CoreInv, Behind
    <3>3. ~failed => \A i \in DOMAIN g : g[i] = i - 1
      BY <2>3, <3>1 DEF CoreInv, Complete
    <3> QED BY <3>2, <3>3 DEF g
  <2>5. CASE CoreOf[t] \notin Destination[p]
    <3>1. g = << >>
      BY <2>1, <2>5 DEF IInv
    <3> QED BY <2>3, <3>1
  <2> QED BY <2>4, <2>5
<1> QED BY <1>1, PipesInvariant, PTL

\* A message is kept for exactly the receivers that are still to come: remaining
\* counts the destinations that are not recorded.
THEOREM KeptForReceivers == Spec => []Owed
<1>1. IInv => Owed
  <2> SUFFICES ASSUME IInv, ~failed, NEW p \in Pipes, NEW i \in DOMAIN queue[p],
                      NEW m, m = queue[p][i]
               PROVE  /\ Destination[p] # {} => m.remaining > 0
                      /\ m.remaining = Cardinality(Destination[p] \ m.receivers)
                      /\ \A c \in Destination[p] : \A t \in Threads :
                           CoreOf[t] = c => (c \in m.receivers <=> Contains(got[<<p, c>>], m.id))
    BY DEF Owed
  <2>1. queue[p] \in Seq(Message) /\ DOMAIN queue[p] = 1 .. Len(queue[p])
    BY LenProperties DEF IInv, Types
  <2>2. m.id \in Nat
    <3>1. m \in Message
      BY <2>1, LenProperties
    <3> QED BY <3>1 DEF Message
  <2>3. Counts(m, Destination[p], TRUE)
    BY <2>1 DEF IInv, PipeInv, CountedRight
  <2>4. ASSUME NEW c \in Destination[p], NEW t \in Threads, CoreOf[t] = c
        PROVE  c \in m.receivers <=> Contains(got[<<p, c>>], m.id)
    <3> DEFINE g == got[<<p, c>>]
    <3>1. c \in Cores
      BY <2>4 DEF Cores
    <3>2. Complete(queue[p], sends[p], g, c)
      BY <3>1 DEF IInv, CoreInv
    <3>3. Len(g) \in Nat
      BY <3>1, LenProperties DEF IInv, Types
    <3>4. c \in m.receivers <=> m.id < Len(g)
      BY <2>1, <3>2 DEF Complete
    <3>5. \A k \in 1 .. Len(g) : g[k] = k - 1
      BY <3>2 DEF Complete
    <3> HIDE DEF g
    <3>6. m.id < Len(g) <=> \E k \in 1 .. Len(g) : g[k] = m.id
      <4>1. ASSUME m.id < Len(g) PROVE \E k \in 1 .. Len(g) : g[k] = m.id
        <5>1. m.id + 1 \in 1 .. Len(g) /\ g[m.id + 1] = m.id
          BY <2>2, <3>3, <3>5, <4>1
        <5> QED BY <5>1
      <4>2. ASSUME NEW k \in 1 .. Len(g), g[k] = m.id PROVE m.id < Len(g)
        BY <2>2, <3>3, <3>5, <4>2
      <4> QED BY <4>1, <4>2
    <3> QED BY <3>4, <3>6 DEF Contains, g
  <2> QED BY <2>3, <2>4 DEF Counts
<1> QED BY <1>1, PipesInvariant, PTL

\* The event of a pipe is set exactly while messages are queued, as long as no
\* copy raised: no receiver times out while a message for it is there.
THEOREM EventsTrack == Spec => []EventTracks
<1>1. IInv => EventTracks
  BY DEF IInv
<1> QED BY <1>1, PipesInvariant, PTL

-----------------------------------------------------------------------------
(* The scheduler of every kernel.                                          *)

\* The theorems of GreenletScheduler, about its variables as PipeNet has them.
P == INSTANCE GreenletScheduler_proofs
       WITH ready <- Ready, passed <- [t \in Threads |-> {}]

\* Both instances speak of the same scheduler: its invariant,
LEMMA SameInv == Scheduler!IInv <=> P!IInv
BY DEF Scheduler!IInv, P!IInv, Scheduler!TypeOK, P!TypeOK,
       Scheduler!CandidatesActive, P!CandidatesActive,
       Scheduler!CurrentRuns, P!CurrentRuns, Scheduler!FirstPassAhead, P!FirstPassAhead,
       Scheduler!Stalled, P!Stalled, Scheduler!DeadlockSound, P!DeadlockSound,
       Scheduler!Idle, P!Idle

\* and its steps.
LEMMA SameNext == Scheduler!Next => [P!Next]_(P!vars)
BY DEF P!vars, Scheduler!Next, P!Next, Scheduler!Scheduler, P!Scheduler,
       Scheduler!InitEnds, P!InitEnds, Scheduler!PassBegins, P!PassBegins,
       Scheduler!AllDone, P!AllDone, Scheduler!Deadlocks, P!Deadlocks,
       Scheduler!Skip, P!Skip, Scheduler!Switch, P!Switch, Scheduler!IsNext, P!IsNext,
       Scheduler!Work, P!Work, Scheduler!Block, P!Block, Scheduler!Returns, P!Returns,
       Scheduler!Complete, P!Complete, Scheduler!Fail, P!Fail,
       Scheduler!Stamped, P!Stamped, Scheduler!Idle, P!Idle,
       Scheduler!sched, P!sched

\* A thread that goes on without the scheduler works, in the scheduler's terms.
LEMMA GoesOn ==
  ASSUME NEW t \in Threads, current = t, UNCHANGED sched
  PROVE  Scheduler!Work
<1>1. Ready' \in [Threads -> BOOLEAN]
  BY DEF Ready, Can
<1> QED BY <1>1, ThreadsAssumption DEF Scheduler!Work, Scheduler!Idle, Scheduler!sched, sched

\* What the thread of a kernel does is a step of the scheduler's specification.
LEMMA ThreadIsScheduled ==
  ASSUME NEW t \in Threads, ThreadStep(t)
  PROVE  Scheduler!Next
<1>1. ASSUME NEW c, Begin(t, c) PROVE Scheduler!Next
  BY <1>1, GoesOn DEF Begin, Scheduler!Next
<1>2. CASE Send(t) \/ Receive(t)
  BY <1>1, <1>2 DEF Send, Receive
<1>3. CASE Sent(t) \/ Received(t)
  BY <1>3, GoesOn DEF Sent, Received, Resumed, Continues, Scheduler!Next
<1>4. CASE Mismatch(t) \/ TimesOut(t)
  BY <1>4 DEF Mismatch, TimesOut, Scheduler!Next
<1>5. CASE Return(t)
  BY <1>5 DEF Return, Scheduler!Next
<1> QED BY <1>2, <1>3, <1>4, <1>5 DEF ThreadStep

\* Every kernel starts as the scheduler's specification says.
LEMMA StartsScheduled ==
  ASSUME P!IInv, NextKernel
  PROVE  P!IInv'
<1>1. Ready' \in [Threads -> BOOLEAN]
  BY DEF Ready, Can
<1>2. algorithm \in {"fair", "greedy"}
  BY DEF P!IInv, P!TypeOK
<1> QED BY <1>1, <1>2, ThreadsAssumption
        DEF NextKernel, P!IInv, P!TypeOK, P!CandidatesActive, P!CurrentRuns, P!FirstPassAhead,
            P!Stalled, P!DeadlockSound, P!Idle

\* In every kernel, also one that finds messages of an earlier one, only active
\* threads are tried and run, and a deadlock is reported only when every thread
\* left waits in vain (greenlet_scheduler.py, run).
THEOREM SchedulesEveryKernel == Spec => []Scheduler!IInv
<1>1. Init => P!IInv
  BY P!InitInvariant, ThreadsAssumption DEF Init, Scheduler!Init, P!Init
<1>2. ASSUME P!IInv, [Next]_vars PROVE P!IInv'
  <2>1. [P!Next]_(P!vars) => P!IInv'
    BY <1>2, P!StepInvariant, ThreadsAssumption
  <2>2. CASE Runs
    <3>1. Scheduler!Next
      BY <2>2, ThreadIsScheduled DEF Runs, SchedulerStep, Scheduler!Next
    <3> QED BY <2>1, <3>1, SameNext
  <2>3. CASE NextKernel
    BY <1>2, <2>3, StartsScheduled
  <2>4. CASE UNCHANGED vars
    <3>1. Ready' = Ready
      BY <2>4 DEF vars, buffer, Ready, Can
    <3> QED BY <2>1, <2>4, <3>1 DEF vars, sched, P!vars
  <2> QED BY <1>2, <2>2, <2>3, <2>4 DEF Next
<1>3. P!IInv => Scheduler!IInv
  BY SameInv
<1> QED BY <1>1, <1>2, <1>3, PTL DEF Spec

\* Queues hold messages, calls are copies, and what a core received are numbers
\* of messages; the scheduler's fields have their types in every kernel.
THEOREM TypeCorrect == Spec => []TypeOK
<1> DEFINE Numbered == kernel \in Nat
<1>1. Init => Numbered
  BY DEF Init
<1>2. Numbered /\ [Next]_vars => Numbered'
  <2>1. NextKernel => kernel' = kernel + 1
    BY DEF NextKernel
  <2>2. SchedulerStep \/ UNCHANGED vars => kernel' = kernel
    BY DEF SchedulerStep, vars
  <2>3. \A t \in Threads : ThreadStep(t) => kernel' = kernel
    BY DEF ThreadStep, Send, Receive, Begin, Sent, Received, Mismatch, TimesOut, Return
  <2> QED BY <2>1, <2>2, <2>3 DEF Next, Runs
<1>3. IInv /\ Scheduler!IInv /\ Numbered => TypeOK
  BY DEF IInv, Types, TypeOK, Calls, Cores, Scheduler!IInv
<1> HIDE DEF Numbered
<1> QED BY <1>1, <1>2, <1>3, PipesInvariant, SchedulesEveryKernel, PTL DEF Spec
=============================================================================
