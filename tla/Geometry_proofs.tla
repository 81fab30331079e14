--------------------------- MODULE Geometry_proofs ---------------------------
(***************************************************************************)
(* What the functions of CoreGrid, WorkSplit, TileAccess, BlockMath and    *)
(* KernelLaunch return, for arguments of any size: each section has the    *)
(* theorem about the functions, and the property of MCGeometry that        *)
(* follows for whatever bounds are put on its calls.                       *)
(***************************************************************************)
EXTENDS MCGeometry, Induction, TLAPS

-----------------------------------------------------------------------------
(* Calls.                                                                  *)

\* A state is one of the calls, or none.
LEMMA Called == Spec => [](call \in Calls \union {Idle})
<1>1. Init => call \in Calls \union {Idle}
  BY DEF Init
<1>2. call \in Calls \union {Idle} /\ [Next]_call => (call \in Calls \union {Idle})'
  <2> SUFFICES ASSUME call \in Calls \union {Idle}, [Next]_call
               PROVE  call' \in Calls \union {Idle}
    OBVIOUS
  <2> QED BY DEF Next, Make, Done
<1> DEFINE I == call \in Calls \union {Idle}
<1>3. Init => I
  BY <1>1
<1>4. I /\ [Next]_call => I'
  BY <1>2
<1> HIDE DEF I
<1>5. Spec => []I
  BY <1>3, <1>4, PTL DEF Spec
<1> QED BY <1>5 DEF I

\* A call is a record of the fields that its function has.
LEMMA CallIs ==
  ASSUME call \in Calls \union {Idle}
  PROVE  /\ call.f = "core" =>
              call \in [f : {"core"}, dims : 1 .. 3, grid : Grids]
         /\ call.f = "range" =>
              call \in [f : {"range"}, range : Ranges, grid : Grids]
         /\ call.f = "ranges" =>
              call \in [f : {"ranges"}, line : 1 .. MaxGrid + 1, lines : {MaxGrid + 1},
                        from : 0 .. MaxGrid, target : 1 .. MaxUnits]
         /\ call.f = "split" =>
              call \in [f : {"split"}, grid : Sizes \X Sizes, units : 1 .. MaxUnits, row_wise : BOOLEAN]
         /\ call.f = "matmul" =>
              call \in [f : {"matmul"}, Mt : {1, 4, 6, 11, 22}, Nt : {1, 8, 12, 26, 64},
                        y : {1, 2, 8}, x : {2, 8}, k : {1, 4, 8}]
         /\ call.f = "tiles" =>
              call \in [f : {"tiles"}, dim : Extents, key : Keys]
         /\ call.f = "copy" =>
              call \in [f : {"copy"}, src : Views, dst : Views, block : Shapes]
         /\ call.f = "elementwise" =>
              call \in [f : {"elementwise"}, l : Shapes, r : Shapes]
         /\ call.f = "product" =>
              call \in [f : {"product"}, m : 1 .. MaxBlock, k : 1 .. MaxBlock, n : 1 .. MaxBlock]
         /\ call.f = "reduce" =>
              call \in [f : {"reduce"}, shape : Shapes, dims : {{0}, {1}, {0, 1}}]
         /\ call.f = "launch" =>
              call \in [f : {"launch"}, kernel : UserKernels, first : OneEach, next : OneEach]
         /\ call.f = "registers" =>
              call \in [f : {"registers"}, dtype : {"bf16", "f32"}, nested : BOOLEAN, call : OneEach,
                        fp32 : {Unset, TRUE, FALSE}, sync : {Unset, TRUE, FALSE}]
<1> DEFINE C1 == [f : {"core"}, dims : 1 .. 3, grid : Grids]
           C2 == [f : {"range"}, range : Ranges, grid : Grids]
           C3 == [f : {"ranges"}, line : 1 .. MaxGrid + 1, lines : {MaxGrid + 1},
                           from : 0 .. MaxGrid, target : 1 .. MaxUnits]
           C4 == [f : {"split"}, grid : Sizes \X Sizes, units : 1 .. MaxUnits, row_wise : BOOLEAN]
           C5 == [f : {"matmul"}, Mt : {1, 4, 6, 11, 22}, Nt : {1, 8, 12, 26, 64},
                           y : {1, 2, 8}, x : {2, 8}, k : {1, 4, 8}]
           C6 == [f : {"tiles"}, dim : Extents, key : Keys]
           C7 == [f : {"copy"}, src : Views, dst : Views, block : Shapes]
           C8 == [f : {"elementwise"}, l : Shapes, r : Shapes]
           C9 == [f : {"product"}, m : 1 .. MaxBlock, k : 1 .. MaxBlock, n : 1 .. MaxBlock]
           C10 == [f : {"reduce"}, shape : Shapes, dims : {{0}, {1}, {0, 1}}]
           C11 == [f : {"launch"}, kernel : UserKernels, first : OneEach, next : OneEach]
           C12 == [f : {"registers"}, dtype : {"bf16", "f32"}, nested : BOOLEAN, call : OneEach,
                           fp32 : {Unset, TRUE, FALSE}, sync : {Unset, TRUE, FALSE}]
<1>1. call \in C1 \union C2 \union C3 \union C4 \union C5 \union C6 \union C7 \union C8 \union C9 \union C10 \union C11 \union C12 \union {Idle}
  BY DEF Calls
<1>2. \A c \in C1 : c.f = "core"
  OBVIOUS
<1>3. \A c \in C2 : c.f = "range"
  OBVIOUS
<1>4. \A c \in C3 : c.f = "ranges"
  OBVIOUS
<1>5. \A c \in C4 : c.f = "split"
  OBVIOUS
<1>6. \A c \in C5 : c.f = "matmul"
  OBVIOUS
<1>7. \A c \in C6 : c.f = "tiles"
  OBVIOUS
<1>8. \A c \in C7 : c.f = "copy"
  OBVIOUS
<1>9. \A c \in C8 : c.f = "elementwise"
  OBVIOUS
<1>10. \A c \in C9 : c.f = "product"
  OBVIOUS
<1>11. \A c \in C10 : c.f = "reduce"
  OBVIOUS
<1>12. \A c \in C11 : c.f = "launch"
  OBVIOUS
<1>13. \A c \in C12 : c.f = "registers"
  OBVIOUS
<1>14. Idle.f = "none"
  BY DEF Idle
<1> HIDE DEF C1, C2, C3, C4, C5, C6, C7, C8, C9, C10, C11, C12
<1>15. /\ call.f = "core" => call \in C1
       /\ call.f = "range" => call \in C2
       /\ call.f = "ranges" => call \in C3
       /\ call.f = "split" => call \in C4
       /\ call.f = "matmul" => call \in C5
       /\ call.f = "tiles" => call \in C6
       /\ call.f = "copy" => call \in C7
       /\ call.f = "elementwise" => call \in C8
       /\ call.f = "product" => call \in C9
       /\ call.f = "reduce" => call \in C10
       /\ call.f = "launch" => call \in C11
       /\ call.f = "registers" => call \in C12
  BY <1>1, <1>2, <1>3, <1>4, <1>5, <1>6, <1>7, <1>8, <1>9, <1>10, <1>11, <1>12, <1>13, <1>14
<1> QED BY <1>15 DEF C1, C2, C3, C4, C5, C6, C7, C8, C9, C10, C11, C12

-----------------------------------------------------------------------------
(* Launches (KernelLaunch).                                                *)

\* Tensors of one id are one tensor.
Tensors(args) == \A i, j \in DOMAIN args : args[i].id = args[j].id => args[i] = args[j]

\* What a kernel function of n tensors may be.
IsKernel(k, n) ==
  /\ DOMAIN k.buffers \in {1 .. l : l \in Nat} /\ k.buffers \in [DOMAIN k.buffers -> 1 .. n]
  /\ \A i \in DOMAIN k.threads : \A j \in DOMAIN k.threads[i].tensors :
       k.threads[i].tensors[j] \in 1 .. n
  /\ Captured(k) \subseteq DOMAIN k.buffers

\* The global index of a tensor is that of an argument with its id.
LEMMA GlobalIndexIs ==
  ASSUME NEW T, NEW args \in Seq(T), NEW i \in DOMAIN args
  PROVE  GlobalIndex(args, args[i]) \in DOMAIN args
         /\ args[GlobalIndex(args, args[i])].id = args[i].id
<1> DEFINE I == {j \in DOMAIN args : args[j].id = args[i].id}
<1>1. I \in SUBSET Nat /\ I # {} /\ Len(args) \in Nat /\ \A j \in I : j <= Len(args)
  BY LenProperties
<1> HIDE DEF I
<1>2. Max(I) \in I
  BY <1>1, MaxIs
<1> QED BY <1>2 DEF I, GlobalIndex

\* Calls that the cache does not tell apart are compiled to the same code, when
\* they have one grid and the same aliases.
LEMMA HitCompilesAlike ==
  ASSUME NEW T, NEW k, NEW first, NEW next, first.args \in Seq(T), next.args \in Seq(T),
         IsKernel(k, Len(next.args)), Hit(k, first, next), first.grid = next.grid,
         SameAliases(first.args, next.args), Compilable(k, next.args)
  PROVE  Compiled(k, first) = Compiled(k, next)
<1> DEFINE a == first.args
           b == next.args
<1>1. Compilable(k, a)
  BY DEF Hit, Compiled
<1>2. DOMAIN a = DOMAIN b /\ \A i \in DOMAIN a : a[i].dtype = b[i].dtype
  <2>1. CacheKey(a) = CacheKey(b)
    BY DEF Hit
  <2>2. DOMAIN CacheKey(a) = DOMAIN a /\ DOMAIN CacheKey(b) = DOMAIN b
    BY DEF CacheKey
  <2>3. ASSUME NEW i \in DOMAIN a PROVE a[i].dtype = b[i].dtype
    <3>1. CacheKey(a)[i] = <<a[i].dtype, a[i].space, a[i].layout>>
          /\ CacheKey(b)[i] = <<b[i].dtype, b[i].space, b[i].layout>>
      BY <2>1, <2>2 DEF CacheKey
    <3> QED BY <2>1, <3>1
  <2> QED BY <2>1, <2>2, <2>3
<1>3. Len(a) = Len(b) /\ DOMAIN b = 1 .. Len(b) /\ Len(b) \in Nat
  BY <1>2, LenProperties
<1>4. ASSUME NEW i \in DOMAIN b PROVE GlobalIndex(a, a[i]) = GlobalIndex(b, b[i])
  <2>1. {j \in DOMAIN a : a[j].id = a[i].id} = {j \in DOMAIN b : b[j].id = b[i].id}
    BY <1>2 DEF SameAliases
  <2> QED BY <2>1 DEF GlobalIndex
<1> HIDE DEF a, b
<1>5. BufferConfigs(k, a) = BufferConfigs(k, b)
  <2>1. ASSUME NEW c \in Captured(k) PROVE a[k.buffers[c]].dtype = b[k.buffers[c]].dtype
    <3>1. k.buffers[c] \in DOMAIN b
      BY <1>3 DEF IsKernel, b
    <3> QED BY <1>2, <3>1
  <2> QED BY <2>1 DEF BufferConfigs
<1>6. ASSUME NEW i \in DOMAIN k.threads
      PROVE  CompiledThread(k, k.threads[i], a) = CompiledThread(k, k.threads[i], b)
  <2> DEFINE th == k.threads[i]
  <2>1. \A j \in DOMAIN th.tensors : th.tensors[j] \in DOMAIN b
    BY <1>3 DEF IsKernel, b
  <2>2. \A j \in DOMAIN th.tensors :
           /\ GlobalIndex(a, a[th.tensors[j]]) = GlobalIndex(b, b[th.tensors[j]])
           /\ CTAIndex(k, a, a[th.tensors[j]]) = CTAIndex(k, b, b[th.tensors[j]])
           /\ a[th.tensors[j]].dtype = b[th.tensors[j]].dtype
    BY <1>2, <1>4, <2>1 DEF CTAIndex
  <2> HIDE DEF th
  <2> QED BY <2>2 DEF CompiledThread, th
<1>7. Len(first.args) = Len(next.args) /\ BufferConfigs(k, first.args) = BufferConfigs(k, next.args)
  BY <1>3, <1>5 DEF a, b
<1>8. [i \in DOMAIN k.threads |-> CompiledThread(k, k.threads[i], first.args)]
      = [i \in DOMAIN k.threads |-> CompiledThread(k, k.threads[i], next.args)]
  BY <1>6 DEF a, b
<1> QED BY <1>1, <1>7, <1>8 DEF Compiled, a

\* The accessors of interleaved tensors, one for each.
LEMMA InterleavedAccessors ==
  ASSUME NEW T, NEW args \in Seq(T), \A i \in DOMAIN args : args[i].interleaved
  PROVE  FlattenSeq([i \in DOMAIN args |-> AccessorArgs(args[i])])
         = [i \in 1 .. Len(args) |-> <<"accessor", args[i].space>>]
<1> DEFINE s == [i \in 1 .. Len(args) |-> <<"accessor", args[i].space>>]
           S == {<<"accessor", args[i].space>> : i \in 1 .. Len(args)}
<1>1. Len(args) \in Nat /\ DOMAIN args = 1 .. Len(args)
  BY LenProperties
<1>2. s \in Seq(S) /\ Len(s) = Len(args)
  BY <1>1
<1>3. [i \in DOMAIN args |-> AccessorArgs(args[i])] = [i \in 1 .. Len(s) |-> <<s[i]>>]
  BY <1>1, <1>2 DEF AccessorArgs
<1> HIDE DEF s, S
<1> QED BY <1>2, <1>3, FlattenSingles DEF s

\* Every call launches what is compiled for it, whatever was compiled for the
\* call before, and reads its own tensors (ttl_api.py:1264, kernel_runner.py).
THEOREM EveryLaunchIsOwn ==
  ASSUME NEW T, NEW k, NEW first, NEW next, NEW device,
         first.args \in Seq(T), next.args \in Seq(T), Tensors(next.args),
         IsKernel(k, Len(next.args))
  PROVE  LaunchIsOwn(k, first, next, device)
<1> DEFINE args   == next.args
           own    == Compiled(k, next)
           launch == Launch(Served(k, first, next), args, device)
<1>1. SUFFICES ASSUME Hit(k, first, next) =>
                        /\ first.grid = next.grid /\ SameAliases(first.args, args)
                        /\ Compilable(k, args)
               PROVE  /\ launch = Launch(own, args, device)
                      /\ (launch # Error /\ Len(k.buffers) \in Captured(k)) =>
                           /\ ReadsOwn(k, next, launch)
                           /\ launch.grid = next.grid
                           /\ \A b \in Captured(k) :
                                launch.buffers[b] = args[k.buffers[b]].dtype
  BY Zenon DEF LaunchIsOwn
<1>2. Served(k, first, next) = own
  BY <1>1, HitCompilesAlike DEF Served
<1>3. ASSUME launch # Error, Len(k.buffers) \in Captured(k)
      PROVE  /\ ReadsOwn(k, next, launch)
             /\ launch.grid = next.grid
             /\ \A b \in Captured(k) : launch.buffers[b] = args[k.buffers[b]].dtype
  <2> DEFINE cbs == [b \in DOMAIN own.buffers |-> <<"cb", b>>]
             accessors == FlattenSeq([i \in DOMAIN args |-> AccessorArgs(args[i])])
             L == [grid    |-> own.grid,
                   buffers |-> own.buffers,
                   kernels |-> [i \in DOMAIN own.threads |->
                     [code |-> own.threads[i],
                      crta |-> [j \in DOMAIN own.threads[i].indices |->
                                  args[own.threads[i].indices[j]].id],
                      cta  |-> IF own.threads[i].type = "compute" THEN cbs ELSE cbs \o accessors]]]
             n == Len(k.buffers)
  <2>1. own # Error /\ launch = L
    <3>1. launch = Launch(own, args, device)
      BY <1>2
    <3>2. launch # Error
      BY <1>3
    <3> HIDE DEF own, launch
    <3>3. own # Error
      BY <3>1, <3>2, Zenon DEF Launch
    <3>4. Launch(own, args, device) = L
      BY <3>1, <3>2, Zenon DEF Launch
    <3> QED BY <3>1, <3>3, <3>4
  <2>2. Compilable(k, args)
        /\ own = [count   |-> Len(args), grid |-> next.grid,
                  buffers |-> BufferConfigs(k, args),
                  threads |-> [i \in DOMAIN k.threads |-> CompiledThread(k, k.threads[i], args)]]
    BY <2>1, ZenonT(40) DEF Compiled
  <2>3. Len(args) \in Nat /\ DOMAIN args = 1 .. Len(args)
    BY LenProperties
  <2>4. n \in Nat /\ DOMAIN k.buffers = 1 .. n /\ Captured(k) \in SUBSET (1 .. n)
    BY DEF IsKernel
  <2>5. Max(Captured(k) \union {0}) = n
    <3> DEFINE C == Captured(k) \union {0}
    <3> HIDE DEF n
    <3>1. C \in SUBSET Nat /\ C # {} /\ (\A c \in C : c <= n) /\ n \in C
      BY <1>3, <2>4 DEF n
    <3> HIDE DEF C
    <3>2. Max(C) \in C /\ \A c \in C : c <= Max(C)
      BY <2>4, <3>1, MaxIs
    <3>3. Max(C) \in Nat /\ Max(C) <= n /\ n <= Max(C) /\ n \in Nat
      BY <3>1, <3>2
    <3>4. Max(C) = n
      BY <3>3
    <3> QED BY <3>4 DEF C
  <2>6. own.buffers = [b \in 1 .. n |-> IF b \in Captured(k) THEN args[k.buffers[b]].dtype
                                        ELSE Unset]
    BY <2>2, <2>5 DEF BufferConfigs
  <2>7. accessors = [i \in 1 .. Len(args) |-> <<"accessor", args[i].space>>]
    BY <2>2, InterleavedAccessors DEF Compilable
  <2>8. DOMAIN (cbs \o accessors) = 1 .. n + Len(args)
        /\ \A g \in 1 .. Len(args) : (cbs \o accessors)[n + g] = <<"accessor", args[g].space>>
    <3> DEFINE S == {<<"cb", b>> : b \in 1 .. n} \union
                    {<<"accessor", args[g].space>> : g \in 1 .. Len(args)}
               c == cbs
               a == accessors
    <3>1. n \in Nat /\ DOMAIN own.buffers = 1 .. n
      BY <2>4, <2>6
    <3> HIDE DEF n, own
    <3>2. c = [b \in 1 .. n |-> <<"cb", b>>] /\ c \in Seq(S) /\ Len(c) = n
      BY <3>1
    <3>3. a = [g \in 1 .. Len(args) |-> <<"accessor", args[g].space>>]
      BY <2>7
    <3> HIDE DEF a, args
    <3>4. a \in Seq(S) /\ Len(a) = Len(args)
      BY <2>3, <3>3
    <3> HIDE DEF c, S
    <3>5. /\ c \o a \in Seq(S) /\ Len(c \o a) = n + Len(args)
          /\ \A g \in 1 .. Len(args) : (c \o a)[n + g] = a[g]
      <4>1. /\ c \o a \in Seq(S) /\ Len(c \o a) = Len(c) + Len(a)
            /\ \A g \in 1 .. Len(a) : (c \o a)[Len(c) + g] = a[g]
        <5>1. c \in Seq(S) /\ a \in Seq(S)
          BY <3>2, <3>4
        <5> QED BY <5>1, ConcatParts
      <4> QED BY <3>2, <3>4, <4>1
    <3> QED BY <3>3, <3>5, LenProperties DEF c, a
  <2>9. ASSUME NEW i \in DOMAIN k.threads, NEW j \in DOMAIN k.threads[i].tensors,
               k.threads[i].type = "noc"
        PROVE  LET t    == args[k.threads[i].tensors[j]]
                   kern == launch.kernels[i]
               IN /\ kern.crta[j] = t.id
                  /\ kern.code.cta[j] \in DOMAIN kern.cta
                  /\ kern.cta[kern.code.cta[j]] = AccessorArgs(t)[1]
                  /\ kern.code.pages[j] = t.dtype
    <3> DEFINE t    == args[k.threads[i].tensors[j]]
               g    == GlobalIndex(args, t)
               code == CompiledThread(k, k.threads[i], args)
               kern == launch.kernels[i]
    <3>1. k.threads[i].tensors[j] \in DOMAIN args
      BY <2>3 DEF IsKernel
    <3>2. g \in DOMAIN args /\ args[g].id = t.id
      BY <3>1, GlobalIndexIs
    <3>3. args[g] = t
      BY <3>1, <3>2 DEF Tensors
    <3>4. code.type = "noc" /\ code.indices[j] = g /\ code.cta[j] = n + g
          /\ code.pages[j] = t.dtype /\ j \in DOMAIN code.indices
      BY <2>9 DEF CompiledThread, CTAIndex
    <3>5. AccessorArgs(t)[1] = <<"accessor", t.space>>
      BY <2>2, <3>1 DEF AccessorArgs, Compilable
    <3>6. i \in DOMAIN own.threads /\ own.threads[i] = code
      BY <2>2
    <3> DEFINE all == cbs \o accessors
    <3>7. /\ kern.code = code
          /\ kern.crta = [l \in DOMAIN code.indices |-> args[code.indices[l]].id]
          /\ kern.cta = IF code.type = "compute" THEN cbs ELSE all
      <4> HIDE DEF own, launch, cbs, accessors, code, args
      <4>1. launch.kernels[i] =
              [code |-> own.threads[i],
               crta |-> [l \in DOMAIN own.threads[i].indices |-> args[own.threads[i].indices[l]].id],
               cta  |-> IF own.threads[i].type = "compute" THEN cbs ELSE all]
        BY <2>1, <3>6
      <4> QED BY <3>6, <4>1
    <3>8. n + g \in DOMAIN all /\ all[n + g] = <<"accessor", args[g].space>>
      <4>1. g \in 1 .. Len(args)
        BY <3>2, <2>3
      <4> HIDE DEF n, g, args, all
      <4>2. n + g \in 1 .. n + Len(args)
        BY <2>3, <2>4, <4>1
      <4> QED BY <2>8, <4>1, <4>2 DEF all
    <3> HIDE DEF t, g, code, n, all, kern, args
    <3>9. kern.crta[j] = t.id /\ kern.cta = all
      BY <3>3, <3>4, <3>7
    <3>10. kern.code.cta[j] = n + g
      BY <3>4, <3>7
    <3>11. kern.cta[kern.code.cta[j]] = <<"accessor", t.space>>
      BY <3>3, <3>8, <3>9, <3>10
    <3> QED BY <3>4, <3>5, <3>7, <3>8, <3>9, <3>10, <3>11 DEF t, kern
  <2>10. ReadsOwn(k, next, launch)
    BY <2>9, Zenon DEF ReadsOwn
  <2>11. launch.grid = next.grid
    <3>1. L.grid = own.grid /\ own.grid = next.grid
      BY <2>2
    <3> HIDE DEF launch, L
    <3> QED BY <2>1, <3>1
  <2>12. ASSUME NEW b \in Captured(k) PROVE launch.buffers[b] = args[k.buffers[b]].dtype
    <3>1. L.buffers = own.buffers
      OBVIOUS
    <3> HIDE DEF launch, L, own
    <3> QED BY <2>1, <2>4, <2>6, <3>1
  <2> QED BY <2>10, <2>11, <2>12, SMTT(30)
<1> QED BY <1>2, <1>3

\* Every launch of the calls is the call's own.
THEOREM LaunchesHold == Spec => []Launches
<1> DEFINE I == call \in Calls \union {Idle}
<1>1. I => Launches
  <2> SUFFICES ASSUME call \in Calls \union {Idle}, call.f = "launch"
               PROVE  LaunchIsOwn(call.kernel, call.first, call.next, Device)
    BY DEF Launches
  <2>1. call.kernel \in UserKernels /\ call.first \in OneEach /\ call.next \in OneEach
    BY CallIs
  <2> DEFINE k == call.kernel
             T == {Tensor(i, p) : i \in 1 .. 2, p \in Properties}
  <2>2. ASSUME NEW c \in OneEach PROVE c.args \in Seq(T) /\ Len(c.args) = 2 /\ Tensors(c.args)
    <3>1. PICK i \in 1 .. 2, j \in 1 .. 2, p \in Properties, q \in Properties :
            c.args = <<Tensor(i, p), Tensor(j, q)>>
      BY DEF OneEach, UserCalls
    <3>2. Tensor(i, p) \in T /\ Tensor(j, q) \in T
      OBVIOUS
    <3> HIDE DEF T
    <3>3. c.args \in Seq(T) /\ Len(c.args) = 2
      BY <3>1, <3>2
    <3>4. Tensors(c.args)
      BY <3>1, SMTT(40) DEF OneEach, Tensors
    <3> QED BY <3>3, <3>4
  <2>3. IsKernel(k, 2)
    <3>1. k \in Kernels /\ Captured(k) \subseteq DOMAIN k.buffers
      BY <2>1 DEF UserKernels
    <3> DEFINE B == {<<1, 2>>, <<1, 2, 1>>, <<2, 1, 2, 1>>}
               C == {{1, 2}, {1, 2, 3}, {4}}
               R == {<<1>>, <<2, 1>>}
               W == {<<2>>}
               Make3(b, c, r, w) ==
                 [buffers |-> b, threads |-> <<Thread("compute", << >>, c), Thread("noc", r, {1}),
                                               Thread("noc", w, {2})>>]
    <3>2. PICK b \in B, c \in C, r \in R, w \in W : k = Make3(b, c, r, w)
      <4>1. k \in {Make3(b, c, r, w) : b \in B, c \in C, r \in R, w \in W}
        BY <3>1 DEF Kernels
      <4> HIDE DEF Make3, B, C, R, W
      <4> QED BY <4>1
    <3>3. DOMAIN b = 1 .. Len(b) /\ Len(b) \in Nat /\ b \in [DOMAIN b -> 1 .. 2]
      OBVIOUS
    <3>4. k.buffers = b /\ DOMAIN k.threads = 1 .. 3 /\ k.threads[1].tensors = << >>
          /\ k.threads[2].tensors = r /\ k.threads[3].tensors = w
      BY <3>2 DEF Thread
    <3>5. ASSUME NEW i \in DOMAIN k.threads, NEW j \in DOMAIN k.threads[i].tensors
          PROVE  k.threads[i].tensors[j] \in 1 .. 2
      <4>1. (\A l \in DOMAIN r : r[l] \in 1 .. 2) /\ (\A l \in DOMAIN w : w[l] \in 1 .. 2)
            /\ DOMAIN << >> = {}
        OBVIOUS
      <4>2. i = 1 \/ i = 2 \/ i = 3
        BY <3>4
      <4> HIDE DEF k, R, W
      <4> QED BY <3>4, <4>1, <4>2
    <3> QED BY <3>1, <3>3, <3>4, <3>5, ZenonT(40) DEF IsKernel
  <2> DEFINE first == call.first
             next  == call.next
  <2>4. first.args \in Seq(T) /\ next.args \in Seq(T) /\ Tensors(next.args)
        /\ IsKernel(k, Len(next.args))
    <3>1. first \in OneEach /\ next \in OneEach
      BY <2>1
    <3> HIDE DEF T, first, next, k
    <3>2. first.args \in Seq(T)
      BY <2>2, <3>1
    <3>3. next.args \in Seq(T) /\ Len(next.args) = 2 /\ Tensors(next.args)
      BY <2>2, <3>1
    <3> QED BY <2>3, <3>2, <3>3
  <2> HIDE DEF k, T, first, next
  <2>5. LaunchIsOwn(k, first, next, Device)
    BY <2>4, EveryLaunchIsOwn
  <2> QED BY <2>5 DEF k, first, next
<1> HIDE DEF I
<1>2. Spec => []I
  BY Called DEF I
<1> QED BY <1>1, <1>2, PTL

-----------------------------------------------------------------------------
(* Registers (KernelLaunch).                                               *)

\* The compiler never counts more registers than the device is given, whatever
\* the types and the options (TTLAssignDST.cpp:80, ttl_api.py:626).
THEOREM RegisterCountsHold == Spec => []RegisterCounts
<1> DEFINE I == call \in Calls \union {Idle}
<1>1. I => RegisterCounts
  <2> SUFFICES ASSUME call \in Calls \union {Idle}, call.f = "registers"
               PROVE  RegistersExist(call, call.call.args, call)
    BY DEF RegisterCounts
  <2>1. /\ call.dtype \in {"bf16", "f32"} /\ call.nested \in BOOLEAN
        /\ call.fp32 \in {Unset, TRUE, FALSE} /\ call.sync \in {Unset, TRUE, FALSE}
    BY CallIs
  <2> DEFINE seen == \E i \in DOMAIN call.call.args : call.call.args[i].dtype = "f32"
  <2> HIDE DEF seen
  <2>2. CASE call.fp32 = Unset
    BY <2>1, <2>2 DEF RegistersExist, Capacity, Registers, DstSize, Fp32Attr, SyncAttr, seen
  <2>3. CASE call.fp32 # Unset
    BY <2>1, <2>3 DEF RegistersExist, Capacity, Registers, DstSize, Fp32Attr, SyncAttr, seen
  <2> QED BY <2>2, <2>3
<1> HIDE DEF I
<1>2. Spec => []I
  BY Called DEF I
<1> QED BY <1>1, <1>2, PTL

-----------------------------------------------------------------------------
(* Tiles of tensors and copies (TileAccess).                               *)

Intervals == [first : Int, size : Nat]

\* A slice that gives as many tiles as were asked for is inside the tensor.
THEOREM EverySliceAskedIsInside ==
  ASSUME NEW dim \in Nat, NEW key, key.start \in Int, key.stop \in Int
  PROVE  AskedIsInside(dim, key)
<1> DEFINE T == TileSize
           p == key.start
           q == key.stop
           v == GetTiles(Whole(dim), key)
           a == PyIndex(p * T, dim)
           b == PyIndex(q * T, dim)
<1>1. SUFFICES ASSUME Aligned(dim), v.size > 0, Tiles(v.size) = q - p, p >= 0
               PROVE  ValidTileCoordinates(dim, key)
  BY DEF AskedIsInside
<1>2. T \in Nat /\ T > 1 /\ p \in Int /\ q \in Int
  BY TileSizeAssumption
<1>3. a < b /\ v.size = b - a
  <2>1. v.size = IF a < b THEN b - a ELSE 0
    BY DEF GetTiles, Whole
  <2> HIDE DEF a, b
  <2> QED BY <1>1, <2>1
<1>4. dim = 1 \/ dim = (dim \div T) * T
  BY <1>1, <1>2 DEF Aligned
<1> HIDE DEF T, p, q, v
<1>5. p * T \in Int /\ q * T \in Int /\ p * T >= 0
  BY <1>1, <1>2
<1>6. a = (IF p * T <= dim THEN p * T ELSE dim) /\ b <= dim
  <2>1. \A i \in Int : i >= 0 => PyIndex(i, dim) = IF i <= dim THEN i ELSE dim
    BY DEF PyIndex
  <2>2. \A i \in Int : i < 0 => PyIndex(i, dim) <= dim
    BY DEF PyIndex
  <2>3. a = IF p * T <= dim THEN p * T ELSE dim
    BY <1>5, <2>1
  <2>4. b <= dim
    BY <1>5, <2>1, <2>2
  <2> QED BY <2>3, <2>4
<1>7. a = p * T /\ a < dim
  <2>1. \E w \in Int : w <= dim /\ a < w
    <3>1. \A i \in Int : PyIndex(i, dim) \in Int
      BY DEF PyIndex
    <3>2. b \in Int
      BY <1>5, <3>1
    <3> HIDE DEF a, b
    <3> QED BY <1>3, <1>6, <3>2
  <2> HIDE DEF a, b
  <2> QED BY <1>5, <1>6, <2>1
<1>8. CASE q * T <= dim /\ q * T >= 0
  <2>1. b = q * T /\ p * T < q * T
    BY <1>3, <1>5, <1>7, <1>8 DEF PyIndex
  <2>2. p < q /\ q > 0
    BY <1>1, <1>2, <2>1
  <2>3. dim # 1 /\ q <= dim \div T
    BY <1>2, <1>4, <1>8, <2>2
  <2> QED BY <1>1, <2>2, <2>3 DEF ValidTileCoordinates, p, q, T
<1>9. CASE q * T > dim
  <2>1. b = dim /\ v.size = dim - p * T
    BY <1>3, <1>5, <1>7, <1>9 DEF PyIndex
  <2>2. CASE dim = 1
    <3>1. p = 0 /\ v.size = 1
      BY <1>1, <1>2, <1>7, <2>1, <2>2
    <3>2. q = 1
      BY <1>1, <1>2, <3>1 DEF Tiles
    <3> QED BY <2>2, <3>1, <3>2 DEF ValidTileCoordinates, p, q, T
  <2>3. CASE dim # 1
    <3> DEFINE m == dim \div T
    <3>1. m \in Nat /\ dim = m * T
      BY <1>2, <1>4, <2>3
    <3> HIDE DEF m
    <3>2. v.size = (m - p) * T /\ m - p \in Int
      BY <1>2, <2>1, <3>1
    <3>3. m - p > 0
      BY <1>1, <1>2, <3>2
    <3>4. v.size # 1 /\ v.size \div T = m - p
      BY <1>2, <3>2, <3>3
    <3>5. q = m
      BY <1>1, <1>2, <3>1, <3>4 DEF Tiles, T
    <3> QED BY <1>9, <3>1, <3>5
  <2> QED BY <2>2, <2>3
<1>10. CASE q * T < 0
  <2>1. q < 0
    BY <1>2, <1>10
  <2>2. v.size \in Nat
    BY <1>1, <1>3, <1>5, <1>7, <1>10 DEF PyIndex
  <2>3. Tiles(v.size) \in Nat
    BY <1>2, <2>2 DEF Tiles, T
  <2> QED BY <1>1, <1>2, <2>1, <2>3
<1> QED BY <1>5, <1>8, <1>9, <1>10

\* Tile number t of an interval.
Cut(v, t) == [first |-> v.first + t * TileSize, size |-> IF v.size = 1 THEN 1 ELSE TileSize]

\* An interval of n tiles has their size, or is the one element that counts as
\* a tile.
LEMMA SizeOfTiles ==
  ASSUME NEW n \in Nat \ {0}, NEW size \in Nat, Aligned(size), Tiles(size) = n
  PROVE  IF size = 1 THEN n = 1 ELSE size = n * TileSize
BY TileSizeAssumption DEF Aligned, Tiles

\* What __getitem__ gives for tile t.
LEMMA TileIsCut ==
  ASSUME NEW v \in Intervals, NEW n \in Nat \ {0}, Aligned(v.size), Tiles(v.size) = n,
         NEW t \in 0 .. n - 1
  PROVE  GetTiles(v, [start |-> t, stop |-> t + 1]) = Cut(v, t)
<1> DEFINE T == TileSize
           s == v.size
           a == t * T
           b == (t + 1) * T
<1>1. T \in Nat /\ T > 1 /\ s \in Nat /\ v.first \in Int
  BY TileSizeAssumption DEF Intervals
<1>2. IF s = 1 THEN n = 1 ELSE s = n * T
  BY <1>1, SizeOfTiles DEF T
<1>3. GetTiles(v, [start |-> t, stop |-> t + 1])
      = [first |-> v.first + PyIndex(a, s),
         size |-> IF PyIndex(a, s) < PyIndex(b, s) THEN PyIndex(b, s) - PyIndex(a, s) ELSE 0]
  BY DEF GetTiles
<1> HIDE DEF T, s
<1>4. a \in Nat /\ b \in Nat /\ b = a + T
  BY <1>1
<1>5. CASE s = 1
  <2>1. a = 0 /\ PyIndex(a, s) = 0 /\ PyIndex(b, s) = 1
    <3>1. t = 0 /\ a = 0 /\ b = T
      BY <1>1, <1>2, <1>5
    <3>2. PyIndex(0, 1) = 0 /\ PyIndex(T, 1) = 1
      BY <1>1 DEF PyIndex
    <3> QED BY <1>5, <3>1, <3>2
  <2> QED BY <1>1, <1>3, <1>5, <2>1 DEF Cut, T, s
<1>6. CASE s # 1
  <2>1. b <= s
    BY <1>1, <1>2, <1>6
  <2>2. PyIndex(a, s) = a /\ PyIndex(b, s) = b
    BY <1>1, <1>4, <2>1 DEF PyIndex
  <2>3. a < b /\ b - a = T
    BY <1>1, <1>4
  <2> QED BY <1>3, <1>6, <2>2, <2>3 DEF Cut, T, s
<1> QED BY <1>5, <1>6

\* Where each element of an interval is among its tiles.
LEMMA CutsCover ==
  ASSUME NEW v \in Intervals, NEW n \in Nat \ {0}, Aligned(v.size), Tiles(v.size) = n,
         NEW e \in Int
  PROVE  /\ \A t \in 0 .. n - 1 :
              e \in Cut(v, t).first .. Cut(v, t).first + Cut(v, t).size - 1 =>
                /\ e \in v.first .. v.first + v.size - 1
                /\ t = IF v.size = 1 THEN 0 ELSE (e - v.first) \div TileSize
         /\ e \in v.first .. v.first + v.size - 1 =>
              \E t \in 0 .. n - 1 : e \in Cut(v, t).first .. Cut(v, t).first + Cut(v, t).size - 1
<1> DEFINE T == TileSize
           s == v.size
           f == v.first
           d == e - f
<1>1. T \in Nat /\ T > 1 /\ s \in Nat /\ f \in Int
  BY TileSizeAssumption DEF Intervals
<1>2. IF s = 1 THEN n = 1 ELSE s = n * T
  BY <1>1, SizeOfTiles DEF T
<1>3. \A t : Cut(v, t).first = f + t * T /\ Cut(v, t).size = IF s = 1 THEN 1 ELSE T
  BY DEF Cut
<1> HIDE DEF T, s, f
<1>4. ASSUME NEW t \in 0 .. n - 1,
             e \in Cut(v, t).first .. Cut(v, t).first + Cut(v, t).size - 1
      PROVE  e \in f .. f + s - 1 /\ t = IF s = 1 THEN 0 ELSE d \div T
  <2>1. CASE s = 1
    BY <1>1, <1>2, <1>3, <1>4, <2>1
  <2>2. CASE s # 1
    <3>1. d \in t * T .. t * T + T - 1 /\ t * T \in Nat
      BY <1>1, <1>3, <1>4, <2>2
    <3>2. t * T + T <= s
      BY <1>1, <1>2, <2>2
    <3>3. d \div T = t
      BY <1>1, <3>1
    <3> QED BY <1>1, <2>2, <3>1, <3>2, <3>3
  <2> QED BY <2>1, <2>2
<1>5. ASSUME e \in f .. f + s - 1
      PROVE  \E t \in 0 .. n - 1 : e \in Cut(v, t).first .. Cut(v, t).first + Cut(v, t).size - 1
  <2>1. CASE s = 1
    <3>1. e \in Cut(v, 0).first .. Cut(v, 0).first + Cut(v, 0).size - 1
      BY <1>1, <1>3, <1>5, <2>1
    <3> QED BY <3>1
  <2>2. CASE s # 1
    <3> DEFINE t == d \div T
    <3>1. d \in Nat /\ d < n * T
      BY <1>1, <1>2, <1>5, <2>2
    <3> HIDE DEF d
    <3>2. t \in Nat /\ t < n /\ t * T <= d /\ d < t * T + T
      BY <1>1, <3>1
    <3> HIDE DEF t
    <3>3. e = f + d /\ t * T \in Nat
      BY <1>1, <3>2 DEF d
    <3>4. e \in Cut(v, t).first .. Cut(v, t).first + Cut(v, t).size - 1 /\ t \in 0 .. n - 1
      BY <1>1, <1>3, <2>2, <3>1, <3>2, <3>3
    <3> QED BY <3>4
  <2> QED BY <2>1, <2>2
<1> QED BY <1>4, <1>5 DEF s, f, T

\* A view that is accepted for a block has its tiles, in the block's rows and
\* columns.
LEMMA TileOfView ==
  ASSUME NEW view \in Intervals \X Intervals, NEW block, block[1] \in Nat \ {0},
         block[2] \in Nat \ {0}, Accepted(view, block), NEW n \in 0 .. block[1] * block[2] - 1
  PROVE  /\ n \div block[2] \in 0 .. block[1] - 1 /\ n % block[2] \in 0 .. block[2] - 1
         /\ Tile(view, n) = <<Cut(view[1], n \div block[2]), Cut(view[2], n % block[2])>>
<1>1. \A i \in 1 .. 2 : view[i] \in Intervals /\ Aligned(view[i].size)
                        /\ Tiles(view[i].size) = block[i]
  BY DEF Accepted
<1>2. n \div block[2] \in 0 .. block[1] - 1 /\ n % block[2] \in 0 .. block[2] - 1
  <2> DEFINE a == block[1]
             b == block[2]
  <2>1. a \in Nat \ {0} /\ b \in Nat \ {0} /\ n \in 0 .. a * b - 1
    OBVIOUS
  <2> HIDE DEF a, b
  <2>2. n \div b \in 0 .. a - 1 /\ n % b \in 0 .. b - 1
    BY <2>1
  <2> QED BY <2>2 DEF a, b
<1>3. Tile(view, n) = <<GetTiles(view[1], [start |-> n \div block[2], stop |-> (n \div block[2]) + 1]),
                        GetTiles(view[2], [start |-> n % block[2], stop |-> (n % block[2]) + 1])>>
  BY <1>1 DEF Tile
<1>4. GetTiles(view[1], [start |-> n \div block[2], stop |-> (n \div block[2]) + 1])
      = Cut(view[1], n \div block[2])
  BY <1>1, <1>2, TileIsCut
<1>5. GetTiles(view[2], [start |-> n % block[2], stop |-> (n % block[2]) + 1])
      = Cut(view[2], n % block[2])
  BY <1>1, <1>2, TileIsCut
<1> QED BY <1>2, <1>3, <1>4, <1>5

\* Between a view and a block, and between two views of one number of tiles,
\* every element arrives at its place (copyhandlers.py).
THEOREM EveryCopyIsExact ==
  ASSUME NEW src \in Intervals \X Intervals, NEW dst \in Intervals \X Intervals, NEW block,
         block[1] \in Nat \ {0}, block[2] \in Nat \ {0}
  PROVE  CopyIsExact(src, dst, block)
<1> DEFINE a == block[1]
           b == block[2]
           N == 0 .. Count(src) - 1
           Fits == \A n \in N : Writable(Tile(src, n), Tile(dst, n))
           Latest(e) == CHOOSE n \in N : /\ e \in Elements(Tile(dst, n))
                                       /\ \A m \in N : e \in Elements(Tile(dst, m)) => m <= n
           Written == UNION {Elements(Tile(dst, n)) : n \in N}
           moved == Moved(src, dst)
<1>1. SUFFICES ASSUME Accepted(src, block), Accepted(dst, block)
               PROVE  /\ moved.done <=> \A i \in 1 .. 2 : \/ dst[i].size = src[i].size
                                                          \/ src[i].size = 1
                      /\ moved.done =>
                           /\ DOMAIN moved.from = Elements(dst)
                           /\ \A e \in Elements(dst) : moved.from[e] = Origin(e, src, dst)
  BY DEF CopyIsExact
<1>2. /\ \A i \in 1 .. 2 : src[i] \in Intervals /\ Aligned(src[i].size)
                            /\ Tiles(src[i].size) = block[i]
      /\ \A i \in 1 .. 2 : dst[i] \in Intervals /\ Aligned(dst[i].size)
                            /\ Tiles(dst[i].size) = block[i]
  BY <1>1 DEF Accepted
<1>3. /\ moved.done = Fits
      /\ Fits => moved.from = [e \in Written |-> Origin(e, Tile(src, Latest(e)), Tile(dst, Latest(e)))]
  BY Zenon DEF Moved
<1>4. N = 0 .. a * b - 1 /\ a \in Nat \ {0} /\ b \in Nat \ {0}
  BY <1>2 DEF Count
<1> HIDE DEF a, b, N, Latest, Written, Fits, moved
<1>5. ASSUME NEW n \in N
      PROVE  /\ n \div b \in 0 .. a - 1 /\ n % b \in 0 .. b - 1
             /\ Tile(src, n) = <<Cut(src[1], n \div b), Cut(src[2], n % b)>>
             /\ Tile(dst, n) = <<Cut(dst[1], n \div b), Cut(dst[2], n % b)>>
  BY <1>1, <1>4, TileOfView DEF a, b
<1>6. \A i \in 1 .. 2 : /\ IF src[i].size = 1 THEN block[i] = 1
                           ELSE src[i].size = block[i] * TileSize
                        /\ IF dst[i].size = 1 THEN block[i] = 1
                           ELSE dst[i].size = block[i] * TileSize
  <2>1. \A i \in 1 .. 2 : block[i] \in Nat \ {0} /\ src[i].size \in Nat /\ dst[i].size \in Nat
    BY <1>2 DEF Intervals
  <2> QED BY <1>2, <2>1, SizeOfTiles
<1>7. Fits <=> \A i \in 1 .. 2 : dst[i].size = src[i].size \/ src[i].size = 1
  <2> DEFINE Repeats(i) == dst[i].size = src[i].size \/ src[i].size = 1
             Fit(i, t) == \/ Cut(src[i], t).size = Cut(dst[i], t).size
                          \/ Cut(src[i], t).size = 1
  <2>1. \A i \in 1 .. 2 : \A t : Fit(i, t) <=> Repeats(i)
    BY <1>6, TileSizeAssumption DEF Cut
  <2>2. \A n \in N : Writable(Tile(src, n), Tile(dst, n)) <=> Fit(1, n \div b) /\ Fit(2, n % b)
    <3> HIDE DEF Fit
    <3>1. ASSUME NEW n \in N PROVE Writable(Tile(src, n), Tile(dst, n))
                                   <=> Fit(1, n \div b) /\ Fit(2, n % b)
      BY <1>5 DEF Writable, Fit
    <3> QED BY <3>1
  <2>3. 0 \in N
    BY <1>4
  <2> HIDE DEF Fit, Repeats
  <2>4. Fits <=> Repeats(1) /\ Repeats(2)
    BY <2>1, <2>2, <2>3 DEF Fits
  <2> QED BY <2>4 DEF Repeats
<1> DEFINE Of(i, t) == Cut(dst[i], t).first .. Cut(dst[i], t).first + Cut(dst[i], t).size - 1
           All(i)   == dst[i].first .. dst[i].first + dst[i].size - 1
           Which(i, x) == IF dst[i].size = 1 THEN 0 ELSE (x - dst[i].first) \div TileSize
<1>8. /\ Elements(dst) = All(1) \X All(2)
      /\ \A n \in N : Elements(Tile(dst, n)) = Of(1, n \div b) \X Of(2, n % b)
  <2>1. ASSUME NEW n \in N PROVE Elements(Tile(dst, n)) = Of(1, n \div b) \X Of(2, n % b)
    <3> DEFINE c == Cut(dst[1], n \div b)
               d == Cut(dst[2], n % b)
    <3>1. Tile(dst, n) = <<c, d>>
      BY <1>5
    <3>2. Of(1, n \div b) = c.first .. c.first + c.size - 1
          /\ Of(2, n % b) = d.first .. d.first + d.size - 1
      OBVIOUS
    <3> HIDE DEF c, d, Of
    <3>3. Tile(dst, n)[1] = c /\ Tile(dst, n)[2] = d
      BY <3>1
    <3> QED BY <3>2, <3>3, Zenon DEF Elements
  <2> QED BY <2>1 DEF Elements
<1>9. ASSUME NEW i \in 1 .. 2, NEW x \in Int
      PROVE  /\ \A t \in 0 .. block[i] - 1 : x \in Of(i, t) => x \in All(i) /\ t = Which(i, x)
             /\ x \in All(i) => \E t \in 0 .. block[i] - 1 : x \in Of(i, t)
  <2>1. block[i] \in Nat \ {0}
    OBVIOUS
  <2> QED BY <1>2, <2>1, CutsCover
<1>10. ASSUME NEW i \in 1 .. 2, NEW t \in Nat
       PROVE  (\A x \in Of(i, t) : x \in Int) /\ (\A x \in All(i) : x \in Int)
  BY <1>2, TileSizeAssumption DEF Intervals, Cut
<1> HIDE DEF Of, All, Which
<1>11. ASSUME NEW e \in Elements(dst)
       PROVE  \E n \in N : e \in Elements(Tile(dst, n))
  <2>1. e[1] \in All(1) /\ e[2] \in All(2) /\ e = <<e[1], e[2]>>
    BY <1>8
  <2>2. e[1] \in Int /\ e[2] \in Int
    BY <1>10, <2>1
  <2>3. PICK r \in 0 .. a - 1 : e[1] \in Of(1, r)
    BY <1>9, <2>1, <2>2 DEF a
  <2>4. PICK c \in 0 .. b - 1 : e[2] \in Of(2, c)
    BY <1>9, <2>1, <2>2 DEF b
  <2>5. r * b + c \in N /\ (r * b + c) \div b = r /\ (r * b + c) % b = c
    BY <1>4
  <2>6. e \in Elements(Tile(dst, r * b + c))
    BY <1>8, <2>1, <2>3, <2>4, <2>5
  <2> QED BY <2>5, <2>6
<1>12. ASSUME NEW n \in N, NEW e \in Elements(Tile(dst, n))
       PROVE  /\ e \in Elements(dst) /\ e[1] \in Of(1, n \div b) /\ e[2] \in Of(2, n % b)
              /\ e[1] \in Int /\ e[2] \in Int
              /\ n \div b = Which(1, e[1]) /\ n % b = Which(2, e[2])
  <2>1. e[1] \in Of(1, n \div b) /\ e[2] \in Of(2, n % b) /\ e = <<e[1], e[2]>>
    BY <1>8
  <2>2. n \div b \in 0 .. block[1] - 1 /\ n % b \in 0 .. block[2] - 1
    BY <1>5 DEF a, b
  <2>3. n \div b \in Nat /\ n % b \in Nat
    BY <2>2, <1>4 DEF a, b
  <2>4. e[1] \in Int /\ e[2] \in Int
    BY <1>10, <2>1, <2>3
  <2>5. e[1] \in All(1) /\ n \div b = Which(1, e[1])
    BY <1>9, <2>1, <2>2, <2>4
  <2>6. e[2] \in All(2) /\ n % b = Which(2, e[2])
    BY <1>9, <2>1, <2>2, <2>4
  <2> QED BY <1>8, <2>1, <2>4, <2>5, <2>6
<1>13. Written = Elements(dst)
  BY <1>11, <1>12 DEF Written
<1>14. ASSUME NEW e \in Elements(dst)
       PROVE  Latest(e) \in N /\ e \in Elements(Tile(dst, Latest(e)))
  <2>1. PICK n \in N : e \in Elements(Tile(dst, n))
    BY <1>11
  <2>2. ASSUME NEW m \in N, e \in Elements(Tile(dst, m)) PROVE m = n
    <3>1. m \div b = n \div b /\ m % b = n % b
      BY <1>12, <2>1, <2>2
    <3> QED BY <1>4, <3>1
  <2>3. n \in Int
    BY <1>4
  <2>4. \A m \in N : e \in Elements(Tile(dst, m)) => m <= n
    BY <2>2, <2>3
  <2> QED BY <2>1, <2>4 DEF Latest
<1>15. ASSUME NEW e \in Elements(dst), NEW n \in N, e \in Elements(Tile(dst, n))
       PROVE  Origin(e, Tile(src, n), Tile(dst, n)) = Origin(e, src, dst)
  <2> DEFINE t == <<n \div b, n % b>>
             From(i) == IF Cut(src[i], t[i]).size = 1 THEN Cut(src[i], t[i]).first
                        ELSE Cut(src[i], t[i]).first + e[i] - Cut(dst[i], t[i]).first
             Own(i)  == IF src[i].size = 1 THEN src[i].first
                        ELSE src[i].first + e[i] - dst[i].first
  <2>1. Origin(e, Tile(src, n), Tile(dst, n)) = [i \in 1 .. 2 |-> From(i)]
    BY <1>5 DEF Origin
  <2>2. Origin(e, src, dst) = [i \in 1 .. 2 |-> Own(i)]
    BY DEF Origin
  <2>3. ASSUME NEW i \in 1 .. 2 PROVE From(i) = Own(i)
    <3>1. e[i] \in Int /\ t[i] \in Nat /\ t[i] < block[i] /\ block[i] \in Nat
      BY <1>4, <1>5, <1>12, <1>15 DEF a, b
    <3>2. src[i].first \in Int /\ dst[i].first \in Int
      BY <1>2 DEF Intervals
    <3> HIDE DEF t
    <3>3. CASE src[i].size = 1
      <4>1. t[i] = 0 /\ t[i] * TileSize = 0
        BY <1>6, <3>1, <3>3, TileSizeAssumption
      <4> QED BY <3>2, <3>3, <4>1 DEF Cut
    <3>4. CASE src[i].size # 1
      <4>1. t[i] * TileSize \in Int /\ TileSize # 1
        BY <3>1, TileSizeAssumption
      <4> QED BY <3>1, <3>2, <3>4, <4>1 DEF Cut
    <3> QED BY <3>3, <3>4
  <2> HIDE DEF From, Own
  <2> QED BY <2>1, <2>2, <2>3
<1>16. Fits => /\ DOMAIN moved.from = Elements(dst)
               /\ \A e \in Elements(dst) : moved.from[e] = Origin(e, src, dst)
  BY <1>3, <1>13, <1>14, <1>15
<1> QED BY <1>3, <1>7, <1>16

\* The tile slices and copies of the calls are exact.
THEOREM CopiesHold == Spec => []Copies
<1> DEFINE I == call \in Calls \union {Idle}
<1>1. ASSUME I PROVE Copies
  <2>1. ASSUME call.f = "tiles" PROVE AskedIsInside(call.dim, call.key)
    <3>1. call.dim \in Extents /\ call.key \in Keys
      BY <1>1, <2>1, CallIs
    <3>2. call.dim \in Nat /\ call.key.start \in Int /\ call.key.stop \in Int
      BY <3>1, BoundsAssumption DEF Extents, Keys
    <3> QED BY <3>2, EverySliceAskedIsInside
  <2>2. ASSUME call.f = "copy" PROVE CopyIsExact(call.src, call.dst, call.block)
    <3>1. call.src \in Views /\ call.dst \in Views /\ call.block \in Shapes
      BY <1>1, <2>2, CallIs
    <3>2. ASSUME NEW dim \in Nat, NEW key, key.start \in Nat, key.stop \in Nat
          PROVE  GetTiles(Whole(dim), key) \in Intervals
      <4>1. key.start * TileSize \in Nat /\ key.stop * TileSize \in Nat
        BY <3>2, TileSizeAssumption
      <4>2. \A i \in Nat : PyIndex(i, dim) \in Nat
        BY DEF PyIndex
      <4> QED BY <4>1, <4>2 DEF GetTiles, Whole, Intervals
    <3>3. Views \subseteq Intervals \X Intervals
      <4>1. ASSUME NEW h \in Extents, NEW w \in {1, 2 * TileSize},
                   NEW r \in [start : 0 .. 1, stop : 1 .. 2], NEW c \in [start : {0, 1}, stop : {2}]
            PROVE  <<GetTiles(Whole(h), r), GetTiles(Whole(w), c)>> \in Intervals \X Intervals
        <5>1. h \in Nat /\ w \in Nat /\ r.start \in Nat /\ r.stop \in Nat /\ c.start \in Nat
              /\ c.stop \in Nat
          BY BoundsAssumption, TileSizeAssumption DEF Extents
        <5> QED BY <3>2, <5>1
      <4> QED BY <4>1 DEF Views
    <3>4. call.block[1] \in Nat \ {0} /\ call.block[2] \in Nat \ {0}
      BY <3>1, BoundsAssumption DEF Shapes
    <3> QED BY <3>1, <3>3, <3>4, EveryCopyIsExact
  <2> QED BY <2>1, <2>2 DEF Copies
<1> HIDE DEF I
<1>2. Spec => []I
  BY Called DEF I
<1> QED BY <1>1, <1>2, PTL


-----------------------------------------------------------------------------
(* Arithmetic on blocks (BlockMath).                                       *)

Sizes2 == (Nat \ {0}) \X (Nat \ {0})

\* The place of a tile in the list of a block n tiles wide.
LEMMA NumberOfTile ==
  ASSUME NEW m \in Nat \ {0}, NEW n \in Nat \ {0}, NEW i \in 0 .. m - 1, NEW j \in 0 .. n - 1
  PROVE  /\ (i * n) + j + 1 \in 1 .. m * n
         /\ (((i * n) + j + 1) - 1) \div n = i
         /\ (((i * n) + j + 1) - 1) % n = j
<1>1. (i * n) + j + 1 \in 1 .. m * n
  OBVIOUS
<1>2. ((i * n) + j + 1) - 1 = i * n + j
  OBVIOUS
<1>3. (i * n + j) \div n = i /\ (i * n + j) % n = j
  OBVIOUS
<1> QED BY <1>1, <1>2, <1>3

\* The tile of a place in the list.
LEMMA TileOfNumber ==
  ASSUME NEW m \in Nat \ {0}, NEW n \in Nat \ {0}, NEW t \in 1 .. m * n
  PROVE  /\ (t - 1) \div n \in 0 .. m - 1 /\ (t - 1) % n \in 0 .. n - 1
         /\ ((t - 1) \div n) * n + ((t - 1) % n) + 1 = t
<1>1. t - 1 \in Nat /\ t - 1 < m * n
  OBVIOUS
<1> QED BY <1>1

\* The tile and the offset of a row, or a column, of m tiles.
LEMMA RowOfTile ==
  ASSUME NEW m \in Nat \ {0}, NEW y \in 0 .. m * TileSize - 1
  PROVE  /\ y \div TileSize \in 0 .. m - 1 /\ y % TileSize \in Offsets
         /\ (y % TileSize) \div TileSize = 0 /\ (y % TileSize) % TileSize = y % TileSize
<1> DEFINE T == TileSize
<1>1. T \in Nat /\ T > 1
  BY TileSizeAssumption
<1>2. Offsets = 0 .. T - 1
  BY DEF Offsets
<1> HIDE DEF T
<1>3. y \in Nat /\ y < m * T
  BY <1>1 DEF T
<1>4. y \div T \in 0 .. m - 1 /\ y % T \in 0 .. T - 1
  BY <1>1, <1>3
<1>5. (y % T) \div T = 0 /\ (y % T) % T = y % T
  BY <1>1, <1>4
<1> QED BY <1>2, <1>4, <1>5 DEF T

\* A block of different elements, row by row.
LEMMA InputIs ==
  ASSUME NEW name, NEW shape \in Sizes2
  PROVE  LET b == Input(name, shape)
         IN /\ b.shape = shape /\ Len(b.tiles) = shape[1] * shape[2]
            /\ DOMAIN b.tiles = 1 .. shape[1] * shape[2]
            /\ \A i \in 0 .. shape[1] - 1 : \A j \in 0 .. shape[2] - 1 : \A p \in Places :
                 TileAt(b, i, j)[p] = << <<name, i * TileSize + p[1], j * TileSize + p[2]>> >>
            /\ \A y \in 0 .. shape[1] * TileSize - 1 : \A x \in 0 .. shape[2] * TileSize - 1 :
                 At(b, y, x) = << <<name, y, x>> >>
<1> DEFINE b == Input(name, shape)
           m == shape[1]
           n == shape[2]
           T == TileSize
           Content(i, j) == [p \in Places |-> << <<name, i * T + p[1], j * T + p[2]>> >>]
<1>1. b = [shape |-> shape,
           tiles |-> [t \in 1 .. m * n |-> Content((t - 1) \div n, (t - 1) % n)]]
  BY DEF Input, MakeBlock
<1>2. m \in Nat \ {0} /\ n \in Nat \ {0} /\ m * n \in Nat /\ T \in Nat /\ T > 1
  BY TileSizeAssumption DEF Sizes2
<1> HIDE DEF b, m, n, Content, T
<1>3. b.shape = shape /\ DOMAIN b.tiles = 1 .. m * n /\ Len(b.tiles) = m * n
  BY <1>1, <1>2
<1>4. ASSUME NEW i \in 0 .. m - 1, NEW j \in 0 .. n - 1 PROVE TileAt(b, i, j) = Content(i, j)
  <2>1. b.tiles[(i * n) + j + 1] = Content(i, j)
    <3> DEFINE t == (i * n) + j + 1
    <3>1. t \in 1 .. m * n /\ (t - 1) \div n = i /\ (t - 1) % n = j
      BY <1>2, NumberOfTile
    <3> HIDE DEF t, Content
    <3>2. b.tiles[t] = Content((t - 1) \div n, (t - 1) % n)
      BY <1>1, <3>1
    <3> QED BY <3>1, <3>2 DEF t
  <2> QED BY <1>3, <2>1 DEF TileAt, n
<1>5. ASSUME NEW y \in 0 .. m * T - 1, NEW x \in 0 .. n * T - 1
      PROVE  At(b, y, x) = << <<name, y, x>> >>
  <2> DEFINE i == y \div T
             j == x \div T
             p == <<y % T, x % T>>
  <2>1. i \in 0 .. m - 1 /\ j \in 0 .. n - 1 /\ p \in Places
    BY <1>2, RowOfTile DEF T, Places
  <2>2. At(b, y, x) = Content(i, j)[p]
    BY <1>4, <2>1 DEF At, T
  <2>3. i * T + p[1] = y /\ j * T + p[2] = x
    BY <1>2
  <2> HIDE DEF i, j, p
  <2> QED BY <2>1, <2>2, <2>3 DEF Content
<1>6. \A i \in 0 .. m - 1 : \A j \in 0 .. n - 1 : \A p \in Places :
        TileAt(b, i, j)[p] = << <<name, i * T + p[1], j * T + p[2]>> >>
  BY <1>4 DEF Content
<1> QED BY <1>3, <1>5, <1>6 DEF b, m, n, T

\* The operators of Block compute what they compute on matrices, whichever
\* extents of one are repeated (dfb.py, _binary_op).
THEOREM EveryElementwiseIsExact ==
  ASSUME NEW l \in Sizes2, NEW r \in Sizes2
  PROVE  ElementwiseIsExact(l, r)
<1> DEFINE a == Input("l", l)
           b == Input("r", r)
           o == BinaryOp(a, b)
           From(x, d, n) == IF x.shape[d] = 1 THEN n % TileSize ELSE n
           s == InferBroadcastShape(l, r)
           m == s[1]
           n == s[2]
           Pick(x, i, j) == TileAt(x, IF x.shape[1] = 1 THEN 0 ELSE i, IF x.shape[2] = 1 THEN 0 ELSE j)
           Content(i, j) == [p \in Places |-> << <<Pick(a, i, j)[p], Pick(b, i, j)[p]>> >>]
<1>1. a.shape = l /\ b.shape = r /\ Len(a.tiles) = l[1] * l[2] /\ Len(b.tiles) = r[1] * r[2]
  BY InputIs
<1>2. m \in Nat \ {0} /\ n \in Nat \ {0} /\ m * n \in Nat
  BY DEF InferBroadcastShape, Sizes2
<1>3. o = [shape |-> s, tiles |-> [t \in 1 .. m * n |-> Content((t - 1) \div n, (t - 1) % n)]]
  <2> HIDE DEF a, b
  <2> QED BY <1>1 DEF BinaryOp, MakeBlock
<1> HIDE DEF a, b, o, s, m, n, Pick
<1>4. o.shape = s /\ Len(o.tiles) = m * n /\ DOMAIN o.tiles = 1 .. m * n
  BY <1>2, <1>3
<1>5. ASSUME NEW i \in 0 .. m - 1, NEW j \in 0 .. n - 1 PROVE TileAt(o, i, j) = Content(i, j)
  <2>1. o.tiles[(i * n) + j + 1] = Content(i, j)
    <3> DEFINE t == (i * n) + j + 1
    <3>1. t \in 1 .. m * n /\ (t - 1) \div n = i /\ (t - 1) % n = j
      BY <1>2, NumberOfTile
    <3> HIDE DEF t, Content
    <3>2. o.tiles[t] = Content((t - 1) \div n, (t - 1) % n)
      BY <1>3, <3>1
    <3> QED BY <3>1, <3>2 DEF t
  <2> QED BY <1>4, <2>1 DEF TileAt, n
<1>6. ASSUME NEW y \in 0 .. m * TileSize - 1, NEW x \in 0 .. n * TileSize - 1
      PROVE  At(o, y, x) = << <<At(a, From(a, 1, y), From(a, 2, x)),
                                At(b, From(b, 1, y), From(b, 2, x))>> >>
  <2> DEFINE i == y \div TileSize
             j == x \div TileSize
             p == <<y % TileSize, x % TileSize>>
  <2>1. i \in 0 .. m - 1 /\ j \in 0 .. n - 1 /\ p \in Places
    BY <1>2, RowOfTile DEF Places
  <2>2. At(o, y, x) = << <<Pick(a, i, j)[p], Pick(b, i, j)[p]>> >>
    BY <1>5, <2>1 DEF At
  <2>3. ASSUME NEW z PROVE Pick(z, i, j)[p] = At(z, From(z, 1, y), From(z, 2, x))
    <3> DEFINE v == From(z, 1, y)
               w == From(z, 2, x)
    <3>1. v \div TileSize = (IF z.shape[1] = 1 THEN 0 ELSE i) /\ v % TileSize = y % TileSize
      BY <1>2, RowOfTile
    <3>2. w \div TileSize = (IF z.shape[2] = 1 THEN 0 ELSE j) /\ w % TileSize = x % TileSize
      BY <1>2, RowOfTile
    <3> HIDE DEF v, w
    <3>3. At(z, v, w) = TileAt(z, v \div TileSize, w \div TileSize)[<<v % TileSize, w % TileSize>>]
      BY DEF At
    <3> QED BY <3>1, <3>2, <3>3 DEF Pick, v, w
  <2> HIDE DEF From, i, j, p
  <2> QED BY <2>2, <2>3
<1>7. Rows(o) = 0 .. m * TileSize - 1 /\ Columns(o) = 0 .. n * TileSize - 1
  BY <1>4 DEF Rows, Columns, m, n
<1>8. ASSUME l = r PROVE ZipOp(a, b) = o
  <2>1. s = l /\ m = l[1] /\ n = l[2]
    BY <1>8 DEF InferBroadcastShape, Sizes2, s, m, n
  <2>2. ZipOp(a, b) = [shape |-> l, tiles |-> [t \in 1 .. m * n |-> [p \in Places |->
                         << <<a.tiles[t][p], b.tiles[t][p]>> >>]]]
    BY <1>1, <1>2, <1>8, <2>1 DEF ZipOp
  <2>3. ASSUME NEW t \in 1 .. m * n, NEW z, z.shape = l
        PROVE  Pick(z, (t - 1) \div n, (t - 1) % n) = z.tiles[t]
    <3> DEFINE i == (t - 1) \div n
               j == (t - 1) % n
    <3>1. i \in 0 .. m - 1 /\ j \in 0 .. n - 1 /\ i * n + j + 1 = t
      BY <1>2, TileOfNumber, ZenonT(40)
    <3> HIDE DEF i, j
    <3>2. /\ (IF z.shape[1] = 1 THEN 0 ELSE i) = i
          /\ (IF z.shape[2] = 1 THEN 0 ELSE j) = j
      BY <1>2, <2>1, <2>3, <3>1
    <3>3. Pick(z, i, j) = z.tiles[(i * z.shape[2]) + j + 1]
      BY <3>2, Zenon DEF Pick, TileAt
    <3> QED BY <2>1, <2>3, <3>1, <3>3 DEF i, j
  <2>4. \A t \in 1 .. m * n : Content((t - 1) \div n, (t - 1) % n)
                              = [p \in Places |-> << <<a.tiles[t][p], b.tiles[t][p]>> >>]
    BY <1>1, <1>8, <2>3
  <2> QED BY <1>3, <2>1, <2>2, <2>4
<1> QED BY <1>4, <1>6, <1>7, <1>8 DEF ElementwiseIsExact, a, b, o, m, n

\* The operators of the calls are exact.
THEOREM ElementwiseHolds == Spec => []Elementwise
<1> DEFINE I == call \in Calls \union {Idle}
<1>1. ASSUME I PROVE Elementwise
  <2>1. ASSUME call.f = "elementwise" PROVE ElementwiseIsExact(call.l, call.r)
    <3>1. call.l \in Shapes /\ call.r \in Shapes
      BY <1>1, <2>1, CallIs
    <3>2. Shapes \subseteq Sizes2
      BY BoundsAssumption DEF Shapes, Sizes2
    <3> QED BY <3>1, <3>2, EveryElementwiseIsExact
  <2> QED BY <2>1 DEF Elementwise
<1> HIDE DEF I
<1>2. Spec => []I
  BY Called DEF I
<1> QED BY <1>1, <1>2, PTL


\* A sequence of sequences of terms, one for each place of a grid, has all of
\* them, and none twice if they are different.
GridOf(F, K, L) == [k \in 1 .. K |-> FlattenSeq([q \in 1 .. L |-> <<F[<<k, q>>]>>])]

\* Flattened, it has them all.
LEMMA FlattenGrid ==
  ASSUME NEW K \in Nat, NEW L \in Nat, NEW S, NEW F \in [(1 .. K) \X (1 .. L) -> S]
  PROVE  /\ FlattenSeq(GridOf(F, K, L)) \in Seq(S)
         /\ ToSet(FlattenSeq(GridOf(F, K, L))) = {F[c] : c \in (1 .. K) \X (1 .. L)}
         /\ (\A c, d \in (1 .. K) \X (1 .. L) : F[c] = F[d] => c = d) =>
              NoRepeats(FlattenSeq(GridOf(F, K, L)))
<1> DEFINE Line(k) == [q \in 1 .. L |-> F[<<k, q>>]]
           ss == [k \in 1 .. K |-> Line(k)]
           s == FlattenSeq(ss)
           I == (1 .. K) \X (1 .. L)
           Distinct == \A c, d \in I : F[c] = F[d] => c = d
           Q == Seq(S)
<1>1. ASSUME NEW k \in 1 .. K
      PROVE  /\ Line(k) \in Q /\ Len(Line(k)) = L
             /\ FlattenSeq([q \in 1 .. L |-> <<F[<<k, q>>]>>]) = Line(k)
             /\ ToSet(Line(k)) = {F[<<k, q>>] : q \in 1 .. L}
             /\ Distinct => NoRepeats(Line(k))
  <2>1. \A q \in 1 .. L : F[<<k, q>>] \in S /\ <<k, q>> \in I
    OBVIOUS
  <2>2. Line(k) \in Q /\ Len(Line(k)) = L
    BY <2>1
  <2> DEFINE l == Line(k)
  <2>3. [q \in 1 .. L |-> <<F[<<k, q>>]>>] = [q \in 1 .. Len(l) |-> <<l[q]>>]
    BY <2>2
  <2>4. l \in Seq(S)
    BY <2>2
  <2>5. FlattenSeq([q \in 1 .. L |-> <<F[<<k, q>>]>>]) = l
    <3> HIDE DEF l
    <3> QED BY <2>3, <2>4, FlattenSingles
  <2>6. ToSet(l) = {F[<<k, q>>] : q \in 1 .. L}
    BY DEF ToSet
  <2>7. Distinct => NoRepeats(l)
    BY <2>1 DEF NoRepeats
  <2> QED BY <2>2, <2>5, <2>6, <2>7
<1>2. GridOf(F, K, L) = ss
  BY <1>1 DEF GridOf
<1>3. ss \in Seq(Q) /\ Len(ss) = K /\ \A k \in 1 .. K : ss[k] = Line(k)
  <2>1. \A k \in 1 .. K : Line(k) \in Q
    BY <1>1
  <2> HIDE DEF Q, Line
  <2> QED BY <2>1
<1>4. /\ s \in Seq(S)
      /\ ToSet(s) = UNION {ToSet(ss[k]) : k \in 1 .. Len(ss)}
      /\ (/\ \A k \in 1 .. Len(ss) : NoRepeats(ss[k])
          /\ \A i, j \in 1 .. Len(ss) : i # j => ToSet(ss[i]) \intersect ToSet(ss[j]) = {})
         => NoRepeats(s)
  <2> HIDE DEF ss
  <2> QED BY <1>3, FlattenElements DEF Q
<1> DEFINE Holds(x, k) == \E q \in 1 .. L : x = F[<<k, q>>]
<1>n. ASSUME NEW k \in 1 .. K
      PROVE  (\A x : x \in ToSet(ss[k]) <=> Holds(x, k)) /\ (Distinct => NoRepeats(ss[k]))
  <2> HIDE DEF Line, ss, Distinct
  <2>1. ss[k] = Line(k)
    BY <1>3
  <2>2. \A x : x \in ToSet(Line(k)) <=> Holds(x, k)
    <3>1. ToSet(Line(k)) = {F[<<k, q>>] : q \in 1 .. L}
      BY <1>1
    <3> QED BY <3>1
  <2> QED BY <1>1, <2>1, <2>2
<1> HIDE DEF Line, s, ss, Q
<1>5. ToSet(s) = {F[c] : c \in I}
  <2>1. ToSet(s) = UNION {ToSet(ss[k]) : k \in 1 .. K}
    BY <1>3, <1>4
  <2>2. \A c \in I : c[1] \in 1 .. K /\ c[2] \in 1 .. L /\ c = <<c[1], c[2]>>
    OBVIOUS
  <2>3. \A k \in 1 .. K : \A q \in 1 .. L : <<k, q>> \in I
    OBVIOUS
  <2> HIDE DEF I
  <2>4. \A x : x \in ToSet(s) <=> \E k \in 1 .. K : Holds(x, k)
    <3> HIDE DEF Holds
    <3> QED BY <1>n, <2>1
  <2>5. ASSUME NEW x, NEW k \in 1 .. K, Holds(x, k) PROVE \E c \in I : x = F[c]
    BY <2>3, <2>5
  <2>6. ASSUME NEW c \in I PROVE Holds(F[c], c[1]) /\ c[1] \in 1 .. K
    BY <2>2
  <2> HIDE DEF Holds
  <2>7. \A x : x \in ToSet(s) <=> \E c \in I : x = F[c]
    BY <2>4, <2>5, <2>6
  <2> QED BY <2>7
<1>6. Distinct => NoRepeats(s)
  <2> SUFFICES ASSUME Distinct PROVE NoRepeats(s)
    OBVIOUS
  <2>1. \A k \in 1 .. Len(ss) : NoRepeats(ss[k])
    BY <1>3, <1>n
  <2>2. ASSUME NEW i \in 1 .. Len(ss), NEW j \in 1 .. Len(ss), i # j,
               NEW e \in ToSet(ss[i]), e \in ToSet(ss[j])
        PROVE  FALSE
    <3>1. PICK q \in 1 .. L : e = F[<<i, q>>]
      BY <1>3, <1>n
    <3>2. PICK r \in 1 .. L : e = F[<<j, r>>]
      BY <1>3, <1>n, <2>2
    <3>3. <<i, q>> \in I /\ <<j, r>> \in I
      BY <1>3
    <3>4. <<i, q>> = <<j, r>>
      BY <3>1, <3>2, <3>3
    <3> QED BY <2>2, <3>4
  <2>3. \A i, j \in 1 .. Len(ss) : i # j => ToSet(ss[i]) \intersect ToSet(ss[j]) = {}
    BY <2>2
  <2> QED BY <1>4, <2>1, <2>3
<1> QED BY <1>2, <1>4, <1>5, <1>6 DEF s, Distinct

\* The terms of an element of the product of two matrices.
Terms(a, y, b, x, inner) == {<<At(a, y, q), At(b, q, x)>> : q \in 0 .. inner - 1}

\* An element of a product of blocks has the terms of the product of matrices.
LEMMA ProductIs ==
  ASSUME NEW m \in Nat \ {0}, NEW k \in Nat \ {0}, NEW n \in Nat \ {0}, NEW a, NEW b,
         a.shape = <<m, k>>, b.shape = <<k, n>>,
         NEW y \in 0 .. m * TileSize - 1, NEW x \in 0 .. n * TileSize - 1
  PROVE  LET o == Matmul(a, b)
             terms == Terms(a, y, b, x, k * TileSize)
         IN /\ o.shape = <<m, n>>
            /\ ToSet(At(o, y, x)) = terms
            /\ (\A q, r \in 0 .. k * TileSize - 1 : At(a, y, q) = At(a, y, r) => q = r)
               => SameTerms(At(o, y, x), terms)
<1> DEFINE T == TileSize
           o == Matmul(a, b)
           Term(q) == <<At(a, y, q), At(b, q, x)>>
           terms == {Term(q) : q \in 0 .. k * T - 1}
           Part(i, j, p, l, q) == <<TileAt(a, i, l - 1)[<<p[1], q - 1>>],
                                    TileAt(b, l - 1, j)[<<q - 1, p[2]>>]>>
           Content(i, j) ==
             [p \in Places |->
                FlattenSeq([l \in 1 .. k |-> FlattenSeq([q \in 1 .. T |-> <<Part(i, j, p, l, q)>>])])]
           I == (1 .. k) \X (1 .. T)
           F == [c \in I |-> Term((c[1] - 1) * T + (c[2] - 1))]
           i == y \div T
           j == x \div T
           p == <<y % T, x % T>>
           e == At(o, y, x)
<1>1. T \in Nat /\ T > 1
  BY TileSizeAssumption
<1>2. o = [shape |-> <<m, n>>,
           tiles |-> [t \in 1 .. m * n |-> Content((t - 1) \div n, (t - 1) % n)]]
  <2>1. a.shape[1] = m /\ a.shape[2] = k /\ b.shape[2] = n
    OBVIOUS
  <2>2. <<m, n>>[1] = m /\ <<m, n>>[2] = n
    OBVIOUS
  <2> QED BY <2>1, <2>2, ZenonT(40) DEF Matmul, MakeBlock
<1>3. i \in 0 .. m - 1 /\ j \in 0 .. n - 1 /\ p \in Places
  BY RowOfTile DEF Places
<1>4. TileAt(o, i, j) = Content(i, j)
  <2> DEFINE t == (i * n) + j + 1
  <2> HIDE DEF i, j
  <2>1. t \in 1 .. m * n /\ (t - 1) \div n = i /\ (t - 1) % n = j
    BY <1>3, NumberOfTile
  <2> HIDE DEF t, Content, o
  <2>2. o.tiles[t] = Content((t - 1) \div n, (t - 1) % n) /\ o.shape[2] = n
    BY <1>2, <2>1
  <2> QED BY <2>1, <2>2 DEF t, TileAt
<1>5. e = FlattenSeq([l \in 1 .. k |-> FlattenSeq([q \in 1 .. T |-> <<Part(i, j, p, l, q)>>])])
  <2>1. e = TileAt(o, i, j)[p]
    BY DEF At
  <2> HIDE DEF e, o, i, j, p, Part
  <2> QED BY <1>3, <1>4, <2>1
<1>6. ASSUME NEW l \in 1 .. k, NEW q \in 1 .. T PROVE Part(i, j, p, l, q) = F[<<l, q>>]
  <2> DEFINE g == (l - 1) * T + (q - 1)
  <2>1. g \div T = l - 1 /\ g % T = q - 1
    BY <1>1
  <2>2. F[<<l, q>>] = Term(g)
    OBVIOUS
  <2> HIDE DEF g
  <2>3. At(a, y, g) = TileAt(a, i, l - 1)[<<y % T, q - 1>>]
        /\ At(b, g, x) = TileAt(b, l - 1, j)[<<q - 1, x % T>>]
    BY <2>1 DEF At
  <2> HIDE DEF F
  <2> QED BY <2>2, <2>3
<1> HIDE DEF Part, F, Term, T, o, e, i, j, p
<1>7. e = FlattenSeq(GridOf(F, k, T))
  <2>1. \A l \in 1 .. k : [q \in 1 .. T |-> <<Part(i, j, p, l, q)>>] = [q \in 1 .. T |-> <<F[<<l, q>>]>>]
    BY <1>6
  <2> QED BY <1>5, <2>1 DEF GridOf
<1>8. \A c \in I : (c[1] - 1) * T + (c[2] - 1) \in 0 .. k * T - 1
  <2> SUFFICES ASSUME NEW l \in 1 .. k, NEW q \in 1 .. T
               PROVE  (l - 1) * T + (q - 1) \in 0 .. k * T - 1
    OBVIOUS
  <2> QED BY <1>1
<1>9. F \in [I -> terms]
  BY <1>8 DEF F
<1>10. ASSUME NEW g \in 0 .. k * T - 1
       PROVE  \E c \in I : g = (c[1] - 1) * T + (c[2] - 1)
  <2>1. g \div T + 1 \in 1 .. k /\ (g % T) + 1 \in 1 .. T
        /\ g = ((g \div T + 1) - 1) * T + (((g % T) + 1) - 1)
    BY <1>1
  <2>2. <<g \div T + 1, (g % T) + 1>> \in I
    BY <2>1
  <2> QED BY <2>1, <2>2
<1>11. {F[c] : c \in I} = terms
  <2>1. ASSUME NEW g \in 0 .. k * T - 1 PROVE \E c \in I : Term(g) = F[c]
    BY <1>10 DEF F
  <2> HIDE DEF I
  <2>2. \A c \in I : F[c] \in terms
    BY <1>9
  <2> QED BY <2>1, <2>2
<1>12. /\ e \in Seq(terms) /\ ToSet(e) = terms
       /\ (\A c, d \in I : F[c] = F[d] => c = d) => NoRepeats(e)
  <2>1. k \in Nat /\ T \in Nat /\ F \in [(1 .. k) \X (1 .. T) -> terms]
    BY <1>1, <1>9
  <2> HIDE DEF terms
  <2> DEFINE G == GridOf(F, k, T)
  <2>2. /\ FlattenSeq(G) \in Seq(terms)
        /\ ToSet(FlattenSeq(G)) = {F[c] : c \in (1 .. k) \X (1 .. T)}
        /\ (\A c, d \in (1 .. k) \X (1 .. T) : F[c] = F[d] => c = d) => NoRepeats(FlattenSeq(G))
    BY <2>1, FlattenGrid, Zenon
  <2> QED BY <1>7, <1>11, <2>2, Zenon
<1>13. ASSUME \A q, r \in 0 .. k * T - 1 : At(a, y, q) = At(a, y, r) => q = r
       PROVE  SameTerms(e, terms)
  <2>1. ASSUME NEW c \in I, NEW d \in I, F[c] = F[d] PROVE c = d
    <3>1. At(a, y, (c[1] - 1) * T + (c[2] - 1)) = At(a, y, (d[1] - 1) * T + (d[2] - 1))
      BY <2>1 DEF F, Term
    <3>2. (c[1] - 1) * T + (c[2] - 1) = (d[1] - 1) * T + (d[2] - 1)
      BY <1>8, <1>13, <3>1
    <3>3. \A l, r \in 1 .. k : \A q, s \in 1 .. T :
            (l - 1) * T + (q - 1) = (r - 1) * T + (s - 1) => l = r /\ q = s
      <4> SUFFICES ASSUME NEW l \in 1 .. k, NEW r \in 1 .. k, NEW q \in 1 .. T, NEW s \in 1 .. T,
                          (l - 1) * T + (q - 1) = (r - 1) * T + (s - 1)
                   PROVE  l = r /\ q = s
        OBVIOUS
      <4>1. ((l - 1) * T + (q - 1)) \div T = l - 1 /\ ((r - 1) * T + (s - 1)) \div T = r - 1
        BY <1>1
      <4> QED BY <4>1, <1>1
    <3> QED BY <3>2, <3>3
  <2> QED BY <1>12, <2>1, NoRepeatsLength DEF SameTerms
<1>14. o.shape = <<m, n>>
  BY <1>2
<1> QED BY <1>12, <1>13, <1>14, Zenon DEF o, e, T, Term, Terms


\* Rows and columns of the elements change places.
LEMMA TransposedIs ==
  ASSUME NEW k \in Nat \ {0}, NEW n \in Nat \ {0}, NEW b, b.shape = <<k, n>>
  PROVE  /\ Transpose(b).shape = <<n, k>>
         /\ \A x \in 0 .. n * TileSize - 1 : \A q \in 0 .. k * TileSize - 1 :
              At(Transpose(b), x, q) = At(b, q, x)
<1> DEFINE T == TileSize
           o == Transpose(b)
           Content(j, i) == [p \in Places |-> TileAt(b, i, j)[<<p[2], p[1]>>]]
<1>1. o = [shape |-> <<n, k>>,
           tiles |-> [t \in 1 .. n * k |-> Content((t - 1) \div k, (t - 1) % k)]]
  <2>1. b.shape[1] = k /\ b.shape[2] = n
    OBVIOUS
  <2>2. <<n, k>>[1] = n /\ <<n, k>>[2] = k
    OBVIOUS
  <2> QED BY <2>1, <2>2, Zenon DEF Transpose, MakeBlock
<1> HIDE DEF o, T
<1>2. ASSUME NEW x \in 0 .. n * T - 1, NEW q \in 0 .. k * T - 1 PROVE At(o, x, q) = At(b, q, x)
  <2> DEFINE j == x \div T
             i == q \div T
             p == <<x % T, q % T>>
             t == (j * k) + i + 1
  <2>1. j \in 0 .. n - 1 /\ i \in 0 .. k - 1 /\ p \in Places
    BY RowOfTile DEF Places, T
  <2> HIDE DEF i, j
  <2>2. t \in 1 .. n * k /\ (t - 1) \div k = j /\ (t - 1) % k = i
    BY <2>1, NumberOfTile
  <2> HIDE DEF t, Content
  <2>3. o.tiles[t] = Content((t - 1) \div k, (t - 1) % k) /\ o.shape[2] = k
    BY <1>1, <2>2
  <2>4. TileAt(o, j, i) = Content(j, i)
    BY <2>2, <2>3 DEF t, TileAt
  <2>5. Content(j, i)[p] = TileAt(b, i, j)[<<q % T, x % T>>]
    BY <2>1 DEF Content
  <2>6. At(o, x, q) = TileAt(o, j, i)[p] /\ At(b, q, x) = TileAt(b, i, j)[<<q % T, x % T>>]
    BY DEF At, i, j, T
  <2> QED BY <2>4, <2>5, <2>6
<1>3. o.shape = <<n, k>>
  BY <1>1
<1> QED BY <1>2, <1>3 DEF o, T

\* A product of blocks is the product of their matrices, and the transposed one
\* that of the transposed factors (dfb.py, matmul; math.py, transpose).
THEOREM EveryMatmulIsExact ==
  ASSUME NEW m \in Nat \ {0}, NEW k \in Nat \ {0}, NEW n \in Nat \ {0}
  PROVE  MatmulIsExact(m, k, n)
<1> DEFINE a == Input("a", <<m, k>>)
           b == Input("b", <<k, n>>)
           o == Matmul(a, b)
           ta == Transpose(a)
           tb == Transpose(b)
           t == Matmul(tb, ta)
           T == TileSize
<1>0. SUFFICES
        \A y \in Rows(o), x \in Columns(o) :
          /\ SameTerms(At(o, y, x), {<<At(a, y, q), At(b, q, x)>> : q \in Columns(a)})
          /\ {<<u[2], u[1]>> : u \in ToSet(At(t, x, y))} = ToSet(At(o, y, x))
  BY Zenon DEF MatmulIsExact
<1>1. T \in Nat /\ T > 1
  BY TileSizeAssumption
<1>2. a.shape = <<m, k>> /\ \A y \in 0 .. m * T - 1 : \A q \in 0 .. k * T - 1 :
                              At(a, y, q) = << <<"a", y, q>> >>
  <2>1. <<m, k>> \in Sizes2 /\ <<m, k>>[1] = m /\ <<m, k>>[2] = k
    BY DEF Sizes2
  <2> QED BY <2>1, InputIs
<1>3. b.shape = <<k, n>> /\ \A q \in 0 .. k * T - 1 : \A x \in 0 .. n * T - 1 :
                              At(b, q, x) = << <<"b", q, x>> >>
  <2>1. <<k, n>> \in Sizes2 /\ <<k, n>>[1] = k /\ <<k, n>>[2] = n
    BY DEF Sizes2
  <2> QED BY <2>1, InputIs
<1>4. ta.shape = <<k, m>> /\ \A q \in 0 .. k * T - 1 : \A y \in 0 .. m * T - 1 :
                               At(ta, q, y) = At(a, y, q)
  <2> HIDE DEF a
  <2> QED BY <1>2, TransposedIs
<1>5. tb.shape = <<n, k>> /\ \A x \in 0 .. n * T - 1 : \A q \in 0 .. k * T - 1 :
                               At(tb, x, q) = At(b, q, x)
  <2> HIDE DEF b
  <2> QED BY <1>3, TransposedIs
<1> HIDE DEF a, b, o, ta, tb, t, T
<1>6. o.shape = <<m, n>>
  <2>1. 0 \in 0 .. m * T - 1 /\ 0 \in 0 .. n * T - 1
    BY <1>1
  <2> QED BY <1>2, <1>3, <2>1, ProductIs DEF o, T
<1>7. ASSUME NEW y \in 0 .. m * T - 1, NEW x \in 0 .. n * T - 1
      PROVE  /\ SameTerms(At(o, y, x), {<<At(a, y, q), At(b, q, x)>> : q \in 0 .. k * T - 1})
             /\ {<<u[2], u[1]>> : u \in ToSet(At(t, x, y))} = ToSet(At(o, y, x))
  <2>0. y \in 0 .. m * TileSize - 1 /\ x \in 0 .. n * TileSize - 1
    BY DEF T
  <2> DEFINE terms == Terms(a, y, b, x, k * T)
             turned == Terms(tb, x, ta, y, k * T)
             flip(u) == <<u[2], u[1]>>
  <2>1. \A q, r \in 0 .. k * T - 1 : At(a, y, q) = At(a, y, r) => q = r
    <3> SUFFICES ASSUME NEW q \in 0 .. k * T - 1, NEW r \in 0 .. k * T - 1, At(a, y, q) = At(a, y, r)
                 PROVE  q = r
      OBVIOUS
    <3>1. << <<"a", y, q>> >> = << <<"a", y, r>> >>
      BY <1>2
    <3> QED BY <3>1
  <2>2. ToSet(At(o, y, x)) = terms /\ SameTerms(At(o, y, x), terms)
    BY <1>2, <1>3, <2>0, <2>1, ProductIs DEF o, T
  <2>3. ToSet(At(t, x, y)) = turned
    BY <1>4, <1>5, <2>0, ProductIs DEF t, T
  <2>4. ASSUME NEW q \in 0 .. k * T - 1
        PROVE  flip(<<At(tb, x, q), At(ta, q, y)>>) = <<At(a, y, q), At(b, q, x)>>
    BY <1>4, <1>5
  <2> HIDE DEF flip
  <2>5. {flip(u) : u \in turned} = terms
    <3>1. ASSUME NEW u \in turned PROVE flip(u) \in terms
      <4>1. PICK q \in 0 .. k * T - 1 : u = <<At(tb, x, q), At(ta, q, y)>>
        BY DEF Terms
      <4>2. flip(u) = <<At(a, y, q), At(b, q, x)>>
        BY <2>4, <4>1
      <4> QED BY <4>2 DEF Terms
    <3>2. ASSUME NEW v \in terms PROVE \E u \in turned : v = flip(u)
      <4>1. PICK q \in 0 .. k * T - 1 : v = <<At(a, y, q), At(b, q, x)>>
        BY DEF Terms
      <4>2. <<At(tb, x, q), At(ta, q, y)>> \in turned
        BY DEF Terms
      <4> QED BY <2>4, <4>1, <4>2
    <3> HIDE DEF turned, terms
    <3> QED BY <3>1, <3>2
  <2> HIDE DEF turned
  <2>6. {<<u[2], u[1]>> : u \in ToSet(At(t, x, y))} = ToSet(At(o, y, x))
    BY <2>2, <2>3, <2>5, Zenon DEF flip
  <2> QED BY <2>2, <2>6 DEF Terms
<1>8. Rows(o) = 0 .. m * T - 1 /\ Columns(o) = 0 .. n * T - 1 /\ Columns(a) = 0 .. k * T - 1
  BY <1>2, <1>6 DEF Rows, Columns, T
<1> QED BY <1>7, <1>8

\* The products of the calls are exact.
THEOREM ProductsHold == Spec => []Products
<1> DEFINE I == call \in Calls \union {Idle}
<1>1. ASSUME I PROVE Products
  <2>1. ASSUME call.f = "product" PROVE MatmulIsExact(call.m, call.k, call.n)
    <3>1. call.m \in Nat \ {0} /\ call.k \in Nat \ {0} /\ call.n \in Nat \ {0}
      BY <1>1, <2>1, CallIs, BoundsAssumption
    <3> QED BY <3>1, EveryMatmulIsExact
  <2> QED BY <2>1 DEF Products
<1> HIDE DEF I
<1>2. Spec => []I
  BY Called DEF I
<1> QED BY <1>1, <1>2, PTL


-----------------------------------------------------------------------------
(* Reductions (BlockMath).                                                 *)

\* The elements of a block, the number of their tile and their place in it.
Elements2(shape) == {<<"b", y, x>> : y \in 0 .. shape[1] * TileSize - 1,
                                     x \in 0 .. shape[2] * TileSize - 1}
NumberOf(e, shape) == (e[2] \div TileSize) * shape[2] + (e[3] \div TileSize) + 1
OffsetOf(e) == <<e[2] % TileSize, e[3] % TileSize>>
ElementOf(shape, n, p) ==
  <<"b", ((n - 1) \div shape[2]) * TileSize + p[1], ((n - 1) % shape[2]) * TileSize + p[2]>>

\* The sets of dimensions that can be reduced.
DimSets == {{0}, {1}, {0, 1}}

\* Where a reduction leaves what it makes of a place, and of a tile.
Home(p, dims) == <<IF 1 \in dims THEN 0 ELSE p[1], IF 0 \in dims THEN 0 ELSE p[2]>>
HomeTile(n, shape, dims) ==
  (IF 0 \in dims THEN 0 ELSE (n - 1) \div shape[2]) * (IF 1 \in dims THEN 1 ELSE shape[2])
  + (IF 1 \in dims THEN 0 ELSE (n - 1) % shape[2]) + 1

\* A row of a block is a row of one of its tiles.
LEMMA RowIs ==
  ASSUME NEW T \in Nat \ {0}, NEW m \in Nat, NEW i \in 0 .. m - 1, NEW k \in 0 .. T - 1
  PROVE  /\ (i * T) + k \in 0 .. m * T - 1
         /\ ((i * T) + k) \div T = i
         /\ ((i * T) + k) % T = k
<1>1. (i + 1) * T <= m * T
  OBVIOUS
<1>2. (i + 1) * T = (i * T) + T /\ i * T \in Nat /\ m * T \in Nat
  OBVIOUS
<1> QED BY <1>1, <1>2

\* A row of a block has a tile and a place in it.
LEMMA RowSplits ==
  ASSUME NEW T \in Nat \ {0}, NEW m \in Nat, NEW y \in 0 .. m * T - 1
  PROVE  y \div T \in 0 .. m - 1 /\ y % T \in 0 .. T - 1 /\ ((y \div T) * T) + (y % T) = y
<1> DEFINE q == y \div T
           k == y % T
<1>1. q \in Int /\ k \in 0 .. T - 1 /\ y = (q * T) + k /\ q >= 0
  OBVIOUS
<1> HIDE DEF q, k
<1>2. m * T \in Nat /\ q * T \in Nat /\ q * T < m * T
  BY <1>1
<1>3. q < m
  <2>1. ASSUME q >= m PROVE FALSE
    <3>1. q * T >= m * T
      BY <1>1, <2>1
    <3> QED BY <1>2, <3>1
  <2> QED BY <1>1, <2>1
<1> QED BY <1>1, <1>3 DEF q, k

\* An element is the one at its place of its tile.
LEMMA ElementsAreNumbered ==
  ASSUME NEW shape \in Sizes2
  PROVE  /\ \A n \in 1 .. shape[1] * shape[2] : \A p \in Places :
              /\ ElementOf(shape, n, p) \in Elements2(shape)
              /\ NumberOf(ElementOf(shape, n, p), shape) = n
              /\ OffsetOf(ElementOf(shape, n, p)) = p
         /\ \A e \in Elements2(shape) :
              /\ NumberOf(e, shape) \in 1 .. shape[1] * shape[2]
              /\ OffsetOf(e) \in Places
              /\ e = ElementOf(shape, NumberOf(e, shape), OffsetOf(e))
<1> DEFINE M == shape[1]
           N == shape[2]
           T == TileSize
<1>1. M \in Nat \ {0} /\ N \in Nat \ {0} /\ T \in Nat /\ T > 1
  BY TileSizeAssumption DEF Sizes2
<1>2. Places = (0 .. T - 1) \X (0 .. T - 1)
  BY DEF Places, Offsets
<1> HIDE DEF M, N, T
<1>3. ASSUME NEW n \in 1 .. M * N, NEW p \in Places
      PROVE  /\ ElementOf(shape, n, p) \in Elements2(shape)
             /\ NumberOf(ElementOf(shape, n, p), shape) = n
             /\ OffsetOf(ElementOf(shape, n, p)) = p
  <2> DEFINE i == (n - 1) \div N
             j == (n - 1) % N
             y == (i * T) + p[1]
             x == (j * T) + p[2]
  <2>1. i \in 0 .. M - 1 /\ j \in 0 .. N - 1 /\ i * N + j + 1 = n
    BY <1>1, TileOfNumber, ZenonT(40)
  <2>2. p[1] \in 0 .. T - 1 /\ p[2] \in 0 .. T - 1 /\ p = <<p[1], p[2]>>
    BY <1>2
  <2>3. ElementOf(shape, n, p) = <<"b", y, x>>
    BY DEF ElementOf, N, T
  <2> HIDE DEF i, j
  <2>4. y \in 0 .. M * T - 1 /\ y \div T = i /\ y % T = p[1]
    <3>1. T \in Nat \ {0} /\ M \in Nat
      BY <1>1
    <3> QED BY <2>1, <2>2, <3>1, RowIs
  <2>5. x \in 0 .. N * T - 1 /\ x \div T = j /\ x % T = p[2]
    <3>1. T \in Nat \ {0} /\ N \in Nat
      BY <1>1
    <3> QED BY <2>1, <2>2, <3>1, RowIs
  <2> HIDE DEF y, x
  <2> DEFINE e == <<"b", y, x>>
  <2>6. e[2] = y /\ e[3] = x /\ e \in Elements2(shape)
    BY <2>4, <2>5 DEF Elements2, M, N, T
  <2> HIDE DEF e
  <2>7. NumberOf(e, shape) = i * N + j + 1 /\ OffsetOf(e) = <<p[1], p[2]>>
    BY <2>4, <2>5, <2>6 DEF NumberOf, OffsetOf, N, T
  <2> QED BY <2>1, <2>2, <2>3, <2>6, <2>7 DEF e
<1>4. ASSUME NEW e \in Elements2(shape)
      PROVE  /\ NumberOf(e, shape) \in 1 .. M * N
             /\ OffsetOf(e) \in Places
             /\ e = ElementOf(shape, NumberOf(e, shape), OffsetOf(e))
  <2>1. PICK y \in 0 .. M * T - 1, x \in 0 .. N * T - 1 : e = <<"b", y, x>>
    BY DEF Elements2, M, N, T
  <2> DEFINE i == y \div T
             j == x \div T
             n == i * N + j + 1
  <2>2. i \in 0 .. M - 1 /\ (i * T) + (y % T) = y /\ y % T \in 0 .. T - 1
    <3>1. T \in Nat \ {0} /\ M \in Nat
      BY <1>1
    <3> QED BY <3>1, RowSplits
  <2>3. j \in 0 .. N - 1 /\ (j * T) + (x % T) = x /\ x % T \in 0 .. T - 1
    <3>1. T \in Nat \ {0} /\ N \in Nat
      BY <1>1
    <3> QED BY <3>1, RowSplits
  <2>4. NumberOf(e, shape) = n /\ OffsetOf(e) = <<y % T, x % T>>
    BY <2>1 DEF NumberOf, OffsetOf, N, T
  <2> HIDE DEF i, j
  <2>5. n \in 1 .. M * N /\ (n - 1) \div N = i /\ (n - 1) % N = j
    <3> DEFINE k == (i * N) + j
    <3>1. k \in 0 .. M * N - 1 /\ k \div N = i /\ k % N = j
      BY <1>1, <2>2, <2>3, RowIs
    <3>2. i \in Int /\ j \in Int /\ N \in Int /\ M * N \in Int
      BY <1>1, <2>2, <2>3
    <3>3. n - 1 = k /\ n = k + 1
      BY <3>2
    <3> HIDE DEF n, k
    <3> QED BY <3>1, <3>2, <3>3
  <2> HIDE DEF n
  <2>6. ElementOf(shape, n, <<y % T, x % T>>) = <<"b", (i * T) + (y % T), (j * T) + (x % T)>>
    BY <2>5 DEF ElementOf, N, T
  <2>7. <<y % T, x % T>> \in Places
    BY <1>2, <2>2, <2>3
  <2> QED BY <2>1, <2>2, <2>3, <2>4, <2>5, <2>6, <2>7
<1> QED BY <1>3, <1>4 DEF M, N

\* A tile of the block of different elements.
LEMMA TileOfInput ==
  ASSUME NEW shape \in Sizes2, NEW n \in 1 .. shape[1] * shape[2], NEW p \in Places
  PROVE  Input("b", shape).tiles[n][p] = <<ElementOf(shape, n, p)>>
<1> DEFINE b == Input("b", shape)
           i == (n - 1) \div shape[2]
           j == (n - 1) % shape[2]
<1>1. shape[1] \in Nat \ {0} /\ shape[2] \in Nat \ {0}
  BY DEF Sizes2
<1>2. i \in 0 .. shape[1] - 1 /\ j \in 0 .. shape[2] - 1 /\ (i * shape[2]) + j + 1 = n
  BY <1>1, TileOfNumber, ZenonT(40)
<1>3. b.shape = shape /\ TileAt(b, i, j)[p] = << <<"b", i * TileSize + p[1], j * TileSize + p[2]>> >>
  <2> HIDE DEF i, j
  <2> QED BY <1>2, InputIs
<1> HIDE DEF b, i, j
<1>4. TileAt(b, i, j) = b.tiles[n]
  BY <1>2, <1>3 DEF TileAt
<1> QED BY <1>3, <1>4 DEF b, i, j, ElementOf

\* What is reduced in one tile is what has its home there.
TileSum(shape, dims, n, p) == ReduceTile(Input("b", shape).tiles[n], dims)[p]

\* That is a sequence of those elements, each once.
LEMMA ReducedTile ==
  ASSUME NEW shape \in Sizes2, NEW dims \in DimSets,
         NEW n \in 1 .. shape[1] * shape[2], NEW p \in Places
  PROVE  LET s == TileSum(shape, dims, n, p)
         IN /\ s \in Seq(Elements2(shape)) /\ NoRepeats(s)
            /\ \A e : e \in ToSet(s) <=> /\ e \in Elements2(shape) /\ NumberOf(e, shape) = n
                                         /\ Home(OffsetOf(e), dims) = p
<1> DEFINE T == TileSize
           t == Input("b", shape).tiles[n]
           E == Elements2(shape)
           El(q) == ElementOf(shape, n, q)
           Mine(e) == e \in E /\ NumberOf(e, shape) = n /\ Home(OffsetOf(e), dims) = p
           Right(s) == s \in Seq(E) /\ NoRepeats(s) /\ \A e : e \in ToSet(s) <=> Mine(e)
           r == ReduceTile(t, dims)[p]
<1>1. T \in Nat /\ T > 1 /\ T * T \in Nat
  BY TileSizeAssumption
<1>2. \A q \in Places : /\ t[q] = <<El(q)>> /\ El(q) \in E /\ NumberOf(El(q), shape) = n
                        /\ OffsetOf(El(q)) = q
  BY TileOfInput, ElementsAreNumbered
<1>3. \A e \in E : NumberOf(e, shape) = n => OffsetOf(e) \in Places /\ e = El(OffsetOf(e))
  BY ElementsAreNumbered
<1>4. Places = (0 .. T - 1) \X (0 .. T - 1)
  BY DEF Places, Offsets
<1> HIDE DEF T, t, E, El
\* A line of places that are those with home p.
<1>5. ASSUME NEW k \in Nat, NEW P \in [1 .. k -> Places],
             \A i, j \in 1 .. k : P[i] = P[j] => i = j,
             \A q \in Places : Home(q, dims) = p <=> \E i \in 1 .. k : q = P[i]
      PROVE  Right(FlattenSeq([i \in 1 .. k |-> t[P[i]]]))
  <2> HIDE DEF Right
  <2> DEFINE ss == [i \in 1 .. k |-> t[P[i]]]
             F  == [i \in 1 .. k |-> El(P[i])]
  <2>1. \A i \in 1 .. k : P[i] \in Places
    BY <1>5
  <2>2. F \in [1 .. k -> E] /\ ss \in [1 .. k -> Seq(E)] /\ \A i \in 1 .. k : ss[i] = <<F[i]>>
    <3>1. \A i \in 1 .. k : ss[i] = <<El(P[i])>> /\ El(P[i]) \in E /\ F[i] = El(P[i])
      BY <1>2, <2>1
    <3>2. \A q \in E : <<q>> \in Seq(E)
      OBVIOUS
    <3>3. \A i \in 1 .. k : t[P[i]] \in Seq(E)
      BY <1>2, <2>1, <3>2
    <3> QED BY <3>1, <3>3
  <2>3. \A i, j \in 1 .. k : F[i] = F[j] => i = j
    <3> SUFFICES ASSUME NEW i \in 1 .. k, NEW j \in 1 .. k, F[i] = F[j] PROVE i = j
      OBVIOUS
    <3>1. OffsetOf(F[i]) = P[i] /\ OffsetOf(F[j]) = P[j]
      BY <1>2, <2>1
    <3>2. P[i] = P[j]
      BY <3>1
    <3> QED BY <1>5, <3>2
  <2>4. \A i \in 1 .. k : F[i] = El(P[i])
    OBVIOUS
  <2> HIDE DEF ss, F
  <2>5. FlattenSeq(ss) \in Seq(E) /\ NoRepeats(FlattenSeq(ss))
        /\ \A e : e \in ToSet(FlattenSeq(ss)) <=> \E i \in 1 .. k : e = F[i]
    <3>1. \A i \in 1 .. k : ss[i] = <<F[i]>>
      BY <2>2
    <3>2. F \in [1 .. k -> E] /\ ss \in [1 .. k -> Seq(E)]
      BY <2>2
    <3>3. F \in Seq(E) /\ Len(F) = k /\ DOMAIN F = 1 .. k
      BY <3>2
    <3>4. ss = [i \in 1 .. Len(F) |-> <<F[i]>>]
      BY <3>1, <3>2, <3>3
    <3>5. FlattenSeq(ss) = F
      BY <3>3, <3>4, FlattenSingles
    <3>6. NoRepeats(F)
      BY <2>3, <3>3 DEF NoRepeats
    <3>7. \A e : e \in ToSet(F) <=> \E i \in 1 .. k : e = F[i]
      BY <3>3 DEF ToSet
    <3> QED BY <3>3, <3>5, <3>6, <3>7
  <2>6. ASSUME NEW i \in 1 .. k PROVE Mine(F[i])
    <3>1. P[i] \in Places /\ Home(P[i], dims) = p
      BY <1>5, <2>1
    <3> QED BY <1>2, <2>4, <3>1
  <2>7. ASSUME NEW e, Mine(e) PROVE \E i \in 1 .. k : e = F[i]
    <3>1. OffsetOf(e) \in Places /\ e = El(OffsetOf(e))
      BY <1>3, <2>7
    <3>2. PICK i \in 1 .. k : OffsetOf(e) = P[i]
      BY <1>5, <2>7, <3>1
    <3> QED BY <2>4, <3>1, <3>2
  <2> HIDE DEF Mine
  <2>8. \A e : e \in ToSet(FlattenSeq(ss)) <=> Mine(e)
    BY <2>5, <2>6, <2>7
  <2> QED BY <2>5, <2>8 DEF ss, Right, Mine
<1> DEFINE A == FlattenSeq([i \in 1 .. T * T |-> t[<<(i - 1) \div T, (i - 1) % T>>]])
           B == FlattenSeq([i \in 1 .. T |-> t[<<p[1], i - 1>>]])
           C == FlattenSeq([i \in 1 .. T |-> t[<<i - 1, p[2]>>]])
<1>6. r = CASE dims = {0, 1} /\ p = <<0, 0>> -> A
            [] dims = {0} /\ p[2] = 0 -> B
            [] dims = {1} /\ p[1] = 0 -> C
            [] OTHER -> << >>
  BY DEF ReduceTile, T
<1>7. p[1] \in 0 .. T - 1 /\ p[2] \in 0 .. T - 1 /\ p = <<p[1], p[2]>>
  BY <1>4
<1>8. \A q \in Places : q[1] \in 0 .. T - 1 /\ q[2] \in 0 .. T - 1 /\ q = <<q[1], q[2]>>
  BY <1>4
<1> HIDE DEF Right, A, B, C, r
<1>9. ASSUME dims = {0, 1} PROVE Right(r)
  <2>1. \A q : Home(q, dims) = <<0, 0>>
    BY <1>9 DEF Home
  <2>2. CASE p = <<0, 0>>
    <3> DEFINE P == [i \in 1 .. T * T |-> <<(i - 1) \div T, (i - 1) % T>>]
    <3>1. \A i \in 1 .. T * T : /\ (i - 1) \div T \in 0 .. T - 1 /\ (i - 1) % T \in 0 .. T - 1
                                /\ ((i - 1) \div T) * T + ((i - 1) % T) + 1 = i
      <4>1. T \in Nat \ {0}
        BY <1>1
      <4> QED BY <4>1, TileOfNumber
    <3>2. P \in [1 .. T * T -> Places]
      BY <1>4, <3>1
    <3>3. \A i, j \in 1 .. T * T : P[i] = P[j] => i = j
      <4> SUFFICES ASSUME NEW i \in 1 .. T * T, NEW j \in 1 .. T * T, P[i] = P[j] PROVE i = j
        OBVIOUS
      <4>1. (i - 1) \div T = (j - 1) \div T /\ (i - 1) % T = (j - 1) % T
        OBVIOUS
      <4> QED BY <3>1, <4>1
    <3>4. ASSUME NEW q \in Places PROVE \E i \in 1 .. T * T : q = P[i]
      <4> DEFINE k == q[1] * T + q[2] + 1
      <4>1. k \in 1 .. T * T /\ (k - 1) \div T = q[1] /\ (k - 1) % T = q[2]
        <5> DEFINE a == q[1]
                   b == q[2]
                   c == (a * T) + b
        <5>1. T \in Nat \ {0} /\ T \in Nat /\ a \in 0 .. T - 1 /\ b \in 0 .. T - 1
          BY <1>1, <1>8
        <5> HIDE DEF a, b
        <5>2. c \in 0 .. T * T - 1 /\ c \div T = a /\ c % T = b
          BY <5>1, RowIs
        <5>3. (a * T) + b + 1 = c + 1 /\ c \in Int /\ T * T \in Int
          BY <5>1
        <5> HIDE DEF c
        <5>4. k = c + 1
          BY <5>3 DEF a, b
        <5> HIDE DEF k
        <5> QED BY <5>2, <5>3, <5>4 DEF a, b
      <4> HIDE DEF k
      <4>2. P[k] = <<q[1], q[2]>>
        BY <4>1
      <4> QED BY <1>8, <4>1, <4>2
    <3>5. \A q \in Places : Home(q, dims) = p <=> \E i \in 1 .. T * T : q = P[i]
      BY <2>1, <2>2, <3>4
    <3>6. A = FlattenSeq([i \in 1 .. T * T |-> t[P[i]]])
      <4>1. [i \in 1 .. T * T |-> t[P[i]]]
            = [i \in 1 .. T * T |-> t[<<(i - 1) \div T, (i - 1) % T>>]]
        OBVIOUS
      <4> QED BY <4>1, Zenon DEF A
    <3> HIDE DEF P
    <3>7. Right(A)
      BY <1>1, <1>5, <3>2, <3>3, <3>5, <3>6
    <3>8. r = A
      BY <1>6, <1>9, <2>2
    <3> QED BY <3>7, <3>8
  <2>3. CASE p # <<0, 0>>
    <3>1. r = << >>
      <4>1. dims # {0} /\ dims # {1}
        BY <1>9
      <4> QED BY <1>6, <1>9, <2>3, <4>1
    <3>2. \A e : ~Mine(e)
      BY <2>1, <2>3
    <3> HIDE DEF Mine
    <3> QED BY <3>1, <3>2 DEF Right, NoRepeats, ToSet
  <2> QED BY <2>2, <2>3
<1>10. ASSUME dims = {0} PROVE Right(r)
  <2>1. \A q : Home(q, dims) = <<q[1], 0>>
    BY <1>10 DEF Home
  <2>2. CASE p[2] = 0
    <3> DEFINE P == [i \in 1 .. T |-> <<p[1], i - 1>>]
    <3>2. P \in [1 .. T -> Places]
      BY <1>1, <1>4, <1>7
    <3>3. \A i, j \in 1 .. T : P[i] = P[j] => i = j
      BY <1>1
    <3>5. ASSUME NEW q \in Places PROVE Home(q, dims) = p <=> \E i \in 1 .. T : q = P[i]
      <4>1. Home(q, dims) = p <=> q[1] = p[1]
        BY <1>7, <2>1, <2>2
      <4>2. q = <<q[1], (q[2] + 1) - 1>> /\ q[2] + 1 \in 1 .. T
        BY <1>1, <1>8
      <4> QED BY <4>1, <4>2
    <3>6. B = FlattenSeq([i \in 1 .. T |-> t[P[i]]])
      <4>1. [i \in 1 .. T |-> t[P[i]]] = [i \in 1 .. T |-> t[<<p[1], i - 1>>]]
        OBVIOUS
      <4> QED BY <4>1, Zenon DEF B
    <3> HIDE DEF P
    <3>7. Right(B)
      BY <1>1, <1>5, <3>2, <3>3, <3>5, <3>6
    <3>8. r = B
      <4>1. dims # {0, 1} /\ dims # {1}
        BY <1>10
      <4> QED BY <1>6, <1>10, <2>2, <4>1
    <3> QED BY <3>7, <3>8
  <2>3. CASE p[2] # 0
    <3>1. r = << >>
      <4>1. dims # {0, 1} /\ dims # {1}
        BY <1>10
      <4> QED BY <1>6, <1>10, <2>3, <4>1
    <3>2. \A e : ~Mine(e)
      BY <1>7, <2>1, <2>3
    <3> HIDE DEF Mine
    <3> QED BY <3>1, <3>2 DEF Right, NoRepeats, ToSet
  <2> QED BY <2>2, <2>3
<1>11. ASSUME dims = {1} PROVE Right(r)
  <2>1. \A q : Home(q, dims) = <<0, q[2]>>
    BY <1>11 DEF Home
  <2>2. CASE p[1] = 0
    <3> DEFINE P == [i \in 1 .. T |-> <<i - 1, p[2]>>]
    <3>2. P \in [1 .. T -> Places]
      BY <1>1, <1>4, <1>7
    <3>3. \A i, j \in 1 .. T : P[i] = P[j] => i = j
      BY <1>1
    <3>5. ASSUME NEW q \in Places PROVE Home(q, dims) = p <=> \E i \in 1 .. T : q = P[i]
      <4>1. Home(q, dims) = p <=> q[2] = p[2]
        BY <1>7, <2>1, <2>2
      <4>2. q = <<(q[1] + 1) - 1, q[2]>> /\ q[1] + 1 \in 1 .. T
        BY <1>1, <1>8
      <4> QED BY <4>1, <4>2
    <3>6. C = FlattenSeq([i \in 1 .. T |-> t[P[i]]])
      <4>1. [i \in 1 .. T |-> t[P[i]]] = [i \in 1 .. T |-> t[<<i - 1, p[2]>>]]
        OBVIOUS
      <4> QED BY <4>1, Zenon DEF C
    <3> HIDE DEF P
    <3>7. Right(C)
      BY <1>1, <1>5, <3>2, <3>3, <3>5, <3>6
    <3>8. r = C
      <4>1. dims # {0, 1} /\ dims # {0}
        BY <1>11
      <4> QED BY <1>6, <1>11, <2>2, <4>1
    <3> QED BY <3>7, <3>8
  <2>3. CASE p[1] # 0
    <3>1. r = << >>
      <4>1. dims # {0, 1} /\ dims # {0}
        BY <1>11
      <4> QED BY <1>6, <1>11, <2>3, <4>1
    <3>2. \A e : ~Mine(e)
      BY <1>7, <2>1, <2>3
    <3> HIDE DEF Mine
    <3> QED BY <3>1, <3>2 DEF Right, NoRepeats, ToSet
  <2> QED BY <2>2, <2>3
<1>12. Right(r)
  BY <1>9, <1>10, <1>11 DEF DimSets
<1> QED BY <1>12 DEF Right, r, t, E, TileSum

\* The places of a tile in the order of its elements.
PlaceAt(q) == <<(q - 1) \div TileSize, (q - 1) % TileSize>>

\* Every place comes once.
LEMMA PlacesInOrder ==
  /\ TileSize * TileSize \in Nat
  /\ \A q \in 1 .. TileSize * TileSize : PlaceAt(q) \in Places
  /\ \A q, r \in 1 .. TileSize * TileSize : PlaceAt(q) = PlaceAt(r) => q = r
  /\ \A p \in Places : \E q \in 1 .. TileSize * TileSize : p = PlaceAt(q)
<1> DEFINE T == TileSize
<1>1. T \in Nat \ {0} /\ T * T \in Nat
  BY TileSizeAssumption
<1>2. Places = (0 .. T - 1) \X (0 .. T - 1) /\ \A q : PlaceAt(q) = <<(q - 1) \div T, (q - 1) % T>>
  BY DEF Places, Offsets, PlaceAt
<1> HIDE DEF T
<1>3. \A q \in 1 .. T * T : /\ (q - 1) \div T \in 0 .. T - 1 /\ (q - 1) % T \in 0 .. T - 1
                            /\ ((q - 1) \div T) * T + ((q - 1) % T) + 1 = q
  BY <1>1, TileOfNumber
<1>4. ASSUME NEW q \in 1 .. T * T, NEW r \in 1 .. T * T, PlaceAt(q) = PlaceAt(r) PROVE q = r
  <2>1. (q - 1) \div T = (r - 1) \div T /\ (q - 1) % T = (r - 1) % T
    BY <1>2, <1>4
  <2> QED BY <1>3, <2>1
<1>5. ASSUME NEW a \in 0 .. T - 1, NEW c \in 0 .. T - 1
      PROVE  \E q \in 1 .. T * T : <<a, c>> = PlaceAt(q)
  <2> DEFINE k == (a * T) + c
  <2>1. k \in 0 .. T * T - 1 /\ k \div T = a /\ k % T = c
    BY <1>1, RowIs
  <2> HIDE DEF k
  <2>2. k + 1 \in 1 .. T * T /\ (k + 1) - 1 = k
    BY <1>1, <2>1
  <2> QED BY <1>2, <2>1, <2>2
<1>6. \A q \in 1 .. T * T : PlaceAt(q) \in Places
  BY <1>2, <1>3
<1>7. \A p \in Places : \E q \in 1 .. T * T : p = PlaceAt(q)
  BY <1>2, <1>5
<1> QED BY <1>1, <1>4, <1>6, <1>7 DEF T

\* The extents of a reduction.
RowsLeft(shape, dims)    == IF 0 \in dims THEN 1 ELSE shape[1]
ColumnsLeft(shape, dims) == IF 1 \in dims THEN 1 ELSE shape[2]

\* The tiles added up for one tile of a reduction are those with their home there.
LEMMA HomeTileIs ==
  ASSUME NEW shape \in Sizes2, NEW dims \in DimSets,
         NEW n \in 1 .. shape[1] * shape[2]
  PROVE  /\ HomeTile(n, shape, dims) \in 1 .. RowsLeft(shape, dims) * ColumnsLeft(shape, dims)
         /\ \A t \in 1 .. RowsLeft(shape, dims) * ColumnsLeft(shape, dims) :
              HomeTile(n, shape, dims) = t
              <=> /\ 0 \in dims \/ (n - 1) \div shape[2] = (t - 1) \div ColumnsLeft(shape, dims)
                  /\ 1 \in dims \/ (n - 1) % shape[2] = (t - 1) % ColumnsLeft(shape, dims)
<1> DEFINE M == shape[1]
           N == shape[2]
           R == RowsLeft(shape, dims)
           C == ColumnsLeft(shape, dims)
           a == (n - 1) \div N
           c == (n - 1) % N
           A == IF 0 \in dims THEN 0 ELSE a
           B == IF 1 \in dims THEN 0 ELSE c
<1>1. M \in Nat \ {0} /\ N \in Nat \ {0} /\ R \in Nat \ {0} /\ C \in Nat \ {0}
  BY DEF Sizes2, RowsLeft, ColumnsLeft
<1>2. a \in 0 .. M - 1 /\ c \in 0 .. N - 1
  <2> HIDE DEF M, N
  <2> QED BY <1>1, TileOfNumber DEF M, N
<1>3. A \in 0 .. R - 1 /\ B \in 0 .. C - 1
  <2> HIDE DEF a, c
  <2> QED BY <1>1, <1>2 DEF RowsLeft, ColumnsLeft
<1>4. HomeTile(n, shape, dims) = (A * C) + B + 1
  BY DEF HomeTile, ColumnsLeft
<1>5. (0 \in dims => R = 1) /\ (1 \in dims => C = 1)
  BY DEF RowsLeft, ColumnsLeft
<1>6. (0 \in dims => A = 0) /\ (0 \notin dims => A = a) /\ (1 \in dims => B = 0) /\ (1 \notin dims => B = c)
  OBVIOUS
<1> HIDE DEF M, N, R, C, a, c, A, B
<1>7. (A * C) + B \in 0 .. R * C - 1 /\ ((A * C) + B) \div C = A /\ ((A * C) + B) % C = B
  BY <1>1, <1>3, RowIs
<1> DEFINE h == (A * C) + B
<1>8. HomeTile(n, shape, dims) = h + 1 /\ h \in 0 .. R * C - 1 /\ h \div C = A /\ h % C = B
  BY <1>4, <1>7
<1> HIDE DEF h
<1>9. R * C \in Nat
  BY <1>1
<1>10. ASSUME NEW t \in 1 .. R * C
       PROVE  HomeTile(n, shape, dims) = t
              <=> (0 \in dims \/ a = (t - 1) \div C) /\ (1 \in dims \/ c = (t - 1) % C)
  <2> DEFINE i == (t - 1) \div C
             j == (t - 1) % C
  <2>1. i \in 0 .. R - 1 /\ j \in 0 .. C - 1 /\ (i * C) + j + 1 = t
    BY <1>1, <1>9, TileOfNumber, ZenonT(40)
  <2>2. h + 1 = t => A = i /\ B = j
    <3>1. h + 1 = t => h = t - 1
      BY <1>8, <1>9
    <3> QED BY <1>8, <3>1
  <2> HIDE DEF i, j
  <2>3. A = i /\ B = j => h + 1 = t
    BY <2>1 DEF h
  <2>4. (0 \in dims => i = 0) /\ (1 \in dims => j = 0)
    BY <1>5, <2>1
  <2>5. (0 \in dims \/ a = i) <=> A = i
    BY <1>6, <2>4
  <2>6. (1 \in dims \/ c = j) <=> B = j
    BY <1>6, <2>4
  <2>7. HomeTile(n, shape, dims) = t <=> A = i /\ B = j
    BY <1>8, <2>2, <2>3
  <2> QED BY <2>5, <2>6, <2>7 DEF i, j
<1>11. HomeTile(n, shape, dims) \in 1 .. R * C
  BY <1>8, <1>9
<1> QED BY <1>10, <1>11, Zenon DEF R, C, a, c, N

\* An element of a reduction is the sum of the elements with their home there.
LEMMA ReducedBlock ==
  ASSUME NEW shape \in Sizes2, NEW dims \in DimSets
  PROVE  LET o == Reduce(Input("b", shape), dims)
             R == RowsLeft(shape, dims)
             C == ColumnsLeft(shape, dims)
         IN /\ o.shape = <<R, C>> /\ DOMAIN o.tiles = 1 .. R * C
            /\ \A t \in 1 .. R * C : \A p \in Places :
                 LET s == o.tiles[t][p]
                 IN /\ s \in Seq(Elements2(shape)) /\ NoRepeats(s)
                    /\ \A e : e \in ToSet(s)
                              <=> /\ e \in Elements2(shape)
                                  /\ HomeTile(NumberOf(e, shape), shape, dims) = t
                                  /\ Home(OffsetOf(e), dims) = p
<1> DEFINE b == Input("b", shape)
           M == shape[1]
           N == shape[2]
           R == RowsLeft(shape, dims)
           C == ColumnsLeft(shape, dims)
           E == Elements2(shape)
           o == Reduce(b, dims)
           Part(i, j) == {n \in 1 .. M * N : /\ 0 \in dims \/ (n - 1) \div N = i
                                             /\ 1 \in dims \/ (n - 1) % N = j}
           Content(i, j) ==
             [p \in Places |->
                FlattenSeq([n \in 1 .. M * N |->
                  IF n \in Part(i, j) THEN ReduceTile(b.tiles[n], dims)[p] ELSE << >>])]
<1>1. b.shape[1] = M /\ b.shape[2] = N
  BY InputIs
<1>2. M * N \in Nat
  BY DEF Sizes2
<1>3. o = [shape |-> <<R, C>>,
           tiles |-> [t \in 1 .. R * C |-> Content((t - 1) \div C, (t - 1) % C)]]
  <2>1. <<R, C>>[1] = R /\ <<R, C>>[2] = C
    OBVIOUS
  <2> HIDE DEF b
  <2> QED BY <1>1, <2>1, ZenonT(40) DEF Reduce, MakeBlock, RowsLeft, ColumnsLeft
<1>4. \A t \in 1 .. R * C, n \in 1 .. M * N :
        n \in Part((t - 1) \div C, (t - 1) % C) <=> HomeTile(n, shape, dims) = t
  <2> SUFFICES ASSUME NEW t \in 1 .. R * C, NEW n \in 1 .. M * N
               PROVE  n \in Part((t - 1) \div C, (t - 1) % C) <=> HomeTile(n, shape, dims) = t
    OBVIOUS
  <2>1. HomeTile(n, shape, dims) = t <=> /\ 0 \in dims \/ (n - 1) \div N = (t - 1) \div C
                                         /\ 1 \in dims \/ (n - 1) % N = (t - 1) % C
    <3>1. /\ HomeTile(n, shape, dims) \in 1 .. R * C
          /\ \A u \in 1 .. R * C :
               HomeTile(n, shape, dims) = u
               <=> /\ 0 \in dims \/ (n - 1) \div N = (u - 1) \div C
                   /\ 1 \in dims \/ (n - 1) % N = (u - 1) % C
      BY HomeTileIs, Zenon
    <3> HIDE DEF R, C, M, N
    <3> QED BY <3>1
  <2> HIDE DEF R, C, M, N
  <2> QED BY <2>1
<1> HIDE DEF b, o
<1>5. ASSUME NEW t \in 1 .. R * C, NEW p \in Places
      PROVE  LET s == o.tiles[t][p]
             IN /\ s \in Seq(E) /\ NoRepeats(s)
                /\ \A e : e \in ToSet(s) <=> /\ e \in E /\ HomeTile(NumberOf(e, shape), shape, dims) = t
                                             /\ Home(OffsetOf(e), dims) = p
  <2> DEFINE s == o.tiles[t][p]
             r(n) == TileSum(shape, dims, n, p)
             ss == [n \in 1 .. M * N |-> IF HomeTile(n, shape, dims) = t THEN r(n) ELSE << >>]
  <2>1. \A n \in 1 .. M * N :
          /\ r(n) \in Seq(E) /\ NoRepeats(r(n))
          /\ \A e : e \in ToSet(r(n)) <=> /\ e \in E /\ NumberOf(e, shape) = n
                                          /\ Home(OffsetOf(e), dims) = p
    <3> SUFFICES ASSUME NEW n \in 1 .. M * N
                 PROVE  /\ r(n) \in Seq(E) /\ NoRepeats(r(n))
                        /\ \A e : e \in ToSet(r(n)) <=> /\ e \in E /\ NumberOf(e, shape) = n
                                                        /\ Home(OffsetOf(e), dims) = p
      OBVIOUS
    <3> QED BY ReducedTile
  <2>2. s = FlattenSeq(ss)
    <3> DEFINE P == Part((t - 1) \div C, (t - 1) % C)
    <3>1. s = FlattenSeq([n \in 1 .. M * N |-> IF n \in P THEN r(n) ELSE << >>])
      <4>1. s = FlattenSeq([n \in 1 .. M * N |-> IF n \in P THEN ReduceTile(b.tiles[n], dims)[p] ELSE << >>])
        <5> HIDE DEF Part
        <5> QED BY <1>3
      <4> HIDE DEF P
      <4> QED BY <4>1, Zenon DEF TileSum, b
    <3>2. \A n \in 1 .. M * N : n \in P <=> HomeTile(n, shape, dims) = t
      BY <1>4
    <3> HIDE DEF P, r, s
    <3>3. [n \in 1 .. M * N |-> IF n \in P THEN r(n) ELSE << >>] = ss
      BY <3>2
    <3> QED BY <3>1, <3>3
  <2>3. << >> \in Seq(E) /\ NoRepeats(<< >>) /\ ToSet(<< >>) = {}
    BY DEF NoRepeats, ToSet
  <2> HIDE DEF r, E
  <2>4. /\ ss \in [1 .. M * N -> Seq(E)]
        /\ \A n \in 1 .. M * N :
             /\ NoRepeats(ss[n])
             /\ \A e : e \in ToSet(ss[n]) <=> /\ HomeTile(n, shape, dims) = t /\ e \in E
                                              /\ NumberOf(e, shape) = n /\ Home(OffsetOf(e), dims) = p
    <3>1. ASSUME NEW n \in 1 .. M * N, HomeTile(n, shape, dims) = t
          PROVE  /\ ss[n] \in Seq(E) /\ NoRepeats(ss[n])
                 /\ \A e : e \in ToSet(ss[n]) <=> /\ e \in E /\ NumberOf(e, shape) = n
                                                  /\ Home(OffsetOf(e), dims) = p
      <4>1. ss[n] = r(n)
        BY <3>1
      <4> HIDE DEF ss
      <4> QED BY <2>1, <4>1
    <3>2. ASSUME NEW n \in 1 .. M * N, HomeTile(n, shape, dims) # t
          PROVE  ss[n] \in Seq(E) /\ NoRepeats(ss[n]) /\ ToSet(ss[n]) = {}
      <4>1. ss[n] = << >>
        BY <3>2
      <4> HIDE DEF ss
      <4> QED BY <2>3, <4>1
    <3>3. ss = [n \in 1 .. M * N |-> ss[n]]
      OBVIOUS
    <3> HIDE DEF ss
    <3>4. \A n \in 1 .. M * N : ss[n] \in Seq(E)
      BY <3>1, <3>2
    <3> QED BY <3>1, <3>2, <3>3, <3>4
  <2> HIDE DEF ss
  <2>5. \A n, m \in 1 .. M * N : \A e : e \in ToSet(ss[n]) /\ e \in ToSet(ss[m]) => n = m
    BY <2>4
  <2>6. /\ FlattenSeq(ss) \in Seq(E) /\ NoRepeats(FlattenSeq(ss))
        /\ \A e : e \in ToSet(FlattenSeq(ss)) <=> \E n \in 1 .. M * N : e \in ToSet(ss[n])
    <3> DEFINE L == M * N
    <3>1. L \in Nat
      BY <1>2
    <3>4. ss \in [1 .. L -> Seq(E)]
      BY <2>4
    <3>2. \A n, m \in 1 .. L : \A e : e \in ToSet(ss[n]) /\ e \in ToSet(ss[m]) => n = m
      BY <2>5
    <3>5. Apart(ss, L)
      BY <2>4, <3>2 DEF Apart
    <3> HIDE DEF L
    <3>3. /\ FlattenSeq(ss) \in Seq(E) /\ NoRepeats(FlattenSeq(ss))
          /\ \A e : e \in ToSet(FlattenSeq(ss)) <=> \E n \in 1 .. L : e \in ToSet(ss[n])
      BY <3>1, <3>4, <3>5, FlattenParts
    <3> QED BY <3>3 DEF L
  <2>7. \A e \in E : NumberOf(e, shape) \in 1 .. M * N
    BY ElementsAreNumbered DEF E
  <2>8. \A e : e \in ToSet(FlattenSeq(ss)) <=> /\ e \in E /\ HomeTile(NumberOf(e, shape), shape, dims) = t
                                               /\ Home(OffsetOf(e), dims) = p
    BY <2>4, <2>6, <2>7
  <2> HIDE DEF s
  <2> QED BY <2>2, <2>6, <2>8 DEF s, E
<1>6. o.shape = <<R, C>> /\ DOMAIN o.tiles = 1 .. R * C
  BY <1>3
<1> QED BY <1>5, <1>6, Zenon DEF o, b, R, C, E

\* An element of a block goes to one place of one tile of the reduction.
LEMMA HomesExist ==
  ASSUME NEW shape \in Sizes2, NEW dims \in DimSets, NEW e \in Elements2(shape)
  PROVE  /\ HomeTile(NumberOf(e, shape), shape, dims)
              \in 1 .. RowsLeft(shape, dims) * ColumnsLeft(shape, dims)
         /\ Home(OffsetOf(e), dims) \in Places
<1>1. NumberOf(e, shape) \in 1 .. shape[1] * shape[2] /\ OffsetOf(e) \in Places
  BY ElementsAreNumbered
<1>2. HomeTile(NumberOf(e, shape), shape, dims) \in 1 .. RowsLeft(shape, dims) * ColumnsLeft(shape, dims)
  <2> DEFINE n == NumberOf(e, shape)
  <2> HIDE DEF n
  <2>1. n \in 1 .. shape[1] * shape[2]
    BY <1>1 DEF n
  <2>2. HomeTile(n, shape, dims) \in 1 .. RowsLeft(shape, dims) * ColumnsLeft(shape, dims)
    BY <2>1, HomeTileIs
  <2> QED BY <2>2 DEF n
<1>3. ASSUME NEW q \in Places PROVE Home(q, dims) \in Places
  <2>1. 0 \in Offsets
    BY TileSizeAssumption DEF Offsets
  <2>2. q[1] \in Offsets /\ q[2] \in Offsets
    BY DEF Places
  <2> QED BY <2>1, <2>2 DEF Home, Places
<1> QED BY <1>1, <1>2, <1>3

\* All elements of a reduction, tile by tile: every element of the block once.
AllOf(o) ==
  FlattenSeq([n \in DOMAIN o.tiles |->
    FlattenSeq([q \in 1 .. TileSize * TileSize |-> o.tiles[n][PlaceAt(q)]])])

\* They are the elements of the block.
LEMMA AllReduced ==
  ASSUME NEW shape \in Sizes2, NEW dims \in DimSets
  PROVE  SameTerms(AllOf(Reduce(Input("b", shape), dims)), Elements2(shape))
<1> DEFINE E == Elements2(shape)
           o == Reduce(Input("b", shape), dims)
           K == RowsLeft(shape, dims) * ColumnsLeft(shape, dims)
           T2 == TileSize * TileSize
           TileHome(e) == HomeTile(NumberOf(e, shape), shape, dims)
           PlaceHome(e) == Home(OffsetOf(e), dims)
           Part(n) == [q \in 1 .. T2 |-> o.tiles[n][PlaceAt(q)]]
           Line(n) == FlattenSeq(Part(n))
           ss == [n \in 1 .. K |-> Line(n)]
<1>1. K \in Nat /\ T2 \in Nat
  BY PlacesInOrder DEF Sizes2, RowsLeft, ColumnsLeft
<1>2. DOMAIN o.tiles = 1 .. K
  BY ReducedBlock
<1>3. \A n \in 1 .. K : \A p \in Places :
        /\ o.tiles[n][p] \in Seq(E) /\ NoRepeats(o.tiles[n][p])
        /\ \A e : e \in ToSet(o.tiles[n][p]) <=> e \in E /\ TileHome(e) = n /\ PlaceHome(e) = p
  <2> HIDE DEF K
  <2>1. \A n \in 1 .. K : \A p \in Places :
          LET s == o.tiles[n][p]
          IN /\ s \in Seq(E) /\ NoRepeats(s)
             /\ \A e : e \in ToSet(s) <=> /\ e \in E
                                          /\ TileHome(e) = n
                                          /\ PlaceHome(e) = p
    BY ReducedBlock, Zenon DEF K
  <2> HIDE DEF o, E, TileHome, PlaceHome
  <2> QED BY <2>1
<1>4. \A e \in E : TileHome(e) \in 1 .. K /\ PlaceHome(e) \in Places
  BY HomesExist
<1>5. /\ \A q \in 1 .. T2 : PlaceAt(q) \in Places
      /\ \A q, r \in 1 .. T2 : PlaceAt(q) = PlaceAt(r) => q = r
      /\ \A p \in Places : \E q \in 1 .. T2 : p = PlaceAt(q)
  BY PlacesInOrder
<1> HIDE DEF E, o, K, T2, TileHome, PlaceHome
<1>6. ASSUME NEW n \in 1 .. K
      PROVE  /\ Line(n) \in Seq(E) /\ NoRepeats(Line(n))
             /\ \A e : e \in ToSet(Line(n)) <=> e \in E /\ TileHome(e) = n
  <2>1. \A q \in 1 .. T2 : Part(n)[q] = o.tiles[n][PlaceAt(q)]
    OBVIOUS
  <2>2. Part(n) \in [1 .. T2 -> Seq(E)]
    BY <1>3, <1>5
  <2> HIDE DEF Part
  <2>3. Apart(Part(n), T2)
    <3>1. \A q \in 1 .. T2 : NoRepeats(Part(n)[q])
      BY <1>3, <1>5, <2>1
    <3>2. \A q \in 1 .. T2 : \A e : e \in ToSet(Part(n)[q]) => PlaceHome(e) = PlaceAt(q)
      BY <1>3, <1>5, <2>1
    <3>3. \A q, r \in 1 .. T2 : \A e : e \in ToSet(Part(n)[q]) /\ e \in ToSet(Part(n)[r]) => q = r
      BY <1>5, <3>2
    <3> QED BY <3>1, <3>3 DEF Apart
  <2>4. /\ Line(n) \in Seq(E) /\ NoRepeats(Line(n))
        /\ \A e : e \in ToSet(Line(n)) <=> \E q \in 1 .. T2 : e \in ToSet(Part(n)[q])
    BY <1>1, <2>2, <2>3, FlattenParts
  <2>5. \A e : (\E q \in 1 .. T2 : e \in ToSet(Part(n)[q])) <=> e \in E /\ TileHome(e) = n
    BY <1>3, <1>4, <1>5, <2>1
  <2> HIDE DEF Line
  <2> QED BY <2>4, <2>5
<1> HIDE DEF Line
<1>7. ss \in [1 .. K -> Seq(E)] /\ \A n \in 1 .. K : ss[n] = Line(n)
  BY <1>6
<1>8. FlattenSeq([n \in DOMAIN o.tiles |-> Line(n)]) = FlattenSeq(ss)
  BY <1>2
<1> HIDE DEF ss
<1>9. Apart(ss, K)
  <2>1. \A n \in 1 .. K : NoRepeats(ss[n])
    BY <1>6, <1>7
  <2>2. \A n, m \in 1 .. K : \A e : e \in ToSet(ss[n]) /\ e \in ToSet(ss[m]) => n = m
    BY <1>6, <1>7
  <2> QED BY <2>1, <2>2 DEF Apart
<1>10. /\ FlattenSeq(ss) \in Seq(E) /\ NoRepeats(FlattenSeq(ss))
       /\ \A e : e \in ToSet(FlattenSeq(ss)) <=> \E n \in 1 .. K : e \in ToSet(ss[n])
  BY <1>1, <1>7, <1>9, FlattenParts
<1>11. \A e : (\E n \in 1 .. K : e \in ToSet(ss[n])) <=> e \in E
  BY <1>4, <1>6, <1>7
<1>12. ToSet(FlattenSeq(ss)) = E
  BY <1>10, <1>11
<1>13. SameTerms(FlattenSeq(ss), E)
  BY <1>10, <1>12, NoRepeatsLength DEF SameTerms
<1>14. AllOf(o) = FlattenSeq([n \in DOMAIN o.tiles |-> Line(n)])
  BY Zenon DEF AllOf, Line, Part, T2
<1> QED BY <1>8, <1>13, <1>14, Zenon DEF o, E

\* Broadcast over a single tile, a reduction gives every element the sum of its line.
SumsLines(b, o, dims) ==
  LET across == {1 - d : d \in dims}
  IN /\ Broadcastable(o, across)
     /\ \A y, x \in Offsets :
          SameTerms(At(Broadcast(o, across), y, x),
            {<<"b", v, u>> : v \in IF 1 \in dims THEN Rows(b) ELSE {y},
                             u \in IF 0 \in dims THEN Columns(b) ELSE {x}})

\* A reduction to one line or one element does.
LEMMA SumOfLine ==
  ASSUME NEW shape \in Sizes2, NEW dims \in DimSets, shape = <<1, 1>> \/ dims = {0, 1}
  PROVE  SumsLines(Input("b", shape), Reduce(Input("b", shape), dims), dims)
<1> DEFINE T == TileSize
           b == Input("b", shape)
           o == Reduce(b, dims)
           across == {1 - d : d \in dims}
           back == Broadcast(o, across)
           E == Elements2(shape)
<1>1. T \in Nat \ {0} /\ Offsets = 0 .. T - 1
  BY TileSizeAssumption DEF Offsets
<1>2. RowsLeft(shape, dims) = 1 /\ ColumnsLeft(shape, dims) = 1
  BY DEF RowsLeft, ColumnsLeft
<1>3. o.shape = <<1, 1>> /\ DOMAIN o.tiles = 1 .. 1
  <2>1. o.shape = <<RowsLeft(shape, dims), ColumnsLeft(shape, dims)>>
        /\ DOMAIN o.tiles = 1 .. RowsLeft(shape, dims) * ColumnsLeft(shape, dims)
    BY ReducedBlock
  <2> HIDE DEF o
  <2> QED BY <1>2, <2>1
<1>4. \A p \in Places :
        LET s == o.tiles[1][p]
        IN /\ s \in Seq(E) /\ NoRepeats(s)
           /\ \A e : e \in ToSet(s) <=> e \in E /\ Home(OffsetOf(e), dims) = p
  <2>1. 1 \in 1 .. RowsLeft(shape, dims) * ColumnsLeft(shape, dims)
        /\ \A e \in E : HomeTile(NumberOf(e, shape), shape, dims) \in 1 .. 1
    BY <1>2, HomesExist
  <2>2. \A p \in Places :
          LET s == o.tiles[1][p]
          IN /\ s \in Seq(E) /\ NoRepeats(s)
             /\ \A e : e \in ToSet(s) <=> /\ e \in E
                                          /\ HomeTile(NumberOf(e, shape), shape, dims) = 1
                                          /\ Home(OffsetOf(e), dims) = p
    <3> SUFFICES ASSUME NEW p \in Places
                 PROVE  LET s == o.tiles[1][p]
                        IN /\ s \in Seq(E) /\ NoRepeats(s)
                           /\ \A e : e \in ToSet(s) <=> /\ e \in E
                                                        /\ HomeTile(NumberOf(e, shape), shape, dims) = 1
                                                        /\ Home(OffsetOf(e), dims) = p
      OBVIOUS
    <3> QED BY <2>1, ReducedBlock
  <2> HIDE DEF o, E
  <2> QED BY <2>1, <2>2
<1>5. b.shape = shape
  BY InputIs
<1>6. dims \subseteq {0, 1} /\ across \subseteq {0, 1} /\ (0 \in across <=> 1 \in dims)
      /\ (1 \in across <=> 0 \in dims)
  BY DEF DimSets
<1> HIDE DEF o, across
<1>7. Broadcastable(o, across)
  BY <1>3, <1>6 DEF Broadcastable
<1>8. back.shape = <<1, 1>>
      /\ back.tiles = [t \in 1 .. 1 |-> [p \in Places |->
           o.tiles[t][<<IF 0 \in across THEN 0 ELSE p[1], IF 1 \in across THEN 0 ELSE p[2]>>]]]
  BY <1>3 DEF Broadcast
<1> HIDE DEF back
<1>9. ASSUME NEW y \in Offsets, NEW x \in Offsets
      PROVE  SameTerms(At(back, y, x),
               {<<"b", v, u>> : v \in IF 1 \in dims THEN Rows(b) ELSE {y},
                                u \in IF 0 \in dims THEN Columns(b) ELSE {x}})
  <2> DEFINE V == IF 1 \in dims THEN Rows(b) ELSE {y}
             U == IF 0 \in dims THEN Columns(b) ELSE {x}
             line == {<<"b", v, u>> : v \in V, u \in U}
             h == Home(<<y, x>>, dims)
             s == o.tiles[1][h]
  <2>1. y \div T = 0 /\ y % T = y /\ x \div T = 0 /\ x % T = x
    BY <1>1
  <2>2. <<y, x>> \in Places /\ h \in Places
    BY <1>1 DEF Places, Home
  <2>3. At(back, y, x) = back.tiles[1][<<y, x>>]
    <3>1. At(back, y, x) = TileAt(back, y \div T, x \div T)[<<y % T, x % T>>]
      BY DEF At
    <3> HIDE DEF T
    <3>2. At(back, y, x) = TileAt(back, 0, 0)[<<y, x>>]
      BY <2>1, <3>1, Zenon
    <3>3. TileAt(back, 0, 0) = back.tiles[(0 * 1) + 0 + 1]
      BY <1>8 DEF TileAt
    <3>4. (0 * 1) + 0 + 1 = 1
      OBVIOUS
    <3> QED BY <3>2, <3>3, <3>4, Zenon
  <2>4. At(back, y, x) = s
    <3>1. back.tiles[1][<<y, x>>]
          = o.tiles[1][<<IF 0 \in across THEN 0 ELSE y, IF 1 \in across THEN 0 ELSE x>>]
      BY <1>8, <2>2
    <3>2. h = <<IF 0 \in across THEN 0 ELSE y, IF 1 \in across THEN 0 ELSE x>>
      BY <1>6 DEF Home
    <3> QED BY <2>3, <3>1, <3>2
  <2>5. V \subseteq 0 .. shape[1] * T - 1 /\ U \subseteq 0 .. shape[2] * T - 1
    <3>1. V \subseteq 0 .. shape[1] * T - 1
      BY <1>1, <1>5 DEF Rows, Sizes2
    <3>2. U \subseteq 0 .. shape[2] * T - 1
      BY <1>1, <1>5 DEF Columns, Sizes2
    <3> QED BY <3>1, <3>2
  <2>6. ASSUME NEW v \in 0 .. shape[1] * T - 1, NEW u \in 0 .. shape[2] * T - 1
        PROVE  Home(OffsetOf(<<"b", v, u>>), dims) = h <=> v \in V /\ u \in U
    <3>1. OffsetOf(<<"b", v, u>>) = <<v % T, u % T>>
      BY DEF OffsetOf
    <3>2. Home(OffsetOf(<<"b", v, u>>), dims) = h
          <=> (1 \in dims \/ v % T = y) /\ (0 \in dims \/ u % T = x)
      BY <3>1 DEF Home
    <3>3. CASE dims = {0, 1}
      BY <1>5, <3>2, <3>3 DEF Rows, Columns
    <3>4. CASE shape = <<1, 1>>
      <4>1. v % T = v /\ u % T = u
        BY <1>1, <3>4
      <4> QED BY <1>5, <3>2, <4>1 DEF Rows, Columns
    <3> QED BY <3>3, <3>4
  <2> HIDE DEF V, U, h
  <2>7. \A e : e \in E /\ Home(OffsetOf(e), dims) = h <=> e \in line
    <3>1. ASSUME NEW e \in E, Home(OffsetOf(e), dims) = h PROVE e \in line
      <4>1. PICK v \in 0 .. shape[1] * T - 1, u \in 0 .. shape[2] * T - 1 : e = <<"b", v, u>>
        BY DEF Elements2
      <4> QED BY <2>6, <3>1, <4>1
    <3>2. ASSUME NEW v \in V, NEW u \in U
          PROVE  <<"b", v, u>> \in E /\ Home(OffsetOf(<<"b", v, u>>), dims) = h
      <4>1. v \in 0 .. shape[1] * T - 1 /\ u \in 0 .. shape[2] * T - 1
        BY <2>5
      <4>2. <<"b", v, u>> \in E
        BY <4>1 DEF Elements2
      <4> QED BY <2>6, <4>1, <4>2
    <3> QED BY <3>1, <3>2
  <2> HIDE DEF E, line
  <2>8. s \in Seq(E) /\ NoRepeats(s) /\ \A e : e \in ToSet(s) <=> e \in E /\ Home(OffsetOf(e), dims) = h
    BY <1>4, <2>2
  <2> HIDE DEF s
  <2>9. ToSet(s) = line
    BY <2>7, <2>8
  <2>10. SameTerms(s, line)
    BY <2>8, <2>9, NoRepeatsLength DEF SameTerms
  <2> QED BY <2>4, <2>10 DEF line, V, U
<1> HIDE DEF b
<1>10. SumsLines(b, o, dims)
  BY <1>7, <1>9 DEF SumsLines, across, back
<1> QED BY <1>10 DEF o, b

\* A reduction counts every element of the block once, and broadcast over a
\* single tile it is the sum of each line.
THEOREM EveryReduceIsComplete ==
  ASSUME NEW shape \in Sizes2, NEW dims \in DimSets
  PROVE  ReduceIsComplete(shape, dims)
<1> DEFINE b == Input("b", shape)
           o == Reduce(b, dims)
           all == FlattenSeq([n \in DOMAIN o.tiles |->
                    FlattenSeq([q \in 1 .. TileSize * TileSize |->
                      o.tiles[n][<<(q - 1) \div TileSize, (q - 1) % TileSize>>]])])
           Sum == shape = <<1, 1>> \/ dims = {0, 1} => SumsLines(b, o, dims)
<1>1. SameTerms(all, Elements2(shape))
  <2> HIDE DEF o
  <2>1. AllOf(o) = all
    BY Zenon DEF AllOf, PlaceAt
  <2> HIDE DEF all
  <2>2. SameTerms(AllOf(o), Elements2(shape))
    BY AllReduced DEF o
  <2> QED BY <2>1, <2>2
<1>2. Elements2(shape) = {<<"b", y, x>> : y \in Rows(b), x \in Columns(b)}
  <2>1. Rows(b) = 0 .. shape[1] * TileSize - 1 /\ Columns(b) = 0 .. shape[2] * TileSize - 1
    BY InputIs DEF Rows, Columns
  <2> HIDE DEF b
  <2> QED BY <2>1 DEF Elements2
<1>3. Sum
  BY SumOfLine
<1> HIDE DEF all, Sum, o, b
<1>4. SameTerms(all, {<<"b", y, x>> : y \in Rows(b), x \in Columns(b)}) /\ Sum
  BY <1>1, <1>2, <1>3
<1> QED BY <1>4 DEF ReduceIsComplete, SumsLines, all, Sum, o, b

\* The reductions of the calls are complete.
THEOREM ReductionsHold == Spec => []Reductions
<1> DEFINE I == call \in Calls \union {Idle}
<1>1. ASSUME I PROVE Reductions
  <2>1. ASSUME call.f = "reduce" PROVE ReduceIsComplete(call.shape, call.dims)
    <3>1. call.shape \in Sizes2 /\ call.dims \in DimSets
      <4>1. call \in [f : {"reduce"}, shape : Shapes, dims : DimSets]
        BY <1>1, <2>1, CallIs DEF DimSets
      <4> QED BY <4>1, BoundsAssumption DEF Shapes, Sizes2
    <3> QED BY <3>1, EveryReduceIsComplete
  <2> QED BY <2>1 DEF Reductions
<1> HIDE DEF I
<1>2. Spec => []I
  BY Called DEF I
<1> QED BY <1>1, <1>2, PTL

-----------------------------------------------------------------------------
(* Core coordinates and destinations (CoreGrid).                            *)

\* The initial parts of 1 .. n.
LEMMA InitialParts ==
  ASSUME NEW k \in Nat \ {0}
  PROVE  Max(1 .. k) = k /\ (1 .. k) \ {k} = 1 .. k - 1 /\ 1 .. k # {}
<1>1. (1 .. k) \in SUBSET Nat /\ 1 .. k # {} /\ \A j \in 1 .. k : j <= k
  OBVIOUS
<1> DEFINE m == Max(1 .. k)
<1>2. m \in 1 .. k /\ \A j \in 1 .. k : j <= m
  BY <1>1, MaxIs
<1> HIDE DEF m
<1>3. m = k
  BY <1>2
<1>4. (1 .. k) \ {k} = 1 .. k - 1
  OBVIOUS
<1> QED BY <1>1, <1>3, <1>4 DEF m

\* f gives the folds from the left over the subsets of 1 .. n.
LeftFolds(f, n, V, b, G) ==
  /\ f \in [SUBSET (1 .. n) -> V]
  /\ \A T \in SUBSET (1 .. n) :
       f[T] = IF T = {} THEN b ELSE G[<<Max(T), f[T \ {Max(T)}]>>]

\* A fold from the left over n elements has a result for every set of them.
LEMMA LeftFoldExists ==
  ASSUME NEW n \in Nat, NEW V, NEW b \in V, NEW G \in [(1 .. n) \X V -> V]
  PROVE  \E f : LeftFolds(f, n, V, b, G)
<1> DEFINE S == 1 .. n
           ch == [T \in SUBSET S |-> Max(T)]
<1>1. IsFiniteSet(S)
  BY FS_Interval
<1>2. \A T \in SUBSET S : T # {} => ch[T] \in T
  <2> SUFFICES ASSUME NEW T \in SUBSET S, T # {} PROVE Max(T) \in T
    OBVIOUS
  <2>1. T \in SUBSET Nat /\ \A k \in T : k <= n
    OBVIOUS
  <2> QED BY <2>1, MaxIs
<1>3. \A T \in SUBSET S : ch[T] = Max(T)
  OBVIOUS
<1> HIDE DEF ch, S
<1>4. \E f : Folds(f, S, V, b, ch, G)
  BY <1>1, <1>2, FoldExists DEF S
<1> QED BY <1>3, <1>4, Zenon DEF Folds, LeftFolds, S

\* p[k] is the product of the first k elements of s.
IsProducts(p, s) ==
  /\ p \in [0 .. Len(s) -> Nat]
  /\ p[0] = 1 /\ \A k \in 1 .. Len(s) : p[k] = p[k - 1] * s[k]

\* The product of a sequence is the last of its partial products.
LEMMA ProductOfSizes ==
  ASSUME NEW s \in Seq(Nat)
  PROVE  \E p : IsProducts(p, s) /\ Product(s) = p[Len(s)]
<1> DEFINE n == Len(s)
           it == CHOOSE it : it = [T \in SUBSET (1 .. n) |->
                   IF T = {} THEN 1 ELSE it[T \ {Max(T)}] * s[Max(T)]]
           G == [e \in (1 .. n) \X Nat |-> e[2] * s[e[1]]]
<1>1. n \in Nat /\ DOMAIN s = 1 .. n /\ \A k \in 1 .. n : s[k] \in Nat
  BY LenProperties
<1>2. Product(s) = it[1 .. n]
  BY <1>1 DEF Product, FoldLeft, MapThenFoldSet
<1> HIDE DEF n
<1>3. G \in [(1 .. n) \X Nat -> Nat]
  BY <1>1
<1>4. PICK f : LeftFolds(f, n, Nat, 1, G)
  <2>1. 1 \in Nat
    OBVIOUS
  <2> HIDE DEF G
  <2> QED BY <1>1, <1>3, <2>1, LeftFoldExists
<1>5. f = [T \in SUBSET (1 .. n) |-> IF T = {} THEN 1 ELSE f[T \ {Max(T)}] * s[Max(T)]]
  <2>1. ASSUME NEW T \in SUBSET (1 .. n), T # {}
        PROVE  G[<<Max(T), f[T \ {Max(T)}]>>] = f[T \ {Max(T)}] * s[Max(T)]
    <3>1. T \in SUBSET Nat /\ \A k \in T : k <= n
      BY <1>1
    <3>2. Max(T) \in 1 .. n
      BY <1>1, <2>1, <3>1, MaxIs
    <3>3. f[T \ {Max(T)}] \in Nat
      BY <1>4 DEF LeftFolds
    <3> QED BY <3>2, <3>3
  <2> HIDE DEF G
  <2> QED BY <1>4, <2>1, Zenon DEF LeftFolds
<1>6. it = [T \in SUBSET (1 .. n) |-> IF T = {} THEN 1 ELSE it[T \ {Max(T)}] * s[Max(T)]]
  BY <1>5, Zenon
<1> HIDE DEF it, G
<1> DEFINE p == [k \in 0 .. n |-> it[1 .. k]]
<1>7. it[1 .. 0] = 1
  <2>1. 1 .. 0 = {} /\ {} \in SUBSET (1 .. n)
    OBVIOUS
  <2> QED BY <1>6, <2>1
<1>8. ASSUME NEW k \in 1 .. n PROVE it[1 .. k] = it[1 .. k - 1] * s[k]
  <2>1. Max(1 .. k) = k /\ (1 .. k) \ {k} = 1 .. k - 1 /\ 1 .. k # {}
    <3>1. k \in Nat \ {0}
      BY <1>1
    <3> QED BY <3>1, InitialParts
  <2>2. 1 .. k \in SUBSET (1 .. n)
    BY <1>1
  <2>3. it[1 .. k] = it[(1 .. k) \ {Max(1 .. k)}] * s[Max(1 .. k)]
    BY <1>6, <2>1, <2>2
  <2> QED BY <2>1, <2>3
<1>9. \A k \in Nat : k <= n => it[1 .. k] \in Nat
  <2> DEFINE S == {k \in Nat : k <= n => it[1 .. k] \in Nat}
  <2>1. 0 \in S
    BY <1>7
  <2>2. ASSUME NEW k \in Nat, k \in S PROVE k + 1 \in S
    <3>1. SUFFICES ASSUME k + 1 <= n PROVE it[1 .. k + 1] \in Nat
      OBVIOUS
    <3>2. k + 1 \in 1 .. n /\ (k + 1) - 1 = k /\ it[1 .. k] \in Nat
      BY <1>1, <2>2, <3>1
    <3>3. it[1 .. k + 1] = it[1 .. k] * s[k + 1]
      BY <1>8, <3>2
    <3> QED BY <1>1, <3>2, <3>3
  <2>3. Nat \subseteq S
    <3> HIDE DEF S
    <3> QED BY <2>1, <2>2, NumberInduction
  <2> QED BY <2>3
<1>10. IsProducts(p, s)
  <2>1. p \in [0 .. n -> Nat]
    BY <1>1, <1>9
  <2>2. ASSUME NEW k \in 1 .. n PROVE p[k] = p[k - 1] * s[k]
    <3>1. k \in 0 .. n /\ k - 1 \in 0 .. n
      BY <1>1
    <3> QED BY <1>8, <3>1
  <2>3. p[0] = 1
    BY <1>1, <1>7
  <2> HIDE DEF p
  <2> QED BY <2>1, <2>2, <2>3 DEF IsProducts, n
<1>11. Product(s) = p[Len(s)]
  BY <1>1, <1>2 DEF n
<1> QED BY <1>10, <1>11

\* Closure, for indices.
LEMMA NatArith == \A a, b, c \in Nat : (a * b) + c \in Nat
OBVIOUS

\* f[k] is the index of the first k coordinates, in a grid of the first k sizes.
Partial(f, x, g) ==
  /\ f \in [1 .. Len(x) -> Nat] /\ f[1] = x[1]
  /\ \A k \in 2 .. Len(x) : f[k] = (f[k - 1] * g[k]) + x[k]

\* flatten_core_index returns the last of its partial indices.
LEMMA FlattenCoreIndexIs ==
  ASSUME NEW g \in Seq(Nat), NEW x \in Seq(Nat), Len(x) # 0, Len(x) <= Len(g)
  PROVE  \E f : Partial(f, x, g) /\ FlattenCoreIndex(x, g) = f[Len(x)]
<1> DEFINE n == Len(x) - 1
           ix == [j \in 1 .. n |-> j + 1]
           it == CHOOSE it : it = [T \in SUBSET (1 .. n) |->
                   IF T = {} THEN x[1]
                   ELSE (it[T \ {Max(T)}] * g[ix[Max(T)]]) + x[ix[Max(T)]]]
           G == [e \in (1 .. n) \X Nat |-> (e[2] * g[e[1] + 1]) + x[e[1] + 1]]
<1>1. n \in Nat /\ n + 1 = Len(x) /\ x[1] \in Nat
      /\ \A k \in 1 .. n : x[k + 1] \in Nat /\ g[k + 1] \in Nat
  <2>1. Len(x) \in Nat /\ Len(g) \in Nat
    BY LenProperties
  <2>2. n \in Nat /\ 1 \in 1 .. Len(x)
    BY <2>1
  <2>3. ASSUME NEW k \in 1 .. n PROVE k + 1 \in 1 .. Len(x) /\ k + 1 \in 1 .. Len(g)
    BY <2>1
  <2>4. \A k \in 1 .. Len(x) : x[k] \in Nat
    BY LenProperties
  <2>5. \A k \in 1 .. Len(g) : g[k] \in Nat
    BY LenProperties
  <2> QED BY <2>2, <2>3, <2>4, <2>5
<1>2. FlattenCoreIndex(x, g) = it[1 .. n]
  <2>1. DOMAIN ix = 1 .. n
    OBVIOUS
  <2>2. FlattenCoreIndex(x, g) = FoldLeft(LAMBDA linear, i : linear * g[i] + x[i], x[1], ix)
    BY DEF FlattenCoreIndex
  <2> HIDE DEF ix
  <2> QED BY <2>1, <2>2 DEF FoldLeft, MapThenFoldSet
<1> HIDE DEF n
<1>3. G \in [(1 .. n) \X Nat -> Nat]
  <2>1. ASSUME NEW e \in (1 .. n) \X Nat PROVE (e[2] * g[e[1] + 1]) + x[e[1] + 1] \in Nat
    <3>1. e[2] \in Nat /\ g[e[1] + 1] \in Nat /\ x[e[1] + 1] \in Nat
      BY <1>1
    <3> QED BY <3>1, NatArith
  <2> QED BY <2>1, Zenon
<1>4. PICK f : LeftFolds(f, n, Nat, x[1], G)
  <2> HIDE DEF G
  <2> QED BY <1>1, <1>3, LeftFoldExists
<1>5. f = [T \in SUBSET (1 .. n) |->
             IF T = {} THEN x[1] ELSE (f[T \ {Max(T)}] * g[ix[Max(T)]]) + x[ix[Max(T)]]]
  <2>1. ASSUME NEW T \in SUBSET (1 .. n), T # {}
        PROVE  G[<<Max(T), f[T \ {Max(T)}]>>]
               = (f[T \ {Max(T)}] * g[ix[Max(T)]]) + x[ix[Max(T)]]
    <3>1. T \in SUBSET Nat /\ \A k \in T : k <= n
      BY <1>1
    <3>2. Max(T) \in 1 .. n
      BY <1>1, <2>1, <3>1, MaxIs
    <3>3. f[T \ {Max(T)}] \in Nat
      BY <1>4 DEF LeftFolds
    <3> QED BY <3>2, <3>3
  <2> HIDE DEF G, ix
  <2> QED BY <1>4, <2>1, Zenon DEF LeftFolds
<1>6. it = [T \in SUBSET (1 .. n) |->
              IF T = {} THEN x[1] ELSE (it[T \ {Max(T)}] * g[ix[Max(T)]]) + x[ix[Max(T)]]]
  <2> HIDE DEF ix
  <2> QED BY <1>5, Zenon
<1> HIDE DEF it, G
<1>7. it[1 .. 0] = x[1]
  <2>1. 1 .. 0 = {} /\ {} \in SUBSET (1 .. n)
    OBVIOUS
  <2> QED BY <1>6, <2>1
<1>8. ASSUME NEW k \in 1 .. n PROVE it[1 .. k] = (it[1 .. k - 1] * g[k + 1]) + x[k + 1]
  <2>1. Max(1 .. k) = k /\ (1 .. k) \ {k} = 1 .. k - 1 /\ 1 .. k # {}
    <3>1. k \in Nat \ {0}
      BY <1>1
    <3> QED BY <3>1, InitialParts
  <2>2. 1 .. k \in SUBSET (1 .. n) /\ ix[k] = k + 1
    BY <1>1
  <2> HIDE DEF ix
  <2>3. it[1 .. k] = (it[(1 .. k) \ {Max(1 .. k)}] * g[ix[Max(1 .. k)]]) + x[ix[Max(1 .. k)]]
    BY <1>6, <2>1, <2>2
  <2> QED BY <2>1, <2>2, <2>3
<1> HIDE DEF ix
<1>9. \A k \in Nat : k <= n => it[1 .. k] \in Nat
  <2> DEFINE S == {k \in Nat : k <= n => it[1 .. k] \in Nat}
  <2>1. 0 \in S
    BY <1>1, <1>7
  <2>2. ASSUME NEW k \in Nat, k \in S PROVE k + 1 \in S
    <3>1. SUFFICES ASSUME k + 1 <= n PROVE it[1 .. k + 1] \in Nat
      OBVIOUS
    <3>2. k + 1 \in 1 .. n /\ (k + 1) - 1 = k /\ it[1 .. k] \in Nat
      BY <1>1, <2>2, <3>1
    <3>3. it[1 .. k + 1] = (it[1 .. k] * g[(k + 1) + 1]) + x[(k + 1) + 1]
      BY <1>8, <3>2
    <3>4. g[(k + 1) + 1] \in Nat /\ x[(k + 1) + 1] \in Nat
      BY <1>1, <3>2
    <3> QED BY <3>2, <3>3, <3>4, NatArith
  <2>3. Nat \subseteq S
    <3> HIDE DEF S
    <3> QED BY <2>1, <2>2, NumberInduction
  <2> QED BY <2>3
<1> DEFINE p == [k \in 1 .. n + 1 |-> it[1 .. k - 1]]
<1>10. Partial(p, x, g)
  <2>1. p \in [1 .. n + 1 -> Nat]
    <3>1. ASSUME NEW k \in 1 .. n + 1 PROVE k - 1 \in Nat /\ k - 1 <= n
      BY <1>1
    <3> QED BY <1>9, <3>1
  <2>2. ASSUME NEW k \in 2 .. n + 1 PROVE p[k] = (p[k - 1] * g[k]) + x[k]
    <3>1. /\ k \in 1 .. n + 1 /\ k - 1 \in 1 .. n + 1
          /\ k - 1 \in 1 .. n /\ (k - 1) + 1 = k
      BY <1>1
    <3> QED BY <1>8, <3>1
  <2>3. p[1] = x[1]
    <3>1. 1 \in 1 .. n + 1 /\ 1 - 1 = 0
      BY <1>1
    <3> QED BY <1>7, <3>1
  <2> HIDE DEF p
  <2> QED BY <1>1, <2>1, <2>2, <2>3 DEF Partial
<1>11. FlattenCoreIndex(x, g) = p[Len(x)]
  <2>1. n + 1 \in 1 .. n + 1 /\ (n + 1) - 1 = n
    BY <1>1
  <2> QED BY <1>1, <1>2, <2>1
<1> QED BY <1>10, <1>11

\* The product of the sizes from i on.
LEMMA ProductOfTail ==
  ASSUME NEW g \in Seq(Nat), NEW i \in 1 .. Len(g)
  PROVE  Product(SubSeq(g, i, Len(g))) = g[i] * Product(SubSeq(g, i + 1, Len(g)))
<1> DEFINE n == Len(g)
           s == SubSeq(g, i, n)
           t == SubSeq(g, i + 1, n)
           m == n - i
<1>1. n \in Nat /\ m \in Nat /\ i \in Nat /\ i + m = n /\ i >= 1 /\ g[i] \in Nat
  BY LenProperties
<1>2. s \in Seq(Nat) /\ Len(s) = m + 1 /\ \A k \in 1 .. m + 1 : s[k] = g[i + k - 1]
  <2>1. i \in Int /\ n \in Int /\ \A k \in i .. n : k \in DOMAIN g
    BY LenProperties
  <2>2. Len(s) = IF n < i THEN 0 ELSE (n - i) + 1
    BY SubSeqProperties, <2>1
  <2>3. /\ s \in Seq(Nat)
        /\ \A k \in 1 .. Len(s) : s[k] = g[i + k - 1]
    BY SubSeqProperties, <2>1, <1>1, SMTT(30)
  <2> QED BY <2>2, <2>3, <1>1
<1>3. t \in Seq(Nat) /\ Len(t) = m /\ \A k \in 1 .. m : t[k] = g[i + k]
  <2>1. i + 1 \in 1 .. n + 1 /\ n \in Nat
    BY <1>1
  <2>2. t \in Seq(Nat) /\ Len(t) = m /\ \A k \in 1 .. m : t[k] = g[(i + 1) + k - 1]
    <3>1. i + 1 \in Int /\ n \in Int /\ \A k \in i + 1 .. n : g[k] \in Nat
      BY <1>1, LenProperties
    <3>2. /\ t \in Seq(Nat) /\ Len(t) = IF i + 1 <= n THEN n - (i + 1) + 1 ELSE 0
          /\ \A k \in 1 .. n - (i + 1) + 1 : t[k] = g[(i + 1) + k - 1]
      BY <3>1, SubSeqProperties
    <3> HIDE DEF t
    <3>3. n - (i + 1) + 1 = m /\ (i + 1 <= n \/ m = 0)
      <4>1. n \in Nat /\ m \in Nat /\ i \in Nat /\ i + m = n /\ m = n - i
        BY <1>1, SMTT(30)
      <4> HIDE DEF n, m
      <4> QED BY <4>1
    <3>4. Len(t) = m
      BY <3>2, <3>3
    <3> QED BY <3>2, <3>3, <3>4
  <2>3. \A k \in 1 .. m : (i + 1) + k - 1 = i + k
    BY <1>1
  <2> HIDE DEF t, m
  <2> QED BY <2>2, <2>3
<1>4. PICK p : IsProducts(p, s) /\ Product(s) = p[Len(s)]
  BY <1>2, ProductOfSizes
<1>5. PICK q : IsProducts(q, t) /\ Product(t) = q[Len(t)]
  BY <1>3, ProductOfSizes
<1> HIDE DEF s, t, m
<1> DEFINE S == {k \in Nat : k <= m => p[k + 1] = g[i] * q[k]}
<1>6. 0 \in S
  <2>1. 1 \in 1 .. m + 1 /\ 1 - 1 = 0 /\ i + 1 - 1 = i
    BY <1>1
  <2>2. p[1] = p[1 - 1] * s[1] /\ p[0] = 1 /\ s[1] = g[i] /\ q[0] = 1
    BY <1>2, <1>4, <1>5, <2>1 DEF IsProducts
  <2> QED BY <1>1, <2>1, <2>2
<1>7. ASSUME NEW k \in Nat, k \in S PROVE k + 1 \in S
  <2>1. SUFFICES ASSUME k + 1 <= m PROVE p[(k + 1) + 1] = g[i] * q[k + 1]
    OBVIOUS
  <2>2. k + 2 \in 1 .. m + 1 /\ (k + 2) - 1 = k + 1 /\ k + 1 \in 1 .. m /\ (k + 1) - 1 = k
        /\ (k + 1) + 1 = k + 2 /\ i + (k + 2) - 1 = i + (k + 1) /\ k \in 0 .. m
    BY <1>1, <2>1
  <2>3. p[k + 2] = p[k + 1] * s[k + 2] /\ q[k + 1] = q[k] * t[k + 1] /\ q[k] \in Nat
    BY <1>2, <1>3, <1>4, <1>5, <2>2 DEF IsProducts
  <2>4. s[k + 2] = t[k + 1] /\ t[k + 1] \in Nat
    <3>1. t[k + 1] = g[i + (k + 1)] /\ s[k + 2] = g[i + (k + 2) - 1]
      BY <1>2, <1>3, <2>2
    <3>2. t[k + 1] \in Nat
      BY <1>3, <2>2, LenProperties
    <3> QED BY <2>2, <3>1, <3>2
  <2>5. p[k + 1] = g[i] * q[k]
    BY <1>7, <2>2
  <2>6. \A a, b, c \in Nat : (a * b) * c = a * (b * c)
    OBVIOUS
  <2> QED BY <1>1, <2>2, <2>3, <2>4, <2>5, <2>6
<1>8. m \in S
  <2> HIDE DEF S
  <2> QED BY <1>1, <1>6, <1>7, NumberInduction
<1>9. p[m + 1] = g[i] * q[m]
  BY <1>1, <1>8
<1> QED BY <1>2, <1>3, <1>4, <1>5, <1>9 DEF s, t

\* A grid has at least one dimension, and its sizes are positive.
IsGrid(g) == g \in Seq(Nat \ {0}) /\ Len(g) # 0

\* w[k] is the number of cores that share their first k coordinates.
Weights(w, g) ==
  /\ w \in [0 .. Len(g) -> Nat \ {0}] /\ w[Len(g)] = 1
  /\ \A k \in 1 .. Len(g) : w[k - 1] = g[k] * w[k]
  /\ \A k \in 0 .. Len(g) : Product(SubSeq(g, k + 1, Len(g))) = w[k]

\* A grid has sizes for its dimensions.
LEMMA GridIs ==
  ASSUME NEW g, IsGrid(g)
  PROVE  /\ Len(g) \in Nat \ {0} /\ DOMAIN g = 1 .. Len(g) /\ g \in Seq(Nat)
         /\ \A k \in 1 .. Len(g) : g[k] \in Nat \ {0}
BY LenProperties, SeqDef DEF IsGrid

\* Every grid has weights.
LEMMA WeightsExist ==
  ASSUME NEW g, IsGrid(g)
  PROVE  \E w : Weights(w, g)
<1> DEFINE n == Len(g)
           T(k) == Product(SubSeq(g, k + 1, n))
           w == [k \in 0 .. n |-> T(k)]
<1>1. n \in Nat \ {0} /\ DOMAIN g = 1 .. n /\ g \in Seq(Nat) /\ \A k \in 1 .. n : g[k] \in Nat \ {0}
  BY GridIs
<1>2. T(n) = 1
  <2>1. SubSeq(g, n + 1, n) \in Seq(Nat) /\ Len(SubSeq(g, n + 1, n)) = 0
    <3>1. SubSeq(g, n + 1, n) = << >>
      BY <1>1, SubSeqEmpty
    <3>2. << >> \in Seq(Nat) /\ Len(<< >>) = 0
      BY EmptySeq
    <3> QED BY <3>1, <3>2
  <2>2. PICK p : IsProducts(p, SubSeq(g, n + 1, n)) /\ T(n) = p[Len(SubSeq(g, n + 1, n))]
    BY <2>1, ProductOfSizes
  <2> QED BY <2>1, <2>2 DEF IsProducts
<1>3. ASSUME NEW k \in 1 .. n PROVE T(k - 1) = g[k] * T(k)
  <2>1. (k - 1) + 1 = k
    BY <1>1
  <2>2. Product(SubSeq(g, k, n)) = g[k] * Product(SubSeq(g, k + 1, n))
    BY <1>1, ProductOfTail
  <2> QED BY <2>1, <2>2
<1> HIDE DEF T, n
<1> DEFINE S == {j \in Nat : j <= n => T(n - j) \in Nat \ {0}}
<1>4. 0 \in S
  <2>1. n - 0 = n
    BY <1>1
  <2> QED BY <1>2, <2>1
<1>5. ASSUME NEW j \in Nat, j \in S PROVE j + 1 \in S
  <2>1. SUFFICES ASSUME j + 1 <= n PROVE T(n - (j + 1)) \in Nat \ {0}
    OBVIOUS
  <2> DEFINE k == n - j
  <2>2. k \in 1 .. n /\ k - 1 = n - (j + 1) /\ T(k) \in Nat \ {0}
    BY <1>1, <1>5, <2>1
  <2> HIDE DEF k
  <2>3. T(k - 1) = g[k] * T(k) /\ g[k] \in Nat \ {0}
    BY <1>1, <1>3, <2>2
  <2>4. \A a, b \in Nat \ {0} : a * b \in Nat \ {0}
    OBVIOUS
  <2> QED BY <2>2, <2>3, <2>4
<1>6. Nat \subseteq S
  <2> HIDE DEF S
  <2> QED BY <1>4, <1>5, NumberInduction
<1>7. ASSUME NEW k \in 0 .. n PROVE T(k) \in Nat \ {0}
  <2>1. n - k \in Nat /\ n - k <= n /\ n - (n - k) = k
    BY <1>1
  <2> QED BY <1>6, <2>1
<1>8. w \in [0 .. n -> Nat \ {0}] /\ w[n] = 1
  BY <1>1, <1>2, <1>7
<1>9. \A k \in 1 .. n : w[k - 1] = g[k] * w[k]
  <2> TAKE k \in 1 .. n
  <2>1. k \in 0 .. n /\ k - 1 \in 0 .. n
    BY <1>1
  <2> QED BY <1>3, <2>1
<1>10. \A k \in 0 .. n : Product(SubSeq(g, k + 1, n)) = w[k]
  BY DEF T
<1> HIDE DEF w
<1> QED BY <1>8, <1>9, <1>10 DEF Weights, n

\* The cores are numbered up to the product of the sizes.
LEMMA CoresAre ==
  ASSUME NEW g, IsGrid(g), NEW w, Weights(w, g)
  PROVE  Cores(g) = 0 .. w[0] - 1 /\ w[0] \in Nat \ {0}
<1>1. Len(g) \in Nat \ {0} /\ g \in Seq(Nat)
  BY GridIs
<1>2. 0 \in 0 .. Len(g)
  BY <1>1
<1>3. Product(SubSeq(g, 0 + 1, Len(g))) = w[0] /\ w[0] \in Nat \ {0}
  BY <1>2 DEF Weights
<1>4. SubSeq(g, 0 + 1, Len(g)) = g
  <2>1. 0 + 1 = 1
    OBVIOUS
  <2>2. SubSeq(g, 1, Len(g)) = g
    BY <1>1, SubSeqFull
  <2> QED BY <2>1, <2>2
<1> QED BY <1>3, <1>4 DEF Cores

\* The digits of a number, to which the weights belong.
IsDigits(d, c, w, g) ==
  /\ d \in Seq(Nat) /\ Len(d) = Len(g)
  /\ \A k \in 1 .. Len(g) : d[k] < g[k]
  /\ d[1] = c \div w[1]
  /\ \A k \in 2 .. Len(g) : c \div w[k] = ((c \div w[k - 1]) * g[k]) + d[k]

\* Division by b and then by a is division by a * b, with its digit.
DividesTwice(c, a, b) ==
  /\ c \div (a * b) = (c \div b) \div a
  /\ c \div b = ((c \div (a * b)) * a) + ((c \div b) % a)
  /\ (c \div b) % a \in 0 .. a - 1 /\ c \div b \in Nat
  /\ (c < a * b => c \div b < a)

\* Division by a product, one factor after the other.
LEMMA DivByProduct ==
  ASSUME NEW c \in Nat, NEW a \in Nat \ {0}, NEW b \in Nat \ {0}
  PROVE  DividesTwice(c, a, b)
<1> DEFINE q == c \div b
           r == c % b
           u == q \div a
           v == q % a
<1>1. q \in Nat /\ r \in 0 .. b - 1 /\ c = b * q + r
  OBVIOUS
<1> HIDE DEF q, r
<1>2. u \in Nat /\ v \in 0 .. a - 1 /\ q = a * u + v
  BY <1>1
<1> HIDE DEF u, v
<1>3. a * b \in Nat \ {0}
  OBVIOUS
<1>4. c = (a * b) * u + (b * v + r)
  BY <1>1, <1>2
<1>5. b * v + r \in 0 .. (a * b) - 1
  <2>1. v + 1 <= a /\ b * (v + 1) <= b * a
    BY <1>2
  <2>2. b * v + r < b * (v + 1)
    BY <1>1, <1>2
  <2> QED BY <1>1, <1>2, <2>1, <2>2
<1>6. c \div (a * b) = u
  <2> DEFINE m == a * b
             e == b * v + r
  <2>1. m \in Nat \ {0} /\ e \in 0 .. m - 1 /\ c = m * u + e
    BY <1>3, <1>4, <1>5
  <2> HIDE DEF m, e
  <2>2. c \div m = u
    BY <2>1, <1>2
  <2> QED BY <2>2 DEF m
<1>7. c < a * b => q < a
  <2> SUFFICES ASSUME q >= a PROVE c >= a * b
    BY <1>1, <1>3
  <2>1. b * q >= b * a
    BY <1>1
  <2> QED BY <1>1, <2>1
<1> QED BY <1>1, <1>2, <1>6, <1>7 DEF DividesTwice, q, u, v

\* The digits of a core, as core() takes them from its number.
LEMMA DigitsAre ==
  ASSUME NEW g, IsGrid(g), NEW w, Weights(w, g), NEW c \in Cores(g)
  PROVE  IsDigits(Digits(c, g), c, w, g)
<1> DEFINE n == Len(g)
           d == Digits(c, g)
<1>1. n \in Nat \ {0} /\ DOMAIN g = 1 .. n /\ \A k \in 1 .. n : g[k] \in Nat \ {0}
  BY GridIs
<1>2. c \in Nat /\ c < w[0]
  BY CoresAre
<1> HIDE DEF n
<1>3. ASSUME NEW k \in 1 .. n
      PROVE  /\ d[k] = (c \div w[k]) % g[k] /\ d[k] \in Nat /\ d[k] < g[k]
             /\ w[k - 1] = g[k] * w[k] /\ w[k] \in Nat \ {0}
             /\ c \div w[k] = ((c \div w[k - 1]) * g[k]) + d[k]
             /\ c < w[k - 1] => c \div w[k] < g[k] /\ c \div w[k] \in Nat
  <2>1. k \in 0 .. n
    BY <1>1
  <2>2. Product(SubSeq(g, k + 1, n)) = w[k] /\ w[k] \in Nat \ {0} /\ w[k - 1] = g[k] * w[k]
    BY <2>1 DEF Weights, n
  <2>3. d[k] = (c \div w[k]) % g[k]
    <3>1. d[k] = (c \div Product(SubSeq(g, k + 1, n))) % g[k]
      BY <1>1 DEF Digits, n
    <3> QED BY <2>2, <3>1
  <2> HIDE DEF d
  <2>4. g[k] \in Nat \ {0}
    BY <1>1
  <2>5. /\ c \div w[k] = ((c \div (g[k] * w[k])) * g[k]) + ((c \div w[k]) % g[k])
        /\ (c \div w[k]) % g[k] \in 0 .. g[k] - 1 /\ c \div w[k] \in Nat
        /\ c < g[k] * w[k] => c \div w[k] < g[k]
    <3>1. DividesTwice(c, g[k], w[k])
      BY <1>2, <2>2, <2>4, DivByProduct
    <3> QED BY <3>1, Zenon DEF DividesTwice
  <2>6. d[k] \in Nat /\ d[k] < g[k]
    BY <2>3, <2>4, <2>5
  <2>7. c \div w[k] = ((c \div w[k - 1]) * g[k]) + d[k]
    BY <2>2, <2>3, <2>5, Zenon
  <2> QED BY <2>2, <2>3, <2>5, <2>6, <2>7
<1>4. d \in Seq(Nat) /\ Len(d) = n
  <2>1. d \in [1 .. n -> Nat]
    <3>1. d = [k \in 1 .. n |-> d[k]]
      BY <1>1 DEF Digits
    <3> HIDE DEF d
    <3> QED BY <1>3, <3>1
  <2> HIDE DEF d
  <2> QED BY <1>1, <2>1, SeqDef, LenProperties
<1>5. d[1] = c \div w[1]
  <2>1. 1 \in 1 .. n /\ 1 - 1 = 0
    BY <1>1
  <2>2. c < w[1 - 1]
    BY <1>2, <2>1
  <2>3. d[1] = (c \div w[1]) % g[1] /\ c \div w[1] < g[1] /\ c \div w[1] \in Nat
    BY <1>3, <2>1, <2>2
  <2>4. g[1] \in Nat \ {0}
    BY <1>1, <2>1
  <2> DEFINE q == c \div w[1]
  <2> HIDE DEF q, d
  <2> QED BY <2>3, <2>4 DEF q
<1> HIDE DEF d
<1>6. \A k \in 2 .. n : c \div w[k] = ((c \div w[k - 1]) * g[k]) + d[k]
  <2> TAKE k \in 2 .. n
  <2>1. k \in 1 .. n
    BY <1>1
  <2> QED BY <1>3, <2>1
<1>7. \A k \in 1 .. n : d[k] < g[k]
  BY <1>3
<1>8. IsDigits(d, c, w, g)
  BY <1>4, <1>5, <1>6, <1>7 DEF IsDigits, n
<1> QED BY <1>8 DEF d

\* The partial indices of the digits of c are what c is divided by the weights.
LEMMA PartialIsDiv ==
  ASSUME NEW g, IsGrid(g), NEW w, Weights(w, g), NEW c \in Cores(g), NEW d,
         IsDigits(d, c, w, g), NEW m \in 1 .. Len(g)
  PROVE  /\ SubSeq(d, 1, m) \in Seq(Nat) /\ Len(SubSeq(d, 1, m)) = m
         /\ FlattenCoreIndex(SubSeq(d, 1, m), g) = c \div w[m]
<1> DEFINE n == Len(g)
           x == SubSeq(d, 1, m)
<1>1. n \in Nat \ {0} /\ DOMAIN g = 1 .. n /\ g \in Seq(Nat) /\ m \in Nat /\ m <= n /\ m # 0
  BY GridIs
<1>2. x \in Seq(Nat) /\ Len(x) = m /\ \A k \in 1 .. m : x[k] = d[k]
  <2>1. \A k \in 1 .. m : d[k] \in Nat
    BY <1>1, LenProperties DEF IsDigits
  <2>2. /\ x \in Seq(Nat) /\ Len(x) = IF 1 <= m THEN m - 1 + 1 ELSE 0
        /\ \A k \in 1 .. m - 1 + 1 : x[k] = d[1 + k - 1]
    BY <1>1, <2>1, SubSeqProperties
  <2> HIDE DEF x
  <2>3. m - 1 + 1 = m /\ 1 <= m /\ \A k \in 1 .. m : 1 + k - 1 = k
    BY <1>1
  <2>4. Len(x) = m
    BY <2>2, <2>3
  <2> QED BY <2>2, <2>3, <2>4
<1> HIDE DEF x
<1>3. PICK f : Partial(f, x, g) /\ FlattenCoreIndex(x, g) = f[Len(x)]
  BY <1>1, <1>2, FlattenCoreIndexIs
<1> HIDE DEF n
<1> DEFINE S == {k \in Nat : k + 1 <= m => f[k + 1] = c \div w[k + 1]}
<1>4. 0 \in S
  <2>1. f[1] = x[1] /\ x[1] = d[1] /\ d[1] = c \div w[1] /\ 0 + 1 = 1
    BY <1>1, <1>2, <1>3 DEF Partial, IsDigits
  <2> QED BY <2>1
<1>5. ASSUME NEW k \in Nat, k \in S PROVE k + 1 \in S
  <2>1. SUFFICES ASSUME (k + 1) + 1 <= m PROVE f[(k + 1) + 1] = c \div w[(k + 1) + 1]
    OBVIOUS
  <2> DEFINE j == (k + 1) + 1
  <2>2. j \in 2 .. m /\ j \in 2 .. n /\ j - 1 = k + 1 /\ j \in 1 .. m
    BY <1>1, <2>1
  <2>3. f[j - 1] = c \div w[j - 1]
    BY <1>5, <2>1, <2>2
  <2> HIDE DEF j
  <2>4. f[j] = (f[j - 1] * g[j]) + x[j]
    BY <1>2, <1>3, <2>2 DEF Partial
  <2>5. c \div w[j] = ((c \div w[j - 1]) * g[j]) + d[j]
    BY <2>2 DEF IsDigits, n
  <2>6. x[j] = d[j]
    BY <1>2, <2>2
  <2>7. f[j] = c \div w[j]
    BY <2>3, <2>4, <2>5, <2>6, Zenon
  <2> QED BY <2>7 DEF j
<1>6. Nat \subseteq S
  <2> HIDE DEF S
  <2> QED BY <1>4, <1>5, NumberInduction
<1>7. f[m] = c \div w[m]
  <2>1. m - 1 \in Nat /\ (m - 1) + 1 = m
    BY <1>1
  <2> QED BY <1>6, <2>1
<1> QED BY <1>2, <1>3, <1>7 DEF x

\* Equal digits, and an equal beginning, make equal numbers.
LEMMA DigitsDetermine ==
  ASSUME NEW g, IsGrid(g), NEW w, Weights(w, g), NEW b \in Cores(g), NEW c \in Cores(g),
         NEW x, NEW y, IsDigits(x, b, w, g), IsDigits(y, c, w, g), NEW m \in 1 .. Len(g),
         b \div w[m] = c \div w[m], \A k \in m + 1 .. Len(g) : x[k] = y[k]
  PROVE  b = c
<1> DEFINE n == Len(g)
           S == {j \in Nat : m + j <= n => b \div w[m + j] = c \div w[m + j]}
<1>1. n \in Nat \ {0} /\ m \in Nat /\ m <= n /\ m # 0
  BY GridIs
<1>2. 0 \in S
  BY <1>1
<1> HIDE DEF n
<1>3. ASSUME NEW j \in Nat, j \in S PROVE j + 1 \in S
  <2>1. SUFFICES ASSUME m + (j + 1) <= n
                 PROVE  b \div w[m + (j + 1)] = c \div w[m + (j + 1)]
    OBVIOUS
  <2> DEFINE k == m + (j + 1)
  <2>2. k \in 2 .. n /\ k \in m + 1 .. n /\ k - 1 = m + j
    BY <1>1, <2>1
  <2>3. b \div w[k - 1] = c \div w[k - 1]
    BY <1>1, <1>3, <2>1, <2>2
  <2> HIDE DEF k
  <2>4. b \div w[k] = ((b \div w[k - 1]) * g[k]) + x[k]
    BY <2>2 DEF IsDigits, n
  <2>5. c \div w[k] = ((c \div w[k - 1]) * g[k]) + y[k]
    BY <2>2 DEF IsDigits, n
  <2>6. x[k] = y[k]
    BY <2>2 DEF n
  <2>7. b \div w[k] = c \div w[k]
    BY <2>3, <2>4, <2>5, <2>6, Zenon
  <2> QED BY <2>7 DEF k
<1>4. Nat \subseteq S
  <2> HIDE DEF S
  <2> QED BY <1>2, <1>3, NumberInduction
<1>5. b \div w[n] = c \div w[n]
  <2> DEFINE j == n - m
  <2>1. j \in Nat /\ m + j = n
    BY <1>1
  <2> HIDE DEF j
  <2> QED BY <1>1, <1>4, <2>1
<1>6. w[n] = 1 /\ b \in Nat /\ c \in Nat
  <2>1. b \in Nat /\ c \in Nat
    BY CoresAre
  <2> QED BY <2>1 DEF Weights, n
<1>7. \A a \in Nat : a \div 1 = a
  OBVIOUS
<1> QED BY <1>5, <1>6, <1>7

\* The coordinates x of core c: the surplus digits are folded into the first, or
\* zeros added.
IsCore(x, dims, c, d, w, g) ==
  /\ x \in Seq(Nat) /\ Len(x) = dims
  /\ (dims < Len(g) =>
        /\ x[1] = c \div w[(Len(g) - dims) + 1]
        /\ \A k \in 2 .. dims : x[k] = d[(Len(g) - dims) + k])
  /\ (dims >= Len(g) =>
        /\ \A k \in 1 .. Len(g) : x[k] = d[k]
        /\ \A k \in Len(g) + 1 .. dims : x[k] = 0)

\* core() folds and pads the digits so.
LEMMA CoreIs ==
  ASSUME NEW g, IsGrid(g), NEW w, Weights(w, g), NEW dims \in Nat \ {0}, NEW c \in Cores(g)
  PROVE  IsCore(Core(dims, c, g), dims, c, Digits(c, g), w, g)
<1> DEFINE n == Len(g)
           d == Digits(c, g)
           e == n - dims
           x == Core(dims, c, g)
<1>1. n \in Nat \ {0} /\ IsDigits(d, c, w, g)
  BY GridIs, DigitsAre
<1> HIDE DEF d
<1>2. d \in Seq(Nat) /\ Len(d) = n /\ \A k \in 1 .. n : d[k] \in Nat
  BY <1>1, LenProperties DEF IsDigits
<1>3. CASE e > 0
  <2> DEFINE m == e + 1
             s == SubSeq(d, m + 1, n)
             a == FlattenCoreIndex(SubSeq(d, 1, m), g)
  <2>1. m \in 1 .. n /\ m \in Nat /\ n - m = dims - 1 /\ dims - 1 \in Nat
    BY <1>1, <1>3
  <2>2. a = c \div w[m] /\ a \in Nat
    <3>1. a = c \div w[m]
      BY <1>1, <2>1, PartialIsDiv
    <3>2. c \in Nat /\ w[m] \in Nat \ {0}
      <4>1. c \in Nat
        BY CoresAre
      <4>2. m \in 0 .. n
        BY <1>1, <2>1
      <4> HIDE DEF m
      <4> QED BY <4>1, <4>2 DEF Weights
    <3> HIDE DEF a, m
    <3> QED BY <3>1, <3>2
  <2>3. s \in Seq(Nat) /\ Len(s) = dims - 1 /\ \A k \in 1 .. dims - 1 : s[k] = d[m + k]
    <3>1. m + 1 \in Int /\ n \in Int /\ \A k \in m + 1 .. n : d[k] \in Nat
      BY <1>1, <1>2, <2>1
    <3> HIDE DEF n, m
    <3>2. /\ s \in Seq(Nat) /\ Len(s) = IF m + 1 <= n THEN n - (m + 1) + 1 ELSE 0
          /\ \A k \in 1 .. n - (m + 1) + 1 : s[k] = d[(m + 1) + k - 1]
      BY <3>1, SubSeqProperties
    <3> HIDE DEF s
    <3>3. n - (m + 1) + 1 = dims - 1 /\ (m + 1 <= n \/ dims - 1 = 0)
          /\ \A k \in 1 .. dims - 1 : (m + 1) + k - 1 = m + k
      BY <1>1, <2>1
    <3>4. Len(s) = dims - 1
      BY <3>2, <3>3
    <3> QED BY <3>2, <3>3, <3>4
  <2>4. x = <<a>> \o s
    <3>1. e + 2 = m + 1
      BY <1>1
    <3> QED BY <1>2, <1>3, <3>1 DEF Core, d
  <2> HIDE DEF s, a
  <2>5. x \in Seq(Nat) /\ Len(x) = dims
        /\ \A k \in 1 .. dims : x[k] = IF k <= 1 THEN a ELSE s[k - 1]
    <3>1. <<a>> \in Seq(Nat) /\ Len(<<a>>) = 1 /\ <<a>>[1] = a
      BY <2>2
    <3> DEFINE u == <<a>>
    <3> HIDE DEF u, x
    <3>2. /\ u \o s \in Seq(Nat) /\ Len(u \o s) = Len(u) + Len(s)
          /\ \A k \in 1 .. Len(u) + Len(s) :
               (u \o s)[k] = IF k <= Len(u) THEN u[k] ELSE s[k - Len(u)]
      BY <2>3, <3>1, ConcatProperties DEF u
    <3>3. Len(u) + Len(s) = dims
      BY <2>3, <3>1 DEF u
    <3>4. ASSUME NEW k \in 1 .. dims PROVE x[k] = IF k <= 1 THEN a ELSE s[k - 1]
      <4>1. x[k] = IF k <= Len(u) THEN u[k] ELSE s[k - Len(u)]
        BY <2>4, <3>2, <3>3, <3>4 DEF u
      <4>2. Len(u) = 1 /\ u[1] = a
        BY <3>1 DEF u
      <4>3. k <= 1 => k = 1
        OBVIOUS
      <4> QED BY <4>1, <4>2, <4>3
    <3> QED BY <2>4, <3>2, <3>3, <3>4 DEF u
  <2> HIDE DEF x
  <2>6. x[1] = c \div w[e + 1]
    BY <2>2, <2>5
  <2>7. ASSUME NEW k \in 2 .. dims PROVE x[k] = d[e + k]
    <3>1. k \in 1 .. dims /\ ~(k <= 1) /\ k - 1 \in 1 .. dims - 1 /\ m + (k - 1) = e + k
      BY <1>1
    <3> QED BY <2>3, <2>5, <3>1
  <2> QED BY <1>1, <1>3, <2>5, <2>6, <2>7 DEF IsCore, x, d
<1>4. CASE ~(e > 0)
  <2> DEFINE z == [i \in 1 .. -e |-> 0]
  <2>1. dims >= n /\ -e \in Nat /\ n + (-e) = dims
    BY <1>1, <1>4
  <2>2. z \in Seq(Nat) /\ Len(z) = -e /\ \A k \in 1 .. -e : z[k] = 0
    <3> DEFINE l == -e
    <3>1. l \in Nat
      BY <2>1
    <3> HIDE DEF l
    <3>2. [i \in 1 .. l |-> 0] \in [1 .. l -> Nat]
      OBVIOUS
    <3>3. [i \in 1 .. l |-> 0] \in Seq(Nat) /\ Len([i \in 1 .. l |-> 0]) = l
      BY <3>1, <3>2, SeqDef, LenProperties
    <3> QED BY <3>3 DEF l
  <2>3. x = d \o z
    BY <1>4 DEF Core, d
  <2> HIDE DEF z
  <2>4. x \in Seq(Nat) /\ Len(x) = dims
        /\ \A k \in 1 .. dims : x[k] = IF k <= n THEN d[k] ELSE z[k - n]
    <3>1. /\ d \o z \in Seq(Nat) /\ Len(d \o z) = Len(d) + Len(z)
          /\ \A k \in 1 .. Len(d) + Len(z) :
               (d \o z)[k] = IF k <= Len(d) THEN d[k] ELSE z[k - Len(d)]
      BY <1>2, <2>2, ConcatProperties
    <3> HIDE DEF x
    <3> QED BY <1>2, <2>1, <2>2, <2>3, <3>1
  <2> HIDE DEF x
  <2>5. ASSUME NEW k \in 1 .. n PROVE x[k] = d[k]
    <3>1. k \in 1 .. dims /\ k <= n
      BY <1>1, <2>1
    <3> QED BY <2>4, <3>1
  <2>6. ASSUME NEW k \in n + 1 .. dims PROVE x[k] = 0
    <3>1. k \in 1 .. dims /\ ~(k <= n) /\ k - n \in 1 .. -e
      BY <1>1, <2>1
    <3> QED BY <2>2, <2>4, <3>1
  <2> QED BY <1>1, <2>1, <2>4, <2>5, <2>6 DEF IsCore, x, d
<1> QED BY <1>3, <1>4

\* The coordinates of different cores differ.
LEMMA CoresDiffer ==
  ASSUME NEW g, IsGrid(g), NEW dims \in Nat \ {0}, NEW b \in Cores(g), NEW c \in Cores(g),
         Core(dims, b, g) = Core(dims, c, g)
  PROVE  b = c
<1> DEFINE n == Len(g)
           x == Core(dims, b, g)
<1>1. PICK w : Weights(w, g)
  BY WeightsExist
<1> DEFINE d == Digits(b, g)
           u == Digits(c, g)
<1>2. IsDigits(d, b, w, g) /\ IsDigits(u, c, w, g)
  BY <1>1, DigitsAre
<1>3. IsCore(x, dims, b, d, w, g) /\ IsCore(x, dims, c, u, w, g)
  BY <1>1, CoreIs
<1>4. n \in Nat \ {0}
  BY GridIs
<1> HIDE DEF x, d, u
<1>5. CASE dims < n
  <2> DEFINE m == (n - dims) + 1
  <2>1. m \in 1 .. n
    BY <1>4, <1>5
  <2>2. b \div w[m] = c \div w[m]
    BY <1>3, <1>5 DEF IsCore
  <2>3. ASSUME NEW k \in m + 1 .. n PROVE d[k] = u[k]
    <3> DEFINE i == k - (n - dims)
    <3>1. i \in 2 .. dims /\ (n - dims) + i = k
      BY <1>4, <1>5
    <3> HIDE DEF i
    <3>2. x[i] = d[(n - dims) + i] /\ x[i] = u[(n - dims) + i]
      BY <1>3, <1>5, <3>1 DEF IsCore
    <3> QED BY <3>1, <3>2
  <2> HIDE DEF m
  <2> QED BY <1>1, <1>2, <2>1, <2>2, <2>3, DigitsDetermine
<1>6. CASE dims >= n
  <2>1. \A k \in 1 .. n : d[k] = u[k]
    BY <1>3, <1>6 DEF IsCore
  <2>2. 1 \in 1 .. n /\ b \div w[1] = c \div w[1]
    <3>1. b \div w[1] = d[1] /\ c \div w[1] = u[1]
      BY <1>2 DEF IsDigits
    <3> QED BY <1>4, <2>1, <3>1
  <2>3. \A k \in 1 + 1 .. n : d[k] = u[k]
    BY <1>4, <2>1
  <2> QED BY <1>1, <1>2, <2>2, <2>3, DigitsDetermine
<1> QED BY <1>4, <1>5, <1>6

\* The sizes that bound comparable coordinates.
IsSize(s, dims, w, g) ==
  /\ s \in Seq(Nat \ {0}) /\ Len(s) = dims
  /\ (dims = 1 => s[1] = w[0])
  /\ (dims >= Len(g) =>
        /\ \A k \in 1 .. Len(g) : s[k] = g[k]
        /\ \A k \in Len(g) + 1 .. dims : s[k] = 1)

\* grid_size() returns such sizes.
LEMMA SizeIs ==
  ASSUME NEW g, IsGrid(g), NEW w, Weights(w, g), NEW dims \in Nat \ {0}
  PROVE  IsSize(GridSize(dims, g), dims, w, g)
<1> DEFINE n == Len(g)
           s == GridSize(dims, g)
<1>1. n \in Nat \ {0} /\ g \in Seq(Nat \ {0}) /\ \A k \in 1 .. n : g[k] \in Nat \ {0}
  BY GridIs DEF IsGrid
<1>2. ASSUME dims <= n
      PROVE  /\ s \in Seq(Nat \ {0}) /\ Len(s) = dims /\ s[dims] = w[dims - 1]
             /\ \A k \in 1 .. dims - 1 : s[k] = g[k]
  <2> DEFINE m == dims - 1
             a == SubSeq(g, 1, m)
             p == Product(SubSeq(g, dims, n))
  <2>1. m \in Nat /\ m \in 0 .. n /\ m + 1 = dims
    BY <1>1, <1>2
  <2>2. p = w[m] /\ p \in Nat \ {0}
    <3>1. p = Product(SubSeq(g, m + 1, n))
      BY <2>1
    <3> HIDE DEF p, m
    <3> QED BY <2>1, <3>1 DEF Weights
  <2>3. a \in Seq(Nat \ {0}) /\ Len(a) = m /\ \A k \in 1 .. m : a[k] = g[k]
    <3>1. \A k \in 1 .. m : g[k] \in Nat \ {0}
      BY <1>1, <2>1
    <3> HIDE DEF m
    <3>2. /\ a \in Seq(Nat \ {0}) /\ Len(a) = IF 1 <= m THEN m - 1 + 1 ELSE 0
          /\ \A k \in 1 .. m - 1 + 1 : a[k] = g[1 + k - 1]
      BY <2>1, <3>1, SubSeqProperties
    <3> HIDE DEF a
    <3>3. m - 1 + 1 = m /\ (1 <= m \/ m = 0) /\ \A k \in 1 .. m : 1 + k - 1 = k
      BY <2>1
    <3>4. Len(a) = m
      BY <3>2, <3>3
    <3> QED BY <3>2, <3>3, <3>4
  <2>4. s = Append(a, p)
    BY <1>2 DEF GridSize
  <2> HIDE DEF a, p, s
  <2>5. /\ Append(a, p) \in Seq(Nat \ {0}) /\ Len(Append(a, p)) = Len(a) + 1
        /\ \A k \in 1 .. Len(a) : Append(a, p)[k] = a[k]
        /\ Append(a, p)[Len(a) + 1] = p
    BY <2>2, <2>3, AppendProperties
  <2> HIDE DEF m
  <2> QED BY <2>1, <2>2, <2>3, <2>4, <2>5 DEF m
<1>3. CASE dims = 1
  <2>1. /\ s \in Seq(Nat \ {0}) /\ Len(s) = dims /\ s[1] = w[0]
    <3>1. dims <= n /\ dims - 1 = 0
      BY <1>1, <1>3
    <3> HIDE DEF s
    <3> QED BY <1>2, <1>3, <3>1
  <2>2. dims >= n => n = 1 /\ s[1] = g[1]
    <3> HIDE DEF s
    <3> SUFFICES ASSUME dims >= n PROVE n = 1 /\ s[1] = g[1]
      OBVIOUS
    <3>1. n = 1 /\ 1 \in 1 .. n /\ 1 - 1 = 0
      <4> HIDE DEF n
      <4> QED BY <1>1, <1>3
    <3>2. w[1 - 1] = g[1] * w[1] /\ w[1] = 1
      BY <3>1 DEF Weights
    <3>3. g[1] \in Nat \ {0}
      BY <1>1, <3>1
    <3> QED BY <2>1, <3>1, <3>2, <3>3
  <2>3. ASSUME dims >= n
        PROVE  (\A k \in 1 .. n : s[k] = g[k]) /\ \A k \in n + 1 .. dims : s[k] = 1
    <3>1. n = 1 /\ s[1] = g[1] /\ \A k \in 1 .. n : k = 1
      <4> HIDE DEF n, s
      <4> QED BY <2>2, <2>3
    <3> HIDE DEF s, n
    <3>2. \A k \in n + 1 .. dims : FALSE
      BY <1>3, <3>1
    <3> QED BY <3>1, <3>2
  <2> HIDE DEF s
  <2> QED BY <1>3, <2>1, <2>3 DEF IsSize, s
<1>4. CASE dims # 1 /\ dims < n
  <2>1. dims <= n /\ ~(dims >= n)
    BY <1>1, <1>4
  <2> HIDE DEF s
  <2> QED BY <1>2, <1>4, <2>1 DEF IsSize, s
<1>5. CASE dims # 1 /\ dims >= n
  <2>1. dims >= n
    BY <1>5
  <2>2. CASE dims = n
    <3>1. s \in Seq(Nat \ {0}) /\ Len(s) = dims /\ s[n] = w[n - 1] /\ \A k \in 1 .. n - 1 : s[k] = g[k]
      BY <1>2, <2>2
    <3> HIDE DEF s
    <3>2. s[n] = g[n]
      <4>1. n \in 1 .. n
        BY <1>1
      <4>2. w[n - 1] = g[n] * w[n] /\ w[n] = 1
        BY <4>1 DEF Weights
      <4>3. g[n] \in Nat
        BY <1>1, <4>1
      <4> QED BY <3>1, <4>2, <4>3
    <3>3. \A k \in 1 .. n : s[k] = g[k]
      <4>1. \A k \in 1 .. n : k = n \/ k \in 1 .. n - 1
        BY <1>1
      <4> QED BY <3>1, <3>2, <4>1
    <3>4. \A k \in n + 1 .. dims : FALSE
      BY <1>1, <2>2
    <3> QED BY <1>5, <3>1, <3>3, <3>4 DEF IsSize, s
  <2>3. CASE dims # n
    <3> DEFINE l == dims - n
               z == [i \in 1 .. l |-> 1]
    <3>1. l \in Nat /\ n + l = dims /\ ~(dims <= n)
      BY <1>1, <2>1, <2>3
    <3>2. z \in Seq(Nat \ {0}) /\ Len(z) = l /\ \A k \in 1 .. l : z[k] = 1
      <4> HIDE DEF l
      <4>1. z \in [1 .. l -> Nat \ {0}]
        OBVIOUS
      <4> QED BY <3>1, <4>1, SeqDef, LenProperties
    <3>3. s = g \o z
      BY <3>1 DEF GridSize
    <3> HIDE DEF z, s
    <3>4. /\ g \o z \in Seq(Nat \ {0}) /\ Len(g \o z) = n + Len(z)
          /\ \A k \in 1 .. n + Len(z) : (g \o z)[k] = IF k <= n THEN g[k] ELSE z[k - n]
      BY <1>1, <3>2, ConcatProperties
    <3>5. s \in Seq(Nat \ {0}) /\ Len(s) = dims
          /\ \A k \in 1 .. dims : s[k] = IF k <= n THEN g[k] ELSE z[k - n]
      <4> HIDE DEF n, l
      <4> QED BY <3>1, <3>2, <3>3, <3>4
    <3>6. ASSUME NEW k \in 1 .. n PROVE s[k] = g[k]
      <4>1. k \in 1 .. dims /\ k <= n
        BY <1>1, <2>1
      <4> QED BY <3>5, <4>1
    <3>7. ASSUME NEW k \in n + 1 .. dims PROVE s[k] = 1
      <4>1. k \in 1 .. dims /\ ~(k <= n) /\ k - n \in 1 .. l
        BY <1>1, <2>1
      <4> HIDE DEF l
      <4> QED BY <3>2, <3>5, <4>1
    <3> QED BY <1>5, <3>5, <3>6, <3>7 DEF IsSize, s
  <2> QED BY <2>2, <2>3
<1> QED BY <1>3, <1>4, <1>5

\* Coordinates that can be compared are below the sizes.
LEMMA CoreBelowSize ==
  ASSUME NEW g, IsGrid(g), NEW dims \in Nat \ {0}, NEW c \in Cores(g), Comparable(dims, g),
         NEW i \in 1 .. dims
  PROVE  Core(dims, c, g)[i] \in Nat /\ Core(dims, c, g)[i] < GridSize(dims, g)[i]
<1> DEFINE n == Len(g)
           x == Core(dims, c, g)
           s == GridSize(dims, g)
           d == Digits(c, g)
<1>1. PICK w : Weights(w, g)
  BY WeightsExist
<1>2. IsDigits(d, c, w, g) /\ IsCore(x, dims, c, d, w, g) /\ IsSize(s, dims, w, g)
  BY <1>1, DigitsAre, CoreIs, SizeIs
<1>3. n \in Nat \ {0} /\ c \in 0 .. w[0] - 1 /\ w[n] = 1 /\ w[0] \in Nat
  <2>1. w[n] = 1
    BY <1>1 DEF Weights
  <2> QED BY <1>1, <2>1, GridIs, CoresAre
<1> HIDE DEF x, s, d
<1>4. x[i] \in Nat
  BY <1>2, LenProperties DEF IsCore
<1>5. CASE dims >= n
  <2>1. CASE i <= n
    <3>1. i \in 1 .. n
      BY <1>3, <2>1
    <3> QED BY <1>2, <1>4, <1>5, <3>1 DEF IsCore, IsSize, IsDigits, x, s
  <2>2. CASE ~(i <= n)
    <3>1. i \in n + 1 .. dims
      BY <1>3, <2>2
    <3>2. x[i] = 0 /\ s[i] = 1
      BY <1>2, <1>5, <3>1 DEF IsCore, IsSize
    <3> QED BY <3>2 DEF x, s
  <2> QED BY <2>1, <2>2
<1>6. CASE ~(dims >= n)
  <2>1. dims = 1 /\ i = 1 /\ dims < n
    BY <1>3, <1>6 DEF Comparable
  <2>2. (n - dims) + 1 = n
    BY <1>3, <2>1
  <2>3. x[1] = c \div w[n] /\ s[1] = w[0]
    BY <1>2, <2>1, <2>2 DEF IsCore, IsSize
  <2>4. x[1] = c
    BY <1>3, <2>3
  <2> QED BY <1>3, <2>1, <2>3, <2>4 DEF x, s
<1> QED BY <1>5, <1>6

\* The index of a core's coordinates, when there are as many as the grid has
\* dimensions or one, is the core.
LEMMA FlattenOfCore ==
  ASSUME NEW g, IsGrid(g), NEW dims \in Nat \ {0}, NEW c \in Cores(g),
         dims = 1 \/ dims = Len(g)
  PROVE  FlattenCoreIndex(Core(dims, c, g), g) = c
<1> DEFINE n == Len(g)
           x == Core(dims, c, g)
           d == Digits(c, g)
<1>1. PICK w : Weights(w, g)
  BY WeightsExist
<1>2. IsDigits(d, c, w, g) /\ IsCore(x, dims, c, d, w, g)
  BY <1>1, DigitsAre, CoreIs
<1>3. n \in Nat \ {0} /\ c \in Nat /\ w[n] = 1 /\ c \div w[n] = c /\ g \in Seq(Nat)
  <2>1. w[n] = 1
    BY <1>1 DEF Weights
  <2>2. c \in Nat
    BY <1>1, CoresAre
  <2> QED BY <2>1, <2>2, GridIs
<1> HIDE DEF x, d
<1>4. CASE dims = n
  <2>1. SubSeq(d, 1, n) = d /\ n \in 1 .. n
    BY <1>2, <1>3, SubSeqFull DEF IsDigits
  <2>2. FlattenCoreIndex(SubSeq(d, 1, n), g) = c
    BY <1>1, <1>2, <1>3, <2>1, PartialIsDiv
  <2>3. x = d
    <3>1. x \in Seq(Nat) /\ d \in Seq(Nat) /\ Len(x) = n /\ Len(d) = n /\ \A k \in 1 .. n : x[k] = d[k]
      BY <1>2, <1>3, <1>4 DEF IsCore, IsDigits
    <3> QED BY <3>1, SeqEqual
  <2> QED BY <2>1, <2>2, <2>3 DEF x
<1>5. CASE dims # n
  <2>1. dims = 1 /\ dims < n /\ (n - dims) + 1 = n
    BY <1>3, <1>5
  <2>2. x \in Seq(Nat) /\ Len(x) = 1 /\ x[1] = c
    BY <1>2, <1>3, <2>1 DEF IsCore
  <2>3. PICK f : Partial(f, x, g) /\ FlattenCoreIndex(x, g) = f[Len(x)]
    <3>1. Len(x) # 0 /\ Len(x) <= n
      <4> HIDE DEF n
      <4> QED BY <1>3, <2>1, <2>2
    <3>2. x \in Seq(Nat)
      <4> QED BY <2>2, SeqDef
    <3> QED BY <1>3, <3>1, <3>2, FlattenCoreIndexIs
  <2> QED BY <2>2, <2>3 DEF Partial, x
<1> QED BY <1>4, <1>5

\* On every grid, the coordinates of different cores differ, are below
\* grid_size() where the two can be compared, and lead back to the core.
THEOREM EveryCoordinatesFit ==
  ASSUME NEW g, IsGrid(g), NEW dims \in Nat \ {0}
  PROVE  CoordinatesFit(dims, g)
<1>1. Len(g) \in Nat \ {0}
  BY GridIs
<1> SUFFICES ASSUME NEW c \in Cores(g)
             PROVE  /\ \A b \in Cores(g) : b # c => Core(dims, b, g) # Core(dims, c, g)
                    /\ Comparable(dims, g) =>
                         \A i \in 1 .. dims : Core(dims, c, g)[i] < GridSize(dims, g)[i]
                    /\ dims <= 1 \/ dims = Len(g) =>
                         FlattenCoreIndex(Core(dims, c, g), g) = c
  BY Zenon DEF CoordinatesFit
<1>2. \A b \in Cores(g) : b # c => Core(dims, b, g) # Core(dims, c, g)
  BY CoresDiffer
<1>3. Comparable(dims, g) =>
        \A i \in 1 .. dims : Core(dims, c, g)[i] < GridSize(dims, g)[i]
  BY CoreBelowSize
<1>4. dims <= 1 \/ dims = Len(g) => FlattenCoreIndex(Core(dims, c, g), g) = c
  <2>1. dims <= 1 => dims = 1
    OBVIOUS
  <2> QED BY <2>1, FlattenOfCore
<1> QED BY <1>2, <1>3, <1>4

\* Partial indices are what is left of the index, divided by the weights.
LEMMA IndexByWeights ==
  ASSUME NEW g, IsGrid(g), NEW w, Weights(w, g), NEW y \in Seq(Nat), Len(y) = Len(g),
         \A k \in 1 .. Len(g) : y[k] < g[k], NEW f, Partial(f, y, g)
  PROVE  \A k \in 1 .. Len(g) : f[Len(g)] \div w[k] = f[k]
<1> DEFINE n == Len(g)
           c == f[n]
           S == {j \in Nat : j < n => c \div w[n - j] = f[n - j]}
<1>1. n \in Nat \ {0} /\ \A k \in 1 .. n : g[k] \in Nat \ {0}
  BY GridIs
<1>2. c \in Nat /\ w[n] = 1 /\ \A k \in 1 .. n : f[k] \in Nat
  <2>1. \A k \in 1 .. n : f[k] \in Nat
    BY DEF Partial
  <2>2. n \in 1 .. n
    BY <1>1
  <2>3. w[n] = 1
    BY DEF Weights
  <2> HIDE DEF n
  <2> QED BY <2>1, <2>2, <2>3
<1>3. \A k \in 1 .. n : y[k] \in Nat
  BY LenProperties
<1> HIDE DEF n, c
<1>4. 0 \in S
  <2>1. n - 0 = n /\ c \div 1 = c
    BY <1>1, <1>2
  <2> QED BY <1>2, <2>1 DEF c
<1>5. ASSUME NEW j \in Nat, j \in S PROVE j + 1 \in S
  <2>1. SUFFICES ASSUME j + 1 < n PROVE c \div w[n - (j + 1)] = f[n - (j + 1)]
    OBVIOUS
  <2> DEFINE k == n - j
  <2>2. k \in 2 .. n /\ k \in 1 .. n /\ k - 1 \in 1 .. n /\ k - 1 = n - (j + 1) /\ k \in 0 .. n
    BY <1>1, <2>1
  <2>3. c \div w[k] = f[k]
    <3>1. j < n
      BY <1>1, <2>1
    <3> QED BY <1>5, <3>1
  <2> HIDE DEF k
  <2>4. w[k - 1] = g[k] * w[k] /\ w[k] \in Nat \ {0} /\ g[k] \in Nat \ {0}
    BY <1>1, <2>2 DEF Weights, n
  <2>5. f[k] = (f[k - 1] * g[k]) + y[k]
    BY <2>2 DEF Partial, n
  <2>6. c \div (g[k] * w[k]) = (c \div w[k]) \div g[k]
    <3>1. DividesTwice(c, g[k], w[k])
      BY <1>2, <2>4, DivByProduct
    <3> QED BY <3>1, Zenon DEF DividesTwice
  <2>7. y[k] \in Nat /\ y[k] < g[k] /\ f[k - 1] \in Nat
    BY <1>2, <1>3, <2>2 DEF n
  <2>8. \A a, b, r \in Nat : r < b => ((a * b) + r) \div b = a
    OBVIOUS
  <2>9. f[k] \div g[k] = f[k - 1]
    BY <2>4, <2>5, <2>7, <2>8
  <2>10. c \div w[k - 1] = f[k - 1]
    BY <2>3, <2>4, <2>6, <2>9, Zenon
  <2> QED BY <2>2, <2>10
<1>6. Nat \subseteq S
  <2> HIDE DEF S
  <2> QED BY <1>4, <1>5, NumberInduction
<1>7. ASSUME NEW k \in 1 .. n PROVE c \div w[k] = f[k]
  <2> DEFINE j == n - k
  <2>1. j \in Nat /\ j < n /\ n - j = k
    BY <1>1
  <2> HIDE DEF j
  <2> QED BY <1>6, <2>1
<1> QED BY <1>7 DEF n, c

\* Whatever is below the sizes are the coordinates of a core.
LEMMA CoreReached ==
  ASSUME NEW g, IsGrid(g), NEW dims \in Nat \ {0}, Comparable(dims, g),
         NEW x \in Seq(Nat), Len(x) = dims,
         \A i \in 1 .. dims : x[i] < GridSize(dims, g)[i]
  PROVE  \E c \in Cores(g) : Core(dims, c, g) = x
<1> DEFINE n == Len(g)
           s == GridSize(dims, g)
<1>1. PICK w : Weights(w, g)
  BY WeightsExist
<1>2. IsSize(s, dims, w, g)
  BY <1>1, SizeIs
<1>3. /\ n \in Nat \ {0} /\ Cores(g) = 0 .. w[0] - 1 /\ w[0] \in Nat /\ w[n] = 1 /\ g \in Seq(Nat)
      /\ \A k \in 1 .. n : g[k] \in Nat \ {0}
  <2>1. w[n] = 1
    BY <1>1 DEF Weights
  <2> QED BY <1>1, <2>1, GridIs, CoresAre
<1>4. \A i \in 1 .. dims : x[i] \in Nat /\ x[i] < s[i]
  BY LenProperties
<1> HIDE DEF s
<1>5. CASE dims >= n
  <2> DEFINE y == SubSeq(x, 1, n)
  <2>1. y \in Seq(Nat) /\ Len(y) = n /\ \A k \in 1 .. n : y[k] = x[k]
    <3>1. n \in Nat /\ \A k \in 1 .. n : x[k] \in Nat
      BY <1>3, <1>4, <1>5
    <3> HIDE DEF n
    <3>2. /\ y \in Seq(Nat) /\ Len(y) = IF 1 <= n THEN n - 1 + 1 ELSE 0
          /\ \A k \in 1 .. n - 1 + 1 : y[k] = x[1 + k - 1]
      BY <3>1, SubSeqProperties
    <3> HIDE DEF y
    <3>3. n - 1 + 1 = n /\ 1 <= n /\ \A k \in 1 .. n : 1 + k - 1 = k
      BY <1>3
    <3>4. Len(y) = n
      BY <3>2, <3>3
    <3> QED BY <3>2, <3>3, <3>4
  <2> HIDE DEF y
  <2>2. \A k \in 1 .. n : y[k] < g[k] /\ y[k] \in Nat
    <3> TAKE k \in 1 .. n
    <3>1. k \in 1 .. dims /\ s[k] = g[k] /\ y[k] = x[k]
      <4>1. k \in 1 .. dims
        BY <1>3, <1>5
      <4> QED BY <1>2, <1>5, <2>1, <4>1 DEF IsSize
    <3> QED BY <1>4, <3>1
  <2>3. PICK f : Partial(f, y, g)
    <3>1. Len(y) # 0 /\ Len(y) <= n
      <4> HIDE DEF n
      <4> QED BY <1>3, <2>1
    <3> QED BY <1>3, <2>1, <3>1, FlattenCoreIndexIs
  <2> DEFINE c == f[n]
  <2>4. \A k \in 1 .. n : c \div w[k] = f[k]
    BY <1>1, <2>1, <2>2, <2>3, IndexByWeights, SMTT(30)
  <2>5. c \in Nat /\ \A k \in 1 .. n : f[k] \in Nat
    <3>1. \A k \in 1 .. n : f[k] \in Nat
      BY <2>1, <2>3 DEF Partial
    <3>2. n \in 1 .. n
      BY <1>3
    <3> HIDE DEF n
    <3> QED BY <3>1, <3>2
  <2> HIDE DEF c
  <2>6. f[1] = y[1] /\ 1 \in 1 .. n
    BY <1>3, <2>3 DEF Partial
  <2>7. c \in Cores(g)
    <3>1. w[1 - 1] = g[1] * w[1] /\ w[1] \in Nat \ {0}
      BY <1>1, <1>3, <2>6 DEF Weights
    <3>2. c \div w[1] < g[1] /\ c \div w[1] \in Nat
      BY <2>2, <2>4, <2>6
    <3>3. g[1] \in Nat \ {0}
      BY <1>3, <2>6
    <3>4. \A a, b \in Nat \ {0} : c \div b < a => c < a * b
      <4> TAKE a, b \in Nat \ {0}
      <4> DEFINE q == c \div b
      <4>1. q \in Nat /\ c < b * (q + 1)
        BY <2>5
      <4> HIDE DEF q
      <4>2. q < a => b * (q + 1) <= b * a
        BY <4>1
      <4> QED BY <2>5, <4>1, <4>2 DEF q
    <3>5. c < w[0]
      <4>1. c < g[1] * w[1]
        BY <3>1, <3>2, <3>3, <3>4
      <4> QED BY <3>1, <4>1
    <3> QED BY <1>3, <2>5, <3>5
  <2> DEFINE d == Digits(c, g)
             z == Core(dims, c, g)
  <2>8. IsDigits(d, c, w, g) /\ IsCore(z, dims, c, d, w, g)
    BY <1>1, <2>7, DigitsAre, CoreIs
  <2> HIDE DEF d, z
  <2>9. ASSUME NEW k \in 1 .. n PROVE d[k] = y[k]
    <3>1. CASE k = 1
      BY <2>4, <2>6, <2>8, <3>1 DEF IsDigits
    <3>2. CASE k # 1
      <4>1. k \in 2 .. n /\ k - 1 \in 1 .. n
        BY <1>3, <3>2
      <4>2. c \div w[k] = ((c \div w[k - 1]) * g[k]) + d[k]
        BY <2>8, <4>1 DEF IsDigits
      <4>3. f[k] = (f[k - 1] * g[k]) + y[k]
        BY <2>1, <2>3, <4>1 DEF Partial
      <4>4. c \div w[k] = f[k] /\ c \div w[k - 1] = f[k - 1]
        BY <2>4, <4>1
      <4>5. d[k] \in Nat /\ y[k] \in Nat /\ f[k - 1] \in Nat /\ g[k] \in Nat
        <5>1. d[k] \in Nat
          BY <2>8, LenProperties DEF IsDigits
        <5> QED BY <1>3, <2>2, <2>5, <4>1, <5>1
      <4>6. \A a, b, r, t \in Nat : (a * b) + r = (a * b) + t => r = t
        OBVIOUS
      <4>7. (f[k - 1] * g[k]) + d[k] = (f[k - 1] * g[k]) + y[k]
        BY <4>2, <4>3, <4>4, Zenon
      <4> QED BY <4>5, <4>6, <4>7
    <3> QED BY <3>1, <3>2
  <2>10. z = x
    <3>1. ASSUME NEW k \in 1 .. dims PROVE z[k] = x[k]
      <4>1. CASE k <= n
        <5>1. k \in 1 .. n
          BY <1>3, <4>1
        <5>2. z[k] = d[k] /\ d[k] = y[k] /\ y[k] = x[k]
          BY <1>5, <2>1, <2>8, <2>9, <5>1 DEF IsCore
        <5> QED BY <5>2
      <4>2. CASE ~(k <= n)
        <5>1. k \in n + 1 .. dims
          BY <1>3, <4>2
        <5>2. z[k] = 0 /\ s[k] = 1
          BY <1>2, <1>5, <2>8, <5>1 DEF IsCore, IsSize
        <5>3. x[k] \in Nat /\ x[k] < s[k]
          BY <1>4
        <5> QED BY <5>2, <5>3
      <4> QED BY <4>1, <4>2
    <3>2. z \in Seq(Nat) /\ Len(z) = dims
      BY <2>8 DEF IsCore
    <3> QED BY <3>1, <3>2, SeqEqual
  <2> QED BY <2>7, <2>10 DEF z
<1>6. CASE ~(dims >= n)
  <2>1. dims = 1 /\ dims < n /\ (n - dims) + 1 = n
    BY <1>3, <1>6 DEF Comparable
  <2> DEFINE c == x[1]
  <2>2. c \in Cores(g) /\ c \in Nat
    <3>1. s[1] = w[0] /\ x[1] \in Nat /\ x[1] < s[1]
      BY <1>2, <1>4, <2>1 DEF IsSize
    <3> QED BY <1>3, <3>1
  <2> HIDE DEF c
  <2> DEFINE z == Core(dims, c, g)
  <2>3. IsCore(z, dims, c, Digits(c, g), w, g)
    BY <1>1, <2>2, CoreIs
  <2> HIDE DEF z
  <2>4. z \in Seq(Nat) /\ Len(z) = 1 /\ z[1] = c \div w[n]
    BY <2>1, <2>3 DEF IsCore
  <2>5. z[1] = x[1]
    BY <1>3, <2>2, <2>4 DEF c
  <2>6. z = x
    BY <2>1, <2>4, <2>5, SeqEqual
  <2> QED BY <2>2, <2>6 DEF z
<1> QED BY <1>5, <1>6

\* A core range: the slices begin at some core, or at none.
IsRange(r) ==
  /\ Len(r) \in Nat \ {0} /\ DOMAIN r = 1 .. Len(r)
  /\ \A i \in DOMAIN r : /\ r[i].start \in Nat \union {None} /\ r[i].stop \in Int \union {None}
                         /\ r[i].step \in Nat \ {0}

\* Sequences of one length over a finite set are finitely many.
LEMMA FiniteTuples ==
  ASSUME NEW n \in Nat, NEW U, IsFiniteSet(U), NEW E \in SUBSET [1 .. n -> U]
  PROVE  IsFiniteSet(E)
<1> DEFINE P == (1 .. n) \X U
           graph == [x \in E |-> {<<i, x[i]>> : i \in 1 .. n}]
<1>1. IsFiniteSet(SUBSET P)
  <2>1. IsFiniteSet(1 .. n)
    BY FS_Interval
  <2>2. IsFiniteSet(P)
    BY <2>1, FS_Product
  <2> HIDE DEF P
  <2> QED BY <2>2, FS_SUBSET
<1>2. graph \in [E -> SUBSET P]
  <2>1. \A x \in E : \A i \in 1 .. n : x[i] \in U
    OBVIOUS
  <2> QED BY <2>1
<1>3. ASSUME NEW x \in E, NEW y \in E, graph[x] = graph[y] PROVE x = y
  <2>1. x \in [1 .. n -> U] /\ y \in [1 .. n -> U]
    OBVIOUS
  <2>2. ASSUME NEW i \in 1 .. n PROVE x[i] = y[i]
    <3>1. <<i, x[i]>> \in graph[y]
      BY <1>3
    <3>2. PICK j \in 1 .. n : <<i, x[i]>> = <<j, y[j]>>
      BY <3>1
    <3> QED BY <3>2
  <2> QED BY <2>1, <2>2
<1> HIDE DEF graph, P
<1>4. graph \in Injection(E, SUBSET P)
  BY <1>2, <1>3 DEF Injection, IsInjective
<1> QED BY <1>1, <1>4, FS_Injection

\* On every grid, the sender of a multicast counts every receiver that is let in
\* (expand_core_range, core_in_dst_range), and no others where the range is inside
\* the grid and the two fold the same dimensions.
THEOREM EveryReceiverIsCounted ==
  ASSUME NEW g, IsGrid(g), NEW r, IsRange(r)
  PROVE  CountedAreLetIn(r, g)
<1> DEFINE dims == Len(r)
           size == GridSize(dims, g)
           E == ExpandCoreRange(r, g)
           R == Receivers(r, g)
           h == [c \in R |-> Core(dims, c, g)]
<1>1. dims \in Nat \ {0} /\ DOMAIN r = 1 .. dims
      /\ \A i \in 1 .. dims : r[i].step \in Nat \ {0} /\ Start(r[i]) \in Nat
  BY DEF IsRange, Start
<1>2. PICK w : Weights(w, g)
  BY WeightsExist
<1>3. IsSize(size, dims, w, g) /\ Cores(g) = 0 .. w[0] - 1 /\ w[0] \in Nat
  BY <1>1, <1>2, SizeIs, CoresAre
<1>4. \A i \in 1 .. dims : size[i] \in Nat /\ Stop(r[i], size[i]) \in Int
  <2>1. \A i \in 1 .. dims : size[i] \in Nat
    BY <1>3, LenProperties DEF IsSize
  <2> QED BY <1>1, <2>1 DEF Stop, IsRange
<1>5. Bounded(r, g) => \A i \in 1 .. dims : Stop(r[i], size[i]) <= size[i]
  BY <1>1 DEF Bounded
<1> HIDE DEF dims, size
<1>6. /\ \A x : x \in E <=>
             /\ x \in [1 .. dims -> Nat]
             /\ \A i \in 1 .. dims : InSlice(x[i], r[i], size[i])
      /\ IsFiniteSet(E)
  <2> DEFINE At2(i) == {v \in Start(r[i]) .. Stop(r[i], size[i]) - 1 :
                        (v - Start(r[i])) % (r[i].step) = 0}
             U == UNION {At2(i) : i \in 1 .. dims}
  <2>1. E = {x \in [1 .. dims -> U] : \A i \in 1 .. dims : x[i] \in At2(i)}
    BY <1>1 DEF ExpandCoreRange, dims, size
  <2>2. ASSUME NEW i \in 1 .. dims, NEW v
        PROVE  v \in At2(i) <=> v \in Nat /\ InSlice(v, r[i], size[i])
    BY <1>1, <1>4 DEF InSlice
  <2>3. IsFiniteSet(U)
    <3>1. ASSUME NEW i \in 1 .. dims PROVE IsFiniteSet(At2(i))
      <4>1. IsFiniteSet(Start(r[i]) .. Stop(r[i], size[i]) - 1)
        BY <1>1, <1>4, FS_Interval
      <4>2. At2(i) \subseteq Start(r[i]) .. Stop(r[i], size[i]) - 1
        OBVIOUS
      <4> HIDE DEF At2
      <4> QED BY <4>1, <4>2, FS_Subset
    <3> DEFINE F == {At2(i) : i \in 1 .. dims}
               at == [i \in 1 .. dims |-> At2(i)]
    <3> HIDE DEF At2
    <3>2. IsFiniteSet(F)
      <4>1. IsFiniteSet(1 .. dims)
        BY <1>1, FS_Interval
      <4>2. at \in Surjection(1 .. dims, F)
        BY DEF Surjection
      <4> HIDE DEF at, F
      <4> QED BY <4>1, <4>2, FS_Surjection
    <3>3. \A T \in F : IsFiniteSet(T)
      BY <3>1
    <3> HIDE DEF F
    <3>4. IsFiniteSet(UNION F)
      BY <3>2, <3>3, FS_UNION
    <3> QED BY <3>4 DEF F
  <2> HIDE DEF At2, E
  <2>4. ASSUME NEW x, x \in E
        PROVE  /\ x \in [1 .. dims -> Nat]
               /\ \A i \in 1 .. dims : InSlice(x[i], r[i], size[i])
    <3>1. x \in [1 .. dims -> U] /\ \A i \in 1 .. dims : x[i] \in At2(i)
      BY <2>1, <2>4
    <3> HIDE DEF U
    <3> QED BY <2>2, <3>1
  <2>5. ASSUME NEW x, x \in [1 .. dims -> Nat],
               \A i \in 1 .. dims : InSlice(x[i], r[i], size[i])
        PROVE  x \in E
    <3>1. \A i \in 1 .. dims : x[i] \in At2(i)
      BY <2>2, <2>5
    <3>2. \A i \in 1 .. dims : x[i] \in U
      BY <3>1
    <3> HIDE DEF U
    <3>3. x \in [1 .. dims -> U]
      BY <2>5, <3>2
    <3> QED BY <2>1, <3>1, <3>3
  <2>6. IsFiniteSet(E)
    <3> HIDE DEF U
    <3>1. E \in SUBSET [1 .. dims -> U]
      BY <2>1
    <3> QED BY <1>1, <2>3, <3>1, FiniteTuples
  <2> QED BY <2>4, <2>5, <2>6
<1>7. \A c : c \in R <=>
        c \in Cores(g) /\ \A i \in 1 .. dims : InSlice(Core(dims, c, g)[i], r[i], size[i])
  BY <1>1 DEF Receivers, CoreInDstRange, dims, size
<1> HIDE DEF E, R
<1>8. ASSUME NEW c \in R PROVE h[c] \in E
  <2> DEFINE x == Core(dims, c, g)
  <2>1. c \in Cores(g) /\ \A i \in 1 .. dims : InSlice(x[i], r[i], size[i])
    BY <1>7
  <2>2. x \in Seq(Nat) /\ Len(x) = dims
    BY <1>1, <1>2, <2>1, CoreIs DEF IsCore
  <2> HIDE DEF x
  <2>3. x \in [1 .. dims -> Nat]
    BY <2>2, LenProperties
  <2> QED BY <1>6, <2>1, <2>3 DEF x
<1>9. ASSUME NEW b \in R, NEW c \in R, h[b] = h[c] PROVE b = c
  BY <1>1, <1>7, <1>9, CoresDiffer
<1>10. h \in Injection(R, E)
  <2>1. h \in [R -> E]
    BY <1>8
  <2> HIDE DEF h
  <2> QED BY <1>9, <2>1 DEF Injection, IsInjective
<1>11. ASSUME Comparable(dims, g), Bounded(r, g), NEW x \in E
       PROVE  \E c \in R : h[c] = x
  <2>1. /\ x \in [1 .. dims -> Nat]
        /\ \A i \in 1 .. dims : x[i] < size[i] /\ InSlice(x[i], r[i], size[i])
    <3>1. /\ x \in [1 .. dims -> Nat]
          /\ \A i \in 1 .. dims : InSlice(x[i], r[i], size[i])
      BY <1>6
    <3>2. ASSUME NEW i \in 1 .. dims PROVE x[i] < size[i]
      <4>1. x[i] < Stop(r[i], size[i]) /\ x[i] \in Nat
        BY <3>1 DEF InSlice
      <4> QED BY <1>4, <1>5, <1>11, <4>1
    <3> QED BY <3>1, <3>2
  <2>2. x \in Seq(Nat) /\ Len(x) = dims
    BY <1>1, <2>1, SeqDef, LenProperties
  <2>3. PICK c \in Cores(g) : Core(dims, c, g) = x
    BY <1>1, <1>11, <2>1, <2>2, CoreReached DEF size
  <2>4. c \in R
    BY <1>7, <2>1, <2>3
  <2> QED BY <2>3, <2>4
<1>12. Comparable(dims, g) /\ Bounded(r, g) => h \in Surjection(R, E)
  <2>1. h \in [R -> E]
    BY <1>8
  <2> HIDE DEF h
  <2> QED BY <1>11, <2>1 DEF Surjection
<1> HIDE DEF h
<1>13. /\ Cardinality(R) <= Cardinality(E)
       /\ Cardinality(R) = Cardinality(E) <=> h \in Surjection(R, E)
  BY <1>6, <1>10, FS_Injection
<1> QED BY <1>12, <1>13 DEF NumReceivers, CountedAreLetIn, E, R, dims

\* The grids of the calls.
LEMMA CallGrids == \A g \in Grids : IsGrid(g)
<1> SUFFICES ASSUME NEW g \in Grids PROVE IsGrid(g)
  OBVIOUS
<1>1. \A a \in Sizes : a \in Nat \ {0}
  BY BoundsAssumption DEF Sizes
<1>2. CASE g \in {<<a>> : a \in Sizes}
  <2>1. PICK a \in Nat \ {0} : g = <<a>>
    BY <1>1, <1>2
  <2>2. <<a>> \in Seq(Nat \ {0}) /\ Len(<<a>>) = 1
    OBVIOUS
  <2> QED BY <2>1, <2>2 DEF IsGrid
<1>3. CASE g \in Sizes \X Sizes
  <2>1. PICK a \in Nat \ {0}, b \in Nat \ {0} : g = <<a, b>>
    BY <1>1, <1>3
  <2>2. <<a, b>> \in Seq(Nat \ {0}) /\ Len(<<a, b>>) = 2
    OBVIOUS
  <2> QED BY <2>1, <2>2 DEF IsGrid
<1>4. CASE g \in Sizes \X Sizes \X Sizes
  <2>1. PICK a \in Nat \ {0}, b \in Nat \ {0}, c \in Nat \ {0} : g = <<a, b, c>>
    BY <1>1, <1>4
  <2>2. <<a, b, c>> \in Seq(Nat \ {0}) /\ Len(<<a, b, c>>) = 3
    OBVIOUS
  <2> QED BY <2>1, <2>2 DEF IsGrid
<1> QED BY <1>2, <1>3, <1>4 DEF Grids

\* The coordinates of the calls fit.
THEOREM CoordinatesHold == Spec => []Coordinates
<1> DEFINE I == call \in Calls \union {Idle}
<1>1. ASSUME I PROVE Coordinates
  <2>1. ASSUME call.f = "core" PROVE CoordinatesFit(call.dims, call.grid)
    <3>1. call.dims \in Nat \ {0} /\ call.grid \in Grids
      <4>1. call \in [f : {"core"}, dims : 1 .. 3, grid : Grids]
        BY <1>1, <2>1, CallIs
      <4> QED BY <4>1
    <3> QED BY <3>1, CallGrids, EveryCoordinatesFit
  <2> QED BY <2>1 DEF Coordinates
<1> HIDE DEF I
<1>2. Spec => []I
  BY Called DEF I
<1> QED BY <1>1, <1>2, PTL

\* The multicasts of the calls count their receivers.
THEOREM MulticastHolds == Spec => []Multicast
<1> DEFINE I == call \in Calls \union {Idle}
<1>1. ASSUME I PROVE Multicast
  <2>1. ASSUME call.f = "range" PROVE CountedAreLetIn(call.range, call.grid)
    <3>1. call.range \in Ranges /\ call.grid \in Grids
      <4>1. call \in [f : {"range"}, range : Ranges, grid : Grids]
        BY <1>1, <2>1, CallIs
      <4> QED BY <4>1
    <3>2. IsRange(call.range)
      <4> DEFINE r == call.range
      <4>1. \A s \in Slices : /\ s.start \in Nat \union {None} /\ s.stop \in Int \union {None}
                              /\ s.step \in Nat \ {0}
        BY DEF Slices
      <4>2. r \in {<<s>> : s \in Slices} \/ r \in Slices \X Slices
        BY <3>1 DEF Ranges
      <4> HIDE DEF r
      <4>3. CASE r \in {<<s>> : s \in Slices}
        <5>1. r = <<r[1]>> /\ r[1] \in Slices
          BY <4>3
        <5>2. Len(r) = 1 /\ DOMAIN r = 1 .. 1
          BY <5>1
        <5> QED BY <4>1, <5>1, <5>2 DEF IsRange, r
      <4>4. CASE r \in Slices \X Slices
        <5>1. r = <<r[1], r[2]>> /\ r[1] \in Slices /\ r[2] \in Slices
          BY <4>4
        <5>2. Len(r) = 2 /\ DOMAIN r = 1 .. 2
          BY <5>1
        <5>3. \A i \in 1 .. 2 : r[i] \in Slices
          BY <5>1
        <5> QED BY <4>1, <5>2, <5>3 DEF IsRange, r
      <4> QED BY <4>2, <4>3, <4>4
    <3> QED BY <3>1, <3>2, CallGrids, EveryReceiverIsCounted
  <2> QED BY <2>1 DEF Multicast
<1> HIDE DEF I
<1>2. Spec => []I
  BY Called DEF I
<1> QED BY <1>1, <1>2, PTL

-----------------------------------------------------------------------------
(* Work on a grid (WorkSplit).                                             *)

\* The place of number m on lines of `line` cores.
On(m, line) == <<m \div line, m % line>>

\* The places of the numbers from a up to b.
Run(a, b, line) == {On(m, line) : m \in a .. b - 1}

\* The rectangles r are disjoint and hold the cells C.
Tiling(r, C) ==
  /\ UNION {Cells(r[i]) : i \in DOMAIN r} = C
  /\ \A i, j \in DOMAIN r : i # j => Cells(r[i]) \intersect Cells(r[j]) = {}

\* Tilings of disjoint cells, one after the other.
LEMMA TilingJoined ==
  ASSUME NEW S, NEW r \in Seq(S), NEW s \in Seq(S), NEW C, NEW D,
         Tiling(r, C), Tiling(s, D), C \intersect D = {}
  PROVE  Tiling(r \o s, C \union D)
<1> DEFINE t == r \o s
           a == Len(r)
           b == Len(s)
<1>1. /\ a \in Nat /\ b \in Nat /\ DOMAIN r = 1 .. a /\ DOMAIN s = 1 .. b /\ DOMAIN t = 1 .. Len(t)
      /\ \A p \in 1 .. a : p \in 1 .. Len(t) /\ t[p] = r[p]
      /\ \A j \in 1 .. b : a + j \in 1 .. Len(t) /\ t[a + j] = s[j]
      /\ \A p \in 1 .. Len(t) : p \in 1 .. a \/ \E j \in 1 .. b : p = a + j
  <2>1. t \in Seq(S)
    BY ConcatParts
  <2>2. /\ \A p \in 1 .. a : p \in 1 .. Len(t) /\ t[p] = r[p]
        /\ \A j \in 1 .. b : a + j \in 1 .. Len(t) /\ t[a + j] = s[j]
        /\ \A p \in 1 .. Len(t) : p \in 1 .. a \/ \E j \in 1 .. b : p = a + j
    BY ConcatParts
  <2> HIDE DEF t
  <2> QED BY <2>1, <2>2, LenProperties
<1> HIDE DEF t, a, b
<1>2. UNION {Cells(t[p]) : p \in DOMAIN t} = C \union D
  <2>1. ASSUME NEW e, NEW p \in DOMAIN t, e \in Cells(t[p]) PROVE e \in C \union D
    <3>1. CASE p \in 1 .. a
      BY <1>1, <2>1, <3>1 DEF Tiling
    <3>2. CASE \E j \in 1 .. b : p = a + j
      <4>1. PICK j \in 1 .. b : p = a + j
        BY <3>2
      <4>2. e \in Cells(s[j]) /\ j \in DOMAIN s
        BY <1>1, <2>1, <4>1
      <4> QED BY <4>2 DEF Tiling
    <3> QED BY <1>1, <3>1, <3>2
  <2>2. ASSUME NEW e \in C PROVE \E p \in DOMAIN t : e \in Cells(t[p])
    <3>1. PICK p \in DOMAIN r : e \in Cells(r[p])
      BY DEF Tiling
    <3> QED BY <1>1, <3>1
  <2>3. ASSUME NEW e \in D PROVE \E p \in DOMAIN t : e \in Cells(t[p])
    <3>1. PICK j \in DOMAIN s : e \in Cells(s[j])
      BY DEF Tiling
    <3> QED BY <1>1, <3>1
  <2> QED BY <2>1, <2>2, <2>3
<1>3. ASSUME NEW p \in DOMAIN t, NEW q \in DOMAIN t, p # q, NEW e, e \in Cells(t[p]), e \in Cells(t[q])
      PROVE  FALSE
  <2>1. ASSUME NEW u \in 1 .. a, NEW j \in 1 .. b, e \in Cells(t[u]), e \in Cells(t[a + j]) PROVE FALSE
    <3>1. e \in Cells(r[u]) /\ u \in DOMAIN r
      BY <1>1, <2>1
    <3>2. e \in Cells(s[j]) /\ j \in DOMAIN s
      BY <1>1, <2>1
    <3>3. e \in C /\ e \in D
      BY <3>1, <3>2 DEF Tiling
    <3> QED BY <3>3
  <2>2. CASE p \in 1 .. a /\ q \in 1 .. a
    BY <1>1, <1>3, <2>2 DEF Tiling
  <2>3. CASE p \notin 1 .. a /\ q \notin 1 .. a
    <3>1. PICK i \in 1 .. b : p = a + i
      BY <1>1, <2>3
    <3>2. PICK j \in 1 .. b : q = a + j
      BY <1>1, <2>3
    <3>3. i # j /\ e \in Cells(s[i]) /\ e \in Cells(s[j]) /\ i \in DOMAIN s /\ j \in DOMAIN s
      BY <1>1, <1>3, <3>1, <3>2
    <3> QED BY <3>3 DEF Tiling
  <2>4. CASE p \in 1 .. a /\ q \notin 1 .. a
    BY <1>1, <1>3, <2>1, <2>4
  <2>5. CASE p \notin 1 .. a /\ q \in 1 .. a
    BY <1>1, <1>3, <2>1, <2>5
  <2> QED BY <2>2, <2>3, <2>4, <2>5
<1>4. \A p, q \in DOMAIN t : p # q => Cells(t[p]) \intersect Cells(t[q]) = {}
  BY <1>3
<1> QED BY <1>2, <1>4 DEF Tiling, t

\* None and one.
LEMMA TilingOfOne ==
  /\ Tiling(<< >>, {})
  /\ \A x : Tiling(<<x>>, Cells(x))
<1>1. Tiling(<< >>, {})
  BY DEF Tiling
<1>2. ASSUME NEW x PROVE Tiling(<<x>>, Cells(x))
  <2>1. DOMAIN <<x>> = {1} /\ <<x>>[1] = x
    OBVIOUS
  <2> DEFINE s == <<x>>
  <2> HIDE DEF s
  <2>2. Tiling(s, Cells(x))
    BY <2>1 DEF Tiling, s
  <2> QED BY <2>2 DEF s
<1> QED BY <1>1, <1>2

\* Numbers and places.
LEMMA OnIs ==
  ASSUME NEW line \in Nat \ {0}, NEW m \in Nat
  PROVE  /\ m \div line \in Nat /\ m % line \in 0 .. line - 1
         /\ m = (m \div line) * line + (m % line)
OBVIOUS

\* The number at a place, and back.
LEMMA OnOf ==
  ASSUME NEW line \in Nat \ {0}, NEW y \in Nat, NEW x \in 0 .. line - 1
  PROVE  (y * line) + x \in Nat /\ On((y * line) + x, line) = <<y, x>>
<1>1. (y * line) + x \in Nat
  OBVIOUS
<1>2. ((y * line) + x) \div line = y /\ ((y * line) + x) % line = x
  OBVIOUS
<1> QED BY <1>1, <1>2 DEF On

\* Different numbers have different places.
LEMMA OnInjective ==
  ASSUME NEW line \in Nat \ {0}, NEW a \in Nat, NEW b \in Nat, On(a, line) = On(b, line)
  PROVE  a = b
<1>1. a \div line = b \div line /\ a % line = b % line
  BY DEF On
<1>2. a = (a \div line) * line + (a % line) /\ b = (b \div line) * line + (b % line)
  BY OnIs
<1> QED BY <1>1, <1>2, Zenon

\* Runs that follow each other are disjoint, and together one.
LEMMA RunsJoin ==
  ASSUME NEW line \in Nat \ {0}, NEW a \in Nat, NEW b \in Nat, NEW c \in Nat, a <= b, b <= c
  PROVE  /\ Run(a, b, line) \intersect Run(b, c, line) = {}
         /\ Run(a, b, line) \union Run(b, c, line) = Run(a, c, line)
<1>1. ASSUME NEW e, e \in Run(a, b, line), e \in Run(b, c, line) PROVE FALSE
  <2>1. PICK m \in a .. b - 1, k \in b .. c - 1 : e = On(m, line) /\ e = On(k, line)
    BY <1>1 DEF Run
  <2>2. m \in Nat /\ k \in Nat /\ m # k
    BY <2>1
  <2> QED BY <2>1, <2>2, OnInjective
<1>2. ASSUME NEW m PROVE m \in a .. c - 1 <=> m \in a .. b - 1 \/ m \in b .. c - 1
  OBVIOUS
<1>3. Run(a, b, line) \union Run(b, c, line) = Run(a, c, line)
  BY <1>2, Zenon DEF Run
<1> QED BY <1>1, <1>3

\* A part of a line is a run, and so are full lines.
LEMMA PartOfLine ==
  ASSUME NEW line \in Nat \ {0}, NEW y \in Nat, NEW x \in Nat, NEW k \in Nat, x + k <= line
  PROVE  Cells(<< <<y, x>>, <<y, x + k - 1>> >>) = Run((y * line) + x, (y * line) + x + k, line)
<1> DEFINE R == Run((y * line) + x, (y * line) + x + k, line)
           C == (y .. y) \X (x .. x + k - 1)
           z == y * line
<1>1. Cells(<< <<y, x>>, <<y, x + k - 1>> >>) = C
  BY DEF Cells
<1>2. z \in Nat
  OBVIOUS
<1>3. ASSUME NEW e \in C PROVE e \in R
  <2>1. PICK u \in x .. x + k - 1 : e = <<y, u>>
    BY <1>3
  <2>2. u \in 0 .. line - 1
    BY <2>1
  <2>3. On(z + u, line) = <<y, u>>
    BY <2>2, OnOf
  <2> HIDE DEF z
  <2>4. z + u \in z + x .. z + x + k - 1
    BY <1>2, <2>1
  <2> QED BY <2>1, <2>3, <2>4 DEF Run, z
<1>4. ASSUME NEW e \in R PROVE e \in C
  <2>1. PICK m \in z + x .. z + x + k - 1 : e = On(m, line)
    BY <1>4 DEF Run
  <2> HIDE DEF z
  <2> DEFINE u == m - z
  <2>2. u \in x .. x + k - 1 /\ u \in 0 .. line - 1 /\ m = z + u
    BY <1>2, <2>1
  <2> HIDE DEF u
  <2>3. On(z + u, line) = <<y, u>>
    BY <2>2, OnOf DEF z
  <2> QED BY <2>1, <2>2, <2>3
<1> QED BY <1>1, <1>3, <1>4

\* Full lines are a run.
LEMMA FullLines ==
  ASSUME NEW line \in Nat \ {0}, NEW y \in Nat, NEW k \in Nat
  PROVE  Cells(<< <<y, 0>>, <<y + k - 1, line - 1>> >>) = Run(y * line, (y + k) * line, line)
<1> DEFINE R == Run(y * line, (y + k) * line, line)
           C == (y .. y + k - 1) \X (0 .. line - 1)
<1>1. Cells(<< <<y, 0>>, <<y + k - 1, line - 1>> >>) = C
  BY DEF Cells
<1>2. ASSUME NEW e \in C PROVE e \in R
  <2>1. PICK v \in y .. y + k - 1, u \in 0 .. line - 1 : e = <<v, u>>
    BY <1>2
  <2>2. v \in Nat /\ v + 1 <= y + k /\ y <= v
    BY <2>1
  <2>3. On((v * line) + u, line) = <<v, u>> /\ (v * line) + u \in Nat
    BY <2>1, <2>2, OnOf
  <2>4. y * line <= v * line /\ (v + 1) * line <= (y + k) * line
    BY <2>2
  <2>5. (v * line) + u \in y * line .. (y + k) * line - 1
    BY <2>1, <2>2, <2>3, <2>4
  <2> QED BY <2>1, <2>3, <2>5 DEF Run
<1>3. ASSUME NEW e \in R PROVE e \in C
  <2>1. PICK m \in y * line .. (y + k) * line - 1 : e = On(m, line)
    BY <1>3 DEF Run
  <2> DEFINE v == m \div line
             u == m % line
  <2>2. m \in Nat
    BY <2>1
  <2>3. v \in Nat /\ u \in 0 .. line - 1 /\ m = v * line + u
    BY <2>2, OnIs
  <2> HIDE DEF v, u
  <2>4. y <= v /\ v < y + k
    <3>1. v < y => (v + 1) * line <= y * line
      BY <2>3
    <3>2. v >= y + k => v * line >= (y + k) * line
      BY <2>3
    <3> QED BY <2>1, <2>3, <3>1, <3>2
  <2>5. v \in y .. y + k - 1
    BY <2>3, <2>4
  <2> QED BY <2>1, <2>3, <2>5 DEF On, v, u
<1> QED BY <1>1, <1>2, <1>3

\* What num_cores_to_grid_ranges computes for `target` cores from the place
\* <<y, x>> on: a part of a line, full lines, a part of a line.
Parts(head, from, full, rest, last, y, x, target, line) ==
  /\ head \in Nat /\ full \in Nat /\ rest \in Nat /\ head + (full * line) + rest = target
  /\ (head > 0 => head = line - x)
  /\ from[1] \in Nat /\ from[2] \in 0 .. line - 1
  /\ (from[1] * line) + from[2] = (y * line) + x + head
  /\ (full > 0 => from[2] = 0)
  /\ last[1] \in Nat /\ last[2] \in Nat /\ last[2] + rest <= line
  /\ (last[1] * line) + last[2] = (y * line) + x + head + (full * line)

\* Its steps.
Steps(head, from, full, rest, last, y, x, target, line) ==
  /\ head = IF x # 0 /\ target > line - x THEN line - x ELSE 0
  /\ from = IF head > 0 THEN <<y + 1, 0>> ELSE <<y, x>>
  /\ full = (target - head) \div line
  /\ rest = target - head - full * line
  /\ last = IF full > 0 THEN <<from[1] + full, 0>> ELSE from

\* What is computed in steps are the parts.
LEMMA PartsAre ==
  ASSUME NEW line \in Nat \ {0}, NEW y \in Nat, NEW x \in 0 .. line - 1, NEW target \in Nat,
         NEW head, NEW from, NEW full, NEW rest, NEW last,
         Steps(head, from, full, rest, last, y, x, target, line)
  PROVE  Parts(head, from, full, rest, last, y, x, target, line)
<1>1. head \in Nat /\ head <= target /\ (head > 0 => head = line - x)
  BY DEF Steps
<1> DEFINE left == target - head
<1>2. left \in Nat /\ left + head = target
  BY <1>1
<1>3. full \in Nat /\ left = full * line + (left % line) /\ left % line \in 0 .. line - 1
  <2>1. full = left \div line
    BY DEF Steps
  <2> HIDE DEF left
  <2> QED BY <1>2, <2>1, OnIs
<1>4. rest = left % line /\ rest \in 0 .. line - 1 /\ full * line + rest = left
  <2>1. rest = left - full * line
    BY DEF Steps
  <2> DEFINE f == full * line
             m == left % line
  <2>2. f \in Nat /\ left = f + m /\ m \in 0 .. line - 1 /\ rest = left - f
    BY <1>3, <2>1
  <2> HIDE DEF f, m, left
  <2>3. rest = m /\ f + rest = left
    BY <1>2, <2>2
  <2> QED BY <2>2, <2>3 DEF f, m
<1> HIDE DEF left
<1> DEFINE f == full * line
           z == y * line
<1>5. f \in Nat /\ z \in Nat /\ (full > 0 => f >= line) /\ (full = 0 => f = 0)
      /\ (y + 1) * line = z + line
  BY <1>3
<1>6. CASE head > 0
  <2>1. from[1] = y + 1 /\ from[2] = 0 /\ head = line - x
    BY <1>1, <1>6 DEF Steps
  <2>2. last[1] = y + 1 + full /\ last[2] = 0
    BY <1>3, <2>1 DEF Steps
  <2>3. (y + 1 + full) * line = z + line + f
    <3>1. \A a, b, c \in Nat : (a + 1 + b) * c = (a * c) + c + (b * c)
      OBVIOUS
    <3> QED BY <1>3, <3>1
  <2> HIDE DEF f, z
  <2>4. (from[1] * line) + from[2] = z + x + head
    BY <1>5, <2>1
  <2>5. (last[1] * line) + last[2] = z + x + head + f
    BY <1>5, <2>1, <2>2, <2>3
  <2>6. head + f + rest = target
    BY <1>1, <1>2, <1>4, <1>5 DEF f
  <2>7. from[1] \in Nat /\ from[2] \in 0 .. line - 1 /\ last[1] \in Nat /\ last[2] \in Nat
        /\ last[2] + rest <= line
    BY <1>3, <1>4, <2>1, <2>2
  <2> QED BY <1>1, <1>3, <1>4, <2>1, <2>4, <2>5, <2>6, <2>7 DEF Parts, f, z
<1>7. CASE ~(head > 0)
  <2>1. from = <<y, x>> /\ head = 0 /\ left = target /\ (x = 0 \/ target <= line - x)
    BY <1>1, <1>2, <1>7 DEF Steps
  <2>2. full > 0 => x = 0
    <3> HIDE DEF f
    <3> QED BY <1>2, <1>4, <1>5, <2>1 DEF f
  <2>3. CASE full > 0
    <3>1. x = 0 /\ last[1] = y + full /\ last[2] = 0
      <4>1. last = <<from[1] + full, 0>>
        BY <2>3 DEF Steps
      <4>2. x = 0 /\ from[1] = y
        <5> HIDE DEF f, left
        <5> QED BY <2>1, <2>2, <2>3
      <4> QED BY <4>1, <4>2
    <3>2. (y + full) * line = z + f
      <4>1. \A a, b, c \in Nat : (a + b) * c = (a * c) + (b * c)
        OBVIOUS
      <4> QED BY <1>3, <4>1
    <3> HIDE DEF f, z
    <3>3. (last[1] * line) + last[2] = z + x + head + f /\ (from[1] * line) + from[2] = z + x + head
      BY <1>5, <2>1, <3>1, <3>2 DEF z
    <3>4. head + f + rest = target
      BY <1>1, <1>2, <1>4, <1>5 DEF f
    <3>5. from[1] \in Nat /\ from[2] \in 0 .. line - 1 /\ last[1] \in Nat /\ last[2] \in Nat
          /\ last[2] + rest <= line
      BY <1>3, <1>4, <2>1, <3>1
    <3> QED BY <1>1, <1>3, <1>4, <2>1, <3>1, <3>3, <3>4, <3>5 DEF Parts, f, z
  <2>4. CASE ~(full > 0)
    <3>1. full = 0 /\ f = 0 /\ last = from /\ rest = target
      <4> HIDE DEF f
      <4>1. full = 0 /\ f = 0
        BY <1>3, <1>5, <2>4
      <4> QED BY <1>4, <2>1, <2>4, <4>1 DEF f, Steps
    <3> HIDE DEF f, z
    <3>2. (last[1] * line) + last[2] = z + x + head + f /\ (from[1] * line) + from[2] = z + x + head
      BY <1>5, <2>1, <3>1 DEF z
    <3>3. head + f + rest = target
      BY <1>1, <1>2, <1>4, <1>5 DEF f
    <3>4. from[1] \in Nat /\ from[2] \in 0 .. line - 1 /\ last[1] \in Nat /\ last[2] \in Nat
          /\ last[2] + rest <= line
      BY <1>3, <1>4, <2>1, <3>1
    <3> QED BY <1>1, <1>3, <1>4, <2>1, <3>1, <3>2, <3>3, <3>4 DEF Parts, f, z
  <2> QED BY <2>3, <2>4
<1> QED BY <1>6, <1>7

\* num_cores_to_grid_ranges returns disjoint rectangles of the cores asked for,
\* and ends with the last of them.
LEMMA GridRangesAre ==
  ASSUME NEW line \in Nat \ {0}, NEW y \in Nat, NEW x \in 0 .. line - 1, NEW target \in Nat,
         NEW lines
  PROVE  LET r     == GridRanges(<<y, x>>, target, lines, line)
             first == (y * line) + x
         IN /\ Tiling(r, Run(first, first + target, line))
            /\ target > 0 => Last(r)[2] = On(first + target - 1, line)
<1> DEFINE head == IF x # 0 /\ target > line - x THEN line - x ELSE 0
           from == IF head > 0 THEN <<y + 1, 0>> ELSE <<y, x>>
           full == (target - head) \div line
           rest == target - head - full * line
           last == IF full > 0 THEN <<from[1] + full, 0>> ELSE from
           A == IF head > 0 THEN << << <<y, x>>, <<y, line - 1>> >> >> ELSE << >>
           B == IF full > 0 THEN << <<from, <<from[1] + full - 1, line - 1>> >> >> ELSE << >>
           C == IF rest > 0 THEN << <<last, <<last[1], last[2] + rest - 1>> >> >> ELSE << >>
           r == GridRanges(<<y, x>>, target, lines, line)
           first == (y * line) + x
           f == full * line
           X == {<< <<y, x>>, <<y, line - 1>> >>, <<from, <<from[1] + full - 1, line - 1>> >>,
                 <<last, <<last[1], last[2] + rest - 1>> >>}
<1>1. r = (A \o B) \o C
  BY DEF GridRanges
<1>2. Parts(head, from, full, rest, last, y, x, target, line)
  <2>1. Steps(head, from, full, rest, last, y, x, target, line)
    BY Zenon DEF Steps
  <2> HIDE DEF head, from, full, rest, last
  <2> QED BY <2>1, PartsAre
<1>3. from = <<from[1], from[2]>> /\ last = <<last[1], last[2]>>
  <2>1. \A a, b : <<a, b>> = << <<a, b>>[1], <<a, b>>[2]>>
    OBVIOUS
  <2>2. from = <<from[1], from[2]>>
    <3> HIDE DEF head
    <3> QED BY <2>1, Zenon
  <2> HIDE DEF from
  <2>3. last = <<last[1], last[2]>>
    <3> HIDE DEF full
    <3> QED BY <2>1, <2>2, Zenon
  <2> QED BY <2>2, <2>3
<1>4. A \in Seq(X) /\ B \in Seq(X) /\ C \in Seq(X)
  <2>1. << >> \in Seq(X) /\ \A e \in X : <<e>> \in Seq(X)
    OBVIOUS
  <2> HIDE DEF head, from, full, rest, last
  <2> QED BY <2>1
<1> HIDE DEF head, from, full, rest, last, r, X
<1>5. /\ head \in Nat /\ full \in Nat /\ rest \in Nat /\ head + f + rest = target /\ f \in Nat
      /\ first \in Nat /\ (full = 0 => f = 0) /\ y * line \in Nat
  BY <1>2 DEF Parts
<1>6. Tiling(A, Run(first, first + head, line))
  <2>1. CASE head > 0
    <3>1. x \in Nat /\ x + head <= line /\ x + head - 1 = line - 1
      BY <1>2, <1>5, <2>1 DEF Parts
    <3>2. Cells(<< <<y, x>>, <<y, x + head - 1>> >>) = Run(first, first + head, line)
      BY <1>5, <3>1, PartOfLine
    <3> QED BY <2>1, <3>1, <3>2, TilingOfOne
  <2>2. CASE ~(head > 0)
    <3>1. head = 0
      BY <1>5, <2>2
    <3>2. Run(first, first + head, line) = {}
      <4> HIDE DEF first
      <4> QED BY <1>5, <3>1 DEF Run
    <3> QED BY <2>2, <3>2, TilingOfOne
  <2> QED BY <2>1, <2>2
<1>7. Tiling(B, Run(first + head, first + head + f, line))
  <2>1. CASE full > 0
    <3>1. from[1] \in Nat /\ from[2] = 0 /\ (from[1] * line) + from[2] = first + head
      BY <1>2, <2>1 DEF Parts
    <3>2. from[1] * line = first + head
      BY <3>1
    <3>3. (from[1] + full) * line = first + head + f
      <4>1. \A a, b, c \in Nat : (a + b) * c = (a * c) + (b * c)
        OBVIOUS
      <4>2. (from[1] + full) * line = (from[1] * line) + f
        BY <1>5, <3>1, <4>1
      <4> QED BY <3>2, <4>2
    <3>4. Cells(<< <<from[1], 0>>, <<from[1] + full - 1, line - 1>> >>)
          = Run(first + head, first + head + f, line)
      <4>1. Cells(<< <<from[1], 0>>, <<from[1] + full - 1, line - 1>> >>)
            = Run(from[1] * line, (from[1] + full) * line, line)
        BY <1>5, <3>1, FullLines
      <4> QED BY <3>2, <3>3, <4>1
    <3>5. from = <<from[1], 0>>
      BY <1>3, <3>1
    <3> DEFINE e == <<from, <<from[1] + full - 1, line - 1>> >>
    <3>6. Cells(e) = Run(first + head, first + head + f, line)
      BY <3>4, <3>5
    <3> HIDE DEF f, first
    <3>7. B = <<e>>
      BY <2>1
    <3> HIDE DEF e
    <3> QED BY <3>6, <3>7, TilingOfOne
  <2>2. CASE ~(full > 0)
    <3>1. full = 0 /\ f = 0
      BY <1>5, <2>2
    <3>2. Run(first + head, first + head + f, line) = {}
      <4> HIDE DEF first, f
      <4> QED BY <1>5, <3>1 DEF Run
    <3> HIDE DEF f, first
    <3> QED BY <2>2, <3>2, TilingOfOne
  <2> QED BY <2>1, <2>2
<1>8. /\ last[1] \in Nat /\ last[2] \in Nat /\ last[2] + rest <= line
      /\ (last[1] * line) + last[2] = first + head + f
  BY <1>2 DEF Parts
<1>9. Tiling(C, Run(first + head + f, first + target, line))
  <2>1. first + head + f + rest = first + target
    <3> HIDE DEF first, f
    <3> QED BY <1>5
  <2>2. CASE rest > 0
    <3>1. Cells(<< <<last[1], last[2]>>, <<last[1], last[2] + rest - 1>> >>)
          = Run((last[1] * line) + last[2], (last[1] * line) + last[2] + rest, line)
      BY <1>5, <1>8, PartOfLine
    <3> DEFINE e == <<last, <<last[1], last[2] + rest - 1>> >>
    <3>2. Cells(e) = Run(first + head + f, first + target, line)
      BY <1>3, <1>8, <2>1, <3>1
    <3> HIDE DEF f, first
    <3>3. C = <<e>>
      BY <2>2
    <3> HIDE DEF e
    <3> QED BY <3>2, <3>3, TilingOfOne
  <2>3. CASE ~(rest > 0)
    <3> HIDE DEF f, first
    <3>1. rest = 0
      BY <1>5, <2>3
    <3>2. Run(first + head + f, first + target, line) = {}
      BY <1>5, <2>1, <3>1 DEF Run
    <3> QED BY <2>3, <3>2, TilingOfOne
  <2> QED BY <2>2, <2>3
<1> DEFINE m == first + head
           k == first + head + f
           l == first + target
<1>10. m \in Nat /\ k \in Nat /\ l \in Nat /\ first <= m /\ m <= k /\ k <= l
  <2> HIDE DEF first, f
  <2> QED BY <1>5
<1>11. Tiling(A \o B, Run(first, k, line)) /\ A \o B \in Seq(X)
  <2>1. Run(first, m, line) \intersect Run(m, k, line) = {}
        /\ Run(first, m, line) \union Run(m, k, line) = Run(first, k, line)
    <3> HIDE DEF m, k, first
    <3> QED BY <1>5, <1>10, RunsJoin
  <2>2. Tiling(A, Run(first, m, line)) /\ Tiling(B, Run(m, k, line))
    BY <1>6, <1>7
  <2> HIDE DEF A, B, m, k, first
  <2>3. A \o B \in Seq(X)
    BY <1>4, ConcatProperties
  <2>4. Tiling(A \o B, Run(first, m, line) \union Run(m, k, line))
    BY <1>4, <2>1, <2>2, TilingJoined
  <2> QED BY <2>1, <2>3, <2>4
<1>12. Tiling(r, Run(first, l, line))
  <2>1. Run(first, k, line) \intersect Run(k, l, line) = {}
        /\ Run(first, k, line) \union Run(k, l, line) = Run(first, l, line)
    <3>1. first <= k
      <4> HIDE DEF m, k, first
      <4> QED BY <1>5, <1>10
    <3> HIDE DEF m, k, l, first
    <3> QED BY <1>5, <1>10, <3>1, RunsJoin
  <2>2. Tiling(C, Run(k, l, line))
    BY <1>9
  <2> HIDE DEF A, B, C, m, k, l, first
  <2>3. Tiling((A \o B) \o C, Run(first, k, line) \union Run(k, l, line))
    BY <1>4, <1>11, <2>1, <2>2, TilingJoined
  <2> QED BY <1>1, <2>1, <2>3
<1>13. ASSUME target > 0 PROVE Last(r)[2] = On(first + target - 1, line)
  <2>1. \A s \in Seq(X) : \A e \in X : Last(s \o <<e>>) = e
    <3> TAKE s \in Seq(X)
    <3> TAKE e \in X
    <3>1. <<e>> \in Seq(X) /\ Len(<<e>>) = 1 /\ <<e>>[1] = e /\ Len(s) \in Nat
      BY LenProperties
    <3> DEFINE u == <<e>>
    <3> HIDE DEF u
    <3>2. Len(s \o u) = Len(s) + Len(u)
          /\ \A i \in 1 .. Len(s) + Len(u) :
               (s \o u)[i] = IF i <= Len(s) THEN s[i] ELSE u[i - Len(s)]
      BY <3>1, ConcatProperties DEF u
    <3>3. (s \o u)[Len(s) + 1] = u[1] /\ Len(s \o u) = Len(s) + 1
      <4> DEFINE a == Len(s)
      <4>1. a + 1 \in 1 .. a + Len(u) /\ ~(a + 1 <= a) /\ (a + 1) - a = 1 /\ Len(u) = 1
        BY <3>1 DEF u
      <4> HIDE DEF a
      <4> QED BY <3>2, <4>1 DEF a
    <3> QED BY <3>1, <3>3 DEF Last, u
  <2>2. \A s \in Seq(X) : s \o << >> = s
    BY ConcatEmptySeq
  <2>3. CASE rest > 0
    <3> DEFINE e == <<last, <<last[1], last[2] + rest - 1>> >>
    <3>1. C = <<e>> /\ e \in X
      BY <2>3 DEF X
    <3>2. e[2] = <<last[1], last[2] + rest - 1>>
      OBVIOUS
    <3> HIDE DEF e, A, B, C
    <3>3. Last(r) = e
      BY <1>1, <1>11, <2>1, <3>1
    <3>4. last[2] + rest - 1 \in 0 .. line - 1
      BY <1>5, <1>8, <2>3
    <3> DEFINE u == last[2] + rest - 1
    <3>5. On((last[1] * line) + u, line) = <<last[1], u>>
      <4> HIDE DEF u
      <4> QED BY <1>8, <3>4, OnOf DEF u
    <3>6. (last[1] * line) + u = first + target - 1
      <4> DEFINE g == last[1] * line
      <4>1. g \in Nat /\ g + last[2] = first + head + f /\ last[2] \in Nat
        BY <1>8
      <4> HIDE DEF g, first, f
      <4>2. g + (last[2] + rest - 1) = first + target - 1
        BY <1>5, <4>1
      <4> QED BY <4>2 DEF g
    <3> QED BY <3>2, <3>3, <3>5, <3>6
  <2>4. CASE ~(rest > 0)
    <3>1. rest = 0 /\ C = << >>
      BY <1>5, <2>4
    <3> HIDE DEF C
    <3>2. r = A \o B
      <4> HIDE DEF A, B
      <4> QED BY <1>1, <1>11, <2>2, <3>1
    <3>3. full > 0
      <4> SUFFICES ASSUME full = 0 PROVE FALSE
        BY <1>5
      <4>1. f = 0 /\ head = target /\ head > 0
        <5> HIDE DEF f, first
        <5> QED BY <1>5, <1>13, <3>1
      <4>2. target > line - x
        BY <4>1 DEF head
      <4>3. head = line - x
        BY <1>2, <4>1 DEF Parts
      <4> QED BY <4>1, <4>2, <4>3
    <3> DEFINE e == <<from, <<from[1] + full - 1, line - 1>> >>
    <3>4. B = <<e>> /\ e \in X
      BY <3>3 DEF X
    <3>5. e[2] = <<from[1] + full - 1, line - 1>>
      OBVIOUS
    <3> HIDE DEF e, A, B
    <3>6. Last(r) = e
      BY <1>4, <2>1, <3>2, <3>4
    <3> DEFINE v == from[1] + full - 1
    <3>7. v \in Nat /\ line - 1 \in 0 .. line - 1 /\ from[1] \in Nat
          /\ from[1] * line = first + head
      BY <1>2, <3>3 DEF Parts
    <3>8. On((v * line) + (line - 1), line) = <<v, line - 1>>
      <4> HIDE DEF v
      <4> QED BY <3>7, OnOf
    <3>9. (v * line) + (line - 1) = first + target - 1
      <4>1. \A a, b \in Nat, c \in Nat \ {0} : ((a + b - 1) * c) + (c - 1) = (a * c) + (b * c) - 1
        OBVIOUS
      <4>2. (v * line) + (line - 1) = (from[1] * line) + (full * line) - 1
        BY <1>5, <3>7, <4>1
      <4> HIDE DEF v
      <4>3. (v * line) + (line - 1) = first + head + f - 1
        BY <3>7, <4>2
      <4> HIDE DEF first, f
      <4> QED BY <1>5, <3>1, <4>3
    <3> QED BY <3>5, <3>6, <3>8, <3>9
  <2> QED BY <2>3, <2>4
<1> QED BY <1>12, <1>13 DEF r

\* The ranges are those of the cores asked for, wherever they begin.
THEOREM EveryRangesExact ==
  ASSUME NEW line \in Nat \ {0}, NEW y \in Nat, NEW x \in 0 .. line - 1, NEW target \in Nat,
         NEW lines
  PROVE  RangesExact(<<y, x>>, target, lines, line)
<1> DEFINE r == GridRanges(<<y, x>>, target, lines, line)
           first == (y * line) + x
<1>1. Tiling(r, Run(first, first + target, line))
  BY GridRangesAre
<1> DEFINE start == <<y, x>>
<1>2. (start[1] * line) + start[2] = first
  OBVIOUS
<1> HIDE DEF r, first, start
<1>3. Run(first, first + target, line) = {<<m \div line, m % line>> : m \in first .. first + target - 1}
  <2>1. (first + target) - 1 = first + target - 1
    <3>1. first \in Nat
      BY DEF first
    <3> QED BY <3>1
  <2> QED BY <2>1, Zenon DEF Run, On
<1>4. r = GridRanges(start, target, lines, line)
  BY DEF r, start
<1>5. RangesExact(start, target, lines, line)
  BY <1>1, <1>2, <1>3, <1>4, ZenonT(40) DEF RangesExact, Tiling
<1> QED BY <1>5 DEF start

\* The cores of the numbers from a up to b.
Nth(grid, row_wise, a, b) == {NthCore(grid, i, row_wise) : i \in a .. b - 1}

\* A grid of two dimensions.
Grid2 == (Nat \ {0}) \X (Nat \ {0})

\* Turning twice, turning the diagonal, and that nothing is lost.
LEMMA TurnIs ==
  ASSUME NEW row_wise \in BOOLEAN
  PROVE  /\ \A a, b : Turn(Turn(<<a, b>>, row_wise), row_wise) = <<a, b>>
         /\ \A a : Turn(<<a, a>>, row_wise) = <<a, a>>
         /\ \A a, b, c, d : Turn(<<a, b>>, row_wise) = Turn(<<c, d>>, row_wise)
                              => <<a, b>> = <<c, d>>
<1>1. CASE row_wise
  BY <1>1 DEF Turn
<1>2. CASE ~row_wise
  BY <1>2 DEF Turn, Transposed
<1> QED BY <1>1, <1>2

\* The lines of a grid, in the order of the split.
LEMMA LinesAre ==
  ASSUME NEW row_wise \in BOOLEAN, NEW grid \in Grid2
  PROVE  /\ Turn(grid, row_wise)[1] \in Nat \ {0} /\ Turn(grid, row_wise)[2] \in Nat \ {0}
         /\ Turn(grid, row_wise)[1] * Turn(grid, row_wise)[2] = grid[1] * grid[2]
         /\ grid[1] * grid[2] \in Nat \ {0}
<1>1. grid[1] \in Nat \ {0} /\ grid[2] \in Nat \ {0}
  BY DEF Grid2
<1>2. grid[1] * grid[2] \in Nat \ {0} /\ grid[1] * grid[2] = grid[2] * grid[1]
  <2>1. \A a, b \in Nat \ {0} : a * b \in Nat \ {0} /\ a * b = b * a
    OBVIOUS
  <2> QED BY <1>1, <2>1
<1>3. CASE row_wise
  BY <1>1, <1>2, <1>3 DEF Turn
<1>4. CASE ~row_wise
  BY <1>1, <1>2, <1>4 DEF Turn, Transposed
<1> QED BY <1>3, <1>4

\* A number has one core.
LEMMA NthIs ==
  ASSUME NEW row_wise \in BOOLEAN, NEW grid \in Grid2
  PROVE  /\ \A i : NthCore(grid, i, row_wise) = Turn(On(i, Turn(grid, row_wise)[2]), row_wise)
         /\ \A i, j \in Nat : NthCore(grid, i, row_wise) = NthCore(grid, j, row_wise) => i = j
<1> DEFINE line == Turn(grid, row_wise)[2]
<1>1. \A i : NthCore(grid, i, row_wise) = Turn(On(i, line), row_wise)
  BY DEF NthCore, On
<1>2. line \in Nat \ {0}
  BY LinesAre
<1> HIDE DEF line
<1>3. ASSUME NEW i \in Nat, NEW j \in Nat,
             Turn(On(i, line), row_wise) = Turn(On(j, line), row_wise)
      PROVE  i = j
  <2>1. On(i, line) = On(j, line)
    BY <1>3, TurnIs DEF On
  <2> QED BY <1>2, <2>1, OnInjective
<1> QED BY <1>1, <1>3 DEF line

\* Cores that follow each other: disjoint, together one run, and as many as
\* numbers.
LEMMA NthJoin ==
  ASSUME NEW row_wise \in BOOLEAN, NEW grid \in Grid2, NEW a \in Nat, NEW b \in Nat,
         NEW c \in Nat, a <= b, b <= c
  PROVE  /\ Nth(grid, row_wise, a, b) \intersect Nth(grid, row_wise, b, c) = {}
         /\ Nth(grid, row_wise, a, b) \union Nth(grid, row_wise, b, c) = Nth(grid, row_wise, a, c)
<1>1. ASSUME NEW e, e \in Nth(grid, row_wise, a, b), e \in Nth(grid, row_wise, b, c) PROVE FALSE
  <2>1. PICK i \in a .. b - 1, j \in b .. c - 1 :
          e = NthCore(grid, i, row_wise) /\ e = NthCore(grid, j, row_wise)
    BY <1>1 DEF Nth
  <2>2. i \in Nat /\ j \in Nat /\ i # j
    BY <2>1
  <2>3. \A k, l \in Nat : NthCore(grid, k, row_wise) = NthCore(grid, l, row_wise) => k = l
    BY NthIs
  <2> QED BY <2>1, <2>2, <2>3
<1>2. ASSUME NEW m PROVE m \in a .. c - 1 <=> m \in a .. b - 1 \/ m \in b .. c - 1
  OBVIOUS
<1>3. Nth(grid, row_wise, a, b) \union Nth(grid, row_wise, b, c) = Nth(grid, row_wise, a, c)
  BY <1>2, Zenon DEF Nth
<1> QED BY <1>1, <1>3

\* As many cores as numbers.
LEMMA NthCount ==
  ASSUME NEW row_wise \in BOOLEAN, NEW grid \in Grid2, NEW a \in Nat, NEW b \in Nat, a <= b
  PROVE  Cardinality(Nth(grid, row_wise, a, b)) = b - a
<1> DEFINE S == a .. b - 1
           T == Nth(grid, row_wise, a, b)
           h == [i \in S |-> NthCore(grid, i, row_wise)]
<1>1. IsFiniteSet(S) /\ Cardinality(S) = b - a
  <2>1. Cardinality(S) = IF a > b - 1 THEN 0 ELSE (b - 1) - a + 1
    BY FS_Interval
  <2>2. IsFiniteSet(S)
    BY FS_Interval
  <2> HIDE DEF S
  <2> QED BY <2>1, <2>2
<1>2. \A i \in S : i \in Nat
  OBVIOUS
<1>3. T = {NthCore(grid, i, row_wise) : i \in S}
  BY DEF Nth
<1> HIDE DEF S, T
<1>4. h \in [S -> T] /\ (\A i, j \in S : h[i] = h[j] => i = j) /\ \A t \in T : \E i \in S : h[i] = t
  BY <1>2, <1>3, NthIs
<1> HIDE DEF h
<1>5. h \in Bijection(S, T)
  BY <1>4 DEF Bijection, Injection, IsInjective, Surjection
<1>6. Cardinality(T) = Cardinality(S)
  BY <1>1, <1>5, FS_Bijection DEF ExistsBijection
<1> QED BY <1>1, <1>6 DEF T

\* The place of a number, written as a core, is the number.
LEMMA PlaceIs ==
  ASSUME NEW row_wise \in BOOLEAN, NEW grid \in Grid2, NEW m \in Nat
  PROVE  Place(Turn(On(m, Turn(grid, row_wise)[2]), row_wise), grid, row_wise) = m
<1> DEFINE line == Turn(grid, row_wise)[2]
           p == Turn(On(m, line), row_wise)
<1>1. line \in Nat \ {0}
  BY LinesAre
<1>2. Turn(p, row_wise) = On(m, line)
  BY TurnIs DEF On
<1>3. Place(p, grid, row_wise) = (m \div line) * line + (m % line)
  <2>1. Place(p, grid, row_wise) = On(m, line)[1] * line + On(m, line)[2]
    BY <1>2, Zenon DEF Place
  <2> HIDE DEF line, p
  <2> QED BY <2>1 DEF On
<1> HIDE DEF line
<1>4. (m \div line) * line + (m % line) = m
  BY <1>1, OnIs
<1> QED BY <1>3, <1>4 DEF line

\* A group, from its first core to its last.
LEMMA SpanIs ==
  ASSUME NEW row_wise, NEW grid, NEW a \in Nat, NEW b \in Nat, NEW p, NEW q,
         Place(p, grid, row_wise) = a, Place(q, grid, row_wise) = b
  PROVE  Span(<<p, q>>, grid, row_wise) = Nth(grid, row_wise, a, b + 1)
<1>1. Place(p, grid, row_wise) = a /\ Place(q, grid, row_wise) = b
  OBVIOUS
<1>2. b = (b + 1) - 1 /\ <<p, q>> # << >> /\ <<p, q>>[1] = p /\ <<p, q>>[2] = q
  OBVIOUS
<1>3. Span(<<p, q>>, grid, row_wise) = {NthCore(grid, i, row_wise) : i \in a .. b}
  <2> DEFINE g == <<p, q>>
  <2>1. g # << >> /\ Place(g[1], grid, row_wise) = a /\ Place(g[2], grid, row_wise) = b
    BY <1>1, <1>2
  <2> HIDE DEF g
  <2>2. Span(g, grid, row_wise) = {NthCore(grid, i, row_wise) : i \in a .. b}
    BY <2>1, Zenon DEF Span
  <2> QED BY <2>2 DEF g
<1> QED BY <1>2, <1>3 DEF Nth

\* The split s gives the first x of k cores work w1 and the others w2.
Gives(s, grid, row_wise, k, x, w1, w2) ==
  /\ s.cores = k /\ s.w1 = w1 /\ s.w2 = w2
  /\ Span(s.g1, grid, row_wise) = Nth(grid, row_wise, 0, x)
  /\ Span(s.g2, grid, row_wise) = Nth(grid, row_wise, x, k)

\* The places of the first core, the last, and those of one line.
LEMMA EndPlaces ==
  ASSUME NEW row_wise \in BOOLEAN, NEW grid \in Grid2
  PROVE  /\ Place(<<0, 0>>, grid, row_wise) = 0
         /\ Place(<<grid[1] - 1, grid[2] - 1>>, grid, row_wise) = (grid[1] * grid[2]) - 1
         /\ grid[1] = 1 => \A k \in Nat : Place(<<0, k>>, grid, row_wise) = k
<1>1. grid[1] \in Nat \ {0} /\ grid[2] \in Nat \ {0}
  BY DEF Grid2
<1>2. /\ \A a, b \in Nat \ {0} : ((a - 1) * b) + (b - 1) = (a * b) - 1
      /\ \A a, b \in Nat \ {0} : ((b - 1) * a) + (a - 1) = (a * b) - 1
      /\ \A a \in Nat : (0 * a) + 0 = 0 /\ (a * 1) + 0 = a
  OBVIOUS
<1>3. CASE row_wise
  <2>1. \A a, b : Place(<<a, b>>, grid, row_wise) = a * grid[2] + b
    BY <1>3 DEF Place, Turn
  <2> QED BY <1>1, <1>2, <2>1
<1>4. CASE ~row_wise
  <2>1. \A a, b : Place(<<a, b>>, grid, row_wise) = b * grid[1] + a
    BY <1>4 DEF Place, Turn, Transposed
  <2>2. Place(<<0, 0>>, grid, row_wise) = 0
    BY <1>1, <1>2, <2>1
  <2>3. Place(<<grid[1] - 1, grid[2] - 1>>, grid, row_wise) = (grid[1] * grid[2]) - 1
    <3>1. Place(<<grid[1] - 1, grid[2] - 1>>, grid, row_wise)
          = ((grid[2] - 1) * grid[1]) + (grid[1] - 1)
      BY <2>1, Zenon
    <3> QED BY <1>1, <1>2, <3>1
  <2>4. ASSUME grid[1] = 1, NEW k \in Nat PROVE Place(<<0, k>>, grid, row_wise) = k
    <3>1. Place(<<0, k>>, grid, row_wise) = (k * 1) + 0
      BY <2>1, <2>4
    <3> QED BY <1>2, <3>1
  <2> QED BY <2>2, <2>3, <2>4
<1> QED BY <1>3, <1>4

\* An empty group has no cores.
LEMMA NoGroup ==
  ASSUME NEW row_wise, NEW grid, NEW x \in Nat
  PROVE  Span(<< >>, grid, row_wise) = Nth(grid, row_wise, x, x)
<1>1. x .. x - 1 = {}
  OBVIOUS
<1>2. Nth(grid, row_wise, x, x) = {}
  BY <1>1 DEF Nth
<1>3. Span(<< >>, grid, row_wise) = {}
  BY DEF Span
<1> QED BY <1>2, <1>3

\* What split_work_to_cores of utils gives out on a line of cores.
LEMMA SplitLineIs ==
  ASSUME NEW row_wise \in BOOLEAN, NEW grid \in Grid2, grid[1] = 1, NEW units \in Nat \ {0}
  PROVE  LET n == grid[2]
             s == SplitLine(n, units)
             q == units \div n
             m == units % n
         IN /\ units <= n => Gives(s, grid, row_wise, units, units, 1, 0)
            /\ units > n => Gives(s, grid, row_wise, n, m + 1, q + 1, q)
<1> DEFINE n == grid[2]
           s == SplitLine(n, units)
           q == units \div n
           m == units % n
           line == Turn(grid, row_wise)[2]
<1>1. n \in Nat \ {0} /\ \A k \in Nat : Place(<<0, k>>, grid, row_wise) = k
  <2>1. n \in Nat \ {0}
    BY DEF Grid2
  <2> QED BY <2>1, EndPlaces
<1> HIDE DEF n
<1>2. q \in Nat /\ m \in 0 .. n - 1
  BY <1>1
<1> HIDE DEF q, m
<1>3. ASSUME NEW a \in Nat, NEW b \in Nat
      PROVE  Span(<< <<0, a>>, <<0, b>> >>, grid, row_wise) = Nth(grid, row_wise, a, b + 1)
  BY <1>1, SpanIs
<1>4. ASSUME units <= n PROVE Gives(s, grid, row_wise, units, units, 1, 0)
  <2>1. s = Split(units, << <<0, 0>>, <<0, units - 1>> >>, << >>, 1, 0)
    BY <1>1, <1>4 DEF SplitLine
  <2>2. Span(<< <<0, 0>>, <<0, units - 1>> >>, grid, row_wise) = Nth(grid, row_wise, 0, units)
    <3>1. units - 1 \in Nat /\ (units - 1) + 1 = units
      BY <1>1, <1>4
    <3>2. Span(<< <<0, 0>>, <<0, units - 1>> >>, grid, row_wise)
          = Nth(grid, row_wise, 0, (units - 1) + 1)
      BY <1>3, <3>1
    <3> QED BY <3>1, <3>2
  <2> QED BY <2>1, <2>2, NoGroup DEF Gives, Split
<1>5. ASSUME units > n PROVE Gives(s, grid, row_wise, n, m + 1, q + 1, q)
  <2>1. s = Split(n, << <<0, 0>>, <<0, m>> >>, << <<0, m + 1>>, <<0, n - 1>> >>, q + 1, q)
    BY <1>1, <1>5 DEF SplitLine, q, m
  <2>2. Span(<< <<0, 0>>, <<0, m>> >>, grid, row_wise) = Nth(grid, row_wise, 0, m + 1)
    BY <1>1, <1>2, <1>3
  <2>3. Span(<< <<0, m + 1>>, <<0, n - 1>> >>, grid, row_wise) = Nth(grid, row_wise, m + 1, n)
    <3>1. m + 1 \in Nat /\ n - 1 \in Nat /\ (n - 1) + 1 = n
      BY <1>1, <1>2
    <3>2. Span(<< <<0, m + 1>>, <<0, n - 1>> >>, grid, row_wise)
          = Nth(grid, row_wise, m + 1, (n - 1) + 1)
      BY <1>3, <3>1
    <3> QED BY <3>1, <3>2
  <2> QED BY <2>1, <2>2, <2>3 DEF Gives, Split
<1> QED BY <1>4, <1>5 DEF n, s, q, m

\* What it gives out on a grid of more than one line.
LEMMA SplitGridIs ==
  ASSUME NEW row_wise \in BOOLEAN, NEW grid \in Grid2, NEW units \in Nat \ {0}
  PROVE  LET n == grid[1] * grid[2]
             s == SplitGrid(grid, units, row_wise)
             q == units \div n
             m == units % n
         IN /\ units <= n => Gives(s, grid, row_wise, units, units, 1, 0)
            /\ (units > n /\ m = 0) => Gives(s, grid, row_wise, n, n, q, 0)
            /\ (units > n /\ m # 0) => Gives(s, grid, row_wise, n, m, q + 1, q)
<1> DEFINE turned == Turn(grid, row_wise)
           lines == turned[1]
           line == turned[2]
           n == lines * line
           End(start, count) == Last(GridRanges(start, count, lines, line))[2]
           Group(start, count) == <<Turn(start, row_wise), Turn(End(start, count), row_wise)>>
           After(p) == IF p[2] # line - 1 THEN <<p[1], p[2] + 1>> ELSE <<p[1] + 1, 0>>
           q == units \div n
           m == units % n
           s == SplitGrid(grid, units, row_wise)
           corners == << <<0, 0>>, <<grid[1] - 1, grid[2] - 1>> >>
<1>1. lines \in Nat \ {0} /\ line \in Nat \ {0} /\ n \in Nat \ {0} /\ n = grid[1] * grid[2]
  BY LinesAre
<1>2. s = CASE n >= units -> Split(units, Group(<<0, 0>>, units), << >>, 1, 0)
            [] n < units /\ m = 0 -> Split(n, corners, << >>, q, 0)
            [] OTHER      -> Split(n, Group(<<0, 0>>, m),
                                   Group(After(End(<<0, 0>>, m)), n - m), q + 1, q)
  BY Zenon DEF SplitGrid
<1>3. ASSUME NEW a \in Nat, NEW c \in Nat \ {0} PROVE End(On(a, line), c) = On(a + c - 1, line)
  <2> DEFINE y == a \div line
             x == a % line
  <2>1. y \in Nat /\ x \in 0 .. line - 1 /\ (y * line) + x = a
    <3> HIDE DEF line
    <3> QED BY <1>1, OnIs
  <2> HIDE DEF line, lines, y, x
  <2>2. Last(GridRanges(<<y, x>>, c, lines, line))[2] = On((y * line) + x + c - 1, line)
    BY <1>1, <2>1, GridRangesAre
  <2>3. On(a, line) = <<y, x>>
    BY DEF On, y, x
  <2>4. (y * line) + x + c - 1 = a + c - 1
    BY <1>1, <2>1
  <2> QED BY <2>2, <2>3, <2>4
<1>4. ASSUME NEW a \in Nat PROVE Place(Turn(On(a, line), row_wise), grid, row_wise) = a
  BY PlaceIs
<1>5. ASSUME NEW a \in Nat, NEW c \in Nat \ {0}
      PROVE  Span(Group(On(a, line), c), grid, row_wise) = Nth(grid, row_wise, a, a + c)
  <2> DEFINE b == a + c - 1
  <2>1. b \in Nat /\ b + 1 = a + c
    OBVIOUS
  <2>2. Group(On(a, line), c) = <<Turn(On(a, line), row_wise), Turn(On(b, line), row_wise)>>
    BY <1>3, Zenon
  <2> HIDE DEF b
  <2>3. Span(<<Turn(On(a, line), row_wise), Turn(On(b, line), row_wise)>>, grid, row_wise)
        = Nth(grid, row_wise, a, b + 1)
    BY <1>4, <2>1, SpanIs
  <2> QED BY <2>1, <2>2, <2>3
<1>6. <<0, 0>> = On(0, line)
  <2> HIDE DEF line
  <2>1. 0 \div line = 0 /\ 0 % line = 0
    BY <1>1
  <2> QED BY <2>1 DEF On
<1>7. ASSUME NEW a \in Nat PROVE After(On(a, line)) = On(a + 1, line)
  <2> HIDE DEF line
  <2> DEFINE y == a \div line
             x == a % line
  <2>1. y \in Nat /\ x \in 0 .. line - 1 /\ a = (y * line) + x
    BY <1>1, OnIs
  <2>2. On(a, line)[1] = y /\ On(a, line)[2] = x
    BY DEF On
  <2> HIDE DEF y, x
  <2>3. CASE x # line - 1
    <3>1. x + 1 \in 0 .. line - 1 /\ a + 1 = (y * line) + (x + 1)
      BY <1>1, <2>1, <2>3
    <3>2. On((y * line) + (x + 1), line) = <<y, x + 1>>
      BY <1>1, <2>1, <3>1, OnOf
    <3> QED BY <2>2, <2>3, <3>1, <3>2
  <2>4. CASE x = line - 1
    <3>1. \A k \in Nat : (k * line) + (line - 1) + 1 = ((k + 1) * line) + 0
      BY <1>1
    <3>2. y + 1 \in Nat /\ 0 \in 0 .. line - 1 /\ a + 1 = ((y + 1) * line) + 0
      BY <1>1, <2>1, <2>4, <3>1
    <3>3. On(((y + 1) * line) + 0, line) = <<y + 1, 0>>
      BY <1>1, <3>2, OnOf
    <3> QED BY <2>2, <2>4, <3>2, <3>3
  <2> QED BY <2>3, <2>4
<1>8. Place(<<0, 0>>, grid, row_wise) = 0
      /\ Place(<<grid[1] - 1, grid[2] - 1>>, grid, row_wise) = n - 1
  <2>1. Place(<<0, 0>>, grid, row_wise) = 0
        /\ Place(<<grid[1] - 1, grid[2] - 1>>, grid, row_wise) = (grid[1] * grid[2]) - 1
    BY EndPlaces
  <2>2. n = grid[1] * grid[2]
    BY <1>1
  <2> HIDE DEF n
  <2> QED BY <2>1, <2>2
<1> HIDE DEF Group, After, End, line, lines, n, turned, s
<1>9. q \in Nat /\ m \in Nat /\ m < n
  BY <1>1
<1> HIDE DEF q, m, corners
<1>10. ASSUME NEW c \in Nat \ {0}
       PROVE  Span(Group(<<0, 0>>, c), grid, row_wise) = Nth(grid, row_wise, 0, c)
  <2>1. Span(Group(On(0, line), c), grid, row_wise) = Nth(grid, row_wise, 0, 0 + c)
    BY <1>5
  <2>2. 0 + c = c
    OBVIOUS
  <2> QED BY <1>6, <2>1, <2>2
<1>11. ASSUME units <= n PROVE Gives(s, grid, row_wise, units, units, 1, 0)
  <2>1. s = Split(units, Group(<<0, 0>>, units), << >>, 1, 0)
    BY <1>1, <1>2, <1>11
  <2>2. Span(Group(<<0, 0>>, units), grid, row_wise) = Nth(grid, row_wise, 0, units)
    BY <1>10
  <2> QED BY <2>1, <2>2, NoGroup DEF Gives, Split
<1>12. ASSUME units > n, m = 0 PROVE Gives(s, grid, row_wise, n, n, q, 0)
  <2>1. s = Split(n, corners, << >>, q, 0)
    BY <1>1, <1>2, <1>12
  <2>2. Span(corners, grid, row_wise) = Nth(grid, row_wise, 0, n)
    <3>1. n - 1 \in Nat /\ (n - 1) + 1 = n
      BY <1>1
    <3>2. Span(corners, grid, row_wise) = Nth(grid, row_wise, 0, (n - 1) + 1)
      BY <1>8, <3>1, SpanIs DEF corners
    <3> QED BY <3>1, <3>2
  <2> QED BY <1>1, <2>1, <2>2, NoGroup DEF Gives, Split
<1>13. ASSUME units > n, m # 0 PROVE Gives(s, grid, row_wise, n, m, q + 1, q)
  <2>1. s = Split(n, Group(<<0, 0>>, m), Group(After(End(<<0, 0>>, m)), n - m), q + 1, q)
    BY <1>1, <1>2, <1>13
  <2>2. Span(Group(<<0, 0>>, m), grid, row_wise) = Nth(grid, row_wise, 0, m)
    BY <1>9, <1>13, <1>10
  <2>3. After(End(<<0, 0>>, m)) = On(m, line)
    <3>1. m \in Nat \ {0} /\ m - 1 \in Nat /\ (m - 1) + 1 = m /\ 0 + m - 1 = m - 1
      BY <1>9, <1>13
    <3>2. End(<<0, 0>>, m) = On(m - 1, line)
      BY <1>3, <1>6, <3>1
    <3> QED BY <1>7, <3>1, <3>2
  <2>4. Span(Group(On(m, line), n - m), grid, row_wise) = Nth(grid, row_wise, m, n)
    <3>1. n - m \in Nat \ {0} /\ m + (n - m) = n
      BY <1>1, <1>9
    <3>2. Span(Group(On(m, line), n - m), grid, row_wise) = Nth(grid, row_wise, m, m + (n - m))
      BY <1>5, <1>9, <3>1
    <3> QED BY <3>1, <3>2
  <2> QED BY <2>1, <2>2, <2>3, <2>4 DEF Gives, Split
<1> QED BY <1>1, <1>11, <1>12, <1>13 DEF s, q, m

\* The split s of the simulator lists the first x of k cores for work w1, the
\* others for w2.
Lists(s, grid, row_wise, k, x, w1, w2) ==
  /\ s.cores = k /\ s.w1 = w1 /\ s.w2 = w2
  /\ s.g1 = Nth(grid, row_wise, 0, x)
  /\ s.g2 = Nth(grid, row_wise, x, k)

\* What split_work_to_cores of the simulator gives out.
LEMMA SimSplitIs ==
  ASSUME NEW row_wise \in BOOLEAN, NEW grid \in Grid2, NEW units \in Nat \ {0}
  PROVE  LET n == grid[1] * grid[2]
             s == SimSplit(grid, units, row_wise)
             q == units \div n
             m == units % n
         IN /\ units <= n => Lists(s, grid, row_wise, units, units, 1, 0)
            /\ (units > n /\ m = 0) => Lists(s, grid, row_wise, n, n, q, 0)
            /\ (units > n /\ m # 0) => Lists(s, grid, row_wise, n, m, q + 1, q)
<1> DEFINE n == grid[1] * grid[2]
           s == SimSplit(grid, units, row_wise)
           used == IF units < n THEN units ELSE n
           more == units % used
           some == IF more > 0 THEN more ELSE used
           List(from, count) == {NthCore(grid, i, row_wise) : i \in from .. from + count - 1}
<1>1. n \in Nat \ {0}
  BY LinesAre
<1>2. s = IF used = 0 THEN Split(0, {}, {}, 0, 0)
          ELSE Split(used, List(0, some), List(some, used - some),
                     IF more > 0 THEN units \div used + 1 ELSE units \div used,
                     IF more > 0 THEN units \div used ELSE 0)
  BY Zenon DEF SimSplit
<1>3. \A a, c \in Nat : List(a, c) = Nth(grid, row_wise, a, a + c)
  <2>1. \A a, c \in Nat : a + c - 1 = (a + c) - 1
    OBVIOUS
  <2> QED BY <2>1, Zenon DEF Nth
<1> HIDE DEF List, n, s
<1>4. used \in Nat \ {0} /\ more \in 0 .. used - 1 /\ some \in 1 .. used
  <2>1. used \in Nat \ {0}
    BY <1>1
  <2> HIDE DEF used
  <2>2. more \in 0 .. used - 1
    BY <2>1
  <2> HIDE DEF more
  <2> QED BY <2>1, <2>2
<1>5. Lists(s, grid, row_wise, used, some,
            IF more > 0 THEN units \div used + 1 ELSE units \div used,
            IF more > 0 THEN units \div used ELSE 0)
  <2> HIDE DEF used, more, some
  <2>1. some \in Nat /\ used - some \in Nat /\ some + (used - some) = used /\ 0 + some = some
    BY <1>4
  <2>2. List(0, some) = Nth(grid, row_wise, 0, some)
        /\ List(some, used - some) = Nth(grid, row_wise, some, used)
    BY <1>3, <2>1
  <2> QED BY <1>2, <1>4, <2>2 DEF Lists, Split
<1> HIDE DEF some
<1>6. ASSUME units <= n PROVE Lists(s, grid, row_wise, units, units, 1, 0)
  <2>1. used = units
    BY <1>1, <1>6
  <2>2. units % units = 0 /\ units \div units = 1
    OBVIOUS
  <2> HIDE DEF used
  <2>3. more = 0 /\ some = units
    BY <2>1, <2>2 DEF some
  <2> HIDE DEF more
  <2> QED BY <1>5, <2>1, <2>2, <2>3
<1>7. ASSUME units > n PROVE used = n
  BY <1>1, <1>7
<1> HIDE DEF used
<1>8. ASSUME units > n, units % n = 0 PROVE Lists(s, grid, row_wise, n, n, units \div n, 0)
  <2>1. more = 0 /\ some = n
    BY <1>7, <1>8 DEF some
  <2> HIDE DEF more
  <2> QED BY <1>5, <1>7, <1>8, <2>1
<1>9. ASSUME units > n, units % n # 0
      PROVE  Lists(s, grid, row_wise, n, units % n, (units \div n) + 1, units \div n)
  <2>1. more > 0 /\ some = more /\ more = units % n
    <3>1. more = units % n
      BY <1>7, <1>9
    <3> HIDE DEF more
    <3> QED BY <1>4, <1>9, <3>1 DEF some
  <2> HIDE DEF more
  <2> QED BY <1>5, <1>7, <1>9, <2>1
<1> QED BY <1>6, <1>8, <1>9 DEF n, s

\* split_work_to_cores of utils returns a split unless the grid is one core.
LEMMA SplitReturned ==
  ASSUME NEW row_wise \in BOOLEAN, NEW grid \in Grid2, NEW units \in Nat \ {0}
  PROVE  IsSplit(SplitWorkToCores(grid, units, row_wise)) <=> grid # <<1, 1>>
<1> DEFINE a == SplitWorkToCores(grid, units, row_wise)
<1>1. /\ grid = <<grid[1], grid[2]>>
      /\ grid[1] = 1 /\ grid[2] = 1 => grid = <<1, 1>>
  BY DEF Grid2
<1>2. \A c, x, y, v, w : IsSplit(Split(c, x, y, v, w))
  BY DEF IsSplit, Split
<1>3. CASE grid = <<1, 1>>
  <2>1. a = NoBranch(units)
    BY <1>3 DEF SplitWorkToCores
  <2> HIDE DEF a
  <2>2. ~IsSplit(a)
    BY <2>1 DEF NoBranch, IsSplit
  <2> QED BY <1>3, <2>2 DEF a
<1>4. CASE grid[1] = 1 /\ grid[2] # 1
  <2>1. grid # <<1, 1>>
    BY <1>4
  <2>2. a = SplitLine(grid[2], units)
    BY <1>4, <2>1 DEF SplitWorkToCores
  <2> HIDE DEF a
  <2>3. IsSplit(a)
    BY <1>2, <2>2 DEF SplitLine
  <2> QED BY <2>1, <2>3 DEF a
<1>5. CASE grid[1] # 1
  <2>1. grid # <<1, 1>>
    BY <1>5
  <2>2. a = SplitGrid(grid, units, row_wise)
    BY <1>5, <2>1 DEF SplitWorkToCores
  <2> HIDE DEF a
  <2>3. IsSplit(a)
    <3> DEFINE n == Turn(grid, row_wise)[1] * Turn(grid, row_wise)[2]
               m == units % n
    <3>1. \E c, x, y, v, w : SplitGrid(grid, units, row_wise) = Split(c, x, y, v, w)
      <4>1. CASE n >= units
        <5>1. n \in Nat
          BY LinesAre
        <5> HIDE DEF n
        <5>2. ~(n < units)
          BY <4>1, <5>1
        <5> QED BY <4>1, <5>2, Zenon DEF SplitGrid, n
      <4>2. CASE ~(n >= units) /\ n < units /\ m = 0
        BY <4>2, Zenon DEF SplitGrid
      <4>3. CASE ~(n >= units) /\ ~(n < units /\ m = 0)
        BY <4>3, Zenon DEF SplitGrid
      <4> QED BY <4>1, <4>2, <4>3, Zenon
    <3> QED BY <1>2, <2>2, <3>1
  <2> QED BY <2>1, <2>3 DEF a
<1> QED BY <1>1, <1>3, <1>4, <1>5

\* Both versions of split_work_to_cores agree, wherever they do: on a grid of
\* one line with more units than cores the one of utils gives out one too many,
\* and on a grid of one core, and on no other, it returns no split.
THEOREM EverySplitsAgree ==
  ASSUME NEW row_wise \in BOOLEAN, NEW grid \in Grid2, NEW units \in Nat \ {0}
  PROVE  SplitsAgree(grid, units, row_wise)
<1> DEFINE n == grid[1] * grid[2]
           a == SplitWorkToCores(grid, units, row_wise)
           b == SimSplit(grid, units, row_wise)
           q == units \div n
           m == units % n
           g1 == Span(a.g1, grid, row_wise)
           g2 == Span(a.g2, grid, row_wise)
           Total(s1, s2, s) == Cardinality(s1) * s.w1 + Cardinality(s2) * s.w2
<1>1. n \in Nat \ {0} /\ grid[1] \in Nat \ {0} /\ grid[2] \in Nat \ {0}
  BY LinesAre DEF Grid2
<1>2. grid[1] = 1 => n = grid[2]
  BY <1>1
<1>3. ASSUME grid # <<1, 1>>
      PROVE  /\ units <= n => Gives(a, grid, row_wise, units, units, 1, 0)
             /\ (units > n /\ grid[1] = 1) => Gives(a, grid, row_wise, n, m + 1, q + 1, q)
             /\ (units > n /\ grid[1] # 1 /\ m = 0) => Gives(a, grid, row_wise, n, n, q, 0)
             /\ (units > n /\ grid[1] # 1 /\ m # 0) => Gives(a, grid, row_wise, n, m, q + 1, q)
  <2>1. CASE grid[1] = 1
    <3>1. a = SplitLine(grid[2], units)
      <4>1. grid[2] # 1
        BY <1>3, <2>1 DEF Grid2
      <4> QED BY <1>3, <2>1, <4>1 DEF SplitWorkToCores
    <3>2. /\ units <= grid[2] => Gives(a, grid, row_wise, units, units, 1, 0)
          /\ units > grid[2] => Gives(a, grid, row_wise, grid[2], (units % grid[2]) + 1,
                                      (units \div grid[2]) + 1, units \div grid[2])
      BY <2>1, <3>1, SplitLineIs
    <3> HIDE DEF a, n
    <3> QED BY <1>2, <2>1, <3>2
  <2>2. CASE grid[1] # 1
    <3>1. a = SplitGrid(grid, units, row_wise)
      BY <1>3, <2>2 DEF SplitWorkToCores
    <3> HIDE DEF a
    <3> QED BY <2>2, <3>1, SplitGridIs
  <2> QED BY <2>1, <2>2
<1>4. /\ units <= n => Lists(b, grid, row_wise, units, units, 1, 0)
      /\ (units > n /\ m = 0) => Lists(b, grid, row_wise, n, n, q, 0)
      /\ (units > n /\ m # 0) => Lists(b, grid, row_wise, n, m, q + 1, q)
  BY SimSplitIs
<1> HIDE DEF a, b, n
<1>5. q \in Nat /\ m \in 0 .. n - 1 /\ units = (q * n) + m
  BY <1>1, OnIs
<1> HIDE DEF q, m
<1>6. ASSUME NEW k \in Nat, NEW x \in Nat, x <= k, NEW w1 \in Nat, NEW w2 \in Nat,
             Lists(b, grid, row_wise, k, x, w1, w2), (x * w1) + ((k - x) * w2) = units
      PROVE  /\ Total(b.g1, b.g2, b) = units /\ b.g1 \intersect b.g2 = {}
             /\ b.g1 \union b.g2 = Nth(grid, row_wise, 0, k) /\ b.cores = k
  <2>1. Cardinality(Nth(grid, row_wise, 0, x)) = x - 0
        /\ Cardinality(Nth(grid, row_wise, x, k)) = k - x
    BY <1>6, NthCount
  <2>2. x - 0 = x
    OBVIOUS
  <2>3. Nth(grid, row_wise, 0, x) \intersect Nth(grid, row_wise, x, k) = {}
        /\ Nth(grid, row_wise, 0, x) \union Nth(grid, row_wise, x, k) = Nth(grid, row_wise, 0, k)
    BY <1>6, NthJoin
  <2>4. b.cores = k /\ b.w1 = w1 /\ b.w2 = w2
        /\ b.g1 = Nth(grid, row_wise, 0, x) /\ b.g2 = Nth(grid, row_wise, x, k)
    BY <1>6 DEF Lists
  <2> QED BY <1>6, <2>1, <2>2, <2>3, <2>4
<1>7. ASSUME NEW k \in Nat, NEW x \in Nat, x <= k, NEW w1 \in Nat, NEW w2 \in Nat,
             Gives(a, grid, row_wise, k, x, w1, w2)
      PROVE  /\ g1 \intersect g2 = {} /\ g1 \union g2 = Nth(grid, row_wise, 0, k) /\ a.cores = k
             /\ Total(g1, g2, a) = (x * w1) + ((k - x) * w2)
  <2>1. Cardinality(Nth(grid, row_wise, 0, x)) = x - 0
        /\ Cardinality(Nth(grid, row_wise, x, k)) = k - x
    BY <1>7, NthCount
  <2>2. x - 0 = x
    OBVIOUS
  <2>3. Nth(grid, row_wise, 0, x) \intersect Nth(grid, row_wise, x, k) = {}
        /\ Nth(grid, row_wise, 0, x) \union Nth(grid, row_wise, x, k) = Nth(grid, row_wise, 0, k)
    BY <1>7, NthJoin
  <2>4. a.cores = k /\ a.w1 = w1 /\ a.w2 = w2
        /\ g1 = Nth(grid, row_wise, 0, x) /\ g2 = Nth(grid, row_wise, x, k)
    BY <1>7 DEF Gives
  <2> HIDE DEF g1, g2
  <2> QED BY <1>7, <2>1, <2>2, <2>3, <2>4
<1>8. n \in Nat /\ n <= n /\ (n * q) + ((n - n) * 0) = n * q /\ q + 1 \in Nat
      /\ n * q = q * n
  BY <1>1, <1>5
<1>9. m \in Nat /\ m <= n /\ (m * (q + 1)) + ((n - m) * q) = units
  <2>1. \A i, j, k \in Nat : (i * (k + 1)) + ((j - i) * k) = (k * j) + i
    OBVIOUS
  <2>2. m \in Nat /\ n \in Nat
    BY <1>5, <1>8
  <2> QED BY <1>5, <2>1, <2>2
<1>10. (units * 1) + ((units - units) * 0) = units /\ units \in Nat /\ units <= units
  OBVIOUS
<1>11. PICK k \in Nat : /\ units <= n => k = units
                        /\ units > n => k = n
                        /\ Total(b.g1, b.g2, b) = units /\ b.g1 \intersect b.g2 = {}
                        /\ b.g1 \union b.g2 = Nth(grid, row_wise, 0, k) /\ b.cores = k
  <2> HIDE DEF Total
  <2>1. CASE units <= n
    BY <1>1, <1>4, <1>6, <1>10, <2>1
  <2>2. CASE units > n
    <3>1. CASE m = 0
      <4>1. (n * q) + ((n - n) * 0) = units /\ 0 \in Nat
        BY <1>5, <1>8, <3>1
      <4>2. Lists(b, grid, row_wise, n, n, q, 0)
        BY <1>4, <2>2, <3>1
      <4> QED BY <1>1, <1>5, <1>6, <1>8, <2>2, <4>1, <4>2
    <3>2. CASE m # 0
      <4>1. Lists(b, grid, row_wise, n, m, q + 1, q)
        BY <1>4, <2>2, <3>2
      <4> QED BY <1>1, <1>5, <1>6, <1>8, <1>9, <2>2, <4>1
    <3> QED BY <3>1, <3>2
  <2> QED BY <1>1, <2>1, <2>2
<1> DEFINE Same  == g1 = b.g1 /\ g2 = b.g2 /\ a.w1 = b.w1 /\ a.w2 = b.w2
           Agree == /\ a.cores = b.cores
                    /\ g1 \union g2 = b.g1 \union b.g2 /\ g1 \intersect g2 = {}
                    /\ IF grid[1] = 1 /\ units > grid[2]
                       THEN Total(g1, g2, a) = units + 1 ELSE Same
<1>12. ASSUME grid # <<1, 1>>, units <= n PROVE Agree
  <2>1. Gives(a, grid, row_wise, units, units, 1, 0)
        /\ Lists(b, grid, row_wise, units, units, 1, 0)
    BY <1>3, <1>4, <1>12
  <2>2. Same
    BY <2>1 DEF Gives, Lists
  <2>3. ~(grid[1] = 1 /\ units > grid[2])
    BY <1>1, <1>2, <1>12
  <2>4. g1 \intersect g2 = {} /\ a.cores = units
    BY <1>7, <1>10, <2>1
  <2> HIDE DEF g1, g2, Total
  <2> QED BY <1>11, <1>12, <2>2, <2>3, <2>4
<1>13. ASSUME grid # <<1, 1>>, units > n, grid[1] # 1 PROVE Agree
  <2>1. CASE m = 0
    <3>1. Gives(a, grid, row_wise, n, n, q, 0) /\ Lists(b, grid, row_wise, n, n, q, 0)
      BY <1>3, <1>4, <1>13, <2>1
    <3>2. Same
      BY <3>1 DEF Gives, Lists
    <3>3. g1 \intersect g2 = {} /\ a.cores = n
      BY <1>5, <1>7, <1>8, <3>1
    <3> HIDE DEF g1, g2, Total
    <3> QED BY <1>11, <1>13, <3>2, <3>3
  <2>2. CASE m # 0
    <3>1. Gives(a, grid, row_wise, n, m, q + 1, q) /\ Lists(b, grid, row_wise, n, m, q + 1, q)
      BY <1>3, <1>4, <1>13, <2>2
    <3>2. Same
      BY <3>1 DEF Gives, Lists
    <3>3. g1 \intersect g2 = {} /\ a.cores = n
      BY <1>5, <1>7, <1>8, <1>9, <3>1
    <3> HIDE DEF g1, g2, Total
    <3> QED BY <1>11, <1>13, <3>2, <3>3
  <2> QED BY <2>1, <2>2
<1>14. ASSUME grid # <<1, 1>>, units > n, grid[1] = 1 PROVE Agree
  <2>1. m + 1 \in Nat /\ m + 1 <= n /\ ((m + 1) * (q + 1)) + ((n - (m + 1)) * q) = units + 1
    <3>1. \A i, j, h \in Nat : ((i + 1) * (h + 1)) + ((j - (i + 1)) * h) = (h * j) + i + 1
      OBVIOUS
    <3>2. m \in Nat /\ n \in Nat /\ m + 1 <= n
      BY <1>5, <1>8
    <3> QED BY <1>5, <3>1, <3>2
  <2>2. Gives(a, grid, row_wise, n, m + 1, q + 1, q)
    BY <1>3, <1>14
  <2> HIDE DEF g1, g2, Total
  <2>3. /\ g1 \intersect g2 = {} /\ g1 \union g2 = Nth(grid, row_wise, 0, n) /\ a.cores = n
        /\ Total(g1, g2, a) = ((m + 1) * (q + 1)) + ((n - (m + 1)) * q)
    BY <1>5, <1>7, <1>8, <2>1, <2>2
  <2>4. grid[1] = 1 /\ units > grid[2]
    BY <1>2, <1>14
  <2> QED BY <1>11, <1>14, <2>1, <2>3, <2>4
<1>15. grid # <<1, 1>> => Agree
  BY <1>1, <1>12, <1>13, <1>14
<1>16. IsSplit(a) <=> grid # <<1, 1>>
  BY SplitReturned DEF a
<1> QED BY <1>11, <1>15, <1>16 DEF SplitsAgree, a, b

\* Every range of cores and every split of work among the calls.
THEOREM SplitsHold == Spec => []Splits
<1> DEFINE I == call \in Calls \union {Idle}
<1>1. ASSUME I PROVE Splits
  <2>1. ASSUME call.f = "ranges", call.from < call.line
        PROVE  RangesExact(<<0, call.from>>, call.target, call.lines, call.line)
    <3>1. call.line \in Nat \ {0} /\ call.from \in Nat /\ call.target \in Nat
      <4>1. call \in [f : {"ranges"}, line : 1 .. MaxGrid + 1, lines : {MaxGrid + 1},
                      from : 0 .. MaxGrid, target : 1 .. MaxUnits]
        BY <1>1, <2>1, CallIs
      <4> QED BY <4>1, BoundsAssumption
    <3>2. call.from \in 0 .. call.line - 1
      BY <2>1, <3>1
    <3> QED BY <3>1, <3>2, EveryRangesExact
  <2>2. ASSUME call.f = "split" PROVE SplitsAgree(call.grid, call.units, call.row_wise)
    <3>1. call.grid \in Sizes \X Sizes /\ call.units \in 1 .. MaxUnits /\ call.row_wise \in BOOLEAN
      <4>1. call \in [f : {"split"}, grid : Sizes \X Sizes, units : 1 .. MaxUnits,
                      row_wise : BOOLEAN]
        BY <1>1, <2>2, CallIs
      <4> QED BY <4>1
    <3>2. call.grid \in Grid2 /\ call.units \in Nat \ {0}
      BY <3>1, BoundsAssumption DEF Sizes, Grid2
    <3> QED BY <3>1, <3>2, EverySplitsAgree
  <2> QED BY <2>1, <2>2 DEF Splits
<1> HIDE DEF I
<1>2. Spec => []I
  BY Called DEF I
<1> QED BY <1>1, <1>2, PTL

-----------------------------------------------------------------------------
(* Blocks of a matrix product (WorkSplit).                                 *)

\* The divisors of a number, and of its divisors.
LEMMA DivisorsAre ==
  ASSUME NEW n \in Nat \ {0}
  PROVE  /\ Divisors(n) \in SUBSET (Nat \ {0}) /\ 1 \in Divisors(n)
         /\ \A d \in Divisors(n) : d <= n /\ n % d = 0 /\ n = d * (n \div d)
         /\ \A a, b \in Nat \ {0} : a * b = n => a \in Divisors(n) /\ n \div a = b
<1>1. \A d \in Nat \ {0} : n % d = 0 => n = d * (n \div d)
  OBVIOUS
<1>2. n % 1 = 0 /\ 1 \in 1 .. n
  OBVIOUS
<1>3. ASSUME NEW a \in Nat \ {0}, NEW b \in Nat \ {0}, a * b = n
      PROVE  a \in Divisors(n) /\ n \div a = b
  <2>1. n % a = 0 /\ n \div a = b
    <3>1. \A x, y \in Nat \ {0} : (x * y) % x = 0 /\ (x * y) \div x = y
      OBVIOUS
    <3> QED BY <1>3, <3>1
  <2>2. a <= n
    <3>1. \A x, y \in Nat \ {0} : x <= x * y
      OBVIOUS
    <3> QED BY <1>3, <3>1
  <2> QED BY <2>1, <2>2 DEF Divisors
<1> QED BY <1>1, <1>2, <1>3 DEF Divisors

\* A bounded nonempty set has a greatest element, and it is the one chosen.
LEMMA GreatestIs ==
  ASSUME NEW T \in SUBSET Nat, T # {}, NEW n \in Nat, \A c \in T : c <= n
  PROVE  LET g == CHOOSE c \in T : \A d \in T : d <= c
         IN g \in T /\ \A d \in T : d <= g
<1>1. \E c \in T : \A d \in T : d <= c
  BY MaxIs
<1> QED BY <1>1

\* Smooth(n, limit) divides n, and so does Large(n, limit), whatever divisor of
\* the former it is multiplied with.
LEMMA SmoothIs ==
  ASSUME NEW n \in Nat \ {0}, NEW limit \in Int
  PROVE  /\ Smooth(n, limit) \in Divisors(n) /\ Large(n, limit) \in Divisors(n)
         /\ \A d \in Divisors(Smooth(n, limit)) : d * Large(n, limit) \in Divisors(n)
<1> DEFINE free == {d \in Divisors(n) : \A p \in Divisors(d) : IsPrime(p) => p <= limit}
           s == Smooth(n, limit)
           l == Large(n, limit)
<1>1. Divisors(1) = {1} /\ ~IsPrime(1)
  BY DEF Divisors, IsPrime
<1>2. 1 \in free
  BY <1>1, DivisorsAre
<1>3. free \in SUBSET Nat /\ \A c \in free : c <= n
  BY DivisorsAre
<1>4. s \in free
  <2>1. s = CHOOSE d \in free : \A e \in free : e <= d
    BY DEF Smooth
  <2> HIDE DEF free, s
  <2> QED BY <1>2, <1>3, <2>1, GreatestIs
<1>5. s \in Divisors(n) /\ s \in Nat \ {0} /\ l = n \div s /\ n = s * l
  <2>1. s \in Divisors(n)
    BY <1>4
  <2>2. l = n \div s
    BY DEF Large
  <2> HIDE DEF s, l
  <2> QED BY <2>1, <2>2, DivisorsAre
<1> HIDE DEF s, l
<1>6. l \in Nat \ {0} /\ l \in Divisors(n)
  <2>1. l \in Nat
    BY <1>5
  <2>2. l # 0
    BY <1>5
  <2>3. l * s = n
    BY <1>5, <2>1
  <2> QED BY <1>5, <2>1, <2>2, <2>3, DivisorsAre
<1>7. ASSUME NEW d \in Divisors(s) PROVE d * l \in Divisors(n)
  <2>1. d \in Nat \ {0} /\ s = d * (s \div d)
    BY <1>5, <1>7, DivisorsAre
  <2> DEFINE e == s \div d
  <2>2. e \in Nat \ {0}
    <3>1. e \in Nat
      BY <1>5, <2>1
    <3>2. e # 0
      <4> HIDE DEF e
      <4>1. \A x \in Nat : x * 0 = 0
        OBVIOUS
      <4>2. s = d * e
        BY <2>1 DEF e
      <4> QED BY <1>5, <2>1, <4>1, <4>2
    <3> QED BY <3>1, <3>2
  <2>3. s = d * e
    BY <2>1
  <2> HIDE DEF e
  <2>4. \A x, y, z \in Nat \ {0} : (x * z) * y = (x * y) * z /\ x * z \in Nat \ {0}
    OBVIOUS
  <2>5. (d * l) * e = n /\ d * l \in Nat \ {0}
    BY <1>5, <1>6, <2>1, <2>2, <2>3, <2>4
  <2> QED BY <2>2, <2>5, DivisorsAre
<1> QED BY <1>5, <1>6, <1>7 DEF s, l

\* The largest choice up to a limit.
LEMMA LargestIs ==
  ASSUME NEW choices \in SUBSET Nat, NEW n \in Nat, \A c \in choices : c <= n,
         NEW limit \in Int, NEW old
  PROVE  /\ (\E c \in choices : c <= limit) =>
              Largest(choices, limit, old) \in choices /\ Largest(choices, limit, old) <= limit
         /\ ~(\E c \in choices : c <= limit) => Largest(choices, limit, old) = old
<1> DEFINE fit == {c \in choices : c <= limit}
           best == CHOOSE c \in fit : \A d \in fit : d <= c
<1>1. Largest(choices, limit, old) = IF fit = {} THEN old ELSE best
  BY DEF Largest
<1>2. fit # {} => best \in fit
  <2>1. fit \in SUBSET Nat /\ \A c \in fit : c <= n
    OBVIOUS
  <2> HIDE DEF fit
  <2> QED BY <2>1, GreatestIs
<1> HIDE DEF best
<1> QED BY <1>1, <1>2

\* What fits beside d, by the budget.
LEMMA BudgetIs ==
  ASSUME NEW d \in Nat \ {0}, NEW k \in Nat, NEW c \in Nat \ {0}
  PROVE  /\ MaximumBlockDim(d, k) \in Nat
         /\ c <= MaximumBlockDim(d, k) <=> TilesUsed(d, c, k) <= Budget
         /\ TilesUsed(d, c, k) = TilesUsed(c, d, k)
<1> DEFINE x == 400 - (2 * k * d)
           b == 2 * k + d
           o == x \div b
<1>1. x \in Int /\ b \in Nat \ {0}
  <2>1. \A i, j \in Nat : 2 * i * j \in Nat /\ 2 * i \in Nat
    OBVIOUS
  <2> QED BY <2>1
<1>2. MaximumBlockDim(d, k) = IF o > 0 THEN o ELSE 0
  BY DEF MaximumBlockDim, Budget
<1>3. TilesUsed(d, c, k) = (2 * k * d) + (c * b) /\ TilesUsed(d, c, k) = TilesUsed(c, d, k)
  <2>1. \A i, j, l \in Nat : (2 * i * j) + (2 * i * l) + (j * l) = (2 * i * j) + (l * (2 * i + j))
    OBVIOUS
  <2>2. \A i, j, l \in Nat : (2 * i * j) + (2 * i * l) + (j * l) = (2 * i * l) + (2 * i * j) + (l * j)
    OBVIOUS
  <2>3. TilesUsed(d, c, k) = (2 * k * d) + (2 * k * c) + (d * c)
    BY DEF TilesUsed
  <2>4. TilesUsed(c, d, k) = (2 * k * c) + (2 * k * d) + (c * d)
    BY DEF TilesUsed
  <2> QED BY <2>1, <2>2, <2>3, <2>4
<1>4. TilesUsed(d, c, k) <= 400 <=> c * b <= x
  <2>1. \A i, j \in Nat : 2 * i * j \in Nat
    OBVIOUS
  <2>2. 2 * k * d \in Nat
    BY <2>1
  <2>3. c * b \in Int
    <3> HIDE DEF b
    <3> QED BY <1>1
  <2> DEFINE u == 2 * k * d
             v == c * b
  <2>4. u \in Nat /\ v \in Int /\ x = 400 - u /\ TilesUsed(d, c, k) = u + v
    BY <1>3, <2>2, <2>3
  <2> HIDE DEF u, v, x
  <2>5. TilesUsed(d, c, k) <= 400 <=> v <= x
    BY <2>4
  <2> QED BY <2>5 DEF v
<1> HIDE DEF x, b
<1>5. c * b <= x <=> c <= o
  <2>1. o \in Int /\ b * o <= x /\ x < b * (o + 1)
    BY <1>1
  <2> HIDE DEF o
  <2>2. ASSUME c <= o PROVE c * b <= x
    <3>1. \A i, j \in Int, m \in Nat : i <= j => i * m <= m * j
      OBVIOUS
    <3>2. c * b <= b * o
      BY <1>1, <2>1, <2>2, <3>1
    <3>3. c * b \in Int /\ b * o \in Int
      BY <1>1, <2>1
    <3> QED BY <1>1, <2>1, <3>2, <3>3
  <2>3. ASSUME c > o PROVE ~(c * b <= x)
    <3>1. \A i, j \in Int, m \in Nat : i <= j => m * i <= j * m
      OBVIOUS
    <3>2. o + 1 <= c /\ o + 1 \in Int
      BY <2>1, <2>3
    <3>3. b * (o + 1) <= c * b
      BY <1>1, <3>1, <3>2
    <3>4. c * b \in Int /\ b * (o + 1) \in Int
      BY <1>1, <2>1
    <3> QED BY <1>1, <2>1, <3>3, <3>4
  <2> QED BY <2>1, <2>2, <2>3
<1>6. o \in Int
  BY <1>1
<1> HIDE DEF o
<1>7. c <= o <=> c <= MaximumBlockDim(d, k)
  BY <1>2, <1>6
<1>8. MaximumBlockDim(d, k) \in Nat
  BY <1>2, <1>6
<1> QED BY <1>3, <1>4, <1>5, <1>7, <1>8 DEF Budget

\* The subblock of a block divides it, and fits into DST.
LEMMA ParamsAre ==
  ASSUME NEW m \in Nat \ {0}, NEW n \in Nat \ {0}
  PROVE  LET p == Params(m, n)
         IN /\ p.block_h = m /\ p.block_w = n
            /\ p.subblock \in Nat \X Nat
            /\ m % p.subblock[1] = 0 /\ n % p.subblock[2] = 0
            /\ p.subblock[1] * p.subblock[2] <= 8
            /\ p = [block_h |-> m, block_w |-> n, subblock |-> p.subblock]
<1> DEFINE ok == {i \in 1 .. Len(SubblockChoices) :
                    m % SubblockChoices[i][1] = 0 /\ n % SubblockChoices[i][2] = 0}
           i == IF ok # {} THEN Min(ok) ELSE 0
           s == SubblockChoices[i]
<1>1. Len(SubblockChoices) = 20 /\ SubblockChoices[20] = <<1, 1>>
  BY DEF SubblockChoices
<1>2. \A j \in 1 .. 20 : /\ SubblockChoices[j] \in Nat \X Nat
                         /\ SubblockChoices[j][1] * SubblockChoices[j][2] <= 8
  <2>1. \A j \in 1 .. 20 : j = 1 \/ j = 2 \/ j = 3 \/ j = 4 \/ j = 5 \/ j = 6 \/ j = 7 \/ j = 8
          \/ j = 9 \/ j = 10 \/ j = 11 \/ j = 12 \/ j = 13 \/ j = 14 \/ j = 15 \/ j = 16
          \/ j = 17 \/ j = 18 \/ j = 19 \/ j = 20
    OBVIOUS
  <2> QED BY <2>1 DEF SubblockChoices
<1>3. 20 \in ok
  <2>1. m % 1 = 0 /\ n % 1 = 0
    OBVIOUS
  <2> QED BY <1>1, <2>1
<1>4. Params(m, n) = [block_h |-> m, block_w |-> n, subblock |-> s]
  BY DEF Params, SelectInSeq
<1>5. i \in ok
  <2>1. ok \in SUBSET Nat
    BY <1>1
  <2> HIDE DEF ok
  <2> QED BY <1>3, <2>1, MinIs
<1>6. i \in 1 .. 20 /\ m % s[1] = 0 /\ n % s[2] = 0
  <2> HIDE DEF i
  <2> QED BY <1>1, <1>5
<1> HIDE DEF i, ok
<1>7. s \in Nat \X Nat /\ s[1] * s[2] <= 8
  BY <1>2, <1>6
<1> HIDE DEF s
<1> QED BY <1>4, <1>6, <1>7

\* Blocks that divide the matrix, and fit on the grid, cover it.
LEMMA BlocksCover ==
  ASSUME NEW Mt \in Nat \ {0}, NEW Nt \in Nat \ {0}, NEW cores_y, NEW cores_x,
         NEW m \in Divisors(Mt), NEW n \in Divisors(Nt), OnGrid(Mt, Nt, m, n, cores_y, cores_x)
  PROVE  Covers(Params(m, n), Mt, Nt, cores_y, cores_x)
<1>1. m \in Nat \ {0} /\ n \in Nat \ {0} /\ Mt % m = 0 /\ Nt % n = 0
  BY DivisorsAre
<1> DEFINE p == Params(m, n)
<1>2. /\ p.block_h = m /\ p.block_w = n
      /\ m % p.subblock[1] = 0 /\ n % p.subblock[2] = 0
      /\ p.subblock[1] * p.subblock[2] <= 8
  BY <1>1, ParamsAre
<1>3. Mt \div m <= cores_y /\ Nt \div n <= cores_x
  BY DEF OnGrid
<1> HIDE DEF p
<1>4. Covers(p, Mt, Nt, cores_y, cores_x)
  BY <1>1, <1>2, <1>3, Zenon DEF Covers
<1> QED BY <1>4 DEF p

\* The parameters of a matrix product that cover the matrix, or none.
Found(Mt, Nt, cores_y, cores_x) ==
  {q \in [block_h : Nat, block_w : Nat, subblock : Nat \X Nat] :
     q # NoParams => Covers(q, Mt, Nt, cores_y, cores_x)}

\* Blocks that divide the matrix and fit on the grid are such parameters.
LEMMA ParamsFound ==
  ASSUME NEW Mt \in Nat \ {0}, NEW Nt \in Nat \ {0}, NEW cores_y, NEW cores_x,
         NEW m \in Divisors(Mt), NEW n \in Divisors(Nt), OnGrid(Mt, Nt, m, n, cores_y, cores_x)
  PROVE  Params(m, n) \in Found(Mt, Nt, cores_y, cores_x)
<1>1. m \in Nat \ {0} /\ n \in Nat \ {0}
  BY DivisorsAre
<1> DEFINE p == Params(m, n)
<1>2. p.subblock \in Nat \X Nat /\ p = [block_h |-> m, block_w |-> n, subblock |-> p.subblock]
  BY <1>1, ParamsAre
<1>3. Covers(p, Mt, Nt, cores_y, cores_x)
  BY BlocksCover
<1> HIDE DEF p
<1>4. p \in [block_h : Nat, block_w : Nat, subblock : Nat \X Nat]
  <2> DEFINE s == p.subblock
  <2>1. s \in Nat \X Nat /\ p = [block_h |-> m, block_w |-> n, subblock |-> s]
    BY <1>2
  <2> HIDE DEF s
  <2> QED BY <1>1, <2>1
<1> QED BY <1>3, <1>4 DEF Found, p

\* The search keeps a height that divides, and finds blocks that cover.
LEMMA SearchFinds ==
  ASSUME NEW Mt \in Nat \ {0}, NEW Nt \in Nat \ {0}, NEW cores_y, NEW cores_x, NEW k \in Nat
  PROVE  SearchWidths(Mt, Nt, cores_y, cores_x, k) \in Found(Mt, Nt, cores_y, cores_x)
<1> DEFINE F == Found(Mt, Nt, cores_y, cores_x)
           V == [Mpc : Divisors(Mt), found : F]
           Height(s, n) == Largest(Divisors(Mt), MaximumBlockDim(n, k), s.Mpc)
           Tried(s, n) ==
             IF s.found # NoParams \/ n \notin Divisors(Nt) THEN s
             ELSE [Mpc   |-> Height(s, n),
                   found |-> IF OnGrid(Mt, Nt, Height(s, n), n, cores_y, cores_x)
                             THEN Params(Height(s, n), n) ELSE NoParams]
           b == [Mpc |-> 1, found |-> NoParams]
           seq == [n \in 1 .. Nt |-> n]
           it == CHOOSE it : it = [T \in SUBSET (1 .. Nt) |->
                   IF T = {} THEN b ELSE Tried(it[T \ {Max(T)}], seq[Max(T)])]
           G == [e \in (1 .. Nt) \X V |-> Tried(e[2], e[1])]
<1>1. NoParams \in F
  BY DEF NoParams, Found
<1>2. b \in V
  <2>1. 1 \in Divisors(Mt)
    BY DivisorsAre
  <2> HIDE DEF F
  <2> QED BY <1>1, <2>1
<1>3. ASSUME NEW s \in V, NEW n \in 1 .. Nt PROVE Tried(s, n) \in V
  <2>1. CASE s.found # NoParams \/ n \notin Divisors(Nt)
    BY <2>1
  <2>2. CASE ~(s.found # NoParams \/ n \notin Divisors(Nt))
    <3>1. Height(s, n) \in Divisors(Mt)
      <4>1. n \in Nat \ {0}
        OBVIOUS
      <4>2. MaximumBlockDim(n, k) \in Int
        BY <4>1, BudgetIs
      <4>3. Divisors(Mt) \in SUBSET Nat /\ \A c \in Divisors(Mt) : c <= Mt
        BY DivisorsAre
      <4>4. s.Mpc \in Divisors(Mt)
        OBVIOUS
      <4> QED BY <4>2, <4>3, <4>4, LargestIs
    <3> DEFINE m == Height(s, n)
               q == IF OnGrid(Mt, Nt, m, n, cores_y, cores_x) THEN Params(m, n) ELSE NoParams
    <3>2. q \in F
      <4> HIDE DEF m
      <4> QED BY <1>1, <2>2, <3>1, ParamsFound DEF m
    <3>3. Tried(s, n) = [Mpc |-> m, found |-> q]
      BY <2>2
    <3> HIDE DEF m, q, F, Tried
    <3> QED BY <3>1, <3>2, <3>3 DEF m
  <2> QED BY <2>1, <2>2
<1>4. SearchWidths(Mt, Nt, cores_y, cores_x, k) = it[1 .. Nt].found
  <2>1. DOMAIN seq = 1 .. Nt
    OBVIOUS
  <2> HIDE DEF seq
  <2> QED BY <2>1, Zenon DEF SearchWidths, FoldLeft, MapThenFoldSet, seq
<1> HIDE DEF V, Tried, b, seq
<1>5. G \in [(1 .. Nt) \X V -> V]
  BY <1>3
<1>6. PICK f : LeftFolds(f, Nt, V, b, G)
  <2> HIDE DEF G
  <2> QED BY <1>2, <1>5, LeftFoldExists
<1>7. f = [T \in SUBSET (1 .. Nt) |->
             IF T = {} THEN b ELSE Tried(f[T \ {Max(T)}], seq[Max(T)])]
  <2>1. ASSUME NEW T \in SUBSET (1 .. Nt), T # {}
        PROVE  G[<<Max(T), f[T \ {Max(T)}]>>] = Tried(f[T \ {Max(T)}], seq[Max(T)])
    <3>1. T \in SUBSET Nat /\ \A i \in T : i <= Nt
      OBVIOUS
    <3>2. Max(T) \in 1 .. Nt
      BY <2>1, <3>1, MaxIs
    <3>3. f[T \ {Max(T)}] \in V
      BY <1>6 DEF LeftFolds
    <3>4. seq[Max(T)] = Max(T)
      BY <3>2 DEF seq
    <3> QED BY <3>2, <3>3, <3>4
  <2> HIDE DEF G
  <2> QED BY <1>6, <2>1, Zenon DEF LeftFolds
<1>8. it = [T \in SUBSET (1 .. Nt) |->
              IF T = {} THEN b ELSE Tried(it[T \ {Max(T)}], seq[Max(T)])]
  BY <1>7, Zenon
<1> HIDE DEF it, G
<1>9. it[1 .. 0] = b
  <2>1. 1 .. 0 = {} /\ {} \in SUBSET (1 .. Nt)
    OBVIOUS
  <2> QED BY <1>8, <2>1
<1>10. ASSUME NEW i \in 1 .. Nt PROVE it[1 .. i] = Tried(it[1 .. i - 1], i)
  <2>1. Max(1 .. i) = i /\ (1 .. i) \ {i} = 1 .. i - 1 /\ 1 .. i # {}
    BY InitialParts
  <2>2. 1 .. i \in SUBSET (1 .. Nt) /\ seq[i] = i
    BY DEF seq
  <2>3. it[1 .. i] = Tried(it[(1 .. i) \ {Max(1 .. i)}], seq[Max(1 .. i)])
    BY <1>8, <2>1, <2>2
  <2> QED BY <2>1, <2>2, <2>3
<1> DEFINE S == {i \in Nat : i <= Nt => it[1 .. i] \in V}
<1>11. 0 \in S
  BY <1>2, <1>9
<1>12. ASSUME NEW i \in Nat, i \in S PROVE i + 1 \in S
  <2>1. SUFFICES ASSUME i + 1 <= Nt PROVE it[1 .. i + 1] \in V
    OBVIOUS
  <2>2. i + 1 \in 1 .. Nt /\ (i + 1) - 1 = i /\ it[1 .. i] \in V
    BY <1>12, <2>1
  <2>3. it[1 .. i + 1] = Tried(it[1 .. i], i + 1)
    BY <1>10, <2>2
  <2> QED BY <1>3, <2>2, <2>3
<1>13. Nat \subseteq S
  <2> HIDE DEF S
  <2> QED BY <1>11, <1>12, NumberInduction
<1>14. it[1 .. Nt] \in V
  BY <1>13
<1>15. it[1 .. Nt].found \in F
  <2> HIDE DEF F
  <2> QED BY <1>14 DEF V
<1> QED BY <1>4, <1>15

\* The heights or widths to choose from, when `min` is what every core has to
\* handle and the other dimension leaves room for it.
LEMMA GrownIs ==
  ASSUME NEW n \in Nat \ {0}, NEW cores \in Int, NEW room \in Int, Large(n, cores) <= room
  PROVE  LET c == Largest({d * Large(n, cores) : d \in Divisors(Smooth(n, cores))}, room,
                          Large(n, cores))
         IN c \in Divisors(n) /\ c <= room
<1> DEFINE choices == {d * Large(n, cores) : d \in Divisors(Smooth(n, cores))}
<1>1. choices \subseteq Divisors(n) /\ Large(n, cores) \in Divisors(n)
  BY SmoothIs
<1>2. choices \in SUBSET Nat /\ \A c \in choices : c <= n
  BY <1>1, DivisorsAre
<1>3. Large(n, cores) \in choices
  <2>1. Smooth(n, cores) \in Nat \ {0} /\ Large(n, cores) \in Nat
    BY SmoothIs, DivisorsAre
  <2>2. 1 \in Divisors(Smooth(n, cores))
    BY <2>1, DivisorsAre
  <2>3. 1 * Large(n, cores) = Large(n, cores)
    BY <2>1
  <2> QED BY <2>2, <2>3
<1> HIDE DEF choices
<1>4. Largest(choices, room, Large(n, cores)) \in choices
      /\ Largest(choices, room, Large(n, cores)) <= room
  BY <1>2, <1>3, LargestIs
<1> QED BY <1>1, <1>4 DEF choices

\* Whatever is returned covers the matrix, and fits where no search is needed.
THEOREM EveryMatmulIsCovered ==
  ASSUME NEW Mt \in Nat \ {0}, NEW Nt \in Nat \ {0}, NEW cores_y \in Int, NEW cores_x \in Int,
         NEW k \in Nat
  PROVE  MatmulCovers(Mt, Nt, cores_y, cores_x, k)
<1> DEFINE Nmin == Large(Nt, cores_x)
           Mmin == Large(Mt, cores_y)
           Checked(m, n) ==
             IF OnGrid(Mt, Nt, m, n, cores_y, cores_x) THEN Params(m, n) ELSE NoParams
           wide == Largest({d * Nmin : d \in Divisors(Smooth(Nt, cores_x))},
                           MaximumBlockDim(Mmin, k), Nmin)
           high == Largest({d * Mmin : d \in Divisors(Smooth(Mt, cores_y))},
                           MaximumBlockDim(Nmin, k), Mmin)
           p == LargeMatmulParams(Mt, Nt, cores_y, cores_x, k)
           Good(q) == q # NoParams => /\ Covers(q, Mt, Nt, cores_y, cores_x)
                                      /\ Mmin > 1 \/ Nmin > 1 => InBudget(q, k)
<1>1. p = CASE Nmin > MaximumBlockDim(Mmin, k) -> NoParams
            [] Nmin <= MaximumBlockDim(Mmin, k) /\ Mmin > 1 -> Checked(Mmin, wide)
            [] Nmin <= MaximumBlockDim(Mmin, k) /\ Mmin = 1 /\ Nmin > 1 -> Checked(high, Nmin)
            [] OTHER -> SearchWidths(Mt, Nt, cores_y, cores_x, k)
  BY Zenon DEF LargeMatmulParams
<1>2. Nmin \in Divisors(Nt) /\ Nmin \in Nat \ {0} /\ Mmin \in Divisors(Mt) /\ Mmin \in Nat \ {0}
  BY SmoothIs, DivisorsAre
<1>3. Nmin <= MaximumBlockDim(Mmin, k) => wide \in Divisors(Nt) /\ wide <= MaximumBlockDim(Mmin, k)
  <2>1. MaximumBlockDim(Mmin, k) \in Int
    <3> HIDE DEF Mmin
    <3> QED BY <1>2, BudgetIs
  <2> QED BY <2>1, GrownIs
<1>4. Mmin <= MaximumBlockDim(Nmin, k) => high \in Divisors(Mt) /\ high <= MaximumBlockDim(Nmin, k)
  <2>1. MaximumBlockDim(Nmin, k) \in Int
    <3> HIDE DEF Nmin
    <3> QED BY <1>2, BudgetIs
  <2> QED BY <2>1, GrownIs
<1>5. ASSUME NEW m \in Divisors(Mt), NEW n \in Divisors(Nt), TilesUsed(m, n, k) <= Budget
      PROVE  Good(Checked(m, n))
  <2>1. m \in Nat \ {0} /\ n \in Nat \ {0}
    BY DivisorsAre
  <2>2. CASE OnGrid(Mt, Nt, m, n, cores_y, cores_x)
    <3> DEFINE q == Params(m, n)
    <3>1. Covers(q, Mt, Nt, cores_y, cores_x)
      BY <2>2, BlocksCover
    <3>2. q.block_h = m /\ q.block_w = n
      BY <2>1, ParamsAre
    <3> HIDE DEF q
    <3>3. InBudget(q, k)
      BY <1>5, <3>2 DEF InBudget
    <3>4. Checked(m, n) = q
      BY <2>2 DEF q
    <3> QED BY <3>1, <3>3, <3>4
  <2>3. CASE ~OnGrid(Mt, Nt, m, n, cores_y, cores_x)
    BY <2>3
  <2> QED BY <2>2, <2>3
<1> HIDE DEF wide, high, p, Checked, Nmin, Mmin
<1>6. CASE Nmin > MaximumBlockDim(Mmin, k)
  <2>1. MaximumBlockDim(Mmin, k) \in Nat
    BY <1>2, BudgetIs
  <2>2. p = NoParams
    BY <1>1, <1>2, <1>6, <2>1
  <2> QED BY <2>2 DEF MatmulCovers, p
<1>7. CASE Nmin <= MaximumBlockDim(Mmin, k) /\ Mmin > 1
  <2>1. p = Checked(Mmin, wide)
    <3>1. MaximumBlockDim(Mmin, k) \in Nat
      BY <1>2, BudgetIs
    <3> QED BY <1>1, <1>2, <1>7, <3>1
  <2>2. wide \in Divisors(Nt) /\ wide \in Nat \ {0}
    BY <1>3, <1>7, DivisorsAre
  <2>3. TilesUsed(Mmin, wide, k) <= Budget
    BY <1>2, <1>3, <1>7, <2>2, BudgetIs
  <2>4. Good(p)
    <3> HIDE DEF Good
    <3> QED BY <1>2, <1>5, <2>1, <2>2, <2>3
  <2> QED BY <2>4 DEF MatmulCovers, p, Mmin, Nmin
<1>8. CASE Nmin <= MaximumBlockDim(Mmin, k) /\ Mmin = 1 /\ Nmin > 1
  <2>1. p = Checked(high, Nmin)
    <3>1. MaximumBlockDim(Mmin, k) \in Nat
      BY <1>2, BudgetIs
    <3> QED BY <1>1, <1>2, <1>8, <3>1
  <2>2. Mmin <= MaximumBlockDim(Nmin, k)
    <3>1. TilesUsed(Mmin, Nmin, k) <= Budget /\ TilesUsed(Mmin, Nmin, k) = TilesUsed(Nmin, Mmin, k)
      BY <1>2, <1>8, BudgetIs
    <3> QED BY <1>2, <3>1, BudgetIs
  <2>3. high \in Divisors(Mt) /\ high \in Nat \ {0}
    BY <1>4, <2>2, DivisorsAre
  <2>4. TilesUsed(high, Nmin, k) <= Budget
    <3>1. TilesUsed(Nmin, high, k) <= Budget /\ TilesUsed(Nmin, high, k) = TilesUsed(high, Nmin, k)
      BY <1>2, <1>4, <2>2, <2>3, BudgetIs
    <3> QED BY <3>1
  <2>5. Good(p)
    <3> HIDE DEF Good
    <3> QED BY <1>2, <1>5, <2>1, <2>3, <2>4
  <2> QED BY <2>5 DEF MatmulCovers, p, Mmin, Nmin
<1>9. CASE Nmin <= MaximumBlockDim(Mmin, k) /\ Mmin = 1 /\ Nmin = 1
  <2>1. p = SearchWidths(Mt, Nt, cores_y, cores_x, k)
    <3>1. MaximumBlockDim(Mmin, k) \in Nat
      BY <1>2, BudgetIs
    <3> QED BY <1>1, <1>2, <1>9, <3>1
  <2>2. p \in Found(Mt, Nt, cores_y, cores_x)
    BY <2>1, SearchFinds
  <2>3. Good(p)
    BY <1>9, <2>2 DEF Found
  <2> QED BY <2>3 DEF MatmulCovers, p, Mmin, Nmin
<1>10. MaximumBlockDim(Mmin, k) \in Nat
  BY <1>2, BudgetIs
<1> QED BY <1>2, <1>6, <1>7, <1>8, <1>9, <1>10

\* The blocks of the calls cover their matrices.
THEOREM BlocksHold == Spec => []Blocks
<1> DEFINE I == call \in Calls \union {Idle}
<1>1. ASSUME I PROVE Blocks
  <2>1. ASSUME call.f = "matmul" PROVE MatmulCovers(call.Mt, call.Nt, call.y, call.x, call.k)
    <3>1. call.Mt \in Nat \ {0} /\ call.Nt \in Nat \ {0} /\ call.y \in Int /\ call.x \in Int
          /\ call.k \in Nat
      <4>1. call \in [f : {"matmul"}, Mt : {1, 4, 6, 11, 22}, Nt : {1, 8, 12, 26, 64},
                      y : {1, 2, 8}, x : {2, 8}, k : {1, 4, 8}]
        BY <1>1, <2>1, CallIs
      <4> QED BY <4>1
    <3> QED BY <3>1, EveryMatmulIsCovered
  <2> QED BY <2>1 DEF Blocks
<1> HIDE DEF I
<1>2. Spec => []I
  BY Called DEF I
<1> QED BY <1>1, <1>2, PTL
=============================================================================
