---------------------------- MODULE KernelLaunch ----------------------------
(***************************************************************************)
(* A @ttl.kernel from a call to the descriptors of a launch                *)
(* (python/ttl/ttl_api.py, circular_buffer.py, kernel_runner.py): what is  *)
(* compiled for a call, what the cache of compiled kernels gives to the    *)
(* next call, and what the kernels of a launch read.  A tensor has an id,  *)
(* which stands for its address, and the properties that compilation asks  *)
(* for; dtype stands for the shape as well.                                *)
(*                                                                         *)
(* A kernel function creates buffers, buffers[b] like the argument of that *)
(* number, and registers threads, which capture arguments and buffers.     *)
(***************************************************************************)
EXTENDS Integers, FiniteSetsExt, SequencesExt

CONSTANTS Unset,   \* None, for an option that is not given
          Error    \* an exception

-----------------------------------------------------------------------------
(* Compilation.                                                            *)

\* Mutant: the key forgets what tensors contain.
CacheKeyPlaces(args) == [i \in DOMAIN args |-> <<args[i].space, args[i].layout>>]

\* _make_cache_key: properties of the tensors; the options are those of the
\* decorator.
CacheKey(args) == [i \in DOMAIN args |-> <<args[i].dtype, args[i].space, args[i].layout>>]

\* The global index of a tensor is the last it is registered with: one that is
\* passed twice has one.
GlobalIndex(args, t) == Max({i \in DOMAIN args : args[i].id = t.id})

\* computeCTAIndex: accessors come after all buffers that were created.
CTAIndex(k, args, t) == Len(k.buffers) + GlobalIndex(args, t)

Captured(k) == UNION {k.threads[i].buffers : i \in DOMAIN k.threads}

\* Configurations up to the last buffer that a thread captures.
BufferConfigs(k, args) ==
  [b \in 1 .. Max(Captured(k) \union {0}) |->
     IF b \in Captured(k) THEN args[k.buffers[b]].dtype ELSE Unset]

\* One compute and two data movement threads, on tilized interleaved tensors.
Compilable(k, args) ==
  /\ Len(k.threads) = 3
  /\ \A i \in DOMAIN args : args[i].layout = "tile" /\ args[i].interleaved

\* The code of a thread: for each tensor it captures, where the common runtime
\* arguments hold its address and the compile-time arguments its accessor, and
\* the pages it assumes.
CompiledThread(k, th, args) ==
  LET tensor(j) == args[th.tensors[j]]
  IN [type    |-> th.type,
      indices |-> [j \in DOMAIN th.tensors |-> GlobalIndex(args, tensor(j))],
      cta     |-> [j \in DOMAIN th.tensors |-> CTAIndex(k, args, tensor(j))],
      pages   |-> [j \in DOMAIN th.tensors |-> tensor(j).dtype]]

Compiled(k, call) ==
  IF ~Compilable(k, call.args) THEN Error
  ELSE [count   |-> Len(call.args), grid |-> call.grid,
        buffers |-> BufferConfigs(k, call.args),
        threads |-> [i \in DOMAIN k.threads |->
                       CompiledThread(k, k.threads[i], call.args)]]

\* What a call is compiled to when the kernel was called once before.
Hit(k, first, next) ==
  Compiled(k, first) # Error /\ CacheKey(first.args) = CacheKey(next.args)

Served(k, first, next) == Compiled(k, IF Hit(k, first, next) THEN first ELSE next)

-----------------------------------------------------------------------------
(* Launch: CompiledTTNNKernel.__call__ and run_kernel_on_device.           *)

\* The compile-time arguments of a tensor's accessor; a sharded one has more.
AccessorArgs(t) ==
  IF t.interleaved THEN <<<<"accessor", t.space>>>>
  ELSE <<<<"accessor", "sharded">>, <<"shape">>, <<"banks">>>>

Launch(c, args, device) ==
  IF \/ c = Error
     \/ Len(args) # c.count
     \/ c.grid[1] > device[1] \/ c.grid[2] > device[2]
     \/ Contains(c.buffers, Unset)
  THEN Error
  ELSE LET cbs       == [b \in DOMAIN c.buffers |-> <<"cb", b>>]
           accessors == FlattenSeq([i \in DOMAIN args |-> AccessorArgs(args[i])])
       IN [grid    |-> c.grid,
           buffers |-> c.buffers,
           kernels |-> [i \in DOMAIN c.threads |->
             [code |-> c.threads[i],
              crta |-> [j \in DOMAIN c.threads[i].indices |->
                          args[c.threads[i].indices[j]].id],
              cta  |-> IF c.threads[i].type = "compute" THEN cbs ELSE cbs \o accessors]]]

\* Every data movement thread finds the address, the accessor and the pages of
\* the tensors it captures.
ReadsOwn(k, call, launch) ==
  \A i \in DOMAIN k.threads : \A j \in DOMAIN k.threads[i].tensors :
    k.threads[i].type = "noc" =>
      LET t    == call.args[k.threads[i].tensors[j]]
          kern == launch.kernels[i]
      IN /\ kern.crta[j] = t.id
         /\ kern.code.cta[j] \in DOMAIN kern.cta
         /\ kern.cta[kern.code.cta[j]] = AccessorArgs(t)[1]
         /\ kern.code.pages[j] = t.dtype

\* The arguments of two calls are equal to each other at the same places.
SameAliases(a, b) ==
  \A i, j \in DOMAIN a : (a[i].id = a[j].id) <=> (b[i].id = b[j].id)

\* A call launches what would be compiled for it, and that reads the call's own
\* tensors, also when the kernel comes from the cache (ttl_api.py:1264).  The
\* key does not tell grids, aliases and sharding apart, and a buffer that was
\* created last and is not captured by a thread is counted at compile time and
\* not at launch: there the code promises nothing.
LaunchIsOwn(k, first, next, device) ==
  LET launch == Launch(Served(k, first, next), next.args, device)
      alike  == /\ first.grid = next.grid /\ SameAliases(first.args, next.args)
                /\ Compilable(k, next.args)
  IN (Hit(k, first, next) => alike) =>
       /\ launch = Launch(Compiled(k, next), next.args, device)
       /\ (launch # Error /\ Len(k.buffers) \in Captured(k)) =>
            /\ ReadsOwn(k, next, launch)
            /\ launch.grid = next.grid
            /\ \A b \in Captured(k) : launch.buffers[b] = next.args[k.buffers[b]].dtype

-----------------------------------------------------------------------------
(* Registers: the compiler's count and the device's.  o has the options    *)
(* fp32_dest_acc_en and dst_full_sync_en.                                  *)

\* Double buffering halves 16 tiles of 16 bits, and so do 32 bits.
DstSize(f32, full) == (IF full THEN 16 ELSE 8) \div (IF f32 THEN 2 ELSE 1)

\* ttl-set-compute-kernel-config looks at the compute operations at the top of
\* the function, not at those in loops.
Fp32Attr(compute, o) == ~compute.nested /\ (o.fp32 = TRUE \/ compute.dtype = "f32")
SyncAttr(compute, o) == ~compute.nested /\ o.sync = TRUE

\* Mutant: only the attribute tells that there are 32 bits.
CapacityByAttr(compute, o) == DstSize(Fp32Attr(compute, o), SyncAttr(compute, o))

Capacity(compute, o) ==
  DstSize(Fp32Attr(compute, o) \/ compute.dtype = "f32", SyncAttr(compute, o))

\* The descriptor of the compute kernel: options, or a float32 argument.
Registers(args, o) ==
  DstSize(IF o.fp32 # Unset THEN o.fp32 ELSE \E i \in DOMAIN args : args[i].dtype = "f32",
          o.sync = TRUE)

\* Every register that the compiler gives away exists on the device that is
\* registered, unless the device is switched to 32 bits for a reason that the
\* compiler does not see: the option, for a compute in a loop, or a float32
\* argument that the compute does not read (TTLAssignDST.cpp:80, ttl_api.py:626).
RegistersExist(compute, args, o) ==
  LET unseen == /\ compute.dtype # "f32"
                /\ \/ compute.nested /\ o.fp32 = TRUE
                   \/ o.fp32 = Unset /\ \E i \in DOMAIN args : args[i].dtype = "f32"
  IN ~unseen => Capacity(compute, o) <= Registers(args, o)
=============================================================================
