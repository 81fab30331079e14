----------------------------- MODULE KernelRun ------------------------------
(***************************************************************************)
(* SimKernel with the threads' functions given: each runs a body of        *)
(* simulator calls a number of rounds and returns.  Nothing is left to     *)
(* chance then but the scheduling algorithm, and a run must end: with all  *)
(* threads done, or with the deadlock report.                              *)
(***************************************************************************)
EXTENDS SimKernel, Sequences

CONSTANT Kernels  \* what may be run, see Kernel below

VARIABLES
  program,  \* the kernel being run
  at,       \* at[t]: the round of t, and its next statement in the body
  written   \* the values copied to the output tensor, oldest first

runVars == <<vars, program, at, written>>

\* body[t] is a sequence of statements; ends is the way the run should end.
Statements ==
  [do : {"wait", "reserve", "push", "pop", "copy_from", "copy_to"}, buf : Buffers]
    \union [do : {"tx_wait"}, buf : Buffers, side : Sides]
    \union [do : {"store"}, buf : Buffers, from : SUBSET Buffers, acc : BOOLEAN]

ASSUME KernelsAssumption ==
  \A k \in Kernels :
    /\ \A t \in Threads : \A i \in 1 .. Len(k.body[t]) : k.body[t][i] \in Statements
    /\ k.rounds \in [Threads -> Nat]
    /\ k.ends \in {"done", "deadlock"}

RunInit ==
  /\ Init
  /\ program \in Kernels
  /\ at = [t \in Threads |-> [round |-> 1, next |-> 1]]
  /\ written = <<>>

Returned(t) == at[t].round > program.rounds[t]

Statement(t) == program.body[t][at[t].next]

Advance(t) ==
  at' = [at EXCEPT ![t] = IF @.next = Len(program.body[t])
                          THEN [round |-> @.round + 1, next |-> 1]
                          ELSE [round |-> @.round, next |-> @.next + 1]]

Execute(t, s) ==
  \/ s.do \in {"wait", "reserve"} /\ Acquire(t, s.buf, s.do)
  \/ s.do = "push" /\ Push(t, s.buf)
  \/ s.do = "pop"  /\ Pop(t, s.buf)
  \/ s.do = "copy_to"   /\ Copy(t, <<s.buf, "reserve", t>>, "COPY_DST")
  \/ s.do = "copy_from" /\ Copy(t, <<s.buf, "wait", t>>, "COPY_SRC")
  \/ s.do = "tx_wait" /\ TxWait(t, <<s.buf, s.side, t>>, at[t].round)
  \/ /\ s.do = "store"
     /\ Store(t, <<s.buf, "reserve", t>>, {<<d, "wait", t>> : d \in s.from}, s.acc)

Step(t) ==
  /\ ~Returned(t)
  /\ Execute(t, Statement(t))
  /\ Advance(t)
  /\ UNCHANGED <<program, written>>

\* What comes back from block_if_needed; a block copied out is written out.
Proceed(t) ==
  /\ \/ Waited(t) \/ Reserved(t)
     \/ Transferred(t)
  /\ written' = IF call[t].op = "tx_wait" /\ block[call[t].ref].access = "NAR"
                THEN Append(written, Content(call[t].ref)) ELSE written
  /\ UNCHANGED <<program, at>>

Finish(t) == Returned(t) /\ Return(t) /\ UNCHANGED <<program, at, written>>

Schedule == SchedulerStep /\ UNCHANGED <<program, at, written>>

RunNext == Schedule \/ \E t \in Threads : Step(t) \/ Proceed(t) \/ Finish(t)

\* The interpreter keeps going.
RunSpec == RunInit /\ [][RunNext]_runVars /\ WF_runVars(RunNext)

-----------------------------------------------------------------------------
\* The values reach the output tensor complete and in order, whichever order
\* the scheduler runs the threads in.
InOrder ==
  /\ Len(written) <= Len(program.output)
  /\ \A i \in 1 .. Len(written) : written[i] = program.output[i]

\* Every run ends, as it should: a kernel whose threads agree on how many tiles
\* they exchange completes under either algorithm, with its whole output written
\* and no pending block; one whose threads do not is reported as a deadlock.
EndsAsItShould ==
  <>[](/\ phase = program.ends
       /\ program.ends = "done" =>
            /\ written = program.output
            /\ \A d \in Buffers, side \in Sides : pending[<<d, side>>] = None)
=============================================================================
