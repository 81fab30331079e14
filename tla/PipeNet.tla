------------------------------ MODULE PipeNet -------------------------------
(***************************************************************************)
(* Copies between blocks and pipes (python/sim/copyhandlers.py) by the     *)
(* data movement threads of the cores, interleaved by GreenletScheduler.   *)
(* The messages of a pipe are in _pipe_buffer, which outlives a kernel.    *)
(*                                                                         *)
(* The user's functions are not fixed: a running thread may send on the    *)
(* pipes its core is the source of, receive from those it is a destination *)
(* of, or return.  A message is what is kept about it, not its tiles.      *)
(***************************************************************************)
EXTENDS Integers, FiniteSets, SequencesExt

CONSTANTS
  Threads, Position,   \* as in GreenletScheduler
  None,
  CoreOf,                \* CoreOf[t]: the core of t
  Pipes,               \* values of pipes: equal pipes are one
  Source,              \* Source[p]: the core whose threads send
  Destination,         \* Destination[p]: the cores that are let in
  Counted,             \* Counted[p]: the receivers a sender counts
  Lengths,             \* Lengths[t]: lengths of the blocks of t
  MaxSends,            \* MaxSends[p]: bound on the messages of p
  MaxKernels           \* bound on the kernels run one after the other

ASSUME PlacesAssumption ==
  /\ CoreOf \in [Threads -> Nat]
  /\ Source \in [Pipes -> Nat] /\ Destination \in [Pipes -> SUBSET Nat]
  /\ Lengths \in [Threads -> SUBSET Nat] /\ MaxSends \in [Pipes -> Nat]
ASSUME ThreadsAssumption ==
  /\ Position \in [Threads -> Nat] /\ None \notin Threads
  /\ \A t, u \in Threads : Position[t] = Position[u] => t = u
ASSUME NoneAssumption == None \notin [op : {"send", "receive"}, pipe : Pipes, length : Nat]
ASSUME CountedAssumption ==
  \A p \in Pipes : IsFiniteSet(Destination[p]) /\ Counted[p] = Cardinality(Destination[p])

VARIABLES
  algorithm, phase, active, blocked, older, todo, progress, current,
  queue,     \* queue[p]: the messages [id, remaining, receivers, length]
  event,     \* event[p]: the event is set
  sends,     \* sends[p]: next_msg_id
  call,      \* call[t]: the copy whose tx.wait() t is in, or None
  got,       \* got[<<p, c>>]: ids of the messages of p that core c received, a history
  failed,    \* a thread raised, in this kernel or an earlier one
  kernel     \* how many kernels were started before this one

buffer == <<queue, event, sends>>
sched  == <<algorithm, phase, active, blocked, older, todo, progress, current>>
vars   == <<sched, buffer, call, got, failed, kernel>>

-----------------------------------------------------------------------------
\* Mutant: a pipe that holds more than one message is taken for a blocked one.
CanSingle(c) == c.op = "send" \/ Len(queue[c.pipe]) = 1

\* can_wait: a send can always proceed, a receive when the queue holds anything,
\* also for a core that has received all of it.
Can(c) == c.op = "send" \/ queue[c.pipe] # << >>

Ready == [t \in Threads |-> call[t] # None /\ Can(call[t])]

Scheduler == INSTANCE GreenletScheduler WITH ready <- Ready

Init ==
  /\ queue  = [p \in Pipes |-> << >>]
  /\ event  = [p \in Pipes |-> FALSE]
  /\ sends  = [p \in Pipes |-> 0]
  /\ call   = [t \in Threads |-> None]
  /\ got    = [e \in Pipes \X {CoreOf[t] : t \in Threads} |-> << >>]
  /\ failed = FALSE
  /\ kernel = 0
  /\ Scheduler!Init

SchedulerStep == UNCHANGED <<buffer, call, got, failed, kernel>> /\ Scheduler!Scheduler

\* copy(src, dst).wait() up to the transfer: block_if_needed.
Begin(t, c) ==
  /\ current = t /\ call[t] = None
  /\ call' = [call EXCEPT ![t] = c]
  /\ UNCHANGED <<buffer, got, failed, kernel>>
  /\ IF algorithm = "fair" \/ ~Can(c) THEN Scheduler!Block ELSE UNCHANGED sched

Sending(p) == {u \in Threads : call[u] # None /\ call[u].op = "send" /\ call[u].pipe = p}

Send(t) ==
  \E p \in Pipes, n \in Lengths[t] :
    /\ CoreOf[t] = Source[p] /\ sends[p] + Cardinality(Sending(p)) < MaxSends[p]
    /\ Begin(t, [op |-> "send", pipe |-> p, length |-> n])

Receive(t) ==
  \E p \in Pipes, n \in Lengths[t] :
    CoreOf[t] \in Destination[p] /\ Begin(t, [op |-> "receive", pipe |-> p, length |-> n])

Resumed(t, op) == current = t /\ call[t] # None /\ call[t].op = op

Continues(t) == call' = [call EXCEPT ![t] = None] /\ UNCHANGED sched

\* BlockToPipeHandler.transfer.
Sent(t) ==
  /\ Resumed(t, "send")
  /\ LET p == call[t].pipe
     IN /\ queue' = [queue EXCEPT ![p] = Append(@,
             [id |-> sends[p], remaining |-> Counted[p], receivers |-> {},
              length |-> call[t].length])]
        /\ event' = [event EXCEPT ![p] = TRUE]
        /\ sends' = [sends EXCEPT ![p] = @ + 1]
  /\ Continues(t)
  /\ UNCHANGED <<got, failed, kernel>>

-----------------------------------------------------------------------------
(* PipeToBlockHandler.transfer.                                            *)

\* The first message that the core has not received; 0 when there is none.
FirstFor(c, p) == SelectInSeq(queue[p], LAMBDA m : c \notin m.receivers)

\* Mutant: the receiver is not recorded.
MarkedNot(p, i, c) == queue[p]

Marked(p, i, c) == [queue[p] EXCEPT ![i].receivers = @ \union {c}]

\* Mutant: the message stays until one receiver too many has come.
CountedDownLate(q, i) ==
  IF q[i].remaining = 0 THEN RemoveAt(q, i) ELSE [q EXCEPT ![i].remaining = @ - 1]

\* Mutant: a receiver is counted twice.
CountedDownTwice(q, i) ==
  IF q[i].remaining = 1 THEN RemoveAt(q, i) ELSE [q EXCEPT ![i].remaining = @ - 2]

\* One receiver less; the last one removes the message.
CountedDown(q, i) ==
  IF q[i].remaining = 1 THEN RemoveAt(q, i) ELSE [q EXCEPT ![i].remaining = @ - 1]

\* Mutant: the event stays set when the queue runs empty.
EventAfterKept(p, q) == event[p]

\* The event is cleared with the last message.
EventAfter(p, q) == event[p] /\ q # << >>

Received(t) ==
  /\ Resumed(t, "receive")
  /\ LET p == call[t].pipe
         i == FirstFor(CoreOf[t], p)
         q == CountedDown(Marked(p, i, CoreOf[t]), i)
     IN /\ event[p] /\ i # 0
        /\ queue[p][i].length = call[t].length
        /\ queue' = [queue EXCEPT ![p] = q]
        /\ event' = [event EXCEPT ![p] = EventAfter(p, q)]
        /\ got'   = [got EXCEPT ![<<p, CoreOf[t]>>] = Append(@, queue[p][i].id)]
  /\ Continues(t)
  /\ UNCHANGED <<sends, failed, kernel>>

\* ValueError: the receiver is recorded, but not counted down.
Mismatch(t) ==
  /\ Resumed(t, "receive")
  /\ LET p == call[t].pipe
         i == FirstFor(CoreOf[t], p)
     IN /\ event[p] /\ i # 0
        /\ queue[p][i].length # call[t].length
        /\ queue' = [queue EXCEPT ![p] = Marked(p, i, CoreOf[t])]
  /\ failed' = TRUE
  /\ UNCHANGED <<event, sends, call, got, kernel>>
  /\ Scheduler!Fail

\* TimeoutError: the event is not set, or is cleared because there is no message
\* for this core; then no thread can set it, as all share the OS thread that
\* waits for it.
TimesOut(t) ==
  /\ Resumed(t, "receive")
  /\ LET p == call[t].pipe
     IN /\ ~event[p] \/ FirstFor(CoreOf[t], p) = 0
        /\ event' = [event EXCEPT ![p] = FALSE]
  /\ failed' = TRUE
  /\ UNCHANGED <<queue, sends, call, got, kernel>>
  /\ Scheduler!Fail

\* The thread's function ends.
Return(t) ==
  /\ current = t /\ call[t] = None
  /\ UNCHANGED <<buffer, call, got, failed, kernel>>
  /\ Scheduler!Complete

\* The next kernel gets a new scheduler and new threads, and the old messages.
NextKernel ==
  /\ phase \in {"done", "deadlock", "error"}
  /\ kernel < MaxKernels - 1
  /\ kernel' = kernel + 1
  /\ phase' = IF algorithm = "fair" THEN "init" ELSE "loop"
  /\ active' = Threads
  /\ blocked' = [t \in Threads |-> FALSE]
  /\ older' = {}
  /\ todo' = IF algorithm = "fair" THEN Threads ELSE {}
  /\ progress' = TRUE
  /\ current' = None
  /\ call' = [t \in Threads |-> None]
  /\ UNCHANGED <<algorithm, buffer, got, failed>>

ThreadStep(t) ==
  Send(t) \/ Receive(t) \/ Sent(t) \/ Received(t) \/ Mismatch(t) \/ TimesOut(t) \/ Return(t)

Runs == SchedulerStep \/ \E t \in Threads : ThreadStep(t)
Next == Runs \/ NextKernel

Spec == Init /\ [][Next]_vars

\* Whoever has the processor, the scheduler or a thread, runs on; no one has to
\* start another kernel.
Fairness == WF_vars(Runs)
FairSpec == Spec /\ Fairness

-----------------------------------------------------------------------------
Message == [id : Nat, remaining : Nat, receivers : SUBSET {CoreOf[t] : t \in Threads},
            length : Nat]

TypeOK ==
  /\ Scheduler!TypeOK
  /\ queue \in [Pipes -> Seq(Message)]
  /\ event \in [Pipes -> BOOLEAN] /\ sends \in [Pipes -> Nat]
  /\ call \in [Threads -> {None} \union [op : {"send", "receive"}, pipe : Pipes, length : Nat]]
  /\ got \in [Pipes \X {CoreOf[t] : t \in Threads} -> Seq(Nat)]
  /\ failed \in BOOLEAN /\ kernel \in Nat

\* Every receiver of a pipe gets every message, once, and in the order they were
\* sent, whichever receivers are ahead; only a message whose copy raised may be
\* missing.
OnceInOrder ==
  \A p \in Pipes, t \in Threads :
    LET g == got[<<p, CoreOf[t]>>]
    IN /\ \A i \in 1 .. Len(g) - 1 : g[i] < g[i + 1]
       /\ ~failed => \A i \in DOMAIN g : g[i] = i - 1

\* A message stays as long as some receiver is still to come, no longer, and is
\* kept from no receiver that is: what is left to count are the cores that are
\* let in and not recorded.
Owed ==
  ~failed =>
    \A p \in Pipes : \A i \in DOMAIN queue[p] :
      LET m == queue[p][i]
      IN /\ Destination[p] # {} => m.remaining > 0
         /\ m.remaining = Cardinality(Destination[p] \ m.receivers)
         /\ \A c \in Destination[p] : \A t \in Threads :
              CoreOf[t] = c => (c \in m.receivers <=> Contains(got[<<p, c>>], m.id))

\* As long as nothing raised, the event is set exactly while messages are queued:
\* a receiver waits for it in vain only because it is ahead of the others.
EventTracks ==
  ~failed => \A p \in Pipes : event[p] <=> queue[p] # << >>

\* What the docstring of can_wait promises, "True if the transfer can complete
\* without blocking": there is a message for the receiver that is resumed.
CanWaitHonest ==
  \A t \in Threads : Resumed(t, "receive") /\ ~failed => FirstFor(CoreOf[t], call[t].pipe) # 0

\* A receiver for whose core a message is queued is served before long, unless a
\* thread raises: it is never left to the deadlock report.
ReceiverServed ==
  \A t \in Threads :
    (call[t] # None /\ call[t].op = "receive" /\ FirstFor(CoreOf[t], call[t].pipe) # 0)
      ~> (call[t] = None \/ phase = "error")
=============================================================================
