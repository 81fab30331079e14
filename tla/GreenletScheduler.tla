------------------------- MODULE GreenletScheduler --------------------------
(***************************************************************************)
(* The cooperative scheduler of python/sim/greenlet_scheduler.py.  At most *)
(* one kernel thread runs at a time, from one synchronization point to the *)
(* next; the scheduler then offers the processor to the other threads of   *)
(* the pass.  A pass in which no thread could run is a deadlock.           *)
(*                                                                         *)
(* What a thread waits for is not modelled here: ready[t] stands for the   *)
(* answer can_<op>() gives for the operation t is blocked in.  Nothing but *)
(* a running thread changes an answer.                                     *)
(***************************************************************************)
EXTENDS Integers

CONSTANTS Threads,   \* names, one greenlet each
          Position,  \* Position[t]: place of t in _active, in add_thread order
          None       \* no current thread

ASSUME PositionAssumption ==
  /\ Position \in [Threads -> Nat]
  /\ \A t, u \in Threads : Position[t] = Position[u] => t = u
ASSUME NoThreadAssumption == None \notin Threads

VARIABLES
  algorithm,   \* "fair" or "greedy"
  phase,       \* "init", "loop", or how run ended: "done", "deadlock", "error"
  active,      \* the keys of _active
  blocked,     \* blocked[t]: blocking_obj is not None
  older,       \* <<t, u>> \in older: _last_run[t] < _last_run[u]
  todo,        \* candidates the current pass has still to try
  progress,    \* any_progress
  current,     \* the running thread, _current_name
  ready        \* ready[t]: can_<op>() of the operation t is blocked in

sched == <<algorithm, phase, active, blocked, older, todo, progress, current>>
vars  == <<algorithm, phase, active, blocked, older, todo, progress, current, ready>>

Init ==
  /\ algorithm \in {"fair", "greedy"}
  /\ phase = IF algorithm = "fair" THEN "init" ELSE "loop"
  /\ active = Threads
  /\ blocked = [t \in Threads |-> FALSE]
  /\ older = {}
  /\ todo = IF algorithm = "fair" THEN Threads ELSE {}
  /\ progress = TRUE
  /\ current = None
  /\ ready \in [Threads -> BOOLEAN]

\* Mutant: the thread keeps its older timestamp too.
StampedTwice(t) == older \union {<<u, t>> : u \in Threads \ {t}}

\* The timestamp given to t is larger than any given before.
Stamped(t) == {p \in older : p[1] # t} \union {<<u, t>> : u \in Threads \ {t}}

\* Mutant: the fair loop starts from the thread that ran last.
IsNextNewest(t) ==
  /\ t \in todo
  /\ \A u \in todo \ {t} :
       IF phase = "loop" /\ algorithm = "fair"
       THEN <<t, u>> \notin older
       ELSE Position[t] < Position[u]

\* The initialization phase and the greedy loop go through _active in its own
\* order, the fair loop from the thread that ran longest ago.
IsNext(t) ==
  /\ t \in todo
  /\ \A u \in todo \ {t} :
       IF phase = "loop" /\ algorithm = "fair"
       THEN <<u, t>> \notin older
       ELSE Position[t] < Position[u]

-----------------------------------------------------------------------------
(* The scheduler.                                                          *)

Idle == current = None

\* Mutant: the initialization phase stops before it ran every thread.
InitEndsEarly ==
  /\ phase = "init" /\ Idle
  /\ phase' = "loop"
  /\ UNCHANGED <<algorithm, active, blocked, older, todo, progress, current, ready>>

InitEnds ==
  /\ phase = "init" /\ Idle /\ todo = {}
  /\ phase' = "loop"
  /\ UNCHANGED <<algorithm, active, blocked, older, todo, progress, current, ready>>

\* Mutant: any_progress is not cleared.
PassBeginsOptimistic ==
  /\ phase = "loop" /\ Idle /\ todo = {}
  /\ progress /\ active # {}
  /\ todo' = active
  /\ UNCHANGED <<algorithm, phase, active, blocked, older, progress, current, ready>>

\* "while self._active": the candidates are fixed when the pass starts.
PassBegins ==
  /\ phase = "loop" /\ Idle /\ todo = {}
  /\ progress /\ active # {}
  /\ todo' = active
  /\ progress' = FALSE
  /\ UNCHANGED <<algorithm, phase, active, blocked, older, current, ready>>

AllDone ==
  /\ phase = "loop" /\ Idle /\ todo = {}
  /\ active = {}
  /\ phase' = "done"
  /\ UNCHANGED <<algorithm, active, blocked, older, todo, progress, current, ready>>

Deadlocks ==
  /\ phase = "loop" /\ Idle /\ todo = {}
  /\ ~progress /\ active # {}
  /\ phase' = "deadlock"
  /\ UNCHANGED <<algorithm, active, blocked, older, todo, progress, current, ready>>

\* "Still blocked".
Skip(t) ==
  /\ phase = "loop" /\ Idle
  /\ IsNext(t)
  /\ blocked[t] /\ ~ready[t]
  /\ todo' = todo \ {t}
  /\ UNCHANGED <<algorithm, phase, active, blocked, older, progress, current, ready>>

\* Mutant: the pass starts over behind the thread that runs.
SwitchRestarts(t) ==
  /\ phase \in {"init", "loop"} /\ Idle
  /\ IsNext(t)
  /\ blocked[t] => ready[t]
  /\ current' = t
  /\ todo' = IF phase = "loop" THEN active \ {t} ELSE todo \ {t}
  /\ blocked' = [blocked EXCEPT ![t] = FALSE]
  /\ UNCHANGED <<algorithm, phase, active, older, progress, ready>>

\* g.switch().
Switch(t) ==
  /\ phase \in {"init", "loop"} /\ Idle
  /\ IsNext(t)
  /\ blocked[t] => ready[t]
  /\ current' = t
  /\ todo' = todo \ {t}
  /\ blocked' = [blocked EXCEPT ![t] = FALSE]
  /\ UNCHANGED <<algorithm, phase, active, older, progress, ready>>

Scheduler ==
  \/ InitEnds \/ PassBegins \/ AllDone \/ Deadlocks
  \/ \E t \in Threads : Skip(t) \/ Switch(t)

-----------------------------------------------------------------------------
(* The running thread.                                                     *)

\* It pushes, pops, copies: what other threads wait for may become possible,
\* or impossible.
Work ==
  /\ ~Idle
  /\ ready' \in [Threads -> BOOLEAN]
  /\ UNCHANGED sched

\* Mutant: a thread that ran does not count as progress.
ReturnsUnnoticed(t) ==
  /\ current' = None
  /\ older' = Stamped(t)
  /\ UNCHANGED progress

Returns(t) ==
  /\ current' = None
  /\ progress' = (phase = "loop" \/ progress)
  /\ older' = Stamped(t)

\* block_if_needed: the fair scheduler always takes the processor back, the
\* greedy one only when the operation cannot proceed.  In the initialization
\* phase a thread that got this far has made progress, and is stamped.
Block ==
  /\ ~Idle
  /\ blocked' = [blocked EXCEPT ![current] = TRUE]
  /\ ready' \in [Threads -> BOOLEAN]
  /\ \A u \in Threads \ {current} : ready'[u] = ready[u]
  /\ algorithm = "greedy" => ~ready'[current]
  /\ Returns(current)
  /\ UNCHANGED <<algorithm, phase, active, todo>>

\* wrapped_func: _mark_completed.  The initialization phase stamps no thread
\* that ran to its end; the loop does, to no effect.
Complete ==
  /\ ~Idle
  /\ active' = active \ {current}
  /\ IF phase = "init"
     THEN current' = None /\ UNCHANGED <<progress, older>>
     ELSE Returns(current)
  /\ UNCHANGED <<algorithm, phase, blocked, todo, ready>>

\* An exception in a thread ends the run.
Fail ==
  /\ ~Idle
  /\ phase' = "error"
  /\ current' = None
  /\ UNCHANGED <<algorithm, active, blocked, older, todo, progress, ready>>

Next == Scheduler \/ Work \/ Block \/ Complete \/ Fail

\* A thread gets to its next synchronization point, or to its end.
Fairness == WF_vars(Scheduler) /\ WF_vars(Block \/ Complete \/ Fail)

Spec == Init /\ [][Next]_vars
FairSpec == Spec /\ Fairness

-----------------------------------------------------------------------------
TypeOK ==
  /\ algorithm \in {"fair", "greedy"}
  /\ phase \in {"init", "loop", "done", "deadlock", "error"}
  /\ active \subseteq Threads /\ todo \subseteq Threads
  /\ blocked \in [Threads -> BOOLEAN] /\ ready \in [Threads -> BOOLEAN]
  /\ older \subseteq Threads \X Threads
  /\ progress \in BOOLEAN
  /\ current \in Threads \union {None}

\* "Deadlock detected: all generators blocked" is never raised while some
\* thread could run: the answers seen early in the pass still stand at its end.
DeadlockSound ==
  phase = "deadlock" =>
    /\ active # {}
    /\ \A t \in active : blocked[t] /\ ~ready[t]

\* A pass without progress leaves every thread it tried as it found it.
Stalled ==
  phase = "loop" /\ Idle /\ ~progress =>
    \A t \in active \ todo : blocked[t] /\ ~ready[t]

\* Completed threads are not tried, and only active threads run.
CandidatesActive == todo \subseteq active /\ (~Idle => current \in active \ todo)

\* The processor is with one thread, which is not blocked; between passes of a
\* loop that made no progress every thread is.
CurrentRuns == ~Idle => phase \in {"init", "loop"} /\ ~blocked[current]

\* any_progress is only ever found unset at the end of a pass.
FirstPassAhead == phase = "init" => progress

\* What every step of scheduler and threads keeps: together the parts above make
\* the deadlock report sound.
IInv == /\ TypeOK /\ CandidatesActive /\ CurrentRuns /\ FirstPassAhead
        /\ Stalled /\ DeadlockSound

\* By the end of the initialization phase every thread left is blocked, "so
\* can_{operation}() checks work correctly in the fair scheduler".
InitBlocksAll ==
  algorithm = "fair" /\ phase = "loop" => \A t \in active \ {current} : blocked[t]

\* The fair order is a strict order: with no two equal timestamps, the sort by
\* (timestamp, name) never falls back to the name.
OrderTotal ==
  algorithm = "fair" /\ phase = "loop" =>
    \A t, u \in active : t # u => (<<t, u>> \in older <=> <<u, t>> \notin older)

\* A thread that stays able to proceed is switched to, or the run is over.
Served(t) ==
  phase = "loop" /\ t \in active /\ blocked[t] /\ ready[t]
    ~> \/ current = t
       \/ ~ready[t]
       \/ phase # "loop"
AllServed == \A t \in Threads : Served(t)

\* Threads that block for good are found out: when every one of them waits for
\* something that cannot happen any more, the run ends.
StallReported ==
  (phase = "loop" /\ Idle /\ active # {} /\ \A t \in active : blocked[t] /\ ~ready[t])
    ~> (phase = "deadlock")
=============================================================================
