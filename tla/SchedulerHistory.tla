-------------------------- MODULE SchedulerHistory --------------------------
(***************************************************************************)
(* GreenletScheduler with a history variable: who was given the processor  *)
(* while a thread could have used it.  It restricts nothing.               *)
(***************************************************************************)
EXTENDS GreenletScheduler

VARIABLE passed  \* passed[t]: threads switched to since t became able to run

hvars == <<vars, passed>>

\* Blocked in an operation that can proceed.
Waiting(t) == phase = "loop" /\ t \in active /\ blocked[t] /\ ready[t]

HInit == Init /\ passed = [t \in Threads |-> {}]

HNext ==
  /\ Next
  /\ passed' = [t \in Threads |->
       {u \in Threads : /\ Waiting(t) /\ Waiting(t)'
                        /\ u \in passed[t] \/ (Idle /\ u = current')}]

HSpec == HInit /\ [][HNext]_hvars /\ Fairness

\* A thread that could run is not overtaken twice by the same thread: it may
\* have been skipped before it became able to proceed, but the next pass gets
\* to it before it gets to any thread that ran in the meantime.
OvertakenOnce ==
  [][\A t \in Threads : Idle /\ ~Idle' /\ current' # t /\ Waiting(t) =>
       current' \notin passed[t]]_hvars
=============================================================================
