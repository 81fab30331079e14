---------------------- MODULE GreenletScheduler_proofs ----------------------
(***************************************************************************)
(* Proofs about GreenletScheduler, for any number of threads: a reported   *)
(* deadlock is one, the initialization phase blocks every thread, the fair *)
(* order is total, and no thread is overtaken twice by the same thread.    *)
(***************************************************************************)
EXTENDS SchedulerHistory, TLAPS

-----------------------------------------------------------------------------
(* The order of timestamps.                                                *)

\* Giving a thread a timestamp makes every other thread older than it, and it
\* older than no one; it does not touch the order of the others.
LEMMA StampedOrder ==
  ASSUME NEW t \in Threads, NEW u \in Threads, NEW v \in Threads, u # v
  PROVE  /\ u = t => <<u, v>> \notin Stamped(t)
         /\ v = t => <<u, v>> \in Stamped(t)
         /\ u # t /\ v # t => (<<u, v>> \in Stamped(t) <=> <<u, v>> \in older)
<1> USE DEF Stamped
<1>1. ASSUME u = t PROVE <<u, v>> \notin Stamped(t)
  BY <1>1
<1>2. ASSUME v = t PROVE <<u, v>> \in Stamped(t)
  BY <1>2
<1>3. ASSUME u # t, v # t PROVE <<u, v>> \in Stamped(t) <=> <<u, v>> \in older
  BY <1>3
<1> QED BY <1>1, <1>2, <1>3

\* A new timestamp keeps the order a relation between threads.
LEMMA StampedType ==
  ASSUME older \subseteq Threads \X Threads, NEW t \in Threads
  PROVE  Stamped(t) \subseteq Threads \X Threads
BY DEF Stamped

-----------------------------------------------------------------------------
(* The inductive invariant of the scheduler.                               *)

\* At the start no pass has been made.
LEMMA InitInvariant == Init => IInv
<1> SUFFICES ASSUME Init PROVE IInv
  OBVIOUS
<1> USE NoThreadAssumption DEF Init
<1>1. TypeOK
  BY DEF TypeOK
<1>2. CandidatesActive /\ CurrentRuns
  BY DEF CandidatesActive, CurrentRuns, Idle
<1>3. FirstPassAhead /\ Stalled /\ DeadlockSound
  BY DEF FirstPassAhead, Stalled, DeadlockSound
<1> QED BY <1>1, <1>2, <1>3 DEF IInv

\* Every step of the scheduler or of a thread keeps IInv.
LEMMA StepInvariant == IInv /\ [Next]_vars => IInv'
<1> SUFFICES ASSUME IInv, [Next]_vars PROVE IInv'
  OBVIOUS
<1> USE NoThreadAssumption
<1> USE DEF IInv, TypeOK, CandidatesActive, CurrentRuns, FirstPassAhead,
            Stalled, DeadlockSound, Idle
<1>1. CASE InitEnds
  BY <1>1 DEF InitEnds
<1>2. CASE PassBegins
  BY <1>2 DEF PassBegins
<1>3. CASE AllDone
  BY <1>3 DEF AllDone
<1>4. CASE Deadlocks
  BY <1>4 DEF Deadlocks
<1>5. ASSUME NEW t \in Threads, Skip(t) PROVE IInv'
  BY <1>5 DEF Skip, IsNext
<1>6. ASSUME NEW t \in Threads, Switch(t) PROVE IInv'
  <2>1. t # None /\ t \in todo
    BY <1>6 DEF Switch, IsNext
  <2> QED BY <1>6, <2>1 DEF Switch
<1>7. CASE Work
  BY <1>7 DEF Work, sched
<1>8. CASE Block
  <2>1. current \in Threads /\ phase \in {"init", "loop"}
    BY <1>8 DEF Block
  <2>2. older' \subseteq Threads \X Threads
    BY <1>8, <2>1, StampedType DEF Block, Returns
  <2>3. progress' \in BOOLEAN /\ progress'
    BY <1>8, <2>1 DEF Block, Returns
  <2>4. current' = None
    BY <1>8 DEF Block, Returns
  <2>5. UNCHANGED <<algorithm, phase, active, todo>>
    BY <1>8 DEF Block
  <2>6. /\ blocked' \in [Threads -> BOOLEAN]
        /\ ready' \in [Threads -> BOOLEAN]
    BY <1>8 DEF Block
  <2> QED BY <2>1, <2>2, <2>3, <2>4, <2>5, <2>6
<1>9. CASE Complete
  <2>1. current \in Threads /\ phase \in {"init", "loop"}
    BY <1>9 DEF Complete
  <2>2. older' \subseteq Threads \X Threads
    BY <1>9, <2>1, StampedType DEF Complete, Returns
  <2>3. progress' \in BOOLEAN /\ progress'
    BY <1>9, <2>1 DEF Complete, Returns
  <2>4. current' = None
    BY <1>9 DEF Complete, Returns
  <2>5. UNCHANGED <<algorithm, phase, blocked, todo, ready>>
    BY <1>9 DEF Complete
  <2>6. active' = active \ {current}
    BY <1>9 DEF Complete
  <2> QED BY <2>1, <2>2, <2>3, <2>4, <2>5, <2>6
<1>10. CASE Fail
  BY <1>10 DEF Fail
<1>11. CASE UNCHANGED vars
  BY <1>11 DEF vars
<1> QED BY <1>1, <1>2, <1>3, <1>4, <1>5, <1>6, <1>7, <1>8, <1>9, <1>10, <1>11
        DEF Next, Scheduler

\* The fields of GreenletScheduler have their types, only active threads are
\* tried and run, and "Deadlock detected: all generators blocked" is raised
\* only when every remaining thread waits for something that is not possible.
THEOREM SchedulerInvariant == Spec => []IInv
BY InitInvariant, StepInvariant, PTL DEF Spec

-----------------------------------------------------------------------------
(* The initialization phase.                                               *)

\* Threads the initialization phase has not run yet.
Untried == IF phase = "init" THEN todo ELSE {}

\* Threads without a timestamp.
Unstamped == IF phase = "init" THEN todo \union {current} ELSE {}

\* What the initialization phase has achieved so far: a thread it is done with
\* is blocked, and ordered with every other thread.
InitInv ==
  algorithm = "fair" /\ phase \in {"init", "loop"} =>
    /\ \A t \in active \ {current} : t \notin Untried => blocked[t]
    /\ \A t, u \in active :
         t # u /\ (t \notin Unstamped \/ u \notin Unstamped) =>
           (<<t, u>> \in older <=> <<u, t>> \notin older)

\* No thread has a timestamp when the initialization phase starts.
LEMMA InitInvInit == Init => InitInv
BY DEF Init, InitInv, Untried, Unstamped

\* Every step keeps InitInv.
LEMMA InitInvStep == IInv /\ InitInv /\ [Next]_vars => InitInv'
<1> SUFFICES ASSUME IInv, InitInv, [Next]_vars PROVE InitInv'
  OBVIOUS
<1> USE NoThreadAssumption
<1>0. TypeOK /\ CandidatesActive /\ CurrentRuns
  BY DEF IInv
<1>1. CASE InitEnds
  BY <1>1 DEF InitEnds, InitInv, Untried, Unstamped, Idle
<1>2. CASE PassBegins
  BY <1>2 DEF PassBegins, InitInv, Untried, Unstamped
<1>3. CASE AllDone
  BY <1>3 DEF AllDone, InitInv
<1>4. CASE Deadlocks
  BY <1>4 DEF Deadlocks, InitInv
<1>5. ASSUME NEW t \in Threads, Skip(t) PROVE InitInv'
  BY <1>5 DEF Skip, InitInv, Untried, Unstamped
<1>6. ASSUME NEW t \in Threads, Switch(t) PROVE InitInv'
  <2>1. t \in todo /\ current = None /\ current' = t
    BY <1>6 DEF Switch, IsNext, Idle
  <2>2. UNCHANGED <<algorithm, phase, active, older>>
    BY <1>6 DEF Switch
  <2>3. \A u \in Threads \ {t} : blocked'[u] = blocked[u]
    BY <1>0, <1>6 DEF Switch, TypeOK
  <2>4. todo' = todo \ {t} /\ active \subseteq Threads
    BY <1>0, <1>6 DEF Switch, TypeOK
  <2>5. Unstamped' \ {None} = Unstamped \ {None} /\ None \notin active
    BY <2>1, <2>2, <2>4 DEF Unstamped
  <2> QED BY <2>1, <2>2, <2>3, <2>4, <2>5 DEF InitInv, Untried
<1>7. CASE Work
  BY <1>7 DEF Work, sched, InitInv, Untried, Unstamped
<1>8. CASE Block
  <2>1. current \in Threads /\ current \in active \ todo
    BY <1>0, <1>8 DEF Block, TypeOK, CandidatesActive
  <2>2. /\ current' = None /\ older' = Stamped(current)
        /\ UNCHANGED <<algorithm, phase, active, todo>>
    BY <1>8 DEF Block, Returns
  <2>3. \A u \in Threads : blocked'[u] = (u = current \/ blocked[u])
    BY <1>0, <1>8 DEF Block, TypeOK
  <2>4. active \subseteq Threads
    BY <1>0 DEF TypeOK
  <2>5. \A t, u \in Threads : t # u =>
          /\ t = current => <<t, u>> \notin older'
          /\ u = current => <<t, u>> \in older'
          /\ t # current /\ u # current => (<<t, u>> \in older' <=> <<t, u>> \in older)
    BY <2>1, <2>2, StampedOrder
  <2>6. SUFFICES ASSUME algorithm = "fair", phase \in {"init", "loop"} PROVE InitInv'
    BY <2>2 DEF InitInv
  <2>7. \A t \in active \ {current'} : t \notin Untried' => blocked'[t]
    BY <2>2, <2>3, <2>4, <2>6 DEF InitInv, Untried
  <2>8. ASSUME NEW t \in active, NEW u \in active, t # u,
               t \notin Unstamped' \/ u \notin Unstamped'
        PROVE  <<t, u>> \in older' <=> <<u, t>> \notin older'
    <3>1. CASE t = current \/ u = current
      BY <2>4, <2>5, <2>8, <3>1
    <3>2. CASE t # current /\ u # current
      <4>1. t \notin Unstamped \/ u \notin Unstamped
        BY <2>2, <2>8, <3>2 DEF Unstamped
      <4>2. <<t, u>> \in older <=> <<u, t>> \notin older
        BY <2>6, <2>8, <4>1 DEF InitInv
      <4> QED BY <2>4, <2>5, <2>8, <3>2, <4>2
    <3> QED BY <3>1, <3>2
  <2> QED BY <2>2, <2>7, <2>8 DEF InitInv
<1>9. CASE Complete
  <2>1. current \in Threads /\ current \in active \ todo
    BY <1>0, <1>9 DEF Complete, TypeOK, CandidatesActive
  <2>2. /\ current' = None /\ active' = active \ {current}
        /\ UNCHANGED <<algorithm, phase, blocked, todo>>
    BY <1>9 DEF Complete, Returns
  <2>3. active \subseteq Threads
    BY <1>0 DEF TypeOK
  <2>4. older' = older \/ older' = Stamped(current)
    BY <1>9 DEF Complete, Returns
  <2>5. \A t, u \in active' : t # u => (<<t, u>> \in older' <=> <<t, u>> \in older)
    BY <2>1, <2>2, <2>3, <2>4, StampedOrder
  <2>6. active' \intersect Unstamped' = active' \intersect Unstamped
    BY <2>2, <2>3 DEF Unstamped
  <2> QED BY <2>2, <2>5, <2>6 DEF InitInv, Untried
<1>10. CASE Fail
  BY <1>10 DEF Fail, InitInv
<1>11. CASE UNCHANGED vars
  BY <1>11 DEF vars, InitInv, Untried, Unstamped
<1> QED BY <1>1, <1>2, <1>3, <1>4, <1>5, <1>6, <1>7, <1>8, <1>9, <1>10, <1>11
        DEF Next, Scheduler

\* When the fair loop starts, every thread that has not returned is blocked in
\* an operation, so can_<op>() is asked of each one.
THEOREM InitializationBlocks == Spec => []InitBlocksAll
<1>1. IInv /\ InitInv => InitBlocksAll
  BY DEF InitInv, InitBlocksAll, Untried
<1> QED BY InitInvariant, StepInvariant, InitInvInit, InitInvStep, <1>1, PTL DEF Spec

\* In the fair loop no two threads have equal timestamps, so the order of the
\* pass never depends on the names.
THEOREM TotalOrder == Spec => []OrderTotal
<1>1. IInv /\ InitInv => OrderTotal
  BY DEF InitInv, OrderTotal, Unstamped
<1> QED BY InitInvariant, StepInvariant, InitInvInit, InitInvStep, <1>1, PTL DEF Spec

-----------------------------------------------------------------------------
(* Overtaking.                                                             *)

\* The order in which a pass of the loop goes through its candidates.
Before(t, u) ==
  IF algorithm = "fair" THEN <<t, u>> \in older ELSE Position[t] < Position[u]

\* In a greedy pass every thread tried comes before every thread to be tried.
GreedyPrefix ==
  phase = "loop" /\ algorithm = "greedy" =>
    \A t \in active \ todo, u \in todo : Position[t] < Position[u]

\* Of a thread that can run, and one that overtook it: if the pass has still
\* to try the second, it has to try the first, and does so before; if it has
\* tried both, the next pass will.
OvertakeInv ==
  \A t, u \in Threads :
    Waiting(t) /\ u \in passed[t] /\ u \in active =>
      /\ u # t
      /\ u \in todo => t \in todo /\ Before(t, u)
      /\ t \notin todo => Before(t, u) \/ (u = current /\ algorithm = "fair")

HInv == GreedyPrefix /\ OvertakeInv /\ passed \in [Threads -> SUBSET Threads]

\* At the start nobody has been passed by anybody.
LEMMA HInvInit == HInit => HInv
BY DEF HInit, Init, HInv, GreedyPrefix, OvertakeInv

\* A thread switched to is one the pass had still to try, and comes before the
\* other threads the pass has still to try.
LEMMA SwitchOrder ==
  ASSUME IInv, InitInv, NEW t \in Threads, Switch(t), phase = "loop",
         NEW u \in todo, u # t
  PROVE  t \in todo /\ ~Before(u, t) /\ Before(t, u)
<1>1. t \in active /\ u \in active /\ t \in todo /\ current = None
  BY DEF IInv, CandidatesActive, Switch, IsNext, Idle
<1>2. CASE algorithm = "fair"
  <2>1. <<u, t>> \notin older
    BY <1>2 DEF Switch, IsNext
  <2>2. <<t, u>> \in older <=> <<u, t>> \notin older
    BY <1>1, <1>2 DEF InitInv, Unstamped
  <2> QED BY <1>1, <1>2, <2>1, <2>2 DEF Before
<1>3. CASE algorithm # "fair"
  <2>1. Position[t] < Position[u]
    BY <1>3 DEF Switch, IsNext
  <2>2. Position[t] \in Nat /\ Position[u] \in Nat
    BY <1>1, PositionAssumption DEF IInv, TypeOK
  <2>3. ~(Position[u] < Position[t])
    BY <2>1, <2>2
  <2> QED BY <1>1, <1>3, <2>1, <2>3 DEF Before
<1> QED BY <1>2, <1>3

\* A thread that can run is not switched past by one that overtook it.
LEMMA NoSecond ==
  ASSUME IInv, InitInv, HInv, NEW u \in Threads, Switch(u),
         NEW t \in Threads, u # t, Waiting(t)
  PROVE  u \notin passed[t]
<1>1. phase = "loop" /\ t \in active /\ u \in todo /\ u \in active
  BY DEF IInv, CandidatesActive, Switch, IsNext, Waiting
<1>2. SUFFICES ASSUME u \in passed[t] PROVE FALSE
  OBVIOUS
<1>3. t \in todo /\ Before(t, u)
  BY <1>1, <1>2 DEF HInv, OvertakeInv
<1>4. ~Before(t, u)
  BY <1>1, <1>3, SwitchOrder
<1> QED BY <1>3, <1>4

\* The passes keep GreedyPrefix.
LEMMA GreedyPrefixStep == IInv /\ GreedyPrefix /\ [Next]_vars => GreedyPrefix'
<1> SUFFICES ASSUME IInv, GreedyPrefix, [Next]_vars PROVE GreedyPrefix'
  OBVIOUS
<1> USE NoThreadAssumption DEF GreedyPrefix
<1>0. TypeOK /\ CandidatesActive
  BY DEF IInv
<1>1. CASE InitEnds
  BY <1>1 DEF InitEnds
<1>2. CASE PassBegins
  BY <1>2 DEF PassBegins
<1>3. CASE AllDone \/ Deadlocks \/ Fail
  BY <1>3 DEF AllDone, Deadlocks, Fail
<1>4. ASSUME NEW t \in Threads, Skip(t) \/ Switch(t) PROVE GreedyPrefix'
  <2>1. /\ t \in todo /\ todo' = todo \ {t}
        /\ UNCHANGED <<algorithm, phase, active>>
    BY <1>4 DEF Skip, Switch, IsNext
  <2>2. phase = "loop" /\ algorithm = "greedy" =>
          \A u \in todo \ {t} : Position[t] < Position[u]
    BY <1>4 DEF Skip, Switch, IsNext
  <2> QED BY <2>1, <2>2
<1>5. CASE Work \/ Block \/ Complete
  <2>1. UNCHANGED <<algorithm, phase, todo>> /\ active' \subseteq active
    BY <1>5 DEF Work, Block, Complete, sched
  <2> QED BY <2>1
<1>6. CASE UNCHANGED vars
  BY <1>6 DEF vars
<1> QED BY <1>1, <1>2, <1>3, <1>4, <1>5, <1>6 DEF Next, Scheduler

\* The threads recorded as having passed t change only while t can run, and by
\* the thread switched to.
LEMMA PassedStep ==
  ASSUME HNext, NEW t \in Threads, NEW u \in passed'[t]
  PROVE  /\ Waiting(t) /\ Waiting(t)' /\ u \in Threads
         /\ u \in passed[t] \/ (Idle /\ u = current')
BY DEF HNext

\* The order of two threads changes only when one of them is stamped, which
\* puts it behind the other.
LEMMA BeforeStep ==
  ASSUME IInv, Next, NEW t \in Threads, NEW u \in Threads, t # u, Before(t, u),
         t # current
  PROVE  Before(t, u)'
<1> USE DEF Before
<1>1. UNCHANGED <<algorithm, older>> => Before(t, u)'
  OBVIOUS
<1>2. ASSUME UNCHANGED algorithm, older' = Stamped(current), current \in Threads
      PROVE  Before(t, u)'
  <2>1. algorithm = "fair" => <<t, u>> \in older'
    BY <1>2, StampedOrder
  <2> QED BY <1>2, <2>1
<1>3. CASE Scheduler \/ Work \/ Fail
  BY <1>1, <1>3 DEF Scheduler, InitEnds, PassBegins, AllDone, Deadlocks, Skip, Switch,
                    Work, Fail, sched
<1>4. CASE Block \/ Complete
  <2>1. current \in Threads
    BY <1>4 DEF IInv, TypeOK, Block, Complete, Idle
  <2>2. UNCHANGED algorithm /\ (older' = older \/ older' = Stamped(current))
    BY <1>4 DEF Block, Complete, Returns
  <2> QED BY <1>1, <1>2, <2>1, <2>2
<1> QED BY <1>3, <1>4 DEF Next

\* Every step keeps OvertakeInv.
LEMMA OvertakeStep ==
  ASSUME IInv, InitInv, HInv, HNext
  PROVE  OvertakeInv'
<1> SUFFICES ASSUME NEW t \in Threads, NEW u \in Threads,
                    Waiting(t)', u \in passed'[t], u \in active'
             PROVE  /\ u # t
                    /\ u \in todo' => t \in todo' /\ Before(t, u)'
                    /\ t \notin todo' => \/ Before(t, u)'
                                         \/ u = current' /\ algorithm' = "fair"
  BY DEF OvertakeInv
<1> USE NoThreadAssumption
<1>0. TypeOK /\ CandidatesActive /\ CurrentRuns /\ GreedyPrefix /\ OvertakeInv /\ Next
  BY DEF IInv, HInv, HNext
<1>1. /\ Waiting(t) /\ phase = "loop" /\ phase' = "loop"
      /\ u \in passed[t] \/ (Idle /\ u = current')
  BY PassedStep DEF Waiting
<1>2. t # current
  BY <1>0, <1>1 DEF CurrentRuns, Waiting, Idle
<1>3. u \in passed[t] /\ u \in active =>
        /\ u # t
        /\ u \in todo => t \in todo /\ Before(t, u)
        /\ t \notin todo => Before(t, u) \/ (u = current /\ algorithm = "fair")
  BY <1>0, <1>1 DEF OvertakeInv
<1>4. u # t => (Before(t, u) => Before(t, u)')
  BY <1>0, <1>2, BeforeStep
<1>5. CASE InitEnds \/ AllDone \/ Deadlocks \/ Fail
  BY <1>1, <1>5 DEF InitEnds, AllDone, Deadlocks, Fail
<1>6. CASE PassBegins
  <2>1. current = None /\ current' = None /\ todo = {} /\ todo' = active /\ active' = active
    BY <1>6 DEF PassBegins, Idle
  <2>2. u \in passed[t] /\ u # current /\ t \in active
    BY <1>1, <2>1 DEF Idle, Waiting
  <2> QED BY <1>3, <1>4, <2>1, <2>2
<1>7. ASSUME NEW v \in Threads, Skip(v)
      PROVE  /\ u # t
             /\ u \in todo' => t \in todo' /\ Before(t, u)'
             /\ t \notin todo' => Before(t, u)' \/ (u = current' /\ algorithm' = "fair")
  <2>1. current = None /\ current' = None /\ todo' = todo \ {v} /\ active' = active
    BY <1>7 DEF Skip, Idle
  <2>2. u \in passed[t] /\ u # current
    BY <1>1, <2>1 DEF Idle
  <2>3. t # v
    BY <1>1, <1>7 DEF Skip, Waiting
  <2> QED BY <1>3, <1>4, <2>1, <2>2, <2>3
<1>8. ASSUME NEW v \in Threads, Switch(v)
      PROVE  /\ u # t
             /\ u \in todo' => t \in todo' /\ Before(t, u)'
             /\ t \notin todo' => Before(t, u)' \/ (u = current' /\ algorithm' = "fair")
  <2>1. /\ current = None /\ current' = v /\ v \in todo /\ todo' = todo \ {v}
        /\ UNCHANGED <<active, algorithm, older>>
    BY <1>8 DEF Switch, Idle, IsNext
  <2>2. t # v
    BY <1>0, <1>8 DEF Switch, Waiting, TypeOK
  <2>3. CASE u = v
    <3>1. algorithm \in {"fair", "greedy"} /\ t \in active
      BY <1>0, <1>1 DEF TypeOK, Waiting
    <3>2. t \notin todo /\ algorithm = "greedy" => Before(t, u)
      BY <1>0, <1>1, <2>1, <2>3, <3>1 DEF GreedyPrefix, Before
    <3> QED BY <1>4, <2>1, <2>2, <2>3, <3>1, <3>2
  <2>4. CASE u # v
    <3>1. u \in passed[t] /\ u # current
      BY <1>1, <2>1, <2>4
    <3> QED BY <1>3, <1>4, <2>1, <2>2, <3>1
  <2> QED BY <2>3, <2>4
<1>9. CASE Work
  <2>1. UNCHANGED sched /\ u \in passed[t]
    BY <1>1, <1>9 DEF Work, Idle
  <2> QED BY <1>3, <1>4, <2>1 DEF sched
<1>10. CASE Block \/ Complete
  <2>1. /\ u \in passed[t] /\ current' = None /\ current \in active \ todo /\ current \in Threads
        /\ UNCHANGED <<algorithm, todo>> /\ u \in active
    BY <1>0, <1>1, <1>10 DEF Block, Complete, Idle, Returns, TypeOK, CandidatesActive
  <2>2. ASSUME u = current, algorithm = "fair" PROVE Before(t, u)'
    <3>1. older' = Stamped(current)
      BY <1>1, <1>10, <2>2 DEF Block, Complete, Returns
    <3>2. <<t, u>> \in older'
      BY <1>2, <2>1, <2>2, <3>1, StampedOrder
    <3> QED BY <2>1, <2>2, <3>2 DEF Before
  <2> QED BY <1>3, <1>4, <2>1, <2>2
<1> QED BY <1>0, <1>5, <1>6, <1>7, <1>8, <1>9, <1>10 DEF Next, Scheduler

\* The record of who passed whom holds threads.
LEMMA PassedType ==
  ASSUME IInv, IInv', HInv, HNext
  PROVE  passed' \in [Threads -> SUBSET Threads]
<1>1. ASSUME NEW t \in Threads, NEW u \in passed'[t] PROVE u \in Threads
  BY <1>1, PassedStep DEF IInv, TypeOK, HInv, Idle
<1>2. passed' = [t \in Threads |-> passed'[t]]
  BY DEF HNext
<1> QED BY <1>1, <1>2

\* Every step of the scheduler with its history keeps HInv.
LEMMA HInvStep == IInv /\ IInv' /\ InitInv /\ HInv /\ [HNext]_hvars => HInv'
<1> SUFFICES ASSUME IInv, IInv', InitInv, HInv, [HNext]_hvars PROVE HInv'
  OBVIOUS
<1>1. CASE HNext
  BY <1>1, GreedyPrefixStep, OvertakeStep, PassedType DEF HInv, HNext
<1>2. CASE UNCHANGED hvars
  BY <1>2 DEF hvars, vars, HInv, GreedyPrefix, OvertakeInv, Waiting, Before
<1> QED BY <1>1, <1>2

\* Under either algorithm a thread that can run is overtaken at most once by
\* each other thread: _get_fair_thread_order is fair, and so is the greedy
\* order, because a pass tries every thread and both orders are fixed in it.
THEOREM NoSecondOvertaking == HSpec => OvertakenOnce
<1>1. HInit => IInv /\ InitInv /\ HInv
  BY InitInvariant, InitInvInit, HInvInit DEF HInit
<1>2. [HNext]_hvars => [Next]_vars
  BY DEF HNext, hvars
<1>3. IInv /\ InitInv /\ HInv /\ [HNext]_hvars => (IInv /\ InitInv /\ HInv)'
  BY <1>2, StepInvariant, InitInvStep, HInvStep
<1>4. ASSUME IInv, InitInv, HInv, HNext, NEW t \in Threads,
             Idle, ~Idle', current' # t, Waiting(t)
      PROVE  current' \notin passed[t]
  <2>1. PICK u \in Threads : Switch(u)
    BY <1>4 DEF HNext, Next, Scheduler, Idle, InitEnds, PassBegins, AllDone, Deadlocks,
                Skip, Work, Block, Complete, Fail
  <2>2. current' = u
    BY <2>1 DEF Switch
  <2> QED BY <1>4, <2>1, <2>2, NoSecond
<1>5. IInv /\ InitInv /\ HInv /\ [HNext]_hvars =>
        [\A t \in Threads : Idle /\ ~Idle' /\ current' # t /\ Waiting(t) =>
           current' \notin passed[t]]_hvars
  BY <1>4
<1> QED BY <1>1, <1>3, <1>5, PTL DEF HSpec, OvertakenOnce
=============================================================================
