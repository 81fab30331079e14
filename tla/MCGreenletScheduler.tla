------------------------ MODULE MCGreenletScheduler -------------------------
EXTENDS SchedulerHistory

CONSTANTS compute, dm0, dm1

\* program.py adds the threads of a core in this order.
MCThreads == {compute, dm0, dm1}
MCPosition == [t \in MCThreads |-> IF t = compute THEN 0 ELSE IF t = dm0 THEN 1 ELSE 2]
=============================================================================
