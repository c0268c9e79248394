-------------------------- MODULE MCBackgroundTasks --------------------------
EXTENDS BackgroundTasks, TLC

CONSTANTS d1, d2, g1

\* One step, then two in parallel.
ForkOfSteps == <<NoGroup, g1, g1>>

\* Two steps, and a task of its own.
NoGroups == [t \in Tasks |-> NoGroup]

AllTasks == Tasks

\* All steps have the default; the task of its own may go first.
AllNormal == [t \in Tasks |-> 1]
HighLast == [t \in Tasks |-> IF t = NTasks THEN 0 ELSE 1]

DispatcherSymmetry == Permutations(Dispatchers)

=============================================================================
