\* Two workers, two callers, three tasks, one shutdown.  The pool really stops
\* when every worker has left, so deadlock is not an error; liveness: no symmetry.
SPECIFICATION FairSpec
CONSTANTS
  NoThread = NoThread
  NoTask = NoTask
  Workers = {w1, w2}
  Submitters = {s1, s2}
  Tasks = {t1, t2, t3}
INVARIANTS TypeOK ActiveCount NeverTakesNothing DrainedAtExit WorkConserving
PROPERTIES RunsOnce AcceptedTaskRuns ShutdownReturns ImplementsTaskPool
CHECK_DEADLOCK FALSE
