CONSTANTS
  Task = {t1, t2, t3, t4, t5}
  Worker = {w1, w2, w3}
  NoTask = NoTask
SPECIFICATION FairSpec
INVARIANTS NoLostWakeup StopReachesAll
PROPERTIES ImplementsQueue TasksRun StopEnds
CHECK_DEADLOCK FALSE
