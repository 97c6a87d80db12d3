\* Boot as smp_init does, with every core of MAX_CORES present, and more
\* tasks created by running tasks; no task exits (no caller of task_exit).
CONSTANTS
  t1 = t1
  t2 = t2
  t3 = t3
  t4 = t4
  t5 = t5
  Null = Null
  Tasks <- MCTasks
  BootTasks <- MCBootTasks
  Exiting <- MCNoExit
  MaxCores = 2
  TotalCpus = 2
  CounterFloor <- MCCounterFloor
SPECIFICATION FairSpec
INVARIANT TypeOK
INVARIANT EveryCoreRuns
PROPERTY EveryTaskRuns
