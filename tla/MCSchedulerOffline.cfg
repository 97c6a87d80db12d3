\* The bootloader reports one CPU while MAX_CORES is two; no task exits.
CONSTANTS
  t1 = t1
  t2 = t2
  t3 = t3
  t4 = t4
  t5 = t5
  Null = Null
  Tasks <- MCTasks
  BootTasks <- MCBootTasks
  Exiting <- MCNoExit
  MaxCores = 2
  TotalCpus = 1
  CounterFloor <- MCCounterFloor
SPECIFICATION FairSpec
PROPERTY EveryTaskRuns
