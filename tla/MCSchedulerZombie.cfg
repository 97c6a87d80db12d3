\* A task calls task_exit: does the core move on to another task?
CONSTANTS
  t1 = t1
  t2 = t2
  t3 = t3
  t4 = t4
  t5 = t5
  Null = Null
  Tasks <- MCTasks
  BootTasks <- MCBootTasks
  Exiting <- MCExiting
  MaxCores = 2
  TotalCpus = 2
  CounterFloor <- MCCounterFloor
SPECIFICATION Spec
INVARIANT NoZombieResumed
