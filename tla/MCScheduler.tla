---- MODULE MCScheduler ----
(* Model values and definitions for checking Scheduler with TLC.  Two    *)
(* cores stand for MAX_CORES; the boot tasks are one per core, as the    *)
(* four boot_idle_task of smp_init are for MAX_CORES = 4.                *)
EXTENDS Scheduler

CONSTANTS t1, t2, t3, t4, t5

MCTasks == {t1, t2, t3, t4, t5}
MCBootTasks == {t1, t2}
MCNoExit == {}
MCExiting == {t1, t3}
MCCounterFloor == -1

=============================================================================
