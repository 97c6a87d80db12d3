---- MODULE Scheduler ----
(***************************************************************************)
(* Per-CPU round-robin scheduling and the kernel-task lifecycle:          *)
(*   src/kernel/arch/x86_64/scheduler/scheduler.c   (schedule, sched_task, *)
(*                                                   sched_remove_task)    *)
(*   src/kernel/arch/x86_64/tasks/task_manager.c    (find_least_busy_cpu,  *)
(*                       create_and_schedule_kernel_task, task_exit)       *)
(*   src/kernel/arch/x86_64/smp/smp.c               (smp_init, ap_entry)   *)
(*   src/kernel/arch/x86_64/interrupt_controllers/apic.c (timer handler)   *)
(*                                                                         *)
(* Each per-core run queue (an intrusive circular list with a head node)  *)
(* is a sequence, first element = runqueue->next.  A task whose node was  *)
(* list_del'ed has a self-linked node; schedule() follows that link.      *)
(* Every operation runs under its run-queue lock with local interrupts    *)
(* off (spinlock_lock_intsave, or the interrupt gate of the timer), so    *)
(* each is one atomic step.                                                *)
(***************************************************************************)
EXTENDS Naturals, Sequences, SequencesExt, FiniteSets

CONSTANTS
  Tasks,        \* task objects
  BootTasks,    \* the tasks smp_init creates before waking the APs
  Exiting,      \* tasks whose code calls task_exit
  MaxCores,     \* MAX_CORES
  TotalCpus,    \* cpu_count reported by the bootloader
  CounterFloor, \* bound: task_exit is not taken below this counter value
  Null

ASSUME BootTasks \subseteq Tasks /\ Exiting \subseteq Tasks
ASSUME TotalCpus \in 1 .. MaxCores

Cores == 0 .. MaxCores - 1

(* Mutant: the core id is taken with a pre-increment, ++cpu_id_ctr. *)
NextCoreIdPreIncrement(ctr) == ctr + 1

(* The id a starting core takes: init_percpu_data(cpu_id_ctr++). *)
NextCoreId(ctr) == ctr

VARIABLES
  runqueue,      \* __percpu_cpu_runqueue
  current,       \* __percpu_current_task
  task_counter,  \* __percpu_task_counter
  cpu_id,        \* task->cpu_id
  state,         \* task->state; "NEW" for an object not created yet
  online,        \* cores that have run their first schedule()
  cpu_id_ctr,    \* cpu_id_ctr of smp.c
  all_tasks      \* the all_tasks list of scheduler.c

vars == <<runqueue, current, task_counter, cpu_id, state, online, cpu_id_ctr,
          all_tasks>>

Init ==
  /\ runqueue = [c \in Cores |-> <<>>]
  /\ current = [c \in Cores |-> Null]
  /\ task_counter = [c \in Cores |-> 0]
  /\ cpu_id = [t \in Tasks |-> Null]
  /\ state = [t \in Tasks |-> "NEW"]
  /\ online = {}
  /\ cpu_id_ctr = 0
  /\ all_tasks = <<>>

----
(* list_add_tail(node, head): the node becomes the last element. *)
ListAddTail(s, x) == Append(s, x)

(* list_del(entry): the entry is unlinked from its list (and its own     *)
(* links point to itself, see NextTask).                                 *)
ListDel(s, x) == RemoveFirst(s, x)

(* sched_task(task, cpu_id): list_add_tail on the core's run queue under *)
(* its lock.                                                              *)
SchedTask(rq, t, c) == [rq EXCEPT ![c] = ListAddTail(@, t)]

(* sched_remove_task(task): list_del of its node under the lock of       *)
(* task->cpu_id's queue.                                                  *)
SchedRemoveTask(rq, t) == [rq EXCEPT ![cpu_id[t]] = ListDel(@, t)]

(* create_kernel_task: create_task (TASK_RUNNING, no memory descriptor,  *)
(* no parent, empty child and zombie lists), a kernel stack, and the     *)
(* task appended to all_tasks under task_list_lock.  Both kmallocs are   *)
(* taken to succeed: on NULL, create_and_schedule_kernel_task            *)
(* dereferences it.                                                       *)
CreateKernelTask(t) ==
  /\ state' = [state EXCEPT ![t] = "RUNNING"]
  /\ all_tasks' = ListAddTail(all_tasks, t)

----
(* Mutant: the scan updates min but never id. *)
LeastBusyNoIndex(ctr) == 0

(* find_least_busy_cpu: scan 0 .. MAX_CORES-1 keeping the first strict    *)
(* minimum of the counters.                                                *)
LeastBusy(ctr) ==
  CHOOSE i \in Cores : \A j \in Cores :
    \/ ctr[i] < ctr[j]
    \/ ctr[i] = ctr[j] /\ i <= j

(* Mutant: no wrap from the last node back to the head. *)
NextTaskNoWrap(cur, rq) ==
  IF cur = Null
  THEN IF rq = <<>> THEN Null ELSE Head(rq)
  ELSE IF ~Contains(rq, cur) THEN cur
  ELSE LET i == CHOOSE k \in 1 .. Len(rq) : rq[k] = cur
       IN IF i = Len(rq) THEN Null ELSE rq[i + 1]

(* The task schedule() picks on a core whose current task is cur and     *)
(* whose queue is rq: with no current task the head of the queue;        *)
(* otherwise the successor of current's node, wrapping from the last     *)
(* element to the head.  A node removed by list_del links to itself, so  *)
(* the successor of a removed task is the task itself.                   *)
NextTask(cur, rq) ==
  IF cur = Null
  THEN IF rq = <<>> THEN Null ELSE Head(rq)
  ELSE IF ~Contains(rq, cur) THEN cur
  ELSE LET i == CHOOSE k \in 1 .. Len(rq) : rq[k] = cur
       IN IF i = Len(rq) THEN rq[1] ELSE rq[i + 1]

(* The task that runs after schedule(): next when it is a task other     *)
(* than current; otherwise load_next_task(&current->cpu_context) resumes *)
(* current (with current NULL the core has no task to run).              *)
SwitchTo(cur, rq) ==
  LET nxt == NextTask(cur, rq) IN
  IF nxt # Null /\ nxt # cur THEN nxt ELSE cur

(* schedule() on core c, from its own run queue. *)
Schedule(c) ==
  current' = [current EXCEPT ![c] = SwitchTo(current[c], runqueue[c])]

----
(* create_and_schedule_kernel_task: create_kernel_task (state RUNNING),   *)
(* find_least_busy_cpu, t->cpu_id = id, sched_task appends to the queue.  *)
(* smp_init creates the boot tasks; after boot any running task may call  *)
(* it.                                                                    *)
create_and_schedule_kernel_task(t) ==
  /\ state[t] = "NEW"
  /\ t \in BootTasks \/ \E c \in online : current[c] # Null
  /\ LET id == LeastBusy(task_counter) IN
     /\ task_counter' = [task_counter EXCEPT ![id] = @ + 1]
     /\ cpu_id' = [cpu_id EXCEPT ![t] = id]
     /\ runqueue' = SchedTask(runqueue, t, id)
  /\ CreateKernelTask(t)
  /\ UNCHANGED <<current, online, cpu_id_ctr>>

(* The next core comes up (the BSP in the loop of smp_init, an AP in     *)
(* ap_entry_point) after smp_init has created the boot tasks: it takes   *)
(* the next core id under cpu_id_init and calls schedule().  Taking the  *)
(* id and the first schedule() are one step: nothing between them reads  *)
(* or writes state another core uses.                                    *)
CoreStart ==
  /\ cpu_id_ctr < TotalCpus
  /\ \A t \in BootTasks : state[t] # "NEW"
  /\ LET c == NextCoreId(cpu_id_ctr) IN
     /\ online' = online \cup {c}
     /\ current' = [current EXCEPT ![c] = SwitchTo(current[c], runqueue[c])]
  /\ cpu_id_ctr' = cpu_id_ctr + 1
  /\ UNCHANGED <<runqueue, task_counter, cpu_id, state, all_tasks>>

(* apic_timer_handler on core c: EOI, then schedule().  The timer runs    *)
(* once the core has entered a task (boot_idle_task enables it).          *)
TimerTick(c) ==
  /\ c \in online
  /\ current[c] # Null
  /\ Schedule(c)
  /\ UNCHANGED <<runqueue, task_counter, cpu_id, state, online, cpu_id_ctr,
                 all_tasks>>

(* task_exit(code) by the task running on core c: ZOMBIE, unlink from its *)
(* queue, decrement its core's counter, (no memory descriptor, parent or *)
(* children for a kernel task), then schedule().                          *)
task_exit(c) ==
  LET t == current[c] IN
  /\ c \in online
  /\ t \in Exiting
  /\ task_counter[cpu_id[t]] > CounterFloor
  /\ state' = [state EXCEPT ![t] = "ZOMBIE"]
  /\ runqueue' = SchedRemoveTask(runqueue, t)
  /\ task_counter' = [task_counter EXCEPT ![cpu_id[t]] = @ - 1]
  /\ current' = [current EXCEPT ![c] = SwitchTo(t, runqueue'[c])]
  /\ UNCHANGED <<cpu_id, online, cpu_id_ctr, all_tasks>>

(* The kernel as it runs: no code calls task_exit (the only tasks are    *)
(* smp_init's boot_idle_task, which never returns).                      *)
BootNext ==
  \/ \E t \in Tasks : create_and_schedule_kernel_task(t)
  \/ CoreStart
  \/ \E c \in Cores : TimerTick(c)

Next == BootNext \/ \E c \in Cores : task_exit(c)

(* smp_init creates its boot tasks and the cores come up (limine starts  *)
(* every AP given a goto_address); the APIC timer of a core keeps firing *)
(* once enabled.                                                         *)
Fairness ==
  /\ \A t \in BootTasks : WF_vars(create_and_schedule_kernel_task(t))
  /\ WF_vars(CoreStart)
  /\ \A c \in Cores : WF_vars(TimerTick(c))

Spec == Init /\ [][Next]_vars
FairSpec == Init /\ [][BootNext]_vars /\ Fairness

----
(* Properties                                                              *)
----

TypeOK ==
  /\ runqueue \in [Cores -> Seq(Tasks)]
  /\ current \in [Cores -> Tasks \cup {Null}]
  /\ task_counter \in [Cores -> Int]
  /\ cpu_id \in [Tasks -> Cores \cup {Null}]
  /\ state \in [Tasks -> {"NEW", "RUNNING", "ZOMBIE"}]
  /\ online \subseteq Cores
  /\ cpu_id_ctr \in 0 .. TotalCpus

(* Every core that has come up runs a task: smp_init creates its boot    *)
(* tasks before waking the APs and find_least_busy_cpu spreads them, so  *)
(* no core's first schedule() finds an empty queue and loads the context *)
(* of a NULL current task.                                               *)
EveryCoreRuns ==
  \A c \in online : current[c] # Null

(* A task that exited is never resumed: after task_exit the core runs     *)
(* another task (spec: task_exit "schedules away and must not return").   *)
NoZombieResumed ==
  \A c \in Cores : current[c] # Null => state[current[c]] # "ZOMBIE"

(* Round robin: every created, runnable task runs again and again (under *)
(* the periodic timer of every core that came up).                       *)
EveryTaskRuns ==
  \A t \in Tasks : state[t] = "RUNNING" ~> \E c \in Cores : current[c] = t

=============================================================================
