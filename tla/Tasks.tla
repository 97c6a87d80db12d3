---- MODULE Tasks ----
(***************************************************************************)
(* User task objects and PIDs of src/kernel/arch/x86_64/tasks/tasks.c     *)
(* (create_user_task, the pid counter, task_destroy) and the memory-      *)
(* descriptor half of task_exit in task_manager.c.                        *)
(*                                                                         *)
(* A task object is a model value; freed objects stay in Tasks with       *)
(* whatever they last held, and kmalloc may hand them out again.          *)
(* create_task sets task->parent to NULL and nothing in the source sets   *)
(* it to anything else (fork and waitpid are declared in tasks.h, never   *)
(* written), so the children and zombie lists stay empty: task_exit's     *)
(* task_add_zombie and task_orphan_children calls are never taken and are *)
(* left out with the lists.  The scheduling half of task_exit             *)
(* (sched_remove_task, the counter, schedule) is in Scheduler.            *)
(***************************************************************************)
EXTENDS Naturals, Sequences, SequencesExt

CONSTANTS
  Tasks,   \* task objects
  PidMax   \* PID_MAX

VARIABLES
  live,        \* objects kmalloc'ed by create_task and not yet kfree'd
  pid,         \* task->pid
  state,       \* task->state
  md,          \* task->md # NULL
  all_tasks,   \* all_tasks
  pid_counter  \* pid_counter

vars == <<live, pid, state, md, all_tasks, pid_counter>>

States == {"RUNNING", "ZOMBIE"}

Init ==
  /\ live = {}
  /\ pid = [t \in Tasks |-> 0]
  /\ state = [t \in Tasks |-> "RUNNING"]
  /\ md = [t \in Tasks |-> FALSE]
  /\ all_tasks = <<>>
  /\ pid_counter = 1

(* incr_pid_ctr: pid_counter++, back to 2 once it passes PID_MAX. *)
IncrPid(ctr) == IF ctr + 1 > PidMax THEN 2 ELSE ctr + 1

(* create_task's fields that outlive it: TASK_RUNNING (pid 0 and md NULL *)
(* are overwritten by create_user_task).                                  *)
CreateTask(t) == state' = [state EXCEPT ![t] = "RUNNING"]

(* create_user_task: create_task (its kmalloc failing is a step that      *)
(* changes nothing), a pid from incr_pid_ctr, a kmalloc'ed memory         *)
(* descriptor, and the task appended to all_tasks.  If the descriptor's   *)
(* kmalloc fails the task is kfree'd, the pid already taken.              *)
create_user_task(t) ==
  /\ t \notin live
  /\ CreateTask(t)
  /\ pid' = [pid EXCEPT ![t] = pid_counter]
  /\ pid_counter' = IncrPid(pid_counter)
  /\ \E mdAllocated \in BOOLEAN :
       /\ md' = [md EXCEPT ![t] = mdAllocated]
       /\ live' = IF mdAllocated THEN live \cup {t} ELSE live
       /\ all_tasks' = IF mdAllocated THEN Append(all_tasks, t) ELSE all_tasks

(* task_exit, task half: TASK_ZOMBIE and mm_free of the descriptor.      *)
(* current->parent is NULL, so no parent is told.                         *)
task_exit(t) ==
  /\ t \in live
  /\ state[t] = "RUNNING"
  /\ state' = [state EXCEPT ![t] = "ZOMBIE"]
  /\ md' = [md EXCEPT ![t] = FALSE]
  /\ UNCHANGED <<live, pid, all_tasks, pid_counter>>

(* task_destroy: off all_tasks under task_list_lock (the siblings node is *)
(* self-linked), mm_free of a descriptor left, kfree of the task.         *)
TaskDestroy(t) ==
  /\ t \in live
  /\ all_tasks' = RemoveFirst(all_tasks, t)
  /\ md' = [md EXCEPT ![t] = FALSE]
  /\ live' = live \ {t}
  /\ UNCHANGED <<pid, state, pid_counter>>

Next ==
  \E t \in Tasks : create_user_task(t) \/ task_exit(t) \/ TaskDestroy(t)

Spec == Init /\ [][Next]_vars

----
TypeOK ==
  /\ live \subseteq Tasks
  /\ pid \in [Tasks -> 0 .. PidMax]
  /\ state \in [Tasks -> States]
  /\ md \in [Tasks -> BOOLEAN]
  /\ all_tasks \in Seq(Tasks)
  /\ pid_counter \in 1 .. PidMax

====
