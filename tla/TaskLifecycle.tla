---------------------------- MODULE TaskLifecycle ----------------------------
(***************************************************************************)
(* What the cooperative task system promises of one CPU, without queues,   *)
(* priorities or stacks: a created task is ready until it runs, a running  *)
(* task is ready again when it yields, a task that returns never runs      *)
(* again, nothing becomes ready or is forgotten on its own, and the CPU    *)
(* idles only when no task is ready.                                       *)
(***************************************************************************)

CONSTANT Task     \* the tasks that can be created

VARIABLES status, \* the life of each task
          cpu     \* what the CPU is doing

lcVars == <<status, cpu>>

Status == {"unborn", "ready", "running", "finished"}

Ready == {t \in Task : status[t] = "ready"}

LcInit ==
  /\ status = [t \in Task |-> "unborn"]
  /\ cpu = "boot"

\* A task is created, by the boot code or by the running task.
Spawn(t) ==
  /\ cpu \in {"boot", "task"}
  /\ status[t] = "unborn"
  /\ status' = [status EXCEPT ![t] = "ready"]
  /\ UNCHANGED cpu

\* The boot code hands the CPU to a first task.
Start(t) ==
  /\ cpu = "boot"
  /\ t \in Ready
  /\ status' = [status EXCEPT ![t] = "running"]
  /\ cpu' = "task"

\* The running task gives way to one that is ready, and stays ready itself.
GiveWay(s, t) ==
  /\ status[s] = "running"
  /\ t \in Ready
  /\ status' = [status EXCEPT ![s] = "ready", ![t] = "running"]
  /\ UNCHANGED cpu

\* The running task finishes: a ready task takes the CPU if there is one,
\* else the CPU idles, or stops for good.
Finish(s) ==
  /\ status[s] = "running"
  /\ \/ \E t \in Ready :
          /\ status' = [status EXCEPT ![s] = "finished", ![t] = "running"]
          /\ UNCHANGED cpu
     \/ /\ Ready = {}
        /\ status' = [status EXCEPT ![s] = "finished"]
        /\ cpu' \in {"idle", "halted"}

LcNext ==
  \/ \E t \in Task : Spawn(t) \/ Start(t) \/ Finish(t)
  \/ \E s, t \in Task : GiveWay(s, t)

LcSpec == LcInit /\ [][LcNext]_lcVars

=============================================================================
