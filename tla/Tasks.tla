-------------------------------- MODULE Tasks --------------------------------
(***************************************************************************)
(* The cooperative scheduler of one CPU (src/kernel/tasks.c).              *)
(*                                                                         *)
(* Every function of tasks.c reaches the context of the CPU it runs on     *)
(* through gs:0, no interrupt handler calls one, and a task keeps the CPU  *)
(* until it yields or returns: each call is one step.                      *)
(*                                                                         *)
(* A ready queue is an intrusive list: the level p stands for the address  *)
(* of its sentinel _ready_queues[p]._head, next[n] is n->_next and tail[p] *)
(* is _ready_queues[p]._tail.  All queues share the one _next field of a   *)
(* context, so a context put on two of them would join the lists.          *)
(*                                                                         *)
(* Switching stacks is modelled by who executes: onCpu is the context      *)
(* whose stack the processor is on, saved the contexts whose _stack holds  *)
(* a frame that can be resumed.                                            *)
(***************************************************************************)
EXTENDS Naturals, Sequences

CONSTANTS
  Task,     \* contexts tasks_create can still carve out of the task pool
  Idle,     \* the context of the idle task
  Boot,     \* the boot code, which runs on a stack of its own
  Nil,      \* the null pointer
  FreshPri, \* what the _pri of a new context may hold: the pool's memory
  Xsave     \* does the CPU have XSAVE?

Highest == 0
Normal  == 1
Lowest  == 2
NumPris == 3                      \* kTaskPri_NumPris marks the idle task
Level   == Highest .. Lowest

Context == Task \cup {Idle}
Node    == Context \cup Level     \* whatever has a _next field
Life    == {"unborn", "live", "returned"}

ASSUME ContextAssumption ==
  /\ Context \cap Level = {}
  /\ Idle \notin Task
  /\ Boot \notin Node
  /\ Nil \notin Node \cup {Boot}

ASSUME FreshPriAssumption == FreshPri \subseteq Nat

ASSUME XsaveAssumption == Xsave \in BOOLEAN

VARIABLES
  next,     \* _next of every context and every queue sentinel
  tail,     \* _tail of every ready queue
  order,    \* auxiliary: the contexts of each queue, as a sequence
  pri,      \* _pri of every context
  running,  \* _running_task
  onCpu,    \* the context the processor really executes
  saved,    \* the contexts whose _stack holds a frame to resume
  life,     \* how far the function of each task has come
  asked,    \* auxiliary: the priority each task was created with
  xarea,    \* whose extended state the XSAVE area of a context holds
  fpu,      \* whose extended state the registers hold
  mode,     \* "boot", "up", or "faulted"
  nullSave  \* has a context been saved through a null pointer?

queueVars == <<next, tail, order>>
cpuVars   == <<running, onCpu, saved, xarea, fpu>>
taskVars  == <<pri, life, asked>>
vars      == <<queueVars, cpuVars, taskVars, mode, nullSave>>

Elements(s) == {s[i] : i \in 1 .. Len(s)}

-----------------------------------------------------------------------------
(* The ready queues.                                                       *)

\* cpu_context_push_task spins forever on a queue in this condition.
Spins(nx, tl, p) == nx[p] = Nil /\ tl[p] # p

\* cpu_context_push_task: link t behind the tail of queue p.
PushNext(nx, tl, p, t) == [nx EXCEPT ![tl[p]] = t, ![t] = Nil]
PushTail(tl, p, t)     == [tl EXCEPT ![p] = t]

\* cpu_context_try_pop_task: unlink the first context of queue p.
PopNext(nx, p)     == [nx EXCEPT ![p] = nx[nx[p]]]
PopTailKept(nx, tl, p) == tl   \* variant: the emptied queue keeps its tail
PopTail(nx, tl, p) == IF nx[nx[p]] = Nil THEN [tl EXCEPT ![p] = p] ELSE tl

\* Variant: the levels are searched from the lowest up.
IsTopFromBelow(p) ==
  /\ next[p] # Nil
  /\ \A l \in Level : l > p => next[l] = Nil

\* _select_next_task_to_run looks from the highest level down and stops at
\* the first queue that holds a task.
IsTop(p) ==
  /\ next[p] # Nil
  /\ \A h \in Level : h < p => next[h] = Nil

\* Variant: the search stops one level short.
NothingAboveLowest == \A p \in Level \ {Lowest} : next[p] = Nil

NothingQueued == \A p \in Level : next[p] = Nil

\* Variant: the lowest level is taken for the mark of the idle task.
RequeuesAboveLowest(t) == pri[t] < Lowest

\* _select_next_task_to_run puts the running task back on a queue unless its
\* _pri says that it is the idle task.
Requeues(t) == pri[t] # NumPris

-----------------------------------------------------------------------------
(* Switching.                                                              *)

\* Variant: x86_64_task_switch saves whatever prev it is given.
SwitchAndSave(prev, t, frames) ==
  /\ running' = t
  /\ onCpu' = t
  /\ saved' = (frames \cup {prev}) \ {t}
  /\ xarea' = IF Xsave /\ prev # Nil THEN [xarea EXCEPT ![prev] = fpu] ELSE xarea
  /\ fpu' = IF Xsave THEN xarea[t] ELSE fpu

\* Variant: the extended state is restored before that of prev is saved.
SwitchRestoreFirst(prev, t, frames) ==
  /\ running' = t
  /\ onCpu' = t
  /\ saved' = (frames \cup ({prev} \ {Nil})) \ {t}
  /\ fpu' = IF Xsave THEN xarea[t] ELSE fpu
  /\ xarea' = IF Xsave /\ prev # Nil THEN [xarea EXCEPT ![prev] = fpu'] ELSE xarea

\* x86_64_task_switch from prev (which may be null) to t, with the extended
\* state of prev saved and that of t restored where the CPU can.  frames are
\* the contexts that can be resumed so far.
SwitchTo(prev, t, frames) ==
  /\ running' = t
  /\ onCpu' = t
  /\ saved' = (frames \cup ({prev} \ {Nil})) \ {t}
  /\ xarea' = IF Xsave /\ prev # Nil THEN [xarea EXCEPT ![prev] = fpu] ELSE xarea
  /\ fpu' = IF Xsave THEN xarea[t] ELSE fpu

\* _yield_to_next_task when _running_task is null and queue p is the first
\* that holds a task: nothing is put back and nothing is saved.
RunFirst(p, frames) ==
  /\ IsTop(p)
  /\ next' = PopNext(next, p)
  /\ tail' = PopTail(next, tail, p)
  /\ order' = [order EXCEPT ![p] = Tail(@)]
  /\ SwitchTo(Nil, next[p], frames)

-----------------------------------------------------------------------------
\* The XSAVE area of a new context is left as the pool's memory was found; that is
\* taken for the state the task starts with, as if it were its own.
Init ==
  /\ next = [n \in Node |-> Nil]
  /\ tail = [p \in Level |-> p]
  /\ order = [p \in Level |-> <<>>]
  /\ pri = [c \in Context |-> Highest]
  /\ running = Nil
  /\ onCpu = Boot
  /\ saved = {}
  /\ life = [t \in Task |-> "unborn"]
  /\ asked = [t \in Task |-> Normal]
  /\ xarea = [c \in Context |-> c]
  /\ fpu = Boot
  /\ mode = "boot"
  /\ nullSave = FALSE

\* tasks_create: a new context with a frame that enters _task_wrapper goes
\* to the end of the queue of the priority asked for.  Its _pri is not set.
tasks_create(t, p) ==
  /\ life[t] = "unborn"
  /\ ~Spins(next, tail, p)
  /\ next' = PushNext(next, tail, p, t)
  /\ tail' = PushTail(tail, p, t)
  /\ order' = [order EXCEPT ![p] = Append(@, t)]
  /\ \E v \in FreshPri : pri' = [pri EXCEPT ![t] = v]
  /\ life' = [life EXCEPT ![t] = "live"]
  /\ asked' = [asked EXCEPT ![t] = p]
  /\ saved' = saved \cup {t}
  /\ UNCHANGED <<running, onCpu, xarea, fpu, mode, nullSave>>

\* kernel_runtime_start creates the task of main().
CreateMain(t) ==
  /\ mode = "boot"
  /\ \A u \in Task : life[u] = "unborn"
  /\ tasks_create(t, Normal)

\* kernel_runtime_start then calls tasks_start_idle, which sets up the idle
\* task and leaves the boot code for good.  main is queued by now.
tasks_start_idle ==
  /\ mode = "boot"
  /\ mode' = "up"
  /\ pri' = [pri EXCEPT ![Idle] = NumPris]
  /\ \E p \in Level : RunFirst(p, saved \cup {Idle})
  /\ UNCHANGED <<life, asked, nullSave>>

\* The task that has the CPU: it may create tasks, yield, or return.
LiveOnCpu(t) == mode = "up" /\ onCpu = t /\ life[t] = "live"

CreateTask(t, p) ==
  /\ \E c \in Task : LiveOnCpu(c)
  /\ tasks_create(t, p)

\* tasks_yield by a task, or a turn of the loop of _idle_task.
Yields == mode = "up" /\ (onCpu = Idle \/ \E c \in Task : LiveOnCpu(c))

\* _yield_to_next_task with a running task and queue p the first that holds
\* one.  The running task goes to the end of the queue the new one came from,
\* whatever its own priority, unless its _pri says that it is the idle task.
YieldTo(p) ==
  /\ Yields
  /\ IsTop(p)
  /\ LET nx == PopNext(next, p)
         tl == PopTail(next, tail, p)
     IN IF Requeues(running)
          THEN /\ ~Spins(nx, tl, p)
               /\ next' = PushNext(nx, tl, p, running)
               /\ tail' = PushTail(tl, p, running)
               /\ order' = [order EXCEPT ![p] = Append(Tail(@), running)]
          ELSE /\ next' = nx
               /\ tail' = tl
               /\ order' = [order EXCEPT ![p] = Tail(@)]
  /\ SwitchTo(running, next[p], saved)
  /\ UNCHANGED <<taskVars, mode, nullSave>>

\* With nothing queued the caller just goes on.
YieldToSelf ==
  /\ Yields
  /\ NothingQueued
  /\ UNCHANGED vars

\* The function of the running task returns to _task_wrapper, which forgets
\* the task and yields with no task running.
ReturnTo(t, p) ==
  /\ LiveOnCpu(t)
  /\ life' = [life EXCEPT ![t] = "returned"]
  /\ RunFirst(p, saved)
  /\ UNCHANGED <<pri, asked, mode, nullSave>>

\* ... or, with nothing queued, falls through to the idle task.  This branch
\* saves into prev->_stack though prev is null: x86_64_task_switch is handed
\* the offset of _stack, not 0, and stores the stack pointer there.  The
\* store lands in low memory, or faults where page zero is not mapped.
ReturnToIdle(t) ==
  /\ LiveOnCpu(t)
  /\ NothingQueued
  /\ life' = [life EXCEPT ![t] = "returned"]
  /\ running' = Idle
  /\ nullSave' = TRUE
  /\ \/ /\ onCpu' = Idle
        /\ saved' = saved \ {Idle}
        /\ UNCHANGED mode
     \/ /\ mode' = "faulted"
        /\ UNCHANGED <<onCpu, saved>>
  /\ UNCHANGED <<queueVars, pri, asked, xarea, fpu>>

\* interrupts_isr_handler returns from a page fault to the store that faults.
FaultAgain ==
  /\ mode = "faulted"
  /\ UNCHANGED vars

Yield  == \E p \in Level : YieldTo(p)
Return == \E t \in Task : ReturnToIdle(t) \/ \E p \in Level : ReturnTo(t, p)

Next ==
  \/ \E t \in Task : CreateMain(t)
  \/ tasks_start_idle
  \/ \E t \in Task, p \in Level : CreateTask(t, p)
  \/ Yield
  \/ YieldToSelf
  \/ Return
  \/ FaultAgain

\* The boot code runs to its end, and tasks cooperate: the task that has the
\* CPU yields or returns sooner or later.
Fairness ==
  /\ WF_vars((\E t \in Task : CreateMain(t)) \/ tasks_start_idle)
  /\ WF_vars(Yield \/ Return)

Spec == Init /\ [][Next]_vars /\ Fairness

-----------------------------------------------------------------------------
(* Properties.                                                             *)

\* Every variable stays of its type; in particular the null pointer is never
\* saved or dispatched as if it were a context.
TypeOK ==
  /\ next \in [Node -> Context \cup {Nil}]
  /\ tail \in [Level -> Node]
  /\ order \in [Level -> Seq(Context)]
  /\ pri \in [Context -> Nat]
  /\ running \in Context \cup {Nil}
  /\ onCpu \in Context \cup {Boot}
  /\ saved \subseteq Context
  /\ life \in [Task -> Life]
  /\ asked \in [Task -> Level]
  /\ xarea \in [Context -> Context \cup {Boot}]
  /\ fpu \in Context \cup {Boot}
  /\ mode \in {"boot", "up", "faulted"}
  /\ nullSave \in BOOLEAN

\* Following _next from the sentinel of p visits the contexts of s in turn
\* and ends in null, and _tail is the last of them, or the sentinel.
IsList(nx, tl, p, s) ==
  IF s = <<>>
    THEN nx[p] = Nil /\ tl[p] = p
    ELSE /\ nx[p] = s[1]
         /\ \A i \in 1 .. Len(s) - 1 : nx[s[i]] = s[i + 1]
         /\ nx[s[Len(s)]] = Nil
         /\ tl[p] = s[Len(s)]

\* No context is on two queues, or twice on one.
Disjoint(od) ==
  \A p, r \in Level : \A i \in 1 .. Len(od[p]), j \in 1 .. Len(od[r]) :
    od[p][i] = od[r][j] => p = r /\ i = j

WellFormed(nx, tl, od) ==
  /\ \A p \in Level : IsList(nx, tl, p, od[p])
  /\ Disjoint(od)
  /\ \A p \in Level : Elements(od[p]) \subseteq Task

\* The queues are well formed although they share the _next field of a
\* context: each is a list that ends, no context is on two of them or twice
\* on one, and the idle task is on none; hence a push never spins.
QueuesWellFormed == WellFormed(next, tail, order)

OnQueue(od, t) == \E p \in Level : t \in Elements(od[p])

Queued(t) == OnQueue(order, t)

\* No task is lost and none runs again after it has returned: a task is
\* either the running one or on a queue exactly as long as its function has
\* not returned.
NoTaskLost ==
  \A t \in Task : 
    /\ life[t] = "live" <=> Queued(t) \/ (mode = "up" /\ onCpu = t)
    /\ ~(Queued(t) /\ onCpu = t)

\* Whenever a task executes, _running_task is that task (what _task_wrapper
\* asserts) and the extended registers are its own; whatever the scheduler
\* may resume has a frame to resume, and its extended state in its area.
ContextsConsistent ==
  /\ mode = "up" => running = onCpu /\ onCpu # Boot
  /\ onCpu \notin saved
  /\ mode # "boot" => onCpu = Idle \/ Idle \in saved
  /\ \A t \in Task : Queued(t) => t \in saved /\ xarea[t] = t
  /\ Xsave /\ onCpu \in Task => fpu = onCpu

\* How a state of the scheduler looks to TaskLifecycle.
StatusOf(t) ==
  CASE life[t] = "unborn"   -> "unborn"
    [] life[t] = "returned" -> "finished"
    [] life[t] = "live"     -> IF onCpu = t THEN "running" ELSE "ready"

CpuDoes ==
  CASE mode = "boot"    -> "boot"
    [] mode = "faulted" -> "halted"
    [] mode = "up"      -> IF onCpu = Idle THEN "idle" ELSE "task"

Lifecycle == INSTANCE TaskLifecycle WITH 
               status <- [t \in Task |-> StatusOf(t)], cpu <- CpuDoes

\* The scheduler keeps the promise of TaskLifecycle: queues, stacks and the
\* null _running_task of a task that returns implement its steps.
ImplementsLifecycle == Lifecycle!LcSpec

HigherBusy(p) == \E h \in Level : h < p /\ next[h] # Nil

\* A queued task runs sooner or later, unless there is work on a higher
\* level again and again: yields go round the queue they find first.
QueuedTaskRuns ==
  \A p \in Level :
    \/ []<>HigherBusy(p)
    \/ \A t \in Task : t \in Elements(order[p]) ~> onCpu = t

-----------------------------------------------------------------------------
(* What the sources say and the code does not do.                          *)

\* x86_64.asm:109 says that prev "may be 0 when idle tasks are started": a
\* switch without a previous task saves nothing.
SavesIntoContext == ~nullSave

\* tasks.c:105: "pick the next highest priority task available".  A task that
\* takes the CPU leaves no task of a higher priority queued.
RunsHighestPriority ==
  [][\A t \in Task : onCpu' = t /\ onCpu # t =>
       \A u \in Task : Queued(u)' => asked[u] >= asked[t]]_vars

=============================================================================
