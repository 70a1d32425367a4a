CONSTANTS
  Task = {t1, t2, t3}
  Idle = idle
  Boot = boot
  Nil = nil
  Xsave = TRUE
  \* Only the idle mark (3) matters in _pri: memory the firmware has cleared reads
  \* as Highest, and Lowest stands for any other value that is not the mark.
  FreshPri = {0, 2}
SPECIFICATION Spec
INVARIANTS
  TypeOK
  QueuesWellFormed
  NoTaskLost
  ContextsConsistent
PROPERTIES
  ImplementsLifecycle
  QueuedTaskRuns
