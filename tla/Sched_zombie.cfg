SPECIFICATION Spec
CONSTANTS
  t1 = t1
  t2 = t2
  t3 = t3
  p1 = p1
  p2 = p2
  NULL = NULL
  Thread = {t1, t2, t3}
  Process = {p1, p2}
  ProcOf <- MCProcOf
  Boot = t1
  PRIO_MAX = 2
  MAX_THREADS = 3
  QUANTUM = 2
  Priorities = {0}
  Syscalls = {"yield", "exit"}
PROPERTY ZombieIsFinal
