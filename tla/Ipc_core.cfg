SPECIFICATION Spec
CONSTANTS
  t1 = t1
  t2 = t2
  t3 = t3
  NULL = NULL
  ANY = ANY
  Plain = Plain
  Payload = {Plain}
  Thread = {t1, t2, t3}
  Boot = t1
  PRIO_MAX = 1
  MAX_THREADS = 3
  QUANTUM = 1
  MAX_CHANNELS = 1
  CAPACITY = 2
  GEN_MOD = 8
  MaxCreate = 2
  Types = {1, 2}
  Calls <- ManagerAndUsers
INVARIANTS TypeOK RingSound HandleSound WaiterMatchesRing WaiterIsWaiting NoLostWakeup NoCrossTalk
PROPERTY ImplementsFifo
