SPECIFICATION FairSpec
CONSTANTS
  t1 = t1
  t2 = t2
  t3 = t3
  NULL = NULL
  ANY = ANY
  Plain = Plain
  Payload = {Plain}
  Thread = {t1, t2, t3}
  Boot = t1
  PRIO_MAX = 1
  MAX_THREADS = 3
  QUANTUM = 1
  MAX_CHANNELS = 1
  CAPACITY = 4
  GEN_MOD = 8
  MaxCreate = 1
  Types = {1}
  Calls <- Pair
PROPERTY CallReturns
