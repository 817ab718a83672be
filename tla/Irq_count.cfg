SPECIFICATION RecvSpec
CONSTANTS
  t1 = t1
  t2 = t2
  NULL = NULL
  ANY = ANY
  Plain = Plain
  Payload <- MCPayload
  Thread = {t1, t2}
  Boot = t1
  PRIO_MAX = 1
  MAX_THREADS = 2
  QUANTUM = 1
  MAX_CHANNELS = 1
  CAPACITY = 2
  GEN_MOD = 8
  MaxCreate = 2
  Types = {1, 2}
  IRQ_TYPE = 1
  Calls <- Receivers
  Irq = {irq1}
  MAX_SUBSCRIPTIONS = 1
  MaxSubscribe = 1
  MaxSequence = 2
INVARIANT RingSettled
