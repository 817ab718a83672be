SPECIFICATION IrqSpec
CONSTANTS
  t1 = t1
  NULL = NULL
  ANY = ANY
  Plain = Plain
  Payload <- MCPayload
  Thread = {t1}
  Boot = t1
  PRIO_MAX = 1
  MAX_THREADS = 1
  QUANTUM = 1
  MAX_CHANNELS = 1
  CAPACITY = 2
  GEN_MOD = 8
  MaxCreate = 2
  Types = {1}
  IRQ_TYPE = 1
  Calls <- Driver
  Irq = {irq1, irq2}
  MAX_SUBSCRIPTIONS = 2
  MaxSubscribe = 2
  MaxSequence = 3
SYMMETRY IrqSymmetry
INVARIANTS IrqTypeOK GapsAreDrops SubscriptionKept NoStrayInterrupt
