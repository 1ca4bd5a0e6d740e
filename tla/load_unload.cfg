\* Two threads next to the one that loads and unloads the driver,
\* under a fair scheduler.
SPECIFICATION FairLifeSpec
CONSTANTS
  t1 = t1
  t2 = t2
  t3 = t3
  NULL = NULL
  Threads = {t1, t2, t3}
  Loader = t1
  KthreadAddress <- Addresses
  MAX_THREADS = 3
  PREFILL_BUFFERS = 2
  XmmVals = {}
  X87Vals = {}
  Processors <- TwoProcessors
  FxsrMovesXmm = TRUE
INVARIANTS
  LifeTypeOK
  NoTornJump
  TrapPathMemory
  AreasAccounted
  MemoryReturned
  SseOnlyWhileHooked
PROPERTIES
  Settles
