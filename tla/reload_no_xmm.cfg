SPECIFICATION LifeSpec
CONSTANTS
  t1 = t1
  t2 = t2
  t3 = t3
  NULL = NULL
  Threads = {t1, t2, t3}
  Loader = t1
  KthreadAddress <- Addresses
  MAX_THREADS = 3
  PREFILL_BUFFERS = 1
  XmmVals = {1}
  X87Vals = {}
  Processors <- TheProcessor
  FxsrMovesXmm = FALSE
INVARIANTS
  IsolationWhileHooked
