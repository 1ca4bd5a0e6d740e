SPECIFICATION Spec
CONSTANTS
  t1 = t1
  t2 = t2
  t3 = t3
  NULL = NULL
  Threads = {t1, t2, t3}
  Loader = t1
  KthreadAddress <- Addresses3
  MAX_THREADS = 3
  PREFILL_BUFFERS = 2
  XmmVals = {1}
  X87Vals = {}
  FxsrMovesXmm = TRUE
PROPERTIES
  AreaForEveryThread
