\* Loads and reloads with threads that store XMM state, where FXSAVE
\* moves XMM state whatever CR4 says.
SPECIFICATION LifeSpec
CONSTANTS
  t1 = t1
  t2 = t2
  t3 = t3
  NULL = NULL
  Threads = {t1, t2, t3}
  Loader = t1
  KthreadAddress <- Addresses
  MAX_THREADS = 3
  PREFILL_BUFFERS = 2
  XmmVals = {1}
  X87Vals = {}
  Processors <- TheProcessor
  FxsrMovesXmm = TRUE
INVARIANTS
  IsolationWhileHooked
  HooksStartClean
