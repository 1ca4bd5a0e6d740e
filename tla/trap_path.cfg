\* Three threads on two buffers, colliding in a table of three slots, with x87
\* state and two XMM values, on a processor whose FXSAVE leaves XMM out while
\* CR4.OSFXSR is clear.
SPECIFICATION Spec
CONSTANTS
  t1 = t1
  t2 = t2
  t3 = t3
  NULL = NULL
  Threads = {t1, t2, t3}
  Loader = t1
  KthreadAddress <- Addresses3
  MAX_THREADS = 3
  PREFILL_BUFFERS = 2
  XmmVals = {1, 2}
  X87Vals = {1}
  FxsrMovesXmm = FALSE
INVARIANTS
  TypeOK
  BuffersPartitioned
  ProbeReachesEntry
  OwnerIsLive
  Isolation
  TrackedBeforeSse
  X87Preserved
  PreservedWhenOwned
PROPERTIES
  ImplementsContract
