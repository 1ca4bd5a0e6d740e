\* Two worker threads while the driver is loaded and unloaded: one may fault,
\* or read back a wrong value, and the other not.
SPECIFICATION TestSpec
CONSTANTS
  loader = loader
  main = main
  w1 = w1
  w2 = w2
  NULL = NULL
  Threads = {loader, main, w1, w2}
  Loader = loader
  Main = main
  Workers <- TwoWorkers
  REGISTERS = 2
  Limit <- LoadedAndGone
  KthreadAddress <- Addresses
  MAX_THREADS = 4
  PREFILL_BUFFERS = 1
  XmmVals <- RegisterFiles
  X87Vals <- RegisterFiles
  Processors <- SseOnly
  FxsrMovesXmm = TRUE
CHECK_DEADLOCK FALSE
INVARIANTS
  VerdictIsFinal
  OkMeansHeld
