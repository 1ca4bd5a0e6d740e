\* Two worker threads on a driver that stays loaded once it is.
SPECIFICATION TestSpec
CONSTANTS
  loader = loader
  main = main
  w1 = w1
  w2 = w2
  NULL = NULL
  Threads = {loader, main, w1, w2}
  Loader = loader
  Main = main
  Workers <- TwoWorkers
  REGISTERS = 2
  Limit <- LoadedOnce
  KthreadAddress <- Addresses
  MAX_THREADS = 4
  PREFILL_BUFFERS = 3
  XmmVals <- RegisterFiles
  X87Vals <- RegisterFiles
  Processors <- WithoutSse2
  FxsrMovesXmm = TRUE
CHECK_DEADLOCK FALSE
INVARIANTS
  VerdictIsFinal
  NoForeignPattern
  WrongOnlyIfUnowned
  OkMeansHeld
