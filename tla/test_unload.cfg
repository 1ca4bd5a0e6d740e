\* The program while the driver is loaded and unloaded, under a fair scheduler.
SPECIFICATION FairTestSpec
CONSTANTS
  loader = loader
  main = main
  w1 = w1
  w2 = w2
  NULL = NULL
  Threads = {loader, main, w1}
  Loader = loader
  Main = main
  Workers <- OneWorker
  REGISTERS = 2
  Limit <- LoadedAndGone
  KthreadAddress <- Addresses
  MAX_THREADS = 4
  PREFILL_BUFFERS = 1
  XmmVals <- RegisterFiles
  X87Vals <- RegisterFiles
  Processors <- AllProcessors
  FxsrMovesXmm = TRUE
CHECK_DEADLOCK FALSE
INVARIANTS
  TestTypeOK
  LoadedMeansNoFault
  MmxAlwaysWorks
PROPERTIES
  TestEnds
