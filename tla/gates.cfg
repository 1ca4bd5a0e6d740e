\* Both drivers are loaded and unloaded again and again while the value is edited.
SPECIFICATION GatesSpec
CONSTANTS
  NULL = NULL
  Values <- KindsOfValues
  Processors <- AllProcessors
INVARIANTS
  GatesTypeOK
  NothingHeld
  RefusedForCause
  DeclinesIfItCanLook
  NtverTells
