CONSTANTS
  N = 4
  Background <- BackgroundPair
SPECIFICATION FairSpec
INVARIANTS
  NoLostFatal
  OwnBlame
  QuietBeforeCleanup
  StatusAgrees
PROPERTIES
  FailureEndsRun
  ShutdownCompletes
