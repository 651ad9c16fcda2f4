SPECIFICATION FairSpec
CONSTANTS
  RunId = {r1, r2, r3}
  Supervisor = Supervisor
INVARIANTS
  PartsWithinTheirRun
  WriterOutlivesFeed
  OnePool
PROPERTIES
  ComesBack
  SignalEndsRun
CHECK_DEADLOCK FALSE
