SPECIFICATION FairSpec
CONSTANTS
  RunId = {r1, r2, r3}
  Supervisor = Supervisor
PROPERTY
  SignalStopsDaemon
CHECK_DEADLOCK FALSE
