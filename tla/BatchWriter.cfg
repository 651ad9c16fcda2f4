SPECIFICATION FairSpec
CONSTANTS
  Item = {r1, r2}
  MaxSize = 2
  MaxAccepted = 5
INVARIANTS
  TypeOK
  Conservation
  FullBufferIsSignalled
  StopDrains
PROPERTIES
  ImplementsOutbox
  StopReturns
  AcceptedIsSettled
