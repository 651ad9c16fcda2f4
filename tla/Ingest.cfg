SPECIFICATION IngestSpec
CONSTANTS
  Sym = {a}
  Initial = {a}
  BackfillLimit = 2
  BackoffSteps = 1
  MaxReconnects = None
  None = None
  MaxMinute = 4
  MaxPending = 2
INVARIANTS
  EmittedIsAccounted
  SeamlessCoverage
  DownIsQuiet
PROPERTY
  FinalStays
