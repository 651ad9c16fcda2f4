SPECIFICATION Spec
CONSTANTS
  MaxPrice = 2
  Vol = {0, 1, 3}
  None = None
  BreakoutWindow = 2
  PumpWindow = 1
  SpikeWindow = 2
  PumpPct = 50
  SpikeMultiplier = 2
  HighVol = 1
  SureVol = 3
  BackfillLimit = 1
  MaxMinute = 1
INVARIANTS
  NothingStale
  SignalChain
PROPERTY
  EventOnEntry
