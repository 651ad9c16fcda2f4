SPECIFICATION Spec
CONSTANTS
  MaxPrice = 2
  Vol = {0, 1}
  None = None
  BreakoutWindow = 2
  PumpWindow = 1
  SpikeWindow = 1
  PumpPct = 50
  SpikeMultiplier = 2
  HighVol = 1
  SureVol = 1
  BackfillLimit = 2
  MaxMinute = 3
PROPERTY
  HistoryExcludesCurrent
