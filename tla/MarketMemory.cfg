SPECIFICATION Spec
CONSTANTS
  Sym = {a, b}
  FastPeriod = 2
  SlowPeriod = 3
  WilderPeriod = 2
  VolumeWindow = 2
  Exponent = {0, 1}
  None = None
  BreadthWindow = 2
  HighVol = 75
  MaxMessages = 4
INVARIANTS
  IndicatorsMatchHistory
  BreadthMatchesQuotes
  ImprovementNeverHurts

  
