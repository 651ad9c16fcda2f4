SPECIFICATION FactorySpec
CONSTANTS
  Sym = {a, b}
  Initial = {a}
  BackfillLimit = 2
  BackoffSteps = 2
  MaxReconnects = None
  None = None
  MaxMinute = 1
INVARIANTS
  StreamsFollowSymbols
  ConnectedMeansSession
  LoopEndsAtLimit
PROPERTIES
  ImplementsContract
  EverySymbolServed
  Reconnects
  ReceivedIsEmitted
