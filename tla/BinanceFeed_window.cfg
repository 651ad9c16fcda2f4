SPECIFICATION Spec
CONSTANTS
  Sym = {a, b}
  Initial = {a}
  BackfillLimit = 2
  BackoffSteps = 2
  MaxReconnects = None
  None = None
  MaxMinute = 1
INVARIANT
  TrackedIsStreamed
