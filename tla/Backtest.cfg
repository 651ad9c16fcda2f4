SPECIFICATION Spec
CONSTANTS
  Close = {1, 2}
  Gap = {1, 2}
  Regime = {up, down}
  Type = {buy}
  Horizons = {1, 2}
  DecisionHorizon = 2
  Lag = 1
  Window = 1
  Scale = 2
  Origin = {"SYNTHETIC"}
  Mode = {"edge_evaluation"}
  None = None
  MaxCandles = 4
INVARIANT
  ReturnsAreSettled
PROPERTIES
  OneRegimeIsGlobal
  AllowIsEarned
