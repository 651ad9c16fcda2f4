SPECIFICATION Spec
CONSTANTS
  Close = {1, 2}
  Gap = {1, 2}
  Regime = {up, down}
  Type = {buy}
  Horizons = {1, 2}
  DecisionHorizon = 2
  Lag = 1
  Window = 1
  Scale = 2
  Origin = {"REAL", "SYNTHETIC"}
  Mode = {"edge_evaluation"}
  None = None
  MaxCandles = 2
INVARIANT
  EdgeEvaluationIsReal
