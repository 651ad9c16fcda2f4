-------------------------------- MODULE Regime ---------------------------------
(***************************************************************************)
(* symbols/breadth.py, analytics/regime.py and health.py: what one         *)
(* snapshot of the market says against the prices before it, and the       *)
(* regime and health score that follow from it and from the trends.        *)
(* Averages and ratios are exact fractions.                                *)
(***************************************************************************)
EXTENDS Indicators, FiniteSets

CONSTANTS
  BreadthWindow,        \* breadth_trend_window
  HighVol               \* high_volatility_pct, in percent of log 2

ASSUME BreadthAssumption == BreadthWindow \in Nat /\ BreadthWindow >= 2
ASSUME HighVolAssumption == HighVol \in Nat \ {0}

--------------------------------------------------------------------------------
(* BreadthEngine.update.  A snapshot is a function from the symbols in it  *)
(* to [price, change], the latter being the sign of change_pct.            *)

\* A history the row is compared with, before its price is appended to it.
Above(price, history) == history # <<>> /\ price * Len(history) > Total(history)
NewHigh(price, history) == history # <<>> /\ price > Max(ToSet(history))
NewLow(price, history) == history # <<>> /\ price < Min(ToSet(history))

Breadth(rows, histories) ==
  LET Count(Test(_)) == Cardinality({s \in DOMAIN rows : Test(s)}) IN
    [total |-> Cardinality(DOMAIN rows),
     advancers |-> Count(LAMBDA s : rows[s].change > 0),
     decliners |-> Count(LAMBDA s : rows[s].change < 0),
     above |-> Count(LAMBDA s : Above(rows[s].price, histories[s])),
     highs |-> Count(LAMBDA s : NewHigh(rows[s].price, histories[s])),
     lows |-> Count(LAMBDA s : NewLow(rows[s].price, histories[s]))]

Remember(rows, histories) ==
  [s \in DOMAIN histories |->
     IF s \in DOMAIN rows THEN Slide(histories[s], rows[s].price, BreadthWindow)
     ELSE histories[s]]

\* Mutant: no decliners, no ratio.
AdRatioZero(b) == [num |-> IF b.decliners = 0 THEN 0 ELSE b.advancers,
                   den |-> Max({b.decliners, 1})]

\* ad_ratio: without decliners it is the number of advancers.
AdRatio(b) == [num |-> b.advancers, den |-> Max({b.decliners, 1})]

--------------------------------------------------------------------------------
(* RegimeEngine.evaluate.  Of n trends, up point up and down point down.   *)

RiskOn(b, up, down) ==
  /\ 5 * AdRatio(b).num >= 6 * AdRatio(b).den
  /\ b.total > 0 /\ 100 * b.above >= 55 * b.total
  /\ up > down

RiskOff(b, up, down) ==
  /\ 5 * AdRatio(b).num <= 4 * AdRatio(b).den
  /\ 100 * b.above <= 45 * b.total
  /\ down > up

Classify(b, up, down) ==
  IF RiskOn(b, up, down) THEN "risk_on"
  ELSE IF RiskOff(b, up, down) THEN "risk_off" ELSE "rotational"

VolRegime(avg) ==
  IF avg = None THEN "normal"
  ELSE IF avg.num >= HighVol * avg.den THEN "high"
  ELSE IF 3 * avg.num <= HighVol * avg.den THEN "low" ELSE "normal"

\* compute_health_score before it is clamped and rounded: 40 for an ad_ratio of
\* two or more, 30 each for the shares above trend and trending up.
Score(b, up, n, vol) ==
  LET ad == Min({20 * AdRatio(b).num, 40 * AdRatio(b).den})
      bonus == CASE vol = "high" -> -15 [] vol = "low" -> 5 [] OTHER -> 0
      decliners == AdRatio(b).den
      total == Max({b.total, 1})
  IN [num |-> ad * total * n + 30 * b.above * decliners * n + 30 * up * decliners * total
              + bonus * decliners * total * n,
      den |-> decliners * total * n]

\* int(round(x)) for x >= 0: a half goes to the even neighbour.
Round(q) ==
  LET floor == q.num \div q.den
      twice == 2 * (q.num % q.den)
  IN IF twice < q.den \/ (twice = q.den /\ floor % 2 = 0) THEN floor ELSE floor + 1

Health(b, up, n, vol) ==
  LET score == Score(b, up, n, vol) IN
    IF score.num <= 0 THEN 0 ELSE IF score.num >= 100 * score.den THEN 100 ELSE Round(score)

================================================================================
