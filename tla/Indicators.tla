------------------------------ MODULE Indicators -------------------------------
(***************************************************************************)
(* analytics/indicators.py and trend.py: the incremental indicators of one *)
(* symbol and the trend they give, as functions from state and candle to   *)
(* state.  Values are exact fractions instead of floats.  Prices are       *)
(* powers of two given by their exponents, so that log returns are         *)
(* integers in units of log 2, and volatility is taken over two returns,   *)
(* whose standard deviation is half their distance.                        *)
(***************************************************************************)
EXTENDS Integers, Sequences, SequencesExt, FiniteSetsExt

CONSTANTS
  FastPeriod, SlowPeriod,       \* ema_fast_period, ema_slow_period
  WilderPeriod,                 \* rsi_period and atr_period
  VolumeWindow,                 \* relative_volume_window
  Exponent,                     \* closes are 2^e
  None                          \* Python's None

ASSUME PeriodAssumption == {FastPeriod, SlowPeriod, WilderPeriod, VolumeWindow} \subseteq Nat \ {0}
ASSUME ExponentAssumption == Exponent \subseteq Nat

\* A candle: where it closes and whether anything was traded, in which case it
\* ranges from its close up to twice that and has volume.
Candle == [exp : Exponent, busy : BOOLEAN]
CloseOf(c) == 2^c.exp
HighOf(c) == IF c.busy THEN 2 * CloseOf(c) ELSE CloseOf(c)
LowOf(c) == CloseOf(c)
VolumeOf(c) == IF c.busy THEN 1 ELSE 0

--------------------------------------------------------------------------------
(* Fractions with a positive denominator.                                  *)

Whole(n) == [num |-> n, den |-> 1]
Same(p, q) == p.num * q.den = q.num * p.den
Total(seq) == FoldSeq(+, 0, seq)
Fraction == [num : Int, den : Int]
Distance(a, b) == Max({a - b, b - a})

--------------------------------------------------------------------------------
(* The calculators.                                                        *)

\* EMA.update: (price - value) * 2 / (period + 1) + value
Ema(value, price, period) ==
  IF value = None THEN Whole(price)
  ELSE [num |-> 2 * price * value.den + (period - 1) * value.num,
        den |-> (period + 1) * value.den]

\* Mutant: the candle that completes the seed is smoothed in once more.
WilderTwice(w, x) ==
  IF w.avg # None
  THEN [w EXCEPT !.avg = [num |-> @.num * (WilderPeriod - 1) + x * @.den,
                          den |-> @.den * WilderPeriod]]
  ELSE LET seed == Append(w.seed, x) IN
         [seed |-> seed, avg |-> IF Len(seed) < WilderPeriod THEN None
                                 ELSE [num |-> Total(seed) * (WilderPeriod - 1) + WilderPeriod * x,
                                       den |-> WilderPeriod * WilderPeriod]]

\* Wilder's smoothing in RSI and ATR: the mean of the first period inputs, then
\* one period-th of each new input.
Wilder(w, x) ==
  IF w.avg # None
  THEN [w EXCEPT !.avg = [num |-> @.num * (WilderPeriod - 1) + x * @.den,
                          den |-> @.den * WilderPeriod]]
  ELSE LET seed == Append(w.seed, x) IN
         [seed |-> seed, avg |-> IF Len(seed) < WilderPeriod THEN None
                                 ELSE [num |-> Total(seed), den |-> WilderPeriod]]

\* WilderRSI: 100 - 100 / (1 + gain / loss), and 100 without losses.
Rsi(ind) ==
  LET gain == ind.gain.avg
      loss == ind.loss.avg
  IN IF gain = None THEN None
     ELSE IF loss.num = 0 THEN Whole(100)
     ELSE [num |-> 100 * gain.num * loss.den,
           den |-> gain.num * loss.den + loss.num * gain.den]

TrueRange(prev, c) ==
  IF prev = None THEN HighOf(c) - LowOf(c)
  ELSE Max({HighOf(c) - LowOf(c), Distance(HighOf(c), CloseOf(prev)),
            Distance(LowOf(c), CloseOf(prev))})

\* append to a deque with maxlen
Slide(window, x, size) ==
  IF Len(window) < size THEN Append(window, x) ELSE Append(Tail(window), x)

\* RealizedVolatility over two log returns, in percent of log 2.
Deviation(ind) ==
  IF Len(ind.returns) < 2 THEN None
  ELSE [num |-> 100 * Distance(ind.returns[1], ind.returns[2]), den |-> 2]

\* RelativeVolume: against the candles before this one, if they traded at all.
Relative(volumes, volume) ==
  IF Len(volumes) < VolumeWindow \/ Total(volumes) <= 0 THEN None
  ELSE [num |-> volume * Len(volumes), den |-> Total(volumes)]

--------------------------------------------------------------------------------
(* SymbolIndicators.                                                       *)

Averager == [seed : Seq(Int), avg : Fraction \cup {None}]
Unseeded == [seed |-> <<>>, avg |-> None]

Indicator ==
  [prev : Candle, fast : Fraction, slow : Fraction,
   gain : Averager, loss : Averager, range : Averager,
   returns : Seq(Int), volumes : Seq(Int), volRel : Fraction \cup {None}]

\* None is neither a fraction, nor a candle, nor a symbol's indicators.
ASSUME NoneAssumption == None \notin Fraction \cup Candle \cup Indicator

Fresh ==
  [prev |-> None, fast |-> None, slow |-> None,
   gain |-> Unseeded, loss |-> Unseeded, range |-> Unseeded,
   returns |-> <<>>, volumes |-> <<>>, volRel |-> None]

\* update: one closed candle is folded into every calculator.
Update(ind, c) ==
  LET first == ind.prev = None
      change == CloseOf(c) - CloseOf(ind.prev)
  IN [prev |-> c,
      fast |-> Ema(ind.fast, CloseOf(c), FastPeriod),
      slow |-> Ema(ind.slow, CloseOf(c), SlowPeriod),
      gain |-> IF first THEN ind.gain ELSE Wilder(ind.gain, Max({change, 0})),
      loss |-> IF first THEN ind.loss ELSE Wilder(ind.loss, Max({-change, 0})),
      range |-> Wilder(ind.range, TrueRange(ind.prev, c)),
      returns |-> IF first THEN ind.returns ELSE Slide(ind.returns, c.exp - ind.prev.exp, 2),
      volumes |-> Slide(ind.volumes, VolumeOf(c), VolumeWindow),
      volRel |-> Relative(ind.volumes, VolumeOf(c))]

\* compute_trend: flat within 0.05 % of the slow EMA, which no price makes zero.
Direction(ind) ==
  LET above == ind.fast.num * ind.slow.den - ind.slow.num * ind.fast.den
      band == ind.slow.num * ind.fast.den
  IN IF 2000 * above > band THEN "up" ELSE IF 2000 * above < -band THEN "down" ELSE "flat"

================================================================================
