----------------------------- MODULE MarketMemory ------------------------------
(***************************************************************************)
(* analytics/engine.py: the side of AnalyticsEngine that watches the whole *)
(* market.  The feed's candles and snapshots are folded in as they come;   *)
(* a task of its own wakes up every few seconds, combines what is there    *)
(* into a regime and suspends in its INSERT into market_memory, which may  *)
(* raise.  What handle_candle does behind the indicators, with the INSERTs *)
(* of signals and events it suspends in, is module AnalyticsEngine: none   *)
(* of it touches the state kept here.                                      *)
(***************************************************************************)
EXTENDS Regime

CONSTANTS
  Sym,                  \* symbols, each with an id
  MaxMessages           \* bound: candles and snapshots in the life of a process

ASSUME SymbolAssumption == IsFiniteSet(Sym)
ASSUME MessageAssumption == MaxMessages \in Nat

VARIABLES
  running,              \* _running
  loop,                 \* _task: "none", "sleeping", "inserting" or "dead"
  ind,                  \* _indicators, None before the first candle
  trend,                \* _latest_trend: a direction, or None where there is no entry
  hist,                 \* BreadthEngine._history
  breadth,              \* _latest_breadth
  row,                  \* the row of the INSERT in flight, or None
  heard,                \* messages the process has received
  candles,              \* history: candles per symbol
  quotes,               \* history: prices per symbol in the snapshots
  shown                 \* history: symbols in the last snapshot

engine == <<ind, trend, hist, breadth>>
history == <<candles, quotes, shown>>
vars == <<running, loop, engine, row, heard, history>>

Snapshot ==
  UNION {[symbols -> [price : {2^e : e \in Exponent}, change : {-1, 0, 1}]] :
           symbols \in SUBSET Sym}

\* A new engine.
Clean ==
  /\ ind' = [s \in Sym |-> None] /\ trend' = [s \in Sym |-> None]
  /\ hist' = [s \in Sym |-> <<>>] /\ breadth' = None
  /\ row' = None /\ heard' = 0
  /\ candles' = [s \in Sym |-> <<>>] /\ quotes' = [s \in Sym |-> <<>>] /\ shown' = {}

Init ==
  /\ running = FALSE /\ loop = "none"
  /\ ind = [s \in Sym |-> None] /\ trend = [s \in Sym |-> None]
  /\ hist = [s \in Sym |-> <<>>] /\ breadth = None
  /\ row = None /\ heard = 0
  /\ candles = [s \in Sym |-> <<>>] /\ quotes = [s \in Sym |-> <<>>] /\ shown = {}

--------------------------------------------------------------------------------
(* The feed's callbacks.                                                   *)

Receive ==
  /\ running /\ heard < MaxMessages
  /\ heard' = heard + 1

\* handle_candle up to its first suspension.
HandleCandle(s, c) ==
  /\ Receive
  /\ ind' = [ind EXCEPT ![s] = Update(IF @ = None THEN Fresh ELSE @, c)]
  /\ trend' = [trend EXCEPT ![s] = Direction(ind'[s])]
  /\ candles' = [candles EXCEPT ![s] = Append(@, c)]
  /\ UNCHANGED <<running, loop, hist, breadth, row, quotes, shown>>

\* Mutant: the prices are remembered first and compared with themselves.
HandleSnapshotLate(rows) ==
  /\ Receive
  /\ hist' = Remember(rows, hist)
  /\ breadth' = Breadth(rows, hist')
  /\ quotes' = [s \in Sym |-> IF s \in DOMAIN rows THEN Append(quotes[s], rows[s].price)
                              ELSE quotes[s]]
  /\ shown' = DOMAIN rows
  /\ UNCHANGED <<running, loop, ind, trend, row, candles>>

\* handle_snapshot.
HandleSnapshot(rows) ==
  /\ Receive
  /\ breadth' = Breadth(rows, hist)
  /\ hist' = Remember(rows, hist)
  /\ quotes' = [s \in Sym |-> IF s \in DOMAIN rows THEN Append(quotes[s], rows[s].price)
                              ELSE quotes[s]]
  /\ shown' = DOMAIN rows
  /\ UNCHANGED <<running, loop, ind, trend, row, candles>>

--------------------------------------------------------------------------------
(* The regime loop.                                                        *)

Pointing(direction) == Cardinality({s \in Sym : trend[s] = direction})
Trends == Cardinality({s \in Sym : trend[s] # None})

\* The mean of the volatilities there are.
AverageVol ==
  LET known == {s \in Sym : ind[s] # None /\ Deviation(ind[s]) # None} IN
    IF known = {} THEN None
    ELSE [num |-> MapThenSumSet(LAMBDA s : Deviation(ind[s]).num, known),
          den |-> 2 * Cardinality(known)]

\* What the latest breadth and the trends say together.
Evaluated ==
  LET vol == VolRegime(AverageVol) IN
    [regime |-> Classify(breadth, Pointing("up"), Pointing("down")),
     vol |-> vol, health |-> Health(breadth, Pointing("up"), Trends, vol)]

\* The sleep is over: refresh_regime up to its INSERT.  Without a breadth or a
\* trend it does nothing and the loop sleeps again.
Refresh ==
  /\ loop = "sleeping" /\ breadth # None /\ Trends > 0
  /\ loop' = "inserting"
  /\ UNCHANGED <<running, engine, heard, history>>
  /\ row' = Evaluated


Inserted ==
  /\ loop = "inserting"
  /\ loop' = "sleeping" /\ row' = None
  /\ UNCHANGED <<running, engine, heard, history>>

\* The exception ends the task; _running stays set, and nobody looks at the task
\* before stop().
InsertFails ==
  /\ loop = "inserting"
  /\ loop' = "dead" /\ row' = None
  /\ UNCHANGED <<running, engine, heard, history>>

--------------------------------------------------------------------------------
(* The service starts in a new process, and stops.                         *)

Start ==
  /\ ~running
  /\ running' = TRUE /\ loop' = "sleeping"
  /\ Clean

Stop ==
  /\ running
  /\ running' = FALSE /\ loop' = "none" /\ row' = None
  /\ UNCHANGED <<engine, heard, history>>

LoopStep == Refresh \/ Inserted \/ InsertFails

Next ==
  \/ \E s \in Sym, c \in Candle : HandleCandle(s, c)
  \/ \E rows \in Snapshot : HandleSnapshot(rows)
  \/ LoopStep
  \/ Start \/ Stop

\* The loop's timer fires and its INSERT returns or raises.
Spec == Init /\ [][Next]_vars /\ WF_vars(LoopStep)

--------------------------------------------------------------------------------
(* Properties.                                                             *)

\* The powers of a base.
Powers(b) ==
  LET power[k \in Nat] == IF k = 0 THEN 1 ELSE b * power[k - 1]
  IN power

\* Reference: Wilder's average of all inputs in closed form, the newest weighted
\* 1/p and each older one (p-1)/p of the one after it.
WilderMean(inputs) ==
  LET n == Len(inputs)
      p == WilderPeriod
      seed == Total(SubSeq(inputs, 1, p))
      rest == Total([i \in 1..(n - p) |-> Powers(p - 1)[n - p - i] * Powers(p)[i] * inputs[p + i]])
  IN IF n < p THEN None
     ELSE [num |-> Powers(p - 1)[n - p] * seed + rest, den |-> Powers(p)[n - p + 1]]

\* Reference: the exponential average of all closes in closed form.
EmaMean(closes, p) ==
  LET n == Len(closes)
      later == Total([i \in 1..(n - 1) |->
                        2 * Powers(p - 1)[n - 1 - i] * Powers(p + 1)[i - 1] * closes[i + 1]])
  IN [num |-> Powers(p - 1)[n - 1] * closes[1] + later, den |-> Powers(p + 1)[n - 1]]

Agree(p, q) == IF p = None \/ q = None THEN p = q ELSE Same(p, q)

\* Whatever came in, candle by candle, the indicators are those of the whole
\* series: RSI from all gains and losses (100 without a loss), ATR from all true
\* ranges, the EMAs and the trend between them, the volatility of the last two
\* returns, and the volume against the window before its candle.
IndicatorsMatchHistory ==
  \A s \in Sym : candles[s] # <<>> =>
    LET seen == candles[s]
        n == Len(seen)
        closes == [i \in 1..n |-> CloseOf(seen[i])]
        gains == [i \in 1..(n - 1) |-> Max({closes[i + 1] - closes[i], 0})]
        losses == [i \in 1..(n - 1) |-> Max({closes[i] - closes[i + 1], 0})]
        ranges == [i \in 1..n |-> TrueRange(IF i = 1 THEN None ELSE seen[i - 1], seen[i])]
        up == WilderMean(gains)
        down == WilderMean(losses)
        fast == EmaMean(closes, FastPeriod)
        slow == EmaMean(closes, SlowPeriod)
        past == [i \in 1..VolumeWindow |-> VolumeOf(seen[n - 1 - VolumeWindow + i])]
    IN /\ Agree(Rsi(ind[s]),
                IF up = None THEN None
                ELSE IF down.num = 0 THEN Whole(100)
                ELSE [num |-> 100 * up.num, den |-> up.num + down.num])
       /\ Agree(ind[s].range.avg, WilderMean(ranges))
       /\ Same(ind[s].fast, fast) /\ Same(ind[s].slow, slow)
       /\ trend[s] = Direction([fast |-> fast, slow |-> slow])
       /\ Agree(Deviation(ind[s]),
                IF n < 3 THEN None
                ELSE [num |-> 50 * Distance(2 * seen[n - 1].exp, seen[n].exp + seen[n - 2].exp),
                      den |-> 1])
       /\ Agree(ind[s].volRel,
                IF n <= VolumeWindow \/ Total(past) = 0 THEN None
                ELSE [num |-> VolumeWindow * VolumeOf(seen[n]), den |-> Total(past)])

\* The breadth compares each price of the last snapshot with those before it and
\* never with itself: a new high is above each of the last BreadthWindow quotes
\* of its symbol, and it is above their mean only if it is above one of them.
BreadthMatchesQuotes ==
  breadth # None =>
    LET Before(s) == LET n == Len(quotes[s]) IN
          ToSet(SubSeq(quotes[s], Max({1, n - BreadthWindow}), n - 1))
        seen == {s \in shown : Before(s) # {}}
        highs == {s \in seen : \A q \in Before(s) : Last(quotes[s]) > q}
        lows == {s \in seen : \A q \in Before(s) : Last(quotes[s]) < q}
        some == {s \in seen : \E q \in Before(s) : Last(quotes[s]) > q}
    IN /\ breadth.highs = Cardinality(highs) /\ breadth.lows = Cardinality(lows)
       /\ breadth.above \in Cardinality(highs)..Cardinality(some)
       /\ breadth.total = Cardinality(shown)

\* The market is never judged the worse for being better: if symbols had risen
\* that fell, stood above their trend or turned up, with all else as it is now,
\* the regime would be no nearer to risk_off and the health no lower.  This ties
\* together ad_ratio, which jumps where decliners run out, the thresholds and
\* the saturation, the clamps and the rounding of the score.
Rank(regime) == CASE regime = "risk_off" -> 0 [] regime = "rotational" -> 1 [] OTHER -> 2

Better(b) ==
  {[b EXCEPT !.advancers = m[1], !.decliners = m[2], !.above = m[3]] :
     m \in {x \in (b.advancers..b.total) \X (0..b.decliners) \X (b.above..b.total) :
             x[1] + x[2] <= b.total}}

ImprovementNeverHurts ==
  breadth # None /\ Trends > 0 =>
    LET vol == VolRegime(AverageVol)
        up == Pointing("up")
        down == Pointing("down")
    IN \A b \in Better(breadth), u \in up..Trends, d \in 0..down :
         u + d <= Trends =>
           /\ Rank(Classify(b, u, d)) >= Rank(Classify(breadth, up, down))
           /\ Health(b, u, Trends, vol) >= Health(breadth, up, Trends, vol)


================================================================================
