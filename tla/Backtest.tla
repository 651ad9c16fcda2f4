-------------------------------- MODULE Backtest --------------------------------
(***************************************************************************)
(* backtest/: one symbol's validation run, from the provenance check over  *)
(* the replay (signal_validation.py) and the regime overlay                *)
(* (regime_validation.py) to the decision of one cell                      *)
(* (policy_validation.py), while the services go on writing the tables it  *)
(* reads.  A step is the code between two awaits on the database.          *)
(*                                                                         *)
(* A candle carries the regime and the signals that the replay of the      *)
(* series up to it yields.  Returns are exact, in units of 1/Scale; the    *)
(* effective sample size and the bootstrap interval of a cell, where the   *)
(* code computes them, may come out in any way.                            *)
(***************************************************************************)
EXTENDS Integers, Sequences, SequencesExt, FiniteSets, FiniteSetsExt

CONSTANTS
  Close,                \* closing prices
  Gap,                  \* minutes from one candle to the next
  Regime,               \* regime buckets
  Type,                 \* signal types
  Horizons,             \* horizons, in minutes
  DecisionHorizon,      \* decision_horizon
  Lag,                  \* execution_lag
  Window,               \* breakout_window, in minutes
  Scale,                \* unit of returns
  Origin,               \* provenances the table may start with
  Mode,                 \* modes a run is started in
  None,                 \* Python's None
  MaxCandles            \* bound: candles in the table

ASSUME CandleAssumption == Close \subseteq Nat /\ Gap \subseteq Nat \ {0} /\ MaxCandles \in Nat
ASSUME ScaleAssumption == Scale \in Nat /\ \A c \in Close \ {0} : Scale % c = 0
ASSUME LagAssumption == Lag \in Nat /\ Window \in Nat
ASSUME ModeAssumption == Mode \subseteq {"pipeline_correctness", "edge_evaluation"}
ASSUME OriginAssumption == Origin \subseteq {"REAL", "SYNTHETIC"}
ASSUME HorizonAssumption == Horizons \subseteq Nat \ {0} /\ DecisionHorizon \in Horizons

VARIABLES
  table,                \* table candles of the symbol, ascending by ts
  dataset,              \* where the rows came from: "REAL" or "SYNTHETIC"
  tagged,               \* symbols.tags holds "synthetic_data"
  stage,                \* where run_policy_validation is suspended
  mode,                 \* its mode, None outside
  fetched,              \* the candles of the replay
  signals,              \* the signals it captured
  cell,                 \* a decided cell of the last result, or None
  rewritten             \* history: minutes that fetched spans changed in the table

database == <<table, dataset, tagged>>
run == <<stage, mode, fetched, signals, cell>>
vars == <<database, run, rewritten>>

Init ==
  /\ table = <<>>
  /\ dataset \in Origin /\ tagged = (dataset = "SYNTHETIC")
  /\ stage = "idle" /\ mode = None
  /\ fetched = <<>> /\ signals = {} /\ cell = None
  /\ rewritten = FALSE

--------------------------------------------------------------------------------
(* Forward returns.                                                        *)

\* Mutant: a horizon beyond the series is measured at its last candle.
ReturnClamped(candles, i, h) ==
  LET entry == i + Lag
      late == {j \in entry..Len(candles) : candles[j].ts >= candles[entry].ts + h}
      exit == IF late = {} THEN Len(candles) ELSE Min(late)
  IN IF entry > Len(candles) \/ candles[entry].close = 0 THEN None
     ELSE (candles[exit].close * Scale) \div candles[entry].close - Scale

\* _forward_returns: from the candle Lag after the i-th to the first one at least
\* h minutes after that.
Return(candles, i, h) ==
  LET entry == i + Lag
      late == {j \in entry..Len(candles) : candles[j].ts >= candles[entry].ts + h}
  IN IF entry > Len(candles) \/ late = {} \/ candles[entry].close = 0 THEN None
     ELSE (candles[Min(late)].close * Scale) \div candles[entry].close - Scale

\* _replay_symbol: the signals of a series with their forward returns.
Captured(candles) ==
  {[ts |-> candles[f[1]].ts, type |-> f[2],
    fwd |-> [h \in Horizons |-> Return(candles, f[1], h)]] :
     f \in {g \in (DOMAIN candles) \X Type : g[2] \in candles[g[1]].signals}}

\* _baseline_returns: the candles of a pool with a measured return, signal or not.
Baseline(candles, pool, h) == {i \in pool : Return(candles, i, h) # None}

\* The mean return of some signals less the mean return of the baseline, as a
\* fraction; None without a sample of either.
Edge(entries, candles, pool, h) ==
  LET hits == {e \in entries : e.fwd[h] # None}
      base == Baseline(candles, pool, h)
      n == Cardinality(hits)
      m == Cardinality(base)
  IN IF n = 0 \/ m = 0 THEN None
     ELSE [num |-> m * MapThenSumSet(LAMBDA e : e.fwd[h], hits)
                     - n * MapThenSumSet(LAMBDA i : Return(candles, i, h), base),
           den |-> n * m]

OfType(entries, type) == {e \in entries : e.type = type}

\* compute_signal_metrics: the edge over all candles.
GlobalEdge(type, h) == Edge(OfType(signals, type), fetched, DOMAIN fetched, h)

--------------------------------------------------------------------------------
(* The regime overlay and the policy.                                      *)

InRegime(candles, regime) == {i \in DOMAIN candles : candles[i].regime = regime}

\* compute_regime_metrics: the signals whose candle of the second fetch is in the regime.
Bucket(candles, regime, type) ==
  {e \in OfType(signals, type) : \E i \in InRegime(candles, regime) : candles[i].ts = e.ts}

\* Mutant: candles that carry a signal are left out of the pool.
PoolWithoutSignals(candles, regime) ==
  {i \in InRegime(candles, regime) : candles[i].signals = {}}

\* _regime_conditioned_baselines: the candles of the pool.
Pool(candles, regime) == InRegime(candles, regime)

\* _compute_cluster_tags: another signal of the type came before, within the window.
Clustered(entry) ==
  \E prior \in OfType(signals, entry.type) : entry.ts - prior.ts \in 1..Window

MostlyClustered(entries) ==
  2 * Cardinality({e \in entries : Clustered(e)}) > Cardinality(entries)

\* _classify_validity; the interval is where the bootstrap puts it.
Validity(enough, interval, clustered) ==
  IF ~enough \/ interval = None THEN "insufficient_data"
  ELSE IF interval = "spans" \/ clustered THEN "diagnostic_only"
  ELSE "regime_conditional_candidate"

Sign(edge) == IF edge.num > 0 THEN 1 ELSE IF edge.num < 0 THEN -1 ELSE 0

\* Mutant: two edges of zero agree.
DecideOnEqualSigns(validity, edge, global) ==
  CASE validity = "insufficient_data" -> "BLOCK"
    [] validity = "diagnostic_only" -> "REDUCE"
    [] OTHER -> IF global # None /\ Sign(edge) = Sign(global) THEN "ALLOW" ELSE "REDUCE"

\* _decide.
Decide(validity, edge, global) ==
  CASE validity = "insufficient_data" -> "BLOCK"
    [] validity = "diagnostic_only" -> "REDUCE"
    [] OTHER -> IF global # None /\ Sign(edge) = Sign(global) /\ Sign(edge) # 0
                THEN "ALLOW" ELSE "REDUCE"

--------------------------------------------------------------------------------
(* The run.                                                                *)

\* run_signal_validation asks for the provenance and may refuse.
Classify(m) ==
  /\ stage = "idle"
  /\ \/ /\ tagged /\ m = "edge_evaluation"
        /\ UNCHANGED <<stage, mode>>
     \/ /\ ~(tagged /\ m = "edge_evaluation")
        /\ stage' = "replaying" /\ mode' = m
  /\ cell' = None
  /\ UNCHANGED <<database, fetched, signals, rewritten>>

\* The first fetch, and the replay that follows it.
Replay ==
  /\ stage = "replaying"
  /\ stage' = "overlaying"
  /\ fetched' = table
  /\ signals' = Captured(table)
  /\ UNCHANGED <<database, mode, cell, rewritten>>

\* The run is over and its series are let go.
Returns ==
  /\ stage' = "idle" /\ mode' = None
  /\ fetched' = <<>> /\ signals' = {}
  /\ rewritten' = FALSE
  /\ UNCHANGED database

\* The second fetch, the overlay and the policy; one cell of the result is kept.
Overlay(regime, type, enough, interval) ==
  LET entries == Bucket(table, regime, type)
      edge == Edge(entries, table, Pool(table, regime), DecisionHorizon)
      global == GlobalEdge(type, DecisionHorizon)
      validity == Validity(enough, interval, MostlyClustered(entries))
  IN
    /\ stage = "overlaying" /\ entries # {}
    /\ enough => \E e \in entries : e.fwd[DecisionHorizon] # None
    /\ interval # None <=> edge # None
    /\ cell' = [regime |-> regime, type |-> type, edge |-> edge, global |-> global,
                enough |-> enough, interval |-> interval,
                decision |-> Decide(validity, edge, global)]
    /\ Returns

\* A symbol without signals has no cells.
OverlayEmpty ==
  /\ stage = "overlaying" /\ signals = {}
  /\ Returns
  /\ UNCHANGED cell

--------------------------------------------------------------------------------
(* The services.                                                           *)

Candle(ts) ==
  [ts : {ts}, close : Close, regime : Regime, signals : SUBSET Type]

\* Ingest stores a candle of a new minute.
CandleStored(gap) ==
  /\ Len(table) < MaxCandles
  /\ \E candle \in Candle(IF table = <<>> THEN 1 ELSE table[Len(table)].ts + gap) :
       table' = Append(table, candle)
  /\ UNCHANGED <<dataset, tagged, run, rewritten>>

\* The minute of the newest candle.
Newest == IF table = <<>> THEN 0 ELSE table[Len(table)].ts

\* A candle of a minute that was missing: load_candles_csv of the backfill, or a
\* gap-fill that asks again for what a failed batch has lost.
CandleFilled(ts) ==
  /\ Len(table) < MaxCandles
  /\ \A i \in DOMAIN table : table[i].ts # ts
  /\ \E candle \in Candle(ts), k \in DOMAIN table :
       /\ ts < table[k].ts /\ (k > 1 => table[k - 1].ts < ts)
       /\ table' = InsertAt(table, k, candle)
  /\ rewritten' = (rewritten \/ (fetched # <<>> /\ ts < Last(fetched).ts))
  /\ UNCHANGED <<dataset, tagged, run>>

\* Ingest replaces the newest candle: the gap-fill's row of a minute in progress
\* by the final one.
CandleReplaced ==
  /\ table # <<>>
  /\ \E candle \in Candle(table[Len(table)].ts) :
       table' = [table EXCEPT ![Len(table)] = candle]
  /\ rewritten' = (rewritten \/ Len(table) <= Len(fetched))
  /\ UNCHANGED <<dataset, tagged, run>>

\* A starting service seeds the symbol, or the symbol manager persists it: the
\* row's tags are replaced by its class.
Retag ==
  /\ tagged' = FALSE
  /\ UNCHANGED <<table, dataset, run, rewritten>>

--------------------------------------------------------------------------------
Next ==
  \/ \E m \in Mode : Classify(m)
  \/ Replay
  \/ \E regime \in Regime, type \in Type, enough \in BOOLEAN,
        interval \in {"below", "spans", "above", None} : Overlay(regime, type, enough, interval)
  \/ OverlayEmpty
  \/ \E gap \in Gap : CandleStored(gap)
  \/ CandleReplaced
  \/ \E ts \in 1..Newest : CandleFilled(ts)
  \/ Retag

Spec == Init /\ [][Next]_vars

--------------------------------------------------------------------------------
(* Properties.                                                             *)

\* A return that has been measured stays measured: whatever minutes are added
\* behind the replayed series, in whatever order and with whatever gaps,
\* measuring again gives the same value, unless the minutes it spans were
\* changed.  So the two fetches of a run agree, and no return ever looked at a
\* candle before its horizon was over.
ReturnsAreSettled ==
  ~rewritten =>
    \A e \in signals : \A h \in Horizons : e.fwd[h] # None =>
      \E i \in DOMAIN table : table[i].ts = e.ts /\ Return(table, i, h) = e.fwd[h]

\* The regime's edge and the global one are the same estimate: over a series of
\* one regime, fetched twice alike, they are equal to the last digit.
OneRegimeIsGlobal ==
  [][cell' # None /\ fetched = table /\ InRegime(table, cell'.regime) = DOMAIN table
       => cell'.edge = cell'.global]_cell

\* ALLOW needs every piece of evidence at once, through the two modules that each
\* look at some of it: enough samples, an interval on one side of zero, an edge
\* that points where the global edge points, and at least half of the regime's
\* signals without another one of their type in the minutes before.
AllowIsEarned ==
  [][cell' # None /\ cell'.decision = "ALLOW" =>
       /\ cell'.enough /\ cell'.interval \in {"below", "above"}
       /\ cell'.global # None /\ cell'.edge.num * cell'.global.num > 0
       /\ LET fired == {i \in DOMAIN fetched : cell'.type \in fetched[i].signals}
              now == InRegime(table, cell'.regime)
              here == {i \in fired : \E k \in now : table[k].ts = fetched[i].ts}
              alone == {i \in here : \A j \in fired : fetched[i].ts - fetched[j].ts \notin 1..Window}
          IN 2 * Cardinality(alone) >= Cardinality(here)]_cell

\* DATASET.md:38 says that edge_evaluation refuses to run on a synthetic dataset.
EdgeEvaluationIsReal ==
  mode = "edge_evaluation" => dataset = "REAL"

================================================================================
