---------------------------- MODULE BacktestProofs -----------------------------
(***************************************************************************)
(* A validation run for any prices, gaps, regimes, signal types, horizons  *)
(* and length of the series: what the replay measured agrees with what the *)
(* overlay fetches behind it.                                              *)
(***************************************************************************)
EXTENDS Backtest, SumLemmas

Row == [ts : Nat, close : Close, regime : Regime, signals : SUBSET Type]

Ascending(series) ==
  \A i, j \in 1..Len(series) : i < j => series[i].ts < series[j].ts

Begins(front, series) ==
  /\ Len(front) <= Len(series)
  /\ \A i \in 1..Len(front) : series[i] = front[i]

\* The table stays in the order of its minutes, the replayed series is its front
\* until a minute of it changes, and the signals are those of that series.
IInv ==
  /\ table \in Seq(Row) /\ Ascending(table)
  /\ fetched \in Seq(Row) /\ Ascending(fetched)
  /\ ~rewritten => Begins(fetched, table)
  /\ signals \subseteq Captured(fetched)

--------------------------------------------------------------------------------
(* Series.                                                                 *)

LEMMA EmptyFacts == <<>> \in Seq(Row) /\ Len(<<>>) = 0 /\ Ascending(<<>>)
<1>1. <<>> \in Seq(Row) /\ Len(<<>>) = 0
  OBVIOUS
<1>2. QED
  BY <1>1 DEF Ascending

LEMMA CandleIsRow ==
  ASSUME NEW ts \in Nat, NEW candle \in Candle(ts)
  PROVE  candle \in Row /\ candle.ts = ts
BY DEF Candle, Row

LEMMA AppendFacts ==
  ASSUME NEW series \in Seq(Row), Ascending(series), NEW candle \in Row,
         series # <<>> => series[Len(series)].ts < candle.ts
  PROVE  /\ Append(series, candle) \in Seq(Row) /\ Ascending(Append(series, candle))
         /\ Begins(series, Append(series, candle))
<1> DEFINE new == Append(series, candle)
           n == Len(series)
<1>1. /\ new \in Seq(Row) /\ n \in Nat /\ Len(new) = n + 1
      /\ \A i \in 1..n : new[i] = series[i]
      /\ new[n + 1] = candle
  BY AppendProperties
<1>2. \A i \in 1..n : series[i].ts \in Nat
  <2>1. \A i \in 1..n : series[i] \in Row
    OBVIOUS
  <2>2. QED
    BY <2>1 DEF Row
<1>3. \A i \in 1..n : series[i].ts < candle.ts
  <2> SUFFICES ASSUME NEW i \in 1..n PROVE series[i].ts < candle.ts
    OBVIOUS
  <2>1. series # <<>> /\ n \in 1..n
    BY <1>1
  <2>2. series[n].ts < candle.ts /\ candle.ts \in Nat
    BY <2>1 DEF Row
  <2>3. i = n \/ series[i].ts < series[n].ts
    BY <1>1, <2>1 DEF Ascending
  <2>4. QED
    BY <1>2, <2>1, <2>2, <2>3
<1> HIDE DEF new, n
<1>4. Ascending(new)
  <2> SUFFICES ASSUME NEW i \in 1..Len(new), NEW j \in 1..Len(new), i < j
               PROVE  new[i].ts < new[j].ts
    BY DEF Ascending
  <2>1. i \in 1..n
    BY <1>1
  <2>2. CASE j = n + 1
    BY <1>1, <1>3, <2>1, <2>2
  <2>3. CASE j # n + 1
    <3>1. j \in 1..n
      BY <1>1, <2>3
    <3>2. series[i].ts < series[j].ts
      BY <2>1, <3>1 DEF Ascending, n
    <3>3. QED
      BY <1>1, <2>1, <3>1, <3>2
  <2>4. QED
    BY <2>2, <2>3
<1>5. Begins(series, new)
  BY <1>1 DEF Begins, n
<1>6. QED
  BY <1>1, <1>4, <1>5 DEF new

LEMMA InsertFacts ==
  ASSUME NEW series \in Seq(Row), NEW k \in 1..Len(series), NEW candle \in Row
  PROVE  /\ InsertAt(series, k, candle) \in Seq(Row)
         /\ Len(InsertAt(series, k, candle)) = Len(series) + 1
         /\ \A i \in 1..(k - 1) : InsertAt(series, k, candle)[i] = series[i]
         /\ InsertAt(series, k, candle)[k] = candle
         /\ \A i \in (k + 1)..(Len(series) + 1) :
              InsertAt(series, k, candle)[i] = series[i - 1]
<1> DEFINE n == Len(series)
           left == SubSeq(series, 1, k - 1)
           right == SubSeq(series, k, n)
           one == <<candle>>
           upto == left \o one
<1>1. n \in Nat /\ k \in Nat /\ 1 <= k /\ k <= n
  OBVIOUS
<1>2. left \in Seq(Row) /\ Len(left) = k - 1 /\ \A i \in 1..(k - 1) : left[i] = series[i]
  <2>1. \A i \in 1..(k - 1) : series[i] \in Row
    BY <1>1
  <2>2. left \in Seq(Row) /\ Len(left) = (IF 1 <= k - 1 THEN (k - 1) - 1 + 1 ELSE 0)
        /\ \A i \in 1..((k - 1) - 1 + 1) : left[i] = series[1 + i - 1]
    BY <1>1, <2>1, SubSeqProperties
  <2>3. QED
    BY <1>1, <2>2
<1>3. right \in Seq(Row) /\ Len(right) = n - k + 1
      /\ \A i \in 1..(n - k + 1) : right[i] = series[k + i - 1]
  BY <1>1, SubSeqProperties
<1>4. one \in Seq(Row) /\ Len(one) = 1 /\ one[1] = candle
  OBVIOUS
<1> HIDE DEF n, left, right, one
<1>5. /\ upto \in Seq(Row) /\ Len(upto) = k
      /\ \A i \in 1..(k - 1) : upto[i] = series[i]
      /\ upto[k] = candle
  <2>1. /\ upto \in Seq(Row) /\ Len(upto) = Len(left) + Len(one)
        /\ \A i \in 1..(Len(left) + Len(one)) :
             upto[i] = IF i <= Len(left) THEN left[i] ELSE one[i - Len(left)]
    BY <1>2, <1>4, ConcatProperties
  <2> HIDE DEF upto
  <2>2. \A i \in 1..k : upto[i] = IF i <= k - 1 THEN left[i] ELSE one[i - (k - 1)]
    BY <1>1, <1>2, <1>4, <2>1
  <2>3. upto[k] = one[1]
    BY <1>1, <2>2
  <2>4. \A i \in 1..(k - 1) : upto[i] = left[i]
    BY <1>1, <2>2
  <2>5. upto \in Seq(Row) /\ Len(upto) = k
    BY <1>1, <1>2, <1>4, <2>1
  <2>6. QED
    BY <1>2, <1>4, <2>3, <2>4, <2>5
<1> HIDE DEF upto
<1>6. /\ upto \o right \in Seq(Row) /\ Len(upto \o right) = k + (n - k + 1)
      /\ \A i \in 1..(k + (n - k + 1)) :
           (upto \o right)[i] = IF i <= k THEN upto[i] ELSE right[i - k]
  <2>1. /\ upto \o right \in Seq(Row) /\ Len(upto \o right) = Len(upto) + Len(right)
        /\ \A i \in 1..(Len(upto) + Len(right)) :
             (upto \o right)[i] = IF i <= Len(upto) THEN upto[i] ELSE right[i - Len(upto)]
    BY <1>3, <1>5, ConcatProperties
  <2>2. QED
    BY <1>3, <1>5, <2>1
<1>7. InsertAt(series, k, candle) = upto \o right
  BY DEF InsertAt, upto, one, left, right, n
<1>8. \A i \in (k + 1)..(n + 1) : (upto \o right)[i] = series[i - 1]
  BY <1>1, <1>3, <1>6
<1>9. k + (n - k + 1) = n + 1
  BY <1>1
<1>10. QED
  BY <1>1, <1>5, <1>6, <1>7, <1>8, <1>9 DEF n

\* A candle is put in front of the k-th one, between the minutes around it.
LEMMA InsertAscends ==
  ASSUME NEW series \in Seq(Row), Ascending(series), NEW k \in 1..Len(series),
         NEW candle \in Row, candle.ts < series[k].ts,
         k > 1 => series[k - 1].ts < candle.ts
  PROVE  Ascending(InsertAt(series, k, candle))
<1> DEFINE new == InsertAt(series, k, candle)
           n == Len(series)
           Old(i) == IF i < k THEN i ELSE i - 1
<1>1. /\ n \in Nat /\ k \in 1..n /\ Len(new) = n + 1 /\ new[k] = candle
      /\ \A i \in 1..(k - 1) : new[i] = series[i]
      /\ \A i \in (k + 1)..(n + 1) : new[i] = series[i - 1]
  BY InsertFacts
<1>2. \A i \in 1..n : series[i].ts \in Nat
  <2>1. \A i \in 1..n : series[i] \in Row
    OBVIOUS
  <2>2. QED
    BY <2>1 DEF Row
<1>3. candle.ts \in Nat
  BY DEF Row
<1>4. \A i, j \in 1..n : i < j => series[i].ts < series[j].ts
  BY DEF Ascending
<1>5. candle.ts < series[k].ts /\ (k > 1 => series[k - 1].ts < candle.ts)
  OBVIOUS
<1> HIDE DEF new, n
<1>6. \A i \in 1..(n + 1) : i # k =>
        /\ Old(i) \in 1..n /\ new[i] = series[Old(i)]
        /\ (i < k => Old(i) <= k - 1) /\ (i > k => Old(i) >= k)
  BY <1>1
<1>7. \A i \in 1..(k - 1) : series[i].ts < candle.ts
  <2> SUFFICES ASSUME NEW i \in 1..(k - 1) PROVE series[i].ts < candle.ts
    OBVIOUS
  <2>1. i \in 1..n /\ k - 1 \in 1..n /\ k > 1
    BY <1>1
  <2>2. i = k - 1 \/ series[i].ts < series[k - 1].ts
    BY <1>4, <2>1
  <2>3. QED
    BY <1>2, <1>3, <1>5, <2>1, <2>2
<1>8. \A i \in k..n : candle.ts < series[i].ts
  <2> SUFFICES ASSUME NEW i \in k..n PROVE candle.ts < series[i].ts
    OBVIOUS
  <2>1. i \in 1..n
    BY <1>1
  <2>2. i = k \/ series[k].ts < series[i].ts
    BY <1>1, <1>4, <2>1
  <2>3. QED
    BY <1>1, <1>2, <1>3, <1>5, <2>1, <2>2
<1>9. SUFFICES ASSUME NEW i \in 1..(n + 1), NEW j \in 1..(n + 1), i < j
               PROVE  new[i].ts < new[j].ts
  BY <1>1 DEF Ascending, new
<1>10. CASE i = k
  <2>1. new[i] = candle /\ Old(j) \in k..n /\ new[j] = series[Old(j)]
    BY <1>1, <1>6, <1>9, <1>10
  <2> HIDE DEF Old
  <2>2. QED
    BY <1>8, <2>1
<1>11. CASE j = k
  <2>1. new[j] = candle /\ Old(i) \in 1..(k - 1) /\ new[i] = series[Old(i)]
    BY <1>1, <1>6, <1>9, <1>11
  <2> HIDE DEF Old
  <2>2. QED
    BY <1>7, <2>1
<1>12. CASE i # k /\ j # k
  <2>1. Old(i) \in 1..n /\ Old(j) \in 1..n /\ Old(i) < Old(j)
        /\ new[i] = series[Old(i)] /\ new[j] = series[Old(j)]
    BY <1>1, <1>6, <1>9, <1>12
  <2> HIDE DEF Old
  <2>2. QED
    BY <1>4, <2>1
<1>13. QED
  BY <1>10, <1>11, <1>12

--------------------------------------------------------------------------------
(* One lemma per action.                                                   *)

LEMMA InitOK == Init => IInv
<1> SUFFICES ASSUME Init PROVE IInv
  OBVIOUS
<1>1. table = <<>> /\ fetched = <<>> /\ signals = {}
  BY DEF Init
<1>2. Begins(<<>>, <<>>)
  BY EmptyFacts DEF Begins
<1>3. QED
  BY <1>1, <1>2, EmptyFacts DEF IInv

\* The run is over or has not begun: nothing is replayed.
LEMMA LetGo ==
  ASSUME IInv, fetched' = <<>>, signals' = {}, UNCHANGED table
  PROVE  IInv'
<1>1. Begins(<<>>, table)
  <2>1. Len(table) \in Nat
    BY DEF IInv
  <2>2. QED
    BY <2>1, EmptyFacts DEF Begins
<1>2. Begins(fetched, table)'
  BY <1>1
<1>3. (fetched \in Seq(Row))' /\ Ascending(fetched)'
  BY EmptyFacts
<1>4. QED
  BY <1>2, <1>3 DEF IInv

LEMMA ReplayOK ==
  ASSUME IInv, Replay
  PROVE  IInv'
<1>1. table' = table /\ fetched' = table /\ signals' = Captured(table)
  BY DEF Replay, database
<1>2. Begins(table, table)
  BY DEF Begins, IInv
<1>3. Begins(fetched, table)'
  BY <1>1, <1>2
<1>4. Captured(fetched)' = Captured(table)
  BY <1>1 DEF Captured, Return
<1>5. Ascending(table)' /\ Ascending(fetched)'
  BY <1>1 DEF IInv
<1>6. QED
  BY <1>1, <1>3, <1>4, <1>5 DEF IInv

\* What a step of the services leaves to show: the run keeps what it replayed.
LEMMA TableOK ==
  ASSUME IInv, UNCHANGED <<fetched, signals>>, table' \in Seq(Row), Ascending(table'),
         ~rewritten' => Begins(fetched, table')
  PROVE  IInv'
<1>1. Captured(fetched)' = Captured(fetched)
  BY DEF Captured, Return
<1>2. Ascending(fetched)' /\ Ascending(table)'
  BY DEF IInv, Ascending
<1>3. (~rewritten => Begins(fetched, table))'
  BY DEF Begins
<1>4. QED
  BY <1>1, <1>2, <1>3 DEF IInv

LEMMA CandleStoredOK ==
  ASSUME IInv, NEW gap \in Gap, CandleStored(gap)
  PROVE  IInv'
<1> DEFINE ts == IF table = <<>> THEN 1 ELSE table[Len(table)].ts + gap
<1>1. gap \in Nat \ {0}
  BY CandleAssumption
<1>2. table # <<>> => table[Len(table)].ts \in Nat
  <2>1. table # <<>> => table[Len(table)] \in Row
    BY DEF IInv
  <2>2. QED
    BY <2>1 DEF Row
<1>3. ts \in Nat /\ (table # <<>> => table[Len(table)].ts < ts)
  BY <1>1, <1>2
<1>4. PICK candle \in Candle(ts) : table' = Append(table, candle)
  BY DEF CandleStored
<1>5. UNCHANGED <<fetched, signals, rewritten>>
  BY DEF CandleStored, run
<1> HIDE DEF ts
<1>6. candle \in Row /\ candle.ts = ts
  BY <1>3, CandleIsRow
<1>7. table' \in Seq(Row) /\ Ascending(table') /\ Begins(table, table')
  BY <1>3, <1>4, <1>6, AppendFacts DEF IInv
<1>8. ~rewritten' => Begins(fetched, table')
  <2> SUFFICES ASSUME ~rewritten PROVE Begins(fetched, table')
    BY <1>5
  <2>1. Begins(fetched, table)
    BY DEF IInv
  <2>2. Len(fetched) \in Nat /\ Len(table) \in Nat /\ Len(table') \in Nat
    BY <1>7 DEF IInv
  <2>3. QED
    BY <1>7, <2>1, <2>2 DEF Begins
<1>9. QED
  BY <1>5, <1>7, <1>8, TableOK

LEMMA CandleFilledOK ==
  ASSUME IInv, NEW ts \in Nat, CandleFilled(ts)
  PROVE  IInv'
<1>1. PICK candle \in Candle(ts), k \in DOMAIN table :
        /\ ts < table[k].ts /\ (k > 1 => table[k - 1].ts < ts)
        /\ table' = InsertAt(table, k, candle)
  BY DEF CandleFilled
<1>2. table \in Seq(Row) /\ Ascending(table) /\ k \in 1..Len(table)
  BY DEF IInv
<1>3. candle \in Row /\ candle.ts = ts
  BY CandleIsRow
<1>4. /\ table' \in Seq(Row) /\ Len(table') = Len(table) + 1
      /\ \A i \in 1..(k - 1) : table'[i] = table[i]
  BY <1>1, <1>2, <1>3, InsertFacts
<1>5. Ascending(table')
  BY <1>1, <1>2, <1>3, InsertAscends
<1>6. /\ UNCHANGED <<fetched, signals>>
      /\ rewritten' = (rewritten \/ (fetched # <<>> /\ ts < Last(fetched).ts))
      /\ \A i \in DOMAIN table : table[i].ts # ts
  BY DEF CandleFilled, run
<1>7. ~rewritten' => Begins(fetched, table')
  <2> SUFFICES ASSUME ~rewritten' PROVE Begins(fetched, table')
    OBVIOUS
  <2> DEFINE m == Len(fetched)
  <2>1. ~rewritten /\ Begins(fetched, table) /\ (fetched # <<>> => ~(ts < fetched[m].ts))
    BY <1>6 DEF IInv, Last
  <2>2. m \in Nat /\ Len(table) \in Nat /\ fetched \in Seq(Row) /\ Ascending(fetched)
    BY <1>2 DEF IInv
  <2>3. m < k
    <3> SUFFICES ASSUME k <= m PROVE FALSE
      BY <1>2, <2>2
    <3>1. k \in 1..m /\ m \in 1..m /\ fetched # <<>>
      BY <1>2, <2>2
    <3>2. fetched[k] = table[k] /\ fetched[k] \in Row /\ fetched[m] \in Row
      BY <2>1, <2>2, <3>1 DEF Begins
    <3>3. k = m \/ fetched[k].ts < fetched[m].ts
      BY <2>2, <3>1 DEF Ascending
    <3>4. fetched[k].ts \in Nat /\ fetched[m].ts \in Nat /\ ts < fetched[k].ts
      BY <1>1, <3>2 DEF Row
    <3>5. QED
      BY <2>1, <3>1, <3>3, <3>4
  <2>4. \A i \in 1..m : i \in 1..(k - 1)
    BY <1>2, <2>2, <2>3
  <2>5. QED
    BY <1>2, <1>4, <2>1, <2>2, <2>4 DEF Begins
<1>8. QED
  BY <1>4, <1>5, <1>6, <1>7, TableOK

LEMMA CandleReplacedOK ==
  ASSUME IInv, CandleReplaced
  PROVE  IInv'
<1> DEFINE n == Len(table)
<1>1. table # <<>> /\ table \in Seq(Row) /\ Ascending(table) /\ n \in Nat /\ n \in 1..n
  <2>1. table # <<>> /\ table \in Seq(Row) /\ Ascending(table)
    BY DEF CandleReplaced, IInv
  <2>2. QED
    BY <2>1
<1>2. PICK candle \in Candle(table[n].ts) : table' = [table EXCEPT ![n] = candle]
  BY DEF CandleReplaced
<1>3. UNCHANGED <<fetched, signals>> /\ rewritten' = (rewritten \/ n <= Len(fetched))
  BY DEF CandleReplaced, run
<1>4. candle \in Row /\ candle.ts = table[n].ts
  <2>1. table[n] \in Row
    BY <1>1
  <2>2. table[n].ts \in Nat
    BY <2>1 DEF Row
  <2>3. QED
    BY <2>2, CandleIsRow
<1>5. /\ table' \in Seq(Row) /\ Len(table') = n
      /\ \A i \in 1..n : table'[i] = IF i = n THEN candle ELSE table[i]
  BY <1>1, <1>2, <1>4
<1> HIDE DEF n
<1>6. \A i \in 1..n : table'[i].ts = table[i].ts
  BY <1>4, <1>5
<1>7. Ascending(table')
  BY <1>1, <1>5, <1>6 DEF Ascending, n
<1>8. ~rewritten' => Begins(fetched, table')
  <2> SUFFICES ASSUME ~rewritten' PROVE Begins(fetched, table')
    OBVIOUS
  <2>1. ~rewritten /\ ~(n <= Len(fetched))
    BY <1>3
  <2>2. Begins(fetched, table) /\ Len(fetched) \in Nat
    BY <2>1 DEF IInv
  <2>3. \A i \in 1..Len(fetched) : i \in 1..n /\ i # n
    BY <1>1, <2>1, <2>2
  <2>4. QED
    BY <1>1, <1>5, <2>1, <2>2, <2>3 DEF Begins
<1>9. QED
  BY <1>3, <1>5, <1>7, <1>8, TableOK

\* Steps that touch neither the table nor what was replayed.
LEMMA SeriesUntouched ==
  ASSUME IInv, UNCHANGED <<table, fetched, signals, rewritten>>
  PROVE  IInv'
<1>1. table' \in Seq(Row) /\ Ascending(table') /\ (~rewritten' => Begins(fetched, table'))
  BY DEF IInv
<1>2. QED
  BY <1>1, TableOK

LEMMA StepOK ==
  ASSUME IInv, [Next]_vars
  PROVE  IInv'
<1>1. ASSUME NEW m \in Mode, Classify(m) PROVE IInv'
  BY <1>1, SeriesUntouched DEF Classify, database
<1>2. CASE Replay
  BY <1>2, ReplayOK
<1>3. ASSUME NEW regime \in Regime, NEW type \in Type, NEW enough \in BOOLEAN,
             NEW interval \in {"below", "spans", "above", None},
             Overlay(regime, type, enough, interval)
      PROVE  IInv'
  <2>1. Returns
    BY <1>3 DEF Overlay
  <2>2. QED
    BY <2>1, LetGo DEF Returns, database
<1>4. CASE OverlayEmpty
  <2>1. Returns
    BY <1>4 DEF OverlayEmpty
  <2>2. QED
    BY <2>1, LetGo DEF Returns, database
<1>5. ASSUME NEW gap \in Gap, CandleStored(gap) PROVE IInv'
  BY <1>5, CandleStoredOK
<1>6. CASE CandleReplaced
  BY <1>6, CandleReplacedOK
<1>7. ASSUME NEW ts \in 1..Newest, CandleFilled(ts) PROVE IInv'
  <2>1. Newest \in Nat
    <3>1. table # <<>> => table[Len(table)] \in Row
      BY DEF IInv
    <3>2. QED
      BY <3>1 DEF Newest, Row
  <2>2. ts \in Nat
    BY <2>1
  <2>3. QED
    BY <1>7, <2>2, CandleFilledOK
<1>8. CASE Retag
  BY <1>8, SeriesUntouched DEF Retag, run
<1>9. CASE UNCHANGED vars
  BY <1>9, SeriesUntouched DEF vars, database, run
<1>10. QED
  BY <1>1, <1>2, <1>3, <1>4, <1>5, <1>6, <1>7, <1>8, <1>9 DEF Next

--------------------------------------------------------------------------------
(* Theorems.                                                               *)

\* Table, replayed series and signals stay in step while the services go on
\* writing (signal_validation.py, candles of repository.py).
THEOREM Invariance == Spec => []IInv
<1>1. Init => IInv
  BY InitOK
<1>2. IInv /\ [Next]_vars => IInv'
  BY StepOK
<1>3. QED
  BY <1>1, <1>2, PTL DEF Spec

\* A return that a series yields is the one any longer series yields.
LEMMA ReturnStays ==
  ASSUME NEW front \in Seq(Row), NEW series \in Seq(Row), Begins(front, series),
         NEW i \in 1..Len(front), NEW h \in Horizons, Return(front, i, h) # None
  PROVE  Return(series, i, h) = Return(front, i, h)
<1> DEFINE entry == i + Lag
           Late(s) == {j \in entry..Len(s) : s[j].ts >= s[entry].ts + h}
<1>1. entry \in Nat /\ entry >= 1 /\ Len(front) \in Nat /\ Len(series) \in Nat
  BY LagAssumption
<1>2. ~(entry > Len(front)) /\ Late(front) # {} /\ front[entry].close # 0
  BY DEF Return
<1>3. Len(front) <= Len(series) /\ \A j \in 1..Len(front) : series[j] = front[j]
  BY DEF Begins
<1>4. series[entry] = front[entry] /\ ~(entry > Len(series))
  BY <1>1, <1>2, <1>3
<1>5. Late(front) \subseteq Late(series)
  BY <1>1, <1>3, <1>4
<1>6. \A j \in Late(series) : j <= Len(front) => j \in Late(front)
  BY <1>1, <1>3, <1>4
<1>7. Late(front) \subseteq Nat /\ Late(series) \subseteq Nat
      /\ \A j \in Late(front) : j \in 1..Len(front)
  BY <1>1
<1> HIDE DEF Late
<1>8. Min(Late(front)) = Min(Late(series)) /\ Min(Late(front)) \in 1..Len(front)
  <2>1. Min(Late(front)) \in Late(front) /\ \A x \in Late(front) : Min(Late(front)) <= x
    BY <1>2, <1>7, LeastExists
  <2>2. Min(Late(series)) \in Late(series) /\ \A x \in Late(series) : Min(Late(series)) <= x
    BY <1>2, <1>5, <1>7, LeastExists
  <2>3. Min(Late(series)) <= Min(Late(front))
    BY <1>5, <2>1, <2>2
  <2>4. Min(Late(series)) \in Late(front)
    BY <1>1, <1>6, <1>7, <2>1, <2>2, <2>3
  <2>5. QED
    BY <1>7, <2>1, <2>2, <2>3, <2>4
<1>9. series[Min(Late(series))] = front[Min(Late(front))]
  BY <1>3, <1>8
<1>10. Late(series) # {}
  BY <1>2, <1>5
<1>11. /\ Return(front, i, h)
             = (front[Min(Late(front))].close * Scale) \div front[entry].close - Scale
       /\ Return(series, i, h)
             = (series[Min(Late(series))].close * Scale) \div series[entry].close - Scale
  BY <1>2, <1>4, <1>10 DEF Return, Late
<1>12. QED
  BY <1>4, <1>9, <1>11

\* A return that was measured stays measured while the services go on writing
\* behind the replayed series (_forward_returns, select_range).
THEOREM Settled == Spec => []ReturnsAreSettled
<1>1. IInv => ReturnsAreSettled
  <2> SUFFICES ASSUME IInv, ~rewritten, NEW e \in signals, NEW h \in Horizons, e.fwd[h] # None
               PROVE  \E i \in DOMAIN table : table[i].ts = e.ts /\ Return(table, i, h) = e.fwd[h]
    BY DEF ReturnsAreSettled
  <2>1. Begins(fetched, table) /\ fetched \in Seq(Row) /\ table \in Seq(Row)
    BY DEF IInv
  <2>2. PICK i \in DOMAIN fetched : e.ts = fetched[i].ts /\ e.fwd[h] = Return(fetched, i, h)
    BY DEF IInv, Captured
  <2>3. i \in 1..Len(fetched) /\ i \in DOMAIN table /\ table[i] = fetched[i]
    BY <2>1 DEF Begins
  <2>4. Return(table, i, h) = Return(fetched, i, h)
    BY <2>1, <2>2, <2>3, ReturnStays
  <2>5. QED
    BY <2>2, <2>3, <2>4
<1>2. QED
  BY <1>1, Invariance, PTL

\* Over a series of one regime that was fetched twice alike, the overlay's edge
\* (compute_regime_metrics) is the global one (compute_signal_metrics).
THEOREM OneEstimate == Spec => OneRegimeIsGlobal
<1>1. IInv /\ [Next]_vars =>
        [cell' # None /\ fetched = table /\ InRegime(table, cell'.regime) = DOMAIN table
           => cell'.edge = cell'.global]_cell
  <2> SUFFICES ASSUME IInv, [Next]_vars, cell' # cell, cell' # None, fetched = table,
                      InRegime(table, cell'.regime) = DOMAIN table
               PROVE  cell'.edge = cell'.global
    OBVIOUS
  <2>1. PICK regime \in Regime, type \in Type, enough \in BOOLEAN,
             interval \in {"below", "spans", "above", None} :
               Overlay(regime, type, enough, interval)
    BY DEF Next, vars, run, database, Classify, Replay, OverlayEmpty, CandleStored,
           CandleReplaced, CandleFilled, Retag
  <2>2. /\ cell'.regime = regime
        /\ cell'.edge =
             Edge(Bucket(table, regime, type), table, Pool(table, regime), DecisionHorizon)
        /\ cell'.global = GlobalEdge(type, DecisionHorizon)
    BY <2>1 DEF Overlay
  <2>3. Bucket(table, regime, type) = OfType(signals, type)
    <3>1. \A e \in signals : \E i \in DOMAIN table : table[i].ts = e.ts
      BY DEF IInv, Captured
    <3>2. QED
      BY <2>2, <3>1 DEF Bucket, OfType
  <2>4. Pool(table, regime) = DOMAIN fetched
    BY <2>2 DEF Pool
  <2>5. QED
    BY <2>2, <2>3, <2>4 DEF GlobalEdge
<1>2. QED
  BY <1>1, Invariance, PTL DEF Spec, OneRegimeIsGlobal

--------------------------------------------------------------------------------
(* The evidence of a decision.                                             *)

\* Between replay and overlay the signals are all of the replayed series.
AllCaptured == stage = "overlaying" => signals = Captured(fetched)

LEMMA AllCapturedInit == Init => AllCaptured
BY DEF Init, AllCaptured

LEMMA AllCapturedStep == AllCaptured /\ [Next]_vars => AllCaptured'
<1> SUFFICES ASSUME AllCaptured, [Next]_vars PROVE AllCaptured'
  OBVIOUS
<1>1. CASE Replay
  BY <1>1 DEF Replay, AllCaptured, Captured, Return
<1>2. CASE UNCHANGED <<stage, fetched, signals>>
  <2>1. Captured(fetched)' = Captured(fetched)
    BY <1>2
  <2>2. QED
    BY <1>2, <2>1 DEF AllCaptured
<1>3. CASE stage' = "idle" \/ stage' = "replaying"
  BY <1>3 DEF AllCaptured
<1>4. QED
  BY <1>1, <1>2, <1>3 DEF Next, vars, run, database, Classify, Overlay, OverlayEmpty, Returns,
                          CandleStored, CandleReplaced, CandleFilled, Retag

\* A return is a whole number of units, where there is one.
LEMMA ReturnIsInt ==
  ASSUME NEW series \in Seq(Row), NEW i \in 1..Len(series), NEW h \in Horizons,
         Return(series, i, h) # None
  PROVE  Return(series, i, h) \in Int
<1> DEFINE entry == i + Lag
           late == {j \in entry..Len(series) : series[j].ts >= series[entry].ts + h}
<1>1. /\ entry \in 1..Len(series) /\ late # {} /\ series[entry].close # 0
      /\ Return(series, i, h)
           = (series[Min(late)].close * Scale) \div series[entry].close - Scale
  BY LagAssumption DEF Return
<1>2. late \in SUBSET Nat
  BY LagAssumption
<1>3. Min(late) \in late
  BY <1>1, <1>2, LeastExists
<1>4. Min(late) \in 1..Len(series)
  BY <1>1, <1>3
<1> HIDE DEF late, entry
<1>5. series[Min(late)].close \in Nat /\ series[entry].close \in Nat /\ Scale \in Nat
  <2>1. series[Min(late)] \in Row /\ series[entry] \in Row
    BY <1>1, <1>4
  <2>2. QED
    BY <2>1, CandleAssumption, ScaleAssumption DEF Row
<1>6. series[entry].close > 0
  BY <1>1, <1>5
<1> DEFINE x == series[Min(late)].close
           y == series[entry].close
<1>7. x * Scale \in Int /\ y \in Nat /\ y > 0
  BY <1>5, <1>6
<1> HIDE DEF x, y
<1>8. (x * Scale) \div y \in Int
  BY <1>7
<1>9. QED
  BY <1>1, <1>5, <1>8 DEF x, y

\* The sums of an edge are integers: of the signals' returns and of the candles'.
SignalTotal(hits, h) == MapThenSumSet(LAMBDA e : e.fwd[h], hits)
CandleTotal(series, base, h) == MapThenSumSet(LAMBDA i : Return(series, i, h), base)

LEMMA SignalSum ==
  ASSUME NEW hits, IsFiniteSet(hits), NEW h, \A e \in hits : e.fwd[h] \in Int
  PROVE  SignalTotal(hits, h) \in Int
<1> DEFINE D(F) == F = [s \in SUBSET hits |->
                          IF s = {} THEN 0 ELSE Pick(s).fwd[h] + F[s \ {Pick(s)}]]
           f == [e \in hits |-> e.fwd[h]]
<1>1. f \in [hits -> Int]
  OBVIOUS
<1>2. \A s \in SUBSET hits : s # {} => f[Pick(s)] = Pick(s).fwd[h]
  BY PickFacts
<1>3. \A F : D(F) <=> IsFold(F, f, hits)
  <2> HIDE DEF f
  <2>1. QED
    BY <1>2 DEF IsFold
<1>4. SignalTotal(hits, h) = (CHOOSE F : D(F))[hits]
  BY DEF SignalTotal, MapThenSumSet, MapThenFoldSet, Pick
<1> HIDE DEF D, f
<1>5. \E F : D(F)
  BY <1>1, <1>3, FoldExists
<1>6. IsFold((CHOOSE F : D(F)), f, hits)
  BY <1>3, <1>5
<1>7. (CHOOSE F : D(F)) \in [SUBSET hits -> Int]
  BY <1>1, <1>6, FoldIsFold
<1>8. QED
  BY <1>4, <1>7

LEMMA CandleSum ==
  ASSUME NEW series, NEW base, IsFiniteSet(base), NEW h,
         \A i \in base : Return(series, i, h) \in Int
  PROVE  CandleTotal(series, base, h) \in Int
<1> DEFINE D(F) == F = [s \in SUBSET base |->
                          IF s = {} THEN 0 ELSE Return(series, Pick(s), h) + F[s \ {Pick(s)}]]
           f == [i \in base |-> Return(series, i, h)]
<1>1. f \in [base -> Int]
  OBVIOUS
<1>2. \A s \in SUBSET base : s # {} => f[Pick(s)] = Return(series, Pick(s), h)
  BY PickFacts
<1>3. \A F : D(F) <=> IsFold(F, f, base)
  <2> HIDE DEF f
  <2>1. QED
    BY <1>2 DEF IsFold
<1>4. CandleTotal(series, base, h) = (CHOOSE F : D(F))[base]
  BY DEF CandleTotal, MapThenSumSet, MapThenFoldSet, Pick
<1> HIDE DEF D, f
<1>5. \E F : D(F)
  BY <1>1, <1>3, FoldExists
<1>6. IsFold((CHOOSE F : D(F)), f, base)
  BY <1>3, <1>5
<1>7. (CHOOSE F : D(F)) \in [SUBSET base -> Int]
  BY <1>1, <1>6, FoldIsFold
<1>8. QED
  BY <1>4, <1>7

\* An edge is a fraction of integers, wherever it exists.
LEMMA EdgeIsInt ==
  ASSUME NEW entries, IsFiniteSet(entries), NEW series \in Seq(Row), NEW pool,
         pool \subseteq DOMAIN series, NEW h \in Horizons,
         \A e \in entries : e.fwd[h] # None => e.fwd[h] \in Int,
         Edge(entries, series, pool, h) # None
  PROVE  Edge(entries, series, pool, h).num \in Int
<1> DEFINE hits == {e \in entries : e.fwd[h] # None}
           base == {i \in pool : Return(series, i, h) # None}
           S == SignalTotal(hits, h)
           B == CandleTotal(series, base, h)
<1>1. IsFiniteSet(hits) /\ Cardinality(hits) \in Nat
  BY FS_Subset, FS_CardinalityType
<1>2. DOMAIN series = 1..Len(series) /\ Len(series) \in Nat
  BY LenProperties
<1>3. IsFiniteSet(base) /\ Cardinality(base) \in Nat
  <2>1. IsFiniteSet(1..Len(series)) /\ base \in SUBSET (1..Len(series))
    BY <1>2, FS_Interval
  <2> HIDE DEF base
  <2>2. QED
    BY <2>1, FS_Subset, FS_CardinalityType
<1>4. \A e \in hits : e.fwd[h] \in Int
  OBVIOUS
<1>5. \A i \in base : Return(series, i, h) \in Int
  BY <1>2, ReturnIsInt
<1>6. Edge(entries, series, pool, h).num = Cardinality(base) * S - Cardinality(hits) * B
  BY DEF Edge, Baseline, SignalTotal, CandleTotal
<1> HIDE DEF hits, base
<1>7. S \in Int
  BY <1>1, <1>4, SignalSum
<1>8. B \in Int
  BY <1>3, <1>5, CandleSum
<1> HIDE DEF S, B
<1>9. QED
  BY <1>1, <1>3, <1>6, <1>7, <1>8

\* The candles of a replayed series that carry a signal of a type, and the signal
\* that was captured at one of them.
Fired(series, type) == {i \in DOMAIN series : type \in series[i].signals}
CapturedAt(series, type, i) ==
  [ts |-> series[i].ts, type |-> type, fwd |-> [h \in Horizons |-> Return(series, i, h)]]

LEMMA OfTypeFired ==
  ASSUME NEW series \in Seq(Row), NEW type \in Type, signals = Captured(series)
  PROVE  OfType(signals, type) = {CapturedAt(series, type, i) : i \in Fired(series, type)}
<1>1. ASSUME NEW e \in OfType(signals, type)
      PROVE  e \in {CapturedAt(series, type, i) : i \in Fired(series, type)}
  <2>1. e \in Captured(series) /\ e.type = type
    BY DEF OfType
  <2>2. PICK f \in {g \in (DOMAIN series) \X Type : g[2] \in series[g[1]].signals} :
          e = [ts |-> series[f[1]].ts, type |-> f[2],
               fwd |-> [h \in Horizons |-> Return(series, f[1], h)]]
    BY <2>1 DEF Captured
  <2>3. f[2] = type /\ f[1] \in Fired(series, type)
    BY <2>1, <2>2 DEF Fired
  <2>4. e = CapturedAt(series, type, f[1])
    BY <2>2, <2>3 DEF CapturedAt
  <2>5. QED
    BY <2>3, <2>4
<1>2. ASSUME NEW i \in Fired(series, type)
      PROVE  CapturedAt(series, type, i) \in OfType(signals, type)
  <2>1. <<i, type>> \in {g \in (DOMAIN series) \X Type : g[2] \in series[g[1]].signals}
    BY DEF Fired
  <2>2. CapturedAt(series, type, i) \in Captured(series)
    <3> DEFINE f == <<i, type>>
    <3>1. /\ f[1] = i /\ f[2] = type
          /\ f \in {g \in (DOMAIN series) \X Type : g[2] \in series[g[1]].signals}
      BY <2>1
    <3> HIDE DEF f
    <3>2. [ts |-> series[f[1]].ts, type |-> f[2],
           fwd |-> [h \in Horizons |-> Return(series, f[1], h)]] \in Captured(series)
      BY <3>1 DEF Captured
    <3>3. QED
      BY <3>1, <3>2 DEF CapturedAt
  <2>3. QED
    BY <2>2 DEF OfType, CapturedAt
<1>3. QED
  BY <1>1, <1>2

\* A set of candles and the signals captured there are as many.
CapturedOf(series, type, T) == {CapturedAt(series, type, i) : i \in T}

LEMMA AsManySignals ==
  ASSUME NEW series \in Seq(Row), Ascending(series), NEW type,
         NEW T \in SUBSET (DOMAIN series)
  PROVE  /\ IsFiniteSet(T) /\ IsFiniteSet(CapturedOf(series, type, T))
         /\ Cardinality(CapturedOf(series, type, T)) = Cardinality(T)
<1> DEFINE f == [i \in T |-> CapturedAt(series, type, i)]
           U == CapturedOf(series, type, T)
<1>1. DOMAIN series = 1..Len(series) /\ Len(series) \in Nat
  BY LenProperties
<1>2. IsFiniteSet(T)
  <2>1. IsFiniteSet(1..Len(series))
    BY <1>1, FS_Interval
  <2>2. QED
    BY <1>1, <2>1, FS_Subset
<1>3. \A i, j \in T : CapturedAt(series, type, i) = CapturedAt(series, type, j) => i = j
  <2> SUFFICES ASSUME NEW i \in T, NEW j \in T, i # j
               PROVE  CapturedAt(series, type, i) # CapturedAt(series, type, j)
    OBVIOUS
  <2>1. i \in 1..Len(series) /\ j \in 1..Len(series)
    BY <1>1
  <2>2. series[i].ts \in Nat /\ series[j].ts \in Nat
    <3>1. series[i] \in Row /\ series[j] \in Row
      BY <2>1
    <3>2. QED
      BY <3>1 DEF Row
  <2>3. i < j \/ j < i
    BY <2>1
  <2>4. series[i].ts # series[j].ts
    BY <2>1, <2>2, <2>3 DEF Ascending
  <2>5. QED
    BY <2>4 DEF CapturedAt
<1>4. f \in Surjection(T, U) /\ f \in Injection(T, U)
  <2> HIDE DEF U
  <2>1. \A i \in T : f[i] = CapturedAt(series, type, i)
    OBVIOUS
  <2>2. U = {f[i] : i \in T}
    BY <2>1 DEF U, CapturedOf
  <2> HIDE DEF f
  <2>3. f \in [T -> U]
    BY <2>2 DEF f
  <2>4. QED
    BY <1>3, <2>1, <2>2, <2>3 DEF Surjection, Injection, IsInjective
<1> HIDE DEF f
<1>5. QED
  BY <1>2, <1>4, FS_Surjection

\* A step that decides a cell is an overlay.
LEMMA DecidedByOverlay ==
  ASSUME [Next]_vars, cell' # cell, cell' # None
  PROVE  \E regime \in Regime, type \in Type, enough \in BOOLEAN,
            interval \in {"below", "spans", "above", None} :
              Overlay(regime, type, enough, interval)
BY DEF Next, vars, run, database, Classify, Replay, OverlayEmpty, CandleStored,
       CandleReplaced, CandleFilled, Retag

\* Two edges that point the same way, neither of them zero.
LEMMA SameSign ==
  ASSUME NEW e, NEW g, e.num \in Int, g.num \in Int, Sign(e) = Sign(g), Sign(e) # 0
  PROVE  e.num * g.num > 0
<1> DEFINE x == e.num
           y == g.num
<1>1. (x > 0 /\ y > 0) \/ (x < 0 /\ y < 0)
  BY DEF Sign
<1>2. x \in Int /\ y \in Int
  OBVIOUS
<1> HIDE DEF x, y
<1>3. ASSUME x > 0, y > 0 PROVE x * y > 0
  BY <1>2, <1>3
<1>4. ASSUME x < 0, y < 0 PROVE x * y > 0
  <2> DEFINE a == 0 - x
             b == 0 - y
  <2>1. a \in Int /\ b \in Int /\ a > 0 /\ b > 0 /\ x = 0 - a /\ y = 0 - b
    BY <1>2, <1>4
  <2> HIDE DEF a, b
  <2>2. a * b > 0
    BY <2>1
  <2>3. x * y = a * b
    BY <2>1
  <2>4. QED
    BY <2>2, <2>3
<1>5. x * y > 0
  BY <1>1, <1>3, <1>4
<1>6. QED
  BY <1>5 DEF x, y

\* Of the candles of a bucket at least half have no signal of the type before them
\* within the window, unless the bucket is mostly clustered.
LEMMA AloneOfBucket ==
  ASSUME NEW series \in Seq(Row), Ascending(series), signals = Captured(series),
         NEW candles, NEW regime, NEW type \in Type,
         ~MostlyClustered(Bucket(candles, regime, type))
  PROVE  LET here == {i \in Fired(series, type) :
                        \E k \in InRegime(candles, regime) : candles[k].ts = series[i].ts}
             alone == {i \in here : \A j \in Fired(series, type) :
                                      series[i].ts - series[j].ts \notin 1..Window}
         IN 2 * Cardinality(alone) >= Cardinality(here)
<1> DEFINE fired == Fired(series, type)
           at(i) == CapturedAt(series, type, i)
           here == {i \in fired : \E k \in InRegime(candles, regime) : candles[k].ts = series[i].ts}
           near == {i \in here : \E j \in fired : series[i].ts - series[j].ts \in 1..Window}
           alone == {i \in here : \A j \in fired : series[i].ts - series[j].ts \notin 1..Window}
           entries == Bucket(candles, regime, type)
           C == {e \in entries : Clustered(e)}
<1>1. OfType(signals, type) = {at(i) : i \in fired}
  BY OfTypeFired
<1>2. \A i \in fired : at(i).ts = series[i].ts /\ at(i).type = type
  BY DEF CapturedAt
<1>3. entries = {at(i) : i \in here}
  <2> HIDE DEF fired, at
  <2>1. QED
    BY <1>1, <1>2 DEF Bucket
<1>4. C = {at(i) : i \in near}
  <2>1. \A e \in entries : e.type = type
    BY <1>2, <1>3
  <2> HIDE DEF fired, at
  <2>2. \A e \in entries : Clustered(e) <=> \E j \in fired : e.ts - series[j].ts \in 1..Window
    BY <1>1, <1>2, <2>1 DEF Clustered
  <2> HIDE DEF entries
  <2>3. QED
    BY <1>2, <1>3, <2>2
<1>5. here \in SUBSET (DOMAIN series) /\ near \in SUBSET here /\ alone = here \ near
  BY DEF Fired
<1>6. /\ IsFiniteSet(here) /\ Cardinality(entries) = Cardinality(here)
      /\ Cardinality(C) = Cardinality(near)
  <2>1. near \in SUBSET (DOMAIN series)
    BY <1>5
  <2> HIDE DEF here, near, entries, C
  <2>2. IsFiniteSet(here) /\ Cardinality(CapturedOf(series, type, here)) = Cardinality(here)
    BY <1>5, AsManySignals
  <2>3. Cardinality(CapturedOf(series, type, near)) = Cardinality(near)
    BY <2>1, AsManySignals
  <2>4. entries = CapturedOf(series, type, here) /\ C = CapturedOf(series, type, near)
    BY <1>3, <1>4 DEF CapturedOf
  <2>5. QED
    BY <2>2, <2>3, <2>4
<1>7. ~(2 * Cardinality(C) > Cardinality(entries))
  BY DEF MostlyClustered
<1> HIDE DEF here, near, alone, entries, C
<1>8. /\ Cardinality(here) \in Nat /\ Cardinality(near) \in Nat
      /\ Cardinality(alone) = Cardinality(here) - Cardinality(near)
  <2>1. IsFiniteSet(here) /\ IsFiniteSet(near) /\ here \cap near = near
    BY <1>5, <1>6, FS_Subset
  <2>2. Cardinality(here \ near) = Cardinality(here) - Cardinality(here \cap near)
    BY <2>1, FS_Difference
  <2>3. QED
    BY <1>5, <2>1, <2>2, FS_CardinalityType
<1>9. 2 * Cardinality(alone) >= Cardinality(here)
  BY <1>6, <1>7, <1>8
<1>10. QED
  BY <1>9 DEF here, alone

\* ALLOW comes out of _decide only with all the evidence that the replay and the
\* overlay gathered apart from each other: samples, an interval off zero, a global
\* edge of the same sign, and at least half of the bucket's candles unclustered.
THEOREM AllowEarned == Spec => AllowIsEarned
<1> DEFINE Earned ==
      /\ cell'.enough /\ cell'.interval \in {"below", "above"}
      /\ cell'.global # None /\ cell'.edge.num * cell'.global.num > 0
      /\ LET fired == {i \in DOMAIN fetched : cell'.type \in fetched[i].signals}
             now == InRegime(table, cell'.regime)
             here == {i \in fired : \E k \in now : table[k].ts = fetched[i].ts}
             alone == {i \in here : \A j \in fired : fetched[i].ts - fetched[j].ts \notin 1..Window}
         IN 2 * Cardinality(alone) >= Cardinality(here)
<1>1. IInv /\ AllCaptured /\ [Next]_vars =>
        [cell' # None /\ cell'.decision = "ALLOW" => Earned]_cell
  <2> SUFFICES ASSUME IInv, AllCaptured, [Next]_vars, cell' # cell, cell' # None,
                      cell'.decision = "ALLOW"
               PROVE  Earned
    OBVIOUS
  <2>1. PICK regime \in Regime, type \in Type, enough \in BOOLEAN,
             interval \in {"below", "spans", "above", None} :
               Overlay(regime, type, enough, interval)
    BY DecidedByOverlay
  <2> DEFINE entries == Bucket(table, regime, type)
             edge == Edge(entries, table, Pool(table, regime), DecisionHorizon)
             global == GlobalEdge(type, DecisionHorizon)
             validity == Validity(enough, interval, MostlyClustered(entries))
  <2>2. /\ stage = "overlaying" /\ (interval # None <=> edge # None)
        /\ cell' = [regime |-> regime, type |-> type, edge |-> edge, global |-> global,
                    enough |-> enough, interval |-> interval,
                    decision |-> Decide(validity, edge, global)]
    BY <2>1 DEF Overlay
  <2> HIDE DEF entries, edge, global, validity
  <2>3. /\ cell'.regime = regime /\ cell'.type = type /\ cell'.edge = edge
        /\ cell'.global = global /\ cell'.enough = enough /\ cell'.interval = interval
        /\ Decide(validity, edge, global) = "ALLOW"
    BY <2>2
  <2>4. /\ validity # "insufficient_data" /\ validity # "diagnostic_only"
        /\ global # None /\ Sign(edge) = Sign(global) /\ Sign(edge) # 0
    BY <2>3 DEF Decide
  <2>5. enough /\ interval # None /\ interval # "spans" /\ ~MostlyClustered(entries)
    BY <2>4 DEF Validity, validity
  <2>6. interval \in {"below", "above"} /\ edge # None
    BY <2>2, <2>5
  <2>7. /\ fetched \in Seq(Row) /\ Ascending(fetched) /\ table \in Seq(Row)
        /\ signals = Captured(fetched)
    BY <2>2 DEF IInv, AllCaptured
  <2>8. /\ IsFiniteSet(OfType(signals, type))
        /\ \A e \in OfType(signals, type) :
             e.fwd[DecisionHorizon] # None => e.fwd[DecisionHorizon] \in Int
    <3>1. OfType(signals, type) = {CapturedAt(fetched, type, i) : i \in Fired(fetched, type)}
      BY <2>7, OfTypeFired
    <3>2. Fired(fetched, type) \in SUBSET (DOMAIN fetched) /\ DOMAIN fetched = 1..Len(fetched)
      BY <2>7, LenProperties DEF Fired
    <3>3. IsFiniteSet(OfType(signals, type))
      <4>1. IsFiniteSet(CapturedOf(fetched, type, Fired(fetched, type)))
        BY <2>7, <3>2, AsManySignals
      <4>2. QED
        BY <3>1, <4>1 DEF CapturedOf
    <3>4. \A i \in Fired(fetched, type) :
            /\ i \in 1..Len(fetched)
            /\ CapturedAt(fetched, type, i).fwd[DecisionHorizon] = Return(fetched, i, DecisionHorizon)
      BY <3>2, HorizonAssumption DEF CapturedAt
    <3>5. \A i \in Fired(fetched, type) :
            Return(fetched, i, DecisionHorizon) # None => Return(fetched, i, DecisionHorizon) \in Int
      BY <2>7, <3>4, HorizonAssumption, ReturnIsInt
    <3>6. QED
      BY <3>1, <3>3, <3>4, <3>5
  <2>9. edge.num \in Int
    <3>1. entries \subseteq OfType(signals, type)
      BY DEF entries, Bucket
    <3>2. IsFiniteSet(entries)
      BY <2>8, <3>1, FS_Subset
    <3>3. Pool(table, regime) \subseteq DOMAIN table
      BY DEF Pool, InRegime
    <3>4. QED
      BY <2>6, <2>7, <2>8, <3>1, <3>2, <3>3, EdgeIsInt, HorizonAssumption DEF edge
  <2>10. global.num \in Int
    BY <2>4, <2>7, <2>8, EdgeIsInt, HorizonAssumption DEF global, GlobalEdge
  <2>11. edge.num * global.num > 0
    BY <2>4, <2>9, <2>10, SameSign
  <2>12. LET here == {i \in Fired(fetched, type) :
                        \E k \in InRegime(table, regime) : table[k].ts = fetched[i].ts}
             alone == {i \in here : \A j \in Fired(fetched, type) :
                                      fetched[i].ts - fetched[j].ts \notin 1..Window}
         IN 2 * Cardinality(alone) >= Cardinality(here)
    BY <2>5, <2>7, AloneOfBucket DEF entries
  <2>13. QED
    BY <2>3, <2>4, <2>5, <2>6, <2>11, <2>12 DEF Fired
<1>2. Spec => []AllCaptured
  BY AllCapturedInit, AllCapturedStep, PTL DEF Spec
<1>3. QED
  BY <1>1, <1>2, Invariance, PTL DEF Spec, AllowIsEarned

================================================================================
