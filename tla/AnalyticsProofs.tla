---------------------------- MODULE AnalyticsProofs ----------------------------
(***************************************************************************)
(* AnalyticsEngine for any prices, volatilities, windows, thresholds and   *)
(* length of a behaviour: what the signal engine believes and what the     *)
(* table of signals shows do not part unless an INSERT was lost, and an    *)
(* event is let out on the way into its condition only.                    *)
(***************************************************************************)
EXTENDS AnalyticsEngine, SumLemmas

State(t) == IF t = "pressure" THEN pressure ELSE highvol
InFlight == {rest[i].type : i \in 1..Len(rest)}

Level == {"neutral", "buy", "sell", "normal", "high"}
SignalRow == [type : Type, from : Level, to : Level]

TypesOK ==
  /\ pressure \in {"neutral", "buy", "sell"} /\ highvol \in {"normal", "high"}
  /\ rest \in Seq(SignalRow)
  /\ stored \in [Type -> Level]
  /\ next \in Nat \ {0} /\ latest \in Nat

\* Transitions under way are one per type, each to the state the engine is in.
RowsInStep ==
  /\ \A i \in 1..Len(rest) : rest[i].to = State(rest[i].type)
  /\ \A i, j \in 1..Len(rest) : rest[i].type = rest[j].type => i = j

\* Transitions wait in a handler that holds its candle, and before the events.
HandlerInStep ==
  /\ rest # <<>> => bar \in Held /\ up
  /\ events # {} => bar \in Held /\ rest = <<>>

\* What is neither resting nor under way is in the table, unless it was lost.
ShownInStep == \A t \in Type \ (InFlight \cup lost) : State(t) \in {Rest[t], stored[t]}

IInv == TypesOK /\ RowsInStep /\ HandlerInStep /\ ShownInStep

--------------------------------------------------------------------------------
(* What one candle lets out.                                               *)

\* A list of transitions is good for the states the engine has afterwards.
GoodFor(out, p, h) ==
  /\ out \in Seq(SignalRow)
  /\ \A i \in 1..Len(out) : out[i].to = IF out[i].type = "pressure" THEN p ELSE h
  /\ \A i, j \in 1..Len(out) : out[i].type = out[j].type => i = j

LEMMA ListFacts ==
  ASSUME NEW x \in SignalRow, NEW y \in SignalRow
  PROVE  /\ <<x>> \in Seq(SignalRow) /\ Len(<<x>>) = 1 /\ <<x>>[1] = x
         /\ <<x>> \o <<y>> \in Seq(SignalRow) /\ Len(<<x>> \o <<y>>) = 2
         /\ (<<x>> \o <<y>>)[1] = x /\ (<<x>> \o <<y>>)[2] = y
         /\ <<x>> \o <<>> = <<x>> /\ <<>> \o <<x>> = <<x>>
<1>1. <<x>> \in Seq(SignalRow) /\ Len(<<x>>) = 1 /\ <<x>>[1] = x
  OBVIOUS
<1>2. <<y>> \in Seq(SignalRow) /\ Len(<<y>>) = 1 /\ <<y>>[1] = y
  OBVIOUS
<1>3. <<x>> \o <<>> = <<x>> /\ <<>> \o <<x>> = <<x>>
  BY <1>1, ConcatEmptySeq
<1>4. /\ <<x>> \o <<y>> \in Seq(SignalRow) /\ Len(<<x>> \o <<y>>) = 2
      /\ (<<x>> \o <<y>>)[1] = x /\ (<<x>> \o <<y>>)[2] = y
  BY <1>1, <1>2, ConcatProperties
<1>5. QED
  BY <1>1, <1>3, <1>4

LEMMA SignalsFacts ==
  ASSUME TypesOK, NEW call \in Call, NEW sure \in BOOLEAN, NEW vol,
         EvaluateSignals(call, sure, vol)
  PROVE  /\ pressure' \in {"neutral", "buy", "sell"} /\ highvol' \in {"normal", "high"}
         /\ GoodFor(Signals(call, sure, vol), pressure', highvol')
         /\ \/ \E i \in 1..Len(Signals(call, sure, vol)) :
                 Signals(call, sure, vol)[i].type = "pressure"
            \/ pressure' \in {pressure, "neutral"}
         /\ \/ \E i \in 1..Len(Signals(call, sure, vol)) :
                 Signals(call, sure, vol)[i].type = "highvol"
            \/ highvol' \in {highvol, "normal"}
<1> DEFINE p == Signal("pressure", pressure, call)
           h == Signal("highvol", "normal", "high")
           first == call \in {"buy", "sell"} /\ sure /\ call # pressure
           second == HighvolAfter(vol) = "high" /\ highvol = "normal"
<1>1. pressure' = PressureAfter(call, sure) /\ highvol' = HighvolAfter(vol)
  BY DEF EvaluateSignals
<1>2. pressure' \in {"neutral", "buy", "sell"} /\ highvol' \in {"normal", "high"}
  BY <1>1 DEF TypesOK, Call, PressureAfter, HighvolAfter
<1>3. ASSUME first
      PROVE  /\ p \in SignalRow /\ p.type = "pressure" /\ p.to = pressure'
             /\ PressureSignals(call, sure) = <<p>>
  <2>1. call \in {"buy", "sell"} /\ sure /\ call # pressure
    BY <1>3
  <2>2. pressure' = call
    BY <1>1, <2>1, CallAssumption DEF PressureAfter
  <2>3. p \in SignalRow /\ p.type = "pressure" /\ p.to = call
    BY <2>1 DEF Signal, SignalRow, Level, Type, TypesOK
  <2>4. QED
    BY <2>1, <2>2, <2>3 DEF PressureSignals
<1>4. ASSUME ~first
      PROVE  PressureSignals(call, sure) = <<>> /\ pressure' \in {pressure, "neutral"}
  BY <1>1, <1>4 DEF PressureSignals, PressureAfter, Call
<1>5. ASSUME second
      PROVE  /\ h \in SignalRow /\ h.type = "highvol" /\ h.to = highvol'
             /\ HighvolSignals(vol) = <<h>>
  BY <1>1, <1>5 DEF Signal, SignalRow, Level, Type, HighvolSignals
<1>6. ASSUME ~second
      PROVE  HighvolSignals(vol) = <<>> /\ highvol' \in {highvol, "normal"}
  BY <1>1, <1>2, <1>6 DEF HighvolSignals, TypesOK
<1>7. Signals(call, sure, vol) = PressureSignals(call, sure) \o HighvolSignals(vol)
  BY DEF Signals
<1> HIDE DEF p, h, first, second
<1>8. CASE first /\ second
  <2>1. Signals(call, sure, vol) = <<p>> \o <<h>>
    BY <1>3, <1>5, <1>7, <1>8
  <2> DEFINE out == Signals(call, sure, vol)
  <2>2. out \in Seq(SignalRow) /\ Len(out) = 2 /\ out[1] = p /\ out[2] = h
    BY <1>3, <1>5, <1>8, <2>1, ListFacts
  <2>3. p.type = "pressure" /\ p.to = pressure' /\ h.type = "highvol" /\ h.to = highvol'
    BY <1>3, <1>5, <1>8
  <2> HIDE DEF out
  <2>4. \A i \in 1..Len(out) : i = 1 \/ i = 2
    BY <2>2
  <2>5. \A i \in 1..Len(out) : out[i].to = IF out[i].type = "pressure" THEN pressure' ELSE highvol'
    BY <2>2, <2>3, <2>4
  <2>6. \A i, j \in 1..Len(out) : out[i].type = out[j].type => i = j
    BY <2>2, <2>3, <2>4
  <2>7. 1 \in 1..Len(out) /\ 2 \in 1..Len(out)
    BY <2>2
  <2>8. /\ \E i \in 1..Len(out) : out[i].type = "pressure"
        /\ \E i \in 1..Len(out) : out[i].type = "highvol"
    BY <2>2, <2>3, <2>7
  <2>9. GoodFor(out, pressure', highvol')
    BY <2>2, <2>5, <2>6 DEF GoodFor
  <2>10. QED
    BY <1>2, <2>8, <2>9 DEF out
<1>9. CASE first /\ ~second
  <2>1. Signals(call, sure, vol) = <<p>>
    BY <1>3, <1>6, <1>7, <1>9, ListFacts
  <2>2. QED
    BY <1>2, <1>3, <1>6, <1>9, <2>1, ListFacts DEF GoodFor
<1>10. CASE ~first /\ second
  <2>1. Signals(call, sure, vol) = <<h>>
    BY <1>4, <1>5, <1>7, <1>10, ListFacts
  <2>2. QED
    BY <1>2, <1>4, <1>5, <1>10, <2>1, ListFacts DEF GoodFor
<1>11. CASE ~first /\ ~second
  <2>1. Signals(call, sure, vol) = <<>>
    BY <1>4, <1>6, <1>7, <1>11
  <2>2. <<>> \in Seq(SignalRow) /\ Len(<<>>) = 0
    OBVIOUS
  <2>3. QED
    BY <1>2, <1>4, <1>6, <1>11, <2>1, <2>2 DEF GoodFor
<1>12. QED
  BY <1>8, <1>9, <1>10, <1>11

--------------------------------------------------------------------------------
(* One lemma per action.                                                   *)

LEMMA InitOK == Init => IInv
<1> SUFFICES ASSUME Init PROVE IInv
  OBVIOUS
<1>1. rest = <<>> /\ rest \in Seq(SignalRow) /\ Len(rest) = 0
  BY DEF Init
<1>2. pressure = "neutral" /\ highvol = "normal" /\ next = 1 /\ latest = 0
  BY DEF Init, SignalInit
<1>3. stored = Rest /\ Rest \in [Type -> Level]
  BY DEF Init, Rest, Type, Level
<1>4. TypesOK
  BY <1>1, <1>2, <1>3 DEF TypesOK
<1>5. RowsInStep
  BY <1>1 DEF RowsInStep
<1>6. HandlerInStep
  BY <1>1 DEF HandlerInStep, Init
<1>7. ShownInStep
  BY <1>2 DEF ShownInStep, State, Rest, Type
<1>8. QED
  BY <1>4, <1>5, <1>6, <1>7 DEF IInv

\* The handler is idle afterwards and what waited counts as lost: the end of a
\* failed INSERT and of a cancelled handler.
LEMMA Dropped ==
  ASSUME IInv, rest' = <<>>, events' = {}, lost' = lost \cup InFlight,
         UNCHANGED <<pressure, highvol, stored, next, latest>>
  PROVE  IInv'
<1>1. rest' \in Seq(SignalRow) /\ Len(rest') = 0
  OBVIOUS
<1>2. TypesOK'
  BY <1>1 DEF IInv, TypesOK
<1>3. RowsInStep' /\ HandlerInStep'
  BY <1>1 DEF RowsInStep, HandlerInStep
<1>4. ShownInStep'
  <2> SUFFICES ASSUME NEW t \in Type, t \notin lost'
               PROVE  State(t)' \in {Rest[t], stored[t]'}
    BY DEF ShownInStep
  <2>1. t \notin InFlight \cup lost
    OBVIOUS
  <2>2. State(t) \in {Rest[t], stored[t]}
    BY <2>1 DEF IInv, ShownInStep
  <2>3. State(t)' = State(t) /\ stored[t]' = stored[t]
    BY DEF State
  <2>4. QED
    BY <2>2, <2>3
<1>5. QED
  BY <1>2, <1>3, <1>4 DEF IInv

\* The signal engine, the transitions under way and the table stay as they are.
LEMMA SignalsUntouched ==
  ASSUME IInv, UNCHANGED <<pressure, highvol, rest, stored, lost>>,
         HandlerInStep', next' \in Nat \ {0}, latest' \in Nat
  PROVE  IInv'
<1>1. TypesOK'
  BY DEF IInv, TypesOK
<1>2. \A t \in Type : State(t)' = State(t)
  BY DEF State
<1>3. RowsInStep'
  <2> SUFFICES ASSUME NEW i \in 1..Len(rest)
               PROVE  (rest[i].to = State(rest[i].type))'
    BY DEF IInv, RowsInStep
  <2>1. rest[i].to = State(rest[i].type)
    BY DEF IInv, RowsInStep
  <2>2. QED
    BY <2>1 DEF State
<1>4. ShownInStep'
  BY <1>2 DEF IInv, ShownInStep, InFlight
<1>5. QED
  BY <1>1, <1>3, <1>4 DEF IInv

LEMMA HandleCandleOK ==
  ASSUME IInv, NEW b \in Bar, NEW call \in Call, NEW sure \in BOOLEAN,
         HandleCandle(b, call, sure)
  PROVE  IInv'
<1> DEFINE out == Signals(call, sure, b.vol)
<1>1. up /\ bar = None /\ next <= MaxMinute /\ up' = up /\ UNCHANGED <<stored, lost>>
  BY DEF HandleCandle, table
<1>2. rest = <<>> /\ InFlight = {} /\ events = {}
  <2>1. rest = <<>> /\ events = {}
    BY <1>1, NoneAssumption DEF IInv, HandlerInStep
  <2>2. QED
    BY <2>1 DEF InFlight
<1>3. next \in Nat \ {0} /\ next \in Minute
  BY <1>1, MinuteAssumption DEF IInv, TypesOK, Minute
<1>4. next' \in Nat \ {0} /\ latest' \in Nat
  BY <1>3 DEF HandleCandle, IInv, TypesOK
<1>5. EvaluateSignals(call, sure, b.vol)
  BY DEF HandleCandle
<1>6. /\ pressure' \in {"neutral", "buy", "sell"} /\ highvol' \in {"normal", "high"}
      /\ GoodFor(out, pressure', highvol')
      /\ (\E i \in 1..Len(out) : out[i].type = "pressure") \/ pressure' \in {pressure, "neutral"}
      /\ (\E i \in 1..Len(out) : out[i].type = "highvol") \/ highvol' \in {highvol, "normal"}
  BY <1>5, SignalsFacts DEF IInv
<1>7. /\ rest' = out
      /\ out # <<>> => bar' = [minute |-> next, data |-> b] /\ events' = events
      /\ out = <<>> /\ events' # {} => bar' = [minute |-> next, data |-> b]
  BY DEF HandleCandle, EventPart
<1> HIDE DEF out
<1>8. TypesOK'
  BY <1>1, <1>4, <1>6, <1>7 DEF IInv, TypesOK, GoodFor
<1>9. RowsInStep' /\ HandlerInStep'
  <2>1. RowsInStep'
    BY <1>6, <1>7 DEF RowsInStep, State, GoodFor
  <2>2. [minute |-> next, data |-> b] \in Held
    BY <1>3 DEF Held
  <2>3. HandlerInStep'
    BY <1>1, <1>2, <1>7, <2>2 DEF HandlerInStep
  <2>4. QED
    BY <2>1, <2>3
<1>10. ShownInStep'
  <2> SUFFICES ASSUME NEW t \in Type, t \notin InFlight', t \notin lost'
               PROVE  State(t)' \in {Rest[t], stored[t]'}
    BY DEF ShownInStep
  <2>1. \A i \in 1..Len(out) : out[i].type # t
    BY <1>7 DEF InFlight
  <2>2. State(t)' \in {State(t), Rest[t]}
    BY <1>6, <2>1 DEF State, Rest, Type
  <2>3. State(t) \in {Rest[t], stored[t]}
    BY <1>1, <1>2 DEF IInv, ShownInStep
  <2>4. QED
    BY <1>1, <2>2, <2>3
<1>11. QED
  BY <1>8, <1>9, <1>10 DEF IInv

LEMMA SignalInsertedOK ==
  ASSUME IInv, SignalInserted
  PROVE  IInv'
<1> DEFINE row == rest[1]
<1>1. rest \in Seq(SignalRow) /\ rest # <<>> /\ Len(rest) \in Nat /\ Len(rest) >= 1
  <2>1. rest \in Seq(SignalRow) /\ rest # <<>>
    BY DEF IInv, TypesOK, SignalInserted
  <2>2. QED
    BY <2>1
<1>2. row \in SignalRow /\ row.type \in Type /\ row.to \in Level /\ row.to = State(row.type)
  <2>1. 1 \in 1..Len(rest)
    BY <1>1
  <2>2. row \in SignalRow /\ row.to = State(row.type)
    BY <1>1, <2>1 DEF IInv, RowsInStep
  <2>3. QED
    BY <2>2 DEF SignalRow
<1>3. /\ stored' = [stored EXCEPT ![row.type] = row.to] /\ lost' = lost \ {row.type}
      /\ UNCHANGED <<pressure, highvol, up, next, latest>>
  <2>1. Head(rest) = row
    BY <1>1
  <2>2. QED
    BY <2>1 DEF SignalInserted, signalVars, feed
<1>4. /\ rest' = Tail(rest) /\ rest' \in Seq(SignalRow) /\ Len(rest') = Len(rest) - 1
      /\ \A i \in 1..Len(rest') : rest'[i] = rest[i + 1]
      /\ rest' # <<>> => UNCHANGED <<bar, events>>
      /\ rest' = <<>> /\ events' # {} => bar' = [minute |-> bar.minute, data |-> bar.data]
  <2>1. /\ Tail(rest) \in Seq(SignalRow) /\ Len(Tail(rest)) = Len(rest) - 1
        /\ \A i \in 1..Len(Tail(rest)) : Tail(rest)[i] = rest[i + 1]
    BY <1>1, HeadTailProperties
  <2>2. CASE Len(rest) > 1
    <3>1. rest' = Tail(rest) /\ UNCHANGED <<bar, events>>
      BY <2>2 DEF SignalInserted
    <3>2. rest' # <<>>
      <4>1. Len(rest') > 0 /\ Len(<<>>) = 0
        BY <1>1, <2>1, <2>2, <3>1
      <4>2. QED
        BY <4>1
    <3>3. QED
      BY <2>1, <3>1, <3>2
  <2>3. CASE ~(Len(rest) > 1)
    <3>1. /\ rest' = <<>>
          /\ events' # {} => bar' = [minute |-> bar.minute, data |-> bar.data]
      BY <2>3 DEF SignalInserted, EventPart
    <3>2. Tail(rest) = <<>>
      BY <1>1, <2>1, <2>3, EmptySeq
    <3>3. QED
      BY <2>1, <3>1, <3>2
  <2>4. QED
    BY <2>2, <2>3
<1>5. \A t \in Type : State(t)' = State(t)
  BY <1>3 DEF State
<1>6. TypesOK'
  <2>1. stored' \in [Type -> Level]
    BY <1>2, <1>3 DEF IInv, TypesOK
  <2>2. QED
    BY <1>3, <1>4, <2>1 DEF IInv, TypesOK
<1> HIDE DEF row
<1>7. \A i \in 1..Len(rest') : i + 1 \in 1..Len(rest) /\ i + 1 # 1
  BY <1>1, <1>4
<1>8. RowsInStep'
  <2>1. (\A i \in 1..Len(rest) : rest[i].to = State(rest[i].type))'
    <3> SUFFICES ASSUME NEW i \in 1..Len(rest')
                 PROVE  (rest[i].to = State(rest[i].type))'
      OBVIOUS
    <3>1. rest'[i] = rest[i + 1] /\ i + 1 \in 1..Len(rest)
      BY <1>4, <1>7
    <3>2. rest[i + 1].to = State(rest[i + 1].type)
      BY <3>1 DEF IInv, RowsInStep
    <3>3. QED
      BY <1>3, <3>1, <3>2 DEF State
  <2>2. \A i, j \in 1..Len(rest') : rest'[i].type = rest'[j].type => i = j
    <3> SUFFICES ASSUME NEW i \in 1..Len(rest'), NEW j \in 1..Len(rest'),
                        rest'[i].type = rest'[j].type
                 PROVE  i = j
      OBVIOUS
    <3>1. rest[i + 1].type = rest[j + 1].type
      BY <1>4
    <3>2. i + 1 = j + 1
      BY <1>7, <3>1 DEF IInv, RowsInStep
    <3>3. QED
      BY <1>4, <3>2
  <2>3. QED
    BY <2>1, <2>2 DEF RowsInStep
<1>9. HandlerInStep'
  <2>1. bar \in Held /\ up /\ events = {}
    BY <1>1 DEF IInv, HandlerInStep
  <2>2. [minute |-> bar.minute, data |-> bar.data] \in Held
    BY <2>1 DEF Held
  <2>3. QED
    BY <1>3, <1>4, <2>1, <2>2 DEF HandlerInStep
<1>10. ShownInStep'
  <2> SUFFICES ASSUME NEW t \in Type, t \notin InFlight', t \notin lost'
               PROVE  State(t)' \in {Rest[t], stored[t]'}
    BY DEF ShownInStep
  <2>1. CASE t = row.type
    BY <1>2, <1>3, <1>5, <2>1 DEF IInv, TypesOK
  <2>2. CASE t # row.type
    <3>1. t \notin lost /\ stored[t]' = stored[t]
      BY <1>3, <2>2 DEF IInv, TypesOK
    <3>2. \A i \in 1..Len(rest) : rest[i].type # t
      <4> SUFFICES ASSUME NEW i \in 1..Len(rest), rest[i].type = t
                   PROVE  FALSE
        OBVIOUS
      <4>1. i # 1
        BY <2>2 DEF row
      <4>2. i - 1 \in 1..Len(rest') /\ rest'[i - 1] = rest[(i - 1) + 1]
        BY <1>1, <1>4, <4>1
      <4>3. rest'[i - 1].type = t
        BY <4>2
      <4>4. QED
        BY <4>2, <4>3 DEF InFlight
    <3>3. State(t) \in {Rest[t], stored[t]}
      BY <3>1, <3>2 DEF IInv, ShownInStep, InFlight
    <3>4. QED
      BY <1>5, <3>1, <3>3
  <2>3. QED
    BY <2>1, <2>2
<1>11. QED
  BY <1>6, <1>8, <1>9, <1>10 DEF IInv

\* The rows of the events begin to go in after the last signal is through, so
\* an INSERT of an event leaves the signals alone.
LEMMA EventsOK ==
  ASSUME IInv, EventInserted \/ EventFails
  PROVE  IInv'
<1>1. CASE EventInserted
  <2>1. /\ UNCHANGED <<pressure, highvol, rest, stored, lost, next, latest>>
        /\ events # {} /\ (events' # {} => bar' = bar)
    BY <1>1 DEF EventInserted, signalVars, feed, table
  <2>2. HandlerInStep'
    BY <2>1 DEF IInv, HandlerInStep
  <2>3. QED
    BY <2>1, <2>2, SignalsUntouched DEF IInv, TypesOK
<1>2. CASE EventFails
  <2>1. /\ UNCHANGED <<pressure, highvol, stored, lost, next, latest>>
        /\ events # {} /\ rest' = <<>> /\ events' = {}
    BY <1>2 DEF EventFails, Idle, signalVars, feed, table
  <2>2. rest = <<>> /\ HandlerInStep'
    BY <2>1 DEF IInv, HandlerInStep
  <2>3. QED
    BY <2>1, <2>2, SignalsUntouched DEF IInv, TypesOK
<1>3. QED
  BY <1>1, <1>2

\* Where a feed begins again: max of a minute and 1, as an integer.
LEMMA FromOne ==
  ASSUME NEW n \in Nat
  PROVE  Max({1, n - BackfillLimit + 1}) \in Nat \ {0}
<1> DEFINE k == n - BackfillLimit + 1
           m == Max({1, k})
<1>1. k \in Int
  BY MinuteAssumption
<1>2. \E x \in {1, k} : \A y \in {1, k} : x >= y
  BY <1>1
<1>3. m \in {1, k} /\ \A y \in {1, k} : m >= y
  BY <1>2 DEF Max
<1>4. QED
  BY <1>1, <1>3

LEMMA ReconnectOK ==
  ASSUME IInv, Reconnect
  PROVE  IInv'
<1>1. /\ UNCHANGED <<pressure, highvol, rest, events, stored, lost, latest>> /\ bar = None
      /\ next' = Max({1, latest - BackfillLimit + 1})
  BY DEF Reconnect, signalVars, handler, table
<1>2. rest = <<>> /\ events = {} /\ HandlerInStep'
  BY <1>1, NoneAssumption DEF IInv, HandlerInStep
<1>3. next' \in Nat \ {0}
  BY <1>1, FromOne DEF IInv, TypesOK
<1>4. QED
  BY <1>1, <1>2, <1>3, SignalsUntouched DEF IInv, TypesOK

LEMMA StartOK ==
  ASSUME IInv, Start
  PROVE  IInv'
<1>1. /\ ~up /\ UNCHANGED <<latest, bar, rest, events, stored, lost>>
      /\ pressure' = "neutral" /\ highvol' = "normal"
      /\ next' = Max({1, latest - BackfillLimit + 1})
  BY DEF Start, handler, table
<1>2. rest = <<>> /\ rest' = <<>> /\ Len(rest') = 0 /\ HandlerInStep'
  BY <1>1 DEF IInv, HandlerInStep
<1>3. next' \in Nat \ {0}
  BY <1>1, FromOne DEF IInv, TypesOK
<1>4. TypesOK'
  BY <1>1, <1>3 DEF IInv, TypesOK
<1>5. RowsInStep' /\ HandlerInStep'
  BY <1>2 DEF RowsInStep
<1>6. ShownInStep'
  BY <1>1 DEF ShownInStep, State, Rest, Type
<1>7. QED
  BY <1>4, <1>5, <1>6, <1>2 DEF IInv

LEMMA StepOK ==
  ASSUME IInv, [Next]_vars
  PROVE  IInv'
<1>1. ASSUME NEW b \in Bar, NEW call \in Call, NEW sure \in BOOLEAN,
             HandleCandle(b, call, sure)
      PROVE  IInv'
  BY <1>1, HandleCandleOK
<1>2. CASE SignalInserted
  BY <1>2, SignalInsertedOK
<1>3. CASE SignalFails
  BY <1>3, Dropped DEF SignalFails, Idle, InFlight, signalVars, feed
<1>4. CASE EventInserted \/ EventFails
  BY <1>4, EventsOK
<1>5. CASE Reconnect
  BY <1>5, ReconnectOK
<1>6. CASE Start
  BY <1>6, StartOK
<1>7. CASE Stop
  BY <1>7, Dropped DEF Stop, Idle, InFlight, signalVars
<1>8. CASE UNCHANGED vars
  <2>1. UNCHANGED <<pressure, highvol, rest, events, bar, up, stored, lost, next, latest>>
    BY <1>8 DEF vars, signalVars, feed, handler, table
  <2>2. HandlerInStep'
    BY <2>1 DEF IInv, HandlerInStep
  <2>3. QED
    BY <2>1, <2>2, SignalsUntouched DEF IInv, TypesOK
<1>9. QED
  BY <1>1, <1>2, <1>3, <1>4, <1>5, <1>6, <1>7, <1>8 DEF Next

--------------------------------------------------------------------------------
(* Theorems.                                                               *)

\* The types, the transitions under way, the handler that holds them and the
\* table stay in step at every await of handle_candle, and across failed
\* INSERTs, reconnects and restarts.
THEOREM Invariance == Spec => []IInv
<1>1. Init => IInv
  BY InitOK
<1>2. IInv /\ [Next]_vars => IInv'
  BY StepOK
<1>3. QED
  BY <1>1, <1>2, PTL DEF Spec

\* What the signal engine believes the table of signals shows, unless the row
\* is under way or its INSERT was lost (SignalEngine.evaluate, _fan_out).
THEOREM BeliefIsShown == Spec => []SignalChain
<1>1. IInv => SignalChain
  BY DEF IInv, ShownInStep, SignalChain, State, InFlight
<1>2. QED
  BY <1>1, Invariance, PTL

--------------------------------------------------------------------------------
(* The event engine.                                                       *)

\* A reading other than None is the state; where there was none for want of
\* candles or of a baseline, the state is the initial one.  A spike leaves its own
\* volatility in the window, so that the next baseline is not zero, and the next
\* candle has a volatility, also if its handler waits for a signal's INSERT.
EventInv ==
  /\ highs \in Seq(Price) /\ closes \in Seq(Price) /\ vols \in Seq(Nat)
  /\ \A f \in Family : before[f] # None => eventState[f] = before[f]
  /\ Len(highs) < BreakoutWindow => eventState["breakout"] = "none"
  /\ Len(closes) < PumpWindow => eventState["pump_dump"] = "none"
  /\ eventState["vol_spike"] # "none" => Len(vols) >= SpikeWindow /\ SeqSum(vols) > 0
  /\ \A f \in Family : before[f] = None => eventState[f] = "none"
  /\ rest # <<>> => (bar.data.vol = None => vols = <<>>)

LEMMA PushFacts ==
  ASSUME NEW S, NEW w \in Seq(S), NEW x \in S, NEW size \in Nat \ {0}
  PROVE  /\ Push(w, x, size) \in Seq(S)
         /\ Len(w) >= size => Len(Push(w, x, size)) >= size
         /\ Len(Push(w, x, size)) >= 1 /\ Last(Push(w, x, size)) = x
<1>1. Len(w) \in Nat
  OBVIOUS
<1>2. CASE Len(w) < size
  <2>1. Push(w, x, size) = Append(w, x)
    BY <1>2 DEF Push
  <2>2. Append(w, x) \in Seq(S) /\ Len(Append(w, x)) = Len(w) + 1 /\ Append(w, x)[Len(w) + 1] = x
    BY AppendProperties
  <2>3. QED
    BY <1>1, <1>2, <2>1, <2>2 DEF Last
<1>3. CASE ~(Len(w) < size)
  <2>1. Push(w, x, size) = Append(Tail(w), x)
    BY <1>3 DEF Push
  <2>2. w # <<>>
    BY <1>3
  <2>3. Tail(w) \in Seq(S) /\ Len(Tail(w)) = Len(w) - 1
    BY <2>2, HeadTailProperties
  <2> DEFINE t == Tail(w)
  <2> HIDE DEF t
  <2>4. Append(t, x) \in Seq(S) /\ Len(Append(t, x)) = Len(t) + 1 /\ Append(t, x)[Len(t) + 1] = x
    BY <2>3, AppendProperties DEF t
  <2>5. Len(t) \in Nat /\ Len(t) = Len(w) - 1
    BY <1>1, <1>3, <2>3 DEF t
  <2>6. QED
    BY <1>1, <1>3, <2>1, <2>4, <2>5 DEF t, Last
<1>4. QED
  BY <1>2, <1>3

\* A window is looked at exactly when it is full, as its prices are positive.
LEMMA ReadingFacts ==
  ASSUME closes \in Seq(Price), NEW b \in Bar
  PROVE  /\ Reading(b)["breakout"] = None <=> Len(highs) < BreakoutWindow
         /\ Reading(b)["pump_dump"] = None <=> Len(closes) < PumpWindow
<1>1. None \notin {"up", "down", "none", "pump", "dump"}
  BY ConditionAssumption DEF Condition
<1>2. Reading(b)["breakout"] = Breakout(b) /\ Reading(b)["pump_dump"] = PumpDump(b)
  BY DEF Reading, Family
<1>3. Breakout(b) = None <=> Len(highs) < BreakoutWindow
  BY <1>1 DEF Breakout
<1>4. PumpDump(b) = None <=> Len(closes) < PumpWindow
  <2>1. Len(closes) >= PumpWindow => closes[1] > 0
    BY WindowAssumption, SnapshotAssumption DEF Price
  <2>2. CASE Len(closes) < PumpWindow
    BY <2>2 DEF PumpDump
  <2>3. CASE ~(Len(closes) < PumpWindow)
    <3>1. Len(closes) \in Nat /\ PumpWindow \in Nat
      BY WindowAssumption
    <3>2. closes[1] > 0
      BY <2>1, <2>3, <3>1
    <3>3. closes[1] \in Int
      BY <2>3, <3>1, WindowAssumption, SnapshotAssumption DEF Price
    <3>4. ~(closes[1] <= 0)
      BY <3>2, <3>3
    <3>5. QED
      BY <1>1, <2>3, <3>4 DEF PumpDump
  <2>4. QED
    BY <2>2, <2>3
<1>5. QED
  BY <1>2, <1>3, <1>4

\* The spike looks at a full window with a volatility other than zero in it, and
\* puts one there.
LEMMA SpikeFacts ==
  ASSUME vols \in Seq(Nat), NEW b \in Bar
  PROVE  /\ Reading(b)["vol_spike"] = None <=>
              b.vol = None \/ Len(vols) < SpikeWindow \/ SeqSum(vols) = 0
         /\ Reading(b)["vol_spike"] = "spike" =>
              /\ b.vol \in Nat \ {0} /\ Len(vols) >= SpikeWindow
              /\ Len(Push(vols, b.vol, SpikeWindow)) >= SpikeWindow
              /\ SeqSum(Push(vols, b.vol, SpikeWindow)) > 0
         /\ Reading(b)["vol_spike"] \in {None, "none", "spike"}
<1> DEFINE sum == SeqSum(vols)
           later == Push(vols, b.vol, SpikeWindow)
<1>1. None \notin {"none", "spike"}
  BY ConditionAssumption DEF Condition
<1>2. b.vol \in Nat \cup {None}
  BY SnapshotAssumption DEF Bar
<1>3. sum \in Nat /\ Len(vols) \in Nat
  BY SumOfNaturals
<1>4. Reading(b)["vol_spike"] =
        IF b.vol = None \/ Len(vols) < SpikeWindow \/ sum = 0 THEN None
        ELSE IF b.vol * Len(vols) >= sum * SpikeMultiplier THEN "spike" ELSE "none"
  BY DEF Reading, Family, VolSpike, SeqSum
<1> HIDE DEF sum
<1>5. Reading(b)["vol_spike"] = None <=>
        b.vol = None \/ Len(vols) < SpikeWindow \/ sum = 0
  BY <1>1, <1>4
<1>6. ASSUME Reading(b)["vol_spike"] = "spike"
      PROVE  b.vol \in Nat \ {0} /\ Len(vols) >= SpikeWindow
             /\ Len(later) >= SpikeWindow /\ SeqSum(later) > 0
  <2>0. b.vol # None /\ ~(Len(vols) < SpikeWindow) /\ sum # 0
    BY <1>1, <1>5, <1>6
  <2>1. /\ b.vol \in Nat /\ Len(vols) >= SpikeWindow /\ sum >= 1
        /\ b.vol * Len(vols) >= sum * SpikeMultiplier
    <3>1. b.vol * Len(vols) >= sum * SpikeMultiplier
      BY <1>4, <1>6, <2>0
    <3>2. SpikeWindow \in Nat
      BY WindowAssumption
    <3>3. QED
      BY <1>2, <1>3, <2>0, <3>1, <3>2
  <2>2. SpikeMultiplier \in Nat \ {0} /\ SpikeWindow \in Nat \ {0}
    BY ThresholdAssumption, WindowAssumption
  <2>3. sum * SpikeMultiplier >= 1
    <3> DEFINE m == SpikeMultiplier
    <3>1. sum \in Nat /\ sum >= 1 /\ m \in Nat /\ m >= 1
      BY <1>3, <2>1, <2>2
    <3> HIDE DEF m
    <3>2. sum * m >= 1
      BY <3>1
    <3>3. QED
      BY <3>2 DEF m
  <2>4. b.vol # 0
    <3>1. 0 * Len(vols) = 0 /\ sum * SpikeMultiplier \in Int
      BY <1>3, <2>2
    <3>2. ~(0 >= sum * SpikeMultiplier)
      BY <2>3, <3>1
    <3>3. QED
      BY <2>1, <3>1, <3>2
  <2>5. /\ later \in Seq(Nat) /\ Len(later) >= SpikeWindow
        /\ Len(later) >= 1 /\ Last(later) = b.vol
    <3> DEFINE v == b.vol
    <3>1. v \in Nat /\ SpikeWindow \in Nat \ {0} /\ Len(vols) >= SpikeWindow
      BY <2>1, <2>2
    <3> HIDE DEF v
    <3> DEFINE w == Push(vols, v, SpikeWindow)
    <3>2. /\ w \in Seq(Nat) /\ (Len(vols) >= SpikeWindow => Len(w) >= SpikeWindow)
          /\ Len(w) >= 1 /\ Last(w) = v
      <4>1. PICK S : S = Nat
        OBVIOUS
      <4>2. vols \in Seq(S) /\ v \in S
        BY <3>1, <4>1
      <4>3. /\ w \in Seq(S) /\ (Len(vols) >= SpikeWindow => Len(w) >= SpikeWindow)
            /\ Len(w) >= 1 /\ Last(w) = v
        BY <3>1, <4>2, PushFacts
      <4>4. QED
        BY <4>1, <4>3
    <3>3. QED
      BY <3>1, <3>2 DEF v
  <2> HIDE DEF later
  <2>6. Len(later) \in 1..Len(later) /\ later[Len(later)] = b.vol
    BY <2>5 DEF Last
  <2>7. SeqSum(later) \in Nat /\ b.vol <= SeqSum(later)
    BY <2>5, <2>6, SumOfNaturals
  <2>8. QED
    BY <2>1, <2>4, <2>5, <2>7
<1>7. Reading(b)["vol_spike"] \in {None, "none", "spike"}
  BY <1>4
<1>8. QED
  BY <1>5, <1>6, <1>7 DEF sum

LEMMA EventPartOK ==
  ASSUME EventInv, NEW minute, NEW b \in Bar, EventPart(minute, b),
         b.vol = None => vols = <<>>
  PROVE  EventInv'
<1> DEFINE now == Reading(b)
<1>1. before' = now /\ eventState' = Advance(b)
  BY DEF EventPart, Evaluate
<1>2. \A f \in Family : eventState'[f] = IF now[f] = None THEN eventState[f] ELSE now[f]
  BY <1>1 DEF Advance
<1>3. /\ highs' = Push(highs, b.high, BreakoutWindow) /\ b.high \in Price
      /\ closes' = Push(closes, b.close, PumpWindow) /\ b.close \in Price
  BY DEF EventPart, Evaluate, Bar
<1>4. /\ highs' \in Seq(Price) /\ (Len(highs) >= BreakoutWindow => Len(highs') >= BreakoutWindow)
      /\ closes' \in Seq(Price) /\ (Len(closes) >= PumpWindow => Len(closes') >= PumpWindow)
  <2>1. BreakoutWindow \in Nat \ {0} /\ PumpWindow \in Nat \ {0}
    BY WindowAssumption
  <2>2. QED
    BY <1>3, <2>1, PushFacts DEF EventInv
<1>5. /\ now["breakout"] = None <=> Len(highs) < BreakoutWindow
      /\ now["pump_dump"] = None <=> Len(closes) < PumpWindow
  BY ReadingFacts DEF EventInv
<1> HIDE DEF now
<1>6. BreakoutWindow \in Nat /\ PumpWindow \in Nat /\ Len(highs) \in Nat /\ Len(closes) \in Nat
      /\ Len(highs') \in Nat /\ Len(closes') \in Nat
  BY <1>4, WindowAssumption DEF EventInv
<1>7. "breakout" \in Family /\ "pump_dump" \in Family
  BY DEF Family
<1>8. now["breakout"] = None => eventState'["breakout"] = "none"
  BY <1>2, <1>5, <1>7 DEF EventInv
<1>9. now["pump_dump"] = None => eventState'["pump_dump"] = "none"
  BY <1>2, <1>5, <1>7 DEF EventInv
<1>10. Len(highs') < BreakoutWindow => now["breakout"] = None
  BY <1>4, <1>5, <1>6
<1>11. Len(closes') < PumpWindow => now["pump_dump"] = None
  BY <1>4, <1>5, <1>6
<1>12. \A f \in Family : before'[f] # None => eventState'[f] = before'[f]
  BY <1>1, <1>2
<1>13. /\ vols' \in Seq(Nat)
       /\ now["vol_spike"] = None => eventState'["vol_spike"] = "none"
       /\ eventState'["vol_spike"] # "none" => Len(vols') >= SpikeWindow /\ SeqSum(vols') > 0
  <2>1. vols' = IF b.vol = None THEN vols ELSE Push(vols, b.vol, SpikeWindow)
    BY DEF EventPart, Evaluate
  <2>2. /\ now["vol_spike"] = None <=>
             b.vol = None \/ Len(vols) < SpikeWindow \/ SeqSum(vols) = 0
        /\ now["vol_spike"] = "spike" =>
             /\ b.vol \in Nat \ {0} /\ Len(vols) >= SpikeWindow
             /\ Len(Push(vols, b.vol, SpikeWindow)) >= SpikeWindow
             /\ SeqSum(Push(vols, b.vol, SpikeWindow)) > 0
        /\ now["vol_spike"] \in {None, "none", "spike"}
    BY SpikeFacts DEF EventInv, now
  <2>3. SpikeWindow \in Nat \ {0} /\ Len(vols) \in Nat /\ None # "spike"
    BY WindowAssumption, ConditionAssumption DEF EventInv, Condition
  <2>4. vols' \in Seq(Nat)
    <3>1. b.vol = None \/ b.vol \in Nat
      BY SnapshotAssumption DEF Bar
    <3>2. QED
      BY <2>1, <2>3, <3>1, PushFacts DEF EventInv
  <2>5. now["vol_spike"] = None => eventState["vol_spike"] = "none"
    <3>1. vols = <<>> => Len(vols) = 0
      OBVIOUS
    <3>2. eventState["vol_spike"] # "none" => Len(vols) >= SpikeWindow /\ SeqSum(vols) > 0
      BY DEF EventInv
    <3>3. SeqSum(vols) \in Int
      BY SumOfNaturals DEF EventInv
    <3>4. QED
      BY <2>2, <2>3, <3>1, <3>2, <3>3
  <2>6. eventState'["vol_spike"] =
          IF now["vol_spike"] = None THEN eventState["vol_spike"] ELSE now["vol_spike"]
    BY <1>2 DEF Family
  <2>7. eventState'["vol_spike"] # "none" => now["vol_spike"] = "spike" /\ b.vol # None
    BY <2>2, <2>5, <2>6, <2>3
  <2>8. QED
    BY <2>1, <2>2, <2>4, <2>5, <2>6, <2>7
<1>14. \A f \in Family : before'[f] = None => eventState'[f] = "none"
  BY <1>1, <1>8, <1>9, <1>13 DEF Family
<1>15. rest' = <<>>
  BY DEF EventPart
<1>16. QED
  BY <1>4, <1>8, <1>9, <1>10, <1>11, <1>12, <1>13, <1>14, <1>15 DEF EventInv

LEMMA EventsBegin == Init => EventInv
<1> SUFFICES ASSUME Init PROVE EventInv
  OBVIOUS
<1>1. /\ highs = <<>> /\ closes = <<>> /\ vols = <<>> /\ rest = <<>>
      /\ eventState = [f \in Family |-> "none"] /\ before = Calm
  BY DEF Init, EventInit
<1>2. highs \in Seq(Price) /\ closes \in Seq(Price) /\ vols \in Seq(Nat)
  BY <1>1
<1>3. QED
  BY <1>1, <1>2 DEF EventInv, Calm, Family

\* The event engine takes a candle, or is as new, or stays as it is.
Takes == \E minute \in Minute, b \in Bar :
           EventPart(minute, b) /\ (b.vol = None => vols = <<>>)

Keeps ==
  /\ events' \subseteq events
  /\ \/ UNCHANGED <<highs, closes, vols, eventState, before>>
     \/ /\ highs' = <<>> /\ closes' = <<>> /\ vols' = <<>> /\ before' = Calm
        /\ eventState' = [f \in Family |-> "none"]
  /\ rest' # <<>> => (bar'.data.vol = None => vols' = <<>>)

LEMMA EventCases ==
  ASSUME IInv, EventInv, [Next]_vars
  PROVE  Takes \/ Keeps
<1>1. ASSUME NEW b \in Bar, NEW call \in Call, NEW sure \in BOOLEAN,
             HandleCandle(b, call, sure)
      PROVE  Takes \/ Keeps
  <2>1. next \in Minute /\ (b.vol = None => vols = <<>>)
    BY <1>1, MinuteAssumption DEF HandleCandle, IInv, TypesOK, Minute
  <2>2. CASE Signals(call, sure, b.vol) = <<>>
    BY <1>1, <2>1, <2>2 DEF HandleCandle, Takes
  <2>3. CASE Signals(call, sure, b.vol) # <<>>
    <3>1. /\ UNCHANGED <<highs, closes, vols, eventState, before, events>>
          /\ bar' = [minute |-> next, data |-> b]
      BY <1>1, <2>3 DEF HandleCandle, eventVars
    <3>2. QED
      BY <2>1, <3>1 DEF Keeps
  <2>4. QED
    BY <2>2, <2>3
<1>2. CASE SignalInserted
  <2>1. bar \in Held /\ (bar.data.vol = None => vols = <<>>)
    BY <1>2 DEF SignalInserted, IInv, HandlerInStep, EventInv
  <2>2. bar.minute \in Minute /\ bar.data \in Bar
    BY <2>1 DEF Held
  <2>3. CASE Len(rest) > 1
    <3>1. UNCHANGED <<highs, closes, vols, eventState, before, events, bar>>
      BY <1>2, <2>3 DEF SignalInserted, eventVars
    <3>2. QED
      BY <2>1, <3>1 DEF Keeps
  <2>4. CASE ~(Len(rest) > 1)
    BY <1>2, <2>1, <2>2, <2>4 DEF SignalInserted, Takes
  <2>5. QED
    BY <2>3, <2>4
<1>3. CASE SignalFails
  BY <1>3 DEF SignalFails, Idle, eventVars, Keeps
<1>4. CASE EventInserted
  <2>1. /\ UNCHANGED <<highs, closes, vols, eventState, before, rest>>
        /\ events' \subseteq events /\ events # {}
    BY <1>4 DEF EventInserted, eventVars
  <2>2. rest' = <<>>
    BY <2>1 DEF IInv, HandlerInStep
  <2>3. QED
    BY <2>1, <2>2 DEF Keeps
<1>5. CASE EventFails
  BY <1>5 DEF EventFails, Idle, eventVars, Keeps
<1>6. CASE Reconnect
  BY <1>6 DEF Reconnect, handler, eventVars, Keeps, EventInv
<1>7. CASE Start
  BY <1>7 DEF Start, handler, Keeps
<1>8. CASE Stop
  BY <1>8 DEF Stop, Idle, eventVars, Keeps
<1>9. CASE UNCHANGED vars
  BY <1>9 DEF vars, handler, eventVars, Keeps, EventInv
<1>10. QED
  BY <1>1, <1>2, <1>3, <1>4, <1>5, <1>6, <1>7, <1>8, <1>9 DEF Next

LEMMA EventStep ==
  ASSUME IInv, EventInv, [Next]_vars
  PROVE  EventInv'
<1>1. CASE Takes
  BY <1>1, EventPartOK DEF Takes
<1>2. CASE Keeps
  <2>1. rest' # <<>> => (bar'.data.vol = None => vols' = <<>>)
    BY <1>2 DEF Keeps
  <2>2. CASE UNCHANGED <<highs, closes, vols, eventState, before>>
    BY <2>1, <2>2 DEF EventInv
  <2>3. CASE /\ highs' = <<>> /\ closes' = <<>> /\ vols' = <<>> /\ before' = Calm
             /\ eventState' = [f \in Family |-> "none"]
    <3>1. highs' \in Seq(Price) /\ closes' \in Seq(Price) /\ vols' \in Seq(Nat)
      BY <2>3
    <3>2. QED
      BY <2>1, <2>3, <3>1 DEF EventInv, Calm, Family
  <2>4. QED
    BY <1>2, <2>2, <2>3 DEF Keeps
<1>3. QED
  BY <1>1, <1>2, EventCases

THEOREM EventInvariance == Spec => []EventInv
<1>1. Init => EventInv
  BY EventsBegin
<1>2. IInv /\ EventInv /\ [Next]_vars => EventInv'
  BY EventStep
<1>3. QED
  BY <1>1, <1>2, Invariance, PTL DEF Spec

\* No breakout, pump, dump or spike is a state that its condition does not support
\* at the last candle evaluated, whichever check returned early there, for any
\* windows and thresholds (EventEngine._check_breakout, _check_pump_dump,
\* _check_vol_spike).
THEOREM NothingIsStale == Spec => []NothingStale
<1>1. EventInv => NothingStale
  BY DEF EventInv, NothingStale
<1>2. QED
  BY <1>1, EventInvariance, PTL

\* An event is let out on the way into its condition only (EventEngine.evaluate),
\* whatever INSERTs failed since the last candle.
THEOREM EntersOnce == Spec => EventOnEntry
<1>1. IInv /\ EventInv /\ [Next]_vars =>
        [events = {} /\ events' # {} => \A f \in events' : before'[f] # before[f]]_vars
  <2> SUFFICES ASSUME IInv, EventInv, [Next]_vars, events = {}, events' # {},
                      NEW f \in events'
               PROVE  before'[f] # before[f]
    OBVIOUS
  <2>1. PICK minute \in Minute, b \in Bar : EventPart(minute, b)
    BY EventCases DEF Takes, Keeps
  <2>2. events' = Events(b) /\ before' = Reading(b)
    BY <2>1 DEF EventPart
  <2>3. f \in Family /\ Reading(b)[f] # None /\ Reading(b)[f] # eventState[f]
    BY <2>2 DEF Events
  <2>4. CASE before[f] = None
    BY <2>2, <2>3, <2>4
  <2>5. CASE before[f] # None
    <3>1. eventState[f] = before[f]
      BY <2>3, <2>5 DEF EventInv
    <3>2. QED
      BY <2>2, <2>3, <3>1
  <2>6. QED
    BY <2>4, <2>5
<1>2. QED
  BY <1>1, Invariance, EventInvariance, PTL DEF Spec, EventOnEntry

================================================================================
