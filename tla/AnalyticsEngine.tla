---------------------------- MODULE AnalyticsEngine ----------------------------
(***************************************************************************)
(* analytics/engine.py: the candle pipeline of AnalyticsEngine for one     *)
(* symbol.  The feed awaits handle_candle for one candle after the other;  *)
(* the handler suspends in each INSERT of a signal or an event, which may  *)
(* raise, and is cancelled when the feed is stopped.  A reconnected feed   *)
(* hands the last BackfillLimit minutes on again (BinanceFeed, EmitRow).   *)
(* Every symbol is seeded before the engine starts, so ids are cached; the *)
(* indicator rows go to a batch writer, whose add does not suspend.        *)
(***************************************************************************)
EXTENDS EventEngine, SignalEngine

CONSTANTS
  BackfillLimit,        \* minutes a reconnected feed hands on again
  MaxMinute             \* bound: minutes 1..MaxMinute

ASSUME MinuteAssumption == BackfillLimit \in Nat /\ MaxMinute \in Nat

VARIABLES
  up,                   \* the feed is running
  next,                 \* minute of the candle the feed emits next
  latest,               \* last minute the feed has emitted
  bar,                  \* the candle in the handler, None when it is idle
  rest,                 \* signals of this candle not inserted yet
  events,               \* families of events not inserted yet
  stored,               \* table signals: state_to of the last row per type
  lost,                 \* history: types with a transition lost since that row
  before,               \* history: Reading at the last evaluated candle
  folded                \* history: minutes in the breakout window

feed == <<up, next, latest>>
handler == <<bar, rest, events>>
table == <<stored, lost>>
vars == <<eventVars, signalVars, feed, handler, table, before, folded>>

Minute == 1..MaxMinute

\* The candle a suspended handler holds on to.
Held == [minute : Minute, data : Bar]

ASSUME NoneAssumption == None \notin Held

Type == {"pressure", "highvol"}
Calm == [f \in Family |-> None]
Rest == [t \in Type |-> IF t = "pressure" THEN "neutral" ELSE "normal"]

Idle == bar' = None /\ rest' = <<>> /\ events' = {}

Init ==
  /\ EventInit /\ SignalInit
  /\ up = FALSE /\ next = 1 /\ latest = 0
  /\ bar = None /\ rest = <<>> /\ events = {}
  /\ stored = Rest /\ lost = {}
  /\ before = Calm /\ folded = <<>>

--------------------------------------------------------------------------------
(* handle_candle.                                                          *)

\* The event engine takes the candle; the handler suspends if there is a row.
EventPart(minute, b) ==
  /\ Evaluate(b)
  /\ before' = Reading(b)
  /\ folded' = Push(folded, minute, BreakoutWindow)
  /\ events' = Events(b)
  /\ rest' = <<>>
  /\ bar' = IF events' = {} THEN None ELSE [minute |-> minute, data |-> b]

\* A candle comes in: the indicators and the signal engine take it at once.  A
\* snapshot has no volatility only before the first one (RealizedVolatility).
HandleCandle(b, call, sure) ==
  /\ up /\ bar = None /\ next <= MaxMinute
  /\ b.vol = None => vols = <<>>
  /\ next' = next + 1
  /\ latest' = IF next > latest THEN next ELSE latest
  /\ EvaluateSignals(call, sure, b.vol)
  /\ IF Signals(call, sure, b.vol) = <<>>
       THEN EventPart(next, b)
       ELSE /\ rest' = Signals(call, sure, b.vol)
            /\ bar' = [minute |-> next, data |-> b]
            /\ UNCHANGED <<eventVars, events, before, folded>>
  /\ UNCHANGED <<up, table>>

\* An INSERT into signals returns; after the last one come the events.
SignalInserted ==
  /\ rest # <<>>
  /\ LET row == Head(rest) IN
       /\ stored' = [stored EXCEPT ![row.type] = row.to]
       /\ lost' = lost \ {row.type}
  /\ IF Len(rest) > 1
       THEN /\ rest' = Tail(rest)
            /\ UNCHANGED <<eventVars, bar, events, before, folded>>
       ELSE EventPart(bar.minute, bar.data)
  /\ UNCHANGED <<signalVars, feed>>

\* An INSERT into signals raises: _fan_out logs, and the rest of the handler,
\* event evaluation included, does not happen for this candle.
SignalFails ==
  /\ rest # <<>>
  /\ Idle
  /\ lost' = lost \cup {rest[i].type : i \in 1..Len(rest)}
  /\ UNCHANGED <<eventVars, signalVars, feed, stored, before, folded>>

\* The rows of events go in one after the other.
EventInserted ==
  \E f \in events :
    /\ events' = events \ {f}
    /\ bar' = IF events' = {} THEN None ELSE bar
    /\ UNCHANGED <<eventVars, signalVars, feed, rest, table, before, folded>>

EventFails ==
  /\ events # {}
  /\ Idle
  /\ UNCHANGED <<eventVars, signalVars, feed, table, before, folded>>

--------------------------------------------------------------------------------
(* The feed and the service around the engine.                             *)

\* The connection was lost and is back: the gap-fill's minutes come first.
Reconnect ==
  /\ up /\ bar = None
  /\ next' = Max({1, latest - BackfillLimit + 1})
  /\ UNCHANGED <<eventVars, signalVars, up, latest, handler, table, before, folded>>

\* The service starts in a new process with a new engine.
Start ==
  /\ ~up
  /\ up' = TRUE
  /\ next' = Max({1, latest - BackfillLimit + 1})
  /\ highs' = <<>> /\ lows' = <<>> /\ closes' = <<>> /\ vols' = <<>>
  /\ eventState' = [f \in Family |-> "none"]
  /\ pressure' = "neutral" /\ highvol' = "normal"
  /\ before' = Calm /\ folded' = <<>>
  /\ UNCHANGED <<latest, handler, table>>

\* feed.stop() cancels the handler wherever it waits.
Stop ==
  /\ up
  /\ up' = FALSE
  /\ Idle
  /\ lost' = lost \cup {rest[i].type : i \in 1..Len(rest)}
  /\ UNCHANGED <<eventVars, signalVars, next, latest, stored, before, folded>>

Next ==
  \/ \E b \in Bar, call \in Call, sure \in BOOLEAN : HandleCandle(b, call, sure)
  \/ SignalInserted \/ SignalFails
  \/ EventInserted \/ EventFails
  \/ Reconnect \/ Start \/ Stop

Spec == Init /\ [][Next]_vars

--------------------------------------------------------------------------------
(* Properties.                                                             *)

\* No state of the event engine outlives its condition: whatever the last
\* evaluated candle was, each family is in the state its condition calls for,
\* also where a check returned early (a short window, a baseline of zero).  So
\* a new breach is never swallowed as the continuation of an old one, and a
\* continuing one is never let out twice.
NothingStale ==
  \A f \in Family : eventState[f] = IF before[f] = None THEN "none" ELSE before[f]

\* What the signal engine believes, the table shows: a state other than the
\* resting one has a row that went into it, is about to get one, or lost it to
\* a failed INSERT.  A transition suppressed for its confidence changes nothing.
SignalChain ==
  LET inFlight == {rest[i].type : i \in 1..Len(rest)}
      State(t) == IF t = "pressure" THEN pressure ELSE highvol
  IN up => \A t \in Type \ (inFlight \cup lost) : State(t) \in {Rest[t], stored[t]}

\* An event is let out on the way into its condition only: the candle evaluated
\* before it, if any, was not in the same condition, whatever rows failed since.
EventOnEntry ==
  [][events = {} /\ events' # {} => \A f \in events' : before'[f] # before[f]]_vars

\* events.py:6-7 says that every check compares the current candle against
\* history that excludes it.
HistoryExcludesCurrent ==
  [][folded' # folded => \A i \in 1..Len(folded) : folded[i] # Last(folded')]_vars

================================================================================
