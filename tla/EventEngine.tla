------------------------------ MODULE EventEngine ------------------------------
(***************************************************************************)
(* analytics/events.py: EventEngine for one symbol.  Three families of     *)
(* events, each with a state that lets an event out only on the way into   *)
(* its condition, over rolling windows that exclude the current candle.    *)
(* Magnitudes and severities are left out.                                 *)
(***************************************************************************)
EXTENDS IndicatorSnapshot, FiniteSetsExt, SequencesExt

CONSTANTS
  BreakoutWindow, PumpWindow, SpikeWindow,  \* breakout_, pump_dump_, vol_spike_window
  PumpPct,              \* pump_dump_pct
  SpikeMultiplier       \* vol_spike_multiplier

ASSUME WindowAssumption == {BreakoutWindow, PumpWindow, SpikeWindow} \subseteq Nat \ {0}
ASSUME ThresholdAssumption == {PumpPct, SpikeMultiplier} \subseteq Nat \ {0}

VARIABLES
  highs, lows, closes, vols,    \* the deques of one symbol, oldest first
  eventState                    \* _breakout_state, _pump_dump_state, _vol_spike_state

eventVars == <<highs, lows, closes, vols, eventState>>

Family == {"breakout", "pump_dump", "vol_spike"}
Condition == {"none", "up", "down", "pump", "dump", "spike"}
ASSUME ConditionAssumption == None \notin Condition

EventInit ==
  /\ highs = <<>> /\ lows = <<>> /\ closes = <<>> /\ vols = <<>>
  /\ eventState = [f \in Family |-> "none"]

--------------------------------------------------------------------------------
(* The three checks; None where the code returns before it looks.          *)

Breakout(b) ==
  IF Len(highs) < BreakoutWindow THEN None
  ELSE IF b.close > Max(ToSet(highs)) THEN "up"
  ELSE IF b.close < Min(ToSet(lows)) THEN "down"
  ELSE "none"

PumpDump(b) ==
  IF Len(closes) < PumpWindow \/ closes[1] <= 0 THEN None
  ELSE LET gain == 100 * (b.close - closes[1])
           limit == PumpPct * closes[1]
       IN IF gain >= limit THEN "pump" ELSE IF gain <= -limit THEN "dump" ELSE "none"

\* The baseline is the mean of the window; a flat window has none.
VolSpike(b) ==
  LET total == FoldSeq(+, 0, vols) IN
    IF b.vol = None \/ Len(vols) < SpikeWindow \/ total = 0 THEN None
    ELSE IF b.vol * Len(vols) >= total * SpikeMultiplier THEN "spike" ELSE "none"

Reading(b) == [f \in Family |-> CASE f = "breakout" -> Breakout(b)
                                  [] f = "pump_dump" -> PumpDump(b)
                                  [] f = "vol_spike" -> VolSpike(b)]

\* Mutant: an event for every candle its condition holds for.
EventsEveryCandle(b) == {f \in Family : Reading(b)[f] \notin {None, "none"}}

\* An event is let out when its condition holds and the state says otherwise.
Events(b) ==
  {f \in Family : Reading(b)[f] \notin {None, "none", eventState[f]}}

\* Mutant: the state is touched by events only.
AdvanceWithoutReset(b) ==
  [f \in Family |-> IF Reading(b)[f] \in {None, "none"} THEN eventState[f] ELSE Reading(b)[f]]

\* A check that returned early leaves its state alone.
Advance(b) ==
  [f \in Family |-> IF Reading(b)[f] = None THEN eventState[f] ELSE Reading(b)[f]]

\* append to a deque with maxlen
Push(window, x, size) ==
  IF Len(window) < size THEN Append(window, x) ELSE Append(Tail(window), x)

\* evaluate: the three checks, then _update_history.
Evaluate(b) ==
  /\ eventState' = Advance(b)
  /\ highs' = Push(highs, b.high, BreakoutWindow)
  /\ lows' = Push(lows, b.low, BreakoutWindow)
  /\ closes' = Push(closes, b.close, PumpWindow)
  /\ vols' = IF b.vol = None THEN vols ELSE Push(vols, b.vol, SpikeWindow)

================================================================================
