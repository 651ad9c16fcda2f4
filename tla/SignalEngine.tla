----------------------------- MODULE SignalEngine ------------------------------
(***************************************************************************)
(* analytics/signals.py: SignalEngine for one symbol.  A snapshot is       *)
(* reduced to what the two state machines tell apart: the pressure its     *)
(* trend and RSI call for, whether the confidence reaches the minimum, and *)
(* its realized volatility.                                                *)
(***************************************************************************)
EXTENDS IndicatorSnapshot

CONSTANTS
  HighVol,              \* high_volatility_pct
  SureVol               \* volatility whose confidence reaches signal_min_confidence

ASSUME VolAssumption == HighVol \in Nat /\ SureVol \in Nat /\ HighVol <= SureVol

VARIABLES
  pressure,             \* _pressure_state
  highvol               \* _highvol_state

signalVars == <<pressure, highvol>>

\* The pressure a snapshot calls for; None: RSI or relative volume missing.
Call == {None, "neutral", "buy", "sell"}
ASSUME CallAssumption == None \notin {"neutral", "buy", "sell"}

SignalInit == pressure = "neutral" /\ highvol = "normal"

Signal(type, from, to) == [type |-> type, from |-> from, to |-> to]

\* Mutant: the state follows the call even when the confidence is too low.
PressureAfterUnsure(call, sure) == IF call = None THEN pressure ELSE call

\* The state after a call: a direction needs the confidence to take over, and
\* neutral always does.
PressureAfter(call, sure) ==
  IF call = None \/ (call # "neutral" /\ ~sure) THEN pressure ELSE call

HighvolAfter(vol) ==
  IF vol = None THEN highvol
  ELSE IF vol < HighVol THEN "normal"
  ELSE IF vol >= SureVol THEN "high" ELSE highvol

\* A signal is let out when the confident call is not the state already.
PressureSignals(call, sure) ==
  IF call \in {"buy", "sell"} /\ sure /\ call # pressure
  THEN <<Signal("pressure", pressure, call)>> ELSE <<>>

HighvolSignals(vol) ==
  IF HighvolAfter(vol) = "high" /\ highvol = "normal"
  THEN <<Signal("highvol", "normal", "high")>> ELSE <<>>

\* evaluate: pressure first, then volatility.
Signals(call, sure, vol) == PressureSignals(call, sure) \o HighvolSignals(vol)

EvaluateSignals(call, sure, vol) ==
  /\ pressure' = PressureAfter(call, sure)
  /\ highvol' = HighvolAfter(vol)

================================================================================
