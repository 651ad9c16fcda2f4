--------------------------- MODULE IndicatorSnapshot ---------------------------
(***************************************************************************)
(* analytics/indicators.py: what one closed candle of a symbol tells the   *)
(* signal and event engines.  Prices and volatilities are small integers,  *)
(* so that the comparisons of the code are exact.                          *)
(***************************************************************************)
EXTENDS Integers, Sequences

CONSTANTS
  MaxPrice,             \* bound: prices are 1..MaxPrice
  Vol,                  \* realized volatilities
  None                  \* Python's None

ASSUME SnapshotAssumption == MaxPrice \in Nat /\ Vol \subseteq Nat

Price == 1..MaxPrice

\* The fields of a snapshot that come from the candle, and vol_realized.
Bar == {b \in [high : Price, low : Price, close : Price, vol : Vol \cup {None}] :
          b.low <= b.close /\ b.close <= b.high}

================================================================================
