-------------------------------- MODULE SimFeed --------------------------------
(***************************************************************************)
(* feeds/sim.py: the simulated feed.  Each cycle of its task hands on one  *)
(* candle per symbol and then a snapshot of the same prices; it suspends   *)
(* in every callback and in the sleep between the cycles.  subscribe and   *)
(* unsubscribe come from another task at any of these moments, start and   *)
(* stop from one owner in turn.  Prices are left out; a candle is stamped  *)
(* with the time it is made at.                                            *)
(***************************************************************************)
EXTENDS Integers

CONSTANTS
  Sym,                  \* trading pairs
  Initial               \* symbols given to the constructor

VARIABLES
  running,              \* _running
  pc,                   \* where the task is suspended; "none": no _task
  stopping,             \* stop() waits for the cancelled task
  symbols,              \* keys of _states
  rest,                 \* symbols of this cycle without their candle yet
  board,                \* symbols in rows, the snapshot of this cycle
  now,                  \* minute of the clock
  emitted               \* history: candles <<symbol, minute>> handed on

vars == <<running, pc, stopping, symbols, rest, board, now, emitted>>

Init ==
  /\ running = FALSE /\ pc = "none" /\ stopping = FALSE
  /\ symbols = Initial
  /\ rest = {} /\ board = {}
  /\ now = 0
  /\ emitted = {}

--------------------------------------------------------------------------------
(* The task.                                                               *)

\* The inner loop goes on with the symbols that are left: the next candle is
\* handed on, or the snapshot, the empty one included.
HandOn(left, rows) ==
  \/ \E s \in left :
       /\ rest' = left \ {s}
       /\ board' = rows \cup {s}
       /\ emitted' = emitted \cup {<<s, now>>}
       /\ pc' = "candle"
  \/ /\ left = {}
     /\ rest' = {}
     /\ board' = rows
     /\ pc' = "snapshot"
     /\ UNCHANGED emitted

\* Mutant: a cycle goes over the symbols of the one before it.
BeginCycleAgain ==
  /\ pc \in {"start", "sleep"} /\ running
  /\ HandOn(IF pc = "start" THEN symbols ELSE board, {})
  /\ UNCHANGED <<running, stopping, symbols, now>>

\* The outer loop: a cycle goes over the symbols there are now.
BeginCycle ==
  /\ pc \in {"start", "sleep"} /\ running
  /\ HandOn(symbols, {})
  /\ UNCHANGED <<running, stopping, symbols, now>>

\* The candle's callbacks are through.  _running is not looked at here; a task
\* that was stopped is cancelled and does not get this far.
CandleTaken ==
  /\ pc = "candle" /\ running
  /\ HandOn(rest, board)
  /\ UNCHANGED <<running, stopping, symbols, now>>

SnapshotTaken ==
  /\ pc = "snapshot" /\ running
  /\ pc' = "sleep"
  /\ UNCHANGED <<running, stopping, symbols, rest, board, now, emitted>>

--------------------------------------------------------------------------------
(* Public methods.                                                         *)

Start ==
  /\ ~running /\ pc = "none" /\ ~stopping
  /\ running' = TRUE /\ pc' = "start"
  /\ UNCHANGED <<stopping, symbols, rest, board, now, emitted>>

\* stop() cancels the task and waits for it.
Stop ==
  /\ running
  /\ running' = FALSE /\ stopping' = TRUE
  /\ UNCHANGED <<pc, symbols, rest, board, now, emitted>>

\* The task ends with CancelledError wherever it was, and stop() returns.
Join ==
  /\ stopping
  /\ stopping' = FALSE /\ pc' = "none"
  /\ rest' = {} /\ board' = {}
  /\ UNCHANGED <<running, symbols, now, emitted>>

Subscribe(new) ==
  /\ new # {} /\ new \cap symbols = {}
  /\ symbols' = symbols \cup new
  /\ UNCHANGED <<running, pc, stopping, rest, board, now, emitted>>

Unsubscribe(drop) ==
  /\ drop # {} /\ drop \subseteq symbols
  /\ symbols' = symbols \ drop
  /\ UNCHANGED <<running, pc, stopping, rest, board, now, emitted>>

--------------------------------------------------------------------------------
Task == BeginCycle \/ CandleTaken \/ SnapshotTaken

Next ==
  \/ Task
  \/ Start \/ Stop \/ Join
  \/ \E new \in SUBSET Sym : Subscribe(new)
  \/ \E drop \in SUBSET Sym : Unsubscribe(drop)

================================================================================
