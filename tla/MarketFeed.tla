------------------------------ MODULE MarketFeed -------------------------------
(***************************************************************************)
(* feeds/base.py: what every MarketFeed promises to the code behind it.    *)
(* A candle handed to the callbacks is of a symbol that is tracked now, or *)
(* of one that was dropped while its candle was already under way; once    *)
(* that one is out the symbol stays silent.  A feed is silent before       *)
(* start() and after stop() has returned; stop() may suspend, and until it *)
(* returns what is under way may still come out.                           *)
(***************************************************************************)
CONSTANT Sym            \* trading pairs

VARIABLES
  phase,                \* "stopped", "running" or "stopping"
  tracked,              \* symbols the feed is asked to follow
  due,                  \* symbols of which a candle is under way
  heard                 \* candles <<symbol, minute>> handed to the callbacks

vars == <<phase, tracked, due, heard>>

Init ==
  /\ phase = "stopped"
  /\ tracked \subseteq Sym
  /\ due = {}
  /\ heard = {}

Start ==
  /\ phase = "stopped" /\ phase' = "running"
  /\ UNCHANGED <<tracked, heard>>
  /\ due' \subseteq tracked

\* A candle is handed on.
Emit ==
  /\ phase # "stopped"
  /\ UNCHANGED <<phase, tracked>>
  /\ \E c \in heard' \ heard : c[1] \in due \cup tracked /\ heard' = heard \cup {c}
  /\ due' \subseteq due \cup tracked

\* The feed works: a candle is fetched, received or lost, or one like it was
\* handed on before.
Work ==
  /\ phase # "stopped"
  /\ UNCHANGED <<phase, tracked, heard>>
  /\ due' \subseteq due \cup tracked

\* subscribe or unsubscribe.  A stopped feed only takes note.
Track ==
  /\ UNCHANGED <<phase, heard>>
  /\ tracked' \subseteq Sym
  /\ due' \subseteq IF phase = "stopped" THEN {} ELSE due \cup tracked'

\* stop() is called and suspends, or returns at once; or it returns at last.
Stop ==
  /\ UNCHANGED <<tracked, heard>>
  /\ \/ phase = "running" /\ phase' = "stopping" /\ due' \subseteq due
     \/ phase \in {"running", "stopping"} /\ phase' = "stopped" /\ due' = {}

Next == Start \/ Emit \/ Work \/ Track \/ Stop

Spec == Init /\ [][Next]_vars

================================================================================
