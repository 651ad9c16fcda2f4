------------------------------ MODULE FeedFactory ------------------------------
(***************************************************************************)
(* factory.py: build_feed gives a service the feed its settings name, and  *)
(* the service knows it only as a MarketFeed.  The attributes both feeds   *)
(* have (_running, the task, the tracked symbols) are shared variables;    *)
(* those of the feed that was not built keep their initial values.         *)
(***************************************************************************)
EXTENDS BinanceFeed

VARIABLES
  feed,                 \* settings.feed: "binance" or "sim"
  rest, board           \* SimFeed: symbols left in the cycle, rows of its snapshot

factoryVars == <<vars, feed, rest, board>>

Sim == INSTANCE SimFeed

BuildFeed ==
  /\ feed \in {"binance", "sim"}
  /\ Init
  /\ Sim!Init

Binance(step) ==
  /\ feed = "binance"
  /\ step
  /\ UNCHANGED <<feed, rest, board>>

Simulated(step) ==
  /\ feed = "sim"
  /\ step
  /\ UNCHANGED <<feed, url, ws, connected, attempt, todo, rows, link, streams, inbox,
                 raced, raised, ghost>>

\* Time passes for the simulated feed too; the rest of an exchange does not exist.
UseSim == Sim!Next \/ (Tick /\ UNCHANGED <<rest, board>>)

FactoryNext == Binance(Next) \/ Simulated(UseSim)

\* Each feed's own fairness; the sleep of a cycle and the callbacks come to an end.
FactoryFairness ==
  /\ WF_factoryVars(Binance(FeedTask))
  /\ SF_factoryVars(Binance(ConnectOk))
  /\ WF_factoryVars(Binance(CancelAndJoin))
  /\ WF_factoryVars(Simulated(Sim!Task))

FactorySpec == BuildFeed /\ [][FactoryNext]_factoryVars /\ FactoryFairness

--------------------------------------------------------------------------------
(* Properties.                                                             *)

Phase == IF running THEN "running" ELSE IF stopping THEN "stopping" ELSE "stopped"

\* Symbols of which a candle may still come out: what the exchange streams, the
\* socket and the gap-fill hold, or the simulated cycle has before it.
Due ==
  (IF link = "up" THEN streams ELSE {})
    \cup (IF pc = "connecting" THEN url ELSE {})
    \cup todo \cup {r[1] : r \in rows} \cup {c[1] : c \in inbox}
    \cup rest

Contract == INSTANCE MarketFeed
  WITH phase <- Phase, tracked <- symbols, due <- Due, heard <- emitted

\* Whichever feed was built keeps the promise of feeds/base.py: no candle before
\* start() or behind the return of stop(), none of a symbol nobody asked for, and
\* of a dropped one only what was under way when it was dropped.
ImplementsContract == Contract!Spec

\* The simulated feed serves everybody: whoever is tracked and not in this
\* cycle's rows gets into the rows of this cycle or a later one, however the set
\* changes meanwhile, unless it is dropped or the feed is stopped.
EverySymbolServed ==
  \A s \in Sym :
    feed = "sim" /\ running /\ s \in symbols \ board
      ~> s \in board \/ s \notin symbols \/ ~running

================================================================================
