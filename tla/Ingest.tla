-------------------------------- MODULE Ingest ---------------------------------
(***************************************************************************)
(* runners/ingest.py: BinanceFeed, persistence/candles.py and the batch    *)
(* writer wired together over the candles table, in one process that may   *)
(* be stopped or killed and started again.                                 *)
(*                                                                         *)
(* The feed is the module this one extends.  The writer is what BatchOutbox*)
(* says of it, which BatchWriter is shown to implement: rows leave at the  *)
(* front, some at a time, and their sink call returns or raises.  The      *)
(* symbols are those the registry was seeded with, so CandleSink finds     *)
(* every id in its cache and never suspends.                               *)
(***************************************************************************)
EXTENDS BinanceFeed, Sequences

CONSTANT MaxPending     \* bound: rows in the writer

ASSUME PendingAssumption == MaxPending \in Nat

VARIABLES
  service,              \* run(): "down", "up", "stopping" (feed) or "draining" (writer)
  pending,              \* rows in the writer, oldest first
  table,                \* table candles: per symbol and minute "none", "partial", "final"
  dropped               \* history: final candles lost with a batch whose sink raised

feedVars == vars
store == <<pending, table, dropped>>
ingestVars == <<feedVars, service, store>>

IngestInit ==
  /\ Init
  /\ service = "down"
  /\ pending = <<>>
  /\ table = [c \in Sym \X Minute |-> "none"]
  /\ dropped = {}

--------------------------------------------------------------------------------
(* CandleSink and the table.                                               *)

Row(candle, final) == [key |-> candle, final |-> final]

\* on_candle, handle_candle, add: every row the feed calls closed is queued.
Handle(row) ==
  /\ Len(pending) < MaxPending
  /\ pending' = Append(pending, row)
  /\ UNCHANGED <<table, dropped>>

\* Mutant: the rows of a batch are written youngest first.
UpsertBackwards(batch) ==
  [c \in DOMAIN table |->
     LET hits == {i \in 1..Len(batch) : batch[i].key = c} IN
       IF hits = {} THEN table[c]
       ELSE LET first == CHOOSE i \in hits : \A j \in hits : i <= j IN
              IF batch[first].final THEN "final" ELSE "partial"]

\* insert_batch: the rows of a batch in order, the last one of a key stays.
Upsert(batch) ==
  [c \in DOMAIN table |->
     LET hits == {i \in 1..Len(batch) : batch[i].key = c} IN
       IF hits = {} THEN table[c]
       ELSE LET last == CHOOSE i \in hits : \A j \in hits : j <= i IN
              IF batch[last].final THEN "final" ELSE "partial"]

Finals(rowSeq) == {rowSeq[i].key : i \in {j \in 1..Len(rowSeq) : rowSeq[j].final}}

\* Mutant: a batch whose sink raised goes back behind what was queued since.
RequeueBehind(n) ==
  LET batch == SubSeq(pending, 1, n)
      rest == SubSeq(pending, n + 1, Len(pending))
  IN
    /\ \/ table' = Upsert(batch) /\ pending' = rest
       \/ table' = table /\ pending' = rest \o batch
    /\ UNCHANGED <<service, dropped, feedVars>>

\* The sink call over the n oldest rows ends: stored, or raised and lost.
Flush(n) ==
  LET batch == SubSeq(pending, 1, n) IN
    /\ pending' = SubSeq(pending, n + 1, Len(pending))
    /\ \/ table' = Upsert(batch) /\ UNCHANGED dropped
       \/ dropped' = dropped \cup Finals(batch) /\ UNCHANGED table
    /\ UNCHANGED <<service, feedVars>>

--------------------------------------------------------------------------------
(* run().                                                                  *)

Up ==
  /\ service = "down"
  /\ service' = "up"
  /\ Start
  /\ UNCHANGED store

\* The feed's task, with every emission handled where it happens.
FeedStep ==
  /\ \/ LoopStart \/ ConnectOk \/ ConnectFails \/ WakeUp
     \/ \E s \in Sym : FetchOk(s) \/ FetchFails(s)
     \/ BackfillFails
     \/ SessionEnds \/ HandlerRaises
  /\ UNCHANGED <<service, store>>

Emission ==
  /\ \/ \E candle \in inbox : Receive(candle) /\ Handle(Row(candle, TRUE))
     \/ \E r \in rows : EmitRow(r) /\ Handle(Row(<<r[1], r[2]>>, r[3]))
  /\ UNCHANGED service

\* The stop event is seen: feed.stop(), which may suspend.
Down ==
  /\ service = "up"
  /\ service' = "stopping"
  /\ Stop
  /\ UNCHANGED store

FeedStopped ==
  /\ service = "stopping"
  /\ \/ CancelAndJoin
     \/ ~stopping /\ UNCHANGED feedVars
  /\ service' = "draining"
  /\ UNCHANGED store

\* Mutant: run() does not wait for writer.stop().
DrainedAtOnce ==
  /\ service = "draining"
  /\ service' = "down"
  /\ UNCHANGED <<feedVars, store>>

\* writer.stop() returns once its last flush is over.
Drained ==
  /\ service = "draining" /\ pending = <<>>
  /\ service' = "down"
  /\ UNCHANGED <<feedVars, store>>

\* The process is killed; what the writer and the socket held is gone.  The
\* histories are those of a process and begin again: nothing the dead one had in
\* hand counts as handed on.
Crash ==
  /\ service # "down"
  /\ service' = "down"
  /\ pending' = <<>>
  /\ emitted' = {} /\ dropped' = {}
  /\ UNCHANGED <<table, now>>
  /\ running' = FALSE /\ pc' = "none" /\ stopping' = FALSE
  /\ symbols' = Initial /\ url' = {}
  /\ ws' = FALSE /\ connected' = FALSE /\ attempt' = 0
  /\ todo' = {} /\ rows' = {}
  /\ link' = "closed" /\ streams' = {} /\ inbox' = {}
  /\ raced' = FALSE /\ raised' = FALSE
  /\ liveFrom' = Zero /\ covFrom' = Zero /\ covTo' = Zero

World == Exchange /\ UNCHANGED <<service, store>>

IngestNext ==
  \/ FeedStep \/ Emission
  \/ \E n \in 1..Len(pending) : Flush(n)
  \/ Up \/ Down \/ FeedStopped \/ Drained
  \/ Crash
  \/ World

IngestSpec == IngestInit /\ [][IngestNext]_ingestVars

--------------------------------------------------------------------------------
(* Properties.                                                             *)

\* The table only gains: once the final bar of a minute is stored, no row of
\* the gap-fill, no reordering in the writer, no restart puts a half-finished
\* bar in its place.
FinalStays == [][\A c \in Candle : table[c] = "final" => table'[c] = "final"]_ingestVars

\* Every final candle that reached the callbacks since the process was last killed
\* is in the table or in the writer, or was lost with a batch whose sink raised;
\* a stop loses none.  With SeamlessCoverage: what was in the writer when a process
\* was killed is on its way to the table once more as soon as the next one has
\* fetched that far back.
EmittedIsAccounted ==
  \A c \in emitted :
    \/ table[c] = "final"
    \/ \E i \in 1..Len(pending) : pending[i] = Row(c, TRUE)
    \/ c \in dropped

\* A service that was stopped has nothing in the air: no candle behind the
\* writer's last flush, no feed that still emits.
DownIsQuiet == service = "down" => pending = <<>> /\ ~running /\ pc = "none"

================================================================================
