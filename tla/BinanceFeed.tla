------------------------------ MODULE BinanceFeed ------------------------------
(***************************************************************************)
(* feeds/binance.py: the connection loop of BinanceFeed with its backoff,  *)
(* REST gap-fill, control frames and stop(), against an exchange that      *)
(* closes a one-minute candle per stream and tick and may drop the link.   *)
(* A step is the code between two suspension points of the asyncio loop.   *)
(* One owner calls start and stop in turn; subscribe and unsubscribe come  *)
(* from another task (SymbolManager) at any moment.                        *)
(*                                                                         *)
(* A candle is a pair <<symbol, minute>>.  Minute `now` is in progress;    *)
(* Tick closes it.  Messages of other kinds (snapshots, candles in         *)
(* progress, undecodable text) pass through without changing this state.   *)
(***************************************************************************)
EXTENDS Integers, FiniteSets

CONSTANTS
  Sym,                  \* trading pairs
  Initial,              \* symbols given to the constructor
  BackfillLimit,        \* backfill_limit: rows a gap-fill asks for per symbol
  BackoffSteps,         \* length of _BACKOFF_STEPS
  MaxReconnects,        \* max_reconnects, or None
  None,                 \* Python's None
  MaxMinute             \* bound: minutes in a behaviour

ASSUME InitialAssumption == Initial \subseteq Sym
ASSUME LimitAssumption == BackfillLimit \in Nat /\ BackoffSteps \in Nat \ {0}
ASSUME BoundAssumption == MaxMinute \in Nat
ASSUME ReconnectAssumption == MaxReconnects = None \/ MaxReconnects \in Nat

VARIABLES
  running,              \* _running
  pc,                   \* where the task of _run is suspended; "none": no _task
  stopping,             \* stop() is suspended in its close or join
  symbols,              \* _symbols
  url,                  \* the streams in the URL computed by _connect_once
  ws,                   \* _ws is not None
  connected,            \* _connected is set
  attempt,              \* attempt of _run, saturated at AttemptCap
  todo,                 \* symbols the running gap-fill has not asked for yet
  rows,                 \* fetched rows <<symbol, minute, final>> not emitted yet
  link,                 \* the session's connection: "up", "closed" or "error"
  streams,              \* what the exchange sends on the session's socket
  inbox,                \* candles received by the socket, not read yet
  now,                  \* minute in progress at the exchange
  emitted,              \* history: final candles emitted with closed = True
  raced,                \* history: symbols changed between URL and _ws
  raised,               \* history: _handle_message raised, and no session was begun since
  liveFrom,             \* ghost: first minute this session vouches for
  covFrom, covTo        \* ghost: earlier minutes covFrom..covTo-1 vouched for

code == <<running, pc, stopping, symbols, url, ws, connected, attempt, todo, rows>>
exchange == <<link, streams, inbox, now>>
ghost == <<liveFrom, covFrom, covTo>>
vars == <<code, exchange, emitted, raced, raised, ghost>>

Minute == 0..MaxMinute
InSession == {"filling", "emitting", "stream"}
Pc == {"none", "start", "connecting", "backoff", "done"} \cup InSession

\* The first index of _BACKOFF_STEPS that repeats, or what max_reconnects needs.
AttemptCap == IF MaxReconnects = None THEN BackoffSteps - 1 ELSE MaxReconnects + 1
Least(a, b) == IF a < b THEN a ELSE b
Most(a, b) == IF a > b THEN a ELSE b

\* Ghost: no minute vouched for.
Zero == [s \in Sym |-> 0]

Init ==
  /\ running = FALSE /\ pc = "none" /\ stopping = FALSE
  /\ symbols = Initial /\ url = {}
  /\ ws = FALSE /\ connected = FALSE /\ attempt = 0
  /\ todo = {} /\ rows = {}
  /\ link = "closed" /\ streams = {} /\ inbox = {}
  /\ now = 0
  /\ emitted = {} /\ raced = FALSE /\ raised = FALSE
  /\ liveFrom = Zero /\ covFrom = Zero /\ covTo = Zero

--------------------------------------------------------------------------------
(* The connection loop.                                                    *)

\* The top of _connect_once up to the connector's await.
BeginConnect ==
  /\ pc' = "connecting"
  /\ url' = symbols
  /\ connected' = FALSE
  /\ raced' = FALSE /\ raised' = FALSE

\* The loop test of _run; a false test ends the task.
LoopHead ==
  \/ running /\ BeginConnect
  \/ ~running /\ pc' = "done" /\ UNCHANGED <<url, connected, raced, raised>>

LoopStart ==
  /\ pc = "start"
  /\ LoopHead
  /\ UNCHANGED <<running, stopping, symbols, ws, attempt, todo, rows, exchange,
                 emitted, ghost>>

\* The except branch of _run: back off, give up, or leave after stop().
BackOff ==
  \/ /\ ~running
     /\ pc' = "done"
     /\ UNCHANGED attempt
  \/ /\ running
     /\ attempt' = Least(attempt + 1, AttemptCap)
     /\ pc' = IF MaxReconnects # None /\ attempt + 1 > MaxReconnects
              THEN "done" ELSE "backoff"

\* The connector returns.  _gap_fill is called at once and reads _symbols anew.
ConnectOk ==
  /\ pc = "connecting"
  /\ ws' = TRUE /\ connected' = TRUE
  /\ link' = "up" /\ streams' = url /\ url' = {} /\ inbox' = {}
  /\ todo' = IF BackfillLimit > 0 THEN symbols ELSE {}
  /\ pc' = IF todo' = {} THEN "stream" ELSE "filling"
  /\ rows' = {}
  /\ liveFrom' = [s \in Sym |-> now]
  /\ UNCHANGED <<running, stopping, symbols, attempt, now,
                 emitted, raced, raised, covFrom, covTo>>

ConnectFails ==
  /\ pc = "connecting"
  /\ BackOff
  /\ UNCHANGED <<running, stopping, symbols, url, ws, connected, todo, rows, exchange,
                 emitted, raced, raised, ghost>>

\* Mutant: the sleep is the last thing the loop does.
WakeUpAndLeave ==
  /\ pc = "backoff"
  /\ pc' = "done"
  /\ UNCHANGED <<running, stopping, symbols, ws, attempt, todo, rows, exchange, url,
                 connected, emitted, raced, raised, ghost>>

\* The backoff sleep is over.
WakeUp ==
  /\ pc = "backoff"
  /\ LoopHead
  /\ UNCHANGED <<running, stopping, symbols, ws, attempt, todo, rows, exchange,
                 emitted, ghost>>

--------------------------------------------------------------------------------
(* The REST gap-fill at the start of a session.                            *)

\* The rows /api/v3/klines has for s: the last limit minutes, the one in
\* progress included; rest_kline_to_candle marks all of them closed.
KlineRows(s) ==
  {<<s, m, m < now>> : m \in Most(0, now - BackfillLimit + 1)..now}

\* Ghost: nothing older is vouched for any more.
Forget == covFrom' = Zero /\ covTo' = Zero

\* Ghost: rows joined on to what an earlier session vouched for.
Rejoin(s) ==
  LET lo == Most(0, now - BackfillLimit + 1) IN
    IF link # "up" \/ s \notin streams \/ lo > liveFrom[s]
      THEN UNCHANGED liveFrom
      ELSE liveFrom' = [liveFrom EXCEPT ![s] = IF lo <= covTo[s] /\ covFrom[s] < covTo[s]
                                               THEN Least(lo, covFrom[s]) ELSE lo]

\* _default_backfiller asks for one symbol after the other; when the last
\* answer is in, the rows are emitted.
NextFetch(s) ==
  /\ pc = "filling" /\ s \in todo
  /\ todo' = todo \ {s}
  /\ pc' = IF todo' # {} THEN "filling" ELSE IF rows' = {} THEN "stream" ELSE "emitting"
  /\ UNCHANGED <<running, stopping, symbols, url, ws, connected, attempt, exchange,
                 emitted, raced, raised, covFrom, covTo>>

FetchOk(s) ==
  /\ rows' = rows \cup KlineRows(s)
  /\ Rejoin(s)
  /\ NextFetch(s)

\* A failed request is logged; the rows parsed before the exception are kept.
FetchFails(s) ==
  /\ \E bad \in 0..now : rows' = rows \cup {row \in KlineRows(s) : row[2] < bad}
  /\ NextFetch(s)
  /\ UNCHANGED liveFrom

\* The backfiller raises as a whole: _gap_fill logs and the session goes on.
BackfillFails ==
  /\ pc = "filling"
  /\ pc' = "stream" /\ todo' = {} /\ rows' = {}
  /\ liveFrom' = [s \in Sym |-> now]
  /\ IF link = "up" THEN UNCHANGED <<covFrom, covTo>> ELSE Forget
  /\ UNCHANGED <<running, stopping, symbols, url, ws, connected, attempt, exchange,
                 emitted, raced, raised>>

\* Rows are emitted in minute order per symbol.
EmitRow(row) ==
  /\ pc = "emitting" /\ row \in rows
  /\ \A other \in rows : other[1] = row[1] => row[2] <= other[2]
  /\ rows' = rows \ {row}
  /\ pc' = IF rows' = {} THEN "stream" ELSE "emitting"
  /\ emitted' = emitted \cup {<<r[1], r[2]>> : r \in {q \in {row} : q[3]}}
  /\ UNCHANGED <<running, stopping, symbols, url, ws, connected, attempt, todo, exchange,
                 raced, raised, ghost>>

--------------------------------------------------------------------------------
(* The session's read loop.                                                *)

\* Ghost: the session has ended; what it vouched for becomes the past.
Retire(stop) ==
  /\ liveFrom' = Zero
  /\ covFrom' = [s \in Sym |-> IF s \in streams THEN liveFrom[s] ELSE 0]
  /\ covTo' = [s \in Sym |-> IF s \in streams THEN stop ELSE 0]

\* async for reads the oldest message and _handle_message emits it.
Receive(candle) ==
  /\ pc = "stream" /\ candle \in inbox
  /\ \A other \in inbox : candle[2] <= other[2]
  /\ inbox' = inbox \ {candle}
  /\ emitted' = emitted \cup {candle}
  /\ UNCHANGED <<code, link, streams, now, raced, raised, ghost>>

\* Mutant: the read loop stops at the close without reading what came before it.
SessionEndsUnread ==
  /\ pc = "stream" /\ link # "up"
  /\ ws' = FALSE /\ inbox' = {}
  /\ \/ /\ link = "closed"
        /\ attempt' = 0
        /\ \/ running /\ BeginConnect
           \/ ~running /\ pc' = "done" /\ connected' = FALSE
              /\ UNCHANGED <<url, raced, raised>>
     \/ /\ link = "error"
        /\ BackOff
        /\ connected' = FALSE
        /\ UNCHANGED <<url, raced, raised>>
  /\ UNCHANGED <<running, stopping, symbols, todo, rows, link, streams, now,
                 emitted, ghost>>

\* Mutant: no finally; an exception leaves the event set.
SessionEndsStillConnected ==
  /\ pc = "stream" /\ link = "error" /\ inbox = {}
  /\ ws' = FALSE
  /\ BackOff
  /\ UNCHANGED <<running, stopping, symbols, todo, rows, exchange, url, connected,
                 raced, emitted, raised, ghost>>

\* Mutant: a clean close by the server ends the loop.
SessionEndsLoop ==
  /\ pc = "stream" /\ link = "closed" /\ inbox = {}
  /\ ws' = FALSE /\ connected' = FALSE
  /\ attempt' = 0 /\ pc' = "done"
  /\ UNCHANGED <<running, stopping, symbols, todo, rows, exchange, url, raced,
                 emitted, raised, ghost>>

\* The read loop ends when the link is gone and everything received is read:
\* by StopIteration after a clean close, by an exception otherwise.
SessionEnds ==
  /\ pc = "stream" /\ link # "up" /\ inbox = {}
  /\ ws' = FALSE
  /\ \/ /\ link = "closed"
        /\ attempt' = 0
        /\ \/ running /\ BeginConnect
           \/ ~running /\ pc' = "done" /\ connected' = FALSE
              /\ UNCHANGED <<url, raced, raised>>
     \/ /\ link = "error"
        /\ BackOff
        /\ connected' = FALSE
        /\ UNCHANGED <<url, raced, raised>>
  /\ UNCHANGED <<running, stopping, symbols, todo, rows, exchange,
                 emitted, ghost>>

\* _handle_message raises (a kline without its fields, a bare JSON list):
\* finally lets go of _ws without closing the socket; what it had received is lost.
HandlerRaises ==
  /\ pc = "stream"
  /\ ws' = FALSE /\ connected' = FALSE
  /\ BackOff
  /\ raised' = TRUE
  /\ link' = "closed" /\ streams' = {} /\ inbox' = {}
  /\ Forget /\ liveFrom' = Zero
  /\ UNCHANGED <<running, stopping, symbols, url, todo, rows, now, emitted, raced>>

--------------------------------------------------------------------------------
(* Public methods.                                                         *)

Start ==
  /\ ~running /\ pc = "none" /\ ~stopping
  /\ running' = TRUE /\ pc' = "start" /\ attempt' = 0
  /\ UNCHANGED <<stopping, symbols, url, ws, connected, todo, rows, exchange,
                 emitted, raced, raised, ghost>>

\* The task is cancelled wherever it waits and joined.  Only the read loop
\* has a finally; a cancelled gap-fill leaves _ws and _connected set.
Cancelled ==
  /\ pc' = "none"
  /\ IF pc = "stream" THEN ws' = FALSE /\ connected' = FALSE ELSE UNCHANGED <<ws, connected>>
  /\ todo' = {} /\ rows' = {} /\ inbox' = {} /\ streams' = {}
  /\ Forget

\* Mutant: stop() lowers the flag and leaves the task to notice it.
StopWithoutCancel ==
  /\ running
  /\ running' = FALSE
  /\ IF link = "up" THEN link' = "closed" /\ Retire(now) ELSE UNCHANGED <<link, ghost>>
  /\ UNCHANGED <<symbols, url, attempt, now, emitted, raced, raised, pc, ws,
                 connected, todo, rows, inbox, streams, stopping>>

\* stop(): the flag falls.  Closing a live socket suspends, and one that the
\* session has just lost may still; a socket that is gone, or none, does not, and
\* the task is cancelled in the same breath.
Stop ==
  /\ running
  /\ running' = FALSE
  /\ \/ /\ ws /\ pc \in InSession
        /\ stopping' = TRUE
        /\ IF link = "up" THEN link' = "closed" /\ Retire(now) ELSE UNCHANGED <<link, ghost>>
        /\ UNCHANGED <<pc, ws, connected, todo, rows, inbox, streams>>
     \/ /\ ~(ws /\ link = "up")
        /\ Cancelled
        /\ UNCHANGED <<stopping, link, liveFrom>>
  /\ UNCHANGED <<symbols, url, attempt, now, emitted, raced, raised>>

\* The close is over: cancel and join.
CancelAndJoin ==
  /\ stopping
  /\ stopping' = FALSE
  /\ Cancelled
  /\ UNCHANGED <<running, symbols, url, attempt, link, now,
                 emitted, raced, raised, liveFrom>>

\* subscribe: the set grows first; the frame goes out only on a set _ws, and a
\* dead link loses it with an exception to the caller.
Subscribe(new) ==
  /\ new # {} /\ new \cap symbols = {}
  /\ symbols' = symbols \cup new
  /\ raced' = (raced \/ pc = "connecting")
  /\ streams' = IF ws /\ link = "up" THEN streams \cup new ELSE streams
  /\ liveFrom' = IF ws /\ link = "up"
                 THEN [s \in Sym |-> IF s \in new THEN now ELSE liveFrom[s]] ELSE liveFrom
  /\ UNCHANGED <<running, pc, stopping, url, ws, connected, attempt, todo, rows,
                 link, inbox, now, emitted, raised, covFrom, covTo>>

\* Mutant: the set shrinks and no frame is sent.
UnsubscribeSilently(drop) ==
  /\ drop # {} /\ drop \subseteq symbols
  /\ symbols' = symbols \ drop
  /\ raced' = (raced \/ pc = "connecting")
  /\ UNCHANGED <<running, pc, stopping, url, ws, connected, attempt, todo, rows, streams,
                 link, inbox, now, emitted, raised, ghost>>

Unsubscribe(drop) ==
  /\ drop # {} /\ drop \subseteq symbols
  /\ symbols' = symbols \ drop
  /\ raced' = (raced \/ pc = "connecting")
  /\ streams' = IF ws /\ link = "up" THEN streams \ drop ELSE streams
  /\ covFrom' = [s \in Sym |-> IF s \in drop THEN 0 ELSE covFrom[s]]
  /\ covTo' = [s \in Sym |-> IF s \in drop THEN 0 ELSE covTo[s]]
  /\ UNCHANGED <<running, pc, stopping, url, ws, connected, attempt, todo, rows,
                 link, inbox, now, emitted, raised, liveFrom>>

--------------------------------------------------------------------------------
(* The exchange.                                                           *)

\* The minute in progress closes: its final kline is sent on every live stream.
Tick ==
  /\ now < MaxMinute
  /\ now' = now + 1
  /\ inbox' = IF link = "up" THEN inbox \cup {<<s, now>> : s \in streams} ELSE inbox
  /\ UNCHANGED <<code, link, streams, emitted, raced, raised, ghost>>

\* The connection breaks: a clean close (Binance's 24h cap) or an error.
DropLink(how) ==
  /\ link = "up"
  /\ link' = how
  /\ Retire(now)
  /\ UNCHANGED <<code, streams, inbox, now, emitted, raced, raised>>

--------------------------------------------------------------------------------
GapFill ==
  \/ \E s \in Sym : FetchOk(s) \/ FetchFails(s)
  \/ BackfillFails
  \/ \E row \in rows : EmitRow(row)

ReadLoop ==
  \/ \E candle \in inbox : Receive(candle)
  \/ SessionEnds

FeedTask == LoopStart \/ ConnectOk \/ ConnectFails \/ WakeUp \/ GapFill \/ ReadLoop
Exchange == Tick \/ \E how \in {"closed", "error"} : DropLink(how)
Calls ==
  \/ Start
  \/ Stop
  \/ CancelAndJoin
  \/ \E new \in SUBSET Sym : Subscribe(new)
  \/ \E drop \in SUBSET Sym : Unsubscribe(drop)

Next == FeedTask \/ HandlerRaises \/ Exchange \/ Calls

Spec == Init /\ [][Next]_vars

\* Timers fire, the coroutine of a resumed task runs, requests and closes come
\* back; an exchange that is asked again and again accepts a connection.
Fairness ==
  /\ WF_vars(FeedTask)
  /\ SF_vars(ConnectOk)
  /\ WF_vars(CancelAndJoin)
FairSpec == Spec /\ Fairness

--------------------------------------------------------------------------------
(* Properties.                                                             *)

Candle == Sym \X Minute

TypeOK ==
  /\ running \in BOOLEAN /\ pc \in Pc /\ stopping \in BOOLEAN
  /\ symbols \subseteq Sym /\ url \subseteq Sym
  /\ ws \in BOOLEAN /\ connected \in BOOLEAN
  /\ attempt \in 0..AttemptCap
  /\ todo \subseteq Sym /\ rows \subseteq (Sym \X Minute \X BOOLEAN)
  /\ link \in {"up", "closed", "error"}
  /\ streams \subseteq Sym /\ inbox \subseteq Candle
  /\ now \in Minute
  /\ emitted \subseteq Candle
  /\ raced \in BOOLEAN /\ raised \in BOOLEAN
  /\ liveFrom \in [Sym -> Minute]
  /\ covFrom \in [Sym -> Minute] /\ covTo \in [Sym -> Minute]

\* The candle has reached the callbacks or is on its way inside the feed.
Reaches(s, m) == <<s, m>> \in emitted \cup inbox \/ <<s, m, TRUE>> \in rows

\* No hole at the seam of gap-fill and stream: while a session is up, every
\* minute from the oldest row of its gap-fill to now (from an earlier session
\* on, if the outage was within reach of the gap-fill) has been emitted, is
\* among the fetched rows, or waits in the socket.  The code owes this to the
\* order of _connect_once: the socket is open before the REST request.
SeamlessCoverage ==
  /\ link = "up" =>
       \A s \in streams : \A m \in liveFrom[s]..(now - 1) : Reaches(s, m)
  /\ \A s \in Sym : \A m \in covFrom[s]..(covTo[s] - 1) : Reaches(s, m)

\* While a session is up and the tracked set was not changed between the URL
\* and the assignment of _ws, the exchange streams exactly the tracked set:
\* control frames, the URL and reconnects never drift apart.
StreamsFollowSymbols == link = "up" /\ ~raced => streams = symbols

\* wait_connected tells the truth about a running loop: the event is set from
\* the end of the connector's await to the end of the session, and the session
\* can be written to during all of it.
ConnectedMeansSession ==
  running /\ pc # "start" =>
    /\ connected <=> pc \in InSession
    /\ connected => ws

\* Nothing ends a running loop but max_reconnects, and that on the first failure
\* beyond it and on no earlier one, a clean session in between starting the count
\* afresh; in production (max_reconnects is None) nothing does.  start() would not
\* restart an ended loop, because _running stays set.
LoopEndsAtLimit ==
  running =>
    /\ pc # "none"
    /\ pc = "done" <=> MaxReconnects # None /\ attempt > MaxReconnects

\* After a lost connection the feed comes back to its read loop or is stopped.
Reconnects == pc = "backoff" ~> pc = "stream" \/ ~running

\* What the socket has received reaches the callbacks, also when the link is
\* lost before it is read, unless the feed is stopped or a handler raised.
ReceivedIsEmitted ==
  \A c \in Candle : c \in inbox ~> c \in emitted \/ ~running \/ raised

\* symbols/manager.py:17 promises a feed "subscribed to exactly" the watchlist
\* "(no restart needed)", so a session in its read loop streams every tracked
\* symbol.  One subscribed between the URL and the assignment of _ws is in neither
\* the URL nor a frame: it is tracked and not streamed.
TrackedIsStreamed == pc = "stream" /\ link = "up" => symbols \subseteq streams

================================================================================
