------------------------------ MODULE FeedProofs -------------------------------
(***************************************************************************)
(* The feeds and the service that stores what they emit, for every set of  *)
(* symbols, gap-fill limit, backoff table, reconnect limit, writer         *)
(* capacity and length of a behaviour.  In three parts: the live feed      *)
(* leaves no hole between gap-fill and stream; either feed behind          *)
(* build_feed keeps the contract of feeds/base.py; and the ingest service  *)
(* accounts for every final candle through failed batches, lost links,     *)
(* stops and kills, and overwrites no final row by a half-finished one.    *)
(***************************************************************************)
EXTENDS FeedFactory, Ingest, SumLemmas

--------------------------------------------------------------------------------
(* Part 1: BinanceFeed.                                                    *)

(* Types.                                                                  *)

LEMMA CapIsNat == AttemptCap \in Nat
BY LimitAssumption, ReconnectAssumption DEF AttemptCap

LEMMA ZeroIsType == Zero \in [Sym -> Minute] /\ 0 \in Minute
BY BoundAssumption DEF Zero, Minute

LEMMA RetireTypes ==
  ASSUME TypeOK, NEW stop \in Minute, Retire(stop)
  PROVE  /\ liveFrom' \in [Sym -> Minute]
         /\ covFrom' \in [Sym -> Minute] /\ covTo' \in [Sym -> Minute]
BY ZeroIsType DEF Retire, TypeOK

LEMMA BackOffTypes ==
  ASSUME TypeOK, BackOff
  PROVE  attempt' \in 0..AttemptCap /\ pc' \in {"done", "backoff"}
<1>1. AttemptCap \in Nat /\ attempt \in 0..AttemptCap
  BY CapIsNat DEF TypeOK
<1>2. Least(attempt + 1, AttemptCap) \in 0..AttemptCap
  BY <1>1 DEF Least
<1>3. QED
  BY <1>1, <1>2 DEF BackOff

LEMMA TypeLoopStart ==
  ASSUME TypeOK, LoopStart
  PROVE  TypeOK'
BY CapIsNat, ZeroIsType, RetireTypes
   DEF TypeOK, Candle, Pc, InSession, code, exchange, ghost, LoopStart, LoopHead,
       BeginConnect

LEMMA TypeConnectOk ==
  ASSUME TypeOK, ConnectOk
  PROVE  TypeOK'
BY CapIsNat, ZeroIsType, RetireTypes
   DEF TypeOK, Candle, Pc, InSession, code, exchange, ghost, ConnectOk

LEMMA TypeConnectFails ==
  ASSUME TypeOK, ConnectFails
  PROVE  TypeOK'
BY BackOffTypes DEF TypeOK, Candle, Pc, InSession, code, exchange, ghost, ConnectFails

LEMMA TypeWakeUp ==
  ASSUME TypeOK, WakeUp
  PROVE  TypeOK'
BY CapIsNat, ZeroIsType, RetireTypes
   DEF TypeOK, Candle, Pc, InSession, code, exchange, ghost, WakeUp, LoopHead, BeginConnect

LEMMA KlineRowTypes ==
  ASSUME TypeOK, NEW s \in Sym
  PROVE  KlineRows(s) \subseteq Sym \X Minute \X BOOLEAN
<1>1. now \in Minute /\ BackfillLimit \in Nat
  BY LimitAssumption DEF TypeOK
<1>2. \A m \in Most(0, now - BackfillLimit + 1)..now : m \in Minute
  BY <1>1, BoundAssumption DEF Most, Minute
<1>3. \A m \in Most(0, now - BackfillLimit + 1)..now :
        <<s, m, m < now>> \in Sym \X Minute \X BOOLEAN
  <2>1. ASSUME NEW m \in Most(0, now - BackfillLimit + 1)..now
        PROVE  (m < now) \in BOOLEAN
    OBVIOUS
  <2>2. QED
    BY <1>2, <2>1, Zenon
<1>4. QED
  BY <1>3 DEF KlineRows

LEMMA TypeFetchOk ==
  ASSUME TypeOK, NEW s \in Sym, FetchOk(s)
  PROVE  TypeOK'
<1>1. rows' \subseteq Sym \X Minute \X BOOLEAN
  BY KlineRowTypes DEF FetchOk, TypeOK
<1>2. liveFrom' \in [Sym -> Minute]
  <2> DEFINE lo == Most(0, now - BackfillLimit + 1)
  <2>1. lo \in Nat
    BY LimitAssumption DEF Most, Minute, TypeOK
  <2>2. covFrom[s] \in Minute /\ liveFrom[s] \in Minute
    BY DEF TypeOK
  <2>3. lo > liveFrom[s] \/ lo \in Minute
    BY <2>1, <2>2, BoundAssumption DEF Minute
  <2>4. Least(lo, covFrom[s]) \in Minute \/ lo > liveFrom[s]
    BY <2>2, <2>3 DEF Least
  <2> HIDE DEF lo
  <2>5. QED
    BY <2>2, <2>3, <2>4 DEF FetchOk, Rejoin, TypeOK, lo
<1>3. QED
  BY <1>1, <1>2 DEF FetchOk, NextFetch, TypeOK, Candle, Pc, InSession, code, exchange, ghost

LEMMA TypeFetchFails ==
  ASSUME TypeOK, NEW s \in Sym, FetchFails(s)
  PROVE  TypeOK'
<1>1. rows' \subseteq rows \cup KlineRows(s)
  BY DEF FetchFails
<1>2. rows' \subseteq Sym \X Minute \X BOOLEAN
  BY <1>1, KlineRowTypes DEF TypeOK
<1>3. QED
  BY <1>2 DEF TypeOK, Candle, Pc, InSession, code, exchange, ghost, FetchFails, NextFetch

LEMMA TypeBackfillFails ==
  ASSUME TypeOK, BackfillFails
  PROVE  TypeOK'
BY CapIsNat, ZeroIsType, RetireTypes
   DEF TypeOK, Candle, Pc, InSession, code, exchange, ghost, BackfillFails, Forget

LEMMA TypeEmitRow ==
  ASSUME TypeOK, NEW row \in rows, EmitRow(row)
  PROVE  TypeOK'
BY CapIsNat, ZeroIsType, RetireTypes
   DEF TypeOK, Candle, Pc, InSession, code, exchange, ghost, EmitRow

LEMMA TypeReceive ==
  ASSUME TypeOK, NEW candle \in inbox, Receive(candle)
  PROVE  TypeOK'
BY CapIsNat, ZeroIsType, RetireTypes
   DEF TypeOK, Candle, Pc, InSession, code, exchange, ghost, Receive

LEMMA TypeSessionEnds ==
  ASSUME TypeOK, SessionEnds
  PROVE  TypeOK'
<1>1. attempt' \in 0..AttemptCap
  BY BackOffTypes, CapIsNat DEF SessionEnds
<1>2. /\ pc' \in {"done", "backoff", "connecting"} /\ url' \subseteq Sym
      /\ raced' \in BOOLEAN /\ raised' \in BOOLEAN /\ connected' = FALSE
  BY BackOffTypes DEF SessionEnds, BeginConnect, TypeOK
<1>3. QED
  BY <1>1, <1>2 DEF TypeOK, Candle, Pc, InSession, code, exchange, ghost, SessionEnds

LEMMA TypeHandlerRaises ==
  ASSUME TypeOK, HandlerRaises
  PROVE  TypeOK'
BY BackOffTypes, ZeroIsType
   DEF TypeOK, Candle, Pc, InSession, code, exchange, ghost, HandlerRaises, Forget

LEMMA TypeStart ==
  ASSUME TypeOK, Start
  PROVE  TypeOK'
BY CapIsNat, ZeroIsType, RetireTypes
   DEF TypeOK, Candle, Pc, InSession, code, exchange, ghost, Start

LEMMA TypeStop ==
  ASSUME TypeOK, Stop
  PROVE  TypeOK'
BY CapIsNat, ZeroIsType, RetireTypes
   DEF TypeOK, Candle, Pc, InSession, code, exchange, ghost, Stop, Cancelled, Forget

LEMMA TypeCancelAndJoin ==
  ASSUME TypeOK, CancelAndJoin
  PROVE  TypeOK'
BY CapIsNat, ZeroIsType, RetireTypes
   DEF TypeOK, Candle, Pc, InSession, code, exchange, ghost, CancelAndJoin, Cancelled,
       Forget

LEMMA TypeSubscribe ==
  ASSUME TypeOK, NEW new \in SUBSET Sym, Subscribe(new)
  PROVE  TypeOK'
BY CapIsNat, ZeroIsType, RetireTypes
   DEF TypeOK, Candle, Pc, InSession, code, exchange, ghost, Subscribe

LEMMA TypeUnsubscribe ==
  ASSUME TypeOK, NEW drop \in SUBSET Sym, Unsubscribe(drop)
  PROVE  TypeOK'
BY CapIsNat, ZeroIsType, RetireTypes
   DEF TypeOK, Candle, Pc, InSession, code, exchange, ghost, Unsubscribe

LEMMA TypeTick ==
  ASSUME TypeOK, Tick
  PROVE  TypeOK'
<1>1. now' \in Minute
  BY BoundAssumption DEF Tick, TypeOK, Minute
<1>2. inbox' \subseteq Candle
  BY DEF Tick, TypeOK, Candle
<1>3. QED
  BY <1>1, <1>2 DEF Tick, TypeOK, Candle, Pc, InSession, code, exchange, ghost

LEMMA TypeDropLink ==
  ASSUME TypeOK, NEW how \in {"closed", "error"}, DropLink(how)
  PROVE  TypeOK'
BY CapIsNat, ZeroIsType, RetireTypes
   DEF TypeOK, Candle, Pc, InSession, code, exchange, ghost, DropLink

--------------------------------------------------------------------------------
(* Coverage.                                                               *)

\* The socket is open inside a session of a running loop only.
SocketInStep ==
  /\ link = "up" => pc \in InSession /\ running
  /\ pc \in InSession => ws
  /\ running => ~stopping
  /\ pc \in {"start", "connecting", "backoff"} => running

\* Between sessions nothing is in hand, and the read loop starts with no row left.
HandsEmpty ==
  /\ pc \notin InSession => inbox = {} /\ rows = {}
  /\ pc = "stream" => rows = {}

\* What earlier sessions vouch for has left the feed by the time the next is open:
\* the failure of a gap-fill may then drop every row and no such minute.
PastIsEmitted ==
  link = "up" => \A s \in Sym : \A m \in covFrom[s]..(covTo[s] - 1) : <<s, m>> \in emitted

\* The inductive invariant.
FeedInv == TypeOK /\ SocketInStep /\ HandsEmpty /\ PastIsEmitted /\ SeamlessCoverage

\* A session that ends hands its minutes over to the past.
LEMMA RetireCovers ==
  ASSUME FeedInv, link = "up", link' # "up", Retire(now),
         UNCHANGED <<streams, inbox, rows, emitted>>
  PROVE  SeamlessCoverage'
<1>1. \A s, m : Reaches(s, m) => Reaches(s, m)'
  BY DEF Reaches
<1>2. ASSUME NEW s \in Sym, NEW m \in (covFrom[s]..(covTo[s] - 1))'
      PROVE  Reaches(s, m)'
  <2>1. CASE s \in streams
    <3>1. covFrom'[s] = liveFrom[s] /\ covTo'[s] = now
      BY <2>1 DEF Retire
    <3>2. QED
      BY <1>1, <1>2, <2>1, <3>1 DEF FeedInv, SeamlessCoverage
  <2>2. CASE s \notin streams
    <3>1. covFrom'[s] = 0 /\ covTo'[s] = 0
      BY <2>2 DEF Retire
    <3>2. QED
      BY <1>2, <3>1
  <2>3. QED
    BY <2>1, <2>2
<1>3. QED
  BY <1>2 DEF SeamlessCoverage

LEMMA CoverLoopStart ==
  ASSUME FeedInv, LoopStart
  PROVE  FeedInv'
<1>1. TypeOK'
  BY TypeLoopStart DEF FeedInv
<1>2. SocketInStep' /\ HandsEmpty'
  BY DEF FeedInv, SocketInStep, HandsEmpty, InSession, LoopStart, LoopHead, BeginConnect,
         code, exchange
<1>3. PastIsEmitted'
  BY DEF FeedInv, TypeOK, SocketInStep, HandsEmpty, PastIsEmitted, SeamlessCoverage,
         Reaches, InSession, LoopStart, LoopHead, BeginConnect, code, exchange, ghost
<1>4. SeamlessCoverage'
  BY DEF FeedInv, TypeOK, SocketInStep, HandsEmpty, PastIsEmitted, SeamlessCoverage,
         Reaches, InSession, LoopStart, LoopHead, BeginConnect, code, exchange, ghost
<1>5. QED
  BY <1>1, <1>2, <1>3, <1>4 DEF FeedInv

LEMMA CoverConnectOk ==
  ASSUME FeedInv, ConnectOk
  PROVE  FeedInv'
<1>1. TypeOK'
  BY TypeConnectOk DEF FeedInv
<1>2. SocketInStep' /\ HandsEmpty'
  <2>1. pc = "connecting" /\ pc' \in {"stream", "filling"} /\ rows' = {} /\ ws' = TRUE
    BY DEF ConnectOk
  <2>2. running /\ running' = running /\ stopping' = stopping
    BY <2>1 DEF ConnectOk, FeedInv, SocketInStep
  <2>3. QED
    BY <2>1, <2>2 DEF FeedInv, SocketInStep, HandsEmpty, InSession
<1>3. PastIsEmitted'
  BY DEF FeedInv, TypeOK, SocketInStep, HandsEmpty, PastIsEmitted, SeamlessCoverage,
         Reaches, InSession, ConnectOk, code, exchange, ghost
<1>4. SeamlessCoverage'
  <2>1. now \in Nat /\ now' = now /\ liveFrom' = [s \in Sym |-> now] /\ streams' \subseteq Sym
    BY DEF ConnectOk, FeedInv, TypeOK, Minute
  <2>2. rows = {} /\ inbox = {} /\ UNCHANGED <<emitted, covFrom, covTo>>
    BY DEF ConnectOk, FeedInv, HandsEmpty, InSession
  <2>3. \A s \in streams' : liveFrom'[s]..(now' - 1) = {}
    BY <2>1
  <2>4. \A s, m : Reaches(s, m) => Reaches(s, m)'
    BY <2>2 DEF Reaches
  <2>5. QED
    BY <2>2, <2>3, <2>4 DEF FeedInv, SeamlessCoverage
<1>5. QED
  BY <1>1, <1>2, <1>3, <1>4 DEF FeedInv

LEMMA CoverConnectFails ==
  ASSUME FeedInv, ConnectFails
  PROVE  FeedInv'
<1>1. TypeOK'
  BY TypeConnectFails DEF FeedInv
<1>2. SocketInStep' /\ HandsEmpty'
  BY DEF FeedInv, SocketInStep, HandsEmpty, InSession, ConnectFails, BackOff, code, exchange
<1>3. PastIsEmitted'
  BY DEF FeedInv, TypeOK, SocketInStep, HandsEmpty, PastIsEmitted, SeamlessCoverage,
         Reaches, InSession, ConnectFails, BackOff, code, exchange, ghost
<1>4. SeamlessCoverage'
  BY DEF FeedInv, TypeOK, SocketInStep, HandsEmpty, PastIsEmitted, SeamlessCoverage,
         Reaches, InSession, ConnectFails, BackOff, code, exchange, ghost
<1>5. QED
  BY <1>1, <1>2, <1>3, <1>4 DEF FeedInv

LEMMA CoverWakeUp ==
  ASSUME FeedInv, WakeUp
  PROVE  FeedInv'
<1>1. TypeOK'
  BY TypeWakeUp DEF FeedInv
<1>2. SocketInStep' /\ HandsEmpty'
  BY DEF FeedInv, SocketInStep, HandsEmpty, InSession, WakeUp, LoopHead, BeginConnect, code,
         exchange
<1>3. PastIsEmitted'
  BY DEF FeedInv, TypeOK, SocketInStep, HandsEmpty, PastIsEmitted, SeamlessCoverage,
         Reaches, InSession, WakeUp, LoopHead, BeginConnect, code, exchange, ghost
<1>4. SeamlessCoverage'
  BY DEF FeedInv, TypeOK, SocketInStep, HandsEmpty, PastIsEmitted, SeamlessCoverage,
         Reaches, InSession, WakeUp, LoopHead, BeginConnect, code, exchange, ghost
<1>5. QED
  BY <1>1, <1>2, <1>3, <1>4 DEF FeedInv

LEMMA CoverFetchOk ==
  ASSUME FeedInv, NEW s \in Sym, FetchOk(s)
  PROVE  FeedInv'
<1>1. TypeOK'
  BY TypeFetchOk DEF FeedInv
<1>2. SocketInStep' /\ HandsEmpty'
  BY DEF FeedInv, SocketInStep, HandsEmpty, InSession, FetchOk, NextFetch, code, exchange
<1>3. PastIsEmitted'
  BY DEF FeedInv, TypeOK, SocketInStep, HandsEmpty, PastIsEmitted, SeamlessCoverage,
         Reaches, InSession, FetchOk, NextFetch, code, exchange, ghost
<1>4. SeamlessCoverage'
  <2> DEFINE lo == Most(0, now - BackfillLimit + 1)
  <2>1. UNCHANGED <<link, streams, inbox, now, emitted, covFrom, covTo>>
    BY DEF FetchOk, NextFetch, exchange
  <2>2. \A t, m : Reaches(t, m) => Reaches(t, m)'
    BY <2>1 DEF FetchOk, Reaches
  <2>3. now \in Nat /\ lo \in Nat /\ s \in Sym
    BY LimitAssumption DEF FeedInv, TypeOK, Minute, Most
  <2>4. ASSUME NEW m \in lo..(now - 1)
        PROVE  Reaches(s, m)'
    <3>1. m \in lo..now /\ (m < now) = TRUE
      BY <2>3
    <3>2. <<s, m, m < now>> \in KlineRows(s)
      BY <3>1 DEF KlineRows
    <3>3. QED
      BY <3>1, <3>2 DEF FetchOk, Reaches
  <2> HIDE DEF lo
  <2>5. liveFrom \in [Sym -> Nat] /\ covFrom \in [Sym -> Nat] /\ covTo \in [Sym -> Nat]
    BY DEF FeedInv, TypeOK, Minute
  <2>6. ASSUME link = "up", NEW t \in streams, NEW m \in liveFrom'[t]..(now - 1)
        PROVE  Reaches(t, m)'
    <3>1. CASE m \in liveFrom[t]..(now - 1)
      BY <2>2, <2>6, <3>1 DEF FeedInv, SeamlessCoverage
    <3>2. CASE m \notin liveFrom[t]..(now - 1)
      <4>1. t \in Sym
        BY DEF FeedInv, TypeOK
      <4>2. t = s /\ liveFrom' # liveFrom
        BY <2>5, <2>6, <3>2, <4>1 DEF FetchOk, Rejoin
      <4>3. \/ liveFrom'[s] = lo
            \/ lo <= covTo[s] /\ liveFrom'[s] = Least(lo, covFrom[s])
        BY <2>3, <2>5, <4>2 DEF FetchOk, Rejoin, lo
      <4>4. m \in lo..(now - 1) \/ m \in covFrom[s]..(covTo[s] - 1)
        BY <2>3, <2>5, <2>6, <4>2, <4>3 DEF Least
      <4>5. QED
        BY <2>2, <2>3, <2>4, <4>2, <4>4 DEF FeedInv, SeamlessCoverage, lo
    <3>3. QED
      BY <3>1, <3>2
  <2>7. QED
    BY <2>1, <2>2, <2>6 DEF FeedInv, SeamlessCoverage
<1>5. QED
  BY <1>1, <1>2, <1>3, <1>4 DEF FeedInv

LEMMA CoverFetchFails ==
  ASSUME FeedInv, NEW s \in Sym, FetchFails(s)
  PROVE  FeedInv'
<1>1. TypeOK'
  BY TypeFetchFails DEF FeedInv
<1>2. SocketInStep' /\ HandsEmpty'
  BY DEF FeedInv, SocketInStep, HandsEmpty, InSession, FetchFails, NextFetch, code, exchange
<1>3. PastIsEmitted'
  BY DEF FeedInv, TypeOK, SocketInStep, HandsEmpty, PastIsEmitted, SeamlessCoverage,
         Reaches, InSession, FetchFails, NextFetch, code, exchange, ghost
<1>4. SeamlessCoverage'
  BY DEF FeedInv, TypeOK, SocketInStep, HandsEmpty, PastIsEmitted, SeamlessCoverage,
         Reaches, InSession, FetchFails, NextFetch, code, exchange, ghost
<1>5. QED
  BY <1>1, <1>2, <1>3, <1>4 DEF FeedInv

LEMMA CoverBackfillFails ==
  ASSUME FeedInv, BackfillFails
  PROVE  FeedInv'
<1>1. TypeOK'
  BY TypeBackfillFails DEF FeedInv
<1>2. SocketInStep' /\ HandsEmpty'
  BY DEF FeedInv, SocketInStep, HandsEmpty, InSession, BackfillFails, code, exchange
<1>3. PastIsEmitted'
  BY DEF FeedInv, TypeOK, SocketInStep, HandsEmpty, PastIsEmitted, SeamlessCoverage,
         Reaches, InSession, BackfillFails, Forget, Zero, code, exchange, ghost
<1>4. SeamlessCoverage'
  <2>1. now \in Nat /\ now' = now /\ liveFrom' = [s \in Sym |-> now] /\ streams' \subseteq Sym
    BY DEF BackfillFails, FeedInv, TypeOK, Minute, exchange
  <2>2. \A s \in streams' : liveFrom'[s]..(now' - 1) = {}
    BY <2>1
  <2>3. \A s \in Sym : \A m \in (covFrom[s]..(covTo[s] - 1))' : Reaches(s, m)'
    <3>1. CASE link = "up"
      BY <3>1 DEF BackfillFails, exchange, FeedInv, PastIsEmitted, Reaches
    <3>2. CASE link # "up"
      <4>1. \A s \in Sym : (covFrom[s]..(covTo[s] - 1))' = {}
        BY <3>2 DEF BackfillFails, Forget, Zero
      <4>2. QED
        BY <4>1
    <3>3. QED
      BY <3>1, <3>2
  <2>4. QED
    BY <2>2, <2>3 DEF SeamlessCoverage
<1>5. QED
  BY <1>1, <1>2, <1>3, <1>4 DEF FeedInv

LEMMA CoverEmitRow ==
  ASSUME FeedInv, NEW row \in rows, EmitRow(row)
  PROVE  FeedInv'
<1>1. TypeOK'
  BY TypeEmitRow DEF FeedInv
<1>2. SocketInStep' /\ HandsEmpty'
  BY DEF FeedInv, SocketInStep, HandsEmpty, InSession, EmitRow, code, exchange
<1>3. PastIsEmitted'
  BY DEF FeedInv, TypeOK, SocketInStep, HandsEmpty, PastIsEmitted, SeamlessCoverage,
         Reaches, InSession, EmitRow, code, exchange, ghost
<1>4. SeamlessCoverage'
  <2>1. UNCHANGED <<link, streams, inbox, now, liveFrom, covFrom, covTo>>
    BY DEF EmitRow, exchange, ghost
  <2>2. \A s, m : Reaches(s, m) => Reaches(s, m)'
    <3>1. SUFFICES ASSUME NEW s, NEW m, Reaches(s, m), row = <<s, m, TRUE>>
                   PROVE  <<s, m>> \in emitted'
      BY <2>1 DEF EmitRow, Reaches
    <3>2. row[1] = s /\ row[2] = m /\ row[3] = TRUE
      BY <3>1
    <3>3. row \in {q \in {row} : q[3]}
      BY <3>2
    <3>4. QED
      BY <3>2, <3>3 DEF EmitRow
  <2>3. QED
    BY <2>1, <2>2 DEF FeedInv, SeamlessCoverage
<1>5. QED
  BY <1>1, <1>2, <1>3, <1>4 DEF FeedInv

LEMMA CoverReceive ==
  ASSUME FeedInv, NEW candle \in inbox, Receive(candle)
  PROVE  FeedInv'
<1>1. TypeOK'
  BY TypeReceive DEF FeedInv
<1>2. SocketInStep' /\ HandsEmpty'
  BY DEF FeedInv, SocketInStep, HandsEmpty, InSession, Receive, code, exchange
<1>3. PastIsEmitted'
  BY DEF FeedInv, TypeOK, SocketInStep, HandsEmpty, PastIsEmitted, SeamlessCoverage,
         Reaches, InSession, Receive, code, exchange, ghost
<1>4. SeamlessCoverage'
  BY DEF FeedInv, TypeOK, SocketInStep, HandsEmpty, PastIsEmitted, SeamlessCoverage,
         Reaches, InSession, Receive, code, exchange, ghost
<1>5. QED
  BY <1>1, <1>2, <1>3, <1>4 DEF FeedInv

LEMMA CoverSessionEnds ==
  ASSUME FeedInv, SessionEnds
  PROVE  FeedInv'
<1>1. TypeOK'
  BY TypeSessionEnds DEF FeedInv
<1>2. SocketInStep' /\ HandsEmpty'
  BY DEF FeedInv, SocketInStep, HandsEmpty, InSession, SessionEnds, BackOff, BeginConnect,
         code, exchange
<1>3. PastIsEmitted'
  BY DEF FeedInv, TypeOK, SocketInStep, HandsEmpty, PastIsEmitted, SeamlessCoverage,
         Reaches, InSession, SessionEnds, BackOff, BeginConnect, code, exchange, ghost
<1>4. SeamlessCoverage'
  BY DEF FeedInv, TypeOK, SocketInStep, HandsEmpty, PastIsEmitted, SeamlessCoverage,
         Reaches, InSession, SessionEnds, BackOff, BeginConnect, code, exchange, ghost
<1>5. QED
  BY <1>1, <1>2, <1>3, <1>4 DEF FeedInv

LEMMA CoverHandlerRaises ==
  ASSUME FeedInv, HandlerRaises
  PROVE  FeedInv'
<1>1. TypeOK'
  BY TypeHandlerRaises DEF FeedInv
<1>2. SocketInStep' /\ HandsEmpty'
  BY DEF FeedInv, SocketInStep, HandsEmpty, InSession, HandlerRaises, BackOff, code, exchange
<1>3. PastIsEmitted'
  BY DEF FeedInv, TypeOK, SocketInStep, HandsEmpty, PastIsEmitted, SeamlessCoverage,
         Reaches, InSession, HandlerRaises, BackOff, Forget, Zero, code, exchange, ghost
<1>4. SeamlessCoverage'
  BY DEF FeedInv, TypeOK, SocketInStep, HandsEmpty, PastIsEmitted, SeamlessCoverage,
         Reaches, InSession, HandlerRaises, BackOff, Forget, Zero, code, exchange, ghost
<1>5. QED
  BY <1>1, <1>2, <1>3, <1>4 DEF FeedInv

LEMMA CoverStart ==
  ASSUME FeedInv, Start
  PROVE  FeedInv'
<1>1. TypeOK'
  BY TypeStart DEF FeedInv
<1>2. SocketInStep' /\ HandsEmpty'
  BY DEF FeedInv, SocketInStep, HandsEmpty, InSession, Start, code, exchange
<1>3. PastIsEmitted'
  BY DEF FeedInv, TypeOK, SocketInStep, HandsEmpty, PastIsEmitted, SeamlessCoverage,
         Reaches, InSession, Start, code, exchange, ghost
<1>4. SeamlessCoverage'
  BY DEF FeedInv, TypeOK, SocketInStep, HandsEmpty, PastIsEmitted, SeamlessCoverage,
         Reaches, InSession, Start, code, exchange, ghost
<1>5. QED
  BY <1>1, <1>2, <1>3, <1>4 DEF FeedInv

LEMMA CoverStop ==
  ASSUME FeedInv, Stop
  PROVE  FeedInv'
<1>1. TypeOK'
  BY TypeStop DEF FeedInv
<1>2. SocketInStep' /\ HandsEmpty'
  BY DEF FeedInv, SocketInStep, HandsEmpty, InSession, Stop, Cancelled, code, exchange
<1>3. PastIsEmitted'
  BY DEF FeedInv, TypeOK, SocketInStep, HandsEmpty, PastIsEmitted, SeamlessCoverage,
         Reaches, InSession, Stop, Cancelled, Forget, Zero, Retire, code, exchange, ghost
<1>4. SeamlessCoverage'
  <2>1. CASE link = "up"
    BY <2>1, RetireCovers DEF Stop, FeedInv, SocketInStep
  <2>2. CASE link # "up" /\ stopping'
    BY <2>2 DEF Stop, FeedInv, SocketInStep, SeamlessCoverage, Reaches, ghost
  <2>3. CASE link # "up" /\ ~stopping'
    <3>1. link' # "up"
      BY <2>3 DEF Stop, FeedInv, SocketInStep
    <3>2. \A s \in Sym : (covFrom[s]..(covTo[s] - 1))' = {}
      BY <2>3 DEF Stop, Cancelled, Forget, Zero
    <3>3. QED
      BY <3>1, <3>2 DEF SeamlessCoverage
  <2>4. QED
    BY <2>1, <2>2, <2>3 DEF FeedInv, TypeOK, Stop
<1>5. QED
  BY <1>1, <1>2, <1>3, <1>4 DEF FeedInv

LEMMA CoverCancelAndJoin ==
  ASSUME FeedInv, CancelAndJoin
  PROVE  FeedInv'
<1>1. TypeOK'
  BY TypeCancelAndJoin DEF FeedInv
<1>2. SocketInStep' /\ HandsEmpty'
  BY DEF FeedInv, SocketInStep, HandsEmpty, InSession, CancelAndJoin, Cancelled, code, exchange
<1>3. PastIsEmitted'
  BY DEF FeedInv, TypeOK, SocketInStep, HandsEmpty, PastIsEmitted, SeamlessCoverage,
         Reaches, InSession, CancelAndJoin, Cancelled, Forget, Zero, code, exchange, ghost
<1>4. SeamlessCoverage'
  BY DEF FeedInv, TypeOK, SocketInStep, HandsEmpty, PastIsEmitted, SeamlessCoverage,
         Reaches, InSession, CancelAndJoin, Cancelled, Forget, Zero, code, exchange, ghost
<1>5. QED
  BY <1>1, <1>2, <1>3, <1>4 DEF FeedInv

LEMMA CoverSubscribe ==
  ASSUME FeedInv, NEW new \in SUBSET Sym, Subscribe(new)
  PROVE  FeedInv'
<1>1. TypeOK'
  BY TypeSubscribe DEF FeedInv
<1>2. SocketInStep' /\ HandsEmpty'
  BY DEF FeedInv, SocketInStep, HandsEmpty, InSession, Subscribe, code, exchange
<1>3. PastIsEmitted'
  BY DEF FeedInv, TypeOK, SocketInStep, HandsEmpty, PastIsEmitted, SeamlessCoverage,
         Reaches, InSession, Subscribe, code, exchange, ghost
<1>4. SeamlessCoverage'
  <2>1. UNCHANGED <<link, now, inbox, rows, emitted, covFrom, covTo>>
    BY DEF Subscribe
  <2>2. \A s, m : Reaches(s, m)' <=> Reaches(s, m)
    BY <2>1 DEF Reaches
  <2>3. ASSUME link = "up", NEW s \in streams', NEW m \in liveFrom'[s]..(now - 1)
        PROVE  Reaches(s, m)
    <3>1. ws /\ now \in Nat /\ s \in Sym
      BY <1>1, <2>3 DEF FeedInv, SocketInStep, TypeOK, Minute
    <3>2. CASE s \in new
      BY <2>3, <3>1, <3>2 DEF Subscribe
    <3>3. CASE s \notin new
      BY <2>3, <3>1, <3>3 DEF Subscribe, FeedInv, SeamlessCoverage
    <3>4. QED
      BY <3>2, <3>3
  <2>4. QED
    BY <2>1, <2>2, <2>3 DEF FeedInv, SeamlessCoverage
<1>5. QED
  BY <1>1, <1>2, <1>3, <1>4 DEF FeedInv

LEMMA CoverUnsubscribe ==
  ASSUME FeedInv, NEW drop \in SUBSET Sym, Unsubscribe(drop)
  PROVE  FeedInv'
<1>1. TypeOK'
  BY TypeUnsubscribe DEF FeedInv
<1>2. SocketInStep' /\ HandsEmpty'
  BY DEF FeedInv, SocketInStep, HandsEmpty, InSession, Unsubscribe, code, exchange
<1>3. ASSUME NEW s \in Sym, NEW m \in (covFrom[s]..(covTo[s] - 1))'
      PROVE  m \in covFrom[s]..(covTo[s] - 1)
  <2>1. CASE s \in drop
    <3>1. covFrom'[s] = 0 /\ covTo'[s] = 0
      BY <2>1 DEF Unsubscribe
    <3>2. QED
      BY <1>3, <3>1
  <2>2. CASE s \notin drop
    BY <1>3, <2>2 DEF Unsubscribe
  <2>3. QED
    BY <2>1, <2>2
<1>4. UNCHANGED <<link, now, inbox, rows, emitted, liveFrom>> /\ streams' \subseteq streams
  BY DEF Unsubscribe
<1>5. PastIsEmitted'
  BY <1>3, <1>4 DEF FeedInv, PastIsEmitted
<1>6. SeamlessCoverage'
  BY <1>3, <1>4 DEF FeedInv, SeamlessCoverage, Reaches
<1>7. QED
  BY <1>1, <1>2, <1>5, <1>6 DEF FeedInv

LEMMA CoverTick ==
  ASSUME FeedInv, Tick
  PROVE  FeedInv'
<1>1. TypeOK'
  BY TypeTick DEF FeedInv
<1>2. SocketInStep' /\ HandsEmpty'
  BY DEF FeedInv, SocketInStep, HandsEmpty, InSession, Tick, code, exchange
<1>3. PastIsEmitted'
  BY DEF FeedInv, TypeOK, SocketInStep, HandsEmpty, PastIsEmitted, SeamlessCoverage,
         Reaches, InSession, Tick, code, exchange, ghost
<1>4. SeamlessCoverage'
  <2>1. /\ UNCHANGED <<link, streams, rows, emitted, liveFrom, covFrom, covTo>>
        /\ now \in Nat /\ now' = now + 1 /\ inbox \subseteq inbox'
    BY DEF Tick, code, ghost, FeedInv, TypeOK, Minute
  <2>2. \A s, m : Reaches(s, m) => Reaches(s, m)'
    BY <2>1 DEF Reaches
  <2>3. ASSUME link = "up", NEW s \in streams, NEW m \in liveFrom[s]..now
        PROVE  Reaches(s, m)'
    <3>1. CASE m = now
      BY <2>3, <3>1 DEF Tick, Reaches
    <3>2. CASE m # now
      <4>1. liveFrom[s] \in Nat
        BY DEF FeedInv, TypeOK, Minute
      <4>2. m \in liveFrom[s]..(now - 1)
        BY <2>1, <2>3, <3>2, <4>1
      <4>3. QED
        BY <2>2, <2>3, <4>2 DEF FeedInv, SeamlessCoverage
    <3>3. QED
      BY <3>1, <3>2
  <2>4. now' - 1 = now
    BY <2>1
  <2>5. QED
    BY <2>1, <2>2, <2>3, <2>4 DEF FeedInv, SeamlessCoverage
<1>5. QED
  BY <1>1, <1>2, <1>3, <1>4 DEF FeedInv

LEMMA CoverDropLink ==
  ASSUME FeedInv, NEW how \in {"closed", "error"}, DropLink(how)
  PROVE  FeedInv'
<1>1. TypeOK'
  BY TypeDropLink DEF FeedInv
<1>2. SocketInStep' /\ HandsEmpty'
  BY DEF FeedInv, SocketInStep, HandsEmpty, InSession, DropLink, code, exchange
<1>3. PastIsEmitted'
  BY DEF FeedInv, TypeOK, SocketInStep, HandsEmpty, PastIsEmitted, SeamlessCoverage,
         Reaches, InSession, DropLink, Retire, code, exchange, ghost
<1>4. SeamlessCoverage'
  BY RetireCovers DEF DropLink, code
<1>5. QED
  BY <1>1, <1>2, <1>3, <1>4 DEF FeedInv

--------------------------------------------------------------------------------
(* The steps together, and the theorems.                                   *)

\* A step of BinanceFeed is one of these.
LEMMA LiveCases ==
  ASSUME Next
  PROVE  \/ LoopStart \/ ConnectOk \/ ConnectFails \/ WakeUp
         \/ \E s \in Sym : FetchOk(s) \/ FetchFails(s)
         \/ BackfillFails
         \/ \E row \in rows : EmitRow(row)
         \/ \E candle \in inbox : Receive(candle)
         \/ SessionEnds \/ HandlerRaises
         \/ Tick
         \/ \E how \in {"closed", "error"} : DropLink(how)
         \/ Start \/ Stop \/ CancelAndJoin
         \/ \E new \in SUBSET Sym : Subscribe(new)
         \/ \E drop \in SUBSET Sym : Unsubscribe(drop)
BY DEF Next, FeedTask, GapFill, ReadLoop, Exchange, Calls

LEMMA TypeStep ==
  ASSUME TypeOK, Next
  PROVE  TypeOK'
<1>1. CASE LoopStart
  BY <1>1, TypeLoopStart
<1>2. CASE ConnectOk
  BY <1>2, TypeConnectOk
<1>3. CASE ConnectFails
  BY <1>3, TypeConnectFails
<1>4. CASE WakeUp
  BY <1>4, TypeWakeUp
<1>5. CASE \E s \in Sym : FetchOk(s) \/ FetchFails(s)
  BY <1>5, TypeFetchOk, TypeFetchFails
<1>6. CASE BackfillFails
  BY <1>6, TypeBackfillFails
<1>7. CASE \E row \in rows : EmitRow(row)
  BY <1>7, TypeEmitRow
<1>8. CASE \E candle \in inbox : Receive(candle)
  BY <1>8, TypeReceive
<1>9. CASE SessionEnds
  BY <1>9, TypeSessionEnds
<1>10. CASE HandlerRaises
  BY <1>10, TypeHandlerRaises
<1>11. CASE Tick
  BY <1>11, TypeTick
<1>12. CASE \E how \in {"closed", "error"} : DropLink(how)
  BY <1>12, TypeDropLink
<1>13. CASE Start
  BY <1>13, TypeStart
<1>14. CASE Stop
  BY <1>14, TypeStop
<1>15. CASE CancelAndJoin
  BY <1>15, TypeCancelAndJoin
<1>16. CASE \E new \in SUBSET Sym : Subscribe(new)
  BY <1>16, TypeSubscribe
<1>17. CASE \E drop \in SUBSET Sym : Unsubscribe(drop)
  BY <1>17, TypeUnsubscribe
<1>18. QED
  BY <1>1, <1>2, <1>3, <1>4, <1>5, <1>6, <1>7, <1>8, <1>9, <1>10, <1>11,
     <1>12, <1>13, <1>14, <1>15, <1>16, <1>17, LiveCases

LEMMA CoverStep ==
  ASSUME FeedInv, Next
  PROVE  FeedInv'
<1>1. CASE LoopStart
  BY <1>1, CoverLoopStart
<1>2. CASE ConnectOk
  BY <1>2, CoverConnectOk
<1>3. CASE ConnectFails
  BY <1>3, CoverConnectFails
<1>4. CASE WakeUp
  BY <1>4, CoverWakeUp
<1>5. CASE \E s \in Sym : FetchOk(s) \/ FetchFails(s)
  BY <1>5, CoverFetchOk, CoverFetchFails
<1>6. CASE BackfillFails
  BY <1>6, CoverBackfillFails
<1>7. CASE \E row \in rows : EmitRow(row)
  BY <1>7, CoverEmitRow
<1>8. CASE \E candle \in inbox : Receive(candle)
  BY <1>8, CoverReceive
<1>9. CASE SessionEnds
  BY <1>9, CoverSessionEnds
<1>10. CASE HandlerRaises
  BY <1>10, CoverHandlerRaises
<1>11. CASE Tick
  BY <1>11, CoverTick
<1>12. CASE \E how \in {"closed", "error"} : DropLink(how)
  BY <1>12, CoverDropLink
<1>13. CASE Start
  BY <1>13, CoverStart
<1>14. CASE Stop
  BY <1>14, CoverStop
<1>15. CASE CancelAndJoin
  BY <1>15, CoverCancelAndJoin
<1>16. CASE \E new \in SUBSET Sym : Subscribe(new)
  BY <1>16, CoverSubscribe
<1>17. CASE \E drop \in SUBSET Sym : Unsubscribe(drop)
  BY <1>17, CoverUnsubscribe
<1>18. QED
  BY <1>1, <1>2, <1>3, <1>4, <1>5, <1>6, <1>7, <1>8, <1>9, <1>10, <1>11,
     <1>12, <1>13, <1>14, <1>15, <1>16, <1>17, LiveCases

\* Nothing is vouched for at the start.
LEMMA FeedInit == Init => FeedInv
<1> SUFFICES ASSUME Init PROVE FeedInv
  OBVIOUS
<1>1. TypeOK
  <2>1. attempt \in 0..AttemptCap /\ now \in Minute
    BY CapIsNat, ZeroIsType DEF Init
  <2>2. QED
    BY <2>1, ZeroIsType, InitialAssumption DEF Init, TypeOK, Pc, Candle
<1>2. SocketInStep /\ HandsEmpty /\ PastIsEmitted
  BY DEF Init, SocketInStep, HandsEmpty, PastIsEmitted, InSession
<1>3. \A s \in Sym : covFrom[s]..(covTo[s] - 1) = {}
  BY DEF Init, Zero
<1>4. SeamlessCoverage
  BY <1>3 DEF Init, SeamlessCoverage
<1>5. QED
  BY <1>1, <1>2, <1>4 DEF FeedInv

LEMMA FeedStutter ==
  ASSUME FeedInv, UNCHANGED vars
  PROVE  FeedInv'
<1> USE DEF vars, code, exchange, ghost
<1>1. TypeOK'
  BY DEF FeedInv, TypeOK, Candle
<1>2. SocketInStep' /\ HandsEmpty' /\ PastIsEmitted'
  BY DEF FeedInv, SocketInStep, HandsEmpty, PastIsEmitted
<1>3. \A s, m : Reaches(s, m)' <=> Reaches(s, m)
  BY DEF Reaches
<1>4. SeamlessCoverage'
  BY <1>3 DEF FeedInv, SeamlessCoverage
<1>5. QED
  BY <1>1, <1>2, <1>4 DEF FeedInv

\* Every variable keeps its type.
THEOREM TypeCorrect == Spec => []TypeOK
<1>1. Init => TypeOK
  BY FeedInit DEF FeedInv
<1>2. TypeOK /\ [Next]_vars => TypeOK'
  BY TypeStep DEF TypeOK, Candle, vars, code, exchange, ghost
<1>3. QED
  BY <1>1, <1>2, PTL DEF Spec

\* Whatever breaks, and however often: a minute the feed vouches for, from its
\* gap-fill or its stream, has been emitted or is on its way inside the feed.
THEOREM Coverage == Spec => []SeamlessCoverage
<1>1. FeedInv /\ [Next]_vars => FeedInv'
  BY CoverStep, FeedStutter
<1>2. FeedInv => SeamlessCoverage
  BY DEF FeedInv
<1>3. QED
  BY <1>1, <1>2, FeedInit, PTL DEF Spec

--------------------------------------------------------------------------------
(* Part 2: FeedFactory.                                                    *)

(* What both tasks keep between their awaits.                              *)

SimPc == {"start", "candle", "snapshot", "sleep"}

TypesOK ==
  /\ feed \in {"binance", "sim"}
  /\ running \in BOOLEAN /\ stopping \in BOOLEAN
  /\ symbols \subseteq Sym
  /\ attempt \in Nat

\* The attributes of the feed that was not built are as __init__ left them.
OtherFeedIdle ==
  /\ feed = "binance" => pc \in Pc /\ rest = {}
  /\ feed = "sim" =>
       /\ pc \in SimPc \cup {"none"}
       /\ url = {} /\ todo = {} /\ rows = {} /\ inbox = {} /\ streams = {} /\ link = "closed"
       /\ ~connected /\ attempt = 0

\* Where the task can be, given what start() and stop() have done.
TaskInStep ==
  /\ running => ~stopping /\ pc # "none"
  /\ pc \in {"start", "connecting", "backoff"} /\ feed = "binance" => running
  /\ ~running /\ ~stopping =>
       pc = "none" /\ todo = {} /\ rows = {} /\ inbox = {} /\ rest = {}

\* The socket is open inside a session only, and stop() closes it first.
SessionInStep ==
  /\ link = "up" => pc \in InSession /\ running
  /\ pc \in InSession => ws /\ connected
  /\ pc \in {"connecting", "backoff", "done"} => ~connected

\* A URL is as good as the set it was made from, until that changes.
UrlInStep == pc = "connecting" /\ ~raced => url = symbols

IInv ==
  /\ TypesOK
  /\ OtherFeedIdle
  /\ TaskInStep
  /\ SessionInStep
  /\ UrlInStep
  /\ StreamsFollowSymbols
  /\ LoopEndsAtLimit

--------------------------------------------------------------------------------
(* The steps of the live feed.                                             *)

\* A failure counts one up, and the loop is over exactly beyond the limit.
LEMMA BackOffCounts ==
  ASSUME attempt \in Nat, running, pc # "done", LoopEndsAtLimit, BackOff
  PROVE  /\ attempt' \in Nat
         /\ pc' \in {"done", "backoff"}
         /\ pc' = "done" <=> MaxReconnects # None /\ attempt' > MaxReconnects
<1>1. CASE MaxReconnects = None
  BY <1>1, LimitAssumption DEF BackOff, Least, AttemptCap
<1>2. CASE MaxReconnects # None
  <2>1. MaxReconnects \in Nat /\ attempt <= MaxReconnects
    BY <1>2, ReconnectAssumption DEF LoopEndsAtLimit
  <2>2. attempt' = attempt + 1
    BY <1>2, <2>1 DEF BackOff, Least, AttemptCap
  <2>3. QED
    BY <1>2, <2>1, <2>2 DEF BackOff
<1>3. QED
  BY <1>1, <1>2

\* With no failure yet the limit is not reached.
LEMMA NoFailureNoLimit == ~(MaxReconnects # None /\ 0 > MaxReconnects)
BY ReconnectAssumption

LEMMA InitInv == BuildFeed => IInv
<1> SUFFICES ASSUME BuildFeed PROVE IInv
  OBVIOUS
<1> USE DEF BuildFeed, Init, Sim!Init
<1>1. TypesOK
  BY InitialAssumption DEF TypesOK
<1>2. OtherFeedIdle /\ TaskInStep
  BY DEF OtherFeedIdle, TaskInStep, Pc, SimPc
<1>3. SessionInStep /\ UrlInStep /\ StreamsFollowSymbols /\ LoopEndsAtLimit
  BY DEF SessionInStep, UrlInStep, StreamsFollowSymbols, LoopEndsAtLimit, InSession
<1>4. QED
  BY <1>1, <1>2, <1>3 DEF IInv

LEMMA KeepLoopStart ==
  ASSUME IInv, Binance(LoopStart)
  PROVE  IInv'
BY NoFailureNoLimit DEF TypesOK, OtherFeedIdle, TaskInStep, SessionInStep, UrlInStep,
                        StreamsFollowSymbols, LoopEndsAtLimit, IInv, Binance, InSession, Pc,
                        code, exchange, ghost, LoopStart, LoopHead, BeginConnect

LEMMA KeepConnectOk ==
  ASSUME IInv, Binance(ConnectOk)
  PROVE  IInv'
BY NoFailureNoLimit DEF TypesOK, OtherFeedIdle, TaskInStep, SessionInStep, UrlInStep,
                        StreamsFollowSymbols, LoopEndsAtLimit, IInv, Binance, InSession, Pc,
                        code, exchange, ghost, ConnectOk

LEMMA KeepWakeUp ==
  ASSUME IInv, Binance(WakeUp)
  PROVE  IInv'
BY NoFailureNoLimit DEF TypesOK, OtherFeedIdle, TaskInStep, SessionInStep, UrlInStep,
                        StreamsFollowSymbols, LoopEndsAtLimit, IInv, Binance, InSession, Pc,
                        code, exchange, ghost, WakeUp, LoopHead, BeginConnect

LEMMA KeepBackfillFails ==
  ASSUME IInv, Binance(BackfillFails)
  PROVE  IInv'
BY NoFailureNoLimit DEF TypesOK, OtherFeedIdle, TaskInStep, SessionInStep, UrlInStep,
                        StreamsFollowSymbols, LoopEndsAtLimit, IInv, Binance, InSession, Pc,
                        code, exchange, ghost, BackfillFails

LEMMA KeepTick ==
  ASSUME IInv, Binance(Tick)
  PROVE  IInv'
BY NoFailureNoLimit DEF TypesOK, OtherFeedIdle, TaskInStep, SessionInStep, UrlInStep,
                        StreamsFollowSymbols, LoopEndsAtLimit, IInv, Binance, InSession, Pc,
                        code, exchange, ghost, Tick

LEMMA KeepStart ==
  ASSUME IInv, Binance(Start)
  PROVE  IInv'
BY NoFailureNoLimit DEF TypesOK, OtherFeedIdle, TaskInStep, SessionInStep, UrlInStep,
                        StreamsFollowSymbols, LoopEndsAtLimit, IInv, Binance, InSession, Pc,
                        code, exchange, ghost, Start

LEMMA KeepStop ==
  ASSUME IInv, Binance(Stop)
  PROVE  IInv'
<1> USE DEF IInv, Binance, Stop
<1>1. CASE stopping'
  <2>1. /\ pc \in InSession /\ ~running' /\ stopping' = TRUE
        /\ IF link = "up" THEN link' = "closed" ELSE link' = link
        /\ UNCHANGED <<feed, pc, ws, connected, symbols, url, attempt, raced, todo, rows, inbox,
                      streams, rest>>
    BY <1>1 DEF SessionInStep, TaskInStep
  <2>2. TypesOK' /\ OtherFeedIdle' /\ TaskInStep'
    BY <1>1, <2>1 DEF TypesOK, OtherFeedIdle, TaskInStep, InSession
  <2>3. SessionInStep' /\ UrlInStep' /\ StreamsFollowSymbols' /\ LoopEndsAtLimit'
    BY <1>1, <2>1 DEF SessionInStep, UrlInStep, StreamsFollowSymbols, LoopEndsAtLimit, InSession
  <2>4. QED
    BY <2>2, <2>3
<1>2. CASE ~stopping'
  <2>1. link # "up"
    BY <1>2 DEF SessionInStep
  <2>2. TypesOK' /\ OtherFeedIdle' /\ TaskInStep'
    BY <1>2 DEF TypesOK, OtherFeedIdle, TaskInStep, Cancelled, Pc
  <2>3. SessionInStep' /\ UrlInStep' /\ StreamsFollowSymbols' /\ LoopEndsAtLimit'
    BY <1>2, <2>1 DEF SessionInStep, UrlInStep, StreamsFollowSymbols, LoopEndsAtLimit,
                      Cancelled, InSession
  <2>4. QED
    BY <2>2, <2>3
<1>3. QED
  BY <1>1, <1>2 DEF TypesOK

LEMMA KeepCancelAndJoin ==
  ASSUME IInv, Binance(CancelAndJoin)
  PROVE  IInv'
BY NoFailureNoLimit DEF TypesOK, OtherFeedIdle, TaskInStep, SessionInStep, UrlInStep,
                        StreamsFollowSymbols, LoopEndsAtLimit, IInv, Binance, InSession, Pc,
                        code, exchange, ghost, CancelAndJoin, Cancelled

LEMMA KeepFetch ==
  ASSUME IInv, NEW s \in Sym, Binance(FetchOk(s) \/ FetchFails(s))
  PROVE  IInv'
BY DEF TypesOK, OtherFeedIdle, TaskInStep, SessionInStep, UrlInStep, StreamsFollowSymbols,
       LoopEndsAtLimit, IInv, Binance, InSession, Pc, code, exchange, ghost, FetchOk,
       FetchFails, NextFetch

LEMMA KeepEmitRow ==
  ASSUME IInv, NEW row \in rows, Binance(EmitRow(row))
  PROVE  IInv'
BY DEF TypesOK, OtherFeedIdle, TaskInStep, SessionInStep, UrlInStep, StreamsFollowSymbols,
       LoopEndsAtLimit, IInv, Binance, InSession, Pc, code, exchange, ghost, EmitRow

LEMMA KeepReceive ==
  ASSUME IInv, NEW candle \in inbox, Binance(Receive(candle))
  PROVE  IInv'
BY DEF TypesOK, OtherFeedIdle, TaskInStep, SessionInStep, UrlInStep, StreamsFollowSymbols,
       LoopEndsAtLimit, IInv, Binance, InSession, Pc, code, exchange, ghost, Receive

LEMMA KeepDropLink ==
  ASSUME IInv, NEW how \in {"closed", "error"}, Binance(DropLink(how))
  PROVE  IInv'
BY DEF TypesOK, OtherFeedIdle, TaskInStep, SessionInStep, UrlInStep, StreamsFollowSymbols,
       LoopEndsAtLimit, IInv, Binance, InSession, Pc, code, exchange, ghost, DropLink

LEMMA KeepSubscribe ==
  ASSUME IInv, NEW new \in SUBSET Sym, Binance(Subscribe(new))
  PROVE  IInv'
BY DEF TypesOK, OtherFeedIdle, TaskInStep, SessionInStep, UrlInStep, StreamsFollowSymbols,
       LoopEndsAtLimit, IInv, Binance, InSession, Pc, code, exchange, ghost, Subscribe

LEMMA KeepUnsubscribe ==
  ASSUME IInv, NEW drop \in SUBSET Sym, Binance(Unsubscribe(drop))
  PROVE  IInv'
BY DEF TypesOK, OtherFeedIdle, TaskInStep, SessionInStep, UrlInStep, StreamsFollowSymbols,
       LoopEndsAtLimit, IInv, Binance, InSession, Pc, code, exchange, ghost, Unsubscribe

LEMMA KeepConnectFails ==
  ASSUME IInv, Binance(ConnectFails)
  PROVE  IInv'
<1> USE DEF IInv
<1>1. running /\ pc # "done"
  BY DEF Binance, ConnectFails, TaskInStep
<1>2. /\ attempt' \in Nat /\ pc' \in {"done", "backoff"}
      /\ pc' = "done" <=> MaxReconnects # None /\ attempt' > MaxReconnects
  BY <1>1, BackOffCounts DEF Binance, ConnectFails, TypesOK
<1>3. QED
  BY <1>1, <1>2 DEF TypesOK, OtherFeedIdle, TaskInStep, SessionInStep, UrlInStep,
                    StreamsFollowSymbols, LoopEndsAtLimit, IInv, Binance, InSession, Pc,
                    code, exchange, ghost, ConnectFails

LEMMA KeepHandlerRaises ==
  ASSUME IInv, Binance(HandlerRaises)
  PROVE  IInv'
<1> USE DEF IInv
<1>1. CASE running
  <2>1. /\ attempt' \in Nat /\ pc' \in {"done", "backoff"}
        /\ pc' = "done" <=> MaxReconnects # None /\ attempt' > MaxReconnects
    BY <1>1, BackOffCounts DEF Binance, HandlerRaises, TypesOK
  <2>2. QED
    BY <1>1, <2>1 DEF TypesOK, OtherFeedIdle, TaskInStep, SessionInStep, UrlInStep,
                      StreamsFollowSymbols, LoopEndsAtLimit, IInv, Binance, InSession, Pc,
                      code, exchange, ghost, HandlerRaises
<1>2. CASE ~running
  BY <1>2 DEF TypesOK, OtherFeedIdle, TaskInStep, SessionInStep, UrlInStep,
              StreamsFollowSymbols, LoopEndsAtLimit, IInv, Binance, InSession, Pc, code,
              exchange, ghost, HandlerRaises, BackOff
<1>3. QED
  BY <1>1, <1>2

LEMMA KeepSessionEnds ==
  ASSUME IInv, Binance(SessionEnds)
  PROVE  IInv'
<1> USE DEF IInv, Binance, SessionEnds
<1>1. CASE link = "closed"
  BY <1>1, NoFailureNoLimit
     DEF TypesOK, OtherFeedIdle, TaskInStep, SessionInStep, UrlInStep, StreamsFollowSymbols,
         LoopEndsAtLimit, IInv, Binance, InSession, Pc, code, exchange, ghost, BeginConnect
<1>2. CASE link = "error" /\ running
  <2>1. /\ attempt' \in Nat /\ pc' \in {"done", "backoff"}
        /\ pc' = "done" <=> MaxReconnects # None /\ attempt' > MaxReconnects
    BY <1>2, BackOffCounts DEF TypesOK
  <2>2. QED
    BY <1>2, <2>1 DEF TypesOK, OtherFeedIdle, TaskInStep, SessionInStep, UrlInStep,
                      StreamsFollowSymbols, LoopEndsAtLimit, IInv, Binance, InSession, Pc,
                      code, exchange, ghost
<1>3. CASE link = "error" /\ ~running
  BY <1>3 DEF TypesOK, OtherFeedIdle, TaskInStep, SessionInStep, UrlInStep,
              StreamsFollowSymbols, LoopEndsAtLimit, IInv, Binance, InSession, Pc, code,
              exchange, ghost, BackOff
<1>4. QED
  BY <1>1, <1>2, <1>3

LEMMA LiveInv ==
  ASSUME IInv, Binance(Next)
  PROVE  IInv'
<1> USE DEF Binance
<1>1. CASE LoopStart
  BY <1>1, KeepLoopStart
<1>2. CASE ConnectOk
  BY <1>2, KeepConnectOk
<1>3. CASE ConnectFails
  BY <1>3, KeepConnectFails
<1>4. CASE WakeUp
  BY <1>4, KeepWakeUp
<1>5. CASE \E s \in Sym : FetchOk(s) \/ FetchFails(s)
  BY <1>5, KeepFetch
<1>6. CASE BackfillFails
  BY <1>6, KeepBackfillFails
<1>7. CASE \E row \in rows : EmitRow(row)
  BY <1>7, KeepEmitRow
<1>8. CASE \E candle \in inbox : Receive(candle)
  BY <1>8, KeepReceive
<1>9. CASE SessionEnds
  BY <1>9, KeepSessionEnds
<1>10. CASE HandlerRaises
  BY <1>10, KeepHandlerRaises
<1>11. CASE Tick
  BY <1>11, KeepTick
<1>12. CASE \E how \in {"closed", "error"} : DropLink(how)
  BY <1>12, KeepDropLink
<1>13. CASE Start
  BY <1>13, KeepStart
<1>14. CASE Stop
  BY <1>14, KeepStop
<1>15. CASE CancelAndJoin
  BY <1>15, KeepCancelAndJoin
<1>16. CASE \E new \in SUBSET Sym : Subscribe(new)
  BY <1>16, KeepSubscribe
<1>17. CASE \E drop \in SUBSET Sym : Unsubscribe(drop)
  BY <1>17, KeepUnsubscribe
<1>18. QED
  BY <1>1, <1>2, <1>3, <1>4, <1>5, <1>6, <1>7, <1>8, <1>9, <1>10, <1>11, <1>12,
     <1>13, <1>14, <1>15, <1>16, <1>17, LiveCases

--------------------------------------------------------------------------------
(* The steps of the simulated feed.                                        *)

\* The attributes of the live feed stay as __init__ left them.
LiveAttributes == <<feed, url, connected, attempt, todo, rows, link, streams, inbox, raced>>

LEMMA SimCases ==
  ASSUME IInv, Simulated(UseSim)
  PROVE  /\ feed = "sim" /\ UNCHANGED LiveAttributes
         /\ \/ Sim!BeginCycle \/ Sim!CandleTaken \/ Sim!SnapshotTaken
            \/ Sim!Start \/ Sim!Stop \/ Sim!Join
            \/ \E new \in SUBSET Sym : Sim!Subscribe(new)
            \/ \E drop \in SUBSET Sym : Sim!Unsubscribe(drop)
            \/ UNCHANGED <<running, pc, stopping, symbols, rest, board, emitted>>
BY DEF Simulated, UseSim, LiveAttributes, Sim!Next, Sim!Task, Tick, IInv, OtherFeedIdle, code

LEMMA SimInv ==
  ASSUME IInv, Simulated(UseSim)
  PROVE  IInv'
<1> USE DEF TypesOK, OtherFeedIdle, TaskInStep, SessionInStep, UrlInStep,
            StreamsFollowSymbols, LoopEndsAtLimit, IInv, LiveAttributes, InSession, SimPc
<1>1. feed = "sim" /\ UNCHANGED LiveAttributes
  BY SimCases
<1>2. CASE Sim!BeginCycle \/ Sim!CandleTaken
  BY <1>1, <1>2 DEF Sim!BeginCycle, Sim!CandleTaken, Sim!HandOn
<1>3. CASE Sim!SnapshotTaken
  BY <1>1, <1>3 DEF Sim!SnapshotTaken
<1>4. CASE Sim!Start \/ Sim!Stop \/ Sim!Join
  <2>1. CASE Sim!Start
    BY <1>1, <2>1, NoFailureNoLimit DEF Sim!Start
  <2>2. CASE Sim!Stop
    BY <1>1, <2>2 DEF Sim!Stop
  <2>3. CASE Sim!Join
    BY <1>1, <2>3 DEF Sim!Join
  <2>4. QED
    BY <1>4, <2>1, <2>2, <2>3
<1>5. CASE \E new \in SUBSET Sym : Sim!Subscribe(new)
  BY <1>1, <1>5 DEF Sim!Subscribe
<1>6. CASE \E drop \in SUBSET Sym : Sim!Unsubscribe(drop)
  BY <1>1, <1>6 DEF Sim!Unsubscribe
<1>7. CASE UNCHANGED <<running, pc, stopping, symbols, rest, board, emitted>>
  BY <1>1, <1>7
<1>8. QED
  BY <1>2, <1>3, <1>4, <1>5, <1>6, <1>7, SimCases

--------------------------------------------------------------------------------
(* The theorems.                                                           *)

LEMMA StepInv == IInv /\ [FactoryNext]_factoryVars => IInv'
<1> SUFFICES ASSUME IInv, [FactoryNext]_factoryVars PROVE IInv'
  OBVIOUS
<1>1. CASE Binance(Next)
  BY <1>1, LiveInv
<1>2. CASE Simulated(UseSim)
  BY <1>2, SimInv
<1>3. CASE UNCHANGED factoryVars
  BY <1>3 DEF factoryVars, vars, code, exchange, IInv, TypesOK, OtherFeedIdle, TaskInStep,
              SessionInStep, UrlInStep, StreamsFollowSymbols, LoopEndsAtLimit
<1>4. QED
  BY <1>1, <1>2, <1>3 DEF FactoryNext

\* The inductive invariant holds of every behaviour.
THEOREM Invariance == FactorySpec => []IInv
<1>1. QED
  BY InitInv, StepInv, PTL DEF FactorySpec

\* For any set of pairs, while a session is up and no call fell between the URL
\* and the assignment of _ws, the exchange streams exactly the tracked set.
THEOREM StreamsFollow == FactorySpec => []StreamsFollowSymbols
<1>1. IInv => StreamsFollowSymbols
  BY DEF IInv
<1>2. QED
  BY <1>1, Invariance, PTL

\* wait_connected tells the truth about every running loop.
THEOREM ConnectedTruthful == FactorySpec => []ConnectedMeansSession
<1>1. IInv => ConnectedMeansSession
  BY DEF IInv, OtherFeedIdle, TaskInStep, SessionInStep, ConnectedMeansSession, Pc,
         SimPc, InSession, TypesOK
<1>2. QED
  BY <1>1, Invariance, PTL

\* Whatever max_reconnects is, a running loop ends on the first failure beyond it
\* and on nothing else; None means never.
THEOREM EndsAtLimit == FactorySpec => []LoopEndsAtLimit
<1>1. IInv => LoopEndsAtLimit
  BY DEF IInv
<1>2. QED
  BY <1>1, Invariance, PTL

--------------------------------------------------------------------------------
(* The contract of feeds/base.py.                                          *)

\* Stopped is the phase that is neither of the other two, and nothing is under way.
LEMMA StoppedIsEmpty ==
  ASSUME IInv
  PROVE  /\ Phase = "stopped" <=> ~running /\ ~stopping
         /\ Phase = "stopped" => Due = {} /\ pc = "none" /\ link # "up"
BY DEF IInv, TypesOK, OtherFeedIdle, TaskInStep, SessionInStep, Phase, Due

\* A candle of a symbol may still come out of one of these.
LEMMA DueWhere ==
  /\ \A s : s \in Due <=>
       \/ link = "up" /\ s \in streams
       \/ pc = "connecting" /\ s \in url
       \/ s \in todo \/ s \in rest
       \/ \E r \in rows : s = r[1]
       \/ \E c \in inbox : s = c[1]
  /\ \A s : s \in Due' <=>
       \/ link' = "up" /\ s \in streams'
       \/ pc' = "connecting" /\ s \in url'
       \/ s \in todo' \/ s \in rest'
       \/ \E r \in rows' : s = r[1]
       \/ \E c \in inbox' : s = c[1]
BY DEF Due

\* A step that hands nothing on works.
LEMMA WorkStep ==
  ASSUME Phase # "stopped", UNCHANGED <<running, stopping, symbols, emitted>>,
         Due' \subseteq Due \cup symbols
  PROVE  Contract!Next
BY DEF Contract!Next, Contract!Work, Phase

\* A step that hands a candle on emits it, or works if one like it came before.
LEMMA EmitStep ==
  ASSUME NEW c, c[1] \in Due \cup symbols, emitted' = emitted \cup {c},
         Phase # "stopped", UNCHANGED <<running, stopping, symbols>>,
         Due' \subseteq Due \cup symbols
  PROVE  Contract!Next
<1>1. CASE c \in emitted
  BY <1>1, WorkStep
<1>2. CASE c \notin emitted
  <2>1. Contract!Emit
    BY <1>2 DEF Contract!Emit, Phase
  <2>2. QED
    BY <2>1 DEF Contract!Next
<1>3. QED
  BY <1>1, <1>2

\* What the task of the live feed does without handing a candle on.
LEMMA LiveWorks ==
  ASSUME IInv, Binance(\/ LoopStart \/ ConnectOk \/ ConnectFails \/ WakeUp
                       \/ BackfillFails \/ SessionEnds \/ HandlerRaises)
  PROVE  Contract!Next
<1> USE DEF Binance
<1>1. UNCHANGED <<running, stopping, symbols, emitted, rest>>
  BY DEF LoopStart, ConnectOk, ConnectFails, WakeUp, BackfillFails, SessionEnds, HandlerRaises
<1>2. Phase # "stopped"
  BY StoppedIsEmpty DEF LoopStart, ConnectOk, ConnectFails, WakeUp, BackfillFails,
                        SessionEnds, HandlerRaises
<1> DEFINE Kept == Due' \subseteq Due \cup symbols
<1>3. ASSUME LoopStart \/ WakeUp PROVE Kept
  BY <1>1, <1>3, DueWhere DEF LoopStart, WakeUp, LoopHead, BeginConnect, exchange
<1>4. ASSUME ConnectOk PROVE Kept
  BY <1>1, <1>4, DueWhere DEF ConnectOk
<1>5. ASSUME ConnectFails PROVE Kept
  BY <1>1, <1>5, DueWhere DEF ConnectFails, BackOff, exchange
<1>6. ASSUME BackfillFails PROVE Kept
  BY <1>1, <1>6, DueWhere DEF BackfillFails, exchange
<1>7. ASSUME SessionEnds PROVE Kept
  BY <1>1, <1>7, DueWhere DEF SessionEnds, BeginConnect, BackOff, exchange
<1>8. ASSUME HandlerRaises PROVE Kept
  BY <1>1, <1>8, DueWhere DEF HandlerRaises, BackOff
<1>9. QED
  BY <1>1, <1>2, <1>3, <1>4, <1>5, <1>6, <1>7, <1>8, WorkStep

\* The gap-fill's requests: what is fetched is of a symbol it was asked for.
LEMMA FetchWorks ==
  ASSUME IInv, NEW s \in Sym, Binance(FetchOk(s) \/ FetchFails(s))
  PROVE  Contract!Next
<1> USE DEF Binance
<1>1. UNCHANGED <<running, stopping, symbols, emitted, rest, link, streams, inbox, url>>
  BY DEF FetchOk, FetchFails, NextFetch, exchange
<1>2. pc = "filling" /\ pc' # "connecting" /\ s \in todo /\ todo' \subseteq todo
  BY DEF FetchOk, FetchFails, NextFetch
<1>3. \A r \in rows' : r \in rows \/ r[1] = s
  BY DEF FetchOk, FetchFails, KlineRows
<1>4. Due' \subseteq Due \cup symbols
  BY <1>1, <1>2, <1>3, DueWhere
<1>5. Phase # "stopped"
  BY <1>2, StoppedIsEmpty
<1>6. QED
  BY <1>1, <1>4, <1>5, WorkStep

\* A row is handed on if its minute is over.
LEMMA EmitRowEmits ==
  ASSUME IInv, NEW row \in rows, Binance(EmitRow(row))
  PROVE  Contract!Next
<1> DEFINE c == <<row[1], row[2]>>
<1> USE DEF Binance
<1>1. UNCHANGED <<running, stopping, symbols, rest, link, streams, inbox, url, todo>>
  BY DEF EmitRow, exchange
<1>2. pc = "emitting" /\ pc' # "connecting" /\ rows' \subseteq rows
  BY DEF EmitRow
<1>3. emitted' = emitted \/ emitted' = emitted \cup {c}
  <2>1. {q \in {row} : q[3]} = {} \/ {q \in {row} : q[3]} = {row}
    OBVIOUS
  <2>2. emitted' = emitted \cup {<<r[1], r[2]>> : r \in {q \in {row} : q[3]}}
    BY DEF EmitRow
  <2>3. CASE {q \in {row} : q[3]} = {}
    BY <2>2, <2>3
  <2>4. CASE {q \in {row} : q[3]} = {row}
    BY <2>2, <2>4
  <2>5. QED
    BY <2>1, <2>3, <2>4
<1>4. Due' \subseteq Due \cup symbols /\ c[1] \in Due
  BY <1>1, <1>2, DueWhere
<1>5. Phase # "stopped"
  BY <1>2, StoppedIsEmpty
<1>6. CASE emitted' = emitted
  BY <1>1, <1>4, <1>5, <1>6, WorkStep
<1>7. CASE emitted' = emitted \cup {c}
  BY <1>1, <1>4, <1>5, <1>7, EmitStep
<1>8. QED
  BY <1>3, <1>6, <1>7

LEMMA ReceiveEmits ==
  ASSUME IInv, NEW candle \in inbox, Binance(Receive(candle))
  PROVE  Contract!Next
<1> USE DEF Binance
<1>1. /\ UNCHANGED <<running, stopping, symbols, rest, link, streams, url, todo, rows, pc>>
      /\ inbox' \subseteq inbox /\ emitted' = emitted \cup {candle} /\ pc = "stream"
  BY DEF Receive, code
<1>2. Due' \subseteq Due \cup symbols /\ candle[1] \in Due
  BY <1>1, DueWhere
<1>3. Phase # "stopped"
  BY <1>1, StoppedIsEmpty
<1>4. QED
  BY <1>1, <1>2, <1>3, EmitStep

\* The exchange and the clock: a kline is of a stream that was asked for.
LEMMA ExchangeWorks ==
  ASSUME IInv, Binance(Tick \/ \E how \in {"closed", "error"} : DropLink(how))
  PROVE  [Contract!Next]_Contract!vars
<1> USE DEF Binance
<1>1. UNCHANGED <<running, stopping, symbols, emitted, rest, streams, url, todo, rows, pc>>
  BY DEF Tick, DropLink, code
<1>2. /\ link' = "up" => link = "up"
      /\ \A c \in inbox' : c \in inbox \/ (link = "up" /\ c[1] \in streams)
      /\ link # "up" => link' = link /\ inbox' = inbox
  BY DEF Tick, DropLink
<1>3. Due' \subseteq Due
  BY <1>1, <1>2, DueWhere
<1>4. CASE Phase = "stopped"
  <2>1. Due' = Due /\ Phase' = Phase
    BY <1>1, <1>3, <1>4, StoppedIsEmpty DEF Phase
  <2>2. QED
    BY <1>1, <2>1 DEF Contract!vars
<1>5. CASE Phase # "stopped"
  BY <1>1, <1>3, <1>5, WorkStep
<1>6. QED
  BY <1>4, <1>5

LEMMA CallsKeepContract ==
  ASSUME IInv,
         Binance(\/ Start \/ Stop \/ CancelAndJoin
                 \/ \E new \in SUBSET Sym : Subscribe(new)
                 \/ \E drop \in SUBSET Sym : Unsubscribe(drop))
  PROVE  Contract!Next
<1> USE DEF Binance, IInv
<1>1. CASE Start
  <2>1. Phase = "stopped" /\ Phase' = "running" /\ UNCHANGED <<symbols, emitted>>
    BY <1>1 DEF Start, Phase
  <2>2. Due' = {}
    BY <1>1, <2>1, StoppedIsEmpty, DueWhere DEF Start, exchange
  <2>3. QED
    BY <2>1, <2>2 DEF Contract!Next, Contract!Start
<1>2. CASE Stop
  <2>1. Phase = "running" /\ UNCHANGED <<symbols, emitted, rest>>
    BY <1>2 DEF Stop, Phase
  <2>2. CASE stopping'
    <3>1. Phase' = "stopping"
      BY <1>2, <2>2 DEF Stop, Phase
    <3>2. /\ link' = "up" => link = "up"
          /\ UNCHANGED <<pc, url, streams, todo, rows, inbox>>
      BY <1>2, <2>2 DEF Stop, TaskInStep
    <3>3. Due' \subseteq Due
      BY <2>1, <3>2, DueWhere
    <3>4. QED
      BY <2>1, <3>1, <3>3 DEF Contract!Next, Contract!Stop
  <2>3. CASE ~stopping'
    <3>1. link # "up" /\ rest = {} /\ ~stopping
      BY <1>2, <2>3 DEF SessionInStep, OtherFeedIdle, TaskInStep, Stop
    <3>2. Phase' = "stopped" /\ Due' = {}
      BY <1>2, <2>1, <2>3, <3>1, DueWhere DEF Stop, Cancelled, Phase
    <3>3. QED
      BY <2>1, <3>2 DEF Contract!Next, Contract!Stop
  <2>4. QED
    BY <2>2, <2>3
<1>3. CASE CancelAndJoin
  <2>1. ~running /\ link # "up" /\ rest = {}
    BY <1>3 DEF CancelAndJoin, TaskInStep, SessionInStep, OtherFeedIdle
  <2>2. Phase = "stopping" /\ Phase' = "stopped" /\ UNCHANGED <<symbols, emitted, rest>>
    BY <1>3, <2>1 DEF CancelAndJoin, Phase
  <2>3. Due' = {}
    BY <1>3, <2>1, <2>2, DueWhere DEF CancelAndJoin, Cancelled
  <2>4. QED
    BY <2>2, <2>3 DEF Contract!Next, Contract!Stop
<1>4. CASE \E new \in SUBSET Sym : Subscribe(new)
  <2>1. PICK new \in SUBSET Sym : Subscribe(new)
    BY <1>4
  <2>2. /\ UNCHANGED <<running, stopping, emitted, rest, link, url, todo, rows, inbox, pc>>
        /\ symbols' \subseteq Sym /\ new \subseteq symbols' /\ symbols \subseteq symbols'
        /\ streams' \subseteq streams \cup new
    BY <2>1 DEF Subscribe, TypesOK
  <2>3. Due' \subseteq Due \cup symbols' /\ (link # "up" => Due' = Due)
    BY <2>2, DueWhere
  <2>4. Phase' = Phase
    BY <2>2 DEF Phase
  <2>5. QED
    BY <2>2, <2>3, <2>4, StoppedIsEmpty DEF Contract!Next, Contract!Track
<1>5. CASE \E drop \in SUBSET Sym : Unsubscribe(drop)
  <2>1. PICK drop \in SUBSET Sym : Unsubscribe(drop)
    BY <1>5
  <2>2. /\ UNCHANGED <<running, stopping, emitted, rest, link, url, todo, rows, inbox, pc>>
        /\ symbols' \subseteq Sym /\ streams' \subseteq streams
    BY <2>1 DEF Unsubscribe, TypesOK
  <2>3. Due' \subseteq Due
    BY <2>2, DueWhere
  <2>4. Phase' = Phase
    BY <2>2 DEF Phase
  <2>5. QED
    BY <2>2, <2>3, <2>4, StoppedIsEmpty DEF Contract!Next, Contract!Track
<1>6. QED
  BY <1>1, <1>2, <1>3, <1>4, <1>5

\* Each step of the live feed is one the contract has.
LEMMA LiveContract ==
  ASSUME IInv, Binance(Next)
  PROVE  [Contract!Next]_Contract!vars
<1> USE DEF Binance
<1>1. CASE \/ LoopStart \/ ConnectOk \/ ConnectFails \/ WakeUp
           \/ BackfillFails \/ SessionEnds \/ HandlerRaises
  BY <1>1, LiveWorks
<1>2. CASE \E s \in Sym : FetchOk(s) \/ FetchFails(s)
  BY <1>2, FetchWorks
<1>3. CASE \E row \in rows : EmitRow(row)
  BY <1>3, EmitRowEmits
<1>4. CASE \E candle \in inbox : Receive(candle)
  BY <1>4, ReceiveEmits
<1>5. CASE Tick \/ \E how \in {"closed", "error"} : DropLink(how)
  BY <1>5, ExchangeWorks
<1>6. CASE \/ Start \/ Stop \/ CancelAndJoin
           \/ \E new \in SUBSET Sym : Subscribe(new)
           \/ \E drop \in SUBSET Sym : Unsubscribe(drop)
  BY <1>6, CallsKeepContract
<1>7. QED
  BY <1>1, <1>2, <1>3, <1>4, <1>5, <1>6, LiveCases

\* A cycle hands on a candle of a symbol it began with, or of one tracked now.
LEMMA CycleKeepsContract ==
  ASSUME IInv, Simulated(UseSim), Sim!BeginCycle \/ Sim!CandleTaken \/ Sim!SnapshotTaken
  PROVE  Contract!Next
<1>1. feed = "sim" /\ UNCHANGED LiveAttributes
  BY SimCases
<1>2. UNCHANGED <<running, stopping, symbols>> /\ pc' # "connecting"
  BY DEF Sim!BeginCycle, Sim!CandleTaken, Sim!SnapshotTaken, Sim!HandOn
<1>3. Phase # "stopped"
  BY DEF Phase, Sim!BeginCycle, Sim!CandleTaken, Sim!SnapshotTaken, IInv, TaskInStep
<1>4. /\ rest' \subseteq rest \cup symbols
      /\ emitted' = emitted \/ \E s \in rest \cup symbols : emitted' = emitted \cup {<<s, now>>}
  BY DEF Sim!BeginCycle, Sim!CandleTaken, Sim!SnapshotTaken, Sim!HandOn
<1>5. Due' \subseteq Due \cup symbols
  BY <1>1, <1>2, <1>4, DueWhere DEF LiveAttributes
<1>6. CASE emitted' = emitted
  BY <1>2, <1>3, <1>5, <1>6, WorkStep
<1>7. CASE \E s \in rest \cup symbols : emitted' = emitted \cup {<<s, now>>}
  <2>1. PICK s \in rest \cup symbols : emitted' = emitted \cup {<<s, now>>}
    BY <1>7
  <2>2. <<s, now>>[1] \in Due \cup symbols
    BY <2>1, DueWhere
  <2>3. QED
    BY <1>2, <1>3, <1>5, <2>1, <2>2, EmitStep
<1>8. QED
  BY <1>4, <1>6, <1>7

LEMMA SimContract ==
  ASSUME IInv, Simulated(UseSim)
  PROVE  [Contract!Next]_Contract!vars
<1>1. feed = "sim" /\ UNCHANGED LiveAttributes
  BY SimCases
<1>2. CASE Sim!BeginCycle \/ Sim!CandleTaken \/ Sim!SnapshotTaken
  BY <1>2, CycleKeepsContract
<1>3. CASE Sim!Start
  <2>1. Phase = "stopped" /\ Phase' = "running" /\ UNCHANGED <<symbols, emitted, rest>>
    BY <1>3 DEF Sim!Start, Phase
  <2>2. Due' = {}
    BY <1>1, <1>3, <2>1, StoppedIsEmpty, DueWhere DEF Sim!Start, LiveAttributes
  <2>3. QED
    BY <2>1, <2>2 DEF Contract!Next, Contract!Start
<1>4. CASE Sim!Stop
  <2>1. /\ Phase = "running" /\ Phase' = "stopping"
        /\ UNCHANGED <<symbols, emitted, rest, pc>>
    BY <1>4 DEF Sim!Stop, Phase
  <2>2. Due' \subseteq Due
    BY <1>1, <2>1, DueWhere DEF LiveAttributes
  <2>3. QED
    BY <2>1, <2>2 DEF Contract!Next, Contract!Stop
<1>5. CASE Sim!Join
  <2>1. /\ Phase = "stopping" /\ Phase' = "stopped" /\ rest' = {} /\ pc' = "none"
        /\ UNCHANGED <<symbols, emitted>>
    BY <1>5 DEF Sim!Join, Phase, IInv, TaskInStep
  <2>2. Due' = {}
    BY <1>1, <2>1, DueWhere DEF LiveAttributes, IInv, OtherFeedIdle
  <2>3. QED
    BY <2>1, <2>2 DEF Contract!Next, Contract!Stop
<1>6. CASE \/ \E new \in SUBSET Sym : Sim!Subscribe(new)
           \/ \E drop \in SUBSET Sym : Sim!Unsubscribe(drop)
  <2>1. /\ UNCHANGED <<running, stopping, pc, rest, emitted>>
        /\ symbols' \subseteq Sym
    BY <1>6 DEF Sim!Subscribe, Sim!Unsubscribe, IInv, TypesOK
  <2>2. Due' = Due /\ Phase' = Phase
    BY <1>1, <2>1, DueWhere DEF LiveAttributes, Phase, Due
  <2>3. QED
    BY <2>1, <2>2, StoppedIsEmpty DEF Contract!Next, Contract!Track
<1>7. CASE UNCHANGED <<running, pc, stopping, symbols, rest, board, emitted>>
  <2>1. Due' = Due /\ Phase' = Phase
    BY <1>1, <1>7 DEF LiveAttributes, Phase, Due
  <2>2. QED
    BY <1>7, <2>1 DEF Contract!vars
<1>8. QED
  BY <1>2, <1>3, <1>4, <1>5, <1>6, <1>7, SimCases

\* Whichever feed build_feed returns, and for any set of pairs and any limits, it
\* implements the contract of feeds/base.py.
THEOREM Refinement == FactorySpec => ImplementsContract
<1>1. BuildFeed => Contract!Init
  <2>1. BuildFeed => Due = {}
    BY DEF BuildFeed, Init, Sim!Init, Due
  <2>2. QED
    BY <2>1, InitialAssumption DEF BuildFeed, Init, Contract!Init, Phase
<1>2. IInv /\ [FactoryNext]_factoryVars => [Contract!Next]_Contract!vars
  <2> SUFFICES ASSUME IInv, [FactoryNext]_factoryVars PROVE [Contract!Next]_Contract!vars
    OBVIOUS
  <2>1. CASE Binance(Next)
    BY <2>1, LiveContract
  <2>2. CASE Simulated(UseSim)
    BY <2>2, SimContract
  <2>3. CASE UNCHANGED factoryVars
    BY <2>3 DEF factoryVars, vars, code, exchange, Contract!vars, Phase, Due
  <2>4. QED
    BY <2>1, <2>2, <2>3 DEF FactoryNext
<1>3. QED
  BY <1>1, <1>2, Invariance, PTL DEF FactorySpec, ImplementsContract, Contract!Spec

--------------------------------------------------------------------------------
(* Part 3: Ingest.                                                         *)

RowType == [key : Candle, final : BOOLEAN]

StoreTypes ==
  /\ service \in {"down", "up", "stopping", "draining"}
  /\ pending \in Seq(RowType)
  /\ table \in [Candle -> {"none", "partial", "final"}]

\* A half-finished row is of a minute that was not final anywhere when it was
\* fetched, and nothing of its pair is emitted as final while it is in hand.
RowsInStep ==
  /\ \A r \in rows :
       /\ r[2] <= now
       /\ r[3] => r[2] < now
       /\ ~r[3] => <<r[1], r[2]>> \notin emitted /\ <<r[1], r[2], TRUE>> \notin rows
  /\ \A c \in emitted \cup inbox : c[2] < now
  /\ \A s \in todo : \A r \in rows : r[1] # s
  /\ pc # "filling" => todo = {}

\* Where run() is, and the feed it has started.
ServiceInStep ==
  /\ service = "up" <=> running
  /\ stopping => service = "stopping"
  /\ ~running /\ ~stopping => pc = "none"
  /\ service = "down" => pending = <<>>

\* A minute that is final in the table, from whichever process, is over, and no
\* half-finished row of it is in the feed's hands.
TableInStep ==
  \A c \in Candle : table[c] = "final" => c[2] < now /\ <<c[1], c[2], FALSE>> \notin rows

\* A half-finished row in the writer is ahead of every final row of its minute,
\* and the table has no final row of it.
StoredInStep ==
  /\ \A i \in 1..Len(pending) :
       IF pending[i].final THEN pending[i].key \in emitted
                           ELSE table[pending[i].key] # "final"
  /\ \A i, j \in 1..Len(pending) :
       /\ pending[i].key = pending[j].key
       /\ pending[j].final /\ ~pending[i].final
       => i < j

ServiceInv ==
  /\ FeedInv /\ StoreTypes /\ RowsInStep /\ ServiceInStep /\ TableInStep /\ StoredInStep
  /\ EmittedIsAccounted

--------------------------------------------------------------------------------
(* The table.                                                              *)

\* A set of indexes that is not empty has a last one.
LEMMA LastIndex ==
  ASSUME NEW n \in Nat, NEW hits \in SUBSET (1..n), hits # {}
  PROVE  \E i \in hits : \A j \in hits : j <= i
<1> DEFINE T == {n - i : i \in hits}
<1>1. T \in SUBSET Nat /\ T # {}
  <2>1. \A i \in hits : n - i \in Nat
    OBVIOUS
  <2>2. QED
    BY <2>1
<1>2. PICK x \in T : \A y \in T : x <= y
  <2> HIDE DEF T
  <2>1. QED
    BY <1>1, NatLeast
<1>3. PICK i \in hits : x = n - i
  BY <1>2
<1>4. ASSUME NEW j \in hits PROVE j <= i
  <2>1. n - j \in T /\ x <= n - j
    BY <1>2
  <2>2. QED
    BY <1>3, <2>1
<1>5. QED
  BY <1>4

\* What a batch makes of a key is what its last row of the key says.
LEMMA UpsertFacts ==
  ASSUME NEW batch \in Seq(RowType), NEW c \in Candle,
         table \in [Candle -> {"none", "partial", "final"}]
  PROVE  \/ /\ \A i \in 1..Len(batch) : batch[i].key # c
            /\ Upsert(batch)[c] = table[c]
         \/ \E last \in 1..Len(batch) :
              /\ batch[last].key = c
              /\ \A j \in 1..Len(batch) : batch[j].key = c => j <= last
              /\ Upsert(batch)[c] = IF batch[last].final THEN "final" ELSE "partial"
<1> DEFINE hits == {i \in 1..Len(batch) : batch[i].key = c}
           last == CHOOSE i \in hits : \A j \in hits : j <= i
<1>1. Len(batch) \in Nat /\ hits \in SUBSET (1..Len(batch))
  BY LenProperties
<1>2. Upsert(batch)[c] = IF hits = {} THEN table[c]
                         ELSE IF batch[last].final THEN "final" ELSE "partial"
  BY DEF Upsert
<1>3. CASE hits = {}
  BY <1>2, <1>3
<1>4. CASE hits # {}
  <2>1. last \in hits /\ \A j \in hits : j <= last
    <3> HIDE DEF hits
    <3>1. \E i \in hits : \A j \in hits : j <= i
      BY <1>1, <1>4, LastIndex
    <3>2. QED
      BY <3>1
  <2>2. QED
    BY <1>2, <1>4, <2>1
<1>5. QED
  BY <1>3, <1>4

LEMMA UpsertType ==
  ASSUME NEW batch, table \in [Candle -> {"none", "partial", "final"}]
  PROVE  Upsert(batch) \in [Candle -> {"none", "partial", "final"}]
BY DEF Upsert

--------------------------------------------------------------------------------
(* The rows of the gap-fill.                                               *)

LEMMA RowsLoopStart ==
  ASSUME FeedInv, RowsInStep, LoopStart
  PROVE  RowsInStep'
BY DEF RowsInStep, FeedInv, HandsEmpty, InSession, TypeOK, LoopStart, LoopHead, code, exchange

LEMMA RowsConnectOk ==
  ASSUME FeedInv, RowsInStep, ConnectOk
  PROVE  RowsInStep'
BY DEF RowsInStep, FeedInv, HandsEmpty, InSession, TypeOK, ConnectOk, code, exchange

LEMMA RowsConnectFails ==
  ASSUME FeedInv, RowsInStep, ConnectFails
  PROVE  RowsInStep'
BY DEF RowsInStep, FeedInv, HandsEmpty, InSession, TypeOK, ConnectFails, BackOff, code, exchange

LEMMA RowsWakeUp ==
  ASSUME FeedInv, RowsInStep, WakeUp
  PROVE  RowsInStep'
BY DEF RowsInStep, FeedInv, HandsEmpty, InSession, TypeOK, WakeUp, LoopHead, code, exchange

LEMMA RowsBackfillFails ==
  ASSUME FeedInv, RowsInStep, BackfillFails
  PROVE  RowsInStep'
BY DEF RowsInStep, FeedInv, HandsEmpty, InSession, TypeOK, BackfillFails, code, exchange

LEMMA RowsSessionEnds ==
  ASSUME FeedInv, RowsInStep, SessionEnds
  PROVE  RowsInStep'
BY DEF RowsInStep, FeedInv, HandsEmpty, InSession, TypeOK, SessionEnds, BackOff, code, exchange

LEMMA RowsHandlerRaises ==
  ASSUME FeedInv, RowsInStep, HandlerRaises
  PROVE  RowsInStep'
BY DEF RowsInStep, FeedInv, HandsEmpty, InSession, TypeOK, HandlerRaises, BackOff, code,
       exchange

LEMMA RowsStart ==
  ASSUME FeedInv, RowsInStep, Start
  PROVE  RowsInStep'
BY DEF RowsInStep, FeedInv, HandsEmpty, InSession, TypeOK, Start, code, exchange

LEMMA RowsStop ==
  ASSUME FeedInv, RowsInStep, Stop
  PROVE  RowsInStep'
BY DEF RowsInStep, FeedInv, HandsEmpty, InSession, TypeOK, Stop, Cancelled, code, exchange

LEMMA RowsCancelAndJoin ==
  ASSUME FeedInv, RowsInStep, CancelAndJoin
  PROVE  RowsInStep'
BY DEF RowsInStep, FeedInv, HandsEmpty, InSession, TypeOK, CancelAndJoin, Cancelled, code,
       exchange

LEMMA RowsDropLink ==
  ASSUME FeedInv, RowsInStep, NEW how \in {"closed", "error"}, DropLink(how)
  PROVE  RowsInStep'
BY DEF RowsInStep, FeedInv, HandsEmpty, InSession, TypeOK, DropLink, code, exchange

LEMMA RowsReceive ==
  ASSUME FeedInv, RowsInStep, NEW candle \in inbox, Receive(candle)
  PROVE  RowsInStep'
BY DEF RowsInStep, FeedInv, HandsEmpty, Receive, code

LEMMA RowsTick ==
  ASSUME FeedInv, RowsInStep, Tick
  PROVE  RowsInStep'
<1>1. now \in Nat /\ now' = now + 1 /\ UNCHANGED <<rows, todo, pc, emitted>>
  BY DEF Tick, code, FeedInv, TypeOK, Minute
<1>2. \A r \in rows : r[2] \in Nat
  BY DEF FeedInv, TypeOK, Minute
<1>3. \A c \in emitted \cup inbox : c[2] \in Nat
  BY DEF FeedInv, TypeOK, Minute, Candle
<1>4. \A c \in inbox' : c \in inbox \/ c[2] = now
  BY DEF Tick
<1>5. \A c \in (emitted \cup inbox)' : c[2] < now'
  BY <1>1, <1>3, <1>4 DEF RowsInStep
<1>6. ASSUME NEW r \in rows
      PROVE  r[2] <= now' /\ (r[3] => r[2] < now')
  <2>1. r[2] \in Nat /\ r[2] <= now /\ (r[3] => r[2] < now)
    BY <1>2 DEF RowsInStep
  <2>2. r[2] < now'
    BY <1>1, <2>1
  <2>3. QED
    BY <1>1, <2>1, <2>2
<1>7. QED
  BY <1>1, <1>5, <1>6 DEF RowsInStep

LEMMA RowsEmitRow ==
  ASSUME FeedInv, RowsInStep, NEW row \in rows, EmitRow(row)
  PROVE  RowsInStep'
<1>1. /\ UNCHANGED <<now, inbox, todo>> /\ rows' = rows \ {row}
      /\ pc = "emitting" /\ pc' # "filling" /\ todo = {}
  BY DEF EmitRow, exchange, RowsInStep
<1>2. emitted' = emitted \/ (row[3] /\ emitted' = emitted \cup {<<row[1], row[2]>>})
  <2> DEFINE handed == {<<r[1], r[2]>> : r \in {q \in {row} : q[3]}}
  <2>1. emitted' = emitted \cup handed
    BY DEF EmitRow
  <2>2. CASE row[3]
    <3>1. {q \in {row} : q[3]} = {row}
      BY <2>2
    <3>2. QED
      BY <2>1, <2>2, <3>1
  <2>3. CASE ~row[3]
    <3>1. {q \in {row} : q[3]} = {}
      BY <2>3
    <3>2. handed = {}
      BY <3>1
    <3> HIDE DEF handed
    <3>3. QED
      BY <2>1, <3>2
  <2>4. QED
    BY <2>2, <2>3
<1>3. ASSUME NEW r \in rows', ~r[3], row[3], r[1] = row[1], r[2] = row[2]
      PROVE  FALSE
  <2>1. row = <<r[1], r[2], TRUE>>
    <3>1. row \in Sym \X Minute \X BOOLEAN
      BY DEF FeedInv, TypeOK
    <3>2. PICK t \in Sym, m \in Minute, f \in BOOLEAN : row = <<t, m, f>>
      BY <3>1
    <3>3. t = r[1] /\ m = r[2] /\ f = TRUE
      BY <1>3, <3>2
    <3>4. QED
      BY <3>2, <3>3
  <2>2. QED
    BY <1>1, <1>3, <2>1 DEF RowsInStep
<1>4. \A r \in rows' : ~r[3] => <<r[1], r[2]>> \notin emitted'
  BY <1>1, <1>2, <1>3 DEF RowsInStep
<1>5. \A c \in (emitted \cup inbox)' : c[2] < now'
  <2>1. <<row[1], row[2]>>[2] = row[2] /\ (row[3] => row[2] < now)
    BY DEF RowsInStep
  <2>2. QED
    BY <1>1, <1>2, <2>1 DEF RowsInStep
<1>6. QED
  BY <1>1, <1>4, <1>5 DEF RowsInStep

\* Of the minutes the exchange has rows of, only the one in progress is not final.
LEMMA KlineRowFacts ==
  ASSUME TypeOK, NEW s \in Sym
  PROVE  \A r \in KlineRows(s) :
           r[1] = s /\ r[2] <= now /\ (r[3] => r[2] < now) /\ (~r[3] => r[2] = now)
<1>1. now \in Nat /\ Most(0, now - BackfillLimit + 1) \in Int
  BY LimitAssumption DEF Most, TypeOK, Minute
<1>2. TAKE r \in KlineRows(s)
<1>3. PICK m \in Most(0, now - BackfillLimit + 1)..now : r = <<s, m, m < now>>
  BY DEF KlineRows
<1>4. m \in Int /\ m <= now
  BY <1>1
<1>5. CASE m < now
  BY <1>3, <1>4, <1>5
<1>6. CASE ~(m < now)
  <2>1. m = now
    BY <1>1, <1>4, <1>6
  <2>2. r[1] = s /\ r[2] = m /\ ~r[3]
    BY <1>3, <1>6
  <2>3. QED
    BY <1>4, <2>1, <2>2
<1>7. QED
  BY <1>5, <1>6

\* Rows of a symbol that was still to ask for, all of them or the first few.
LEMMA RowsFetched ==
  ASSUME FeedInv, RowsInStep, NEW s \in Sym, NEW got \in SUBSET KlineRows(s),
         rows' = rows \cup got, NextFetch(s)
  PROVE  RowsInStep'
<1>1. /\ UNCHANGED <<now, inbox, emitted>> /\ todo' = todo \ {s} /\ s \in todo
      /\ rows' = rows \cup got /\ (pc' # "filling" => todo' = {}) /\ now \in Nat
  BY DEF NextFetch, exchange, FeedInv, TypeOK, Minute
<1>2. \A r \in KlineRows(s) :
        r[1] = s /\ r[2] <= now /\ (r[3] => r[2] < now) /\ (~r[3] => r[2] = now)
  BY KlineRowFacts DEF FeedInv
<1>3. \A r \in rows : r[1] # s
  BY <1>1 DEF RowsInStep
<1>4. ASSUME NEW r \in rows', ~r[3]
      PROVE  <<r[1], r[2]>> \notin emitted /\ <<r[1], r[2], TRUE>> \notin rows'
  <2>1. CASE r \in rows
    BY <1>1, <1>2, <1>3, <1>4, <2>1 DEF RowsInStep
  <2>2. CASE r \in got
    <3>1. r[1] = s /\ r[2] = now
      BY <1>2, <1>4, <2>2
    <3>2. <<s, now>> \notin emitted
      <4>1. <<s, now>>[2] = now
        OBVIOUS
      <4>2. QED
        BY <1>1, <4>1 DEF RowsInStep
    <3>3. <<s, now, TRUE>> \notin rows'
      <4>1. <<s, now, TRUE>>[1] = s /\ <<s, now, TRUE>>[2] = now /\ <<s, now, TRUE>>[3]
        OBVIOUS
      <4>2. <<s, now, TRUE>> \notin rows
        BY <1>3, <4>1
      <4>3. <<s, now, TRUE>> \notin KlineRows(s)
        <5>1. SUFFICES ASSUME <<s, now, TRUE>> \in KlineRows(s) PROVE FALSE
          OBVIOUS
        <5>2. <<s, now, TRUE>>[2] < now
          BY <1>2, <4>1, <5>1
        <5>3. QED
          BY <1>1, <4>1, <5>2
      <4>4. QED
        BY <1>1, <4>2, <4>3
    <3>4. QED
      BY <3>1, <3>2, <3>3
  <2>3. QED
    BY <1>1, <2>1, <2>2
<1>5. QED
  BY <1>1, <1>2, <1>3, <1>4 DEF RowsInStep

LEMMA RowsFetchOk ==
  ASSUME FeedInv, RowsInStep, NEW s \in Sym, FetchOk(s)
  PROVE  RowsInStep'
BY RowsFetched DEF FetchOk

LEMMA RowsFetchFails ==
  ASSUME FeedInv, RowsInStep, NEW s \in Sym, FetchFails(s)
  PROVE  RowsInStep'
<1>1. PICK bad \in 0..now : rows' = rows \cup {row \in KlineRows(s) : row[2] < bad}
  BY DEF FetchFails
<1>2. {row \in KlineRows(s) : row[2] < bad} \in SUBSET KlineRows(s)
  OBVIOUS
<1>3. QED
  BY <1>1, <1>2, RowsFetched DEF FetchFails

--------------------------------------------------------------------------------
(* The writer and the table.                                               *)

\* A row that is queued behind the others.
LEMMA HandleStored ==
  ASSUME ServiceInv, NEW c \in Candle, NEW f \in BOOLEAN, Handle(Row(c, f)),
         f => emitted' = emitted \cup {c},
         ~f => emitted' = emitted /\ c \notin emitted /\ table[c] # "final",
         UNCHANGED service
  PROVE  StoreTypes' /\ StoredInStep' /\ EmittedIsAccounted'
<1> DEFINE L == Len(pending)
<1>1. pending \in Seq(RowType) /\ L \in Nat
  BY LenProperties DEF ServiceInv, StoreTypes
<1>2. Row(c, f) \in RowType /\ Row(c, f).key = c /\ Row(c, f).final = f
  BY DEF Row, RowType
<1>3. /\ pending' \in Seq(RowType) /\ Len(pending') = L + 1
      /\ pending'[L + 1] = Row(c, f)
      /\ \A i \in 1..L : pending'[i] = pending[i]
  BY <1>1, <1>2 DEF Handle
<1>4. UNCHANGED <<table, dropped>>
  BY DEF Handle
<1>5. StoreTypes'
  BY <1>3, <1>4 DEF ServiceInv, StoreTypes
<1>6. /\ emitted \subseteq emitted' /\ (f => c \in emitted')
      /\ ~f => c \notin emitted /\ emitted' = emitted /\ table[c] # "final"
  OBVIOUS
<1> HIDE DEF L
<1>7. \A i \in 1..(L + 1) : i \in 1..L \/ i = L + 1
  BY <1>1
<1>8. ASSUME NEW i \in 1..(L + 1)
      PROVE  IF pending'[i].final THEN pending'[i].key \in emitted'
                                  ELSE table'[pending'[i].key] # "final"
  <2>1. CASE i \in 1..L
    BY <1>3, <1>4, <1>6, <2>1 DEF ServiceInv, StoredInStep, L
  <2>2. CASE i = L + 1
    BY <1>2, <1>3, <1>4, <1>6, <2>2 DEF ServiceInv, StoredInStep
  <2>3. QED
    BY <1>7, <2>1, <2>2
<1>9. ASSUME NEW i \in 1..(L + 1), NEW j \in 1..(L + 1),
             pending'[i].key = pending'[j].key, pending'[j].final, ~pending'[i].final
      PROVE  i < j
  <2>1. CASE i \in 1..L /\ j \in 1..L
    BY <1>3, <1>9, <2>1 DEF ServiceInv, StoredInStep, L
  <2>2. CASE i \in 1..L /\ j = L + 1
    BY <1>1, <2>2
  <2>3. CASE i = L + 1 /\ j \in 1..L
    <3>1. c = pending[j].key /\ pending[j].final /\ ~f
      BY <1>2, <1>3, <1>9, <2>3
    <3>2. pending[j].key \in emitted
      BY <2>3, <3>1 DEF ServiceInv, StoredInStep, L
    <3>3. QED
      BY <1>6, <3>1, <3>2
  <2>4. CASE i = L + 1 /\ j = L + 1
    BY <1>9, <2>4
  <2>5. QED
    BY <1>7, <2>1, <2>2, <2>3, <2>4
<1>10. StoredInStep'
  BY <1>3, <1>4, <1>6, <1>8, <1>9 DEF ServiceInv, StoredInStep
<1>11. ASSUME NEW e \in emitted'
       PROVE  \/ table'[e] = "final"
              \/ \E i \in 1..(L + 1) : pending'[i] = Row(e, TRUE)
              \/ e \in dropped'
  <2>1. CASE e \in emitted
    <3>1. CASE \E i \in 1..L : pending[i] = Row(e, TRUE)
      <4>1. PICK i \in 1..L : pending[i] = Row(e, TRUE)
        BY <3>1
      <4>2. i \in 1..(L + 1)
        BY <1>1
      <4>3. pending'[i] = Row(e, TRUE)
        BY <1>3, <4>1
      <4>4. QED
        BY <4>2, <4>3
    <3>2. QED
      BY <1>4, <2>1, <3>1 DEF ServiceInv, EmittedIsAccounted, L
  <2>2. CASE e \notin emitted
    <3>1. e = c /\ f = TRUE
      BY <1>11, <2>2
    <3>2. L + 1 \in 1..(L + 1) /\ pending'[L + 1] = Row(e, TRUE)
      BY <1>1, <1>3, <3>1
    <3>3. QED
      BY <3>2
  <2>3. QED
    BY <2>1, <2>2
<1>12. EmittedIsAccounted'
  BY <1>3, <1>11 DEF EmittedIsAccounted
<1>13. QED
  BY <1>5, <1>10, <1>12

\* The sink call over the oldest rows ends.
LEMMA FlushStored ==
  ASSUME ServiceInv, NEW n \in 1..Len(pending), Flush(n)
  PROVE  /\ StoreTypes' /\ StoredInStep' /\ EmittedIsAccounted'
         /\ \A c \in Candle : table[c] = "final" => table'[c] = "final"
         /\ \A c \in Candle : table'[c] = "final" => table[c] = "final" \/ c \in emitted
<1> DEFINE L == Len(pending)
           batch == SubSeq(pending, 1, n)
<1>1. pending \in Seq(RowType) /\ L \in Nat /\ n \in Nat /\ n <= L
  BY LenProperties DEF ServiceInv, StoreTypes
<1>2. \A i \in 1..L : pending[i] \in RowType
  BY <1>1, ElementOfSeq
<1>3. /\ batch \in Seq(RowType) /\ Len(batch) = n
      /\ \A i \in 1..n : batch[i] = pending[i]
  BY <1>1, <1>2, SubSeqProperties
<1>4. /\ pending' \in Seq(RowType) /\ Len(pending') = L - n
      /\ \A i \in 1..(L - n) : pending'[i] = pending[i + n]
  <2>1. pending' = SubSeq(pending, n + 1, L)
    BY DEF Flush
  <2>2. \A i \in (n + 1)..L : pending[i] \in RowType
    BY <1>1, <1>2
  <2>3. /\ SubSeq(pending, n + 1, L) \in Seq(RowType)
        /\ Len(SubSeq(pending, n + 1, L)) = IF n + 1 <= L THEN L - (n + 1) + 1 ELSE 0
        /\ \A i \in 1..(L - (n + 1) + 1) : SubSeq(pending, n + 1, L)[i] = pending[n + 1 + i - 1]
    BY <1>1, <2>2, SubSeqProperties
  <2>4. /\ (IF n + 1 <= L THEN L - (n + 1) + 1 ELSE 0) = L - n
        /\ L - (n + 1) + 1 = L - n
        /\ \A i \in 1..(L - n) : n + 1 + i - 1 = i + n
    BY <1>1
  <2> HIDE DEF L
  <2>5. \A i \in 1..(L - n) : pending'[i] = pending[n + 1 + i - 1]
    BY <2>1, <2>3, <2>4
  <2>6. QED
    BY <2>1, <2>3, <2>4, <2>5
<1>5. UNCHANGED <<service, emitted>>
  BY DEF Flush, feedVars, vars
<1>6. \/ table' = Upsert(batch) /\ dropped' = dropped
      \/ table' = table /\ dropped' = dropped \cup Finals(batch)
  BY DEF Flush
<1>7. table \in [Candle -> {"none", "partial", "final"}]
  BY DEF ServiceInv, StoreTypes
<1> HIDE DEF L, batch
\* What the batch says of a key.
<1>8. ASSUME NEW c \in Candle, table' = Upsert(batch)
      PROVE  \/ /\ \A i \in 1..n : pending[i].key # c
                /\ table'[c] = table[c]
             \/ \E last \in 1..n :
                  /\ pending[last].key = c
                  /\ \A j \in 1..n : pending[j].key = c => j <= last
                  /\ table'[c] = IF pending[last].final THEN "final" ELSE "partial"
  BY <1>3, <1>7, <1>8, UpsertFacts
<1>9. 1..n \subseteq 1..L
  BY <1>1
<1>10. ASSUME NEW c \in Candle, table[c] = "final"
       PROVE  table'[c] = "final"
  <2>1. \A i \in 1..L : pending[i].key = c => pending[i].final
    BY <1>10 DEF ServiceInv, StoredInStep, L
  <2>2. QED
    BY <1>6, <1>8, <1>9, <1>10, <2>1
<1>11. ASSUME NEW c \in Candle, table'[c] = "final"
       PROVE  /\ table[c] = "final" \/ c \in emitted
              /\ \A k \in (n + 1)..L : pending[k].key = c => pending[k].final
  <2>1. CASE table[c] = "final"
    <3>1. \A k \in (n + 1)..L : k \in 1..L
      BY <1>1
    <3>2. QED
      BY <2>1, <3>1 DEF ServiceInv, StoredInStep, L
  <2>2. CASE table[c] # "final"
    <3>1. PICK last \in 1..n : pending[last].key = c /\ pending[last].final
      BY <1>6, <1>8, <1>11, <2>2
    <3>2. c \in emitted
      BY <1>9, <3>1 DEF ServiceInv, StoredInStep, L
    <3>3. ASSUME NEW k \in (n + 1)..L, pending[k].key = c, ~pending[k].final
          PROVE  FALSE
      <4>1. k \in 1..L /\ last \in 1..L /\ ~(k < last)
        BY <1>1
      <4>2. QED
        BY <3>1, <3>3, <4>1 DEF ServiceInv, StoredInStep, L
    <3>4. QED
      BY <3>2, <3>3
  <2>3. QED
    BY <2>1, <2>2
<1>12. \A i \in 1..(L - n) : i + n \in (n + 1)..L /\ i + n \in 1..L
  BY <1>1
<1>13. StoreTypes'
  BY <1>4, <1>5, <1>6, <1>7, UpsertType DEF ServiceInv, StoreTypes
<1>14. StoredInStep'
  <2>1. ASSUME NEW i \in 1..(L - n)
        PROVE  IF pending'[i].final THEN pending'[i].key \in emitted'
                                    ELSE table'[pending'[i].key] # "final"
    <3>1. CASE pending'[i].final
      BY <1>4, <1>5, <1>12, <3>1 DEF ServiceInv, StoredInStep, L
    <3>2. CASE ~pending'[i].final
      <4>1. pending[i + n].key \in Candle /\ ~pending[i + n].final
        BY <1>2, <1>4, <1>12, <3>2 DEF RowType
      <4>2. table'[pending[i + n].key] # "final"
        BY <1>11, <1>12, <4>1
      <4>3. QED
        BY <1>4, <3>2, <4>2
    <3>3. QED
      BY <3>1, <3>2
  <2>2. ASSUME NEW i \in 1..(L - n), NEW j \in 1..(L - n),
               pending'[i].key = pending'[j].key, pending'[j].final, ~pending'[i].final
        PROVE  i < j
    <3>1. i + n < j + n
      BY <1>4, <1>12, <2>2 DEF ServiceInv, StoredInStep, L
    <3>2. QED
      BY <1>1, <3>1
  <2>3. QED
    BY <1>4, <1>5, <2>1, <2>2 DEF StoredInStep
<1>15. EmittedIsAccounted'
  <2>1. SUFFICES ASSUME NEW c \in emitted, table[c] # "final", c \notin dropped
                 PROVE  \/ table'[c] = "final"
                        \/ \E i \in 1..(L - n) : pending'[i] = Row(c, TRUE)
                        \/ c \in dropped'
    <3>1. emitted \subseteq Candle
      BY DEF ServiceInv, FeedInv, TypeOK
    <3>2. QED
      BY <1>4, <1>5, <1>6, <1>10, <3>1 DEF EmittedIsAccounted
  <2>2. PICK k \in 1..L : pending[k] = Row(c, TRUE)
    BY <2>1 DEF ServiceInv, EmittedIsAccounted, L
  <2>3. pending[k].key = c /\ pending[k].final = TRUE /\ c \in Candle
    BY <2>2 DEF Row, ServiceInv, FeedInv, TypeOK
  <2>4. CASE k > n
    <3>1. k - n \in 1..(L - n) /\ (k - n) + n = k
      BY <1>1, <2>4
    <3>2. pending'[k - n] = Row(c, TRUE)
      BY <1>4, <2>2, <3>1
    <3>3. QED
      BY <3>1, <3>2
  <2>5. CASE k <= n
    <3>1. k \in 1..n
      BY <1>1, <2>5
    <3>2. CASE table' = Upsert(batch)
      <4>1. PICK last \in 1..n :
               /\ pending[last].key = c
               /\ \A j \in 1..n : pending[j].key = c => j <= last
               /\ table'[c] = IF pending[last].final THEN "final" ELSE "partial"
        BY <1>8, <2>3, <3>1, <3>2
      <4>2. k <= last /\ ~(last < k) /\ last \in 1..L
        BY <1>1, <2>3, <3>1, <4>1
      <4>3. pending[last].final
        BY <2>3, <4>1, <4>2 DEF ServiceInv, StoredInStep, L
      <4>4. QED
        BY <4>1, <4>3
    <3>3. CASE dropped' = dropped \cup Finals(batch)
      <4>1. c \in Finals(batch)
        BY <1>3, <2>3, <3>1 DEF Finals
      <4>2. QED
        BY <3>3, <4>1
    <3>4. QED
      BY <1>6, <3>2, <3>3
  <2>6. k > n \/ k <= n
    BY <1>1
  <2>7. QED
    BY <2>4, <2>5, <2>6
<1>16. QED
  BY <1>10, <1>11, <1>13, <1>14, <1>15

--------------------------------------------------------------------------------
(* The steps.                                                              *)

\* A step that leaves the store and the emissions alone.
LEMMA StoreKept ==
  ASSUME ServiceInv, UNCHANGED <<pending, table, dropped, emitted>>,
         service' \in {"down", "up", "stopping", "draining"}
  PROVE  StoreTypes' /\ StoredInStep' /\ EmittedIsAccounted'
BY DEF ServiceInv, StoreTypes, StoredInStep, EmittedIsAccounted

\* Nothing half-finished comes into the feed's hands but rows of the minute in
\* progress, which no table holds as final.
LEMMA TableKept ==
  ASSUME ServiceInv, UNCHANGED table, now' >= now, now' \in Nat,
         \A r \in rows' : r \in rows \/ r[3] \/ r[2] = now
  PROVE  TableInStep'
<1>1. now \in Nat /\ \A c \in Candle : c[2] \in Nat
  BY DEF ServiceInv, FeedInv, TypeOK, Minute, Candle
<1>2. SUFFICES ASSUME NEW c \in Candle, table[c] = "final"
               PROVE  c[2] < now' /\ <<c[1], c[2], FALSE>> \notin rows'
  BY DEF TableInStep
<1>3. c[2] < now /\ <<c[1], c[2], FALSE>> \notin rows
  BY <1>2 DEF ServiceInv, TableInStep
<1> DEFINE r == <<c[1], c[2], FALSE>>
<1>4. r[2] = c[2] /\ r[3] = FALSE /\ r \notin rows
  BY <1>3
<1>5. c[2] # now
  BY <1>1, <1>3
<1>6. r \notin rows'
  <2> HIDE DEF r
  <2>1. QED
    BY <1>4, <1>5
<1>7. c[2] < now'
  BY <1>1, <1>3
<1>8. QED
  BY <1>6, <1>7

\* A step of the feed alone.
LEMMA KeepFeedStep ==
  ASSUME ServiceInv, FeedStep
  PROVE  ServiceInv'
<1>1. FeedInv /\ RowsInStep
  BY DEF ServiceInv
<1>2. /\ FeedInv' /\ RowsInStep'
      /\ pc # "none" /\ UNCHANGED <<running, stopping, emitted>>
  <2>1. CASE LoopStart
    BY <1>1, <2>1, CoverLoopStart, RowsLoopStart DEF LoopStart
  <2>2. CASE ConnectOk
    BY <1>1, <2>2, CoverConnectOk, RowsConnectOk DEF ConnectOk
  <2>3. CASE ConnectFails
    BY <1>1, <2>3, CoverConnectFails, RowsConnectFails DEF ConnectFails
  <2>4. CASE WakeUp
    BY <1>1, <2>4, CoverWakeUp, RowsWakeUp DEF WakeUp
  <2>5. CASE \E s \in Sym : FetchOk(s)
    BY <1>1, <2>5, CoverFetchOk, RowsFetchOk DEF FetchOk, NextFetch
  <2>6. CASE \E s \in Sym : FetchFails(s)
    BY <1>1, <2>6, CoverFetchFails, RowsFetchFails DEF FetchFails, NextFetch
  <2>7. CASE BackfillFails
    BY <1>1, <2>7, CoverBackfillFails, RowsBackfillFails DEF BackfillFails
  <2>8. CASE SessionEnds
    BY <1>1, <2>8, CoverSessionEnds, RowsSessionEnds DEF SessionEnds
  <2>9. CASE HandlerRaises
    BY <1>1, <2>9, CoverHandlerRaises, RowsHandlerRaises DEF HandlerRaises
  <2>10. QED
    BY <2>1, <2>2, <2>3, <2>4, <2>5, <2>6, <2>7, <2>8, <2>9 DEF FeedStep
<1>3. UNCHANGED <<service, pending, table, dropped>>
  BY DEF FeedStep, store
<1>4. ServiceInStep'
  BY <1>2, <1>3 DEF ServiceInv, ServiceInStep
<1>5. StoreTypes' /\ StoredInStep' /\ EmittedIsAccounted'
  BY <1>2, <1>3, StoreKept DEF ServiceInv, StoreTypes
<1>6. now' = now /\ \A r \in rows' : r \in rows \/ r[3] \/ r[2] = now
  <2>1. CASE \E s \in Sym : FetchOk(s) \/ FetchFails(s)
    <3>1. PICK s \in Sym : FetchOk(s) \/ FetchFails(s)
      BY <2>1
    <3>2. rows' \subseteq rows \cup KlineRows(s) /\ now' = now
      BY <3>1 DEF FetchOk, FetchFails, NextFetch, exchange
    <3>3. \A r \in KlineRows(s) : r[3] \/ r[2] = now
      BY <1>1, KlineRowFacts DEF FeedInv
    <3>4. QED
      BY <3>2, <3>3
  <2>2. CASE rows' \in {rows, {}} /\ now' = now
    BY <2>2
  <2>3. QED
    BY <2>1, <2>2 DEF FeedStep, LoopStart, ConnectOk, ConnectFails, WakeUp, BackfillFails,
                      SessionEnds, HandlerRaises, exchange
<1>7. TableInStep'
  <2>1. now \in Nat
    BY <1>1 DEF FeedInv, TypeOK, Minute
  <2>2. QED
    BY <1>3, <1>6, <2>1, TableKept
<1>8. QED
  BY <1>2, <1>4, <1>5, <1>7 DEF ServiceInv

\* A candle goes through on_candle into the writer.
LEMMA KeepEmission ==
  ASSUME ServiceInv, Emission
  PROVE  ServiceInv'
<1>1. FeedInv /\ RowsInStep /\ UNCHANGED service
  BY DEF ServiceInv, Emission
<1>2. TableInStep'
  <2>1. UNCHANGED <<table, now>> /\ rows' \subseteq rows
    BY DEF Emission, Handle, Receive, EmitRow, code, exchange
  <2>2. now \in Nat
    BY <1>1 DEF FeedInv, TypeOK, Minute
  <2>3. QED
    BY <2>1, <2>2, TableKept
<1>3. CASE \E candle \in inbox : Receive(candle) /\ Handle(Row(candle, TRUE))
  <2>1. PICK candle \in inbox : Receive(candle) /\ Handle(Row(candle, TRUE))
    BY <1>3
  <2>2. candle \in Candle /\ emitted' = emitted \cup {candle}
    BY <2>1 DEF Receive, FeedInv, TypeOK, ServiceInv
  <2>3. StoreTypes' /\ StoredInStep' /\ EmittedIsAccounted'
    BY <1>1, <2>1, <2>2, HandleStored
  <2>4. FeedInv' /\ RowsInStep'
    BY <1>1, <2>1, CoverReceive, RowsReceive
  <2>5. pc = "stream" /\ UNCHANGED <<running, stopping, pc>>
    BY <2>1 DEF Receive, code
  <2>6. ServiceInStep'
    BY <1>1, <2>5 DEF ServiceInv, ServiceInStep
  <2>7. QED
    BY <1>2, <2>3, <2>4, <2>6 DEF ServiceInv
<1>4. CASE \E r \in rows : EmitRow(r) /\ Handle(Row(<<r[1], r[2]>>, r[3]))
  <2>1. PICK r \in rows : EmitRow(r) /\ Handle(Row(<<r[1], r[2]>>, r[3]))
    BY <1>4
  <2>2. PICK t \in Sym, m \in Minute, f \in BOOLEAN : r = <<t, m, f>>
    BY <1>1 DEF FeedInv, TypeOK
  <2>3. r[1] = t /\ r[2] = m /\ r[3] = f /\ <<t, m>> \in Candle
    BY <2>2 DEF Candle
  <2> DEFINE c == <<t, m>>
  <2>4. ASSUME f = TRUE
        PROVE  StoreTypes' /\ StoredInStep' /\ EmittedIsAccounted'
    <3>1. {q \in {r} : q[3]} = {r}
      BY <2>3, <2>4
    <3>2. emitted' = emitted \cup {<<t, m>>}
      BY <2>1, <2>3, <3>1 DEF EmitRow
    <3>3. Handle(Row(<<t, m>>, TRUE))
      BY <2>1, <2>3, <2>4
    <3>4. c \in Candle /\ emitted' = emitted \cup {c} /\ Handle(Row(c, TRUE))
      BY <2>3, <3>2, <3>3
    <3> HIDE DEF c
    <3>5. QED
      BY <1>1, <3>4, HandleStored
  <2>5. ASSUME f = FALSE
        PROVE  StoreTypes' /\ StoredInStep' /\ EmittedIsAccounted'
    <3> DEFINE handed == {<<q[1], q[2]>> : q \in {p \in {r} : p[3]}}
    <3>1. {p \in {r} : p[3]} = {}
      BY <2>3, <2>5
    <3>2. handed = {}
      BY <3>1
    <3>3. emitted' = emitted \cup handed
      BY <2>1 DEF EmitRow
    <3> HIDE DEF handed
    <3>4. emitted' = emitted
      BY <3>2, <3>3
    <3>5. <<t, m>> \notin emitted
      BY <1>1, <2>3, <2>5 DEF RowsInStep
    <3>6. Handle(Row(<<t, m>>, FALSE))
      BY <2>1, <2>3, <2>5
    <3>7. c \in Candle /\ c \notin emitted /\ Handle(Row(c, FALSE))
      BY <2>3, <3>5, <3>6
    <3>8. table[c] # "final"
      <4>1. <<c[1], c[2], FALSE>> = r
        BY <2>2, <2>5
      <4>2. QED
        BY <3>7, <4>1 DEF ServiceInv, TableInStep
    <3> HIDE DEF c
    <3>9. QED
      BY <1>1, <3>4, <3>7, <3>8, HandleStored
  <2>6. FeedInv' /\ RowsInStep'
    BY <1>1, <2>1, CoverEmitRow, RowsEmitRow
  <2>7. pc = "emitting" /\ pc' # "none" /\ UNCHANGED <<running, stopping>>
    BY <2>1 DEF EmitRow
  <2>8. ServiceInStep'
    BY <1>1, <2>7 DEF ServiceInv, ServiceInStep
  <2>9. QED
    BY <1>2, <2>2, <2>4, <2>5, <2>6, <2>8 DEF ServiceInv
<1>5. QED
  BY <1>3, <1>4 DEF Emission

LEMMA KeepFlush ==
  ASSUME ServiceInv, NEW n \in 1..Len(pending), Flush(n)
  PROVE  ServiceInv'
<1>1. StoreTypes' /\ StoredInStep' /\ EmittedIsAccounted'
  BY FlushStored
<1>2. UNCHANGED <<service, vars>>
  BY DEF Flush, feedVars
<1>3. FeedInv'
  BY <1>2, FeedStutter DEF ServiceInv
<1>4. RowsInStep'
  BY <1>2 DEF ServiceInv, RowsInStep, vars, code, exchange
<1>5. service # "down"
  <2>1. Len(<<>>) = 0
    OBVIOUS
  <2>2. QED
    BY <2>1 DEF ServiceInv, ServiceInStep
<1>6. ServiceInStep'
  BY <1>2, <1>5 DEF ServiceInv, ServiceInStep, vars, code
<1>7. TableInStep'
  <2>1. UNCHANGED <<now, rows>>
    BY <1>2 DEF vars, code, exchange
  <2>2. SUFFICES ASSUME NEW c \in Candle, table'[c] = "final"
                 PROVE  c[2] < now /\ <<c[1], c[2], FALSE>> \notin rows
    BY <2>1 DEF TableInStep
  <2>3. CASE table[c] = "final"
    BY <2>3 DEF ServiceInv, TableInStep
  <2>4. CASE c \in emitted
    <3>1. DEFINE r == <<c[1], c[2], FALSE>>
    <3>2. c = <<c[1], c[2]>> /\ r[1] = c[1] /\ r[2] = c[2] /\ r[3] = FALSE
      BY DEF Candle
    <3>3. r \in rows => FALSE
      <4> HIDE DEF r
      <4>1. QED
        BY <2>4, <3>2 DEF ServiceInv, RowsInStep
    <3>4. QED
      BY <2>4, <3>3 DEF ServiceInv, RowsInStep
  <2>5. QED
    BY <2>2, <2>3, <2>4, FlushStored
<1>8. QED
  BY <1>1, <1>3, <1>4, <1>6, <1>7 DEF ServiceInv

\* run() starts and stops the feed, and waits for the writer.
LEMMA KeepRun ==
  ASSUME ServiceInv, Up \/ Down \/ FeedStopped \/ Drained
  PROVE  ServiceInv'
<1>1. FeedInv /\ RowsInStep
  BY DEF ServiceInv
<1>2. TableInStep'
  <2>1. UNCHANGED <<table, now>> /\ rows' \in {rows, {}}
    BY DEF Up, Start, Down, Stop, FeedStopped, CancelAndJoin, Cancelled, Drained, store, feedVars,
           vars, code, exchange
  <2>2. now \in Nat
    BY <1>1 DEF FeedInv, TypeOK, Minute
  <2>3. QED
    BY <2>1, <2>2, TableKept
<1>3. CASE Up
  <2>1. FeedInv' /\ RowsInStep'
    BY <1>1, <1>3, CoverStart, RowsStart DEF Up
  <2>2. ServiceInStep'
    BY <1>3 DEF Up, Start, ServiceInv, ServiceInStep
  <2>3. StoreTypes' /\ StoredInStep' /\ EmittedIsAccounted'
    BY <1>3, StoreKept DEF Up, Start, store
  <2>4. QED
    BY <1>2, <2>1, <2>2, <2>3 DEF ServiceInv
<1>4. CASE Down
  <2>1. FeedInv' /\ RowsInStep'
    BY <1>1, <1>4, CoverStop, RowsStop DEF Down
  <2>2. ServiceInStep'
    BY <1>4 DEF Down, Stop, Cancelled, ServiceInv, ServiceInStep
  <2>3. StoreTypes' /\ StoredInStep' /\ EmittedIsAccounted'
    BY <1>4, StoreKept DEF Down, Stop, store
  <2>4. QED
    BY <1>2, <2>1, <2>2, <2>3 DEF ServiceInv
<1>5. CASE FeedStopped
  <2>1. FeedInv' /\ RowsInStep'
    <3>1. CASE CancelAndJoin
      BY <1>1, <3>1, CoverCancelAndJoin, RowsCancelAndJoin
    <3>2. CASE UNCHANGED feedVars
      BY <1>1, <3>2, FeedStutter DEF feedVars, RowsInStep, vars, code, exchange
    <3>3. QED
      BY <1>5, <3>1, <3>2 DEF FeedStopped
  <2>2. ServiceInStep'
    BY <1>5 DEF FeedStopped, CancelAndJoin, Cancelled, feedVars, vars, code, ServiceInv, ServiceInStep
  <2>3. UNCHANGED <<emitted, pending, table, dropped>> /\ service' = "draining"
    BY <1>5 DEF FeedStopped, CancelAndJoin, feedVars, vars, store
  <2>4. QED
    BY <1>2, <2>1, <2>2, <2>3, StoreKept DEF ServiceInv
<1>6. CASE Drained
  <2>1. /\ UNCHANGED <<vars, pending, table, dropped>>
        /\ service = "draining" /\ service' = "down" /\ pending = <<>>
    BY <1>6 DEF Drained, feedVars, store
  <2>2. FeedInv' /\ RowsInStep'
    BY <1>1, <2>1, FeedStutter DEF RowsInStep, vars, code, exchange
  <2>3. ServiceInStep'
    BY <2>1 DEF ServiceInv, ServiceInStep, vars, code
  <2>4. UNCHANGED emitted
    BY <2>1 DEF vars
  <2>5. QED
    BY <1>2, <2>1, <2>2, <2>3, <2>4, StoreKept DEF ServiceInv
<1>7. QED
  BY <1>3, <1>4, <1>5, <1>6

\* The process is killed: only the table is left.
LEMMA KeepCrash ==
  ASSUME ServiceInv, Crash
  PROVE  ServiceInv'
<1>1. FeedInv'
  <2>1. TypeOK'
    <3>1. attempt' \in 0..AttemptCap
      BY CapIsNat DEF Crash
    <3>2. QED
      BY <3>1, ZeroIsType, InitialAssumption DEF Crash, ServiceInv, FeedInv, TypeOK, Pc
  <2>2. SocketInStep' /\ HandsEmpty' /\ PastIsEmitted'
    BY DEF Crash, SocketInStep, HandsEmpty, PastIsEmitted, InSession
  <2>3. \A s \in Sym : (covFrom[s]..(covTo[s] - 1))' = {}
    BY DEF Crash, Zero
  <2>4. SeamlessCoverage'
    BY <2>3 DEF Crash, SeamlessCoverage
  <2>5. QED
    BY <2>1, <2>2, <2>4 DEF FeedInv
<1>2. RowsInStep'
  BY DEF Crash, ServiceInv, RowsInStep
<1>3. pending' = <<>> /\ Len(pending') = 0 /\ pending' \in Seq(RowType)
  BY EmptySeq DEF Crash
<1>4. ServiceInStep' /\ StoreTypes'
  BY <1>3 DEF Crash, ServiceInv, ServiceInStep, StoreTypes
<1>5. StoredInStep'
  <2>1. 1..Len(pending') = {}
    BY <1>3
  <2>2. QED
    BY <2>1 DEF Crash, ServiceInv, StoredInStep
<1>6. EmittedIsAccounted'
  BY DEF Crash, EmittedIsAccounted
<1>7. TableInStep'
  <2>1. UNCHANGED <<table, now>> /\ rows' = {} /\ now \in Nat
    BY DEF Crash, ServiceInv, FeedInv, TypeOK, Minute
  <2>2. QED
    BY <2>1, TableKept
<1>8. QED
  BY <1>1, <1>2, <1>4, <1>5, <1>6, <1>7 DEF ServiceInv

LEMMA KeepWorld ==
  ASSUME ServiceInv, World
  PROVE  ServiceInv'
<1>1. FeedInv /\ RowsInStep
  BY DEF ServiceInv
<1>2. /\ FeedInv' /\ RowsInStep'
      /\ UNCHANGED <<running, stopping, pc, emitted>>
  <2>1. CASE Tick
    BY <1>1, <2>1, CoverTick, RowsTick DEF Tick, code
  <2>2. CASE \E how \in {"closed", "error"} : DropLink(how)
    BY <1>1, <2>2, CoverDropLink, RowsDropLink DEF DropLink, code
  <2>3. QED
    BY <2>1, <2>2 DEF World, Exchange
<1>3. UNCHANGED <<service, pending, table, dropped>>
  BY DEF World, store
<1>4. ServiceInStep'
  BY <1>2, <1>3 DEF ServiceInv, ServiceInStep
<1>5. TableInStep'
  <2>1. rows' = rows /\ now' >= now /\ now' \in Nat
    BY <1>1 DEF World, Exchange, Tick, DropLink, code, FeedInv, TypeOK, Minute
  <2>2. QED
    BY <1>3, <2>1, TableKept
<1>6. QED
  BY <1>2, <1>3, <1>4, <1>5, StoreKept DEF ServiceInv, StoreTypes

LEMMA ServiceStep == ServiceInv /\ [IngestNext]_ingestVars => ServiceInv'
<1> SUFFICES ASSUME ServiceInv, [IngestNext]_ingestVars PROVE ServiceInv'
  OBVIOUS
<1>1. CASE FeedStep
  BY <1>1, KeepFeedStep
<1>2. CASE Emission
  BY <1>2, KeepEmission
<1>3. CASE \E n \in 1..Len(pending) : Flush(n)
  BY <1>3, KeepFlush
<1>4. CASE Up \/ Down \/ FeedStopped \/ Drained
  BY <1>4, KeepRun
<1>5. CASE Crash
  BY <1>5, KeepCrash
<1>6. CASE World
  BY <1>6, KeepWorld
<1>7. CASE UNCHANGED ingestVars
  <2>1. UNCHANGED <<vars, service, pending, table, dropped>>
    BY <1>7 DEF ingestVars, feedVars, store
  <2>2. FeedInv'
    BY <2>1, FeedStutter DEF ServiceInv
  <2>3. RowsInStep' /\ ServiceInStep'
    BY <2>1 DEF ServiceInv, RowsInStep, ServiceInStep, vars, code, exchange
  <2>4. UNCHANGED emitted
    BY <2>1 DEF vars
  <2>5. TableInStep'
    BY <2>1 DEF ServiceInv, TableInStep, vars, code, exchange
  <2>6. QED
    BY <2>1, <2>2, <2>3, <2>4, <2>5, StoreKept DEF ServiceInv, StoreTypes
<1>8. QED
  BY <1>1, <1>2, <1>3, <1>4, <1>5, <1>6, <1>7 DEF IngestNext

LEMMA IngestStart == IngestInit => ServiceInv
<1> SUFFICES ASSUME IngestInit PROVE ServiceInv
  OBVIOUS
<1>1. FeedInv
  BY FeedInit DEF IngestInit
<1>2. pending \in Seq(RowType) /\ Len(pending) = 0 /\ 1..Len(pending) = {}
  BY EmptySeq DEF IngestInit
<1>3. table = [c \in Candle |-> "none"]
  BY DEF IngestInit, Candle
<1>4. StoreTypes /\ ServiceInStep
  BY <1>2, <1>3 DEF IngestInit, Init, StoreTypes, ServiceInStep
<1>5. RowsInStep /\ TableInStep /\ StoredInStep /\ EmittedIsAccounted
  BY <1>2, <1>3 DEF IngestInit, Init, RowsInStep, TableInStep, StoredInStep, EmittedIsAccounted
<1>6. QED
  BY <1>1, <1>4, <1>5 DEF ServiceInv

--------------------------------------------------------------------------------
(* The theorems.                                                           *)

\* The inductive invariant holds of every behaviour, kills included.
THEOREM ServiceInvariance == IngestSpec => []ServiceInv
<1>1. QED
  BY IngestStart, ServiceStep, PTL DEF IngestSpec

\* Every final candle the feed of this process has handed on is stored, queued, or
\* lost with a batch that raised.
THEOREM Accounted == IngestSpec => []EmittedIsAccounted
<1>1. ServiceInv => EmittedIsAccounted
  BY DEF ServiceInv
<1>2. QED
  BY <1>1, ServiceInvariance, PTL

\* A service that is down has an empty writer and a feed without a task.
THEOREM DownQuiet == IngestSpec => []DownIsQuiet
<1>1. ServiceInv => DownIsQuiet
  BY DEF ServiceInv, ServiceInStep, StoreTypes, DownIsQuiet
<1>2. QED
  BY <1>1, ServiceInvariance, PTL

\* No hole at the seam of gap-fill and stream, in any run of the service.
THEOREM CoverageInService == IngestSpec => []SeamlessCoverage
<1>1. ServiceInv => SeamlessCoverage
  BY DEF ServiceInv, FeedInv
<1>2. QED
  BY <1>1, ServiceInvariance, PTL

\* Once the final bar of a minute is in the table, it stays.
THEOREM FinalRowsStay == IngestSpec => FinalStays
<1>1. ServiceInv /\ [IngestNext]_ingestVars =>
        [\A c \in Candle : table[c] = "final" => table'[c] = "final"]_ingestVars
  <2> SUFFICES ASSUME ServiceInv, [IngestNext]_ingestVars, NEW c \in Candle, table[c] = "final"
               PROVE  table'[c] = "final"
    OBVIOUS
  <2>1. CASE \E n \in 1..Len(pending) : Flush(n)
    BY <2>1, FlushStored
  <2>2. CASE UNCHANGED table
    BY <2>2
  <2>3. QED
    BY <2>1, <2>2 DEF IngestNext, FeedStep, Emission, Handle, Up, Down, FeedStopped,
                      Drained, Crash, World, store, ingestVars
<1>2. QED
  BY <1>1, ServiceInvariance, PTL DEF IngestSpec, FinalStays

================================================================================
