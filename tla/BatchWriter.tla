------------------------------ MODULE BatchWriter ------------------------------
(***************************************************************************)
(* persistence/batch_writer.py: a buffer that a background task hands to a *)
(* sink whenever it is full or an interval has passed, and that stop()     *)
(* drains.  Everything runs on one asyncio loop, so a step of this model   *)
(* is the code between two suspension points: the lock is never held over  *)
(* one and needs no variable.  Producers may call add and add_many at any  *)
(* moment; one owner (a runner) calls start and stop in turn.              *)
(***************************************************************************)
EXTENDS Naturals, Sequences

CONSTANTS
  Item,                 \* the rows producers hand in
  MaxSize,              \* max_size, the buffer length that triggers a flush
  MaxAccepted           \* bound: rows accepted in a behaviour

ASSUME MaxSizeAssumption == MaxSize \in Nat \ {0}
ASSUME MaxAcceptedAssumption == MaxAccepted \in Nat

VARIABLES
  buffer,               \* _buffer
  flushEvent,           \* _flush_event
  running,              \* _running
  loopPc,               \* where the task of _run is suspended; "none": no _task
  ownerPc,              \* where the owner's stop() is suspended; "idle": outside
  batch,                \* the local variable of _flush, one per caller of it
  flushCount,           \* flush_count
  errorCount,           \* error_count
  accepted,             \* history: every row handed to add or add_many
  settled,              \* history: every row the sink has answered for
  delivered,            \* history: the rows of settled whose sink call returned
  lost,                 \* history: the rows of settled whose sink call raised
  promised              \* history: rows accepted when stop() was last called

code == <<buffer, flushEvent, running, loopPc, ownerPc, batch, flushCount, errorCount>>
vars == <<code, accepted, settled, delivered, lost, promised>>

Caller == {"loop", "owner"}
LoopPc == {"none", "start", "wait", "sink", "done"}
OwnerPc == {"idle", "joining", "draining"}

Init ==
  /\ buffer = <<>> /\ flushEvent = FALSE /\ running = FALSE
  /\ loopPc = "none" /\ ownerPc = "idle"
  /\ batch = [c \in Caller |-> <<>>]
  /\ flushCount = 0 /\ errorCount = 0
  /\ accepted = <<>> /\ settled = <<>> /\ delivered = <<>> /\ lost = <<>>
  /\ promised = 0

--------------------------------------------------------------------------------
(* Producers.                                                              *)

\* The common body of add and add_many.
Accept(items) ==
  /\ Len(accepted) + Len(items) <= MaxAccepted
  /\ buffer' = buffer \o items
  /\ flushEvent' = (flushEvent \/ Len(buffer \o items) >= MaxSize)
  /\ accepted' = accepted \o items
  /\ UNCHANGED <<running, loopPc, ownerPc, batch, flushCount, errorCount,
                 settled, delivered, lost, promised>>

Add(item) == Accept(<<item>>)

\* Mutant: add_many appends the list itself instead of extending the buffer.
AddManyNested(items) ==
  /\ Len(accepted) + Len(items) <= MaxAccepted
  /\ buffer' = Append(buffer, items)
  /\ flushEvent' = (flushEvent \/ Len(buffer') >= MaxSize)
  /\ accepted' = accepted \o items
  /\ UNCHANGED <<running, loopPc, ownerPc, batch, flushCount, errorCount,
                 settled, delivered, lost, promised>>

\* add_many returns at once for an empty list: that call is a stutter.
AddMany(items) == items # <<>> /\ Accept(items)

--------------------------------------------------------------------------------
(* _flush, split at its one suspension point, the call of the sink.        *)

\* Mutant: the swap copies the buffer and leaves it in place.
SwapWithoutReset(c) ==
  /\ buffer # <<>>
  /\ batch' = [batch EXCEPT ![c] = buffer]
  /\ UNCHANGED buffer

Swap(c) ==
  /\ buffer # <<>>
  /\ batch' = [batch EXCEPT ![c] = buffer]
  /\ buffer' = <<>>

NothingToFlush ==
  /\ buffer = <<>>
  /\ UNCHANGED <<buffer, batch>>

\* The sink returns, or raises and the batch goes with its local variable.
SinkAnswers(c) ==
  /\ batch' = [batch EXCEPT ![c] = <<>>]
  /\ settled' = settled \o batch[c]
  /\ \/ /\ delivered' = delivered \o batch[c]
        /\ flushCount' = flushCount + 1
        /\ UNCHANGED <<lost, errorCount>>
     \/ /\ lost' = lost \o batch[c]
        /\ errorCount' = errorCount + 1
        /\ UNCHANGED <<delivered, flushCount>>

--------------------------------------------------------------------------------
(* The background task.                                                    *)

\* Mutant: the loop never looks at _running again.
LoopForever == "wait"

\* The test of while self._running.
LoopHead == IF running THEN "wait" ELSE "done"

LoopStart ==
  /\ loopPc = "start"
  /\ loopPc' = LoopHead
  /\ UNCHANGED <<buffer, flushEvent, running, ownerPc, batch, flushCount, errorCount,
                 accepted, settled, delivered, lost, promised>>

\* wait_for ends, by the event or by the interval; clear, then swap.
LoopWake ==
  /\ loopPc = "wait"
  /\ flushEvent' = FALSE
  /\ \/ Swap("loop") /\ loopPc' = "sink"
     \/ NothingToFlush /\ loopPc' = LoopHead
  /\ UNCHANGED <<running, ownerPc, flushCount, errorCount,
                 accepted, settled, delivered, lost, promised>>

\* Mutant: the event is cleared after the sink's answer, losing a signal
\* that was set while the sink was busy.
LoopSinkAnswersThenClears ==
  /\ loopPc = "sink"
  /\ SinkAnswers("loop")
  /\ loopPc' = LoopHead
  /\ flushEvent' = FALSE
  /\ UNCHANGED <<buffer, running, ownerPc, accepted, promised>>

LoopSinkAnswers ==
  /\ loopPc = "sink"
  /\ SinkAnswers("loop")
  /\ loopPc' = LoopHead
  /\ UNCHANGED <<buffer, flushEvent, running, ownerPc, accepted, promised>>

--------------------------------------------------------------------------------
(* The owner.                                                              *)

Start ==
  /\ ownerPc = "idle" /\ ~running
  /\ running' = TRUE
  /\ loopPc' = "start"
  /\ UNCHANGED <<buffer, flushEvent, ownerPc, batch, flushCount, errorCount,
                 accepted, settled, delivered, lost, promised>>

Stop ==
  /\ ownerPc = "idle" /\ running
  /\ running' = FALSE
  /\ flushEvent' = TRUE
  /\ ownerPc' = "joining"
  /\ promised' = Len(accepted)
  /\ UNCHANGED <<buffer, loopPc, batch, flushCount, errorCount,
                 accepted, settled, delivered, lost>>

\* Mutant: stop() drains without waiting for the task.
DrainWithoutJoin ==
  /\ ownerPc = "joining"
  /\ loopPc' = loopPc
  /\ \/ Swap("owner") /\ ownerPc' = "draining"
     \/ NothingToFlush /\ ownerPc' = "idle"
  /\ UNCHANGED <<flushEvent, running, flushCount, errorCount,
                 accepted, settled, delivered, lost, promised>>

\* Mutant: stop() returns once the task is done, without the final drain.
JoinWithoutDrain ==
  /\ ownerPc = "joining" /\ loopPc = "done"
  /\ loopPc' = "none"
  /\ ownerPc' = "idle"
  /\ UNCHANGED <<buffer, batch, flushEvent, running, flushCount, errorCount,
                 accepted, settled, delivered, lost, promised>>

\* await self._task is over: _task = None and the final _flush.
JoinAndDrain ==
  /\ ownerPc = "joining" /\ loopPc = "done"
  /\ loopPc' = "none"
  /\ \/ Swap("owner") /\ ownerPc' = "draining"
     \/ NothingToFlush /\ ownerPc' = "idle"
  /\ UNCHANGED <<flushEvent, running, flushCount, errorCount,
                 accepted, settled, delivered, lost, promised>>

StopSinkAnswers ==
  /\ ownerPc = "draining"
  /\ SinkAnswers("owner")
  /\ ownerPc' = "idle"
  /\ UNCHANGED <<buffer, flushEvent, running, loopPc, accepted, promised>>

--------------------------------------------------------------------------------
LoopTask == LoopStart \/ LoopWake \/ LoopSinkAnswers
StopCall == JoinAndDrain \/ StopSinkAnswers

Next ==
  \/ \E item \in Item : Add(item)
  \/ \E items \in Item \X Item : AddMany(items)
  \/ LoopTask
  \/ Start
  \/ Stop
  \/ StopCall

Spec == Init /\ [][Next]_vars

(* The interval timer fires, the sink answers, a resumed coroutine runs;    *)
(* nobody has to call add, start or stop.                                  *)
Fairness == WF_vars(LoopTask) /\ WF_vars(StopCall)
FairSpec == Spec /\ Fairness

--------------------------------------------------------------------------------
(* Properties.                                                             *)

TypeOK ==
  /\ buffer \in Seq(Item)
  /\ flushEvent \in BOOLEAN
  /\ running \in BOOLEAN
  /\ loopPc \in LoopPc
  /\ ownerPc \in OwnerPc
  /\ batch \in [Caller -> Seq(Item)]
  /\ flushCount \in Nat /\ errorCount \in Nat
  /\ accepted \in Seq(Item) /\ settled \in Seq(Item)
  /\ delivered \in Seq(Item) /\ lost \in Seq(Item)
  /\ promised \in Nat

\* The rows that are in the writer's hands, oldest first.
InHand == batch["loop"] \o batch["owner"] \o buffer

\* Conservation and order: what producers handed in is what the sink has
\* answered for, then the batch the sink is working on, then the buffer, in
\* the order of the calls of add.  The swap of _flush, the two callers of
\* _flush and rows added while a sink call is suspended never lose, repeat or
\* reorder a row.
Conservation == accepted = settled \o InHand

\* The loop's flush and the final drain of stop() never have sink calls open
\* at the same time, although nothing locks the sink: the drain comes after
\* the join of the task.
SingleFlight == batch["loop"] = <<>> \/ batch["owner"] = <<>>

\* No lost wake-up: a buffer at or over max_size always has the flush event
\* set, whatever was added while the sink was busy, so the next flush never
\* waits for the interval.
FullBufferIsSignalled == Len(buffer) >= MaxSize => flushEvent

\* When stop() has returned, every row accepted before the call has been given
\* to the sink: rows of the batch in flight and of the buffer behind it too.
StopDrains == ownerPc = "idle" /\ ~running => Len(settled) >= promised

\* The counters tell an operator the truth: rows are missing from the sink
\* exactly if error_count says a batch failed.
LossIsCounted ==
  /\ errorCount = 0 <=> lost = <<>>
  /\ flushCount = 0 <=> delivered = <<>>
  /\ Len(settled) = Len(delivered) + Len(lost)

\* How the suspension points of the task, of stop() and _running relate.
ControlOK ==
  /\ running => ownerPc = "idle" /\ loopPc \in {"start", "wait", "sink"}
  /\ ownerPc = "joining" => loopPc # "none"
  /\ ownerPc \in {"draining", "idle"} /\ ~running => loopPc = "none"
  /\ loopPc = "done" => ownerPc = "joining"
  /\ batch["loop"] # <<>> <=> loopPc = "sink"
  /\ batch["owner"] # <<>> <=> ownerPc = "draining"

\* What of the rows promised to the caller of stop() is still on its way.
PromiseInHand ==
  /\ promised <= Len(accepted)
  /\ ownerPc = "draining" => Len(settled) + Len(batch["owner"]) >= promised

\* The inductive invariant the proofs use.
IInv ==
  /\ TypeOK
  /\ ControlOK
  /\ Conservation
  /\ FullBufferIsSignalled
  /\ StopDrains
  /\ LossIsCounted
  /\ PromiseInHand

\* The writer is an outbox that settles its oldest rows first.
Outbox == INSTANCE BatchOutbox WITH pending <- InHand
ImplementsOutbox == Outbox!Spec

\* stop() returns: the loop notices _running within one interval or one sink
\* call and the drain takes one more sink call.
StopReturns == ownerPc = "joining" ~> ownerPc = "idle"

\* A row accepted while the writer runs is settled in the end, by the loop or
\* by the drain of a stop() that overtakes it.
AcceptedIsSettled ==
  \A n \in 1..MaxAccepted :
    running /\ Len(accepted) >= n ~> Len(settled) >= n

================================================================================
