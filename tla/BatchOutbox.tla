------------------------------ MODULE BatchOutbox ------------------------------
(***************************************************************************)
(* What persistence/batch_writer.py promises its producers, with no task,  *)
(* event or batch size in sight: a first-in first-out outbox whose front   *)
(* is settled some items at a time.  Settled items are either handed to    *)
(* the sink for good or lost for good; none is handed over twice, invented *)
(* or overtaken by a later one.                                            *)
(***************************************************************************)
EXTENDS Naturals, Sequences

CONSTANT Item           \* what producers hand in (CandleRow, IndicatorRow)

VARIABLES
  pending,              \* accepted, not settled yet, oldest first
  delivered,            \* taken by the sink, in the order it took them
  lost                  \* given up after the sink raised, in order

vars == <<pending, delivered, lost>>

Init == pending = <<>> /\ delivered = <<>> /\ lost = <<>>

\* A producer appends some items behind the pending ones.
Put ==
  /\ pending' \in Seq(Item)
  /\ Len(pending') > Len(pending)
  /\ SubSeq(pending', 1, Len(pending)) = pending
  /\ UNCHANGED <<delivered, lost>>

\* The n oldest items leave the outbox together.
Settle(n) ==
  /\ n \in 1..Len(pending)
  /\ pending' = SubSeq(pending, n + 1, Len(pending))
  /\ \/ /\ delivered' = delivered \o SubSeq(pending, 1, n)
        /\ UNCHANGED lost
     \/ /\ lost' = lost \o SubSeq(pending, 1, n)
        /\ UNCHANGED delivered

Next == Put \/ \E n \in 1..Len(pending) : Settle(n)

Spec == Init /\ [][Next]_vars
================================================================================
