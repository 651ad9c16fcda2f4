--------------------------- MODULE BatchWriterProofs ---------------------------
(***************************************************************************)
(* The safety of BatchWriter for every set of rows, every max_size and     *)
(* every number of accepted rows, and its refinement of BatchOutbox.       *)
(***************************************************************************)
EXTENDS BatchWriter, SequenceTheorems, TLAPS

USE DEF Caller

\* Concatenation of rows is associative.
LEMMA RowsAssociative ==
  \A a, b, c \in Seq(Item) : (a \o b) \o c = a \o (b \o c)
BY ConcatAssociative

\* The lists given to add and add_many are sequences of rows.
LEMMA ListsAreSequences ==
  /\ \A item \in Item : <<item>> \in Seq(Item) /\ Len(<<item>>) = 1
  /\ \A items \in Item \X Item : items \in Seq(Item) /\ Len(items) = 2
<1>1. ASSUME NEW item \in Item
      PROVE  <<item>> \in Seq(Item) /\ Len(<<item>>) = 1
  OBVIOUS
<1>2. ASSUME NEW items \in Item \X Item
      PROVE  items \in Seq(Item) /\ Len(items) = 2
  <2>1. PICK a \in Item, b \in Item : items = <<a, b>>
    OBVIOUS
  <2>2. <<a, b>> \in Seq(Item) /\ Len(<<a, b>>) = 2
    OBVIOUS
  <2>3. QED
    BY <2>1, <2>2
<1>3. QED
  BY <1>1, <1>2

\* Every step is taken by a producer, the task or the owner.
LEMMA NextCases ==
  ASSUME Next
  PROVE  \/ \E items \in Seq(Item) \ {<<>>} : Accept(items)
         \/ LoopStart \/ LoopWake \/ LoopSinkAnswers
         \/ Start \/ Stop \/ JoinAndDrain \/ StopSinkAnswers
<1>1. CASE \E item \in Item : Add(item)
  <2>1. PICK item \in Item : Accept(<<item>>)
    BY <1>1 DEF Add
  <2>2. <<item>> \in Seq(Item) \ {<<>>}
    OBVIOUS
  <2>3. QED
    BY <2>1, <2>2
<1>2. CASE \E items \in Item \X Item : AddMany(items)
  BY <1>2, ListsAreSequences DEF AddMany
<1>3. QED
  BY <1>1, <1>2 DEF Next, LoopTask, StopCall

LEMMA InitInv == Init => IInv
<1> SUFFICES ASSUME Init PROVE IInv
  OBVIOUS
<1>1. <<>> \in Seq(Item) /\ Len(<<>>) = 0
  BY EmptySeq
<1>2. TypeOK
  BY <1>1 DEF Init, TypeOK, LoopPc, OwnerPc
<1>3. Conservation
  BY <1>1, ConcatEmptySeq DEF Init, Conservation, InHand
<1>4. ControlOK /\ StopDrains /\ LossIsCounted /\ PromiseInHand
  BY <1>1 DEF Init, ControlOK, StopDrains, LossIsCounted, PromiseInHand
<1>5. FullBufferIsSignalled
  BY <1>1, MaxSizeAssumption DEF Init, FullBufferIsSignalled
<1>6. QED
  BY <1>2, <1>3, <1>4, <1>5 DEF IInv

--------------------------------------------------------------------------------
LEMMA TypeStep ==
  ASSUME TypeOK, [Next]_vars
  PROVE  TypeOK'
<1> USE DEF TypeOK, LoopPc, OwnerPc
<1>1. ASSUME NEW items \in Seq(Item), Accept(items)
      PROVE  TypeOK'
  BY <1>1, ConcatProperties DEF Accept
<1>2. ASSUME NEW c \in Caller
      PROVE  /\ batch[c] \in Seq(Item)
             /\ settled \o batch[c] \in Seq(Item)
             /\ delivered \o batch[c] \in Seq(Item)
             /\ lost \o batch[c] \in Seq(Item)
             /\ [batch EXCEPT ![c] = <<>>] \in [Caller -> Seq(Item)]
             /\ [batch EXCEPT ![c] = buffer] \in [Caller -> Seq(Item)]
  BY <1>2, ConcatProperties, EmptySeq
<1>0. ASSUME NEW c \in Caller, SinkAnswers(c)
      PROVE  /\ batch' \in [Caller -> Seq(Item)]
             /\ settled' \in Seq(Item) /\ delivered' \in Seq(Item) /\ lost' \in Seq(Item)
             /\ flushCount' \in Nat /\ errorCount' \in Nat
  <2>1. batch' \in [Caller -> Seq(Item)] /\ settled' \in Seq(Item)
    BY <1>0, <1>2 DEF SinkAnswers
  <2>2. delivered' \in Seq(Item) /\ lost' \in Seq(Item)
    BY <1>0, <1>2 DEF SinkAnswers
  <2>3. flushCount' \in Nat /\ errorCount' \in Nat
    BY <1>0 DEF SinkAnswers
  <2>4. QED
    BY <2>1, <2>2, <2>3
<1>3. CASE LoopStart
  BY <1>3 DEF LoopStart, LoopHead
<1>4. CASE LoopWake
  BY <1>4, <1>2, EmptySeq DEF LoopWake, Swap, NothingToFlush, LoopHead
<1>5. CASE LoopSinkAnswers
  BY <1>5, <1>0 DEF LoopSinkAnswers, LoopHead
<1>6. CASE Start
  BY <1>6 DEF Start
<1>7. CASE Stop
  BY <1>7, LenProperties DEF Stop
<1>8. CASE JoinAndDrain
  BY <1>8, <1>2, EmptySeq DEF JoinAndDrain, Swap, NothingToFlush
<1>9. CASE StopSinkAnswers
  BY <1>9, <1>0 DEF StopSinkAnswers
<1>10. CASE UNCHANGED vars
  BY <1>10 DEF vars, code
<1>11. QED
  BY <1>1, <1>3, <1>4, <1>5, <1>6, <1>7, <1>8, <1>9, <1>10, NextCases

--------------------------------------------------------------------------------
(* Facts about the sequences of one state, used by the lemmas below.        *)

LEMMA SeqFacts ==
  ASSUME TypeOK
  PROVE  /\ Len(buffer) \in Nat /\ Len(accepted) \in Nat /\ Len(settled) \in Nat
         /\ Len(delivered) \in Nat /\ Len(lost) \in Nat
         /\ Len(<<>>) = 0 /\ <<>> \in Seq(Item)
         /\ \A c \in Caller : batch[c] \in Seq(Item) /\ Len(batch[c]) \in Nat
         /\ InHand \in Seq(Item)
         /\ Len(InHand) = Len(batch["loop"]) + Len(batch["owner"]) + Len(buffer)
         /\ settled \o InHand \in Seq(Item)
         /\ Len(settled \o InHand) = Len(settled) + Len(InHand)
<1>1. /\ buffer \in Seq(Item) /\ settled \in Seq(Item)
      /\ batch["loop"] \in Seq(Item) /\ batch["owner"] \in Seq(Item)
  BY DEF TypeOK
<1>2. /\ batch["loop"] \o batch["owner"] \in Seq(Item)
      /\ Len(batch["loop"] \o batch["owner"]) = Len(batch["loop"]) + Len(batch["owner"])
  BY <1>1, ConcatProperties
<1>3. InHand \in Seq(Item) /\ Len(InHand) = Len(batch["loop"] \o batch["owner"]) + Len(buffer)
  BY <1>1, <1>2, ConcatProperties DEF InHand
<1>4. settled \o InHand \in Seq(Item) /\ Len(settled \o InHand) = Len(settled) + Len(InHand)
  BY <1>1, <1>3, ConcatProperties
<1>5. QED
  BY <1>1, <1>2, <1>3, <1>4, LenProperties, EmptySeq DEF TypeOK

\* The task and stop() take turns: the control part of the invariant.
LEMMA ControlStep ==
  ASSUME TypeOK, ControlOK, [Next]_vars
  PROVE  ControlOK'
<1> USE DEF ControlOK, TypeOK, LoopPc, OwnerPc
<1>1. ASSUME NEW items \in Seq(Item), Accept(items)
      PROVE  ControlOK'
  BY <1>1 DEF Accept
<1>2. CASE LoopStart
  BY <1>2 DEF LoopStart, LoopHead
<1>3. CASE LoopWake
  BY <1>3 DEF LoopWake, Swap, NothingToFlush, LoopHead
<1>4. CASE LoopSinkAnswers
  BY <1>4 DEF LoopSinkAnswers, SinkAnswers, LoopHead
<1>5. CASE Start
  BY <1>5 DEF Start
<1>6. CASE Stop
  BY <1>6 DEF Stop
<1>7. CASE JoinAndDrain
  BY <1>7 DEF JoinAndDrain, Swap, NothingToFlush
<1>8. CASE StopSinkAnswers
  BY <1>8 DEF StopSinkAnswers, SinkAnswers
<1>9. CASE UNCHANGED vars
  BY <1>9 DEF vars, code
<1>10. QED
  BY <1>1, <1>2, <1>3, <1>4, <1>5, <1>6, <1>7, <1>8, <1>9, NextCases

\* The swap moves the buffer into an empty batch: nothing in hand moves.
LEMMA SwapKeepsInHand ==
  ASSUME TypeOK, NEW c \in Caller, batch["loop"] = <<>>, batch["owner"] = <<>>, Swap(c)
  PROVE  InHand' = InHand
<1>1. /\ buffer \in Seq(Item) /\ <<>> \in Seq(Item)
      /\ batch \in [Caller -> Seq(Item)]
  BY EmptySeq DEF TypeOK
<1>2. InHand = buffer
  BY <1>1, ConcatEmptySeq DEF InHand
<1>3. CASE c = "loop"
  <2>1. batch'["loop"] = buffer /\ batch'["owner"] = <<>> /\ buffer' = <<>>
    BY <1>1, <1>3 DEF Swap
  <2>2. QED
    BY <2>1, <1>1, <1>2, ConcatEmptySeq DEF InHand
<1>4. CASE c = "owner"
  <2>1. batch'["loop"] = <<>> /\ batch'["owner"] = buffer /\ buffer' = <<>>
    BY <1>1, <1>4 DEF Swap
  <2>2. QED
    BY <2>1, <1>1, <1>2, ConcatEmptySeq DEF InHand
<1>5. QED
  BY <1>3, <1>4

\* An answer of the sink takes the one open batch off the front.
LEMMA AnswerTakesTheFront ==
  ASSUME TypeOK, SingleFlight, NEW c \in Caller, batch[c] # <<>>, SinkAnswers(c),
         UNCHANGED buffer
  PROVE  InHand = batch[c] \o InHand' /\ InHand' = buffer
<1>1. /\ buffer \in Seq(Item) /\ <<>> \in Seq(Item)
      /\ batch \in [Caller -> Seq(Item)]
      /\ batch[c] \o buffer \in Seq(Item)
  BY EmptySeq, ConcatProperties DEF TypeOK
<1>2. CASE c = "loop"
  <2>1. batch["owner"] = <<>> /\ batch'["loop"] = <<>> /\ batch'["owner"] = <<>>
    BY <1>1, <1>2 DEF SingleFlight, SinkAnswers
  <2>2. InHand = batch[c] \o buffer /\ InHand' = buffer
    BY <2>1, <1>1, <1>2, ConcatEmptySeq DEF InHand
  <2>3. QED
    BY <2>2
<1>3. CASE c = "owner"
  <2>1. batch["loop"] = <<>> /\ batch'["loop"] = <<>> /\ batch'["owner"] = <<>>
    BY <1>1, <1>3 DEF SingleFlight, SinkAnswers
  <2>2. InHand = batch[c] \o buffer /\ InHand' = buffer
    BY <2>1, <1>1, <1>3, ConcatEmptySeq DEF InHand
  <2>3. QED
    BY <2>2
<1>4. QED
  BY <1>2, <1>3

\* Accepting rows appends them to what is in hand.
LEMMA AcceptAppends ==
  ASSUME TypeOK, NEW items \in Seq(Item), Accept(items)
  PROVE  InHand' = InHand \o items
<1>1. /\ buffer \in Seq(Item) /\ batch["loop"] \o batch["owner"] \in Seq(Item)
  BY ConcatProperties DEF TypeOK
<1>2. InHand' = (batch["loop"] \o batch["owner"]) \o (buffer \o items)
  BY DEF Accept, InHand
<1>3. ((batch["loop"] \o batch["owner"]) \o buffer) \o items
        = (batch["loop"] \o batch["owner"]) \o (buffer \o items)
  BY <1>1, RowsAssociative
<1>4. QED
  BY <1>2, <1>3 DEF InHand

LEMMA SingleFlightFromControl == ControlOK => SingleFlight
BY DEF ControlOK, SingleFlight

\* Conservation survives every step: each step keeps what is in hand, appends
\* accepted rows behind it, or settles the batch in front of it.
LEMMA ConservationStep ==
  ASSUME TypeOK, ControlOK, Conservation, [Next]_vars
  PROVE  Conservation'
<1> USE DEF Conservation
<1>0. InHand \in Seq(Item) /\ settled \in Seq(Item)
  BY SeqFacts DEF TypeOK
<1>1. ASSUME NEW items \in Seq(Item), Accept(items)
      PROVE  Conservation'
  <2>1. InHand' = InHand \o items
    BY <1>1, AcceptAppends
  <2>2. accepted' = (settled \o InHand) \o items /\ settled' = settled
    BY <1>1 DEF Accept
  <2>3. QED
    BY <2>1, <2>2, <1>0, ConcatAssociative
<1>2. CASE LoopWake
  <2>1. batch["loop"] = <<>> /\ batch["owner"] = <<>>
    BY <1>2 DEF LoopWake, ControlOK, TypeOK, OwnerPc
  <2>2. CASE Swap("loop")
    <3>1. InHand' = InHand
      BY <2>1, <2>2, SwapKeepsInHand
    <3>2. QED
      BY <3>1, <1>2 DEF LoopWake
  <2>3. CASE NothingToFlush
    BY <1>2, <2>3 DEF LoopWake, NothingToFlush, InHand
  <2>4. QED
    BY <1>2, <2>2, <2>3 DEF LoopWake
<1>3. CASE JoinAndDrain
  <2>1. batch["loop"] = <<>> /\ batch["owner"] = <<>>
    BY <1>3 DEF JoinAndDrain, ControlOK
  <2>2. CASE Swap("owner")
    <3>1. InHand' = InHand
      BY <2>1, <2>2, SwapKeepsInHand
    <3>2. QED
      BY <3>1, <1>3 DEF JoinAndDrain
  <2>3. CASE NothingToFlush
    BY <1>3, <2>3 DEF JoinAndDrain, NothingToFlush, InHand
  <2>4. QED
    BY <1>3, <2>2, <2>3 DEF JoinAndDrain
<1>4. ASSUME NEW c \in Caller, batch[c] # <<>>, SinkAnswers(c), UNCHANGED <<buffer, accepted>>
      PROVE  Conservation'
  <2>1. InHand = batch[c] \o InHand' /\ InHand' = buffer
    BY <1>4, AnswerTakesTheFront, SingleFlightFromControl
  <2>2. accepted' = settled \o (batch[c] \o InHand') /\ settled' = settled \o batch[c]
    BY <2>1, <1>4 DEF SinkAnswers
  <2>3. InHand' \in Seq(Item) /\ batch[c] \in Seq(Item)
    BY <2>1, <1>4 DEF TypeOK
  <2>4. (settled \o batch[c]) \o InHand' = settled \o (batch[c] \o InHand')
    BY <2>3, <1>0, RowsAssociative
  <2>5. QED
    BY <2>2, <2>4
<1>5. CASE LoopSinkAnswers
  BY <1>4, <1>5 DEF LoopSinkAnswers, ControlOK
<1>6. CASE StopSinkAnswers
  BY <1>4, <1>6 DEF StopSinkAnswers, ControlOK
<1>7. CASE LoopStart \/ Start \/ Stop \/ UNCHANGED vars
  BY <1>7 DEF LoopStart, Start, Stop, vars, code, InHand
<1>8. QED
  BY <1>1, <1>2, <1>3, <1>5, <1>6, <1>7, NextCases

--------------------------------------------------------------------------------
\* The size trigger is never lost: only the wake-up clears the event, and it
\* empties the buffer in the same step.
LEMMA SignalStep ==
  ASSUME TypeOK, FullBufferIsSignalled, [Next]_vars
  PROVE  FullBufferIsSignalled'
<1> USE MaxSizeAssumption, EmptySeq DEF FullBufferIsSignalled, TypeOK
<1>1. ASSUME NEW items \in Seq(Item), Accept(items)
      PROVE  FullBufferIsSignalled'
  BY <1>1 DEF Accept
<1>2. CASE LoopWake
  BY <1>2 DEF LoopWake, Swap, NothingToFlush
<1>3. CASE JoinAndDrain
  BY <1>3 DEF JoinAndDrain, Swap, NothingToFlush
<1>4. CASE LoopSinkAnswers \/ StopSinkAnswers
  BY <1>4 DEF LoopSinkAnswers, StopSinkAnswers
<1>5. CASE LoopStart \/ Start \/ Stop \/ UNCHANGED vars
  BY <1>5 DEF LoopStart, Start, Stop, vars, code
<1>6. QED
  BY <1>1, <1>2, <1>3, <1>4, <1>5, NextCases

\* The counters and the two outcomes of a batch move together.
LEMMA LossStep ==
  ASSUME TypeOK, ControlOK, LossIsCounted, [Next]_vars
  PROVE  LossIsCounted'
<1>0. /\ Len(settled) = Len(delivered) + Len(lost)
      /\ Len(settled) \in Nat /\ Len(delivered) \in Nat /\ Len(lost) \in Nat
      /\ errorCount = 0 <=> lost = <<>>
      /\ flushCount = 0 <=> delivered = <<>>
  BY SeqFacts DEF LossIsCounted
<1>1. ASSUME NEW c \in Caller, batch[c] # <<>>, SinkAnswers(c)
      PROVE  LossIsCounted'
  <2>1. /\ batch[c] \in Seq(Item) /\ Len(batch[c]) \in Nat
        /\ Len(settled') = Len(settled) + Len(batch[c])
    BY <1>1, SeqFacts, ConcatProperties DEF SinkAnswers, TypeOK
  <2>2. CASE delivered' = delivered \o batch[c] /\ flushCount' = flushCount + 1
             /\ UNCHANGED <<lost, errorCount>>
    <3>1. delivered' # <<>> /\ Len(delivered') = Len(delivered) + Len(batch[c])
      BY <2>1, <2>2, <1>1, ConcatProperties, ConcatEqualIffEmpty DEF TypeOK
    <3>2. flushCount' # 0
      BY <2>2 DEF TypeOK
    <3>3. Len(settled') = Len(delivered') + Len(lost')
      <4> DEFINE N(rows) == Len(rows)
      <4>1. /\ N(settled) = N(delivered) + N(lost)
            /\ N(settled') = N(settled) + N(batch[c])
            /\ N(delivered') = N(delivered) + N(batch[c]) /\ N(lost') = N(lost)
            /\ N(settled) \in Nat /\ N(delivered) \in Nat /\ N(lost) \in Nat
            /\ N(batch[c]) \in Nat
        BY <1>0, <2>1, <2>2, <3>1
      <4>2. N(settled') = N(delivered') + N(lost')
        <5> HIDE DEF N
        <5>1. QED
          BY <4>1
      <4>3. QED
        BY <4>2
    <3>4. QED
      BY <1>0, <2>2, <3>1, <3>2, <3>3 DEF LossIsCounted
  <2>3. CASE lost' = lost \o batch[c] /\ errorCount' = errorCount + 1
             /\ UNCHANGED <<delivered, flushCount>>
    <3>1. lost' # <<>> /\ Len(lost') = Len(lost) + Len(batch[c])
      BY <2>1, <2>3, <1>1, ConcatProperties, ConcatEqualIffEmpty DEF TypeOK
    <3>2. errorCount' # 0
      BY <2>3 DEF TypeOK
    <3>3. Len(settled') = Len(delivered') + Len(lost')
      <4> DEFINE N(rows) == Len(rows)
      <4>1. /\ N(settled) = N(delivered) + N(lost)
            /\ N(settled') = N(settled) + N(batch[c])
            /\ N(lost') = N(lost) + N(batch[c]) /\ N(delivered') = N(delivered)
            /\ N(settled) \in Nat /\ N(delivered) \in Nat /\ N(lost) \in Nat
            /\ N(batch[c]) \in Nat
        BY <1>0, <2>1, <2>3, <3>1
      <4>2. N(settled') = N(delivered') + N(lost')
        <5> HIDE DEF N
        <5>1. QED
          BY <4>1
      <4>3. QED
        BY <4>2
    <3>4. QED
      BY <1>0, <2>3, <3>1, <3>2, <3>3 DEF LossIsCounted
  <2>4. QED
    BY <1>1, <2>2, <2>3 DEF SinkAnswers
<1>2. CASE LoopSinkAnswers
  BY <1>1, <1>2 DEF LoopSinkAnswers, ControlOK
<1>3. CASE StopSinkAnswers
  BY <1>1, <1>3 DEF StopSinkAnswers, ControlOK
<1>4. ASSUME UNCHANGED <<flushCount, errorCount, settled, delivered, lost>>
      PROVE  LossIsCounted'
  BY <1>4 DEF LossIsCounted
<1>5. CASE LoopStart \/ LoopWake \/ Start \/ Stop \/ JoinAndDrain \/ UNCHANGED vars
  BY <1>4, <1>5 DEF LoopStart, LoopWake, Start, Stop, JoinAndDrain, vars, code
<1>6. ASSUME NEW items \in Seq(Item), Accept(items)
      PROVE  LossIsCounted'
  BY <1>4, <1>6 DEF Accept
<1>7. QED
  BY <1>2, <1>3, <1>5, <1>6, NextCases

\* What stop() promised is settled, in the open drain, or still ahead of the
\* join; the drain takes all of the buffer, and by conservation that is all.
LEMMA PromiseStep ==
  ASSUME IInv, [Next]_vars
  PROVE  PromiseInHand' /\ StopDrains'
<1> USE DEF PromiseInHand, StopDrains
<1>a. TypeOK /\ ControlOK /\ Conservation /\ PromiseInHand /\ StopDrains
  BY DEF IInv
<1>b. /\ Len(settled) \in Nat /\ Len(buffer) \in Nat /\ Len(accepted) \in Nat
      /\ Len(batch["loop"]) \in Nat /\ Len(batch["owner"]) \in Nat
      /\ promised \in Nat
  BY <1>a, SeqFacts DEF TypeOK
<1>c. Len(accepted) = Len(settled) + Len(InHand)
  BY <1>a, SeqFacts DEF Conservation
<1>d. Len(InHand) = Len(batch["loop"]) + Len(batch["owner"]) + Len(buffer)
  BY <1>a, SeqFacts
<1>0. /\ TypeOK /\ ControlOK /\ PromiseInHand /\ StopDrains
      /\ Len(accepted) = Len(settled) + Len(batch["loop"]) + Len(batch["owner"]) + Len(buffer)
  <2> DEFINE N(rows) == Len(rows)
  <2>1. /\ N(accepted) = N(settled) + N(InHand)
        /\ N(InHand) = N(batch["loop"]) + N(batch["owner"]) + N(buffer)
        /\ N(settled) \in Nat /\ N(buffer) \in Nat
        /\ N(batch["loop"]) \in Nat /\ N(batch["owner"]) \in Nat
    BY <1>b, <1>c, <1>d
  <2>2. N(accepted) = N(settled) + N(batch["loop"]) + N(batch["owner"]) + N(buffer)
    <3> HIDE DEF N
    <3>1. QED
      BY <2>1
  <2>3. QED
    BY <1>a, <2>2
<1>1. ASSUME NEW items \in Seq(Item), Accept(items)
      PROVE  PromiseInHand' /\ StopDrains'
  <2>1. Len(accepted') = Len(accepted) + Len(items) /\ Len(items) \in Nat
    BY <1>0, <1>1, ConcatProperties, LenProperties DEF Accept, TypeOK
  <2>2. UNCHANGED <<running, ownerPc, batch, settled, promised>>
    BY <1>1 DEF Accept
  <2>3. promised' <= Len(accepted')
    BY <2>1, <2>2, <1>0, SeqFacts DEF TypeOK
  <2>4. QED
    BY <2>2, <2>3, <1>0
<1>2. CASE LoopStart \/ UNCHANGED vars
  BY <1>0, <1>2 DEF LoopStart, vars, code
<1>3. CASE LoopWake
  <2>1. ownerPc # "draining"
    BY <1>0, <1>3 DEF LoopWake, ControlOK
  <2>2. QED
    BY <2>1, <1>0, <1>3 DEF LoopWake, ControlOK
<1>4. CASE LoopSinkAnswers
  <2>1. ownerPc # "draining" /\ ~(ownerPc = "idle" /\ ~running)
    BY <1>0, <1>4 DEF LoopSinkAnswers, ControlOK, TypeOK, OwnerPc
  <2>2. QED
    BY <2>1, <1>0, <1>4 DEF LoopSinkAnswers
<1>5. CASE Start
  BY <1>0, <1>5 DEF Start
<1>6. CASE Stop
  <2>1. promised' = Len(accepted) /\ ownerPc' = "joining" /\ accepted' = accepted
    BY <1>6 DEF Stop
  <2>2. QED
    BY <2>1, <1>b
<1>7. CASE JoinAndDrain
  <2>1. batch["loop"] = <<>> /\ batch["owner"] = <<>>
    BY <1>0, <1>7 DEF JoinAndDrain, ControlOK
  <2>2. Len(accepted) = Len(settled) + Len(buffer)
    BY <2>1, <1>0, SeqFacts
  <2>3. CASE Swap("owner")
    <3>1. batch'["owner"] = buffer
      BY <2>3, <1>0 DEF Swap, TypeOK
    <3>2. ownerPc' = "draining"
      BY <1>7, <2>3 DEF JoinAndDrain, NothingToFlush, Swap
    <3>3. QED
      BY <3>1, <3>2, <2>2, <1>0, <1>7 DEF JoinAndDrain
  <2>4. CASE NothingToFlush
    <3>1. Len(buffer) = 0
      BY <2>4, EmptySeq DEF NothingToFlush
    <3>2. Len(accepted) = Len(settled)
      BY <3>1, <2>2, SeqFacts, <1>0
    <3>3. ownerPc' = "idle"
      BY <1>7, <2>4 DEF JoinAndDrain, NothingToFlush, Swap
    <3>4. QED
      BY <3>2, <3>3, <1>0, <1>7 DEF JoinAndDrain
  <2>5. QED
    BY <1>7, <2>3, <2>4 DEF JoinAndDrain
<1>8. CASE StopSinkAnswers
  <2>1. Len(settled') = Len(settled) + Len(batch["owner"])
    BY <1>0, <1>8, ConcatProperties DEF StopSinkAnswers, SinkAnswers, TypeOK
  <2>2. promised' = promised /\ accepted' = accepted /\ ownerPc' = "idle"
    BY <1>8 DEF StopSinkAnswers
  <2>3. Len(settled') >= promised
    BY <2>1, <1>0, <1>8 DEF StopSinkAnswers
  <2>4. QED
    BY <2>2, <2>3, <1>0
<1>9. QED
  BY <1>1, <1>2, <1>3, <1>4, <1>5, <1>6, <1>7, <1>8, NextCases

LEMMA InvStep == IInv /\ [Next]_vars => IInv'
<1> SUFFICES ASSUME IInv, [Next]_vars PROVE IInv'
  OBVIOUS
<1>1. TypeOK /\ ControlOK /\ Conservation /\ FullBufferIsSignalled /\ LossIsCounted
  BY DEF IInv
<1>2. TypeOK' /\ ControlOK' /\ Conservation' /\ FullBufferIsSignalled' /\ LossIsCounted'
  BY <1>1, TypeStep, ControlStep, ConservationStep, SignalStep, LossStep
<1>3. PromiseInHand' /\ StopDrains'
  BY PromiseStep
<1>4. QED
  BY <1>2, <1>3 DEF IInv

--------------------------------------------------------------------------------
\* In every reachable state of the writer all parts of IInv hold.
THEOREM Invariance == Spec => []IInv
<1>1. Init => IInv
  BY InitInv
<1>2. IInv /\ [Next]_vars => IInv'
  BY InvStep
<1>3. QED
  BY <1>1, <1>2, PTL DEF Spec

\* The writer's variables stay in their types.
THEOREM TypeCorrect == Spec => []TypeOK
<1>1. IInv => TypeOK
  BY DEF IInv
<1>2. QED
  BY <1>1, Invariance, PTL

\* No row is lost, repeated or reordered between add and the sink's answer.
THEOREM ConservationHolds == Spec => []Conservation
<1>1. IInv => Conservation
  BY DEF IInv
<1>2. QED
  BY <1>1, Invariance, PTL

\* The loop and the drain of stop() never have sink calls open together.
THEOREM SingleFlightHolds == Spec => []SingleFlight
<1>1. IInv => SingleFlight
  BY SingleFlightFromControl DEF IInv
<1>2. QED
  BY <1>1, Invariance, PTL

\* A full buffer has always signalled the loop.
THEOREM NoLostWakeup == Spec => []FullBufferIsSignalled
<1>1. IInv => FullBufferIsSignalled
  BY DEF IInv
<1>2. QED
  BY <1>1, Invariance, PTL

\* A stop() that has returned left none of the rows accepted before it behind.
THEOREM StopDrainsHolds == Spec => []StopDrains
<1>1. IInv => StopDrains
  BY DEF IInv
<1>2. QED
  BY <1>1, Invariance, PTL

\* error_count is zero exactly while nothing is lost.
THEOREM LossIsCountedHolds == Spec => []LossIsCounted
<1>1. IInv => LossIsCounted
  BY DEF IInv
<1>2. QED
  BY <1>1, Invariance, PTL

--------------------------------------------------------------------------------
(* Refinement of BatchOutbox.                                              *)

LEMMA OutboxInit == Init => Outbox!Init
  BY EmptySeq, ConcatEmptySeq DEF Init, Outbox!Init, InHand

\* An answer of the sink settles the rows at the front of the outbox.
LEMMA AnswerIsSettle ==
  ASSUME TypeOK, SingleFlight, NEW c \in Caller, batch[c] # <<>>, SinkAnswers(c),
         UNCHANGED buffer
  PROVE  Outbox!Next
<1>1. InHand = batch[c] \o InHand' /\ InHand' = buffer
  BY AnswerTakesTheFront
<1>2. /\ batch[c] \in Seq(Item) /\ buffer \in Seq(Item) /\ InHand \in Seq(Item)
      /\ Len(batch[c]) \in Nat \ {0} /\ Len(buffer) \in Nat
  BY SeqFacts, EmptySeq DEF TypeOK
<1>3. InHand = batch[c] \o buffer /\ Len(InHand) = Len(batch[c]) + Len(buffer)
  BY <1>1, <1>2, ConcatProperties
<1>4. SubSeq(InHand, 1, Len(batch[c])) = batch[c]
  <2>1. SubSeq(InHand, 1, Len(batch[c])) = SubSeq(batch[c], 1, Len(batch[c]))
    BY <1>2, <1>3, SubSeqOfConcat1
  <2>2. QED
    BY <2>1, <1>2, SubSeqFull
<1>5. SubSeq(InHand, Len(batch[c]) + 1, Len(InHand)) = buffer
  <2>1. CASE buffer = <<>>
    BY <2>1, <1>2, <1>3, SubSeqEmpty, EmptySeq
  <2>2. CASE buffer # <<>>
    <3>1. Len(buffer) \in Nat \ {0}
      BY <2>2, <1>2, EmptySeq
    <3>2. SubSeq(InHand, Len(batch[c]) + 1, Len(InHand))
            = SubSeq(buffer, (Len(batch[c]) + 1) - Len(batch[c]), Len(InHand) - Len(batch[c]))
      BY <1>2, <1>3, <3>1, SubSeqOfConcat2
    <3>3. (Len(batch[c]) + 1) - Len(batch[c]) = 1 /\ Len(InHand) - Len(batch[c]) = Len(buffer)
      BY <1>2, <1>3
    <3>4. QED
      BY <3>2, <3>3, <1>2, SubSeqFull
  <2>3. QED
    BY <2>1, <2>2
<1>6. Outbox!Settle(Len(batch[c]))
  <2>1. Len(batch[c]) \in 1..Len(InHand)
    BY <1>2, <1>3
  <2>2. InHand' = SubSeq(InHand, Len(batch[c]) + 1, Len(InHand))
    BY <1>1, <1>5
  <2>3. \/ delivered' = delivered \o SubSeq(InHand, 1, Len(batch[c])) /\ UNCHANGED lost
        \/ lost' = lost \o SubSeq(InHand, 1, Len(batch[c])) /\ UNCHANGED delivered
    BY <1>4 DEF SinkAnswers
  <2>4. QED
    BY <2>1, <2>2, <2>3 DEF Outbox!Settle
<1>7. Len(batch[c]) \in 1..Len(InHand)
  BY <1>2, <1>3
<1>8. QED
  BY <1>6, <1>7 DEF Outbox!Next

\* Accepting rows puts them behind the pending ones.
LEMMA AcceptIsPut ==
  ASSUME TypeOK, NEW items \in Seq(Item), items # <<>>, Accept(items)
  PROVE  Outbox!Next
<1>1. InHand' = InHand \o items
  BY AcceptAppends
<1>2. InHand \in Seq(Item) /\ Len(InHand) \in Nat /\ Len(items) \in Nat \ {0}
  BY SeqFacts, EmptySeq, LenProperties
<1>3. InHand' \in Seq(Item) /\ Len(InHand') > Len(InHand)
  BY <1>1, <1>2, ConcatProperties
<1>4. SubSeq(InHand', 1, Len(InHand)) = InHand
  <2>1. CASE InHand = <<>>
    BY <2>1, <1>2, SubSeqEmpty, EmptySeq
  <2>2. CASE InHand # <<>>
    <3>1. Len(InHand) \in Nat \ {0}
      BY <2>2, <1>2, EmptySeq
    <3>2. SubSeq(InHand', 1, Len(InHand)) = SubSeq(InHand, 1, Len(InHand))
      BY <1>1, <1>2, <3>1, SubSeqOfConcat1
    <3>3. QED
      BY <3>2, <1>2, SubSeqFull
  <2>3. QED
    BY <2>1, <2>2
<1>5. UNCHANGED <<delivered, lost>>
  BY DEF Accept
<1>6. QED
  BY <1>3, <1>4, <1>5 DEF Outbox!Next, Outbox!Put

\* Every step of the writer is a Put, a Settle or a stutter of the outbox.
LEMMA OutboxStep == IInv /\ [Next]_vars => [Outbox!Next]_(Outbox!vars)
<1> SUFFICES ASSUME IInv, [Next]_vars PROVE [Outbox!Next]_(Outbox!vars)
  OBVIOUS
<1> USE DEF Outbox!vars
<1>0. TypeOK /\ ControlOK /\ SingleFlight
  BY SingleFlightFromControl DEF IInv
<1>1. ASSUME NEW items \in Seq(Item), items # <<>>, Accept(items)
      PROVE  Outbox!Next
  BY <1>0, <1>1, AcceptIsPut
<1>2. CASE LoopSinkAnswers
  BY <1>0, <1>2, AnswerIsSettle DEF LoopSinkAnswers, ControlOK
<1>3. CASE StopSinkAnswers
  BY <1>0, <1>3, AnswerIsSettle DEF StopSinkAnswers, ControlOK
<1>4. CASE LoopWake
  <2>1. batch["loop"] = <<>> /\ batch["owner"] = <<>>
    BY <1>0, <1>4 DEF LoopWake, ControlOK, TypeOK, OwnerPc
  <2>2. InHand' = InHand
    BY <2>1, <1>0, <1>4, SwapKeepsInHand DEF LoopWake, NothingToFlush, InHand
  <2>3. QED
    BY <2>2, <1>4 DEF LoopWake
<1>5. CASE JoinAndDrain
  <2>1. batch["loop"] = <<>> /\ batch["owner"] = <<>>
    BY <1>0, <1>5 DEF JoinAndDrain, ControlOK
  <2>2. InHand' = InHand
    BY <2>1, <1>0, <1>5, SwapKeepsInHand DEF JoinAndDrain, NothingToFlush, InHand
  <2>3. QED
    BY <2>2, <1>5 DEF JoinAndDrain
<1>6. CASE LoopStart \/ Start \/ Stop \/ UNCHANGED vars
  BY <1>6 DEF LoopStart, Start, Stop, vars, code, InHand
<1>7. QED
  BY <1>1, <1>2, <1>3, <1>4, <1>5, <1>6, NextCases

\* The batch writer implements the outbox.
THEOREM Refinement == Spec => ImplementsOutbox
<1>1. Init => Outbox!Init
  BY OutboxInit
<1>2. IInv /\ [Next]_vars => [Outbox!Next]_(Outbox!vars)
  BY OutboxStep
<1>3. QED
  BY <1>1, <1>2, Invariance, PTL DEF Spec, Outbox!Spec, ImplementsOutbox

================================================================================
