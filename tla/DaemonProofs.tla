----------------------------- MODULE DaemonProofs ------------------------------
(***************************************************************************)
(* The three services under supervise(), for any number of runs and with   *)
(* faults and signals at any moment: which parts, writers and pools can be *)
(* there at the same time.                                                 *)
(***************************************************************************)
EXTENDS Daemon, TLAPS

\* A run has its pool from the first await to the last.
PoolInStep ==
  /\ sup = "running" <=> phase # "none"
  /\ pools = IF phase \in {"pool", "none"} THEN {} ELSE {cur}

\* Only SymbolManager's start suspends.
ManagerInStep == phase = "starting" => "manager" \in Parts

\* The finally block has stopped the parts it is past.
StoppedInStep ==
  phase = "stopping" =>
    /\ stopped < Len(StopOrder)
    /\ \A k \in 1..stopped : <<StopOrder[k], cur>> \notin tasks

\* A run has nothing to answer for before its parts are there.
FreshInStep ==
  phase \in {"pool", "seeding", "starting"} =>
    /\ cur \notin faulted /\ dead = {}
    /\ phase = "starting" => \A p \in Fallible : <<p, cur>> \notin tasks

\* Only a manager or an engine dies, and is then gone.
DeadInStep ==
  /\ dead \subseteq Fallible
  /\ dead # {} => cur \in faulted
  /\ \A p \in dead : <<p, cur>> \notin tasks

\* Tasks are those of the run, between its start and the end of its finally
\* block, or what a run that failed has skipped in it.
NothingLeft ==
  \A t \in tasks :
    \/ t[2] = cur /\ phase \in {"starting", "waiting", "stopping"}
    \/ t[2] \in faulted /\ t[1] \notin Fallible /\ sup # "stopped"

IInv ==
  /\ TypeOK /\ PoolInStep /\ ManagerInStep /\ FreshInStep
  /\ StoppedInStep /\ DeadInStep /\ NothingLeft /\ WriterOutlivesFeed

--------------------------------------------------------------------------------
(* The finally blocks.                                                     *)

LEMMA StopOrders ==
  ASSUME service \in {"ingest", "symbols", "analytics"}
  PROVE  /\ service = "ingest" =>
              /\ StopOrder = <<"feed", "writer">> /\ Parts = {"feed", "writer"}
         /\ service = "symbols" =>
              /\ StopOrder = <<"manager", "feed">> /\ Parts = {"manager", "feed"}
         /\ service = "analytics" =>
              /\ StopOrder = <<"engine", "feed", "writer">>
              /\ Parts = {"engine", "feed", "writer"}
<1>1. CASE service = "ingest"
  <2>1. StopOrder = <<"feed", "writer">>
    BY <1>1 DEF StopOrder
  <2>2. QED
    BY <1>1, <2>1 DEF Parts
<1>2. CASE service = "symbols"
  <2>1. StopOrder = <<"manager", "feed">>
    BY <1>2 DEF StopOrder
  <2>2. QED
    BY <1>2, <2>1 DEF Parts
<1>3. CASE service = "analytics"
  <2>1. StopOrder = <<"engine", "feed", "writer">>
    BY <1>3 DEF StopOrder
  <2>2. QED
    BY <1>3, <2>1 DEF Parts
<1>4. QED
  BY <1>1, <1>2, <1>3

\* What the proofs need of an order: the parts are its elements, and the feed
\* comes before the writer.
LEMMA OrderFacts ==
  ASSUME service \in {"ingest", "symbols", "analytics"}
  PROVE  /\ Len(StopOrder) \in Nat \ {0}
         /\ \A p \in Parts : \E k \in 1..Len(StopOrder) : StopOrder[k] = p
         /\ \A k \in 1..Len(StopOrder) : StopOrder[k] \in Parts
         /\ \A k \in 1..Len(StopOrder) :
              StopOrder[k] = "writer" => \E j \in 1..(k - 1) : StopOrder[j] = "feed"
<1>1. CASE service = "ingest"
  BY <1>1, StopOrders
<1>2. CASE service = "symbols"
  <2>1. StopOrder = <<"manager", "feed">> /\ Parts = {"manager", "feed"}
    BY <1>2, StopOrders
  <2>2. Len(StopOrder) = 2 /\ StopOrder[1] = "manager" /\ StopOrder[2] = "feed"
    BY <2>1
  <2>3. 1..2 = {1, 2}
    OBVIOUS
  <2>4. \A k \in 1..Len(StopOrder) : StopOrder[k] # "writer"
    BY <2>2, <2>3
  <2>5. QED
    BY <2>1, <2>2, <2>3, <2>4
<1>3. CASE service = "analytics"
  <2>1. StopOrder = <<"engine", "feed", "writer">> /\ Parts = {"engine", "feed", "writer"}
    BY <1>3, StopOrders
  <2>2. Len(StopOrder) = 3
    BY <2>1
  <2>3. StopOrder[1] = "engine" /\ StopOrder[2] = "feed" /\ StopOrder[3] = "writer"
    BY <2>1
  <2>4. 1..3 = {1, 2, 3} /\ 2 \in 1..(3 - 1)
    OBVIOUS
  <2>5. \A k \in 1..Len(StopOrder) :
          StopOrder[k] = "writer" => \E j \in 1..(k - 1) : StopOrder[j] = "feed"
    <3>1. ASSUME NEW k \in 1..Len(StopOrder), StopOrder[k] = "writer"
          PROVE  k = 3
      BY <2>2, <2>3, <2>4, <3>1
    <3>2. QED
      BY <2>3, <2>4, <3>1
  <2>6. QED
    BY <2>1, <2>2, <2>3, <2>4, <2>5
<1>4. QED
  BY <1>1, <1>2, <1>3

LEMMA FrameFacts ==
  ASSUME UNCHANGED service
  PROVE  UNCHANGED <<StopOrder, Parts, Fallible>>
<1>1. UNCHANGED StopOrder
  BY DEF StopOrder
<1>2. QED
  BY <1>1 DEF Parts, Fallible

\* A service has one part that can die, at most.
LEMMA OneFallible ==
  ASSUME service \in {"ingest", "symbols", "analytics"}
  PROVE  \A p, q \in Fallible : p = q
BY StopOrders DEF Fallible

LEMMA InitInv == Init => IInv
<1> SUFFICES ASSUME Init PROVE IInv
  OBVIOUS
<1>1. Len(StopOrder) \in Nat
  BY OrderFacts DEF Init
<1>2. TypeOK /\ PoolInStep /\ ManagerInStep
  <2>1. stopped \in 0..Len(StopOrder)
    BY <1>1 DEF Init
  <2>2. QED
    BY <2>1 DEF Init, TypeOK, PoolInStep, ManagerInStep, Running
<1>3. FreshInStep /\ StoppedInStep /\ DeadInStep /\ NothingLeft /\ WriterOutlivesFeed
  BY DEF Init, FreshInStep, StoppedInStep, DeadInStep,
       NothingLeft, WriterOutlivesFeed
<1>4. QED
  BY <1>2, <1>3 DEF IInv

--------------------------------------------------------------------------------
(* The steps.                                                              *)

LEMMA KeepPoolOpens ==
  ASSUME IInv, PoolOpens, UNCHANGED <<service, StopOrder, Parts, Fallible>>
  PROVE  IInv'
<1> USE DEF IInv, PoolOpens, Launch
<1>1. TypeOK'
  <2>1. {<<p, cur>> : p \in Parts \ {"manager"}} \subseteq Parts \X RunId
    BY DEF TypeOK
  <2>2. tasks' \subseteq Parts' \X RunId
    BY <2>1 DEF TypeOK
  <2>3. QED
    BY <2>2 DEF TypeOK, Running
<1>2. PoolInStep' /\ ManagerInStep' /\ StoppedInStep'
  BY DEF TypeOK, PoolInStep, ManagerInStep, StoppedInStep, Running
<1>3. FreshInStep' /\ DeadInStep'
  <2>1. cur \notin faulted /\ dead = {}
    BY DEF FreshInStep
  <2>2. \A t \in tasks : t[2] # cur
    BY <2>1 DEF NothingLeft
  <2>3. phase' = "starting" => \A p \in Fallible : <<p, cur>> \notin tasks'
    BY <2>2, OneFallible DEF TypeOK, Fallible
  <2>4. QED
    BY <2>1, <2>3 DEF FreshInStep, DeadInStep
<1>4. NothingLeft'
  BY DEF TypeOK, FreshInStep, NothingLeft, PoolInStep
<1>5. WriterOutlivesFeed'
  BY DEF TypeOK, WriterOutlivesFeed
<1>6. QED
  BY <1>1, <1>2, <1>3, <1>4, <1>5

LEMMA KeepSeeded ==
  ASSUME IInv, Seeded, UNCHANGED <<service, StopOrder, Parts, Fallible>>
  PROVE  IInv'
<1> USE DEF IInv, Seeded, Launch
<1>1. TypeOK'
  <2>1. {<<p, cur>> : p \in Parts \ {"manager"}} \subseteq Parts \X RunId
    BY DEF TypeOK
  <2>2. tasks' \subseteq Parts' \X RunId
    BY <2>1 DEF TypeOK
  <2>3. QED
    BY <2>2 DEF TypeOK, Running
<1>2. PoolInStep' /\ ManagerInStep' /\ StoppedInStep'
  BY DEF TypeOK, PoolInStep, ManagerInStep, StoppedInStep, Running
<1>3. FreshInStep' /\ DeadInStep'
  <2>1. cur \notin faulted /\ dead = {}
    BY DEF FreshInStep
  <2>2. \A t \in tasks : t[2] # cur
    BY <2>1 DEF NothingLeft
  <2>3. phase' = "starting" => \A p \in Fallible : <<p, cur>> \notin tasks'
    BY <2>2, OneFallible DEF TypeOK, Fallible
  <2>4. QED
    BY <2>1, <2>3 DEF FreshInStep, DeadInStep
<1>4. NothingLeft'
  BY DEF TypeOK, FreshInStep, NothingLeft, PoolInStep
<1>5. WriterOutlivesFeed'
  BY DEF TypeOK, WriterOutlivesFeed
<1>6. QED
  BY <1>1, <1>2, <1>3, <1>4, <1>5

LEMMA KeepSeedFails ==
  ASSUME IInv, SeedFails, UNCHANGED <<service, StopOrder, Parts, Fallible>>
  PROVE  IInv'
BY DEF TypeOK, PoolInStep, ManagerInStep, FreshInStep, StoppedInStep, DeadInStep,
       NothingLeft, WriterOutlivesFeed,
       IInv, Running, runner, SeedFails

LEMMA KeepManagerStarts ==
  ASSUME IInv, ManagerStarts, UNCHANGED <<service, StopOrder, Parts, Fallible>>
  PROVE  IInv'
<1> USE DEF IInv, ManagerStarts
<1>1. TypeOK'
  BY DEF TypeOK, Running, ManagerInStep
<1>2. PoolInStep' /\ ManagerInStep' /\ FreshInStep' /\ StoppedInStep' /\ DeadInStep'
  BY DEF TypeOK, PoolInStep, ManagerInStep, FreshInStep, StoppedInStep, DeadInStep,
      NothingLeft, Fallible, Running
<1>3. NothingLeft'
  BY DEF TypeOK, NothingLeft, ManagerInStep
<1>4. WriterOutlivesFeed'
  BY DEF TypeOK, WriterOutlivesFeed
<1>5. QED
  BY <1>1, <1>2, <1>3, <1>4

LEMMA KeepManagerStartFails ==
  ASSUME IInv, ManagerStartFails, UNCHANGED <<service, StopOrder, Parts, Fallible>>
  PROVE  IInv'
BY DEF TypeOK, PoolInStep, ManagerInStep, FreshInStep, StoppedInStep, DeadInStep,
       NothingLeft, WriterOutlivesFeed,
       IInv, Running, runner, ManagerStartFails

LEMMA KeepStopSeen ==
  ASSUME IInv, StopSeen, UNCHANGED <<service, StopOrder, Parts, Fallible>>
  PROVE  IInv'
<1> USE DEF IInv, StopSeen
<1>1. TypeOK'
  BY DEF TypeOK, Running, ManagerInStep
<1>2. PoolInStep' /\ ManagerInStep' /\ FreshInStep' /\ StoppedInStep' /\ DeadInStep'
  BY OrderFacts DEF TypeOK, PoolInStep, ManagerInStep, FreshInStep, StoppedInStep, DeadInStep,
      NothingLeft, Fallible, Running
<1>3. NothingLeft'
  BY DEF TypeOK, FreshInStep, NothingLeft, PoolInStep
<1>4. WriterOutlivesFeed'
  BY DEF TypeOK, WriterOutlivesFeed
<1>5. QED
  BY <1>1, <1>2, <1>3, <1>4

LEMMA KeepPoolFails ==
  ASSUME IInv, PoolFails, UNCHANGED <<service, StopOrder, Parts, Fallible>>
  PROVE  IInv'
BY DEF TypeOK, PoolInStep, ManagerInStep, FreshInStep, StoppedInStep, DeadInStep,
       NothingLeft, WriterOutlivesFeed,
       IInv, Running, runner, PoolFails, RunReturns, Finish

LEMMA KeepPoolCloses ==
  ASSUME IInv, PoolCloses, UNCHANGED <<service, StopOrder, Parts, Fallible>>
  PROVE  IInv'
BY DEF TypeOK, PoolInStep, ManagerInStep, FreshInStep, StoppedInStep, DeadInStep,
       NothingLeft, WriterOutlivesFeed,
       IInv, Running, runner, PoolCloses, RunReturns, Finish

LEMMA KeepRestart ==
  ASSUME IInv, Restart, UNCHANGED <<service, StopOrder, Parts, Fallible>>
  PROVE  IInv'
BY DEF TypeOK, PoolInStep, ManagerInStep, FreshInStep, StoppedInStep, DeadInStep,
       NothingLeft, WriterOutlivesFeed,
       IInv, Running, runner, Restart, Finish, Unused

LEMMA KeepSignal ==
  ASSUME IInv, Signal, UNCHANGED <<service, StopOrder, Parts, Fallible>>
  PROVE  IInv'
BY DEF TypeOK, PoolInStep, ManagerInStep, FreshInStep, StoppedInStep, DeadInStep,
       NothingLeft, WriterOutlivesFeed,
       IInv, Running, runner, Signal

LEMMA KeepLoopDies ==
  ASSUME IInv, NEW p \in Fallible, LoopDies(p), UNCHANGED <<service, StopOrder, Parts, Fallible>>
  PROVE  IInv'
BY DEF TypeOK, PoolInStep, ManagerInStep, FreshInStep, StoppedInStep, DeadInStep,
       NothingLeft, WriterOutlivesFeed,
       IInv, Running, runner, LoopDies, Fallible

LEMMA KeepStopNextPart ==
  ASSUME IInv, StopNextPart, UNCHANGED <<service, StopOrder, Parts, Fallible>>
  PROVE  IInv'
<1> DEFINE p == StopOrder[stopped + 1]
<1> USE DEF IInv, StopNextPart
<1>1. stopped \in Nat /\ stopped < Len(StopOrder) /\ p \in Parts
  BY OrderFacts DEF TypeOK, StoppedInStep
<1>2. CASE p \in dead
  <2>1. TypeOK' /\ PoolInStep' /\ ManagerInStep' /\ FreshInStep' /\ StoppedInStep'
    BY <1>2 DEF TypeOK, PoolInStep, ManagerInStep, FreshInStep, StoppedInStep, Running
  <2>2. DeadInStep' /\ WriterOutlivesFeed'
    BY <1>2 DEF DeadInStep, WriterOutlivesFeed
  \* What the finally block leaves is not what can die: that has died.
  <2>3. cur \in faulted /\ \A q \in Fallible : <<q, cur>> \notin tasks
    BY <1>2, OneFallible DEF TypeOK, DeadInStep
  <2>4. ASSUME NEW t \in tasks, t[2] = cur
        PROVE  t[1] \notin Fallible
    BY <2>3, <2>4 DEF TypeOK
  <2>5. NothingLeft'
    BY <1>2, <2>3, <2>4 DEF NothingLeft, PoolInStep
  <2>6. QED
    BY <2>1, <2>2, <2>5
<1>3. CASE p \notin dead
  <2>1. TypeOK' /\ PoolInStep' /\ ManagerInStep' /\ FreshInStep'
    BY <1>1, <1>3 DEF TypeOK, PoolInStep, ManagerInStep, FreshInStep, Running
  <2>2. \A k \in 1..(stopped + 1) : <<StopOrder[k], cur>> \notin tasks'
    BY <1>1, <1>3 DEF StoppedInStep
  <2>3. StoppedInStep' /\ DeadInStep'
    BY <1>1, <1>3, <2>2 DEF StoppedInStep, DeadInStep
  <2>4. NothingLeft'
    <3>1. CASE stopped + 1 = Len(StopOrder)
      <4>1. \A q \in Parts : <<q, cur>> \notin tasks'
        BY <2>2, <3>1, OrderFacts DEF TypeOK
      <4>2. \A t \in tasks' : t[2] # cur
        BY <1>3, <4>1 DEF TypeOK
      <4>3. QED
        BY <1>3, <4>2 DEF NothingLeft
    <3>2. CASE stopped + 1 # Len(StopOrder)
      BY <1>3, <3>2 DEF NothingLeft
    <3>3. QED
      BY <3>1, <3>2
  <2>5. WriterOutlivesFeed'
    <3>1. ASSUME p = "writer", "writer" \in Parts
          PROVE  <<"feed", cur>> \notin tasks
      BY <1>1, <3>1, OrderFacts DEF TypeOK, StoppedInStep
    <3>2. QED
      BY <1>3, <3>1 DEF WriterOutlivesFeed
  <2>6. QED
    BY <2>1, <2>3, <2>4, <2>5
<1>4. QED
  BY <1>2, <1>3

LEMMA StepInv == IInv /\ [Next]_vars => IInv'
<1> SUFFICES ASSUME IInv, [Next]_vars PROVE IInv'
  OBVIOUS
<1>1. CASE UNCHANGED vars
  BY <1>1, FrameFacts DEF vars, runner, IInv, TypeOK, PoolInStep, ManagerInStep,
                          FreshInStep, StoppedInStep, DeadInStep,
       NothingLeft, WriterOutlivesFeed
<1>2. CASE Next
  <2>1. UNCHANGED <<service, StopOrder, Parts, Fallible>>
    BY <1>2, FrameFacts DEF Next
  <2>2. CASE Runner
    <3>1. CASE PoolOpens
      BY <2>1, <3>1, KeepPoolOpens
    <3>2. CASE PoolFails
      BY <2>1, <3>2, KeepPoolFails
    <3>3. CASE Seeded
      BY <2>1, <3>3, KeepSeeded
    <3>4. CASE SeedFails
      BY <2>1, <3>4, KeepSeedFails
    <3>5. CASE ManagerStarts
      BY <2>1, <3>5, KeepManagerStarts
    <3>6. CASE ManagerStartFails
      BY <2>1, <3>6, KeepManagerStartFails
    <3>7. CASE StopSeen
      BY <2>1, <3>7, KeepStopSeen
    <3>8. CASE StopNextPart
      BY <2>1, <3>8, KeepStopNextPart
    <3>9. CASE PoolCloses
      BY <2>1, <3>9, KeepPoolCloses
    <3>10. QED
      BY <2>2, <3>1, <3>2, <3>3, <3>4, <3>5, <3>6, <3>7, <3>8, <3>9 DEF Runner
  <2>3. CASE Restart
    BY <2>1, <2>3, KeepRestart
  <2>4. CASE Fault
    BY <2>1, <2>4, KeepLoopDies DEF Fault
  <2>5. CASE Signal
    BY <2>1, <2>5, KeepSignal
  <2>6. QED
    BY <1>2, <2>2, <2>3, <2>4, <2>5 DEF Next
<1>3. QED
  BY <1>1, <1>2

--------------------------------------------------------------------------------
(* The theorems.                                                           *)

\* The inductive invariant holds of every behaviour.
THEOREM Invariance == Spec => []IInv
<1>1. QED
  BY InitInv, StepInv, PTL DEF Spec

\* Every variable keeps its type; the finally block never runs past its last part.
THEOREM TypeCorrect == Spec => []TypeOK
<1>1. IInv => TypeOK
  BY DEF IInv
<1>2. QED
  BY <1>1, Invariance, PTL

\* However often the service restarts, a run leaves nothing behind unless a part
\* of it failed, and then neither its manager nor its engine.
THEOREM PartsEndWithRun == Spec => []PartsWithinTheirRun
<1>1. IInv => PartsWithinTheirRun
  BY DEF IInv, TypeOK, Running, PoolInStep, NothingLeft, PartsWithinTheirRun
<1>2. QED
  BY <1>1, Invariance, PTL

\* With faults or without, no feed emits to a writer that has stopped.
THEOREM WriterOutlives == Spec => []WriterOutlivesFeed
<1>1. IInv => WriterOutlivesFeed
  BY DEF IInv
<1>2. QED
  BY <1>1, Invariance, PTL

\* With any number of crashed runs behind it, a service holds one pool at most.
THEOREM OnePoolAtATime == Spec => []OnePool
<1>1. IInv => OnePool
  BY DEF IInv, PoolInStep, OnePool
<1>2. QED
  BY <1>1, Invariance, PTL

================================================================================
