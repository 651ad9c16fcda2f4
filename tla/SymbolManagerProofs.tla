-------------------------- MODULE SymbolManagerProofs --------------------------
(***************************************************************************)
(* The safety of SymbolManager for every universe of symbols, every        *)
(* configuration and every grace period.                                   *)
(***************************************************************************)
EXTENDS SymbolManager, TLAPS

(* What the cycle keeps between its awaits, beyond the properties.         *)

\* The feed is one call ahead of the manager's belief, never more.
FeedInStep ==
  /\ phase \notin {"unsubscribing", "dead"} => streamed = subscribed
  /\ phase = "unsubscribing" => streamed = subscribed \cup Watchlist
  /\ phase = "idle" => subscribed = Watchlist
  /\ Watchlist \cap subscribed \subseteq streamed
  /\ streamed \subseteq subscribed \cup Watchlist

\* A promoted symbol carries the tag and is on the watchlist's tier, in memory
\* and in the table.
SpikeInStep ==
  /\ spike = tagged /\ spike \subseteq Tracked
  /\ \A b \in spike : tier[b] = WATCH
  /\ \A b \in Base : table[b] # None /\ table[b].spike => table[b].tier = WATCH

\* What a spike owes is promoted, and the table says so where it is up to date.
DueInStep ==
  /\ phase \in Cycle \cup {"idle"} => due \subseteq spike
  /\ \A b \in due \ (todo \cup reseeded) : table[b] # None /\ table[b].spike

\* Only a refresh and its exceptions leave symbols to do.
TodoInStep == phase \notin {"persisting", "dead"} => todo = {}

TodoIsTracked == todo \subseteq Tracked

\* Changes are at hand while they are written, each with its row or a row to come.
ChangesInStep ==
  /\ phase \notin {"persisting", "logging", "dead"} => changes = {}
  /\ phase = "dead" => Pending \subseteq dropped
  /\ phase \in {"persisting", "logging"} =>
       \A c \in changes : /\ c.base \in Tracked /\ c.to = tier[c.base]
                          /\ c.base \in todo \/ table[c.base] # None

\* The code counts no more calm cycles than there were.
CalmIsReal == \A b \in Base : calm[b] <= calmSeen[b]

IInv ==
  /\ TypeOK
  /\ TodoIsTracked
  /\ TodoInStep
  /\ SpikeInStep
  /\ FeedInStep
  /\ TableMatchesMemory
  /\ ChangesInStep
  /\ TransitionsLogged
  /\ CalmIsReal
  /\ DueInStep

\* Every step is one of the cycle, an exception, a new process or a seeding.
LEMMA NextCases ==
  ASSUME Next
  PROVE  \/ LoadExisting
         \/ \E active, top, spiking \in SUBSET Base :
              top \subseteq active /\ spiking \subseteq active /\ Fetched(active, top, spiking)
         \/ \E b \in todo : Persist(b)
         \/ \E c \in changes : LogChange(c)
         \/ Record \/ Subscribe \/ Unsubscribe \/ Sleep
         \/ Raise \/ NewProcess
         \/ \E b \in Seeds : Reseed(b)
BY DEF Next, RefreshCycle

LEMMA InitInv == Init => IInv
<1> SUFFICES ASSUME Init PROVE IInv
  OBVIOUS
<1>1. TypeOK
  <2>1. /\ phase \in Cycle \cup {"loading", "idle", "dead"}
        /\ status \in [Base -> {"absent", "trading", "frozen"}] /\ tier \in [Base -> Tier]
        /\ spike \subseteq Base /\ tagged \subseteq Base
    BY DEF Init, Tier, REST
  <2>2. calm \in [Base -> 0..(Grace - 1)] /\ calmSeen \in [Base -> 0..Grace]
    BY SettingAssumption DEF Init
  <2>3. /\ todo \subseteq Base /\ changes \subseteq Change
        /\ subscribed \subseteq Base /\ streamed \subseteq Base
        /\ reseeded \subseteq Seeds /\ due \subseteq Base
        /\ owed \subseteq Base /\ dropped \subseteq Base
    BY SymbolAssumption DEF Init
  <2>4. table \in [Base -> Row \cup {None}]
    BY DEF Init
  <2>5. QED
    BY <2>1, <2>2, <2>3, <2>4 DEF TypeOK
<1>2. TodoIsTracked /\ TodoInStep /\ SpikeInStep /\ FeedInStep
  BY DEF Init, TodoIsTracked, TodoInStep, SpikeInStep, FeedInStep, Watchlist
<1>3. TableMatchesMemory /\ ChangesInStep /\ TransitionsLogged
  BY DEF Init, TableMatchesMemory, Tracked, ChangesInStep, TransitionsLogged, Cycle
<1>4. CalmIsReal /\ DueInStep
  BY DEF Init, CalmIsReal, DueInStep, Cycle
<1>5. QED
  BY <1>1, <1>2, <1>3, <1>4 DEF IInv

--------------------------------------------------------------------------------
(* Types.                                                                  *)

\* The tiers and reasons the refresh assigns are tiers and reasons.
LEMMA TierTypes ==
  ASSUME NEW b, NEW top, NEW promoted
  PROVE  /\ BaseTier(b, top) \in Tier
         /\ TierAfter(b, top, promoted) \in Tier
         /\ \A from, to : TierReason(b, from, to, top) \in Reason
BY DEF BaseTier, TierAfter, TierReason, Tier, Reason, CORE, WATCH, REST

\* The synchronous middle of a cycle keeps every type.
LEMMA RefreshTypes ==
  ASSUME TypeOK, NEW active \in SUBSET Base, NEW top \in SUBSET Base,
         NEW spiking \in SUBSET Base, Refresh(active, top, spiking)
  PROVE  /\ status' \in [Base -> {"absent", "trading", "frozen"}] /\ tier' \in [Base -> Tier]
         /\ spike' \subseteq Base /\ tagged' \subseteq Base
         /\ calm' \in [Base -> 0..(Grace - 1)]
         /\ changes' \subseteq Change
         /\ calmSeen' \in [Base -> 0..Grace]
         /\ due' \subseteq Base
<1> DEFINE minor == Minor(active, top)
           promoted == SpikeAfter(active, top, spiking)
<1>1. minor \subseteq Base
  BY DEF Minor
<1>2. promoted \subseteq Base
  BY <1>1 DEF TypeOK, SpikeAfter, Promoted
<1>3. status' \in [Base -> {"absent", "trading", "frozen"}]
  BY DEF Refresh, TypeOK
<1>4. tier' \in [Base -> Tier]
  BY TierTypes DEF Refresh, TypeOK
<1>5. spike' \subseteq Base /\ tagged' \subseteq Base
  BY <1>2 DEF Refresh, TypeOK
<1>6. calm' \in [Base -> 0..(Grace - 1)]
  <2>1. \A b \in Base : calm[b] \in 0..(Grace - 1)
    BY DEF TypeOK
  <2>2. \A b \in Calm(minor, spiking) \ Demoted(minor, spiking) : ~(calm[b] + 1 >= Grace)
    BY DEF Demoted
  <2>3. \A b \in Base : b \in Calm(minor, spiking) \ Demoted(minor, spiking)
                        => calm[b] + 1 \in 0..(Grace - 1)
    BY <2>1, <2>2, SettingAssumption
  <2>4. 0 \in 0..(Grace - 1)
    BY SettingAssumption
  <2>5. QED
    BY <2>1, <2>3, <2>4 DEF Refresh
<1>7. calmSeen' \in [Base -> 0..Grace]
  <2>1. \A b \in Base : calmSeen[b] \in 0..Grace
    BY DEF TypeOK
  <2>2. \A b \in Base : calmSeen[b] < Grace => calmSeen[b] + 1 \in 0..Grace
    BY <2>1, SettingAssumption
  <2>3. 0 \in 0..Grace
    BY SettingAssumption
  <2>4. QED
    BY <2>1, <2>2, <2>3 DEF Refresh
<1>8. changes' \subseteq Change
  <2>1. Delisted(active) \subseteq Change
    BY DEF Delisted, Change, Reason, TypeOK
  <2>2. Retiered(active, top, promoted) \subseteq Change
    BY TierTypes DEF Retiered, Change, TypeOK
  <2>3. QED
    BY <2>1, <2>2 DEF Refresh
<1>9. due' \subseteq Base
  BY <1>1 DEF Refresh, Promoted, TypeOK
<1>10. QED
  BY <1>3, <1>4, <1>5, <1>6, <1>7, <1>8, <1>9

LEMMA TypeStep ==
  ASSUME TypeOK, TodoIsTracked, [Next]_vars
  PROVE  TypeOK'
<1> USE DEF memory, feed, history
<1>1. CASE LoadExisting
  BY <1>1 DEF LoadExisting, TypeOK, Row, Tier, REST, Cycle
<1>2. ASSUME NEW active \in SUBSET Base, NEW top \in SUBSET Base, NEW spiking \in SUBSET Base,
             Fetched(active, top, spiking)
      PROVE  TypeOK'
  <2>1. Refresh(active, top, spiking)
    BY <1>2 DEF Fetched
  <2>2. phase' \in Cycle /\ todo' \subseteq Base
    BY <1>2 DEF Fetched, Cycle, Tracked
  <2>3. QED
    BY <1>2, <2>1, <2>2, RefreshTypes DEF Fetched, TypeOK
<1>3. ASSUME NEW b \in todo, Persist(b)
      PROVE  TypeOK'
  <2>1. b \in Base /\ status[b] # "absent"
    BY DEF TodoIsTracked, Tracked
  <2>2. status[b] \in {"trading", "frozen"} /\ tier[b] \in Tier
    BY <2>1 DEF TypeOK
  <2>3. QED
    BY <1>3, <2>1, <2>2 DEF Persist, InMemory, TypeOK, Cycle, Row
<1>4. ASSUME NEW c \in changes, LogChange(c)
      PROVE  TypeOK'
  BY <1>4 DEF LogChange, TypeOK, Cycle
<1>5. CASE Record
  BY <1>5 DEF Record, TypeOK, Cycle
<1>6. CASE Subscribe
  BY <1>6 DEF Subscribe, TypeOK, Cycle, Watchlist
<1>7. CASE Unsubscribe
  BY <1>7 DEF Unsubscribe, TypeOK, Watchlist
<1>8. CASE Sleep
  BY <1>8 DEF Sleep, TypeOK, Cycle
<1>9. CASE Raise
  <2>1. Pending \subseteq Base
    BY DEF Pending, TypeOK, Change
  <2>2. QED
    BY <1>9, <2>1 DEF Raise, TypeOK, Watchlist
<1>10. CASE NewProcess
  <2>1. Pending \subseteq Base
    BY DEF Pending, TypeOK, Change
  <2>2. QED
    BY <1>10, <2>1, SymbolAssumption, SettingAssumption
       DEF NewProcess, Fresh, TypeOK, Tier, CORE, WATCH, REST
<1>11. ASSUME NEW b \in Seeds, Reseed(b)
       PROVE  TypeOK'
  BY <1>11, SymbolAssumption DEF Reseed, TypeOK, SeedRow, SeedTier, Row, Tier, CORE, WATCH
<1>12. CASE UNCHANGED vars
  BY <1>12 DEF vars, TypeOK
<1>13. QED
  BY <1>1, <1>2, <1>3, <1>4, <1>5, <1>6, <1>7, <1>8, <1>9, <1>10, <1>11, <1>12, NextCases

--------------------------------------------------------------------------------
(* The parts of the invariant, one lemma each.                             *)

LEMMA TodoStep ==
  ASSUME TypeOK, TodoIsTracked, TodoInStep, [Next]_vars
  PROVE  TodoIsTracked' /\ TodoInStep'
<1> USE DEF TodoIsTracked, TodoInStep, Tracked, memory, feed, history
<1>1. CASE LoadExisting
  BY <1>1 DEF LoadExisting
<1>2. ASSUME NEW active \in SUBSET Base, NEW top \in SUBSET Base, NEW spiking \in SUBSET Base,
             Fetched(active, top, spiking)
      PROVE  TodoIsTracked' /\ TodoInStep'
  <2>1. \A b \in Base : status'[b] = IF b \in active THEN "trading"
                                   ELSE IF status[b] = "absent" THEN "absent" ELSE "frozen"
    BY <1>2 DEF Fetched, Refresh
  <2>2. /\ todo' = Tracked \cup active
        /\ phase' = IF todo' = {} THEN "recording" ELSE "persisting"
    BY <1>2 DEF Fetched
  <2>3. QED
    BY <2>1, <2>2
<1>3. ASSUME NEW b \in todo, Persist(b)
      PROVE  TodoIsTracked' /\ TodoInStep'
  BY <1>3 DEF Persist
<1>4. ASSUME NEW c \in changes, LogChange(c)
      PROVE  TodoIsTracked' /\ TodoInStep'
  BY <1>4 DEF LogChange
<1>5. CASE Record \/ Subscribe \/ Unsubscribe \/ Sleep \/ Raise
  BY <1>5 DEF Record, Subscribe, Unsubscribe, Sleep, Raise
<1>6. CASE NewProcess
  BY <1>6 DEF NewProcess, Fresh
<1>7. ASSUME NEW b \in Seeds, Reseed(b)
      PROVE  TodoIsTracked' /\ TodoInStep'
  BY <1>7 DEF Reseed
<1>8. CASE UNCHANGED vars
  BY <1>8 DEF vars
<1>9. QED
  BY <1>1, <1>2, <1>3, <1>4, <1>5, <1>6, <1>7, <1>8, NextCases

\* What the refresh does to the promoted symbols: an active one is promoted
\* exactly if it carries the tag, and it is on the watchlist's tier.
LEMMA RefreshSpike ==
  ASSUME TypeOK, SpikeInStep, NEW active \in SUBSET Base, NEW top \in SUBSET Base,
         NEW spiking \in SUBSET Base, Refresh(active, top, spiking)
  PROVE  /\ spike' = tagged' /\ \A b \in spike' : tier'[b] = WATCH
         /\ spike' \subseteq spike \cup active
<1> DEFINE minor == Minor(active, top)
           promoted == SpikeAfter(active, top, spiking)
<1>1. minor = {b \in active : BaseTier(b, top) = REST}
  BY DEF Minor
<1>2. spike' = promoted /\ tagged' = (tagged \ active) \cup (promoted \cap minor)
  BY DEF Refresh
<1>3. promoted = ((spike \ (active \ minor)) \ Demoted(minor, spiking)) \cup (minor \cap spiking)
  BY DEF SpikeAfter, Promoted
<1>4. Demoted(minor, spiking) \subseteq minor
  BY DEF Demoted, Calm
<1>5. promoted \cap active \subseteq minor
  BY <1>3
<1>6. promoted \ active = spike \ active
  BY <1>1, <1>3, <1>4
<1>7. spike = tagged
  BY DEF SpikeInStep
<1>8. spike' = tagged'
  BY <1>1, <1>2, <1>5, <1>6, <1>7
<1>9. ASSUME NEW b \in promoted
      PROVE  tier'[b] = WATCH
  <2>1. b \in Base
    BY <1>1, <1>3 DEF TypeOK
  <2>2. tier'[b] = IF b \in active THEN TierAfter(b, top, promoted) ELSE tier[b]
    BY <2>1 DEF Refresh
  <2>3. CASE b \in active
    BY <1>1, <1>5, <1>9, <2>2, <2>3 DEF TierAfter
  <2>4. CASE b \notin active
    BY <1>6, <1>9, <2>2, <2>4 DEF SpikeInStep
  <2>5. QED
    BY <2>3, <2>4
<1>10. spike' \subseteq spike \cup active
  BY <1>1, <1>2, <1>3
<1>11. QED
  BY <1>2, <1>8, <1>9, <1>10

LEMMA SpikeStep ==
  ASSUME TypeOK, SpikeInStep, TodoIsTracked, [Next]_vars
  PROVE  SpikeInStep'
<1> USE DEF SpikeInStep, Tracked, memory, feed, history
<1>1. CASE LoadExisting
  <2>1. \A b \in Base : table[b] # None => table[b].status # "absent"
    BY DEF TypeOK, Row
  <2>2. QED
    BY <1>1, <2>1 DEF LoadExisting, TypeOK
<1>2. ASSUME NEW active \in SUBSET Base, NEW top \in SUBSET Base, NEW spiking \in SUBSET Base,
             Fetched(active, top, spiking)
      PROVE  SpikeInStep'
  <2>1. Refresh(active, top, spiking) /\ table' = table
    BY <1>2 DEF Fetched
  <2>2. /\ spike' = tagged' /\ \A b \in spike' : tier'[b] = WATCH
        /\ spike' \subseteq spike \cup active
    BY <2>1, RefreshSpike
  <2>3. \A b \in Base : status'[b] = IF b \in active THEN "trading"
                                   ELSE IF status[b] = "absent" THEN "absent" ELSE "frozen"
    BY <2>1 DEF Refresh
  <2>4. spike' \subseteq Tracked'
    BY <2>2, <2>3
  <2>5. QED
    BY <2>1, <2>2, <2>4
<1>3. ASSUME NEW b \in todo, Persist(b)
      PROVE  SpikeInStep'
  <2>1. table' = [table EXCEPT ![b] = [tier |-> tier[b], status |-> status[b],
                                       spike |-> b \in tagged]]
        /\ UNCHANGED memory
    BY <1>3 DEF Persist, InMemory
  <2>2. b \in tagged => tier[b] = WATCH
    OBVIOUS
  <2>3. \A x \in Base : table'[x] # None /\ table'[x].spike => table'[x].tier = WATCH
    BY <2>1, <2>2 DEF TypeOK
  <2>4. QED
    BY <2>1, <2>3
<1>4. ASSUME NEW c \in changes, LogChange(c)
      PROVE  SpikeInStep'
  BY <1>4 DEF LogChange
<1>5. CASE Record \/ Subscribe \/ Unsubscribe \/ Sleep \/ Raise
  BY <1>5 DEF Record, Subscribe, Unsubscribe, Sleep, Raise
<1>6. CASE NewProcess
  BY <1>6 DEF NewProcess, Fresh
<1>7. ASSUME NEW b \in Seeds, Reseed(b)
      PROVE  SpikeInStep'
  BY <1>7 DEF Reseed, TypeOK, SeedRow
<1>8. CASE UNCHANGED vars
  BY <1>8 DEF vars
<1>9. QED
  BY <1>1, <1>2, <1>3, <1>4, <1>5, <1>6, <1>7, <1>8, NextCases

LEMMA FeedStep ==
  ASSUME TypeOK, FeedInStep, [Next]_vars
  PROVE  FeedInStep'
<1> USE DEF FeedInStep, memory, feed, history
<1>1. CASE LoadExisting
  BY <1>1 DEF LoadExisting
<1>2. ASSUME NEW active \in SUBSET Base, NEW top \in SUBSET Base, NEW spiking \in SUBSET Base,
             Fetched(active, top, spiking)
      PROVE  FeedInStep'
  <2>1. phase = "fetching" /\ phase' \in {"recording", "persisting"} /\ UNCHANGED feed
    BY <1>2 DEF Fetched
  <2>2. QED
    BY <2>1
<1>3. ASSUME NEW b \in todo, Persist(b)
      PROVE  FeedInStep'
  BY <1>3 DEF Persist, Watchlist
<1>4. ASSUME NEW c \in changes, LogChange(c)
      PROVE  FeedInStep'
  BY <1>4 DEF LogChange, Watchlist
<1>5. CASE Record
  BY <1>5 DEF Record, Watchlist
<1>6. CASE Subscribe
  BY <1>6 DEF Subscribe, Watchlist
<1>7. CASE Unsubscribe
  BY <1>7 DEF Unsubscribe, Watchlist
<1>8. CASE Sleep
  BY <1>8 DEF Sleep, Watchlist
<1>9. CASE Raise
  <2>1. /\ phase' = "dead" /\ UNCHANGED <<memory, subscribed>>
        /\ streamed' = CASE phase = "subscribing" -> streamed \cup (Watchlist \ subscribed)
                         [] phase = "unsubscribing" -> streamed \ (subscribed \ Watchlist)
                         [] OTHER -> streamed
    BY <1>9 DEF Raise
  <2>2. QED
    BY <2>1 DEF Watchlist
<1>10. CASE NewProcess
  BY <1>10 DEF NewProcess, Fresh, Watchlist
<1>11. ASSUME NEW b \in Seeds, Reseed(b)
       PROVE  FeedInStep'
  BY <1>11 DEF Reseed, Watchlist
<1>12. CASE UNCHANGED vars
  BY <1>12 DEF vars, Watchlist
<1>13. QED
  BY <1>1, <1>2, <1>3, <1>4, <1>5, <1>6, <1>7, <1>8, <1>9, <1>10, <1>11, <1>12, NextCases

LEMMA TableStep ==
  ASSUME TypeOK, TodoIsTracked, TableMatchesMemory, [Next]_vars
  PROVE  TableMatchesMemory'
<1> USE DEF TableMatchesMemory, InMemory, Tracked, Cycle, memory, feed, history
<1>1. CASE LoadExisting
  <2>1. /\ status' = [b \in Base |-> IF table[b] = None THEN "absent" ELSE table[b].status]
        /\ tier' = [b \in Base |-> IF table[b] = None THEN REST ELSE table[b].tier]
        /\ tagged' = {b \in Base : table[b] # None /\ table[b].spike}
        /\ UNCHANGED table
    BY <1>1 DEF LoadExisting
  <2>2. ASSUME NEW b \in Tracked'
        PROVE  table'[b] = InMemory(b)'
    <3>1. table[b] \in Row
      BY <2>1, <2>2 DEF TypeOK
    <3>2. QED
      BY <2>1, <2>2, <3>1 DEF Row
  <2>3. QED
    BY <2>2
<1>2. ASSUME NEW active \in SUBSET Base, NEW top \in SUBSET Base, NEW spiking \in SUBSET Base,
             Fetched(active, top, spiking)
      PROVE  TableMatchesMemory'
  <2>1. \A b \in Base : status'[b] = IF b \in active THEN "trading"
                                   ELSE IF status[b] = "absent" THEN "absent" ELSE "frozen"
    BY <1>2 DEF Fetched, Refresh
  <2>2. todo' = Tracked \cup active
    BY <1>2 DEF Fetched
  <2>3. Tracked' \subseteq todo'
    BY <2>1, <2>2
  <2>4. QED
    BY <2>2, <2>3
<1>3. ASSUME NEW b \in todo, Persist(b)
      PROVE  TableMatchesMemory'
  <2>1. /\ phase = "persisting" /\ todo' = todo \ {b} /\ reseeded' = reseeded \ {b}
        /\ table' = [table EXCEPT ![b] = InMemory(b)]
        /\ UNCHANGED memory
    BY <1>3 DEF Persist
  <2>2. ASSUME NEW x \in Tracked' \ (todo' \cup reseeded')
        PROVE  table'[x] = InMemory(x)'
    <3>1. CASE x = b
      BY <2>1, <3>1 DEF TypeOK
    <3>2. CASE x # b
      BY <2>1, <2>2, <3>2 DEF TypeOK
    <3>3. QED
      BY <3>1, <3>2
  <2>3. QED
    BY <2>2
<1>4. ASSUME NEW c \in changes, LogChange(c)
      PROVE  TableMatchesMemory'
  BY <1>4 DEF LogChange
<1>5. CASE Record
  BY <1>5 DEF Record
<1>6. CASE Subscribe
  BY <1>6 DEF Subscribe
<1>7. CASE Unsubscribe \/ Sleep
  BY <1>7 DEF Unsubscribe, Sleep
<1>8. CASE Raise
  BY <1>8 DEF Raise
<1>9. CASE NewProcess
  BY <1>9 DEF NewProcess, Fresh
<1>10. ASSUME NEW b \in Seeds, Reseed(b)
       PROVE  TableMatchesMemory'
  <2>1. /\ table' = [table EXCEPT ![b] = SeedRow(b)] /\ reseeded' = reseeded \cup {b}
        /\ UNCHANGED <<phase, memory, todo>>
    BY <1>10 DEF Reseed
  <2>2. \A x \in Base \ {b} : table'[x] = table[x]
    BY <2>1 DEF TypeOK
  <2>3. QED
    BY <2>1, <2>2
<1>11. CASE UNCHANGED vars
  BY <1>11 DEF vars
<1>12. QED
  BY <1>1, <1>2, <1>3, <1>4, <1>5, <1>6, <1>7, <1>8, <1>9, <1>10, <1>11, NextCases

\* The changes of a refresh are changes of symbols the cycle then persists, and
\* say the tier it persists.
LEMMA RefreshChanges ==
  ASSUME TypeOK, NEW active \in SUBSET Base, NEW top \in SUBSET Base,
         NEW spiking \in SUBSET Base, Refresh(active, top, spiking)
  PROVE  \A c \in changes' : c.base \in Tracked \cup active /\ c.to = tier'[c.base]
<1> DEFINE promoted == SpikeAfter(active, top, spiking)
<1>1. \A b \in Base : tier'[b] = IF b \in active THEN TierAfter(b, top, promoted) ELSE tier[b]
  BY DEF Refresh
<1>2. \A c \in Delisted(active) :
        c.base \in Tracked /\ c.base \in Base \ active /\ c.to = tier[c.base]
  BY DEF Delisted, Tracked
<1>3. \A c \in Retiered(active, top, promoted) :
        c.base \in active /\ c.to = TierAfter(c.base, top, promoted)
  BY DEF Retiered
<1>4. changes' = Delisted(active) \cup Retiered(active, top, promoted)
  BY DEF Refresh
<1> HIDE DEF promoted
<1>5. QED
  BY <1>1, <1>2, <1>3, <1>4

LEMMA ChangesStep ==
  ASSUME TypeOK, TodoIsTracked, ChangesInStep, [Next]_vars
  PROVE  ChangesInStep'
<1> USE DEF ChangesInStep, memory, feed, history
<1>1. CASE LoadExisting
  BY <1>1 DEF LoadExisting
<1>2. ASSUME NEW active \in SUBSET Base, NEW top \in SUBSET Base, NEW spiking \in SUBSET Base,
             Fetched(active, top, spiking)
      PROVE  ChangesInStep'
  <2>1. \A c \in changes' : c.base \in todo' /\ c.to = tier'[c.base]
    BY <1>2, RefreshChanges DEF Fetched
  <2>2. phase' = IF todo' = {} THEN "recording" ELSE "persisting"
    BY <1>2 DEF Fetched
  <2>3. \A b \in Base : status'[b] = IF b \in active THEN "trading"
                                   ELSE IF status[b] = "absent" THEN "absent" ELSE "frozen"
    BY <1>2 DEF Fetched, Refresh
  <2>4. todo' = Tracked \cup active
    BY <1>2 DEF Fetched
  <2>5. todo' \subseteq Tracked'
    BY <2>3, <2>4 DEF Tracked
  <2>6. QED
    BY <2>1, <2>2, <2>5
<1>3. ASSUME NEW b \in todo, Persist(b)
      PROVE  ChangesInStep'
  <2>1. /\ phase = "persisting" /\ todo' = todo \ {b} /\ UNCHANGED <<changes, status, tier>>
        /\ phase' \in {"persisting", "logging", "recording"}
        /\ phase' = "recording" => changes = {}
        /\ table' = [table EXCEPT ![b] = InMemory(b)]
    BY <1>3 DEF Persist
  <2>2. b \in Base /\ InMemory(b) \in Row
    BY DEF TodoIsTracked, Tracked, TypeOK, InMemory, Row
  <2>3. table'[b] # None /\ \A x \in Base \ {b} : table'[x] = table[x]
    BY <2>1, <2>2, NoneAssumption DEF TypeOK
  <2>4. \A c \in changes : c.base \in Base
    BY DEF TypeOK, Change
  <2>5. Tracked' = Tracked
    BY <2>1 DEF Tracked
  <2>6. QED
    BY <2>1, <2>3, <2>4, <2>5
<1>4. ASSUME NEW c \in changes, LogChange(c)
      PROVE  ChangesInStep'
  <2>1. /\ phase = "logging" /\ changes' = changes \ {c} /\ UNCHANGED <<todo, table, status, tier>>
        /\ phase' = IF changes' = {} THEN "recording" ELSE "logging"
    BY <1>4 DEF LogChange
  <2>2. Tracked' = Tracked
    BY <2>1 DEF Tracked
  <2>3. QED
    BY <2>1, <2>2
<1>5. CASE Record \/ Subscribe \/ Unsubscribe \/ Sleep
  BY <1>5 DEF Record, Subscribe, Unsubscribe, Sleep
<1>6. CASE Raise
  <2>1. phase' = "dead" /\ dropped' = dropped \cup Pending /\ UNCHANGED changes
    BY <1>6 DEF Raise
  <2>2. Pending' = Pending
    BY <2>1 DEF Pending
  <2>3. QED
    BY <2>1, <2>2
<1>7. CASE NewProcess
  BY <1>7 DEF NewProcess, Fresh
<1>8. ASSUME NEW b \in Seeds, Reseed(b)
      PROVE  ChangesInStep'
  <2>1. /\ table' = [table EXCEPT ![b] = SeedRow(b)]
        /\ UNCHANGED <<phase, todo, changes, dropped, status, tier>>
    BY <1>8 DEF Reseed
  <2>2. SeedRow(b) \in Row
    BY DEF SeedRow, SeedTier, Row, Tier
  <2>3. \A x \in Base : table[x] # None => table'[x] # None
    BY <2>1, <2>2, NoneAssumption DEF TypeOK
  <2>4. \A c \in changes : c.base \in Base
    BY DEF TypeOK, Change
  <2>5. Tracked' = Tracked /\ Pending' = Pending
    BY <2>1 DEF Tracked, Pending
  <2>6. QED
    BY <2>1, <2>3, <2>4, <2>5
<1>9. CASE UNCHANGED vars
  <2>1. UNCHANGED <<phase, todo, changes, dropped, table, tier, Tracked, Pending>>
    BY <1>9 DEF vars, Tracked, Pending
  <2>2. QED
    BY <2>1
<1>10. QED
  BY <1>1, <1>2, <1>3, <1>4, <1>5, <1>6, <1>7, <1>8, <1>9, NextCases

LEMMA LoggedStep ==
  ASSUME TypeOK, TodoInStep, ChangesInStep, TransitionsLogged, [Next]_vars
  PROVE  TransitionsLogged'
<1> USE DEF TransitionsLogged, Pending, memory, feed, history
<1>1. CASE LoadExisting
  BY <1>1 DEF LoadExisting
<1>2. ASSUME NEW active \in SUBSET Base, NEW top \in SUBSET Base, NEW spiking \in SUBSET Base,
             Fetched(active, top, spiking)
      PROVE  TransitionsLogged'
  <2>1. changes = {} /\ UNCHANGED <<owed, dropped>>
    BY <1>2 DEF Fetched, ChangesInStep
  <2>2. owed \subseteq dropped
    BY <2>1
  <2>3. QED
    BY <2>1, <2>2
<1>3. ASSUME NEW b \in todo, Persist(b)
      PROVE  TransitionsLogged'
  BY <1>3 DEF Persist
<1>4. ASSUME NEW c \in changes, LogChange(c)
      PROVE  TransitionsLogged'
  <2>1. /\ phase = "logging" /\ changes' = changes \ {c} /\ UNCHANGED dropped
        /\ owed' = IF table[c.base] = None THEN owed ELSE owed \ {c.base}
    BY <1>4 DEF LogChange
  <2>2. c.base \in Tracked /\ (c.base \in todo \/ table[c.base] # None)
    BY <2>1 DEF ChangesInStep
  <2>3. table[c.base] # None
    BY <1>4, <2>1, <2>2 DEF TodoInStep
  <2>4. QED
    BY <2>1, <2>3
<1>5. CASE Record \/ Subscribe \/ Unsubscribe \/ Sleep
  BY <1>5 DEF Record, Subscribe, Unsubscribe, Sleep
<1>6. CASE Raise
  BY <1>6 DEF Raise
<1>7. CASE NewProcess
  BY <1>7 DEF NewProcess, Fresh
<1>8. ASSUME NEW b \in Seeds, Reseed(b)
      PROVE  TransitionsLogged'
  BY <1>8 DEF Reseed
<1>9. CASE UNCHANGED vars
  BY <1>9 DEF vars
<1>10. QED
  BY <1>1, <1>2, <1>3, <1>4, <1>5, <1>6, <1>7, <1>8, <1>9, NextCases

\* The refresh counts a calm cycle at most when there was one.
LEMMA RefreshCalm ==
  ASSUME TypeOK, CalmIsReal, NEW active \in SUBSET Base, NEW top \in SUBSET Base,
         NEW spiking \in SUBSET Base, Refresh(active, top, spiking)
  PROVE  CalmIsReal'
<1> DEFINE minor == Minor(active, top)
<1> SUFFICES ASSUME NEW b \in Base
             PROVE  calm'[b] <= calmSeen'[b]
  BY DEF CalmIsReal
<1>1. calm[b] \in 0..(Grace - 1) /\ calmSeen[b] \in 0..Grace /\ calm[b] <= calmSeen[b]
  BY DEF TypeOK, CalmIsReal
<1>2. calm'[b] = IF b \in Promoted(minor, spiking) \cup Demoted(minor, spiking) THEN 0
                 ELSE IF b \in Calm(minor, spiking) THEN calm[b] + 1 ELSE calm[b]
  BY DEF Refresh
<1>3. calmSeen'[b] = IF b \in Promoted(minor, spiking) THEN 0
                     ELSE IF b \in Calm(minor, spiking) /\ calmSeen[b] < Grace
                          THEN calmSeen[b] + 1 ELSE calmSeen[b]
  BY DEF Refresh
<1> HIDE DEF minor
<1>4. QED
  BY <1>1, <1>2, <1>3, SettingAssumption

LEMMA CalmStep ==
  ASSUME TypeOK, CalmIsReal, [Next]_vars
  PROVE  CalmIsReal'
<1> USE DEF CalmIsReal, memory, feed, history
<1>1. CASE LoadExisting
  BY <1>1 DEF LoadExisting
<1>2. ASSUME NEW active \in SUBSET Base, NEW top \in SUBSET Base, NEW spiking \in SUBSET Base,
             Fetched(active, top, spiking)
      PROVE  CalmIsReal'
  BY <1>2, RefreshCalm DEF Fetched
<1>3. ASSUME NEW b \in todo, Persist(b)
      PROVE  CalmIsReal'
  BY <1>3 DEF Persist
<1>4. ASSUME NEW c \in changes, LogChange(c)
      PROVE  CalmIsReal'
  BY <1>4 DEF LogChange
<1>5. CASE Record \/ Subscribe \/ Unsubscribe \/ Sleep \/ Raise
  BY <1>5 DEF Record, Subscribe, Unsubscribe, Sleep, Raise
<1>6. CASE NewProcess
  <2>1. calm' = [b \in Base |-> 0] /\ calmSeen' = calmSeen
    BY <1>6 DEF NewProcess, Fresh
  <2>2. \A b \in Base : calmSeen[b] \in 0..Grace
    BY DEF TypeOK
  <2>3. QED
    BY <2>1, <2>2, SettingAssumption
<1>7. ASSUME NEW b \in Seeds, Reseed(b)
      PROVE  CalmIsReal'
  BY <1>7 DEF Reseed
<1>8. CASE UNCHANGED vars
  BY <1>8 DEF vars
<1>9. QED
  BY <1>1, <1>2, <1>3, <1>4, <1>5, <1>6, <1>7, <1>8, NextCases

\* A promoted symbol leaves for REST only by Demoted.
LEMMA RefreshGrace ==
  ASSUME TypeOK, CalmIsReal, NEW active \in SUBSET Base, NEW top \in SUBSET Base,
         NEW spiking \in SUBSET Base, Refresh(active, top, spiking),
         NEW b \in spike \ spike', tier'[b] = REST
  PROVE  calmSeen'[b] >= Grace
<1> DEFINE minor == Minor(active, top)
           promoted == SpikeAfter(active, top, spiking)
<1>1. b \in Base
  BY DEF TypeOK
<1>2. b \notin promoted
  BY DEF Refresh
<1>3. b \in (active \ minor) \cup Demoted(minor, spiking)
  BY <1>2 DEF SpikeAfter
<1>4. b \notin active \ minor
  <2>1. SUFFICES ASSUME b \in active \ minor
                 PROVE  FALSE
    OBVIOUS
  <2>2. BaseTier(b, top) # REST
    BY <2>1 DEF Minor
  <2>3. tier'[b] = BaseTier(b, top)
    BY <1>1, <2>1, <2>2 DEF Refresh, TierAfter
  <2>4. QED
    BY <2>2, <2>3
<1>5. b \in Calm(minor, spiking) /\ calm[b] + 1 >= Grace /\ b \notin Promoted(minor, spiking)
  BY <1>3, <1>4 DEF Demoted, Calm, Promoted
<1>6. calmSeen'[b] = IF calmSeen[b] < Grace THEN calmSeen[b] + 1 ELSE calmSeen[b]
  BY <1>1, <1>5 DEF Refresh
<1>7. calm[b] \in 0..(Grace - 1) /\ calmSeen[b] \in 0..Grace /\ calm[b] <= calmSeen[b]
  BY <1>1 DEF TypeOK, CalmIsReal
<1> HIDE DEF minor, promoted
<1>8. QED
  BY <1>5, <1>6, <1>7, SettingAssumption

LEMMA GraceStep ==
  ASSUME TypeOK, TodoIsTracked, CalmIsReal, [Next]_vars,
         NEW b \in Base, phase' = "persisting", b \in spike \ spike', tier'[b] = REST
  PROVE  calmSeen'[b] >= Grace
<1> USE DEF memory, feed, history
<1>1. CASE LoadExisting
  BY <1>1 DEF LoadExisting
<1>2. ASSUME NEW active \in SUBSET Base, NEW top \in SUBSET Base, NEW spiking \in SUBSET Base,
             Fetched(active, top, spiking)
      PROVE  calmSeen'[b] >= Grace
  BY <1>2, RefreshGrace DEF Fetched
<1>3. ASSUME NEW x \in todo, Persist(x)
      PROVE  FALSE
  BY <1>3 DEF Persist
<1>4. ASSUME NEW c \in changes, LogChange(c)
      PROVE  FALSE
  BY <1>4 DEF LogChange
<1>5. CASE Record \/ Subscribe \/ Unsubscribe \/ Sleep \/ Raise
  BY <1>5 DEF Record, Subscribe, Unsubscribe, Sleep, Raise
<1>6. CASE NewProcess
  BY <1>6 DEF NewProcess, Fresh
<1>7. ASSUME NEW x \in Seeds, Reseed(x)
      PROVE  FALSE
  BY <1>7 DEF Reseed
<1>8. CASE UNCHANGED vars
  BY <1>8 DEF vars
<1>9. QED
  BY <1>1, <1>2, <1>3, <1>4, <1>5, <1>6, <1>7, <1>8, NextCases

\* The refresh releases a symbol no earlier than the calm cycles it is owed.
LEMMA RefreshDue ==
  ASSUME TypeOK, CalmIsReal, due \subseteq spike,
         NEW active \in SUBSET Base, NEW top \in SUBSET Base,
         NEW spiking \in SUBSET Base, Refresh(active, top, spiking)
  PROVE  due' \subseteq spike'
<1> DEFINE minor == Minor(active, top)
<1> SUFFICES ASSUME NEW b \in due'
             PROVE  b \in spike'
  OBVIOUS
<1>1. spike' = ((spike \ (active \ minor)) \ Demoted(minor, spiking)) \cup Promoted(minor, spiking)
  BY DEF Refresh, SpikeAfter
<1>2. /\ b \in (due \ (active \ minor)) \cup Promoted(minor, spiking)
      /\ ~(b \in Base /\ calmSeen'[b] >= Grace)
  BY DEF Refresh
<1>3. CASE b \in Promoted(minor, spiking)
  BY <1>1, <1>3
<1>4. CASE b \notin Promoted(minor, spiking)
  <2>1. b \in due /\ b \notin active \ minor /\ b \in Base
    BY <1>2, <1>4 DEF TypeOK
  <2>2. SUFFICES ASSUME b \in Demoted(minor, spiking)
                 PROVE  FALSE
    BY <1>1, <2>1
  <2>3. b \in Calm(minor, spiking) /\ calm[b] + 1 >= Grace
    BY <2>2 DEF Demoted
  <2>4. calmSeen'[b] = IF calmSeen[b] < Grace THEN calmSeen[b] + 1 ELSE calmSeen[b]
    BY <1>4, <2>1, <2>3 DEF Refresh
  <2>5. calm[b] \in 0..(Grace - 1) /\ calmSeen[b] \in 0..Grace /\ calm[b] <= calmSeen[b]
    BY <2>1 DEF TypeOK, CalmIsReal
  <2> HIDE DEF minor
  <2>6. QED
    BY <1>2, <2>1, <2>3, <2>4, <2>5, SettingAssumption
<1>5. QED
  BY <1>3, <1>4

LEMMA DueStep ==
  ASSUME TypeOK, TodoIsTracked, TodoInStep, SpikeInStep, CalmIsReal, DueInStep, [Next]_vars
  PROVE  DueInStep'
<1> USE DEF DueInStep, Cycle, memory, feed, history
<1>1. CASE LoadExisting
  <2>1. /\ todo = {} /\ todo' = {} /\ reseeded' = {} /\ due' = due \ reseeded
        /\ spike' = {b \in Base : table[b] # None /\ table[b].spike} /\ UNCHANGED table
    BY <1>1 DEF LoadExisting, TodoInStep
  <2>2. due \subseteq Base
    BY DEF TypeOK
  <2>3. QED
    BY <2>1, <2>2
<1>2. ASSUME NEW active \in SUBSET Base, NEW top \in SUBSET Base, NEW spiking \in SUBSET Base,
             Fetched(active, top, spiking)
      PROVE  DueInStep'
  <2>1. /\ phase = "fetching" /\ todo' = Tracked \cup active
        /\ Refresh(active, top, spiking)
    BY <1>2 DEF Fetched
  <2>2. due' \subseteq spike'
    BY <2>1, RefreshDue
  <2>3. spike' \subseteq todo'
    BY <2>1, RefreshSpike DEF SpikeInStep
  <2>4. QED
    BY <2>2, <2>3
<1>3. ASSUME NEW b \in todo, Persist(b)
      PROVE  DueInStep'
  <2>1. /\ phase = "persisting" /\ todo' = todo \ {b} /\ reseeded' = reseeded \ {b}
        /\ table' = [table EXCEPT ![b] = InMemory(b)]
        /\ UNCHANGED <<due, spike, tagged>>
    BY <1>3 DEF Persist
  <2>2. due \subseteq spike /\ spike = tagged /\ due \subseteq Base
    BY <2>1 DEF SpikeInStep, TypeOK
  <2>3. b \in Base /\ InMemory(b) \in Row
    BY DEF TodoIsTracked, Tracked, TypeOK, InMemory, Row
  <2>4. ASSUME NEW x \in due' \ (todo' \cup reseeded')
        PROVE  table'[x] # None /\ table'[x].spike
    <3>1. CASE x = b
      <4>1. table'[x] = InMemory(b)
        BY <2>1, <2>3, <3>1 DEF TypeOK
      <4>2. InMemory(b).spike = (b \in tagged)
        BY DEF InMemory
      <4>3. QED
        BY <2>1, <2>2, <2>3, <3>1, <4>1, <4>2, NoneAssumption
    <3>2. CASE x # b
      BY <2>1, <2>2, <2>4, <3>2 DEF TypeOK
    <3>3. QED
      BY <3>1, <3>2
  <2>5. QED
    BY <2>1, <2>2, <2>4
<1>4. ASSUME NEW c \in changes, LogChange(c)
      PROVE  DueInStep'
  BY <1>4 DEF LogChange
<1>5. CASE Record \/ Subscribe \/ Unsubscribe \/ Sleep
  BY <1>5 DEF Record, Subscribe, Unsubscribe, Sleep
<1>6. CASE Raise
  BY <1>6 DEF Raise
<1>7. CASE NewProcess
  BY <1>7 DEF NewProcess, Fresh
<1>8. ASSUME NEW b \in Seeds, Reseed(b)
      PROVE  DueInStep'
  <2>1. /\ table' = [table EXCEPT ![b] = SeedRow(b)] /\ reseeded' = reseeded \cup {b}
        /\ UNCHANGED <<phase, spike, due, todo>>
    BY <1>8 DEF Reseed
  <2>2. \A x \in Base \ {b} : table'[x] = table[x]
    BY <2>1 DEF TypeOK
  <2>3. due \subseteq Base
    BY DEF TypeOK
  <2>4. QED
    BY <2>1, <2>2, <2>3
<1>9. CASE UNCHANGED vars
  BY <1>9 DEF vars
<1>10. QED
  BY <1>1, <1>2, <1>3, <1>4, <1>5, <1>6, <1>7, <1>8, <1>9, NextCases

--------------------------------------------------------------------------------
(* The theorems.                                                           *)

LEMMA InvStep == IInv /\ [Next]_vars => IInv'
BY TypeStep, TodoStep, SpikeStep, FeedStep, TableStep, ChangesStep, LoggedStep, CalmStep,
   DueStep DEF IInv

\* Every reachable state of the refresh cycle, its failures and its restarts
\* satisfies the inductive invariant.
THEOREM Invariance == Spec => []IInv
<1>1. Init => IInv
  BY InitInv
<1>2. IInv /\ [Next]_vars => IInv'
  BY InvStep
<1>3. QED
  BY <1>1, <1>2, PTL DEF Spec

\* Manager memory, feed, table and cycle position stay within their types; in
\* particular calm_cycles never reaches demotion_grace_cycles.
THEOREM TypeCorrect == Spec => []TypeOK
<1>1. IInv => TypeOK
  BY DEF IInv
<1>2. QED
  BY <1>1, Invariance, PTL

\* Whatever awaits a cycle is cut at, and however often the process is replaced,
\* _load_existing and _apply_spike_logic keep a symbol promoted that a spike has
\* promoted, until it is ranked or its calm cycles are over; what a restart gives
\* up was not written yet, or seed_symbols has written over it.
THEOREM PromotionSurvivesRestart == Spec => []PromotionsKept
<1>1. IInv => PromotionsKept
  BY DEF IInv, DueInStep, SpikeInStep, PromotionsKept
<1>2. QED
  BY <1>1, Invariance, PTL

\* _sync_feed leaves the feed streaming exactly the watchlist, and _subscribed
\* saying so; a call of it that raises leaves no watched symbol unstreamed that
\* the manager takes for subscribed.
THEOREM FeedFollowsWatchlist == Spec => []FeedMatchesWatchlist
<1>1. IInv => FeedMatchesWatchlist
  BY DEF IInv, FeedInStep, FeedMatchesWatchlist
<1>2. QED
  BY <1>1, Invariance, PTL

\* Every row the cycle is past is the manager's state, at every await and however
\* the persists interleave with starting services.
THEOREM TableFollowsMemory == Spec => []TableMatchesMemory
<1>1. IInv => TableMatchesMemory
  BY DEF IInv
<1>2. QED
  BY <1>1, Invariance, PTL

\* A transition in the table that _persist_tier_changes has not logged is one it
\* still has in hand, or had when its cycle was cut.
THEOREM CyclesLog == Spec => []TransitionsLogged
<1>1. IInv => TransitionsLogged
  BY DEF IInv
<1>2. QED
  BY <1>1, Invariance, PTL

\* get_id never comes back empty in _persist_tier_changes, and the row it finds
\* shows the tier that is logged.
THEOREM EveryChangeHasARow == Spec => []ChangesResolve
<1>1. ASSUME IInv, phase = "logging", NEW c \in changes
      PROVE  /\ table[c.base] # None
             /\ c.base \notin reseeded => table[c.base].tier = c.to
  <2>1. todo = {} /\ c.base \in Tracked /\ c.to = tier[c.base] /\ table[c.base] # None
    BY <1>1 DEF IInv, TodoInStep, ChangesInStep
  <2>2. c.base \notin reseeded => table[c.base] = InMemory(c.base)
    BY <1>1, <2>1 DEF IInv, TableMatchesMemory
  <2>3. QED
    BY <2>1, <2>2 DEF InMemory
<1>2. IInv => ChangesResolve
  BY <1>1 DEF ChangesResolve
<1>3. QED
  BY <1>2, Invariance, PTL

\* _apply_spike_logic demotes a promoted symbol only after demotion_grace_cycles
\* calm cycles since its last spike.
THEOREM DemotionWaits == Spec => GraceIsFull
<1> DEFINE Waits == \A b \in Base :
                      phase' = "persisting" /\ b \in spike \ spike' /\ tier'[b] = REST
                        => calmSeen'[b] >= Grace
<1>1. IInv /\ [Next]_vars => [Waits]_vars
  BY GraceStep DEF IInv
<1>2. QED
  BY <1>1, Invariance, PTL DEF Spec, GraceIsFull

================================================================================
