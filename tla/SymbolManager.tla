----------------------------- MODULE SymbolManager -----------------------------
(***************************************************************************)
(* symbols/manager.py: the refresh cycle of SymbolManager (discovery,      *)
(* tiering with spike promotion, persistence, subscriptions), the symbols  *)
(* and tier_changes tables it writes, the registry seeding that writes the *)
(* same rows, and the feed it keeps subscribed.                            *)
(*                                                                         *)
(* A symbol is its base name.  What a cycle learns from the exchange is    *)
(* three sets: the active symbols, the alts among the top tier1_size by    *)
(* score, and the symbols whose volume, count or change spikes.  A step is *)
(* the code between two awaits; each await of a cycle may raise, and the   *)
(* process may be stopped or killed and started again at any time.         *)
(***************************************************************************)
EXTENDS Naturals, FiniteSets

CONSTANTS
  Base,                 \* symbols of the exchange
  Core, Meme,           \* core_symbols and meme_symbols
  Seeds,                \* all_symbols: what the feed and the registry start with
  Tier1Size,            \* tier1_size
  Grace,                \* demotion_grace_cycles
  None                  \* no row

ASSUME SymbolAssumption == Core \subseteq Seeds /\ Seeds \subseteq Base /\ Meme \subseteq Base
ASSUME SettingAssumption == Tier1Size \in Nat /\ Grace \in Nat \ {0}

VARIABLES
  phase,                \* where the cycle is suspended
  status, tier,         \* per symbol of _states
  spike,                \* _spike_promoted
  tagged,               \* symbols whose tags hold "spike"
  calm,                 \* calm_cycles
  todo,                 \* symbols the cycle has not persisted yet
  changes,              \* tier changes the cycle has not logged yet
  subscribed,           \* _subscribed: what the manager believes
  streamed,             \* the symbols of the feed
  table,                \* table symbols: a row or None
  reseeded,             \* history: rows seeding overwrote since the last refresh
  due,                  \* history: symbols owed a place on the watchlist by a spike
  owed,                 \* history: transitions visible in the table, not logged
  dropped,              \* history: symbols whose last change a cut cycle dropped
  calmSeen              \* history: calm cycles in a row since the last spike

memory == <<status, tier, spike, tagged, calm>>
feed == <<subscribed, streamed>>
history == <<reseeded, due, owed, dropped, calmSeen>>
vars == <<phase, memory, todo, changes, feed, table, history>>

CORE == 0
WATCH == 1
REST == 2
Tier == {CORE, WATCH, REST}

Reason == {"ranking", "spike", "demote_spike", "delisted"}
Change == [base : Base, from : Tier, to : Tier, reason : Reason]
Row == [tier : Tier, status : {"trading", "frozen"}, spike : BOOLEAN]
ASSUME NoneAssumption == None \notin Row

Cycle == {"fetching", "persisting", "logging", "recording", "subscribing", "unsubscribing"}

Tracked == {b \in Base : status[b] # "absent"}
Pending == {c.base : c \in changes}
InMemory(b) == [tier |-> tier[b], status |-> status[b], spike |-> b \in tagged]
Watchlist == {b \in Base : status[b] = "trading" /\ tier[b] \in {CORE, WATCH}}

\* persistence/registry.py: the row of a configured symbol.
SeedTier(b) == IF b \in Core THEN CORE ELSE WATCH
SeedRow(b) == [tier |-> SeedTier(b), status |-> "trading", spike |-> FALSE]

\* A fresh manager and feed, before _load_existing.
Fresh ==
  /\ phase' = "loading"
  /\ status' = [b \in Base |-> "absent"] /\ tier' = [b \in Base |-> REST]
  /\ spike' = {} /\ tagged' = {} /\ calm' = [b \in Base |-> 0]
  /\ todo' = {} /\ changes' = {}
  /\ subscribed' = Seeds /\ streamed' = Seeds

Init ==
  /\ phase = "loading"
  /\ status = [b \in Base |-> "absent"] /\ tier = [b \in Base |-> REST]
  /\ spike = {} /\ tagged = {} /\ calm = [b \in Base |-> 0]
  /\ todo = {} /\ changes = {}
  /\ subscribed = Seeds /\ streamed = Seeds
  /\ table = [b \in Base |-> None]
  /\ reseeded = {} /\ due = {} /\ owed = {} /\ dropped = {}
  /\ calmSeen = [b \in Base |-> 0]

--------------------------------------------------------------------------------
(* The synchronous middle of refresh_universe.                             *)

BaseTier(b, top) ==
  IF b \in Core THEN CORE ELSE IF b \in Meme \cup top THEN WATCH ELSE REST

\* The active symbols only the spike logic can keep on the watchlist.
Minor(active, top) == {b \in active : BaseTier(b, top) = REST}
Promoted(minor, spiking) == minor \cap spiking
Calm(minor, spiking) == (minor \cap spike) \ spiking

\* Mutant: one calm cycle too few.
DemotedEarly(minor, spiking) == {b \in Calm(minor, spiking) : calm[b] + 2 >= Grace}

\* Mutant: one calm cycle too many.
DemotedLate(minor, spiking) == {b \in Calm(minor, spiking) : calm[b] >= Grace}

Demoted(minor, spiking) == {b \in Calm(minor, spiking) : calm[b] + 1 >= Grace}

SpikeAfter(active, top, spiking) ==
  LET minor == Minor(active, top) IN
    ((spike \ (active \ minor)) \ Demoted(minor, spiking)) \cup Promoted(minor, spiking)

TierAfter(b, top, promoted) ==
  IF BaseTier(b, top) = REST /\ b \in promoted THEN WATCH ELSE BaseTier(b, top)

TierReason(b, from, to, top) ==
  IF to = WATCH /\ BaseTier(b, top) = REST THEN "spike"
  ELSE IF from = WATCH /\ to = REST THEN "demote_spike" ELSE "ranking"

Delisted(active) ==
  {[base |-> b, from |-> tier[b], to |-> tier[b], reason |-> "delisted"] :
     b \in {x \in Base \ active : status[x] = "trading"}}

Retiered(active, top, promoted) ==
  {[base |-> b, from |-> tier[b], to |-> TierAfter(b, top, promoted),
    reason |-> TierReason(b, tier[b], TierAfter(b, top, promoted), top)] :
     b \in {x \in active : TierAfter(x, top, promoted) # tier[x]}}

\* _mark_delistings, _sync_listings and _assign_tiers.
Refresh(active, top, spiking) ==
  LET minor == Minor(active, top)
      promoted == SpikeAfter(active, top, spiking)
  IN
    /\ status' = [b \in Base |-> IF b \in active THEN "trading"
                                 ELSE IF status[b] = "absent" THEN "absent" ELSE "frozen"]
    /\ tier' = [b \in Base |-> IF b \in active THEN TierAfter(b, top, promoted) ELSE tier[b]]
    /\ spike' = promoted
    /\ tagged' = (tagged \ active) \cup (promoted \cap minor)
    /\ calm' = [b \in Base |->
                  IF b \in Promoted(minor, spiking) \cup Demoted(minor, spiking) THEN 0
                  ELSE IF b \in Calm(minor, spiking) THEN calm[b] + 1 ELSE calm[b]]
    /\ calmSeen' = [b \in Base |->
                      IF b \in Promoted(minor, spiking) THEN 0
                      ELSE IF b \in Calm(minor, spiking) /\ calmSeen[b] < Grace
                           THEN calmSeen[b] + 1 ELSE calmSeen[b]]
    /\ due' = ((due \ (active \ minor)) \cup Promoted(minor, spiking))
                \ {b \in Base : calmSeen'[b] >= Grace}
    /\ changes' = Delisted(active) \cup Retiered(active, top, promoted)

--------------------------------------------------------------------------------
(* One cycle, await by await.                                              *)

\* Mutant: the tags are loaded and the promoted set is not rebuilt from them.
LoadTagsOnly ==
  /\ phase = "loading"
  /\ phase' = "fetching"
  /\ status' = [b \in Base |-> IF table[b] = None THEN "absent" ELSE table[b].status]
  /\ tier' = [b \in Base |-> IF table[b] = None THEN REST ELSE table[b].tier]
  /\ tagged' = {b \in Base : table[b] # None /\ table[b].spike}
  /\ reseeded' = {} /\ due' = due \ reseeded
  /\ UNCHANGED <<spike, calm, todo, changes, feed, table, owed, dropped, calmSeen>>

\* _load_existing: what an earlier process left in the table, or a seeding.
LoadExisting ==
  /\ phase = "loading"
  /\ phase' = "fetching"
  /\ status' = [b \in Base |-> IF table[b] = None THEN "absent" ELSE table[b].status]
  /\ tier' = [b \in Base |-> IF table[b] = None THEN REST ELSE table[b].tier]
  /\ tagged' = {b \in Base : table[b] # None /\ table[b].spike}
  /\ spike' = tagged'
  /\ reseeded' = {} /\ due' = due \ reseeded
  /\ UNCHANGED <<calm, todo, changes, feed, table, owed, dropped, calmSeen>>

\* Mutant: what the refresh has not changed is not written again.
FetchedChangedOnly(active, top, spiking) ==
  /\ phase = "fetching"
  /\ top \subseteq active \ (Core \cup Meme) /\ Cardinality(top) <= Tier1Size
  /\ Refresh(active, top, spiking)
  /\ todo' = {b \in Tracked \cup active : status'[b] # status[b] \/ tier'[b] # tier[b]
                                         \/ (b \in tagged') # (b \in tagged)}
  /\ reseeded' = {}
  /\ phase' = IF todo' # {} THEN "persisting" ELSE IF changes' # {} THEN "logging" ELSE "recording"
  /\ UNCHANGED <<feed, table, owed, dropped>>

\* Mutant: newly discovered symbols are persisted from the next cycle on.
FetchedKnownOnly(active, top, spiking) ==
  /\ phase = "fetching"
  /\ top \subseteq active \ (Core \cup Meme) /\ Cardinality(top) <= Tier1Size
  /\ Refresh(active, top, spiking)
  /\ todo' = Tracked /\ reseeded' = {}
  /\ phase' = IF todo' # {} THEN "persisting" ELSE IF changes' # {} THEN "logging" ELSE "recording"
  /\ UNCHANGED <<feed, table, owed, dropped>>

\* exchangeInfo and the tickers are in; the universe is ranked and re-tiered.
Fetched(active, top, spiking) ==
  /\ phase = "fetching"
  /\ top \subseteq active \ (Core \cup Meme) /\ Cardinality(top) <= Tier1Size
  /\ Refresh(active, top, spiking)
  /\ todo' = Tracked \cup active /\ reseeded' = {}
  /\ phase' = IF todo' = {} THEN "recording" ELSE "persisting"
  /\ UNCHANGED <<feed, table, owed, dropped>>

\* _persist of one state: the row shows the new tier and status.
Persist(b) ==
  /\ phase = "persisting" /\ b \in todo
  /\ table' = [table EXCEPT ![b] = InMemory(b)]
  /\ todo' = todo \ {b}
  /\ reseeded' = reseeded \ {b}
  /\ IF b \in Pending THEN owed' = owed \cup {b} /\ dropped' = dropped \ {b}
                       ELSE UNCHANGED <<owed, dropped>>
  /\ phase' = IF todo' # {} THEN "persisting"
              ELSE IF changes # {} THEN "logging" ELSE "recording"
  /\ UNCHANGED <<memory, changes, feed, due, calmSeen>>

\* Mutant: only the first change of a cycle is written.
LogFirstChange(c) ==
  /\ phase = "logging" /\ c \in changes
  /\ changes' = {}
  /\ owed' = owed \ {c.base}
  /\ phase' = "recording"
  /\ UNCHANGED <<memory, todo, feed, table, reseeded, due, dropped, calmSeen>>

\* One round of _persist_tier_changes: get_id, then the insert.  A change of a
\* symbol without a row is skipped.
LogChange(c) ==
  /\ phase = "logging" /\ c \in changes
  /\ changes' = changes \ {c}
  /\ owed' = IF table[c.base] = None THEN owed ELSE owed \ {c.base}
  /\ phase' = IF changes' = {} THEN "recording" ELSE "logging"
  /\ UNCHANGED <<memory, todo, feed, table, reseeded, due, dropped, calmSeen>>

\* The metrics and breadth snapshots, then the feed, if there is a difference.
Record ==
  /\ phase = "recording"
  /\ phase' = IF Watchlist \ subscribed # {} THEN "subscribing"
              ELSE IF subscribed \ Watchlist # {} THEN "unsubscribing" ELSE "idle"
  /\ UNCHANGED <<memory, todo, changes, feed, table, history>>

\* feed.subscribe returns.
Subscribe ==
  /\ phase = "subscribing"
  /\ streamed' = streamed \cup (Watchlist \ subscribed)
  /\ \/ /\ subscribed \ Watchlist # {}
        /\ phase' = "unsubscribing" /\ UNCHANGED subscribed
     \/ /\ subscribed \ Watchlist = {}
        /\ phase' = "idle" /\ subscribed' = Watchlist
  /\ UNCHANGED <<memory, todo, changes, table, history>>

\* Mutant: _subscribed only ever grows.
UnsubscribeAndKeep ==
  /\ phase = "unsubscribing"
  /\ streamed' = streamed \ (subscribed \ Watchlist)
  /\ subscribed' = subscribed \cup Watchlist
  /\ phase' = "idle"
  /\ UNCHANGED <<memory, todo, changes, table, history>>

\* feed.unsubscribe returns, and the belief is brought up to date.
Unsubscribe ==
  /\ phase = "unsubscribing"
  /\ streamed' = streamed \ (subscribed \ Watchlist)
  /\ subscribed' = Watchlist
  /\ phase' = "idle"
  /\ UNCHANGED <<memory, todo, changes, table, history>>

\* The loop's sleep is over.
Sleep ==
  /\ phase = "idle"
  /\ phase' = "fetching"
  /\ UNCHANGED <<memory, todo, changes, feed, table, history>>

--------------------------------------------------------------------------------
(* What goes wrong.                                                        *)

\* The current await raises: the exception leaves refresh_universe and ends the
\* loop's task, or start().  The feed has already taken a symbol set it failed
\* to send.  Nothing starts the loop again.
Raise ==
  /\ phase \in Cycle \cup {"loading"}
  /\ phase' = "dead"
  /\ streamed' = CASE phase = "subscribing" -> streamed \cup (Watchlist \ subscribed)
                   [] phase = "unsubscribing" -> streamed \ (subscribed \ Watchlist)
                   [] OTHER -> streamed
  /\ dropped' = dropped \cup Pending
  /\ UNCHANGED <<memory, todo, changes, subscribed, table, reseeded, due, owed, calmSeen>>

\* stop() or a crash of the process, and a new manager with a new feed.  A
\* promotion whose row has not been written goes with the process.
NewProcess ==
  /\ Fresh
  /\ dropped' = dropped \cup Pending
  /\ due' = {b \in due : b \in todo => table[b] # None /\ table[b].spike}
  /\ UNCHANGED <<table, reseeded, owed, calmSeen>>

\* The ingest or analytics service starts and upserts the configured symbols.
Reseed(b) ==
  /\ b \in Seeds
  /\ table' = [table EXCEPT ![b] = SeedRow(b)]
  /\ reseeded' = reseeded \cup {b}
  /\ UNCHANGED <<phase, memory, todo, changes, feed, due, owed, dropped, calmSeen>>

--------------------------------------------------------------------------------
RefreshCycle ==
  \/ LoadExisting
  \/ \E active, top, spiking \in SUBSET Base :
       top \subseteq active /\ spiking \subseteq active /\ Fetched(active, top, spiking)
  \/ \E b \in todo : Persist(b)
  \/ \E c \in changes : LogChange(c)
  \/ Record \/ Subscribe \/ Unsubscribe \/ Sleep

Next ==
  \/ RefreshCycle
  \/ Raise
  \/ NewProcess
  \/ \E b \in Seeds : Reseed(b)

Spec == Init /\ [][Next]_vars

--------------------------------------------------------------------------------
(* Properties.                                                             *)

TypeOK ==
  /\ phase \in Cycle \cup {"loading", "idle", "dead"}
  /\ status \in [Base -> {"absent", "trading", "frozen"}] /\ tier \in [Base -> Tier]
  /\ spike \subseteq Base /\ tagged \subseteq Base
  /\ calm \in [Base -> 0..(Grace - 1)]
  /\ todo \subseteq Base /\ changes \subseteq Change
  /\ subscribed \subseteq Base /\ streamed \subseteq Base
  /\ table \in [Base -> Row \cup {None}]
  /\ reseeded \subseteq Seeds /\ due \subseteq Base
  /\ owed \subseteq Base /\ dropped \subseteq Base
  /\ calmSeen \in [Base -> 0..Grace]

\* A symbol a spike has put on the watchlist is promoted and stays there, over
\* cycles, delistings, exceptions and restarts, until it is ranked or has been
\* calm for Grace cycles.  A restart gives up no promotion but one whose row was
\* not written yet or was overwritten by a seeding that no cycle has repaired.
PromotionsKept ==
  phase \in Cycle \cup {"idle"} => \A b \in due : b \in spike /\ tier[b] = WATCH

\* At every await the manager's belief and the feed differ by no more than the
\* call in hand, and they stay so if that call raises and the loop dies of it: a
\* watched symbol believed subscribed is streamed, and nothing is streamed that
\* is neither.  Between cycles both are the watchlist.
FeedMatchesWatchlist ==
  /\ Watchlist \cap subscribed \subseteq streamed
  /\ streamed \subseteq subscribed \cup Watchlist
  /\ phase = "idle" => subscribed = Watchlist /\ streamed = Watchlist

\* At every await the table holds what the manager holds, except for symbols the
\* cycle has still to write and rows a starting service has overwritten since
\* the last refresh: each cycle repairs every row a seeding overwrote before it.
TableMatchesMemory == \A b \in Tracked \ (todo \cup reseeded) : table[b] = InMemory(b)

\* A transition visible in the table is logged or still to be logged; only the
\* changes in hand when a cycle was cut short are missing, one per symbol, and
\* the next change of that symbol is owed a log of its own again.
TransitionsLogged == owed \subseteq Pending \cup dropped

\* A logged change has its row to refer to, none is skipped for an unresolved
\* symbol, and the row shows the tier the log says it has moved to, unless a
\* seeding has put it back.
ChangesResolve ==
  phase = "logging" =>
    \A c \in changes : /\ table[c.base] # None
                       /\ c.base \notin reseeded => table[c.base].tier = c.to

\* A spike-promoted symbol falls back only after Grace calm cycles in a row,
\* however often it was delisted, ranked or reloaded in between.
GraceIsFull ==
  [][\A b \in Base :
       phase' = "persisting" /\ b \in spike \ spike' /\ tier'[b] = REST
         => calmSeen'[b] >= Grace]_vars

================================================================================
