-------------------------------- MODULE Daemon ---------------------------------
(***************************************************************************)
(* runners/daemon.py: supervise() around the run() coroutine of one of the *)
(* three services, runners/ingest.py, symbols.py and analytics.py, with    *)
(* the order in which each opens its pool, starts its parts and stops them *)
(* again.  A part (feed, writer, manager, engine) is the background task   *)
(* it owns.                                                                *)
(*                                                                         *)
(* A run() is named by an identifier; the identifier of a run that has     *)
(* left nothing behind is used again, so that a behaviour has no last run. *)
(***************************************************************************)
EXTENDS Naturals, Sequences

CONSTANTS
  RunId,                \* bound: runs that may have left something behind at once
  Supervisor            \* the owner of the signal handler before any run's

ASSUME SupervisorAssumption == Supervisor \notin RunId

VARIABLES
  service,              \* the argument of main(): which run() is supervised
  sup,                  \* supervise(): "running", "sleeping" or "stopped"
  supStop,              \* its stop_event is set
  handler,              \* whose stop_event the signal handler sets
  phase,                \* where run() is suspended
  cur,                  \* the run, or the last one
  runStop,              \* its stop_event is set
  stopped,              \* how many parts its finally has stopped
  crashed,              \* an exception is on its way out of run()
  tasks,                \* <<part, run>>: background tasks alive
  dead,                 \* parts of cur whose task ended with an exception
  pools,                \* runs whose pool is open
  asked,                \* history: a signal has been delivered
  faulted               \* history: runs of which a part failed to start or died

runner == <<phase, cur, runStop, stopped, crashed>>
vars == <<service, sup, supStop, handler, runner, tasks, dead, pools, asked, faulted>>

\* The finally block of run(); the last part is the first to start, except that
\* the manager starts after its feed.
StopOrder ==
  CASE service = "ingest" -> <<"feed", "writer">>
    [] service = "symbols" -> <<"manager", "feed">>
    [] service = "analytics" -> <<"engine", "feed", "writer">>
Parts == {StopOrder[k] : k \in 1..Len(StopOrder)}

\* The parts whose loop does not catch the exceptions of its own cycle.  Their
\* stop() awaits the task and raises again what it died of.
Fallible == Parts \cap {"manager", "engine"}

Running == {"pool", "seeding", "starting", "waiting", "stopping", "closing"}
Unused == {r \in RunId \ (pools \cup {handler}) : \A t \in tasks : t[2] # r}

\* supervise() installs its handlers and enters the loop; run() asks for a pool.
Init ==
  /\ service \in {"ingest", "symbols", "analytics"}
  /\ sup = "running" /\ supStop = FALSE
  /\ handler = Supervisor
  /\ phase = "pool" /\ cur \in RunId
  /\ runStop = FALSE /\ stopped = 0 /\ crashed = FALSE
  /\ tasks = {} /\ dead = {} /\ pools = {}
  /\ asked = FALSE /\ faulted = {}

--------------------------------------------------------------------------------
(* run(): from the pool to the wait for its stop_event.                    *)

\* Handlers are replaced, the parts are started; only the manager's start
\* suspends, in its first refresh.
Launch ==
  /\ handler' = cur
  /\ runStop' = FALSE
  /\ tasks' = tasks \cup {<<p, cur>> : p \in Parts \ {"manager"}}
  /\ phase' = IF "manager" \in Parts THEN "starting" ELSE "waiting"

PoolOpens ==
  /\ phase = "pool"
  /\ pools' = pools \cup {cur}
  /\ IF service = "symbols" THEN Launch
     ELSE phase' = "seeding" /\ UNCHANGED <<handler, runStop, tasks>>
  /\ UNCHANGED <<sup, supStop, cur, stopped, crashed, dead, asked, faulted>>

Seeded ==
  /\ phase = "seeding"
  /\ Launch
  /\ UNCHANGED <<sup, supStop, cur, stopped, crashed, dead, pools, asked, faulted>>

SeedFails ==
  /\ phase = "seeding"
  /\ phase' = "closing" /\ crashed' = TRUE
  /\ UNCHANGED <<sup, supStop, handler, cur, runStop, stopped, tasks, dead, pools, asked,
                 faulted>>

ManagerStarts ==
  /\ phase = "starting"
  /\ tasks' = tasks \cup {<<"manager", cur>>}
  /\ phase' = "waiting"
  /\ UNCHANGED <<sup, supStop, handler, cur, runStop, stopped, crashed, dead, pools, asked,
                 faulted>>

\* manager.start() raises outside the inner try: only the pool is closed.
ManagerStartFails ==
  /\ phase = "starting"
  /\ phase' = "closing" /\ crashed' = TRUE /\ faulted' = faulted \cup {cur}
  /\ UNCHANGED <<sup, supStop, handler, cur, runStop, stopped, tasks, dead, pools, asked>>

--------------------------------------------------------------------------------
(* run(): the way out.                                                     *)

\* Nobody awaits the loop that dies: run() goes on waiting.
LoopDies(p) ==
  /\ <<p, cur>> \in tasks
  /\ tasks' = tasks \ {<<p, cur>>}
  /\ dead' = dead \cup {p}
  /\ faulted' = faulted \cup {cur}
  /\ UNCHANGED <<sup, supStop, handler, runner, pools, asked>>

StopSeen ==
  /\ phase = "waiting" /\ runStop
  /\ phase' = "stopping" /\ stopped' = 0
  /\ UNCHANGED <<sup, supStop, handler, cur, runStop, crashed, tasks, dead, pools, asked,
                 faulted>>

\* Mutant: the writer goes first.
StopNextPartBackwards ==
  LET p == StopOrder[Len(StopOrder) - stopped] IN
    /\ phase = "stopping"
    /\ tasks' = tasks \ {<<p, cur>>}
    /\ stopped' = stopped + 1
    /\ phase' = IF stopped' = Len(StopOrder) THEN "closing" ELSE "stopping"
    /\ UNCHANGED <<crashed, sup, supStop, handler, cur, runStop, dead, pools, asked, faulted>>

\* Mutant: the last part of the finally block is forgotten.
StopAllButOne ==
  LET p == StopOrder[stopped + 1] IN
    /\ phase = "stopping"
    /\ tasks' = tasks \ {<<p, cur>>}
    /\ stopped' = stopped + 1
    /\ phase' = IF stopped' + 1 >= Len(StopOrder) THEN "closing" ELSE "stopping"
    /\ UNCHANGED <<crashed, sup, supStop, handler, cur, runStop, dead, pools, asked, faulted>>

\* The next stop() of the finally block.  One that raises skips the rest.
StopNextPart ==
  LET p == StopOrder[stopped + 1] IN
    /\ phase = "stopping"
    /\ IF p \in dead
         THEN phase' = "closing" /\ crashed' = TRUE /\ UNCHANGED <<tasks, stopped>>
         ELSE /\ tasks' = tasks \ {<<p, cur>>}
              /\ stopped' = stopped + 1
              /\ phase' = IF stopped' = Len(StopOrder) THEN "closing" ELSE "stopping"
              /\ UNCHANGED crashed
    /\ UNCHANGED <<sup, supStop, handler, cur, runStop, dead, pools, asked, faulted>>

--------------------------------------------------------------------------------
(* supervise().                                                            *)

\* What is alive when supervise() returns is cancelled by asyncio.run.
Finish == sup' = "stopped" /\ tasks' = {}

\* Mutant: supervise() does not catch what run() raises.
RunEndsOnCrash(crash) ==
  /\ phase' = "none"
  /\ crashed' = FALSE
  /\ IF supStop \/ crash THEN Finish ELSE sup' = "sleeping" /\ UNCHANGED tasks

\* run() is over, by return or exception: logged either way, then one more look
\* at the stop_event before the pause.
RunReturns(crash) ==
  /\ phase' = "none"
  /\ crashed' = FALSE
  /\ IF supStop THEN Finish ELSE sup' = "sleeping" /\ UNCHANGED tasks

PoolFails ==
  /\ phase = "pool"
  /\ RunReturns(TRUE)
  /\ UNCHANGED <<supStop, handler, cur, runStop, stopped, dead, pools, asked, faulted>>

\* Mutant: run() has no outer finally.
PoolStaysOpen ==
  /\ phase = "closing"
  /\ RunReturns(crashed)
  /\ UNCHANGED <<supStop, handler, cur, runStop, stopped, dead, pools, asked, faulted>>

PoolCloses ==
  /\ phase = "closing"
  /\ pools' = pools \ {cur}
  /\ RunReturns(crashed)
  /\ UNCHANGED <<supStop, handler, cur, runStop, stopped, dead, asked, faulted>>

\* The pause ends by its timeout, or at once by the stop_event.
Restart ==
  /\ sup = "sleeping"
  /\ \/ /\ supStop
        /\ Finish
        /\ UNCHANGED <<phase, cur, runStop, dead, faulted>>
     \/ /\ ~supStop
        /\ sup' = "running" /\ phase' = "pool"
        /\ cur' \in Unused /\ runStop' = FALSE /\ dead' = {}
        /\ faulted' = faulted \ {cur'}
        /\ UNCHANGED tasks
  /\ UNCHANGED <<supStop, handler, stopped, crashed, pools, asked>>

\* SIGINT or SIGTERM: the last handler installed is the only one.
Signal ==
  /\ sup # "stopped"
  /\ asked' = TRUE
  /\ supStop' = (supStop \/ handler = Supervisor)
  /\ runStop' = (runStop \/ (handler = cur /\ phase # "none"))
  /\ UNCHANGED <<sup, handler, phase, cur, stopped, crashed, tasks, dead, pools, faulted>>

--------------------------------------------------------------------------------
Runner ==
  \/ PoolOpens \/ PoolFails
  \/ Seeded \/ SeedFails
  \/ ManagerStarts \/ ManagerStartFails
  \/ StopSeen \/ StopNextPart \/ PoolCloses
Fault == \E p \in Fallible : LoopDies(p)
Next ==
  /\ Runner \/ Restart \/ Fault \/ Signal
  /\ UNCHANGED service

Spec == Init /\ [][Next]_vars

\* Awaits come back and timers fire; signals and faults may never come.
Fairness == WF_vars(Runner /\ UNCHANGED service) /\ WF_vars(Restart /\ UNCHANGED service)
FairSpec == Spec /\ Fairness

--------------------------------------------------------------------------------
(* Properties.                                                             *)

TypeOK ==
  /\ service \in {"ingest", "symbols", "analytics"}
  /\ sup \in {"running", "sleeping", "stopped"} /\ supStop \in BOOLEAN
  /\ handler \in RunId \cup {Supervisor}
  /\ phase \in Running \cup {"none"} /\ cur \in RunId
  /\ runStop \in BOOLEAN /\ stopped \in 0..Len(StopOrder) /\ crashed \in BOOLEAN
  /\ tasks \subseteq Parts \X RunId /\ dead \subseteq Parts /\ pools \subseteq RunId
  /\ asked \in BOOLEAN /\ faulted \subseteq RunId

\* No part outlives the run that started it or the pool it writes to: every way
\* out of run() stops what it started, pool last, whatever failed in the runs
\* before.  A run of which a part failed leaves behind at most the parts whose
\* stop() comes after the failed one's, never a manager or an engine, and these
\* go when the daemon ends.
PartsWithinTheirRun ==
  \A t \in tasks :
    \/ t[2] = cur /\ cur \in pools /\ sup = "running"
    \/ t[2] \in faulted /\ t[1] \notin Fallible /\ sup # "stopped"

\* A feed never emits to a batch writer that has stopped, faults or not: the
\* writer starts before the feed and drains after it.
WriterOutlivesFeed ==
  "writer" \in Parts =>
    \A r \in RunId : <<"feed", r>> \in tasks => <<"writer", r>> \in tasks

\* Pools do not pile up: whatever fails, a run that is over has closed its pool.
OnePool == pools \subseteq {cur} /\ (sup # "running" => pools = {})

\* A service comes back from whatever run() raised in its pool, its seeding, its
\* start or its stops, and from a run() that returned: a new run asks for its
\* pool, unless a signal has reached supervise() itself.  A crash never ends the
\* daemon.  (Or the bound leaves no identifier for the new run.)
ComesBack ==
  crashed \/ phase = "none"
    ~> phase = "pool" \/ supStop \/ (sup = "sleeping" /\ Unused = {})

\* A signal that reaches a run ends that run, with its pool closed.
SignalEndsRun == \A r \in RunId : cur = r /\ runStop ~> r \notin pools

\* daemon.py:15 says SIGTERM breaks the loop: a signal that was delivered ends
\* the daemon.
SignalStopsDaemon == asked ~> sup = "stopped"

================================================================================
