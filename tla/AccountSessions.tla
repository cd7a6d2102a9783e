-------------------------- MODULE AccountSessions --------------------------
(***************************************************************************)
(* The two services that log in to Mahjong Soul and the tasks they own:    *)
(* the live collectors (src/watch_service.rs WatchSupervisor, src/         *)
(* managed_watch.rs run) and the re-fetch pool (src/refetch_service.rs     *)
(* RefetchSupervisor: its workers and its walk).                           *)
(*                                                                         *)
(* A task is [kind, gen, acct].  A task that has been aborted takes no     *)
(* step but to finish the poll it is in and end; an operation that awaits  *)
(* its handle waits for that.  An account has one session, which the last  *)
(* login takes; the one that lost it finds out at its next request.        *)
(*                                                                         *)
(* An instance is known by the account its reference names.  A submitted   *)
(* configuration is checked and probed before anything changes, and one    *)
(* edited from another revision is refused, so an update begins here with  *)
(* the swap.  Sleeps only delay.  Nodes and proxies, versions, counters    *)
(* and what the walk does with a session are left to other modules, and    *)
(* so is the balancer, a task that only moves accounts between nodes.      *)
(***************************************************************************)
EXTENDS Naturals, Sequences, SequencesExt, FiniteSets

CONSTANTS Accounts,
          Reserved,       \* filed in the account pool under live collection
          PoolSecret,     \* the accounts the re-fetch pool's reference names, in order
          Concurrency,    \* RefetchServiceConfig::concurrency
          WatchCallers, PoolCallers,   \* requests a service may be handling at once
          MaxRevision, MaxWatchGen, MaxPoolGen, MaxFaults,
          MaxEvents       \* starts of either service and faults taken together

ASSUME SessionsAssumption ==
    /\ Reserved \subseteq Accounts /\ PoolSecret \in Seq(Accounts)
    /\ Concurrency \in Nat \ {0}
    /\ MaxRevision \in Nat /\ MaxFaults \in Nat
    /\ MaxWatchGen \in Nat /\ MaxPoolGen \in Nat /\ MaxEvents \in Nat
    /\ "none" \notin Accounts

VARIABLES
    config,     \* the watch configuration: [revision, enabled, listed, active]
    legible,    \* whether every file: and env: reference can be read
    retired,    \* accounts switched off in the pool because they are banned
    watch,      \* WatchSupervisor: [gen, phase, tasks]
    pool,       \* RefetchSupervisor: [gen, phase, walk, sessions], and
                \* cut, whether a request was dropped while it awaited a walk
    watchCall,  \* where each request to the watch service is
    poolCall,   \* and each one to the re-fetch service
    at,         \* where each live task is
    aborted,    \* live tasks that have been aborted
    session,    \* the task whose login holds an account's session
    faults

callVars == <<watchCall, poolCall>>
taskVars == <<at, aborted, session>>
vars == <<config, legible, retired, watch, pool, callVars, taskVars, faults>>

Task(kind, gen, acct) == [kind |-> kind, gen |-> gen, acct |-> acct]
Nobody == Task("nobody", 0, "none")
Live   == DOMAIN at
Of(kind)   == {t \in Live : t.kind = kind}
Idle       == [pc |-> "idle"]
Busy       == {c \in WatchCallers : watchCall[c] # Idle} \cup {c \in PoolCallers : poolCall[c] # Idle}
Within     == watch.gen + pool.gen + faults + Cardinality(Busy) < MaxEvents
Fault      == Within /\ faults < MaxFaults /\ faults' = faults + 1

Configs == {c \in [revision : 0 .. MaxRevision, enabled : BOOLEAN,
                   listed : SUBSET Accounts, active : SUBSET Accounts] :
              c.active \subseteq c.listed}
\* active_instances: none of them while the service is switched off
ActiveInstances(c) == IF c.enabled THEN c.active ELSE {}
Phases  == {"Stopped", "Starting", "Running", "Reloading", "Stopping", "Failed"}

-----------------------------------------------------------------------------
(* Tasks come and go. *)

\* The tasks ts are spawned.
Spawn(ts, pc) ==
    at' = [t \in Live \cup ts |-> IF t \in ts THEN [pc |-> pc, await |-> {}] ELSE at[t]]

\* t goes on at pc.
Goto(t, pc) == at' = [at EXCEPT ![t].pc = pc]

\* A task is gone: its transport is dropped with it.
End(t) ==
    /\ at' = [u \in Live \ {t} |-> at[u]]
    /\ aborted' = aborted \ {t}
    /\ session' = [a \in Accounts |-> IF session[a] = t THEN Nobody ELSE session[a]]

\* abort() on every handle of ts, before any of them is awaited
Abort(ts) == aborted' = aborted \cup (ts \cap Live)

\* The scheduler drops an aborted task.
AbortLands(t) ==
    /\ t \in aborted
    /\ End(t)
    /\ UNCHANGED <<config, legible, retired, watch, pool, callVars, faults>>

-----------------------------------------------------------------------------
(* The watch service. *)

\* Mutant: each task is aborted only when its turn to be awaited comes.
StopTasksUnaborted(c, then, active) ==
    /\ UNCHANGED aborted
    /\ watchCall' = [watchCall EXCEPT ![c] =
         [pc |-> "drain", await |-> watch.tasks, then |-> then, active |-> active]]

\* stop_tasks takes every handle and aborts them all, then awaits each.
StopTasks(c, then, active) ==
    /\ Abort(watch.tasks)
    /\ watchCall' = [watchCall EXCEPT ![c] =
         [pc |-> "drain", await |-> watch.tasks, then |-> then, active |-> active]]

\* The handler of a stop request
BeginStop(c) ==
    /\ StopTasks(c, "stop", {})
    /\ watch' = [watch EXCEPT !.phase = "Stopping", !.tasks = {}]

\* update_config swaps the document, then reloads or stops.
UpdateConfig(c) ==
    /\ watchCall[c] = Idle /\ config.revision < MaxRevision /\ watch.gen < MaxWatchGen /\ Within
    /\ \E next \in Configs :
         /\ next.revision = config.revision + 1
         /\ config' = next
         /\ IF next.enabled
            THEN /\ watch' = [watch EXCEPT !.phase = "Reloading"]
                 /\ watchCall' = [watchCall EXCEPT ![c] = [pc |-> "probe", active |-> ActiveInstances(next)]]
                 /\ UNCHANGED aborted
            ELSE BeginStop(c)
    /\ UNCHANGED <<legible, retired, pool, poolCall, at, session, faults>>

\* start, and reload, which is start with a phase of its own
WatchStart(c) ==
    /\ watchCall[c] = Idle /\ watch.gen < MaxWatchGen /\ Within
    /\ watchCall' = [watchCall EXCEPT ![c] = [pc |-> "probe", active |-> ActiveInstances(config)]]
    /\ \E phase \in {watch.phase, "Reloading"} : watch' = [watch EXCEPT !.phase = phase]
    /\ UNCHANGED <<config, legible, retired, pool, poolCall, taskVars, faults>>

WatchStop(c) ==
    /\ watchCall[c] = Idle
    /\ BeginStop(c)
    /\ UNCHANGED <<config, legible, retired, pool, poolCall, at, session, faults>>

\* Mutant: start spawns without stopping what runs.
ProbeOkKeepsOld(c) ==
    /\ watchCall[c].pc = "probe"
    /\ watchCall' = [watchCall EXCEPT ![c] =
         [pc |-> "drain", await |-> {}, then |-> "start", active |-> watchCall[c].active]]
    /\ UNCHANGED <<config, legible, retired, watch, pool, poolCall, taskVars, faults>>

\* The modules answer their probe: the old tasks are taken down.
ProbeOk(c) ==
    /\ watchCall[c].pc = "probe"
    /\ StopTasks(c, "start", watchCall[c].active)
    /\ watch' = [watch EXCEPT !.tasks = {}]
    /\ UNCHANGED <<config, legible, retired, pool, poolCall, at, session, faults>>

\* They do not: start gives up and what was running runs on.
ProbeFails(c) ==
    /\ watchCall[c].pc = "probe" /\ Fault
    /\ watchCall' = [watchCall EXCEPT ![c] = Idle]
    /\ UNCHANGED <<config, legible, retired, watch, pool, poolCall, taskVars>>

Drained(call) == call.pc = "drain" /\ call.await \cap Live = {}

\* stop, with every task gone
WatchStopped(c) ==
    /\ Drained(watchCall[c]) /\ watchCall[c].then = "stop"
    /\ watch' = [watch EXCEPT !.phase = "Stopped"]
    /\ watchCall' = [watchCall EXCEPT ![c] = Idle]
    /\ UNCHANGED <<config, legible, retired, pool, poolCall, taskVars, faults>>

\* start opens a generation and spawns one collector per active instance.
SpawnCollectors(c) ==
    /\ Drained(watchCall[c]) /\ watchCall[c].then = "start"
    /\ LET ts == {Task("collector", watch.gen + 1, a) : a \in watchCall[c].active} IN
         /\ Spawn(ts, "fresh")
         /\ watchCall' = [watchCall EXCEPT ![c] = [pc |-> "store", mine |-> ts]]
    /\ watch' = [watch EXCEPT !.gen = @ + 1, !.phase = "Starting"]
    /\ UNCHANGED <<config, legible, retired, pool, poolCall, aborted, session, faults>>

\* and, with them running, publishes the phase and keeps their handles.  A
\* handle that was in their place is dropped, which detaches its task.
StoreTasks(c) ==
    /\ watchCall[c].pc = "store"
    /\ LET ts == watchCall[c].mine IN
         watch' = [watch EXCEPT !.phase = IF ts = {} THEN "Stopped" ELSE "Running",
                                !.tasks = ts]
    /\ watchCall' = [watchCall EXCEPT ![c] = Idle]
    /\ UNCHANGED <<config, legible, retired, pool, poolCall, taskVars, faults>>

\* The client disconnects and the request's future is dropped where it waits.
WatchCancelled(c) ==
    /\ watchCall[c].pc \in {"probe", "drain"} /\ Fault
    /\ watchCall' = [watchCall EXCEPT ![c] = Idle]
    /\ UNCHANGED <<config, legible, retired, watch, pool, poolCall, taskVars>>

-----------------------------------------------------------------------------
(* A collector: run_instance and managed_watch::run. *)

\* A reference into the account pool is always readable.
Readable(a) == legible \/ a \in Reserved

\* Modules, account and queue are loaded once.
CollectorLoads(t) ==
    /\ t \in Of("collector") \ aborted /\ at[t].pc = "fresh"
    /\ Readable(t.acct)
    /\ Goto(t, "ready")
    /\ UNCHANGED <<config, legible, retired, watch, pool, callVars, aborted, session, faults>>

\* What cannot be loaded ends the instance, and the service has failed if the
\* generation is still this one.
CollectorFails(t) ==
    /\ t \in Of("collector") /\ at[t].pc = "fresh"
    /\ \/ ~Readable(t.acct) /\ UNCHANGED faults
       \/ Fault
    /\ End(t)
    /\ watch' = IF watch.gen = t.gen THEN [watch EXCEPT !.phase = "Failed"] ELSE watch
    /\ UNCHANGED <<config, legible, retired, pool, callVars>>

\* A collector logs in with the account it loaded, whatever happened to the
\* configuration since.
CollectorLogsIn(t) ==
    /\ t \in Of("collector") \ aborted /\ at[t].pc = "ready"
    /\ session' = [session EXCEPT ![t.acct] = t]
    /\ Goto(t, "in")
    /\ UNCHANGED <<config, legible, retired, watch, pool, callVars, aborted, faults>>

\* A session is over once another login took it, or when its connection drops.
Over(t) ==
    /\ at[t].pc = "in" /\ t \notin aborted
    /\ \/ session[t.acct] # t /\ UNCHANGED faults
       \/ session[t.acct] = t /\ Fault

Released(t) == [session EXCEPT ![t.acct] = IF @ = t THEN Nobody ELSE @]

\* A collector logs in again for ever; no generation is looked at.
CollectorReconnects(t) ==
    /\ t \in Of("collector") /\ Over(t)
    /\ Goto(t, "ready") /\ session' = Released(t)
    /\ UNCHANGED <<config, legible, retired, watch, pool, callVars, aborted>>

-----------------------------------------------------------------------------
(* The re-fetch service. *)

\* collector_accounts: every account filed under live collection and the first
\* account of every other instance, enabled or not; Unreadable when one of
\* those references cannot be read.
CollectorAccounts == Reserved \cup config.listed
Unreadable == \E a \in config.listed : ~Readable(a)

\* usable_accounts: the reference's accounts, each once, without the collectors'
UsableAccounts ==
    SelectSeq(SelectSeq(PoolSecret, LAMBDA a : a \notin retired),
              LAMBDA a : a \notin CollectorAccounts)

\* The accounts start gives a worker each: the first Concurrency usable ones
Chosen == LET usable == UsableAccounts IN
    {usable[i] : i \in {j \in DOMAIN usable :
        Cardinality({usable[k] : k \in 1 .. j}) <= Concurrency}}

\* Mutant: the walk is awaited without being aborted.
StopWalkUnaborted(c, then, accounts) ==
    /\ UNCHANGED aborted
    /\ poolCall' = [poolCall EXCEPT ![c] =
         [pc |-> "walk", await |-> pool.walk, then |-> then, accounts |-> accounts]]

\* stop_tasks takes the walk's handle, aborts it and awaits it before it turns
\* to the sessions.
StopWalk(c, then, accounts) ==
    /\ Abort(pool.walk)
    /\ poolCall' = [poolCall EXCEPT ![c] =
         [pc |-> "walk", await |-> pool.walk, then |-> then, accounts |-> accounts]]

\* start, by a request of its own or behind a configuration that enables it
PoolStart(c) ==
    /\ poolCall[c] = Idle /\ pool.gen < MaxPoolGen /\ Within
    /\ IF Unreadable \/ Chosen = {}
       THEN pool' = [pool EXCEPT !.phase = "Failed"] /\ UNCHANGED <<poolCall, aborted>>
       ELSE pool' = [pool EXCEPT !.walk = {}] /\ StopWalk(c, "start", Chosen)
    /\ UNCHANGED <<config, legible, retired, watch, watchCall, at, session, faults>>

PoolStop(c) ==
    /\ poolCall[c] = Idle
    /\ pool' = [pool EXCEPT !.phase = "Stopping", !.walk = {}]
    /\ StopWalk(c, "stop", {})
    /\ UNCHANGED <<config, legible, retired, watch, watchCall, at, session, faults>>

\* Mutant: what was aborted is not awaited.
AwaitedNever(c, pc) == poolCall[c].pc = pc

Awaited(c, pc) == poolCall[c].pc = pc /\ poolCall[c].await \cap Live = {}

StopSessions(c) ==
    /\ Awaited(c, "walk")
    /\ Abort(pool.sessions)
    /\ pool' = [pool EXCEPT !.sessions = {}]
    /\ poolCall' = [poolCall EXCEPT ![c].pc = "sessions", ![c].await = pool.sessions]
    /\ UNCHANGED <<config, legible, retired, watch, watchCall, at, session, faults>>

PoolStopped(c) ==
    /\ Awaited(c, "sessions") /\ poolCall[c].then = "stop"
    /\ pool' = [pool EXCEPT !.phase = "Stopped"]
    /\ poolCall' = [poolCall EXCEPT ![c] = Idle]
    /\ UNCHANGED <<config, legible, retired, watch, watchCall, taskVars, faults>>

\* A new generation: a worker per account chosen before the old ones were
\* stopped, their handles kept
SpawnWorkers(c) ==
    /\ Awaited(c, "sessions") /\ poolCall[c].then = "start"
    /\ LET ts == {Task("worker", pool.gen + 1, a) : a \in poolCall[c].accounts} IN
         /\ Spawn(ts, "fresh")
         /\ pool' = [pool EXCEPT !.gen = @ + 1, !.phase = "Starting", !.sessions = ts]
    /\ poolCall' = [poolCall EXCEPT ![c] = [pc |-> "spawn"]]
    /\ UNCHANGED <<config, legible, retired, watch, watchCall, aborted, session, faults>>

\* then the walk
SpawnWalk(c) ==
    /\ poolCall[c].pc = "spawn"
    /\ LET ts == {Task("walk", pool.gen, "none")} IN
         Spawn(ts, "running") /\ pool' = [pool EXCEPT !.walk = ts]
    /\ poolCall' = [poolCall EXCEPT ![c] = [pc |-> "settle"]]
    /\ UNCHANGED <<config, legible, retired, watch, watchCall, aborted, session, faults>>

PoolRunning(c) ==
    /\ poolCall[c].pc = "settle"
    /\ pool' = [pool EXCEPT !.phase = "Running"]
    /\ poolCall' = [poolCall EXCEPT ![c] = Idle]
    /\ UNCHANGED <<config, legible, retired, watch, watchCall, taskVars, faults>>

PoolCancelled(c) ==
    /\ poolCall[c].pc \in {"walk", "sessions"} /\ Fault
    /\ poolCall' = [poolCall EXCEPT ![c] = Idle]
    /\ pool' = [pool EXCEPT !.cut = @ \/ poolCall[c].pc = "walk"]
    /\ UNCHANGED <<config, legible, retired, watch, watchCall, taskVars>>

-----------------------------------------------------------------------------
(* The tasks of the re-fetch service: run_worker and run_walk. *)

WorkerLoads(t) ==
    /\ t \in Of("worker") \ aborted /\ at[t].pc = "fresh"
    /\ Goto(t, "ready")
    /\ UNCHANGED <<config, legible, retired, watch, pool, callVars, aborted, session, faults>>

\* The protocol modules cannot be started.
WorkerFails(t) ==
    /\ t \in Of("worker") /\ at[t].pc = "fresh" /\ Fault
    /\ End(t)
    /\ pool' = [pool EXCEPT !.phase = "Failed"]
    /\ UNCHANGED <<config, legible, retired, watch, callVars>>

\* Mutant: what start found out about the collectors is remembered.
WorkerChecksNothing(t) ==
    /\ t \in Of("worker") \ aborted /\ at[t].pc = "ready"
    /\ Goto(t, "checked")
    /\ UNCHANGED <<config, legible, retired, watch, pool, callVars, aborted, session, faults>>

\* Before every login the collectors' accounts are read again; a worker whose
\* account may be one of theirs gives up, and goes on otherwise.
WorkerChecks(t) ==
    /\ t \in Of("worker") \ aborted /\ at[t].pc = "ready"
    /\ IF Unreadable \/ t.acct \in CollectorAccounts
       THEN End(t)
       ELSE Goto(t, "checked") /\ UNCHANGED <<aborted, session>>
    /\ UNCHANGED <<config, legible, retired, watch, pool, callVars, faults>>

WorkerLogsIn(t) ==
    /\ t \in Of("worker") \ aborted /\ at[t].pc = "checked"
    /\ session' = [session EXCEPT ![t.acct] = t]
    /\ Goto(t, "in")
    /\ UNCHANGED <<config, legible, retired, watch, pool, callVars, aborted, faults>>

\* With its session over or its login failed a worker of a later generation's
\* time ends; the others come round to the check.
ComeRound(t) ==
    IF pool.gen = t.gen
    THEN Goto(t, "ready") /\ session' = Released(t) /\ UNCHANGED aborted
    ELSE End(t)

WorkerReconnects(t) ==
    /\ t \in Of("worker") /\ Over(t)
    /\ ComeRound(t)
    /\ UNCHANGED <<config, legible, retired, watch, pool, callVars>>

WorkerLoginFails(t) ==
    /\ t \in Of("worker") \ aborted /\ at[t].pc = "checked" /\ Fault
    /\ ComeRound(t)
    /\ UNCHANGED <<config, legible, retired, watch, pool, callVars>>

\* retire_banned switches an account off in the pool, unless it came from a file
\* or the pool cannot be written.
RetireBanned(a) == retired' \in {retired, retired \cup {a}}

WorkerBanned(t) ==
    /\ t \in Of("worker") \ aborted /\ at[t].pc = "checked" /\ Fault
    /\ End(t)
    /\ RetireBanned(t.acct)
    /\ UNCHANGED <<config, legible, watch, pool, callVars>>

\* Mutant: the walk ends and leaves the sessions logged in.
WalkEndsAlone(t) ==
    /\ t \in Of("walk") \ aborted /\ at[t].pc = "running"
    /\ Goto(t, "awaiting")
    /\ UNCHANGED <<config, legible, retired, watch, pool, callVars, aborted, session, faults>>

\* The walk is over, for whatever reason, and looks at the generation: the
\* sessions go with it only while it is this run's.
WalkEnds(t) ==
    /\ t \in Of("walk") \ aborted /\ at[t].pc = "running"
    /\ IF pool.gen = t.gen THEN Goto(t, "ending") /\ UNCHANGED <<aborted, session>>
                           ELSE End(t)
    /\ UNCHANGED <<config, legible, retired, watch, pool, callVars, faults>>

\* Nothing is awaited between that look and the handles being taken, so an
\* abort in between comes too late to prevent it.
WalkStopsSessions(t) ==
    /\ t \in Of("walk") /\ at[t].pc = "ending"
    /\ at' = [at EXCEPT ![t] = [pc |-> "awaiting", await |-> pool.sessions]]
    /\ Abort(pool.sessions)
    /\ pool' = [pool EXCEPT !.sessions = {}]
    /\ UNCHANGED <<config, legible, retired, watch, callVars, session, faults>>

\* finish, or fail when the walk could not go on
WalkFinishes(t) ==
    /\ t \in Of("walk") \ aborted /\ at[t].pc = "awaiting"
    /\ at[t].await \cap Live = {}
    /\ End(t)
    /\ \E phase \in {"Stopped", "Failed"} : pool' = [pool EXCEPT !.phase = phase]
    /\ UNCHANGED <<config, legible, retired, watch, callVars, faults>>

-----------------------------------------------------------------------------
(* A file or an environment variable behind a reference comes and goes. *)
LegibleChanges ==
    /\ Fault
    /\ legible' = ~legible
    /\ UNCHANGED <<config, retired, watch, pool, callVars, taskVars>>

-----------------------------------------------------------------------------
Init ==
    /\ config \in {c \in Configs : c.revision = 0}
    /\ legible = TRUE /\ retired = {}
    /\ watch = [gen |-> 0, phase |-> "Stopped", tasks |-> {}]
    /\ pool = [gen |-> 0, phase |-> "Stopped", walk |-> {}, sessions |-> {},
               cut |-> FALSE]
    /\ watchCall = [c \in WatchCallers |-> Idle]
    /\ poolCall = [c \in PoolCallers |-> Idle]
    /\ at = <<>> /\ aborted = {}
    /\ session = [a \in Accounts |-> Nobody]
    /\ faults = 0

WatchRequest(c) == UpdateConfig(c) \/ WatchStart(c) \/ WatchStop(c)
WatchStep(c) == \/ ProbeOk(c) \/ ProbeFails(c) \/ WatchStopped(c)
                \/ SpawnCollectors(c) \/ StoreTasks(c) \/ WatchCancelled(c)
PoolRequest(c) == PoolStart(c) \/ PoolStop(c)
PoolStep(c) == \/ StopSessions(c) \/ PoolStopped(c) \/ SpawnWorkers(c)
               \/ SpawnWalk(c) \/ PoolRunning(c) \/ PoolCancelled(c)
CollectorStep(t) == \/ CollectorLoads(t) \/ CollectorFails(t)
                    \/ CollectorLogsIn(t) \/ CollectorReconnects(t)
WorkerStep(t) == \/ WorkerLoads(t) \/ WorkerFails(t) \/ WorkerChecks(t) \/ WorkerLogsIn(t)
                 \/ WorkerReconnects(t) \/ WorkerLoginFails(t) \/ WorkerBanned(t)
WalkStep(t) == WalkEnds(t) \/ WalkStopsSessions(t) \/ WalkFinishes(t)

Next ==
    \/ \E c \in WatchCallers : WatchRequest(c) \/ WatchStep(c)
    \/ \E c \in PoolCallers : PoolRequest(c) \/ PoolStep(c)
    \/ \E t \in Live : CollectorStep(t) \/ WorkerStep(t) \/ WalkStep(t) \/ AbortLands(t)
    \/ LegibleChanges

Spec == Init /\ [][Next]_vars

Tasks == [kind : {"collector"}, gen : 1 .. MaxWatchGen, acct : Accounts]
    \cup [kind : {"worker"}, gen : 1 .. MaxPoolGen, acct : Accounts]
    \cup [kind : {"walk"}, gen : 1 .. MaxPoolGen, acct : {"none"}]

\* The runtime polls every task and every request it has, and drops every task
\* it was told to; nothing has to fail, and a walk need not end by itself.
Fairness ==
    /\ \A c \in WatchCallers : WF_vars(WatchStep(c) /\ UNCHANGED faults)
    /\ \A c \in PoolCallers : WF_vars(PoolStep(c) /\ UNCHANGED faults)
    /\ \A t \in Tasks : WF_vars(t \in Live /\ (CollectorStep(t) \/ WorkerStep(t) \/ AbortLands(t))
                                /\ UNCHANGED faults)

FairSpec == Spec /\ Fairness

-----------------------------------------------------------------------------
TaskType == [kind : {"collector", "worker", "walk"}, gen : Nat,
             acct : Accounts \cup {"none"}]

\* The state's shape, and what ties it together: a worker's account is one the
\* pool names, and a session is held by a live task of its account, which
\* believes it is logged in.
TypeOK ==
    /\ config \in Configs /\ legible \in BOOLEAN /\ retired \subseteq Accounts
    /\ watch.phase \in Phases /\ pool.phase \in Phases
    /\ watch.gen \in Nat /\ pool.gen \in Nat
    /\ Live \subseteq TaskType /\ aborted \subseteq Live
    /\ \A t \in Of("worker") : t.acct \in ToSet(PoolSecret)
    /\ \A a \in Accounts : session[a] # Nobody =>
         session[a] \in Live /\ session[a].acct = a /\ at[session[a]].pc = "in"
    /\ faults \in 0 .. MaxFaults

\* The handles somebody still has
Handles == watch.tasks \cup pool.walk \cup pool.sessions
    \cup UNION {watchCall[c].mine : c \in {d \in WatchCallers : watchCall[d].pc = "store"}}

\* No task runs on with no handle left to stop it: stop_tasks and stop_sessions
\* abort everything before they await anything, so a request dropped in the
\* middle leaves only tasks that were told to end.
NothingRunsUnheld == Live \ aborted \subseteq Handles

\* Two collectors never log in with one account, the failure update_config is
\* written to refuse.
OneCollectorPerAccount ==
    \A t, u \in Of("collector") \ aborted : t.acct = u.acct => t = u

\* A service that reports itself stopped, with no request under way, holds no
\* account: no collector, and no worker of the pool, is still logging in.
StoppedIsQuiet ==
    /\ watch.phase = "Stopped" /\ (\A c \in WatchCallers : watchCall[c] = Idle)
         => Of("collector") \subseteq aborted
    /\ pool.phase = "Stopped" /\ (\A c \in PoolCallers : poolCall[c] = Idle)
         => Of("worker") \subseteq aborted

\* A walk that ends takes the sessions of its own run down with it, never those
\* of the run that replaced it: run_walk looks at the generation before
\* stop_sessions takes whatever handles there are, and start has awaited the
\* old walk by the time it opens a generation, unless an earlier request was
\* dropped while it awaited that walk.
EndsOnlyItsOwnSessions ==
    [][\A t \in Of("walk") : WalkStopsSessions(t) /\ ~pool.cut
         => \A u \in aborted' \ aborted : u.gen = t.gen]_vars

(* What keeps these four so, as long as each service handles its requests one *)
(* after the other.                                                          *)

OneAtATime == /\ \A c, d \in WatchCallers : c = d
              /\ \A c, d \in PoolCallers : c = d

Shapes ==
    /\ watch = [gen |-> watch.gen, phase |-> watch.phase, tasks |-> watch.tasks]
    /\ pool = [gen |-> pool.gen, phase |-> pool.phase, walk |-> pool.walk,
               sessions |-> pool.sessions, cut |-> pool.cut]
    /\ watch.gen \in Nat /\ pool.gen \in Nat
    /\ watchCall = [c \in WatchCallers |-> watchCall[c]]
    /\ poolCall = [c \in PoolCallers |-> poolCall[c]]
    /\ \A c \in PoolCallers : LET r == poolCall[c] IN r.pc \in {"walk", "sessions"} =>
         r = [pc |-> r.pc, await |-> r.await, then |-> r.then, accounts |-> r.accounts]
    /\ \A t \in Live : at[t] = [pc |-> at[t].pc, await |-> at[t].await]

\* A task that is not aborted is held by the service that spawned it.
StoresOf(c) == IF watchCall[c].pc = "store" THEN watchCall[c].mine ELSE {}
TasksAreHeld ==
    \A t \in Live \ aborted :
      \/ t.kind = "collector" /\ (t \in watch.tasks \/ \E c \in WatchCallers : t \in StoresOf(c))
      \/ t.kind = "walk" /\ t \in pool.walk
      \/ t.kind = "worker" /\ t \in pool.sessions

\* Handles are those of the generation the service is in.
HandlesAreCurrent ==
    /\ \A t \in watch.tasks \cup UNION {StoresOf(c) : c \in WatchCallers} :
         t = Task("collector", watch.gen, t.acct)
    /\ \A t \in pool.walk : t = Task("walk", pool.gen, "none")
    /\ \A t \in pool.sessions : t = Task("worker", pool.gen, t.acct)

\* A request that takes a service down, or up again, has taken its handles.
HandlesAreTaken ==
    /\ \A c \in WatchCallers : watchCall[c].pc \in {"drain", "store"} => watch.tasks = {}
    /\ \A c \in PoolCallers : /\ poolCall[c].pc \in {"walk", "sessions", "spawn"} => pool.walk = {}
                              /\ poolCall[c].pc = "sessions" => pool.sessions = {}
    /\ \A t \in Of("walk") \ aborted : at[t].pc = "awaiting" => pool.sessions = {}

StoppedHoldsNothing ==
    /\ watch.phase = "Stopped" =>
         watch.tasks = {} /\ \A c \in WatchCallers : watchCall[c].pc # "store"
    /\ pool.phase = "Stopped" => pool.sessions = {}

\* A walk outlives its handle only while a request awaits it.
WalksAreAwaited ==
    ~pool.cut => \A t \in Of("walk") :
      /\ t.gen = pool.gen
      /\ t \in pool.walk \/ \E c \in PoolCallers : poolCall[c].pc = "walk" /\ t \in poolCall[c].await

SessionsInv == /\ Shapes /\ TasksAreHeld /\ HandlesAreCurrent /\ HandlesAreTaken
               /\ StoppedHoldsNothing /\ WalksAreAwaited

\* A collector is collecting with account a, which the configuration lists.
Collecting(a) ==
    /\ a \in config.listed
    /\ \E t \in Of("collector") \ aborted : t.acct = a /\ at[t].pc # "fresh"

\* Live collection wins: a collector that is left running with a listed account
\* ends up holding its session for good, because every worker of the pool reads
\* the configuration again before it logs in.
CollectorKeepsItsAccount ==
    \A a \in Accounts : <>[]Collecting(a) => <>[](session[a].kind = "collector")

\* Every request to start or stop a service is answered: what it awaits was
\* aborted first, the walk that is itself awaiting its workers included.
RequestsEnd ==
    /\ \A c \in WatchCallers : []<>(watchCall[c] = Idle)
    /\ \A c \in PoolCallers : []<>(poolCall[c] = Idle)
=============================================================================
