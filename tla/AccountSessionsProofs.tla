----------------------- MODULE AccountSessionsProofs -----------------------
(***************************************************************************)
(* What the two supervisors promise about their tasks, for any number of   *)
(* accounts, generations and faults, as long as each of them handles one   *)
(* request at a time.  That hypothesis, OneAtATime, is part of each of     *)
(* those theorems: the services take no lock over a request, and two       *)
(* requests to start the collectors that overlap do spawn two for one      *)
(* account.  Then the account document and the balancer (ExitBalancer),    *)
(* without that hypothesis.                                                *)
(***************************************************************************)
EXTENDS AccountSessions, ExitBalancer, FiniteSetTheorems, TLAPS

Running(kind) == Of(kind) \ aborted

\* SessionsInv, as the part the watch service keeps up,
WatchSide ==
    /\ watch = [gen |-> watch.gen, phase |-> watch.phase, tasks |-> watch.tasks]
    /\ watch.gen \in Nat
    /\ watchCall = [c \in WatchCallers |-> watchCall[c]]
    /\ \A t \in Running("collector") :
         t \in watch.tasks \/ \E c \in WatchCallers : t \in StoresOf(c)
    /\ \A t \in watch.tasks \cup UNION {StoresOf(c) : c \in WatchCallers} :
         t = Task("collector", watch.gen, t.acct)
    /\ \A c \in WatchCallers : watchCall[c].pc \in {"drain", "store"} => watch.tasks = {}
    /\ watch.phase = "Stopped" =>
         watch.tasks = {} /\ \A c \in WatchCallers : watchCall[c].pc # "store"

\* the part the re-fetch service does,
PoolShape ==
    /\ pool = [gen |-> pool.gen, phase |-> pool.phase, walk |-> pool.walk,
               sessions |-> pool.sessions, cut |-> pool.cut]
    /\ pool.gen \in Nat
    /\ poolCall = [c \in PoolCallers |-> poolCall[c]]
    /\ \A c \in PoolCallers : LET r == poolCall[c] IN r.pc \in {"walk", "sessions"} =>
         r = [pc |-> r.pc, await |-> r.await, then |-> r.then, accounts |-> r.accounts]

PoolHolds ==
    /\ \A t \in Running("walk") : t \in pool.walk
    /\ \A t \in Running("worker") : t \in pool.sessions
    /\ \A t \in pool.walk : t = Task("walk", pool.gen, "none")
    /\ \A t \in pool.sessions : t = Task("worker", pool.gen, t.acct)
    /\ \A c \in PoolCallers : /\ poolCall[c].pc \in {"walk", "sessions", "spawn"} => pool.walk = {}
                              /\ poolCall[c].pc = "sessions" => pool.sessions = {}
    /\ \A t \in Running("walk") : at[t].pc = "awaiting" => pool.sessions = {}
    /\ pool.phase = "Stopped" => pool.sessions = {}

\* and what both rest on.
TasksAreKnown ==
    /\ \A t \in Live : at[t] = [pc |-> at[t].pc, await |-> at[t].await]
    /\ \A t \in Live \ aborted : t.kind \in {"collector", "worker", "walk"}

Sides == WatchSide /\ PoolShape /\ PoolHolds /\ WalksAreAwaited /\ TasksAreKnown

LEMMA SidesAreTheInvariant == Sides <=> SessionsInv
<1>1. Sides => SessionsInv
  BY DEF Sides, WatchSide, PoolShape, PoolHolds, TasksAreKnown, Running, Of, SessionsInv,
         Shapes, TasksAreHeld, HandlesAreCurrent, HandlesAreTaken, StoppedHoldsNothing
<1>2. SessionsInv => Shapes /\ WatchSide
  BY DEF WatchSide, Running, Of, SessionsInv, Task,
         Shapes, TasksAreHeld, HandlesAreCurrent, HandlesAreTaken, StoppedHoldsNothing
<1>3. SessionsInv => PoolShape /\ PoolHolds /\ WalksAreAwaited
  BY DEF PoolShape, PoolHolds, Running, Of, SessionsInv, Task,
         Shapes, TasksAreHeld, HandlesAreCurrent, HandlesAreTaken, StoppedHoldsNothing
<1>4. SessionsInv => TasksAreKnown
  BY DEF TasksAreKnown, SessionsInv, Shapes, TasksAreHeld
<1> QED BY <1>1, <1>2, <1>3, <1>4 DEF Sides

-----------------------------------------------------------------------------
(* What a step of a task does to the others. *)

\* A task that ends, and one that goes on, leave the rest as they were.
LEMMA EndFacts ==
  ASSUME NEW t \in Live, End(t), TasksAreKnown
  PROVE  /\ Live' = Live \ {t} /\ \A k : Running(k)' = Running(k) \ {t}
         /\ \A u \in Live' : at'[u] = at[u]
         /\ TasksAreKnown'
<1>1. Live' = Live \ {t} /\ \A u \in Live' : at'[u] = at[u]
  BY DEF End, Live
<1>2. aborted' = aborted \ {t}
  BY DEF End
<1>3. \A k : Running(k)' = Running(k) \ {t}
  BY <1>1, <1>2 DEF Running, Of
<1>4. TasksAreKnown'
  BY <1>1, <1>2 DEF TasksAreKnown
<1> QED BY <1>1, <1>3, <1>4

LEMMA GotoFacts ==
  ASSUME NEW t \in Live, NEW pc, Goto(t, pc), UNCHANGED aborted, TasksAreKnown
  PROVE  /\ Live' = Live /\ \A k : Running(k)' = Running(k)
         /\ \A u \in Live' : at'[u].pc = at[u].pc \/ (u = t /\ at'[u].pc = pc)
         /\ TasksAreKnown'
<1>1. at[t] = [pc |-> at[t].pc, await |-> at[t].await]
  BY DEF TasksAreKnown
<1>2. [at[t] EXCEPT !.pc = pc] = [pc |-> pc, await |-> at[t].await]
  BY <1>1
<1>3. at' = [at EXCEPT ![t] = [pc |-> pc, await |-> at[t].await]]
  BY <1>2 DEF Goto
<1>4. Live' = Live
  BY <1>3 DEF Live
<1>5. \A u \in Live' : at'[u] = IF u = t THEN [pc |-> pc, await |-> at[t].await] ELSE at[u]
  BY <1>3, <1>4 DEF Live
<1>6. TasksAreKnown'
  BY <1>4, <1>5 DEF TasksAreKnown
<1>7. \A k : Running(k)' = Running(k)
  BY <1>4 DEF Running, Of
<1>8. \A u \in Live' : at'[u].pc = at[u].pc \/ (u = t /\ at'[u].pc = pc)
  BY <1>5
<1> QED BY <1>4, <1>6, <1>7, <1>8

LEMMA AbortFacts ==
  ASSUME NEW S, Abort(S), UNCHANGED at, TasksAreKnown
  PROVE  /\ Live' = Live /\ \A k : Running(k)' = Running(k) \ S
         /\ TasksAreKnown'
  BY DEF Abort, TasksAreKnown, Running, Of, Live

LEMMA SpawnFacts ==
  ASSUME NEW kind \in {"collector", "worker", "walk"}, NEW S, NEW pc, Spawn(S, pc),
         \A t \in S : t.kind = kind,
         UNCHANGED aborted, TasksAreKnown
  PROVE  /\ Live' = Live \cup S
         /\ \A u \in Live' : at'[u] = IF u \in S THEN [pc |-> pc, await |-> {}] ELSE at[u]
         /\ \A k : k # kind => Of(k)' = Of(k) /\ Running(k)' = Running(k)
         /\ Running(kind)' \subseteq Running(kind) \cup S
         /\ TasksAreKnown'
<1>1. /\ Live' = Live \cup S
      /\ \A u \in Live' : at'[u] = IF u \in S THEN [pc |-> pc, await |-> {}] ELSE at[u]
  BY DEF Spawn, Live
<1>2. \A k : k # kind => Of(k)' = Of(k) /\ Running(k)' = Running(k)
  BY <1>1 DEF Running, Of
<1>3. Running(kind)' \subseteq Running(kind) \cup S
  BY <1>1 DEF Running, Of
<1>4. TasksAreKnown'
  BY <1>1 DEF TasksAreKnown
<1> QED BY <1>1, <1>2, <1>3, <1>4

-----------------------------------------------------------------------------
(* Steps that leave one of the services alone, but for a phase that is not *)
(* "Stopped".                                                              *)

WatchKept == watch' = watch \/ watch' = [watch EXCEPT !.phase = "Failed"]
PoolKept  == pool' = pool \/ pool' = [pool EXCEPT !.phase = "Failed"]

LEMMA WatchQuiet ==
  ASSUME WatchSide, WatchKept, UNCHANGED watchCall,
         Running("collector")' \subseteq Running("collector")
  PROVE  WatchSide'
<1>1. /\ watch' = [gen |-> watch.gen, phase |-> watch'.phase, tasks |-> watch.tasks]
      /\ watch'.phase = watch.phase \/ watch'.phase = "Failed"
  BY DEF WatchSide, WatchKept
<1>2. watch'.gen = watch.gen /\ watch'.tasks = watch.tasks
  BY <1>1
<1>3. \A c : StoresOf(c)' = StoresOf(c)
  BY DEF StoresOf
<1> QED BY <1>1, <1>2, <1>3 DEF WatchSide

LEMMA PoolQuiet ==
  ASSUME PoolShape, PoolHolds, WalksAreAwaited, PoolKept, UNCHANGED poolCall,
         Running("walk")' \subseteq Running("walk"),
         Running("worker")' \subseteq Running("worker"),
         Of("walk")' \subseteq Of("walk"),
         \A t \in Running("walk")' : at'[t].pc = "awaiting" => at[t].pc = "awaiting"
  PROVE  PoolShape' /\ PoolHolds' /\ WalksAreAwaited'
<1>1. /\ pool' = [gen |-> pool.gen, phase |-> pool'.phase, walk |-> pool.walk,
                  sessions |-> pool.sessions, cut |-> pool.cut]
      /\ pool'.phase = pool.phase \/ pool'.phase = "Failed"
  BY DEF PoolShape, PoolKept
<1>2. /\ pool'.gen = pool.gen /\ pool'.walk = pool.walk /\ pool'.sessions = pool.sessions
      /\ pool'.cut = pool.cut
  BY <1>1
<1>3. PoolShape'
  BY <1>1, <1>2 DEF PoolShape
<1>4. PoolHolds'
  BY <1>1, <1>2 DEF PoolHolds
<1>5. WalksAreAwaited'
  BY <1>2 DEF WalksAreAwaited
<1> QED BY <1>3, <1>4, <1>5

-----------------------------------------------------------------------------
(* The tasks' own steps. *)

\* A task that ends leaves both services' parts in place,
LEMMA EndKeeps ==
  ASSUME Sides, NEW t \in Live, End(t), WatchKept, PoolKept, UNCHANGED callVars
  PROVE  Sides'
<1>1. /\ Live' = Live \ {t} /\ \A k : Running(k)' = Running(k) \ {t}
      /\ \A u \in Live' : at'[u] = at[u]
      /\ TasksAreKnown'
  BY EndFacts DEF Sides
<1>2. Of("walk")' \subseteq Of("walk")
  BY <1>1 DEF Of
<1>3. WatchSide'
  BY <1>1, WatchQuiet DEF Sides, callVars
<1>4. \A u \in Running("walk")' : u \in Live'
  BY DEF Running, Of
<1>5. PoolShape' /\ PoolHolds' /\ WalksAreAwaited'
  BY <1>1, <1>2, <1>4, PoolQuiet DEF Sides, callVars
<1> QED BY <1>1, <1>3, <1>5 DEF Sides

\* and so does one that goes on, but for a walk that is to await its workers.
LEMMA GotoKeeps ==
  ASSUME Sides, NEW t \in Live, NEW pc, Goto(t, pc), pc # "awaiting",
         UNCHANGED <<watch, pool, callVars, aborted>>
  PROVE  Sides'
<1>1. /\ Live' = Live /\ \A k : Running(k)' = Running(k)
      /\ \A u \in Live' : at'[u].pc = at[u].pc \/ (u = t /\ at'[u].pc = pc)
      /\ TasksAreKnown'
  BY GotoFacts DEF Sides
<1>2. Of("walk")' \subseteq Of("walk")
  BY <1>1 DEF Of
<1>3. WatchSide'
  BY <1>1, WatchQuiet DEF Sides, callVars, WatchKept
<1>4. \A u \in Running("walk")' : u \in Live'
  BY DEF Running, Of
<1>5. PoolShape' /\ PoolHolds' /\ WalksAreAwaited'
  BY <1>1, <1>2, <1>4, PoolQuiet DEF Sides, callVars, PoolKept
<1> QED BY <1>1, <1>3, <1>5 DEF Sides

LEMMA CollectorSteps ==
  ASSUME Sides, NEW t \in Live, CollectorStep(t)
  PROVE  Sides'
<1>1. CASE CollectorLoads(t)
  BY <1>1, GotoKeeps DEF CollectorLoads
<1>2. CASE CollectorFails(t)
  BY <1>2, EndKeeps DEF CollectorFails, WatchKept, PoolKept
<1>3. CASE CollectorLogsIn(t)
  BY <1>3, GotoKeeps DEF CollectorLogsIn
<1>4. CASE CollectorReconnects(t)
  BY <1>4, GotoKeeps DEF CollectorReconnects
<1> QED BY <1>1, <1>2, <1>3, <1>4 DEF CollectorStep

LEMMA WorkerSteps ==
  ASSUME Sides, NEW t \in Live, WorkerStep(t)
  PROVE  Sides'
<1>1. CASE WorkerLoads(t)
  BY <1>1, GotoKeeps DEF WorkerLoads
<1>2. CASE WorkerFails(t)
  BY <1>2, EndKeeps DEF WorkerFails, WatchKept, PoolKept
<1>3. CASE WorkerChecks(t)
  BY <1>3, GotoKeeps, EndKeeps DEF WorkerChecks, WatchKept, PoolKept
<1>4. CASE WorkerLogsIn(t)
  BY <1>4, GotoKeeps DEF WorkerLogsIn
<1>5. CASE WorkerReconnects(t)
  BY <1>5, GotoKeeps, EndKeeps DEF WorkerReconnects, ComeRound, WatchKept, PoolKept
<1>6. CASE WorkerLoginFails(t)
  BY <1>6, GotoKeeps, EndKeeps DEF WorkerLoginFails, ComeRound, WatchKept, PoolKept
<1>7. CASE WorkerBanned(t)
  BY <1>7, EndKeeps DEF WorkerBanned, WatchKept, PoolKept
<1> QED BY <1>1, <1>2, <1>3, <1>4, <1>5, <1>6, <1>7 DEF WorkerStep

\* The walk takes the sessions' handles and aborts what they stand for.
LEMMA WalkStopsSessionsStep ==
  ASSUME Sides, NEW t \in Live, WalkStopsSessions(t)
  PROVE  Sides'
<1>1. /\ aborted' = aborted \cup (pool.sessions \cap Live)
      /\ at' = [at EXCEPT ![t] = [pc |-> "awaiting", await |-> pool.sessions]]
      /\ UNCHANGED <<watch, callVars>>
      /\ pool' = [pool EXCEPT !.sessions = {}]
  BY DEF WalkStopsSessions, Abort
<1>2. /\ Live' = Live
      /\ \A u \in Live' : at'[u] = IF u = t THEN [pc |-> "awaiting", await |-> pool.sessions]
                                            ELSE at[u]
  BY <1>1 DEF Live
<1>3. \A k : Of(k)' = Of(k) /\ Running(k)' = Running(k) \ pool.sessions
  BY <1>1, <1>2 DEF Of, Running
<1>4. TasksAreKnown'
  BY <1>1, <1>2 DEF Sides, TasksAreKnown
<1>5. WatchSide'
  BY <1>1, <1>3, WatchQuiet DEF Sides, WatchKept, callVars
<1>6. pool' = [gen |-> pool.gen, phase |-> pool.phase, walk |-> pool.walk,
               sessions |-> {}, cut |-> pool.cut]
  BY <1>1 DEF Sides, PoolShape
<1>7. PoolShape'
  BY <1>1, <1>6 DEF Sides, PoolShape, callVars
<1>8. PoolHolds'
  BY <1>1, <1>3, <1>6 DEF Sides, PoolHolds, callVars
<1>9. WalksAreAwaited'
  BY <1>1, <1>3, <1>6 DEF Sides, WalksAreAwaited, callVars
<1> QED BY <1>4, <1>5, <1>7, <1>8, <1>9 DEF Sides

\* The walk that awaited them reports the service stopped.
LEMMA WalkFinishesStep ==
  ASSUME Sides, NEW t \in Live, WalkFinishes(t)
  PROVE  Sides'
<1>1. PICK phase \in {"Stopped", "Failed"} : pool' = [pool EXCEPT !.phase = phase]
  BY DEF WalkFinishes
<1>2. End(t) /\ UNCHANGED <<watch, callVars>> /\ t \in Running("walk") /\ at[t].pc = "awaiting"
  BY DEF WalkFinishes, Running
<1>3. /\ Live' = Live \ {t} /\ \A k : Running(k)' = Running(k) \ {t}
      /\ \A u \in Live' : at'[u] = at[u]
      /\ TasksAreKnown'
  BY <1>2, EndFacts DEF Sides
<1>4. Of("walk")' \subseteq Of("walk") /\ \A u \in Running("walk")' : u \in Live'
  BY <1>3 DEF Of, Running
<1>5. WatchSide'
  BY <1>2, <1>3, WatchQuiet DEF Sides, callVars, WatchKept
<1>6. pool.sessions = {}
  BY <1>2 DEF Sides, PoolHolds
<1>7. pool' = [gen |-> pool.gen, phase |-> phase, walk |-> pool.walk,
               sessions |-> pool.sessions, cut |-> pool.cut]
  BY <1>1 DEF Sides, PoolShape
<1>8. PoolShape'
  BY <1>2, <1>7 DEF Sides, PoolShape, callVars
<1>9. PoolHolds'
  BY <1>2, <1>3, <1>4, <1>6, <1>7 DEF Sides, PoolHolds, callVars
<1>10. WalksAreAwaited'
  BY <1>2, <1>4, <1>7 DEF Sides, WalksAreAwaited, callVars
<1> QED BY <1>3, <1>5, <1>8, <1>9, <1>10 DEF Sides

LEMMA WalkSteps ==
  ASSUME Sides, NEW t \in Live, WalkStep(t)
  PROVE  Sides'
<1>1. CASE WalkEnds(t)
  BY <1>1, GotoKeeps, EndKeeps DEF WalkEnds, WatchKept, PoolKept
<1> QED BY <1>1, WalkStopsSessionsStep, WalkFinishesStep DEF WalkStep

LEMMA AbortLandsStep ==
  ASSUME Sides, NEW t \in Live, AbortLands(t)
  PROVE  Sides'
  BY EndKeeps DEF AbortLands, WatchKept, PoolKept

-----------------------------------------------------------------------------
(* The watch service's requests, one at a time. *)

\* A step of a watch request that spawns nothing leaves the pool as it was.
LEMMA PoolAside ==
  ASSUME Sides, NEW S, Abort(S) \/ UNCHANGED aborted, UNCHANGED <<at, pool, poolCall>>
  PROVE  PoolShape' /\ PoolHolds' /\ WalksAreAwaited' /\ TasksAreKnown'
<1>1. Live' = Live /\ TasksAreKnown' /\ aborted \subseteq aborted'
  BY DEF Abort, Live, Sides, TasksAreKnown
<1>2. /\ \A k : Running(k)' \subseteq Running(k)
      /\ \A k : Of(k)' = Of(k)
  BY <1>1 DEF Running, Of
<1>3. \A u : at'[u].pc = at[u].pc
  OBVIOUS
<1> QED BY <1>1, <1>2, <1>3, PoolQuiet DEF Sides, PoolKept

\* A request that begins, or ends, without having spawned anything
LEMMA WatchGoesOn ==
  ASSUME Sides, OneAtATime, NEW c \in WatchCallers, NEW r, NEW phase,
         watchCall[c].pc # "store", r.pc \in {"idle", "probe"},
         watchCall' = [watchCall EXCEPT ![c] = r],
         watch' = [watch EXCEPT !.phase = phase],
         phase = "Stopped" => watch.tasks = {},
         UNCHANGED <<at, aborted, pool, poolCall>>
  PROVE  Sides'
<1>1. \A d \in WatchCallers : d = c
  BY DEF OneAtATime
<1>2. watchCall' = [d \in WatchCallers |-> watchCall'[d]] /\ watchCall'[c] = r
  BY DEF Sides, WatchSide
<1>3. watch' = [gen |-> watch.gen, phase |-> phase, tasks |-> watch.tasks]
  BY DEF Sides, WatchSide
<1>4. \A d \in WatchCallers : StoresOf(d) = {} /\ StoresOf(d)' = {}
  BY <1>1, <1>2 DEF StoresOf
<1>5. Running("collector")' = Running("collector")
  BY DEF Running, Of, Live
<1>6. WatchSide'
  BY <1>1, <1>2, <1>3, <1>4, <1>5 DEF Sides, WatchSide
<1> QED BY <1>6, PoolAside DEF Sides

\* stop_tasks: what runs is held, and what is held is aborted.
LEMMA TasksAreTaken ==
  ASSUME Sides, OneAtATime, NEW c \in WatchCallers, watchCall[c].pc \in {"idle", "probe"},
         NEW r, watchCall' = [watchCall EXCEPT ![c] = r], r.pc = "drain",
         watch' = [gen |-> watch.gen, phase |-> watch'.phase, tasks |-> {}],
         Abort(watch.tasks), UNCHANGED <<at, pool, poolCall>>
  PROVE  Sides'
<1>1. \A d \in WatchCallers : d = c
  BY DEF OneAtATime
<1>2. /\ watchCall' = [d \in WatchCallers |-> watchCall'[d]]
      /\ watchCall'[c].pc = "drain"
  BY DEF Sides, WatchSide
<1>4. \A d \in WatchCallers : StoresOf(d) = {} /\ StoresOf(d)' = {}
  BY <1>1, <1>2 DEF StoresOf
<1>5. Running("collector")' = {}
  <2>1. Running("collector")' = Running("collector") \ watch.tasks
    BY AbortFacts DEF Sides
  <2>2. Running("collector") \subseteq watch.tasks
    BY <1>4 DEF Sides, WatchSide
  <2> QED BY <2>1, <2>2
<1>6. WatchSide'
  <2>1. watch'.gen = watch.gen /\ watch'.tasks = {} /\ watch.gen \in Nat
    BY DEF Sides, WatchSide
  <2>2. watch' = [gen |-> watch'.gen, phase |-> watch'.phase, tasks |-> watch'.tasks]
    OBVIOUS
  <2>3. \A d \in WatchCallers : watchCall'[d].pc # "store"
    BY <1>1, <1>2
  <2> QED BY <1>2, <1>4, <1>5, <2>1, <2>2, <2>3 DEF WatchSide
<1> QED BY <1>6, PoolAside DEF Sides

LEMMA BeginsToStop ==
  ASSUME Sides, OneAtATime, NEW c \in WatchCallers, watchCall[c].pc \in {"idle", "probe"},
         NEW then, NEW wanted, StopTasks(c, then, wanted),
         watch' = [gen |-> watch.gen, phase |-> watch'.phase, tasks |-> {}],
         UNCHANGED <<at, pool, poolCall>>
  PROVE  Sides'
<1> DEFINE r == [pc |-> "drain", await |-> watch.tasks, then |-> then, active |-> wanted]
<1>1. watchCall' = [watchCall EXCEPT ![c] = r] /\ Abort(watch.tasks) /\ r.pc = "drain"
  BY DEF StopTasks
<1> HIDE DEF r
<1> QED BY <1>1, TasksAreTaken

LEMMA WatchRequests ==
  ASSUME Sides, OneAtATime, NEW c \in WatchCallers, WatchRequest(c)
  PROVE  Sides'
<1>0. watchCall[c].pc = "idle" /\ UNCHANGED <<at, pool, poolCall>>
  BY DEF WatchRequest, UpdateConfig, WatchStart, WatchStop, Idle, taskVars
<1>1. CASE UpdateConfig(c)
  <2>1. PICK next \in Configs :
          IF next.enabled
          THEN /\ watch' = [watch EXCEPT !.phase = "Reloading"]
               /\ watchCall' = [watchCall EXCEPT ![c] =
                                  [pc |-> "probe", active |-> ActiveInstances(next)]]
               /\ UNCHANGED aborted
          ELSE BeginStop(c)
    BY <1>1 DEF UpdateConfig
  <2>2. CASE BeginStop(c)
    <3>1. /\ StopTasks(c, "stop", {})
          /\ watch' = [gen |-> watch.gen, phase |-> watch'.phase, tasks |-> {}]
      BY <2>2 DEF BeginStop, Sides, WatchSide
    <3> QED BY <1>0, <3>1, BeginsToStop
  <2>3. CASE ~BeginStop(c)
    <3> DEFINE r == [pc |-> "probe", active |-> ActiveInstances(next)]
    <3>1. r.pc = "probe"
      OBVIOUS
    <3>2. /\ watch' = [watch EXCEPT !.phase = "Reloading"]
          /\ watchCall' = [watchCall EXCEPT ![c] = r] /\ UNCHANGED aborted
      BY <2>1, <2>3
    <3> HIDE DEF r
    <3> QED BY <1>0, <3>1, <3>2, WatchGoesOn
  <2> QED BY <2>2, <2>3
<1>2. CASE WatchStart(c)
  <2> DEFINE r == [pc |-> "probe", active |-> ActiveInstances(config)]
  <2>1. r.pc = "probe"
    OBVIOUS
  <2>2. PICK phase \in {watch.phase, "Reloading"} : watch' = [watch EXCEPT !.phase = phase]
    BY <1>2 DEF WatchStart
  <2>3. watchCall' = [watchCall EXCEPT ![c] = r] /\ UNCHANGED aborted
    BY <1>2 DEF WatchStart, taskVars
  <2>4. phase = "Stopped" => watch.tasks = {}
    BY DEF Sides, WatchSide
  <2> HIDE DEF r
  <2> QED BY <1>0, <2>1, <2>2, <2>3, <2>4, WatchGoesOn
<1>3. CASE WatchStop(c)
  <2>1. /\ StopTasks(c, "stop", {})
        /\ watch' = [gen |-> watch.gen, phase |-> watch'.phase, tasks |-> {}]
    BY <1>3 DEF WatchStop, BeginStop, Sides, WatchSide
  <2> QED BY <1>0, <2>1, BeginsToStop
<1> QED BY <1>1, <1>2, <1>3 DEF WatchRequest

\* start opens a generation when nothing of the last one runs any more.
LEMMA SpawnCollectorsStep ==
  ASSUME Sides, OneAtATime, NEW c \in WatchCallers, SpawnCollectors(c)
  PROVE  Sides'
<1> DEFINE ts == {Task("collector", watch.gen + 1, a) : a \in watchCall[c].active}
<1>0. /\ watchCall[c].pc = "drain" /\ Spawn(ts, "fresh")
      /\ watchCall' = [watchCall EXCEPT ![c] = [pc |-> "store", mine |-> ts]]
      /\ watch' = [watch EXCEPT !.gen = watch.gen + 1, !.phase = "Starting"]
      /\ UNCHANGED <<pool, poolCall, aborted>>
  BY DEF SpawnCollectors, Drained
<1>1. \A t \in ts : t = Task("collector", watch.gen + 1, t.acct) /\ t.kind = "collector"
  BY DEF Task
<1> HIDE DEF ts
<1>2. \A d \in WatchCallers : d = c
  BY DEF OneAtATime
<1>3. /\ watchCall' = [d \in WatchCallers |-> watchCall'[d]]
      /\ watchCall'[c] = [pc |-> "store", mine |-> ts]
  BY <1>0 DEF Sides, WatchSide
<1>4. /\ watch' = [gen |-> watch.gen + 1, phase |-> "Starting", tasks |-> watch.tasks]
      /\ watch.gen + 1 \in Nat
  <2>1. watch = [gen |-> watch.gen, phase |-> watch.phase, tasks |-> watch.tasks]
    BY DEF Sides, WatchSide
  <2>2. watch.gen \in Nat
    BY DEF Sides, WatchSide
  <2>3. watch' = [gen |-> watch.gen + 1, phase |-> "Starting", tasks |-> watch.tasks]
    BY ONLY <1>0, <2>1
  <2> QED BY <2>2, <2>3
<1>5. \A d \in WatchCallers : StoresOf(d) = {} /\ StoresOf(d)' = ts
  BY <1>0, <1>2, <1>3 DEF StoresOf
<1>6. watch.tasks = {} /\ Running("collector") = {}
  BY <1>0, <1>5 DEF Sides, WatchSide
<1>7. /\ Live' = Live \cup ts
      /\ \A u \in Live' : at'[u] = IF u \in ts THEN [pc |-> "fresh", await |-> {}] ELSE at[u]
      /\ \A k : k # "collector" => Of(k)' = Of(k) /\ Running(k)' = Running(k)
      /\ Running("collector")' \subseteq Running("collector") \cup ts
      /\ TasksAreKnown'
  BY <1>0, <1>1, SpawnFacts DEF Sides
<1>8. WatchSide'
  BY <1>1, <1>2, <1>3, <1>4, <1>5, <1>6, <1>7 DEF Sides, WatchSide
<1>9. \A t \in Running("walk")' : at'[t].pc = at[t].pc
  BY <1>1, <1>7 DEF Running, Of
<1>10. PoolShape' /\ PoolHolds' /\ WalksAreAwaited'
  BY <1>0, <1>7, <1>9, PoolQuiet DEF Sides, PoolKept
<1> QED BY <1>7, <1>8, <1>10 DEF Sides

\* The request hands the collectors it spawned over to the service.
LEMMA StoreTasksStep ==
  ASSUME Sides, OneAtATime, NEW c \in WatchCallers, StoreTasks(c)
  PROVE  Sides'
<1> DEFINE ts == watchCall[c].mine
           phase == IF ts = {} THEN "Stopped" ELSE "Running"
<1>0. /\ watchCall[c].pc = "store" /\ watch' = [watch EXCEPT !.phase = phase, !.tasks = ts]
      /\ watchCall' = [watchCall EXCEPT ![c] = Idle]
      /\ UNCHANGED <<pool, poolCall, at, aborted>>
  BY DEF StoreTasks, taskVars
<1>1. phase = "Stopped" => ts = {}
  OBVIOUS
<1>2. \A d \in WatchCallers : d = c
  BY DEF OneAtATime
<1>3. watchCall' = [d \in WatchCallers |-> watchCall'[d]] /\ watchCall'[c] = Idle
  BY <1>0 DEF Sides, WatchSide
<1>5. \A d \in WatchCallers : StoresOf(d) = ts /\ StoresOf(d)' = {}
  BY <1>0, <1>2, <1>3 DEF StoresOf, Idle
<1> HIDE DEF ts, phase
<1>4. watch' = [gen |-> watch.gen, phase |-> phase, tasks |-> ts] /\ watch.tasks = {}
  BY <1>0 DEF Sides, WatchSide
<1>6. Running("collector")' = Running("collector")
  BY <1>0 DEF Running, Of, Live
<1>7. Running("collector") \subseteq ts
  BY <1>4, <1>5 DEF Sides, WatchSide
<1>8. \A t \in ts : t = Task("collector", watch.gen, t.acct)
  BY <1>5 DEF Sides, WatchSide
<1>9. WatchSide'
  BY <1>1, <1>2, <1>3, <1>4, <1>5, <1>6, <1>7, <1>8 DEF Sides, WatchSide, Idle
<1> QED BY <1>0, <1>9, PoolAside DEF Sides

LEMMA WatchSteps ==
  ASSUME Sides, OneAtATime, NEW c \in WatchCallers, WatchStep(c)
  PROVE  Sides'
<1>0. Idle.pc = "idle" /\ watch = [watch EXCEPT !.phase = watch.phase]
  BY DEF Idle, Sides, WatchSide
<1>a. watch.phase = "Stopped" => watch.tasks = {}
  BY DEF Sides, WatchSide
<1>1. CASE ProbeOk(c)
  <2>1. watch' = [gen |-> watch.gen, phase |-> watch'.phase, tasks |-> {}]
    BY <1>1 DEF ProbeOk, Sides, WatchSide
  <2>2. /\ watchCall[c].pc = "probe" /\ StopTasks(c, "start", watchCall[c].active)
        /\ UNCHANGED <<at, pool, poolCall>>
    BY <1>1 DEF ProbeOk
  <2> QED BY <2>1, <2>2, BeginsToStop
<1>2. CASE ProbeFails(c)
  BY <1>0, <1>a, <1>2, WatchGoesOn DEF ProbeFails, taskVars
<1>3. CASE WatchStopped(c)
  <2>1. watch.tasks = {} /\ watchCall[c].pc = "drain"
    BY <1>3 DEF WatchStopped, Drained, Sides, WatchSide
  <2> QED BY <1>0, <1>3, <2>1, WatchGoesOn DEF WatchStopped, taskVars
<1>4. CASE WatchCancelled(c)
  BY <1>0, <1>a, <1>4, WatchGoesOn DEF WatchCancelled, taskVars
<1> QED BY <1>1, <1>2, <1>3, <1>4, SpawnCollectorsStep, StoreTasksStep DEF WatchStep

-----------------------------------------------------------------------------
(* The re-fetch service's requests, one at a time. *)

\* A step of a request to the pool that spawns nothing leaves the collectors.
LEMMA WatchAside ==
  ASSUME Sides, NEW S, Abort(S) \/ UNCHANGED aborted, UNCHANGED <<at, watch, watchCall>>
  PROVE  /\ WatchSide' /\ TasksAreKnown'
         /\ Live' = Live /\ \A k : Of(k)' = Of(k)
         /\ \A k : Running(k)' \subseteq Running(k)
         /\ Abort(S) => \A k : Running(k)' = Running(k) \ S
<1>1. Live' = Live /\ TasksAreKnown' /\ aborted \subseteq aborted'
  BY DEF Abort, Live, Sides, TasksAreKnown
<1>2. /\ \A k : Running(k)' \subseteq Running(k)
      /\ \A k : Of(k)' = Of(k)
      /\ Abort(S) => \A k : Running(k)' = Running(k) \ S
  BY <1>1 DEF Running, Of, Abort
<1> QED BY <1>1, <1>2, WatchQuiet DEF Sides, WatchKept

\* What a step makes of a request, and of the service
LEMMA PoolRecords ==
  ASSUME PoolShape, NEW c \in PoolCallers, NEW r, poolCall' = [poolCall EXCEPT ![c] = r],
         r.pc \in {"walk", "sessions"} =>
           r = [pc |-> r.pc, await |-> r.await, then |-> r.then, accounts |-> r.accounts],
         pool' = [gen |-> pool'.gen, phase |-> pool'.phase, walk |-> pool'.walk,
                  sessions |-> pool'.sessions, cut |-> pool'.cut],
         pool'.gen \in Nat
  PROVE  PoolShape' /\ poolCall'[c] = r
<1>1. /\ poolCall' = [d \in PoolCallers |-> poolCall'[d]]
      /\ \A d \in PoolCallers : poolCall'[d] = IF d = c THEN r ELSE poolCall[d]
  BY DEF PoolShape
<1> QED BY <1>1 DEF PoolShape

\* stop_tasks takes the walk.
LEMMA WalkIsTaken ==
  ASSUME Sides, OneAtATime, NEW c \in PoolCallers, poolCall[c] = Idle,
         NEW then, NEW accounts, StopWalk(c, then, accounts),
         pool' = [gen |-> pool.gen, phase |-> pool'.phase, walk |-> {},
                  sessions |-> pool.sessions, cut |-> pool.cut],
         pool'.phase = "Stopped" => pool.phase = "Stopped",
         UNCHANGED <<at, watch, watchCall>>
  PROVE  Sides'
<1> DEFINE r == [pc |-> "walk", await |-> pool.walk, then |-> then, accounts |-> accounts]
<1>0. /\ poolCall' = [poolCall EXCEPT ![c] = r] /\ Abort(pool.walk)
      /\ r = [pc |-> r.pc, await |-> r.await, then |-> r.then, accounts |-> r.accounts]
      /\ r.pc = "walk" /\ r.await = pool.walk
  BY DEF StopWalk
<1> HIDE DEF r
<1>1. \A d \in PoolCallers : d = c
  BY DEF OneAtATime
<1>2. /\ WatchSide' /\ TasksAreKnown' /\ \A k : Of(k)' = Of(k)
      /\ \A k : Running(k)' = Running(k) \ pool.walk
  BY <1>0, WatchAside
<1>3. /\ pool'.gen = pool.gen /\ pool'.walk = {} /\ pool'.sessions = pool.sessions
      /\ pool'.cut = pool.cut /\ pool.gen \in Nat
  BY DEF Sides, PoolShape
<1>4. pool' = [gen |-> pool'.gen, phase |-> pool'.phase, walk |-> pool'.walk,
               sessions |-> pool'.sessions, cut |-> pool'.cut]
  BY <1>3
<1>5. PoolShape' /\ poolCall'[c] = r
  BY <1>0, <1>3, <1>4, PoolRecords DEF Sides
<1>6. Running("walk")' = {}
  BY <1>2 DEF Sides, PoolHolds
<1>7. PoolHolds'
  BY <1>0, <1>1, <1>2, <1>3, <1>5, <1>6 DEF Sides, PoolHolds
<1>8. WalksAreAwaited'
  BY <1>0, <1>1, <1>2, <1>3, <1>5 DEF Sides, WalksAreAwaited, Idle
<1> QED BY <1>2, <1>5, <1>7, <1>8 DEF Sides

LEMMA PoolRequests ==
  ASSUME Sides, OneAtATime, NEW c \in PoolCallers, PoolRequest(c)
  PROVE  Sides'
<1>0. poolCall[c] = Idle /\ UNCHANGED <<at, watch, watchCall>>
  BY DEF PoolRequest, PoolStart, PoolStop
<1>1. CASE PoolStart(c)
  <2>1. CASE pool' = [pool EXCEPT !.phase = "Failed"] /\ UNCHANGED <<poolCall, aborted>>
    <3>1. UNCHANGED <<Live, aborted, at>>
      BY <1>0, <2>1 DEF Live
    <3>2. \A k : Of(k)' = Of(k) /\ Running(k)' = Running(k)
      BY <3>1 DEF Of, Running
    <3>3. TasksAreKnown'
      BY <3>1 DEF Sides, TasksAreKnown
    <3>4. WatchSide'
      BY <1>0, <3>2, WatchQuiet DEF Sides, WatchKept
    <3>5. PoolShape' /\ PoolHolds' /\ WalksAreAwaited'
      BY <2>1, <3>1, <3>2, PoolQuiet DEF Sides, PoolKept
    <3> QED BY <3>3, <3>4, <3>5 DEF Sides
  <2>2. CASE pool' = [pool EXCEPT !.walk = {}] /\ StopWalk(c, "start", Chosen)
    <3>1. /\ pool' = [gen |-> pool.gen, phase |-> pool'.phase, walk |-> {},
                      sessions |-> pool.sessions, cut |-> pool.cut]
          /\ pool'.phase = pool.phase
      BY <2>2 DEF Sides, PoolShape
    <3> QED BY <1>0, <2>2, <3>1, WalkIsTaken
  <2> QED BY <1>1, <2>1, <2>2 DEF PoolStart
<1>2. CASE PoolStop(c)
  <2>1. /\ pool' = [gen |-> pool.gen, phase |-> pool'.phase, walk |-> {},
                    sessions |-> pool.sessions, cut |-> pool.cut]
        /\ pool'.phase = "Stopping"
    BY <1>2 DEF PoolStop, Sides, PoolShape
  <2>2. StopWalk(c, "stop", {})
    BY <1>2 DEF PoolStop
  <2> QED BY <1>0, <2>1, <2>2, WalkIsTaken
<1> QED BY <1>1, <1>2 DEF PoolRequest

\* The walk is gone, and now the sessions are taken.
LEMMA StopSessionsStep ==
  ASSUME Sides, OneAtATime, NEW c \in PoolCallers, StopSessions(c)
  PROVE  Sides'
<1> DEFINE r == [pc |-> "sessions", await |-> pool.sessions,
                 then |-> poolCall[c].then, accounts |-> poolCall[c].accounts]
<1>a. /\ poolCall[c].pc = "walk" /\ poolCall[c].await \cap Live = {} /\ Abort(pool.sessions)
      /\ poolCall' = [poolCall EXCEPT ![c].pc = "sessions", ![c].await = pool.sessions]
      /\ pool' = [pool EXCEPT !.sessions = {}] /\ UNCHANGED <<at, watch, watchCall>>
  BY DEF StopSessions, Awaited
<1>b. /\ poolCall[c] = [pc |-> "walk", await |-> poolCall[c].await,
                        then |-> poolCall[c].then, accounts |-> poolCall[c].accounts]
      /\ poolCall = [d \in PoolCallers |-> poolCall[d]]
  BY <1>a DEF Sides, PoolShape
<1>c. poolCall' = [poolCall EXCEPT ![c] = r]
  <2> DEFINE f == [poolCall EXCEPT ![c].pc = "sessions"]
  <2>1. f[c] = [pc |-> "sessions", await |-> poolCall[c].await,
                then |-> poolCall[c].then, accounts |-> poolCall[c].accounts]
    BY <1>b
  <2>2. poolCall' = [f EXCEPT ![c] = [f[c] EXCEPT !.await = pool.sessions]]
    BY <1>a
  <2>3. [f[c] EXCEPT !.await = pool.sessions] = r
    BY <2>1
  <2>4. f = [d \in PoolCallers |-> IF d = c THEN f[c] ELSE poolCall[d]]
    BY <1>b
  <2> HIDE DEF f, r
  <2>5. poolCall' = [f EXCEPT ![c] = r]
    BY <2>2, <2>3
  <2>6. poolCall' = [d \in PoolCallers |-> IF d = c THEN r ELSE poolCall[d]]
    BY <2>4, <2>5
  <2> QED BY <2>6, <1>b
<1>d. /\ r = [pc |-> r.pc, await |-> r.await, then |-> r.then, accounts |-> r.accounts]
      /\ r.pc = "sessions"
  OBVIOUS
<1> HIDE DEF r
<1>1. \A d \in PoolCallers : d = c
  BY DEF OneAtATime
<1>2. /\ WatchSide' /\ TasksAreKnown' /\ Live' = Live /\ \A k : Of(k)' = Of(k)
      /\ \A k : Running(k)' = Running(k) \ pool.sessions
  BY <1>a, WatchAside
<1>3. pool' = [gen |-> pool.gen, phase |-> pool.phase, walk |-> pool.walk,
               sessions |-> {}, cut |-> pool.cut]
  BY <1>a DEF Sides, PoolShape
<1>4. /\ pool'.gen = pool.gen /\ pool'.walk = pool.walk /\ pool'.sessions = {}
      /\ pool'.cut = pool.cut /\ pool.gen \in Nat /\ pool.walk = {}
  BY <1>a, <1>3 DEF Sides, PoolShape, PoolHolds
<1>5. pool' = [gen |-> pool'.gen, phase |-> pool'.phase, walk |-> pool'.walk,
               sessions |-> pool'.sessions, cut |-> pool'.cut]
  BY <1>3
<1>6. PoolShape' /\ poolCall'[c] = r
  BY <1>c, <1>d, <1>4, <1>5, PoolRecords DEF Sides
<1>7. PoolHolds'
  BY <1>1, <1>2, <1>4, <1>6, <1>d DEF Sides, PoolHolds
<1>8. WalksAreAwaited'
  <2>1. ~pool.cut => Of("walk") = {}
    BY <1>a, <1>1, <1>4 DEF Sides, WalksAreAwaited, Of
  <2> QED BY <1>2, <1>4, <2>1 DEF WalksAreAwaited
<1> QED BY <1>2, <1>6, <1>7, <1>8 DEF Sides

\* A request that waited for the sessions goes on with no walk left.
LEMMA NoWalkBehindTheSessions ==
  ASSUME Sides, OneAtATime, NEW c \in PoolCallers, poolCall[c].pc \in {"sessions", "spawn"}
  PROVE  /\ pool.walk = {} /\ Running("walk") = {}
         /\ ~pool.cut => Of("walk") = {}
<1>1. pool.walk = {}
  BY DEF Sides, PoolHolds
<1>2. \A d \in PoolCallers : poolCall[d].pc # "walk"
  BY DEF OneAtATime
<1> QED BY <1>1, <1>2 DEF Sides, PoolHolds, WalksAreAwaited

\* A request to the pool that ends where it is
LEMMA PoolGoesIdle ==
  ASSUME Sides, OneAtATime, NEW c \in PoolCallers,
         poolCall' = [poolCall EXCEPT ![c] = Idle],
         pool' = [gen |-> pool.gen, phase |-> pool'.phase, walk |-> pool.walk,
                  sessions |-> pool.sessions, cut |-> pool'.cut],
         pool'.phase = "Stopped" => pool.sessions = {},
         ~pool'.cut => ~pool.cut /\ poolCall[c].pc # "walk",
         UNCHANGED <<at, aborted, watch, watchCall>>
  PROVE  Sides'
<1>1. \A d \in PoolCallers : d = c
  BY DEF OneAtATime
<1>2. /\ WatchSide' /\ TasksAreKnown' /\ Live' = Live /\ \A k : Of(k)' = Of(k)
  BY WatchAside
<1>3. \A k : Running(k)' = Running(k)
  BY <1>2 DEF Running
<1>4. /\ pool'.gen = pool.gen /\ pool'.walk = pool.walk /\ pool'.sessions = pool.sessions
      /\ pool.gen \in Nat
  BY DEF Sides, PoolShape
<1>5. pool' = [gen |-> pool'.gen, phase |-> pool'.phase, walk |-> pool'.walk,
               sessions |-> pool'.sessions, cut |-> pool'.cut]
  BY <1>4
<1>6. Idle.pc = "idle"
  BY DEF Idle
<1>7. PoolShape' /\ poolCall'[c] = Idle
  BY <1>4, <1>5, <1>6, PoolRecords DEF Sides
<1>8. PoolHolds'
  BY <1>1, <1>3, <1>4, <1>6, <1>7 DEF Sides, PoolHolds
<1>9. WalksAreAwaited'
  BY <1>1, <1>2, <1>4, <1>7 DEF Sides, WalksAreAwaited
<1> QED BY <1>2, <1>7, <1>8, <1>9 DEF Sides

\* start opens a generation when the last one's walk and workers are gone.
LEMMA SpawnWorkersStep ==
  ASSUME Sides, OneAtATime, NEW c \in PoolCallers, SpawnWorkers(c)
  PROVE  Sides'
<1> DEFINE ts == {Task("worker", pool.gen + 1, a) : a \in poolCall[c].accounts}
           r  == [pc |-> "spawn"]
<1>0. /\ poolCall[c].pc = "sessions" /\ Spawn(ts, "fresh")
      /\ pool' = [pool EXCEPT !.gen = pool.gen + 1, !.phase = "Starting", !.sessions = ts]
      /\ poolCall' = [poolCall EXCEPT ![c] = r]
      /\ UNCHANGED <<watch, watchCall, aborted>>
  BY DEF SpawnWorkers, Awaited
<1>1. \A t \in ts : t = Task("worker", pool.gen + 1, t.acct) /\ t.kind = "worker"
  BY DEF Task
<1>2. r.pc = "spawn"
  OBVIOUS
<1> HIDE DEF ts, r
<1>3. \A d \in PoolCallers : d = c
  BY DEF OneAtATime
<1>4. pool = [gen |-> pool.gen, phase |-> pool.phase, walk |-> pool.walk,
              sessions |-> pool.sessions, cut |-> pool.cut]
  BY DEF Sides, PoolShape
<1>5. pool' = [gen |-> pool.gen + 1, phase |-> "Starting", walk |-> pool.walk,
               sessions |-> ts, cut |-> pool.cut]
  BY ONLY <1>0, <1>4
<1>6. /\ pool'.gen = pool.gen + 1 /\ pool'.walk = pool.walk /\ pool'.sessions = ts
      /\ pool'.cut = pool.cut /\ pool'.phase = "Starting"
  BY <1>5
<1>7. pool'.gen \in Nat
  BY <1>6 DEF Sides, PoolShape
<1>8. pool' = [gen |-> pool'.gen, phase |-> pool'.phase, walk |-> pool'.walk,
               sessions |-> pool'.sessions, cut |-> pool'.cut]
  BY <1>5, <1>6
<1>9. PoolShape' /\ poolCall'[c] = r
  BY <1>0, <1>2, <1>7, <1>8, PoolRecords DEF Sides
<1>10. pool.walk = {} /\ Running("walk") = {} /\ (~pool.cut => Of("walk") = {})
  BY <1>0, NoWalkBehindTheSessions
<1>11. Running("worker") = {}
  BY <1>0 DEF Sides, PoolHolds
<1>12. /\ Live' = Live \cup ts
       /\ \A k : k # "worker" => Of(k)' = Of(k) /\ Running(k)' = Running(k)
       /\ Running("worker")' \subseteq Running("worker") \cup ts
       /\ TasksAreKnown'
  BY <1>0, <1>1, SpawnFacts DEF Sides
<1>13. WatchSide'
  BY <1>0, <1>12, WatchQuiet DEF Sides, WatchKept
<1>14. PoolHolds'
  BY <1>1, <1>2, <1>3, <1>6, <1>9, <1>10, <1>11, <1>12 DEF PoolHolds
<1>15. WalksAreAwaited'
  BY <1>6, <1>10, <1>12 DEF WalksAreAwaited
<1> QED BY <1>9, <1>12, <1>13, <1>14, <1>15 DEF Sides

LEMMA SpawnWalkStep ==
  ASSUME Sides, OneAtATime, NEW c \in PoolCallers, SpawnWalk(c)
  PROVE  Sides'
<1> DEFINE ts == {Task("walk", pool.gen, "none")}
           r  == [pc |-> "settle"]
<1>0. /\ poolCall[c].pc = "spawn" /\ Spawn(ts, "running")
      /\ pool' = [pool EXCEPT !.walk = ts]
      /\ poolCall' = [poolCall EXCEPT ![c] = r]
      /\ UNCHANGED <<watch, watchCall, aborted>>
  BY DEF SpawnWalk
<1>1. \A t \in ts : t = Task("walk", pool.gen, "none") /\ t.kind = "walk" /\ t.gen = pool.gen
  BY DEF Task
<1>2. r.pc = "settle"
  OBVIOUS
<1> HIDE DEF ts, r
<1>3. \A d \in PoolCallers : d = c
  BY DEF OneAtATime
<1>5. pool' = [gen |-> pool.gen, phase |-> pool.phase, walk |-> ts,
               sessions |-> pool.sessions, cut |-> pool.cut]
  BY <1>0 DEF Sides, PoolShape
<1>6. /\ pool'.gen = pool.gen /\ pool'.walk = ts /\ pool'.sessions = pool.sessions
      /\ pool'.cut = pool.cut /\ pool'.phase = pool.phase
  BY <1>5
<1>7. pool'.gen \in Nat
  BY <1>6 DEF Sides, PoolShape
<1>8. pool' = [gen |-> pool'.gen, phase |-> pool'.phase, walk |-> pool'.walk,
               sessions |-> pool'.sessions, cut |-> pool'.cut]
  BY <1>5, <1>6
<1>9. PoolShape' /\ poolCall'[c] = r
  BY <1>0, <1>2, <1>7, <1>8, PoolRecords DEF Sides
<1>10. pool.walk = {} /\ Running("walk") = {} /\ (~pool.cut => Of("walk") = {})
  BY <1>0, NoWalkBehindTheSessions
<1>12. /\ Live' = Live \cup ts
       /\ \A u \in Live' : at'[u] = IF u \in ts THEN [pc |-> "running", await |-> {}] ELSE at[u]
       /\ \A k : k # "walk" => Of(k)' = Of(k) /\ Running(k)' = Running(k)
       /\ Running("walk")' \subseteq Running("walk") \cup ts
       /\ TasksAreKnown'
  BY <1>0, <1>1, SpawnFacts DEF Sides
<1>13. WatchSide'
  BY <1>0, <1>12, WatchQuiet DEF Sides, WatchKept
<1>14. \A t \in Running("walk")' : t \in ts /\ at'[t].pc = "running"
  <2>1. \A t \in Running("walk")' : t \in ts /\ t \in Live'
    BY <1>10, <1>12 DEF Running, Of
  <2> QED BY <2>1, <1>12
<1>15. PoolHolds'
  BY <1>1, <1>2, <1>3, <1>6, <1>9, <1>12, <1>14 DEF Sides, PoolHolds
<1>16. WalksAreAwaited'
  <2>1. Of("walk")' \subseteq Of("walk") \cup ts
    BY <1>12 DEF Of
  <2> QED BY <1>1, <1>6, <1>10, <2>1 DEF WalksAreAwaited
<1> QED BY <1>9, <1>12, <1>13, <1>15, <1>16 DEF Sides

LEMMA PoolSteps ==
  ASSUME Sides, OneAtATime, NEW c \in PoolCallers, PoolStep(c)
  PROVE  Sides'
<1>0. pool = [gen |-> pool.gen, phase |-> pool.phase, walk |-> pool.walk,
              sessions |-> pool.sessions, cut |-> pool.cut]
  BY DEF Sides, PoolShape
<1>1. CASE PoolStopped(c)
  <2>1. /\ pool' = [gen |-> pool.gen, phase |-> pool'.phase, walk |-> pool.walk,
                    sessions |-> pool.sessions, cut |-> pool'.cut]
        /\ pool'.cut = pool.cut
    BY <1>0, <1>1 DEF PoolStopped
  <2>2. /\ pool.sessions = {} /\ poolCall[c].pc = "sessions"
        /\ poolCall' = [poolCall EXCEPT ![c] = Idle]
        /\ UNCHANGED <<at, aborted, watch, watchCall>>
    BY <1>1 DEF PoolStopped, Awaited, taskVars, Sides, PoolHolds
  <2> QED BY <2>1, <2>2, PoolGoesIdle
<1>2. CASE PoolRunning(c)
  <2>1. /\ pool' = [gen |-> pool.gen, phase |-> pool'.phase, walk |-> pool.walk,
                    sessions |-> pool.sessions, cut |-> pool'.cut]
        /\ pool'.cut = pool.cut /\ pool'.phase = "Running"
    BY <1>0, <1>2 DEF PoolRunning
  <2>2. /\ poolCall[c].pc = "settle" /\ poolCall' = [poolCall EXCEPT ![c] = Idle]
        /\ UNCHANGED <<at, aborted, watch, watchCall>>
    BY <1>2 DEF PoolRunning, taskVars
  <2> QED BY <2>1, <2>2, PoolGoesIdle
<1>3. CASE PoolCancelled(c)
  <2> DEFINE cut == pool.cut \/ poolCall[c].pc = "walk"
  <2>1. pool' = [pool EXCEPT !.cut = cut]
    BY <1>3 DEF PoolCancelled
  <2>a. ~cut => ~pool.cut /\ poolCall[c].pc # "walk"
    OBVIOUS
  <2> HIDE DEF cut
  <2>2. /\ pool' = [gen |-> pool.gen, phase |-> pool'.phase, walk |-> pool.walk,
                    sessions |-> pool.sessions, cut |-> pool'.cut]
        /\ pool'.cut = cut /\ pool'.phase = pool.phase
    BY <1>0, <2>1
  <2>3. pool'.phase = "Stopped" => pool.sessions = {}
    BY <2>2 DEF Sides, PoolHolds
  <2>4. /\ poolCall' = [poolCall EXCEPT ![c] = Idle]
        /\ UNCHANGED <<at, aborted, watch, watchCall>>
    BY <1>3 DEF PoolCancelled, taskVars
  <2>5. ~pool'.cut => ~pool.cut /\ poolCall[c].pc # "walk"
    BY <2>2, <2>a
  <2> QED BY <2>2, <2>3, <2>4, <2>5, PoolGoesIdle
<1> QED BY <1>1, <1>2, <1>3, StopSessionsStep, SpawnWorkersStep, SpawnWalkStep DEF PoolStep

-----------------------------------------------------------------------------
(* The theorems. *)

LEMMA SidesStart == Init => Sides
<1> SUFFICES ASSUME Init PROVE Sides
  OBVIOUS
<1>1. Live = {} /\ \A k : Of(k) = {} /\ Running(k) = {}
  BY DEF Init, Live, Of, Running
<1>2. \A c \in WatchCallers : watchCall[c].pc = "idle" /\ StoresOf(c) = {}
  BY DEF Init, Idle, StoresOf
<1>3. \A c \in PoolCallers : poolCall[c].pc = "idle"
  BY DEF Init, Idle
<1>4. WatchSide
  BY <1>1, <1>2 DEF Init, WatchSide
<1>5. PoolShape /\ PoolHolds /\ WalksAreAwaited
  BY <1>1, <1>3 DEF Init, PoolShape, PoolHolds, WalksAreAwaited
<1>6. TasksAreKnown
  BY <1>1 DEF TasksAreKnown
<1> QED BY <1>4, <1>5, <1>6 DEF Sides

LEMMA SidesStutter == Sides /\ UNCHANGED <<watch, pool, watchCall, poolCall, at, aborted>> => Sides'
<1> SUFFICES ASSUME Sides, UNCHANGED <<watch, pool, watchCall, poolCall, at, aborted>>
             PROVE  Sides'
  OBVIOUS
<1>1. WatchSide' /\ TasksAreKnown'
  BY WatchAside
<1>2. PoolShape' /\ PoolHolds' /\ WalksAreAwaited'
  BY PoolAside
<1> QED BY <1>1, <1>2 DEF Sides

LEMMA SidesStep == OneAtATime /\ Sides /\ [Next]_vars => Sides'
<1> SUFFICES ASSUME OneAtATime, Sides, [Next]_vars PROVE Sides'
  OBVIOUS
<1>1. CASE \E c \in WatchCallers : WatchRequest(c) \/ WatchStep(c)
  BY <1>1, WatchRequests, WatchSteps
<1>2. CASE \E c \in PoolCallers : PoolRequest(c) \/ PoolStep(c)
  BY <1>2, PoolRequests, PoolSteps
<1>3. CASE \E t \in Live : CollectorStep(t) \/ WorkerStep(t) \/ WalkStep(t) \/ AbortLands(t)
  BY <1>3, CollectorSteps, WorkerSteps, WalkSteps, AbortLandsStep
<1>4. CASE LegibleChanges
  BY <1>4, SidesStutter DEF LegibleChanges, callVars, taskVars
<1>5. CASE UNCHANGED vars
  BY <1>5, SidesStutter DEF vars, callVars, taskVars
<1> QED BY <1>1, <1>2, <1>3, <1>4, <1>5 DEF Next

\* The supervisors keep the invariant: what runs is held, what is held is of
\* the current generation, and a walk outlives its handle only while stop_tasks
\* (src/refetch_service.rs) awaits it.
THEOREM SupervisorsKeepOrder == OneAtATime => (Spec => []SessionsInv)
<1> SUFFICES ASSUME OneAtATime PROVE Spec => []SessionsInv
  OBVIOUS
<1>1. Sides /\ [Next]_vars => Sides'
  BY SidesStep
<1>2. Sides => SessionsInv
  BY SidesAreTheInvariant
<1> QED BY <1>1, <1>2, SidesStart, PTL DEF Spec

\* No task of either service runs on with no handle left to stop it.
THEOREM NothingIsOrphaned == OneAtATime => (Spec => []NothingRunsUnheld)
<1>1. SessionsInv => NothingRunsUnheld
  BY DEF SessionsInv, TasksAreHeld, NothingRunsUnheld, Handles, StoresOf
<1> QED BY <1>1, SupervisorsKeepOrder, PTL

\* start never leaves two collectors with one account.
THEOREM AccountsAreCollectedOnce == OneAtATime => (Spec => []OneCollectorPerAccount)
<1>1. SessionsInv => OneCollectorPerAccount
  <2> SUFFICES ASSUME SessionsInv, NEW t \in Of("collector") \ aborted,
                      NEW u \in Of("collector") \ aborted, t.acct = u.acct
               PROVE  t = u
    BY DEF OneCollectorPerAccount
  <2>1. /\ t = Task("collector", watch.gen, t.acct)
        /\ u = Task("collector", watch.gen, u.acct)
    BY SidesAreTheInvariant DEF Sides, WatchSide, Running
  <2> QED BY <2>1
<1> QED BY <1>1, SupervisorsKeepOrder, PTL

\* A service that reports itself stopped holds no account.
THEOREM StoppedServicesAreQuiet == OneAtATime => (Spec => []StoppedIsQuiet)
<1>1. SessionsInv => StoppedIsQuiet
  <2> SUFFICES ASSUME Sides PROVE StoppedIsQuiet
    BY SidesAreTheInvariant
  <2>1. watch.phase = "Stopped" => Running("collector") = {}
    BY DEF Sides, WatchSide, StoresOf
  <2>2. pool.phase = "Stopped" => Running("worker") = {}
    BY DEF Sides, PoolHolds
  <2> QED BY <2>1, <2>2 DEF StoppedIsQuiet, Running
<1> QED BY <1>1, SupervisorsKeepOrder, PTL

\* A walk that ends aborts only sessions of its own generation, unless a request
\* was dropped while it awaited a walk.
THEOREM WalksEndTheirOwn == OneAtATime => (Spec => EndsOnlyItsOwnSessions)
<1>1. ASSUME SessionsInv, NEW t \in Of("walk"), WalkStopsSessions(t), ~pool.cut,
             NEW u \in aborted' \ aborted
      PROVE  u.gen = t.gen
  <2>1. u \in pool.sessions
    BY <1>1 DEF WalkStopsSessions, Abort
  <2>2. u = Task("worker", pool.gen, u.acct)
    BY <1>1, <2>1 DEF SessionsInv, HandlesAreCurrent
  <2>3. u.gen = pool.gen
    BY <2>2 DEF Task
  <2>4. t.gen = pool.gen
    BY <1>1 DEF SessionsInv, WalksAreAwaited
  <2> QED BY <2>3, <2>4
<1>2. SessionsInv => [\A t \in Of("walk") : WalkStopsSessions(t) /\ ~pool.cut
                        => \A u \in aborted' \ aborted : u.gen = t.gen]_vars
  BY <1>1
<1> QED BY <1>2, SupervisorsKeepOrder, PTL DEF EndsOnlyItsOwnSessions

-----------------------------------------------------------------------------
(***************************************************************************)
(* ExitBalancer: the document those tasks are started from, and the exits  *)
(* their sessions are balanced over, for any number of accounts and nodes. *)
(***************************************************************************)

(***************************************************************************)
(* What a submission is stored as                                          *)
(***************************************************************************)

IdOf(i) == IF i = 0 THEN issued + 1 ELSE i

StoredRow(rows, i) ==
    [user |-> rows[i].user, pw |-> RestoredSecret(rows[i].pw, i), purpose |-> rows[i].purpose,
     enabled |-> rows[i].enabled, banned |-> BannedAfter(rows[i], i), node |-> rows[i].node]

\* A submission that names no row the document has not.
Submittable(rows) ==
    /\ DOMAIN rows \subseteq DOMAIN doc.rows \cup {0}
    /\ \A i \in DOMAIN rows : IsAccount(rows[i], Typed \cup {Stars})

LEMMA RestoredIs ==
  ASSUME PoolTyped, NEW rows, Submittable(rows)
  PROVE  /\ Restored(rows) = [j \in DOMAIN Restored(rows) |-> Restored(rows)[j]]
         /\ DOMAIN Restored(rows) = {IdOf(i) : i \in DOMAIN rows}
         /\ \A i \in DOMAIN rows : Restored(rows)[IdOf(i)] = StoredRow(rows, i)
<1> DEFINE Row(i) == [rows[i] EXCEPT !.pw = RestoredSecret(@, i), !.banned = BannedAfter(rows[i], i)]
           Source(j) == CHOOSE k \in DOMAIN rows : IdOf(k) = j
<1>1. Restored(rows) = [j \in {IdOf(i) : i \in DOMAIN rows} |-> Row(Source(j))]
  BY DEF Restored, IdOf
<1>2. ASSUME NEW i \in DOMAIN rows PROVE Source(IdOf(i)) = i
  <2>1. \A k \in DOMAIN rows : k \in 0..issued /\ issued \in Nat
    BY DEF Submittable, PoolTyped
  <2>2. ASSUME NEW k \in DOMAIN rows, IdOf(k) = IdOf(i) PROVE k = i
    <3>1. k \in 0..issued /\ i \in 0..issued /\ issued \in Nat
      BY <2>1
    <3> QED BY <2>2, <3>1 DEF IdOf
  <2> QED BY <2>2
<1>3. ASSUME NEW i \in DOMAIN rows PROVE Row(i) = StoredRow(rows, i)
  <2> DEFINE s == RestoredSecret(rows[i].pw, i)
             b == BannedAfter(rows[i], i)
             r == rows[i]
  <2>1. r = [user |-> r.user, pw |-> r.pw, purpose |-> r.purpose, enabled |-> r.enabled,
             banned |-> r.banned, node |-> r.node]
    BY DEF Submittable, IsAccount
  <2>2. Row(i) = [r EXCEPT !.pw = s, !.banned = b]
    OBVIOUS
  <2>3. StoredRow(rows, i) = [user |-> r.user, pw |-> s, purpose |-> r.purpose,
                              enabled |-> r.enabled, banned |-> b, node |-> r.node]
    BY DEF StoredRow
  <2> HIDE DEF s, b, r, Row
  <2> QED BY ONLY <2>1, <2>2, <2>3
<1> HIDE DEF Row, Source
<1> QED BY <1>1, <1>2, <1>3

\* What holds of the document alone.
DocInStep ==
    /\ doc = [rev |-> doc.rev, rows |-> doc.rows] /\ doc.rev \in Nat /\ issued \in Nat
    /\ doc.rows = [i \in DOMAIN doc.rows |-> doc.rows[i]] /\ DOMAIN doc.rows \subseteq 1..issued
    /\ \A i \in DOMAIN doc.rows : IsAccount(doc.rows[i], Typed)
    /\ OnIsNotBanned /\ OneRowPerAccount

LEMMA CommitIs ==
  ASSUME NEW rows, Commit(rows)
  PROVE  doc'.rev = doc.rev + 1 /\ doc'.rows = rows
  BY DEF Commit

LEMMA StoredRowTyped ==
  ASSUME PoolInv, NEW rows, Submittable(rows), NEW i \in DOMAIN rows,
         StoredRow(rows, i).pw \notin {"", Stars}
  PROVE  IsAccount(StoredRow(rows, i), Typed) /\ (rows[i].enabled => ~StoredRow(rows, i).banned)
<1>1. IsAccount(rows[i], Typed \cup {Stars})
  BY DEF Submittable
<1>2. StoredRow(rows, i).pw = RestoredSecret(rows[i].pw, i)
      /\ StoredRow(rows, i).banned = BannedAfter(rows[i], i)
  BY DEF StoredRow
<1>3. RestoredSecret(rows[i].pw, i) \in Typed
  BY <1>1, <1>2 DEF RestoredSecret, PoolInv, PoolTyped, IsAccount
<1>4. BannedAfter(rows[i], i) \in BOOLEAN /\ (rows[i].enabled => ~BannedAfter(rows[i], i))
  BY DEF BannedAfter
<1> QED BY <1>1, <1>2, <1>3, <1>4 DEF StoredRow, IsAccount

LEMMA UpdateStores ==
  ASSUME PoolInv, NEW rev, NEW rows, Submittable(rows), Accepts(rev, rows), Update(rev, rows)
  PROVE  /\ DocInStep' /\ doc'.rev = doc.rev + 1
         /\ doc'.rows = Restored(rows)
<1>1. /\ Commit(Restored(rows)) /\ issued' = issued + Cardinality(DOMAIN rows \cap {0})
      /\ Valid(Restored(rows))
  BY DEF Update, Accepts
<1>2. doc'.rev = doc.rev + 1 /\ doc'.rows = Restored(rows) /\ doc' = [rev |-> doc'.rev, rows |-> doc'.rows]
  BY <1>1 DEF Commit
<1>3. PoolTyped
  BY DEF PoolInv
<1>4. /\ Restored(rows) = [j \in DOMAIN Restored(rows) |-> Restored(rows)[j]]
      /\ DOMAIN Restored(rows) = {IdOf(i) : i \in DOMAIN rows}
      /\ \A i \in DOMAIN rows : Restored(rows)[IdOf(i)] = StoredRow(rows, i)
  BY <1>3, RestoredIs
<1>5. issued' \in Nat /\ doc'.rev \in Nat /\ DOMAIN doc'.rows \subseteq 1..issued'
  <2>1. /\ 0 \in DOMAIN rows => Cardinality(DOMAIN rows \cap {0}) = 1
        /\ 0 \notin DOMAIN rows => Cardinality(DOMAIN rows \cap {0}) = 0
    <3>1. 0 \in DOMAIN rows => DOMAIN rows \cap {0} = {0}
      OBVIOUS
    <3>2. 0 \notin DOMAIN rows => DOMAIN rows \cap {0} = {}
      OBVIOUS
    <3> QED BY <3>1, <3>2, FS_EmptySet, FS_Singleton
  <2>2. issued \in Nat /\ doc.rev \in Nat /\ DOMAIN doc.rows \subseteq 1..issued
    BY <1>3 DEF PoolTyped
  <2>3. ASSUME NEW i \in DOMAIN rows PROVE IdOf(i) \in 1..issued'
    <3>1. i \in 0..issued
      BY <2>2 DEF Submittable
    <3>2. CASE i = 0
      <4>1. issued' = issued + 1
        BY <1>1, <2>1, <3>2
      <4> QED BY <2>2, <3>2, <4>1 DEF IdOf
    <3>3. CASE i # 0
      <4>1. issued' \in Nat /\ issued <= issued'
        BY <1>1, <2>1, <2>2
      <4> QED BY <2>2, <3>1, <3>3, <4>1 DEF IdOf
    <3> QED BY <3>2, <3>3
  <2>4. issued' \in Nat
    BY <1>1, <2>1, <2>2
  <2> QED BY <1>2, <1>4, <2>2, <2>3, <2>4
<1>6. ASSUME NEW j \in DOMAIN doc'.rows
      PROVE  IsAccount(doc'.rows[j], Typed) /\ (doc'.rows[j].enabled => ~doc'.rows[j].banned)
  <2>1. PICK i \in DOMAIN rows : j = IdOf(i)
    BY <1>2, <1>4
  <2>2. doc'.rows[j] = StoredRow(rows, i) /\ j \in DOMAIN Restored(rows)
    BY <1>2, <1>4, <2>1
  <2>3. StoredRow(rows, i).pw \notin {"", Stars}
    BY <1>1, <1>2, <2>2 DEF Valid
  <2>4. StoredRow(rows, i).enabled = rows[i].enabled
    BY DEF StoredRow
  <2> QED BY <2>2, <2>3, <2>4, StoredRowTyped
<1>7. OneRowPerAccount'
  BY <1>1, <1>2 DEF OneRowPerAccount, Valid
<1>8. OnIsNotBanned'
  BY <1>6 DEF OnIsNotBanned
<1>9. doc'.rows = [i \in DOMAIN doc'.rows |-> doc'.rows[i]]
  BY <1>2, <1>4
<1>10. DocInStep'
  BY <1>2, <1>5, <1>6, <1>7, <1>8, <1>9 DEF DocInStep
<1> QED BY <1>2, <1>10

(***************************************************************************)
(* Drafts and clones while somebody writes, or nobody                      *)
(***************************************************************************)

\* The document stands or is a revision on.
Moves == doc' = doc \/ doc'.rev = doc.rev + 1

LEMMA DraftWaits ==
  ASSUME PoolTyped, Moves, NEW e \in Editors, drafts[e] # Nothing => DraftInStep(drafts[e]),
         drafts'[e] = drafts[e]
  PROVE  drafts'[e] # Nothing => DraftInStep(drafts[e])'
<1> SUFFICES ASSUME drafts[e] # Nothing PROVE DraftInStep(drafts[e])'
  OBVIOUS
<1>1. DraftInStep(drafts[e]) /\ doc.rev \in Nat
  BY DEF PoolTyped
<1>2. CASE doc' = doc
  BY <1>1, <1>2 DEF DraftInStep, IsEdit, KeepsCollectors
<1>3. CASE doc'.rev = doc.rev + 1
  <2>1. drafts[e].rev \in Nat /\ drafts[e].rev <= doc.rev
    BY <1>1 DEF DraftInStep
  <2>2. drafts'[e].rev <= doc'.rev /\ drafts'[e].rev # doc'.rev
    BY <1>1, <1>3, <2>1
  <2> QED BY <1>1, <2>1, <2>2 DEF DraftInStep
<1> QED BY <1>2, <1>3 DEF Moves

LEMMA CloneWaits ==
  ASSUME PoolTyped, Moves, NEW w, clones[w] # Nothing => CloneInStep(clones[w]),
         clones'[w] = clones[w]
  PROVE  clones'[w] # Nothing => CloneInStep(clones[w])'
<1> SUFFICES ASSUME clones[w] # Nothing PROVE CloneInStep(clones[w])'
  OBVIOUS
<1>1. CloneInStep(clones[w]) /\ doc.rev \in Nat
  BY DEF PoolTyped
<1>2. CASE doc' = doc
  BY <1>1, <1>2 DEF CloneInStep
<1>3. CASE doc'.rev = doc.rev + 1
  <2>1. clones[w].rev \in Nat /\ clones[w].rev <= doc.rev
    BY <1>1 DEF CloneInStep
  <2>2. clones'[w].rev <= doc'.rev /\ clones'[w].rev # doc'.rev
    BY <1>1, <1>3, <2>1
  <2> QED BY <1>1, <2>1, <2>2 DEF CloneInStep
<1> QED BY <1>2, <1>3 DEF Moves

\* A step that takes one draft or clone away, or none, and may write.
LEMMA DocumentStep ==
  ASSUME PoolInv, Moves, DocInStep', refs' \subseteq Names,
         drafts' = [e \in Editors |-> drafts'[e]],
         clones' = [w \in {"spread", "balance"} |-> clones'[w]],
         \A e \in Editors : drafts'[e] = drafts[e] \/ (drafts'[e] # Nothing => DraftInStep(drafts[e])'),
         \A w \in {"spread", "balance"} :
            clones'[w] = clones[w] \/ (clones'[w] # Nothing => CloneInStep(clones[w])')
  PROVE  PoolInv'
<1>0. PoolTyped
  BY DEF PoolInv
<1>1. PoolTyped' /\ OnIsNotBanned' /\ OneRowPerAccount'
  BY DEF DocInStep, PoolTyped
<1>2. ASSUME NEW e \in Editors PROVE drafts'[e] # Nothing => DraftInStep(drafts[e])'
  BY <1>0, DraftWaits DEF PoolInv
<1>3. ASSUME NEW w \in {"spread", "balance"} PROVE clones'[w] # Nothing => CloneInStep(clones[w])'
  BY <1>0, CloneWaits DEF PoolInv
<1> QED BY <1>1, <1>2, <1>3 DEF PoolInv

LEMMA DocStands ==
  ASSUME PoolInv, UNCHANGED <<doc, issued>>
  PROVE  DocInStep' /\ Moves
<1>1. DocInStep
  BY DEF PoolInv, PoolTyped, DocInStep
<1> QED BY <1>1 DEF DocInStep, Moves, OnIsNotBanned, OneRowPerAccount

LEMMA RestStands ==
  ASSUME PoolInv
  PROVE  /\ UNCHANGED drafts => drafts' = [e \in Editors |-> drafts'[e]]
         /\ UNCHANGED clones => clones' = [w \in {"spread", "balance"} |-> clones'[w]]
         /\ UNCHANGED refs => refs' \subseteq Names
         /\ \A d : \A e \in Editors : drafts' = [drafts EXCEPT ![e] = d] =>
               /\ drafts' = [f \in Editors |-> drafts'[f]] /\ drafts'[e] = d
               /\ \A f \in Editors \ {e} : drafts'[f] = drafts[f]
         /\ \A c : \A w \in {"spread", "balance"} : clones' = [clones EXCEPT ![w] = c] =>
               /\ clones' = [v \in {"spread", "balance"} |-> clones'[v]] /\ clones'[w] = c
               /\ \A v \in {"spread", "balance"} \ {w} : clones'[v] = clones[v]
<1>1. /\ drafts = [e \in Editors |-> drafts[e]]
      /\ clones = [w \in {"spread", "balance"} |-> clones[w]] /\ refs \subseteq Names
  BY DEF PoolInv, PoolTyped
<1>2. ASSUME NEW e \in Editors, NEW d, drafts' = [drafts EXCEPT ![e] = d]
      PROVE  /\ drafts' = [f \in Editors |-> drafts'[f]] /\ drafts'[e] = d
             /\ \A f \in Editors \ {e} : drafts'[f] = drafts[f]
  <2>1. drafts' = [f \in Editors |-> IF f = e THEN d ELSE drafts[f]]
    BY <1>1, <1>2
  <2> QED BY <2>1
<1>3. ASSUME NEW w \in {"spread", "balance"}, NEW c, clones' = [clones EXCEPT ![w] = c]
      PROVE  /\ clones' = [v \in {"spread", "balance"} |-> clones'[v]] /\ clones'[w] = c
             /\ \A v \in {"spread", "balance"} \ {w} : clones'[v] = clones[v]
  <2>1. clones' = [v \in {"spread", "balance"} |-> IF v = w THEN c ELSE clones[v]]
    BY <1>1, <1>3
  <2> QED BY <2>1
<1> QED BY <1>1, <1>2, <1>3

(***************************************************************************)
(* The console                                                             *)
(***************************************************************************)

LEMMA PublishedRow ==
  ASSUME PoolInv, NEW i \in DOMAIN doc.rows
  PROVE  /\ IsAccount(Published(doc.rows)[i], Typed \cup {Stars})
         /\ Published(doc.rows)[i] = [doc.rows[i] EXCEPT !.pw = Stars]
<1>1. IsAccount(doc.rows[i], Typed)
  BY DEF PoolInv, PoolTyped
<1>2. Published(doc.rows)[i] = [doc.rows[i] EXCEPT !.pw = Stars]
  BY DEF Published
<1> QED BY <1>1, <1>2 DEF IsAccount

LEMMA EditedRowTyped ==
  ASSUME NEW row, IsAccount(row, Typed \cup {Stars}), NEW r \in EditedRows(row)
  PROVE  IsAccount(r, Typed \cup {Stars})
<1>1. CASE \E n \in NewNames : r = [row EXCEPT !.user = n]
  BY <1>1, PoolAssumption DEF IsAccount
<1>2. CASE r = [row EXCEPT !.pw = "new"]
  BY <1>2 DEF IsAccount, Typed
<1>3. CASE \E p \in Purposes : r = [row EXCEPT !.purpose = p]
  BY <1>3 DEF IsAccount
<1>4. CASE r = [row EXCEPT !.enabled = ~row.enabled]
  BY <1>4 DEF IsAccount
<1>5. CASE \E m \in Nodes \cup {Shared} : r = [row EXCEPT !.node = m]
  BY <1>5 DEF IsAccount
<1> QED BY <1>1, <1>2, <1>3, <1>4, <1>5 DEF EditedRows

LEMMA NewRowTyped ==
  ASSUME NEW r \in NewRows
  PROVE  IsAccount(r, Typed \cup {Stars})
<1>1. PICK n \in NewNames, p \in {"new", Stars} :
        r = [user |-> n, pw |-> p, purpose |-> "refetch", enabled |-> TRUE,
             banned |-> FALSE, node |-> Shared]
  BY DEF NewRows
<1>2. n \in Names /\ p \in Typed \cup {Stars}
  BY PoolAssumption DEF Typed
<1> QED BY <1>1, <1>2 DEF IsAccount, Purposes

LEMMA EditStep ==
  ASSUME PoolInv, NEW e \in Editors, Edit(e)
  PROVE  PoolInv'
<1>1. UNCHANGED <<doc, issued, clones, refs>>
  BY DEF Edit
<1> DEFINE seen == Published(doc.rows)
<1>2. DOMAIN seen = DOMAIN doc.rows /\ doc.rev \in Nat
      /\ \A j \in DOMAIN seen : IsAccount(seen[j], Typed \cup {Stars})
  BY PublishedRow DEF Published, PoolInv, PoolTyped
<1>3. \E i, rows :
        /\ drafts' = [drafts EXCEPT ![e] = [rev |-> doc.rev, rows |-> rows, row |-> i,
                                           stage |-> "edited", inUse |-> {}]]
        /\ \/ i \in DOMAIN seen /\ \E row \in EditedRows(seen[i]) : rows = With(seen, i, row)
           \/ i \in DOMAIN seen /\ rows = Without(seen, i)
           \/ i = 0 /\ \E row \in NewRows : rows = With(seen, 0, row)
  BY DEF Edit
<1>4. PICK i, rows :
        /\ drafts' = [drafts EXCEPT ![e] = [rev |-> doc.rev, rows |-> rows, row |-> i,
                                           stage |-> "edited", inUse |-> {}]]
        /\ \/ i \in DOMAIN seen /\ \E row \in EditedRows(seen[i]) : rows = With(seen, i, row)
           \/ i \in DOMAIN seen /\ rows = Without(seen, i)
           \/ i = 0 /\ \E row \in NewRows : rows = With(seen, 0, row)
  BY <1>3
<1>5. PICK d : d = [rev |-> doc.rev, rows |-> rows, row |-> i, stage |-> "edited", inUse |-> {}]
  OBVIOUS
<1>6. /\ drafts' = [f \in Editors |-> drafts'[f]] /\ drafts'[e] = d
      /\ \A f \in Editors \ {e} : drafts'[f] = drafts[f]
  BY <1>4, <1>5, RestStands
<1> HIDE DEF seen
<1>7. /\ \A j \in DOMAIN rows : IsAccount(rows[j], Typed \cup {Stars})
      /\ i \in DOMAIN seen \cup {0} /\ DOMAIN rows \subseteq DOMAIN seen \cup {i}
      /\ \A j \in DOMAIN seen \ {i} : j \in DOMAIN rows /\ rows[j] = seen[j]
      /\ i \in DOMAIN seen \cap DOMAIN rows => rows[i] \in EditedRows(seen[i])
  <2>1. CASE i \in DOMAIN seen /\ \E row \in EditedRows(seen[i]) : rows = With(seen, i, row)
    <3>1. PICK row \in EditedRows(seen[i]) : rows = With(seen, i, row)
      BY <2>1
    <3>2. IsAccount(row, Typed \cup {Stars})
      BY <1>2, <2>1, EditedRowTyped
    <3> QED BY <1>2, <2>1, <3>1, <3>2 DEF With
  <2>2. CASE i \in DOMAIN seen /\ rows = Without(seen, i)
    BY <1>2, <2>2 DEF Without
  <2>3. CASE i = 0 /\ \E row \in NewRows : rows = With(seen, 0, row)
    <3>1. PICK row \in NewRows : rows = With(seen, 0, row)
      BY <2>3
    <3>2. IsAccount(row, Typed \cup {Stars})
      BY NewRowTyped
    <3>3. 0 \notin DOMAIN seen
      BY <1>2 DEF PoolInv, PoolTyped
    <3> QED BY <1>2, <2>3, <3>1, <3>2, <3>3 DEF With
  <2> QED BY <1>4, <2>1, <2>2, <2>3
<1>8. IsEdit(rows, i)'
  BY <1>1, <1>7 DEF IsEdit, seen
<1>9. DraftInStep(drafts[e])'
  <2>1. /\ d.rev = doc.rev /\ d.rows = rows /\ d.row = i /\ d.stage = "edited"
        /\ d = [rev |-> d.rev, rows |-> d.rows, row |-> d.row, stage |-> d.stage, inUse |-> d.inUse]
    BY <1>5
  <2>2. doc' = doc /\ doc.rev <= doc.rev
    BY <1>1, <1>2
  <2>3. IsEdit(d.rows, d.row)'
    BY <1>8, <2>1
  <2> QED BY <1>2, <1>6, <1>7, <2>1, <2>2, <2>3 DEF DraftInStep
<1> QED BY <1>1, <1>6, <1>9, DocStands, RestStands, DocumentStep

LEMMA CheckStep ==
  ASSUME PoolInv, NEW e \in Editors, Check(e)
  PROVE  PoolInv'
<1>1. UNCHANGED <<doc, issued, clones, refs>> /\ drafts[e] # Nothing
  BY DEF Check
<1>2. DraftInStep(drafts[e])
  BY <1>1 DEF PoolInv
<1>3. PICK d : d = IF TakesFromCollector(drafts[e].rows) THEN Nothing
                   ELSE [drafts[e] EXCEPT !.stage = "checked", !.inUse = InUse]
  OBVIOUS
<1>4. drafts' = [drafts EXCEPT ![e] = d]
  BY <1>3 DEF Check, PoolInv, PoolTyped
<1>5. /\ drafts' = [f \in Editors |-> drafts'[f]] /\ drafts'[e] = d
      /\ \A f \in Editors \ {e} : drafts'[f] = drafts[f]
  BY <1>4, RestStands
<1>6. ASSUME d # Nothing PROVE DraftInStep(drafts[e])'
  <2>1. ~TakesFromCollector(drafts[e].rows)
    BY <1>3, <1>6
  <2>2. PICK b : b = drafts[e]
    OBVIOUS
  <2>3. PICK u : u = InUse
    OBVIOUS
  <2>4. b = [rev |-> b.rev, rows |-> b.rows, row |-> b.row, stage |-> b.stage, inUse |-> b.inUse]
        /\ d = [b EXCEPT !.stage = "checked", !.inUse = u]
    BY <1>2, <1>3, <2>1, <2>2, <2>3 DEF DraftInStep
  <2>5. d = [rev |-> b.rev, rows |-> b.rows, row |-> b.row, stage |-> "checked", inUse |-> u]
    BY ONLY <2>4
  <2>6. /\ d.rev = b.rev /\ d.rows = b.rows /\ d.row = b.row /\ d.stage = "checked" /\ d.inUse = u
        /\ d = [rev |-> d.rev, rows |-> d.rows, row |-> d.row, stage |-> d.stage, inUse |-> d.inUse]
    BY ONLY <2>5
  <2>7. KeepsCollectors(d.rows, u)
    <3>1. /\ ~\E i \in DOMAIN b.rows : /\ Fold[b.rows[i].user] \in u
                                       /\ ~b.rows[i].enabled \/ b.rows[i].purpose # "watch"
          /\ ~\E i \in DOMAIN doc.rows : /\ Fold[doc.rows[i].user] \in u
                                         /\ ~\E k \in DOMAIN b.rows : Same(b.rows[k].user, doc.rows[i].user)
      BY <2>1, <2>2, <2>3 DEF TakesFromCollector
    <3> QED BY <2>6, <3>1 DEF KeepsCollectors
  <2>8. /\ b.rev \in Nat /\ b.rev <= doc.rev
        /\ \A i \in DOMAIN b.rows : IsAccount(b.rows[i], Typed \cup {Stars})
        /\ b.rev = doc.rev => IsEdit(b.rows, b.row)
    BY <1>2, <2>2 DEF DraftInStep
  <2>9. /\ b.rev = doc.rev => IsEdit(d.rows, d.row)'
        /\ KeepsCollectors(d.rows, d.inUse)'
    BY <1>1, <2>6, <2>7, <2>8 DEF IsEdit, KeepsCollectors
  <2> QED BY <1>1, <1>5, <2>6, <2>8, <2>9 DEF DraftInStep
<1> QED BY <1>1, <1>5, <1>6, DocStands, RestStands, DocumentStep

LEMMA EditIsSubmittable ==
  ASSUME PoolInv, NEW e \in Editors, drafts[e] # Nothing, drafts[e].rev = doc.rev
  PROVE  Submittable(drafts[e].rows)
<1>1. DraftInStep(drafts[e])
  BY DEF PoolInv
<1>2. IsEdit(drafts[e].rows, drafts[e].row)
  BY <1>1 DEF DraftInStep
<1>3. DOMAIN Published(doc.rows) = DOMAIN doc.rows
  BY DEF Published
<1>4. DOMAIN drafts[e].rows \subseteq DOMAIN doc.rows \cup {0}
  BY <1>2, <1>3 DEF IsEdit
<1> QED BY <1>1, <1>4 DEF Submittable, DraftInStep

LEMMA CloneIsSubmittable ==
  ASSUME PoolInv, NEW w \in {"spread", "balance"}, clones[w] # Nothing, clones[w].rev = doc.rev
  PROVE  Submittable(clones[w].rows)
<1>1. CloneInStep(clones[w])
  BY DEF PoolInv
<1>2. /\ DOMAIN clones[w].rows = DOMAIN doc.rows
      /\ \A i \in DOMAIN doc.rows :
            clones[w].rows[i] = [doc.rows[i] EXCEPT !.node = clones[w].rows[i].node]
  BY <1>1 DEF CloneInStep
<1>3. ASSUME NEW i \in DOMAIN doc.rows PROVE IsAccount(clones[w].rows[i], Typed \cup {Stars})
  <2>1. IsAccount(doc.rows[i], Typed)
    BY DEF PoolInv, PoolTyped
  <2> QED BY <1>2, <2>1 DEF IsAccount
<1> QED BY <1>2, <1>3 DEF Submittable

\* A refused submission and one that is stored both keep the document whole.
LEMMA UpdateKeeps ==
  ASSUME PoolInv, NEW rev, NEW rows, rev = doc.rev => Submittable(rows), Update(rev, rows)
  PROVE  DocInStep' /\ Moves
<1>1. CASE Accepts(rev, rows)
  <2>1. Submittable(rows)
    BY <1>1 DEF Accepts
  <2> QED BY <1>1, <2>1, UpdateStores DEF Moves
<1>2. CASE ~Accepts(rev, rows)
  BY <1>2, DocStands DEF Update
<1> QED BY <1>1, <1>2

LEMMA PutStep ==
  ASSUME PoolInv, NEW e \in Editors, Put(e)
  PROVE  PoolInv'
<1>1. /\ UNCHANGED <<clones, refs>> /\ drafts[e] # Nothing
      /\ Update(drafts[e].rev, drafts[e].rows)
      /\ drafts' = [drafts EXCEPT ![e] = Nothing]
  BY DEF Put
<1>2. DocInStep' /\ Moves
  BY <1>1, EditIsSubmittable, UpdateKeeps
<1>3. /\ drafts' = [f \in Editors |-> drafts'[f]] /\ drafts'[e] = Nothing
      /\ \A f \in Editors \ {e} : drafts'[f] = drafts[f]
  BY <1>1, RestStands
<1> QED BY <1>1, <1>2, <1>3, RestStands, DocumentStep

(***************************************************************************)
(* The other writers                                                       *)
(***************************************************************************)

\* A write that lets every account be who it is and keeps every ban, and
\* leaves the collectors' accounts switched as they are.
Gentle ==
    \A i \in DOMAIN doc.rows :
        /\ i \in DOMAIN doc'.rows
        /\ doc'.rows[i].user = doc.rows[i].user /\ doc'.rows[i].purpose = doc.rows[i].purpose
        /\ doc.rows[i].banned => doc'.rows[i].banned
        /\ doc.rows[i].purpose = "watch" => doc'.rows[i].enabled = doc.rows[i].enabled

LEMMA SubmitStep ==
  ASSUME PoolInv, NEW w \in {"spread", "balance"}, SubmitClone(w)
  PROVE  PoolInv' /\ (doc' = doc \/ Gentle)
<1>1. /\ UNCHANGED <<drafts, refs>> /\ clones[w] # Nothing
      /\ Update(clones[w].rev, clones[w].rows)
      /\ clones' = [clones EXCEPT ![w] = Nothing]
  BY DEF SubmitClone
<1>2. DocInStep' /\ Moves
  BY <1>1, CloneIsSubmittable, UpdateKeeps
<1>3. /\ clones' = [v \in {"spread", "balance"} |-> clones'[v]] /\ clones'[w] = Nothing
      /\ \A v \in {"spread", "balance"} \ {w} : clones'[v] = clones[v]
  BY <1>1, RestStands
<1>4. PoolInv'
  BY <1>1, <1>2, <1>3, RestStands, DocumentStep
<1>5. ASSUME Accepts(clones[w].rev, clones[w].rows) PROVE Gentle
  <2>1. clones[w].rev = doc.rev /\ CloneInStep(clones[w])
    BY <1>1, <1>5 DEF Accepts, PoolInv
  <2>2. PICK rows : rows = clones[w].rows
    OBVIOUS
  <2>3. Submittable(rows) /\ doc'.rows = Restored(rows)
    BY <1>1, <1>5, <2>1, <2>2, CloneIsSubmittable, UpdateStores
  <2>4. /\ DOMAIN Restored(rows) = {IdOf(i) : i \in DOMAIN rows}
        /\ \A i \in DOMAIN rows : Restored(rows)[IdOf(i)] = StoredRow(rows, i)
    BY <2>3, RestoredIs DEF PoolInv
  <2>5. DOMAIN rows = DOMAIN doc.rows
        /\ \A i \in DOMAIN doc.rows : rows[i] = [doc.rows[i] EXCEPT !.node = rows[i].node]
    BY <2>1, <2>2 DEF CloneInStep
  <2>6. ASSUME NEW i \in DOMAIN doc.rows
        PROVE  /\ i \in DOMAIN doc'.rows
               /\ doc'.rows[i].user = doc.rows[i].user /\ doc'.rows[i].purpose = doc.rows[i].purpose
               /\ doc.rows[i].banned => doc'.rows[i].banned
               /\ doc.rows[i].purpose = "watch" => doc'.rows[i].enabled = doc.rows[i].enabled
    <3>1. i # 0 /\ IdOf(i) = i /\ IsAccount(doc.rows[i], Typed)
      BY DEF IdOf, PoolInv, PoolTyped
    <3>2. i \in DOMAIN doc'.rows /\ doc'.rows[i] = StoredRow(rows, i)
      BY <2>3, <2>4, <2>5, <3>1
    <3>3. rows[i].user = doc.rows[i].user /\ rows[i].purpose = doc.rows[i].purpose
          /\ rows[i].enabled = doc.rows[i].enabled
      BY <2>5, <3>1 DEF IsAccount
    <3>4. doc.rows[i].banned => ~doc.rows[i].enabled
      BY DEF PoolInv, OnIsNotBanned
    <3>5. /\ StoredRow(rows, i).user = rows[i].user /\ StoredRow(rows, i).purpose = rows[i].purpose
          /\ StoredRow(rows, i).enabled = rows[i].enabled
          /\ StoredRow(rows, i).banned = BannedAfter(rows[i], i)
      BY DEF StoredRow
    <3>6. doc.rows[i].banned => BannedAfter(rows[i], i)
      BY <3>3, <3>4 DEF BannedAfter
    <3> QED BY <3>2, <3>3, <3>5, <3>6
  <2> QED BY <2>6 DEF Gentle
<1>6. doc' = doc \/ Gentle
  BY <1>1, <1>5 DEF Update
<1> QED BY <1>4, <1>6

\* Re-pointing a clone changes its nodes and nothing else.
LEMMA CloneStep ==
  ASSUME PoolInv, NEW w \in {"spread", "balance"}, NEW rows, Clone(w, rows),
         UNCHANGED <<doc, issued, drafts, refs>>, DOMAIN rows = DOMAIN doc.rows,
         \A i \in DOMAIN doc.rows : rows[i] = [doc.rows[i] EXCEPT !.node = rows[i].node]
  PROVE  PoolInv'
<1>1. PICK c : c = [rev |-> doc.rev, rows |-> rows]
  OBVIOUS
<1>2. /\ clones' = [v \in {"spread", "balance"} |-> clones'[v]] /\ clones'[w] = c
      /\ \A v \in {"spread", "balance"} \ {w} : clones'[v] = clones[v]
  BY <1>1, RestStands DEF Clone
<1>3. c.rev = doc.rev /\ c.rows = rows /\ doc.rev \in Nat /\ doc.rev <= doc.rev
  BY <1>1 DEF PoolInv, PoolTyped
<1>4. CloneInStep(clones[w])'
  BY <1>2, <1>3 DEF CloneInStep
<1> QED BY <1>2, <1>4, DocStands, RestStands, DocumentStep

LEMMA SpreadCloneStep ==
  ASSUME PoolInv, SpreadClone
  PROVE  PoolInv'
<1>1. PICK usable : Clone("spread", Spread(usable))
  BY DEF SpreadClone
<1>2. UNCHANGED <<doc, issued, drafts, refs>>
  BY DEF SpreadClone
<1>3. PICK rows : rows = Spread(usable)
  OBVIOUS
<1>4. DOMAIN rows = DOMAIN doc.rows
  BY <1>3 DEF Spread
<1>5. ASSUME NEW i \in DOMAIN doc.rows PROVE rows[i] = [doc.rows[i] EXCEPT !.node = rows[i].node]
  <2>1. IsAccount(doc.rows[i], Typed)
    BY DEF PoolInv, PoolTyped
  <2>2. \E m : rows[i] = [doc.rows[i] EXCEPT !.node = m] \/ rows[i] = doc.rows[i]
    BY <1>3 DEF Spread
  <2> QED BY <2>1, <2>2 DEF IsAccount
<1> QED BY <1>1, <1>2, <1>3, <1>4, <1>5, CloneStep

LEMMA RebindCloneStep ==
  ASSUME PoolInv, RebindClone
  PROVE  PoolInv'
<1>1. UNCHANGED <<doc, issued, drafts, refs>> /\ Clone("balance", Rebound(doc.rows, round.moves))
  BY DEF RebindClone
<1>2. PICK rows : rows = Rebound(doc.rows, round.moves)
  OBVIOUS
<1>3. DOMAIN rows = DOMAIN doc.rows
  BY <1>2 DEF Rebound
<1>4. ASSUME NEW i \in DOMAIN doc.rows PROVE rows[i] = [doc.rows[i] EXCEPT !.node = rows[i].node]
  <2>1. IsAccount(doc.rows[i], Typed)
    BY DEF PoolInv, PoolTyped
  <2>2. \E m : rows[i] = [doc.rows[i] EXCEPT !.node = m] \/ rows[i] = doc.rows[i]
    BY <1>2 DEF Rebound
  <2> QED BY <2>1, <2>2 DEF IsAccount
<1> QED BY <1>1, <1>2, <1>3, <1>4, CloneStep

LEMMA RepointStep ==
  ASSUME PoolInv, Repoint
  PROVE  PoolInv'
<1>1. UNCHANGED <<doc, issued, drafts, clones>>
  BY DEF Repoint
<1>2. refs' \subseteq Names
  <2>1. PICK i \in DOMAIN doc.rows : refs' = (refs \ {doc.rows[i].user}) \cup ({doc.rows[i].user} \ refs)
    BY DEF Repoint
  <2>2. doc.rows[i].user \in Names /\ refs \subseteq Names
    BY DEF PoolInv, PoolTyped, IsAccount
  <2> QED BY <2>1, <2>2
<1> QED BY <1>1, <1>2, DocStands, RestStands, DocumentStep

\* A write of the whole document under the lock.
LEMMA CommitKeeps ==
  ASSUME PoolInv, NEW rows, Commit(rows), issued' \in Nat,
         rows = [i \in DOMAIN rows |-> rows[i]], DOMAIN rows \subseteq 1..issued',
         \A i \in DOMAIN rows : /\ IsAccount(rows[i], Typed)
                                /\ rows[i].enabled => ~rows[i].banned,
         \A i, j \in DOMAIN rows : i # j => ~Same(rows[i].user, rows[j].user)
  PROVE  DocInStep' /\ Moves
<1>1. doc'.rev = doc.rev + 1 /\ doc'.rows = rows /\ doc' = [rev |-> doc'.rev, rows |-> doc'.rows]
  BY DEF Commit
<1>2. doc'.rev \in Nat
  BY <1>1 DEF PoolInv, PoolTyped
<1> QED BY <1>1, <1>2 DEF DocInStep, Moves, OnIsNotBanned, OneRowPerAccount

LEMMA AppendStep ==
  ASSUME PoolInv, NEW n \in NewNames, AppendAccount(n)
  PROVE  PoolInv' /\ (doc' = doc \/ Gentle)
<1>1. UNCHANGED <<drafts, clones, refs>>
  BY DEF AppendAccount
<1>2. CASE \E i \in DOMAIN doc.rows : Same(doc.rows[i].user, n)
  <2>1. UNCHANGED <<doc, issued>>
    BY <1>2 DEF AppendAccount
  <2> QED BY <1>1, <2>1, DocStands, RestStands, DocumentStep
<1>3. CASE ~\E i \in DOMAIN doc.rows : Same(doc.rows[i].user, n)
  <2>1. PICK a : a = [user |-> n, pw |-> "new", purpose |-> "refetch",
                      enabled |-> TRUE, banned |-> FALSE, node |-> Shared]
    OBVIOUS
  <2>2. PICK rows : rows = With(doc.rows, issued + 1, a)
    OBVIOUS
  <2>3. Commit(rows) /\ issued' = issued + 1
    BY <1>3, <2>1, <2>2 DEF AppendAccount
  <2>4. issued \in Nat /\ DOMAIN doc.rows \subseteq 1..issued
    BY DEF PoolInv, PoolTyped
  <2>5. /\ rows = [i \in DOMAIN rows |-> rows[i]] /\ DOMAIN rows = DOMAIN doc.rows \cup {issued + 1}
        /\ rows[issued + 1] = a /\ \A i \in DOMAIN doc.rows : rows[i] = doc.rows[i]
    <3>1. issued + 1 \notin DOMAIN doc.rows
      BY <2>4
    <3> QED BY <2>2, <3>1 DEF With
  <2>6. IsAccount(a, Typed) /\ ~a.banned /\ a.user = n
    <3>1. n \in Names
      BY PoolAssumption
    <3> QED BY <2>1, <3>1 DEF IsAccount, Typed, Purposes
  <2>7. issued' \in Nat /\ DOMAIN rows \subseteq 1..issued'
    BY <2>3, <2>4, <2>5
  <2>8. \A i \in DOMAIN rows : IsAccount(rows[i], Typed) /\ (rows[i].enabled => ~rows[i].banned)
    BY <2>5, <2>6 DEF PoolInv, PoolTyped, OnIsNotBanned
  <2>9. \A i, j \in DOMAIN rows : i # j => ~Same(rows[i].user, rows[j].user)
    BY <1>3, <2>5, <2>6 DEF PoolInv, OneRowPerAccount, Same
  <2>10. DocInStep' /\ Moves
    BY <2>3, <2>5, <2>7, <2>8, <2>9, CommitKeeps
  <2>11. Gentle
    BY <2>3, <2>5, CommitIs DEF Gentle
  <2> QED BY <1>1, <2>10, <2>11, RestStands, DocumentStep
<1> QED BY <1>2, <1>3

LEMMA RetireStep ==
  ASSUME PoolInv, NEW n, Retire(n), UNCHANGED <<issued, drafts, clones, refs>>
  PROVE  PoolInv' /\ (doc' = doc \/ Gentle)
<1>1. CASE UNCHANGED doc
  BY <1>1, DocStands, RestStands, DocumentStep
<1>2. CASE Commit(RetiredRows(n))
  <2>1. PICK rows : rows = RetiredRows(n)
    OBVIOUS
  <2>2. rows = [i \in DOMAIN rows |-> rows[i]] /\ DOMAIN rows = DOMAIN doc.rows
    BY <2>1 DEF RetiredRows
  <2>3. ASSUME NEW i \in DOMAIN doc.rows
        PROVE  /\ IsAccount(rows[i], Typed) /\ (rows[i].enabled => ~rows[i].banned)
               /\ rows[i].user = doc.rows[i].user /\ rows[i].purpose = doc.rows[i].purpose
               /\ doc.rows[i].banned => rows[i].banned
               /\ doc.rows[i].purpose = "watch" => rows[i].enabled = doc.rows[i].enabled
    <3>1. IsAccount(doc.rows[i], Typed) /\ (doc.rows[i].enabled => ~doc.rows[i].banned)
      BY DEF PoolInv, PoolTyped, OnIsNotBanned
    <3>2. CASE rows[i] = doc.rows[i]
      BY <3>1, <3>2
    <3>3. CASE /\ rows[i] = [doc.rows[i] EXCEPT !.enabled = FALSE, !.banned = TRUE]
               /\ doc.rows[i].purpose = "refetch"
      <4>1. PICK r : r = doc.rows[i]
        OBVIOUS
      <4>2. r = [user |-> r.user, pw |-> r.pw, purpose |-> r.purpose, enabled |-> r.enabled,
                 banned |-> r.banned, node |-> r.node]
            /\ rows[i] = [r EXCEPT !.enabled = FALSE, !.banned = TRUE]
        BY <3>1, <3>3, <4>1 DEF IsAccount
      <4>3. rows[i] = [user |-> r.user, pw |-> r.pw, purpose |-> r.purpose, enabled |-> FALSE,
                       banned |-> TRUE, node |-> r.node]
        BY ONLY <4>2
      <4> QED BY <3>1, <3>3, <4>1, <4>3 DEF IsAccount
    <3> QED BY <2>1, <3>2, <3>3 DEF RetiredRows
  <2>4. DOMAIN doc.rows \subseteq 1..issued' /\ issued' \in Nat
    BY DEF PoolInv, PoolTyped
  <2>5. \A i, j \in DOMAIN rows : i # j => ~Same(rows[i].user, rows[j].user)
    BY <2>2, <2>3 DEF PoolInv, OneRowPerAccount
  <2>6. DocInStep' /\ Moves
    BY <1>2, <2>1, <2>2, <2>3, <2>4, <2>5, CommitKeeps
  <2>7. Gentle
    BY <1>2, <2>1, <2>2, <2>3, CommitIs DEF Gentle
  <2> QED BY <2>6, <2>7, RestStands, DocumentStep
<1> QED BY <1>1, <1>2 DEF Retire

(***************************************************************************)
(* Every step                                                              *)
(***************************************************************************)

LEMMA PoolInvInit ==
  ASSUME BalancerInit
  PROVE  PoolInv
<1>1. /\ doc = [rev |-> 0, rows |-> FirstRows] 
      /\ drafts = [e \in Editors |-> Nothing]
      /\ clones = [w \in {"spread", "balance"} |-> Nothing] /\ refs = {}
  BY DEF BalancerInit, PoolInit
<1>2. doc.rev = 0 /\ doc.rows = FirstRows
  BY <1>1
<1>3. issued \in Nat /\ \A i \in DOMAIN FirstRows : i <= issued
  BY PoolAssumption DEF BalancerInit, PoolInit
<1>4. DOMAIN FirstRows \subseteq 1..issued
  <2> SUFFICES ASSUME NEW i \in DOMAIN FirstRows PROVE i \in 1..issued
    OBVIOUS
  <2>1. i \in Nat /\ 1 <= i /\ i <= issued
    BY <1>3, PoolAssumption
  <2> QED BY <1>3, <2>1
<1>5. ASSUME NEW i \in DOMAIN FirstRows PROVE IsAccount(FirstRows[i], Typed)
  <2>1. FirstRows[i] \in StoredAccount(Typed)
    BY StoredAssumption
  <2> QED BY <2>1 DEF StoredAccount, IsAccount
<1>6. FirstRows = [i \in DOMAIN FirstRows |-> FirstRows[i]]
  BY StoredAssumption
<1>7. PoolTyped
  BY <1>1, <1>2, <1>3, <1>4, <1>5, <1>6 DEF PoolTyped
<1>8. OnIsNotBanned /\ OneRowPerAccount
  BY <1>2, StoredAssumption DEF OnIsNotBanned, OneRowPerAccount
<1> QED BY <1>1, <1>7, <1>8 DEF PoolInv

\* Whoever writes, the document is whole, and only a save of the console can
\* be anything but gentle.
LEMMA EveryWrite ==
  ASSUME PoolInv, [BalancerNext]_allVars
  PROVE  PoolInv' /\ (doc' = doc \/ Gentle \/ \E e \in Editors : Put(e))
<1>1. CASE UNCHANGED poolVars
  BY <1>1, DocStands, RestStands, DocumentStep DEF poolVars
<1>2. CASE \E e \in Editors : Edit(e) \/ Check(e) \/ Put(e)
  <2>1. PICK e \in Editors : Edit(e) \/ Check(e) \/ Put(e)
    BY <1>2
  <2>2. CASE Put(e)
    BY <2>2, PutStep
  <2>3. CASE Edit(e) \/ Check(e)
    BY <2>3, EditStep, CheckStep DEF Edit, Check
  <2> QED BY <2>1, <2>2, <2>3
<1>3. CASE Repoint
  BY <1>3, RepointStep DEF Repoint
<1>4. CASE \E n \in NewNames : AppendAccount(n)
  BY <1>4, AppendStep
<1>5. CASE SpreadClone
  BY <1>5, SpreadCloneStep DEF SpreadClone
<1>6. CASE SubmitClone("spread") \/ RebindSubmit
  BY <1>6, SubmitStep DEF RebindSubmit
<1>7. CASE RebindClone
  BY <1>7, RebindCloneStep DEF RebindClone
<1>8. CASE \E n \in workers : LoginBanned(n)
  BY <1>8, RetireStep DEF LoginBanned
<1>9. CASE Weigh \/ Start \/ Stop \/ WalkDone
           \/ \E n \in workers : Login(n) \/ SessionEnds(n) \/ RecordNode(n)
  <2>1. UNCHANGED poolVars
    BY <1>9 DEF Weigh, Start, Stop, WalkDone, Login, SessionEnds, RecordNode
  <2> QED BY <1>1, <2>1
<1>10. CASE UNCHANGED allVars
  BY <1>1, <1>10 DEF allVars
<1> QED BY <1>2, <1>3, <1>4, <1>5, <1>6, <1>7, <1>8, <1>9, <1>10 DEF BalancerNext, PoolNext

LEMMA PoolInvAlways ==
  BalancerSpec => []PoolInv
  BY PoolInvInit, EveryWrite, PTL DEF BalancerSpec

\* The rows a save stores, by id.
LEMMA SavedRows ==
  ASSUME PoolInv, NEW e \in Editors, Put(e), doc' # doc
  PROVE  /\ Submittable(drafts[e].rows) /\ drafts[e].rev = doc.rev /\ DraftInStep(drafts[e])
         /\ drafts[e].stage = "checked"
         /\ DOMAIN doc'.rows = {IdOf(i) : i \in DOMAIN drafts[e].rows}
         /\ \A i \in DOMAIN drafts[e].rows : doc'.rows[IdOf(i)] = StoredRow(drafts[e].rows, i)
         /\ DocInStep'
<1>1. /\ drafts[e] # Nothing /\ drafts[e].stage = "checked"
      /\ Update(drafts[e].rev, drafts[e].rows)
  BY DEF Put
<1>2. Accepts(drafts[e].rev, drafts[e].rows)
  BY <1>1 DEF Update
<1>3. drafts[e].rev = doc.rev /\ DraftInStep(drafts[e])
  BY <1>1, <1>2 DEF Accepts, PoolInv
<1>4. Submittable(drafts[e].rows)
  BY <1>1, <1>3, EditIsSubmittable
<1>5. doc'.rows = Restored(drafts[e].rows) /\ DocInStep'
  BY <1>1, <1>2, <1>4, UpdateStores
<1>6. PoolTyped
  BY DEF PoolInv
<1> QED BY <1>1, <1>3, <1>4, <1>5, <1>6, RestoredIs

\* A row of the document keeps its id.
LEMMA SavedUnderItsId ==
  ASSUME PoolInv, NEW e \in Editors, Put(e), doc' # doc, NEW i \in DOMAIN doc.rows
  PROVE  /\ i \in DOMAIN doc'.rows <=> i \in DOMAIN drafts[e].rows
         /\ i \in DOMAIN doc'.rows => doc'.rows[i] = StoredRow(drafts[e].rows, i)
<1>1. i \in 1..issued /\ issued \in Nat /\ IdOf(i) = i
  BY DEF PoolInv, PoolTyped, IdOf
<1>2. \A k \in DOMAIN drafts[e].rows : IdOf(k) = i => k = i
  <2> SUFFICES ASSUME NEW k \in DOMAIN drafts[e].rows, IdOf(k) = i PROVE k = i
    OBVIOUS
  <2>1. k # 0
    BY <1>1 DEF IdOf
  <2> QED BY <2>1 DEF IdOf
<1> QED BY <1>1, <1>2, SavedRows

\* What is on record stays on record, and an account that is on has none.
LEMMA BansStep ==
  ASSUME PoolInv, [BalancerNext]_allVars, NEW i \in DOMAIN doc.rows \cap DOMAIN doc'.rows
  PROVE  /\ doc.rows[i].banned /\ ~doc'.rows[i].enabled => doc'.rows[i].banned
         /\ doc'.rows[i].enabled => doc'.rows[i].user \in Exported(doc'.rows)
                                    \/ doc'.rows[i].purpose = "watch"
<1>1. PoolInv' /\ (doc' = doc \/ Gentle \/ \E e \in Editors : Put(e))
  BY EveryWrite
<1>2. doc.rows[i].banned /\ ~doc'.rows[i].enabled => doc'.rows[i].banned
  <2>1. CASE doc' = doc
    BY <2>1
  <2>2. CASE Gentle
    BY <2>2 DEF Gentle
  <2>3. CASE doc' # doc /\ \E e \in Editors : Put(e)
    <3>1. PICK e \in Editors : Put(e)
      BY <2>3
    <3>2. PICK rows : rows = drafts[e].rows
      OBVIOUS
    <3>3. doc'.rows[i] = StoredRow(rows, i)
      BY <2>3, <3>1, <3>2, SavedUnderItsId
    <3>4. StoredRow(rows, i).enabled = rows[i].enabled
          /\ StoredRow(rows, i).banned = BannedAfter(rows[i], i)
      BY DEF StoredRow
    <3> QED BY <3>3, <3>4 DEF BannedAfter
  <2> QED BY <1>1, <2>1, <2>2, <2>3
<1>3. ASSUME doc'.rows[i].enabled, doc'.rows[i].purpose # "watch"
      PROVE  doc'.rows[i].user \in Exported(doc'.rows)
  <2>1. IsAccount(doc'.rows[i], Typed) /\ ~doc'.rows[i].banned
    BY <1>1, <1>3 DEF PoolInv, PoolTyped, OnIsNotBanned
  <2>2. doc'.rows[i].purpose = "refetch"
    BY <1>3, <2>1 DEF IsAccount, Purposes
  <2> QED BY <2>1, <2>2 DEF Exported
<1> QED BY <1>2, <1>3

\* No form, clone, spread or registration of however many editors erases what
\* Mahjong Soul answered: a ban outlives every write of the account document
\* but a deletion or a switch on, and export_refetch drops no account that is
\* on (AccountPool::update, retire_banned).
THEOREM BansAreKept ==
  BalancerSpec => BansOutliveSaves
<1>1. ASSUME PoolInv, [BalancerNext]_allVars
      PROVE  [\A i \in DOMAIN doc.rows \cap DOMAIN doc'.rows :
                /\ doc.rows[i].banned /\ ~doc'.rows[i].enabled => doc'.rows[i].banned
                /\ doc'.rows[i].enabled => doc'.rows[i].user \in Exported(doc'.rows)
                                           \/ doc'.rows[i].purpose = "watch"]_allVars
  BY <1>1, BansStep
<1> QED BY <1>1, PoolInvAlways, PTL DEF BalancerSpec, BansOutliveSaves

\* validate and append keep two rows of the document from being one account in
\* two spellings, whoever writes between whose reading and whose saving.
THEOREM AccountsStayApart ==
  BalancerSpec => []OneRowPerAccount
<1>1. PoolInv => OneRowPerAccount
  BY DEF PoolInv
<1> QED BY <1>1, PoolInvAlways, PTL

(***************************************************************************)
(* A save is its edit and no more                                          *)
(***************************************************************************)

\* Only put_accounts' second half takes a checked draft away and writes.
LEMMA OnlyPutSaves ==
  ASSUME PoolInv, [BalancerNext]_allVars, NEW e \in Editors, Saves(e)
  PROVE  Put(e)
<1>1. drafts'[e] # drafts[e] /\ drafts[e].stage = "checked" /\ doc' # doc
  BY DEF Saves
<1>2. \E f \in Editors : Put(f)
  <2>1. drafts' # drafts
    BY <1>1
  <2> QED
    BY <1>1, <2>1 DEF BalancerNext, PoolNext, Edit, Check, Repoint, AppendAccount, SpreadClone, SubmitClone,
       Weigh, RebindClone, RebindSubmit, Login, LoginBanned, SessionEnds, RecordNode, Start, Stop,
       WalkDone, allVars, poolVars
<1>3. PICK f \in Editors : Put(f)
  BY <1>2
<1>4. drafts' = [drafts EXCEPT ![f] = Nothing]
  BY <1>3 DEF Put
<1>5. f # e => drafts'[e] = drafts[e]
  BY <1>4, RestStands
<1> QED BY <1>1, <1>3, <1>5

\* What was not edited is restored to what was stored.
LEMMA RestoredAsItWas ==
  ASSUME PoolInv, NEW rows, NEW i \in DOMAIN doc.rows, rows[i] = Published(doc.rows)[i]
  PROVE  StoredRow(rows, i) = doc.rows[i]
<1>1. PICK r : r = doc.rows[i]
  OBVIOUS
<1>2. /\ r = [user |-> r.user, pw |-> r.pw, purpose |-> r.purpose, enabled |-> r.enabled,
              banned |-> r.banned, node |-> r.node]
      /\ r.enabled \in BOOLEAN /\ r.banned \in BOOLEAN /\ (r.enabled => ~r.banned)
  BY <1>1 DEF PoolInv, PoolTyped, IsAccount, OnIsNotBanned
<1>3. rows[i] = [r EXCEPT !.pw = Stars]
  BY <1>1, PublishedRow
<1>4. /\ rows[i].user = r.user /\ rows[i].pw = Stars /\ rows[i].purpose = r.purpose
      /\ rows[i].enabled = r.enabled /\ rows[i].banned = r.banned /\ rows[i].node = r.node
  BY <1>2, <1>3
<1>5. RestoredSecret(rows[i].pw, i) = r.pw
  BY <1>1, <1>4 DEF RestoredSecret
<1>6. BannedAfter(rows[i], i) = r.banned
  BY <1>1, <1>2, <1>4 DEF BannedAfter
<1>7. StoredRow(rows, i) = [user |-> r.user, pw |-> r.pw, purpose |-> r.purpose,
                            enabled |-> r.enabled, banned |-> r.banned, node |-> r.node]
  BY <1>4, <1>5, <1>6 DEF StoredRow
<1> QED BY <1>1, <1>2, <1>7

\* An edit of one field is stored as a change of that field.
LEMMA OneFieldChanges ==
  ASSUME PoolInv, NEW rows, NEW i \in DOMAIN doc.rows, rows[i] \in EditedRows(Published(doc.rows)[i])
  PROVE  \E g \in Fields : \A f \in Fields \ {g} : StoredRow(rows, i)[f] = doc.rows[i][f]
<1>1. PICK r : r = doc.rows[i]
  OBVIOUS
<1>2. PICK s : s = [r EXCEPT !.pw = Stars]
  OBVIOUS
<1>3. r = [user |-> r.user, pw |-> r.pw, purpose |-> r.purpose, enabled |-> r.enabled,
           banned |-> r.banned, node |-> r.node]
  BY <1>1 DEF PoolInv, PoolTyped, IsAccount
<1>4. s = [user |-> r.user, pw |-> Stars, purpose |-> r.purpose, enabled |-> r.enabled,
           banned |-> r.banned, node |-> r.node]
  BY ONLY <1>2, <1>3
<1>5. rows[i] \in EditedRows(s)
  BY <1>1, <1>2, PublishedRow
<1>6. rows[i].pw = Stars => RestoredSecret(rows[i].pw, i) = r.pw
  BY <1>1 DEF RestoredSecret
<1> DEFINE t == StoredRow(rows, i)
           Kept(f) == t[f] = r[f]
<1>7. /\ t.user = rows[i].user /\ t.pw = RestoredSecret(rows[i].pw, i)
      /\ t.purpose = rows[i].purpose /\ t.enabled = rows[i].enabled /\ t.node = rows[i].node
  BY DEF StoredRow
<1> HIDE DEF t
<1>8. CASE \E n \in NewNames : rows[i] = [s EXCEPT !.user = n]
  <2>1. Kept("pw") /\ Kept("purpose") /\ Kept("enabled") /\ Kept("node")
    BY <1>4, <1>6, <1>7, <1>8
  <2> QED BY <1>1, <2>1 DEF Fields, t
<1>9. CASE rows[i] = [s EXCEPT !.pw = "new"]
  <2>1. Kept("user") /\ Kept("purpose") /\ Kept("enabled") /\ Kept("node")
    BY <1>4, <1>7, <1>9
  <2> QED BY <1>1, <2>1 DEF Fields, t
<1>10. CASE \E p \in Purposes : rows[i] = [s EXCEPT !.purpose = p]
  <2>1. Kept("pw") /\ Kept("user") /\ Kept("enabled") /\ Kept("node")
    BY <1>4, <1>6, <1>7, <1>10
  <2> QED BY <1>1, <2>1 DEF Fields, t
<1>11. CASE rows[i] = [s EXCEPT !.enabled = ~s.enabled]
  <2>1. Kept("pw") /\ Kept("user") /\ Kept("purpose") /\ Kept("node")
    BY <1>4, <1>6, <1>7, <1>11
  <2> QED BY <1>1, <2>1 DEF Fields, t
<1>12. CASE \E m \in Nodes \cup {Shared} : rows[i] = [s EXCEPT !.node = m]
  <2>1. Kept("pw") /\ Kept("user") /\ Kept("purpose") /\ Kept("enabled")
    BY <1>4, <1>6, <1>7, <1>12
  <2> QED BY <1>1, <2>1 DEF Fields, t
<1> QED BY <1>5, <1>8, <1>9, <1>10, <1>11, <1>12 DEF EditedRows

LEMMA AtMostOne ==
  ASSUME NEW S, NEW x, S \subseteq {x}
  PROVE  Cardinality(S) <= 1
<1>1. S = {} \/ S = {x}
  OBVIOUS
<1>2. Cardinality({}) = 0 /\ Cardinality({x}) = 1
  BY FS_EmptySet, FS_Singleton
<1> QED BY <1>1, <1>2

LEMMA SaveStep ==
  ASSUME PoolInv, [BalancerNext]_allVars, NEW e \in Editors, Saves(e)
  PROVE  /\ \A j \in DOMAIN doc.rows \ {drafts[e].row} :
               j \in DOMAIN doc'.rows /\ doc'.rows[j] = doc.rows[j]
         /\ drafts[e].row \in DOMAIN doc.rows \cap DOMAIN doc'.rows =>
               Cardinality({f \in Fields : doc'.rows[drafts[e].row][f] # doc.rows[drafts[e].row][f]}) <= 1
         /\ Cardinality(DOMAIN doc'.rows \ DOMAIN doc.rows) <= 1
<1>1. Put(e) /\ doc' # doc
  BY OnlyPutSaves DEF Saves
<1>2. PICK rows, i : rows = drafts[e].rows /\ i = drafts[e].row
  OBVIOUS
<1>3. /\ IsEdit(rows, i)
      /\ DOMAIN doc'.rows = {IdOf(k) : k \in DOMAIN rows}
  BY <1>1, <1>2, SavedRows DEF DraftInStep
<1>4. \A j \in DOMAIN doc.rows :
        /\ j \in DOMAIN doc'.rows <=> j \in DOMAIN rows
        /\ j \in DOMAIN doc'.rows => doc'.rows[j] = StoredRow(rows, j)
  BY <1>1, <1>2, SavedUnderItsId
<1>5. /\ DOMAIN Published(doc.rows) = DOMAIN doc.rows
      /\ i \in DOMAIN doc.rows \cup {0} /\ DOMAIN rows \subseteq DOMAIN doc.rows \cup {i}
      /\ \A j \in DOMAIN doc.rows \ {i} : j \in DOMAIN rows /\ rows[j] = Published(doc.rows)[j]
      /\ i \in DOMAIN doc.rows \cap DOMAIN rows => rows[i] \in EditedRows(Published(doc.rows)[i])
  <2>1. DOMAIN Published(doc.rows) = DOMAIN doc.rows
    BY DEF Published
  <2> QED BY <1>3, <2>1 DEF IsEdit
<1>6. \A j \in DOMAIN doc.rows \ {i} : j \in DOMAIN doc'.rows /\ doc'.rows[j] = doc.rows[j]
  BY <1>4, <1>5, RestoredAsItWas
<1>7. ASSUME i \in DOMAIN doc.rows \cap DOMAIN doc'.rows
      PROVE  Cardinality({f \in Fields : doc'.rows[i][f] # doc.rows[i][f]}) <= 1
  <2>1. i \in DOMAIN doc.rows /\ doc'.rows[i] = StoredRow(rows, i)
        /\ rows[i] \in EditedRows(Published(doc.rows)[i])
    BY <1>4, <1>5, <1>7
  <2>2. PICK g \in Fields : \A f \in Fields \ {g} : StoredRow(rows, i)[f] = doc.rows[i][f]
    BY <2>1, OneFieldChanges
  <2>3. {f \in Fields : doc'.rows[i][f] # doc.rows[i][f]} \subseteq {g}
    BY <2>1, <2>2
  <2> QED BY <2>3, AtMostOne
<1>8. Cardinality(DOMAIN doc'.rows \ DOMAIN doc.rows) <= 1
  <2>1. DOMAIN doc'.rows \ DOMAIN doc.rows \subseteq {issued + 1}
    <3> SUFFICES ASSUME NEW k \in DOMAIN rows, IdOf(k) \notin DOMAIN doc.rows PROVE IdOf(k) = issued + 1
      BY <1>3
    <3>1. k \in DOMAIN doc.rows \/ k = 0
      BY <1>5
    <3> QED BY <3>1 DEF IdOf
  <2> QED BY <2>1, AtMostOne
<1> QED BY <1>2, <1>6, <1>7, <1>8

\* Whatever other editors, the registrar, the re-fetch pool, a spread and the
\* balancer did since the page was read, a save the revision lets through
\* changes at most one field of one row, or adds or deletes one: the passwords
\* behind the asterisks, the bans and the bindings are the stored ones
\* (AccountPool::update).
THEOREM SavesAreTheirEdits ==
  BalancerSpec => SavesOnlyItsEdit
<1>1. ASSUME PoolInv, [BalancerNext]_allVars
      PROVE  [\A e \in Editors : Saves(e) =>
                LET i == drafts[e].row
                IN  /\ \A j \in DOMAIN doc.rows \ {i} :
                          j \in DOMAIN doc'.rows /\ doc'.rows[j] = doc.rows[j]
                    /\ i \in DOMAIN doc.rows \cap DOMAIN doc'.rows =>
                          Cardinality({f \in Fields : doc'.rows[i][f] # doc.rows[i][f]}) <= 1
                    /\ Cardinality(DOMAIN doc'.rows \ DOMAIN doc.rows) <= 1]_allVars
  BY <1>1, SaveStep
<1> QED BY <1>1, PoolInvAlways, PTL DEF BalancerSpec, SavesOnlyItsEdit

(***************************************************************************)
(* The collectors' accounts                                                *)
(***************************************************************************)

LEMMA NamedRow ==
  ASSUME PoolInv, NEW n \in InUse
  PROVE  \E i \in DOMAIN doc.rows : /\ doc.rows[i].enabled /\ doc.rows[i].purpose = "watch"
                                    /\ Fold[doc.rows[i].user] = n /\ Fold[n] = n
<1>1. PICK r \in refs : n = Fold[r] /\ \E u \in Resolves(doc.rows, "watch") : Same(u, r)
  BY DEF InUse
<1>2. PICK u \in Resolves(doc.rows, "watch") : Fold[u] = n
  BY <1>1 DEF Same
<1>3. PICK i \in DOMAIN doc.rows : doc.rows[i].enabled /\ doc.rows[i].purpose = "watch"
                                 /\ u = doc.rows[i].user
  BY DEF Resolves
<1>4. r \in Names
  BY DEF PoolInv, PoolTyped
<1>5. Fold[n] = n
  BY <1>1, <1>4, PoolAssumption
<1> QED BY <1>2, <1>3, <1>5

LEMMA CollectorsStep ==
  ASSUME PoolInv, [BalancerNext]_allVars, doc' # doc, NEW n \in InUse
  PROVE  \/ \E u \in Resolves(doc'.rows, "watch") : Same(u, n)
         \/ \E e \in Editors : Saves(e) /\ n \notin drafts[e].inUse
<1>1. PICK i \in DOMAIN doc.rows : /\ doc.rows[i].enabled /\ doc.rows[i].purpose = "watch"
                                  /\ Fold[doc.rows[i].user] = n /\ Fold[n] = n
  BY NamedRow
<1>2. PoolInv' /\ (doc' = doc \/ Gentle \/ \E e \in Editors : Put(e))
  BY EveryWrite
<1>3. ASSUME NEW j \in DOMAIN doc'.rows, doc'.rows[j].enabled, doc'.rows[j].purpose = "watch",
             Fold[doc'.rows[j].user] = n
      PROVE  \E u \in Resolves(doc'.rows, "watch") : Same(u, n)
  <2>1. doc'.rows[j].user \in Resolves(doc'.rows, "watch")
    BY <1>3 DEF Resolves
  <2> QED BY <1>1, <1>3, <2>1 DEF Same
<1>4. CASE Gentle
  BY <1>1, <1>3, <1>4 DEF Gentle
<1>5. CASE \E e \in Editors : Put(e)
  <2>1. PICK e \in Editors : Put(e)
    BY <1>5
  <2>2. CASE n \notin drafts[e].inUse
    <3>1. drafts[e] # Nothing /\ drafts[e].stage = "checked"
          /\ drafts' = [drafts EXCEPT ![e] = Nothing]
      BY <2>1 DEF Put
    <3>2. drafts'[e] = Nothing
      BY <3>1, RestStands
    <3> QED BY <2>2, <3>1, <3>2 DEF Saves
  <2>3. CASE n \in drafts[e].inUse
    <3>1. PICK rows : rows = drafts[e].rows
      OBVIOUS
    <3>2. /\ KeepsCollectors(rows, drafts[e].inUse)
          /\ DOMAIN doc'.rows = {IdOf(k) : k \in DOMAIN rows}
          /\ \A k \in DOMAIN rows : doc'.rows[IdOf(k)] = StoredRow(rows, k)
      BY <2>1, <3>1, SavedRows DEF DraftInStep
    <3>3. PICK k \in DOMAIN rows : Same(rows[k].user, doc.rows[i].user)
      BY <1>1, <2>3, <3>2 DEF KeepsCollectors
    <3>4. Fold[rows[k].user] = n
      BY <1>1, <3>3 DEF Same
    <3>5. rows[k].enabled /\ rows[k].purpose = "watch"
      BY <2>3, <3>2, <3>4 DEF KeepsCollectors
    <3>6. StoredRow(rows, k).user = rows[k].user /\ StoredRow(rows, k).enabled = rows[k].enabled
          /\ StoredRow(rows, k).purpose = rows[k].purpose
      BY DEF StoredRow
    <3>7. PICK j : j = IdOf(k)
      OBVIOUS
    <3>8. j \in DOMAIN doc'.rows /\ doc'.rows[j] = StoredRow(rows, k)
      BY <3>2, <3>7
    <3> QED BY <1>3, <3>4, <3>5, <3>6, <3>8
  <2> QED BY <2>2, <2>3
<1> QED BY <1>2, <1>4, <1>5

\* No write of the account document takes away an account a collector names,
\* however many editors, spreads, rounds, registrations and retirements meet;
\* put_accounts' question, asked without the lock, misses only a collector
\* re-pointed between it and the save.
THEOREM CollectorsAreSafe ==
  BalancerSpec => CollectorsKeepTheirAccounts
<1>1. ASSUME PoolInv, [BalancerNext]_allVars
      PROVE  [doc' # doc => \A n \in InUse :
                \/ \E u \in Resolves(doc'.rows, "watch") : Same(u, n)
                \/ \E e \in Editors : Saves(e) /\ n \notin drafts[e].inUse]_allVars
  BY <1>1, CollectorsStep
<1> QED BY <1>1, PoolInvAlways, PTL DEF BalancerSpec, CollectorsKeepTheirAccounts

(***************************************************************************)
(* The gauges                                                              *)
(***************************************************************************)

\* The sessions that leave through an exit.
Through(m) == {a \in LoggedIn : exitOf[a] = m}

LEMMA EntryTyped ==
  ASSUME GaugeInv, NEW m
  PROVE  /\ Entry(tally, m) = [fetched |-> Entry(tally, m).fetched, sessions |-> Entry(tally, m).sessions]
         /\ Entry(tally, m).sessions \in Nat
  BY DEF GaugeInv, Entry

LEMMA ThroughFinite ==
  ASSUME GaugeInv, NEW m
  PROVE  IsFiniteSet(Through(m)) /\ Cardinality(Through(m)) \in Nat
<1>1. Through(m) \in SUBSET LoggedIn /\ IsFiniteSet(LoggedIn)
  BY DEF Through, GaugeInv
<1> QED BY <1>1, FS_Subset, FS_CardinalityType

\* A gauge that is set to a count no lower than the sessions there now.
LEMMA GaugeCounted ==
  ASSUME GaugeInv, NEW n, NEW f, NEW s \in Nat, NEW new, new = [fetched |-> f, sessions |-> s],
         Counted(n, new),
         exitOf' = [a \in DOMAIN exitOf' |-> exitOf'[a]], IsFiniteSet(DOMAIN exitOf'),
         n \in Nodes => s >= Cardinality({a \in DOMAIN exitOf' : exitOf'[a] = n}),
         \A m \in Nodes \ {n} :
            Cardinality({a \in DOMAIN exitOf' : exitOf'[a] = m}) <= Cardinality(Through(m))
  PROVE  GaugeInv'
<1>2. new = [fetched |-> new.fetched, sessions |-> new.sessions] /\ new.sessions = s
  OBVIOUS
<1>3. tally' = IF n = Shared THEN tally
               ELSE [x \in DOMAIN tally \cup {n} |-> IF x = n THEN new ELSE tally[x]]
  BY DEF Counted
<1>4. \A m \in DOMAIN tally : tally[m] = [fetched |-> tally[m].fetched, sessions |-> tally[m].sessions]
                               /\ tally[m].sessions \in Nat
  BY DEF GaugeInv
<1>5. /\ tally' = [m \in DOMAIN tally' |-> tally'[m]]
      /\ \A m \in DOMAIN tally' : tally'[m] = [fetched |-> tally'[m].fetched, sessions |-> tally'[m].sessions]
                                  /\ tally'[m].sessions \in Nat
  <2>1. CASE n = Shared
    BY <1>3, <1>4, <2>1 DEF GaugeInv
  <2>2. CASE n # Shared
    BY <1>2, <1>3, <1>4, <2>2
  <2> QED BY <2>1, <2>2
<1>6. \A m : m # n \/ n = Shared => Entry(tally', m) = Entry(tally, m)
  BY <1>3 DEF Entry
<1>7. n # Shared => Entry(tally', n).sessions = s
  BY <1>2, <1>3 DEF Entry
<1>8. ASSUME NEW m \in Nodes
      PROVE  Entry(tally', m).sessions >= Cardinality({a \in DOMAIN exitOf' : exitOf'[a] = m})
  <2>1. CASE m = n /\ n # Shared
    BY <1>7, <2>1
  <2>2. CASE m # n
    <3> DEFINE S == {a \in DOMAIN exitOf' : exitOf'[a] = m}
    <3>1. Entry(tally, m).sessions >= Cardinality(Through(m))
      BY DEF GaugeInv, GaugeNeverShort, Through
    <3>2. Cardinality(S) <= Cardinality(Through(m))
      BY <2>2
    <3>3. IsFiniteSet(S) /\ Cardinality(S) \in Nat
      BY FS_Subset, FS_CardinalityType
    <3>4. Entry(tally', m).sessions = Entry(tally, m).sessions /\ Entry(tally, m).sessions \in Nat
          /\ Cardinality(Through(m)) \in Nat
      BY <1>6, <2>2, EntryTyped, ThroughFinite
    <3> HIDE DEF S
    <3>5. Entry(tally, m).sessions >= Cardinality(S)
      BY <3>1, <3>2, <3>3, <3>4
    <3> QED BY <3>4, <3>5 DEF S
  <2>3. m # Shared
    BY PoolAssumption DEF Shared
  <2> QED BY <2>1, <2>2, <2>3
<1> QED BY <1>5, <1>8 DEF GaugeInv, GaugeNeverShort, LoggedIn

LEMMA LoginStep ==
  ASSUME GaugeInv, NEW n, Login(n)
  PROVE  GaugeInv'
<1>1. PICK m : m = NodeFor(doc.rows, n)
  OBVIOUS
<1> DEFINE new == [Entry(tally, m) EXCEPT !.sessions = @ + 1]
<1>2. /\ n \notin LoggedIn
      /\ exitOf' = [a \in LoggedIn \cup {n} |-> IF a = n THEN m ELSE exitOf[a]]
      /\ Counted(m, new)
  BY <1>1 DEF Login
<1>3. PICK f, s : f = Entry(tally, m).fetched /\ s = Entry(tally, m).sessions + 1
  OBVIOUS
<1>4. new = [fetched |-> f, sessions |-> s] /\ s \in Nat
  BY <1>3, EntryTyped
<1>5. exitOf' = [a \in DOMAIN exitOf' |-> exitOf'[a]] /\ DOMAIN exitOf' = LoggedIn \cup {n}
      /\ IsFiniteSet(LoggedIn \cup {n})
  BY <1>2, FS_AddElement DEF GaugeInv
<1>6. {a \in DOMAIN exitOf' : exitOf'[a] = m} = Through(m) \cup {n} /\ n \notin Through(m)
  BY <1>2 DEF Through
<1>7. Cardinality(Through(m) \cup {n}) = Cardinality(Through(m)) + 1
  BY <1>6, ThroughFinite, FS_AddElement
<1>8. ASSUME m \in Nodes PROVE s >= Cardinality(Through(m)) + 1
  <2>1. Entry(tally, m).sessions >= Cardinality(Through(m))
    BY <1>8 DEF GaugeInv, GaugeNeverShort, Through
  <2> QED BY <1>3, <2>1, EntryTyped, ThroughFinite
<1>9. ASSUME NEW k \in Nodes \ {m}
      PROVE  Cardinality({a \in DOMAIN exitOf' : exitOf'[a] = k}) <= Cardinality(Through(k))
  <2>1. {a \in DOMAIN exitOf' : exitOf'[a] = k} = Through(k)
    BY <1>2, <1>9 DEF Through
  <2> QED BY <2>1, ThroughFinite
<1>10. m \in Nodes => s >= Cardinality({a \in DOMAIN exitOf' : exitOf'[a] = m})
  BY <1>6, <1>7, <1>8
<1>11. IsFiniteSet(DOMAIN exitOf')
  BY <1>5
<1> HIDE DEF new
<1> QED BY <1>2, <1>4, <1>5, <1>9, <1>10, <1>11, GaugeCounted

LEMMA SessionEndsStep ==
  ASSUME GaugeInv, NEW n, SessionEnds(n)
  PROVE  GaugeInv'
<1>1. PICK m : m = exitOf[n]
  OBVIOUS
<1> DEFINE new == [Entry(tally, m) EXCEPT !.sessions = OneFewer(@)]
<1>2. /\ n \in LoggedIn /\ exitOf' = [a \in LoggedIn \ {n} |-> exitOf[a]]
      /\ Counted(m, new)
  BY <1>1 DEF SessionEnds, Leave, LeftExit
<1>3. PICK f, s : f = Entry(tally, m).fetched /\ s = OneFewer(Entry(tally, m).sessions)
  OBVIOUS
<1>4. new = [fetched |-> f, sessions |-> s]
  BY <1>3, EntryTyped
<1>5. s \in Nat /\ s + 1 >= Entry(tally, m).sessions
  BY <1>3, EntryTyped DEF OneFewer
<1>6. exitOf' = [a \in DOMAIN exitOf' |-> exitOf'[a]] /\ DOMAIN exitOf' = LoggedIn \ {n}
      /\ IsFiniteSet(LoggedIn \ {n})
  BY <1>2, FS_RemoveElement DEF GaugeInv
<1>7. {a \in DOMAIN exitOf' : exitOf'[a] = m} = Through(m) \ {n} /\ n \in Through(m)
  BY <1>1, <1>2 DEF Through
<1>8. Cardinality(Through(m) \ {n}) = Cardinality(Through(m)) - 1
  BY <1>7, ThroughFinite, FS_RemoveElement
<1>9. ASSUME m \in Nodes PROVE s >= Cardinality(Through(m)) - 1
  <2>1. Entry(tally, m).sessions >= Cardinality(Through(m))
    BY <1>9 DEF GaugeInv, GaugeNeverShort, Through
  <2> QED BY <1>5, <2>1, EntryTyped, ThroughFinite
<1>10. ASSUME NEW k \in Nodes \ {m}
       PROVE  Cardinality({a \in DOMAIN exitOf' : exitOf'[a] = k}) <= Cardinality(Through(k))
  <2>1. {a \in DOMAIN exitOf' : exitOf'[a] = k} = Through(k)
    BY <1>1, <1>2, <1>10 DEF Through
  <2> QED BY <2>1, ThroughFinite
<1>11. m \in Nodes => s >= Cardinality({a \in DOMAIN exitOf' : exitOf'[a] = m})
  BY <1>7, <1>8, <1>9
<1>12. IsFiniteSet(DOMAIN exitOf')
  BY <1>6
<1> HIDE DEF new
<1> QED BY <1>2, <1>4, <1>5, <1>6, <1>10, <1>11, <1>12, GaugeCounted

LEMMA RecordNodeStep ==
  ASSUME GaugeInv, NEW n, RecordNode(n)
  PROVE  GaugeInv'
<1>1. PICK m : m = exitOf[n]
  OBVIOUS
<1> DEFINE new == [Entry(tally, m) EXCEPT !.fetched = @ + 1]
<1>2. exitOf' = exitOf /\ Counted(m, new)
  BY <1>1 DEF RecordNode
<1>3. PICK f, s : f = Entry(tally, m).fetched + 1 /\ s = Entry(tally, m).sessions
  OBVIOUS
<1>4. new = [fetched |-> f, sessions |-> s] /\ s \in Nat
  BY <1>3, EntryTyped
<1>5. exitOf' = [a \in DOMAIN exitOf' |-> exitOf'[a]] /\ IsFiniteSet(DOMAIN exitOf')
  BY <1>2 DEF GaugeInv, LoggedIn
<1>6. \A k : {a \in DOMAIN exitOf' : exitOf'[a] = k} = Through(k)
  BY <1>2 DEF Through, LoggedIn
<1>7. m \in Nodes => s >= Cardinality(Through(m))
  BY <1>3 DEF GaugeInv, GaugeNeverShort, Through
<1>8. \A k \in Nodes : Cardinality(Through(k)) <= Cardinality(Through(k))
  BY ThroughFinite
<1>9. m \in Nodes => s >= Cardinality({a \in DOMAIN exitOf' : exitOf'[a] = m})
  BY <1>6, <1>7
<1>10. \A k \in Nodes \ {m} : Cardinality({a \in DOMAIN exitOf' : exitOf'[a] = k}) <= Cardinality(Through(k))
  BY <1>6, <1>8
<1> HIDE DEF new
<1> QED BY <1>2, <1>4, <1>5, <1>9, <1>10, GaugeCounted

\* The counters are reset and the gauges are not; sessions that are cut off
\* leave theirs standing.
LEMMA GaugeStands ==
  ASSUME GaugeInv, exitOf' = exitOf \/ Aborted, tally' = tally \/ tally' = Reset(tally)
  PROVE  GaugeInv'
<1>1. exitOf' = [a \in DOMAIN exitOf' |-> exitOf'[a]] /\ IsFiniteSet(DOMAIN exitOf')
  BY FS_EmptySet DEF GaugeInv, LoggedIn, Aborted
<1>2. \A m \in DOMAIN tally : tally[m] = [fetched |-> tally[m].fetched, sessions |-> tally[m].sessions]
                               /\ tally[m].sessions \in Nat
  BY DEF GaugeInv
<1>3. /\ tally' = [m \in DOMAIN tally' |-> tally'[m]] /\ DOMAIN tally' = DOMAIN tally
      /\ \A m \in DOMAIN tally : /\ tally'[m] = [fetched |-> tally'[m].fetched, sessions |-> tally'[m].sessions]
                                 /\ tally'[m].sessions = tally[m].sessions
  <2>1. CASE tally' = tally
    BY <1>2, <2>1 DEF GaugeInv
  <2>2. CASE tally' = Reset(tally)
    BY <1>2, <2>2 DEF Reset
  <2> QED BY <2>1, <2>2
<1>4. \A m : Entry(tally', m).sessions = Entry(tally, m).sessions
  BY <1>3 DEF Entry
<1>5. ASSUME NEW m \in Nodes
      PROVE  Entry(tally', m).sessions >= Cardinality({a \in DOMAIN exitOf' : exitOf'[a] = m})
  <2>1. CASE exitOf' = exitOf
    BY <1>4, <2>1 DEF GaugeInv, GaugeNeverShort, LoggedIn
  <2>2. CASE Aborted
    <3>1. {a \in DOMAIN exitOf' : exitOf'[a] = m} = {}
      BY <2>2 DEF Aborted
    <3>2. Cardinality({}) = 0
      BY FS_EmptySet
    <3> QED BY <1>4, <3>1, <3>2, EntryTyped
  <2> QED BY <2>1, <2>2
<1> QED BY <1>1, <1>2, <1>3, <1>5 DEF GaugeInv, GaugeNeverShort, LoggedIn

\* The balancer never divides an exit's records by fewer sessions than are
\* logged in through it, however its account is re-bound, renamed or retired
\* between the login and the end of the session (node_session).
THEOREM GaugesMissNobody ==
  BalancerSpec => []GaugeNeverShort
<1>1. ASSUME BalancerInit PROVE GaugeInv
  <2>1. exitOf = [a \in {} |-> Shared] /\ tally = [m \in {} |-> Entry(<<>>, 0)]
    BY <1>1 DEF BalancerInit
  <2>2. LoggedIn = {} /\ DOMAIN tally = {}
    BY <2>1 DEF LoggedIn
  <2>3. ASSUME NEW m \in Nodes
        PROVE  Entry(tally, m).sessions >= Cardinality({a \in LoggedIn : exitOf[a] = m})
    <3>1. {a \in LoggedIn : exitOf[a] = m} = {} /\ Cardinality({}) = 0
      BY <2>2, FS_EmptySet
    <3>2. Entry(tally, m).sessions = 0
      BY <2>2 DEF Entry
    <3> QED BY <3>1, <3>2
  <2> QED BY <2>1, <2>2, <2>3, FS_EmptySet DEF GaugeInv, GaugeNeverShort
<1>2. ASSUME GaugeInv, [BalancerNext]_allVars PROVE GaugeInv'
  <2>1. CASE \E n \in workers : Login(n) \/ SessionEnds(n) \/ RecordNode(n)
    BY <1>2, <2>1, LoginStep, SessionEndsStep, RecordNodeStep
  <2>2. CASE UNCHANGED balanceVars
    BY <1>2, <2>2, GaugeStands DEF balanceVars
  <2>3. CASE Weigh \/ RebindClone \/ RebindSubmit \/ Start \/ Stop \/ WalkDone
             \/ \E n \in workers : LoginBanned(n)
    <3>1. (exitOf' = exitOf \/ Aborted) /\ (tally' = tally \/ tally' = Reset(tally))
      BY <2>3 DEF Weigh, RebindClone, RebindSubmit, Start, Stop, WalkDone, LoginBanned
    <3> QED BY <1>2, <3>1, GaugeStands
  <2> QED BY <1>2, <2>1, <2>2, <2>3 DEF BalancerNext, allVars
<1>3. GaugeInv => GaugeNeverShort
  BY DEF GaugeInv
<1> QED BY <1>1, <1>2, <1>3, PTL DEF BalancerSpec

=============================================================================
