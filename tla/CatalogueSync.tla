--------------------------- MODULE CatalogueSync ---------------------------
(***************************************************************************)
(* The catalogue import (paipuya.rs): workers sweep the site's game list   *)
(* mode by mode from a cursor in PostgreSQL, a page at a time, while the   *)
(* console starts, stops, reconfigures and rewinds the sweep.              *)
(*                                                                         *)
(* Games are what the site lists: records of mode, start second, a number  *)
(* that orders a second, and whether into_game keeps it.  The site         *)
(* (external) answers a range oldest first and lists a game as soon as its *)
(* start second has passed.  Configs are what an operator may submit;      *)
(* until = 0 stands for an open window.  Batches are sets of games posted  *)
(* from outside.  MinGap is the ten seconds below which the site refuses a *)
(* range.                                                                  *)
(*                                                                         *)
(* MaxRequests bounds the console's requests, MaxFaults the errors of the  *)
(* site and the stores and the crashes of the process together, MaxNow the *)
(* clock.  Requests that overlap are looked at without faults and under a  *)
(* clock that stands still.                                                *)
(***************************************************************************)
EXTENDS Integers, Sequences, FiniteSets, FiniteSetsExt

CONSTANTS Games, Batches, Configs, Concurrency, PageSize, MinGap, Consoles,
          MaxRequests, MaxFaults, MaxNow, NoMode

ASSUME CatalogueAssumption ==
  /\ Concurrency \in Nat \ {0} /\ PageSize \in Nat \ {0} /\ MinGap \in Nat \ {0}
  /\ IsFiniteSet(Games)
  /\ \A g \in Games : g.at \in Nat \ {0} /\ g.n \in Nat /\ g.usable \in BOOLEAN
  /\ \A b \in Batches : b \subseteq Games
  /\ \A c \in Configs : /\ c.from \in Nat /\ c.until \in Nat
                        /\ c.modes \in Seq({c.modes[i] : i \in DOMAIN c.modes})
  /\ MaxRequests \in Nat /\ MaxFaults \in Nat /\ MaxNow \in Nat \ {0}

Modes == {g.mode : g \in Games}

\* validate: known modes, and a window wide enough to be asked for.
Valid(c) == /\ \A i \in DOMAIN c.modes : c.modes[i] \in Modes
            /\ c.until = 0 \/ c.until - c.from >= MinGap

Generations == 1 .. MaxRequests + 1
Tasks == Generations \X (1 .. Concurrency)
Seconds == 0 .. MaxNow + 1

VARIABLES
  config,      \* the configuration, in memory and on disk
  phase,       \* runtime.phase
  generation,  \* what start and stop count up
  sweeps,      \* generation -> its configuration, its queue of modes, its live count
  tasks,       \* task -> where its sync_mode is
  held,        \* self.tasks: the handles stop can abort
  requests,    \* console -> the request it waits for
  overlap,     \* whether consoles may ask before another is answered
  cursor,      \* mode -> paipuya_cursor.next_from, 0 without a row
  catalogue,   \* the games of mjai.paipuya_games
  now,
  excused,     \* the games a clamp or a stepped-over second gave up on
  rewound,     \* the generation the last rewind found
  asked, faults

sweepVars == <<sweeps, tasks>>
bounds == <<asked, faults>>
vars == <<config, phase, generation, sweepVars, held, requests, overlap,
          cursor, catalogue, now, excused, rewound, bounds>>

Gone == [step |-> "gone", mode |-> NoMode, from |-> 0, to |-> 0, seen |-> 0, page |-> {}]
Fresh == [Gone EXCEPT !.step = "pop"]
Leaving == [Gone EXCEPT !.step = "leave"]
NoSweep == [config |-> [from |-> 0, until |-> 0], queue |-> <<>>, live |-> 0]
Idle == [at |-> "idle", then |-> "answer"]

Alive(t) == tasks[t].step # "gone"

TypeOK ==
  /\ config \in Configs
  /\ phase \in {"stopped", "running", "failed"}
  /\ generation \in 0 .. MaxRequests + 1
  /\ \A n \in Generations : /\ sweeps[n].live \in 0 .. Concurrency
                            /\ sweeps[n].live >= Cardinality({t \in Tasks : t[1] = n /\ Alive(t)})
  /\ \A t \in Tasks :
       /\ tasks[t].step \in {"gone", "pop", "read", "fetch", "insert", "move", "leave"}
       /\ tasks[t].mode \in Modes \union {NoMode}
       /\ tasks[t].from \in Seconds /\ tasks[t].to \in Seconds /\ tasks[t].seen \in Seconds
       /\ tasks[t].page \subseteq Games /\ Cardinality(tasks[t].page) <= PageSize
  /\ held \subseteq Tasks
  /\ \A c \in Consoles :
       /\ requests[c].at \in {"idle", "start", "spawn", "file", "stop", "abort", "settle",
                              "check", "rewind"}
       /\ requests[c].then \in {"answer", "rewind"}
  /\ overlap \in BOOLEAN
  /\ cursor \in [Modes -> Seconds]
  /\ catalogue \subseteq {g \in Games : g.usable} /\ excused \subseteq Games
  /\ now \in Seconds /\ rewound \in 0 .. MaxRequests + 1

Init ==
  /\ config \in {c \in Configs : Valid(c)}
  /\ phase = "stopped" /\ generation = 0
  /\ sweeps = [n \in Generations |-> NoSweep]
  /\ tasks = [t \in Tasks |-> Gone] /\ held = {}
  /\ requests = [c \in Consoles |-> Idle] /\ overlap \in BOOLEAN
  /\ cursor = [m \in Modes |-> 0] /\ catalogue = {}
  /\ excused = {} /\ rewound = 0
  /\ now = IF overlap THEN MaxNow ELSE MaxNow - 1
  /\ asked = 0 /\ faults = IF overlap THEN MaxFaults ELSE 0

-----------------------------------------------------------------------------
(* The walk of one mode: sync_mode and fetch_page. *)

Before(g, h) == g.at < h.at \/ (g.at = h.at /\ g.n < h.n)

\* sweep_from: the cursor, but never behind the window.
SweepFrom(row, start) == IF row > start THEN row ELSE start

\* The right edge: sync_until, or the clock.
Edge(c) == IF c.until # 0 THEN c.until ELSE now

\* fetch_page: the oldest games of the range, at most a page of them.
PageOf(m, from, to) ==
  LET inRange == {g \in Games : g.mode = m /\ from <= g.at /\ g.at <= to /\ g.at <= now}
  IN {g \in inRange : Cardinality({h \in inRange : Before(h, g)}) < PageSize}

\* A bug SweptToTheEdge is there to notice: an exactly full page ends the mode.
FullOverAPage(page) == Cardinality(page) > PageSize

Full(page) == Cardinality(page) >= PageSize

Newest(from, page) == Max({from} \union {g.at : g \in page})

\* A bug NothingPassedOver is there to notice: the second after the newest
\* game's, which drops what shares its second with the end of a page.
NextFromAfter(from, page) ==
  IF Newest(from, page) > from THEN Newest(from, page) + 1 ELSE from + 1

\* Where the next page starts; a whole page inside one second is stepped over.
NextFrom(from, page) ==
  IF Newest(from, page) > from THEN Newest(from, page) ELSE from + 1

\* A short page that ended where it started.
CaughtUp(from, page) == Newest(from, page) = from /\ ~Full(page)

SetTask(t, r) == tasks' = [tasks EXCEPT ![t] = r]
ToStep(t, s) == SetTask(t, [tasks[t] EXCEPT !.step = s])

\* The mode is done: its worker goes back to the queue.
Done(t) == [tasks[t] EXCEPT !.step = "pop", !.from = 0, !.page = {}]

\* A worker takes the next mode, unless the queue is empty or the sweep it
\* belongs to is no longer the current one.  Fresh workers are alike: the
\* first of them goes first.
TakeMode(t) ==
  /\ tasks[t].step = "pop"
  /\ \A i \in 1 .. t[2] - 1 : tasks[t] # Fresh \/ tasks[<<t[1], i>>] # Fresh
  /\ LET q == sweeps[t[1]].queue
     IN IF q = <<>>
        THEN SetTask(t, Leaving) /\ UNCHANGED sweeps
        ELSE /\ sweeps' = [sweeps EXCEPT ![t[1]].queue = SubSeq(q, 1, Len(q) - 1)]
             /\ IF generation = t[1]
                THEN SetTask(t, [Gone EXCEPT !.step = "read", !.mode = q[Len(q)]])
                ELSE SetTask(t, Leaving)
  /\ UNCHANGED <<config, phase, generation, held, requests, overlap, cursor,
                 catalogue, now, excused, rewound, bounds>>

ReadCursor(t) ==
  /\ tasks[t].step = "read"
  /\ LET m == tasks[t].mode  start == sweeps[t[1]].config.from
     IN /\ SetTask(t, [tasks[t] EXCEPT !.step = "fetch", !.from = SweepFrom(cursor[m], start)])
        /\ excused' = excused \union {g \in Games : g.mode = m /\ g.at < start}
  /\ UNCHANGED <<config, phase, generation, sweeps, held, requests, overlap, cursor,
                 catalogue, now, rewound, bounds>>

\* One turn of the loop: the mode is done when less than MinGap is left, or
\* the site is asked for a page.  The pacer's wait is part of the step.
FetchPage(t) ==
  /\ tasks[t].step = "fetch"
  /\ LET w == tasks[t]  to == Edge(sweeps[t[1]].config)
     IN IF to - w.from < MinGap
        THEN SetTask(t, [Done(t) EXCEPT !.to = to, !.seen = now])
        ELSE SetTask(t, [w EXCEPT !.step = "insert", !.to = to, !.seen = now,
                                  !.page = PageOf(w.mode, w.from, to)])
  /\ UNCHANGED <<config, phase, generation, sweeps, held, requests, overlap, cursor,
                 catalogue, now, excused, rewound, bounds>>

\* into_game: a game without a uuid or without players is left out.
Kept(games) == {g \in games : g.usable}

\* insert_paipuya_games: the table collapses a game it has.
InsertGames(games) == catalogue \union Kept(games)

\* set_paipuya_cursor, a row or the change of one.
SetCursor(m, next) == [cursor EXCEPT ![m] = next]

\* rewind_paipuya_cursors moves the rows there are.
RewindCursors(next) == [m \in Modes |-> IF cursor[m] = 0 THEN 0 ELSE next]

\* The page is inserted before the cursor that passes over the page.
InsertPage(t) ==
  /\ tasks[t].step = "insert"
  /\ catalogue' = InsertGames(tasks[t].page)
  /\ IF CaughtUp(tasks[t].from, tasks[t].page) THEN SetTask(t, Done(t)) ELSE ToStep(t, "move")
  /\ UNCHANGED <<config, phase, generation, sweeps, held, requests, overlap, cursor,
                 now, excused, rewound, bounds>>

\* The cursor moves; a short page was the mode's last.
MoveCursor(t) ==
  /\ tasks[t].step = "move"
  /\ LET w == tasks[t]  next == NextFrom(w.from, w.page)
     IN /\ cursor' = SetCursor(w.mode, next)
        /\ excused' = IF Newest(w.from, w.page) > w.from THEN excused
                      ELSE excused \union {g \in Games : g.mode = w.mode /\ g.at = w.from}
        /\ SetTask(t, IF Full(w.page) THEN [Gone EXCEPT !.step = "fetch", !.mode = w.mode, !.from = next]
                                      ELSE Done(t))
  /\ UNCHANGED <<config, phase, generation, sweeps, held, requests, overlap,
                 catalogue, now, rewound, bounds>>

\* fail: any await of sync_mode ends in an error, a write possibly after it
\* was applied.  The worker takes no further mode.
SyncFails(t) ==
  /\ faults < MaxFaults /\ faults' = faults + 1
  /\ tasks[t].step \in {"read", "fetch", "insert", "move"}
  /\ phase' = "failed"
  /\ SetTask(t, Leaving)
  /\ catalogue' \in {catalogue, InsertGames(tasks[t].page)}
  /\ cursor' \in {cursor} \union
       (IF tasks[t].step = "move"
        THEN {SetCursor(tasks[t].mode, NextFrom(tasks[t].from, tasks[t].page))} ELSE {})
  /\ excused' = IF cursor' = cursor \/ Newest(tasks[t].from, tasks[t].page) > tasks[t].from
                THEN excused
                ELSE excused \union {g \in Games : g.mode = tasks[t].mode /\ g.at = tasks[t].from}
  /\ UNCHANGED <<config, generation, sweeps, held, requests, overlap, now, rewound,
                 asked>>

\* The worker that takes the live count to zero ends the sweep.
LastOut(n) == sweeps[n].live = 1

\* A bug SweepEnds is there to notice: nobody reports the end.
CompletesNever(n) == FALSE

\* complete: a sweep that was replaced or that failed says nothing.
Completes(n) == LastOut(n) /\ generation = n /\ phase # "failed"

LeaveSweep(t) ==
  /\ tasks[t].step = "leave"
  /\ SetTask(t, Gone)
  /\ sweeps' = [sweeps EXCEPT ![t[1]].live = @ - 1]
  /\ phase' = IF Completes(t[1]) THEN "stopped" ELSE phase
  /\ UNCHANGED <<config, generation, held, requests, overlap, cursor, catalogue,
                 now, excused, rewound, bounds>>

-----------------------------------------------------------------------------
(* The console: apply_action, update_config, reset_cursors. *)

\* Consoles are alike: the first that has nothing pending asks.
MayAsk(c) ==
  /\ asked < MaxRequests
  /\ requests[c] = Idle /\ \A d \in Consoles : d < c => requests[d] # Idle
  /\ overlap \/ \A d \in Consoles : requests[d] = Idle

Goto(c, at) == requests' = [requests EXCEPT ![c].at = at]
Answer(c) == requests' = [requests EXCEPT ![c] = Idle]

\* apply_action's start, reload or stop, and the reset.
Ask(c) ==
  /\ MayAsk(c) /\ asked' = asked + 1
  /\ \E at \in {"start", "stop", "check"} : Goto(c, at)
  /\ UNCHANGED <<config, phase, generation, sweepVars, held, overlap, cursor, catalogue,
                 now, excused, rewound, faults>>

\* update_config, for a valid document of the current revision; any other is
\* refused and changes nothing.
PutConfig(c) ==
  /\ MayAsk(c) /\ asked' = asked + 1
  /\ \E next \in {d \in Configs : Valid(d)} :
       /\ config' = next
       /\ Goto(c, IF next.enabled THEN "start" ELSE "stop")
  /\ UNCHANGED <<phase, generation, sweepVars, held, overlap, cursor, catalogue,
                 now, excused, rewound, faults>>

\* post_paipuya_games: a batch from outside, refused whole for one game that
\* lists no players.
PostGames(c) ==
  /\ MayAsk(c) /\ asked' = asked + 1
  /\ \E batch \in Batches :
       /\ \A g \in batch : g.usable
       /\ catalogue' = InsertGames(batch)
  /\ UNCHANGED <<config, phase, generation, sweepVars, held, requests, overlap, cursor,
                 now, excused, rewound, faults>>

\* stop_tasks: the held handles are taken, aborted and awaited.
StopTasks ==
  /\ tasks' = [t \in Tasks |-> IF t \in held THEN Gone ELSE tasks[t]]
  /\ held' = {}

\* start, in its three stretches between awaits.
StartStops(c) ==
  /\ requests[c].at = "start"
  /\ StopTasks
  /\ requests' = [requests EXCEPT ![c] = [at |-> "spawn", then |-> "answer", config |-> config]]
  /\ UNCHANGED <<config, phase, generation, sweeps, overlap, cursor, catalogue,
                 now, excused, rewound, bounds>>

\* What start hands its workers.
SweepOf(c) == [config |-> c, queue |-> c.modes, live |-> Concurrency]

Spawn(c) ==
  /\ requests[c].at = "spawn"
  /\ LET n == generation + 1
     IN /\ generation' = n
        /\ sweeps' = [sweeps EXCEPT ![n] = SweepOf(requests[c].config)]
        /\ tasks' = [t \in Tasks |-> IF t[1] = n THEN Fresh ELSE tasks[t]]
        /\ requests' = [requests EXCEPT ![c] = [at |-> "file", then |-> "answer", sweep |-> n]]
  /\ phase' = "running"
  /\ UNCHANGED <<config, held, overlap, cursor, catalogue, now, excused, rewound, bounds>>

File(c) ==
  /\ requests[c].at = "file"
  /\ held' = {requests[c].sweep} \X (1 .. Concurrency)
  /\ Answer(c)
  /\ UNCHANGED <<config, phase, generation, sweepVars, overlap, cursor, catalogue,
                 now, excused, rewound, bounds>>

\* stop, likewise; the generation moves before the abort.
StopBumps(c) ==
  /\ requests[c].at = "stop"
  /\ generation' = generation + 1
  /\ Goto(c, "abort")
  /\ UNCHANGED <<config, phase, sweepVars, held, overlap, cursor, catalogue,
                 now, excused, rewound, bounds>>

StopAborts(c) ==
  /\ requests[c].at = "abort"
  /\ StopTasks
  /\ Goto(c, "settle")
  /\ UNCHANGED <<config, phase, generation, sweeps, overlap, cursor, catalogue,
                 now, excused, rewound, bounds>>

StopSettles(c) ==
  /\ requests[c].at = "settle"
  /\ phase' = "stopped"
  /\ IF requests[c].then = "rewind"
     THEN requests' = [requests EXCEPT ![c] = [Idle EXCEPT !.at = "rewind"]]
     ELSE Answer(c)
  /\ UNCHANGED <<config, generation, sweepVars, held, overlap, cursor, catalogue,
                 now, excused, rewound, bounds>>

\* A bug RewindSticks is there to notice: only a running sweep is stopped.
MustStopRunning == phase = "running"

\* reset_cursors stops a sweep that is not known to have stopped, a failed
\* one too: its other workers go on.
MustStop == phase # "stopped"

ResetChecks(c) ==
  /\ requests[c].at = "check"
  /\ requests' = [requests EXCEPT ![c] = IF MustStop THEN [at |-> "stop", then |-> "rewind"]
                                         ELSE [Idle EXCEPT !.at = "rewind"]]
  /\ UNCHANGED <<config, phase, generation, sweepVars, held, overlap, cursor, catalogue,
                 now, excused, rewound, bounds>>

\* One statement, which may fail.
Rewind(c) ==
  /\ requests[c].at = "rewind"
  /\ Answer(c)
  /\ \/ /\ cursor' = RewindCursors(config.from)
        /\ excused' = excused \union {g \in Games : g.at < config.from}
        /\ rewound' = generation
        /\ UNCHANGED faults
     \/ /\ faults < MaxFaults /\ faults' = faults + 1
        /\ UNCHANGED <<cursor, excused, rewound>>
  /\ UNCHANGED <<config, phase, generation, sweepVars, held, overlap, catalogue,
                 now, asked>>

-----------------------------------------------------------------------------

\* The process dies with its tasks; start_if_enabled at the next boot.
Reboot ==
  /\ faults < MaxFaults /\ faults' = faults + 1
  /\ tasks' = [t \in Tasks |-> IF config.enabled /\ t[1] = 1 THEN Fresh ELSE Gone]
  /\ sweeps' = [n \in Generations |-> IF config.enabled /\ n = 1 THEN SweepOf(config) ELSE NoSweep]
  /\ held' = IF config.enabled THEN {1} \X (1 .. Concurrency) ELSE {}
  /\ generation' = IF config.enabled THEN 1 ELSE 0
  /\ phase' = IF config.enabled THEN "running" ELSE "stopped"
  /\ requests' = [c \in Consoles |-> Idle]
  /\ rewound' = 0
  /\ UNCHANGED <<config, overlap, cursor, catalogue, now, excused, asked>>

Tick == /\ now < MaxNow /\ now' = now + 1
        /\ UNCHANGED <<config, phase, generation, sweepVars, held, requests, overlap,
                       cursor, catalogue, excused, rewound, bounds>>

WorkerStep(t) == \/ TakeMode(t) \/ ReadCursor(t) \/ FetchPage(t) \/ InsertPage(t)
                 \/ MoveCursor(t) \/ LeaveSweep(t)
RequestStep(c) == \/ StartStops(c) \/ Spawn(c) \/ File(c)
                  \/ StopBumps(c) \/ StopAborts(c) \/ StopSettles(c)
                  \/ ResetChecks(c) \/ Rewind(c)

Next ==
  \/ \E t \in Tasks : WorkerStep(t) \/ SyncFails(t)
  \/ \E c \in Consoles : Ask(c) \/ PutConfig(c) \/ PostGames(c) \/ RequestStep(c)
  \/ Reboot
  \/ Tick

Spec == Init /\ [][Next]_vars

\* Some worker and some request keep going while there are any: tokio polls
\* the tasks that are ready, and every request of a worker has a timeout.
FairSpec ==
  /\ Spec
  /\ WF_vars(\E t \in Tasks : WorkerStep(t))
  /\ WF_vars(\E c \in Consoles : RequestStep(c))

-----------------------------------------------------------------------------

\* A cursor never passes a game the site listed without the game being in the
\* catalogue, across page boundaries, errors, aborts and crashes between the
\* insert and the cursor; only the window's own left edge and the second that
\* overflowed a page are given up on.
NothingPassedOver ==
  \A g \in Games : g.usable /\ g.at < cursor[g.mode] => g \in catalogue \union excused

\* A mode reported as done has every game up to the edge it was swept to,
\* except for the last stretch the site refuses to be asked for.
SweptToTheEdge ==
  \A t \in Tasks : tasks[t].step = "pop" /\ tasks[t].mode # NoMode =>
    \A g \in Games :
      /\ g.mode = tasks[t].mode /\ g.usable
      /\ g.at <= tasks[t].seen /\ g.at <= tasks[t].to - MinGap
      => g \in catalogue \union excused

\* A rewind is not written over by the sweep it was asked under: while
\* requests are answered one at a time, no worker of an earlier generation is
\* left when the cursors have been moved.
RewindSticks == ~overlap => \A t \in Tasks : Alive(t) => t[1] > rewound

\* A console that reads Stopped has nothing running, while requests are
\* answered one at a time.
StoppedIsQuiet ==
  ~overlap /\ phase = "stopped" /\ (\A c \in Consoles : requests[c] = Idle)
    => \A t \in Tasks : ~Alive(t)

(* What keeps these so.  First, the games: whatever a task holds is in step *)
(* with what the catalogue knows, however late the task writes it.         *)

Known == catalogue \union excused

TaskShape(r) ==
  /\ r = [step |-> r.step, mode |-> r.mode, from |-> r.from, to |-> r.to,
          seen |-> r.seen, page |-> r.page]
  /\ r.from \in Nat /\ r.to \in Nat /\ r.seen \in Nat

\* Of mode m, everything before second s is known.
Behind(m, s, known) == \A g \in Games : g.mode = m /\ g.usable /\ g.at < s => g \in known

\* A page holds the oldest games of its range, and all of them when it is short.
OldestOfRange(r) ==
  /\ r.page \subseteq Games /\ \A g \in r.page : g.at <= r.seen
  /\ \A g \in Games, h \in r.page : g.mode = r.mode /\ r.from <= g.at /\ g.at < h.at => g \in r.page
  /\ Full(r.page) \/ \A g \in Games :
       g.mode = r.mode /\ r.from <= g.at /\ g.at <= r.to /\ g.at <= r.seen => g \in r.page

Swept(r, known) ==
  \A g \in Games :
    g.mode = r.mode /\ g.usable /\ g.at <= r.seen /\ g.at <= r.to - MinGap => g \in known

TaskInStep(r, games, known) ==
  /\ r.step = "read" => r.mode \in Modes
  /\ r.step \in {"fetch", "insert", "move"} => Behind(r.mode, r.from, known)
  /\ r.step \in {"insert", "move"} => OldestOfRange(r)
  /\ r.step = "move" => \A g \in r.page : g.usable => g \in games
  /\ r.step = "pop" /\ r.mode # NoMode => Swept(r, known)

SweepShape(r) == /\ r = [config |-> r.config, queue |-> r.queue, live |-> r.live]
                 /\ r.config.from \in Nat /\ r.config.until \in Nat
                 /\ r.queue \in Seq(Modes) /\ r.live \in Int

RequestShape(r) ==
  /\ r.at \notin {"spawn", "file"} => r = [at |-> r.at, then |-> r.then]
  /\ r.at = "spawn" => r.config \in Configs /\ Valid(r.config)

Shapes ==
  /\ config \in Configs /\ Valid(config)
  /\ now \in Nat /\ generation \in Nat /\ rewound \in Nat
  /\ tasks = [t \in Tasks |-> tasks[t]] /\ \A t \in Tasks : TaskShape(tasks[t])
  /\ sweeps = [n \in Generations |-> sweeps[n]] /\ \A n \in Generations : SweepShape(sweeps[n])
  /\ requests = [c \in Consoles |-> requests[c]] /\ \A c \in Consoles : RequestShape(requests[c])
  /\ cursor \in [Modes -> Nat]

GamesInv == /\ Shapes /\ NothingPassedOver
            /\ \A t \in Tasks : TaskInStep(tasks[t], catalogue, Known)

(* Second, the sweeps, while requests are answered one at a time: what is   *)
(* alive can be aborted, is of this generation until a stop moves it, and  *)
(* is counted.                                                             *)

Pending(S) == \E c \in Consoles : requests[c].at \in S
Working(n) == {i \in 1 .. Concurrency : Alive(<<n, i>>)}

OneSweepAlive ==
  /\ \A c, d \in Consoles : requests[c].at # "idle" /\ requests[d].at # "idle" => c = d
  /\ \A c \in Consoles : requests[c].at = "file" => requests[c].sweep = generation
  /\ \A t \in Tasks : Alive(t) =>
       /\ t \in held \/ Pending({"file"})
       /\ IF Pending({"abort"}) THEN t[1] < generation ELSE t[1] = generation
       /\ t[1] > rewound
       /\ phase # "stopped" /\ ~Pending({"spawn", "settle", "rewind"})
  /\ rewound <= generation
  /\ \A n \in Generations : Cardinality(Working(n)) <= sweeps[n].live

SweepsInv == Shapes /\ (~overlap => OneSweepAlive)

\* A sweep does not read as running for ever, whatever meets it.
SweepEnds == []<>(phase # "running")
=============================================================================
