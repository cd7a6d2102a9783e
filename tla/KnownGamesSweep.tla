-------------------------- MODULE KnownGamesSweep --------------------------
(***************************************************************************)
(* The sweep over the catalogue of known games (src/refetch_service.rs,    *)
(* walk, one_known_games_pass, one_game, PendingPages, WalkTally) with the *)
(* counter it leaves its requests on (src/refetch.rs, RefetchBroker) and   *)
(* the sessions that serve them (refetch_service serve, managed_watch      *)
(* serve_refetches).                                                       *)
(*                                                                         *)
(* Games are numbered in catalogue order and the cursor is the last game   *)
(* walked past, 0 when there is none.  What has been stored is the claim   *)
(* table's answer; IngestClaims says what that answer is worth.  A request *)
(* whose waiter is gone is dropped by the session that meets it and is not *)
(* modelled; pacing and the packing gate only delay.                       *)
(***************************************************************************)
EXTENDS Integers, Sequences, FiniteSets

CONSTANTS NumGames, PageSize, InFlight,
          Pool,          \* sessions of the sweep's own accounts
          Collectors,    \* live collectors lending their spare time
          MaxStumbles, MaxPasses,
          Faults, MaxFaults, MaxRuns

ASSUME SweepAssumption ==
    /\ NumGames \in Nat /\ PageSize \in Nat \ {0} /\ InFlight \in Nat \ {0}
    /\ MaxStumbles \in Nat \ {0} /\ MaxPasses \in Nat \ {0}
    /\ Pool \cap Collectors = {}
    /\ MaxFaults \in Nat /\ MaxRuns \in Nat

Games    == 1 .. NumGames
Sessions == Pool \cup Collectors

VARIABLES
    cursor,    \* refetch_cursor in PostgreSQL
    stored,    \* games with a claim
    verdict,   \* how each game's last request of this lap ended
    walk,      \* where the walk is
    reading,   \* reading_from
    pages,     \* PendingPages::pages: [position, outstanding, unserved]
    done,      \* PendingPages::done
    queued,    \* [page, game] not yet spawned
    listed, unserved, replaced,   \* of this pass
    passes, stumbles,             \* WalkTally
    task,      \* where each spawned game is, "none" if it is not spawned
    pageOf,    \* the page number it is tagged with
    detached,  \* ingests whose walk is gone
    up,        \* sessions logged in
    serving,   \* the game whose live request a session holds, 0 for none
    runs, faults

passVars == <<reading, pages, done, queued, listed, unserved, replaced>>
walkVars == <<walk, passVars, passes, stumbles>>
taskVars == <<task, pageOf, detached>>
sessionVars == <<up, serving>>
storeVars == <<cursor, stored, verdict>>
vars == <<storeVars, walkVars, taskVars, sessionVars, runs, faults>>

Outcomes == {"Replaced", "Duplicate", "Refused", "Unserved", "Unconvertible", "Error"}
Waiting  == {"waiting", "serving"}
Fetching == {g \in Games : task[g] # "none"}
Running  == walk \in {"read", "commit", "join"}

Fault(kind) == kind \in Faults /\ faults < MaxFaults /\ faults' = faults + 1

Init ==
    /\ cursor = 0 /\ stored = {} /\ verdict = [g \in Games |-> "none"]
    /\ walk = "stopped" /\ reading = 0 /\ pages = <<>> /\ done = 0
    /\ queued = <<>> /\ listed = FALSE /\ unserved = FALSE /\ replaced = FALSE
    /\ passes = 0 /\ stumbles = 0
    /\ task = [g \in Games |-> "none"] /\ pageOf = [g \in Games |-> 0]
    /\ detached = {}
    /\ up = {} /\ serving = [s \in Sessions |-> 0]
    /\ runs = 0 /\ faults = 0

-----------------------------------------------------------------------------
(* Starting and ending a walk.                                             *)

\* A pass starts where the cursor says, with nothing read and nothing out.
BeginPass ==
    /\ walk' = "read" /\ reading' = cursor
    /\ UNCHANGED <<pages, done, queued, listed, unserved, replaced>>

\* The locals of a pass go with it.
DropPass ==
    /\ reading' = 0 /\ pages' = <<>> /\ done' = 0 /\ queued' = <<>>
    /\ listed' = FALSE /\ unserved' = FALSE /\ replaced' = FALSE
    /\ pageOf' = [g \in Games |-> 0]

Start ==
    /\ walk = "stopped" /\ runs < MaxRuns
    /\ runs' = runs + 1
    /\ BeginPass
    /\ UNCHANGED <<storeVars, passes, stumbles, taskVars, sessionVars, faults>>

NextPass ==
    /\ walk = "settle"
    /\ BeginPass
    /\ UNCHANGED <<storeVars, passes, stumbles, taskVars, sessionVars, runs, faults>>

\* The JoinSet is dropped with the walk; an ingest under way is a task of its
\* own and finishes.  The pool's sessions end with the walk.
EndWalk ==
    /\ walk' = "stopped" /\ passes' = 0 /\ stumbles' = 0
    /\ task' = [g \in Games |-> "none"]
    /\ detached' = detached \cup {g \in Games : task[g] = "ingest"}
    /\ up' = up \ Pool
    /\ serving' = [s \in Sessions |-> 0]

\* The console's stop, a changed configuration, a query that fails.
Stop ==
    /\ walk # "stopped" /\ Fault("stop")
    /\ EndWalk /\ DropPass
    /\ UNCHANGED <<storeVars, runs>>

Crash ==
    /\ walk # "stopped" /\ Fault("crash")
    /\ walk' = "stopped" /\ passes' = 0 /\ stumbles' = 0
    /\ task' = [g \in Games |-> "none"] /\ detached' = {}
    /\ up' = {} /\ serving' = [s \in Sessions |-> 0]
    /\ DropPass
    /\ UNCHANGED <<storeVars, runs>>

-----------------------------------------------------------------------------
(* One turn of the pass: read ahead, commit what finished, feed, join.     *)

\* The k-th lowest number of a set.
Lowest(S, k) == CHOOSE s \in S : Cardinality({t \in S : t < s}) = k - 1

\* Read the next page and tag the games of it that have no claim.
ReadPage ==
    LET last   == IF reading + PageSize > NumGames THEN NumGames ELSE reading + PageSize
        wanted == {g \in reading + 1 .. last : g \notin stored}
        size   == Cardinality(wanted)
        number == done + Len(pages)
    IN  IF reading = NumGames
        THEN listed' = TRUE /\ UNCHANGED <<pages, queued, reading>>
        ELSE /\ pages' = Append(pages, [position |-> last, outstanding |-> size,
                                        unserved |-> FALSE])
             /\ queued' = queued \o [k \in 1 .. size |->
                                        [page |-> number, game |-> Lowest(wanted, k)]]
             /\ reading' = last
             /\ UNCHANGED listed

Read ==
    /\ walk = "read"
    /\ IF ~listed /\ ~unserved /\ Len(queued) < InFlight
       THEN ReadPage
       ELSE UNCHANGED <<pages, queued, reading, listed>>
    /\ walk' = "commit"
    /\ UNCHANGED <<storeVars, done, unserved, replaced, passes, stumbles,
                   taskVars, sessionVars, runs, faults>>

\* Mutant of Finished: a page is passed with a game nobody served.
FinishedUnserved(page) == page.outstanding = 0

Finished(page) == page.outstanding = 0 /\ ~page.unserved

\* How many pages at the front are finished.
Prefix == CHOOSE n \in 0 .. Len(pages) :
              /\ \A i \in 1 .. n : Finished(pages[i])
              /\ n < Len(pages) => ~Finished(pages[n + 1])

\* Spawn requests up to the limit.
Feed ==
    LET room  == InFlight - Cardinality(Fetching)
        n     == IF room < Len(queued) THEN room ELSE Len(queued)
        taken == {queued[i] : i \in 1 .. n}
    IN  /\ queued' = SubSeq(queued, n + 1, Len(queued))
        /\ task' = [g \in Games |-> IF \E q \in taken : q.game = g
                                    THEN "waiting" ELSE task[g]]
        /\ pageOf' = [g \in Games |-> IF \E q \in taken : q.game = g
                                      THEN (CHOOSE q \in taken : q.game = g).page
                                      ELSE pageOf[g]]

\* A cursor that cannot be written is reported and the walk goes on.
Commit ==
    /\ walk = "commit"
    /\ pages' = SubSeq(pages, Prefix + 1, Len(pages))
    /\ done' = done + Prefix
    /\ \/ /\ cursor' = IF Prefix = 0 THEN cursor ELSE pages[Prefix].position
          /\ UNCHANGED faults
       \/ Prefix > 0 /\ UNCHANGED cursor /\ Fault("cursor")
    /\ Feed
    /\ walk' = "join"
    /\ UNCHANGED <<stored, verdict, reading, listed, unserved, replaced, passes,
                   stumbles, detached, sessionVars, runs>>

\* PendingPages::answered.
Answered(number, nobody) ==
    pages' = [pages EXCEPT ![number - done + 1].outstanding = @ - 1,
                           ![number - done + 1].unserved = @ \/ nobody]

\* One game comes back.  An error costs that game and is booked as answered;
\* a game nobody served stops the feeding.
Join(g) ==
    /\ walk = "join" /\ task[g] \in Outcomes
    /\ task' = [task EXCEPT ![g] = "none"] /\ pageOf' = [pageOf EXCEPT ![g] = 0]
    /\ Answered(pageOf[g], task[g] = "Unserved")
    /\ replaced' = (replaced \/ task[g] = "Replaced")
    /\ unserved' = (unserved \/ task[g] = "Unserved")
    /\ queued' = IF task[g] = "Unserved" THEN <<>> ELSE queued
    /\ walk' = "read"
    /\ UNCHANGED <<storeVars, reading, done, listed, passes, stumbles, detached,
                   sessionVars, runs, faults>>

JoinNothing ==
    /\ walk = "join" /\ Fetching = {}
    /\ ~(queued = <<>> /\ (listed \/ unserved))
    /\ walk' = "read"
    /\ UNCHANGED <<storeVars, passVars, passes, stumbles, taskVars, sessionVars,
                   runs, faults>>

PassOver == walk = "join" /\ Fetching = {} /\ queued = <<>>

\* The pass stopped short of a page nobody answered.
Interrupted ==
    /\ PassOver /\ unserved
    /\ LET behind == IF replaced THEN 0 ELSE stumbles + 1
       IN  IF behind >= MaxStumbles
           THEN EndWalk                                        \* Stalled
           ELSE /\ walk' = "settle" /\ stumbles' = behind
                /\ UNCHANGED <<passes, task, detached, sessionVars>>
    /\ DropPass
    /\ UNCHANGED <<storeVars, runs, faults>>

\* Mutant of SawTheEnd: reading the last page is enough.
SawTheEndOfList == PassOver /\ listed

SawTheEnd == PassOver /\ listed /\ ~unserved

\* Done, or Exhausted.
WalkEnds(laps) == ~replaced \/ laps >= MaxPasses

\* The pass read the list to its end: the cursor goes back to the beginning
\* and a new lap starts.
Completed ==
    /\ SawTheEnd
    /\ cursor' = 0 /\ verdict' = [g \in Games |-> "none"]
    /\ IF WalkEnds(passes + 1)
       THEN EndWalk
       ELSE /\ walk' = "settle" /\ passes' = passes + 1 /\ stumbles' = 0
            /\ UNCHANGED <<task, detached, sessionVars>>
    /\ DropPass
    /\ UNCHANGED <<stored, runs, faults>>

-----------------------------------------------------------------------------
(* One game: ask, convert, store.                                          *)

\* The request of game g ends with this outcome, and any session holding it
\* holds a closed channel from now on.
Ends(g, outcome, why) ==
    /\ task' = [task EXCEPT ![g] = outcome]
    /\ verdict' = [verdict EXCEPT ![g] = why]
    /\ serving' = [s \in Sessions |-> IF serving[s] = g THEN 0 ELSE serving[s]]

Claim(s, g) ==
    /\ s \in up /\ serving[s] = 0 /\ task[g] = "waiting"
    /\ task' = [task EXCEPT ![g] = "serving"]
    /\ serving' = [serving EXCEPT ![s] = g]
    /\ UNCHANGED <<storeVars, walkVars, pageOf, detached, up, runs, faults>>

\* Mahjong Soul gives the game: it is converted, and stored next.
Fetched(s, g) ==
    /\ serving[s] = g /\ task[g] = "serving"
    /\ \/ /\ task' = [task EXCEPT ![g] = "ingest"]
          /\ serving' = [serving EXCEPT ![s] = 0]
          /\ UNCHANGED verdict
       \/ Ends(g, "Unconvertible", "unconvertible")
    /\ UNCHANGED <<cursor, stored, walkVars, pageOf, detached, up, runs, faults>>

\* Mahjong Soul answers that the game is not to be had.
Refused(s, g) ==
    /\ serving[s] = g /\ task[g] = "serving"
    /\ Ends(g, "Refused", "refused")
    /\ UNCHANGED <<cursor, stored, walkVars, pageOf, detached, up, runs, faults>>

\* The connection fails under the request: the waiter is told Refused before
\* the session is torn down.
TransportFails(s, g) ==
    /\ serving[s] = g /\ task[g] = "serving" /\ Fault("transport")
    /\ Ends(g, "Refused", "transport")
    /\ up' = up \ {s}
    /\ UNCHANGED <<cursor, stored, walkVars, pageOf, detached, runs>>

\* Nobody answered in time, or the session that held the request went away.
\* With no session of the pool logged in the request fails the game.
GiveUp(g, left) ==
    IF left \cap Pool = {} THEN Ends(g, "Error", "nobody")
                           ELSE Ends(g, "Unserved", "unserved")

\* Mutant of Timeout: only a request some session holds can time out.
TimeoutHeld(g) ==
    /\ task[g] = "serving"
    /\ GiveUp(g, up)
    /\ UNCHANGED <<cursor, stored, walkVars, pageOf, detached, up, runs, faults>>

Timeout(g) ==
    /\ task[g] \in Waiting
    /\ GiveUp(g, up)
    /\ UNCHANGED <<cursor, stored, walkVars, pageOf, detached, up, runs, faults>>

Ingest(g) ==
    /\ task[g] = "ingest"
    /\ task' = [task EXCEPT ![g] = IF g \in stored THEN "Duplicate" ELSE "Replaced"]
    /\ stored' = stored \cup {g}
    /\ UNCHANGED <<cursor, verdict, walkVars, pageOf, detached, sessionVars, runs, faults>>

IngestFails(g) ==
    /\ task[g] = "ingest" /\ Fault("ingest")
    /\ Ends(g, "Error", "failed")
    /\ UNCHANGED <<cursor, stored, walkVars, pageOf, detached, up, runs>>

DetachedIngest(g) ==
    /\ g \in detached
    /\ detached' = detached \ {g}
    /\ stored' = stored \cup {g}
    /\ UNCHANGED <<cursor, verdict, walkVars, task, pageOf, sessionVars, runs, faults>>

-----------------------------------------------------------------------------
(* The rest of the deployment.                                             *)

Login(s) ==
    /\ s \notin up
    /\ s \in Pool => walk # "stopped"
    /\ up' = up \cup {s}
    /\ UNCHANGED <<storeVars, walkVars, taskVars, serving, runs, faults>>

\* An idle session drops, or a collector goes away with the request it holds.
Logout(s) ==
    /\ s \in up /\ Fault("logout")
    /\ up' = up \ {s}
    /\ IF serving[s] = 0
       THEN UNCHANGED <<verdict, task, serving>>
       ELSE s \in Collectors /\ GiveUp(serving[s], up')
    /\ UNCHANGED <<cursor, stored, walkVars, pageOf, detached, runs>>

\* The live collector or an import stores the game.
StoredElsewhere(g) ==
    /\ g \notin stored /\ Fault("elsewhere")
    /\ stored' = stored \cup {g}
    /\ UNCHANGED <<cursor, verdict, walkVars, taskVars, sessionVars, runs>>

-----------------------------------------------------------------------------
WalkStep == \/ Start \/ NextPass \/ Read \/ Commit \/ JoinNothing \/ Interrupted
            \/ Completed \/ \E g \in Games : Join(g)

TaskStep(g) == \/ Timeout(g) \/ Ingest(g) \/ IngestFails(g) \/ DetachedIngest(g)
               \/ \E s \in Sessions : \/ Claim(s, g) \/ Fetched(s, g)
                                      \/ Refused(s, g) \/ TransportFails(s, g)

Next == \/ WalkStep \/ Stop \/ Crash
        \/ \E g \in Games : TaskStep(g) \/ StoredElsewhere(g)
        \/ \E s \in Sessions : Login(s) \/ Logout(s)

Spec == Init /\ [][Next]_vars

\* Tasks are scheduled and every request is answered or times out.
FairSpec == /\ Spec /\ WF_vars(WalkStep)
            /\ WF_vars(\E g \in Games : TaskStep(g))

-----------------------------------------------------------------------------
(* What the sweep promises.                                                *)

TypeOK ==
    /\ cursor \in 0 .. NumGames /\ reading \in 0 .. NumGames /\ stored \subseteq Games
    /\ verdict \in [Games -> {"none", "refused", "unconvertible", "transport",
                              "unserved", "nobody", "failed"}]
    /\ walk \in {"stopped", "read", "commit", "join", "settle"}
    /\ pages \in Seq([position : Games, outstanding : 0 .. PageSize,
                      unserved : BOOLEAN])
    /\ done \in Nat /\ queued \in Seq([page : Nat, game : Games])
    /\ {listed, unserved, replaced} \subseteq BOOLEAN
    /\ passes \in 0 .. MaxPasses /\ stumbles \in 0 .. MaxStumbles
    /\ task \in [Games -> Outcomes \cup {"none", "waiting", "serving", "ingest"}]
    /\ pageOf \in [Games -> Nat] /\ detached \subseteq Games
    /\ up \subseteq Sessions /\ serving \in [Sessions -> 0 .. NumGames]
    /\ runs \in 0 .. MaxRuns /\ faults \in 0 .. MaxFaults

\* The game's request of this lap came back with something.
Booked(g) == g \in stored \/ verdict[g] \notin {"none", "unserved"}

\* The cursor only ever moves to the end of the finished prefix: behind it
\* every game is stored or was booked in this lap, and none is in flight,
\* queued or unserved, in whatever order the sessions answer, across stops,
\* crashes and cursor writes that fail.  A game passed over leaves no trace.
PrefixIsFinished ==
    /\ \A g \in Games : g <= cursor => Booked(g)
    /\ Running => \A g \in Fetching : g > cursor

(* Why that holds, and holds after the next step.  Pages go by their        *)
(* numbers, which do not move when the front ones are dropped.              *)

Numbers == done .. done + Len(pages) - 1
At(n) == pages[n - done + 1]

\* Game g is one of the games of page n.
On(g, n) == g <= At(n).position /\ \A m \in done .. n - 1 : At(m).position < g

\* The games of page n that are queued or in flight, and whether the page can
\* never finish: nobody served one of its games, or one of them was dropped.
OutOf(n) == {g \in Games : \/ task[g] # "none" /\ pageOf[g] = n
                           \/ \E i \in DOMAIN queued : queued[i] = [page |-> n, game |-> g]}
Stuck(n) == At(n).unserved \/ Cardinality(OutOf(n)) < At(n).outstanding

SweepTyped ==
    /\ cursor \in 0 .. NumGames /\ reading \in 0 .. NumGames
    /\ verdict \in [Games -> {"none", "refused", "unconvertible", "transport",
                              "unserved", "nobody", "failed"}]
    /\ pages \in Seq([position : Games, outstanding : Nat, unserved : BOOLEAN])
    /\ done \in Nat /\ queued \in Seq([page : Nat, game : Games])
    /\ listed \in BOOLEAN /\ unserved \in BOOLEAN
    /\ task \in [Games -> Outcomes \cup {"none", "waiting", "serving", "ingest"}]
    /\ pageOf \in [Games -> Nat] /\ serving \in [Sessions -> 0 .. NumGames]

\* Nothing is out between two passes, and a session that holds a request is
\* the only one to hold it.
IdleIsEmpty == ~Running => /\ Fetching = {} /\ pages = <<>> /\ queued = <<>>
                           /\ ~unserved /\ ~listed /\ reading = 0
HeldOnce ==
    /\ \A s \in Sessions : serving[s] # 0 => task[serving[s]] = "serving"
    /\ \A s, t \in Sessions : serving[s] # 0 /\ serving[s] = serving[t] => s = t

\* Pages are read in order; what is out is out once, of a page that is not
\* committed, and in no larger number than the page counts.
PagesInOrder ==
    /\ Running => cursor <= reading
    /\ \A n \in Numbers : At(n).position <= reading
    /\ \A m, n \in Numbers : m < n => At(m).position < At(n).position
    /\ listed => reading = NumGames
OutOnce ==
    /\ Cardinality(Fetching) <= InFlight
    /\ \A i, j \in DOMAIN queued : queued[i].game = queued[j].game => i = j
    /\ \A i \in DOMAIN queued : task[queued[i].game] = "none"
OutIsAhead ==
    /\ \A i \in DOMAIN queued : \E n \in Numbers, g \in Games :
          queued[i] = [page |-> n, game |-> g] /\ On(g, n) /\ cursor < g
    /\ \A g \in Fetching : \E n \in Numbers : pageOf[g] = n /\ On(g, n) /\ cursor < g
OutIsCounted ==
    /\ \A n \in Numbers : Cardinality(OutOf(n)) <= At(n).outstanding
    /\ ~unserved => \A n \in Numbers : ~Stuck(n)

\* A game that was read is booked, out, or on a page that will not finish.
ReadIsAccountedFor ==
    /\ \A g \in Games : task[g] \in Outcomes \ {"Unserved"} => Booked(g)
    /\ \A g \in 1 .. reading :
         Booked(g) \/ \E n \in Numbers : On(g, n) /\ (g \in OutOf(n) \/ Stuck(n))

SweepInv == /\ SweepTyped /\ PrefixIsFinished /\ IdleIsEmpty /\ HeldOnce
            /\ PagesInOrder /\ OutOnce /\ OutIsAhead /\ OutIsCounted /\ ReadIsAccountedFor

\* A game in flight finds its page: no page commits while a game of it is
\* still out (the debug_assert in PendingPages::answered).
CompletionFindsItsPage ==
    Running => \A g \in Fetching :
        LET slot == pageOf[g] - done + 1
        IN  /\ slot \in 1 .. Len(pages)
            /\ pages[slot].outstanding >=
                   Cardinality({h \in Fetching : pageOf[h] = pageOf[g]})

\* A pass that says it has seen the whole list has: only then does nothing
\* moved mean that there is nothing left to move.
CompletedSawEverything == [][Completed => \A g \in Games : Booked(g)]_vars

\* Every pass ends: no request, however its session dies, parks the walk.
EveryPassEnds == []<>~Running

\* The cursor never passes a game nobody answered (PageCommit::unserved).
NeverPassesUnserved == \A g \in Games : g <= cursor => (g \in stored \/ verdict[g] # "nobody")
=============================================================================
