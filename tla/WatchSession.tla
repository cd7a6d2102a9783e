---------------------------- MODULE WatchSession ----------------------------
(***************************************************************************)
(* One live collector (src/managed_watch.rs): it lists the games being     *)
(* played room by room, queues the ones that have left the list, fetches   *)
(* and ingests their records once they are written, and keeps its queue in *)
(* a file across restarts.  Beside it the registry the console shows       *)
(* (src/watch.rs).                                                         *)
(*                                                                         *)
(* Mahjong Soul and the topic are external.  A step is a stretch of the    *)
(* task between two awaits.  Times are ages: what matters of queued_at is  *)
(* how long ago it was, as far as GIVE_UP_SECS, so time is not bounded.    *)
(* Messages, metadata and the protobuf are left out.                       *)
(***************************************************************************)
EXTENDS Naturals, Sequences, SequencesExt, FiniteSets, Functions

CONSTANTS Games,      \* the games that may be played
          NoGame,
          Modes,      \* the rooms the collector lists, in order
          ModeOf,     \* the room of a game
          Settle,     \* SETTLE_SECS, in ticks
          GiveUpAge,  \* GIVE_UP_SECS, in ticks
          MaxRecent,  \* MAX_RECENT_RECORDS
          PbModule,   \* whether records are parsed by an installed module
          MaxFaults

ASSUME WatchAssumption ==
    /\ IsFiniteSet(Games) /\ NoGame \notin Games
    /\ ModeOf \in [Games -> Range(Modes)]
    /\ Settle \in Nat /\ GiveUpAge \in Nat /\ Settle <= GiveUpAge
    /\ MaxRecent \in Nat /\ PbModule \in BOOLEAN /\ MaxFaults \in Nat

VARIABLES
    world,       \* external: how far each game has come
    stored,      \* external: the games in the topic
    tracked,     \* watch_session: seen live in the last full round
    pending,     \* over, waiting for their record: the age of each
    disk,        \* state-<key>.json: [tracked, pending]
    discovered,  \* discovered/<key>/*.jsonl, as the games named in it
    registry,    \* WatchRegistry, least recently updated first
    pc,          \* where the collector's task is
    round,       \* its round: [left, seen, batch, late, game]
    gaveUp,      \* history: the games dropped from the queue unfetched
    unlogged,    \* history: those whose discovery could not be written
    faults

worldVars == <<world, stored>>
queueVars == <<tracked, pending>>
histVars  == <<gaveUp, unlogged>>
vars == <<worldVars, queueVars, disk, discovered, registry, pc, round, histVars, faults>>

Absent   == GiveUpAge + 2                  \* not in `pending`
Ages     == 0 .. GiveUpAge + 1
Older(q) == [g \in Games |-> IF q[g] \in 0 .. GiveUpAge THEN q[g] + 1 ELSE q[g]]
In(q)    == {g \in Games : q[g] # Absent}
Queue(f) == f.tracked \cup In(f.pending)   \* the games a state file knows of
NoRound  == [left |-> << >>, seen |-> {}, batch |-> {}, late |-> {}, game |-> NoGame]
NewRound == [NoRound EXCEPT !.left = Modes]
Empty    == [g \in Games |-> Absent]

Fault(n) == faults + n <= MaxFaults /\ faults' = faults + n
Orders(S) == {s \in [1 .. Cardinality(S) -> S] : IsInjective(s)}

------------------------------------------------------------------------------
(* WatchRegistry::apply. *)

Fresh(g) == [game |-> g, uuid |-> "live", conv |-> "waiting"]

Terminal(r) == r.uuid = "failed" \/ r.conv \in {"completed", "failed"}

\* What an event does to the entry of its game.
Moved(r, kind) ==
    CASE kind = "live"       -> [r EXCEPT !.uuid = "live", !.conv = "waiting"]
      [] kind = "pending"    -> [r EXCEPT !.uuid = "pending", !.conv = "waiting"]
      [] kind = "fetching"   -> [r EXCEPT !.uuid = "fetching"]
      [] kind = "converting" -> [r EXCEPT !.uuid = "fetched", !.conv = "converting"]
      [] kind = "completed"  -> [r EXCEPT !.uuid = "fetched", !.conv = "completed"]
      [] kind = "fetch_failed" -> [r EXCEPT !.uuid = "failed", !.conv = "waiting"]
      [] kind = "conversion_failed" -> [r EXCEPT !.uuid = "fetched", !.conv = "failed"]

\* Over the limit, the entry longest untouched of those that are finished goes.
Evict(reg) ==
    LET done == {i \in DOMAIN reg : Terminal(reg[i])}
    IN  IF done = {} THEN reg
        ELSE RemoveAt(reg, CHOOSE i \in done : \A j \in done : i <= j)

Apply(reg, g, kind) ==
    LET own  == {i \in DOMAIN reg : reg[i].game = g}
        old  == IF own = {} THEN Fresh(g) ELSE reg[CHOOSE i \in own : TRUE]
        next == Append(SelectSeq(reg, LAMBDA r : r.game # g), Moved(old, kind))
    IN  IF Len(next) > MaxRecent THEN Evict(next) ELSE next

ApplyAll(reg, games, kind) ==
    FoldLeft(LAMBDA acc, g : Apply(acc, g, kind), reg, games)

------------------------------------------------------------------------------
(* External: games are played, and their records written some time later,  *)
(* or never.                                                               *)

GameStarts(g)    == world[g] = "unborn" /\ world' = [world EXCEPT ![g] = "live"]
GameEnds(g)      == world[g] = "live" /\ world' = [world EXCEPT ![g] = "over"]
RecordWritten(g) == world[g] = "over" /\ world' = [world EXCEPT ![g] = "written"]

World ==
    /\ \E g \in Games : GameStarts(g) \/ GameEnds(g) \/ RecordWritten(g)
    /\ UNCHANGED <<stored, queueVars, disk, discovered, registry, pc, round, histVars, faults>>

Tick ==
    /\ pending' = Older(pending)
    /\ disk' = [disk EXCEPT !.pending = Older(@)]
    /\ <<pending', disk'>> # <<pending, disk>>
    /\ UNCHANGED <<worldVars, tracked, discovered, registry, pc, round, histVars, faults>>

------------------------------------------------------------------------------
(* The life of the task. *)

\* run: the queue is what the state file holds.
Start ==
    /\ pc = "down" /\ pc' = "login"
    /\ tracked' = disk.tracked /\ pending' = disk.pending
    /\ UNCHANGED <<worldVars, disk, discovered, registry, round, histVars, faults>>

\* connect succeeds.  Until it does the loop sleeps and tries again.
LogIn ==
    /\ pc = "login" /\ pc' = "list" /\ round' = NewRound
    /\ UNCHANGED <<worldVars, queueVars, disk, discovered, registry, histVars, faults>>

\* watch_session returned an error: the transport is closed and the loop logs
\* in again with the queue it has in memory.
EndSession == pc' = "login" /\ round' = NoRound

\* persist_state, and what follows it; the session ends when it fails.
Persist(t, q, next) ==
    \/ disk' = [tracked |-> t, pending |-> q] /\ next /\ Fault(0)
    \/ UNCHANGED disk /\ EndSession /\ Fault(1)

\* The task is aborted, at an await.
Abort ==
    /\ pc # "down" /\ pc' = "down" /\ Fault(1)
    /\ tracked' = {} /\ pending' = Empty /\ round' = NoRound
    /\ UNCHANGED <<worldVars, disk, discovered, registry, histVars>>

\* The process dies; the registry is only in its memory.
Crash ==
    /\ pc # "down" /\ pc' = "down" /\ Fault(1)
    /\ tracked' = {} /\ pending' = Empty /\ round' = NoRound
    /\ registry' = << >>
    /\ UNCHANGED <<worldVars, disk, discovered, histVars>>

------------------------------------------------------------------------------
(* One round of watch_session. *)

\* The games of one room the server answers with.
Listed(m) == {g \in Games : ModeOf[g] = m /\ world[g] = "live"}

NewlySeenTwice(games) == games \cap tracked

\* What append_discovered is called for.
NewlySeen(games) == games \ tracked

\* append_discovered: a line that cannot be written is let go.
AppendDiscovered(new, logged) ==
    IF logged THEN discovered' = discovered \cup new /\ UNCHANGED unlogged
    ELSE unlogged' = unlogged \cup (new \ discovered) /\ UNCHANGED discovered

\* fetch_live_list for the next room; an answer may miss a game.  A game is
\* noted in the discovery log when it is first seen, before anything else.
ListMode ==
    /\ pc = "list" /\ round.left # << >>
    /\ \E games \in SUBSET Listed(Head(round.left)), logged \in BOOLEAN :
        LET missed == IF games = Listed(Head(round.left)) THEN 0 ELSE 1
        IN  /\ \E order \in Orders(games) : registry' = ApplyAll(registry, order, "live")
            /\ AppendDiscovered(NewlySeen(games), logged)
            /\ Fault(missed + IF logged THEN 0 ELSE 1)
            /\ round' = [round EXCEPT !.left = Tail(@), !.seen = @ \cup games]
    /\ UNCHANGED <<worldVars, queueVars, disk, pc, gaveUp>>

\* A listing that fails, whatever the reason, ends the session, and what the
\* round had seen of the other rooms goes with it.
ListFails ==
    /\ pc = "list" /\ round.left # << >> /\ Fault(1)
    /\ EndSession
    /\ UNCHANGED <<worldVars, queueVars, disk, discovered, registry, histVars>>

QueuedIfKnown(games) == [g \in Games |-> IF g \in games /\ pending[g] # Absent THEN 0 ELSE pending[g]]

\* Games that have left the list are queued, once.
Queued(games) == [g \in Games |-> IF g \in games /\ pending[g] = Absent THEN 0 ELSE pending[g]]

\* Every room is listed: games no longer live are queued, the queue is written,
\* and the round takes those that have settled, with the age they have now.
QueueEnded ==
    /\ pc = "list" /\ round.left = << >>
    /\ LET over == tracked \ round.seen
           q    == Queued(over)
       IN  /\ \E order \in Orders(over) : registry' = ApplyAll(registry, order, "pending")
           /\ tracked' = round.seen /\ pending' = q
           /\ Persist(tracked', q,
                      /\ pc' = "batch"
                      /\ round' = [NoRound EXCEPT
                              !.batch = {g \in In(q) : q[g] >= Settle},
                              !.late = {g \in In(q) : q[g] > GiveUpAge}])
    /\ UNCHANGED <<worldVars, discovered, histVars>>

BeginFetch ==
    /\ pc = "batch"
    /\ \E g \in round.batch :
        /\ pc' = "fetch" /\ round' = [round EXCEPT !.game = g]
        /\ registry' = Apply(registry, g, "fetching")
    /\ UNCHANGED <<worldVars, queueVars, disk, discovered, histVars, faults>>

NextInBatch == pc' = "batch" /\ round' = [round EXCEPT !.batch = @ \ {round.game}, !.game = NoGame]

\* The record came; its conversion follows at once and the ingest is begun.
FetchOk ==
    /\ pc = "fetch" /\ world[round.game] = "written"
    /\ pc' = "ingest"
    /\ registry' = Apply(registry, round.game, "converting")
    /\ UNCHANGED <<worldVars, queueVars, disk, discovered, round, histVars, faults>>

DroppedNever(g) == pending

\* The entry is dropped when it has been failing for too long.
Dropped(g) == IF g \in round.late THEN [pending EXCEPT ![g] = Absent] ELSE pending
NoteGiveUp == gaveUp' = gaveUp \cup (In(pending) \ In(pending'))

\* The server refuses: a code of its own, which is about this one record.
\* Through a module the code is lost and the error ends the session.
FetchRefused ==
    /\ pc = "fetch" /\ world[round.game] # "written"
    /\ registry' = Apply(registry, round.game, "fetch_failed")
    /\ IF PbModule
       THEN EndSession /\ Fault(0) /\ UNCHANGED <<pending, disk, gaveUp>>
       ELSE /\ pending' = Dropped(round.game) /\ NoteGiveUp
            /\ IF round.game \in round.late
               THEN Persist(tracked, pending', NextInBatch)
               ELSE NextInBatch /\ Fault(0) /\ UNCHANGED disk
    /\ UNCHANGED <<worldVars, tracked, discovered, unlogged>>

\* The connection or the login is gone, and the session with it.
FetchBroken ==
    /\ pc = "fetch" /\ Fault(1)
    /\ registry' = Apply(registry, round.game, "fetch_failed")
    /\ EndSession
    /\ UNCHANGED <<worldVars, queueVars, disk, discovered, histVars>>

\* ingest: the claim and produce of IngestClaims; a game stored already is
\* answered with the record it has.
Ingested == stored \cup {round.game}

IngestOk ==
    /\ pc = "ingest"
    /\ stored' = Ingested
    /\ registry' = Apply(registry, round.game, "completed")
    /\ pending' = [pending EXCEPT ![round.game] = Absent]
    /\ Persist(tracked, pending', NextInBatch)
    /\ UNCHANGED <<world, tracked, discovered, histVars>>

\* The conversion or the ingest fails; the record may have been produced.
IngestFails ==
    /\ pc = "ingest"
    /\ stored' \in {stored, Ingested}
    /\ registry' = Apply(registry, round.game, "conversion_failed")
    /\ pending' = Dropped(round.game) /\ NoteGiveUp
    /\ \/ /\ disk' = [tracked |-> tracked, pending |-> pending'] /\ NextInBatch /\ Fault(1)
       \/ /\ UNCHANGED disk /\ EndSession /\ Fault(2)
    /\ UNCHANGED <<world, tracked, discovered, unlogged>>

\* The batch is through: re-fetch requests are served until the round is over.
Serve ==
    /\ pc = "batch" /\ round.batch = {}
    /\ pc' = "list" /\ round' = NewRound
    /\ UNCHANGED <<worldVars, queueVars, disk, discovered, registry, histVars, faults>>

ServeBroken ==
    /\ pc = "batch" /\ round.batch = {} /\ Fault(1)
    /\ EndSession
    /\ UNCHANGED <<worldVars, queueVars, disk, discovered, registry, histVars>>

------------------------------------------------------------------------------
Init ==
    /\ world = [g \in Games |-> "unborn"] /\ stored = {}
    /\ tracked = {} /\ pending = Empty
    /\ disk = [tracked |-> {}, pending |-> Empty]
    /\ discovered = {} /\ registry = << >>
    /\ pc = "login" /\ round = NoRound
    /\ gaveUp = {} /\ unlogged = {} /\ faults = 0

TaskStep == Start \/ LogIn \/ ListMode \/ QueueEnded \/ BeginFetch \/ FetchOk
            \/ FetchRefused \/ IngestOk \/ Serve
Broken == Abort \/ Crash \/ ListFails \/ FetchBroken \/ IngestFails \/ ServeBroken

Next == World \/ Tick \/ TaskStep \/ Broken

Spec == Init /\ [][Next]_vars

\* The task is polled, time passes, and games end.  That a game begins, that
\* its record is ever written, and that nothing breaks, is not assumed.
FairSpec ==
    /\ Spec
    /\ WF_vars(TaskStep)
    /\ WF_vars(Tick)
    /\ \A g \in Games : WF_vars(GameEnds(g) /\ World)

------------------------------------------------------------------------------
(* Properties. *)

\* Every variable keeps its shape, and the registry holds one entry a game.
TypeOK ==
    /\ world \in [Games -> {"unborn", "live", "over", "written"}]
    /\ stored \subseteq Games /\ tracked \subseteq Games
    /\ pending \in [Games -> Ages \cup {Absent}]
    /\ disk.tracked \subseteq Games /\ disk.pending \in [Games -> Ages \cup {Absent}]
    /\ round.batch \subseteq In(pending)
    /\ \A i, j \in DOMAIN registry : registry[i].game = registry[j].game => i = j

\* A game that has reached the state file leaves it only into the topic or
\* given up after GIVE_UP_SECS, whatever breaks in between: a listing, a
\* fetch, a write of the file, the task or the process.
QueueLosesNothing ==
    [][\A g \in Queue(disk) : g \in Queue(disk') \cup stored' \cup gaveUp']_vars

\* A game dropped unfetched can be found again: it is in the discovery log,
\* unless that line could not be written.
GivenUpIsOnRecord == gaveUp \subseteq discovered \cup unlogged

\* The registry over its limit forgets finished games only: one that is being
\* played or waits stays on the console, whatever is noted of another.
RegistryKeepsOpenGames ==
    [][\A i \in DOMAIN registry :
            ~Terminal(registry[i]) /\ registry[i].game # round.game /\ registry' # << >>
                => \E j \in DOMAIN registry' : registry'[j].game = registry[i].game]_vars

\* Every game that reaches the state file is stored or given up in the end.
EveryGameSettles ==
    \A g \in Games : g \in Queue(disk) ~> g \in stored \cup gaveUp

------------------------------------------------------------------------------
(* Why QueueLosesNothing and GivenUpIsOnRecord hold after the next step too. *)

\* The round is always a whole record, and what it and the queue name are games.
WatchTyped ==
    /\ tracked \subseteq Games /\ pending \in [Games -> Nat]
    /\ disk \in [tracked : SUBSET Games, pending : [Games -> Nat]]
    /\ round = [left |-> round.left, seen |-> round.seen, batch |-> round.batch,
                late |-> round.late, game |-> round.game]
    /\ round.seen \subseteq Games

\* A running task holds every game of the state file that is not settled, so
\* the file it writes next drops none.
QueueHeld == pc # "down" =>
    Queue(disk) \subseteq tracked \cup In(pending) \cup stored \cup gaveUp

\* Every game the task, the round or the state file knows was noted when it was
\* first seen, or the note was lost.
SeenIsOnRecord ==
    tracked \cup In(pending) \cup Queue(disk) \cup round.seen \cup gaveUp
        \subseteq discovered \cup unlogged

WatchInv == WatchTyped /\ QueueHeld /\ SeenIsOnRecord
=============================================================================
