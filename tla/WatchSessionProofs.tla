------------------------- MODULE WatchSessionProofs -------------------------
(***************************************************************************)
(* Proofs about the queue of a live collector, for any games, rooms, ages  *)
(* and number of faults.                                                   *)
(***************************************************************************)
EXTENDS WatchSession, TLAPS

\* What WatchInv is about.
invVars == <<stored, tracked, pending, disk, discovered, pc, round, gaveUp, unlogged>>

\* What QueueLosesNothing says of a step.
Kept == \A g \in Queue(disk) : g \in Queue(disk') \cup stored' \cup gaveUp'

LEMMA WatchInitially == Init => WatchInv
BY WatchAssumption DEF Init, WatchInv, WatchTyped, QueueHeld, SeenIsOnRecord, Queue, In, Empty,
   Absent, NoRound

\* Growing older leaves every game in the queue.
LEMMA OlderKeeps ==
  ASSUME NEW q \in [Games -> Nat]
  PROVE  Older(q) \in [Games -> Nat] /\ In(Older(q)) = In(q)
BY WatchAssumption DEF Older, In, Absent

\* A session that ends keeps the queue and forgets its round.
LEMMA SessionEnded ==
  ASSUME WatchInv, EndSession, pc # "down",
         UNCHANGED <<stored, tracked, pending, disk, discovered, gaveUp, unlogged>>
  PROVE  WatchInv'
BY DEF WatchInv, WatchTyped, QueueHeld, SeenIsOnRecord, EndSession, NoRound, Queue, In

LEMMA Unmoved == ASSUME WatchInv, UNCHANGED invVars PROVE WatchInv'
BY DEF invVars, WatchInv, WatchTyped, QueueHeld, SeenIsOnRecord, Queue, In

LEMMA TickStep == ASSUME WatchInv, Tick PROVE WatchInv' /\ Kept
<1>1. /\ pending' \in [Games -> Nat] /\ In(pending') = In(pending)
      /\ Older(disk.pending) \in [Games -> Nat] /\ In(Older(disk.pending)) = In(disk.pending)
  BY OlderKeeps DEF Tick, WatchInv, WatchTyped
<1>2. disk' = [tracked |-> disk.tracked, pending |-> Older(disk.pending)]
  BY DEF Tick, WatchInv, WatchTyped
<1>3. Queue(disk') = Queue(disk)
  BY <1>1, <1>2 DEF Queue
<1> QED
  BY <1>1, <1>2, <1>3
     DEF Kept, Tick, worldVars, histVars, WatchInv, WatchTyped, QueueHeld, SeenIsOnRecord

\* A task that ends without writing its file, and one that reads it.
LEMMA LifeStep ==
  ASSUME WatchInv, Start \/ LogIn \/ Abort \/ Crash
  PROVE  WatchInv'
<1>1. CASE Start
  BY <1>1 DEF Start, worldVars, histVars, WatchInv, WatchTyped, QueueHeld, SeenIsOnRecord, Queue
<1>2. CASE LogIn
  BY <1>2 DEF LogIn, worldVars, queueVars, histVars, NewRound, NoRound, WatchInv, WatchTyped,
              QueueHeld, SeenIsOnRecord, Queue, In
<1>3. CASE Abort \/ Crash
  BY <1>3, WatchAssumption
     DEF Abort, Crash, worldVars, histVars, NoRound, Empty, Absent, In, WatchInv, WatchTyped,
         QueueHeld, SeenIsOnRecord, Queue
<1> QED BY <1>1, <1>2, <1>3

LEMMA ListStep ==
  ASSUME WatchInv, ListMode
  PROVE  WatchInv'
<1>1. PICK games \in SUBSET Listed(Head(round.left)), logged \in BOOLEAN :
         /\ AppendDiscovered(NewlySeen(games), logged)
         /\ round' = [round EXCEPT !.left = Tail(@), !.seen = @ \cup games]
  BY DEF ListMode
<1>2. games \subseteq Games
  BY DEF Listed
<1>3. round' = [left |-> Tail(round.left), seen |-> round.seen \cup games,
                batch |-> round.batch, late |-> round.late, game |-> round.game]
  BY <1>1 DEF WatchInv, WatchTyped
<1>4. /\ discovered \cup unlogged \subseteq (discovered \cup unlogged)'
      /\ games \subseteq tracked \cup (discovered \cup unlogged)'
  BY <1>1 DEF AppendDiscovered, NewlySeen
<1> QED
  BY <1>2, <1>3, <1>4
     DEF ListMode, worldVars, queueVars, WatchInv, WatchTyped, QueueHeld, SeenIsOnRecord,
         Queue, In

\* persist_state: a queue that holds, or has settled, what the file names may
\* be written over it; when the write fails the session ends with it.
LEMMA PersistStep ==
  ASSUME WatchInv, pc # "down",
         tracked' \subseteq Games, pending' \in [Games -> Nat],
         tracked' \cup In(pending') \subseteq discovered \cup unlogged,
         tracked \cup In(pending) \cup stored \cup gaveUp
           \subseteq tracked' \cup In(pending') \cup stored' \cup gaveUp',
         gaveUp' \subseteq discovered \cup unlogged,
         UNCHANGED <<discovered, unlogged>>,
         \/ /\ disk' = [tracked |-> tracked', pending |-> pending'] /\ pc' # "down"
            /\ round' = [left |-> round'.left, seen |-> round'.seen, batch |-> round'.batch,
                         late |-> round'.late, game |-> round'.game]
            /\ round'.seen \subseteq round.seen
         \/ UNCHANGED disk /\ EndSession
  PROVE  WatchInv' /\ Kept
BY DEF Kept, WatchInv, WatchTyped, QueueHeld, SeenIsOnRecord, Queue, EndSession, NoRound

LEMMA QueueStep ==
  ASSUME WatchInv, QueueEnded
  PROVE  WatchInv' /\ Kept
<1> DEFINE over == tracked \ round.seen
           q == Queued(over)
<1>1. pending' = q /\ tracked' = round.seen
  BY DEF QueueEnded
<1>2. q \in [Games -> Nat] /\ In(q) = In(pending) \cup over
  BY WatchAssumption DEF Queued, In, Absent, WatchInv, WatchTyped
<1>3. UNCHANGED <<stored, discovered, unlogged, gaveUp>>
  BY DEF QueueEnded, worldVars, histVars
<1>4. \/ /\ disk' = [tracked |-> tracked', pending |-> pending'] /\ pc' = "batch"
         /\ round' = [NoRound EXCEPT !.batch = {g \in In(q) : q[g] >= Settle},
                                     !.late = {g \in In(q) : q[g] > GiveUpAge}]
      \/ UNCHANGED disk /\ EndSession
  BY <1>1 DEF QueueEnded, Persist
<1>5. pc # "down"
  BY DEF QueueEnded
<1>6. /\ tracked' \cup In(pending') \subseteq discovered \cup unlogged
      /\ tracked \cup In(pending) \subseteq tracked' \cup In(pending')
      /\ tracked' \subseteq Games /\ gaveUp' \subseteq discovered \cup unlogged
  BY <1>1, <1>2, <1>3 DEF WatchInv, WatchTyped, SeenIsOnRecord
<1> QED BY <1>1, <1>2, <1>3, <1>4, <1>5, <1>6, PersistStep DEF NoRound

\* What NextInBatch makes of the round.
LEMMA BatchRound ==
  ASSUME WatchInv, NextInBatch
  PROVE  /\ pc' # "down"
         /\ round' = [left |-> round'.left, seen |-> round'.seen, batch |-> round'.batch,
                      late |-> round'.late, game |-> round'.game]
         /\ round'.seen = round.seen
BY DEF NextInBatch, WatchInv, WatchTyped

\* Dropping an entry books it as given up.
LEMMA DropStep ==
  ASSUME WatchInv, pending' = Dropped(round.game), NoteGiveUp
  PROVE  /\ pending' \in [Games -> Nat] /\ In(pending') \subseteq In(pending)
         /\ In(pending) \subseteq In(pending') \cup gaveUp'
         /\ gaveUp \subseteq gaveUp' /\ gaveUp' \subseteq gaveUp \cup In(pending)
<1>1. Absent \in Nat /\ pending \in [Games -> Nat]
  BY WatchAssumption DEF Absent, WatchInv, WatchTyped
<1>2. pending' = [g \in Games |-> IF g = round.game /\ round.game \in round.late
                                  THEN Absent ELSE pending[g]]
  BY <1>1 DEF Dropped
<1>3. pending' \in [Games -> Nat] /\ In(pending') \subseteq In(pending)
  BY <1>1, <1>2 DEF In
<1> QED BY <1>3 DEF NoteGiveUp, In

LEMMA FetchStep ==
  ASSUME WatchInv, BeginFetch \/ FetchOk \/ FetchRefused
  PROVE  WatchInv' /\ Kept
<1>1. CASE BeginFetch
  BY <1>1 DEF Kept, BeginFetch, worldVars, queueVars, histVars, WatchInv, WatchTyped, QueueHeld,
              SeenIsOnRecord, Queue, In
<1>2. CASE FetchOk
  BY <1>2 DEF Kept, FetchOk, worldVars, queueVars, histVars, WatchInv, WatchTyped, QueueHeld,
              SeenIsOnRecord, Queue, In
<1>3. CASE FetchRefused
  <2>0. pc # "down" /\ UNCHANGED <<stored, tracked, discovered, unlogged>>
    BY <1>3 DEF FetchRefused, worldVars
  <2>1. CASE PbModule
    BY <1>3, <2>0, <2>1, SessionEnded DEF Kept, FetchRefused
  <2>2. CASE ~PbModule
    <3>1. pending' = Dropped(round.game) /\ NoteGiveUp
      BY <1>3, <2>2 DEF FetchRefused
    <3>2. CASE round.game \in round.late
      <4>1. \/ disk' = [tracked |-> tracked, pending |-> pending'] /\ NextInBatch
            \/ UNCHANGED disk /\ EndSession
        BY <1>3, <2>2, <3>2 DEF FetchRefused, Persist
      <4> QED
        BY <2>0, <3>1, <4>1, DropStep, BatchRound, PersistStep
           DEF WatchInv, WatchTyped, SeenIsOnRecord
    <3>3. CASE round.game \notin round.late
      <4>1. UNCHANGED <<pending, gaveUp, disk>> /\ NextInBatch
        BY <1>3, <2>2, <3>1, <3>3 DEF FetchRefused, Dropped, NoteGiveUp
      <4> QED
        BY <2>0, <4>1, BatchRound DEF Kept, WatchInv, WatchTyped, QueueHeld, SeenIsOnRecord, Queue, In
    <3> QED BY <3>2, <3>3
  <2> QED BY <2>1, <2>2
<1> QED BY <1>1, <1>2, <1>3

LEMMA IngestStep ==
  ASSUME WatchInv, IngestOk \/ IngestFails
  PROVE  WatchInv' /\ Kept
<1>0. pc # "down" /\ UNCHANGED <<tracked, discovered, unlogged>> /\ stored \subseteq stored'
  BY DEF IngestOk, IngestFails, Ingested, histVars
<1>1. CASE IngestOk
  <2>1. /\ pending' \in [Games -> Nat] /\ In(pending') \subseteq In(pending)
        /\ In(pending) \subseteq In(pending') \cup stored'
    <3>1. Absent \in Nat /\ pending \in [Games -> Nat]
      BY WatchAssumption DEF Absent, WatchInv, WatchTyped
    <3>2. pending' = [g \in Games |-> IF g = round.game THEN Absent ELSE pending[g]]
      BY <1>1, <3>1 DEF IngestOk
    <3>3. round.game \in stored'
      BY <1>1 DEF IngestOk, Ingested
    <3> QED BY <3>1, <3>2, <3>3 DEF In
  <2>2. \/ disk' = [tracked |-> tracked, pending |-> pending'] /\ NextInBatch
        \/ UNCHANGED disk /\ EndSession
    BY <1>1 DEF IngestOk, Persist
  <2>3. UNCHANGED gaveUp
    BY <1>1 DEF IngestOk, histVars
  <2> QED
    BY <1>0, <2>1, <2>2, <2>3, BatchRound, PersistStep DEF WatchInv, WatchTyped, SeenIsOnRecord
<1>2. CASE IngestFails
  <2>1. pending' = Dropped(round.game) /\ NoteGiveUp
    BY <1>2 DEF IngestFails
  <2>2. \/ disk' = [tracked |-> tracked, pending |-> pending'] /\ NextInBatch
        \/ UNCHANGED disk /\ EndSession
    BY <1>2 DEF IngestFails
  <2> QED
    BY <1>0, <2>1, <2>2, DropStep, BatchRound, PersistStep
       DEF WatchInv, WatchTyped, SeenIsOnRecord
<1> QED BY <1>1, <1>2

LEMMA WatchStep == WatchInv /\ [Next]_vars => WatchInv'
<1> SUFFICES ASSUME WatchInv, [Next]_vars PROVE WatchInv'
  OBVIOUS
<1>1. CASE World \/ UNCHANGED vars
  BY <1>1, Unmoved DEF World, vars, worldVars, queueVars, histVars, invVars
<1>2. CASE Tick
  BY <1>2, TickStep
<1>3. CASE Start \/ LogIn \/ Abort \/ Crash
  BY <1>3, LifeStep
<1>4. CASE ListMode
  BY <1>4, ListStep
<1>5. CASE QueueEnded
  BY <1>5, QueueStep
<1>6. CASE BeginFetch \/ FetchOk \/ FetchRefused
  BY <1>6, FetchStep
<1>7. CASE IngestOk \/ IngestFails
  BY <1>7, IngestStep
<1>8. CASE Serve
  BY <1>8 DEF Serve, worldVars, queueVars, histVars, NewRound, NoRound, WatchInv, WatchTyped,
              QueueHeld, SeenIsOnRecord, Queue, In
<1>9. CASE ListFails \/ FetchBroken \/ ServeBroken
  BY <1>9, SessionEnded DEF ListFails, FetchBroken, ServeBroken, worldVars, queueVars, histVars
<1> QED
  BY <1>1, <1>2, <1>3, <1>4, <1>5, <1>6, <1>7, <1>8, <1>9 DEF Next, TaskStep, Broken

LEMMA WatchInvariant == Spec => []WatchInv
BY WatchInitially, WatchStep, PTL DEF Spec

\* A game the collector gives up on is in the discovery log, unless that line
\* could not be written (append_discovered), for any number of games, rooms
\* and faults.
THEOREM GivenUpCanBeFound == Spec => []GivenUpIsOnRecord
<1>1. WatchInv => GivenUpIsOnRecord
  BY DEF WatchInv, SeenIsOnRecord, GivenUpIsOnRecord
<1> QED BY <1>1, WatchInvariant, PTL

\* No step takes a game out of the state file that is not then in the topic or
\* given up, whatever breaks (persist_state and every path that ends a
\* session).
THEOREM StateFileLosesNothing == Spec => QueueLosesNothing
<1>1. WatchInv /\ [Next]_vars => [Kept]_vars
  <2> SUFFICES ASSUME WatchInv, Next PROVE Kept
    OBVIOUS
  <2>1. CASE Tick \/ QueueEnded \/ FetchRefused \/ IngestOk \/ IngestFails
    BY <2>1, TickStep, QueueStep, FetchStep, IngestStep
  <2>2. CASE UNCHANGED disk
    BY <2>2 DEF Kept
  <2> QED
    BY <2>1, <2>2 DEF Next, World, TaskStep, Broken, Start, LogIn, ListMode, BeginFetch, FetchOk,
       Serve, Abort, Crash, ListFails, FetchBroken, ServeBroken
<1> QED BY <1>1, WatchInvariant, PTL DEF Spec, QueueLosesNothing, Kept
=============================================================================
