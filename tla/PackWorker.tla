----------------------------- MODULE PackWorker -----------------------------
(***************************************************************************)
(* One partition of the record topic and its pack worker (src/indexer.rs,  *)
(* PackWorker), with the object bucket, the ClickHouse index and the       *)
(* committed offset in PostgreSQL that it writes.                          *)
(*                                                                         *)
(* Every call the worker makes to another process is a step of its own, so *)
(* a crash, a shutdown, retention or a merge can come between any two of   *)
(* them.  A call that fails may or may not have taken effect; an error     *)
(* path that leaves every variable alone (a failed fetch, an offset that   *)
(* cannot be read at boot) is a stuttering step.  The staging file is the  *)
(* open writer's buffer on disk: only the writer reads it, a seal removes  *)
(* it, and boot discards what is left, so it is part of `open`.            *)
(*                                                                         *)
(* The content of a message is its offset in the log: a record re-indexed  *)
(* with new bytes is a later message with the same record and the same     *)
(* received_at, which are the sorting key of the index.                    *)
(***************************************************************************)
EXTENDS Integers, Sequences

CONSTANTS Records,       \* record ids
          Kinds,         \* which kinds of message the topic may carry
          SealWindow,    \* longest time from an object's stamp to its rows
          MaxLog, MaxClock, MaxFaults,  \* bounds on the environment
          MaxEvents      \* bound on ticks and faults together

\* SealWindow stands for the client timeouts of the calls between the upload
\* and the insert.
ASSUME WorkerAssumption ==
    /\ SealWindow \in Nat
    /\ Kinds \subseteq {"ok", "unparsable", "undecodable"}
    /\ MaxLog \in Nat /\ MaxClock \in Nat /\ MaxFaults \in Nat /\ MaxEvents \in Nat

VARIABLES
    log,        \* the partition: a sequence of messages, offset o at log[o + 1]
    earliest,   \* the first offset retention has not removed
    offset,     \* kafka_offsets.next_offset, 0 while there is no row
    unheard,    \* history: a commit has landed and its answer was lost
    pc,         \* where the worker is
    stopping,   \* the shutdown channel
    cursor,     \* PackWorker::cursor
    committed,  \* PackWorker::committed
    open,       \* key of the open pack, 0 for None
    rows,       \* PackWorker::rows: the offsets in hand
    objects,    \* one entry per pack key ever minted
    index,      \* the rows of mjai.records, superseded ones included
    inserts,    \* insert statements so far: the order of indexed_at
    scored,     \* offsets whose player_games rows have been inserted
    reported,   \* offsets the fetch has reported as lost to retention
    now, faults

brokerVars == <<log, earliest>>
workerVars == <<pc, stopping, cursor, committed, open, rows, reported>>
storeVars  == <<objects, index, inserts, scored, offset, unheard>>
vars == <<brokerVars, workerVars, storeVars, now, faults>>

-----------------------------------------------------------------------------
(* Messages, rows and objects.                                             *)

Message == [rec : Records, at : Nat, kind : {"ok", "unparsable", "undecodable"}]
Row     == [rec : Records, at : Nat, off : Nat, pack : Nat, ver : Nat]
Object  == [body : {"none", "short", "whole"}, at : Nat]

Offsets  == 0 .. (Len(log) - 1)
Msg(o)   == log[o + 1]
Parses(o) == Msg(o).kind = "ok"

\* Mutant of RowFor: received_at is stamped when the row is built.
RowForStampedHere(o) == [rec |-> Msg(o).rec, at |-> now, off |-> o,
                         pack |-> open, ver |-> inserts]

\* The row the worker builds for the message at offset o: its received_at is
\* the message's own, never this process's clock.
RowFor(o) == [rec |-> Msg(o).rec, at |-> Msg(o).at, off |-> o,
              pack |-> open, ver |-> inserts]

\* ReplacingMergeTree: the row of one sorting key with the newest indexed_at
\* wins, and within one insert the later one.
Supersedes(a, b) == /\ a.rec = b.rec /\ a.at = b.at
                    /\ \/ a.ver > b.ver
                       \/ a.ver = b.ver /\ a.off > b.off
Final == {r \in index : \A s \in index : ~Supersedes(s, r)}

Init == /\ log = <<>> /\ earliest = 0 /\ offset = 0 /\ unheard = FALSE
        /\ pc = "down" /\ stopping = FALSE /\ cursor = 0 /\ committed = 0
        /\ open = 0 /\ rows = {} /\ reported = {}
        /\ objects = <<>> /\ index = {} /\ inserts = 0 /\ scored = {}
        /\ now = 0 /\ faults = 0

Fault == /\ faults < MaxFaults /\ now + faults < MaxEvents
         /\ faults' = faults + 1

-----------------------------------------------------------------------------
(* The topic.                                                              *)

\* A new record reaches the topic, stamped by its producer.
Produce(r, k) ==
    /\ Len(log) < MaxLog
    /\ \A o \in Offsets : Msg(o).rec # r
    /\ log' = Append(log, [rec |-> r, at |-> now, kind |-> k])
    /\ UNCHANGED <<earliest, workerVars, storeVars, now, faults>>

\* reindex_one: new bytes under the stored record_id and received_at.
Reindex(row) ==
    /\ Len(log) < MaxLog
    /\ log' = Append(log, [rec |-> row.rec, at |-> row.at, kind |-> "ok"])
    /\ UNCHANGED <<earliest, workerVars, storeVars, now, faults>>

\* Retention drops the oldest message, read or not.
Expire ==
    /\ earliest < Len(log)
    /\ earliest' = earliest + 1
    /\ UNCHANGED <<log, workerVars, storeVars, now, faults>>

-----------------------------------------------------------------------------
(* The worker's life.                                                      *)

\* The worker takes its place from PostgreSQL.
Boot ==
    /\ pc = "down"
    /\ pc' = "run"
    /\ cursor' = offset /\ committed' = offset
    /\ UNCHANGED <<stopping, open, rows, reported, brokerVars, storeVars, now, faults>>

\* The process is gone and its memory with it: the worker's, the collector's.
Halt ==
    /\ pc' = "down" /\ stopping' = FALSE
    /\ cursor' = 0 /\ committed' = 0 /\ open' = 0 /\ rows' = {}
    /\ UNCHANGED <<reported, brokerVars, storeVars, now>>

Crash == pc # "down" /\ Fault /\ Halt

Shutdown ==
    /\ pc # "down" /\ ~stopping /\ Fault
    /\ stopping' = TRUE
    /\ UNCHANGED <<pc, cursor, committed, open, rows, reported,
                   brokerVars, storeVars, now>>

\* A stopping worker returns once nothing is open, sealed or not.
Exit == pc = "run" /\ stopping /\ open = 0 /\ Halt /\ UNCHANGED faults

\* Mutant of Discard: the cursor stays where the lost batch ended.
DiscardKeepsCursor == UNCHANGED cursor /\ rows' = {} /\ open' = 0

\* Back to the last committed offset with nothing in hand.
Discard ==
    /\ cursor' = committed /\ rows' = {} /\ open' = 0

-----------------------------------------------------------------------------
(* Fetch, decode, append.                                                  *)

\* Where a fetch reads from: an offset retention has removed is out of range,
\* and the fetch resumes at the earliest one, reporting what it skipped.
StartOffset == IF cursor < earliest THEN earliest ELSE cursor

\* A message of another program is skipped by decode.
Decodes(o) == Msg(o).kind # "undecodable"

\* Messages that decode open a pack, and those that parse get a row in it.
AppendBatch(messages) ==
    /\ rows' = rows \cup {o \in messages : Parses(o)}
    /\ IF messages # {} /\ open = 0
       THEN /\ open' = Len(objects) + 1
            /\ objects' = Append(objects, [body |-> "none", at |-> 0])
       ELSE UNCHANGED <<open, objects>>

\* A batch ends anywhere up to the end of the log.
Fetch(next) ==
    /\ pc = "run" /\ ~stopping
    /\ next \in StartOffset .. Len(log)
    /\ reported' = reported \cup (cursor .. (StartOffset - 1))
    /\ cursor' = next
    /\ AppendBatch({o \in StartOffset .. (next - 1) : Decodes(o)})
    /\ UNCHANGED <<pc, stopping, committed, index, inserts, scored, offset, unheard,
                   brokerVars, now, faults>>

\* The staging write fails: the batch is fetched again from the commit.
AppendFails ==
    /\ pc = "run" /\ ~stopping /\ StartOffset < Len(log) /\ Fault
    /\ reported' = reported \cup (cursor .. (StartOffset - 1))
    /\ Discard
    /\ UNCHANGED <<pc, stopping, committed, brokerVars, storeVars, now>>

-----------------------------------------------------------------------------
(* Seal, upload, insert, commit.                                           *)

\* Mutant of SealBegin: an idle worker waits for a second record.
SealBeginBySize ==
    /\ pc = "run" /\ open # 0
    /\ stopping \/ \E o, p \in rows : o # p
    /\ pc' = "put"
    /\ UNCHANGED <<stopping, cursor, committed, open, rows, reported,
                   brokerVars, storeVars, now, faults>>

\* A pack that holds anything is ready sooner or later, by size, by age or by
\* idling at the end of the log; its age starts with its first record.
PackIsReady == rows # {}

\* A stopping worker seals even an empty pack.
SealBegin ==
    /\ pc = "run" /\ open # 0
    /\ stopping \/ PackIsReady
    /\ pc' = "put"
    /\ UNCHANGED <<stopping, cursor, committed, open, rows, reported,
                   brokerVars, storeVars, now, faults>>

SealFails ==
    /\ Discard
    /\ pc' = "run"
    /\ UNCHANGED <<stopping, committed, reported>>

\* Moving from one call of upload_and_index to the next.
Proceed(to) ==
    /\ pc' = to
    /\ UNCHANGED <<stopping, cursor, committed, open, rows, reported>>

Store(body) == objects' = [objects EXCEPT ![open] = [body |-> body, at |-> now]]

Put ==
    /\ pc = "put"
    /\ \/ Store("whole") /\ UNCHANGED faults
       \/ Store("short") /\ Fault          \* answered 200, stored short
    /\ Proceed("head")
    /\ UNCHANGED <<index, inserts, scored, offset, unheard, brokerVars, now>>

PutFails ==
    /\ pc = "put" /\ Fault
    /\ \/ UNCHANGED objects
       \/ \E body \in {"short", "whole"} : Store(body)
    /\ SealFails
    /\ UNCHANGED <<index, inserts, scored, offset, unheard, brokerVars, now>>

HeadConfirms ==
    /\ pc = "head" /\ objects[open].body = "whole"
    /\ Proceed("insert")
    /\ UNCHANGED <<brokerVars, storeVars, now, faults>>

HeadRefuses ==
    /\ pc = "head"
    /\ IF objects[open].body = "whole" THEN Fault ELSE UNCHANGED faults
    /\ SealFails
    /\ UNCHANGED <<brokerVars, storeVars, now>>

InsertRows ==
    /\ index' = index \cup {RowFor(o) : o \in rows}
    /\ inserts' = IF rows = {} THEN inserts ELSE inserts + 1

Insert ==
    /\ pc = "insert" /\ InsertRows
    /\ Proceed("score")
    /\ UNCHANGED <<objects, scored, offset, unheard, brokerVars, now, faults>>

InsertFails ==
    /\ pc = "insert" /\ Fault
    /\ InsertRows \/ UNCHANGED <<index, inserts>>
    /\ SealFails
    /\ UNCHANGED <<objects, scored, offset, unheard, brokerVars, now>>

Score ==
    /\ pc = "score" /\ scored' = scored \cup rows
    /\ Proceed("commit")
    /\ UNCHANGED <<objects, index, inserts, offset, unheard, brokerVars, now, faults>>

ScoreFails ==
    /\ pc = "score" /\ Fault
    /\ scored' \in {scored, scored \cup rows}
    /\ SealFails
    /\ UNCHANGED <<objects, index, inserts, offset, unheard, brokerVars, now>>

\* Mutant of Commit: the worker does not remember what it committed.
CommitForgotten ==
    /\ pc = "commit"
    /\ offset' = cursor
    /\ rows' = {} /\ open' = 0 /\ pc' = "run"
    /\ UNCHANGED <<stopping, cursor, committed, reported, objects, index, inserts,
                   scored, unheard, brokerVars, now, faults>>

Commit ==
    /\ pc = "commit"
    /\ offset' = cursor /\ committed' = cursor
    /\ rows' = {} /\ open' = 0 /\ pc' = "run"
    /\ UNCHANGED <<stopping, cursor, reported, objects, index, inserts, scored,
                   unheard, brokerVars, now, faults>>

CommitFails ==
    /\ pc = "commit" /\ Fault
    /\ \/ UNCHANGED <<offset, unheard>>
       \/ offset' = cursor /\ unheard' = TRUE
    /\ SealFails
    /\ UNCHANGED <<objects, index, inserts, scored, brokerVars, now>>

-----------------------------------------------------------------------------
(* A background merge drops one superseded row.                            *)

Merge(row) ==
    /\ row \notin Final
    /\ index' = index \ {row}
    /\ UNCHANGED <<objects, inserts, scored, offset, unheard, brokerVars, workerVars,
                   now, faults>>

-----------------------------------------------------------------------------
(* Time.  A call past its client timeout has failed, so an upload waits    *)
(* for its rows no longer than the window.                                 *)

Tick ==
    /\ now < MaxClock /\ now + faults < MaxEvents
    /\ pc \in {"head", "insert"} => now < objects[open].at + SealWindow
    /\ now' = now + 1
    /\ UNCHANGED <<brokerVars, workerVars, storeVars, faults>>

-----------------------------------------------------------------------------
WorkerStep ==
    \/ Boot \/ Exit
    \/ \E next \in 0 .. MaxLog : Fetch(next)
    \/ SealBegin \/ Put \/ HeadConfirms \/ HeadRefuses \/ Insert \/ Score \/ Commit

WorkerFault == \/ Crash \/ Shutdown \/ AppendFails
               \/ PutFails \/ InsertFails \/ ScoreFails \/ CommitFails

Broker == \/ \E r \in Records, k \in Kinds : Produce(r, k)
          \/ \E row \in Final : Reindex(row)
          \/ Expire

Next == \/ WorkerStep \/ WorkerFault \/ Broker \/ Tick
        \/ \E row \in index : Merge(row)

Spec == Init /\ [][Next]_vars

\* The runtime keeps scheduling the worker; faults are finitely many.
FairSpec == Spec /\ WF_vars(WorkerStep)

-----------------------------------------------------------------------------
(* What the pipeline promises.                                             *)

TypeOK ==
    /\ log \in Seq(Message)
    /\ earliest \in 0 .. Len(log) /\ offset \in 0 .. Len(log)
    /\ pc \in {"down", "run", "put", "head", "insert", "score", "commit"}
    /\ stopping \in BOOLEAN
    /\ cursor \in 0 .. Len(log) /\ committed \in 0 .. cursor
    /\ objects \in Seq(Object)
    /\ open \in 0 .. Len(objects)
    /\ pc \notin {"down", "run"} => open # 0
    /\ rows \subseteq Offsets /\ reported \subseteq Offsets
    /\ scored \subseteq Offsets
    /\ index \subseteq Row /\ inserts \in Nat /\ unheard \in BOOLEAN
    /\ now \in Nat /\ faults \in Nat

Indexed(o) == \E r \in index : r.rec = Msg(o).rec /\ r.at = Msg(o).at

\* Accounted for: in the index and in the statistics, or reported as lost.
\* Bytes that do not parse were never a record.
Settled(o) == Parses(o) => (o \in reported \/ (Indexed(o) /\ o \in scored))

\* The committed offset never passes a record that is in neither the index
\* nor the report of what retention removed.  This is what lets a 202 rest on
\* the broker alone, and what the order seal, upload, insert, score, commit
\* in PackWorker::upload_and_index is for: no crash, failed call or replay
\* may commit past a record that only existed in the worker's hands.
CommittedMeansIndexed == \A o \in Offsets : o < offset => Settled(o)

\* Why that holds, and holds after the next step too.  Behind the worker's own
\* commit everything is settled; between it and the cursor everything that
\* parses is in hand or reported; past the insert what is in hand is in the
\* index, past the scoring it is scored.  The worker's commit may lag the
\* stored offset (an acknowledgement lost), so each needs its own part.
BehindCommit == pc # "down" =>
    \A o \in Offsets : o < committed => Settled(o)
InHand == pc # "down" =>
    \A o \in Offsets : (committed <= o /\ o < cursor /\ Parses(o))
                           => o \in rows \cup reported
PastInsert == pc \in {"score", "commit"} => \A o \in rows : Indexed(o)
PastScore  == pc = "commit" => rows \subseteq scored
CommitInv == /\ TypeOK /\ CommittedMeansIndexed
             /\ BehindCommit /\ InHand /\ PastInsert /\ PastScore

\* Every row of the index, the superseded ones a reader may still hold
\* included, points into an object that is there and whole: the upload comes
\* before the insert, the size is checked between them, and the collector
\* never takes an object whose rows are still on their way.
RowsReadable == \A r \in index : objects[r.pack].body = "whole"

\* All copies of a record share one sorting key, so a replay converges onto
\* the row already there instead of becoming a second record: received_at
\* travels with the message.
ReplaysConverge == \A r, s \in index : r.rec = s.rec => r.at = s.at

\* Two messages of one record carry one received_at, and every row carries the
\* sorting key of the message it was built from: the inductive form.
KeyInv == /\ TypeOK
          /\ \A o, p \in Offsets : Msg(o).rec = Msg(p).rec => Msg(o).at = Msg(p).at
          /\ \A r \in index : /\ r.off \in Offsets
                               /\ r.rec = Msg(r.off).rec /\ r.at = Msg(r.off).at

\* The row a reader gets for a record is at least as new as the newest
\* committed message about it.
ServesNewest ==
    \A o \in Offsets : (o < offset /\ Parses(o) /\ o \notin reported)
        => \E r \in Final : r.rec = Msg(o).rec /\ r.off >= o

\* A replay never puts re-indexed bytes back to the ones they replaced, at any
\* moment of it, as long as no commit landed without its answer: the worker
\* replays from what it committed, so nothing behind the stored offset is
\* inserted a second time.
NewestContentServed == ~unheard => ServesNewest

\* Why that holds, and holds after the next step.  An insert is newer than
\* every row before it; the worker works from the stored offset on, so what it
\* inserts is about later messages than what was committed; and past the
\* insert the newest row of every record in hand is one it has just written.
Shown(o) == \E r \in Final : r.rec = Msg(o).rec /\ r.off >= o
InsertsAreNewer == \A r \in index : r.ver < inserts
WorksFromTheOffset ==
    /\ pc = "down" => rows = {}
    /\ (~unheard /\ pc # "down") =>
           committed = offset /\ \A o \in rows : committed <= o
PastInsertShown == pc \in {"score", "commit"} => \A o \in rows : Shown(o)
NewestInv == /\ CommitInv /\ KeyInv /\ NewestContentServed
             /\ InsertsAreNewer /\ WorksFromTheOffset /\ PastInsertShown

\* A process that is down serves the newest bytes whatever was lost: what the
\* next boot finds is what it will serve, because it resumes at the committed
\* offset and replays nothing before it (the comment in commit_offset that a
\* replay converges).
RestartServesNewest == pc = "down" => ServesNewest

\* Every record the topic took is eventually searchable and scored, or
\* reported lost, whatever finitely many crashes, shutdowns and failed calls
\* come between: again and again nothing the topic holds is outstanding.
EveryRecordSettles == []<>(\A o \in Offsets : Settled(o))
=============================================================================
