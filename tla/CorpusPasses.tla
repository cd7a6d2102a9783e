---------------------------- MODULE CorpusPasses ----------------------------
(***************************************************************************)
(* What walks the whole record index: the recovery scan at boot            *)
(* (recovery.rs), the four one-shot passes spawned behind it (backfill.rs) *)
(* and the export jobs (api.rs), beside live ingest, the re-fetch pool and *)
(* the pack worker that writes the rows.                                   *)
(*                                                                         *)
(* Ids are records in the order they were received.  A row is filed under  *)
(* its sorting key, which the source is part of: a record the recovery     *)
(* scan adds is filed apart from the one ingest wrote.  A row's bytes are  *)
(* 0 as first stored and 1 as converted today, meta is "new" once rule and *)
(* played_at are what the parser derives today.                            *)
(*                                                                         *)
(* Parties are the sets of walkers and writers that are looked at          *)
(* together.  MaxFailures bounds failed reads, writes and queries,         *)
(* MaxBoots the restarts.                                                  *)
(***************************************************************************)
EXTENDS Integers, Sequences, FiniteSets, FiniteSetsExt

CONSTANTS Ids,       \* 1 .. n, received in that order
          Legacy,    \* the records of the local legacy pack
          Arriving,  \* the records still to be collected
          GameOf,    \* the game a record holds
          PageSize, LagGate, Parties, MaxFailures, MaxBoots

ASSUME CorpusAssumption ==
  /\ IsFiniteSet(Ids) /\ Ids \subseteq Nat \ {0}
  /\ Legacy \subseteq Ids /\ Arriving \subseteq Ids \ Legacy /\ Legacy # {}
  /\ PageSize \in Nat \ {0} /\ LagGate \in Nat \ {0}

Passes == {"metadata", "claims", "scores", "reconvert"}
Keys == Ids \X {"own", "recovered"}
Games == {GameOf[i] : i \in Ids}
NoRow == [bytes |-> 0, meta |-> "none", pb |-> FALSE]
Rows == [bytes : {0, 1}, meta : {"old", "new"}, pb : BOOLEAN] \union {NoRow}

\* (received_at, record_id) as one number; a recovered row carries the pack's
\* mtime, which is later than any record of the pack.
Stride == Max(Ids) + 1
Rank(k) == IF k[2] = "own" THEN Stride * k[1] ELSE Stride * Max(Legacy) + k[1]
Top == Stride * Stride

VARIABLES
  active,   \* the walkers and writers of this behaviour
  boot,     \* "recovering" before the listener, then "up"
  row,      \* key -> the newest row under it, which FINAL answers with
  shadow,   \* key -> the bytes of older rows no merge has dropped yet
  claims,   \* game -> its game-scoped claim
  scores,   \* record -> the bytes its player_games rows were scored from, -1 for none
  topic,    \* messages the pack worker has not indexed yet
  marks,    \* completed_backfills
  pass,     \* pass -> where its walk is
  job,      \* the state of the download job's row, "none" without one
  export,   \* where the export task is
  late,     \* rows recovered after a pass had marked itself done
  failures, boots

tables == <<row, shadow, claims, scores, topic>>
bounds == <<failures, boots>>
corpusVars == <<active, boot, tables, marks, pass, job, export, late, bounds>>

Off == [at |-> "off", cursor |-> Top, page |-> {}, batch |-> {}, more |-> FALSE,
        unreadable |-> FALSE, met |-> FALSE]
NoExport == [at |-> "idle", cursor |-> Top, file |-> {}, since |-> {}, twice |-> FALSE]

CorpusTypeOK ==
  /\ active \in Parties /\ boot \in {"recovering", "up"}
  /\ row \in [Keys -> Rows] /\ shadow \in [Keys -> SUBSET {0, 1}]
  /\ \A k \in Keys : row[k] = NoRow => shadow[k] = {}
  /\ claims \in [Games -> {"none", "expiring", "permanent"}]
  /\ scores \in [Ids -> {-1, 0, 1}]
  /\ \A m \in topic : m.key \in Keys /\ m.pb \in BOOLEAN
  /\ marks \subseteq Passes
  /\ \A p \in Passes :
       /\ pass[p].at \in {"off", "check", "page", "bytes", "write", "end", "done"}
       /\ Cardinality(pass[p].page) <= PageSize
       /\ pass[p].batch \subseteq pass[p].page
       /\ pass[p].at = "done" => pass[p].batch = {}
  /\ job \in {"none", "queued", "running", "completed", "failed"}
  /\ export.at \in {"idle", "start", "walk", "finish", "failed"}
  /\ export.file \subseteq Keys /\ export.since \subseteq Keys
  /\ late \subseteq Passes \X Keys
  /\ failures \in 0 .. MaxFailures /\ boots \in 0 .. MaxBoots

CorpusInit ==
  /\ active \in Parties
  /\ boot = "recovering"
  /\ \E missing \in SUBSET Legacy :
       row = [k \in Keys |-> IF k[2] = "recovered" \/ k[1] \in Arriving \union missing THEN NoRow
                             ELSE [bytes |-> 0, meta |-> "old", pb |-> k[1] \notin Legacy]]
  /\ shadow = [k \in Keys |-> {}]
  /\ claims \in [Games -> {"none", "expiring"}]
  /\ \A i \in Arriving : claims[GameOf[i]] = "none"
  /\ scores = [i \in Ids |-> -1] /\ topic = {} /\ marks = {}
  /\ pass = [p \in Passes |-> Off] /\ job = "none" /\ export = NoExport /\ late = {}
  /\ failures = 0 /\ boots = 0

Failure == failures < MaxFailures /\ failures' = failures + 1

Filed == {k \in Keys : row[k] # NoRow}

\* An insert: the row becomes the newest under its key, the one before it
\* stays in its part until a merge.
IndexRows(rows) ==
  /\ row' = [k \in Keys |-> IF \E r \in rows : r.key = k
                            THEN (CHOOSE r \in rows : r.key = k).row ELSE row[k]]
  /\ shadow' = [k \in Keys |-> IF row[k] # NoRow /\ \E r \in rows : r.key = k
                               THEN shadow[k] \union {row[k].bytes} ELSE shadow[k]]

\* ReplacingMergeTree (external) drops the older rows of a key.
MergeKey(k) ==
  /\ shadow[k] # {} /\ shadow' = [shadow EXCEPT ![k] = {}]
  /\ UNCHANGED <<active, boot, row, claims, scores, topic, marks, pass, job, export, late, bounds>>

-----------------------------------------------------------------------------
(* The recovery scan. *)

\* indexed_counts and indexed_ids: the records with any row, merged or not,
\* that points into the legacy pack.
IndexedIds == {i \in Legacy : \E s \in {"own", "recovered"} :
                 LET k == <<i, s>> IN (row[k] # NoRow /\ row[k].bytes = 0) \/ 0 \in shadow[k]}

\* recover, before anything else of the process runs: entries the index does
\* not name are added under the pack's own stamp; one that cannot be read is
\* left for another boot.
Recover ==
  /\ boot = "recovering"
  /\ \E unread \in SUBSET (Legacy \ IndexedIds) :
       /\ IF unread = {} THEN UNCHANGED failures ELSE Failure
       /\ LET found == (Legacy \ IndexedIds) \ unread
          IN /\ IndexRows({[key |-> <<i, "recovered">>, row |-> [bytes |-> 0, meta |-> "old", pb |-> FALSE]]
                         : i \in found})
             /\ late' = late \union (marks \X {<<i, "recovered">> : i \in found})
  /\ boot' = "up"
  /\ pass' = [p \in Passes |-> IF p \in active THEN [Off EXCEPT !.at = "check"] ELSE Off]
  /\ UNCHANGED <<active, claims, scores, topic, marks, job, export, boots>>

\* The process stops at any point; what it held in memory is gone.
Reboot ==
  /\ boots < MaxBoots /\ boots' = boots + 1
  /\ boot' = "recovering"
  /\ pass' = [p \in Passes |-> Off]
  /\ export' = IF export.at = "idle" THEN export ELSE NoExport
  /\ UNCHANGED <<active, tables, marks, job, late, failures>>

-----------------------------------------------------------------------------
(* The passes. *)

\* A bug ExportIsWhole is there to notice: the walk goes on below the first
\* row of the next page.
CursorPastTheNext(below, page) == Min({Top} \union {Rank(k) : k \in page \union
  {k \in below \ page : \A j \in below \ page : Rank(j) <= Rank(k)}})

\* page: the next cursor is the last row answered with.
CursorAfter(below, page) == Min({Top} \union {Rank(k) : k \in page})

\* The keyset walk: the PageSize newest rows below the cursor.
Below(wanted, cursor) == {k \in wanted : Rank(k) < cursor}

PageOf(below) == {k \in below : Cardinality({j \in below : Rank(j) > Rank(k)}) < PageSize}

Wanted(p) == IF p = "reconvert" THEN {k \in Filed : row[k].pb} ELSE Filed

GivesUp(p) == [Off EXCEPT !.at = "done", !.met = TRUE]
SetPass(p, r) == pass' = [pass EXCEPT ![p] = r]

CheckMark(p) ==
  /\ pass[p].at = "check"
  /\ \/ /\ SetPass(p, IF p \in marks THEN Off ELSE [pass[p] EXCEPT !.at = "page"])
        /\ UNCHANGED failures
     \/ Failure /\ SetPass(p, GivesUp(p))
  /\ UNCHANGED <<active, boot, tables, marks, job, export, late, boots>>

ReadPage(p) ==
  /\ pass[p].at = "page"
  /\ LET below == Below(Wanted(p), pass[p].cursor)
         page == PageOf(below)
     IN \/ /\ SetPass(p, [pass[p] EXCEPT !.at = "bytes", !.more = (page # below),
                                        !.cursor = CursorAfter(below, page),
                                        !.page = {[key |-> k, row |-> row[k]] : k \in page}])
           /\ UNCHANGED failures
        \/ Failure /\ SetPass(p, GivesUp(p))
  /\ UNCHANGED <<active, boot, tables, marks, job, export, late, boots>>

\* A bug EveryPassMarks is there to notice: two rows of one game in one
\* statement, which PostgreSQL refuses.
OnePerRow(rows) == rows

\* The claims of a page: the first row of a game wins.
OnePerGame(rows) ==
  {r \in rows : \A s \in rows : GameOf[s.key[1]] = GameOf[r.key[1]] => Rank(s.key) <= Rank(r.key)}

\* What a pass writes for the rows whose bytes it could read.
Derived(p, rows) ==
  CASE p = "metadata" -> {r \in rows : r.row.meta = "old"}
    [] p = "claims" -> OnePerGame(rows)
    [] OTHER -> rows

ReadBytes(p) ==
  /\ pass[p].at = "bytes"
  /\ \E bad \in SUBSET pass[p].page :
       /\ IF bad = {} THEN UNCHANGED failures ELSE Failure
       /\ SetPass(p, [pass[p] EXCEPT !.at = "write", !.batch = Derived(p, pass[p].page \ bad),
                                     !.unreadable = @ \/ bad # {}])
  /\ UNCHANGED <<active, boot, tables, marks, job, export, late, boots>>

NextPage(p) == [pass[p] EXCEPT !.at = IF pass[p].more THEN "page" ELSE "end", !.page = {}, !.batch = {}]

\* insert_batch of the rewritten rows: whole rows, as they were read.
WriteMetadata ==
  /\ IndexRows({[r EXCEPT !.row.meta = "new"] : r \in pass["metadata"].batch})
  /\ UNCHANGED <<claims, scores>>

\* adopt_game_claims: a claim that expires stops expiring.
WriteClaims ==
  /\ claims' = [g \in Games |-> IF \E r \in pass["claims"].batch : GameOf[r.key[1]] = g
                                THEN "permanent" ELSE claims[g]]
  /\ UNCHANGED <<row, shadow, scores>>

WriteScores ==
  /\ scores' = [i \in Ids |->
                  LET mine == {r \in pass["scores"].batch : r.key[1] = i}
                  IN IF mine = {} THEN scores[i] ELSE Max({r.row.bytes : r \in mine})]
  /\ UNCHANGED <<row, shadow, claims>>

WriteOf(p) == CASE p = "metadata" -> WriteMetadata
                [] p = "claims" -> WriteClaims
                [] OTHER -> WriteScores

\* Whether PostgreSQL takes the statement: no key twice.
Acceptable(p) ==
  p # "claims" \/ \A r, s \in pass[p].batch : GameOf[r.key[1]] = GameOf[s.key[1]] => r = s

WritePage(p) ==
  /\ pass[p].at = "write"
  /\ IF Acceptable(p)
     THEN \/ WriteOf(p) /\ SetPass(p, NextPage(p)) /\ UNCHANGED failures
          \/ /\ Failure /\ SetPass(p, GivesUp(p))
             /\ WriteOf(p) \/ UNCHANGED <<row, shadow, claims, scores>>
     ELSE /\ SetPass(p, [Off EXCEPT !.at = "done"])
          /\ UNCHANGED <<row, shadow, claims, scores, failures>>
  /\ UNCHANGED <<active, boot, topic, marks, job, export, late, boots>>

\* reindex_one of the re-converted rows, one at a time and behind the backlog.
Reconvert ==
  LET p == "reconvert"
  IN /\ pass[p].at = "write"
     /\ IF pass[p].batch = {}
        THEN SetPass(p, NextPage(p)) /\ UNCHANGED <<topic, failures>>
        ELSE /\ Cardinality(topic) < LagGate
             /\ \E r \in pass[p].batch :
                  \/ /\ topic' = topic \union {[key |-> r.key, pb |-> TRUE]}
                     /\ SetPass(p, [pass[p] EXCEPT !.batch = @ \ {r}])
                     /\ UNCHANGED failures
                  \/ Failure /\ SetPass(p, GivesUp(p)) /\ UNCHANGED topic
  /\ UNCHANGED <<active, boot, row, shadow, claims, scores, marks, job, export, late, boots>>

\* A bug MarkerMeansDone is there to notice: what could not be read counts.
IsCompleteAnyway(p) == TRUE

\* is_complete, which the re-conversion does not ask.
IsComplete(p) == p = "reconvert" \/ ~pass[p].unreadable

\* mark_done, the same row for whichever boot writes it.
MarkDone(p) == marks \union {p}

EndPass(p) ==
  /\ pass[p].at = "end"
  /\ \/ /\ marks' = IF IsComplete(p) THEN MarkDone(p) ELSE marks
        /\ SetPass(p, [Off EXCEPT !.at = "done", !.met = pass[p].unreadable])
        /\ UNCHANGED failures
     \/ Failure /\ SetPass(p, GivesUp(p)) /\ UNCHANGED marks
  /\ UNCHANGED <<active, boot, tables, job, export, late, boots>>

-----------------------------------------------------------------------------
(* What writes beside them (external to the walks). *)

\* Ingest of a game nobody has stored: its claim, then its message.
Ingest(i) ==
  /\ "ingest" \in active /\ boot = "up" /\ i \in Arriving
  /\ claims[GameOf[i]] = "none"
  /\ claims' = [claims EXCEPT ![GameOf[i]] = "permanent"]
  /\ topic' = topic \union {[key |-> <<i, "own">>, pb |-> TRUE]}
  /\ UNCHANGED <<active, boot, row, shadow, scores, marks, pass, job, export, late, bounds>>

\* The missing_pb repair of a row that kept no protobuf.
Repair(k) ==
  /\ "refetch" \in active /\ boot = "up" /\ k \in Filed /\ ~row[k].pb
  /\ topic' = topic \union {[key |-> k, pb |-> TRUE]}
  /\ topic' # topic
  /\ UNCHANGED <<active, boot, row, shadow, claims, scores, marks, pass, job, export, late, bounds>>

\* The pack worker indexes and scores a message under the key it carries.
Pack(m) ==
  /\ boot = "up"
  /\ topic' = topic \ {m}
  /\ IndexRows({[key |-> m.key, row |-> [bytes |-> 1, meta |-> "new", pb |-> m.pb]]})
  /\ scores' = [scores EXCEPT ![m.key[1]] = 1]
  /\ UNCHANGED <<active, boot, claims, marks, pass, job, export, late, bounds>>

\* prune: expiring claims and old jobs.
Prune ==
  /\ boot = "up"
  /\ claims' = [g \in Games |-> IF claims[g] = "expiring" THEN "none" ELSE claims[g]]
  /\ job' \in {job, "none"}
  /\ <<claims', job'>> # <<claims, job>>
  /\ export' = IF job' = "none" /\ export.at = "idle" THEN NoExport ELSE export
  /\ UNCHANGED <<active, boot, row, shadow, scores, topic, marks, pass, late, bounds>>

-----------------------------------------------------------------------------
(* An export job: its row in download_jobs and the task that writes its file. *)

\* A job whose row was pruned in the meantime is updated to no effect.
JobBecomes(state) == job' = IF job = "none" THEN job ELSE state

CreateJob ==
  /\ "export" \in active /\ boot = "up" /\ job = "none" /\ export = NoExport
  /\ job' = "queued" /\ export' = [NoExport EXCEPT !.at = "start"]
  /\ UNCHANGED <<active, boot, tables, marks, pass, late, bounds>>

\* start_job; without it the job stays queued.
StartJob ==
  /\ export.at = "start"
  /\ \/ /\ JobBecomes("running") /\ UNCHANGED failures
        /\ export' = [export EXCEPT !.at = "walk", !.since = Filed]
     \/ Failure /\ export' = NoExport /\ UNCHANGED job
  /\ UNCHANGED <<active, boot, tables, marks, pass, late, boots>>

\* ExportWriter: the records of a page appended to the file.
Appended(page) == [export EXCEPT !.file = @ \union page,
                                 !.twice = @ \/ page \intersect export.file # {}]

\* One page of write_export: the first record that cannot be read fails it.
ExportPage ==
  /\ export.at = "walk"
  /\ LET below == Below(Filed, export.cursor)
         page == PageOf(below)
     IN \/ /\ export' = [Appended(page) EXCEPT !.at = IF page = below THEN "finish" ELSE "walk",
                                               !.cursor = CursorAfter(below, page)]
           /\ UNCHANGED failures
        \/ Failure /\ export' = [export EXCEPT !.at = "failed"]
  /\ UNCHANGED <<active, boot, tables, marks, pass, job, late, boots>>

\* finish_job, whichever way the walk ended; without it the job stays running.
FinishJob ==
  /\ export.at \in {"finish", "failed"}
  /\ \/ /\ JobBecomes(IF export.at = "finish" THEN "completed" ELSE "failed")
        /\ UNCHANGED failures
     \/ Failure /\ UNCHANGED job
  /\ export' = [export EXCEPT !.at = "idle"]
  /\ UNCHANGED <<active, boot, tables, marks, pass, late, boots>>

\* download_file serves the file of a completed job and no other.
Servable == job = "completed"

-----------------------------------------------------------------------------

PassStep(p) == CheckMark(p) \/ ReadPage(p) \/ ReadBytes(p) \/ EndPass(p)

\* The four tasks main spawns.
RewriteRecordMetadata == PassStep("metadata") \/ WritePage("metadata")
WriteGameScopedClaims == PassStep("claims") \/ WritePage("claims")
ScoreIndexedRecords == PassStep("scores") \/ WritePage("scores")
ReconvertStoredRecords == PassStep("reconvert") \/ Reconvert

ExportStep == StartJob \/ ExportPage \/ FinishJob

CorpusNext ==
  \/ Recover \/ Reboot
  \/ RewriteRecordMetadata \/ WriteGameScopedClaims
  \/ ScoreIndexedRecords \/ ReconvertStoredRecords
  \/ \E i \in Ids : Ingest(i)
  \/ \E k \in Keys : Repair(k) \/ MergeKey(k)
  \/ \E m \in topic : Pack(m)
  \/ Prune
  \/ CreateJob \/ ExportStep

CorpusSpec == CorpusInit /\ [][CorpusNext]_corpusVars

\* The tasks main spawns, the export's thread and the pack worker all run on.
FairCorpus ==
  /\ CorpusSpec
  /\ WF_corpusVars(Recover)
  /\ WF_corpusVars(RewriteRecordMetadata) /\ WF_corpusVars(WriteGameScopedClaims)
  /\ WF_corpusVars(ScoreIndexedRecords) /\ WF_corpusVars(ReconvertStoredRecords)
  /\ WF_corpusVars(\E m \in topic : Pack(m))
  /\ WF_corpusVars(ExportStep)

-----------------------------------------------------------------------------

\* What pass p is there for has been done for the row.
Treated(p, k) ==
  /\ p = "metadata" => row[k].meta = "new"
  /\ p = "claims" => claims[GameOf[k[1]]] = "permanent"
  /\ p = "scores" => scores[k[1]] >= 0

\* What the metadata, claims and scoring passes mark themselves done for has
\* reached every row, whatever was written, re-indexed, pruned, unreadable or
\* cut short meanwhile; a row recovered after the mark is the exception.
MarkerMeansDone ==
  \A p \in Passes, k \in Filed : p \in marks /\ <<p, k>> \notin late => Treated(p, k)

\* A file that can be downloaded has every row there was when its job
\* started, once.
ExportIsWhole ==
  Servable => export.since \subseteq export.file /\ ~export.twice

(* Why those hold, and hold after the next step. *)

ReadRows == [key : Keys, row : Rows \ {NoRow}]
Walks == [at : {"off", "check", "page", "bytes", "write", "end", "done"}, cursor : Int,
          page : SUBSET ReadRows, batch : SUBSET ReadRows,
          more : BOOLEAN, unreadable : BOOLEAN, met : BOOLEAN]
Exports == [at : {"idle", "start", "walk", "finish", "failed"}, cursor : Int,
            file : SUBSET Keys, since : SUBSET Keys, twice : BOOLEAN]
CorpusTyped ==
  /\ boot \in {"recovering", "up"} /\ row \in [Keys -> Rows]
  /\ claims \in [Games -> {"none", "expiring", "permanent"}] /\ scores \in [Ids -> {-1, 0, 1}]
  /\ pass \in [Passes -> Walks] /\ export \in Exports

\* A message that will file a new row has its game's claim.
MessagesAreClaimed ==
  \A m \in topic : /\ m.key \in Keys /\ m.pb \in BOOLEAN
                   /\ m.key \in Filed \/ claims[GameOf[m.key[1]]] = "permanent"

\* What a pass has read is still filed, and a row that needed nothing still
\* needs nothing; no pass runs beside the recovery scan.
PageStaysTrue(p) ==
  /\ boot = "recovering" => pass[p] = Off
  /\ pass[p].at = "check" => pass[p].cursor = Top
  /\ pass[p].at # "write" => pass[p].batch = {}
  /\ pass[p].batch \subseteq pass[p].page
  /\ \A r \in pass[p].page : r.key \in Filed /\ (r.row.meta = "new" => row[r.key].meta = "new")

\* The rows the walk of p is past, and the ones among them its next write is
\* for.
Passed(p, k) ==
  \/ pass[p].at \in {"page", "bytes", "write"} /\ pass[p].cursor <= Rank(k)
  \/ pass[p].at \in {"bytes", "write"} /\ ~pass[p].more
  \/ pass[p].at = "end"
WillReach(p, r, k) ==
  /\ p = "metadata" => r.key = k
  /\ p = "claims" => GameOf[r.key[1]] = GameOf[k[1]]
  /\ p = "scores" => r.key[1] = k[1]
Carried(p, k) ==
  \/ pass[p].at = "bytes" /\ \E r \in pass[p].page : r.key = k
  \/ pass[p].at = "write" /\ \E r \in pass[p].batch : WillReach(p, r, k)

\* A walk leaves no row behind it: neither one it has read nor one that was
\* filed behind its back.
LeavesNothing(p) ==
  pass[p].unreadable \/ \A k \in Filed : Passed(p, k) => Treated(p, k) \/ Carried(p, k)

ExportInStep ==
  /\ ~export.twice /\ (export.at # "idle" => job # "completed")
  /\ export.at = "walk" =>
       /\ export.since \subseteq Filed
       /\ \A k \in export.since : k \in export.file \/ Rank(k) < export.cursor
       /\ \A k \in export.file : export.cursor <= Rank(k)
  /\ export.at = "start" => export = [NoExport EXCEPT !.at = "start"]
  /\ (export.at = "finish" \/ job = "completed") => export.since \subseteq export.file

CorpusInv ==
  /\ CorpusTyped /\ MarkerMeansDone /\ MessagesAreClaimed /\ ExportInStep
  /\ \A p \in Passes : PageStaysTrue(p) /\ LeavesNothing(p)

\* A pass that has started marks itself done, unless it met a failure or the
\* process stopped.
EveryPassMarks ==
  \A p \in Passes :
    (pass[p].at = "page") ~> (p \in marks \/ pass[p].met \/ boot = "recovering")

\* What recover's comment says of every boot: entries already indexed are
\* skipped.
RecoveryAddsOnlyMissing ==
  \A i \in Legacy : row[<<i, "recovered">>] # NoRow => row[<<i, "own">>] = NoRow

\* What scan's comment says of the metadata pass: no live row is rewritten
\* from stale bytes, so a re-converted row keeps pointing at its new bytes.
NoRowGoesBack ==
  [][\A k \in Keys : row[k] # NoRow /\ row[k].bytes = 1 => row'[k].bytes = 1]_corpusVars
=============================================================================
