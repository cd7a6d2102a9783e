-------------------------- MODULE PackWorkerProofs --------------------------
(***************************************************************************)
(* Theorems about PackWorker and about OrphanCollector beside it, for      *)
(* every set of records, every bound and every number of faults; then      *)
(* those about CorpusPasses, which walks the index the worker fills.       *)
(***************************************************************************)
EXTENDS OrphanCollector, CorpusPasses, SequenceTheorems, FiniteSetTheorems,
        WellFoundedInduction, TLAPS

-----------------------------------------------------------------------------
(* The actions only ever do a few things to the data.                      *)

\* Appending to the topic leaves every message already there where it was.
LEMMA AppendKeepsMessages ==
    ASSUME NEW s \in Seq(Message), NEW m \in Message
    PROVE  /\ Append(s, m) \in Seq(Message)
           /\ Len(Append(s, m)) = Len(s) + 1
           /\ \A o \in 0 .. (Len(s) - 1) : Append(s, m)[o + 1] = s[o + 1]
           /\ Append(s, m)[Len(s) + 1] = m
  OBVIOUS

\* A message of the log is a message.
LEMMA MessageType ==
    ASSUME TypeOK, NEW o \in Offsets
    PROVE  Msg(o) \in Message
  BY DEF TypeOK, Offsets, Msg

\* The rows built from what is in hand are rows.
LEMMA RowForType ==
    ASSUME TypeOK, NEW o \in Offsets
    PROVE  RowFor(o) \in Row
  <1>1. Msg(o) \in Message
    BY MessageType
  <1>2. o \in Nat /\ open \in Nat /\ inserts \in Nat
    BY DEF TypeOK, Offsets
  <1> QED
    BY <1>1, <1>2 DEF RowFor, Message, Row

-----------------------------------------------------------------------------
(* Type correctness.                                                       *)

LEMMA TypeInit == Init => TypeOK
  <1> SUFFICES ASSUME Init PROVE TypeOK
    OBVIOUS
  <1>1. log \in Seq(Message) /\ objects \in Seq(Object)
    BY DEF Init
  <1>2. Len(log) = 0 /\ Len(objects) = 0
    BY DEF Init
  <1>3. /\ earliest \in 0 .. Len(log) /\ offset \in 0 .. Len(log)
        /\ cursor \in 0 .. Len(log) /\ committed \in 0 .. cursor
        /\ open \in 0 .. Len(objects)
        /\ inserts \in Nat /\ now \in Nat /\ faults \in Nat
    BY <1>2 DEF Init
  <1>4. /\ rows \subseteq Offsets /\ reported \subseteq Offsets
        /\ scored \subseteq Offsets /\ index \subseteq Row
    BY DEF Init
  <1>5. pc = "down" /\ stopping \in BOOLEAN /\ unheard \in BOOLEAN
    BY DEF Init
  <1> QED
    BY <1>1, <1>3, <1>4, <1>5 DEF TypeOK

LEMMA TypeNext == TypeOK /\ [Next]_vars => TypeOK'
  <1> SUFFICES ASSUME TypeOK, [Next]_vars PROVE TypeOK'
    OBVIOUS
  <1> USE DEF TypeOK
  <1>1. ASSUME NEW r \in Records, NEW k \in Kinds, Produce(r, k) PROVE TypeOK'
    <2> DEFINE m == [rec |-> r, at |-> now, kind |-> k]
    <2>1. m \in Message
      BY WorkerAssumption DEF Message
    <2> QED
      BY <1>1, <2>1, AppendKeepsMessages
      DEF Produce, Offsets, workerVars, storeVars
  <1>2. ASSUME NEW rw \in Final, Reindex(rw) PROVE TypeOK'
    <2> DEFINE m == [rec |-> rw.rec, at |-> rw.at, kind |-> "ok"]
    <2>1. m \in Message
      BY DEF Message, Final, Row
    <2> QED
      BY <1>2, <2>1, AppendKeepsMessages
      DEF Reindex, Offsets, workerVars, storeVars
  <1>3. CASE Expire
    BY <1>3 DEF Expire, Offsets, workerVars, storeVars
  <1>4. CASE Boot
    BY <1>4 DEF Boot, Offsets, brokerVars, storeVars
  <1>5. CASE Crash \/ Exit
    <2>1. /\ pc' = "down" /\ stopping' = FALSE
          /\ cursor' = 0 /\ committed' = 0 /\ open' = 0 /\ rows' = {}
          /\ UNCHANGED <<reported, log, earliest, objects, index, inserts,
                         scored, offset, unheard, now>>
      BY <1>5 DEF Crash, Exit, Halt, brokerVars, storeVars
    <2>2. faults' \in Nat
      BY <1>5 DEF Crash, Exit, Fault
    <2>3. stopping' \in BOOLEAN
      BY <2>1
    <2>4. UNCHANGED <<Offsets, Len(log), Len(objects)>>
      BY <2>1 DEF Offsets
    <2> QED
      BY <2>1, <2>2, <2>3, <2>4
  <1>6. CASE Shutdown
    BY <1>6 DEF Shutdown, Fault, Offsets, brokerVars, storeVars
  <1>7. ASSUME NEW next \in 0 .. MaxLog, Fetch(next) PROVE TypeOK'
    <2>1. [body |-> "none", at |-> 0] \in Object
      BY DEF Object
    <2>2. objects' \in Seq(Object) /\ open' \in 0 .. Len(objects')
      <3>1. CASE UNCHANGED <<open, objects>>
        BY <3>1
      <3>2. CASE /\ open' = Len(objects) + 1
                 /\ objects' = Append(objects, [body |-> "none", at |-> 0])
        BY <3>2, <2>1, AppendProperties
      <3> QED
        BY <1>7, <3>1, <3>2 DEF Fetch, AppendBatch, Decodes
    <2>3. rows' \subseteq Offsets
      <3> DEFINE messages == {o \in StartOffset .. (next - 1) :
                                  Msg(o).kind # "undecodable"}
      <3>0. rows' = rows \cup {o \in messages : Parses(o)}
        BY <1>7, Zenon DEF Fetch, AppendBatch, Decodes
      <3>1. rows' \subseteq rows \cup (StartOffset .. (next - 1))
        BY <3>0, Zenon
      <3>2. next \in Nat /\ next <= Len(log) /\ StartOffset \in Nat
        BY <1>7, WorkerAssumption DEF Fetch, StartOffset
      <3>3. (StartOffset .. (next - 1)) \subseteq Offsets
        BY <3>2 DEF Offsets
      <3> QED
        BY <3>1, <3>3
    <2>5. reported' \subseteq Offsets
      <3>1. reported' = reported \cup (cursor .. (StartOffset - 1))
        BY <1>7 DEF Fetch
      <3> QED
        BY <3>1 DEF Offsets, StartOffset
    <2>4. cursor' \in 0 .. Len(log) /\ committed \in 0 .. cursor'
      BY <1>7 DEF Fetch, StartOffset
    <2> QED
      BY <1>7, <2>2, <2>3, <2>4, <2>5 DEF Fetch, Offsets, brokerVars
  <1>8. CASE AppendFails
    BY <1>8 DEF AppendFails, Discard, Fault, Offsets, StartOffset, brokerVars,
                storeVars
  <1>9. CASE SealBegin
    BY <1>9 DEF SealBegin, Offsets, brokerVars, storeVars
  <1>10. ASSUME pc = "put", NEW b \in {"short", "whole"}, Store(b)
         PROVE  objects' \in Seq(Object) /\ Len(objects') = Len(objects)
    <2>1. [body |-> b, at |-> now] \in Object
      BY DEF Object
    <2> QED
      BY <1>10, <2>1, ExceptSeq DEF Store
  <1>11. CASE Put
    BY <1>10, <1>11 DEF Put, Proceed, Fault, Offsets, brokerVars
  <1>12. CASE PutFails
    BY <1>10, <1>12 DEF PutFails, SealFails, Discard, Fault, Offsets, brokerVars
  <1>13. CASE HeadConfirms
    BY <1>13 DEF HeadConfirms, Proceed, Offsets, brokerVars, storeVars
  <1>14. CASE HeadRefuses
    BY <1>14 DEF HeadRefuses, SealFails, Discard, Fault, Offsets, brokerVars,
                 storeVars
  <1>15. ASSUME InsertRows PROVE index' \subseteq Row /\ inserts' \in Nat
    BY <1>15, RowForType DEF InsertRows
  <1>16. CASE Insert
    BY <1>15, <1>16 DEF Insert, Proceed, Offsets, brokerVars
  <1>17. CASE InsertFails
    BY <1>15, <1>17 DEF InsertFails, SealFails, Discard, Fault, Offsets,
                        brokerVars
  <1>18. CASE Score
    BY <1>18 DEF Score, Proceed, Offsets, brokerVars
  <1>19. CASE ScoreFails
    BY <1>19 DEF ScoreFails, SealFails, Discard, Fault, Offsets, brokerVars
  <1>20. CASE Commit
    BY <1>20 DEF Commit, Offsets, brokerVars
  <1>21. CASE CommitFails
    <2>1. unheard' \in BOOLEAN
      BY <1>21, Zenon DEF CommitFails
    <2> QED
      BY <1>21, <2>1 DEF CommitFails, SealFails, Discard, Fault, Offsets, brokerVars
  <1>22. CASE Tick
    BY <1>22 DEF Tick, Offsets, brokerVars, workerVars, storeVars
  <1>23. ASSUME NEW rw \in index, Merge(rw) PROVE TypeOK'
    BY <1>23 DEF Merge, Offsets, brokerVars, workerVars
  <1>24. CASE UNCHANGED vars
    BY <1>24 DEF vars, Offsets, brokerVars, workerVars, storeVars
  <1> QED
    BY <1>1, <1>2, <1>3, <1>4, <1>5, <1>6, <1>7, <1>8, <1>9, <1>11, <1>12,
       <1>13, <1>14, <1>16, <1>17, <1>18, <1>19, <1>20, <1>21, <1>22, <1>23,
       <1>24
    DEF Next, WorkerStep, WorkerFault, Broker

\* Every variable of the worker stays in its range: the offset, the cursor and
\* the commit never leave the log, the commit never passes the cursor, and
\* rows, scores and loss reports only ever name offsets of the log.
THEOREM TypeCorrect == Spec => []TypeOK
  BY TypeInit, TypeNext, PTL DEF Spec

-----------------------------------------------------------------------------
(* No step forgets.                                                        *)

\* The log only grows, a sorting key once in the index stays in it, and what
\* is reported or scored stays so.
Kept == /\ Len(log) <= Len(log')
        /\ \A o \in Offsets : Msg(o)' = Msg(o) /\ (Indexed(o) => Indexed(o)')
        /\ reported \subseteq reported' /\ scored \subseteq scored'

LEMMA SameLogKeeps ==
    ASSUME TypeOK, UNCHANGED log, index \subseteq index',
           reported \subseteq reported', scored \subseteq scored'
    PROVE  Kept
  <1>1. Len(log) <= Len(log')
    BY DEF TypeOK
  <1>2. \A o \in Offsets : Msg(o)' = Msg(o)
    BY DEF Msg
  <1>3. \A o \in Offsets : Indexed(o) => Indexed(o)'
    BY <1>2 DEF Indexed
  <1> QED
    BY <1>1, <1>2, <1>3 DEF Kept

LEMMA LongerLogKeeps ==
    ASSUME TypeOK, NEW m \in Message, log' = Append(log, m),
           UNCHANGED <<index, reported, scored>>
    PROVE  Kept
  <1>1. Len(log) <= Len(log')
    BY AppendKeepsMessages DEF TypeOK
  <1>2. \A o \in Offsets : Msg(o)' = Msg(o)
    BY AppendKeepsMessages DEF TypeOK, Offsets, Msg
  <1>3. \A o \in Offsets : Indexed(o) => Indexed(o)'
    BY <1>2 DEF Indexed
  <1> QED
    BY <1>1, <1>2, <1>3 DEF Kept

\* A merge drops a row only because another row of the same key stays.
LEMMA MergeKeeps ==
    ASSUME TypeOK, NEW rw \in index, Merge(rw)
    PROVE  Kept
  <1>1. UNCHANGED <<log, reported, scored>> /\ index' = index \ {rw}
    BY DEF Merge, brokerVars, workerVars
  <1>2. PICK s \in index : Supersedes(s, rw)
    BY DEF Merge, Final
  <1>3. s # rw /\ s.rec = rw.rec /\ s.at = rw.at
    BY <1>2 DEF Supersedes, TypeOK, Row
  <1>4. \A o \in Offsets : Msg(o)' = Msg(o)
    BY <1>1 DEF Msg
  <1>5. ASSUME NEW o \in Offsets, Indexed(o) PROVE Indexed(o)'
    <2>1. PICK r \in index : r.rec = Msg(o).rec /\ r.at = Msg(o).at
      BY <1>5 DEF Indexed
    <2>2. CASE r = rw
      BY <1>1, <1>3, <1>4, <2>1, <2>2 DEF Indexed
    <2>3. CASE r # rw
      BY <1>1, <1>4, <2>1, <2>3 DEF Indexed
    <2> QED
      BY <2>2, <2>3
  <1> QED
    BY <1>1, <1>4, <1>5 DEF Kept, TypeOK

LEMMA EveryStepKeeps == TypeOK /\ [Next]_vars => Kept
  <1> SUFFICES ASSUME TypeOK, [Next]_vars PROVE Kept
    OBVIOUS
  <1>1. ASSUME NEW r \in Records, NEW k \in Kinds, Produce(r, k) PROVE Kept
    <2>1. [rec |-> r, at |-> now, kind |-> k] \in Message
      BY WorkerAssumption DEF Message, TypeOK
    <2> QED
      BY <1>1, <2>1, LongerLogKeeps DEF Produce, workerVars, storeVars
  <1>2. ASSUME NEW rw \in Final, Reindex(rw) PROVE Kept
    <2>1. [rec |-> rw.rec, at |-> rw.at, kind |-> "ok"] \in Message
      BY DEF Message, Final, Row, TypeOK
    <2> QED
      BY <1>2, <2>1, LongerLogKeeps DEF Reindex, workerVars, storeVars
  <1>3. CASE Expire \/ Tick \/ UNCHANGED vars
    BY <1>3, SameLogKeeps
    DEF Expire, Tick, vars, workerVars, storeVars, brokerVars
  <1>4. CASE Boot \/ Crash \/ Exit \/ Shutdown
    BY <1>4, SameLogKeeps
    DEF Boot, Crash, Exit, Halt, Shutdown, storeVars, brokerVars
  <1>5. ASSUME NEW next \in 0 .. MaxLog, Fetch(next) PROVE Kept
    BY <1>5, SameLogKeeps DEF Fetch, brokerVars
  <1>6. CASE AppendFails \/ SealBegin \/ HeadConfirms \/ HeadRefuses
    BY <1>6, SameLogKeeps
    DEF AppendFails, SealBegin, HeadConfirms, HeadRefuses, Proceed, SealFails,
        storeVars, brokerVars
  <1>7. CASE Put \/ PutFails \/ Commit \/ CommitFails
    BY <1>7, SameLogKeeps
    DEF Put, PutFails, Commit, CommitFails, Proceed, SealFails, brokerVars
  <1>8. CASE Insert \/ InsertFails
    BY <1>8, SameLogKeeps
    DEF Insert, InsertFails, InsertRows, Proceed, SealFails, brokerVars
  <1>9. CASE Score \/ ScoreFails
    BY <1>9, SameLogKeeps
    DEF Score, ScoreFails, Proceed, SealFails, brokerVars
  <1>10. ASSUME NEW rw \in index, Merge(rw) PROVE Kept
    BY <1>10, MergeKeeps
  <1> QED
    BY <1>1, <1>2, <1>3, <1>4, <1>5, <1>6, <1>7, <1>8, <1>9, <1>10
    DEF Next, WorkerStep, WorkerFault, Broker

\* So what is settled stays settled.
LEMMA SettledStays ==
    ASSUME Kept, NEW o \in Offsets, Settled(o)
    PROVE  Settled(o)'
  <1>1. Parses(o)' = Parses(o)
    BY DEF Kept, Parses
  <1> QED
    BY <1>1 DEF Kept, Settled

-----------------------------------------------------------------------------
(* The commit never passes an unsettled record.                            *)

\* At the commit everything behind the cursor is settled: behind the worker's
\* commit it already was, and the rest is in hand (so inserted and scored by
\* now) or reported.
LEMMA CursorSettled ==
    ASSUME CommitInv, pc = "commit"
    PROVE  \A o \in Offsets : o < cursor => Settled(o)
  <1> SUFFICES ASSUME NEW o \in Offsets, o < cursor, Parses(o)
               PROVE  o \in reported \/ (Indexed(o) /\ o \in scored)
    BY DEF Settled
  <1>1. CASE o < committed
    BY <1>1 DEF CommitInv, BehindCommit, Settled
  <1>2. CASE ~(o < committed)
    <2>1. committed <= o
      BY <1>2 DEF CommitInv, TypeOK, Offsets
    <2>2. o \in rows \cup reported
      BY <2>1 DEF CommitInv, InHand
    <2>3. o \in rows => Indexed(o) /\ o \in scored
      BY DEF CommitInv, PastInsert, PastScore
    <2> QED
      BY <2>2, <2>3
  <1> QED
    BY <1>1, <1>2

\* An offset of the longer log that is behind the commit was in the log.
LEMMA BehindIsOld ==
    ASSUME TypeOK, TypeOK', Kept, NEW o \in Offsets',
           o < offset \/ o < committed \/ o < cursor
    PROVE  o \in Offsets
  <1>0. log \in Seq(Message) /\ log' \in Seq(Message)
    BY DEF TypeOK, Message
  <1>1. Len(log) \in Nat /\ Len(log') \in Nat
    BY <1>0, LenProperties
  <1>2. o \in Nat
    BY <1>1 DEF Offsets
  <1>3. /\ offset \in Nat /\ offset <= Len(log)
        /\ cursor \in Nat /\ cursor <= Len(log)
        /\ committed \in Nat /\ committed <= cursor
    BY DEF TypeOK
  <1> QED
    BY <1>1, <1>2, <1>3 DEF Offsets

LEMMA OffsetKept ==
    ASSUME CommitInv, TypeOK', Kept, UNCHANGED offset
    PROVE  CommittedMeansIndexed'
  BY BehindIsOld, SettledStays DEF CommitInv, CommittedMeansIndexed

LEMMA CommitKept ==
    ASSUME CommitInv, TypeOK', Kept, UNCHANGED committed, pc # "down"
    PROVE  BehindCommit'
  BY BehindIsOld, SettledStays DEF CommitInv, BehindCommit

\* Steps that leave the worker's place and the stored offset alone.
LEMMA QuietStep ==
    ASSUME CommitInv, TypeOK', Kept,
           UNCHANGED <<pc, cursor, committed, rows, offset>>
    PROVE  CommitInv'
  <1>1. CommittedMeansIndexed'
    BY OffsetKept
  <1>2. BehindCommit'
    BY CommitKept DEF BehindCommit
  <1>3. InHand'
    <2> SUFFICES ASSUME pc' # "down", NEW o \in Offsets',
                        committed <= o, o < cursor, Parses(o)'
                 PROVE  o \in rows' \cup reported'
      BY DEF InHand
    <2>1. o \in Offsets /\ Parses(o)
      BY BehindIsOld DEF Kept, Parses, CommitInv
    <2> QED
      BY <2>1 DEF CommitInv, InHand, Kept
  <1>4. PastInsert'
    BY DEF CommitInv, PastInsert, Kept, TypeOK
  <1>5. PastScore'
    BY DEF CommitInv, PastScore, Kept
  <1> QED
    BY <1>1, <1>2, <1>3, <1>4, <1>5 DEF CommitInv

\* Steps that send the worker back to its commit with nothing in hand.
LEMMA RewindStep ==
    ASSUME CommitInv, TypeOK', Kept, CommittedMeansIndexed', pc # "down",
           pc' = "run", cursor' = committed, rows' = {}, UNCHANGED committed
    PROVE  CommitInv'
  <1>1. BehindCommit'
    BY CommitKept
  <1>2. InHand'
    BY DEF InHand, TypeOK, Offsets
  <1>3. PastInsert' /\ PastScore'
    BY DEF PastInsert, PastScore
  <1> QED
    BY <1>1, <1>2, <1>3 DEF CommitInv

LEMMA CommitNext == CommitInv /\ [Next]_vars => CommitInv'
  <1> SUFFICES ASSUME CommitInv, [Next]_vars PROVE CommitInv'
    OBVIOUS
  <1>t. TypeOK /\ TypeOK' /\ Kept
    BY TypeNext, EveryStepKeeps DEF CommitInv
  <1>1. ASSUME NEW r \in Records, NEW k \in Kinds, Produce(r, k) PROVE CommitInv'
    BY <1>t, <1>1, QuietStep DEF Produce, workerVars, storeVars
  <1>2. ASSUME NEW rw \in Final, Reindex(rw) PROVE CommitInv'
    BY <1>t, <1>2, QuietStep DEF Reindex, workerVars, storeVars
  <1>3. CASE Expire \/ Tick \/ UNCHANGED vars
    BY <1>t, <1>3, QuietStep DEF Expire, Tick, vars, workerVars, storeVars
  <1>4. CASE Shutdown
    BY <1>t, <1>4, QuietStep DEF Shutdown, storeVars
  <1>5. ASSUME NEW rw \in index, Merge(rw) PROVE CommitInv'
    BY <1>t, <1>5, QuietStep DEF Merge, workerVars
  <1>6. CASE Boot
    <2>1. CommittedMeansIndexed'
      BY <1>t, <1>6, OffsetKept DEF Boot, storeVars
    <2>2. BehindCommit'
      BY <1>6, <2>1 DEF Boot, storeVars, BehindCommit, CommittedMeansIndexed
    <2>3. InHand'
      BY <1>t, <1>6 DEF Boot, InHand, TypeOK, Offsets
    <2>4. PastInsert' /\ PastScore'
      BY <1>6 DEF Boot, PastInsert, PastScore
    <2> QED
      BY <1>t, <2>1, <2>2, <2>3, <2>4 DEF CommitInv
  <1>7. CASE Crash \/ Exit
    <2>1. pc' = "down" /\ UNCHANGED offset
      BY <1>7 DEF Crash, Exit, Halt, storeVars
    <2> QED
      BY <1>t, <2>1, OffsetKept
      DEF CommitInv, BehindCommit, InHand, PastInsert, PastScore
  <1>8. ASSUME NEW next \in 0 .. MaxLog, Fetch(next) PROVE CommitInv'
    <2>1. /\ pc = "run" /\ pc' = "run" /\ UNCHANGED <<log, committed, offset>>
          /\ cursor' = next /\ next \in Nat
          /\ reported' = reported \cup (cursor .. (StartOffset - 1))
      BY <1>8, WorkerAssumption DEF Fetch, brokerVars
    <2>2. \A o \in StartOffset .. (next - 1) : Parses(o) => o \in rows'
      <3> DEFINE messages == {o \in StartOffset .. (next - 1) :
                                  Msg(o).kind # "undecodable"}
      <3>1. rows' = rows \cup {o \in messages : Parses(o)}
        BY <1>8, Zenon DEF Fetch, AppendBatch, Decodes
      <3>2. \A o \in StartOffset .. (next - 1) : Parses(o) => o \in messages
        BY DEF Parses
      <3> QED
        BY <3>1, <3>2
    <2>3. rows \subseteq rows'
      BY <1>8 DEF Fetch, AppendBatch, Decodes
    <2>4. InHand'
      <3> SUFFICES ASSUME NEW o \in Offsets, committed <= o, o < next, Parses(o)
                   PROVE  o \in rows' \cup reported'
        BY <2>1 DEF InHand, Offsets, Parses, Msg
      <3>0. o \in Nat /\ cursor \in Nat /\ StartOffset \in Nat
        BY <1>t DEF TypeOK, Offsets, StartOffset
      <3>1. CASE o < cursor
        BY <2>1, <2>3, <3>1 DEF CommitInv, InHand
      <3>2. CASE cursor <= o /\ o < StartOffset
        BY <2>1, <3>0, <3>2
      <3>3. CASE StartOffset <= o
        BY <2>1, <2>2, <3>0, <3>3
      <3> QED
        BY <3>0, <3>1, <3>2, <3>3
    <2> QED
      BY <1>t, <2>1, <2>4, OffsetKept, CommitKept
      DEF CommitInv, PastInsert, PastScore
  <1>9. CASE AppendFails \/ HeadRefuses
    BY <1>t, <1>9, RewindStep, OffsetKept
    DEF AppendFails, HeadRefuses, SealFails, Discard, storeVars
  <1>10. CASE PutFails \/ InsertFails \/ ScoreFails
    BY <1>t, <1>10, RewindStep, OffsetKept
    DEF PutFails, InsertFails, ScoreFails, SealFails, Discard
  <1>11. CASE SealBegin \/ Put \/ HeadConfirms
    <2>1. /\ pc # "down" /\ pc' \in {"put", "head", "insert"}
          /\ UNCHANGED <<log, cursor, committed, rows, reported, offset>>
      BY <1>11 DEF SealBegin, Put, HeadConfirms, Proceed, brokerVars, storeVars
    <2>2. InHand'
      BY <2>1 DEF CommitInv, InHand, Offsets, Parses, Msg
    <2> QED
      BY <1>t, <2>1, <2>2, OffsetKept, CommitKept
      DEF CommitInv, PastInsert, PastScore
  <1>12. CASE Insert
    <2>1. /\ pc = "insert" /\ pc' = "score"
          /\ UNCHANGED <<log, cursor, committed, rows, reported, offset>>
          /\ index' = index \cup {RowFor(o) : o \in rows}
      BY <1>12 DEF Insert, InsertRows, Proceed, brokerVars
    <2>2. InHand'
      BY <2>1 DEF CommitInv, InHand, Offsets, Parses, Msg
    <2>3. ASSUME NEW o \in rows PROVE Indexed(o)'
      <3>1. RowFor(o) \in index' /\ Msg(o)' = Msg(o)
        BY <2>1 DEF Msg
      <3>2. RowFor(o).rec = Msg(o).rec /\ RowFor(o).at = Msg(o).at
        BY DEF RowFor
      <3> QED
        BY <3>1, <3>2 DEF Indexed
    <2> QED
      BY <1>t, <2>1, <2>2, <2>3, OffsetKept, CommitKept
      DEF CommitInv, PastInsert, PastScore
  <1>13. CASE Score
    <2>1. /\ pc = "score" /\ pc' = "commit" /\ scored' = scored \cup rows
          /\ UNCHANGED <<log, cursor, committed, rows, reported, offset>>
      BY <1>13 DEF Score, Proceed, brokerVars
    <2>2. InHand'
      BY <2>1 DEF CommitInv, InHand, Offsets, Parses, Msg
    <2>3. PastInsert'
      BY <1>t, <2>1 DEF CommitInv, PastInsert, Kept, TypeOK
    <2> QED
      BY <1>t, <2>1, <2>2, <2>3, OffsetKept, CommitKept DEF CommitInv, PastScore
  <1>14. ASSUME pc = "commit", offset' = cursor PROVE CommittedMeansIndexed'
    BY <1>t, <1>14, CursorSettled, BehindIsOld, SettledStays
    DEF CommittedMeansIndexed
  <1>15. CASE Commit
    <2>1. /\ pc = "commit" /\ pc' = "run" /\ rows' = {} /\ UNCHANGED cursor
          /\ offset' = cursor /\ committed' = cursor
      BY <1>15 DEF Commit
    <2>2. CommittedMeansIndexed'
      BY <2>1, <1>14
    <2>3. BehindCommit'
      BY <2>1, <2>2 DEF BehindCommit, CommittedMeansIndexed
    <2>4. InHand'
      BY <1>t, <2>1 DEF InHand, TypeOK, Offsets
    <2> QED
      BY <1>t, <2>1, <2>2, <2>3, <2>4 DEF CommitInv, PastInsert, PastScore
  <1>16. CASE CommitFails
    <2>1. CommittedMeansIndexed'
      BY <1>t, <1>16, <1>14, OffsetKept DEF CommitFails
    <2> QED
      BY <1>t, <1>16, <2>1, RewindStep DEF CommitFails, SealFails, Discard
  <1> QED
    BY <1>1, <1>2, <1>3, <1>4, <1>5, <1>6, <1>7, <1>8, <1>9, <1>10, <1>11,
       <1>12, <1>13, <1>15, <1>16
    DEF Next, WorkerStep, WorkerFault, Broker

\* The committed offset never passes a record that is in neither the index
\* and the statistics nor the loss report, for any number of records, faults,
\* crashes and merges: the order of the calls in PackWorker::upload_and_index
\* and the rewind of PackWorker::discard are enough.
THEOREM CommitIsSafe == Spec => []CommittedMeansIndexed
  <1>1. Init => CommitInv
    BY TypeInit DEF Init, CommitInv, CommittedMeansIndexed, BehindCommit, InHand,
                    PastInsert, PastScore, Offsets
  <1>2. CommitInv => CommittedMeansIndexed
    BY DEF CommitInv
  <1> QED
    BY <1>1, <1>2, CommitNext, PTL DEF Spec

-----------------------------------------------------------------------------
(* Replays converge.                                                       *)

\* A log that grows by a message whose received_at is the one its record
\* already has, or whose record is new.
LEMMA KeyGrows ==
    ASSUME KeyInv, TypeOK', NEW m \in Message, log' = Append(log, m),
           UNCHANGED index,
           \A o \in Offsets : Msg(o).rec = m.rec => Msg(o).at = m.at
    PROVE  KeyInv'
  <1>1. /\ log \in Seq(Message) /\ Len(log) \in Nat
        /\ \A o \in Offsets : Msg(o)' = Msg(o)
        /\ Offsets' = Offsets \cup {Len(log)}
        /\ \A o : o = Len(log) => Msg(o)' = m
    <2>1. log \in Seq(Message) /\ Len(log) \in Nat
      BY DEF KeyInv, TypeOK
    <2>2. Len(log') = Len(log) + 1
      BY <2>1, AppendKeepsMessages
    <2>3. \A o \in Offsets : Msg(o)' = Msg(o)
      BY <2>1, AppendKeepsMessages DEF Offsets, Msg
    <2>4. \A o : o = Len(log) => Msg(o)' = m
      BY <2>1, AppendKeepsMessages DEF Msg
    <2> QED
      BY <2>1, <2>2, <2>3, <2>4 DEF Offsets
  <1>2. ASSUME NEW o \in Offsets', NEW p \in Offsets', Msg(o)'.rec = Msg(p)'.rec
        PROVE  Msg(o)'.at = Msg(p)'.at
    <2>1. CASE o \in Offsets /\ p \in Offsets
      BY <1>1, <1>2, <2>1 DEF KeyInv
    <2>2. CASE o = Len(log) \/ p = Len(log)
      <3>2. CASE o \in Offsets /\ p = Len(log)
        BY <1>1, <1>2, <3>2
      <3>3. CASE p \in Offsets /\ o = Len(log)
        BY <1>1, <1>2, <3>3
      <3>4. CASE o = Len(log) /\ p = Len(log)
        BY <1>1, <3>4
      <3> QED
        BY <1>1, <2>2, <3>2, <3>3, <3>4
    <2> QED
      BY <1>1, <2>1, <2>2
  <1>3. ASSUME NEW r \in index'
        PROVE  /\ r.off \in Offsets'
               /\ r.rec = Msg(r.off)'.rec /\ r.at = Msg(r.off)'.at
    BY <1>1, <1>3 DEF KeyInv
  <1> QED
    BY <1>2, <1>3 DEF KeyInv

\* The log stays and every row of the index is an old one or is built from a
\* message in hand.
LEMMA KeyStays ==
    ASSUME KeyInv, TypeOK', UNCHANGED log,
           index' \subseteq index \cup {RowFor(o) : o \in rows}
    PROVE  KeyInv'
  <1>1. Offsets' = Offsets /\ \A o \in Offsets : Msg(o)' = Msg(o)
    BY DEF Offsets, Msg
  <1>2. ASSUME NEW r \in index'
        PROVE  r.off \in Offsets /\ r.rec = Msg(r.off).rec /\ r.at = Msg(r.off).at
    <2>1. CASE r \in index
      BY <2>1 DEF KeyInv
    <2>2. ASSUME NEW o \in rows, r = RowFor(o)
          PROVE  r.off = o /\ r.rec = Msg(o).rec /\ r.at = Msg(o).at
      BY <2>2 DEF RowFor
    <2>3. rows \subseteq Offsets
      BY DEF KeyInv, TypeOK
    <2> QED
      BY <1>2, <2>1, <2>2, <2>3
  <1> QED
    BY <1>1, <1>2 DEF KeyInv

LEMMA KeyNext == KeyInv /\ [Next]_vars => KeyInv'
  <1> SUFFICES ASSUME KeyInv, [Next]_vars PROVE KeyInv'
    OBVIOUS
  <1>t. TypeOK /\ TypeOK'
    BY TypeNext DEF KeyInv
  <1>1. ASSUME NEW r \in Records, NEW k \in Kinds, Produce(r, k) PROVE KeyInv'
    <2>1. [rec |-> r, at |-> now, kind |-> k] \in Message
      BY <1>t, WorkerAssumption DEF Message, TypeOK
    <2> QED
      BY <1>t, <1>1, <2>1, KeyGrows DEF Produce, storeVars
  <1>2. ASSUME NEW rw \in Final, Reindex(rw) PROVE KeyInv'
    <2> DEFINE m == [rec |-> rw.rec, at |-> rw.at, kind |-> "ok"]
    <2>1. m \in Message /\ m.rec = rw.rec /\ m.at = rw.at
      BY <1>t DEF Message, Final, Row, TypeOK
    <2>2. \A o \in Offsets : Msg(o).rec = m.rec => Msg(o).at = m.at
      BY <2>1 DEF KeyInv, Final
    <2>3. log' = Append(log, m) /\ UNCHANGED index
      BY <1>2 DEF Reindex, storeVars
    <2> HIDE DEF m
    <2> QED
      BY <1>t, <2>1, <2>2, <2>3, KeyGrows
  <1>3. CASE Expire \/ Tick \/ UNCHANGED vars
    BY <1>t, <1>3, KeyStays
    DEF Expire, Tick, vars, workerVars, storeVars, brokerVars
  <1>4. CASE Boot \/ Crash \/ Exit \/ Shutdown
    BY <1>t, <1>4, KeyStays
    DEF Boot, Crash, Exit, Halt, Shutdown, storeVars, brokerVars
  <1>5. ASSUME NEW next \in 0 .. MaxLog, Fetch(next) PROVE KeyInv'
    BY <1>t, <1>5, KeyStays DEF Fetch, brokerVars
  <1>6. CASE AppendFails \/ SealBegin \/ HeadConfirms \/ HeadRefuses
    BY <1>t, <1>6, KeyStays
    DEF AppendFails, SealBegin, HeadConfirms, HeadRefuses, storeVars, brokerVars
  <1>7. CASE Put \/ PutFails \/ Commit \/ CommitFails
    BY <1>t, <1>7, KeyStays DEF Put, PutFails, Commit, CommitFails, brokerVars
  <1>8. CASE Insert \/ InsertFails
    BY <1>t, <1>8, KeyStays DEF Insert, InsertFails, InsertRows, brokerVars
  <1>9. CASE Score \/ ScoreFails
    BY <1>t, <1>9, KeyStays DEF Score, ScoreFails, brokerVars
  <1>10. ASSUME NEW rw \in index, Merge(rw) PROVE KeyInv'
    BY <1>t, <1>10, KeyStays DEF Merge, brokerVars
  <1> QED
    BY <1>1, <1>2, <1>3, <1>4, <1>5, <1>6, <1>7, <1>8, <1>9, <1>10
    DEF Next, WorkerStep, WorkerFault, Broker

\* All rows of a record share one sorting key, for any number of replays, so
\* the index converges onto one row per record whatever the broker redelivers.
THEOREM ReplaysAreIdempotent == Spec => []ReplaysConverge
  <1>1. Init => KeyInv
    BY TypeInit DEF Init, KeyInv, Offsets
  <1>2. KeyInv => ReplaysConverge
    BY DEF KeyInv, ReplaysConverge
  <1> QED
    BY <1>1, <1>2, KeyNext, PTL DEF Spec

-----------------------------------------------------------------------------
(* Replays never bring old bytes back.                                     *)

\* A bounded set of offsets has a largest one.
LEMMA LargestOffset ==
    ASSUME NEW n \in Nat, NEW S \in SUBSET (0 .. n), S # {}
    PROVE  \E m \in S : \A o \in S : o <= m
  <1> DEFINE T == {n - o : o \in S}
             R == {ss \in Nat \X Nat : ss[1] < ss[2]}
  <1>1. T \subseteq Nat /\ T # {}
    <2>1. \A o \in S : n - o \in Nat /\ n - o \in T
      OBVIOUS
    <2> QED
      BY <2>1
  <1>2. IsWellFoundedOn(R, Nat)
    BY NatLessThanWellFounded DEF OpToRel
  <1>3. PICK x \in T : \A y \in T : ~(<<y, x>> \in R)
    <2> HIDE DEF T, R
    <2> QED
      BY <1>1, <1>2, WFMin
  <1>4. ASSUME NEW y \in T PROVE x <= y
    <2>1. x \in Nat /\ y \in Nat
      BY <1>1
    <2>2. <<y, x>> \notin R
      BY <1>3
    <2> QED
      BY <2>1, <2>2
  <1>5. PICK m \in S : x = n - m
    OBVIOUS
  <1>6. ASSUME NEW o \in S PROVE o <= m
    <2>1. x <= n - o
      BY <1>4
    <2> QED
      BY <1>5, <2>1
  <1> QED
    BY <1>6

\* A row that is superseded by nothing in the index is superseded by nothing
\* in a smaller one, and a merge takes no such row away.
LEMMA FinalShrinks ==
    ASSUME NEW rw, rw \notin Final, index' = index \ {rw}
    PROVE  Final \subseteq Final'
  BY DEF Final, Supersedes

LEMMA ShownStays ==
    ASSUME TypeOK, Kept, Final \subseteq Final', NEW o \in Offsets, Shown(o)
    PROVE  Shown(o)'
  BY DEF Kept, Shown

LEMMA SameIndexSameFinal ==
    ASSUME UNCHANGED index
    PROVE  Final' = Final
  BY DEF Final, Supersedes

\* After an insert the newest row of every record in hand is the one built from
\* its last message in hand, and the rows of other records are as they were.
LEMMA InsertShows ==
    ASSUME KeyInv, InsertsAreNewer, InsertRows, UNCHANGED log
    PROVE  /\ \A o \in rows : Shown(o)'
           /\ \A r \in Final : (\A o \in rows : Msg(o).rec # r.rec) => r \in Final'
  <1>1. /\ rows \subseteq Offsets /\ index \subseteq Row /\ inserts \in Nat
        /\ Len(log) \in Nat
    BY DEF KeyInv, TypeOK
  <1>2. index' = index \cup {RowFor(o) : o \in rows}
    BY DEF InsertRows
  <1>3. \A o : /\ RowFor(o).rec = Msg(o).rec /\ RowFor(o).at = Msg(o).at
               /\ RowFor(o).off = o /\ RowFor(o).ver = inserts
    BY DEF RowFor
  <1>4. \A r \in index : r.ver \in Nat /\ r.ver < inserts
    BY <1>1 DEF InsertsAreNewer, Row
  <1>5. ASSUME NEW o \in rows PROVE Shown(o)'
    <2> DEFINE S == {p \in rows : Msg(p).rec = Msg(o).rec}
    <2>0. rows \subseteq 0 .. Len(log)
      BY <1>1 DEF Offsets
    <2>1. o \in S /\ S \in SUBSET (0 .. Len(log)) /\ S # {}
      BY <2>0
    <2>2. PICK m \in S : \A p \in S : p <= m
      <3> HIDE DEF S
      <3> QED
        BY <1>1, <2>1, LargestOffset
    <2>3. m \in Nat /\ o \in Nat /\ m \in rows /\ Msg(m).rec = Msg(o).rec /\ o <= m
      BY <1>1, <2>1, <2>2 DEF Offsets
    <2>4. RowFor(m) \in index'
      BY <1>2, <2>3
    <2>5. ASSUME NEW s \in index' PROVE ~Supersedes(s, RowFor(m))
      <3>1. CASE s \in index
        BY <1>1, <1>3, <1>4, <3>1 DEF Supersedes
      <3>2. CASE s \in {RowFor(p) : p \in rows}
        <4>1. PICK p \in rows : s = RowFor(p)
          BY <3>2
        <4>2. p \in Nat
          BY <1>1 DEF Offsets
        <4>3. s.rec = RowFor(m).rec => p <= m
          BY <1>3, <2>2, <2>3, <4>1
        <4> QED
          BY <1>1, <1>3, <2>3, <4>1, <4>2, <4>3 DEF Supersedes
      <3> QED
        BY <1>2, <3>1, <3>2
    <2>6. RowFor(m) \in Final'
      BY <2>4, <2>5 DEF Final, Supersedes
    <2>7. Msg(o)' = Msg(o)
      BY DEF Msg
    <2> QED
      BY <1>3, <2>3, <2>6, <2>7 DEF Shown
  <1>6. ASSUME NEW r \in Final, \A o \in rows : Msg(o).rec # r.rec
        PROVE  r \in Final'
    BY <1>2, <1>3, <1>6 DEF Final, Supersedes
  <1> QED
    BY <1>5, <1>6

\* So an insert of messages behind nothing that was committed keeps the newest
\* content of everything committed.
LEMMA InsertServes ==
    ASSUME NewestInv, InsertRows, ~unheard, pc # "down",
           UNCHANGED <<log, offset, reported>>
    PROVE  ServesNewest'
  <1>1. Offsets' = Offsets /\ \A o : Msg(o)' = Msg(o) /\ Parses(o)' = Parses(o)
    BY DEF Offsets, Msg, Parses
  <1>2. /\ \A o \in rows : Shown(o)'
        /\ \A r \in Final : (\A o \in rows : Msg(o).rec # r.rec) => r \in Final'
    BY InsertShows DEF NewestInv
  <1>3. ASSUME NEW o \in Offsets, o < offset, Parses(o), o \notin reported
        PROVE  Shown(o)'
    <2>1. PICK r \in Final : r.rec = Msg(o).rec /\ r.off >= o
      BY <1>3 DEF NewestInv, NewestContentServed, ServesNewest
    <2>2. CASE \E p \in rows : Msg(p).rec = r.rec
      <3>1. PICK p \in rows : Msg(p).rec = Msg(o).rec
        BY <2>1, <2>2
      <3>2. o < p /\ o \in Nat /\ p \in Nat
        <4>1. p \in Offsets /\ offset <= p
          BY DEF NewestInv, WorksFromTheOffset, KeyInv, TypeOK
        <4>2. offset \in Nat /\ o \in Nat /\ p \in Nat
          BY <4>1 DEF NewestInv, KeyInv, TypeOK, Offsets
        <4> QED
          BY <1>3, <4>1, <4>2
      <3>3. PICK t \in Final' : t.rec = Msg(p)'.rec /\ t.off >= p
        BY <1>2 DEF Shown
      <3>4. t.off \in Int
        <4>1. index' \subseteq Row
          BY RowForType DEF InsertRows, NewestInv, KeyInv, TypeOK
        <4> QED
          BY <3>3, <4>1 DEF Final, Row
      <3> QED
        BY <1>1, <3>1, <3>2, <3>3, <3>4 DEF Shown
    <2>3. CASE ~\E p \in rows : Msg(p).rec = r.rec
      BY <1>1, <1>2, <2>1, <2>3 DEF Shown
    <2> QED
      BY <2>2, <2>3
  <1> QED
    BY <1>1, <1>3 DEF ServesNewest, Shown

LEMMA ServesStays ==
    ASSUME TypeOK, TypeOK', Kept, Final \subseteq Final', UNCHANGED offset,
           ServesNewest
    PROVE  ServesNewest'
  <1> SUFFICES ASSUME NEW o \in Offsets', o < offset, Parses(o)', o \notin reported'
               PROVE  Shown(o)'
    BY DEF ServesNewest, Shown
  <1>1. o \in Offsets
    BY BehindIsOld
  <1>2. Parses(o) /\ o \notin reported
    BY <1>1 DEF Kept, Parses
  <1>3. Shown(o)
    BY <1>1, <1>2 DEF ServesNewest, Shown
  <1> QED
    BY <1>1, <1>3, ShownStays

\* Steps that insert nothing and move neither offset: what is left to show is
\* that the rows in hand, if any are left, are those shown before.
LEMMA NoInsertStep ==
    ASSUME NewestInv, CommitInv', KeyInv', Kept, Final \subseteq Final',
           index' \subseteq index, UNCHANGED <<inserts, offset, unheard>>,
           WorksFromTheOffset',
           pc' \in {"score", "commit"} =>
               pc \in {"score", "commit"} /\ rows' \subseteq rows
    PROVE  NewestInv'
  <1>1. NewestContentServed'
    BY ServesStays DEF NewestInv, CommitInv, NewestContentServed
  <1>2. InsertsAreNewer'
    BY DEF NewestInv, InsertsAreNewer
  <1>3. PastInsertShown'
    BY ShownStays DEF NewestInv, CommitInv, PastInsertShown, TypeOK
  <1> QED
    BY <1>1, <1>2, <1>3 DEF NewestInv

LEMMA InsertIsNewer ==
    ASSUME NewestInv, InsertRows \/ UNCHANGED <<index, inserts>>
    PROVE  InsertsAreNewer'
  <1>1. \A r \in index : r.ver \in Nat /\ r.ver < inserts
    BY DEF NewestInv, InsertsAreNewer, CommitInv, TypeOK, Row
  <1>2. inserts \in Nat
    BY DEF NewestInv, CommitInv, TypeOK
  <1>3. \A o : RowFor(o).ver = inserts
    BY DEF RowFor
  <1>4. CASE InsertRows /\ rows = {}
    BY <1>1, <1>4 DEF InsertRows, InsertsAreNewer
  <1>5. CASE InsertRows /\ rows # {}
    <2>1. inserts' = inserts + 1 /\ index' = index \cup {RowFor(o) : o \in rows}
      BY <1>5 DEF InsertRows
    <2>2. ASSUME NEW r \in index' PROVE r.ver < inserts'
      BY <1>1, <1>2, <1>3, <2>1
    <2> QED
      BY <2>2 DEF InsertsAreNewer
  <1>6. CASE UNCHANGED <<index, inserts>>
    BY <1>1, <1>6 DEF InsertsAreNewer
  <1> QED
    BY <1>4, <1>5, <1>6

LEMMA NewestNext == NewestInv /\ [Next]_vars => NewestInv'
  <1> SUFFICES ASSUME NewestInv, [Next]_vars PROVE NewestInv'
    OBVIOUS
  <1>t. /\ CommitInv /\ KeyInv /\ TypeOK /\ WorksFromTheOffset
        /\ CommitInv' /\ KeyInv' /\ TypeOK' /\ Kept
    BY CommitNext, KeyNext, EveryStepKeeps DEF NewestInv, CommitInv
  <1>s. ASSUME UNCHANGED index PROVE Final \subseteq Final' /\ index' \subseteq index
    BY <1>s, SameIndexSameFinal
  <1>1. ASSUME NEW r \in Records, NEW k \in Kinds, Produce(r, k) PROVE NewestInv'
    BY <1>t, <1>s, <1>1, NoInsertStep
    DEF Produce, workerVars, storeVars, WorksFromTheOffset
  <1>2. ASSUME NEW rw \in Final, Reindex(rw) PROVE NewestInv'
    BY <1>t, <1>s, <1>2, NoInsertStep
    DEF Reindex, workerVars, storeVars, WorksFromTheOffset
  <1>3. CASE Expire \/ Tick \/ UNCHANGED vars
    BY <1>t, <1>s, <1>3, NoInsertStep
    DEF Expire, Tick, vars, workerVars, storeVars, WorksFromTheOffset
  <1>4. CASE Boot
    <2>1. WorksFromTheOffset'
      BY <1>t, <1>4 DEF Boot, storeVars, WorksFromTheOffset
    <2> QED
      BY <1>t, <1>s, <1>4, <2>1, NoInsertStep DEF Boot, storeVars
  <1>5. CASE Crash \/ Exit
    BY <1>t, <1>s, <1>5, NoInsertStep
    DEF Crash, Exit, Halt, storeVars, WorksFromTheOffset
  <1>6. CASE Shutdown
    BY <1>t, <1>s, <1>6, NoInsertStep DEF Shutdown, storeVars, WorksFromTheOffset
  <1>7. ASSUME NEW next \in 0 .. MaxLog, Fetch(next) PROVE NewestInv'
    <2>1. /\ pc = "run" /\ pc' = "run"
          /\ UNCHANGED <<index, inserts, offset, unheard, committed>>
      BY <1>7 DEF Fetch
    <2>2. \A o \in rows' : o \in rows \/ committed <= o
      <3>1. rows' \subseteq rows \cup (StartOffset .. (next - 1))
        BY <1>7, Zenon DEF Fetch, AppendBatch
      <3>2. committed \in Nat /\ StartOffset \in Nat /\ committed <= StartOffset
        BY <1>t DEF TypeOK, StartOffset
      <3> QED
        BY <3>1, <3>2
    <2>3. WorksFromTheOffset'
      BY <1>t, <2>1, <2>2 DEF WorksFromTheOffset
    <2> QED
      BY <1>t, <1>s, <2>1, <2>3, NoInsertStep
  <1>8. CASE AppendFails \/ HeadRefuses
    BY <1>t, <1>s, <1>8, NoInsertStep
    DEF AppendFails, HeadRefuses, SealFails, Discard, storeVars, WorksFromTheOffset
  <1>9. CASE PutFails \/ ScoreFails
    BY <1>t, <1>s, <1>9, NoInsertStep
    DEF PutFails, ScoreFails, SealFails, Discard, WorksFromTheOffset
  <1>10. CASE SealBegin \/ Put \/ HeadConfirms
    BY <1>t, <1>s, <1>10, NoInsertStep
    DEF SealBegin, Put, HeadConfirms, Proceed, storeVars, WorksFromTheOffset
  <1>11. CASE Score
    BY <1>t, <1>s, <1>11, NoInsertStep DEF Score, Proceed, WorksFromTheOffset
  <1>12. CASE Insert
    <2>1. /\ InsertRows /\ pc = "insert" /\ pc' = "score"
          /\ UNCHANGED <<log, offset, reported, rows, committed, unheard>>
      BY <1>12 DEF Insert, Proceed, brokerVars
    <2>2. NewestContentServed'
      BY <2>1, InsertServes DEF NewestContentServed
    <2>3. PastInsertShown'
      BY <1>t, <2>1, InsertShows DEF NewestInv, PastInsertShown
    <2>4. WorksFromTheOffset'
      BY <1>t, <2>1 DEF WorksFromTheOffset
    <2> QED
      BY <1>t, <2>1, <2>2, <2>3, <2>4, InsertIsNewer DEF NewestInv
  <1>13. CASE InsertFails
    <2>1. /\ InsertRows \/ UNCHANGED <<index, inserts>>
          /\ pc = "insert" /\ pc' = "run" /\ rows' = {}
          /\ UNCHANGED <<log, offset, reported, committed, unheard>>
      BY <1>13 DEF InsertFails, SealFails, Discard, brokerVars
    <2>2. NewestContentServed'
      <3>1. CASE InsertRows
        BY <2>1, <3>1, InsertServes DEF NewestContentServed
      <3>2. CASE UNCHANGED index
        BY <1>t, <1>s, <2>1, <3>2, ServesStays DEF NewestInv, NewestContentServed
      <3> QED
        BY <2>1, <3>1, <3>2
    <2>3. PastInsertShown'
      BY <2>1 DEF PastInsertShown
    <2>4. WorksFromTheOffset'
      BY <1>t, <2>1 DEF WorksFromTheOffset
    <2> QED
      BY <1>t, <2>1, <2>2, <2>3, <2>4, InsertIsNewer DEF NewestInv
  <1>14. CASE Commit
    <2>1. /\ pc = "commit" /\ pc' = "run" /\ rows' = {}
          /\ offset' = cursor /\ committed' = cursor
          /\ UNCHANGED <<log, index, inserts, reported, unheard>>
      BY <1>14 DEF Commit, brokerVars
    <2>2. Final' = Final
      BY <2>1, SameIndexSameFinal
    <2>3. ASSUME ~unheard PROVE ServesNewest'
      <3>1. ASSUME NEW o \in Offsets, o < cursor, Parses(o), o \notin reported
            PROVE  Shown(o)
        <4>1. CASE o < committed
          BY <2>1, <2>3, <3>1, <4>1
          DEF NewestInv, NewestContentServed, ServesNewest, WorksFromTheOffset, Shown
        <4>2. CASE committed <= o
          <5>1. o \in rows
            BY <1>t, <2>1, <3>1, <4>2 DEF CommitInv, InHand
          <5> QED
            BY <2>1, <5>1 DEF NewestInv, PastInsertShown
        <4> QED
          BY <1>t, <4>1, <4>2 DEF TypeOK, Offsets
      <3>2. Offsets' = Offsets /\ \A o : Msg(o)' = Msg(o) /\ Parses(o)' = Parses(o)
        BY <2>1 DEF Offsets, Msg, Parses
      <3> QED
        BY <2>1, <2>2, <3>1, <3>2 DEF ServesNewest, Shown
    <2>4. NewestContentServed'
      BY <2>1, <2>3 DEF NewestContentServed
    <2>5. WorksFromTheOffset' /\ PastInsertShown'
      BY <2>1 DEF WorksFromTheOffset, PastInsertShown
    <2> QED
      BY <1>t, <2>1, <2>4, <2>5, InsertIsNewer DEF NewestInv
  <1>15. CASE CommitFails
    <2>1. CASE UNCHANGED <<offset, unheard>>
      BY <1>t, <1>s, <1>15, <2>1, NoInsertStep
      DEF CommitFails, SealFails, Discard, WorksFromTheOffset
    <2>2. CASE unheard' = TRUE
      BY <1>t, <1>15, <2>2, InsertIsNewer
      DEF CommitFails, SealFails, Discard, NewestInv, NewestContentServed,
          WorksFromTheOffset, PastInsertShown
    <2> QED
      BY <1>15, <2>1, <2>2 DEF CommitFails
  <1>16. ASSUME NEW rw \in index, Merge(rw) PROVE NewestInv'
    BY <1>t, <1>16, FinalShrinks, NoInsertStep
    DEF Merge, workerVars, WorksFromTheOffset
  <1> QED
    BY <1>1, <1>2, <1>3, <1>4, <1>5, <1>6, <1>7, <1>8, <1>9, <1>10, <1>11,
       <1>12, <1>13, <1>14, <1>15, <1>16
    DEF Next, WorkerStep, WorkerFault, Broker

\* As long as no commit landed without its answer, a reader gets for every
\* committed record bytes at least as new as its newest committed message, at
\* every moment of any number of replays, merges and crashes: the worker only
\* ever inserts messages at or after the stored offset.
THEOREM NewestStaysServed == Spec => []NewestContentServed
  <1>1. Init => NewestInv
    <2> SUFFICES ASSUME Init PROVE NewestInv
      OBVIOUS
    <2>1. CommitInv /\ KeyInv
      BY TypeInit DEF Init, CommitInv, CommittedMeansIndexed, BehindCommit, InHand,
                      PastInsert, PastScore, Offsets, KeyInv
    <2> QED
      BY <2>1 DEF Init, NewestInv, NewestContentServed, ServesNewest, Offsets,
                  InsertsAreNewer, WorksFromTheOffset, PastInsertShown
  <1>2. NewestInv => NewestContentServed
    BY DEF NewestInv
  <1> QED
    BY <1>1, <1>2, NewestNext, PTL DEF Spec

(***************************************************************************)
(* The collector never deletes an object a row needs, for any grace period *)
(* longer than the two windows together.  First the types.                 *)
(***************************************************************************)

\* What a step of the worker or its environment does to the collector.
Beside == (gc' = "idle" /\ GcIdle) \/ UNCHANGED gcVars

LEMMA ObjectsNeverShrink ==
    ASSUME TypeOK, [Next]_vars
    PROVE  Len(objects) <= Len(objects')
  <1>1. Len(objects) \in Nat
    BY DEF TypeOK
  <1>2. ASSUME NEW b \in {"short", "whole"}, pc = "put", Store(b)
        PROVE  Len(objects') = Len(objects)
    <2>1. [body |-> b, at |-> now] \in Object /\ open \in 1 .. Len(objects)
      BY <1>2 DEF Object, TypeOK
    <2> QED
      BY <1>2, <2>1, ExceptSeq DEF Store, TypeOK
  <1>3. CASE Put \/ PutFails
    BY <1>1, <1>2, <1>3 DEF Put, PutFails
  <1>4. ASSUME NEW next \in 0 .. MaxLog, Fetch(next)
        PROVE  Len(objects) <= Len(objects')
    <2>1. [body |-> "none", at |-> 0] \in Object
      BY DEF Object
    <2>2. \/ objects' = objects
          \/ objects' = Append(objects, [body |-> "none", at |-> 0])
      BY <1>4 DEF Fetch, AppendBatch, Decodes
    <2> QED
      BY <1>1, <2>1, <2>2, AppendProperties DEF TypeOK
  <1>5. CASE UNCHANGED objects
    BY <1>1, <1>5
  <1> QED
    BY <1>3, <1>4, <1>5
    DEF Next, WorkerStep, WorkerFault, Broker, Produce, Reindex, Expire, Boot,
        Crash, Exit, Halt, Shutdown, AppendFails, SealBegin, HeadConfirms,
        HeadRefuses, Insert, InsertFails, Score, ScoreFails, Commit, CommitFails,
        Merge, Tick, vars, storeVars

LEMMA CollectorTypeNext ==
    CollectorTypeOK /\ [CollectorNext]_allVars => CollectorTypeOK'
  <1> SUFFICES ASSUME CollectorTypeOK, [CollectorNext]_allVars
               PROVE  CollectorTypeOK'
    OBVIOUS
  <1>t. TypeOK
    BY DEF CollectorTypeOK
  <1>0. 1 .. Len(objects) \subseteq Nat
    BY <1>t DEF TypeOK
  <1>1. ASSUME [Next]_vars, Beside PROVE CollectorTypeOK'
    <2>1. TypeOK' /\ Len(objects) <= Len(objects')
      BY <1>t, <1>1, TypeNext, ObjectsNeverShrink
    <2>2. Len(objects) \in Nat /\ Len(objects') \in Nat
      <3>1. objects \in Seq(Object) /\ objects' \in Seq(Object)
        BY <1>t, <2>1 DEF TypeOK, Object
      <3> QED
        BY <3>1, LenProperties
    <2>3. 1 .. Len(objects) \subseteq 1 .. Len(objects')
      BY <2>1, <2>2
    <2>4. CASE GcIdle
      BY <2>1, <2>4 DEF CollectorTypeOK, GcIdle
    <2>5. CASE UNCHANGED gcVars
      BY <2>1, <2>3, <2>5 DEF CollectorTypeOK, gcVars
    <2> QED
      BY <1>1, <2>4, <2>5 DEF Beside
  <1>2. CASE WorkerBeside
    BY <1>1, <1>2 DEF WorkerBeside, Beside, GcIdle
  <1>3. CASE UNCHANGED allVars
    BY <1>1, <1>3 DEF allVars, Beside
  <1>4. ASSUME UNCHANGED vars PROVE TypeOK' /\ UNCHANGED objects
    BY <1>t, <1>4, TypeNext DEF vars, storeVars
  <1>5. CASE GcManifest
    <2>1. manifest' \subseteq {r.pack : r \in index}
      BY <1>5 DEF GcManifest
    <2>2. {r.pack : r \in index} \subseteq Nat
      BY <1>t DEF TypeOK, Row
    <2>3. manifestAt' \in Nat
      BY <1>t, <1>5 DEF GcManifest, TypeOK
    <2> QED
      BY <1>4, <1>5, <2>1, <2>2, <2>3 DEF GcManifest, CollectorTypeOK
  <1>6. CASE GcList
    BY <1>4, <1>6 DEF GcList, CollectorTypeOK, Orphans
  <1>7. CASE GcDone
    BY <1>4, <1>7 DEF GcDone, GcIdle, CollectorTypeOK
  <1>8. CASE GcFails
    <2>1. TypeOK'
      BY <1>t, <1>8 DEF GcFails, Fault, TypeOK, Offsets, brokerVars, workerVars,
                        storeVars
    <2> QED
      BY <1>8, <2>1 DEF GcFails, GcIdle, CollectorTypeOK
  <1>9. ASSUME NEW k \in victims, GcDelete(k) PROVE CollectorTypeOK'
    <2>1. k \in 1 .. Len(objects) /\ objects \in Seq(Object)
      BY DEF CollectorTypeOK, TypeOK
    <2>2. [objects[k] EXCEPT !.body = "none"] \in Object
      <3>1. objects[k] \in Object
        BY <2>1, ElementOfSeq
      <3> QED
        BY <3>1 DEF Object
    <2>3. objects' = [objects EXCEPT ![k] = [objects[k] EXCEPT !.body = "none"]]
      BY <1>9 DEF GcDelete
    <2>4. objects' \in Seq(Object) /\ Len(objects') = Len(objects)
      BY <2>1, <2>2, <2>3, ExceptSeq
    <2>5. TypeOK'
      BY <1>t, <1>9, <2>4 DEF GcDelete, TypeOK, Offsets, brokerVars, workerVars
    <2> QED
      BY <1>9, <2>4, <2>5 DEF GcDelete, CollectorTypeOK
  <1> QED
    BY <1>2, <1>3, <1>5, <1>6, <1>7, <1>8, <1>9 DEF CollectorNext, Collector

-----------------------------------------------------------------------------
(* No row loses its object.                                                *)

LEMMA PackIsMinted ==
    ASSUME TypeOK, pc \notin {"down", "run"}
    PROVE  open \in 1 .. Len(objects)
  BY DEF TypeOK

\* Where the worker may go without touching the bucket or adding rows.
Place == \/ pc' \in {"down", "run"} /\ open' = 0
         \/ UNCHANGED <<pc, open>>
         \/ pc = "down" /\ pc' = "run" /\ UNCHANGED open
         \/ pc = "run" /\ pc' = "put" /\ UNCHANGED open
         \/ pc = "head" /\ pc' = "insert" /\ UNCHANGED open
                /\ objects[open].body = "whole"
         \/ pc = "score" /\ pc' = "commit" /\ UNCHANGED open

LEMMA PlaceStep ==
    ASSUME ReadableInv, CollectorTypeOK', Beside, Place,
           UNCHANGED <<objects, now>>, index' \subseteq index
    PROVE  ReadableInv'
  <1>0. RowsWhole /\ NoneOpen /\ FreshPack
    BY DEF ReadableInv
  <1>1. RowsWhole' /\ NoneOpen'
    BY <1>0 DEF RowsWhole, NoneOpen, Place
  <1>2. FreshPack'
    <2>1. \A r \in index' : r.pack # 0
      BY <1>0 DEF RowsWhole
    <2> QED
      BY <1>0, <2>1 DEF FreshPack, NoneOpen, Writing, Place
  <1>3. NotStored'
    BY <1>0 DEF ReadableInv, NotStored, NoneOpen, Place
  <1>4. InTime' /\ Confirmed'
    BY DEF ReadableInv, InTime, Confirmed, Place
  <1>5. ListInTime'
    BY DEF ReadableInv, ListInTime, Beside, gcVars
  <1>6. VictimsIdle'
    <2>1. 0 \notin victims
      BY DEF ReadableInv, CollectorTypeOK
    <2> QED
      BY <1>0, <2>1 DEF ReadableInv, VictimsIdle, NoneOpen, Writing, Beside,
                        gcVars, Place
  <1> QED
    BY <1>1, <1>2, <1>3, <1>4, <1>5, <1>6 DEF ReadableInv

\* A new pack has a key no row and no victim has.
LEMMA OpenStep ==
    ASSUME ReadableInv, CollectorTypeOK', Beside,
           pc = "run", open = 0, UNCHANGED <<pc, now, index>>,
           open' = Len(objects) + 1,
           objects' = Append(objects, [body |-> "none", at |-> 0])
    PROVE  ReadableInv'
  <1>1. objects \in Seq(Object) /\ [body |-> "none", at |-> 0] \in Object
    BY DEF ReadableInv, CollectorTypeOK, TypeOK, Object
  <1>2. /\ Len(objects) \in Nat /\ Len(objects') = Len(objects) + 1
        /\ \A k \in 1 .. Len(objects) : objects'[k] = objects[k]
        /\ objects'[open'] = [body |-> "none", at |-> 0]
    BY <1>1, AppendProperties
  <1>3. RowsWhole /\ victims \subseteq 1 .. Len(objects)
    BY DEF ReadableInv, CollectorTypeOK
  <1>4. RowsWhole'
    BY <1>2, <1>3 DEF RowsWhole
  <1>5. FreshPack' /\ NoneOpen' /\ NotStored' /\ InTime' /\ Confirmed'
    BY <1>2, <1>3 DEF RowsWhole, FreshPack, NoneOpen, NotStored, InTime, Confirmed
  <1>6. ListInTime'
    BY <1>2, <1>3 DEF ReadableInv, ListInTime, RowsWhole, Beside, gcVars
  <1>7. VictimsIdle'
    BY <1>2, <1>3 DEF ReadableInv, VictimsIdle, Beside, gcVars
  <1> QED
    BY <1>4, <1>5, <1>6, <1>7 DEF ReadableInv

\* An upload writes the one object no row points at, and stamps it now.
LEMMA StoreStep ==
    ASSUME ReadableInv, CollectorTypeOK', Beside, UNCHANGED <<now, index>>,
           pc = "put", NEW b \in {"short", "whole"}, Store(b),
           \/ pc' = "head" /\ UNCHANGED open
           \/ pc' = "run" /\ open' = 0
    PROVE  ReadableInv'
  <1>1. /\ objects \in Seq(Object) /\ [body |-> b, at |-> now] \in Object
        /\ open \in 1 .. Len(objects) /\ now \in Nat /\ SealWindow \in Nat
    BY WorkerAssumption DEF ReadableInv, CollectorTypeOK, TypeOK, Object
  <1>2. /\ Len(objects') = Len(objects)
        /\ \A k \in 1 .. Len(objects) : k # open => objects'[k] = objects[k]
        /\ objects'[open] = [body |-> b, at |-> now]
    BY <1>1, ExceptSeq DEF Store
  <1>3. RowsWhole /\ \A r \in index : r.pack # open
    BY DEF ReadableInv, FreshPack, Writing
  <1>4. RowsWhole'
    BY <1>2, <1>3 DEF RowsWhole
  <1>5. FreshPack' /\ NoneOpen' /\ NotStored' /\ Confirmed'
    BY <1>3 DEF RowsWhole, FreshPack, NoneOpen, NotStored, Confirmed
  <1>6. InTime'
    BY <1>1, <1>2 DEF InTime
  <1>7. ListInTime'
    BY <1>2, <1>3 DEF ReadableInv, ListInTime, RowsWhole, Beside, gcVars
  <1>8. VictimsIdle'
    <2>1. 0 \notin victims
      BY DEF ReadableInv, CollectorTypeOK
    <2> QED
      BY <2>1 DEF ReadableInv, VictimsIdle, Writing, Beside, gcVars
  <1> QED
    BY <1>4, <1>5, <1>6, <1>7, <1>8 DEF ReadableInv

\* An insert adds rows of the open pack: confirmed whole, stamped within the
\* window, and no victim.
LEMMA InsertStep ==
    ASSUME ReadableInv, CollectorTypeOK', Beside, UNCHANGED <<now, objects>>,
           pc = "insert", InsertRows,
           \/ pc' = "score" /\ UNCHANGED open
           \/ pc' = "run" /\ open' = 0
    PROVE  ReadableInv'
  <1>1. \A r \in index' : r \in index \/ r.pack = open
    <2>1. \A o \in rows : RowFor(o).pack = open
      BY DEF RowFor
    <2> QED
      BY <2>1 DEF InsertRows
  <1>2. /\ RowsWhole /\ open \in 1 .. Len(objects)
        /\ objects[open].body = "whole" /\ now <= objects[open].at + SealWindow
    BY PackIsMinted DEF ReadableInv, CollectorTypeOK, Confirmed, InTime
  <1>3. RowsWhole'
    BY <1>1, <1>2 DEF RowsWhole
  <1>4. FreshPack'
    <2>1. \A r \in index' : r.pack # 0
      BY <1>1, <1>2 DEF RowsWhole
    <2> QED
      BY <2>1 DEF FreshPack, Writing
  <1>5. NoneOpen' /\ NotStored' /\ InTime' /\ Confirmed'
    BY DEF NoneOpen, NotStored, InTime, Confirmed
  <1>6. ListInTime'
    <2>1. /\ now \in Nat /\ manifestAt \in Nat /\ SealWindow \in Nat
          /\ objects[open].at \in Nat
      <3>1. objects[open] \in Object
        BY <1>2, ElementOfSeq DEF ReadableInv, CollectorTypeOK, TypeOK
      <3> QED
        BY <3>1, WorkerAssumption DEF ReadableInv, CollectorTypeOK, TypeOK, Object
    <2>2. gc = "list" => objects[open].at + SealWindow >= manifestAt
      BY <1>2, <2>1 DEF ReadableInv, ListInTime
    <2> QED
      BY <1>1, <2>2 DEF ReadableInv, ListInTime, Beside, gcVars
  <1>7. VictimsIdle'
    <2>1. 0 \notin victims
      BY DEF ReadableInv, CollectorTypeOK
    <2>2. gc = "delete" => open \notin victims
      BY DEF ReadableInv, VictimsIdle, Writing
    <2> QED
      BY <1>1, <2>1, <2>2 DEF ReadableInv, VictimsIdle, Writing, Beside, gcVars
  <1> QED
    BY <1>3, <1>4, <1>5, <1>6, <1>7 DEF ReadableInv

\* Time passes only within the two windows.
LEMMA TickStep ==
    ASSUME ReadableInv, CollectorTypeOK', Beside, Tick,
           gc = "list" => now < manifestAt + GcWindow
    PROVE  ReadableInv'
  <1>1. /\ UNCHANGED <<pc, open, objects, index>> /\ now' = now + 1
        /\ pc \in {"head", "insert"} => now < objects[open].at + SealWindow
    BY DEF Tick, workerVars, storeVars
  <1>2. /\ RowsWhole' /\ NoneOpen' /\ FreshPack' /\ NotStored' /\ Confirmed'
    BY <1>1 DEF ReadableInv, RowsWhole, NoneOpen, FreshPack, Writing, NotStored,
                Confirmed
  <1>3. InTime'
    <2>1. pc \in {"head", "insert"} => /\ now \in Nat /\ SealWindow \in Nat
                                       /\ objects[open].at \in Nat
      <3>1. pc \in {"head", "insert"} => objects[open] \in Object
        BY PackIsMinted, ElementOfSeq DEF ReadableInv, CollectorTypeOK, TypeOK
      <3> QED
        BY <3>1, WorkerAssumption DEF ReadableInv, CollectorTypeOK, TypeOK, Object
    <2> QED
      BY <1>1, <2>1 DEF InTime
  <1>4. ListInTime'
    <2>1. now \in Nat /\ manifestAt \in Nat /\ GcWindow \in Nat
      BY CollectorAssumption DEF ReadableInv, CollectorTypeOK, TypeOK
    <2> QED
      BY <1>1, <2>1 DEF ReadableInv, ListInTime, Beside, gcVars
  <1>5. VictimsIdle'
    BY <1>1 DEF ReadableInv, VictimsIdle, Writing, Beside, gcVars
  <1> QED
    BY <1>2, <1>3, <1>4, <1>5 DEF ReadableInv

\* The listing names no pack a row needs: a row the manifest missed was
\* inserted after it, from an upload no older than the two windows.
LEMMA ListStep ==
    ASSUME ReadableInv, CollectorTypeOK', GcList
    PROVE  ReadableInv'
  <1>1. /\ UNCHANGED <<pc, open, objects, index, now>>
        /\ gc = "list" /\ gc' = "delete" /\ victims' = Orphans
    BY DEF GcList, vars, workerVars, storeVars
  <1>2. /\ RowsWhole' /\ NoneOpen' /\ FreshPack' /\ NotStored' /\ InTime'
        /\ Confirmed' /\ ListInTime'
    BY <1>1 DEF ReadableInv, RowsWhole, NoneOpen, FreshPack, Writing, NotStored,
                InTime, Confirmed, ListInTime
  <1>3. \A k \in 1 .. Len(objects) : objects[k].at \in Nat
    <2>1. \A k \in 1 .. Len(objects) : objects[k] \in Object
      BY ElementOfSeq DEF ReadableInv, CollectorTypeOK, TypeOK
    <2> QED
      BY <2>1 DEF Object
  <1>4. /\ now \in Nat /\ manifestAt \in Nat /\ SealWindow \in Nat
        /\ Grace \in Nat /\ GcWindow \in Nat /\ SealWindow + GcWindow < Grace
    BY WorkerAssumption, CollectorAssumption DEF ReadableInv, CollectorTypeOK, TypeOK
  <1>5. ASSUME NEW r \in index PROVE r.pack \notin Orphans
    <2>1. r.pack \in 1 .. Len(objects)
      BY DEF ReadableInv, RowsWhole
    <2>2. /\ now <= manifestAt + GcWindow
          /\ \/ r.pack \in manifest
             \/ objects[r.pack].at + SealWindow >= manifestAt
      BY <1>1 DEF ReadableInv, ListInTime
    <2>3. ASSUME objects[r.pack].at + SealWindow >= manifestAt
          PROVE  ~(now - objects[r.pack].at >= Grace)
      BY <1>3, <1>4, <2>1, <2>2, <2>3
    <2> QED
      BY <2>2, <2>3 DEF Orphans
  <1>6. Writing => open \notin Orphans
    <2>1. CASE pc \in {"run", "put"}
      BY <2>1 DEF ReadableInv, NotStored, Orphans
    <2>2. CASE pc \in {"head", "insert"}
      <3>1. open \in 1 .. Len(objects) /\ now <= objects[open].at + SealWindow
        BY <2>2, PackIsMinted DEF ReadableInv, InTime, CollectorTypeOK
      <3>2. ~(now - objects[open].at >= Grace)
        BY <1>3, <1>4, <3>1
      <3> QED
        BY <3>2 DEF Orphans
    <2> QED
      BY <2>1, <2>2 DEF Writing
  <1>7. VictimsIdle'
    BY <1>1, <1>5, <1>6 DEF VictimsIdle, Writing
  <1> QED
    BY <1>2, <1>7 DEF ReadableInv

\* A delete takes a victim, which no row points at.
LEMMA DeleteStep ==
    ASSUME ReadableInv, CollectorTypeOK', NEW k \in victims, GcDelete(k)
    PROVE  ReadableInv'
  <1>1. /\ UNCHANGED <<pc, open, index, now>> /\ gc = "delete" /\ gc' = "delete"
        /\ victims' = victims \ {k}
        /\ objects' = [objects EXCEPT ![k].body = "none"]
    BY DEF GcDelete, workerVars
  <1>2. /\ objects \in Seq(Object) /\ k \in 1 .. Len(objects)
    BY DEF ReadableInv, CollectorTypeOK, TypeOK
  <1>3. [objects[k] EXCEPT !.body = "none"] \in Object
    <2>1. objects[k] \in Object
      BY <1>2, ElementOfSeq
    <2> QED
      BY <2>1 DEF Object
  <1>4. /\ Len(objects') = Len(objects)
        /\ \A j \in 1 .. Len(objects) : j # k => objects'[j] = objects[j]
        /\ objects'[k].body = "none"
    <2>1. objects' = [objects EXCEPT ![k] = [objects[k] EXCEPT !.body = "none"]]
      BY <1>1
    <2>2. /\ Len(objects') = Len(objects)
          /\ \A j \in 1 .. Len(objects) :
                objects'[j] = IF j = k THEN [objects[k] EXCEPT !.body = "none"]
                              ELSE objects[j]
      BY <1>2, <1>3, <2>1, ExceptSeq
    <2>3. objects'[k] = [objects[k] EXCEPT !.body = "none"]
      BY <1>2, <2>2
    <2>4. objects[k] \in Object
      BY <1>2, ElementOfSeq
    <2> QED
      BY <1>2, <2>2, <2>3, <2>4 DEF Object
  <1>5. (\A r \in index : r.pack # k) /\ (Writing => open # k)
    BY <1>1 DEF ReadableInv, VictimsIdle
  <1>6. RowsWhole'
    BY <1>1, <1>4, <1>5 DEF ReadableInv, RowsWhole
  <1>7. NoneOpen' /\ FreshPack' /\ ListInTime' /\ VictimsIdle'
    BY <1>1 DEF ReadableInv, NoneOpen, FreshPack, ListInTime, VictimsIdle, Writing
  <1>8. pc \notin {"down", "run"} => open \in 1 .. Len(objects)
    BY DEF ReadableInv, CollectorTypeOK, TypeOK
  <1>9. (pc = "run" /\ open # 0) => open \in 1 .. Len(objects)
    BY DEF ReadableInv, CollectorTypeOK, TypeOK
  <1>10. NotStored' /\ InTime' /\ Confirmed'
    BY <1>1, <1>4, <1>5, <1>8, <1>9
    DEF ReadableInv, NotStored, InTime, Confirmed, Writing
  <1> QED
    BY <1>6, <1>7, <1>10 DEF ReadableInv

\* The worker's steps, its faults and its environment, beside any collector.
LEMMA WorkerNext ==
    ASSUME ReadableInv, CollectorTypeOK', Next, Beside,
           (now' # now /\ gc = "list") => now < manifestAt + GcWindow
    PROVE  ReadableInv'
  <1>1. ASSUME NEW r \in Records, NEW k \in Kinds, Produce(r, k) PROVE ReadableInv'
    BY <1>1, PlaceStep DEF Produce, Place, workerVars, storeVars
  <1>2. ASSUME NEW rw \in Final, Reindex(rw) PROVE ReadableInv'
    BY <1>2, PlaceStep DEF Reindex, Place, workerVars, storeVars
  <1>3. CASE Expire
    BY <1>3, PlaceStep DEF Expire, Place, workerVars, storeVars
  <1>4. CASE Boot \/ Crash \/ Exit \/ Shutdown
    BY <1>4, PlaceStep
    DEF Boot, Crash, Exit, Halt, Shutdown, Place, storeVars
  <1>5. ASSUME NEW next \in 0 .. MaxLog, Fetch(next) PROVE ReadableInv'
    <2>1. pc = "run" /\ UNCHANGED <<pc, index, now>>
      BY <1>5 DEF Fetch, AppendBatch, Decodes
    <2>2. CASE UNCHANGED <<open, objects>>
      BY <2>1, <2>2, PlaceStep DEF Place
    <2>3. CASE /\ open = 0 /\ open' = Len(objects) + 1
               /\ objects' = Append(objects, [body |-> "none", at |-> 0])
      BY <2>1, <2>3, OpenStep
    <2> QED
      BY <1>5, <2>2, <2>3 DEF Fetch, AppendBatch, Decodes
  <1>6. CASE AppendFails \/ HeadRefuses
    BY <1>6, PlaceStep
    DEF AppendFails, HeadRefuses, SealFails, Discard, Place, storeVars
  <1>7. CASE SealBegin \/ HeadConfirms
    BY <1>7, PlaceStep DEF SealBegin, HeadConfirms, Proceed, Place, storeVars
  <1>8. CASE Put
    BY <1>8, StoreStep DEF Put, Proceed
  <1>9. CASE PutFails
    <2>1. /\ pc = "put" /\ pc' = "run" /\ open' = 0 /\ UNCHANGED <<index, now>>
          /\ UNCHANGED objects \/ \E b \in {"short", "whole"} : Store(b)
      BY <1>9 DEF PutFails, SealFails, Discard
    <2>2. CASE UNCHANGED objects
      BY <2>1, <2>2, PlaceStep DEF Place
    <2> QED
      BY <2>1, <2>2, StoreStep
  <1>10. CASE Insert
    BY <1>10, InsertStep DEF Insert, Proceed
  <1>11. CASE InsertFails
    <2>1. /\ pc = "insert" /\ pc' = "run" /\ open' = 0 /\ UNCHANGED <<objects, now>>
          /\ InsertRows \/ UNCHANGED index
      BY <1>11 DEF InsertFails, SealFails, Discard
    <2>2. CASE UNCHANGED index
      BY <2>1, <2>2, PlaceStep DEF Place
    <2> QED
      BY <2>1, <2>2, InsertStep
  <1>12. CASE Score \/ ScoreFails
    BY <1>12, PlaceStep DEF Score, ScoreFails, Proceed, SealFails, Discard, Place
  <1>13. CASE Commit \/ CommitFails
    BY <1>13, PlaceStep DEF Commit, CommitFails, SealFails, Discard, Place
  <1>14. CASE Tick
    <2>1. now' # now
      BY <1>14 DEF Tick, ReadableInv, CollectorTypeOK, TypeOK
    <2> QED
      BY <1>14, <2>1, TickStep
  <1>15. ASSUME NEW rw \in index, Merge(rw) PROVE ReadableInv'
    BY <1>15, PlaceStep DEF Merge, Place, workerVars
  <1> QED
    BY <1>1, <1>2, <1>3, <1>4, <1>5, <1>6, <1>7, <1>8, <1>9, <1>10, <1>11,
       <1>12, <1>13, <1>14, <1>15
    DEF Next, WorkerStep, WorkerFault, Broker

LEMMA ReadableNext == ReadableInv /\ [CollectorNext]_allVars => ReadableInv'
  <1> SUFFICES ASSUME ReadableInv, [CollectorNext]_allVars PROVE ReadableInv'
    OBVIOUS
  <1>t. CollectorTypeOK'
    BY CollectorTypeNext DEF ReadableInv
  <1>1. CASE WorkerBeside
    BY <1>t, <1>1, WorkerNext DEF WorkerBeside, Beside, GcIdle
  <1>2. CASE UNCHANGED allVars
    BY <1>t, <1>2, PlaceStep
    DEF allVars, vars, workerVars, storeVars, Beside, Place
  <1>3. CASE GcManifest
    <2>1. /\ UNCHANGED <<pc, open, objects, index, now>> /\ gc' = "list"
          /\ manifest' = {r.pack : r \in index} /\ manifestAt' = now
      BY <1>3 DEF GcManifest, vars, workerVars, storeVars
    <2>2. now <= now + GcWindow
      BY CollectorAssumption DEF ReadableInv, CollectorTypeOK, TypeOK
    <2>3. ListInTime'
      BY <2>1, <2>2 DEF ReadableInv, CollectorTypeOK, TypeOK, ListInTime
    <2>4. /\ RowsWhole' /\ NoneOpen' /\ FreshPack' /\ NotStored' /\ InTime'
          /\ Confirmed' /\ VictimsIdle'
      BY <2>1 DEF ReadableInv, RowsWhole, NoneOpen, FreshPack, Writing,
                  NotStored, InTime, Confirmed, VictimsIdle
    <2> QED
      BY <1>t, <2>3, <2>4 DEF ReadableInv
  <1>4. CASE GcList
    BY <1>t, <1>4, ListStep
  <1>5. ASSUME NEW k \in victims, GcDelete(k) PROVE ReadableInv'
    BY <1>t, <1>5, DeleteStep
  <1>6. CASE GcDone \/ GcFails
    BY <1>t, <1>6, PlaceStep
    DEF GcDone, GcFails, GcIdle, Beside, Place, vars, workerVars, storeVars
  <1> QED
    BY <1>1, <1>2, <1>3, <1>4, <1>5, <1>6 DEF CollectorNext, Collector

\* Whatever the collector deletes while the worker uploads, fails, crashes and
\* replays beside it, every row of the index points at a whole object: the
\* manifest before the listing, the grace period and the size check between
\* upload and insert are enough.
THEOREM NoRowLosesItsObject == CollectorSpec => []RowsReadable
  <1>1. CollectorInit => ReadableInv
    <2> SUFFICES ASSUME CollectorInit PROVE ReadableInv
      OBVIOUS
    <2>1. TypeOK
      BY TypeInit DEF CollectorInit
    <2>2. CollectorTypeOK
      BY <2>1 DEF CollectorInit, GcInit, CollectorTypeOK
    <2> QED
      BY <2>2 DEF CollectorInit, Init, GcInit, ReadableInv, RowsWhole, NoneOpen,
                  FreshPack, NotStored, InTime, Confirmed, ListInTime, VictimsIdle
  <1>2. ReadableInv => RowsReadable
    BY DEF ReadableInv, RowsWhole, RowsReadable
  <1> QED
    BY <1>1, <1>2, ReadableNext, PTL DEF CollectorSpec

-----------------------------------------------------------------------------
(***************************************************************************)
(* CorpusPasses: the passes that walk what the pack worker and the         *)
(* collector leave in the index, for every set of records and every page.  *)
(***************************************************************************)

(***************************************************************************)
(* The ranks of the rows, and the pages of a walk                          *)
(***************************************************************************)

LEMMA LeastOne ==
  ASSUME NEW S \in SUBSET Nat, S # {}
  PROVE  \E s \in S : \A t \in S : s <= t
<1> DEFINE R == {ss \in Nat \X Nat : ss[1] < ss[2]}
<1>1. IsWellFoundedOn(R, Nat)
  BY NatLessThanWellFounded DEF OpToRel
<1>2. PICK s \in S : \A t \in S : ~(<<t, s>> \in R)
  <2> HIDE DEF R
  <2> QED BY <1>1, WFMin
<1>3. ASSUME NEW t \in S PROVE s <= t
  <2>1. s \in Nat /\ t \in Nat /\ <<t, s>> \notin R
    BY <1>2
  <2> QED BY <2>1
<1> QED BY <1>3

LEMMA MinOfNats ==
  ASSUME NEW S \in SUBSET Nat, S # {}
  PROVE  Min(S) \in S /\ \A t \in S : Min(S) <= t
<1>1. PICK s \in S : \A t \in S : s <= t
  BY LeastOne
<1> QED BY <1>1 DEF Min

\* A finite set of numbers has a greatest one: the one with the fewest above.
LEMMA MaxOfNats ==
  ASSUME NEW S \in SUBSET Nat, S # {}, IsFiniteSet(S)
  PROVE  Max(S) \in S /\ \A t \in S : t <= Max(S)
<1> DEFINE Above(s) == {t \in S : s < t}
           counts == {Cardinality(Above(s)) : s \in S}
<1>1. \A s \in S : IsFiniteSet(Above(s)) /\ Cardinality(Above(s)) \in Nat
  BY FS_Subset, FS_CardinalityType
<1>2. PICK c \in counts : \A d \in counts : c <= d
  <2>1. counts \in SUBSET Nat /\ counts # {}
    BY <1>1
  <2> HIDE DEF counts
  <2> QED BY <2>1, LeastOne
<1>3. PICK s \in S : c = Cardinality(Above(s))
  BY <1>2
<1>4. \A t \in S : ~(s < t)
  <2> SUFFICES ASSUME NEW t \in S, s < t PROVE FALSE
    OBVIOUS
  <2>1. Above(t) \in SUBSET Above(s) /\ t \in Above(s) /\ t \notin Above(t)
    <3>1. s \in Nat /\ t \in Nat
      OBVIOUS
    <3>2. ASSUME NEW u \in S, t < u PROVE s < u
      <4>1. u \in Nat
        OBVIOUS
      <4> QED BY <3>1, <3>2, <4>1
    <3>3. Above(t) \in SUBSET Above(s)
      BY <3>2
    <3>4. ~(t < t)
      BY <3>1
    <3> QED BY <3>3, <3>4
  <2>2. Cardinality(Above(t)) <= Cardinality(Above(s))
        /\ Cardinality(Above(s)) # Cardinality(Above(t))
    <3> HIDE DEF Above
    <3> QED BY <1>1, <2>1, FS_Subset
  <2>3. Cardinality(Above(s)) <= Cardinality(Above(t))
    BY <1>2, <1>3
  <2>4. Cardinality(Above(s)) \in Nat /\ Cardinality(Above(t)) \in Nat
    BY <1>1
  <2> HIDE DEF Above
  <2> QED BY <2>2, <2>3, <2>4
<1>5. \A t \in S : t <= s
  <2> TAKE t \in S
  <2>1. s \in Nat /\ t \in Nat /\ ~(s < t)
    BY <1>4
  <2> QED BY <2>1
<1>6. \E x \in S : \A y \in S : x >= y
  <2> WITNESS s \in S
  <2> TAKE y \in S
  <2>1. s \in Nat /\ y \in Nat /\ y <= s
    BY <1>5
  <2> QED BY <2>1
<1>7. Max(S) \in S /\ \A y \in S : Max(S) >= y
  BY <1>6 DEF Max
<1>8. ASSUME NEW t \in S PROVE t <= Max(S)
  <2>1. t \in Nat /\ Max(S) \in Nat /\ Max(S) >= t
    BY <1>7
  <2> QED BY <2>1
<1> QED BY <1>7, <1>8

LEMMA ProductKeepsOrder ==
  ASSUME NEW s \in Nat, NEW a \in Nat, NEW b \in Nat, a <= b
  PROVE  s * a \in Nat /\ s * a <= s * b
  OBVIOUS

\* The cursor a walk starts from is above every row.
LEMMA RankBelowTop ==
  ASSUME NEW k \in Keys
  PROVE  Rank(k) \in Nat /\ Top \in Nat /\ Rank(k) < Top
<1>1. Ids \in SUBSET Nat /\ Legacy \in SUBSET Nat /\ Legacy # {} /\ Ids # {} /\ IsFiniteSet(Legacy)
  BY CorpusAssumption, FS_Subset
<1>2. Max(Ids) \in Nat /\ Max(Legacy) \in Nat /\ Max(Legacy) <= Max(Ids) /\ k[1] \in Nat /\ k[1] <= Max(Ids)
  BY <1>1, MaxOfNats, CorpusAssumption DEF Keys
<1> DEFINE M == Max(Ids)
<1>3. Stride * k[1] \in Nat /\ Stride * k[1] <= Stride * M
  BY <1>2, ProductKeepsOrder DEF Stride
<1>4. Stride * Max(Legacy) \in Nat /\ Stride * Max(Legacy) <= Stride * M
  BY <1>2, ProductKeepsOrder DEF Stride
<1>5. Stride \in Nat /\ Stride = M + 1 /\ Stride * M \in Nat /\ Top \in Nat /\ Top = Stride * M + Stride
  BY <1>2 DEF Stride, Top
<1> HIDE DEF M
<1> QED BY <1>2, <1>3, <1>4, <1>5 DEF Rank, M

LEMMA KeysFinite ==
  IsFiniteSet(Keys)
<1>1. IsFiniteSet({"own", "recovered"})
  <2>1. IsFiniteSet({"own"})
    BY FS_Singleton
  <2>2. {"own", "recovered"} = {"own"} \union {"recovered"}
    OBVIOUS
  <2> QED BY <2>1, <2>2, FS_AddElement
<1> QED BY <1>1, CorpusAssumption, FS_Product DEF Keys

LEMMA NextCursor ==
  ASSUME NEW below, NEW page \in SUBSET Keys
  PROVE  /\ CursorAfter(below, page) \in Nat
         /\ \A k \in page : CursorAfter(below, page) <= Rank(k)
         /\ CursorAfter(below, page) = Top \/ \E k \in page : CursorAfter(below, page) = Rank(k)
<1> DEFINE S == {Top} \union {Rank(k) : k \in page}
<1>1. S \in SUBSET Nat /\ S # {}
  <2>1. PICK i \in Ids : TRUE
    BY CorpusAssumption
  <2>2. <<i, "own">> \in Keys
    BY DEF Keys
  <2>3. Top \in Nat
    BY <2>2, RankBelowTop
  <2> QED BY <2>3, RankBelowTop
<1>2. Min(S) \in S /\ \A t \in S : Min(S) <= t
  <2> HIDE DEF S
  <2> QED BY <1>1, MinOfNats
<1>3. CursorAfter(below, page) = Min(S)
  BY DEF CursorAfter
<1>4. \A k \in page : Rank(k) \in S
  OBVIOUS
<1>5. Min(S) \in Nat
  BY <1>1, <1>2
<1>6. Min(S) = Top \/ \E k \in page : Min(S) = Rank(k)
  BY <1>2
<1> HIDE DEF S
<1> QED BY <1>2, <1>3, <1>4, <1>5, <1>6

\* A page takes all that was wanted above the next cursor, and something.
LEMMA PageTakesTheTop ==
  ASSUME NEW W \in SUBSET Keys, NEW c \in Int,
         NEW below, below = Below(W, c), NEW page, page = PageOf(below)
  PROVE  /\ page \in SUBSET below /\ below \in SUBSET W
         /\ \A k \in W : k \in below <=> Rank(k) < c
         /\ CursorAfter(below, page) \in Nat
         /\ \A k \in page : CursorAfter(below, page) <= Rank(k)
         /\ \A k \in below : CursorAfter(below, page) <= Rank(k) => k \in page
         /\ below # {} => page # {}
<1>1. page \in SUBSET below /\ below \in SUBSET W /\ \A k \in W : k \in below <=> Rank(k) < c
  BY DEF PageOf, Below
<1>2. page \in SUBSET Keys /\ below \in SUBSET Keys /\ IsFiniteSet(below)
  BY <1>1, KeysFinite, FS_Subset
<1> DEFINE C == CursorAfter(below, page)
           Higher(k) == {j \in below : Rank(j) > Rank(k)}
<1>3. C \in Nat /\ (\A k \in page : C <= Rank(k)) /\ (C = Top \/ \E k \in page : C = Rank(k))
  BY <1>2, NextCursor
<1>4. \A k \in below : /\ IsFiniteSet(Higher(k)) /\ Cardinality(Higher(k)) \in Nat
                       /\ k \in page <=> Cardinality(Higher(k)) < PageSize
  BY <1>2, FS_Subset, FS_CardinalityType DEF PageOf
<1>5. ASSUME NEW k \in below, C <= Rank(k) PROVE k \in page
  <2>1. k \in Keys /\ Rank(k) \in Nat /\ Rank(k) < Top /\ Top \in Nat
    BY <1>2, RankBelowTop
  <2>2. PICK j \in page : C = Rank(j)
    <3>1. C # Top
      BY <1>3, <1>5, <2>1
    <3> QED BY <1>3, <3>1
  <2>3. Higher(k) \in SUBSET Higher(j)
    <3> SUFFICES ASSUME NEW i \in below, Rank(i) > Rank(k) PROVE Rank(i) > Rank(j)
      OBVIOUS
    <3>1. Rank(i) \in Nat /\ Rank(j) \in Nat /\ Rank(j) <= Rank(k)
      BY <1>2, <1>5, <2>2, RankBelowTop
    <3> QED BY <2>1, <3>1
  <2>4. Cardinality(Higher(k)) <= Cardinality(Higher(j))
    <3> HIDE DEF Higher
    <3>1. j \in below
      BY <1>1
    <3> QED BY <1>4, <2>3, <3>1, FS_Subset
  <2> HIDE DEF Higher
  <2>5. Cardinality(Higher(j)) < PageSize /\ Cardinality(Higher(j)) \in Nat /\ Cardinality(Higher(k)) \in Nat
    BY <1>1, <1>4, <2>2
  <2> QED BY <1>4, <2>4, <2>5, CorpusAssumption
<1>6. ASSUME below # {} PROVE page # {}
  <2>2. PICK k \in below : \A j \in below : Rank(j) <= Rank(k)
    <3> DEFINE counts == {Cardinality(Higher(k)) : k \in below}
    <3>1. counts \in SUBSET Nat /\ counts # {}
      BY <1>4, <1>6
    <3>2. PICK n \in counts : \A m \in counts : n <= m
      <4> HIDE DEF counts
      <4> QED BY <3>1, LeastOne
    <3>3. PICK k \in below : n = Cardinality(Higher(k))
      BY <3>2
    <3>4. ASSUME NEW j \in below, ~(Rank(j) <= Rank(k)) PROVE FALSE
      <4>1. Rank(j) \in Nat /\ Rank(k) \in Nat
        BY <1>2, RankBelowTop
      <4>2. Higher(j) \in SUBSET Higher(k) /\ j \in Higher(k) /\ j \notin Higher(j)
        <5>1. ASSUME NEW i \in below, Rank(i) > Rank(j) PROVE Rank(i) > Rank(k)
          <6>1. Rank(i) \in Nat
            BY <1>2, RankBelowTop
          <6> QED BY <3>4, <4>1, <5>1, <6>1
        <5> QED BY <3>4, <4>1, <5>1
      <4>3. Cardinality(Higher(j)) <= Cardinality(Higher(k)) /\ Cardinality(Higher(j)) # Cardinality(Higher(k))
        <5> HIDE DEF Higher
        <5> QED BY <1>4, <4>2, FS_Subset
      <4>4. Cardinality(Higher(k)) <= Cardinality(Higher(j))
        BY <3>2, <3>3
      <4> HIDE DEF Higher
      <4> QED BY <1>4, <4>3, <4>4
    <3> QED BY <3>4
  <2>3. Higher(k) = {}
    <3> SUFFICES ASSUME NEW j \in below, Rank(j) > Rank(k) PROVE FALSE
      OBVIOUS
    <3>1. Rank(j) \in Nat /\ Rank(k) \in Nat /\ Rank(j) <= Rank(k)
      BY <1>2, <2>2, RankBelowTop
    <3> QED BY <3>1
  <2>4. Cardinality(Higher(k)) = 0
    BY <2>3, FS_EmptySet
  <2> HIDE DEF Higher
  <2> QED BY <1>4, <2>2, <2>4, CorpusAssumption
<1> QED BY <1>1, <1>3, <1>5, <1>6

(***************************************************************************)
(* What every step but the recovery scan keeps                             *)
(***************************************************************************)

\* No row goes, what a pass has done to one stays done, and a row that is new
\* has had it done by whoever filed it.
Advances ==
  /\ Filed \subseteq Filed'
  /\ \A k \in Filed : row[k].meta = "new" => row'[k].meta = "new"
  /\ \A g \in Games : claims[g] = "permanent" => claims'[g] = "permanent"
  /\ \A i \in Ids : scores[i] >= 0 => scores'[i] >= 0
  /\ \A k \in Filed' \ Filed : /\ row'[k].meta = "new" /\ scores'[k[1]] >= 0
                               /\ claims'[GameOf[k[1]]] = "permanent"

LEMMA KeyParts ==
  ASSUME NEW k \in Keys
  PROVE  k[1] \in Ids /\ GameOf[k[1]] \in Games
  BY DEF Keys, Games

LEMMA TreatedStays ==
  ASSUME Advances, NEW p \in Passes, NEW k \in Filed, Treated(p, k)
  PROVE  Treated(p, k)'
<1>1. k \in Keys
  BY DEF Filed
<1> QED BY <1>1, KeyParts DEF Advances, Treated

LEMMA NewIsTreated ==
  ASSUME Advances, NEW p \in Passes, NEW k \in Filed', k \notin Filed
  PROVE  Treated(p, k)'
  BY DEF Advances, Treated

LEMMA StillAdvances ==
  ASSUME UNCHANGED <<row, claims, scores>>
  PROVE  Advances
  BY DEF Advances, Filed

LEMMA MarkersKept ==
  ASSUME MarkerMeansDone, Advances, UNCHANGED <<marks, late>>
  PROVE  MarkerMeansDone'
<1> SUFFICES ASSUME NEW p \in Passes, NEW k \in Filed', p \in marks, <<p, k>> \notin late
             PROVE  Treated(p, k)'
  BY DEF MarkerMeansDone
<1>1. CASE k \in Filed
  <2>1. Treated(p, k)
    BY <1>1 DEF MarkerMeansDone
  <2> QED BY <1>1, <2>1, TreatedStays
<1>2. CASE k \notin Filed
  BY <1>2, NewIsTreated
<1> QED BY <1>1, <1>2

LEMMA MessagesKept ==
  ASSUME MessagesAreClaimed, Advances,
         \A m \in topic' \ topic : /\ m.key \in Keys /\ m.pb \in BOOLEAN
                                   /\ m.key \in Filed' \/ claims'[GameOf[m.key[1]]] = "permanent"
  PROVE  MessagesAreClaimed'
<1> SUFFICES ASSUME NEW m \in topic'
             PROVE  /\ m.key \in Keys /\ m.pb \in BOOLEAN
                    /\ m.key \in Filed' \/ claims'[GameOf[m.key[1]]] = "permanent"
  BY DEF MessagesAreClaimed
<1>1. CASE m \in topic
  <2>1. /\ m.key \in Keys /\ m.pb \in BOOLEAN
        /\ m.key \in Filed \/ claims[GameOf[m.key[1]]] = "permanent"
    BY <1>1 DEF MessagesAreClaimed
  <2> QED BY <2>1, KeyParts DEF Advances
<1>2. CASE m \notin topic
  BY <1>2
<1> QED BY <1>1, <1>2

LEMMA PassKept ==
  ASSUME NEW p \in Passes, PageStaysTrue(p), LeavesNothing(p), Advances,
         pass'[p] = pass[p], boot' = boot
  PROVE  PageStaysTrue(p)' /\ LeavesNothing(p)'
<1>1. PageStaysTrue(p)'
  BY DEF PageStaysTrue, Advances
<1>2. ASSUME NEW k \in Filed', Passed(p, k)', ~pass[p].unreadable
      PROVE  Treated(p, k)' \/ Carried(p, k)'
  <2>1. CASE k \in Filed
    <3>1. Passed(p, k)
      BY <1>2 DEF Passed
    <3>2. Treated(p, k) \/ Carried(p, k)
      BY <1>2, <2>1, <3>1 DEF LeavesNothing
    <3>3. Carried(p, k) => Carried(p, k)'
      BY DEF Carried
    <3> QED BY <2>1, <3>2, <3>3, TreatedStays
  <2>2. CASE k \notin Filed
    BY <2>2, NewIsTreated
  <2> QED BY <2>1, <2>2
<1>3. LeavesNothing(p)'
  BY <1>2 DEF LeavesNothing
<1> QED BY <1>1, <1>3

LEMMA ExportKept ==
  ASSUME ExportInStep, Filed \subseteq Filed', UNCHANGED <<export, job>>
  PROVE  ExportInStep'
  BY DEF ExportInStep

\* A pass that is not walking has nothing to keep.
LEMMA AtRest ==
  ASSUME NEW p \in Passes, pass'[p].at \in {"off", "done", "check"}, pass'[p].page = {},
         pass'[p].batch = {}, pass'[p].cursor = Top, boot' = "recovering" => pass'[p] = Off
  PROVE  PageStaysTrue(p)' /\ LeavesNothing(p)'
  BY DEF PageStaysTrue, LeavesNothing, Passed

LEMMA RestIsTyped ==
  ASSUME NEW p
  PROVE  /\ Off \in Walks /\ GivesUp(p) \in Walks
         /\ \A a \in {"check", "done"} : [Off EXCEPT !.at = a] \in Walks
         /\ \A m \in BOOLEAN : [Off EXCEPT !.at = "done", !.met = m] \in Walks
<1>1. Top \in Int
  <2>1. PICK i \in Ids : TRUE
    BY CorpusAssumption
  <2>2. <<i, "own">> \in Keys
    BY DEF Keys
  <2> QED BY <2>2, RankBelowTop
<1> HIDE DEF Top
<1> QED BY <1>1 DEF Off, GivesUp, Walks

\* The steps of one pass leave the others where they are.
LEMMA OnePassMoves ==
  ASSUME CorpusInv, Advances, NEW p \in Passes, NEW r \in Walks, SetPass(p, r),
         UNCHANGED <<boot, marks, late, job, export>>,
         row' \in [Keys -> Rows], claims' \in [Games -> {"none", "expiring", "permanent"}],
         scores' \in [Ids -> {-1, 0, 1}],
         \A m \in topic' \ topic : m.key \in Filed /\ m.pb \in BOOLEAN,
         PageStaysTrue(p)', LeavesNothing(p)'
  PROVE  CorpusInv'
<1>1. pass \in [Passes -> Walks] /\ pass' \in [Passes -> Walks] /\ pass'[p] = r
      /\ \A q \in Passes \ {p} : pass'[q] = pass[q]
  BY DEF CorpusInv, CorpusTyped, SetPass
<1>2. CorpusTyped'
  BY <1>1 DEF CorpusInv, CorpusTyped
<1>3. MarkerMeansDone'
  BY MarkersKept DEF CorpusInv
<1>4. MessagesAreClaimed'
  <2>1. \A m \in topic' \ topic : m.key \in Keys /\ m.pb \in BOOLEAN /\ m.key \in Filed'
    BY DEF Advances, Filed
  <2> QED BY <2>1, MessagesKept DEF CorpusInv
<1>5. ExportInStep'
  BY ExportKept DEF CorpusInv, Advances
<1>6. ASSUME NEW q \in Passes PROVE PageStaysTrue(q)' /\ LeavesNothing(q)'
  <2>1. CASE q = p
    BY <2>1
  <2>2. CASE q # p
    <3>1. PageStaysTrue(q) /\ LeavesNothing(q)
      BY DEF CorpusInv
    <3> QED BY <1>1, <2>2, <3>1, PassKept
  <2> QED BY <2>1, <2>2
<1> QED BY <1>2, <1>3, <1>4, <1>5, <1>6 DEF CorpusInv

(***************************************************************************)
(* The steps of a pass                                                     *)
(***************************************************************************)

\* A pass that runs is not beside the recovery scan.
LEMMA RunsWhenUp ==
  ASSUME CorpusInv, NEW p \in Passes, pass[p].at # "off"
  PROVE  boot = "up"
<1>1. PageStaysTrue(p) /\ boot \in {"recovering", "up"}
  BY DEF CorpusInv, CorpusTyped
<1>2. pass[p] # Off
  BY DEF Off
<1> QED BY <1>1, <1>2 DEF PageStaysTrue

\* A step after which the pass rests, whatever it wrote.
LEMMA ComesToRest ==
  ASSUME CorpusInv, Advances, NEW p \in Passes, pass[p].at # "off",
         NEW r \in Walks, r.at \in {"off", "done", "check"},
         r.page = {}, r.batch = {}, r.cursor = Top, SetPass(p, r),
         UNCHANGED <<boot, marks, late, job, export, topic>>,
         row' \in [Keys -> Rows], claims' \in [Games -> {"none", "expiring", "permanent"}],
         scores' \in [Ids -> {-1, 0, 1}]
  PROVE  CorpusInv'
<1>1. pass'[p] = r
  BY DEF SetPass, CorpusInv, CorpusTyped
<1>2. boot' # "recovering"
  BY RunsWhenUp
<1>3. PageStaysTrue(p)' /\ LeavesNothing(p)'
  BY <1>1, <1>2, AtRest
<1> QED BY <1>3, OnePassMoves

LEMMA Resting ==
  ASSUME NEW p
  PROVE  /\ GivesUp(p) \in Walks /\ GivesUp(p).at = "done" /\ GivesUp(p).page = {}
         /\ GivesUp(p).batch = {} /\ GivesUp(p).cursor = Top
         /\ Off \in Walks /\ Off.at = "off" /\ Off.page = {} /\ Off.batch = {} /\ Off.cursor = Top
  BY RestIsTyped DEF GivesUp, Off

LEMMA TablesTyped ==
  ASSUME CorpusInv, UNCHANGED <<row, claims, scores>>
  PROVE  /\ Advances /\ row' \in [Keys -> Rows]
         /\ claims' \in [Games -> {"none", "expiring", "permanent"}]
         /\ scores' \in [Ids -> {-1, 0, 1}]
  BY StillAdvances DEF CorpusInv, CorpusTyped

LEMMA CheckMarkStep ==
  ASSUME CorpusInv, NEW p \in Passes, CheckMark(p)
  PROVE  CorpusInv'
<1>1. /\ pass[p].at = "check" /\ pass[p] \in Walks /\ PageStaysTrue(p) /\ LeavesNothing(p)
      /\ pass \in [Passes -> Walks]
      /\ UNCHANGED <<boot, row, claims, scores, topic, marks, late, job, export>>
  BY DEF CheckMark, CorpusInv, CorpusTyped, tables
<1>2. CASE SetPass(p, GivesUp(p))
  BY <1>1, <1>2, Resting, TablesTyped, ComesToRest
<1>3. CASE p \in marks /\ SetPass(p, Off)
  BY <1>1, <1>3, Resting, TablesTyped, ComesToRest
<1>4. CASE SetPass(p, [pass[p] EXCEPT !.at = "page"])
  <2> DEFINE r == [pass[p] EXCEPT !.at = "page"]
  <2>1. r \in Walks /\ r.at = "page" /\ r.cursor = Top /\ r.page = pass[p].page
        /\ r.batch = pass[p].batch
    BY <1>1 DEF Walks, PageStaysTrue
  <2>2. pass'[p] = r
    BY <1>1, <1>4 DEF SetPass
  <2>3. SetPass(p, r)
    BY <1>4
  <2> HIDE DEF r
  <2>4. PageStaysTrue(p)'
    <3>1. boot' = "up"
      BY <1>1, RunsWhenUp
    <3>2. Filed' = Filed /\ row' = row
      BY <1>1 DEF Filed
    <3> QED BY <1>1, <2>1, <2>2, <3>1, <3>2 DEF PageStaysTrue
  <2>5. LeavesNothing(p)'
    <3> SUFFICES ASSUME NEW k \in Filed', Passed(p, k)' PROVE FALSE
      BY DEF LeavesNothing
    <3>1. Top <= Rank(k)
      BY <2>1, <2>2 DEF Passed
    <3>2. Rank(k) \in Nat /\ Top \in Nat /\ Rank(k) < Top
      BY RankBelowTop DEF Filed
    <3> QED BY <3>1, <3>2
  <2> QED BY <1>1, <2>1, <2>3, <2>4, <2>5, TablesTyped, OnePassMoves
<1> QED BY <1>2, <1>3, <1>4 DEF CheckMark

LEMMA ReadPageStep ==
  ASSUME CorpusInv, NEW p \in Passes, ReadPage(p)
  PROVE  CorpusInv'
<1>1. /\ pass[p].at = "page" /\ pass[p] \in Walks /\ PageStaysTrue(p) /\ LeavesNothing(p)
      /\ pass \in [Passes -> Walks] /\ row \in [Keys -> Rows]
      /\ UNCHANGED <<boot, row, claims, scores, topic, marks, late, job, export>>
  BY DEF ReadPage, CorpusInv, CorpusTyped, tables
<1>2. CASE SetPass(p, GivesUp(p))
  BY <1>1, <1>2, Resting, TablesTyped, ComesToRest
<1> DEFINE below == Below(Wanted(p), pass[p].cursor)
           page == PageOf(below)
           mark == CursorAfter(below, page)
           read == {[key |-> k, row |-> row[k]] : k \in page}
           r == [pass[p] EXCEPT !.at = "bytes", !.more = (page # below),
                                !.cursor = mark, !.page = read]
<1>3. CASE SetPass(p, r)
  <2>1. Wanted(p) \in SUBSET Filed /\ Filed \in SUBSET Keys /\ pass[p].cursor \in Int
    BY <1>1 DEF Wanted, Filed, Walks
  <2>2. /\ page \in SUBSET below /\ below \in SUBSET Wanted(p)
        /\ \A k \in Wanted(p) : k \in below <=> Rank(k) < pass[p].cursor
        /\ mark \in Nat
        /\ \A k \in below : mark <= Rank(k) => k \in page
    <3> HIDE DEF below, page
    <3>1. below = Below(Wanted(p), pass[p].cursor) /\ page = PageOf(below)
      BY DEF below, page
    <3>2. Wanted(p) \in SUBSET Keys
      BY <2>1
    <3> QED BY <2>1, <3>1, <3>2, PageTakesTheTop
  <2> HIDE DEF below, page, mark
  <2>3. read \in SUBSET ReadRows
    <3> SUFFICES ASSUME NEW k \in page PROVE [key |-> k, row |-> row[k]] \in ReadRows
      OBVIOUS
    <3>1. k \in Keys /\ row[k] \in Rows /\ row[k] # NoRow
      BY <1>1, <2>1, <2>2 DEF Filed
    <3> QED BY <3>1 DEF ReadRows
  <2>4. \A s \in read : s.key \in page /\ s.row = row[s.key]
    OBVIOUS
  <2>5. \A k \in page : \E s \in read : s.key = k
    <3> TAKE k \in page
    <3> WITNESS [key |-> k, row |-> row[k]] \in read
    <3> QED OBVIOUS
  <2> HIDE DEF read
  <2>6. /\ r \in Walks /\ r.at = "bytes" /\ r.more = (page # below) /\ r.cursor = mark
        /\ r.page = read /\ r.batch = pass[p].batch /\ r.unreadable = pass[p].unreadable
    <3>1. pass[p] = [at |-> pass[p].at, cursor |-> pass[p].cursor, page |-> pass[p].page,
                     batch |-> pass[p].batch, more |-> pass[p].more,
                     unreadable |-> pass[p].unreadable, met |-> pass[p].met]
      BY <1>1 DEF Walks
    <3>2. mark \in Int /\ (page # below) \in BOOLEAN
      BY <2>2
    <3> QED BY <1>1, <2>3, <3>1, <3>2 DEF Walks
  <2>7. pass'[p] = r
    BY <1>1, <1>3 DEF SetPass
  <2>8. SetPass(p, r)
    BY <1>3
  <2> HIDE DEF r
  <2>9. PageStaysTrue(p)'
    <3>1. boot' = "up" /\ Filed' = Filed /\ row' = row
      BY <1>1, RunsWhenUp DEF Filed
    <3>2. pass[p].batch = {}
      BY <1>1 DEF PageStaysTrue
    <3> QED BY <2>1, <2>2, <2>4, <2>6, <2>7, <3>1, <3>2 DEF PageStaysTrue
  <2>10. ASSUME NEW k \in Filed', Passed(p, k)', ~pass[p].unreadable
         PROVE  Treated(p, k)' \/ Carried(p, k)'
    <3>1. k \in Filed /\ k \in Keys /\ Rank(k) \in Nat
      BY <1>1, RankBelowTop DEF Filed
    <3>2. CASE p = "reconvert"
      BY <3>2 DEF Treated
    <3>3. CASE p # "reconvert" /\ pass[p].cursor <= Rank(k)
      <4>1. Passed(p, k)
        BY <1>1, <3>3 DEF Passed
      <4>2. ~Carried(p, k)
        BY <1>1 DEF Carried
      <4>3. Treated(p, k)
        BY <1>1, <2>10, <3>1, <4>1, <4>2 DEF LeavesNothing
      <4> QED BY <1>1, <3>1, <4>3, TablesTyped, TreatedStays
    <3>4. CASE p # "reconvert" /\ ~(pass[p].cursor <= Rank(k))
      <4>1. k \in Wanted(p) /\ Rank(k) < pass[p].cursor
        BY <2>1, <3>1, <3>4 DEF Wanted
      <4>2. k \in below
        BY <2>2, <4>1
      <4>3. k \in page
        BY <2>2, <2>6, <2>7, <2>10, <4>2 DEF Passed
      <4> QED BY <2>5, <2>6, <2>7, <4>3 DEF Carried
    <3> QED BY <3>2, <3>3, <3>4
  <2>11. LeavesNothing(p)'
    BY <2>6, <2>7, <2>10 DEF LeavesNothing
  <2> QED BY <1>1, <2>6, <2>8, <2>9, <2>11, TablesTyped, OnePassMoves
<1> QED BY <1>2, <1>3 DEF ReadPage

\* The claims a page is cut down to still name each of its games.
LEMMA EveryGameKeepsOne ==
  ASSUME NEW fresh \in SUBSET ReadRows, NEW r \in fresh
  PROVE  \E s \in OnePerGame(fresh) : GameOf[s.key[1]] = GameOf[r.key[1]]
<1> DEFINE mates == {s \in fresh : GameOf[s.key[1]] = GameOf[r.key[1]]}
           gaps == {Top - Rank(s.key) : s \in mates}
<1>1. \A s \in mates : Rank(s.key) \in Nat /\ Top \in Nat /\ Rank(s.key) < Top
  BY RankBelowTop DEF ReadRows
<1>2. gaps \in SUBSET Nat /\ gaps # {}
  <2>1. ASSUME NEW s \in mates PROVE Top - Rank(s.key) \in Nat
    <3> HIDE DEF mates
    <3> QED BY <1>1
  <2>2. r \in mates
    OBVIOUS
  <2> HIDE DEF mates
  <2> QED BY <2>1, <2>2
<1>3. PICK g \in gaps : \A h \in gaps : g <= h
  <2> HIDE DEF gaps
  <2> QED BY <1>2, LeastOne
<1>4. PICK s \in mates : g = Top - Rank(s.key)
  BY <1>3
<1>5. ASSUME NEW t \in mates PROVE Rank(t.key) <= Rank(s.key)
  <2>1. Top - Rank(s.key) <= Top - Rank(t.key)
    BY <1>3, <1>4
  <2>2. /\ Rank(s.key) \in Nat /\ Top \in Nat /\ Rank(s.key) < Top
        /\ Rank(t.key) \in Nat /\ Rank(t.key) < Top
    BY <1>1
  <2> HIDE DEF mates
  <2> QED BY <2>1, <2>2
<1>6. s \in OnePerGame(fresh)
  BY <1>5 DEF OnePerGame
<1> QED BY <1>4, <1>6

LEMMA DerivedOfThePage ==
  ASSUME NEW p \in Passes, NEW fresh \in SUBSET ReadRows
  PROVE  /\ Derived(p, fresh) \in SUBSET fresh
         /\ \A r \in fresh : \/ p = "metadata" /\ r.row.meta = "new"
                            \/ \E s \in Derived(p, fresh) : WillReach(p, s, r.key)
<1>1. Derived(p, fresh) \in SUBSET fresh
  BY DEF Derived, OnePerGame
<1>2. ASSUME NEW r \in fresh
      PROVE  \/ p = "metadata" /\ r.row.meta = "new"
             \/ \E s \in Derived(p, fresh) : WillReach(p, s, r.key)
  <2>1. r \in ReadRows /\ r.row.meta \in {"old", "new"}
    BY DEF ReadRows, Rows, NoRow
  <2>2. CASE p = "metadata"
    BY <2>1, <2>2 DEF Derived, WillReach
  <2>3. CASE p = "claims"
    BY <2>3, EveryGameKeepsOne DEF Derived, WillReach
  <2>4. CASE p \in {"scores", "reconvert"}
    BY <2>4 DEF Derived, WillReach
  <2> QED BY <2>2, <2>3, <2>4 DEF Passes
<1> QED BY <1>1, <1>2

LEMMA ReadBytesStep ==
  ASSUME CorpusInv, NEW p \in Passes, ReadBytes(p)
  PROVE  CorpusInv'
<1>1. /\ pass[p].at = "bytes" /\ pass[p] \in Walks /\ PageStaysTrue(p) /\ LeavesNothing(p)
      /\ pass \in [Passes -> Walks] /\ row \in [Keys -> Rows]
      /\ UNCHANGED <<boot, row, claims, scores, topic, marks, late, job, export>>
  BY DEF ReadBytes, CorpusInv, CorpusTyped, tables
<1>2. PICK bad \in SUBSET pass[p].page :
        SetPass(p, [pass[p] EXCEPT !.at = "write", !.batch = Derived(p, pass[p].page \ bad),
                                   !.unreadable = @ \/ bad # {}])
  BY DEF ReadBytes
<1> DEFINE fresh == pass[p].page \ bad
           batch == Derived(p, fresh)
           r == [pass[p] EXCEPT !.at = "write", !.batch = batch, !.unreadable = @ \/ bad # {}]
<1>3. fresh \in SUBSET ReadRows /\ fresh \in SUBSET pass[p].page
  BY <1>1 DEF Walks
<1>4. /\ batch \in SUBSET fresh
      /\ \A s \in fresh : \/ p = "metadata" /\ s.row.meta = "new"
                         \/ \E t \in batch : WillReach(p, t, s.key)
  <2> HIDE DEF fresh
  <2> QED BY <1>3, DerivedOfThePage
<1>5. SetPass(p, r)
  BY <1>2
<1> HIDE DEF batch
<1>6. /\ r \in Walks /\ r.at = "write" /\ r.more = pass[p].more /\ r.cursor = pass[p].cursor
      /\ r.page = pass[p].page /\ r.batch = batch
      /\ r.unreadable = (pass[p].unreadable \/ bad # {})
  <2>1. pass[p] = [at |-> pass[p].at, cursor |-> pass[p].cursor, page |-> pass[p].page,
                   batch |-> pass[p].batch, more |-> pass[p].more,
                   unreadable |-> pass[p].unreadable, met |-> pass[p].met]
    BY <1>1 DEF Walks
  <2>2. batch \in SUBSET ReadRows
    BY <1>3, <1>4
  <2>3. (pass[p].unreadable \/ bad # {}) \in BOOLEAN
    OBVIOUS
  <2> QED BY <1>1, <2>1, <2>2, <2>3 DEF Walks
<1>7. pass'[p] = r
  BY <1>1, <1>5 DEF SetPass
<1> HIDE DEF r
<1>8. PageStaysTrue(p)'
  <2>1. boot' = "up" /\ Filed' = Filed /\ row' = row
    BY <1>1, RunsWhenUp DEF Filed
  <2> QED BY <1>1, <1>3, <1>4, <1>6, <1>7, <2>1 DEF PageStaysTrue
<1>9. ASSUME NEW k \in Filed', Passed(p, k)', ~pass[p].unreadable, bad = {}
      PROVE  Treated(p, k)' \/ Carried(p, k)'
  <2>1. k \in Filed
    BY <1>1 DEF Filed
  <2>2. Passed(p, k)
    BY <1>1, <1>6, <1>7, <1>9 DEF Passed
  <2>3. CASE Treated(p, k)
    BY <1>1, <2>1, <2>3, TablesTyped, TreatedStays
  <2>4. CASE Carried(p, k)
    <3>1. PICK s \in pass[p].page : s.key = k
      BY <1>1, <2>4 DEF Carried
    <3>2. s \in fresh
      BY <1>9
    <3>3. CASE p = "metadata" /\ s.row.meta = "new"
      <4>1. row[k].meta = "new"
        BY <1>1, <3>1, <3>3 DEF PageStaysTrue
      <4> QED BY <1>1, <3>3, <4>1 DEF Treated
    <3>4. CASE \E t \in batch : WillReach(p, t, s.key)
      BY <1>6, <1>7, <3>1, <3>4 DEF Carried, WillReach
    <3> QED BY <1>4, <3>2, <3>3, <3>4
  <2> QED BY <1>1, <1>9, <2>1, <2>2, <2>3, <2>4 DEF LeavesNothing
<1>10. LeavesNothing(p)'
  BY <1>6, <1>7, <1>9 DEF LeavesNothing
<1> QED BY <1>1, <1>5, <1>6, <1>8, <1>10, TablesTyped, OnePassMoves

(***************************************************************************)
(* What a pass writes                                                      *)
(***************************************************************************)

LEMMA InsertedRows ==
  ASSUME NEW fresh, \A r \in fresh : r.row \in Rows \ {NoRow},
         row \in [Keys -> Rows], IndexRows(fresh)
  PROVE  /\ row' \in [Keys -> Rows] /\ Filed \subseteq Filed'
         /\ \A k \in Keys : \/ row'[k] = row[k] /\ \A r \in fresh : r.key # k
                            \/ \E r \in fresh : r.key = k /\ row'[k] = r.row
<1>1. \A k \in Keys : \/ row'[k] = row[k] /\ \A r \in fresh : r.key # k
                      \/ \E r \in fresh : r.key = k /\ row'[k] = r.row
  BY DEF IndexRows
<1>2. row' \in [Keys -> Rows]
  <2>1. \A k \in Keys : row'[k] \in Rows
    BY <1>1
  <2>2. row' = [k \in Keys |-> row'[k]]
    BY DEF IndexRows
  <2> QED BY <2>1, <2>2
<1>3. Filed \subseteq Filed'
  BY <1>1 DEF Filed
<1> QED BY <1>1, <1>2, <1>3

\* The next state of a pass that has written its page.
LEMMA NextPageIs ==
  ASSUME CorpusInv, NEW p \in Passes, pass[p].at = "write"
  PROVE  /\ NextPage(p) \in Walks /\ NextPage(p).at = (IF pass[p].more THEN "page" ELSE "end")
         /\ NextPage(p).cursor = pass[p].cursor /\ NextPage(p).page = {} /\ NextPage(p).batch = {}
         /\ NextPage(p).unreadable = pass[p].unreadable
<1>1. pass[p] \in Walks
  BY DEF CorpusInv, CorpusTyped
<1>2. pass[p] = [at |-> pass[p].at, cursor |-> pass[p].cursor, page |-> pass[p].page,
                 batch |-> pass[p].batch, more |-> pass[p].more,
                 unreadable |-> pass[p].unreadable, met |-> pass[p].met]
  BY <1>1 DEF Walks
<1> QED BY <1>1, <1>2 DEF NextPage, Walks

\* A page is behind the pass once all that it carried is treated.
LEMMA PageWritten ==
  ASSUME CorpusInv, Advances, NEW p \in Passes, pass[p].at = "write", SetPass(p, NextPage(p)),
         boot' = boot, \A k \in Filed : Carried(p, k) => Treated(p, k)'
  PROVE  PageStaysTrue(p)' /\ LeavesNothing(p)'
<1>1. pass'[p] = NextPage(p) /\ PageStaysTrue(p) /\ LeavesNothing(p) /\ boot' = "up"
  BY RunsWhenUp DEF SetPass, CorpusInv, CorpusTyped
<1>2. PageStaysTrue(p)'
  BY <1>1, NextPageIs DEF PageStaysTrue
<1>3. ASSUME NEW k \in Filed', Passed(p, k)', ~pass[p].unreadable PROVE Treated(p, k)'
  <2>1. CASE k \in Filed
    <3>1. Passed(p, k)
      BY <1>1, <1>3, NextPageIs DEF Passed
    <3>2. Treated(p, k) \/ Carried(p, k)
      BY <1>1, <1>3, <2>1, <3>1 DEF LeavesNothing
    <3> QED BY <2>1, <3>2, TreatedStays
  <2>2. CASE k \notin Filed
    BY <2>2, NewIsTreated
  <2> QED BY <2>1, <2>2
<1>4. LeavesNothing(p)'
  BY <1>1, <1>3, NextPageIs DEF LeavesNothing
<1> QED BY <1>2, <1>4

LEMMA MetadataWritten ==
  ASSUME CorpusInv, pass["metadata"].at = "write", WriteMetadata
  PROVE  /\ Advances /\ row' \in [Keys -> Rows]
         /\ claims' \in [Games -> {"none", "expiring", "permanent"}]
         /\ scores' \in [Ids -> {-1, 0, 1}]
         /\ \A k \in Filed : Carried("metadata", k) => Treated("metadata", k)'
<1> DEFINE p == "metadata"
           fresh == {[r EXCEPT !.row.meta = "new"] : r \in pass[p].batch}
<1>1. /\ p \in Passes /\ pass[p] \in Walks /\ PageStaysTrue(p) /\ row \in [Keys -> Rows]
      /\ claims \in [Games -> {"none", "expiring", "permanent"}] /\ scores \in [Ids -> {-1, 0, 1}]
  BY DEF CorpusInv, CorpusTyped, Passes
<1>2. pass[p].batch \in SUBSET ReadRows /\ \A r \in pass[p].batch : r.key \in Filed
  BY <1>1 DEF Walks, PageStaysTrue
<1>3. ASSUME NEW r \in ReadRows
      PROVE  /\ [r EXCEPT !.row.meta = "new"].key = r.key
             /\ [r EXCEPT !.row.meta = "new"].row \in Rows \ {NoRow}
             /\ [r EXCEPT !.row.meta = "new"].row.meta = "new"
  <2>1. r.row \in [bytes : {0, 1}, meta : {"old", "new"}, pb : BOOLEAN]
    BY DEF ReadRows, Rows
  <2>2. [r EXCEPT !.row.meta = "new"].row = [r.row EXCEPT !.meta = "new"]
    BY DEF ReadRows
  <2> QED BY <2>1, <2>2 DEF ReadRows, Rows, NoRow
<1>4. \A s \in fresh : /\ s.row \in Rows \ {NoRow} /\ s.row.meta = "new" /\ s.key \in Filed
  BY <1>2, <1>3
<1>5. \A r \in pass[p].batch : \E s \in fresh : s.key = r.key
  <2> TAKE r \in pass[p].batch
  <2> WITNESS [r EXCEPT !.row.meta = "new"] \in fresh
  <2> QED BY <1>2, <1>3
<1>6. IndexRows(fresh) /\ UNCHANGED <<claims, scores>>
  BY DEF WriteMetadata
<1> HIDE DEF fresh
<1>7. /\ row' \in [Keys -> Rows] /\ Filed \subseteq Filed'
      /\ \A k \in Keys : \/ row'[k] = row[k] /\ \A r \in fresh : r.key # k
                         \/ \E r \in fresh : r.key = k /\ row'[k] = r.row
  BY <1>1, <1>4, <1>6, InsertedRows
<1>8. Advances
  BY <1>4, <1>6, <1>7 DEF Advances, Filed
<1>9. ASSUME NEW k \in Filed, Carried(p, k) PROVE Treated(p, k)'
  <2>1. PICK r \in pass[p].batch : r.key = k
    BY <1>9 DEF Carried, WillReach
  <2>2. row'[k].meta = "new"
    BY <1>4, <1>5, <1>7, <2>1 DEF Filed
  <2> QED BY <2>2 DEF Treated
<1> QED BY <1>1, <1>6, <1>7, <1>8, <1>9

LEMMA ClaimsWritten ==
  ASSUME CorpusInv, pass["claims"].at = "write", WriteClaims
  PROVE  /\ Advances /\ row' \in [Keys -> Rows]
         /\ claims' \in [Games -> {"none", "expiring", "permanent"}]
         /\ scores' \in [Ids -> {-1, 0, 1}]
         /\ \A k \in Filed : Carried("claims", k) => Treated("claims", k)'
<1>1. /\ row \in [Keys -> Rows] /\ UNCHANGED <<row, scores>>
      /\ claims \in [Games -> {"none", "expiring", "permanent"}] /\ scores \in [Ids -> {-1, 0, 1}]
  BY DEF CorpusInv, CorpusTyped, WriteClaims
<1>2. /\ claims' \in [Games -> {"none", "expiring", "permanent"}]
      /\ \A g \in Games : claims[g] = "permanent" => claims'[g] = "permanent"
      /\ \A g \in Games : (\E r \in pass["claims"].batch : GameOf[r.key[1]] = g) => claims'[g] = "permanent"
  BY <1>1 DEF WriteClaims
<1>3. Filed' = Filed
  BY <1>1 DEF Filed
<1>4. Advances
  BY <1>1, <1>2, <1>3 DEF Advances
<1>5. ASSUME NEW k \in Filed, Carried("claims", k) PROVE Treated("claims", k)'
  <2>1. PICK r \in pass["claims"].batch : GameOf[r.key[1]] = GameOf[k[1]]
    BY <1>5 DEF Carried, WillReach
  <2>2. GameOf[k[1]] \in Games
    BY KeyParts DEF Filed
  <2> QED BY <1>2, <2>1, <2>2 DEF Treated
<1> QED BY <1>1, <1>2, <1>4, <1>5

LEMMA ScoresWritten ==
  ASSUME CorpusInv, pass["scores"].at = "write", WriteScores
  PROVE  /\ Advances /\ row' \in [Keys -> Rows]
         /\ claims' \in [Games -> {"none", "expiring", "permanent"}]
         /\ scores' \in [Ids -> {-1, 0, 1}]
         /\ \A k \in Filed : Carried("scores", k) => Treated("scores", k)'
<1> DEFINE mine(i) == {r \in pass["scores"].batch : r.key[1] = i}
<1>1. /\ row \in [Keys -> Rows] /\ UNCHANGED <<row, claims>>
      /\ claims \in [Games -> {"none", "expiring", "permanent"}] /\ scores \in [Ids -> {-1, 0, 1}]
      /\ pass["scores"] \in Walks
  BY DEF CorpusInv, CorpusTyped, WriteScores, Passes
<1>2. ASSUME NEW i, mine(i) # {} PROVE Max({r.row.bytes : r \in mine(i)}) \in {0, 1}
  <2> DEFINE B == {r.row.bytes : r \in mine(i)}
  <2>1. B \in SUBSET {0, 1} /\ B # {}
    BY <1>1, <1>2 DEF Walks, ReadRows, Rows, NoRow
  <2> HIDE DEF B
  <2>2. \E x \in B : \A y \in B : x >= y
    <3>1. PICK x \in B : x = 1 \/ 1 \notin B
      BY <2>1
    <3>2. ASSUME NEW y \in B PROVE x >= y
      <4>1. x \in {0, 1} /\ y \in {0, 1}
        BY <2>1
      <4> QED BY <3>1, <4>1
    <3> QED BY <3>2
  <2>3. Max(B) \in B
    BY <2>2 DEF Max
  <2> QED BY <2>1, <2>3 DEF B
<1>3. scores' = [i \in Ids |-> IF mine(i) = {} THEN scores[i] ELSE Max({r.row.bytes : r \in mine(i)})]
  BY DEF WriteScores
<1> HIDE DEF mine
<1>4. /\ scores' \in [Ids -> {-1, 0, 1}]
      /\ \A i \in Ids : scores[i] >= 0 => scores'[i] >= 0
      /\ \A i \in Ids : mine(i) # {} => scores'[i] >= 0
  BY <1>1, <1>2, <1>3
<1>5. Filed' = Filed
  BY <1>1 DEF Filed
<1>6. Advances
  BY <1>1, <1>4, <1>5 DEF Advances
<1>7. ASSUME NEW k \in Filed, Carried("scores", k) PROVE Treated("scores", k)'
  <2>1. mine(k[1]) # {}
    BY <1>7 DEF Carried, WillReach, mine
  <2>2. k[1] \in Ids
    BY KeyParts DEF Filed
  <2> QED BY <1>4, <2>1, <2>2 DEF Treated
<1> QED BY <1>1, <1>4, <1>6, <1>7

LEMMA WritePageStep ==
  ASSUME CorpusInv, NEW p \in {"metadata", "claims", "scores"}, WritePage(p)
  PROVE  CorpusInv'
<1>1. /\ pass[p].at = "write" /\ p \in Passes
      /\ UNCHANGED <<boot, topic, marks, late, job, export>>
  BY DEF WritePage, Passes
<1>2. ASSUME WriteOf(p)
      PROVE  /\ Advances /\ row' \in [Keys -> Rows]
             /\ claims' \in [Games -> {"none", "expiring", "permanent"}]
             /\ scores' \in [Ids -> {-1, 0, 1}]
             /\ \A k \in Filed : Carried(p, k) => Treated(p, k)'
  <2>1. CASE p = "metadata"
    <3>1. WriteMetadata
      BY <1>2, <2>1 DEF WriteOf
    <3> QED BY <1>1, <2>1, <3>1, MetadataWritten
  <2>2. CASE p = "claims"
    <3>1. WriteClaims
      BY <1>2, <2>2 DEF WriteOf
    <3> QED BY <1>1, <2>2, <3>1, ClaimsWritten
  <2>3. CASE p = "scores"
    <3>1. WriteScores
      BY <1>2, <2>3 DEF WriteOf
    <3> QED BY <1>1, <2>3, <3>1, ScoresWritten
  <2> QED BY <2>1, <2>2, <2>3
<1>3. CASE WriteOf(p) /\ SetPass(p, NextPage(p))
  <2>1. PageStaysTrue(p)' /\ LeavesNothing(p)'
    BY <1>1, <1>2, <1>3, PageWritten
  <2>2. NextPage(p) \in Walks
    BY <1>1, NextPageIs
  <2> QED BY <1>1, <1>2, <1>3, <2>1, <2>2, OnePassMoves
<1>4. CASE SetPass(p, GivesUp(p)) /\ (WriteOf(p) \/ UNCHANGED <<row, shadow, claims, scores>>)
  <2>1. /\ Advances /\ row' \in [Keys -> Rows]
        /\ claims' \in [Games -> {"none", "expiring", "permanent"}]
        /\ scores' \in [Ids -> {-1, 0, 1}]
    BY <1>2, <1>4, TablesTyped
  <2> QED BY <1>1, <1>4, <2>1, Resting, ComesToRest
<1>5. CASE SetPass(p, [Off EXCEPT !.at = "done"]) /\ UNCHANGED <<row, shadow, claims, scores>>
  <2> DEFINE r == [Off EXCEPT !.at = "done"]
  <2>1. r \in Walks /\ r.at = "done" /\ r.page = {} /\ r.batch = {} /\ r.cursor = Top
    BY RestIsTyped DEF Off
  <2>2. SetPass(p, r)
    BY <1>5
  <2> HIDE DEF r
  <2> QED BY <1>1, <1>5, <2>1, <2>2, TablesTyped, ComesToRest
<1> QED BY <1>3, <1>4, <1>5 DEF WritePage

LEMMA ReconvertStep ==
  ASSUME CorpusInv, Reconvert
  PROVE  CorpusInv'
<1> DEFINE p == "reconvert"
<1>1. /\ pass[p].at = "write" /\ p \in Passes /\ pass[p] \in Walks /\ PageStaysTrue(p)
      /\ pass \in [Passes -> Walks] /\ LeavesNothing(p)
      /\ UNCHANGED <<boot, row, claims, scores, marks, late, job, export>>
  BY DEF Reconvert, Passes, CorpusInv, CorpusTyped
<1>2. CASE SetPass(p, NextPage(p)) /\ UNCHANGED topic
  <2>1. \A k \in Filed : Treated(p, k)'
    BY DEF Treated
  <2>2. PageStaysTrue(p)' /\ LeavesNothing(p)'
    BY <1>1, <1>2, <2>1, TablesTyped, PageWritten
  <2>3. NextPage(p) \in Walks
    BY <1>1, NextPageIs
  <2> QED BY <1>1, <1>2, <2>2, <2>3, TablesTyped, OnePassMoves
<1>3. CASE SetPass(p, GivesUp(p)) /\ UNCHANGED topic
  BY <1>1, <1>3, TablesTyped, Resting, ComesToRest
<1>4. CASE \E r \in pass[p].batch : /\ topic' = topic \union {[key |-> r.key, pb |-> TRUE]}
                                    /\ SetPass(p, [pass[p] EXCEPT !.batch = @ \ {r}])
  <2>1. PICK r \in pass[p].batch : /\ topic' = topic \union {[key |-> r.key, pb |-> TRUE]}
                                   /\ SetPass(p, [pass[p] EXCEPT !.batch = @ \ {r}])
    BY <1>4
  <2> DEFINE w == [pass[p] EXCEPT !.batch = @ \ {r}]
  <2>2. /\ w \in Walks /\ w.at = "write" /\ w.page = pass[p].page /\ w.batch = pass[p].batch \ {r}
    BY <1>1 DEF Walks
  <2>3. SetPass(p, w) /\ pass'[p] = w
    BY <1>1, <2>1 DEF SetPass
  <2> HIDE DEF w
  <2>4. PageStaysTrue(p)'
    <3>1. boot' = "up" /\ Filed' = Filed /\ row' = row
      BY <1>1, RunsWhenUp DEF Filed
    <3> QED BY <1>1, <2>2, <2>3, <3>1 DEF PageStaysTrue
  <2>5. LeavesNothing(p)'
    BY DEF LeavesNothing, Treated
  <2>6. \A m \in topic' \ topic : m.key \in Filed /\ m.pb \in BOOLEAN
    <3>1. r.key \in Filed
      BY <1>1 DEF PageStaysTrue
    <3>2. ASSUME NEW m \in topic' \ topic PROVE m.key = r.key /\ m.pb = TRUE
      BY <2>1
    <3>3. TRUE \in BOOLEAN
      OBVIOUS
    <3> QED BY ONLY <3>1, <3>2, <3>3
  <2> QED BY <1>1, <2>2, <2>3, <2>4, <2>5, <2>6, TablesTyped, OnePassMoves
<1> QED BY <1>2, <1>3, <1>4 DEF Reconvert

\* A pass that ends has left no row untreated, unless it could not read one.
LEMMA EndPassStep ==
  ASSUME CorpusInv, NEW p \in Passes, EndPass(p)
  PROVE  CorpusInv'
<1>1. /\ pass[p].at = "end" /\ pass[p] \in Walks /\ PageStaysTrue(p) /\ LeavesNothing(p)
      /\ pass \in [Passes -> Walks]
      /\ UNCHANGED <<boot, row, claims, scores, topic, late, job, export>>
  BY DEF EndPass, CorpusInv, CorpusTyped, tables
<1>2. CASE SetPass(p, GivesUp(p)) /\ UNCHANGED marks
  BY <1>1, <1>2, Resting, TablesTyped, ComesToRest
<1>3. CASE /\ marks' = IF IsComplete(p) THEN MarkDone(p) ELSE marks
           /\ SetPass(p, [Off EXCEPT !.at = "done", !.met = pass[p].unreadable])
  <2> DEFINE r == [Off EXCEPT !.at = "done", !.met = pass[p].unreadable]
  <2>1. r \in Walks /\ r.at = "done" /\ r.page = {} /\ r.batch = {} /\ r.cursor = Top
    <3>1. pass[p].unreadable \in BOOLEAN
      BY <1>1 DEF Walks
    <3> QED BY <3>1, RestIsTyped DEF Off
  <2>2. pass' = [pass EXCEPT ![p] = r]
    BY <1>3 DEF SetPass
  <2> HIDE DEF r
  <2>3. pass' \in [Passes -> Walks] /\ pass'[p] = r /\ \A q \in Passes \ {p} : pass'[q] = pass[q]
    BY <1>1, <2>1, <2>2
  <2>4. CorpusTyped'
    BY <1>1, <2>3 DEF CorpusInv, CorpusTyped
  <2>5. ASSUME NEW q \in Passes, NEW k \in Filed', q \in marks', <<q, k>> \notin late'
        PROVE  Treated(q, k)'
    <3>1. k \in Filed
      BY <1>1 DEF Filed
    <3>2. CASE q \in marks
      BY <1>1, <2>5, <3>1, <3>2, TablesTyped, TreatedStays DEF CorpusInv, MarkerMeansDone
    <3>3. CASE q = p /\ p # "reconvert" /\ ~pass[p].unreadable
      <4>1. Passed(p, k) /\ ~Carried(p, k)
        BY <1>1 DEF Passed, Carried
      <4>2. Treated(p, k)
        BY <1>1, <3>1, <3>3, <4>1 DEF LeavesNothing
      <4> QED BY <1>1, <3>1, <3>3, <4>2, TablesTyped, TreatedStays
    <3>4. CASE q = "reconvert"
      BY <3>4 DEF Treated
    <3> QED BY <1>3, <2>5, <3>2, <3>3, <3>4 DEF IsComplete, MarkDone
  <2>6. MarkerMeansDone'
    BY <2>5 DEF MarkerMeansDone
  <2>7. MessagesAreClaimed'
    BY <1>1, TablesTyped, MessagesKept DEF CorpusInv
  <2>8. ExportInStep'
    BY <1>1, TablesTyped, ExportKept DEF CorpusInv, Advances
  <2>9. ASSUME NEW q \in Passes PROVE PageStaysTrue(q)' /\ LeavesNothing(q)'
    <3>1. CASE q = p
      <4>1. boot' # "recovering"
        BY <1>1, RunsWhenUp
      <4> QED BY <2>1, <2>3, <3>1, <4>1, AtRest
    <3>2. CASE q # p
      <4>1. PageStaysTrue(q) /\ LeavesNothing(q)
        BY DEF CorpusInv
      <4> QED BY <1>1, <2>3, <3>2, <4>1, TablesTyped, PassKept
    <3> QED BY <3>1, <3>2
  <2> QED BY <2>4, <2>6, <2>7, <2>8, <2>9 DEF CorpusInv
<1> QED BY <1>2, <1>3 DEF EndPass

(***************************************************************************)
(* The other writers and the restarts                                      *)
(***************************************************************************)

\* A step beside the passes.
LEMMA PassesStand ==
  ASSUME CorpusInv, Advances, UNCHANGED <<boot, marks, late, pass>>,
         row' \in [Keys -> Rows], claims' \in [Games -> {"none", "expiring", "permanent"}],
         scores' \in [Ids -> {-1, 0, 1}], export' \in Exports,
         \A m \in topic' \ topic : /\ m.key \in Keys /\ m.pb \in BOOLEAN
                                   /\ m.key \in Filed' \/ claims'[GameOf[m.key[1]]] = "permanent",
         ExportInStep'
  PROVE  CorpusInv'
<1>1. CorpusTyped'
  BY DEF CorpusInv, CorpusTyped
<1>2. MarkerMeansDone'
  BY MarkersKept DEF CorpusInv
<1>3. MessagesAreClaimed'
  BY MessagesKept DEF CorpusInv
<1>4. ASSUME NEW p \in Passes PROVE PageStaysTrue(p)' /\ LeavesNothing(p)'
  <2>1. PageStaysTrue(p) /\ LeavesNothing(p) /\ pass'[p] = pass[p]
    BY DEF CorpusInv
  <2> QED BY <2>1, PassKept
<1> QED BY <1>1, <1>2, <1>3, <1>4 DEF CorpusInv

\* The same for a step that has nothing to do with the export either.
LEMMA WritersStand ==
  ASSUME CorpusInv, Advances, UNCHANGED <<boot, marks, late, pass, job, export>>,
         row' \in [Keys -> Rows], claims' \in [Games -> {"none", "expiring", "permanent"}],
         scores' \in [Ids -> {-1, 0, 1}],
         \A m \in topic' \ topic : /\ m.key \in Keys /\ m.pb \in BOOLEAN
                                   /\ m.key \in Filed' \/ claims'[GameOf[m.key[1]]] = "permanent"
  PROVE  CorpusInv'
<1>1. ExportInStep'
  BY ExportKept DEF CorpusInv, Advances
<1>2. export' \in Exports
  BY DEF CorpusInv, CorpusTyped
<1> QED BY <1>1, <1>2, PassesStand

LEMMA IngestStep ==
  ASSUME CorpusInv, NEW i \in Ids, Ingest(i)
  PROVE  CorpusInv'
<1>1. /\ UNCHANGED <<boot, row, scores, marks, late, pass, job, export>>
      /\ claims' = [claims EXCEPT ![GameOf[i]] = "permanent"]
      /\ topic' = topic \union {[key |-> <<i, "own">>, pb |-> TRUE]}
      /\ row \in [Keys -> Rows] /\ claims \in [Games -> {"none", "expiring", "permanent"}]
      /\ scores \in [Ids -> {-1, 0, 1}] /\ GameOf[i] \in Games
  BY DEF Ingest, CorpusInv, CorpusTyped, Games
<1>2. Advances
  BY <1>1 DEF Advances, Filed
<1>3. ASSUME NEW m \in topic' \ topic
      PROVE  /\ m.key \in Keys /\ m.pb \in BOOLEAN
             /\ m.key \in Filed' \/ claims'[GameOf[m.key[1]]] = "permanent"
  <2>1. m.key = <<i, "own">> /\ m.pb = TRUE
    BY <1>1
  <2>2. m.key \in Keys /\ m.key[1] = i
    BY <2>1 DEF Keys
  <2>3. m.pb \in BOOLEAN
    BY <2>1
  <2>4. claims'[GameOf[i]] = "permanent"
    BY <1>1
  <2> QED BY <2>2, <2>3, <2>4
<1>4. claims' \in [Games -> {"none", "expiring", "permanent"}]
  BY <1>1
<1> QED BY <1>1, <1>2, <1>3, <1>4, WritersStand

LEMMA RepairStep ==
  ASSUME CorpusInv, NEW k \in Keys, Repair(k)
  PROVE  CorpusInv'
<1>1. /\ UNCHANGED <<boot, row, claims, scores, marks, late, pass, job, export>>
      /\ topic' = topic \union {[key |-> k, pb |-> TRUE]} /\ k \in Filed
  BY DEF Repair
<1>2. ASSUME NEW m \in topic' \ topic
      PROVE  /\ m.key \in Keys /\ m.pb \in BOOLEAN
             /\ m.key \in Filed' \/ claims'[GameOf[m.key[1]]] = "permanent"
  <2>1. m.key = k /\ m.pb = TRUE
    BY <1>1
  <2>2. k \in Filed'
    BY <1>1 DEF Filed
  <2>3. m.key \in Filed' /\ m.key \in Keys
    BY <2>1, <2>2
  <2>4. m.pb \in BOOLEAN
    BY <2>1
  <2> QED BY <2>3, <2>4
<1> QED BY <1>1, <1>2, TablesTyped, WritersStand

LEMMA MergeStep ==
  ASSUME CorpusInv, NEW k \in Keys, MergeKey(k)
  PROVE  CorpusInv'
<1>1. UNCHANGED <<boot, row, claims, scores, topic, marks, late, pass, job, export>>
  BY DEF MergeKey
<1> QED BY <1>1, TablesTyped, WritersStand

\* The pack worker's row is converted, scored and claimed.
LEMMA PackStep ==
  ASSUME CorpusInv, NEW m \in topic, Pack(m)
  PROVE  CorpusInv'
<1> DEFINE fresh == {[key |-> m.key, row |-> [bytes |-> 1, meta |-> "new", pb |-> m.pb]]}
<1>1. /\ UNCHANGED <<boot, claims, marks, late, pass, job, export>> /\ topic' = topic \ {m}
      /\ IndexRows(fresh) /\ scores' = [scores EXCEPT ![m.key[1]] = 1]
      /\ row \in [Keys -> Rows] /\ claims \in [Games -> {"none", "expiring", "permanent"}]
      /\ scores \in [Ids -> {-1, 0, 1}]
  BY DEF Pack, CorpusInv, CorpusTyped
<1>2. /\ m.key \in Keys /\ m.pb \in BOOLEAN
      /\ m.key \in Filed \/ claims[GameOf[m.key[1]]] = "permanent"
  BY DEF CorpusInv, MessagesAreClaimed
<1>3. \A r \in fresh : r.row \in Rows \ {NoRow} /\ r.row.meta = "new" /\ r.key = m.key
  BY <1>2 DEF Rows, NoRow
<1> HIDE DEF fresh
<1>4. /\ row' \in [Keys -> Rows] /\ Filed \subseteq Filed'
      /\ \A k \in Keys : \/ row'[k] = row[k] /\ \A r \in fresh : r.key # k
                         \/ \E r \in fresh : r.key = k /\ row'[k] = r.row
  BY <1>1, <1>3, InsertedRows
<1>5. /\ \A k \in Filed : row[k].meta = "new" => row'[k].meta = "new"
      /\ \A k \in Filed' \ Filed : k = m.key /\ row'[k].meta = "new"
  BY <1>3, <1>4 DEF Filed
<1>6. /\ scores' \in [Ids -> {-1, 0, 1}] /\ scores'[m.key[1]] >= 0
      /\ \A i \in Ids : scores[i] >= 0 => scores'[i] >= 0
  BY <1>1, <1>2, KeyParts
<1>7. Advances
  BY <1>1, <1>2, <1>4, <1>5, <1>6 DEF Advances
<1>8. topic' \ topic = {}
  BY <1>1
<1> QED BY <1>1, <1>4, <1>6, <1>7, <1>8, WritersStand

LEMMA IdleIsTyped ==
  NoExport \in Exports /\ Top \in Int
<1>1. Off \in Walks /\ Off.cursor = Top
  BY Resting
<1>2. Top \in Int
  BY <1>1 DEF Walks
<1> QED BY <1>2 DEF NoExport, Exports

\* prune lets no permanent claim go, nor a job's file while its task runs.
LEMMA PruneStep ==
  ASSUME CorpusInv, Prune
  PROVE  CorpusInv'
<1>1. /\ UNCHANGED <<boot, row, scores, topic, marks, late, pass>>
      /\ claims' = [g \in Games |-> IF claims[g] = "expiring" THEN "none" ELSE claims[g]]
      /\ job' \in {job, "none"}
      /\ export' = IF job' = "none" /\ export.at = "idle" THEN NoExport ELSE export
      /\ row \in [Keys -> Rows] /\ claims \in [Games -> {"none", "expiring", "permanent"}]
      /\ scores \in [Ids -> {-1, 0, 1}] /\ export \in Exports /\ ExportInStep
  BY DEF Prune, CorpusInv, CorpusTyped
<1>2. claims' \in [Games -> {"none", "expiring", "permanent"}]
  BY <1>1
<1>3. Advances
  BY <1>1 DEF Advances, Filed
<1>4. NoExport \in Exports /\ NoExport.at = "idle" /\ ~NoExport.twice
  BY IdleIsTyped DEF NoExport
<1>5. ExportInStep'
  <2>1. Filed' = Filed
    BY <1>1 DEF Filed
  <2>2. CASE export' = export
    BY <1>1, <2>1, <2>2 DEF ExportInStep
  <2>3. CASE export' = NoExport /\ job' = "none"
    BY <1>4, <2>3 DEF ExportInStep
  <2> QED BY <1>1, <2>2, <2>3
<1>6. topic' \ topic = {} /\ export' \in Exports
  BY <1>1, <1>4
<1> QED BY <1>1, <1>2, <1>3, <1>5, <1>6, PassesStand

\* What the process held is gone: the passes rest and the task is no more.
LEMMA RebootStep ==
  ASSUME CorpusInv, Reboot
  PROVE  CorpusInv'
<1>1. /\ UNCHANGED <<row, claims, scores, topic, marks, late, job>> /\ boot' = "recovering"
      /\ pass' = [p \in Passes |-> Off]
      /\ export' = IF export.at = "idle" THEN export ELSE NoExport
      /\ export \in Exports /\ ExportInStep
  BY DEF Reboot, tables, CorpusInv, CorpusTyped
<1>2. NoExport \in Exports /\ NoExport.at = "idle" /\ ~NoExport.twice
  BY IdleIsTyped DEF NoExport
<1>3. CorpusTyped'
  BY <1>1, <1>2, Resting DEF CorpusInv, CorpusTyped
<1>4. MarkerMeansDone'
  BY <1>1, TablesTyped, MarkersKept DEF CorpusInv
<1>5. MessagesAreClaimed'
  BY <1>1, TablesTyped, MessagesKept DEF CorpusInv
<1>6. ExportInStep'
  <2>1. CASE export.at = "idle"
    BY <1>1, <2>1, TablesTyped, ExportKept DEF Advances
  <2>2. CASE export.at # "idle"
    BY <1>1, <1>2, <2>2 DEF ExportInStep
  <2> QED BY <2>1, <2>2
<1>7. \A p \in Passes : PageStaysTrue(p)' /\ LeavesNothing(p)'
  <2> TAKE p \in Passes
  <2>1. pass'[p] = Off
    BY <1>1
  <2> QED BY <2>1, Resting, AtRest
<1> QED BY <1>3, <1>4, <1>5, <1>6, <1>7 DEF CorpusInv

\* The rows the scan adds behind a mark are the ones counted as late.
LEMMA RecoverStep ==
  ASSUME CorpusInv, Recover
  PROVE  CorpusInv'
<1>1. /\ UNCHANGED <<claims, scores, topic, marks, job, export>> /\ boot' = "up"
      /\ pass' = [p \in Passes |-> IF p \in active THEN [Off EXCEPT !.at = "check"] ELSE Off]
      /\ row \in [Keys -> Rows]
  BY DEF Recover, CorpusInv, CorpusTyped
<1>2. PICK unread \in SUBSET (Legacy \ IndexedIds) :
        LET found == (Legacy \ IndexedIds) \ unread
        IN /\ IndexRows({[key |-> <<i, "recovered">>, row |-> [bytes |-> 0, meta |-> "old", pb |-> FALSE]]
                         : i \in found})
           /\ late' = late \union (marks \X {<<i, "recovered">> : i \in found})
  BY DEF Recover
<1> DEFINE found == (Legacy \ IndexedIds) \ unread
           fresh == {[key |-> <<i, "recovered">>, row |-> [bytes |-> 0, meta |-> "old", pb |-> FALSE]]
                     : i \in found}
           keys == {<<i, "recovered">> : i \in found}
<1>3. IndexRows(fresh) /\ late' = late \union (marks \X keys)
  BY <1>2
<1>4. \A r \in fresh : r.row \in Rows \ {NoRow} /\ r.key \in keys
  <2>1. [bytes |-> 0, meta |-> "old", pb |-> FALSE] \in Rows \ {NoRow}
    BY DEF Rows, NoRow
  <2>2. \A i \in found : <<i, "recovered">> \in keys
    OBVIOUS
  <2> SUFFICES ASSUME NEW r \in fresh PROVE r.row \in Rows \ {NoRow} /\ r.key \in keys
    OBVIOUS
  <2>3. PICK i \in found :
          r = [key |-> <<i, "recovered">>, row |-> [bytes |-> 0, meta |-> "old", pb |-> FALSE]]
    OBVIOUS
  <2>4. r.key = <<i, "recovered">> /\ r.row = [bytes |-> 0, meta |-> "old", pb |-> FALSE]
    BY <2>3
  <2> HIDE DEF fresh, keys, found
  <2> QED BY <2>1, <2>2, <2>4
<1> HIDE DEF fresh, keys
<1>5. /\ row' \in [Keys -> Rows] /\ Filed \subseteq Filed'
      /\ \A k \in Keys : \/ row'[k] = row[k] /\ \A r \in fresh : r.key # k
                         \/ \E r \in fresh : r.key = k /\ row'[k] = r.row
  BY <1>1, <1>3, <1>4, InsertedRows
<1>6. \A k \in Keys : row'[k] = row[k] \/ k \in keys
  BY <1>4, <1>5
<1>7. ASSUME NEW p \in Passes
      PROVE  /\ pass'[p] \in Walks /\ pass'[p].at \in {"off", "check"} /\ pass'[p].page = {}
             /\ pass'[p].batch = {} /\ pass'[p].cursor = Top
  <2>1. pass'[p] = [Off EXCEPT !.at = "check"] \/ pass'[p] = Off
    BY <1>1
  <2> DEFINE r == [Off EXCEPT !.at = "check"]
  <2>2. r \in Walks /\ r.at = "check" /\ r.page = {} /\ r.batch = {} /\ r.cursor = Top
    BY RestIsTyped DEF Off
  <2>3. pass'[p] = r \/ pass'[p] = Off
    BY <2>1
  <2> HIDE DEF r
  <2> QED BY <2>2, <2>3, Resting
<1>8. pass' \in [Passes -> Walks]
  <2>1. pass' = [p \in Passes |-> pass'[p]]
    BY <1>1
  <2> QED BY <1>7, <2>1
<1>9. CorpusTyped'
  BY <1>1, <1>5, <1>8 DEF CorpusInv, CorpusTyped
<1>10. ASSUME NEW p \in Passes, NEW k \in Filed', p \in marks', <<p, k>> \notin late'
       PROVE  Treated(p, k)'
  <2>1. k \in Keys /\ k \notin keys
    BY <1>1, <1>3, <1>10 DEF Filed
  <2>2. row'[k] = row[k]
    BY <1>6, <2>1
  <2>3. k \in Filed /\ <<p, k>> \notin late /\ p \in marks
    BY <1>1, <1>3, <1>10, <2>1, <2>2 DEF Filed
  <2>4. Treated(p, k)
    BY <2>3 DEF CorpusInv, MarkerMeansDone
  <2> QED BY <1>1, <2>2, <2>4 DEF Treated
<1>11. MarkerMeansDone'
  BY <1>10 DEF MarkerMeansDone
<1>12. MessagesAreClaimed'
  BY <1>1, <1>5 DEF CorpusInv, MessagesAreClaimed
<1>13. ExportInStep'
  BY <1>1, <1>5, ExportKept DEF CorpusInv
<1>14. \A p \in Passes : PageStaysTrue(p)' /\ LeavesNothing(p)'
  BY <1>1, <1>7, AtRest
<1> QED BY <1>9, <1>11, <1>12, <1>13, <1>14 DEF CorpusInv

(***************************************************************************)
(* The export                                                              *)
(***************************************************************************)

\* A step of the export leaves the tables and the passes alone.
LEMMA ExportAlone ==
  ASSUME CorpusInv, UNCHANGED <<boot, row, claims, scores, topic, marks, late, pass>>,
         export' \in Exports, ExportInStep'
  PROVE  CorpusInv'
<1>1. topic' \ topic = {}
  OBVIOUS
<1> QED BY <1>1, TablesTyped, PassesStand

LEMMA CreateJobStep ==
  ASSUME CorpusInv, CreateJob
  PROVE  CorpusInv'
<1> DEFINE e == [NoExport EXCEPT !.at = "start"]
<1>1. /\ UNCHANGED <<boot, row, claims, scores, topic, marks, late, pass>>
      /\ job' = "queued" /\ export' = e
  BY DEF CreateJob, tables
<1>2. e \in Exports /\ e.at = "start" /\ ~e.twice
  BY IdleIsTyped DEF NoExport, Exports
<1>3. ExportInStep'
  BY <1>1, <1>2 DEF ExportInStep
<1> QED BY <1>1, <1>2, <1>3, ExportAlone

LEMMA StartJobStep ==
  ASSUME CorpusInv, StartJob
  PROVE  CorpusInv'
<1>1. /\ UNCHANGED <<boot, row, claims, scores, topic, marks, late, pass>>
      /\ export.at = "start" /\ export \in Exports /\ ExportInStep
  BY DEF StartJob, tables, CorpusInv, CorpusTyped
<1>2. NoExport \in Exports /\ NoExport.at = "idle" /\ ~NoExport.twice
  BY IdleIsTyped DEF NoExport
<1>3. CASE export' = NoExport /\ UNCHANGED job
  <2>1. job # "completed"
    BY <1>1 DEF ExportInStep
  <2>2. ExportInStep'
    BY <1>2, <1>3, <2>1 DEF ExportInStep
  <2> QED BY <1>1, <1>2, <1>3, <2>2, ExportAlone
<1>4. CASE JobBecomes("running") /\ export' = [export EXCEPT !.at = "walk", !.since = Filed]
  <2> DEFINE e == [export EXCEPT !.at = "walk", !.since = Filed]
  <2>1. export.cursor = Top /\ export.file = {} /\ export.twice = FALSE
    BY <1>1 DEF ExportInStep, NoExport
  <2>2. export = [at |-> export.at, cursor |-> export.cursor, file |-> export.file,
                  since |-> export.since, twice |-> export.twice]
    BY <1>1 DEF Exports
  <2>3. Filed \in SUBSET Keys /\ Filed' = Filed
    BY <1>1 DEF Filed
  <2>4. /\ e \in Exports /\ e.at = "walk" /\ e.cursor = Top /\ e.file = {} /\ e.since = Filed
        /\ e.twice = FALSE
    BY <1>1, <2>1, <2>2, <2>3 DEF Exports
  <2>5. export' = e
    BY <1>4
  <2> HIDE DEF e
  <2>6. job' # "completed"
    BY <1>1, <1>4 DEF JobBecomes, ExportInStep
  <2>7. \A k \in Filed : Rank(k) < Top
    BY <2>3, RankBelowTop
  <2>8. ExportInStep'
    BY <2>3, <2>4, <2>5, <2>6, <2>7 DEF ExportInStep
  <2> QED BY <1>1, <2>4, <2>5, <2>8, ExportAlone
<1> QED BY <1>3, <1>4 DEF StartJob

\* The file has what is above the cursor, and nothing of it twice.
LEMMA ExportPageStep ==
  ASSUME CorpusInv, ExportPage
  PROVE  CorpusInv'
<1>1. /\ UNCHANGED <<boot, row, claims, scores, topic, marks, late, pass, job>>
      /\ export.at = "walk" /\ export \in Exports /\ ExportInStep
  BY DEF ExportPage, tables, CorpusInv, CorpusTyped
<1>2. Filed \in SUBSET Keys /\ Filed' = Filed /\ job # "completed"
  BY <1>1 DEF Filed, ExportInStep
<1>3. export = [at |-> export.at, cursor |-> export.cursor, file |-> export.file,
                since |-> export.since, twice |-> export.twice]
  BY <1>1 DEF Exports
<1>4. CASE export' = [export EXCEPT !.at = "failed"]
  <2> DEFINE e == [export EXCEPT !.at = "failed"]
  <2>1. e \in Exports /\ e.at = "failed" /\ e.twice = export.twice
    BY <1>1 DEF Exports
  <2>2. export' = e
    BY <1>4
  <2> HIDE DEF e
  <2>3. ExportInStep'
    BY <1>1, <1>2, <2>1, <2>2 DEF ExportInStep
  <2> QED BY <1>1, <2>1, <2>2, <2>3, ExportAlone
<1> DEFINE below == Below(Filed, export.cursor)
           page == PageOf(below)
           mark == CursorAfter(below, page)
           file == export.file \union page
           again == (export.twice \/ page \intersect export.file # {})
           e == [Appended(page) EXCEPT !.at = IF page = below THEN "finish" ELSE "walk",
                                       !.cursor = mark]
<1>5. CASE export' = e
  <2>1. export.cursor \in Int /\ export.file \in SUBSET Keys /\ export.since \in SUBSET Keys
    BY <1>1 DEF Exports
  <2>2. /\ page \in SUBSET below /\ below \in SUBSET Filed
        /\ \A k \in Filed : k \in below <=> Rank(k) < export.cursor
        /\ mark \in Nat
        /\ \A k \in page : mark <= Rank(k)
        /\ \A k \in below : mark <= Rank(k) => k \in page
        /\ below # {} => page # {}
    <3> HIDE DEF below, page
    <3>1. below = Below(Filed, export.cursor) /\ page = PageOf(below)
      BY DEF below, page
    <3> QED BY <1>2, <2>1, <3>1, PageTakesTheTop
  <2> HIDE DEF below, page, mark
  <2>3. /\ \A k \in export.since : k \in Filed /\ (k \in export.file \/ Rank(k) < export.cursor)
        /\ \A k \in export.file : export.cursor <= Rank(k)
        /\ ~export.twice
    BY <1>1 DEF ExportInStep
  <2>4. page \intersect export.file = {}
    <3> SUFFICES ASSUME NEW k \in page, k \in export.file PROVE FALSE
      OBVIOUS
    <3>1. Rank(k) < export.cursor /\ export.cursor <= Rank(k) /\ k \in Keys
      BY <1>2, <2>2, <2>3
    <3>2. Rank(k) \in Nat
      BY <3>1, RankBelowTop
    <3> QED BY <2>1, <3>1, <3>2
  <2>5. /\ e.at = (IF page = below THEN "finish" ELSE "walk") /\ e.cursor = mark
        /\ e.file = file /\ e.since = export.since /\ e.twice = again /\ e \in Exports
    <3> DEFINE a == Appended(page)
    <3>1. a = [at |-> export.at, cursor |-> export.cursor, file |-> file,
               since |-> export.since, twice |-> again]
      <4>1. a = [export EXCEPT !.file = file, !.twice = again]
        BY DEF Appended
      <4> HIDE DEF a, file, again
      <4> QED BY ONLY <1>3, <4>1
    <3>2. file \in SUBSET Keys /\ again \in BOOLEAN /\ mark \in Int
      BY <1>2, <2>1, <2>2
    <3> HIDE DEF file, again, a
    <3>3. e = [a EXCEPT !.at = IF page = below THEN "finish" ELSE "walk", !.cursor = mark]
      BY DEF a
    <3> HIDE DEF e
    <3>4. e = [at |-> IF page = below THEN "finish" ELSE "walk", cursor |-> mark,
               file |-> file, since |-> export.since, twice |-> again]
      BY ONLY <3>1, <3>3
    <3> QED BY ONLY <2>1, <3>2, <3>4 DEF Exports
  <2> HIDE DEF e
  <2>6. ~again
    BY <2>3, <2>4
  <2>7. ASSUME NEW k \in export.since PROVE k \in file \/ (page # below /\ Rank(k) < mark)
    <3>1. k \in Filed /\ Rank(k) \in Nat
      BY <1>2, <2>3, RankBelowTop
    <3>2. CASE k \in export.file
      BY <3>2
    <3>3. CASE k \in below
      BY <2>2, <3>1, <3>3
    <3> QED BY <2>2, <2>3, <3>1, <3>2, <3>3
  <2>8. ASSUME NEW k \in file, page # below PROVE mark <= Rank(k)
    <3>1. CASE k \in page
      BY <2>2, <3>1
    <3>2. CASE k \in export.file
      <4>1. PICK j \in page : TRUE
        BY <2>2, <2>8
      <4>2. mark <= Rank(j) /\ Rank(j) < export.cursor /\ export.cursor <= Rank(k)
        BY <2>2, <2>3, <3>2
      <4>3. Rank(j) \in Nat /\ Rank(k) \in Nat
        BY <1>2, <2>1, <2>2, <3>2, RankBelowTop
      <4> QED BY <2>1, <2>2, <4>2, <4>3
    <3> QED BY <3>1, <3>2
  <2> HIDE DEF file, again
  <2>9. ExportInStep'
    <3>1. export'.since \subseteq Filed
      BY <1>5, <2>3, <2>5
    <3>2. export'.at = "walk" <=> page # below
      BY <1>5, <2>5
    <3>3. export'.at \in {"walk", "finish"} /\ ~export'.twice /\ job' # "completed"
      BY <1>1, <1>2, <1>5, <2>5, <2>6
    <3> QED BY <1>2, <1>5, <2>5, <2>7, <2>8, <3>1, <3>2, <3>3 DEF ExportInStep
  <2> QED BY <1>1, <1>5, <2>5, <2>9, ExportAlone
<1> QED BY <1>4, <1>5 DEF ExportPage

LEMMA FinishJobStep ==
  ASSUME CorpusInv, FinishJob
  PROVE  CorpusInv'
<1> DEFINE e == [export EXCEPT !.at = "idle"]
<1>1. /\ UNCHANGED <<boot, row, claims, scores, topic, marks, late, pass>>
      /\ export.at \in {"finish", "failed"} /\ export \in Exports /\ ExportInStep /\ export' = e
      /\ JobBecomes(IF export.at = "finish" THEN "completed" ELSE "failed") \/ UNCHANGED job
  BY DEF FinishJob, tables, CorpusInv, CorpusTyped
<1>2. e \in Exports /\ e.at = "idle" /\ e.twice = export.twice /\ e.since = export.since
      /\ e.file = export.file
  BY <1>1 DEF Exports
<1> HIDE DEF e
<1>3. job' = "completed" => export.at = "finish"
  BY <1>1 DEF JobBecomes, ExportInStep
<1>4. ExportInStep'
  BY <1>1, <1>2, <1>3 DEF ExportInStep
<1> QED BY <1>1, <1>2, <1>4, ExportAlone

(***************************************************************************)
(* The theorems                                                            *)
(***************************************************************************)

LEMMA CorpusInvInit ==
  ASSUME CorpusInit
  PROVE  CorpusInv
<1>1. /\ boot = "recovering" /\ marks = {} /\ topic = {} /\ late = {} /\ job = "none"
      /\ pass = [p \in Passes |-> Off] /\ export = NoExport
      /\ claims \in [Games -> {"none", "expiring"}] /\ scores = [i \in Ids |-> -1]
  BY DEF CorpusInit
<1>2. row \in [Keys -> Rows]
  <2>1. PICK missing \in SUBSET Legacy :
          row = [k \in Keys |-> IF k[2] = "recovered" \/ k[1] \in Arriving \union missing THEN NoRow
                               ELSE [bytes |-> 0, meta |-> "old", pb |-> k[1] \notin Legacy]]
    BY DEF CorpusInit
  <2>2. ASSUME NEW b \in BOOLEAN PROVE [bytes |-> 0, meta |-> "old", pb |-> b] \in Rows
    BY DEF Rows
  <2>3. NoRow \in Rows
    BY DEF Rows
  <2>4. \A k \in Keys : (k[1] \notin Legacy) \in BOOLEAN
    OBVIOUS
  <2> QED BY <2>1, <2>2, <2>3, <2>4
<1>3. CorpusTyped
  BY <1>1, <1>2, Resting, IdleIsTyped DEF CorpusTyped
<1>4. MarkerMeansDone /\ MessagesAreClaimed
  BY <1>1 DEF MarkerMeansDone, MessagesAreClaimed
<1>5. ExportInStep
  BY <1>1 DEF ExportInStep, NoExport
<1>6. ASSUME NEW p \in Passes PROVE PageStaysTrue(p) /\ LeavesNothing(p)
  <2>1. pass[p] = Off
    BY <1>1
  <2> QED BY <2>1, Resting DEF PageStaysTrue, LeavesNothing, Passed
<1> QED BY <1>3, <1>4, <1>5, <1>6 DEF CorpusInv

LEMMA CorpusInvNext ==
  ASSUME CorpusInv, [CorpusNext]_corpusVars
  PROVE  CorpusInv'
<1>1. CASE Recover
  BY <1>1, RecoverStep
<1>2. CASE Reboot
  BY <1>2, RebootStep
<1>3. CASE \E p \in Passes : PassStep(p)
  BY <1>3, CheckMarkStep, ReadPageStep, ReadBytesStep, EndPassStep DEF PassStep
<1>4. CASE \E p \in {"metadata", "claims", "scores"} : WritePage(p)
  BY <1>4, WritePageStep
<1>5. CASE Reconvert
  BY <1>5, ReconvertStep
<1>6. CASE \E i \in Ids : Ingest(i)
  BY <1>6, IngestStep
<1>7. CASE \E k \in Keys : Repair(k) \/ MergeKey(k)
  BY <1>7, RepairStep, MergeStep
<1>8. CASE \E m \in topic : Pack(m)
  BY <1>8, PackStep
<1>9. CASE Prune
  BY <1>9, PruneStep
<1>10. CASE CreateJob \/ ExportStep
  BY <1>10, CreateJobStep, StartJobStep, ExportPageStep, FinishJobStep DEF ExportStep
<1>11. CASE UNCHANGED corpusVars
  <2>1. UNCHANGED <<boot, row, claims, scores, topic, marks, late, pass, job, export>>
    BY <1>11 DEF corpusVars, tables
  <2>2. topic' \ topic = {}
    BY <2>1
  <2> QED BY <2>1, <2>2, TablesTyped, WritersStand
<1>12. \A p \in {"metadata", "claims", "scores", "reconvert"} : p \in Passes
  BY DEF Passes
<1> QED
  BY <1>1, <1>2, <1>3, <1>4, <1>5, <1>6, <1>7, <1>8, <1>9, <1>10, <1>11, <1>12
  DEF CorpusNext, RewriteRecordMetadata, WriteGameScopedClaims, ScoreIndexedRecords, ReconvertStoredRecords

LEMMA CorpusInvAlways ==
  CorpusSpec => []CorpusInv
  BY CorpusInvInit, CorpusInvNext, PTL DEF CorpusSpec

\* Whatever is unreadable, pruned, re-indexed or cut short by a restart, a
\* one-shot pass that has marked itself done in completed_backfills has
\* reached every row of the index but those recovered after the mark, for any
\* corpus, page size, walkers and number of failures and restarts.
THEOREM MarkersAreEarned ==
  CorpusSpec => []MarkerMeansDone
<1>1. CorpusInv => MarkerMeansDone
  BY DEF CorpusInv
<1> QED BY <1>1, CorpusInvAlways, PTL

\* The file of a completed job holds every row there was when start_job ran,
\* once, whatever was filed, rewritten, pruned or restarted during its walk.
THEOREM DownloadsAreWhole ==
  CorpusSpec => []ExportIsWhole
<1>1. CorpusInv => ExportIsWhole
  BY DEF CorpusInv, ExportInStep, ExportIsWhole, Servable
<1> QED BY <1>1, CorpusInvAlways, PTL

=============================================================================
