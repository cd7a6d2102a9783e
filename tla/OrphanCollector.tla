-------------------------- MODULE OrphanCollector --------------------------
(***************************************************************************)
(* The orphan collector (src/gc.rs) beside the pack worker it shares the   *)
(* bucket and the index with.  A round reads the manifest of referenced    *)
(* packs, then lists the bucket, then deletes what is unreferenced and     *)
(* older than the grace period; the worker may upload, insert or fail      *)
(* between any two of those, and a merge may drop a superseded row.        *)
(***************************************************************************)
EXTENDS PackWorker

CONSTANTS Grace,      \* MJAI_GC_GRACE_SECS
          GcWindow    \* longest time from the manifest query to the listing

\* The client timeouts (30s for a control request or a statement) bound both
\* windows far below the default grace of a day.
ASSUME CollectorAssumption ==
    /\ Grace \in Nat /\ GcWindow \in Nat
    /\ SealWindow + GcWindow < Grace

VARIABLES gc,           \* where the collector is
          manifest,     \* the packs the index referenced, and when
          manifestAt,
          victims       \* the orphans still to delete

gcVars == <<gc, manifest, manifestAt, victims>>
allVars == <<vars, gcVars>>

GcInit == /\ gc = "idle" /\ manifest = {} /\ manifestAt = 0
          /\ victims = {}

GcIdle == /\ gc' = "idle" /\ manifest' = {} /\ manifestAt' = 0
          /\ victims' = {}

-----------------------------------------------------------------------------
\* A query that goes wrong may answer with nothing, which from here looks like
\* an empty index, and an empty answer ends the round.
GcManifest ==
    /\ pc # "down" /\ gc = "idle"
    /\ \E answer \in {{}, {r.pack : r \in index}} :
          answer # {} /\ manifest' = answer
    /\ gc' = "list"
    /\ manifestAt' = now
    /\ UNCHANGED <<victims, vars>>

\* Mutant of Orphans: an unreferenced object is an orphan at any age.
OrphansOfAnyAge == {k \in 1 .. Len(objects) : /\ objects[k].body # "none"
                                              /\ k \notin manifest}

Orphans == {k \in 1 .. Len(objects) : /\ objects[k].body # "none"
                                      /\ k \notin manifest
                                      /\ now - objects[k].at >= Grace}

GcList ==
    /\ gc = "list"
    /\ gc' = "delete"
    /\ victims' = Orphans
    /\ UNCHANGED <<manifest, manifestAt, vars>>

GcDelete(k) ==
    /\ gc = "delete"
    /\ objects' = [objects EXCEPT ![k].body = "none"]
    /\ victims' = victims \ {k}
    /\ UNCHANGED <<gc, manifest, manifestAt, index, inserts, scored, offset, unheard,
                   brokerVars, workerVars, now, faults>>

GcDone ==
    /\ gc = "delete" /\ victims = {}
    /\ GcIdle
    /\ UNCHANGED vars

\* The listing or a delete fails and the round ends where it stands.
GcFails ==
    /\ gc = "list" \/ (gc = "delete" /\ victims # {})
    /\ Fault
    /\ GcIdle
    /\ UNCHANGED <<brokerVars, workerVars, storeVars, now>>

Collector == \/ GcManifest \/ GcList \/ GcDone \/ GcFails
             \/ \E k \in victims : GcDelete(k)

-----------------------------------------------------------------------------
\* The collector dies with the process, and the call it is in the middle of
\* does not outlast its window.
WorkerBeside ==
    /\ Next
    /\ (now' # now /\ gc = "list") => now < manifestAt + GcWindow
    /\ IF pc' = "down" THEN GcIdle ELSE UNCHANGED gcVars

CollectorInit == Init /\ GcInit
CollectorNext == WorkerBeside \/ Collector
CollectorSpec == CollectorInit /\ [][CollectorNext]_allVars

-----------------------------------------------------------------------------
CollectorTypeOK ==
    /\ TypeOK
    /\ gc \in {"idle", "list", "delete"}
    /\ manifest \subseteq Nat /\ manifestAt \in Nat
    /\ victims \subseteq 1 .. Len(objects)

\* Why every row stays readable (RowsReadable), and stays so after the next
\* step.  A pack being written is referenced by no row yet, so a failed or
\* short upload harms none; its rows follow its stamp within SealWindow; the
\* listing follows the manifest within GcWindow.  A row is therefore in the
\* manifest or its pack is younger than the grace period, and a victim is
\* neither referenced nor about to be.
Writing == pc \in {"run", "put", "head", "insert"}
RowsWhole == \A r \in index : /\ r.pack \in 1 .. Len(objects)
                              /\ objects[r.pack].body = "whole"
NoneOpen  == pc = "down" => open = 0
FreshPack == Writing => \A r \in index : r.pack # open
NotStored == pc \in {"run", "put"} /\ open # 0 => objects[open].body = "none"
InTime    == pc \in {"head", "insert"} => now <= objects[open].at + SealWindow
Confirmed == pc = "insert" => objects[open].body = "whole"
ListInTime == gc = "list" =>
    /\ manifestAt <= now /\ now <= manifestAt + GcWindow
    /\ \A r \in index : \/ r.pack \in manifest
                         \/ objects[r.pack].at + SealWindow >= manifestAt
VictimsIdle == gc = "delete" => /\ \A r \in index : r.pack \notin victims
                                /\ Writing => open \notin victims
ReadableInv == /\ CollectorTypeOK /\ RowsWhole /\ NoneOpen /\ FreshPack
               /\ NotStored /\ InTime /\ Confirmed /\ ListInTime /\ VictimsIdle
=============================================================================
