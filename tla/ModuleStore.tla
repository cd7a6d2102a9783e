---------------------------- MODULE ModuleStore -----------------------------
(***************************************************************************)
(* The modules installed on disk (ModuleStore, watch_service.rs), for one  *)
(* module name: a directory per version, an install that unpacks beside it *)
(* (the temporary directory has the version's parent), asks the module for *)
(* its health and renames, and the sync of the bundled version when the    *)
(* process starts.                                                         *)
(*                                                                         *)
(* MaxBoots bounds the starts of the process and MaxInstalls the installs. *)
(***************************************************************************)
EXTENDS Integers, FiniteSets

CONSTANTS Versions, Bundled, Healthy, MaxBoots, MaxInstalls

ASSUME StoreAssumption ==
  /\ Healthy \subseteq Versions /\ Bundled \in Versions
  /\ MaxBoots \in Nat /\ MaxInstalls \in Nat

VARIABLES
  disk,      \* directories: [dir, version], dir 0 for the version's own
  installs,  \* the installs under way: [dir, version, by, step]
  made,      \* temporary directories named so far
  boot,      \* "syncing" while sync_bundled runs, then "serving"
  boots,     \* starts so far
  disturbed  \* history: this start's sync failed, or an operator has installed

storeVars == <<disk, installs, made, boot, boots, disturbed>>

Own(v) == [dir |-> 0, version |-> v]
Temp(i) == [dir |-> i.dir, version |-> i.version]
Listed == {d.version : d \in disk}

StoreTypeOK ==
  /\ disk \subseteq [dir : 0 .. MaxInstalls, version : Versions]
  /\ installs \subseteq [dir : 1 .. MaxInstalls, version : Versions,
                         by : {"sync", "operator"}, step : {"health", "rename"}]
  /\ made \in 0 .. MaxInstalls
  /\ boot \in {"starting", "syncing", "serving"}
  /\ boots \in 1 .. MaxBoots
  /\ disturbed \in BOOLEAN

\* A process that starts over whatever an earlier one left installed.
StoreInit ==
  /\ disk \in SUBSET {Own(v) : v \in Healthy}
  /\ installs = {}
  /\ made = 0
  /\ boot = "starting" /\ boots = 1
  /\ disturbed = FALSE

\* install, up to the health check: the artifact matches its digest and the
\* temporary directory holds it with its manifest.
Unpack(v, by) ==
  /\ made < MaxInstalls
  /\ made' = made + 1
  /\ disk' = disk \union {[dir |-> made + 1, version |-> v]}
  /\ installs' = installs \union
       {[dir |-> made + 1, version |-> v, by |-> by, step |-> "health"]}

\* sync_one: the bundled version is installed unless its directory is there.
SyncStart ==
  /\ boot = "starting"
  /\ disturbed' = FALSE
  /\ IF Own(Bundled) \in disk
     THEN /\ disk' = {Own(Bundled)} /\ boot' = "serving"
          /\ UNCHANGED <<installs, made>>
     ELSE Unpack(Bundled, "sync") /\ boot' = "syncing"
  /\ UNCHANGED boots

\* An operator's install, which the service takes once it is up.
OperatorInstall(v) ==
  /\ boot = "serving"
  /\ Unpack(v, "operator")
  /\ disturbed' = TRUE
  /\ UNCHANGED <<boot, boots>>

\* The sync ends with its install; a failed one is logged, and returns
\* before the other versions are retired.
AfterInstall(i, failed) ==
  /\ boot' = IF i.by = "sync" THEN "serving" ELSE boot
  /\ disturbed' = (disturbed \/ (failed /\ i.by = "sync"))

\* A module that does not answer in time fails its install, which returns at
\* once and leaves what it unpacked.
HealthFails(i) ==
  /\ i.step = "health"
  /\ installs' = installs \ {i}
  /\ AfterInstall(i, TRUE)
  /\ UNCHANGED <<disk, made, boots>>

\* A process that could be started, taken for one that answers.
AnswersWhenStarted(v) == TRUE

\* health: the module answered.
Answers(v) == v \in Healthy

\* The version's directory is looked for after the health check; finding it
\* takes the temporary one away and ends the install.
HealthPasses(i) ==
  /\ i.step = "health" /\ Answers(i.version)
  /\ IF Own(i.version) \in disk
     THEN /\ disk' = disk \ {Temp(i)}
          /\ installs' = installs \ {i}
          /\ AfterInstall(i, TRUE)
     ELSE /\ installs' = (installs \ {i}) \union {[i EXCEPT !.step = "rename"]}
          /\ UNCHANGED <<disk, boot, disturbed>>
  /\ UNCHANGED <<made, boots>>

\* The other versions left where they are.
RetiredNone(kept) == kept

\* What is left beside the version a sync has installed.
Retired(kept) == {Own(Bundled)}

\* The rename.  Another install of the same version may have renamed first,
\* and a directory that is not empty is not replaced.
Rename(i) ==
  /\ i.step = "rename"
  /\ LET kept == (disk \ {Temp(i)}) \union {Own(i.version)}
     IN  IF Own(i.version) \in disk THEN UNCHANGED disk
         ELSE disk' = IF i.by = "sync" THEN Retired(kept) ELSE kept
  /\ installs' = installs \ {i}
  /\ AfterInstall(i, FALSE)
  /\ UNCHANGED <<made, boots>>

\* The process ends, whatever was under way, and is started again.
Restart ==
  /\ boots < MaxBoots
  /\ boots' = boots + 1
  /\ installs' = {}
  /\ boot' = "starting"
  /\ UNCHANGED <<disk, made, disturbed>>

StoreNext ==
  \/ SyncStart
  \/ \E v \in Versions : OperatorInstall(v)
  \/ \E i \in installs : HealthFails(i)
  \/ \E i \in installs : HealthPasses(i)
  \/ \E i \in installs : Rename(i)
  \/ Restart

StoreSpec == StoreInit /\ [][StoreNext]_storeVars

\* load_manifest and worker: the module a configuration names is run from the
\* directory of its version, and from no other.
Loadable(v) == Own(v) \in disk

\* sole: the only module list finds.  It reads every directory with a
\* manifest in it, whatever the directory is called.
Sole(v) == Cardinality(disk) = 1 /\ v \in Listed

(***************************************************************************)
(* Properties                                                              *)
(***************************************************************************)

\* What can be run has answered its health check: an unpacked module that
\* did not, or whose install was cut off, is never in its version's place.
LoadableIsHealthy == \A v \in Versions : Loadable(v) => v \in Healthy

\* After a sync that installed, and until somebody installs something else,
\* the bundled version is the one and only module of its name and can be run
\* (the sync_bundled comment: an upgrade must not "half-apply"), whatever an
\* earlier process left behind, crashed and failed installs included.
SyncLeavesTheBundledOne ==
  boot = "serving" /\ ~disturbed => Sole(Bundled) /\ Loadable(Bundled)

\* Why they hold after the next step too.  An install is renamed into place
\* only after its health check; a sync is alone with its install, whose
\* version has no directory yet; and nothing that is not in the bundled
\* version's place survives it.
StoreTyped ==
  /\ installs \subseteq [dir : Nat \ {0}, version : Versions,
                         by : {"sync", "operator"}, step : {"health", "rename"}]
  /\ made \in Nat /\ disturbed \in BOOLEAN
  /\ boot \in {"starting", "syncing", "serving"}
RenamedIsHealthy == \A i \in installs : i.step = "rename" => i.version \in Healthy
SyncIsAlone ==
  /\ boot = "starting" => installs = {}
  /\ boot = "syncing" =>
       \E i \in installs : /\ installs = {i} /\ i.by = "sync" /\ i.version = Bundled
                           /\ Own(Bundled) \notin disk
  /\ boot = "serving" => \A i \in installs : i.by = "operator"
OnlyTheBundled ==
  boot = "serving" /\ ~disturbed => disk = {Own(Bundled)} /\ installs = {}
StoreInv == /\ StoreTyped /\ RenamedIsHealthy /\ LoadableIsHealthy
            /\ SyncIsAlone /\ OnlyTheBundled
=============================================================================
