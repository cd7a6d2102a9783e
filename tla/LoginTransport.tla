--------------------------- MODULE LoginTransport ---------------------------
(***************************************************************************)
(* How a session reaches the game.  It logs in with a version that         *)
(* VersionFloor settles, over the builtin connection of RpcChannel or a    *)
(* module process behind ModulePipe that ModuleStore has installed         *)
(* (LoginTransport, managed_watch.rs).  A session uses one of them for its *)
(* whole life, the store is not read while it does, and to the version one *)
(* login is one step, so which part is looked at is chosen initially and   *)
(* the others never move.                                                  *)
(***************************************************************************)
EXTENDS RpcChannel, ModulePipe, ModuleStore, VersionFloor

VARIABLE transport   \* "builtin" or "external", before them "negotiating"
                     \* and, without a session, "installing"

vars == <<transport, rpcVars, pipeVars, storeVars, floorVars>>
Transports == {"builtin", "external", "installing", "negotiating"}

TypeOK ==
  /\ transport \in Transports
  /\ RpcTypeOK /\ PipeTypeOK /\ StoreTypeOK /\ FloorTypeOK

\* ModuleStore::worker opens the worker of a module that is installed and
\* answers its health check; PipeInit is the process it has started.
WorkerOpen == disk = {Own(Bundled)} /\ Loadable(Bundled)

Init ==
  /\ transport \in Transports
  /\ RpcInit /\ PipeInit /\ StoreInit /\ FloorInit
  /\ transport # "installing" => WorkerOpen

\* Builtin: the calls of RpcChannel.
Builtin ==
  /\ transport = "builtin" /\ RpcNext
  /\ UNCHANGED <<transport, pipeVars, storeVars, floorVars>>

\* The installs of ModuleStore.
Installing ==
  /\ transport = "installing" /\ StoreNext
  /\ UNCHANGED <<transport, rpcVars, pipeVars, floorVars>>

\* External: the requests of ModulePipe.
External ==
  /\ transport = "external" /\ PipeNext
  /\ UNCHANGED <<transport, rpcVars, storeVars, floorVars>>

\* Logging in: a step of FloorNext.
Negotiates(A) ==
  /\ transport = "negotiating" /\ A
  /\ UNCHANGED <<transport, rpcVars, pipeVars, storeVars>>
Negotiating == Negotiates(FloorNext)

Next == Builtin \/ Installing \/ External \/ Negotiating

Spec == Init /\ [][Next]_vars

\* Every session's loop runs on, and a host that is down comes back.
FairSpec ==
  /\ Spec
  /\ \A s \in Sessions : WF_vars(Negotiates(SessionStep(s)))
  /\ \A h \in Sites : WF_vars(Negotiates(SiteBack(h)))

\* After the server has raised its floor for the last time, and its faults are
\* over, every session ends up logged in for good: the run loops come round
\* through refreshed_client_version, or a search of their own, to a version
\* that is taken.
EverySessionLogsIn ==
  transport = "negotiating" => \A s \in Sessions : <>[](loop[s] = "up")
=============================================================================
