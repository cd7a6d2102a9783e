---------------------------- MODULE Registration ----------------------------
(***************************************************************************)
(* A registration run (src/register_service.rs): it borrows exits from     *)
(* mihomo, checks them and the mailbox source, registers a batch of        *)
(* accounts a few at a time through an installed module, stores each one   *)
(* as it finishes, and gives the exits back.  It runs beside the console,  *)
(* the pool and mihomo of ProxySlots, whose document and slots it shares.  *)
(*                                                                         *)
(* The module is external: it registers an account or fails.  Messages,    *)
(* credentials and the per-account report are left out, their counters     *)
(* kept.                                                                   *)
(***************************************************************************)
EXTENDS ProxySlots

CONSTANTS Batch,        \* how many accounts a run is asked for
          Width,        \* the concurrency asked for, after clamping
          GiveUpAfter,  \* GIVE_UP_AFTER
          MaxRuns

ASSUME RunAssumption ==
    /\ Batch \in Nat \ {0}
    /\ Width \in Nat \ {0} /\ GiveUpAfter \in Nat \ {0} /\ MaxRuns \in Nat

VARIABLES
    run,         \* the task: [pc, gen, random, exits, next]
    gen,         \* RegisterService::generation
    progress,    \* AccountRegisterProgress: [running, done, succeeded, failed]
    job,         \* every account of the batch: [at, node, port]
    streak,      \* failures since the last success
    leaked,      \* whether a lease could not be written to the files
    runs

runVars == <<run, gen, progress, job, streak, leaked, runs>>
vars    == <<exitVars, runVars>>

Jobs     == 1 .. Batch
Waiting  == [at |-> "todo", node |-> Shared, port |-> NoSlot]
NoRun    == [pc |-> "idle", gen |-> 0, random |-> FALSE, exits |-> << >>, next |-> 1]
Fresh0   == [running |-> FALSE, done |-> 0, succeeded |-> 0, failed |-> 0]
InFlight == {j \in Jobs : job[j].at \in {"spawned", "working"}}
Want     == IF Width < Batch THEN Width ELSE Batch

At(pc)   == run.pc = pc
Go(pc)   == run' = [run EXCEPT !.pc = pc]
Settled  == <<gen, progress, job, streak, leaked, runs>>

\* The end of the task `start` spawned.
EndRun ==
    /\ run' = NoRun
    /\ progress' = [progress EXCEPT !.running = FALSE]

------------------------------------------------------------------------------
\* start: refused while a batch is running; the module was found already.
StartRun ==
    /\ ~progress.running /\ runs < MaxRuns /\ runs' = runs + 1
    /\ \E random \in BOOLEAN :
        run' = [NoRun EXCEPT !.pc = IF random THEN "status" ELSE "prepare",
                             !.gen = gen, !.random = random]
    /\ progress' = [Fresh0 EXCEPT !.running = TRUE]
    /\ job' = [j \in Jobs |-> Waiting] /\ streak' = 0
    /\ UNCHANGED <<gen, leaked, exitVars>>

\* stop: the batch ends after the accounts in flight.
StopRun ==
    /\ progress.running /\ gen = run.gen
    /\ gen' = gen + 1
    /\ UNCHANGED <<run, progress, job, streak, leaked, runs, exitVars>>

------------------------------------------------------------------------------
(* lease_exits. *)

\* status(), before the lease and after it.  A mihomo that does not answer
\* has no nodes and no outbounds.
AskStatus ==
    /\ run.pc \in {"status", "check"} /\ ~polling["run"].read
    /\ \/ PollReads("run") /\ UNCHANGED <<events, runVars>>
       \/ /\ ~mihomo.up
          /\ IF At("status")
             THEN EndRun /\ UNCHANGED <<gen, job, streak, leaked, runs>>
             ELSE Go("release") /\ UNCHANGED Settled
          /\ UNCHANGED exitVars

\* The exits a batch may leave from are those pointed at their own node.
SeeStatus ==
    LET seen  == polling["run"]
        ready == InOrder({n \in Filed(slot) : Usable(seen, n)})
    IN  /\ seen.read /\ run.pc \in {"status", "check"}
        /\ ReadNodes(seen)
        /\ polling' = [polling EXCEPT !["run"] = Unread]
        /\ run' = IF At("status") THEN [run EXCEPT !.pc = "lease"]
                  ELSE [run EXCEPT !.pc = IF ready = << >> THEN "release" ELSE "prepare",
                                   !.exits = ready]
        /\ UNCHANGED <<bound, slot, slotDisk, leased, subVars, miVars, apply, change,
                       events, Settled>>

\* lease_outbound_nodes: up to as many live nodes as accounts in flight, in
\* any order, besides those the pool holds.  A lease that cannot be written
\* ends the run with the nodes still borrowed.
UsableNodes == SUBSET Offered
NodesToBorrow(alive, held) ==
    LET spare == alive \ held
        many  == IF Want < Cardinality(spare) THEN Want ELSE Cardinality(spare)
    IN  {order \in [1 .. many -> spare] : IsInjective(order)}

LeaseExits ==
    /\ At("lease")
    /\ \E alive \in UsableNodes :
        IF alive = {}
        THEN EndRun /\ UNCHANGED <<gen, job, streak, leaked, runs, exitVars>>
        ELSE LET held == bound
             IN  \E borrowed \in NodesToBorrow(alive, held), went \in BOOLEAN :
                    /\ SetOutbound(held, borrowed, went)
                    /\ Spend(Cost(went)) /\ leaked' = ~went
                    /\ IF went
                       THEN /\ Go("applying") /\ apply' = Spawned(RunTask)
                            /\ UNCHANGED progress
                       ELSE EndRun /\ UNCHANGED apply
                    /\ UNCHANGED <<bound, miVars, polling, change, gen, job, streak, runs>>

LeaseApplied ==
    /\ At("applying") /\ apply[RunTask].pc = "idle"
    /\ Go("check")
    /\ UNCHANGED <<Settled, exitVars>>

------------------------------------------------------------------------------
(* registered: the batch. *)

AfterBatchStopped == IF run.random /\ gen = run.gen THEN Go("release") /\ UNCHANGED progress
                     ELSE EndRun
AfterBatch == IF run.random THEN Go("release") /\ UNCHANGED progress ELSE EndRun

\* The module starts and the mailbox source answers a probe, or the run ends
\* before any account is spent.
Prepare ==
    /\ At("prepare")
    /\ \/ Go("loop") /\ UNCHANGED progress
       \/ AfterBatch
    /\ UNCHANGED <<gen, job, streak, leaked, runs, exitVars>>

\* One turn of the loop: a permit, the two checks, a task.
Launch ==
    /\ At("loop") /\ Cardinality(InFlight) < Want
    /\ IF run.next \notin Jobs \/ gen # run.gen \/ streak >= GiveUpAfter
       THEN Go("join") /\ UNCHANGED job
       ELSE /\ run' = [run EXCEPT !.next = @ + 1]
            /\ job' = [job EXCEPT ![run.next] =
                  [at |-> "spawned", port |-> NoSlot,
                   node |-> IF run.exits = << >> THEN Shared
                            ELSE run.exits[((run.next - 1) % Len(run.exits)) + 1]]]
    /\ UNCHANGED <<gen, progress, streak, leaked, runs, exitVars>>

\* finish and note_result.
Settle(j, ok) ==
    /\ job' = [job EXCEPT ![j].at = IF ok THEN "ok" ELSE "failed"]
    /\ progress' = [progress EXCEPT !.done = @ + 1,
                       !.succeeded = IF ok THEN @ + 1 ELSE @,
                       !.failed = IF ok THEN @ ELSE @ + 1]
    /\ streak' = IF ok THEN 0 ELSE streak + 1

\* one_account resolves its exit: an exit whose listener is gone is refused
\* rather than replaced by this host's own address.
StartAccount(j) ==
    /\ job[j].at = "spawned"
    /\ IF job[j].node # Shared /\ ProxyFor(job[j].node) = NoSlot
       THEN Settle(j, FALSE)
       ELSE /\ job' = [job EXCEPT ![j].at = "working",
                           ![j].port = IF job[j].node = Shared THEN NoSlot
                                       ELSE ProxyFor(job[j].node)]
            /\ UNCHANGED <<progress, streak>>
    /\ UNCHANGED <<run, gen, leaked, runs, exitVars>>

\* The module's answer (settle): a new account is stored, disabled and with
\* the node it was made from, before it is counted; one the pool has already
\* is a failure, and so is one that could not be written.
AccountAnswers(j) ==
    /\ job[j].at = "working"
    /\ \E ok \in BOOLEAN : Settle(j, ok)
    /\ UNCHANGED <<run, gen, leaked, runs, exitVars>>

JoinAll ==
    /\ At("join") /\ InFlight = {}
    /\ AfterBatch
    /\ UNCHANGED <<gen, job, streak, leaked, runs, exitVars>>

------------------------------------------------------------------------------
\* release_exits: the pool is read again, not restored.
ReleaseExits ==
    /\ At("release")
    /\ \E went \in BOOLEAN :
        /\ SetOutbound(bound, << >>, went)
        /\ Spend(Cost(went)) /\ leaked' = FALSE
        /\ IF went /\ slot' # slot
           THEN Go("releasing") /\ apply' = Spawned(RunTask) /\ UNCHANGED progress
           ELSE EndRun /\ UNCHANGED apply
    /\ UNCHANGED <<bound, miVars, polling, change, gen, job, streak, runs>>

Released ==
    /\ At("releasing") /\ apply[RunTask].pc = "idle"
    /\ EndRun
    /\ UNCHANGED <<gen, job, streak, leaked, runs, exitVars>>

\* The process restarts: a lease belongs to a run and no run survives.
RestartAll ==
    /\ Restart
    /\ run' = NoRun /\ progress' = Fresh0 /\ gen' = 0
    /\ job' = [j \in Jobs |-> Waiting] /\ streak' = 0 /\ leaked' = FALSE
    /\ UNCHANGED runs

------------------------------------------------------------------------------
Init ==
    /\ ExitInit
    /\ run = NoRun /\ gen = 0 /\ progress = Fresh0
    /\ job = [j \in Jobs |-> Waiting] /\ streak = 0 /\ leaked = FALSE /\ runs = 0

RunStep == AskStatus \/ SeeStatus \/ LeaseExits \/ LeaseApplied \/ Prepare \/ Launch
           \/ JoinAll \/ ReleaseExits \/ Released
JobStep(j) == StartAccount(j) \/ AccountAnswers(j)

Next ==
    \/ ExitNext /\ UNCHANGED runVars
    \/ StartRun \/ StopRun \/ RunStep \/ RestartAll
    \/ \E j \in Jobs : JobStep(j)

Spec == Init /\ [][Next]_vars

------------------------------------------------------------------------------
(* Properties. *)

\* Every variable keeps its shape; a slot is never one of the reserved ports.
TypeOK ==
    /\ bound \subseteq Nodes
    /\ slot \in [Nodes -> (1 .. MaxSlot) \cup {NoSlot}] /\ slotDisk \in [Nodes -> 0 .. MaxSlot]
    /\ Range(slot) \cap ReservedSlots = {}
    /\ Range(leased) \subseteq Nodes
    /\ apply \in [Tasks -> Applier]
    /\ now \in [Slots -> Nodes \cup {Shared}]
    /\ progress.done = progress.succeeded + progress.failed

\* Two nodes never answer on one port.
OneNodePerPort ==
    \A m, n \in Filed(slot) : slot[m] = slot[n] => m = n

\* A node an enabled account is bound to has a slot unless every slot is taken.
BoundNodesAreFiled ==
    \A n \in bound : slot[n] # NoSlot \/ Slots \subseteq Range(slot)

\* Borrowed exits are given back with the run that borrowed them, whichever
\* way it ends, unless the lease itself could not be written.
LeaseEndsWithItsRun == leased # << >> => progress.running \/ leaked

\* A registration in flight through a borrowed exit dials the port that is
\* still that exit's, whatever is saved meanwhile.
BorrowedExitStays ==
    \A j \in Jobs : job[j].at = "working" /\ job[j].node \in Range(leased)
                        => slot[job[j].node] = job[j].port

\* As above for every exit a run uses, the pool's own included.
InFlightKeepsItsExit ==
    \A j \in Jobs : job[j].at = "working" /\ job[j].node # Shared
                        => slot[job[j].node] = job[j].port

(* What keeps these so. *)

RunPcs == {"idle", "status", "lease", "applying", "check", "prepare", "loop", "join",
           "release", "releasing"}
RunRecord == [pc : RunPcs, gen : Nat, random : BOOLEAN, exits : Seq(Nodes), next : Nat]
ProgressRecord == [running : BOOLEAN, done : Nat, succeeded : Nat, failed : Nat]
JobRecord == [at : {"todo", "spawned", "working", "ok", "failed"},
              node : Nodes \cup {Shared}, port : Slots \cup {NoSlot}]
RunTyped ==
    /\ bound \subseteq Nodes /\ leased \in Seq(Nodes)
    /\ slot \in [Nodes -> Slots \cup {NoSlot}] /\ slotDisk \in [Nodes -> Slots \cup {NoSlot}]
    /\ run \in RunRecord /\ progress \in ProgressRecord /\ job \in [Jobs -> JobRecord]
    /\ gen \in Nat

\* The slots in the file, which the next process starts from, collide no more
\* than those in memory.
OneNodePerPortOnDisk ==
    \A m, n \in Filed(slotDisk) : slotDisk[m] = slotDisk[n] => m = n

\* A lease that was written is held by a run which has yet to release it.
LeaseIsHeld ==
    /\ progress.running = (run.pc # "idle")
    /\ run.pc \in {"status", "lease"} => run.random
    /\ leased # << >> =>
         leaked \/ (run.random /\ run.pc \in RunPcs \ {"idle", "status", "lease", "releasing"})

\* Accounts are in flight only inside the batch, and one that dials a node's
\* port was given one.
InFlightInTheBatch == InFlight # {} => run.pc \in {"loop", "join"}
DialsAPort == \A j \in Jobs : job[j].at = "working" /\ job[j].node # Shared => job[j].port # NoSlot

RunInv == /\ RunTyped /\ OneNodePerPort /\ OneNodePerPortOnDisk /\ LeaseIsHeld
          /\ InFlightInTheBatch /\ DialsAPort /\ BorrowedExitStays
=============================================================================
