----------------------------- MODULE ModulePipe -----------------------------
(***************************************************************************)
(* The pipe to a module process (PluginWorker, watch_service.rs): one line *)
(* out and one line back under one lock, ids to tell the answers apart,    *)
(* and a flag set when a read was given up on with the pipe at an offset   *)
(* nobody knows.  Whoever enters next and finds the flag set starts the    *)
(* process again.                                                          *)
(*                                                                         *)
(* MaxRequests bounds the ids handed out, MaxFaults the slow answers,      *)
(* dropped callers, failed starts and deaths of the process.               *)
(***************************************************************************)
EXTENDS Integers, Sequences

CONSTANTS Clients, MaxRequests, MaxFaults

ASSUME PipeAssumption == MaxRequests \in Nat /\ MaxFaults \in Nat

VARIABLES
  sequence,   \* the id the next request takes
  req,        \* client -> the id of its request, 0 for none
  at,         \* client -> where that request is
  asked,      \* ids the process has read and not answered
  output,     \* what its standard output holds: ids, 0 the rest of a torn line
  alive,      \* the process the pipes lead to
  desynced,   \* PluginWorker::desynced
  faults,     \* faults so far
  unflagged,  \* history: dropped callers and failed starts, which set no flag
  collateral, \* history: requests failed by a line that was not theirs
  misread     \* history: a request returned another one's answer

pipeVars == <<sequence, req, at, asked, output, alive, desynced, faults,
              unflagged, collateral, misread>>

Holder == {c \in Clients : at[c] \in {"entered", "reading"}}

PipeTypeOK ==
  /\ sequence \in 1 .. MaxRequests + 1
  /\ req \in [Clients -> 0 .. MaxRequests]
  /\ at \in [Clients -> {"idle", "locking", "entered", "reading"}]
  /\ asked \in Seq(1 .. MaxRequests)
  /\ output \in Seq(0 .. MaxRequests)
  /\ alive \in BOOLEAN /\ desynced \in BOOLEAN /\ misread \in BOOLEAN
  /\ faults \in 0 .. MaxFaults /\ unflagged \in 0 .. faults
  /\ collateral \in Nat

\* spawn: a running process with nothing in its pipes.
PipeInit ==
  /\ sequence = 1
  /\ req = [c \in Clients |-> 0]
  /\ at = [c \in Clients |-> "idle"]
  /\ asked = <<>> /\ output = <<>>
  /\ alive = TRUE
  /\ desynced = FALSE
  /\ faults = 0
  /\ unflagged = 0 /\ collateral = 0 /\ misread = FALSE

Finished(c) == /\ at' = [at EXCEPT ![c] = "idle"]
               /\ req' = [req EXCEPT ![c] = 0]

Fault == faults < MaxFaults /\ faults' = faults + 1

\* request: the id is taken before the lock.
Ask(c) ==
  /\ at[c] = "idle" /\ sequence <= MaxRequests
  /\ sequence' = sequence + 1
  /\ req' = [req EXCEPT ![c] = sequence]
  /\ at' = [at EXCEPT ![c] = "locking"]
  /\ UNCHANGED <<asked, output, alive, desynced, faults, unflagged, collateral, misread>>

\* The lock, and the flag taken by whoever acts on it.  A start that fails
\* has cleared the flag and left the old pipes in place.
Enter(c) ==
  /\ at[c] = "locking" /\ Holder = {}
  /\ desynced' = FALSE
  /\ \/ /\ at' = [at EXCEPT ![c] = "entered"]
        /\ IF desynced THEN alive' = TRUE /\ asked' = <<>> /\ output' = <<>>
                       ELSE UNCHANGED <<alive, asked, output>>
        /\ UNCHANGED <<req, faults, unflagged>>
     \/ /\ desynced /\ Fault /\ Finished(c)
        /\ unflagged' = unflagged + 1
        /\ UNCHANGED <<alive, asked, output>>
  /\ UNCHANGED <<sequence, collateral, misread>>

\* The request line is written; the pipe of a dead process breaks.
Write(c) ==
  /\ at[c] = "entered"
  /\ IF alive THEN /\ asked' = Append(asked, req[c])
                   /\ at' = [at EXCEPT ![c] = "reading"]
                   /\ UNCHANGED req
              ELSE Finished(c) /\ UNCHANGED asked
  /\ UNCHANGED <<sequence, output, alive, desynced, faults, unflagged, collateral, misread>>

\* The module answers the lines it reads in order.
ModuleAnswers ==
  /\ alive /\ asked # <<>>
  /\ output' = Append(output, Head(asked))
  /\ asked' = Tail(asked)
  /\ UNCHANGED <<sequence, req, at, alive, desynced, faults, unflagged, collateral, misread>>

\* What a request makes of the line it read: its own answer, or a line that
\* does not parse or carries another id, after which the offset is unknown.
IsAnswer(line, id) == line = id

ReadLine(c) ==
  /\ at[c] = "reading" /\ output # <<>>
  /\ output' = Tail(output)
  /\ LET mine == IsAnswer(Head(output), req[c])
     IN  /\ desynced' = (desynced \/ ~mine)
         /\ collateral' = IF mine THEN collateral ELSE collateral + 1
         /\ misread' = (misread \/ (mine /\ Head(output) # req[c]))
  /\ Finished(c)
  /\ UNCHANGED <<sequence, asked, alive, faults, unflagged>>

\* A deadline treated as the caller's own business.
AfterTimeoutQuiet == desynced

\* What a deadline leaves behind: the flag.
AfterTimeout == TRUE

\* The deadline passes.  The answer has not come, or part of it has been
\* consumed and the rest is still to come.
Deadline(c) ==
  /\ at[c] = "reading" /\ output = <<>> /\ Fault
  /\ desynced' = AfterTimeout
  /\ \/ UNCHANGED <<asked, output>>
     \/ asked # <<>> /\ asked' = Tail(asked) /\ output' = <<0>>
  /\ Finished(c)
  /\ UNCHANGED <<sequence, alive, unflagged, collateral, misread>>

\* The caller's task is stopped: the future is dropped and the lock with it,
\* and nothing sets the flag.
Cancel(c) ==
  /\ at[c] # "idle" /\ Fault
  /\ unflagged' = unflagged + 1
  /\ Finished(c)
  /\ UNCHANGED <<sequence, asked, output, alive, desynced, collateral, misread>>

\* The process exits; a reader of its output meets the end of the file, and
\* neither that nor a broken write sets the flag.
ModuleDies ==
  /\ alive /\ Fault
  /\ alive' = FALSE /\ asked' = <<>>
  /\ UNCHANGED <<sequence, req, at, output, desynced, unflagged, collateral, misread>>

EndOfFile(c) ==
  /\ at[c] = "reading" /\ ~alive /\ output = <<>>
  /\ Finished(c)
  /\ UNCHANGED <<sequence, asked, output, alive, desynced, faults, unflagged, collateral, misread>>

PipeNext ==
  \/ \E c \in Clients : Ask(c)
  \/ \E c \in Clients : Enter(c)
  \/ \E c \in Clients : Write(c)
  \/ ModuleAnswers
  \/ \E c \in Clients : ReadLine(c)
  \/ \E c \in Clients : Deadline(c)
  \/ \E c \in Clients : Cancel(c)
  \/ ModuleDies
  \/ \E c \in Clients : EndOfFile(c)

(***************************************************************************)
(* Properties                                                              *)
(***************************************************************************)

\* A request never returns the answer to another one, although a request
\* that was given up on leaves its answer in the pipe for the next reader.
NoMisread == ~misread

\* A slow answer costs the request that gave up on it and no other: a request
\* is failed by a line that was not its own only when a caller was dropped or
\* a start failed before it, once for each.  Without the flag, or with a
\* restart that kept the old output, the pipe would stay one answer behind
\* (the desynced comment: a worker "that met one slow record never
\* recovered").
SlowAnswersCostOnlyThemselves == collateral <= unflagged

\* What keeps it so.  One request at a time has the lock, and nobody once the
\* flag is set.
PipeTyped ==
  /\ sequence \in Nat /\ req \in [Clients -> Nat]
  /\ at \in [Clients -> {"idle", "locking", "entered", "reading"}]
  /\ asked \in Seq(Nat) /\ output \in Seq(Nat)
  /\ unflagged \in Nat /\ collateral \in Nat
OneHolder == \A c, d \in Holder : c = d
FlagFindsNobody == desynced => Holder = {}
\* The pipe is in step: it holds nothing, or the one line its reader waits for.
InStep ==
  \/ asked = <<>> /\ output = <<>>
  \/ \E c \in Clients : /\ at[c] = "reading"
                        /\ <<asked, output>> \in {<<<<req[c]>>, <<>>>>, <<<<>>, <<req[c]>>>>}
\* A pipe that is out of step is flagged or has its excuse still to spend.
OutOfStepIsExcused == desynced \/ InStep \/ collateral < unflagged
\* A process that has gone reads nothing more.
DeadReadsNothing == ~alive => asked = <<>>
PipeInv == /\ SlowAnswersCostOnlyThemselves
           /\ PipeTyped /\ OneHolder /\ FlagFindsNobody /\ OutOfStepIsExcused
           /\ DeadReadsNothing

PipeSpec == PipeInit /\ [][PipeNext]_pipeVars
=============================================================================
