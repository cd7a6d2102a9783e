----------------------------- MODULE RpcChannel -----------------------------
(***************************************************************************)
(* The builtin connection to the game's gateway (majsoul/rpc.rs): one      *)
(* WebSocket shared by the session that owns it and by the heartbeat task, *)
(* a map from request id to the sender its caller waits on, and a reader   *)
(* task that hands every answer to the sender filed under its id.  Ids     *)
(* come from a counter that wraps and are reused; a caller that stops      *)
(* waiting (timeout, abort) leaves its sender in the map.                  *)
(*                                                                         *)
(* Width is the range of the u16 counter and Modulus the 60007 it is       *)
(* reduced by, both scaled down together by the instances: what matters is *)
(* the distance Width - Modulus between two uses of one id, the shortest   *)
(* there is because the range is below twice the modulus.  Late is how     *)
(* many further requests the gateway lets pass before it answers one.      *)
(* MaxCalls bounds the calls of a connection.                              *)
(***************************************************************************)
EXTENDS Integers

CONSTANTS Width, Modulus, Late, MaxCalls, SettleSteps

ASSUME RpcAssumption ==
  /\ {Width, Modulus, Late, MaxCalls, SettleSteps} \subseteq Nat \ {0}
  /\ Modulus < Width /\ Width < 2 * Modulus /\ Late < Width - Modulus

VARIABLES
  counter,   \* the number the next call takes
  pending,   \* id -> the call whose sender is filed there, 0 for none
  wire,      \* the calls the gateway has been sent and has not answered
  call,      \* caller -> the call it has under way, 0 for none
  st,        \* caller -> how far that call is
  owner,     \* where the session that owns the connection is
  settled,   \* lobby requests the login has made
  heartbeat, \* the heartbeat task
  reader,    \* the reader task
  crossed    \* history: a caller was handed another call's answer

rpcVars == <<counter, pending, wire, call, st, owner, settled, heartbeat,
             reader, crossed>>

Callers == {"session", "heartbeat"}
Outcomes == {"answered", "refused", "failed"}
LoginSteps == {"route", "first_beat", "login"}

\* A counter reduced to one less than its range, as a reader who takes the
\* modulus for a guard against the last id would write it.
IdxNarrow(n) == (n % Width) % (Width - 1)

\* The id a call goes out under: the wrapped counter, reduced.
Idx(n) == (n % Width) % Modulus

Ids == 0 .. Width - 1
InFlight(c) == st[c] \in {"filed", "waiting"}

RpcTypeOK ==
  /\ counter \in 1 .. MaxCalls + 1
  /\ pending \in [Ids -> 0 .. MaxCalls]
  /\ wire \subseteq 1 .. MaxCalls
  /\ call \in [Callers -> 0 .. MaxCalls]
  /\ st \in [Callers -> {"idle", "filed", "waiting"} \union Outcomes]
  /\ owner \in {"connecting", "settle", "up", "gone"} \union LoginSteps
  /\ settled \in 0 .. SettleSteps
  /\ heartbeat \in {"off", "beating", "ended"}
  /\ reader \in {"off", "reading", "ended", "swept"}
  /\ crossed \in BOOLEAN

RpcInit ==
  /\ counter = 1
  /\ pending = [i \in Ids |-> 0]
  /\ wire = {}
  /\ call = [c \in Callers |-> 0]
  /\ st = [c \in Callers |-> "idle"]
  /\ owner = "connecting"
  /\ settled = 0
  /\ heartbeat = "off"
  /\ reader = "off"
  /\ crossed = FALSE

\* connect_with_proxy: the socket, an empty map and the reader task.
Connect ==
  /\ owner = "connecting"
  /\ owner' = "route" /\ reader' = "reading"
  /\ UNCHANGED <<counter, pending, wire, call, st, settled, heartbeat, crossed>>

\* Who may start a call: the session anywhere in its login and after, the
\* heartbeat once it was started.
MayCall(c) ==
  /\ st[c] = "idle"
  /\ IF c = "session" THEN owner \in LoginSteps \union {"settle", "up"}
                      ELSE heartbeat = "beating"

\* Channel::call, up to the insert.  The insert drops whatever sender was
\* filed under the id.
File(c) ==
  /\ MayCall(c) /\ counter <= MaxCalls
  /\ counter' = counter + 1
  /\ pending' = [pending EXCEPT ![Idx(counter)] = counter]
  /\ call' = [call EXCEPT ![c] = counter]
  /\ st' = [st EXCEPT ![c] = "filed"]
  /\ UNCHANGED <<wire, owner, settled, heartbeat, reader, crossed>>

\* The send.  On a socket whose peer has gone it may fail or be accepted and
\* never answered; nothing takes the sender back out of the map either way.
Transmit(c) ==
  /\ st[c] = "filed"
  /\ \/ /\ st' = [st EXCEPT ![c] = "waiting"]
        /\ wire' = IF reader = "reading" THEN wire \union {call[c]} ELSE wire
     \/ /\ reader # "reading"
        /\ st' = [st EXCEPT ![c] = "failed"]
        /\ UNCHANGED wire
  /\ UNCHANGED <<counter, pending, call, owner, settled, heartbeat, reader, crossed>>

\* A RESPONSE frame: whoever is filed under its id receives it, if anybody
\* still waits there.  The answer may carry an error code.
Answer(m) ==
  /\ reader = "reading" /\ m \in wire /\ counter - 1 - m <= Late
  /\ wire' = wire \ {m}
  /\ pending' = [pending EXCEPT ![Idx(m)] = 0]
  /\ LET n == pending[Idx(m)]
         receivers == {c \in Callers : InFlight(c) /\ call[c] = n}
     IN  /\ crossed' = (crossed \/ (receivers # {} /\ n # m))
         /\ \E verdict \in {"answered", "refused"} :
              st' = [c \in Callers |-> IF c \in receivers THEN verdict ELSE st[c]]
  /\ UNCHANGED <<counter, call, owner, settled, heartbeat, reader>>

\* The receiver sees its sender dropped, or thirty seconds pass.
GiveUp(c) ==
  /\ st[c] = "waiting"
  /\ st' = [st EXCEPT ![c] = "failed"]
  /\ UNCHANGED <<counter, pending, wire, call, owner, settled, heartbeat, reader, crossed>>

\* The peer closes or the socket errors: the reader leaves its loop ...
PeerGone ==
  /\ reader = "reading"
  /\ reader' = "ended" /\ wire' = {}
  /\ UNCHANGED <<counter, pending, call, st, owner, settled, heartbeat, crossed>>

\* ... and only then clears the map, which wakes every caller filed in it.  A
\* call filed after that sits out its thirty seconds.
Sweep ==
  /\ reader = "ended"
  /\ reader' = "swept"
  /\ pending' = [i \in Ids |-> 0]
  /\ UNCHANGED <<counter, wire, call, st, owner, settled, heartbeat, crossed>>

\* Dropping or closing the connection aborts the heartbeat, whose call goes
\* with it; the senders of both callers stay in the map.
Abandoned ==
  /\ owner' = "gone"
  /\ heartbeat' = IF heartbeat = "beating" THEN "off" ELSE heartbeat
  /\ st' = [c \in Callers |-> "idle"]
  /\ call' = [c \in Callers |-> 0]

\* The session's task is stopped at any await, or the login failed and the
\* connection is dropped without a close: its reader reads on.
Drop ==
  /\ owner \notin {"connecting", "gone"}
  /\ Abandoned
  /\ UNCHANGED <<counter, pending, wire, settled, reader, crossed>>

\* close: the write half is closed and the peer answers with its own close.
CloseConnection ==
  /\ owner = "up" /\ st["session"] \in Outcomes \union {"idle"}
  /\ Abandoned
  /\ reader' = IF reader = "reading" THEN "ended" ELSE reader
  /\ wire' = {}
  /\ UNCHANGED <<counter, pending, settled, crossed>>

\* route_connect, the first heartbeat and the login each need their answer;
\* start_heartbeat comes between the last two.
LoginStep ==
  /\ owner \in LoginSteps /\ st["session"] \in {"answered", "refused"}
  /\ st["session"] = "refused" => owner = "first_beat"
  /\ owner' = CASE owner = "route" -> "first_beat"
                [] owner = "first_beat" -> "login"
                [] OTHER -> "settle"
  /\ heartbeat' = IF owner = "first_beat" THEN "beating" ELSE heartbeat
  /\ st' = [st EXCEPT !["session"] = "idle"]
  /\ call' = [call EXCEPT !["session"] = 0]
  /\ UNCHANGED <<counter, pending, wire, settled, reader, crossed>>

\* The steps settle_into_the_lobby walks through.
SettledAfter(k) == k = SettleSteps

\* settle_into_the_lobby: an unanswered step ends the settling and never the
\* login; a refusal is an answer like any other.
SettleStep ==
  /\ owner = "settle" /\ st["session"] \in Outcomes
  /\ settled' = settled + 1
  /\ owner' = IF st["session"] = "failed" \/ SettledAfter(settled')
              THEN "up" ELSE "settle"
  /\ st' = [st EXCEPT !["session"] = "idle"]
  /\ call' = [call EXCEPT !["session"] = 0]
  /\ UNCHANGED <<counter, pending, wire, heartbeat, reader, crossed>>

\* fetch_game_record and fetch_game_live_list in a session that is up: a
\* refusal leaves it up, a call that failed ends it (Drop, CloseConnection).
Fetched ==
  /\ owner = "up" /\ st["session"] \in {"answered", "refused"}
  /\ st' = [st EXCEPT !["session"] = "idle"]
  /\ call' = [call EXCEPT !["session"] = 0]
  /\ UNCHANGED <<counter, pending, wire, owner, settled, heartbeat, reader, crossed>>

\* beat: any answer lets it beat on, an error ends the task.
Beat ==
  /\ heartbeat = "beating" /\ st["heartbeat"] \in Outcomes
  /\ heartbeat' = IF st["heartbeat"] = "failed" THEN "ended" ELSE heartbeat
  /\ st' = [st EXCEPT !["heartbeat"] = "idle"]
  /\ call' = [call EXCEPT !["heartbeat"] = 0]
  /\ UNCHANGED <<counter, pending, wire, owner, settled, reader, crossed>>

RpcNext ==
  \/ Connect
  \/ \E c \in Callers : File(c)
  \/ \E c \in Callers : Transmit(c)
  \/ \E m \in wire : Answer(m)
  \/ \E c \in Callers : GiveUp(c)
  \/ PeerGone
  \/ Sweep
  \/ Drop
  \/ CloseConnection
  \/ LoginStep
  \/ SettleStep
  \/ Fetched
  \/ Beat

(***************************************************************************)
(* Properties                                                              *)
(***************************************************************************)

\* No caller is ever handed the answer to another call, although ids are
\* reused, the counter wraps and calls that were given up on stay filed: an
\* answer that is late by fewer calls than the reuse distance finds its own
\* sender, a dead one, or nobody.
AnswersMatch == ~crossed

\* What keeps it so.  A call's number is below the counter, and a sender is
\* filed under its own id.
CallsAreNumbered ==
  /\ counter \in Nat \ {0} /\ wire \subseteq 1 .. counter - 1
  /\ call \in [Callers -> 0 .. counter - 1]
  /\ st \in [Callers -> {"idle", "filed", "waiting"} \union Outcomes]
  /\ \A c \in Callers : InFlight(c) => call[c] # 0
FiledUnderItsId ==
  /\ pending \in [Ids -> 0 .. counter - 1]
  /\ \A i \in Ids : pending[i] # 0 => Idx(pending[i]) = i
\* A call that is still to be answered displaced whatever was filed before it.
Unanswered == wire \union {call[c] : c \in {d \in Callers : st[d] = "filed"}}
DisplacedWhatWasFiled ==
  \A m \in Unanswered : pending[Idx(m)] = 0 \/ m <= pending[Idx(m)]
RpcInv == AnswersMatch /\ CallsAreNumbered /\ FiledUnderItsId /\ DisplacedWhatWasFiled

RpcSpec == RpcInit /\ [][RpcNext]_rpcVars

\* Once the session has let go of the connection nothing beats on it, in
\* whichever of the login's steps that happened (the Drop comment: the abort
\* "is what stops the heartbeat outliving the socket it beats on").
NobodyBeatsAlone == owner = "gone" => heartbeat # "beating"
=============================================================================
