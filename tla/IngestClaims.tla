---------------------------- MODULE IngestClaims ----------------------------
(***************************************************************************)
(* Concurrent ingest requests, the idempotency table in PostgreSQL and the *)
(* record topic (src/indexer.rs claim to ingest_one, src/catalog.rs claim, *)
(* abandon_claim and prune, src/kafka.rs produce_batch, src/api.rs         *)
(* process_batch_archive).                                                 *)
(*                                                                         *)
(* A request is a walk over its members: claim each one, hand full chunks  *)
(* of claimed records to the topic, release what is still in hand on any   *)
(* error.  POST /records, the live collector and the sweep are walks of    *)
(* one member.  Every statement sent to PostgreSQL or the broker is a step *)
(* of its own.  A record id is minted per attempt, so it names the request *)
(* and the member.                                                         *)
(***************************************************************************)
EXTENDS Integers, Sequences, FiniteSets

CONSTANTS Requests,
          GameKeys,     \* keys derived from a record's majsoul.uuid
          CallerKeys,   \* keys a caller supplied, scoped by its source
          Contents,     \* sha256 of the bytes
          Inputs,       \* the archives that may be sent: sequences of members
          ChunkMax,     \* records a produce chunk holds
          Faults,       \* which calls may fail
          MaxFaults

Keys   == GameKeys \cup CallerKeys
Member == [key : Keys, content : Contents]

ASSUME IngestAssumption ==
    /\ GameKeys \cap CallerKeys = {}
    /\ Inputs \subseteq Seq(Member)
    /\ ChunkMax \in Nat \ {0} /\ MaxFaults \in Nat
    /\ Faults \subseteq {"claim", "produce", "release", "cancel", "crash"}

VARIABLES
    claims,     \* ingest_idempotency: rows [key, id, content]
    topic,      \* the records the broker has
    pc,         \* where each request is
    members,    \* what it was sent
    walked,     \* members already dealt with
    pending,    \* claimed, waiting for the next produce
    held,       \* claimed, and waiting for room in the chunk
    releasing,  \* claims still to abandon
    accepted,   \* records the response will count as accepted
    duplicates, \* record ids the response will name as already stored
    unacked,    \* ids of produce calls that came back as errors
    faults      \* how many, and whether one other than a failed produce

requestVars == <<pc, members, walked, pending, held, releasing, accepted, duplicates>>
vars == <<claims, topic, requestVars, unacked, faults>>

Active(r) == pc[r] \in {"claim", "lookup", "flush", "release"}
Owned(r)  == pending[r] \cup held[r] \cup releasing[r]

Id == Requests \X Nat
Row == [key : Keys, id : Id, content : Contents]

More(r) == walked[r] < Len(members[r])
RowOf(r) == [key |-> members[r][walked[r] + 1].key, id |-> <<r, walked[r] + 1>>,
             content |-> members[r][walked[r] + 1].content]
Holder(key) == {c \in claims : c.key = key}

Init == /\ claims = {} /\ topic = {} /\ unacked = {} /\ faults = [n |-> 0, leaky |-> FALSE]
        /\ pc = [r \in Requests |-> "idle"]
        /\ members = [r \in Requests |-> <<>>]
        /\ walked = [r \in Requests |-> 0]
        /\ pending = [r \in Requests |-> {}] /\ held = [r \in Requests |-> {}]
        /\ releasing = [r \in Requests |-> {}]
        /\ accepted = [r \in Requests |-> {}]
        /\ duplicates = [r \in Requests |-> {}]

Fault(kind) ==
    /\ kind \in Faults /\ faults.n < MaxFaults
    /\ faults' = [n |-> faults.n + 1, leaky |-> faults.leaky \/ kind # "produce"]
Goto(r, to) == pc' = [pc EXCEPT ![r] = to]
Walk(r) == walked' = [walked EXCEPT ![r] = @ + 1]

-----------------------------------------------------------------------------
(* The walk.                                                               *)

Start(r, input) ==
    /\ pc[r] = "idle"
    /\ Goto(r, "claim")
    /\ members' = [members EXCEPT ![r] = input]
    /\ UNCHANGED <<claims, topic, walked, pending, held, releasing, accepted,
                   duplicates, unacked, faults>>

\* Not mjai, empty or too large: one rejected member, nothing claimed.
Malformed(r) ==
    /\ pc[r] = "claim" /\ More(r)
    /\ Walk(r)
    /\ UNCHANGED <<claims, topic, pc, members, pending, held, releasing,
                   accepted, duplicates, unacked, faults>>

\* INSERT ... ON CONFLICT DO NOTHING took the key.  The record joins the
\* chunk, or waits outside it while a full chunk is produced.
ClaimNew(r) ==
    /\ pc[r] = "claim" /\ More(r)
    /\ Holder(RowOf(r).key) = {}
    /\ claims' = claims \cup {RowOf(r)}
    /\ accepted' = [accepted EXCEPT ![r] = @ \cup {RowOf(r)}]
    /\ Walk(r)
    /\ IF Cardinality(pending[r]) < ChunkMax
       THEN /\ pending' = [pending EXCEPT ![r] = @ \cup {RowOf(r)}]
            /\ UNCHANGED <<pc, held>>
       ELSE /\ held' = [held EXCEPT ![r] = {RowOf(r)}]
            /\ Goto(r, "flush")
            /\ UNCHANGED pending
    /\ UNCHANGED <<topic, members, releasing, duplicates, unacked, faults>>

ClaimTaken(r) ==
    /\ pc[r] = "claim" /\ More(r)
    /\ Holder(RowOf(r).key) # {}
    /\ Goto(r, "lookup")
    /\ UNCHANGED <<claims, topic, members, walked, pending, held, releasing,
                   accepted, duplicates, unacked, faults>>

\* What the lookup answers: the id of the holder, unless the holder let go
\* since (409, pending) or the caller contradicts itself (409, conflict).
Answer(r) == {c.id : c \in {d \in Holder(RowOf(r).key) :
                               d.key \in CallerKeys => d.content = RowOf(r).content}}

Lookup(r) ==
    /\ pc[r] = "lookup"
    /\ duplicates' = [duplicates EXCEPT ![r] = @ \cup Answer(r)]
    /\ Walk(r)
    /\ Goto(r, "claim")
    /\ UNCHANGED <<claims, topic, members, pending, held, releasing, accepted,
                   unacked, faults>>

\* Mutant of Unwind: the member waiting for room is forgotten.
UnwindChunkOnly(r) ==
    /\ releasing' = [releasing EXCEPT ![r] = pending[r]]
    /\ pending' = [pending EXCEPT ![r] = {}] /\ held' = [held EXCEPT ![r] = {}]
    /\ Goto(r, "release")
    /\ UNCHANGED <<members, walked, accepted, duplicates>>

\* Whatever ends the walk early releases what is still in hand.
Unwind(r) ==
    /\ releasing' = [releasing EXCEPT ![r] = pending[r] \cup held[r]]
    /\ pending' = [pending EXCEPT ![r] = {}] /\ held' = [held EXCEPT ![r] = {}]
    /\ Goto(r, "release")
    /\ UNCHANGED <<members, walked, accepted, duplicates>>

\* The backlog gate, a corrupt archive, the record ceiling.
Abort(r) ==
    /\ pc[r] = "claim" /\ More(r)
    /\ Unwind(r)
    /\ UNCHANGED <<claims, topic, unacked, faults>>

\* A statement of the claim fails; the insert may have landed all the same.
ClaimFails(r) ==
    /\ pc[r] \in {"claim", "lookup"} /\ More(r) /\ Fault("claim")
    /\ \/ UNCHANGED claims
       \/ pc[r] = "claim" /\ Holder(RowOf(r).key) = {}
          /\ claims' = claims \cup {RowOf(r)}
    /\ Unwind(r)
    /\ UNCHANGED <<topic, unacked>>

\* Mutant of WalkEnds: the last, partial chunk is never produced.
WalkEndsUnflushed(r) ==
    /\ pc[r] = "claim" /\ ~More(r)
    /\ Goto(r, "done")
    /\ UNCHANGED <<claims, topic, members, walked, pending, held, releasing,
                   accepted, duplicates, unacked, faults>>

WalkEnds(r) ==
    /\ pc[r] = "claim" /\ ~More(r)
    /\ Goto(r, "flush")
    /\ UNCHANGED <<claims, topic, members, walked, pending, held, releasing,
                   accepted, duplicates, unacked, faults>>

-----------------------------------------------------------------------------
(* Produce and release.                                                    *)

\* The broker acknowledged every request of the batch.
Produce(r) ==
    /\ pc[r] = "flush"
    /\ topic' = topic \cup pending[r]
    /\ pending' = [pending EXCEPT ![r] = held[r]]
    /\ held' = [held EXCEPT ![r] = {}]
    /\ Goto(r, IF held[r] = {} THEN "done" ELSE "claim")
    /\ UNCHANGED <<claims, members, walked, releasing, accepted, duplicates,
                   unacked, faults>>

\* One request of the batch failed or timed out: any part may have landed,
\* and the claims of all of it are released.
ProduceFails(r) ==
    /\ pc[r] = "flush" /\ pending[r] # {} /\ Fault("produce")
    /\ \E landed \in SUBSET pending[r] : topic' = topic \cup landed
    /\ unacked' = unacked \cup {c.id : c \in pending[r]}
    /\ Unwind(r)
    /\ UNCHANGED claims

\* DELETE ... WHERE key_hash AND record_id: never somebody else's claim.
Release(r, row) ==
    /\ pc[r] = "release"
    /\ claims' = {c \in claims : ~(c.key = row.key /\ c.id = row.id)}
    /\ releasing' = [releasing EXCEPT ![r] = @ \ {row}]
    /\ UNCHANGED <<topic, pc, members, walked, pending, held, accepted,
                   duplicates, unacked, faults>>

\* A release that fails is logged and passed over.
ReleaseFails(r, row) ==
    /\ pc[r] = "release" /\ Fault("release")
    /\ releasing' = [releasing EXCEPT ![r] = @ \ {row}]
    /\ UNCHANGED <<claims, topic, pc, members, walked, pending, held, accepted,
                   duplicates, unacked>>

Released(r) ==
    /\ pc[r] = "release" /\ releasing[r] = {}
    /\ Goto(r, "failed")
    /\ UNCHANGED <<claims, topic, members, walked, pending, held, releasing,
                   accepted, duplicates, unacked, faults>>

-----------------------------------------------------------------------------
(* Requests that end without an answer.                                    *)

\* The futures of these requests are gone, their claims are not; what was on
\* its way to the broker may arrive.
Vanish(gone) ==
    /\ \E landed \in SUBSET UNION {pending[r] : r \in {s \in gone : pc[s] = "flush"}} :
          topic' = topic \cup landed
    /\ pc' = [r \in Requests |-> IF r \in gone THEN "gone" ELSE pc[r]]
    /\ pending' = [r \in Requests |-> IF r \in gone THEN {} ELSE pending[r]]
    /\ held' = [r \in Requests |-> IF r \in gone THEN {} ELSE held[r]]
    /\ releasing' = [r \in Requests |-> IF r \in gone THEN {} ELSE releasing[r]]
    /\ UNCHANGED <<claims, members, walked, accepted, duplicates, unacked>>

\* The client of a single-record request disconnects and the handler's future
\* is dropped; an archive is walked on a thread of its own and is not.
Cancel(r) == Active(r) /\ Len(members[r]) = 1 /\ Fault("cancel") /\ Vanish({r})

Crash == /\ \E r \in Requests : Active(r)
         /\ Fault("crash")
         /\ Vanish({r \in Requests : Active(r)})

\* Mutant of Prunable: a game's claim expires like any other.
PrunableAll == claims

\* Boot prunes the caller-scoped claims past their retention: any of them.
\* A game's claim is the only record that the game is stored, and stays.
Prunable == {c \in claims : c.key \in CallerKeys}
Boot ==
    /\ \A r \in Requests : ~Active(r)
    /\ \E old \in SUBSET Prunable : old # {} /\ claims' = claims \ old
    /\ UNCHANGED <<topic, requestVars, unacked, faults>>

-----------------------------------------------------------------------------
RequestStep(r) ==
    \/ \E input \in Inputs : Start(r, input)
    \/ Malformed(r) \/ ClaimNew(r) \/ ClaimTaken(r) \/ Lookup(r) \/ Abort(r)
    \/ ClaimFails(r) \/ WalkEnds(r) \/ Produce(r) \/ ProduceFails(r)
    \/ \E row \in releasing[r] : Release(r, row) \/ ReleaseFails(r, row)
    \/ Released(r) \/ Cancel(r)

Next == (\E r \in Requests : RequestStep(r)) \/ Crash \/ Boot

Spec == Init /\ [][Next]_vars

-----------------------------------------------------------------------------
(* What ingest promises.                                                   *)

Typed ==
    /\ claims \subseteq Row /\ topic \subseteq Row
    /\ pc \in [Requests -> {"idle", "claim", "lookup", "flush", "release",
                            "done", "failed", "gone"}]
    /\ members \in [Requests -> Seq(Member)]
    /\ walked \in [Requests -> Nat]
    /\ pending \in [Requests -> SUBSET Row] /\ held \in [Requests -> SUBSET Row]
    /\ releasing \in [Requests -> SUBSET Row]
    /\ accepted \in [Requests -> SUBSET Row]
    /\ duplicates \in [Requests -> SUBSET Id]
    /\ unacked \subseteq Id /\ faults \in [n : Nat, leaky : BOOLEAN]

\* Values have their types and no walk runs past its archive: a member is
\* claimed at most once per walk, and a lookup answers for a member that is
\* there.
WalkInBounds(r) == /\ walked[r] <= Len(members[r])
                   /\ pc[r] = "idle" => walked[r] = 0
                   /\ pc[r] = "lookup" => More(r)
TypeOK == Typed /\ \A r \in Requests : WalkInBounds(r)

\* An answer of accepted is a durability claim: every record it counts is in
\* the topic, however the walk was cut into chunks and whatever failed and was
\* retried beside it.
AcceptedIsDurable == \A r \in Requests : pc[r] = "done" => accepted[r] \subseteq topic

\* One game is one record.  Two copies of a game reach the topic only when the
\* produce of one came back as an error though the broker had it, which is the
\* known duplicate of produce_claimed; never because a request released a
\* claim that was not its own or because a claim was pruned.
OneRecordPerGame ==
    \A a, b \in topic : (a.key = b.key /\ a.key \in GameKeys /\ a.id # b.id)
        => (a.id \in unacked \/ b.id \in unacked)

\* No claim outlives its record: as long as PostgreSQL answers and no request
\* is dropped half way, every claim in the table has its record in the topic
\* or a request that will still produce or release it.  Anything else is the
\* loss no retry repairs.
EveryClaimIsBacked ==
    ~faults.leaky =>
        \A c \in claims :
            c \in topic \/ \E r \in Requests : Active(r) /\ c \in Owned(r)

\* A leaked claim, one whose record is neither in the topic nor in hand, costs
\* the next request with that key a 409 and never an answer of duplicate
\* (the warning in produce_claimed).
Leaked(c) == c \notin topic /\ \A r \in Requests : c \notin Owned(r)
LeakCostsAConflict ==
    [][\A r \in Requests : \A c \in claims :
         (Lookup(r) /\ Leaked(c) /\ c.key = RowOf(r).key)
            => c.id \notin duplicates'[r]]_vars

-----------------------------------------------------------------------------
\* Why AcceptedIsDurable holds: what the response will count is in the topic or
\* still in hand, and the walk is done only when nothing is in hand.
AcceptedInHand(r) ==
    /\ pc[r] = "idle" => accepted[r] = {}
    /\ pc[r] \in {"idle", "claim", "lookup"} => held[r] = {}
    /\ pc[r] \in {"claim", "lookup", "flush"}
           => accepted[r] \subseteq topic \cup pending[r] \cup held[r]
    /\ pc[r] = "done" => accepted[r] \subseteq topic
AcceptedInv == Typed /\ \A r \in Requests : AcceptedInHand(r)

\* Why OneRecordPerGame holds, and holds after the next step.  A key has one
\* claim; a game's record in the topic keeps its claim unless its produce came
\* back as an error; what a request has in hand is claimed by it and not in
\* the topic; what it releases is not in the topic, or unacked.
Mine(r) == \A c \in Owned(r) : c.id[1] = r /\ c.id[2] <= walked[r]
Fresh(r) == \A c \in topic : c.id[1] = r => c.id[2] <= walked[r]
OneClaimPerKey == \A c, d \in claims : c.key = d.key => c = d
StoredIsClaimed == \A c \in topic : c.key \in GameKeys =>
                                       c \in claims \/ c.id \in unacked
InHandIsClaimed(r) ==
    /\ \A c \in pending[r] \cup held[r] : c.key \in GameKeys => c \in claims
    /\ \A c \in pending[r] \cup held[r] : \A t \in topic : t.id # c.id
    /\ \A c \in pending[r], d \in held[r] : c.id # d.id
    /\ pc[r] = "release" => pending[r] = {} /\ held[r] = {}
ReleasedIsUnacked(r) ==
    /\ pc[r] # "release" => releasing[r] = {}
    /\ \A c \in releasing[r] : \A t \in topic : t.id = c.id => t.id \in unacked
ClaimInv ==
    /\ Typed /\ OneClaimPerKey /\ StoredIsClaimed
    /\ \A r \in Requests : /\ Mine(r) /\ Fresh(r)
                           /\ InHandIsClaimed(r) /\ ReleasedIsUnacked(r)
=============================================================================
