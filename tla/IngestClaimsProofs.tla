------------------------- MODULE IngestClaimsProofs -------------------------
(***************************************************************************)
(* Theorems about IngestClaims, for any number of requests, keys, archives *)
(* and faults.                                                             *)
(***************************************************************************)
EXTENDS IngestClaims, SequenceTheorems, TLAPS

-----------------------------------------------------------------------------
(* Types.                                                                  *)

LEMMA RowOfType ==
    ASSUME Typed, NEW r \in Requests, More(r)
    PROVE  /\ RowOf(r) \in Row
           /\ RowOf(r).id = <<r, walked[r] + 1>>
  <1>1. walked[r] \in Nat /\ members[r] \in Seq(Member)
    BY DEF Typed
  <1>2. walked[r] + 1 \in 1 .. Len(members[r])
    BY <1>1, LenProperties DEF More
  <1>3. members[r][walked[r] + 1] \in Member
    BY <1>1, <1>2, ElementOfSeq
  <1>4. <<r, walked[r] + 1>> \in Id
    BY <1>1 DEF Id
  <1> QED
    BY <1>3, <1>4 DEF RowOf, Row, Member

LEMMA RowIdType ==
    ASSUME NEW c \in Row
    PROVE  c.id \in Id /\ c.id[1] \in Requests /\ c.id[2] \in Nat
  BY DEF Row, Id

LEMMA UnwindType ==
    ASSUME Typed, NEW r \in Requests, Unwind(r)
    PROVE  /\ pc' \in [Requests -> {"idle", "claim", "lookup", "flush",
                                    "release", "done", "failed", "gone"}]
           /\ pending' \in [Requests -> SUBSET Row]
           /\ held' \in [Requests -> SUBSET Row]
           /\ releasing' \in [Requests -> SUBSET Row]
           /\ members' \in [Requests -> Seq(Member)]
           /\ walked' \in [Requests -> Nat]
           /\ accepted' \in [Requests -> SUBSET Row]
           /\ duplicates' \in [Requests -> SUBSET Id]
  BY DEF Unwind, Goto, Typed

LEMMA VanishType ==
    ASSUME Typed, NEW gone \in SUBSET Requests, Vanish(gone),
           faults' \in [n : Nat, leaky : BOOLEAN]
    PROVE  Typed'
  <1>1. topic' \subseteq Row
    BY DEF Vanish, Typed
  <1> QED
    BY <1>1 DEF Vanish, Typed

LEMMA TypeNext == Typed /\ [Next]_vars => Typed'
  <1> SUFFICES ASSUME Typed, [Next]_vars PROVE Typed'
    OBVIOUS
  <1>1. ASSUME NEW r \in Requests, RequestStep(r) PROVE Typed'
    <2>1. ASSUME NEW input \in Inputs, Start(r, input) PROVE Typed'
      <3>1. input \in Seq(Member)
        BY IngestAssumption
      <3>2. members' \in [Requests -> Seq(Member)]
        BY <2>1, <3>1 DEF Start, Typed
      <3>3. pc' \in [Requests -> {"idle", "claim", "lookup", "flush", "release",
                                  "done", "failed", "gone"}]
        BY <2>1 DEF Start, Goto, Typed
      <3>4. UNCHANGED <<claims, topic, walked, pending, held, releasing, accepted,
                        duplicates, unacked, faults>>
        BY <2>1 DEF Start
      <3> QED
        BY <3>2, <3>3, <3>4 DEF Typed
    <2>2. CASE Malformed(r)
      BY <2>2 DEF Malformed, Walk, Typed
    <2>3. CASE ClaimNew(r)
      <3>1. RowOf(r) \in Row
        BY <2>3, RowOfType DEF ClaimNew
      <3>2. /\ claims' \subseteq Row /\ accepted' \in [Requests -> SUBSET Row]
            /\ walked' \in [Requests -> Nat]
        BY <2>3, <3>1 DEF ClaimNew, Walk, Typed
      <3>3. /\ pending' \in [Requests -> SUBSET Row]
            /\ held' \in [Requests -> SUBSET Row]
        <4>1. CASE UNCHANGED pending /\ held' = [held EXCEPT ![r] = {RowOf(r)}]
          BY <3>1, <4>1 DEF Typed
        <4>2. CASE /\ UNCHANGED held
                   /\ pending' = [pending EXCEPT ![r] = @ \cup {RowOf(r)}]
          BY <3>1, <4>2 DEF Typed
        <4> QED
          BY <2>3, <4>1, <4>2 DEF ClaimNew
      <3>4. pc' \in [Requests -> {"idle", "claim", "lookup", "flush", "release",
                                  "done", "failed", "gone"}]
        BY <2>3 DEF ClaimNew, Goto, Typed
      <3> QED
        BY <2>3, <3>2, <3>3, <3>4 DEF ClaimNew, Typed
    <2>4. CASE ClaimTaken(r) \/ WalkEnds(r) \/ Released(r)
      BY <2>4 DEF ClaimTaken, WalkEnds, Released, Goto, Typed
    <2>5. CASE Lookup(r)
      <3>1. Answer(r) \subseteq Id
        BY RowIdType DEF Answer, Holder, Typed
      <3> QED
        BY <2>5, <3>1 DEF Lookup, Walk, Goto, Typed
    <2>6. CASE Abort(r)
      BY <2>6, UnwindType DEF Abort, Typed
    <2>7. CASE ClaimFails(r)
      <3>1. claims' \subseteq Row /\ faults' \in [n : Nat, leaky : BOOLEAN]
        BY <2>7, RowOfType DEF ClaimFails, Fault, Typed
      <3> QED
        BY <2>7, <3>1, UnwindType DEF ClaimFails, Typed
    <2>8. CASE Produce(r)
      BY <2>8 DEF Produce, Goto, Typed
    <2>9. CASE ProduceFails(r)
      <3>1. topic' \subseteq Row /\ faults' \in [n : Nat, leaky : BOOLEAN]
        BY <2>9 DEF ProduceFails, Fault, Typed
      <3>2. unacked' \subseteq Id
        BY <2>9, RowIdType DEF ProduceFails, Typed
      <3> QED
        BY <2>9, <3>1, <3>2, UnwindType DEF ProduceFails, Typed
    <2>10. ASSUME NEW row \in releasing[r], Release(r, row) PROVE Typed'
      BY <2>10 DEF Release, Typed
    <2>11. ASSUME NEW row \in releasing[r], ReleaseFails(r, row) PROVE Typed'
      BY <2>11 DEF ReleaseFails, Fault, Typed
    <2>12. CASE Cancel(r)
      BY <2>12, VanishType DEF Cancel, Fault, Typed
    <2> QED
      BY <1>1, <2>1, <2>2, <2>3, <2>4, <2>5, <2>6, <2>7, <2>8, <2>9, <2>10,
         <2>11, <2>12 DEF RequestStep
  <1>2. CASE Crash
    BY <1>2, VanishType DEF Crash, Fault, Typed
  <1>3. CASE Boot
    BY <1>3 DEF Boot, Typed, requestVars
  <1>4. CASE UNCHANGED vars
    BY <1>4 DEF vars, requestVars, Typed
  <1> QED
    BY <1>1, <1>2, <1>3, <1>4 DEF Next

LEMMA TypeInit == Init => Typed
  <1> SUFFICES ASSUME Init PROVE Typed
    OBVIOUS
  <1>1. <<>> \in Seq(Member)
    BY EmptySeq
  <1>2. members \in [Requests -> Seq(Member)]
    BY <1>1 DEF Init
  <1> QED
    BY <1>2 DEF Init, Typed

\* A step of request r leaves the walks of the others where they are.
LEMMA BoundsStep ==
    ASSUME TypeOK, NEW r \in Requests, RequestStep(r)
    PROVE  \A s \in Requests : WalkInBounds(s)'
  <1>1. \A s \in Requests : WalkInBounds(s)
    BY DEF TypeOK
  <1>2. /\ walked \in [Requests -> Nat] /\ pc = [s \in Requests |-> pc[s]]
        /\ members \in [Requests -> Seq(Member)]
        /\ \A s \in Requests : Len(members[s]) \in Nat
    BY LenProperties DEF TypeOK, Typed
  <1>3. ASSUME NEW input \in Inputs, Start(r, input)
        PROVE  \A s \in Requests : WalkInBounds(s)'
    <2>1. Len(input) \in Nat /\ walked[r] = 0
      BY <1>1, <1>3, IngestAssumption, LenProperties DEF Start, WalkInBounds
    <2> QED
      BY <1>1, <1>2, <1>3, <2>1 DEF Start, Goto, WalkInBounds, More
  <1>4. CASE Malformed(r)
    BY <1>1, <1>2, <1>4 DEF Malformed, Walk, WalkInBounds, More
  <1>5. CASE ClaimNew(r)
    <2>1. /\ walked' = [walked EXCEPT ![r] = @ + 1] /\ UNCHANGED members
          /\ pc' = pc \/ pc' = [pc EXCEPT ![r] = "flush"]
          /\ pc[r] = "claim" /\ walked[r] < Len(members[r])
      BY <1>5 DEF ClaimNew, Walk, Goto, More
    <2> QED
      BY <1>1, <1>2, <2>1 DEF WalkInBounds, More
  <1>6. CASE Lookup(r)
    BY <1>1, <1>2, <1>6 DEF Lookup, Walk, Goto, WalkInBounds, More
  <1>7. CASE ClaimTaken(r)
    BY <1>1, <1>2, <1>7 DEF ClaimTaken, Goto, WalkInBounds, More
  <1>8. CASE WalkEnds(r) \/ Released(r) \/ Produce(r)
    BY <1>1, <1>2, <1>8 DEF WalkEnds, Released, Produce, Goto, WalkInBounds, More
  <1>9. CASE Abort(r) \/ ClaimFails(r) \/ ProduceFails(r)
    BY <1>1, <1>2, <1>9 DEF Abort, ClaimFails, ProduceFails, Unwind, Goto,
                            WalkInBounds, More
  <1>10. ASSUME NEW row \in releasing[r], Release(r, row) \/ ReleaseFails(r, row)
         PROVE  \A s \in Requests : WalkInBounds(s)'
    BY <1>1, <1>10 DEF Release, ReleaseFails, WalkInBounds, More
  <1>11. CASE Cancel(r)
    BY <1>1, <1>2, <1>11 DEF Cancel, Vanish, WalkInBounds, More
  <1> QED
    BY <1>3, <1>4, <1>5, <1>6, <1>7, <1>8, <1>9, <1>10, <1>11 DEF RequestStep

\* Every value has its type and no walk runs past the end of its archive, with
\* any number of requests and archives of any length.
THEOREM TypeCorrect == Spec => []TypeOK
  <1>1. Init => TypeOK
    <2> SUFFICES ASSUME Init PROVE TypeOK
      OBVIOUS
    <2>1. \A r \in Requests : WalkInBounds(r)
      BY EmptySeq DEF Init, WalkInBounds
    <2> QED
      BY <2>1, TypeInit DEF TypeOK
  <1>2. TypeOK /\ [Next]_vars => TypeOK'
    <2> SUFFICES ASSUME TypeOK, [Next]_vars PROVE TypeOK'
      OBVIOUS
    <2>1. Typed'
      BY TypeNext DEF TypeOK
    <2>2. \A s \in Requests : WalkInBounds(s)
      BY DEF TypeOK
    <2>3. ASSUME NEW r \in Requests, RequestStep(r) PROVE TypeOK'
      BY <2>1, <2>3, BoundsStep DEF TypeOK
    <2>4. CASE Crash
      <3>1. pc = [s \in Requests |-> pc[s]]
        BY DEF TypeOK, Typed
      <3> QED
        BY <2>1, <2>2, <2>4, <3>1 DEF Crash, Vanish, WalkInBounds, More, TypeOK
    <2>5. CASE Boot \/ UNCHANGED vars
      BY <2>1, <2>2, <2>5 DEF Boot, vars, requestVars, WalkInBounds, More, TypeOK
    <2> QED
      BY <2>3, <2>4, <2>5 DEF Next
  <1> QED
    BY <1>1, <1>2, PTL DEF Spec

-----------------------------------------------------------------------------
(* An answer of accepted is durable.                                       *)

\* The topic only grows, so what a request has there stays there.
LEMMA AcceptedStep ==
    ASSUME AcceptedInv, NEW r \in Requests, RequestStep(r)
    PROVE  \A s \in Requests : AcceptedInHand(s)'
  <1>1. /\ \A s \in Requests : AcceptedInHand(s)
        /\ pc = [s \in Requests |-> pc[s]]
        /\ pending \in [Requests -> SUBSET Row] /\ held \in [Requests -> SUBSET Row]
        /\ accepted \in [Requests -> SUBSET Row]
    BY DEF AcceptedInv, Typed
  <1>2. ASSUME NEW input \in Inputs, Start(r, input)
        PROVE  \A s \in Requests : AcceptedInHand(s)'
    BY <1>1, <1>2 DEF Start, Goto, AcceptedInHand
  <1>3. CASE Malformed(r) \/ ClaimTaken(r) \/ Lookup(r) \/ WalkEnds(r) \/ Released(r)
    BY <1>1, <1>3 DEF Malformed, ClaimTaken, Lookup, WalkEnds, Released, Goto,
                      AcceptedInHand
  <1>4. CASE ClaimNew(r)
    <2>1. CASE /\ pending' = [pending EXCEPT ![r] = @ \cup {RowOf(r)}]
               /\ UNCHANGED <<pc, held>>
      BY <1>1, <1>4, <2>1 DEF ClaimNew, AcceptedInHand
    <2>2. CASE /\ held' = [held EXCEPT ![r] = {RowOf(r)}]
               /\ Goto(r, "flush") /\ UNCHANGED pending
      BY <1>1, <1>4, <2>2 DEF ClaimNew, Goto, AcceptedInHand
    <2> QED
      BY <1>4, <2>1, <2>2 DEF ClaimNew
  <1>5. CASE Abort(r) \/ ClaimFails(r)
    BY <1>1, <1>5 DEF Abort, ClaimFails, Unwind, Goto, AcceptedInHand
  <1>6. CASE ProduceFails(r)
    BY <1>1, <1>6 DEF ProduceFails, Unwind, Goto, AcceptedInHand
  <1>7. CASE Produce(r)
    BY <1>1, <1>7 DEF Produce, Goto, AcceptedInHand
  <1>8. ASSUME NEW row \in releasing[r], Release(r, row) \/ ReleaseFails(r, row)
        PROVE  \A s \in Requests : AcceptedInHand(s)'
    BY <1>1, <1>8 DEF Release, ReleaseFails, AcceptedInHand
  <1>9. CASE Cancel(r)
    BY <1>1, <1>9 DEF Cancel, Vanish, AcceptedInHand
  <1> QED
    BY <1>2, <1>3, <1>4, <1>5, <1>6, <1>7, <1>8, <1>9 DEF RequestStep

LEMMA AcceptedAlways == Spec => []AcceptedInv
  <1>1. Init => AcceptedInv
    BY TypeInit DEF Init, AcceptedInv, AcceptedInHand
  <1>2. AcceptedInv /\ [Next]_vars => AcceptedInv'
    <2> SUFFICES ASSUME AcceptedInv, [Next]_vars PROVE AcceptedInv'
      OBVIOUS
    <2>1. Typed' /\ \A s \in Requests : AcceptedInHand(s)
      BY TypeNext DEF AcceptedInv
    <2>2. ASSUME NEW r \in Requests, RequestStep(r) PROVE AcceptedInv'
      BY <2>1, <2>2, AcceptedStep DEF AcceptedInv
    <2>3. CASE Crash
      <3>1. pc = [s \in Requests |-> pc[s]]
        BY DEF AcceptedInv, Typed
      <3> QED
        BY <2>1, <2>3, <3>1 DEF Crash, Vanish, AcceptedInHand, AcceptedInv
    <2>4. CASE Boot \/ UNCHANGED vars
      BY <2>1, <2>4 DEF Boot, vars, requestVars, AcceptedInHand, AcceptedInv
    <2> QED
      BY <2>2, <2>3, <2>4 DEF Next
  <1> QED
    BY <1>1, <1>2, PTL DEF Spec

\* Whatever a finished request counts as accepted is in the topic: for any
\* chunk size, any archive and any number of requests beside it.
THEOREM AcceptedStaysDurable == Spec => []AcceptedIsDurable
  <1>1. AcceptedInv => AcceptedIsDurable
    BY DEF AcceptedInv, AcceptedInHand, AcceptedIsDurable
  <1> QED
    BY <1>1, AcceptedAlways, PTL

-----------------------------------------------------------------------------
(* One record per game.                                                    *)

RequestInv(r) == /\ Mine(r) /\ Fresh(r)
                 /\ InHandIsClaimed(r) /\ ReleasedIsUnacked(r)

\* A step of one request touches only rows with its own ids, so what the
\* others own is still theirs.
LEMMA OthersKeep ==
    ASSUME ClaimInv, NEW r \in Requests, NEW s \in Requests, s # r,
           walked'[s] = walked[s], pending'[s] = pending[s],
           held'[s] = held[s], releasing'[s] = releasing[s], pc'[s] = pc[s],
           \A t \in topic' : t \in topic \/ t.id[1] = r,
           \A c \in claims : c.id[1] # r => c \in claims',
           unacked \subseteq unacked'
    PROVE  RequestInv(s)'
  <1>1. Mine(s) /\ Fresh(s) /\ InHandIsClaimed(s) /\ ReleasedIsUnacked(s)
    BY DEF ClaimInv
  <1>2. Mine(s)' /\ Fresh(s)'
    BY <1>1 DEF Mine, Fresh, Owned
  <1>3. \A c \in Owned(s) : c.id[1] # r
    BY <1>1 DEF Mine
  <1>4. \A c \in Owned(s) : \A t \in topic' : t.id = c.id => t \in topic
    BY <1>3
  <1>5. InHandIsClaimed(s)'
    BY <1>1, <1>3, <1>4 DEF InHandIsClaimed, Owned
  <1>6. ReleasedIsUnacked(s)'
    BY <1>1, <1>4 DEF ReleasedIsUnacked, Owned
  <1> QED
    BY <1>2, <1>5, <1>6 DEF RequestInv

\* Steps of r that move no record, no claim and nothing r has in hand.
LEMMA MoveStep ==
    ASSUME ClaimInv, Typed', NEW r \in Requests,
           UNCHANGED <<claims, topic, pending, held, releasing, unacked>>,
           walked'[r] >= walked[r],
           pc'[r] = "release" => pc[r] = "release",
           pc[r] = "release" => releasing[r] = {},
           \A s \in Requests \ {r} : walked'[s] = walked[s] /\ pc'[s] = pc[s]
    PROVE  ClaimInv'
  <1>1. \A s \in Requests \ {r} : RequestInv(s)'
    BY OthersKeep
  <1>2. /\ walked[r] \in Nat /\ walked'[r] \in Nat
        /\ \A c \in Owned(r) \cup topic : c.id[2] \in Nat
    BY RowIdType DEF ClaimInv, Typed, Owned
  <1>3. Mine(r)' /\ Fresh(r)'
    BY <1>2 DEF ClaimInv, Mine, Fresh, Owned
  <1>4. InHandIsClaimed(r)' /\ ReleasedIsUnacked(r)'
    BY DEF ClaimInv, InHandIsClaimed, ReleasedIsUnacked
  <1>5. OneClaimPerKey' /\ StoredIsClaimed'
    BY DEF ClaimInv, OneClaimPerKey, StoredIsClaimed
  <1> QED
    BY <1>1, <1>3, <1>4, <1>5 DEF ClaimInv, RequestInv

\* Steps that end r's walk: what it had in hand is to be released, and what of
\* it landed is unacked.  The claim of the member at hand may have landed.
LEMMA UnwindStep ==
    ASSUME ClaimInv, Typed', NEW r \in Requests, Unwind(r),
           NEW landed \in SUBSET pending[r], topic' = topic \cup landed,
           unacked \subseteq unacked', \A c \in landed : c.id \in unacked',
           \/ UNCHANGED claims
           \/ /\ More(r) /\ Holder(RowOf(r).key) = {}
              /\ claims' = claims \cup {RowOf(r)}
    PROVE  ClaimInv'
  <1>1. /\ pending'[r] = {} /\ held'[r] = {}
        /\ releasing'[r] = pending[r] \cup held[r] /\ walked' = walked
        /\ \A s \in Requests \ {r} : /\ pending'[s] = pending[s] /\ held'[s] = held[s]
                                     /\ releasing'[s] = releasing[s] /\ pc'[s] = pc[s]
    BY DEF Unwind, Goto, ClaimInv, Typed
  <1>2. Mine(r) /\ Fresh(r) /\ InHandIsClaimed(r)
    BY DEF ClaimInv
  <1>3. \A c \in landed : c.id[1] = r /\ c.id[2] <= walked[r]
    BY <1>2 DEF Mine, Owned
  <1>4. \A s \in Requests \ {r} : RequestInv(s)'
    BY <1>1, <1>3, OthersKeep
  <1>5. Mine(r)' /\ Fresh(r)'
    BY <1>1, <1>2, <1>3 DEF Mine, Fresh, Owned
  <1>6. InHandIsClaimed(r)'
    BY <1>1 DEF InHandIsClaimed
  <1>7. ReleasedIsUnacked(r)'
    <2>1. pc'[r] = "release"
      BY DEF Unwind, Goto, ClaimInv, Typed
    <2> QED
      BY <1>1, <1>2, <2>1 DEF InHandIsClaimed, ReleasedIsUnacked
  <1>8. OneClaimPerKey'
    BY DEF ClaimInv, OneClaimPerKey, Holder
  <1>9. StoredIsClaimed'
    BY DEF ClaimInv, StoredIsClaimed
  <1> QED
    BY <1>4, <1>5, <1>6, <1>7, <1>8, <1>9 DEF ClaimInv, RequestInv

LEMMA ClaimNewStep ==
    ASSUME ClaimInv, Typed', NEW r \in Requests, ClaimNew(r)
    PROVE  ClaimInv'
  <1> DEFINE row == RowOf(r)
  <1>1. /\ More(r) /\ Holder(row.key) = {} /\ claims' = claims \cup {row}
        /\ UNCHANGED <<topic, releasing, unacked>>
        /\ pc[r] = "claim" /\ pc'[r] \in {"claim", "flush"}
        /\ \/ pending'[r] = pending[r] \cup {row} /\ held'[r] = held[r]
           \/ pending'[r] = pending[r] /\ held'[r] = {row}
        /\ walked'[r] = walked[r] + 1
        /\ \A s \in Requests \ {r} : /\ pending'[s] = pending[s] /\ held'[s] = held[s]
                                     /\ walked'[s] = walked[s] /\ pc'[s] = pc[s]
    BY DEF ClaimNew, Walk, Goto, ClaimInv, Typed
  <1>2. row.id[1] = r /\ row.id[2] = walked[r] + 1 /\ walked[r] \in Nat
    BY <1>1, RowOfType DEF ClaimInv, Typed
  <1>3. Mine(r) /\ Fresh(r) /\ InHandIsClaimed(r) /\ ReleasedIsUnacked(r)
    BY DEF ClaimInv
  <1>4. \A c \in Owned(r) \cup topic : c.id[2] \in Nat
    BY RowIdType DEF ClaimInv, Typed, Owned
  <1>5. \A c \in Owned(r) \cup topic : c.id # row.id
    BY <1>2, <1>3, <1>4 DEF Mine, Fresh
  <1> HIDE DEF row
  <1>6. \A s \in Requests \ {r} : RequestInv(s)'
    BY <1>1, OthersKeep
  <1>7. Mine(r)'
    BY <1>1, <1>2, <1>3, <1>4 DEF Mine, Owned
  <1>8. Fresh(r)'
    BY <1>1, <1>2, <1>3, <1>4 DEF Fresh
  <1>9. InHandIsClaimed(r)'
    BY <1>1, <1>3, <1>5 DEF InHandIsClaimed, Owned
  <1>10. ReleasedIsUnacked(r)'
    BY <1>1, <1>3 DEF ReleasedIsUnacked
  <1>11. OneClaimPerKey'
    BY <1>1 DEF ClaimInv, OneClaimPerKey, Holder
  <1>12. StoredIsClaimed'
    BY <1>1 DEF ClaimInv, StoredIsClaimed
  <1> QED
    BY <1>6, <1>7, <1>8, <1>9, <1>10, <1>11, <1>12 DEF ClaimInv, RequestInv

LEMMA ProduceStep ==
    ASSUME ClaimInv, Typed', NEW r \in Requests, Produce(r)
    PROVE  ClaimInv'
  <1>1. /\ UNCHANGED <<claims, walked, releasing, unacked>>
        /\ topic' = topic \cup pending[r]
        /\ pending'[r] = held[r] /\ held'[r] = {}
        /\ pc[r] = "flush" /\ pc'[r] \in {"done", "claim"}
        /\ \A s \in Requests \ {r} : /\ pending'[s] = pending[s] /\ held'[s] = held[s]
                                     /\ pc'[s] = pc[s]
    BY DEF Produce, Goto, ClaimInv, Typed
  <1>2. Mine(r) /\ Fresh(r) /\ InHandIsClaimed(r) /\ ReleasedIsUnacked(r)
    BY DEF ClaimInv
  <1>3. \A c \in pending[r] : c.id[1] = r /\ c.id[2] <= walked[r]
    BY <1>2 DEF Mine, Owned
  <1>4. \A s \in Requests \ {r} : RequestInv(s)'
    BY <1>1, <1>3, OthersKeep
  <1>5. Mine(r)' /\ Fresh(r)'
    BY <1>1, <1>2, <1>3 DEF Mine, Fresh, Owned
  <1>6. InHandIsClaimed(r)'
    BY <1>1, <1>2 DEF InHandIsClaimed
  <1>7. ReleasedIsUnacked(r)'
    BY <1>1, <1>2 DEF ReleasedIsUnacked
  <1>8. OneClaimPerKey' /\ StoredIsClaimed'
    BY <1>1, <1>2 DEF ClaimInv, OneClaimPerKey, StoredIsClaimed, InHandIsClaimed
  <1> QED
    BY <1>4, <1>5, <1>6, <1>7, <1>8 DEF ClaimInv, RequestInv

\* A release deletes a claim of r's own id, which no one else has and the
\* topic has only unacked.
LEMMA ReleaseStep ==
    ASSUME ClaimInv, Typed', NEW r \in Requests, NEW row \in releasing[r],
           pc[r] = "release", UNCHANGED <<topic, pc, walked, pending, held, unacked>>,
           releasing' = [releasing EXCEPT ![r] = @ \ {row}],
           \/ claims' = {c \in claims : ~(c.key = row.key /\ c.id = row.id)}
           \/ UNCHANGED claims
    PROVE  ClaimInv'
  <1>1. /\ releasing'[r] \subseteq releasing[r] /\ claims' \subseteq claims
        /\ \A s \in Requests \ {r} : releasing'[s] = releasing[s]
        /\ \A c \in claims : c.id # row.id => c \in claims'
    BY DEF ClaimInv, Typed
  <1>2. Mine(r) /\ Fresh(r) /\ InHandIsClaimed(r) /\ ReleasedIsUnacked(r)
    BY DEF ClaimInv
  <1>3. row.id[1] = r
    BY <1>2 DEF Mine, Owned
  <1>4. \A s \in Requests \ {r} : RequestInv(s)'
    BY <1>1, <1>3, OthersKeep
  <1>5. Mine(r)' /\ Fresh(r)' /\ InHandIsClaimed(r)' /\ ReleasedIsUnacked(r)'
    BY <1>1, <1>2 DEF Mine, Fresh, InHandIsClaimed, ReleasedIsUnacked, Owned
  <1>6. OneClaimPerKey'
    BY <1>1 DEF ClaimInv, OneClaimPerKey
  <1>7. \A t \in topic : t.id = row.id => t.id \in unacked
    BY <1>2 DEF ReleasedIsUnacked
  <1>8. StoredIsClaimed'
    BY <1>1, <1>7 DEF ClaimInv, StoredIsClaimed
  <1> QED
    BY <1>4, <1>5, <1>6, <1>8 DEF ClaimInv, RequestInv

\* Requests that vanish leave their claims behind, so what lands of them is
\* claimed.
LEMMA VanishStep ==
    ASSUME ClaimInv, Typed', NEW gone \in SUBSET Requests, Vanish(gone)
    PROVE  ClaimInv'
  <1>1. PICK landed \in SUBSET UNION {pending[r] : r \in {s \in gone : pc[s] = "flush"}} :
          topic' = topic \cup landed
    BY DEF Vanish
  <1>2. \A c \in landed : \E r \in gone : c \in pending[r]
    BY <1>1
  <1>3. UNCHANGED <<claims, walked, unacked>>
    BY DEF Vanish
  <1>4. ASSUME NEW s \in Requests PROVE RequestInv(s)'
    <2>1. Mine(s) /\ Fresh(s) /\ InHandIsClaimed(s) /\ ReleasedIsUnacked(s)
      BY DEF ClaimInv
    <2>2. \A c \in landed : c.id[1] = s => s \in gone /\ c.id[2] <= walked[s]
      BY <1>2 DEF ClaimInv, Mine, Owned
    <2>3. Fresh(s)'
      BY <1>1, <1>3, <2>1, <2>2 DEF Fresh
    <2>4. CASE s \in gone
      <3>1. /\ pending'[s] = {} /\ held'[s] = {} /\ releasing'[s] = {}
            /\ pc'[s] = "gone"
        BY <2>4 DEF Vanish
      <3> QED
        BY <2>3, <3>1 DEF RequestInv, Mine, InHandIsClaimed, ReleasedIsUnacked, Owned
    <2>5. CASE s \notin gone
      <3>1. /\ pending'[s] = pending[s] /\ held'[s] = held[s]
            /\ releasing'[s] = releasing[s] /\ pc'[s] = pc[s]
        BY <2>5 DEF Vanish
      <3>2. \A c \in Owned(s) : \A t \in topic' : t.id = c.id => t \in topic
        BY <1>1, <2>1, <2>2, <2>5 DEF Mine
      <3>3. Mine(s)'
        BY <1>3, <2>1, <3>1 DEF Mine, Owned
      <3>4. InHandIsClaimed(s)' /\ ReleasedIsUnacked(s)'
        BY <1>3, <2>1, <3>1, <3>2 DEF InHandIsClaimed, ReleasedIsUnacked, Owned
      <3> QED
        BY <2>3, <3>3, <3>4 DEF RequestInv
    <2> QED
      BY <2>4, <2>5
  <1>5. \A c \in landed : c.key \in GameKeys => c \in claims
    BY <1>2 DEF ClaimInv, InHandIsClaimed
  <1>6. OneClaimPerKey' /\ StoredIsClaimed'
    BY <1>1, <1>3, <1>5 DEF ClaimInv, OneClaimPerKey, StoredIsClaimed
  <1> QED
    BY <1>4, <1>6 DEF ClaimInv, RequestInv

\* Pruning takes caller-scoped claims only.
LEMMA BootStep ==
    ASSUME ClaimInv, Typed', Boot
    PROVE  ClaimInv'
  <1>1. /\ UNCHANGED <<topic, pc, walked, pending, held, releasing, unacked>>
        /\ claims' \subseteq claims
        /\ \A c \in claims : c.key \notin CallerKeys => c \in claims'
    BY DEF Boot, Prunable, requestVars
  <1>2. \A c \in claims : c.key \in GameKeys => c \in claims'
    BY <1>1, IngestAssumption
  <1>3. ASSUME NEW s \in Requests PROVE RequestInv(s)'
    BY <1>1, <1>2 DEF ClaimInv, RequestInv, Mine, Fresh, InHandIsClaimed,
                      ReleasedIsUnacked, Owned
  <1>4. OneClaimPerKey' /\ StoredIsClaimed'
    BY <1>1, <1>2 DEF ClaimInv, OneClaimPerKey, StoredIsClaimed
  <1> QED
    BY <1>3, <1>4 DEF ClaimInv, RequestInv

LEMMA ClaimNext == ClaimInv /\ [Next]_vars => ClaimInv'
  <1> SUFFICES ASSUME ClaimInv, [Next]_vars PROVE ClaimInv'
    OBVIOUS
  <1>t. Typed /\ Typed'
    BY TypeNext DEF ClaimInv
  <1>1. ASSUME NEW r \in Requests, RequestStep(r) PROVE ClaimInv'
    <2>0. walked[r] \in Nat /\ walked[r] + 1 >= walked[r]
      BY <1>t DEF Typed
    <2>1. ASSUME NEW input \in Inputs, Start(r, input) PROVE ClaimInv'
      <3>1. /\ UNCHANGED <<claims, topic, pending, held, releasing, unacked, walked>>
            /\ pc[r] # "release"
        BY <2>1 DEF Start
      <3>2. pc'[r] # "release" /\ \A s \in Requests \ {r} : pc'[s] = pc[s]
        BY <1>t, <2>1 DEF Start, Goto, Typed
      <3> QED
        BY <1>t, <2>0, <3>1, <3>2, MoveStep
    <2>2. CASE Malformed(r)
      BY <1>t, <2>0, <2>2, MoveStep DEF Malformed, Walk, Typed
    <2>3. CASE ClaimNew(r)
      BY <1>t, <2>3, ClaimNewStep
    <2>4. CASE ClaimTaken(r) \/ WalkEnds(r) \/ Released(r)
      <3>1. /\ UNCHANGED <<claims, topic, pending, held, releasing, unacked, walked>>
            /\ pc[r] = "release" => releasing[r] = {}
        BY <2>4 DEF ClaimTaken, WalkEnds, Released
      <3>2. pc'[r] # "release" /\ \A s \in Requests \ {r} : pc'[s] = pc[s]
        BY <1>t, <2>4 DEF ClaimTaken, WalkEnds, Released, Goto, Typed
      <3> QED
        BY <1>t, <2>0, <3>1, <3>2, MoveStep
    <2>5. CASE Lookup(r)
      BY <1>t, <2>0, <2>5, MoveStep DEF Lookup, Walk, Goto, Typed
    <2>6. CASE Abort(r)
      <3>1. Unwind(r) /\ topic' = topic \cup {} /\ UNCHANGED <<claims, unacked>>
        BY <2>6 DEF Abort
      <3>2. {} \in SUBSET pending[r] /\ unacked \subseteq unacked'
        BY <3>1
      <3> QED
        BY <1>t, <3>1, <3>2, UnwindStep
    <2>7. CASE ClaimFails(r)
      <3>1. /\ Unwind(r) /\ topic' = topic \cup {} /\ UNCHANGED unacked
            /\ \/ UNCHANGED claims
               \/ /\ More(r) /\ Holder(RowOf(r).key) = {}
                  /\ claims' = claims \cup {RowOf(r)}
        BY <2>7 DEF ClaimFails
      <3> QED
        BY <1>t, <3>1, UnwindStep
    <2>8. CASE Produce(r)
      BY <1>t, <2>8, ProduceStep
    <2>9. CASE ProduceFails(r)
      <3>1. PICK landed \in SUBSET pending[r] : topic' = topic \cup landed
        BY <2>9 DEF ProduceFails
      <3>2. /\ Unwind(r) /\ UNCHANGED claims /\ unacked \subseteq unacked'
            /\ \A c \in landed : c.id \in unacked'
        BY <2>9 DEF ProduceFails
      <3> QED
        BY <1>t, <3>1, <3>2, UnwindStep
    <2>10. ASSUME NEW row \in releasing[r], Release(r, row) \/ ReleaseFails(r, row)
           PROVE  ClaimInv'
      BY <1>t, <2>10, ReleaseStep DEF Release, ReleaseFails
    <2>11. CASE Cancel(r)
      BY <1>t, <2>11, VanishStep DEF Cancel
    <2> QED
      BY <1>1, <2>1, <2>2, <2>3, <2>4, <2>5, <2>6, <2>7, <2>8, <2>9, <2>10,
         <2>11 DEF RequestStep
  <1>2. CASE Crash
    BY <1>t, <1>2, VanishStep DEF Crash
  <1>3. CASE Boot
    BY <1>t, <1>3, BootStep
  <1>4. CASE UNCHANGED vars
    BY <1>4 DEF vars, requestVars, ClaimInv, Typed, OneClaimPerKey,
                StoredIsClaimed, Mine, Fresh, InHandIsClaimed,
                ReleasedIsUnacked, Owned
  <1> QED
    BY <1>1, <1>2, <1>3, <1>4 DEF Next

LEMMA ClaimAlways == Spec => []ClaimInv
  <1>1. Init => ClaimInv
    <2> SUFFICES ASSUME Init PROVE ClaimInv
      OBVIOUS
    <2>1. \A r \in Requests : /\ pending[r] = {} /\ held[r] = {}
                              /\ releasing[r] = {} /\ pc[r] = "idle"
      BY DEF Init
    <2>2. <<>> \in Seq(Member)
      BY EmptySeq
    <2>3. members \in [Requests -> Seq(Member)]
      BY <2>2 DEF Init
    <2>4. Typed
      BY <2>3 DEF Init, Typed
    <2> QED
      BY <2>1, <2>4 DEF Init, ClaimInv, OneClaimPerKey, StoredIsClaimed, Mine,
                        Fresh, InHandIsClaimed, ReleasedIsUnacked, Owned
  <1> QED
    BY <1>1, ClaimNext, PTL DEF Spec

\* One game is one record, except for the duplicate of a produce whose
\* acknowledgement was lost: for any number of concurrent requests, archives,
\* cancellations, crashes and prunes.
THEOREM OneGameOneRecord == Spec => []OneRecordPerGame
  <1>1. ClaimInv => OneRecordPerGame
    BY DEF ClaimInv, OneClaimPerKey, StoredIsClaimed, OneRecordPerGame
  <1> QED
    BY <1>1, ClaimAlways, PTL

-----------------------------------------------------------------------------
(* No claim outlives its record.                                           *)

\* EveryClaimIsBacked needs to know only that a request has nothing waiting
\* outside its chunk while it claims, and nothing to release before it unwinds.
BackedInv == AcceptedInv /\ ClaimInv /\ EveryClaimIsBacked

Backed(c) == c \in topic \/ \E r \in Requests : Active(r) /\ c \in Owned(r)

\* A step of r that loses no record of the topic, and leaves every row that r
\* had in hand in its hands, in the topic, or unclaimed.
LEMMA BackedStep ==
    ASSUME NEW r \in Requests, \A c \in claims : Backed(c), topic \subseteq topic',
           \A s \in Requests \ {r} :
               /\ pending'[s] = pending[s] /\ held'[s] = held[s]
               /\ releasing'[s] = releasing[s] /\ pc'[s] = pc[s],
           \A c \in claims' :
               \/ c \in claims /\ ~(Active(r) /\ c \in Owned(r))
               \/ c \in topic' \/ (Active(r)' /\ c \in Owned(r)')
    PROVE  \A c \in claims' : Backed(c)'
  <1> SUFFICES ASSUME NEW c \in claims' PROVE Backed(c)'
    OBVIOUS
  <1>1. CASE c \in topic' \/ (Active(r)' /\ c \in Owned(r)')
    BY <1>1 DEF Backed
  <1>2. CASE c \in claims /\ ~(Active(r) /\ c \in Owned(r))
    <2>1. CASE c \in topic
      BY <2>1 DEF Backed
    <2>2. CASE c \notin topic
      <3>1. PICK s \in Requests : Active(s) /\ c \in Owned(s)
        BY <1>2, <2>2 DEF Backed
      <3>2. s # r
        BY <1>2, <3>1
      <3>3. Active(s)' /\ c \in Owned(s)'
        BY <3>1, <3>2 DEF Active, Owned
      <3> QED
        BY <3>3 DEF Backed
    <2> QED
      BY <2>1, <2>2
  <1> QED
    BY <1>1, <1>2

LEMMA BackedNext ==
    ASSUME BackedInv, [Next]_vars
    PROVE  EveryClaimIsBacked'
  <1>t. /\ Typed /\ \A r \in Requests : /\ AcceptedInHand(r) /\ InHandIsClaimed(r)
                                        /\ ReleasedIsUnacked(r)
        /\ faults.leaky \in BOOLEAN
    BY DEF BackedInv, AcceptedInv, ClaimInv, Typed
  <1>l. \A kind : Fault(kind) =>
            (faults'.leaky <=> (faults.leaky \/ kind # "produce"))
    <2>1. \A kind : Fault(kind) =>
              faults'.leaky = (faults.leaky \/ kind # "produce")
      BY DEF Fault
    <2> QED
      BY <2>1, Zenon
  <1> SUFFICES ASSUME ~faults'.leaky
               PROVE  \A c \in claims' : Backed(c)'
    BY DEF EveryClaimIsBacked, Backed
  <1>b. ~faults.leaky => \A c \in claims : Backed(c)
    BY DEF BackedInv, EveryClaimIsBacked, Backed
  <1>1. ASSUME NEW r \in Requests, RequestStep(r)
        PROVE  \A c \in claims' : Backed(c)'
    <2>t. /\ AcceptedInHand(r) /\ InHandIsClaimed(r) /\ ReleasedIsUnacked(r)
          /\ pending \in [Requests -> SUBSET Row] /\ held \in [Requests -> SUBSET Row]
          /\ releasing \in [Requests -> SUBSET Row] /\ pc = [s \in Requests |-> pc[s]]
      BY <1>t DEF Typed
    <2>1. ASSUME NEW input \in Inputs, Start(r, input)
          PROVE  \A c \in claims' : Backed(c)'
      <3>1. /\ UNCHANGED <<claims, topic, pending, held, releasing, faults>>
            /\ pc[r] = "idle" /\ pc' = [pc EXCEPT ![r] = "claim"]
        BY <2>1 DEF Start, Goto
      <3> QED
        BY <1>b, <2>t, <3>1, BackedStep DEF Active, Owned
    <2>2. CASE Malformed(r) \/ ClaimTaken(r) \/ Lookup(r) \/ WalkEnds(r)
      <3>1. /\ UNCHANGED <<claims, topic, pending, held, releasing, faults>>
            /\ pc' = pc \/ \E to \in {"lookup", "claim", "flush"} :
                                pc' = [pc EXCEPT ![r] = to]
        BY <2>2 DEF Malformed, ClaimTaken, Lookup, WalkEnds, Goto
      <3>2. /\ Active(r) => Active(r)' /\ Owned(r)' = Owned(r)
            /\ \A s \in Requests \ {r} : pc'[s] = pc[s]
        BY <2>t, <3>1 DEF Active, Owned
      <3> QED
        BY <1>b, <3>1, <3>2, BackedStep
    <2>3. CASE ClaimNew(r)
      <3>1. /\ claims' = claims \cup {RowOf(r)} /\ UNCHANGED <<topic, releasing, faults>>
            /\ pc[r] = "claim"
            /\ \/ pending' = [pending EXCEPT ![r] = @ \cup {RowOf(r)}]
                  /\ UNCHANGED <<pc, held>>
               \/ held' = [held EXCEPT ![r] = {RowOf(r)}]
                  /\ pc' = [pc EXCEPT ![r] = "flush"] /\ UNCHANGED pending
        BY <2>3 DEF ClaimNew, Goto
      <3>2. held[r] = {}
        BY <2>t, <3>1 DEF AcceptedInHand
      <3>3. /\ Active(r)' /\ Owned(r)' = Owned(r) \cup {RowOf(r)}
            /\ \A s \in Requests \ {r} : /\ pending'[s] = pending[s]
                                         /\ held'[s] = held[s] /\ pc'[s] = pc[s]
        BY <2>t, <3>1, <3>2 DEF Active, Owned
      <3> QED
        BY <1>b, <3>1, <3>3, BackedStep
    <2>4. CASE Abort(r) \/ ProduceFails(r)
      <3>1. /\ Unwind(r) /\ UNCHANGED claims /\ topic \subseteq topic'
            /\ pc[r] # "release" /\ ~faults.leaky
        BY <1>l, <1>t, <2>4 DEF Abort, ProduceFails
      <3>2. releasing[r] = {}
        BY <2>t, <3>1 DEF ReleasedIsUnacked
      <3>3. /\ Active(r)' /\ Owned(r)' = Owned(r)
            /\ \A s \in Requests \ {r} :
                   /\ pending'[s] = pending[s] /\ held'[s] = held[s]
                   /\ releasing'[s] = releasing[s] /\ pc'[s] = pc[s]
        BY <2>t, <3>1, <3>2 DEF Unwind, Goto, Active, Owned
      <3> QED
        BY <1>b, <3>1, <3>3, BackedStep
    <2>5. CASE ClaimFails(r) \/ Cancel(r)
      <3>1. Fault("claim") \/ Fault("cancel")
        BY <2>5 DEF ClaimFails, Cancel
      <3> QED
        BY <1>l, <3>1
    <2>6. CASE Produce(r)
      <3>1. /\ UNCHANGED <<claims, releasing, faults>> /\ pc[r] = "flush"
            /\ topic' = topic \cup pending[r]
            /\ pending' = [pending EXCEPT ![r] = held[r]]
            /\ held' = [held EXCEPT ![r] = {}]
            /\ pc' = [pc EXCEPT ![r] = IF held[r] = {} THEN "done" ELSE "claim"]
        BY <2>6 DEF Produce, Goto
      <3>2. releasing[r] = {}
        BY <2>t, <3>1 DEF ReleasedIsUnacked
      <3>3. /\ Owned(r) = pending[r] \cup held[r] /\ Owned(r)' = held[r]
            /\ held[r] # {} => Active(r)'
            /\ \A s \in Requests \ {r} : /\ pending'[s] = pending[s]
                                         /\ held'[s] = held[s] /\ pc'[s] = pc[s]
        BY <2>t, <3>1, <3>2 DEF Active, Owned
      <3> QED
        BY <1>b, <3>1, <3>3, BackedStep
    <2>7. ASSUME NEW row \in releasing[r], Release(r, row)
          PROVE  \A c \in claims' : Backed(c)'
      <3>1. /\ claims' = {c \in claims : ~(c.key = row.key /\ c.id = row.id)}
            /\ releasing' = [releasing EXCEPT ![r] = @ \ {row}]
            /\ UNCHANGED <<topic, pc, pending, held, faults>>
        BY <2>7 DEF Release
      <3>2. /\ \A c \in Owned(r) : c \in Owned(r)' \/ c = row
            /\ Active(r)' = Active(r) /\ row \notin claims'
            /\ \A s \in Requests \ {r} : releasing'[s] = releasing[s]
        BY <2>t, <3>1 DEF Active, Owned
      <3> QED
        BY <1>b, <3>1, <3>2, BackedStep
    <2>8. ASSUME NEW row \in releasing[r], ReleaseFails(r, row)
          PROVE  \A c \in claims' : Backed(c)'
      BY <1>l, <2>8 DEF ReleaseFails
    <2>9. CASE Released(r)
      <3>1. /\ UNCHANGED <<claims, topic, pending, held, releasing, faults>>
            /\ pc[r] = "release" /\ releasing[r] = {}
            /\ pc' = [pc EXCEPT ![r] = "failed"]
        BY <2>9 DEF Released, Goto
      <3>2. Owned(r) = {} /\ \A s \in Requests \ {r} : pc'[s] = pc[s]
        BY <2>t, <3>1 DEF InHandIsClaimed, Owned
      <3> QED
        BY <1>b, <3>1, <3>2, BackedStep
    <2> QED
      BY <1>1, <2>1, <2>2, <2>3, <2>4, <2>5, <2>6, <2>7, <2>8, <2>9 DEF RequestStep
  <1>2. CASE Crash
    BY <1>l, <1>2 DEF Crash
  <1>3. CASE Boot \/ UNCHANGED vars
    <2>1. /\ claims' \subseteq claims
          /\ UNCHANGED <<topic, pc, pending, held, releasing, faults>>
      BY <1>3 DEF Boot, vars, requestVars
    <2> QED
      BY <1>b, <2>1 DEF Backed, Active, Owned
  <1> QED
    BY <1>1, <1>2, <1>3 DEF Next

\* As long as PostgreSQL answers and no request is dropped half way, every
\* claim has its record in the topic or a request that will still produce or
\* release it: for any number of requests, and whatever the broker refuses.
THEOREM ClaimsStayBacked == Spec => []EveryClaimIsBacked
  <1>1. Init => EveryClaimIsBacked
    BY DEF Init, EveryClaimIsBacked
  <1>2. AcceptedInv /\ ClaimInv /\ EveryClaimIsBacked /\ [Next]_vars
            => EveryClaimIsBacked'
    BY BackedNext DEF BackedInv
  <1> QED
    BY <1>1, <1>2, AcceptedAlways, ClaimAlways, PTL DEF Spec
=============================================================================
