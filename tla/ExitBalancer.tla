---------------------------- MODULE ExitBalancer ----------------------------
(***************************************************************************)
(* The re-fetch pool's sessions, what is counted against the exits they    *)
(* leave through, and the round that moves accounts to the exits that      *)
(* produce more (src/src/refetch_service.rs: NodeTally, rebalance,         *)
(* balance_forever, record_node, node_session and the parts of start, stop *)
(* and run_worker that touch them), over the account document they share   *)
(* with the console.                                                       *)
(*                                                                         *)
(* A round reads the tally, then the bindings, then clones the document,   *)
(* then submits the clone: a write of anybody else fits between.  There is *)
(* no await in it, so a stop waits for the round to end.                   *)
(***************************************************************************)
EXTENDS AccountPool

CONSTANTS
    MinPerNode, MoveShare, MaxNodeShare,   \* the constants of the same names
    Workers,       \* sessions the pool may open
    Scale,         \* a common multiple of the session counts that occur
    MaxStarts,     \* bound: starts of the pool
    MaxFetched     \* bound: records counted against one exit in a round

ASSUME BalanceAssumption ==
    /\ {MinPerNode, MoveShare, MaxNodeShare, Workers, Scale} \subseteq Nat \ {0}
    /\ MaxFetched \in Nat /\ MaxStarts \in Nat

VARIABLES
    on,          \* the balancer's task is there
    starts,      \* starts so far
    workers,     \* accounts with a run_worker
    exitOf,      \* the exit of every logged-in session: [account -> node]
    tally,       \* NodeTally by node: records of the round, sessions now
    round        \* the round under way: moves and the revision they were drawn at

balanceVars == <<on, starts, workers, exitOf, tally, round>>
allVars == <<poolVars, balanceVars>>

NoRound == [moves |-> [n \in {} |-> 0], rev |-> 0, stage |-> "idle"]

Entry(t, m) == IF m \in DOMAIN t THEN t[m] ELSE [fetched |-> 0, sessions |-> 0]

\* entry(node).or_default(); a session on the shared lane is not attributable.
Counted(m, entry) ==
    tally' = IF m = Shared THEN tally
             ELSE [x \in DOMAIN tally \cup {m} |-> IF x = m THEN entry ELSE tally[x]]

(***************************************************************************)
(* The rule.                                                               *)
(***************************************************************************)
Holders(rows, m) ==
    [k \in 1..Cardinality({i \in BoundIds(rows) : rows[i].node = m}) |->
        rows[InOrder({i \in BoundIds(rows) : rows[i].node = m})[k]].user]

\* Records per logged-in session, in units of 1/Scale.
Produced(t, m) ==
    (Entry(t, m).fetched * Scale) \div Max({Entry(t, m).sessions, 1})

\* Best first, by name within a tie.
Ranked(rows, t) ==
    SetToSortSeq(RefetchNodes(rows),
        LAMBDA a, b : \/ Produced(t, a) > Produced(t, b)
                      \/ Produced(t, a) = Produced(t, b) /\ a < b)

\* Twice the median, the two middles of an even number averaged.
TwiceMedian(ranked, t) ==
    LET middle == Len(ranked) \div 2
    IN  IF Len(ranked) % 2 = 0
        THEN Produced(t, ranked[middle]) + Produced(t, ranked[middle + 1])
        ELSE 2 * Produced(t, ranked[middle + 1])

\* Below, and above, the middle by more than BALANCE_BAND, a quarter of it.
IsPoor(m, ranked, t) == 8 * Produced(t, m) < 3 * TwiceMedian(ranked, t)
IsRich(m, ranked, t) == 8 * Produced(t, m) > 5 * TwiceMedian(ranked, t)

\* What a poor exit gives: its last accounts first, down to the floor.
Given(held) == SubSeq(Reverse(held), 1, Max({Len(held), MinPerNode}) - MinPerNode)

\* The same without the doubling rule.
SeatsToTheCap(m, held, cap) == [k \in 1..Max({cap, Len(held)}) - Len(held) |-> m]

\* What a rich exit takes: no more than it holds, none past the cap.
Seats(m, held, cap) ==
    [k \in 1..Min({Max({cap, Len(held)}) - Len(held), Len(held)}) |-> m]

Rebalance(rows, t, cap) ==
    LET ranked == Ranked(rows, t)
        budget == Max({Cardinality(BoundIds(rows)) \div MoveShare, 1})
        spare  == FlattenSeq([k \in 1..Len(ranked) |->
                    LET m == Reverse(ranked)[k]
                    IN  IF IsPoor(m, ranked, t) THEN Given(Holders(rows, m)) ELSE <<>>])
        seats  == FlattenSeq([k \in 1..Len(ranked) |->
                    LET m == ranked[k]
                    IN  IF IsRich(m, ranked, t) THEN Seats(m, Holders(rows, m), cap) ELSE <<>>])
        count  == Min({budget, Len(spare), Len(seats)})
    IN  IF Len(ranked) < 2 THEN [n \in {} |-> 0]
        ELSE [n \in {spare[k] : k \in 1..count} |->
                 seats[CHOOSE k \in 1..count : spare[k] = n]]

(***************************************************************************)
(* The round.                                                              *)
(***************************************************************************)
\* The counters are reset, the session gauge is kept.
Reset(t) == [m \in DOMAIN t |-> [t[m] EXCEPT !.fetched = 0]]

CapOf(rows) ==
    Max({(Cardinality(BoundIds(rows)) * MaxNodeShare) \div Max({Cardinality(DOMAIN tally), 1}),
         MaxNodeShare})

Weigh ==
    /\ on /\ round = NoRound
    /\ doc.rev < MaxRev
    /\ tally' = Reset(tally)
    /\ LET moves == Rebalance(doc.rows, tally, CapOf(doc.rows))
       IN  round' = IF moves = NoRound.moves THEN NoRound
                    ELSE [moves |-> moves, rev |-> doc.rev, stage |-> "drawn"]
    /\ UNCHANGED <<poolVars, on, starts, workers, exitOf>>

\* rebind_nodes: the clone with the named re-fetch accounts re-pointed.
Rebound(rows, moves) ==
    [i \in DOMAIN rows |->
        LET named == {n \in DOMAIN moves : Same(n, rows[i].user)}
        IN  IF rows[i].purpose = "refetch" /\ named # {}
            THEN [rows[i] EXCEPT !.node = moves[CHOOSE n \in named : TRUE]]
            ELSE rows[i]]

RebindClone ==
    /\ round.stage = "drawn"
    /\ Clone("balance", Rebound(doc.rows, round.moves))
    /\ round' = [round EXCEPT !.stage = "cloned"]
    /\ UNCHANGED <<doc, issued, drafts, refs, active, on, starts, workers, exitOf, tally>>

RebindSubmit ==
    /\ round.stage = "cloned"
    /\ SubmitClone("balance")
    /\ round' = NoRound
    /\ UNCHANGED <<on, starts, workers, exitOf, tally>>

(***************************************************************************)
(* The sessions.                                                           *)
(***************************************************************************)
LoggedIn == DOMAIN exitOf

\* run_worker: the node is re-read for every login and held by the session.
Login(n) ==
    /\ n \in workers \ LoggedIn
    /\ LET m == NodeFor(doc.rows, n)
       IN  /\ exitOf' = [a \in LoggedIn \cup {n} |-> IF a = n THEN m ELSE exitOf[a]]
           /\ Counted(m, [Entry(tally, m) EXCEPT !.sessions = @ + 1])
    /\ UNCHANGED <<poolVars, on, starts, workers, round>>

\* A login answered 503: the account is retired and the worker ends.
LoginBanned(n) ==
    /\ n \in workers \ LoggedIn
    /\ doc.rev < MaxRev
    /\ Retire(n)
    /\ workers' = workers \ {n}
    /\ UNCHANGED <<issued, drafts, clones, refs, active, on, starts, exitOf, tally, round>>

Leave(n) == exitOf' = [a \in LoggedIn \ {n} |-> exitOf[a]]

\* What the gauge of the exit is when a session has ended.
OneFewer(sessions) == IF sessions = 0 THEN 0 ELSE sessions - 1

\* The exit whose gauge counts the session down: the one it logged in through.
LeftExit(n) == exitOf[n]

SessionEnds(n) ==
    /\ n \in LoggedIn
    /\ Leave(n)
    /\ Counted(LeftExit(n), [Entry(tally, LeftExit(n)) EXCEPT !.sessions = OneFewer(@)])
    /\ UNCHANGED <<poolVars, on, starts, workers, round>>

RecordNode(n) ==
    /\ n \in LoggedIn
    /\ Entry(tally, exitOf[n]).fetched < MaxFetched
    /\ exitOf[n] # Shared
    /\ Counted(exitOf[n], [Entry(tally, exitOf[n]) EXCEPT !.fetched = @ + 1])
    /\ UNCHANGED <<poolVars, on, starts, workers, exitOf, round>>

\* stop_sessions aborts the workers where they are; the gauges stay.
Aborted == exitOf' = [a \in {} |-> Shared]

\* The first accounts that resolve, in stored order.
FirstAccounts ==
    {doc.rows[i].user : i \in {j \in DOMAIN doc.rows :
        /\ doc.rows[j].user \in Resolves(doc.rows, "refetch")
        /\ Cardinality({k \in 1..j - 1 : k \in DOMAIN doc.rows
              /\ doc.rows[k].user \in Resolves(doc.rows, "refetch")}) < Workers}}

\* start, after stop_tasks: a worker for each of the first accounts.
Start ==
    /\ round = NoRound
    /\ FirstAccounts # {}
    /\ starts < MaxStarts
    /\ on' = TRUE /\ starts' = starts + 1
    /\ workers' = FirstAccounts
    /\ Aborted
    /\ UNCHANGED <<poolVars, tally, round>>

Stop ==
    /\ on /\ round = NoRound
    /\ on' = FALSE /\ workers' = {}
    /\ Aborted
    /\ UNCHANGED <<poolVars, starts, tally, round>>

\* run_walk: a walk that is done ends the sessions and leaves the balancer.
WalkDone ==
    /\ on /\ workers # {}
    /\ workers' = {}
    /\ Aborted
    /\ UNCHANGED <<poolVars, on, starts, tally, round>>

BalancerInit ==
    /\ PoolInit
    /\ on = FALSE /\ starts = 0 /\ workers = {}
    /\ exitOf = [a \in {} |-> Shared]
    /\ tally = [m \in {} |-> Entry(<<>>, 0)]
    /\ round = NoRound

BalancerNext ==
    \/ PoolNext /\ UNCHANGED balanceVars
    \/ /\ "sessions" \in active
       /\ \/ Weigh \/ RebindClone \/ RebindSubmit
          \/ \E n \in workers :
                Login(n) \/ LoginBanned(n) \/ SessionEnds(n) \/ RecordNode(n)
          \/ Start \/ Stop \/ WalkDone

BalancerSpec == BalancerInit /\ [][BalancerNext]_allVars

(***************************************************************************)
(* Properties                                                              *)
(***************************************************************************)
\* Every document, draft, clone, count and plan has its shape.
BalancerTypeOK ==
    /\ doc.rev \in 0..MaxRev + 1 /\ issued \in 0..MaxId
    /\ DOMAIN doc.rows \subseteq 1..issued
    /\ \A i \in DOMAIN doc.rows : doc.rows[i] \in StoredAccount(Typed)
    /\ \A e \in Editors : drafts[e] = Nothing
          \/ \A i \in DOMAIN drafts[e].rows : drafts[e].rows[i] \in StoredAccount(Typed \cup {Stars})
    /\ \A w \in DOMAIN clones : clones[w] = Nothing
          \/ \A i \in DOMAIN clones[w].rows : clones[w].rows[i] \in StoredAccount(Typed)
    /\ refs \subseteq Names /\ workers \subseteq Names /\ LoggedIn \subseteq workers
    /\ DOMAIN tally \subseteq Nodes
    /\ \A m \in DOMAIN tally : tally[m].fetched \in 0..MaxFetched
    /\ round.moves \in UNION {[s -> Nodes] : s \in SUBSET Names}

Saves(e) ==
    /\ drafts[e] # Nothing /\ drafts[e].stage = "checked"
    /\ drafts'[e] = Nothing /\ doc' # doc

Fields == {"user", "pw", "purpose", "enabled", "node"}

\* A save of the whole document changes what its editor edited and nothing
\* else: not the password behind the asterisks, not a ban, a binding or an
\* appended account that arrived since the page was read (update).
SavesOnlyItsEdit ==
    [][\A e \in Editors : Saves(e) =>
          LET i == drafts[e].row
          IN  /\ \A j \in DOMAIN doc.rows \ {i} :
                    j \in DOMAIN doc'.rows /\ doc'.rows[j] = doc.rows[j]
              /\ i \in DOMAIN doc.rows \cap DOMAIN doc'.rows =>
                    Cardinality({f \in Fields : doc'.rows[i][f] # doc.rows[i][f]}) <= 1
              /\ Cardinality(DOMAIN doc'.rows \ DOMAIN doc.rows) <= 1]_allVars

\* What Mahjong Soul answered outranks every stale form, clone and spread: a
\* ban is on record until the account is switched on or deleted, and an account
\* that is on carries none, so the export drops no account that works.
BansOutliveSaves ==
    [][\A i \in DOMAIN doc.rows \cap DOMAIN doc'.rows :
          /\ doc.rows[i].banned /\ ~doc'.rows[i].enabled => doc'.rows[i].banned
          /\ doc'.rows[i].enabled => doc'.rows[i].user \in Exported(doc'.rows)
                                     \/ doc'.rows[i].purpose = "watch"]_allVars

\* No write to the pool takes an account from a collector that named it: not a
\* rename, a deletion, a switch, a retirement or a spread.  The one exception
\* is a collector re-pointed between put_accounts' question and its save.
CollectorsKeepTheirAccounts ==
    [][doc' # doc => \A n \in InUse :
          \/ \E u \in Resolves(doc'.rows, "watch") : Same(u, n)
          \/ \E e \in Editors : Saves(e) /\ n \notin drafts[e].inUse]_allVars

\* A round leaves mihomo's listeners alone: if nobody wrote the pool since the
\* bindings were read, what it writes names the same set of exits (the claim of
\* MIN_PER_NODE and of balance_forever: nothing here touches mihomo).
RoundsKeepEveryListener ==
    [][(round.stage = "cloned" /\ round' = NoRound /\ round.rev = doc.rev)
          => RefetchNodes(doc'.rows) = RefetchNodes(doc.rows)]_allVars

\* The balancer's denominator never misses a session that is logged in, however
\* its account was moved, renamed or retired meanwhile (node_session).
GaugeNeverShort ==
    \A m \in Nodes : Entry(tally, m).sessions >= Cardinality({a \in LoggedIn : exitOf[a] = m})

\* What else the gauges need to be counted.
GaugeInv ==
    /\ exitOf = [a \in LoggedIn |-> exitOf[a]] /\ IsFiniteSet(LoggedIn)
    /\ tally = [m \in DOMAIN tally |-> tally[m]]
    /\ \A m \in DOMAIN tally : tally[m] = [fetched |-> tally[m].fetched, sessions |-> tally[m].sessions]
                                /\ tally[m].sessions \in Nat
    /\ GaugeNeverShort

\* NodeTally::sessions is "Sessions logged in through this exit right now".
GaugeIsWhatIsLoggedIn ==
    \A m \in Nodes : Entry(tally, m).sessions = Cardinality({a \in LoggedIn : exitOf[a] = m})

(***************************************************************************)
(* The rule implements the promise: bindings and plans by folded name.     *)
(***************************************************************************)
Promise == INSTANCE ExitBalance WITH
    Accounts <- {Fold[n] : n \in Names},
    Exits    <- Nodes,
    bound    <- {<<Fold[doc.rows[i].user], doc.rows[i].node>> : i \in BoundIds(doc.rows)},
    measured <- Cardinality(DOMAIN tally),
    plan     <- {<<Fold[n], round.moves[n]>> : n \in DOMAIN round.moves}

\* Every round, with everybody else writing between its steps, is a round the
\* comments promise: floor, doubling, cap and budget (rebalance).
RoundsKeepThePromise == Promise!Spec
=============================================================================
