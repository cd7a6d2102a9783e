----------------------------- MODULE ProxySlots -----------------------------
(***************************************************************************)
(* The exits of the re-fetch pool (src/mihomo.rs MihomoManager): the nodes *)
(* its accounts are bound to, the slots those nodes are filed under, the   *)
(* mihomo configuration generated from them, and mihomo itself, external,  *)
(* which runs the configuration it last loaded and remembers what each     *)
(* group was pointed at.                                                   *)
(*                                                                         *)
(* A step is a stretch of one task between two awaits.  A slot stands for  *)
(* its port and its group; node names are numbers, which sort as names do. *)
(* Of the account document (AccountDocument) only the nodes it binds are   *)
(* kept; labels, URLs, latencies and traffic counters are left out.        *)
(***************************************************************************)
EXTENDS Naturals, Sequences, FiniteSets, Functions

CONSTANTS Nodes,         \* the nodes of all subscriptions, numbers
          Subs,          \* the subscriptions an operator may configure
          Fresh,         \* those never configured before the run begins
          SubOf,         \* the subscription a node comes from
          MaxSlot,       \* MAX_OUTBOUNDS
          ReservedSlots, \* slots whose port is one of RESERVED_PORTS
          MaxSubs,       \* MAX_SUBSCRIPTIONS
          Attempts,      \* LANE_ATTEMPTS
          Bound,         \* the nodes accounts are bound to at first
          MaxEvents      \* saves, polls, restarts and faults in one behaviour

ASSUME SlotsAssumption ==
    /\ Nodes \subseteq Nat \ {0} /\ IsFiniteSet(Nodes) /\ Nodes # {}
    /\ SubOf \in [Nodes -> Subs] /\ Fresh \subseteq Subs
    /\ MaxSlot \in Nat /\ ReservedSlots \subseteq Nat
    /\ MaxSubs \in Nat /\ Attempts \in Nat \ {0}
    /\ Bound \subseteq Nodes /\ MaxEvents \in Nat

VARIABLES
    bound,       \* AccountPool::refetch_nodes: what enabled accounts name
    slot,        \* OutboundSlots::assignments, 0 for a node without a slot
    slotDisk,    \* outbounds.json
    leased,      \* MihomoManager::leased
    slotsReady, lanesReady,
    subs,        \* MihomoManager::subscriptions
    subsDisk,    \* subscription.json
    conf,        \* config.yaml: [slots, subs]
    mihomo,      \* external: [up, slots, subs] as running
    now,         \* external: the node each slot's group was last pointed at
    apply,       \* every task inside apply_runtime_config
    polling,     \* what each status() in progress has read of mihomo
    change,      \* the subscription request being handled
    events

slotVars == <<slot, slotDisk, leased, slotsReady, lanesReady>>
subVars  == <<subs, subsDisk, conf>>
miVars   == <<mihomo, now>>
taskVars == <<apply, polling, change>>
exitVars == <<bound, slotVars, subVars, miVars, taskVars, events>>

Shared  == 0                 \* the MAJSOUL group: follow the deployment
NoSlot  == 0

Slots == (1 .. MaxSlot) \ ReservedSlots

BootTask == 0
RunTask == 1
Tasks   == 0 .. MaxEvents + 1        \* the others are spawned by saves
Pollers == {"console", "run"}
Applier == [pc : {"idle", "reload", "lanes", "select"}, tries : 0 .. Attempts,
            todo : [Nodes -> 0 .. MaxSlot], good : BOOLEAN]
Idle    == [pc |-> "idle", tries |-> 0, todo |-> [n \in Nodes |-> NoSlot], good |-> TRUE]
Unread  == [read |-> FALSE, at |-> [s \in Slots |-> Shared], loaded |-> {}]

Spend(k) == events + k <= MaxEvents /\ events' = events + k
Cost(fine) == IF fine THEN 0 ELSE 1

------------------------------------------------------------------------------
(* Filing the slots. *)

\* The k-th lowest number of a set, and all of them in order.
Lowest(S, k) == CHOOSE s \in S : Cardinality({t \in S : t < s}) = k - 1
InOrder(S) == [k \in 1 .. Cardinality(S) |-> Lowest(S, k)]

\* Where a list names n first.
Turn(list, n) == CHOOSE k \in DOMAIN list :
    list[k] = n /\ \A j \in DOMAIN list : list[j] = n => k <= j

\* Mutant: a slot is looked for without regard to those that are taken.
RefileFromOne(old, wanted) ==
    [n \in Nodes |->
        CASE n \notin Range(wanted) -> NoSlot
          [] old[n] # NoSlot -> old[n]
          [] OTHER -> Lowest(Slots, Turn(wanted, n))]

\* OutboundSlots::refile: nodes still wanted stay where they are, the others
\* take the lowest free slots in turn until there are none.
Refile(old, wanted) ==
    LET kept  == {n \in Range(wanted) : old[n] # NoSlot}
        fresh == Range(wanted) \ kept
        free  == Slots \ {old[n] : n \in kept}
        place(n) == Cardinality({m \in fresh : Turn(wanted, m) <= Turn(wanted, n)})
    IN  [n \in Nodes |->
            CASE n \in kept -> old[n]
              [] n \in fresh /\ place(n) <= Cardinality(free) -> Lowest(free, place(n))
              [] OTHER -> NoSlot]

\* Mutant: the borrowed nodes are forgotten when the pool's are filed.
WantedByThePool(nodes, borrowed) == InOrder(nodes)

\* set_outbound_nodes: the pool's nodes in name order, then the borrowed ones.
\* One of those that the pool names too is not added, which is as if it were:
\* refile takes a node at its first mention and passes over the others.
Wanted(nodes, borrowed) == InOrder(nodes) \o borrowed
Filed(f) == {n \in Nodes : f[n] # NoSlot}

\* write_runtime_config: a listener and a group per slot, a provider per
\* subscription.
Runtime(f, providers) == [slots |-> Range(f) \ {NoSlot}, subs |-> providers]

\* set_outbound_nodes(nodes) while `borrowed` is leased.  Either file may fail
\* to be written; the slots in memory have moved by then.  `went` is whether
\* the call returned Ok.
SetOutbound(nodes, borrowed, went) ==
    LET next == Refile(slot, Wanted(nodes, borrowed))
    IN  /\ leased' = borrowed
        /\ slot' = next
        /\ \/ /\ next = slot /\ went = TRUE
              /\ UNCHANGED <<slotDisk, slotsReady, conf>>
           \/ /\ next # slot /\ went = TRUE
              /\ slotDisk' = next /\ slotsReady' = FALSE
              /\ conf' = Runtime(next, subs)
           \/ /\ next # slot /\ went = FALSE      \* outbounds.json
              /\ UNCHANGED <<slotDisk, slotsReady, conf>>
           \/ /\ next # slot /\ went = FALSE      \* config.yaml
              /\ slotDisk' = next /\ slotsReady' = FALSE /\ UNCHANGED conf
        /\ UNCHANGED <<lanesReady, subs, subsDisk>>

Spawned(t) == [apply EXCEPT ![t] = [Idle EXCEPT !.pc = "reload"]]

\* proxy_url_for_node: the slot a session bound to n dials, NoSlot for its lane.
ProxyFor(n) == IF slotsReady THEN slot[n] ELSE NoSlot

\* Where mihomo sends what arrives at a slot's port: a stored choice that the
\* running providers no longer offer falls back to the first entry.
Offered == {n \in Nodes : SubOf[n] \in mihomo.subs}
Chosen(s) == IF now[s] \in Offered THEN now[s] ELSE Shared

------------------------------------------------------------------------------
(* Writes to the account document, as far as they move the nodes. *)

\* put_accounts and post_account_nodes: the document names other nodes, they
\* are filed, and a task is spawned to apply them.
SaveAccounts ==
    /\ bound' \in SUBSET Nodes
    /\ \E went \in BOOLEAN, t \in Tasks \ {BootTask, RunTask} :
        /\ Spend(1 + Cost(went))
        /\ SetOutbound(bound', leased, went)
        /\ apply[t] = Idle /\ \A u \in 2 .. t - 1 : apply[u] # Idle
        /\ apply' = IF went THEN Spawned(t) ELSE apply
    /\ UNCHANGED <<miVars, polling, change>>

\* retire_banned: the last account of a node is switched off.  The slots are
\* not filed again, and the node keeps its listener until the next save.
RetireNode ==
    /\ Spend(1)
    /\ \E n \in bound : bound' = bound \ {n}
    /\ UNCHANGED <<slotVars, subVars, miVars, taskVars>>

------------------------------------------------------------------------------
(* Applying the configuration. *)

\* mihomo reads config.yaml when it is told to and when it starts.
Loaded == [mihomo EXCEPT !.slots = conf.slots, !.subs = conf.subs]

\* One attempt of apply_runtime_config failed: sleep and try again, or give up.
TryAgain(t) ==
    apply' = [apply EXCEPT ![t] = IF @.tries + 1 < Attempts
                                  THEN [@ EXCEPT !.pc = "reload", !.tries = @ + 1]
                                  ELSE Idle]

\* reload_config, refused by a mihomo that is down or will not take it.
Reload(t) ==
    /\ apply[t].pc = "reload"
    /\ \/ /\ mihomo.up /\ mihomo' = Loaded /\ Spend(0)
          /\ apply' = [apply EXCEPT ![t].pc = "lanes"]
       \/ TryAgain(t) /\ UNCHANGED mihomo /\ Spend(Cost(~mihomo.up))
    /\ UNCHANGED <<bound, slotVars, subVars, now, polling, change>>

\* lane_groups_present, which a mihomo on an older configuration fails, then
\* the copy of the assignments that apply_outbound_selections works from.
SeeLanes(t) ==
    /\ apply[t].pc = "lanes"
    /\ \/ /\ mihomo.up /\ lanesReady' = TRUE /\ Spend(0)
          /\ apply' = [apply EXCEPT ![t].pc = "select", ![t].todo = slot, ![t].good = TRUE]
       \/ TryAgain(t) /\ UNCHANGED lanesReady /\ Spend(Cost(~mihomo.up))
    /\ UNCHANGED <<bound, slot, slotDisk, leased, slotsReady, subVars, miVars, polling, change>>

\* One PUT /proxies/MAJSOUL-OUT-n.  Accepted when the group is loaded and the
\* node is one of its members; the answer may be lost after it took effect.
SelectNode(t) ==
    LET todo == apply[t].todo
        n    == CHOOSE m \in Filed(todo) : \A k \in Filed(todo) : m <= k
        took == mihomo.up /\ todo[n] \in mihomo.slots /\ n \in Offered
    IN  /\ apply[t].pc = "select" /\ Filed(todo) # {}
        /\ now' = IF took THEN [now EXCEPT ![todo[n]] = n] ELSE now
        /\ \E heard \in BOOLEAN :
            /\ Spend(Cost(heard))
            /\ apply' = [apply EXCEPT ![t].todo[n] = NoSlot,
                                      ![t].good = @ /\ took /\ heard]
        /\ UNCHANGED <<bound, slotVars, subVars, mihomo, polling, change>>

\* The end of apply_outbound_selections.
Applied(t) ==
    /\ apply[t].pc = "select" /\ Filed(apply[t].todo) = {}
    /\ slotsReady' = apply[t].good
    /\ apply' = [apply EXCEPT ![t] = Idle]
    /\ UNCHANGED <<bound, slot, slotDisk, leased, lanesReady, subVars, miVars, polling,
                   change, events>>

------------------------------------------------------------------------------
(* status(): the console's poll, and the registration run's. *)

\* GET /proxies answers.
PollReads(p) ==
    /\ mihomo.up
    /\ polling' = [polling EXCEPT ![p] =
            [read |-> TRUE,
             at |-> [s \in Slots |-> Chosen(s)], loaded |-> mihomo.slots]]
    /\ UNCHANGED <<bound, slotVars, subVars, miVars, apply, change>>

\* read_nodes: the slots as they are filed now against what mihomo answered.
Usable(seen, n) == slot[n] \in seen.loaded /\ seen.at[slot[n]] = n
ReadNodes(seen) ==
    /\ lanesReady' = TRUE
    /\ slotsReady' = \A n \in Filed(slot) : Usable(seen, n)

ConsolePolls ==
    /\ Spend(1)
    /\ ~polling["console"].read /\ PollReads("console")

ConsoleSees ==
    /\ polling["console"].read
    /\ ReadNodes(polling["console"])
    /\ polling' = [polling EXCEPT !["console"] = Unread]
    /\ UNCHANGED <<bound, slot, slotDisk, leased, subVars, miVars, apply, change, events>>

------------------------------------------------------------------------------
(* Subscriptions. *)

\* update_subscription and remove_subscription, to the first await: one is
\* added under a new id, replaced under its own, or removed.
NextSubs ==
    {subs \cup {x} : x \in {y \in Fresh \ subs : Cardinality(subs) < MaxSubs}}
        \cup {subs \ {x} : x \in subs} \cup {t \in {subs} : t # {}}

\* commit_subscriptions.  A configuration that cannot be written puts the old
\* set back in memory, and leaves the new one in the file.
ChangeSubs ==
    /\ change = "none"
    /\ \E next \in NextSubs, went \in BOOLEAN :
        /\ Spend(1 + Cost(went))
        /\ subsDisk' = next
        /\ IF went
           THEN /\ subs' = next /\ change' = "reload"
                /\ conf' = Runtime(slot, next)
           ELSE UNCHANGED <<subs, conf, change>>
    /\ UNCHANGED <<bound, slotVars, miVars, apply, polling>>

SubsReload ==
    /\ change = "reload" /\ change' = "none"
    /\ mihomo' = IF mihomo.up THEN Loaded ELSE mihomo
    /\ UNCHANGED <<bound, slotVars, subVars, now, apply, polling, events>>

------------------------------------------------------------------------------
(* Restarts. *)

\* The process dies; the next one reads its files, generates the
\* configuration, files the slots from the pool and applies them.
Booted == Refile(slotDisk, Wanted(bound, << >>))
Restart ==
    /\ Spend(1)
    /\ leased' = << >> /\ slotsReady' = FALSE /\ lanesReady' = FALSE
    /\ subs' = subsDisk
    /\ slot' = Booted /\ slotDisk' = Booted
    /\ conf' = Runtime(Booted, subsDisk)
    /\ apply' = [t \in Tasks |-> IF t = BootTask THEN [Idle EXCEPT !.pc = "reload"] ELSE Idle]
    /\ polling' = [q \in Pollers |-> Unread]
    /\ change' = "none"
    /\ UNCHANGED <<bound, subsDisk, miVars>>

MihomoStops ==
    /\ mihomo.up /\ Spend(1)
    /\ mihomo' = [mihomo EXCEPT !.up = FALSE]
    /\ UNCHANGED <<bound, slotVars, subVars, now, taskVars>>

MihomoStarts ==
    /\ ~mihomo.up
    /\ mihomo' = [Loaded EXCEPT !.up = TRUE]
    /\ UNCHANGED <<bound, slotVars, subVars, now, taskVars, events>>

------------------------------------------------------------------------------
\* A deployment that has been running for a while.
ExitInit ==
    /\ bound = Bound
    /\ slot = Refile([n \in Nodes |-> NoSlot], Wanted(bound, << >>))
    /\ slotDisk = slot /\ leased = << >>
    /\ subs = Subs \ Fresh /\ subsDisk = subs
    /\ conf = Runtime(slot, subs)
    /\ slotsReady = TRUE /\ lanesReady = TRUE
    /\ mihomo = [up |-> TRUE, slots |-> conf.slots, subs |-> subs]
    /\ now = [s \in Slots |-> IF \E n \in Nodes : slot[n] = s
                              THEN CHOOSE n \in Nodes : slot[n] = s ELSE Shared]
    /\ apply = [t \in Tasks |-> Idle]
    /\ polling = [q \in Pollers |-> Unread]
    /\ change = "none"
    /\ events = 0

Applies(t) == Reload(t) \/ SeeLanes(t) \/ SelectNode(t) \/ Applied(t)

\* Everything but what ends or begins a registration run.
ExitNext ==
    \/ SaveAccounts \/ RetireNode
    \/ \E t \in Tasks : Applies(t)
    \/ ConsolePolls \/ ConsoleSees
    \/ ChangeSubs \/ SubsReload
    \/ MihomoStops \/ MihomoStarts
=============================================================================
