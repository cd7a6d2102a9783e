---------------------------- MODULE ExitBalance ----------------------------
(***************************************************************************)
(* What one balancing round promises, whatever it weighed                  *)
(* (src/src/refetch_service.rs, the comments on MIN_PER_NODE, MOVE_SHARE,  *)
(* MAX_NODE_SHARE and on the doubling rule): a plan drawn up from some     *)
(* bindings takes no exit below its floor, more than doubles none, fills   *)
(* none past the cap, empties none it fills and moves at most its budget;  *)
(* and a round writes either all of its plan or nothing.                   *)
(***************************************************************************)
EXTENDS Naturals, FiniteSets

CONSTANTS Accounts, Exits, MinPerNode, MoveShare, MaxNodeShare

VARIABLES
    bound,      \* pairs <<account, exit>> of the accounts the balancer may move
    measured,   \* how many exits the tally has an entry for
    plan        \* the pairs <<account, exit>> a round is about to write

Greater(a, b) == IF a < b THEN b ELSE a

Named(pairs)  == {p[1] : p \in pairs}
Exit(pairs)   == {p[2] : p \in pairs}
Of(b, names)  == {p \in b : p[1] \in names}

Moved(b, p) == (b \ Of(b, Named(p))) \cup p

Held(b, x) == Cardinality({p \in b : p[2] = x})

Budget(b) == Greater(Cardinality(b) \div MoveShare, 1)

Cap(b, m) == Greater((Cardinality(b) * MaxNodeShare) \div Greater(m, 1), MaxNodeShare)

SafePlan(b, m, p) ==
    /\ Cardinality(p) = Cardinality(Named(p))
    /\ Cardinality(p) <= Budget(b)
    /\ Named(p) \subseteq Named(b)
    /\ Exit(p) \subseteq Exit(b) \ Exit(Of(b, Named(p)))
    /\ \A x \in Exit(Of(b, Named(p))) : Held(Moved(b, p), x) >= MinPerNode
    /\ \A x \in Exit(p) :
          /\ Held(Moved(b, p), x) <= 2 * Held(b, x)
          /\ Held(Moved(b, p), x) <= Cap(b, m)

Init == bound \subseteq Accounts \X Exits /\ measured = 0 /\ plan = {}

\* The console, the registrar, a retirement, a session coming or going.
Elsewhere ==
    /\ UNCHANGED plan
    /\ bound' \subseteq Accounts \X Exits
    /\ measured' \in 0..Cardinality(Exits)

Draw ==
    /\ plan = {}
    /\ plan' \subseteq Accounts \X Exits
    /\ SafePlan(bound, measured, plan')
    /\ UNCHANGED <<bound, measured>>

\* A plan drawn from bindings that have changed since still moves only what it
\* names, an account put on the shared lane since
\* included; one that meets a newer revision moves nothing.
Write ==
    /\ plan # {}
    /\ plan' = {}
    /\ \/ UNCHANGED bound
       \/ \E p \in SUBSET plan :
             Of(plan, Named(bound)) \subseteq p /\ bound' = Moved(bound, p)
    /\ UNCHANGED measured

Next == Elsewhere \/ Draw \/ Write

Spec == Init /\ [][Next]_<<bound, measured, plan>>
=============================================================================
