-------------------------- MODULE MCExitBalancer --------------------------
(* Constants of ExitBalancer for TLC. *)
EXTENDS ExitBalancer

MCNames == {"w", "a", "A", "b", "c", "d", "e"}
MCFold == [n \in MCNames |-> IF n = "A" THEN "a" ELSE n]
Row(n, p, m) == [user |-> n, pw |-> "old", purpose |-> p, enabled |-> TRUE,
                 banned |-> FALSE, node |-> m]
MCFirstRows == <<Row("w", "watch", 0), Row("a", "refetch", 1),
                 Row("b", "refetch", 2), Row("c", "refetch", 2),
                 Row("d", "refetch", 2)>>
MCParties == {{"console", "sessions"}, {"registrar", "sessions"}, {"spread", "sessions"},
              {"console", "watch", "registrar"}, {"console", "watch", "spread"}}
=============================================================================
