--------------------------- MODULE MCRegistration ---------------------------
(* Small instances of Registration: two subscriptions, one of them new. *)
EXTENDS Registration, TLC

CONSTANTS old, new

SubOfNode == [n \in Nodes |-> IF n = 3 THEN new ELSE old]
=============================================================================
