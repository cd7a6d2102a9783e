------------------------- MODULE MCAccountSessions -------------------------
(* Small instances of AccountSessions. *)
EXTENDS AccountSessions, TLC

CONSTANTS a, c1, c2

OneLine == <<a>>
=============================================================================
