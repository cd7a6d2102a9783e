--------------------------- MODULE MCWatchSession ---------------------------
(* Two games, each in a room of its own. *)
EXTENDS WatchSession

CONSTANTS g1, g2, gold, jade

Rooms == <<gold, jade>>
RoomOf == [g \in Games |-> IF g = g1 THEN gold ELSE jade]
=============================================================================
