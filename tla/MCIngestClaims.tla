--------------------------- MODULE MCIngestClaims ---------------------------
(* Small instances of IngestClaims. *)
EXTENDS IngestClaims, TLC

CONSTANTS a, b, c, g, k, x, y

Game(content)   == [key |-> g, content |-> content]
Plain(content)  == [key |-> k, content |-> content]

\* Two renderings of one game, and archives that mix a game with plain logs.
Archives == {<<Game(x)>>, <<Plain(x), Game(x)>>, <<Game(y), Plain(y)>>}
Singles  == {<<Game(x)>>, <<Plain(x)>>}

RequestSymmetry == Permutations(Requests)
=============================================================================
