------------------------- MODULE MCKnownGamesSweep -------------------------
(* Small instances of KnownGamesSweep. *)
EXTENDS KnownGamesSweep, TLC

CONSTANTS p, q, w
=============================================================================
