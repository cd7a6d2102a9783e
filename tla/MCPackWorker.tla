---------------------------- MODULE MCPackWorker ----------------------------
(* PackWorker for TLC: two records that may each be sent again, in every   *)
(* kind of bytes, and a fault.                                             *)
EXTENDS PackWorker

CONSTANTS r1, r2
=============================================================================
