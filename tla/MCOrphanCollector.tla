------------------------- MODULE MCOrphanCollector -------------------------
(* OrphanCollector for TLC: one record, sent twice, and a clock that runs  *)
(* past the grace period.                                                  *)
EXTENDS OrphanCollector

CONSTANT r1
=============================================================================
