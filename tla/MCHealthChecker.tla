--------------------------- MODULE MCHealthChecker ---------------------------
(* Two backends and three descriptors, one of which another thread may hold: *)
(* enough for a timeout and a write callback of one batch to meet a reused   *)
(* descriptor.                                                               *)
EXTENDS HealthChecker
=============================================================================
