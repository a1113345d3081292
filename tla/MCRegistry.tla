----------------------------- MODULE MCRegistry -----------------------------
(* Small instances of Registry for TLC.  The ids are not declared          *)
(* symmetric: the run checks a liveness property.                          *)
EXTENDS Registry, TLC

=============================================================================
