--------------------------- MODULE MCReplayEngine ---------------------------
(* Small instances of ReplayEngine for TLC. *)
EXTENDS ReplayEngine, TLC

=============================================================================
