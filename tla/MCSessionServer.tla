-------------------------- MODULE MCSessionServer ---------------------------
(* Small instances of SessionServer for TLC.  The creating connection has  *)
(* a part of its own and the instances have one other at most, so there is *)
(* no symmetry to declare.                                                 *)
EXTENDS SessionRefinement, TLC

=============================================================================
