----------------------------- MODULE MCListing ------------------------------
(* Small instances of Listing, and with it of Registry, for TLC.  The ids  *)
(* are not declared symmetric: the run checks liveness properties.         *)
EXTENDS Listing, TLC

=============================================================================
