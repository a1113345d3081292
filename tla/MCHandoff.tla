------------------------------ MODULE MCHandoff -----------------------------
(* Small instances of Handoff for TLC. *)
EXTENDS Handoff, TLC

\* Processes differ in nothing but their name.
ProcSymmetry == Permutations(Procs)

=============================================================================
