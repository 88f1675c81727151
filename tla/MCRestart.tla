----------------------------- MODULE MCRestart -----------------------------
(* Restart for TLC. *)
EXTENDS Restart, TLC

Symmetry == Permutations(Client)

=============================================================================
