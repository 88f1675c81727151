----------------------------- MODULE MCRecords -----------------------------
(* Records for TLC. *)
EXTENDS Records, TLC

Symmetry == Permutations(Client) \cup Permutations(Name)

=============================================================================
