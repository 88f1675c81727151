--------------------------- MODULE MCAccumulators ---------------------------
(* Accumulators on small instances, for TLC. *)
EXTENDS Accumulators, TLC

Symmetry == Permutations(Thread) \cup Permutations(Acc)

=============================================================================
