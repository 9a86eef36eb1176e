--------------------------- MODULE MCHybridStore ---------------------------
(* Instances of HybridStore for TLC. *)
EXTENDS HybridStore, TLC

Symmetry == Permutations(Handlers)
=============================================================================
