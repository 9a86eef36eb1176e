--------------------------- MODULE MCBoltcardCards ---------------------------
(* Constants of BoltcardCards for TLC. *)
EXTENDS BoltcardCards, TLC
CONSTANTS g1, g2, g3, o1, o2

\* Two deeplinks of one owner, one direct registration of another.
TwoOwners == g1 :> o1 @@ g2 :> o1 @@ g3 :> o2

Symmetry == Permutations(Calls) \cup Permutations(Taps)
=============================================================================
