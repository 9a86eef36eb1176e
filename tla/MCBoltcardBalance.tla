-------------------------- MODULE MCBoltcardBalance --------------------------
EXTENDS BoltcardBalance, TLC

CONSTANTS p1, p2

\* Two invoices the card can pay one of but not always both.
TwoInvoices == (p1 :> 3) @@ (p2 :> 3)

Symmetry == Permutations(Payments) \cup Permutations(Deliveries)
=============================================================================
