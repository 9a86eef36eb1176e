------------------------ MODULE MCVoucherRedemption ------------------------
(* Instances of VoucherRedemption for TLC. *)
EXTENDS VoucherRedemption, TLC

Symmetry == Permutations(Redeemers) \cup Permutations(Cancellers) \cup Permutations(Invoices)
=============================================================================
