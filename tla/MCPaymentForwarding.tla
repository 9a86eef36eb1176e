------------------------ MODULE MCPaymentForwarding ------------------------
(* Instances of PaymentForwarding for TLC. *)
EXTENDS PaymentForwarding, TLC

Symmetry == Permutations(Requests)

EveryOrder == AllOrders

\* Destinations a delivery of the webhook can forward to by itself.
WebhookOrders ==
  {o \in AllOrders : o.dest \in {"ln_address", "npub_cash", "nwc", "user_wallet"}}
=============================================================================
