----------------------------- MODULE OncePayout -----------------------------
(***************************************************************************)
(* What the claim protocol of payment_splits promises, with no request     *)
(* handlers, database or wallets in it: a payment can be taken by one      *)
(* holder at a time, the holder may pay out only while nobody has, and     *)
(* after a payout the payment is never open again.                         *)
(***************************************************************************)
CONSTANTS
  Requests,  \* those who may ask to be the one that pays
  NoOne      \* nobody, and none of the requests

VARIABLES
  phase,    \* "open": may be taken; "taken"; "closed": never open again
  holder,   \* the request entitled to pay out, or NoOne
  payouts   \* the requests that have paid out

vars == <<phase, holder, payouts>>

Init ==
  /\ phase = "open"
  /\ holder = NoOne
  /\ payouts = {}

Take(r) ==
  /\ phase = "open"
  /\ holder = NoOne
  /\ phase' = "taken"
  /\ holder' = r
  /\ UNCHANGED payouts

PayOut(r) ==
  /\ holder = r
  /\ payouts = {}
  /\ payouts' = {r}
  /\ UNCHANGED <<phase, holder>>

\* The holder failed before paying: somebody else may try.
GiveBack(r) ==
  /\ holder = r
  /\ payouts = {}
  /\ holder' = NoOne
  /\ phase' = IF phase = "taken" THEN "open" ELSE phase
  /\ UNCHANGED payouts

\* The holder leaves having paid, and may or may not close the payment.
Settle(r) ==
  /\ holder = r
  /\ payouts \subseteq {r}
  /\ payouts' = {r}
  /\ holder' = NoOne
  /\ phase' \in {phase, "closed"}

\* The holder leaves without paying and without giving the payment back.
Abandon(r) ==
  /\ holder = r
  /\ holder' = NoOne
  /\ phase' \in {phase, "closed"}
  /\ UNCHANGED payouts

\* The deadline: nobody may take the payment any more.
Close ==
  /\ phase' = "closed"
  /\ UNCHANGED <<holder, payouts>>

Next ==
  \/ \E r \in Requests : Take(r) \/ PayOut(r) \/ GiveBack(r) \/ Settle(r) \/ Abandon(r)
  \/ Close

Spec == Init /\ [][Next]_vars
=============================================================================
