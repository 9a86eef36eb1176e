-------------------------- MODULE VoucherRedemption --------------------------
(***************************************************************************)
(* One voucher, from its creation until its row is deleted, and the        *)
(* requests about it: LNURL-withdraw callbacks (pages/api/voucher/         *)
(* callback.ts) that redeem it with an invoice, and cancellations          *)
(* (cancel.ts).  Every query of lib/voucher-store.ts and the payment are   *)
(* steps of their own.                                                     *)
(***************************************************************************)
EXTENDS Naturals, FiniteSets, Functions

CONSTANTS
  Redeemers,    \* the requests that redeem the voucher
  Cancellers,   \* the requests that cancel it
  Invoices,     \* the invoices wallets present for it
  Faults,       \* what may go wrong
  MaxFailures,  \* bound on the number of faults in a behaviour
  NoOne         \* stands for "no request" in the refinement

\* dbError     a query throws, with or without having been applied
\* payRejected payLnInvoice fails and no money moves
\* payPending  payLnInvoice reports PENDING
\* replyLost   payLnInvoice moves the money and reports a failure
\* crash       the process running a request dies
\* overlap     a wallet presents the voucher while another request redeems it
\* late        the voucher's expires_at passes
AllFaults ==
  {"dbError", "payRejected", "payPending", "replyLost", "crash", "overlap", "late"}

Requests == Redeemers \cup Cancellers

ASSUME VoucherAssumption ==
  /\ Redeemers \cap Cancellers = {}
  /\ Faults \subseteq AllFaults
  /\ MaxFailures \in Nat
  /\ NoOne \notin Requests

VARIABLES
  status,    \* vouchers.status; "DELETED" when the row is gone
  past,      \* expires_at is in the past
  old,       \* the retention period of the row is over
  req,       \* the state of every request
  invoice,   \* the invoice each redeeming wallet presents
  accepted,  \* the requests whose payment Blink has accepted
  inflight,  \* those of them that are still PENDING
  returned,  \* those of them that came back
  shown,     \* the issuer's screen says that the voucher has been redeemed
  failures   \* how often each fault has happened

vars == <<status, past, old, req, invoice, accepted, inflight, returned,
          failures, shown>>

Statuses == {"ACTIVE", "CLAIMED", "CANCELLED", "EXPIRED", "DELETED"}
Pcs == {"idle", "lookup", "claim", "pay", "unclaim", "check", "cancel",
        "ok", "error", "crashed"}

TypeOK ==
  /\ status \in Statuses
  /\ past \in BOOLEAN /\ old \in BOOLEAN
  /\ req \in [Requests -> Pcs]
  /\ invoice \in [Redeemers -> Invoices]
  /\ accepted \subseteq Redeemers
  /\ shown \in BOOLEAN
  /\ inflight \subseteq accepted /\ returned \subseteq accepted \ inflight
  /\ failures \in [AllFaults -> Nat]

Init ==
  /\ status = "ACTIVE"
  /\ past = FALSE /\ old = FALSE
  /\ req = [r \in Requests |-> "idle"]
  /\ invoice \in [Redeemers -> Invoices]
  /\ accepted = {} /\ inflight = {} /\ returned = {}
  /\ failures = [f \in AllFaults |-> 0]
  /\ shown = FALSE

Goto(r, p) == req' = [req EXCEPT ![r] = p]

Active(r) == req[r] \in {"lookup", "claim", "pay", "unclaim", "check", "cancel"}

Fault(f) ==
  /\ f \in Faults
  /\ SumFunctionOnSet(failures, AllFaults) < MaxFailures
  /\ failures' = [failures EXCEPT ![f] = @ + 1]

Happened(f) == failures[f] > 0

\* An invoice that is paid, or being paid, is not paid again.
PaidWith(i) == \E r \in accepted \ returned : invoice[r] = i

-----------------------------------------------------------------------------
(* The clock, and lazyCleanup: expire, then delete what is past retention. *)

DeadlinePasses ==
  /\ "late" \in Faults /\ ~past
  /\ past' = TRUE
  /\ UNCHANGED <<status, old, req, invoice, accepted, inflight, returned, failures, shown>>

\* Weeks after the row got its status, or an unused one its deadline: nothing
\* about the voucher is still being processed.
RetentionPasses ==
  /\ ~old /\ (status = "ACTIVE" => past)
  /\ \A r \in Requests : ~Active(r)
  /\ inflight = {}
  /\ old' = TRUE
  /\ UNCHANGED <<status, past, req, invoice, accepted, inflight, returned, failures, shown>>

Expires(s) == s = "ACTIVE"

Swept ==
  LET s == IF Expires(status) /\ past THEN "EXPIRED" ELSE status
  IN IF old /\ s \in {"CLAIMED", "CANCELLED", "EXPIRED"} THEN "DELETED" ELSE s

\* getAllVouchers, getStats and the other readers run the sweep on the way.
LazyCleanup ==
  /\ Swept # status
  /\ status' = Swept
  /\ UNCHANGED <<past, old, req, invoice, accepted, inflight, returned, failures, shown>>

-----------------------------------------------------------------------------
(* callback.ts                                                             *)

BeginRedeem(r) ==
  /\ req[r] = "idle"
  /\ IF \E x \in Redeemers : Active(x) THEN Fault("overlap") ELSE UNCHANGED failures
  /\ Goto(r, "lookup")
  /\ UNCHANGED <<status, past, old, invoice, accepted, inflight, returned, shown>>

\* getVoucher: lazyCleanup unless it ran in the last five minutes, then the
\* SELECT; an error reads as "not found".
LookupVoucher(r) ==
  /\ req[r] = "lookup"
  /\ \E s \in {status, Swept} :
       /\ status' = s
       /\ \/ /\ Goto(r, IF s = "ACTIVE" /\ ~past THEN "claim" ELSE "error")
             /\ UNCHANGED failures
          \/ Fault("dbError") /\ Goto(r, "error")
  /\ UNCHANGED <<past, old, invoice, accepted, inflight, returned, shown>>

\* Mutation: the UPDATE relies on the lookup.
ClaimableAlways == status # "DELETED"

Claimable == status = "ACTIVE" /\ ~past

\* Mutation: the claim writes a status nothing else knows.
ClaimAsRedeemed(r) ==
  /\ req[r] = "claim"
  /\ Claimable
  /\ status' = "REDEEMED"
  /\ Goto(r, "pay")
  /\ UNCHANGED <<past, old, invoice, accepted, inflight, returned, failures, shown>>

\* "Mark as claimed BEFORE paying"; an error reads as "already in use".
ClaimVoucher(r) ==
  /\ req[r] = "claim"
  /\ \/ /\ Claimable
        /\ status' = "CLAIMED"
        /\ Goto(r, "pay")
        /\ UNCHANGED failures
     \/ /\ ~Claimable
        /\ Goto(r, "error")
        /\ UNCHANGED <<status, failures>>
     \/ /\ Fault("dbError")
        /\ status' \in {status, IF Claimable THEN "CLAIMED" ELSE status}
        /\ Goto(r, "error")
  /\ UNCHANGED <<past, old, invoice, accepted, inflight, returned, shown>>

\* Mutation: a failed payment is answered without giving the voucher back.
FailedPaymentEnds(r) == Goto(r, "error")

PaymentFailed(r) == Goto(r, "unclaim")

\* payLnInvoice from the voucher's wallet.  An invoice is paid at most once,
\* so presenting a paid one again is ALREADY_PAID, which counts as success.
PayVoucherInvoice(r) ==
  /\ req[r] = "pay"
  /\ \/ /\ PaidWith(invoice[r])
        /\ Goto(r, "ok")
        /\ UNCHANGED <<accepted, inflight, failures>>
     \/ /\ ~PaidWith(invoice[r])
        /\ accepted' = accepted \cup {r}
        /\ \/ Goto(r, "ok") /\ UNCHANGED <<inflight, failures>>
           \/ Fault("payPending") /\ inflight' = inflight \cup {r} /\ Goto(r, "ok")
           \/ Fault("replyLost") /\ PaymentFailed(r) /\ UNCHANGED inflight
     \/ /\ ~PaidWith(invoice[r])
        /\ Fault("payRejected")
        /\ PaymentFailed(r)
        /\ UNCHANGED <<accepted, inflight>>
  /\ UNCHANGED <<status, past, old, invoice, returned, shown>>

\* A pending payment arrives or is returned; nobody is told.
PendingResolves(r) ==
  /\ r \in inflight
  /\ inflight' = inflight \ {r}
  /\ returned' \in {returned, returned \cup {r}}
  /\ UNCHANGED <<status, past, old, req, invoice, accepted, failures, shown>>

\* "Payment failed - unclaim the voucher so it can be retried"; the result of
\* unclaimVoucher is not looked at.
UnclaimVoucher(r) ==
  /\ req[r] = "unclaim"
  /\ \/ /\ status' = IF status = "CLAIMED" /\ ~past THEN "ACTIVE" ELSE status
        /\ UNCHANGED failures
     \/ Fault("dbError") /\ UNCHANGED status
  /\ Goto(r, "error")
  /\ UNCHANGED <<past, old, invoice, accepted, inflight, returned, shown>>

-----------------------------------------------------------------------------
(***************************************************************************)
(* Voucher.tsx polls the status of the voucher it shows every two seconds  *)
(* until it has seen it claimed, and never looks again.                    *)
(***************************************************************************)
\* Mutation: an expired or cancelled voucher is also shown as redeemed.
ReportedClaimedAny == status # "ACTIVE"

ReportedClaimed == status = "CLAIMED"

PollVoucherStatus ==
  /\ ~shown /\ ReportedClaimed
  /\ shown' = TRUE
  /\ UNCHANGED <<status, past, old, req, invoice, accepted, inflight, returned, failures>>

-----------------------------------------------------------------------------
(* cancel.ts: a look at the voucher, then the guarded UPDATE.              *)

BeginCancel(r) ==
  /\ req[r] = "idle"
  /\ Goto(r, "check")
  /\ UNCHANGED <<status, past, old, invoice, accepted, inflight, returned, failures, shown>>

\* Neither claimed nor cancelled; whether it has expired is not asked.
CheckCancellable(r) ==
  /\ req[r] = "check"
  /\ \/ /\ Goto(r, IF status \in {"ACTIVE", "EXPIRED"} THEN "cancel" ELSE "error")
        /\ UNCHANGED failures
     \/ Fault("dbError") /\ Goto(r, "error")
  /\ UNCHANGED <<status, past, old, invoice, accepted, inflight, returned, shown>>

\* Mutation: the UPDATE relies on the check.
CancellableChecked == status # "DELETED"

Cancellable == status = "ACTIVE"

CancelVoucher(r) ==
  /\ req[r] = "cancel"
  /\ \/ /\ Cancellable
        /\ status' = "CANCELLED"
        /\ Goto(r, "ok")
        /\ UNCHANGED failures
     \/ /\ ~Cancellable
        /\ Goto(r, "error")
        /\ UNCHANGED <<status, failures>>
     \/ /\ Fault("dbError")
        /\ status' \in {status, IF Cancellable THEN "CANCELLED" ELSE status}
        /\ Goto(r, "error")
  /\ UNCHANGED <<past, old, invoice, accepted, inflight, returned, shown>>

Crash(r) ==
  /\ Active(r)
  /\ Fault("crash")
  /\ Goto(r, "crashed")
  /\ UNCHANGED <<status, past, old, invoice, accepted, inflight, returned, shown>>

-----------------------------------------------------------------------------
Handle(r) ==
  \/ LookupVoucher(r)
  \/ ClaimVoucher(r)
  \/ PayVoucherInvoice(r)
  \/ UnclaimVoucher(r)
  \/ CheckCancellable(r)
  \/ CancelVoucher(r)

Next ==
  \/ DeadlinePasses
  \/ RetentionPasses
  \/ LazyCleanup
  \/ PollVoucherStatus
  \/ \E r \in Redeemers : BeginRedeem(r) \/ PendingResolves(r)
  \/ \E r \in Cancellers : BeginCancel(r)
  \/ \E r \in Requests : Handle(r) \/ Crash(r)

Spec == Init /\ [][Next]_vars

\* Requests that have been accepted run to their answer, and the bearer of the
\* voucher presents it again.
Fairness ==
  /\ \A r \in Requests : WF_vars(Handle(r))
  /\ WF_vars(\E r \in Redeemers : BeginRedeem(r))

FairSpec == Spec /\ Fairness

-----------------------------------------------------------------------------
(***************************************************************************)
(* Properties.                                                             *)
(***************************************************************************)

Spent == accepted \ returned

\* The voucher's wallet pays the voucher once, whoever races for it ("Mark as
\* claimed BEFORE paying to prevent double-spend", callback.ts:107); only a
\* payment that was made and reported as failed can be followed by another.
RedeemedOnce == Cardinality(Spent) <= 1 + failures["replyLost"]

\* A voucher that is cancelled or expired has not been paid and is not going to
\* be, so that its issuer may consider the money back (cancel.ts:49-60); again
\* a lost reply is the only exception.
WithdrawnIsUnspent ==
  status \in {"CANCELLED", "EXPIRED"} =>
    /\ Spent = {} \/ Happened("replyLost")
    /\ \A r \in Requests : req[r] # "pay"

\* What leaves a voucher claimed for good though nobody was paid: the process
\* dies or a query fails after the claim, a payment accepted as pending comes
\* back, or the deadline passes while the payment is being made (unclaimVoucher
\* does not give back a voucher that has expired).
Stranded == Happened("crash") \/ Happened("dbError") \/ returned # {} \/ past

\* A claimed voucher is being paid or has been: a redemption that fails gives
\* the voucher back to its bearer (callback.ts:200).
ClaimedIsSpent ==
  status = "CLAIMED" =>
    Spent # {} \/ (\E r \in Requests : req[r] \in {"pay", "unclaim"}) \/ Stranded

\* The issuer's screen says "redeemed" from the claim on, before the payment:
\* what it says is untrue only if that payment failed or never came.
ShownIsRedeemed ==
  shown => \/ Spent # {} \/ Stranded
           \/ \E r \in Requests : req[r] = "pay"
           \/ Happened("payRejected")

\* A bearer who keeps presenting the voucher is paid, unless it is cancelled.
BearerIsPaid == <>(Spent # {} \/ status = "CANCELLED" \/ Stranded)

(***************************************************************************)
(* The voucher makes the same promise as payment_splits.                   *)
(***************************************************************************)
Holder == IF \E r \in Requests : req[r] \in {"pay", "unclaim"}
          THEN CHOOSE r \in Requests : req[r] \in {"pay", "unclaim"}
          ELSE NoOne

Phase == CASE status = "ACTIVE"                       -> "open"
           [] status = "CLAIMED" /\ Holder # NoOne    -> "taken"
           [] OTHER                                   -> "closed"

Promise == INSTANCE OncePayout WITH phase <- Phase, holder <- Holder, payouts <- accepted

\* Until a reply is lost every step of the voucher handlers is a step of
\* OncePayout or changes nothing that OncePayout sees.
ImplementsOncePayout ==
  /\ Promise!Init
  /\ [][Promise!Next \/ UNCHANGED Promise!vars \/ Happened("replyLost")']_vars
=============================================================================
