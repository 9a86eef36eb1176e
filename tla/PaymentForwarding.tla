-------------------------- MODULE PaymentForwarding --------------------------
(***************************************************************************)
(* One point-of-sale payment from the moment its invoice is stored until   *)
(* it has been forwarded: the row of payment_splits, and the HTTP requests *)
(* that race to forward it.  A request is an execution of one of the       *)
(* handlers of pages/api/blink: the Svix webhook, the four forward-*       *)
(* endpoints, pay-invoice and send-nwc-tips.                               *)
(*                                                                         *)
(* Every await that reads or writes the row, or that moves money, is a     *)
(* step of its own; the pc of a request names the await it is about to     *)
(* make.  Rows are keyed by payment hash and no statement relates two of   *)
(* them, so one row is the whole state.  Redis never decides a claim; it   *)
(* is the subject of module HybridStore.                                   *)
(***************************************************************************)
EXTENDS Naturals, FiniteSets, Functions

CONSTANTS
  Requests,     \* the HTTP requests that may be made about the payment
  Endpoints,    \* the endpoints they are sent to
  Orders,       \* what the stored row may ask for: destination and tips
  Faults,       \* what may go wrong
  MaxFailures,  \* bound on the number of faults in a behaviour
  MaxCalls,     \* bound on the calls of the client; Svix has the other requests
  NoOne         \* stands for "no request" in the refinement

AllEndpoints == {"webhook", "forward-with-tips", "forward-ln-address",
                 "forward-npubcash", "forward-nwc-defer", "forward-nwc-tips",
                 "pay-invoice", "send-nwc-tips"}

AllDestinations == {"ln_address", "npub_cash", "nwc", "nwc_no_uri",
                    "user_wallet", "none"}

\* tips: tipAmount > 0 and tipRecipients is not empty.
AllOrders == [dest: AllDestinations, tips: BOOLEAN]

\* dbError      a query throws, with or without having been applied
\* invoiceError the recipient's wallet refuses to make an invoice
\* noConfig     the BlinkPOS credentials are missing from the environment
\* payRejected  payLnInvoice fails and no money moves
\* replyLost    payLnInvoice moves the money and reports failure or PENDING
\* tipError     a tip payment fails (the error is swallowed)
\* clientError  the client's wallet fails to make the NWC invoice
\* crash        the process running a request dies
\* overlap      Svix times out and redelivers while a delivery is running
\* late         the fifteen minutes of expires_at run out
AllFaults == {"dbError", "invoiceError", "noConfig", "payRejected",
              "replyLost", "tipError", "clientError", "crash", "overlap",
              "late"}

ASSUME ForwardingAssumption ==
  /\ Endpoints \subseteq AllEndpoints
  /\ Orders \subseteq AllOrders
  /\ Faults \subseteq AllFaults
  /\ MaxFailures \in Nat
  /\ MaxCalls \in Nat
  /\ NoOne \notin Requests

VARIABLES
  order,      \* where the base amount goes and whether there are tips
  status,     \* payment_splits.status
  overdue,    \* expires_at < NOW()
  paid,       \* the customer has paid the invoice
  acked,      \* Svix has had a 200 and stops redelivering
  req,        \* the state of every request
  baseBy,     \* the requests whose base payout has settled
  tipsBy,     \* the requests that have paid tips out
  failures    \* how often each fault has happened

vars == <<order, status, overdue, paid, acked, req, baseBy, tipsBy, failures>>

Statuses == {"pending", "processing", "completed", "expired"}
Pcs      == {"idle", "claim", "check", "prepare", "pay", "tips", "complete",
             "release", "replied", "crashed"}
Replies  == {"none", "ok", "skipped", "busy", "error"}

\* "at" is the endpoint the request is executing, "holds" its claimSucceeded
\* flag (the claim it has to complete or release), "reply" what it answers.
RequestStates ==
  [at: AllEndpoints \cup {"none"}, pc: Pcs, holds: BOOLEAN, reply: Replies]

TypeOK ==
  /\ order \in Orders
  /\ status \in Statuses
  /\ overdue \in BOOLEAN
  /\ paid \in BOOLEAN
  /\ acked \in BOOLEAN
  /\ req \in [Requests -> RequestStates]
  /\ baseBy \subseteq Requests
  /\ tipsBy \subseteq Requests
  /\ failures \in [AllFaults -> Nat]

Init ==
  /\ order \in Orders
  /\ status = "pending"
  /\ overdue = FALSE
  /\ paid = FALSE
  /\ acked = FALSE
  /\ req = [r \in Requests |->
              [at |-> "none", pc |-> "idle", holds |-> FALSE, reply |-> "none"]]
  /\ baseBy = {}
  /\ tipsBy = {}
  /\ failures = [f \in AllFaults |-> 0]

-----------------------------------------------------------------------------
(***************************************************************************)
(* Steps shared by the handlers.                                           *)
(***************************************************************************)
At(r, e, p) == req[r].at = e /\ req[r].pc = p

Active(r) == req[r].pc \notin {"idle", "replied", "crashed"}

Goto(r, p) == req' = [req EXCEPT ![r].pc = p]

\* The handler returns: whatever it held it no longer looks after.
Reply(r, answer) ==
  req' = [req EXCEPT ![r] = [@ EXCEPT !.pc = "replied", !.reply = answer, !.holds = FALSE]]

\* Go and release the claim, then answer.
ReleaseAndReply(r, answer) ==
  req' = [req EXCEPT ![r] = [@ EXCEPT !.pc = "release", !.reply = answer]]

\* Mutation: the catch block answers and forgets the claim.
ThrowWithoutRelease(r) == Reply(r, "error")

\* Mutation: the failed webhook is answered 200.
ThrowAcknowledged(r) ==
  IF req[r].at = "webhook" \/ req[r].holds
  THEN ReleaseAndReply(r, "ok")
  ELSE Reply(r, "error")

\* What the handler's catch block does with an exception.
Throw(r) ==
  IF req[r].at = "webhook" \/ req[r].holds
  THEN ReleaseAndReply(r, "error")
  ELSE Reply(r, "error")

Fault(f) ==
  /\ f \in Faults
  /\ SumFunctionOnSet(failures, AllFaults) < MaxFailures
  /\ failures' = [failures EXCEPT ![f] = @ + 1]

Happened(f) == failures[f] > 0

\* The step after the base amount has been paid.
AfterBase == IF order.tips THEN "tips" ELSE "complete"

-----------------------------------------------------------------------------
(***************************************************************************)
(* The world outside the handlers: the customer, the clock, the expiry     *)
(* job, Svix, and the point-of-sale client.                                *)
(***************************************************************************)
CustomerPays ==
  /\ ~paid
  /\ paid' = TRUE
  /\ UNCHANGED <<order, status, overdue, acked, req, baseBy, tipsBy, failures>>

DeadlinePasses ==
  /\ "late" \in Faults
  /\ ~overdue
  /\ overdue' = TRUE
  /\ UNCHANGED <<order, status, paid, acked, req, baseBy, tipsBy, failures>>

\* Mutation: the sweep forgets rows that a dead request left "processing".
OnlyPendingExpires == {"pending"}

Expirable == {"pending", "processing"}

ExpireOldPayments ==
  /\ overdue
  /\ status \in Expirable
  /\ status' = "expired"
  /\ UNCHANGED <<order, overdue, paid, acked, req, baseBy, tipsBy, failures>>

Begin(r, e) == req' = [req EXCEPT ![r] = [@ EXCEPT !.at = e, !.pc = "claim"]]

\* Svix delivers the receive event, again and again until it is answered 200.
DeliverWebhook(r) ==
  /\ "webhook" \in Endpoints
  /\ paid /\ ~acked
  /\ req[r].pc = "idle"
  /\ "overlap" \in Faults \/ \A x \in Requests : req[x].at = "webhook" => ~Active(x)
  /\ Begin(r, "webhook")
  /\ UNCHANGED <<order, status, overdue, paid, acked, baseBy, tipsBy, failures>>

ClientEndpoints ==
  CASE order.dest = "user_wallet" -> {"forward-with-tips"}
    [] order.dest = "ln_address"  -> {"forward-ln-address"}
    [] order.dest = "npub_cash"   -> {"forward-npubcash"}
    [] OTHER                       -> {"forward-nwc-defer", "forward-nwc-tips"}

\* A client that has seen the payment arrive asks for it to be forwarded.
CallEndpoint(r, e) ==
  /\ e \in ClientEndpoints \cap Endpoints
  /\ paid
  /\ req[r].pc = "idle"
  /\ Cardinality({x \in Requests : req[x].at \notin {"none", "webhook"}}) < MaxCalls
  /\ Begin(r, e)
  /\ UNCHANGED <<order, status, overdue, paid, acked, baseBy, tipsBy, failures>>

\* The client of the NWC flow: with the base amount in hand it makes an
\* invoice on its own wallet and posts it to pay-invoice, or gives up.
NwcForwardBase(r) ==
  /\ At(r, "forward-nwc-defer", "replied")
  /\ req[r].reply = "ok"
  /\ \/ /\ req' = [req EXCEPT ![r] = [at |-> "pay-invoice", pc |-> "claim",
                                      holds |-> FALSE, reply |-> "none"]]
        /\ UNCHANGED failures
     \/ /\ Fault("clientError")
        /\ req' = [req EXCEPT ![r].reply = "error"]
  /\ UNCHANGED <<order, status, overdue, paid, acked, baseBy, tipsBy>>

\* ... and when pay-invoice answers 200 it posts the deferred tips.
NwcSendTips(r) ==
  /\ At(r, "pay-invoice", "replied")
  /\ req[r].reply \in {"ok", "skipped"}
  /\ order.tips
  /\ req' = [req EXCEPT ![r] = [at |-> "send-nwc-tips", pc |-> "tips",
                                holds |-> FALSE, reply |-> "none"]]
  /\ UNCHANGED <<order, status, overdue, paid, acked, baseBy, tipsBy, failures>>

-----------------------------------------------------------------------------
(***************************************************************************)
(* claimPaymentForProcessing: one guarded UPDATE, and when it changed no   *)
(* row a second query that reads why.                                      *)
(***************************************************************************)
\* Mutation: the UPDATE also takes rows another request is processing.
ClaimableProcessing == status \in {"pending", "processing"}

\* Mutation: a claim older than the deadline may be taken over.
ClaimableStale == status = "pending" \/ (status = "processing" /\ overdue)

Claimable == status = "pending"

ClaimPayment(r) ==
  /\ req[r].pc = "claim"
  /\ \/ /\ Claimable
        /\ status' = "processing"
        /\ req' = [req EXCEPT ![r] = [@ EXCEPT !.pc = "prepare", !.holds = TRUE]]
        /\ UNCHANGED failures
     \/ /\ ~Claimable
        /\ Goto(r, "check")
        /\ UNCHANGED <<status, failures>>
     \/ /\ Fault("dbError")
        /\ status' \in {status, IF Claimable THEN "processing" ELSE status}
        /\ Throw(r)
  /\ UNCHANGED <<order, overdue, paid, acked, baseBy, tipsBy>>

\* Each endpoint's answer to a refused claim.  Anything that is not
\* "completed" is reported as "already_processing".
RefusalReply(e) ==
  CASE status = "completed"                             -> "skipped"
    [] e \in {"webhook", "forward-nwc-defer",
              "forward-nwc-tips"}                       -> "skipped"
    [] OTHER                                            -> "busy"

RefuseClaim(r) ==
  /\ req[r].pc = "check"
  /\ \/ /\ Reply(r, RefusalReply(req[r].at))
        /\ acked' = (acked \/ req[r].at = "webhook")
        /\ UNCHANGED failures
     \/ /\ Fault("dbError")
        /\ Throw(r)
        /\ UNCHANGED acked
  /\ UNCHANGED <<order, status, overdue, paid, baseBy, tipsBy>>

-----------------------------------------------------------------------------
(***************************************************************************)
(* Between the claim and the payout, endpoint by endpoint.                 *)
(***************************************************************************)
\* webhook.ts: dispatch on the destination; no destination it can serve is a
\* 200 after releasing the claim.
WebhookDispatch(r) ==
  /\ At(r, "webhook", "prepare")
  /\ \/ /\ order.dest \in {"ln_address", "npub_cash", "nwc", "user_wallet"}
        /\ \/ Goto(r, "pay") /\ UNCHANGED failures
           \/ (Fault("invoiceError") \/ Fault("noConfig")) /\ Throw(r)
     \/ /\ order.dest \in {"nwc_no_uri", "none"}
        /\ ReleaseAndReply(r, "ok")
        /\ UNCHANGED failures
  /\ UNCHANGED <<order, status, overdue, paid, acked, baseBy, tipsBy>>

\* forward-with-tips.ts: the missing-configuration return keeps the claim.
WithTipsPrepare(r) ==
  /\ At(r, "forward-with-tips", "prepare")
  /\ \/ order.dest # "user_wallet" /\ ReleaseAndReply(r, "error") /\ UNCHANGED failures
     \/ /\ order.dest = "user_wallet"
        /\ \/ Goto(r, "pay") /\ UNCHANGED failures
           \/ Fault("invoiceError") /\ Throw(r)
           \/ Fault("noConfig") /\ Reply(r, "error")
  /\ UNCHANGED <<order, status, overdue, paid, acked, baseBy, tipsBy>>

\* forward-ln-address.ts: a refused invoice is a 400 that keeps the claim, a
\* failed fetch is an exception.
LnAddressPrepare(r) ==
  /\ At(r, "forward-ln-address", "prepare")
  /\ \/ Goto(r, "pay") /\ UNCHANGED failures
     \/ Fault("invoiceError") /\ (Reply(r, "error") \/ Throw(r))
     \/ Fault("dbError") /\ Throw(r)
  /\ UNCHANGED <<order, status, overdue, paid, acked, baseBy, tipsBy>>

\* forward-npubcash.ts: a failed LNURL lookup is caught and is a 400 that
\* keeps the claim.
NpubCashPrepare(r) ==
  /\ At(r, "forward-npubcash", "prepare")
  /\ \/ Goto(r, "pay") /\ UNCHANGED failures
     \/ Fault("invoiceError") /\ Reply(r, "error")
     \/ Fault("dbError") /\ Throw(r)
  /\ UNCHANGED <<order, status, overdue, paid, acked, baseBy, tipsBy>>

\* forward-nwc-with-tips.ts with deferTips: with tips the data goes back to
\* the client and the row stays "processing"; without, the row is completed.
NwcDeferPrepare(r) ==
  /\ At(r, "forward-nwc-defer", "prepare")
  /\ \/ order.tips /\ Reply(r, "ok") /\ UNCHANGED failures
     \/ ~order.tips /\ Goto(r, "complete") /\ UNCHANGED failures
     \/ Fault("noConfig") /\ ReleaseAndReply(r, "error")
  /\ UNCHANGED <<order, status, overdue, paid, acked, baseBy, tipsBy>>

\* forward-nwc-with-tips.ts without deferTips: tips first, base never here.
NwcTipsPrepare(r) ==
  /\ At(r, "forward-nwc-tips", "prepare")
  /\ \/ Goto(r, AfterBase) /\ UNCHANGED failures
     \/ Fault("noConfig") /\ ReleaseAndReply(r, "error")
  /\ UNCHANGED <<order, status, overdue, paid, acked, baseBy, tipsBy>>

\* pay-invoice.ts: the missing-configuration return keeps the claim.
PayInvoicePrepare(r) ==
  /\ At(r, "pay-invoice", "prepare")
  /\ \/ Goto(r, "pay") /\ UNCHANGED failures
     \/ Fault("noConfig") /\ Reply(r, "error")
  /\ UNCHANGED <<order, status, overdue, paid, acked, baseBy, tipsBy>>

-----------------------------------------------------------------------------
(***************************************************************************)
(* The payout, the tips, and the end of a request.                         *)
(***************************************************************************)
\* Mutation: the status of the payment result is not looked at.
PayoutUnchecked(r) == Goto(r, AfterBase)

\* A base payout that is not reported as SUCCESS: the two address endpoints
\* answer 400 on a status and throw on an error; the others throw.
PayoutFailed(r) ==
  \/ Throw(r)
  \/ /\ req[r].at \in {"forward-ln-address", "forward-npubcash"}
     /\ Reply(r, "error")

PayBase(r) ==
  /\ req[r].pc = "pay"
  /\ \/ /\ baseBy' = baseBy \cup {r}
        /\ IF req[r].at = "pay-invoice" THEN Reply(r, "ok") ELSE Goto(r, AfterBase)
        /\ UNCHANGED failures
     \/ /\ Fault("payRejected")
        /\ PayoutFailed(r)
        /\ UNCHANGED baseBy
     \/ /\ Fault("replyLost")
        /\ baseBy' = baseBy \cup {r}
        /\ PayoutFailed(r)
  /\ UNCHANGED <<order, status, overdue, paid, acked, tipsBy>>

\* sendTips: one payment per recipient, an error in any of them swallowed.
\* send-nwc-tips looks at its configuration first, and answers 500 without it.
SendTips(r) ==
  /\ req[r].pc = "tips"
  /\ \/ Goto(r, "complete") /\ tipsBy' = tipsBy \cup {r} /\ UNCHANGED failures
     \/ Goto(r, "complete") /\ Fault("tipError") /\ UNCHANGED tipsBy
     \/ /\ req[r].at = "send-nwc-tips"
        /\ Fault("noConfig") /\ Reply(r, "error") /\ UNCHANGED tipsBy
  /\ UNCHANGED <<order, status, overdue, paid, acked, baseBy>>

\* removeTipData: an UPDATE to "completed" with no condition on the status.
CompletePayment(r) ==
  /\ req[r].pc = "complete"
  /\ \/ /\ status' = "completed"
        /\ Reply(r, "ok")
        /\ acked' = (acked \/ req[r].at = "webhook")
        /\ UNCHANGED failures
     \/ /\ Fault("dbError")
        /\ status' \in {status, "completed"}
        /\ Throw(r)
        /\ UNCHANGED acked
  /\ UNCHANGED <<order, overdue, paid, baseBy, tipsBy>>

\* Mutation: the release has no condition on the status.
ReleasableAny == status \in Statuses

Releasable == status = "processing"

\* Mutation: a failed request leaves the status "failed".
ReleaseAsFailed(r) ==
  /\ req[r].pc = "release"
  /\ status' = "failed"
  /\ Reply(r, req[r].reply)
  /\ UNCHANGED <<order, overdue, paid, acked, baseBy, tipsBy, failures>>

\* releaseFailedClaim: back to "pending", whoever holds the claim, and never
\* an exception.
ReleaseFailedClaim(r) ==
  /\ req[r].pc = "release"
  /\ \/ /\ status' = IF Releasable THEN "pending" ELSE status
        /\ UNCHANGED failures
     \/ Fault("dbError") /\ UNCHANGED status
  /\ Reply(r, req[r].reply)
  /\ acked' = (acked \/ (req[r].at = "webhook" /\ req[r].reply = "ok"))
  /\ UNCHANGED <<order, overdue, paid, baseBy, tipsBy>>

Crash(r) ==
  /\ Active(r)
  /\ Fault("crash")
  /\ req' = [req EXCEPT ![r] = [@ EXCEPT !.pc = "crashed", !.holds = FALSE]]
  /\ UNCHANGED <<order, status, overdue, paid, acked, baseBy, tipsBy>>

-----------------------------------------------------------------------------
Prepare(r) ==
  \/ WebhookDispatch(r)
  \/ WithTipsPrepare(r)
  \/ LnAddressPrepare(r)
  \/ NpubCashPrepare(r)
  \/ NwcDeferPrepare(r)
  \/ NwcTipsPrepare(r)
  \/ PayInvoicePrepare(r)

Handle(r) ==
  \/ ClaimPayment(r)
  \/ RefuseClaim(r)
  \/ Prepare(r)
  \/ PayBase(r)
  \/ SendTips(r)
  \/ CompletePayment(r)
  \/ ReleaseFailedClaim(r)

Next ==
  \/ CustomerPays
  \/ DeadlinePasses
  \/ ExpireOldPayments
  \/ \E r \in Requests :
       \/ DeliverWebhook(r)
       \/ \E e \in AllEndpoints : CallEndpoint(r, e)
       \/ NwcForwardBase(r)
       \/ NwcSendTips(r)
       \/ Handle(r)
       \/ Crash(r)

Spec == Init /\ [][Next]_vars

\* A request that has been accepted runs to its answer, Svix redelivers until
\* it is answered 200, and the expiry job runs.  Nobody has to pay and no
\* client has to call.
Fairness ==
  /\ \A r \in Requests : WF_vars(Handle(r))
  /\ WF_vars(\E r \in Requests : DeliverWebhook(r))
  /\ WF_vars(ExpireOldPayments)

FairSpec == Spec /\ Fairness

-----------------------------------------------------------------------------
(***************************************************************************)
(* Properties.                                                             *)
(***************************************************************************)

\* The base amount leaves the BlinkPOS wallet at most once, whatever the
\* interleaving of webhook deliveries, client calls, crashes and the expiry
\* job ("prevents duplicate payouts", hybrid-store.ts:583).
AtMostOnePayout == \A r, s \in baseBy : r = s

\* At any moment at most one request believes it owns the payment
\* ("only ONE process can claim it", hybrid-store.ts:586).
ClaimExclusive ==
  \A r, s \in Requests : req[r].holds /\ req[s].holds => r = s

\* The inductive form of the two above, when queries and payouts report what
\* they did: a row somebody owns or that has been paid out is not "pending",
\* nobody but its owner has paid a row that is owned, a request that may still
\* pay or give back owns the row and nobody has paid, and a request past the
\* payout still owns it (send-nwc-tips owns nothing).
ClaimInvariant ==
  /\ ClaimExclusive
  /\ AtMostOnePayout
  /\ (\E r \in Requests : req[r].holds) => status # "pending"
  /\ baseBy # {} => status # "pending"
  /\ \A r \in Requests : req[r].holds => baseBy \subseteq {r}
  /\ \A r \in Requests :
       /\ req[r].pc \in {"prepare", "pay", "release"} => req[r].holds /\ baseBy = {}
       /\ req[r].pc \in {"tips", "complete"} /\ req[r].at # "send-nwc-tips"
            => req[r].holds

Called(e) == \E r \in Requests : req[r].at = e

\* Every payout after the first is accounted for: a payment that moved the
\* money and reported a failure, or a query that failed and made the webhook
\* release a claim that was not its own or had already been paid out.  No
\* other interleaving, crash or deadline pays twice.
PayoutsAccounted ==
  Cardinality(baseBy) <= 1 + failures["replyLost"] + failures["dbError"]

\* Tips never leave the wallet for a payment whose base amount has not
\* (forward-ln-address.ts "TIPS SECOND"); only forward-nwc-with-tips without
\* deferTips does it the other way round.
TipsFollowBase == tipsBy # {} => baseBy # {} \/ Called("forward-nwc-tips")

\* The answers after which the claim is left to nobody: a 400 of the two
\* address endpoints, missing credentials at the two endpoints that check them
\* after the claim, and the NWC flow, which hands the payment to its client
\* and then meets its own claim at pay-invoice.
LeavesClaim(r) ==
  CASE req[r].at \in {"forward-ln-address", "forward-npubcash"} -> req[r].reply = "error"
    [] req[r].at = "forward-with-tips"                          -> Happened("noConfig")
    [] req[r].at = "forward-nwc-defer"             -> order.tips /\ req[r].reply # "none"
    [] OTHER                               -> req[r].at \in {"pay-invoice", "send-nwc-tips"}

\* A claim belongs to a running request, which gives it back when it fails
\* (forward-ln-address.ts:556, pay-invoice.ts:171), or was left by one of the
\* answers above, by a crash or by a query that failed.
NoAbandonedClaim ==
  status = "processing" =>
    \/ \E r \in Requests : req[r].holds \/ LeavesClaim(r)
    \/ Happened("crash") \/ Happened("dbError")

\* A row reported as completed has been forwarded to the merchant.
CompletedIsForwarded == status = "completed" => baseBy # {}

\* ... and is, except in the NWC flows that complete the row on their own: the
\* deferred one without tips, and the one that sends the tips first.
CompletedIsForwardedUnlessNwc ==
  \/ CompletedIsForwarded
  \/ Called("forward-nwc-tips")
  \/ ~order.tips /\ (Called("forward-nwc-defer") \/ Called("pay-invoice"))

\* Whatever races, faults and late answers there are, a completed row stays
\* completed and an expired row can only be completed by the request that
\* already held it.
TerminalStatus ==
  [][/\ status = "completed" => status' = "completed"
     /\ status = "expired" => status' \in {"expired", "completed"}]_vars

\* Svix has been answered 200 for a payment another request had claimed.
ToldToStop ==
  \E r \in Requests : At(r, "webhook", "replied") /\ req[r].reply = "skipped"

\* A payment the customer has made reaches the merchant ("Release the claim so
\* it can be retried", webhook.ts:476; "reliable payment forwarding regardless
\* of client connection state", create-invoice.ts:205).  Exactly three things
\* stop it: an order the webhook cannot serve, the deadline, and a delivery
\* answered 200 because of a claim that was then given up.
PaidIsForwarded ==
  paid ~> \/ baseBy # {} \/ overdue \/ ToldToStop
          \/ order.dest \in {"nwc_no_uri", "none"}

\* No claim outlives the deadline: crashes, lost claims and abandoned claims
\* are all swept into a terminal status.
ClaimsAreSwept == overdue ~> status \in {"completed", "expired"}

(***************************************************************************)
(* The claim protocol implements OncePayout: the status column is the      *)
(* phase, and the holder is the request whose claimSucceeded is set.       *)
(***************************************************************************)
Holder == IF \E r \in Requests : req[r].holds
          THEN CHOOSE r \in Requests : req[r].holds
          ELSE NoOne

Phase == CASE status = "pending"    -> "open"
           [] status = "processing" -> "taken"
           [] OTHER                 -> "closed"

Promise == INSTANCE OncePayout WITH phase <- Phase, holder <- Holder, payouts <- baseBy

\* Every step of the handlers is a step of OncePayout or changes nothing that
\* OncePayout sees.
ImplementsOncePayout == Promise!Spec
=============================================================================
