----------------------- MODULE PaymentForwarding_proofs -----------------------
(***************************************************************************)
(* Theorems about PaymentForwarding for any number of requests, any subset *)
(* of the endpoints, any orders and any number of faults.                  *)
(***************************************************************************)
EXTENDS PaymentForwarding, FiniteSetTheorems, TLAPS

ReqTyped == req \in [Requests -> RequestStates]

\* Each way a handler updates its own record keeps the record in its type.
LEMMA GotoTyped ==
  ASSUME ReqTyped, NEW r \in Requests, NEW p \in Pcs, Goto(r, p)
  PROVE  ReqTyped'
BY DEF ReqTyped, RequestStates, Goto

LEMMA ReplyTyped ==
  ASSUME ReqTyped, NEW r \in Requests, NEW answer \in Replies, Reply(r, answer)
  PROVE  ReqTyped'
BY DEF ReqTyped, RequestStates, Reply, Pcs

LEMMA ReleaseTyped ==
  ASSUME ReqTyped, NEW r \in Requests, NEW answer \in Replies, ReleaseAndReply(r, answer)
  PROVE  ReqTyped'
BY DEF ReqTyped, RequestStates, ReleaseAndReply, Pcs

LEMMA ThrowTyped ==
  ASSUME ReqTyped, NEW r \in Requests, Throw(r)
  PROVE  ReqTyped'
<1>1. "error" \in Replies
  BY DEF Replies
<1> QED
  BY <1>1, ReplyTyped, ReleaseTyped DEF Throw

LEMMA FaultTyped ==
  ASSUME failures \in [AllFaults -> Nat], NEW f, Fault(f)
  PROVE  failures' \in [AllFaults -> Nat]
BY ForwardingAssumption DEF Fault

LEMMA StartTyped ==
  ASSUME ReqTyped, NEW r \in Requests, NEW e \in AllEndpoints, Begin(r, e)
  PROVE  ReqTyped'
BY DEF ReqTyped, RequestStates, Begin, Pcs

\* Every value the handlers write to the row, to a request or to the counters
\* stays in its type, under every fault.
THEOREM TypeCorrect == Spec => []TypeOK
<1> USE DEF ReqTyped
<1>1. Init => TypeOK
  <2> SUFFICES ASSUME Init PROVE TypeOK
    OBVIOUS
  <2>1. [at |-> "none", pc |-> "idle", holds |-> FALSE, reply |-> "none"] \in RequestStates
    BY DEF RequestStates, Pcs, Replies
  <2>2. req \in [Requests -> RequestStates]
    <3> DEFINE idle == [at |-> "none", pc |-> "idle", holds |-> FALSE, reply |-> "none"]
    <3>1. req = [r \in Requests |-> idle]
      BY DEF Init
    <3>2. idle \in RequestStates
      BY <2>1
    <3> HIDE DEF idle
    <3> QED
      BY <3>1, <3>2
  <2>3. /\ order \in Orders /\ status \in Statuses /\ overdue \in BOOLEAN
        /\ paid \in BOOLEAN /\ acked \in BOOLEAN
        /\ baseBy = {} /\ tipsBy = {} /\ failures \in [AllFaults -> Nat]
    BY DEF Init, Statuses
  <2> QED
    BY <2>2, <2>3 DEF TypeOK
<1>2. TypeOK /\ [Next]_vars => TypeOK'
  <2> SUFFICES ASSUME TypeOK, [Next]_vars PROVE TypeOK'
    OBVIOUS
  <2> USE ForwardingAssumption
  <2>1. CASE CustomerPays
    BY <2>1 DEF CustomerPays, TypeOK
  <2>2. CASE DeadlinePasses
    BY <2>2 DEF DeadlinePasses, TypeOK
  <2>3. CASE ExpireOldPayments
    BY <2>3 DEF ExpireOldPayments, TypeOK, Statuses
  <2>4. ASSUME NEW r \in Requests, DeliverWebhook(r) PROVE TypeOK'
    <3>1. ReqTyped'
      BY <2>4, StartTyped DEF DeliverWebhook, TypeOK, AllEndpoints
    <3> QED
      BY <2>4, <3>1 DEF DeliverWebhook, TypeOK
  <2>5. ASSUME NEW r \in Requests, NEW e \in AllEndpoints, CallEndpoint(r, e) PROVE TypeOK'
    <3>1. ReqTyped'
      BY <2>5, StartTyped DEF CallEndpoint, TypeOK
    <3> QED
      BY <2>5, <3>1 DEF CallEndpoint, TypeOK
  <2>6. ASSUME NEW r \in Requests, NwcForwardBase(r) PROVE TypeOK'
    <3>1. /\ [at |-> "pay-invoice", pc |-> "claim", holds |-> FALSE, reply |-> "none"]
               \in RequestStates
          /\ "error" \in Replies
      BY DEF RequestStates, Pcs, Replies, AllEndpoints
    <3>2. CASE Fault("clientError") /\ req' = [req EXCEPT ![r].reply = "error"]
      <4>1. ReqTyped'
        BY <3>1, <3>2 DEF TypeOK, RequestStates
      <4> QED
        BY <2>6, <3>2, <4>1, FaultTyped DEF NwcForwardBase, TypeOK
    <3>3. CASE /\ req' = [req EXCEPT ![r] = [at |-> "pay-invoice", pc |-> "claim",
                                             holds |-> FALSE, reply |-> "none"]]
               /\ UNCHANGED failures
      <4>1. ReqTyped'
        BY <3>1, <3>3 DEF TypeOK
      <4> QED
        BY <2>6, <3>3, <4>1 DEF NwcForwardBase, TypeOK
    <3> QED
      BY <2>6, <3>2, <3>3 DEF NwcForwardBase
  <2>7. ASSUME NEW r \in Requests, NwcSendTips(r) PROVE TypeOK'
    BY <2>7 DEF NwcSendTips, TypeOK, RequestStates, Pcs, Replies, AllEndpoints
  <2>8. ASSUME NEW r \in Requests, ClaimPayment(r) PROVE TypeOK'
    <3>1. CASE /\ req' = [req EXCEPT ![r] = [@ EXCEPT !.pc = "prepare", !.holds = TRUE]]
               /\ UNCHANGED failures
      BY <2>8, <3>1 DEF ClaimPayment, TypeOK, RequestStates, Statuses, Pcs
    <3>2. CASE Goto(r, "check") /\ UNCHANGED failures
      BY <2>8, <3>2, GotoTyped DEF ClaimPayment, TypeOK, Statuses, Pcs
    <3>3. CASE Fault("dbError") /\ Throw(r)
      BY <2>8, <3>3, ThrowTyped, FaultTyped DEF ClaimPayment, TypeOK, Statuses
    <3> QED
      BY <2>8, <3>1, <3>2, <3>3 DEF ClaimPayment
  <2>9. ASSUME NEW r \in Requests, RefuseClaim(r) PROVE TypeOK'
    <3>1. RefusalReply(req[r].at) \in Replies
      BY DEF RefusalReply, Replies
    <3>2. ReqTyped' /\ failures' \in [AllFaults -> Nat]
      BY <2>9, <3>1, ReplyTyped, ThrowTyped, FaultTyped DEF RefuseClaim, TypeOK
    <3> QED
      BY <2>9, <3>2 DEF RefuseClaim, TypeOK
  <2>10. ASSUME NEW r \in Requests, Prepare(r) PROVE TypeOK'
    <3>1. /\ {"pay", "tips", "complete"} \subseteq Pcs
          /\ {"ok", "error"} \subseteq Replies
          /\ AfterBase \in Pcs
      BY DEF Pcs, Replies, AfterBase
    <3>2. ReqTyped' /\ failures' \in [AllFaults -> Nat]
      BY <2>10, <3>1, GotoTyped, ReplyTyped, ReleaseTyped, ThrowTyped, FaultTyped
         DEF Prepare, WebhookDispatch, WithTipsPrepare, LnAddressPrepare, NpubCashPrepare,
             NwcDeferPrepare, NwcTipsPrepare, PayInvoicePrepare, TypeOK
    <3>3. UNCHANGED <<order, status, overdue, paid, acked, baseBy, tipsBy>>
      BY <2>10 DEF Prepare, WebhookDispatch, WithTipsPrepare, LnAddressPrepare,
             NpubCashPrepare, NwcDeferPrepare, NwcTipsPrepare, PayInvoicePrepare
    <3> QED
      BY <3>2, <3>3 DEF TypeOK
  <2>11. ASSUME NEW r \in Requests, PayBase(r) PROVE TypeOK'
    <3>1. AfterBase \in Pcs /\ {"ok", "error"} \subseteq Replies
      BY DEF Pcs, Replies, AfterBase
    <3>2. ReqTyped' /\ failures' \in [AllFaults -> Nat]
      BY <2>11, <3>1, GotoTyped, ReplyTyped, ThrowTyped, FaultTyped
         DEF PayBase, PayoutFailed, TypeOK
    <3> QED
      BY <2>11, <3>2 DEF PayBase, TypeOK
  <2>12. ASSUME NEW r \in Requests, SendTips(r) PROVE TypeOK'
    <3>1. ReqTyped' /\ failures' \in [AllFaults -> Nat]
      <4>1. "complete" \in Pcs /\ "error" \in Replies
        BY DEF Pcs, Replies
      <4> QED
        BY <2>12, <4>1, GotoTyped, ReplyTyped, FaultTyped DEF SendTips, TypeOK
    <3> QED
      BY <2>12, <3>1 DEF SendTips, TypeOK
  <2>13. ASSUME NEW r \in Requests, CompletePayment(r) PROVE TypeOK'
    <3>1. ReqTyped' /\ failures' \in [AllFaults -> Nat]
      BY <2>13, ReplyTyped, ThrowTyped, FaultTyped DEF CompletePayment, TypeOK, Replies
    <3> QED
      BY <2>13, <3>1 DEF CompletePayment, TypeOK, Statuses
  <2>14. ASSUME NEW r \in Requests, ReleaseFailedClaim(r) PROVE TypeOK'
    <3>1. req[r].reply \in Replies
      BY DEF TypeOK, RequestStates
    <3>2. ReqTyped' /\ failures' \in [AllFaults -> Nat]
      BY <2>14, <3>1, ReplyTyped, FaultTyped DEF ReleaseFailedClaim, TypeOK
    <3> QED
      BY <2>14, <3>2 DEF ReleaseFailedClaim, TypeOK, Statuses
  <2>15. ASSUME NEW r \in Requests, Crash(r) PROVE TypeOK'
    BY <2>15, FaultTyped DEF Crash, TypeOK, RequestStates, Pcs
  <2>16. CASE UNCHANGED vars
    BY <2>16 DEF vars, TypeOK
  <2> QED
    BY <2>1, <2>2, <2>3, <2>4, <2>5, <2>6, <2>7, <2>8, <2>9, <2>10, <2>11, <2>12,
       <2>13, <2>14, <2>15, <2>16 DEF Next, Handle
<1> QED
  BY <1>1, <1>2, PTL DEF Spec

-----------------------------------------------------------------------------
(***************************************************************************)
(* The status column, under every fault.                                   *)
(***************************************************************************)

\* No interleaving, crash or failed query brings a completed row back, and an
\* expired row can only become completed.
THEOREM StatusIsTerminal == Spec => TerminalStatus
<1> DEFINE Kept == /\ status = "completed" => status' = "completed"
                   /\ status = "expired" => status' \in {"expired", "completed"}
<1>1. ASSUME [Next]_vars PROVE [Kept]_vars
  <2>1. CASE CustomerPays \/ DeadlinePasses
    BY <2>1 DEF CustomerPays, DeadlinePasses
  <2>2. CASE ExpireOldPayments
    BY <2>2 DEF ExpireOldPayments, Expirable
  <2>3. ASSUME NEW r \in Requests,
               \/ DeliverWebhook(r) \/ NwcForwardBase(r) \/ NwcSendTips(r) \/ Crash(r)
               \/ \E e \in AllEndpoints : CallEndpoint(r, e)
        PROVE  Kept
    BY <2>3 DEF DeliverWebhook, NwcForwardBase, NwcSendTips, Crash, CallEndpoint
  <2>4. ASSUME NEW r \in Requests, ClaimPayment(r) PROVE Kept
    BY <2>4 DEF ClaimPayment, Claimable
  <2>5. ASSUME NEW r \in Requests, Prepare(r) \/ RefuseClaim(r) \/ PayBase(r) \/ SendTips(r)
        PROVE  Kept
    <3>1. UNCHANGED status
      BY <2>5 DEF Prepare, WebhookDispatch, WithTipsPrepare, LnAddressPrepare,
                  NpubCashPrepare, NwcDeferPrepare, NwcTipsPrepare, PayInvoicePrepare,
                  RefuseClaim, PayBase, SendTips
    <3> QED
      BY <3>1
  <2>6. ASSUME NEW r \in Requests, CompletePayment(r) PROVE Kept
    BY <2>6 DEF CompletePayment
  <2>7. ASSUME NEW r \in Requests, ReleaseFailedClaim(r) PROVE Kept
    BY <2>7 DEF ReleaseFailedClaim, Releasable
  <2> QED
    BY <1>1, <2>1, <2>2, <2>3, <2>4, <2>5, <2>6, <2>7 DEF Next, Handle
<1> QED
  BY <1>1, PTL DEF Spec, TerminalStatus

-----------------------------------------------------------------------------
(***************************************************************************)
(* The claim.  A query that throws after it has been applied, and a payout *)
(* that settles and reports a failure, are excluded: with either the code  *)
(* does pay twice (PayoutsAccounted counts both).                          *)
(***************************************************************************)
HonestReports == Faults \cap {"dbError", "replyLost"} = {}

LEMMA NoMisreport ==
  ASSUME HonestReports
  PROVE  ~Fault("dbError") /\ ~Fault("replyLost")
BY DEF HonestReports, Fault

\* What ClaimInvariant says of one request.
Entitled(r) ==
  /\ req[r].pc \in {"prepare", "pay", "release"} => req[r].holds /\ baseBy = {}
  /\ req[r].pc \in {"tips", "complete"} /\ req[r].at # "send-nwc-tips" => req[r].holds

\* A step of r that gives r no claim, moves nothing, and leaves the status
\* alone keeps the invariant if what it says of r itself is kept.
LEMMA QuietStep ==
  ASSUME ReqTyped, ClaimInvariant, NEW r \in Requests,
         NEW new, req' = [req EXCEPT ![r] = new],
         new.holds => req[r].holds,
         UNCHANGED <<status, baseBy>>,
         Entitled(r)'
  PROVE  ClaimInvariant'
<1>1. \A x \in Requests : x # r => req'[x] = req[x]
  BY DEF ReqTyped
<1>2. req'[r] = new
  BY DEF ReqTyped
<1>3. \A x \in Requests : req'[x].holds => req[x].holds
  BY <1>1, <1>2
<1>4. \A x \in Requests : Entitled(x)'
  BY <1>1 DEF ClaimInvariant, Entitled
<1> QED
  BY <1>3, <1>4 DEF ClaimInvariant, ClaimExclusive, AtMostOnePayout, Entitled

LEMMA QuietReply ==
  ASSUME ReqTyped, ClaimInvariant, NEW r \in Requests, NEW answer \in Replies,
         Reply(r, answer), UNCHANGED <<status, baseBy>>
  PROVE  ClaimInvariant'
<1> DEFINE new == [req[r] EXCEPT !.pc = "replied", !.reply = answer, !.holds = FALSE]
<1>1. req' = [req EXCEPT ![r] = new] /\ req'[r] = new
  BY DEF Reply, ReqTyped
<1>2. new.holds = FALSE /\ new.pc = "replied"
  BY DEF ReqTyped, RequestStates
<1> QED
  BY <1>1, <1>2, QuietStep DEF Entitled

LEMMA QuietRelease ==
  ASSUME ReqTyped, ClaimInvariant, NEW r \in Requests, NEW answer \in Replies,
         ReleaseAndReply(r, answer), UNCHANGED <<status, baseBy>>,
         req[r].holds, baseBy = {}
  PROVE  ClaimInvariant'
<1> DEFINE new == [req[r] EXCEPT !.pc = "release", !.reply = answer]
<1>1. req' = [req EXCEPT ![r] = new] /\ req'[r] = new
  BY DEF ReleaseAndReply, ReqTyped
<1>2. new.holds = req[r].holds /\ new.pc = "release"
  BY DEF ReqTyped, RequestStates
<1> QED
  BY <1>1, <1>2, QuietStep DEF Entitled

\* A request that owns an unpaid row may move on to any step of the handler.
LEMMA QuietGoto ==
  ASSUME ReqTyped, ClaimInvariant, NEW r \in Requests, NEW p, Goto(r, p),
         UNCHANGED <<status, baseBy>>,
         \/ req[r].holds /\ baseBy = {}
         \/ p \in {"check", "complete"} /\ req[r].at = "send-nwc-tips"
         \/ p = "check"
         \/ p = "complete" /\ req[r].holds
  PROVE  ClaimInvariant'
<1> DEFINE new == [req[r] EXCEPT !.pc = p]
<1>1. req' = [req EXCEPT ![r] = new] /\ req'[r] = new
  BY DEF Goto, ReqTyped
<1>2. new.holds = req[r].holds /\ new.pc = p /\ new.at = req[r].at
  BY DEF ReqTyped, RequestStates
<1> QED
  BY <1>1, <1>2, QuietStep DEF Entitled

LEMMA QuietThrow ==
  ASSUME ReqTyped, ClaimInvariant, NEW r \in Requests, Throw(r),
         UNCHANGED <<status, baseBy>>, req[r].holds, baseBy = {}
  PROVE  ClaimInvariant'
<1>1. "error" \in Replies
  BY DEF Replies
<1> QED
  BY <1>1, QuietReply, QuietRelease DEF Throw

\* Exclusive claims, at most one payout and what they rest on hold for any
\* number of concurrent requests at any of the endpoints.
THEOREM ClaimIsSafe ==
  ASSUME HonestReports
  PROVE  Spec => []ClaimInvariant
<1>1. Init => ClaimInvariant
  BY DEF Init, ClaimInvariant, ClaimExclusive, AtMostOnePayout
<1>2. TypeOK /\ ClaimInvariant /\ [Next]_vars => ClaimInvariant'
  <2> SUFFICES ASSUME TypeOK, ClaimInvariant, [Next]_vars PROVE ClaimInvariant'
    OBVIOUS
  <2>0. ReqTyped /\ ~Fault("dbError") /\ ~Fault("replyLost")
    BY NoMisreport DEF TypeOK, ReqTyped
  <2>a. \A r \in Requests : Entitled(r)
    BY DEF ClaimInvariant, Entitled
  <2>b. {"ok", "error", "busy", "skipped"} \subseteq Replies
    BY DEF Replies
  <2>1. CASE CustomerPays \/ DeadlinePasses
    BY <2>1 DEF CustomerPays, DeadlinePasses, ClaimInvariant, ClaimExclusive, AtMostOnePayout
  <2>2. CASE ExpireOldPayments
    BY <2>2 DEF ExpireOldPayments, ClaimInvariant, ClaimExclusive, AtMostOnePayout
  <2>3. ASSUME NEW r \in Requests, NEW e \in AllEndpoints, Begin(r, e), UNCHANGED <<status, baseBy>>
        PROVE  ClaimInvariant'
    <3> DEFINE new == [req[r] EXCEPT !.at = e, !.pc = "claim"]
    <3>1. req' = [req EXCEPT ![r] = new] /\ req'[r] = new
      BY <2>0, <2>3 DEF Begin, ReqTyped
    <3>2. new.holds = req[r].holds /\ new.pc = "claim"
      BY <2>0 DEF ReqTyped, RequestStates
    <3> QED
      BY <2>0, <2>3, <3>1, <3>2, QuietStep DEF Entitled
  <2>4. ASSUME NEW r \in Requests, DeliverWebhook(r) PROVE ClaimInvariant'
    BY <2>3, <2>4 DEF DeliverWebhook, AllEndpoints
  <2>5. ASSUME NEW r \in Requests, NEW e \in AllEndpoints, CallEndpoint(r, e)
        PROVE  ClaimInvariant'
    BY <2>3, <2>5 DEF CallEndpoint
  <2>6. ASSUME NEW r \in Requests, NwcForwardBase(r) PROVE ClaimInvariant'
    <3>1. CASE req' = [req EXCEPT ![r] = [at |-> "pay-invoice", pc |-> "claim",
                                          holds |-> FALSE, reply |-> "none"]]
      <4> DEFINE new == [at |-> "pay-invoice", pc |-> "claim", holds |-> FALSE, reply |-> "none"]
      <4>1. req' = [req EXCEPT ![r] = new] /\ req'[r] = new
        BY <2>0, <3>1 DEF ReqTyped
      <4>2. new.holds = FALSE /\ new.pc = "claim"
        OBVIOUS
      <4> HIDE DEF new
      <4> QED
        BY <2>0, <2>6, <4>1, <4>2, QuietStep DEF NwcForwardBase, Entitled
    <3>2. CASE req' = [req EXCEPT ![r].reply = "error"]
      <4> DEFINE new == [req[r] EXCEPT !.reply = "error"]
      <4>1. req' = [req EXCEPT ![r] = new] /\ req'[r] = new
        BY <2>0, <3>2 DEF ReqTyped
      <4>2. new.holds = req[r].holds /\ new.pc = "replied"
        BY <2>0, <2>6 DEF ReqTyped, RequestStates, NwcForwardBase, At
      <4> QED
        BY <2>0, <2>6, <4>1, <4>2, QuietStep DEF NwcForwardBase, Entitled
    <3> QED
      BY <2>6, <3>1, <3>2 DEF NwcForwardBase
  <2>7. ASSUME NEW r \in Requests, NwcSendTips(r) PROVE ClaimInvariant'
    <3> DEFINE new == [at |-> "send-nwc-tips", pc |-> "tips", holds |-> FALSE, reply |-> "none"]
    <3>1. req' = [req EXCEPT ![r] = new] /\ req'[r] = new
      BY <2>0, <2>7 DEF ReqTyped, NwcSendTips
    <3>2. new.holds = FALSE /\ new.pc = "tips" /\ new.at = "send-nwc-tips"
      OBVIOUS
    <3> HIDE DEF new
    <3> QED
      BY <2>0, <2>7, <3>1, <3>2, QuietStep DEF NwcSendTips, Entitled
  <2>8. ASSUME NEW r \in Requests, ClaimPayment(r) PROVE ClaimInvariant'
    <3>1. CASE Claimable /\ status' = "processing"
               /\ req' = [req EXCEPT ![r] = [@ EXCEPT !.pc = "prepare", !.holds = TRUE]]
      <4> DEFINE new == [req[r] EXCEPT !.pc = "prepare", !.holds = TRUE]
      <4>1. req'[r] = new /\ \A x \in Requests : x # r => req'[x] = req[x]
        BY <2>0, <3>1 DEF ReqTyped
      <4>2. new.pc = "prepare" /\ new.holds
        BY <2>0 DEF ReqTyped, RequestStates
      <4>3. baseBy' = {} /\ \A x \in Requests : ~req[x].holds
        BY <2>8, <3>1 DEF ClaimPayment, Claimable, ClaimInvariant
      <4>4. \A x \in Requests : x # r => Entitled(x)'
        BY <2>a, <4>1, <4>3 DEF Entitled
      <4> QED
        BY <3>1, <4>1, <4>2, <4>3, <4>4
           DEF ClaimInvariant, ClaimExclusive, AtMostOnePayout, Entitled
    <3>2. CASE ~Claimable /\ Goto(r, "check") /\ UNCHANGED status
      BY <2>0, <2>8, <3>2, QuietGoto DEF ClaimPayment
    <3> QED
      BY <2>0, <2>8, <3>1, <3>2 DEF ClaimPayment
  <2>9. ASSUME NEW r \in Requests, RefuseClaim(r) PROVE ClaimInvariant'
    <3>1. RefusalReply(req[r].at) \in Replies
      BY DEF RefusalReply, Replies
    <3> QED
      BY <2>0, <2>9, <3>1, QuietReply DEF RefuseClaim
  <2>10. ASSUME NEW r \in Requests, Prepare(r) PROVE ClaimInvariant'
    <3>1. /\ req[r].pc = "prepare"
          /\ UNCHANGED <<status, baseBy>>
          /\ \/ \E p \in {"pay", "tips", "complete"} : Goto(r, p)
             \/ \E a \in {"ok", "error"} : Reply(r, a) \/ ReleaseAndReply(r, a)
             \/ Throw(r)
      BY <2>10 DEF Prepare, WebhookDispatch, WithTipsPrepare, LnAddressPrepare,
             NpubCashPrepare, NwcDeferPrepare, NwcTipsPrepare, PayInvoicePrepare,
             At, AfterBase
    <3>2. req[r].holds /\ baseBy = {}
      BY <2>a, <3>1 DEF Entitled
    <3> QED
      BY <2>0, <2>b, <3>1, <3>2, QuietGoto, QuietReply, QuietRelease, QuietThrow
  <2>11. ASSUME NEW r \in Requests, PayBase(r) PROVE ClaimInvariant'
    <3>1. req[r].holds /\ baseBy = {} /\ UNCHANGED status
      BY <2>11, <2>a DEF PayBase, Entitled
    <3>2. CASE baseBy' = baseBy \cup {r}
               /\ IF req[r].at = "pay-invoice" THEN Reply(r, "ok") ELSE Goto(r, AfterBase)
      <4>1. /\ req'[r].pc \in {"replied", "tips", "complete"}
            /\ req'[r].pc # "replied" => req'[r].holds
            /\ \A x \in Requests : x # r => req'[x] = req[x]
        <5>1. CASE Reply(r, "ok")
          BY <2>0, <5>1 DEF ReqTyped, RequestStates, Reply
        <5>2. CASE Goto(r, AfterBase)
          BY <2>0, <3>1, <5>2 DEF ReqTyped, RequestStates, Goto, AfterBase
        <5> QED
          BY <3>2, <5>1, <5>2
      <4>2. \A x \in Requests : x # r => ~req[x].holds
        BY <3>1 DEF ClaimInvariant, ClaimExclusive
      <4>3. \A x \in Requests : Entitled(x)'
        BY <2>a, <4>1, <4>2 DEF Entitled
      <4>4. baseBy' = {r} /\ status' # "pending"
        BY <3>1, <3>2 DEF ClaimInvariant
      <4> QED
        BY <4>1, <4>2, <4>3, <4>4 DEF ClaimInvariant, ClaimExclusive, AtMostOnePayout, Entitled
    <3>3. CASE PayoutFailed(r) /\ UNCHANGED baseBy
      BY <2>0, <2>b, <3>1, <3>3, QuietThrow, QuietReply DEF PayoutFailed
    <3> QED
      BY <2>0, <2>11, <3>2, <3>3 DEF PayBase
  <2>12. ASSUME NEW r \in Requests, SendTips(r) PROVE ClaimInvariant'
    <3>1. req[r].holds \/ req[r].at = "send-nwc-tips"
      BY <2>12, <2>a DEF SendTips, Entitled
    <3>2. UNCHANGED <<status, baseBy>>
      BY <2>12 DEF SendTips
    <3>3. CASE Goto(r, "complete")
      BY <2>0, <3>1, <3>2, <3>3, QuietGoto
    <3>4. CASE Reply(r, "error")
      <4>1. "error" \in Replies
        BY DEF Replies
      <4> QED
        BY <2>0, <3>2, <3>4, <4>1, QuietReply
    <3> QED
      BY <2>12, <3>3, <3>4 DEF SendTips
  <2>13. ASSUME NEW r \in Requests, CompletePayment(r) PROVE ClaimInvariant'
    <3>1. status' = "completed" /\ Reply(r, "ok") /\ UNCHANGED baseBy
      BY <2>0, <2>13 DEF CompletePayment
    <3>2. /\ req'[r].pc = "replied" /\ ~req'[r].holds
          /\ \A x \in Requests : x # r => req'[x] = req[x]
      BY <2>0, <3>1 DEF ReqTyped, RequestStates, Reply
    <3>3. \A x \in Requests : Entitled(x)'
      BY <2>a, <3>1, <3>2 DEF Entitled
    <3> QED
      BY <3>1, <3>2, <3>3 DEF ClaimInvariant, ClaimExclusive, AtMostOnePayout, Entitled
  <2>14. ASSUME NEW r \in Requests, ReleaseFailedClaim(r) PROVE ClaimInvariant'
    <3>1. req[r].holds /\ baseBy = {}
      BY <2>14, <2>a DEF ReleaseFailedClaim, Entitled
    <3>2. baseBy' = {} /\ Reply(r, req[r].reply)
      BY <2>14, <3>1 DEF ReleaseFailedClaim
    <3>3. /\ req'[r].pc = "replied" /\ ~req'[r].holds
          /\ \A x \in Requests : x # r => req'[x] = req[x]
      BY <2>0, <3>2 DEF ReqTyped, RequestStates, Reply
    <3>4. \A x \in Requests : ~req'[x].holds
      BY <3>1, <3>3 DEF ClaimInvariant, ClaimExclusive
    <3>5. \A x \in Requests : Entitled(x)'
      BY <2>a, <3>1, <3>2, <3>3 DEF Entitled
    <3> QED
      BY <3>2, <3>4, <3>5 DEF ClaimInvariant, ClaimExclusive, AtMostOnePayout, Entitled
  <2>15. ASSUME NEW r \in Requests, Crash(r) PROVE ClaimInvariant'
    <3> DEFINE new == [req[r] EXCEPT !.pc = "crashed", !.holds = FALSE]
    <3>1. req' = [req EXCEPT ![r] = new] /\ req'[r] = new
      BY <2>0, <2>15 DEF Crash, ReqTyped
    <3>2. new.holds = FALSE /\ new.pc = "crashed"
      BY <2>0 DEF ReqTyped, RequestStates
    <3> QED
      BY <2>0, <2>15, <3>1, <3>2, QuietStep DEF Crash, Entitled
  <2>16. CASE UNCHANGED vars
    BY <2>16 DEF vars, ClaimInvariant, ClaimExclusive, AtMostOnePayout
  <2> QED
    BY <2>1, <2>2, <2>4, <2>5, <2>6, <2>7, <2>8, <2>9, <2>10, <2>11, <2>12,
       <2>13, <2>14, <2>15, <2>16 DEF Next, Handle
<1> QED
  BY <1>1, <1>2, TypeCorrect, PTL DEF Spec

\* The base amount is paid out at most once.
THEOREM PaidOutOnce ==
  ASSUME HonestReports
  PROVE  Spec => []AtMostOnePayout
<1>1. ClaimInvariant => AtMostOnePayout
  BY DEF ClaimInvariant
<1> QED
  BY <1>1, ClaimIsSafe, PTL

\* No two requests own the payment.
THEOREM ClaimsExclude ==
  ASSUME HonestReports
  PROVE  Spec => []ClaimExclusive
<1>1. ClaimInvariant => ClaimExclusive
  BY DEF ClaimInvariant
<1> QED
  BY <1>1, ClaimIsSafe, PTL

-----------------------------------------------------------------------------
(***************************************************************************)
(* The handlers implement OncePayout.                                      *)
(***************************************************************************)
LEMMA HolderUnique ==
  ASSUME ClaimExclusive, NEW r \in Requests, req[r].holds
  PROVE  Holder = r
BY DEF ClaimExclusive, Holder

LEMMA HolderNone ==
  ASSUME \A r \in Requests : ~req[r].holds
  PROVE  Holder = NoOne
BY DEF Holder

\* A step of r that takes no claim, pays nothing and leaves the status alone is
\* invisible, or r abandons the payment.
LEMMA QuietKeepsPromise ==
  ASSUME ReqTyped, ReqTyped', ClaimExclusive, NEW r \in Requests,
         \A x \in Requests : x # r => req'[x] = req[x],
         req'[r].holds => req[r].holds,
         UNCHANGED <<status, baseBy>>
  PROVE  [Promise!Next]_(Promise!vars)
<1>1. ClaimExclusive'
  BY DEF ClaimExclusive
<1>2. Phase' = Phase
  BY DEF Phase
<1>3. CASE \A x \in Requests : req'[x].holds = req[x].holds
  <2>1. Holder' = Holder
    <3>1. CASE \E x \in Requests : req[x].holds
      <4>1. PICK x \in Requests : req[x].holds
        BY <3>1
      <4>2. Holder = x
        BY <4>1, HolderUnique
      <4>3. Holder' = x
        BY <1>1, <1>3, <4>1 DEF ClaimExclusive, Holder
      <4> QED
        BY <4>2, <4>3
    <3>2. CASE \A x \in Requests : ~req[x].holds
      <4>1. Holder = NoOne
        BY <3>2, HolderNone
      <4>2. Holder' = NoOne
        BY <1>3, <3>2 DEF Holder
      <4> QED
        BY <4>1, <4>2
    <3> QED
      BY <3>1, <3>2
  <2> QED
    BY <1>2, <2>1 DEF Promise!vars
<1>4. CASE req[r].holds /\ ~req'[r].holds
  <2>1. Holder = r
    BY <1>4, HolderUnique
  <2>2. Holder' = NoOne
    BY <1>4 DEF ClaimExclusive, Holder
  <2> QED
    BY <1>2, <2>1, <2>2 DEF Promise!Next, Promise!Abandon
<1>5. req[r].holds \in BOOLEAN /\ req'[r].holds \in BOOLEAN
  BY DEF ReqTyped, RequestStates
<1>6. req'[r].holds = req[r].holds => \A x \in Requests : req'[x].holds = req[x].holds
  OBVIOUS
<1> QED
  BY <1>3, <1>4, <1>5, <1>6

\* Which of the others a step of r leaves alone, and what a reply does.
LEMMA ReplyLeaves ==
  ASSUME ReqTyped, NEW r \in Requests, NEW answer, Reply(r, answer)
  PROVE  ~req'[r].holds /\ \A x \in Requests : x # r => req'[x] = req[x]
BY DEF ReqTyped, RequestStates, Reply

\* The holder replies: nobody holds the payment any more.
LEMMA HolderReplies ==
  ASSUME ReqTyped, ClaimExclusive, NEW r \in Requests, req[r].holds,
         NEW answer, Reply(r, answer)
  PROVE  Holder = r /\ Holder' = NoOne
<1>1. Holder = r
  BY HolderUnique
<1>2. \A x \in Requests : ~req'[x].holds
  BY ReplyLeaves DEF ClaimExclusive
<1> QED
  BY <1>1, <1>2 DEF Holder

\* The claim protocol, with every endpoint and the expiry job, implements
\* OncePayout.
THEOREM HandlersKeepPromise ==
  ASSUME HonestReports
  PROVE  Spec => ImplementsOncePayout
<1>1. Init => Promise!Init
  <2> SUFFICES ASSUME Init PROVE Promise!Init
    OBVIOUS
  <2>1. \A r \in Requests : ~req[r].holds
    BY DEF Init
  <2> QED
    BY <2>1, HolderNone DEF Init, Promise!Init, Phase
<1>2. ASSUME TypeOK, TypeOK', ClaimInvariant, [Next]_vars
      PROVE  [Promise!Next]_(Promise!vars)
  <2>0. /\ ReqTyped /\ ReqTyped' /\ ClaimExclusive
        /\ ~Fault("dbError") /\ ~Fault("replyLost")
    BY <1>2, NoMisreport DEF TypeOK, ReqTyped, ClaimInvariant
  <2>a. \A r \in Requests : Entitled(r)
    BY <1>2 DEF ClaimInvariant, Entitled
  <2>1. CASE CustomerPays \/ DeadlinePasses \/ UNCHANGED vars
    BY <2>1 DEF CustomerPays, DeadlinePasses, vars, Promise!vars, Phase, Holder
  <2>2. CASE ExpireOldPayments
    <3>1. Phase' = "closed" /\ UNCHANGED <<Holder, baseBy>>
      BY <2>2 DEF ExpireOldPayments, Phase, Holder
    <3> QED
      BY <3>1 DEF Promise!Next, Promise!Close
  <2>3. ASSUME NEW r \in Requests,
               \/ DeliverWebhook(r) \/ NwcForwardBase(r) \/ NwcSendTips(r) \/ Crash(r)
               \/ \E e \in AllEndpoints : CallEndpoint(r, e)
        PROVE  [Promise!Next]_(Promise!vars)
    <3>1. /\ UNCHANGED <<status, baseBy>>
          /\ \A x \in Requests : x # r => req'[x] = req[x]
          /\ req'[r].holds => req[r].holds
      <4>1. CASE DeliverWebhook(r) \/ \E e \in AllEndpoints : CallEndpoint(r, e)
        <5>1. PICK e \in AllEndpoints : Begin(r, e)
          BY <4>1 DEF DeliverWebhook, CallEndpoint, AllEndpoints
        <5>2. UNCHANGED <<status, baseBy>>
          BY <4>1 DEF DeliverWebhook, CallEndpoint
        <5> QED
          BY <2>0, <5>1, <5>2 DEF ReqTyped, RequestStates, Begin
      <4>2. CASE NwcForwardBase(r)
        <5>1. UNCHANGED <<status, baseBy>>
          BY <4>2 DEF NwcForwardBase
        <5>2. \/ req' = [req EXCEPT ![r] = [at |-> "pay-invoice", pc |-> "claim",
                                            holds |-> FALSE, reply |-> "none"]]
              \/ req' = [req EXCEPT ![r].reply = "error"]
          BY <4>2 DEF NwcForwardBase
        <5> QED
          BY <2>0, <5>1, <5>2 DEF ReqTyped, RequestStates
      <4>3. CASE NwcSendTips(r)
        BY <2>0, <4>3 DEF ReqTyped, RequestStates, NwcSendTips
      <4>4. CASE Crash(r)
        BY <2>0, <4>4 DEF ReqTyped, RequestStates, Crash
      <4> QED
        BY <2>3, <4>1, <4>2, <4>3, <4>4
    <3> QED
      BY <2>0, <3>1, QuietKeepsPromise
  <2>4. ASSUME NEW r \in Requests, ClaimPayment(r) PROVE [Promise!Next]_(Promise!vars)
    <3>1. CASE ~Claimable
      <4>1. Goto(r, "check") /\ UNCHANGED <<status, baseBy>>
        BY <2>0, <2>4, <3>1 DEF ClaimPayment
      <4>2. /\ \A x \in Requests : x # r => req'[x] = req[x]
            /\ req'[r].holds => req[r].holds
        BY <2>0, <4>1 DEF ReqTyped, RequestStates, Goto
      <4> QED
        BY <2>0, <4>1, <4>2, QuietKeepsPromise
    <3>2. CASE Claimable
      <4>1. /\ status = "pending" /\ status' = "processing" /\ UNCHANGED baseBy
            /\ req' = [req EXCEPT ![r] = [@ EXCEPT !.pc = "prepare", !.holds = TRUE]]
        BY <2>0, <2>4, <3>2 DEF ClaimPayment, Claimable
      <4>2. \A x \in Requests : ~req[x].holds
        BY <1>2, <4>1 DEF ClaimInvariant
      <4>3. Holder = NoOne
        BY <4>2, HolderNone
      <4>4. req'[r].holds /\ \A x \in Requests : x # r => ~req'[x].holds
        BY <2>0, <4>1, <4>2 DEF ReqTyped, RequestStates
      <4>5. Holder' = r
        BY <4>4 DEF Holder
      <4>6. Phase = "open" /\ Phase' = "taken"
        BY <4>1 DEF Phase
      <4> QED
        BY <4>1, <4>3, <4>5, <4>6 DEF Promise!Next, Promise!Take
    <3> QED
      BY <3>1, <3>2
  <2>5. ASSUME NEW r \in Requests, Prepare(r) \/ RefuseClaim(r) \/ SendTips(r)
        PROVE  [Promise!Next]_(Promise!vars)
    <3>1. /\ UNCHANGED <<status, baseBy>>
          /\ \/ \E p \in {"pay", "tips", "complete"} : Goto(r, p)
             \/ \E a : Reply(r, a) \/ ReleaseAndReply(r, a)
      BY <2>0, <2>5
         DEF Prepare, WebhookDispatch, WithTipsPrepare, LnAddressPrepare,
             NpubCashPrepare, NwcDeferPrepare, NwcTipsPrepare, PayInvoicePrepare,
             RefuseClaim, SendTips, AfterBase, Throw
    <3>2. /\ \A x \in Requests : x # r => req'[x] = req[x]
          /\ req'[r].holds => req[r].holds
      BY <2>0, <3>1 DEF ReqTyped, RequestStates, Goto, Reply, ReleaseAndReply
    <3> QED
      BY <2>0, <3>1, <3>2, QuietKeepsPromise
  <2>6. ASSUME NEW r \in Requests, PayBase(r) PROVE [Promise!Next]_(Promise!vars)
    <3>1. req[r].holds /\ baseBy = {} /\ UNCHANGED status
      BY <2>a, <2>6 DEF PayBase, Entitled
    <3>2. Holder = r /\ Phase' = Phase
      BY <2>0, <3>1, HolderUnique DEF Phase
    <3>3. CASE baseBy' = baseBy \cup {r} /\ Reply(r, "ok")
      <4>1. Holder' = NoOne /\ baseBy' = {r}
        BY <2>0, <3>1, <3>3, HolderReplies
      <4> QED
        BY <3>1, <3>2, <4>1 DEF Promise!Next, Promise!Settle
    <3>4. CASE baseBy' = baseBy \cup {r} /\ Goto(r, AfterBase)
      <4>1. \A x \in Requests : req'[x].holds = req[x].holds
        BY <2>0, <3>4 DEF ReqTyped, RequestStates, Goto
      <4>2. Holder' = r
        BY <2>0, <3>1, <4>1 DEF Holder, ClaimExclusive
      <4> QED
        BY <3>1, <3>2, <3>4, <4>2 DEF Promise!Next, Promise!PayOut
    <3>5. CASE PayoutFailed(r) /\ UNCHANGED baseBy
      <4>1. /\ \A x \in Requests : x # r => req'[x] = req[x]
            /\ req'[r].holds => req[r].holds
        BY <2>0, <3>5 DEF ReqTyped, RequestStates, PayoutFailed, Throw, Reply, ReleaseAndReply
      <4> QED
        BY <2>0, <3>1, <3>5, <4>1, QuietKeepsPromise
    <3> QED
      BY <2>0, <2>6, <3>3, <3>4, <3>5 DEF PayBase
  <2>7. ASSUME NEW r \in Requests, CompletePayment(r) PROVE [Promise!Next]_(Promise!vars)
    <3>1. Phase' = "closed" /\ UNCHANGED baseBy /\ Reply(r, "ok")
      BY <2>0, <2>7 DEF CompletePayment, Phase
    <3>2. CASE req[r].holds
      <4>1. Holder = r /\ Holder' = NoOne /\ baseBy \subseteq {r}
        BY <1>2, <2>0, <3>1, <3>2, HolderReplies DEF ClaimInvariant
      <4>2. baseBy = {} \/ baseBy = {r}
        BY <4>1
      <4> QED
        BY <3>1, <4>1, <4>2 DEF Promise!Next, Promise!Settle, Promise!Abandon
    <3>3. CASE ~req[r].holds
      <4>1. \A x \in Requests : req'[x].holds = req[x].holds
        BY <2>0, <3>1, <3>3, ReplyLeaves DEF ReqTyped, RequestStates
      <4>2. Holder' = Holder
        <5>1. CASE \E x \in Requests : req[x].holds
          BY <2>0, <4>1, <5>1 DEF ClaimExclusive, Holder
        <5>2. CASE \A x \in Requests : ~req[x].holds
          BY <4>1, <5>2 DEF Holder
        <5> QED
          BY <5>1, <5>2
      <4> QED
        BY <3>1, <4>2 DEF Promise!Next, Promise!Close
    <3> QED
      BY <3>2, <3>3
  <2>8. ASSUME NEW r \in Requests, ReleaseFailedClaim(r) PROVE [Promise!Next]_(Promise!vars)
    <3>1. req[r].holds /\ baseBy = {}
      BY <2>a, <2>8 DEF ReleaseFailedClaim, Entitled
    <3>2. /\ Reply(r, req[r].reply) /\ UNCHANGED baseBy
          /\ status' = IF status = "processing" THEN "pending" ELSE status
      BY <2>0, <2>8 DEF ReleaseFailedClaim, Releasable
    <3>3. Holder = r /\ Holder' = NoOne
      BY <2>0, <3>1, <3>2, HolderReplies
    <3>4. Phase' = IF Phase = "taken" THEN "open" ELSE Phase
      BY <3>2 DEF Phase
    <3> QED
      BY <3>1, <3>2, <3>3, <3>4 DEF Promise!Next, Promise!GiveBack
  <2> QED
    BY <1>2, <2>1, <2>2, <2>3, <2>4, <2>5, <2>6, <2>7, <2>8 DEF Next, Handle
<1> QED
  BY <1>1, <1>2, TypeCorrect, ClaimIsSafe, PTL DEF Spec, ImplementsOncePayout, Promise!Spec

-----------------------------------------------------------------------------
(***************************************************************************)
(* What each way of updating a request changes.                            *)
(***************************************************************************)
Others(r) == \A x \in Requests : x # r => req'[x] = req[x]

LEMMA GotoEffect ==
  ASSUME ReqTyped, NEW r \in Requests, NEW p, Goto(r, p)
  PROVE  /\ Others(r)
         /\ req'[r].at = req[r].at /\ req'[r].pc = p
         /\ req'[r].holds = req[r].holds /\ req'[r].reply = req[r].reply
BY DEF ReqTyped, RequestStates, Goto, Others

LEMMA ReplyEffect ==
  ASSUME ReqTyped, NEW r \in Requests, NEW answer, Reply(r, answer)
  PROVE  /\ Others(r)
         /\ req'[r].at = req[r].at /\ req'[r].pc = "replied"
         /\ req'[r].holds = FALSE /\ req'[r].reply = answer
BY DEF ReqTyped, RequestStates, Reply, Others

LEMMA ReleaseEffect ==
  ASSUME ReqTyped, NEW r \in Requests, NEW answer, ReleaseAndReply(r, answer)
  PROVE  /\ Others(r)
         /\ req'[r].at = req[r].at /\ req'[r].pc = "release"
         /\ req'[r].holds = req[r].holds /\ req'[r].reply = answer
BY DEF ReqTyped, RequestStates, ReleaseAndReply, Others

LEMMA ThrowEffect ==
  ASSUME ReqTyped, NEW r \in Requests, Throw(r)
  PROVE  /\ Others(r)
         /\ req'[r].at = req[r].at /\ req'[r].reply = "error"
         /\ IF req[r].at = "webhook" \/ req[r].holds
            THEN req'[r].pc = "release" /\ req'[r].holds = req[r].holds
            ELSE req'[r].pc = "replied" /\ req'[r].holds = FALSE
BY ReplyEffect, ReleaseEffect DEF Throw

LEMMA BeginEffect ==
  ASSUME ReqTyped, NEW r \in Requests, NEW e, Begin(r, e)
  PROVE  /\ Others(r)
         /\ req'[r].at = e /\ req'[r].pc = "claim"
         /\ req'[r].holds = req[r].holds /\ req'[r].reply = req[r].reply
BY DEF ReqTyped, RequestStates, Begin, Others

LEMMA NwcForwardEffect ==
  ASSUME ReqTyped, NEW r \in Requests, NwcForwardBase(r)
  PROVE  /\ Others(r)
         /\ \/ req'[r] = [at |-> "pay-invoice", pc |-> "claim", holds |-> FALSE, reply |-> "none"]
            \/ /\ req'[r].at = "forward-nwc-defer" /\ req'[r].pc = "replied"
               /\ req'[r].holds = req[r].holds /\ req'[r].reply = "error"
BY DEF ReqTyped, RequestStates, NwcForwardBase, Others, At

LEMMA NwcTipsEffect ==
  ASSUME ReqTyped, NEW r \in Requests, NwcSendTips(r)
  PROVE  /\ Others(r)
         /\ req'[r] = [at |-> "send-nwc-tips", pc |-> "tips", holds |-> FALSE, reply |-> "none"]
BY DEF ReqTyped, RequestStates, NwcSendTips, Others

LEMMA ClaimEffect ==
  ASSUME ReqTyped, NEW r \in Requests,
         req' = [req EXCEPT ![r] = [@ EXCEPT !.pc = "prepare", !.holds = TRUE]]
  PROVE  /\ Others(r)
         /\ req'[r].at = req[r].at /\ req'[r].pc = "prepare"
         /\ req'[r].holds = TRUE /\ req'[r].reply = req[r].reply
BY DEF ReqTyped, RequestStates, Others

LEMMA CrashEffect ==
  ASSUME ReqTyped, NEW r \in Requests, Crash(r)
  PROVE  /\ Others(r)
         /\ req'[r].at = req[r].at /\ req'[r].pc = "crashed"
         /\ req'[r].holds = FALSE /\ req'[r].reply = req[r].reply
BY DEF ReqTyped, RequestStates, Crash, Others

LEMMA FaultHappens ==
  ASSUME failures \in [AllFaults -> Nat], NEW f \in AllFaults, Fault(f)
  PROVE  Happened(f)'
BY DEF Fault, Happened

\* The steps between the claim and the payout are one of these.
LEMMA PrepareEffect ==
  ASSUME ReqTyped, failures \in [AllFaults -> Nat], NEW r \in Requests, Prepare(r)
  PROVE  /\ req[r].pc = "prepare" /\ Others(r) /\ req'[r].at = req[r].at
         /\ UNCHANGED <<order, status, overdue, paid, acked, baseBy, tipsBy>>
         /\ \/ /\ req'[r].holds = req[r].holds
               /\ \/ /\ req'[r].reply = req[r].reply
                     /\ \/ req'[r].pc = "pay"
                        \/ req'[r].pc = "tips" /\ req[r].at = "forward-nwc-tips"
                        \/ /\ req'[r].pc = "complete"
                           /\ \/ req[r].at = "forward-nwc-tips"
                              \/ req[r].at = "forward-nwc-defer" /\ ~order.tips
                  \/ /\ req'[r].pc = "release"
                     /\ req'[r].reply = "error" \/ (req[r].at = "webhook" /\ req'[r].reply = "ok")
            \/ /\ req'[r].holds = FALSE /\ req'[r].pc = "replied"
               /\ \/ req'[r].reply = "error" /\ ~req[r].holds
                  \/ req'[r].reply = "error" /\ Happened("noConfig")'
                       /\ req[r].at \in {"forward-with-tips", "pay-invoice"}
                  \/ req'[r].reply = "error"
                       /\ req[r].at \in {"forward-ln-address", "forward-npubcash"}
                  \/ req'[r].reply = "ok" /\ req[r].at = "forward-nwc-defer" /\ order.tips
<1>1. CASE WebhookDispatch(r)
  BY <1>1, GotoEffect, ThrowEffect, ReleaseEffect DEF WebhookDispatch, At
<1>2. CASE WithTipsPrepare(r)
  <2>0. /\ At(r, "forward-with-tips", "prepare")
        /\ UNCHANGED <<order, status, overdue, paid, acked, baseBy, tipsBy>>
    BY <1>2 DEF WithTipsPrepare
  <2>1. CASE ReleaseAndReply(r, "error")
    BY <2>0, <2>1, ReleaseEffect DEF At
  <2>2. CASE Goto(r, "pay")
    BY <2>0, <2>2, GotoEffect DEF At
  <2>3. CASE Throw(r)
    BY <2>0, <2>3, ThrowEffect DEF At
  <2>4. CASE Fault("noConfig") /\ Reply(r, "error")
    BY <2>0, <2>4, ReplyEffect, FaultHappens DEF At, AllFaults
  <2> QED
    BY <1>2, <2>1, <2>2, <2>3, <2>4 DEF WithTipsPrepare
<1>3. CASE LnAddressPrepare(r)
  BY <1>3, GotoEffect, ThrowEffect, ReplyEffect DEF LnAddressPrepare, At
<1>4. CASE NpubCashPrepare(r)
  BY <1>4, GotoEffect, ThrowEffect, ReplyEffect DEF NpubCashPrepare, At
<1>5. CASE NwcDeferPrepare(r)
  <2>0. /\ At(r, "forward-nwc-defer", "prepare")
        /\ UNCHANGED <<order, status, overdue, paid, acked, baseBy, tipsBy>>
    BY <1>5 DEF NwcDeferPrepare
  <2>1. CASE ReleaseAndReply(r, "error")
    BY <2>0, <2>1, ReleaseEffect DEF At
  <2>2. CASE ~order.tips /\ Goto(r, "complete")
    BY <2>0, <2>2, GotoEffect DEF At
  <2>4. CASE order.tips /\ Reply(r, "ok")
    BY <2>0, <2>4, ReplyEffect DEF At
  <2> QED
    BY <1>5, <2>1, <2>2, <2>4 DEF NwcDeferPrepare
<1>6. CASE NwcTipsPrepare(r)
  BY <1>6, GotoEffect, ReleaseEffect DEF NwcTipsPrepare, At, AfterBase
<1>7. CASE PayInvoicePrepare(r)
  BY <1>7, GotoEffect, ReplyEffect, FaultHappens DEF AllFaults, PayInvoicePrepare, At
<1> QED
  BY <1>1, <1>2, <1>3, <1>4, <1>5, <1>6, <1>7 DEF Prepare
-----------------------------------------------------------------------------
(***************************************************************************)
(* The base amount goes first, under every fault.                          *)
(***************************************************************************)
TipsMayGo == baseBy # {} \/ Called("forward-nwc-tips")

MayComplete ==
  TipsMayGo \/ (~order.tips /\ (Called("forward-nwc-defer") \/ Called("pay-invoice")))

\* What a request knows about the base amount at each step of its handler.
KnowsOfBase(r) ==
  /\ req[r].pc = "idle" => req[r].at = "none"
  /\ req[r].pc = "tips" => TipsMayGo
  /\ req[r].pc = "complete" => MayComplete
  /\ req[r].at = "pay-invoice" =>
       /\ req[r].pc \notin {"tips", "complete"}
       /\ req[r].pc = "release" => req[r].reply = "error"
       /\ req[r].pc = "replied" /\ req[r].reply \in {"ok", "skipped"} => MayComplete

BaseFirst ==
  /\ tipsBy # {} => TipsMayGo
  /\ status = "completed" => MayComplete
  /\ \A r \in Requests : KnowsOfBase(r)

\* The endpoint of a request changes only when it starts and along the two
\* calls of the NWC client.
SameOrNextEndpoint(r) ==
  \/ req'[r].at = req[r].at
  \/ req[r].at = "none"
  \/ req[r].at = "forward-nwc-defer" /\ req'[r].at = "pay-invoice"
  \/ req[r].at = "pay-invoice" /\ req'[r].at = "send-nwc-tips" /\ order.tips

\* What lets tips go and a row be completed is never undone.
LEMMA KnowledgeKept ==
  ASSUME NEW r \in Requests, Others(r), SameOrNextEndpoint(r),
         order' = order, baseBy \subseteq baseBy'
  PROVE  (TipsMayGo => TipsMayGo') /\ (MayComplete => MayComplete')
<1>1. ASSUME Called("forward-nwc-tips") PROVE Called("forward-nwc-tips")'
  BY <1>1 DEF Called, Others, SameOrNextEndpoint
<1>2. ASSUME ~order.tips, Called("forward-nwc-defer") \/ Called("pay-invoice")
      PROVE  (Called("forward-nwc-defer") \/ Called("pay-invoice"))'
  <2>1. PICK x \in Requests : req[x].at \in {"forward-nwc-defer", "pay-invoice"}
    BY <1>2 DEF Called
  <2>2. req'[x].at \in {"forward-nwc-defer", "pay-invoice"}
    BY <1>2, <2>1 DEF Others, SameOrNextEndpoint
  <2> QED
    BY <2>2 DEF Called
<1> QED
  BY <1>1, <1>2 DEF TipsMayGo, MayComplete

\* A step of r keeps the invariant if r itself, the tips and the status do.
LEMMA BaseFirstStep ==
  ASSUME BaseFirst, NEW r \in Requests, Others(r), SameOrNextEndpoint(r),
         order' = order, baseBy \subseteq baseBy',
         tipsBy' # tipsBy => TipsMayGo',
         status' = "completed" => status = "completed" \/ MayComplete',
         KnowsOfBase(r)'
  PROVE  BaseFirst'
<1>1. (TipsMayGo => TipsMayGo') /\ (MayComplete => MayComplete')
  BY KnowledgeKept
<1>2. \A x \in Requests : KnowsOfBase(x)'
  BY <1>1 DEF BaseFirst, KnowsOfBase, Others
<1> QED
  BY <1>1, <1>2 DEF BaseFirst

\* A request goes on to the tips, or completes the row, only when the base amount
\* has settled or it is one of the NWC flows that never pay it.
THEOREM BaseGoesFirst == Spec => []BaseFirst
<1>1. Init => BaseFirst
  BY DEF Init, BaseFirst, KnowsOfBase
<1>2. TypeOK /\ BaseFirst /\ [Next]_vars => BaseFirst'
  <2> SUFFICES ASSUME TypeOK, BaseFirst, [Next]_vars PROVE BaseFirst'
    OBVIOUS
  <2>0. ReqTyped /\ failures \in [AllFaults -> Nat] /\ \A r \in Requests : KnowsOfBase(r)
    BY DEF TypeOK, ReqTyped, BaseFirst
  <2>1. CASE CustomerPays \/ DeadlinePasses \/ UNCHANGED vars
    BY <2>1 DEF CustomerPays, DeadlinePasses, vars, BaseFirst, KnowsOfBase, TipsMayGo,
                MayComplete, Called
  <2>2. CASE ExpireOldPayments
    BY <2>2 DEF ExpireOldPayments, BaseFirst, KnowsOfBase, TipsMayGo, MayComplete, Called
  <2>3. ASSUME NEW r \in Requests, DeliverWebhook(r) PROVE BaseFirst'
    <3>1. req[r].pc = "idle" /\ Begin(r, "webhook") /\ UNCHANGED <<order, status, baseBy, tipsBy>>
      BY <2>3 DEF DeliverWebhook
    <3>2. SameOrNextEndpoint(r) /\ KnowsOfBase(r)' /\ Others(r)
      BY <2>0, <3>1, BeginEffect DEF SameOrNextEndpoint, KnowsOfBase
    <3> QED
      BY <3>1, <3>2, BaseFirstStep
  <2>4. ASSUME NEW r \in Requests, NEW e \in AllEndpoints, CallEndpoint(r, e) PROVE BaseFirst'
    <3>1. req[r].pc = "idle" /\ Begin(r, e) /\ UNCHANGED <<order, status, baseBy, tipsBy>>
      BY <2>4 DEF CallEndpoint
    <3>2. SameOrNextEndpoint(r) /\ KnowsOfBase(r)' /\ Others(r)
      BY <2>0, <3>1, BeginEffect DEF SameOrNextEndpoint, KnowsOfBase
    <3> QED
      BY <3>1, <3>2, BaseFirstStep
  <2>5. ASSUME NEW r \in Requests, NwcForwardBase(r) PROVE BaseFirst'
    <3>1. req[r].at = "forward-nwc-defer" /\ UNCHANGED <<order, status, baseBy, tipsBy>>
      BY <2>5 DEF NwcForwardBase, At
    <3>2. SameOrNextEndpoint(r) /\ KnowsOfBase(r)' /\ Others(r)
      BY <2>0, <2>5, <3>1, NwcForwardEffect DEF SameOrNextEndpoint, KnowsOfBase
    <3> QED
      BY <3>1, <3>2, BaseFirstStep
  <2>6. ASSUME NEW r \in Requests, NwcSendTips(r) PROVE BaseFirst'
    <3>1. /\ req[r].at = "pay-invoice" /\ req[r].pc = "replied"
          /\ req[r].reply \in {"ok", "skipped"} /\ order.tips
          /\ UNCHANGED <<order, status, baseBy, tipsBy>>
      BY <2>6 DEF NwcSendTips, At
    <3>2. TipsMayGo
      BY <2>0, <3>1 DEF KnowsOfBase, MayComplete
    <3>3. SameOrNextEndpoint(r) /\ Others(r)
      BY <2>0, <2>6, <3>1, NwcTipsEffect DEF SameOrNextEndpoint
    <3>4. KnowsOfBase(r)'
      BY <2>0, <2>6, <3>1, <3>2, <3>3, NwcTipsEffect, KnowledgeKept DEF KnowsOfBase
    <3> QED
      BY <3>1, <3>3, <3>4, BaseFirstStep
  <2>7. ASSUME NEW r \in Requests, ClaimPayment(r) PROVE BaseFirst'
    <3>1. /\ req[r].pc = "claim" /\ UNCHANGED <<order, baseBy, tipsBy>>
          /\ status' = "completed" => status = "completed"
      BY <2>7 DEF ClaimPayment, Claimable
    <3>2. /\ Others(r) /\ req'[r].at = req[r].at
          /\ \/ req'[r].pc \in {"prepare", "check"}
             \/ req'[r].pc \in {"release", "replied"} /\ req'[r].reply = "error"
      BY <2>0, <2>7, ClaimEffect, GotoEffect, ThrowEffect DEF ClaimPayment
    <3>3. SameOrNextEndpoint(r) /\ KnowsOfBase(r)'
      BY <2>0, <3>2 DEF SameOrNextEndpoint, KnowsOfBase
    <3> QED
      BY <3>1, <3>2, <3>3, BaseFirstStep
  <2>8. ASSUME NEW r \in Requests, RefuseClaim(r) PROVE BaseFirst'
    <3>1. req[r].pc = "check" /\ UNCHANGED <<order, status, baseBy, tipsBy>>
      BY <2>8 DEF RefuseClaim
    <3>2. /\ Others(r) /\ req'[r].at = req[r].at
          /\ \/ req'[r].pc = "replied" /\ req'[r].reply = RefusalReply(req[r].at)
             \/ req'[r].pc \in {"release", "replied"} /\ req'[r].reply = "error"
      BY <2>0, <2>8, ReplyEffect, ThrowEffect DEF RefuseClaim
    <3>3. SameOrNextEndpoint(r)
      BY <3>2 DEF SameOrNextEndpoint
    <3>4. req[r].at = "pay-invoice" /\ RefusalReply(req[r].at) \in {"ok", "skipped"}
            => status = "completed"
      BY DEF RefusalReply
    <3>5. status = "completed" => MayComplete'
      BY <3>1, <3>2, <3>3, KnowledgeKept DEF BaseFirst
    <3>6. KnowsOfBase(r)'
      BY <2>0, <3>2, <3>4, <3>5 DEF KnowsOfBase
    <3> QED
      BY <3>1, <3>2, <3>3, <3>6, BaseFirstStep
  <2>9. ASSUME NEW r \in Requests, Prepare(r) PROVE BaseFirst'
    <3>1. /\ Others(r) /\ req'[r].at = req[r].at
          /\ UNCHANGED <<order, status, baseBy, tipsBy>>
      BY <2>0, <2>9, PrepareEffect
    <3>2. /\ req'[r].pc \in {"pay", "tips", "complete", "release", "replied"}
          /\ req'[r].pc = "tips" => req[r].at = "forward-nwc-tips"
          /\ req'[r].pc = "complete" => \/ req[r].at = "forward-nwc-tips"
                                        \/ req[r].at = "forward-nwc-defer" /\ ~order.tips
          /\ req[r].at = "pay-invoice" /\ req'[r].pc \in {"release", "replied"}
               => req'[r].reply = "error"
      BY <2>0, <2>9, PrepareEffect
    <3>3. SameOrNextEndpoint(r)
      BY <3>1 DEF SameOrNextEndpoint
    <3>4. /\ req[r].at = "forward-nwc-tips" => TipsMayGo'
          /\ req[r].at = "forward-nwc-defer" /\ ~order.tips => MayComplete'
      BY <3>1 DEF TipsMayGo, MayComplete, Called
    <3>5. KnowsOfBase(r)'
      BY <2>0, <3>1, <3>2, <3>4 DEF KnowsOfBase, MayComplete
    <3> QED
      BY <3>1, <3>3, <3>5, BaseFirstStep
  <2>10. ASSUME NEW r \in Requests, PayBase(r) PROVE BaseFirst'
    <3>1. UNCHANGED <<order, status, tipsBy>> /\ baseBy \subseteq baseBy'
      BY <2>10 DEF PayBase
    <3>2. CASE baseBy' = baseBy \cup {r}
      <4>1. TipsMayGo' /\ MayComplete'
        BY <3>2 DEF TipsMayGo, MayComplete
      <4>2. /\ Others(r) /\ req'[r].at = req[r].at
            /\ \/ req'[r].pc = "replied"
               \/ req'[r].pc = "release" /\ req'[r].reply = "error"
               \/ req'[r].pc \in {"tips", "complete"} /\ req[r].at # "pay-invoice"
        <5>1. CASE IF req[r].at = "pay-invoice" THEN Reply(r, "ok") ELSE Goto(r, AfterBase)
          BY <2>0, <5>1, GotoEffect, ReplyEffect DEF AfterBase
        <5>2. CASE PayoutFailed(r)
          BY <2>0, <5>2, ReplyEffect, ThrowEffect DEF PayoutFailed
        <5> QED
          BY <2>10, <5>1, <5>2 DEF PayBase
      <4>3. SameOrNextEndpoint(r) /\ KnowsOfBase(r)'
        BY <4>1, <4>2 DEF SameOrNextEndpoint, KnowsOfBase
      <4> QED
        BY <3>1, <4>2, <4>3, BaseFirstStep
    <3>3. CASE PayoutFailed(r)
      <4>1. /\ Others(r) /\ req'[r].at = req[r].at
            /\ req'[r].pc \in {"release", "replied"} /\ req'[r].reply = "error"
        BY <2>0, <3>3, ReplyEffect, ThrowEffect DEF PayoutFailed
      <4>2. SameOrNextEndpoint(r) /\ KnowsOfBase(r)'
        BY <4>1 DEF SameOrNextEndpoint, KnowsOfBase
      <4> QED
        BY <3>1, <4>1, <4>2, BaseFirstStep
    <3> QED
      BY <2>10, <3>2, <3>3 DEF PayBase
  <2>11. ASSUME NEW r \in Requests, SendTips(r) PROVE BaseFirst'
    <3>1. /\ req[r].pc = "tips" /\ UNCHANGED <<order, status, baseBy>>
          /\ Goto(r, "complete") \/ (Reply(r, "error") /\ req[r].at = "send-nwc-tips")
      BY <2>11 DEF SendTips
    <3>2. /\ Others(r) /\ req'[r].at = req[r].at
          /\ \/ req'[r].pc = "complete"
             \/ req'[r].pc = "replied" /\ req'[r].at = "send-nwc-tips"
      BY <2>0, <3>1, GotoEffect, ReplyEffect
    <3>3. SameOrNextEndpoint(r)
      BY <3>2 DEF SameOrNextEndpoint
    <3>4. TipsMayGo' /\ MayComplete'
      BY <2>0, <3>1, <3>2, <3>3, KnowledgeKept DEF KnowsOfBase, MayComplete
    <3>5. KnowsOfBase(r)'
      BY <2>0, <3>1, <3>2, <3>4 DEF KnowsOfBase
    <3> QED
      BY <3>1, <3>2, <3>3, <3>4, <3>5, BaseFirstStep
  <2>12. ASSUME NEW r \in Requests, CompletePayment(r) PROVE BaseFirst'
    <3>1. req[r].pc = "complete" /\ UNCHANGED <<order, baseBy, tipsBy>>
      BY <2>12 DEF CompletePayment
    <3>2. /\ Others(r) /\ req'[r].at = req[r].at
          /\ req'[r].pc \in {"release", "replied"}
      BY <2>0, <2>12, ReplyEffect, ThrowEffect DEF CompletePayment
    <3>3. SameOrNextEndpoint(r) /\ req[r].at # "pay-invoice"
      BY <2>0, <3>1, <3>2 DEF SameOrNextEndpoint, KnowsOfBase
    <3>4. MayComplete'
      BY <2>0, <3>1, <3>2, <3>3, KnowledgeKept DEF KnowsOfBase
    <3>5. KnowsOfBase(r)'
      BY <3>2, <3>3 DEF KnowsOfBase
    <3> QED
      BY <3>1, <3>2, <3>3, <3>4, <3>5, BaseFirstStep
  <2>13. ASSUME NEW r \in Requests, ReleaseFailedClaim(r) PROVE BaseFirst'
    <3>1. /\ req[r].pc = "release" /\ UNCHANGED <<order, baseBy, tipsBy>>
          /\ status' = "completed" => status = "completed"
          /\ Reply(r, req[r].reply)
      BY <2>13 DEF ReleaseFailedClaim
    <3>2. /\ Others(r) /\ req'[r].at = req[r].at
          /\ req'[r].pc = "replied" /\ req'[r].reply = req[r].reply
      BY <2>0, <3>1, ReplyEffect
    <3>3. SameOrNextEndpoint(r) /\ KnowsOfBase(r)'
      BY <2>0, <3>1, <3>2 DEF SameOrNextEndpoint, KnowsOfBase
    <3> QED
      BY <3>1, <3>2, <3>3, BaseFirstStep
  <2>14. ASSUME NEW r \in Requests, Crash(r) PROVE BaseFirst'
    <3>1. UNCHANGED <<order, status, baseBy, tipsBy>>
      BY <2>14 DEF Crash
    <3>2. SameOrNextEndpoint(r) /\ KnowsOfBase(r)' /\ Others(r)
      BY <2>0, <2>14, CrashEffect DEF SameOrNextEndpoint, KnowsOfBase
    <3> QED
      BY <3>1, <3>2, BaseFirstStep
  <2> QED
    BY <2>1, <2>2, <2>3, <2>4, <2>5, <2>6, <2>7, <2>8, <2>9, <2>10, <2>11, <2>12,
       <2>13, <2>14 DEF Next, Handle
<1> QED
  BY <1>1, <1>2, TypeCorrect, PTL DEF Spec

\* No tip leaves the wallet for a payment whose base amount has not, unless
\* forward-nwc-with-tips was called without deferTips.
THEOREM TipsComeSecond == Spec => []TipsFollowBase
<1>1. BaseFirst => TipsFollowBase
  BY DEF BaseFirst, TipsFollowBase, TipsMayGo
<1> QED
  BY <1>1, BaseGoesFirst, PTL

\* A row reported as completed has been forwarded, except in the two NWC flows
\* that complete the row on their own.
THEOREM CompletedWasForwarded == Spec => []CompletedIsForwardedUnlessNwc
<1>1. BaseFirst => CompletedIsForwardedUnlessNwc
  BY DEF BaseFirst, CompletedIsForwardedUnlessNwc, CompletedIsForwarded, TipsMayGo, MayComplete
<1> QED
  BY <1>1, BaseGoesFirst, PTL

-----------------------------------------------------------------------------
(***************************************************************************)
(* A claim is looked after, under every fault.                             *)
(***************************************************************************)
\* A request answers last and owns nothing before its claim.
AnswersLast(r) ==
  /\ req[r].pc = "idle" => req[r].at = "none"
  /\ req[r].reply # "none" => req[r].pc \in {"release", "replied", "crashed"}
  /\ req[r].pc \in {"idle", "claim", "check"} => ~req[r].holds

ClaimsLookedAfter ==
  /\ NoAbandonedClaim
  /\ \A r \in Requests : AnswersLast(r)

LooksAfter(r) == req[r].holds \/ LeavesClaim(r)

\* A fault that has happened has happened for good.
LEMMA HappenedKept ==
  ASSUME failures \in [AllFaults -> Nat], NEW f \in AllFaults,
         failures' = failures \/ \E g : Fault(g)
  PROVE  Happened(f) => Happened(f)'
BY DEF Happened, Fault

\* What a claim was left by stays, along every step of the request.
LEMMA LeavingKept ==
  ASSUME NEW r \in Requests, LeavesClaim(r), SameOrNextEndpoint(r), order' = order,
         Happened("noConfig") => Happened("noConfig")',
         \/ req'[r].reply = req[r].reply
         \/ req'[r].reply = "error"
         \/ req[r].reply = "none" /\ req'[r].reply # "none"
         \/ req'[r].at # req[r].at
  PROVE  LeavesClaim(r)'
BY DEF LeavesClaim, SameOrNextEndpoint

\* A step of r keeps the invariant if it takes the status out of "processing",
\* or the status was "processing" already and r, if it looked after the claim,
\* still does.
LEMMA LookedAfterStep ==
  ASSUME ClaimsLookedAfter, NEW r \in Requests, Others(r), order' = order,
         \A f \in AllFaults : Happened(f) => Happened(f)',
         AnswersLast(r)',
         \/ status' # "processing"
         \/ status = "processing" /\ (LooksAfter(r) => LooksAfter(r)')
         \/ LooksAfter(r)'
         \/ Happened("crash")' \/ Happened("dbError")'
  PROVE  ClaimsLookedAfter'
<1>1. \A x \in Requests : AnswersLast(x)'
  BY DEF ClaimsLookedAfter, AnswersLast, Others
<1>2. NoAbandonedClaim'
  <2>1. CASE status = "processing" /\ (LooksAfter(r) => LooksAfter(r)')
    <3>1. CASE Happened("crash") \/ Happened("dbError")
      BY <3>1 DEF NoAbandonedClaim, AllFaults
    <3>2. CASE \E x \in Requests : LooksAfter(x)
      <4>1. PICK x \in Requests : LooksAfter(x)
        BY <3>2
      <4>2. Happened("noConfig") => Happened("noConfig")'
        BY DEF AllFaults
      <4>3. x # r => LooksAfter(x)'
        BY <4>1, <4>2 DEF LooksAfter, LeavesClaim, Others
      <4>4. LooksAfter(x)'
        BY <2>1, <4>1, <4>3
      <4> QED
        BY <4>4 DEF NoAbandonedClaim, LooksAfter
    <3> QED
      BY <2>1, <3>1, <3>2 DEF ClaimsLookedAfter, NoAbandonedClaim, LooksAfter
  <2> QED
    BY <2>1 DEF NoAbandonedClaim, LooksAfter
<1> QED
  BY <1>1, <1>2 DEF ClaimsLookedAfter

\* A row in "processing" always has somebody who answers for it, or one of the
\* answers that leave a claim behind, a crash or a failed query explains it.
THEOREM ClaimsAreLookedAfter == Spec => []ClaimsLookedAfter
<1>1. Init => ClaimsLookedAfter
  BY DEF Init, ClaimsLookedAfter, NoAbandonedClaim, AnswersLast
<1>2. TypeOK /\ ClaimsLookedAfter /\ [Next]_vars => ClaimsLookedAfter'
  <2> SUFFICES ASSUME TypeOK, ClaimsLookedAfter, [Next]_vars PROVE ClaimsLookedAfter'
    OBVIOUS
  <2>0. /\ ReqTyped /\ failures \in [AllFaults -> Nat]
        /\ \A r \in Requests : AnswersLast(r)
        /\ {"dbError", "crash", "noConfig"} \subseteq AllFaults
    BY DEF TypeOK, ReqTyped, ClaimsLookedAfter, AllFaults
  <2>a. ASSUME failures' = failures \/ \E g : Fault(g)
        PROVE  \A f \in AllFaults : Happened(f) => Happened(f)'
    BY <2>0, <2>a, HappenedKept
  <2>1. CASE CustomerPays \/ DeadlinePasses \/ UNCHANGED vars
    BY <2>1 DEF CustomerPays, DeadlinePasses, vars, ClaimsLookedAfter, NoAbandonedClaim,
                AnswersLast, LeavesClaim, Happened
  <2>2. CASE ExpireOldPayments
    BY <2>2 DEF ExpireOldPayments, ClaimsLookedAfter, NoAbandonedClaim, AnswersLast
  <2>3. ASSUME NEW r \in Requests, NEW e \in AllEndpoints,
               req[r].pc = "idle", Begin(r, e), UNCHANGED <<order, status, failures>>
        PROVE  ClaimsLookedAfter'
    <3>1. ~LooksAfter(r)
      BY <2>0, <2>3 DEF AnswersLast, LooksAfter, LeavesClaim
    <3>2. Others(r) /\ AnswersLast(r)'
      BY <2>0, <2>3, BeginEffect DEF AnswersLast
    <3> QED
      BY <2>3, <2>a, <3>1, <3>2, LookedAfterStep DEF ClaimsLookedAfter
  <2>4. ASSUME NEW r \in Requests, DeliverWebhook(r) PROVE ClaimsLookedAfter'
    BY <2>3, <2>4 DEF DeliverWebhook, AllEndpoints
  <2>5. ASSUME NEW r \in Requests, NEW e \in AllEndpoints, CallEndpoint(r, e)
        PROVE  ClaimsLookedAfter'
    BY <2>3, <2>5 DEF CallEndpoint
  <2>6. ASSUME NEW r \in Requests, NwcForwardBase(r) PROVE ClaimsLookedAfter'
    <3>1. /\ UNCHANGED <<order, status>> /\ req[r].at = "forward-nwc-defer"
          /\ failures' = failures \/ \E g : Fault(g)
          /\ req[r].reply = "ok"
      BY <2>6 DEF NwcForwardBase, At
    <3>2. Others(r) /\ AnswersLast(r)'
      BY <2>0, <2>6, NwcForwardEffect DEF AnswersLast
    <3>3. LooksAfter(r) => LooksAfter(r)'
      BY <2>0, <2>6, <3>1, NwcForwardEffect DEF LooksAfter, LeavesClaim
    <3> QED
      BY <2>a, <3>1, <3>2, <3>3, LookedAfterStep
  <2>7. ASSUME NEW r \in Requests, NwcSendTips(r) PROVE ClaimsLookedAfter'
    <3>1. UNCHANGED <<order, status, failures>>
      BY <2>7 DEF NwcSendTips
    <3>2. Others(r) /\ AnswersLast(r)' /\ LooksAfter(r)'
      BY <2>0, <2>7, NwcTipsEffect DEF AnswersLast, LooksAfter, LeavesClaim
    <3> QED
      BY <2>a, <3>1, <3>2, LookedAfterStep
  <2>8. ASSUME NEW r \in Requests, ClaimPayment(r) PROVE ClaimsLookedAfter'
    <3>1. /\ req[r].pc = "claim" /\ order' = order
          /\ failures' = failures \/ \E g : Fault(g)
      BY <2>8 DEF ClaimPayment
    <3>2. ~req[r].holds /\ req[r].reply = "none"
      BY <2>0, <3>1 DEF AnswersLast
    <3>3. Others(r) /\ AnswersLast(r)'
      <4>1. CASE req' = [req EXCEPT ![r] = [@ EXCEPT !.pc = "prepare", !.holds = TRUE]]
        BY <2>0, <3>2, <4>1, ClaimEffect DEF AnswersLast
      <4>2. CASE Goto(r, "check")
        BY <2>0, <3>2, <4>2, GotoEffect DEF AnswersLast
      <4>3. CASE Throw(r)
        BY <2>0, <4>3, ThrowEffect DEF AnswersLast
      <4> QED
        BY <2>8, <4>1, <4>2, <4>3 DEF ClaimPayment
    <3>4. CASE req' = [req EXCEPT ![r] = [@ EXCEPT !.pc = "prepare", !.holds = TRUE]]
      <4>1. LooksAfter(r)'
        BY <2>0, <3>4, ClaimEffect DEF LooksAfter
      <4> QED
        BY <2>a, <3>1, <3>3, <4>1, LookedAfterStep
    <3>5. CASE Goto(r, "check") /\ UNCHANGED <<status, failures>>
      <4>1. LooksAfter(r) => LooksAfter(r)'
        BY <2>0, <3>1, <3>5, GotoEffect DEF LooksAfter, LeavesClaim, Happened
      <4> QED
        BY <2>a, <3>1, <3>3, <3>5, <4>1, LookedAfterStep
    <3>6. CASE Fault("dbError")
      BY <2>0, <2>a, <3>1, <3>3, <3>6, FaultHappens, LookedAfterStep
    <3> QED
      BY <2>8, <3>4, <3>5, <3>6 DEF ClaimPayment
  <2>9. ASSUME NEW r \in Requests, RefuseClaim(r) PROVE ClaimsLookedAfter'
    <3>1. /\ req[r].pc = "check" /\ UNCHANGED <<order, status>>
          /\ failures' = failures \/ \E g : Fault(g)
      BY <2>9 DEF RefuseClaim
    <3>2. ~req[r].holds /\ req[r].reply = "none"
      BY <2>0, <3>1 DEF AnswersLast
    <3>3. Others(r) /\ AnswersLast(r)' /\ req'[r].at = req[r].at /\ req'[r].reply # "none"
      <4>1. CASE Reply(r, RefusalReply(req[r].at))
        <5>1. RefusalReply(req[r].at) # "none"
          BY DEF RefusalReply
        <5> QED
          BY <2>0, <4>1, <5>1, ReplyEffect DEF AnswersLast
      <4>2. CASE Throw(r)
        BY <2>0, <4>2, ThrowEffect DEF AnswersLast
      <4> QED
        BY <2>9, <4>1, <4>2 DEF RefuseClaim
    <3>4. SameOrNextEndpoint(r) /\ \A f \in AllFaults : Happened(f) => Happened(f)'
      BY <2>a, <3>1, <3>3 DEF SameOrNextEndpoint
    <3>5. LooksAfter(r) => LooksAfter(r)'
      BY <2>0, <3>1, <3>2, <3>3, <3>4, LeavingKept DEF LooksAfter
    <3> QED
      BY <3>1, <3>3, <3>4, <3>5, LookedAfterStep
  <2>10. ASSUME NEW r \in Requests, Prepare(r) PROVE ClaimsLookedAfter'
    <3>1. /\ req[r].pc = "prepare" /\ UNCHANGED <<order, status>>
          /\ Others(r) /\ req'[r].at = req[r].at
      BY <2>0, <2>10, PrepareEffect
    <3>2. failures' = failures \/ \E g : Fault(g)
      BY <2>10 DEF Prepare, WebhookDispatch, WithTipsPrepare, LnAddressPrepare,
             NpubCashPrepare, NwcDeferPrepare, NwcTipsPrepare, PayInvoicePrepare
    <3>3. SameOrNextEndpoint(r) /\ req[r].reply = "none"
      BY <2>0, <3>1 DEF SameOrNextEndpoint, AnswersLast
    <3>4. AnswersLast(r)'
      BY <2>0, <2>10, <3>3, PrepareEffect DEF AnswersLast
    <3>5. \A f \in AllFaults : Happened(f) => Happened(f)'
      BY <2>a, <3>2
    <3>6. LeavesClaim(r) => LeavesClaim(r)'
      BY <2>0, <3>1, <3>3, <3>5, LeavingKept
    <3>7. req[r].holds => req'[r].holds \/ LeavesClaim(r)'
      BY <2>0, <2>10, <3>1, PrepareEffect DEF LeavesClaim
    <3> QED
      BY <3>1, <3>4, <3>5, <3>6, <3>7, LookedAfterStep DEF LooksAfter
  <2>11. ASSUME NEW r \in Requests, PayBase(r) PROVE ClaimsLookedAfter'
    <3>1. /\ req[r].pc = "pay" /\ UNCHANGED <<order, status>>
          /\ failures' = failures \/ \E g : Fault(g)
      BY <2>11 DEF PayBase
    <3>2. req[r].reply = "none" /\ \A f \in AllFaults : Happened(f) => Happened(f)'
      BY <2>0, <2>a, <3>1 DEF AnswersLast
    <3>3. CASE req[r].at = "pay-invoice" /\ Reply(r, "ok")
      <4>1. Others(r) /\ AnswersLast(r)' /\ LooksAfter(r)'
        BY <2>0, <3>3, ReplyEffect DEF AnswersLast, LooksAfter, LeavesClaim
      <4> QED
        BY <3>1, <3>2, <4>1, LookedAfterStep
    <3>4. CASE Goto(r, AfterBase)
      <4>1. Others(r) /\ AnswersLast(r)' /\ SameOrNextEndpoint(r)
        BY <2>0, <3>2, <3>4, GotoEffect DEF AnswersLast, AfterBase, SameOrNextEndpoint
      <4>2. req'[r].reply = req[r].reply /\ req'[r].holds = req[r].holds
        BY <2>0, <3>4, GotoEffect
      <4>3. LooksAfter(r) => LooksAfter(r)'
        BY <2>0, <3>1, <3>2, <4>1, <4>2, LeavingKept DEF LooksAfter
      <4> QED
        BY <3>1, <3>2, <4>1, <4>3, LookedAfterStep
    <3>5. CASE Throw(r)
      <4>1. Others(r) /\ AnswersLast(r)' /\ SameOrNextEndpoint(r)
        BY <2>0, <3>1, <3>5, ThrowEffect DEF AnswersLast, SameOrNextEndpoint
      <4>2. req'[r].reply = "error" /\ (req[r].holds => req'[r].holds)
        BY <2>0, <3>5, ThrowEffect
      <4>3. LooksAfter(r) => LooksAfter(r)'
        BY <2>0, <3>1, <3>2, <4>1, <4>2, LeavingKept DEF LooksAfter
      <4> QED
        BY <3>1, <3>2, <4>1, <4>3, LookedAfterStep
    <3>6. CASE req[r].at \in {"forward-ln-address", "forward-npubcash"} /\ Reply(r, "error")
      <4>1. Others(r) /\ AnswersLast(r)' /\ LooksAfter(r)'
        BY <2>0, <3>6, ReplyEffect DEF AnswersLast, LooksAfter, LeavesClaim
      <4> QED
        BY <3>1, <3>2, <4>1, LookedAfterStep
    <3> QED
      BY <2>11, <3>3, <3>4, <3>5, <3>6 DEF PayBase, PayoutFailed
  <2>12. ASSUME NEW r \in Requests, SendTips(r) PROVE ClaimsLookedAfter'
    <3>1. /\ req[r].pc = "tips" /\ UNCHANGED <<order, status>>
          /\ failures' = failures \/ \E g : Fault(g)
      BY <2>12 DEF SendTips
    <3>2. \A f \in AllFaults : Happened(f) => Happened(f)'
      BY <2>a, <3>1
    <3>3. CASE Goto(r, "complete")
      <4>1. /\ Others(r) /\ AnswersLast(r)' /\ SameOrNextEndpoint(r)
            /\ req'[r].reply = req[r].reply /\ req'[r].holds = req[r].holds
        BY <2>0, <3>1, <3>3, GotoEffect DEF AnswersLast, SameOrNextEndpoint
      <4>2. LooksAfter(r) => LooksAfter(r)'
        BY <2>0, <3>1, <3>2, <4>1, LeavingKept DEF LooksAfter
      <4> QED
        BY <3>1, <3>2, <4>1, <4>2, LookedAfterStep
    <3>4. CASE Reply(r, "error") /\ req[r].at = "send-nwc-tips"
      <4>1. Others(r) /\ AnswersLast(r)' /\ LooksAfter(r)'
        BY <2>0, <3>4, ReplyEffect DEF AnswersLast, LooksAfter, LeavesClaim
      <4> QED
        BY <3>1, <3>2, <4>1, LookedAfterStep
    <3> QED
      BY <2>12, <3>3, <3>4 DEF SendTips
  <2>13. ASSUME NEW r \in Requests, CompletePayment(r) PROVE ClaimsLookedAfter'
    <3>1. /\ req[r].pc = "complete" /\ order' = order
          /\ failures' = failures \/ \E g : Fault(g)
          /\ status' = "completed" \/ Fault("dbError")
      BY <2>13 DEF CompletePayment
    <3>2. Others(r) /\ AnswersLast(r)'
      BY <2>0, <2>13, ReplyEffect, ThrowEffect DEF CompletePayment, AnswersLast
    <3>3. status' # "processing" \/ Happened("dbError")'
      BY <2>0, <3>1, FaultHappens
    <3> QED
      BY <2>a, <3>1, <3>2, <3>3, LookedAfterStep
  <2>14. ASSUME NEW r \in Requests, ReleaseFailedClaim(r) PROVE ClaimsLookedAfter'
    <3>1. /\ req[r].pc = "release" /\ order' = order /\ Reply(r, req[r].reply)
          /\ failures' = failures \/ \E g : Fault(g)
          /\ status' # "processing" \/ Fault("dbError")
      BY <2>14 DEF ReleaseFailedClaim, Releasable
    <3>2. Others(r) /\ AnswersLast(r)'
      BY <2>0, <3>1, ReplyEffect DEF AnswersLast
    <3>3. status' # "processing" \/ Happened("dbError")'
      BY <2>0, <3>1, FaultHappens
    <3> QED
      BY <2>a, <3>1, <3>2, <3>3, LookedAfterStep
  <2>15. ASSUME NEW r \in Requests, Crash(r) PROVE ClaimsLookedAfter'
    <3>1. order' = order /\ Fault("crash")
      BY <2>15 DEF Crash
    <3>2. Others(r) /\ AnswersLast(r)'
      BY <2>0, <2>15, CrashEffect DEF AnswersLast
    <3>3. Happened("crash")' /\ \A f \in AllFaults : Happened(f) => Happened(f)'
      BY <2>0, <2>a, <3>1, FaultHappens
    <3> QED
      BY <3>1, <3>2, <3>3, LookedAfterStep
  <2> QED
    BY <2>1, <2>2, <2>4, <2>5, <2>6, <2>7, <2>8, <2>9, <2>10, <2>11, <2>12,
       <2>13, <2>14, <2>15 DEF Next, Handle
<1> QED
  BY <1>1, <1>2, TypeCorrect, PTL DEF Spec

\* A claim is given back by the request that fails, or was left by one of the
\* answers listed in LeavesClaim, by a crash or by a failed query.
THEOREM NoClaimIsForgotten == Spec => []NoAbandonedClaim
<1>1. ClaimsLookedAfter => NoAbandonedClaim
  BY DEF ClaimsLookedAfter
<1> QED
  BY <1>1, ClaimsAreLookedAfter, PTL

-----------------------------------------------------------------------------
(***************************************************************************)
(* Every payout is accounted for, under every fault.  A right to pay is a  *)
(* request between its claim and the end of its payout, a request about to *)
(* give the row back, or a row that may be claimed.  Rights move around    *)
(* and lapse; only a payout reported as failed and a failed query make one *)
(* out of nothing.                                                         *)
(***************************************************************************)
MayYetPay(r) == req[r].pc \in {"prepare", "pay", "release"}

Armed == {r \in Requests : MayYetPay(r)}

RightOf(r) == IF MayYetPay(r) THEN 1 ELSE 0

RowRight == IF status = "pending" THEN 1 ELSE 0

Misreports == failures["replyLost"] + failures["dbError"]

RightsAccounted ==
  /\ IsFiniteSet(baseBy) /\ IsFiniteSet(Armed)
  /\ Cardinality(baseBy) + Cardinality(Armed) + RowRight <= 1 + Misreports

LEMMA MisreportsCounted ==
  ASSUME failures \in [AllFaults -> Nat], failures' = failures \/ \E g : Fault(g)
  PROVE  /\ Misreports \in Nat /\ Misreports' \in Nat /\ Misreports' >= Misreports
         /\ Fault("dbError") \/ Fault("replyLost") => Misreports' = Misreports + 1
BY ForwardingAssumption DEF Misreports, Fault, AllFaults

\* A step of r keeps the account if the rights it leaves, with the payout it
\* makes, are no more than the rights it found and the misreports it met.
LEMMA RightsStep ==
  ASSUME RightsAccounted, NEW r \in Requests, Others(r),
         Misreports \in Nat, Misreports' \in Nat, NEW p \in {0, 1},
         \/ p = 0 /\ baseBy' = baseBy
         \/ p = 1 /\ baseBy' = baseBy \cup {r},
         RightOf(r)' + RowRight' + p + Misreports <= RightOf(r) + RowRight + Misreports'
  PROVE  RightsAccounted'
<1>1. /\ IsFiniteSet(baseBy') /\ Cardinality(baseBy) \in Nat /\ Cardinality(baseBy') \in Nat
      /\ Cardinality(baseBy') <= Cardinality(baseBy) + p
  <2>1. Cardinality(baseBy) \in Nat
    BY FS_CardinalityType DEF RightsAccounted
  <2>2. CASE p = 0 /\ baseBy' = baseBy
    BY <2>1, <2>2 DEF RightsAccounted
  <2>3. CASE p = 1 /\ baseBy' = baseBy \cup {r}
    <3>1. /\ IsFiniteSet(baseBy \cup {r})
          /\ Cardinality(baseBy \cup {r}) =
               IF r \in baseBy THEN Cardinality(baseBy) ELSE Cardinality(baseBy) + 1
      BY FS_AddElement DEF RightsAccounted
    <3> QED
      BY <2>1, <2>3, <3>1
  <2> QED
    BY <2>2, <2>3
<1>2. /\ IsFiniteSet(Armed') /\ Cardinality(Armed) \in Nat /\ Cardinality(Armed') \in Nat
      /\ Cardinality(Armed') + RightOf(r) = Cardinality(Armed) + RightOf(r)'
  <2>1. Cardinality(Armed) \in Nat /\ IsFiniteSet(Armed)
    BY FS_CardinalityType DEF RightsAccounted
  <2>2. r \in Armed <=> MayYetPay(r)
    BY DEF Armed
  <2>3. CASE MayYetPay(r)'
    <3>1. Armed' = Armed \cup {r}
      BY <2>3 DEF Armed, MayYetPay, Others
    <3>2. /\ IsFiniteSet(Armed \cup {r})
          /\ Cardinality(Armed \cup {r}) =
               IF r \in Armed THEN Cardinality(Armed) ELSE Cardinality(Armed) + 1
      BY <2>1, FS_AddElement
    <3> QED
      BY <2>1, <2>2, <2>3, <3>1, <3>2 DEF RightOf
  <2>4. CASE ~MayYetPay(r)'
    <3>1. Armed' = Armed \ {r}
      BY <2>4 DEF Armed, MayYetPay, Others
    <3>2. /\ IsFiniteSet(Armed \ {r})
          /\ Cardinality(Armed \ {r}) =
               IF r \in Armed THEN Cardinality(Armed) - 1 ELSE Cardinality(Armed)
      BY <2>1, FS_RemoveElement
    <3>3. Cardinality(Armed \ {r}) \in Nat
      BY <3>2, FS_CardinalityType
    <3> QED
      BY <2>1, <2>2, <2>4, <3>1, <3>2, <3>3 DEF RightOf
  <2> QED
    BY <2>3, <2>4
<1>3. RightOf(r) \in {0, 1} /\ RightOf(r)' \in {0, 1} /\ RowRight \in {0, 1} /\ RowRight' \in {0, 1}
  BY DEF RightOf, RowRight
<1>4. Cardinality(baseBy) + Cardinality(Armed) + RowRight <= 1 + Misreports
  BY DEF RightsAccounted
<1>5. Cardinality(baseBy') + Cardinality(Armed') + RowRight' <= 1 + Misreports'
  BY <1>1, <1>2, <1>3, <1>4
<1> QED
  BY <1>1, <1>2, <1>5 DEF RightsAccounted

\* Payouts made and rights to make one never outnumber the first right and the
\* misreports: claims, releases, crashes and the expiry job create none.
THEOREM RightsAreAccounted == Spec => []RightsAccounted
<1>1. Init => RightsAccounted
  <2> SUFFICES ASSUME Init PROVE RightsAccounted
    OBVIOUS
  <2>1. Armed = {} /\ baseBy = {} /\ RowRight = 1 /\ Misreports = 0
    BY DEF Init, Armed, MayYetPay, RowRight, Misreports, AllFaults
  <2> QED
    BY <2>1, FS_EmptySet DEF RightsAccounted
<1>2. TypeOK /\ RightsAccounted /\ [Next]_vars => RightsAccounted'
  <2> SUFFICES ASSUME TypeOK, RightsAccounted, [Next]_vars PROVE RightsAccounted'
    OBVIOUS
  <2>0. ReqTyped /\ failures \in [AllFaults -> Nat]
    BY DEF TypeOK, ReqTyped
  <2>a. ASSUME failures' = failures \/ \E g : Fault(g)
        PROVE  /\ Misreports \in Nat /\ Misreports' \in Nat /\ Misreports' >= Misreports
               /\ Fault("dbError") \/ Fault("replyLost") => Misreports' = Misreports + 1
    BY <2>0, <2>a, MisreportsCounted
  <2>1. CASE CustomerPays \/ DeadlinePasses \/ UNCHANGED vars
    BY <2>1 DEF CustomerPays, DeadlinePasses, vars, RightsAccounted, Armed, MayYetPay,
                RowRight, Misreports
  <2>2. CASE ExpireOldPayments
    <3>1. Armed' = Armed /\ baseBy' = baseBy /\ Misreports' = Misreports /\ RowRight' = 0
      BY <2>2 DEF ExpireOldPayments, Armed, MayYetPay, RowRight, Misreports
    <3>2. Cardinality(baseBy) \in Nat /\ Cardinality(Armed) \in Nat /\ Misreports \in Nat
      BY <2>0, FS_CardinalityType DEF RightsAccounted, Misreports, AllFaults
    <3> QED
      BY <3>1, <3>2 DEF RightsAccounted, RowRight
  <2>3. ASSUME NEW r \in Requests, Others(r), UNCHANGED <<status, baseBy>>,
               failures' = failures \/ \E g : Fault(g),
               MayYetPay(r)' => MayYetPay(r) \/ Fault("dbError")
        PROVE  RightsAccounted'
    <3>1. RowRight' = RowRight /\ RowRight \in {0, 1}
      BY <2>3 DEF RowRight
    <3>2. RightOf(r)' + Misreports <= RightOf(r) + Misreports'
      BY <2>3, <2>a DEF RightOf
    <3>3. RightOf(r) \in {0, 1} /\ RightOf(r)' \in {0, 1}
      BY DEF RightOf
    <3>4. RightOf(r)' + RowRight' + 0 + Misreports <= RightOf(r) + RowRight + Misreports'
      BY <2>3, <2>a, <3>1, <3>2, <3>3
    <3> QED
      BY <2>3, <2>a, <3>4, RightsStep
  <2>4. ASSUME NEW r \in Requests, DeliverWebhook(r) PROVE RightsAccounted'
    BY <2>0, <2>3, <2>4, BeginEffect DEF DeliverWebhook, MayYetPay
  <2>5. ASSUME NEW r \in Requests, NEW e \in AllEndpoints, CallEndpoint(r, e)
        PROVE  RightsAccounted'
    BY <2>0, <2>3, <2>5, BeginEffect DEF CallEndpoint, MayYetPay
  <2>6. ASSUME NEW r \in Requests, NwcForwardBase(r) PROVE RightsAccounted'
    <3>1. UNCHANGED <<status, baseBy>> /\ (failures' = failures \/ \E g : Fault(g))
      BY <2>6 DEF NwcForwardBase
    <3>2. Others(r) /\ ~MayYetPay(r)'
      BY <2>0, <2>6, NwcForwardEffect DEF MayYetPay
    <3> QED
      BY <2>3, <3>1, <3>2
  <2>7. ASSUME NEW r \in Requests, NwcSendTips(r) PROVE RightsAccounted'
    <3>1. UNCHANGED <<status, baseBy, failures>>
      BY <2>7 DEF NwcSendTips
    <3>2. Others(r) /\ ~MayYetPay(r)'
      BY <2>0, <2>7, NwcTipsEffect DEF MayYetPay
    <3> QED
      BY <2>3, <3>1, <3>2
  <2>8. ASSUME NEW r \in Requests, ClaimPayment(r) PROVE RightsAccounted'
    <3>1. /\ req[r].pc = "claim" /\ baseBy' = baseBy
          /\ failures' = failures \/ \E g : Fault(g)
      BY <2>8 DEF ClaimPayment
    <3>2. RightOf(r) = 0 /\ RightOf(r)' \in {0, 1} /\ RowRight \in {0, 1} /\ RowRight' \in {0, 1}
      BY <3>1 DEF RightOf, MayYetPay, RowRight
    <3>3. CASE /\ Claimable /\ status' = "processing"
               /\ req' = [req EXCEPT ![r] = [@ EXCEPT !.pc = "prepare", !.holds = TRUE]]
      <4>1. Others(r) /\ RowRight = 1 /\ RowRight' = 0
        BY <2>0, <3>3, ClaimEffect DEF Claimable, RowRight
      <4>2. RightOf(r)' + RowRight' + 0 + Misreports <= RightOf(r) + RowRight + Misreports'
        BY <2>a, <3>1, <3>2, <4>1
      <4> QED
        BY <2>a, <3>1, <4>1, <4>2, RightsStep
    <3>4. CASE Goto(r, "check") /\ UNCHANGED status
      BY <2>0, <2>3, <3>1, <3>4, GotoEffect DEF MayYetPay
    <3>5. CASE /\ Fault("dbError") /\ Throw(r)
               /\ status' \in {status, IF Claimable THEN "processing" ELSE status}
      <4>1. Others(r) /\ RowRight' <= RowRight
        <5>1. status' = "pending" => status = "pending"
          BY <3>5 DEF Claimable
        <5>2. RowRight' <= RowRight
          BY <5>1 DEF RowRight
        <5> QED
          BY <2>0, <3>5, <5>2, ThrowEffect
      <4>2. Misreports' = Misreports + 1
        BY <2>a, <3>1, <3>5
      <4>3. RightOf(r)' + RowRight' + 0 + Misreports <= RightOf(r) + RowRight + Misreports'
        BY <2>a, <3>1, <3>2, <4>1, <4>2
      <4> QED
        BY <2>a, <3>1, <4>1, <4>3, RightsStep
    <3> QED
      BY <2>8, <3>3, <3>4, <3>5 DEF ClaimPayment
  <2>9. ASSUME NEW r \in Requests, RefuseClaim(r) PROVE RightsAccounted'
    <3>1. UNCHANGED <<status, baseBy>> /\ (failures' = failures \/ \E g : Fault(g))
      BY <2>9 DEF RefuseClaim
    <3>2. CASE Reply(r, RefusalReply(req[r].at))
      BY <2>0, <2>3, <3>1, <3>2, ReplyEffect DEF MayYetPay
    <3>3. CASE Fault("dbError") /\ Throw(r)
      BY <2>0, <2>3, <3>1, <3>3, ThrowEffect
    <3> QED
      BY <2>9, <3>2, <3>3 DEF RefuseClaim
  <2>10. ASSUME NEW r \in Requests, Prepare(r) PROVE RightsAccounted'
    <3>1. req[r].pc = "prepare" /\ Others(r) /\ UNCHANGED <<status, baseBy>>
      BY <2>0, <2>10, PrepareEffect
    <3>2. failures' = failures \/ \E g : Fault(g)
      BY <2>10 DEF Prepare, WebhookDispatch, WithTipsPrepare, LnAddressPrepare,
             NpubCashPrepare, NwcDeferPrepare, NwcTipsPrepare, PayInvoicePrepare
    <3> QED
      BY <2>3, <3>1, <3>2 DEF MayYetPay
  <2>11. ASSUME NEW r \in Requests, PayBase(r) PROVE RightsAccounted'
    <3>1. /\ req[r].pc = "pay" /\ status' = status
          /\ failures' = failures \/ \E g : Fault(g)
      BY <2>11 DEF PayBase
    <3>2. /\ RightOf(r) = 1 /\ RightOf(r)' \in {0, 1}
          /\ RowRight' = RowRight /\ RowRight \in {0, 1}
      BY <3>1 DEF RightOf, MayYetPay, RowRight
    <3>3. CASE /\ baseBy' = baseBy \cup {r}
               /\ IF req[r].at = "pay-invoice" THEN Reply(r, "ok") ELSE Goto(r, AfterBase)
      <4>1. Others(r) /\ RightOf(r)' = 0
        <5>1. CASE Reply(r, "ok")
          BY <2>0, <5>1, ReplyEffect DEF RightOf, MayYetPay
        <5>2. CASE Goto(r, AfterBase)
          BY <2>0, <5>2, GotoEffect DEF RightOf, MayYetPay, AfterBase
        <5> QED
          BY <3>3, <5>1, <5>2
      <4>2. RightOf(r)' + RowRight' + 1 + Misreports <= RightOf(r) + RowRight + Misreports'
        BY <2>a, <3>1, <3>2, <4>1
      <4> QED
        BY <2>a, <3>1, <3>3, <4>1, <4>2, RightsStep
    <3>4. CASE PayoutFailed(r) /\ baseBy' = baseBy
      <4>1. Others(r)
        BY <2>0, <3>4, ReplyEffect, ThrowEffect DEF PayoutFailed
      <4> QED
        BY <2>3, <3>1, <3>4, <4>1 DEF MayYetPay
    <3>5. CASE Fault("replyLost") /\ PayoutFailed(r) /\ baseBy' = baseBy \cup {r}
      <4>1. Others(r)
        BY <2>0, <3>5, ReplyEffect, ThrowEffect DEF PayoutFailed
      <4>2. RightOf(r)' + RowRight' + 1 + Misreports <= RightOf(r) + RowRight + Misreports'
        BY <2>a, <3>1, <3>2, <3>5
      <4> QED
        BY <2>a, <3>1, <3>5, <4>1, <4>2, RightsStep
    <3> QED
      BY <2>11, <3>3, <3>4, <3>5 DEF PayBase
  <2>12. ASSUME NEW r \in Requests, SendTips(r) PROVE RightsAccounted'
    <3>1. Others(r) /\ ~MayYetPay(r)'
      <4>1. CASE Goto(r, "complete")
        BY <2>0, <4>1, GotoEffect DEF MayYetPay
      <4>2. CASE Reply(r, "error")
        BY <2>0, <4>2, ReplyEffect DEF MayYetPay
      <4> QED
        BY <2>12, <4>1, <4>2 DEF SendTips
    <3>2. UNCHANGED <<status, baseBy>> /\ (failures' = failures \/ \E g : Fault(g))
      BY <2>12 DEF SendTips
    <3> QED
      BY <2>3, <3>1, <3>2
  <2>13. ASSUME NEW r \in Requests, CompletePayment(r) PROVE RightsAccounted'
    <3>1. /\ req[r].pc = "complete" /\ baseBy' = baseBy
          /\ failures' = failures \/ \E g : Fault(g)
      BY <2>13 DEF CompletePayment
    <3>2. /\ RightOf(r) = 0 /\ RightOf(r)' \in {0, 1}
          /\ RowRight' <= RowRight /\ RowRight \in {0, 1} /\ RowRight' \in {0, 1}
      BY <2>13, <3>1 DEF RightOf, MayYetPay, RowRight, CompletePayment
    <3>3. Others(r) /\ (RightOf(r)' = 0 \/ Fault("dbError"))
      BY <2>0, <2>13, ReplyEffect, ThrowEffect DEF CompletePayment, RightOf, MayYetPay
    <3>4. RightOf(r)' + RowRight' + 0 + Misreports <= RightOf(r) + RowRight + Misreports'
      BY <2>a, <3>1, <3>2, <3>3
    <3> QED
      BY <2>a, <3>1, <3>3, <3>4, RightsStep
  <2>14. ASSUME NEW r \in Requests, ReleaseFailedClaim(r) PROVE RightsAccounted'
    <3>1. /\ req[r].pc = "release" /\ baseBy' = baseBy /\ Reply(r, req[r].reply)
          /\ failures' = failures \/ \E g : Fault(g)
      BY <2>14 DEF ReleaseFailedClaim
    <3>2. Others(r) /\ RightOf(r)' = 0 /\ RightOf(r) = 1
      BY <2>0, <3>1, ReplyEffect DEF RightOf, MayYetPay
    <3>3. RowRight' <= RowRight + 1 /\ RowRight \in {0, 1} /\ RowRight' \in {0, 1}
      BY DEF RowRight
    <3>4. RightOf(r)' + RowRight' + 0 + Misreports <= RightOf(r) + RowRight + Misreports'
      BY <2>a, <3>1, <3>2, <3>3
    <3> QED
      BY <2>a, <3>1, <3>2, <3>4, RightsStep
  <2>15. ASSUME NEW r \in Requests, Crash(r) PROVE RightsAccounted'
    BY <2>0, <2>3, <2>15, CrashEffect DEF Crash, MayYetPay
  <2> QED
    BY <2>1, <2>2, <2>4, <2>5, <2>6, <2>7, <2>8, <2>9, <2>10, <2>11, <2>12,
       <2>13, <2>14, <2>15 DEF Next, Handle
<1> QED
  BY <1>1, <1>2, TypeCorrect, PTL DEF Spec

\* Every payout after the first is paid for by a payment that moved the money and
\* reported a failure, or by a failed query, for any number of requests.
THEOREM EveryPayoutAccounted == Spec => []PayoutsAccounted
<1>1. TypeOK /\ RightsAccounted => PayoutsAccounted
  <2> SUFFICES ASSUME TypeOK, RightsAccounted PROVE PayoutsAccounted
    OBVIOUS
  <2>1. Cardinality(baseBy) \in Nat /\ Cardinality(Armed) \in Nat
    BY FS_CardinalityType DEF RightsAccounted
  <2>2. failures["replyLost"] \in Nat /\ failures["dbError"] \in Nat
    BY DEF TypeOK, AllFaults
  <2> QED
    BY <2>1, <2>2 DEF RightsAccounted, PayoutsAccounted, Misreports, RowRight
<1> QED
  BY <1>1, TypeCorrect, RightsAreAccounted, PTL

-----------------------------------------------------------------------------
(***************************************************************************)
(* What a component gains by implementing OncePayout, whatever its phases, *)
(* its holder and its payouts stand for: these variables are those of any  *)
(* such component, and those of PaymentForwarding do not occur.            *)
(***************************************************************************)
VARIABLES phase, holder, payouts

Once == INSTANCE OncePayout

\* Whoever holds a payment, or has been paid by it, keeps it from being taken.
OnceInv ==
  /\ phase \in {"open", "taken", "closed"}
  /\ holder \in Requests \cup {NoOne}
  /\ payouts \subseteq Requests
  /\ holder # NoOne => phase # "open"
  /\ payouts # {} => phase # "open"
  /\ \A r, s \in payouts : r = s

LEMMA OnceInvInductive ==
  ASSUME NoOne \notin Requests, OnceInv, [Once!Next]_(Once!vars)
  PROVE  OnceInv'
<1>1. ASSUME NEW r \in Requests, Once!Take(r) PROVE OnceInv'
  BY <1>1 DEF OnceInv, Once!Take
<1>2. ASSUME NEW r \in Requests, Once!PayOut(r) PROVE OnceInv'
  BY <1>2 DEF OnceInv, Once!PayOut
<1>3. ASSUME NEW r \in Requests, Once!GiveBack(r) PROVE OnceInv'
  BY <1>3 DEF OnceInv, Once!GiveBack
<1>4. ASSUME NEW r \in Requests, Once!Settle(r) PROVE OnceInv'
  BY <1>4 DEF OnceInv, Once!Settle
<1>5. ASSUME NEW r \in Requests, Once!Abandon(r) PROVE OnceInv'
  BY <1>5 DEF OnceInv, Once!Abandon
<1>6. CASE Once!Close
  BY <1>6 DEF OnceInv, Once!Close
<1>7. CASE UNCHANGED Once!vars
  BY <1>7 DEF OnceInv, Once!vars
<1> QED
  BY <1>1, <1>2, <1>3, <1>4, <1>5, <1>6, <1>7 DEF Once!Next

\* Whatever implements OncePayout pays a payment out at most once.
THEOREM PaysOnce ==
  ASSUME NoOne \notin Requests
  PROVE  Once!Spec => [](\A r, s \in payouts : r = s)
<1>1. Once!Init => OnceInv
  BY DEF Once!Init, OnceInv
<1>2. OnceInv => \A r, s \in payouts : r = s
  BY DEF OnceInv
<1> QED
  BY <1>1, <1>2, OnceInvInductive, PTL DEF Once!Spec

\* Whatever implements OncePayout lets a payout stand: nothing is paid any more
\* and nobody can take the payment again.
THEOREM PayoutStands ==
  ASSUME NoOne \notin Requests
  PROVE  Once!Spec => [][payouts # {} => payouts' = payouts /\ phase' # "open"]_(Once!vars)
<1> DEFINE Stands == payouts # {} => payouts' = payouts /\ phase' # "open"
<1>1. Once!Init => OnceInv
  BY DEF Once!Init, OnceInv
<1>2. ASSUME OnceInv, [Once!Next]_(Once!vars) PROVE [Stands]_(Once!vars)
  <2>1. ASSUME NEW r \in Requests, Once!Settle(r) PROVE Stands
    BY <1>2, <2>1 DEF OnceInv, Once!Settle
  <2>2. ASSUME NEW r \in Requests,
               Once!Take(r) \/ Once!PayOut(r) \/ Once!GiveBack(r) \/ Once!Abandon(r)
        PROVE  Stands
    BY <1>2, <2>2 DEF OnceInv, Once!Take, Once!PayOut, Once!GiveBack, Once!Abandon
  <2>3. CASE Once!Close
    BY <2>3 DEF Once!Close
  <2> QED
    BY <1>2, <2>1, <2>2, <2>3 DEF Once!Next
<1> QED
  BY <1>1, <1>2, OnceInvInductive, PTL DEF Once!Spec
=============================================================================
