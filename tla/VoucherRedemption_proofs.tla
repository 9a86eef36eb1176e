----------------------- MODULE VoucherRedemption_proofs -----------------------
(***************************************************************************)
(* Theorems about VoucherRedemption for any number of wallets, invoices,   *)
(* cancellations and faults.                                               *)
(***************************************************************************)
EXTENDS VoucherRedemption, FiniteSetTheorems, TLAPS

LEMMA FaultTyped ==
  ASSUME failures \in [AllFaults -> Nat], NEW f, Fault(f)
  PROVE  /\ failures' \in [AllFaults -> Nat]
         /\ \A g \in AllFaults : failures'[g] >= failures[g]
         /\ \A g \in AllFaults : g # f => failures'[g] = failures[g]
         /\ f \in AllFaults /\ failures'[f] = failures[f] + 1
BY VoucherAssumption DEF Fault

\* Only wallets redeem, and a wallet pays once, before it is through.
Roles ==
  /\ \A r \in Requests : req[r] \in {"lookup", "claim", "pay", "unclaim"} => r \in Redeemers
  /\ \A r \in accepted : req[r] \in {"ok", "unclaim", "error", "crashed"}

Typed == TypeOK /\ Roles

LEMMA MoveTyped ==
  ASSUME req \in [Requests -> Pcs], NEW r \in Requests, NEW p \in Pcs, Goto(r, p)
  PROVE  req' \in [Requests -> Pcs] /\ req'[r] = p
         /\ \A s \in Requests \ {r} : req'[s] = req[s]
BY DEF Goto

LEMMA SweptTyped ==
  ASSUME TypeOK
  PROVE  Swept \in Statuses
BY DEF TypeOK, Swept, Expires, Statuses

LEMMA RedeemStepTyped ==
  ASSUME Typed, NEW r \in Requests,
         LookupVoucher(r) \/ ClaimVoucher(r) \/ UnclaimVoucher(r)
  PROVE  Typed'
<1> USE DEF Typed
<1>1. /\ failures' \in [AllFaults -> Nat]
      /\ UNCHANGED <<past, old, invoice, accepted, inflight, returned, shown>>
  BY FaultTyped DEF LookupVoucher, ClaimVoucher, UnclaimVoucher, TypeOK
<1>2. status' \in Statuses
  BY SweptTyped DEF LookupVoucher, ClaimVoucher, UnclaimVoucher, TypeOK, Statuses
<1>3. req[r] \in {"lookup", "claim", "unclaim"}
  BY DEF LookupVoucher, ClaimVoucher, UnclaimVoucher
<1>4. \E p \in {"claim", "pay", "error"} : Goto(r, p) /\ (p # "error" => req[r] # "unclaim")
  <2>1. CASE LookupVoucher(r)
    <3>1. req[r] = "lookup" /\ (Goto(r, "claim") \/ Goto(r, "error"))
      BY <2>1 DEF LookupVoucher
    <3> QED
      BY <3>1
  <2>2. CASE ClaimVoucher(r)
    <3>1. req[r] = "claim" /\ (Goto(r, "pay") \/ Goto(r, "error"))
      BY <2>2 DEF ClaimVoucher
    <3> QED
      BY <3>1
  <2>3. CASE UnclaimVoucher(r)
    <3>1. Goto(r, "error")
      BY <2>3 DEF UnclaimVoucher
    <3> QED
      BY <3>1
  <2> QED
    BY <2>1, <2>2, <2>3
<1>5. PICK p \in {"claim", "pay", "error"} : Goto(r, p) /\ (p # "error" => req[r] # "unclaim")
  BY <1>4
<1>6. p \in Pcs
  BY DEF Pcs
<1>7. /\ req' \in [Requests -> Pcs] /\ req'[r] = p
      /\ \A s \in Requests \ {r} : req'[s] = req[s]
  BY <1>5, <1>6, MoveTyped DEF TypeOK
<1>8. Roles'
  BY <1>1, <1>3, <1>5, <1>7 DEF Roles, TypeOK, Requests
<1>9. TypeOK'
  BY <1>1, <1>2, <1>7 DEF TypeOK
<1> QED
  BY <1>8, <1>9

LEMMA PayTyped ==
  ASSUME Typed, NEW r \in Requests, PayVoucherInvoice(r)
  PROVE  Typed'
<1> USE DEF Typed
<1>1. req[r] = "pay" /\ r \in Redeemers /\ r \notin accepted
  BY DEF PayVoucherInvoice, Roles
<1>2. PICK p \in {"ok", "unclaim"} : Goto(r, p)
  BY DEF PayVoucherInvoice, PaymentFailed
<1>3. /\ req' \in [Requests -> Pcs] /\ req'[r] = p
      /\ \A s \in Requests \ {r} : req'[s] = req[s]
  <2>1. p \in Pcs
    BY DEF Pcs
  <2> QED
    BY <1>2, <2>1, MoveTyped DEF TypeOK
<1>4. /\ failures' \in [AllFaults -> Nat]
      /\ UNCHANGED <<status, past, old, invoice, returned, shown>>
  BY FaultTyped DEF PayVoucherInvoice, TypeOK
<1>5. /\ accepted' \in {accepted, accepted \cup {r}}
      /\ inflight' = inflight \/ (inflight' = inflight \cup {r} /\ accepted' = accepted \cup {r})
  BY DEF PayVoucherInvoice
<1>6. TypeOK'
  BY <1>1, <1>3, <1>4, <1>5 DEF TypeOK
<1>7. Roles'
  BY <1>1, <1>3, <1>5 DEF Roles, TypeOK, Requests
<1> QED
  BY <1>6, <1>7

LEMMA CancelStepTyped ==
  ASSUME Typed, NEW r \in Requests, CheckCancellable(r) \/ CancelVoucher(r)
  PROVE  Typed'
<1> USE DEF Typed
<1>1. /\ failures' \in [AllFaults -> Nat]
      /\ UNCHANGED <<past, old, invoice, accepted, inflight, returned, shown>>
  BY FaultTyped DEF CheckCancellable, CancelVoucher, TypeOK
<1>2. status' \in Statuses
  BY DEF CheckCancellable, CancelVoucher, TypeOK, Statuses
<1>3. req[r] \in {"check", "cancel"}
  BY DEF CheckCancellable, CancelVoucher
<1>4. PICK p \in {"cancel", "ok", "error"} : Goto(r, p)
  <2>1. CASE CheckCancellable(r)
    <3>1. Goto(r, "cancel") \/ Goto(r, "error")
      BY <2>1 DEF CheckCancellable
    <3> QED
      BY <3>1
  <2>2. CASE CancelVoucher(r)
    <3>1. Goto(r, "ok") \/ Goto(r, "error")
      BY <2>2 DEF CancelVoucher
    <3> QED
      BY <3>1
  <2> QED
    BY <2>1, <2>2
<1>5. /\ req' \in [Requests -> Pcs] /\ req'[r] = p
      /\ \A s \in Requests \ {r} : req'[s] = req[s]
  <2>1. p \in Pcs
    BY DEF Pcs
  <2> QED
    BY <1>4, <2>1, MoveTyped DEF TypeOK
<1>6. TypeOK'
  BY <1>1, <1>2, <1>5 DEF TypeOK
<1>7. Roles'
  BY <1>1, <1>3, <1>5 DEF Roles, TypeOK, Requests
<1> QED
  BY <1>6, <1>7

LEMMA OtherStepTyped ==
  ASSUME Typed,
         \/ DeadlinePasses \/ RetentionPasses \/ LazyCleanup \/ PollVoucherStatus
         \/ \E r \in Redeemers : BeginRedeem(r) \/ PendingResolves(r)
         \/ \E r \in Cancellers : BeginCancel(r)
         \/ \E r \in Requests : Crash(r)
  PROVE  Typed'
<1> USE DEF Typed, Requests
<1>1. CASE DeadlinePasses \/ RetentionPasses \/ PollVoucherStatus
  BY <1>1 DEF DeadlinePasses, RetentionPasses, PollVoucherStatus, TypeOK, Roles
<1>2. CASE LazyCleanup
  BY <1>2, SweptTyped DEF LazyCleanup, TypeOK, Roles
<1>3. ASSUME NEW r \in Redeemers, PendingResolves(r) PROVE Typed'
  BY <1>3 DEF PendingResolves, TypeOK, Roles
<1>4. ASSUME NEW r \in Requests, NEW p \in Pcs, Goto(r, p),
             p \in {"lookup", "check", "crashed"}, p = "lookup" => r \in Redeemers,
             r \notin accepted \/ p = "crashed",
             failures' \in [AllFaults -> Nat],
             UNCHANGED <<status, past, old, invoice, accepted, inflight, returned, shown>>
      PROVE  Typed'
  <2>1. /\ req' \in [Requests -> Pcs] /\ req'[r] = p
        /\ \A s \in Requests \ {r} : req'[s] = req[s]
    BY <1>4, MoveTyped DEF TypeOK
  <2>2. TypeOK'
    BY <1>4, <2>1 DEF TypeOK
  <2>3. Roles'
    BY <1>4, <2>1 DEF Roles, TypeOK
  <2> QED
    BY <2>2, <2>3
<1>5. {"lookup", "check", "crashed"} \subseteq Pcs
  BY DEF Pcs
<1>6. ASSUME NEW r \in Redeemers, BeginRedeem(r) PROVE Typed'
  <2>1. failures' \in [AllFaults -> Nat]
    BY <1>6, FaultTyped DEF BeginRedeem, TypeOK
  <2>2. r \notin accepted
    BY <1>6 DEF BeginRedeem, Roles
  <2> QED
    BY <1>4, <1>5, <1>6, <2>1, <2>2 DEF BeginRedeem
<1>7. ASSUME NEW r \in Cancellers, BeginCancel(r) PROVE Typed'
  <2>1. r \notin accepted
    BY <1>7 DEF BeginCancel, Roles
  <2> QED
    BY <1>4, <1>5, <1>7, <2>1 DEF BeginCancel, TypeOK
<1>8. ASSUME NEW r \in Requests, Crash(r) PROVE Typed'
  <2>1. failures' \in [AllFaults -> Nat]
    BY <1>8, FaultTyped DEF Crash, TypeOK
  <2> QED
    BY <1>4, <1>5, <1>8, <2>1 DEF Crash
<1> QED
  BY <1>1, <1>2, <1>3, <1>6, <1>7, <1>8

LEMMA AlwaysTyped == Spec => []Typed
<1>1. Init => Typed
  <2> SUFFICES ASSUME Init PROVE Typed
    OBVIOUS
  <2>1. req \in [Requests -> Pcs] /\ failures \in [AllFaults -> Nat]
    BY DEF Init, Pcs
  <2> QED
    BY <2>1 DEF Init, Typed, TypeOK, Roles, Statuses
<1>2. Typed /\ [Next]_vars => Typed'
  <2>1. ASSUME Typed, UNCHANGED vars PROVE Typed'
    BY <2>1 DEF vars, Typed, TypeOK, Roles
  <2> QED
    BY <2>1, RedeemStepTyped, PayTyped, CancelStepTyped, OtherStepTyped DEF Next, Handle
<1> QED
  BY <1>1, <1>2, PTL DEF Spec

\* The status stays in its column's type and the books of payments in theirs,
\* under every fault.
THEOREM TypeCorrect == Spec => []TypeOK
<1>1. Typed => TypeOK
  BY DEF Typed
<1> QED
  BY <1>1, AlwaysTyped, PTL

-----------------------------------------------------------------------------
(***************************************************************************)
(* The voucher is redeemed once.  RedeemedOnce is not inductive: it takes  *)
(* that one request at most stands between the claim and its answer, that  *)
(* the voucher is claimed as long as it does, and that whoever may still   *)
(* pay, or give back, finds no payment but those whose reply was lost.     *)
(***************************************************************************)
Lost == failures["replyLost"]

Holding(r) == req[r] \in {"pay", "unclaim"}

Unpaid == status \in {"ACTIVE", "CANCELLED", "EXPIRED"} \/ \E r \in Requests : Holding(r)

Guarded ==
  /\ \A r, s \in Requests : Holding(r) /\ Holding(s) => r = s
  /\ \A r \in Requests : Holding(r) => status = "CLAIMED" /\ ~old
  /\ old => past \/ status # "ACTIVE"

Books ==
  /\ IsFiniteSet(Spent)
  /\ Cardinality(Spent) <= 1 + Lost
  /\ Unpaid => Cardinality(Spent) <= Lost
  /\ Unpaid /\ Lost = 0 => accepted = {}

RedeemInv == Guarded /\ Books

LEMMA SpentShrinks ==
  ASSUME IsFiniteSet(Spent), Spent' \subseteq Spent
  PROVE  /\ IsFiniteSet(Spent)'
         /\ Cardinality(Spent) \in Nat /\ Cardinality(Spent)' \in Nat
         /\ Cardinality(Spent)' <= Cardinality(Spent)
BY FS_Subset, FS_CardinalityType

LEMMA LostGrows ==
  ASSUME failures \in [AllFaults -> Nat], UNCHANGED failures \/ \E f \in Faults : Fault(f)
  PROVE  Lost \in Nat /\ Lost' \in Nat /\ Lost' >= Lost
<1>1. "replyLost" \in AllFaults
  BY DEF AllFaults
<1>2. CASE UNCHANGED failures
  BY <1>1, <1>2 DEF Lost
<1>3. ASSUME NEW f \in Faults, Fault(f) PROVE Lost \in Nat /\ Lost' \in Nat /\ Lost' >= Lost
  BY <1>1, <1>3, FaultTyped DEF Lost
<1> QED
  BY <1>2, <1>3

\* A step that takes no claim and pays nothing.
LEMMA NoClaimNoPayment ==
  ASSUME RedeemInv,
         \A s \in Requests : Holding(s)' => Holding(s) /\ status' = status /\ ~old',
         old' => past' \/ status' # "ACTIVE",
         Unpaid' => Unpaid,
         Spent' \subseteq Spent, accepted' = accepted,
         Lost \in Nat, Lost' \in Nat, Lost' >= Lost
  PROVE  RedeemInv'
<1>1. Guarded'
  BY DEF RedeemInv, Guarded
<1>2. Books'
  BY SpentShrinks DEF RedeemInv, Books
<1> QED
  BY <1>1, <1>2 DEF RedeemInv

LEMMA ClaimKeepsInv ==
  ASSUME Typed, RedeemInv, NEW r \in Requests, ClaimVoucher(r)
  PROVE  RedeemInv'
<1>1. /\ Lost \in Nat /\ Lost' \in Nat /\ Lost' >= Lost
      /\ UNCHANGED <<past, old, accepted, returned>>
  BY LostGrows DEF ClaimVoucher, Fault, Typed, TypeOK
<1>2. Spent' \subseteq Spent
  BY <1>1 DEF Spent
<1>3. CASE Claimable /\ status' = "CLAIMED" /\ Goto(r, "pay")
  <2>1. \A s \in Requests : req'[s] = IF s = r THEN "pay" ELSE req[s]
    BY <1>3 DEF Goto, Typed, TypeOK
  <2>2. \A s \in Requests : ~Holding(s)
    BY <1>3 DEF RedeemInv, Guarded, Claimable
  <2>3. Guarded'
    BY <1>1, <1>3, <2>1, <2>2 DEF RedeemInv, Guarded, Holding, Claimable
  <2>4. Unpaid
    BY <1>3 DEF Unpaid, Claimable
  <2>5. Books'
    BY <1>1, <1>2, <2>4, SpentShrinks DEF RedeemInv, Books
  <2> QED
    BY <2>3, <2>5 DEF RedeemInv
<1>4. CASE Goto(r, "error") /\ status' \in {status, IF Claimable THEN "CLAIMED" ELSE status}
  <2>1. \A s \in Requests : req'[s] = IF s = r THEN "error" ELSE req[s]
    BY <1>4 DEF Goto, Typed, TypeOK
  <2>2. \A s \in Requests : Holding(s) => ~Claimable
    BY DEF RedeemInv, Guarded, Claimable
  <2>3. \A s \in Requests : Holding(s)' => Holding(s) /\ status' = status /\ ~old'
    BY <1>1, <1>4, <2>1, <2>2 DEF Holding, RedeemInv, Guarded
  <2>4. Unpaid' => Unpaid
    BY <1>4, <2>3 DEF Unpaid
  <2>5. old' => past' \/ status' # "ACTIVE"
    BY <1>1, <1>4 DEF RedeemInv, Guarded
  <2> QED
    BY <1>1, <1>2, <2>3, <2>4, <2>5, NoClaimNoPayment
<1> QED
  BY <1>3, <1>4 DEF ClaimVoucher

LEMMA PayKeepsInv ==
  ASSUME Typed, RedeemInv, NEW r \in Requests, PayVoucherInvoice(r)
  PROVE  RedeemInv'
<1>1. /\ Holding(r) /\ status = "CLAIMED" /\ ~old
      /\ UNCHANGED <<status, past, old, returned>>
      /\ Cardinality(Spent) <= Lost /\ (Lost = 0 => accepted = {})
  BY DEF PayVoucherInvoice, Holding, Unpaid, RedeemInv, Guarded, Books
<1>2. Lost \in Nat /\ Lost' \in Nat /\ Lost' >= Lost
  BY LostGrows DEF PayVoucherInvoice, Fault, Typed, TypeOK
<1>3. PICK p \in {"ok", "unclaim"} :
        /\ Goto(r, p)
        /\ \/ accepted' = accepted
           \/ accepted' = accepted \cup {r} /\ (p = "unclaim" => Fault("replyLost"))
  <2>1. CASE Goto(r, "ok")
    BY <2>1 DEF PayVoucherInvoice
  <2>2. CASE ~Goto(r, "ok")
    <3>1. /\ Goto(r, "unclaim")
          /\ \/ accepted' = accepted
             \/ accepted' = accepted \cup {r} /\ Fault("replyLost")
      BY <2>2 DEF PayVoucherInvoice, PaymentFailed
    <3> QED
      BY <3>1
  <2> QED
    BY <2>1, <2>2
<1>4. \A s \in Requests : req'[s] = IF s = r THEN p ELSE req[s]
  BY <1>3 DEF Goto, Typed, TypeOK
<1>5. \A s \in Requests : Holding(s)' => s = r /\ p = "unclaim"
  BY <1>1, <1>3, <1>4 DEF Holding, RedeemInv, Guarded
<1>6. Guarded'
  BY <1>1, <1>5 DEF RedeemInv, Guarded
<1>7. Unpaid' => p = "unclaim"
  BY <1>1, <1>5 DEF Unpaid
<1>8. IsFiniteSet(Spent) /\ Cardinality(Spent) \in Nat
  BY FS_CardinalityType DEF RedeemInv, Books
<1>9. CASE accepted' = accepted
  <2>1. Spent' \subseteq Spent
    BY <1>1, <1>9 DEF Spent
  <2>2. Books'
    BY <1>1, <1>2, <1>8, <1>9, <2>1, SpentShrinks DEF Books
  <2> QED
    BY <1>6, <2>2 DEF RedeemInv
<1>10. CASE accepted' = accepted \cup {r} /\ (p = "unclaim" => Fault("replyLost"))
  <2>1. /\ IsFiniteSet(Spent \cup {r})
        /\ Cardinality(Spent \cup {r}) \in Nat
        /\ Cardinality(Spent \cup {r}) <= Cardinality(Spent) + 1
    BY <1>8, FS_AddElement, FS_CardinalityType
  <2>2. Spent' \subseteq Spent \cup {r}
    BY <1>1, <1>10 DEF Spent
  <2>3. /\ IsFiniteSet(Spent)'
        /\ Cardinality(Spent)' \in Nat
        /\ Cardinality(Spent)' <= Cardinality(Spent) + 1
    BY <1>8, <2>1, <2>2, FS_Subset, FS_CardinalityType
  <2>4. p = "unclaim" => Lost' = Lost + 1
    BY <1>10, FaultTyped DEF Lost, Typed, TypeOK
  <2>5. Books'
    BY <1>1, <1>2, <1>7, <1>8, <2>3, <2>4 DEF Books
  <2> QED
    BY <1>6, <2>5 DEF RedeemInv
<1> QED
  BY <1>3, <1>9, <1>10

\* What lazyCleanup does to a voucher that somebody holds: nothing.
LEMMA SweepKeepsInv ==
  ASSUME RedeemInv, NEW s \in {status, Swept}
  PROVE  /\ \A r \in Requests : Holding(r) => s = status
         /\ s \in {"ACTIVE", "CANCELLED", "EXPIRED"} => Unpaid
         /\ s = "ACTIVE" => status = "ACTIVE"
BY DEF RedeemInv, Guarded, Swept, Expires, Unpaid

LEMMA HandlerKeepsInv ==
  ASSUME Typed, RedeemInv, NEW r \in Requests,
         \/ LookupVoucher(r) \/ UnclaimVoucher(r) \/ CheckCancellable(r)
         \/ CancelVoucher(r) \/ Crash(r)
  PROVE  RedeemInv'
<1>1. /\ Lost \in Nat /\ Lost' \in Nat /\ Lost' >= Lost
      /\ UNCHANGED <<past, old, accepted, returned>>
  BY LostGrows
     DEF LookupVoucher, UnclaimVoucher, CheckCancellable, CancelVoucher, Crash, Fault, Typed, TypeOK
<1>2. Spent' \subseteq Spent /\ (old' => past' \/ status' # "ACTIVE")
  <2>1. Spent' \subseteq Spent
    BY <1>1 DEF Spent
  <2>2. old /\ status' = "ACTIVE" => status = "ACTIVE"
    <3>1. CASE UnclaimVoucher(r)
      BY <3>1 DEF UnclaimVoucher, Holding, RedeemInv, Guarded
    <3>2. CASE ~UnclaimVoucher(r)
      BY <3>2 DEF LookupVoucher, CheckCancellable, CancelVoucher, Crash, Swept, Expires
    <3> QED
      BY <3>1, <3>2
  <2> QED
    BY <1>1, <2>1, <2>2 DEF RedeemInv, Guarded
<1> DEFINE Leaves == \E p \in Pcs \ {"pay", "unclaim"} : Goto(r, p)
<1>3. Leaves
  <2>1. \/ Goto(r, "claim") \/ Goto(r, "error") \/ Goto(r, "cancel")
        \/ Goto(r, "ok") \/ Goto(r, "crashed")
    BY DEF LookupVoucher, UnclaimVoucher, CheckCancellable, CancelVoucher, Crash
  <2> QED
    BY <2>1 DEF Pcs
<1>4. /\ \A s \in Requests \ {r} : req'[s] = req[s]
      /\ ~Holding(r)'
  BY <1>3 DEF Goto, Holding, Typed, TypeOK
<1> HIDE DEF Leaves
<1>5. \A s \in Requests : Holding(s)' => Holding(s) /\ s # r
  BY <1>4 DEF Holding
<1>6. /\ \A s \in Requests : Holding(s)' => status' = status
      /\ status' \in {"ACTIVE", "CANCELLED", "EXPIRED"} => Unpaid
  <2>1. CASE LookupVoucher(r)
    BY <2>1, <1>5, SweepKeepsInv DEF LookupVoucher
  <2>2. CASE UnclaimVoucher(r)
    <3>1. Holding(r)
      BY <2>2 DEF UnclaimVoucher, Holding
    <3> QED
      BY <3>1, <1>5 DEF RedeemInv, Guarded, Unpaid
  <2>3. CASE CancelVoucher(r)
    BY <2>3, <1>5 DEF CancelVoucher, Cancellable, RedeemInv, Guarded, Unpaid
  <2>4. CASE CheckCancellable(r) \/ Crash(r)
    BY <2>4 DEF CheckCancellable, Crash, Unpaid
  <2> QED
    BY <2>1, <2>2, <2>3, <2>4
<1>7. \A s \in Requests : Holding(s)' => Holding(s) /\ status' = status /\ ~old'
  BY <1>1, <1>5, <1>6 DEF RedeemInv, Guarded
<1>8. Unpaid' => Unpaid
  BY <1>5, <1>6 DEF Unpaid
<1> QED
  BY <1>1, <1>2, <1>7, <1>8, NoClaimNoPayment

LEMMA ElsewhereKeepsInv ==
  ASSUME Typed, RedeemInv,
         \/ DeadlinePasses \/ RetentionPasses \/ LazyCleanup \/ PollVoucherStatus
         \/ \E r \in Redeemers : BeginRedeem(r) \/ PendingResolves(r)
         \/ \E r \in Cancellers : BeginCancel(r)
         \/ UNCHANGED vars
  PROVE  RedeemInv'
<1>1. Lost \in Nat /\ Lost' \in Nat /\ Lost' >= Lost
  BY LostGrows
     DEF DeadlinePasses, RetentionPasses, LazyCleanup, PollVoucherStatus, BeginRedeem,
         PendingResolves, BeginCancel, vars, Fault, Typed, TypeOK
<1>2. Spent' \subseteq Spent /\ accepted' = accepted
  BY DEF Spent, DeadlinePasses, RetentionPasses, LazyCleanup, PollVoucherStatus, BeginRedeem,
         PendingResolves, BeginCancel, vars
<1>3. old' => past' \/ status' # "ACTIVE"
  BY DEF RedeemInv, Guarded, Swept, Expires, DeadlinePasses, RetentionPasses, LazyCleanup, PollVoucherStatus,
         BeginRedeem, PendingResolves, BeginCancel, vars
<1>4. \A s \in Requests : Holding(s)' => Holding(s)
  <2>1. CASE req' = req
    BY <2>1 DEF Holding
  <2>2. ASSUME NEW r \in Requests, Goto(r, "lookup") \/ Goto(r, "check")
        PROVE  \A s \in Requests : Holding(s)' => Holding(s)
    BY <2>2 DEF Goto, Holding, Typed, TypeOK
  <2> QED
    BY <2>1, <2>2
       DEF DeadlinePasses, RetentionPasses, LazyCleanup, PollVoucherStatus, BeginRedeem,
           PendingResolves, BeginCancel, vars, Requests
<1>5. \A s \in Requests : Holding(s) => status' = status /\ ~old'
  <2>1. CASE LazyCleanup
    BY <2>1, SweepKeepsInv DEF LazyCleanup, RedeemInv, Guarded
  <2>2. CASE RetentionPasses
    BY <2>2 DEF RetentionPasses, Active, Holding
  <2>3. CASE UNCHANGED <<status, old>>
    BY <2>3 DEF RedeemInv, Guarded
  <2> QED
    BY <2>1, <2>2, <2>3
       DEF DeadlinePasses, PollVoucherStatus, BeginRedeem, PendingResolves, BeginCancel, vars
<1>6. Unpaid' => Unpaid
  <2>1. CASE LazyCleanup
    BY <2>1, <1>4, SweepKeepsInv DEF LazyCleanup, Unpaid
  <2>2. CASE status' = status
    BY <2>2, <1>4 DEF Unpaid
  <2> QED
    BY <2>1, <2>2
       DEF DeadlinePasses, RetentionPasses, PollVoucherStatus, BeginRedeem, PendingResolves,
           BeginCancel, vars
<1> QED
  BY <1>1, <1>2, <1>3, <1>4, <1>5, <1>6, NoClaimNoPayment

LEMMA AlwaysRedeemInv == Spec => []RedeemInv
<1>1. Init => RedeemInv
  <2> SUFFICES ASSUME Init PROVE RedeemInv
    OBVIOUS
  <2>1. Spent = {} /\ accepted = {} /\ Lost = 0 /\ ~old
    BY DEF Init, Spent, Lost, AllFaults
  <2>2. \A r \in Requests : ~Holding(r)
    BY DEF Init, Holding
  <2>3. IsFiniteSet(Spent) /\ Cardinality(Spent) = 0
    BY <2>1, FS_EmptySet
  <2> QED
    BY <2>1, <2>2, <2>3 DEF RedeemInv, Guarded, Books
<1>2. Typed /\ RedeemInv /\ [Next]_vars => RedeemInv'
  BY ClaimKeepsInv, PayKeepsInv, HandlerKeepsInv, ElsewhereKeepsInv DEF Next, Handle
<1> QED
  BY <1>1, <1>2, AlwaysTyped, PTL DEF Spec

\* The voucher's wallet pays once, whatever number of wallets race for the
\* voucher ("Mark as claimed BEFORE paying", callback.ts:107), and once more at
\* most for every payment that was made and reported as failed.
THEOREM RedeemedAtMostOnce == Spec => []RedeemedOnce
<1>1. RedeemInv => RedeemedOnce
  BY DEF RedeemInv, Books, RedeemedOnce, Lost
<1> QED
  BY <1>1, AlwaysRedeemInv, PTL

\* A cancelled or expired voucher has not been paid and nobody is about to pay
\* it (cancel.ts:49-60), unless the reply to a payment was lost.
THEOREM WithdrawnUnspent == Spec => []WithdrawnIsUnspent
<1>1. Typed /\ RedeemInv => WithdrawnIsUnspent
  <2> SUFFICES ASSUME Typed, RedeemInv, status \in {"CANCELLED", "EXPIRED"}
               PROVE  /\ Spent = {} \/ Happened("replyLost")
                      /\ \A r \in Requests : req[r] # "pay"
    BY DEF WithdrawnIsUnspent
  <2>1. \A r \in Requests : req[r] # "pay"
    BY DEF RedeemInv, Guarded, Holding
  <2>2. Cardinality(Spent) \in Nat /\ Cardinality(Spent) <= Lost
    BY FS_CardinalityType DEF RedeemInv, Books, Unpaid
  <2>3. Lost \in Nat
    BY DEF Lost, Typed, TypeOK, AllFaults
  <2>4. CASE Lost > 0
    BY <2>1, <2>4 DEF Happened, Lost
  <2>5. CASE ~(Lost > 0)
    <3>1. Cardinality(Spent) = 0
      BY <2>2, <2>3, <2>5
    <3> QED
      BY <2>1, <3>1, FS_EmptySet DEF RedeemInv, Books
  <2> QED
    BY <2>4, <2>5
<1> QED
  BY <1>1, AlwaysTyped, AlwaysRedeemInv, PTL

-----------------------------------------------------------------------------
(***************************************************************************)
(* The promise of OncePayout.  The holder is the request between the claim *)
(* and its answer, which Guarded makes unique.                             *)
(***************************************************************************)
LEMMA HolderUnique ==
  ASSUME Guarded, NEW r \in Requests, Holding(r)
  PROVE  Holder = r /\ Holder # NoOne
BY VoucherAssumption DEF Guarded, Holding, Holder

LEMMA HolderNone ==
  ASSUME \A r \in Requests : ~Holding(r)
  PROVE  Holder = NoOne
BY DEF Holding, Holder

\* A step that nobody gains or leaves by, and that opens nothing.
LEMMA BystanderKeepsPromise ==
  ASSUME Guarded, Guarded', accepted' = accepted,
         \A s \in Requests : Holding(s)' <=> Holding(s),
         \/ status' = status
         \/ status' # "ACTIVE" /\ \A s \in Requests : ~Holding(s)
  PROVE  Promise!Next \/ UNCHANGED Promise!vars
<1>1. Holder' = Holder
  BY VoucherAssumption DEF Guarded, Holding, Holder
<1>2. CASE status' = status
  BY <1>1, <1>2 DEF Promise!vars, Phase
<1>3. CASE status' # "ACTIVE" /\ \A s \in Requests : ~Holding(s)
  <2>1. Phase' = "closed"
    BY <1>1, <1>3, HolderNone DEF Phase
  <2> QED
    BY <1>1, <2>1 DEF Promise!Next, Promise!Close
<1> QED
  BY <1>2, <1>3

\* The holder leaves a voucher that stays closed.
LEMMA LeavingKeepsPromise ==
  ASSUME Guarded, NEW r \in Requests, Holding(r), \A s \in Requests : ~Holding(s)',
         status' = status,
         \/ accepted' = accepted
         \/ accepted = {} /\ accepted' = {r}
  PROVE  Promise!Next
<1>1. Holder = r /\ Holder' = NoOne
  BY HolderUnique DEF Holding, Holder
<1>2. Phase' = "closed"
  BY <1>1 DEF Phase, Guarded
<1> QED
  BY <1>1, <1>2 DEF Promise!Next, Promise!Settle, Promise!Abandon

\* Who moves, and from where.
LEMMA Moves ==
  ASSUME Typed, NEW r \in Requests, NEW p \in Pcs, Goto(r, p)
  PROVE  /\ Holding(r)' <=> p \in {"pay", "unclaim"}
         /\ \A s \in Requests \ {r} : Holding(s)' <=> Holding(s)
BY DEF Goto, Holding, Typed, TypeOK

LEMMA StepKeepsPromise ==
  ASSUME Typed, RedeemInv, RedeemInv', [Next]_vars, ~Happened("replyLost")'
  PROVE  Promise!Next \/ UNCHANGED Promise!vars
<1>0. /\ Guarded /\ Guarded' /\ failures \in [AllFaults -> Nat] /\ failures' \in [AllFaults -> Nat]
      /\ ~Fault("replyLost") /\ Lost = 0
  <2>1. UNCHANGED failures \/ \E f \in Faults : Fault(f)
    BY DEF Next, vars, Handle, LookupVoucher, ClaimVoucher, PayVoucherInvoice, UnclaimVoucher,
       CheckCancellable, CancelVoucher, Crash, BeginRedeem, BeginCancel, PendingResolves,
       DeadlinePasses, RetentionPasses, LazyCleanup, PollVoucherStatus, Fault
  <2>2. failures \in [AllFaults -> Nat] /\ failures' \in [AllFaults -> Nat]
    BY <2>1, FaultTyped DEF Typed, TypeOK
  <2>3. Lost' = 0 /\ Lost = 0
    BY <2>1, <2>2, LostGrows DEF Happened, Lost
  <2>4. ~Fault("replyLost")
    BY <2>2, <2>3, FaultTyped DEF Lost
  <2> QED
    BY <2>2, <2>3, <2>4 DEF RedeemInv
<1>1. CASE \/ DeadlinePasses \/ RetentionPasses \/ PollVoucherStatus \/ UNCHANGED vars
           \/ \E r \in Redeemers : PendingResolves(r)
  BY <1>0, <1>1, BystanderKeepsPromise
     DEF DeadlinePasses, RetentionPasses, PollVoucherStatus, PendingResolves, vars, Holding
<1>2. CASE LazyCleanup
  <2>1. Swept # "ACTIVE" \/ Swept = status
    BY SweepKeepsInv DEF RedeemInv, Swept, Expires
  <2>2. \A s \in Requests : Holding(s) => Swept = status
    BY SweepKeepsInv
  <2> QED
    BY <1>0, <1>2, <2>1, <2>2, BystanderKeepsPromise DEF LazyCleanup, Holding
<1>3. ASSUME NEW r \in Requests, NEW p \in {"lookup", "check"}, Goto(r, p), req[r] = "idle",
             UNCHANGED <<status, accepted>>
      PROVE  Promise!Next \/ UNCHANGED Promise!vars
  <2>1. \A s \in Requests : Holding(s)' <=> Holding(s)
    BY <1>3, Moves DEF Holding, Pcs
  <2> QED
    BY <1>0, <1>3, <2>1, BystanderKeepsPromise
<1>4. ASSUME NEW r \in Requests, LookupVoucher(r) \/ CheckCancellable(r) \/ CancelVoucher(r)
      PROVE  Promise!Next \/ UNCHANGED Promise!vars
  <2>1. ~Holding(r) /\ accepted' = accepted
    BY <1>4 DEF LookupVoucher, CheckCancellable, CancelVoucher, Holding
  <2>2. \E p \in Pcs \ {"pay", "unclaim"} : Goto(r, p)
    <3>1. Goto(r, "claim") \/ Goto(r, "error") \/ Goto(r, "cancel") \/ Goto(r, "ok")
      BY <1>4 DEF LookupVoucher, CheckCancellable, CancelVoucher
    <3> QED
      BY <3>1 DEF Pcs
  <2>3. \A s \in Requests : Holding(s)' <=> Holding(s)
    BY <2>1, <2>2, Moves
  <2>4. status' = status \/ (status' # "ACTIVE" /\ \A s \in Requests : ~Holding(s))
    <3>1. CASE LookupVoucher(r)
      BY <3>1, SweepKeepsInv DEF LookupVoucher
    <3>2. CASE CheckCancellable(r)
      BY <3>2 DEF CheckCancellable
    <3>3. CASE CancelVoucher(r)
      <4>1. status' = status \/ (Cancellable /\ status' = "CANCELLED")
        BY <3>3 DEF CancelVoucher
      <4> QED
        BY <1>0, <4>1 DEF Cancellable, Guarded
    <3> QED
      BY <1>4, <3>1, <3>2, <3>3
  <2> QED
    BY <1>0, <2>1, <2>3, <2>4, BystanderKeepsPromise
<1>5. ASSUME NEW r \in Requests, ClaimVoucher(r)
      PROVE  Promise!Next \/ UNCHANGED Promise!vars
  <2>1. ~Holding(r) /\ accepted' = accepted
    BY <1>5 DEF ClaimVoucher, Holding
  <2>2. CASE Claimable /\ status' = "CLAIMED" /\ Goto(r, "pay")
    <3>1. /\ \A s \in Requests : ~Holding(s)
          /\ Holding(r)'
      BY <1>0, <2>2, Moves DEF Guarded, Claimable, Pcs
    <3>2. Holder = NoOne /\ Phase = "open"
      BY <2>2, <3>1, HolderNone DEF Phase, Claimable
    <3>3. Holder' = r /\ Holder' # NoOne
      BY <1>0, <3>1, VoucherAssumption DEF Guarded, Holding, Holder
    <3>4. Phase' = "taken"
      BY <2>2, <3>3 DEF Phase
    <3> QED
      BY <2>1, <3>2, <3>3, <3>4 DEF Promise!Next, Promise!Take
  <2>3. CASE Goto(r, "error") /\ status' \in {status, IF Claimable THEN "CLAIMED" ELSE status}
    <3>1. \A s \in Requests : Holding(s)' <=> Holding(s)
      BY <2>1, <2>3, Moves DEF Pcs
    <3>2. status' = status \/ (status' # "ACTIVE" /\ \A s \in Requests : ~Holding(s))
      BY <1>0, <2>3 DEF Guarded, Claimable
    <3> QED
      BY <1>0, <2>1, <3>1, <3>2, BystanderKeepsPromise
  <2> QED
    BY <1>5, <2>2, <2>3 DEF ClaimVoucher
<1>6. ASSUME NEW r \in Requests, PayVoucherInvoice(r)
      PROVE  Promise!Next \/ UNCHANGED Promise!vars
  <2>1. Holding(r) /\ status' = status /\ accepted = {}
    BY <1>0, <1>6 DEF PayVoucherInvoice, Holding, RedeemInv, Books, Unpaid
  <2>2. \/ Goto(r, "ok") /\ accepted' \in {accepted, accepted \cup {r}}
        \/ Goto(r, "unclaim") /\ accepted' = accepted
    BY <1>0, <1>6 DEF PayVoucherInvoice, PaymentFailed
  <2>3. CASE Goto(r, "ok") /\ accepted' \in {accepted, accepted \cup {r}}
    <3>1. \A s \in Requests : ~Holding(s)'
      BY <1>0, <2>1, <2>3, Moves DEF Guarded, Pcs
    <3> QED
      BY <1>0, <2>1, <2>3, <3>1, LeavingKeepsPromise
  <2>4. CASE Goto(r, "unclaim") /\ accepted' = accepted
    <3>1. \A s \in Requests : Holding(s)' <=> Holding(s)
      BY <2>1, <2>4, Moves DEF Pcs
    <3> QED
      BY <1>0, <2>1, <2>4, <3>1, BystanderKeepsPromise
  <2> QED
    BY <2>2, <2>3, <2>4
<1>7. ASSUME NEW r \in Requests, UnclaimVoucher(r)
      PROVE  Promise!Next \/ UNCHANGED Promise!vars
  <2>1. /\ Holding(r) /\ accepted' = accepted /\ accepted = {} /\ Goto(r, "error")
        /\ status = "CLAIMED" /\ status' \in {"ACTIVE", "CLAIMED"}
    BY <1>0, <1>7 DEF UnclaimVoucher, Holding, RedeemInv, Guarded, Books, Unpaid
  <2>2. \A s \in Requests : ~Holding(s)'
    BY <1>0, <2>1, Moves DEF Guarded, Pcs
  <2>3. CASE status' = "ACTIVE"
    <3>1. Holder = r /\ Holder # NoOne /\ Holder' = NoOne
      BY <1>0, <2>1, <2>2, HolderUnique DEF Holding, Holder
    <3>2. Phase = "taken" /\ Phase' = "open"
      BY <2>1, <2>3, <3>1 DEF Phase
    <3> QED
      BY <2>1, <3>1, <3>2 DEF Promise!Next, Promise!GiveBack
  <2>4. CASE status' = status
    BY <1>0, <2>1, <2>2, <2>4, LeavingKeepsPromise
  <2> QED
    BY <2>1, <2>3, <2>4
<1>8. ASSUME NEW r \in Requests, Crash(r)
      PROVE  Promise!Next \/ UNCHANGED Promise!vars
  <2>1. Goto(r, "crashed") /\ UNCHANGED <<status, accepted>>
    BY <1>8 DEF Crash
  <2>2. ~Holding(r)' /\ \A s \in Requests \ {r} : Holding(s)' <=> Holding(s)
    BY <2>1, Moves DEF Pcs
  <2>3. CASE Holding(r)
    BY <1>0, <2>1, <2>2, <2>3, LeavingKeepsPromise DEF Guarded
  <2>4. CASE ~Holding(r)
    BY <1>0, <2>1, <2>2, <2>4, BystanderKeepsPromise
  <2> QED
    BY <2>3, <2>4
<1> QED
  <2>1. ASSUME NEW r \in Redeemers, BeginRedeem(r)
        PROVE  Promise!Next \/ UNCHANGED Promise!vars
    BY <1>3, <2>1 DEF BeginRedeem, Requests
  <2>2. ASSUME NEW r \in Cancellers, BeginCancel(r)
        PROVE  Promise!Next \/ UNCHANGED Promise!vars
    BY <1>3, <2>2 DEF BeginCancel, Requests
  <2> QED
    BY <1>1, <1>2, <1>4, <1>5, <1>6, <1>7, <1>8, <2>1, <2>2 DEF Next, Handle

\* The voucher's handlers implement OncePayout until a reply is lost, for any
\* number of wallets, cancellations and other faults.
THEOREM VoucherKeepsPromise == Spec => ImplementsOncePayout
<1>1. Init => Promise!Init
  <2> SUFFICES ASSUME Init PROVE Promise!Init
    OBVIOUS
  <2>1. \A r \in Requests : ~Holding(r)
    BY DEF Init, Holding
  <2> QED
    BY <2>1, HolderNone DEF Init, Promise!Init, Phase
<1>2. Typed /\ RedeemInv /\ RedeemInv' /\ [Next]_vars =>
        [Promise!Next \/ UNCHANGED Promise!vars \/ Happened("replyLost")']_vars
  BY StepKeepsPromise
<1> QED
  BY <1>1, <1>2, AlwaysTyped, AlwaysRedeemInv, PTL DEF Spec, ImplementsOncePayout

-----------------------------------------------------------------------------
(***************************************************************************)
(* What the issuer's screen says.  The reasons that make a claim good, or  *)
(* excuse it, never go away, and a claim gives the first of them.          *)
(***************************************************************************)
Excused == \/ Spent # {} \/ Stranded
           \/ \E r \in Requests : req[r] = "pay"
           \/ Happened("payRejected")

ClaimedInv == status = "CLAIMED" \/ shown => Excused

LEMMA FaultsStay ==
  ASSUME failures \in [AllFaults -> Nat], UNCHANGED failures \/ \E f \in AllFaults : Fault(f)
  PROVE  \A g \in AllFaults : Happened(g) => Happened(g)'
<1>1. CASE UNCHANGED failures
  BY <1>1 DEF Happened
<1>2. ASSUME NEW f \in AllFaults, Fault(f)
      PROVE  \A g \in AllFaults : Happened(g) => Happened(g)'
  <2>1. \A g \in AllFaults : failures[g] \in Nat /\ failures'[g] \in Nat /\ failures'[g] >= failures[g]
    BY <1>2, FaultTyped
  <2> QED
    BY <2>1 DEF Happened
<1> QED
  BY <1>1, <1>2

LEMMA FaultHappens ==
  ASSUME failures \in [AllFaults -> Nat], NEW f \in AllFaults, Fault(f)
  PROVE  Happened(f)'
<1>1. failures'[f] = failures[f] + 1 /\ failures[f] \in Nat
  BY FaultTyped
<1> QED
  BY <1>1 DEF Happened

LEMMA ExcuseStays ==
  ASSUME Typed, Typed', [Next]_vars, Excused
  PROVE  Excused'
<1>0. failures \in [AllFaults -> Nat] /\ {"crash", "dbError", "payRejected"} \subseteq AllFaults
  BY DEF Typed, TypeOK, AllFaults
<1>1. \A g \in AllFaults : Happened(g) => Happened(g)'
  <2>1. UNCHANGED failures \/ \E f \in AllFaults : Fault(f)
    BY DEF Next, vars, Handle, LookupVoucher, ClaimVoucher, PayVoucherInvoice, UnclaimVoucher,
       CheckCancellable, CancelVoucher, Crash, BeginRedeem, BeginCancel, PendingResolves,
       DeadlinePasses, RetentionPasses, LazyCleanup, PollVoucherStatus, AllFaults
  <2> QED
    BY <1>0, <2>1, FaultsStay
<1>2. returned \subseteq returned' /\ (past => past')
  BY DEF Next, vars, Handle, LookupVoucher, ClaimVoucher, PayVoucherInvoice, UnclaimVoucher,
     CheckCancellable, CancelVoucher, Crash, BeginRedeem, BeginCancel, PendingResolves,
     DeadlinePasses, RetentionPasses, LazyCleanup, PollVoucherStatus
<1>3. accepted \subseteq accepted'
  BY DEF Next, vars, Handle, LookupVoucher, ClaimVoucher, PayVoucherInvoice, UnclaimVoucher,
     CheckCancellable, CancelVoucher, Crash, BeginRedeem, BeginCancel, PendingResolves,
     DeadlinePasses, RetentionPasses, LazyCleanup, PollVoucherStatus
<1>4. Stranded => Stranded'
  BY <1>0, <1>1, <1>2 DEF Stranded
<1>5. Spent # {} => Spent' # {} \/ Stranded'
  BY <1>3 DEF Spent, Stranded
<1>6. ASSUME NEW r \in Requests, req[r] = "pay", req'[r] # "pay"
      PROVE  Excused'
  <2>1. CASE Crash(r)
    BY <1>0, <2>1, FaultHappens DEF Crash, Excused, Stranded
  <2>2. CASE PayVoucherInvoice(r)
    <3>1. CASE PaidWith(invoice[r])
      <4>1. Spent # {}
        BY <3>1 DEF PaidWith, Spent
      <4> QED
        BY <1>5, <4>1 DEF Excused
    <3>2. CASE accepted' = accepted \cup {r} /\ returned' = returned
      <4>1. r \notin returned
        BY <1>6 DEF Typed, TypeOK, Roles
      <4> QED
        BY <3>2, <4>1 DEF Excused, Spent
    <3>3. CASE Fault("payRejected")
      BY <1>0, <3>3, FaultHappens DEF Excused
    <3> QED
      BY <2>2, <3>1, <3>2, <3>3 DEF PayVoucherInvoice
  <2>3. \/ req' = req
        \/ \E s \in Requests : \E p : Goto(s, p) /\ (s = r => Crash(r) \/ PayVoucherInvoice(r))
    <3>1. CASE \E s \in Requests : Handle(s) \/ Crash(s)
      <4>1. PICK s \in Requests : Handle(s) \/ Crash(s)
        BY <3>1
      <4>2. s = r => Crash(r) \/ PayVoucherInvoice(r)
        BY <1>6, <4>1 DEF Handle, LookupVoucher, ClaimVoucher, UnclaimVoucher, CheckCancellable,
           CancelVoucher
      <4>3. \E p : Goto(s, p)
        BY <4>1 DEF Handle, LookupVoucher, ClaimVoucher, PayVoucherInvoice, PaymentFailed,
           UnclaimVoucher, CheckCancellable, CancelVoucher, Crash
      <4> QED
        BY <4>2, <4>3
    <3>2. ASSUME NEW s \in Redeemers, BeginRedeem(s)
          PROVE  \E p : Goto(s, p) /\ s \in Requests /\ s # r
      BY <1>6, <3>2 DEF BeginRedeem, Requests
    <3>3. ASSUME NEW s \in Cancellers, BeginCancel(s)
          PROVE  \E p : Goto(s, p) /\ s \in Requests /\ s # r
      BY <1>6, <3>3 DEF BeginCancel, Requests
    <3>4. CASE \/ DeadlinePasses \/ RetentionPasses \/ LazyCleanup \/ PollVoucherStatus
               \/ \E s \in Redeemers : PendingResolves(s)
               \/ UNCHANGED vars
      BY <3>4 DEF DeadlinePasses, RetentionPasses, LazyCleanup, PollVoucherStatus,
         PendingResolves, vars
    <3> QED
      BY <3>1, <3>2, <3>3, <3>4 DEF Next
  <2> QED
    BY <1>6, <2>1, <2>2, <2>3 DEF Goto, Typed, TypeOK
<1> QED
  BY <1>0, <1>1, <1>4, <1>5, <1>6 DEF Excused

LEMMA AlwaysClaimedInv == Spec => []ClaimedInv
<1>1. Init => ClaimedInv
  BY DEF Init, ClaimedInv
<1>2. ASSUME Typed, Typed', ClaimedInv, [Next]_vars PROVE ClaimedInv'
  <2>0. failures \in [AllFaults -> Nat] /\ "dbError" \in AllFaults
    BY <1>2 DEF Typed, TypeOK, AllFaults
  <2>1. CASE Excused
    BY <1>2, <2>1, ExcuseStays DEF ClaimedInv
  <2>2. ASSUME NEW r \in Requests, ClaimVoucher(r), status' # status PROVE Excused'
    <3>1. CASE Goto(r, "pay")
      BY <1>2, <3>1 DEF Goto, Excused, Typed, TypeOK
    <3>2. CASE Fault("dbError")
      BY <2>0, <3>2, FaultHappens DEF Excused, Stranded
    <3> QED
      BY <2>2, <3>1, <3>2 DEF ClaimVoucher
  <2>3. (status' = "CLAIMED" => status = "CLAIMED") \/ \E r \in Requests : ClaimVoucher(r) /\ status' # status
    BY <1>2 DEF Next, vars, Handle, LookupVoucher, ClaimVoucher, PayVoucherInvoice, UnclaimVoucher,
       CheckCancellable, CancelVoucher, Crash, BeginRedeem, BeginCancel, PendingResolves,
       DeadlinePasses, RetentionPasses, LazyCleanup, PollVoucherStatus, Swept, Expires
  <2>4. shown' => shown \/ status = "CLAIMED"
    BY <1>2 DEF Next, vars, Handle, LookupVoucher, ClaimVoucher, PayVoucherInvoice, UnclaimVoucher,
       CheckCancellable, CancelVoucher, Crash, BeginRedeem, BeginCancel, PendingResolves,
       DeadlinePasses, RetentionPasses, LazyCleanup, PollVoucherStatus, ReportedClaimed
  <2> QED
    BY <1>2, <2>1, <2>2, <2>3, <2>4 DEF ClaimedInv
<1> QED
  BY <1>1, <1>2, AlwaysTyped, PTL DEF Spec

\* What the issuer's screen says is true, or one of the named things has gone
\* wrong, for any number of wallets and faults.
THEOREM ShownStands == Spec => []ShownIsRedeemed
<1>1. ClaimedInv => ShownIsRedeemed
  BY DEF ClaimedInv, Excused, ShownIsRedeemed
<1> QED
  BY <1>1, AlwaysClaimedInv, PTL
=============================================================================
