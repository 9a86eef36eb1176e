------------------------ MODULE BoltcardBalance_proofs ------------------------
(***************************************************************************)
(* Theorems about BoltcardBalance for any number of payments, deliveries,  *)
(* server processes, adjustments and faults.                               *)
(***************************************************************************)
EXTENDS BoltcardBalance, FiniteSetTheorems, WellFoundedInduction, TLAPS

Early == {"idle", "look", "check", "reset", "deduct"}

\* What the pc of a payment says about its books.  A payment that no fault has
\* touched is off the balance from the deduction to the end, or to its rollback.
PaymentBooks ==
  \A p \in Payments :
    /\ pay[p] \in Early => p \notin charged /\ p \notin accepted /\ p \notin disturbed
    /\ pay[p] = "pay" => p \in charged /\ p \notin accepted
    /\ p \in accepted \ disturbed => p \in charged /\ pay[p] = "ok"
    /\ p \in charged \ disturbed => p \in accepted \/ pay[p] \in {"pay", "rollback"}

\* What the pc of a delivery says about the top-up.
TopUpBooks ==
  /\ processed => credits > 0 \/ invoice = "failed"
  /\ \A d \in Deliveries :
       /\ top[d].pc = "mark" => credits > 0
       /\ top[d].pc = "expire" => invoice = "failed"

Inv == TypeOK /\ PaymentBooks /\ TopUpBooks

-----------------------------------------------------------------------------
LEMMA PayAtTyped ==
  ASSUME TypeOK, NEW p \in Payments, NEW pc \in PayPcs, PayAt(p, pc)
  PROVE  pay' \in [Payments -> PayPcs] /\ \A q \in Payments : pay'[q] = IF q = p THEN pc ELSE pay[q]
BY DEF TypeOK, PayAt

LEMMA FaultTyped ==
  ASSUME TypeOK, NEW f, Fault(f)
  PROVE  failures' \in 0..MaxFailures
BY BoltcardAssumption DEF TypeOK, Fault

LEMMA AmountTyped == \A p \in Payments : Amount[p] \in Nat /\ Amount[p] > 0
BY BoltcardAssumption

\* The steps before the deduction touch no books.
LEMMA EarlyStep ==
  ASSUME Inv, NEW p \in Payments,
         BeginPayment(p) \/ LookAtCard(p) \/ CheckLimits(p) \/ ResetDay(p)
  PROVE  Inv'
<1> USE DEF Inv
<1>1. /\ UNCHANGED <<status, balance, charged, accepted, disturbed, topVars, fundVars>>
      /\ failures' \in 0..MaxFailures
      /\ pay[p] \in Early
  BY FaultTyped DEF BeginPayment, LookAtCard, CheckLimits, ResetDay, cardVars, Early, TypeOK
<1>2. PICK pc \in Early \cup {"error"} : PayAt(p, pc)
  BY DEF BeginPayment, LookAtCard, CheckLimits, ResetDay, Early
<1>3. /\ pay' \in [Payments -> PayPcs]
      /\ \A q \in Payments : pay'[q] = IF q = p THEN pc ELSE pay[q]
  <2>1. pc \in PayPcs
    BY DEF Early, PayPcs
  <2> QED
    BY <1>2, <2>1, PayAtTyped
<1>4. affordable' \in [Payments -> BOOLEAN]
  BY DEF BeginPayment, LookAtCard, CheckLimits, ResetDay, TypeOK
<1>5. dailySpent' \in Nat /\ resetDue' \in BOOLEAN
  <2>1. UNCHANGED <<dailySpent, resetDue>> \/ (dailySpent' = 0 /\ resetDue' = FALSE)
    BY DEF BeginPayment, LookAtCard, CheckLimits, ResetDay, cardVars
  <2>2. dailySpent' \in Nat
    BY <2>1 DEF TypeOK
  <2>3. resetDue' \in BOOLEAN
    BY <2>1, Zenon DEF TypeOK
  <2> QED
    BY <2>2, <2>3
<1>6. TypeOK'
  BY <1>1, <1>3, <1>4, <1>5 DEF TypeOK, topVars, fundVars
<1>7. PaymentBooks'
  BY <1>1, <1>3 DEF PaymentBooks, Early
<1>8. TopUpBooks'
  BY <1>1 DEF TopUpBooks, topVars
<1> QED
  BY <1>6, <1>7, <1>8

LEMMA DeductStep ==
  ASSUME Inv, NEW p \in Payments, DeductBalance(p)
  PROVE  Inv'
<1> USE DEF Inv
<1>1. /\ UNCHANGED <<affordable, accepted, topVars, fundVars>>
      /\ failures' \in 0..MaxFailures
      /\ pay[p] = "deduct" /\ status' = status /\ resetDue' = resetDue
  BY FaultTyped DEF DeductBalance, Deduct, cardVars, TypeOK
<1>2. \/ Deductible(p) /\ Deduct(p) /\ PayAt(p, "pay") /\ UNCHANGED disturbed
      \/ PayAt(p, "error") /\ UNCHANGED <<balance, dailySpent, charged>>
         /\ (disturbed' = disturbed \/ disturbed' = disturbed \cup {p})
      \/ Deductible(p) /\ Deduct(p) /\ PayAt(p, "error") /\ disturbed' = disturbed \cup {p}
  BY DEF DeductBalance, Refused, cardVars
<1>3. balance' \in Nat /\ dailySpent' \in Nat /\ charged' \subseteq Payments /\ disturbed' \subseteq Payments
  BY <1>2, AmountTyped DEF Deduct, Deductible, TypeOK
<1>4. PICK pc \in {"pay", "error"} :
        /\ PayAt(p, pc)
        /\ pc = "pay" => charged' = charged \cup {p} /\ disturbed' = disturbed
        /\ pc = "error" => \/ charged' = charged
                           \/ charged' = charged \cup {p} /\ disturbed' = disturbed \cup {p}
        /\ disturbed' = disturbed \/ disturbed' = disturbed \cup {p}
  BY <1>2 DEF Deduct
<1>5. /\ pay' \in [Payments -> PayPcs]
      /\ \A q \in Payments : pay'[q] = IF q = p THEN pc ELSE pay[q]
  <2>1. pc \in PayPcs
    BY DEF PayPcs
  <2> QED
    BY <1>4, <2>1, PayAtTyped
<1>6. TypeOK'
  BY <1>1, <1>3, <1>5 DEF TypeOK, topVars, fundVars
<1>7. PaymentBooks'
  BY <1>1, <1>4, <1>5 DEF PaymentBooks, Early
<1>8. TopUpBooks'
  BY <1>1 DEF TopUpBooks, topVars
<1> QED
  BY <1>6, <1>7, <1>8

LEMMA PayStep ==
  ASSUME Inv, NEW p \in Payments, PayInvoice(p)
  PROVE  Inv'
<1> USE DEF Inv
<1>1. /\ UNCHANGED <<cardVars, affordable, charged, topVars, fundVars>>
      /\ failures' \in 0..MaxFailures
      /\ pay[p] = "pay"
  BY FaultTyped DEF PayInvoice, TypeOK
<1>2. PICK pc \in {"ok", "rollback"} :
        /\ PayAt(p, pc)
        /\ pc = "ok" => accepted' = accepted \cup {p} /\ disturbed' = disturbed
        /\ pc = "rollback" => \/ UNCHANGED <<accepted, disturbed>>
                              \/ accepted' = accepted \cup {p} /\ disturbed' = disturbed \cup {p}
  BY DEF PayInvoice, FailedPayment
<1>3. /\ pay' \in [Payments -> PayPcs]
      /\ \A q \in Payments : pay'[q] = IF q = p THEN pc ELSE pay[q]
  <2>1. pc \in PayPcs
    BY DEF PayPcs
  <2> QED
    BY <1>2, <2>1, PayAtTyped
<1>4. TypeOK'
  BY <1>1, <1>2, <1>3 DEF TypeOK, cardVars, topVars, fundVars
<1>5. PaymentBooks'
  BY <1>1, <1>2, <1>3 DEF PaymentBooks, Early
<1>6. TopUpBooks'
  BY <1>1 DEF TopUpBooks, topVars
<1> QED
  BY <1>4, <1>5, <1>6

LEMMA RollbackStep ==
  ASSUME Inv, NEW p \in Payments, RollbackSpend(p) \/ CrashPayment(p)
  PROVE  Inv'
<1> USE DEF Inv
<1>1. /\ UNCHANGED <<status, resetDue, affordable, accepted, topVars, fundVars>>
      /\ failures' \in 0..MaxFailures
      /\ balance' \in Nat /\ dailySpent' \in Nat
  BY AmountTyped, FaultTyped DEF RollbackSpend, CrashPayment, cardVars, TypeOK
<1>2. pay[p] \notin {"ok", "idle"}
  BY DEF RollbackSpend, CrashPayment, ActivePayment
<1>3. PICK pc \in {"error", "crashed"} : PayAt(p, pc)
  BY DEF RollbackSpend, CrashPayment
<1>4. \/ charged' = charged \ {p} /\ disturbed' = disturbed /\ pay[p] = "rollback"
      \/ charged' = charged /\ disturbed' = disturbed \cup {p}
  BY DEF RollbackSpend, CrashPayment, cardVars
<1>5. /\ pay' \in [Payments -> PayPcs]
      /\ \A q \in Payments : pay'[q] = IF q = p THEN pc ELSE pay[q]
  <2>1. pc \in PayPcs
    BY DEF PayPcs
  <2> QED
    BY <1>3, <2>1, PayAtTyped
<1>6. TypeOK'
  BY <1>1, <1>4, <1>5 DEF TypeOK, topVars, fundVars
<1>7. PaymentBooks'
  BY <1>1, <1>2, <1>4, <1>5 DEF PaymentBooks, Early
<1>8. TopUpBooks'
  BY <1>1 DEF TopUpBooks, topVars
<1> QED
  BY <1>6, <1>7, <1>8

LEMMA PaymentKeepsInv ==
  ASSUME Inv, NEW p \in Payments, PaymentStep(p)
  PROVE  Inv'
BY EarlyStep, DeductStep, PayStep, RollbackStep DEF PaymentStep

-----------------------------------------------------------------------------
LEMMA TopAtTyped ==
  ASSUME TypeOK, NEW d \in Deliveries, NEW pc \in TopPcs, TopAt(d, pc)
  PROVE  /\ top' \in [Deliveries -> [pc: TopPcs, on: Instances, sawPending: BOOLEAN]]
         /\ top'[d].pc = pc
         /\ \A e \in Deliveries \ {d} : top'[e] = top[e]
BY DEF TypeOK, TopAt

\* A delivery on its way to the top-up changes nothing but itself.
LEMMA LookupStep ==
  ASSUME Inv, NEW d \in Deliveries,
         \/ FindTopUp(d, "find", "load") \/ FindTopUp(d, "load", "card") \/ ListTopUps(d)
         \/ AskBlink(d) \/ LoadCard(d)
  PROVE  Inv'
<1> USE DEF Inv
<1>1. /\ UNCHANGED <<cardVars, payVars, invoice, processed, elapsed, cached, credits, fundVars>>
      /\ failures' \in 0..MaxFailures
  BY FaultTyped DEF FindTopUp, ListTopUps, AskBlink, LoadCard, TypeOK
<1>2. /\ top' \in [Deliveries -> [pc: TopPcs, on: Instances, sawPending: BOOLEAN]]
      /\ \A e \in Deliveries \ {d} : top'[e] = top[e]
      /\ top'[d].pc # "mark"
      /\ top'[d].pc = "expire" => invoice = "failed"
  <2>1. CASE LoadCard(d)
    <3>1. top \in [Deliveries -> [pc: TopPcs, on: Instances, sawPending: BOOLEAN]]
      BY DEF TypeOK
    <3>2. \/ top' = [top EXCEPT ![d].pc = "credit", ![d].sawPending = (status = "PENDING")]
          \/ top' = [top EXCEPT ![d].pc = "done"]
      BY <2>1 DEF LoadCard, TopAt
    <3> QED
      BY <3>1, <3>2 DEF TopPcs
  <2>2. CASE ~LoadCard(d)
    <3>1. PICK pc \in {"load", "card", "ask", "expire", "done"} :
            TopAt(d, pc) /\ (pc = "expire" => invoice = "failed")
      <4>1. \/ TopAt(d, "load") \/ TopAt(d, "card") \/ TopAt(d, "ask") \/ TopAt(d, "done")
            \/ TopAt(d, "expire") /\ invoice = "failed"
        BY <2>2 DEF FindTopUp, ListTopUps, AskBlink
      <4> QED
        BY <4>1
    <3>2. pc \in TopPcs
      BY DEF TopPcs
    <3> QED
      BY <3>1, <3>2, TopAtTyped
  <2> QED
    BY <2>1, <2>2
<1>3. TypeOK'
  BY <1>1, <1>2 DEF TypeOK, cardVars, payVars, fundVars
<1>4. PaymentBooks'
  BY <1>1 DEF PaymentBooks, payVars
<1>5. TopUpBooks'
  BY <1>1, <1>2 DEF TopUpBooks
<1> QED
  BY <1>3, <1>4, <1>5

LEMMA CreditStep ==
  ASSUME Inv, NEW d \in Deliveries, CreditTopUp(d)
  PROVE  Inv'
<1> USE DEF Inv
<1>1. /\ UNCHANGED <<payVars, invoice, processed, elapsed, cached, fundVars>>
      /\ UNCHANGED <<status, dailySpent, resetDue>>
      /\ failures' \in 0..MaxFailures
  BY FaultTyped DEF CreditTopUp, Credit, cardVars, TypeOK
<1>2. PICK pc \in {"mark", "done"} :
        /\ TopAt(d, pc)
        /\ \/ Credit
           \/ UNCHANGED <<cardVars, credits>> /\ pc = "done"
  BY DEF CreditTopUp, CreditFailed
<1>3. /\ balance' \in Nat /\ credits' \in Nat /\ credits' >= credits
      /\ pc = "mark" => credits' > 0
  BY <1>2, BoltcardAssumption DEF Credit, cardVars, TypeOK
<1>4. /\ top' \in [Deliveries -> [pc: TopPcs, on: Instances, sawPending: BOOLEAN]]
      /\ top'[d].pc = pc
      /\ \A e \in Deliveries \ {d} : top'[e] = top[e]
  <2>1. pc \in TopPcs
    BY DEF TopPcs
  <2> QED
    BY <1>2, <2>1, TopAtTyped
<1>5. TypeOK'
  BY <1>1, <1>3, <1>4 DEF TypeOK, payVars, fundVars
<1>6. PaymentBooks'
  BY <1>1 DEF PaymentBooks, payVars
<1>7. TopUpBooks'
  BY <1>1, <1>3, <1>4 DEF TopUpBooks, TypeOK
<1> QED
  BY <1>5, <1>6, <1>7

LEMMA MarkStep ==
  ASSUME Inv, NEW d \in Deliveries, MarkProcessed(d) \/ ExpireTopUp(d)
  PROVE  Inv'
<1> USE DEF Inv
<1>1. /\ UNCHANGED <<cardVars, payVars, invoice, elapsed, credits, fundVars>>
      /\ failures' \in 0..MaxFailures
      /\ processed' \in BOOLEAN /\ cached' \subseteq Instances
      /\ credits > 0 \/ invoice = "failed"
  BY FaultTyped DEF MarkProcessed, ExpireTopUp, TopUpBooks, TypeOK
<1>2. PICK pc \in {"activate", "done"} : TopAt(d, pc)
  BY DEF MarkProcessed, ExpireTopUp
<1>3. /\ top' \in [Deliveries -> [pc: TopPcs, on: Instances, sawPending: BOOLEAN]]
      /\ top'[d].pc = pc
      /\ \A e \in Deliveries \ {d} : top'[e] = top[e]
  <2>1. pc \in TopPcs
    BY DEF TopPcs
  <2> QED
    BY <1>2, <2>1, TopAtTyped
<1>4. TypeOK'
  BY <1>1, <1>3 DEF TypeOK, cardVars, payVars, fundVars
<1>5. PaymentBooks'
  BY <1>1 DEF PaymentBooks, payVars
<1>6. TopUpBooks'
  BY <1>1, <1>3 DEF TopUpBooks
<1> QED
  BY <1>4, <1>5, <1>6

LEMMA ActivateStep ==
  ASSUME Inv, NEW d \in Deliveries, ActivateOnTopUp(d)
  PROVE  Inv'
<1> USE DEF Inv
<1>1. /\ UNCHANGED <<balance, dailySpent, resetDue, payVars, invoice, processed, elapsed,
                     cached, credits, fundVars>>
      /\ failures' \in 0..MaxFailures
      /\ status' \in Statuses
  BY FaultTyped DEF ActivateOnTopUp, Statuses, TypeOK
<1>2. /\ top' \in [Deliveries -> [pc: TopPcs, on: Instances, sawPending: BOOLEAN]]
      /\ top'[d].pc = "done"
      /\ \A e \in Deliveries \ {d} : top'[e] = top[e]
  BY DEF ActivateOnTopUp, TopAt, TopPcs, TypeOK
<1>3. TypeOK'
  BY <1>1, <1>2 DEF TypeOK, payVars, fundVars
<1>4. PaymentBooks'
  BY <1>1 DEF PaymentBooks, payVars
<1>5. TopUpBooks'
  BY <1>1, <1>2 DEF TopUpBooks
<1> QED
  BY <1>3, <1>4, <1>5

\* A webhook or a poll begins, or a process restarts under those it serves.
LEMMA ServerStep ==
  ASSUME Inv, NEW i \in Instances,
         EvictTopUp(i) \/ Restart(i) \/ \E d \in Deliveries : BeginWebhook(d, i) \/ BeginPoll(d, i)
  PROVE  Inv'
<1> USE DEF Inv
<1>1. /\ UNCHANGED <<cardVars, payVars, invoice, processed, elapsed, credits, fundVars>>
      /\ failures' \in 0..MaxFailures
      /\ cached' \subseteq Instances
  BY FaultTyped DEF EvictTopUp, Restart, BeginWebhook, BeginPoll, TypeOK
<1>2. /\ top' \in [Deliveries -> [pc: TopPcs, on: Instances, sawPending: BOOLEAN]]
      /\ \A e \in Deliveries : top'[e].pc \in {"find", "list", "crashed", top[e].pc}
  <2>1. CASE EvictTopUp(i)
    BY <2>1 DEF EvictTopUp, TypeOK
  <2>2. CASE Restart(i)
    <3> DEFINE stopped(d) == [top[d] EXCEPT !.pc = "crashed", !.sawPending = FALSE]
    <3>1. \A d \in Deliveries : /\ top[d] \in [pc: TopPcs, on: Instances, sawPending: BOOLEAN]
                              /\ stopped(d) \in [pc: TopPcs, on: Instances, sawPending: BOOLEAN]
                              /\ stopped(d).pc = "crashed"
      BY DEF TypeOK, TopPcs
    <3>2. top' = [d \in Deliveries |-> IF ActiveDelivery(d) /\ top[d].on = i THEN stopped(d)
                                      ELSE top[d]]
      BY <2>2 DEF Restart
    <3> QED
      BY <3>1, <3>2
  <2>3. ASSUME NEW d \in Deliveries, BeginWebhook(d, i) \/ BeginPoll(d, i)
        PROVE  /\ top' \in [Deliveries -> [pc: TopPcs, on: Instances, sawPending: BOOLEAN]]
               /\ \A e \in Deliveries : top'[e].pc \in {"find", "list", "crashed", top[e].pc}
    BY <2>3 DEF BeginWebhook, BeginPoll, TypeOK, TopPcs
  <2> QED
    BY <2>1, <2>2, <2>3
<1>3. TypeOK'
  BY <1>1, <1>2 DEF TypeOK, cardVars, payVars, fundVars
<1>4. PaymentBooks'
  BY <1>1 DEF PaymentBooks, payVars
<1>5. TopUpBooks'
  BY <1>1, <1>2 DEF TopUpBooks
<1> QED
  BY <1>3, <1>4, <1>5

-----------------------------------------------------------------------------
LEMMA OwnerStep ==
  ASSUME Inv,
         \/ ActivateCard \/ DisableCard \/ EnableCard \/ WipeCard
         \/ DayPasses \/ ResetDailySpent
  PROVE  Inv'
<1> USE DEF Inv
<1>1. /\ UNCHANGED <<balance, payVars, topVars, fundVars, failures>>
      /\ status' \in Statuses
      /\ dailySpent' \in {0, dailySpent}
  BY DEF ActivateCard, DisableCard, EnableCard, WipeCard, SetStatus, DayPasses,
         ResetDailySpent, Statuses, TypeOK
<1>2. resetDue' \in BOOLEAN
  BY Zenon DEF ActivateCard, DisableCard, EnableCard, WipeCard, SetStatus, DayPasses,
               ResetDailySpent, TypeOK
<1>3. dailySpent' \in Nat
  BY <1>1 DEF TypeOK
<1> QED
  BY <1>1, <1>2, <1>3 DEF TypeOK, PaymentBooks, TopUpBooks, payVars, topVars, fundVars

LEMMA InvoiceStep ==
  ASSUME Inv, PayTopUp \/ TopUpElapses
  PROVE  Inv'
<1> USE DEF Inv
<1>1. /\ UNCHANGED <<cardVars, payVars, processed, cached, top, credits, fundVars>>
      /\ failures' \in 0..MaxFailures /\ elapsed' \in BOOLEAN
      /\ invoice' \in {"open", "paid", "failed"}
      /\ invoice = "failed" => invoice' = "failed"
  BY FaultTyped DEF PayTopUp, TopUpElapses, TypeOK
<1> QED
  BY <1>1 DEF TypeOK, PaymentBooks, TopUpBooks, cardVars, payVars, fundVars

LEMMA FundStep ==
  ASSUME Inv, NEW f \in Funders, ReadBalance(f) \/ UpdateCardBalance(f)
  PROVE  Inv'
<1> USE DEF Inv
<1>1. /\ UNCHANGED <<status, dailySpent, resetDue, payVars, topVars>>
      /\ failures' \in 0..MaxFailures
  BY FaultTyped DEF ReadBalance, UpdateCardBalance, cardVars, TypeOK
<1>2. /\ fund' \in [Funders -> [pc: FundPcs, mode: {"increment", "set"}, to: Nat, by: Int]]
      /\ balance' \in Nat /\ adjusted' \in Int /\ undone' \in Int
  <2>1. CASE ReadBalance(f)
    BY <2>1, BoltcardAssumption DEF ReadBalance, FundPcs, cardVars, TypeOK
  <2>2. CASE UpdateCardBalance(f)
    BY <2>2 DEF UpdateCardBalance, FundPcs, TypeOK
  <2> QED
    BY <2>1, <2>2
<1> QED
  BY <1>1, <1>2 DEF TypeOK, PaymentBooks, TopUpBooks, payVars, topVars

LEMMA StepKeepsInv == Inv /\ [Next]_vars => Inv'
<1>1. ASSUME Inv, UNCHANGED vars PROVE Inv'
  BY <1>1 DEF Inv, TypeOK, PaymentBooks, TopUpBooks, vars, cardVars, payVars, topVars, fundVars
<1>2. ASSUME Inv, NEW d \in Deliveries, DeliveryStep(d) PROVE Inv'
  BY <1>2, LookupStep, CreditStep, MarkStep, ActivateStep DEF DeliveryStep
<1> QED
  BY <1>1, <1>2, PaymentKeepsInv, ServerStep, OwnerStep, InvoiceStep, FundStep DEF Next

LEMMA AlwaysInv == Spec => []Inv
<1>1. Init => Inv
  <2> SUFFICES ASSUME Init PROVE Inv
    OBVIOUS
  <2>1. TypeOK
    <3>1. /\ status \in Statuses /\ resetDue \in BOOLEAN
          /\ processed \in BOOLEAN /\ elapsed \in BOOLEAN
          /\ affordable \in [Payments -> BOOLEAN]
      BY Zenon DEF Init, Statuses
    <3>2. /\ balance \in Nat /\ dailySpent \in Nat /\ adjusted \in Int /\ undone \in Int
          /\ credits \in Nat /\ failures \in 0..MaxFailures
      BY BoltcardAssumption DEF Init
    <3>3. /\ pay \in [Payments -> PayPcs]
          /\ fund \in [Funders -> [pc: FundPcs, mode: {"increment", "set"}, to: Nat, by: Int]]
      BY DEF Init, PayPcs, FundPcs
    <3>4. /\ cached \subseteq Instances
          /\ top \in [Deliveries -> [pc: TopPcs, on: Instances, sawPending: BOOLEAN]]
      BY DEF Init, TopPcs
    <3> QED
      BY <3>1, <3>2, <3>3, <3>4 DEF Init, TypeOK
  <2>2. PaymentBooks /\ TopUpBooks
    BY DEF Init, PaymentBooks, TopUpBooks, Early
  <2> QED
    BY <2>1, <2>2 DEF Inv
<1> QED
  BY <1>1, StepKeepsInv, PTL DEF Spec

-----------------------------------------------------------------------------
\* The balance never goes below zero, whatever payments race for it: the
\* UPDATE asks for the balance again (store.ts:1266).
THEOREM TypeCorrect == Spec => []TypeOK
<1>1. Inv => TypeOK
  BY DEF Inv
<1> QED
  BY <1>1, AlwaysInv, PTL

\* What the owner's wallet has paid, and no fault has touched, is off the card
\* (lnurlw.ts deducts before it pays).
THEOREM PaidIsOffTheCard == Spec => []PaidIsCharged
<1>1. Inv => PaidIsCharged
  BY DEF Inv, TypeOK, PaymentBooks, PaidIsCharged
<1> QED
  BY <1>1, AlwaysInv, PTL

\* A payment that failed is off the card no longer (lnurlw.ts:456).
THEOREM FailedIsBack == Spec => []FailedIsRefunded
<1>1. Inv => FailedIsRefunded
  BY DEF Inv, TypeOK, PaymentBooks, FailedIsRefunded, ActivePayment
<1> QED
  BY <1>1, AlwaysInv, PTL

\* Neither crashes nor failed queries nor restarts lose a paid top-up before it
\* has been credited.
THEOREM TopUpIsKept == Spec => []TopUpIsNotLost
<1>1. Inv => TopUpIsNotLost
  BY DEF Inv, TopUpBooks, TopUpIsNotLost
<1> QED
  BY <1>1, AlwaysInv, PTL

\* A card that is not ACTIVE loses nothing: every UPDATE that takes from the
\* balance asks for the status again.
THEOREM InactiveKeepsBalance == Spec => OnlyActiveIsCharged
<1>1. Inv /\ [Next]_vars => (status # "ACTIVE" => balance' >= balance) \/ UNCHANGED vars
  <2> SUFFICES ASSUME Inv, Next, status # "ACTIVE" PROVE balance' >= balance
    BY DEF vars
  <2> USE DEF Inv
  <2>1. ASSUME NEW p \in Payments, PaymentStep(p) PROVE balance' >= balance
    <3>1. CASE DeductBalance(p)
      BY <2>1, <3>1 DEF DeductBalance, Deductible, cardVars, TypeOK
    <3>2. CASE RollbackSpend(p)
      BY <2>1, <3>2, AmountTyped DEF RollbackSpend, cardVars, TypeOK
    <3>3. CASE balance' = balance
      BY <3>3 DEF TypeOK
    <3> QED
      BY <2>1, <3>1, <3>2, <3>3
         DEF PaymentStep, BeginPayment, LookAtCard, CheckLimits, ResetDay, PayInvoice,
             CrashPayment, cardVars
  <2>2. ASSUME NEW d \in Deliveries, CreditTopUp(d) PROVE balance' >= balance
    BY <2>2 DEF CreditTopUp, cardVars, TypeOK
  <2>3. ASSUME NEW d \in Deliveries, DeliveryStep(d), ~CreditTopUp(d) PROVE balance' = balance
    BY <2>3
       DEF DeliveryStep, FindTopUp, ListTopUps, AskBlink, LoadCard, MarkProcessed,
           ActivateOnTopUp, ExpireTopUp, cardVars
  <2>4. ASSUME NEW f \in Funders, ReadBalance(f) \/ UpdateCardBalance(f) PROVE balance' = balance
    BY <2>4 DEF ReadBalance, UpdateCardBalance, Writable, cardVars
  <2>5. ASSUME \/ ActivateCard \/ DisableCard \/ EnableCard \/ WipeCard
               \/ DayPasses \/ ResetDailySpent \/ PayTopUp \/ TopUpElapses
               \/ \E d \in Deliveries, i \in Instances : BeginWebhook(d, i) \/ BeginPoll(d, i)
               \/ \E i \in Instances : EvictTopUp(i) \/ Restart(i)
        PROVE  balance' = balance
    BY <2>5
       DEF ActivateCard, DisableCard, EnableCard, WipeCard, SetStatus, DayPasses,
           ResetDailySpent, PayTopUp, TopUpElapses, BeginWebhook, BeginPoll, EvictTopUp,
           Restart, cardVars
  <2>6. balance' = balance => balance' >= balance
    BY DEF TypeOK
  <2> QED
    BY <2>1, <2>2, <2>3, <2>4, <2>5, <2>6 DEF Next
<1> QED
  BY <1>1, AlwaysInv, PTL DEF Spec, OnlyActiveIsCharged
-----------------------------------------------------------------------------
(***************************************************************************)
(* Sums.  MapThenSumSet takes one element of a set after the other, in an  *)
(* order CHOOSE fixes; a finite sum does not depend on it.  The facts are  *)
(* shown for a smallest set they could fail for: strict inclusion between  *)
(* finite sets is well founded.                                            *)
(***************************************************************************)
Pick(s) == CHOOSE x \in s : TRUE

\* The function whose value at S MapThenSumSet(..., S) is.
Adder(S, g) ==
  g = [s \in SUBSET S |-> IF s = {} THEN 0 ELSE Amount[Pick(s)] + g[s \ {Pick(s)}]]

LEMMA SumIs == ASSUME NEW S PROVE Sum(S) = (CHOOSE g : Adder(S, g))[S]
BY DEF Sum, MapThenSumSet, MapThenFoldSet, Adder, Pick

\* Among the subsets of a finite set those of a kind have a smallest.
LEMMA LeastSet ==
  ASSUME NEW S \in SUBSET Payments, IsFiniteSet(S), NEW C \in SUBSET (SUBSET S), C # {}
  PROVE  \E s \in C : \A t \in C : t \subseteq s => t = s
<1>1. C \subseteq FiniteSubsetsOf(S)
  BY FS_FiniteSubsetsOfFinite
<1>2. PICK s \in C : \A t \in C : ~(<<t, s>> \in StrictSubsetOrdering(S))
  BY <1>1, FS_StrictSubsetOrderingWellFounded, WFMin
<1>3. \A t \in C : ~(t \subseteq s /\ t # s)
  BY <1>2 DEF StrictSubsetOrdering
<1> QED
  BY <1>3

LEMMA AdderAt ==
  ASSUME NEW S, NEW g, Adder(S, g), NEW s \in SUBSET S
  PROVE  g[s] = IF s = {} THEN 0 ELSE Amount[Pick(s)] + g[s \ {Pick(s)}]
<1> DEFINE Value(t) == IF t = {} THEN 0 ELSE Amount[Pick(t)] + g[t \ {Pick(t)}]
<1>1. g = [t \in SUBSET S |-> Value(t)]
  BY DEF Adder
<1> HIDE DEF Value
<1>2. g[s] = Value(s)
  BY <1>1
<1> QED
  BY <1>2 DEF Value

LEMMA Picked == ASSUME NEW s, s # {} PROVE Pick(s) \in s
BY DEF Pick

LEMMA AdderTakes ==
  ASSUME NEW S \in SUBSET Payments, IsFiniteSet(S), NEW g, Adder(S, g)
  PROVE  /\ g[{}] = 0
         /\ \A s \in SUBSET S : g[s] \in Int
<1>1. g[{}] = 0
  BY AdderAt
<1>0. \A s \in SUBSET S : s # {} => Pick(s) \in s /\ g[s] = Amount[Pick(s)] + g[s \ {Pick(s)}]
  BY AdderAt, Picked
<1>2. \A s \in SUBSET S : g[s] \in Int
  <2> DEFINE C == {s \in SUBSET S : g[s] \notin Int}
  <2> SUFFICES ASSUME C # {} PROVE FALSE
    OBVIOUS
  <2>1. C \in SUBSET (SUBSET S)
    OBVIOUS
  <2>2. PICK s \in C : \A t \in C : t \subseteq s => t = s
    <3> HIDE DEF C
    <3> QED
      BY <2>1, LeastSet
  <2>3. s # {}
    BY <1>1
  <2>4. Pick(s) \in s /\ s \ {Pick(s)} \in SUBSET S /\ s \ {Pick(s)} \notin C
    BY <2>2, <2>3, Picked
  <2>5. g[s] = Amount[Pick(s)] + g[s \ {Pick(s)}]
    BY <1>0, <2>3
  <2>6. g[s \ {Pick(s)}] \in Int /\ Amount[Pick(s)] \in Int
    BY <2>4, AmountTyped
  <2>7. g[s] \in Int
    BY <2>5, <2>6
  <2> QED
    BY <2>7
<1> QED
  BY <1>1, <1>2

\* Whichever element is taken first, the sum is the same.
LEMMA AnyFirst ==
  ASSUME NEW S \in SUBSET Payments, IsFiniteSet(S), NEW g, Adder(S, g), NEW q \in S
  PROVE  g[S] = Amount[q] + g[S \ {q}]
<1>0. \A s \in SUBSET S : s # {} => Pick(s) \in s /\ g[s] = Amount[Pick(s)] + g[s \ {Pick(s)}]
  BY AdderAt, Picked
<1>2. \A s \in SUBSET S : g[s] \in Int
  BY AdderTakes
<1>3. \A s \in SUBSET S : \A p \in s : g[s] = Amount[p] + g[s \ {p}]
  <2> DEFINE C == {s \in SUBSET S : \E p \in s : g[s] # Amount[p] + g[s \ {p}]}
  <2> SUFFICES ASSUME C # {} PROVE FALSE
    OBVIOUS
  <2>1. C \in SUBSET (SUBSET S)
    OBVIOUS
  <2>2. PICK s \in C : \A t \in C : t \subseteq s => t = s
    <3> HIDE DEF C
    <3> QED
      BY <2>1, LeastSet
  <2>3. PICK p \in s : g[s] # Amount[p] + g[s \ {p}]
    OBVIOUS
  <2>4. s \in SUBSET S
    OBVIOUS
  <2> DEFINE x == Pick(s)
  <2>5. x \in s /\ g[s] = Amount[x] + g[s \ {x}]
    BY <1>0, <2>3, <2>4
  <2> HIDE DEF x
  <2>6. x # p
    BY <2>3, <2>5
  <2>7. s \ {x} \notin C /\ s \ {p} \notin C
    <3> HIDE DEF C
    <3> QED
      BY <2>2, <2>3, <2>5
  <2>8. g[s \ {x}] = Amount[p] + g[(s \ {x}) \ {p}]
    <3>1. s \ {x} \in SUBSET S /\ p \in s \ {x}
      BY <2>3, <2>4, <2>6
    <3> QED
      BY <3>1, <2>7
  <2>9. g[s \ {p}] = Amount[x] + g[(s \ {p}) \ {x}]
    <3>1. s \ {p} \in SUBSET S /\ x \in s \ {p}
      BY <2>4, <2>5, <2>6
    <3> QED
      BY <3>1, <2>7
  <2>10. (s \ {x}) \ {p} = (s \ {p}) \ {x}
    OBVIOUS
  <2>11. Amount[x] \in Int /\ Amount[p] \in Int /\ g[(s \ {p}) \ {x}] \in Int
    BY <1>2, <2>3, <2>4, <2>5, AmountTyped
  <2>12. \A a, b, c \in Int : a + (b + c) = b + (a + c)
    OBVIOUS
  <2>13. g[s] = Amount[x] + (Amount[p] + g[(s \ {p}) \ {x}])
    BY <2>5, <2>8, <2>10
  <2>14. Amount[p] + g[s \ {p}] = Amount[p] + (Amount[x] + g[(s \ {p}) \ {x}])
    BY <2>9
  <2> QED
    BY <2>3, <2>11, <2>12, <2>13, <2>14
<1> QED
  BY <1>3

\* The functions of two sets agree on the subsets of both.
LEMMA AdderUnique ==
  ASSUME NEW S \in SUBSET Payments, IsFiniteSet(S), NEW R \in SUBSET S, NEW g, NEW h,
         Adder(S, g), Adder(R, h)
  PROVE  \A s \in SUBSET R : g[s] = h[s]
<1> DEFINE C == {s \in SUBSET R : g[s] # h[s]}
<1> SUFFICES ASSUME C # {} PROVE FALSE
  OBVIOUS
<1>1. C \in SUBSET (SUBSET S)
  OBVIOUS
<1>2. PICK s \in C : \A t \in C : t \subseteq s => t = s
  <2> HIDE DEF C
  <2> QED
    BY <1>1, LeastSet
<1>3. s \in SUBSET S /\ s \in SUBSET R
  OBVIOUS
<1>4. s # {}
  BY <1>3, AdderAt
<1>5. Pick(s) \in s /\ s \ {Pick(s)} \in SUBSET R /\ s \ {Pick(s)} \notin C
  BY <1>2, <1>3, <1>4, Picked
<1>6. g[s] = Amount[Pick(s)] + g[s \ {Pick(s)}] /\ h[s] = Amount[Pick(s)] + h[s \ {Pick(s)}]
  BY <1>3, <1>4, AdderAt
<1>7. g[s \ {Pick(s)}] = h[s \ {Pick(s)}]
  BY <1>5
<1> QED
  BY <1>6, <1>7

\* Of a smallest set without such a function all subsets have one, and their
\* values make up one for the set itself.
LEMMA AdderExists ==
  ASSUME NEW S \in SUBSET Payments, IsFiniteSet(S)
  PROVE  \E g : Adder(S, g)
<1> DEFINE C == {R \in SUBSET S : ~\E g : Adder(R, g)}
<1> SUFFICES ASSUME C # {} PROVE FALSE
  OBVIOUS
<1>1. PICK R \in C : \A t \in C : t \subseteq R => t = R
  <2>1. C \in SUBSET (SUBSET S)
    OBVIOUS
  <2> HIDE DEF C
  <2> QED
    BY <2>1, LeastSet
<1>2. R \in SUBSET S /\ ~\E g : Adder(R, g)
  OBVIOUS
<1>3. \A t \in SUBSET R : t # R => \E g : Adder(t, g)
  BY <1>1, <1>2
<1> HIDE DEF C
<1> DEFINE H(t) == CHOOSE g : Adder(t, g)
<1>4. \A t \in SUBSET R : t # R => Adder(t, H(t))
  BY <1>3
<1> HIDE DEF H
<1>5. \A t \in SUBSET R : t # {} => Pick(t) \in t
  BY Picked
<1>6. \A t \in SUBSET R : t # R =>
        H(t)[t] = IF t = {} THEN 0 ELSE Amount[Pick(t)] + H(t \ {Pick(t)})[t \ {Pick(t)}]
  <2> SUFFICES ASSUME NEW t \in SUBSET R, t # R
               PROVE  H(t)[t] = IF t = {} THEN 0
                                ELSE Amount[Pick(t)] + H(t \ {Pick(t)})[t \ {Pick(t)}]
    OBVIOUS
  <2>1. Adder(t, H(t)) /\ t \in SUBSET t
    BY <1>4
  <2>2. H(t)[t] = IF t = {} THEN 0 ELSE Amount[Pick(t)] + H(t)[t \ {Pick(t)}]
    BY <2>1, AdderAt
  <2>3. ASSUME t # {} PROVE H(t)[t \ {Pick(t)}] = H(t \ {Pick(t)})[t \ {Pick(t)}]
    <3> DEFINE u == t \ {Pick(t)}
    <3>1. u \in SUBSET t /\ u \in SUBSET R /\ u # R /\ u \in SUBSET u
      BY <1>5, <2>3
    <3> HIDE DEF u
    <3>2. IsFiniteSet(t) /\ t \in SUBSET Payments
      BY <1>2, FS_Subset
    <3>3. \A s \in SUBSET u : H(t)[s] = H(u)[s]
      BY <1>4, <2>1, <3>1, <3>2, AdderUnique
    <3>4. H(t)[u] = H(u)[u]
      BY <3>1, <3>3
    <3> QED
      BY <3>4 DEF u
  <2> QED
    BY <2>2, <2>3
<1> DEFINE V(t) == H(t)[t]
           W(t) == IF t = R /\ t # {} THEN Amount[Pick(R)] + V(R \ {Pick(R)}) ELSE V(t)
           k == [t \in SUBSET R |-> W(t)]
<1>7. R # {}
  <2> SUFFICES ASSUME R = {} PROVE FALSE
    OBVIOUS
  <2>1. Adder({}, [t \in SUBSET {} |-> 0])
    BY DEF Adder
  <2> QED
    BY <1>2, <2>1
<1>8. \A t \in SUBSET R : W(t) = IF t = {} THEN 0 ELSE Amount[Pick(t)] + k[t \ {Pick(t)}]
  <2> SUFFICES ASSUME NEW t \in SUBSET R
               PROVE  W(t) = IF t = {} THEN 0 ELSE Amount[Pick(t)] + k[t \ {Pick(t)}]
    OBVIOUS
  <2>1. ASSUME t = {} PROVE W(t) = 0
    BY <1>6, <1>7, <2>1
  <2>2. ASSUME t # {} PROVE k[t \ {Pick(t)}] = V(t \ {Pick(t)})
    <3>1. t \ {Pick(t)} \in SUBSET R /\ t \ {Pick(t)} # R
      BY <1>5, <2>2
    <3> QED
      BY <3>1
  <2>3. ASSUME t # {} PROVE W(t) = Amount[Pick(t)] + V(t \ {Pick(t)})
    <3>1. CASE t = R
      BY <3>1, <2>3
    <3>2. CASE t # R
      BY <3>2, <2>3, <1>6
    <3> QED
      BY <3>1, <3>2
  <2> QED
    BY <2>1, <2>2, <2>3
<1> HIDE DEF W
<1>9. Adder(R, k)
  BY <1>8 DEF Adder
<1> QED
  BY <1>2, <1>9

LEMMA SumIsAdder ==
  ASSUME NEW S \in SUBSET Payments, IsFiniteSet(S)
  PROVE  \E g : Adder(S, g) /\ Sum(S) = g[S]
<1>1. \E g : Adder(S, g)
  BY AdderExists
<1>2. Adder(S, CHOOSE g : Adder(S, g))
  BY <1>1
<1> QED
  BY <1>2, SumIs

\* All that the theorems use of a sum.
LEMMA SumTakes ==
  ASSUME NEW S \in SUBSET Payments, IsFiniteSet(S)
  PROVE  /\ Sum({}) = 0
         /\ Sum(S) \in Int
         /\ \A p \in S : Sum(S) = Amount[p] + Sum(S \ {p})
<1>1. PICK g : Adder(S, g) /\ Sum(S) = g[S]
  BY SumIsAdder
<1>3. Sum(S) \in Int /\ g[{}] = 0
  BY <1>1, AdderTakes
<1>4. \A R \in SUBSET S : Sum(R) = g[R]
  <2> SUFFICES ASSUME NEW R \in SUBSET S PROVE Sum(R) = g[R]
    OBVIOUS
  <2>1. PICK h : Adder(R, h) /\ Sum(R) = h[R]
    BY FS_Subset, SumIsAdder
  <2>2. \A s \in SUBSET R : g[s] = h[s]
    BY <1>1, <2>1, AdderUnique
  <2> QED
    BY <2>1, <2>2
<1>5. \A p \in S : g[S] = Amount[p] + g[S \ {p}]
  BY <1>1, AnyFirst
<1>6. \A p \in S : Sum(S) = Amount[p] + Sum(S \ {p})
  BY <1>1, <1>4, <1>5
<1>7. Sum({}) = 0
  BY <1>3, <1>4
<1> QED
  BY <1>3, <1>6, <1>7

\* Amounts are positive: less is paid with fewer payments.
LEMMA SumOfFewer ==
  ASSUME NEW S \in SUBSET Payments, IsFiniteSet(S), NEW T \in SUBSET S
  PROVE  Sum(T) <= Sum(S)
<1> DEFINE C == {s \in SUBSET S : T \subseteq s /\ ~(Sum(T) <= Sum(s))}
<1> SUFFICES ASSUME C # {} PROVE FALSE
  OBVIOUS
<1>1. PICK s \in C : \A t \in C : t \subseteq s => t = s
  <2>1. C \in SUBSET (SUBSET S)
    OBVIOUS
  <2> HIDE DEF C
  <2> QED
    BY <2>1, LeastSet
<1>2. s \in SUBSET Payments /\ IsFiniteSet(s) /\ IsFiniteSet(T) /\ T \in SUBSET Payments
  BY FS_Subset
<1>3. Sum(T) \in Int /\ Sum(s) \in Int
  BY <1>2, SumTakes
<1>4. PICK p \in s : p \notin T
  BY <1>3
<1>5. s \ {p} \notin C /\ s \ {p} \in SUBSET S /\ T \subseteq s \ {p}
  <2> HIDE DEF C
  <2>1. T \subseteq s /\ s \in SUBSET S
    BY DEF C
  <2> QED
    BY <1>1, <1>4, <2>1
<1>6. Sum(T) <= Sum(s \ {p})
  BY <1>5
<1>7. Sum(s) = Amount[p] + Sum(s \ {p}) /\ Amount[p] \in Nat
  BY <1>2, SumTakes, AmountTyped
<1>8. Sum(s \ {p}) \in Int
  BY <1>2, FS_Subset, SumTakes
<1> QED
  BY <1>3, <1>6, <1>7, <1>8

-----------------------------------------------------------------------------
(***************************************************************************)
(* The ledger.                                                             *)
(***************************************************************************)

\* Who gives back has taken.
RolledBackIsCharged == \A p \in Payments : pay[p] = "rollback" => p \in charged

Ledger == IsFiniteSet(charged) /\ BalanceIsLedger /\ RolledBackIsCharged

\* The five things a step may do to the numbers of the ledger.
Untouched == UNCHANGED <<balance, charged, adjusted, undone, credits>>
Takes(p) ==
  /\ p \notin charged /\ charged' = charged \cup {p} /\ balance' = balance - Amount[p]
  /\ UNCHANGED <<adjusted, undone, credits>>
GivesBack(p) ==
  /\ p \in charged /\ charged' = charged \ {p} /\ balance' = balance + Amount[p]
  /\ UNCHANGED <<adjusted, undone, credits>>
Credits ==
  balance' = balance + TopUp /\ credits' = credits + 1 /\ UNCHANGED <<charged, adjusted, undone>>
Adjusts ==
  /\ adjusted' + undone' = adjusted + undone + (balance' - balance)
  /\ UNCHANGED <<charged, credits>>

LEMMA LedgerNext ==
  ASSUME TypeOK', IsFiniteSet(charged'),
         balance' = adjusted' + credits' * TopUp + undone' - Sum(charged')
  PROVE  BalanceIsLedger'
<1>1. /\ charged' \in SUBSET Payments /\ adjusted' \in Int /\ undone' \in Int
      /\ credits' \in Int /\ TopUp \in Int
  BY BoltcardAssumption DEF TypeOK
<1>2. Sum(charged') \in Int
  BY <1>1, SumTakes
<1>3. Loaded' = adjusted' + credits' * TopUp + undone'
  BY DEF Loaded
<1>4. balance' = Loaded' - Sum(charged')
  BY <1>1, <1>2, <1>3
<1> QED
  BY <1>4 DEF BalanceIsLedger, Sum, MapThenSumSet, MapThenFoldSet

LEMMA LedgerMoves ==
  ASSUME Inv, Inv', IsFiniteSet(charged), BalanceIsLedger,
         \/ Untouched \/ Credits \/ Adjusts
         \/ \E p \in Payments : Takes(p) \/ GivesBack(p)
  PROVE  IsFiniteSet(charged') /\ BalanceIsLedger'
<1> USE DEF Inv
<1>1. /\ charged \in SUBSET Payments /\ balance \in Nat /\ adjusted \in Int /\ undone \in Int
      /\ credits \in Nat /\ TopUp \in Nat /\ credits * TopUp \in Int
  BY BoltcardAssumption DEF TypeOK
<1>2. balance = adjusted + credits * TopUp + undone - Sum(charged) /\ Sum(charged) \in Int
  BY <1>1, SumTakes DEF BalanceIsLedger, Loaded
<1>4. SUFFICES IsFiniteSet(charged') /\ balance' = adjusted' + credits' * TopUp + undone' - Sum(charged')
  BY LedgerNext
<1>5. CASE Untouched
  BY <1>2, <1>5 DEF Untouched
<1>6. CASE Credits
  <2>1. (credits + 1) * TopUp = credits * TopUp + TopUp
    BY <1>1
  <2> QED
    BY <1>1, <1>2, <1>6, <2>1 DEF Credits
<1>7. CASE Adjusts
  <2>1. balance' \in Int /\ adjusted' \in Int /\ undone' \in Int
    BY DEF TypeOK
  <2> QED
    BY <1>1, <1>2, <1>7, <2>1 DEF Adjusts
<1>8. ASSUME NEW p \in Payments, Takes(p)
      PROVE  IsFiniteSet(charged') /\ balance' = adjusted' + credits' * TopUp + undone' - Sum(charged')
  <2>1. IsFiniteSet(charged') /\ charged' \in SUBSET Payments /\ charged' \ {p} = charged /\ p \in charged'
    BY <1>1, <1>8, FS_AddElement DEF Takes
  <2>2. Sum(charged') = Amount[p] + Sum(charged)
    BY <2>1, SumTakes
  <2> QED
    BY <1>1, <1>2, <1>8, <2>1, <2>2, AmountTyped DEF Takes
<1>9. ASSUME NEW p \in Payments, GivesBack(p)
      PROVE  IsFiniteSet(charged') /\ balance' = adjusted' + credits' * TopUp + undone' - Sum(charged')
  <2>1. IsFiniteSet(charged') /\ charged' \in SUBSET Payments
    BY <1>1, <1>9, FS_RemoveElement DEF GivesBack
  <2>2. Sum(charged) = Amount[p] + Sum(charged') /\ Sum(charged') \in Int
    BY <1>1, <1>9, <2>1, SumTakes DEF GivesBack
  <2> QED
    BY <1>1, <1>2, <1>9, <2>1, <2>2, AmountTyped DEF GivesBack
<1> QED
  BY <1>5, <1>6, <1>7, <1>8, <1>9

LEMMA PaymentMoves ==
  ASSUME Inv, Ledger, NEW p \in Payments, PaymentStep(p)
  PROVE  /\ Untouched \/ Takes(p) \/ GivesBack(p)
         /\ RolledBackIsCharged'
<1> USE DEF Inv
<1>3. ASSUME \/ BeginPayment(p) \/ LookAtCard(p) \/ CheckLimits(p) \/ ResetDay(p)
             \/ CrashPayment(p) \/ PayInvoice(p)
      PROVE  /\ Untouched
             /\ \E pc \in PayPcs : PayAt(p, pc) /\ (pc = "rollback" => pay[p] = "pay")
  <2>1. Untouched
    BY <1>3 DEF BeginPayment, LookAtCard, CheckLimits, ResetDay, PayInvoice, CrashPayment, Untouched,
                cardVars, topVars, fundVars
  <2>2. \E pc \in PayPcs : PayAt(p, pc) /\ (pc = "rollback" => pay[p] = "pay")
    BY <1>3 DEF BeginPayment, LookAtCard, CheckLimits, ResetDay, PayInvoice, FailedPayment,
                CrashPayment, PayPcs
  <2> QED
    BY <2>1, <2>2
<1>4. ASSUME DeductBalance(p)
      PROVE  /\ Untouched \/ Takes(p)
             /\ \E pc \in PayPcs : PayAt(p, pc) /\ pc # "rollback"
  <2>1. p \notin charged
    BY <1>4 DEF DeductBalance, PaymentBooks, Early
  <2>2. Untouched \/ Takes(p)
    BY <1>4, <2>1 DEF DeductBalance, Deduct, Untouched, Takes, cardVars, topVars, fundVars
  <2>3. \E pc \in PayPcs : PayAt(p, pc) /\ pc # "rollback"
    BY <1>4 DEF DeductBalance, Refused, PayPcs
  <2> QED
    BY <2>2, <2>3
<1>5. ASSUME RollbackSpend(p)
      PROVE  /\ Untouched \/ GivesBack(p)
             /\ \E pc \in PayPcs : PayAt(p, pc) /\ pc # "rollback"
  <2>1. p \in charged
    BY <1>5 DEF RollbackSpend, Ledger, RolledBackIsCharged
  <2>2. Untouched \/ GivesBack(p)
    BY <1>5, <2>1 DEF RollbackSpend, Untouched, GivesBack, cardVars, topVars, fundVars
  <2>3. \E pc \in PayPcs : PayAt(p, pc) /\ pc # "rollback"
    BY <1>5 DEF RollbackSpend, PayPcs
  <2> QED
    BY <2>2, <2>3
<1>6. /\ Untouched \/ Takes(p) \/ GivesBack(p)
      /\ \E pc \in PayPcs : /\ PayAt(p, pc)
                            /\ pc = "rollback" => pay[p] = "pay" /\ Untouched
  BY <1>3, <1>4, <1>5 DEF PaymentStep
<1>7. RolledBackIsCharged'
  <2>1. PICK pc \in PayPcs : PayAt(p, pc) /\ (pc = "rollback" => pay[p] = "pay" /\ Untouched)
    BY <1>6
  <2>2. \A q \in Payments : pay'[q] = IF q = p THEN pc ELSE pay[q]
    BY <2>1, PayAtTyped
  <2>3. \A q \in Payments \ {p} : q \in charged => q \in charged'
    BY <1>6 DEF Untouched, Takes, GivesBack
  <2>4. pc = "rollback" => p \in charged'
    BY <2>1 DEF PaymentBooks, Untouched
  <2> QED
    BY <2>2, <2>3, <2>4 DEF RolledBackIsCharged, Ledger
<1> QED
  BY <1>6, <1>7

LEMMA OtherMoves ==
  ASSUME Inv, Ledger,
         \/ ActivateCard \/ DisableCard \/ EnableCard \/ WipeCard
         \/ DayPasses \/ ResetDailySpent \/ PayTopUp \/ TopUpElapses
         \/ \E d \in Deliveries : DeliveryStep(d)
         \/ \E d \in Deliveries, i \in Instances : BeginWebhook(d, i) \/ BeginPoll(d, i)
         \/ \E i \in Instances : EvictTopUp(i) \/ Restart(i)
  PROVE  (Untouched \/ Credits) /\ RolledBackIsCharged'
<1>1. UNCHANGED <<pay, charged, adjusted, undone>>
  BY DEF ActivateCard, DisableCard, EnableCard, WipeCard, SetStatus, DayPasses, ResetDailySpent,
         PayTopUp, TopUpElapses, DeliveryStep, FindTopUp, ListTopUps, AskBlink, LoadCard,
         CreditTopUp, MarkProcessed, ActivateOnTopUp, ExpireTopUp, BeginWebhook, BeginPoll,
         EvictTopUp, Restart, payVars, fundVars
<1>2. RolledBackIsCharged'
  BY <1>1 DEF RolledBackIsCharged, Ledger
<1>3. ASSUME NEW d \in Deliveries, DeliveryStep(d)
      PROVE  Untouched \/ Credits
  BY <1>1, <1>3
     DEF DeliveryStep, FindTopUp, ListTopUps, AskBlink, LoadCard, CreditTopUp, Credit,
         MarkProcessed, ActivateOnTopUp, ExpireTopUp, Untouched, Credits, cardVars
<1>4. ASSUME \/ ActivateCard \/ DisableCard \/ EnableCard \/ WipeCard
             \/ DayPasses \/ ResetDailySpent \/ PayTopUp \/ TopUpElapses
             \/ \E d \in Deliveries, i \in Instances : BeginWebhook(d, i) \/ BeginPoll(d, i)
             \/ \E i \in Instances : EvictTopUp(i) \/ Restart(i)
      PROVE  Untouched
  BY <1>1, <1>4
     DEF ActivateCard, DisableCard, EnableCard, WipeCard, SetStatus, DayPasses,
         ResetDailySpent, PayTopUp, TopUpElapses, BeginWebhook, BeginPoll, EvictTopUp, Restart,
         Untouched, cardVars, topVars
<1> QED
  BY <1>2, <1>3, <1>4

\* An increment accounts for what it undoes as well as for what it adds.
LEMMA FundMoves ==
  ASSUME Inv, Ledger, NEW f \in Funders, ReadBalance(f) \/ UpdateCardBalance(f)
  PROVE  (Untouched \/ Adjusts) /\ RolledBackIsCharged'
<1>1. UNCHANGED <<pay, charged, credits>>
  BY DEF ReadBalance, UpdateCardBalance, payVars, topVars
<1>2. RolledBackIsCharged'
  BY <1>1 DEF RolledBackIsCharged, Ledger
<1>3. UNCHANGED <<balance, adjusted, undone>> => Untouched
  BY <1>1 DEF Untouched
<1>4. CASE ReadBalance(f)
  BY <1>2, <1>3, <1>4 DEF ReadBalance, cardVars
<1>5. CASE UpdateCardBalance(f)
  <2>1. /\ balance \in Int /\ adjusted \in Int /\ undone \in Int
        /\ fund[f].to \in Int /\ fund[f].by \in Int
    BY DEF Inv, TypeOK
  <2>2. CASE UNCHANGED <<balance, adjusted, undone>>
    BY <1>2, <1>3, <2>2
  <2>3. CASE /\ balance' = fund[f].to
             /\ adjusted' = adjusted + fund[f].by
             /\ undone' = undone + (fund[f].to - fund[f].by - balance)
    BY <1>1, <1>2, <2>1, <2>3 DEF Adjusts
  <2>4. CASE /\ balance' = fund[f].to
             /\ adjusted' = adjusted + (fund[f].to - balance) /\ UNCHANGED undone
    BY <1>1, <1>2, <2>1, <2>4 DEF Adjusts
  <2> QED
    BY <1>5, <2>2, <2>3, <2>4 DEF UpdateCardBalance
<1> QED
  BY <1>4, <1>5

LEMMA StepKeepsLedger ==
  ASSUME Inv, Inv', Ledger, [Next]_vars
  PROVE  Ledger'
<1>1. /\ \/ Untouched \/ Credits \/ Adjusts
         \/ \E p \in Payments : Takes(p) \/ GivesBack(p)
      /\ RolledBackIsCharged'
  <2>1. CASE UNCHANGED vars
    BY <2>1 DEF vars, cardVars, payVars, topVars, fundVars, Untouched, Ledger, RolledBackIsCharged
  <2> QED
    BY <2>1, PaymentMoves, OtherMoves, FundMoves DEF Next
<1> QED
  BY <1>1, LedgerMoves DEF Ledger

LEMMA AlwaysLedger == Spec => []Ledger
<1>1. Init => Ledger
  <2> SUFFICES ASSUME Init PROVE Ledger
    OBVIOUS
  <2>1. IsFiniteSet(charged) /\ Sum(charged) = 0
    BY FS_EmptySet, SumTakes DEF Init
  <2>2. balance \in Int /\ credits * TopUp = 0
    BY BoltcardAssumption DEF Init
  <2>3. BalanceIsLedger
    BY <2>1, <2>2 DEF Init, BalanceIsLedger, Loaded
  <2> QED
    BY <2>1, <2>3 DEF Init, Ledger, RolledBackIsCharged
<1>2. Inv /\ Inv' /\ Ledger /\ [Next]_vars => Ledger'
  BY StepKeepsLedger
<1> QED
  BY <1>1, <1>2, AlwaysInv, PTL DEF Spec

\* However payments, top-ups, rollbacks, faults and the owner's adjustments
\* interleave, the balance is what was put on the card less what is off it: only
\* an increment that writes over a newer balance is out, and by what it undid.
THEOREM BalanceKeepsTheLedger == Spec => []BalanceIsLedger
<1>1. Ledger => BalanceIsLedger
  BY DEF Ledger
<1> QED
  BY <1>1, AlwaysLedger, PTL

\* The card never spends more than was put on it and what increments undid, for
\* any number of payments of any amounts and of adjustments racing with them.
THEOREM SpendsWhatWasLoaded == Spec => []NeverOverspent
<1>1. ASSUME Inv, Ledger PROVE NeverOverspent
  <2>1. /\ charged \in SUBSET Payments /\ IsFiniteSet(charged) /\ balance \in Nat
        /\ Loaded \in Int /\ balance = Loaded - Sum(charged)
    BY <1>1, BoltcardAssumption DEF Inv, TypeOK, Ledger, BalanceIsLedger, Loaded
  <2>2. accepted \ disturbed \in SUBSET charged
    BY <1>1 DEF Inv, TypeOK, PaymentBooks
  <2>3. Sum(accepted \ disturbed) <= Sum(charged)
    BY <2>1, <2>2, SumOfFewer
  <2>4. Sum(accepted \ disturbed) \in Int /\ Sum(charged) \in Int
    BY <2>1, <2>2, FS_Subset, SumTakes
  <2> QED
    BY <2>1, <2>3, <2>4 DEF NeverOverspent
<1>2. Inv /\ Ledger => NeverOverspent
  BY <1>1
<1> QED
  BY <1>2, AlwaysInv, AlwaysLedger, PTL
=============================================================================
