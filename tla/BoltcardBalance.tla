--------------------------- MODULE BoltcardBalance ---------------------------
(***************************************************************************)
(* The spending limit of one Boltcard: the columns status, balance,        *)
(* daily_spent and daily_reset_at of its row (lib/boltcard/store.ts), and  *)
(* the requests that move them: LNURL-withdraw callbacks that spend from   *)
(* it (lnurlw.ts), deliveries and polls that credit a paid top-up          *)
(* (lnurlp.ts), and the owner's own adjustments (pages/api/boltcard).      *)
(*                                                                         *)
(* The sats stay in the owner's wallet; the row is the only record of what *)
(* the card may still spend.  Every query is a step.                       *)
(***************************************************************************)
EXTENDS Integers, FiniteSets, FiniteSetsExt

CONSTANTS
  Payments,     \* the withdraw callbacks
  Amount,       \* the amount of the invoice each of them presents
  MaxTxAmount,  \* the card's limit per transaction
  DailyLimit,   \* and per day
  Deliveries,   \* webhooks and balance polls about the top-up
  TopUp,        \* the amount of the top-up
  Instances,    \* the server processes, each with its pendingTopUpsCache
  Funders,      \* the owner's funding and adjusting requests
  Adjustments,  \* by how much they change the balance
  Targets,      \* balances they set instead
  Balances,     \* balances the card starts with
  Faults,       \* what may go wrong
  MaxFailures   \* bound on the number of faults in a behaviour

\* dbError    a query throws, with or without having been applied
\* payRejected, replyLost  as in PaymentForwarding
\* crash      a process dies
\* txFailed   Blink reports the top-up's receive transaction as FAILED
AllFaults == {"dbError", "payRejected", "replyLost", "crash", "txFailed"}

ASSUME BoltcardAssumption ==
  /\ Amount \in [Payments -> Nat \ {0}]
  /\ MaxTxAmount \in Nat /\ DailyLimit \in Nat /\ TopUp \in Nat
  /\ Adjustments \subseteq Int /\ Targets \subseteq Nat /\ Balances \subseteq Nat
  /\ Faults \subseteq AllFaults /\ MaxFailures \in Nat

VARIABLES
  status,     \* boltcards.status
  balance,    \* boltcards.balance
  dailySpent, \* boltcards.daily_spent
  resetDue,   \* daily_reset_at < now
  pay,        \* pc of every payment
  affordable, \* what a payment that resets the day first has found
  charged,    \* payments whose amount is off the balance
  accepted,   \* payments that have left the owner's wallet
  disturbed,  \* payments that a crash, a query error or a lost reply has hit
  invoice,    \* the top-up's invoice: "open", "paid" or "failed"
  processed,  \* boltcard_pending_topups.processed
  elapsed,    \* boltcard_pending_topups.expires_at < now
  cached,     \* the instances whose pendingTopUpsCache holds the top-up
  top,        \* state of every delivery: pc, instance, card seen PENDING
  credits,    \* how often the top-up has been credited
  fund,       \* state of every funder: pc, mode, balance to write, amount
  adjusted,   \* what the owner has meant to put on the card, in all
  undone,     \* what increments have undone of the moves made since their read
  failures    \* faults so far

cardVars == <<status, balance, dailySpent, resetDue>>
payVars  == <<pay, affordable, charged, accepted, disturbed>>
topVars  == <<invoice, processed, elapsed, cached, top, credits>>
fundVars == <<fund, adjusted, undone>>

vars == <<cardVars, payVars, topVars, fundVars, failures>>

Statuses == {"PENDING", "ACTIVE", "DISABLED", "WIPED"}
PayPcs   == {"idle", "look", "check", "reset", "deduct", "pay", "rollback",
             "ok", "error", "crashed"}
TopPcs   == {"idle", "find", "list", "ask", "load", "card", "credit", "mark",
             "activate", "expire", "done", "crashed"}
FundPcs  == {"idle", "write", "done"}

TypeOK ==
  /\ status \in Statuses
  /\ balance \in Nat /\ dailySpent \in Nat
  /\ resetDue \in BOOLEAN
  /\ pay \in [Payments -> PayPcs]
  /\ affordable \in [Payments -> BOOLEAN]
  /\ charged \subseteq Payments /\ accepted \subseteq Payments
  /\ disturbed \subseteq Payments
  /\ invoice \in {"open", "paid", "failed"}
  /\ processed \in BOOLEAN /\ elapsed \in BOOLEAN
  /\ cached \subseteq Instances
  /\ top \in [Deliveries -> [pc: TopPcs, on: Instances, sawPending: BOOLEAN]]
  /\ credits \in Nat
  /\ fund \in [Funders -> [pc: FundPcs, mode: {"increment", "set"}, to: Nat, by: Int]]
  /\ adjusted \in Int /\ undone \in Int
  /\ failures \in 0..MaxFailures

Init ==
  /\ status \in {"PENDING", "ACTIVE"}
  /\ balance \in Balances
  /\ dailySpent = 0 /\ resetDue = FALSE
  /\ pay = [p \in Payments |-> "idle"]
  /\ affordable = [p \in Payments |-> FALSE]
  /\ charged = {} /\ accepted = {} /\ disturbed = {}
  /\ invoice = "open" /\ processed = FALSE /\ elapsed = FALSE
  /\ \E i \in Instances :
       /\ cached = {i}
       /\ top = [d \in Deliveries |-> [pc |-> "idle", on |-> i, sawPending |-> FALSE]]
  /\ credits = 0
  /\ fund = [f \in Funders |-> [pc |-> "idle", mode |-> "set", to |-> 0, by |-> 0]]
  /\ adjusted = balance /\ undone = 0
  /\ failures = 0

Fault(f) ==
  /\ f \in Faults
  /\ failures < MaxFailures
  /\ failures' = failures + 1

ActivePayment(p) == pay[p] \notin {"idle", "ok", "error", "crashed"}
ActiveDelivery(d) == top[d].pc \notin {"idle", "done", "crashed"}

-----------------------------------------------------------------------------
(* The owner's card management, the clock, and lazyCleanup.                *)

SetStatus(from, to) ==
  /\ status \in from
  /\ status' = to
  /\ UNCHANGED <<balance, dailySpent, resetDue, payVars, topVars, fundVars, failures>>

ActivateCard == SetStatus({"PENDING", "DISABLED"}, "ACTIVE")
DisableCard  == SetStatus({"ACTIVE"}, "DISABLED")
EnableCard   == SetStatus({"DISABLED"}, "ACTIVE")
WipeCard     == SetStatus(Statuses \ {"WIPED"}, "WIPED")

DayPasses ==
  /\ ~resetDue
  /\ resetDue' = TRUE
  /\ UNCHANGED <<status, balance, dailySpent, payVars, topVars, fundVars, failures>>

\* resetDailySpent, and reset_boltcard_daily_limits on cards that are due.
ResetDailySpent ==
  /\ dailySpent' = 0
  /\ resetDue' = FALSE
  /\ UNCHANGED <<status, balance, payVars, topVars, fundVars, failures>>

-----------------------------------------------------------------------------
(***************************************************************************)
(* handleWithdrawCallback: look at the card, incrementDailySpent (read the *)
(* row, perhaps reset the day, deduct), pay, and roll back on a failure.   *)
(***************************************************************************)
PayAt(p, pc) == pay' = [pay EXCEPT ![p] = pc]

BeginPayment(p) ==
  /\ pay[p] = "idle"
  /\ PayAt(p, "look")
  /\ UNCHANGED <<cardVars, affordable, charged, accepted, disturbed, topVars, fundVars, failures>>

\* getCard answers null when its query throws.
LookAtCard(p) ==
  /\ pay[p] = "look"
  /\ \/ PayAt(p, IF status = "ACTIVE" THEN "check" ELSE "error") /\ UNCHANGED failures
     \/ Fault("dbError") /\ PayAt(p, "error")
  /\ UNCHANGED <<cardVars, affordable, charged, accepted, disturbed, topVars, fundVars>>

\* What the row just read allows.
Affordable(p) ==
  /\ Amount[p] <= balance
  /\ Amount[p] <= MaxTxAmount
  /\ (IF resetDue THEN 0 ELSE dailySpent) + Amount[p] <= DailyLimit

CheckLimits(p) ==
  /\ pay[p] = "check"
  /\ \/ /\ affordable' = [affordable EXCEPT ![p] =
                            status = "ACTIVE" /\ resetDue /\ Affordable(p)]
        /\ PayAt(p, IF status = "ACTIVE" /\ resetDue THEN "reset"
                    ELSE IF status = "ACTIVE" /\ Affordable(p) THEN "deduct" ELSE "error")
        /\ UNCHANGED failures
     \/ Fault("dbError") /\ PayAt(p, "error") /\ UNCHANGED affordable
  /\ UNCHANGED <<cardVars, charged, accepted, disturbed, topVars, fundVars>>

ResetDay(p) ==
  /\ pay[p] = "reset"
  /\ \/ /\ dailySpent' = 0 /\ resetDue' = FALSE
        /\ PayAt(p, IF affordable[p] THEN "deduct" ELSE "error")
        /\ UNCHANGED failures
     \/ /\ Fault("dbError")
        /\ (dailySpent' = 0 /\ resetDue' = FALSE) \/ UNCHANGED <<dailySpent, resetDue>>
        /\ PayAt(p, "error")
  /\ affordable' = [affordable EXCEPT ![p] = FALSE]
  /\ UNCHANGED <<status, balance, charged, accepted, disturbed, topVars, fundVars>>

\* Mutation: the UPDATE relies on the balance that was read.
DeductibleAsRead(p) == status = "ACTIVE"

\* Mutation: the UPDATE relies on the status that was read.
DeductibleAnyStatus(p) == balance >= Amount[p]

Deductible(p) == status = "ACTIVE" /\ balance >= Amount[p]

Deduct(p) ==
  /\ balance' = balance - Amount[p]
  /\ dailySpent' = dailySpent + Amount[p]
  /\ charged' = charged \cup {p}
  /\ UNCHANGED <<status, resetDue>>

\* Mutation: nobody looks whether the UPDATE changed the row.
RefusedUnnoticed == "pay"

\* Mutation: every error path rolls back.
RefusedIsRolledBack == "rollback"

\* Where a payment goes whose UPDATE changed no row.
Refused == "error"

DeductBalance(p) ==
  /\ pay[p] = "deduct"
  /\ \/ Deductible(p) /\ Deduct(p) /\ PayAt(p, "pay") /\ UNCHANGED <<disturbed, failures>>
     \/ /\ ~Deductible(p)
        /\ PayAt(p, Refused)
        /\ UNCHANGED <<cardVars, charged, disturbed, failures>>
     \/ /\ Fault("dbError")
        /\ disturbed' = disturbed \cup {p}
        /\ (Deductible(p) /\ Deduct(p)) \/ UNCHANGED <<cardVars, charged>>
        /\ PayAt(p, "error")
  /\ UNCHANGED <<affordable, accepted, topVars, fundVars>>

\* Mutation: an invoice that cannot be paid is answered at once.
FailedPaymentEnds == "error"

FailedPayment == "rollback"

PayInvoice(p) ==
  /\ pay[p] = "pay"
  /\ \/ /\ accepted' = accepted \cup {p}
        /\ PayAt(p, "ok")
        /\ UNCHANGED <<disturbed, failures>>
     \/ /\ Fault("payRejected")
        /\ PayAt(p, FailedPayment)
        /\ UNCHANGED <<accepted, disturbed>>
     \/ /\ Fault("replyLost")
        /\ accepted' = accepted \cup {p}
        /\ disturbed' = disturbed \cup {p}
        /\ PayAt(p, FailedPayment)
  /\ UNCHANGED <<cardVars, affordable, charged, topVars, fundVars>>

\* daily_spent = GREATEST(0, daily_spent - amount), whatever day it is.
RollbackSpend(p) ==
  /\ pay[p] = "rollback"
  /\ \/ /\ balance' = balance + Amount[p]
        /\ dailySpent' = IF dailySpent > Amount[p] THEN dailySpent - Amount[p] ELSE 0
        /\ charged' = charged \ {p}
        /\ UNCHANGED <<status, resetDue, disturbed, failures>>
     \/ /\ Fault("dbError")
        /\ disturbed' = disturbed \cup {p}
        /\ UNCHANGED <<cardVars, charged>>
  /\ PayAt(p, "error")
  /\ UNCHANGED <<affordable, accepted, topVars, fundVars>>

CrashPayment(p) ==
  /\ ActivePayment(p)
  /\ Fault("crash")
  /\ disturbed' = disturbed \cup {p}
  /\ PayAt(p, "crashed")
  /\ UNCHANGED <<cardVars, affordable, charged, accepted, topVars, fundVars>>

-----------------------------------------------------------------------------
(***************************************************************************)
(* The top-up.  A webhook asks getPendingTopUp, a balance poll lists the   *)
(* pending top-ups and asks Blink; both end in processTopUpPayment, which  *)
(* looks the top-up up again, credits it, and then marks it processed.     *)
(***************************************************************************)
\* A delivery that is done has forgotten the card it read.
TopAt(d, pc) ==
  top' = [top EXCEPT ![d].pc = pc, ![d].sawPending = @ /\ pc # "done"]

PayTopUp ==
  /\ invoice = "open"
  /\ \/ invoice' = "paid" /\ UNCHANGED failures
     \/ Fault("txFailed") /\ invoice' = "failed"
  /\ UNCHANGED <<cardVars, payVars, processed, elapsed, cached, top, credits, fundVars>>

TopUpElapses ==
  /\ ~elapsed
  /\ elapsed' = TRUE
  /\ UNCHANGED <<cardVars, payVars, invoice, processed, cached, top, credits, fundVars, failures>>

\* Storing another top-up an hour later drops this one from the cache.
EvictTopUp(i) ==
  /\ elapsed /\ i \in cached
  /\ cached' = cached \ {i}
  /\ UNCHANGED <<cardVars, payVars, invoice, processed, elapsed, top, credits, fundVars, failures>>

BeginWebhook(d, i) ==
  /\ top[d].pc = "idle" /\ invoice = "paid"
  /\ top' = [top EXCEPT ![d].pc = "find", ![d].on = i]
  /\ UNCHANGED <<cardVars, payVars, invoice, processed, elapsed, cached, credits, fundVars, failures>>

BeginPoll(d, i) ==
  /\ top[d].pc = "idle"
  /\ top' = [top EXCEPT ![d].pc = "list", ![d].on = i]
  /\ UNCHANGED <<cardVars, payVars, invoice, processed, elapsed, cached, credits, fundVars, failures>>

Stored == ~processed /\ ~elapsed

\* The instance's cache first, then the row; an error reads as "no top-up".
FindTopUp(d, from, to) ==
  /\ top[d].pc = from
  /\ \/ TopAt(d, IF top[d].on \in cached \/ Stored THEN to ELSE "done") /\ UNCHANGED failures
     \/ top[d].on \notin cached /\ Fault("dbError") /\ TopAt(d, "done")
  /\ UNCHANGED <<cardVars, payVars, invoice, processed, elapsed, cached, credits, fundVars>>

ListTopUps(d) ==
  /\ top[d].pc = "list"
  /\ \/ TopAt(d, IF Stored THEN "ask" ELSE "done") /\ UNCHANGED failures
     \/ Fault("dbError") /\ TopAt(d, "done")
  /\ UNCHANGED <<cardVars, payVars, invoice, processed, elapsed, cached, credits, fundVars>>

\* checkInvoiceStatus: an answer other than PAID and EXPIRED, an error among
\* them, leaves the top-up for the next poll.
AskBlink(d) ==
  /\ top[d].pc = "ask"
  /\ \/ invoice = "paid" /\ TopAt(d, "load")
     \/ invoice = "failed" /\ TopAt(d, "expire")
     \/ TopAt(d, "done")
  /\ UNCHANGED <<cardVars, payVars, invoice, processed, elapsed, cached, credits, fundVars, failures>>

LoadCard(d) ==
  /\ top[d].pc = "card"
  /\ \/ /\ top' = [top EXCEPT ![d].pc = "credit", ![d].sawPending = (status = "PENDING")]
        /\ UNCHANGED failures
     \/ Fault("dbError") /\ TopAt(d, "done")
  /\ UNCHANGED <<cardVars, payVars, invoice, processed, elapsed, cached, credits, fundVars>>

Credit ==
  /\ balance' = balance + TopUp
  /\ credits' = credits + 1
  /\ UNCHANGED <<status, dailySpent, resetDue>>

\* Mutation: a top-up that cannot be credited now is given up.
CreditFailedIsMarked == "mark"

CreditFailed == "done"

CreditTopUp(d) ==
  /\ top[d].pc = "credit"
  /\ \/ status = "ACTIVE" /\ Credit /\ TopAt(d, "mark") /\ UNCHANGED failures
     \/ status # "ACTIVE" /\ TopAt(d, CreditFailed) /\ UNCHANGED <<cardVars, credits, failures>>
     \/ /\ Fault("dbError")
        /\ (status = "ACTIVE" /\ Credit) \/ UNCHANGED <<cardVars, credits>>
        /\ TopAt(d, "done")
  /\ UNCHANGED <<payVars, invoice, processed, elapsed, cached, fundVars>>

\* markTopUpProcessed reports whether it was the first; nobody looks.
MarkProcessed(d) ==
  /\ top[d].pc = "mark"
  /\ \/ processed' = TRUE /\ UNCHANGED failures
     \/ Fault("dbError") /\ processed' \in {processed, TRUE}
  /\ cached' = cached \ {top[d].on}
  /\ TopAt(d, IF top[d].sawPending THEN "activate" ELSE "done")
  /\ UNCHANGED <<cardVars, payVars, invoice, elapsed, credits, fundVars>>

ActivateOnTopUp(d) ==
  /\ top[d].pc = "activate"
  /\ \/ /\ status' = IF status \in {"PENDING", "DISABLED"} THEN "ACTIVE" ELSE status
        /\ UNCHANGED failures
     \/ Fault("dbError") /\ UNCHANGED status
  /\ TopAt(d, "done")
  /\ UNCHANGED <<balance, dailySpent, resetDue, payVars, invoice, processed, elapsed,
                 cached, credits, fundVars>>

\* checkAndProcessPendingTopUps clears away a top-up that failed.
ExpireTopUp(d) ==
  /\ top[d].pc = "expire"
  /\ \/ processed' = TRUE /\ UNCHANGED failures
     \/ Fault("dbError") /\ UNCHANGED processed
  /\ TopAt(d, "done")
  /\ UNCHANGED <<cardVars, payVars, invoice, elapsed, cached, credits, fundVars>>

\* A server process restarts: its cache and the deliveries it serves are gone.
Restart(i) ==
  /\ Fault("crash")
  /\ cached' = cached \ {i}
  /\ top' = [d \in Deliveries |->
               IF ActiveDelivery(d) /\ top[d].on = i
               THEN [top[d] EXCEPT !.pc = "crashed", !.sawPending = FALSE]
               ELSE top[d]]
  /\ UNCHANGED <<cardVars, payVars, invoice, processed, elapsed, credits, fundVars>>

-----------------------------------------------------------------------------
(***************************************************************************)
(* fund.ts and the "adjust" action of cards/[cardId].ts: read the balance, *)
(* work out the new one, ask Blink about the wallet, write the new one.    *)
(* Nothing keeps payments, top-ups or another adjustment out meanwhile.    *)
(***************************************************************************)
ReadBalance(f) ==
  /\ fund[f].pc = "idle"
  /\ \/ \E by \in Adjustments :
          /\ balance + by >= 0
          /\ fund' = [fund EXCEPT ![f] =
                       [pc |-> "write", mode |-> "increment", to |-> balance + by, by |-> by]]
     \/ \E to \in Targets :
          fund' = [fund EXCEPT ![f] = [pc |-> "write", mode |-> "set", to |-> to, by |-> 0]]
  /\ UNCHANGED <<cardVars, payVars, topVars, adjusted, undone, failures>>

Writable == status = "ACTIVE"

\* updateCardBalance: the balance is set, not added to.  An increment so undoes
\* whatever has moved the balance since it was read (to - by).
UpdateCardBalance(f) ==
  /\ fund[f].pc = "write"
  /\ \/ /\ Writable
        /\ balance' = fund[f].to
        /\ IF fund[f].mode = "increment"
           THEN /\ adjusted' = adjusted + fund[f].by
                /\ undone' = undone + (fund[f].to - fund[f].by - balance)
           ELSE adjusted' = adjusted + (fund[f].to - balance) /\ UNCHANGED undone
        /\ UNCHANGED failures
     \/ /\ \/ ~Writable /\ UNCHANGED failures
           \/ Fault("dbError")
        /\ UNCHANGED <<balance, adjusted, undone>>
  /\ fund' = [fund EXCEPT ![f] = [pc |-> "done", mode |-> "set", to |-> 0, by |-> 0]]
  /\ UNCHANGED <<status, dailySpent, resetDue, payVars, topVars>>

-----------------------------------------------------------------------------
PaymentStep(p) ==
  \/ BeginPayment(p)
  \/ LookAtCard(p)
  \/ CheckLimits(p)
  \/ ResetDay(p)
  \/ DeductBalance(p)
  \/ PayInvoice(p)
  \/ RollbackSpend(p)
  \/ CrashPayment(p)

DeliveryStep(d) ==
  \/ FindTopUp(d, "find", "load")
  \/ ListTopUps(d)
  \/ AskBlink(d)
  \/ FindTopUp(d, "load", "card")
  \/ LoadCard(d)
  \/ CreditTopUp(d)
  \/ MarkProcessed(d)
  \/ ActivateOnTopUp(d)
  \/ ExpireTopUp(d)

Next ==
  \/ ActivateCard \/ DisableCard \/ EnableCard \/ WipeCard
  \/ DayPasses \/ ResetDailySpent
  \/ PayTopUp \/ TopUpElapses
  \/ \E p \in Payments : PaymentStep(p)
  \/ \E d \in Deliveries : DeliveryStep(d)
  \/ \E d \in Deliveries, i \in Instances : BeginWebhook(d, i) \/ BeginPoll(d, i)
  \/ \E i \in Instances : EvictTopUp(i) \/ Restart(i)
  \/ \E f \in Funders : ReadBalance(f) \/ UpdateCardBalance(f)

Spec == Init /\ [][Next]_vars

-----------------------------------------------------------------------------
(***************************************************************************)
(* Properties.                                                             *)
(***************************************************************************)
Sum(payments) == MapThenSumSet(LAMBDA p : Amount[p], payments)

\* What was put on the card, the deductions that an increment undid included.
Loaded == adjusted + credits * TopUp + undone

\* The balance is what was put on the card less what was taken off, however
\* payments, top-ups, rollbacks, crashes and adjustments interleave ("atomic
\* operation", store.ts:1114 and 1223): an increment that writes over a newer
\* balance is out by exactly what moved since its read, and nothing else is.
BalanceIsLedger == balance = Loaded - Sum(charged)

\* The card never spends more than was put on it, counting the payments whose
\* outcome the server was told ("the card balance is just a spending limit",
\* fund.ts:14); deductions that increments undid (fund.ts:98) can be spent again.
NeverOverspent == Sum(accepted \ disturbed) <= Loaded

\* Every payment the wallet reports is taken off the card ...
PaidIsCharged == accepted \ disturbed \subseteq charged

\* ... and a payment that failed is given back (lnurlw.ts:456).
FailedIsRefunded ==
  charged \ disturbed \subseteq accepted \cup {p \in Payments : ActivePayment(p)}

\* A card that is pending, disabled or wiped loses nothing, even to a callback
\* that found it active a moment ago.
OnlyActiveIsCharged == [][status # "ACTIVE" => balance' >= balance]_vars

\* A paid top-up is marked processed only after it has been credited: no
\* crash, failed query or restart loses it ("to prevent loss of top-up data on
\* server restart", 018_boltcard_pending_topups.sql:8).
TopUpIsNotLost == processed => credits > 0 \/ invoice = "failed"
=============================================================================
