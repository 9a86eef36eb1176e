------------------------------ MODULE TipSplit ------------------------------
(***************************************************************************)
(* How a tip is divided among the recipients of a split profile and paid   *)
(* out: sendTips in webhook.ts, and the same loop in forward-with-tips,    *)
(* forward-ln-address, forward-npubcash, forward-nwc-with-tips and         *)
(* send-nwc-tips.  create-invoice stores the shares, a first pass assigns  *)
(* the amounts from left to right, a second one pays them in that order.   *)
(*                                                                         *)
(* Shares are whole percentages.  tipAmount * share / 100 is taken         *)
(* exactly, and the even share 100 / n as the exact quotient.  Nothing is  *)
(* assumed of a profile: the editor saves shares of 0, and the API does    *)
(* not look at what the shares add up to.                                  *)
(***************************************************************************)
EXTENDS Integers, Sequences

CONSTANTS
  Tips,          \* the tip amounts, in sats
  Profiles,      \* the shares of the recipients of a profile, in order
  Absent         \* the share of a recipient that has none

ASSUME TipSplitAssumption ==
  /\ Tips \subseteq Nat \ {0}
  /\ Absent \notin 0..100
  /\ Profiles \subseteq Seq(0..100 \cup {Absent})
  /\ \A p \in Profiles : p # <<>>

VARIABLES
  tip,         \* tipAmount
  profile,     \* the shares the client sent with the invoice
  phase,       \* "assign", "pay" or "done"
  amounts,     \* recipientAmounts, as far as it is computed
  distributed, \* distributedSats
  results,     \* tipResults: "paid", "failed" or "skipped"
  sent,        \* what has left the wallet
  asked,       \* history: the shares of the first pass, added up
  evens        \* history: how many of them were 0 and made an even share

tipVars == <<tip, profile, phase, amounts, distributed, results, sent, asked, evens>>

Count == Len(profile)

\* create-invoice.ts: share ?? 100.
StoredShare(s) == IF s = Absent THEN 100 ELSE s

\* Mutation: the amount of a share is rounded up.
ShareRoundedUp(s) == (tip * s + 99) \div 100

EvenShare == tip \div Count

\* floor(tipAmount * (share || 100 / n) / 100)
ShareOf(s) == IF s = 0 THEN EvenShare ELSE (tip * s) \div 100

TipTypeOK ==
  /\ tip \in Tips
  /\ profile \in Profiles
  /\ phase \in {"assign", "pay", "done"}
  /\ amounts \in Seq(Int)
  /\ distributed \in Nat
  /\ results \in Seq({"paid", "failed", "skipped"})
  /\ sent \in Nat
  /\ asked \in Nat /\ evens \in Nat
  /\ Len(amounts) <= Count /\ Len(results) <= Len(amounts)
  /\ phase = "assign" <=> Len(amounts) < Count

TipInit ==
  /\ tip \in Tips
  /\ profile \in Profiles
  /\ phase = "assign"
  /\ amounts = <<>>
  /\ distributed = 0
  /\ results = <<>>
  /\ sent = 0
  /\ asked = 0 /\ evens = 0

\* Mutation: the last recipient is in the first pass too.
InFirstPassToLast == Len(amounts) < Count

InFirstPass == Len(amounts) < Count - 1

\* Everybody but the last gets the floor of a share ...
AssignShare ==
  /\ phase = "assign"
  /\ InFirstPass
  /\ LET share == StoredShare(profile[Len(amounts) + 1])
     IN /\ amounts' = Append(amounts, ShareOf(share))
        /\ distributed' = distributed + ShareOf(share)
        /\ asked' = asked + share
        /\ evens' = IF share = 0 THEN evens + 1 ELSE evens
  /\ UNCHANGED <<tip, profile, phase, results, sent>>

\* Mutation: the last recipient gets a floor like everybody else.
LastShare == ShareOf(StoredShare(profile[Count]))

Remainder == tip - distributed

\* ... and the last one whatever is left, which may be less than nothing.
AssignRemainder ==
  /\ phase = "assign"
  /\ Len(amounts) = Count - 1
  /\ amounts' = Append(amounts, Remainder)
  /\ phase' = "pay"
  /\ UNCHANGED <<tip, profile, distributed, results, sent, asked, evens>>

Skipped(amount) == amount <= 0

PayRecipient ==
  /\ phase = "pay"
  /\ Len(results) < Count
  /\ LET amount == amounts[Len(results) + 1]
     IN IF Skipped(amount)
        THEN results' = Append(results, "skipped") /\ UNCHANGED sent
        ELSE \/ results' = Append(results, "paid") /\ sent' = sent + amount
             \/ results' = Append(results, "failed") /\ UNCHANGED sent
  /\ UNCHANGED <<tip, profile, phase, amounts, distributed, asked, evens>>

Finish ==
  /\ phase = "pay"
  /\ Len(results) = Count
  /\ phase' = "done"
  /\ UNCHANGED <<tip, profile, amounts, distributed, results, sent, asked, evens>>

TipNext == AssignShare \/ AssignRemainder \/ PayRecipient \/ Finish

TipSpec == TipInit /\ [][TipNext]_tipVars

-----------------------------------------------------------------------------
(***************************************************************************)
(* Properties.                                                             *)
(***************************************************************************)

\* What leaves the wallet is no more than the tip, unless the shares themselves
\* make more of it: then it is no more than what they stand for, every share of
\* 0 counted as an even one, as the code reads it (webhook.ts:984).  So when
\* the shares before the last stay within 100 and none of them is 0, nothing
\* beyond the tip is sent, whichever payments fail and however the floors fall;
\* and each share of 0 costs at most one even share.
NeverOverTip ==
  \/ sent <= tip
  \/ 100 * sent <= tip * asked + 100 * (evens * EvenShare)

\* Not a sat of the tip is kept back when every payment succeeds ("give them
\* whatever is left to avoid rounding issues", webhook.ts:985), whatever the
\* shares; and what is sent beyond it is what the first pass gave away already,
\* with nothing for the last recipient.
NothingKeptBack ==
  phase = "done" /\ (\A i \in 1..Count : results[i] # "failed") =>
    sent = IF distributed <= tip THEN tip ELSE distributed
=============================================================================
