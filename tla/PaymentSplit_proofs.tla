-------------------------- MODULE PaymentSplit_proofs --------------------------
(***************************************************************************)
(* Theorems about the two modules that deal with one payment split: how it *)
(* is kept (HybridStore), for any number of handlers and any number of     *)
(* Redis commands that fail, and how it is divided (TipSplit), for any tip *)
(* and any number of recipients.                                           *)
(***************************************************************************)
EXTENDS HybridStore, TipSplit, SequenceTheorems, TLAPS

\* Every step of a caller keeps the two copies, the calls and the counter typed.
THEOREM TypeCorrect == Spec => []TypeOK
<1> USE HybridStoreAssumption
<1>1. Init => TypeOK
  <2> SUFFICES ASSUME Init PROVE TypeOK
    OBVIOUS
  <2>1. pc \in [Callers -> Pcs] /\ seen \in [Callers -> Statuses]
    BY DEF Init, Pcs, Statuses
  <2>2. failures \in 0..MaxRedisFailures
    BY DEF Init
  <2> QED
    BY <2>1, <2>2 DEF Init, TypeOK, Statuses
<1>2. TypeOK /\ [Next]_vars => TypeOK'
  <2> SUFFICES ASSUME TypeOK, [Next]_vars PROVE TypeOK'
    OBVIOUS
  <2> USE DEF TypeOK, Statuses, Pcs
  <2>1. CASE DeadlinePasses
    BY <2>1 DEF DeadlinePasses
  <2>2. CASE CacheExpires
    BY <2>2 DEF CacheExpires
  <2>3. CASE ExpireOldPayments
    BY <2>3 DEF ExpireOldPayments, Goto
  <2>4. ASSUME NEW c \in Callers, BeginGet(c) PROVE TypeOK'
    BY <2>4 DEF BeginGet, Goto
  <2>5. ASSUME NEW c \in Callers, Continue(c) PROVE TypeOK'
    <3>1. CASE GetCached(c)
      BY <3>1 DEF GetCached, Goto, Answer, RedisFails
    <3>2. CASE Select(c)
      BY <3>2 DEF Select, Warmable, Goto, Answer
    <3>3. CASE WarmUp(c)
      BY <3>3 DEF WarmUp, Goto, Answer, RedisFails
    <3>4. CASE Uncache(c)
      BY <3>4 DEF Uncache, Goto, RedisFails
    <3>5. CASE RereadCache(c)
      BY <3>5 DEF RereadCache, Goto, RedisFails
    <3>6. CASE RewriteCache(c)
      BY <3>6 DEF RewriteCache, Goto, RedisFails
    <3>7. CASE DeleteKey(c)
      BY <3>7 DEF DeleteKey, Goto, RedisFails
    <3> QED
      BY <2>5, <3>1, <3>2, <3>3, <3>4, <3>5, <3>6, <3>7 DEF Continue
  <2>6. ASSUME NEW h \in Handlers, ClaimPayment(h) PROVE TypeOK'
    BY <2>6 DEF ClaimPayment, Goto
  <2>7. ASSUME NEW h \in Handlers, ReleaseFailedClaim(h) PROVE TypeOK'
    BY <2>7 DEF ReleaseFailedClaim, Goto
  <2>8. ASSUME NEW h \in Handlers, UpdatePaymentStatus(h) PROVE TypeOK'
    BY <2>8 DEF UpdatePaymentStatus, Goto
  <2>9. CASE StopPolling
    BY <2>9 DEF StopPolling
  <2>10. CASE UNCHANGED vars
    BY <2>10 DEF vars
  <2> QED
    BY <2>1, <2>2, <2>3, <2>4, <2>5, <2>6, <2>7, <2>8, <2>9, <2>10 DEF Next
<1> QED
  BY <1>1, <1>2, PTL DEF Spec

\* The inductive invariant: only a pending row is ever carried to the cache, and
\* the document is brought up to date only after the row was completed.
RowLeads ==
  /\ cache \in {"none", "pending", "completed"}
  /\ cache = "completed" => row = "completed"
  /\ \A c \in Callers : pc[c] \in {"reread", "rewrite"} => row = "completed"
  /\ \A c \in Callers : seen[c] = "pending"
  /\ polled \in Terminal => row \in Terminal

\* Nothing turns a completed row into another one, or an expired row into one
\* that is not over.
LEMMA OverIsOver ==
  ASSUME TypeOK, [Next]_vars
  PROVE  /\ row = "completed" => row' = "completed"
         /\ row \in Terminal => row' \in Terminal
BY DEF Next, vars, DeadlinePasses, CacheExpires, StopPolling, ExpireOldPayments, BeginGet, Continue,
       GetCached, Select, WarmUp, Uncache, RereadCache, RewriteCache, DeleteKey,
       ClaimPayment, ReleaseFailedClaim, UpdatePaymentStatus, Terminal

LEMMA CallerKeepsRowLeading ==
  ASSUME TypeOK, RowLeads, NEW c \in Callers, BeginGet(c) \/ Continue(c)
  PROVE  RowLeads'
<1> USE DEF TypeOK, RowLeads, Goto
<1>1. row' = row
  BY DEF BeginGet, Continue, GetCached, Select, WarmUp, Uncache, RereadCache,
         RewriteCache, DeleteKey
<1>2. CASE BeginGet(c)
  BY <1>1, <1>2 DEF BeginGet
<1>3. CASE GetCached(c)
  BY <1>1, <1>3 DEF GetCached, Answer, Terminal
<1>4. CASE Select(c)
  BY <1>1, <1>4 DEF Select, Warmable, Answer
<1>5. CASE WarmUp(c)
  BY <1>1, <1>5 DEF WarmUp, Answer, Terminal
<1>6. CASE Uncache(c)
  BY <1>1, <1>6 DEF Uncache
<1>7. CASE RereadCache(c)
  BY <1>1, <1>7 DEF RereadCache
<1>8. CASE RewriteCache(c)
  BY <1>1, <1>8 DEF RewriteCache
<1>9. CASE DeleteKey(c)
  BY <1>1, <1>9 DEF DeleteKey
<1> QED
  BY <1>2, <1>3, <1>4, <1>5, <1>6, <1>7, <1>8, <1>9 DEF Continue

\* Whatever the order of the commands and however many of them fail, neither the
\* document nor the poller is told that a payment is over before the row says so.
THEOREM RowIsAhead == Spec => []NeverAhead
<1>1. Init => RowLeads
  BY DEF Init, RowLeads, Terminal
<1>2. TypeOK /\ RowLeads /\ [Next]_vars => RowLeads'
  <2> SUFFICES ASSUME TypeOK, RowLeads, [Next]_vars PROVE RowLeads'
    OBVIOUS
  <2>1. CASE DeadlinePasses \/ CacheExpires \/ StopPolling
    BY <2>1 DEF DeadlinePasses, CacheExpires, StopPolling, RowLeads
  <2>2. CASE ExpireOldPayments
    BY <2>2, OverIsOver DEF ExpireOldPayments, RowLeads, Goto, TypeOK, Terminal
  <2>3. ASSUME NEW h \in Handlers, ClaimPayment(h) PROVE RowLeads'
    BY <2>3 DEF ClaimPayment, RowLeads, Goto, TypeOK, Terminal
  <2>4. ASSUME NEW h \in Handlers, ReleaseFailedClaim(h) PROVE RowLeads'
    BY <2>4 DEF ReleaseFailedClaim, RowLeads, Terminal
  <2>5. ASSUME NEW h \in Handlers, UpdatePaymentStatus(h) PROVE RowLeads'
    BY <2>5 DEF UpdatePaymentStatus, RowLeads, Goto, TypeOK, Terminal
  <2>6. CASE UNCHANGED vars
    BY <2>6 DEF vars, RowLeads
  <2> QED
    BY <2>1, <2>2, <2>3, <2>4, <2>5, <2>6, CallerKeepsRowLeading DEF Next
<1>3. RowLeads => NeverAhead
  BY DEF RowLeads, NeverAhead, Terminal
<1> QED
  BY <1>1, <1>2, <1>3, TypeCorrect, PTL DEF Spec

-----------------------------------------------------------------------------
(***************************************************************************)
(* The division of a tip.                                                  *)
(***************************************************************************)
LEMMA Division ==
  /\ \A n \in Nat : n \div 100 \in Nat /\ 100 * (n \div 100) <= n
  /\ \A n \in Nat, k \in Nat \ {0} : n \div k \in Nat
OBVIOUS

LEMMA Products ==
  /\ \A t \in Nat, a \in Nat : t * a \in Nat
  /\ \A t \in Nat, a \in Nat, b \in Nat : t * (a + b) = t * a + t * b
  /\ \A t \in Nat, n \in Nat : (n + 1) * t = n * t + t
<1>1. ASSUME NEW t \in Nat, NEW a \in Nat, NEW b \in Nat PROVE t * (a + b) = t * a + t * b
  OBVIOUS
<1>2. ASSUME NEW t \in Nat, NEW n \in Nat PROVE (n + 1) * t = n * t + t
  OBVIOUS
<1>3. ASSUME NEW t \in Nat, NEW a \in Nat PROVE t * a \in Nat
  OBVIOUS
<1> QED
  BY <1>1, <1>2, <1>3

LEMMA ProfileTyped ==
  ASSUME profile \in Profiles
  PROVE  /\ Count \in Nat \ {0}
         /\ \A i \in 1..Count : profile[i] \in 0..100 \cup {Absent} /\ StoredShare(profile[i]) \in 0..100
<1>1. profile \in Seq(0..100 \cup {Absent}) /\ profile # <<>>
  BY TipSplitAssumption
<1>2. Count \in Nat \ {0}
  BY <1>1 DEF Count
<1>3. \A i \in 1..Count : profile[i] \in 0..100 \cup {Absent}
  <2> DEFINE shares == 0..100 \cup {Absent}
  <2>1. profile \in Seq(shares)
    BY <1>1
  <2> HIDE DEF shares
  <2>2. \A i \in 1..Len(profile) : profile[i] \in shares
    BY <2>1
  <2> QED
    BY <2>2 DEF shares, Count
<1> QED
  BY <1>2, <1>3 DEF StoredShare

LEMMA ShareTyped ==
  ASSUME tip \in Nat, profile \in Profiles, NEW s \in 0..100
  PROVE  /\ ShareOf(s) \in Nat /\ EvenShare \in Nat
         /\ s = 0 => ShareOf(s) = EvenShare
         /\ s # 0 => 100 * ShareOf(s) <= tip * s
<1>1. tip * s \in Nat
  OBVIOUS
<1> QED
  BY <1>1, Division, ProfileTyped DEF ShareOf, EvenShare

LEMMA TipKinds ==
  ASSUME TipTypeOK
  PROVE  /\ tip \in Nat \ {0} /\ profile \in Profiles /\ Count \in Nat \ {0}
         /\ Len(amounts) \in 0..Count /\ Len(results) \in 0..Len(amounts)
         /\ \A i \in 1..Len(amounts) : amounts[i] \in Int
<1>1. tip \in Nat \ {0} /\ profile \in Profiles
  BY TipSplitAssumption DEF TipTypeOK
<1>2. Count \in Nat \ {0}
  BY <1>1, ProfileTyped
<1>3. Len(amounts) \in Nat /\ \A i \in 1..Len(amounts) : amounts[i] \in Int
  BY DEF TipTypeOK
<1>4. Len(results) \in Nat
  <2> DEFINE outcomes == {"paid", "failed", "skipped"}
  <2>1. results \in Seq(outcomes)
    BY DEF TipTypeOK
  <2> HIDE DEF outcomes
  <2> QED
    BY <2>1
<1>5. Len(amounts) <= Count /\ Len(results) <= Len(amounts)
  BY DEF TipTypeOK
<1> QED
  BY <1>1, <1>2, <1>3, <1>4, <1>5

\* Both passes keep the amounts, the results and the two sums typed, whatever
\* the shares are.
THEOREM TipTypeCorrect == TipSpec => []TipTypeOK
<1>1. TipInit => TipTypeOK
  <2> SUFFICES ASSUME TipInit PROVE TipTypeOK
    OBVIOUS
  <2>1. Count \in Nat \ {0}
    <3>1. profile \in Profiles
      BY DEF TipInit
    <3> QED
      BY <3>1, ProfileTyped
  <2> QED
    BY <2>1 DEF TipInit, TipTypeOK
<1>2. TipTypeOK /\ [TipNext]_tipVars => TipTypeOK'
  <2> SUFFICES ASSUME TipTypeOK, [TipNext]_tipVars PROVE TipTypeOK'
    OBVIOUS
  <2>1. /\ Count \in Nat \ {0} /\ tip \in Nat /\ profile \in Profiles
        /\ Len(amounts) \in 0..Count /\ Len(results) \in 0..Len(amounts)
        /\ \A i \in 1..Len(amounts) : amounts[i] \in Int
    BY TipKinds
  <2>2. CASE AssignShare
    <3>1. Len(amounts) + 1 \in 1..Count
      BY <2>1, <2>2 DEF AssignShare, InFirstPass
    <3> DEFINE share == StoredShare(profile[Len(amounts) + 1])
               amount == ShareOf(share)
    <3>2. amount \in Nat /\ share \in Nat
      <4>1. share \in 0..100
        BY <2>1, <3>1, ProfileTyped
      <4> HIDE DEF share
      <4>2. ShareOf(share) \in Nat
        BY <2>1, <4>1, ShareTyped
      <4> QED
        BY <4>1, <4>2
    <3>3. /\ amounts' = Append(amounts, amount) /\ distributed' = distributed + amount
          /\ asked' = asked + share /\ evens' \in {evens, evens + 1}
      BY <2>2 DEF AssignShare
    <3> HIDE DEF amount, share
    <3>4. amounts' \in Seq(Int) /\ Len(amounts') = Len(amounts) + 1
      BY <3>2, <3>3 DEF TipTypeOK
    <3>5. Count' = Count
      BY <2>2 DEF AssignShare, Count
    <3>6. distributed' \in Nat /\ asked' \in Nat /\ evens' \in Nat
      BY <3>2, <3>3 DEF TipTypeOK
    <3> QED
      BY <2>1, <2>2, <3>4, <3>5, <3>6 DEF AssignShare, InFirstPass, TipTypeOK
  <2>3. CASE AssignRemainder
    <3>1. Remainder \in Int
      BY <2>1 DEF Remainder, TipTypeOK
    <3>2. amounts' = Append(amounts, Remainder) /\ amounts \in Seq(Int)
      BY <2>3 DEF AssignRemainder, TipTypeOK
    <3>3. amounts' \in Seq(Int) /\ Len(amounts') = Len(amounts) + 1
      BY <3>1, <3>2
    <3>4. Count' = Count
      BY <2>3 DEF AssignRemainder, Count
    <3> QED
      BY <2>1, <2>3, <3>3, <3>4 DEF AssignRemainder, TipTypeOK
  <2>4. CASE PayRecipient
    <3>1. Len(results) + 1 \in 1..Len(amounts)
      BY <2>1, <2>4 DEF PayRecipient, TipTypeOK
    <3> DEFINE amount == amounts[Len(results) + 1]
    <3>2. amount \in Int
      BY <2>1, <3>1
    <3> HIDE DEF amount
    <3>3. PICK r \in {"paid", "failed", "skipped"} :
            results' = Append(results, r) /\ (sent' = sent \/ (~Skipped(amount) /\ sent' = sent + amount))
      BY <2>4 DEF PayRecipient, amount
    <3>4. sent' \in Nat
      BY <3>2, <3>3 DEF Skipped, TipTypeOK
    <3>5. results' \in Seq({"paid", "failed", "skipped"}) /\ Len(results') = Len(results) + 1
      <4> DEFINE outcomes == {"paid", "failed", "skipped"}
      <4>1. results \in Seq(outcomes) /\ r \in outcomes
        BY DEF TipTypeOK
      <4> HIDE DEF outcomes
      <4>2. results' \in Seq(outcomes) /\ Len(results') = Len(results) + 1
        BY <3>3, <4>1
      <4> QED
        BY <4>2 DEF outcomes
    <3>6. Count' = Count
      BY <2>4 DEF PayRecipient, Count
    <3> QED
      BY <2>1, <2>4, <3>1, <3>4, <3>5, <3>6 DEF PayRecipient, TipTypeOK
  <2>5. CASE Finish
    BY <2>5 DEF Finish, TipTypeOK, Count
  <2>6. CASE UNCHANGED tipVars
    BY <2>6 DEF tipVars, TipTypeOK, Count
  <2> QED
    BY <2>2, <2>3, <2>4, <2>5, <2>6 DEF TipNext
<1> QED
  BY <1>1, <1>2, PTL DEF TipSpec

Positive(n) == IF n > 0 THEN n ELSE 0

\* What is paid of the amounts, added up from the left.
SumsUpTo(a, A) ==
  /\ A \in [0..Len(a) -> Nat]
  /\ A[0] = 0
  /\ \A i \in 1..Len(a) : A[i] = A[i - 1] + Positive(a[i])
  /\ \A i \in 0..Len(a) : A[i] <= A[Len(a)]

Given == IF distributed <= tip THEN tip ELSE distributed

\* While the amounts are assigned their sum is what has been distributed; then
\* it is the tip, or what the first pass gave away beyond it.  What was sent is
\* its part up to the last result.
Divided ==
  \E A :
    /\ SumsUpTo(amounts, A)
    /\ A[Len(amounts)] = IF phase = "assign" THEN distributed ELSE Given
    /\ sent <= A[Len(results)]
    /\ (\A i \in 1..Len(results) : results[i] # "failed") => sent = A[Len(results)]

\* The first pass stays within the shares it has met.
WithinShares == 100 * distributed <= tip * asked + 100 * (evens * EvenShare)

TipInv ==
  /\ TipTypeOK /\ Divided /\ WithinShares
  /\ phase = "assign" => results = <<>>
  /\ phase = "done" => Len(results) = Count

LEMMA SumsAppend ==
  ASSUME NEW a \in Seq(Int), NEW A, SumsUpTo(a, A), NEW n \in Int
  PROVE  \E B : /\ SumsUpTo(Append(a, n), B)
                /\ B[Len(a) + 1] = A[Len(a)] + Positive(n)
                /\ \A i \in 0..Len(a) : B[i] = A[i]
<1> DEFINE b == Append(a, n)
           k == Len(a)
           m == Positive(n)
           B == [i \in 0..k + 1 |-> IF i = k + 1 THEN A[k] + m ELSE A[i]]
<1>1. k \in Nat /\ Len(b) = k + 1 /\ b[k + 1] = n /\ \A i \in 1..k : b[i] = a[i]
  OBVIOUS
<1>m. m \in Nat /\ Positive(n) = m
  BY DEF Positive
<1> HIDE DEF b, m
<1>2. /\ A \in [0..k -> Nat] /\ A[0] = 0
      /\ \A i \in 1..k : A[i] = A[i - 1] + Positive(a[i])
      /\ \A i \in 0..k : A[i] <= A[k]
  BY DEF SumsUpTo
<1> HIDE DEF k
<1>3. B \in [0..k + 1 -> Nat] /\ B[0] = 0
  BY <1>1, <1>2, <1>m
<1>4. B[k + 1] = A[k] + m /\ \A i \in 0..k : B[i] = A[i]
  BY <1>1
<1> HIDE DEF B
<1>5. ASSUME NEW i \in 1..k + 1 PROVE B[i] = B[i - 1] + Positive(b[i])
  <2>1. CASE i = k + 1
    <3>1. i - 1 = k /\ k \in 0..k /\ b[i] = n
      BY <1>1, <2>1
    <3> QED
      BY <1>4, <1>m, <2>1, <3>1
  <2>2. CASE i # k + 1
    <3>1. i \in 1..k /\ i \in 0..k /\ i - 1 \in 0..k
      BY <1>1, <2>2
    <3> QED
      BY <1>1, <1>2, <1>4, <3>1
  <2> QED
    BY <2>1, <2>2
<1>6. ASSUME NEW i \in 0..k + 1 PROVE B[i] <= B[k + 1]
  <2>1. CASE i = k + 1
    BY <1>1, <1>3, <2>1
  <2>2. CASE i # k + 1
    <3>1. i \in 0..k /\ k \in 0..k
      BY <1>1, <2>2
    <3>2. A[i] <= A[k] /\ A[i] \in Nat /\ A[k] \in Nat
      BY <1>2, <3>1
    <3> QED
      BY <1>4, <1>m, <3>1, <3>2
  <2> QED
    BY <2>1, <2>2
<1>7. SumsUpTo(b, B)
  BY <1>1, <1>3, <1>5, <1>6 DEF SumsUpTo
<1> QED
  BY <1>4, <1>7, <1>m DEF b, k

\* Assigning an amount keeps the sums, as long as their end is what it should be.
LEMMA AssignStep ==
  ASSUME TipInv, phase = "assign", NEW amount \in Int, NEW end,
         amounts' = Append(amounts, amount),
         UNCHANGED <<tip, profile, results, sent>>,
         distributed + Positive(amount) = end,
         end = IF phase' = "assign" THEN distributed' ELSE Given'
  PROVE  Divided'
<1> DEFINE k == Len(amounts)
<1>1. /\ k \in Nat /\ amounts \in Seq(Int) /\ results = <<>> /\ Len(results) = 0
  BY TipKinds DEF TipInv, TipTypeOK
<1>2. PICK A : /\ SumsUpTo(amounts, A) /\ A[k] = distributed
               /\ sent <= A[0] /\ ((\A i \in 1..Len(results) : results[i] # "failed") => sent = A[0])
  BY <1>1 DEF TipInv, Divided
<1>3. PICK B : /\ SumsUpTo(Append(amounts, amount), B) /\ B[k + 1] = A[k] + Positive(amount)
               /\ \A i \in 0..k : B[i] = A[i]
  <2> HIDE DEF k
  <2>1. \E B : /\ SumsUpTo(Append(amounts, amount), B)
               /\ B[Len(amounts) + 1] = A[Len(amounts)] + Positive(amount)
               /\ \A i \in 0..Len(amounts) : B[i] = A[i]
    BY <1>1, <1>2, SumsAppend
  <2> QED
    BY <2>1 DEF k
<1>4. Len(amounts') = k + 1
  BY <1>1
<1>5. 0 \in 0..k /\ B[0] = A[0] /\ B[k + 1] = end
  BY <1>1, <1>2, <1>3
<1> HIDE DEF k
<1> QED
  BY <1>1, <1>2, <1>3, <1>4, <1>5 DEF Divided

LEMMA ShareStep ==
  ASSUME TipInv, TipTypeOK', AssignShare
  PROVE  TipInv'
<1> DEFINE share == StoredShare(profile[Len(amounts) + 1])
           amount == ShareOf(share)
<1>1. /\ tip \in Nat /\ profile \in Profiles /\ Len(amounts) + 1 \in 1..Count
      /\ distributed \in Nat /\ asked \in Nat /\ evens \in Nat /\ phase = "assign"
  BY TipKinds DEF TipInv, AssignShare, InFirstPass, TipTypeOK
<1>2. share \in 0..100
  BY <1>1, ProfileTyped
<1>3. /\ amount \in Nat /\ EvenShare \in Nat
      /\ share = 0 => amount = EvenShare
      /\ share # 0 => 100 * amount <= tip * share
  BY <1>1, <1>2, ShareTyped
<1>4. /\ amounts' = Append(amounts, amount) /\ distributed' = distributed + amount
      /\ asked' = asked + share /\ evens' = IF share = 0 THEN evens + 1 ELSE evens
      /\ UNCHANGED <<tip, profile, phase, results, sent>>
  BY DEF AssignShare
<1> HIDE DEF amount, share
<1>5. Divided'
  <2>1. Positive(amount) = amount
    BY <1>3 DEF Positive
  <2>2. distributed + Positive(amount) = distributed' /\ distributed' = IF phase' = "assign" THEN distributed' ELSE Given'
    BY <1>1, <1>4, <2>1
  <2> QED
    BY <1>1, <1>3, <1>4, <2>2, AssignStep
<1>6. WithinShares'
  <2>1. Count' = Count /\ EvenShare' = EvenShare
    BY <1>4 DEF Count, EvenShare
  <2>2. 100 * distributed <= tip * asked + 100 * (evens * EvenShare)
    BY DEF TipInv, WithinShares
  <2>3. tip * (asked + share) = tip * asked + tip * share /\ tip * asked \in Nat /\ tip * share \in Nat
    BY <1>1, <1>2, Products
  <2>4. (evens + 1) * EvenShare = evens * EvenShare + EvenShare /\ evens * EvenShare \in Nat
    BY <1>1, <1>3, Products
  <2>5. tip' * asked' = tip * asked + tip * share
    BY <1>4, <2>3
  <2>6. CASE share = 0
    <3>1. evens' * EvenShare' = evens * EvenShare + EvenShare
      BY <1>4, <2>1, <2>4, <2>6
    <3> DEFINE x == tip * asked
               z == tip * share
               y == evens * EvenShare
    <3>2. /\ x \in Nat /\ z \in Nat /\ y \in Nat /\ 100 * distributed <= x + 100 * y
          /\ tip' * asked' = x + z /\ evens' * EvenShare' = y + EvenShare
          /\ amount = EvenShare
      BY <1>3, <2>2, <2>3, <2>4, <2>5, <2>6, <3>1
    <3> HIDE DEF x, y, z
    <3>3. 100 * (distributed + amount) <= (x + z) + 100 * (y + EvenShare)
      BY <1>1, <1>3, <3>2
    <3> QED
      BY <1>4, <3>2, <3>3 DEF WithinShares
  <2>7. CASE share # 0
    <3> DEFINE x == tip * asked
               z == tip * share
               y == evens * EvenShare
    <3>1. /\ x \in Nat /\ z \in Nat /\ y \in Nat /\ 100 * distributed <= x + 100 * y
          /\ tip' * asked' = x + z /\ evens' * EvenShare' = y /\ 100 * amount <= z
      BY <1>3, <1>4, <2>1, <2>2, <2>3, <2>4, <2>5, <2>7
    <3> HIDE DEF x, y, z
    <3>2. 100 * (distributed + amount) <= (x + z) + 100 * y
      BY <1>1, <1>3, <3>1
    <3> QED
      BY <1>4, <3>1, <3>2 DEF WithinShares
  <2> QED
    BY <2>6, <2>7
<1> QED
  BY <1>1, <1>4, <1>5, <1>6 DEF TipInv

LEMMA RemainderStep ==
  ASSUME TipInv, TipTypeOK', AssignRemainder
  PROVE  TipInv'
<1>1. tip \in Nat /\ distributed \in Nat /\ phase = "assign"
  BY TipKinds DEF TipInv, AssignRemainder, TipTypeOK
<1>2. /\ amounts' = Append(amounts, Remainder) /\ phase' = "pay"
      /\ UNCHANGED <<tip, profile, distributed, results, sent, asked, evens>>
  BY DEF AssignRemainder
<1>3. Remainder \in Int /\ distributed + Positive(Remainder) = Given /\ Given' = Given
  BY <1>1, <1>2 DEF Remainder, Positive, Given
<1>4. Given = IF phase' = "assign" THEN distributed' ELSE Given'
  BY <1>2, <1>3
<1>5. Divided'
  BY <1>1, <1>2, <1>3, <1>4, AssignStep
<1>6. WithinShares'
  BY <1>2 DEF TipInv, WithinShares, EvenShare, Count
<1> QED
  BY <1>2, <1>5, <1>6 DEF TipInv

LEMMA PayStep ==
  ASSUME TipInv, TipTypeOK', PayRecipient
  PROVE  TipInv'
<1> DEFINE j == Len(results)
           amount == amounts[j + 1]
<1>1. /\ phase = "pay" /\ j \in Nat /\ Len(amounts) \in Nat /\ j + 1 \in 1..Len(amounts)
      /\ sent \in Nat /\ amount \in Int
  BY TipKinds DEF TipInv, PayRecipient, TipTypeOK
<1>2. PICK A : /\ SumsUpTo(amounts, A) /\ A[Len(amounts)] = Given /\ sent <= A[j]
               /\ (\A i \in 1..j : results[i] # "failed") => sent = A[j]
  BY <1>1 DEF TipInv, Divided
<1>3. A[j + 1] = A[j] + Positive(amount) /\ A[j] \in Nat /\ Positive(amount) \in Nat
  <2>1. A[j + 1] = A[j + 1 - 1] + Positive(amount) /\ j + 1 - 1 = j /\ j \in 0..Len(amounts)
    BY <1>1, <1>2 DEF SumsUpTo
  <2> QED
    BY <1>1, <1>2, <2>1 DEF SumsUpTo, Positive
<1>4. PICK r \in {"paid", "failed", "skipped"} :
        /\ results' = Append(results, r)
        /\ \/ sent' = sent + Positive(amount)
           \/ sent' = sent /\ r = "failed"
  <2>1. CASE Skipped(amount)
    <3>1. sent' = sent + Positive(amount) /\ results' = Append(results, "skipped")
      BY <1>1, <2>1 DEF Skipped, Positive, PayRecipient
    <3> QED
      BY <3>1
  <2>2. CASE ~Skipped(amount)
    <3>1. Positive(amount) = amount
      BY <1>1, <2>2 DEF Skipped, Positive
    <3> QED
      BY <2>2, <3>1 DEF PayRecipient
  <2> QED
    BY <2>1, <2>2
<1>5. UNCHANGED <<tip, profile, phase, amounts, distributed, asked, evens>>
  BY DEF PayRecipient
<1> DEFINE paid == Positive(amount)
<1> HIDE DEF amount, paid
<1>6. Len(results') = j + 1 /\ results'[j + 1] = r /\ \A i \in 1..j : results'[i] = results[i]
  <2> DEFINE outcomes == {"paid", "failed", "skipped"}
  <2>1. results \in Seq(outcomes) /\ r \in outcomes
    BY DEF TipInv, TipTypeOK
  <2> HIDE DEF outcomes
  <2> QED
    BY <1>4, <2>1
<1>7. /\ A[j + 1] = A[j] + paid /\ paid \in Nat /\ A[j] \in Nat
      /\ sent' = sent + paid \/ (sent' = sent /\ r = "failed")
  BY <1>3, <1>4 DEF paid
<1> HIDE DEF j
<1>8. sent' <= A[j + 1]
  BY <1>1, <1>2, <1>7
<1>9. ASSUME \A i \in 1..j + 1 : results'[i] # "failed" PROVE sent' = A[j + 1]
  <2>1. j + 1 \in 1..j + 1 /\ \A i \in 1..j : i \in 1..j + 1
    BY <1>1
  <2>2. r # "failed" /\ \A i \in 1..j : results[i] # "failed"
    BY <1>6, <1>9, <2>1
  <2> QED
    BY <1>1, <1>2, <1>7, <2>2
<1>10. Divided'
  <2>1. A[Len(amounts')] = IF phase' = "assign" THEN distributed' ELSE Given'
    BY <1>1, <1>2, <1>5 DEF Given
  <2> QED
    BY <1>2, <1>5, <1>6, <1>8, <1>9, <2>1 DEF Divided
<1>11. WithinShares'
  BY <1>5 DEF TipInv, WithinShares, EvenShare, Count
<1> QED
  BY <1>1, <1>5, <1>10, <1>11 DEF TipInv

LEMMA AlwaysTipInv == TipSpec => []TipInv
<1>1. TipInit => TipInv
  <2> SUFFICES ASSUME TipInit PROVE TipInv
    OBVIOUS
  <2>1. profile \in Profiles /\ tip \in Nat
    BY TipSplitAssumption DEF TipInit
  <2>2. Count \in Nat \ {0}
    BY <2>1, ProfileTyped
  <2>3. TipTypeOK
    BY <2>1, <2>2 DEF TipInit, TipTypeOK
  <2> DEFINE A == [i \in 0..0 |-> 0]
  <2>4. SumsUpTo(<<>>, A) /\ A[0] = 0
    BY DEF SumsUpTo
  <2>5. Divided
    BY <2>4 DEF TipInit, Divided
  <2>6. WithinShares
    <3>1. EvenShare \in Nat
      BY <2>1, <2>2, Division DEF EvenShare
    <3>2. tip * 0 = 0 /\ 0 * EvenShare = 0
      BY <2>1, <3>1
    <3> QED
      BY <3>2 DEF TipInit, WithinShares
  <2> QED
    BY <2>3, <2>5, <2>6 DEF TipInit, TipInv
<1>2. TipInv /\ TipTypeOK' /\ [TipNext]_tipVars => TipInv'
  <2> SUFFICES ASSUME TipInv, TipTypeOK', [TipNext]_tipVars PROVE TipInv'
    OBVIOUS
  <2>1. CASE Finish
    BY <2>1 DEF Finish, TipInv, Divided, Given, WithinShares, EvenShare, Count
  <2>2. CASE UNCHANGED tipVars
    BY <2>2 DEF tipVars, TipInv, Divided, Given, WithinShares, EvenShare, Count
  <2> QED
    BY <2>1, <2>2, ShareStep, RemainderStep, PayStep DEF TipNext
<1> QED
  BY <1>1, <1>2, TipTypeCorrect, PTL DEF TipSpec

\* Whichever payments fail, no more leaves the wallet than the tip or than what
\* the shares stand for, for any tip and any profile the API accepts.
THEOREM NeverMoreThanTheTip == TipSpec => []NeverOverTip
<1>1. ASSUME TipInv PROVE NeverOverTip
  <2>1. PICK A : /\ SumsUpTo(amounts, A) /\ sent <= A[Len(results)]
                 /\ A[Len(amounts)] = IF phase = "assign" THEN distributed ELSE Given
    BY <1>1 DEF TipInv, Divided
  <2>2. /\ tip \in Nat /\ sent \in Nat /\ distributed \in Nat
        /\ Len(results) \in 0..Len(amounts) /\ Len(amounts) \in Nat
        /\ phase = "assign" => Len(results) = 0
    BY <1>1, TipKinds DEF TipInv, TipTypeOK
  <2>3. /\ A[Len(results)] \in Nat /\ A[Len(results)] <= A[Len(amounts)] /\ A[0] = 0
    BY <2>1, <2>2 DEF SumsUpTo
  <2>4. sent <= tip \/ sent <= distributed
    BY <2>1, <2>2, <2>3 DEF Given
  <2>5. 100 * distributed <= tip * asked + 100 * (evens * EvenShare)
    BY <1>1 DEF TipInv, WithinShares
  <2> DEFINE bound == tip * asked + 100 * (evens * EvenShare)
  <2>6. bound \in Nat
    <3>1. asked \in Nat /\ evens \in Nat /\ EvenShare \in Nat
      <4>1. Count \in Nat \ {0} /\ asked \in Nat /\ evens \in Nat
        BY <1>1, TipKinds DEF TipInv, TipTypeOK
      <4> QED
        BY <2>2, <4>1, Division DEF EvenShare
    <3>2. tip * asked \in Nat /\ evens * EvenShare \in Nat
      BY <2>2, <3>1, Products
    <3> QED
      BY <3>2
  <2>7. NeverOverTip <=> sent <= tip \/ 100 * sent <= bound
    BY DEF NeverOverTip
  <2>8. 100 * distributed <= bound
    BY <2>5
  <2> HIDE DEF bound
  <2> QED
    BY <2>2, <2>4, <2>6, <2>7, <2>8
<1>2. TipInv => NeverOverTip
  BY <1>1
<1> QED
  BY <1>2, AlwaysTipInv, PTL

\* When no payment fails the recipients are given the tip to the last sat, and
\* beyond it only what the first pass gave away.
THEOREM TipIsGivenOut == TipSpec => []NothingKeptBack
<1>1. ASSUME TipInv, phase = "done", \A i \in 1..Count : results[i] # "failed" PROVE sent = Given
  <2>1. Len(results) = Count /\ Len(amounts) = Count
    BY <1>1, TipKinds DEF TipInv, TipTypeOK
  <2> QED
    BY <1>1, <2>1 DEF TipInv, Divided
<1>2. TipInv => NothingKeptBack
  BY <1>1 DEF NothingKeptBack, Given
<1> QED
  BY <1>2, AlwaysTipInv, PTL
=============================================================================
