# A TLA+ model of BBTV2 (Blink Bitcoin Terminal)

BBTV2 is a web point of sale for Lightning payments. A Next.js server (API
routes under `pages/api`, business code under `lib`) keeps its state in
PostgreSQL, caches part of it in Redis, and moves money through the Blink API
from a hot wallet, "BlinkPOS", and from the wallets whose API keys its users
leave with it. No server process keeps a lock: everything that must happen
once is guarded by a conditional `UPDATE`, and a request may die between any
two awaits. That is what these modules are about.

Contents: 1 inventory; 2 modules and how they correspond to the code; 3 runs,
bounds and results; 4 fairness; 5 proofs; 6 what is not modelled.

## 1. Inventory

Each part is given with the state it keeps, its operations, how it meets the
others, what is hard about it, and what has to hold. `PROJECT.json` lists the
same parts under `components`, and under `hazards` the lines at which each of
them bites.

**Payment forwarding** (`lib/storage/hybrid-store.ts`, the handlers of
`pages/api/blink`). A customer pays the BlinkPOS wallet; the base amount has to
go to the merchant and the tip to the tip recipients. State: the row of
`payment_splits` (`pending`, `processing`, `completed`, `expired`, and
`expires_at`). Operations: store, claim (`pending` to `processing`), release,
complete, expire. Seven handlers race for the same row: the Svix webhook, which
is redelivered until it is answered 200, the browser's `forward-with-tips`,
`forward-ln-address`, `forward-npubcash` and `forward-nwc-with-tips`, and the
second half of the NWC flow, `pay-invoice` and `send-nwc-tips`. Hard: every
await is a point where another request, a crash or the expiry job can come in,
and a payout cannot be taken back. Correct when: the base amount leaves at most
once; one request at a time holds the claim; a failed request gives the claim
back; tips do not leave without the base amount; a payment made is forwarded.

**Payment storage and its Redis cache** (the same store, read by
`/api/payment-status` for `usePaymentPolling`). State: the row, and a JSON copy
of it in Redis with a TTL. No statement covers both, and a Redis failure is
swallowed. Correct when: the copy never runs ahead of the row, a stale copy
goes away, and the poller learns that the payment is over if it has not given
up by then.

**Tip distribution** (`sendTips` in `webhook.ts` and the same loop in five
other handlers; `create-invoice.ts` stores the shares). Pure arithmetic on
percentages followed by a loop of payments that may fail one by one. Correct
when: no more is sent than the tip or what the shares stand for, and no sat is
kept back.

**Voucher redemption** (`lib/voucher-store.ts`, `pages/api/voucher/callback.ts`,
`cancel.ts`, `status/[chargeId].ts` and the issuer's screen in
`components/Voucher.tsx`). State: a voucher's status, `expires_at`, retention.
Operations: look up (with a lazy sweep), claim, pay, unclaim, cancel, expire,
delete, poll. Wallets, the issuer and the clock race. Correct when: a voucher is
paid once, a cancelled or expired one is not paid, a failed redemption gives it
back, and the issuer is told the truth.

**Boltcard balance** (`lib/boltcard/store.ts`, `lnurlw.ts`, `lnurlp.ts`,
`pages/api/boltcard`). State: a card's status, balance, `daily_spent`,
`daily_reset_at`, and its pending top-ups, in a table and in one cache per
server process. Operations: spend and roll back, credit and mark a top-up, set
and adjust the balance, activate, disable, enable, wipe, reset the day. The
sats never move to the card, so the row is the only record of what it may still
spend. Correct when: the balance is the sum of what was put on less what was
taken off, failed payments are refunded, a paid top-up is not lost, and only an
active card is charged.

**Boltcard taps and registration** (the same store, `register.ts`,
`keys/[registrationId].ts`, `wipe-keys`, `reset`). State: the row of a chip's
UID with its status, key version and last counter, the IssuerKey of each owner,
the pending registrations, and what is programmed on the chip. A tap carries a
counter that must grow: it is checked against the row and then written by a
guarded `UPDATE` whose result is ignored. A registration finds the card, and
deletes, re-programs or inserts it, activates it and marks itself completed, in
separate queries. Correct when: an answered tap is used up, the keys of every
card can be derived again, the keys handed out work, and a card in use keeps
its row.

**Network communities** (`lib/network/db.ts`, `syncService.ts`,
`pages/api/network`). State: a membership and a consent per user and community,
the stored transactions of members with a running total. Operations: apply,
review, remove, opt in and revoke (with calls to Blink in between), and a sync
that pages through the ledger of every member who has opted in. Correct when:
only members share, removal is final, nobody is copied who had left before, a
sync that reports success has missed nothing that Blink answered, and what is
stored is counted.

**Cross-device sync** (`lib/hooks/useProfile.tsx`,
`lib/storage/ProfileStorage.ts`, `pages/api/user/sync.ts`, `lib/storage.ts`).
State: the wallet lists in the `localStorage` of each browser, one debounce
timer per browser, one file per user on the server. Operations: connect and
remove a wallet, the debounced `PATCH`, the immediate one of a removal, load and
merge, and the read-modify-write of the file. Hard: the file has no lock, a
`PATCH` replaces a whole field, and an empty answer cannot be told from a
failed one. Correct when: a connected wallet is not lost and reaches the
server, and a removed one does not return.

**Signing in with an external signer** (`lib/nostr/NostrAuthService.ts`,
`lib/hooks/useNostrAuth.tsx`, `components/auth/NostrLoginForm.tsx`,
`pages/api/auth`). The signer is another application, which is asked through a
link and answers by opening a page: first with the account, then with the
server's challenge, signed. State: the flow (`blinkpos_challenge_flow`) and the
stored account in `localStorage`, which all pages of the browser share; the
session cookie; the challenges, in the memory of the server; and in each page
its address and what it is waiting for. Operations: start a flow, take the
first and the second answer, ask again, cancel, verify, sign out. Hard: the
page that asked is not the page that is answered, an answer may come late,
twice or never, and every page may start, advance or drop the flow. Correct
when: the session belongs to the account that the browser shows, and a failed
attempt leaves nothing behind that makes the next one fail.

**Not modelled:** voucher issuing and printing, batch payments, the other ways
to sign in, the NWC client, invoice creation, exchange rates and rate
limiting, the database pool, the public point of sale, printers, and the Blink
and LNURL clients. Section 6 says why for each.

How the parts meet: invoice creation stores the row that forwarding starts
from; forwarding calls the tip distribution, and the store under it keeps the
cache that the browser polls; the Blink webhook looks for a boltcard top-up
before it looks for a split; boltcard registration creates the row whose
balance is then spent; community sync and forwarding use API keys that users
left on the server. Each of these meetings is a row that one side writes and
the other reads, and the modules share the vocabulary of that row.

## 2. Modules

| module | models | abstracts |
|---|---|---|
| `OncePayout` | what a claim protocol promises: one holder, one payout, never open again | handlers, database and wallets |
| `PaymentForwarding` | one `payment_splits` row and all requests about it | invoices, LNURL, amounts; Redis |
| `HybridStore` | the row and its cached copy, command by command | why a handler claims or completes |
| `TipSplit` | the division of one tip and its payments | which handler runs the loop |
| `VoucherRedemption` | one voucher, all requests about it, and the issuer's screen | amounts, commission, wallets |
| `BoltcardBalance` | the ledger columns of one card and one top-up | tap cryptography, the transaction log, USD |
| `BoltcardCards` | one chip: row, registrations, issuer keys, programming, taps | balances; keys are named, not computed |
| `Community` | memberships and consents of one community, and its syncs | balance snapshots, metrics, founding |
| `AccountSync` | the wallets of one user on his devices and in his file | what a wallet record contains |
| `SignIn` | the pages of one browser, its signer, and the challenges of the server | keys and signatures, how links are opened, the clock |
| `*_proofs` | the theorems of section 5, one module per component; `PaymentSplit_proofs` has those of `HybridStore` and `TipSplit` | |
| `MC*` | the amounts, profiles, ledgers, orders and symmetry sets that the runs use | |

`PaymentForwarding` and `VoucherRedemption` each instantiate `OncePayout` under
a refinement mapping: the two parts of the program that were written apart make
the same promise, and both are checked and proved to keep it.

### How state and actions correspond to the code

Rows are keyed, and no statement relates two of them, so one row (or, in
`Community`, the rows of one community) is the whole database state in each
module. A request is a record, or just a program counter, that names *the await
it is about to make*: one action is one query, one Redis command, one file
operation or one call to Blink together with everything synchronous around it.
What a handler read before an await is kept in its record and used after it, as
the code does. Definitions keep the names of the functions they translate.

Faults are a constant set, so that each run says what it allows, and
`MaxFailures` bounds how many of them a behaviour has; `Happened(f)` lets a
property name the faults it excepts. A query error either has or has not been
applied in `PaymentForwarding`; elsewhere the comment on the fault says which.
`payRejected` is a payout that fails cleanly; `replyLost` is one that moved the
money and reported a failure or `PENDING`.

*`PaymentForwarding`.* `Throw`, `Reply` and `ReleaseAndReply` are the three ways
a handler ends (the catch block, a plain return, and a release followed by a
return). Where two handlers differ in their early returns they have different
`...Prepare` actions; what is the same in all of them, `ClaimPayment`,
`PayBase`, `CompletePayment`, `ReleaseFailedClaim`, is one action. `NwcForwardBase`
and `NwcSendTips` are what the browser (`components/POS.tsx`) does next in the
NWC flow.

*`HybridStore`.* A Redis command that throws and one that is skipped because the
connection is down look the same to the method, which goes on. `cache` is what
the key holds; `seen` is the status that a `getTipData` has selected and will
cache some steps later, which is how a stale copy comes about. `stopped` says
that the poller has given up (`StopPolling`): after `POLLING_TIMEOUT_MS`, or
because another invoice is shown.

*`TipSplit`.* A profile is any sequence of shares from 0 to 100, or none at all,
because the API looks at them one by one. `asked` and `evens` record what the
shares of the first pass add up to and how many of them were 0.

*`VoucherRedemption`.* `accepted` are the requests whose payment Blink has
accepted, `inflight` those of them still pending and `returned` those that came
back; `shown` is what the issuer's screen says, which polls and believes. `RetentionPasses` goes, as
the `DELETE` does, by the status and the age of the row.

*`BoltcardBalance`.* `charged`, `accepted`, `credits` and `adjusted` record what
has happened, to compare the balance with; `disturbed` are the payments that a
crash, a query error or a lost reply has hit, of which the server cannot know
the outcome. `fund.ts` writes back a balance that it read before a call to
Blink. Nothing keeps payments and top-ups from moving the balance in between,
here as in the code; `undone` adds up what such writes have undone of those
moves.

*`BoltcardCards`.* A key is named by the call that generated the IssuerKey, and
the five keys of a card by that name, the UID and the version. The chip is part
of the model: it carries an address, keys and a counter, may be programmed with
the keys that were handed out last, and answers taps with what it carries.

*`Community`.* A user's ledger at Blink is a constant sequence, newest first;
`newest` moves towards its head as the user makes transactions, so that pages
shift under a running sync. An answer of Blink without the account reads as a
page without entries, and one without a cursor as the last page: both are the
fault `shortPage`, after which the sync goes on to report success, and `cut`
remembers it. `withdrawn` are, for each sync, the users who have left since it
loaded its list. `raced` are the users whose opt-in or second review overlapped a
removal.

*`AccountSync`.* The user's file is a set of wallets or `NoData`, which stands
for missing, empty and truncated, because the code cannot tell these apart
either. `stale` are the wallets of which an older copy was on its way (in
another device's list, a timer, a request or a load) when they were removed, or
that were connected during a load.

*`SignIn`.* A page is a record: `url` is what the signer has put into its
address, `pc` the request it waits for, `handling` the flag
`challengeFlowHandling`, `step2` whether "Continue to Amber" is offered. The user
is at the page in `front`; to go to another one, or to be answered in another
one, is the fault `tab`, because two pages used in turn can go on ending each
other's flows for ever. `signer` is the set of requests that the signer has been
asked and has not answered. `Answer` opens a page at the address that was asked
for and runs its `checkAuth`; `CheckReturn` is the check on mount, focus and
visibility. `disturbed` records that a flow was dropped or started while its
signature, or another page's verification, was on its way, that a page was
left between the server's reply and the end of the function, that a reply was
lost after its headers, which had set the cookie, or that the signer signed with
another account than the one it had named (`other`). An answer without an account
or an event is the fault `unusable`; what the page then does is
`ChallengeFlowReturn` and `ChallengeSignReturn`. A challenge that
neither flow, signer nor page holds any more may be issued again, which keeps
the model finite and hides nothing: nobody is left to present it.

## 3. What the runs check

| run | bounds | result |
|---|---|---|
| `forwarding_safety` | 3 requests, all 8 entry points, every order, 8 kinds of fault, 2 of them | holds |
| `forwarding_faults` | 3 requests of which 1 a client call, all 8 entry points, every order, all 10 kinds of fault, 1 of them, fairness | holds |
| `cache` | 2 handlers, poller and sweeper, 2 Redis failures, fairness | holds |
| `tip_split` | tips 1..60, up to 4 recipients, 12 shares that make up 100, 0 among them, and any shares out of 5 for up to 3 recipients | holds |
| `voucher` | 3 wallets, 1 cancellation, 2 invoices, all 7 kinds of fault, 2 of them, fairness | holds |
| `boltcard` | 2 payments of 3 sats, balance 2, daily limit 4, one top-up of 2, 2 deliveries, 1 adjustment (1 more, or set to 1) at any moment, 1 fault | holds |
| `boltcard_cards` | 3 calls, 3 registrations of 2 owners (one made directly), 2 taps, counters up to 2, 1 fault | holds |
| `community` | 2 users, 2 reviews, 2 syncs, pages of 2, at most 3 transactions, 4 requests, 1 fault (an early end of Blink's answers is one) | holds |
| `sync` | 2 devices, 2 wallets of one kind, 1 request at a time, 1 fault | holds |
| `sync_heals` | 1 device, 2 wallets of two kinds, 2 requests at a time, 1 fault, fairness | holds |
| `sign_in` | 2 pages, 2 accounts, 3 challenges, all 10 kinds of fault, 2 of them, fairness | holds |
| `wiped_blocks` | 2 calls, no taps, no faults | violated |

*Why these bounds are enough to be interesting.* Three requests are what it
takes for one to hold the claim, one to be refused, and one to come back after
a release; two faults let a payout fail and then the retry fail too, or a crash
follow a failure. More requests only repeat these roles, and for the theorems
of section 5 the number does not matter. In `boltcard` the
balance of 2 pays neither invoice of 3; the top-up of 2, or an adjustment,
makes either possible, so that two callbacks race for a balance that covers one
of them; a second credit of the same top-up (two deliveries) makes both
possible, and the day's limit of 4 forbids the second until the day is over;
one adjustment writes over any of these moves. In `boltcard_cards` two calls of the same owner race for his
IssuerKey or re-program the card together, and the third belongs to the other
owner or comes after both; two taps can overlap or repeat each other. In
`community` one user has three recent transactions, the newest and an old one
with the other user, the rest with strangers; with pages of two and a maximum of
three, depending on how many of them it has made when a sync comes to it, the
maximum, the cutoff inside a page and the end of the ledger each end some sync; the second user is the leader or a super admin. In `sync`
the second device is what brings a removed wallet back; in `sync_heals` two
kinds of wallets are what it takes for one sync to cancel the timer of the
other, and two requests for one to overwrite the other's file. In `sign_in` one
page can verify while the other starts or drops a flow, two accounts can get
mixed up, and three challenges are one in the flow, one still being asked for
and one in an old address; two faults let an answer be repeated in another
page, or a restart follow a lost reply. Shares in
`tip_split` include those whose products with the tip have every kind of
remainder, 0, and sums below and above the whole; tips are from one sat up.
Symmetry is used in `boltcard`, `boltcard_cards`, `community` and `sync`, none of
which checks liveness.

*What they show.*

- `forwarding_safety`: `AtMostOnePayout`, `ClaimExclusive`, `TerminalStatus` and
  the refinement of `OncePayout`, with every kind of fault but two. Those two
  break the claim: `replyLost`, because the handler takes a lost reply for a
  failure, releases, and the next delivery pays again; and `dbError`, because
  the webhook's outer catch releases whether or not this delivery holds the
  claim.
- `forwarding_faults` has these two as well. `PayoutsAccounted`: each of them
  costs at most one more payout, and nothing else does.
  `CompletedIsForwardedUnlessNwc`: a completed row has been forwarded, except in
  the NWC flow, which completes it on its own (below). `TipsFollowBase`: tips
  never leave without the base amount (the tips-first variant of
  `forward-nwc-with-tips` aside). `NoAbandonedClaim` and `ClaimsAreSwept`: a
  claim that nobody is working on comes from one of the named answers, which
  keep it by mistake (`LeavesClaim`), from a crash or from a failed query, and
  in the end the expiry job takes it. `PaidIsForwarded`: a payment that was made
  reaches the merchant, unless the customer paid after `expires_at`, the order
  has no destination the webhook can serve, or Svix was told to stop: a delivery
  that meets the claim of another request is answered 200 and not repeated, and
  if that other request then fails nobody is left.
- `cache`: `NeverAhead`, `StaleCopyDies` and `PollerLearns`. A stale answer is
  possible for as long as the TTL; it is never an answer that ends the polling
  wrongly. The poller learns the outcome or has stopped: a copy warmed with the
  row's own TTL of 900 s lives as long as the poller polls
  (`POLLING_TIMEOUT_MS`, 15 minutes), so that it learns in time is not promised.
- `tip_split`: `NeverOverTip` and `NothingKeptBack` for every profile. What is
  sent is within the tip as long as the shares before the last are positive and
  stay within 100. If they do not, more than the tip can be sent (below), and
  `NeverOverTip` says how much: no more than the shares stand for, each share of 0
  counted as an even one.
- `voucher`: `RedeemedOnce` (once, plus once for each lost reply: the voucher is
  given back and can be redeemed again with another invoice),
  `WithdrawnIsUnspent`, `BearerIsPaid`, the refinement, and `ShownIsRedeemed`.
  The screen reports "redeemed" from the claim on; what it says turns out untrue
  only if the payment fails or the voucher is `Stranded`, that is claimed for
  ever and not paid: by a crash, a failed query, a pending payment that comes
  back, or a payment that fails after the deadline, because `unclaimVoucher`
  refuses an expired voucher.
- `boltcard`: `BalanceIsLedger`, `NeverOverspent`, `PaidIsCharged`,
  `FailedIsRefunded`, `TopUpIsNotLost`, `OnlyActiveIsCharged`. The first two count
  `undone`: an adjustment that writes over a deduction gives the card back what it
  has paid, and over a top-up it takes the top-up away. That this happens is the
  code's (below); that the balance is never out by anything else is what is
  checked. A top-up may be
  credited twice (crediting and marking are separate queries), so no property
  says otherwise, and the daily limit may be overshot by concurrent payments.
- `boltcard_cards`: `AnsweredIsUsedUp`: a tap that has been answered cannot be
  used again although the guarded update's result is ignored; the exceptions are
  an update that failed and two calls that re-programmed the card at once, which
  write the same version and restart the counter under the same keys.
  `KeysAreDerivable`: whoever loses the race for an owner's IssuerKey does not
  store a card under its own. `HandedKeysWork`, `LiveCardIsKept`.
- `community`: `SharersAreMembers` with its named exceptions, `RemovedStaysRemoved`,
  `SyncedIsComplete` (pages that shift while they are fetched lose nothing; where
  Blink's answers end early, nothing up to there), `StoredIsCounted`,
  `RevokedIsNotCopied` (a key that a revocation leaves behind is used by no sync
  that begins later; one that has loaded its list works through it, keys
  included).
- `sync`: `AddedIsKept` and `RemovedIsGone`, with `stale` as the exception that
  says when a removed wallet comes back.
- `sync_heals`: `AddedReachesServer`. Every way in which a sync is lost (its
  timer cancelled, its request lost, its field overwritten, the file wiped) is
  made good by the next load, because the browser sends whatever the server does
  not have.

- `sign_in`: `SessionIsOfAccount`: while no page is busy the cookie is that of
  the stored account, unless sign-ins have overlapped (`disturbed`); a repeated
  or late answer, one that says nothing, a restart, a lost request or a click too
  many do not mix accounts up. `SignsIn`: whatever went wrong, an attempt succeeds in the end,
  in the page where the user is; in places only because he opens the application
  anew (`Reopen`), see below.

Type correctness is not checked by every run, because section 5 proves it; that
no balance is negative is part of `TypeOK` of `BoltcardBalance`.

*Findings.* One run expects a violation. `wiped_blocks`: the fresh registration
of a wiped card deletes the old row, which the completed deeplink registration
still references without `ON DELETE`; the `DELETE` fails after the card's
history has been deleted.

Others were met on the way. Each is an exception that some property names, or a
bound of some run, so the checks show its extent rather than its presence:

- `forward-nwc-with-tips` with `deferTips` and no tips marks the row completed
  before the client has forwarded the base amount (line 286), and the client's
  `pay-invoice` is then answered "already completed". With tips the handler
  keeps its claim, and the same `pay-invoice` is answered 409.
  `CompletedIsForwarded` fails; `CompletedIsForwardedUnlessNwc` is what holds.
- A stored share of 0 is read as an even share (`webhook.ts:984`), and a missing
  one is stored as 100 (`create-invoice.ts`), so the first pass can assign more
  than the tip, and the last recipient's negative remainder is skipped: more than
  the tip is sent. The editor saves shares of 0 when the others are locked at 100
  together, and the API does not add them up. `sent <= tip` fails in `tip_split`;
  the second disjunct of `NeverOverTip` is what then holds.
- `fund.ts` writes a balance computed from an earlier read (line 98); a payment
  deducted in between is put back on the card, and a top-up credited in between
  is lost. `BalanceIsLedger` fails without `undone`.
- An answer of Blink without the account is an empty page (`blink-api.ts:372`),
  and the member is reported as synced with what had been fetched before
  (`syncService.ts:322`): `cut` in `SyncedIsComplete`.
- A PENDING card is to be activated by its first top-up (`lnurlp.ts:561`), but
  `topUpCard` credits an ACTIVE card only, so that the top-up stays unprocessed.
- The environment of an order (production or staging) is kept only in the cached
  document, which a claim deletes, so a handler that reads the order after its
  claim falls back to the default (`hybrid-store.ts:507`). This is outside the
  model.
- The 400 answers of `forward-ln-address`, `forward-npubcash` and `pay-invoice`,
  and the missing-configuration return of `forward-with-tips`, keep the claim
  until the expiry job takes it.
- A removed wallet returns from a pending timer, a running load or another
  device, contrary to `useProfile.tsx:1316` (`RemovedIsNotReadded`).
- `revokeConsent` upserts no API key, which `COALESCE` reads as keeping the old
  one (`lib/network/db.ts:738`), while `consent.ts:308` answers that it has been
  removed.
- The account that a sign-in stores is the one the flow was for
  (`NostrAuthService.ts:2214`), the session that of the event that was signed,
  which may be another account's if the signer holds several.
  No step of the sign-in compares them, and its first sync already uses the
  session; the comparison in `checkAuth` (`useNostrAuth.tsx`, "Existing server
  session found") is made only when the page is opened again. After sign-ins
  that have overlapped, or a reply that is lost after its headers (line 2204), the
  two may differ: this is what `disturbed` excepts.
- After the first answer `challengeFlowHandling` stays set
  (`useNostrAuth.tsx:1222`), so a page that the signer was not opened from a
  second time does not offer "Continue to Amber" until it is loaded again,
  although that is the case the button is for (comment at line 1184). A refused second answer stays in the address
  (`NostrAuthService.ts:2137`), and the page ends any pending flow, its own next
  one included, whenever it is looked at.
- The result of `storePendingTopUp` is not looked at (`lnurlp.ts:373`): when the
  insert fails the invoice is handed out all the same and its payment is never
  credited. `BoltcardBalance` starts with the record stored.

## 4. Fairness

`PaymentForwarding`: weak fairness of each request's next await (the event loop
runs what has been accepted), of the redelivery by Svix until a 200, and of the
expiry job's interval. Nobody is forced to pay and no client to call.
`HybridStore`: calls that have begun finish, a key's TTL runs out, and the poller
polls on its timer until it stops; nothing makes it stop, or keeps it from
stopping. `VoucherRedemption`: accepted requests finish, and the bearer
presents the voucher again. `AccountSync`: the server answers what it has been
asked, timers fire, and every device is opened again (a load begins on every
mount). `SignIn`: the event loop and the server go on, a page that is looked at
checks its address, the user presses the button that the form shows, and opens
the application anew where it shows none. Strong fairness is used once, for the
signer's answer to "which account": it opens a page, which may be busy each time
the answer is due without being busy for ever. Liveness is checked with a
bounded number of faults, which is the assumption that failures do not go on for
ever.

## 5. What is proved

For every value of the constants, under the named assumptions of each module
(`ForwardingAssumption`, `CommunityAssumption` and so on: types of the
constants, and that the "nobody" values are nobody). Every safety property that
a passing run checks is stated by a theorem. Where a theorem assumes more than
its module, the assumption is in its statement; there are three of these:

| assumption | theorems | why it is needed |
|---|---|---|
| `HonestReports` (neither `dbError` nor `replyLost` in `Faults`) | `ClaimIsSafe`, `PaidOutOnce`, `ClaimsExclude`, `HandlersKeepPromise` | each of the two faults breaks the claim (section 3); `EveryPayoutAccounted` has them and says what they cost |
| `IsFiniteSet(Syncs)` | `StoredStaysCounted` | the property is a sum over the syncs |
| `NoOne \notin Requests` | `PaysOnce`, `PayoutStands` | "nobody" is nobody |

**`PaymentForwarding_proofs`.** First the claim. `TypeCorrect`;
`StatusIsTerminal` under every fault; and under `HonestReports` `ClaimIsSafe`,
`PaidOutOnce`, `ClaimsExclude` and `HandlersKeepPromise`, the refinement.
`AtMostOnePayout` is not inductive: it has to be known that a row is not
`pending` once somebody holds it or has paid, that a request at `pay` still
holds the claim and nobody has paid, and that a request past the payout keeps
the claim until it completes. That is `ClaimInvariant`, and the proof that a
step preserves it has one case per action. In the refinement the holder is the
request whose `claimSucceeded` is set; it is unique by `ClaimExclusive`, so the
`CHOOSE` in the mapping is determined. About `OncePayout` itself: `PaysOnce`,
whatever implements it pays at most once, and `PayoutStands`, nothing is paid
once a payout stands and nobody can take the payment again.

Then what holds under *every* fault, for any number of requests:

- `TipsComeSecond` and `CompletedWasForwarded`, from `BaseFirst`. Neither
  property says anything about the request that is about to send the tips or to
  complete the row, so the invariant says it: at `tips` the base amount has gone
  (or this is the tips-first handler), at `complete` it may be completed, and a
  `pay-invoice` that has been answered well has left the row in a state in which
  its client may go on.
- `NoClaimIsForgotten`, from `ClaimsLookedAfter`: a request that has answered
  stays answered, and one that has not claimed yet holds nothing. With that, a
  step that takes a `holds` away either frees the row or is one of the answers
  of `LeavesClaim`.
- `EveryPayoutAccounted`, from `RightsAccounted`. The number of payouts is not
  inductive, because a released claim may be paid by the next request. What is
  bounded is the payouts *plus the rights to make one*: a pending row is one, a
  request between its claim and the end of its payout is one, and so is a request
  about to release. Every step moves a right, drops it or turns it into a payout;
  only a payout that is reported as failed and a query that fails make a new one,
  and each of them is counted by a fault.

**`PaymentSplit_proofs`.** The row of a payment: its cache and the division of
its tip. (One module for both, which is why the definitions of `TipSplit` that
would have the names of those of `HybridStore` begin with `Tip`.) Of
`HybridStore`: `TypeCorrect` and `RowIsAhead`. The invariant `RowLeads` adds to
`NeverAhead` what is in flight: all a reader can be about to cache is `pending`,
and whoever is about to rewrite the copy as completed has completed the row
already. Of `TipSplit`: `TipTypeCorrect`, and for every tip and every profile of
any length, with nothing assumed of its shares, `NeverMoreThanTheTip` and
`TipIsGivenOut`. `TipInv` has the amounts added up from the left, those that are
skipped left out, as a function `A`: while they are assigned their sum is what has
been distributed, and a hundred times that is at most the tip times the sum of
the shares plus an even share for each that was 0 (`WithinShares`, where the
floors go); afterwards `A` ends at what is given out (`Given`: the tip, or what
the first pass gave away beyond it), and what has been sent is at most `A` at the
last result, and equal to it if no payment failed
(`Divided`). `A` and the sums of shares are carried by the invariant as witnesses
and extended step by step, so no induction over the profile is needed.

**`VoucherRedemption_proofs`.** `TypeCorrect` (with `Roles`: which states a
redeemer, a canceller and the sweep can be in), `RedeemedAtMostOnce`,
`WithdrawnUnspent`, `VoucherKeepsPromise`, `ShownStands`. `RedeemInv` is `Guarded`
(one request at a time pays or gives back, and the row is claimed while it
does) and `Books` (what has been spent is at most one invoice plus one for each
lost reply, and at most the lost ones while the voucher is not spent by
anybody). `ClaimedInv` says that a claimed or shown voucher has an
excuse for not being paid yet.

**`BoltcardBalance_proofs`.** `TypeCorrect` (no balance is negative),
`PaidIsOffTheCard`, `FailedIsBack`, `TopUpIsKept`, `InactiveKeepsBalance`.
`PaymentBooks` relates where each payment's request is to whether it has been
charged, accepted or disturbed; `TopUpBooks` does so for the deliveries.
`BalanceKeepsTheLedger` and, from it, `SpendsWhatWasLoaded`: the balance is
what was credited, adjusted and undone less the sum of the charged payments, for
any set of payments and any number of them, and of adjustments that race with
them, under every fault. `Ledger` adds that whoever gives back has been charged,
so that nothing is given back twice. Every step is one of five moves: it leaves
the ledger alone (`Untouched`), takes or gives back one payment, credits, or
adjusts, and only the last of them can be out.

**`BoltcardCards_proofs`.** `TypeCorrect`, `KeysStayDerivable`, `LiveCardStays`,
`AnsweredTapIsUsedUp`, `HandedOutKeysWork`. `KeyInv`: the row's key is its
owner's IssuerKey, a call that is about to write carries the IssuerKey of its
own owner, and a call that is about to re-program the row it has seen is of that
row's owner (ids are not used again). `AloneInv`: unless two calls have
overlapped one runs at a time, and a row that it is about to delete is still
wiped. `UsedUpInv`: a version does not only grow, since a late `UPDATE` may write
an older one again and with it start the counter anew. What makes a version
recognisable is the call that wrote it, which stays behind at `complete`,
`answer` or `done`; so a call that writes a version which some tap carries
already is the second one to write it, which is the exception `Restarted`
(`Known`, `VersionsKnown`). `HandedInv`: undisturbed, a call that completes or
answers still has the row it has seen.

**`Community_proofs`.** `TypeCorrect`, `SyncCompletes`, `OnlyMembersShare`,
`NothingOldIsCopied`, `RevokedIsLeftAlone`, `RemovalIsFinal`, `WithdrawnStays`,
`StoredStaysCounted`.
`SyncRight` is the loop invariant of the paging loop: a batch is no larger than
the maximum (`Batch`), holds nothing old and nothing beyond the cursor
(`Begun`), holds everything up to the cursor while pages are fetched
(`OnPage`), everything recent after the last page unless it is full (`Fetched`),
and is stored when it is reported (`Kept`). It is proved for every ledger, page
size and maximum. `RevokedIsNotCopied` is carried by `Listed`: whoever is still on
the list of a sync, or is being copied by it, shares or has withdrawn since the
list was loaded. `Entitled` says of every user that one who is opting in, or
shares, is a member or an exception. `StoredIsCounted` is inductive once it is
known that what is stored of a user is finite (`Counted`); the argument is the
balance of each step, `Balances`: the rows that it adds are at most what it adds
to the total and to what its own sync still owes it, or it is a query that
failed. The sum over all syncs then follows the one term that changed
(`SumShifts`).

**`AccountSync_proofs`.** `TypeCorrect`, `AddedStays` and `RemovedStaysGone`.
`Remembered` adds to `AddedIsKept` that the list a load started from holds every
wallet of its device that is not `stale`. `RemovedIsGone` needs an account of
every copy of a wallet that is on its way. `RemovalsClear` says that a removed
wallet is on no device, in no timer, load or request, and that as long as the
file, or a request that has read it, still has the wallet, the request about the
removal has yet to read the file. `OneWriter` says that undisturbed one request
at a time is between reading and writing the file, without which a request
could bring back the file as it was before the removal.

**`SignIn_proofs`.** `TypeCorrect`, `OneSignInAtATime` and
`SessionStaysOfAccount`. No step compares the session with the account, so the
invariant is about what can still be accepted: as long as nothing has disturbed
the sign-in, every challenge that is still open, wherever it is named (in a
request to the signer, in the address of a page), is that of the stored flow
and so is its account; a page that verifies does so for that flow; and at most
one page is fetching a challenge, while there is no flow (`OneSignIn`). What the
server then answers and what the browser then stores both come from the flow.

*Finite sums.* `MapThenSumSet` and `SumFunctionOnSet` are defined by recursion
over a set, one element chosen after the other, and the library proves nothing
about them. What is needed (a sum does not depend on the order, takes an element
more, follows the change of one term) is proved from the definition without an
induction scheme: strict inclusion is well founded on the subsets of a finite
set (`FS_StrictSubsetOrderingWellFounded`), so a set of counterexamples would have
a least one (`LeastSet`), and a least one is refuted by taking away the element
that the recursion takes. `AdderExists` shows in the same way that the recursive
function exists.

### Only model-checked, and why

- Liveness (`PaidIsForwarded`, `ClaimsAreSwept`, `StaleCopyDies`, `PollerLearns`,
  `BearerIsPaid`, `AddedReachesServer`, `SignsIn`): reasoning under fairness is
  out of the prover's reach.
- `WipedMakesRoom` is violated, as the run `wiped_blocks` expects.

## 6. Not modelled

- **Voucher issuing, listing and printing**: `createVoucher` is a count and an
  insert under a fresh id. The limit per wallet can be overshot by concurrent
  calls; nothing else depends on it.
- **Batch payments**: a sequential loop in one request without a record. Running
  it twice pays twice, which no state of the program could tell.
- **Other ways to sign in**: browser extensions, generated keys and NIP-98 are
  one signed request with nothing in between; the legacy flow without a
  challenge is no longer started by the form; Nostr Connect is a protocol of
  relays and libraries outside the repository. In `SignIn` signatures are taken
  to be what they claim, an answer is taken from the address (the code also looks
  at the clipboard), and the session does not end after 24 hours.
- **Nostr Wallet Connect client**: one promise per request, settled by the
  response that names it, a timeout or a close.
- **Invoice creation**: the rows it stores are the initial states of
  `PaymentForwarding` and `HybridStore`; its arithmetic is in `TipSplit`.
- **Connecting the store**: `getHybridStore` keeps the promise of a connect that
  was rejected (`hybrid-store.ts:1007`); the modules start connected.
- **Exchange rates, rate limiting, database pool and shutdown**: library code,
  or a cache that degrades to no cache.
- **Public point of sale, printing, Blink and LNURL clients**: browser state and
  input and output. Their outcomes are nondeterministic choices where a module
  depends on one.
- Inside modelled components: the `payment_events` log and statistics, the
  transaction log and USD amounts of a card, several top-ups of a card at once,
  import of existing cards, founding a community, balance snapshots, metrics,
  the leaderboard and the in-memory stores of `lib/network` (which nothing
  imports), encrypted Blink API accounts and preferences in the sync.
