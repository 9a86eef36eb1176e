----------------------------- MODULE HybridStore -----------------------------
(***************************************************************************)
(* The two copies of a payment in lib/storage/hybrid-store.ts: the row of  *)
(* payment_splits and the JSON document Redis caches for it.  No statement *)
(* covers both, so every method of HybridStore is a sequence of steps, one *)
(* per query or Redis command, and the calls of the request handlers, of   *)
(* the payment-status poller and of the expiry job interleave.             *)
(*                                                                         *)
(* A Redis command that is skipped because the connection is down and one  *)
(* that throws look alike: the method goes on without it.                  *)
(***************************************************************************)
EXTENDS Naturals

CONSTANTS
  Handlers,        \* the request handlers that use the store
  Poller,          \* the client polling /api/payment-status
  Sweeper,         \* the interval of startCleanupJob
  MaxRedisFailures \* bound on the number of Redis commands that fail

ASSUME HybridStoreAssumption ==
  /\ Poller \notin Handlers /\ Sweeper \notin Handlers /\ Poller # Sweeper
  /\ MaxRedisFailures \in Nat

Callers == Handlers \cup {Poller, Sweeper}

VARIABLES
  row,       \* status in PostgreSQL
  cache,     \* status in the cached document, "none" when there is none
  overdue,   \* expires_at < NOW()
  pc,        \* the next query or command of the call each caller is making
  seen,      \* the status a getTipData has selected and is about to cache
  holds,     \* the handlers whose claim succeeded
  polled,    \* the last status the poller was answered
  stopped,   \* the poller has given up: POLLING_TIMEOUT_MS, or another invoice
  failures   \* Redis commands that have failed

vars == <<row, cache, overdue, pc, seen, holds, polled, stopped, failures>>

Statuses == {"pending", "processing", "completed", "expired"}
Terminal == {"completed", "expired"}

Pcs == {"idle", "get", "select", "warm", "uncache", "reread", "rewrite", "delete"}

TypeOK ==
  /\ row \in Statuses
  /\ cache \in {"none"} \cup Statuses
  /\ overdue \in BOOLEAN
  /\ pc \in [Callers -> Pcs]
  /\ seen \in [Callers -> Statuses]
  /\ holds \subseteq Handlers
  /\ polled \in {"none"} \cup Statuses
  /\ stopped \in BOOLEAN
  /\ failures \in 0..MaxRedisFailures

\* storeTipData has inserted the row and set the key, if Redis was there.
Init ==
  /\ row = "pending"
  /\ cache \in {"none", "pending"}
  /\ overdue = FALSE
  /\ pc = [c \in Callers |-> "idle"]
  /\ seen = [c \in Callers |-> "pending"]
  /\ holds = {}
  /\ polled = "none"
  /\ stopped = FALSE
  /\ failures = 0

Goto(c, p) == pc' = [pc EXCEPT ![c] = p]

RedisFails ==
  /\ failures < MaxRedisFailures
  /\ failures' = failures + 1

-----------------------------------------------------------------------------
(* Time: the deadline of the row, and the TTL of the key.                  *)

DeadlinePasses ==
  /\ ~overdue
  /\ overdue' = TRUE
  /\ UNCHANGED <<row, cache, pc, seen, holds, polled, stopped, failures>>

\* Mutation: the documents are written with SET and never expire.
NoTtl == FALSE

HasTtl == cache # "none"

CacheExpires ==
  /\ HasTtl
  /\ cache' = "none"
  /\ UNCHANGED <<row, overdue, pc, seen, holds, polled, stopped, failures>>

-----------------------------------------------------------------------------
(***************************************************************************)
(* getTipData: the cached document if there is one, else the row, and if   *)
(* the row is pending the cache is warmed with it.                         *)
(***************************************************************************)
Answer(c, status) ==
  /\ Goto(c, "idle")
  /\ polled' = IF c = Poller THEN status ELSE polled

Polling == ~stopped /\ polled \notin Terminal

\* Handlers read the order before and after they claim it; the poller polls
\* until it is told that the payment is over, or gives up.
BeginGet(c) ==
  /\ c # Sweeper
  /\ pc[c] = "idle"
  /\ c = Poller => Polling
  /\ Goto(c, "get")
  /\ UNCHANGED <<row, cache, overdue, seen, holds, polled, stopped, failures>>

\* The interval is cleared after 15 minutes of polling, or because the screen
\* goes on to another invoice; an answer that is on its way still counts.
StopPolling ==
  /\ Polling
  /\ stopped' = TRUE
  /\ UNCHANGED <<row, cache, overdue, pc, seen, holds, polled, failures>>

GetCached(c) ==
  /\ pc[c] = "get"
  /\ \/ /\ cache # "none"
        /\ Answer(c, cache)
        /\ UNCHANGED failures
     \/ /\ cache = "none"
        /\ Goto(c, "select")
        /\ UNCHANGED <<polled, failures>>
     \/ /\ RedisFails
        /\ Goto(c, "select")
        /\ UNCHANGED <<polled>>
  /\ UNCHANGED <<row, cache, overdue, seen, holds, stopped>>

Warmable == row = "pending"

Select(c) ==
  /\ pc[c] = "select"
  /\ IF Warmable
     THEN seen' = [seen EXCEPT ![c] = row] /\ Goto(c, "warm") /\ UNCHANGED <<polled>>
     ELSE Answer(c, row) /\ UNCHANGED seen
  /\ UNCHANGED <<row, cache, overdue, holds, stopped, failures>>

WarmUp(c) ==
  /\ pc[c] = "warm"
  /\ \/ cache' = seen[c] /\ UNCHANGED failures
     \/ RedisFails /\ UNCHANGED cache
  /\ Answer(c, seen[c])
  /\ seen' = [seen EXCEPT ![c] = "pending"]
  /\ UNCHANGED <<row, overdue, holds, stopped>>

-----------------------------------------------------------------------------
(***************************************************************************)
(* claimPaymentForProcessing and releaseFailedClaim.  A refused claim      *)
(* changes nothing; a release does not touch Redis.                        *)
(***************************************************************************)
ClaimPayment(h) ==
  /\ pc[h] = "idle" /\ h \notin holds
  /\ row = "pending"
  /\ row' = "processing"
  /\ holds' = holds \cup {h}
  /\ Goto(h, "uncache")
  /\ UNCHANGED <<cache, overdue, seen, polled, stopped, failures>>

Uncache(h) ==
  /\ pc[h] = "uncache"
  /\ \/ cache' = "none" /\ UNCHANGED failures
     \/ RedisFails /\ UNCHANGED cache
  /\ Goto(h, "idle")
  /\ UNCHANGED <<row, overdue, seen, holds, polled, stopped>>

ReleaseFailedClaim(h) ==
  /\ pc[h] = "idle" /\ h \in holds
  /\ row' = IF row = "processing" THEN "pending" ELSE row
  /\ holds' = holds \ {h}
  /\ UNCHANGED <<cache, overdue, pc, seen, polled, stopped, failures>>

-----------------------------------------------------------------------------
(***************************************************************************)
(* removeTipData: updatePaymentStatus writes the row, then reads and       *)
(* rewrites the cached document if there is one, and then the key is       *)
(* deleted.  send-nwc-tips calls it without having claimed the payment.    *)
(***************************************************************************)
\* Mutation: the cached document is brought up to date before the row.
UpdateCacheFirst(h) ==
  /\ pc[h] = "idle"
  /\ h \in holds \/ row = "processing"
  /\ cache # "none" /\ cache' = "completed"
  /\ Goto(h, "delete")
  /\ UNCHANGED <<row, overdue, seen, holds, polled, stopped, failures>>

UpdatePaymentStatus(h) ==
  /\ pc[h] = "idle"
  /\ h \in holds \/ row = "processing"
  /\ row' = "completed"
  /\ Goto(h, "reread")
  /\ UNCHANGED <<cache, overdue, seen, holds, polled, stopped, failures>>

RereadCache(h) ==
  /\ pc[h] = "reread"
  /\ \/ Goto(h, IF cache = "none" THEN "delete" ELSE "rewrite") /\ UNCHANGED failures
     \/ RedisFails /\ Goto(h, "delete")
  /\ UNCHANGED <<row, cache, overdue, seen, holds, polled, stopped>>

RewriteCache(h) ==
  /\ pc[h] = "rewrite"
  /\ \/ cache' = "completed" /\ UNCHANGED failures
     \/ RedisFails /\ UNCHANGED cache
  /\ Goto(h, "delete")
  /\ UNCHANGED <<row, overdue, seen, holds, polled, stopped>>

\* The end of removeTipData and of expireOldPayments.
DeleteKey(c) ==
  /\ pc[c] = "delete"
  /\ \/ cache' = "none" /\ UNCHANGED failures
     \/ RedisFails /\ UNCHANGED cache
  /\ holds' = holds \ {c}
  /\ Goto(c, "idle")
  /\ UNCHANGED <<row, overdue, seen, polled, stopped>>

\* Mutation: the sweep writes a status the column does not know.
ExpireAsFailed ==
  /\ overdue
  /\ pc[Sweeper] = "idle"
  /\ row \in {"pending", "processing"}
  /\ row' = "failed"
  /\ Goto(Sweeper, "delete")
  /\ UNCHANGED <<cache, overdue, seen, holds, polled, stopped, failures>>

ExpireOldPayments ==
  /\ overdue
  /\ pc[Sweeper] = "idle"
  /\ row \in {"pending", "processing"}
  /\ row' = "expired"
  /\ Goto(Sweeper, "delete")
  /\ UNCHANGED <<cache, overdue, seen, holds, polled, stopped, failures>>

-----------------------------------------------------------------------------
\* The steps of a call that has begun.
Continue(c) ==
  \/ GetCached(c)
  \/ Select(c)
  \/ WarmUp(c)
  \/ Uncache(c)
  \/ RereadCache(c)
  \/ RewriteCache(c)
  \/ DeleteKey(c)

Next ==
  \/ DeadlinePasses
  \/ CacheExpires
  \/ ExpireOldPayments
  \/ StopPolling
  \/ \E c \in Callers : BeginGet(c) \/ Continue(c)
  \/ \E h \in Handlers : ClaimPayment(h) \/ ReleaseFailedClaim(h) \/ UpdatePaymentStatus(h)

Spec == Init /\ [][Next]_vars

\* Calls that have begun finish, keys outlive their TTL by little, and the
\* poller polls every second for as long as it has not given up.
Fairness ==
  /\ \A c \in Callers : WF_vars(Continue(c))
  /\ WF_vars(CacheExpires)
  /\ WF_vars(BeginGet(Poller))

FairSpec == Spec /\ Fairness

-----------------------------------------------------------------------------
(***************************************************************************)
(* Properties.                                                             *)
(***************************************************************************)

\* The cache never runs ahead of the database: a poller that is told the
\* payment is over is told the truth, whichever copy answered and however many
\* Redis commands failed ("PostgreSQL is source of truth", hybrid-store.ts:458).
NeverAhead ==
  /\ cache \in Terminal => row = cache
  /\ polled \in Terminal => row \in Terminal

\* A cached document that still calls a finished payment pending goes away for
\* good: nothing refreshes it once the calls that selected the old row are over.
StaleCopyDies ==
  [](row \in Terminal => <>[](cache \notin {"pending", "processing"}))

\* The poller learns that the payment is over, whichever stale copies it is
\* answered from on the way, unless it gives up: it does so after 15 minutes
\* (usePaymentPolling.ts:86), which is how long a copy that was warmed with an
\* outdated row may live (hybrid-store.ts:563).
PollerLearns == row \in Terminal ~> polled \in Terminal \/ stopped
=============================================================================
