------------------------------ MODULE Community ------------------------------
(***************************************************************************)
(* One community of lib/network: the membership row and the data sharing   *)
(* consent of every user, the handlers of pages/api/network that change    *)
(* them, and the sync (lib/network/syncService.ts) that copies the Blink   *)
(* transactions of everybody who has opted in.                             *)
(*                                                                         *)
(* A query, or a call to Blink, is a step; between two of them anything    *)
(* may happen to the rows.  Communities share no row, so one is enough.    *)
(* The in-memory stores of lib/network are used by nothing, and the        *)
(* balance snapshots and metrics are written from what is modelled here    *)
(* and read by no handler that changes it.                                 *)
(***************************************************************************)
EXTENDS Naturals, Sequences, FiniteSets, Functions

CONSTANTS
  Users,            \* those who may join the community
  Reviewers,        \* review requests of its leader and of super admins
  Syncs,            \* sync requests
  RoleSets,         \* who is a plain member, the leader, a super admin
  Ledger,           \* each user's transactions at Blink, newest first
  PageSize,         \* BATCH_SIZE
  MaxTransactions,  \* MAX_TRANSACTIONS
  Faults,           \* what may go wrong
  MaxFailures,      \* bound on the number of faults in a behaviour
  MaxRequests,      \* bound on the requests about memberships and consents
  NoUser            \* none of the users

\* dbError   a query throws without having been applied
\* blink     Blink does not answer, or with an error
\* shortPage Blink answers without the account, which reads as a page without
\*           entries, or with a page that has no cursor for the next one
\* badRow    one transaction cannot be inserted and is skipped
AllFaults == {"dbError", "blink", "shortPage", "badRow"}

ASSUME CommunityAssumption ==
  /\ RoleSets \subseteq [Users -> {"member", "leader", "admin"}]
  /\ Ledger \in [Users -> Seq([old: BOOLEAN, with: Users \cup {NoUser}])]
  /\ \A u \in Users :
       /\ Ledger[u] # <<>>
       /\ \A i, j \in DOMAIN Ledger[u] : i <= j /\ Ledger[u][i].old => Ledger[u][j].old
  /\ PageSize \in Nat \ {0} /\ MaxTransactions \in Nat \ {0}
  /\ Faults \subseteq AllFaults /\ MaxFailures \in Nat
  /\ MaxRequests \in Nat
  /\ NoUser \notin Users

VARIABLES
  role,      \* what each user is in this community
  member,    \* community_memberships.status, or "none"
  consent,   \* the row of data_sharing_consents
  newest,    \* the position of the newest transaction each user has made
  apply,     \* where each user's apply request is
  optIn,     \* where each user's consent request is
  review,    \* the state of each review request
  removal,   \* where the request to remove each user is
  sync,      \* the state of each sync request
  stored,    \* member_transactions, as <<user, position in the ledger>>
  internal,  \* those with counterparty_in_community
  raced,     \* users removed during their opt-in, or decided on twice
  withdrawn, \* whose consent was withdrawn while each sync had it on its list
  requests,  \* requests about memberships and consents so far
  failures   \* how often each fault has happened

vars == <<role, member, consent, newest, apply, optIn, review, removal, sync,
          stored, internal, raced, withdrawn, requests, failures>>
peopleVars == <<role, member, apply, optIn, review, removal, raced, withdrawn, requests>>

Statuses == {"none", "pending", "approved", "rejected", "removed"}
SyncStatuses == {"never", "pending", "syncing", "synced", "error"}
Positions == UNION {DOMAIN Ledger[u] : u \in Users}
TypeOK ==
  /\ role \in RoleSets
  /\ member \in [Users -> Statuses]
  /\ consent \in [Users -> [row: BOOLEAN, given: BOOLEAN, key: BOOLEAN,
                            status: SyncStatuses, total: Nat]]
  /\ newest \in [Users -> Nat] /\ \A u \in Users : newest[u] \in DOMAIN Ledger[u]
  /\ apply \in [Users -> {"idle", "store"}]
  /\ optIn \in [Users -> {"idle", "join", "approve", "existing", "fetch", "store"}]
  /\ review \in [Reviewers -> Users \cup {NoUser}]
  /\ removal \in [Users -> {"idle", "revoke"}]
  /\ sync \in [Syncs -> [pc: {"idle", "next", "page", "store", "report", "failed",
                              "mark", "done"},
                         todo: SUBSET Users, at: Users \cup {NoUser},
                         from: Nat, cursor: Nat, got: SUBSET Positions, count: Nat,
                         cut: BOOLEAN]]
  /\ stored \subseteq Users \X Positions
  /\ internal \subseteq stored
  /\ raced \subseteq Users
  /\ withdrawn \in [Syncs -> SUBSET Users]
  /\ requests \in 0..MaxRequests
  /\ failures \in [AllFaults -> Nat]

\* A sync between two members, or before the first and after the last of them.
AtRest(pc, todo) ==
  [pc |-> pc, todo |-> todo, at |-> NoUser, from |-> 0, cursor |-> 0, got |-> {},
   count |-> 0, cut |-> FALSE]

Init ==
  /\ role \in RoleSets
  /\ member = [u \in Users |-> IF role[u] = "leader" THEN "approved" ELSE "none"]
  /\ consent = [u \in Users |-> [row |-> FALSE, given |-> FALSE, key |-> FALSE,
                                 status |-> "never", total |-> 0]]
  /\ newest = [u \in Users |-> Len(Ledger[u])]
  /\ apply = [u \in Users |-> "idle"]
  /\ optIn = [u \in Users |-> "idle"]
  /\ review = [r \in Reviewers |-> NoUser]
  /\ removal = [u \in Users |-> "idle"]
  /\ sync = [s \in Syncs |-> AtRest("idle", {})]
  /\ stored = {} /\ internal = {} /\ raced = {} /\ requests = 0
  /\ withdrawn = [s \in Syncs |-> {}]
  /\ failures = [f \in AllFaults |-> 0]

Fault(f) ==
  /\ f \in Faults
  /\ SumFunctionOnSet(failures, AllFaults) < MaxFailures
  /\ failures' = [failures EXCEPT ![f] = @ + 1]

Happened(f) == failures[f] > 0

\* One more request about memberships and consents.
Request == requests < MaxRequests /\ requests' = requests + 1

\* The user pays or is paid with its own wallet.
MakeTransaction(u) ==
  /\ newest[u] > 1
  /\ newest' = [newest EXCEPT ![u] = @ - 1]
  /\ UNCHANGED <<peopleVars, consent, sync, stored, internal, failures>>

-----------------------------------------------------------------------------
(***************************************************************************)
(* memberships/apply.ts, memberships/review.ts and members.ts.             *)
(***************************************************************************)
Apply(u) ==
  /\ Request
  /\ apply[u] = "idle"
  /\ member[u] \notin {"pending", "approved"}
  /\ apply' = [apply EXCEPT ![u] = "store"]
  /\ UNCHANGED <<role, member, optIn, review, removal, raced, withdrawn, consent, newest, sync,
                 stored, internal, failures>>

\* Mutation: a status nothing else knows.
AppliedAsNew(status) == IF status \in {"none", "rejected"} THEN "applied" ELSE status

\* Mutation: whoever is not a member may apply again.
AppliedAgain(status) == IF status = "approved" THEN status ELSE "pending"

\* ON CONFLICT: only a rejected application becomes pending again.
Applied(status) == IF status \in {"none", "rejected"} THEN "pending" ELSE status

StoreApplication(u) ==
  /\ apply[u] = "store"
  /\ member' = [member EXCEPT ![u] = Applied(@)]
  /\ apply' = [apply EXCEPT ![u] = "idle"]
  /\ UNCHANGED <<role, optIn, review, removal, raced, withdrawn, requests, consent, newest, sync, stored,
                 internal, failures>>

\* The request looks at the application; it has to be pending.
Review(r, u) ==
  /\ Request
  /\ review[r] = NoUser
  /\ member[u] = "pending"
  /\ review' = [review EXCEPT ![r] = u]
  /\ UNCHANGED <<role, member, apply, optIn, removal, raced, withdrawn, consent, newest, sync,
                 stored, internal, failures>>

\* reviewApplication: an UPDATE by id that no longer asks for the status.
DecideApplication(r) ==
  \E u \in Users, decision \in {"approved", "rejected"} :
    /\ review[r] = u
    /\ member' = [member EXCEPT ![u] = decision]
    /\ review' = [review EXCEPT ![r] = NoUser]
    /\ raced' = IF member[u] = "pending" THEN raced ELSE raced \cup {u}
    /\ UNCHANGED <<role, apply, optIn, removal, requests, withdrawn, consent, newest, sync, stored,
                   internal, failures>>

\* The leader removes anybody but the leader: one UPDATE for the membership ...
RemoveMember(u) ==
  /\ Request
  /\ removal[u] = "idle"
  /\ member[u] # "none" /\ role[u] # "leader"
  /\ member' = [member EXCEPT ![u] = "removed"]
  /\ removal' = [removal EXCEPT ![u] = "revoke"]
  /\ raced' = IF optIn[u] = "idle" THEN raced ELSE raced \cup {u}
  /\ UNCHANGED <<role, apply, optIn, review, withdrawn, consent, newest, sync, stored, internal,
                 failures>>

\* Mutation: removing a member leaves the consent alone.
KeepConsent(u) == UNCHANGED consent

WithdrawConsent(u) ==
  consent' = [consent EXCEPT ![u].given = FALSE]

\* A sync has u's consent on its list, and may be copying its transactions.
OnList(s, u) ==
  \/ u \in sync[s].todo
  \/ sync[s].at = u /\ sync[s].pc \in {"page", "store"}

\* The syncs that have loaded the consent go on with it.
Withdrawn(u) ==
  withdrawn' = [s \in Syncs |-> IF OnList(s, u) THEN withdrawn[s] \cup {u} ELSE withdrawn[s]]

\* ... and one for the consent, which does not reset the sync status.
RevokeForRemoved(u) ==
  /\ removal[u] = "revoke"
  /\ removal' = [removal EXCEPT ![u] = "idle"]
  /\ \/ WithdrawConsent(u) /\ Withdrawn(u) /\ UNCHANGED failures
     \/ Fault("dbError") /\ UNCHANGED <<consent, withdrawn>>
  /\ UNCHANGED <<role, member, apply, optIn, review, raced, requests, newest, sync, stored, internal>>

-----------------------------------------------------------------------------
(***************************************************************************)
(* consent.ts.                                                             *)
(***************************************************************************)
OptInGoto(u, pc) == optIn' = [optIn EXCEPT ![u] = pc]

MayShare(u) == member[u] = "approved" \/ role[u] \in {"leader", "admin"}

\* isUserMemberOfCommunity, then getMembership: a super admin without a
\* membership is given one on the way.
BeginOptIn(u) ==
  /\ Request
  /\ optIn[u] = "idle"
  /\ MayShare(u)
  /\ OptInGoto(u, IF member[u] = "none" THEN "join" ELSE "existing")
  /\ UNCHANGED <<role, member, apply, review, removal, raced, withdrawn, consent, newest, sync,
                 stored, internal, failures>>

JoinAdmin(u) ==
  /\ optIn[u] = "join"
  /\ member' = [member EXCEPT ![u] = Applied(@)]
  /\ OptInGoto(u, "approve")
  /\ UNCHANGED <<role, apply, review, removal, raced, withdrawn, requests, consent, newest, sync, stored,
                 internal, failures>>

ApproveAdmin(u) ==
  /\ optIn[u] = "approve"
  /\ member' = [member EXCEPT ![u] = "approved"]
  /\ OptInGoto(u, "existing")
  /\ UNCHANGED <<role, apply, review, removal, raced, withdrawn, requests, consent, newest, sync, stored,
                 internal, failures>>

\* A consent that is already given is a 409.
CheckExisting(u) ==
  /\ optIn[u] = "existing"
  /\ OptInGoto(u, IF consent[u].given THEN "idle" ELSE "fetch")
  /\ UNCHANGED <<role, member, apply, review, removal, raced, withdrawn, requests, consent, newest, sync,
                 stored, internal, failures>>

\* Blink names the owner of the key; without a name it is a 400.
FetchBlinkUsername(u) ==
  /\ optIn[u] = "fetch"
  /\ \/ OptInGoto(u, "store") /\ UNCHANGED failures
     \/ OptInGoto(u, "idle") /\ Fault("blink")
  /\ UNCHANGED <<role, member, apply, review, removal, raced, withdrawn, requests, consent, newest, sync,
                 stored, internal>>

\* createOrUpdateConsent: COALESCE keeps the stored key when none is passed.
Upsert(c, given) ==
  [c EXCEPT !.row = TRUE, !.given = given, !.key = @ \/ given,
            !.status = IF given THEN "pending" ELSE "never"]

StoreConsent(u) ==
  /\ optIn[u] = "store"
  /\ consent' = [consent EXCEPT ![u] = Upsert(@, TRUE)]
  /\ OptInGoto(u, "idle")
  /\ UNCHANGED <<role, member, apply, review, removal, raced, withdrawn, requests, newest, sync, stored, internal,
                 failures>>

\* DELETE: the same upsert with consentGiven false and no key.
RevokeConsent(u) ==
  /\ Request
  /\ member[u] # "none"
  /\ consent' = [consent EXCEPT ![u] = Upsert(@, FALSE)]
  /\ Withdrawn(u)
  /\ UNCHANGED <<role, member, apply, optIn, review, removal, raced, newest, sync,
                 stored, internal, failures>>

-----------------------------------------------------------------------------
(***************************************************************************)
(* syncCommunityTransactions and syncUserTransactions.                     *)
(***************************************************************************)
Set(s, new) == sync' = [sync EXCEPT ![s] = new]

\* syncUserTransactions has returned, and its variables are gone.
Rest(s, pc) == Set(s, AtRest(pc, sync[s].todo))

\* Mutation: the number of the last sync replaces the total.
SetStatusAndTotal(u, status, inserted) ==
  consent' = [consent EXCEPT ![u].status = status, ![u].total = inserted]

\* Mutation: the row that was loaded when the sync began is saved as a whole.
SaveLoadedConsent(u, status, inserted) ==
  consent' = [consent EXCEPT ![u].status = status, ![u].given = TRUE,
                             ![u].total = @ + inserted]

\* updateSyncStatus, by consent id and whatever else has happened to the row.
SetStatus(u, status, inserted) ==
  consent' = [consent EXCEPT ![u] = [@ EXCEPT !.status = status,
                                             !.total = consent[u].total + inserted]]

\* Mutation: whoever has left a key is copied, and a revoked key is kept.
SharesByKey(u) == consent[u].key

\* WHERE consent_given = true AND blink_api_key_encrypted IS NOT NULL
HasConsent(u) == consent[u].given /\ consent[u].key

\* getCommunityConsents: the list the whole sync works from, keys included.
BeginSync(s) ==
  /\ sync[s].pc = "idle"
  /\ LET sharers == {u \in Users : HasConsent(u)}
     IN Set(s, [sync[s] EXCEPT !.pc = IF sharers = {} THEN "done" ELSE "next",
                               !.todo = sharers])
  /\ UNCHANGED <<peopleVars, consent, newest, stored, internal, failures>>

\* The first update of a member is outside the try: when it fails so does the
\* whole sync.
SyncMember(s, u) ==
  /\ sync[s].pc = "next" /\ u \in sync[s].todo
  /\ \/ /\ SetStatus(u, "syncing", 0)
        /\ Set(s, [sync[s] EXCEPT !.pc = "page", !.todo = @ \ {u}, !.at = u,
                                  !.from = newest[u], !.cursor = 0, !.got = {},
                                  !.count = 0, !.cut = FALSE])
        /\ UNCHANGED failures
     \/ /\ Fault("dbError")
        /\ Rest(s, "done")
        /\ UNCHANGED consent
  /\ UNCHANGED <<peopleVars, newest, stored, internal>>

\* One page of a ledger, and what the loop takes of it: everything before the
\* first entry older than ninety days, up to the maximum.
Page(u, first) == first..(IF first + PageSize - 1 < Len(Ledger[u])
                          THEN first + PageSize - 1 ELSE Len(Ledger[u]))

\* Mutation: the entries of a page that reaches the cutoff are dropped.
RecentPageOnly(u, page, room) ==
  IF \E i \in page : Ledger[u][i].old THEN {} ELSE {i \in page : Cardinality(page) <= room}

\* Mutation: only the length is looked at.
RecentAndOld(u, page, room) ==
  {i \in page : Cardinality({j \in page : j <= i}) <= room}

Recent(u, page, room) ==
  {i \in page : /\ \A j \in page : j <= i => ~Ledger[u][j].old
                /\ Cardinality({j \in page : j <= i}) <= room}

AfterPages(got) == IF got = {} THEN "report" ELSE "store"

\* getTransactions: the first page starts at the newest transaction, the
\* others at the cursor of the page before.  A page without entries, or one
\* with no cursor to go on from, ends the loop like the end of the ledger.
FetchPage(s) ==
  LET u     == sync[s].at
      first == IF sync[s].cursor = 0 THEN newest[u] ELSE sync[s].cursor + 1
      page  == Page(u, first)
      got   == sync[s].got \cup Recent(u, page, MaxTransactions - Cardinality(sync[s].got))
      last  == first + Cardinality(page) - 1
      more  == /\ ~\E i \in page : Ledger[u][i].old
               /\ last < Len(Ledger[u])
               /\ Cardinality(got) < MaxTransactions
  IN
  /\ sync[s].pc = "page"
  /\ \/ /\ Set(s, [sync[s] EXCEPT !.got = got, !.cursor = last,
                       !.pc = IF more THEN "page" ELSE AfterPages(got)])
        /\ UNCHANGED failures
     \/ /\ Fault("shortPage")
        /\ \/ Set(s, [sync[s] EXCEPT !.pc = AfterPages(sync[s].got), !.cut = TRUE])
           \/ Set(s, [sync[s] EXCEPT !.pc = AfterPages(got), !.got = got,
                                     !.cursor = last, !.cut = TRUE])
     \/ Fault("blink") /\ Set(s, [sync[s] EXCEPT !.pc = "failed"])
  /\ UNCHANGED <<peopleVars, consent, newest, stored, internal>>

\* insertMemberTransactions: one transaction, a savepoint for each row.  A row
\* that is there already (ON CONFLICT DO NOTHING) counts as inserted.
StoreTransactions(s) ==
  LET u == sync[s].at IN
  /\ sync[s].pc = "store"
  /\ \/ \E skipped \in {{}} \cup {{i} : i \in sync[s].got} :
          /\ IF skipped = {} THEN UNCHANGED failures ELSE Fault("badRow")
          /\ stored' = stored \cup ({u} \X (sync[s].got \ skipped))
          /\ Set(s, [sync[s] EXCEPT !.pc = "report",
                                    !.count = Cardinality(sync[s].got \ skipped)])
     \/ /\ Fault("dbError")
        /\ Set(s, [sync[s] EXCEPT !.pc = "failed"])
        /\ UNCHANGED stored
  /\ UNCHANGED <<peopleVars, consent, newest, internal>>

AfterMember(s) == IF sync[s].todo = {} THEN "mark" ELSE "next"

ReportSynced(s) ==
  /\ sync[s].pc = "report"
  /\ \/ /\ SetStatus(sync[s].at, "synced", sync[s].count)
        /\ Rest(s, AfterMember(s))
        /\ UNCHANGED failures
     \/ /\ Fault("dbError")
        /\ Set(s, [sync[s] EXCEPT !.pc = "failed"])
        /\ UNCHANGED consent
  /\ UNCHANGED <<peopleVars, newest, stored, internal>>

\* The catch of a member; an error in it ends the whole sync.
ReportFailed(s) ==
  /\ sync[s].pc = "failed"
  /\ \/ /\ SetStatus(sync[s].at, "error", 0)
        /\ Rest(s, AfterMember(s))
        /\ UNCHANGED failures
     \/ /\ Fault("dbError")
        /\ Rest(s, "done")
        /\ UNCHANGED consent
  /\ UNCHANGED <<peopleVars, newest, stored, internal>>

\* mark_internal_transactions: the counterparty is an approved member whose
\* consent row, given or not, carries its Blink name.
Counterparty(u, i) ==
  /\ Ledger[u][i].with # NoUser
  /\ member[Ledger[u][i].with] = "approved"
  /\ consent[Ledger[u][i].with].key

MarkInternal(s) ==
  /\ sync[s].pc = "mark"
  /\ \/ /\ internal' = internal \cup {t \in stored : Counterparty(t[1], t[2])}
        /\ UNCHANGED failures
     \/ Fault("dbError") /\ UNCHANGED internal
  /\ Rest(s, "done")
  /\ UNCHANGED <<peopleVars, consent, newest, stored>>

-----------------------------------------------------------------------------
People(u) ==
  \/ MakeTransaction(u)
  \/ Apply(u) \/ StoreApplication(u)
  \/ RemoveMember(u) \/ RevokeForRemoved(u)
  \/ BeginOptIn(u) \/ JoinAdmin(u) \/ ApproveAdmin(u) \/ CheckExisting(u)
  \/ FetchBlinkUsername(u) \/ StoreConsent(u)
  \/ RevokeConsent(u)

SyncStep(s) ==
  \/ \E u \in Users : SyncMember(s, u)
  \/ FetchPage(s)
  \/ StoreTransactions(s)
  \/ ReportSynced(s)
  \/ ReportFailed(s)
  \/ MarkInternal(s)

Next ==
  \/ \E u \in Users : People(u) \/ \E r \in Reviewers : Review(r, u)
  \/ \E r \in Reviewers : DecideApplication(r)
  \/ \E s \in Syncs : BeginSync(s) \/ SyncStep(s)

Spec == Init /\ [][Next]_vars

-----------------------------------------------------------------------------
(***************************************************************************)
(* Properties.                                                             *)
(***************************************************************************)

\* Whoever shares data is an approved member ("You must be a member of this
\* community to share data", consent.ts:185), or a super admin, or on the way
\* out.  What else leaves a non-member sharing: being removed during the opt-in,
\* a second reviewer's late decision, and a removal whose second query failed.
SharersAreMembers ==
  \A u \in Users :
    consent[u].given =>
      \/ member[u] = "approved" \/ role[u] = "admin"
      \/ removal[u] = "revoke"
      \/ u \in raced
      \/ Happened("dbError")

\* Being removed is final: apply.ts answers that the application has been
\* submitted, but only a decision taken on an earlier look at the row, or the
\* automatic approval of a super admin, brings the member back.
RemovedStaysRemoved ==
  [][\A u \in Users : member[u] = "removed" /\ member'[u] # "removed" =>
       optIn[u] = "approve" \/ \E r \in Reviewers : review[r] = u]_vars

\* A member is reported as synced only when everything it had done in the last
\* ninety days when its turn came, up to the maximum, is stored: whatever the
\* page boundaries, whatever it does meanwhile and whoever else is syncing.
\* Where Blink's answers have ended early (blink-api.ts:372 makes an empty page
\* of one without the account, and syncService.ts:322 goes on to report the
\* member as synced) this is so of everything up to there, and no further.
SyncedIsComplete ==
  \A s \in Syncs :
    sync[s].pc = "report" /\ ~Happened("badRow") =>
      LET u == sync[s].at IN
      \A i \in sync[s].from..Len(Ledger[u]) :
        \/ <<u, i>> \in stored
        \/ Ledger[u][i].old
        \/ Cardinality(sync[s].got) = MaxTransactions
        \/ sync[s].cut /\ i > sync[s].cursor

\* Nothing older than the cutoff is copied.
OldIsLeftAlone == \A t \in stored : ~Ledger[t[1]][t[2]].old

\* Every stored transaction has been counted for its member, or is about to be;
\* only a failed report loses some.  (Transactions that were there before are
\* counted again, so the total is no more than an upper bound.)
StoredIsCounted ==
  \A u \in Users :
    \/ Cardinality({t \in stored : t[1] = u}) <=
          consent[u].total + SumFunctionOnSet(
            [s \in Syncs |-> IF sync[s].at = u /\ sync[s].pc = "report"
                             THEN sync[s].count ELSE 0], Syncs)
    \/ Happened("dbError")

\* Whoever a sync fetches and stores transactions of has opted in, or has
\* withdrawn only after the sync had loaded its list (which it works from to the
\* end).  A key that was left behind by a revocation (db.ts:738 keeps it) is not
\* used by any sync that begins later, whatever removals, revocations and
\* renewed consents come in between.
RevokedIsNotCopied ==
  \A s \in Syncs :
    sync[s].pc \in {"page", "store"} =>
      consent[sync[s].at].given \/ sync[s].at \in withdrawn[s]

\* A consent that was withdrawn stays withdrawn whatever a running sync reports.
SyncNeverOptsIn ==
  [][\A u \in Users : ~consent[u].given /\ consent'[u].given => optIn[u] = "store"]_vars
=============================================================================
