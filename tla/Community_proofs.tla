--------------------------- MODULE Community_proofs ---------------------------
(***************************************************************************)
(* Theorems about Community for any number of users, reviewers and syncs,  *)
(* any ledgers, page size, maximum and faults.                             *)
(***************************************************************************)
EXTENDS Community, FiniteSetTheorems, WellFoundedInduction, TLAPS

LEMMA FaultTyped ==
  ASSUME failures \in [AllFaults -> Nat], NEW f, Fault(f)
  PROVE  /\ failures' \in [AllFaults -> Nat]
         /\ f \in AllFaults /\ failures'[f] = failures[f] + 1
         /\ \A g \in AllFaults : failures'[g] >= failures[g]
BY CommunityAssumption DEF Fault

LEMMA LedgerTyped ==
  ASSUME NEW u \in Users
  PROVE  /\ Len(Ledger[u]) \in Nat /\ Len(Ledger[u]) > 0
         /\ DOMAIN Ledger[u] = 1..Len(Ledger[u])
         /\ \A i, j \in 1..Len(Ledger[u]) : i <= j /\ Ledger[u][i].old => Ledger[u][j].old
         /\ \A i \in 1..Len(Ledger[u]) : i \in Positions /\ i \in Nat
BY CommunityAssumption DEF Positions

-----------------------------------------------------------------------------
(***************************************************************************)
(* What the loop of syncUserTransactions takes of one page.                *)
(***************************************************************************)
LEMMA PageIsInterval ==
  ASSUME NEW u \in Users, NEW first \in 1..Len(Ledger[u])
  PROVE  \E last \in first..Len(Ledger[u]) :
           /\ Page(u, first) = first..last
           /\ IsFiniteSet(Page(u, first))
           /\ Cardinality(Page(u, first)) = last - first + 1
<1> DEFINE last == IF first + PageSize - 1 < Len(Ledger[u])
                   THEN first + PageSize - 1 ELSE Len(Ledger[u])
<1>1. last \in first..Len(Ledger[u]) /\ last \in Int /\ first \in Int
  BY CommunityAssumption, LedgerTyped
<1>2. Page(u, first) = first..last
  BY DEF Page
<1> HIDE DEF last
<1>3. IsFiniteSet(first..last) /\ Cardinality(first..last) = last - first + 1
  BY <1>1, FS_Interval
<1> QED
  BY <1>1, <1>2, <1>3

\* Of a page the loop takes the newest entries, and stops only at an old one or
\* when there is no room.
LEMMA RecentIsCovered ==
  ASSUME NEW u \in Users, NEW first \in 1..Len(Ledger[u]), NEW last \in first..Len(Ledger[u]),
         NEW room \in Nat
  PROVE  LET R == Recent(u, first..last, room) IN
         /\ R \subseteq first..last
         /\ IsFiniteSet(R) /\ Cardinality(R) <= room
         /\ \A i \in R : ~Ledger[u][i].old
         /\ \A i \in first..last : i \in R \/ Ledger[u][i].old \/ Cardinality(R) = room
<1> DEFINE page == first..last
           R == Recent(u, page, room)
           room1 == first..(first + room - 1)
<1>1. first \in Int /\ last \in Int /\ first >= 1 /\ last <= Len(Ledger[u])
  BY LedgerTyped
<1>2. \A i \in page : Cardinality({j \in page : j <= i}) = i - first + 1
  <2> TAKE i \in page
  <2>1. {j \in page : j <= i} = first..i /\ i \in Int /\ ~(first > i)
    BY <1>1
  <2>2. Cardinality(first..i) = i - first + 1
    BY <1>1, <2>1, FS_Interval
  <2> QED
    BY <2>1, <2>2
<1>3. R \subseteq page /\ \A i \in R : i - first + 1 <= room /\ ~Ledger[u][i].old
  BY <1>1, <1>2 DEF Recent
<1>4. IsFiniteSet(page)
  BY <1>1, FS_Interval
<1>5. IsFiniteSet(R) /\ Cardinality(R) \in Nat
  BY <1>3, <1>4, FS_Subset, FS_CardinalityType
<1>6. IsFiniteSet(room1) /\ Cardinality(room1) = room
  <2>1. first + room - 1 \in Int
    BY <1>1
  <2> QED
    BY <1>1, <2>1, FS_Interval
<1>7. R \subseteq room1
  BY <1>1, <1>3
<1>8. Cardinality(R) <= room
  BY <1>6, <1>7, FS_Subset
<1>9. ASSUME NEW i \in page, i \notin R, ~Ledger[u][i].old
      PROVE  Cardinality(R) = room
  <2>1. \A j \in page : j <= i => ~Ledger[u][j].old
    BY <1>1, <1>9, LedgerTyped
  <2>2. i - first + 1 > room
    BY <1>1, <1>2, <1>9, <2>1 DEF Recent
  <2>3. ASSUME NEW x \in room1 PROVE x \in R
    <3>1. x \in page /\ x <= i /\ x - first + 1 <= room
      BY <1>1, <2>2, <2>3, <1>9
    <3>2. \A j \in page : j <= x => ~Ledger[u][j].old
      BY <1>1, <1>9, <2>1, <3>1
    <3> QED
      BY <1>2, <3>1, <3>2 DEF Recent
  <2>4. Cardinality(room1) <= Cardinality(R)
    BY <1>5, <2>3, FS_Subset
  <2> QED
    BY <1>5, <1>6, <1>8, <2>4
<1> QED
  BY <1>3, <1>5, <1>8, <1>9

-----------------------------------------------------------------------------
(***************************************************************************)
(* Types.                                                                  *)
(***************************************************************************)
SyncPcs == {"idle", "next", "page", "store", "report", "failed", "mark", "done"}

SyncStates == [pc: SyncPcs, todo: SUBSET Users, at: Users \cup {NoUser},
               from: Nat, cursor: Nat, got: SUBSET Positions, count: Nat, cut: BOOLEAN]

Consents == [row: BOOLEAN, given: BOOLEAN, key: BOOLEAN, status: SyncStatuses, total: Nat]

\* What a sync knows of the member it works on: whose batch it is, what the
\* batch holds, and what of the ledger it already covers.
Batch(s) ==
  /\ IsFiniteSet(sync[s].got) /\ Cardinality(sync[s].got) <= MaxTransactions
  /\ sync[s].pc \in {"page", "store", "report", "failed"} => sync[s].at \in Users

Begun(s) ==
  sync[s].pc \in {"page", "store", "report"} =>
    /\ newest[sync[s].at] <= sync[s].from
    /\ sync[s].got \subseteq 1..sync[s].cursor
    /\ \A i \in sync[s].got :
         i \in 1..Len(Ledger[sync[s].at]) /\ ~Ledger[sync[s].at][i].old

OnPage(s) ==
  sync[s].pc = "page" =>
    /\ sync[s].cursor < Len(Ledger[sync[s].at])
    /\ \A i \in sync[s].from..sync[s].cursor : i \in sync[s].got

Fetched(s) ==
  sync[s].pc \in {"store", "report"} =>
    \A i \in sync[s].from..Len(Ledger[sync[s].at]) :
      \/ i \in sync[s].got
      \/ Ledger[sync[s].at][i].old
      \/ Cardinality(sync[s].got) = MaxTransactions
      \/ sync[s].cut /\ i > sync[s].cursor

Kept(s) ==
  sync[s].pc = "report" /\ ~Happened("badRow") =>
    \A i \in sync[s].got : <<sync[s].at, i>> \in stored

SyncRight(s) == Batch(s) /\ Begun(s) /\ OnPage(s) /\ Fetched(s) /\ Kept(s)

Typed == TypeOK /\ \A s \in Syncs : SyncRight(s)

\* A sync that does nothing stays right while members pay, others store and
\* faults happen.
LEMMA RestsRight ==
  ASSUME Typed, NEW s \in Syncs, sync'[s] = sync[s],
         newest' \in [Users -> Nat], \A u \in Users : newest'[u] <= newest[u],
         stored \subseteq stored',
         failures'["badRow"] \in Nat, failures'["badRow"] >= failures["badRow"]
  PROVE  SyncRight(s)'
<1>1. SyncRight(s) /\ newest \in [Users -> Nat] /\ sync[s].from \in Nat /\ failures["badRow"] \in Nat
  BY DEF Typed, TypeOK, AllFaults
<1>2. Batch(s)'
  BY <1>1 DEF SyncRight, Batch
<1>3. Begun(s)'
  <2>1. CASE sync[s].pc \in {"page", "store", "report"}
    <3>1. sync[s].at \in Users
      BY <1>1, <2>1 DEF SyncRight, Batch
    <3>2. newest'[sync[s].at] <= sync[s].from
      BY <1>1, <2>1, <3>1 DEF SyncRight, Begun
    <3> QED
      BY <1>1, <2>1, <3>2 DEF SyncRight, Begun
  <2> QED
    BY <2>1 DEF Begun
<1>4. OnPage(s)' /\ Fetched(s)'
  BY <1>1 DEF SyncRight, OnPage, Fetched
<1>5. Kept(s)'
  BY <1>1 DEF SyncRight, Kept, Happened
<1> QED
  BY <1>2, <1>3, <1>4, <1>5 DEF SyncRight

LEMMA PeopleTyped ==
  ASSUME TypeOK, NEW u \in Users,
         \/ Apply(u) \/ StoreApplication(u) \/ RemoveMember(u) \/ RevokeForRemoved(u)
         \/ BeginOptIn(u) \/ JoinAdmin(u) \/ ApproveAdmin(u) \/ CheckExisting(u)
         \/ FetchBlinkUsername(u) \/ StoreConsent(u) \/ RevokeConsent(u)
         \/ \E r \in Reviewers : Review(r, u)
  PROVE  TypeOK' /\ UNCHANGED <<sync, stored, internal, newest, role>>
<1>1. UNCHANGED <<sync, stored, internal, newest, role>>
  BY DEF Apply, StoreApplication, RemoveMember, RevokeForRemoved, BeginOptIn, JoinAdmin,
         ApproveAdmin, CheckExisting, FetchBlinkUsername, StoreConsent, RevokeConsent, Review
<1>2. /\ failures' \in [AllFaults -> Nat]
      /\ raced' \subseteq Users
  BY FaultTyped
     DEF Apply, StoreApplication, RemoveMember, RevokeForRemoved, BeginOptIn, JoinAdmin,
         ApproveAdmin, CheckExisting, FetchBlinkUsername, StoreConsent, RevokeConsent, Review,
         TypeOK
<1>3. requests' \in 0..MaxRequests
  <2>1. requests' = requests \/ (requests < MaxRequests /\ requests' = requests + 1)
    BY DEF Apply, StoreApplication, RemoveMember, RevokeForRemoved, BeginOptIn, JoinAdmin,
           ApproveAdmin, CheckExisting, FetchBlinkUsername, StoreConsent, RevokeConsent, Review, Request
  <2> QED
    BY <2>1, CommunityAssumption DEF TypeOK
<1>4. member' \in [Users -> Statuses]
  <2>1. \/ member' = member
        \/ member' = [member EXCEPT ![u] = Applied(@)]
        \/ member' = [member EXCEPT ![u] = "removed"]
        \/ member' = [member EXCEPT ![u] = "approved"]
    BY DEF Apply, StoreApplication, RemoveMember, RevokeForRemoved, BeginOptIn, JoinAdmin,
           ApproveAdmin, CheckExisting, FetchBlinkUsername, StoreConsent, RevokeConsent, Review
  <2>2. member \in [Users -> Statuses] /\ Applied(member[u]) \in Statuses
    BY DEF TypeOK, Applied, Statuses
  <2>3. "removed" \in Statuses /\ "approved" \in Statuses
    BY DEF Statuses
  <2> QED
    BY <2>1, <2>2, <2>3
<1>5. /\ apply' \in [Users -> {"idle", "store"}]
      /\ removal' \in [Users -> {"idle", "revoke"}]
      /\ review' \in [Reviewers -> Users \cup {NoUser}]
  <2>1. \/ apply' = apply
        \/ apply' = [apply EXCEPT ![u] = "store"] \/ apply' = [apply EXCEPT ![u] = "idle"]
    BY DEF Apply, StoreApplication, RemoveMember, RevokeForRemoved, BeginOptIn, JoinAdmin,
           ApproveAdmin, CheckExisting, FetchBlinkUsername, StoreConsent, RevokeConsent, Review
  <2>2. \/ removal' = removal
        \/ removal' = [removal EXCEPT ![u] = "revoke"] \/ removal' = [removal EXCEPT ![u] = "idle"]
    BY DEF Apply, StoreApplication, RemoveMember, RevokeForRemoved, BeginOptIn, JoinAdmin,
           ApproveAdmin, CheckExisting, FetchBlinkUsername, StoreConsent, RevokeConsent, Review
  <2>3. \/ review' = review
        \/ \E r \in Reviewers : review' = [review EXCEPT ![r] = u]
    BY DEF Apply, StoreApplication, RemoveMember, RevokeForRemoved, BeginOptIn, JoinAdmin,
           ApproveAdmin, CheckExisting, FetchBlinkUsername, StoreConsent, RevokeConsent, Review
  <2>4. apply' \in [Users -> {"idle", "store"}]
    BY <2>1 DEF TypeOK
  <2>5. removal' \in [Users -> {"idle", "revoke"}]
    BY <2>2 DEF TypeOK
  <2>6. review' \in [Reviewers -> Users \cup {NoUser}]
    BY <2>3 DEF TypeOK
  <2> QED
    BY <2>4, <2>5, <2>6
<1>6. optIn' \in [Users -> {"idle", "join", "approve", "existing", "fetch", "store"}]
  <2>1. \/ optIn' = optIn
        \/ \E pc \in {"idle", "join", "approve", "existing", "fetch", "store"} : OptInGoto(u, pc)
    BY DEF Apply, StoreApplication, RemoveMember, RevokeForRemoved, BeginOptIn, JoinAdmin,
           ApproveAdmin, CheckExisting, FetchBlinkUsername, StoreConsent, RevokeConsent, Review
  <2> QED
    BY <2>1 DEF TypeOK, OptInGoto
<1>7. consent' \in [Users -> Consents]
  <2>1. consent[u] \in Consents
    BY DEF TypeOK, Consents
  <2>2. /\ [consent[u] EXCEPT !.given = FALSE] \in Consents
        /\ Upsert(consent[u], TRUE) \in Consents
        /\ Upsert(consent[u], FALSE) \in Consents
    BY <2>1 DEF Consents, Upsert, SyncStatuses
  <2>3. \/ consent' = consent
        \/ \E c \in Consents : consent' = [consent EXCEPT ![u] = c]
    BY <2>2
       DEF Apply, StoreApplication, RemoveMember, RevokeForRemoved, BeginOptIn, JoinAdmin,
           ApproveAdmin, CheckExisting, FetchBlinkUsername, StoreConsent, RevokeConsent, Review,
           WithdrawConsent
  <2> QED
    BY <2>3 DEF TypeOK, Consents
<1>8. withdrawn' \in [Syncs -> SUBSET Users]
  <2>1. withdrawn' = withdrawn \/ Withdrawn(u)
    BY DEF Apply, StoreApplication, RemoveMember, RevokeForRemoved, BeginOptIn, JoinAdmin,
           ApproveAdmin, CheckExisting, FetchBlinkUsername, StoreConsent, RevokeConsent, Review
  <2> QED
    BY <2>1 DEF TypeOK, Withdrawn
<1> QED
  BY <1>1, <1>2, <1>3, <1>4, <1>5, <1>6, <1>7, <1>8 DEF TypeOK, Consents

LEMMA DecisionTyped ==
  ASSUME TypeOK, NEW r \in Reviewers, DecideApplication(r)
  PROVE  TypeOK' /\ UNCHANGED <<sync, stored, internal, newest, role>>
<1>1. PICK u \in Users, decision \in {"approved", "rejected"} :
        /\ member' = [member EXCEPT ![u] = decision]
        /\ review' = [review EXCEPT ![r] = NoUser]
        /\ raced' = IF member[u] = "pending" THEN raced ELSE raced \cup {u}
        /\ UNCHANGED <<role, apply, optIn, removal, withdrawn, requests, consent, newest, sync,
                       stored, internal, failures>>
  BY DEF DecideApplication
<1>2. member' \in [Users -> Statuses]
  BY <1>1 DEF TypeOK, Statuses
<1> QED
  BY <1>1, <1>2 DEF TypeOK

LEMMA SetStatusTyped ==
  ASSUME TypeOK, NEW u \in Users, NEW st \in SyncStatuses, NEW n \in Nat, SetStatus(u, st, n)
  PROVE  /\ consent' \in [Users -> Consents]
         /\ \A w \in Users : consent'[w].given = consent[w].given /\ consent'[w].key = consent[w].key
<1>1. consent \in [Users -> Consents]
  BY DEF TypeOK, Consents
<1>2. consent[u] \in Consents /\ consent[u].total + n \in Nat
  BY <1>1 DEF Consents
<1> DEFINE c == [consent[u] EXCEPT !.status = st, !.total = consent[u].total + n]
<1>3. consent' = [consent EXCEPT ![u] = c]
  BY DEF SetStatus
<1>4. c \in Consents /\ c.given = consent[u].given /\ c.key = consent[u].key
  <2> DEFINE total == consent[u].total + n
  <2>1. total \in Nat
    BY <1>2
  <2> HIDE DEF total
  <2>2. /\ [consent[u] EXCEPT !.status = st, !.total = total] \in Consents
        /\ [consent[u] EXCEPT !.status = st, !.total = total].given = consent[u].given
        /\ [consent[u] EXCEPT !.status = st, !.total = total].key = consent[u].key
    BY <1>2, <2>1 DEF Consents
  <2> QED
    BY <2>2 DEF total
<1> HIDE DEF c
<1> QED
  BY <1>1, <1>3, <1>4

\* What the steps of a sync leave alone.
LEMMA OthersRest ==
  ASSUME Typed, NEW s \in Syncs, BeginSync(s) \/ SyncStep(s)
  PROVE  /\ UNCHANGED <<peopleVars, newest>>
         /\ stored \subseteq stored' /\ failures' \in [AllFaults -> Nat]
         /\ failures'["badRow"] >= failures["badRow"]
         /\ \E c : sync' = [sync EXCEPT ![s] = c]
         /\ \A x \in Syncs \ {s} : SyncRight(x)'
<1>1. failures \in [AllFaults -> Nat] /\ "badRow" \in AllFaults /\ newest \in [Users -> Nat]
  BY DEF Typed, TypeOK, AllFaults
<1>2. UNCHANGED <<peopleVars, newest>>
  BY DEF BeginSync, SyncStep, SyncMember, FetchPage, StoreTransactions, ReportSynced,
         ReportFailed, MarkInternal
<1>3. stored \subseteq stored'
  BY DEF BeginSync, SyncStep, SyncMember, FetchPage, StoreTransactions, ReportSynced,
         ReportFailed, MarkInternal
<1>4. UNCHANGED failures \/ \E f \in AllFaults : Fault(f)
  BY DEF BeginSync, SyncStep, SyncMember, FetchPage, StoreTransactions, ReportSynced,
         ReportFailed, MarkInternal, AllFaults
<1>5. failures' \in [AllFaults -> Nat] /\ failures'["badRow"] >= failures["badRow"]
  BY <1>1, <1>4, FaultTyped
<1>6. \E c : sync' = [sync EXCEPT ![s] = c]
  BY DEF BeginSync, SyncStep, SyncMember, FetchPage, StoreTransactions, ReportSynced,
         ReportFailed, MarkInternal, Rest, Set
<1>7. ASSUME NEW x \in Syncs \ {s} PROVE SyncRight(x)'
  <2>1. sync'[x] = sync[x]
    BY <1>6 DEF Typed, TypeOK
  <2>2. newest' = newest /\ failures'["badRow"] \in Nat
    BY <1>1, <1>2, <1>5
  <2> QED
    BY <1>1, <1>3, <1>5, <2>1, <2>2, RestsRight
<1> QED
  BY <1>2, <1>3, <1>5, <1>6, <1>7

LEMMA BeginSyncTyped ==
  ASSUME Typed, NEW s \in Syncs, BeginSync(s)
  PROVE  Typed'
<1>1. PICK sharers \in SUBSET Users :
        sync' = [sync EXCEPT ![s] = [sync[s] EXCEPT !.pc = IF sharers = {} THEN "done" ELSE "next",
                                                    !.todo = sharers]]
  BY DEF BeginSync, Set
<1>2. UNCHANGED <<peopleVars, consent, newest, stored, internal, failures>>
  BY DEF BeginSync
<1>3. sync \in [Syncs -> SyncStates] /\ TypeOK /\ SyncRight(s)
  BY DEF Typed, TypeOK, SyncStates, SyncPcs
<1>4. /\ sync' \in [Syncs -> SyncStates]
      /\ sync'[s].pc \in {"done", "next"} /\ sync'[s].got = sync[s].got
  <2> DEFINE c == [sync[s] EXCEPT !.pc = IF sharers = {} THEN "done" ELSE "next",
                                  !.todo = sharers]
  <2>1. c \in SyncStates /\ c.pc \in {"done", "next"} /\ c.got = sync[s].got
    BY <1>3 DEF SyncStates, SyncPcs
  <2> QED
    BY <1>1, <1>3, <2>1
<1>5. TypeOK'
  BY <1>2, <1>3, <1>4 DEF TypeOK, SyncStates, SyncPcs, peopleVars
<1>6. SyncRight(s)'
  BY <1>3, <1>4 DEF SyncRight, Batch, Begun, OnPage, Fetched, Kept
<1> QED
  BY <1>5, <1>6, OthersRest DEF Typed

\* A sync at rest between two members has nothing in its hands.
LEMMA RestTyped ==
  ASSUME TypeOK, NEW s \in Syncs, NEW pc \in SyncPcs, Rest(s, pc)
  PROVE  /\ sync' \in [Syncs -> SyncStates]
         /\ sync'[s].pc = pc /\ sync'[s].todo = sync[s].todo /\ sync'[s].got = {}
         /\ IsFiniteSet({}) /\ Cardinality({}) <= MaxTransactions
<1>1. sync \in [Syncs -> SyncStates] /\ sync[s].todo \subseteq Users
  BY DEF TypeOK, SyncStates, SyncPcs
<1>2. AtRest(pc, sync[s].todo) \in SyncStates
  BY <1>1 DEF AtRest, SyncStates
<1>3. sync' = [sync EXCEPT ![s] = AtRest(pc, sync[s].todo)]
  BY DEF Rest, Set
<1>4. IsFiniteSet({}) /\ Cardinality({}) <= MaxTransactions
  BY FS_EmptySet, CommunityAssumption
<1>5. sync'[s] = AtRest(pc, sync[s].todo) /\ sync' \in [Syncs -> SyncStates]
  BY <1>1, <1>2, <1>3
<1> QED
  BY <1>4, <1>5 DEF AtRest

LEMMA SyncMemberTyped ==
  ASSUME Typed, NEW s \in Syncs, NEW u \in Users, SyncMember(s, u)
  PROVE  Typed'
<1>0. TypeOK /\ SyncRight(s) /\ SyncStep(s)
  BY DEF Typed, SyncStep
<1>1. UNCHANGED <<peopleVars, newest, stored, internal>> /\ failures' \in [AllFaults -> Nat]
  BY <1>0, OthersRest DEF SyncMember
<1>2. consent' \in [Users -> Consents]
  <2>1. consent' = consent \/ SetStatus(u, "syncing", 0)
    BY DEF SyncMember
  <2> QED
    BY <1>0, <2>1, SetStatusTyped DEF TypeOK, Consents, SyncStatuses
<1>3. sync \in [Syncs -> SyncStates] /\ newest[u] \in 1..Len(Ledger[u]) /\ Len(Ledger[u]) \in Nat
      /\ newest[u] \in Nat
  BY <1>0, LedgerTyped DEF TypeOK, SyncStates, SyncPcs
<1>4. /\ sync' \in [Syncs -> SyncStates]
      /\ \/ /\ sync'[s].pc = "page" /\ sync'[s].at = u /\ sync'[s].got = {}
            /\ sync'[s].from = newest[u] /\ sync'[s].cursor = 0
         \/ /\ sync'[s].pc = "done" /\ sync'[s].got = {}
            /\ IsFiniteSet({}) /\ Cardinality({}) <= MaxTransactions
  <2>1. CASE Rest(s, "done")
    BY <1>0, <2>1, RestTyped DEF SyncPcs
  <2>2. CASE Set(s, [sync[s] EXCEPT !.pc = "page", !.todo = @ \ {u}, !.at = u,
                                    !.from = newest[u], !.cursor = 0, !.got = {}, !.count = 0,
                                    !.cut = FALSE])
    <3> DEFINE c == [sync[s] EXCEPT !.pc = "page", !.todo = @ \ {u}, !.at = u, !.from = newest[u],
                                    !.cursor = 0, !.got = {}, !.count = 0, !.cut = FALSE]
    <3>1. /\ c \in SyncStates /\ c.pc = "page" /\ c.at = u /\ c.got = {}
          /\ c.from = newest[u] /\ c.cursor = 0
      BY <1>3 DEF SyncStates, SyncPcs
    <3> QED
      BY <1>3, <2>2, <3>1 DEF Set
  <2> QED
    BY <2>1, <2>2 DEF SyncMember
<1>5. TypeOK'
  BY <1>0, <1>1, <1>2, <1>4 DEF TypeOK, SyncStates, SyncPcs, Consents, peopleVars
<1>6. SyncRight(s)'
  <2>1. CASE /\ sync'[s].pc = "done" /\ sync'[s].got = {}
             /\ IsFiniteSet({}) /\ Cardinality({}) <= MaxTransactions
    BY <1>0, <2>1 DEF SyncRight, Batch, Begun, OnPage, Fetched, Kept
  <2>2. CASE /\ sync'[s].pc = "page" /\ sync'[s].at = u /\ sync'[s].got = {}
             /\ sync'[s].from = newest[u] /\ sync'[s].cursor = 0
    <3>1. IsFiniteSet({}) /\ Cardinality({}) <= MaxTransactions
      BY FS_EmptySet, CommunityAssumption
    <3>2. newest'[u] <= newest[u] /\ 0 < Len(Ledger[u]) /\ \A i \in newest[u]..0 : i \in {}
      BY <1>1, <1>3
    <3> QED
      BY <2>2, <3>1, <3>2 DEF SyncRight, Batch, Begun, OnPage, Fetched, Kept
  <2> QED
    BY <1>4, <2>1, <2>2
<1> QED
  BY <1>0, <1>5, <1>6, OthersRest DEF Typed

LEMMA FetchPageTyped ==
  ASSUME Typed, NEW s \in Syncs, FetchPage(s)
  PROVE  Typed'
<1> DEFINE u == sync[s].at
           first == IF sync[s].cursor = 0 THEN newest[u] ELSE sync[s].cursor + 1
           page == Page(u, first)
           room == MaxTransactions - Cardinality(sync[s].got)
           R == Recent(u, page, room)
           got == sync[s].got \cup R
           last == first + Cardinality(page) - 1
           more == /\ ~\E i \in page : Ledger[u][i].old
                   /\ last < Len(Ledger[u])
                   /\ Cardinality(got) < MaxTransactions
           pc == IF more THEN "page" ELSE AfterPages(got)
<1>0. TypeOK /\ SyncRight(s) /\ SyncStep(s) /\ sync[s].pc = "page"
  BY DEF Typed, SyncStep, FetchPage
<1>1. UNCHANGED <<peopleVars, consent, newest, stored, internal>> /\ failures' \in [AllFaults -> Nat]
  BY <1>0, OthersRest DEF FetchPage
<1>2. /\ u \in Users /\ IsFiniteSet(sync[s].got) /\ Cardinality(sync[s].got) <= MaxTransactions
      /\ Cardinality(sync[s].got) \in Nat /\ MaxTransactions \in Nat \ {0}
  BY <1>0, FS_CardinalityType, CommunityAssumption DEF SyncRight, Batch
<1>3. /\ newest[u] <= sync[s].from /\ sync[s].got \subseteq 1..sync[s].cursor
      /\ \A i \in sync[s].got : i \in 1..Len(Ledger[u]) /\ ~Ledger[u][i].old
      /\ sync[s].cursor < Len(Ledger[u])
      /\ \A i \in sync[s].from..sync[s].cursor : i \in sync[s].got
  BY <1>0 DEF SyncRight, Begun, OnPage
<1>4. /\ sync \in [Syncs -> SyncStates] /\ sync[s] \in SyncStates
      /\ sync[s].cursor \in Nat /\ sync[s].from \in Nat /\ sync[s].got \subseteq Positions
      /\ newest[u] \in 1..Len(Ledger[u]) /\ Len(Ledger[u]) \in Nat /\ newest[u] \in Nat
  BY <1>0, <1>2, LedgerTyped DEF TypeOK, SyncStates, SyncPcs
<1>5. first > sync[s].cursor \/ sync[s].cursor = 0
  BY <1>3, <1>4
<1>6. first \in 1..Len(Ledger[u]) /\ first \in Nat
  BY <1>3, <1>4
<1> HIDE DEF first
<1>7. /\ last \in first..Len(Ledger[u]) /\ last \in Nat /\ page = first..last
      /\ Cardinality(page) = last - first + 1
  <2>1. PICK l \in first..Len(Ledger[u]) : /\ page = first..l
                                           /\ Cardinality(page) = l - first + 1
    BY <1>2, <1>6, PageIsInterval
  <2>2. l \in Int /\ l >= first /\ l <= Len(Ledger[u])
    BY <1>4, <1>6, <2>1
  <2>3. last = l
    BY <1>6, <2>1, <2>2
  <2> QED
    BY <1>6, <2>1, <2>2, <2>3
<1> HIDE DEF page, last
<1>8. room \in Nat
  BY <1>2
<1> HIDE DEF room
<1>9. /\ R \subseteq first..last
      /\ IsFiniteSet(R) /\ Cardinality(R) <= room
      /\ \A i \in R : ~Ledger[u][i].old
      /\ \A i \in first..last : i \in R \/ Ledger[u][i].old \/ Cardinality(R) = room
  BY <1>2, <1>6, <1>7, <1>8, RecentIsCovered
<1> HIDE DEF R
<1>10. Cardinality(R) \in Nat
  BY <1>9, FS_CardinalityType
<1>11. /\ IsFiniteSet(got)
       /\ Cardinality(got) = Cardinality(sync[s].got) + Cardinality(R)
       /\ Cardinality(got) <= MaxTransactions
       /\ Cardinality(got) = MaxTransactions <=> Cardinality(R) = room
  <2>1. sync[s].got \cap R = {}
    BY <1>3, <1>4, <1>5, <1>6, <1>7, <1>9
  <2>2. IsFiniteSet(got) /\ Cardinality(got) = Cardinality(sync[s].got) + Cardinality(R)
                                                - Cardinality(sync[s].got \cap R)
    BY <1>2, <1>9, FS_Union
  <2>3. Cardinality(sync[s].got \cap R) = 0
    BY <2>1, FS_EmptySet
  <2> QED
    BY <1>2, <1>9, <1>10, <2>2, <2>3 DEF room
<1>12. /\ got \subseteq 1..last
       /\ \A i \in got : i \in 1..Len(Ledger[u]) /\ ~Ledger[u][i].old
  <2>1. ASSUME NEW i \in got PROVE i \in 1..last /\ i \in 1..Len(Ledger[u]) /\ ~Ledger[u][i].old
    <3>1. CASE i \in sync[s].got
      <4>1. i \in 1..sync[s].cursor /\ sync[s].cursor <= last
        BY <1>3, <1>4, <1>6, <1>7, <3>1 DEF first
      <4> QED
        BY <1>3, <1>4, <1>7, <3>1, <4>1
    <3>2. CASE i \in R
      <4>1. i \in first..last /\ ~Ledger[u][i].old
        BY <1>9, <3>2
      <4> QED
        BY <1>4, <1>6, <1>7, <4>1
    <3> QED
      BY <2>1, <3>1, <3>2
  <2> QED
    BY <2>1
<1>13. \A i \in sync[s].from..last : i \in got \/ Ledger[u][i].old \/ Cardinality(got) = MaxTransactions
  <2> TAKE i \in sync[s].from..last
  <2>1. i \in Int /\ sync[s].from <= i /\ i <= last
    BY <1>4, <1>7
  <2>2. CASE i <= sync[s].cursor
    BY <1>3, <1>4, <2>1, <2>2
  <2>3. CASE i > sync[s].cursor
    <3>1. i >= first
      BY <1>3, <1>4, <2>1, <2>3 DEF first
    <3>2. i \in first..last
      BY <1>6, <1>7, <2>1, <3>1
    <3> QED
      BY <1>9, <1>11, <3>2
  <2> QED
    BY <1>4, <2>1, <2>2, <2>3
<1>14. ~more => \A i \in sync[s].from..Len(Ledger[u]) :
                  i \in got \/ Ledger[u][i].old \/ Cardinality(got) = MaxTransactions
  <2> SUFFICES ASSUME ~more, NEW i \in sync[s].from..Len(Ledger[u]),
                      Cardinality(got) # MaxTransactions, i \notin got
               PROVE  Ledger[u][i].old
    OBVIOUS
  <2>1. i \in Int /\ sync[s].from <= i /\ i <= Len(Ledger[u]) /\ i >= 1 /\ Cardinality(got) \in Nat
    BY <1>3, <1>4, <1>11, FS_CardinalityType
  <2>2. CASE i <= last
    <3>1. i \in sync[s].from..last
      BY <1>4, <1>7, <2>1, <2>2
    <3> QED
      BY <1>13, <3>1
  <2>3. CASE i > last
    <3>1. Cardinality(got) < MaxTransactions /\ last < Len(Ledger[u])
      BY <1>2, <1>4, <1>7, <1>11, <2>1, <2>3
    <3>2. PICK j \in page : Ledger[u][j].old
      BY <3>1
    <3>3. j \in 1..Len(Ledger[u]) /\ i \in 1..Len(Ledger[u]) /\ j <= i
      BY <1>4, <1>6, <1>7, <2>1, <2>3, <3>2
    <3> QED
      BY <1>2, <3>2, <3>3, LedgerTyped
  <2> QED
    BY <1>7, <2>1, <2>2, <2>3
<1>15. more => /\ last < Len(Ledger[u])
               /\ \A i \in sync[s].from..last : i \in got
  <2> SUFFICES ASSUME more, NEW i \in sync[s].from..last
               PROVE  i \in got
    OBVIOUS
  <2>1. i \in Int /\ sync[s].from <= i /\ i <= last /\ Cardinality(got) # MaxTransactions
    BY <1>2, <1>4, <1>7
  <2>2. CASE i <= sync[s].cursor
    BY <1>3, <1>4, <2>1, <2>2
  <2>3. CASE i > sync[s].cursor
    <3>1. i >= first
      BY <1>3, <1>4, <2>1, <2>3 DEF first
    <3>2. i \in page
      BY <1>6, <1>7, <2>1, <3>1
    <3>3. ~Ledger[u][i].old
      BY <3>2
    <3> QED
      BY <1>13, <2>1, <3>3
  <2> QED
    BY <1>4, <2>1, <2>2, <2>3
<1>16. pc \in {"page", "store", "report"} /\ (pc = "page" <=> more) /\ (pc = "report" => got = {})
  BY DEF AfterPages
<1>17. got \subseteq Positions
  BY <1>2, <1>4, <1>12, LedgerTyped
<1>18. \/ Set(s, [sync[s] EXCEPT !.got = got, !.cursor = last, !.pc = pc])
       \/ Set(s, [sync[s] EXCEPT !.pc = AfterPages(sync[s].got), !.cut = TRUE])
       \/ Set(s, [sync[s] EXCEPT !.pc = AfterPages(got), !.got = got, !.cursor = last, !.cut = TRUE])
       \/ Set(s, [sync[s] EXCEPT !.pc = "failed"])
  BY DEF FetchPage, first, page, last, R, room
<1> HIDE DEF u, got, pc, more
<1>19. /\ sync' \in [Syncs -> SyncStates]
       /\ sync'[s].at = u /\ sync'[s].from = sync[s].from
       /\ \/ sync'[s].got = got /\ sync'[s].cursor = last /\ sync'[s].pc = pc
          \/ /\ sync'[s].got = sync[s].got /\ sync'[s].cursor = sync[s].cursor
             /\ sync'[s].pc = AfterPages(sync[s].got) /\ sync'[s].cut
          \/ /\ sync'[s].got = got /\ sync'[s].cursor = last
             /\ sync'[s].pc = AfterPages(got) /\ sync'[s].cut
          \/ sync'[s].got = sync[s].got /\ sync'[s].pc = "failed"
  <2> DEFINE a == AfterPages(sync[s].got)
             b == AfterPages(got)
  <2>1. a \in SyncPcs /\ b \in SyncPcs
    BY DEF AfterPages, SyncPcs
  <2>2. AfterPages(sync[s].got) = a /\ AfterPages(got) = b
    OBVIOUS
  <2> HIDE DEF a, b
  <2>3. CASE Set(s, [sync[s] EXCEPT !.got = got, !.cursor = last, !.pc = pc])
    <3>1. [sync[s] EXCEPT !.got = got, !.cursor = last, !.pc = pc] \in SyncStates
      BY <1>4, <1>7, <1>16, <1>17 DEF SyncStates, SyncPcs
    <3> QED
      BY <1>4, <2>3, <3>1 DEF SyncStates, Set, u
  <2>4. CASE Set(s, [sync[s] EXCEPT !.pc = a, !.cut = TRUE])
    <3>1. [sync[s] EXCEPT !.pc = a, !.cut = TRUE] \in SyncStates
      BY <1>4, <2>1 DEF SyncStates
    <3> QED
      BY <1>4, <2>2, <2>4, <3>1 DEF SyncStates, Set, u
  <2>5. CASE Set(s, [sync[s] EXCEPT !.pc = b, !.got = got, !.cursor = last, !.cut = TRUE])
    <3>1. [sync[s] EXCEPT !.pc = b, !.got = got, !.cursor = last, !.cut = TRUE] \in SyncStates
      BY <1>4, <1>7, <1>17, <2>1 DEF SyncStates
    <3> QED
      BY <1>4, <2>2, <2>5, <3>1 DEF SyncStates, Set, u
  <2>6. CASE Set(s, [sync[s] EXCEPT !.pc = "failed"])
    <3>1. [sync[s] EXCEPT !.pc = "failed"] \in SyncStates
      BY <1>4 DEF SyncStates, SyncPcs
    <3> QED
      BY <1>4, <2>6, <3>1 DEF SyncStates, Set, u
  <2> QED
    BY <1>18, <2>2, <2>3, <2>4, <2>5, <2>6
<1>20. TypeOK'
  BY <1>0, <1>1, <1>19 DEF TypeOK, SyncStates, SyncPcs, peopleVars
<1>21. SyncRight(s)'
  <2>1. CASE sync'[s].got = sync[s].got /\ sync'[s].pc = "failed"
    BY <1>2, <1>19, <2>1 DEF SyncRight, Batch, Begun, OnPage, Fetched, Kept
  <2>2. CASE sync'[s].got = got /\ sync'[s].cursor = last /\ sync'[s].pc = pc
    <3>1. Batch(s)'
      BY <1>2, <1>11, <1>19, <2>2 DEF Batch
    <3>2. Begun(s)'
      BY <1>1, <1>3, <1>12, <1>19, <2>2 DEF Begun, u
    <3>3. OnPage(s)'
      BY <1>15, <1>16, <1>19, <2>2 DEF OnPage
    <3>4. Fetched(s)'
      BY <1>14, <1>16, <1>19, <2>2 DEF Fetched
    <3>5. Kept(s)'
      BY <1>16, <1>19, <2>2 DEF Kept
    <3> QED
      BY <3>1, <3>2, <3>3, <3>4, <3>5 DEF SyncRight
  <2>3. CASE /\ sync'[s].got = sync[s].got /\ sync'[s].cursor = sync[s].cursor
             /\ sync'[s].pc = AfterPages(sync[s].got) /\ sync'[s].cut
    <3>0. sync'[s].pc \in {"store", "report"} /\ (sync'[s].pc = "report" => sync'[s].got = {})
      BY <2>3 DEF AfterPages
    <3>1. Batch(s)' /\ OnPage(s)' /\ Kept(s)'
      BY <1>2, <1>19, <2>3, <3>0 DEF Batch, OnPage, Kept
    <3>2. Begun(s)'
      BY <1>1, <1>3, <1>19, <2>3 DEF Begun, u
    <3>3. Fetched(s)'
      <4>1. ASSUME NEW i \in sync[s].from..Len(Ledger[u]), i \notin sync[s].got PROVE i > sync[s].cursor
        BY <1>3, <1>4, <4>1
      <4> QED
        BY <1>19, <2>3, <4>1 DEF Fetched
    <3> QED
      BY <3>1, <3>2, <3>3 DEF SyncRight
  <2>4. CASE /\ sync'[s].got = got /\ sync'[s].cursor = last
             /\ sync'[s].pc = AfterPages(got) /\ sync'[s].cut
    <3>0. sync'[s].pc \in {"store", "report"} /\ (sync'[s].pc = "report" => sync'[s].got = {})
      BY <2>4 DEF AfterPages
    <3>1. Batch(s)' /\ OnPage(s)' /\ Kept(s)'
      BY <1>2, <1>11, <1>19, <2>4, <3>0 DEF Batch, OnPage, Kept
    <3>2. Begun(s)'
      BY <1>1, <1>3, <1>12, <1>19, <2>4 DEF Begun, u
    <3>3. Fetched(s)'
      <4>1. ASSUME NEW i \in sync[s].from..Len(Ledger[u])
            PROVE  i \in got \/ Ledger[u][i].old \/ Cardinality(got) = MaxTransactions \/ i > last
        BY <1>4, <1>7, <1>13
      <4> QED
        BY <1>19, <2>4, <4>1 DEF Fetched
    <3> QED
      BY <3>1, <3>2, <3>3 DEF SyncRight
  <2> QED
    BY <1>19, <2>1, <2>2, <2>3, <2>4
<1> QED
  BY <1>0, <1>20, <1>21, OthersRest DEF Typed

LEMMA StoreTransactionsTyped ==
  ASSUME Typed, NEW s \in Syncs, StoreTransactions(s)
  PROVE  Typed'
<1> DEFINE u == sync[s].at
<1>0. TypeOK /\ SyncRight(s) /\ SyncStep(s) /\ sync[s].pc = "store"
  BY DEF Typed, SyncStep, StoreTransactions
<1>1. UNCHANGED <<peopleVars, consent, newest, internal>> /\ failures' \in [AllFaults -> Nat]
  BY <1>0, OthersRest DEF StoreTransactions
<1>2. u \in Users /\ IsFiniteSet(sync[s].got) /\ failures \in [AllFaults -> Nat]
  BY <1>0 DEF SyncRight, Batch, TypeOK
<1>3. sync \in [Syncs -> SyncStates] /\ sync[s] \in SyncStates /\ sync[s].got \subseteq Positions
  BY <1>0 DEF TypeOK, SyncStates, SyncPcs
<1>4. \/ \E skipped : /\ skipped = {} \/ Fault("badRow")
                      /\ stored' = stored \cup ({u} \X (sync[s].got \ skipped))
                      /\ sync' = [sync EXCEPT ![s] =
                           [sync[s] EXCEPT !.pc = "report",
                                           !.count = Cardinality(sync[s].got \ skipped)]]
      \/ /\ sync' = [sync EXCEPT ![s] = [sync[s] EXCEPT !.pc = "failed"]]
         /\ stored' = stored
  BY DEF StoreTransactions, Set
<1> HIDE DEF u
<1>5. CASE /\ sync' = [sync EXCEPT ![s] = [sync[s] EXCEPT !.pc = "failed"]]
           /\ stored' = stored
  <2>1. /\ sync' \in [Syncs -> SyncStates]
        /\ sync'[s].at = u /\ sync'[s].got = sync[s].got /\ sync'[s].pc = "failed"
    BY <1>3, <1>5 DEF SyncStates, SyncPcs, u
  <2>2. TypeOK'
    BY <1>0, <1>1, <1>5, <2>1 DEF TypeOK, SyncStates, SyncPcs, peopleVars
  <2>3. SyncRight(s)'
    BY <1>0, <1>2, <2>1 DEF SyncRight, Batch, Begun, OnPage, Fetched, Kept
  <2> QED
    BY <1>0, <2>2, <2>3, OthersRest DEF Typed
<1>6. ASSUME NEW skipped, skipped = {} \/ Fault("badRow"),
             stored' = stored \cup ({u} \X (sync[s].got \ skipped)),
             sync' = [sync EXCEPT ![s] =
                        [sync[s] EXCEPT !.pc = "report",
                                        !.count = Cardinality(sync[s].got \ skipped)]]
      PROVE  Typed'
  <2> DEFINE n == Cardinality(sync[s].got \ skipped)
  <2>1. n \in Nat
    BY <1>2, FS_Subset, FS_CardinalityType
  <2>2. sync' = [sync EXCEPT ![s] = [sync[s] EXCEPT !.pc = "report", !.count = n]]
    BY <1>6
  <2> HIDE DEF n
  <2>3. /\ sync' \in [Syncs -> SyncStates]
        /\ sync'[s].at = u /\ sync'[s].got = sync[s].got /\ sync'[s].pc = "report"
        /\ sync'[s].from = sync[s].from /\ sync'[s].cursor = sync[s].cursor
        /\ sync'[s].cut = sync[s].cut
    BY <1>3, <2>1, <2>2 DEF SyncStates, SyncPcs, u
  <2>4. stored' \subseteq Users \X Positions /\ internal' \subseteq stored'
    BY <1>0, <1>1, <1>2, <1>3, <1>6 DEF TypeOK
  <2>5. TypeOK'
    BY <1>0, <1>1, <2>3, <2>4 DEF TypeOK, SyncStates, SyncPcs, peopleVars
  <2>6. Batch(s)' /\ OnPage(s)'
    BY <1>0, <1>2, <2>3 DEF SyncRight, Batch, OnPage
  <2>7. Begun(s)' /\ Fetched(s)'
    BY <1>0, <1>1, <2>3 DEF SyncRight, Begun, Fetched, u
  <2>8. Kept(s)'
    <3>1. CASE Fault("badRow")
      BY <1>2, <3>1, FaultTyped DEF Kept, Happened
    <3>2. CASE skipped = {}
      BY <1>6, <2>3, <3>2 DEF Kept
    <3> QED
      BY <1>6, <3>1, <3>2
  <2> QED
    BY <1>0, <2>5, <2>6, <2>7, <2>8, OthersRest DEF Typed, SyncRight
<1> QED
  BY <1>4, <1>5, <1>6

\* The two reports of a sync; after both it has no more to do with the member.
LEMMA ReportTyped ==
  ASSUME Typed, NEW s \in Syncs, ReportSynced(s) \/ ReportFailed(s)
  PROVE  Typed'
<1>0. /\ TypeOK /\ SyncRight(s) /\ SyncStep(s) /\ sync[s].pc \in {"report", "failed"}
      /\ sync[s] \in SyncStates /\ sync \in [Syncs -> SyncStates]
  BY DEF Typed, SyncStep, ReportSynced, ReportFailed, TypeOK, SyncStates, SyncPcs
<1>1. UNCHANGED <<peopleVars, newest, stored, internal>> /\ failures' \in [AllFaults -> Nat]
  BY <1>0, OthersRest DEF ReportSynced, ReportFailed
<1>2. sync[s].at \in Users /\ sync[s].count \in Nat
  BY <1>0 DEF SyncRight, Batch, SyncStates
<1>3. consent' \in [Users -> Consents]
  <2>1. \/ consent' = consent
        \/ \E st \in {"synced", "error"}, n \in {0, sync[s].count} : SetStatus(sync[s].at, st, n)
    BY DEF ReportSynced, ReportFailed
  <2> QED
    BY <1>0, <1>2, <2>1, SetStatusTyped DEF TypeOK, Consents, SyncStatuses
<1>4. \/ Set(s, [sync[s] EXCEPT !.pc = "failed"])
      \/ \E pc \in {"mark", "next", "done"} : Rest(s, pc)
  BY DEF ReportSynced, ReportFailed, AfterMember
<1>5. /\ sync' \in [Syncs -> SyncStates]
      /\ \/ sync'[s].pc = "failed" /\ sync'[s].at = sync[s].at /\ sync'[s].got = sync[s].got
         \/ /\ sync'[s].pc \in {"mark", "next", "done"} /\ sync'[s].got = {}
            /\ IsFiniteSet({}) /\ Cardinality({}) <= MaxTransactions
  <2>1. CASE Set(s, [sync[s] EXCEPT !.pc = "failed"])
    BY <1>0, <2>1 DEF Set, SyncStates, SyncPcs
  <2>2. CASE \E pc \in {"mark", "next", "done"} : Rest(s, pc)
    BY <1>0, <2>2, RestTyped DEF SyncPcs
  <2> QED
    BY <1>4, <2>1, <2>2
<1>6. TypeOK'
  BY <1>0, <1>1, <1>3, <1>5 DEF TypeOK, SyncStates, SyncPcs, Consents, peopleVars
<1>7. SyncRight(s)'
  BY <1>0, <1>2, <1>5 DEF SyncRight, Batch, Begun, OnPage, Fetched, Kept
<1> QED
  BY <1>0, <1>6, <1>7, OthersRest DEF Typed

LEMMA MarkInternalTyped ==
  ASSUME Typed, NEW s \in Syncs, MarkInternal(s)
  PROVE  Typed'
<1>0. /\ TypeOK /\ SyncRight(s) /\ SyncStep(s)
      /\ sync[s] \in SyncStates /\ sync \in [Syncs -> SyncStates]
  BY DEF Typed, SyncStep, TypeOK, SyncStates, SyncPcs
<1>1. /\ UNCHANGED <<peopleVars, newest, stored, consent>> /\ failures' \in [AllFaults -> Nat]
      /\ internal' \subseteq stored'
  BY <1>0, OthersRest DEF MarkInternal, TypeOK
<1>2. /\ sync' \in [Syncs -> SyncStates]
      /\ sync'[s].got = {} /\ sync'[s].pc = "done"
      /\ IsFiniteSet({}) /\ Cardinality({}) <= MaxTransactions
  BY <1>0, RestTyped DEF MarkInternal, SyncPcs
<1>3. TypeOK'
  BY <1>0, <1>1, <1>2 DEF TypeOK, SyncStates, SyncPcs, peopleVars
<1>4. SyncRight(s)'
  BY <1>0, <1>2 DEF SyncRight, Batch, Begun, OnPage, Fetched, Kept
<1> QED
  BY <1>0, <1>3, <1>4, OthersRest DEF Typed

\* Steps that leave the syncs alone.
LEMMA SyncsRest ==
  ASSUME Typed, TypeOK', UNCHANGED <<sync, stored>>,
         UNCHANGED newest \/ \E u \in Users : MakeTransaction(u),
         UNCHANGED failures \/ \E f \in AllFaults : Fault(f)
  PROVE  Typed'
<1>1. /\ newest \in [Users -> Nat] /\ newest' \in [Users -> Nat]
      /\ failures \in [AllFaults -> Nat] /\ "badRow" \in AllFaults
  BY DEF Typed, TypeOK, AllFaults
<1>2. \A u \in Users : newest'[u] <= newest[u]
  BY <1>1 DEF MakeTransaction
<1>3. failures'["badRow"] \in Nat /\ failures'["badRow"] >= failures["badRow"]
  <2>1. CASE UNCHANGED failures
    BY <1>1, <2>1
  <2>2. CASE \E f \in AllFaults : Fault(f)
    BY <1>1, <2>2, FaultTyped
  <2> QED
    BY <2>1, <2>2
<1>4. ASSUME NEW s \in Syncs PROVE SyncRight(s)'
  BY <1>1, <1>2, <1>3, RestsRight
<1> QED
  BY <1>4 DEF Typed

LEMMA MakeTransactionTyped ==
  ASSUME Typed, NEW u \in Users, MakeTransaction(u)
  PROVE  Typed'
<1>1. TypeOK /\ newest[u] \in 1..Len(Ledger[u]) /\ newest[u] > 1 /\ newest[u] \in Nat
  BY LedgerTyped DEF Typed, TypeOK, MakeTransaction
<1>2. newest[u] - 1 \in 1..Len(Ledger[u]) /\ newest[u] - 1 \in Nat
  BY <1>1, LedgerTyped
<1>3. /\ newest' \in [Users -> Nat] /\ \A w \in Users : newest'[w] \in DOMAIN Ledger[w]
      /\ UNCHANGED <<peopleVars, consent, sync, stored, internal, failures>>
  BY <1>1, <1>2, LedgerTyped DEF TypeOK, MakeTransaction
<1>4. TypeOK'
  BY <1>1, <1>3 DEF TypeOK, peopleVars
<1> QED
  BY <1>3, <1>4, SyncsRest

-----------------------------------------------------------------------------
LEMMA InitTyped == Init => Typed
<1> SUFFICES ASSUME Init PROVE Typed
  OBVIOUS
<1>1. \A u \in Users : Len(Ledger[u]) \in Nat /\ Len(Ledger[u]) \in DOMAIN Ledger[u]
  BY LedgerTyped
<1>2. /\ role \in RoleSets /\ member \in [Users -> Statuses]
      /\ apply \in [Users -> {"idle", "store"}]
      /\ removal \in [Users -> {"idle", "revoke"}]
      /\ optIn \in [Users -> {"idle", "join", "approve", "existing", "fetch", "store"}]
      /\ review \in [Reviewers -> Users \cup {NoUser}]
      /\ failures \in [AllFaults -> Nat] /\ requests \in 0..MaxRequests
      /\ stored = {} /\ internal = {} /\ raced = {}
      /\ withdrawn \in [Syncs -> SUBSET Users]
  BY CommunityAssumption DEF Init, Statuses
<1>3. consent \in [Users -> Consents]
  BY DEF Init, Consents, SyncStatuses
<1>4. sync \in [Syncs -> SyncStates]
  BY DEF Init, AtRest, SyncStates, SyncPcs
<1>5. newest \in [Users -> Nat] /\ \A u \in Users : newest[u] \in DOMAIN Ledger[u]
  BY <1>1 DEF Init
<1>6. TypeOK
  BY <1>2, <1>3, <1>4, <1>5 DEF TypeOK, Consents, SyncStates, SyncPcs
<1>7. ASSUME NEW s \in Syncs PROVE SyncRight(s)
  <2>1. sync[s].pc = "idle" /\ sync[s].got = {}
    BY DEF Init, AtRest
  <2>2. IsFiniteSet({}) /\ Cardinality({}) <= MaxTransactions
    BY FS_EmptySet, CommunityAssumption
  <2> QED
    BY <2>1, <2>2 DEF SyncRight, Batch, Begun, OnPage, Fetched, Kept
<1> QED
  BY <1>6, <1>7 DEF Typed

LEMMA NextTyped ==
  ASSUME Typed, [Next]_vars
  PROVE  Typed'
<1>0. TypeOK
  BY DEF Typed
<1>1. ASSUME NEW u \in Users, People(u) \/ \E r \in Reviewers : Review(r, u)
      PROVE  Typed'
  <2>1. CASE MakeTransaction(u)
    BY <2>1, MakeTransactionTyped
  <2>2. CASE \/ Apply(u) \/ StoreApplication(u) \/ RemoveMember(u) \/ RevokeForRemoved(u)
             \/ BeginOptIn(u) \/ JoinAdmin(u) \/ ApproveAdmin(u) \/ CheckExisting(u)
             \/ FetchBlinkUsername(u) \/ StoreConsent(u) \/ RevokeConsent(u)
             \/ \E r \in Reviewers : Review(r, u)
    <3>1. TypeOK' /\ UNCHANGED <<sync, stored, newest>>
      BY <1>0, <2>2, PeopleTyped
    <3>2. UNCHANGED failures \/ \E f \in AllFaults : Fault(f)
      BY <2>2 DEF Apply, StoreApplication, RemoveMember, RevokeForRemoved, BeginOptIn, JoinAdmin,
         ApproveAdmin, CheckExisting, FetchBlinkUsername, StoreConsent, RevokeConsent, Review, AllFaults
    <3> QED
      BY <3>1, <3>2, SyncsRest
  <2> QED
    BY <1>1, <2>1, <2>2 DEF People
<1>2. ASSUME NEW r \in Reviewers, DecideApplication(r)
      PROVE  Typed'
  <2>1. TypeOK' /\ UNCHANGED <<sync, stored, newest>>
    BY <1>0, <1>2, DecisionTyped
  <2>2. UNCHANGED failures
    BY <1>2 DEF DecideApplication
  <2> QED
    BY <2>1, <2>2, SyncsRest
<1>3. ASSUME NEW s \in Syncs, BeginSync(s) \/ SyncStep(s)
      PROVE  Typed'
  BY <1>3, BeginSyncTyped, SyncMemberTyped, FetchPageTyped, StoreTransactionsTyped, ReportTyped,
     MarkInternalTyped DEF SyncStep
<1>4. CASE UNCHANGED vars
  <2>1. TypeOK' /\ UNCHANGED <<sync, stored, newest, failures>>
    BY <1>0, <1>4 DEF vars, TypeOK
  <2> QED
    BY <2>1, SyncsRest
<1> QED
  BY <1>1, <1>2, <1>3, <1>4 DEF Next

LEMMA AlwaysTyped == Spec => []Typed
<1>1. Init => Typed
  BY InitTyped
<1>2. Typed /\ [Next]_vars => Typed'
  BY NextTyped
<1> QED
  BY <1>1, <1>2, PTL DEF Spec

\* The variables keep their types, whatever the ledgers and the faults.
THEOREM TypeCorrect == Spec => []TypeOK
<1>1. Typed => TypeOK
  BY DEF Typed
<1> QED
  BY <1>1, AlwaysTyped, PTL

\* Whoever is reported as synced has everything stored that it had done in the
\* last ninety days when its turn came, up to the maximum, for every page size,
\* ledger, number of syncs and interleaving.
THEOREM SyncCompletes == Spec => []SyncedIsComplete
<1>1. ASSUME Typed PROVE SyncedIsComplete
  <2>1. ASSUME NEW s \in Syncs, sync[s].pc = "report", ~Happened("badRow")
        PROVE  \A i \in sync[s].from..Len(Ledger[sync[s].at]) :
                 \/ <<sync[s].at, i>> \in stored
                 \/ Ledger[sync[s].at][i].old
                 \/ Cardinality(sync[s].got) = MaxTransactions
                 \/ sync[s].cut /\ i > sync[s].cursor
    BY <1>1, <2>1 DEF Typed, SyncRight, Fetched, Kept
  <2> QED
    BY <2>1 DEF SyncedIsComplete
<1> QED
  BY <1>1, AlwaysTyped, PTL

-----------------------------------------------------------------------------
(***************************************************************************)
(* Who may share.                                                          *)
(***************************************************************************)

\* A sync step changes neither who has opted in nor whose key is known.
LEMMA SyncKeepsConsents ==
  ASSUME Typed, NEW s \in Syncs, BeginSync(s) \/ SyncStep(s)
  PROVE  \A w \in Users : consent'[w].given = consent[w].given /\ consent'[w].key = consent[w].key
<1>1. sync[s].pc \in {"report", "failed"} => sync[s].at \in Users
  BY DEF Typed, SyncRight, Batch
<1>2. sync[s].count \in Nat
  BY DEF Typed, TypeOK
<1>3. \/ consent' = consent
      \/ \E u \in Users, st \in SyncStatuses, n \in Nat : SetStatus(u, st, n)
  BY <1>1, <1>2 DEF BeginSync, SyncStep, SyncMember, FetchPage, StoreTransactions, ReportSynced,
     ReportFailed, MarkInternal, SyncStatuses
<1> QED
  BY <1>3, SetStatusTyped DEF Typed

\* The leader is a member whose application nobody reviews; who is in the middle
\* of opting in was allowed to, unless it was removed or decided on meanwhile.
Leads(u) == role[u] = "leader" => member[u] = "approved" /\ \A r \in Reviewers : review[r] # u

OptsIn(u) == optIn[u] # "idle" => member[u] = "approved" \/ role[u] = "admin" \/ u \in raced

Shares(u) ==
  consent[u].given =>
    \/ member[u] = "approved" \/ role[u] = "admin"
    \/ removal[u] = "revoke"
    \/ u \in raced
    \/ Happened("dbError")

Entitled == \A u \in Users : Leads(u) /\ OptsIn(u) /\ Shares(u)

LEMMA FaultsStay ==
  ASSUME TypeOK, TypeOK', UNCHANGED failures \/ \E f \in AllFaults : Fault(f), Happened("dbError")
  PROVE  Happened("dbError")'
<1>1. "dbError" \in AllFaults /\ failures["dbError"] \in Nat /\ failures'["dbError"] \in Nat
  BY DEF TypeOK, AllFaults
<1>2. failures'["dbError"] >= failures["dbError"]
  BY <1>1, FaultTyped DEF TypeOK
<1> QED
  BY <1>1, <1>2 DEF Happened

\* Requests that only begin something, or read.
LEMMA ReadersEntitled ==
  ASSUME TypeOK, TypeOK', Entitled, NEW u \in Users,
         \/ MakeTransaction(u) \/ Apply(u) \/ BeginOptIn(u) \/ CheckExisting(u)
         \/ FetchBlinkUsername(u) \/ \E r \in Reviewers : Review(r, u)
  PROVE  Entitled'
<1>1. /\ UNCHANGED <<role, member, removal, raced, consent>>
      /\ UNCHANGED failures \/ \E f \in AllFaults : Fault(f)
  BY DEF MakeTransaction, Apply, BeginOptIn, CheckExisting, FetchBlinkUsername, Review,
         peopleVars, AllFaults
<1>2. ASSUME NEW w \in Users PROVE Leads(w)'
  <2>1. CASE UNCHANGED review
    BY <1>1, <2>1 DEF Entitled, Leads
  <2>2. CASE \E r \in Reviewers : Review(r, u)
    BY <1>1, <2>2 DEF Entitled, Leads, Review, TypeOK
  <2> QED
    BY <2>1, <2>2 DEF MakeTransaction, Apply, BeginOptIn, CheckExisting, FetchBlinkUsername, peopleVars
<1>3. ASSUME NEW w \in Users PROVE OptsIn(w)'
  <2>1. CASE UNCHANGED optIn
    BY <1>1, <2>1 DEF Entitled, OptsIn
  <2>2. CASE BeginOptIn(u)
    <3>1. MayShare(u) /\ optIn' = [optIn EXCEPT ![u] = optIn'[u]]
      BY <2>2 DEF BeginOptIn, OptInGoto, TypeOK
    <3>2. member[u] = "approved" \/ role[u] = "admin"
      BY <3>1 DEF MayShare, Entitled, Leads
    <3> QED
      BY <1>1, <3>1, <3>2 DEF Entitled, OptsIn, TypeOK
  <2>3. CASE CheckExisting(u) \/ FetchBlinkUsername(u)
    <3>1. \E pc : optIn' = [optIn EXCEPT ![u] = pc]
      BY <2>3 DEF CheckExisting, FetchBlinkUsername, OptInGoto
    <3>2. optIn[u] # "idle"
      BY <2>3 DEF CheckExisting, FetchBlinkUsername
    <3> QED
      BY <1>1, <3>1, <3>2 DEF Entitled, OptsIn, TypeOK
  <2> QED
    BY <2>1, <2>2, <2>3 DEF MakeTransaction, Apply, Review, peopleVars
<1>4. ASSUME NEW w \in Users PROVE Shares(w)'
  BY <1>1, FaultsStay DEF Entitled, Shares
<1> QED
  BY <1>2, <1>3, <1>4 DEF Entitled

\* Requests that change a membership.
LEMMA MembersEntitled ==
  ASSUME TypeOK, TypeOK', Entitled, NEW u \in Users,
         StoreApplication(u) \/ JoinAdmin(u) \/ ApproveAdmin(u) \/ RemoveMember(u)
  PROVE  Entitled'
<1>1. UNCHANGED <<role, review, consent, failures>>
  BY DEF StoreApplication, JoinAdmin, ApproveAdmin, RemoveMember
<1>2. ASSUME NEW w \in Users \ {u}
      PROVE  /\ member'[w] = member[w] /\ removal'[w] = removal[w] /\ optIn'[w] = optIn[w]
             /\ (w \in raced <=> w \in raced')
  BY <1>2 DEF StoreApplication, JoinAdmin, ApproveAdmin, RemoveMember, OptInGoto, TypeOK
<1>3. ASSUME NEW w \in Users \ {u} PROVE Leads(w)' /\ OptsIn(w)' /\ Shares(w)'
  <2>1. Leads(w) /\ OptsIn(w) /\ Shares(w)
    BY DEF Entitled
  <2> QED
    BY <1>1, <1>2, <2>1 DEF Leads, OptsIn, Shares, Happened
<1>4. Leads(u) /\ OptsIn(u) /\ Shares(u)
  BY DEF Entitled
<1>5. CASE StoreApplication(u) \/ JoinAdmin(u) \/ ApproveAdmin(u)
  <2>1. /\ member[u] = "approved" => member'[u] = "approved"
        /\ UNCHANGED <<removal, raced>>
        /\ optIn'[u] # "idle" => optIn[u] # "idle"
    BY <1>5 DEF StoreApplication, JoinAdmin, ApproveAdmin, Applied, OptInGoto, TypeOK
  <2>2. Leads(u)' /\ OptsIn(u)' /\ Shares(u)'
    BY <1>1, <1>4, <2>1 DEF Leads, OptsIn, Shares, Happened
  <2> QED
    BY <1>3, <2>2 DEF Entitled
<1>6. CASE RemoveMember(u)
  <2>1. /\ role[u] # "leader" /\ removal'[u] = "revoke" /\ optIn' = optIn
        /\ optIn[u] # "idle" => u \in raced'
    BY <1>6 DEF RemoveMember, TypeOK
  <2>2. Leads(u)' /\ OptsIn(u)' /\ Shares(u)'
    BY <1>1, <2>1 DEF Leads, OptsIn, Shares
  <2> QED
    BY <1>3, <2>2 DEF Entitled
<1> QED
  BY <1>5, <1>6

\* Requests that change a consent.
LEMMA ConsentsEntitled ==
  ASSUME TypeOK, TypeOK', Entitled, NEW u \in Users,
         StoreConsent(u) \/ RevokeConsent(u) \/ RevokeForRemoved(u)
  PROVE  Entitled'
<1>1. /\ UNCHANGED <<role, review, member, raced>>
      /\ UNCHANGED failures \/ \E f \in AllFaults : Fault(f)
  BY DEF StoreConsent, RevokeConsent, RevokeForRemoved, AllFaults
<1>2. ASSUME NEW w \in Users PROVE Leads(w)' /\ OptsIn(w)'
  <2>1. optIn'[w] = optIn[w] \/ optIn'[w] = "idle"
    <3>1. optIn' = optIn \/ optIn' = [optIn EXCEPT ![u] = "idle"]
      BY DEF StoreConsent, RevokeConsent, RevokeForRemoved, OptInGoto
    <3> QED
      BY <3>1 DEF TypeOK
  <2> QED
    BY <1>1, <2>1 DEF Entitled, Leads, OptsIn
<1>3. ASSUME NEW w \in Users \ {u} PROVE Shares(w)'
  <2>1. consent'[w] = consent[w]
    <3>1. consent' = consent \/ \E c : consent' = [consent EXCEPT ![u] = c]
      BY DEF StoreConsent, RevokeConsent, RevokeForRemoved, WithdrawConsent
    <3> QED
      BY <1>3, <3>1 DEF TypeOK
  <2>2. removal'[w] = removal[w]
    <3>1. removal' = removal \/ removal' = [removal EXCEPT ![u] = "idle"]
      BY DEF StoreConsent, RevokeConsent, RevokeForRemoved
    <3> QED
      BY <1>3, <3>1 DEF TypeOK
  <2> QED
    BY <1>1, <2>1, <2>2, FaultsStay DEF Entitled, Shares
<1>4. Shares(u)'
  <2>1. CASE StoreConsent(u)
    BY <1>1, <2>1 DEF Entitled, OptsIn, Shares, StoreConsent
  <2>2. CASE RevokeConsent(u)
    BY <2>2 DEF Shares, RevokeConsent, Upsert, TypeOK
  <2>3. CASE RevokeForRemoved(u)
    <3>1. CASE WithdrawConsent(u)
      BY <3>1 DEF Shares, WithdrawConsent, TypeOK
    <3>2. CASE Fault("dbError")
      <4>1. failures'["dbError"] = failures["dbError"] + 1 /\ failures["dbError"] \in Nat
        BY <3>2, FaultTyped DEF TypeOK, AllFaults
      <4> QED
        BY <4>1 DEF Shares, Happened
    <3> QED
      BY <2>3, <3>1, <3>2 DEF RevokeForRemoved
  <2> QED
    BY <2>1, <2>2, <2>3
<1> QED
  BY <1>2, <1>3, <1>4 DEF Entitled

LEMMA DecisionEntitled ==
  ASSUME TypeOK, TypeOK', Entitled, NEW r \in Reviewers, DecideApplication(r)
  PROVE  Entitled'
<1>1. PICK u \in Users, decision \in {"approved", "rejected"} :
        /\ review[r] = u
        /\ member' = [member EXCEPT ![u] = decision]
        /\ review' = [review EXCEPT ![r] = NoUser]
        /\ raced' = IF member[u] = "pending" THEN raced ELSE raced \cup {u}
        /\ UNCHANGED <<role, optIn, removal, consent, failures>>
  BY DEF DecideApplication
<1>2. ASSUME NEW w \in Users PROVE Leads(w)' /\ OptsIn(w)' /\ Shares(w)'
  <2>1. Leads(w) /\ OptsIn(w) /\ Shares(w)
    BY DEF Entitled
  <2>2. CASE w # u
    <3>1. member'[w] = member[w] /\ (w \in raced' <=> w \in raced)
      BY <1>1, <2>2 DEF TypeOK
    <3>2. \A x \in Reviewers : review'[x] = review[x] \/ review'[x] = NoUser
      BY <1>1 DEF TypeOK
    <3>3. w # NoUser
      BY CommunityAssumption
    <3> QED
      BY <1>1, <2>1, <3>1, <3>2, <3>3 DEF Leads, OptsIn, Shares, Happened
  <2>3. CASE w = u
    <3>1. role[w] # "leader" /\ role' = role
      BY <1>1, <2>1, <2>3 DEF Leads
    <3>2. CASE member[u] = "pending"
      BY <1>1, <2>1, <2>3, <3>1, <3>2 DEF Leads, OptsIn, Shares, Happened
    <3>3. CASE member[u] # "pending"
      <4>1. w \in raced'
        BY <1>1, <2>3, <3>3
      <4> QED
        BY <3>1, <4>1 DEF Leads, OptsIn, Shares
    <3> QED
      BY <3>2, <3>3
  <2> QED
    BY <2>2, <2>3
<1> QED
  BY <1>2 DEF Entitled

LEMMA NextEntitled ==
  ASSUME Typed, Typed', Entitled, [Next]_vars
  PROVE  Entitled'
<1>0. TypeOK /\ TypeOK'
  BY DEF Typed
<1>1. ASSUME NEW u \in Users, People(u) \/ \E r \in Reviewers : Review(r, u)
      PROVE  Entitled'
  BY <1>0, <1>1, ReadersEntitled, MembersEntitled, ConsentsEntitled DEF People
<1>2. ASSUME NEW r \in Reviewers, DecideApplication(r)
      PROVE  Entitled'
  BY <1>0, <1>2, DecisionEntitled
<1>3. ASSUME NEW s \in Syncs, BeginSync(s) \/ SyncStep(s)
      PROVE  Entitled'
  <2>1. UNCHANGED peopleVars
    BY <1>3, OthersRest
  <2>2. \A w \in Users : consent'[w].given = consent[w].given
    BY <1>3, SyncKeepsConsents
  <2>3. UNCHANGED failures \/ \E f \in AllFaults : Fault(f)
    BY <1>3 DEF BeginSync, SyncStep, SyncMember, FetchPage, StoreTransactions, ReportSynced,
       ReportFailed, MarkInternal, AllFaults
  <2>4. Happened("dbError") => Happened("dbError")'
    BY <1>0, <2>3, FaultsStay
  <2> QED
    BY <2>1, <2>2, <2>4 DEF Entitled, Leads, OptsIn, Shares, peopleVars
<1>4. CASE UNCHANGED vars
  BY <1>4 DEF vars, Entitled, Leads, OptsIn, Shares, Happened
<1> QED
  BY <1>1, <1>2, <1>3, <1>4 DEF Next

\* Nobody shares data without being a member but for the cases that
\* SharersAreMembers names, for any number of users, reviewers and syncs.
THEOREM OnlyMembersShare == Spec => []SharersAreMembers
<1>1. Init => Entitled
  BY CommunityAssumption DEF Init, Entitled, Leads, OptsIn, Shares
<1>2. Typed /\ Typed' /\ Entitled /\ [Next]_vars => Entitled'
  BY NextEntitled
<1>3. Entitled => SharersAreMembers
  BY DEF Entitled, Shares, SharersAreMembers
<1> QED
  BY <1>1, <1>2, <1>3, AlwaysTyped, PTL DEF Spec

-----------------------------------------------------------------------------
(***************************************************************************)
(* Names, removals and consents.                                           *)
(***************************************************************************)

\* What is stored is of the ledgers, and recent.
StoredRight ==
  \A t \in stored : t[1] \in Users /\ t[2] \in 1..Len(Ledger[t[1]]) /\ ~Ledger[t[1]][t[2]].old

LEMMA AlwaysStoredRight == Spec => []StoredRight
<1>1. Init => StoredRight
  BY DEF Init, StoredRight
<1>2. ASSUME Typed, StoredRight, [Next]_vars PROVE StoredRight'
  <2>1. ASSUME NEW s \in Syncs, StoreTransactions(s), NEW t \in stored', t \notin stored
        PROVE  t[1] \in Users /\ t[2] \in 1..Len(Ledger[t[1]]) /\ ~Ledger[t[1]][t[2]].old
    <3>1. t \in {sync[s].at} \X sync[s].got /\ sync[s].pc = "store"
      <4>1. sync[s].pc = "store" /\ (UNCHANGED stored \/ \E skipped :
              stored' = stored \cup ({sync[s].at} \X (sync[s].got \ skipped)))
        BY <2>1 DEF StoreTransactions
      <4> QED
        BY <2>1, <4>1
    <3> DEFINE got == sync[s].got
               at == sync[s].at
    <3>2. at \in Users /\ \A i \in got : i \in 1..Len(Ledger[at]) /\ ~Ledger[at][i].old
      BY <1>2, <3>1 DEF Typed, SyncRight, Batch, Begun
    <3>3. t \in {at} \X got
      BY <3>1
    <3> HIDE DEF got, at
    <3>4. t[1] = at /\ t[2] \in got
      BY <3>3
    <3> QED
      BY <3>2, <3>4
  <2>2. stored' = stored \/ \E s \in Syncs : StoreTransactions(s)
    BY <1>2 DEF Next, vars, People, MakeTransaction, Apply, StoreApplication, RemoveMember,
         RevokeForRemoved, BeginOptIn, JoinAdmin, ApproveAdmin, CheckExisting, FetchBlinkUsername,
         StoreConsent, RevokeConsent, Review, DecideApplication, BeginSync, SyncStep, SyncMember,
         FetchPage, ReportSynced, ReportFailed, MarkInternal
  <2> QED
    BY <1>2, <2>1, <2>2 DEF StoredRight
<1> QED
  BY <1>1, <1>2, AlwaysTyped, PTL DEF Spec

\* Nothing that is older than the cutoff is copied, however long the ledgers.
THEOREM NothingOldIsCopied == Spec => []OldIsLeftAlone
<1>1. StoredRight => OldIsLeftAlone
  BY DEF StoredRight, OldIsLeftAlone
<1> QED
  BY <1>1, AlwaysStoredRight, PTL

\* A sync lists those who have opted in, and whoever withdraws afterwards is
\* known to it.
Listed ==
  \A s \in Syncs, u \in Users : OnList(s, u) => consent[u].given \/ u \in withdrawn[s]

LEMMA PeopleStayListed ==
  ASSUME Typed, Listed, NEW w \in Users, People(w) \/ \E r \in Reviewers : Review(r, w)
  PROVE  Listed'
<1>0. TypeOK
  BY DEF Typed
<1>1. sync' = sync
  BY DEF People, MakeTransaction, Apply, StoreApplication, RemoveMember, RevokeForRemoved,
         BeginOptIn, JoinAdmin, ApproveAdmin, CheckExisting, FetchBlinkUsername, StoreConsent,
         RevokeConsent, Review
<1>2. \/ UNCHANGED <<consent, withdrawn>>
      \/ WithdrawConsent(w) /\ Withdrawn(w)
      \/ consent' = [consent EXCEPT ![w] = Upsert(@, FALSE)] /\ Withdrawn(w)
      \/ consent' = [consent EXCEPT ![w] = Upsert(@, TRUE)] /\ withdrawn' = withdrawn
  BY DEF People, MakeTransaction, Apply, StoreApplication, RemoveMember, RevokeForRemoved,
         BeginOptIn, JoinAdmin, ApproveAdmin, CheckExisting, FetchBlinkUsername, StoreConsent,
         RevokeConsent, Review, peopleVars
<1>3. ASSUME NEW s \in Syncs, NEW u \in Users, OnList(s, u)
      PROVE  consent'[u].given \/ u \in withdrawn'[s]
  <2>1. consent[u].given \/ u \in withdrawn[s]
    BY <1>3 DEF Listed
  <2>2. CASE UNCHANGED <<consent, withdrawn>>
    BY <2>1, <2>2
  <2>3. CASE (WithdrawConsent(w) \/ consent' = [consent EXCEPT ![w] = Upsert(@, FALSE)]) /\ Withdrawn(w)
    <3>1. u \in withdrawn[s] => u \in withdrawn'[s]
      BY <1>0, <2>3 DEF Withdrawn, TypeOK
    <3>2. u = w => u \in withdrawn'[s]
      BY <1>0, <1>3, <2>3 DEF Withdrawn, TypeOK
    <3>3. u # w => consent'[u] = consent[u]
      BY <1>0, <2>3 DEF WithdrawConsent, TypeOK
    <3> QED
      BY <2>1, <3>1, <3>2, <3>3
  <2>4. CASE consent' = [consent EXCEPT ![w] = Upsert(@, TRUE)] /\ withdrawn' = withdrawn
    BY <1>0, <2>1, <2>4 DEF Upsert, TypeOK
  <2> QED
    BY <1>2, <2>2, <2>3, <2>4
<1> QED
  BY <1>1, <1>3 DEF Listed, OnList

LEMMA SyncsStayListed ==
  ASSUME Typed, Listed, NEW s \in Syncs, BeginSync(s) \/ SyncStep(s)
  PROVE  Listed'
<1>0. TypeOK /\ withdrawn' = withdrawn
  BY OthersRest DEF Typed, peopleVars
<1>1. \A u \in Users : consent'[u].given = consent[u].given
  BY SyncKeepsConsents
<1>2. \A x \in Syncs : x # s => sync'[x] = sync[x]
  BY <1>0 DEF BeginSync, SyncStep, SyncMember, FetchPage, StoreTransactions, ReportSynced,
     ReportFailed, MarkInternal, Rest, Set, TypeOK
<1>9. sync \in [Syncs -> SyncStates]
  BY <1>0 DEF TypeOK, SyncStates, SyncPcs
<1>3. ASSUME NEW u \in Users, OnList(s, u)' PROVE OnList(s, u) \/ consent[u].given
  <2>1. CASE BeginSync(s)
    <3>1. sync'[s].pc \in {"done", "next"} /\ sync'[s].todo = {x \in Users : HasConsent(x)}
      BY <1>0, <2>1 DEF BeginSync, Set, TypeOK
    <3> QED
      BY <1>3, <3>1 DEF OnList, HasConsent
  <2>2. CASE \E x \in Users : SyncMember(s, x)
    <3>1. PICK x \in Users : SyncMember(s, x)
      BY <2>2
    <3>2. x \in sync[s].todo /\ sync[s].pc = "next"
      BY <3>1 DEF SyncMember
    <3>3. CASE Rest(s, "done")
      <4>1. sync'[s].todo = sync[s].todo /\ sync'[s].pc = "done"
        BY <1>0, <3>3, RestTyped DEF SyncPcs
      <4> QED
        BY <1>3, <4>1 DEF OnList
    <3>4. CASE Set(s, [sync[s] EXCEPT !.pc = "page", !.todo = @ \ {x}, !.at = x,
                                      !.from = newest[x], !.cursor = 0, !.got = {}, !.count = 0,
                                      !.cut = FALSE])
      <4>1. sync'[s].todo = sync[s].todo \ {x} /\ sync'[s].at = x
        BY <1>9, <3>4 DEF Set, SyncStates
      <4> QED
        BY <1>3, <3>2, <4>1 DEF OnList
    <3> QED
      BY <3>1, <3>3, <3>4 DEF SyncMember
  <2>3. CASE FetchPage(s)
    <3>1. \/ \E pc, got, cursor : Set(s, [sync[s] EXCEPT !.got = got, !.cursor = cursor, !.pc = pc])
          \/ \E pc : Set(s, [sync[s] EXCEPT !.pc = pc, !.cut = TRUE])
          \/ \E pc, got, cursor : Set(s, [sync[s] EXCEPT !.pc = pc, !.got = got,
                                                         !.cursor = cursor, !.cut = TRUE])
          \/ Set(s, [sync[s] EXCEPT !.pc = "failed"])
      BY <2>3 DEF FetchPage
    <3>2. sync'[s].todo = sync[s].todo /\ sync'[s].at = sync[s].at /\ sync[s].pc = "page"
      <4>1. sync[s].pc = "page"
        BY <2>3 DEF FetchPage
      <4> QED
        BY <1>9, <3>1, <4>1 DEF Set, SyncStates
    <3> QED
      BY <1>3, <3>2 DEF OnList
  <2>4. CASE StoreTransactions(s)
    <3>1. \/ \E count : Set(s, [sync[s] EXCEPT !.pc = "report", !.count = count])
          \/ Set(s, [sync[s] EXCEPT !.pc = "failed"])
      BY <2>4 DEF StoreTransactions
    <3>2. sync'[s].todo = sync[s].todo /\ sync'[s].pc \in {"report", "failed"}
      BY <1>9, <3>1 DEF Set, SyncStates
    <3> QED
      BY <1>3, <3>2 DEF OnList
  <2>5. CASE ReportSynced(s) \/ ReportFailed(s)
    <3>1. sync'[s].todo = sync[s].todo /\ sync'[s].pc \notin {"page", "store"}
      <4>1. \/ Set(s, [sync[s] EXCEPT !.pc = "failed"])
            \/ \E pc \in {"mark", "next", "done"} : Rest(s, pc)
        BY <2>5 DEF ReportSynced, ReportFailed, AfterMember
      <4>2. CASE Set(s, [sync[s] EXCEPT !.pc = "failed"])
        BY <1>9, <4>2 DEF Set, SyncStates
      <4>3. CASE \E pc \in {"mark", "next", "done"} : Rest(s, pc)
        BY <1>0, <4>3, RestTyped DEF SyncPcs
      <4> QED
        BY <4>1, <4>2, <4>3
    <3> QED
      BY <1>3, <3>1 DEF OnList
  <2>6. CASE MarkInternal(s)
    <3>1. sync'[s].todo = sync[s].todo /\ sync'[s].pc = "done"
      BY <1>0, <2>6, RestTyped DEF MarkInternal, SyncPcs
    <3> QED
      BY <1>3, <3>1 DEF OnList
  <2> QED
    BY <2>1, <2>2, <2>3, <2>4, <2>5, <2>6 DEF SyncStep
<1> QED
  <2> SUFFICES ASSUME NEW x \in Syncs, NEW u \in Users, OnList(x, u)'
               PROVE  consent'[u].given \/ u \in withdrawn'[x]
    BY DEF Listed
  <2>1. CASE x = s
    BY <1>0, <1>1, <1>3, <2>1 DEF Listed
  <2>2. CASE x # s
    <3>1. OnList(x, u)
      BY <1>2, <2>2 DEF OnList
    <3> QED
      BY <1>0, <1>1, <3>1 DEF Listed
  <2> QED
    BY <2>1, <2>2

\* Whoever is being copied has opted in, or withdrew under a sync that had
\* begun, for any number of users and syncs and under every fault: the key that
\* a revocation leaves behind is used by nobody.
THEOREM RevokedIsLeftAlone == Spec => []RevokedIsNotCopied
<1>1. Init => Listed
  BY DEF Init, AtRest, Listed, OnList, CommunityAssumption
<1>2. ASSUME Typed, Listed, [Next]_vars PROVE Listed'
  <2>1. CASE \E r \in Reviewers : DecideApplication(r)
    BY <1>2, <2>1 DEF DecideApplication, Listed, OnList
  <2>2. CASE UNCHANGED vars
    BY <1>2, <2>2 DEF vars, Listed, OnList
  <2> QED
    BY <1>2, <2>1, <2>2, PeopleStayListed, SyncsStayListed DEF Next
<1>3. ASSUME Typed, Listed PROVE RevokedIsNotCopied
  BY <1>3 DEF RevokedIsNotCopied, Listed, OnList, Typed, SyncRight, Batch
<1> QED
  BY <1>1, <1>2, <1>3, AlwaysTyped, PTL DEF Spec

\* Only a review that had begun, or the automatic approval of a super admin,
\* brings a removed member back, for any number of users and reviewers.
THEOREM RemovalIsFinal == Spec => RemovedStaysRemoved
<1> DEFINE Final == \A u \in Users : member[u] = "removed" /\ member'[u] # "removed" =>
                      optIn[u] = "approve" \/ \E r \in Reviewers : review[r] = u
<1>1. ASSUME TypeOK, [Next]_vars PROVE Final
  <2>1. ASSUME NEW u \in Users, member[u] = "removed",
               optIn[u] # "approve", \A r \in Reviewers : review[r] # u,
               NEW w \in Users, People(w) \/ \E r \in Reviewers : Review(r, w)
        PROVE  member'[u] = "removed"
    <3>1. \/ member' = member
          \/ member' = [member EXCEPT ![w] = Applied(@)]
          \/ member' = [member EXCEPT ![w] = "removed"]
          \/ ApproveAdmin(w)
      BY <2>1 DEF People, MakeTransaction, Apply, StoreApplication, RemoveMember, RevokeForRemoved,
         BeginOptIn, JoinAdmin, ApproveAdmin, CheckExisting, FetchBlinkUsername, StoreConsent,
         RevokeConsent, Review, peopleVars
    <3>2. CASE ApproveAdmin(w)
      <4>1. w # u
        BY <2>1, <3>2 DEF ApproveAdmin
      <4> QED
        BY <1>1, <2>1, <3>2, <4>1 DEF ApproveAdmin, TypeOK
    <3> QED
      BY <1>1, <2>1, <3>1, <3>2 DEF TypeOK, Applied
  <2>2. ASSUME NEW u \in Users, member[u] = "removed",
               \A r \in Reviewers : review[r] # u,
               NEW r \in Reviewers, DecideApplication(r)
        PROVE  member'[u] = "removed"
    BY <1>1, <2>2 DEF DecideApplication, TypeOK
  <2>3. ASSUME NEW s \in Syncs, BeginSync(s) \/ SyncStep(s)
        PROVE  member' = member
    BY <2>3 DEF BeginSync, SyncStep, SyncMember, FetchPage, StoreTransactions, ReportSynced,
       ReportFailed, MarkInternal, peopleVars
  <2> QED
    BY <1>1, <2>1, <2>2, <2>3 DEF Next, vars
<1>2. TypeOK /\ [Next]_vars => [Final]_vars
  BY <1>1
<1> QED
  BY <1>2, TypeCorrect, PTL DEF Spec, RemovedStaysRemoved

\* A sync never turns a consent back on that was withdrawn while it ran, for
\* any number of users and syncs.
THEOREM WithdrawnStays == Spec => SyncNeverOptsIn
<1> DEFINE Out == \A u \in Users : ~consent[u].given /\ consent'[u].given => optIn[u] = "store"
<1>1. ASSUME Typed, [Next]_vars PROVE Out
  <2>0. TypeOK
    BY <1>1 DEF Typed
  <2>1. ASSUME NEW u \in Users, ~consent[u].given, consent'[u].given,
               NEW w \in Users, People(w) \/ \E r \in Reviewers : Review(r, w)
        PROVE  optIn[u] = "store"
    <3>1. \/ consent' = consent
          \/ WithdrawConsent(w)
          \/ consent' = [consent EXCEPT ![w] = Upsert(@, FALSE)]
          \/ StoreConsent(w)
      BY <2>1 DEF People, MakeTransaction, Apply, StoreApplication, RemoveMember, RevokeForRemoved,
         BeginOptIn, JoinAdmin, ApproveAdmin, CheckExisting, FetchBlinkUsername, RevokeConsent, Review
    <3>2. CASE WithdrawConsent(w)
      BY <2>0, <2>1, <3>2 DEF WithdrawConsent, TypeOK
    <3>3. CASE consent' = [consent EXCEPT ![w] = Upsert(@, FALSE)]
      BY <2>0, <2>1, <3>3 DEF Upsert, TypeOK
    <3>4. CASE StoreConsent(w)
      BY <2>0, <2>1, <3>4 DEF StoreConsent, TypeOK
    <3> QED
      BY <2>1, <3>1, <3>2, <3>3, <3>4
  <2>2. ASSUME NEW s \in Syncs, BeginSync(s) \/ SyncStep(s), NEW u \in Users
        PROVE  consent'[u].given = consent[u].given
    BY <1>1, <2>2, SyncKeepsConsents
  <2> QED
    BY <1>1, <2>1, <2>2 DEF Next, vars, DecideApplication
<1>2. Typed /\ [Next]_vars => [Out]_vars
  BY <1>1
<1> QED
  BY <1>2, AlwaysTyped, PTL DEF Spec, SyncNeverOptsIn
-----------------------------------------------------------------------------
(***************************************************************************)
(* Sums over a finite set.  SumFunctionOnSet takes the elements one by one *)
(* in the order CHOOSE gives; a set with a property that no proper subset  *)
(* of it has stands in for the induction.                                  *)
(***************************************************************************)
Pick(s) == CHOOSE x \in s : TRUE

\* g is the sum of f on the subsets of S.
Adder(f, S, g) ==
  g = [s \in SUBSET S |-> IF s = {} THEN 0 ELSE f[Pick(s)] + g[s \ {Pick(s)}]]

SumOver(f, S) == (CHOOSE g : Adder(f, S, g))[S]

LEMMA LeastSet ==
  ASSUME NEW S, IsFiniteSet(S), NEW C \in SUBSET (SUBSET S), C # {}
  PROVE  \E s \in C : \A t \in C : t \subseteq s => t = s
<1>1. C \subseteq FiniteSubsetsOf(S)
  BY FS_FiniteSubsetsOfFinite
<1>2. PICK s \in C : \A t \in C : ~(<<t, s>> \in StrictSubsetOrdering(S))
  BY <1>1, FS_StrictSubsetOrderingWellFounded, WFMin
<1>3. \A t \in C : ~(t \subseteq s /\ t # s)
  BY <1>2 DEF StrictSubsetOrdering
<1> QED
  BY <1>3

LEMMA AdderAt ==
  ASSUME NEW f, NEW S, NEW g, Adder(f, S, g), NEW s \in SUBSET S
  PROVE  g[s] = IF s = {} THEN 0 ELSE f[Pick(s)] + g[s \ {Pick(s)}]
<1> DEFINE Value(t) == IF t = {} THEN 0 ELSE f[Pick(t)] + g[t \ {Pick(t)}]
<1>1. g = [t \in SUBSET S |-> Value(t)]
  BY DEF Adder
<1> HIDE DEF Value
<1>2. g[s] = Value(s)
  BY <1>1
<1> QED
  BY <1>2 DEF Value

LEMMA Picked == ASSUME NEW s, s # {} PROVE Pick(s) \in s
BY DEF Pick

LEMMA AdderUnique ==
  ASSUME NEW S, IsFiniteSet(S), NEW R \in SUBSET S, NEW f, NEW g, NEW h,
         Adder(f, S, g), Adder(f, R, h)
  PROVE  \A s \in SUBSET R : g[s] = h[s]
<1> DEFINE C == {s \in SUBSET R : g[s] # h[s]}
<1> SUFFICES ASSUME C # {} PROVE FALSE
  OBVIOUS
<1>1. C \in SUBSET (SUBSET S)
  OBVIOUS
<1>2. PICK s \in C : \A t \in C : t \subseteq s => t = s
  <2> HIDE DEF C
  <2> QED
    BY <1>1, LeastSet
<1>3. s \in SUBSET S /\ s \in SUBSET R
  OBVIOUS
<1>4. s # {}
  BY <1>3, AdderAt
<1>5. Pick(s) \in s /\ s \ {Pick(s)} \in SUBSET R /\ s \ {Pick(s)} \notin C
  BY <1>2, <1>3, <1>4, Picked
<1>6. g[s] = f[Pick(s)] + g[s \ {Pick(s)}] /\ h[s] = f[Pick(s)] + h[s \ {Pick(s)}]
  BY <1>3, <1>4, AdderAt
<1>7. g[s \ {Pick(s)}] = h[s \ {Pick(s)}]
  BY <1>5
<1> QED
  BY <1>6, <1>7

LEMMA AdderExists ==
  ASSUME NEW S, IsFiniteSet(S), NEW f
  PROVE  \E g : Adder(f, S, g)
<1> DEFINE C == {R \in SUBSET S : ~\E g : Adder(f, R, g)}
<1> SUFFICES ASSUME C # {} PROVE FALSE
  OBVIOUS
<1>1. PICK R \in C : \A t \in C : t \subseteq R => t = R
  <2>1. C \in SUBSET (SUBSET S)
    OBVIOUS
  <2> HIDE DEF C
  <2> QED
    BY <2>1, LeastSet
<1>2. R \in SUBSET S /\ ~\E g : Adder(f, R, g)
  OBVIOUS
<1>3. \A t \in SUBSET R : t # R => \E g : Adder(f, t, g)
  BY <1>1, <1>2
<1> HIDE DEF C
<1> DEFINE H(t) == CHOOSE g : Adder(f, t, g)
<1>4. \A t \in SUBSET R : t # R => Adder(f, t, H(t))
  BY <1>3
<1> HIDE DEF H
<1>5. \A t \in SUBSET R : t # {} => Pick(t) \in t
  BY Picked
<1>6. \A t \in SUBSET R : t # R =>
        H(t)[t] = IF t = {} THEN 0 ELSE f[Pick(t)] + H(t \ {Pick(t)})[t \ {Pick(t)}]
  <2> SUFFICES ASSUME NEW t \in SUBSET R, t # R
               PROVE  H(t)[t] = IF t = {} THEN 0
                                ELSE f[Pick(t)] + H(t \ {Pick(t)})[t \ {Pick(t)}]
    OBVIOUS
  <2>1. Adder(f, t, H(t)) /\ t \in SUBSET t
    BY <1>4
  <2>2. H(t)[t] = IF t = {} THEN 0 ELSE f[Pick(t)] + H(t)[t \ {Pick(t)}]
    BY <2>1, AdderAt
  <2>3. ASSUME t # {} PROVE H(t)[t \ {Pick(t)}] = H(t \ {Pick(t)})[t \ {Pick(t)}]
    <3> DEFINE u == t \ {Pick(t)}
    <3>1. u \in SUBSET t /\ u \in SUBSET R /\ u # R /\ u \in SUBSET u
      BY <1>5, <2>3
    <3> HIDE DEF u
    <3>2. IsFiniteSet(t)
      BY <1>2, FS_Subset
    <3>3. \A s \in SUBSET u : H(t)[s] = H(u)[s]
      BY <1>4, <2>1, <3>1, <3>2, AdderUnique
    <3>4. H(t)[u] = H(u)[u]
      BY <3>1, <3>3
    <3> QED
      BY <3>4 DEF u
  <2> QED
    BY <2>2, <2>3
<1> DEFINE V(t) == H(t)[t]
           W(t) == IF t = R /\ t # {} THEN f[Pick(R)] + V(R \ {Pick(R)}) ELSE V(t)
           k == [t \in SUBSET R |-> W(t)]
<1>7. R # {}
  <2> SUFFICES ASSUME R = {} PROVE FALSE
    OBVIOUS
  <2>1. Adder(f, {}, [t \in SUBSET {} |-> 0])
    BY DEF Adder
  <2> QED
    BY <1>2, <2>1
<1>8. \A t \in SUBSET R : W(t) = IF t = {} THEN 0 ELSE f[Pick(t)] + k[t \ {Pick(t)}]
  <2> SUFFICES ASSUME NEW t \in SUBSET R
               PROVE  W(t) = IF t = {} THEN 0 ELSE f[Pick(t)] + k[t \ {Pick(t)}]
    OBVIOUS
  <2>1. ASSUME t = {} PROVE W(t) = 0
    BY <1>6, <1>7, <2>1
  <2>2. ASSUME t # {} PROVE k[t \ {Pick(t)}] = V(t \ {Pick(t)})
    <3>1. t \ {Pick(t)} \in SUBSET R /\ t \ {Pick(t)} # R
      BY <1>5, <2>2
    <3> QED
      BY <3>1
  <2>3. ASSUME t # {} PROVE W(t) = f[Pick(t)] + V(t \ {Pick(t)})
    <3>1. CASE t = R
      BY <3>1, <2>3
    <3>2. CASE t # R
      BY <3>2, <2>3, <1>6
    <3> QED
      BY <3>1, <3>2
  <2> QED
    BY <2>1, <2>2, <2>3
<1> HIDE DEF W
<1>9. Adder(f, R, k)
  BY <1>8 DEF Adder
<1> QED
  BY <1>2, <1>9

\* A sum of natural numbers is one, and follows the change of a single term.
LEMMA SumShifts ==
  ASSUME NEW S, IsFiniteSet(S), NEW f \in [S -> Nat], NEW h \in [S -> Nat],
         NEW x \in S, \A y \in S \ {x} : h[y] = f[y]
  PROVE  /\ SumOver(f, S) \in Nat /\ SumOver(h, S) \in Nat
         /\ SumOver(h, S) + f[x] = SumOver(f, S) + h[x]
<1>1. PICK g, k : /\ Adder(f, S, g) /\ SumOver(f, S) = g[S]
                  /\ Adder(h, S, k) /\ SumOver(h, S) = k[S]
  BY AdderExists DEF SumOver
<1> DEFINE Off(T) == IF x \in T THEN k[T] + f[x] = g[T] + h[x] ELSE k[T] = g[T]
           Right(T) == g[T] \in Nat /\ k[T] \in Nat /\ Off(T)
           C == {T \in SUBSET S : ~Right(T)}
<1>2. ASSUME NEW T \in SUBSET S, \A y \in T : Right(T \ {y})
      PROVE  Right(T)
  <2>1. CASE T = {}
    <3>1. g[T] = 0 /\ k[T] = 0
      BY <1>1, <2>1, AdderAt
    <3> QED
      BY <2>1, <3>1
  <2>2. CASE T # {}
    <3> DEFINE y == Pick(T)
    <3>1. /\ y \in T /\ g[T] = f[y] + g[T \ {y}] /\ k[T] = h[y] + k[T \ {y}]
      BY <1>1, <2>2, AdderAt, Picked
    <3> HIDE DEF y
    <3>2. /\ g[T \ {y}] \in Nat /\ k[T \ {y}] \in Nat /\ Off(T \ {y})
          /\ f[y] \in Nat /\ h[y] \in Nat /\ f[x] \in Nat /\ h[x] \in Nat
      BY <1>2, <3>1
    <3>3. CASE y = x
      BY <3>1, <3>2, <3>3
    <3>4. CASE y # x
      <4>1. h[y] = f[y] /\ (x \in T <=> x \in T \ {y})
        BY <3>1, <3>4
      <4> QED
        BY <3>1, <3>2, <4>1
    <3> QED
      BY <3>3, <3>4
  <2> QED
    BY <2>1, <2>2
<1>3. C = {}
  <2> SUFFICES ASSUME C # {} PROVE FALSE
    OBVIOUS
  <2>1. C \in SUBSET (SUBSET S)
    OBVIOUS
  <2>2. PICK T \in C : \A t \in C : t \subseteq T => t = T
    <3> HIDE DEF C
    <3> QED
      BY <2>1, LeastSet
  <2>3. T \in SUBSET S /\ ~Right(T)
    OBVIOUS
  <2>4. ASSUME NEW y \in T PROVE Right(T \ {y})
    <3>1. T \ {y} \in SUBSET S /\ T \ {y} # T /\ T \ {y} \subseteq T
      BY <2>3
    <3>2. T \ {y} \notin C
      <4> HIDE DEF C
      <4> QED
        BY <2>2, <3>1
    <3> HIDE DEF Right
    <3> QED
      BY <3>1, <3>2
  <2> HIDE DEF C, Right
  <2> QED
    BY <1>2, <2>3, <2>4
<1>4. Right(S)
  <2> HIDE DEF Right
  <2> QED
    BY <1>3
<1> QED
  BY <1>1, <1>4

-----------------------------------------------------------------------------
(***************************************************************************)
(* What is stored is counted.                                              *)
(***************************************************************************)
\* What a sync has stored for u and not yet added to its total.
Owes(u, s) == IF sync[s].at = u /\ sync[s].pc = "report" THEN sync[s].count ELSE 0

Owed(u) == [s \in Syncs |-> Owes(u, s)]

StoredOf(u) == {t \in stored : t[1] = u}

Counted(u) ==
  /\ IsFiniteSet(StoredOf(u))
  /\ \/ Cardinality(StoredOf(u)) <= consent[u].total + SumOver(Owed(u), Syncs)
     \/ Happened("dbError")

AllCounted == \A u \in Users : Counted(u)

LEMMA CountedIsStated == AllCounted => StoredIsCounted
<1>1. ASSUME NEW f
      PROVE  SumOver(f, Syncs) = SumFunctionOnSet(f, Syncs)
  BY DEF SumFunctionOnSet, FoldFunctionOnSet, MapThenFoldSet, SumOver, Adder, Pick
<1> QED
  BY <1>1 DEF AllCounted, Counted, StoredIsCounted, Owed, Owes, StoredOf

LEMMA OwedTyped ==
  ASSUME TypeOK, NEW u
  PROVE  Owed(u) \in [Syncs -> Nat] /\ \A s \in Syncs : Owes(u, s) \in Nat
BY DEF TypeOK, Owed, Owes

LEMMA OwedShifts ==
  ASSUME TypeOK, TypeOK', IsFiniteSet(Syncs), NEW u, NEW s \in Syncs, NEW c,
         sync' = [sync EXCEPT ![s] = c]
  PROVE  /\ SumOver(Owed(u), Syncs) \in Nat /\ SumOver(Owed(u), Syncs)' \in Nat
         /\ SumOver(Owed(u), Syncs)' + Owes(u, s) = SumOver(Owed(u), Syncs) + Owes(u, s)'
<1> DEFINE f == Owed(u)
           h == Owed(u)'
<1>1. f \in [Syncs -> Nat] /\ f[s] = Owes(u, s)
  BY OwedTyped DEF Owed
<1>2. h \in [Syncs -> Nat] /\ h[s] = Owes(u, s)'
  BY DEF TypeOK, Owed, Owes
<1>3. \A x \in Syncs \ {s} : h[x] = f[x]
  BY DEF TypeOK, Owed, Owes
<1>4. SumOver(Owed(u), Syncs)' = SumOver(h, Syncs)
  BY DEF SumOver, Adder, Pick
<1> HIDE DEF f, h
<1>5. /\ SumOver(f, Syncs) \in Nat /\ SumOver(h, Syncs) \in Nat
      /\ SumOver(h, Syncs) + f[s] = SumOver(f, Syncs) + h[s]
  BY <1>1, <1>2, <1>3, SumShifts
<1> QED
  BY <1>1, <1>2, <1>4, <1>5 DEF f

\* What a step that changes neither the stored rows nor the syncs has to keep.
LEMMA CountStays ==
  ASSUME TypeOK, TypeOK', AllCounted, UNCHANGED <<sync, stored>>,
         UNCHANGED failures \/ \E f \in AllFaults : Fault(f),
         \A u \in Users : consent'[u].total = consent[u].total
  PROVE  AllCounted'
<1>1. ASSUME NEW u \in Users PROVE Counted(u)'
  <2>1. Counted(u)
    BY DEF AllCounted
  <2>2. StoredOf(u)' = StoredOf(u) /\ Cardinality(StoredOf(u))' = Cardinality(StoredOf(u))
    BY DEF StoredOf
  <2>3. SumOver(Owed(u), Syncs)' = SumOver(Owed(u), Syncs)
    BY DEF SumOver, Adder, Pick, Owed, Owes
  <2>4. Happened("dbError") => Happened("dbError")'
    BY FaultsStay
  <2> QED
    BY <2>1, <2>2, <2>3, <2>4 DEF Counted
<1> QED
  BY <1>1 DEF AllCounted

\* A step of a sync counts what it adds to the stored rows of u, or a query of
\* it has failed.
Balances(u, s) ==
  /\ IsFiniteSet(StoredOf(u)')
  /\ \/ Cardinality(StoredOf(u))' + Owes(u, s) + consent[u].total
           <= Cardinality(StoredOf(u)) + Owes(u, s)' + consent'[u].total
     \/ Happened("dbError")'

LEMMA CountMoves ==
  ASSUME Typed, Typed', IsFiniteSet(Syncs), NEW s \in Syncs, BeginSync(s) \/ SyncStep(s),
         NEW u \in Users, Counted(u), Balances(u, s)
  PROVE  Counted(u)'
<1>0. TypeOK /\ TypeOK'
  BY DEF Typed
<1>1. PICK c : sync' = [sync EXCEPT ![s] = c]
  BY OthersRest
<1>2. /\ SumOver(Owed(u), Syncs) \in Nat /\ SumOver(Owed(u), Syncs)' \in Nat
      /\ SumOver(Owed(u), Syncs)' + Owes(u, s) = SumOver(Owed(u), Syncs) + Owes(u, s)'
  BY <1>0, <1>1, OwedShifts
<1>3. Cardinality(StoredOf(u)) \in Nat /\ Cardinality(StoredOf(u))' \in Nat
  BY FS_CardinalityType DEF Counted, Balances
<1>4. /\ consent[u].total \in Nat /\ consent'[u].total \in Nat
      /\ Owes(u, s) \in Nat /\ Owes(u, s)' \in Nat
  BY <1>0 DEF TypeOK, Owes
<1>5. Happened("dbError") => Happened("dbError")'
  <2>1. UNCHANGED failures \/ \E f \in AllFaults : Fault(f)
    BY DEF BeginSync, SyncStep, SyncMember, FetchPage, StoreTransactions, ReportSynced,
       ReportFailed, MarkInternal, AllFaults
  <2> QED
    BY <1>0, <2>1, FaultsStay
<1>6. ASSUME NEW a \in Nat, NEW b \in Nat, NEW t \in Nat, NEW tt \in Nat,
             NEW o \in Nat, NEW oo \in Nat, NEW m \in Nat, NEW mm \in Nat,
             a <= t + m, mm + o = m + oo, b + o + t <= a + oo + tt
      PROVE  b <= tt + mm
  BY <1>6
<1> QED
  BY <1>2, <1>3, <1>4, <1>5, <1>6 DEF Counted, Balances

LEMMA SetStatusTotals ==
  ASSUME TypeOK, NEW u \in Users, NEW st, NEW n \in Nat, SetStatus(u, st, n), NEW w \in Users
  PROVE  consent'[w].total = consent[w].total + (IF w = u THEN n ELSE 0)
<1> DEFINE total == consent[u].total + n
           c == [consent[u] EXCEPT !.status = st, !.total = total]
<1>1. consent' = [consent EXCEPT ![u] = c] /\ consent \in [Users -> Consents]
  BY DEF SetStatus, TypeOK, Consents
<1>2. consent[u] \in Consents /\ consent[w].total \in Nat
  BY <1>1 DEF Consents
<1> HIDE DEF total
<1>3. c.total = total
  BY <1>2 DEF Consents
<1> HIDE DEF c
<1>4. consent'[w] = IF w = u THEN c ELSE consent[w]
  BY <1>1
<1> QED
  BY <1>2, <1>3, <1>4 DEF total

\* The rows of a batch, and the number that is reported for them.
LEMMA StoreBalances ==
  ASSUME Typed, NEW s \in Syncs, StoreTransactions(s), NEW u \in Users, Counted(u)
  PROVE  Balances(u, s)
<1>0. TypeOK /\ SyncRight(s) /\ UNCHANGED consent /\ sync[s].pc = "store"
  BY DEF Typed, StoreTransactions
<1>1. /\ sync \in [Syncs -> SyncStates] /\ sync[s] \in SyncStates
      /\ IsFiniteSet(sync[s].got) /\ consent[u].total \in Nat
      /\ IsFiniteSet(StoredOf(u)) /\ Cardinality(StoredOf(u)) \in Nat
  BY <1>0, FS_CardinalityType DEF TypeOK, SyncStates, SyncPcs, SyncRight, Batch, Counted
<1>2. Owes(u, s) = 0
  BY <1>0 DEF Owes
<1>3. CASE stored' = stored /\ sync' = [sync EXCEPT ![s] = [sync[s] EXCEPT !.pc = "failed"]]
  <2>1. StoredOf(u)' = StoredOf(u) /\ Cardinality(StoredOf(u))' = Cardinality(StoredOf(u))
    BY <1>3 DEF StoredOf
  <2>2. Owes(u, s)' = 0
    BY <1>1, <1>3 DEF Owes, SyncStates
  <2> QED
    BY <1>0, <1>1, <1>2, <2>1, <2>2 DEF Balances
<1>4. ASSUME NEW K, K \subseteq sync[s].got,
             stored' = stored \cup ({sync[s].at} \X K),
             sync' = [sync EXCEPT ![s] = [sync[s] EXCEPT !.pc = "report",
                                                         !.count = Cardinality(K)]]
      PROVE  Balances(u, s)
  <2> DEFINE n == Cardinality(K)
             new == {u} \X K
  <2>1. IsFiniteSet(K) /\ n \in Nat
    BY <1>1, <1>4, FS_Subset, FS_CardinalityType
  <2>2. IsFiniteSet(new) /\ Cardinality(new) = n
    <3>1. IsFiniteSet({u}) /\ Cardinality({u}) = 1
      BY FS_Singleton
    <3>2. IsFiniteSet(new) /\ Cardinality(new) = Cardinality({u}) * Cardinality(K)
      BY <2>1, <3>1, FS_Product
    <3> QED
      BY <2>1, <3>1, <3>2
  <2>3. sync'[s].at = sync[s].at /\ sync'[s].pc = "report" /\ sync'[s].count = n
    <3> HIDE DEF n
    <3>1. sync' = [sync EXCEPT ![s] = [sync[s] EXCEPT !.pc = "report", !.count = n]]
      BY <1>4 DEF n
    <3> QED
      BY <1>1, <3>1 DEF SyncStates
  <2> HIDE DEF n
  <2>4. CASE sync[s].at = u
    <3>1. StoredOf(u)' = StoredOf(u) \cup new
      BY <1>4, <2>4 DEF StoredOf
    <3> HIDE DEF new
    <3> DEFINE old == StoredOf(u)
    <3>2. IsFiniteSet(old) /\ Cardinality(old) \in Nat
      BY <1>1
    <3>3. /\ StoredOf(u)' = old \cup new
          /\ Cardinality(StoredOf(u))' = Cardinality(old \cup new)
      BY <3>1
    <3> HIDE DEF old
    <3>4. /\ IsFiniteSet(old \cup new) /\ IsFiniteSet(old \cap new)
          /\ Cardinality(old \cup new) = Cardinality(old) + n - Cardinality(old \cap new)
      BY <2>2, <3>2, FS_Union, FS_Intersection
    <3>5. Cardinality(old \cap new) \in Nat /\ Cardinality(old \cup new) \in Nat
      BY <3>4, FS_CardinalityType
    <3>6. Cardinality(old \cup new) <= Cardinality(old) + n
      BY <2>1, <3>2, <3>4, <3>5
    <3>7. Owes(u, s)' = n
      BY <2>3, <2>4 DEF Owes
    <3>8. Cardinality(old) = Cardinality(StoredOf(u))
      BY DEF old
    <3> QED
      BY <1>0, <1>1, <1>2, <2>1, <3>3, <3>4, <3>5, <3>6, <3>7, <3>8 DEF Balances
  <2>5. CASE sync[s].at # u
    <3>1. StoredOf(u)' = StoredOf(u)
      BY <1>4, <2>5 DEF StoredOf
    <3>2. Cardinality(StoredOf(u))' = Cardinality(StoredOf(u))
      BY <3>1
    <3>3. Owes(u, s)' = 0
      BY <2>3, <2>5 DEF Owes
    <3> QED
      BY <1>0, <1>1, <1>2, <3>1, <3>2, <3>3 DEF Balances
  <2> QED
    BY <2>4, <2>5
<1>5. \/ stored' = stored /\ sync' = [sync EXCEPT ![s] = [sync[s] EXCEPT !.pc = "failed"]]
      \/ \E K \in SUBSET sync[s].got :
           /\ stored' = stored \cup ({sync[s].at} \X K)
           /\ sync' = [sync EXCEPT ![s] = [sync[s] EXCEPT !.pc = "report",
                                                          !.count = Cardinality(K)]]
  BY DEF StoreTransactions, Set
<1> QED
  BY <1>3, <1>4, <1>5

LEMMA ReportBalances ==
  ASSUME Typed, NEW s \in Syncs, ReportSynced(s), NEW u \in Users, Counted(u)
  PROVE  Balances(u, s)
<1>0. /\ TypeOK /\ SyncRight(s) /\ UNCHANGED stored
      /\ sync[s].pc = "report" /\ sync[s].at \in Users
  BY DEF Typed, ReportSynced, SyncRight, Batch
<1>1. /\ sync \in [Syncs -> SyncStates] /\ sync[s] \in SyncStates /\ sync[s].count \in Nat
      /\ consent[u].total \in Nat
  BY <1>0 DEF TypeOK, SyncStates, SyncPcs
<1>2. /\ StoredOf(u)' = StoredOf(u) /\ Cardinality(StoredOf(u))' = Cardinality(StoredOf(u))
      /\ IsFiniteSet(StoredOf(u)) /\ Cardinality(StoredOf(u)) \in Nat
  BY <1>0, FS_CardinalityType DEF StoredOf, Counted
<1>3. CASE /\ SetStatus(sync[s].at, "synced", sync[s].count)
           /\ Rest(s, AfterMember(s))
  <2>1. consent'[u].total = consent[u].total + (IF u = sync[s].at THEN sync[s].count ELSE 0)
    BY <1>0, <1>1, <1>3, SetStatusTotals
  <2>2. sync'[s].pc # "report"
    BY <1>0, <1>3, RestTyped DEF AfterMember, SyncPcs
  <2>3. /\ Owes(u, s) = IF u = sync[s].at THEN sync[s].count ELSE 0
        /\ Owes(u, s)' = 0
    BY <1>0, <2>2 DEF Owes
  <2> QED
    BY <1>1, <1>2, <2>1, <2>3 DEF Balances
<1>4. CASE Fault("dbError")
  <2>1. failures'["dbError"] = failures["dbError"] + 1 /\ failures["dbError"] \in Nat
    BY <1>0, <1>4, FaultTyped DEF TypeOK, AllFaults
  <2> QED
    BY <1>2, <2>1 DEF Balances, Happened
<1> QED
  BY <1>3, <1>4 DEF ReportSynced

\* The other steps of a sync neither store nor report anything.
LEMMA QuietBalances ==
  ASSUME Typed, Typed', NEW s \in Syncs,
         \/ BeginSync(s) \/ FetchPage(s) \/ ReportFailed(s) \/ MarkInternal(s)
         \/ \E w \in Users : SyncMember(s, w),
         NEW u \in Users, Counted(u)
  PROVE  Balances(u, s)
<1>0. /\ TypeOK /\ TypeOK' /\ SyncRight(s) /\ UNCHANGED stored
      /\ sync[s].pc # "report"
  BY DEF Typed, BeginSync, FetchPage, ReportFailed, MarkInternal, SyncMember
<1>1. /\ StoredOf(u)' = StoredOf(u) /\ Cardinality(StoredOf(u))' = Cardinality(StoredOf(u))
      /\ IsFiniteSet(StoredOf(u)) /\ Cardinality(StoredOf(u)) \in Nat
  BY <1>0, FS_CardinalityType DEF StoredOf, Counted
<1>2. consent[u].total \in Nat /\ consent'[u].total = consent[u].total
  <2>1. sync[s].pc = "failed" => sync[s].at \in Users
    BY <1>0 DEF SyncRight, Batch
  <2>2. \/ consent' = consent
        \/ \E w \in Users, st \in SyncStatuses : SetStatus(w, st, 0)
    BY <2>1 DEF BeginSync, FetchPage, ReportFailed, MarkInternal, SyncMember, SyncStatuses
  <2>3. consent[u].total \in Nat
    BY <1>0 DEF TypeOK
  <2>4. ASSUME NEW w \in Users, NEW st, SetStatus(w, st, 0)
        PROVE  consent'[u].total = consent[u].total
    BY <1>0, <2>3, <2>4, SetStatusTotals
  <2> QED
    BY <2>2, <2>3, <2>4
<1>3. Owes(u, s) = 0 /\ Owes(u, s)' \in Nat
  BY <1>0 DEF Owes, TypeOK
<1> QED
  BY <1>1, <1>2, <1>3 DEF Balances

LEMMA PeopleKeepTotals ==
  ASSUME TypeOK, NEW u \in Users, NEW w \in Users,
         People(u) \/ \E r \in Reviewers : Review(r, u)
  PROVE  consent'[w].total = consent[w].total
<1>1. \/ consent' = consent
      \/ WithdrawConsent(u)
      \/ \E given \in BOOLEAN : consent' = [consent EXCEPT ![u] = Upsert(@, given)]
  BY DEF People, MakeTransaction, Apply, StoreApplication, RemoveMember, RevokeForRemoved,
     BeginOptIn, JoinAdmin, ApproveAdmin, CheckExisting, FetchBlinkUsername, StoreConsent,
     RevokeConsent, Review
<1>2. CASE WithdrawConsent(u)
  BY <1>2 DEF WithdrawConsent, TypeOK
<1>3. ASSUME NEW given \in BOOLEAN, consent' = [consent EXCEPT ![u] = Upsert(@, given)]
      PROVE  consent'[w].total = consent[w].total
  BY <1>3 DEF Upsert, TypeOK
<1> QED
  BY <1>1, <1>2, <1>3

\* Every stored transaction of a member is counted in its total or about to be,
\* for any ledgers, any finite number of syncs and every fault but a query that
\* fails: a report that is lost is what the property excepts.
THEOREM StoredStaysCounted ==
  ASSUME IsFiniteSet(Syncs)
  PROVE  Spec => []StoredIsCounted
<1>1. Init => AllCounted
  <2> SUFFICES ASSUME Init, NEW u \in Users PROVE Counted(u)
    BY DEF AllCounted
  <2>1. TypeOK
    BY InitTyped DEF Typed
  <2>2. StoredOf(u) = {} /\ IsFiniteSet({}) /\ Cardinality({}) = 0
    BY FS_EmptySet DEF Init, StoredOf
  <2>3. SumOver(Owed(u), Syncs) \in Nat
    <3>1. CASE Syncs = {}
      <4>1. PICK g : Adder(Owed(u), Syncs, g) /\ SumOver(Owed(u), Syncs) = g[Syncs]
        BY AdderExists DEF SumOver
      <4> QED
        BY <3>1, <4>1, AdderAt
    <3>2. CASE Syncs # {}
      BY <2>1, <3>2, OwedTyped, SumShifts
    <3> QED
      BY <3>1, <3>2
  <2>4. consent[u].total = 0
    BY DEF Init
  <2> QED
    BY <2>2, <2>3, <2>4 DEF Counted
<1>2. ASSUME Typed, Typed', AllCounted, [Next]_vars PROVE AllCounted'
  <2>0. TypeOK /\ TypeOK'
    BY <1>2 DEF Typed
  <2>1. ASSUME NEW w \in Users, People(w) \/ \E r \in Reviewers : Review(r, w)
        PROVE  AllCounted'
    <3>1. UNCHANGED <<sync, stored>> /\ (UNCHANGED failures \/ \E f \in AllFaults : Fault(f))
      BY <2>1 DEF People, MakeTransaction, Apply, StoreApplication, RemoveMember, RevokeForRemoved,
         BeginOptIn, JoinAdmin, ApproveAdmin, CheckExisting, FetchBlinkUsername, StoreConsent,
         RevokeConsent, Review, AllFaults
    <3>2. \A u \in Users : consent'[u].total = consent[u].total
      BY <2>0, <2>1, PeopleKeepTotals
    <3> QED
      BY <1>2, <2>0, <3>1, <3>2, CountStays
  <2>2. ASSUME NEW r \in Reviewers, DecideApplication(r)
        PROVE  AllCounted'
    BY <1>2, <2>0, <2>2, CountStays DEF DecideApplication
  <2>3. ASSUME NEW s \in Syncs, BeginSync(s) \/ SyncStep(s), NEW u \in Users
        PROVE  Counted(u)'
    <3>1. Counted(u)
      BY <1>2 DEF AllCounted
    <3>2. Balances(u, s)
      BY <1>2, <2>3, <3>1, StoreBalances, ReportBalances, QuietBalances DEF SyncStep
    <3> QED
      BY <1>2, <2>3, <3>1, <3>2, CountMoves
  <2>4. CASE UNCHANGED vars
    BY <1>2, <2>0, <2>4, CountStays DEF vars
  <2> QED
    BY <1>2, <2>1, <2>2, <2>3, <2>4 DEF Next, AllCounted
<1> QED
  BY <1>1, <1>2, CountedIsStated, AlwaysTyped, PTL DEF Spec
=============================================================================
