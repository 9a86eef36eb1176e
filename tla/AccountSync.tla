----------------------------- MODULE AccountSync -----------------------------
(***************************************************************************)
(* How the wallets of one user get from device to device: the browser      *)
(* keeps a list (lib/hooks/useProfile.tsx, lib/storage/ProfileStorage.ts)  *)
(* and merges it with the one on the server, which keeps one file per user *)
(* (pages/api/user/sync.ts, lib/storage.ts).                               *)
(*                                                                         *)
(* Every await is a step: a PATCH loads the file, truncates it and writes  *)
(* it anew, a load remembers the list it started from while it waits for   *)
(* the server's.  Wallets are told apart by their id.                      *)
(***************************************************************************)
EXTENDS Naturals, FiniteSets, Functions

CONSTANTS
  Devices,        \* browsers in which the user is signed in
  Wallets,        \* the wallets that are ever connected
  KindOf,         \* the field of the file that each of them belongs to
  Requests,       \* bound on the PATCH requests under way at a time
  Faults,         \* what may go wrong
  MaxFailures,    \* bound on the number of faults in a behaviour
  NoTimer, NoData, \* no pending timer; a file that cannot be parsed, or is missing
  Nowhere         \* none of the devices

\* lost     a PATCH fails before it does anything
\* noFetch  the GET of a load fails
\* overlap  the file is read while a PATCH is between reading and writing it
\* crash    the server stops while it writes
AllFaults == {"lost", "noFetch", "overlap", "crash"}

Kinds == {"blinkLnAddressWallets", "npubCashWallets"}

ASSUME AccountSyncAssumption ==
  /\ KindOf \in [Wallets -> Kinds]
  /\ Faults \subseteq AllFaults /\ MaxFailures \in Nat
  /\ Nowhere \notin Devices

VARIABLES
  storage,   \* localStorage: the list of each device
  timer,     \* syncTimerRef: what the pending sync of each device will send
  load,      \* loadProfileData of each device: what it started from and was answered
  req,       \* PATCH requests
  file,      \* the wallets in the user's file
  home,      \* the device on which each wallet has been connected
  removed,   \* the wallets that the user has removed
  stale,     \* wallets of which an older copy was under way when that happened
  failures   \* how often each fault has happened

vars == <<storage, timer, load, req, file, home, removed, stale, failures>>

NoLoad == [pc |-> "idle", snap |-> {}, answer |-> {}]
NoRequest == [pc |-> "idle", kind |-> "npubCashWallets", data |-> {}, existing |-> {},
              mixed |-> FALSE]

TypeOK ==
  /\ storage \in [Devices -> SUBSET Wallets]
  /\ timer \in [Devices -> {NoTimer} \cup [kind: Kinds, data: SUBSET Wallets]]
  /\ load \in [Devices -> [pc: {"idle", "get", "merge"}, snap: SUBSET Wallets,
                           answer: SUBSET Wallets]]
  /\ req \in [Requests -> [pc: {"idle", "sent", "loaded", "writing"}, kind: Kinds,
                           data: SUBSET Wallets, existing: SUBSET Wallets, mixed: BOOLEAN]]
  /\ file \in {NoData} \cup SUBSET Wallets
  /\ home \in [Wallets -> Devices \cup {Nowhere}]
  /\ removed \subseteq Wallets /\ stale \subseteq Wallets
  /\ failures \in [AllFaults -> Nat]

Init ==
  /\ storage = [d \in Devices |-> {}]
  /\ timer = [d \in Devices |-> NoTimer]
  /\ load = [d \in Devices |-> NoLoad]
  /\ req = [r \in Requests |-> NoRequest]
  /\ file = NoData
  /\ home = [w \in Wallets |-> Nowhere]
  /\ removed = {} /\ stale = {}
  /\ failures = [f \in AllFaults |-> 0]

Fault(f) ==
  /\ f \in Faults
  /\ SumFunctionOnSet(failures, AllFaults) < MaxFailures
  /\ failures' = [failures EXCEPT ![f] = @ + 1]

Happened(f) == failures[f] > 0

Of(kind, wallets) == {w \in wallets : KindOf[w] = kind}

\* The wallet is connected, as far as the user is concerned.
Connected(w) == home[w] # Nowhere /\ w \notin removed

\* loadUserData(username) || {}
Content == IF file = NoData THEN {} ELSE file

Writing == \E r \in Requests : req[r].pc \in {"loaded", "writing"}

\* Reading the file next to a PATCH that has not finished.
MayRead == IF Writing THEN Fault("overlap") ELSE UNCHANGED failures

-----------------------------------------------------------------------------
(* The server: handlePatch and StorageManager.                             *)

Send(r, kind, data) ==
  /\ req[r].pc = "idle"
  /\ req' = [req EXCEPT ![r] = [pc |-> "sent", kind |-> kind, data |-> data,
                               existing |-> {}, mixed |-> FALSE]]

LoseRequest(r) ==
  /\ req[r].pc = "sent" /\ Fault("lost")
  /\ req' = [req EXCEPT ![r] = NoRequest]
  /\ UNCHANGED <<storage, timer, load, file, home, removed, stale>>

LoadUserData(r) ==
  /\ req[r].pc = "sent" /\ MayRead
  /\ req' = [req EXCEPT ![r].pc = "loaded", ![r].existing = Content \ Of(req[r].kind, Wallets)]
  /\ UNCHANGED <<storage, timer, load, file, home, removed, stale>>

\* fs.writeFile truncates the file when it opens it ...
TruncateFile(r) ==
  /\ req[r].pc = "loaded"
  /\ req' = [req EXCEPT ![r].pc = "writing"]
  /\ file' = NoData
  /\ UNCHANGED <<storage, timer, load, home, removed, stale, failures>>

\* Mutation: the file is written with the one field.
PatchedOnly(r) == req[r].data

\* { ...existingData, [field]: processedData }
Patched(r) == req[r].existing \cup req[r].data

\* ... and writes it from the start: after another writer whose text was longer
\* the end of that one remains.
WriteFile(r) ==
  /\ req[r].pc = "writing"
  /\ file' \in {Patched(r)} \cup (IF req[r].mixed THEN {NoData} ELSE {})
  /\ req' = [s \in Requests |->
               CASE s = r -> NoRequest
                 [] s # r /\ req[s].pc = "writing" -> [req[s] EXCEPT !.mixed = TRUE]
                 [] OTHER -> req[s]]
  /\ UNCHANGED <<storage, timer, load, home, removed, stale, failures>>

ServerStops(r) ==
  /\ req[r].pc = "writing" /\ Fault("crash")
  /\ req' = [s \in Requests |-> NoRequest]
  /\ UNCHANGED <<storage, timer, load, file, home, removed, stale>>

-----------------------------------------------------------------------------
(* The device: useProfile.                                                 *)

\* Copies of a wallet that were made before, and may still be written.
UnderWay(w, d) ==
  \/ \E e \in Devices : timer[e] # NoTimer /\ w \in timer[e].data
  \/ \E e \in Devices : load[e].pc # "idle" /\ w \in load[e].snap \cup load[e].answer
  \/ \E r \in Requests : req[r].pc # "idle" /\ w \in req[r].data \cup req[r].existing
  \/ \E e \in Devices \ {d} : w \in storage[e]

\* A debounced sync: each of them clears the timer of the one before, of
\* whatever kind.
SetTimer(d, kind, wallets) ==
  timer' = [timer EXCEPT ![d] = [kind |-> kind, data |-> Of(kind, wallets)]]

\* addNpubCashAccount and addBlinkLnAddressAccount.
AddWallet(d, w) ==
  /\ home[w] = Nowhere
  /\ storage' = [storage EXCEPT ![d] = @ \cup {w}]
  /\ SetTimer(d, KindOf[w], storage[d] \cup {w})
  /\ home' = [home EXCEPT ![w] = d]
  /\ stale' = IF load[d].pc # "idle" THEN stale \cup {w} ELSE stale
  /\ UNCHANGED <<load, req, file, removed, failures>>

\* Mutation: a removal is debounced like any other change.
RemovalDebounced(d, w) ==
  /\ SetTimer(d, KindOf[w], storage[d] \ {w})
  /\ UNCHANGED req

\* The immediate syncs send the list even when it is empty.
SyncRemoval(d, w) ==
  /\ \E r \in Requests : Send(r, KindOf[w], Of(KindOf[w], storage[d] \ {w}))
  /\ UNCHANGED timer

RemoveWallet(d, w) ==
  /\ w \in storage[d] \ removed
  /\ storage' = [storage EXCEPT ![d] = @ \ {w}]
  /\ SyncRemoval(d, w)
  /\ removed' = removed \cup {w}
  /\ stale' = IF UnderWay(w, d) THEN stale \cup {w} ELSE stale \ {w}
  /\ UNCHANGED <<load, file, home, failures>>

\* The timer of a debounced sync; an empty list is not sent.
FireTimer(d) ==
  /\ timer[d] # NoTimer
  /\ timer' = [timer EXCEPT ![d] = NoTimer]
  /\ IF timer[d].data = {} THEN UNCHANGED req
     ELSE \E r \in Requests : Send(r, timer[d].kind, timer[d].data)
  /\ UNCHANGED <<storage, load, file, home, removed, stale, failures>>

\* The application is opened, or its profile is refreshed after a change.
BeginLoad(d) ==
  /\ load[d].pc = "idle"
  /\ load' = [load EXCEPT ![d] = [pc |-> "get", snap |-> storage[d], answer |-> {}]]
  /\ UNCHANGED <<storage, timer, req, file, home, removed, stale, failures>>

\* fetchBlinkDataFromServer: no answer is an empty answer.
FetchFromServer(d) ==
  /\ load[d].pc = "get"
  /\ \/ /\ MayRead
        /\ load' = [load EXCEPT ![d].pc = "merge", ![d].answer = Content]
        /\ stale' = stale \cup (Content \cap removed)
     \/ /\ Fault("noFetch")
        /\ load' = [load EXCEPT ![d].pc = "merge"]
        /\ UNCHANGED stale
  /\ UNCHANGED <<storage, timer, req, file, home, removed>>

\* Mutation: the server's list, where it has one, replaces the local one.
MergedByServer(d) ==
  {w \in load[d].snap : Of(KindOf[w], load[d].answer) = {}} \cup load[d].answer

Merged(d) == load[d].snap \cup load[d].answer

\* Mutation: the list is sent only when the server has some other.
LocalOnlyUnanswered(d, kind) ==
  IF Of(kind, load[d].answer) = {} THEN {} ELSE Of(kind, load[d].snap \ load[d].answer)

LocalOnly(d, kind) == Of(kind, load[d].snap \ load[d].answer)

\* The merged list is stored when the server had something new, over whatever
\* is stored by now.  Of two syncs the second clears the timer of the first.
MergeAccounts(d) ==
  /\ load[d].pc = "merge"
  /\ storage' = IF load[d].answer \subseteq load[d].snap THEN storage
                ELSE [storage EXCEPT ![d] = Merged(d)]
  /\ IF LocalOnly(d, "npubCashWallets") # {} THEN SetTimer(d, "npubCashWallets", Merged(d))
     ELSE IF LocalOnly(d, "blinkLnAddressWallets") # {}
          THEN SetTimer(d, "blinkLnAddressWallets", Merged(d))
          ELSE UNCHANGED timer
  /\ load' = [load EXCEPT ![d] = NoLoad]
  /\ UNCHANGED <<req, file, home, removed, stale, failures>>

-----------------------------------------------------------------------------
Patch(r) ==
  \/ LoadUserData(r) \/ TruncateFile(r) \/ WriteFile(r)

Load(d) == BeginLoad(d) \/ FetchFromServer(d) \/ MergeAccounts(d)

Next ==
  \/ \E r \in Requests : Patch(r) \/ LoseRequest(r) \/ ServerStops(r)
  \/ \E d \in Devices : Load(d) \/ FireTimer(d)
                        \/ \E w \in Wallets : AddWallet(d, w) \/ RemoveWallet(d, w)

Spec == Init /\ [][Next]_vars

\* The server answers, timers fire, and every device is opened again.
Fairness ==
  /\ \A r \in Requests : WF_vars(Patch(r))
  /\ \A d \in Devices : WF_vars(Load(d)) /\ WF_vars(FireTimer(d))

FairSpec == Spec /\ Fairness

-----------------------------------------------------------------------------
(***************************************************************************)
(* Properties.                                                             *)
(***************************************************************************)

\* A wallet stays in the list of the device on which it was connected, whatever
\* the merges bring from the server and whatever becomes of the file, until it
\* is removed.  The exception is a wallet that was connected while a load was
\* waiting for the server: the load stores the list it started from.
AddedIsKept ==
  \A w \in Wallets, d \in Devices :
    home[w] = d /\ w \notin removed \cup stale => w \in storage[d]

Sending(kind) == \E r \in Requests : req[r].pc # "idle" /\ req[r].kind = kind

\* A wallet that was removed is gone from the server and from every device once
\* the request about it is through ("This prevents the deleted wallet from being
\* re-added on next load", useProfile.tsx:1316).  The exceptions are removals
\* that are not told to the server, and those with another copy under way: in the
\* list of another device, in a pending or running sync, in a load.
RemovedIsGone ==
  \A w \in Wallets :
    /\ w \in removed \ stale
    /\ ~Sending(KindOf[w])
    /\ \A f \in {"lost", "overlap"} : ~Happened(f)
    => /\ w \notin Content
       /\ \A d \in Devices : w \notin storage[d]

\* Every connected wallet reaches the server, although syncs cancel each other's
\* timers, requests and fetches fail, and overlapping or interrupted requests
\* wipe the file: whoever has it in its list sends it again.
AddedReachesServer ==
  \A w \in Wallets : Connected(w) ~> w \in removed \cup stale \cup Content

\* useProfile.tsx:1316 without the exceptions.
RemovedIsNotReadded ==
  [][\A w \in Wallets, d \in Devices : w \in removed /\ w \in storage'[d] => w \in storage[d]]_vars
=============================================================================
