-------------------------- MODULE AccountSync_proofs --------------------------
(***************************************************************************)
(* Theorems about AccountSync for any number of devices, wallets, requests *)
(* and faults.                                                             *)
(***************************************************************************)
EXTENDS AccountSync, TLAPS

LoadTyped == load \in [Devices -> [pc: {"idle", "get", "merge"}, snap: SUBSET Wallets,
                                   answer: SUBSET Wallets]]

ReqTyped ==
  req \in [Requests -> [pc: {"idle", "sent", "loaded", "writing"}, kind: Kinds,
                        data: SUBSET Wallets, existing: SUBSET Wallets, mixed: BOOLEAN]]

TimerTyped == timer \in [Devices -> {NoTimer} \cup [kind: Kinds, data: SUBSET Wallets]]

LEMMA OfTyped ==
  ASSUME NEW kind, NEW S \in SUBSET Wallets
  PROVE  Of(kind, S) \in SUBSET Wallets
BY DEF Of

LEMMA ContentTyped ==
  ASSUME TypeOK
  PROVE  Content \in SUBSET Wallets
BY DEF TypeOK, Content

LEMMA FaultTyped ==
  ASSUME failures \in [AllFaults -> Nat], NEW f, Fault(f)
  PROVE  failures' \in [AllFaults -> Nat]
BY AccountSyncAssumption DEF Fault

LEMMA SendTyped ==
  ASSUME ReqTyped, NEW r \in Requests, NEW kind \in Kinds, NEW S \in SUBSET Wallets,
         Send(r, kind, S)
  PROVE  ReqTyped'
BY DEF Send, ReqTyped

LEMMA TimerSet ==
  ASSUME TimerTyped, NEW d \in Devices, NEW kind \in Kinds, NEW S \in SUBSET Wallets,
         SetTimer(d, kind, S)
  PROVE  TimerTyped'
BY OfTyped DEF SetTimer, TimerTyped

LEMMA IdleRequest ==
  NoRequest \in [pc: {"idle", "sent", "loaded", "writing"}, kind: Kinds,
                 data: SUBSET Wallets, existing: SUBSET Wallets, mixed: BOOLEAN]
BY DEF NoRequest, Kinds

\* The server's steps on a request.
LEMMA RequestStepTyped ==
  ASSUME TypeOK, NEW r \in Requests, Patch(r) \/ LoseRequest(r) \/ ServerStops(r)
  PROVE  TypeOK'
<1> USE DEF ReqTyped
<1>1. CASE LoseRequest(r)
  <2>1. failures' \in [AllFaults -> Nat]
    BY <1>1, FaultTyped DEF LoseRequest, TypeOK
  <2>2. ReqTyped'
    BY <1>1, IdleRequest DEF LoseRequest, TypeOK
  <2> QED
    BY <1>1, <2>1, <2>2 DEF LoseRequest, TypeOK
<1>2. CASE ServerStops(r)
  <2>1. failures' \in [AllFaults -> Nat]
    BY <1>2, FaultTyped DEF ServerStops, TypeOK
  <2>2. ReqTyped'
    BY <1>2, IdleRequest DEF ServerStops, TypeOK
  <2> QED
    BY <1>2, <2>1, <2>2 DEF ServerStops, TypeOK
<1>3. CASE LoadUserData(r)
  <2>1. failures' \in [AllFaults -> Nat]
    BY <1>3, FaultTyped DEF LoadUserData, MayRead, TypeOK
  <2>2. Content \ Of(req[r].kind, Wallets) \in SUBSET Wallets
    BY ContentTyped
  <2>3. ReqTyped'
    <3> DEFINE rest == Content \ Of(req[r].kind, Wallets)
    <3>1. req' = [req EXCEPT ![r] = [req[r] EXCEPT !.pc = "loaded", !.existing = rest]]
      BY <1>3 DEF LoadUserData, TypeOK
    <3> HIDE DEF rest
    <3>2. rest \in SUBSET Wallets
      BY <2>2 DEF rest
    <3>3. [req[r] EXCEPT !.pc = "loaded", !.existing = rest]
            \in [pc: {"idle", "sent", "loaded", "writing"}, kind: Kinds,
                 data: SUBSET Wallets, existing: SUBSET Wallets, mixed: BOOLEAN]
      BY <3>2 DEF TypeOK
    <3> QED
      BY <3>1, <3>3 DEF TypeOK
  <2> QED
    BY <1>3, <2>1, <2>3 DEF LoadUserData, TypeOK
<1>4. CASE TruncateFile(r)
  BY <1>4 DEF TruncateFile, TypeOK
<1>5. CASE WriteFile(r)
  <2>1. Patched(r) \in SUBSET Wallets
    BY DEF Patched, TypeOK
  <2>2. file' \in {NoData} \cup SUBSET Wallets
    BY <1>5, <2>1 DEF WriteFile
  <2>3. ReqTyped'
    <3> SUFFICES ASSUME NEW s \in Requests
                 PROVE  req'[s] \in [pc: {"idle", "sent", "loaded", "writing"}, kind: Kinds,
                                     data: SUBSET Wallets, existing: SUBSET Wallets,
                                     mixed: BOOLEAN]
      BY <1>5 DEF WriteFile
    <3>1. req'[s] \in {NoRequest, [req[s] EXCEPT !.mixed = TRUE], req[s]}
      BY <1>5 DEF WriteFile
    <3> QED
      BY <3>1, IdleRequest DEF TypeOK
  <2> QED
    BY <1>5, <2>2, <2>3 DEF WriteFile, TypeOK
<1> QED
  BY <1>1, <1>2, <1>3, <1>4, <1>5 DEF Patch

\* The steps of a load.
LEMMA LoadStepTyped ==
  ASSUME TypeOK, NEW d \in Devices, Load(d)
  PROVE  TypeOK'
<1> USE DEF LoadTyped, TimerTyped
<1>1. CASE BeginLoad(d)
  BY <1>1 DEF BeginLoad, TypeOK
<1>2. CASE FetchFromServer(d)
  <2>1. failures' \in [AllFaults -> Nat]
    BY <1>2, FaultTyped DEF FetchFromServer, MayRead, TypeOK
  <2>2. LoadTyped' /\ stale' \subseteq Wallets
    BY <1>2, ContentTyped DEF FetchFromServer, TypeOK
  <2> QED
    BY <1>2, <2>1, <2>2 DEF FetchFromServer, TypeOK
<1>3. CASE MergeAccounts(d)
  <2>1. Merged(d) \in SUBSET Wallets
    BY DEF Merged, TypeOK
  <2>2. TimerTyped'
    <3>1. TimerTyped /\ {"npubCashWallets", "blinkLnAddressWallets"} \subseteq Kinds
      BY DEF TypeOK, Kinds
    <3> QED
      BY <1>3, <2>1, <3>1, TimerSet DEF MergeAccounts
  <2>3. storage' \in [Devices -> SUBSET Wallets]
    BY <1>3, <2>1 DEF MergeAccounts, TypeOK
  <2>4. LoadTyped'
    BY <1>3 DEF MergeAccounts, TypeOK, NoLoad
  <2> QED
    BY <1>3, <2>2, <2>3, <2>4 DEF MergeAccounts, TypeOK
<1> QED
  BY <1>1, <1>2, <1>3 DEF Load

\* What the user does.
LEMMA UserStepTyped ==
  ASSUME TypeOK, NEW d \in Devices, NEW w \in Wallets,
         AddWallet(d, w) \/ RemoveWallet(d, w)
  PROVE  TypeOK'
<1> USE DEF ReqTyped, TimerTyped
<1>0. KindOf[w] \in Kinds
  BY AccountSyncAssumption
<1>1. CASE AddWallet(d, w)
  <2>1. TimerTyped'
    BY <1>0, <1>1, TimerSet DEF AddWallet, TypeOK
  <2> QED
    BY <1>1, <2>1 DEF AddWallet, TypeOK
<1>2. CASE RemoveWallet(d, w)
  <2>1. PICK r \in Requests : Send(r, KindOf[w], Of(KindOf[w], storage[d] \ {w}))
    BY <1>2 DEF RemoveWallet, SyncRemoval
  <2>2. Of(KindOf[w], storage[d] \ {w}) \in SUBSET Wallets
    BY OfTyped DEF TypeOK
  <2>3. ReqTyped'
    BY <1>0, <2>1, <2>2, SendTyped DEF TypeOK
  <2> QED
    BY <1>2, <2>3 DEF RemoveWallet, SyncRemoval, TypeOK
<1> QED
  BY <1>1, <1>2

LEMMA NextTyped == TypeOK /\ [Next]_vars => TypeOK'
<1> SUFFICES ASSUME TypeOK, [Next]_vars PROVE TypeOK'
  OBVIOUS
<1>1. ASSUME NEW d \in Devices, FireTimer(d) PROVE TypeOK'
  <2>1. timer[d].kind \in Kinds /\ timer[d].data \in SUBSET Wallets
    BY <1>1 DEF FireTimer, TypeOK
  <2>2. ReqTyped'
    BY <1>1, <2>1, SendTyped DEF FireTimer, TypeOK, ReqTyped
  <2> QED
    BY <1>1, <2>2 DEF FireTimer, TypeOK, ReqTyped
<1>2. CASE UNCHANGED vars
  BY <1>2 DEF vars, TypeOK
<1> QED
  BY <1>1, <1>2, RequestStepTyped, LoadStepTyped, UserStepTyped DEF Next

\* Every list, timer, load, request and file stays in its type, under every fault.
THEOREM TypeCorrect == Spec => []TypeOK
<1>1. Init => TypeOK
  <2> SUFFICES ASSUME Init PROVE TypeOK
    OBVIOUS
  <2>1. req \in [Requests -> [pc: {"idle", "sent", "loaded", "writing"}, kind: Kinds,
                 data: SUBSET Wallets, existing: SUBSET Wallets, mixed: BOOLEAN]]
    BY IdleRequest DEF Init
  <2> QED
    BY <2>1 DEF Init, TypeOK, NoLoad
<1> QED
  BY <1>1, NextTyped, PTL DEF Spec

\* The inductive invariant: a load that is under way has started from a list
\* with every wallet that may not get lost.
Remembered ==
  \A w \in Wallets, d \in Devices :
    home[w] = d /\ w \notin removed \cup stale =>
      /\ w \in storage[d]
      /\ load[d].pc # "idle" => w \in load[d].snap

\* The server never touches what the devices hold.
LEMMA ServerLeavesDevices ==
  ASSUME NEW r \in Requests, Patch(r) \/ LoseRequest(r) \/ ServerStops(r)
  PROVE  UNCHANGED <<storage, load, home, removed, stale>>
BY DEF Patch, LoadUserData, TruncateFile, WriteFile, LoseRequest, ServerStops

LEMMA LoadRemembers ==
  ASSUME TypeOK, Remembered, NEW d \in Devices, Load(d)
  PROVE  Remembered'
<1> SUFFICES ASSUME NEW w \in Wallets, NEW e \in Devices, home'[w] = e,
                    w \notin (removed \cup stale)'
             PROVE  /\ w \in storage'[e]
                    /\ load'[e].pc # "idle" => w \in load'[e].snap
  BY DEF Remembered
<1>1. CASE BeginLoad(d)
  BY <1>1 DEF BeginLoad, TypeOK, Remembered
<1>2. CASE FetchFromServer(d)
  <2>1. stale \subseteq stale' /\ UNCHANGED <<storage, home, removed>>
    BY <1>2 DEF FetchFromServer
  <2>2. w \in storage[e] /\ (load[e].pc # "idle" => w \in load[e].snap)
    BY <2>1 DEF Remembered
  <2>3. load'[e].snap = load[e].snap /\ (load[e].pc = "idle" => load'[e].pc = "idle")
    BY <1>2 DEF FetchFromServer, TypeOK
  <2> QED
    BY <2>1, <2>2, <2>3
<1>3. CASE MergeAccounts(d)
  <2>1. UNCHANGED <<home, removed, stale>>
    BY <1>3 DEF MergeAccounts
  <2>2. w \in storage[e] /\ (load[e].pc # "idle" => w \in load[e].snap)
    BY <2>1 DEF Remembered
  <2>3. e # d => storage'[e] = storage[e] /\ load'[e] = load[e]
    BY <1>3 DEF MergeAccounts, TypeOK
  <2>4. load'[d].pc = "idle" /\ load[d].pc = "merge"
    BY <1>3 DEF MergeAccounts, TypeOK, NoLoad
  <2>5. storage'[d] \in {storage[d], Merged(d)}
    BY <1>3 DEF MergeAccounts, TypeOK
  <2> QED
    BY <2>2, <2>3, <2>4, <2>5 DEF Merged
<1> QED
  BY <1>1, <1>2, <1>3 DEF Load

LEMMA UserRemembers ==
  ASSUME TypeOK, Remembered, NEW d \in Devices, NEW v \in Wallets,
         AddWallet(d, v) \/ RemoveWallet(d, v)
  PROVE  Remembered'
<1> SUFFICES ASSUME NEW w \in Wallets, NEW e \in Devices, home'[w] = e,
                    w \notin (removed \cup stale)'
             PROVE  /\ w \in storage'[e]
                    /\ load'[e].pc # "idle" => w \in load'[e].snap
  BY DEF Remembered
<1>1. CASE AddWallet(d, v)
  BY <1>1 DEF AddWallet, TypeOK, Remembered
<1>2. CASE RemoveWallet(d, v)
  <2>1. w # v /\ w \notin removed \cup stale /\ home[w] = e /\ load' = load
    BY <1>2 DEF RemoveWallet
  <2>2. storage'[e] = storage[e] \/ storage'[e] = storage[e] \ {v}
    BY <1>2 DEF RemoveWallet, TypeOK
  <2> QED
    BY <2>1, <2>2 DEF Remembered
<1> QED
  BY <1>1, <1>2

\* However many devices merge their lists and however often the server's file is
\* wiped, a connected wallet stays in the list of the device it was connected on,
\* unless a load was under way at that moment.
THEOREM AddedStays == Spec => []AddedIsKept
<1>1. Init => Remembered
  <2> SUFFICES ASSUME Init, NEW w \in Wallets, NEW d \in Devices PROVE home[w] # d
    BY DEF Remembered
  <2> QED
    BY AccountSyncAssumption DEF Init
<1>2. TypeOK /\ Remembered /\ [Next]_vars => Remembered'
  <2> SUFFICES ASSUME TypeOK, Remembered, [Next]_vars PROVE Remembered'
    OBVIOUS
  <2>1. ASSUME UNCHANGED <<storage, load, home, removed, stale>> PROVE Remembered'
    BY <2>1 DEF Remembered
  <2>2. ASSUME NEW d \in Devices, FireTimer(d) PROVE Remembered'
    BY <2>1, <2>2 DEF FireTimer
  <2> QED
    BY <2>1, <2>2, ServerLeavesDevices, LoadRemembers, UserRemembers DEF Next, vars
<1>3. Remembered => AddedIsKept
  BY DEF Remembered, AddedIsKept
<1> QED
  BY <1>1, <1>2, <1>3, TypeCorrect, PTL DEF Spec

-----------------------------------------------------------------------------
(***************************************************************************)
(* What each step does to the requests and to the file.                    *)
(***************************************************************************)
SameCopies(s) ==
  /\ req'[s].pc = req[s].pc /\ req'[s].kind = req[s].kind
  /\ req'[s].data = req[s].data /\ req'[s].existing = req[s].existing

OthersKept(r) == \A s \in Requests : s # r => SameCopies(s)

LEMMA SendEffect ==
  ASSUME ReqTyped, NEW r \in Requests, NEW kind, NEW S, Send(r, kind, S)
  PROVE  /\ OthersKept(r) /\ req[r].pc = "idle"
         /\ req'[r].pc = "sent" /\ req'[r].kind = kind
         /\ req'[r].data = S /\ req'[r].existing = {}
BY DEF Send, ReqTyped, OthersKept, SameCopies

LEMMA LoadEffect ==
  ASSUME TypeOK, NEW r \in Requests, LoadUserData(r)
  PROVE  /\ OthersKept(r) /\ req[r].pc = "sent"
         /\ req'[r].pc = "loaded" /\ req'[r].kind = req[r].kind
         /\ req'[r].data = req[r].data
         /\ req'[r].existing = Content \ Of(req[r].kind, Wallets)
<1> DEFINE rest == Content \ Of(req[r].kind, Wallets)
<1>1. req' = [req EXCEPT ![r] = [req[r] EXCEPT !.pc = "loaded", !.existing = rest]]
  BY DEF LoadUserData, TypeOK
<1>2. req[r].pc = "sent"
  BY DEF LoadUserData
<1> HIDE DEF rest
<1>3. /\ OthersKept(r)
      /\ req'[r].pc = "loaded" /\ req'[r].kind = req[r].kind
      /\ req'[r].data = req[r].data /\ req'[r].existing = rest
  BY <1>1 DEF TypeOK, OthersKept, SameCopies
<1> QED
  BY <1>2, <1>3 DEF rest

LEMMA TruncateEffect ==
  ASSUME TypeOK, NEW r \in Requests, TruncateFile(r)
  PROVE  /\ OthersKept(r) /\ req[r].pc = "loaded"
         /\ req'[r].pc = "writing" /\ req'[r].kind = req[r].kind
         /\ req'[r].data = req[r].data /\ req'[r].existing = req[r].existing
         /\ file' = NoData /\ Content' = {}
BY DEF TypeOK, TruncateFile, OthersKept, SameCopies, Content

LEMMA WriteEffect ==
  ASSUME TypeOK, NEW r \in Requests, WriteFile(r)
  PROVE  /\ OthersKept(r) /\ req[r].pc = "writing"
         /\ req'[r] = NoRequest
         /\ Content' \subseteq req[r].existing \cup req[r].data
<1>1. \A s \in Requests : s # r =>
        req'[s] = IF req[s].pc = "writing" THEN [req[s] EXCEPT !.mixed = TRUE] ELSE req[s]
  BY DEF WriteFile
<1>2. OthersKept(r)
  BY <1>1 DEF TypeOK, OthersKept, SameCopies
<1>3. req'[r] = NoRequest /\ req[r].pc = "writing"
  BY DEF WriteFile
<1>4. Content' \subseteq req[r].existing \cup req[r].data
  BY DEF WriteFile, Content, Patched
<1> QED
  BY <1>2, <1>3, <1>4

LEMMA LoseEffect ==
  ASSUME TypeOK, NEW r \in Requests, LoseRequest(r)
  PROVE  OthersKept(r) /\ req'[r] = NoRequest /\ Content' = Content
BY DEF TypeOK, LoseRequest, OthersKept, SameCopies, Content

LEMMA HappenedKept ==
  ASSUME TypeOK, NEW f \in AllFaults, failures' = failures \/ \E g : Fault(g)
  PROVE  Happened(f) => Happened(f)'
BY DEF TypeOK, Happened, Fault

LEMMA FaultHappens ==
  ASSUME TypeOK, NEW f \in AllFaults, Fault(f)
  PROVE  Happened(f)'
BY DEF TypeOK, Happened, Fault

-----------------------------------------------------------------------------
(***************************************************************************)
(* Every copy is of a wallet that has been connected.                      *)
(***************************************************************************)
Homed == {w \in Wallets : home[w] # Nowhere}

KnownOnDevice(d) ==
  /\ storage[d] \subseteq Homed
  /\ load[d].snap \cup load[d].answer \subseteq Homed
  /\ timer[d] # NoTimer => timer[d].data \subseteq Homed

KnownOnly ==
  /\ \A d \in Devices : KnownOnDevice(d)
  /\ \A r \in Requests : req[r].data \cup req[r].existing \subseteq Homed
  /\ Content \cup removed \subseteq Homed

LEMMA KnownPatch ==
  ASSUME TypeOK, KnownOnly, NEW r \in Requests, Patch(r) \/ LoseRequest(r) \/ ServerStops(r)
  PROVE  KnownOnly'
<1>1. UNCHANGED <<storage, timer, load, home, removed>>
  BY DEF Patch, LoadUserData, TruncateFile, WriteFile, LoseRequest, ServerStops
<1>2. /\ \A s \in Requests : req'[s].data \cup req'[s].existing \subseteq Homed
      /\ Content' \subseteq Homed
  <2>1. CASE LoadUserData(r)
    <3>1. Content' = Content
      BY <2>1 DEF LoadUserData, Content
    <3> QED
      BY <2>1, <3>1, LoadEffect DEF KnownOnly, OthersKept, SameCopies
  <2>2. CASE TruncateFile(r)
    BY <2>2, TruncateEffect DEF KnownOnly, OthersKept, SameCopies
  <2>3. CASE WriteFile(r)
    BY <2>3, WriteEffect DEF KnownOnly, OthersKept, SameCopies, NoRequest
  <2>4. CASE LoseRequest(r)
    BY <2>4, LoseEffect DEF KnownOnly, OthersKept, SameCopies, NoRequest
  <2>5. CASE ServerStops(r)
    BY <2>5 DEF KnownOnly, ServerStops, NoRequest, Content
  <2> QED
    BY <2>1, <2>2, <2>3, <2>4, <2>5 DEF Patch
<1> QED
  BY <1>1, <1>2 DEF KnownOnly, KnownOnDevice, Homed

LEMMA KnownLoad ==
  ASSUME TypeOK, KnownOnly, NEW d \in Devices, Load(d)
  PROVE  KnownOnly'
<1>1. UNCHANGED <<req, file, home, removed>>
  BY DEF Load, BeginLoad, FetchFromServer, MergeAccounts
<1>2. Content' = Content /\ Homed' = Homed
  BY <1>1 DEF Content, Homed
<1>3. ASSUME NEW e \in Devices PROVE KnownOnDevice(e)'
  <2>1. KnownOnDevice(e) /\ KnownOnDevice(d)
    BY DEF KnownOnly
  <2>2. CASE BeginLoad(d)
    BY <1>2, <2>1, <2>2 DEF BeginLoad, TypeOK, KnownOnDevice
  <2>3. CASE FetchFromServer(d)
    <3>1. /\ UNCHANGED <<storage, timer>>
          /\ e # d => load'[e] = load[e]
          /\ load'[d].snap = load[d].snap
          /\ load'[d].answer \in {load[d].answer, Content}
      BY <2>3 DEF FetchFromServer, TypeOK
    <3>2. Content \subseteq Homed
      BY DEF KnownOnly
    <3>3. load'[e].snap \cup load'[e].answer \subseteq Homed
      BY <2>1, <3>1, <3>2 DEF KnownOnDevice
    <3> QED
      BY <1>2, <2>1, <3>1, <3>3 DEF KnownOnDevice
  <2>4. CASE MergeAccounts(d)
    <3>1. /\ storage'[e] \in {storage[e], Merged(d)} /\ (storage'[e] = storage[e] \/ e = d)
          /\ load'[e] \in {load[e], NoLoad}
      BY <2>4 DEF MergeAccounts, TypeOK
    <3>2. timer'[e] = timer[e] \/ \E kind : timer'[e].data = Of(kind, Merged(d))
      BY <2>4 DEF MergeAccounts, TypeOK, SetTimer
    <3>3. Merged(d) \subseteq Homed
      BY <2>1 DEF Merged, KnownOnDevice
    <3>4. \A kind : Of(kind, Merged(d)) \subseteq Homed
      BY <3>3 DEF Of
    <3> QED
      BY <1>2, <2>1, <3>1, <3>2, <3>3, <3>4 DEF KnownOnDevice, NoLoad
  <2> QED
    BY <2>2, <2>3, <2>4 DEF Load
<1> QED
  BY <1>1, <1>2, <1>3 DEF KnownOnly

LEMMA KnownUser ==
  ASSUME TypeOK, KnownOnly, NEW d \in Devices, NEW w \in Wallets,
         AddWallet(d, w) \/ RemoveWallet(d, w)
  PROVE  KnownOnly'
<1>0. /\ Homed \subseteq Homed' /\ Content' = Content /\ UNCHANGED load
      /\ removed' \subseteq Homed'
  <2>1. CASE AddWallet(d, w)
    BY <2>1, AccountSyncAssumption DEF AddWallet, TypeOK, Homed, Content, KnownOnly
  <2>2. CASE RemoveWallet(d, w)
    BY <2>2 DEF RemoveWallet, TypeOK, Homed, Content, KnownOnly, KnownOnDevice
  <2> QED
    BY <2>1, <2>2
<1>1. ASSUME NEW e \in Devices PROVE KnownOnDevice(e)'
  <2>1. KnownOnDevice(e) /\ KnownOnDevice(d)
    BY DEF KnownOnly
  <2>2. CASE AddWallet(d, w)
    <3>1. w \in Homed'
      BY <2>2, AccountSyncAssumption DEF AddWallet, TypeOK, Homed
    <3>2. storage'[e] = storage[e] \/ storage'[e] = storage[d] \cup {w}
      BY <2>2 DEF AddWallet, TypeOK
    <3>3. timer'[e] = timer[e] \/ timer'[e].data = Of(KindOf[w], storage[d] \cup {w})
      BY <2>2 DEF AddWallet, TypeOK, SetTimer
    <3>4. Of(KindOf[w], storage[d] \cup {w}) \subseteq storage[d] \cup {w}
      BY DEF Of
    <3> QED
      BY <1>0, <2>1, <3>1, <3>2, <3>3, <3>4 DEF KnownOnDevice
  <2>3. CASE RemoveWallet(d, w)
    <3>1. storage'[e] \subseteq storage[e] /\ timer'[e] = timer[e]
      BY <2>3 DEF RemoveWallet, SyncRemoval, TypeOK
    <3> QED
      BY <1>0, <2>1, <3>1 DEF KnownOnDevice
  <2> QED
    BY <2>2, <2>3
<1>2. \A r \in Requests : req'[r].data \cup req'[r].existing \subseteq Homed'
  <2>1. CASE AddWallet(d, w)
    BY <1>0, <2>1 DEF AddWallet, KnownOnly
  <2>2. CASE RemoveWallet(d, w)
    <3> DEFINE rest == Of(KindOf[w], storage[d] \ {w})
    <3>1. PICK r \in Requests : Send(r, KindOf[w], rest)
      BY <2>2 DEF RemoveWallet, SyncRemoval
    <3>2. rest \subseteq Homed
      BY DEF Of, KnownOnly, KnownOnDevice
    <3> HIDE DEF rest
    <3>3. \A s \in Requests : req'[s].data \cup req'[s].existing \subseteq Homed
      BY <3>1, <3>2, SendEffect DEF KnownOnly, OthersKept, SameCopies, TypeOK, ReqTyped
    <3> QED
      BY <1>0, <3>3
  <2> QED
    BY <2>1, <2>2
<1> QED
  BY <1>0, <1>1, <1>2 DEF KnownOnly

LEMMA KnownTimer ==
  ASSUME TypeOK, KnownOnly, NEW d \in Devices, FireTimer(d)
  PROVE  KnownOnly'
<1>1. UNCHANGED <<storage, load, file, home, removed>>
  BY DEF FireTimer
<1>2. Content' = Content /\ Homed' = Homed
  BY <1>1 DEF Content, Homed
<1>3. \A e \in Devices : timer'[e] \in {timer[e], NoTimer}
  BY DEF FireTimer, TypeOK
<1>4. \A r \in Requests : req'[r].data \cup req'[r].existing \subseteq Homed
  <2>1. CASE UNCHANGED req
    BY <2>1 DEF KnownOnly
  <2>2. CASE \E r \in Requests : Send(r, timer[d].kind, timer[d].data)
    <3>1. PICK r \in Requests : Send(r, timer[d].kind, timer[d].data)
      BY <2>2
    <3>2. timer[d].data \subseteq Homed
      BY DEF FireTimer, KnownOnly, KnownOnDevice
    <3> QED
      BY <3>1, <3>2, SendEffect DEF KnownOnly, OthersKept, SameCopies, TypeOK, ReqTyped
  <2> QED
    BY <2>1, <2>2 DEF FireTimer
<1> QED
  BY <1>1, <1>2, <1>3, <1>4 DEF KnownOnly, KnownOnDevice

-----------------------------------------------------------------------------
(***************************************************************************)
(* Without overlapping reads there is one writer at a time, and the file   *)
(* it is about to write is empty.                                          *)
(***************************************************************************)
LEMMA FaultsOnlyGrow ==
  ASSUME TypeOK, [Next]_vars, NEW f \in AllFaults
  PROVE  Happened(f) => Happened(f)'
<1>1. failures' = failures \/ \E g : Fault(g)
  BY DEF Next, vars, Patch, LoadUserData, TruncateFile, WriteFile, LoseRequest, ServerStops,
         Load, BeginLoad, FetchFromServer, MergeAccounts, MayRead, FireTimer, AddWallet,
         RemoveWallet
<1> QED
  BY <1>1, HappenedKept

\* Who reads next to a request that is writing counts as an overlap.
LEMMA ReadsAlone ==
  ASSUME TypeOK, MayRead, ~Happened("overlap")'
  PROVE  ~Writing
BY FaultHappens DEF MayRead, AllFaults

InFile(r) == req[r].pc \in {"loaded", "writing"}

OneWriter ==
  /\ \A r \in Requests : ~InFile(r) => req[r].existing = {}
  /\ ~Happened("overlap") =>
       /\ \A r, s \in Requests : InFile(r) /\ InFile(s) => r = s
       /\ \A r \in Requests : req[r].pc = "writing" => file = NoData

LEMMA OneWriterPatch ==
  ASSUME TypeOK, OneWriter, NEW r \in Requests, Patch(r) \/ LoseRequest(r) \/ ServerStops(r),
         Happened("overlap") => Happened("overlap")'
  PROVE  OneWriter'
<1>1. CASE LoadUserData(r)
  <2>1. file' = file /\ MayRead
    BY <1>1 DEF LoadUserData
  <2>2. \A s \in Requests : ~InFile(s)' => req'[s].existing = {}
    BY <1>1, LoadEffect DEF OneWriter, InFile, OthersKept, SameCopies
  <2>3. ASSUME ~Happened("overlap")'
        PROVE  /\ \A s, t \in Requests : InFile(s)' /\ InFile(t)' => s = t
               /\ \A s \in Requests : req'[s].pc = "writing" => file' = NoData
    <3>1. \A s \in Requests : ~InFile(s)
      BY <2>1, <2>3, ReadsAlone DEF Writing, InFile
    <3> QED
      BY <1>1, <3>1, LoadEffect DEF InFile, OthersKept, SameCopies
  <2> QED
    BY <2>2, <2>3 DEF OneWriter
<1>2. CASE TruncateFile(r)
  BY <1>2, TruncateEffect DEF OneWriter, InFile, OthersKept, SameCopies
<1>3. CASE WriteFile(r)
  <2>1. \A s \in Requests : ~InFile(s)' => req'[s].existing = {}
    BY <1>3, WriteEffect DEF OneWriter, InFile, OthersKept, SameCopies, NoRequest
  <2>2. \A s \in Requests : InFile(s)' => s # r /\ InFile(s)
    BY <1>3, WriteEffect DEF InFile, OthersKept, SameCopies, NoRequest
  <2>3. InFile(r)
    BY <1>3, WriteEffect DEF InFile
  <2>4. \A s \in Requests : req'[s].pc = "writing" => InFile(s)'
    BY DEF InFile
  <2> QED
    BY <2>1, <2>2, <2>3, <2>4 DEF OneWriter
<1>4. CASE LoseRequest(r)
  <2>1. file' = file
    BY <1>4 DEF LoseRequest
  <2> QED
    BY <1>4, <2>1, LoseEffect DEF OneWriter, InFile, OthersKept, SameCopies, NoRequest
<1>5. CASE ServerStops(r)
  BY <1>5 DEF ServerStops, OneWriter, InFile, NoRequest
<1> QED
  BY <1>1, <1>2, <1>3, <1>4, <1>5 DEF Patch

LEMMA OneWriterSend ==
  ASSUME TypeOK, OneWriter, NEW r \in Requests, NEW kind, NEW S, Send(r, kind, S),
         file' = file, Happened("overlap") => Happened("overlap")'
  PROVE  OneWriter'
<1>1. ReqTyped
  BY DEF TypeOK, ReqTyped
<1> QED
  BY <1>1, SendEffect DEF OneWriter, InFile, OthersKept, SameCopies

LEMMA OneWriterStep ==
  ASSUME TypeOK, OneWriter, [Next]_vars
  PROVE  OneWriter'
<1>1. Happened("overlap") => Happened("overlap")'
  BY FaultsOnlyGrow DEF AllFaults
<1>2. ASSUME UNCHANGED <<req, file>> PROVE OneWriter'
  BY <1>1, <1>2 DEF OneWriter, InFile
<1>3. ASSUME NEW d \in Devices, Load(d) PROVE OneWriter'
  BY <1>2, <1>3 DEF Load, BeginLoad, FetchFromServer, MergeAccounts
<1>4. ASSUME NEW d \in Devices, FireTimer(d) PROVE OneWriter'
  BY <1>1, <1>2, <1>4, OneWriterSend DEF FireTimer
<1>5. ASSUME NEW d \in Devices, NEW w \in Wallets, AddWallet(d, w) PROVE OneWriter'
  BY <1>2, <1>5 DEF AddWallet
<1>6. ASSUME NEW d \in Devices, NEW w \in Wallets, RemoveWallet(d, w) PROVE OneWriter'
  BY <1>1, <1>6, OneWriterSend DEF RemoveWallet, SyncRemoval
<1> QED
  BY <1>1, <1>2, <1>3, <1>4, <1>5, <1>6, OneWriterPatch DEF Next, vars

-----------------------------------------------------------------------------
(***************************************************************************)
(* A removed wallet: no copy of it is left on a device or in a request,    *)
(* and as long as the file, or a request that has read the file, has one,  *)
(* the request about the removal has yet to read the file.                 *)
(***************************************************************************)
NoneOnDevice(w, d) ==
  /\ w \notin storage[d]
  /\ timer[d] # NoTimer => w \notin timer[d].data
  /\ load[d].pc # "idle" => w \notin load[d].snap \cup load[d].answer

Clears(r, w, pcs) == req[r].kind = KindOf[w] /\ req[r].pc \in pcs

NoCopy(w) ==
  /\ \A d \in Devices : NoneOnDevice(w, d)
  /\ \A r \in Requests : req[r].pc # "idle" => w \notin req[r].data
  /\ w \in Content => \E r \in Requests : Clears(r, w, {"sent", "loaded"})
  /\ \A s \in Requests : req[s].pc # "idle" /\ w \in req[s].existing
                           => \E r \in Requests : Clears(r, w, {"sent"})

Reliable == ~Happened("lost") /\ ~Happened("overlap")

RemovalsClear == Reliable => \A w \in removed \ stale : NoCopy(w)

LEMMA ClearPatch ==
  ASSUME TypeOK, OneWriter, Reliable, Reliable', NEW r \in Requests,
         Patch(r) \/ LoseRequest(r) \/ ServerStops(r), NEW w \in Wallets, NoCopy(w)
  PROVE  NoCopy(w)'
<1>0. \A d \in Devices : NoneOnDevice(w, d)'
  <2>1. UNCHANGED <<storage, timer, load>>
    BY DEF Patch, LoadUserData, TruncateFile, WriteFile, LoseRequest, ServerStops
  <2> QED
    BY <2>1 DEF NoCopy, NoneOnDevice
<1>1. CASE LoadUserData(r)
  <2>1. Content' = Content /\ \A s \in Requests : ~InFile(s)
    BY <1>1, ReadsAlone DEF LoadUserData, Content, Reliable, Writing, InFile
  <2>2. \A s \in Requests : req'[s].pc # "idle" => w \notin req'[s].data
    BY <1>1, LoadEffect DEF NoCopy, OthersKept, SameCopies
  <2>3. w \in Content' => \E s \in Requests : Clears(s, w, {"sent", "loaded"})'
    <3>1. ASSUME w \in Content' PROVE \E s \in Requests : Clears(s, w, {"sent", "loaded"})'
      <4>1. PICK s \in Requests : Clears(s, w, {"sent", "loaded"})
        BY <2>1, <3>1 DEF NoCopy
      <4>2. Clears(s, w, {"sent", "loaded"})'
        BY <1>1, <4>1, LoadEffect DEF Clears, OthersKept, SameCopies
      <4> QED
        BY <4>2
    <3> QED
      BY <3>1
  <2>4. ASSUME NEW s \in Requests, w \in req'[s].existing
        PROVE  \E t \in Requests : Clears(t, w, {"sent"})'
    <3>1. s = r
      BY <1>1, <2>1, <2>4, LoadEffect DEF OneWriter, OthersKept, SameCopies
    <3>2. w \in Content /\ req[r].kind # KindOf[w]
      BY <1>1, <2>4, <3>1, LoadEffect DEF Of
    <3>3. PICK t \in Requests : Clears(t, w, {"sent", "loaded"})
      BY <3>2 DEF NoCopy
    <3>4. t # r /\ Clears(t, w, {"sent"})
      BY <2>1, <3>2, <3>3 DEF Clears, InFile
    <3>5. Clears(t, w, {"sent"})'
      BY <1>1, <3>4, LoadEffect DEF Clears, OthersKept, SameCopies
    <3> QED
      BY <3>5
  <2> QED
    BY <1>0, <2>2, <2>3, <2>4 DEF NoCopy
<1>2. ASSUME OthersKept(r), req[r].pc # "idle", req[r].pc # "sent",
             req'[r].data \in {req[r].data, {}}, req'[r].existing \in {req[r].existing, {}},
             w \in Content' => w \in req[r].existing \cup req[r].data
      PROVE  NoCopy(w)'
  <2>1. \A s \in Requests : req'[s].pc # "idle" => w \notin req'[s].data
    BY <1>2 DEF NoCopy, OthersKept, SameCopies
  <2>2. ASSUME NEW s \in Requests, req[s].pc # "idle", w \in req[s].existing
        PROVE  \E t \in Requests : Clears(t, w, {"sent"})'
    <3>1. PICK t \in Requests : Clears(t, w, {"sent"})
      BY <2>2 DEF NoCopy
    <3>2. Clears(t, w, {"sent"})'
      BY <1>2, <3>1 DEF Clears, OthersKept, SameCopies
    <3> QED
      BY <3>2
  <2>3. \A s \in Requests : req'[s].pc # "idle" /\ w \in req'[s].existing
          => req[s].pc # "idle" /\ w \in req[s].existing
    BY <1>2 DEF OthersKept, SameCopies
  <2>4. w \in Content' => w \in req[r].existing
    BY <1>2 DEF NoCopy
  <2>5. (\E t \in Requests : Clears(t, w, {"sent"})')
          => \E t \in Requests : Clears(t, w, {"sent", "loaded"})'
    BY DEF Clears
  <2>6. w \in Content' => \E t \in Requests : Clears(t, w, {"sent", "loaded"})'
    BY <1>2, <2>2, <2>4, <2>5
  <2>7. \A s \in Requests : req'[s].pc # "idle" /\ w \in req'[s].existing
          => \E t \in Requests : Clears(t, w, {"sent"})'
    BY <2>2, <2>3
  <2> QED
    BY <1>0, <2>1, <2>6, <2>7 DEF NoCopy
<1>3. CASE TruncateFile(r)
  BY <1>2, <1>3, TruncateEffect
<1>4. CASE WriteFile(r)
  BY <1>2, <1>4, WriteEffect DEF NoRequest
<1>5. CASE LoseRequest(r)
  BY <1>5, FaultHappens DEF LoseRequest, Reliable, AllFaults
<1>6. CASE ServerStops(r)
  <2>1. Content' = {}
    BY <1>6 DEF ServerStops, OneWriter, Reliable, Content
  <2>2. \A s \in Requests : req'[s].pc = "idle"
    BY <1>6 DEF ServerStops, NoRequest
  <2> QED
    BY <1>0, <2>1, <2>2 DEF NoCopy
<1> QED
  BY <1>1, <1>3, <1>4, <1>5, <1>6 DEF Patch

\* A new request that does not carry the wallet.
LEMMA ClearSend ==
  ASSUME TypeOK, NEW r \in Requests, NEW kind, NEW S, Send(r, kind, S), file' = file,
         NEW w \in Wallets, w \notin S, NoCopy(w), \A d \in Devices : NoneOnDevice(w, d)'
  PROVE  NoCopy(w)'
<1>1. ReqTyped /\ Content' = Content
  BY DEF TypeOK, ReqTyped, Content
<1>2. \A s \in Requests : req'[s].pc # "idle" => w \notin req'[s].data
  BY <1>1, SendEffect DEF NoCopy, OthersKept, SameCopies
<1>3. \A s \in Requests, pcs \in {{"sent"}, {"sent", "loaded"}} :
        Clears(s, w, pcs) => Clears(s, w, pcs)'
  BY <1>1, SendEffect DEF Clears, OthersKept, SameCopies
<1>4. \A s \in Requests : req'[s].pc # "idle" /\ w \in req'[s].existing
        => req[s].pc # "idle" /\ w \in req[s].existing
  BY <1>1, SendEffect DEF OthersKept, SameCopies
<1>5. w \in Content' => \E s \in Requests : Clears(s, w, {"sent", "loaded"})'
  BY <1>1, <1>3 DEF NoCopy
<1>6. ASSUME NEW s \in Requests, req'[s].pc # "idle", w \in req'[s].existing
      PROVE  \E t \in Requests : Clears(t, w, {"sent"})'
  <2>1. PICK t \in Requests : Clears(t, w, {"sent"})
    BY <1>4, <1>6 DEF NoCopy
  <2> QED
    BY <1>3, <2>1
<1> QED
  BY <1>2, <1>5, <1>6 DEF NoCopy

\* Nothing about the requests and the file changes.
LEMMA ClearQuiet ==
  ASSUME UNCHANGED <<req, file>>, NEW w \in Wallets, NoCopy(w),
         \A d \in Devices : NoneOnDevice(w, d)'
  PROVE  NoCopy(w)'
BY DEF NoCopy, Clears, Content

\* A load brings no removed wallet back: if the file still had it when it was
\* read the wallet counts as stale.
LEMMA ClearLoad ==
  ASSUME TypeOK, NEW d \in Devices, Load(d), NEW w \in removed, w \notin stale',
         NoCopy(w), NEW e \in Devices
  PROVE  NoneOnDevice(w, e)'
<1>1. NoneOnDevice(w, d) /\ NoneOnDevice(w, e)
  BY DEF NoCopy
<1>2. CASE BeginLoad(d)
  BY <1>1, <1>2 DEF BeginLoad, TypeOK, NoneOnDevice
<1>3. CASE FetchFromServer(d)
  <2>1. /\ UNCHANGED <<storage, timer>> /\ load[d].pc = "get"
        /\ load'[d].snap = load[d].snap
        /\ \/ load'[d].answer = load[d].answer
           \/ load'[d].answer = Content /\ stale' = stale \cup (Content \cap removed)
    BY <1>3 DEF FetchFromServer, TypeOK
  <2>2. e # d => load'[e] = load[e]
    BY <1>3 DEF FetchFromServer, TypeOK
  <2>3. w \notin load'[d].snap \cup load'[d].answer
    BY <1>1, <2>1 DEF NoneOnDevice
  <2> QED
    BY <1>1, <2>1, <2>2, <2>3 DEF NoneOnDevice
<1>4. CASE MergeAccounts(d)
  <2>1. load[d].pc = "merge"
    BY <1>4 DEF MergeAccounts
  <2>2. w \notin Merged(d)
    BY <1>1, <2>1 DEF Merged, NoneOnDevice
  <2>3. \A kind : w \notin Of(kind, Merged(d))
    BY <2>2 DEF Of
  <2>4. timer'[e] = timer[e] \/ \E kind : timer'[e].data = Of(kind, Merged(d))
    BY <1>4 DEF MergeAccounts, TypeOK, SetTimer
  <2>5. storage'[e] \in {storage[e], Merged(d)} /\ load'[e] \in {load[e], NoLoad}
    BY <1>4 DEF MergeAccounts, TypeOK
  <2> QED
    BY <1>1, <2>2, <2>3, <2>4, <2>5 DEF NoneOnDevice, NoLoad
<1> QED
  BY <1>2, <1>3, <1>4 DEF Load

\* A wallet that is removed with no other copy under way.
LEMMA ClearOwnRemoval ==
  ASSUME TypeOK, NEW d \in Devices, NEW w \in Wallets, RemoveWallet(d, w), ~UnderWay(w, d)
  PROVE  NoCopy(w)'
<1> DEFINE rest == Of(KindOf[w], storage[d] \ {w})
<1>1. PICK r \in Requests : Send(r, KindOf[w], rest)
  BY DEF RemoveWallet, SyncRemoval
<1>2. w \notin rest
  BY DEF Of
<1>3. /\ UNCHANGED <<timer, load, file>>
      /\ storage' = [storage EXCEPT ![d] = @ \ {w}]
  BY DEF RemoveWallet, SyncRemoval
<1>4. ReqTyped
  BY DEF TypeOK, ReqTyped
<1> HIDE DEF rest
<1>5. \A e \in Devices : NoneOnDevice(w, e)'
  BY <1>3 DEF UnderWay, NoneOnDevice, TypeOK
<1>6. \A s \in Requests : req[s].pc # "idle" => w \notin req[s].data \cup req[s].existing
  BY DEF UnderWay
<1>7. \A s \in Requests : req'[s].pc # "idle" => w \notin req'[s].data \cup req'[s].existing
  BY <1>1, <1>2, <1>4, <1>6, SendEffect DEF OthersKept, SameCopies
<1>8. Clears(r, w, {"sent", "loaded"})'
  BY <1>1, <1>4, SendEffect DEF Clears
<1> QED
  BY <1>5, <1>7, <1>8 DEF NoCopy

LEMMA ClearOtherRemoval ==
  ASSUME TypeOK, NEW d \in Devices, NEW v \in Wallets, RemoveWallet(d, v),
         NEW w \in Wallets, w # v, NoCopy(w)
  PROVE  NoCopy(w)'
<1> DEFINE rest == Of(KindOf[v], storage[d] \ {v})
<1>1. PICK r \in Requests : Send(r, KindOf[v], rest)
  BY DEF RemoveWallet, SyncRemoval
<1>2. w \notin rest
  BY DEF Of, NoCopy, NoneOnDevice
<1>3. /\ UNCHANGED <<timer, load, file>>
      /\ storage' = [storage EXCEPT ![d] = @ \ {v}]
  BY DEF RemoveWallet, SyncRemoval
<1> HIDE DEF rest
<1>4. \A e \in Devices : NoneOnDevice(w, e)'
  BY <1>3 DEF NoCopy, NoneOnDevice, TypeOK
<1> QED
  BY <1>1, <1>2, <1>3, <1>4, ClearSend

LEMMA ClearAdd ==
  ASSUME TypeOK, KnownOnly, NEW d \in Devices, NEW v \in Wallets, AddWallet(d, v),
         NEW w \in removed, NoCopy(w), NEW e \in Devices
  PROVE  NoneOnDevice(w, e)'
<1>1. w # v
  BY DEF AddWallet, KnownOnly, Homed
<1>2. NoneOnDevice(w, d) /\ NoneOnDevice(w, e)
  BY DEF NoCopy
<1>3. load' = load /\ (storage'[e] = storage[e] \/ storage'[e] = storage[d] \cup {v})
  BY DEF AddWallet, TypeOK
<1>4. timer'[e] = timer[e] \/ timer'[e].data = Of(KindOf[v], storage[d] \cup {v})
  BY DEF AddWallet, TypeOK, SetTimer
<1>5. w \notin Of(KindOf[v], storage[d] \cup {v})
  BY <1>1, <1>2 DEF Of, NoneOnDevice
<1> QED
  BY <1>1, <1>2, <1>3, <1>4, <1>5 DEF NoneOnDevice

LEMMA ClearTimer ==
  ASSUME TypeOK, NEW d \in Devices, FireTimer(d), NEW w \in Wallets, NoCopy(w)
  PROVE  NoCopy(w)'
<1>1. /\ UNCHANGED <<storage, load, file>> /\ timer[d] # NoTimer
      /\ \A e \in Devices : timer'[e] \in {timer[e], NoTimer}
  BY DEF FireTimer, TypeOK
<1>2. \A e \in Devices : NoneOnDevice(w, e)'
  BY <1>1 DEF NoCopy, NoneOnDevice
<1>3. w \notin timer[d].data
  BY <1>1 DEF NoCopy, NoneOnDevice
<1>4. CASE UNCHANGED req
  BY <1>1, <1>2, <1>4, ClearQuiet
<1>5. CASE \E r \in Requests : Send(r, timer[d].kind, timer[d].data)
  BY <1>1, <1>2, <1>3, <1>5, ClearSend
<1> QED
  BY <1>4, <1>5 DEF FireTimer

LEMMA RemovalsClearStep ==
  ASSUME TypeOK, KnownOnly, OneWriter, RemovalsClear, [Next]_vars
  PROVE  RemovalsClear'
<1> SUFFICES ASSUME Reliable', NEW w \in removed', w \notin stale'
             PROVE  NoCopy(w)'
  BY DEF RemovalsClear
<1>0. w \in Wallets
  BY NextTyped DEF TypeOK
<1>1. Reliable
  BY FaultsOnlyGrow DEF Reliable, AllFaults
<1>2. w \in removed /\ w \notin stale => NoCopy(w)
  BY <1>1 DEF RemovalsClear
<1>3. ASSUME NEW r \in Requests, Patch(r) \/ LoseRequest(r) \/ ServerStops(r)
      PROVE  NoCopy(w)'
  <2>1. UNCHANGED <<removed, stale>>
    BY <1>3, ServerLeavesDevices
  <2> QED
    BY <1>0, <1>1, <1>2, <1>3, <2>1, ClearPatch
<1>4. ASSUME NEW d \in Devices, Load(d) PROVE NoCopy(w)'
  <2>1. UNCHANGED <<req, file, removed>> /\ stale \subseteq stale'
    BY <1>4 DEF Load, BeginLoad, FetchFromServer, MergeAccounts
  <2> QED
    BY <1>0, <1>2, <1>4, <2>1, ClearLoad, ClearQuiet
<1>5. ASSUME NEW d \in Devices, FireTimer(d) PROVE NoCopy(w)'
  <2>1. UNCHANGED <<removed, stale>>
    BY <1>5 DEF FireTimer
  <2> QED
    BY <1>0, <1>2, <1>5, <2>1, ClearTimer
<1>6. ASSUME NEW d \in Devices, NEW v \in Wallets, AddWallet(d, v) PROVE NoCopy(w)'
  <2>1. UNCHANGED <<req, file, removed>> /\ stale \subseteq stale'
    BY <1>6 DEF AddWallet
  <2> QED
    BY <1>0, <1>2, <1>6, <2>1, ClearAdd, ClearQuiet
<1>7. ASSUME NEW d \in Devices, NEW v \in Wallets, RemoveWallet(d, v) PROVE NoCopy(w)'
  <2>1. CASE w = v
    <3>1. ~UnderWay(w, d)
      BY <1>7, <2>1 DEF RemoveWallet
    <3> QED
      BY <1>7, <2>1, <3>1, ClearOwnRemoval
  <2>2. CASE w # v
    <3>1. w \in removed /\ w \notin stale
      BY <1>7, <2>2 DEF RemoveWallet
    <3> QED
      BY <1>0, <1>2, <1>7, <2>2, <3>1, ClearOtherRemoval
  <2> QED
    BY <2>1, <2>2
<1>8. CASE UNCHANGED vars
  BY <1>2, <1>8 DEF vars, NoCopy, NoneOnDevice, Clears, Content
<1> QED
  BY <1>3, <1>4, <1>5, <1>6, <1>7, <1>8 DEF Next

\* However many devices, timers, loads and requests there are: once the request
\* about a removal is through, neither the file nor any device has the wallet,
\* unless a PATCH was lost, reads overlapped, or another copy was under way.
THEOREM RemovedStaysGone == Spec => []RemovedIsGone
<1>1. Init => KnownOnly /\ OneWriter /\ RemovalsClear
  BY DEF Init, KnownOnly, KnownOnDevice, Content, NoLoad, NoRequest, OneWriter, InFile,
         RemovalsClear
<1>2. TypeOK /\ KnownOnly /\ [Next]_vars => KnownOnly'
  <2>1. CASE UNCHANGED vars
    BY <2>1 DEF vars, KnownOnly, KnownOnDevice, Homed, Content
  <2> QED
    BY <2>1, KnownPatch, KnownLoad, KnownUser, KnownTimer DEF Next
<1>3. TypeOK /\ OneWriter /\ [Next]_vars => OneWriter'
  BY OneWriterStep
<1>4. TypeOK /\ KnownOnly /\ OneWriter /\ RemovalsClear /\ [Next]_vars => RemovalsClear'
  BY RemovalsClearStep
<1>5. TypeOK /\ RemovalsClear => RemovedIsGone
  <2> SUFFICES ASSUME TypeOK, RemovalsClear, NEW w \in Wallets, w \in removed \ stale,
                      ~Sending(KindOf[w]), \A f \in {"lost", "overlap"} : ~Happened(f)
               PROVE  w \notin Content /\ \A d \in Devices : w \notin storage[d]
    BY DEF RemovedIsGone
  <2>1. NoCopy(w)
    BY DEF RemovalsClear, Reliable
  <2> QED
    BY <2>1 DEF NoCopy, NoneOnDevice, Clears, Sending
<1> QED
  BY <1>1, <1>2, <1>3, <1>4, <1>5, TypeCorrect, PTL DEF Spec
=============================================================================
