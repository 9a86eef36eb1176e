---------------------------- MODULE BoltcardCards ----------------------------
(***************************************************************************)
(* One NTAG424 chip and the row of boltcards that goes with its UID: how   *)
(* registrations create, replace or re-program the row                     *)
(* (completePendingRegistration, lib/boltcard/store.ts), how its owner     *)
(* changes its status, and how taps are checked against its keys and its   *)
(* counter (lib/boltcard/lnurlw.ts).  Balances are BoltcardBalance's.      *)
(*                                                                         *)
(* Every query is a step.  A key is named by the call that generated the   *)
(* owner's IssuerKey; the five keys of a card follow from it, the UID and  *)
(* the version.  A tap carries the address, the keys and the counter that  *)
(* are on the chip.                                                        *)
(***************************************************************************)
EXTENDS Naturals, FiniteSets, Functions

CONSTANTS
  Owners,         \* the users who register the chip
  Registrations,  \* pending registrations, as shown in a deeplink
  OwnerOf,        \* who each of them belongs to
  Direct,         \* those made by the direct flow, which has the UID
  Calls,          \* requests of the programming app, or direct registrations
  Taps,           \* requests that carry a tap
  Faults,         \* what may go wrong
  MaxFailures,    \* bound on the number of faults in a behaviour
  MaxCounter,     \* bound on the taps of a chip between two programmings
  NoCall, NoOwner \* none of the calls, none of the owners

\* dbError  a query throws without having been applied
\* overlap  a call begins while another one is running
\* late     a registration expires
AllFaults == {"dbError", "overlap", "late"}

ASSUME BoltcardCardsAssumption ==
  /\ OwnerOf \in [Registrations -> Owners]
  /\ Direct \subseteq Registrations
  /\ Faults \subseteq AllFaults /\ MaxFailures \in Nat /\ MaxCounter \in Nat
  /\ NoCall \notin Calls /\ NoOwner \notin Owners

VARIABLES
  row,       \* the boltcards row of this UID; id 0 when there is none
  ids,       \* how many ids have been given out
  issuer,    \* boltcard_issuer_keys: the key of each owner
  reg,       \* boltcard_pending_registrations: status and card_id
  call,      \* the state of each call
  handed,    \* the keys of the last response that carried some
  chip,      \* what is on the chip; id 0 when it is blank
  tap,       \* the state of each request that carries a tap
  failures   \* how often each fault has happened

vars == <<row, ids, issuer, reg, call, handed, chip, tap, failures>>

Statuses == {"PENDING", "ACTIVE", "DISABLED", "WIPED"}
NoRow == [id |-> 0, owner |-> NoOwner, status |-> "WIPED", version |-> 0,
          key |-> NoCall, counter |-> 0]
Blank == [id |-> 0, version |-> 0, key |-> NoCall]
Untapped == [pc |-> "idle", id |-> 0, version |-> 0, key |-> NoCall, n |-> 0]

TypeOK ==
  /\ row \in [id: Nat, owner: Owners \cup {NoOwner}, status: Statuses,
              version: Nat, key: Calls \cup {NoCall}, counter: Nat]
  /\ ids \in Nat
  /\ issuer \in [Owners -> Calls \cup {NoCall}]
  /\ reg \in [Registrations -> [status: {"PENDING", "COMPLETED", "EXPIRED"}, card: Nat]]
  /\ call \in [Calls -> [pc: {"idle", "find", "history", "delete", "reread", "update",
                              "issuer", "newkey", "insert", "activate", "complete",
                              "answer", "done", "refused", "blocked"},
                         reg: Registrations, seen: Nat, version: Nat,
                         key: Calls \cup {NoCall}]]
  /\ handed \in [id: Nat, version: Nat, key: Calls \cup {NoCall}]
  /\ chip \in [id: Nat, version: Nat, key: Calls \cup {NoCall}, n: Nat]
  /\ tap \in [Taps -> [pc: {"idle", "look", "counter", "ok", "refused"},
                       id: Nat, version: Nat, key: Calls \cup {NoCall}, n: Nat]]
  /\ failures \in [AllFaults -> Nat]

Init ==
  /\ row = NoRow /\ ids = 0
  /\ issuer = [o \in Owners |-> NoCall]
  /\ reg = [g \in Registrations |-> [status |-> "PENDING", card |-> 0]]
  /\ call \in [Calls -> {[pc |-> "idle", reg |-> g, seen |-> 0, version |-> 0,
                          key |-> NoCall] : g \in Registrations}]
  /\ handed = Blank
  /\ chip = [id |-> 0, version |-> 0, key |-> NoCall, n |-> 0]
  /\ tap = [t \in Taps |-> Untapped]
  /\ failures = [f \in AllFaults |-> 0]

Fault(f) ==
  /\ f \in Faults
  /\ SumFunctionOnSet(failures, AllFaults) < MaxFailures
  /\ failures' = [failures EXCEPT ![f] = @ + 1]

Happened(f) == failures[f] > 0

Goto(k, pc) == call' = [call EXCEPT ![k].pc = pc]

Running(k) == call[k].pc \notin {"idle", "done", "refused", "blocked"}

\* A query of the call throws, and so does the request.
Throws(k) == Fault("dbError") /\ Goto(k, "refused")

Owner(k) == OwnerOf[call[k].reg]

-----------------------------------------------------------------------------
(* keys/[registrationId].ts and register.ts, with the store's operations.  *)

\* A direct registration knows the UID and goes straight to createCard.
Begin(k) ==
  /\ call[k].pc = "idle"
  /\ IF \E j \in Calls : Running(j) THEN Fault("overlap") ELSE UNCHANGED failures
  /\ \/ call[k].reg \in Direct /\ Goto(k, "issuer")
     \/ /\ call[k].reg \notin Direct
        /\ Goto(k, IF reg[call[k].reg].status = "PENDING" THEN "find" ELSE "refused")
  /\ UNCHANGED <<row, ids, issuer, reg, handed, chip, tap>>

RegistrationExpires(g) ==
  /\ Fault("late")
  /\ g \notin Direct /\ reg[g].status = "PENDING"
  /\ reg' = [reg EXCEPT ![g].status = "EXPIRED"]
  /\ UNCHANGED <<row, ids, issuer, call, handed, chip, tap>>

\* Mutation: a card that was never activated is taken for unused.
BranchUnused(k) ==
  IF row.id = 0 THEN "issuer"
  ELSE IF row.status \in {"WIPED", "PENDING"} THEN "history"
  ELSE IF row.owner = Owner(k) THEN "reread" ELSE "refused"

\* What there is under this UID decides what the call does.
Branch(k) ==
  IF row.id = 0 THEN "issuer"
  ELSE IF row.status = "WIPED" THEN "history"
  ELSE IF row.owner = Owner(k) THEN "reread" ELSE "refused"

\* getCardByUid answers null when its query fails.
FindCard(k) ==
  /\ call[k].pc = "find"
  /\ \/ /\ call' = [call EXCEPT ![k].pc = Branch(k), ![k].seen = row.id]
        /\ UNCHANGED failures
     \/ Fault("dbError") /\ Goto(k, "issuer")
  /\ UNCHANGED <<row, ids, issuer, reg, handed, chip, tap>>

\* The transactions and top-ups of a wiped card are deleted first.
DeleteHistory(k) ==
  /\ call[k].pc = "history"
  /\ \/ Goto(k, "delete") /\ UNCHANGED failures
     \/ Throws(k)
  /\ UNCHANGED <<row, ids, issuer, reg, handed, chip, tap>>

\* The foreign key boltcard_pending_registrations.card_id, without ON DELETE.
Referenced(id) == \E g \in Registrations : reg[g].card = id

DeleteCard(k) ==
  /\ call[k].pc = "delete"
  /\ \/ /\ Referenced(call[k].seen) /\ row.id = call[k].seen
        /\ Goto(k, "blocked")
        /\ UNCHANGED <<row, failures>>
     \/ /\ ~Referenced(call[k].seen) \/ row.id # call[k].seen
        /\ row' = IF row.id = call[k].seen THEN NoRow ELSE row
        /\ Goto(k, "issuer")
        /\ UNCHANGED failures
     \/ Throws(k) /\ UNCHANGED row
  /\ UNCHANGED <<ids, issuer, reg, handed, chip, tap>>

\* reprogramCard: getCard and getIssuerKey, which answer null on an error ...
RereadCard(k) ==
  /\ call[k].pc = "reread"
  /\ \/ /\ call' = [call EXCEPT ![k].pc = IF row.id = call[k].seen THEN "update" ELSE "refused",
                                ![k].version = row.version, ![k].key = issuer[Owner(k)]]
        /\ UNCHANGED failures
     \/ Throws(k)
  /\ UNCHANGED <<row, ids, issuer, reg, handed, chip, tap>>

\* ... and an UPDATE by id of the version that was read.  When the row is gone
\* the call falls through to createCard.
UpdateVersion(k) ==
  /\ call[k].pc = "update"
  /\ \/ /\ row.id = call[k].seen
        /\ row' = [row EXCEPT !.version = call[k].version + 1, !.key = call[k].key,
                              !.counter = 0, !.status = "PENDING"]
        /\ Goto(k, "complete")
        /\ UNCHANGED failures
     \/ row.id # call[k].seen /\ Goto(k, "issuer") /\ UNCHANGED <<row, failures>>
     \/ Throws(k) /\ UNCHANGED row
  /\ UNCHANGED <<ids, issuer, reg, handed, chip, tap>>

\* getOrCreateIssuerKey.
SelectIssuerKey(k) ==
  /\ call[k].pc = "issuer"
  /\ \/ /\ call' = [call EXCEPT ![k].pc = IF issuer[Owner(k)] = NoCall THEN "newkey" ELSE "insert",
                                ![k].key = issuer[Owner(k)]]
        /\ UNCHANGED failures
     \/ Throws(k)
  /\ UNCHANGED <<row, ids, issuer, reg, handed, chip, tap>>

\* Mutation: whoever generated a key uses it.
KeyAfterInsert(k) == k

\* Another request may have stored its key first (23505): that one counts.
StoredKey(k) == IF issuer[Owner(k)] = NoCall THEN k ELSE issuer[Owner(k)]

InsertIssuerKey(k) ==
  /\ call[k].pc = "newkey"
  /\ \/ /\ issuer' = [issuer EXCEPT ![Owner(k)] = IF @ = NoCall THEN k ELSE @]
        /\ call' = [call EXCEPT ![k].pc = "insert", ![k].key = StoredKey(k)]
        /\ UNCHANGED failures
     \/ Throws(k) /\ UNCHANGED issuer
  /\ UNCHANGED <<row, ids, reg, handed, chip, tap>>

\* createCard's INSERT; card_uid is unique.  A direct registration answers.
InsertCard(k) ==
  /\ call[k].pc = "insert"
  /\ \/ /\ row.id = 0
        /\ ids' = ids + 1
        /\ row' = [id |-> ids + 1, owner |-> Owner(k), status |-> "PENDING",
                   version |-> 1, key |-> call[k].key, counter |-> 0]
        /\ call' = [call EXCEPT ![k].seen = ids + 1,
                                ![k].pc = IF call[k].reg \in Direct THEN "answer" ELSE "activate"]
        /\ UNCHANGED failures
     \/ row.id # 0 /\ Goto(k, "refused") /\ UNCHANGED <<row, ids, failures>>
     \/ Throws(k) /\ UNCHANGED <<row, ids>>
  /\ UNCHANGED <<issuer, reg, handed, chip, tap>>

Activated(r) == IF r.status \in {"PENDING", "DISABLED"}
                THEN [r EXCEPT !.status = "ACTIVE"] ELSE r

\* activateCard answers false when its query fails; nobody looks at the answer.
AutoActivate(k) ==
  /\ call[k].pc = "activate"
  /\ Goto(k, "complete")
  /\ \/ /\ row' = IF row.id = call[k].seen THEN Activated(row) ELSE row
        /\ UNCHANGED failures
     \/ Fault("dbError") /\ UNCHANGED row
  /\ UNCHANGED <<ids, issuer, reg, handed, chip, tap>>

\* An UPDATE by id: whatever the registration has become, it is completed.
\* The foreign key refuses a card that is gone.
CompleteRegistration(k) ==
  /\ call[k].pc = "complete"
  /\ \/ /\ row.id = call[k].seen
        /\ reg' = [reg EXCEPT ![call[k].reg] = [status |-> "COMPLETED", card |-> call[k].seen]]
        /\ Goto(k, "answer")
        /\ UNCHANGED failures
     \/ row.id # call[k].seen /\ Goto(k, "refused") /\ UNCHANGED <<reg, failures>>
     \/ Throws(k) /\ UNCHANGED reg
  /\ UNCHANGED <<row, ids, issuer, handed, chip, tap>>

\* Mutation: the keys are those the call worked with.
KeysOfCall(k) == [id |-> row.id, version |-> call[k].version, key |-> call[k].key]

KeysOfRow(k) == [id |-> row.id, version |-> row.version, key |-> row.key]

\* getCard once more: the response carries the keys the row has by now.
AnswerKeys(k) ==
  /\ call[k].pc = "answer"
  /\ \/ /\ row.id = call[k].seen
        /\ handed' = KeysOfRow(k)
        /\ Goto(k, "done")
        /\ UNCHANGED failures
     \/ row.id # call[k].seen /\ Goto(k, "refused") /\ UNCHANGED <<handed, failures>>
     \/ Throws(k) /\ UNCHANGED handed
  /\ UNCHANGED <<row, ids, issuer, reg, chip, tap>>

-----------------------------------------------------------------------------
(* The chip, and what its owner does about it.                             *)

\* The app writes the keys it was handed; that takes a blank chip.
ProgramChip ==
  /\ chip.id = 0 /\ handed.id # 0
  /\ chip' = [id |-> handed.id, version |-> handed.version, key |-> handed.key, n |-> 0]
  /\ UNCHANGED <<row, ids, issuer, reg, call, handed, tap, failures>>

\* The app erases the chip with keys from wipe-keys, which are those of the row,
\* or from recover-keys, which wants the UID unregistered and a version.
EraseChip ==
  /\ chip.id # 0
  /\ \/ row.id # 0 /\ row.version = chip.version /\ issuer[row.owner] = chip.key
     \/ row.id = 0 /\ \E o \in Owners : issuer[o] = chip.key
  /\ chip' = [chip EXCEPT !.id = 0]
  /\ UNCHANGED <<row, ids, issuer, reg, call, handed, tap, failures>>

\* cards/[cardId].ts and reset/[cardId]/confirm.ts.
SetStatus(from, to) ==
  /\ row.id # 0 /\ row.status \in from
  /\ row' = [row EXCEPT !.status = to]
  /\ UNCHANGED <<ids, issuer, reg, call, handed, chip, tap, failures>>

ActivateCard == SetStatus({"PENDING", "DISABLED"}, "ACTIVE")
DisableCard  == SetStatus({"ACTIVE"}, "DISABLED")
WipeCard     == SetStatus({"PENDING", "ACTIVE", "DISABLED"}, "WIPED")

-----------------------------------------------------------------------------
(* lnurlw.ts handleWithdrawRequest and reset/[cardId].ts.                  *)

TapGoto(t, pc) == tap' = [tap EXCEPT ![t].pc = pc]

\* The chip counts every tap and writes the count into the address.
TapChip(t) ==
  /\ tap[t].pc = "idle" /\ chip.id # 0 /\ chip.n < MaxCounter
  /\ chip' = [chip EXCEPT !.n = @ + 1]
  /\ tap' = [tap EXCEPT ![t] = [pc |-> "look", id |-> chip.id, version |-> chip.version,
                                key |-> chip.key, n |-> chip.n + 1]]
  /\ UNCHANGED <<row, ids, issuer, reg, call, handed, failures>>

\* A wallet asks again with the address of a tap it has used already.
AskAgain(t, u) ==
  /\ tap[t].pc = "idle" /\ tap[u].pc # "idle"
  /\ tap' = [tap EXCEPT ![t] = [tap[u] EXCEPT !.pc = "look"]]
  /\ UNCHANGED <<row, ids, issuer, reg, call, handed, chip, failures>>

\* verifyCardTap.
Verified(t) ==
  /\ tap[t].version = row.version /\ tap[t].key = row.key
  /\ tap[t].n > row.counter

\* A withdrawal wants an ACTIVE card, the reset any card that is not WIPED.
LookAtCard(t) ==
  /\ tap[t].pc = "look"
  /\ \/ /\ \E wanted \in {{"ACTIVE"}, Statuses \ {"WIPED"}} :
             TapGoto(t, IF row.id = tap[t].id /\ row.status \in wanted /\ Verified(t)
                        THEN "counter" ELSE "refused")
        /\ UNCHANGED failures
     \/ Fault("dbError") /\ TapGoto(t, "refused")
  /\ UNCHANGED <<row, ids, issuer, reg, call, handed, chip>>

\* Mutation: the UPDATE does not compare.
CounterUnguarded(t) == row.id = tap[t].id

CounterMoves(t) == row.id = tap[t].id /\ row.counter < tap[t].n

\* updateLastCounter, whose answer nobody looks at.
UpdateLastCounter(t) ==
  /\ tap[t].pc = "counter"
  /\ TapGoto(t, "ok")
  /\ \/ /\ row' = IF CounterMoves(t) THEN [row EXCEPT !.counter = tap[t].n] ELSE row
        /\ UNCHANGED failures
     \/ Fault("dbError") /\ UNCHANGED row
  /\ UNCHANGED <<ids, issuer, reg, call, handed, chip>>

-----------------------------------------------------------------------------
Handle(k) ==
  \/ Begin(k) \/ FindCard(k)
  \/ DeleteHistory(k) \/ DeleteCard(k)
  \/ RereadCard(k) \/ UpdateVersion(k)
  \/ SelectIssuerKey(k) \/ InsertIssuerKey(k) \/ InsertCard(k) \/ AutoActivate(k)
  \/ CompleteRegistration(k) \/ AnswerKeys(k)

Next ==
  \/ \E k \in Calls : Handle(k)
  \/ \E g \in Registrations : RegistrationExpires(g)
  \/ ProgramChip \/ EraseChip
  \/ ActivateCard \/ DisableCard \/ WipeCard
  \/ \E t \in Taps : TapChip(t) \/ LookAtCard(t) \/ UpdateLastCounter(t)
                     \/ \E u \in Taps : AskAgain(t, u)

Spec == Init /\ [][Next]_vars

-----------------------------------------------------------------------------
(***************************************************************************)
(* Properties.                                                             *)
(***************************************************************************)

Reprogrammed(k) ==
  /\ call[k].pc \in {"complete", "answer", "done"}
  /\ call[k].seen = row.id /\ row.version > 1 /\ call[k].version + 1 = row.version

Restarted == \E j, k \in Calls : j # k /\ Reprogrammed(j) /\ Reprogrammed(k)

\* Once a tap has been answered its counter is used up: however the updates of
\* overlapping taps are ordered, the row's counter is no older ("Only update if
\* new counter is greater (prevents replay)", store.ts:1348), so a later request
\* with that address is refused.  A failed update is not noticed, and two calls
\* that re-program the card at once write the same version, so that the second
\* starts the count again under the same keys.
AnsweredIsUsedUp ==
  \A t \in Taps :
    /\ tap[t].pc = "ok"
    /\ tap[t].id = row.id /\ tap[t].version = row.version
    => row.counter >= tap[t].n \/ Happened("dbError") \/ Restarted

\* Every card's keys come from the IssuerKey its owner has in the database, or
\* they could not be derived again for a reset, even when two first
\* registrations of an owner race for it.
KeysAreDerivable == row.id # 0 => row.key = issuer[row.owner] /\ row.key # NoCall

\* A card that has not been wiped keeps its row and its owner.  The exception is
\* a call that saw the card wiped while another one was re-programming it.
LiveCardIsKept ==
  [][row.id # 0 /\ row.status # "WIPED" /\ (row'.id # row.id \/ row'.owner # row.owner)
       => Happened("overlap")]_vars

\* The keys that were handed out last are those of the row, so that a chip which
\* is programmed with them works, unless another call has got as far as changing
\* the row since.
HandedKeysWork ==
  /\ handed.id # 0 /\ handed.id = row.id
  /\ ~Happened("overlap") /\ ~Happened("dbError")
  /\ ~\E k \in Calls : call[k].pc \in {"complete", "answer"}
  => handed = [id |-> row.id, version |-> row.version, key |-> row.key]

\* "If card is WIPED, delete it completely to allow fresh registration"
\* (store.ts:570): the registration of a wiped card is not stopped by the row.
WipedMakesRoom == \A k \in Calls : call[k].pc # "blocked"
=============================================================================
