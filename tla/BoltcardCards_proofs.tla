------------------------- MODULE BoltcardCards_proofs -------------------------
(***************************************************************************)
(* Theorems about BoltcardCards for any number of owners, registrations,   *)
(* calls, taps and faults.                                                 *)
(***************************************************************************)
EXTENDS BoltcardCards, TLAPS

CallPcs == {"idle", "find", "history", "delete", "reread", "update",
            "issuer", "newkey", "insert", "activate", "complete",
            "answer", "done", "refused", "blocked"}

CallStates == [pc: CallPcs, reg: Registrations, seen: Nat, version: Nat,
               key: Calls \cup {NoCall}]

RowStates == [id: Nat, owner: Owners \cup {NoOwner}, status: Statuses,
              version: Nat, key: Calls \cup {NoCall}, counter: Nat]

LEMMA FaultTyped ==
  ASSUME failures \in [AllFaults -> Nat], NEW f, Fault(f)
  PROVE  /\ failures' \in [AllFaults -> Nat]
         /\ f \in AllFaults /\ failures'[f] = failures[f] + 1
         /\ \A g \in AllFaults : g # f => failures'[g] = failures[g]
BY BoltcardCardsAssumption DEF Fault

LEMMA GotoTyped ==
  ASSUME call \in [Calls -> CallStates], NEW k \in Calls, NEW pc \in CallPcs, Goto(k, pc)
  PROVE  /\ call' \in [Calls -> CallStates]
         /\ call'[k] = [call[k] EXCEPT !.pc = pc]
         /\ \A j \in Calls \ {k} : call'[j] = call[j]
BY DEF Goto, CallStates

LEMMA OwnerTyped ==
  ASSUME call \in [Calls -> CallStates], NEW k \in Calls
  PROVE  Owner(k) \in Owners
BY BoltcardCardsAssumption DEF Owner, CallStates

LEMMA Types == TypeOK <=>
  /\ row \in RowStates
  /\ ids \in Nat
  /\ issuer \in [Owners -> Calls \cup {NoCall}]
  /\ reg \in [Registrations -> [status: {"PENDING", "COMPLETED", "EXPIRED"}, card: Nat]]
  /\ call \in [Calls -> CallStates]
  /\ handed \in [id: Nat, version: Nat, key: Calls \cup {NoCall}]
  /\ chip \in [id: Nat, version: Nat, key: Calls \cup {NoCall}, n: Nat]
  /\ tap \in [Taps -> [pc: {"idle", "look", "counter", "ok", "refused"},
                       id: Nat, version: Nat, key: Calls \cup {NoCall}, n: Nat]]
  /\ failures \in [AllFaults -> Nat]
BY DEF TypeOK, RowStates, CallStates, CallPcs

-----------------------------------------------------------------------------
LEMMA LookTyped ==
  ASSUME TypeOK, NEW k \in Calls,
         \/ Begin(k) \/ FindCard(k) \/ DeleteHistory(k) \/ RereadCard(k) \/ SelectIssuerKey(k)
  PROVE  /\ UNCHANGED <<row, ids, issuer, reg, handed, chip, tap>>
         /\ failures' \in [AllFaults -> Nat]
         /\ call' \in [Calls -> CallStates]
<1>1. UNCHANGED <<row, ids, issuer, reg, handed, chip, tap>>
  BY DEF Begin, FindCard, DeleteHistory, RereadCard, SelectIssuerKey
<1>2. failures' \in [AllFaults -> Nat]
  BY Types, FaultTyped DEF Begin, FindCard, DeleteHistory, RereadCard, SelectIssuerKey, Throws
<1>3. call' \in [Calls -> CallStates]
  <2>1. ASSUME NEW pc \in CallPcs, Goto(k, pc) PROVE call' \in [Calls -> CallStates]
    BY <2>1, Types, GotoTyped
  <2>2. CASE Begin(k)
    <3>1. Goto(k, "issuer") \/ Goto(k, "find") \/ Goto(k, "refused")
      BY <2>2 DEF Begin
    <3> QED
      BY <3>1, <2>1 DEF CallPcs
  <2>3. CASE FindCard(k)
    <3>1. Branch(k) \in CallPcs
      BY DEF Branch, CallPcs
    <3> QED
      BY <2>3, <3>1, Types, <2>1 DEF FindCard, CallStates, RowStates, CallPcs
  <2>4. CASE DeleteHistory(k)
    BY <2>4, <2>1 DEF DeleteHistory, Throws, CallPcs
  <2>5. CASE RereadCard(k)
    BY <2>5, <2>1, Types, OwnerTyped DEF RereadCard, Throws, CallStates, RowStates, CallPcs
  <2>6. CASE SelectIssuerKey(k)
    BY <2>6, <2>1, Types, OwnerTyped DEF SelectIssuerKey, Throws, CallStates, CallPcs
  <2> QED
    BY <2>2, <2>3, <2>4, <2>5, <2>6
<1> QED
  BY <1>1, <1>2, <1>3

LEMMA WriteTyped ==
  ASSUME TypeOK, NEW k \in Calls,
         \/ DeleteCard(k) \/ UpdateVersion(k) \/ InsertIssuerKey(k) \/ InsertCard(k)
         \/ AutoActivate(k) \/ CompleteRegistration(k) \/ AnswerKeys(k)
  PROVE  TypeOK'
<1>1. UNCHANGED <<chip, tap>> /\ failures' \in [AllFaults -> Nat]
  BY Types, FaultTyped
     DEF DeleteCard, UpdateVersion, InsertIssuerKey, InsertCard, AutoActivate,
         CompleteRegistration, AnswerKeys, Throws
<1>2. ids' \in Nat
  BY Types
     DEF DeleteCard, UpdateVersion, InsertIssuerKey, InsertCard, AutoActivate,
         CompleteRegistration, AnswerKeys
<1>3. row' \in RowStates
  <2>1. NoRow \in RowStates
    BY DEF NoRow, RowStates, Statuses
  <2>2. Activated(row) \in RowStates
    BY Types DEF Activated, RowStates, Statuses
  <2>3. Owner(k) \in Owners
    BY Types, OwnerTyped
  <2>4. CASE UpdateVersion(k)
    <3>1. row \in RowStates /\ call[k].version + 1 \in Nat /\ call[k].key \in Calls \cup {NoCall}
      BY Types DEF CallStates
    <3>2. \/ row' = row
          \/ row' = [row EXCEPT !.version = call[k].version + 1, !.key = call[k].key,
                                !.counter = 0, !.status = "PENDING"]
      BY <2>4 DEF UpdateVersion
    <3>3. CASE row' = [row EXCEPT !.version = call[k].version + 1, !.key = call[k].key,
                                  !.counter = 0, !.status = "PENDING"]
      <4>1. row' = [id |-> row.id, owner |-> row.owner, status |-> "PENDING",
                    version |-> call[k].version + 1, key |-> call[k].key, counter |-> 0]
        BY <3>1, <3>3 DEF RowStates
      <4> QED
        BY <3>1, <4>1 DEF RowStates, Statuses
    <3> QED
      BY <3>1, <3>2, <3>3
  <2>5. CASE InsertCard(k)
    BY <2>5, <2>3, Types DEF InsertCard, RowStates, CallStates, Statuses
  <2> QED
    BY <2>1, <2>2, <2>4, <2>5, Types
       DEF DeleteCard, InsertIssuerKey, AutoActivate, CompleteRegistration, AnswerKeys
<1>4. issuer' \in [Owners -> Calls \cup {NoCall}]
  BY Types
     DEF DeleteCard, UpdateVersion, InsertIssuerKey, InsertCard, AutoActivate,
         CompleteRegistration, AnswerKeys
<1>5. reg' \in [Registrations -> [status: {"PENDING", "COMPLETED", "EXPIRED"}, card: Nat]]
  BY Types
     DEF DeleteCard, UpdateVersion, InsertIssuerKey, InsertCard, AutoActivate,
         CompleteRegistration, AnswerKeys, CallStates
<1>6. handed' \in [id: Nat, version: Nat, key: Calls \cup {NoCall}]
  BY Types
     DEF DeleteCard, UpdateVersion, InsertIssuerKey, InsertCard, AutoActivate,
         CompleteRegistration, AnswerKeys, KeysOfRow, RowStates
<1>7. call' \in [Calls -> CallStates]
  <2>1. ASSUME NEW pc \in CallPcs, Goto(k, pc) PROVE call' \in [Calls -> CallStates]
    BY <2>1, Types, GotoTyped
  <2>2. CASE InsertIssuerKey(k)
    <3>1. StoredKey(k) \in Calls \cup {NoCall}
      BY Types, OwnerTyped DEF StoredKey
    <3> QED
      BY <2>2, <3>1, <2>1, Types DEF InsertIssuerKey, Throws, CallStates, CallPcs
  <2>3. CASE InsertCard(k)
    BY <2>3, <2>1, Types DEF InsertCard, Throws, CallStates, CallPcs
  <2>4. CASE DeleteCard(k) \/ UpdateVersion(k)
    <3>1. \/ Goto(k, "blocked") \/ Goto(k, "issuer") \/ Goto(k, "refused") \/ Goto(k, "complete")
      BY <2>4 DEF DeleteCard, UpdateVersion, Throws
    <3> QED
      BY <3>1, <2>1 DEF CallPcs
  <2>5. CASE AutoActivate(k) \/ CompleteRegistration(k) \/ AnswerKeys(k)
    <3>1. \/ Goto(k, "complete") \/ Goto(k, "answer") \/ Goto(k, "refused") \/ Goto(k, "done")
      BY <2>5 DEF AutoActivate, CompleteRegistration, AnswerKeys, Throws
    <3> QED
      BY <3>1, <2>1 DEF CallPcs
  <2> QED
    BY <2>2, <2>3, <2>4, <2>5
<1> QED
  BY <1>1, <1>2, <1>3, <1>4, <1>5, <1>6, <1>7, Types DEF TypeOK, RowStates, CallStates, CallPcs

LEMMA ChipTyped ==
  ASSUME TypeOK,
         \/ ProgramChip \/ EraseChip \/ ActivateCard \/ DisableCard \/ WipeCard
         \/ \E g \in Registrations : RegistrationExpires(g)
  PROVE  TypeOK'
<1>1. UNCHANGED <<ids, issuer, call, handed, tap>> /\ failures' \in [AllFaults -> Nat]
  BY Types, FaultTyped
     DEF ProgramChip, EraseChip, ActivateCard, DisableCard, WipeCard, SetStatus,
         RegistrationExpires
<1>2. row' \in RowStates
  BY Types
     DEF ProgramChip, EraseChip, ActivateCard, DisableCard, WipeCard, SetStatus,
         RegistrationExpires, RowStates, Statuses
<1>3. chip' \in [id: Nat, version: Nat, key: Calls \cup {NoCall}, n: Nat]
  BY Types
     DEF ProgramChip, EraseChip, ActivateCard, DisableCard, WipeCard, SetStatus,
         RegistrationExpires
<1>4. reg' \in [Registrations -> [status: {"PENDING", "COMPLETED", "EXPIRED"}, card: Nat]]
  BY Types
     DEF ProgramChip, EraseChip, ActivateCard, DisableCard, WipeCard, SetStatus,
         RegistrationExpires
<1> QED
  BY <1>1, <1>2, <1>3, <1>4, Types DEF TypeOK, RowStates, CallStates, CallPcs

LEMMA TapTyped ==
  ASSUME TypeOK, NEW t \in Taps,
         \/ TapChip(t) \/ LookAtCard(t) \/ UpdateLastCounter(t)
         \/ \E u \in Taps : AskAgain(t, u)
  PROVE  TypeOK'
<1>1. UNCHANGED <<ids, issuer, reg, call, handed>> /\ failures' \in [AllFaults -> Nat]
  BY Types, FaultTyped DEF TapChip, LookAtCard, UpdateLastCounter, AskAgain
<1>2. row' \in RowStates
  BY Types DEF TapChip, LookAtCard, UpdateLastCounter, AskAgain, RowStates
<1>3. chip' \in [id: Nat, version: Nat, key: Calls \cup {NoCall}, n: Nat]
  BY Types DEF TapChip, LookAtCard, UpdateLastCounter, AskAgain
<1>4. tap' \in [Taps -> [pc: {"idle", "look", "counter", "ok", "refused"},
                         id: Nat, version: Nat, key: Calls \cup {NoCall}, n: Nat]]
  <2>1. CASE TapChip(t)
    BY <2>1, Types DEF TapChip
  <2>2. CASE LookAtCard(t) \/ UpdateLastCounter(t)
    <3>1. TapGoto(t, "counter") \/ TapGoto(t, "refused") \/ TapGoto(t, "ok")
      BY <2>2 DEF LookAtCard, UpdateLastCounter
    <3> QED
      BY <3>1, Types DEF TapGoto
  <2>3. ASSUME NEW u \in Taps, AskAgain(t, u)
        PROVE  tap' \in [Taps -> [pc: {"idle", "look", "counter", "ok", "refused"},
                                  id: Nat, version: Nat, key: Calls \cup {NoCall}, n: Nat]]
    BY <2>3, Types DEF AskAgain
  <2> QED
    BY <2>1, <2>2, <2>3
<1> QED
  BY <1>1, <1>2, <1>3, <1>4, Types DEF TypeOK, RowStates, CallStates, CallPcs

LEMMA AlwaysTyped == Spec => []TypeOK
<1>1. Init => TypeOK
  <2> SUFFICES ASSUME Init PROVE TypeOK
    OBVIOUS
  <2>1. row \in RowStates /\ ids \in Nat
    BY DEF Init, NoRow, RowStates, Statuses
  <2>2. /\ issuer \in [Owners -> Calls \cup {NoCall}]
        /\ reg \in [Registrations -> [status: {"PENDING", "COMPLETED", "EXPIRED"}, card: Nat]]
        /\ failures \in [AllFaults -> Nat]
    BY DEF Init
  <2>3. /\ handed \in [id: Nat, version: Nat, key: Calls \cup {NoCall}]
        /\ chip \in [id: Nat, version: Nat, key: Calls \cup {NoCall}, n: Nat]
    BY DEF Init, Blank
  <2>4. tap \in [Taps -> [pc: {"idle", "look", "counter", "ok", "refused"},
                          id: Nat, version: Nat, key: Calls \cup {NoCall}, n: Nat]]
    BY DEF Init, Untapped
  <2>5. call \in [Calls -> CallStates]
    BY DEF Init, CallStates, CallPcs
  <2> QED
    BY <2>1, <2>2, <2>3, <2>4, <2>5, Types
<1>2. TypeOK /\ [Next]_vars => TypeOK'
  <2> SUFFICES ASSUME TypeOK, [Next]_vars PROVE TypeOK'
    OBVIOUS
  <2>1. CASE UNCHANGED vars
    BY <2>1 DEF vars, TypeOK
  <2>2. ASSUME NEW k \in Calls, Handle(k) PROVE TypeOK'
    <3>1. CASE \/ Begin(k) \/ FindCard(k) \/ DeleteHistory(k) \/ RereadCard(k)
               \/ SelectIssuerKey(k)
      BY <3>1, LookTyped, Types DEF TypeOK, RowStates, CallStates, CallPcs
    <3> QED
      BY <2>2, <3>1, WriteTyped DEF Handle
  <2> QED
    BY <2>1, <2>2, ChipTyped, TapTyped DEF Next
<1> QED
  BY <1>1, <1>2, PTL DEF Spec

\* The row, the chip and the requests keep their shapes under every fault.
THEOREM TypeCorrect == Spec => []TypeOK
BY AlwaysTyped

-----------------------------------------------------------------------------
(***************************************************************************)
(* KeysAreDerivable.  A call writes the key it carries, so what it carries *)
(* has to be its owner's once it may write it; and a call that re-programs *)
(* the row it has seen has to be the owner of that row, which holds        *)
(* because ids are not used again.                                         *)
(***************************************************************************)
CallKeys(k) ==
  /\ call[k].seen <= ids
  /\ call[k].pc = "insert" => call[k].key # NoCall /\ call[k].key = issuer[Owner(k)]
  /\ call[k].pc \in {"history", "delete", "reread", "update"} => call[k].seen # 0
  /\ call[k].pc \in {"reread", "update"} /\ row.id = call[k].seen => row.owner = Owner(k)
  /\ call[k].pc = "update" /\ row.id = call[k].seen =>
       call[k].key # NoCall /\ call[k].key = issuer[Owner(k)]

RowKeys ==
  /\ row.id <= ids
  /\ row.id # 0 => row.owner \in Owners /\ row.key # NoCall /\ row.key = issuer[row.owner]

KeyInv == RowKeys /\ \A k \in Calls : CallKeys(k)

LEMMA LookKeepsKeys ==
  ASSUME TypeOK, TypeOK', KeyInv, NEW k \in Calls,
         \/ Begin(k) \/ FindCard(k) \/ DeleteHistory(k) \/ RereadCard(k) \/ SelectIssuerKey(k)
         \/ CompleteRegistration(k) \/ AnswerKeys(k)
  PROVE  KeyInv'
<1>1. /\ UNCHANGED <<row, ids, issuer>>
      /\ \A j \in Calls \ {k} : call'[j] = call[j]
      /\ call'[k].reg = call[k].reg
      /\ row \in RowStates /\ ids \in Nat /\ call[k] \in CallStates
  BY Types DEF Begin, FindCard, DeleteHistory, RereadCard, SelectIssuerKey,
               CompleteRegistration, AnswerKeys, Goto, Throws, CallStates
<1>2. Owner(k)' = Owner(k) /\ Owner(k) \in Owners
  BY <1>1, Types, OwnerTyped DEF Owner
<1>3. CallKeys(k) /\ RowKeys
  BY DEF KeyInv
<1>4. ASSUME NEW pc, Goto(k, pc),
             pc \in {"issuer", "find", "refused", "answer", "done"}
             \/ (pc = "delete" /\ call[k].pc = "history")
      PROVE  CallKeys(k)'
  <2>1. call'[k].pc = pc /\ call'[k].seen = call[k].seen
    BY <1>4, Types DEF Goto, CallStates
  <2> QED
    BY <1>1, <1>3, <1>4, <2>1 DEF CallKeys
<1>5. ASSUME Begin(k) \/ DeleteHistory(k) \/ CompleteRegistration(k) \/ AnswerKeys(k)
      PROVE  CallKeys(k)'
  <2>1. \/ \E pc \in {"issuer", "find", "refused", "answer", "done"} : Goto(k, pc)
        \/ Goto(k, "delete") /\ call[k].pc = "history"
    <3>1. \/ Goto(k, "issuer") \/ Goto(k, "find") \/ Goto(k, "refused")
          \/ Goto(k, "answer") \/ Goto(k, "done")
          \/ Goto(k, "delete") /\ call[k].pc = "history"
      BY <1>5 DEF Begin, DeleteHistory, CompleteRegistration, AnswerKeys, Throws
    <3> QED
      BY <3>1
  <2> QED
    BY <1>4, <2>1
<1>6. ASSUME FindCard(k) PROVE CallKeys(k)'
  <2>1. CASE Goto(k, "issuer")
    BY <1>4, <2>1
  <2>2. CASE call' = [call EXCEPT ![k].pc = Branch(k), ![k].seen = row.id]
    <3>1. call'[k].pc = Branch(k) /\ call'[k].seen = row.id
      BY <2>2, Types DEF CallStates
    <3>2. \/ Branch(k) = "issuer" \/ Branch(k) = "refused"
          \/ Branch(k) = "history" /\ row.id # 0
          \/ Branch(k) = "reread" /\ row.id # 0 /\ row.owner = Owner(k)
      <4>1. CASE row.id = 0
        BY <4>1 DEF Branch
      <4>2. CASE row.id # 0 /\ row.status = "WIPED"
        BY <4>2 DEF Branch
      <4>3. CASE row.id # 0 /\ row.status # "WIPED" /\ row.owner = Owner(k)
        BY <4>3 DEF Branch
      <4>4. CASE row.id # 0 /\ row.status # "WIPED" /\ row.owner # Owner(k)
        BY <4>4 DEF Branch
      <4> QED
        BY <4>1, <4>2, <4>3, <4>4
    <3> QED
      BY <1>1, <1>2, <1>3, <3>1, <3>2 DEF CallKeys, RowKeys
  <2> QED
    BY <1>6, <2>1, <2>2 DEF FindCard
<1>7. ASSUME RereadCard(k) PROVE CallKeys(k)'
  <2>1. CASE Goto(k, "refused")
    BY <1>4, <2>1
  <2>2. CASE ~Goto(k, "refused")
    <3>1. /\ call[k].pc = "reread"
          /\ call'[k].pc = IF row.id = call[k].seen THEN "update" ELSE "refused"
          /\ call'[k].seen = call[k].seen
          /\ call'[k].key = issuer[Owner(k)]
      BY <1>7, <2>2, Types DEF RereadCard, Throws, CallStates
    <3> QED
      BY <1>1, <1>2, <1>3, <3>1 DEF CallKeys, RowKeys
  <2> QED
    BY <2>1, <2>2
<1>8. ASSUME SelectIssuerKey(k) PROVE CallKeys(k)'
  <2>1. CASE Goto(k, "refused")
    BY <1>4, <2>1
  <2>2. CASE ~Goto(k, "refused")
    <3>1. /\ call'[k].pc = IF issuer[Owner(k)] = NoCall THEN "newkey" ELSE "insert"
          /\ call'[k].seen = call[k].seen
          /\ call'[k].key = issuer[Owner(k)]
      BY <1>8, <2>2, Types DEF SelectIssuerKey, Throws, CallStates
    <3> QED
      BY <1>1, <1>2, <1>3, <3>1 DEF CallKeys
  <2> QED
    BY <2>1, <2>2
<1>9. CallKeys(k)'
  BY <1>5, <1>6, <1>7, <1>8
<1>10. \A j \in Calls \ {k} : CallKeys(j)'
  BY <1>1 DEF KeyInv, CallKeys, Owner
<1>11. RowKeys'
  BY <1>1, <1>3 DEF RowKeys
<1> QED
  BY <1>9, <1>10, <1>11 DEF KeyInv

LEMMA IssuerKeepsKeys ==
  ASSUME TypeOK, KeyInv, NEW k \in Calls, InsertIssuerKey(k)
  PROVE  KeyInv'
<1>1. /\ UNCHANGED <<row, ids>>
      /\ \A j \in Calls \ {k} : call'[j] = call[j]
      /\ call'[k].reg = call[k].reg /\ call'[k].seen = call[k].seen
      /\ call[k] \in CallStates
      /\ \A o \in Owners : issuer[o] # NoCall => issuer'[o] = issuer[o]
  BY Types DEF InsertIssuerKey, Goto, Throws, CallStates
<1>2. \A j \in Calls : Owner(j)' = Owner(j) /\ Owner(j) \in Owners
  BY <1>1, Types, OwnerTyped DEF Owner
<1>3. RowKeys'
  BY <1>1 DEF KeyInv, RowKeys
<1>4. \A j \in Calls \ {k} : CallKeys(j)'
  BY <1>1, <1>2 DEF KeyInv, CallKeys
<1>5. \/ call'[k].pc = "refused"
      \/ call'[k].pc = "insert" /\ call'[k].key = StoredKey(k) /\ issuer'[Owner(k)] = StoredKey(k)
  BY <1>2, Types DEF InsertIssuerKey, StoredKey, Goto, Throws, CallStates
<1>6. StoredKey(k) # NoCall
  BY BoltcardCardsAssumption DEF StoredKey
<1>7. CallKeys(k)'
  BY <1>1, <1>2, <1>5, <1>6 DEF KeyInv, CallKeys
<1> QED
  BY <1>3, <1>4, <1>7 DEF KeyInv

LEMMA InsertKeepsKeys ==
  ASSUME TypeOK, KeyInv, NEW k \in Calls, InsertCard(k)
  PROVE  KeyInv'
<1>1. /\ issuer' = issuer
      /\ \A j \in Calls \ {k} : call'[j] = call[j]
      /\ call'[k].reg = call[k].reg
      /\ call'[k].pc \in {"answer", "activate", "refused"}
      /\ ids \in Nat /\ \A j \in Calls : call[j].seen \in Nat
  BY Types DEF InsertCard, Goto, Throws, CallStates
<1>2. \A j \in Calls : Owner(j)' = Owner(j) /\ Owner(j) \in Owners
  BY <1>1, Types, OwnerTyped DEF Owner
<1>3. CASE row' = row /\ ids' = ids /\ call'[k].seen = call[k].seen
  BY <1>1, <1>2, <1>3 DEF KeyInv, RowKeys, CallKeys
<1>4. CASE /\ row.id = 0 /\ ids' = ids + 1 /\ call[k].pc = "insert"
           /\ row' = [id |-> ids + 1, owner |-> Owner(k), status |-> "PENDING",
                      version |-> 1, key |-> call[k].key, counter |-> 0]
           /\ call'[k].seen = ids + 1
  <2>1. RowKeys'
    BY <1>1, <1>2, <1>4 DEF KeyInv, RowKeys, CallKeys
  <2>2. \A j \in Calls \ {k} : CallKeys(j)'
    BY <1>1, <1>2, <1>4 DEF KeyInv, CallKeys
  <2>3. CallKeys(k)'
    BY <1>1, <1>4 DEF KeyInv, CallKeys
  <2> QED
    BY <2>1, <2>2, <2>3 DEF KeyInv
<1> QED
  BY <1>3, <1>4, Types DEF InsertCard, Goto, Throws, CallStates

LEMMA RowKeepsKeys ==
  ASSUME TypeOK, KeyInv, NEW k \in Calls, DeleteCard(k) \/ UpdateVersion(k) \/ AutoActivate(k)
  PROVE  KeyInv'
<1>1. /\ UNCHANGED <<ids, issuer>>
      /\ \A j \in Calls \ {k} : call'[j] = call[j]
      /\ call'[k].reg = call[k].reg /\ call'[k].seen = call[k].seen
      /\ call'[k].pc \in {"blocked", "issuer", "refused", "complete"}
      /\ ids \in Nat
  BY Types DEF DeleteCard, UpdateVersion, AutoActivate, Goto, Throws, CallStates
<1>2. \A j \in Calls : Owner(j)' = Owner(j) /\ Owner(j) \in Owners
  BY <1>1, Types, OwnerTyped DEF Owner
<1>3. \/ row' = NoRow
      \/ row'.id = row.id /\ row'.owner = row.owner /\ row'.key = row.key
      \/ /\ call[k].pc = "update" /\ row.id = call[k].seen
         /\ row'.id = row.id /\ row'.owner = row.owner /\ row'.key = call[k].key
  BY Types DEF DeleteCard, UpdateVersion, AutoActivate, Activated, RowStates
<1>4. RowKeys'
  BY <1>1, <1>2, <1>3 DEF KeyInv, RowKeys, CallKeys, NoRow
<1>5. row'.id \in {0, row.id} /\ (row'.id # 0 => row'.owner = row.owner)
  BY <1>3 DEF NoRow
<1>6. ASSUME NEW j \in Calls PROVE CallKeys(j)'
  BY <1>1, <1>2, <1>5 DEF KeyInv, CallKeys
<1> QED
  BY <1>4, <1>6 DEF KeyInv

LEMMA OthersKeepKeys ==
  ASSUME TypeOK, KeyInv,
         \/ UNCHANGED vars
         \/ ProgramChip \/ EraseChip \/ ActivateCard \/ DisableCard \/ WipeCard
         \/ \E g \in Registrations : RegistrationExpires(g)
         \/ \E t \in Taps : \/ TapChip(t) \/ LookAtCard(t) \/ UpdateLastCounter(t)
                            \/ \E u \in Taps : AskAgain(t, u)
  PROVE  KeyInv'
<1>1. UNCHANGED <<ids, issuer, call>>
  BY DEF ProgramChip, EraseChip, ActivateCard, DisableCard, WipeCard, SetStatus,
         RegistrationExpires, TapChip, LookAtCard, UpdateLastCounter, AskAgain, vars
<1>2. row'.id = row.id /\ row'.owner = row.owner /\ row'.key = row.key
  BY Types
     DEF ProgramChip, EraseChip, ActivateCard, DisableCard, WipeCard, SetStatus,
         RegistrationExpires, TapChip, LookAtCard, UpdateLastCounter, AskAgain, vars, RowStates
<1> QED
  BY <1>1, <1>2 DEF KeyInv, RowKeys, CallKeys, Owner

LEMMA AlwaysKeyInv == Spec => []KeyInv
<1>1. Init => KeyInv
  BY DEF Init, KeyInv, RowKeys, CallKeys, NoRow
<1>2. TypeOK /\ TypeOK' /\ KeyInv /\ [Next]_vars => KeyInv'
  <2> SUFFICES ASSUME TypeOK, TypeOK', KeyInv, [Next]_vars PROVE KeyInv'
    OBVIOUS
  <2>1. ASSUME NEW k \in Calls, Handle(k) PROVE KeyInv'
    BY <2>1, LookKeepsKeys, IssuerKeepsKeys, InsertKeepsKeys, RowKeepsKeys DEF Handle
  <2> QED
    BY <2>1, OthersKeepKeys DEF Next
<1> QED
  BY <1>1, <1>2, AlwaysTyped, PTL DEF Spec

\* The keys of a card can be derived again from its owner's stored IssuerKey,
\* however many first registrations of the owner race for that key
\* (getOrCreateIssuerKey, store.ts:384) and whichever queries fail.
THEOREM KeysStayDerivable == Spec => []KeysAreDerivable
<1>1. KeyInv => KeysAreDerivable
  BY DEF KeyInv, RowKeys, KeysAreDerivable
<1> QED
  BY <1>1, AlwaysKeyInv, PTL

-----------------------------------------------------------------------------
(***************************************************************************)
(* LiveCardIsKept.  As long as no call begins during another one, a call   *)
(* that is about to delete a row has seen it WIPED and it still is, since  *)
(* only re-programming ends that status.                                   *)
(***************************************************************************)
Alone == \A j, k \in Calls : Running(j) /\ Running(k) => j = k

SeenWiped(k) ==
  call[k].pc \in {"history", "delete"} /\ row.id = call[k].seen => row.status = "WIPED"

AloneInv == Happened("overlap") \/ (Alone /\ \A k \in Calls : SeenWiped(k))

\* A step of a call that was running: nobody else begins.
LEMMA HandlerKeepsAlone ==
  ASSUME TypeOK, KeyInv, AloneInv, NEW k \in Calls, Handle(k), ~Begin(k)
  PROVE  AloneInv'
<1>1. /\ Running(k)
      /\ \A j \in Calls \ {k} : call'[j] = call[j]
      /\ call[k] \in CallStates
  BY Types
     DEF Handle, FindCard, DeleteHistory, DeleteCard, RereadCard, UpdateVersion,
         SelectIssuerKey, InsertIssuerKey, InsertCard, AutoActivate, CompleteRegistration,
         AnswerKeys, Goto, Throws, Running
<1>2. failures' = failures \/ Fault("dbError")
  BY DEF Handle, FindCard, DeleteHistory, DeleteCard, RereadCard, UpdateVersion,
         SelectIssuerKey, InsertIssuerKey, InsertCard, AutoActivate, CompleteRegistration,
         AnswerKeys, Throws
<1>3. "overlap" \in AllFaults /\ Happened("overlap")' = Happened("overlap")
  BY <1>2, Types, FaultTyped DEF Happened, AllFaults
<1>4. CASE Happened("overlap")
  BY <1>3, <1>4 DEF AloneInv
<1>5. CASE ~Happened("overlap")
  <2>1. Alone /\ \A j \in Calls : SeenWiped(j)
    BY <1>5 DEF AloneInv
  <2>2. \A j \in Calls \ {k} : ~Running(j) /\ ~Running(j)'
    BY <1>1, <2>1 DEF Alone, Running
  <2>3. Alone'
    BY <2>2 DEF Alone
  <2>4. \A j \in Calls \ {k} : SeenWiped(j)'
    BY <2>2 DEF Running, SeenWiped
  <2>5. SeenWiped(k)'
    <3>1. CASE FindCard(k)
      <4>1. CASE Goto(k, "issuer")
        BY <4>1, Types DEF Goto, SeenWiped, CallStates
      <4>2. CASE call' = [call EXCEPT ![k].pc = Branch(k), ![k].seen = row.id]
        <5>1. call'[k].pc = Branch(k) /\ row' = row
          BY <3>1, <4>2, Types DEF FindCard, CallStates
        <5>2. Branch(k) \in {"history", "delete"} => row.status = "WIPED"
          BY DEF Branch
        <5> QED
          BY <5>1, <5>2 DEF SeenWiped
      <4> QED
        BY <3>1, <4>1, <4>2 DEF FindCard
    <3>2. CASE DeleteHistory(k)
      <4>1. /\ call[k].pc = "history" /\ row' = row /\ call'[k].seen = call[k].seen
        BY <3>2, Types DEF DeleteHistory, Goto, Throws, CallStates
      <4> QED
        BY <2>1, <4>1 DEF SeenWiped
    <3>3. CASE ~FindCard(k) /\ ~DeleteHistory(k)
      <4>1. call'[k].pc \notin {"history", "delete"}
        BY <3>3, <1>1, Types
           DEF Handle, DeleteCard, RereadCard, UpdateVersion, SelectIssuerKey, InsertIssuerKey,
               InsertCard, AutoActivate, CompleteRegistration, AnswerKeys, Goto, Throws, CallStates
      <4> QED
        BY <4>1 DEF SeenWiped
    <3> QED
      BY <3>1, <3>2, <3>3
  <2> QED
    BY <2>3, <2>4, <2>5 DEF AloneInv
<1> QED
  BY <1>4, <1>5

LEMMA BeginKeepsAlone ==
  ASSUME TypeOK, AloneInv, NEW k \in Calls, Begin(k)
  PROVE  AloneInv'
<1>1. /\ call[k].pc = "idle" /\ row' = row
      /\ \A j \in Calls \ {k} : call'[j] = call[j]
      /\ call'[k].pc \in {"issuer", "find", "refused"}
  BY Types DEF Begin, Goto, CallStates
<1>2. "overlap" \in AllFaults
  BY DEF AllFaults
<1>3. CASE Fault("overlap")
  BY <1>2, <1>3, Types, FaultTyped DEF AloneInv, Happened
<1>4. CASE UNCHANGED failures /\ \A j \in Calls : ~Running(j)
  <2>1. \A j \in Calls \ {k} : ~Running(j)'
    BY <1>1, <1>4 DEF Running
  <2>2. Alone'
    BY <2>1 DEF Alone
  <2>3. \A j \in Calls : SeenWiped(j)'
    BY <1>1, <2>1 DEF SeenWiped, Running
  <2> QED
    BY <2>2, <2>3 DEF AloneInv
<1> QED
  BY <1>3, <1>4 DEF Begin

LEMMA OthersKeepAlone ==
  ASSUME TypeOK, AloneInv,
         \/ UNCHANGED vars
         \/ ProgramChip \/ EraseChip \/ ActivateCard \/ DisableCard \/ WipeCard
         \/ \E g \in Registrations : RegistrationExpires(g)
         \/ \E t \in Taps : \/ TapChip(t) \/ LookAtCard(t) \/ UpdateLastCounter(t)
                            \/ \E u \in Taps : AskAgain(t, u)
  PROVE  AloneInv'
<1>1. call' = call
  BY DEF ProgramChip, EraseChip, ActivateCard, DisableCard, WipeCard, SetStatus,
         RegistrationExpires, TapChip, LookAtCard, UpdateLastCounter, AskAgain, vars
<1>2. row'.id = row.id /\ (row.status = "WIPED" => row'.status = "WIPED")
  BY Types
     DEF ProgramChip, EraseChip, ActivateCard, DisableCard, WipeCard, SetStatus,
         RegistrationExpires, TapChip, LookAtCard, UpdateLastCounter, AskAgain, vars, RowStates
<1>3. failures' = failures \/ Fault("dbError") \/ Fault("late")
  BY DEF ProgramChip, EraseChip, ActivateCard, DisableCard, WipeCard, SetStatus,
         RegistrationExpires, TapChip, LookAtCard, UpdateLastCounter, AskAgain, vars
<1>4. "overlap" \in AllFaults /\ Happened("overlap")' = Happened("overlap")
  BY <1>3, Types, FaultTyped DEF Happened, AllFaults
<1> QED
  BY <1>1, <1>2, <1>4 DEF AloneInv, Alone, SeenWiped, Running

LEMMA AlwaysAlone == Spec => []AloneInv
<1>1. Init => AloneInv
  BY DEF Init, AloneInv, Alone, SeenWiped, Running
<1>2. TypeOK /\ KeyInv /\ AloneInv /\ [Next]_vars => AloneInv'
  <2> SUFFICES ASSUME TypeOK, KeyInv, AloneInv, [Next]_vars PROVE AloneInv'
    OBVIOUS
  <2>1. ASSUME NEW k \in Calls, Handle(k) PROVE AloneInv'
    BY <2>1, HandlerKeepsAlone, BeginKeepsAlone
  <2> QED
    BY <2>1, OthersKeepAlone DEF Next
<1> QED
  BY <1>1, <1>2, AlwaysTyped, AlwaysKeyInv, PTL DEF Spec

\* A card that has not been wiped keeps its row and its owner, unless a call
\* began while another one was running (store.ts:569-600).
THEOREM LiveCardStays == Spec => LiveCardIsKept
<1>1. /\ TypeOK /\ TypeOK' /\ KeyInv /\ AloneInv /\ [Next]_vars
      => \/ row.id # 0 /\ row.status # "WIPED" /\ (row'.id # row.id \/ row'.owner # row.owner)
            => Happened("overlap")
         \/ UNCHANGED vars
  <2> SUFFICES ASSUME TypeOK, KeyInv, AloneInv, Next,
                      row.id # 0, row.status # "WIPED", ~Happened("overlap")
               PROVE  row'.id = row.id /\ row'.owner = row.owner
    OBVIOUS
  <2>1. ASSUME NEW k \in Calls, Handle(k) PROVE row'.id = row.id /\ row'.owner = row.owner
    <3>1. CASE DeleteCard(k)
      <4>1. row.id # call[k].seen
        BY <3>1 DEF DeleteCard, AloneInv, SeenWiped
      <4> QED
        BY <3>1, <4>1 DEF DeleteCard
    <3>2. CASE InsertCard(k)
      BY <3>2 DEF InsertCard
    <3>3. CASE UpdateVersion(k) \/ AutoActivate(k)
      BY <3>3, Types DEF UpdateVersion, AutoActivate, Activated, RowStates
    <3> QED
      BY <2>1, <3>1, <3>2, <3>3
         DEF Handle, Begin, FindCard, DeleteHistory, RereadCard, SelectIssuerKey,
             InsertIssuerKey, CompleteRegistration, AnswerKeys
  <2>2. CASE \/ ProgramChip \/ EraseChip \/ ActivateCard \/ DisableCard \/ WipeCard
             \/ \E g \in Registrations : RegistrationExpires(g)
             \/ \E t \in Taps : \/ TapChip(t) \/ LookAtCard(t) \/ UpdateLastCounter(t)
                                \/ \E u \in Taps : AskAgain(t, u)
    BY <2>2, Types
       DEF ProgramChip, EraseChip, ActivateCard, DisableCard, WipeCard, SetStatus,
           RegistrationExpires, TapChip, LookAtCard, UpdateLastCounter, AskAgain, RowStates
  <2> QED
    BY <2>1, <2>2 DEF Next
<1> QED
  BY <1>1, AlwaysTyped, AlwaysKeyInv, AlwaysAlone, PTL DEF Spec, LiveCardIsKept

-----------------------------------------------------------------------------
(***************************************************************************)
(* What any step does: who writes the row, the calls and the three places  *)
(* that carry a card's id and version (the response, the chip, the taps).  *)
(***************************************************************************)
OtherSteps ==
  \/ UNCHANGED vars
  \/ ProgramChip \/ EraseChip \/ ActivateCard \/ DisableCard \/ WipeCard
  \/ \E g \in Registrations : RegistrationExpires(g)
  \/ \E t \in Taps : \/ TapChip(t) \/ LookAtCard(t) \/ UpdateLastCounter(t)
                     \/ \E u \in Taps : AskAgain(t, u)

LEMMA StepKinds ==
  ASSUME [Next]_vars
  PROVE  OtherSteps \/ \E k \in Calls : Handle(k)
BY DEF Next, OtherSteps

LEMMA OthersFrame ==
  ASSUME TypeOK, OtherSteps
  PROVE  /\ UNCHANGED <<ids, issuer, call, handed>>
         /\ row'.id = row.id /\ row'.version = row.version /\ row'.key = row.key
         /\ row'.counter >= row.counter
         /\ failures' = failures \/ Fault("dbError") \/ Fault("late")
<1>1. UNCHANGED <<ids, issuer, call, handed>>
  BY DEF OtherSteps, ProgramChip, EraseChip, ActivateCard, DisableCard, WipeCard, SetStatus,
         RegistrationExpires, TapChip, LookAtCard, UpdateLastCounter, AskAgain, vars
<1>2. failures' = failures \/ Fault("dbError") \/ Fault("late")
  BY DEF OtherSteps, ProgramChip, EraseChip, ActivateCard, DisableCard, WipeCard, SetStatus,
         RegistrationExpires, TapChip, LookAtCard, UpdateLastCounter, AskAgain, vars
<1>3. ASSUME NEW t \in Taps, UpdateLastCounter(t)
      PROVE  /\ row'.id = row.id /\ row'.version = row.version /\ row'.key = row.key
             /\ row'.counter >= row.counter
  BY <1>3, Types DEF UpdateLastCounter, CounterMoves, RowStates
<1>4. ASSUME ~\E t \in Taps : UpdateLastCounter(t)
      PROVE  /\ row'.id = row.id /\ row'.version = row.version /\ row'.key = row.key
             /\ row'.counter >= row.counter
  BY <1>4, Types
     DEF OtherSteps, ProgramChip, EraseChip, ActivateCard, DisableCard, WipeCard, SetStatus,
         RegistrationExpires, TapChip, LookAtCard, AskAgain, vars, RowStates
<1> QED
  BY <1>1, <1>2, <1>3, <1>4

LEMMA HandleFrame ==
  ASSUME TypeOK, NEW k \in Calls, Handle(k)
  PROVE  /\ \A j \in Calls \ {k} : call'[j] = call[j]
         /\ UNCHANGED <<chip, tap>>
         /\ handed' = handed \/ (call[k].pc = "answer" /\ handed' = KeysOfRow(k))
         /\ failures' = failures \/ Fault("dbError") \/ Fault("overlap")
<1>1. \A j \in Calls \ {k} : call'[j] = call[j]
  BY Types
     DEF Handle, Begin, FindCard, DeleteHistory, DeleteCard, RereadCard, UpdateVersion,
         SelectIssuerKey, InsertIssuerKey, InsertCard, AutoActivate, CompleteRegistration,
         AnswerKeys, Goto, Throws
<1>2. /\ UNCHANGED <<chip, tap>>
      /\ handed' = handed \/ (call[k].pc = "answer" /\ handed' = KeysOfRow(k))
  BY DEF Handle, Begin, FindCard, DeleteHistory, DeleteCard, RereadCard, UpdateVersion,
         SelectIssuerKey, InsertIssuerKey, InsertCard, AutoActivate, CompleteRegistration,
         AnswerKeys
<1>3. failures' = failures \/ Fault("dbError") \/ Fault("overlap")
  BY DEF Handle, Begin, FindCard, DeleteHistory, DeleteCard, RereadCard, UpdateVersion,
         SelectIssuerKey, InsertIssuerKey, InsertCard, AutoActivate, CompleteRegistration,
         AnswerKeys, Throws
<1> QED
  BY <1>1, <1>2, <1>3

LEMMA FaultsStay ==
  ASSUME TypeOK, [Next]_vars, NEW f \in {"dbError", "overlap"}, Happened(f)
  PROVE  Happened(f)'
<1>1. \/ failures' = failures
      \/ Fault("dbError") \/ Fault("late") \/ Fault("overlap")
  BY StepKinds, OthersFrame, HandleFrame
<1>2. f \in AllFaults /\ failures[f] \in Nat
  BY Types DEF AllFaults
<1> QED
  BY <1>1, <1>2, FaultTyped, Types DEF Happened

LEMMA ThrowsCounts ==
  ASSUME TypeOK, Fault("dbError")
  PROVE  Happened("dbError")'
<1>1. "dbError" \in AllFaults /\ failures["dbError"] \in Nat
  BY Types DEF AllFaults
<1> QED
  BY <1>1, FaultTyped, Types DEF Happened

\* The call k has re-programmed the row.
Rewrites(k) ==
  /\ call[k].pc = "update" /\ call[k].seen = row.id
  /\ call'[k] = [call[k] EXCEPT !.pc = "complete"]
  /\ UNCHANGED <<ids, handed, chip, tap>>
  /\ row'.id = row.id /\ row'.version = call[k].version + 1

\* The call k has created the row.
Creates(k) ==
  /\ ids' = ids + 1 /\ row'.id = ids + 1 /\ row'.version = 1
  /\ call'[k].seen = ids + 1 /\ UNCHANGED <<handed, chip, tap>>

Keeps ==
  /\ ids' = ids /\ row'.id = row.id /\ row'.version = row.version /\ row'.key = row.key
  /\ row'.counter >= row.counter

LEMMA HandleRow ==
  ASSUME TypeOK, NEW k \in Calls, Handle(k)
  PROVE  \/ Keeps
         \/ Rewrites(k)
         \/ Creates(k)
         \/ call[k].pc = "delete" /\ ids' = ids /\ row'.id = 0 /\ handed' = handed
<1>1. CASE UpdateVersion(k)
  <2>1. CASE row' = row
    BY <1>1, <2>1, Types DEF UpdateVersion, Keeps, RowStates
  <2>2. CASE row' # row
    BY <1>1, <2>2, Types DEF UpdateVersion, Rewrites, Goto, Throws, RowStates, CallStates
  <2> QED
    BY <2>1, <2>2
<1>2. CASE InsertCard(k)
  <2>1. CASE row' = row /\ ids' = ids
    BY <2>1, Types DEF Keeps, RowStates
  <2>2. CASE ~(row' = row /\ ids' = ids)
    BY <1>2, <2>2, Types DEF InsertCard, Creates, CallStates
  <2> QED
    BY <2>1, <2>2
<1>3. CASE DeleteCard(k)
  BY <1>3, Types DEF DeleteCard, Keeps, NoRow, RowStates
<1>4. CASE AutoActivate(k)
  BY <1>4, Types DEF AutoActivate, Activated, Keeps, RowStates
<1>5. CASE \/ Begin(k) \/ FindCard(k) \/ DeleteHistory(k) \/ RereadCard(k)
           \/ SelectIssuerKey(k) \/ InsertIssuerKey(k)
           \/ CompleteRegistration(k) \/ AnswerKeys(k)
  BY <1>5, Types
     DEF Begin, FindCard, DeleteHistory, RereadCard, SelectIssuerKey, InsertIssuerKey,
         CompleteRegistration, AnswerKeys, Keeps, RowStates
<1> QED
  BY <1>1, <1>2, <1>3, <1>4, <1>5 DEF Handle

\* What carries an id and a version has them from somewhere else that does.
LEMMA OthersCarry ==
  ASSUME TypeOK, OtherSteps
  PROVE  /\ \/ chip'.id = chip.id /\ chip'.version = chip.version
            \/ chip'.id = handed.id /\ chip'.version = handed.version
            \/ chip'.id = 0
         /\ \A t \in Taps :
              \/ tap'[t].id = tap[t].id /\ tap'[t].version = tap[t].version
              \/ tap'[t].id = chip.id /\ tap'[t].version = chip.version
              \/ \E u \in Taps : tap'[t].id = tap[u].id /\ tap'[t].version = tap[u].version
<1>1. \/ chip'.id = chip.id /\ chip'.version = chip.version
      \/ chip'.id = handed.id /\ chip'.version = handed.version
      \/ chip'.id = 0
  BY Types
     DEF OtherSteps, ProgramChip, EraseChip, ActivateCard, DisableCard, WipeCard, SetStatus,
         RegistrationExpires, TapChip, LookAtCard, UpdateLastCounter, AskAgain, vars
<1>2. ASSUME NEW t \in Taps
      PROVE  \/ tap'[t].id = tap[t].id /\ tap'[t].version = tap[t].version
             \/ tap'[t].id = chip.id /\ tap'[t].version = chip.version
             \/ \E u \in Taps : tap'[t].id = tap[u].id /\ tap'[t].version = tap[u].version
  <2>1. CASE tap' = tap
    BY <2>1
  <2>2. ASSUME NEW s \in Taps, TapChip(s)
        PROVE  \/ tap'[t].id = tap[t].id /\ tap'[t].version = tap[t].version
               \/ tap'[t].id = chip.id /\ tap'[t].version = chip.version
    BY <2>2, Types DEF TapChip
  <2>3. ASSUME NEW s \in Taps, LookAtCard(s) \/ UpdateLastCounter(s)
        PROVE  tap'[t].id = tap[t].id /\ tap'[t].version = tap[t].version
    BY <2>3, Types DEF LookAtCard, UpdateLastCounter, TapGoto
  <2>4. ASSUME NEW s \in Taps, NEW u \in Taps, AskAgain(s, u)
        PROVE  \/ tap'[t].id = tap[t].id /\ tap'[t].version = tap[t].version
               \/ tap'[t].id = tap[u].id /\ tap'[t].version = tap[u].version
    BY <2>4, Types DEF AskAgain
  <2>5. tap' = tap \/ \E s \in Taps : \/ TapChip(s) \/ LookAtCard(s) \/ UpdateLastCounter(s)
                                       \/ \E u \in Taps : AskAgain(s, u)
    BY DEF OtherSteps, ProgramChip, EraseChip, ActivateCard, DisableCard, WipeCard, SetStatus,
           RegistrationExpires, vars
  <2> QED
    BY <2>1, <2>2, <2>3, <2>4, <2>5
<1> QED
  BY <1>1, <1>2

-----------------------------------------------------------------------------
(***************************************************************************)
(* AnsweredIsUsedUp.  The version of a card does not only grow: a late     *)
(* UPDATE may write an older one again.  What makes a version recognisable *)
(* is that a call which wrote it stays behind: it goes on to complete and  *)
(* answer, or has done so, and no query failed.  So whoever writes a       *)
(* version that some tap already carries is the second one to do it.       *)
(***************************************************************************)
Wrote(j, id, v) ==
  /\ call[j].pc \in {"complete", "answer", "done"}
  /\ call[j].seen = id /\ call[j].version + 1 = v

Known(id, v) == id = row.id /\ id # 0 => v = 1 \/ \E j \in Calls : Wrote(j, id, v)

GivenOut ==
  /\ handed.id <= ids /\ chip.id <= ids
  /\ \A t \in Taps : tap[t].id <= ids /\ (tap[t].pc # "idle" => tap[t].id # 0)

Numbered ==
  /\ row.id # 0 => row.version >= 1
  /\ \A k \in Calls : call[k].pc = "update" => call[k].version >= 1

VersionsKnown ==
  /\ Known(row.id, row.version)
  /\ Known(handed.id, handed.version) /\ Known(chip.id, chip.version)
  /\ \A t \in Taps : Known(tap[t].id, tap[t].version)

UsedUpInv ==
  /\ GivenOut /\ Numbered
  /\ Happened("dbError") \/ VersionsKnown
  /\ AnsweredIsUsedUp

LEMMA GivenOutStep ==
  ASSUME TypeOK, KeyInv, GivenOut, [Next]_vars
  PROVE  GivenOut'
<1>0. /\ ids \in Nat /\ row.id \in Nat /\ row.id <= ids
      /\ handed.id \in Nat /\ chip.id \in Nat /\ \A t \in Taps : tap[t].id \in Nat
  BY Types DEF KeyInv, RowKeys, RowStates
<1>1. CASE OtherSteps
  <2>1. handed'.id <= ids' /\ chip'.id <= ids'
    BY <1>0, <1>1, OthersFrame, OthersCarry DEF GivenOut
  <2>2. ASSUME NEW t \in Taps PROVE tap'[t].id <= ids'
    BY <1>0, <1>1, OthersFrame, OthersCarry DEF GivenOut
  <2>3. ASSUME NEW t \in Taps PROVE tap'[t].pc # "idle" => tap'[t].id # 0
    <3>1. CASE tap' = tap
      BY <3>1 DEF GivenOut
    <3>2. ASSUME NEW s \in Taps, TapChip(s) PROVE tap'[t].pc # "idle" => tap'[t].id # 0
      BY <3>2, Types DEF TapChip, GivenOut
    <3>3. ASSUME NEW s \in Taps, LookAtCard(s) \/ UpdateLastCounter(s)
          PROVE  tap'[t].pc # "idle" => tap'[t].id # 0
      BY <3>3, Types DEF LookAtCard, UpdateLastCounter, TapGoto, GivenOut
    <3>4. ASSUME NEW s \in Taps, NEW u \in Taps, AskAgain(s, u)
          PROVE  tap'[t].pc # "idle" => tap'[t].id # 0
      BY <3>4, Types DEF AskAgain, GivenOut
    <3> QED
      BY <1>1, <3>1, <3>2, <3>3, <3>4
         DEF OtherSteps, ProgramChip, EraseChip, ActivateCard, DisableCard, WipeCard, SetStatus,
             RegistrationExpires, vars
  <2> QED
    BY <2>1, <2>2, <2>3 DEF GivenOut
<1>2. ASSUME NEW k \in Calls, Handle(k) PROVE GivenOut'
  <2>1. ids' = ids \/ ids' = ids + 1
    BY <1>2, HandleRow DEF Keeps, Rewrites, Creates
  <2>2. chip' = chip /\ tap' = tap /\ (handed' = handed \/ handed'.id = row.id)
    BY <1>2, HandleFrame DEF KeysOfRow
  <2> QED
    BY <1>0, <2>1, <2>2 DEF GivenOut
<1> QED
  BY <1>1, <1>2, StepKinds

LEMMA NumberedStep ==
  ASSUME TypeOK, KeyInv, Numbered, [Next]_vars
  PROVE  Numbered'
<1>0. row \in RowStates /\ call \in [Calls -> CallStates] /\ ids \in Nat
  BY Types
<1>1. CASE OtherSteps
  BY <1>1, OthersFrame DEF Numbered
<1>2. ASSUME NEW k \in Calls, Handle(k) PROVE Numbered'
  <2>1. row'.id # 0 => row'.version >= 1
    <3>1. CASE Rewrites(k)
      BY <1>0, <3>1 DEF Rewrites, CallStates
    <3> QED
      BY <1>2, <3>1, HandleRow DEF Keeps, Creates, Numbered
  <2>2. call'[k].pc = "update" => call'[k].version >= 1
    <3>1. CASE RereadCard(k)
      <4>1. call[k].pc = "reread" /\ call[k].seen # 0
        BY <3>1 DEF RereadCard, KeyInv, CallKeys
      <4> QED
        BY <1>0, <3>1, <4>1 DEF RereadCard, Throws, Goto, Numbered, CallStates
    <3>2. CASE ~RereadCard(k)
      BY <1>0, <1>2, <3>2
         DEF Handle, Begin, FindCard, Branch, DeleteHistory, DeleteCard, UpdateVersion,
             SelectIssuerKey, InsertIssuerKey, InsertCard, AutoActivate,
             CompleteRegistration, AnswerKeys, Throws, Goto, CallStates
    <3> QED
      BY <3>1, <3>2
  <2> QED
    BY <1>2, <2>1, <2>2, HandleFrame DEF Numbered
<1> QED
  BY <1>1, <1>2, StepKinds

\* As long as no query fails whoever wrote the row stays behind.
LEMMA WritersStay ==
  ASSUME TypeOK, [Next]_vars, ~Happened("dbError")',
         NEW j \in Calls, NEW id \in Nat, NEW v \in Nat,
         Wrote(j, id, v), id = row.id
  PROVE  Wrote(j, id, v)'
<1>1. CASE call'[j] = call[j]
  BY <1>1 DEF Wrote
<1>2. CASE Handle(j)
  <2>1. ~Fault("dbError") /\ call[j] \in CallStates
    BY ThrowsCounts, Types
  <2>2. CASE CompleteRegistration(j)
    BY <2>1, <2>2, Types DEF CompleteRegistration, Throws, Goto, Wrote, CallStates
  <2>3. CASE AnswerKeys(j)
    BY <2>1, <2>3, Types DEF AnswerKeys, Throws, Goto, Wrote, CallStates
  <2>4. CompleteRegistration(j) \/ AnswerKeys(j)
    BY <1>2
       DEF Wrote, Handle, Begin, FindCard, DeleteHistory, DeleteCard, RereadCard, UpdateVersion,
           SelectIssuerKey, InsertIssuerKey, InsertCard, AutoActivate
  <2> QED
    BY <2>2, <2>3, <2>4
<1> QED
  BY <1>1, <1>2, StepKinds, OthersFrame, HandleFrame

LEMMA KnownStays ==
  ASSUME TypeOK, KeyInv, [Next]_vars, ~Happened("dbError")',
         NEW id \in Nat, NEW v \in Nat, Known(id, v), id <= ids
  PROVE  Known(id, v)'
<1>1. CASE id = row.id
  <2>1. ASSUME NEW j \in Calls, Wrote(j, id, v) PROVE Wrote(j, id, v)'
    BY <1>1, <2>1, WritersStay
  <2> QED
    BY <1>1, <2>1 DEF Known
<1>2. CASE id # row.id
  <2>1. row'.id = row.id \/ row'.id = 0 \/ row'.id = ids + 1
    BY StepKinds, OthersFrame, HandleRow DEF Keeps, Rewrites, Creates
  <2> QED
    BY <1>2, <2>1, Types DEF Known
<1> QED
  BY <1>1, <1>2

LEMMA CarriedStaysKnown ==
  ASSUME TypeOK, KeyInv, GivenOut, VersionsKnown, [Next]_vars, ~Happened("dbError")',
         NEW id \in Nat, NEW v \in Nat,
         \/ id = row.id /\ v = row.version
         \/ id = handed.id /\ v = handed.version
         \/ id = chip.id /\ v = chip.version
         \/ \E t \in Taps : id = tap[t].id /\ v = tap[t].version
  PROVE  id = row'.id /\ id # 0 => v = 1 \/ \E j \in Calls : Wrote(j, id, v)'
<1>1. Known(id, v) /\ id <= ids
  BY DEF VersionsKnown, GivenOut, KeyInv, RowKeys
<1>2. Known(id, v)'
  BY <1>1, KnownStays
<1> QED
  BY <1>2 DEF Known

LEMMA VersionsKnownStep ==
  ASSUME TypeOK, TypeOK', KeyInv, GivenOut, VersionsKnown, [Next]_vars, ~Happened("dbError")'
  PROVE  VersionsKnown'
<1> DEFINE KnownNext(id, v) ==
             id = row'.id /\ id # 0
             => v = 1 \/ \E j \in Calls : /\ call'[j].pc \in {"complete", "answer", "done"}
                                         /\ call'[j].seen = id /\ call'[j].version + 1 = v
<1>0. /\ row'.id \in Nat /\ row'.version \in Nat
      /\ handed'.id \in Nat /\ handed'.version \in Nat
      /\ chip'.id \in Nat /\ chip'.version \in Nat
      /\ \A t \in Taps : tap'[t].id \in Nat /\ tap'[t].version \in Nat
  BY Types, TypeOK' DEF TypeOK
<1>1. ASSUME NEW id \in Nat, NEW v \in Nat,
             \/ id = row.id /\ v = row.version
             \/ id = handed.id /\ v = handed.version
             \/ id = chip.id /\ v = chip.version
             \/ \E t \in Taps : id = tap[t].id /\ v = tap[t].version
      PROVE  KnownNext(id, v)
  BY <1>1, CarriedStaysKnown DEF Wrote
<1>2. ASSUME NEW id \in Nat, NEW v \in Nat, id = row'.id, v = row'.version
      PROVE  KnownNext(id, v)
  <2>1. CASE row'.id = row.id /\ row'.version = row.version
    BY <1>1, <1>2, <2>1
  <2>2. ASSUME NEW k \in Calls, Rewrites(k) PROVE KnownNext(id, v)
    <3>1. call'[k].pc = "complete" /\ call'[k].seen = row'.id /\ call'[k].version + 1 = row'.version
      BY <2>2, Types DEF Rewrites, CallStates
    <3> QED
      BY <1>2, <3>1
  <2>3. ASSUME NEW k \in Calls, Creates(k) PROVE KnownNext(id, v)
    BY <1>2, <2>3 DEF Creates
  <2>4. CASE row'.id = 0
    BY <1>2, <2>4
  <2> QED
    BY <2>1, <2>2, <2>3, <2>4, StepKinds, OthersFrame, HandleRow DEF Keeps
<1>3. ASSUME NEW id \in Nat, NEW v \in Nat, id = handed'.id, v = handed'.version
      PROVE  KnownNext(id, v)
  <2>1. \/ handed' = handed
        \/ handed'.id = row.id /\ handed'.version = row.version
    BY StepKinds, OthersFrame, HandleFrame DEF KeysOfRow
  <2> QED
    BY <1>1, <1>3, <2>1
<1>4. ASSUME NEW id \in Nat, NEW v \in Nat, id = chip'.id, v = chip'.version
      PROVE  KnownNext(id, v)
  <2>1. \/ chip'.id = chip.id /\ chip'.version = chip.version
        \/ chip'.id = handed.id /\ chip'.version = handed.version
        \/ chip'.id = 0
    BY StepKinds, OthersCarry, HandleFrame
  <2> QED
    BY <1>1, <1>4, <2>1
<1>5. ASSUME NEW t \in Taps, NEW id \in Nat, NEW v \in Nat, id = tap'[t].id, v = tap'[t].version
      PROVE  KnownNext(id, v)
  <2>1. \/ tap'[t].id = tap[t].id /\ tap'[t].version = tap[t].version
        \/ tap'[t].id = chip.id /\ tap'[t].version = chip.version
        \/ \E u \in Taps : tap'[t].id = tap[u].id /\ tap'[t].version = tap[u].version
    BY StepKinds, OthersCarry, HandleFrame
  <2> QED
    BY <1>1, <1>5, <2>1
<1>6. /\ KnownNext(row'.id, row'.version) /\ KnownNext(handed'.id, handed'.version)
      /\ KnownNext(chip'.id, chip'.version)
      /\ \A t \in Taps : KnownNext(tap'[t].id, tap'[t].version)
  <2> HIDE DEF KnownNext
  <2> QED
    BY <1>0, <1>2, <1>3, <1>4, <1>5
<1> QED
  BY <1>6 DEF VersionsKnown, Known, Wrote

\* Whoever has re-programmed the row has still done so if it is not written.
LEMMA ReprogrammersStay ==
  ASSUME TypeOK, [Next]_vars, ~Happened("dbError")', Keeps, NEW j \in Calls, Reprogrammed(j)
  PROVE  Reprogrammed(j)'
<1>1. ASSUME NEW id \in Nat, NEW v \in Nat, id = row.id, v = row.version
      PROVE  Reprogrammed(j)'
  <2>1. Wrote(j, id, v) /\ v > 1
    BY <1>1 DEF Reprogrammed, Wrote
  <2>2. Wrote(j, id, v)'
    BY <1>1, <2>1, WritersStay
  <2>3. row'.id = id /\ row'.version = v
    BY <1>1 DEF Keeps
  <2> QED
    BY <2>1, <2>2, <2>3 DEF Reprogrammed, Wrote
<1> QED
  BY <1>1, Types DEF RowStates

LEMMA UsedUpStep ==
  ASSUME TypeOK, TypeOK', KeyInv, UsedUpInv, [Next]_vars
  PROVE  AnsweredIsUsedUp'
<1> SUFFICES ASSUME NEW t \in Taps, tap'[t].pc = "ok", tap'[t].id = row'.id,
                    tap'[t].version = row'.version, ~Happened("dbError")'
             PROVE  row'.counter >= tap'[t].n \/ Restarted'
  BY DEF AnsweredIsUsedUp
<1>0. /\ row \in RowStates /\ row' \in RowStates /\ call \in [Calls -> CallStates] /\ ids \in Nat
      /\ ~Happened("dbError") /\ VersionsKnown /\ GivenOut /\ Numbered
      /\ tap[t].id \in Nat /\ tap[t].version \in Nat /\ tap[t].n \in Nat
  BY Types, FaultsStay DEF UsedUpInv, TypeOK, RowStates
<1>1. CASE Keeps
  <2>1. CASE tap'[t] = tap[t]
    <3>1. CASE row.counter >= tap[t].n
      BY <1>0, <1>1, <2>1, <3>1 DEF Keeps, RowStates
    <3>2. CASE Restarted
      <4>1. PICK j \in Calls, k \in Calls : j # k /\ Reprogrammed(j) /\ Reprogrammed(k)
        BY <3>2 DEF Restarted
      <4> QED
        BY <1>1, <4>1, ReprogrammersStay DEF Restarted
    <3> QED
      BY <1>0, <1>1, <2>1, <3>1, <3>2 DEF UsedUpInv, AnsweredIsUsedUp, Keeps
  <2>2. CASE tap'[t] # tap[t]
    <3>1. UpdateLastCounter(t)
      BY <2>2, StepKinds, HandleFrame, Types
         DEF OtherSteps, ProgramChip, EraseChip, ActivateCard, DisableCard, WipeCard, SetStatus,
             RegistrationExpires, TapChip, LookAtCard, UpdateLastCounter, AskAgain, TapGoto, vars
    <3>2. ~Fault("dbError")
      BY ThrowsCounts
    <3> QED
      BY <1>0, <3>1, <3>2, Types DEF UpdateLastCounter, CounterMoves, TapGoto, RowStates
  <2> QED
    BY <2>1, <2>2
<1>2. ASSUME NEW k \in Calls, Handle(k), Rewrites(k) PROVE Restarted'
  <2>1. tap' = tap /\ row'.id = row.id /\ row'.version = call[k].version + 1
    BY <1>2 DEF Rewrites
  <2>2. call[k].version \in Nat /\ call[k].version >= 1 /\ call[k].seen # 0
    BY <1>0, <1>2 DEF Rewrites, Numbered, KeyInv, CallKeys, CallStates
  <2>3. PICK j \in Calls : Wrote(j, tap[t].id, tap[t].version)
    BY <1>0, <1>2, <2>1, <2>2 DEF VersionsKnown, Known, Rewrites
  <2>4. j # k
    BY <1>2, <2>3 DEF Rewrites, Wrote
  <2>5. call'[j] = call[j]
    BY <1>2, <2>4, HandleFrame
  <2>6. Wrote(j, row.id, row.version)'
    BY <2>1, <2>3, <2>5 DEF Wrote
  <2>7. Wrote(k, row.id, row.version)'
    BY <1>0, <1>2 DEF Rewrites, Wrote, CallStates
  <2>8. row'.version > 1
    BY <2>1, <2>2
  <2> QED
    BY <2>4, <2>6, <2>7, <2>8 DEF Wrote, Restarted, Reprogrammed
<1>3. ASSUME NEW k \in Calls, Creates(k) PROVE FALSE
  BY <1>0, <1>3 DEF Creates, GivenOut
<1>4. CASE tap' = tap /\ row'.id = 0
  BY <1>0, <1>4 DEF GivenOut
<1> QED
  BY <1>1, <1>2, <1>3, <1>4, StepKinds, OthersFrame, HandleRow, HandleFrame DEF Keeps

LEMMA AlwaysUsedUpInv == Spec => []UsedUpInv
<1>1. Init => UsedUpInv
  BY BoltcardCardsAssumption
     DEF Init, UsedUpInv, GivenOut, Numbered, VersionsKnown, Known, AnsweredIsUsedUp,
         NoRow, Blank, Untapped
<1>2. TypeOK /\ TypeOK' /\ KeyInv /\ UsedUpInv /\ [Next]_vars => UsedUpInv'
  <2> SUFFICES ASSUME TypeOK, TypeOK', KeyInv, UsedUpInv, [Next]_vars PROVE UsedUpInv'
    OBVIOUS
  <2>1. GivenOut' /\ Numbered'
    BY GivenOutStep, NumberedStep DEF UsedUpInv
  <2>2. ~Happened("dbError")' => VersionsKnown'
    BY VersionsKnownStep, FaultsStay DEF UsedUpInv
  <2> QED
    BY <2>1, <2>2, UsedUpStep DEF UsedUpInv
<1> QED
  BY <1>1, <1>2, AlwaysTyped, AlwaysKeyInv, PTL DEF Spec

\* Once a tap has been answered its counter is used up, however the updates of
\* overlapping taps and the re-programmings of any number of calls interleave,
\* unless a query failed or two calls wrote the same version (store.ts:1348).
THEOREM AnsweredTapIsUsedUp == Spec => []AnsweredIsUsedUp
<1>1. UsedUpInv => AnsweredIsUsedUp
  BY DEF UsedUpInv
<1> QED
  BY <1>1, AlwaysUsedUpInv, PTL

-----------------------------------------------------------------------------
(***************************************************************************)
(* HandedKeysWork.  As long as no call begins during another one and no    *)
(* query fails, a call that has created or re-programmed the row still has *)
(* its row when it completes and answers, so it gets as far as handing out *)
(* the keys that are in the row by then; and a row that is created later   *)
(* has an id that no response has carried.                                 *)
(***************************************************************************)
Undisturbed == ~Happened("overlap") /\ ~Happened("dbError")

OnItsRow(k) == call[k].pc \in {"activate", "complete", "answer"} => row.id = call[k].seen

HandedInv ==
  /\ Undisturbed => \A k \in Calls : OnItsRow(k)
  /\ HandedKeysWork

LEMMA OnItsRowStep ==
  ASSUME TypeOK, HandedInv, [Next]_vars, Undisturbed, Alone, Undisturbed'
  PROVE  \A k \in Calls : OnItsRow(k)'
<1>1. \A k \in Calls : OnItsRow(k)
  BY DEF HandedInv
<1>2. CASE OtherSteps
  BY <1>1, <1>2, OthersFrame DEF OnItsRow
<1>3. ASSUME NEW k \in Calls, Handle(k) PROVE \A j \in Calls : OnItsRow(j)'
  <2>1. call \in [Calls -> CallStates] /\ row \in RowStates
    BY Types
  <2>2. OnItsRow(k)'
    <3>1. CASE UpdateVersion(k)
      <4>1. row'.id = row.id
        BY <2>1, <3>1 DEF UpdateVersion, RowStates
      <4>2. call'[k].seen = call[k].seen
        BY <2>1, <3>1 DEF UpdateVersion, Throws, Goto, CallStates
      <4>3. row.id = call[k].seen \/ call'[k].pc \in {"issuer", "refused"}
        BY <2>1, <3>1 DEF UpdateVersion, Throws, Goto, CallStates
      <4> QED
        BY <4>1, <4>2, <4>3 DEF OnItsRow
    <3>2. CASE InsertCard(k)
      BY <2>1, <3>2 DEF InsertCard, Throws, Goto, OnItsRow, CallStates
    <3>3. CASE AutoActivate(k)
      <4>1. call[k].pc = "activate" /\ row'.id = row.id
        BY <2>1, <3>3 DEF AutoActivate, Activated, RowStates
      <4> QED
        BY <1>1, <2>1, <3>3, <4>1 DEF AutoActivate, Goto, OnItsRow, CallStates
    <3>4. CASE CompleteRegistration(k) \/ AnswerKeys(k)
      BY <1>1, <2>1, <3>4 DEF CompleteRegistration, AnswerKeys, Throws, Goto, OnItsRow, CallStates
    <3>5. CASE FindCard(k)
      <4>1. call'[k].pc = Branch(k) \/ call'[k].pc = "issuer"
        BY <2>1, <3>5 DEF FindCard, Goto, CallStates
      <4>2. Branch(k) \in {"issuer", "history", "reread", "refused"}
        BY DEF Branch
      <4> QED
        BY <4>1, <4>2 DEF OnItsRow
    <3>6. CASE \/ Begin(k) \/ DeleteHistory(k) \/ DeleteCard(k) \/ RereadCard(k)
               \/ SelectIssuerKey(k) \/ InsertIssuerKey(k)
      <4>1. call'[k].pc \notin {"activate", "complete", "answer"}
        BY <2>1, <3>6
           DEF Begin, DeleteHistory, DeleteCard, RereadCard, SelectIssuerKey, InsertIssuerKey,
               Throws, Goto, CallStates
      <4> QED
        BY <4>1 DEF OnItsRow
    <3> QED
      BY <1>3, <3>1, <3>2, <3>3, <3>4, <3>5, <3>6 DEF Handle
  <2>3. ASSUME NEW j \in Calls \ {k} PROVE OnItsRow(j)'
    <3>1. CASE call[k].pc = "idle"
      <4>1. Begin(k)
        BY <1>3, <3>1
           DEF Handle, FindCard, DeleteHistory, DeleteCard, RereadCard, UpdateVersion,
               SelectIssuerKey, InsertIssuerKey, InsertCard, AutoActivate,
               CompleteRegistration, AnswerKeys
      <4> QED
        BY <1>1, <1>3, <4>1, HandleFrame DEF Begin, OnItsRow
    <3>2. CASE call[k].pc # "idle"
      <4>1. Running(k)
        BY <1>3, <3>2
           DEF Handle, Begin, FindCard, DeleteHistory, DeleteCard, RereadCard, UpdateVersion,
               SelectIssuerKey, InsertIssuerKey, InsertCard, AutoActivate,
               CompleteRegistration, AnswerKeys, Running
      <4>2. ~Running(j) /\ call'[j] = call[j]
        BY <1>3, <4>1, HandleFrame DEF Alone
      <4> QED
        BY <4>2 DEF Running, OnItsRow
    <3> QED
      BY <3>1, <3>2
  <2> QED
    BY <2>2, <2>3
<1> QED
  BY <1>2, <1>3, StepKinds

LEMMA HandedStep ==
  ASSUME TypeOK, KeyInv, GivenOut, HandedInv, [Next]_vars, Undisturbed, Undisturbed'
  PROVE  HandedKeysWork'
<1> SUFFICES ASSUME handed'.id # 0, handed'.id = row'.id,
                    \A k \in Calls : call'[k].pc \notin {"complete", "answer"}
             PROVE  handed' = [id |-> row'.id, version |-> row'.version, key |-> row'.key]
  BY DEF HandedKeysWork
<1>0. /\ row \in RowStates /\ call \in [Calls -> CallStates] /\ ids \in Nat
      /\ handed \in [id: Nat, version: Nat, key: Calls \cup {NoCall}]
      /\ handed.id <= ids /\ \A k \in Calls : OnItsRow(k)
  BY Types DEF GivenOut, HandedInv
<1>1. CASE OtherSteps
  BY <1>0, <1>1, OthersFrame DEF HandedInv, HandedKeysWork, Undisturbed
<1>2. ASSUME NEW k \in Calls, Handle(k)
      PROVE  handed' = [id |-> row'.id, version |-> row'.version, key |-> row'.key]
  <2>1. CASE AnswerKeys(k)
    <3>1. row' = row
      BY <2>1 DEF AnswerKeys
    <3>2. ~Fault("dbError")
      BY ThrowsCounts DEF Undisturbed
    <3>3. handed' = KeysOfRow(k)
      BY <1>0, <2>1, <3>2 DEF AnswerKeys, Throws, OnItsRow
    <3> QED
      BY <3>1, <3>3 DEF KeysOfRow
  <2>2. CASE ~AnswerKeys(k)
    <3>1. handed' = handed
      BY <1>2, <2>2
         DEF Handle, Begin, FindCard, DeleteHistory, DeleteCard, RereadCard, UpdateVersion,
             SelectIssuerKey, InsertIssuerKey, InsertCard, AutoActivate, CompleteRegistration
    <3>2. ~Rewrites(k)
      BY <1>0 DEF Rewrites, CallStates
    <3>3. ~Creates(k)
      BY <1>0, <3>1 DEF Creates
    <3>4. Keeps
      BY <1>2, <3>2, <3>3, HandleRow
    <3>5. call[k].pc \notin {"complete", "answer"}
      <4>1. ~Fault("dbError")
        BY ThrowsCounts DEF Undisturbed
      <4>2. ~CompleteRegistration(k)
        BY <1>0, <4>1 DEF CompleteRegistration, Throws, Goto, OnItsRow, CallStates
      <4> QED
        BY <1>2, <2>2, <4>2
           DEF Handle, Begin, FindCard, DeleteHistory, DeleteCard, RereadCard, UpdateVersion,
               SelectIssuerKey, InsertIssuerKey, InsertCard, AutoActivate
    <3>6. \A j \in Calls : call[j].pc \notin {"complete", "answer"}
      BY <1>2, <3>5, HandleFrame
    <3> QED
      BY <3>1, <3>4, <3>6 DEF Keeps, HandedInv, HandedKeysWork, Undisturbed
  <2> QED
    BY <2>1, <2>2
<1> QED
  BY <1>1, <1>2, StepKinds

LEMMA AlwaysHandedInv == Spec => []HandedInv
<1>1. Init => HandedInv
  BY DEF Init, HandedInv, OnItsRow, HandedKeysWork, Blank
<1>2. TypeOK /\ KeyInv /\ AloneInv /\ UsedUpInv /\ HandedInv /\ [Next]_vars => HandedInv'
  <2> SUFFICES ASSUME TypeOK, KeyInv, AloneInv, UsedUpInv, HandedInv, [Next]_vars
               PROVE  HandedInv'
    OBVIOUS
  <2>1. CASE Undisturbed'
    <3>1. Undisturbed /\ Alone /\ GivenOut
      BY <2>1, FaultsStay DEF Undisturbed, AloneInv, UsedUpInv
    <3> QED
      BY <2>1, <3>1, OnItsRowStep, HandedStep DEF HandedInv
  <2>2. CASE ~Undisturbed'
    BY <2>2 DEF HandedInv, HandedKeysWork, Undisturbed
  <2> QED
    BY <2>1, <2>2
<1> QED
  BY <1>1, <1>2, AlwaysTyped, AlwaysKeyInv, AlwaysAlone, AlwaysUsedUpInv, PTL DEF Spec

\* A chip that is programmed with the keys of the last response works, unless
\* another call has got as far as changing the row since: for any number of
\* calls one after the other and any number of re-programmings, wipings and new
\* registrations of the chip (completePendingRegistration, store.ts:543).
THEOREM HandedOutKeysWork == Spec => []HandedKeysWork
<1>1. HandedInv => HandedKeysWork
  BY DEF HandedInv
<1> QED
  BY <1>1, AlwaysHandedInv, PTL
=============================================================================
