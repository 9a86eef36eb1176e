---------------------------- MODULE SignIn_proofs ----------------------------
(***************************************************************************)
(* Theorems about SignIn for any number of pages, accounts and challenges, *)
(* under every fault and however often it happens.                         *)
(***************************************************************************)
EXTENDS SignIn, TLAPS

FlowStates == [step: {"none", "awaitingPubkey", "awaitingSignedChallenge"},
               challenge: Challenges \cup {None}, user: Users \cup {None}]

Asked == [user: Users \cup {None}, challenge: Challenges \cup {None}]

Addresses == [kind: {"none", "challenge", "signed"}, user: Users \cup {None},
              challenge: Challenges \cup {None}]

PagePcs == {"idle", "fetch", "verify", "verified", "refused", "logout", "clear"}

PageStates == [url: Addresses, pc: PagePcs, handling: BOOLEAN, step2: BOOLEAN,
               shown: Users \cup {None}, account: Users \cup {None}]

TypeOK ==
  /\ flow \in FlowStates
  /\ auth \in Users \cup {None} /\ cookie \in Users \cup {None}
  /\ open \subseteq Challenges
  /\ signer \subseteq Asked
  /\ page \in [Pages -> PageStates]
  /\ disturbed \in BOOLEAN

LEMMA Constants ==
  /\ NoFlow \in FlowStates /\ NoUrl \in Addresses /\ BlankPage \in PageStates
  /\ GetKey \in Asked /\ Requests \subseteq Asked
  /\ \A f \in FlowStates : SignRequest(f) \in Asked
  /\ None \notin Challenges
<1>1. NoFlow \in FlowStates /\ NoUrl \in Addresses
  BY DEF NoFlow, FlowStates, NoUrl, Addresses
<1>2. BlankPage \in PageStates
  BY <1>1 DEF BlankPage, PageStates, PagePcs
<1>3. GetKey \in Asked /\ Requests \subseteq Asked /\ \A f \in FlowStates : SignRequest(f) \in Asked
  BY DEF GetKey, Asked, Requests, SignRequest, FlowStates
<1> QED
  BY <1>1, <1>2, <1>3, SignInAssumption

-----------------------------------------------------------------------------
(***************************************************************************)
(* A page deals with what is in its address: it comes to know the account, *)
(* or has a signature to be verified, or there is nothing for it to do.    *)
(***************************************************************************)
Turns(p, opened, asked) ==
  \/ opened.url.kind = "challenge" /\ ChallengeFlowReturn(p, opened, asked)
  \/ opened.url.kind = "signed" /\ ChallengeSignReturn(p, opened, asked)
  \/ /\ opened.url.challenge \notin open
     /\ \E new \in PageStates :
          new.pc = "idle" /\ new.url = opened.url /\ page' = [page EXCEPT ![p] = new]
     /\ signer' = asked /\ UNCHANGED flow

\* What may come of it, as far as the flow, the signer and the pages go.
Recognised(p, asked) ==
  /\ flow.step = "awaitingPubkey"
  /\ flow'.step = "awaitingSignedChallenge" /\ flow'.challenge = flow.challenge
  /\ signer' = asked \cup {SignRequest(flow')}
  /\ page'[p].pc = "idle" /\ page'[p].url = NoUrl

Submitted(p, opened, asked) ==
  /\ flow.step = "awaitingSignedChallenge" /\ flow' = flow /\ signer' = asked
  /\ page'[p].pc = "verify" /\ page'[p].url = opened.url /\ page'[p].account = flow.user

Ignored(p, opened, asked) ==
  /\ flow' = flow \/ (flow' = NoFlow /\ flow.step # "awaitingSignedChallenge")
  /\ signer' = asked
  /\ page'[p].pc = "idle" /\ page'[p].url = opened.url
  /\ \/ opened.url.challenge \notin open
     \/ opened.url.kind = "signed" /\ flow.step # "awaitingSignedChallenge"
     \/ opened.url.kind = "challenge"

LEMMA TurnsEffect ==
  ASSUME TypeOK, NEW p \in Pages, NEW opened \in PageStates, opened.pc = "idle",
         NEW asked, asked \subseteq Asked, Turns(p, opened, asked)
  PROVE  /\ flow' \in FlowStates /\ signer' \subseteq Asked /\ page' \in [Pages -> PageStates]
         /\ \A q \in Pages \ {p} : page'[q] = page[q]
         /\ Recognised(p, asked) \/ Submitted(p, opened, asked) \/ Ignored(p, opened, asked)
<1>0. flow \in FlowStates /\ page \in [Pages -> PageStates] /\ NoFlow \in FlowStates /\ NoUrl \in Addresses
  BY Constants DEF TypeOK
<1>1. CASE opened.url.kind = "challenge" /\ ChallengeFlowReturn(p, opened, asked)
  <2>1. CASE flow.step = "awaitingPubkey" /\ opened.url.user # None
    <3> DEFINE updated == [flow EXCEPT !.step = "awaitingSignedChallenge", !.user = opened.url.user]
               new == [opened EXCEPT !.url = NoUrl, !.handling = TRUE]
    <3>1. /\ flow' = updated /\ signer' = asked \cup {SignRequest(updated)}
          /\ page' = [page EXCEPT ![p] = new]
      BY <1>1, <2>1 DEF ChallengeFlowReturn
    <3>2. /\ updated \in FlowStates /\ updated.step = "awaitingSignedChallenge"
          /\ updated.challenge = flow.challenge
      BY <1>0 DEF FlowStates, PageStates, Addresses
    <3>3. new \in PageStates /\ new.pc = "idle" /\ new.url = NoUrl
      BY <1>0 DEF PageStates
    <3> HIDE DEF updated, new
    <3>4. SignRequest(updated) \in Asked
      BY <3>2, Constants
    <3> QED
      BY <1>0, <2>1, <3>1, <3>2, <3>3, <3>4 DEF Recognised
  <2>2. CASE ~(flow.step = "awaitingPubkey" /\ opened.url.user # None)
    <3> DEFINE new == [opened EXCEPT !.step2 = FALSE]
    <3>1. /\ page' = [page EXCEPT ![p] = new] /\ signer' = asked
          /\ flow' = flow \/ (flow' = NoFlow /\ flow.step # "awaitingSignedChallenge")
      BY <1>1, <2>2 DEF ChallengeFlowReturn
    <3>2. new \in PageStates /\ new.pc = "idle" /\ new.url = opened.url
      BY DEF PageStates
    <3> HIDE DEF new
    <3> QED
      BY <1>0, <1>1, <3>1, <3>2 DEF Ignored
  <2> QED
    BY <2>1, <2>2
<1>2. CASE opened.url.kind = "signed" /\ ChallengeSignReturn(p, opened, asked)
  <2>1. CASE flow.step = "awaitingSignedChallenge"
    <3> DEFINE new == [opened EXCEPT !.pc = "verify", !.account = flow.user, !.step2 = FALSE]
    <3>1. page' = [page EXCEPT ![p] = new] /\ signer' = asked /\ flow' = flow
      BY <1>2, <2>1 DEF ChallengeSignReturn
    <3>2. new \in PageStates /\ new.pc = "verify" /\ new.url = opened.url /\ new.account = flow.user
      BY <1>0 DEF PageStates, PagePcs, FlowStates
    <3> HIDE DEF new
    <3> QED
      BY <1>0, <2>1, <3>1, <3>2 DEF Submitted
  <2>2. CASE flow.step # "awaitingSignedChallenge"
    <3> DEFINE new == [opened EXCEPT !.step2 = FALSE]
    <3>1. page' = [page EXCEPT ![p] = new] /\ signer' = asked /\ flow' = NoFlow
      BY <1>2, <2>2 DEF ChallengeSignReturn
    <3>2. new \in PageStates /\ new.pc = "idle" /\ new.url = opened.url
      BY DEF PageStates
    <3> HIDE DEF new
    <3> QED
      BY <1>0, <1>2, <2>2, <3>1, <3>2 DEF Ignored
  <2> QED
    BY <2>1, <2>2
<1>3. CASE /\ opened.url.challenge \notin open
           /\ \E new \in PageStates :
                new.pc = "idle" /\ new.url = opened.url /\ page' = [page EXCEPT ![p] = new]
           /\ signer' = asked /\ UNCHANGED flow
  BY <1>0, <1>3 DEF Ignored
<1> QED
  BY <1>1, <1>2, <1>3 DEF Turns

LEMMA OpenTurns ==
  ASSUME TypeOK, NEW p \in Pages, NEW url \in Addresses, NEW asked, OpenPage(p, url, asked)
  PROVE  \E opened \in PageStates :
           opened.pc = "idle" /\ opened.url = url /\ Turns(p, opened, asked)
<1> DEFINE opened == [BlankPage EXCEPT !.url = url]
<1>1. opened \in PageStates /\ opened.pc = "idle" /\ opened.url = url
  BY Constants DEF BlankPage, PageStates
<1>2. CASE url.kind = "challenge" /\ ChallengeFlowReturn(p, opened, asked)
  BY <1>1, <1>2 DEF Turns
<1>3. CASE url.kind = "signed" /\ ChallengeSignReturn(p, opened, asked)
  BY <1>1, <1>3 DEF Turns
<1>4. CASE /\ url = NoUrl
           /\ page' = [page EXCEPT ![p] =
                IF flow.step = "awaitingSignedChallenge" THEN opened
                                                         ELSE [opened EXCEPT !.shown = auth]]
           /\ signer' = asked
           /\ UNCHANGED flow
  <2> DEFINE new == IF flow.step = "awaitingSignedChallenge" THEN opened
                                                             ELSE [opened EXCEPT !.shown = auth]
  <2>1. new \in PageStates /\ new.pc = "idle" /\ new.url = opened.url
    BY <1>1 DEF PageStates, TypeOK
  <2>2. opened.url.challenge \notin open
    BY <1>1, <1>4, Constants DEF NoUrl, TypeOK
  <2>3. page' = [page EXCEPT ![p] = new]
    BY <1>4
  <2> HIDE DEF opened, new
  <2> QED
    BY <1>1, <1>4, <2>1, <2>2, <2>3 DEF Turns
<1> QED
  BY <1>2, <1>3, <1>4 DEF OpenPage

-----------------------------------------------------------------------------
(***************************************************************************)
(* SessionIsOfAccount.  As long as sign-ins do not overlap and none is cut *)
(* off, whatever can still be accepted was asked for by the flow that is   *)
(* stored: a challenge that is open, and named by the signer or in the     *)
(* address of a page, is that of the flow, and so is its account.  Both    *)
(* the session and the account are then those of the flow, which stays     *)
(* until the page that has it verified is done.                            *)
(***************************************************************************)
VerifyingItsFlow ==
  \A p \in Pages : Verifying(p) => /\ flow.step = "awaitingSignedChallenge"
                                   /\ page[p].account = flow.user

OneFetch ==
  \A p \in Pages : page[p].pc = "fetch" => /\ flow = NoFlow
                                           /\ \A q \in Pages : page[q].pc = "fetch" => q = p

AskedByFlow ==
  \A r \in signer : r.challenge \in open => /\ flow.step = "awaitingSignedChallenge"
                                            /\ r = SignRequest(flow)

AddressesOfFlow ==
  \A p \in Pages : page[p].url.challenge \in open => /\ page[p].pc = "verify"
                                                     /\ page[p].url.user = flow.user

VerifiedIsSession == \A p \in Pages : page[p].pc = "verified" => cookie = flow.user

SessionIsStored == cookie = auth \/ \E p \in Pages : page[p].pc \in {"verified", "clear"}

OneSignIn ==
  /\ VerifyingItsFlow /\ OneFetch /\ AskedByFlow /\ AddressesOfFlow
  /\ VerifiedIsSession /\ SessionIsStored

\* What an address may say that a page is opened at.
Expected(url) ==
  url.challenge \in open => /\ url.kind = "signed" /\ url.user = flow.user
                           /\ flow.step = "awaitingSignedChallenge"

LEMMA TurnsKeepOneSignIn ==
  ASSUME TypeOK, OneSignIn, NEW p \in Pages, NEW opened \in PageStates, opened.pc = "idle",
         NEW asked, asked \subseteq signer, Turns(p, opened, asked), Expected(opened.url),
         UNCHANGED <<auth, cookie>>, open' \subseteq open,
         page[p].pc \notin {"verified", "clear"}
  PROVE  OneSignIn'
<1>0. /\ \A q \in Pages \ {p} : page'[q] = page[q]
      /\ Recognised(p, asked) \/ Submitted(p, opened, asked) \/ Ignored(p, opened, asked)
  BY TurnsEffect DEF TypeOK
<1>1. SessionIsStored'
  BY <1>0 DEF OneSignIn, SessionIsStored
<1>2. CASE Recognised(p, asked)
  <2>1. \A q \in Pages : ~Verifying(q)
    BY <1>2 DEF Recognised, OneSignIn, VerifyingItsFlow
  <2>2. \A q \in Pages : page[q].pc # "fetch"
    BY <1>2 DEF Recognised, OneSignIn, OneFetch, NoFlow
  <2>3. \A q \in Pages : ~Verifying(q)' /\ page'[q].pc # "fetch"
    BY <1>0, <1>2, <2>1, <2>2 DEF Recognised, Verifying
  <2>4. AskedByFlow'
    BY <1>2 DEF Recognised, OneSignIn, AskedByFlow, SignRequest
  <2>5. AddressesOfFlow'
    <3>1. \A q \in Pages : page[q].url.challenge \notin open
      BY <2>1 DEF OneSignIn, AddressesOfFlow, Verifying
    <3>2. page'[p].url.challenge \notin open
      BY <1>2, Constants DEF Recognised, NoUrl, TypeOK
    <3> QED
      BY <1>0, <3>1, <3>2 DEF AddressesOfFlow
  <2> QED
    BY <1>1, <2>3, <2>4, <2>5 DEF OneSignIn, VerifyingItsFlow, OneFetch, VerifiedIsSession, Verifying
<1>3. CASE Submitted(p, opened, asked)
  <2>1. VerifyingItsFlow' /\ VerifiedIsSession'
    BY <1>0, <1>3 DEF Submitted, OneSignIn, VerifyingItsFlow, VerifiedIsSession, Verifying
  <2>2. OneFetch'
    BY <1>0, <1>3 DEF Submitted, OneSignIn, OneFetch
  <2>3. AskedByFlow'
    BY <1>3 DEF Submitted, OneSignIn, AskedByFlow
  <2>4. AddressesOfFlow'
    BY <1>0, <1>3 DEF Submitted, OneSignIn, AddressesOfFlow, Expected
  <2> QED
    BY <1>1, <2>1, <2>2, <2>3, <2>4 DEF OneSignIn
<1>4. CASE Ignored(p, opened, asked)
  <2>1. opened.url.challenge \notin open
    BY <1>4 DEF Ignored, Expected
  <2>2. \A q \in Pages : page'[q].url.challenge \in open => q # p
    BY <1>4, <2>1 DEF Ignored
  <2>3. CASE flow' = flow
    <3>1. VerifyingItsFlow' /\ VerifiedIsSession' /\ OneFetch'
      BY <1>0, <1>4, <2>3
         DEF Ignored, OneSignIn, VerifyingItsFlow, VerifiedIsSession, OneFetch, Verifying
    <3>2. AskedByFlow' /\ AddressesOfFlow'
      BY <1>0, <1>4, <2>2, <2>3 DEF Ignored, OneSignIn, AskedByFlow, AddressesOfFlow
    <3> QED
      BY <1>1, <3>1, <3>2 DEF OneSignIn
  <2>4. CASE flow' = NoFlow /\ flow.step # "awaitingSignedChallenge"
    <3>1. \A q \in Pages : ~Verifying(q)
      BY <2>4 DEF OneSignIn, VerifyingItsFlow
    <3>2. \A q \in Pages : ~Verifying(q)'
      BY <1>0, <1>4, <3>1 DEF Ignored, Verifying
    <3>3. OneFetch'
      BY <1>0, <1>4, <2>4 DEF Ignored, OneSignIn, OneFetch, NoFlow
    <3>4. AskedByFlow'
      BY <1>4, <2>4 DEF Ignored, OneSignIn, AskedByFlow
    <3>5. AddressesOfFlow'
      BY <1>0, <2>2, <3>1 DEF OneSignIn, AddressesOfFlow, Verifying
    <3> QED
      BY <1>1, <3>2, <3>3, <3>4, <3>5 DEF OneSignIn, VerifyingItsFlow, VerifiedIsSession, Verifying
  <2> QED
    BY <1>4, <2>3, <2>4 DEF Ignored
<1> QED
  BY <1>0, <1>2, <1>3, <1>4

-----------------------------------------------------------------------------
(***************************************************************************)
(* The steps in which a page turns to its address: it is looked at, its    *)
(* button is pressed, the signer opens it, or it is opened anew.           *)
(***************************************************************************)
TurnStep(p) ==
  /\ \E opened \in PageStates, asked \in SUBSET signer :
       /\ opened.pc = "idle" /\ Turns(p, opened, asked)
       /\ OneSignIn => Expected(opened.url) \/ disturbed'
  /\ UNCHANGED <<auth, cookie>> /\ open' \subseteq open
  /\ disturbed' \in BOOLEAN /\ (disturbed => disturbed')
  /\ page[p].pc \in {"verified", "clear"} => disturbed'

\* What a page that waits for nothing has in its address is of no use any more.
LEMMA IdleAddress ==
  ASSUME NEW p \in Pages, page[p].pc # "verify", OneSignIn
  PROVE  Expected(page[p].url)
BY DEF OneSignIn, AddressesOfFlow, Expected

LEMMA NoAddress == ASSUME TypeOK PROVE Expected(NoUrl)
BY Constants DEF Expected, NoUrl, TypeOK

LEMMA CheckReturnTurns ==
  ASSUME TypeOK, NEW p \in Pages, CheckReturn(p)
  PROVE  TurnStep(p)
<1>1. /\ page[p] \in PageStates /\ page[p].pc = "idle"
      /\ UNCHANGED <<auth, cookie, open, disturbed>> /\ disturbed \in BOOLEAN
  BY DEF TypeOK, CheckReturn, AtForm
<1>2. Turns(p, page[p], signer)
  <2>1. CASE page[p].url.kind = "challenge" /\ ChallengeFlowReturn(p, page[p], signer)
    BY <2>1 DEF Turns
  <2>2. CASE page[p].url.kind = "signed" /\ ChallengeSignReturn(p, page[p], signer)
    BY <2>2 DEF Turns
  <2>3. CASE /\ page[p].url = NoUrl
             /\ page' = [page EXCEPT ![p].step2 = TRUE]
             /\ UNCHANGED <<flow, signer>>
    <3> DEFINE new == [page[p] EXCEPT !.step2 = TRUE]
    <3>1. new \in PageStates /\ new.pc = "idle" /\ new.url = page[p].url
      BY <1>1 DEF PageStates
    <3>2. page' = [page EXCEPT ![p] = new]
      BY <2>3
    <3>3. page[p].url.challenge \notin open
      BY <2>3, Constants DEF NoUrl, TypeOK
    <3> HIDE DEF new
    <3> QED
      BY <2>3, <3>1, <3>2, <3>3 DEF Turns
  <2> QED
    BY <2>1, <2>2, <2>3 DEF CheckReturn
<1>3. OneSignIn => Expected(page[p].url)
  BY <1>1, IdleAddress
<1> QED
  BY <1>1, <1>2, <1>3 DEF TurnStep

LEMMA ReopenTurns ==
  ASSUME TypeOK, NEW p \in Pages, Reopen(p)
  PROVE  TurnStep(p)
<1>1. /\ page[p].pc = "idle" /\ OpenPage(p, NoUrl, signer)
      /\ UNCHANGED <<auth, cookie, open, disturbed>> /\ disturbed \in BOOLEAN
  BY DEF TypeOK, Reopen, Stuck, AtForm
<1>2. PICK opened \in PageStates : opened.pc = "idle" /\ opened.url = NoUrl /\ Turns(p, opened, signer)
  BY <1>1, OpenTurns, Constants
<1>3. Expected(opened.url)
  BY <1>2, NoAddress
<1> QED
  BY <1>1, <1>2, <1>3 DEF TurnStep

LEMMA ReloadTurns ==
  ASSUME TypeOK, NEW p \in Pages, Reload(p)
  PROVE  TurnStep(p)
<1> DEFINE url == IF page[p].pc = "verify" THEN NoUrl ELSE page[p].url
<1>1. /\ OpenPage(p, url, signer) /\ UNCHANGED <<auth, cookie>> /\ open' \subseteq open
      /\ disturbed' = (disturbed \/ page[p].pc \in {"verified", "clear"})
  BY DEF Reload
<1>2. url \in Addresses /\ (OneSignIn => Expected(url))
  BY Constants, NoAddress, IdleAddress DEF TypeOK, PageStates
<1> HIDE DEF url
<1>3. PICK opened \in PageStates : opened.pc = "idle" /\ opened.url = url /\ Turns(p, opened, signer)
  BY <1>1, <1>2, OpenTurns
<1>4. OneSignIn => Expected(opened.url)
  BY <1>2, <1>3
<1>5. disturbed' \in BOOLEAN /\ (disturbed => disturbed')
  BY <1>1
<1>6. page[p].pc \in {"verified", "clear"} => disturbed'
  BY <1>1
<1> QED
  BY <1>1, <1>3, <1>4, <1>5, <1>6 DEF TurnStep

LEMMA AnswerTurns ==
  ASSUME TypeOK, NEW p \in Pages, NEW r \in Requests, Answer(r, p)
  PROVE  TurnStep(p)
<1>1. /\ r \in signer /\ r \in Asked /\ page[p].pc = "idle"
      /\ UNCHANGED <<auth, cookie, open>>
      /\ disturbed' \in BOOLEAN /\ (disturbed => disturbed')
  <2>1. r \in signer /\ r \in Asked /\ page[p].pc = "idle" /\ UNCHANGED <<auth, cookie, open>>
    BY DEF Answer, TypeOK
  <2>2. disturbed' = disturbed \/ disturbed' = TRUE
    BY DEF Answer
  <2>3. disturbed' \in BOOLEAN /\ (disturbed => disturbed')
    BY <2>2, Zenon DEF TypeOK
  <2> QED
    BY <2>1, <2>3
<1>2. \E url \in Addresses, asked \in SUBSET signer :
        OpenPage(p, url, asked) /\ (OneSignIn => Expected(url) \/ disturbed')
  <2>1. CASE \E asked \in SUBSET signer : Opened(r, p, asked)
    <3>1. PICK asked \in SUBSET signer : Opened(r, p, asked)
      BY <2>1
    <3>2. CASE r = GetKey
      <4>1. PICK u \in Users : OpenPage(p, [kind |-> "challenge", user |-> u, challenge |-> None], asked)
        BY <3>1, <3>2 DEF Opened
      <4>2. /\ [kind |-> "challenge", user |-> u, challenge |-> None] \in Addresses
            /\ Expected([kind |-> "challenge", user |-> u, challenge |-> None])
        BY Constants DEF Addresses, Expected, TypeOK
      <4> QED
        BY <4>1, <4>2
    <3>3. CASE r # GetKey
      <4>1. OpenPage(p, [kind |-> "signed", user |-> r.user, challenge |-> r.challenge], asked)
        BY <3>1, <3>3 DEF Opened
      <4>2. [kind |-> "signed", user |-> r.user, challenge |-> r.challenge] \in Addresses
        BY <1>1 DEF Addresses, Asked
      <4>3. OneSignIn => Expected([kind |-> "signed", user |-> r.user, challenge |-> r.challenge])
        BY <1>1 DEF OneSignIn, AskedByFlow, Expected, SignRequest
      <4> QED
        BY <4>1, <4>2, <4>3
    <3> QED
      BY <3>2, <3>3
  <2>2. CASE OpenPage(p, Unusable(r), signer \ {r})
    <3>1. Unusable(r) \in Addresses /\ Unusable(r).challenge \notin open
      BY Constants DEF Unusable, Addresses, TypeOK
    <3> QED
      BY <2>2, <3>1 DEF Expected
  <2>3. CASE /\ \E u \in Users : OpenPage(p, SignedBy(u, r), signer \ {r})
             /\ disturbed' = TRUE
    <3>1. PICK u \in Users : OpenPage(p, SignedBy(u, r), signer \ {r})
      BY <2>3
    <3>2. SignedBy(u, r) \in Addresses
      BY <1>1 DEF SignedBy, Addresses, Asked
    <3> QED
      BY <2>3, <3>1, <3>2
  <2> QED
    BY <2>1, <2>2, <2>3 DEF Answer
<1>3. PICK url \in Addresses, asked \in SUBSET signer :
        OpenPage(p, url, asked) /\ (OneSignIn => Expected(url) \/ disturbed')
  BY <1>2
<1>4. PICK opened \in PageStates : opened.pc = "idle" /\ opened.url = url /\ Turns(p, opened, asked)
  BY <1>3, OpenTurns
<1>5. OneSignIn => Expected(opened.url) \/ disturbed'
  BY <1>3, <1>4
<1> QED
  BY <1>1, <1>4, <1>5 DEF TurnStep

LEMMA TurnTyped ==
  ASSUME TypeOK, NEW p \in Pages, TurnStep(p)
  PROVE  TypeOK'
<1>1. PICK opened \in PageStates, asked \in SUBSET signer :
        opened.pc = "idle" /\ Turns(p, opened, asked)
  BY DEF TurnStep
<1>2. flow' \in FlowStates /\ signer' \subseteq Asked /\ page' \in [Pages -> PageStates]
  BY <1>1, TurnsEffect DEF TypeOK
<1> QED
  BY <1>2 DEF TurnStep, TypeOK

LEMMA TurnKeepsOneSignIn ==
  ASSUME TypeOK, OneSignIn, NEW p \in Pages, TurnStep(p), ~disturbed'
  PROVE  OneSignIn'
<1>1. PICK opened \in PageStates, asked \in SUBSET signer :
        opened.pc = "idle" /\ Turns(p, opened, asked) /\ Expected(opened.url)
  BY DEF TurnStep
<1>2. /\ UNCHANGED <<auth, cookie>> /\ open' \subseteq open
      /\ page[p].pc \notin {"verified", "clear"}
  BY DEF TurnStep
<1> QED
  BY <1>1, <1>2, TurnsKeepOneSignIn

-----------------------------------------------------------------------------
(***************************************************************************)
(* The other steps.                                                        *)
(***************************************************************************)

\* When a flow is dropped undisturbed there is nothing left that belongs to it.
LEMMA DropsWhatIsDone ==
  ASSUME TypeOK, OneSignIn, NEW done \in SUBSET Pages, DropFlow(done), ~disturbed'
  PROVE  /\ flow' = NoFlow
         /\ \A p \in Pages \ done : ~Verifying(p)
         /\ \A r \in signer : r.challenge \notin open
<1>1. /\ flow' = NoFlow
      /\ ~\E p \in Pages \ done : Verifying(p)
      /\ ~(SignRequest(flow) \in signer /\ flow.challenge \in open)
  BY DEF DropFlow
<1>2. ASSUME NEW r \in signer, r.challenge \in open PROVE FALSE
  <2>1. r = SignRequest(flow)
    BY <1>2 DEF OneSignIn, AskedByFlow
  <2>2. r.challenge = flow.challenge
    BY <2>1 DEF SignRequest
  <2> QED
    BY <1>1, <1>2, <2>1, <2>2
<1> QED
  BY <1>1, <1>2

LEMMA DropTyped ==
  ASSUME TypeOK, NEW done, DropFlow(done)
  PROVE  flow' \in FlowStates /\ disturbed' \in BOOLEAN /\ (disturbed => disturbed')
<1>1. flow' \in FlowStates
  BY Constants DEF DropFlow
<1>2. disturbed' \in BOOLEAN /\ (disturbed => disturbed')
  BY DEF DropFlow
<1> QED
  BY <1>1, <1>2

LEMMA FetchTyped ==
  ASSUME TypeOK, NEW p \in Pages, FetchChallenge(p)
  PROVE  TypeOK' /\ (disturbed => disturbed')
<1>1. page' \in [Pages -> PageStates]
  BY DEF FetchChallenge, TypeOK, PageStates, PagePcs
<1>2. /\ open' \subseteq Challenges /\ flow' \in FlowStates /\ signer' \subseteq Asked
      /\ UNCHANGED <<auth, cookie, disturbed>>
  BY Constants DEF FetchChallenge, Unused, TypeOK, FlowStates
<1> QED
  BY <1>1, <1>2 DEF TypeOK

\* A new challenge is none that anybody has, so nothing is asked with it yet.
LEMMA FetchKeepsOneSignIn ==
  ASSUME TypeOK, OneSignIn, NEW p \in Pages, FetchChallenge(p)
  PROVE  OneSignIn'
<1>1. /\ page[p].pc = "fetch" /\ page'[p].pc = "idle" /\ page'[p].url = page[p].url
      /\ \A q \in Pages \ {p} : page'[q] = page[q]
      /\ UNCHANGED <<auth, cookie>>
  BY DEF FetchChallenge, TypeOK, PageStates
<1>2. /\ flow.step = "none"
      /\ \A q \in Pages : page'[q].pc # "fetch"
  BY <1>1 DEF OneSignIn, OneFetch, NoFlow
<1>3. /\ \A q \in Pages : ~Verifying(q) /\ ~Verifying(q)'
  BY <1>1, <1>2 DEF OneSignIn, VerifyingItsFlow, Verifying
<1>4. /\ \A r \in signer : r.challenge \notin open
      /\ \A q \in Pages : page[q].url.challenge \notin open
  BY <1>2, <1>3 DEF OneSignIn, AskedByFlow, AddressesOfFlow, Verifying
<1>5. /\ \A r \in signer' : r.challenge \notin open'
      /\ \A q \in Pages : page[q].url.challenge \notin open'
  <2>1. CASE UNCHANGED <<open, flow, signer>>
    BY <1>4, <2>1
  <2>2. ASSUME NEW c \in Unused, open' = open \cup {c}, signer' = signer \cup {GetKey}
        PROVE  /\ \A r \in signer' : r.challenge \notin open'
               /\ \A q \in Pages : page[q].url.challenge \notin open'
    <3>1. /\ c \in Challenges /\ \A r \in signer : r.challenge # c
          /\ \A q \in Pages : page[q].url.challenge # c
      BY <2>2 DEF Unused
    <3>2. GetKey.challenge \notin open'
      BY <2>2, <3>1, Constants DEF GetKey, TypeOK
    <3> QED
      BY <1>4, <2>2, <3>1, <3>2
  <2> QED
    BY <2>1, <2>2 DEF FetchChallenge
<1>6. AskedByFlow' /\ AddressesOfFlow'
  BY <1>1, <1>5 DEF AskedByFlow, AddressesOfFlow
<1>7. VerifyingItsFlow' /\ VerifiedIsSession' /\ OneFetch'
  BY <1>2, <1>3 DEF VerifyingItsFlow, VerifiedIsSession, OneFetch, Verifying
<1>8. SessionIsStored'
  BY <1>1 DEF OneSignIn, SessionIsStored
<1> QED
  BY <1>6, <1>7, <1>8 DEF OneSignIn

LEMMA VerifyTyped ==
  ASSUME TypeOK, NEW p \in Pages, VerifyOwnership(p)
  PROVE  TypeOK' /\ (disturbed => disturbed')
<1>1. page' \in [Pages -> PageStates]
  BY Constants DEF VerifyOwnership, TypeOK, PageStates, PagePcs
<1>2. /\ open' \subseteq open /\ cookie' \in Users \cup {None}
      /\ UNCHANGED <<flow, auth, signer>>
      /\ disturbed' \in BOOLEAN /\ (disturbed => disturbed')
  BY DEF VerifyOwnership, TypeOK, PageStates, Addresses
<1> QED
  BY <1>1, <1>2 DEF TypeOK

\* What the server accepts is what the flow has asked for.
LEMMA VerifyKeepsOneSignIn ==
  ASSUME TypeOK, OneSignIn, NEW p \in Pages, VerifyOwnership(p), ~disturbed'
  PROVE  OneSignIn'
<1>1. /\ page[p].pc = "verify" /\ page'[p].pc \in {"verified", "refused"}
      /\ page'[p].url = NoUrl /\ page'[p].account = page[p].account
      /\ \A q \in Pages \ {p} : page'[q] = page[q]
      /\ UNCHANGED <<flow, auth, signer>> /\ open' \subseteq open
  BY DEF VerifyOwnership, TypeOK, PageStates
<1>2. /\ page'[p].pc = "verified" => cookie' = flow.user
      /\ cookie' = cookie \/ (cookie' = flow.user /\ page'[p].pc = "verified")
  <2>1. CASE page[p].url.challenge \in open /\ cookie' = page[p].url.user
             /\ page' = [page EXCEPT ![p].pc = "verified", ![p].url = NoUrl]
    BY <2>1 DEF OneSignIn, AddressesOfFlow, TypeOK, PageStates
  <2>2. CASE cookie' = cookie /\ page' = [page EXCEPT ![p].pc = "refused", ![p].url = NoUrl]
    BY <2>2 DEF TypeOK, PageStates
  <2> QED
    BY <2>1, <2>2 DEF VerifyOwnership
<1>3. VerifyingItsFlow' /\ OneFetch' /\ AskedByFlow'
  BY <1>1 DEF OneSignIn, VerifyingItsFlow, OneFetch, AskedByFlow, Verifying
<1>4. AddressesOfFlow'
  <2>1. NoUrl.challenge \notin open
    BY Constants DEF NoUrl, TypeOK
  <2> QED
    BY <1>1, <2>1 DEF OneSignIn, AddressesOfFlow
<1>5. VerifiedIsSession' /\ SessionIsStored'
  BY <1>1, <1>2 DEF OneSignIn, VerifiedIsSession, SessionIsStored
<1> QED
  BY <1>3, <1>4, <1>5 DEF OneSignIn

LEMMA FinishTyped ==
  ASSUME TypeOK, NEW p \in Pages, FinishSignIn(p)
  PROVE  TypeOK' /\ (disturbed => disturbed')
<1>1. flow' \in FlowStates /\ disturbed' \in BOOLEAN /\ (disturbed => disturbed')
  BY DropTyped DEF FinishSignIn, AfterVerifying
<1>2. auth' \in Users \cup {None}
  BY DEF FinishSignIn, TypeOK, PageStates
<1>3. page' \in [Pages -> PageStates]
  <2>1. page[p].account \in Users \cup {None}
    BY DEF TypeOK, PageStates
  <2>2. [BlankPage EXCEPT !.shown = page[p].account] \in PageStates
    BY <2>1, Constants DEF BlankPage, PageStates
  <2> QED
    BY <2>2, Constants DEF FinishSignIn, TypeOK
<1> QED
  BY <1>1, <1>2, <1>3 DEF FinishSignIn, TypeOK

LEMMA FinishKeepsOneSignIn ==
  ASSUME TypeOK, OneSignIn, NEW p \in Pages, FinishSignIn(p), ~disturbed'
  PROVE  OneSignIn'
<1>1. /\ flow' = NoFlow
      /\ \A q \in Pages \ {p} : ~Verifying(q)
      /\ \A r \in signer : r.challenge \notin open
  BY DropsWhatIsDone DEF FinishSignIn, AfterVerifying
<1>2. /\ page[p].pc \in {"verified", "refused"}
      /\ page'[p].pc = "idle" /\ page'[p].url = NoUrl
      /\ \A q \in Pages \ {p} : page'[q] = page[q]
      /\ UNCHANGED <<cookie, open, signer>>
  BY DEF FinishSignIn, TypeOK, BlankPage
<1>3. flow.step # "none" /\ page[p].account = flow.user
  BY <1>2 DEF OneSignIn, VerifyingItsFlow, Verifying
<1>4. \A q \in Pages : ~Verifying(q)'
  BY <1>1, <1>2 DEF Verifying
<1>5. OneFetch'
  BY <1>2, <1>3 DEF OneSignIn, OneFetch, NoFlow
<1>6. AskedByFlow' /\ AddressesOfFlow'
  <2>1. NoUrl.challenge \notin open
    BY Constants DEF NoUrl, TypeOK
  <2>2. \A q \in Pages \ {p} : page[q].url.challenge \notin open
    BY <1>1 DEF OneSignIn, AddressesOfFlow, Verifying
  <2> QED
    BY <1>1, <1>2, <2>1, <2>2 DEF AskedByFlow, AddressesOfFlow
<1>7. SessionIsStored'
  <2>1. CASE page[p].pc = "verified"
    BY <1>3, <2>1 DEF FinishSignIn, OneSignIn, VerifiedIsSession, SessionIsStored
  <2>2. CASE page[p].pc # "verified"
    BY <1>1, <1>2, <2>2 DEF FinishSignIn, OneSignIn, SessionIsStored, Verifying
  <2> QED
    BY <2>1, <2>2
<1> QED
  BY <1>4, <1>5, <1>6, <1>7 DEF OneSignIn, VerifyingItsFlow, VerifiedIsSession, Verifying

LEMMA LogOutKeeps ==
  ASSUME TypeOK, NEW p \in Pages, SignOut(p) \/ LogOut(p) \/ ClearAuth(p)
  PROVE  /\ TypeOK' /\ (disturbed => disturbed')
         /\ OneSignIn /\ ~disturbed' => OneSignIn'
<1>1. /\ page' \in [Pages -> PageStates]
      /\ \A q \in Pages \ {p} : page'[q] = page[q]
      /\ page'[p].url = page[p].url
      /\ page[p].pc \in {"idle", "logout", "clear"} /\ page'[p].pc \in {"idle", "logout", "clear"}
      /\ UNCHANGED <<flow, open, signer>>
  BY DEF SignOut, LogOut, ClearAuth, TypeOK, PageStates, PagePcs
<1>2. auth' \in Users \cup {None} /\ cookie' \in Users \cup {None}
  BY DEF SignOut, LogOut, ClearAuth, TypeOK
<1>3. disturbed' \in BOOLEAN /\ (disturbed => disturbed')
  BY DEF SignOut, LogOut, ClearAuth, TypeOK
<1>4. TypeOK'
  BY <1>1, <1>2, <1>3 DEF TypeOK
<1>5. ASSUME OneSignIn, ~disturbed' PROVE OneSignIn'
  <2>1. VerifyingItsFlow' /\ OneFetch' /\ AskedByFlow' /\ AddressesOfFlow'
    BY <1>1, <1>5
       DEF OneSignIn, VerifyingItsFlow, OneFetch, AskedByFlow, AddressesOfFlow, Verifying
  <2>2. ASSUME SignOut(p) PROVE VerifiedIsSession' /\ SessionIsStored'
    BY <1>1, <1>5, <2>2
       DEF SignOut, OneSignIn, VerifiedIsSession, SessionIsStored
  <2>3. ASSUME LogOut(p) PROVE VerifiedIsSession' /\ SessionIsStored'
    <3>1. page'[p].pc = "clear"
      BY <2>3 DEF LogOut, TypeOK, PageStates
    <3>2. \A q \in Pages : ~Verifying(q)
      BY <1>5, <2>3 DEF LogOut
    <3> QED
      BY <1>1, <3>1, <3>2 DEF VerifiedIsSession, SessionIsStored, Verifying
  <2>4. ASSUME ClearAuth(p) PROVE VerifiedIsSession' /\ SessionIsStored'
    <3>1. cookie = None /\ cookie' = None /\ auth' = None
      BY <1>5, <2>4 DEF ClearAuth
    <3> QED
      BY <1>1, <1>5, <3>1 DEF OneSignIn, VerifiedIsSession, SessionIsStored
  <2>5. VerifiedIsSession' /\ SessionIsStored'
    BY <2>2, <2>3, <2>4
  <2> QED
    BY <2>1, <2>5 DEF OneSignIn
<1> QED
  BY <1>3, <1>4, <1>5

LEMMA ClickKeeps ==
  ASSUME TypeOK, NEW p \in Pages, Click(p)
  PROVE  /\ TypeOK' /\ (disturbed => disturbed')
         /\ OneSignIn /\ ~disturbed' => OneSignIn'
<1>0. page[p] \in PageStates /\ page[p].pc = "idle" /\ UNCHANGED <<auth, cookie, open>>
  BY DEF Click, AtForm, TypeOK
<1>1. CASE /\ page[p].url.kind = "signed" /\ ChallengeSignReturn(p, page[p], signer)
           /\ UNCHANGED disturbed
  <2>1. Turns(p, page[p], signer)
    BY <1>1 DEF Turns
  <2>2. OneSignIn => Expected(page[p].url)
    BY <1>0, IdleAddress
  <2>3. TurnStep(p)
    BY <1>0, <1>1, <2>1, <2>2 DEF TurnStep, TypeOK
  <2> QED
    BY <1>1, <2>3, TurnTyped, TurnKeepsOneSignIn
<1>2. CASE signer' = signer \cup {GetKey} /\ UNCHANGED <<flow, page, disturbed>>
  <2>1. TypeOK'
    BY <1>0, <1>2, Constants DEF TypeOK
  <2>2. GetKey.challenge \notin open
    BY Constants DEF GetKey, TypeOK
  <2>3. ASSUME OneSignIn PROVE OneSignIn'
    BY <1>0, <1>2, <2>2, <2>3
       DEF OneSignIn, VerifyingItsFlow, OneFetch, AskedByFlow, AddressesOfFlow,
           VerifiedIsSession, SessionIsStored, Verifying
  <2> QED
    BY <1>2, <2>1, <2>3
<1>3. CASE MayStart /\ StartFlow(p)
  <2>1. /\ flow = NoFlow /\ page'[p].pc = "fetch" /\ page'[p].url = page[p].url
        /\ \A q \in Pages \ {p} : page'[q] = page[q]
        /\ page' \in [Pages -> PageStates] /\ UNCHANGED <<flow, signer>>
    BY <1>3 DEF MayStart, StartFlow, TypeOK, PageStates, PagePcs
  <2>2. disturbed' \in BOOLEAN /\ (disturbed => disturbed')
    BY <1>3 DEF StartFlow
  <2>3. TypeOK'
    BY <1>0, <2>1, <2>2 DEF TypeOK
  <2>4. ASSUME OneSignIn, ~disturbed' PROVE OneSignIn'
    <3>1. \A q \in Pages : page[q].pc # "fetch"
      BY <1>3, <2>4 DEF StartFlow
    <3>2. OneFetch'
      BY <2>1, <3>1 DEF OneFetch
    <3>3. VerifyingItsFlow' /\ AskedByFlow' /\ VerifiedIsSession' /\ SessionIsStored'
      BY <1>0, <2>1, <2>4
         DEF OneSignIn, VerifyingItsFlow, AskedByFlow, VerifiedIsSession, SessionIsStored,
             Verifying
    <3>4. AddressesOfFlow'
      BY <1>0, <2>1, <2>4 DEF OneSignIn, AddressesOfFlow
    <3> QED
      BY <3>2, <3>3, <3>4 DEF OneSignIn
  <2> QED
    BY <2>2, <2>3, <2>4
<1> QED
  BY <1>1, <1>2, <1>3 DEF Click

LEMMA DropsKeep ==
  ASSUME TypeOK,
         \/ \E p \in Pages : CancelStep2(p)
         \/ Expire
  PROVE  /\ TypeOK' /\ (disturbed => disturbed')
         /\ OneSignIn /\ ~disturbed' => OneSignIn'
<1>0. /\ UNCHANGED <<auth, cookie, signer>> /\ open' \subseteq open
      /\ page' \in [Pages -> PageStates]
      /\ \A q \in Pages : page'[q].pc = page[q].pc /\ page'[q].url = page[q].url
                        /\ page'[q].account = page[q].account
      /\ DropFlow({}) \/ UNCHANGED <<flow, disturbed>>
  <2>1. ASSUME NEW p \in Pages, CancelStep2(p)
        PROVE  /\ UNCHANGED <<auth, cookie, signer, open>> /\ DropFlow({})
               /\ page' = [page EXCEPT ![p].step2 = FALSE]
    BY <2>1 DEF CancelStep2
  <2>2. ASSUME NEW p \in Pages, page' = [page EXCEPT ![p].step2 = FALSE]
        PROVE  /\ page' \in [Pages -> PageStates]
               /\ \A q \in Pages : /\ page'[q].pc = page[q].pc /\ page'[q].url = page[q].url
                                   /\ page'[q].account = page[q].account
    BY <2>2 DEF TypeOK, PageStates
  <2>3. CASE Expire
    BY <2>3 DEF Expire, TypeOK
  <2> QED
    BY <2>1, <2>2, <2>3
<1>1. CASE UNCHANGED <<flow, disturbed>>
  <2>1. TypeOK'
    BY <1>0, <1>1 DEF TypeOK
  <2>2. ASSUME OneSignIn PROVE OneSignIn'
    BY <1>0, <1>1, <2>2
       DEF OneSignIn, VerifyingItsFlow, OneFetch, AskedByFlow, AddressesOfFlow,
           VerifiedIsSession, SessionIsStored, Verifying
  <2> QED
    BY <1>1, <2>1, <2>2
<1>2. CASE DropFlow({})
  <2>1. flow' \in FlowStates /\ disturbed' \in BOOLEAN /\ (disturbed => disturbed')
    BY <1>2, DropTyped
  <2>2. TypeOK'
    BY <1>0, <2>1 DEF TypeOK
  <2>3. ASSUME OneSignIn, ~disturbed' PROVE OneSignIn'
    <3>1. /\ flow' = NoFlow /\ \A q \in Pages : ~Verifying(q)
          /\ \A r \in signer : r.challenge \notin open
      BY <1>2, <2>3, DropsWhatIsDone
    <3>2. VerifyingItsFlow' /\ VerifiedIsSession' /\ OneFetch' /\ SessionIsStored'
      BY <1>0, <2>3, <3>1
         DEF OneSignIn, VerifyingItsFlow, VerifiedIsSession, OneFetch, SessionIsStored, Verifying
    <3>3. AskedByFlow' /\ AddressesOfFlow'
      BY <1>0, <2>3, <3>1 DEF OneSignIn, AskedByFlow, AddressesOfFlow, Verifying
    <3> QED
      BY <3>2, <3>3 DEF OneSignIn
  <2> QED
    BY <2>1, <2>2, <2>3
<1> QED
  BY <1>0, <1>1, <1>2

LEMMA SignerKeeps ==
  ASSUME TypeOK,
         \/ UNCHANGED vars
         \/ ServerRestarts
         \/ \E p \in Pages : ContinueToAmber(p) \/ SwitchTo(p)
         \/ \E r \in Requests : NoAnswer(r)
  PROVE  /\ TypeOK' /\ (disturbed => disturbed')
         /\ OneSignIn /\ ~disturbed' => OneSignIn'
<1>1. /\ UNCHANGED <<flow, auth, cookie, page, disturbed>> /\ open' \subseteq open
      /\ \/ signer' \subseteq signer
         \/ /\ signer' = signer \cup {SignRequest(flow)}
            /\ flow.step = "awaitingSignedChallenge"
  BY DEF vars, ServerRestarts, ContinueToAmber, SwitchTo, NoAnswer
<1>2. TypeOK'
  BY <1>1, Constants DEF TypeOK
<1>3. ASSUME OneSignIn PROVE OneSignIn'
  BY <1>1, <1>3
     DEF OneSignIn, VerifyingItsFlow, OneFetch, AskedByFlow, AddressesOfFlow,
         VerifiedIsSession, SessionIsStored, Verifying
<1> QED
  BY <1>1, <1>2, <1>3

-----------------------------------------------------------------------------
LEMMA StepKeeps ==
  ASSUME TypeOK, [Next]_vars
  PROVE  /\ TypeOK' /\ (disturbed => disturbed')
         /\ OneSignIn /\ ~disturbed' => OneSignIn'
<1> DEFINE Kept == /\ TypeOK' /\ (disturbed => disturbed')
                   /\ OneSignIn /\ ~disturbed' => OneSignIn'
<1>1. ASSUME NEW p \in Pages, TurnStep(p) PROVE Kept
  <2>1. disturbed => disturbed'
    BY <1>1 DEF TurnStep
  <2> QED
    BY <1>1, <2>1, TurnTyped, TurnKeepsOneSignIn
<1>2. ASSUME NEW p \in Pages, Serve(p) PROVE Kept
  <2>1. CASE FetchChallenge(p)
    BY <2>1, FetchTyped, FetchKeepsOneSignIn
  <2>2. CASE VerifyOwnership(p)
    BY <2>2, VerifyTyped, VerifyKeepsOneSignIn
  <2>3. CASE FinishSignIn(p)
    BY <2>3, FinishTyped, FinishKeepsOneSignIn
  <2>4. CASE LogOut(p) \/ ClearAuth(p)
    BY <2>4, LogOutKeeps
  <2> QED
    BY <1>2, <2>1, <2>2, <2>3, <2>4 DEF Serve
<1>3. ASSUME NEW p \in Pages,
             CheckReturn(p) \/ Reopen(p) \/ Reload(p) \/ \E r \in Requests : Answer(r, p)
      PROVE  Kept
  BY <1>1, <1>3, CheckReturnTurns, ReopenTurns, ReloadTurns, AnswerTurns
<1>4. ASSUME NEW p \in Pages,
             Click(p) \/ SignOut(p) \/ CancelStep2(p) \/ ContinueToAmber(p) \/ SwitchTo(p)
      PROVE  Kept
  BY <1>4, ClickKeeps, LogOutKeeps, DropsKeep, SignerKeeps
<1>5. ASSUME UNCHANGED vars \/ ServerRestarts \/ Expire \/ \E r \in Requests : NoAnswer(r)
      PROVE  Kept
  BY <1>5, DropsKeep, SignerKeeps
<1> HIDE DEF Kept
<1>6. ASSUME Next PROVE Kept
  <2>1. ASSUME NEW p \in Pages,
               \/ Serve(p) \/ CheckReturn(p) \/ Click(p) \/ ContinueToAmber(p) \/ CancelStep2(p)
               \/ SignOut(p) \/ Reopen(p) \/ Reload(p) \/ SwitchTo(p)
               \/ \E r \in Requests : Answer(r, p)
        PROVE  Kept
    BY <2>1, <1>2, <1>3, <1>4
  <2> QED
    BY <1>5, <1>6, <2>1 DEF Next
<1>7. Kept
  BY <1>5, <1>6
<1> QED
  BY <1>7 DEF Kept

\* The state of the browser, the server and the signer keeps its shape, whatever
\* is lost, late, repeated or cut off.
THEOREM TypeCorrect == Spec => []TypeOK
<1>1. Init => TypeOK
  BY Constants DEF Init, TypeOK
<1> QED
  BY <1>1, StepKeeps, PTL DEF Spec

\* Undisturbed, everything that can still be accepted belongs to the stored flow.
THEOREM OneSignInAtATime == Spec => [](disturbed \/ OneSignIn)
<1>1. Init => OneSignIn
  <2> SUFFICES ASSUME Init PROVE OneSignIn
    OBVIOUS
  <2>1. \A p \in Pages : page[p] = BlankPage
    BY DEF Init
  <2>2. BlankPage.pc = "idle" /\ BlankPage.url.challenge = None
    BY DEF BlankPage, NoUrl
  <2> QED
    BY <2>1, <2>2
       DEF Init, OneSignIn, VerifyingItsFlow, OneFetch, AskedByFlow, AddressesOfFlow,
           VerifiedIsSession, SessionIsStored, Verifying
<1>2. TypeOK /\ (disturbed \/ OneSignIn) /\ [Next]_vars => (disturbed \/ OneSignIn)'
  BY StepKeeps
<1> QED
  BY <1>1, <1>2, TypeCorrect, PTL DEF Spec

\* The session of the server is that of the account stored in the browser, for
\* any number of pages, accounts and challenges and under every fault, unless
\* sign-ins have overlapped or one was cut off (NostrLoginForm.tsx:276).
THEOREM SessionStaysOfAccount == Spec => []SessionIsOfAccount
<1>1. disturbed \/ OneSignIn => SessionIsOfAccount
  BY DEF OneSignIn, SessionIsStored, SessionIsOfAccount, Settled, Verifying
<1> QED
  BY <1>1, OneSignInAtATime, PTL
=============================================================================
