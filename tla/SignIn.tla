------------------------------- MODULE SignIn -------------------------------
(***************************************************************************)
(* Signing in with an external signer (Amber), and out, in the pages of    *)
(* one browser (lib/nostr/NostrAuthService.ts, lib/hooks/useNostrAuth.tsx, *)
(* components/auth/NostrLoginForm.tsx) and at the server (pages/api/auth,  *)
(* lib/auth/challengeStore.ts).                                            *)
(*                                                                         *)
(* The signer is an application of its own.  It is asked through a link,   *)
(* once for the account and once for a signature of the server's           *)
(* challenge, and answers by opening a page of the application: the one    *)
(* that asked or another, at once, late, twice or never.  What the pages   *)
(* have in common is localStorage (flow, auth) and the session cookie.     *)
(***************************************************************************)
EXTENDS Naturals

CONSTANTS
  Pages,        \* tabs and windows of the browser
  Users,        \* accounts of its user
  Challenges,   \* ids; one that nothing refers to is issued again
  Faults,       \* what may go wrong
  MaxFailures,  \* bound on the number of faults in a behaviour
  None          \* no account, no challenge

\* lost      a request fails before or after the server has dealt with it
\* restart   the server forgets its challenges, which it keeps in memory
\* late      a challenge or a flow expires
\* noAnswer  the signer is not opened, or dismissed
\* again     an answer is opened a second time
\* cancel    "Cancel and start over"
\* reload    a page is left in the middle of something and opened anew
\* tab       the user, or the answer of the signer, goes to another page
\* unusable  the signer's answer holds neither an account nor an event
\* other     the signer signs as another account than the one it has named
AllFaults == {"lost", "restart", "late", "noAnswer", "again", "cancel", "reload", "tab",
              "unusable", "other"}

ASSUME SignInAssumption ==
  /\ None \notin Users \cup Challenges
  /\ Faults \subseteq AllFaults /\ MaxFailures \in Nat

VARIABLES
  flow,      \* blinkpos_challenge_flow
  auth,      \* the stored account
  cookie,    \* the account of the session
  open,      \* challengeStore: issued, not used, not expired
  signer,    \* what the signer has been asked
  front,     \* the page in front, where the user is
  page,      \* the state of each page
  disturbed, \* two sign-ins have overlapped, one was cut off before its end, or
             \* the signer has changed the account on the way
  failures   \* the faults so far

vars == <<flow, auth, cookie, open, signer, front, page, disturbed, failures>>

NoFlow == [step |-> "none", challenge |-> None, user |-> None]

\* An answer of the signer: an account, or a signed challenge; None in the place
\* of what cannot be read.
NoUrl == [kind |-> "none", user |-> None, challenge |-> None]

\* get_public_key and sign_event.
GetKey == [user |-> None, challenge |-> None]
SignRequest(f) == [user |-> f.user, challenge |-> f.challenge]
Requests == {GetKey} \cup [user: Users, challenge: Challenges]

\* url       nostr_return in its address, or the event it has verified
\* pc        what the page waits for: nothing, /challenge, /verify-ownership
\*           (and what it was answered), /logout (and that it is over)
\* handling  challengeFlowHandling, from the first answer of the signer on
\* step2     awaitingStep2: "Continue to Amber" is offered
\* shown     the account the page is signed in with
\* account   flow.pubkey, as it was when /verify-ownership was called
BlankPage == [url |-> NoUrl, pc |-> "idle", handling |-> FALSE, step2 |-> FALSE,
              shown |-> None, account |-> None]

Init ==
  /\ flow = NoFlow /\ auth = None /\ cookie = None
  /\ open = {} /\ signer = {} /\ front = (CHOOSE p \in Pages : TRUE)
  /\ page = [p \in Pages |-> BlankPage]
  /\ disturbed = FALSE /\ failures = 0

Fault(f) ==
  /\ f \in Faults
  /\ failures < MaxFailures
  /\ failures' = failures + 1

Verifying(p) == page[p].pc \in {"verify", "verified", "refused"}

\* The page shows the sign-in form: it waits for nothing and nobody is signed in.
AtForm(p) == page[p].pc = "idle" /\ page[p].shown = None

\* The flow is dropped: perhaps while its signature is asked for and would
\* still be accepted, or while a page other than these has it verified.
DropFlow(done) ==
  /\ flow' = NoFlow
  /\ disturbed' = (\/ disturbed
                   \/ SignRequest(flow) \in signer /\ flow.challenge \in open
                   \/ \E p \in Pages \ done : Verifying(p))

-----------------------------------------------------------------------------
(* What a page does with an answer of the signer.                          *)

\* handleChallengeFlowReturn: asks for the signature, and the page goes on
\* "handling".  An answer nobody waits for stays in the address, and so does one
\* without an account, which ends the flow.
ChallengeFlowReturn(p, opened, asked) ==
  IF flow.step = "awaitingPubkey" /\ opened.url.user # None
  THEN LET updated == [flow EXCEPT !.step = "awaitingSignedChallenge", !.user = opened.url.user]
       IN /\ flow' = updated
          /\ signer' = asked \cup {SignRequest(updated)}
          /\ page' = [page EXCEPT ![p] = [opened EXCEPT !.url = NoUrl, !.handling = TRUE]]
  ELSE /\ page' = [page EXCEPT ![p] = [opened EXCEPT !.step2 = FALSE]]
       /\ signer' = asked
       /\ flow' = IF flow.step = "awaitingPubkey" THEN NoFlow ELSE flow

\* handleChallengeSignReturn, up to the call of the server.  What is no signed
\* event ends as one that the server refuses.
ChallengeSignReturn(p, opened, asked) ==
  /\ signer' = asked
  /\ IF flow.step = "awaitingSignedChallenge"
     THEN /\ page' = [page EXCEPT ![p] = [opened EXCEPT !.pc = "verify", !.account = flow.user,
                                                        !.step2 = FALSE]]
          /\ UNCHANGED flow
     ELSE /\ flow' = NoFlow
          /\ page' = [page EXCEPT ![p] = [opened EXCEPT !.step2 = FALSE]]

\* checkAuth of a page that is opened at this address.  It restores the stored
\* account, unless a flow is pending.
OpenPage(p, url, asked) ==
  LET opened == [BlankPage EXCEPT !.url = url]
  IN \/ url.kind = "challenge" /\ ChallengeFlowReturn(p, opened, asked)
     \/ url.kind = "signed" /\ ChallengeSignReturn(p, opened, asked)
     \/ /\ url = NoUrl
        /\ page' = [page EXCEPT ![p] =
             IF flow.step = "awaitingSignedChallenge" THEN opened
                                                      ELSE [opened EXCEPT !.shown = auth]]
        /\ signer' = asked
        /\ UNCHANGED flow

\* checkPendingSignerFlow, on mount, focus and visibilitychange.
CheckReturn(p) ==
  /\ p = front /\ AtForm(p) /\ ~page[p].handling
  /\ \/ page[p].url.kind = "challenge" /\ ChallengeFlowReturn(p, page[p], signer)
     \/ page[p].url.kind = "signed" /\ ChallengeSignReturn(p, page[p], signer)
     \/ /\ page[p].url = NoUrl /\ flow.step = "awaitingSignedChallenge"
        /\ page' = [page EXCEPT ![p].step2 = TRUE]
        /\ UNCHANGED <<flow, signer>>
  /\ UNCHANGED <<auth, cookie, open, front, disturbed, failures>>

-----------------------------------------------------------------------------
(* The buttons of the form.                                                *)

\* A challenge is asked for.
StartFlow(p) ==
  /\ page' = [page EXCEPT ![p].pc = "fetch"]
  /\ disturbed' = (disturbed \/ \E q \in Pages : page[q].pc = "fetch")
  /\ UNCHANGED <<flow, signer>>

\* Mutation: a flow that waits for the signature is started anew.
MayStartAnew == flow.step # "awaitingPubkey"
MayStart == flow = NoFlow

\* handleExternalSignerSignIn: signInWithExternalSignerChallenge, by the flow
\* it finds.  An answer that has come is taken, and a flow that waits for the
\* account asks for it again; one that waits for a signature is an error.
Click(p) ==
  /\ p = front /\ AtForm(p) /\ ~page[p].step2
  /\ \/ /\ flow.step = "awaitingSignedChallenge" /\ page[p].url.kind = "signed"
        /\ ChallengeSignReturn(p, page[p], signer)
        /\ UNCHANGED disturbed
     \/ /\ flow.step = "awaitingPubkey"
        /\ signer' = signer \cup {GetKey}
        /\ UNCHANGED <<flow, page, disturbed>>
     \/ MayStart /\ StartFlow(p)
  /\ UNCHANGED <<auth, cookie, open, front, failures>>

\* A challenge that neither the flow nor the signer nor a page holds.
Unused == Challenges \ ({flow.challenge} \cup {r.challenge : r \in signer}
                          \cup {page[p].url.challenge : p \in Pages})

\* fetchChallenge, and what follows its answer.
FetchChallenge(p) ==
  /\ page[p].pc = "fetch"
  /\ page' = [page EXCEPT ![p].pc = "idle"]
  /\ \/ /\ \E c \in Unused :
             /\ open' = open \cup {c}
             /\ flow' = [step |-> "awaitingPubkey", challenge |-> c, user |-> None]
        /\ signer' = signer \cup {GetKey}
        /\ UNCHANGED failures
     \/ Fault("lost") /\ UNCHANGED <<open, flow, signer>>
  /\ UNCHANGED <<auth, cookie, front, disturbed>>

\* handleContinueToAmber: retrySignChallengeRedirect.
ContinueToAmber(p) ==
  /\ p = front /\ AtForm(p) /\ page[p].step2
  /\ flow.step = "awaitingSignedChallenge"
  /\ signer' = signer \cup {SignRequest(flow)}
  /\ UNCHANGED <<flow, auth, cookie, open, front, page, disturbed, failures>>

\* handleCancelStep2.
CancelStep2(p) ==
  /\ p = front /\ AtForm(p) /\ page[p].step2
  /\ IF flow = NoFlow THEN UNCHANGED failures ELSE Fault("cancel")
  /\ DropFlow({})
  /\ page' = [page EXCEPT ![p].step2 = FALSE]
  /\ UNCHANGED <<auth, cookie, open, signer, front>>

-----------------------------------------------------------------------------
(* verify-ownership, what the page does with the reply, and signing out.   *)

\* verifyChallenge, and the session of the account that has signed.  A reply
\* that is lost after its headers leaves the session behind, and no account.
VerifyOwnership(p) ==
  LET url == page[p].url
  IN
  /\ page[p].pc = "verify"
  /\ \/ /\ url.challenge \in open
        /\ open' = open \ {url.challenge}
        /\ cookie' = url.user
        /\ \/ /\ page' = [page EXCEPT ![p].pc = "verified", ![p].url = NoUrl]
              /\ UNCHANGED <<disturbed, failures>>
           \/ /\ Fault("lost")
              /\ page' = [page EXCEPT ![p].pc = "refused", ![p].url = NoUrl]
              /\ disturbed' = TRUE
     \/ /\ \/ url.challenge \notin open /\ UNCHANGED <<open, failures>>
           \/ Fault("lost") /\ open' \in {open, open \ {url.challenge}}
        /\ page' = [page EXCEPT ![p].pc = "refused", ![p].url = NoUrl]
        /\ UNCHANGED <<cookie, disturbed>>
  /\ UNCHANGED <<flow, auth, signer, front>>

\* Mutation: the flow is kept for another try.
KeptWhenRefused(p) ==
  IF page[p].pc = "verified" THEN DropFlow({p}) ELSE UNCHANGED <<flow, disturbed>>
AfterVerifying(p) == DropFlow({p})

\* The rest of handleChallengeSignReturn: the account that the flow was for is
\* stored, not the one that the server has verified.
FinishSignIn(p) ==
  /\ page[p].pc \in {"verified", "refused"}
  /\ AfterVerifying(p)
  /\ IF page[p].pc = "verified"
     THEN /\ auth' = page[p].account
          /\ page' = [page EXCEPT ![p] = [BlankPage EXCEPT !.shown = page[p].account]]
     ELSE /\ page' = [page EXCEPT ![p] = BlankPage]
          /\ UNCHANGED auth
  /\ UNCHANGED <<cookie, open, signer, front, failures>>

SignOut(p) ==
  /\ p = front /\ page[p].pc = "idle" /\ page[p].shown # None
  /\ page' = [page EXCEPT ![p].pc = "logout"]
  /\ UNCHANGED <<flow, auth, cookie, open, signer, front, disturbed, failures>>

\* A failure of the server is logged, and the page signs out all the same.
LogOut(p) ==
  /\ page[p].pc = "logout"
  /\ \/ cookie' = None /\ UNCHANGED failures
     \/ Fault("lost") /\ UNCHANGED cookie
  /\ page' = [page EXCEPT ![p].pc = "clear"]
  /\ disturbed' = (disturbed \/ \E q \in Pages : Verifying(q))
  /\ UNCHANGED <<flow, auth, open, signer, front>>

ClearAuth(p) ==
  /\ page[p].pc = "clear"
  /\ auth' = None
  /\ page' = [page EXCEPT ![p].pc = "idle", ![p].shown = None]
  /\ disturbed' = (disturbed \/ cookie # None)
  /\ UNCHANGED <<flow, cookie, open, signer, front, failures>>

-----------------------------------------------------------------------------
(* The signer, the server and the user.                                    *)

\* The signer opens a page at the address it was given, with its answer; not
\* one that waits for the server, which is left only by Reload.
Opened(r, p, asked) ==
  IF r = GetKey
  THEN \E u \in Users : OpenPage(p, [kind |-> "challenge", user |-> u, challenge |-> None], asked)
  ELSE OpenPage(p, [kind |-> "signed", user |-> r.user, challenge |-> r.challenge], asked)

\* An answer that says nothing, or a signature by another of the accounts.
Unusable(r) == [kind |-> IF r = GetKey THEN "challenge" ELSE "signed",
                user |-> None, challenge |-> None]
SignedBy(u, r) == [kind |-> "signed", user |-> u, challenge |-> r.challenge]

Answer(r, p) ==
  /\ r \in signer /\ page[p].pc = "idle"
  /\ \/ p = front /\ Opened(r, p, signer \ {r}) /\ UNCHANGED <<disturbed, failures>>
     \/ p # front /\ Opened(r, p, signer \ {r}) /\ Fault("tab") /\ UNCHANGED disturbed
     \/ p = front /\ Opened(r, p, signer) /\ Fault("again") /\ UNCHANGED disturbed
     \/ /\ p = front /\ OpenPage(p, Unusable(r), signer \ {r})
        /\ Fault("unusable") /\ UNCHANGED disturbed
     \/ /\ p = front /\ r # GetKey
        /\ \E u \in Users \ {r.user} : OpenPage(p, SignedBy(u, r), signer \ {r})
        /\ Fault("other") /\ disturbed' = TRUE
  /\ front' = p
  /\ UNCHANGED <<auth, cookie, open>>

SwitchTo(p) ==
  /\ p # front /\ Fault("tab")
  /\ front' = p
  /\ UNCHANGED <<flow, auth, cookie, open, signer, page, disturbed>>

NoAnswer(r) ==
  /\ r \in signer /\ Fault("noAnswer")
  /\ signer' = signer \ {r}
  /\ UNCHANGED <<flow, auth, cookie, open, front, page, disturbed>>

ServerRestarts ==
  /\ open # {} /\ Fault("restart")
  /\ open' = {}
  /\ UNCHANGED <<flow, auth, cookie, signer, front, page, disturbed>>

\* Five minutes for a challenge, ten for a flow.
Expire ==
  /\ Fault("late")
  /\ \/ \E c \in open : open' = open \ {c} /\ UNCHANGED <<flow, disturbed>>
     \/ flow # NoFlow /\ DropFlow({}) /\ UNCHANGED open
  /\ UNCHANGED <<auth, cookie, signer, front, page>>

\* The page handled the first answer, or keeps one in its address that was refused.
Stuck(p) == AtForm(p) /\ (page[p].handling \/ page[p].url # NoUrl)

\* The application is opened anew, where the user gets no further.
Reopen(p) ==
  /\ p = front /\ Stuck(p) /\ OpenPage(p, NoUrl, signer)
  /\ UNCHANGED <<auth, cookie, open, front, disturbed, failures>>

\* A page is left, or loaded again.
Reload(p) ==
  /\ p = front /\ Fault("reload")
  /\ OpenPage(p, IF page[p].pc = "verify" THEN NoUrl ELSE page[p].url, signer)
  /\ open' \in {open, open \ (IF page[p].pc = "verify" THEN {page[p].url.challenge} ELSE {})}
  /\ disturbed' = (disturbed \/ page[p].pc \in {"verified", "clear"})
  /\ UNCHANGED <<auth, cookie, front>>

-----------------------------------------------------------------------------
Serve(p) ==
  \/ FetchChallenge(p) \/ VerifyOwnership(p) \/ FinishSignIn(p)
  \/ LogOut(p) \/ ClearAuth(p)

Next ==
  \/ \E p \in Pages :
       \/ Serve(p) \/ CheckReturn(p) \/ Click(p) \/ ContinueToAmber(p) \/ CancelStep2(p)
       \/ SignOut(p) \/ Reopen(p) \/ Reload(p) \/ SwitchTo(p)
       \/ \E r \in Requests : Answer(r, p)
  \/ \E r \in Requests : NoAnswer(r)
  \/ ServerRestarts \/ Expire

Spec == Init /\ [][Next]_vars

\* The event loop and the server go on, a page that is looked at checks for an
\* answer, the signer answers what it was not kept from answering, and the user
\* wants to sign in: presses the button the form shows, and opens the
\* application anew where it offers none.
Fairness ==
  /\ \A p \in Pages : WF_vars(Serve(p)) /\ WF_vars(CancelStep2(p)) /\ WF_vars(Reopen(p))
  /\ \A p \in Pages : WF_vars(CheckReturn(p)) /\ WF_vars(Click(p)) /\ WF_vars(ContinueToAmber(p))
  /\ SF_vars(\E p \in Pages : Answer(GetKey, p))
  /\ WF_vars(\E p \in Pages, r \in Requests \ {GetKey} : Answer(r, p))

FairSpec == Spec /\ Fairness
-----------------------------------------------------------------------------
\* No page is in the middle of signing in or out.
Settled == \A p \in Pages : ~Verifying(p) /\ page[p].pc \notin {"logout", "clear"}

\* The session of the server is that of the account stored in the browser,
\* although the two are set from different things, the account from the flow
\* and the session from the event that was signed, and no step of the sign-in
\* compares them; unless sign-ins have overlapped, one was cut off or the signer
\* has signed as another account than it named
\* (NostrLoginForm.tsx:276: clicks must not overwrite the flow, "causing the
\* final return from Amber to have mismatched challenge data").
SessionIsOfAccount == Settled => cookie = auth \/ disturbed

\* Again and again the user is signed in where he is: no lost request or answer,
\* restart, expiry, second answer or other page leaves something behind that
\* keeps a further attempt from succeeding ("You can try signing in again",
\* NostrAuthService.ts:2262).
SignsIn == []<>(page[front].shown # None)
=============================================================================
