------------------------------ MODULE LoginFlow ------------------------------
(***************************************************************************)
(* The OAuth2 login flow: OAuthStart sends a browser to the identity       *)
(* provider with a fresh state and nonce and keeps both in the browser's   *)
(* only CSRF cookie; OAuthCallback redeems the code, compares the state    *)
(* with the cookie its request carried, and saves a session.  The code and *)
(* the state are parameters of their own: nothing says they are of one     *)
(* flow.  Flows of several tabs and browsers interleave, a callback link   *)
(* may be opened again or elsewhere, and any call and response may fail.   *)
(* Where a definition is preceded by one of the same form, the earlier one *)
(* is a mutant: the bug a property is shown to catch.                      *)
(***************************************************************************)
EXTENDS Naturals

CONSTANTS
    Browsers,
    Requests,   \* concurrent requests to the proxy
    Flows,      \* logins begun; f is also the state, the OIDC nonce, the code
    None        \* nil: no cookie, no session, no flow

\* login: the flow whose code was redeemed; the ID token carries its nonce.
\* state: history, the one the callback carried.  nonce: the one SetSessionNonce
\* copied from the CSRF cookie.
Session == [login: Flows, state: Flows, nonce: Flows \cup {None}]
\* Once an error page is all that is left of a callback, only its browser counts.
Call    == [browser: Browsers, state: Flows \cup {None}, code: Flows \cup {None},
            cookie: Flows \cup {None}, newest: Flows \cup {None}]

ASSUME NoneAssumption == None \notin Browsers \cup Flows \cup Session \cup Call

VARIABLES
    csrf,      \* the CSRF cookie of each browser
    signedIn,  \* the session each browser is signed in with
    owner,     \* the browser each flow was started by
    code,      \* each flow at the identity provider
    pc,        \* what each request does next
    call,      \* the browser, parameters and CSRF cookie of each request
    sess,      \* the session each callback holds
    clears,    \* requests whose response removes the CSRF cookie
    newest     \* history: the flow each browser started last

vars == <<csrf, signedIn, owner, code, pc, call, sess, clears, newest>>

Labels == {"idle", "started", "redeem", "enrich", "check",
           "authorize", "save", "saved", "error"}

--------------------------------------------------------------------------------
Init ==
    /\ csrf = [b \in Browsers |-> None]
    /\ signedIn = [b \in Browsers |-> None]
    /\ owner = [f \in Flows |-> None]
    /\ code = [f \in Flows |-> "none"]
    /\ pc = [r \in Requests |-> "idle"]
    /\ call = [r \in Requests |-> None]
    /\ sess = [r \in Requests |-> None]
    /\ clears = {}
    /\ newest = [b \in Browsers |-> None]

Goto(r, l) == pc' = [pc EXCEPT ![r] = l]

Continue(r, l) == Goto(r, l) /\ UNCHANGED <<call, sess>>

ErrorPage(b) ==
    [browser |-> b, state |-> None, code |-> None, cookie |-> None, newest |-> None]
Fail(r) ==
    /\ Goto(r, "error")
    /\ call' = [call EXCEPT ![r] = ErrorPage(call[r].browser)]
    /\ sess' = [sess EXCEPT ![r] = None]

Send(r, b, s, c) ==
    /\ pc[r] = "idle"
    /\ call' = [call EXCEPT ![r] = [browser |-> b, state |-> s, code |-> c,
                                    cookie |-> csrf[b], newest |-> newest[b]]]

\* OAuthStart, also behind a sign-in that skips the provider button.
OAuthStart(r) ==
    /\ \E b \in Browsers, f \in Flows :
          /\ owner[f] = None
          /\ Send(r, b, f, None)
          /\ owner' = [owner EXCEPT ![f] = b]
    /\ Goto(r, "started")
    /\ UNCHANGED <<csrf, signedIn, code, sess, clears, newest>>

\* The browser takes the cookie and follows the redirect to the provider.
NewCookieOnce(old, f) == IF old = None THEN f ELSE old
NewCookie(old, f) == f
FollowStart(r) ==
    /\ pc[r] = "started"
    /\ LET b == call[r].browser
           f == call[r].state
       IN  /\ csrf' = [csrf EXCEPT ![b] = NewCookie(csrf[b], f)]
           /\ newest' = [newest EXCEPT ![b] = f]
           /\ code' = [code EXCEPT ![f] = "asked"]
    /\ Goto(r, "idle")
    /\ call' = [call EXCEPT ![r] = None]
    /\ UNCHANGED <<signedIn, owner, sess, clears>>

\* The provider sends the browser back with a code or an error.
Answer(f) ==
    /\ code[f] = "asked"
    /\ \E c \in {"issued", "denied"} : code' = [code EXCEPT ![f] = c]
    /\ UNCHANGED <<csrf, signedIn, owner, pc, call, sess, clears, newest>>

--------------------------------------------------------------------------------
\* A callback link is opened, again or in another browser perhaps, with the
\* state of one login and the code of the same or of another.
OAuthCallback(r) ==
    /\ \E b \in Browsers, s \in {f \in Flows : code[f] # "none"},
          c \in {f \in Flows : code[f] \in {"issued", "redeemed"}} :
              Send(r, b, s, c)
    /\ Goto(r, "redeem")
    /\ UNCHANGED <<csrf, signedIn, owner, code, sess, clears, newest>>

\* The provider reports an error, or there is no code.
CallbackRefused(r) ==
    /\ pc[r] = "idle"
    /\ \E b \in Browsers : call' = [call EXCEPT ![r] = ErrorPage(b)]
    /\ Goto(r, "error")
    /\ UNCHANGED <<csrf, signedIn, owner, code, sess, clears, newest>>

\* A code is good for one session; the state is not looked at yet.
Redeem(r) ==
    /\ pc[r] = "redeem"
    /\ code[call[r].code] = "issued"
    /\ code' = [code EXCEPT ![call[r].code] = "redeemed"]
    /\ sess' = [sess EXCEPT ![r] =
          [login |-> call[r].code, state |-> call[r].state, nonce |-> None]]
    /\ Goto(r, "enrich")
    /\ UNCHANGED <<csrf, signedIn, owner, call, clears, newest>>

\* A used code, or a failure before or after the code was used.
SpoilCode(r) ==
    /\ pc[r] = "redeem"
    /\ code' \in {code, [code EXCEPT ![call[r].code] = "redeemed"]}
    /\ UNCHANGED <<csrf, signedIn, owner, clears, newest>>
RedeemErrorOn(r) == SpoilCode(r) /\ Continue(r, "enrich")
RedeemError(r) == SpoilCode(r) /\ Fail(r)

\* GetEmailAddress and EnrichSession.
Enrich(r) ==
    /\ pc[r] = "enrich"
    /\ Continue(r, "check") \/ Fail(r)
    /\ UNCHANGED <<csrf, signedIn, owner, code, clears, newest>>

\* No valid CSRF cookie ends the callback with the cookie left alone; else it is
\* cleared, whether or not the state can be decoded and is the cookie's.
StateAny(r) == TRUE
StateMatches(r) == call[r].cookie = call[r].state
NoCookie(r) ==
    /\ pc[r] = "check"
    /\ call[r].cookie = None
    /\ Fail(r)
    /\ UNCHANGED <<csrf, signedIn, owner, code, clears, newest>>

\* SetSessionNonce follows the comparison.
CheckState(r) ==
    /\ pc[r] = "check"
    /\ call[r].cookie # None
    /\ clears' = clears \cup {r}
    /\ IF StateMatches(r)
       THEN /\ sess' = [sess EXCEPT ![r].nonce = call[r].cookie]
            /\ Goto(r, "authorize")
            /\ UNCHANGED call
       ELSE Fail(r)
    /\ UNCHANGED <<csrf, signedIn, owner, code, newest>>

StateGarbled(r) ==
    /\ pc[r] = "check"
    /\ call[r].cookie # None
    /\ clears' = clears \cup {r}
    /\ Fail(r)
    /\ UNCHANGED <<csrf, signedIn, owner, code, newest>>

\* ValidateSession compares the session's nonce with the ID token's, and nobody
\* looks at the result; Authorize and the email Validator decide.
Authorize(r) ==
    /\ pc[r] = "authorize"
    /\ Continue(r, "save") \/ Fail(r)
    /\ UNCHANGED <<csrf, signedIn, owner, code, clears, newest>>

Save(r) ==
    /\ pc[r] = "save"
    /\ Continue(r, "saved") \/ Fail(r)
    /\ UNCHANGED <<csrf, signedIn, owner, code, clears, newest>>

Finish(r) ==
    /\ Goto(r, "idle")
    /\ call' = [call EXCEPT ![r] = None]
    /\ sess' = [sess EXCEPT ![r] = None]
    /\ clears' = clears \ {r}
    /\ UNCHANGED <<owner, code, newest>>

\* The browser takes the cookies of the redirect or of the error page.
Deliver(r) ==
    /\ pc[r] \in {"saved", "error"}
    /\ LET b == call[r].browser
       IN  /\ csrf' = IF r \in clears THEN [csrf EXCEPT ![b] = None] ELSE csrf
           /\ signedIn' = IF pc[r] = "saved" THEN [signedIn EXCEPT ![b] = sess[r]]
                                             ELSE signedIn
    /\ Finish(r)

Lose(r) ==
    /\ pc[r] \in {"started", "saved", "error"}
    /\ Finish(r)
    /\ UNCHANGED <<csrf, signedIn>>

\* Sign-out, or the end of the session; a login under way is not affected.
SignOut(b) ==
    /\ signedIn[b] # None
    /\ signedIn' = [signedIn EXCEPT ![b] = None]
    /\ UNCHANGED <<csrf, owner, code, pc, call, sess, clears, newest>>

\* The CSRF cookie expires.
Expire(b) ==
    /\ csrf[b] # None
    /\ csrf' = [csrf EXCEPT ![b] = None]
    /\ UNCHANGED <<signedIn, owner, code, pc, call, sess, clears, newest>>

Step(r) ==
    \/ OAuthStart(r) \/ FollowStart(r)
    \/ OAuthCallback(r) \/ CallbackRefused(r) \/ Redeem(r) \/ RedeemError(r) \/ Enrich(r)
    \/ NoCookie(r) \/ CheckState(r) \/ StateGarbled(r) \/ Authorize(r) \/ Save(r)
    \/ Deliver(r) \/ Lose(r)

Next ==
    \/ \E r \in Requests : Step(r)
    \/ \E f \in Flows : Answer(f)
    \/ \E b \in Browsers : SignOut(b) \/ Expire(b)

Spec == Init /\ [][Next]_vars

--------------------------------------------------------------------------------
(***************************************************************************)
(* Properties.                                                             *)
(***************************************************************************)
\* Types, and: no step after the redemption works on a nil session.
TypeOK ==
    /\ csrf \in [Browsers -> Flows \cup {None}]
    /\ signedIn \in [Browsers -> Session \cup {None}]
    /\ owner \in [Flows -> Browsers \cup {None}]
    /\ code \in [Flows -> {"none", "asked", "issued", "denied", "redeemed"}]
    /\ pc \in [Requests -> Labels]
    /\ call \in [Requests -> Call \cup {None}]
    /\ sess \in [Requests -> Session \cup {None}]
    /\ clears \subseteq Requests
    /\ newest \in [Browsers -> Flows \cup {None}]
    /\ \A r \in Requests :
          /\ pc[r] # "idle" => call[r] # None
          /\ pc[r] \in {"enrich", "check", "authorize", "save", "saved"}
                => sess[r] # None

\* Whichever links are opened in it, a browser is only ever signed in by a
\* callback with the state of a login it started itself.  Whose code that callback
\* brought is another matter (SignedInWithNonce).
SignedInByOwnState ==
    \A b \in Browsers : signedIn[b] # None => owner[signedIn[b].state] = b

\* Tabs share one CSRF cookie: only the state the browser started last, when the
\* callback was sent, gets past the state check; older tabs' logins fail.
Checked(r) == pc[r] \in {"authorize", "save", "saved"}
OnlyNewestFlowSignsIn ==
    \A r \in Requests : Checked(r) => call[r].state = call[r].newest

\* "The nonce is checked after the initial OAuth redeem" (alpha_config.md): the
\* ID token a browser is signed in with carries the nonce of its CSRF cookie.
SignedInWithNonce ==
    \A b \in Browsers : signedIn[b] # None => signedIn[b].login = signedIn[b].nonce
==============================================================================
