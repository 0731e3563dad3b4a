--------------------------- MODULE LoginFlowProofs ---------------------------
(***************************************************************************)
(* A browser is signed in only by a callback with the state of a login it  *)
(* started, the one it started last, for any number of browsers, requests  *)
(* and flows.                                                              *)
(***************************************************************************)
EXTENDS LoginFlow, TLAPS

\* A CSRF cookie, and a copy of it in a request, names the flow its browser
\* started last.
CookieOwned ==
    /\ \A b \in Browsers : csrf[b] # None =>
          owner[csrf[b]] = b /\ newest[b] = csrf[b]
    /\ \A r \in Requests : call[r] # None /\ call[r].cookie # None =>
          owner[call[r].cookie] = call[r].browser /\ call[r].newest = call[r].cookie

\* The parameters the steps rely on are there.
ParametersThere ==
    \A r \in Requests :
        /\ pc[r] = "started" =>
              call[r].state # None /\ owner[call[r].state] = call[r].browser
        /\ pc[r] = "redeem" => call[r].code # None /\ call[r].state # None

\* A session records the state of its callback, which past the check is that of
\* the cookie.
SessionOwned ==
    \A r \in Requests :
        /\ pc[r] \in {"idle", "started", "redeem", "error"} => sess[r] = None
        /\ sess[r] # None => sess[r].state = call[r].state
        /\ Checked(r) => call[r].cookie # None /\ call[r].state = call[r].cookie

IInv == TypeOK /\ CookieOwned /\ ParametersThere /\ SessionOwned /\ SignedInByOwnState

LEMMA Kinds ==
    /\ \A f \in Flows : f # None
    /\ \A b \in Browsers : b # None
    /\ \A s \in Session : s # None /\ s.state \in Flows
    /\ \A c \in Call : /\ c # None /\ c.browser \in Browsers
                       /\ c.state \in Flows \cup {None}
                       /\ c.code \in Flows \cup {None}
                       /\ c.cookie \in Flows \cup {None}
                       /\ c.newest \in Flows \cup {None}
BY NoneAssumption DEF Session, Call

\* The request a browser sends, and what an error leaves of it.
LEMMA Sent ==
    ASSUME TypeOK, CookieOwned, NEW r \in Requests, NEW b \in Browsers,
           NEW s \in Flows, NEW k \in Flows \cup {None}, Send(r, b, s, k)
    PROVE  \E c \in Call :
              /\ call' = [call EXCEPT ![r] = c]
              /\ c.browser = b /\ c.state = s /\ c.code = k
              /\ c.cookie # None => owner[c.cookie] = b /\ c.newest = c.cookie
<1> DEFINE c == [browser |-> b, state |-> s, code |-> k, cookie |-> csrf[b],
                 newest |-> newest[b]]
<1>1. c \in Call
  BY DEF TypeOK, Call
<1>2. c.cookie # None => owner[c.cookie] = b /\ c.newest = c.cookie
  BY DEF CookieOwned
<1>3. /\ call' = [call EXCEPT ![r] = c]
      /\ c.browser = b /\ c.state = s /\ c.code = k
  BY DEF Send
<1> HIDE DEF c
<1>4. QED
  BY <1>1, <1>2, <1>3

LEMMA Page ==
    \A b \in Browsers : /\ ErrorPage(b) \in Call /\ ErrorPage(b).cookie = None
                        /\ ErrorPage(b).browser = b
BY DEF ErrorPage, Call

LEMMA Failed ==
    ASSUME TypeOK, NEW r \in Requests, pc[r] # "idle", Fail(r)
    PROVE  \E c \in Call :
              /\ call' = [call EXCEPT ![r] = c] /\ c.cookie = None
              /\ c.browser = call[r].browser
              /\ sess' = [sess EXCEPT ![r] = None]
              /\ pc' = [pc EXCEPT ![r] = "error"]
<1>1. call[r].browser \in Browsers
  BY Kinds DEF TypeOK
<1>2. ErrorPage(call[r].browser) \in Call
      /\ ErrorPage(call[r].browser).cookie = None
      /\ ErrorPage(call[r].browser).browser = call[r].browser
  BY <1>1, Page
<1>3. QED
  BY <1>2 DEF Fail, Goto

LEMMA InitInv == Init => IInv
BY DEF Init, IInv, TypeOK, CookieOwned, ParametersThere, SessionOwned,
       SignedInByOwnState, Checked, Labels

\* The error page keeps the invariant, whatever became of the code and whether
\* or not it clears the CSRF cookie.
LEMMA FailStep ==
    ASSUME IInv, NEW r \in Requests, pc[r] # "idle", Fail(r),
           UNCHANGED <<csrf, signedIn, owner, newest>>,
           code' \in [Flows -> {"none", "asked", "issued", "denied", "redeemed"}],
           clears' \subseteq Requests
    PROVE  IInv'
<1> USE Kinds DEF IInv, TypeOK, CookieOwned, ParametersThere, SessionOwned,
        SignedInByOwnState, Checked, Labels
<1>1. PICK c \in Call :
              /\ call' = [call EXCEPT ![r] = c] /\ c.cookie = None
              /\ c.browser = call[r].browser
              /\ sess' = [sess EXCEPT ![r] = None]
              /\ pc' = [pc EXCEPT ![r] = "error"]
  BY Failed
<1>2. TypeOK'
  BY <1>1
<1>3. CookieOwned' /\ SignedInByOwnState'
  BY <1>1
<1>4. ParametersThere' /\ SessionOwned'
  BY <1>1
<1>5. QED
  BY <1>2, <1>3, <1>4

LEMMA Inductive == IInv /\ [Next]_vars => IInv'
<1> SUFFICES ASSUME IInv, [Next]_vars PROVE IInv'
  OBVIOUS
<1> USE Kinds DEF IInv, TypeOK, CookieOwned, ParametersThere, SessionOwned,
        SignedInByOwnState, Checked, Labels, Goto
<1>1. ASSUME NEW r \in Requests, OAuthStart(r) PROVE IInv'
  <2>1. PICK b \in Browsers, f \in Flows :
          owner[f] = None /\ Send(r, b, f, None) /\ owner' = [owner EXCEPT ![f] = b]
    BY <1>1 DEF OAuthStart
  <2>2. PICK c \in Call :
          /\ call' = [call EXCEPT ![r] = c]
          /\ c.browser = b /\ c.state = f /\ c.code = None
          /\ c.cookie # None => owner[c.cookie] = b /\ c.newest = c.cookie
    BY <2>1, Sent
  <2>3. pc[r] = "idle" /\ pc' = [pc EXCEPT ![r] = "started"]
        /\ UNCHANGED <<csrf, signedIn, code, sess, clears, newest>>
    BY <1>1, <2>1 DEF OAuthStart, Send
  <2>4. \A g \in Flows : owner[g] # None => owner'[g] = owner[g]
    BY <2>1
  <2>5. TypeOK'
    BY <2>1, <2>2, <2>3
  <2>6. CookieOwned' /\ SignedInByOwnState'
    BY <2>2, <2>3, <2>4
  <2>7. ParametersThere' /\ SessionOwned'
    BY <2>1, <2>2, <2>3, <2>4
  <2>8. QED
    BY <2>5, <2>6, <2>7
<1>2. ASSUME NEW r \in Requests, FollowStart(r) PROVE IInv'
  <2>1. /\ call[r] \in Call /\ call[r].state \in Flows
        /\ owner[call[r].state] = call[r].browser /\ sess[r] = None
    BY <1>2 DEF FollowStart
  <2>2. QED
    BY <1>2, <2>1 DEF FollowStart, NewCookie
<1>3. ASSUME NEW f \in Flows, Answer(f) PROVE IInv'
  BY <1>3 DEF Answer
<1>4. ASSUME NEW r \in Requests, OAuthCallback(r) PROVE IInv'
  <2>1. PICK b \in Browsers, s \in Flows, k \in Flows : Send(r, b, s, k)
    BY <1>4 DEF OAuthCallback
  <2>2. PICK c \in Call :
          /\ call' = [call EXCEPT ![r] = c]
          /\ c.browser = b /\ c.state = s /\ c.code = k
          /\ c.cookie # None => owner[c.cookie] = b /\ c.newest = c.cookie
    BY <2>1, Sent
  <2>3. /\ pc[r] = "idle" /\ pc' = [pc EXCEPT ![r] = "redeem"]
        /\ UNCHANGED <<csrf, signedIn, owner, code, sess, clears, newest>>
    BY <1>4, <2>1 DEF OAuthCallback, Send
  <2>4. TypeOK'
    BY <2>2, <2>3
  <2>5. CookieOwned'
    BY <2>2, <2>3
  <2>6. SignedInByOwnState'
    BY <2>3
  <2>7. ParametersThere' /\ SessionOwned'
    BY <2>2, <2>3
  <2>8. QED
    BY <2>4, <2>5, <2>6, <2>7
<1>5. ASSUME NEW r \in Requests, CallbackRefused(r) PROVE IInv'
  <2>0. PICK b \in Browsers : call' = [call EXCEPT ![r] = ErrorPage(b)]
    BY <1>5 DEF CallbackRefused
  <2>1. PICK c \in Call : call' = [call EXCEPT ![r] = c] /\ c.cookie = None
    BY <2>0, Page
  <2>2. /\ pc[r] = "idle" /\ pc' = [pc EXCEPT ![r] = "error"]
        /\ UNCHANGED <<csrf, signedIn, owner, code, sess, clears, newest>>
    BY <1>5 DEF CallbackRefused
  <2>3. TypeOK' /\ CookieOwned' /\ SignedInByOwnState'
    BY <2>1, <2>2
  <2>4. ParametersThere' /\ SessionOwned'
    BY <2>1, <2>2
  <2>5. QED
    BY <2>3, <2>4
<1>6. ASSUME NEW r \in Requests, Redeem(r) PROVE IInv'
  <2>1. call[r].code \in Flows /\ call[r].state \in Flows
    BY <1>6 DEF Redeem
  <2> DEFINE s == [login |-> call[r].code, state |-> call[r].state, nonce |-> None]
  <2>2. s \in Session /\ s.state = call[r].state /\ sess' = [sess EXCEPT ![r] = s]
    BY <1>6, <2>1 DEF Redeem, Session
  <2> HIDE DEF s
  <2>3. QED
    BY <1>6, <2>1, <2>2 DEF Redeem
<1>7. ASSUME NEW r \in Requests, RedeemError(r) PROVE IInv'
  <2>1. call[r].code \in Flows /\ pc[r] # "idle" /\ Fail(r)
        /\ UNCHANGED <<csrf, signedIn, owner, clears, newest>>
    BY <1>7 DEF RedeemError, SpoilCode
  <2>2. code' \in [Flows -> {"none", "asked", "issued", "denied", "redeemed"}]
    BY <1>7, <2>1 DEF RedeemError, SpoilCode
  <2>3. QED
    BY <2>1, <2>2, FailStep
<1>8. ASSUME NEW r \in Requests, Enrich(r) \/ Authorize(r) \/ Save(r)
      PROVE  IInv'
  <2>1. CASE Fail(r)
    BY <1>8, <2>1, FailStep DEF Enrich, Authorize, Save
  <2>2. CASE ~Fail(r)
    BY <1>8, <2>2 DEF Enrich, Authorize, Save, Continue
  <2>3. QED
    BY <2>1, <2>2
<1>9. ASSUME NEW r \in Requests, NoCookie(r) \/ CheckState(r) \/ StateGarbled(r)
      PROVE  IInv'
  <2>1. CASE Fail(r)
    BY <1>9, <2>1, FailStep DEF NoCookie, CheckState, StateGarbled
  <2>2. CASE ~Fail(r)
    <3>1. /\ pc[r] = "check" /\ call[r].cookie # None /\ call[r].cookie = call[r].state
          /\ pc' = [pc EXCEPT ![r] = "authorize"] /\ clears' = clears \cup {r}
          /\ sess' = [sess EXCEPT ![r].nonce = call[r].cookie]
          /\ UNCHANGED <<csrf, signedIn, owner, code, call, newest>>
      BY <1>9, <2>2 DEF NoCookie, CheckState, StateGarbled, StateMatches
    <3>2. sess[r] \in Session /\ call[r].cookie \in Flows
      BY <3>1
    <3>3. PICK s \in Session : /\ sess' = [sess EXCEPT ![r] = s]
                               /\ s.state = sess[r].state
      <4>1. [sess[r] EXCEPT !.nonce = call[r].cookie] \in Session
        BY <3>2 DEF Session
      <4>2. [sess[r] EXCEPT !.nonce = call[r].cookie].state = sess[r].state
        BY <3>2 DEF Session
      <4>3. sess' = [sess EXCEPT ![r] = [sess[r] EXCEPT !.nonce = call[r].cookie]]
        BY <3>1
      <4>4. QED
        BY <4>1, <4>2, <4>3
    <3>4. QED
      BY <3>1, <3>3
  <2>3. QED
    BY <2>1, <2>2
<1>10. ASSUME NEW r \in Requests, Deliver(r) PROVE IInv'
  BY <1>10 DEF Deliver, Finish
<1>11. ASSUME NEW r \in Requests, Lose(r) PROVE IInv'
  BY <1>11 DEF Lose, Finish
<1>12. ASSUME NEW b \in Browsers, SignOut(b) \/ Expire(b) PROVE IInv'
  BY <1>12 DEF SignOut, Expire
<1>13. CASE UNCHANGED vars
  BY <1>13 DEF vars
<1>14. QED
  BY <1>1, <1>2, <1>3, <1>4, <1>5, <1>6, <1>7, <1>8, <1>9, <1>10, <1>11, <1>12,
     <1>13 DEF Next, Step

\* Every step after the redemption has a session; the state is well typed.
THEOREM TypeInvariant == Spec => []TypeOK
<1>1. IInv => TypeOK
  BY DEF IInv
<1>2. QED
  BY <1>1, InitInv, Inductive, PTL DEF Spec

\* A browser is only ever signed in by a callback with the state of a login it
\* started itself, whosever code that callback brought.
THEOREM OwnState == Spec => []SignedInByOwnState
<1>1. IInv => SignedInByOwnState
  BY DEF IInv
<1>2. QED
  BY <1>1, InitInv, Inductive, PTL DEF Spec

\* Only the state a browser started last gets past the state check.
THEOREM NewestFlowOnly == Spec => []OnlyNewestFlowSignsIn
<1>1. IInv => OnlyNewestFlowSignsIn
  BY Kinds DEF IInv, TypeOK, CookieOwned, SessionOwned, Checked, OnlyNewestFlowSignsIn
<1>2. QED
  BY <1>1, InitInv, Inductive, PTL DEF Spec
==============================================================================
