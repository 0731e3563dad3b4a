-------------------------- MODULE StoredSessionProofs --------------------------
(***************************************************************************)
(* Proofs about StoredSession, for every number of requests, tickets and   *)
(* grants and every choice of the periods.                                 *)
(***************************************************************************)
EXTENDS StoredSession, TLAPS

\* Truncating a time to the second keeps it a natural number and never moves it
\* forward.
LEMMA TruncateBound == \A t \in Nat : Truncate(t) \in Nat /\ Truncate(t) <= t
  BY PeriodAssumption DEF Truncate

\* Values of the different kinds a variable may hold are told apart.
LEMMA Kinds ==
    /\ \A s \in Session : s # None
    /\ \A e \in Entry : e # None
    /\ \A k \in Cookie : k # None /\ k # Keep /\ k # Delete
    /\ Keep # Delete
  BY NoneAssumption, KeepAssumption

\* What a refresh makes of a session.
LEMMA RefreshedSession ==
    ASSUME NEW s \in Session, now \in Nat, NextToken(s.login) \in Nat
    PROVE  /\ Refreshed(s) \in Session
           /\ Refreshed(s).login = s.login
           /\ Refreshed(s).rt = NextToken(s.login)
           /\ Refreshed(s).createdAt = now
  <1>1. now + TokenLife \in Nat
    BY PeriodAssumption
  <1>2. QED
    BY <1>1 DEF Refreshed, Session

LEMMA TypeStep == TypeOK /\ [Next]_vars => TypeOK'
<1> SUFFICES ASSUME TypeOK, [Next]_vars
             PROVE  TypeOK'
  OBVIOUS
<1>1. ASSUME NEW r \in Requests, Step(r)
      PROVE  TypeOK'
  <2> USE PeriodAssumption, Kinds DEF TypeOK, Holding, Labels, clockVars, storeVars, providerVars, Revoked, history, AfterRefresh
  <2>1. CASE ProxyRequest(r)
    BY <2>1 DEF ProxyRequest, Arrive, Goto
  <2>2. CASE SignOut(r)
    BY <2>2 DEF SignOut, Arrive, Goto
  <2>3. CASE SignIn(r)
    BY <2>3 DEF SignIn, Arrive, Goto, Session
  <2>4. CASE LoadHit(r)
    BY <2>4 DEF LoadHit, Goto, ValidTicket, Entry, Cookie
  <2>5. CASE LoadError(r)
    BY <2>5 DEF LoadError, Goto
  <2>6. CASE RefreshGranted(r)
    <3>1. sess[r] \in Session
      BY <2>6 DEF RefreshGranted
    <3>2. NextToken(sess[r].login) \in Nat
      BY <3>1 DEF NextToken, Session
    <3>3. Refreshed(sess[r]) \in Session
      BY <3>1, <3>2, RefreshedSession
    <3>4. QED
      BY <2>6, <3>1, <3>2, <3>3 DEF RefreshGranted, Goto
  <2>7. CASE RefreshReplyLost(r)
    BY <2>7 DEF RefreshReplyLost, Goto, Session
  <2>8. CASE RefreshNotDone(r)
    BY <2>8 DEF RefreshNotDone, Goto
  <2>9. CASE RefreshNotImplemented(r)
    BY <2>9 DEF RefreshNotImplemented, Goto, Stamped, Session
  <2>10. CASE Save(r)
    <3>1. sess[r] \in Session
      BY <2>10 DEF Save
    <3>2. PICK t \in Tickets :
            /\ store' = [store EXCEPT ![t] = SavedEntry(sess[r])]
            /\ issued' = issued \cup {t}
            /\ setCookie' = [setCookie EXCEPT ![r] = SavedCookie(sess[r], t)]
            /\ dropped' = dropped \cup (StoredLogin(t) \ {sess[r].login})
      BY <2>10 DEF Save
    <3>3. SavedEntry(sess[r]) \in Entry
      BY <3>1 DEF SavedEntry, Entry
    <3>4. SavedCookie(sess[r], t) \in Cookie
      BY <3>1, TruncateBound DEF SavedCookie, Cookie, Session
    <3>5. StoredLogin(t) \subseteq Logins
      BY DEF StoredLogin, Entry, Session
    <3>6. store' \in [Tickets -> Entry \cup {None}]
          /\ setCookie' \in [Requests -> Cookie \cup {Keep, Delete}]
          /\ issued' \subseteq Tickets /\ dropped' \subseteq Logins
      BY <3>2, <3>3, <3>4, <3>5
    <3>7. QED
      BY <2>10, <3>6 DEF Save, Continue, Goto, AfterSave
  <2>11. CASE SaveError(r)
    BY <2>11 DEF SaveError, Continue, Goto, AfterSave, Session
  <2>12. CASE ValidateAccept(r)
    BY <2>12 DEF ValidateAccept, Goto
  <2>13. CASE ValidateReject(r)
    BY <2>13 DEF ValidateReject, Goto
  <2>14. CASE Clear(r)
    BY <2>14 DEF Clear, Continue, Goto, AfterClear, ValidTicket, StoredLogin, Entry,
                   Session, Cookie
  <2>15. CASE ClearError(r)
    BY <2>15 DEF ClearError, Continue, Goto, AfterClear
  <2>16. CASE HandleAndClear(r)
    BY <2>16 DEF HandleAndClear, Goto
  <2>17. CASE Respond(r)
    BY <2>17 DEF Respond, Goto
  <2>18. QED
    BY <1>1, <2>1, <2>2, <2>3, <2>4, <2>5, <2>6, <2>7, <2>8, <2>9, <2>10, <2>11, <2>12, <2>13, <2>14, <2>15, <2>16, <2>17 DEF Step
<1>2. CASE Tick
  BY <1>2, PeriodAssumption, Kinds
     DEF Tick, TypeOK, Holding, Outlived, StoredLogin, Entry, Session,
         providerVars, Revoked
<1>3. CASE Revoke
  BY <1>3 DEF Revoke, TypeOK, Holding, Revoked, clockVars, storeVars, history, AfterRefresh
<1>4. CASE UNCHANGED vars
  BY <1>4 DEF vars, TypeOK, Holding, Revoked
<1>5. QED
  BY <1>1, <1>2, <1>3, <1>4 DEF Next

\* No reachable state is ill-typed, and no request refreshes, saves or
\* validates a nil session.
THEOREM TypeInvariant == Spec => []TypeOK
<1>1. Init => TypeOK
  BY PeriodAssumption, KeepAssumption
     DEF Init, TypeOK, Holding, Labels, Revoked
<1>2. QED
  BY <1>1, TypeStep, PTL DEF Spec

--------------------------------------------------------------------------------
(***************************************************************************)
(* The order of refresh tokens.                                            *)
(***************************************************************************)
Saving(r) == pc[r] \in {"save", "signin"}

\* Every session anywhere belongs to an issued grant and holds a refresh token
\* the provider has issued.
Issued(s) == s.login \in started /\ s.rt <= current[s.login]
TokensIssued ==
    /\ \A t \in Tickets : store[t] # None => Issued(store[t].session)
    /\ \A r \in Requests : sess[r] # None => Issued(sess[r])
    /\ provider # "rotating" => \A l \in Logins : current[l] = 0

\* A session s is older than what request r is about to save.
Older(s, r) == s.login = sess[r].login => s.rt < current[s.login]

\* A request that is about to save holds the newest token, and with a rotating
\* provider nobody else does.
NewestSaver(r) ==
    /\ sess[r].rt = current[sess[r].login]
    /\ provider = "rotating" =>
          /\ \A t \in Tickets : store[t] # None => Older(store[t].session, r)
          /\ \A q \in Requests \ {r} : sess[q] # None => Older(sess[q], r)
SaverHoldsNewest == \A r \in Requests : Saving(r) => NewestSaver(r)

TokenInv == TypeOK /\ TokensIssued /\ SaverHoldsNewest

(***************************************************************************)
(* Cookies and the entries behind them.                                    *)
(***************************************************************************)
Backed(k) ==
    \/ k.stamp + CookieExpire <= now
    \/ store[k.ticket] # None /\ k.stamp + CookieExpire <= store[k.ticket].deadline
    \/ \E l \in Logins : <<k.ticket, l>> \in cleared

\* No session is created in the future, no entry lives longer than one written
\* now would, and every cookie in use or on its way is backed by an entry.
NotFuture ==
    /\ \A r \in Requests : sess[r] # None => sess[r].createdAt <= now
    /\ \A t \in Tickets : store[t] # None => store[t].session.createdAt <= now
TimelyEntries ==
    \A t \in Tickets : store[t] # None => store[t].deadline <= now + CookieExpire
CookiesBacked ==
    /\ jar # None => Backed(jar)
    /\ \A r \in Requests : setCookie[r] \notin {Keep, Delete} => Backed(setCookie[r])
CookieInv == NotFuture /\ TimelyEntries /\ CookiesBacked

(***************************************************************************)
(* A request that loaded a revoked session due for a refresh, and how long *)
(* the sessions of a grant can last once it is revoked.                    *)
(***************************************************************************)
DoomedInv ==
    \A r \in doomed :
        \/ pc[r] \in {"refresh", "save", "validate"} /\ Revoked(sess[r].login)
        \/ pc[r] = "handler" /\ sess[r] # None /\ Revoked(sess[r].login)
        \/ pc[r] \in {"clear", "handler", "page", "respond"} /\ sess[r] = None

\* No session of a grant outlives a token issued now or, once the grant is
\* revoked, one issued at its revocation.
LastIssue(l) == IF Revoked(l) THEN revokedAt[l] ELSE now
Bounded(s) == s.expiresOn <= LastIssue(s.login) + TokenLife
SessionsBounded ==
    /\ \A t \in Tickets : store[t] # None => Bounded(store[t].session)
    /\ \A r \in Requests : sess[r] # None => Bounded(sess[r])
RevocationInv == DoomedInv /\ SessionsBounded

LEMMA RevocationStep == TypeOK /\ RevocationInv /\ [Next]_vars => RevocationInv'
<1> SUFFICES ASSUME TypeOK, RevocationInv, [Next]_vars
             PROVE  RevocationInv'
  OBVIOUS
<1> USE PeriodAssumption, NoneAssumption
        DEF TypeOK, RevocationInv, DoomedInv, SessionsBounded, Bounded, LastIssue,
            clockVars, storeVars, providerVars, Revoked, history, AfterRefresh
<1>1. ASSUME NEW r \in Requests, Step(r)
      PROVE  RevocationInv'
  <2>1. CASE ProxyRequest(r)
    BY <2>1, Kinds DEF ProxyRequest, Arrive, Goto
  <2>2. CASE SignOut(r)
    BY <2>2, Kinds DEF SignOut, Arrive, Goto
  <2>3. CASE SignIn(r)
    BY <2>3, Kinds DEF SignIn, Arrive, Goto, Session, Holding
  <2>4. CASE LoadHit(r)
    <3> DEFINE s == store[cookie[r].ticket].session
    <3>1. /\ sess' = [sess EXCEPT ![r] = s]
          /\ Goto(r, IF RefreshDue(s) THEN "refresh" ELSE "handler")
          /\ doomed' = IF RefreshDue(s) /\ Revoked(s.login)
                       THEN doomed \cup {r} ELSE doomed
          /\ UNCHANGED <<now, store, revokedAt>>
          /\ pc[r] = "load"
      BY <2>4 DEF LoadHit
    <3>2. cookie[r].ticket \in Tickets /\ store[cookie[r].ticket] # None
      BY <2>4 DEF LoadHit, ValidTicket, Cookie
    <3>3. s \in Session /\ s # None /\ Bounded(s)
      BY <3>2, Kinds DEF Entry
    <3>4. DoomedInv'
      BY <3>1, <3>3 DEF Goto
    <3>5. SessionsBounded'
      BY <3>1, <3>3
    <3>6. QED
      BY <3>4, <3>5
  <2>5. CASE LoadError(r)
    BY <2>5, Kinds DEF LoadError, Goto
  <2>6. CASE RefreshGranted(r)
    BY <2>6, Kinds DEF RefreshGranted, Goto, Refreshed, Session, Holding
  <2>7. CASE RefreshReplyLost(r)
    BY <2>7, Kinds DEF RefreshReplyLost, Goto
  <2>8. CASE RefreshNotDone(r)
    BY <2>8, Kinds DEF RefreshNotDone, Goto
  <2>9. CASE RefreshNotImplemented(r)
    <3>1. sess[r] \in Session /\ sess[r] # None /\ Bounded(sess[r])
      BY <2>9 DEF RefreshNotImplemented, Holding
    <3>2. /\ Stamped(sess[r]).login = sess[r].login
          /\ Stamped(sess[r]).expiresOn = sess[r].expiresOn
      BY <3>1 DEF Stamped, Session
    <3>3. Stamped(sess[r]) # None
      BY <3>1, Kinds DEF Stamped, Session
    <3>4. QED
      BY <2>9, <3>1, <3>2, <3>3 DEF RefreshNotImplemented, Goto
  <2>10. CASE Save(r)
    <3>1. PICK t \in Tickets : store' = [store EXCEPT ![t] = SavedEntry(sess[r])]
      BY <2>10 DEF Save
    <3>2. /\ sess[r] # None /\ Bounded(sess[r]) /\ UNCHANGED <<now, revokedAt, doomed>>
          /\ pc[r] \in {"save", "signin"}
      BY <2>10 DEF Save, Holding
    <3>3. /\ pc' = [pc EXCEPT ![r] = AfterSave(r)]
          /\ sess' = IF AfterSave(r) = "respond" THEN [sess EXCEPT ![r] = None] ELSE sess
      BY <2>10 DEF Save, Continue, Goto
    <3>4. SavedEntry(sess[r]).session = sess[r]
      BY DEF SavedEntry
    <3>5. DoomedInv'
      BY <3>2, <3>3, Kinds DEF AfterSave
    <3>6. SessionsBounded'
      BY <3>1, <3>2, <3>3, <3>4
    <3>7. QED
      BY <3>5, <3>6
  <2>11. CASE SaveError(r)
    BY <2>11, Kinds DEF SaveError, Continue, Goto, AfterSave
  <2>12. CASE ValidateAccept(r)
    BY <2>12, Kinds DEF ValidateAccept, Goto, Holding
  <2>13. CASE ValidateReject(r)
    BY <2>13, Kinds DEF ValidateReject, Goto
  <2>14. CASE Clear(r)
    BY <2>14, Kinds DEF Clear, Continue, Goto, AfterClear
  <2>15. CASE ClearError(r)
    BY <2>15, Kinds DEF ClearError, Continue, Goto, AfterClear
  <2>16. CASE HandleAndClear(r)
    BY <2>16, Kinds DEF HandleAndClear, Goto
  <2>17. CASE Respond(r)
    BY <2>17, Kinds DEF Respond, Goto
  <2>18. QED
    BY <1>1, <2>1, <2>2, <2>3, <2>4, <2>5, <2>6, <2>7, <2>8, <2>9, <2>10, <2>11, <2>12, <2>13, <2>14, <2>15, <2>16, <2>17 DEF Step
<1>2. CASE Tick
  BY <1>2, Kinds DEF Tick, Entry, Session
<1>3. CASE Revoke
  BY <1>3, Kinds DEF Revoke, Entry, Session
<1>4. CASE UNCHANGED vars
  BY <1>4 DEF vars
<1>5. QED
  BY <1>1, <1>2, <1>3, <1>4 DEF Next

LEMMA RevocationInvariant == Spec => []RevocationInv
<1>1. Init => RevocationInv
  BY DEF Init, RevocationInv, DoomedInv, SessionsBounded
<1>2. QED
  BY <1>1, RevocationStep, TypeInvariant, PTL DEF Spec

\* A request that finds the session of a revoked grant due for a refresh goes on
\* with it only where the ID token is verified locally, and not after the life
\* of a token issued when the grant was revoked.
THEOREM RevokedNotServed == Spec => RevocationTakesHold
<1>1. TypeOK /\ RevocationInv /\ [Next]_vars => RevokedServedOnlyOnIDToken
  <2> SUFFICES ASSUME TypeOK, RevocationInv, [Next]_vars,
                      NEW r \in Requests, GoesOnRevoked(r)
               PROVE  OutlivesRevocation(r)
    BY DEF RevokedServedOnlyOnIDToken
  <2> USE DEF TypeOK, RevocationInv, DoomedInv, GoesOnRevoked, clockVars, storeVars,
              providerVars, Revoked, history, AfterRefresh
  <2>1. ASSUME NEW q \in Requests, Step(q), q # r
        PROVE  pc'[r] = pc[r]
    BY <2>1 DEF Step, ProxyRequest, SignOut, SignIn, Arrive, LoadHit, LoadError,
         RefreshGranted, RefreshReplyLost, RefreshNotDone, RefreshNotImplemented,
         Save, SaveError, ValidateAccept, ValidateReject, Clear, ClearError,
         HandleAndClear, Respond, Continue, Goto
  <2>2. Step(r)
    BY <2>1 DEF Next, Tick, Revoke, vars
  <2>3. ValidateAccept(r)
    BY <2>2 DEF Step, ProxyRequest, SignOut, SignIn, Arrive, LoadHit, LoadError,
         RefreshGranted, RefreshReplyLost, RefreshNotDone, RefreshNotImplemented,
         Save, SaveError, AfterSave, ValidateReject, Clear, ClearError,
         AfterClear, HandleAndClear, Respond, Continue, Goto
  <2>4. /\ Revoked(sess[r].login) /\ sess' = sess /\ ~IsExpired(sess[r])
        /\ validation = "asked" => ~Revoked(sess[r].login)
    BY <2>3 DEF ValidateAccept
  <2>5. /\ sess[r] \in Session /\ sess[r] # None
        /\ validation \in {"asked", "local"}
    BY <2>3 DEF ValidateAccept, Holding, Validations
  <2>6. now <= sess[r].expiresOn /\ sess[r].expiresOn <= revokedAt[sess[r].login] + TokenLife
    <3>1. sess[r].expiresOn \in Nat /\ sess[r].login \in Logins
      BY <2>5 DEF Session
    <3>2. Bounded(sess[r])
      BY <2>5 DEF SessionsBounded
    <3>3. QED
      BY <2>4, <3>1, <3>2 DEF IsExpired, Bounded, LastIssue
  <2>7. revokedAt[sess[r].login] \in Nat
    BY <2>4, <2>5 DEF Revoked, Session
  <2>8. sess[r].expiresOn \in Nat
    BY <2>5 DEF Session
  <2>9. QED
    BY <2>4, <2>5, <2>6, <2>7, <2>8, PeriodAssumption DEF OutlivesRevocation
<1>2. QED
  BY <1>1, RevocationInvariant, TypeInvariant, PTL DEF Spec, RevocationTakesHold

LEMMA TokenStep == TokenInv /\ [Next]_vars => TokenInv'
<1> SUFFICES ASSUME TokenInv, [Next]_vars
             PROVE  TokenInv'
  OBVIOUS
<1>0. TypeOK'
  BY TypeStep DEF TokenInv
<1> USE DEF TokenInv, TypeOK, TokensIssued, SaverHoldsNewest, Issued, Older,
            NewestSaver, Saving, Holding, clockVars, storeVars, providerVars, Revoked, history, AfterRefresh
<1>1. ASSUME NEW r \in Requests, Step(r)
      PROVE  TokensIssued' /\ SaverHoldsNewest'
  <2>1. CASE ProxyRequest(r)
    BY <2>1, Kinds DEF ProxyRequest, Arrive, Goto
  <2>2. CASE SignOut(r)
    BY <2>2, Kinds DEF SignOut, Arrive, Goto
  <2>3. CASE SignIn(r)
    BY <2>3, Kinds DEF SignIn, Arrive, Goto, Session
  <2>4. CASE LoadHit(r)
    BY <2>4, Kinds DEF LoadHit, Goto, ValidTicket, Cookie, Session, Entry
  <2>5. CASE LoadError(r)
    BY <2>5, Kinds DEF LoadError, Goto
  <2>6. CASE RefreshGranted(r)
    <3> DEFINE l == sess[r].login
    <3>1. sess[r] \in Session /\ l \in Logins /\ current[l] \in Nat
          /\ sess[r].rt = current[l] /\ ~Saving(r) /\ provider # "none"
      BY <2>6 DEF RefreshGranted, Session
    <3>2. /\ pc' = [pc EXCEPT ![r] = "save"]
          /\ current' = [current EXCEPT ![l] = NextToken(l)]
          /\ sess' = [sess EXCEPT ![r] = Refreshed(sess[r])]
          /\ UNCHANGED <<store, started, provider>>
      BY <2>6 DEF RefreshGranted, Goto
    <3>3. Refreshed(sess[r]).login = l /\ Refreshed(sess[r]).rt = NextToken(l)
      BY DEF Refreshed
    <3>4. CASE provider = "rotating"
      <4>1. NextToken(l) = current[l] + 1
        BY <3>4 DEF NextToken
      <4>2. \A q \in Requests \ {r} : Saving(q) => sess[q].login # l
        BY <3>1, <3>4, Kinds
      <4>3. TokensIssued'
        BY <3>1, <3>2, <3>3, <3>4, <4>1, Kinds DEF Session, Entry
      <4>4. ASSUME NEW q \in Requests \ {r}, Saving(q)'
            PROVE  NewestSaver(q)'
        <5>1. Saving(q) /\ sess[q] \in Session /\ sess[q].login # l
          BY <3>2, <4>2, <4>4
        <5>2. current'[sess[q].login] = current[sess[q].login]
          BY <3>1, <3>2, <5>1 DEF Session
        <5>3. QED
          BY <3>1, <3>2, <3>3, <5>1, <5>2
      <4>5. NewestSaver(r)'
        BY <3>1, <3>2, <3>3, <3>4, <4>1, Kinds DEF Session, Entry
      <4>6. QED
        BY <4>3, <4>4, <4>5
    <3>5. CASE provider # "rotating"
      BY <3>1, <3>2, <3>3, <3>5, Kinds DEF NextToken, Session, Entry
    <3>6. QED
      BY <3>4, <3>5
  <2>7. CASE RefreshReplyLost(r)
    <3> DEFINE l == sess[r].login
    <3>1. sess[r] \in Session /\ l \in Logins /\ current[l] \in Nat
          /\ sess[r].rt = current[l] /\ ~Saving(r) /\ provider = "rotating"
      BY <2>7 DEF RefreshReplyLost, Session
    <3>2. /\ pc' = [pc EXCEPT ![r] = "validate"]
          /\ current' = [current EXCEPT ![l] = current[l] + 1]
          /\ UNCHANGED <<store, started, sess, provider>>
      BY <2>7 DEF RefreshReplyLost, Goto
    <3>3. \A q \in Requests : Saving(q) => sess[q].login # l
      BY <3>1, Kinds
    <3>4. TokensIssued'
      BY <3>1, <3>2, Kinds DEF Session, Entry
    <3>5. SaverHoldsNewest'
      <4> SUFFICES ASSUME NEW q \in Requests, Saving(q)'
                   PROVE  NewestSaver(q)'
        BY DEF SaverHoldsNewest
      <4>1. Saving(q) /\ sess[q] \in Session /\ sess[q].login # l
        BY <3>2, <3>3
      <4>2. current'[sess[q].login] = current[sess[q].login]
        BY <3>1, <3>2, <4>1 DEF Session
      <4>3. QED
        BY <3>2, <4>1, <4>2
    <3>6. QED
      BY <3>4, <3>5
  <2>8. CASE RefreshNotDone(r)
    BY <2>8, Kinds DEF RefreshNotDone, Goto
  <2>9. CASE RefreshNotImplemented(r)
    BY <2>9, Kinds DEF RefreshNotImplemented, Goto, Stamped, Session
  <2>10. CASE Save(r)
    BY <2>10, Kinds DEF Save, Continue, Goto, AfterSave, SavedEntry, Entry, Session
  <2>11. CASE SaveError(r)
    BY <2>11, Kinds DEF SaveError, Continue, Goto, AfterSave
  <2>12. CASE ValidateAccept(r)
    BY <2>12, Kinds DEF ValidateAccept, Goto
  <2>13. CASE ValidateReject(r)
    BY <2>13, Kinds DEF ValidateReject, Goto
  <2>14. CASE Clear(r)
    BY <2>14, Kinds DEF Clear, Continue, Goto, AfterClear
  <2>15. CASE ClearError(r)
    BY <2>15, Kinds DEF ClearError, Continue, Goto, AfterClear
  <2>16. CASE HandleAndClear(r)
    BY <2>16, Kinds DEF HandleAndClear, Goto
  <2>17. CASE Respond(r)
    BY <2>17, Kinds DEF Respond, Goto
  <2>18. QED
    BY <1>1, <2>1, <2>2, <2>3, <2>4, <2>5, <2>6, <2>7, <2>8, <2>9, <2>10, <2>11, <2>12, <2>13, <2>14, <2>15, <2>16, <2>17 DEF Step
<1>2. CASE Tick
  BY <1>0, <1>2, Kinds DEF Tick
<1>3. CASE Revoke
  BY <1>0, <1>3 DEF Revoke
<1>4. CASE UNCHANGED vars
  BY <1>0, <1>4 DEF vars
<1>5. QED
  BY <1>0, <1>1, <1>2, <1>3, <1>4 DEF Next

LEMMA TokenInvariant == Spec => []TokenInv
<1>1. Init => TokenInv
  <2> SUFFICES ASSUME Init PROVE TokenInv
    OBVIOUS
  <2>1. TypeOK
    BY PeriodAssumption, KeepAssumption DEF Init, TypeOK, Holding, Labels, Revoked
  <2>2. QED
    BY <2>1 DEF Init, TokenInv, TokensIssued, SaverHoldsNewest, Saving
<1>2. QED
  BY <1>1, TokenStep, PTL DEF Spec

\* Racing refreshes without a lock never put an older refresh token of a grant
\* back into the store.
THEOREM TokensInOrder == Spec => StoredTokenNeverRegresses
<1>1. TokenInv /\ [Next]_vars => NoTokenRegress
  <2> SUFFICES ASSUME TokenInv, [Next]_vars
               PROVE  NoTokenRegress
    OBVIOUS
  <2> USE DEF TokenInv, TypeOK, TokensIssued, SaverHoldsNewest, Issued,
              NewestSaver, Saving, Holding, NoTokenRegress
  <2>1. \A t \in Tickets : store[t] # None =>
           store[t].session \in Session /\ store[t].session.rt \in Nat
    BY Kinds DEF Entry, Session
  <2>2. ASSUME NEW r \in Requests, Save(r)
        PROVE  NoTokenRegress
    <3>1. PICK t \in Tickets : store' = [store EXCEPT ![t] = SavedEntry(sess[r])]
      BY <2>2 DEF Save
    <3>2. sess[r] \in Session /\ sess[r].rt = current[sess[r].login]
      BY <2>2 DEF Save
    <3>3. SavedEntry(sess[r]).session = sess[r]
      BY DEF SavedEntry
    <3>4. QED
      BY <2>1, <3>1, <3>2, <3>3 DEF Session
  <2>3. ASSUME NEW r \in Requests, Clear(r)
        PROVE  NoTokenRegress
    BY <2>1, <2>3 DEF Clear, ValidTicket, Cookie
  <2>4. CASE Tick
    BY <2>1, <2>4 DEF Tick
  <2>5. CASE UNCHANGED store
    BY <2>1, <2>5
  <2>6. ASSUME NEW r \in Requests, Step(r), ~Save(r), ~Clear(r)
        PROVE  UNCHANGED store
    BY <2>6 DEF Step, ProxyRequest, SignOut, SignIn, Arrive, LoadHit, LoadError,
         RefreshGranted, RefreshReplyLost, RefreshNotDone, RefreshNotImplemented,
         SaveError, ValidateAccept, ValidateReject, ClearError, HandleAndClear,
         Respond, storeVars
  <2>7. QED
    BY <2>2, <2>3, <2>4, <2>5, <2>6 DEF Next, Revoke, storeVars, vars
<1>2. QED
  BY <1>1, TokenInvariant, PTL DEF Spec, StoredTokenNeverRegresses


LEMMA NewestStep == TokenInv /\ NewestTokenKept /\ [Next]_vars => NewestTokenKept'
<1> SUFFICES ASSUME TokenInv, NewestTokenKept, [Next]_vars
             PROVE  NewestTokenKept'
  OBVIOUS
<1> USE DEF TokenInv, TypeOK, SaverHoldsNewest, NewestSaver, Saving, Holding,
            NewestTokenKept, Kept, Holds, StoredLogin, clockVars,
            storeVars, providerVars, Revoked, history, AfterRefresh
<1>1. ASSUME NEW r \in Requests, Step(r)
      PROVE  NewestTokenKept'
  <2>1. CASE ProxyRequest(r)
    BY <2>1, Kinds DEF ProxyRequest, Arrive, Goto
  <2>2. CASE SignOut(r)
    BY <2>2, Kinds DEF SignOut, Arrive, Goto
  <2>3. CASE SignIn(r)
    <3>1. PICK l \in Logins \ started :
            /\ started' = started \cup {l}
            /\ sess'[r] # None /\ sess'[r].login = l /\ sess'[r].rt = current[l]
      <4>1. PICK l \in Logins \ started :
              /\ started' = started \cup {l}
              /\ sess' = [sess EXCEPT ![r] =
                    [login |-> l, rt |-> current[l], createdAt |-> now,
                     expiresOn |-> now + TokenLife]]
        BY <2>3 DEF SignIn
      <4>2. [login |-> l, rt |-> current[l], createdAt |-> now,
             expiresOn |-> now + TokenLife] \in Session
        BY PeriodAssumption DEF Session
      <4>3. QED
        BY <4>1, <4>2, Kinds
    <3>2. /\ pc' = [pc EXCEPT ![r] = "signin"] /\ pc[r] = "idle"
          /\ \A q \in Requests \ {r} : sess'[q] = sess[q]
          /\ UNCHANGED <<store, current, dropped>>
      BY <2>3 DEF SignIn, Arrive, Goto
    <3>3. Kept(l)'
      BY <3>1, <3>2
    <3>4. ASSUME NEW m \in started \ dropped PROVE Kept(m)'
      BY <3>2, <3>4
    <3>5. QED
      BY <3>1, <3>2, <3>3, <3>4
  <2>4. CASE LoadHit(r)
    BY <2>4, Kinds DEF LoadHit, Goto, Session, Entry
  <2>5. CASE LoadError(r)
    BY <2>5, Kinds DEF LoadError, Goto
  <2>6. CASE RefreshGranted(r)
    <3>0. sess[r] \in Session /\ sess[r].login \in Logins /\ pc[r] = "refresh"
      BY <2>6 DEF RefreshGranted, Session
    <3>1. PICK l \in Logins : l = sess[r].login
      BY <3>0
    <3>2. /\ pc' = [pc EXCEPT ![r] = "save"]
          /\ current' = [current EXCEPT ![l] = NextToken(l)]
          /\ sess' = [sess EXCEPT ![r] = Refreshed(sess[r])]
          /\ UNCHANGED <<store, started, dropped>>
      BY <2>6, <3>1 DEF RefreshGranted, Goto
    <3>3. Refreshed(sess[r]) # None /\ Refreshed(sess[r]).login = l
          /\ Refreshed(sess[r]).rt = NextToken(l)
      <4>1. NextToken(l) \in Nat
        BY <3>1 DEF NextToken
      <4>2. QED
        BY <3>0, <3>1, <4>1, RefreshedSession, Kinds
    <3>4. Kept(l)'
      BY <3>2, <3>3
    <3>5. ASSUME NEW m \in started \ dropped, m # l PROVE Kept(m)'
      <4>1. current'[m] = current[m]
        BY <3>2, <3>5
      <4>2. QED
        BY <3>0, <3>1, <3>2, <3>5, <4>1
    <3>6. QED
      <4> HIDE DEF Kept
      <4>1. QED
        BY <3>2, <3>4, <3>5
  <2>7. CASE RefreshReplyLost(r)
    BY <2>7, Kinds DEF RefreshReplyLost, Goto, Session
  <2>8. CASE RefreshNotDone(r)
    BY <2>8, Kinds DEF RefreshNotDone, Goto
  <2>9. CASE RefreshNotImplemented(r)
    BY <2>9, Kinds DEF RefreshNotImplemented, Goto, Stamped, Session
  <2>10. CASE Save(r)
    <3>1. PICK t \in Tickets :
            /\ store' = [store EXCEPT ![t] = SavedEntry(sess[r])]
            /\ dropped' = dropped \cup (StoredLogin(t) \ {sess[r].login})
      BY <2>10 DEF Save
    <3>2. sess[r] \in Session /\ sess[r].rt = current[sess[r].login]
      BY <2>10 DEF Save
    <3>3. /\ UNCHANGED <<current, started>>
          /\ \A q \in Requests \ {r} : pc'[q] = pc[q] /\ sess'[q] = sess[q]
      BY <2>10 DEF Save, Continue, Goto
    <3>4. SavedEntry(sess[r]) # None /\ SavedEntry(sess[r]).session = sess[r]
      <4>1. SavedEntry(sess[r]) \in Entry
        BY <3>2, PeriodAssumption DEF SavedEntry, Entry
      <4>2. QED
        BY <4>1, Kinds DEF SavedEntry
    <3>5. ASSUME NEW m \in Logins, m = sess[r].login
          PROVE  Kept(m)'
      <4>1. store'[t] = SavedEntry(sess[r])
        BY <3>1
      <4>2. sess[r] # None /\ sess[r].login = m /\ sess[r].rt = current'[m]
        BY <3>2, <3>3, <3>5, Kinds
      <4>3. QED
        BY <3>4, <4>1, <4>2
    <3>6. ASSUME NEW m \in started \ dropped', m # sess[r].login
          PROVE  Kept(m)'
      <4>1. Kept(m)
        BY <3>1, <3>6
      <4>2. CASE \E u \in Tickets : store[u] # None /\ Holds(store[u].session, m)
        BY <3>1, <3>3, <3>6, <4>2
      <4>3. CASE \E q \in Requests : Saving(q) /\ Holds(sess[q], m)
        BY <3>3, <3>6, <4>3
      <4>4. QED
        BY <4>1, <4>2, <4>3
    <3>7. QED
      <4> HIDE DEF Kept
      <4>1. QED
        BY <3>3, <3>5, <3>6
  <2>11. CASE SaveError(r)
    BY <2>11, Kinds DEF SaveError, Continue, Goto, AfterSave
  <2>12. CASE ValidateAccept(r)
    BY <2>12, Kinds DEF ValidateAccept, Goto
  <2>13. CASE ValidateReject(r)
    BY <2>13, Kinds DEF ValidateReject, Goto
  <2>14. CASE Clear(r)
    <3>1. /\ UNCHANGED <<current, started>> /\ dropped \subseteq dropped'
          /\ ~Saving(r)
          /\ \A q \in Requests \ {r} : pc'[q] = pc[q] /\ sess'[q] = sess[q]
      BY <2>14 DEF Clear, Continue, Goto
    <3>2. ASSUME NEW m \in started \ dropped',
                 NEW u \in Tickets, store[u] # None, Holds(store[u].session, m)
          PROVE  store'[u] = store[u]
      BY <2>14, <3>2 DEF Clear, ValidTicket, Cookie
    <3>3. ASSUME NEW m \in started \ dropped' PROVE Kept(m)'
      <4>1. Kept(m)
        BY <3>1, <3>3
      <4>2. CASE \E u \in Tickets : store[u] # None /\ Holds(store[u].session, m)
        BY <3>1, <3>2, <3>3, <4>2
      <4>3. CASE \E q \in Requests : Saving(q) /\ Holds(sess[q], m)
        BY <3>1, <4>3
      <4>4. QED
        BY <4>1, <4>2, <4>3
    <3>4. QED
      BY <3>1, <3>3
  <2>15. CASE ClearError(r)
    BY <2>15, Kinds DEF ClearError, Continue, Goto, AfterClear
  <2>16. CASE HandleAndClear(r)
    BY <2>16, Kinds DEF HandleAndClear, Goto
  <2>17. CASE Respond(r)
    BY <2>17, Kinds DEF Respond, Goto
  <2>18. QED
    BY <1>1, <2>1, <2>2, <2>3, <2>4, <2>5, <2>6, <2>7, <2>8, <2>9, <2>10, <2>11, <2>12, <2>13, <2>14, <2>15, <2>16, <2>17 DEF Step
<1>2. CASE Tick
  BY <1>2, Kinds DEF Tick
<1>3. CASE Revoke
  BY <1>3 DEF Revoke
<1>4. CASE UNCHANGED vars
  BY <1>4 DEF vars
<1>5. QED
  BY <1>1, <1>2, <1>3, <1>4 DEF Next

\* The control flow never drops a grant's newest refresh token.
THEOREM NewestKept == Spec => []NewestTokenKept
<1>1. Init => NewestTokenKept
  BY DEF Init, NewestTokenKept
<1>2. QED
  BY <1>1, NewestStep, TokenInvariant, PTL DEF Spec

LEMMA CookieStep == TypeOK /\ CookieInv /\ [Next]_vars => CookieInv'
<1> SUFFICES ASSUME TypeOK, CookieInv, [Next]_vars
             PROVE  CookieInv'
  OBVIOUS
<1> USE PeriodAssumption DEF TypeOK, CookieInv, NotFuture, TimelyEntries,
        CookiesBacked, Backed, Holding, clockVars, storeVars,
        providerVars, Revoked, history, AfterRefresh
<1>1. ASSUME NEW r \in Requests, Step(r)
      PROVE  CookieInv'
  <2>1. CASE ProxyRequest(r)
    BY <2>1, Kinds DEF ProxyRequest, Arrive, Goto
  <2>2. CASE SignOut(r)
    BY <2>2, Kinds DEF SignOut, Arrive, Goto
  <2>3. CASE SignIn(r)
    <3>1. /\ sess'[r].createdAt = now
          /\ \A q \in Requests \ {r} : sess'[q] = sess[q]
      BY <2>3 DEF SignIn
    <3>2. UNCHANGED <<now, jar, store, setCookie, cleared>>
      BY <2>3 DEF SignIn, Arrive
    <3>3. NotFuture'
      BY <3>1, <3>2
    <3>4. TimelyEntries' /\ CookiesBacked'
      BY <3>2
    <3>5. QED
      BY <3>3, <3>4
  <2>4. CASE LoadHit(r)
    BY <2>4, Kinds DEF LoadHit, Goto, ValidTicket, Cookie
  <2>5. CASE LoadError(r)
    BY <2>5, Kinds DEF LoadError, Goto
  <2>6. CASE RefreshGranted(r)
    <3>1. /\ sess'[r].createdAt = now
          /\ \A q \in Requests \ {r} : sess'[q] = sess[q]
      BY <2>6 DEF RefreshGranted, Refreshed
    <3>2. UNCHANGED <<now, jar, store, setCookie, cleared>>
      BY <2>6 DEF RefreshGranted
    <3>3. NotFuture'
      BY <3>1, <3>2
    <3>4. TimelyEntries' /\ CookiesBacked'
      BY <3>2
    <3>5. QED
      BY <3>3, <3>4
  <2>7. CASE RefreshReplyLost(r)
    BY <2>7, Kinds DEF RefreshReplyLost, Goto
  <2>8. CASE RefreshNotDone(r)
    BY <2>8, Kinds DEF RefreshNotDone, Goto
  <2>9. CASE RefreshNotImplemented(r)
    <3>1. /\ sess'[r].createdAt = now
          /\ \A q \in Requests \ {r} : sess'[q] = sess[q]
      BY <2>9 DEF RefreshNotImplemented, Stamped, Session
    <3>2. UNCHANGED <<now, jar, store, setCookie, cleared>>
      BY <2>9 DEF RefreshNotImplemented
    <3>3. NotFuture'
      BY <3>1, <3>2
    <3>4. TimelyEntries' /\ CookiesBacked'
      BY <3>2
    <3>5. QED
      BY <3>3, <3>4
  <2>10. CASE Save(r)
    <3>1. PICK t \in Tickets :
            /\ store' = [store EXCEPT ![t] = SavedEntry(sess[r])]
            /\ setCookie' = [setCookie EXCEPT ![r] = SavedCookie(sess[r], t)]
      BY <2>10 DEF Save
    <3>2. /\ UNCHANGED <<now, jar, cleared>>
          /\ \A q \in Requests : sess'[q] = sess[q] \/ sess'[q] = None
      BY <2>10 DEF Save, Continue
    <3>3. /\ sess[r] \in Session /\ sess[r].createdAt \in Nat
          /\ sess[r].createdAt <= now
      BY <2>10 DEF Save, Session
    <3>4. /\ store'[t].session = sess[r]
          /\ store'[t].deadline = now + CookieExpire
          /\ \A u \in Tickets \ {t} : store'[u] = store[u]
      BY <3>1 DEF SavedEntry
    <3>5. store'[t] # None
      <4>1. SavedEntry(sess[r]) \in Entry
        BY <3>3 DEF SavedEntry, Entry
      <4>2. QED
        BY <3>1, <4>1, Kinds
    <3>6. NotFuture' /\ TimelyEntries'
      BY <3>2, <3>3, <3>4
    <3>7. ASSUME NEW k \in Cookie, Backed(k) PROVE Backed(k)'
      <4>1. \A u \in Tickets : store[u] # None =>
               store'[u] # None /\ store[u].deadline \in Nat
               /\ store[u].deadline <= store'[u].deadline
        BY <3>4, <3>5, Kinds DEF Entry
      <4>2. k.ticket \in Tickets /\ k.stamp \in Nat
        BY DEF Cookie
      <4>3. CASE store[k.ticket] # None /\ k.stamp + CookieExpire <= store[k.ticket].deadline
        <5>1. store'[k.ticket] # None /\ store[k.ticket].deadline <= store'[k.ticket].deadline
              /\ store[k.ticket].deadline \in Nat
          BY <4>1, <4>2, <4>3
        <5>2. store'[k.ticket].deadline \in Nat
          BY <3>4, <4>2, <5>1
        <5>3. QED
          BY <4>2, <4>3, <5>1, <5>2
      <4>4. QED
        BY <3>2, <3>7, <4>3
    <3>8. ASSUME NEW k \in Cookie, k = SavedCookie(sess[r], t)
          PROVE  Backed(k)'
      <4>1. k.stamp <= now /\ k.stamp \in Nat /\ k.ticket = t
        BY <3>3, <3>8, TruncateBound DEF SavedCookie
      <4>2. QED
        BY <3>2, <3>4, <3>5, <4>1
    <3>9. CookiesBacked'
      <4>1. (jar # None => Backed(jar))'
        <5>1. jar # None => jar \in Cookie /\ Backed(jar)
          BY Kinds
        <5>2. PICK k : k = jar
          OBVIOUS
        <5>3. k # None => Backed(k)'
          BY <3>7, <5>1, <5>2
        <5>4. jar' = k
          BY <3>2, <5>2
        <5>5. QED
          BY <5>3, <5>4
      <4>2. ASSUME NEW q \in Requests, setCookie'[q] \notin {Keep, Delete}
            PROVE  Backed(setCookie[q])'
        <5>1. SavedCookie(sess[r], t) \in Cookie
          BY <3>3, TruncateBound DEF SavedCookie, Cookie
        <5>2. setCookie'[q] \in Cookie
          BY <3>1, <4>2, <5>1
        <5>3. PICK k \in Cookie : k = setCookie'[q]
          BY <5>2
        <5>4. Backed(k)'
          <6>1. CASE q = r
            BY <3>1, <3>8, <5>3, <6>1
          <6>2. CASE q # r
            BY <3>1, <3>7, <4>2, <5>3, <6>2
          <6>3. QED
            BY <6>1, <6>2
        <5>5. QED
          BY <5>3, <5>4
      <4>3. QED
        <5> HIDE DEF Backed
        <5> QED
          BY <4>1, <4>2 DEF CookiesBacked
    <3>10. QED
      BY <3>6, <3>9
  <2>11. CASE SaveError(r)
    BY <2>11, Kinds DEF SaveError, Continue, Goto, AfterSave
  <2>12. CASE ValidateAccept(r)
    BY <2>12, Kinds DEF ValidateAccept, Goto
  <2>13. CASE ValidateReject(r)
    BY <2>13, Kinds DEF ValidateReject, Goto
  <2>14. CASE Clear(r)
    <3>1. /\ UNCHANGED <<now, jar>>
          /\ \A q \in Requests : sess'[q] = sess[q] \/ sess'[q] = None
          /\ \A q \in Requests : setCookie'[q] = setCookie[q] \/ setCookie'[q] = Delete
          /\ \A u \in Tickets : store'[u] = store[u] \/ store'[u] = None
          /\ cleared \subseteq cleared'
      BY <2>14 DEF Clear, Continue
    <3>2. NotFuture' /\ TimelyEntries'
      BY <3>1
    <3>3. ASSUME NEW k \in Cookie, Backed(k) PROVE Backed(k)'
      <4>1. ASSUME store[k.ticket] # None, store'[k.ticket] = None
            PROVE  <<k.ticket, store[k.ticket].session.login>> \in cleared'
        BY <2>14, <4>1 DEF Clear, StoredLogin, ValidTicket, Cookie
      <4>2. store[k.ticket] # None => store[k.ticket].session.login \in Logins
        BY Kinds DEF Cookie, Entry, Session
      <4>3. QED
        BY <3>1, <3>3, <4>1, <4>2 DEF Cookie
    <3>4. CookiesBacked'
      BY <3>1, <3>3
    <3>5. QED
      BY <3>2, <3>4
  <2>15. CASE ClearError(r)
    BY <2>15, Kinds DEF ClearError, Continue, Goto, AfterClear
  <2>16. CASE HandleAndClear(r)
    BY <2>16, Kinds DEF HandleAndClear, Goto
  <2>17. CASE Respond(r)
    BY <2>17, Kinds DEF Respond, Goto
  <2>18. QED
    BY <1>1, <2>1, <2>2, <2>3, <2>4, <2>5, <2>6, <2>7, <2>8, <2>9, <2>10, <2>11, <2>12, <2>13, <2>14, <2>15, <2>16, <2>17 DEF Step
<1>2. CASE Tick
  <2>1. /\ now' = now + 1
        /\ UNCHANGED <<sess, setCookie, cleared>>
        /\ jar' = jar \/ jar' = None
        /\ \A u \in Tickets : \/ store'[u] = store[u]
                              \/ (store'[u] = None /\ store[u].deadline <= now + 1)
    <3>1. \A u \in Tickets :
             store'[u] = IF Outlived(u, now + 1) THEN None ELSE store[u]
      BY <1>2 DEF Tick
    <3>2. \A u \in Tickets : \/ store'[u] = store[u]
                              \/ (store'[u] = None /\ store[u].deadline <= now + 1)
      BY <3>1 DEF Outlived
    <3>3. /\ now' = now + 1
          /\ UNCHANGED <<sess, setCookie, cleared>>
      BY <1>2 DEF Tick
    <3>4. jar' = jar \/ jar' = None
      BY <1>2 DEF Tick
    <3>5. QED
      BY <3>2, <3>3, <3>4
  <2>2. NotFuture' /\ TimelyEntries'
    BY <2>1, Kinds DEF Entry, Session
  <2>3. ASSUME NEW k \in Cookie, Backed(k) PROVE Backed(k)'
    <3>1. k.ticket \in Tickets /\ k.stamp \in Nat
      BY DEF Cookie
    <3>2. store[k.ticket] # None => store[k.ticket].deadline \in Nat
      BY <3>1, Kinds DEF Entry
    <3>3. CASE k.stamp + CookieExpire <= now
      BY <2>1, <3>1, <3>3
    <3>4. CASE store[k.ticket] # None /\ k.stamp + CookieExpire <= store[k.ticket].deadline
      <4>1. CASE store'[k.ticket] = store[k.ticket]
        BY <3>4, <4>1
      <4>2. CASE store[k.ticket].deadline <= now + 1
        BY <2>1, <3>1, <3>2, <3>4, <4>2
      <4>3. QED
        BY <2>1, <3>1, <4>1, <4>2
    <3>5. QED
      BY <2>1, <2>3, <3>3, <3>4
  <2>4. CookiesBacked'
    BY <2>1, <2>3
  <2>5. QED
    BY <2>2, <2>4
<1>3. CASE Revoke
  BY <1>3 DEF Revoke
<1>4. CASE UNCHANGED vars
  BY <1>4 DEF vars
<1>5. QED
  BY <1>1, <1>2, <1>3, <1>4 DEF Next

\* A ticket the browser can still use has its entry, unless a Clear deleted it.
THEOREM ValidTicketBacked == Spec => []ValidTicketHasEntry
<1>1. Init => CookieInv
  BY DEF Init, CookieInv, NotFuture, TimelyEntries, CookiesBacked
<1>2. TypeOK /\ CookieInv => ValidTicketHasEntry
  <2> SUFFICES ASSUME TypeOK, CookieInv, ValidTicket(jar)
               PROVE  \/ store[jar.ticket] # None
                      \/ \E l \in Logins : <<jar.ticket, l>> \in cleared
    BY DEF ValidTicketHasEntry
  <2>1. jar \in Cookie /\ now < jar.stamp + CookieExpire /\ Backed(jar)
    BY DEF TypeOK, CookieInv, CookiesBacked, ValidTicket
  <2>a. jar.stamp \in Nat /\ now \in Nat
    BY <2>1 DEF TypeOK, Cookie
  <2>2. QED
    BY <2>1, <2>a, PeriodAssumption DEF Backed
<1>3. QED
  BY <1>1, <1>2, CookieStep, TypeInvariant, PTL DEF Spec

--------------------------------------------------------------------------------
(***************************************************************************)
(* How a session that was cleared comes back.  ClearedSessionStaysCleared  *)
(* does not hold; these theorems say exactly when it fails.                *)
(***************************************************************************)
\* The grant of a sign-in under way is known to nobody else yet.
FreshSignIn(r) ==
    /\ \A t \in Tickets : store[t] # None => store[t].session.login # sess[r].login
    /\ \A t \in Tickets : <<t, sess[r].login>> \notin cleared
    /\ \A q \in Requests \ {r} : sess[q] # None => sess[q].login # sess[r].login
SignInsFresh ==
    /\ cleared \subseteq Tickets \X started
    /\ \A r \in Requests : pc[r] = "signin" => FreshSignIn(r)

\* What a step may do to entries, sessions and sign-ins that are not its own.
Spread(r) ==
    /\ \A t \in Tickets : store'[t] # None =>
          \/ store[t] # None /\ store'[t] = store[t]
          \/ pc[r] \in {"save", "signin"} /\ pc'[r] # "signin" /\ store'[t].session = sess[r]
    /\ \A q \in Requests \ {r} : pc'[q] = pc[q] /\ sess'[q] = sess[q]
    /\ sess'[r] # None =>
          \/ sess[r] # None /\ sess'[r].login = sess[r].login
          \/ pc[r] = "load" /\ \E t \in Tickets : store[t] # None /\ sess'[r] = store[t].session
          \/ pc'[r] = "signin" /\ sess'[r].login \in started' \ started
                               /\ store' = store /\ cleared' = cleared
    /\ pc'[r] = "signin" => sess'[r].login \in started' \ started
    /\ \A x \in cleared' \ cleared : store[x[1]] # None /\ x[2] = store[x[1]].session.login
                                     /\ x[1] \in Tickets
    /\ started \subseteq started'

LEMMA StepSpreads ==
    ASSUME TypeOK, NEW r \in Requests, Step(r)
    PROVE  Spread(r)
<1> USE Kinds DEF TypeOK, Holding, clockVars, storeVars, providerVars, Revoked, history, AfterRefresh,
                  Spread, Goto
<1>1. CASE ProxyRequest(r)
  BY <1>1 DEF ProxyRequest, Arrive
<1>2. CASE SignOut(r)
  BY <1>2 DEF SignOut, Arrive
<1>3. CASE SignIn(r)
  BY <1>3 DEF SignIn, Arrive, Session
<1>4. CASE LoadHit(r)
  BY <1>4 DEF LoadHit, ValidTicket, Cookie, Entry
<1>5. CASE LoadError(r)
  BY <1>5 DEF LoadError
<1>6. CASE RefreshGranted(r)
  BY <1>6 DEF RefreshGranted, Refreshed
<1>7. CASE RefreshReplyLost(r)
  BY <1>7 DEF RefreshReplyLost
<1>8. CASE RefreshNotDone(r)
  BY <1>8 DEF RefreshNotDone
<1>9. CASE RefreshNotImplemented(r)
  BY <1>9 DEF RefreshNotImplemented, Stamped, Session
<1>10. CASE Save(r)
  BY <1>10 DEF Save, Continue, AfterSave, SavedEntry
<1>11. CASE SaveError(r)
  BY <1>11 DEF SaveError, Continue, AfterSave
<1>12. CASE ValidateAccept(r)
  BY <1>12 DEF ValidateAccept
<1>13. CASE ValidateReject(r)
  BY <1>13 DEF ValidateReject
<1>14. CASE Clear(r)
  BY <1>14 DEF Clear, Continue, AfterClear, ValidTicket, Cookie, StoredLogin
<1>15. CASE ClearError(r)
  BY <1>15 DEF ClearError, Continue, AfterClear
<1>16. CASE HandleAndClear(r)
  BY <1>16 DEF HandleAndClear
<1>17. CASE Respond(r)
  BY <1>17 DEF Respond
<1>18. QED
  BY <1>1, <1>2, <1>3, <1>4, <1>5, <1>6, <1>7, <1>8, <1>9, <1>10, <1>11, <1>12, <1>13, <1>14, <1>15, <1>16, <1>17 DEF Step

\* Only time and revocations are no request's step: they store nothing.
LEMMA EnvironmentSpreads ==
    ASSUME TypeOK, Tick \/ Revoke \/ UNCHANGED vars
    PROVE  /\ \A t \in Tickets : store'[t] = None \/ store'[t] = store[t]
           /\ UNCHANGED <<pc, sess, started, cleared>>
BY DEF Tick, Revoke, vars, TypeOK, providerVars, storeVars, history

LEMMA FreshStep == TokenInv /\ SignInsFresh /\ [Next]_vars => SignInsFresh'
<1> SUFFICES ASSUME TokenInv, SignInsFresh, [Next]_vars
             PROVE  SignInsFresh'
  OBVIOUS
<1> USE DEF SignInsFresh, FreshSignIn
<1>0. /\ TypeOK /\ \A t \in Tickets : store[t] # None => store[t].session.login \in started
      /\ \A q \in Requests : sess[q] # None => sess[q].login \in started
  BY DEF TokenInv, TokensIssued, Issued
<1>1. ASSUME NEW r \in Requests, Step(r)
      PROVE  SignInsFresh'
  <2>1. Spread(r)
    BY <1>0, <1>1, StepSpreads
  <2>2. cleared' \subseteq Tickets \X started'
    <3> SUFFICES ASSUME NEW x \in cleared' \ cleared
                 PROVE  x \in Tickets \X started'
      BY <2>1 DEF Spread
    <3>1. x[1] \in Tickets /\ x[2] \in started
      BY <1>0, <2>1 DEF Spread
    <3>2. x \in Tickets \X Logins
      BY <1>0, TypeStep DEF TypeOK
    <3>3. QED
      BY <2>1, <3>1, <3>2 DEF Spread
  <2>3. ASSUME NEW q \in Requests, pc'[q] = "signin"
        PROVE  FreshSignIn(q)'
    <3>1. CASE q = r
      BY <1>0, <2>1, <2>3, <3>1 DEF Spread
    <3>2. CASE q # r
      BY <1>0, <2>1, <2>3, <3>2, Kinds DEF Spread, TypeOK, Holding
    <3>3. QED
      BY <3>1, <3>2
  <2>4. QED
    BY <2>2, <2>3
<1>2. CASE Tick \/ Revoke \/ UNCHANGED vars
  BY <1>0, <1>2, EnvironmentSpreads
<1>3. QED
  BY <1>1, <1>2 DEF Next

LEMMA FreshInvariant == Spec => []SignInsFresh
<1>1. Init => SignInsFresh
  BY DEF Init, SignInsFresh
<1>2. QED
  BY <1>1, FreshStep, TokenInvariant, PTL DEF Spec

\* A session comes back under a ticket where it was cleared only by the Save of a request
\* that has refreshed it, and with the newest refresh token: no sign-in does it.
ByRefresh ==
    \A t \in Tickets, l \in Logins :
        <<t, l>> \in cleared /\ l \notin StoredLogin(t) /\ l \in StoredLogin(t)' =>
            \E r \in Requests :
                /\ pc[r] = "save" /\ store'[t].session = sess[r]
                /\ sess[r].login = l /\ NewestSaver(r)
RestoredByRefresh == [][ByRefresh]_vars

THEOREM OnlyRefreshRestores == Spec => RestoredByRefresh
<1>1. ASSUME TokenInv, SignInsFresh, [Next]_vars, NEW t \in Tickets, NEW l \in Logins,
             <<t, l>> \in cleared, l \notin StoredLogin(t), l \in StoredLogin(t)'
      PROVE  \E r \in Requests :
                /\ pc[r] = "save" /\ store'[t].session = sess[r]
                /\ sess[r].login = l /\ NewestSaver(r)
  <2>1. store'[t] # None /\ store'[t].session.login = l /\ store'[t] # store[t]
    BY <1>1 DEF StoredLogin
  <2>2. PICK r \in Requests : Step(r)
    BY <1>1, <2>1, EnvironmentSpreads DEF Next, TokenInv
  <2>3. pc[r] \in {"save", "signin"} /\ store'[t].session = sess[r]
    BY <1>1, <2>1, <2>2, StepSpreads DEF Spread, TokenInv
  <2>4. pc[r] # "signin"
    BY <1>1, <2>1, <2>3 DEF SignInsFresh, FreshSignIn
  <2>5. NewestSaver(r)
    BY <1>1, <2>3 DEF TokenInv, SaverHoldsNewest, Saving
  <2>6. QED
    BY <2>1, <2>3, <2>4, <2>5
<1>2. TokenInv /\ SignInsFresh /\ [Next]_vars => ByRefresh
  BY <1>1 DEF ByRefresh
<1>3. QED
  BY <1>2, TokenInvariant, FreshInvariant, PTL DEF Spec, RestoredByRefresh

\* Once neither the store nor any request has a session of a grant, it is gone for good: a
\* cleared session can only come back while a request that loaded it is still under way.
Gone(l) ==
    /\ l \in started
    /\ \A t \in Tickets : l \notin StoredLogin(t)
    /\ \A r \in Requests : sess[r] # None => sess[r].login # l
StillGone == \A l \in Logins : Gone(l) => Gone(l)'
GoneStaysGone == [][StillGone]_vars

THEOREM GoneForGood == Spec => GoneStaysGone
<1>1. ASSUME TypeOK, [Next]_vars, NEW l \in Logins, Gone(l)
      PROVE  Gone(l)'
  <2>1. ASSUME NEW r \in Requests, Step(r) PROVE Gone(l)'
    <3>1. Spread(r)
      BY <1>1, <2>1, StepSpreads
    <3>2. \A t \in Tickets : l \notin StoredLogin(t)'
      BY <1>1, <3>1, Kinds DEF Gone, StoredLogin, Spread, TypeOK, Holding
    <3>3. \A q \in Requests : sess'[q] # None => sess'[q].login # l
      BY <1>1, <3>1 DEF Gone, StoredLogin, Spread
    <3>4. l \in started'
      BY <1>1, <3>1 DEF Gone, Spread
    <3>5. QED
      BY <3>2, <3>3, <3>4 DEF Gone
  <2>2. CASE Tick \/ Revoke \/ UNCHANGED vars
    BY <1>1, <2>2, EnvironmentSpreads DEF Gone, StoredLogin
  <2>3. QED
    BY <1>1, <2>1, <2>2 DEF Next
<1>2. TypeOK /\ [Next]_vars => StillGone
  BY <1>1 DEF StillGone
<1>3. QED
  BY <1>2, TypeInvariant, PTL DEF Spec, GoneStaysGone

--------------------------------------------------------------------------------
\* Without a refresh period no request comes to refresh or to save a session again.
NeverRefreshing == \A r \in Requests : pc[r] \notin {"refresh", "save"}

LEMMA NeverRefreshingStep ==
    ASSUME RefreshPeriod = 0, TypeOK, NeverRefreshing, [Next]_vars
    PROVE  NeverRefreshing'
<1>1. ASSUME NEW r \in Requests, Step(r)
      PROVE  NeverRefreshing'
  <2>1. pc' \in {[pc EXCEPT ![r] = l] : l \in Labels \ {"refresh", "save"}}
    <3> USE <1>1 DEF NeverRefreshing, Labels, Goto
    <3>1. CASE ProxyRequest(r) \/ SignOut(r) \/ SignIn(r)
      BY <3>1 DEF ProxyRequest, SignOut, SignIn, Arrive
    <3>2. CASE LoadHit(r)
      <4>1. PICK s : s = store[cookie[r].ticket].session
        OBVIOUS
      <4>2. ~RefreshDue(s)
        BY DEF RefreshDue
      <4>3. pc' = [pc EXCEPT ![r] = "handler"]
        BY <3>2, <4>1, <4>2 DEF LoadHit
      <4>4. QED
        BY <4>3
    <3>3. CASE \/ RefreshGranted(r) \/ RefreshReplyLost(r)
               \/ RefreshNotDone(r) \/ RefreshNotImplemented(r)
      BY <3>3 DEF RefreshGranted, RefreshReplyLost, RefreshNotDone, RefreshNotImplemented
    <3>4. CASE Save(r) \/ SaveError(r)
      BY <3>4 DEF Save, SaveError, Continue, AfterSave
    <3>5. CASE Clear(r) \/ ClearError(r)
      BY <3>5 DEF Clear, ClearError, Continue, AfterClear
    <3>6. CASE \/ LoadError(r) \/ ValidateAccept(r) \/ ValidateReject(r)
               \/ HandleAndClear(r) \/ Respond(r)
      BY <3>6 DEF LoadError, ValidateAccept, ValidateReject, HandleAndClear, Respond
    <3>7. QED
      BY <3>1, <3>2, <3>3, <3>4, <3>5, <3>6 DEF Step
  <2>2. QED
    BY <1>1, <2>1 DEF NeverRefreshing, TypeOK
<1>2. CASE Tick \/ Revoke \/ UNCHANGED vars
  BY <1>2, EnvironmentSpreads DEF NeverRefreshing
<1>3. QED
  BY <1>1, <1>2 DEF Next

\* Without --cookie-refresh the claim of the store's tests holds: a session that was cleared
\* is not in the store again.
THEOREM ClearedStaysWithoutRefresh ==
    RefreshPeriod = 0 => (Spec => []ClearedSessionStaysCleared)
<1> SUFFICES ASSUME RefreshPeriod = 0
             PROVE  Spec => []ClearedSessionStaysCleared
  OBVIOUS
<1>1. Init => NeverRefreshing /\ ClearedSessionStaysCleared
  BY DEF Init, NeverRefreshing, ClearedSessionStaysCleared
<1>2. TypeOK /\ NeverRefreshing /\ [Next]_vars => NeverRefreshing'
  BY NeverRefreshingStep
<1>3. ASSUME TokenInv, SignInsFresh, NeverRefreshing, ClearedSessionStaysCleared, [Next]_vars
      PROVE  ClearedSessionStaysCleared'
  <2> SUFFICES ASSUME NEW t \in Tickets, store'[t] # None,
                      <<t, store'[t].session.login>> \in cleared'
               PROVE  FALSE
    BY DEF ClearedSessionStaysCleared, StoredLogin
  <2>1. ASSUME NEW r \in Requests, Step(r) PROVE FALSE
    <3>1. Spread(r)
      BY <1>3, <2>1, StepSpreads DEF TokenInv
    <3>2. CASE store'[t] = store[t]
      <4>1. <<t, store[t].session.login>> \in cleared' \ cleared
        BY <1>3, <3>2 DEF ClearedSessionStaysCleared, StoredLogin
      <4>2. Clear(r)
        BY <2>1, <4>1
           DEF Step, Arrive, ProxyRequest, SignOut, SignIn, LoadHit, LoadError,
               RefreshGranted, RefreshReplyLost, RefreshNotDone, RefreshNotImplemented, Save,
               SaveError, ValidateAccept, ValidateReject, ClearError, HandleAndClear, Respond,
               history
      <4>3. ValidTicket(cookie[r]) /\ t = cookie[r].ticket
        BY <4>1, <4>2 DEF Clear
      <4>4. store'[t] = None
        BY <1>3, <4>2, <4>3 DEF Clear, TokenInv, TypeOK
      <4>5. QED
        BY <4>4
    <3>3. CASE store'[t] # store[t]
      <4>1. pc[r] = "signin" /\ store'[t].session = sess[r]
        BY <1>3, <3>1, <3>3 DEF Spread, NeverRefreshing
      <4>2. cleared' = cleared
        BY <2>1, <4>1
           DEF Step, Clear, Arrive, ProxyRequest, SignOut, SignIn, LoadHit, LoadError,
               RefreshGranted, RefreshReplyLost, RefreshNotDone, RefreshNotImplemented, Save,
               SaveError, ValidateAccept, ValidateReject, ClearError, HandleAndClear, Respond,
               history
      <4>3. QED
        BY <1>3, <4>1, <4>2 DEF SignInsFresh, FreshSignIn
    <3>4. QED
      BY <3>2, <3>3
  <2>2. CASE Tick \/ Revoke \/ UNCHANGED vars
    BY <1>3, <2>2, EnvironmentSpreads
       DEF ClearedSessionStaysCleared, StoredLogin, TokenInv
  <2>3. QED
    BY <1>3, <2>1, <2>2 DEF Next
<1>4. QED
  BY <1>1, <1>2, <1>3, TypeInvariant, TokenInvariant, FreshInvariant, PTL DEF Spec
================================================================================
