----------------------------- MODULE StoredSession -----------------------------
(***************************************************************************)
(* Concurrent requests of one browser over a server-side session store.    *)
(*                                                                         *)
(* A session is stored under a ticket; the browser holds the ticket in a   *)
(* signed, time-stamped cookie.  Every proxied request runs the stored     *)
(* session middleware (load, refresh at the provider, save, validate,      *)
(* clear) and then the Proxy handler; sign-in saves a new session and      *)
(* sign-out clears the old one.  Each request is a goroutine of its own:   *)
(* one action is one call to the store or to the provider, so requests     *)
(* interleave between any two such calls.  The middleware takes no lock.   *)
(***************************************************************************)
EXTENDS Naturals

CONSTANTS
    Requests,       \* request goroutines; a slot is reused when it is done
    Tickets,        \* ticket ids newTicket may draw
    Logins,         \* grants the provider may issue, one per sign-in
    Providers,      \* kinds of provider: subset of ProviderKinds
    RefreshPeriod,  \* Cookie.Refresh in clock ticks, 0 = refresh disabled
    CookieExpire,   \* Cookie.Expire in clock ticks
    TokenLife,      \* life of what a session's validity rests on, in clock ticks
    Second,         \* clock ticks per second
    MaxTime,        \* bound on the clock
    MaxGen,         \* bound on the number of refreshes of one grant
    None,           \* nil: no cookie, no session, no entry
    Keep, Delete    \* a response that leaves or removes the session cookie

\* "rotating": each refresh replaces the refresh token and retires the old one.
\* "reusing": the refresh token stays valid.  "none": ErrNotImplemented.
ProviderKinds == {"rotating", "reusing", "none"}

\* How ValidateSession decides.  "asked": the provider is asked about the access
\* token.  "local": the signature and the expiry of the stored ID token are
\* verified here (OIDC, ADFS and GitLab, all of which refresh).
Validations(p) == IF p = "none" THEN {"asked"} ELSE {"asked", "local"}

ASSUME ProviderAssumption == Providers \subseteq ProviderKinds
ASSUME PeriodAssumption ==
    /\ RefreshPeriod \in Nat /\ CookieExpire \in Nat /\ TokenLife \in Nat
    /\ MaxTime \in Nat /\ MaxGen \in Nat
    /\ Second \in Nat \ {0}

\* The fields of a SessionState the control flow tells apart; rt numbers the
\* refresh tokens of one grant in the order the provider issued them.  expiresOn
\* is the latest time at which validation can accept the session: its ExpiresOn,
\* or the expiry of its ID token where that is earlier.
Session == [login: Logins, rt: Nat, createdAt: Nat, expiresOn: Nat]
Entry   == [session: Session, deadline: Nat]
Cookie  == [ticket: Tickets, stamp: Nat]

ASSUME NoneAssumption == None \notin Session \cup Entry \cup Cookie \cup Nat
ASSUME KeepAssumption == Keep \notin Cookie /\ Delete \notin Cookie /\ Keep # Delete

VARIABLES
    now,        \* the clock of the proxy and of the store
    provider,   \* the configured provider's kind
    validation, \* how it validates a session
    jar,        \* the browser's session cookie
    store,      \* the persistent store, by ticket
    issued,     \* tickets drawn so far
    started,    \* grants issued by the provider
    current,    \* latest refresh token of each grant, at the provider
    revokedAt,  \* when each grant was revoked at the provider, or None
    pc,         \* the next call of each request
    cookie,     \* the session cookie each request carried
    sess,       \* the *SessionState each request holds
    setCookie,  \* the Set-Cookie each response will carry
    doomed,     \* history: loaded after a revocation and due for a refresh
    dropped,    \* history: grants whose newest token met a failure or a Clear
    cleared     \* history: tickets and grants whose entry a Clear deleted

clockVars    == <<now, provider, validation>>
providerVars == <<started, current, revokedAt>>
storeVars    == <<store, issued>>
history      == <<doomed, dropped, cleared>>
vars == <<now, provider, validation, jar, store, issued, started, current,
          revokedAt, pc, cookie, sess, setCookie, doomed, dropped, cleared>>

Labels == {"idle", "load", "refresh", "save", "validate", "clear",
           "handler", "signin", "page", "respond"}

--------------------------------------------------------------------------------
(***************************************************************************)
(* Pure helpers.  Where a definition is preceded by one of the same form,  *)
(* the earlier one is a mutant: the bug a property is shown to catch.      *)
(***************************************************************************)
Truncate(t) == t - (t % Second)

\* Age compares a clock truncated to the second with an untruncated CreatedAt,
\* so it may be negative and a refresh may come up to a second late.
OldEnough(s) == s.createdAt + RefreshPeriod <= Truncate(now)
RefreshDue(s) == RefreshPeriod > 0 /\ OldEnough(s)

IsExpired(s) == s.expiresOn < now

Revoked(l) == revokedAt[l] # None

\* encryption.Validate: creation stamp in (now - expire, now + 5 minutes); one
\* clock signs and checks, so the upper bound always holds.
ValidTicket(k) == k # None /\ now < k.stamp + CookieExpire

TicketFor(k, t) == IF ValidTicket(k) THEN t = k.ticket ELSE t \in Tickets \ issued

\* The login whose session an entry of ticket t holds, as a set of at most one.
StoredLogin(t) == IF store[t] = None THEN {} ELSE {store[t].session.login}

--------------------------------------------------------------------------------
Init ==
    /\ now = 0
    /\ provider \in Providers
    /\ validation \in Validations(provider)
    /\ jar = None
    /\ store = [t \in Tickets |-> None]
    /\ issued = {}
    /\ started = {}
    /\ current = [l \in Logins |-> 0]
    /\ revokedAt = [l \in Logins |-> None]
    /\ pc = [r \in Requests |-> "idle"]
    /\ cookie = [r \in Requests |-> None]
    /\ sess = [r \in Requests |-> None]
    /\ setCookie = [r \in Requests |-> Keep]
    /\ doomed = {}
    /\ dropped = {}
    /\ cleared = {}

Goto(r, l) == pc' = [pc EXCEPT ![r] = l]

\* Goto for a call after which a request may only have its response left: then
\* its cookie and session are out of use.
Continue(r, l) ==
    /\ Goto(r, l)
    /\ cookie' = IF l = "respond" THEN [cookie EXCEPT ![r] = None] ELSE cookie
    /\ sess' = IF l = "respond" THEN [sess EXCEPT ![r] = None] ELSE sess

\* A new request carries whatever cookie the browser holds when it is sent.
Arrive(r, l) ==
    /\ pc[r] = "idle"
    /\ Goto(r, l)
    /\ cookie' = [cookie EXCEPT ![r] = jar]
    /\ UNCHANGED <<clockVars, jar, storeVars, setCookie, history>>

ProxyRequest(r) == Arrive(r, "load") /\ UNCHANGED <<providerVars, sess>>

SignOut(r) == Arrive(r, "page") /\ UNCHANGED <<providerVars, sess>>

\* OAuthCallback up to SaveSession: the code is redeemed for a fresh grant.
SignIn(r) ==
    /\ Arrive(r, "signin")
    /\ \E l \in Logins \ started :
          /\ started' = started \cup {l}
          /\ sess' = [sess EXCEPT ![r] =
                [login |-> l, rt |-> current[l],
                 createdAt |-> now, expiresOn |-> now + TokenLife]]
    /\ UNCHANGED <<current, revokedAt>>

--------------------------------------------------------------------------------
(***************************************************************************)
(* The middleware.                                                         *)
(***************************************************************************)
\* Manager.Load finds the ticket's entry.  A session that is not due for a
\* refresh is used as it is: neither its expiry nor the provider is consulted.
LoadHit(r) ==
    /\ pc[r] = "load"
    /\ ValidTicket(cookie[r])
    /\ store[cookie[r].ticket] # None
    /\ LET s == store[cookie[r].ticket].session IN
          /\ sess' = [sess EXCEPT ![r] = s]
          /\ Goto(r, IF RefreshDue(s) THEN "refresh" ELSE "handler")
          /\ doomed' = IF RefreshDue(s) /\ Revoked(s.login)
                       THEN doomed \cup {r} ELSE doomed
    /\ UNCHANGED <<clockVars, jar, storeVars, providerVars, cookie, setCookie,
                   dropped, cleared>>

\* No cookie, an invalid cookie, no entry, or the store failed.
LoadError(r) ==
    /\ pc[r] = "load"
    /\ Goto(r, "clear")
    /\ UNCHANGED <<clockVars, jar, storeVars, providerVars, cookie, sess,
                   setCookie, history>>

\* The refresh token of grant l after a successful refresh, and the session s
\* holding it: CreatedAtNow restarts the refresh timer.
NextToken(l) == IF provider = "rotating" THEN current[l] + 1 ELSE current[l]
Refreshed(s) == [login |-> s.login, rt |-> NextToken(s.login),
                 createdAt |-> now, expiresOn |-> now + TokenLife]
Stamped(s) == [s EXCEPT !.createdAt = now]

\* Only a session the provider refreshed is saved; the others go straight on to
\* validation.
AfterRefreshUnsaved(refreshed) == "validate"
AfterRefreshSaved(refreshed) == "save"
AfterRefreshUnvalidated(refreshed) == IF refreshed THEN "save" ELSE "handler"
AfterRefresh(refreshed) == IF refreshed THEN "save" ELSE "validate"

\* The provider's answer and CreatedAtNow are one step: nothing else of this
\* request happens between them.
RefreshGranted(r) ==
    /\ pc[r] = "refresh"
    /\ provider # "none"
    /\ LET l == sess[r].login IN
          /\ ~Revoked(l)
          /\ sess[r].rt = current[l]
          /\ NextToken(l) <= MaxGen
          /\ current' = [current EXCEPT ![l] = NextToken(l)]
    /\ sess' = [sess EXCEPT ![r] = Refreshed(sess[r])]
    /\ Goto(r, AfterRefresh(TRUE))
    /\ UNCHANGED <<clockVars, jar, storeVars, started, revokedAt, cookie,
                   setCookie, history>>

\* The provider rotated the token but its answer never arrived.
RefreshReplyLost(r) ==
    /\ pc[r] = "refresh"
    /\ provider = "rotating"
    /\ LET l == sess[r].login IN
          /\ ~Revoked(l)
          /\ sess[r].rt = current[l]
          /\ current[l] < MaxGen
          /\ current' = [current EXCEPT ![l] = @ + 1]
          /\ dropped' = dropped \cup {l}
    /\ Goto(r, AfterRefresh(FALSE))
    /\ UNCHANGED <<clockVars, jar, storeVars, started, revokedAt, cookie, sess,
                   setCookie, doomed, cleared>>

\* An error, or "not refreshed": the token was retired, the grant revoked, the
\* provider unreachable, or the session has no refresh token.
RefreshNotDone(r) ==
    /\ pc[r] = "refresh"
    /\ provider # "none"
    /\ Goto(r, AfterRefresh(FALSE))
    /\ UNCHANGED <<clockVars, jar, storeVars, providerVars, cookie, sess,
                   setCookie, history>>

\* ErrNotImplemented counts as refreshed, to restart the refresh timer.
RefreshNotImplemented(r) ==
    /\ pc[r] = "refresh"
    /\ provider = "none"
    /\ sess' = [sess EXCEPT ![r] = Stamped(sess[r])]
    /\ Goto(r, AfterRefresh(TRUE))
    /\ UNCHANGED <<clockVars, jar, storeVars, providerVars, cookie, setCookie,
                   history>>

\* Where a request goes when its Save has returned.
AfterSave(r) == IF pc[r] = "signin" THEN "respond" ELSE "validate"

\* The entry saveSession writes, and the cookie setCookie signs.
SavedEntryShort(s) == [session |-> s, deadline |-> now + RefreshPeriod]
SavedEntry(s) == [session |-> s, deadline |-> now + CookieExpire]
SavedCookie(s, t) == [ticket |-> t, stamp |-> Truncate(s.createdAt)]

\* Manager.Save writes under the ticket of the request's cookie, whatever the
\* entry holds by now, or under a fresh ticket when that cookie is not valid.
Save(r) ==
    /\ pc[r] \in {"save", "signin"}
    /\ \E t \in Tickets :
          /\ TicketFor(cookie[r], t)
          /\ store' = [store EXCEPT ![t] = SavedEntry(sess[r])]
          /\ issued' = issued \cup {t}
          /\ setCookie' = [setCookie EXCEPT ![r] = SavedCookie(sess[r], t)]
          /\ dropped' = dropped \cup (StoredLogin(t) \ {sess[r].login})
    /\ Continue(r, AfterSave(r))
    /\ UNCHANGED <<clockVars, jar, providerVars, doomed, cleared>>

\* The store refused the write: the error is logged and the session, with the
\* token nobody else holds, goes on to validation (or to the error page).
SaveError(r) ==
    /\ pc[r] \in {"save", "signin"}
    /\ dropped' = dropped \cup {sess[r].login}
    /\ Continue(r, AfterSave(r))
    /\ UNCHANGED <<clockVars, jar, storeVars, providerVars, setCookie, doomed,
                   cleared>>

\* The session has not expired, and the provider still knows its access token
\* or its ID token verifies: the latter never learns of a revocation.
ValidateAccept(r) ==
    /\ pc[r] = "validate"
    /\ ~IsExpired(sess[r])
    /\ validation = "asked" => ~Revoked(sess[r].login)
    /\ Goto(r, "handler")
    /\ UNCHANGED <<clockVars, jar, storeVars, providerVars, cookie, sess,
                   setCookie, history>>

\* Expired, rejected by the provider, or the provider could not be asked.
ValidateReject(r) ==
    /\ pc[r] = "validate"
    /\ sess' = [sess EXCEPT ![r] = None]
    /\ Goto(r, "clear")
    /\ UNCHANGED <<clockVars, jar, storeVars, providerVars, cookie, setCookie,
                   history>>

--------------------------------------------------------------------------------
(***************************************************************************)
(* Manager.Clear, called by the middleware ("clear") and by SignInPage,    *)
(* SignOut and a denied request ("page").  The cookie is always cleared.   *)
(***************************************************************************)
AfterClearOn(r) == IF pc[r] = "clear" THEN "validate" ELSE "respond"
AfterClear(r) == IF pc[r] = "clear" THEN "handler" ELSE "respond"

Clear(r) ==
    /\ pc[r] \in {"clear", "page"}
    /\ setCookie' = [setCookie EXCEPT ![r] = Delete]
    /\ IF ValidTicket(cookie[r])
       THEN LET t == cookie[r].ticket IN
              /\ store' = [store EXCEPT ![t] = None]
              /\ cleared' = cleared \cup ({t} \X StoredLogin(t))
              /\ dropped' = dropped \cup StoredLogin(t)
       ELSE UNCHANGED <<store, cleared, dropped>>
    /\ Continue(r, AfterClear(r))
    /\ UNCHANGED <<clockVars, jar, issued, providerVars, doomed>>

\* The store refused the deletion; the error is logged or shown.
ClearError(r) ==
    /\ pc[r] \in {"clear", "page"}
    /\ ValidTicket(cookie[r])
    /\ setCookie' = [setCookie EXCEPT ![r] = Delete]
    /\ Continue(r, AfterClear(r))
    /\ UNCHANGED <<clockVars, jar, storeVars, providerVars, history>>

(***************************************************************************)
(* The Proxy handler.                                                      *)
(***************************************************************************)
\* The session fails authorization, or there is none and the sign-in page is
\* shown: both clear the session of the request's cookie.
HandleAndClear(r) ==
    /\ pc[r] = "handler"
    /\ sess' = [sess EXCEPT ![r] = None]
    /\ Goto(r, "page")
    /\ UNCHANGED <<clockVars, jar, storeVars, providerVars, cookie, setCookie,
                   history>>

\* The response goes out: from the handler it is the upstream's answer to the
\* request with its session, or a refusal that clears nothing (AJAX, auth-only,
\* a redirect straight to the provider).  The browser applies its Set-Cookie,
\* unless the response is lost.
Respond(r) ==
    /\ pc[r] \in {"handler", "respond"}
    /\ jar' \in {jar, CASE setCookie[r] = Keep -> jar
                        [] setCookie[r] = Delete -> None
                        [] OTHER -> setCookie[r]}
    /\ Goto(r, "idle")
    /\ cookie' = [cookie EXCEPT ![r] = None]
    /\ sess' = [sess EXCEPT ![r] = None]
    /\ setCookie' = [setCookie EXCEPT ![r] = Keep]
    /\ doomed' = doomed \ {r}
    /\ UNCHANGED <<clockVars, storeVars, providerVars, dropped, cleared>>

--------------------------------------------------------------------------------
(***************************************************************************)
(* The environment.                                                        *)
(***************************************************************************)
\* An entry lives until its deadline (SET with an expiry); the browser drops a
\* cookie at the Expires attribute MakeCookie gave it.
Outlived(t, time) == store[t] # None /\ store[t].deadline <= time

Tick ==
    /\ now < MaxTime
    /\ now' = now + 1
    /\ store' = [t \in Tickets |-> IF Outlived(t, now + 1) THEN None ELSE store[t]]
    /\ dropped' = dropped \cup
          UNION {StoredLogin(t) : t \in {u \in Tickets : Outlived(u, now + 1)}}
    /\ jar' = IF jar # None /\ jar.stamp + CookieExpire <= now + 1 THEN None ELSE jar
    /\ UNCHANGED <<provider, validation, issued, providerVars, pc, cookie, sess,
                   setCookie, doomed, cleared>>

Revoke ==
    /\ \E l \in started :
          /\ ~Revoked(l)
          /\ revokedAt' = [revokedAt EXCEPT ![l] = now]
    /\ UNCHANGED <<clockVars, jar, storeVars, started, current, pc, cookie,
                   sess, setCookie, history>>

Step(r) ==
    \/ ProxyRequest(r) \/ SignOut(r) \/ SignIn(r)
    \/ LoadHit(r) \/ LoadError(r)
    \/ RefreshGranted(r) \/ RefreshReplyLost(r)
    \/ RefreshNotDone(r) \/ RefreshNotImplemented(r)
    \/ Save(r) \/ SaveError(r)
    \/ ValidateAccept(r) \/ ValidateReject(r)
    \/ Clear(r) \/ ClearError(r)
    \/ HandleAndClear(r) \/ Respond(r)

Next == Tick \/ Revoke \/ \E r \in Requests : Step(r)

Spec == Init /\ [][Next]_vars

--------------------------------------------------------------------------------
(***************************************************************************)
(* Properties.                                                             *)
(***************************************************************************)
\* Where the code dereferences the session a request holds.
Holding(r) == pc[r] \in {"refresh", "save", "validate", "signin"}

\* Types, and: no request refreshes, saves or validates a nil session
\* (stored_session.go dereferences it without a check).
TypeOK ==
    /\ now \in Nat
    /\ provider \in Providers
    /\ validation \in Validations(provider)
    /\ jar \in Cookie \cup {None}
    /\ store \in [Tickets -> Entry \cup {None}]
    /\ issued \subseteq Tickets
    /\ started \subseteq Logins
    /\ current \in [Logins -> Nat]
    /\ revokedAt \in [Logins -> Nat \cup {None}]
    /\ \A l \in Logins : Revoked(l) => l \in started
    /\ pc \in [Requests -> Labels]
    /\ cookie \in [Requests -> Cookie \cup {None}]
    /\ sess \in [Requests -> Session \cup {None}]
    /\ setCookie \in [Requests -> Cookie \cup {Keep, Delete}]
    /\ doomed \subseteq Requests
    /\ dropped \subseteq Logins
    /\ cleared \subseteq Tickets \X Logins
    /\ \A r \in Requests : Holding(r) => sess[r] # None

\* A ticket the browser can still use has its entry, unless a Clear deleted it:
\* the entry's time to live, restarted by every Save, never ends before the
\* cookie that Save signed with the session's CreatedAt.
ValidTicketHasEntry ==
    ValidTicket(jar) =>
        \/ store[jar.ticket] # None
        \/ \E l \in Logins : <<jar.ticket, l>> \in cleared

\* The newest refresh token of a grant is never lost by the control flow: as
\* long as no call failed, no Clear ran on it and no other session was saved
\* over it, the store holds it or a request is about to save it.
Holds(s, l) == s # None /\ s.login = l /\ s.rt = current[l]
Kept(l) ==
    \/ \E t \in Tickets : store[t] # None /\ Holds(store[t].session, l)
    \/ \E r \in Requests : pc[r] \in {"save", "signin"} /\ Holds(sess[r], l)
NewestTokenKept == \A l \in started \ dropped : Kept(l)

\* A failed refresh alone does not reject a session.  Even so, a request that
\* finds the session of a revoked grant due for a refresh goes on to the upstream
\* with it only where validation is local, and no later than a token's life after
\* the revocation: no refresh, and no race of refreshes, prolongs it.
GoesOnRevoked(r) ==
    r \in doomed /\ pc[r] # "handler" /\ pc'[r] = "handler" /\ sess'[r] # None
OutlivesRevocation(r) ==
    validation = "local" /\ now <= revokedAt[sess'[r].login] + TokenLife
RevokedServedOnlyOnIDToken ==
    \A r \in Requests : GoesOnRevoked(r) => OutlivesRevocation(r)
RevocationTakesHold == [][RevokedServedOnlyOnIDToken]_vars

\* Without any lock, concurrent refreshes never put back an older refresh token
\* of the same grant: Save follows only a refresh that succeeded, and a
\* rotating provider lets one of two racing refreshes succeed.
NoTokenRegress ==
    \A t \in Tickets :
        (store[t] # None /\ store'[t] # None
            /\ store'[t].session.login = store[t].session.login)
        => store'[t].session.rt >= store[t].session.rt
StoredTokenNeverRegresses == [][NoTokenRegress]_vars

\* "A stale cookie can't load an already cleared session" (the persistent
\* session store tests): a session a Clear deleted is not in the store again.
ClearedSessionStaysCleared ==
    \A t \in Tickets : \A l \in StoredLogin(t) : <<t, l>> \notin cleared
================================================================================
