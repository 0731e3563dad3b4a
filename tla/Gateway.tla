------------------------------- MODULE Gateway -------------------------------
(***************************************************************************)
(* The way of a request through the proxy: the middlewares ahead of        *)
(* authentication, the three session loaders in their order, the           *)
(* authorization of the session, and the handlers that proxy the request   *)
(* with identity headers, answer it, or send the user to sign in.  The     *)
(* requests are those of one browser; its stored session and the list of   *)
(* authenticated emails change while they are under way.  Signing in with  *)
(* a provider is LoginFlow, the stored session itself StoredSession.       *)
(* Where a definition is preceded by one of the same form, the earlier one *)
(* is a mutant: the bug a property is shown to catch.                      *)
(***************************************************************************)
EXTENDS Naturals

CONSTANTS
    Requests,
    Users,
    Groups,
    Configs,   \* the configurations considered
    Inputs,    \* the requests considered
    Names,     \* of User and Email, the ones a login or a refresh may set
    None,      \* nil: no session, no request
    Keep       \* of a response that sets no session cookie

\* jwt: bearer tokens are accepted.  basic: htpasswd credentials are not, are, or
\* are with the user taken for the e-mail address (LegacyPreferEmailToUser).
Config == [jwt: BOOLEAN, basic: {"off", "user", "email"},
           domain: SUBSET Users,         \* whom the email domains accept
           allowedGroups: SUBSET Groups, \* the provider's; {}: no restriction
           userGroups: SUBSET Groups,    \* HtpasswdUserGroups
           preserve: BOOLEAN, claim: {"user", "email"},  \* the injected header
           skipButton: BOOLEAN]

HasEmail(s) == "email" \in s.names

\* from: "refreshed" is a login's session that the provider has refreshed since.
\* names: which of User and Email are set; a bearer token's session has an address,
\* and so has a login's as its callback left it.
Session ==
    { s \in [from: {"bearer", "basic", "form", "login", "refreshed"}, user: Users,
             names: SUBSET {"user", "email"}, groups: SUBSET Groups] :
        s.from \in {"bearer", "login"} => HasEmail(s) }

\* auth: an Authorization header or a posted sign-in form, of whom if it verifies.
\* allowed: IsAllowedRequest.  query: the allowed_groups parameter.  named: the
\* users that the request's own copy of the injected header names.
Endpoints == {"public", "proxy", "auth", "userinfo", "sign_in", "sign_out"}
Input == [to: Endpoints, auth: {"none", "bad", "token", "password"}, as: Users,
          allowed: BOOLEAN, query: SUBSET Groups, named: SUBSET Users]

ASSUME GatewayAssumption ==
    /\ Configs \subseteq Config
    /\ Inputs \subseteq Input
    /\ Names \subseteq SUBSET {"user", "email"}
    /\ None \notin Session \cup Input
    /\ Keep \notin Session \cup {None}

VARIABLES
    config,
    listed,     \* the users of the authenticated emails file, as last loaded
    stored,     \* the session the browser's cookie stands for
    pc,         \* what each request does next
    req,        \* each request as it came in
    carried,    \* the stored session its cookie stands for
    scope,      \* RequestScope.Session
    setCookie,  \* what the response does to the cookie
    header,     \* the users named by the injected header, at the upstream
    since       \* history: the users listed at some time since the request came

vars == <<config, listed, stored, pc, req, carried, scope, setCookie, header, since>>
env  == <<config, listed, stored>>

Final == {"answered", "upstream", "accepted", "refused", "login", "done", "panic"}

--------------------------------------------------------------------------------
Init ==
    /\ config \in Configs
    /\ listed \in SUBSET Users
    /\ stored = None
    /\ pc = [r \in Requests |-> "idle"]
    /\ req = [r \in Requests |-> None]
    /\ carried = [r \in Requests |-> None]
    /\ scope = [r \in Requests |-> None]
    /\ setCookie = [r \in Requests |-> Keep]
    /\ header = [r \in Requests |-> {}]
    /\ since = [r \in Requests |-> {}]

Goto(r, l) == pc' = [pc EXCEPT ![r] = l]

\* NewScope: every request starts with a scope of its own.
NewScopeShared(r) == scope
NewScope(r) == [scope EXCEPT ![r] = None]

\* Health checks, redirects to HTTPS and robots.txt are answered ahead of
\* everything; signing in and out does without the session chain.
Arrive(r) ==
    /\ pc[r] = "idle"
    /\ \E i \in Inputs :
          /\ req' = [req EXCEPT ![r] = i]
          /\ Goto(r, CASE i.to = "public" -> "answered"
                       [] i.to \in {"sign_in", "sign_out"} -> "page"
                       [] OTHER -> "bearer")
    /\ carried' = [carried EXCEPT ![r] = stored]
    /\ since' = [since EXCEPT ![r] = listed]
    /\ UNCHANGED <<env, scope, setCookie, header>>

--------------------------------------------------------------------------------
(* The session chain: each loader passes a session of an earlier one on. *)

VacantAlways(r) == TRUE
Vacant(r) == scope[r] = None

Hold(r, s) == scope' = [scope EXCEPT ![r] = s]

\* An ID token names a subject, which stands in for a missing e-mail address.
LoadBearer(r) ==
    /\ pc[r] = "bearer"
    /\ IF config.jwt /\ req[r].auth = "token"
       THEN \E g \in SUBSET Groups :
               Hold(r, [from |-> "bearer", user |-> req[r].as,
                        names |-> {"user", "email"}, groups |-> g])
       ELSE UNCHANGED scope
    /\ Goto(r, "basic")
    /\ UNCHANGED <<env, req, carried, setCookie, header, since>>

SkipBasic(r) ==
    /\ pc[r] = "basic"
    /\ ~Vacant(r) \/ config.basic = "off"
    /\ Goto(r, "stored")
    /\ UNCHANGED <<env, req, carried, scope, setCookie, header, since>>

BasicSession(r) ==
    [from |-> "basic", user |-> req[r].as,
     names |-> IF config.basic = "email" THEN {"user", "email"} ELSE {"user"},
     groups |-> config.userGroups]

LoadBasic(r) ==
    /\ pc[r] = "basic"
    /\ Vacant(r) /\ config.basic # "off"
    /\ IF req[r].auth = "password"
       THEN Hold(r, BasicSession(r)) /\ Goto(r, "stored")
       ELSE /\ UNCHANGED scope   \* the e-mail of a nil session is set
            /\ Goto(r, IF config.basic = "email" THEN "panic" ELSE "stored")
    /\ UNCHANGED <<env, req, carried, setCookie, header, since>>

SkipStored(r) ==
    /\ pc[r] = "stored"
    /\ ~Vacant(r)
    /\ Goto(r, "handle")
    /\ UNCHANGED <<env, req, carried, scope, setCookie, header, since>>

\* The session of the cookie, or a newer one saved under the same ticket.  One of
\* a login perhaps comes back refreshed and saved: with the groups, the user and
\* the e-mail address of the answer, or none (an ID token without the claim; always
\* with GitLab, where nothing looks the user up again).
LoadStored(r) ==
    /\ pc[r] = "stored"
    /\ Vacant(r) /\ carried[r] # None
    /\ \E c \in {carried[r], stored} \ {None} :
          \/ Hold(r, c) /\ UNCHANGED setCookie
          \/ /\ c.from \in {"login", "refreshed"}
             /\ \E g \in SUBSET Groups, n \in Names :
                   LET s == [from |-> "refreshed", user |-> c.user, names |-> n,
                             groups |-> g]
                   IN  Hold(r, s) /\ setCookie' = [setCookie EXCEPT ![r] = s]
    /\ Goto(r, "handle")
    /\ UNCHANGED <<env, req, carried, header, since>>

\* No session; one that cannot be loaded, refreshed or validated is cleared.
LoadNothing(r) ==
    /\ pc[r] = "stored"
    /\ Vacant(r)
    /\ setCookie' \in {[setCookie EXCEPT ![r] = c] :
                         c \in IF carried[r] = None THEN {Keep} ELSE {Keep, None}}
    /\ Hold(r, None)
    /\ Goto(r, "handle")
    /\ UNCHANGED <<env, req, carried, header, since>>

--------------------------------------------------------------------------------
(* getAuthenticatedSession *)

\* The Validator of e-mail addresses.
Validator(u) == u \in config.domain \cup listed

InAllowedGroup(s) ==
    config.allowedGroups = {} \/ s.groups \cap config.allowedGroups # {}

AcceptableEither(s) == (HasEmail(s) => Validator(s.user)) \/ InAllowedGroup(s)
Acceptable(s) == (HasEmail(s) => Validator(s.user)) /\ InAllowedGroup(s)

NeedsLoginAlways(r) == scope[r] = None
NeedsLogin(r) == scope[r] = None /\ ~req[r].allowed
Denied(r) == scope[r] # None /\ ~req[r].allowed /\ ~Acceptable(scope[r])
Admitted(r) == ~NeedsLogin(r) /\ ~Denied(r)

\* ClearSessionCookie succeeds or fails.
ClearCookie(r) == setCookie' = [setCookie EXCEPT ![r] = None]
ClearIgnored(r) == ClearCookie(r) \/ UNCHANGED setCookie
SignInPage(r) ==
    \/ ClearCookie(r) /\ Goto(r, "login")
    \/ UNCHANGED setCookie /\ Goto(r, "refused")

Deny(r) ==
    /\ pc[r] = "handle" /\ Denied(r)
    /\ ClearIgnored(r)
    /\ Goto(r, "refused")
    /\ UNCHANGED <<env, req, carried, scope, header, since>>

\* The proxy sends the user to sign in, with the page or straight to the provider,
\* but refuses AJAX; the other endpoints refuse.
AskLogin(r) ==
    /\ pc[r] = "handle" /\ NeedsLogin(r)
    /\ \/ Goto(r, "refused") /\ UNCHANGED setCookie
       \/ /\ req[r].to = "proxy"
          /\ IF config.skipButton
             THEN Goto(r, "login") /\ UNCHANGED setCookie
             ELSE SignInPage(r)
    /\ UNCHANGED <<env, req, carried, scope, header, since>>

\* What the header says of a session; an empty claim is not added.
Claim(s) ==
    IF s # None /\ config.claim \in s.names THEN {s.user} ELSE {}

StrippedForSession(r) ==
    IF config.preserve \/ scope[r] = None THEN req[r].named ELSE {}
Stripped(r) == IF config.preserve THEN req[r].named ELSE {}

\* Proxy: the headers chain strips, then injects.
Proxy(r) ==
    /\ pc[r] = "handle" /\ Admitted(r)
    /\ req[r].to = "proxy"
    /\ header' = [header EXCEPT ![r] = Stripped(r) \cup Claim(scope[r])]
    /\ Goto(r, "upstream")
    /\ UNCHANGED <<env, req, carried, scope, setCookie, since>>

UserInfo(r) ==
    /\ pc[r] = "handle" /\ Admitted(r)
    /\ req[r].to = "userinfo"
    /\ Goto(r, "accepted")
    /\ UNCHANGED <<env, req, carried, scope, setCookie, header, since>>

\* checkAllowedGroups; the session whose groups it reads may be nil.
InQueryGroup(r) == req[r].query = {} \/ scope[r].groups \cap req[r].query # {}

AuthOnly(r) ==
    /\ pc[r] = "handle" /\ Admitted(r)
    /\ req[r].to = "auth"
    /\ Goto(r, IF req[r].query # {} /\ scope[r] = None THEN "panic"
               ELSE IF InQueryGroup(r) THEN "accepted" ELSE "refused")
    /\ UNCHANGED <<env, req, carried, scope, setCookie, header, since>>

--------------------------------------------------------------------------------
ManualSignIn(r) == config.basic # "off" /\ req[r].auth = "password"

\* SignIn saves a session for the form's user; else it asks to sign in.
FormSession(r) ==
    [from |-> "form", user |-> req[r].as, names |-> {"user"}, groups |-> {}]
SignIn(r) ==
    /\ pc[r] = "page" /\ req[r].to = "sign_in"
    /\ \/ Goto(r, "refused") /\ UNCHANGED setCookie  \* no redirect, or no save
       \/ IF ManualSignIn(r)
          THEN /\ setCookie' = [setCookie EXCEPT ![r] = FormSession(r)]
               /\ Goto(r, "done")
          ELSE IF config.skipButton
               THEN Goto(r, "login") /\ UNCHANGED setCookie
               ELSE SignInPage(r)
    /\ UNCHANGED <<env, req, carried, scope, header, since>>

SignOut(r) ==
    /\ pc[r] = "page" /\ req[r].to = "sign_out"
    /\ \/ ClearCookie(r) /\ Goto(r, "done")
       \/ UNCHANGED setCookie /\ Goto(r, "refused")
    /\ UNCHANGED <<env, req, carried, scope, header, since>>

\* The response, which the browser may miss; none is sent after a panic.
Respond(r) ==
    /\ pc[r] \in Final
    /\ \/ UNCHANGED stored
       \/ /\ pc[r] # "panic" /\ setCookie[r] # Keep
          /\ stored' = setCookie[r]
    /\ Goto(r, "idle")
    /\ req' = [req EXCEPT ![r] = None]
    /\ carried' = [carried EXCEPT ![r] = None]
    /\ scope' = NewScope(r)
    /\ setCookie' = [setCookie EXCEPT ![r] = Keep]
    /\ header' = [header EXCEPT ![r] = {}]
    /\ since' = [since EXCEPT ![r] = {}]
    /\ UNCHANGED <<config, listed>>

\* LoginFlow: the callback saves a session that is acceptable then; the Validator
\* accepts no empty address.
Login ==
    /\ \E u \in Users, n \in Names, g \in SUBSET Groups :
          LET s == [from |-> "login", user |-> u, names |-> n, groups |-> g]
          IN  HasEmail(s) /\ Acceptable(s) /\ stored' = s
    /\ UNCHANGED <<config, listed, pc, req, carried, scope, setCookie, header, since>>

\* UserMap: the authenticated emails file was loaded again.
Reload ==
    /\ listed' \in SUBSET Users
    /\ since' = [r \in Requests |->
                   IF pc[r] = "idle" THEN since[r] ELSE since[r] \cup listed']
    /\ UNCHANGED <<config, stored, pc, req, carried, scope, setCookie, header>>

Step(r) ==
    \/ Arrive(r)
    \/ LoadBearer(r) \/ SkipBasic(r) \/ LoadBasic(r)
    \/ SkipStored(r) \/ LoadStored(r) \/ LoadNothing(r)
    \/ Deny(r) \/ AskLogin(r) \/ Proxy(r) \/ UserInfo(r) \/ AuthOnly(r)
    \/ SignIn(r) \/ SignOut(r) \/ Respond(r)

Next ==
    \/ \E r \in Requests : Step(r)
    \/ Login \/ Reload

Spec == Init /\ [][Next]_vars

--------------------------------------------------------------------------------
(***************************************************************************)
(* Properties.                                                             *)
(***************************************************************************)
\* Types, and: a request starts without a session.
TypeOK ==
    /\ config \in Configs
    /\ listed \subseteq Users
    /\ stored \in Session \cup {None}
    /\ pc \in [Requests -> {"idle", "bearer", "basic", "stored", "handle", "page"}
                             \cup Final]
    /\ req \in [Requests -> Inputs \cup {None}]
    /\ carried \in [Requests -> Session \cup {None}]
    /\ scope \in [Requests -> Session \cup {None}]
    /\ setCookie \in [Requests -> Session \cup {None, Keep}]
    /\ header \in [Requests -> SUBSET Users]
    /\ since \in [Requests -> SUBSET Users]
    /\ \A r \in Requests :
          /\ pc[r] # "idle" => req[r] # None
          /\ pc[r] \in {"idle", "bearer", "page"} => scope[r] = None

\* Nothing gets past the proxy without a session that was acceptable at some time
\* since the request came, unless the request is on an allowlist, and nobody past
\* the auth endpoint without one of the groups it asks for.  A session is held
\* against the e-mail list unless it has no address: that of an htpasswd user, or
\* of a login whose refresh left it none.  A bearer token's, and a login's as its
\* callback left it, always are.
OffList(s) == ~HasEmail(s) /\ s.from \in {"basic", "form", "refreshed"}
AcceptedSession(r) ==
    /\ scope[r] # None
    /\ scope[r].user \in config.domain \cup since[r] \/ OffList(scope[r])
    /\ InAllowedGroup(scope[r])

NothingUnauthorized ==
    \A r \in Requests : pc[r] \in {"upstream", "accepted"} =>
        /\ req[r].allowed \/ AcceptedSession(r)
        /\ (req[r].to = "auth" /\ req[r].query # {}) =>
              /\ scope[r] # None
              /\ scope[r].groups \cap req[r].query # {}

\* The upstream reads in the identity header only the user of the session,
\* and nobody's name on an allowlisted request without one, unless the request's
\* own value is to be preserved.
IdentityNotForged ==
    \A r \in Requests : (pc[r] = "upstream" /\ ~config.preserve) =>
        header[r] \subseteq IF scope[r] = None THEN {} ELSE {scope[r].user}

\* Accepted credentials in the request win over the stored session of its cookie,
\* from the time the handler runs.
Handled(r) == \/ pc[r] = "handle"
              \/ pc[r] \in Final /\ req[r].to \in {"proxy", "auth", "userinfo"}
Accepts(r) == \/ config.jwt /\ req[r].auth = "token"
              \/ config.basic # "off" /\ req[r].auth = "password"
CredentialsWin ==
    \A r \in Requests : (Handled(r) /\ Accepts(r)) =>
        /\ scope[r] # None
        /\ scope[r].from = IF req[r].auth = "token" THEN "bearer" ELSE "basic"
        /\ scope[r].user = req[r].as

\* An allowlisted request is never refused or sent to sign in, but for the groups
\* that the auth endpoint asks for.  It fails without an answer only where a nil
\* session is dereferenced: by the basic loader if htpasswd users are taken for
\* e-mail addresses and no password came with it, and by the auth endpoint if it
\* asks for groups.
NilUser(r) == config.basic = "email" /\ req[r].auth # "password"
AsksGroups(r) == req[r].to = "auth" /\ req[r].query # {}
AllowlistedServed ==
    \A r \in Requests :
        (pc[r] # "idle" /\ req[r].to \in {"proxy", "auth", "userinfo"} /\ req[r].allowed) =>
            /\ pc[r] \in {"refused", "login"} => AsksGroups(r)
            /\ pc[r] = "panic" => scope[r] = None /\ (NilUser(r) \/ AsksGroups(r))
==============================================================================
