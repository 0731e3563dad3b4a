------------------------------ MODULE Providers ------------------------------
(***************************************************************************)
(* What each identity provider does with the fields of a session: redeem,  *)
(* enrich, refresh, validate and authorize, as the callback and the        *)
(* stored session middleware call them.  The identity provider answers     *)
(* what it likes: ID tokens with some claims, without, or that do not      *)
(* verify; refresh tokens it rotates; profile requests that fail.          *)
(* A session is its user's alone and has one request at a time (racing     *)
(* requests are StoredSession); what sessions share is the provider        *)
(* object, whose EmailClaim the ADFS provider changes.  Access tokens are  *)
(* always returned; User and PreferredUsername go with the e-mail.         *)
(* Where a definition is preceded by one of the same form, the earlier one *)
(* is a mutant: the bug a property is shown to catch.                      *)
(***************************************************************************)
EXTENDS Naturals

CONSTANTS
    Users,
    Groups,
    Configs,    \* the configurations considered
    MaxToken,   \* bound: refresh tokens of one grant, numbered from 1
    NoGroups,   \* the nil slice, which is not the empty one
    None        \* no session

\* Providers that call user APIs with the access token of the default Redeem.
EmailApis == {"bitbucket", "linkedin", "facebook", "digitalocean", "nextcloud"}
DefaultRedeem == EmailApis \cup {"github", "keycloak"}
OidcLike == {"oidc", "adfs"}
Refreshing == OidcLike \cup {"google", "gitlab", "azure"}
Kinds == DefaultRedeem \cup Refreshing \cup {"login.gov"}

\* allowed: AllowedGroups.  verifier: an issuer is configured.  validateURL: set, or
\* the provider has a default, as Google and Azure have.  profileURL: of OIDC.
\* checkNonce: ~SkipNonce of OIDC.
\* restricted: Google asks the directory for the allowed groups.  tests: whom GitHub and
\* Bitbucket admit, by the settings that are there (token: one to ask for the repository's
\* collaborators with).  htpasswd: its users sign in with the form.  issuers: there are
\* extra JWT issuers.
Tests == {"users", "org", "team", "repo", "token"}
Tested == {"github", "bitbucket"}
Config ==
    {c \in [kind: Kinds, allowed: SUBSET Groups, verifier: BOOLEAN, validateURL: BOOLEAN,
            profileURL: BOOLEAN, checkNonce: BOOLEAN, restricted: BOOLEAN,
            tests: SUBSET Tests, htpasswd: BOOLEAN, issuers: BOOLEAN] :
        c.kind \in {"google", "azure"} => c.validateURL}

\* An ID token is the set of what the code can find in it, {} when there is none; nothing
\* is looked for in one that does not verify, where that is asked.
ReadBy(kind) == CASE kind = "oidc"       -> {"valid", "email", "unverified", "groups", "nonce"}
                  [] kind = "adfs"       -> {"valid", "email", "upn", "unverified"}
                  [] kind = "google"     -> {"email", "unverified"}
                  [] kind = "azure"      -> {"valid", "email"}
                  [] kind = "login.gov"  -> {"nonce"}
                  [] OTHER               -> {"valid"}
Features == {"token"} \cup UNION {ReadBy(k) : k \in Kinds}
Found(kind) == {f \in SUBSET ReadBy(kind) : "valid" \in ReadBy(kind) => f = {} \/ "valid" \in f}
IdTokens(kind) == {{}} \cup {{"token"} \cup f : f \in Found(kind)}

Emails == {"", "email", "upn", "sub"}     \* by the claim it was taken from
\* expires: ExpiresOn is nil, the zero time, or a time.  from "bearer" is the provider's own
\* loader of bearer tokens, "issuer" that of an extra JWT issuer.
Expiries == {"nil", "zero", "past", "future"}
Session == [from: {"code", "bearer", "issuer", "form"}, email: Emails,
            groups: {NoGroups} \cup SUBSET Groups, refresh: 0..MaxToken,
            id: SUBSET Features, created: BOOLEAN, expires: Expiries]

\* What the token endpoint answers: an ID token, a new refresh token or none, whether the
\* access token is a token with an e-mail address itself, and whether it says when it expires.
TokenAnswer(kind) == [id: IdTokens(kind), refresh: BOOLEAN, email: BOOLEAN, lifetime: BOOLEAN]
\* What a profile or membership API answers.  groups: those found out.
ApiAnswer == [error: BOOLEAN, email: BOOLEAN, other: BOOLEAN,
              groups: {NoGroups} \cup SUBSET Groups]

ASSUME ProvidersAssumption ==
    /\ Configs \subseteq Config
    /\ MaxToken \in Nat \ {0}
    /\ \A gs \in SUBSET Groups : NoGroups # gs
    /\ None \notin Session

VARIABLES
    config,
    emailClaim, \* EmailClaim of the provider object all requests share
    member,     \* each user's groups at the identity provider
    newest,     \* the newest refresh token of the grant each stored session is of
    stored,     \* the session in the store, None when there is none
    pc,         \* what each user's request does next
    cur,        \* the session the request works on
    asserted,   \* history: groups, or tests passed, that the provider named in this
                \* request, or NoGroups
    sound,      \* history: this request's refresh gave all that validation asks for
    lost        \* history: the newest token was lost on the way to the store

vars == <<config, emailClaim, member, newest, stored, pc, cur, asserted, sound, lost>>
kind == config.kind
\* The tests a user passes; "token": is a collaborator.
Shown == IF kind \in Tested THEN SUBSET config.tests ELSE {{}}

Labels == {"idle", "redeemed", "mailed", "enriched", "loaded", "refreshed",
           "validating", "rejected", "unanswered", "accepted", "granted"}

--------------------------------------------------------------------------------
Blank == [from |-> "code", email |-> "", groups |-> NoGroups, refresh |-> 0, id |-> {},
          created |-> FALSE, expires |-> "nil"]

\* IsExpired.  The oauth2 library takes no expires_in for a token that never expires; the
\* providers that read the answer themselves add it to now, or count it from 1970.
Expired(s) == s.expires = "past"
LibraryExpiry(a) == IF a.lifetime THEN "future" ELSE "zero"
OwnExpiry(a) == IF a.lifetime THEN "future" ELSE "past"

\* getClaims: the e-mail is that of the claim EmailClaim names, and the e-mail claim
\* must not be marked unverified while it is that one.
EmailIn(id, claim) == IF claim \in id THEN claim ELSE ""
Verified(id, claim) == ~(claim = "email" /\ "unverified" \in id)

\* extractGroups: nil when there is no such claim.
GroupsIn(id, truth) == IF "groups" \in id THEN truth ELSE NoGroups
Listed(groups) == IF groups = NoGroups THEN {} ELSE groups
\* append: appending nothing to nil leaves nil.
Appended(groups, more) == IF more = {} THEN groups ELSE Listed(groups) \cup more

\* buildSessionFromClaims.  checked is EmailClaim as read the second time, for the
\* verification: it may have changed since the claims were taken.
BuildSession(id, claim, checked, truth) ==
    IF id = {} THEN {Blank}
    ELSE IF Verified(id, checked)
         THEN {[Blank EXCEPT !.email = EmailIn(id, claim), !.groups = GroupsIn(id, truth)]}
         ELSE {}

\* verifyIDToken and createSession of OIDC: none on an error.
OidcSession(a, token, claim, checked, truth, optional) ==
    IF ~(IF a.id = {} THEN optional ELSE "valid" \in a.id /\ config.verifier) THEN {}
    ELSE {[s EXCEPT !.refresh = token, !.id = a.id, !.created = TRUE,
                    !.expires = LibraryExpiry(a)]
          : s \in BuildSession(a.id, claim, checked, truth)}

\* createSession of GitLab: the tokens, the expiry of the ID token, nothing of the user.
GitLabSession(a, token) ==
    IF "valid" \in a.id /\ config.verifier
    THEN {[Blank EXCEPT !.refresh = token, !.id = a.id, !.created = TRUE,
                        !.expires = "future"]}
    ELSE {}

\* verifyTokenAndExtractEmail of Azure, on the ID token and then the access token.
AzureEmail(a, before) ==
    IF config.verifier /\ {"valid", "email"} \subseteq a.id THEN "email"
    ELSE IF config.verifier /\ before = "" /\ a.email THEN "email"
    ELSE before

\* Redeem by provider: the sessions it may return for answer a, none on an error.
TokensOf(a) ==
    [Blank EXCEPT !.refresh = IF a.refresh THEN 1 ELSE 0, !.id = a.id,
                  !.created = TRUE, !.expires = OwnExpiry(a)]
OidcRedeemed(a, claim, checked, truth) ==
    OidcSession(a, IF a.refresh THEN 1 ELSE 0, claim, checked, truth, FALSE)
GitLabRedeemed(a) == GitLabSession(a, IF a.refresh THEN 1 ELSE 0)
\* The claims are read without a verification.
GoogleRedeemed(a) ==
    IF "email" \in a.id /\ "unverified" \notin a.id THEN {[TokensOf(a) EXCEPT !.email = "email"]} ELSE {}
AzureRedeemed(a) == {[TokensOf(a) EXCEPT !.email = AzureEmail(a, "")]}
\* No refresh token; and an answer of the profile URL with a verified address.
LoginGovRedeemed(a) ==
    IF "nonce" \in a.id /\ a.email
    THEN {[TokensOf(a) EXCEPT !.refresh = 0, !.email = "email"]} ELSE {}
\* An answer in JSON, or of form values.
DefaultRedeemed == {[Blank EXCEPT !.created = c] : c \in BOOLEAN}

Redeemed(a, claim, checked, truth) ==
    CASE kind \in OidcLike   -> OidcRedeemed(a, claim, checked, truth)
      [] kind = "gitlab"     -> GitLabRedeemed(a)
      [] kind = "google"     -> GoogleRedeemed(a)
      [] kind = "azure"      -> AzureRedeemed(a)
      [] kind = "login.gov"  -> LoginGovRedeemed(a)
      [] OTHER               -> DefaultRedeemed

\* GetEmailAddress by provider: none on an error.  Who fails a test of Bitbucket has no
\* address; for Facebook having none is an error.
Address(p) == IF p.error THEN {} ELSE {IF p.email THEN "email" ELSE ""}
BitbucketAddress(p, passed) ==
    IF {"team", "repo"} \cap config.tests \subseteq passed \/ p.error THEN Address(p) ELSE {""}
FacebookAddress(p) == Address(p) \ {""}
Addresses(p, passed) ==
    CASE kind = "bitbucket" -> BitbucketAddress(p, passed)
      [] kind = "facebook"  -> FacebookAddress(p)
      [] OTHER              -> Address(p)

\* Authorize: without AllowedGroups everybody, else a member of one of them.
Authorized(s) == config.allowed = {} \/ Listed(s.groups) \cap config.allowed # {}

\* groupValidator of Google resets the groups and asks for each of the allowed ones;
\* a request that fails counts as no.
Answers(truth) == SUBSET (truth \cap config.allowed)
GroupsAskedAdded(s, got) ==
    IF config.restricted THEN [s EXCEPT !.groups = Listed(s.groups) \cup got] ELSE s
GroupsAsked(s, got) == IF config.restricted THEN [s EXCEPT !.groups = got] ELSE s

--------------------------------------------------------------------------------
\* EnrichSession by provider: the sessions it may leave for answer p, none on an error.
OidcEnriched(s, p) ==
    LET filled == IF s.email = "" /\ p.email THEN emailClaim ELSE s.email
        groups == IF Listed(s.groups) # {} THEN s.groups ELSE Appended(s.groups, Listed(p.groups))
        after  == IF config.profileURL /\ (s.email = "" \/ s.groups = NoGroups) /\ ~p.error
                  THEN [s EXCEPT !.email = filled, !.groups = groups] ELSE s
    IN IF after.email = "" THEN {} ELSE {after}

AdfsEnriched(s) ==
    IF s.email # "" THEN {s}
    ELSE IF {"valid", "upn"} \subseteq s.id THEN {[s EXCEPT !.email = "upn"]} ELSE {}

\* other: the address is marked verified.  Groups and then projects the user may access.
GitLabEnriched(s, p) ==
    IF p.error \/ ~p.other THEN {}
    ELSE {[s EXCEPT !.email = IF p.email THEN "email" ELSE "",
                    !.groups = Appended(s.groups, Listed(p.groups))]}

\* other: no mail address, but a userPrincipalName.
AzureEnriched(s, p) ==
    IF s.email # "" THEN {s}
    ELSE IF p.error \/ ~(p.email \/ p.other) THEN {}
    ELSE {[s EXCEPT !.email = IF p.email THEN "email" ELSE "upn"]}

\* isVerifiedUser, and the tests of getEmail and getUser: a listed user passes them all.
\* Collaborators are asked for in getUser, when there is a token for it.
ListedUser(passed) == "users" \in passed
OrgPassed(passed) == IF "team" \in config.tests THEN "team" \in passed ELSE "org" \in passed
EmailTested(passed) ==
    CASE "org" \in config.tests -> OrgPassed(passed)
      [] config.tests \cap {"org", "repo", "token"} = {"repo"} -> "repo" \in passed
      [] OTHER -> TRUE
UserTested(passed) ==
    config.tests \cap {"org", "repo", "token"} = {"repo", "token"} => "token" \in passed
\* Whom only a list of users could admit; everybody else gets no address, and no error.
UserMissing(passed) ==
    "users" \in config.tests /\ ~ListedUser(passed) /\ config.tests \cap {"org", "repo"} = {}
GitHubEnriched(s, p, passed) ==
    IF p.error \/ UserMissing(passed) \/ ~(ListedUser(passed) \/ UserTested(passed)) THEN {}
    ELSE {[s EXCEPT !.email = IF p.email /\ (ListedUser(passed) \/ EmailTested(passed))
                              THEN "email" ELSE s.email]}

KeycloakEnriched(s, p) ==
    IF p.error \/ ~p.email THEN {}
    ELSE {[s EXCEPT !.email = "email", !.groups = Appended(s.groups, Listed(p.groups))]}

Enriched(s, p, passed) ==
    CASE kind = "oidc"     -> OidcEnriched(s, p)
      [] kind = "adfs"     -> AdfsEnriched(s)
      [] kind = "google"   -> {GroupsAsked(s, Listed(p.groups))}
      [] kind = "gitlab"   -> GitLabEnriched(s, p)
      [] kind = "azure"    -> AzureEnriched(s, p)
      [] kind = "github"   -> GitHubEnriched(s, p, passed)
      [] kind = "keycloak" -> KeycloakEnriched(s, p)
      [] OTHER             -> {s}

\* The groups the provider named while it enriched the session, or the tests passed.
NamedBy(s, t, p, passed) ==
    IF kind = "github" THEN passed
    ELSE IF t.groups # s.groups \/ (kind = "google" /\ config.restricted) THEN Listed(p.groups) ELSE NoGroups

--------------------------------------------------------------------------------
\* RefreshSession: the session after answer a, and whether it returned no error.
\* token is the refresh token of the answer, or the old one for the providers that
\* use the oauth2 library, which keeps it.
OidcRefreshed(s, a, token, checked, truth) ==
    {[ok |-> TRUE,
      s  |-> [s EXCEPT !.refresh = n.refresh, !.created = TRUE, !.expires = n.expires,
                       !.id = IF n.id # {} THEN n.id ELSE s.id,
                       !.email = IF n.id # {} THEN n.email ELSE s.email,
                       !.groups = IF n.id # {} THEN n.groups ELSE s.groups]]
     : n \in OidcSession(a, token, emailClaim, checked, truth, TRUE)}

\* redeemRefreshToken of GitLab assigns the new session to the whole of the old one.
GitLabRefreshed(a, token) == {[ok |-> TRUE, s |-> n] : n \in GitLabSession(a, token)}

GoogleRefreshed(s, a, got) ==
    LET t == GroupsAsked([s EXCEPT !.id = a.id, !.created = TRUE,
                                  !.expires = OwnExpiry(a)], got)
    IN {[ok |-> config.restricted => t.groups # {}, s |-> t]}

AzureRefreshed(s, a, token) ==
    {[ok |-> TRUE, s |-> [s EXCEPT !.refresh = IF a.refresh THEN token ELSE 0, !.id = a.id,
                                   !.created = TRUE, !.expires = OwnExpiry(a),
                                   !.email = AzureEmail(a, s.email)]]}

RefreshedDropping(s, a, token, checked, truth, got) ==
    LET done == CASE kind \in OidcLike -> OidcRefreshed(s, a, s.refresh, checked, truth)
                  [] kind = "gitlab"   -> GitLabRefreshed(a, s.refresh)
                  [] kind = "google"   -> GoogleRefreshed(s, a, got)
                  [] kind = "azure"    -> AzureRefreshed(s, a, token)
    IN IF done = {} THEN {[ok |-> FALSE, s |-> s]} ELSE done
RefreshedLosingClaims(s, a, token, checked, truth, got) ==
    {[r EXCEPT !.s.email = IF kind = "azure" /\ "email" \notin a.id THEN "" ELSE @] :
        r \in RefreshedDropping(s, a, token, checked, truth, got)}
RefreshedOldIdToken(s, a, token, checked, truth, got) ==
    {[r EXCEPT !.s.id = s.id] : r \in RefreshedDropping(s, a, token, checked, truth, got)}
Refreshed(s, a, token, checked, truth, got) ==
    LET done == CASE kind \in OidcLike -> OidcRefreshed(s, a, token, checked, truth)
                  [] kind = "gitlab"   -> GitLabRefreshed(a, token)
                  [] kind = "google"   -> GoogleRefreshed(s, a, got)
                  [] kind = "azure"    -> AzureRefreshed(s, a, token)
    IN IF done = {} THEN {[ok |-> FALSE, s |-> s]} ELSE done

\* ValidateSession: the ID token, and its nonce, or the access token at ValidateURL.
Checks == IF kind = "oidc" /\ config.checkNonce THEN {"valid", "nonce"} ELSE {"valid"}
ByIdToken == kind \in OidcLike \cup {"gitlab"}
Validates(s, live) == IF ByIdToken THEN Checks \subseteq s.id ELSE config.validateURL /\ live

--------------------------------------------------------------------------------
Init ==
    /\ config \in Configs
    /\ emailClaim = "email"
    /\ member \in [Users -> SUBSET Groups]
    /\ newest = [u \in Users |-> 0]
    /\ stored = [u \in Users |-> None]
    /\ pc = [u \in Users |-> "idle"]
    /\ cur = [u \in Users |-> None]
    /\ asserted = [u \in Users |-> NoGroups]
    /\ sound = [u \in Users |-> FALSE]
    /\ lost = [u \in Users |-> FALSE]

Goes(u, label) == pc' = [pc EXCEPT ![u] = label]
Holds(u, s) == cur' = [cur EXCEPT ![u] = s]
Ends(u) ==
    /\ Goes(u, "idle")
    /\ Holds(u, None)
    /\ asserted' = [asserted EXCEPT ![u] = NoGroups]
    /\ sound' = [sound EXCEPT ![u] = FALSE]
Names(u, groups) == asserted' = [asserted EXCEPT ![u] = groups]
Store(u, s, token, isLost) ==
    /\ stored' = [stored EXCEPT ![u] = s]
    /\ newest' = [newest EXCEPT ![u] = token]
    /\ lost' = [lost EXCEPT ![u] = isLost]
sessionVars == <<newest, stored, lost>>

\* EmailClaim as a second read finds it, while some other login may be setting it.
SecondRead == {emailClaim} \cup IF kind = "adfs" THEN {"upn"} ELSE {}

\* redeemCode: Redeem, and both times set where the provider left them.
TimedIfNew(s) == IF s.created THEN s ELSE [s EXCEPT !.created = TRUE, !.expires = "future"]
Timed(s) ==
    [s EXCEPT !.created = TRUE, !.expires = IF @ = "nil" THEN "future" ELSE @]
Redeem(u) ==
    /\ pc[u] = "idle"
    /\ \E a \in TokenAnswer(kind), checked \in SecondRead :
       \E s \in Redeemed(a, emailClaim, checked, member[u]) : Holds(u, Timed(s)) /\ Names(u, s.groups)
    /\ Goes(u, "redeemed")
    /\ UNCHANGED <<config, emailClaim, member, sound, sessionVars>>

\* enrichSessionState: GetEmailAddress when there is no e-mail yet.
AddressMissing(u) == kind \in EmailApis /\ cur[u].email = ""
GetEmailAddress(u) ==
    /\ pc[u] = "redeemed"
    /\ IF AddressMissing(u)
       THEN \E p \in ApiAnswer, passed \in Shown : \E email \in Addresses(p, passed) :
               /\ Holds(u, [cur[u] EXCEPT !.email = email])
               /\ Names(u, IF kind \in Tested THEN passed ELSE NoGroups)
       ELSE UNCHANGED <<cur, asserted>>
    /\ Goes(u, "mailed")
    /\ UNCHANGED <<config, emailClaim, member, sound, sessionVars>>
GetEmailAddressFails(u) ==
    /\ pc[u] = "redeemed" /\ AddressMissing(u)
    /\ \E p \in ApiAnswer, passed \in Shown : Addresses(p, passed) = {}
    /\ Ends(u)
    /\ UNCHANGED <<config, emailClaim, member, sessionVars>>

\* EnrichSession.  ADFS sets EmailClaim once the ID token verifies, whatever it holds.
MovesClaimAny(u) == kind # "gitlab" /\ cur[u].email = ""
MovesClaim(u) == kind = "adfs" /\ cur[u].email = "" /\ "valid" \in cur[u].id
EmailClaimAfter(u) == IF MovesClaim(u) THEN "upn" ELSE emailClaim

EnrichSession(u) ==
    /\ pc[u] = "mailed"
    /\ emailClaim' = EmailClaimAfter(u)
    /\ \E p \in ApiAnswer, passed \in Shown :
          /\ Listed(p.groups) \subseteq member[u]
          /\ kind = "google" /\ config.restricted => Listed(p.groups) \in Answers(member[u])
          /\ IF Enriched(cur[u], p, passed) = {} THEN Ends(u)
             ELSE /\ \E s \in Enriched(cur[u], p, passed) :
                        /\ Holds(u, s)
                        /\ Names(u, IF NamedBy(cur[u], s, p, passed) # NoGroups
                                    THEN NamedBy(cur[u], s, p, passed) ELSE asserted[u])
                  /\ Goes(u, "enriched")
                  /\ UNCHANGED sound
    /\ UNCHANGED <<config, member, sessionVars>>

\* OAuthCallback: the validator refuses an empty e-mail, Authorize looks at the groups.
SignedIn(u) ==
    /\ pc[u] = "enriched" /\ cur[u].email # "" /\ Authorized(cur[u])
    /\ Store(u, cur[u], cur[u].refresh, FALSE)
    /\ Goes(u, "granted")
    /\ UNCHANGED <<config, emailClaim, member, cur, asserted, sound>>
LoginRefused(u) ==
    /\ pc[u] = "enriched" /\ ~(cur[u].email # "" /\ Authorized(cur[u]))
    /\ Ends(u)
    /\ UNCHANGED <<config, emailClaim, member, sessionVars>>

\* SignIn: the form's session has a user's name only; the store adds the time.
FormSession == [Blank EXCEPT !.from = "form", !.created = TRUE]
SignInForm(u) ==
    /\ pc[u] = "idle" /\ config.htpasswd
    /\ Store(u, FormSession, 0, FALSE)
    /\ UNCHANGED <<config, emailClaim, member, pc, cur, asserted, sound>>

--------------------------------------------------------------------------------
Load(u) ==
    /\ pc[u] = "idle" /\ stored[u] # None
    /\ Holds(u, stored[u])
    /\ Goes(u, "loaded")
    /\ UNCHANGED <<config, emailClaim, member, asserted, sound, sessionVars>>

NotDue(u) ==
    /\ pc[u] = "loaded"
    /\ Goes(u, "accepted")
    /\ UNCHANGED <<config, emailClaim, member, cur, asserted, sound, sessionVars>>

\* The default refresh (ErrNotImplemented) counts as one; without a refresh token
\* nothing happens and nothing is saved.
RefreshSkipped(u) ==
    /\ pc[u] = "loaded"
    /\ kind \notin Refreshing \/ cur[u].refresh = 0
    /\ Goes(u, IF kind \notin Refreshing THEN "refreshed" ELSE "validating")
    /\ UNCHANGED <<config, emailClaim, member, cur, asserted, sound, sessionVars>>

\* The token endpoint refuses or does not answer.
RefreshRefused(u) ==
    /\ pc[u] = "loaded" /\ kind \in Refreshing /\ cur[u].refresh # 0
    /\ Goes(u, "validating")
    /\ UNCHANGED <<config, emailClaim, member, cur, asserted, sound, sessionVars>>

\* The answer has all that the session it makes will be validated by: a lifetime, where
\* none counts as expired, and an ID token that verifies, where that is looked at.
BringsAll(a) == /\ kind \in {"google", "azure"} => a.lifetime
                /\ ByIdToken => Checks \subseteq a.id

\* The token endpoint answers; only the newest refresh token is accepted.  Google
\* never rotates it.  A refresh that then fails leaves the session as it is by now,
\* unsaved; it is validated all the same.
RefreshSession(u) ==
    /\ pc[u] = "loaded" /\ kind \in Refreshing
    /\ cur[u].refresh # 0 /\ cur[u].refresh = newest[u]
    /\ \E a \in TokenAnswer(kind), checked \in SecondRead, got \in Answers(member[u]) :
       LET token == IF a.refresh THEN newest[u] + 1 ELSE newest[u]
       IN /\ kind = "google" => ~a.refresh
          /\ token <= MaxToken
          /\ \E r \in Refreshed(cur[u], a, token, checked, member[u], got) :
                /\ Holds(u, r.s)
                /\ Goes(u, IF r.ok THEN "refreshed" ELSE "validating")
                /\ newest' = [newest EXCEPT ![u] = token]
                /\ lost' = [lost EXCEPT ![u] = @ \/ (~r.ok /\ a.refresh)]
                /\ Names(u, CASE kind = "google" /\ config.restricted -> got
                              [] kind = "oidc" /\ r.ok /\ "groups" \in a.id -> member[u]
                              [] OTHER -> NoGroups)
                /\ sound' = [sound EXCEPT ![u] = r.ok /\ BringsAll(a)]
    /\ UNCHANGED <<config, emailClaim, member, stored>>

SaveRefreshed(u) ==
    /\ pc[u] = "refreshed"
    /\ stored' = [stored EXCEPT ![u] = [cur[u] EXCEPT !.created = TRUE]]
    /\ Goes(u, "validating")
    /\ UNCHANGED <<config, emailClaim, member, newest, lost, cur, asserted, sound>>
SaveFails(u) ==
    /\ pc[u] = "refreshed"
    /\ lost' = [lost EXCEPT ![u] = @ \/ cur[u].refresh # stored[u].refresh]
    /\ Goes(u, "validating")
    /\ UNCHANGED <<config, emailClaim, member, newest, stored, cur, asserted, sound>>

\* validateSession: the session's own time, and the provider's verdict, on an access token
\* that is live when the refresh has just brought it; the request for it, or for the
\* keys, may fail.
ValidateSession(u) ==
    /\ pc[u] = "validating"
    /\ \E live \in IF sound[u] /\ kind \in Refreshing THEN {TRUE} ELSE BOOLEAN :
          Goes(u, IF ~Expired(cur[u]) /\ Validates(cur[u], live)
                  THEN "accepted" ELSE "rejected")
    /\ UNCHANGED <<config, emailClaim, member, cur, asserted, sound, sessionVars>>
ValidateUnanswered(u) ==
    /\ pc[u] = "validating" /\ ~Expired(cur[u])
    /\ Goes(u, "unanswered")
    /\ UNCHANGED <<config, emailClaim, member, cur, asserted, sound, sessionVars>>

Clear(u) ==
    /\ pc[u] \in {"rejected", "unanswered"}
    /\ Store(u, None, 0, FALSE)
    /\ Ends(u)
    /\ UNCHANGED <<config, emailClaim, member>>

\* CreateSessionFromToken: OIDC's own, or the default with the configured verifier,
\* which knows no groups and no time of creation.  A token it does not accept may be
\* one of an extra issuer, whose loader is that default again.
OidcBearer(id, checked, truth) ==
    {[s EXCEPT !.from = "bearer", !.id = id, !.created = TRUE, !.expires = "future",
               !.email = IF @ = "" THEN "sub" ELSE @]
     : s \in BuildSession(id, emailClaim, checked, truth)}
DefaultBearer(id) ==
    IF ~Verified(id, "email") THEN {}
    ELSE {[Blank EXCEPT !.from = "bearer", !.id = id, !.expires = "future",
                        !.email = IF "email" \in id THEN "email" ELSE "sub"]}
IssuerSessions ==
    IF ~config.issuers THEN {}
    ELSE {[Blank EXCEPT !.from = "issuer", !.id = {"token"}, !.expires = "future",
                        !.email = e] : e \in {"email", "sub"}}
OwnSessions(id, checked, truth) ==
    IF ~config.verifier \/ "valid" \notin id THEN {}
    ELSE IF kind \in OidcLike THEN OidcBearer(id, checked, truth) ELSE DefaultBearer(id)
BearerSessions(id, checked, truth) == OwnSessions(id, checked, truth) \cup IssuerSessions
Bearer(u) ==
    /\ pc[u] = "idle"
    /\ \E id \in IdTokens(kind), checked \in SecondRead :
       \E s \in BearerSessions(id, checked, member[u]) : Holds(u, s) /\ Names(u, s.groups)
    /\ Goes(u, "accepted")
    /\ UNCHANGED <<config, emailClaim, member, sound, sessionVars>>

\* getAuthenticatedSession (the list of users is Gateway's): grant, or clear the cookie.
Grant(u) ==
    /\ pc[u] = "accepted" /\ Authorized(cur[u])
    /\ Goes(u, "granted")
    /\ UNCHANGED <<config, emailClaim, member, cur, asserted, sound, sessionVars>>
Deny(u) ==
    /\ pc[u] = "accepted" /\ ~Authorized(cur[u])
    /\ Store(u, None, 0, FALSE)
    /\ Ends(u)
    /\ UNCHANGED <<config, emailClaim, member>>

Respond(u) ==
    /\ pc[u] = "granted"
    /\ Ends(u)
    /\ UNCHANGED <<config, emailClaim, member, sessionVars>>

\* Of the logins of all other users only this reaches the session of u.
OtherLogin ==
    /\ kind = "adfs" /\ emailClaim' = "upn"
    /\ UNCHANGED <<config, member, pc, cur, asserted, sound, sessionVars>>

\* At the identity provider: membership changes, ID tokens and sessions run out.
MembershipChanges(u) ==
    /\ \E g \in SUBSET Groups : g # member[u] /\ member' = [member EXCEPT ![u] = g]
    /\ UNCHANGED <<config, emailClaim, newest, stored, pc, cur, asserted, sound, lost>>
IdTokenExpires(u) ==
    /\ pc[u] = "idle" /\ stored[u] # None /\ "valid" \in stored[u].id
    /\ stored' = [stored EXCEPT ![u].id = {"token"}]
    /\ UNCHANGED <<config, emailClaim, member, newest, pc, cur, asserted, sound, lost>>
SessionExpires(u) ==
    /\ pc[u] = "idle" /\ stored[u] # None /\ stored[u].expires = "future"
    /\ stored' = [stored EXCEPT ![u].expires = "past"]
    /\ UNCHANGED <<config, emailClaim, member, newest, pc, cur, asserted, sound, lost>>

Next ==
    \/ OtherLogin
    \/ \E u \in Users :
        \/ Redeem(u) \/ GetEmailAddress(u) \/ GetEmailAddressFails(u) \/ EnrichSession(u)
        \/ SignedIn(u) \/ LoginRefused(u) \/ SignInForm(u)
        \/ Load(u) \/ NotDue(u) \/ RefreshSkipped(u) \/ RefreshRefused(u) \/ RefreshSession(u)
        \/ SaveRefreshed(u) \/ SaveFails(u) \/ ValidateSession(u) \/ ValidateUnanswered(u)
        \/ Clear(u) \/ Bearer(u) \/ Grant(u) \/ Deny(u) \/ Respond(u)
        \/ MembershipChanges(u) \/ IdTokenExpires(u) \/ SessionExpires(u)

Spec == Init /\ [][Next]_vars

--------------------------------------------------------------------------------
\* Types; and a request that is under way has a session to work on.
TypeOK ==
    /\ config \in Config
    /\ emailClaim \in {"email", "upn"} /\ (emailClaim = "upn" => kind = "adfs")
    /\ member \in [Users -> SUBSET Groups]
    /\ newest \in [Users -> 0..MaxToken]
    /\ stored \in [Users -> Session \cup {None}]
    /\ pc \in [Users -> Labels]
    /\ cur \in [Users -> Session \cup {None}]
    /\ \A u \in Users : pc[u] = "idle" <=> cur[u] = None
    /\ asserted \in [Users -> {NoGroups} \cup (SUBSET Groups) \cup (SUBSET Tests)]
    /\ sound \in [Users -> BOOLEAN] /\ lost \in [Users -> BOOLEAN]

\* The newest refresh token of a session is in the store between two requests unless
\* it was lost by a failure after the provider had rotated it, or the answer held none
\* and the provider is Azure, whose refresh takes that for the new token.
NewestTokenStored ==
    \A u \in Users : pc[u] = "idle" /\ stored[u] # None =>
        \/ stored[u].refresh = newest[u]
        \/ lost[u]
        \/ /\ kind = "azure"
           /\ stored[u].refresh = 0

\* What a refresh may do to the identity in the store: nothing, for most providers.
\* GitLab's takes it away; OIDC and ADFS take what the new ID token says, and lose the
\* identity with a token that does not say; ADFS reads another claim of all tokens once
\* some login had none; Azure follows the claim where there is one.
Continues(s, t) ==
    \/ t.email = s.email
    \/ t.email = "" /\ kind = "gitlab"
    \/ t.email = "" /\ kind \in OidcLike /\ (emailClaim = "upn" \/ "email" \notin t.id)
    \/ t.email = "upn" /\ kind = "adfs" /\ emailClaim = "upn" /\ "upn" \in t.id
    \/ t.email = "email" /\ kind \in OidcLike \cup {"azure"} /\ "email" \in t.id
IdentityKept ==
    [][\A u \in Users : pc[u] = "refreshed" /\ stored'[u] # None /\ stored[u] # None
                        => Continues(stored[u], stored'[u])]_vars

\* Where groups are required and the provider named the user's groups in the course of
\* the request (a login, a Google refresh, an ID token with groups), the request is
\* granted only if an allowed one is among those: what was true before does not count.
\* Nobody signs in with GitHub or Bitbucket who fails the settings: GitHub asks for a
\* listed user or else, of organisation and repository, for the first there is; Bitbucket
\* for team and repository.  A team of no organisation, and the repository's token alone,
\* restrict nobody.
Admits(passed) ==
    IF kind = "bitbucket" THEN {"team", "repo"} \cap config.tests \subseteq passed
    ELSE \/ "users" \in passed
         \/ config.tests \cap {"users", "org", "repo"} = {}
         \/ "org" \in config.tests /\ (IF "team" \in config.tests THEN "team" ELSE "org") \in passed
         \/ /\ config.tests \cap {"org", "repo"} = {"repo"}
            /\ (IF "token" \in config.tests THEN "token" ELSE "repo") \in passed
MembershipCurrent ==
    \A u \in Users :
        pc[u] = "granted" /\ asserted[u] # NoGroups =>
            IF kind \in Tested THEN Admits(asserted[u])
            ELSE config.allowed # {} => asserted[u] \cap config.allowed # {}

\* Validation right after a refresh does not throw the session away when the answer
\* brought all it asks for.  With Google and Azure that is a lifetime, too: a session
\* refreshed by an answer without one has expired already.
SoundRefreshKept == \A u \in Users : pc[u] = "rejected" => ~sound[u]

\* GetClaim reads created_at and expires_on through pointers.  A session that was stored
\* or is granted has a time of expiry, but for one of the sign-in form; and a time of
\* creation, but for bearer tokens of an extra issuer or of a provider that is not OIDC.
Dated(s) == s.expires = "nil" => s.from = "form"
Undated(s) == s.from = "issuer" \/ (s.from = "bearer" /\ kind \notin OidcLike)
TimesSet ==
    \A u \in Users :
        /\ stored[u] # None => stored[u].created /\ Dated(stored[u])
        /\ pc[u] = "granted" => Dated(cur[u]) /\ (cur[u].created \/ Undated(cur[u]))
==============================================================================
