--------------------------- MODULE ProvidersProofs ---------------------------
(***************************************************************************)
(* What the providers do with the fields of a session keeps the invariants *)
(* of Providers, for any number of users and groups, any configurations    *)
(* and any number of refreshes.                                            *)
(***************************************************************************)
EXTENDS Providers, TLAPS

\* The refresh token of a session, for NewestTokenStored.
IsNewest(u, s) == s.refresh = newest[u] \/ lost[u] \/ (kind = "azure" /\ s.refresh = 0)

\* What is not refreshed yet is what is stored; what is refreshed has the newest token
\* and goes on from what is stored.
Refreshes(u) ==
    /\ pc[u] = "loaded" => cur[u] = stored[u]
    /\ stored[u] # None /\ pc[u] # "refreshed" => IsNewest(u, stored[u])
    /\ pc[u] = "refreshed" =>
          /\ stored[u] # None /\ IsNewest(u, cur[u])
          /\ Continues(stored[u], cur[u])
          /\ kind = "azure" => cur[u].email # ""
    /\ kind = "azure" /\ stored[u] # None /\ stored[u].refresh # 0 => stored[u].email # ""

\* Where a login begins: what the default redeem leaves to the profile requests.
Begins(u) ==
    /\ pc[u] = "idle" => asserted[u] = NoGroups
    /\ \/ pc[u] = "redeemed" /\ kind \in Tested
       \/ pc[u] = "mailed" /\ kind = "github"
       => asserted[u] = NoGroups
    /\ pc[u] \in {"redeemed", "mailed"} =>
          /\ kind = "github" => cur[u].email = ""
          /\ kind \in {"gitlab", "keycloak"} => cur[u].groups = NoGroups
    /\ pc[u] = "redeemed" /\ kind = "bitbucket" => cur[u].email = ""

\* What the provider named in this request is all that the session has; or it admits
\* whoever the tests found an address for.
Named(u) ==
    asserted[u] # NoGroups =>
        IF kind \in Tested
        THEN /\ pc[u] \in {"mailed", "enriched", "granted"}
             /\ pc[u] = "granted" \/ cur[u].email # "" => Admits(asserted[u])
        ELSE Listed(cur[u].groups) \subseteq asserted[u]

Validating(u) ==
    sound[u] =>
        /\ pc[u] \in {"refreshed", "validating", "unanswered", "accepted", "granted"}
        /\ ~Expired(cur[u])
        /\ IF ByIdToken THEN Checks \subseteq cur[u].id
           ELSE kind \in Refreshing /\ config.validateURL

HasTimes(u) ==
    /\ stored[u] # None => stored[u].created /\ Dated(stored[u])
    /\ cur[u] # None =>
          /\ Dated(cur[u])
          /\ cur[u].created \/ (Undated(cur[u]) /\ pc[u] \in {"accepted", "granted"})

Granted(u) == pc[u] = "granted" => Authorized(cur[u])

IInv(u) ==
    Refreshes(u) /\ Begins(u) /\ Named(u) /\ Granted(u) /\ Validating(u) /\ HasTimes(u)
Inv == TypeOK /\ \A u \in Users : IInv(u)

--------------------------------------------------------------------------------
LEMMA Distinct ==
    /\ MaxToken \in Nat \ {0} /\ 0 \in 0..MaxToken /\ None \notin Session
    /\ \A gs \in SUBSET Groups : NoGroups # gs
BY ProvidersAssumption

LEMMA KindTyped ==
    ASSUME TypeOK
    PROVE  config \in Config /\ kind \in Kinds
BY DEF TypeOK, Config, kind

LEMMA TokenTyped ==
    ASSUME TypeOK, NEW id \in IdTokens(kind)
    PROVE  id \in SUBSET Features /\ (kind # "oidc" => "groups" \notin id)
<1>1. PICK f \in SUBSET ReadBy(kind) : id = {} \/ id = {"token"} \cup f
  BY DEF IdTokens, Found
<1>2. ReadBy(kind) \subseteq Features
  BY KindTyped DEF Features
<1>3. kind # "oidc" => "groups" \notin ReadBy(kind)
  BY DEF ReadBy
<1>4. QED
  BY <1>1, <1>2, <1>3 DEF Features

LEMMA BlankTyped == Blank \in Session
<1>1. 0 \in 0..MaxToken
  BY Distinct
<1>2. QED
  BY <1>1 DEF Blank, Session, Emails, Expiries

\* What a session has of the claims of an ID token.
HasClaims(s, id, claim, truth) ==
    /\ claim \in id => s.email = claim
    /\ claim \notin id => s.email = ""
    /\ "groups" \in id => s.groups = truth
    /\ "groups" \notin id => s.groups = NoGroups

LEMMA Claimed ==
    ASSUME NEW id, NEW claim \in {"email", "upn"}, NEW checked, NEW truth \in SUBSET Groups,
           NEW s \in BuildSession(id, claim, checked, truth)
    PROVE  s \in Session /\ s.from = "code" /\ HasClaims(s, id, claim, truth)
<1>1. EmailIn(id, claim) \in Emails /\ GroupsIn(id, truth) \in {NoGroups} \cup SUBSET Groups
  BY DEF EmailIn, GroupsIn, Emails
<1>2. CASE id = {}
  <2>1. s = Blank
    BY <1>2 DEF BuildSession
  <2>2. QED
    BY <1>2, <2>1, BlankTyped DEF Blank, HasClaims
<1>3. CASE id # {}
  <2>1. s = [Blank EXCEPT !.email = EmailIn(id, claim), !.groups = GroupsIn(id, truth)]
    BY <1>3 DEF BuildSession
  <2>2. s \in Session
    BY <1>1, <2>1, BlankTyped DEF Session
  <2>3. QED
    BY <1>3, <2>1, <2>2 DEF Blank, EmailIn, GroupsIn, HasClaims
<1>4. QED
  BY <1>2, <1>3

\* What a new session has of the token endpoint's answer.
HasTokens(s, id, token) ==
    s.refresh = token /\ s.id = id /\ s.created = TRUE /\ s.expires \in {"zero", "future"}
Unnamed(s) == s.email = "" /\ s.groups = NoGroups

LEMMA OidcNew ==
    ASSUME NEW a, a.id \in SUBSET Features, NEW token \in 0..MaxToken,
           NEW claim \in {"email", "upn"}, NEW checked, NEW truth \in SUBSET Groups,
           NEW optional, NEW s \in OidcSession(a, token, claim, checked, truth, optional)
    PROVE  s \in Session /\ HasTokens(s, a.id, token) /\ HasClaims(s, a.id, claim, truth)
<1>1. PICK b \in BuildSession(a.id, claim, checked, truth) :
        s = [b EXCEPT !.refresh = token, !.id = a.id, !.created = TRUE,
                      !.expires = LibraryExpiry(a)]
  BY DEF OidcSession
<1>e. LibraryExpiry(a) \in {"zero", "future"}
  BY DEF LibraryExpiry
<1>2. b \in Session /\ b.from = "code" /\ HasClaims(b, a.id, claim, truth)
  BY <1>1, Claimed
<1>3. s \in Session
  BY <1>1, <1>2, <1>e DEF Session, Expiries
<1>4. /\ s.refresh = token /\ s.id = a.id /\ s.created = TRUE
      /\ s.expires \in {"zero", "future"}
      /\ s.email = b.email /\ s.groups = b.groups
  BY <1>1, <1>2, <1>e DEF Session
<1>5. QED
  BY <1>2, <1>3, <1>4 DEF HasClaims, HasTokens

LEMMA GitLabNew ==
    ASSUME NEW a, a.id \in SUBSET Features, NEW token \in 0..MaxToken,
           NEW s \in GitLabSession(a, token)
    PROVE  s \in Session /\ HasTokens(s, a.id, token) /\ Unnamed(s)
<1>1. s = [Blank EXCEPT !.refresh = token, !.id = a.id, !.created = TRUE,
                        !.expires = "future"]
  BY DEF GitLabSession
<1>2. s \in Session
  BY <1>1, BlankTyped DEF Session, Expiries
<1>3. QED
  BY <1>1, <1>2 DEF Blank, HasTokens, Unnamed

\* Redeem: a login starts with no more than the provider's tokens say.
Started(s) ==
    /\ kind \in Tested => s.email = "" /\ s.groups = NoGroups
    /\ kind \in {"gitlab", "keycloak"} => s.groups = NoGroups

LEMMA RedeemedSession ==
    ASSUME TypeOK, NEW a \in TokenAnswer(kind), NEW checked, NEW truth \in SUBSET Groups,
           NEW s \in Redeemed(a, emailClaim, checked, truth)
    PROVE  s \in Session /\ Started(s)
<1>1. a.id \in SUBSET Features /\ emailClaim \in {"email", "upn"}
  BY TokenTyped DEF TokenAnswer, TypeOK
<1> DEFINE token == IF a.refresh THEN 1 ELSE 0
<1>2. token \in 0..MaxToken
  BY Distinct
<1> HIDE DEF token
<1>3. CASE kind \in OidcLike
  <2>1. s \in OidcSession(a, token, emailClaim, checked, truth, FALSE)
    <3>1. s \in OidcRedeemed(a, emailClaim, checked, truth)
      BY <1>3 DEF Redeemed, OidcLike
    <3>2. QED
      BY <3>1 DEF OidcRedeemed, token
  <2>2. s \in Session
    BY <1>1, <1>2, <2>1, OidcNew
  <2>3. kind \notin Tested /\ kind \notin {"gitlab", "keycloak"}
    BY <1>3 DEF OidcLike, Tested
  <2>4. QED
    BY <2>2, <2>3 DEF Started
<1>4. CASE kind = "gitlab"
  <2>1. s \in GitLabSession(a, token)
    BY <1>4 DEF Redeemed, GitLabRedeemed, OidcLike, token
  <2>2. QED
    <3>1. s \in Session /\ Unnamed(s)
      BY <1>1, <1>2, <2>1, GitLabNew
    <3>2. QED
      BY <1>4, <3>1 DEF Started, Tested, Unnamed
<1>5. CASE kind \in {"google", "azure", "login.gov"}
  <2>1. TokensOf(a) \in Session
    <3>1. TokensOf(a) = [Blank EXCEPT !.refresh = token, !.id = a.id,
                                      !.created = TRUE, !.expires = OwnExpiry(a)]
      BY DEF TokensOf, token
    <3>2. OwnExpiry(a) \in Expiries
      BY DEF OwnExpiry, Expiries
    <3>3. QED
      BY <1>1, <1>2, <3>1, <3>2, BlankTyped DEF Session
  <2>2. AzureEmail(a, "") \in Emails /\ "email" \in Emails /\ 0 \in 0..MaxToken
    BY Distinct DEF AzureEmail, Emails
  <2>3. \/ s = [TokensOf(a) EXCEPT !.email = "email"]
        \/ s = [TokensOf(a) EXCEPT !.email = AzureEmail(a, "")]
        \/ s = [TokensOf(a) EXCEPT !.refresh = 0, !.email = "email"]
    BY <1>5 DEF Redeemed, GoogleRedeemed, AzureRedeemed, LoginGovRedeemed, OidcLike
  <2>4. s \in Session
    BY <2>1, <2>2, <2>3 DEF Session
  <2>5. QED
    BY <1>5, <2>4 DEF Started, Tested
<1>6. CASE kind \in DefaultRedeem
  <2>1. PICK c \in BOOLEAN : s = [Blank EXCEPT !.created = c]
    BY <1>6 DEF Redeemed, DefaultRedeemed, DefaultRedeem, EmailApis, OidcLike
  <2>2. s \in Session
    BY <2>1, BlankTyped DEF Session
  <2>3. s.email = "" /\ s.groups = NoGroups
    BY <2>1 DEF Blank
  <2>4. QED
    BY <2>2, <2>3 DEF Started
<1>7. QED
  BY <1>3, <1>4, <1>5, <1>6, KindTyped DEF Kinds, Refreshing, OidcLike

LEMMA TimedSession ==
    ASSUME NEW s \in Session
    PROVE  /\ Timed(s) \in Session /\ Timed(s).created /\ Dated(Timed(s))
           /\ Timed(s).email = s.email /\ Timed(s).groups = s.groups
BY DEF Timed, Session, Expiries, Dated

--------------------------------------------------------------------------------
\* EnrichSession leaves the tokens alone, and adds no groups but those it was told.
KeepsTokens(s, t) ==
    /\ t.from = s.from /\ t.refresh = s.refresh /\ t.id = s.id
    /\ t.created = s.created /\ t.expires = s.expires
AddsGroups(s, t, p) ==
    IF kind = "google" /\ config.restricted THEN t.groups = Listed(p.groups)
    ELSE \/ t.groups = s.groups
         \/ /\ kind \in {"oidc", "gitlab", "keycloak"}
            /\ kind = "oidc" => Listed(s.groups) = {}
            /\ t.groups = Appended(s.groups, Listed(p.groups))

LEMMA GroupsAppended ==
    ASSUME NEW groups \in {NoGroups} \cup SUBSET Groups, NEW more \in {NoGroups} \cup SUBSET Groups
    PROVE  /\ Listed(groups) \in SUBSET Groups
           /\ Appended(groups, Listed(more)) \in {NoGroups} \cup SUBSET Groups
           /\ Listed(groups) = {} => Listed(Appended(groups, Listed(more))) = Listed(more)
BY Distinct DEF Listed, Appended

LEMMA WithEmail ==
    ASSUME NEW s \in Session, NEW e \in Emails, NEW t, t = [s EXCEPT !.email = e]
    PROVE  t \in Session /\ KeepsTokens(s, t) /\ t.email = e /\ t.groups = s.groups
BY DEF Session, KeepsTokens

LEMMA WithGroups ==
    ASSUME NEW s \in Session, NEW g \in {NoGroups} \cup SUBSET Groups,
           NEW t, t = [s EXCEPT !.groups = g]
    PROVE  t \in Session /\ KeepsTokens(s, t) /\ t.email = s.email /\ t.groups = g
BY DEF Session, KeepsTokens

With(s, e, g) == [s EXCEPT !.email = e, !.groups = g]
LEMMA WithBoth ==
    ASSUME NEW s \in Session, NEW e \in Emails, NEW g \in {NoGroups} \cup SUBSET Groups
    PROVE  With(s, e, g) \in Session /\ KeepsTokens(s, With(s, e, g))
           /\ With(s, e, g).email = e /\ With(s, e, g).groups = g
BY DEF Session, KeepsTokens, With

LEMMA EnrichedSession ==
    ASSUME TypeOK, NEW s \in Session, NEW p \in ApiAnswer, NEW passed,
           NEW t \in Enriched(s, p, passed)
    PROVE  /\ t \in Session /\ KeepsTokens(s, t) /\ AddsGroups(s, t, p)
           /\ kind = "bitbucket" => t = s
           /\ kind = "github" /\ s.email = "" /\ t.email # "" => Admits(passed)
<1>1. /\ s.email \in Emails /\ emailClaim \in Emails /\ "email" \in Emails
      /\ "upn" \in Emails /\ "" \in Emails
      /\ s.groups \in {NoGroups} \cup SUBSET Groups
      /\ p.groups \in {NoGroups} \cup SUBSET Groups
  BY DEF TypeOK, Session, ApiAnswer, Emails
<1>2. /\ Listed(p.groups) \in {NoGroups} \cup SUBSET Groups
      /\ Appended(s.groups, Listed(p.groups)) \in {NoGroups} \cup SUBSET Groups
  BY <1>1, GroupsAppended
<1>3. KeepsTokens(s, s)
  BY DEF KeepsTokens
<1>4. CASE t = s /\ kind # "google"
  BY <1>3, <1>4 DEF AddsGroups
<1>5. CASE kind = "oidc" /\ t # s
  <2>1. PICK e \in Emails, g \in {NoGroups} \cup SUBSET Groups :
          /\ t = With(s, e, g)
          /\ g = s.groups \/ (Listed(s.groups) = {} /\ g = Appended(s.groups, Listed(p.groups)))
    BY <1>1, <1>2, <1>5 DEF Enriched, OidcEnriched, With
  <2>2. t \in Session /\ KeepsTokens(s, t) /\ t.groups = g
    BY <2>1, WithBoth
  <2>3. QED
    BY <1>5, <2>1, <2>2 DEF AddsGroups
<1>6. CASE kind = "adfs" /\ t # s
  <2>1. t = [s EXCEPT !.email = "upn"]
    BY <1>6 DEF Enriched, AdfsEnriched
  <2>2. QED
    BY <1>1, <1>6, <2>1, WithEmail DEF AddsGroups
<1>7. CASE kind = "google"
  <2>1. t = IF config.restricted THEN [s EXCEPT !.groups = Listed(p.groups)] ELSE s
    BY <1>7 DEF Enriched, GroupsAsked
  <2>2. QED
    BY <1>2, <1>3, <1>7, <2>1, WithGroups DEF AddsGroups
<1>8. CASE kind \in {"gitlab", "keycloak"} /\ t # s
  <2>1. PICK e \in Emails :
          t = With(s, e, Appended(s.groups, Listed(p.groups)))
    BY <1>1, <1>8 DEF Enriched, GitLabEnriched, KeycloakEnriched, With
  <2>2. /\ t \in Session /\ KeepsTokens(s, t)
        /\ t.groups = Appended(s.groups, Listed(p.groups))
    BY <1>2, <2>1, WithBoth
  <2>3. QED
    BY <1>8, <2>2 DEF AddsGroups
<1>9. CASE kind = "azure" /\ t # s
  <2>1. PICK e \in Emails : t = [s EXCEPT !.email = e]
    BY <1>1, <1>9 DEF Enriched, AzureEnriched
  <2>2. QED
    BY <1>9, <2>1, WithEmail DEF AddsGroups
<1>10. CASE kind = "github"
  <2>1. t \in GitHubEnriched(s, p, passed)
    BY <1>10 DEF Enriched
  <2>2. PICK e \in Emails :
          /\ t = [s EXCEPT !.email = e]
          /\ e = s.email \/ ListedUser(passed) \/ EmailTested(passed)
    BY <1>1, <2>1 DEF GitHubEnriched
  <2>3. ~UserMissing(passed) /\ (ListedUser(passed) \/ UserTested(passed))
    BY <2>1 DEF GitHubEnriched
  <2>4. ListedUser(passed) \/ EmailTested(passed) => Admits(passed)
    BY <1>10, <2>3
       DEF Admits, ListedUser, EmailTested, OrgPassed, UserTested, UserMissing
  <2>5. QED
    BY <1>10, <2>2, <2>4, WithEmail DEF AddsGroups
<1>11. CASE kind \notin {"oidc", "adfs", "google", "gitlab", "azure", "github", "keycloak"}
  <2>1. t = s /\ kind # "google" /\ kind # "github"
    BY <1>11 DEF Enriched
  <2>2. QED
    BY <1>3, <2>1 DEF AddsGroups
<1>12. QED
  BY <1>4, <1>5, <1>6, <1>7, <1>8, <1>9, <1>10, <1>11

\* What the provider named is what the session has of groups, unless it named none.
LEMMA GroupsNamed ==
    ASSUME TypeOK, NEW s \in Session, NEW t \in Session, NEW p \in ApiAnswer, NEW passed,
           AddsGroups(s, t, p), kind # "github",
           kind \in {"gitlab", "keycloak"} => s.groups = NoGroups
    PROVE  \/ NamedBy(s, t, p, passed) = NoGroups /\ t.groups = s.groups
           \/ /\ NamedBy(s, t, p, passed) \in SUBSET Groups
              /\ Listed(t.groups) \subseteq NamedBy(s, t, p, passed)
<1>1. /\ s.groups \in {NoGroups} \cup SUBSET Groups
      /\ p.groups \in {NoGroups} \cup SUBSET Groups
  BY DEF Session, ApiAnswer
<1>2. Listed(p.groups) \in SUBSET Groups /\ Listed(NoGroups) = {}
  BY <1>1, Distinct DEF Listed
<1>3. CASE t.groups = s.groups /\ ~(kind = "google" /\ config.restricted)
  BY <1>3 DEF NamedBy
<1>4. CASE kind = "google" /\ config.restricted
  <2>1. NamedBy(s, t, p, passed) = Listed(p.groups)
    BY <1>4 DEF NamedBy
  <2>2. t.groups = Listed(p.groups) /\ Listed(t.groups) = Listed(p.groups)
    BY <1>2, <1>4, Distinct DEF AddsGroups, Listed
  <2>3. QED
    BY <1>2, <2>1, <2>2
<1>5. CASE t.groups # s.groups /\ ~(kind = "google" /\ config.restricted)
  <2>1. NamedBy(s, t, p, passed) = Listed(p.groups)
    BY <1>5 DEF NamedBy
  <2>2. t.groups = Appended(s.groups, Listed(p.groups)) /\ Listed(s.groups) = {}
    BY <1>2, <1>5 DEF AddsGroups
  <2>3. Listed(t.groups) = Listed(p.groups)
    BY <1>1, <2>2, GroupsAppended
  <2>4. QED
    BY <1>2, <2>1, <2>3
<1>6. QED
  BY <1>3, <1>4, <1>5

\* RefreshSession: the newest refresh token, an identity that follows the one before,
\* groups and an ID token as answered.
Renewed(s, r, a, token, truth, got) ==
    /\ r.s \in Session /\ r.ok \in BOOLEAN
    /\ s.created /\ Dated(s) => r.s.created /\ Dated(r.s)
    /\ r.ok /\ (kind \in {"google", "azure"} => a.lifetime) => ~Expired(r.s)
    /\ Continues(s, r.s)
    /\ kind = "azure" => r.s.email # ""
    /\ r.ok => r.s.refresh = token \/ (kind = "azure" /\ r.s.refresh = 0)
    /\ r.ok /\ ByIdToken /\ Checks \subseteq a.id => Checks \subseteq r.s.id
    /\ kind = "google" /\ config.restricted => r.s.groups = got
    /\ kind = "oidc" /\ r.ok /\ "groups" \in a.id => r.s.groups = truth

LEMMA OidcRenewed ==
    ASSUME TypeOK, kind \in OidcLike, NEW s \in Session, NEW a, a.id \in SUBSET Features,
           NEW token \in 0..MaxToken, NEW checked, NEW truth \in SUBSET Groups, NEW got,
           NEW r \in OidcRefreshed(s, a, token, checked, truth)
    PROVE  Renewed(s, r, a, token, truth, got)
<1>1. PICK n \in OidcSession(a, token, emailClaim, checked, truth, TRUE) :
        r = [ok |-> TRUE,
             s  |-> [s EXCEPT !.refresh = n.refresh, !.created = TRUE, !.expires = n.expires,
                              !.id = IF n.id # {} THEN n.id ELSE s.id,
                              !.email = IF n.id # {} THEN n.email ELSE s.email,
                              !.groups = IF n.id # {} THEN n.groups ELSE s.groups]]
  BY DEF OidcRefreshed
<1>2. n \in Session /\ HasTokens(n, a.id, token) /\ HasClaims(n, a.id, emailClaim, truth)
  BY <1>1, OidcNew DEF TypeOK
<1>3. r.ok = TRUE /\ r.s \in Session
  BY <1>1, <1>2 DEF Session
<1>4. r.s.refresh = token /\ r.s.created = TRUE /\ Dated(r.s) /\ ~Expired(r.s)
  <2>1. r.s.refresh = n.refresh /\ r.s.created = TRUE /\ r.s.expires = n.expires
    BY <1>1 DEF Session
  <2>2. QED
    BY <1>2, <2>1 DEF HasTokens, Dated, Expired
<1>5. CASE a.id = {}
  <2>1. r.s.id = s.id /\ r.s.email = s.email
    BY <1>1, <1>2, <1>5 DEF Session, HasTokens
  <2>2. "valid" \in Checks /\ Checks # {}
    BY DEF Checks
  <2>3. kind \notin {"azure", "google"}
    BY DEF OidcLike
  <2>4. QED
    BY <1>3, <1>4, <1>5, <2>1, <2>2, <2>3 DEF Renewed, Continues
<1>6. CASE a.id # {}
  <2>1. r.s.id = a.id /\ r.s.email = n.email /\ r.s.groups = n.groups
    BY <1>1, <1>2, <1>6 DEF Session, HasTokens
  <2>2. Continues(s, r.s)
    BY <1>2, <2>1 DEF Continues, HasClaims, TypeOK, OidcLike
  <2>3. kind \notin {"azure", "google"}
    BY DEF OidcLike
  <2>4. "groups" \in a.id => r.s.groups = truth
    BY <1>2, <2>1 DEF HasClaims
  <2>5. QED
    BY <1>3, <1>4, <2>1, <2>2, <2>3, <2>4 DEF Renewed
<1>7. QED
  BY <1>5, <1>6

LEMMA GitLabRenewed ==
    ASSUME TypeOK, kind = "gitlab", NEW s \in Session, NEW a, a.id \in SUBSET Features,
           NEW token \in 0..MaxToken, NEW truth, NEW got, NEW r \in GitLabRefreshed(a, token)
    PROVE  Renewed(s, r, a, token, truth, got)
<1>1. PICK n \in GitLabSession(a, token) : r = [ok |-> TRUE, s |-> n]
  BY DEF GitLabRefreshed
<1>2. n \in Session /\ HasTokens(n, a.id, token) /\ Unnamed(n)
  BY <1>1, GitLabNew
<1>3. r.ok = TRUE /\ r.s = n
  BY <1>1
<1>4. Continues(s, r.s)
  BY <1>2, <1>3 DEF Continues, Unnamed
<1>5. QED
  BY <1>2, <1>3, <1>4 DEF Renewed, HasTokens, Dated, Expired

LEMMA GoogleRenewed ==
    ASSUME TypeOK, kind = "google", NEW s \in Session, NEW a, a.id \in SUBSET Features,
           NEW truth, NEW got \in SUBSET Groups, NEW r \in GoogleRefreshed(s, a, got)
    PROVE  Renewed(s, r, a, s.refresh, truth, got)
<1> DEFINE x == OwnExpiry(a)
           b == [s EXCEPT !.id = a.id, !.created = TRUE, !.expires = x]
           t == GroupsAsked(b, got)
<1>x. x \in Expiries /\ x # "nil" /\ (a.lifetime => x # "past")
  BY DEF OwnExpiry, Expiries
<1> HIDE DEF x
<1>1. b \in Session /\ b.email = s.email /\ b.refresh = s.refresh
      /\ b.created = TRUE /\ b.expires = x
  BY <1>x DEF Session
<1>2. t \in Session /\ t.email = s.email /\ t.refresh = s.refresh
      /\ t.created = TRUE /\ t.expires = x /\ (config.restricted => t.groups = got)
  <2>1. CASE config.restricted
    <3>1. t = [b EXCEPT !.groups = got]
      BY <2>1 DEF GroupsAsked
    <3> HIDE DEF b, t
    <3>2. QED
      BY <1>1, <2>1, <3>1 DEF Session
  <2>2. CASE ~config.restricted
    <3>1. t = b
      BY <2>2 DEF GroupsAsked
    <3>2. QED
      BY <1>1, <2>2, <3>1
  <2>3. QED
    BY <2>1, <2>2
<1>3. r = [ok |-> config.restricted => t.groups # {}, s |-> t]
  BY DEF GoogleRefreshed, x
<1> HIDE DEF b, t
<1>4. r.s = t /\ r.ok \in BOOLEAN
  BY <1>3
<1>5. Continues(s, t) /\ ~ByIdToken /\ kind \notin {"oidc", "azure"}
  BY <1>2 DEF Continues, ByIdToken, OidcLike
<1>6. Dated(t) /\ (a.lifetime => ~Expired(t))
  BY <1>x, <1>2 DEF Dated, Expired
<1>7. QED
  BY <1>2, <1>4, <1>5, <1>6 DEF Renewed

LEMMA AzureRenewed ==
    ASSUME TypeOK, kind = "azure", NEW s \in Session, s.email # "",
           NEW a, a.id \in SUBSET Features, NEW token \in 0..MaxToken, NEW truth, NEW got,
           NEW r \in AzureRefreshed(s, a, token)
    PROVE  Renewed(s, r, a, token, truth, got)
<1> DEFINE n == IF a.refresh THEN token ELSE 0
           e == AzureEmail(a, s.email)
           x == OwnExpiry(a)
           t == [s EXCEPT !.refresh = n, !.id = a.id, !.created = TRUE, !.expires = x,
                          !.email = e]
<1>x. x \in Expiries /\ x # "nil" /\ (a.lifetime => x # "past")
  BY DEF OwnExpiry, Expiries
<1>1. r = [ok |-> TRUE, s |-> t]
  BY DEF AzureRefreshed
<1>2. n \in 0..MaxToken /\ (n = 0 \/ n = token)
  <2>1. n = 0 \/ n = token
    OBVIOUS
  <2>2. QED
    BY <2>1, Distinct
<1>3. e \in Emails /\ e # "" /\ (e = s.email \/ (e = "email" /\ "email" \in a.id))
  <2>1. s.email \in Emails
    BY DEF Session
  <2>2. e = s.email \/ (e = "email" /\ "email" \in a.id)
    BY DEF AzureEmail
  <2>3. QED
    BY <2>1, <2>2 DEF Emails
<1> HIDE DEF n, e, x
<1>4. t \in Session /\ t.email = e /\ t.refresh = n /\ t.id = a.id
      /\ t.created = TRUE /\ t.expires = x
  BY <1>x, <1>2, <1>3 DEF Session
<1>5. r.s = t /\ r.ok = TRUE
  BY <1>1
<1> HIDE DEF t
<1>6. Continues(s, t) /\ ~ByIdToken /\ kind \notin {"oidc", "google"}
  BY <1>3, <1>4 DEF Continues, ByIdToken, OidcLike
<1>7. Dated(t) /\ (a.lifetime => ~Expired(t))
  BY <1>x, <1>4 DEF Dated, Expired
<1>8. QED
  BY <1>2, <1>3, <1>4, <1>5, <1>6, <1>7 DEF Renewed

LEMMA RefreshedSession ==
    ASSUME TypeOK, kind \in Refreshing, NEW s \in Session, NEW a \in TokenAnswer(kind),
           NEW token \in 0..MaxToken, NEW checked, NEW truth \in SUBSET Groups,
           NEW got \in SUBSET Groups,
           kind = "google" => token = s.refresh, kind = "azure" => s.email # "",
           NEW r \in Refreshed(s, a, token, checked, truth, got)
    PROVE  Renewed(s, r, a, token, truth, got)
<1>1. a.id \in SUBSET Features
  BY TokenTyped DEF TokenAnswer
<1>2. CASE r = [ok |-> FALSE, s |-> s] /\ kind # "google"
  <2>1. r.ok = FALSE /\ r.s = s
    BY <1>2
  <2>2. Continues(s, s)
    BY DEF Continues
  <2>3. QED
    BY <1>2, <2>1, <2>2 DEF Renewed
<1>3. CASE kind \in OidcLike
  <2>1. r \in OidcRefreshed(s, a, token, checked, truth) \/ r = [ok |-> FALSE, s |-> s]
    BY <1>3 DEF Refreshed, OidcLike
  <2>2. kind # "google"
    BY <1>3 DEF OidcLike
  <2>3. QED
    BY <1>1, <1>2, <1>3, <2>1, <2>2, OidcRenewed
<1>4. CASE kind = "gitlab"
  <2>1. r \in GitLabRefreshed(a, token) \/ r = [ok |-> FALSE, s |-> s]
    BY <1>4 DEF Refreshed, OidcLike
  <2>2. kind # "google"
    BY <1>4
  <2>3. QED
    BY <1>1, <1>2, <1>4, <2>1, <2>2, GitLabRenewed
<1>5. CASE kind = "google"
  <2>1. r \in GoogleRefreshed(s, a, got)
    BY <1>5 DEF Refreshed, OidcLike, GoogleRefreshed
  <2>2. Renewed(s, r, a, s.refresh, truth, got)
    BY <1>1, <1>5, <2>1, GoogleRenewed
  <2>3. QED
    BY <1>5, <2>2
<1>6. CASE kind = "azure"
  <2>1. r \in AzureRefreshed(s, a, token)
    BY <1>6 DEF Refreshed, OidcLike, AzureRefreshed
  <2>2. QED
    BY <1>1, <1>6, <2>1, AzureRenewed
<1>7. QED
  BY <1>3, <1>4, <1>5, <1>6 DEF Refreshing

\* CreateSessionFromToken: groups only of the token, and no time of creation but OIDC's.
Carried(s) ==
    /\ Dated(s)
    /\ s.created = TRUE \/ Undated(s)
    /\ kind \in Tested => s.groups = NoGroups

LEMMA BearerSession ==
    ASSUME TypeOK, NEW id \in IdTokens(kind), NEW checked, NEW truth \in SUBSET Groups,
           NEW s \in BearerSessions(id, checked, truth)
    PROVE  s \in Session /\ Carried(s)
<1>1. id \in SUBSET Features
  BY TokenTyped
<1>2. CASE s \in OwnSessions(id, checked, truth) /\ kind \in OidcLike
  <2>1. PICK b \in BuildSession(id, emailClaim, checked, truth) :
          s = [b EXCEPT !.from = "bearer", !.id = id, !.created = TRUE, !.expires = "future",
                        !.email = IF @ = "" THEN "sub" ELSE @]
    BY <1>2 DEF OwnSessions, OidcBearer
  <2>2. b \in Session
    BY <2>1, Claimed DEF TypeOK
  <2>3. (IF b.email = "" THEN "sub" ELSE b.email) \in Emails
    BY <2>2 DEF Session, Emails
  <2>4. s \in Session /\ s.expires = "future" /\ s.created = TRUE
    BY <1>1, <2>1, <2>2, <2>3 DEF Session, Expiries
  <2>5. kind \notin Tested
    BY <1>2 DEF OidcLike, Tested
  <2>6. QED
    BY <2>4, <2>5 DEF Carried, Dated
<1>3. CASE s \in OwnSessions(id, checked, truth) /\ kind \notin OidcLike
  <2> DEFINE e == IF "email" \in id THEN "email" ELSE "sub"
  <2>1. s = [Blank EXCEPT !.from = "bearer", !.id = id, !.expires = "future", !.email = e]
    BY <1>3 DEF OwnSessions, DefaultBearer
  <2>2. e \in Emails
    BY DEF Emails
  <2> HIDE DEF e
  <2>3. s \in Session
    BY <1>1, <2>1, <2>2, BlankTyped DEF Session, Expiries
  <2>4. s.expires = "future" /\ s.from = "bearer" /\ s.groups = NoGroups
    BY <2>1 DEF Blank
  <2>5. QED
    BY <1>3, <2>3, <2>4 DEF Carried, Dated, Undated
<1>4. CASE s \in IssuerSessions
  <2>1. PICK e \in {"email", "sub"} :
          s = [Blank EXCEPT !.from = "issuer", !.id = {"token"}, !.expires = "future",
                            !.email = e]
    BY <1>4 DEF IssuerSessions
  <2>2. {"token"} \in SUBSET Features /\ e \in Emails
    BY DEF Features, Emails
  <2>3. s \in Session
    BY <2>1, <2>2, BlankTyped DEF Session, Expiries
  <2>4. s.expires = "future" /\ s.from = "issuer" /\ s.groups = NoGroups
    BY <2>1 DEF Blank
  <2>5. QED
    BY <2>3, <2>4 DEF Carried, Dated, Undated
<1>5. QED
  BY <1>2, <1>3, <1>4 DEF BearerSessions

--------------------------------------------------------------------------------
Step(u) ==
    \/ Redeem(u) \/ GetEmailAddress(u) \/ GetEmailAddressFails(u) \/ EnrichSession(u)
    \/ SignedIn(u) \/ LoginRefused(u) \/ SignInForm(u)
    \/ Load(u) \/ NotDue(u) \/ RefreshSkipped(u) \/ RefreshRefused(u) \/ RefreshSession(u)
    \/ SaveRefreshed(u) \/ SaveFails(u) \/ ValidateSession(u) \/ ValidateUnanswered(u)
    \/ Clear(u) \/ Bearer(u) \/ Grant(u) \/ Deny(u) \/ Respond(u)
    \/ MembershipChanges(u) \/ IdTokenExpires(u) \/ SessionExpires(u)

LEMMA Steps ==
    ASSUME [Next]_vars
    PROVE  OtherLogin \/ (\E u \in Users : Step(u)) \/ UNCHANGED vars
BY DEF Next, Step

\* A session in hand: requests that are under way have one.
LEMMA InHand ==
    ASSUME TypeOK, NEW u \in Users, pc[u] # "idle"
    PROVE  cur[u] \in Session /\ cur[u] # None
BY Distinct DEF TypeOK

\* Other users share only the provider object with u.
Same(q) ==
    /\ pc'[q] = pc[q] /\ cur'[q] = cur[q] /\ stored'[q] = stored[q] /\ newest'[q] = newest[q]
    /\ asserted'[q] = asserted[q] /\ sound'[q] = sound[q] /\ lost'[q] = lost[q]
Settled ==
    /\ config' = config
    /\ emailClaim' \in {emailClaim, "upn"}
    /\ emailClaim' # emailClaim => kind = "adfs"

LEMMA Elsewhere ==
    ASSUME TypeOK, NEW u \in Users, Step(u)
    PROVE  Settled /\ \A q \in Users \ {u} : Same(q)
<1> USE DEF Goes, Holds, Names, Ends, Store, sessionVars
<1>1. CASE Redeem(u) \/ GetEmailAddress(u) \/ GetEmailAddressFails(u)
  BY <1>1 DEF Redeem, GetEmailAddress, GetEmailAddressFails, Settled, Same, TypeOK
<1>2. CASE EnrichSession(u)
  <2>1. Settled
    BY <1>2 DEF EnrichSession, EmailClaimAfter, MovesClaim, Settled
  <2>2. \A q \in Users \ {u} : Same(q)
    BY <1>2 DEF EnrichSession, Same, TypeOK
  <2>3. QED
    BY <2>1, <2>2
<1>3. CASE SignedIn(u) \/ LoginRefused(u) \/ Load(u) \/ NotDue(u) \/ RefreshSkipped(u)
  BY <1>3 DEF SignedIn, LoginRefused, Load, NotDue, RefreshSkipped, Settled, Same, TypeOK
<1>4. CASE RefreshRefused(u) \/ RefreshSession(u)
  BY <1>4 DEF RefreshRefused, RefreshSession, Settled, Same, TypeOK
<1>5. CASE SaveRefreshed(u) \/ SaveFails(u) \/ ValidateSession(u) \/ ValidateUnanswered(u)
  BY <1>5 DEF SaveRefreshed, SaveFails, ValidateSession, ValidateUnanswered, Settled, Same, TypeOK
<1>6. CASE Clear(u) \/ Bearer(u) \/ Grant(u) \/ Deny(u) \/ Respond(u)
  BY <1>6 DEF Clear, Bearer, Grant, Deny, Respond, Settled, Same, TypeOK
<1>7. CASE MembershipChanges(u) \/ IdTokenExpires(u) \/ SessionExpires(u) \/ SignInForm(u)
  BY <1>7 DEF MembershipChanges, IdTokenExpires, SessionExpires, SignInForm, Settled, Same, TypeOK
<1>8. QED
  BY <1>1, <1>2, <1>3, <1>4, <1>5, <1>6, <1>7 DEF Step

\* What others do at most is to have another claim read.
LEMMA Undisturbed ==
    ASSUME Settled, NEW q \in Users, IInv(q), Same(q)
    PROVE  IInv(q)'
<1> USE DEF IInv, Same
<1>1. config' = config /\ (emailClaim' = emailClaim \/ emailClaim' = "upn")
  BY DEF Settled
<1>2. kind' = kind /\ ByIdToken' = ByIdToken /\ Checks' = Checks
  BY <1>1 DEF kind, ByIdToken, Checks
<1>3. \A s, t : Continues(s, t) => Continues(s, t)'
  BY <1>1, <1>2 DEF Continues
<1>4. \A s : IsNewest(q, s) => IsNewest(q, s)'
  BY <1>2 DEF IsNewest
<1>5. Refreshes(q)'
  <2>1. Refreshes(q)
    OBVIOUS
  <2>2. pc'[q] = "refreshed" =>
          Continues(stored[q], cur[q])' /\ stored'[q] = stored[q] /\ cur'[q] = cur[q]
    BY <1>3, <2>1 DEF Refreshes
  <2>3. QED
    BY <1>2, <1>3, <1>4, <2>1 DEF Refreshes
<1>6. Begins(q)'
  BY <1>2 DEF Begins
<1>7. Named(q)'
  BY <1>1, <1>2 DEF Named, Admits
<1>8. Granted(q)' /\ Validating(q)' /\ HasTimes(q)'
  BY <1>1, <1>2 DEF Granted, Authorized, Validating, HasTimes, Undated
<1>9. QED
  BY <1>5, <1>6, <1>7, <1>8

LEMMA InitInv ==
    ASSUME Init
    PROVE  Inv
<1>1. TypeOK
  <2>1. config \in Config
    BY ProvidersAssumption DEF Init
  <2>2. QED
    BY <2>1, Distinct DEF Init, TypeOK, Labels
<1>2. ASSUME NEW u \in Users
      PROVE  IInv(u)
  <2>1. /\ pc[u] = "idle" /\ cur[u] = None /\ stored[u] = None
        /\ asserted[u] = NoGroups /\ sound[u] = FALSE
    BY DEF Init
  <2>2. Refreshes(u) /\ Begins(u) /\ Named(u)
    BY <2>1 DEF Refreshes, Begins, Named
  <2>3. Granted(u) /\ Validating(u) /\ HasTimes(u)
    BY <2>1 DEF Granted, Validating, HasTimes
  <2>4. QED
    BY <2>2, <2>3 DEF IInv
<1>3. QED
  BY <1>1, <1>2 DEF Inv

\* Types hold again once the new values of u are of their types.
LEMMA Typed ==
    ASSUME TypeOK, Settled, member' = member, NEW u \in Users,
           NEW l \in Labels, NEW s \in Session \cup {None}, l = "idle" <=> s = None,
           Goes(u, l), Holds(u, s),
           asserted' = asserted \/ \E g \in {NoGroups} \cup (SUBSET Groups) \cup (SUBSET Tests) :
                                      asserted' = [asserted EXCEPT ![u] = g],
           sound' = sound \/ \E b \in BOOLEAN : sound' = [sound EXCEPT ![u] = b],
           stored' = stored \/ \E c \in Session \cup {None} : stored' = [stored EXCEPT ![u] = c],
           newest' = newest \/ \E n \in 0..MaxToken : newest' = [newest EXCEPT ![u] = n],
           lost' = lost \/ \E b \in BOOLEAN : lost' = [lost EXCEPT ![u] = b]
    PROVE  TypeOK'
<1> USE DEF TypeOK
<1>1. /\ config' \in Config /\ emailClaim' \in {"email", "upn"}
      /\ emailClaim' = "upn" => kind' = "adfs"
  BY DEF Settled, kind
<1>2. pc' \in [Users -> Labels] /\ cur' \in [Users -> Session \cup {None}]
  BY DEF Goes, Holds
<1>3. \A q \in Users : pc'[q] = "idle" <=> cur'[q] = None
  BY DEF Goes, Holds
<1>4. asserted' \in [Users -> {NoGroups} \cup (SUBSET Groups) \cup (SUBSET Tests)]
  OBVIOUS
<1>5. stored' \in [Users -> Session \cup {None}] /\ newest' \in [Users -> 0..MaxToken]
  OBVIOUS
<1>6. sound' \in [Users -> BOOLEAN] /\ lost' \in [Users -> BOOLEAN]
  OBVIOUS
<1>7. QED
  BY <1>1, <1>2, <1>3, <1>4, <1>5, <1>6

LEMMA KindFixed ==
    ASSUME Settled
    PROVE  /\ config' = config /\ kind' = kind /\ ByIdToken' = ByIdToken /\ Checks' = Checks
           /\ \A passed : Admits(passed)' <=> Admits(passed)
<1>1. config' = config
  BY DEF Settled
<1>2. kind' = kind
  BY <1>1 DEF kind
<1>3. ByIdToken' = ByIdToken /\ Checks' = Checks
  BY <1>1, <1>2 DEF ByIdToken, Checks
<1>4. \A passed : Admits(passed)' <=> Admits(passed)
  BY <1>1, <1>2 DEF Admits
<1>5. QED
  BY <1>1, <1>2, <1>3, <1>4

\* The end of a request leaves nothing of it; the store keeps what it has, or nothing.
LEMMA Ended ==
    ASSUME TypeOK, Settled, member' = member, NEW u \in Users, IInv(u), Ends(u),
           (pc[u] # "refreshed" /\ UNCHANGED sessionVars) \/ Store(u, None, 0, FALSE)
    PROVE  TypeOK' /\ IInv(u)'
<1>1. /\ pc'[u] = "idle" /\ cur'[u] = None /\ asserted'[u] = NoGroups /\ sound'[u] = FALSE
  BY DEF Ends, Goes, Holds, TypeOK
<1>2. \/ stored'[u] = None
      \/ /\ pc[u] # "refreshed" /\ stored'[u] = stored[u]
         /\ newest'[u] = newest[u] /\ lost'[u] = lost[u]
  BY DEF Store, sessionVars, TypeOK
<1>3. TypeOK'
  <2>1. 0 \in 0..MaxToken /\ "idle" \in Labels
    BY Distinct DEF Labels
  <2>2. QED
    BY <2>1, Typed DEF Ends, Store, sessionVars
<1>4. Refreshes(u)'
  BY <1>1, <1>2, KindFixed DEF Refreshes, IInv, IsNewest
<1>5. Begins(u)' /\ Named(u)' /\ Granted(u)' /\ Validating(u)'
  BY <1>1 DEF Begins, Named, Granted, Validating
<1>6. HasTimes(u)'
  BY <1>1, <1>2 DEF HasTimes, IInv
<1>7. QED
  BY <1>3, <1>4, <1>5, <1>6 DEF IInv

\* A move that changes nothing but what comes next, where that is no less than before.
LEMMA Moved ==
    ASSUME TypeOK, Settled, NEW u \in Users, IInv(u), NEW l \in Labels, Goes(u, l),
           UNCHANGED <<config, emailClaim, member, cur, asserted, sound, sessionVars>>,
           \/ pc[u] = "loaded" /\ l = "accepted"
           \/ pc[u] = "loaded" /\ l = "refreshed" /\ kind \notin Refreshing
           \/ pc[u] = "loaded" /\ l = "validating"
           \/ pc[u] = "validating" /\ l \in {"accepted", "unanswered"}
           \/ pc[u] = "validating" /\ l = "rejected" /\ ~sound[u]
           \/ pc[u] = "accepted" /\ l = "granted" /\ Authorized(cur[u])
    PROVE  TypeOK' /\ IInv(u)'
<1>1. /\ pc'[u] = l /\ l # "idle" /\ cur'[u] = cur[u] /\ stored'[u] = stored[u]
      /\ newest'[u] = newest[u] /\ lost'[u] = lost[u]
      /\ asserted'[u] = asserted[u] /\ sound'[u] = sound[u]
  BY DEF Goes, sessionVars, TypeOK
<1>2. TypeOK'
  BY DEF TypeOK, Goes, sessionVars, kind
<1>3. Refreshes(u)'
  <2>1. \A s : IsNewest(u, s)' <=> IsNewest(u, s)
    BY <1>1, KindFixed DEF IsNewest
  <2>2. stored[u] # None => IsNewest(u, stored[u])
    BY DEF IInv, Refreshes
  <2>3. CASE l = "refreshed"
    <3>1. pc[u] = "loaded" /\ cur[u] = stored[u] /\ cur[u] # None
      BY <2>3, InHand DEF IInv, Refreshes
    <3>2. Continues(stored[u], cur[u])'
      BY <1>1, <3>1 DEF Continues
    <3>3. kind # "azure"
      BY <2>3 DEF Refreshing
    <3>4. QED
      BY <1>1, <2>1, <2>2, <2>3, <3>1, <3>2, <3>3, KindFixed DEF Refreshes
  <2>4. CASE l # "refreshed"
    BY <1>1, <2>1, <2>2, <2>4, KindFixed DEF Refreshes, IInv
  <2>5. QED
    BY <2>3, <2>4
<1>4. Begins(u)' /\ Granted(u)'
  BY <1>1, KindFixed DEF Begins, Granted, Authorized
<1>5. Named(u)'
  BY <1>1, KindFixed DEF Named, IInv
<1>6. Validating(u)' /\ HasTimes(u)'
  BY <1>1, KindFixed DEF Validating, HasTimes, Undated, IInv
<1>7. QED
  BY <1>2, <1>3, <1>4, <1>5, <1>6 DEF IInv

\* The session of a request that was idle.
LEMMA IdleBefore ==
    ASSUME TypeOK, NEW u \in Users, IInv(u), pc[u] = "idle"
    PROVE  asserted[u] = NoGroups /\ sound[u] = FALSE
BY DEF TypeOK, IInv, Begins, Validating

LEMMA RedeemKeeps ==
    ASSUME TypeOK, Settled, NEW u \in Users, IInv(u), Redeem(u)
    PROVE  TypeOK' /\ IInv(u)'
<1>1. PICK a \in TokenAnswer(kind), checked \in SecondRead :
      \E s \in Redeemed(a, emailClaim, checked, member[u]) : Holds(u, Timed(s)) /\ Names(u, s.groups)
  BY DEF Redeem
<1>2. PICK s \in Redeemed(a, emailClaim, checked, member[u]) :
        Holds(u, Timed(s)) /\ Names(u, s.groups)
  BY <1>1
<1>3. member[u] \in SUBSET Groups
  BY DEF TypeOK
<1>4. s \in Session /\ Started(s)
  BY <1>1, <1>2, <1>3, RedeemedSession
<1> DEFINE t == Timed(s)
<1>5. /\ t \in Session /\ t.created /\ Dated(t)
      /\ t.email = s.email /\ t.groups = s.groups /\ t # None
  BY <1>4, TimedSession, Distinct
<1>6. Holds(u, t)
  BY <1>2
<1> HIDE DEF t
<1>7. s.groups \in {NoGroups} \cup SUBSET Groups
  BY <1>4 DEF Session
<1>8. /\ pc'[u] = "redeemed" /\ cur'[u] = t /\ asserted'[u] = s.groups
      /\ stored'[u] = stored[u] /\ newest'[u] = newest[u] /\ lost'[u] = lost[u]
      /\ sound'[u] = FALSE
  BY <1>2, <1>6, IdleBefore DEF Redeem, Goes, Holds, Names, sessionVars, TypeOK
<1>9. TypeOK'
  <2>1. "redeemed" \in Labels /\ t \in Session \cup {None} /\ t # None
    BY <1>5 DEF Labels
  <2>2. Goes(u, "redeemed") /\ Holds(u, t) /\ member' = member
    BY <1>6 DEF Redeem
  <2>3. \E g \in {NoGroups} \cup (SUBSET Groups) \cup (SUBSET Tests) :
           asserted' = [asserted EXCEPT ![u] = g]
    BY <1>2, <1>7 DEF Names
  <2>4. QED
    BY <2>1, <2>2, <2>3, Typed DEF Redeem, sessionVars
<1>10. Refreshes(u)'
  BY <1>8, KindFixed DEF Redeem, Refreshes, IsNewest, IInv
<1>11. Begins(u)'
  <2>1. kind \in {"github", "bitbucket"} => kind \in Tested
    BY DEF Tested
  <2>2. QED
    BY <1>4, <1>5, <1>8, <2>1, KindFixed DEF Begins, Started
<1>12. Named(u)'
  BY <1>4, <1>5, <1>8, KindFixed DEF Named, Listed, Started
<1>13. Granted(u)' /\ Validating(u)' /\ HasTimes(u)'
  BY <1>5, <1>8 DEF Granted, Validating, HasTimes, IInv
<1>14. QED
  BY <1>9, <1>10, <1>11, <1>12, <1>13 DEF IInv

\* Who has an address although the settings ask for something passed it.
LEMMA BitbucketAdmits ==
    ASSUME kind = "bitbucket", NEW p, NEW passed, NEW email \in Addresses(p, passed), email # ""
    PROVE  Admits(passed)
BY DEF Addresses, BitbucketAddress, Address, Admits

LEMMA AddressTyped ==
    ASSUME NEW p, NEW passed, NEW email \in Addresses(p, passed)
    PROVE  email \in Emails
BY DEF Addresses, BitbucketAddress, FacebookAddress, Address, Emails

LEMMA ShownTyped ==
    ASSUME TypeOK, NEW passed \in Shown
    PROVE  passed \in SUBSET Tests
<1>1. config.tests \in SUBSET Tests
  BY KindTyped DEF Config
<1>2. passed \in SUBSET config.tests \/ passed = {}
  BY DEF Shown
<1>3. QED
  BY <1>1, <1>2

LEMMA GetEmailAddressKeeps ==
    ASSUME TypeOK, Settled, NEW u \in Users, IInv(u), GetEmailAddress(u)
    PROVE  TypeOK' /\ IInv(u)'
<1>1. pc[u] = "redeemed" /\ cur[u] \in Session /\ cur[u] # None
  BY InHand DEF GetEmailAddress
<1>2. /\ pc'[u] = "mailed" /\ stored'[u] = stored[u] /\ newest'[u] = newest[u]
      /\ lost'[u] = lost[u] /\ sound'[u] = sound[u]
  BY DEF GetEmailAddress, Goes, sessionVars, TypeOK
<1>3. sound[u] = FALSE
  BY <1>1 DEF TypeOK, IInv, Validating
<1>4. Refreshes(u)'
  BY <1>1, <1>2, KindFixed DEF Refreshes, IsNewest, IInv
<1>5. Granted(u)' /\ Validating(u)'
  BY <1>2, <1>3 DEF Granted, Validating
<1>6. "mailed" \in Labels /\ Goes(u, "mailed") /\ member' = member
  BY DEF Labels, GetEmailAddress
<1>7. CASE AddressMissing(u)
  <2>1. PICK p \in ApiAnswer, passed \in Shown : \E email \in Addresses(p, passed) :
           /\ Holds(u, [cur[u] EXCEPT !.email = email])
           /\ Names(u, IF kind \in Tested THEN passed ELSE NoGroups)
    BY <1>7 DEF GetEmailAddress
  <2>2. PICK email \in Addresses(p, passed) :
           /\ Holds(u, [cur[u] EXCEPT !.email = email])
           /\ Names(u, IF kind \in Tested THEN passed ELSE NoGroups)
    BY <2>1
  <2> DEFINE t == [cur[u] EXCEPT !.email = email]
             g == IF kind \in Tested THEN passed ELSE NoGroups
  <2>3. Holds(u, t) /\ Names(u, g)
    BY <2>2
  <2>4. /\ t \in Session /\ t # None /\ KeepsTokens(cur[u], t)
        /\ t.email = email /\ t.groups = cur[u].groups
    BY <1>1, AddressTyped, WithEmail, Distinct
  <2>5. g \in {NoGroups} \cup SUBSET Tests /\ (kind \notin Tested => g = NoGroups)
        /\ (kind = "bitbucket" => g = passed)
    <3>1. passed \in SUBSET Tests
      BY <2>1, ShownTyped
    <3>2. QED
      BY <3>1 DEF Tested
  <2> HIDE DEF t, g
  <2>6. cur'[u] = t /\ asserted'[u] = g
    BY <2>3 DEF Holds, Names, TypeOK
  <2>7. TypeOK'
    <3>1. t \in Session \cup {None} /\ ("mailed" = "idle" <=> t = None)
      BY <2>4
    <3>2. \E h \in {NoGroups} \cup (SUBSET Groups) \cup (SUBSET Tests) :
             asserted' = [asserted EXCEPT ![u] = h]
      BY <2>3, <2>5 DEF Names
    <3>3. QED
      BY <1>6, <2>3, <3>1, <3>2, Typed DEF GetEmailAddress, sessionVars
  <2>8. kind \notin {"github", "gitlab", "keycloak"}
    BY <1>7 DEF AddressMissing, EmailApis
  <2>9. Begins(u)'
    BY <1>2, <2>8, KindFixed DEF Begins
  <2>10. Named(u)'
    <3>1. CASE kind = "bitbucket"
      <4>1. t.email # "" => Admits(g)
        BY <2>2, <2>4, <2>5, <3>1, BitbucketAdmits
      <4>2. cur'[u].email # "" => Admits(asserted[u])'
        BY <2>6, <4>1, KindFixed DEF Admits
      <4>3. QED
        BY <1>2, <3>1, <4>2, KindFixed DEF Named, Tested
    <3>2. CASE kind # "bitbucket"
      BY <2>5, <2>6, <2>8, <3>2 DEF Named, Tested
    <3>3. QED
      BY <3>1, <3>2
  <2>11. HasTimes(u)'
    BY <1>1, <1>2, <2>4, <2>6, KindFixed DEF HasTimes, Dated, Undated, IInv, KeepsTokens
  <2>12. QED
    BY <1>4, <1>5, <2>7, <2>9, <2>10, <2>11 DEF IInv
<1>8. CASE ~AddressMissing(u)
  <2>1. cur' = cur /\ asserted' = asserted
    BY <1>8 DEF GetEmailAddress
  <2>2. TypeOK'
    BY <1>6, <2>1 DEF TypeOK, GetEmailAddress, Goes, Labels, sessionVars, kind
  <2>3. kind \in Tested => asserted[u] = NoGroups
    BY <1>1 DEF IInv, Begins
  <2>4. Begins(u)'
    <3>1. kind = "github" => kind \in Tested
      BY DEF Tested
    <3>2. QED
      BY <1>1, <1>2, <2>1, <2>3, <3>1, KindFixed DEF Begins, IInv
  <2>5. Named(u)'
    BY <1>1, <2>1, <2>3, KindFixed DEF Named, IInv
  <2>6. HasTimes(u)'
    BY <1>1, <1>2, <2>1, KindFixed DEF HasTimes, IInv
  <2>7. QED
    BY <1>4, <1>5, <2>2, <2>4, <2>5, <2>6 DEF IInv
<1>9. QED
  BY <1>7, <1>8

\* What was named goes for a session: the tests admit it, or name all its groups.
GoesFor(g, t) ==
    g # NoGroups => IF kind \in Tested THEN t.email # "" => Admits(g)
                    ELSE Listed(t.groups) \subseteq g

\* Whatever an enrichment lets the provider name goes for the session it leaves.
LEMMA EnrichedNamed ==
    ASSUME TypeOK, NEW u \in Users, IInv(u), pc[u] = "mailed",
           NEW p \in ApiAnswer, NEW passed \in Shown, NEW t \in Enriched(cur[u], p, passed),
           NEW g, g = IF NamedBy(cur[u], t, p, passed) # NoGroups
                      THEN NamedBy(cur[u], t, p, passed) ELSE asserted[u]
    PROVE  /\ g \in {NoGroups} \cup (SUBSET Groups) \cup (SUBSET Tests)
           /\ GoesFor(g, t)
<1> USE DEF GoesFor
<1>1. cur[u] \in Session
  BY InHand
<1>2. /\ t \in Session /\ AddsGroups(cur[u], t, p)
      /\ kind = "bitbucket" => t = cur[u]
      /\ kind = "github" /\ cur[u].email = "" /\ t.email # "" => Admits(passed)
  BY <1>1, EnrichedSession
<1>3. /\ kind = "github" => cur[u].email = "" /\ asserted[u] = NoGroups
      /\ kind \in {"gitlab", "keycloak"} => cur[u].groups = NoGroups
  BY DEF IInv, Begins
<1>4. CASE kind = "github"
  <2>1. NamedBy(cur[u], t, p, passed) = passed
    BY <1>4 DEF NamedBy
  <2>2. g = passed \/ g = NoGroups
    BY <1>3, <1>4, <2>1
  <2>3. kind \in Tested
    BY <1>4 DEF Tested
  <2>4. QED
    BY <1>2, <1>3, <1>4, <2>2, <2>3, ShownTyped
<1>5. CASE kind = "bitbucket"
  <2>1. g = asserted[u] /\ t = cur[u]
    BY <1>2, <1>5 DEF NamedBy
  <2>2. kind \in Tested
    BY <1>5 DEF Tested
  <2>3. QED
    BY <2>1, <2>2 DEF TypeOK, IInv, Named
<1>6. CASE kind \notin Tested
  <2>1. kind # "github"
    BY <1>6 DEF Tested
  <2>2. \/ NamedBy(cur[u], t, p, passed) = NoGroups /\ t.groups = cur[u].groups
        \/ /\ NamedBy(cur[u], t, p, passed) \in SUBSET Groups
           /\ Listed(t.groups) \subseteq NamedBy(cur[u], t, p, passed)
    BY <1>1, <1>2, <1>3, <2>1, GroupsNamed
  <2>3. CASE g = asserted[u] /\ t.groups = cur[u].groups
    BY <1>6, <2>3 DEF TypeOK, IInv, Named
  <2>4. CASE g \in SUBSET Groups /\ Listed(t.groups) \subseteq g
    BY <1>6, <2>4
  <2>5. QED
    BY <2>2, <2>3, <2>4, Distinct
<1>7. QED
  BY <1>4, <1>5, <1>6 DEF Tested

LEMMA EnrichSessionKeeps ==
    ASSUME TypeOK, Settled, NEW u \in Users, IInv(u), EnrichSession(u)
    PROVE  TypeOK' /\ IInv(u)'
<1>1. pc[u] = "mailed" /\ cur[u] \in Session /\ cur[u] # None /\ member' = member
  BY InHand DEF EnrichSession
<1>2. PICK p \in ApiAnswer, passed \in Shown :
        IF Enriched(cur[u], p, passed) = {} THEN Ends(u)
        ELSE /\ \E s \in Enriched(cur[u], p, passed) :
                   /\ Holds(u, s)
                   /\ Names(u, IF NamedBy(cur[u], s, p, passed) # NoGroups
                               THEN NamedBy(cur[u], s, p, passed) ELSE asserted[u])
             /\ Goes(u, "enriched")
             /\ UNCHANGED sound
  BY DEF EnrichSession
<1>3. UNCHANGED sessionVars
  BY DEF EnrichSession
<1>4. CASE Enriched(cur[u], p, passed) = {}
  BY <1>1, <1>2, <1>3, <1>4, Ended
<1>5. CASE Enriched(cur[u], p, passed) # {}
  <2>1. PICK t \in Enriched(cur[u], p, passed) :
           /\ Holds(u, t)
           /\ Names(u, IF NamedBy(cur[u], t, p, passed) # NoGroups
                       THEN NamedBy(cur[u], t, p, passed) ELSE asserted[u])
    BY <1>2, <1>5
  <2> DEFINE g == IF NamedBy(cur[u], t, p, passed) # NoGroups
                  THEN NamedBy(cur[u], t, p, passed) ELSE asserted[u]
  <2>2. /\ g \in {NoGroups} \cup (SUBSET Groups) \cup (SUBSET Tests)
        /\ GoesFor(g, t)
    BY <1>1, <1>2, <2>1, EnrichedNamed
  <2>3. Names(u, g) /\ Goes(u, "enriched") /\ Holds(u, t) /\ sound' = sound
    BY <1>2, <1>5, <2>1
  <2> HIDE DEF g
  <2>4. t \in Session /\ t # None /\ KeepsTokens(cur[u], t)
    BY <1>1, <1>2, <2>1, EnrichedSession, Distinct
  <2>5. /\ pc'[u] = "enriched" /\ cur'[u] = t /\ asserted'[u] = g
        /\ stored'[u] = stored[u] /\ newest'[u] = newest[u] /\ lost'[u] = lost[u]
        /\ sound'[u] = sound[u] /\ sound[u] = FALSE
    BY <1>1, <1>3, <2>3 DEF Goes, Holds, Names, sessionVars, TypeOK, IInv, Validating
  <2>6. TypeOK'
    <3>1. "enriched" \in Labels /\ t \in Session \cup {None} /\ t # None
      BY <2>4 DEF Labels
    <3>2. \E h \in {NoGroups} \cup (SUBSET Groups) \cup (SUBSET Tests) :
             asserted' = [asserted EXCEPT ![u] = h]
      BY <2>2, <2>3 DEF Names
    <3>3. QED
      BY <1>1, <1>3, <2>3, <3>1, <3>2, Typed DEF sessionVars
  <2>7. Refreshes(u)' /\ Begins(u)'
    BY <1>1, <2>5, KindFixed DEF Refreshes, IsNewest, Begins, IInv
  <2>8. Named(u)'
    <3>1. CASE kind \in Tested
      <4>1. cur'[u].email # "" /\ asserted'[u] # NoGroups => Admits(asserted[u])'
        BY <2>2, <2>5, <3>1, KindFixed DEF Admits, GoesFor
      <4>2. QED
        BY <2>5, <3>1, <4>1, KindFixed DEF Named
    <3>2. CASE kind \notin Tested
      BY <2>2, <2>5, <3>2, KindFixed DEF Named, GoesFor
    <3>3. QED
      BY <3>1, <3>2
  <2>9. Granted(u)' /\ Validating(u)'
    BY <2>5 DEF Granted, Validating
  <2>10. HasTimes(u)'
    BY <1>1, <2>4, <2>5, KindFixed DEF HasTimes, Dated, Undated, IInv, KeepsTokens
  <2>11. QED
    BY <2>6, <2>7, <2>8, <2>9, <2>10 DEF IInv
<1>6. QED
  BY <1>4, <1>5

LEMMA SignedInKeeps ==
    ASSUME TypeOK, Settled, NEW u \in Users, IInv(u), SignedIn(u)
    PROVE  TypeOK' /\ IInv(u)'
<1>1. /\ pc[u] = "enriched" /\ cur[u].email # "" /\ Authorized(cur[u])
      /\ cur[u] \in Session /\ cur[u] # None
  BY InHand DEF SignedIn
<1>2. /\ pc'[u] = "granted" /\ cur'[u] = cur[u] /\ asserted'[u] = asserted[u]
      /\ stored'[u] = cur[u] /\ newest'[u] = cur[u].refresh
      /\ sound'[u] = sound[u] /\ sound[u] = FALSE
  BY <1>1 DEF SignedIn, Goes, Store, TypeOK, IInv, Validating
<1>3. TypeOK'
  <2>1. "granted" \in Labels /\ cur[u] \in Session \cup {None}
        /\ cur[u].refresh \in 0..MaxToken
    BY <1>1 DEF Labels, Session
  <2>2. Goes(u, "granted") /\ Holds(u, cur[u]) /\ member' = member /\ asserted' = asserted
        /\ sound' = sound
    BY DEF SignedIn, Holds, TypeOK
  <2>3. \E n \in 0..MaxToken : newest' = [newest EXCEPT ![u] = n]
    BY <2>1 DEF SignedIn, Store
  <2>4. QED
    BY <1>1, <2>1, <2>2, <2>3, Typed DEF SignedIn, Store
<1>4. Refreshes(u)' /\ Begins(u)'
  BY <1>1, <1>2 DEF Refreshes, IsNewest, Begins
<1>5. Named(u)'
  BY <1>1, <1>2, KindFixed DEF Named, IInv
<1>6. Granted(u)' /\ Validating(u)'
  BY <1>1, <1>2, KindFixed DEF Granted, Authorized, Validating
<1>7. HasTimes(u)'
  BY <1>1, <1>2, KindFixed DEF HasTimes, IInv
<1>8. QED
  BY <1>3, <1>4, <1>5, <1>6, <1>7 DEF IInv

LEMMA LoadKeeps ==
    ASSUME TypeOK, Settled, NEW u \in Users, IInv(u), Load(u)
    PROVE  TypeOK' /\ IInv(u)'
<1>1. /\ pc[u] = "idle" /\ stored[u] # None /\ stored[u] \in Session
      /\ asserted[u] = NoGroups /\ sound[u] = FALSE
  BY IdleBefore DEF Load, TypeOK
<1>2. /\ pc'[u] = "loaded" /\ cur'[u] = stored[u] /\ stored'[u] = stored[u]
      /\ newest'[u] = newest[u] /\ lost'[u] = lost[u]
      /\ asserted'[u] = NoGroups /\ sound'[u] = FALSE
  BY <1>1 DEF Load, Goes, Holds, sessionVars, TypeOK
<1>3. TypeOK'
  <2>1. "loaded" \in Labels
    BY DEF Labels
  <2>2. QED
    BY <1>1, <2>1, Typed DEF Load, sessionVars
<1>4. Refreshes(u)'
  BY <1>1, <1>2, KindFixed DEF Refreshes, IsNewest, IInv
<1>5. Begins(u)' /\ Named(u)' /\ Granted(u)' /\ Validating(u)'
  BY <1>2 DEF Begins, Named, Granted, Validating
<1>6. HasTimes(u)'
  BY <1>1, <1>2 DEF HasTimes, IInv
<1>7. QED
  BY <1>3, <1>4, <1>5, <1>6 DEF IInv

LEMMA SaveRefreshedKeeps ==
    ASSUME TypeOK, Settled, NEW u \in Users, IInv(u), SaveRefreshed(u)
    PROVE  /\ TypeOK' /\ IInv(u)'
           /\ Continues(stored[u], stored'[u])
<1>1. /\ pc[u] = "refreshed" /\ cur[u] \in Session /\ cur[u] # None
      /\ IsNewest(u, cur[u]) /\ Continues(stored[u], cur[u]) /\ Dated(cur[u])
      /\ kind = "azure" => cur[u].email # ""
  BY InHand DEF SaveRefreshed, IInv, Refreshes, HasTimes
<1> DEFINE s == [cur[u] EXCEPT !.created = TRUE]
<1>2. /\ s \in Session /\ s.created = TRUE /\ s.expires = cur[u].expires /\ s # None
      /\ s.from = cur[u].from
      /\ s.email = cur[u].email /\ s.id = cur[u].id /\ s.refresh = cur[u].refresh
  BY <1>1, Distinct DEF Session
<1>3. stored' = [stored EXCEPT ![u] = s]
  BY DEF SaveRefreshed
<1> HIDE DEF s
<1>4. /\ pc'[u] = "validating" /\ cur'[u] = cur[u] /\ stored'[u] = s
      /\ newest'[u] = newest[u] /\ lost'[u] = lost[u]
      /\ asserted'[u] = asserted[u] /\ sound'[u] = sound[u]
  BY <1>3 DEF SaveRefreshed, Goes, TypeOK
<1>5. TypeOK'
  <2>1. "validating" \in Labels /\ cur[u] \in Session \cup {None}
    BY <1>1 DEF Labels
  <2>2. Goes(u, "validating") /\ Holds(u, cur[u]) /\ member' = member
    BY DEF SaveRefreshed, Holds, TypeOK
  <2>3. \E c \in Session \cup {None} : stored' = [stored EXCEPT ![u] = c]
    BY <1>2, <1>3
  <2>4. QED
    BY <1>1, <2>1, <2>2, <2>3, Typed DEF SaveRefreshed
<1>6. Refreshes(u)'
  BY <1>1, <1>2, <1>4, KindFixed DEF Refreshes, IsNewest
<1>7. Begins(u)' /\ Granted(u)'
  BY <1>4 DEF Begins, Granted
<1>8. Named(u)' /\ Validating(u)' /\ HasTimes(u)'
  <2>1. Named(u)'
    BY <1>1, <1>4, KindFixed DEF Named, IInv
  <2>2. Validating(u)'
    <3>1. sound[u] => /\ ~Expired(cur[u])
                      /\ IF ByIdToken THEN Checks \subseteq cur[u].id
                         ELSE kind \in Refreshing /\ config.validateURL
      BY DEF Validating, IInv
    <3>2. config' = config /\ kind' = kind /\ ByIdToken' = ByIdToken /\ Checks' = Checks
      BY KindFixed
    <3>3. QED
      BY <1>4, <3>1, <3>2 DEF Validating
  <2>3. HasTimes(u)'
    BY <1>1, <1>2, <1>4, KindFixed DEF HasTimes, Dated, Undated, IInv
  <2>4. QED
    BY <2>1, <2>2, <2>3
<1>9. Continues(stored[u], stored'[u])
  BY <1>1, <1>2, <1>4 DEF Continues
<1>10. QED
  BY <1>5, <1>6, <1>7, <1>8, <1>9 DEF IInv

LEMMA SaveFailsKeeps ==
    ASSUME TypeOK, Settled, NEW u \in Users, IInv(u), SaveFails(u)
    PROVE  TypeOK' /\ IInv(u)'
<1>1. /\ pc[u] = "refreshed" /\ cur[u] \in Session /\ cur[u] # None
      /\ IsNewest(u, cur[u]) /\ stored[u] # None
  BY InHand DEF SaveFails, IInv, Refreshes
<1> DEFINE b == lost[u] \/ cur[u].refresh # stored[u].refresh
<1>2. lost' = [lost EXCEPT ![u] = b]
  BY DEF SaveFails
<1>3. (b = TRUE \/ b = FALSE) /\ (~b => lost[u] = FALSE /\ cur[u].refresh = stored[u].refresh)
  BY DEF TypeOK
<1> HIDE DEF b
<1>4. /\ pc'[u] = "validating" /\ cur'[u] = cur[u] /\ stored'[u] = stored[u]
      /\ newest'[u] = newest[u] /\ lost'[u] = b
      /\ asserted'[u] = asserted[u] /\ sound'[u] = sound[u]
  BY <1>2 DEF SaveFails, Goes, TypeOK
<1>5. TypeOK'
  <2>1. "validating" \in Labels /\ cur[u] \in Session \cup {None}
    BY <1>1 DEF Labels
  <2>2. Goes(u, "validating") /\ Holds(u, cur[u]) /\ member' = member
    BY DEF SaveFails, Holds, TypeOK
  <2>3. \E c \in BOOLEAN : lost' = [lost EXCEPT ![u] = c]
    BY <1>2, <1>3
  <2>4. QED
    BY <1>1, <2>1, <2>2, <2>3, Typed DEF SaveFails
<1>6. Refreshes(u)'
  BY <1>1, <1>3, <1>4, KindFixed DEF Refreshes, IsNewest, IInv
<1>7. Begins(u)' /\ Granted(u)'
  BY <1>4 DEF Begins, Granted
<1>8. Named(u)' /\ Validating(u)' /\ HasTimes(u)'
  <2>1. Named(u)'
    BY <1>1, <1>4, KindFixed DEF Named, IInv
  <2>2. Validating(u)'
    <3>1. sound[u] => /\ ~Expired(cur[u])
                      /\ IF ByIdToken THEN Checks \subseteq cur[u].id
                         ELSE kind \in Refreshing /\ config.validateURL
      BY DEF Validating, IInv
    <3>2. config' = config /\ kind' = kind /\ ByIdToken' = ByIdToken /\ Checks' = Checks
      BY KindFixed
    <3>3. QED
      BY <1>4, <3>1, <3>2 DEF Validating
  <2>3. HasTimes(u)'
    BY <1>1, <1>4, KindFixed DEF HasTimes, Undated, IInv
  <2>4. QED
    BY <2>1, <2>2, <2>3
<1>9. QED
  BY <1>5, <1>6, <1>7, <1>8 DEF IInv

\* What the provider named in a refresh is what the session has now.
RefreshNames(a, r, got, truth) ==
    CASE kind = "google" /\ config.restricted -> got
      [] kind = "oidc" /\ r.ok /\ "groups" \in a.id -> truth
      [] OTHER -> NoGroups

LEMMA RefreshNamed ==
    ASSUME NEW s, NEW r, NEW a, NEW token, NEW truth \in SUBSET Groups,
           NEW got \in SUBSET Groups, Renewed(s, r, a, token, truth, got),
           NEW g, g = RefreshNames(a, r, got, truth)
    PROVE  g \in {NoGroups} \cup SUBSET Groups /\ (g # NoGroups => Listed(r.s.groups) \subseteq g)
<1>1. CASE kind = "google" /\ config.restricted
  BY <1>1 DEF RefreshNames, Renewed, Listed
<1>2. CASE kind = "oidc" /\ r.ok /\ "groups" \in a.id
  BY <1>2 DEF RefreshNames, Renewed, Listed
<1>3. CASE ~(kind = "google" /\ config.restricted) /\ ~(kind = "oidc" /\ r.ok /\ "groups" \in a.id)
  BY <1>3 DEF RefreshNames
<1>4. QED
  BY <1>1, <1>2, <1>3

LEMMA NextToken ==
    ASSUME NEW n \in 0..MaxToken, NEW t, t = n + 1 \/ t = n, t <= MaxToken
    PROVE  t \in 0..MaxToken
BY Distinct

LEMMA RefreshSessionKeeps ==
    ASSUME TypeOK, Settled, NEW u \in Users, IInv(u), RefreshSession(u)
    PROVE  TypeOK' /\ IInv(u)'
<1>1. /\ pc[u] = "loaded" /\ kind \in Refreshing /\ cur[u] \in Session /\ cur[u] # None
      /\ cur[u] = stored[u] /\ cur[u].refresh = newest[u] /\ newest[u] \in 0..MaxToken
      /\ cur[u].created /\ Dated(cur[u])
      /\ kind = "azure" => cur[u].email # ""
  BY InHand DEF RefreshSession, IInv, Refreshes, HasTimes, TypeOK
<1>2. PICK s \in Session : s = cur[u]
  BY <1>1
<1>3. PICK a \in TokenAnswer(kind), checked \in SecondRead, got \in Answers(member[u]) :
       LET token == IF a.refresh THEN newest[u] + 1 ELSE newest[u]
       IN /\ kind = "google" => ~a.refresh
          /\ token <= MaxToken
          /\ \E r \in Refreshed(s, a, token, checked, member[u], got) :
                /\ Holds(u, r.s)
                /\ Goes(u, IF r.ok THEN "refreshed" ELSE "validating")
                /\ newest' = [newest EXCEPT ![u] = token]
                /\ lost' = [lost EXCEPT ![u] = @ \/ (~r.ok /\ a.refresh)]
                /\ Names(u, RefreshNames(a, r, got, member[u]))
                /\ sound' = [sound EXCEPT ![u] = r.ok /\ BringsAll(a)]
  BY <1>2 DEF RefreshSession, RefreshNames
<1>4. PICK token :
       /\ token = IF a.refresh THEN newest[u] + 1 ELSE newest[u]
       /\ kind = "google" => ~a.refresh
       /\ token <= MaxToken
       /\ \E r \in Refreshed(s, a, token, checked, member[u], got) :
             /\ Holds(u, r.s)
             /\ Goes(u, IF r.ok THEN "refreshed" ELSE "validating")
             /\ newest' = [newest EXCEPT ![u] = token]
             /\ lost' = [lost EXCEPT ![u] = @ \/ (~r.ok /\ a.refresh)]
             /\ Names(u, RefreshNames(a, r, got, member[u]))
             /\ sound' = [sound EXCEPT ![u] = r.ok /\ BringsAll(a)]
  BY <1>3
<1>5. PICK r \in Refreshed(s, a, token, checked, member[u], got) :
             /\ Holds(u, r.s)
             /\ Goes(u, IF r.ok THEN "refreshed" ELSE "validating")
             /\ newest' = [newest EXCEPT ![u] = token]
             /\ lost' = [lost EXCEPT ![u] = @ \/ (~r.ok /\ a.refresh)]
             /\ Names(u, RefreshNames(a, r, got, member[u]))
             /\ sound' = [sound EXCEPT ![u] = r.ok /\ BringsAll(a)]
  BY <1>4
<1>6. /\ token \in 0..MaxToken /\ (kind = "google" => token = newest[u])
      /\ a.refresh \/ token = newest[u]
  <2>1. (token = newest[u] + 1 \/ token = newest[u]) /\ token <= MaxToken
    BY <1>4
  <2>2. token \in 0..MaxToken
    BY <1>1, <2>1, NextToken
  <2>3. QED
    BY <1>4, <2>2
<1>7. member[u] \in SUBSET Groups /\ got \in SUBSET Groups
  BY <1>3 DEF TypeOK, Answers
<1>8. Renewed(s, r, a, token, member[u], got)
  BY <1>1, <1>2, <1>3, <1>5, <1>6, <1>7, RefreshedSession
<1>9. PICK g, l, b, v :
        /\ g = RefreshNames(a, r, got, member[u])
        /\ l = IF r.ok THEN "refreshed" ELSE "validating"
        /\ b = (lost[u] \/ (~r.ok /\ a.refresh))
        /\ v = (r.ok /\ BringsAll(a))
  OBVIOUS
<1>10. g \in {NoGroups} \cup SUBSET Groups /\ (g # NoGroups => Listed(r.s.groups) \subseteq g)
  BY <1>7, <1>8, <1>9, RefreshNamed
<1>11. /\ Holds(u, r.s) /\ Goes(u, l) /\ Names(u, g)
       /\ newest' = [newest EXCEPT ![u] = token]
       /\ lost' = [lost EXCEPT ![u] = b] /\ sound' = [sound EXCEPT ![u] = v]
  BY <1>5, <1>9
<1>12. /\ (l = "refreshed" /\ r.ok) \/ (l = "validating" /\ ~r.ok)
       /\ b \in BOOLEAN /\ (~b => ~lost[u] /\ (r.ok \/ ~a.refresh))
       /\ v \in BOOLEAN /\ (v => r.ok /\ BringsAll(a))
  BY <1>8, <1>9 DEF Renewed, BringsAll, TypeOK
<1>a. r.s \in Session /\ r.s # None
  BY <1>8, Distinct DEF Renewed
<1>b. /\ pc'[u] = l /\ cur'[u] = r.s /\ asserted'[u] = g /\ stored'[u] = s
      /\ newest'[u] = token /\ lost'[u] = b /\ sound'[u] = v
  BY <1>1, <1>2, <1>11 DEF RefreshSession, Goes, Holds, Names, TypeOK
<1>13. TypeOK'
  <2>1. l \in Labels /\ l # "idle" /\ r.s \in Session \cup {None}
    BY <1>12, <1>a DEF Labels
  <2>2. \E h \in {NoGroups} \cup (SUBSET Groups) \cup (SUBSET Tests) :
           asserted' = [asserted EXCEPT ![u] = h]
    BY <1>10, <1>11 DEF Names
  <2>3. /\ \E n \in 0..MaxToken : newest' = [newest EXCEPT ![u] = n]
        /\ \E c \in BOOLEAN : lost' = [lost EXCEPT ![u] = c]
        /\ \E c \in BOOLEAN : sound' = [sound EXCEPT ![u] = c]
    BY <1>6, <1>11, <1>12
  <2>4. member' = member /\ stored' = stored
    BY DEF RefreshSession
  <2>5. QED
    BY <1>11, <1>a, <2>1, <2>2, <2>3, <2>4, Typed
<1>14. Refreshes(u)'
  <2>1. emailClaim' = emailClaim
    BY DEF RefreshSession
  <2>2. Continues(s, r.s)' /\ (kind = "azure" => r.s.email # "")
    BY <1>8, <2>1, KindFixed DEF Renewed, Continues
  <2>3. CASE r.ok
    <3>1. IsNewest(u, r.s)'
      BY <1>8, <1>b, <2>3, KindFixed DEF IsNewest, Renewed
    <3>2. l = "refreshed"
      BY <1>12, <2>3
    <3>3. QED
      BY <1>1, <1>2, <1>b, <2>2, <3>1, <3>2, KindFixed DEF Refreshes, Continues
  <2>4. CASE ~r.ok
    <3>1. IsNewest(u, s)'
      BY <1>1, <1>2, <1>6, <1>12, <1>b, <2>4, KindFixed DEF IsNewest
    <3>2. l = "validating"
      BY <1>12, <2>4
    <3>3. QED
      BY <1>1, <1>2, <1>b, <3>1, <3>2, KindFixed DEF Refreshes
  <2>5. QED
    BY <2>3, <2>4
<1>15. Begins(u)' /\ Granted(u)'
  BY <1>12, <1>b DEF Begins, Granted
<1>16. Named(u)'
  <2>1. kind \notin Tested
    BY <1>1 DEF Refreshing, OidcLike, Tested
  <2>2. QED
    BY <1>10, <1>b, <2>1, KindFixed DEF Named
<1>17. Validating(u)'
  <2>1. CASE ~v
    BY <1>b, <2>1 DEF Validating
  <2>2. CASE v
    <3>1. l = "refreshed"
      BY <1>12, <2>2
    <3>2. ~Expired(r.s) /\ (ByIdToken => Checks \subseteq r.s.id)
      BY <1>8, <1>12, <2>2 DEF Renewed, BringsAll
    <3>3. ~ByIdToken => config.validateURL
      <4>1. ~ByIdToken => kind \in {"google", "azure"}
        BY <1>1 DEF ByIdToken, Refreshing, OidcLike
      <4>2. QED
        BY <4>1, KindTyped DEF Config, kind
    <3>4. config' = config /\ kind' = kind /\ ByIdToken' = ByIdToken /\ Checks' = Checks
      BY KindFixed
    <3>5. IF ByIdToken' THEN Checks' \subseteq r.s.id
          ELSE kind' \in Refreshing /\ config'.validateURL
      BY <1>1, <3>2, <3>3, <3>4
    <3>6. QED
      BY <1>b, <3>1, <3>2, <3>5 DEF Validating
  <2>3. QED
    BY <2>1, <2>2
<1>18. HasTimes(u)'
  <2>1. s.created /\ Dated(s) /\ s = stored[u]
    BY <1>1, <1>2
  <2>2. r.s.created /\ Dated(r.s)
    BY <1>8, <2>1 DEF Renewed
  <2>3. QED
    BY <1>b, <2>1, <2>2 DEF HasTimes
<1>19. QED
  BY <1>13, <1>14, <1>15, <1>16, <1>17, <1>18 DEF IInv

LEMMA BearerKeeps ==
    ASSUME TypeOK, Settled, NEW u \in Users, IInv(u), Bearer(u)
    PROVE  TypeOK' /\ IInv(u)'
<1>1. PICK id \in IdTokens(kind), checked \in SecondRead :
      \E s \in BearerSessions(id, checked, member[u]) : Holds(u, s) /\ Names(u, s.groups)
  BY DEF Bearer
<1>2. PICK s \in BearerSessions(id, checked, member[u]) : Holds(u, s) /\ Names(u, s.groups)
  BY <1>1
<1>3. member[u] \in SUBSET Groups
  BY DEF TypeOK
<1>4. s \in Session /\ Carried(s) /\ s # None
  BY <1>1, <1>2, <1>3, BearerSession, Distinct
<1>5. s.groups \in {NoGroups} \cup SUBSET Groups
  BY <1>4 DEF Session
<1>6. /\ pc'[u] = "accepted" /\ cur'[u] = s /\ asserted'[u] = s.groups
      /\ stored'[u] = stored[u] /\ newest'[u] = newest[u] /\ lost'[u] = lost[u]
      /\ sound'[u] = FALSE
  BY <1>2, IdleBefore DEF Bearer, Goes, Holds, Names, sessionVars, TypeOK
<1>7. TypeOK'
  <2>1. "accepted" \in Labels /\ s \in Session \cup {None} /\ s # None
    BY <1>4 DEF Labels
  <2>2. Goes(u, "accepted") /\ Holds(u, s) /\ member' = member
    BY <1>2 DEF Bearer
  <2>3. \E g \in {NoGroups} \cup (SUBSET Groups) \cup (SUBSET Tests) :
           asserted' = [asserted EXCEPT ![u] = g]
    BY <1>2, <1>5 DEF Names
  <2>4. QED
    BY <2>1, <2>2, <2>3, Typed DEF Bearer, sessionVars
<1>8. Refreshes(u)'
  BY <1>6, KindFixed DEF Bearer, Refreshes, IsNewest, IInv
<1>9. Begins(u)' /\ Granted(u)' /\ Validating(u)'
  BY <1>6 DEF Begins, Granted, Validating
<1>10. Named(u)'
  BY <1>4, <1>6, KindFixed DEF Named, Listed, Carried
<1>11. HasTimes(u)'
  BY <1>4, <1>6, KindFixed DEF HasTimes, Carried, Undated, IInv
<1>12. QED
  BY <1>7, <1>8, <1>9, <1>10, <1>11 DEF IInv

\* While no request is under way the store gets another session in place of the one it
\* has: one whose time has run out, or the one of the sign-in form.
LEMMA StoredKeeps ==
    ASSUME TypeOK, Settled, NEW u \in Users, IInv(u), pc[u] = "idle",
           NEW s \in Session, stored' = [stored EXCEPT ![u] = s], NEW n \in 0..MaxToken,
           NEW b \in BOOLEAN, newest' = [newest EXCEPT ![u] = n], lost' = [lost EXCEPT ![u] = b],
           UNCHANGED <<config, emailClaim, member, pc, cur, asserted, sound>>,
           s.created /\ Dated(s),
           \/ s.refresh = 0 /\ n = 0
           \/ /\ stored[u] # None /\ n = newest[u] /\ b = lost[u]
              /\ s.refresh = stored[u].refresh /\ s.email = stored[u].email
    PROVE  TypeOK' /\ IInv(u)'
<1>1. /\ pc[u] = "idle" /\ cur[u] = None /\ asserted[u] = NoGroups /\ sound[u] = FALSE
      /\ s # None
  BY IdleBefore, Distinct DEF TypeOK
<1>2. /\ pc'[u] = "idle" /\ cur'[u] = None /\ stored'[u] = s
      /\ newest'[u] = n /\ lost'[u] = b
      /\ asserted'[u] = NoGroups /\ sound'[u] = FALSE
  BY <1>1 DEF TypeOK
<1>3. TypeOK'
  BY DEF TypeOK, kind
<1>4. Refreshes(u)'
  <2>1. IsNewest(u, s)'
    BY <1>1, <1>2, KindFixed DEF Refreshes, IsNewest, IInv
  <2>2. kind = "azure" /\ s.refresh # 0 => s.email # ""
    BY DEF Refreshes, IInv
  <2>3. QED
    BY <1>2, <2>1, <2>2, KindFixed DEF Refreshes
<1>5. Begins(u)' /\ Named(u)' /\ Granted(u)' /\ Validating(u)'
  BY <1>2 DEF Begins, Named, Granted, Validating
<1>6. HasTimes(u)'
  BY <1>2 DEF HasTimes
<1>7. QED
  BY <1>3, <1>4, <1>5, <1>6 DEF IInv

LEMMA IdTokenExpiresKeeps ==
    ASSUME TypeOK, Settled, NEW u \in Users, IInv(u), IdTokenExpires(u)
    PROVE  TypeOK' /\ IInv(u)'
<1>1. pc[u] = "idle" /\ stored[u] # None /\ stored[u] \in Session
  BY DEF IdTokenExpires, TypeOK
<1> DEFINE s == [stored[u] EXCEPT !.id = {"token"}]
<1>2. {"token"} \in SUBSET Features
  BY DEF Features
<1>3. /\ s \in Session /\ s.refresh = stored[u].refresh /\ s.email = stored[u].email
      /\ s.created = stored[u].created /\ s.expires = stored[u].expires
      /\ s.from = stored[u].from
  BY <1>1, <1>2 DEF Session
<1>4. stored' = [stored EXCEPT ![u] = s]
  BY DEF IdTokenExpires
<1> HIDE DEF s
<1>5. s.created /\ Dated(s)
  BY <1>1, <1>3 DEF IInv, HasTimes, Dated
<1>6. /\ newest[u] \in 0..MaxToken /\ newest' = [newest EXCEPT ![u] = newest[u]]
      /\ lost[u] \in BOOLEAN /\ lost' = [lost EXCEPT ![u] = lost[u]]
      /\ UNCHANGED <<config, emailClaim, member, pc, cur, asserted, sound>>
  BY DEF IdTokenExpires, TypeOK
<1>7. QED
  BY <1>1, <1>3, <1>4, <1>5, <1>6, StoredKeeps

LEMMA SessionExpiresKeeps ==
    ASSUME TypeOK, Settled, NEW u \in Users, IInv(u), SessionExpires(u)
    PROVE  TypeOK' /\ IInv(u)'
<1>1. pc[u] = "idle" /\ stored[u] # None /\ stored[u] \in Session
  BY DEF SessionExpires, TypeOK
<1> DEFINE s == [stored[u] EXCEPT !.expires = "past"]
<1>2. /\ s \in Session /\ s.refresh = stored[u].refresh /\ s.email = stored[u].email
      /\ s.created = stored[u].created /\ s.expires = "past"
  BY <1>1 DEF Session, Expiries
<1>3. stored' = [stored EXCEPT ![u] = s]
  BY DEF SessionExpires
<1> HIDE DEF s
<1>4. s.created /\ Dated(s)
  BY <1>1, <1>2 DEF IInv, HasTimes, Dated
<1>5. /\ newest[u] \in 0..MaxToken /\ newest' = [newest EXCEPT ![u] = newest[u]]
      /\ lost[u] \in BOOLEAN /\ lost' = [lost EXCEPT ![u] = lost[u]]
      /\ UNCHANGED <<config, emailClaim, member, pc, cur, asserted, sound>>
  BY DEF SessionExpires, TypeOK
<1>6. QED
  BY <1>1, <1>2, <1>3, <1>4, <1>5, StoredKeeps

LEMMA SignInFormKeeps ==
    ASSUME TypeOK, Settled, NEW u \in Users, IInv(u), SignInForm(u)
    PROVE  TypeOK' /\ IInv(u)'
<1>1. /\ FormSession \in Session /\ FormSession.refresh = 0
      /\ FormSession.created = TRUE /\ FormSession.from = "form"
  <2>1. FormSession \in Session
    BY BlankTyped DEF FormSession, Session
  <2>2. QED
    BY <2>1 DEF FormSession, Blank
<1>2. FormSession.created /\ Dated(FormSession)
  BY <1>1 DEF Dated
<1>3. /\ pc[u] = "idle" /\ stored' = [stored EXCEPT ![u] = FormSession]
      /\ 0 \in 0..MaxToken /\ newest' = [newest EXCEPT ![u] = 0]
      /\ FALSE \in BOOLEAN /\ lost' = [lost EXCEPT ![u] = FALSE]
      /\ UNCHANGED <<config, emailClaim, member, pc, cur, asserted, sound>>
  BY Distinct DEF SignInForm, Store
<1>4. QED
  BY <1>1, <1>2, <1>3, StoredKeeps

LEMMA StepKeeps ==
    ASSUME TypeOK, NEW u \in Users, IInv(u), Step(u)
    PROVE  TypeOK' /\ IInv(u)'
<1>1. Settled
  BY Elsewhere
<1>2. CASE Redeem(u) \/ GetEmailAddress(u) \/ EnrichSession(u) \/ SignedIn(u)
  BY <1>1, <1>2, RedeemKeeps, GetEmailAddressKeeps, EnrichSessionKeeps, SignedInKeeps
<1>3. CASE GetEmailAddressFails(u) \/ LoginRefused(u) \/ Respond(u)
  <2>1. pc[u] # "refreshed" /\ Ends(u) /\ member' = member /\ UNCHANGED sessionVars
    BY <1>3 DEF GetEmailAddressFails, LoginRefused, Respond
  <2>2. QED
    BY <1>1, <2>1, Ended
<1>4. CASE Clear(u) \/ Deny(u)
  <2>1. Ends(u) /\ member' = member /\ Store(u, None, 0, FALSE)
    BY <1>4 DEF Clear, Deny
  <2>2. QED
    BY <1>1, <2>1, Ended
<1>5. CASE Load(u) \/ RefreshSession(u) \/ SaveRefreshed(u) \/ SaveFails(u)
  BY <1>1, <1>5, LoadKeeps, RefreshSessionKeeps, SaveRefreshedKeeps, SaveFailsKeeps
<1>6. CASE NotDue(u) \/ RefreshSkipped(u) \/ RefreshRefused(u) \/ ValidateUnanswered(u) \/ Grant(u)
  <2> USE DEF Labels
  <2>1. CASE NotDue(u)
    BY <1>1, <2>1, Moved DEF NotDue
  <2>2. CASE RefreshSkipped(u)
    BY <1>1, <2>2, Moved DEF RefreshSkipped
  <2>3. CASE RefreshRefused(u)
    BY <1>1, <2>3, Moved DEF RefreshRefused
  <2>4. CASE ValidateUnanswered(u)
    BY <1>1, <2>4, Moved DEF ValidateUnanswered
  <2>5. CASE Grant(u)
    BY <1>1, <2>5, Moved DEF Grant
  <2>6. QED
    BY <1>6, <2>1, <2>2, <2>3, <2>4, <2>5
<1>7. CASE ValidateSession(u)
  <2>1. PICK live \in IF sound[u] /\ kind \in Refreshing THEN {TRUE} ELSE BOOLEAN :
           Goes(u, IF ~Expired(cur[u]) /\ Validates(cur[u], live)
                   THEN "accepted" ELSE "rejected")
    BY <1>7 DEF ValidateSession
  <2>2. pc[u] = "validating" /\ UNCHANGED <<config, emailClaim, member, cur, asserted, sound, sessionVars>>
    BY <1>7 DEF ValidateSession
  <2>3. CASE ~Expired(cur[u]) /\ Validates(cur[u], live)
    BY <1>1, <2>1, <2>2, <2>3, Moved DEF Labels
  <2>4. CASE ~(~Expired(cur[u]) /\ Validates(cur[u], live))
    <3>1. ~sound[u]
      BY <2>1, <2>4 DEF Validates, IInv, Validating
    <3>2. Goes(u, "rejected") /\ "rejected" \in Labels
      BY <2>1, <2>4 DEF Labels
    <3>3. QED
      BY <1>1, <2>2, <3>1, <3>2, Moved
  <2>5. QED
    BY <2>3, <2>4
<1>8. CASE Bearer(u) \/ SignInForm(u) \/ IdTokenExpires(u) \/ SessionExpires(u)
  BY <1>1, <1>8, BearerKeeps, SignInFormKeeps, IdTokenExpiresKeeps, SessionExpiresKeeps
<1>9. CASE MembershipChanges(u)
  <2>1. TypeOK'
    BY <1>9 DEF MembershipChanges, TypeOK, kind
  <2>2. Same(u)
    BY <1>9 DEF MembershipChanges, Same
  <2>3. QED
    BY <1>1, <2>1, <2>2, Undisturbed
<1>10. QED
  BY <1>2, <1>3, <1>4, <1>5, <1>6, <1>7, <1>8, <1>9 DEF Step

LEMMA Inductive ==
    ASSUME Inv, [Next]_vars
    PROVE  Inv'
<1> USE DEF Inv
<1>1. CASE OtherLogin
  <2>1. TypeOK'
    BY <1>1 DEF OtherLogin, TypeOK, sessionVars, kind
  <2>2. Settled /\ \A q \in Users : Same(q)
    BY <1>1 DEF OtherLogin, Settled, Same, sessionVars
  <2>3. QED
    BY <2>1, <2>2, Undisturbed
<1>2. ASSUME NEW u \in Users, Step(u)
      PROVE  Inv'
  <2>1. TypeOK' /\ IInv(u)'
    BY <1>2, StepKeeps
  <2>2. \A q \in Users \ {u} : IInv(q)'
    BY <1>2, Elsewhere, Undisturbed
  <2>3. QED
    BY <2>1, <2>2
<1>3. CASE UNCHANGED vars
  <2>1. TypeOK'
    BY <1>3 DEF vars, TypeOK, kind
  <2>2. Settled /\ \A q \in Users : Same(q)
    BY <1>3 DEF vars, Settled, Same
  <2>3. QED
    BY <2>1, <2>2, Undisturbed
<1>4. QED
  BY <1>1, <1>2, <1>3, Steps

\* What each provider has done to a user's session is, at every step, as Inv says.
THEOREM Invariance == Spec => []Inv
<1>1. Init => Inv
  BY InitInv
<1>2. Inv /\ [Next]_vars => Inv'
  BY Inductive
<1>3. QED
  BY <1>1, <1>2, PTL DEF Spec

--------------------------------------------------------------------------------
\* Types; and a request that is under way has a session to work on.
THEOREM TypeInvariant == Spec => []TypeOK
<1>1. Inv => TypeOK
  BY DEF Inv
<1>2. QED
  BY <1>1, Invariance, PTL

\* Between two requests the newest refresh token is in the store, unless a failure lost
\* it or Azure took an answer without one for the new token.
THEOREM NewestStored == Spec => []NewestTokenStored
<1>1. Inv => NewestTokenStored
  BY DEF Inv, IInv, Refreshes, IsNewest, NewestTokenStored
<1>2. QED
  BY <1>1, Invariance, PTL

\* Whoever is granted a request in which the provider named groups, or tests passed, is
\* admitted by those.
THEOREM MembersOnly == Spec => []MembershipCurrent
<1>1. ASSUME Inv, NEW u \in Users, pc[u] = "granted", asserted[u] # NoGroups
      PROVE  IF kind \in Tested THEN Admits(asserted[u])
             ELSE config.allowed # {} => asserted[u] \cap config.allowed # {}
  <2>1. Named(u) /\ Authorized(cur[u])
    BY <1>1 DEF Inv, IInv, Granted
  <2>2. CASE kind \in Tested
    BY <1>1, <2>1, <2>2 DEF Named
  <2>3. CASE kind \notin Tested
    BY <1>1, <2>1, <2>3 DEF Named, Authorized
  <2>4. QED
    BY <2>2, <2>3
<1>2. Inv => MembershipCurrent
  BY <1>1 DEF MembershipCurrent
<1>3. QED
  BY <1>2, Invariance, PTL

\* A refresh whose answer brought all that validation asks for, with Google and Azure a
\* lifetime too, is not thrown away by it.
THEOREM SoundKept == Spec => []SoundRefreshKept
<1>1. Inv => SoundRefreshKept
  BY DEF Inv, IInv, Validating, SoundRefreshKept
<1>2. QED
  BY <1>1, Invariance, PTL

\* A stored or granted session has the times GetClaim reads through pointers, but for those
\* of the sign-in form (no expiry), and of bearer tokens of an extra issuer or of a provider
\* that is not OIDC (no creation).
THEOREM TimesThere == Spec => []TimesSet
<1>1. ASSUME Inv, NEW u \in Users, pc[u] = "granted"
      PROVE  Dated(cur[u]) /\ (cur[u].created \/ Undated(cur[u]))
  <2>1. cur[u] # None
    BY <1>1, InHand DEF Inv
  <2>2. QED
    BY <1>1, <2>1 DEF Inv, IInv, HasTimes
<1>2. ASSUME Inv, NEW u \in Users, stored[u] # None
      PROVE  stored[u].created /\ Dated(stored[u])
  BY <1>2 DEF Inv, IInv, HasTimes
<1>3. Inv => TimesSet
  BY <1>1, <1>2 DEF TimesSet
<1>4. QED
  BY <1>3, Invariance, PTL

\* What a refresh saves goes on from the identity that was stored.
THEOREM IdentityGoesOn == Spec => IdentityKept
<1> DEFINE Kept == \A u \in Users : pc[u] = "refreshed" /\ stored'[u] # None /\ stored[u] # None
                                    => Continues(stored[u], stored'[u])
<1>1. ASSUME Inv, [Next]_vars, NEW u \in Users, pc[u] = "refreshed"
      PROVE  Continues(stored[u], stored'[u])
  <2>1. CASE stored'[u] = stored[u]
    BY <2>1 DEF Continues
  <2>2. CASE SaveRefreshed(u)
    BY <1>1, <2>2, SaveRefreshedKeeps, Elsewhere DEF Inv, Step
  <2>3. ASSUME stored'[u] # stored[u], ~SaveRefreshed(u) PROVE FALSE
    <3>1. CASE OtherLogin \/ UNCHANGED vars
      BY <2>3, <3>1 DEF OtherLogin, sessionVars, vars
    <3>2. ASSUME NEW q \in Users, Step(q), q # u PROVE FALSE
      BY <1>1, <2>3, <3>2, Elsewhere DEF Inv, Same
    <3>3. CASE Step(u)
      <4>1. SaveFails(u) \/ MembershipChanges(u)
        BY <1>1, <2>3, <3>3
           DEF Step, Redeem, GetEmailAddress, GetEmailAddressFails, EnrichSession, SignedIn,
               LoginRefused, Load, NotDue, RefreshSkipped, RefreshRefused, RefreshSession,
               ValidateSession, ValidateUnanswered, Clear, Bearer, Grant, Deny, Respond,
               IdTokenExpires, SessionExpires, SignInForm
      <4>2. QED
        BY <2>3, <4>1 DEF SaveFails, MembershipChanges
    <3>4. QED
      BY <1>1, <3>1, <3>2, <3>3, Steps
  <2>4. QED
    BY <2>1, <2>2, <2>3
<1>2. Inv /\ [Next]_vars => [Kept]_vars
  BY <1>1
<1>3. QED
  BY <1>2, Invariance, PTL DEF Spec, IdentityKept

================================================================================
