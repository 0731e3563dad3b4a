--------------------------- MODULE ProviderOptions ---------------------------
(***************************************************************************)
(* The provider's options: the command line's converted to structured      *)
(* ones, their validation with OIDC discovery, and the provider made of    *)
(* them.  Only the first provider of the list is made.                     *)
(***************************************************************************)
EXTENDS Naturals, Sequences, FiniteSets

CONSTANT Group

Types == {"oidc", "adfs", "google", "gitlab", "azure", "github", "keycloak", "login.gov",
          "bitbucket", "linkedin", "facebook", "digitalocean", "nextcloud"}
Urls == {"login", "redeem", "jwks", "profile"}

\* Options of a provider.  groups, projects: those of Google, Keycloak and GitLab; project
\* stands for the groups made of the projects.  account: the service account's file.
\* key: how login.gov's key is given, keyGood: it can be read.  urls: by whom they are set.
OptionsWith(groups) ==
    [type: Types \cup {"unknown"}, id: {"", "first", "second"}, client: BOOLEAN,
     secret: {"none", "set", "file", "unreadable"},
     allowed: SUBSET Group, groups: groups, projects: {"none", "good", "bad"},
     admin: BOOLEAN, account: {"none", "file", "missing"},
     key: SUBSET {"value", "file"}, keyGood: BOOLEAN,
     issuer: BOOLEAN, skipIssuer: BOOLEAN, skipDiscovery: BOOLEAN,
     urls: [Urls -> {"none", "given", "found"}]]

ProviderOption == OptionsWith(SUBSET Group)

\* The options of the command line have groups and all the rest for every type; only
\* those of the type chosen are taken over.
ProviderFlags == OptionsWith([{"keycloak", "google", "gitlab"} -> SUBSET Group])
ConvertedProvider(f) ==
    [f EXCEPT
        !.id = "first",
        !.groups = IF f.type \in {"keycloak", "google", "gitlab"} THEN f.groups[f.type] ELSE {},
        !.projects = IF f.type = "gitlab" THEN @ ELSE "none",
        !.admin = f.type = "google" /\ @,
        !.account = IF f.type = "google" THEN @ ELSE "none",
        !.key = IF f.type = "login.gov" THEN @ ELSE {}]

--------------------------------------------------------------------------------
\* validateGoogleConfig: all three of them or none.
GoogleAccepted(p) ==
    p.type = "google" /\ (p.groups # {} \/ p.admin \/ p.account # "none") =>
        p.groups # {} /\ p.admin /\ p.account # "none"

\* validateProvider.
ProviderAccepted(p) ==
    /\ p.id # "" /\ p.client
    /\ p.type # "login.gov" => p.secret \in {"set", "file"}
    /\ GoogleAccepted(p)

\* validateProviders; there is one, or the program does not get this far.
ProvidersAccepted(ps, skipButton) ==
    /\ \A i \in DOMAIN ps : ProviderAccepted(ps[i])
    /\ \A i, j \in DOMAIN ps : i # j => ps[i].id # ps[j].id
    /\ skipButton => Len(ps) = 1

--------------------------------------------------------------------------------
\* What is found of the issuer: by the program itself when the issuer's name is not to
\* be checked, and by the library, which checks it.  The same again at gitlab.com.
Found == [own: BOOLEAN, urls: SUBSET Urls, library: BOOLEAN, gitlab: BOOLEAN]
\* One will do where nobody is asked.
Asked(p) == IF p.issuer \/ p.type = "gitlab" THEN Found ELSE {CHOOSE found \in Found : TRUE}

DiscoveredHere(p, found) ==
    IF ~(p.issuer /\ p.skipIssuer /\ ~p.skipDiscovery /\ found.own) THEN p
    ELSE [p EXCEPT !.skipDiscovery = TRUE,
                   !.urls = [u \in Urls |-> IF @[u] = "none" /\ u \in found.urls
                                            THEN "found" ELSE @[u]]]

\* The library's answer replaces the URLs even of the options.
DiscoveredByLibrary(p) ==
    IF p.issuer /\ ~p.skipDiscovery
    THEN [p EXCEPT !.urls["login"] = "found", !.urls["redeem"] = "found"] ELSE p

\* An error of the library ends the validation at once, the messages so far unsaid.
DiscoveryFails(p, found) ==
    p.issuer /\ ~DiscoveredHere(p, found).skipDiscovery /\ ~found.library
UrlsAccepted(p) ==
    p.issuer /\ p.skipDiscovery => \A u \in {"login", "redeem", "jwks"} : p.urls[u] # "none"
Discovered(p, found) == DiscoveredByLibrary(DiscoveredHere(p, found))

\* Of parseProviderInfo, what makes it complain.
KindAccepted(p, found) ==
    /\ p.type # "unknown"
    /\ p.type = "google" => p.account # "missing"
    /\ p.type = "oidc" => p.issuer
    /\ p.type = "gitlab" => p.projects # "bad" /\ (p.issuer \/ found.gitlab)
    /\ p.type = "login.gov" => Cardinality(p.key) = 1 /\ p.keyGood

\* PrefixAllowedGroups.
Projects(p) == IF p.projects = "good" THEN {"project"} ELSE {}
AllowedGroupsOverridden(p) ==
    CASE p.type \in {"keycloak", "google"} -> p.groups
      [] p.type = "gitlab" -> p.groups \cup Projects(p)
      [] OTHER -> p.allowed
\* SetAllowedGroups: groups of Keycloak and Google come before those allowed; GitLab
\* takes its own and no others.
AllowedGroups(p) ==
    CASE p.type = "keycloak" /\ p.groups # {} -> p.groups
      [] p.type = "google" /\ p.account = "file" /\ p.groups # {} -> p.groups
      [] p.type = "gitlab" -> p.groups \cup Projects(p)
      [] OTHER -> p.allowed

\* The provider.  restricted: SetGroupRestriction of Google.
MadeOf(p) ==
    [type |-> p.type, allowed |-> AllowedGroups(p), verifier |-> p.issuer \/ p.type = "gitlab",
     restricted |-> p.type = "google" /\ p.account = "file",
     urls |-> IF p.type = "gitlab" /\ ~p.issuer
              THEN [p.urls EXCEPT !["login"] = "found", !["redeem"] = "found"] ELSE p.urls]
==============================================================================
