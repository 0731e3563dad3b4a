----------------------------- MODULE MCProviders -----------------------------
(***************************************************************************)
(* TLC instance of Providers: every provider, with and without a group     *)
(* restriction, and the settings each of them reads.                       *)
(***************************************************************************)
EXTENDS Providers, TLC

CONSTANT Settings   \* the kinds of provider considered

Plain(k) == [kind |-> k, allowed |-> {}, verifier |-> k \in OidcLike \cup {"gitlab"},
             validateURL |-> k # "login.gov", profileURL |-> FALSE, checkNonce |-> TRUE,
             restricted |-> FALSE, tests |-> {}, htpasswd |-> TRUE, issuers |-> TRUE]
Varied(c) ==
    CASE c.kind = "oidc"   -> {[c EXCEPT !.profileURL = b, !.checkNonce = n] : b, n \in BOOLEAN}
      [] c.kind = "google" -> {[c EXCEPT !.restricted = b] : b \in BOOLEAN}
      [] c.kind = "azure"  -> {[c EXCEPT !.verifier = b] : b \in BOOLEAN}
      [] c.kind = "github" /\ c.allowed = {} ->
            {[c EXCEPT !.verifier = "repo" \in s, !.tests = s] : s \in SUBSET Tests}
      [] c.kind = "bitbucket" -> {[c EXCEPT !.tests = s] : s \in SUBSET {"team", "repo"}}
      [] OTHER             -> {c}
MCConfigs ==
    UNION {Varied(c) : c \in {[Plain(k) EXCEPT !.allowed = g] :
                              k \in Settings, g \in {{}, {CHOOSE h \in Groups : TRUE}}}}
==============================================================================
