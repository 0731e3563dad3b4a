---------------------------- MODULE HeaderOptions ----------------------------
(***************************************************************************)
(* Headers with the session's claims: the command line's flags converted   *)
(* to the structured options, their validation, and what the middleware    *)
(* does with them on a request and its response.  Header values are their  *)
(* sources; the encoding and the joining of several with commas is left    *)
(* out.                                                                    *)
(***************************************************************************)
EXTENDS Naturals, Sequences, SequencesExt, FiniteSets

Tokens == {"access_token", "id_token", "refresh_token"}
Claims == Tokens \cup {"user", "email", "groups", "preferred_username"}

\* A header value: a claim, or "secret" for a static one.  password: with basic
\* credentials the claim is the user of, or the secret itself: "none" is no password,
\* "unreadable" one that is empty or cannot be read.
Source == [claim: Claims \cup {"", "secret"}, password: {"none", "set", "unreadable"}]
From(claim) == [claim |-> claim, password |-> "none"]

\* spelling: of the letters' cases, which requests ignore and the options do not.
HeaderOption ==
    [name: STRING, spelling: {"usual", "other"}, sources: Seq(Source), preserve: BOOLEAN]
Option(name, source) ==
    [name |-> name, spelling |-> "usual", sources |-> <<source>>, preserve |-> FALSE]
Claimed(name, claim) == Option(name, From(claim))

--------------------------------------------------------------------------------
\* getBasicAuthHeader and the rest, from the set f of the flags that are on.
BasicAuthHeader(f) ==
    Option("Authorization",
           [claim |-> IF "preferEmail" \in f THEN "email" ELSE "user",
            password |-> IF "password" \in f THEN "set" ELSE "unreadable"])
AuthorizationHeader == Claimed("Authorization", "id_token")

PassUserHeaders(f) ==
    <<Claimed("X-Forwarded-Groups", "groups")>> \o
    (IF "preferEmail" \in f THEN <<Claimed("X-Forwarded-User", "email")>>
     ELSE <<Claimed("X-Forwarded-User", "user"), Claimed("X-Forwarded-Email", "email")>>) \o
    <<Claimed("X-Forwarded-Preferred-Username", "preferred_username")>>

XAuthRequestHeaders ==
    <<Claimed("X-Auth-Request-User", "user"), Claimed("X-Auth-Request-Email", "email"),
      Claimed("X-Auth-Request-Preferred-Username", "preferred_username"),
      Claimed("X-Auth-Request-Groups", "groups")>>

When(cond, headers) == IF cond THEN headers ELSE <<>>

RequestHeaders(f) ==
    LET headers == When({"passBasicAuth", "password"} \subseteq f, <<BasicAuthHeader(f)>>)
                   \o When({"passBasicAuth", "passUserHeaders"} \cap f # {}, PassUserHeaders(f))
                   \o When("passAccessToken" \in f,
                           <<Claimed("X-Forwarded-Access-Token", "access_token")>>)
                   \o When("passAuthorization" \in f, <<AuthorizationHeader>>)
    IN [i \in DOMAIN headers |-> [headers[i] EXCEPT !.preserve = "strip" \notin f]]

ResponseHeaders(f) ==
    When("setXAuthRequest" \in f,
         XAuthRequestHeaders \o
         When("passAccessToken" \in f,
              <<Claimed("X-Auth-Request-Access-Token", "access_token")>>))
    \o When("setBasicAuth" \in f, <<BasicAuthHeader(f)>>)
    \o When("setAuthorization" \in f, <<AuthorizationHeader>>)

--------------------------------------------------------------------------------
SoundSource(v) == v.claim # "" /\ v.password # "unreadable"

\* validateHeaders.
HeadersAcceptedTwice(hs) ==
    \A i \in DOMAIN hs : hs[i].name # "" /\ \A v \in ToSet(hs[i].sources) : SoundSource(v)
HeadersAccepted(hs) ==
    /\ \A i \in DOMAIN hs : hs[i].name # "" /\ \A v \in ToSet(hs[i].sources) : SoundSource(v)
    /\ \A i, j \in DOMAIN hs :
          i # j => <<hs[i].name, hs[i].spelling>> # <<hs[j].name, hs[j].spelling>>

Uses(hs, tokens) == \E h \in ToSet(hs) : \E v \in ToSet(h.sources) : v.claim \in tokens

\* validateSessionCookieMinimal.
MinimalAcceptedRequest(minimal, requestHeaders, responseHeaders, refresh) ==
    minimal => ~Uses(requestHeaders, {"access_token", "id_token"}) /\ ~refresh
MinimalAccepted(minimal, requestHeaders, responseHeaders, refresh) ==
    minimal => /\ ~Uses(requestHeaders \o responseHeaders, {"access_token", "id_token"})
               /\ ~refresh

--------------------------------------------------------------------------------
\* A header map: the values of each name, in order.
NoHeaders(names) == [n \in names |-> <<>>]

\* stripHeaders.
Stripped(map, hs) ==
    LET gone == {h.name : h \in {g \in ToSet(hs) : ~g.preserve}}
    IN [n \in DOMAIN map |-> IF n \in gone THEN <<>> ELSE map[n]]

\* GetClaim and Inject: what there is of each source is added.  session: the claims that
\* are not empty, {} for no session.
Among(sources, there) ==
    FoldLeft(LAMBDA values, v : IF v \in there THEN Append(values, v) ELSE values, <<>>, sources)
Given(sources, session) ==
    Among(sources, {v \in ToSet(sources) : v.claim \in session \cup {"secret"}})
Added(map, h) == [map EXCEPT ![h.name] = @ \o h.values]
Injected(map, hs, session) ==
    FoldLeft(Added, map, [i \in DOMAIN hs |-> [name |-> hs[i].name,
                                               values |-> Given(hs[i].sources, session)]])

\* cookieForSession: what of a session a minimal cookie keeps.
MinimalSession(session) == session \ Tokens
==============================================================================
