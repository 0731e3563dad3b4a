------------------------------- MODULE Startup -------------------------------
(***************************************************************************)
(* From the configuration to the answers: main loads the options, from the *)
(* command line or the alpha configuration, validates them, builds the     *)
(* proxy and serves requests.  What an answer depends on besides the       *)
(* options is its route, headers, trusted address and redirect; logging in *)
(* is LoginFlow, who is let in Gateway, listening ServerGroup.             *)
(* Where a definition is preceded by one of the same form, the earlier one *)
(* is a mutant: the bug a property is shown to catch.                      *)
(***************************************************************************)
EXTENDS Routing, Networks, Redirects, HeaderOptions, ProviderOptions

CONSTANTS
    Configurations,     \* the configurations considered
    Requests(_),        \* and the requests, by what the configuration is about
    Nothing

\* Options and requests as their types have them.
ASSUME GivenAssumption ==
    /\ NoPath \notin Path
    /\ \A x \in Configurations :
          IF x.alpha
          THEN /\ x.given.upstreams \in Seq(UpstreamOption)
               /\ x.given.requestHeaders \in Seq(HeaderOption)
               /\ x.given.responseHeaders \in Seq(HeaderOption)
               /\ x.given.providers \in Seq(ProviderOption)
          ELSE x.given.upstreams \in Seq(UpstreamFlag) /\ x.given.provider \in ProviderFlags
ASSUME AskedAssumption ==
    \A x \in Configurations :
        /\ \A d \in x.core.whitelist : d.host \in Host
        /\ x.core.trusted \in Seq(Network)
        /\ Nothing \notin Requests(x)
        /\ \A r \in Requests(x) :
              /\ r.path \in Path
              /\ r.remote \in Address \cup {Unknown} /\ r.forwarded \in Address \cup {Unknown}
              /\ \A to \in {r.q.rd, r.q.header, r.q.uri, r.q.xuri, r.q.glued} : HasHost(to)
              /\ r.q.xhost \in Host /\ r.q.glued.form # "path"

VARIABLES
    c,          \* the configuration, as it is given
    phase,      \* how far the program got
    opts,       \* the Options struct
    proxy,      \* the OAuthProxy
    request,    \* the request that is answered
    answer
vars == <<c, phase, opts, proxy, request, answer>>

Phases == {"start", "loaded", "valid", "serving", "stopped", "refused", "panicked"}

Init ==
    /\ c \in Configurations
    /\ phase = "start"
    /\ opts = Nothing /\ proxy = Nothing /\ request = Nothing /\ answer = Nothing

Fails(how) == phase' = how /\ UNCHANGED <<c, opts, proxy, request, answer>>

--------------------------------------------------------------------------------
\* LegacyServer.convert: with a certificate only HTTPS, without one only HTTP.
ConvertedServer(f) ==
    [bind |-> f.bind /\ f.tls = "none", secure |-> f.secure /\ f.tls # "none", tls |-> f.tls]

\* ToOptions.
Loads(f) == \A i \in DOMAIN f.upstreams : f.upstreams[i].scheme # "unparsable"
ToOptions(f) ==
    [upstreams |-> [i \in DOMAIN f.upstreams |-> Converted(f.upstreams[i])],
     requestHeaders |-> RequestHeaders(f.headers),
     responseHeaders |-> ResponseHeaders(f.headers),
     server |-> ConvertedServer(f.server), metrics |-> f.metrics,
     providers |-> <<ConvertedProvider(f.provider)>>, core |-> c.core]
\* MergeInto: the alpha options as they are.
MergeInto(a) ==
    [upstreams |-> a.upstreams, requestHeaders |-> a.requestHeaders,
     responseHeaders |-> a.responseHeaders, server |-> a.server, metrics |-> a.metrics,
     providers |-> a.providers, core |-> c.core]

\* loadConfiguration.
Load ==
    /\ phase = "start"
    /\ c.alpha \/ Loads(c.given)
    /\ opts' = IF c.alpha THEN MergeInto(c.given) ELSE ToOptions(c.given)
    /\ phase' = "loaded"
    /\ UNCHANGED <<c, proxy, request, answer>>
LoadFails == phase = "start" /\ ~(c.alpha \/ Loads(c.given)) /\ Fails("refused")

--------------------------------------------------------------------------------
\* The core options.  faults: what is wrong with settings that are not looked at here
\* (cookie secret, name and SameSite, signature key, logging, regular expressions, JWT
\* issuers, CA files, missing e-mail restriction).  refresh: a refresh period is set;
\* late: it is not below the expiry, as when neither is set.  redis: sessions are kept
\* there; answers: it passes the health check.  realIP: the header for client addresses is a
\* known one.
CoreAccepted(o) ==
    /\ o.core.faults = {}
    /\ ~o.core.late
    /\ o.core.redis => o.core.answers
    /\ o.core.reverse => o.core.realIP
    /\ \A i \in DOMAIN o.core.trusted : Parses(o.core.trusted[i])

\* The provider, when OIDC discovery was through.
First(o, found) == Discovered(o.providers[1], found)
OptionsAccepted(o, found) ==
    /\ CoreAccepted(o)
    /\ MinimalAccepted(o.core.minimal, o.requestHeaders, o.responseHeaders, o.core.refresh)
    /\ HeadersAccepted(o.requestHeaders) /\ HeadersAccepted(o.responseHeaders)
    /\ ProvidersAccepted(o.providers, o.core.skipButton)
    /\ Accepted(o.upstreams)
    /\ UrlsAccepted(First(o, found))
    /\ KindAccepted(First(o, found), found)

\* Validate.  Without providers the messages gathered are lost in a panic.
ValidatePanics == phase = "loaded" /\ opts.providers = <<>> /\ Fails("panicked")
Validate ==
    /\ phase = "loaded" /\ opts.providers # <<>>
    /\ \E found \in Asked(opts.providers[1]) :
          /\ ~DiscoveryFails(opts.providers[1], found)
          /\ OptionsAccepted(opts, found)
          /\ opts' = [opts EXCEPT !.providers[1] = First(opts, found)]
    /\ phase' = "valid"
    /\ UNCHANGED <<c, proxy, request, answer>>
ValidateFails ==
    /\ phase = "loaded" /\ opts.providers # <<>>
    /\ \E found \in Asked(opts.providers[1]) :
          DiscoveryFails(opts.providers[1], found) \/ ~OptionsAccepted(opts, found)
    /\ Fails("refused")

--------------------------------------------------------------------------------
\* NewServer, unless the address is taken.
Listens(s) == s.secure => s.tls = "good"
Builds(o) ==
    /\ \A i \in DOMAIN o.upstreams : Rewrites(o.upstreams[i]) => o.upstreams[i].compiles
    /\ o.core.forceHTTPS => o.server.secure
    /\ Listens(o.server) /\ Listens(o.metrics)

\* NewOAuthProxy.
NewOAuthProxy ==
    /\ phase = "valid" /\ Builds(opts)
    /\ \E routes \in Orders(opts.upstreams) :
          proxy' = [routes |-> routes,
                    trusted |-> FoldLeft(AddIPNet, NewNetSet, opts.core.trusted),
                    provider |-> MadeOf(opts.providers[1])]
    /\ phase' = "serving"
    /\ UNCHANGED <<c, opts, request, answer>>
NewOAuthProxyFails ==   \* or an address to listen on is taken
    phase = "valid" /\ (~Builds(opts) \/ opts.server.bind) /\ Fails("refused")

--------------------------------------------------------------------------------
Names(hs) == {h.name : h \in ToSet(hs)}
\* The headers of a request whose client sends one of every name.
Client == From("client")
Sent(names) == [n \in names |-> <<Client>>]

\* What is left of a session once it was stored.
Stored(session) ==
    IF opts.core.minimal /\ ~opts.core.redis THEN MinimalSession(session) ELSE session
SessionOf(r) == IF r.bearer THEN r.session ELSE Stored(r.session)

\* headersChain: strip, inject, and the headers of the response.
AtUpstream(r, session) ==
    Injected(Stripped(Sent(Names(opts.requestHeaders)), opts.requestHeaders),
             opts.requestHeaders, session)
InResponse(session) ==
    Injected(NoHeaders(Names(opts.responseHeaders)), opts.responseHeaders, session)

IsTrusted(r) == Trusted(proxy.trusted, opts.core.reverse, r.remote, r.forwarded)

\* Proxy: on to the upstream of the path, or to the login.
Proxied(r) ==
    LET route == Route(proxy.routes, r.path)
    IN [allowed |-> TRUE, redirect |-> NoRedirect, route |-> route,
        asked |-> IF route.to = "upstream"
                  THEN HandedOn(CHOOSE u \in ToSet(proxy.routes) : u.id = route.id, r.path)
                  ELSE NoPath,
        headers |-> AtUpstream(r, SessionOf(r)), response |-> InResponse(SessionOf(r))]
NeedsLogin(r) ==
    [allowed |-> FALSE, redirect |-> GetRedirect(r.q, opts.core.whitelist), route |-> Elsewhere("login"),
     asked |-> NoPath, headers |-> <<>>, response |-> <<>>]

\* Bound: one request, of any that can be made; an answer leaves nothing behind.
Answer ==
    /\ phase = "serving" /\ request = Nothing
    /\ \E r \in Requests(c) :
          /\ request' = r
          /\ answer' = IF IsTrusted(r) \/ r.session # {} THEN Proxied(r) ELSE NeedsLogin(r)
    /\ UNCHANGED <<c, phase, opts, proxy>>

\* A signal.
Stop == phase = "serving" /\ Fails("stopped")

Next ==
    \/ Load \/ LoadFails
    \/ Validate \/ ValidateFails \/ ValidatePanics
    \/ NewOAuthProxy \/ NewOAuthProxyFails
    \/ Answer \/ Stop

Spec == Init /\ [][Next]_vars

--------------------------------------------------------------------------------
Served == phase = "serving" /\ request # Nothing
Upstreams == {opts.upstreams[i] : i \in DOMAIN opts.upstreams}

\* The type of the state, with what everything behind Validate takes for granted: a
\* known provider, and upstreams told apart by their names and by their paths.
TypeOK ==
    /\ phase \in Phases
    /\ phase \in {"valid", "serving", "stopped"} =>
          /\ opts.providers[1] \in ProviderOption /\ opts.providers[1].type \in Types
          /\ Cardinality({u.path : u \in Upstreams}) = Len(opts.upstreams)
          /\ Cardinality({u.id : u \in Upstreams}) = Len(opts.upstreams)
    /\ phase = "serving" => ToSet(proxy.routes) = Upstreams
    /\ request = Nothing => answer = Nothing

\* A path is served by the rewrite of the longest pattern that matches; if none does, by
\* the upstream of this very path; if there is none, by the subtree deepest in the path;
\* whatever the order of the options and the choices of the sort.  Only where nothing
\* serves it, but something would serve it with a slash, is it redirected.  What serves it
\* is asked for this path, or for all that is behind the pattern, and under the target, if
\* target and pattern both end in a slash, or neither; otherwise a path may leave the
\* target ("/bx" for "/b").
ServedFrom(us, p, route) ==
    LET rewrites == {u \in us : Rewrites(u) /\ Begins(u.path, p)}
        exact    == {u \in us : ~Rewrites(u) /\ u.path = p}
        subtrees == {u \in us : ~Rewrites(u) /\ u.path.slash /\ Begins(u.path, p)}
        deepest(vs) == {u \in vs : \A v \in vs : Length(v.path) <= Length(u.path)}
        slashed  == {u \in us : ~Rewrites(u) /\ u.path = Slashed(p)}
    IN IF rewrites # {} THEN route \in {UpstreamOf(u) : u \in deepest(rewrites)}
       ELSE IF exact # {} THEN route \in {UpstreamOf(u) : u \in exact}
       ELSE IF subtrees # {} THEN route \in {UpstreamOf(u) : u \in deepest(subtrees)}
       ELSE IF ~p.slash /\ slashed # {} THEN route.to = "redirect"
       ELSE route.to \in {"redirect", "not found"}
AskedFor(u, p, asked) ==
    IF ~Rewrites(u) THEN asked = p
    ELSE u.scheme = "http" /\ u.query # "bad" /\ u.target.slash = u.path.slash =>
         LET shift == Len(u.target.segs) - Len(u.path.segs)
         IN /\ Begins(u.target, asked)
            /\ Len(asked.segs) = Len(p.segs) + shift /\ asked.slash = p.slash
            /\ \A i \in Len(u.path.segs) + 1 .. Len(p.segs) : asked.segs[i + shift] = p.segs[i]
ServedByClosest ==
    Served /\ answer.allowed =>
        /\ ServedFrom(Upstreams, request.path, answer.route)
        /\ \A u \in Upstreams :
              answer.route = UpstreamOf(u) /\ ~u.static => AskedFor(u, request.path, answer.asked)

\* An upstream finds in a header no value of the client's, unless every option for this
\* header says to preserve it; and with the flags of the command line never the values
\* of two sources, which an upstream would read as one.
HeadersOwn ==
    Served /\ answer.allowed =>
        \A n \in DOMAIN answer.headers :
            /\ Client \in ToSet(answer.headers[n]) =>
                  \A h \in ToSet(opts.requestHeaders) : h.name = n => h.preserve
            /\ ~c.alpha =>
                  \A i, j \in DOMAIN answer.headers[n] :
                     i # j => Client \in {answer.headers[n][i], answer.headers[n][j]}

\* That sessions are stored without their tokens changes no header of a request or a
\* response, and no session is ever due for a refresh it has no token for.  Validation
\* does not think of the claim refresh_token.
MinimalLosesNothing ==
    Served /\ answer.allowed /\ opts.core.minimal =>
        /\ ~opts.core.refresh
        /\ ~Uses(opts.requestHeaders, {"refresh_token"}) =>
              answer.headers = AtUpstream(request, request.session)
        /\ ~Uses(opts.responseHeaders, {"refresh_token"}) =>
              answer.response = InResponse(request.session)

\* Without a session a request is answered exactly if the client's address is in one of
\* the networks of the options, whatever their masks, order and repetitions.
TrustedIffListed ==
    Served /\ request.session = {} =>
        LET a == ClientAddress(opts.core.reverse, request.remote, request.forwarded)
        IN answer.allowed =
              \E i \in DOMAIN opts.core.trusted :
                 LET n == opts.core.trusted[i]
                 IN /\ a # Unknown /\ a.version = n.version
                    /\ \A b \in 1..n.ones : a.bits[b] = n.bits[b]

\* Who has to log in is sent back to a path of this host or to a URL of a listed host
\* and port; to one of the proxy's own paths, which would be a loop, only on request.
RedirectLegal ==
    Served /\ ~answer.allowed =>
        LET to == answer.redirect
        IN /\ to.form \in {"path", "root", "url"}
           /\ to.form = "url" =>
                 \E d \in opts.core.whitelist :
                    /\ to.host = d.host \/ (d.dot /\ Len(to.host) > Len(d.host)
                                                  /\ IsPrefix(d.host, to.host))
                    /\ d.port \in {"*", to.port}
           /\ IsOwn(to) => to \in {request.q.rd, request.q.header}

\* Groups that the configuration demands of its provider restrict who is let in: they
\* survive the conversion, discovery and all the ways to say the same.  --allowed-group
\* and GitLab do not go together: without groups or projects of its own everybody is in.
Demanded ==
    IF c.alpha THEN c.given.providers[1].groups
    ELSE IF c.given.provider.type \in DOMAIN c.given.provider.groups
         THEN c.given.provider.groups[c.given.provider.type] ELSE {}
DemandedAllowed ==
    IF c.alpha THEN c.given.providers[1].allowed ELSE c.given.provider.allowed
RestrictionKept ==
    phase = "serving" =>
        LET type == proxy.provider.type
            own == IF type \in {"keycloak", "google", "gitlab"} THEN Demanded ELSE {}
        IN /\ own # {} => own \subseteq proxy.provider.allowed
           /\ own = {} /\ DemandedAllowed # {} /\ type # "gitlab" =>
                 proxy.provider.allowed = DemandedAllowed
           /\ type = "google" /\ own # {} => proxy.provider.restricted
==============================================================================
