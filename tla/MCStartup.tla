------------------------------ MODULE MCStartup ------------------------------
(***************************************************************************)
(* TLC instance of Startup: configurations that vary in one subject at a   *)
(* time, and for each the requests it is about.                            *)
(***************************************************************************)
EXTENDS Startup, TLC

P(segs, slash) == [segs |-> segs, slash |-> slash]
Paths == {Root} \cup {P(<<x>>, b) : x \in Segment, b \in BOOLEAN}
                \cup {P(<<x, y>>, b) : x, y \in Segment, b \in BOOLEAN}
Shallow == {p \in Paths : \A i \in DOMAIN p.segs : p.segs[i] = "a"}
MCWidth == [v4 |-> 2, v6 |-> 1]

NoServer == [bind |-> FALSE, secure |-> FALSE, tls |-> "none"]
HTTP == [bind |-> TRUE, secure |-> TRUE, tls |-> "none"]
Core == [faults |-> {}, refresh |-> FALSE, late |-> FALSE, minimal |-> FALSE, redis |-> FALSE,
         answers |-> TRUE, reverse |-> FALSE, realIP |-> TRUE, trusted |-> <<>>,
         forceHTTPS |-> FALSE, skipButton |-> FALSE, whitelist |-> {}]
Provider == [type |-> "keycloak", id |-> "first", client |-> TRUE, secret |-> "set",
             allowed |-> {}, groups |-> {}, projects |-> "none", admin |-> FALSE,
             account |-> "none", key |-> {}, keyGood |-> TRUE, issuer |-> FALSE,
             skipIssuer |-> FALSE, skipDiscovery |-> FALSE, urls |-> [u \in Urls |-> "none"]]
NoGroups == [keycloak |-> {}, google |-> {}, gitlab |-> {}]
Flag(scheme, path, fragment) == [scheme |-> scheme, path |-> path, fragment |-> fragment]
Flags == [upstreams |-> <<Flag("http", NoPath, NoPath)>>, headers |-> {"strip"},
          server |-> HTTP, metrics |-> NoServer, provider |-> [Provider EXCEPT !.groups = NoGroups]]
Upstream(p, target) ==
    [id |-> p, path |-> p, scheme |-> "http", static |-> FALSE, uri |-> TRUE,
     extras |-> FALSE, target |-> target, query |-> "none", compiles |-> TRUE]
Alpha == [upstreams |-> <<Upstream(Root, NoPath)>>, requestHeaders |-> <<>>,
          responseHeaders |-> <<>>, server |-> [HTTP EXCEPT !.secure = FALSE],
          metrics |-> NoServer, providers |-> <<Provider>>]

Legacy(about, given, core) == [about |-> about, alpha |-> FALSE, given |-> given, core |-> core]
Structured(about, given, core) == [about |-> about, alpha |-> TRUE, given |-> given, core |-> core]

--------------------------------------------------------------------------------
\* Up to three upstreams out of every path with one letter, rewritten or not; and flags.
Plain == {Upstream(p, NoPath) : p \in Shallow \cup {P(<<"b">>, FALSE)}}
Rewriting == {Upstream(p, P(<<"b">>, FALSE)) : p \in Shallow}
Odd == {[Upstream(P(<<"a">>, FALSE), P(<<"b">>, FALSE)) EXCEPT !.query = "bad"],
        Upstream(P(<<"a">>, FALSE), Root), Upstream(P(<<"a">>, TRUE), Root),
        [Upstream(P(<<"a">>, FALSE), P(<<"b">>, FALSE)) EXCEPT !.compiles = FALSE],
        [Upstream(P(<<"b">>, TRUE), Root) EXCEPT !.scheme = "file"],
        [Upstream(Root, NoPath) EXCEPT !.static = TRUE, !.uri = FALSE],
        [Upstream(Root, NoPath) EXCEPT !.static = TRUE],
        [Upstream(Root, NoPath) EXCEPT !.scheme = "ftp"],
        [Upstream(Root, NoPath) EXCEPT !.id = NoPath]}
UpstreamLists ==
    {<<u>> : u \in Plain \cup Rewriting \cup Odd} \cup {<<>>}
    \cup {<<u, v>> : u, v \in Plain \cup Rewriting \cup Odd}
    \cup {<<u, v, w>> : u \in Plain, v \in Plain, w \in Rewriting}
FlagLists == {<<f, g>> : f, g \in
                {Flag(s, p, q) : s \in Schemes, p \in {NoPath, Root, P(<<"a">>, TRUE)},
                                 q \in {NoPath, P(<<"a">>, FALSE)}}}
RoutingConfigs ==
    {Structured("routing", [Alpha EXCEPT !.upstreams = us], Core) : us \in UpstreamLists}
    \cup {Legacy("routing", [Flags EXCEPT !.upstreams = fs], Core) : fs \in FlagLists}

HeaderFlags == {"passBasicAuth", "passAccessToken", "passUserHeaders", "passAuthorization",
                "setBasicAuth", "setXAuthRequest", "setAuthorization", "preferEmail",
                "password", "strip"}
Options == {Claimed("X", "email"), [Claimed("X", "user") EXCEPT !.spelling = "other"],
            [Claimed("X", "id_token") EXCEPT !.preserve = TRUE], Claimed("X", ""),
            Claimed("Y", "refresh_token"), Claimed("", "user"), Claimed("Y", "secret"),
            [Claimed("Y", "user") EXCEPT !.sources = @ \o <<From("groups")>>]}
Cores == {[Core EXCEPT !.minimal = b, !.refresh = x, !.redis = d] : b, x, d \in BOOLEAN}
HeaderConfigs ==
    {Legacy("headers", [Flags EXCEPT !.headers = f], [Core EXCEPT !.minimal = b]) :
        f \in SUBSET HeaderFlags, b \in BOOLEAN}
    \cup {Structured("headers", [Alpha EXCEPT !.requestHeaders = <<h, i>>,
                                              !.responseHeaders = <<j>>], x) :
             h, i \in Options, j \in {Claimed("Y", "id_token"), Claimed("Y", "user")}, x \in Cores}

Good(n) == Parses(n)
Odds == {[version |-> "v4", bits |-> <<1, 1>>, ones |-> 1, cidr |-> TRUE]}
NetworkLists ==
    {<<n>> : n \in Network} \cup {<<n, m, o>> : n, m, o \in {x \in Network : x.cidr /\ Good(x)}}
NetworkConfigs ==
    {Legacy("networks", Flags, [Core EXCEPT !.trusted = l, !.reverse = b]) :
        l \in NetworkLists, b \in BOOLEAN}

Hosts == {<<"com">>, <<"com", "x">>, <<"org">>}
Listings == {{}, {[host |-> <<"com">>, dot |-> TRUE, port |-> ""]},
             {[host |-> <<"com">>, dot |-> FALSE, port |-> "*"],
              [host |-> <<"org">>, dot |-> FALSE, port |-> "80"]}}
RedirectConfigs ==
    {Legacy("redirects", Flags, [Core EXCEPT !.whitelist = w, !.reverse = b]) :
        w \in Listings, b \in BOOLEAN}

ProviderConfigs ==
    {Legacy("providers",
            [Flags EXCEPT !.provider = [Provider EXCEPT
                !.type = t, !.allowed = a, !.admin = m, !.account = s, !.projects = p,
                !.key = IF m THEN {"file"} ELSE {"value", "file"},
                !.groups = [keycloak |-> k, google |-> g, gitlab |-> l]]], Core) :
        t \in {"oidc", "google", "keycloak", "gitlab", "github", "login.gov", "unknown"},
        a, k, g, l \in SUBSET Group, m \in BOOLEAN, s \in {"none", "file", "missing"},
        p \in {"none", "good", "bad"}}
    \cup {Structured("providers",
            [Alpha EXCEPT !.providers = <<[Provider EXCEPT
                !.type = t, !.issuer = i, !.skipIssuer = n, !.skipDiscovery = d,
                !.allowed = Group, !.urls = [u \in Urls |-> IF u \in g THEN "given" ELSE "none"]]>>],
            Core) :
        t \in {"oidc", "gitlab"}, i, n, d \in BOOLEAN, g \in SUBSET {"login", "redeem", "jwks"}}
    \cup {Structured("providers", [Alpha EXCEPT !.providers = ps], [Core EXCEPT !.skipButton = b]) :
        b \in BOOLEAN,
        ps \in {<<>>, <<Provider, Provider>>, <<Provider, [Provider EXCEPT !.id = "second"]>>,
                <<[Provider EXCEPT !.id = ""]>>, <<[Provider EXCEPT !.client = FALSE]>>,
                <<[Provider EXCEPT !.secret = "unreadable"]>>}}

Servers == [bind: BOOLEAN, secure: BOOLEAN, tls: {"none", "good", "bad"}]
ServerConfigs ==
    {Legacy("servers", [Flags EXCEPT !.server = s], [Core EXCEPT !.forceHTTPS = b]) :
        s \in Servers, b \in BOOLEAN}
    \cup {Structured("servers", [Alpha EXCEPT !.server = s, !.metrics = m],
                     [Core EXCEPT !.forceHTTPS = b]) : s, m \in Servers, b \in BOOLEAN}
    \cup {Legacy("servers", Flags, [Core EXCEPT !.faults = f, !.refresh = x, !.late = l,
                                                !.reverse = ~x, !.realIP = x]) :
             f \in {{}, {"cookie"}}, x, l \in BOOLEAN}

MCConfigurations == RoutingConfigs \cup HeaderConfigs \cup NetworkConfigs
                    \cup RedirectConfigs \cup ProviderConfigs \cup ServerConfigs

--------------------------------------------------------------------------------
Here == [segs |-> <<"b">>, slash |-> FALSE]
Asking == [rd |-> NoRedirect, header |-> NoRedirect, uri |-> PathTo(FALSE), host |-> <<"com">>,
           port |-> "", xhost |-> <<>>, xport |-> "", xproto |-> TRUE, xuri |-> NoRedirect,
           reverse |-> FALSE, glued |-> [form |-> "other"]]
Request == [path |-> Here, session |-> {}, bearer |-> FALSE, remote |-> Unknown,
            forwarded |-> Unknown, q |-> Asking]
Redirections == {NoRedirect, PathTo(TRUE), PathTo(FALSE), [form |-> "bent"], [form |-> "other"],
                 Url(<<"com">>, "80", FALSE), Url(<<"com", "x">>, "", TRUE),
                 Url(<<"org">>, "", FALSE)}
Sessions == {{}, {"user", "email"}, Claims \ {"groups"}, Claims, {"user", "access_token"}}

MCRequests(x) ==
    CASE x.about = "routing"  -> {[Request EXCEPT !.path = p, !.session = {"user"}] : p \in Paths}
      [] x.about = "headers"  -> {[Request EXCEPT !.session = s] : s \in Sessions}
      [] x.about = "networks" ->
            {[Request EXCEPT !.remote = a] : a \in Address}
            \cup {[Request EXCEPT !.remote = CHOOSE a \in Address : TRUE, !.forwarded = f]
                  : f \in Address \cup {Unknown}}
      [] x.about = "redirects" ->
            {[Request EXCEPT !.q = [Asking EXCEPT
                !.rd = r, !.header = h, !.uri = u, !.xhost = w, !.xport = n, !.xproto = t,
                !.xuri = y, !.reverse = x.core.reverse]] :
                r \in Redirections, h \in {NoRedirect, PathTo(TRUE), Url(<<"com">>, "", FALSE)},
                u \in {PathTo(TRUE), PathTo(FALSE)}, w \in {<<>>} \cup Hosts, n \in {"", "80"},
                t \in BOOLEAN, y \in {NoRedirect, PathTo(TRUE), PathTo(FALSE), [form |-> "bent"]}}
            \cup {[Request EXCEPT !.q = [Asking EXCEPT
                !.rd = r, !.xhost = w, !.xproto = t, !.xuri = y, !.glued = g,
                !.reverse = x.core.reverse]] :
                r \in {NoRedirect, PathTo(TRUE)}, w \in Hosts, t \in BOOLEAN,
                y \in {[form |-> "other"], Url(<<"org">>, "", FALSE), PathTo(TRUE)},
                g \in {[form |-> "other"], Url(<<"org">>, "80", FALSE),
                       Url(<<"com", "x">>, "", FALSE)}}
      [] OTHER -> {Request}
==============================================================================
