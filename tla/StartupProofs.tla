---------------------------- MODULE StartupProofs ----------------------------
(***************************************************************************)
(* What an answer owes to the configuration, for any configurations and    *)
(* requests of their types.                                                *)
(***************************************************************************)
EXTENDS Startup, FiniteSetTheorems, TLAPS

\* The options as they were loaded, which the configuration says.
LoadedOptions == IF c.alpha THEN MergeInto(c.given) ELSE ToOptions(c.given)

\* What Validate makes of options l.
Checked(o, l) ==
    /\ l.providers # <<>>
    /\ \E found \in Asked(l.providers[1]) :
          /\ ~DiscoveryFails(l.providers[1], found)
          /\ OptionsAccepted(l, found)
          /\ o = [l EXCEPT !.providers[1] = First(l, found)]
\* And the proxy of options o.
NetSetFrom(networks) == FoldLeft(AddIPNet, NewNetSet, networks)
Built(p, o) ==
    /\ p.routes \in Orders(o.upstreams)
    /\ p.trusted = NetSetFrom(o.core.trusted)
    /\ p.provider = MadeOf(o.providers[1])

\* The headers of a request, and of its response, by the session as it was kept.
Kept(o, r) == IF r.bearer \/ ~(o.core.minimal /\ ~o.core.redis) THEN r.session
              ELSE MinimalSession(r.session)
AtUpstreamBy(o, session) ==
    Injected(Stripped(Sent(Names(o.requestHeaders)), o.requestHeaders), o.requestHeaders, session)
InResponseBy(o, session) ==
    Injected(NoHeaders(Names(o.responseHeaders)), o.responseHeaders, session)
\* The upstream of this name, and answer a to request r.
Of(routes, id) == CHOOSE u \in ToSet(routes) : u.id = id
Answers(a, r, p, o) ==
    /\ a.allowed = (Trusted(p.trusted, o.core.reverse, r.remote, r.forwarded) \/ r.session # {})
    /\ a.allowed => /\ a.route = Route(p.routes, r.path)
                    /\ a.asked = IF a.route.to = "upstream"
                                 THEN HandedOn(Of(p.routes, a.route.id), r.path) ELSE NoPath
                    /\ a.headers = AtUpstreamBy(o, Kept(o, r))
                    /\ a.response = InResponseBy(o, Kept(o, r))
    /\ ~a.allowed => a.redirect = GetRedirect(r.q, o.core.whitelist)

IInv ==
    /\ c \in Configurations /\ phase \in Phases
    /\ phase = "loaded" => opts = LoadedOptions
    /\ phase \in {"valid", "serving", "stopped"} => Checked(opts, LoadedOptions)
    /\ phase \in {"serving", "stopped"} => Built(proxy, opts)
    /\ phase \notin {"serving", "stopped"} => request = Nothing
    /\ request = Nothing => answer = Nothing
    /\ request # Nothing => request \in Requests(c) /\ Answers(answer, request, proxy, opts)

--------------------------------------------------------------------------------
LEMMA LoadedFixed ==
    ASSUME c' = c
    PROVE  LoadedOptions' = LoadedOptions
BY DEF LoadedOptions, MergeInto, ToOptions

LEMMA Inductive == IInv /\ [Next]_vars => IInv'
<1> SUFFICES ASSUME IInv, [Next]_vars
             PROVE  IInv'
  OBVIOUS
<1> USE DEF IInv
<1>1. c' = c /\ LoadedOptions' = LoadedOptions
  <2>1. c' = c
    BY DEF Next, Load, LoadFails, Validate, ValidateFails, ValidatePanics, NewOAuthProxy,
           NewOAuthProxyFails, Answer, Stop, Fails, vars
  <2>2. QED
    BY <2>1, LoadedFixed
<1>2. CASE Load
  BY <1>1, <1>2 DEF Load, LoadedOptions, Phases
<1>3. CASE Validate
  BY <1>1, <1>3 DEF Validate, Checked, Phases
<1>4. CASE NewOAuthProxy
  <2>1. Built(proxy', opts)
    BY <1>4 DEF NewOAuthProxy, Built, NetSetFrom
  <2>2. QED
    BY <1>1, <1>4, <2>1 DEF NewOAuthProxy, Phases
<1>5. CASE Answer
  <2>1. PICK r \in Requests(c) :
          /\ request' = r
          /\ answer' = IF IsTrusted(r) \/ r.session # {} THEN Proxied(r) ELSE NeedsLogin(r)
    BY <1>5 DEF Answer
  <2>2. r # Nothing
    BY AskedAssumption
  <2>3. ASSUME IsTrusted(r) \/ r.session # {}
        PROVE  Answers(Proxied(r), r, proxy, opts)
    <3>1. Kept(opts, r) = SessionOf(r)
      BY DEF Kept, SessionOf, Stored
    <3>2. AtUpstreamBy(opts, SessionOf(r)) = AtUpstream(r, SessionOf(r))
      BY DEF AtUpstreamBy, AtUpstream
    <3>3. InResponseBy(opts, SessionOf(r)) = InResponse(SessionOf(r))
      BY DEF InResponseBy, InResponse
    <3>4. Proxied(r).asked = IF Proxied(r).route.to = "upstream"
                             THEN HandedOn(Of(proxy.routes, Proxied(r).route.id), r.path)
                             ELSE NoPath
      BY DEF Proxied, Of
    <3>5. QED
      BY <2>3, <3>1, <3>2, <3>3, <3>4 DEF Answers, Proxied, IsTrusted
  <2>4. ASSUME ~(IsTrusted(r) \/ r.session # {})
        PROVE  Answers(NeedsLogin(r), r, proxy, opts)
    BY <2>4 DEF Answers, NeedsLogin, IsTrusted
  <2>5. Answers(answer', r, proxy, opts)
    BY <2>1, <2>3, <2>4
  <2>6. QED
    BY <1>1, <1>5, <2>1, <2>2, <2>5 DEF Answer
<1>6. CASE LoadFails \/ ValidateFails \/ ValidatePanics \/ NewOAuthProxyFails \/ Stop
  BY <1>1, <1>6
     DEF LoadFails, ValidateFails, ValidatePanics, NewOAuthProxyFails, Stop, Fails, Phases
<1>7. CASE UNCHANGED vars
  BY <1>1, <1>7 DEF vars
<1>8. QED
  BY <1>2, <1>3, <1>4, <1>5, <1>6, <1>7 DEF Next

\* Options, proxy and answer are what configuration and request make them.
THEOREM Invariance == Spec => []IInv
<1>1. Init => IInv
  BY DEF Init, IInv, Phases
<1>2. QED
  BY <1>1, Inductive, PTL DEF Spec

--------------------------------------------------------------------------------
LEMMA CoreStays ==
    ASSUME IInv, phase \in {"valid", "serving", "stopped"}
    PROVE  opts.core = c.core /\ CoreAccepted(opts)
<1>1. PICK found :
        /\ OptionsAccepted(LoadedOptions, found)
        /\ opts = [LoadedOptions EXCEPT !.providers[1] = First(LoadedOptions, found)]
  BY DEF IInv, Checked
<1>2. LoadedOptions.core = c.core /\ "core" \in DOMAIN LoadedOptions
  BY DEF LoadedOptions, MergeInto, ToOptions
<1>3. opts.core = LoadedOptions.core
  BY <1>1, <1>2
<1>4. QED
  BY <1>1, <1>2, <1>3 DEF OptionsAccepted, CoreAccepted

--------------------------------------------------------------------------------
\* Numbers: induction up to a bound, by the least for which something fails; and that
\* the recursion of a fold has a solution.
LEMMA LeastThere ==
    ASSUME NEW n \in Nat, NEW S \in SUBSET (0..n), S # {}
    PROVE  \E i \in S : \A j \in S : i <= j
<1>1. S \subseteq Nat
  OBVIOUS
<1>2. PICK i \in S : \A j \in S : ~(<<j, i>> \in OpToRel(<, Nat))
  BY <1>1, NatLessThanWellFounded, WFMin
<1>3. \A j \in S : ~(j < i)
  BY <1>1, <1>2 DEF OpToRel
<1>4. QED
  BY <1>1, <1>3

LEMMA UpTo ==
    ASSUME NEW n \in Nat, NEW holds, 0 \in holds,
           \A k \in 1..n : k - 1 \in holds => k \in holds
    PROVE  \A k \in 0..n : k \in holds
<1> DEFINE not == {k \in 0..n : k \notin holds}
<1>1. SUFFICES ASSUME not # {}
               PROVE  FALSE
  OBVIOUS
<1>2. PICK k \in not : \A j \in not : k <= j
  BY <1>1, LeastThere
<1>3. k \in 0..n /\ k \notin holds
  OBVIOUS
<1>4. k # 0
  BY <1>3
<1>5. k \in 1..n /\ k - 1 \in 0..n /\ k - 1 < k
  BY <1>3, <1>4
<1>6. k - 1 \in holds
  BY <1>2, <1>5
<1>7. QED
  BY <1>3, <1>5, <1>6

Folds(f, n, base, step) ==
    f = [t \in SUBSET (1..n) |->
            IF t = {} THEN base ELSE step[Max(t)][f[t \ {Max(t)}]]]

LEMMA LargestOf ==
    ASSUME NEW k \in Nat, NEW t \in SUBSET (1..k), k \in t
    PROVE  Max(t) = k
<1>1. \A y \in t : k >= y
  OBVIOUS
<1>2. Max(t) \in t /\ \A y \in t : Max(t) >= y
  BY <1>1 DEF Max
<1>3. Max(t) \in 1..k /\ Max(t) >= k
  BY <1>2
<1>4. QED
  BY <1>3

LEMMA MaxIn ==
    ASSUME NEW n \in Nat, NEW t \in SUBSET (1..n), t # {}
    PROVE  Max(t) \in t
<1> DEFINE not == {n - x : x \in t}
<1>1. not \in SUBSET (0..n) /\ not # {}
  <2>1. \A x \in t : n - x \in 0..n
    OBVIOUS
  <2>2. PICK x : x \in t
    OBVIOUS
  <2>3. n - x \in not
    BY <2>2
  <2>4. QED
    BY <2>1, <2>3
<1>2. PICK i \in not : \A j \in not : i <= j
  BY <1>1, LeastThere
<1>3. PICK x \in t : i = n - x
  OBVIOUS
<1>4. \A y \in t : x >= y
  <2>1. SUFFICES ASSUME NEW y \in t
                 PROVE  x >= y
    OBVIOUS
  <2>2. n - y \in not
    OBVIOUS
  <2>3. n - x <= n - y
    BY <1>2, <1>3, <2>2
  <2>4. x \in 1..n /\ y \in 1..n
    OBVIOUS
  <2>5. QED
    BY <2>3, <2>4
<1>5. QED
  BY <1>4 DEF Max

LEMMA Shorter ==
    ASSUME NEW n \in Nat, NEW k \in 1..n
    PROVE  1..k \in SUBSET (1..n) /\ 1..k # {} /\ (1..k) \ {k} = 1..(k - 1)
<1>1. k \in Nat /\ k >= 1 /\ k <= n
  OBVIOUS
<1>2. k \in 1..k
  BY <1>1
<1>3. \A i : i \in (1..k) \ {k} <=> i \in 1..(k - 1)
  BY <1>1
<1>4. \A i : i \in 1..k => i \in 1..n
  BY <1>1
<1>5. QED
  BY <1>2, <1>3, <1>4

LEMMA FoldExists ==
    ASSUME NEW n \in Nat, NEW D, NEW base \in D, NEW step \in [1..n -> [D -> D]]
    PROVE  \E f \in [SUBSET (1..n) -> D] : Folds(f, n, base, step)
<1> DEFINE holds == {k \in 0..n : \E f \in [SUBSET (1..k) -> D] : Folds(f, k, base, step)}
<1>1. 0 \in holds
  <2>1. PICK f : f = [t \in SUBSET (1..0) |-> base]
    OBVIOUS
  <2>2. 1..0 = {}
    OBVIOUS
  <2>3. \A t \in SUBSET (1..0) : t = {}
    BY <2>2
  <2>4. Folds(f, 0, base, step)
    BY <2>1, <2>3 DEF Folds
  <2>5. f \in [SUBSET (1..0) -> D]
    BY <2>1
  <2>6. 0 \in 0..n
    OBVIOUS
  <2>7. \E h \in [SUBSET (1..0) -> D] : Folds(h, 0, base, step)
    BY <2>4, <2>5
  <2>8. QED
    BY <2>6, <2>7
<1>2. ASSUME NEW k \in 1..n, k - 1 \in holds
      PROVE  k \in holds
  <2>1. PICK f \in [SUBSET (1..(k - 1)) -> D] : Folds(f, k - 1, base, step)
    BY <1>2
  <2>2. PICK g : g = [t \in SUBSET (1..k) |-> IF k \in t THEN step[k][f[t \ {k}]] ELSE f[t]]
    OBVIOUS
  <2>3. k \in Nat /\ k - 1 \in Nat
    BY <1>2
  <2>4. \A t \in SUBSET (1..k) : (k \in t => t \ {k} \in SUBSET (1..(k - 1)))
                                 /\ (k \notin t => t \in SUBSET (1..(k - 1)))
    BY <2>3
  <2>5. g \in [SUBSET (1..k) -> D]
    <3>1. step[k] \in [D -> D]
      BY <1>2
    <3>2. QED
      BY <2>1, <2>2, <2>4, <3>1
  <2>6. ASSUME NEW t \in SUBSET (1..k)
        PROVE  g[t] = IF t = {} THEN base ELSE step[Max(t)][g[t \ {Max(t)}]]
    <3>1. CASE k \in t
      <4>1. Max(t) = k
        BY <2>3, <3>1, LargestOf
      <4>2. k \notin t \ {k} /\ t \ {k} \in SUBSET (1..k)
        OBVIOUS
      <4>3. g[t \ {k}] = f[t \ {k}]
        BY <2>2, <4>2
      <4>4. QED
        BY <2>2, <3>1, <4>1, <4>3
    <3>2. CASE k \notin t
      <4>1. t \in SUBSET (1..(k - 1))
        BY <2>4, <3>2
      <4>2. f[t] = IF t = {} THEN base ELSE step[Max(t)][f[t \ {Max(t)}]]
        BY <2>1, <4>1 DEF Folds
      <4>3. g[t] = f[t] /\ g[t \ {Max(t)}] = f[t \ {Max(t)}]
        BY <2>2, <3>2
      <4>4. QED
        BY <4>2, <4>3
    <3>3. QED
      BY <3>1, <3>2
  <2>7. g = [t \in SUBSET (1..k) |-> IF t = {} THEN base ELSE step[Max(t)][g[t \ {Max(t)}]]]
    <3>1. g = [t \in SUBSET (1..k) |-> g[t]]
      BY <2>5
    <3>2. QED
      BY <2>6, <3>1
  <2>8. Folds(g, k, base, step)
    BY <2>7 DEF Folds
  <2>9. \E h \in [SUBSET (1..k) -> D] : Folds(h, k, base, step)
    BY <2>5, <2>8
  <2>10. k \in 0..n
    BY <1>2
  <2>11. QED
    BY <2>9, <2>10
<1> HIDE DEF holds
<1>3. \A k \in 0..n : k \in holds
  BY <1>1, <1>2, UpTo
<1>4. n \in holds
  BY <1>3
<1>5. QED
  BY <1>4 DEF holds

--------------------------------------------------------------------------------
\* Redirects: what GetRedirect takes is legal, and not one of the proxy's own pages
\* unless the request names it.
LEMMA PrefixLonger ==
    ASSUME NEW X, NEW s \in Seq(X), NEW t \in Seq(X), IsPrefix(s, t)
    PROVE  t = s \/ Len(t) > Len(s)
<1>1. CASE Len(t) = Len(s)
  <2>1. \A i \in 1..Len(s) : s[i] = SubSeq(s, 1, Len(s))[i] /\ t[i] = SubSeq(t, 1, Len(s))[i]
    BY <1>1
  <2>2. \A i \in 1..Len(s) : s[i] = t[i]
    BY <2>1 DEF IsPrefix
  <2>3. QED
    BY <1>1, <2>2
<1>2. CASE Len(t) # Len(s)
  BY <1>2 DEF IsPrefix
<1>3. QED
  BY <1>1, <1>2

Legal(to, whitelist) ==
    /\ to.form \in {"path", "root", "url"}
    /\ to.form = "url" =>
          \E d \in whitelist :
             /\ to.host = d.host \/ (d.dot /\ Len(to.host) > Len(d.host) /\ IsPrefix(d.host, to.host))
             /\ d.port \in {"*", to.port}

LEMMA ValidLegal ==
    ASSUME NEW whitelist, \A d \in whitelist : d.host \in Host,
           NEW to, HasHost(to), Valid(to, whitelist)
    PROVE  Legal(to, whitelist)
<1>1. CASE to.form = "url"
  <2>1. PICK d \in whitelist : HostListed(to.host, d) /\ PortListed(to.port, d)
    BY <1>1 DEF Valid
  <2>2. to.host \in Host /\ d.host \in Host
    BY <1>1, <2>1 DEF HasHost
  <2>3. to.host = d.host \/ (d.dot /\ Len(to.host) > Len(d.host) /\ IsPrefix(d.host, to.host))
    BY <2>1, <2>2, PrefixLonger DEF HostListed, Host
  <2>4. d.port \in {"*", to.port}
    BY <2>1 DEF PortListed
  <2>5. QED
    BY <1>1, <2>1, <2>3, <2>4 DEF Legal
<1>2. CASE to.form # "url"
  BY <1>2 DEF Valid, Legal
<1>3. QED
  BY <1>1, <1>2

Source4(q, whitelist, to) ==
    /\ HasHost(to)
    /\ IsOwn(to) => to \in {q.rd, q.header}

LEMMA SourcesHosts ==
    ASSUME NEW q, NEW whitelist, NEW i \in 1..4, q.xhost \in Host, q.glued.form # "path",
           \A to \in {q.rd, q.header, q.uri, q.xuri, q.glued} : HasHost(to)
    PROVE  Source4(q, whitelist, Sources(q, whitelist)[i])
<1>1. HasHost(NoRedirect) /\ HasHost(Slash) /\ ~IsOwn(NoRedirect) /\ ~IsOwn(Slash)
  BY DEF HasHost, NoRedirect, Slash, IsOwn
<1>2. \A r : Validated(r, whitelist) \in {r, NoRedirect}
  BY DEF Validated
<1>3. CASE i = 1
  <2>1. Sources(q, whitelist)[i] \in {q.rd, NoRedirect}
    BY <1>2, <1>3 DEF Sources
  <2>2. QED
    BY <1>1, <2>1 DEF Source4
<1>4. CASE i = 2
  <2>1. Sources(q, whitelist)[i] \in {q.header, NoRedirect}
    BY <1>2, <1>4 DEF Sources
  <2>2. QED
    BY <1>1, <2>1 DEF Source4
<1>5. CASE i = 3
  <2>1. Sources(q, whitelist)[i] = ForwardedRedirect(q, whitelist)
    BY <1>5 DEF Sources
  <2>2. ForwardedRedirect(q, whitelist) \in {Url(q.xhost, q.xport, FALSE), q.glued, NoRedirect}
    BY <1>2 DEF ForwardedRedirect, ForwardedUrl
  <2>3. HasHost(Url(q.xhost, q.xport, FALSE)) /\ ~IsOwn(Url(q.xhost, q.xport, FALSE))
    BY DEF HasHost, Url, IsOwn
  <2>4. HasHost(q.glued) /\ ~IsOwn(q.glued)
    BY DEF IsOwn
  <2>5. QED
    BY <1>1, <2>1, <2>2, <2>3, <2>4 DEF Source4
<1>6. CASE i = 4
  <2>1. Sources(q, whitelist)[i] = URIRedirect(q, whitelist)
    BY <1>6 DEF Sources
  <2>2. RequestURI(q) \in {q.uri, q.xuri}
    BY DEF RequestURI
  <2>3. PICK r \in {q.uri, q.xuri} : URIRedirect(q, whitelist) = IF IsOwn(r) THEN Slash ELSE r
    BY <2>2 DEF URIRedirect
  <2>4. QED
    BY <1>1, <2>1, <2>3 DEF Source4
<1>7. QED
  BY <1>3, <1>4, <1>5, <1>6

LEMMA Redirected ==
    ASSUME NEW q, NEW whitelist, q.xhost \in Host, q.glued.form # "path",
           \A to \in {q.rd, q.header, q.uri, q.xuri, q.glued} : HasHost(to),
           \A d \in whitelist : d.host \in Host,
           NEW to, to = GetRedirect(q, whitelist)
    PROVE  Legal(to, whitelist) /\ (IsOwn(to) => to \in {q.rd, q.header})
<1> DEFINE legal == {i \in 1..4 : Valid(Sources(q, whitelist)[i], whitelist)}
<1>1. CASE legal = {}
  <2>1. to = Slash
    BY <1>1 DEF GetRedirect
  <2>2. QED
    BY <2>1 DEF Legal, Slash, IsOwn
<1>2. CASE legal # {}
  <2>1. \E i \in legal : \A j \in legal : i <= j
    <3>1. legal \subseteq {1, 2, 3, 4}
      OBVIOUS
    <3>2. QED
      BY <1>2, <3>1
  <2>2. PICK i \in legal : to = Sources(q, whitelist)[i]
    BY <1>2, <2>1 DEF GetRedirect
  <2>3. Valid(to, whitelist) /\ Source4(q, whitelist, to)
    BY <2>2, SourcesHosts
  <2>4. QED
    BY <2>3, ValidLegal DEF Source4
<1>3. QED
  BY <1>1, <1>2

\* Who has to log in is sent back to a path of this host or to a listed URL, and to the
\* proxy's own pages only on request.
THEOREM RedirectsLegal == Spec => []RedirectLegal
<1>1. ASSUME IInv, Served, ~answer.allowed
      PROVE  /\ Legal(answer.redirect, opts.core.whitelist)
             /\ IsOwn(answer.redirect) => answer.redirect \in {request.q.rd, request.q.header}
  <2>1. /\ c \in Configurations /\ request \in Requests(c) /\ Checked(opts, LoadedOptions)
        /\ answer.redirect = GetRedirect(request.q, opts.core.whitelist)
    BY <1>1 DEF IInv, Served, Answers
  <2>2. opts.core = c.core
    BY <1>1, CoreStays DEF Served
  <2>3. QED
    BY <2>1, <2>2, AskedAssumption, Redirected
<1>2. IInv => RedirectLegal
  BY <1>1 DEF RedirectLegal, Legal
<1>3. QED
  BY <1>2, Invariance, PTL

--------------------------------------------------------------------------------
\* The provider: conversion and discovery leave what restricts it alone.
Restricts(p, q) ==
    /\ q.type = p.type /\ q.allowed = p.allowed /\ q.account = p.account
    /\ q.projects = p.projects

Fields == {"type", "allowed", "account", "projects", "groups", "skipDiscovery", "urls"}
SameGroups(p, q) == Restricts(p, q) /\ q.groups = p.groups

LEMMA FieldsThere ==
    ASSUME NEW p \in ProviderOption
    PROVE  Fields \subseteq DOMAIN p /\ p.urls \in [Urls -> {"none", "given", "found"}]
BY DEF ProviderOption, OptionsWith, Fields

LEMMA UrlsReplaced ==
    ASSUME NEW p \in ProviderOption, NEW b \in BOOLEAN,
           NEW urls \in [Urls -> {"none", "given", "found"}],
           NEW q, q = [p EXCEPT !.skipDiscovery = b, !.urls = urls]
    PROVE  q \in ProviderOption /\ SameGroups(p, q)
<1>1. q \in ProviderOption
  BY DEF ProviderOption, OptionsWith
<1>2. Fields \subseteq DOMAIN p
  BY FieldsThere
<1>3. /\ q.type = p.type /\ q.allowed = p.allowed /\ q.account = p.account
      /\ q.projects = p.projects /\ q.groups = p.groups
  BY <1>2 DEF Fields
<1>4. QED
  BY <1>1, <1>3 DEF SameGroups, Restricts

LEMMA DiscoveryKeeps ==
    ASSUME NEW p \in ProviderOption, NEW found
    PROVE  Discovered(p, found) \in ProviderOption /\ SameGroups(p, Discovered(p, found))
<1>1. \A r \in ProviderOption : SameGroups(r, r)
  BY DEF SameGroups, Restricts
<1>2. PICK q : q = DiscoveredHere(p, found)
  OBVIOUS
<1>3. q \in ProviderOption /\ SameGroups(p, q)
  <2>1. CASE q = p
    BY <1>1, <2>1
  <2>2. CASE q # p
    <3>1. PICK urls : urls = [u \in Urls |-> IF p.urls[u] = "none" /\ u \in found.urls
                                             THEN "found" ELSE p.urls[u]]
      OBVIOUS
    <3>2. q = [p EXCEPT !.skipDiscovery = TRUE, !.urls = urls]
      BY <1>2, <2>2, <3>1, FieldsThere DEF DiscoveredHere, Fields
    <3>3. urls \in [Urls -> {"none", "given", "found"}]
      BY <3>1, FieldsThere
    <3>4. QED
      BY <3>2, <3>3, UrlsReplaced
  <2>3. QED
    BY <2>1, <2>2
<1>4. PICK r : r = DiscoveredByLibrary(q)
  OBVIOUS
<1>5. r \in ProviderOption /\ SameGroups(q, r)
  <2>1. CASE r = q
    BY <1>1, <1>3, <2>1
  <2>2. CASE r # q
    <3>1. PICK urls : urls = [q.urls EXCEPT !["login"] = "found", !["redeem"] = "found"]
      OBVIOUS
    <3>2. Fields \subseteq DOMAIN q /\ q.urls \in [Urls -> {"none", "given", "found"}]
      BY <1>3, FieldsThere
    <3>3. r = [q EXCEPT !.urls = urls]
      BY <1>4, <2>2, <3>1, <3>2 DEF DiscoveredByLibrary, Fields
    <3>4. q.skipDiscovery \in BOOLEAN
      BY <1>3 DEF ProviderOption, OptionsWith
    <3>5. r = [q EXCEPT !.skipDiscovery = q.skipDiscovery, !.urls = urls]
      BY <3>2, <3>3 DEF Fields
    <3>6. urls \in [Urls -> {"none", "given", "found"}]
      BY <3>1, <3>2
    <3>7. QED
      BY <1>3, <3>4, <3>5, <3>6, UrlsReplaced
  <2>3. QED
    BY <2>1, <2>2
<1>6. SameGroups(p, r)
  BY <1>3, <1>5 DEF SameGroups, Restricts
<1>7. QED
  BY <1>2, <1>4, <1>5, <1>6 DEF Discovered

LEMMA ConversionKeeps ==
    ASSUME NEW f \in ProviderFlags,
           NEW p, p = ConvertedProvider(f)
    PROVE  /\ p \in ProviderOption
           /\ p.type = f.type /\ p.allowed = f.allowed
           /\ f.type \in DOMAIN f.groups => p.groups = f.groups[f.type]
           /\ f.type \notin DOMAIN f.groups => p.groups = {}
<1>1. /\ DOMAIN f.groups = {"keycloak", "google", "gitlab"}
      /\ \A t \in DOMAIN f.groups : f.groups[t] \in SUBSET Group
  BY DEF ProviderFlags, OptionsWith
<1>2. PICK groups : groups = IF f.type \in {"keycloak", "google", "gitlab"}
                             THEN f.groups[f.type] ELSE {}
  OBVIOUS
<1>3. PICK projects : projects = IF f.type = "gitlab" THEN f.projects ELSE "none"
  OBVIOUS
<1>4. PICK admin : admin = (f.type = "google" /\ f.admin)
  OBVIOUS
<1>5. PICK account : account = IF f.type = "google" THEN f.account ELSE "none"
  OBVIOUS
<1>6. PICK key : key = IF f.type = "login.gov" THEN f.key ELSE {}
  OBVIOUS
<1>7. DOMAIN f = {"type", "id", "client", "secret", "allowed", "groups", "projects", "admin",
                  "account", "key", "keyGood", "issuer", "skipIssuer", "skipDiscovery", "urls"}
  BY DEF ProviderFlags, OptionsWith
<1>8. p = [f EXCEPT !.id = "first", !.groups = groups, !.projects = projects,
                    !.admin = admin, !.account = account, !.key = key]
  BY <1>2, <1>3, <1>4, <1>5, <1>6, <1>7 DEF ConvertedProvider
<1>9. /\ groups \in SUBSET Group /\ projects \in {"none", "good", "bad"}
      /\ admin \in BOOLEAN /\ account \in {"none", "file", "missing"}
      /\ key \in SUBSET {"value", "file"}
  BY <1>1, <1>2, <1>3, <1>4, <1>5, <1>6 DEF ProviderFlags, OptionsWith
<1>10. p \in ProviderOption
  <2>1. p = [type |-> f.type, id |-> "first", client |-> f.client, secret |-> f.secret,
             allowed |-> f.allowed, groups |-> groups, projects |-> projects, admin |-> admin,
             account |-> account, key |-> key, keyGood |-> f.keyGood, issuer |-> f.issuer,
             skipIssuer |-> f.skipIssuer, skipDiscovery |-> f.skipDiscovery, urls |-> f.urls]
    BY <1>8 DEF ProviderFlags, OptionsWith
  <2>2. /\ f.type \in Types \cup {"unknown"} /\ f.client \in BOOLEAN
        /\ f.secret \in {"none", "set", "file", "unreadable"} /\ f.allowed \in SUBSET Group
        /\ f.keyGood \in BOOLEAN /\ f.issuer \in BOOLEAN /\ f.skipIssuer \in BOOLEAN
        /\ f.skipDiscovery \in BOOLEAN /\ f.urls \in [Urls -> {"none", "given", "found"}]
    BY DEF ProviderFlags, OptionsWith
  <2>3. QED
    BY <1>9, <2>1, <2>2 DEF ProviderOption, OptionsWith
<1>11. p.type = f.type /\ p.allowed = f.allowed /\ p.groups = groups
  BY <1>7, <1>8
<1>12. QED
  BY <1>1, <1>2, <1>10, <1>11

LEMMA FirstTyped ==
    ASSUME IInv, phase \in {"valid", "serving", "stopped"}
    PROVE  LoadedOptions.providers \in Seq(ProviderOption)
           /\ LoadedOptions.providers[1] \in ProviderOption
<1>1. c \in Configurations /\ LoadedOptions.providers # <<>>
  BY DEF IInv, Checked
<1>2. CASE c.alpha
  <2>1. LoadedOptions.providers = c.given.providers
    BY <1>2 DEF LoadedOptions, MergeInto
  <2>2. QED
    BY <1>1, <1>2, <2>1, GivenAssumption
<1>3. CASE ~c.alpha
  <2>1. LoadedOptions.providers = <<ConvertedProvider(c.given.provider)>>
    BY <1>3 DEF LoadedOptions, ToOptions
  <2>2. ConvertedProvider(c.given.provider) \in ProviderOption
    BY <1>1, <1>3, GivenAssumption, ConversionKeeps
  <2>3. QED
    BY <2>1, <2>2
<1>4. QED
  BY <1>2, <1>3

\* The first provider as Validate leaves it, and what it was validated for.
LEMMA FirstValid ==
    ASSUME IInv, phase \in {"valid", "serving", "stopped"}
    PROVE  LET p == LoadedOptions.providers[1]
               q == opts.providers[1]
           IN /\ q \in ProviderOption /\ SameGroups(p, q)
              /\ q.type # "unknown" /\ GoogleAccepted(p)
              /\ q.type = "google" => q.account # "missing"
<1> DEFINE l == LoadedOptions
           p == l.providers[1]
<1>1. PICK found \in Asked(p) :
        OptionsAccepted(l, found) /\ opts = [l EXCEPT !.providers[1] = First(l, found)]
  BY DEF IInv, Checked
<1>2. l.providers \in Seq(ProviderOption) /\ p \in ProviderOption /\ l.providers # <<>>
  BY FirstTyped DEF IInv, Checked
<1>3. 1 \in DOMAIN l.providers
  BY <1>2
<1>4. opts.providers[1] = First(l, found)
  <2>1. "providers" \in DOMAIN l
    BY DEF LoadedOptions, MergeInto, ToOptions
  <2>2. QED
    BY <1>1, <1>3, <2>1
<1>5. /\ KindAccepted(First(l, found), found) /\ GoogleAccepted(p)
  BY <1>1, <1>3 DEF OptionsAccepted, ProvidersAccepted, ProviderAccepted
<1>6. First(l, found) = Discovered(p, found)
  BY DEF First
<1> HIDE DEF l, p
<1>7. QED
  BY <1>2, <1>4, <1>5, <1>6, DiscoveryKeeps DEF KindAccepted, l, p

LEMMA DemandedFirst ==
    ASSUME IInv, phase = "serving"
    PROVE  /\ Demanded = LoadedOptions.providers[1].groups
           /\ DemandedAllowed = LoadedOptions.providers[1].allowed
<1>1. c \in Configurations
  BY DEF IInv
<1>2. CASE c.alpha
  <2>1. LoadedOptions.providers = c.given.providers
    BY <1>2 DEF LoadedOptions, MergeInto
  <2>2. QED
    BY <1>2, <2>1 DEF Demanded, DemandedAllowed
<1>3. CASE ~c.alpha
  <2>1. LoadedOptions.providers[1] = ConvertedProvider(c.given.provider)
    BY <1>3 DEF LoadedOptions, ToOptions
  <2>2. c.given.provider \in ProviderFlags
    BY <1>1, <1>3, GivenAssumption
  <2>3. QED
    BY <1>3, <2>1, <2>2, ConversionKeeps DEF Demanded, DemandedAllowed
<1>4. QED
  BY <1>2, <1>3

LEMMA MadeRestricts ==
    ASSUME NEW p, NEW q \in ProviderOption, SameGroups(p, q), GoogleAccepted(p),
           q.type = "google" => q.account # "missing",
           NEW own, own = IF q.type \in {"keycloak", "google", "gitlab"} THEN p.groups ELSE {}
    PROVE  /\ MadeOf(q).type = q.type
           /\ own # {} => own \subseteq MadeOf(q).allowed
           /\ own = {} /\ q.type # "gitlab" => MadeOf(q).allowed = p.allowed
           /\ q.type = "google" /\ own # {} => MadeOf(q).restricted
<1>1. /\ MadeOf(q).type = q.type /\ MadeOf(q).allowed = AllowedGroups(q)
      /\ MadeOf(q).restricted = (q.type = "google" /\ q.account = "file")
  BY DEF MadeOf
<1>2. q.type = p.type /\ q.groups = p.groups /\ q.allowed = p.allowed /\ q.account = p.account
  BY DEF SameGroups, Restricts
<1>3. q.account \in {"none", "file", "missing"}
  BY DEF ProviderOption, OptionsWith
<1>4. q.type = "google" /\ q.groups # {} => q.account = "file"
  BY <1>2, <1>3 DEF GoogleAccepted
<1>5. /\ own # {} => own \subseteq AllowedGroups(q)
      /\ own = {} /\ q.type # "gitlab" => AllowedGroups(q) = q.allowed
  BY <1>2, <1>4 DEF AllowedGroups
<1>6. QED
  BY <1>1, <1>2, <1>4, <1>5

\* The groups a configuration demands restrict who is let in, however they were given.
THEOREM RestrictionStays == Spec => []RestrictionKept
<1>1. ASSUME IInv, phase = "serving"
      PROVE  RestrictionKept
  <2>1. PICK p, q : p = LoadedOptions.providers[1] /\ q = opts.providers[1]
    OBVIOUS
  <2>2. /\ q \in ProviderOption /\ SameGroups(p, q) /\ GoogleAccepted(p)
        /\ q.type = "google" => q.account # "missing"
    BY <1>1, <2>1, FirstValid
  <2>3. Demanded = p.groups /\ DemandedAllowed = p.allowed
    BY <1>1, <2>1, DemandedFirst
  <2>4. proxy.provider = MadeOf(q)
    BY <1>1, <2>1 DEF IInv, Built
  <2>5. PICK own : own = IF q.type \in {"keycloak", "google", "gitlab"} THEN p.groups ELSE {}
    OBVIOUS
  <2>6. /\ MadeOf(q).type = q.type
        /\ own # {} => own \subseteq MadeOf(q).allowed
        /\ own = {} /\ q.type # "gitlab" => MadeOf(q).allowed = p.allowed
        /\ q.type = "google" /\ own # {} => MadeOf(q).restricted
    BY <2>2, <2>5, MadeRestricts
  <2>7. QED
    BY <2>3, <2>4, <2>5, <2>6 DEF RestrictionKept
<1>2. IInv => RestrictionKept
  BY <1>1 DEF RestrictionKept
<1>3. QED
  BY <1>2, Invariance, PTL

--------------------------------------------------------------------------------
\* Routing: the router of any sorted order serves a path by what is closest to it.
LEMMA PathLengths ==
    ASSUME NEW p \in Path, NEW q \in Path
    PROVE  /\ Length(p) \in Nat
           /\ Begins(p, p)
           /\ Begins(p, q) /\ Length(q) <= Length(p) => q = p
<1>1. p.segs \in Seq(Segment) /\ q.segs \in Seq(Segment) /\ p.slash \in BOOLEAN /\ q.slash \in BOOLEAN
  BY DEF Path
<1>2. Len(p.segs) \in Nat /\ Len(q.segs) \in Nat
  BY <1>1
<1>3. /\ Length(p) \in {2 * Len(p.segs), 2 * Len(p.segs) + 1} /\ Length(p) \in Nat
      /\ Length(q) \in {2 * Len(q.segs), 2 * Len(q.segs) + 1}
      /\ p.slash <=> Length(p) = 2 * Len(p.segs) + 1
      /\ q.slash <=> Length(q) = 2 * Len(q.segs) + 1
  <2>1. \A m \in Nat, b \in BOOLEAN :
          LET k == 2 * m + IF b THEN 1 ELSE 0
          IN k \in {2 * m, 2 * m + 1} /\ k \in Nat /\ (b <=> k = 2 * m + 1)
    OBVIOUS
  <2>2. QED
    BY <1>1, <1>2, <2>1 DEF Length
<1>4. Begins(p, p)
  BY <1>1, <1>2 DEF Begins, IsPrefix
<1>5. ASSUME Begins(p, q), Length(q) <= Length(p)
      PROVE  q = p
  <2>1. q.segs = p.segs \/ Len(q.segs) > Len(p.segs)
    BY <1>1, <1>5, PrefixLonger DEF Begins
  <2>2. ~(Len(q.segs) > Len(p.segs))
    BY <1>2, <1>3, <1>5
  <2>3. q.segs = p.segs
    BY <2>1, <2>2
  <2>4. p.slash => q.slash
    BY <1>2, <1>5, <2>3 DEF Begins
  <2>5. q.slash => p.slash
    BY <1>2, <1>3, <1>5, <2>3
  <2>6. q.slash = p.slash
    BY <1>1, <2>4, <2>5
  <2>7. QED
    BY <2>3, <2>6 DEF Path
<1>6. QED
  BY <1>3, <1>4, <1>5

LEMMA ClosestRoute ==
    ASSUME NEW n \in Nat, NEW s, DOMAIN s = 1..n,
           \A i \in 1..n : s[i].path \in Path,
           \A i, j \in 1..n : i < j => ~Before(s[j], s[i]),
           NEW us, us = {s[i] : i \in 1..n},
           NEW p \in Path
    PROVE  ServedFrom(us, p, Route(s, p))
<1> DEFINE rewrites == {u \in us : Rewrites(u) /\ Begins(u.path, p)}
           exact    == {u \in us : ~Rewrites(u) /\ u.path = p}
           subtrees == {u \in us : ~Rewrites(u) /\ u.path.slash /\ Begins(u.path, p)}
           slashed  == {u \in us : ~Rewrites(u) /\ u.path = Slashed(p)}
<1>1. \A u \in us : u.path \in Path
  OBVIOUS
<1>2. \A u \in us : Matches(u, p) <=> u \in rewrites \cup exact \cup subtrees
  BY <1>1, PathLengths DEF Matches
<1>3. CASE Hits(s, p) # {}
  <2>1. \E i \in Hits(s, p) : \A j \in Hits(s, p) : i <= j
    <3>1. Hits(s, p) \in SUBSET (0..n)
      BY DEF Hits
    <3>2. QED
      BY <1>3, <3>1, LeastThere
  <2>2. PICK i \in Hits(s, p) :
          /\ \A j \in Hits(s, p) : i <= j
          /\ Route(s, p) = UpstreamOf(s[i])
    BY <1>3, <2>1 DEF Route
  <2>3. PICK u \in us : u = s[i] /\ Matches(u, p)
    BY <2>2 DEF Hits
  <2>4. \A v \in us : Matches(v, p) => v = u \/ ~Before(v, u)
    <3>1. SUFFICES ASSUME NEW j \in 1..n, Matches(s[j], p), j # i
                   PROVE  ~Before(s[j], s[i])
      BY <2>3
    <3>2. i \in 1..n /\ i <= j
      BY <2>2, <3>1 DEF Hits
    <3>3. i < j
      BY <3>1, <3>2
    <3>4. QED
      BY <3>2, <3>3
  <2>5. \A v \in us : Matches(v, p) /\ Rewrites(v) => Rewrites(u)
    BY <2>4 DEF Before
  <2>6. \A v \in us : Matches(v, p) /\ Rewrites(v) = Rewrites(u) => Length(v.path) <= Length(u.path)
    BY <1>1, <2>3, <2>4, PathLengths DEF Before
  <2>7. CASE rewrites # {}
    <3>1. u \in rewrites /\ \A v \in rewrites : Length(v.path) <= Length(u.path)
      BY <1>2, <2>3, <2>5, <2>6, <2>7
    <3>2. QED
      BY <2>2, <2>3, <2>7, <3>1 DEF ServedFrom
  <2>8. CASE rewrites = {} /\ exact # {}
    <3>1. ~Rewrites(u)
      BY <1>2, <2>3, <2>8
    <3>2. PICK v \in exact : v \in us /\ Matches(v, p) /\ ~Rewrites(v) /\ v.path = p
      BY <1>2, <2>8
    <3>3. Length(p) <= Length(u.path)
      BY <2>6, <3>1, <3>2 DEF Rewrites
    <3>4. u.path = p \/ Begins(u.path, p)
      BY <2>3, <3>1 DEF Matches
    <3>5. u.path = p
      BY <1>1, <3>3, <3>4, PathLengths
    <3>6. QED
      BY <2>2, <2>3, <2>8, <3>1, <3>5 DEF ServedFrom
  <2>9. CASE rewrites = {} /\ exact = {}
    <3>1. u \in subtrees
      BY <1>2, <2>3, <2>9
    <3>2. \A v \in subtrees : v \in us /\ Matches(v, p) /\ ~Rewrites(v)
      BY <1>2
    <3>3. \A v \in subtrees : Length(v.path) <= Length(u.path)
      BY <2>6, <3>1, <3>2 DEF Rewrites
    <3>4. QED
      BY <2>2, <2>3, <2>9, <3>1, <3>3 DEF ServedFrom
  <2>10. QED
    BY <2>7, <2>8, <2>9
<1>4. CASE Hits(s, p) = {}
  <2>1. \A u \in us : ~Matches(u, p)
    BY <1>4 DEF Hits
  <2>2. rewrites = {} /\ exact = {} /\ subtrees = {}
    BY <1>2, <2>1
  <2>3. Route(s, p) = IF ~p.slash /\ Hits(s, Slashed(p)) # {}
                      THEN Elsewhere("redirect") ELSE Elsewhere("not found")
    BY <1>4 DEF Route
  <2>4. ASSUME slashed # {}
        PROVE  Hits(s, Slashed(p)) # {}
    <3>1. PICK i \in 1..n : ~Rewrites(s[i]) /\ s[i].path = Slashed(p)
      BY <2>4
    <3>2. Matches(s[i], Slashed(p))
      BY <3>1, PathLengths DEF Matches
    <3>3. QED
      BY <3>2 DEF Hits
  <2>5. /\ Route(s, p).to \in {"redirect", "not found"}
        /\ ~p.slash /\ slashed # {} => Route(s, p).to = "redirect"
    <3>1. \A to : Elsewhere(to).to = to
      BY DEF Elsewhere
    <3>2. CASE ~p.slash /\ Hits(s, Slashed(p)) # {}
      BY <2>3, <3>1, <3>2
    <3>3. CASE ~(~p.slash /\ Hits(s, Slashed(p)) # {})
      <4>1. Route(s, p) = Elsewhere("not found")
        BY <2>3, <3>3
      <4>2. ~(~p.slash /\ slashed # {})
        BY <2>4, <3>3
      <4>3. QED
        BY <3>1, <4>1, <4>2
    <3>4. QED
      BY <3>2, <3>3
  <2>6. QED
    BY <2>2, <2>5 DEF ServedFrom
<1>5. QED
  BY <1>3, <1>4

LEMMA SequenceFinite ==
    ASSUME NEW X, NEW us \in Seq(X)
    PROVE  IsFiniteSet(ToSet(us))
<1>1. Len(us) \in Nat /\ DOMAIN us = 1..Len(us)
  OBVIOUS
<1>2. us \in Surjection(1..Len(us), ToSet(us))
  BY <1>1 DEF Surjection, ToSet
<1>3. IsFiniteSet(1..Len(us))
  BY <1>1, FS_Interval
<1>4. QED
  BY <1>2, <1>3, FS_Surjection

LEMMA Ordered ==
    ASSUME NEW X, NEW us \in Seq(X), NEW s \in Orders(us)
    PROVE  \E n \in Nat : /\ DOMAIN s = 1..n /\ ToSet(us) = {s[i] : i \in 1..n}
                          /\ \A i, j \in 1..n : i < j => ~Before(s[j], s[i])
<1> DEFINE S == ToSet(us)
           n == Cardinality(S)
<1>1. IsFiniteSet(S) /\ n \in Nat
  BY SequenceFinite, FS_CardinalityType
<1> HIDE DEF S
<1>2. /\ s \in [1..n -> S] /\ \A i, j \in 1..n : i # j => s[i] # s[j]
      /\ \A i, j \in DOMAIN s : i < j => ~Before(s[j], s[i])
  BY DEF Orders, SetToSeqs, S
<1>3. s \in Injection(1..n, S)
  BY <1>2 DEF Injection, IsInjective
<1>4. Cardinality(1..n) = n
  BY <1>1, FS_Interval
<1>5. s \in Surjection(1..n, S)
  BY <1>1, <1>3, <1>4, FS_Injection
<1>6. S = {s[i] : i \in 1..n}
  BY <1>5 DEF Surjection
<1>7. DOMAIN s = 1..n
  BY <1>2
<1>8. QED
  BY <1>1, <1>2, <1>6, <1>7 DEF S

LEMMA ConvertedTyped ==
    ASSUME NEW f \in UpstreamFlag
    PROVE  Converted(f) \in UpstreamOption
<1>1. Root \in Path
  BY DEF Root, Path
<1>2. /\ f.scheme \in Schemes /\ f.path \in Path \cup {NoPath}
      /\ f.fragment \in Path \cup {NoPath}
  BY DEF UpstreamFlag
<1>3. PICK at : at = IF f.scheme = "static" THEN Root
                     ELSE IF f.scheme = "file" /\ f.fragment # NoPath THEN f.fragment
                     ELSE IF f.path = NoPath THEN Root ELSE f.path
  OBVIOUS
<1>4. at \in Path \cup {NoPath}
  BY <1>1, <1>2, <1>3
<1>5. PICK id : id = IF f.scheme = "static" THEN f ELSE at
  OBVIOUS
<1>6. id \in Path \cup {NoPath} \cup UpstreamFlag
  BY <1>4, <1>5
<1>7. Converted(f) =
        [id |-> id, path |-> at, scheme |-> f.scheme,
         static |-> f.scheme = "static", uri |-> f.scheme # "static", extras |-> f.scheme # "static",
         target |-> NoPath, query |-> "none", compiles |-> TRUE]
  BY <1>3, <1>5 DEF Converted
<1>8. QED
  BY <1>2, <1>4, <1>6, <1>7 DEF UpstreamOption

\* The upstreams that were validated, however they were given.
LEMMA UpstreamsTyped ==
    ASSUME IInv, phase \in {"valid", "serving", "stopped"}
    PROVE  /\ opts.upstreams \in Seq(UpstreamOption) /\ Accepted(opts.upstreams)
           /\ Upstreams = ToSet(opts.upstreams)
<1>1. c \in Configurations /\ Checked(opts, LoadedOptions)
  BY DEF IInv
<1>2. LoadedOptions.upstreams \in Seq(UpstreamOption)
  <2>1. CASE c.alpha
    BY <1>1, <2>1, GivenAssumption DEF LoadedOptions, MergeInto
  <2>2. CASE ~c.alpha
    <3>1. PICK fs \in Seq(UpstreamFlag) : fs = c.given.upstreams
      BY <1>1, <2>2, GivenAssumption
    <3>2. LoadedOptions.upstreams = [i \in DOMAIN fs |-> Converted(fs[i])]
      BY <2>2, <3>1 DEF LoadedOptions, ToOptions
    <3>3. \A i \in DOMAIN fs : Converted(fs[i]) \in UpstreamOption
      BY ConvertedTyped
    <3>4. Len(fs) \in Nat /\ DOMAIN fs = 1..Len(fs)
      OBVIOUS
    <3>5. QED
      BY <3>2, <3>3, <3>4
  <2>3. QED
    BY <2>1, <2>2
<1>3. opts.upstreams = LoadedOptions.upstreams /\ Accepted(LoadedOptions.upstreams)
  <2>1. PICK found :
          /\ OptionsAccepted(LoadedOptions, found)
          /\ opts = [LoadedOptions EXCEPT !.providers[1] = First(LoadedOptions, found)]
    BY <1>1 DEF Checked
  <2>2. "upstreams" \in DOMAIN LoadedOptions
    BY DEF LoadedOptions, MergeInto, ToOptions
  <2>3. QED
    BY <2>1, <2>2 DEF OptionsAccepted
<1>4. QED
  BY <1>2, <1>3 DEF Upstreams, ToSet

\* The upstream of a route is the one the route was found by, since no two have one name.
LEMMA RoutedBy ==
    ASSUME NEW n \in Nat, NEW s, DOMAIN s = 1..n,
           \A i, j \in 1..n : s[i].id = s[j].id => s[i] = s[j],
           NEW us, us = {s[i] : i \in 1..n},
           NEW p, NEW u \in us, Route(s, p) = UpstreamOf(u)
    PROVE  Of(s, UpstreamOf(u).id) = u /\ UpstreamOf(u).to = "upstream" /\ Matches(u, p)
<1>1. UpstreamOf(u).id = u.id /\ UpstreamOf(u).to = "upstream"
  BY DEF UpstreamOf
<1>2. ToSet(s) = us
  BY DEF ToSet
<1>3. \A v \in ToSet(s) : v.id = u.id => v = u
  BY <1>2
<1>4. Of(s, u.id) = u
  BY <1>2, <1>3 DEF Of
<1>5. Hits(s, p) # {}
  <2>1. \A to \in {"redirect", "not found"} : Elsewhere(to).to # "upstream"
    BY DEF Elsewhere
  <2>2. QED
    BY <1>1, <2>1 DEF Route
<1>6. \E i \in Hits(s, p) : \A j \in Hits(s, p) : i <= j
  <2>1. Hits(s, p) \in SUBSET (0..n)
    BY DEF Hits
  <2>2. QED
    BY <1>5, <2>1, LeastThere
<1>7. PICK i \in Hits(s, p) : Route(s, p) = UpstreamOf(s[i])
  BY <1>5, <1>6 DEF Route
<1>8. i \in 1..n /\ Matches(s[i], p)
  BY <1>7 DEF Hits
<1>9. s[i].id = u.id
  BY <1>7 DEF UpstreamOf
<1>10. s[i] = u
  BY <1>8, <1>9
<1>11. QED
  BY <1>1, <1>4, <1>8, <1>10

\* What is behind the first m of the elements of s, put behind those of t.
Behind(t, s, m) == t \o SubSeq(s, m + 1, Len(s))
LEMMA Replaced ==
    ASSUME NEW X, NEW s \in Seq(X), NEW t \in Seq(X), NEW m \in 0..Len(s)
    PROVE  /\ Behind(t, s, m) \in Seq(X) /\ Len(Behind(t, s, m)) = Len(s) + (Len(t) - m)
           /\ IsPrefix(t, Behind(t, s, m))
           /\ \A i \in m + 1 .. Len(s) : Behind(t, s, m)[i + (Len(t) - m)] = s[i]
<1>1. Len(s) \in Nat /\ Len(t) \in Nat /\ m \in Nat
  OBVIOUS
<1>2. PICK rest : rest = SubSeq(s, m + 1, Len(s))
  OBVIOUS
<1>3. /\ rest \in Seq(X) /\ Len(rest) = Len(s) - m
      /\ \A i \in 1..(Len(s) - m) : rest[i] = s[m + i]
  BY <1>1, <1>2
<1>4. PICK new : new = Behind(t, s, m) /\ new = t \o rest
  BY <1>2 DEF Behind
<1>5. /\ new \in Seq(X) /\ Len(new) = Len(t) + (Len(s) - m)
      /\ \A i \in 1..Len(t) : new[i] = t[i]
      /\ \A i \in 1..(Len(s) - m) : new[Len(t) + i] = rest[i]
  <2>1. new \in Seq(X) /\ Len(new) = Len(t) + Len(rest)
    <3>1. rest \in Seq(X)
      BY <1>3
    <3>2. QED
      BY <1>4, <3>1
  <2>2. \A i \in 1..Len(t) : new[i] = t[i]
    BY <1>3, <1>4
  <2>3. \A i \in 1..Len(rest) : new[Len(t) + i] = rest[i]
    <3>1. SUFFICES ASSUME NEW i \in 1..Len(rest)
                   PROVE  new[Len(t) + i] = rest[i]
      OBVIOUS
    <3>2. Len(t) \in Nat /\ Len(rest) \in Nat
      BY <1>3
    <3>3. Len(t) + i \in 1..(Len(t) + Len(rest)) /\ ~(Len(t) + i <= Len(t))
      BY <3>2
    <3>4. new[Len(t) + i] = rest[(Len(t) + i) - Len(t)]
      BY <1>3, <1>4, <3>3
    <3>5. (Len(t) + i) - Len(t) = i
      BY <3>2
    <3>6. QED
      BY <3>4, <3>5
  <2>4. QED
    BY <1>3, <2>1, <2>2, <2>3
<1>6. SubSeq(new, 1, Len(t)) = SubSeq(t, 1, Len(t))
  BY <1>1, <1>5
<1>7. IsPrefix(t, new)
  BY <1>1, <1>5, <1>6 DEF IsPrefix
<1>8. \A i \in m + 1 .. Len(s) : new[i + (Len(t) - m)] = s[i]
  <2>1. SUFFICES ASSUME NEW i \in m + 1 .. Len(s)
                 PROVE  new[i + (Len(t) - m)] = s[i]
    OBVIOUS
  <2>2. i - m \in 1..(Len(s) - m) /\ Len(t) + (i - m) = i + (Len(t) - m) /\ m + (i - m) = i
    BY <1>1
  <2>3. QED
    BY <1>3, <1>5, <2>2
<1>9. Len(new) = Len(s) + (Len(t) - m)
  BY <1>1, <1>5
<1>10. QED
  BY <1>4, <1>5, <1>7, <1>8, <1>9

\* A path that is rewritten stays under the target, with all that is behind the pattern.
LEMMA AskedBehind ==
    ASSUME NEW u \in UpstreamOption, u.path \in Path, ~u.static, u.scheme \in {"http", "file"},
           NEW p \in Path, Rewrites(u) => Begins(u.path, p)
    PROVE  AskedFor(u, p, HandedOn(u, p))
<1>1. CASE ~Rewrites(u)
  BY <1>1 DEF AskedFor, HandedOn
<1>2. CASE Rewrites(u) /\ ~(u.scheme = "http" /\ u.query # "bad" /\ u.target.slash = u.path.slash)
  BY <1>2 DEF AskedFor
<1>3. CASE Rewrites(u) /\ u.scheme = "http" /\ u.query # "bad" /\ u.target.slash = u.path.slash
  <2>1. PICK asked : asked = HandedOn(u, p)
    OBVIOUS
  <2>2. u.target \in Path
    BY <1>3 DEF UpstreamOption, Rewrites
  <2>3. PICK t \in Seq(Segment), q \in Seq(Segment), s \in Seq(Segment) :
          t = u.target.segs /\ q = u.path.segs /\ s = p.segs
    BY <2>2 DEF Path
  <2>4. asked = Rewritten(u, p)
    BY <1>3, <2>1 DEF HandedOn
  <2>5. asked = [segs |-> t \o SubSeq(s, Len(q) + 1, Len(s)), slash |-> p.slash]
    BY <1>3, <2>3, <2>4 DEF Rewritten, Rest
  <2>6. Len(q) <= Len(s) /\ Len(q) \in Nat /\ Len(s) \in Nat /\ Len(t) \in Nat
    BY <1>3, <2>3 DEF Begins, IsPrefix
  <2>7. Len(q) \in 0..Len(s)
    BY <2>6
  <2>8. /\ Len(asked.segs) = Len(s) + (Len(t) - Len(q))
        /\ IsPrefix(t, asked.segs)
        /\ \A i \in Len(q) + 1 .. Len(s) : asked.segs[i + (Len(t) - Len(q))] = s[i]
    <3>1. asked.segs = Behind(t, s, Len(q))
      BY <2>5 DEF Behind
    <3>2. /\ Len(Behind(t, s, Len(q))) = Len(s) + (Len(t) - Len(q))
          /\ IsPrefix(t, Behind(t, s, Len(q)))
          /\ \A i \in Len(q) + 1 .. Len(s) :
                Behind(t, s, Len(q))[i + (Len(t) - Len(q))] = s[i]
      BY <2>7, Replaced
    <3>3. QED
      BY <3>1, <3>2
  <2>9. asked.slash = p.slash
    BY <2>5
  <2>10. u.target.slash => p.slash \/ Len(s) > Len(q)
    BY <1>3, <2>3 DEF Begins
  <2>11. Len(s) > Len(q) => Len(asked.segs) > Len(t)
    BY <2>6, <2>8
  <2>12. Begins(u.target, asked)
    BY <2>3, <2>8, <2>9, <2>10, <2>11 DEF Begins
  <2>13. AskedFor(u, p, asked)
    BY <1>3, <2>3, <2>8, <2>9, <2>12 DEF AskedFor
  <2>14. QED
    BY <2>1, <2>13
<1>4. QED
  BY <1>1, <1>2, <1>3

\* A path is served by what is closest to it: the rewrites before the exact paths before
\* the subtrees, the longest first, whatever the order the sort left them in; and what
\* serves it is asked for this path, or for all that is behind the pattern, under the target.
THEOREM ClosestServes == Spec => []ServedByClosest
<1>1. ASSUME IInv, Served, answer.allowed
      PROVE  /\ ServedFrom(Upstreams, request.path, answer.route)
             /\ \A u \in Upstreams : answer.route = UpstreamOf(u) /\ ~u.static =>
                   AskedFor(u, request.path, answer.asked)
  <2>1. /\ phase = "serving" /\ c \in Configurations /\ request \in Requests(c)
        /\ proxy.routes \in Orders(opts.upstreams)
        /\ answer.route = Route(proxy.routes, request.path)
        /\ answer.asked = IF answer.route.to = "upstream"
                          THEN HandedOn(Of(proxy.routes, answer.route.id), request.path)
                          ELSE NoPath
    BY <1>1 DEF IInv, Served, Built, Answers
  <2>2. /\ opts.upstreams \in Seq(UpstreamOption) /\ Accepted(opts.upstreams)
        /\ Upstreams = ToSet(opts.upstreams)
    BY <1>1, <2>1, UpstreamsTyped
  <2>3. PICK s : s = proxy.routes
    OBVIOUS
  <2>4. PICK n \in Nat : /\ DOMAIN s = 1..n /\ Upstreams = {s[i] : i \in 1..n}
                         /\ \A i, j \in 1..n : i < j => ~Before(s[j], s[i])
    BY <2>1, <2>2, <2>3, Ordered
  <2>5. \A u \in Upstreams :
          /\ u \in UpstreamOption /\ u.path \in Path
          /\ ~u.static => u.scheme \in {"http", "file"}
    <3>1. \A i \in DOMAIN opts.upstreams : opts.upstreams[i] \in UpstreamOption
      BY <2>2
    <3>2. \A i \in DOMAIN opts.upstreams : opts.upstreams[i].path \in Path
      BY <2>2, <3>1 DEF Accepted, SoundUpstream, UpstreamOption
    <3>3. \A i \in DOMAIN opts.upstreams :
            ~opts.upstreams[i].static => opts.upstreams[i].scheme \in {"http", "file"}
      BY <2>2 DEF Accepted, SoundUpstream
    <3>4. QED
      BY <2>2, <3>1, <3>2, <3>3 DEF ToSet
  <2>6. request.path \in Path
    BY <2>1, AskedAssumption
  <2>7. \A i \in 1..n : s[i].path \in Path
    BY <2>4, <2>5
  <2>8. ServedFrom(Upstreams, request.path, answer.route)
    BY <2>1, <2>3, <2>4, <2>6, <2>7, ClosestRoute
  <2>9. \A i, j \in 1..n : s[i].id = s[j].id => s[i] = s[j]
    <3>1. \A v, w \in Upstreams : v.id = w.id => v = w
      BY <2>2 DEF Accepted, ToSet
    <3>2. QED
      BY <2>4, <3>1
  <2>10. ASSUME NEW u \in Upstreams, answer.route = UpstreamOf(u), ~u.static
         PROVE  AskedFor(u, request.path, answer.asked)
    <3>1. Of(s, UpstreamOf(u).id) = u /\ UpstreamOf(u).to = "upstream" /\ Matches(u, request.path)
      <4>1. Route(s, request.path) = UpstreamOf(u)
        BY <2>1, <2>3, <2>10
      <4>2. DOMAIN s = 1..n /\ Upstreams = {s[i] : i \in 1..n}
        BY <2>4
      <4> HIDE DEF Upstreams
      <4>3. QED
        BY <2>9, <4>1, <4>2, RoutedBy
    <3>2. answer.asked = HandedOn(u, request.path)
      BY <2>1, <2>3, <2>10, <3>1
    <3>3. Rewrites(u) => Begins(u.path, request.path)
      BY <3>1 DEF Matches
    <3>4. QED
      BY <2>5, <2>6, <2>10, <3>2, <3>3, AskedBehind
  <2>11. QED
    BY <2>8, <2>10
<1>2. IInv => ServedByClosest
  BY <1>1 DEF ServedByClosest
<1>3. QED
  BY <1>2, Invariance, PTL

LEMMA IntervalSize ==
    ASSUME NEW n \in Nat
    PROVE  IsFiniteSet(1..n) /\ Cardinality(1..n) = n
BY FS_Interval

LEMMA Counted ==
    ASSUME NEW n \in Nat, NEW f, f = [i \in 1..n |-> f[i]], NEW S, S = {f[i] : i \in 1..n},
           \A i, j \in 1..n : i # j => f[i] # f[j]
    PROVE  Cardinality(S) = n
<1>1. f \in Surjection(1..n, S) /\ f \in Injection(1..n, S)
  BY DEF Surjection, Injection, IsInjective
<1>2. IsFiniteSet(1..n) /\ Cardinality(1..n) = n
  BY IntervalSize
<1>3. QED
  BY <1>1, <1>2, FS_Surjection

\* What everything behind Validate takes for granted.
THEOREM TypeInvariant == Spec => []TypeOK
<1>1. ASSUME IInv, phase \in {"valid", "serving", "stopped"}
      PROVE  /\ opts.providers[1] \in ProviderOption /\ opts.providers[1].type \in Types
             /\ Cardinality({u.path : u \in Upstreams}) = Len(opts.upstreams)
             /\ Cardinality({u.id : u \in Upstreams}) = Len(opts.upstreams)
  <2>1. opts.providers[1] \in ProviderOption /\ opts.providers[1].type # "unknown"
    BY <1>1, FirstValid
  <2>2. opts.providers[1].type \in Types
    BY <2>1 DEF ProviderOption, OptionsWith
  <2>3. PICK us \in Seq(UpstreamOption) : us = opts.upstreams /\ Accepted(us) /\ Upstreams = ToSet(us)
    BY <1>1, UpstreamsTyped
  <2>4. PICK n \in Nat : n = Len(us) /\ DOMAIN us = 1..n
    BY <2>3
  <2>5. \A i, j \in 1..n : i # j => us[i].id # us[j].id /\ us[i].path # us[j].path
    BY <2>3, <2>4 DEF Accepted
  <2>6. Cardinality({u.path : u \in Upstreams}) = n
    <3>1. PICK f : f = [i \in 1..n |-> us[i].path]
      OBVIOUS
    <3>2. PICK S : S = {u.path : u \in Upstreams} /\ S = {f[i] : i \in 1..n}
      <4>1. {u.path : u \in Upstreams} = {f[i] : i \in 1..n}
        BY <2>3, <2>4, <3>1 DEF ToSet
      <4>2. QED
        BY <4>1
    <3>3. \A i, j \in 1..n : i # j => f[i] # f[j]
      BY <2>5, <3>1
    <3>4. f = [i \in 1..n |-> f[i]]
      BY <3>1
    <3>5. Cardinality(S) = n
      <4>1. S = {f[i] : i \in 1..n}
        BY <3>2
      <4>2. QED
        BY ONLY n \in Nat, <4>1, <3>3, <3>4, Counted
    <3>6. QED
      BY <3>2, <3>5
  <2>7. Cardinality({u.id : u \in Upstreams}) = n
    <3>1. PICK f : f = [i \in 1..n |-> us[i].id]
      OBVIOUS
    <3>2. PICK S : S = {u.id : u \in Upstreams} /\ S = {f[i] : i \in 1..n}
      <4>1. {u.id : u \in Upstreams} = {f[i] : i \in 1..n}
        BY <2>3, <2>4, <3>1 DEF ToSet
      <4>2. QED
        BY <4>1
    <3>3. \A i, j \in 1..n : i # j => f[i] # f[j]
      BY <2>5, <3>1
    <3>4. f = [i \in 1..n |-> f[i]]
      BY <3>1
    <3>5. Cardinality(S) = n
      <4>1. S = {f[i] : i \in 1..n}
        BY <3>2
      <4>2. QED
        BY ONLY n \in Nat, <4>1, <3>3, <3>4, Counted
    <3>6. QED
      BY <3>2, <3>5
  <2>8. QED
    BY <2>1, <2>2, <2>3, <2>4, <2>6, <2>7
<1>2. ASSUME IInv, phase = "serving"
      PROVE  ToSet(proxy.routes) = Upstreams
  <2>1. opts.upstreams \in Seq(UpstreamOption) /\ Upstreams = ToSet(opts.upstreams)
    BY <1>2, UpstreamsTyped
  <2>2. proxy.routes \in Orders(opts.upstreams)
    BY <1>2 DEF IInv, Built
  <2>3. PICK n \in Nat : /\ DOMAIN proxy.routes = 1..n
                         /\ ToSet(opts.upstreams) = {proxy.routes[i] : i \in 1..n}
    BY <2>1, <2>2, Ordered
  <2>4. QED
    BY <2>1, <2>3 DEF ToSet
<1>3. IInv => TypeOK
  BY <1>1, <1>2 DEF IInv, TypeOK
<1>4. QED
  BY <1>3, Invariance, PTL

--------------------------------------------------------------------------------
\* Minimal sessions: what validation lets a header use, a minimal session still has.
HeadersOf(f) ==
    {BasicAuthHeader(f), AuthorizationHeader,
     Claimed("X-Forwarded-Groups", "groups"), Claimed("X-Forwarded-User", "email"),
     Claimed("X-Forwarded-User", "user"), Claimed("X-Forwarded-Email", "email"),
     Claimed("X-Forwarded-Preferred-Username", "preferred_username"),
     Claimed("X-Forwarded-Access-Token", "access_token"),
     Claimed("X-Auth-Request-User", "user"), Claimed("X-Auth-Request-Email", "email"),
     Claimed("X-Auth-Request-Preferred-Username", "preferred_username"),
     Claimed("X-Auth-Request-Groups", "groups"),
     Claimed("X-Auth-Request-Access-Token", "access_token")}

\* Of a request they are preserved, or not, together.
RequestHeadersOf(f) == {[h EXCEPT !.preserve = "strip" \notin f] : h \in HeadersOf(f)}

LEMMA HeadersConverted ==
    ASSUME NEW f
    PROVE  /\ RequestHeaders(f) \in Seq(RequestHeadersOf(f))
           /\ ResponseHeaders(f) \in Seq(HeadersOf(f))
<1> DEFINE X == HeadersOf(f)
<1>1. \A s, t \in Seq(X) : s \o t \in Seq(X)
  OBVIOUS
<1>2. \A b, s : s \in Seq(X) => When(b, s) \in Seq(X)
  BY DEF When
<1>3. \A h \in X : <<h>> \in Seq(X)
  OBVIOUS
<1>4. /\ BasicAuthHeader(f) \in X /\ AuthorizationHeader \in X
      /\ Claimed("X-Forwarded-Access-Token", "access_token") \in X
      /\ Claimed("X-Auth-Request-Access-Token", "access_token") \in X
  BY DEF HeadersOf
<1>5. PassUserHeaders(f) \in Seq(X) /\ XAuthRequestHeaders \in Seq(X)
  <2>1. XAuthRequestHeaders \in Seq(X)
    BY DEF HeadersOf, XAuthRequestHeaders
  <2>2. PICK s : s = IF "preferEmail" \in f THEN <<Claimed("X-Forwarded-User", "email")>>
                     ELSE <<Claimed("X-Forwarded-User", "user"),
                            Claimed("X-Forwarded-Email", "email")>>
    OBVIOUS
  <2>3. s \in Seq(X)
    <3>1. PICK user \in X, mail \in X, name \in X : /\ user = Claimed("X-Forwarded-User", "email")
                                        /\ name = Claimed("X-Forwarded-User", "user")
                                        /\ mail = Claimed("X-Forwarded-Email", "email")
      BY DEF HeadersOf
    <3>2. <<user>> \in Seq(X) /\ <<name, mail>> \in Seq(X)
      OBVIOUS
    <3>3. QED
      BY <2>2, <3>1, <3>2
  <2>4. /\ <<Claimed("X-Forwarded-Groups", "groups")>> \in Seq(X)
        /\ <<Claimed("X-Forwarded-Preferred-Username", "preferred_username")>> \in Seq(X)
    BY DEF HeadersOf
  <2>5. PassUserHeaders(f) =
          <<Claimed("X-Forwarded-Groups", "groups")>> \o s \o
          <<Claimed("X-Forwarded-Preferred-Username", "preferred_username")>>
    BY <2>2 DEF PassUserHeaders
  <2>6. PassUserHeaders(f) \in Seq(X)
    BY <1>1, <2>3, <2>4, <2>5
  <2>7. QED
    BY <2>1, <2>6
<1> HIDE DEF X
<1>6. RequestHeaders(f) \in Seq(RequestHeadersOf(f))
  <2>1. PICK b1, b2, b3, b4 : /\ b1 = ({"passBasicAuth", "password"} \subseteq f)
                              /\ b2 = ({"passBasicAuth", "passUserHeaders"} \cap f # {})
                              /\ b3 = ("passAccessToken" \in f)
                              /\ b4 = ("passAuthorization" \in f)
    OBVIOUS
  <2>2. PICK s \in Seq(X) :
          s = When(b1, <<BasicAuthHeader(f)>>) \o When(b2, PassUserHeaders(f))
              \o When(b3, <<Claimed("X-Forwarded-Access-Token", "access_token")>>)
              \o When(b4, <<AuthorizationHeader>>)
    BY <1>1, <1>2, <1>3, <1>4, <1>5
  <2>3. RequestHeaders(f) = [i \in DOMAIN s |-> [s[i] EXCEPT !.preserve = "strip" \notin f]]
    BY <2>1, <2>2 DEF RequestHeaders
  <2>4. Len(s) \in Nat /\ DOMAIN s = 1..Len(s)
    OBVIOUS
  <2>5. \A i \in DOMAIN s : [s[i] EXCEPT !.preserve = "strip" \notin f] \in RequestHeadersOf(f)
    BY DEF RequestHeadersOf, X
  <2>6. QED
    BY <2>3, <2>4, <2>5
<1>7. ResponseHeaders(f) \in Seq(X)
  <2>1. PICK s \in Seq(X) :
          s = XAuthRequestHeaders
              \o When("passAccessToken" \in f,
                      <<Claimed("X-Auth-Request-Access-Token", "access_token")>>)
    BY <1>1, <1>2, <1>3, <1>4, <1>5
  <2>2. ResponseHeaders(f) = When("setXAuthRequest" \in f, s)
                             \o When("setBasicAuth" \in f, <<BasicAuthHeader(f)>>)
                             \o When("setAuthorization" \in f, <<AuthorizationHeader>>)
    BY <2>1 DEF ResponseHeaders
  <2>3. QED
    BY <1>1, <1>2, <1>3, <1>4, <2>2
<1>8. QED
  BY <1>6, <1>7 DEF X

LEMMA UsesApart ==
    ASSUME NEW X, NEW Y, NEW s \in Seq(X), NEW t \in Seq(Y), NEW tokens, ~Uses(s \o t, tokens)
    PROVE  ~Uses(s, tokens) /\ ~Uses(t, tokens)
<1>1. s \in Seq(X \cup Y) /\ t \in Seq(X \cup Y)
  OBVIOUS
<1>2. \A i \in DOMAIN s : i \in DOMAIN (s \o t) /\ (s \o t)[i] = s[i]
  BY <1>1
<1>3. \A i \in DOMAIN t : Len(s) + i \in DOMAIN (s \o t) /\ (s \o t)[Len(s) + i] = t[i]
  BY <1>1
<1>4. ToSet(s) \subseteq ToSet(s \o t)
  BY <1>2 DEF ToSet
<1>5. ToSet(t) \subseteq ToSet(s \o t)
  BY <1>3 DEF ToSet
<1>6. QED
  BY <1>4, <1>5 DEF Uses

\* Headers that use no token are injected alike from a session and its minimal one.
LEMMA InjectedAlike ==
    ASSUME NEW map, NEW hs, NEW session, ~Uses(hs, Tokens)
    PROVE  Injected(map, hs, MinimalSession(session)) = Injected(map, hs, session)
<1>1. ASSUME NEW i \in DOMAIN hs
      PROVE  Given(hs[i].sources, MinimalSession(session)) = Given(hs[i].sources, session)
  <2>1. PICK sources : sources = hs[i].sources
    OBVIOUS
  <2>2. \A v \in ToSet(sources) : v.claim \notin Tokens
    BY <2>1 DEF Uses, ToSet
  <2>3. {v \in ToSet(sources) : v.claim \in MinimalSession(session) \cup {"secret"}}
          = {v \in ToSet(sources) : v.claim \in session \cup {"secret"}}
    BY <2>2 DEF MinimalSession
  <2>4. QED
    BY <2>1, <2>3 DEF Given
<1> DEFINE values(x) == [i \in DOMAIN hs |-> [name |-> hs[i].name,
                                              values |-> Given(hs[i].sources, x)]]
<1>2. values(MinimalSession(session)) = values(session)
  BY <1>1
<1>3. \A x : Injected(map, hs, x) = FoldLeft(Added, map, values(x))
  BY DEF Injected
<1> HIDE DEF values
<1>4. QED
  BY <1>2, <1>3

\* The headers of the options loaded, which validation leaves as they are.
LEMMA HeadersValid ==
    ASSUME IInv, phase \in {"valid", "serving", "stopped"}
    PROVE  /\ \E X : opts.requestHeaders \in Seq(X)
           /\ \E X : opts.responseHeaders \in Seq(X)
           /\ MinimalAccepted(opts.core.minimal, opts.requestHeaders, opts.responseHeaders,
                              opts.core.refresh)
<1>1. c \in Configurations
  BY DEF IInv
<1>2. PICK found :
        /\ OptionsAccepted(LoadedOptions, found)
        /\ opts = [LoadedOptions EXCEPT !.providers[1] = First(LoadedOptions, found)]
  BY DEF IInv, Checked
<1>3. {"core", "requestHeaders", "responseHeaders"} \subseteq DOMAIN LoadedOptions
  BY DEF LoadedOptions, MergeInto, ToOptions
<1>4. /\ opts.core = LoadedOptions.core
      /\ opts.requestHeaders = LoadedOptions.requestHeaders
      /\ opts.responseHeaders = LoadedOptions.responseHeaders
  BY <1>2, <1>3
<1>5. /\ \E X : LoadedOptions.requestHeaders \in Seq(X)
      /\ \E X : LoadedOptions.responseHeaders \in Seq(X)
  <2>1. CASE c.alpha
    BY <1>1, <2>1, GivenAssumption DEF LoadedOptions, MergeInto
  <2>2. CASE ~c.alpha
    <3>1. /\ LoadedOptions.requestHeaders = RequestHeaders(c.given.headers)
          /\ LoadedOptions.responseHeaders = ResponseHeaders(c.given.headers)
      BY <2>2 DEF LoadedOptions, ToOptions
    <3>2. QED
      BY <3>1, HeadersConverted
  <2>3. QED
    BY <2>1, <2>2
<1>6. QED
  BY <1>2, <1>4, <1>5 DEF OptionsAccepted

\* That sessions are stored without their tokens changes no header, and nothing is ever due
\* for a refresh it has no token for.
THEOREM MinimalLoses == Spec => []MinimalLosesNothing
<1>1. ASSUME IInv, Served, answer.allowed, opts.core.minimal
      PROVE  /\ ~opts.core.refresh
             /\ ~Uses(opts.requestHeaders, {"refresh_token"}) =>
                   answer.headers = AtUpstream(request, request.session)
             /\ ~Uses(opts.responseHeaders, {"refresh_token"}) =>
                   answer.response = InResponse(request.session)
  <2>1. /\ phase = "serving"
        /\ answer.headers = AtUpstreamBy(opts, Kept(opts, request))
        /\ answer.response = InResponseBy(opts, Kept(opts, request))
    BY <1>1 DEF IInv, Served, Answers
  <2>2. PICK X : opts.requestHeaders \in Seq(X)
    BY <1>1, <2>1, HeadersValid
  <2>3. PICK Y : opts.responseHeaders \in Seq(Y)
    BY <1>1, <2>1, HeadersValid
  <2>4. /\ ~Uses(opts.requestHeaders \o opts.responseHeaders, {"access_token", "id_token"})
        /\ ~opts.core.refresh
    BY <1>1, <2>1, HeadersValid DEF MinimalAccepted
  <2>5. /\ ~Uses(opts.requestHeaders, {"access_token", "id_token"})
        /\ ~Uses(opts.responseHeaders, {"access_token", "id_token"})
    BY <2>2, <2>3, <2>4, UsesApart
  <2>6. \A hs : Uses(hs, Tokens) => Uses(hs, {"access_token", "id_token"}) \/ Uses(hs, {"refresh_token"})
    BY DEF Uses, Tokens
  <2>7. Kept(opts, request) = request.session \/ Kept(opts, request) = MinimalSession(request.session)
    BY DEF Kept
  <2>8. ASSUME ~Uses(opts.requestHeaders, {"refresh_token"})
        PROVE  AtUpstreamBy(opts, Kept(opts, request)) = AtUpstreamBy(opts, request.session)
    <3>1. ~Uses(opts.requestHeaders, Tokens)
      BY <2>5, <2>6, <2>8
    <3>2. AtUpstreamBy(opts, MinimalSession(request.session)) = AtUpstreamBy(opts, request.session)
      BY <3>1, InjectedAlike DEF AtUpstreamBy
    <3>3. QED
      BY <2>7, <3>2
  <2>9. ASSUME ~Uses(opts.responseHeaders, {"refresh_token"})
        PROVE  InResponseBy(opts, Kept(opts, request)) = InResponseBy(opts, request.session)
    <3>1. ~Uses(opts.responseHeaders, Tokens)
      BY <2>5, <2>6, <2>9
    <3>2. InResponseBy(opts, MinimalSession(request.session)) = InResponseBy(opts, request.session)
      BY <3>1, InjectedAlike DEF InResponseBy
    <3>3. QED
      BY <2>7, <3>2
  <2>10. /\ AtUpstream(request, request.session) = AtUpstreamBy(opts, request.session)
         /\ InResponse(request.session) = InResponseBy(opts, request.session)
    BY DEF AtUpstream, AtUpstreamBy, InResponse, InResponseBy
  <2>11. QED
    BY <2>1, <2>4, <2>8, <2>9, <2>10
<1>2. IInv => MinimalLosesNothing
  BY <1>1 DEF MinimalLosesNothing
<1>3. QED
  BY <1>2, Invariance, PTL

--------------------------------------------------------------------------------
\* Trusted networks: a NetSet has the addresses of the networks added to it, and no others.
Bits == UNION {[1..Width[v] -> {0, 1}] : v \in Versions}
NetMap == [ones: Nat, ips: SUBSET Bits]
NetSet == [Versions -> Seq(NetMap)]

Listed(n, a) == a.version = n.version /\ Masked(a.bits, n.ones) = n.bits
HasIn(maps, bits) == \E i \in DOMAIN maps : Masked(bits, maps[i].ones) \in maps[i].ips

LEMMA OfNetwork ==
    ASSUME NEW n \in Network
    PROVE  /\ n.version \in Versions /\ n.ones \in Nat /\ n.ones <= Width[n.version]
           /\ n.bits \in [1..Width[n.version] -> {0, 1}] /\ n.bits \in Bits
           /\ Width[n.version] \in Nat
<1>1. PICK v \in Versions :
        n \in [version: {v}, bits: [1..Width[v] -> {0, 1}], ones: 0..Width[v], cidr: BOOLEAN]
  BY DEF Network
<1>2. Width[v] \in Nat
  BY WidthAssumption
<1>3. n.version = v /\ n.bits \in [1..Width[v] -> {0, 1}] /\ n.ones \in 0..Width[v]
  BY <1>1
<1>4. QED
  BY <1>2, <1>3 DEF Bits

LEMMA OfAddress ==
    ASSUME NEW a \in Address
    PROVE  a.version \in Versions /\ a.bits \in [1..Width[a.version] -> {0, 1}]
BY DEF Address

LEMMA MapAppended ==
    ASSUME NEW maps \in Seq(NetMap), NEW m \in NetMap, NEW bits
    PROVE  /\ Append(maps, m) \in Seq(NetMap)
           /\ HasIn(Append(maps, m), bits) <=> HasIn(maps, bits) \/ Masked(bits, m.ones) \in m.ips
<1>1. Append(maps, m) \in Seq(NetMap)
  OBVIOUS
<1>2. PICK k \in Nat : k = Len(maps)
  OBVIOUS
<1>3. PICK new : new = Append(maps, m)
  OBVIOUS
<1>4. DOMAIN maps = 1..k /\ DOMAIN new = 1..(k + 1)
  BY <1>2, <1>3
<1>5. new[k + 1] = m /\ \A i \in 1..k : new[i] = maps[i]
  BY <1>2, <1>3
<1>6. \A i \in 1..(k + 1) : i \in 1..k \/ i = k + 1
  OBVIOUS
<1>7. \A i \in 1..k : i \in 1..(k + 1)
  OBVIOUS
<1>8. k + 1 \in 1..(k + 1)
  OBVIOUS
<1>9. HasIn(new, bits) <=> HasIn(maps, bits) \/ Masked(bits, m.ones) \in m.ips
  BY <1>4, <1>5, <1>6, <1>7, <1>8 DEF HasIn
<1>10. QED
  BY <1>1, <1>3, <1>9

Grown(maps, i, ip) == [maps EXCEPT ![i].ips = @ \cup {ip}]

LEMMA MapGrows ==
    ASSUME NEW maps \in Seq(NetMap), NEW i \in DOMAIN maps, NEW ip \in Bits, NEW bits,
           NEW new, new = Grown(maps, i, ip)
    PROVE  /\ new \in Seq(NetMap)
           /\ HasIn(new, bits) <=> HasIn(maps, bits) \/ Masked(bits, maps[i].ones) = ip
<1>1. PICK k \in Nat : k = Len(maps) /\ DOMAIN maps = 1..k
  OBVIOUS
<1>2. maps[i] \in NetMap
  OBVIOUS
<1>3. PICK m : m = [maps[i] EXCEPT !.ips = @ \cup {ip}]
  OBVIOUS
<1>4. m \in NetMap /\ m.ones = maps[i].ones /\ m.ips = maps[i].ips \cup {ip}
  BY <1>2, <1>3 DEF NetMap
<1>5. new = [maps EXCEPT ![i] = m]
  BY <1>3 DEF Grown
<1>6. DOMAIN new = 1..k /\ new[i] = m /\ \A j \in 1..k : j # i => new[j] = maps[j]
  BY <1>1, <1>5
<1>7. new \in Seq(NetMap)
  <2>1. \A j \in 1..k : new[j] \in NetMap
    <3>1. SUFFICES ASSUME NEW j \in 1..k
                   PROVE  new[j] \in NetMap
      OBVIOUS
    <3>2. maps[j] \in NetMap
      BY <1>1
    <3>3. QED
      BY <1>4, <1>6, <3>2
  <2>2. new \in [1..k -> NetMap]
    BY <1>1, <1>5, <2>1
  <2>3. QED
    BY <1>1, <2>2
<1>8. HasIn(new, bits) <=> HasIn(maps, bits) \/ Masked(bits, maps[i].ones) = ip
  BY <1>1, <1>4, <1>6 DEF HasIn
<1>9. QED
  BY <1>7, <1>8

LEMMA AddsOne ==
    ASSUME NEW set \in NetSet, NEW n \in Network
    PROVE  /\ AddIPNet(set, n) \in NetSet
           /\ \A a \in Address : Has(AddIPNet(set, n), a) <=> Has(set, a) \/ Listed(n, a)
<1>1. /\ n.version \in Versions /\ n.ones \in Nat /\ n.bits \in Bits
  BY OfNetwork
<1>2. PICK maps \in Seq(NetMap) : maps = set[n.version]
  BY <1>1 DEF NetSet
<1>3. PICK same : same = {i \in DOMAIN maps : maps[i].ones = n.ones}
  OBVIOUS
<1>4. \E new \in Seq(NetMap) :
        /\ AddIPNet(set, n) = [set EXCEPT ![n.version] = new]
        /\ \A bits : HasIn(new, bits) <=> HasIn(maps, bits) \/ Masked(bits, n.ones) = n.bits
  <2>1. CASE same = {}
    <3>1. PICK m : m = [ones |-> n.ones, ips |-> {n.bits}]
      OBVIOUS
    <3>2. m \in NetMap /\ m.ones = n.ones /\ m.ips = {n.bits}
      BY <1>1, <3>1 DEF NetMap
    <3>3. AddIPNet(set, n) = [set EXCEPT ![n.version] = Append(maps, m)]
      BY <1>1, <1>2, <1>3, <2>1, <3>1 DEF AddIPNet, NetSet
    <3>4. \A bits : HasIn(Append(maps, m), bits) <=>
                    HasIn(maps, bits) \/ Masked(bits, n.ones) = n.bits
      BY <3>2, MapAppended
    <3>5. Append(maps, m) \in Seq(NetMap)
      BY <3>2, MapAppended
    <3>6. QED
      BY <3>3, <3>4, <3>5
  <2>2. CASE same # {}
    <3>1. PICK i \in same : i = CHOOSE j \in same : TRUE
      BY <2>2
    <3>2. i \in DOMAIN maps /\ maps[i].ones = n.ones
      BY <1>3
    <3>3. PICK new : new = Grown(maps, i, n.bits)
      OBVIOUS
    <3>4. AddIPNet(set, n) = [set EXCEPT ![n.version][i].ips = @ \cup {n.bits}]
      BY <1>2, <1>3, <2>2, <3>1 DEF AddIPNet
    <3>5. AddIPNet(set, n) = [set EXCEPT ![n.version] = new]
      BY <1>1, <1>2, <3>3, <3>4 DEF NetSet, Grown
    <3>6. \A bits : HasIn(new, bits) <=> HasIn(maps, bits) \/ Masked(bits, n.ones) = n.bits
      <4>1. SUFFICES ASSUME NEW bits
                     PROVE  HasIn(new, bits) <=> HasIn(maps, bits) \/ Masked(bits, n.ones) = n.bits
        OBVIOUS
      <4>2. HasIn(new, bits) <=> HasIn(maps, bits) \/ Masked(bits, maps[i].ones) = n.bits
        BY <1>1, <3>2, <3>3, MapGrows
      <4>3. QED
        BY <3>2, <4>2
    <3>7. new \in Seq(NetMap)
      BY <1>1, <3>2, <3>3, MapGrows
    <3>8. QED
      BY <3>5, <3>6, <3>7
  <2>3. QED
    BY <2>1, <2>2
<1>5. PICK new \in Seq(NetMap) :
        /\ AddIPNet(set, n) = [set EXCEPT ![n.version] = new]
        /\ \A bits : HasIn(new, bits) <=> HasIn(maps, bits) \/ Masked(bits, n.ones) = n.bits
  BY <1>4
<1>6. AddIPNet(set, n) \in NetSet
  BY <1>1, <1>5 DEF NetSet
<1>7. ASSUME NEW a \in Address
      PROVE  Has(AddIPNet(set, n), a) <=> Has(set, a) \/ Listed(n, a)
  <2>1. \A s : Has(s, a) <=> HasIn(s[a.version], a.bits)
    BY DEF Has, HasIn
  <2>2. CASE a.version = n.version
    <3>1. AddIPNet(set, n)[a.version] = new
      BY <1>1, <1>5, <2>2 DEF NetSet
    <3>2. QED
      BY <1>2, <1>5, <2>1, <2>2, <3>1 DEF Listed
  <2>3. CASE a.version # n.version
    <3>1. AddIPNet(set, n)[a.version] = set[a.version]
      BY <1>5, <2>3, OfAddress DEF NetSet
    <3>2. QED
      BY <2>1, <2>3, <3>1 DEF Listed
  <2>4. QED
    BY <2>2, <2>3
<1>8. QED
  BY <1>6, <1>7

LEMMA MaskedEqual ==
    ASSUME NEW w \in Nat, NEW ones \in Nat, ones <= w, NEW x \in [1..w -> {0, 1}],
           NEW y \in [1..w -> {0, 1}], \A i \in 1..w : i > ones => y[i] = 0
    PROVE  Masked(x, ones) = y <=> \A b \in 1..ones : x[b] = y[b]
<1>1. PICK m : m = Masked(x, ones)
  OBVIOUS
<1>2. m = [i \in 1..w |-> IF i <= ones THEN x[i] ELSE 0]
  BY <1>1 DEF Masked
<1>3. ASSUME m = y, NEW b \in 1..ones
      PROVE  x[b] = y[b]
  <2>1. b \in 1..w /\ b <= ones
    OBVIOUS
  <2>2. QED
    BY <1>2, <1>3, <2>1
<1>4. ASSUME \A b \in 1..ones : x[b] = y[b], NEW i \in 1..w
      PROVE  m[i] = y[i]
  <2>1. CASE i <= ones
    <3>1. i \in 1..ones
      BY <2>1
    <3>2. QED
      BY <1>2, <1>4, <2>1, <3>1
  <2>2. CASE ~(i <= ones)
    BY <1>2, <2>2
  <2>3. QED
    BY <2>1, <2>2
<1>5. (\A i \in 1..w : m[i] = y[i]) => m = y
  BY <1>2
<1>6. QED
  BY <1>1, <1>3, <1>4, <1>5

LEMMA ListedByBits ==
    ASSUME NEW n \in Network, Parses(n), NEW a \in Address
    PROVE  Listed(n, a) <=> /\ a.version = n.version
                            /\ \A b \in 1..n.ones : a.bits[b] = n.bits[b]
<1>1. SUFFICES ASSUME a.version = n.version
               PROVE  Masked(a.bits, n.ones) = n.bits <=>
                      \A b \in 1..n.ones : a.bits[b] = n.bits[b]
  BY DEF Listed
<1>2. PICK w \in Nat : w = Width[n.version]
  BY OfNetwork
<1>3. /\ n.ones \in Nat /\ n.ones <= w
      /\ n.bits \in [1..w -> {0, 1}] /\ a.bits \in [1..w -> {0, 1}]
  BY <1>1, <1>2, OfNetwork, OfAddress
<1>4. \A i \in 1..w : i > n.ones => n.bits[i] = 0
  <2>1. CASE n.cidr
    <3>1. Masked(n.bits, n.ones) = n.bits
      BY <2>1 DEF Parses
    <3>2. \A i \in 1..w : Masked(n.bits, n.ones)[i] = IF i <= n.ones THEN n.bits[i] ELSE 0
      BY <1>3 DEF Masked
    <3>3. QED
      BY <1>3, <3>1, <3>2
  <2>2. CASE ~n.cidr
    BY <1>2, <1>3, <2>2 DEF Parses
  <2>3. QED
    BY <2>1, <2>2
<1>5. PICK ones \in Nat, x \in [1..w -> {0, 1}], y \in [1..w -> {0, 1}] :
        ones = n.ones /\ x = a.bits /\ y = n.bits
  BY <1>3
<1>6. ones <= w /\ \A i \in 1..w : i > ones => y[i] = 0
  BY <1>3, <1>4, <1>5
<1>7. Masked(x, ones) = y <=> \A b \in 1..ones : x[b] = y[b]
  BY <1>6, MaskedEqual
<1>8. QED
  BY <1>5, <1>7

LEMMA NetFold ==
    ASSUME NEW n \in Nat, NEW s, DOMAIN s = 1..n, \A k \in 1..n : s[k] \in Network
    PROVE  \E g : /\ g[0] = NewNetSet /\ \A k \in 1..n : g[k] = AddIPNet(g[k - 1], s[k])
                  /\ NetSetFrom(s) = g[n]
<1> DEFINE It(f) == f = [t \in SUBSET (1..n) |->
                            IF t = {} THEN NewNetSet ELSE AddIPNet(f[t \ {Max(t)}], s[Max(t)])]
<1>1. \E f : It(f)
  <2>0. NewNetSet \in NetSet /\ \A x \in NetSet, k \in 1..n : AddIPNet(x, s[k]) \in NetSet
    BY AddsOne DEF NewNetSet, NetSet
  <2>1. PICK step : step = [k \in 1..n |-> [x \in NetSet |-> AddIPNet(x, s[k])]]
    OBVIOUS
  <2>2. step \in [1..n -> [NetSet -> NetSet]]
    BY <2>0, <2>1
  <2>3. PICK f \in [SUBSET (1..n) -> NetSet] : Folds(f, n, NewNetSet, step)
    BY <2>0, <2>2, FoldExists
  <2>4. ASSUME NEW t \in SUBSET (1..n), t # {}
        PROVE  step[Max(t)][f[t \ {Max(t)}]] = AddIPNet(f[t \ {Max(t)}], s[Max(t)])
    <3>1. Max(t) \in 1..n
      BY <2>4, MaxIn
    <3>2. f[t \ {Max(t)}] \in NetSet
      BY <2>3
    <3>3. QED
      BY <2>1, <3>1, <3>2
  <2>5. ASSUME NEW t \in SUBSET (1..n)
        PROVE  f[t] = IF t = {} THEN NewNetSet ELSE AddIPNet(f[t \ {Max(t)}], s[Max(t)])
    <3>1. f[t] = IF t = {} THEN NewNetSet ELSE step[Max(t)][f[t \ {Max(t)}]]
      BY <2>3 DEF Folds
    <3>2. QED
      BY <2>4, <3>1
  <2>6. f = [t \in SUBSET (1..n) |-> f[t]]
    BY <2>3
  <2>7. It(f)
    BY <2>5, <2>6
  <2>8. QED
    BY <2>7
<1>2. PICK f : f = CHOOSE h : It(h)
  OBVIOUS
<1>3. It(f)
  BY <1>1, <1>2
<1>4. NetSetFrom(s) = f[1..n]
  BY <1>2 DEF NetSetFrom, FoldLeft, MapThenFoldSet
<1>5. f[1..0] = NewNetSet
  BY <1>3
<1>6. ASSUME NEW k \in 1..n
      PROVE  f[1..k] = AddIPNet(f[1..(k - 1)], s[k])
  <2>1. 1..k \in SUBSET (1..n) /\ 1..k # {} /\ (1..k) \ {k} = 1..(k - 1)
    BY Shorter
  <2>2. Max(1..k) = k
    BY LargestOf
  <2>3. QED
    BY <1>3, <2>1, <2>2
<1>7. PICK g : g = [k \in 0..n |-> f[1..k]]
  OBVIOUS
<1> HIDE DEF It
<1>8. /\ g = [k \in 0..n |-> g[k]] /\ g[0] = NewNetSet /\ g[n] = f[1..n]
  BY <1>5, <1>7
<1>9. \A k \in 1..n : g[k] = AddIPNet(g[k - 1], s[k])
  BY <1>6, <1>7
<1>10. QED
  BY <1>4, <1>8, <1>9

LEMMA NetSetOf ==
    ASSUME NEW s \in Seq(Network)
    PROVE  \A a \in Address : Has(NetSetFrom(s), a) <=>
                               \E i \in DOMAIN s : Listed(s[i], a)
<1>1. PICK n \in Nat : DOMAIN s = 1..n
  OBVIOUS
<1>2. \A k \in 1..n : s[k] \in Network
  BY <1>1
<1>3. NewNetSet \in NetSet
  BY DEF NewNetSet, NetSet
<1>5. PICK g : /\ g[0] = NewNetSet /\ \A k \in 1..n : g[k] = AddIPNet(g[k - 1], s[k])
               /\ NetSetFrom(s) = g[n]
  BY <1>1, <1>2, NetFold
<1> DEFINE Sound(set, k) == /\ set \in NetSet
                            /\ \A a \in Address : Has(set, a) <=> \E i \in 1..k : Listed(s[i], a)
           holds == {k \in 0..n : Sound(g[k], k)}
<1>6. 0 \in holds
  <2>1. \A a \in Address : ~Has(g[0], a)
    BY <1>5, OfAddress DEF NewNetSet, Has
  <2>2. Sound(g[0], 0)
    BY <1>3, <1>5, <2>1
  <2>3. QED
    BY <2>2
<1>7. ASSUME NEW k \in 1..n, k - 1 \in holds
      PROVE  k \in holds
  <2>1. Sound(g[k - 1], k - 1)
    BY <1>7
  <2>2. g[k] = AddIPNet(g[k - 1], s[k]) /\ s[k] \in Network
    BY <1>2, <1>5
  <2>3. /\ g[k] \in NetSet
        /\ \A a \in Address : Has(g[k], a) <=> Has(g[k - 1], a) \/ Listed(s[k], a)
    BY <2>1, <2>2, AddsOne
  <2>4. \A i : i \in 1..k <=> i \in 1..(k - 1) \/ i = k
    OBVIOUS
  <2>5. Sound(g[k], k)
    BY <2>1, <2>3, <2>4
  <2>6. QED
    BY <2>5
<1> HIDE DEF holds
<1>8. n \in holds
  <2>1. \A k \in 0..n : k \in holds
    BY <1>6, <1>7, UpTo
  <2>2. QED
    BY <2>1
<1>9. Sound(g[n], n)
  BY <1>8 DEF holds
<1>10. QED
  BY <1>1, <1>5, <1>9

ByList(a, networks) ==
    \E i \in DOMAIN networks :
       LET n == networks[i]
       IN /\ a # Unknown /\ a.version = n.version
          /\ \A b \in 1..n.ones : a.bits[b] = n.bits[b]

\* Without a session it is the list of networks that decides, whatever their masks, order
\* and repetitions.
THEOREM TrustedAreListed == Spec => []TrustedIffListed
<1>1. ASSUME IInv, Served, request.session = {}
      PROVE  answer.allowed =
               ByList(ClientAddress(opts.core.reverse, request.remote, request.forwarded),
                      opts.core.trusted)
  <2>1. /\ phase = "serving" /\ c \in Configurations /\ request \in Requests(c)
        /\ proxy.trusted = NetSetFrom(opts.core.trusted)
        /\ answer.allowed = (Trusted(proxy.trusted, opts.core.reverse, request.remote,
                                     request.forwarded) \/ request.session # {})
    BY <1>1 DEF IInv, Served, Built, Answers
  <2>2. opts.core = c.core /\ CoreAccepted(opts)
    BY <1>1, <2>1, CoreStays
  <2>3. PICK s \in Seq(Network) : s = opts.core.trusted /\ \A i \in DOMAIN s : Parses(s[i])
    BY <2>1, <2>2, AskedAssumption DEF CoreAccepted
  <2>4. PICK a \in Address \cup {Unknown} :
          a = ClientAddress(opts.core.reverse, request.remote, request.forwarded)
    BY <2>1, AskedAssumption DEF ClientAddress
  <2>5. answer.allowed = (a # Unknown /\ Has(NetSetFrom(s), a))
    BY <1>1, <2>1, <2>3, <2>4 DEF Trusted
  <2>6. CASE a = Unknown
    BY <2>4, <2>5, <2>6 DEF ByList
  <2>7. CASE a # Unknown
    <3>1. a \in Address
      BY <2>4, <2>7
    <3>2. answer.allowed = \E i \in DOMAIN s : Listed(s[i], a)
      BY <2>5, <2>7, <3>1, NetSetOf
    <3>3. \A i \in DOMAIN s : s[i] \in Network /\ Parses(s[i])
      BY <2>3
    <3>4. \A i \in DOMAIN s :
            Listed(s[i], a) <=> /\ a.version = s[i].version
                                /\ \A b \in 1..s[i].ones : a.bits[b] = s[i].bits[b]
      BY <3>1, <3>3, ListedByBits
    <3>5. QED
      BY <2>3, <2>4, <2>7, <3>2, <3>4 DEF ByList
  <2>8. QED
    BY <2>6, <2>7
<1>2. IInv => TrustedIffListed
  BY <1>1 DEF TrustedIffListed, ByList
<1>3. QED
  BY <1>2, Invariance, PTL

--------------------------------------------------------------------------------
\* Headers: what a header finds in the map is the client's, where it was preserved, and
\* the values of its options.
Taken(values, v, there) == IF v \in there THEN Append(values, v) ELSE values
AmongSteps(g, n, s, there) ==
    /\ g[0] = <<>> /\ \A k \in 1..n : g[k] = Taken(g[k - 1], s[k], there)
    /\ Among(s, there) = g[n]
HeaderMap(names) == [names -> Seq(Source \cup {Client})]
AllAdded(map, hs) == FoldLeft(Added, map, hs)

LEMMA AmongFold ==
    ASSUME NEW n \in Nat, NEW s, DOMAIN s = 1..n, \A k \in 1..n : s[k] \in Source, NEW there
    PROVE  \E g : AmongSteps(g, n, s, there)
<1> DEFINE It(f) == f = [t \in SUBSET (1..n) |->
                            IF t = {} THEN <<>> ELSE Taken(f[t \ {Max(t)}], s[Max(t)], there)]
<1>1. \E f : It(f)
  <2>0. <<>> \in Seq(Source) /\ \A x \in Seq(Source), k \in 1..n : Taken(x, s[k], there) \in Seq(Source)
    BY DEF Taken
  <2>1. PICK step : step = [k \in 1..n |-> [x \in Seq(Source) |-> Taken(x, s[k], there)]]
    OBVIOUS
  <2>2. step \in [1..n -> [Seq(Source) -> Seq(Source)]]
    BY <2>0, <2>1
  <2>3. PICK f \in [SUBSET (1..n) -> Seq(Source)] : Folds(f, n, <<>>, step)
    BY <2>0, <2>2, FoldExists
  <2>4. ASSUME NEW t \in SUBSET (1..n), t # {}
        PROVE  step[Max(t)][f[t \ {Max(t)}]] = Taken(f[t \ {Max(t)}], s[Max(t)], there)
    <3>1. Max(t) \in 1..n
      BY <2>4, MaxIn
    <3>2. f[t \ {Max(t)}] \in Seq(Source)
      BY <2>3
    <3>3. QED
      BY <2>1, <3>1, <3>2
  <2>5. ASSUME NEW t \in SUBSET (1..n)
        PROVE  f[t] = IF t = {} THEN <<>> ELSE Taken(f[t \ {Max(t)}], s[Max(t)], there)
    <3>1. f[t] = IF t = {} THEN <<>> ELSE step[Max(t)][f[t \ {Max(t)}]]
      BY <2>3 DEF Folds
    <3>2. QED
      BY <2>4, <3>1
  <2>6. f = [t \in SUBSET (1..n) |-> f[t]]
    BY <2>3
  <2>7. It(f)
    BY <2>5, <2>6
  <2>8. QED
    BY <2>7
<1>2. PICK f : f = CHOOSE h : It(h)
  OBVIOUS
<1>3. It(f)
  BY <1>1, <1>2
<1>4. Among(s, there) = f[1..n]
  BY <1>2 DEF Among, Taken, FoldLeft, MapThenFoldSet
<1>5. f[1..0] = <<>>
  BY <1>3
<1>6. ASSUME NEW k \in 1..n
      PROVE  f[1..k] = Taken(f[1..(k - 1)], s[k], there)
  <2>1. 1..k \in SUBSET (1..n) /\ 1..k # {} /\ (1..k) \ {k} = 1..(k - 1)
    BY Shorter
  <2>2. Max(1..k) = k
    BY LargestOf
  <2>3. QED
    BY <1>3, <2>1, <2>2
<1>7. PICK g : g = [k \in 0..n |-> f[1..k]]
  OBVIOUS
<1> HIDE DEF It
<1>8. /\ g = [k \in 0..n |-> g[k]] /\ g[0] = <<>> /\ g[n] = f[1..n]
  BY <1>5, <1>7
<1>9. \A k \in 1..n : g[k] = Taken(g[k - 1], s[k], there)
  BY <1>6, <1>7
<1>10. AmongSteps(g, n, s, there)
  BY <1>4, <1>8, <1>9 DEF AmongSteps
<1>11. QED
  BY <1>10

LEMMA FewGiven ==
    ASSUME NEW s \in Seq(Source), NEW there
    PROVE  Among(s, there) \in Seq(Source) /\ Len(Among(s, there)) <= Len(s)
<1>1. PICK n \in Nat : n = Len(s) /\ DOMAIN s = 1..n
  OBVIOUS
<1>2. \A k \in 1..n : s[k] \in Source
  BY <1>1
<1>3. PICK g : AmongSteps(g, n, s, there)
  BY <1>1, <1>2, AmongFold
<1>4. /\ g[0] = <<>> /\ \A k \in 1..n : g[k] = Taken(g[k - 1], s[k], there)
      /\ Among(s, there) = g[n]
  BY <1>3 DEF AmongSteps
<1> DEFINE Sound(x, k) == x \in Seq(Source) /\ Len(x) <= k
           holds == {k \in 0..n : Sound(g[k], k)}
<1>5. 0 \in holds
  <2>1. Sound(g[0], 0)
    BY <1>4
  <2>2. QED
    BY <2>1
<1>6. ASSUME NEW k \in 1..n, k - 1 \in holds
      PROVE  k \in holds
  <2>1. PICK x \in Seq(Source) : x = g[k - 1] /\ Len(x) <= k - 1
    BY <1>6
  <2>2. g[k] \in {x, Append(x, s[k])} /\ s[k] \in Source
    BY <1>2, <1>4, <2>1 DEF Taken
  <2>3. Append(x, s[k]) \in Seq(Source) /\ Len(Append(x, s[k])) = Len(x) + 1 /\ Len(x) \in Nat
    BY <2>2
  <2>4. CASE g[k] = x
    <3>1. Len(x) <= k
      BY <2>1, <2>3
    <3>2. Sound(g[k], k)
      BY <2>4, <3>1
    <3>3. QED
      BY <3>2
  <2>5. CASE g[k] = Append(x, s[k])
    <3>1. Len(Append(x, s[k])) <= k
      BY <2>1, <2>3
    <3>2. Sound(g[k], k)
      BY <2>5, <2>3, <3>1
    <3>3. QED
      BY <3>2
  <2>6. QED
    BY <2>2, <2>4, <2>5
<1> HIDE DEF holds
<1>7. n \in holds
  <2>1. \A k \in 0..n : k \in holds
    BY <1>5, <1>6, UpTo
  <2>2. QED
    BY <2>1
<1>8. Sound(g[n], n)
  BY <1>7 DEF holds
<1>9. QED
  BY <1>1, <1>4, <1>8

LEMMA AddedTyped ==
    ASSUME NEW names, NEW map \in HeaderMap(names), NEW h, h.name \in names,
           h.values \in Seq(Source)
    PROVE  Added(map, h) \in HeaderMap(names)
<1>1. h.values \in Seq(Source \cup {Client})
  OBVIOUS
<1>2. map[h.name] \o h.values \in Seq(Source \cup {Client})
  BY <1>1 DEF HeaderMap
<1>3. QED
  BY <1>2 DEF Added, HeaderMap

InjectSteps(g, n, map, s) ==
    /\ g[0] = map /\ \A k \in 1..n : g[k] = Added(g[k - 1], s[k])
    /\ AllAdded(map, s) = g[n]

LEMMA InjectFold ==
    ASSUME NEW n \in Nat, NEW s, DOMAIN s = 1..n, NEW names, NEW map \in HeaderMap(names),
           \A k \in 1..n : s[k].name \in names /\ s[k].values \in Seq(Source)
    PROVE  \E g : InjectSteps(g, n, map, s)
<1> DEFINE It(f) == f = [t \in SUBSET (1..n) |->
                            IF t = {} THEN map ELSE Added(f[t \ {Max(t)}], s[Max(t)])]
<1>1. \E f : It(f)
  <2>0. map \in HeaderMap(names) /\ \A x \in HeaderMap(names), k \in 1..n : Added(x, s[k]) \in HeaderMap(names)
    BY AddedTyped
  <2>1. PICK step : step = [k \in 1..n |-> [x \in HeaderMap(names) |-> Added(x, s[k])]]
    OBVIOUS
  <2>2. step \in [1..n -> [HeaderMap(names) -> HeaderMap(names)]]
    BY <2>0, <2>1
  <2>3. PICK f \in [SUBSET (1..n) -> HeaderMap(names)] : Folds(f, n, map, step)
    BY <2>0, <2>2, FoldExists
  <2>4. ASSUME NEW t \in SUBSET (1..n), t # {}
        PROVE  step[Max(t)][f[t \ {Max(t)}]] = Added(f[t \ {Max(t)}], s[Max(t)])
    <3>1. Max(t) \in 1..n
      BY <2>4, MaxIn
    <3>2. f[t \ {Max(t)}] \in HeaderMap(names)
      BY <2>3
    <3>3. QED
      BY <2>1, <3>1, <3>2
  <2>5. ASSUME NEW t \in SUBSET (1..n)
        PROVE  f[t] = IF t = {} THEN map ELSE Added(f[t \ {Max(t)}], s[Max(t)])
    <3>1. f[t] = IF t = {} THEN map ELSE step[Max(t)][f[t \ {Max(t)}]]
      BY <2>3 DEF Folds
    <3>2. QED
      BY <2>4, <3>1
  <2>6. f = [t \in SUBSET (1..n) |-> f[t]]
    BY <2>3
  <2>7. It(f)
    BY <2>5, <2>6
  <2>8. QED
    BY <2>7
<1>2. PICK f : f = CHOOSE h : It(h)
  OBVIOUS
<1>3. It(f)
  BY <1>1, <1>2
<1>4. AllAdded(map, s) = f[1..n]
  BY <1>2 DEF AllAdded, FoldLeft, MapThenFoldSet
<1>5. f[1..0] = map
  BY <1>3
<1>6. ASSUME NEW k \in 1..n
      PROVE  f[1..k] = Added(f[1..(k - 1)], s[k])
  <2>1. 1..k \in SUBSET (1..n) /\ 1..k # {} /\ (1..k) \ {k} = 1..(k - 1)
    BY Shorter
  <2>2. Max(1..k) = k
    BY LargestOf
  <2>3. QED
    BY <1>3, <2>1, <2>2
<1>7. PICK g : g = [k \in 0..n |-> f[1..k]]
  OBVIOUS
<1> HIDE DEF It
<1>8. /\ g = [k \in 0..n |-> g[k]] /\ g[0] = map /\ g[n] = f[1..n]
  BY <1>5, <1>7
<1>9. \A k \in 1..n : g[k] = Added(g[k - 1], s[k])
  BY <1>6, <1>7
<1>10. InjectSteps(g, n, map, s)
  BY <1>4, <1>8, <1>9 DEF InjectSteps
<1>11. QED
  BY <1>10

LEMMA AllTyped ==
    ASSUME NEW n \in Nat, NEW s, DOMAIN s = 1..n, NEW names, NEW map \in HeaderMap(names),
           \A k \in 1..n : s[k].name \in names /\ s[k].values \in Seq(Source)
    PROVE  AllAdded(map, s) \in HeaderMap(names)
<1>1. PICK g : InjectSteps(g, n, map, s)
  BY InjectFold
<1>2. /\ g[0] = map /\ \A k \in 1..n : g[k] = Added(g[k - 1], s[k])
      /\ AllAdded(map, s) = g[n]
  BY <1>1 DEF InjectSteps
<1> DEFINE holds == {k \in 0..n : g[k] \in HeaderMap(names)}
<1>3. 0 \in holds
  BY <1>2
<1>4. ASSUME NEW k \in 1..n, k - 1 \in holds
      PROVE  k \in holds
  <2>1. PICK x, h : x \in HeaderMap(names) /\ x = g[k - 1] /\ h = s[k]
    BY <1>4
  <2>2. Added(x, h) \in HeaderMap(names)
    BY <2>1, AddedTyped
  <2>3. QED
    BY <1>2, <2>1, <2>2
<1> HIDE DEF holds
<1>5. n \in holds
  <2>1. \A k \in 0..n : k \in holds
    BY <1>3, <1>4, UpTo
  <2>2. QED
    BY <2>1
<1>6. QED
  BY <1>2, <1>5 DEF holds

\* One value is added: to one name, and none of the client's.
LEMMA AddedOwn ==
    ASSUME NEW names, NEW map \in HeaderMap(names), NEW h, h.name \in names,
           h.values \in Seq(Source), NEW m \in names
    PROVE  /\ Added(map, h)[m] = IF m = h.name THEN map[m] \o h.values ELSE map[m]
           /\ Client \in ToSet(Added(map, h)[m]) => Client \in ToSet(map[m])
<1>1. Added(map, h)[m] = IF m = h.name THEN map[m] \o h.values ELSE map[m]
  BY DEF Added, HeaderMap
<1>2. Client \notin Source
  BY DEF Client, From, Source, Claims, Tokens
<1>3. PICK s \in Seq(Source \cup {Client}), t \in Seq(Source) : s = map[m] /\ t = h.values
  BY DEF HeaderMap
<1>4. ASSUME Client \in ToSet(s \o t)
      PROVE  Client \in ToSet(s)
  <2>1. PICK i \in DOMAIN (s \o t) : (s \o t)[i] = Client
    BY <1>4 DEF ToSet
  <2>2. \A j \in DOMAIN t : t[j] # Client
    BY <1>2
  <2>3. i \in 1..(Len(s) + Len(t)) /\ Len(s) \in Nat /\ Len(t) \in Nat
    BY <1>2
  <2>4. i <= Len(s)
    <3>1. SUFFICES ASSUME i > Len(s)
                   PROVE  FALSE
      BY <2>3
    <3>2. t \in Seq(Source \cup {Client}) /\ i - Len(s) \in 1..Len(t) /\ 1..Len(t) = DOMAIN t
      BY <2>3, <3>1
    <3>3. (s \o t)[i] = t[i - Len(s)]
      BY <2>3, <3>1, <3>2
    <3>4. QED
      BY <2>1, <2>2, <3>2, <3>3
  <2>5. i \in DOMAIN s /\ (s \o t)[i] = s[i]
    BY <2>3, <2>4
  <2>6. QED
    BY <2>1, <2>5 DEF ToSet
<1>5. QED
  BY <1>1, <1>3, <1>4

\* What m has after the first options: nothing but what one of them added, or the client's.
\* Options of as many names add to each at most once.
Once(x, before, k, s, m) ==
    \/ x = before
    \/ \E i \in 1..k : s[i].name = m /\ x = before \o s[i].values

LEMMA AllOwn ==
    ASSUME NEW n \in Nat, NEW s, DOMAIN s = 1..n, NEW names, NEW map \in HeaderMap(names),
           \A k \in 1..n : s[k].name \in names /\ s[k].values \in Seq(Source),
           NEW m \in names
    PROVE  /\ Client \in ToSet(AllAdded(map, s)[m]) => Client \in ToSet(map[m])
           /\ (\A i, j \in 1..n : i # j => s[i].name # s[j].name)
                 => Once(AllAdded(map, s)[m], map[m], n, s, m)
<1>1. PICK g : InjectSteps(g, n, map, s)
  BY InjectFold
<1>2. /\ g[0] = map /\ \A k \in 1..n : g[k] = Added(g[k - 1], s[k])
      /\ AllAdded(map, s) = g[n]
  BY <1>1 DEF InjectSteps
<1> DEFINE distinct == \A i, j \in 1..n : i # j => s[i].name # s[j].name
           Sound(x, k) == /\ x \in HeaderMap(names)
                          /\ Client \in ToSet(x[m]) => Client \in ToSet(map[m])
                          /\ distinct => Once(x[m], map[m], k, s, m)
           holds == {k \in 0..n : Sound(g[k], k)}
<1>3. 0 \in holds
  <2>1. Sound(g[0], 0)
    BY <1>2 DEF Once
  <2>2. QED
    BY <2>1
<1>4. ASSUME NEW k \in 1..n, k - 1 \in holds
      PROVE  k \in holds
  <2>1. PICK x, h : x \in HeaderMap(names) /\ x = g[k - 1] /\ h = s[k] /\ Sound(x, k - 1)
    BY <1>4
  <2>2. PICK y : y = Added(x, h)
    OBVIOUS
  <2>3. /\ y \in HeaderMap(names)
        /\ y[m] = IF m = h.name THEN x[m] \o h.values ELSE x[m]
        /\ Client \in ToSet(y[m]) => Client \in ToSet(x[m])
    BY <2>1, <2>2, AddedTyped, AddedOwn
  <2>4. ASSUME distinct
        PROVE  Once(y[m], map[m], k, s, m)
    <3>1. Once(x[m], map[m], k - 1, s, m)
      BY <2>1, <2>4
    <3>2. CASE m # h.name
      <4>1. y[m] = x[m] /\ \A i \in 1..(k - 1) : i \in 1..k
        BY <2>3, <3>2
      <4>2. QED
        BY <3>1, <4>1 DEF Once
    <3>3. CASE m = h.name
      <4>1. \A i \in 1..(k - 1) : i \in 1..n /\ i # k
        OBVIOUS
      <4>2. \A i \in 1..(k - 1) : s[i].name # m
        BY <2>1, <2>4, <3>3, <4>1
      <4>3. x[m] = map[m]
        BY <3>1, <4>2 DEF Once
      <4>4. y[m] = map[m] \o s[k].values /\ s[k].name = m /\ k \in 1..k
        BY <2>1, <2>3, <3>3, <4>3
      <4>5. QED
        BY <4>4 DEF Once
    <3>4. QED
      BY <3>2, <3>3
  <2>5. Sound(y, k)
    BY <2>1, <2>3, <2>4
  <2>6. g[k] = y
    BY <1>2, <2>1, <2>2
  <2>7. QED
    BY <2>5, <2>6
<1> HIDE DEF holds
<1>5. n \in holds
  <2>1. \A k \in 0..n : k \in holds
    BY <1>3, <1>4, UpTo
  <2>2. QED
    BY <2>1
<1>6. Sound(g[n], n)
  BY <1>5 DEF holds
<1>7. QED
  BY <1>2, <1>6

\* The flags' headers have one source each.
LEMMA FlagHeaders ==
    ASSUME NEW f, NEW h \in RequestHeadersOf(f)
    PROVE  h.spelling = "usual" /\ h.sources \in Seq(Source) /\ Len(h.sources) = 1
<1> DEFINE Plain(g) == \E name : \E v \in Source : g = Option(name, v)
<1>1. \A claim \in Claims : From(claim) \in Source
  BY DEF From, Source
<1>2. \A claim \in Claims : \A name : Plain(Claimed(name, claim))
  BY <1>1 DEF Claimed
<1>3. Plain(BasicAuthHeader(f))
  <2>1. PICK v : v = [claim |-> IF "preferEmail" \in f THEN "email" ELSE "user",
                      password |-> IF "password" \in f THEN "set" ELSE "unreadable"]
    OBVIOUS
  <2>2. v \in Source
    BY <2>1 DEF Source, Claims, Tokens
  <2>3. BasicAuthHeader(f) = Option("Authorization", v)
    BY <2>1 DEF BasicAuthHeader
  <2>4. QED
    BY <2>2, <2>3
<1>4. {"access_token", "id_token", "user", "email", "groups", "preferred_username"} \subseteq Claims
  BY DEF Claims, Tokens
<1>5. Plain(AuthorizationHeader)
  BY <1>2, <1>4 DEF AuthorizationHeader
<1> HIDE DEF Plain
<1>6. \A g \in HeadersOf(f) : Plain(g)
  BY <1>2, <1>3, <1>4, <1>5 DEF HeadersOf
<1>7. PICK g \in HeadersOf(f) : h = [g EXCEPT !.preserve = "strip" \notin f]
  BY DEF RequestHeadersOf
<1>8. PICK name : \E v \in Source : g = Option(name, v)
  BY <1>6 DEF Plain
<1>9. PICK v \in Source : g = Option(name, v)
  BY <1>8
<1>10. h.spelling = "usual" /\ h.sources = <<v>>
  BY <1>7, <1>9 DEF Option
<1>11. QED
  BY <1>10

\* The request's headers of options that are valid: of distinct names when flags say them.
LEMMA RequestHeadersValid ==
    ASSUME IInv, phase = "serving"
    PROVE  /\ \E n \in Nat : DOMAIN opts.requestHeaders = 1..n
           /\ \A i \in DOMAIN opts.requestHeaders :
                 /\ opts.requestHeaders[i].sources \in Seq(Source)
                 /\ ~c.alpha => Len(opts.requestHeaders[i].sources) = 1
           /\ ~c.alpha => \A i, j \in DOMAIN opts.requestHeaders :
                 i # j => opts.requestHeaders[i].name # opts.requestHeaders[j].name
<1>1. c \in Configurations
  BY DEF IInv
<1>2. PICK hs : hs = opts.requestHeaders
  OBVIOUS
<1>3. hs = LoadedOptions.requestHeaders /\ HeadersAccepted(hs)
  <2>1. PICK found :
          /\ OptionsAccepted(LoadedOptions, found)
          /\ opts = [LoadedOptions EXCEPT !.providers[1] = First(LoadedOptions, found)]
    BY DEF IInv, Checked
  <2>2. "requestHeaders" \in DOMAIN LoadedOptions
    BY DEF LoadedOptions, MergeInto, ToOptions
  <2>3. hs = LoadedOptions.requestHeaders
    BY <1>2, <2>1, <2>2
  <2>4. QED
    BY <2>1, <2>3 DEF OptionsAccepted
<1>4. CASE c.alpha
  <2>1. hs \in Seq(HeaderOption)
    BY <1>1, <1>3, <1>4, GivenAssumption DEF LoadedOptions, MergeInto
  <2>2. Len(hs) \in Nat /\ DOMAIN hs = 1..Len(hs)
    BY <2>1
  <2>3. \A i \in DOMAIN hs : hs[i] \in HeaderOption
    BY <2>1
  <2>4. \A i \in DOMAIN hs : hs[i].sources \in Seq(Source)
    BY <2>3 DEF HeaderOption
  <2>5. \E n \in Nat : DOMAIN hs = 1..n
    BY <2>2
  <2>6. QED
    BY <1>2, <1>4, <2>4, <2>5
<1>5. CASE ~c.alpha
  <2>1. PICK f : f = c.given.headers
    OBVIOUS
  <2>2. hs = RequestHeaders(f)
    BY <1>3, <1>5, <2>1 DEF LoadedOptions, ToOptions
  <2>3. hs \in Seq(RequestHeadersOf(f))
    BY <2>2, HeadersConverted
  <2>4. Len(hs) \in Nat /\ DOMAIN hs = 1..Len(hs) /\ \A i \in DOMAIN hs : hs[i] \in RequestHeadersOf(f)
    BY <2>3
  <2>5. \A i \in DOMAIN hs : /\ hs[i].spelling = "usual"
                             /\ hs[i].sources \in Seq(Source) /\ Len(hs[i].sources) = 1
    BY <2>4, FlagHeaders
  <2>6. \A i, j \in DOMAIN hs :
          i # j => <<hs[i].name, hs[i].spelling>> # <<hs[j].name, hs[j].spelling>>
    BY <1>3 DEF HeadersAccepted
  <2>7. \A i, j \in DOMAIN hs : i # j => hs[i].name # hs[j].name
    BY <2>5, <2>6
  <2>8. QED
    BY <1>2, <1>5, <2>4, <2>5, <2>7
<1>6. QED
  BY <1>4, <1>5

\* What an upstream finds in header m.
Owned(found, hs, m) ==
    /\ Client \in ToSet(found) => \A h \in ToSet(hs) : h.name = m => h.preserve
    /\ ~c.alpha => \A i, j \in DOMAIN found : i # j => Client \in {found[i], found[j]}
LEMMA FoundUpstream ==
    ASSUME IInv, phase = "serving", NEW session, NEW m \in DOMAIN AtUpstreamBy(opts, session)
    PROVE  Owned(AtUpstreamBy(opts, session)[m], opts.requestHeaders, m)
<1>1. PICK hs : hs = opts.requestHeaders
  OBVIOUS
<1>2. PICK n \in Nat : DOMAIN hs = 1..n
  BY <1>1, RequestHeadersValid
<1>3. PICK s : s = [i \in DOMAIN hs |-> [name |-> hs[i].name,
                                        values |-> Given(hs[i].sources, session)]]
  OBVIOUS
<1>4. PICK names, map : names = Names(hs) /\ map = Stripped(Sent(names), hs)
  OBVIOUS
<1>5. AtUpstreamBy(opts, session) = AllAdded(map, s)
  BY <1>1, <1>3, <1>4 DEF AtUpstreamBy, Injected, AllAdded
<1>6. \A k \in 1..n : /\ s[k].name = hs[k].name /\ s[k].name \in names
                      /\ s[k].values = Given(hs[k].sources, session)
  BY <1>2, <1>3, <1>4 DEF Names, ToSet
<1>7. \A k \in 1..n : /\ s[k].values \in Seq(Source)
                      /\ ~c.alpha => Len(s[k].values) <= 1
  <2>1. SUFFICES ASSUME NEW k \in 1..n
                 PROVE  s[k].values \in Seq(Source) /\ (~c.alpha => Len(s[k].values) <= 1)
    OBVIOUS
  <2>2. PICK sources \in Seq(Source) : sources = hs[k].sources /\ (~c.alpha => Len(sources) = 1)
    BY <1>1, <1>2, RequestHeadersValid
  <2>3. PICK there : s[k].values = Among(sources, there)
    BY <1>6, <2>2 DEF Given
  <2>4. Among(sources, there) \in Seq(Source) /\ Len(Among(sources, there)) <= Len(sources)
    BY FewGiven
  <2>5. QED
    BY <2>2, <2>3, <2>4
<1>8. \A k \in names : map[k] = IF \E h \in ToSet(hs) : ~h.preserve /\ h.name = k
                                THEN <<>> ELSE <<Client>>
  BY <1>4 DEF Stripped, Sent
<1>9. DOMAIN map = names /\ map = [k \in names |-> map[k]]
  BY <1>4 DEF Stripped, Sent
<1>10. map \in HeaderMap(names)
  <2>1. <<>> \in Seq(Source \cup {Client}) /\ <<Client>> \in Seq(Source \cup {Client})
    OBVIOUS
  <2>2. QED
    BY <1>8, <1>9, <2>1 DEF HeaderMap
<1>11. DOMAIN s = 1..n
  BY <1>2, <1>3
<1>12. m \in names
  <2>1. AllAdded(map, s) \in HeaderMap(names)
    BY <1>6, <1>7, <1>10, <1>11, AllTyped
  <2>2. QED
    BY <1>5, <2>1 DEF HeaderMap
<1>13. PICK found : found = AllAdded(map, s)[m]
  OBVIOUS
<1>14. /\ Client \in ToSet(found) => Client \in ToSet(map[m])
       /\ (\A i, j \in 1..n : i # j => s[i].name # s[j].name) => Once(found, map[m], n, s, m)
  BY <1>6, <1>7, <1>10, <1>11, <1>12, <1>13, AllOwn
<1>15. ASSUME Client \in ToSet(found)
       PROVE  \A h \in ToSet(hs) : h.name = m => h.preserve
  <2>1. map[m] # <<>>
    BY <1>14, <1>15 DEF ToSet
  <2>2. QED
    BY <1>8, <1>12, <2>1
<1>16. ASSUME ~c.alpha
       PROVE  \A i, j \in DOMAIN found : i # j => Client \in {found[i], found[j]}
  <2>1. \A i, j \in 1..n : i # j => s[i].name # s[j].name
    BY <1>1, <1>2, <1>6, <1>16, RequestHeadersValid
  <2>2. map[m] \in {<<>>, <<Client>>}
    BY <1>8, <1>12
  <2>3. CASE found = map[m]
    BY <2>2, <2>3
  <2>4. CASE \E k \in 1..n : found = map[m] \o s[k].values
    <3>1. PICK k \in 1..n : found = map[m] \o s[k].values
      BY <2>4
    <3>2. PICK t \in Seq(Source) : t = s[k].values /\ Len(t) <= 1
      BY <1>7, <1>16
    <3>3. CASE map[m] = <<>>
      <4>1. found = t
        BY <3>1, <3>2, <3>3
      <4>2. Len(t) \in Nat /\ DOMAIN t = 1..Len(t)
        OBVIOUS
      <4>3. \A i, j \in DOMAIN t : i = j
        BY <3>2, <4>2
      <4>4. QED
        BY <4>1, <4>3
    <3>4. CASE map[m] = <<Client>>
      <4>1. t \in Seq(Source \cup {Client}) /\ <<Client>> \in Seq(Source \cup {Client})
        OBVIOUS
      <4>2. found = <<Client>> \o t
        BY <3>1, <3>2, <3>4
      <4>3. DOMAIN found = 1..(1 + Len(t)) /\ found[1] = Client /\ Len(t) \in Nat
        BY <4>1, <4>2
      <4>4. \A i, j \in DOMAIN found : i # j => i = 1 \/ j = 1
        BY <3>2, <4>3
      <4>5. QED
        BY <4>3, <4>4
    <3>5. QED
      BY <2>2, <3>3, <3>4
  <2>5. QED
    BY <1>14, <2>1, <2>3, <2>4 DEF Once
<1>17. Owned(found, hs, m)
  BY <1>15, <1>16 DEF Owned
<1>18. QED
  BY <1>1, <1>5, <1>13, <1>17

\* An upstream finds in a header no value of the client's that an option does not preserve,
\* and with the flags never the values of two sources.
THEOREM HeadersAreOwn == Spec => []HeadersOwn
<1>1. ASSUME IInv, Served, answer.allowed, NEW n \in DOMAIN answer.headers
      PROVE  /\ Client \in ToSet(answer.headers[n]) =>
                    \A h \in ToSet(opts.requestHeaders) : h.name = n => h.preserve
             /\ ~c.alpha =>
                    \A i, j \in DOMAIN answer.headers[n] :
                       i # j => Client \in {answer.headers[n][i], answer.headers[n][j]}
  <2>1. phase = "serving" /\ answer.headers = AtUpstreamBy(opts, Kept(opts, request))
    BY <1>1 DEF IInv, Served, Answers
  <2>2. QED
    BY <1>1, <2>1, FoundUpstream DEF Owned
<1>2. IInv => HeadersOwn
  BY <1>1 DEF HeadersOwn
<1>3. QED
  BY <1>2, Invariance, PTL
================================================================================
