# oauth2-proxy, specified

TLA+ specifications of oauth2-proxy (v7, Go), checked with TLC and proved about
with TLAPS. The reference is the source in `src/`; every definition that models
code is mapped to its lines in `PROJECT.json` ("map"), and so are the hazards the
properties are for ("hazards", with the line where each one bites).

## 1. The system

oauth2-proxy is an authenticating reverse proxy. A request passes a chain of
middlewares that may find a session for it (bearer token, basic credentials, or
a session stored earlier), then a handler that either proxies it with identity
headers or sends the user to sign in with an OAuth2/OIDC provider.

| Component | State | Operations | Talks to |
|---|---|---|---|
| Stored session middleware (`pkg/middleware/stored_session.go`) | none of its own; the `*SessionState` of one request | load, refresh if old, save, validate, clear on any error | session store, provider |
| Persistent manager and tickets (`pkg/sessions/persistence`) | entries in the store by ticket id; the ticket and its secret in a cookie | Save (reuses the request's ticket), Load, Clear | Redis, the response's cookies |
| Redis store and lock (`pkg/sessions/redis`) | keys with a time to live; `l.lock` per Lock object | Set, Get, Del; Obtain, Refresh, Peek, Release | Redis |
| Cookie store (`pkg/sessions/cookie`) | the whole session in the browser's cookies, split when it is long | Save, Load, Clear | the response's cookies |
| Session state (`pkg/apis/sessions`) | tokens, identity, CreatedAt, ExpiresOn | Age, IsExpired, CreatedAtNow, ... | |
| Login flow (`oauthproxy.go`, `pkg/cookies/csrf.go`) | one CSRF cookie in the browser, a state parameter at the provider | OAuthStart, OAuthCallback | provider, session store |
| Gateway (`oauthproxy.go`, `pkg/middleware`) | the request scope | routes, allowlist, session loaders, authorization, header injection, sign-in page, sign-out | all others, the upstream |
| Providers (`providers/`) | configuration | Redeem, EnrichSession, RefreshSession, ValidateSession, Authorize | the provider's HTTP API |
| User map and watcher (`validator.go`, `watcher.go`) | a map behind an atomic pointer; an fsnotify watch | load, IsValid, watch, wait for a replacement | the file system |
| Servers (`pkg/http`, `main.go`) | goroutines in three nested errgroups | Start, shut down on a signal or a failure | net/http |
| Upstream routing (`pkg/upstream`) | the router's list of routes, made once | register, match, rewrite, hand on | the upstream |
| Redirects (`pkg/app/redirect`), trusted networks (`pkg/ip`), headers (`pkg/header`) | none, or made once from the options | pure functions of a request | gateway, login flow |
| Options (`main.go`, `pkg/apis/options`, `pkg/validation`) | the `Options` struct | load, convert, validate, build the proxy | all others |

**How they interact.** Every request is a goroutine. Requests of one browser share
its cookies, which each sees as they were when it was sent and changes only when
its response arrives; through a ticket they also share an entry of the store, and
through the grant a refresh token at the provider. Nothing in `src/` calls the
session lock that every stored session carries: the middleware refreshes without
it. The watcher goroutine shares a pointer with all requests.

**What is hard.** Two requests refreshing one session whose provider rotates
refresh tokens; sign-out, a failed validation or a new sign-in in the middle of
it; a save that fails after the token was rotated; entries, cookies and
sessions that expire on three different clocks; cookies of an older session that a
save leaves behind; login flows of several tabs over one CSRF cookie, callback
links opened twice or elsewhere; leases that run out while commands are on their
way; shutdown before, during and after a failure; a file that changes between any
two steps of its watcher; thirteen providers that each fill, keep, replace or drop the
fields of a session in their own way, also when a call fails half way; options that can
be said in several ways, of which the last one wins.

**What makes each component correct** is stated with the modules below.

## 2. Modules

| Module | Models | Properties | Proofs |
|---|---|---|---|
| `StoredSession` (`MCStoredSession`) | middleware + manager + store + provider, concurrent requests | below | `StoredSessionProofs` |
| `RedisLock`, refining `Lease` | session lock over Redis; the promise of `sessions.Lock` | below | `SessionStoreProofs` |
| `CookieStore` (`MCCookieStore`) | cookie store under the same middleware | below | `SessionStoreProofs`, second part |
| `LoginFlow` (`MCLoginFlow`) | OAuthStart and OAuthCallback over the CSRF cookie | below | `LoginFlowProofs` |
| `ServerGroup` (`MCServerGroup`), refining `Lifecycle` | the nested errgroups; the promise of `Server.Start` | below | `ServerGroupProofs` |
| `UserMap` | NewUserMap, the watcher, the file | below | `UserMapProofs` |
| `Gateway` (`MCGateway`) | the request chain: loaders, authorization, handlers, identity header | below | `GatewayProofs` |
| `Providers` (`MCProviders`) | every provider's redeem, enrich, refresh, validate, authorize, over the life of a session | below | `ProvidersProofs` |
| `Startup` (`MCStartup`), composing `Routing`, `Networks`, `Redirects`, `HeaderOptions`, `ProviderOptions` | from the options to the answer to a request | below | `StartupProofs` |

Where a definition is preceded by one with a longer name of the same form
(`AfterClearOn` before `AfterClear`), the earlier one is a mutant: a plausible bug
that some property is shown to catch when it takes the definition's place.

### StoredSession

One action is one call to the store or to the provider, so that requests
interleave between any two of them. `pc[r]` is where request r is:

    load -> refresh -> save -> validate -> handler      (loadSession and below)
    any error -> clear -> handler                        (Manager.Clear)
    signin -> respond,  page -> respond                  (OAuthCallback; SignOut, SignInPage,
                                                          a refused authorization)

`sess[r]` is the session pointer, `cookie[r]` the ticket cookie the request
carried, `setCookie[r]` what the response will set. `store` maps tickets to entries
with a deadline (`ticket.options.Expire` from every save). A session is reduced to
its grant, the number of its refresh token, CreatedAt and `expiresOn`, the time from which
validation rejects it: its ExpiresOn, or the expiry of its ID token if that is earlier. The
provider keeps the current refresh token of each grant: a rotating provider retires the old
one with each refresh. `validation` is how ValidateSession decides: the provider is asked about
the access token, or (OIDC, ADFS, GitLab) the stored ID token is verified here, which never
learns of a revocation. `revokedAt` is when a grant was revoked; `doomed` (requests that found
a session of a revoked grant due for a refresh), `dropped` and `cleared` are history variables.

Properties: `ValidTicketHasEntry` relates three clocks (entry, cookie,
CreatedAt); `NewestTokenKept` says that the control flow itself never loses the newest
refresh token; `StoredTokenNeverRegresses` that racing refreshes never put an
older one back; `RevocationTakesHold` that a request which finds the session of a revoked grant
due for a refresh goes on with it only where validation is local, and no later than a token's
life after the revocation. `ClearedSessionStaysCleared` is what a test says and the code
does not keep: run ClearedSession (section 5).

### RedisLock and Lease

Lock objects for one key, in this or other instances, send commands to Redis, which
runs them later; the reply may be lost, the client may send again, a caller may give
up and its command arrive afterwards (`late`), the process may die (`Discard`).
redislock's semantics (SET NX PX, compare-and-expire, compare-and-delete) are
external. Times are remaining times. `promise[o]` is how long a caller may count on
the lock: from the nil return of Obtain or Refresh, counted from the call. After an
error of Refresh or Release the model counts on nothing further from that object
(`unsure`), since the command may still run. `Lease` is what `interfaces.go`
promises; `PromisesLease` is the refinement `lease <- promise`. `Peek` reads the key
only, and answers true for a key that somebody else holds.

### CookieStore

Cookie 0 is the unsplit one, cookie k is `name_(k-1)`. A session is its length in bytes, the
value of a cookie the range of bytes it holds; `Room[k]` is how many bytes fit into cookie k
next to its name and attributes, less with every digit of the suffix, and none or a negative
number of them when name and attributes are long. `Ends` is the loop of splitCookie over these
bytes. Where a part has no room before the value is at its end, the loop panics or never
ends, and the request sends no response (`SaveDies`). A browser ignores a cookie that
is longer than it allows (`TooLong`). Save sets the new session's
cookies and mentions no other; Clear expires the session cookies of the request
that match `^name(_\d+)?$`. `Loaded` is loadCookie, joinCookies and the
signature: parts join to a session only when they are all its parts in order.
`SaveIsLoaded` states exactly which left-over cookies may hide a saved session
(`LeftOver`), `ClearEmptiesJar` that a clear leaves nothing behind. Both are
about responses that meet in the browser. The specification is called `JarSpec`, its type
invariant `JarTypeOK`, because one module of proofs extends both session stores.

### LoginFlow

A flow stands for its random state and nonce. OAuthStart puts both in the browser's
only CSRF cookie; the provider answers with a code, whose ID token will have the flow's nonce. The
code and the state of a callback are parameters of their own: a callback may bring the state of
one flow and the code of another, in any browser, at any time and again. It redeems, enriches,
then loads the CSRF cookie its request carried, clears it, compares, sets the nonce, validates
(ignoring the result), authorizes, saves. `CallbackRefused` is a callback with the provider's
error or without a code, `NoCookie` one without a CSRF cookie, which leaves the cookies alone.

`SignedInByOwnState`: the state of the callback that signed a browser in is of a flow that browser
started. That says nothing of the code: what would tie it to the state is the nonce, and
`SignedInWithNonce` fails (section 5). `OnlyNewestFlowSignsIn`: of several tabs only the last one's
state gets past the check.

### ServerGroup and Lifecycle

Three levels of errgroups: group, server, listener, and two goroutines per listener
(serve; wait for the context and shut down). A context is cancelled by the level
above or by the first error among its own goroutines; `Wait` returns when all have.
http.Server.Shutdown is external: it closes the listener and waits for the requests
in progress (hijacked connections are not counted). A second signal finds no
reader. `Lifecycle` is the promise of Start's comments, `KeepsPromise` the
refinement.

### UserMap

Every load of the file is two steps, the read and the swap of the pointer, for
NewUserMap's own load and for the watcher's. The file's owner writes (truncating is
a write of its own), replaces, removes, creates and chmods it. A file that does not
parse leaves the map alone; a missing file ends the process (logger.Fatalf). fsnotify
(v1 on Linux): an event for a file that is gone is kept back unless it says so
(`Skip`); a replaced or removed file is not watched any more.

### Gateway

    idle -> bearer -> basic -> stored -> handle -> upstream, accepted, refused, login
    idle -> page -> done, refused, login        (sign-in, sign-out)
    idle -> answered                            (health check, redirect to HTTPS, robots)

The three loaders of the session chain are actions of their own, in their order;
`handle` is one action per handler and result of getAuthenticatedSession. `config` is
chosen at the start: which loaders are in the chain, whom the email domains accept, the
provider's groups, the injected header. A request (`Input`) says what its credentials
are worth (whether a token verifies is decided outside), whether it is allowlisted, and
which users its own copy of the identity header names. A session is reduced to where it
came from, its user, which of User and Email are set (`names`; what a login or a refresh may set
is the constant `Names`) and its groups. A bearer token's session has an address, and so has a
login's when its callback saves it; a refresh may leave it none (`from = "refreshed"`: GitLab's
always does, OIDC's and ADFS's when the ID token lacks the claim). Sessions of htpasswd users have
no address (unless `basic = "email"`), those of the sign-in form no groups either. The list is
only consulted for a session with an address (`oauthproxy.go:937`). `panic` is a nil dereference, after which net/http closes the
connection. `Reload` is the swap that UserMap models in detail, `Login` the end of
LoginFlow, `LoadStored` and `LoadNothing` the results of StoredSession's middleware.
`since[r]` is the history of the list while r is under way.

`NothingUnauthorized`: whatever gets past the proxy is allowlisted or has a session that
was acceptable at some time since the request came; `OffList` names the sessions that are not held
against the list. `IdentityNotForged`: the upstream
reads the session's user in the header, or nobody. `CredentialsWin`: accepted credentials
are never replaced by the session of the cookie. `AllowlistedServed`: an allowlisted
request is never refused or sent to sign in, but for the groups that the auth endpoint asks for,
and gets no answer only where one of two named places dereferences the session it does not have.

### Providers

    idle -> redeemed -> mailed -> enriched -> granted                 (a login: redeemCode,
                                                    enrichSessionState, Authorize, Save)
    idle -> loaded -> refreshed -> validating -> accepted -> granted  (a stored session)
    idle -> accepted                                                  (a bearer token)
    idle -> idle                                                      (the sign-in form)
    any error -> idle, with the session cleared where the code clears it

One action per call of the `Provider` interface; inside an action the `kind` of
`config` selects the provider's own code (`OidcRedeemed`, `GitLabEnriched`,
`AzureRefreshed`, ...). A session is where its e-mail was taken from (`email`, the claim),
its groups (nil is not empty: `NoGroups`), its refresh token's number, what its ID token
holds (`id`, a set of features), whether CreatedAt is set, and ExpiresOn: nil, the zero time
(never expires), past or future. `from` tells logins, the form's sessions, and bearer tokens of the
provider's own loader and of extra JWT issuers' loaders apart. The identity
provider answers anything: ID tokens that do not verify, lack claims, or mark the
address unverified; rotated refresh tokens or none; a lifetime or none, which is no expiry where the
oauth2 library reads the answer (`LibraryExpiry`) and an expiry in the past where the provider's own
code does (`OwnExpiry`: Google, Azure, login.gov); profile requests that fail; memberships
that change between requests (`MembershipChanges`). `emailClaim` is `EmailClaim` of the
one provider object; `EnrichSession` of ADFS moves it for all requests
(`OtherLogin`), also between its two reads in one request (`SecondRead`).
`newest` is the newest refresh token of the grant at the provider, `asserted`, `sound` and
`lost` are history.

`NewestTokenStored`: between two requests the newest refresh token is in the store, or a
failure after the rotation lost it. Azure is the exception: its refresh takes an answer
without a refresh token for the new one and drops the token it had.
`IdentityKept` says for each provider what a refresh may do to the stored identity.
`MembershipCurrent`: where the provider named groups or answered tests in this request,
those decide, not what was true before; for GitHub and Bitbucket `Admits` is the admission
rule as one formula, against five settings tested in two calls. `SoundRefreshKept`: a session
refreshed with all that validation asks for (`BringsAll`: the claims, and for Google and Azure a
lifetime) is not rejected by the validation that follows. `TimesSet`: the pointers that GetClaim
reads are set, but for the named ones: ExpiresOn of the form's sessions (`oauthproxy.go:590`),
CreatedAt of bearer tokens of an extra issuer or of a provider other than OIDC
(`apis/middleware/session.go:46`).

### Startup and its parts

    start -> loaded -> valid -> serving -> stopped
    start, loaded, valid -> refused          loaded -> panicked

`Load` is loadConfiguration (the command line's options converted, or the alpha options in
their place), `Validate` is Validate with OIDC discovery, `NewOAuthProxy` builds routes, the
NetSet, the provider and the servers, `Answer` answers one request. `c` is the configuration
as given. The parts are modules of operators only, one per package, so that each can be read
beside its code:

* `Routing`: `Converted` (legacy upstreams), `Accepted` (validateUpstreams), `Orders` (every
  order the unstable sort may leave), `Route` (the first match, or the trailing-slash
  redirect), `HandedOn` (what the upstream is asked for, rewritten or not). A path is its
  segments and whether it ends in a slash. A rewrite puts what is behind the pattern (`Rest`)
  behind the target, as strings: where only the target ends in a slash there are two in a row,
  where only the pattern does, two segments become one (`Rewritten`).
* `Networks`: `Parses` (ParseIPNet), `AddIPNet`, `Has`, `ClientAddress`. An address is a
  version and few bits.
* `Redirects`: `GetRedirect` and its four sources in order, `Valid` (IsValidRedirect). A
  redirect is its form, host (labels, the last first), port, and whether it is
  under the proxy prefix. The check for backslashes and double slashes is one form, `bent`.
  An X-Forwarded-Uri without a slash in front makes another host with X-Forwarded-Host
  (`getters.go:45`), which is an input, `glued`, and validated like the rest. The error of a
  request whose form cannot be parsed (`director.go:54`) is a refusal in Gateway.
* `HeaderOptions`: legacy flags to header options, validation (also of minimal
  sessions), `Stripped` and `Injected`. A header value is the source it comes from.
* `ProviderOptions`: legacy provider options, validation, `Discovered` (own discovery, then
  the library's), `AllowedGroups` and `MadeOf` (parseProviderInfo).

The properties compare an answer with a definition that knows nothing of the algorithm:
`ServedByClosest` (the route, against longest matches; and what the upstream is asked for:
this path, or all that is behind the pattern, under the target), `TrustedIffListed` (the NetSet,
against the list of networks), `RedirectLegal` (the login's redirect, whatever the request says),
`HeadersOwn` (no value of the client's next to the proxy's, nor of two sources),
`MinimalLosesNothing` (the headers with and without minimal sessions are the same),
`RestrictionKept` (groups demanded by any option reach the provider). `TypeOK` also says what
everything behind Validate takes for granted: names and paths of upstreams are told apart.

## 3. Runs

| Run | Instance | Shows |
|---|---|---|
| StoredSession | 2 requests, 2 tickets, 2 grants, the three kinds of provider, both ways to validate, refresh period 1, cookie life 2, clock to 2, 1 refresh per grant; the second grant only for a rotating provider that is asked whether sessions are valid | all four safety properties and types over 2.5 M states |
| RedisLock | 2 objects, 2 tokens, leases up to 2, 2 late commands | types, invariant, refinement, expiry of orphans |
| CookieStore | 2 requests, 3 sessions of 3 to 6 bytes, cookies with room for 3, 2, 2, 1 and 0 bytes | save and clear as the browser sees them: sessions whole, in two and in three parts, lengths on both sides of each boundary, and one that cannot be split |
| LoginFlow | 2 browsers, 2 requests, 3 flows | whose state signs whom in, with whatever code, over 0.96 M states |
| ServerGroup | 3 servers, one without listeners, 3 listeners, 2 connections | refinement and termination |
| UserMap | 4 edits after the initial file | the map follows the file |
| Gateway | 1 request, 2 users, 1 group, 4 configurations, logins with and without a user's name or an address, all kinds of requests that the endpoints tell apart | who gets past the proxy, and under whose name, over 2 M states |
| Providers | 1 user, 1 group, 13 providers in the configurations their code tells apart (restricted or not, with and without verifier, profile URL, nonce check, every set of GitHub's and Bitbucket's settings), an htpasswd file and extra issuers except where GitHub's settings are varied, 1 rotation of the refresh token | what each provider does to a session, over 0.91 M states |
| Startup | configurations that vary in one subject at a time (routing, headers, networks, redirects, provider, servers), each with the requests it is about; paths of up to 2 segments of 2 letters, up to 3 upstreams, every set of the ten header flags, addresses of 2 bits and of 1, up to 3 networks, 2 host labels | every phase, every refusal, and every kind of answer |
| ClearedSession, CookieSaved, LoginNonce | small instances | disagreements, section 5 |

**Why the bounds are enough.** Two requests race on one ticket in every pair of
steps; a second ticket and a second grant give sign-ins over a live session. One
refresh per grant is where a rotating provider refuses the loser; the theorems cover
the other values, a clock finer than the second that Age truncates to among them. The clock
bound exceeds refresh period and token life, so that both run out within a behaviour. Three
sessions of any of the lengths give every left-over of one save under the next; each length
is the last before one more cookie is needed, or the first, and the theorems hold for every length and room. Three flows
over two browsers give two tabs in one browser and a foreign one. Four edits
exceed the longest sequence between two events of the watcher (chmod, remove, create,
write). In Gateway one request at a time is enough, because requests share only the
stored session and the user list, which Login and Reload change at every point; the
theorems are for any number. Its second user is the one whose name is forged or whose session
the cookie holds; the four configurations turn each option on and off. In Providers one user
is enough, since users share only `emailClaim`, which OtherLogin moves at any time; one
rotation gives a token before and after. In Startup an answer leaves nothing behind, so one
request per behaviour (the bound in Answer) sees what any sequence sees; two
subjects are never varied together, because no code reads the options of two of them except
those listed (a refresh period with minimal sessions, --force-https with the server, the
reverse-proxy setting with addresses and redirects), which are. Three upstreams are one more
than a comparison of the sort; masks of every length from none to all bits occur in
every order. MaxTime, MaxGen, MaxLate, MaxEdits and MaxToken are the bounds in guards, MaxParts is the bound on
the cookies of one session; MaxLease is
a range of inputs.

Symmetry is used where the module has only safety properties and the sets are
interchangeable. `CHECK_DEADLOCK FALSE` is in LoginFlow and LoginNonce (all flows used
up) and in UserMap (edits used up, or the process dead): there the bounded
system really stops. It is in Startup too, where a process that refused its configuration,
panicked or was stopped does nothing more. Gateway, Providers and Startup state safety only and assume no fairness. ServerGroup's `Exited` is the process after Start has
returned.

**Fairness.** RedisLock: only time (`WF(Tick)`), since callers and Redis owe nothing.
ServerGroup: every goroutine that can run does, and every request is answered in the
end; a signal and failures are owed by nobody. The last assumption is needed:
Shutdown gets no deadline, and without it StopsInTheEnd fails on a request that
never ends. UserMap: the goroutine of NewUserMap and the watcher's; the file's owner
owes nothing.

## 4. Proofs

All for every value of the constants under the named assumptions; TLC checked each
invariant first.

* **StoredSessionProofs.** `TypeInvariant` is inductive with the clause that no
  request holds a nil session where the code dereferences it. `RevokedNotServed`
  rests on an invariant on what a doomed request may do next: a refresh cannot be
  granted any more, validation that asks rejects, and what the request holds expires within a
  token's life of the revocation, since no refresh of the grant came after it. `TokensInOrder` rests on: stored and held
  tokens are never newer than the provider's current one, and a token about to
  be saved is the current one for a rotating provider. `NewestKept` adds where the
  newest token is. `ValidTicketBacked` needs the clocks: an entry's deadline is not
  before the end of any cookie for its ticket, in the browser or on its way, and
  tickets are drawn once.
  The last part is about what section 5 reports of a cleared session, and says exactly how
  far it goes. `OnlyRefreshRestores`: it comes back under its ticket only by the save of a request
  that has refreshed it, with the newest token of the grant, and never by a sign-in. `GoneForGood`:
  once neither the store nor any request has a session of a grant, there never is one
  again. `ClearedStaysWithoutRefresh`: without a refresh period the test's claim, the very
  property that run refutes, holds. They rest on where sessions come from (`Spread`): a
  step gives a request or an entry no session of a grant that no entry, request or sign-in had.
* **SessionStoreProofs**, of both ways to keep what requests share. The Redis lock:
  `TypeInvariant` includes the bound on late commands. Tokens are
  owned: one that some object holds, sends or left behind belongs to that object alone.
  With that, `PromiseIsBacked` is inductive together with a bound on the time left of a
  call; `LockPromisesLease` maps each step to a step of Lease or a stutter, and
  `LockIsExclusive` follows. `OrphansAge` is the safety half of `OrphanExpires`: nothing that
  still arrives extends a lock nobody holds, every tick takes from it, and it is never taken over.
  The cookie store: `CutsExist` shows that the recursion of `Ends` has a solution (a cut per
  cookie, by induction up to a bound), and `EndsAreCuts` what it is. From it `SplitIsWhole`: the parts of a
  session are its bytes, each once and in order, none too long and none empty; and `SplitEnds`:
  with room for a byte in every cookie the split exists and is the only one, and a session
  that meets a cookie without room has none. `JarInv` says that what Save and Clear
  set is in the response until the browser takes it. From these,
  `SavedCookiesLoad`: when nothing is left over, the number of parts the loader finds is the
  one that was saved (`CookieParts`), and cookies of that number are signed for no other
  session; `ClearEmptiesBrowser` needs `NameFits`.
* **LoginFlowProofs.** The CSRF cookie of a browser, and the one each request carries,
  hold a flow of that browser; a request past the check has its cookie's flow as its state, whatever
  its code (`OwnState`, `NewestFlowOnly`).
* **GatewayProofs.** `IInv` says of each request which endpoint it is at, what the loaders
  have found for it so far (a session of its credentials, or none yet; what may be missing of an
  address by where the session is from), that the present list is
  among those since it came, and the four properties; a step of another request touches
  none of it (`Untouched`).
* **ServerGroupProofs.** The invariant ties the three levels: a level has returned only
  if what is below has, with an error exactly when one is below; a listener is shut
  down only with a cause. `GroupKeepsPromise` is the refinement. Of `StopsInTheEnd` two
  halves are safety: after a signal or a failure, until Start returns, some goroutine can run, some
  level can return or some request is being answered (`StopNeverStuck`: the error of one listener
  reaches all the others through three contexts, none of which waits for another); and
  no listener, server or group goes back, with at most five steps for a listener, and no request
  comes in where a shutdown has begun (`GroupOnlyForward`). What is left to TLC is that fairness
  turns these into termination.
* **UserMapProofs.** Versions order everything: what was read and what is in the map is no
  newer than the file, and a version is one content. `CurrentAtRest` adds which event, or
  which step of the watcher, is still pending whenever the map is behind; `NeverBack` that a
  load that nobody overtook read no older version than the map has.
* **ProvidersProofs.** One invariant, `Inv`, for all thirteen providers: types, the flow of
  tokens (where the newest refresh token is between two steps), what the session in hand
  owes to the answers of this request (its groups, its times, what makes it sound), and the
  claim the address was taken from. The lemmas on what each provider's Redeem, Enrich
  and Refresh return are proved provider by provider; the steps only cite them.
* **StartupProofs.** `IInv` says that options, proxy and answer are functions of the
  configuration and the request, up to the order the sort leaves the routes in; nothing
  else is needed of the state. The work is in lemmas on the algorithms:
  `RedirectsLegal` goes through the sources of a redirect and the validator;
  `RestrictionStays` through conversion, discovery and the provider that is made;
  `ClosestServes` through the order of the routes: all rewrites by length, then the
  others, so the first match is the closest (`ClosestRoute`), whose upstream is the only one of its
  name (`RoutedBy`) and is asked for the rest of the path (`AskedBehind`, `Replaced`); `TypeInvariant`
  counts, since validation compares lists and the property sets;
  `TrustedAreListed` follows the NetSet through every `AddIPNet` (`NetFold`): the maps found
  for a version hold the masked addresses of exactly the networks added so far;
  `HeadersAreOwn` follows a header through every value injected (`AllOwn`):
  what is there is what stripping left and, when names are distinct, the values of at
  most one option; `MinimalLoses` compares the claims the headers use with the tokens.

Loops over lists are folds (`FoldLeft`, which the library defines over sets of indices).
`FoldExists` proves that the recursion of such a fold has a solution, from a step function
of known type, and `UpTo` is induction up to a bound, by the least index that fails.
Together they replace the induction theorems that take an operator, so what these loops
compute is proved for lists of any length.

Assumptions: the named ASSUMEs of the modules, which TLC evaluates in the runs. Nil is no
value; periods, widths and bounds are naturals, a second has at least one tick, there is at
least one listener; `LateAssumption` (bounds of RedisLock), `GivenAssumption` and `AskedAssumption`
(options and requests of Startup have their Go types: lists are lists, paths and hosts are
of their sets). No refresh of cookies beyond what validation allows is assumed: the theorems
hold for any periods. `SplitAssumption` is what Go's cookies are: no signed session is empty, and
there is never more room behind a longer suffix; `ApartAssumption` keeps CookieStore's markers apart.

Every safety property that a passing run checks is proved. Only model-checked: the
liveness properties (`OrphanExpires`, `StopsInTheEnd`, `MapCatchesUp`), because liveness under
fairness is out of the prover's reach (what of them is safety is proved: `OrphansAge`,
`StopNeverStuck` with `GroupOnlyForward`, `CurrentAtRest`); and the three properties of section 5, which do not hold.

## 5. Where code and words disagree

1. **ClearedSession.** A refresh under way when the session is cleared saves it again
   under the same ticket (`stored_session.go:159`); a test says a stale cookie cannot
   load a cleared session (`session_store_tests.go:204`). It takes a refresh that was under way:
   without one the session stays cleared, and once no request has it, it is gone for good (section 4).
2. **CookieSaved.** After a one-cookie session a split one is saved and not loaded: the
   loader prefers the old whole cookie (`session_store.go:205`).
3. **LoginNonce.** The result of the nonce check is discarded in the callback
   (`oauthproxy.go:752`); the documentation says it is checked after the redemption. Code and
   state come as parameters of their own (715, 738): a browser that comes back with its own state
   and the code of another login is signed in with that login.

Behaviour the models show without any words against it: the loser of a refresh race
may clear the winner's session; after a refresh that failed because the grant was revoked, the
session goes on with OIDC, ADFS and GitLab until its ID token expires (`stored_session.go:121`,
`oidc.go:127`, `gitlab.go:275`); a transient store failure costs a good session;
with a cookie name of 255 or 256 characters Clear leaves the parts
(`NameFits = FALSE` makes ClearEmptiesJar fail); overlapping loads at startup may
leave the older list in the map until the next edit. In Gateway: with
`prefer-email-to-user` and an htpasswd file every request without accepted credentials, a
signed-in browser's too, ends in a nil dereference (`basic_session.go:34`), although the
comment above says that it is passed to the next handler; so does an allowlisted
request to the auth endpoint with `allowed_groups` and no session (`oauthproxy.go:979`), both of
which AllowlistedServed names; a session that its refresh left without an e-mail address is no longer
held against the e-mail list (`oauthproxy.go:937`), which NothingUnauthorized names (`OffList`); a
bearer token that is refused clears the session of the cookie sent with it
(`oauthproxy.go:946`); a user who signs in with the form gets none of the
htpasswd groups that basic credentials get (`oauthproxy.go:590`); a late response that
carries a refreshed session replaces that of another user who has signed in
meanwhile. In CookieStore: when the cookie's name, domain and path leave no room for a byte of the value, splitCookie
slices to a negative size and panics, or appends empty cookies without end
(`session_store.go:173`), and the request gets no response; a session saved and then rejected in one response may stay in the
browser, since Clear expires only what the request carried (`session_store.go:74`; the
comment at line 68 says it clears "any saved session information").

In Providers, where the exceptions are written into the properties: GitLab's refresh leaves a
session without address and groups (`gitlab.go:166`), so that after its first refresh a GitLab
session passes any e-mail list and no group restriction; Azure's
refresh drops the refresh token when the answer has none; an answer of Azure without `expires_on`
(`azure.go:151`, `288`) or of Google without `expires_in` (`google.go:174`, `324`) makes a session that
has already expired, which the next validation rejects and clears; ADFS switches the e-mail claim of
all users for good after one ID token without one (`adfs.go:87`); the sign-in form's session has no
ExpiresOn, so that validation never finds it expired, and a bearer token of an extra issuer makes a session without
CreatedAt even with OIDC, so that a header with that claim reads a nil pointer; a GitHub team without an
organisation, or a repository token without a repository, restricts nobody.

In Startup: without providers, Validate panics (`pkg/validation/options.go:43` or `63`) before
it can report that there are none (`pkg/validation/providers.go`); for GitLab,
`--allowed-group` is overwritten by the groups and projects of GitLab's own options, and
restricts nobody if there are none (`options.go:279`; `overview.md:194` says it restricts
logins), which RestrictionKept excepts by name; login and redeem URLs given in the options are
replaced by the discovered ones (`options.go:135`); a path that "/" serves is never redirected
to the subtree of the same name with a slash, unlike Go's own mux, which the comment at
`pkg/upstream/proxy.go:128` has in mind; the path of an upstream's URI is dropped
(`pkg/upstream/http.go:45`; `pkg/apis/options/upstreams.go:46` says requests are served under
it); an error in a rewritten query is swallowed (`rewrite.go:70`) and the original path is
asked for; a rewrite whose pattern and target do not both
end in a slash, or both not, glues or doubles ("/a/" to "/b" asks for "/bx" where "/a/x" was asked, which
is outside the target, "/a" to "/b/" for "/b//x"); a file upstream with a rewrite finds nothing, as it strips a path that is not
there; `rd` and X-Auth-Request-Redirect may name the proxy's own paths, which the URI of a
request may not; minimal sessions are accepted with a header that has the claim
`refresh_token` (`pkg/validation/sessions.go:23`), and it is then empty; header names that
differ in case only count as two (`header.go:26`) and as one in a request; `--force-https`
needs a TLS certificate of the proxy's own when it is configured by flags, since only then is
there a secure address.

## 6. Plan

Done, in the order of importance: the shared session and its races
(StoredSession), the lock it could use (RedisLock), the other store (CookieStore),
the flow that creates sessions (LoginFlow), the process (ServerGroup), the user map
(UserMap), the request chain around them (Gateway); then what the identity
providers do to a session (Providers), and the way from the options to an answer (Startup
with Routing, Networks, Redirects, HeaderOptions, ProviderOptions).

The proofs follow the runs: all safety properties of passing runs are theorems now.

So are the results beyond them that the plan named: the bound under which `splitCookie` cannot go
wrong, and what the upstream is asked for.

Left to TLC for good: the liveness properties under fairness. What would extend the model next is
general regular expressions in routes, where the order of capture groups and anchors would matter.

## 7. Not modelled

Cryptography and encodings (a signature holds or not), HTML pages, logging, metrics,
HTTP client plumbing, TLS, websockets and the HMAC signature of proxied requests, Redis
topologies, the parsing of flags, files and environment, `--convert-config-to-alpha`, and
the validation of single values (cookie secret and name, logging, regular expressions, keys),
which is one input (`faults`) in Startup: no state the properties speak of, or pure I/O. Regular
expressions in routes are those that a path begins with; URL and address syntax are the standard
library's. The components list in PROJECT.json has each part with its reason.
