---------------------------- MODULE GatewayProofs ----------------------------
(***************************************************************************)
(* Proofs about Gateway: the types, and with them where each request is    *)
(* routed, what the loaders have found so far, and that the list a request *)
(* is checked against is among those since it came.                        *)
(***************************************************************************)
EXTENDS Gateway, TLAPS

\* Every source of sessions makes sessions.
LEMMA SessionTypes ==
    ASSUME NEW u \in Users, NEW g \in SUBSET Groups, NEW n \in SUBSET {"user", "email"},
           NEW f \in {"bearer", "basic", "form", "login", "refreshed"},
           f \in {"bearer", "login"} => "email" \in n
    PROVE  [from |-> f, user |-> u, names |-> n, groups |-> g] \in Session
  BY DEF Session, HasEmail

\* Type correctness of the gateway: in particular a request has no session before
\* the loaders run, so that no request sees the one of another.
THEOREM TypeInvariant == Spec => []TypeOK
<1>1. Init => TypeOK
  BY DEF Init, TypeOK, Final
<1>2. TypeOK /\ [Next]_vars => TypeOK'
  <2> SUFFICES ASSUME TypeOK, [Next]_vars PROVE TypeOK'
    OBVIOUS
  <2> USE DEF TypeOK, Final, Goto, Hold, env
  <2>c. config \in Config /\ \A r \in Requests : req[r] # None => req[r] \in Input
    BY GatewayAssumption
  <2>1. ASSUME NEW r \in Requests, Arrive(r) PROVE TypeOK'
    BY <2>1, GatewayAssumption DEF Arrive
  <2>2. ASSUME NEW r \in Requests, LoadBearer(r) PROVE TypeOK'
    <3>1. req[r] \in Input
      BY <2>2, <2>c DEF LoadBearer
    <3>2. req[r].as \in Users
      BY <3>1 DEF Input
    <3>3. \A g \in SUBSET Groups :
             [from |-> "bearer", user |-> req[r].as, names |-> {"user", "email"},
              groups |-> g] \in Session
      BY <3>2, SessionTypes
    <3>4. scope' \in [Requests -> Session \cup {None}]
      BY <2>2, <3>3 DEF LoadBearer
    <3>5. pc' = [pc EXCEPT ![r] = "basic"]
      BY <2>2 DEF LoadBearer
    <3>6. \A q \in Requests : q # r => scope'[q] = scope[q]
      BY <2>2 DEF LoadBearer
    <3> QED
      BY <2>2, <3>4, <3>5, <3>6 DEF LoadBearer
  <2>3. ASSUME NEW r \in Requests, SkipBasic(r) \/ SkipStored(r) PROVE TypeOK'
    BY <2>3 DEF SkipBasic, SkipStored
  <2>4. ASSUME NEW r \in Requests, LoadBasic(r) PROVE TypeOK'
    <3>1. req[r] \in Input
      BY <2>4, <2>c DEF LoadBasic
    <3>2. req[r].as \in Users /\ config.userGroups \in SUBSET Groups
      BY <3>1, <2>c DEF Input, Config
    <3>3. BasicSession(r) \in Session
      BY <3>2, SessionTypes DEF BasicSession
    <3>4. scope' \in [Requests -> Session \cup {None}]
      BY <2>4, <3>3 DEF LoadBasic
    <3>5. \E l \in {"panic", "stored"} : pc' = [pc EXCEPT ![r] = l]
      BY <2>4 DEF LoadBasic
    <3>6. \A q \in Requests : q # r => scope'[q] = scope[q]
      BY <2>4 DEF LoadBasic
    <3> QED
      BY <2>4, <3>4, <3>5, <3>6 DEF LoadBasic
  <2>5. ASSUME NEW r \in Requests, LoadStored(r) PROVE TypeOK'
    <3>1. {carried[r], stored} \ {None} \subseteq Session
      OBVIOUS
    <3>2. \A c \in Session, g \in SUBSET Groups, n \in Names :
             [from |-> "refreshed", user |-> c.user, names |-> n, groups |-> g]
                \in Session
      <4>1. \A c \in Session : c.user \in Users
        BY DEF Session
      <4> QED
        BY <4>1, SessionTypes, GatewayAssumption
    <3>3. \E s \in Session :
             /\ Hold(r, s)
             /\ \/ UNCHANGED setCookie
                \/ setCookie' = [setCookie EXCEPT ![r] = s]
      <4>1. PICK c \in {carried[r], stored} \ {None} :
               \/ Hold(r, c) /\ UNCHANGED setCookie
               \/ \E g \in SUBSET Groups, n \in Names :
                     LET s == [from |-> "refreshed", user |-> c.user, names |-> n,
                               groups |-> g]
                     IN  Hold(r, s) /\ setCookie' = [setCookie EXCEPT ![r] = s]
        BY <2>5 DEF LoadStored
      <4>2. c \in Session
        BY <3>1
      <4> QED
        BY <4>1, <4>2, <3>2
    <3>4. pc' = [pc EXCEPT ![r] = "handle"]
      BY <2>5 DEF LoadStored
    <3>5. UNCHANGED <<env, req, carried, header, since>>
      BY <2>5 DEF LoadStored
    <3>6. /\ scope' \in [Requests -> Session \cup {None}]
          /\ \A q \in Requests : q # r => scope'[q] = scope[q]
      BY <3>3
    <3>7. setCookie' \in [Requests -> Session \cup {None, Keep}]
      BY <3>3
    <3>8. pc[r] = "stored"
      BY <2>5 DEF LoadStored
    <3> QED
      BY <3>4, <3>5, <3>6, <3>7, <3>8
  <2>6. ASSUME NEW r \in Requests, LoadNothing(r) PROVE TypeOK'
    BY <2>6 DEF LoadNothing
  <2>7. ASSUME NEW r \in Requests, Deny(r) \/ AskLogin(r) PROVE TypeOK'
    BY <2>7 DEF Deny, AskLogin, ClearIgnored, ClearCookie, SignInPage
  <2>8. ASSUME NEW r \in Requests, Proxy(r) PROVE TypeOK'
    <3>1. scope[r] # None => scope[r].user \in Users
      BY DEF Session
    <3>2. Claim(scope[r]) \subseteq Users
      BY <3>1 DEF Claim
    <3>3. Stripped(r) \subseteq Users
      BY <2>8, <2>c DEF Stripped, Proxy, Input
    <3> QED
      BY <2>8, <3>2, <3>3 DEF Proxy
  <2>9. ASSUME NEW r \in Requests, UserInfo(r) \/ AuthOnly(r) PROVE TypeOK'
    BY <2>9 DEF UserInfo, AuthOnly
  <2>10. ASSUME NEW r \in Requests, SignIn(r) PROVE TypeOK'
    <3>1. req[r] \in Input
      BY <2>10, <2>c DEF SignIn
    <3>2. FormSession(r) \in Session
      BY <3>1, SessionTypes DEF FormSession, Input
    <3>3. setCookie' \in [Requests -> Session \cup {None, Keep}]
      BY <2>10, <3>2 DEF SignIn, SignInPage, ClearCookie
    <3>4. \E l \in {"refused", "done", "login"} : pc' = [pc EXCEPT ![r] = l]
      BY <2>10 DEF SignIn, SignInPage
    <3> QED
      BY <2>10, <3>3, <3>4 DEF SignIn
  <2>11. ASSUME NEW r \in Requests, SignOut(r) PROVE TypeOK'
    BY <2>11 DEF SignOut, ClearCookie
  <2>12. ASSUME NEW r \in Requests, Respond(r) PROVE TypeOK'
    <3>1. stored' \in Session \cup {None}
      BY <2>12 DEF Respond
    <3> QED
      BY <2>12, <3>1 DEF Respond, NewScope
  <2>13. CASE Login
    <3>1. stored' \in Session
      <4>1. PICK u \in Users, n \in Names, g \in SUBSET Groups :
               LET s == [from |-> "login", user |-> u, names |-> n, groups |-> g]
               IN  HasEmail(s) /\ stored' = s
        BY <2>13 DEF Login
      <4>2. n \in SUBSET {"user", "email"} /\ "email" \in n
        BY <4>1, GatewayAssumption DEF HasEmail
      <4> QED
        BY <4>1, <4>2, SessionTypes
    <3> QED
      BY <2>13, <3>1 DEF Login
  <2>14. CASE Reload
    BY <2>14 DEF Reload
  <2>15. CASE UNCHANGED vars
    BY <2>15 DEF vars
  <2> QED
    BY <2>1, <2>2, <2>3, <2>4, <2>5, <2>6, <2>7, <2>8, <2>9, <2>10, <2>11,
       <2>12, <2>13, <2>14, <2>15 DEF Next, Step
<1> QED
  BY <1>1, <1>2, PTL DEF Spec

--------------------------------------------------------------------------------
Chained == {"proxy", "auth", "userinfo"}

\* The session is the one of the credentials that came with the request.
Matched(r) ==
    /\ scope[r] # None
    /\ scope[r].from = IF req[r].auth = "token" THEN "bearer" ELSE "basic"
    /\ scope[r].user = req[r].as

\* Which requests are where, and what the loaders have found for them so far.
Routed(r) ==
    /\ pc[r] \in {"bearer", "basic", "stored", "handle", "upstream", "accepted", "panic"}
          => req[r].to \in Chained
    /\ pc[r] \in {"page", "done", "answered"} => req[r].to \notin Chained
    /\ pc[r] # "idle" => listed \subseteq since[r]

Loaded(r) ==
    /\ pc[r] = "basic" => IF config.jwt /\ req[r].auth = "token"
                          THEN Matched(r) ELSE scope[r] = None
    /\ pc[r] = "stored" /\ Accepts(r) => Matched(r)
    /\ Handled(r) /\ Accepts(r) => Matched(r)

Authorized(r) == pc[r] \in {"upstream", "accepted"} =>
    /\ req[r].allowed \/ AcceptedSession(r)
    /\ (req[r].to = "auth" /\ req[r].query # {}) =>
          scope[r] # None /\ scope[r].groups \cap req[r].query # {}

Named(r) == (pc[r] = "upstream" /\ ~config.preserve) =>
    header[r] \subseteq IF scope[r] = None THEN {} ELSE {scope[r].user}

Served(r) ==
    (req[r].to \in Chained /\ req[r].allowed) =>
        /\ pc[r] \in {"refused", "login"} => AsksGroups(r)
        /\ pc[r] = "panic" => scope[r] = None /\ (NilUser(r) \/ AsksGroups(r))

IInv(r) == Routed(r) /\ Loaded(r) /\ Authorized(r) /\ Named(r) /\ Served(r)

\* A request's part of the invariant is about its own fields, the configuration,
\* and the list, which only grows in its history.
LEMMA Untouched ==
    ASSUME TypeOK, NEW q \in Requests, IInv(q), config' = config,
           pc'[q] = pc[q], req'[q] = req[q], scope'[q] = scope[q],
           header'[q] = header[q], since[q] \subseteq since'[q],
           pc[q] # "idle" => listed' \subseteq since'[q]
    PROVE  IInv(q)'
<1> USE DEF IInv
<1>1. Routed(q)'
  BY DEF Routed
<1>2. Loaded(q)'
  BY DEF Loaded, Matched, Handled, Accepts, Final
<1>3. Authorized(q)'
  BY DEF Authorized, AcceptedSession, OffList, HasEmail, InAllowedGroup
<1>4. Named(q)' /\ Served(q)'
  BY DEF Named, Served, AsksGroups, NilUser
<1> QED
  BY <1>1, <1>2, <1>3, <1>4

LEMMA Preserved ==
    ASSUME TypeOK, \A r \in Requests : IInv(r), [Next]_vars
    PROVE  \A r \in Requests : IInv(r)'
<1> USE DEF Goto, Hold, env
<1>a. ASSUME NEW r \in Requests, Step(r), NEW q \in Requests, q # r
      PROVE  IInv(q)'
  <2>1. /\ config' = config /\ listed' = listed
        /\ pc'[q] = pc[q] /\ req'[q] = req[q] /\ scope'[q] = scope[q]
        /\ header'[q] = header[q] /\ since'[q] = since[q]
    <3>1. CASE Arrive(r)
      BY <1>a, <3>1 DEF Arrive, TypeOK
    <3>2. CASE LoadBearer(r) \/ SkipBasic(r) \/ LoadBasic(r) \/ SkipStored(r)
      BY <1>a, <3>2 DEF LoadBearer, SkipBasic, LoadBasic, SkipStored, TypeOK
    <3>3. CASE LoadStored(r) \/ LoadNothing(r)
      BY <1>a, <3>3 DEF LoadStored, LoadNothing, TypeOK
    <3>4. CASE Deny(r) \/ AskLogin(r) \/ Proxy(r) \/ UserInfo(r) \/ AuthOnly(r)
      BY <1>a, <3>4 DEF Deny, AskLogin, Proxy, UserInfo, AuthOnly, SignInPage, TypeOK
    <3>5. CASE SignIn(r) \/ SignOut(r)
      BY <1>a, <3>5 DEF SignIn, SignOut, SignInPage, TypeOK
    <3>6. CASE Respond(r)
      BY <1>a, <3>6 DEF Respond, NewScope, TypeOK
    <3> QED
      BY <1>a, <3>1, <3>2, <3>3, <3>4, <3>5, <3>6 DEF Step
  <2>2. pc[q] # "idle" => listed \subseteq since[q]
    BY <1>a DEF IInv, Routed
  <2> QED
    BY <1>a, <2>1, <2>2, Untouched
<1>b. ASSUME NEW r \in Requests, Step(r)
      PROVE  IInv(r)'
  <2> USE DEF TypeOK
  <2>0. IInv(r)
    OBVIOUS
  <2>1. CASE Arrive(r)
    <3>1. /\ scope'[r] = None /\ since'[r] = listed /\ listed' = listed
          /\ pc'[r] = CASE req'[r].to = "public" -> "answered"
                        [] req'[r].to \in {"sign_in", "sign_out"} -> "page"
                        [] OTHER -> "bearer"
          /\ req'[r] \in Input
      BY <2>1, GatewayAssumption DEF Arrive
    <3>2. req'[r].to \in Endpoints
      BY <3>1 DEF Input
    <3>3. /\ pc'[r] = "answered" => req'[r].to = "public"
          /\ pc'[r] = "page" => req'[r].to \in {"sign_in", "sign_out"}
          /\ pc'[r] = "bearer" => req'[r].to \in Chained
          /\ pc'[r] \in {"answered", "page", "bearer"}
      BY <3>1, <3>2 DEF Endpoints, Chained
    <3>4. Routed(r)'
      BY <3>1, <3>3 DEF Routed, Chained
    <3>5. Loaded(r)'
      BY <3>3 DEF Loaded, Handled, Final
    <3> QED
      BY <3>3, <3>4, <3>5 DEF IInv, Authorized, Named, Served
  <2>2. CASE LoadBearer(r)
    <3>1. /\ pc[r] = "bearer" /\ pc'[r] = "basic" /\ scope[r] = None
          /\ UNCHANGED <<config, listed, req, since>>
      BY <2>2 DEF LoadBearer
    <3>2. CASE config.jwt /\ req[r].auth = "token"
      <4>1. PICK g \in SUBSET Groups :
               scope'[r] = [from |-> "bearer", user |-> req[r].as,
                            names |-> {"user", "email"}, groups |-> g]
        BY <2>2, <3>2 DEF LoadBearer
      <4>2. scope'[r] \in Session /\ scope'[r] # None
        <5>1. req[r] \in Input
          BY <3>1, GatewayAssumption
        <5>2. req[r].as \in Users
          BY <5>1 DEF Input
        <5>3. scope'[r] \in Session
          BY <4>1, <5>2, SessionTypes
        <5> QED
          BY <5>3, GatewayAssumption
      <4>3. Matched(r)'
        BY <3>1, <3>2, <4>1, <4>2 DEF Matched
      <4> QED
        BY <2>0, <3>1, <3>2, <4>3
           DEF IInv, Routed, Loaded, Handled, Authorized, Named, Served, Final
    <3>3. CASE ~(config.jwt /\ req[r].auth = "token")
      <4>1. scope'[r] = None
        BY <2>2, <3>1, <3>3 DEF LoadBearer
      <4> QED
        BY <2>0, <3>1, <3>3, <4>1
           DEF IInv, Routed, Loaded, Handled, Authorized, Named, Served, Final
    <3> QED
      BY <3>2, <3>3
  <2>3. CASE SkipBasic(r)
    <3>1. /\ pc[r] = "basic" /\ pc'[r] = "stored"
          /\ UNCHANGED <<config, listed, req, scope, since>>
      BY <2>3 DEF SkipBasic
    <3>2. Accepts(r) => Matched(r)
      BY <2>0, <2>3 DEF SkipBasic, Vacant, IInv, Loaded, Accepts
    <3>3. (Accepts(r) => Matched(r))'
      BY <3>1, <3>2 DEF Accepts, Matched
    <3> QED
      BY <2>0, <3>1, <3>3
         DEF IInv, Routed, Loaded, Handled, Authorized, Named, Served, Final
  <2>4. CASE LoadBasic(r)
    <3>1. /\ pc[r] = "basic" /\ pc'[r] \in {"stored", "panic"} /\ scope[r] = None
          /\ config.basic # "off"
          /\ UNCHANGED <<config, listed, req, since>>
      BY <2>4 DEF LoadBasic, Vacant
    <3>2. ~(config.jwt /\ req[r].auth = "token")
      BY <2>0, <3>1 DEF IInv, Loaded, Matched
    <3>3. CASE req[r].auth = "password"
      <4>1. scope'[r] = BasicSession(r) /\ pc'[r] = "stored"
        BY <2>4, <3>3 DEF LoadBasic
      <4>2. scope'[r] \in Session /\ scope'[r] # None
        <5>1. req[r] \in Input /\ config \in Config
          BY <3>1, GatewayAssumption
        <5>2. req[r].as \in Users /\ config.userGroups \in SUBSET Groups
          BY <5>1 DEF Input, Config
        <5>3. BasicSession(r) \in Session
          BY <5>2, SessionTypes DEF BasicSession
        <5> QED
          BY <4>1, <5>3, GatewayAssumption
      <4>3. Matched(r)'
        BY <3>1, <3>3, <4>1, <4>2 DEF Matched, BasicSession
      <4> QED
        BY <2>0, <3>1, <4>1, <4>3
           DEF IInv, Routed, Loaded, Handled, Authorized, Named, Served, Final
    <3>4. CASE req[r].auth # "password"
      <4>1. ~Accepts(r)'
        BY <3>1, <3>2, <3>4 DEF Accepts
      <4>2. scope'[r] = None /\ (pc'[r] = "panic" => NilUser(r)')
        BY <2>4, <3>1, <3>4 DEF LoadBasic, NilUser
      <4>3. Served(r)'
        BY <3>1, <4>2 DEF Served
      <4> QED
        BY <2>0, <3>1, <4>1, <4>3
           DEF IInv, Routed, Loaded, Authorized, Named
    <3> QED
      BY <3>3, <3>4
  <2>5. CASE SkipStored(r)
    BY <2>0, <2>5 DEF SkipStored, IInv, Routed, Loaded, Handled, Accepts, Matched,
                      Authorized, Named, Served, Final
  <2>6. CASE LoadStored(r) \/ LoadNothing(r)
    <3>1. /\ pc[r] = "stored" /\ pc'[r] = "handle" /\ scope[r] = None
          /\ UNCHANGED <<config, listed, req, since>>
      BY <2>6 DEF LoadStored, LoadNothing, Vacant
    <3>2. ~Accepts(r)'
      BY <2>0, <3>1 DEF IInv, Loaded, Accepts, Matched
    <3> QED
      BY <2>0, <3>1, <3>2
         DEF IInv, Routed, Loaded, Authorized, Named, Served
  <2>7. CASE Deny(r) \/ AskLogin(r)
    <3>1. /\ pc[r] = "handle" /\ pc'[r] \in {"refused", "login"} /\ ~req[r].allowed
          /\ UNCHANGED <<config, listed, req, scope, since>>
      BY <2>7 DEF Deny, AskLogin, Denied, NeedsLogin, SignInPage
    <3> QED
      BY <2>0, <3>1 DEF IInv, Routed, Loaded, Handled, Accepts, Matched,
                        Authorized, Named, Served, Final
  <2>8. CASE Proxy(r) \/ UserInfo(r) \/ AuthOnly(r)
    <3>1. /\ pc[r] = "handle"
          /\ pc'[r] \in {"upstream", "accepted", "refused", "panic"}
          /\ UNCHANGED <<config, listed, req, scope, since>>
      BY <2>8 DEF Proxy, UserInfo, AuthOnly
    <3>2. req[r].allowed \/ AcceptedSession(r)
      BY <2>0, <2>8, <3>1 DEF Proxy, UserInfo, AuthOnly, Admitted, NeedsLogin, Denied,
           Acceptable, Validator, AcceptedSession, OffList, Session, IInv, Routed
    <3>3. (req[r].allowed \/ AcceptedSession(r))'
      BY <3>1, <3>2 DEF AcceptedSession, OffList, HasEmail, InAllowedGroup
    <3>4. (pc'[r] = "accepted" /\ req[r].to = "auth" /\ req[r].query # {}) =>
             scope[r] # None /\ scope[r].groups \cap req[r].query # {}
      BY <2>8 DEF Proxy, UserInfo, AuthOnly, InQueryGroup
    <3>5. Authorized(r)'
      <4>1. pc'[r] = "upstream" => req[r].to = "proxy"
        BY <2>8 DEF Proxy, UserInfo, AuthOnly
      <4> QED
        BY <3>1, <3>3, <3>4, <4>1 DEF Authorized
    <3>6. Named(r)'
      <4>1. pc'[r] = "upstream" =>
               header'[r] = Stripped(r) \cup Claim(scope[r])
        BY <2>8 DEF Proxy, UserInfo, AuthOnly
      <4> QED
        BY <3>1, <4>1 DEF Named, Stripped, Claim
    <3>7. Served(r)'
      BY <2>8, <3>1 DEF Served, AsksGroups, Proxy, UserInfo, AuthOnly, InQueryGroup
    <3>8. Routed(r)' /\ Loaded(r)'
      BY <2>0, <3>1 DEF IInv, Routed, Loaded, Handled, Accepts, Matched, Final
    <3> QED
      BY <3>5, <3>6, <3>7, <3>8 DEF IInv
  <2>9. CASE SignIn(r) \/ SignOut(r)
    <3>1. /\ pc[r] = "page" /\ pc'[r] \in {"refused", "login", "done"}
          /\ UNCHANGED <<config, listed, req, scope, since>>
      BY <2>9 DEF SignIn, SignOut, SignInPage
    <3> QED
      BY <2>0, <3>1 DEF IInv, Routed, Loaded, Handled, Authorized, Named, Served,
                        Final, Chained
  <2>10. CASE Respond(r)
    <3>1. pc'[r] = "idle"
      BY <2>10 DEF Respond
    <3> QED
      BY <3>1 DEF IInv, Routed, Loaded, Handled, Authorized, Named, Served, Final
  <2> QED
    BY <1>b, <2>1, <2>2, <2>3, <2>4, <2>5, <2>6, <2>7, <2>8, <2>9, <2>10 DEF Step
<1>c. ASSUME Login \/ UNCHANGED vars, NEW q \in Requests PROVE IInv(q)'
  <2>1. UNCHANGED <<config, listed, pc, req, scope, header, since>>
    BY <1>c DEF Login, vars
  <2>2. pc[q] # "idle" => listed \subseteq since[q]
    BY DEF IInv, Routed
  <2> QED
    BY <2>1, <2>2, Untouched
<1>d. ASSUME Reload, NEW q \in Requests PROVE IInv(q)'
  <2>1. /\ UNCHANGED <<config, pc, req, scope, header>>
        /\ since'[q] = IF pc[q] = "idle" THEN since[q] ELSE since[q] \cup listed'
    BY <1>d DEF Reload
  <2> QED
    BY <2>1, Untouched
<1> QED
  BY <1>a, <1>b, <1>c, <1>d DEF Next

\* Where requests are, what was loaded for them and what they were granted.
THEOREM GatewayInvariant == Spec => [](\A r \in Requests : IInv(r))
<1>1. Init => \A r \in Requests : IInv(r)
  BY DEF Init, IInv, Routed, Loaded, Handled, Authorized, Named, Served, Final
<1>2. TypeOK /\ (\A r \in Requests : IInv(r)) /\ [Next]_vars
        => (\A r \in Requests : IInv(r))'
  BY Preserved
<1> QED
  BY <1>1, <1>2, TypeInvariant, PTL DEF Spec

\* Past the proxy only with a session that was acceptable since the request came,
\* or one without an address that no e-mail list is applied to, or by an allowlist; past the auth endpoint only with a group it asks for.
THEOREM OnlyAuthorizedPass == Spec => []NothingUnauthorized
<1>1. (\A r \in Requests : IInv(r)) => NothingUnauthorized
  BY DEF IInv, Authorized, NothingUnauthorized
<1> QED
  BY <1>1, GatewayInvariant, PTL

\* The upstream reads in the identity header the session's user or nobody.
THEOREM HeaderIsOwn == Spec => []IdentityNotForged
<1>1. (\A r \in Requests : IInv(r)) => IdentityNotForged
  BY DEF IInv, Named, IdentityNotForged
<1> QED
  BY <1>1, GatewayInvariant, PTL

\* Credentials in the request win over the stored session of its cookie.
THEOREM CredentialsFirst == Spec => []CredentialsWin
<1>1. (\A r \in Requests : IInv(r)) => CredentialsWin
  BY DEF IInv, Loaded, Matched, CredentialsWin
<1> QED
  BY <1>1, GatewayInvariant, PTL

\* An allowlisted request is refused only by the groups the auth endpoint asks for,
\* and fails without an answer only where a nil session is dereferenced.
THEOREM AllowlistedPass == Spec => []AllowlistedServed
<1>1. (\A r \in Requests : IInv(r)) => AllowlistedServed
  BY DEF IInv, Served, AllowlistedServed, Chained
<1> QED
  BY <1>1, GatewayInvariant, PTL
==============================================================================
