----------------------------- MODULE CookieStore -----------------------------
(***************************************************************************)
(* The cookie session store behind the stored session middleware, for the  *)
(* concurrent requests of one browser.  A session too long for one cookie  *)
(* is split over cookies name_0, name_1, ...; Save sets the cookies of the *)
(* new session and leaves all others to the browser, Clear expires the     *)
(* session cookies the request carried.  A session's value is its length   *)
(* in bytes, a cookie's value the range of these bytes it holds.           *)
(* Where a definition is preceded by one of the same form, the earlier one *)
(* is a mutant: the bug a property is shown to catch.                      *)
(***************************************************************************)
EXTENDS Integers

CONSTANTS
    Requests,    \* concurrent requests of the browser
    Sessions,    \* saved session values, each saved once
    Lengths,     \* how many bytes a signed session may have
    MaxParts,    \* bound on the cookies a session is split over
    Room,        \* bytes of a value that fit into cookie k next to its name and attributes
    NameFits,    \* the cookie's name is short enough for its suffix
    Nil,         \* no cookie, no session
    Keep, Expire \* a response that does not mention a cookie, or ends it

\* Cookie 0 is the unsuffixed one, cookie k > 0 is name_(k-1).
Names == 0..MaxParts
Parts == [session: Sessions, from: Nat, to: Nat]

\* Nobody signs an empty value.  A suffix makes no name shorter, nor does a further
\* digit, so there is ever less room; long names and attributes may leave none at all.
ASSUME SplitAssumption ==
    /\ MaxParts \in Nat /\ NameFits \in BOOLEAN
    /\ Lengths \subseteq Nat \ {0}
    /\ Room \in [Names -> Int] /\ \A k \in Names \ {0} : Room[k] <= Room[k - 1]
ASSUME ApartAssumption ==
    /\ Nil \notin Sessions \cup Parts \cup Lengths
    /\ Keep \notin Parts /\ Expire \notin Parts /\ Keep # Expire

VARIABLES
    jar,      \* the browser's session cookies
    bytes,    \* length of each saved session, Nil when not saved yet
    pc,       \* what each request does next
    carried,  \* the cookies each request was sent with
    out,      \* the Set-Cookie headers of each response, by cookie
    saved,    \* the session each request saved, or Nil
    cleared   \* requests that cleared the session after any Save

jarVars == <<jar, bytes, pc, carried, out, saved, cleared>>

Labels == {"idle", "load", "loaded", "validate", "clear", "handler",
           "signin", "page", "respond"}

--------------------------------------------------------------------------------
\* splitCookie: where the k-th part ends, and so the next one begins.
EndsTooLong(v) ==
    LET e[k \in Names] == IF k = 0 THEN 0 ELSE IF v - e[k - 1] <= Room[k] THEN v
                          ELSE e[k - 1] + Room[k] + 1
    IN e
Ends(v) ==
    LET e[k \in Names] == IF k = 0 THEN 0 ELSE IF v - e[k - 1] <= Room[k] THEN v
                          ELSE e[k - 1] + Room[k]
    IN e
Left(v, k) == v - Ends(v)[k]

\* makeSessionCookie: one cookie if the value fits, else n parts, the last of which
\* ends the loop; 0 is a cookie that is not split.
PartsOf(v) == IF v <= Room[0] THEN {0}
              ELSE {n \in 1..MaxParts : Left(v, n) = 0 /\ \A k \in 0..(n - 1) : Left(v, k) > 0}

\* A part without room before the end: a slice of negative size panics, and one of no
\* bytes is followed by another, until memory or, with one more digit, the room runs out.
NeverSplit(v) == v > Room[0] /\ \E k \in Names \ {0} : Room[k] <= 0 /\ \A i \in 0..(k - 1) : Left(v, i) > 0

First(n) == IF n = 0 THEN 0 ELSE 1
NamesOf(n) == First(n)..n
Part(s, v, n, k) ==
    [session |-> s, from |-> IF n = 0 THEN 0 ELSE Ends(v)[k - 1],
                    to   |-> IF n = 0 THEN v ELSE Ends(v)[k]]

\* loadCookie: the whole cookie if there is one, else the parts up to the first
\* gap.  joinCookies appends them, and the signature holds for exactly the bytes of
\* one session; but that of a single part is tried under the part's own name.
Joined(j, n) == \A k \in 1..n : j[k] # Nil
SplitLength(j) ==
    CHOOSE n \in 0..MaxParts : Joined(j, n) /\ (n < MaxParts => j[n + 1] = Nil)
Signed(j, n, s) ==
    /\ n # 1 /\ bytes[s] # Nil
    /\ \A k \in NamesOf(n) : j[k] # Nil /\ j[k].session = s
    /\ j[First(n)].from = 0 /\ j[n].to = bytes[s]
    /\ \A k \in NamesOf(n) \ {n} : j[k].to = j[k + 1].from

LoadedPartsFirst(j) ==
    LET n == SplitLength(j)
    IN  IF \E s \in Sessions : Signed(j, n, s)
        THEN CHOOSE s \in Sessions : Signed(j, n, s) ELSE Nil
Loaded(j) ==
    LET n == IF j[0] # Nil THEN 0 ELSE SplitLength(j)
    IN  IF \E s \in Sessions : Signed(j, n, s)
        THEN CHOOSE s \in Sessions : Signed(j, n, s) ELSE Nil

\* The cookies Clear's pattern "^name(_\d+)?$" matches: splitCookieName shortens
\* a long name to make room for the suffix, and the pattern no longer fits it.
ClearableUnsplit == {0}
Clearable == IF NameFits THEN Names ELSE {0}

--------------------------------------------------------------------------------
JarInit ==
    /\ jar = [k \in Names |-> Nil]
    /\ bytes = [s \in Sessions |-> Nil]
    /\ pc = [r \in Requests |-> "idle"]
    /\ carried = [r \in Requests |-> [k \in Names |-> Nil]]
    /\ out = [r \in Requests |-> [k \in Names |-> Keep]]
    /\ saved = [r \in Requests |-> Nil]
    /\ cleared = {}

Goto(r, l) == pc' = [pc EXCEPT ![r] = l]

\* A proxied request, the OAuth callback or a sign-out.
Arrive(r) ==
    /\ pc[r] = "idle"
    /\ \E l \in {"load", "signin", "page"} : Goto(r, l)
    /\ carried' = [carried EXCEPT ![r] = jar]
    /\ UNCHANGED <<jar, bytes, out, saved, cleared>>

\* Load fails without a signed session, and with one past its cookie's expiry.
Load(r) ==
    /\ pc[r] = "load"
    /\ \/ Loaded(carried[r]) # Nil /\ Goto(r, "loaded")
       \/ Goto(r, "clear")
    /\ UNCHANGED <<jar, bytes, carried, out, saved, cleared>>

\* Save after a refresh ("loaded") or a sign-in: one Set-Cookie for each part,
\* or none when the session cannot be encoded.
AfterSave(r) == IF pc[r] = "signin" THEN "respond" ELSE "validate"

Save(r) ==
    /\ pc[r] \in {"loaded", "signin"}
    /\ \E s \in Sessions, v \in Lengths : \E n \in PartsOf(v) :
          /\ bytes[s] = Nil
          /\ bytes' = [bytes EXCEPT ![s] = v]
          /\ out' = [out EXCEPT ![r] = [k \in Names |->
                IF k \in NamesOf(n) THEN Part(s, v, n, k) ELSE out[r][k]]]
          /\ saved' = [saved EXCEPT ![r] = s]
    /\ Goto(r, AfterSave(r))
    /\ UNCHANGED <<jar, carried, cleared>>

SaveError(r) ==
    /\ pc[r] \in {"loaded", "signin"}
    /\ Goto(r, AfterSave(r))
    /\ UNCHANGED <<jar, bytes, carried, out, saved, cleared>>

\* Not due for a refresh; the refresh that does not succeed is as SaveError.
Unrefreshed(r) ==
    /\ pc[r] = "loaded"
    /\ Goto(r, "handler")
    /\ UNCHANGED <<jar, bytes, carried, out, saved, cleared>>

Validate(r) ==
    /\ pc[r] = "validate"
    /\ \E l \in {"handler", "clear"} : Goto(r, l)
    /\ UNCHANGED <<jar, bytes, carried, out, saved, cleared>>

\* Clear, from the middleware ("clear"), from sign-out, from the sign-in page
\* and from a denied request ("page").
Clear(r) ==
    /\ pc[r] \in {"clear", "page"}
    /\ out' = [out EXCEPT ![r] = [k \in Names |->
          IF k \in Clearable /\ carried[r][k] # Nil THEN Expire ELSE out[r][k]]]
    /\ cleared' = cleared \cup {r}
    /\ Goto(r, IF pc[r] = "clear" THEN "handler" ELSE "respond")
    /\ UNCHANGED <<jar, bytes, carried, saved>>

\* The handler shows the sign-in page or denies the request, clearing the
\* session, or answers with what the middleware left in the response.
Handle(r) ==
    /\ pc[r] = "handler"
    /\ \E l \in {"page", "respond"} : Goto(r, l)
    /\ UNCHANGED <<jar, bytes, carried, out, saved, cleared>>

\* The browser takes the response's cookies all at once, but for those that are too long.
TooLong(k, p) == p.to - p.from > Room[k]
AppliedUnexpired(r) == [k \in Names |-> IF out[r][k] = Keep THEN jar[k] ELSE out[r][k]]
Applied(r) == [k \in Names |-> CASE out[r][k] = Keep        -> jar[k]
                                 [] out[r][k] = Expire      -> Nil
                                 [] out[r][k] \in Parts ->
                                       IF TooLong(k, out[r][k]) THEN jar[k] ELSE out[r][k]]
Finish(r) ==
    /\ Goto(r, "idle")
    /\ carried' = [carried EXCEPT ![r] = [k \in Names |-> Nil]]
    /\ out' = [out EXCEPT ![r] = [k \in Names |-> Keep]]
    /\ saved' = [saved EXCEPT ![r] = Nil]
    /\ cleared' = cleared \ {r}
    /\ UNCHANGED bytes

Deliver(r) == pc[r] = "respond" /\ Finish(r) /\ jar' = Applied(r)

Lose(r) == pc[r] = "respond" /\ Finish(r) /\ UNCHANGED jar

\* A session that cannot be split: the request gets no response.
SaveDies(r) ==
    /\ pc[r] \in {"loaded", "signin"}
    /\ \E v \in Lengths : NeverSplit(v)
    /\ Finish(r) /\ UNCHANGED jar

RequestStep(r) ==
           \/ Arrive(r) \/ Load(r) \/ Save(r) \/ SaveError(r) \/ SaveDies(r)
           \/ Unrefreshed(r) \/ Validate(r)
           \/ Clear(r) \/ Handle(r) \/ Deliver(r) \/ Lose(r)

JarNext == \E r \in Requests : RequestStep(r)

JarSpec == JarInit /\ [][JarNext]_jarVars

--------------------------------------------------------------------------------
(***************************************************************************)
(* Properties.                                                             *)
(***************************************************************************)
\* Types: no response leaves the browser anything but parts of sessions.
JarTypeOK ==
    /\ jar \in [Names -> Parts \cup {Nil}]
    /\ bytes \in [Sessions -> Lengths \cup {Nil}]
    /\ pc \in [Requests -> Labels]
    /\ carried \in [Requests -> [Names -> Parts \cup {Nil}]]
    /\ out \in [Requests -> [Names -> Parts \cup {Keep, Expire}]]
    /\ saved \in [Requests -> Sessions \cup {Nil}]
    /\ cleared \subseteq Requests

\* When the browser takes the cookies of a Save, the session it loads from then
\* on is the saved one: however it was split no byte is lost or doubled and no cookie is
\* too long; unless cookies of an older session are left over that the loader prefers or
\* cannot tell from the new parts: a whole cookie under new parts, or one part more
\* than the new session has.
LeftOver(j, n) == n > 0 /\ (j[0] # Nil \/ (n < MaxParts /\ j[n + 1] # Nil))
SaveIsLoaded ==
    [][\A r \in Requests :
          Deliver(r) /\ saved[r] # Nil /\ r \notin cleared
              /\ (\A n \in PartsOf(bytes[saved[r]]) : ~LeftOver(jar', n))
          => Loaded(jar') = saved[r]]_jarVars

\* A request that only clears leaves the browser without any session cookie,
\* also when the cookies did not form a session, if no other response came in
\* between: a session that cannot be loaded is replaced by the next sign-in.
ClearEmptiesJar ==
    [][\A r \in Requests :
          Deliver(r) /\ r \in cleared /\ saved[r] = Nil /\ jar = carried[r]
          => \A k \in Names : jar'[k] = Nil]_jarVars

\* "Loads a session equal to the original session" (session store tests): a
\* Save the browser has taken is what it loads.
SavedSessionLoads ==
    [][\A r \in Requests : Deliver(r) /\ saved[r] # Nil /\ r \notin cleared
          => Loaded(jar') = saved[r]]_jarVars
==============================================================================
