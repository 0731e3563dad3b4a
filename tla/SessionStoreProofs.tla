--------------------------- MODULE SessionStoreProofs ---------------------------
(***************************************************************************)
(* Proofs about the two session stores.  First the Redis store's lock: it  *)
(* keeps the lease promise, for any number of lock objects, tokens and     *)
(* late commands and any expirations.  Then the cookie store, for any      *)
(* number of requests, sessions and cookies, sessions of any length, and   *)
(* any room in the cookies.                                                *)
(***************************************************************************)
EXTENDS RedisLock, CookieStore, FiniteSetTheorems, TLAPS

\* The part of TypeOK the proofs need.
Typed ==
    /\ key \in [token: Tokens, ttl: Nat \ {0}] \cup {None}
    /\ held \in [Objects -> Tokens \cup {None}]
    /\ call \in [Objects -> Commands \cup {None}]
    /\ left \in [Objects -> Nat]
    /\ answer \in [Objects -> Answers]
    /\ late \subseteq Commands
    /\ unsure \subseteq Objects
    /\ promise \in [Objects -> Nat]

Calls(o, ops) == call[o] # None /\ call[o].op \in ops

\* No two objects know the same token.
Owned ==
    /\ \A o, p \in Objects : o # p =>
          /\ held[o] # None => held[o] # held[p]
          /\ call[o] # None => call[o].token # held[p]
          /\ call[o] # None /\ call[p] # None => call[o].token # call[p].token
    /\ \A o \in Objects : Calls(o, {"refresh", "release"}) => call[o].token = held[o]

\* A command its caller gave up can only reach a lock its holder is unsure of.
LateOwned ==
    /\ \A c \in late : \A o \in Objects :
          /\ c.op # "obtain" /\ c.token = held[o] => o \in unsure
          /\ Calls(o, {"obtain"}) => c.token # call[o].token
    /\ \A o \in unsure : promise[o] = 0

\* A promise is within the expiration of a Refresh under way.
Timely ==
    \A o \in Objects :
        /\ call[o] # None => left[o] <= call[o].exp
        /\ Calls(o, {"refresh"}) => promise[o] <= left[o]
        /\ Calls(o, {"release"}) => promise[o] = 0

\* A command that succeeded has the key until its caller hears of it.
Backed ==
    \A o \in Objects :
        (/\ Calls(o, {"obtain", "refresh"})
         /\ answer[o] = "yes" /\ left[o] > 0
         /\ Calls(o, {"refresh"}) => o \notin unsure)
        => key # None /\ key.token = call[o].token /\ key.ttl >= left[o]

IInv == Typed /\ Owned /\ LateOwned /\ Timely /\ Backed /\ PromiseBacked

LEMMA Kinds ==
    /\ None \notin Tokens /\ None \notin Commands
    /\ None \notin [token: Tokens, ttl: Nat] /\ MaxLease \in Nat
    /\ \A k \in [token: Tokens, ttl: Nat \ {0}] :
          k # None /\ k.token \in Tokens /\ k.ttl \in Nat \ {0}
    /\ \A c \in Commands :
          /\ c # None /\ c.token \in Tokens /\ c.exp \in Nat /\ c.exp <= MaxLease
          /\ c.op \in {"obtain", "refresh", "release"}
BY TokenAssumption, NilAssumption, LeaseAssumption DEF Commands, Expirations

--------------------------------------------------------------------------------
LEMMA InitInv == Init => IInv
BY DEF Init, IInv, Typed, Owned, LateOwned, Timely, Backed, PromiseBacked, Calls,
       Answers

LEMMA TypedStep == Typed /\ [Next]_vars => Typed'
<1> SUFFICES ASSUME Typed, [Next]_vars PROVE Typed'
  OBVIOUS
<1> USE Kinds DEF Typed, Answers, redis
<1>1. ASSUME NEW o \in Objects, NEW d \in Expirations, Obtain(o, d) PROVE Typed'
  <2>1. PICK t \in Tokens : Send(o, [op |-> "obtain", token |-> t, exp |-> d])
    BY <1>1 DEF Obtain
  <2>2. [op |-> "obtain", token |-> t, exp |-> d] \in Commands /\ d \in Nat
    BY DEF Commands, Expirations
  <2>3. QED
    BY <1>1, <2>1, <2>2 DEF Send, Obtain
<1>2. ASSUME NEW o \in Objects, NEW d \in Expirations, Refresh(o, d) PROVE Typed'
  <2>1. [op |-> "refresh", token |-> held[o], exp |-> d] \in Commands /\ d \in Nat
    BY <1>2 DEF Refresh, Commands, Expirations
  <2>2. QED
    BY <1>2, <2>1 DEF Refresh, Send, RefreshPromise, Least
<1>3. ASSUME NEW o \in Objects, Release(o) PROVE Typed'
  <2>1. [op |-> "release", token |-> held[o], exp |-> 0] \in Commands
    BY <1>3 DEF Release, Commands
  <2>2. QED
    BY <1>3, <2>1 DEF Release, Send
<1>4. ASSUME NEW c \in Commands, Execute(c)
      PROVE  key' \in [token: Tokens, ttl: Nat \ {0}] \cup {None}
  BY <1>4 DEF Execute, Commands, Expirations
<1>5. ASSUME NEW o \in Objects, ExecuteCall(o) PROVE Typed'
  BY <1>4, <1>5 DEF ExecuteCall
<1>6. CASE ExecuteLate
  BY <1>4, <1>6 DEF ExecuteLate
<1>7. ASSUME NEW o \in Objects, Resend(o) PROVE Typed'
  BY <1>7 DEF Resend
<1>8. ASSUME NEW o \in Objects, ReturnObtain(o) PROVE Typed'
  BY <1>8 DEF ReturnObtain, Done
<1>9. ASSUME NEW o \in Objects, ReturnRefresh(o) PROVE Typed'
  BY <1>9 DEF ReturnRefresh, Done
<1>10. ASSUME NEW o \in Objects, ReturnRelease(o) PROVE Typed'
  BY <1>10 DEF ReturnRelease, Done
<1>11. ASSUME NEW o \in Objects, GiveUp(o) PROVE Typed'
  BY <1>11 DEF GiveUp, Done
<1>12. ASSUME NEW o \in Objects, Discard(o) PROVE Typed'
  BY <1>12 DEF Discard, Done
<1>13. CASE Tick
  <2>1. \A n \in Nat : Less(n) \in Nat
    BY DEF Less
  <2>2. Aged(key) \in [token: Tokens, ttl: Nat \ {0}] \cup {None}
    BY DEF Aged
  <2>3. QED
    BY <1>13, <2>1, <2>2 DEF Tick
<1>14. CASE UNCHANGED vars
  BY <1>14 DEF vars
<1>15. QED
  BY <1>1, <1>2, <1>3, <1>5, <1>6, <1>7, <1>8, <1>9, <1>10, <1>11, <1>12, <1>13,
     <1>14 DEF Next, Step

--------------------------------------------------------------------------------
\* Commands whose caller gave up come one at a time, and no more than MaxLate.
Few == IsFiniteSet(late) /\ Cardinality(late) <= MaxLate

LEMMA FewStep == Few /\ [Next]_vars => Few'
<1> SUFFICES ASSUME Few, [Next]_vars PROVE Few'
  OBVIOUS
<1>1. CASE UNCHANGED late
  BY <1>1 DEF Few
<1>2. CASE ExecuteLate
  <2>1. PICK c \in late : late' = late \ {c}
    BY <1>2 DEF ExecuteLate
  <2>2. IsFiniteSet(late') /\ Cardinality(late') = Cardinality(late) - 1
    BY <2>1, FS_RemoveElement DEF Few
  <2>3. Cardinality(late) \in Nat
    BY FS_CardinalityType DEF Few
  <2>4. QED
    BY <2>2, <2>3, LateAssumption DEF Few
<1>3. ASSUME NEW o \in Objects, GiveUp(o) \/ Discard(o) PROVE Few'
  <2>1. Cardinality(late') <= MaxLate
    BY <1>3 DEF GiveUp, Discard
  <2>2. late' = late \/ late' = late \cup {call[o]}
    BY <1>3 DEF GiveUp, Discard
  <2>3. IsFiniteSet(late')
    BY <2>2, FS_AddElement DEF Few
  <2>4. QED
    BY <2>1, <2>3 DEF Few
<1>4. QED
  BY <1>1, <1>2, <1>3
     DEF Next, Step, vars, redis, Obtain, Refresh, Release, Send, ExecuteCall, Resend,
         ReturnObtain, ReturnRefresh, ReturnRelease, Tick

\* Redis, the lock objects and the commands under way keep their types, and no more
\* than MaxLate commands are on their way unattended.
THEOREM TypeInvariant == Spec => []TypeOK
<1>1. Init => Typed /\ Few
  BY FS_EmptySet, LateAssumption DEF Init, Typed, Answers, Few
<1>2. Typed /\ Few => TypeOK
  BY DEF Typed, Few, TypeOK
<1>3. QED
  BY <1>1, TypedStep, FewStep, <1>2, PTL DEF Spec

--------------------------------------------------------------------------------
LEMMA OwnedStep == Typed /\ Owned /\ [Next]_vars => Owned'
<1> SUFFICES ASSUME Typed, Owned, [Next]_vars PROVE Owned'
  OBVIOUS
<1> USE Kinds DEF Typed, Owned, Calls, redis
<1>1. ASSUME NEW o \in Objects, NEW d \in Expirations, Obtain(o, d) PROVE Owned'
  <2>1. PICK t \in Tokens :
          ~Known(t) /\ Send(o, [op |-> "obtain", token |-> t, exp |-> d])
    BY <1>1 DEF Obtain
  <2>2. QED
    BY <2>1 DEF Send, Known
<1>2. ASSUME NEW o \in Objects, NEW d \in Expirations, Refresh(o, d) PROVE Owned'
  BY <1>2 DEF Refresh, Send
<1>3. ASSUME NEW o \in Objects, Release(o) PROVE Owned'
  BY <1>3 DEF Release, Send
<1>4. ASSUME NEW o \in Objects, ReturnObtain(o) PROVE Owned'
  BY <1>4 DEF ReturnObtain, Done
<1>5. ASSUME NEW o \in Objects, \/ ReturnRefresh(o) \/ ReturnRelease(o) \/ GiveUp(o)
      PROVE  Owned'
  BY <1>5 DEF ReturnRefresh, ReturnRelease, GiveUp, Done
<1>6. ASSUME NEW o \in Objects, Discard(o) PROVE Owned'
  BY <1>6 DEF Discard, Done
<1>7. ASSUME UNCHANGED <<held, call>> PROVE Owned'
  BY <1>7
<1>8. QED
  BY <1>1, <1>2, <1>3, <1>4, <1>5, <1>6, <1>7
     DEF Next, Step, vars, ExecuteCall, ExecuteLate, Resend, Tick

--------------------------------------------------------------------------------
LEMMA LateOwnedStep ==
    Typed /\ Owned /\ LateOwned /\ [Next]_vars => LateOwned'
<1> SUFFICES ASSUME Typed, Owned, LateOwned, [Next]_vars PROVE LateOwned'
  OBVIOUS
<1> USE Kinds DEF Typed, LateOwned, Calls, redis
<1>1. ASSUME NEW o \in Objects, NEW d \in Expirations, Obtain(o, d)
      PROVE  LateOwned'
  <2>1. PICK t \in Tokens :
          ~Known(t) /\ Send(o, [op |-> "obtain", token |-> t, exp |-> d])
    BY <1>1 DEF Obtain
  <2>2. QED
    BY <1>1, <2>1 DEF Obtain, Send, Known
<1>2. ASSUME NEW o \in Objects, NEW d \in Expirations, Refresh(o, d)
      PROVE  LateOwned'
  BY <1>2 DEF Refresh, Send, RefreshPromise, Least, Expirations
<1>3. ASSUME NEW o \in Objects, Release(o) PROVE LateOwned'
  BY <1>3 DEF Release, Send
<1>4. ASSUME NEW o \in Objects, ReturnObtain(o) PROVE LateOwned'
  BY <1>4 DEF ReturnObtain, Done
<1>5. ASSUME NEW o \in Objects, ReturnRefresh(o) \/ ReturnRelease(o)
      PROVE  LateOwned'
  BY <1>5 DEF ReturnRefresh, Extended, ReturnRelease, Done
<1>6. ASSUME NEW o \in Objects, GiveUp(o) PROVE LateOwned'
  BY <1>6 DEF GiveUp, Done, Owned
<1>7. ASSUME NEW o \in Objects, Discard(o) PROVE LateOwned'
  BY <1>7 DEF Discard, Done, Owned
<1>8. CASE Tick
  BY <1>8 DEF Tick, Less
<1>9. ASSUME UNCHANGED <<held, call, unsure, promise>>, late' \subseteq late
      PROVE  LateOwned'
  BY <1>9
<1>10. QED
  BY <1>1, <1>2, <1>3, <1>4, <1>5, <1>6, <1>7, <1>8, <1>9
     DEF Next, Step, vars, ExecuteCall, ExecuteLate, Resend

LEMMA TimelyStep == Typed /\ Timely /\ [Next]_vars => Timely'
<1> SUFFICES ASSUME Typed, Timely, [Next]_vars PROVE Timely'
  OBVIOUS
<1> USE Kinds DEF Typed, Timely, Calls, redis
<1>1. ASSUME NEW o \in Objects, NEW d \in Expirations,
             Obtain(o, d) \/ Refresh(o, d)
      PROVE  Timely'
  BY <1>1 DEF Obtain, Refresh, Send, RefreshPromise, Least, Expirations
<1>2. ASSUME NEW o \in Objects, Release(o) PROVE Timely'
  BY <1>2 DEF Release, Send
<1>3. ASSUME NEW o \in Objects, \/ ReturnObtain(o) \/ ReturnRefresh(o)
                                \/ ReturnRelease(o) \/ GiveUp(o) \/ Discard(o)
      PROVE  Timely'
  BY <1>3 DEF ReturnObtain, ReturnRefresh, ReturnRelease, GiveUp, Discard, Done
<1>4. CASE Tick
  BY <1>4 DEF Tick, Less
<1>5. ASSUME UNCHANGED <<call, left, promise>> PROVE Timely'
  BY <1>5
<1>6. QED
  BY <1>1, <1>2, <1>3, <1>4, <1>5
     DEF Next, Step, vars, ExecuteCall, ExecuteLate, Resend

--------------------------------------------------------------------------------
\* A command leaves the key alone that another object has, or makes it its own.
LEMMA Executed ==
    ASSUME Typed, NEW c \in Commands, Execute(c), key # None
    PROVE  \/ key' = key
           \/ (key.token = c.token /\ c.op = "release")
           \/ /\ key.token = c.token /\ c.op = "refresh"
              /\ key' # None /\ key'.token = c.token /\ key'.ttl = c.exp
<1>1. CASE ~Succeeds(c)
  BY <1>1 DEF Execute
<1>2. CASE Succeeds(c)
  <2>1. key.token = c.token /\ c.op \in {"refresh", "release"}
    BY <1>2, Kinds DEF Succeeds, OwnerOnly
  <2>2. CASE c.op = "refresh"
    <3>1. key' = [token |-> c.token, ttl |-> c.exp]
      BY <1>2, <2>2 DEF Execute
    <3>2. c.exp \in Nat \ {0} /\ c.token \in Tokens
      BY <2>2 DEF Commands, Expirations
    <3>3. [token |-> c.token, ttl |-> c.exp] \in [token: Tokens, ttl: Nat \ {0}]
      BY <3>2
    <3>4. QED
      BY <2>1, <2>2, <3>1, <3>3, Kinds
  <2>3. QED
    BY <2>1, <2>2
<1>3. QED
  BY <1>1, <1>2

LEMMA BackedStep ==
    Typed /\ Owned /\ LateOwned /\ Timely /\ Backed /\ [Next]_vars => Backed'
<1> SUFFICES ASSUME Typed, Owned, LateOwned, Timely, Backed, [Next]_vars
             PROVE  Backed'
  OBVIOUS
<1> USE Kinds DEF Typed, Backed, Calls, redis
<1>1. ASSUME NEW o \in Objects, \/ \E d \in Expirations : Obtain(o, d) \/ Refresh(o, d)
                                \/ Release(o)
      PROVE  Backed'
  BY <1>1 DEF Obtain, Refresh, Release, Send
<1>2. ASSUME NEW o \in Objects, ExecuteCall(o) PROVE Backed'
  <2>1. UNCHANGED <<held, call, left, late, unsure, promise>>
        /\ call[o] \in Commands /\ Execute(call[o]) /\ answer[o] = "sent"
        /\ answer' = [answer EXCEPT ![o] = IF Succeeds(call[o]) THEN "yes" ELSE "no"]
    BY <1>2 DEF ExecuteCall
  <2>2. ASSUME NEW p \in Objects, p # o, Calls(p, {"obtain", "refresh"}),
               answer[p] = "yes", left[p] > 0,
               Calls(p, {"refresh"}) => p \notin unsure
        PROVE  key' # None /\ key'.token = call[p].token /\ key'.ttl >= left[p]
    <3>1. key # None /\ key.token = call[p].token /\ key.ttl >= left[p]
      BY <2>2
    <3>2. call[o].token # call[p].token
      BY <2>1, <2>2 DEF Owned
    <3>3. QED
      BY <2>1, <3>1, <3>2, Executed
  <2>3. ASSUME Calls(o, {"obtain", "refresh"}), Succeeds(call[o])
        PROVE  key' # None /\ key'.token = call[o].token /\ key'.ttl >= left[o]
    BY <2>1, <2>3 DEF Execute, Timely
  <2>4. QED
    BY <2>1, <2>2, <2>3
<1>3. CASE ExecuteLate
  <2>1. PICK c \in late : Execute(c)
    BY <1>3 DEF ExecuteLate
  <2>2. UNCHANGED <<held, call, left, answer, unsure, promise>>
    BY <1>3 DEF ExecuteLate
  <2>3. ASSUME NEW p \in Objects, Calls(p, {"obtain", "refresh"}),
               answer[p] = "yes", left[p] > 0,
               Calls(p, {"refresh"}) => p \notin unsure
        PROVE  key' # None /\ key'.token = call[p].token /\ key'.ttl >= left[p]
    <3>1. key # None /\ key.token = call[p].token /\ key.ttl >= left[p]
      BY <2>3
    <3>2. c.op = "obtain" \/ c.token # call[p].token
      BY <2>1, <2>3 DEF LateOwned, Owned
    <3>3. QED
      BY <2>1, <3>1, <3>2, Executed
  <2>4. QED
    BY <2>2, <2>3
<1>4. ASSUME NEW o \in Objects, \/ Resend(o) \/ ReturnObtain(o) \/ ReturnRefresh(o)
                                \/ ReturnRelease(o) \/ GiveUp(o) \/ Discard(o)
      PROVE  Backed'
  BY <1>4 DEF Resend, ReturnObtain, ReturnRefresh, ReturnRelease, GiveUp, Discard,
              Done, Owned
<1>5. CASE Tick
  BY <1>5 DEF Tick, Less, Aged
<1>6. CASE UNCHANGED vars
  BY <1>6 DEF vars
<1>7. QED
  BY <1>1, <1>2, <1>3, <1>4, <1>5, <1>6 DEF Next, Step

LEMMA PromiseStep == IInv /\ [Next]_vars => PromiseBacked'
<1> SUFFICES ASSUME IInv, [Next]_vars PROVE PromiseBacked'
  OBVIOUS
<1> USE Kinds DEF IInv, Typed, PromiseBacked, Calls, redis
<1>1. ASSUME NEW o \in Objects, NEW d \in Expirations,
             Obtain(o, d) \/ Refresh(o, d)
      PROVE  PromiseBacked'
  BY <1>1 DEF Obtain, Refresh, Send, RefreshPromise, Least, Expirations
<1>2. ASSUME NEW o \in Objects, Release(o) PROVE PromiseBacked'
  BY <1>2 DEF Release, Send
<1>3. ASSUME NEW o \in Objects, ExecuteCall(o) PROVE PromiseBacked'
  <2>1. UNCHANGED <<held, promise>> /\ call[o] \in Commands /\ Execute(call[o])
    BY <1>3 DEF ExecuteCall
  <2>2. ASSUME NEW p \in Objects, promise[p] > 0
        PROVE  key' # None /\ key'.token = held[p] /\ key'.ttl >= promise[p]
    <3>1. key # None /\ key.token = held[p] /\ key.ttl >= promise[p]
      BY <2>2
    <3>2. call[o].token = held[p] => o = p
      BY <2>1 DEF Owned
    <3>3. CASE o = p
      <4>1. call[o].op = "refresh" => promise[o] <= call[o].exp
        BY <2>1 DEF Timely
      <4>2. call[o].op # "release"
        BY <2>1, <2>2, <3>3 DEF Timely
      <4>3. QED
        BY <2>1, <3>1, <3>3, <4>1, <4>2, Executed
    <3>4. QED
      BY <2>1, <3>1, <3>2, <3>3, Executed
  <2>3. QED
    BY <2>1, <2>2
<1>4. CASE ExecuteLate
  <2>1. PICK c \in late : Execute(c)
    BY <1>4 DEF ExecuteLate
  <2>2. ASSUME NEW p \in Objects, promise[p] > 0
        PROVE  key' # None /\ key'.token = held[p] /\ key'.ttl >= promise[p]
    <3>1. key # None /\ key.token = held[p] /\ key.ttl >= promise[p]
      BY <2>2
    <3>2. c.op = "obtain" \/ c.token # held[p]
      BY <2>1, <2>2 DEF LateOwned
    <3>3. QED
      BY <2>1, <3>1, <3>2, Executed
  <2>3. UNCHANGED <<held, promise>>
    BY <1>4 DEF ExecuteLate
  <2>4. QED
    BY <2>2, <2>3
<1>5. ASSUME NEW o \in Objects, ReturnObtain(o) PROVE PromiseBacked'
  BY <1>5 DEF ReturnObtain, Done, Backed
<1>6. ASSUME NEW o \in Objects, ReturnRefresh(o) PROVE PromiseBacked'
  BY <1>6 DEF ReturnRefresh, Extended, Done, Backed, Owned
<1>7. ASSUME NEW o \in Objects, \/ Resend(o) \/ ReturnRelease(o) \/ GiveUp(o)
                                \/ Discard(o)
      PROVE  PromiseBacked'
  BY <1>7 DEF Resend, ReturnRelease, GiveUp, Discard, Done
<1>8. CASE Tick
  BY <1>8 DEF Tick, Less, Aged
<1>9. CASE UNCHANGED vars
  BY <1>9 DEF vars
<1>10. QED
  BY <1>1, <1>2, <1>3, <1>4, <1>5, <1>6, <1>7, <1>8, <1>9 DEF Next, Step

LEMMA Inductive == IInv /\ [Next]_vars => IInv'
BY TypedStep, OwnedStep, LateOwnedStep, TimelyStep, BackedStep, PromiseStep DEF IInv

\* While a caller may count on the lock, Redis has it under the caller's token.
THEOREM PromiseIsBacked == Spec => []PromiseBacked
<1>1. IInv => PromiseBacked
  BY DEF IInv
<1>2. QED
  BY <1>1, InitInv, Inductive, PTL DEF Spec

--------------------------------------------------------------------------------
\* Of two promises one is over: the key has one token.
LEMMA OnePromise ==
    Typed /\ Owned /\ PromiseBacked =>
        \A o, p \in Objects : promise[o] > 0 /\ o # p => promise[p] = 0
BY Kinds DEF Typed, Owned, PromiseBacked

\* Every step is a step of Lease over the promises, or leaves them alone.
LEMMA LeaseStep == IInv /\ IInv' /\ [Next]_vars => [Promised!Next]_promise
<1> SUFFICES ASSUME IInv, IInv', [Next]_vars, promise' # promise
             PROVE  Promised!Next
  OBVIOUS
<1> USE Kinds DEF IInv, Typed, redis
<1>1. ASSUME NEW o \in Objects, NEW n \in 0..promise[o],
             promise' = [promise EXCEPT ![o] = n]
      PROVE  Promised!Next
  BY <1>1 DEF Promised!Next, Promised!Yield
<1>2. ASSUME NEW o \in Objects, NEW n \in 0..MaxLease, n > 0,
             promise' = [promise EXCEPT ![o] = n]
      PROVE  Promised!Next
  <2>1. promise'[o] > 0
    BY <1>2
  <2>2. \A p \in Objects \ {o} : promise'[p] = 0
    BY <2>1 DEF Owned, PromiseBacked
  <2>3. \A p \in Objects \ {o} : promise[p] = 0
    BY <1>2, <2>2
  <2>4. QED
    BY <1>2, <2>3 DEF Promised!Next, Promised!Grant
<1>3. ASSUME NEW o \in Objects, NEW d \in Expirations, Refresh(o, d)
      PROVE  Promised!Next
  <2>1. promise' = [promise EXCEPT ![o] = Least(promise[o], d)]
    BY <1>3 DEF Refresh, RefreshPromise
  <2>2. Least(promise[o], d) \in 0..promise[o]
    <3>1. promise[o] \in Nat /\ d \in Nat
      BY DEF Expirations
    <3>2. QED
      BY <3>1 DEF Least
  <2>3. QED
    BY <1>1, <2>1, <2>2
<1>4. ASSUME NEW o \in Objects, Release(o) \/ GiveUp(o) \/ Discard(o)
      PROVE  Promised!Next
  <2>1. UNCHANGED promise \/ promise' = [promise EXCEPT ![o] = 0]
    BY <1>4 DEF Release, GiveUp, Discard
  <2>2. 0 \in 0..promise[o]
    OBVIOUS
  <2>3. QED
    BY <1>1, <2>1, <2>2
<1>5. ASSUME NEW o \in Objects, ReturnObtain(o) \/ ReturnRefresh(o)
      PROVE  Promised!Next
  <2>1. left[o] \in 0..MaxLease
    BY <1>5 DEF ReturnObtain, ReturnRefresh, Extended, Timely
  <2>2. promise' = [promise EXCEPT ![o] = 0] \/ promise' = [promise EXCEPT ![o] = left[o]]
    BY <1>5 DEF ReturnObtain, ReturnRefresh, Extended
  <2>3. 0 \in 0..promise[o]
    OBVIOUS
  <2>4. CASE left[o] = 0
    BY <1>1, <2>2, <2>3, <2>4
  <2>5. CASE left[o] > 0
    BY <1>1, <1>2, <2>1, <2>2, <2>3, <2>5
  <2>6. QED
    BY <2>1, <2>4, <2>5
<1>6. CASE Tick
  BY <1>6 DEF Tick, Less, Promised!Next, Promised!Elapse
<1>7. UNCHANGED promise \/ Tick \/ \E o \in Objects :
        \/ \E d \in Expirations : Refresh(o, d)
        \/ Release(o) \/ GiveUp(o) \/ Discard(o) \/ ReturnObtain(o) \/ ReturnRefresh(o)
  BY DEF Next, Step, vars, Obtain, ExecuteCall, ExecuteLate, Resend, ReturnRelease
<1>8. QED
  BY <1>3, <1>4, <1>5, <1>6, <1>7

\* The Redis lock implements the lease that sessions.Lock promises.
THEOREM LockPromisesLease == Spec => PromisesLease
<1>1. Init => Promised!Init
  BY DEF Init, Promised!Init
<1>2. QED
  BY <1>1, InitInv, Inductive, LeaseStep, PTL DEF Spec, PromisesLease, Promised!Spec

\* No two callers may count on the lock at once.
LEMMA ExclusiveInv == IInv => Promised!Exclusive
BY OnePromise DEF IInv, Typed, Promised!Exclusive
\* At most one caller at a time may count on the Redis lock.
THEOREM LockIsExclusive == Spec => []Promised!Exclusive
BY InitInv, Inductive, ExclusiveInv, PTL DEF Spec

--------------------------------------------------------------------------------
\* The safety half of OrphanExpires: what is under way does nothing for a key without a
\* bearer, and each tick takes from its life.  Ticks are always possible, so the fairness
\* of Tick is all that is left to assume.
OrphanAges ==
    [][Orphaned =>
          key' = None \/ /\ Orphaned' /\ key'.token = key.token
                         /\ key'.ttl <= key.ttl /\ (Tick => key'.ttl < key.ttl)]_vars

LEMMA OrphanStep ==
    ASSUME Typed, Orphaned, [Next]_vars
    PROVE  \/ key' = key /\ Orphaned'
           \/ key' = Aged(key) /\ (key' # None => Orphaned')
<1> USE Kinds DEF Typed, Orphaned, Bearer, redis
<1>1. ASSUME NEW o \in Objects, NEW d \in Expirations, Obtain(o, d)
      PROVE  key' = key /\ Orphaned'
  <2>1. PICK t \in Tokens :
            ~Known(t) /\ Send(o, [op |-> "obtain", token |-> t, exp |-> d])
    BY <1>1 DEF Obtain
  <2>2. t # key.token
    BY <2>1 DEF Known
  <2>3. QED
    BY <2>1, <2>2 DEF Send
<1>2. ASSUME NEW o \in Objects, NEW d \in Expirations, Refresh(o, d)
      PROVE  key' = key /\ Orphaned'
  BY <1>2 DEF Refresh, Send
<1>3. ASSUME NEW o \in Objects, Release(o)
      PROVE  key' = key /\ Orphaned'
  BY <1>3 DEF Release, Send
<1>4. ASSUME NEW command \in Commands, Execute(command), command.token # key.token
      PROVE  key' = key
  BY <1>4 DEF Execute, Succeeds, OwnerOnly
<1>5. ASSUME NEW o \in Objects, ExecuteCall(o)
      PROVE  key' = key /\ Orphaned'
  BY <1>4, <1>5 DEF ExecuteCall
<1>6. CASE ExecuteLate
  <2>1. PICK command \in late : Execute(command) /\ late' = late \ {command}
    BY <1>6 DEF ExecuteLate
  <2>2. key' = key
    BY <1>4, <2>1
  <2>3. Orphaned'
    BY <1>6, <2>1, <2>2 DEF ExecuteLate
  <2>4. QED
    BY <2>2, <2>3
<1>7. ASSUME NEW o \in Objects,
             \/ Resend(o) \/ ReturnObtain(o) \/ ReturnRefresh(o) \/ ReturnRelease(o)
             \/ GiveUp(o) \/ Discard(o)
      PROVE  key' = key /\ Orphaned'
  BY <1>7 DEF Resend, ReturnObtain, ReturnRefresh, ReturnRelease, GiveUp, Discard, Done
<1>8. CASE Tick
  BY <1>8 DEF Tick, Aged
<1>9. CASE UNCHANGED vars
  BY <1>9 DEF vars
<1>10. QED
  BY <1>1, <1>2, <1>3, <1>5, <1>6, <1>7, <1>8, <1>9 DEF Next, Step

\* A key nobody bears is never renewed, and each tick brings its end closer.
THEOREM OrphansAge == Spec => OrphanAges
<1>1. ASSUME Typed, Orphaned, [Next]_vars
      PROVE  key' = None \/ /\ Orphaned' /\ key'.token = key.token
                            /\ key'.ttl <= key.ttl /\ (Tick => key'.ttl < key.ttl)
  <2>1. \/ key' = key /\ Orphaned'
        \/ key' = Aged(key) /\ (key' # None => Orphaned')
    BY <1>1, OrphanStep
  <2>2. key \in [token: Tokens, ttl: Nat \ {0}]
    BY <1>1 DEF Typed, Orphaned
  <2>3. Aged(key) # key /\ (Aged(key) # None => /\ Aged(key).token = key.token
                                               /\ Aged(key).ttl < key.ttl)
    BY <2>2, Kinds DEF Aged
  <2>4. Tick => key' = Aged(key)
    BY DEF Tick
  <2>5. key.ttl \in Nat
    BY <2>2
  <2>6. CASE key' = key /\ Orphaned'
    BY <2>3, <2>4, <2>5, <2>6
  <2>7. CASE key' = Aged(key) /\ (key' # None => Orphaned')
    <3>1. key' # None => key'.ttl < key.ttl /\ key'.token = key.token
      BY <2>3, <2>7
    <3>2. key' # None => key'.ttl \in Nat
      BY <2>2, <2>7 DEF Aged
    <3>3. QED
      BY <2>3, <2>5, <2>7, <3>1, <3>2
  <2>8. QED
    BY <2>1, <2>6, <2>7
<1>2. QED
  BY <1>1, InitInv, Inductive, PTL DEF Spec, OrphanAges, IInv

--------------------------------------------------------------------------------
(***************************************************************************)
(* The cookie store: what splitCookie makes of a value.                    *)
(***************************************************************************)
\* A set of numbers has a least one, and what holds for 0 and goes on from each number to
\* the next holds up to any bound.
LEMMA LeastThere ==
    ASSUME NEW n \in Nat, NEW S \in SUBSET (0..n), S # {}
    PROVE  \E i \in S : \A j \in S : i <= j
<1>1. S \subseteq Nat
  OBVIOUS
<1>2. PICK i \in S : \A j \in S : ~(<<j, i>> \in OpToRel(<, Nat))
  BY <1>1, NatLessThanWellFounded, WFMin
<1>3. \A j \in S : ~(j < i)
  BY <1>1, <1>2 DEF OpToRel
<1>4. QED
  BY <1>1, <1>3

LEMMA UpTo ==
    ASSUME NEW n \in Nat, NEW holds, 0 \in holds,
           \A k \in 1..n : k - 1 \in holds => k \in holds
    PROVE  \A k \in 0..n : k \in holds
<1> DEFINE not == {k \in 0..n : k \notin holds}
<1>1. SUFFICES ASSUME not # {}
               PROVE  FALSE
  OBVIOUS
<1>2. PICK k \in not : \A j \in not : k <= j
  BY <1>1, LeastThere
<1>3. k \in 0..n /\ k \notin holds
  OBVIOUS
<1>4. k # 0
  BY <1>3
<1>5. k \in 1..n /\ k - 1 \in 0..n /\ k - 1 < k
  BY <1>3, <1>4
<1>6. k - 1 \in holds
  BY <1>2, <1>5
<1>7. QED
  BY <1>3, <1>5, <1>6

\* The function splitCookie's loop computes, which its recursion defines, exists.
Cuts(e, v, n) ==
    /\ e[0] = 0
    /\ \A k \in 1..n : e[k] = IF v - e[k - 1] <= Room[k] THEN v ELSE e[k - 1] + Room[k]

LEMMA CutsExist ==
    ASSUME NEW v \in Nat
    PROVE  \E e \in [Names -> Int] : Cuts(e, v, MaxParts)
<1> DEFINE holds == {n \in 0..MaxParts : \E e \in [0..n -> Int] : Cuts(e, v, n)}
<1>0. MaxParts \in Nat /\ Names = 0..MaxParts /\ \A k \in Names : Room[k] \in Int
  BY SplitAssumption DEF Names
<1>1. 0 \in holds
  <2>1. PICK e : e = [k \in 0..0 |-> 0]
    OBVIOUS
  <2>2. e \in [0..0 -> Int] /\ Cuts(e, v, 0)
    BY <2>1 DEF Cuts
  <2>3. QED
    BY <1>0, <2>2
<1>2. ASSUME NEW n \in 1..MaxParts, n - 1 \in holds
      PROVE  n \in holds
  <2>1. PICK e \in [0..(n - 1) -> Int] : Cuts(e, v, n - 1)
    BY <1>2
  <2>2. n \in Nat /\ n > 0 /\ n - 1 \in 0..(n - 1) /\ n \in Names
    BY <1>0
  <2> DEFINE last == IF v - e[n - 1] <= Room[n] THEN v ELSE e[n - 1] + Room[n]
  <2>3. PICK f : f = [k \in 0..n |-> IF k = n THEN last ELSE e[k]]
    OBVIOUS
  <2>4. \A k \in 0..(n - 1) : e[k] \in Int
    BY <2>1
  <2>5. last \in Int
    BY <1>0, <2>2, <2>4
  <2>6. f \in [0..n -> Int]
    <3>1. \A k \in 0..n : k # n => k \in 0..(n - 1)
      BY <2>2
    <3>2. \A k \in 0..n : (IF k = n THEN last ELSE e[k]) \in Int
      BY <2>4, <2>5, <3>1
    <3>3. QED
      BY <2>3, <3>2
  <2>7. f[n] = last /\ \A k \in 0..(n - 1) : f[k] = e[k]
    BY <2>2, <2>3
  <2>8. Cuts(f, v, n)
    <3>1. f[0] = 0
      BY <2>1, <2>2, <2>7 DEF Cuts
    <3>2. ASSUME NEW k \in 1..n
          PROVE  f[k] = IF v - f[k - 1] <= Room[k] THEN v ELSE f[k - 1] + Room[k]
      <4>1. k - 1 \in 0..(n - 1) /\ f[k - 1] = e[k - 1]
        BY <2>2, <2>7
      <4>2. CASE k = n
        BY <2>7, <4>1, <4>2
      <4>3. CASE k # n
        <5>1. k \in 1..(n - 1) /\ k \in 0..(n - 1)
          BY <2>2, <4>3
        <5>2. QED
          BY <2>1, <2>7, <4>1, <5>1 DEF Cuts
      <4>4. QED
        BY <4>2, <4>3
    <3>3. QED
      BY <3>1, <3>2 DEF Cuts
  <2>9. QED
    BY <1>0, <2>2, <2>6, <2>8
<1>3. \A n \in 0..MaxParts : n \in holds
  BY <1>0, <1>1, <1>2, UpTo
<1>4. MaxParts \in holds
  BY <1>0, <1>3
<1>5. QED
  BY <1>0, <1>4

LEMMA EndsAreCuts ==
    ASSUME NEW v \in Nat
    PROVE  Ends(v) \in [Names -> Int] /\ Cuts(Ends(v), v, MaxParts)
<1> DEFINE Follows(e) == e = [k \in Names |->
                IF k = 0 THEN 0 ELSE IF v - e[k - 1] <= Room[k] THEN v ELSE e[k - 1] + Room[k]]
<1>0. MaxParts \in Nat /\ Names = 0..MaxParts
  BY SplitAssumption DEF Names
<1>1. PICK e \in [Names -> Int] : Cuts(e, v, MaxParts)
  BY CutsExist
<1>2. Follows(e)
  <2>1. ASSUME NEW k \in Names
        PROVE  e[k] = IF k = 0 THEN 0 ELSE IF v - e[k - 1] <= Room[k] THEN v ELSE e[k - 1] + Room[k]
    <3>1. k = 0 \/ k \in 1..MaxParts
      BY <1>0
    <3>2. QED
      BY <1>1, <3>1 DEF Cuts
  <2>2. QED
    BY <1>1, <2>1
<1>3. Ends(v) = CHOOSE f : Follows(f)
  BY DEF Ends
<1>4. Follows(Ends(v))
  BY <1>2, <1>3
<1> DEFINE f == Ends(v)
<1>5. f = [k \in Names |->
              IF k = 0 THEN 0 ELSE IF v - f[k - 1] <= Room[k] THEN v ELSE f[k - 1] + Room[k]]
  BY <1>4
<1> HIDE DEF f
<1>6. \A k \in Names : f[k] =
         IF k = 0 THEN 0 ELSE IF v - f[k - 1] <= Room[k] THEN v ELSE f[k - 1] + Room[k]
  BY <1>5
<1>7. Cuts(f, v, MaxParts)
  <2>1. \A k \in 1..MaxParts : k \in Names /\ k # 0
    BY <1>0
  <2>2. 0 \in Names
    BY <1>0
  <2>3. QED
    BY <1>6, <2>1, <2>2 DEF Cuts
<1>8. \A k \in Names : f[k] \in Int
  <2> DEFINE good == {k \in Names : f[k] \in Int}
  <2>1. 0 \in good
    BY <1>0, <1>7 DEF Cuts
  <2>2. ASSUME NEW k \in 1..MaxParts, k - 1 \in good
        PROVE  k \in good
    <3>1. k \in Names /\ Room[k] \in Int
      BY <1>0, SplitAssumption
    <3>2. f[k] = IF v - f[k - 1] <= Room[k] THEN v ELSE f[k - 1] + Room[k]
      BY <1>7 DEF Cuts
    <3>3. QED
      BY <2>2, <3>1, <3>2
  <2>3. \A k \in 0..MaxParts : k \in good
    BY <1>0, <2>1, <2>2, UpTo
  <2>4. QED
    BY <1>0, <2>3
<1>9. f \in [Names -> Int]
  BY <1>5, <1>8
<1>10. QED
  BY <1>7, <1>9 DEF f

LEMMA RoomShrinks ==
    ASSUME NEW i \in Names, NEW k \in Names, i <= k
    PROVE  Room[k] <= Room[i]
<1> DEFINE less == {m \in Names : i <= m => Room[m] <= Room[i]}
<1>0. MaxParts \in Nat /\ Names = 0..MaxParts /\ \A m \in Names : Room[m] \in Int
  BY SplitAssumption DEF Names
<1>1. 0 \in less
  <2>1. 0 \in Names /\ (i <= 0 => i = 0)
    BY <1>0
  <2>2. QED
    BY <1>0, <2>1
<1>2. ASSUME NEW m \in 1..MaxParts, m - 1 \in less
      PROVE  m \in less
  <2>1. m \in Names \ {0} /\ m - 1 \in Names /\ Room[m] <= Room[m - 1]
    BY <1>0, SplitAssumption
  <2>2. i <= m => i = m \/ i <= m - 1
    BY <1>0
  <2>3. QED
    BY <1>0, <1>2, <2>1, <2>2
<1>3. \A m \in 0..MaxParts : m \in less
  BY <1>0, <1>1, <1>2, UpTo
<1>4. QED
  BY <1>0, <1>3

\* A session's value and where its parts end, for all of them that are not whole.
LEMMA SplitParts ==
    ASSUME NEW v \in Lengths, NEW n \in PartsOf(v), n # 0
    PROVE  /\ n \in 2..MaxParts
           /\ Ends(v)[0] = 0 /\ Ends(v)[n] = v
           /\ \A k \in 1..n : /\ Room[k] \in Nat \ {0} /\ Ends(v)[k - 1] \in Nat /\ Ends(v)[k] \in Nat
                              /\ Ends(v)[k - 1] < Ends(v)[k]
                              /\ Ends(v)[k] - Ends(v)[k - 1] <= Room[k]
                              /\ k # n => Ends(v)[k] - Ends(v)[k - 1] = Room[k]
<1> DEFINE e == Ends(v)
<1>0. /\ v \in Nat \ {0} /\ MaxParts \in Nat /\ Names = 0..MaxParts
      /\ \A k \in Names : Room[k] \in Int
  BY SplitAssumption DEF Names
<1>1. e \in [Names -> Int] /\ Cuts(e, v, MaxParts)
  BY <1>0, EndsAreCuts
<1>2. v > Room[0] /\ n \in 1..MaxParts /\ v - e[n] = 0 /\ \A k \in 0..(n - 1) : v - e[k] > 0
  <2>1. ~(v <= Room[0])
    BY DEF PartsOf
  <2>2. n \in 1..MaxParts /\ Left(v, n) = 0 /\ \A k \in 0..(n - 1) : Left(v, k) > 0
    BY <2>1 DEF PartsOf
  <2>3. v > Room[0]
    BY <1>0, <2>1
  <2>4. \A k : Left(v, k) = v - e[k]
    BY DEF Left
  <2>5. QED
    BY <2>2, <2>3, <2>4
<1> HIDE DEF e
<1>3. \A k \in 0..n : k \in Names /\ e[k] \in Int
  BY <1>0, <1>1, <1>2
<1>4. \A k \in 1..n : /\ k \in 1..MaxParts /\ k - 1 \in 0..(n - 1) /\ k - 1 \in 0..n /\ k \in 0..n
                      /\ (k # n => k \in 0..(n - 1))
  BY <1>0, <1>2
<1>5. e[0] = 0 /\ e[n] = v
  BY <1>0, <1>1, <1>2, <1>3 DEF Cuts
<1>6. ASSUME NEW k \in 1..n
      PROVE  e[k] = IF v - e[k - 1] <= Room[k] THEN v ELSE e[k - 1] + Room[k]
  BY <1>1, <1>4 DEF Cuts
<1>7. Room[n] > 0
  <2>1. n \in 1..n /\ Room[n] \in Int /\ e[n - 1] \in Int /\ v - e[n - 1] > 0
    BY <1>0, <1>2, <1>3, <1>4
  <2>2. QED
    BY <1>0, <1>5, <1>6, <2>1
<1>8. ASSUME NEW k \in 1..n
      PROVE  Room[k] \in Nat \ {0}
  <2>1. k \in Names /\ n \in Names /\ k <= n
    BY <1>0, <1>2, <1>4
  <2>2. Room[n] <= Room[k] /\ Room[k] \in Int /\ Room[n] \in Int
    BY <1>0, <2>1, RoomShrinks
  <2>3. QED
    BY <1>7, <2>2
<1>9. ASSUME NEW k \in 1..n
      PROVE  /\ e[k - 1] < e[k] /\ e[k] - e[k - 1] <= Room[k]
             /\ k # n => e[k] - e[k - 1] = Room[k]
  <2>1. v - e[k - 1] > 0 /\ e[k - 1] \in Int /\ e[k] \in Int /\ (k # n => v - e[k] > 0)
    BY <1>2, <1>3, <1>4
  <2>2. Room[k] \in Nat \ {0}
    BY <1>8
  <2>3. QED
    BY <1>0, <1>5, <1>6, <2>1, <2>2
<1>10. \A k \in 0..n : e[k] \in Nat
  <2> DEFINE good == {k \in 0..n : e[k] \in Nat}
  <2>1. 0 \in good
    BY <1>2, <1>5
  <2>2. ASSUME NEW k \in 1..n, k - 1 \in good
        PROVE  k \in good
    BY <1>3, <1>4, <1>9, <2>2
  <2>3. n \in Nat
    BY <1>2
  <2>4. \A k \in 0..n : k \in good
    BY <2>1, <2>2, <2>3, UpTo
  <2>5. QED
    BY <2>4
<1>11. n # 1
  <2>1. SUFFICES ASSUME n = 1
                 PROVE  FALSE
    OBVIOUS
  <2>2. 0 \in Names /\ 1 \in Names /\ 0 <= 1
    BY <1>0, <1>2
  <2>3. Room[1] <= Room[0] /\ Room[0] \in Int /\ Room[1] \in Int
    BY <1>0, <2>2, RoomShrinks
  <2>4. e[1] = IF v - e[0] <= Room[1] THEN v ELSE e[0] + Room[1]
    <3>1. 1 \in 1..n /\ 1 - 1 = 0
      BY <2>1
    <3>2. QED
      BY <1>6, <3>1
  <2>5. QED
    BY <1>0, <1>2, <1>5, <2>1, <2>3, <2>4
<1>12. n \in 2..MaxParts
  BY <1>0, <1>2, <1>11
<1>13. \A k \in 1..n : /\ Room[k] \in Nat \ {0} /\ e[k - 1] \in Nat /\ e[k] \in Nat
                       /\ e[k - 1] < e[k] /\ e[k] - e[k - 1] <= Room[k]
                       /\ k # n => e[k] - e[k - 1] = Room[k]
  BY <1>4, <1>8, <1>9, <1>10
<1>14. QED
  BY <1>5, <1>12, <1>13 DEF e

LEMMA OneSplit ==
    ASSUME NEW v \in Lengths, NEW n \in PartsOf(v), NEW m \in PartsOf(v)
    PROVE  n = m
<1>1. CASE v <= Room[0]
  BY <1>1 DEF PartsOf
<1>2. CASE ~(v <= Room[0])
  <2>1. /\ n \in 1..MaxParts /\ Left(v, n) = 0 /\ \A k \in 0..(n - 1) : Left(v, k) > 0
        /\ m \in 1..MaxParts /\ Left(v, m) = 0 /\ \A k \in 0..(m - 1) : Left(v, k) > 0
    BY <1>2 DEF PartsOf
  <2>2. ~(n < m) /\ ~(m < n)
    BY <2>1, SplitAssumption
  <2>3. QED
    BY <2>1, <2>2, SplitAssumption
<1>3. QED
  BY <1>1, <1>2

\* splitCookie, for every length and every room: the parts are in order the bytes of the
\* whole value, none lost and none doubled; no part is empty, none is longer than there is
\* room for, and all but the last are full.
THEOREM SplitIsWhole ==
    ASSUME NEW v \in Lengths, NEW n \in PartsOf(v), NEW s \in Sessions
    PROVE  /\ n \in Names \ {1} /\ NamesOf(n) \subseteq Names
           /\ Part(s, v, n, First(n)).from = 0 /\ Part(s, v, n, n).to = v
           /\ \A k \in NamesOf(n) :
                 /\ Part(s, v, n, k) \in Parts /\ Part(s, v, n, k).session = s
                 /\ Part(s, v, n, k).from < Part(s, v, n, k).to
                 /\ ~TooLong(k, Part(s, v, n, k))
           /\ \A k \in NamesOf(n) \ {n} :
                 /\ Part(s, v, n, k).to = Part(s, v, n, k + 1).from
                 /\ Part(s, v, n, k).to - Part(s, v, n, k).from = Room[k]
<1>0. /\ v \in Nat \ {0} /\ MaxParts \in Nat /\ Names = 0..MaxParts
      /\ \A k \in Names : Room[k] \in Int
  BY SplitAssumption DEF Names
<1>1. CASE n = 0
  <2>1. v <= Room[0]
    <3>1. ~(n \in 1..MaxParts)
      BY <1>0, <1>1
    <3>2. QED
      BY <3>1 DEF PartsOf
  <2>2. NamesOf(n) = {0} /\ First(n) = 0
    BY <1>1 DEF NamesOf, First
  <2>3. Part(s, v, n, 0) = [session |-> s, from |-> 0, to |-> v]
    BY <1>1 DEF Part
  <2>4. [session |-> s, from |-> 0, to |-> v] \in Parts
    BY <1>0 DEF Parts
  <2>5. 0 \in Names /\ n # 1 /\ NamesOf(n) \ {n} = {}
    BY <1>0, <1>1, <2>2
  <2>6. ~TooLong(0, Part(s, v, n, 0))
    BY <1>0, <2>1, <2>3, <2>5 DEF TooLong
  <2>7. QED
    BY <1>0, <1>1, <2>2, <2>3, <2>4, <2>5, <2>6
<1>2. CASE n # 0
  <2>1. /\ n \in 2..MaxParts
        /\ Ends(v)[0] = 0 /\ Ends(v)[n] = v
        /\ \A k \in 1..n : /\ Room[k] \in Nat \ {0} /\ Ends(v)[k - 1] \in Nat /\ Ends(v)[k] \in Nat
                           /\ Ends(v)[k - 1] < Ends(v)[k]
                           /\ Ends(v)[k] - Ends(v)[k - 1] <= Room[k]
                           /\ k # n => Ends(v)[k] - Ends(v)[k - 1] = Room[k]
    BY <1>2, SplitParts
  <2>2. NamesOf(n) = 1..n /\ First(n) = 1 /\ 1 \in 1..n /\ n \in 1..n
    BY <1>0, <1>2, <2>1 DEF NamesOf, First
  <2>3. \A k : Part(s, v, n, k) = [session |-> s, from |-> Ends(v)[k - 1], to |-> Ends(v)[k]]
    BY <1>2 DEF Part
  <2>4. ASSUME NEW k \in 1..n
        PROVE  /\ Part(s, v, n, k) \in Parts /\ Part(s, v, n, k).session = s
               /\ Part(s, v, n, k).from < Part(s, v, n, k).to
               /\ ~TooLong(k, Part(s, v, n, k))
    <3>1. /\ Part(s, v, n, k).from = Ends(v)[k - 1] /\ Part(s, v, n, k).to = Ends(v)[k]
          /\ Part(s, v, n, k).session = s
      BY <2>3
    <3>2. Part(s, v, n, k) \in Parts
      BY <2>1, <2>3 DEF Parts
    <3>3. Part(s, v, n, k).from < Part(s, v, n, k).to
      BY <2>1, <3>1
    <3>4. ~(Part(s, v, n, k).to - Part(s, v, n, k).from > Room[k])
      BY <2>1, <3>1
    <3>5. QED
      BY <3>1, <3>2, <3>3, <3>4 DEF TooLong
  <2>5. ASSUME NEW k \in 1..n, k # n
        PROVE  /\ Part(s, v, n, k).to = Part(s, v, n, k + 1).from
               /\ Part(s, v, n, k).to - Part(s, v, n, k).from = Room[k]
    <3>1. /\ Part(s, v, n, k).from = Ends(v)[k - 1] /\ Part(s, v, n, k).to = Ends(v)[k]
          /\ Part(s, v, n, k + 1).from = Ends(v)[(k + 1) - 1]
      BY <2>3
    <3>2. (k + 1) - 1 = k
      OBVIOUS
    <3>3. QED
      BY <2>1, <2>5, <3>1, <3>2
  <2>6. Part(s, v, n, 1).from = 0 /\ Part(s, v, n, n).to = v
    <3>1. Part(s, v, n, 1).from = Ends(v)[1 - 1] /\ 1 - 1 = 0
      BY <2>3
    <3>2. Part(s, v, n, n).to = Ends(v)[n]
      BY <2>3
    <3>3. QED
      BY <2>1, <3>1, <3>2
  <2>7. n \in Names \ {1} /\ 1..n \subseteq Names
    BY <1>0, <2>1
  <2>8. QED
    BY <2>2, <2>4, <2>5, <2>6, <2>7
<1>3. QED
  BY <1>1, <1>2

\* splitCookie comes to an end where every cookie has room for a byte, and only there it
\* does not where one that is needed has none: a save then gets no response.
THEOREM SplitEnds ==
    ASSUME NEW v \in Lengths
    PROVE  /\ (\A k \in Names : Room[k] > 0) /\ v <= MaxParts => \E n \in Names : PartsOf(v) = {n}
           /\ NeverSplit(v) => PartsOf(v) = {}
<1> DEFINE e == Ends(v)
<1>0. /\ v \in Nat \ {0} /\ MaxParts \in Nat /\ Names = 0..MaxParts
      /\ \A k \in Names : Room[k] \in Int
  BY SplitAssumption DEF Names
<1>1. e \in [Names -> Int] /\ Cuts(e, v, MaxParts)
  BY <1>0, EndsAreCuts
<1>2. \A k \in Names : Left(v, k) = v - e[k]
  BY DEF Left
<1> HIDE DEF e
<1>3. ASSUME \A k \in Names : Room[k] > 0, v <= MaxParts
      PROVE  \E n \in Names : PartsOf(v) = {n}
  <2>1. CASE v <= Room[0]
    <3>1. PartsOf(v) = {0}
      BY <2>1 DEF PartsOf
    <3>2. QED
      BY <1>0, <3>1
  <2>2. CASE ~(v <= Room[0])
    <3> DEFINE on == {k \in Names : e[k] = v \/ (e[k] <= v /\ k <= e[k])}
               ended == {k \in 0..MaxParts : e[k] = v}
    <3>1. 0 \in on
      BY <1>0, <1>1 DEF Cuts
    <3>2. ASSUME NEW k \in 1..MaxParts, k - 1 \in on
          PROVE  k \in on
      <4>1. k \in Names /\ k - 1 \in Names /\ e[k] \in Int /\ e[k - 1] \in Int
            /\ Room[k] \in Int /\ Room[k] > 0
        BY <1>0, <1>1, <1>3
      <4>2. e[k] = IF v - e[k - 1] <= Room[k] THEN v ELSE e[k - 1] + Room[k]
        BY <1>1 DEF Cuts
      <4>3. e[k - 1] = v \/ (e[k - 1] <= v /\ k - 1 <= e[k - 1])
        BY <3>2
      <4>4. e[k] = v \/ (e[k] <= v /\ k <= e[k])
        BY <1>0, <4>1, <4>2, <4>3
      <4>5. QED
        BY <4>1, <4>4
    <3>3. \A k \in 0..MaxParts : k \in on
      BY <1>0, <3>1, <3>2, UpTo
    <3>4. MaxParts \in ended
      <4>1. MaxParts \in Names /\ e[MaxParts] \in Int /\ MaxParts \in on
        BY <1>0, <1>1, <3>3
      <4>2. QED
        BY <1>0, <1>3, <4>1
    <3>5. PICK n \in ended : \A k \in ended : n <= k
      <4>1. ended \in SUBSET (0..MaxParts) /\ ended # {}
        BY <3>4
      <4> HIDE DEF ended
      <4>2. QED
        BY <1>0, <4>1, LeastThere
    <3>6. e[0] = 0
      BY <1>1 DEF Cuts
    <3>7. n \in 1..MaxParts /\ n \in Names /\ Left(v, n) = 0
      BY <1>0, <1>2, <3>5, <3>6
    <3>8. ASSUME NEW k \in 0..(n - 1)
          PROVE  Left(v, k) > 0
      <4>1. k \in 0..MaxParts /\ k \in Names /\ k < n /\ e[k] \in Int
        BY <1>0, <1>1, <3>7
      <4>2. k \notin ended
        BY <1>0, <3>5, <3>7, <4>1
      <4>3. e[k] # v /\ k \in on
        BY <3>3, <4>1, <4>2
      <4>4. e[k] < v
        BY <1>0, <4>1, <4>3
      <4>5. QED
        BY <1>0, <1>2, <4>1, <4>4
    <3>9. n \in PartsOf(v)
      BY <2>2, <3>7, <3>8 DEF PartsOf
    <3>10. PartsOf(v) = {n}
      <4>1. \A m \in PartsOf(v) : m = n
        BY <3>9, OneSplit
      <4>2. QED
        BY <3>9, <4>1
    <3>11. QED
      BY <3>7, <3>10
  <2>3. QED
    BY <2>1, <2>2
<1>4. ASSUME NeverSplit(v), NEW n \in PartsOf(v)
      PROVE  FALSE
  <2>1. PICK k \in Names \ {0} : Room[k] <= 0 /\ \A i \in 0..(k - 1) : Left(v, i) > 0
    BY <1>4 DEF NeverSplit
  <2>2. v > Room[0] /\ Room[0] \in Int
    BY <1>0, <1>4 DEF NeverSplit
  <2>3. n \in 1..MaxParts /\ Left(v, n) = 0
    BY <1>0, <2>2 DEF PartsOf
  <2>4. Room[n] \in Nat \ {0}
    <3>1. n # 0 /\ n \in 1..n
      BY <2>3
    <3>2. QED
      BY <3>1, SplitParts
  <2>5. k <= n
    BY <1>0, <2>1, <2>3
  <2>6. Room[n] <= Room[k] /\ Room[k] \in Int
    <3>1. n \in Names
      BY <1>0, <2>3
    <3>2. QED
      BY <1>0, <2>1, <2>5, <3>1, RoomShrinks
  <2>7. QED
    BY <2>1, <2>4, <2>6
<1>5. QED
  BY <1>3, <1>4

--------------------------------------------------------------------------------
(***************************************************************************)
(* The cookie store: what Save and Clear leave in the browser.             *)
(***************************************************************************)
\* What a response may say of a cookie.
CookieMention == Parts \cup {Keep, Expire}

\* The cookies of a Save, and of a Clear, are in the response until it is delivered.
CookiesSaved(r) ==
    saved[r] # Nil =>
        /\ bytes[saved[r]] \in Lengths
        /\ \E n \in PartsOf(bytes[saved[r]]) :
              r \notin cleared =>
                 \A k \in NamesOf(n) : out[r][k] = Part(saved[r], bytes[saved[r]], n, k)
CookiesCleared(r) ==
    saved[r] = Nil =>
        \A k \in Names :
            /\ out[r][k] \in {Keep, Expire}
            /\ r \in cleared /\ k \in Clearable /\ carried[r][k] # Nil => out[r][k] = Expire
CookiesAtRest(r) == pc[r] = "idle" => r \notin cleared
JarInv ==
    JarTypeOK /\ \A r \in Requests : CookiesSaved(r) /\ CookiesCleared(r) /\ CookiesAtRest(r)

LEMMA CookieGoto ==
    ASSUME NEW r \in Requests, NEW l \in Labels, pc \in [Requests -> Labels], Goto(r, l)
    PROVE  pc' \in [Requests -> Labels] /\ \A q \in Requests : q # r => pc'[q] = pc[q]
BY DEF Goto

LEMMA CookiesApplied ==
    ASSUME JarTypeOK, NEW r \in Requests
    PROVE  Applied(r) \in [Names -> Parts \cup {Nil}]
<1>1. ASSUME NEW k \in Names
      PROVE  Applied(r)[k] \in Parts \cup {Nil}
  <2>1. out[r][k] \in CookieMention /\ jar[k] \in Parts \cup {Nil}
    BY DEF JarTypeOK, CookieMention
  <2>2. QED
    BY <2>1, ApartAssumption DEF Applied, CookieMention
<1>2. QED
  BY <1>1 DEF Applied

LEMMA CookiesTyped ==
    ASSUME JarTypeOK, NEW r \in Requests, RequestStep(r)
    PROVE  JarTypeOK'
<1> USE DEF JarTypeOK
<1>1. CASE Arrive(r)
  <2>1. pc' \in [Requests -> Labels]
    BY <1>1, CookieGoto DEF Arrive, Labels
  <2>2. QED
    BY <1>1, <2>1 DEF Arrive
<1>2. CASE Load(r)
  <2>1. pc' \in [Requests -> Labels]
    BY <1>2, CookieGoto DEF Load, Labels
  <2>2. QED
    BY <1>2, <2>1 DEF Load
<1>3. CASE Save(r)
  <2>1. pc' \in [Requests -> Labels]
    BY <1>3, CookieGoto DEF Save, AfterSave, Labels
  <2>2. PICK s \in Sessions, v \in Lengths : \E n \in PartsOf(v) :
          /\ bytes' = [bytes EXCEPT ![s] = v]
          /\ out' = [out EXCEPT ![r] = [k \in Names |->
                IF k \in NamesOf(n) THEN Part(s, v, n, k) ELSE out[r][k]]]
          /\ saved' = [saved EXCEPT ![r] = s]
    BY <1>3 DEF Save
  <2>3. PICK n \in PartsOf(v) :
          out' = [out EXCEPT ![r] = [k \in Names |->
                    IF k \in NamesOf(n) THEN Part(s, v, n, k) ELSE out[r][k]]]
    BY <2>2
  <2>4. [k \in Names |-> IF k \in NamesOf(n) THEN Part(s, v, n, k) ELSE out[r][k]]
          \in [Names -> Parts \cup {Keep, Expire}]
    <3>1. \A k \in NamesOf(n) : Part(s, v, n, k) \in Parts
      BY SplitIsWhole
    <3>2. QED
      BY <3>1
  <2>5. out' \in [Requests -> [Names -> Parts \cup {Keep, Expire}]]
    BY <2>4, <2>3
  <2>6. bytes' \in [Sessions -> Lengths \cup {Nil}] /\ saved' \in [Requests -> Sessions \cup {Nil}]
    BY <2>2
  <2>7. QED
    BY <1>3, <2>1, <2>5, <2>6 DEF Save
<1>4. CASE SaveError(r)
  <2>1. pc' \in [Requests -> Labels]
    BY <1>4, CookieGoto DEF SaveError, AfterSave, Labels
  <2>2. QED
    BY <1>4, <2>1 DEF SaveError
<1>5. CASE Unrefreshed(r)
  <2>1. pc' \in [Requests -> Labels]
    BY <1>5, CookieGoto DEF Unrefreshed, Labels
  <2>2. QED
    BY <1>5, <2>1 DEF Unrefreshed
<1>6. CASE Validate(r)
  <2>1. pc' \in [Requests -> Labels]
    BY <1>6, CookieGoto DEF Validate, Labels
  <2>2. QED
    BY <1>6, <2>1 DEF Validate
<1>7. CASE Clear(r)
  <2>1. pc' \in [Requests -> Labels]
    BY <1>7, CookieGoto DEF Clear, Labels
  <2>2. [k \in Names |->
           IF k \in Clearable /\ carried[r][k] # Nil THEN Expire ELSE out[r][k]]
          \in [Names -> Parts \cup {Keep, Expire}]
    OBVIOUS
  <2>3. QED
    BY <1>7, <2>1, <2>2 DEF Clear
<1>8. CASE Handle(r)
  <2>1. pc' \in [Requests -> Labels]
    BY <1>8, CookieGoto DEF Handle, Labels
  <2>2. QED
    BY <1>8, <2>1 DEF Handle
<1>9. CASE Deliver(r) \/ Lose(r) \/ SaveDies(r)
  <2>1. Finish(r) /\ (jar' = Applied(r) \/ jar' = jar)
    BY <1>9 DEF Deliver, Lose, SaveDies
  <2>2. pc' \in [Requests -> Labels]
    BY <2>1, CookieGoto DEF Finish, Labels
  <2>3. jar' \in [Names -> Parts \cup {Nil}]
    BY <2>1, CookiesApplied
  <2>4. QED
    BY <2>1, <2>2, <2>3 DEF Finish
<1>10. QED
  BY <1>1, <1>2, <1>3, <1>4, <1>5, <1>6, <1>7, <1>8, <1>9 DEF RequestStep

\* A step of one request leaves the response of another alone.
LEMMA CookiesApart ==
    ASSUME JarInv, NEW r \in Requests, NEW q \in Requests, q # r, RequestStep(r)
    PROVE  (CookiesSaved(q) /\ CookiesCleared(q) /\ CookiesAtRest(q))'
<1>1. /\ out'[q] = out[q] /\ saved'[q] = saved[q] /\ carried'[q] = carried[q]
      /\ pc'[q] = pc[q] /\ (q \in cleared' <=> q \in cleared)
  BY DEF JarInv, JarTypeOK, RequestStep, Arrive, Load, Save, SaveError, Unrefreshed,
         Validate, Clear, Handle, Deliver, Lose, SaveDies, Finish, Goto
<1>2. \A s \in Sessions : bytes[s] \in Lengths => bytes'[s] = bytes[s]
  <2>1. CASE UNCHANGED bytes
    BY <2>1
  <2>2. CASE \E s \in Sessions, v \in Lengths : bytes[s] = Nil /\ bytes' = [bytes EXCEPT ![s] = v]
    BY <2>2, ApartAssumption DEF JarInv, JarTypeOK
  <2>3. QED
    BY <2>1, <2>2 DEF RequestStep, Arrive, Load, Save, SaveError, Unrefreshed,
                      Validate, Clear, Handle, Deliver, Lose, SaveDies, Finish
<1>3. /\ CookiesSaved(q) /\ CookiesCleared(q) /\ CookiesAtRest(q)
      /\ saved[q] \in Sessions \cup {Nil}
  BY DEF JarInv, JarTypeOK
<1>4. CookiesSaved(q)'
  BY <1>1, <1>2, <1>3 DEF CookiesSaved
<1>5. CookiesCleared(q)' /\ CookiesAtRest(q)'
  BY <1>1, <1>3 DEF CookiesCleared, CookiesAtRest
<1>6. QED
  BY <1>4, <1>5

\* And changes its own as it should.
LEMMA CookiesOwn ==
    ASSUME JarInv, NEW r \in Requests, RequestStep(r)
    PROVE  (CookiesSaved(r) /\ CookiesCleared(r) /\ CookiesAtRest(r))'
<1>0. /\ pc \in [Requests -> Labels]
      /\ out \in [Requests -> [Names -> Parts \cup {Keep, Expire}]]
      /\ carried \in [Requests -> [Names -> Parts \cup {Nil}]]
      /\ cleared \subseteq Requests
      /\ bytes \in [Sessions -> Lengths \cup {Nil}]
      /\ saved \in [Requests -> Sessions \cup {Nil}]
      /\ CookiesSaved(r) /\ CookiesCleared(r) /\ CookiesAtRest(r)
  BY DEF JarInv, JarTypeOK
<1>1. CASE Arrive(r)
  <2>1. /\ r \notin cleared /\ pc'[r] # "idle"
        /\ saved' = saved /\ out' = out /\ cleared' = cleared /\ bytes' = bytes
    BY <1>0, <1>1 DEF Arrive, CookiesAtRest, Goto
  <2>2. QED
    BY <1>0, <2>1 DEF CookiesSaved, CookiesCleared, CookiesAtRest
<1>2. CASE Load(r) \/ SaveError(r) \/ Unrefreshed(r) \/ Validate(r) \/ Handle(r)
  <2>1. /\ pc'[r] # "idle" /\ saved' = saved /\ out' = out /\ cleared' = cleared
        /\ bytes' = bytes /\ carried' = carried
    BY <1>0, <1>2
       DEF Load, SaveError, Unrefreshed, Validate, Handle, Goto, AfterSave
  <2>2. QED
    BY <1>0, <2>1 DEF CookiesSaved, CookiesCleared, CookiesAtRest
<1>3. CASE Save(r)
  <2>0. PICK s \in Sessions, v \in Lengths : \E n \in PartsOf(v) :
          /\ bytes' = [bytes EXCEPT ![s] = v]
          /\ out' = [out EXCEPT ![r] = [k \in Names |->
                IF k \in NamesOf(n) THEN Part(s, v, n, k) ELSE out[r][k]]]
          /\ saved' = [saved EXCEPT ![r] = s]
    BY <1>3 DEF Save
  <2>1. PICK n \in PartsOf(v) :
          /\ bytes' = [bytes EXCEPT ![s] = v]
          /\ out' = [out EXCEPT ![r] = [k \in Names |->
                IF k \in NamesOf(n) THEN Part(s, v, n, k) ELSE out[r][k]]]
          /\ saved' = [saved EXCEPT ![r] = s]
    BY <2>0
  <2>2. /\ bytes'[s] = v /\ saved'[r] = s /\ s # Nil
        /\ \A k \in Names : k \in NamesOf(n) => out'[r][k] = Part(s, v, n, k)
    BY <1>0, <2>1, ApartAssumption
  <2>3. pc'[r] # "idle"
    BY <1>0, <1>3 DEF Save, AfterSave, Goto
  <2>4. QED
    <3>1. NamesOf(n) \subseteq Names
      BY SplitIsWhole
    <3>2. QED
      BY <2>2, <2>3, <3>1 DEF CookiesSaved, CookiesCleared, CookiesAtRest
<1>4. CASE Clear(r)
  <2>1. /\ r \in cleared' /\ saved' = saved /\ bytes' = bytes /\ carried' = carried
        /\ pc'[r] # "idle"
    BY <1>0, <1>4 DEF Clear, Goto
  <2>2. \A k \in Names : out'[r][k] = IF k \in Clearable /\ carried[r][k] # Nil
                                     THEN Expire ELSE out[r][k]
    BY <1>0, <1>4 DEF Clear
  <2>3. QED
    BY <1>0, <2>1, <2>2 DEF CookiesSaved, CookiesCleared, CookiesAtRest
<1>5. CASE Deliver(r) \/ Lose(r) \/ SaveDies(r)
  <2>1. /\ r \notin cleared' /\ saved'[r] = Nil /\ \A k \in Names : out'[r][k] = Keep
    BY <1>0, <1>5 DEF Deliver, Lose, SaveDies, Finish
  <2>2. QED
    BY <2>1 DEF CookiesSaved, CookiesCleared, CookiesAtRest
<1>6. QED
  BY <1>1, <1>2, <1>3, <1>4, <1>5 DEF RequestStep

LEMMA CookiesInductive ==
     JarInv /\ [JarNext]_jarVars => JarInv'
<1>1. ASSUME JarInv, NEW r \in Requests, RequestStep(r)
      PROVE  JarInv'
  <2>1. JarTypeOK'
    BY <1>1, CookiesTyped DEF JarInv
  <2>2. \A q \in Requests : (CookiesSaved(q) /\ CookiesCleared(q) /\ CookiesAtRest(q))'
    BY <1>1, CookiesApart, CookiesOwn
  <2>3. QED
    BY <2>1, <2>2 DEF JarInv
<1>2. ASSUME JarInv, UNCHANGED jarVars
      PROVE  JarInv'
  BY <1>2 DEF JarInv, jarVars, JarTypeOK, CookiesSaved, CookiesCleared, CookiesAtRest
<1>3. QED
  BY <1>1, <1>2 DEF JarNext

\* What Save and Clear said to the browser is still in the response when it takes it.
THEOREM CookiesInvariance == JarSpec => []JarInv
<1>1. JarInit => JarInv
  BY DEF JarInit, JarInv, JarTypeOK, Labels, CookiesSaved, CookiesCleared, CookiesAtRest
<1>2. QED
  BY <1>1, CookiesInductive, PTL DEF JarSpec

\* Types: no response leaves the browser anything but parts of sessions.
THEOREM CookieTypes == JarSpec => []JarTypeOK
<1>1. JarInv => JarTypeOK
  BY DEF JarInv
<1>2. QED
  BY <1>1, CookiesInvariance, PTL

\* The parts in the browser are as many as the session that was saved has, when no cookie
\* of another one follows them.
LEMMA CookieParts ==
    ASSUME NEW n \in 1..MaxParts, NEW j, \A k \in 1..n : j[k] # Nil, ~LeftOver(j, n)
    PROVE  SplitLength(j) = n
<1> DEFINE Fits(m) == Joined(j, m) /\ (m < MaxParts => j[m + 1] = Nil)
<1>0. MaxParts \in Nat /\ n \in 0..MaxParts /\ n > 0
  BY SplitAssumption
<1>1. Fits(n)
  BY <1>0 DEF Joined, LeftOver
<1>2. ASSUME NEW m \in 0..MaxParts, Fits(m)
      PROVE  m = n
  <2>1. ~(m < n)
    BY <1>0, <1>1, <1>2 DEF Joined
  <2>2. ~(n < m)
    BY <1>0, <1>1, <1>2 DEF Joined
  <2>3. QED
    BY <1>0, <2>1, <2>2
<1>3. SplitLength(j) = CHOOSE m \in 0..MaxParts : Fits(m)
  BY DEF SplitLength
<1>4. QED
  BY <1>0, <1>1, <1>2, <1>3

\* A session's cookies, and no left-over, load as that session.
LEMMA CookiesLoaded ==
    ASSUME NEW s \in Sessions, bytes[s] \in Lengths, NEW n \in PartsOf(bytes[s]), NEW j,
           \A k \in NamesOf(n) : j[k] = Part(s, bytes[s], n, k), ~LeftOver(j, n)
    PROVE  Loaded(j) = s
<1> DEFINE v == bytes[s]
<1>1. MaxParts \in Nat /\ Names = 0..MaxParts
  BY SplitAssumption DEF Names
<1>2. /\ n \in Names \ {1} /\ NamesOf(n) \subseteq Names
      /\ Part(s, v, n, First(n)).from = 0 /\ Part(s, v, n, n).to = v
      /\ \A k \in NamesOf(n) : Part(s, v, n, k) \in Parts /\ Part(s, v, n, k).session = s
      /\ \A k \in NamesOf(n) \ {n} : Part(s, v, n, k).to = Part(s, v, n, k + 1).from
  BY SplitIsWhole
<1> HIDE DEF v
<1>3. \A k \in NamesOf(n) : j[k] = Part(s, v, n, k) /\ j[k] # Nil /\ j[k].session = s
  BY <1>2, ApartAssumption DEF v
<1>4. NamesOf(n) = First(n)..n /\ First(n) \in NamesOf(n) /\ n \in NamesOf(n)
      /\ \A k \in NamesOf(n) \ {n} : k + 1 \in NamesOf(n)
  BY <1>2, <1>1 DEF NamesOf, First
<1>5. (IF j[0] # Nil THEN 0 ELSE SplitLength(j)) = n
  <2>1. CASE n = 0
    BY <1>3, <1>4, <2>1
  <2>2. CASE n # 0
    <3>1. n \in 1..MaxParts /\ NamesOf(n) = 1..n /\ n > 0
      BY <1>2, <1>1, <2>2 DEF NamesOf, First
    <3>2. j[0] = Nil
      BY <3>1 DEF LeftOver
    <3>3. SplitLength(j) = n
      BY <1>3, <3>1, CookieParts
    <3>4. QED
      BY <3>2, <3>3
  <2>3. QED
    BY <2>1, <2>2
<1>6. Signed(j, n, s)
  <2>1. bytes[s] = v /\ v # Nil
    BY ApartAssumption DEF v
  <2>2. j[First(n)].from = 0 /\ j[n].to = v
    BY <1>2, <1>3, <1>4
  <2>3. \A k \in NamesOf(n) \ {n} : j[k].to = j[k + 1].from
    BY <1>2, <1>3, <1>4
  <2>4. QED
    BY <1>2, <1>3, <2>1, <2>2, <2>3 DEF Signed
<1>7. \A t \in Sessions : Signed(j, n, t) => t = s
  BY <1>3, <1>4 DEF Signed
<1>8. Loaded(j) = IF \E t \in Sessions : Signed(j, n, t)
                  THEN CHOOSE t \in Sessions : Signed(j, n, t) ELSE Nil
  BY <1>5 DEF Loaded
<1>9. (CHOOSE t \in Sessions : Signed(j, n, t)) = s
  <2>1. (CHOOSE t \in Sessions : Signed(j, n, t)) \in Sessions
    BY <1>6
  <2>2. Signed(j, n, CHOOSE t \in Sessions : Signed(j, n, t))
    BY <1>6
  <2>3. QED
    BY <1>7, <2>1, <2>2
<1>10. QED
  BY <1>6, <1>8, <1>9

\* When the browser takes the cookies of a Save, it loads the session saved, however it was
\* split, unless cookies of an older one are left over that the loader prefers or cannot
\* tell from the new parts.
THEOREM SavedCookiesLoad == JarSpec => SaveIsLoaded
<1>1. ASSUME JarInv, NEW r \in Requests, Deliver(r), saved[r] # Nil, r \notin cleared,
             \A n \in PartsOf(bytes[saved[r]]) : ~LeftOver(jar', n)
      PROVE  Loaded(jar') = saved[r]
  <2>1. PICK s \in Sessions : s = saved[r]
    BY <1>1 DEF JarInv, JarTypeOK
  <2>2. /\ CookiesSaved(r) /\ r \in Requests /\ jar' = Applied(r)
        /\ out[r] \in [Names -> Parts \cup {Keep, Expire}]
    BY <1>1 DEF JarInv, JarTypeOK, Deliver
  <2>3. bytes[s] \in Lengths
    BY <1>1, <2>1, <2>2 DEF CookiesSaved
  <2>4. PICK n \in PartsOf(bytes[s]) : \A k \in NamesOf(n) : out[r][k] = Part(s, bytes[s], n, k)
    BY <1>1, <2>1, <2>2 DEF CookiesSaved
  <2>5. ASSUME NEW k \in NamesOf(n)
        PROVE  jar'[k] = Part(s, bytes[s], n, k)
    <3>1. /\ k \in Names /\ Part(s, bytes[s], n, k) \in Parts
          /\ ~TooLong(k, Part(s, bytes[s], n, k))
      BY <2>3, SplitIsWhole
    <3>2. out[r][k] = Part(s, bytes[s], n, k) /\ out[r][k] # Keep /\ out[r][k] # Expire
      BY <2>4, <3>1, ApartAssumption
    <3>3. QED
      BY <2>2, <3>1, <3>2 DEF Applied
  <2>6. ~LeftOver(jar', n)
    BY <1>1, <2>1
  <2>7. QED
    BY <2>1, <2>3, <2>5, <2>6, CookiesLoaded
<1>2. JarInv /\ [JarNext]_jarVars =>
        [\A r \in Requests :
            Deliver(r) /\ saved[r] # Nil /\ r \notin cleared
                /\ (\A n \in PartsOf(bytes[saved[r]]) : ~LeftOver(jar', n))
            => Loaded(jar') = saved[r]]_jarVars
  BY <1>1
<1>3. QED
  BY <1>2, CookiesInvariance, PTL DEF SaveIsLoaded, JarSpec

\* A request that only clears leaves the browser without any session cookie, if the cookie's
\* name leaves room for the suffix.
THEOREM ClearEmptiesBrowser == NameFits => (JarSpec => ClearEmptiesJar)
<1> SUFFICES ASSUME NameFits
             PROVE  JarSpec => ClearEmptiesJar
  OBVIOUS
<1>1. ASSUME JarInv, NEW r \in Requests, Deliver(r), r \in cleared, saved[r] = Nil,
             jar = carried[r], NEW k \in Names
      PROVE  jar'[k] = Nil
  <2>1. Clearable = Names
    BY DEF Clearable
  <2>2. out[r][k] \in {Keep, Expire} /\ (carried[r][k] # Nil => out[r][k] = Expire)
    BY <1>1, <2>1 DEF JarInv, CookiesCleared
  <2>3. jar'[k] = Applied(r)[k]
    BY <1>1 DEF Deliver
  <2>4. QED
    BY <1>1, <2>2, <2>3, ApartAssumption DEF Applied
<1>2. JarInv /\ [JarNext]_jarVars =>
        [\A r \in Requests :
            Deliver(r) /\ r \in cleared /\ saved[r] = Nil /\ jar = carried[r]
            => \A k \in Names : jar'[k] = Nil]_jarVars
  BY <1>1
<1>3. QED
  BY <1>2, CookiesInvariance, PTL DEF ClearEmptiesJar, JarSpec
=================================================================================
