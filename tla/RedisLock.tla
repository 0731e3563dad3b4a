------------------------------ MODULE RedisLock ------------------------------
(***************************************************************************)
(* The Redis session lock.  Every session loaded from Redis carries a Lock *)
(* object of its own for its ticket's key, in this or another proxy        *)
(* instance; the objects of one key meet only in Redis.  A lock object     *)
(* sends one command at a time; Redis executes it later, and the reply may *)
(* be lost.  Times are remaining times, so that the clock is unbounded.    *)
(* Where a definition is preceded by one of the same form, the earlier one *)
(* is a mutant: the bug a property is shown to catch.                      *)
(***************************************************************************)
EXTENDS Naturals, FiniteSets

CONSTANTS
    Objects,      \* Lock objects for one key
    Tokens,       \* random tokens of redislock
    MaxLease,     \* longest expiration callers ask for, in clock ticks
    MaxLate,      \* bound on commands whose caller gave up before Redis ran them
    None          \* nil

ASSUME LeaseAssumption == MaxLease \in Nat
ASSUME LateAssumption == MaxLate \in Nat
ASSUME TokenAssumption == None \notin Tokens

Expirations == 1..MaxLease

\* A release has no expiration.
Commands == [op: {"obtain", "refresh"}, token: Tokens, exp: Expirations]
            \cup [op: {"release"}, token: Tokens, exp: {0}]
Answers  == {"sent", "yes", "no"}

ASSUME NilAssumption == None \notin Commands /\ None \notin [token: Tokens, ttl: Nat]

VARIABLES
    key,      \* the lock's key in Redis: its token and time to live, or None
    held,     \* l.lock: the token of the last successful Obtain
    call,     \* the command each object waits for, or None
    left,     \* what is left of that command's expiration since it was sent
    answer,   \* Redis's answer to it, "sent" before Redis ran it
    late,     \* commands still on their way whose caller gave up
    unsure,   \* objects with a Refresh or Release of their token that failed
    promise   \* history: how long a caller may count on the lock

redis == <<key, late>>
vars == <<key, held, call, left, answer, late, unsure, promise>>

--------------------------------------------------------------------------------
Init ==
    /\ key = None
    /\ held = [o \in Objects |-> None]
    /\ call = [o \in Objects |-> None]
    /\ left = [o \in Objects |-> 0]
    /\ answer = [o \in Objects |-> "sent"]
    /\ late = {}
    /\ unsure = {}
    /\ promise = [o \in Objects |-> 0]

Known(t) ==
    \/ (key # None /\ key.token = t)
    \/ \E o \in Objects : held[o] = t \/ (call[o] # None /\ call[o].token = t)
    \/ \E c \in late : c.token = t

Least(a, b) == IF a <= b THEN a ELSE b

Send(o, c) ==
    /\ call[o] = None
    /\ call' = [call EXCEPT ![o] = c]
    /\ left' = [left EXCEPT ![o] = c.exp]
    /\ answer' = [answer EXCEPT ![o] = "sent"]
    /\ UNCHANGED <<redis, held, unsure>>

\* SET NX PX under a fresh random token, without redislock's own retries.
Obtain(o, d) ==
    /\ \E t \in Tokens : ~Known(t) /\ Send(o, [op |-> "obtain", token |-> t, exp |-> d])
    /\ UNCHANGED promise

\* Without a lock both return ErrNotLocked before anything is sent.  A Refresh
\* may also shorten the lease, and a caller who releases no longer counts on it.
RefreshPromise(o, d) == Least(promise[o], d)
Refresh(o, d) ==
    /\ held[o] # None
    /\ Send(o, [op |-> "refresh", token |-> held[o], exp |-> d])
    /\ promise' = [promise EXCEPT ![o] = RefreshPromise(o, d)]

Release(o) ==
    /\ held[o] # None
    /\ Send(o, [op |-> "release", token |-> held[o], exp |-> 0])
    /\ promise' = [promise EXCEPT ![o] = 0]

--------------------------------------------------------------------------------
\* Redis.  Refresh and Release are scripts that compare the token first.
OwnerOnly(c) == key # None /\ key.token = c.token

SucceedsForAnyone(c) == IF c.op = "obtain" THEN key = None ELSE key # None
SucceedsOver(c) == c.op = "obtain" \/ OwnerOnly(c)
Succeeds(c) == IF c.op = "obtain" THEN key = None ELSE OwnerOnly(c)

Execute(c) ==
    key' = IF ~Succeeds(c) THEN key
           ELSE IF c.op = "release" THEN None
           ELSE [token |-> c.token, ttl |-> c.exp]

ExecuteCall(o) ==
    /\ call[o] # None
    /\ answer[o] = "sent"
    /\ Execute(call[o])
    /\ answer' = [answer EXCEPT ![o] = IF Succeeds(call[o]) THEN "yes" ELSE "no"]
    /\ UNCHANGED <<held, call, left, late, unsure, promise>>

ExecuteLate ==
    /\ \E c \in late : Execute(c) /\ late' = late \ {c}
    /\ UNCHANGED <<held, call, left, answer, unsure, promise>>

\* The reply was lost and the Redis client sends the command again.
Resend(o) ==
    /\ call[o] # None
    /\ answer[o] # "sent"
    /\ answer' = [answer EXCEPT ![o] = "sent"]
    /\ UNCHANGED <<redis, held, call, left, unsure, promise>>

--------------------------------------------------------------------------------
\* The replies.  Release leaves l.lock as it is, whatever the reply.
Done(o) ==
    /\ call' = [call EXCEPT ![o] = None]
    /\ left' = [left EXCEPT ![o] = 0]
    /\ answer' = [answer EXCEPT ![o] = "sent"]

ReturnObtain(o) ==
    /\ call[o] # None /\ call[o].op = "obtain" /\ answer[o] # "sent"
    /\ Done(o)
    /\ IF answer[o] = "yes"
       THEN /\ held' = [held EXCEPT ![o] = call[o].token]
            /\ unsure' = unsure \ {o}
            /\ promise' = [promise EXCEPT ![o] = left[o]]
       ELSE UNCHANGED <<held, unsure, promise>>
    /\ UNCHANGED redis

\* nil: the lock was extended; ErrNotLocked: it is not ours any more.
ExtendedAlways(o) == TRUE
Extended(o) == answer[o] = "yes" /\ o \notin unsure
ReturnRefresh(o) ==
    /\ call[o] # None /\ call[o].op = "refresh" /\ answer[o] # "sent"
    /\ Done(o)
    /\ promise' = [promise EXCEPT ![o] =
           IF Extended(o) THEN left[o] ELSE 0]
    /\ UNCHANGED <<redis, held, unsure>>

ReturnRelease(o) ==
    /\ call[o] # None /\ call[o].op = "release" /\ answer[o] # "sent"
    /\ Done(o)
    /\ UNCHANGED <<redis, held, unsure, promise>>

\* The call's context ends or the connection breaks: l.lock stays, and a
\* command Redis has not run yet is lost or runs later.
GiveUp(o) ==
    /\ call[o] # None
    /\ late' \in {late, IF answer[o] = "sent" THEN late \cup {call[o]} ELSE late}
    /\ Cardinality(late') <= MaxLate
    /\ Done(o)
    /\ IF call[o].op = "obtain"
       THEN UNCHANGED <<unsure, promise>>
       ELSE /\ unsure' = unsure \cup {o}
            /\ promise' = [promise EXCEPT ![o] = 0]
    /\ UNCHANGED <<key, held>>

\* The request that loaded the session ends, or its process does; the slot is
\* taken by a new Lock object, whose l.lock is nil.
Discard(o) ==
    /\ Done(o)
    /\ held' = [held EXCEPT ![o] = None]
    /\ late' \in {late, IF call[o] # None /\ answer[o] = "sent"
                        THEN late \cup {call[o]} ELSE late}
    /\ Cardinality(late') <= MaxLate
    /\ unsure' = unsure \ {o}
    /\ promise' = [promise EXCEPT ![o] = 0]
    /\ UNCHANGED key

--------------------------------------------------------------------------------
LessForEver(n) == n - 1
Less(n) == IF n = 0 THEN 0 ELSE n - 1

AgedNever(k) == k
Aged(k) == IF k = None \/ k.ttl <= 1 THEN None
           ELSE [token |-> k.token, ttl |-> k.ttl - 1]

Tick ==
    /\ key' = Aged(key)
    /\ left' = [o \in Objects |-> Less(left[o])]
    /\ promise' = [o \in Objects |-> Less(promise[o])]
    /\ UNCHANGED <<held, call, answer, late, unsure>>

Step(o) ==
    \/ \E d \in Expirations : Obtain(o, d) \/ Refresh(o, d)
    \/ Release(o) \/ ExecuteCall(o) \/ Resend(o)
    \/ ReturnObtain(o) \/ ReturnRefresh(o) \/ ReturnRelease(o)
    \/ GiveUp(o) \/ Discard(o)

Next == Tick \/ ExecuteLate \/ \E o \in Objects : Step(o)

Spec == Init /\ [][Next]_vars

\* Time passes; callers, and Redis, do nothing they have to.
FairSpec == Spec /\ WF_vars(Tick)

--------------------------------------------------------------------------------
(***************************************************************************)
(* Properties.                                                             *)
(***************************************************************************)
\* Types; no more than MaxLate commands are on their way unattended.
TypeOK ==
    /\ key \in [token: Tokens, ttl: Nat \ {0}] \cup {None}
    /\ held \in [Objects -> Tokens \cup {None}]
    /\ call \in [Objects -> Commands \cup {None}]
    /\ left \in [Objects -> Nat]
    /\ answer \in [Objects -> Answers]
    /\ late \subseteq Commands /\ Cardinality(late) <= MaxLate
    /\ unsure \subseteq Objects
    /\ promise \in [Objects -> Nat]

\* lock.go and its Redis commands implement the lease interfaces.go promises:
\* from a nil return of Obtain or Refresh until the expiration, counted from
\* the call, nobody else is told that it has the lock.
Promised == INSTANCE Lease WITH lease <- promise
PromisesLease == Promised!Spec

\* While a caller may count on the lock, Redis has it under that caller's token
\* for at least as long: no expiry, no late or repeated command and no command
\* of an object whose own lease expired takes it away.
PromiseBacked ==
    \A o \in Objects : promise[o] > 0 =>
        key # None /\ key.token = held[o] /\ key.ttl >= promise[o]

\* A lock whose Obtain was lost on the way back, or whose holder is gone, does
\* not block its session for ever: the key expires, since nobody can refresh it.
Bearer(o, t) == held[o] = t \/ (call[o] # None /\ call[o].token = t)
Orphaned ==
    /\ key # None
    /\ \A o \in Objects : ~Bearer(o, key.token)
    /\ \A c \in late : c.token # key.token
OrphanExpires == Orphaned ~> (key = None)
==============================================================================
