-------------------------------- MODULE Lease --------------------------------
(***************************************************************************)
(* What sessions.Lock promises its callers: at any time at most one of     *)
(* them has an unexpired lease.  lease[o] is the time caller o may still   *)
(* count on.                                                               *)
(***************************************************************************)
EXTENDS Naturals

CONSTANTS Objects, MaxLease

VARIABLE lease

Init == lease = [o \in Objects |-> 0]

\* A lease may be granted or extended while nobody else has one.
Grant(o) ==
    /\ \A p \in Objects \ {o} : lease[p] = 0
    /\ \E d \in 0..MaxLease : lease' = [lease EXCEPT ![o] = d]

\* A caller may give up any part of what it has.
Yield(o) == \E d \in 0..lease[o] : lease' = [lease EXCEPT ![o] = d]

Elapse == lease' = [o \in Objects |-> IF lease[o] = 0 THEN 0 ELSE lease[o] - 1]

Next == Elapse \/ \E o \in Objects : Grant(o) \/ Yield(o)

Spec == Init /\ [][Next]_lease

Exclusive == \A o, p \in Objects : lease[o] > 0 /\ lease[p] > 0 => o = p
==============================================================================
