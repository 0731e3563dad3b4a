--------------------------- MODULE ServerGroupProofs ---------------------------
(***************************************************************************)
(* Proofs about ServerGroup, for any servers, listeners and connections:   *)
(* the typing invariant, and that the nested errgroups keep the promise of *)
(* Lifecycle.  The refinement needs to know, of every level, that it       *)
(* returned after the levels inside it and with an error exactly when one  *)
(* of them has one, and that no shutdown begins without a cause.           *)
(***************************************************************************)
EXTENDS ServerGroup, Naturals, TLAPS

\* A listener stops after its shutdown began, and that began for a reason.
Cause(l) ==
    /\ serve[l] = "ended" => shut[l] # "waiting"
    /\ shut[l] # "waiting" => signalled \/ \E k \in Listeners : Failed(k)

ListenerReturned(l) ==
    lret[l] # "running" =>
        /\ serve[l] \in {"ended", "failed"}
        /\ shut[l] \in {"done", "failed"}
        /\ lret[l] = "error" <=> Failed(l)

ServerReturned(s) ==
    sret[s] # "running" =>
        /\ \A l \in ListenersOf(s) : lret[l] # "running"
        /\ sret[s] = "error" <=> \E l \in ListenersOf(s) : lret[l] = "error"

GroupReturned ==
    ret # "running" =>
        /\ \A s \in Servers : sret[s] # "running"
        /\ ret = "error" <=> \E s \in Servers : sret[s] = "error"

IInv ==
    /\ TypeOK
    /\ \A l \in Listeners : Cause(l) /\ ListenerReturned(l)
    /\ \A s \in Servers : ServerReturned(s)
    /\ GroupReturned

LEMMA InitIInv == Init => IInv
  BY ServerAssumption, ListenerAssumption
  DEF Init, IInv, TypeOK, Returns, Cause, ListenerReturned, ServerReturned,
      GroupReturned

\* An error seen at any level comes from a listener that failed.
LEMMA CancelledHasCause ==
  ASSUME IInv, NEW l \in Listeners, Cancelled(l)
  PROVE  signalled \/ \E k \in Listeners : Failed(k)
  BY ServerAssumption
  DEF IInv, Cancelled, ServerCancelled, GroupCancelled, ListenersOf,
      ServerReturned, ListenerReturned

LEMMA NextIInv == IInv /\ [Next]_vars => IInv'
<1> SUFFICES ASSUME IInv, [Next]_vars PROVE IInv'
  OBVIOUS
<1> USE ServerAssumption, ListenerAssumption
<1>1. CASE Signal
  BY <1>1 DEF Signal, IInv, TypeOK, Returns, Cause, ListenerReturned,
              ServerReturned, GroupReturned, Failed
<1>2. CASE \E l \in Listeners : BeginServe(l)
  <2> PICK l \in Listeners : BeginServe(l)
    BY <1>2
  <2>1. \A k \in Listeners : Failed(k)' <=> Failed(k)
    BY DEF BeginServe, IInv, TypeOK, Failed
  <2>2. TypeOK'
    BY DEF BeginServe, IInv, TypeOK, Returns
  <2>3. \A k \in Listeners : Cause(k)' /\ ListenerReturned(k)'
    BY <2>1 DEF BeginServe, IInv, TypeOK, Cause, ListenerReturned
  <2> QED
    BY <2>2, <2>3 DEF BeginServe, IInv, ServerReturned, GroupReturned, ListenersOf
<1>3. CASE \E l \in Listeners : ServeFails(l)
  <2> PICK l \in Listeners : ServeFails(l)
    BY <1>3
  <2>1. /\ Failed(l)'
        /\ \A k \in Listeners \ {l} : Failed(k)' <=> Failed(k)
    BY DEF ServeFails, IInv, TypeOK, Failed
  <2>2. TypeOK'
    BY DEF ServeFails, IInv, TypeOK, Returns
  <2>3. \A k \in Listeners : Cause(k)' /\ ListenerReturned(k)'
    BY <2>1 DEF ServeFails, IInv, TypeOK, Cause, ListenerReturned
  <2> QED
    BY <2>2, <2>3 DEF ServeFails, IInv, ServerReturned, GroupReturned, ListenersOf
<1>4. CASE \E l \in Listeners : EndServe(l)
  <2> PICK l \in Listeners : EndServe(l)
    BY <1>4
  <2>1. \A k \in Listeners : Failed(k)' <=> Failed(k)
    BY DEF EndServe, IInv, TypeOK, Failed
  <2>2. TypeOK'
    BY DEF EndServe, IInv, TypeOK, Returns
  <2>3. \A k \in Listeners : Cause(k)' /\ ListenerReturned(k)'
    BY <2>1 DEF EndServe, IInv, TypeOK, Cause, ListenerReturned
  <2> QED
    BY <2>2, <2>3 DEF EndServe, IInv, ServerReturned, GroupReturned, ListenersOf
<1>5. CASE \E l \in Listeners : BeginShutdown(l)
  <2> PICK l \in Listeners : BeginShutdown(l)
    BY <1>5
  <2>1. \A k \in Listeners : Failed(k)' <=> Failed(k)
    BY DEF BeginShutdown, IInv, TypeOK, Failed
  <2>2. TypeOK'
    BY DEF BeginShutdown, IInv, TypeOK, Returns
  <2>3. signalled \/ \E k \in Listeners : Failed(k)
    BY CancelledHasCause DEF BeginShutdown
  <2>4. \A k \in Listeners : Cause(k)' /\ ListenerReturned(k)'
    BY <2>1, <2>3 DEF BeginShutdown, IInv, TypeOK, Cause, ListenerReturned
  <2> QED
    BY <2>2, <2>4 DEF BeginShutdown, IInv, ServerReturned, GroupReturned, ListenersOf
<1>6. CASE \E l \in Listeners : EndShutdown(l)
  <2> PICK l \in Listeners : EndShutdown(l)
    BY <1>6
  <2>1. /\ Failed(l) => Failed(l)'
        /\ \A k \in Listeners \ {l} : Failed(k)' <=> Failed(k)
    BY DEF EndShutdown, IInv, TypeOK, Failed
  <2>2. TypeOK'
    BY DEF EndShutdown, IInv, TypeOK, Returns, Drained
  <2>3. \A k \in Listeners : Cause(k)' /\ ListenerReturned(k)'
    BY <2>1 DEF EndShutdown, IInv, TypeOK, Cause, ListenerReturned
  <2> QED
    BY <2>2, <2>3 DEF EndShutdown, IInv, ServerReturned, GroupReturned, ListenersOf
<1>7. CASE \E c \in Connections : Answer(c) \/ \E l \in Listeners : Request(c, l)
  BY <1>7 DEF Answer, Request, IInv, TypeOK, Cause, ListenerReturned,
              ServerReturned, GroupReturned, ListenersOf, Failed
<1>8. CASE \E l \in Listeners : ReturnListener(l)
  <2> PICK l \in Listeners : ReturnListener(l)
    BY <1>8
  <2>1. \A k \in Listeners : Failed(k)' <=> Failed(k)
    BY DEF ReturnListener, Failed
  <2>2. TypeOK'
    BY DEF ReturnListener, IInv, TypeOK, Returns, Wait
  <2>3. \A k \in Listeners : Cause(k)' /\ ListenerReturned(k)'
    BY <2>1 DEF ReturnListener, IInv, TypeOK, Cause, ListenerReturned, Wait
  <2>4. \A s \in Servers : ServerReturned(s)'
    BY DEF ReturnListener, IInv, TypeOK, ServerReturned, ListenersOf
  <2> QED
    BY <2>2, <2>3, <2>4 DEF ReturnListener, IInv, GroupReturned
<1>9. CASE \E s \in Servers : ReturnServer(s)
  <2> PICK s \in Servers : ReturnServer(s)
    BY <1>9
  <2>1. TypeOK'
    BY DEF ReturnServer, IInv, TypeOK, Returns, Wait
  <2>2. \A k \in Listeners : Cause(k)' /\ ListenerReturned(k)'
    BY DEF ReturnServer, IInv, Cause, ListenerReturned, Failed
  <2>3. \A t \in Servers : ServerReturned(t)'
    BY DEF ReturnServer, IInv, TypeOK, ServerReturned, ListenersOf, Wait
  <2>4. GroupReturned'
    BY DEF ReturnServer, IInv, TypeOK, GroupReturned
  <2> QED
    BY <2>1, <2>2, <2>3, <2>4 DEF IInv
<1>10. CASE ReturnGroup
  BY <1>10 DEF ReturnGroup, IInv, TypeOK, Returns, Wait, Cause, ListenerReturned,
               ServerReturned, GroupReturned, ListenersOf, Failed
<1>11. CASE UNCHANGED vars
  BY <1>11 DEF vars, IInv, TypeOK, Cause, ListenerReturned, ServerReturned,
               GroupReturned, ListenersOf, Failed
<1> QED
  BY <1>1, <1>2, <1>3, <1>4, <1>5, <1>6, <1>7, <1>8, <1>9, <1>10, <1>11
  DEF Next, Goroutines, Exited

LEMMA Invariance == Spec => []IInv
  BY InitIInv, NextIInv, PTL DEF Spec

\* Types hold, and no listener's shutdown is over while one of its requests is
\* in progress, whatever the servers and listeners.
THEOREM TypeInvariant == Spec => []TypeOK
<1>1. IInv => TypeOK
  BY DEF IInv
<1> QED
  BY <1>1, Invariance, PTL

--------------------------------------------------------------------------------
\* Every step of the groups is a step of what they promise, or changes nothing
\* the promise speaks of.
LEMMA StepKeepsPromise == IInv /\ [Next]_vars => [Promise!Next]_(Promise!vars)
<1> SUFFICES ASSUME IInv, [Next]_vars PROVE [Promise!Next]_(Promise!vars)
  OBVIOUS
<1> USE ServerAssumption, ListenerAssumption
<1> DEFINE failed == \E l \in Listeners : Failed(l)
           listening == {l \in Listeners : serve[l] \in {"pending", "serving"}}
           busy == {c \in Connections : conn[c] # None}
<1>1. CASE Signal
  <2>1. failed' <=> failed
    BY <1>1 DEF Signal, Failed
  <2>2. Promise!Ask
    BY <1>1, <2>1 DEF Signal, Promise!Ask
  <2> QED
    BY <2>2 DEF Promise!Next
<1>2. CASE \E l \in Listeners : BeginServe(l) \/ EndServe(l)
  <2> PICK l \in Listeners : BeginServe(l) \/ EndServe(l)
    BY <1>2
  <2>1. failed' <=> failed
    BY DEF BeginServe, EndServe, IInv, TypeOK, Failed
  <2>2. UNCHANGED <<signalled, busy, ret>>
    BY DEF BeginServe, EndServe
  <2>3. CASE serve'[l] = "serving"
    <3>1. listening' = listening
      BY <2>3 DEF BeginServe, EndServe, IInv, TypeOK
    <3> QED
      BY <2>1, <2>2, <3>1 DEF Promise!vars
  <2>4. CASE serve'[l] = "ended"
    <3>1. listening' = listening \ {l}
      BY <2>4 DEF BeginServe, EndServe, IInv, TypeOK
    <3>2. signalled \/ failed
      BY <2>4 DEF BeginServe, EndServe, IInv, TypeOK, Cause
    <3>3. Promise!StopListening(l)
      BY <2>1, <2>2, <3>1, <3>2 DEF Promise!StopListening
    <3> QED
      BY <3>3 DEF Promise!Next
  <2> QED
    BY <2>3, <2>4 DEF BeginServe, EndServe, IInv, TypeOK
<1>3. CASE \E l \in Listeners : ServeFails(l)
  <2> PICK l \in Listeners : ServeFails(l)
    BY <1>3
  <2>1. failed'
    BY DEF ServeFails, IInv, TypeOK, Failed
  <2>2. listening' = listening \ {l}
    BY DEF ServeFails, IInv, TypeOK
  <2>3. ret = "running"
    BY DEF ServeFails, IInv, GroupReturned, ServerReturned, ListenerReturned,
           ListenersOf
  <2>4. UNCHANGED <<signalled, busy, ret>>
    BY DEF ServeFails
  <2>5. Promise!Fail(l)
    BY <2>1, <2>2, <2>3, <2>4 DEF Promise!Fail
  <2> QED
    BY <2>5 DEF Promise!Next
<1>4. CASE \E l \in Listeners : BeginShutdown(l)
  <2>1. failed' <=> failed
    BY <1>4 DEF BeginShutdown, IInv, TypeOK, Failed
  <2> QED
    BY <1>4, <2>1 DEF BeginShutdown, Promise!vars
<1>5. CASE \E l \in Listeners : EndShutdown(l)
  <2> PICK l \in Listeners : EndShutdown(l)
    BY <1>5
  <2>1. UNCHANGED <<signalled, listening, busy, ret>>
    BY DEF EndShutdown
  <2>2. CASE shut'[l] = "done"
    <3>1. failed' <=> failed
      BY <2>2 DEF EndShutdown, IInv, TypeOK, Failed
    <3> QED
      BY <2>1, <3>1 DEF Promise!vars
  <2>3. CASE shut'[l] = "failed"
    <3>1. failed'
      BY <2>3 DEF Failed
    <3>2. ret = "running"
      BY DEF EndShutdown, IInv, GroupReturned, ServerReturned, ListenerReturned,
             ListenersOf
    <3>3. Promise!Fail(l)
      BY <2>1, <3>1, <3>2 DEF Promise!Fail
    <3> QED
      BY <3>3 DEF Promise!Next
  <2> QED
    BY <2>2, <2>3 DEF EndShutdown, IInv, TypeOK
<1>6. CASE \E c \in Connections : Answer(c)
  <2> PICK c \in Connections : Answer(c)
    BY <1>6
  <2>1. busy' = busy \ {c}
    BY DEF Answer, IInv, TypeOK
  <2>2. failed' <=> failed
    BY DEF Answer, Failed
  <2>3. Promise!Answer(c)
    BY <2>1, <2>2 DEF Answer, Promise!Answer
  <2> QED
    BY <2>3 DEF Promise!Next
<1>7. CASE \E c \in Connections, l \in Listeners : Request(c, l)
  <2> PICK c \in Connections, l \in Listeners : Request(c, l)
    BY <1>7
  <2>1. busy' = busy \cup {c}
    BY DEF Request, IInv, TypeOK
  <2>2. failed' <=> failed
    BY DEF Request, Failed
  <2>3. listening # {}
    BY DEF Request
  <2>4. Promise!Request(c)
    BY <2>1, <2>2, <2>3 DEF Request, Promise!Request
  <2> QED
    BY <2>4 DEF Promise!Next
<1>8. CASE ReturnGroup
  <2>1. failed' <=> failed
    BY <1>8 DEF ReturnGroup, Failed
  <2>2. \A l \in Listeners : lret[l] # "running"
    BY <1>8 DEF ReturnGroup, IInv, ServerReturned, ListenersOf
  <2>3. listening = {}
    BY <2>2 DEF IInv, ListenerReturned
  <2>4. busy = {}
    BY <2>2 DEF IInv, TypeOK, ListenerReturned
  <2>5. signalled \/ failed
    BY <2>2 DEF IInv, ListenerReturned, Cause
  <2>6. failed <=> \E s \in Servers : sret[s] = "error"
    BY <1>8, <2>2 DEF ReturnGroup, IInv, ServerReturned, ListenerReturned, ListenersOf
  <2>7. Promise!Return
    BY <1>8, <2>1, <2>3, <2>4, <2>5, <2>6 DEF ReturnGroup, Promise!Return, Wait
  <2> QED
    BY <2>7 DEF Promise!Next
<1>9. CASE \/ \E l \in Listeners : ReturnListener(l)
           \/ \E s \in Servers : ReturnServer(s)
           \/ UNCHANGED vars
  <2>1. failed' <=> failed
    BY <1>9 DEF ReturnListener, ReturnServer, vars, Failed
  <2> QED
    BY <1>9, <2>1 DEF ReturnListener, ReturnServer, vars, Promise!vars
<1> QED
  BY <1>1, <1>2, <1>3, <1>4, <1>5, <1>6, <1>7, <1>8, <1>9
  DEF Next, Goroutines, Exited

\* Whatever the servers and listeners, Start blocks until a signal or a failure,
\* stops no listener without one, cuts off no request, and reports an error
\* exactly when something failed.
THEOREM GroupKeepsPromise == Spec => KeepsPromise
<1>1. Init => Promise!Init
  BY DEF Init, Promise!Init, Failed
<1> QED
  BY <1>1, StepKeepsPromise, Invariance, PTL DEF Spec, KeepsPromise, Promise!Spec

--------------------------------------------------------------------------------
(***************************************************************************)
(* The safety half of StopsInTheEnd: a process that has to stop always has *)
(* something it can do, and all it can do brings it forward.               *)
(***************************************************************************)
\* What a goroutine of listener l, or its startServer, can do: one of the guards of
\* Goroutines(l).
Runnable(l) ==
    \/ serve[l] = "pending"
    \/ serve[l] = "serving" /\ shut[l] # "waiting"
    \/ shut[l] = "waiting" /\ Cancelled(l)
    \/ shut[l] = "draining" /\ Drained(l)
    \/ lret[l] = "running" /\ serve[l] \in {"ended", "failed"} /\ shut[l] \in {"done", "failed"}

\* Until Start has returned, a request waits for its answer, a goroutine can run, or a level
\* can return.
NeverStuck ==
    (signalled \/ \E l \in Listeners : Failed(l)) /\ ret = "running" =>
        \/ \E x \in Connections : conn[x] # None
        \/ \E l \in Listeners : Runnable(l)
        \/ \E s \in Servers : sret[s] = "running"
                              /\ \A l \in ListenersOf(s) : lret[l] # "running"
        \/ \A s \in Servers : sret[s] # "running"

\* Without requests in progress, a cancelled listener whose goroutines cannot run has returned.
LEMMA CancelledReturned ==
    ASSUME TypeOK, NEW l \in Listeners, Cancelled(l), ~Runnable(l),
           \A x \in Connections : conn[x] = None
    PROVE  lret[l] # "running"
<1>1. Drained(l)
  BY ListenerAssumption DEF Drained
<1>2. shut[l] \in {"done", "failed"}
  BY <1>1 DEF Runnable, TypeOK
<1>3. serve[l] \in {"ended", "failed"}
  BY <1>2 DEF Runnable, TypeOK
<1>4. QED
  BY <1>2, <1>3 DEF Runnable, TypeOK

\* When the outermost context is cancelled nothing but requests in progress holds up the end.
LEMMA CancelledNotStuck ==
    ASSUME IInv, GroupCancelled
    PROVE  NeverStuck
<1> SUFFICES ASSUME \A x \in Connections : conn[x] = None,
                    \A l \in Listeners : ~Runnable(l),
                    NEW s \in Servers, sret[s] = "running"
             PROVE  \A l \in ListenersOf(s) : lret[l] # "running"
  BY DEF NeverStuck
<1>1. \A l \in Listeners : Cancelled(l)
  BY DEF Cancelled, ServerCancelled
<1>2. QED
  BY <1>1, CancelledReturned DEF IInv, ListenersOf

\* From the listener that failed, the error goes through its server, level by level, to all
\* the others: none of the three contexts is left waiting for another.
THEOREM StopNeverStuck == Spec => []NeverStuck
<1>1. ASSUME IInv PROVE NeverStuck
  <2>1. CASE GroupCancelled
    BY <1>1, <2>1, CancelledNotStuck
  <2>2. CASE ~GroupCancelled
    <3> SUFFICES ASSUME NEW l \in Listeners, Failed(l),
                        \A x \in Connections : conn[x] = None,
                        \A k \in Listeners : ~Runnable(k)
                 PROVE  /\ sret[ServerOf[l]] = "running"
                        /\ \A k \in ListenersOf(ServerOf[l]) : lret[k] # "running"
      BY <2>2, ServerAssumption DEF NeverStuck, GroupCancelled
    <3>1. lret[l] = "error"
      <4>1. lret[l] # "running"
        BY <1>1, CancelledReturned DEF IInv, Cancelled
      <4>2. QED
        BY <1>1, <4>1 DEF IInv, ListenerReturned
    <3>2. ServerOf[l] \in Servers /\ l \in ListenersOf(ServerOf[l])
      BY ServerAssumption DEF ListenersOf
    <3>3. \A k \in ListenersOf(ServerOf[l]) : Cancelled(k)
      BY <3>1, <3>2 DEF Cancelled, ServerCancelled, ListenersOf
    <3>4. \A k \in ListenersOf(ServerOf[l]) : lret[k] # "running"
      BY <1>1, <3>3, CancelledReturned DEF IInv, ListenersOf
    <3>5. sret[ServerOf[l]] = "running"
      BY <1>1, <2>2, <3>1, <3>2 DEF IInv, ServerReturned, GroupCancelled
    <3>6. QED
      BY <3>4, <3>5
  <2>3. QED
    BY <2>1, <2>2
<1>2. QED
  BY <1>1, Invariance, PTL

--------------------------------------------------------------------------------
\* How far a listener's two goroutines and its startServer have come.
Stage(l) ==
    (IF serve[l] = "pending" THEN 0 ELSE IF serve[l] = "serving" THEN 1 ELSE 2)
    + (IF shut[l] = "waiting" THEN 0 ELSE IF shut[l] = "draining" THEN 1 ELSE 2)
    + (IF lret[l] = "running" THEN 0 ELSE 1)

\* Nothing a listener, a server or the group does can be undone or done again, and no
\* request comes in where a shutdown has begun.
OnlyForward ==
    [][/\ \A l \in Listeners :
             /\ Stage(l)' \in Stage(l)..5
             /\ Goroutines(l) \/ ServeFails(l) => Stage(l)' > Stage(l)
       /\ \A s \in Servers : sret[s] # "running" => sret'[s] = sret[s]
       /\ ret # "running" => ret' = ret
       /\ \A x \in Connections :
             conn[x] = None /\ conn'[x] # None => shut[conn'[x]] = "waiting"]_vars

\* A process that stops gets there in a bounded number of steps of its own.
THEOREM GroupOnlyForward == Spec => OnlyForward
<1>1. ASSUME IInv, IInv', [Next]_vars
      PROVE  /\ \A l \in Listeners :
                   /\ Stage(l)' \in Stage(l)..5
                   /\ Goroutines(l) \/ ServeFails(l) => Stage(l)' > Stage(l)
             /\ \A s \in Servers : sret[s] # "running" => sret'[s] = sret[s]
             /\ ret # "running" => ret' = ret
             /\ \A x \in Connections :
                   conn[x] = None /\ conn'[x] # None => shut[conn'[x]] = "waiting"
  <2> USE <1>1 DEF IInv, TypeOK
  <2>1. ASSUME NEW l \in Listeners, Goroutines(l) \/ ServeFails(l)
        PROVE  /\ Stage(l)' > Stage(l) /\ \A k \in Listeners \ {l} : Stage(k)' = Stage(k)
               /\ UNCHANGED <<conn, sret, ret>>
    BY <2>1 DEF Stage, Goroutines, ServeFails, BeginServe, EndServe, BeginShutdown,
                EndShutdown, ReturnListener, Wait
  <2>2. ASSUME ~\E l \in Listeners : Goroutines(l) \/ ServeFails(l)
        PROVE  UNCHANGED <<serve, shut, lret>>
    BY <2>2 DEF Next, vars, Signal, ReturnGroup, Exited, Answer, Request, ReturnServer
  <2>3. ASSUME NEW l \in Listeners
        PROVE  /\ Stage(l)' \in Stage(l)..5
               /\ Goroutines(l) \/ ServeFails(l) => Stage(l)' > Stage(l)
    <3>1. Stage(l) \in 0..5 /\ Stage(l)' \in 0..5
      BY DEF Stage
    <3>2. Stage(l)' >= Stage(l)
      BY <2>1, <2>2, <3>1 DEF Stage
    <3>3. QED
      BY <2>1, <3>1, <3>2
  <2>4. \A s \in Servers : sret[s] # "running" => sret'[s] = sret[s]
    BY <2>1 DEF Next, vars, Signal, ReturnGroup, Exited, Answer, Request, ReturnServer
  <2>5. ret # "running" => ret' = ret
    BY <2>1 DEF Next, vars, Signal, ReturnGroup, Exited, Answer, Request, ReturnServer
  <2>6. \A x \in Connections :
           conn[x] = None /\ conn'[x] # None => shut[conn'[x]] = "waiting"
    BY <2>1 DEF Next, vars, Signal, ReturnGroup, Exited, Answer, Request, ReturnServer
  <2>7. QED
    BY <2>3, <2>4, <2>5, <2>6
<1>2. QED
  BY <1>1, Invariance, PTL DEF Spec, OnlyForward
================================================================================
