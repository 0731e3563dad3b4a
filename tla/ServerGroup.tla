------------------------------ MODULE ServerGroup ------------------------------
(***************************************************************************)
(* The life of the process's servers: three levels of errgroups.  The      *)
(* group starts the app server and the metrics server; each server starts  *)
(* one http.Server for each of its listeners; each of those has a goroutine*)
(* that serves and one that waits for its context and shuts it down.  A    *)
(* signal cancels the outermost context; an error cancels the context of   *)
(* its own level, and that of the next one once its level has returned.    *)
(* Where a definition is preceded by one of the same form, the earlier one *)
(* is a mutant: the bug a property is shown to catch.                      *)
(***************************************************************************)
CONSTANTS
    Servers,      \* the app server and the metrics server
    Listeners,    \* the listeners set up for them
    ServerOf,     \* the server of each listener; a server may have none
    Connections,  \* client connections
    None          \* no listener

ASSUME ServerAssumption == ServerOf \in [Listeners -> Servers]
\* Without any listener Start returns at once.
ASSUME ListenerAssumption == Listeners # {} /\ None \notin Listeners

VARIABLES
    signalled,  \* the first SIGINT or SIGTERM has arrived
    serve,      \* the serving goroutine of each listener
    shut,       \* the shutdown goroutine of each listener
    conn,       \* the listener whose request each connection waits for
    lret,       \* what startServer returned for each listener
    sret,       \* what each server's Start returned
    ret         \* what the group's Start returned

vars == <<signalled, serve, shut, conn, lret, sret, ret>>

Returns == {"running", "nil", "error"}

--------------------------------------------------------------------------------
Init ==
    /\ signalled = FALSE
    /\ serve = [l \in Listeners |-> "pending"]
    /\ shut = [l \in Listeners |-> "waiting"]
    /\ conn = [c \in Connections |-> None]
    /\ lret = [l \in Listeners |-> "running"]
    /\ sret = [s \in Servers |-> "running"]
    /\ ret = "running"

ListenersOf(s) == {l \in Listeners : ServerOf[l] = s}

\* The contexts, from the outermost to that of one listener's goroutines.
GroupCancelledBySignal == signalled
GroupCancelled == signalled \/ \E s \in Servers : sret[s] = "error"
ServerCancelled(s) == GroupCancelled \/ \E l \in ListenersOf(s) : lret[l] = "error"
Failed(l) == serve[l] = "failed" \/ shut[l] = "failed"
Cancelled(l) == ServerCancelled(ServerOf[l]) \/ Failed(l)

\* g.Wait: the first error of its goroutines, or nil.
WaitIgnored(error) == "nil"
Wait(error) == IF error THEN "error" ELSE "nil"

--------------------------------------------------------------------------------
\* The first signal; later ones find nobody reading them and do nothing.
Signal ==
    /\ ~signalled
    /\ ret = "running"
    /\ signalled' = TRUE
    /\ UNCHANGED <<serve, shut, conn, lret, sret, ret>>

\* Serve begins, or finds the server shut down before it began.
BeginServe(l) ==
    /\ serve[l] = "pending"
    /\ serve' = [serve EXCEPT ![l] = IF shut[l] = "waiting" THEN "serving" ELSE "ended"]
    /\ UNCHANGED <<signalled, shut, conn, lret, sret, ret>>

\* The listener breaks; requests in progress go on.
ServeFails(l) ==
    /\ serve[l] = "serving"
    /\ shut[l] = "waiting"
    /\ serve' = [serve EXCEPT ![l] = "failed"]
    /\ UNCHANGED <<signalled, shut, conn, lret, sret, ret>>

\* ErrServerClosed: not an error.
EndServe(l) ==
    /\ serve[l] = "serving"
    /\ shut[l] # "waiting"
    /\ serve' = [serve EXCEPT ![l] = "ended"]
    /\ UNCHANGED <<signalled, shut, conn, lret, sret, ret>>

\* Shutdown closes the listener, then waits for the requests in progress.
BeginShutdown(l) ==
    /\ shut[l] = "waiting"
    /\ Cancelled(l)
    /\ shut' = [shut EXCEPT ![l] = "draining"]
    /\ UNCHANGED <<signalled, serve, conn, lret, sret, ret>>

DrainedAtOnce(l) == TRUE
Drained(l) == \A c \in Connections : conn[c] # l
EndShutdown(l) ==
    /\ shut[l] = "draining"
    /\ Drained(l)
    /\ \E e \in {"done", "failed"} : shut' = [shut EXCEPT ![l] = e]
    /\ UNCHANGED <<signalled, serve, conn, lret, sret, ret>>

\* A request arrives, and is answered.
Request(c, l) ==
    /\ conn[c] = None
    /\ serve[l] = "serving"
    /\ shut[l] = "waiting"
    /\ conn' = [conn EXCEPT ![c] = l]
    /\ UNCHANGED <<signalled, serve, shut, lret, sret, ret>>

Answer(c) ==
    /\ conn[c] # None
    /\ conn' = [conn EXCEPT ![c] = None]
    /\ UNCHANGED <<signalled, serve, shut, lret, sret, ret>>

--------------------------------------------------------------------------------
\* Each level returns when all its goroutines have.
ReturnListener(l) ==
    /\ lret[l] = "running"
    /\ serve[l] \in {"ended", "failed"}
    /\ shut[l] \in {"done", "failed"}
    /\ lret' = [lret EXCEPT ![l] = Wait(Failed(l))]
    /\ UNCHANGED <<signalled, serve, shut, conn, sret, ret>>

ReturnServer(s) ==
    /\ sret[s] = "running"
    /\ \A l \in ListenersOf(s) : lret[l] # "running"
    /\ sret' = [sret EXCEPT ![s] = Wait(\E l \in ListenersOf(s) : lret[l] = "error")]
    /\ UNCHANGED <<signalled, serve, shut, conn, lret, ret>>

ReturnGroup ==
    /\ ret = "running"
    /\ \A s \in Servers : sret[s] # "running"
    /\ ret' = Wait(\E s \in Servers : sret[s] = "error")
    /\ UNCHANGED <<signalled, serve, shut, conn, lret, sret>>

\* main is back from Start and exits, with status 1 when ret is "error".
Exited == ret # "running" /\ UNCHANGED vars

Goroutines(l) == \/ BeginServe(l) \/ EndServe(l)
                 \/ BeginShutdown(l) \/ EndShutdown(l) \/ ReturnListener(l)

Next ==
    \/ Signal \/ ReturnGroup \/ Exited
    \/ \E l \in Listeners : Goroutines(l) \/ ServeFails(l)
    \/ \E c \in Connections : Answer(c) \/ \E l \in Listeners : Request(c, l)
    \/ \E s \in Servers : ReturnServer(s)

Spec == Init /\ [][Next]_vars

\* The scheduler runs every goroutine, and every request is answered some day.
Fairness ==
    /\ \A l \in Listeners : WF_vars(Goroutines(l))
    /\ \A s \in Servers : WF_vars(ReturnServer(s))
    /\ WF_vars(ReturnGroup)
    /\ \A c \in Connections : WF_vars(Answer(c))
FairSpec == Spec /\ Fairness

--------------------------------------------------------------------------------
(***************************************************************************)
(* Properties.                                                             *)
(***************************************************************************)
\* Types, and: a listener whose shutdown is over has no request in progress.
TypeOK ==
    /\ signalled \in BOOLEAN
    /\ serve \in [Listeners -> {"pending", "serving", "ended", "failed"}]
    /\ shut \in [Listeners -> {"waiting", "draining", "done", "failed"}]
    /\ conn \in [Connections -> Listeners \cup {None}]
    /\ lret \in [Listeners -> Returns]
    /\ sret \in [Servers -> Returns]
    /\ ret \in Returns
    /\ \A c \in Connections :
          conn[c] # None => shut[conn[c]] \in {"waiting", "draining"}

\* The nested groups keep Start's promise ("it will block until the context is
\* cancelled", "if any errors occur, only the first error will be returned"):
\* nothing stops without a signal or a failure, no request is cut off, and no
\* failure is swallowed.
Promise == INSTANCE Lifecycle WITH
    asked     <- signalled,
    failed    <- \E l \in Listeners : Failed(l),
    listening <- {l \in Listeners : serve[l] \in {"pending", "serving"}},
    busy      <- {c \in Connections : conn[c] # None},
    result    <- ret
KeepsPromise == Promise!Spec

\* A signal or the failure of any one listener, of either server, brings the
\* whole process down in the end.
StopsInTheEnd ==
    (signalled \/ \E l \in Listeners : Failed(l)) ~> ret # "running"
================================================================================
