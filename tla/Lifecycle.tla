------------------------------- MODULE Lifecycle -------------------------------
(***************************************************************************)
(* What Server.Start promises main: it blocks until it is asked to stop or *)
(* something failed; no listener stops without such a cause; it returns    *)
(* when nothing listens and no request is being served any more, with an   *)
(* error exactly when something failed.                                    *)
(***************************************************************************)
CONSTANTS Listeners, Connections

VARIABLES
    asked,      \* the caller's context was cancelled
    failed,     \* something failed
    listening,  \* listeners that may still accept
    busy,       \* connections with a request being served
    result      \* "running" until Start returns "nil" or "error"

vars == <<asked, failed, listening, busy, result>>

Init ==
    /\ asked = FALSE
    /\ failed = FALSE
    /\ listening = Listeners
    /\ busy = {}
    /\ result = "running"

Ask ==
    /\ asked' = TRUE
    /\ UNCHANGED <<failed, listening, busy, result>>

Fail(l) ==
    /\ result = "running"
    /\ failed' = TRUE
    /\ listening' \in {listening, listening \ {l}}
    /\ UNCHANGED <<asked, busy, result>>

StopListening(l) ==
    /\ asked \/ failed
    /\ listening' = listening \ {l}
    /\ UNCHANGED <<asked, failed, busy, result>>

Request(c) ==
    /\ listening # {}
    /\ busy' = busy \cup {c}
    /\ UNCHANGED <<asked, failed, listening, result>>

Answer(c) ==
    /\ busy' = busy \ {c}
    /\ UNCHANGED <<asked, failed, listening, result>>

Return ==
    /\ asked \/ failed
    /\ listening = {} /\ busy = {}
    /\ result = "running"
    /\ result' = IF failed THEN "error" ELSE "nil"
    /\ UNCHANGED <<asked, failed, listening, busy>>

Next ==
    \/ Ask \/ Return
    \/ \E l \in Listeners : Fail(l) \/ StopListening(l)
    \/ \E c \in Connections : Request(c) \/ Answer(c)

Spec == Init /\ [][Next]_vars
================================================================================
