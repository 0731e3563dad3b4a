--------------------------- MODULE MCStoredSession ---------------------------
(***************************************************************************)
(* TLC instance of StoredSession: interchangeable requests, tickets and    *)
(* grants.                                                                 *)
(***************************************************************************)
EXTENDS StoredSession, FiniteSets, TLC

\* Bound: a second grant only where refresh tokens rotate, which is where it
\* matters; how sessions are validated does not tell the grants apart.
SecondGrantIfRotating ==
    (provider = "rotating" /\ validation = "asked") \/ Cardinality(started) <= 1

Symmetry ==
    Permutations(Requests) \cup Permutations(Tickets) \cup Permutations(Logins)
==============================================================================
