----------------------------- MODULE MCLoginFlow -----------------------------
(***************************************************************************)
(* TLC instance of LoginFlow: interchangeable browsers, requests, flows.   *)
(***************************************************************************)
EXTENDS LoginFlow, TLC

Symmetry ==
    Permutations(Browsers) \cup Permutations(Requests) \cup Permutations(Flows)
==============================================================================
