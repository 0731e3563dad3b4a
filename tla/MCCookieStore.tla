---------------------------- MODULE MCCookieStore ----------------------------
(***************************************************************************)
(* TLC instance of CookieStore: interchangeable requests and sessions; a   *)
(* name and attributes that leave room for three bytes, for two or one     *)
(* after a suffix, and for none after a longer one.                        *)
(***************************************************************************)
EXTENDS CookieStore, TLC

MCRoom == 0 :> 3 @@ 1 :> 2 @@ 2 :> 2 @@ 3 :> 1 @@ 4 :> 0

Symmetry == Permutations(Requests) \cup Permutations(Sessions)
==============================================================================
