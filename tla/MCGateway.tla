------------------------------ MODULE MCGateway ------------------------------
(***************************************************************************)
(* TLC instance of Gateway: the configurations and requests that differ in *)
(* what the properties tell apart.                                         *)
(***************************************************************************)
EXTENDS Gateway, FiniteSets

Base == [jwt |-> TRUE, basic |-> "user", domain |-> {}, allowedGroups |-> {},
         userGroups |-> {}, preserve |-> FALSE, claim |-> "user",
         skipButton |-> FALSE]

MCConfigs ==
    { Base,
      [Base EXCEPT !.allowedGroups = Groups, !.userGroups = Groups,
                   !.claim = "email"],
      [Base EXCEPT !.basic = "email"],
      [Base EXCEPT !.jwt = FALSE, !.basic = "off", !.preserve = TRUE,
                   !.domain = Users, !.skipButton = TRUE] }

MCNames == { {"user"}, {"user", "email"} }

\* Each part of a request varies only where the endpoint looks at it.
Plain(i) == ~i.allowed /\ i.query = {} /\ i.named = {}
MCInputs ==
    { i \in Input :
        /\ i.auth \in {"none", "bad"} => i.as = CHOOSE u \in Users : TRUE
        /\ i.named # {} => i.to = "proxy" /\ Cardinality(i.named) = 1
        /\ i.query # {} => i.to = "auth"
        /\ i.to = "public" => i.auth = "none" /\ Plain(i)
        /\ i.to = "sign_in" => i.auth \in {"bad", "password"} /\ Plain(i)
        /\ i.to = "sign_out" => i.auth = "none" /\ Plain(i) }
==============================================================================
