------------------------------- MODULE Networks ------------------------------
(***************************************************************************)
(* Trusted networks: a NetSet keeps them by length of the mask, one hash   *)
(* set for each, and the address of the client comes from the connection   *)
(* or, behind a reverse proxy, from a header.                              *)
(***************************************************************************)
EXTENDS Naturals, Sequences

CONSTANTS
    Width,      \* the bits of an address, by version (bound: far fewer than 32 and 128)
    Unknown     \* no address

Versions == DOMAIN Width
ASSUME WidthAssumption == \A v \in Versions : Width[v] \in Nat
Address == UNION {[version: {v}, bits: [1..Width[v] -> {0, 1}]] : v \in Versions}
\* cidr: written with a slash.  ones: the length of the mask.
Network == UNION {[version: {v}, bits: [1..Width[v] -> {0, 1}], ones: 0..Width[v], cidr: BOOLEAN]
                  : v \in Versions}

Masked(bits, ones) == [i \in DOMAIN bits |-> IF i <= ones THEN bits[i] ELSE 0]

\* ParseIPNet: host bits below the mask are refused.  Without a slash, the whole mask.
Parses(n) == IF n.cidr THEN Masked(n.bits, n.ones) = n.bits ELSE n.ones = Width[n.version]

--------------------------------------------------------------------------------
NewNetSet == [v \in Versions |-> <<>>]

\* AddIPNet: into the map with as many ones, which is appended if there is none.
AddIPNetFirst(set, n) ==
    IF set[n.version] = <<>>
    THEN [set EXCEPT ![n.version] = <<[ones |-> n.ones, ips |-> {n.bits}]>>]
    ELSE [set EXCEPT ![n.version][1].ips = @ \cup {n.bits}]
AddIPNet(set, n) ==
    LET maps == set[n.version]
        same == {i \in DOMAIN maps : maps[i].ones = n.ones}
    IN IF same = {}
       THEN [set EXCEPT ![n.version] = Append(@, [ones |-> n.ones, ips |-> {n.bits}])]
       ELSE [set EXCEPT ![n.version][CHOOSE i \in same : TRUE].ips = @ \cup {n.bits}]

Has(set, a) ==
    \E i \in DOMAIN set[a.version] :
        Masked(a.bits, set[a.version][i].ones) \in set[a.version][i].ips

\* GetClientIP: Unknown without the header, or when there is no address in it.
ClientAddress(reverseProxy, remote, forwarded) == IF reverseProxy THEN forwarded ELSE remote
Trusted(set, reverseProxy, remote, forwarded) ==
    LET a == ClientAddress(reverseProxy, remote, forwarded)
    IN a # Unknown /\ Has(set, a)
==============================================================================
