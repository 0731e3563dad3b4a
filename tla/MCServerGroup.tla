----------------------------- MODULE MCServerGroup -----------------------------
(***************************************************************************)
(* TLC instance of ServerGroup: an app server with an HTTP and an HTTPS    *)
(* listener, a metrics server with one, and a server whose addresses are   *)
(* empty and that has none, as the metrics server by default.              *)
(***************************************************************************)
EXTENDS ServerGroup

CONSTANTS app, metrics, unbound, http, https, prometheus, c1, c2

MCServers == {app, metrics, unbound}
MCListeners == {http, https, prometheus}
MCServerOf == [l \in MCListeners |-> IF l = prometheus THEN metrics ELSE app]
MCConnections == {c1, c2}
================================================================================
