------------------------------ MODULE Redirects ------------------------------
(***************************************************************************)
(* Where the browser is sent after a login: the first legal one of what    *)
(* the request says.  A redirect is told apart by its form only:           *)
(*   none   the empty string                                               *)
(*   path   begins with one slash; own: is under the proxy prefix          *)
(*   bent   begins with a slash, but a browser may read it as a host       *)
(*   other  neither absolute nor relative                                  *)
(*   url    http or https, with a host (its labels, the last one first),   *)
(*          a port or "", and the same own                                 *)
(* A request whose form cannot be parsed gets an error before any of this: *)
(* Gateway has it, as a sign-in or sign-out that is refused.               *)
(***************************************************************************)
EXTENDS Naturals, Sequences, SequencesExt

NoRedirect == [form |-> "none"]
PathTo(own) == [form |-> "path", own |-> own]
Url(host, port, own) == [form |-> "url", host |-> host, port |-> port, own |-> own]
Slash == [form |-> "root"]   \* "/"

Host == Seq(STRING)
HasHost(r) == r.form = "url" => r.host \in Host

\* An entry of the whitelist: host, dot (begins with one: subdomains too), port.
HostListed(host, d) == IF d.dot THEN IsPrefix(d.host, host) ELSE host = d.host
PortListed(port, d) == d.port = "*" \/ d.port = port

\* IsValidRedirect.
Valid(r, whitelist) ==
    CASE r.form \in {"path", "root"} -> TRUE
      [] r.form = "url" -> \E d \in whitelist : HostListed(r.host, d) /\ PortListed(r.port, d)
      [] OTHER -> FALSE
Validated(r, whitelist) == IF Valid(r, whitelist) THEN r ELSE NoRedirect

IsOwn(r) == r.form = "path" /\ r.own

\* A request: rd, header (X-Auth-Request-Redirect), and uri, the URI asked for, host and
\* port; forwarded headers xhost (<<>> for none), xport, xproto (there is one) and xuri,
\* reverse: they are looked at; glued: what the forwarded host and a URI with no slash in
\* front of it are when written together, another host or none at all.
RequestURI(q) == IF q.reverse /\ q.xuri # NoRedirect THEN q.xuri ELSE q.uri
IsForwarded(q) == q.reverse /\ q.xhost # <<>> /\ <<q.xhost, q.xport>> # <<q.host, q.port>>

\* A URI under the proxy prefix becomes "/".  The URL of a request to a server says no
\* protocol, and neither does the redirect unless a header does.
ForwardedUrl(q) ==
    IF RequestURI(q).form \in {"url", "other"} THEN q.glued ELSE Url(q.xhost, q.xport, FALSE)
ForwardedRedirect(q, whitelist) ==
    IF ~IsForwarded(q) \/ ~q.xproto THEN NoRedirect ELSE Validated(ForwardedUrl(q), whitelist)

URIRedirectAny(q, whitelist) ==
    IF Valid(RequestURI(q), whitelist) THEN RequestURI(q) ELSE q.uri
URIRedirect(q, whitelist) ==
    LET r == IF Valid(RequestURI(q), whitelist) THEN RequestURI(q) ELSE q.uri
    IN IF IsOwn(r) THEN Slash ELSE r

\* GetRedirect.
Sources(q, whitelist) ==
    <<Validated(q.rd, whitelist), Validated(q.header, whitelist),
      ForwardedRedirect(q, whitelist), URIRedirect(q, whitelist)>>
GetRedirect(q, whitelist) ==
    LET legal == {i \in 1..4 : Valid(Sources(q, whitelist)[i], whitelist)}
    IN IF legal = {} THEN Slash
       ELSE Sources(q, whitelist)[CHOOSE i \in legal : \A j \in legal : i <= j]
==============================================================================
