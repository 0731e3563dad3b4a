------------------------------- MODULE Routing -------------------------------
(***************************************************************************)
(* Upstreams: the command line's converted to structured ones, their       *)
(* validation, the order in which they are registered with the router, and *)
(* the one a path is served by.  Matching of regular expressions is that   *)
(* of patterns that begin with a path, which is what rewrites are for.     *)
(***************************************************************************)
EXTENDS Naturals, Sequences, SequencesExt, FiniteSets

CONSTANTS
    Segment,    \* what stands between slashes; all of one length
    NoPath      \* the empty path

\* "/" has no segments and ends in a slash.
Path == [segs: Seq(Segment), slash: BOOLEAN]
Root == [segs |-> <<>>, slash |-> TRUE]
Length(p) == 2 * Len(p.segs) + IF p.slash THEN 1 ELSE 0
Slashed(p) == [p EXCEPT !.slash = TRUE]
\* As strings, at the border of a segment.
Begins(p, q) ==
    /\ IsPrefix(p.segs, q.segs)
    /\ p.slash => q.slash \/ Len(q.segs) > Len(p.segs)

--------------------------------------------------------------------------------
\* An --upstream flag; "ftp" stands for every other scheme.
Schemes == {"http", "file", "static", "ftp", "unparsable"}

UpstreamFlag ==
    [scheme: Schemes, path: Path \cup {NoPath}, fragment: Path \cup {NoPath}]

\* target: what the path is rewritten to, NoPath for no rewrite; query: what the
\* target says behind a question mark.  extras: options for proxying are set.
\* compiles: the path, taken for a regular expression, is one.
UpstreamOption ==
    [id: Path \cup {NoPath} \cup UpstreamFlag, path: Path \cup {NoPath}, scheme: Schemes,
     static: BOOLEAN, uri: BOOLEAN, extras: BOOLEAN, target: Path \cup {NoPath},
     query: {"none", "good", "bad"}, compiles: BOOLEAN]
Converted(f) ==
    LET at == IF f.scheme = "static" THEN Root
              ELSE IF f.scheme = "file" /\ f.fragment # NoPath THEN f.fragment
              ELSE IF f.path = NoPath THEN Root ELSE f.path
    IN [id |-> IF f.scheme = "static" THEN f ELSE at, path |-> at, scheme |-> f.scheme,
        static |-> f.scheme = "static", uri |-> f.scheme # "static", extras |-> f.scheme # "static",
        target |-> NoPath, query |-> "none", compiles |-> TRUE]

\* validateUpstreams.
SoundUpstream(u) ==
    /\ u.id # NoPath /\ u.path # NoPath
    /\ IF u.static THEN ~u.uri /\ ~u.extras
       ELSE u.uri /\ u.scheme \in {"http", "file"}
AcceptedRepeated(us) == \A i \in DOMAIN us : SoundUpstream(us[i])
Accepted(us) ==
    /\ \A i \in DOMAIN us : SoundUpstream(us[i])
    /\ \A i, j \in DOMAIN us : i # j => us[i].id # us[j].id /\ us[i].path # us[j].path

--------------------------------------------------------------------------------
Rewrites(u) == u.target # NoPath

\* sortByPathLongest, by a sort that is not stable: any order that fits.
BeforeByLength(u, v) == Length(u.path) > Length(v.path)
Before(u, v) ==
    \/ Rewrites(u) /\ ~Rewrites(v)
    \/ Rewrites(u) = Rewrites(v) /\ Length(u.path) > Length(v.path)
Orders(us) ==
    {s \in SetToSeqs(ToSet(us)) : \A i, j \in DOMAIN s : i < j => ~Before(s[j], s[i])}

\* registerSimpleHandler and registerRewriteHandler.
Matches(u, p) ==
    IF Rewrites(u) \/ u.path.slash THEN Begins(u.path, p) ELSE u.path = p
Hits(s, p) == {i \in DOMAIN s : Matches(s[i], p)}

UpstreamOf(u) == [to |-> "upstream", id |-> u.id]
Elsewhere(to) == [to |-> to, id |-> NoPath]

\* The first route that matches; behind them all, the handler that adds a slash.
Route(s, p) ==
    IF Hits(s, p) # {} THEN UpstreamOf(s[CHOOSE i \in Hits(s, p) : \A j \in Hits(s, p) : i <= j])
    ELSE IF ~p.slash /\ Hits(s, Slashed(p)) # {} THEN Elsewhere("redirect")
    ELSE Elsewhere("not found")

\* rewritePath and splitPathAndQuery: the pattern's path is replaced, the rest kept.  Where
\* only the target ends in a slash, the rest begins with a second one, behind an empty
\* segment; where only the pattern does, the two meet in one segment.  A
\* query that cannot be parsed leaves nothing of the URI, and no error: the reverse
\* proxy then falls back on the path as it was.
RestOffByOne(u, p) == SubSeq(p.segs, Len(u.path.segs) + 2, Len(p.segs))
Rest(u, p) == SubSeq(p.segs, Len(u.path.segs) + 1, Len(p.segs))
Rewritten(u, p) ==
    LET rest == Rest(u, p)
        t == u.target
    IN CASE u.query = "bad" -> p
         [] u.query # "bad" /\ t.slash = u.path.slash ->
               [segs |-> t.segs \o rest, slash |-> p.slash]
         [] u.query # "bad" /\ t.slash # u.path.slash /\ rest = <<>> /\ ~(t.slash /\ p.slash) -> t
         [] OTHER ->
               [segs |-> IF t.slash THEN Append(t.segs, <<>>) \o rest
                         ELSE Front(t.segs) \o <<<<Last(t.segs), Head(rest)>>>> \o Tail(rest),
                slash |-> p.slash]

\* What the upstream is asked for.  Only the reverse proxy reads the rewritten URI; the
\* file server strips the route's path, and does not find it in what a pattern matched.
HandedOn(u, p) ==
    CASE u.static -> NoPath
      [] u.scheme = "http" -> IF Rewrites(u) THEN Rewritten(u, p) ELSE p
      [] u.scheme = "file" -> IF Rewrites(u) THEN NoPath ELSE p
==============================================================================
