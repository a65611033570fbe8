---------------------------- MODULE RouteMatcher ----------------------------
(* packages/vais-web/packages/kit/src/router: matching a URL against the     *)
(* tree of the app directory (matcher.ts, scanner.ts, tree.ts, resolver.ts), *)
(* and the flat list of the federated router (federation/src/router.ts).     *)
(*                                                                           *)
(* A directory is a segment; a node of the tree carries the segments of its  *)
(* whole path, of which the matcher looks at the last that is not a group.   *)
(* A URL is its sequence of segments.  A route is named by its path.         *)
EXTENDS Naturals, Sequences, FiniteSets, SequencesExt

CONSTANTS Words,      \* segments a URL may have; the static directories
          MaxUrl,     \* bound: length of a URL
          Fanout      \* bound: children of a node; the tree has two levels

VARIABLES rt,         \* the tree and the URL asked for: an input
          fr          \* the federated router's list of routes

rmVars == <<rt, fr>>

Static(w) == [type |-> "static", value |-> w]
Dynamic == [type |-> "dynamic", value |-> "id"]
CatchAll == [type |-> "catch-all", value |-> "rest"]
Group == [type |-> "group", value |-> "g"]
Segments == {Static(w) : w \in Words} \cup {Dynamic, CatchAll, Group}

UpTo(n, S) == UNION {[1 .. k -> S] : k \in 0 .. n}
Distinct(kids) == \A j, k \in DOMAIN kids : kids[j].seg = kids[k].seg => j = k
Leaves == {[seg |-> s, layout |-> s.type = "static", kids |-> <<>>] : s \in Segments \ {Group}}
Branches == {[seg |-> s, layout |-> s = Group, kids |-> ks] :
               s \in Segments \ {CatchAll}, ks \in {k \in UpTo(Fanout, Leaves) : Distinct(k)}}
Trees == {ks \in UpTo(Fanout, Branches) : Distinct(ks)}

----------------------------------------------------------------------------
(* The matcher                                                               *)
NoSeg == [type |-> "none", value |-> "none"]
OwnSeg(path) == LET own == SelectSeq(path, LAMBDA s : s.type # "group")
                IN IF own = <<>> THEN NoSeg ELSE Last(own)

\* static < dynamic < catch-all; a node that only has groups counts as dynamic.
Priority(path) == CASE OwnSeg(path).type = "static" -> 0
                    [] OwnSeg(path).type = "catch-all" -> 2
                    [] OTHER -> 1

\* Stable: children of equal priority stay in directory order.
SortedKids(path, kids) ==
  LET rank(k) == Priority(Append(path, kids[k].seg))
      before(j, k) == rank(j) < rank(k) \/ (rank(j) = rank(k) /\ j < k)
      order == SetToSortSeq(DOMAIN kids, before)
  IN [k \in DOMAIN kids |-> kids[order[k]]]

NoMatch == [found |-> FALSE, params |-> <<>>, layouts |-> <<>>]
FirstFound(results) == LET ok == SelectSeq(results, LAMBDA r : r.found)
                       IN IF ok = <<>> THEN NoMatch ELSE ok[1]
WithLayout(layouts, node, path) == IF node.layout THEN Append(layouts, path) ELSE layouts

\* A visit of the first walk: what is left of the URL, the directories above the node, and
\* the layouts and params collected there.
Nodes == Leaves \cup Branches
Visits == [url : Seq(Words), parent : Seq(Segments), node : Nodes, above : Seq(Seq(Segments)),
           params : Seq({"id", "rest"} \X Seq(Words))]
MatchChild[at \in Visits] ==
  LET path == Append(at.parent, at.node.seg)
      own == OwnSeg(path)
      layouts == WithLayout(at.above, at.node, path)
      bound(v) == Append(at.params, <<own.value, v>>)
      matchChildren(url, params) ==
        LET sorted == SortedKids(path, at.node.kids)
        IN FirstFound([k \in DOMAIN sorted |->
             MatchChild[[url |-> url, parent |-> path, node |-> sorted[k], above |-> layouts, params |-> params]]])
      below(p) == IF Len(at.url) = 1 THEN [found |-> TRUE, params |-> p, layouts |-> layouts]
                  ELSE matchChildren(Tail(at.url), p)
  IN CASE own = NoSeg -> matchChildren(at.url, at.params)
       [] own.type = "catch-all" -> [found |-> TRUE, params |-> bound(at.url), layouts |-> layouts]
       [] own.type = "static" -> IF at.url[1] = own.value THEN below(at.params) ELSE NoMatch
       [] own.type = "dynamic" -> below(bound(<<at.url[1]>>))

\* findMatchedRoute: a second walk; it does not sort the children of groups.
NoRoute == <<NoSeg>>
FirstRoute(routes) == LET ok == SelectSeq(routes, LAMBDA r : r # NoRoute)
                      IN IF ok = <<>> THEN NoRoute ELSE ok[1]

FindMatchedRoute[url \in Seq(Words), parent \in Seq(Segments), node \in Nodes] ==
  LET path == Append(parent, node.seg)
      own == OwnSeg(path)
      among(u, kids) == FirstRoute([k \in DOMAIN kids |-> FindMatchedRoute[u, path, kids[k]]])
  IN CASE own = NoSeg -> among(url, node.kids)
       [] own.type = "catch-all" -> path
       [] own.type = "static" /\ url[1] # own.value -> NoRoute
       [] OTHER -> IF Len(url) = 1 THEN path ELSE among(Tail(url), SortedKids(path, node.kids))

\* matchRoute: the first child, by priority, for which both walks succeed.
MatchRoute(url, kids) ==
  LET sorted == SortedKids(<<>>, kids)
      try(node) == [route |-> FindMatchedRoute[url, <<>>, node],
                    match |-> MatchChild[[url |-> url, parent |-> <<>>, node |-> node, above |-> <<>>, params |-> <<>>]]]
      ok == SelectSeq([k \in DOMAIN sorted |-> try(sorted[k])],
                      LAMBDA r : r.match.found /\ r.route # NoRoute)
  IN IF ok = <<>> THEN [route |-> NoRoute, match |-> NoMatch] ELSE ok[1]

----------------------------------------------------------------------------
(* What the tree means: a group takes nothing of the URL, a static or        *)
(* dynamic directory one segment, a catch-all the rest.                      *)
Paths(kids) ==
  {<<kids[k]>> : k \in DOMAIN kids}
    \cup UNION {{<<kids[k], kids[k].kids[j]>> : j \in DOMAIN kids[k].kids} : k \in DOMAIN kids}

Consuming(p) == SelectSeq(p, LAMBDA n : n.seg.type # "group")
Means(p, url) ==
  LET c == Consuming(p)
  IN /\ Last(p).seg.type # "group" /\ Len(c) <= Len(url)
     /\ \A k \in 1 .. Len(c) : c[k].seg.type = "static" => url[k] = c[k].seg.value
     /\ Last(c).seg.type = "catch-all" \/ Len(c) = Len(url)

SegsOf(p) == [k \in DOMAIN p |-> p[k].seg]
ParamsAlong(p, url) ==
  LET c == Consuming(p)
      at(k) == IF c[k].seg.type = "catch-all" THEN SubSeq(url, k, Len(url)) ELSE <<url[k]>>
      names == SelectSeq([k \in DOMAIN c |-> k], LAMBDA k : c[k].seg.type # "static")
  IN [k \in DOMAIN names |-> <<c[names[k]].seg.value, at(names[k])>>]
LayoutsAlong(p) ==
  LET ks == SelectSeq([k \in DOMAIN p |-> k], LAMBDA k : p[k].layout)
  IN [k \in DOMAIN ks |-> SubSeq(SegsOf(p), 1, ks[k])]

----------------------------------------------------------------------------
(* resolver.ts: each node of the tree already lists its parents' middleware  *)
(* (tree.ts:61) and the chain concatenates the lists along the path.         *)
AllMiddleware(path) == [k \in 1 .. Len(path) + 1 |-> SubSeq(path, 1, k - 1)]
MiddlewareChain(path) == FlattenSeq([k \in 1 .. Len(path) + 1 |-> AllMiddleware(SubSeq(path, 1, k - 1))])

\* The innermost error.vaisx or loading.vaisx on the path; the directories in
\* "having" have one.
Innermost(path, having) ==
  LET ks == {k \in 1 .. Len(path) : SubSeq(path, 1, k) \in having}
  IN IF ks = {} THEN NoRoute ELSE SubSeq(path, 1, CHOOSE k \in ks : \A j \in ks : j <= k)

----------------------------------------------------------------------------
(* The federated router                                                      *)
Patterns == {<<Static(w)>> : w \in Words} \cup {<<Dynamic>>}
              \cup {<<Static(w), CatchAll>> : w \in Words}
FRoutes == [path : Patterns, exposed : BOOLEAN, fallback : {"none", "exposed", "hidden"}]

PatternMatches(p, url) ==
  /\ Len(p) <= Len(url) /\ (Last(p) = CatchAll \/ Len(p) = Len(url))
  /\ \A k \in DOMAIN p : p[k].type = "static" => p[k].value = url[k]

\* The first route in the list whose pattern matches.
Unmatched == [path |-> NoRoute, exposed |-> FALSE, fallback |-> "none"]
Resolve(routes, url) ==
  LET ok == SelectSeq(routes, LAMBDA r : PatternMatches(r.path, url))
  IN IF ok = <<>> THEN Unmatched ELSE ok[1]

\* addRoute replaces the route of the same path in place.
AddRoute(r) ==
  LET old == {k \in DOMAIN fr : fr[k].path = r.path}
  IN /\ Len(fr) < 2 \/ old # {}
     /\ fr' = IF old = {} THEN Append(fr, r) ELSE [k \in DOMAIN fr |-> IF k \in old THEN r ELSE fr[k]]
     /\ UNCHANGED rt

RemoveRoute(p) ==
  LET old == {k \in DOMAIN fr : fr[k].path = p}
  IN old # {} /\ fr' = RemoveAt(fr, CHOOSE k \in old : \A j \in old : k <= j) /\ UNCHANGED rt

\* loadRoute: the module, or the fallback, or the module's error.
LoadRoute(routes, url) ==
  LET r == Resolve(routes, url)
      what == IF r.exposed THEN "module" ELSE IF r.fallback = "exposed" THEN "fallback" ELSE "error"
  IN <<r.path, what>>

RMInit == rt = [kids |-> <<>>, url |-> <<>>] /\ fr = <<>>
Ask == /\ rt.url = <<>>
       /\ \E kids \in Trees, url \in UNION {[1 .. n -> Words] : n \in 1 .. MaxUrl} :
            rt' = [kids |-> kids, url |-> url]
       /\ UNCHANGED fr
RouterNext == (\E r \in FRoutes : AddRoute(r)) \/ \E p \in Patterns : RemoveRoute(p)

----------------------------------------------------------------------------
\* Groups directly under the root, with children in priority order.
PlainGroups(kids) ==
  \A k \in DOMAIN kids : kids[k].seg = Group =>
    SortedKids(<<Group>>, kids[k].kids) = kids[k].kids

\* What resolver.ts finds by walking to the route again agrees with what the
\* matcher collected on its way: with an error page wherever there is a layout,
\* the error page is the innermost layout's, and the middleware of every
\* directory on the path runs, that of an outer one first.
ResolvedAlong(p, route, layouts) ==
  LET having == {SubSeq(route, 1, k) : k \in {j \in DOMAIN p : p[j].layout}}
      chain == MiddlewareChain(route)
      first(k) == CHOOSE i \in DOMAIN chain : chain[i] = SubSeq(route, 1, k)
                                             /\ \A j \in 1 .. i - 1 : chain[j] # chain[i]
  IN /\ Innermost(route, having) = IF layouts = <<>> THEN NoRoute ELSE Last(layouts)
     /\ \A k \in 0 .. Len(route) : \E i \in DOMAIN chain : chain[i] = SubSeq(route, 1, k)
     /\ \A k \in 1 .. Len(route) : first(k - 1) < first(k)

\* A URL is matched iff some page of the tree means it, and the route, the
\* params and the layout chain that come back are those of one and the same
\* page, although the matcher finds them in two separate walks
\* (matcher.ts:240, 243); the federated list has one route per path.
MatchIsOnePage ==
  /\ LET r == MatchRoute(rt.url, rt.kids)
         ps == {p \in Paths(rt.kids) : Means(p, rt.url)}
     IN rt.url # <<>> /\ PlainGroups(rt.kids) =>
          /\ r.match.found <=> ps # {}
          /\ r.match.found => \E p \in ps : /\ SegsOf(p) = r.route
                                            /\ r.match.params = ParamsAlong(p, rt.url)
                                            /\ r.match.layouts = LayoutsAlong(p)
                                            /\ ResolvedAlong(p, r.route, r.match.layouts)
  /\ \A j, k \in DOMAIN fr : fr[j].path = fr[k].path => j = k

\* A URL stays with its federated route until that route itself is replaced or
\* removed: routes added later do not take it, and neither does a replacement
\* of another route (federation/src/router.ts:200).
RoutesKept ==
  [][\A url \in UNION {[1 .. n -> Words] : n \in 1 .. MaxUrl} :
       Resolve(fr, url) \in ToSet(fr') => LoadRoute(fr', url) = LoadRoute(fr, url)]_fr

\* The same for every tree.
MatchIsOnePageAlways ==
  LET r == MatchRoute(rt.url, rt.kids)
  IN rt.url # <<>> /\ r.match.found =>
       \E p \in Paths(rt.kids) : /\ SegsOf(p) = r.route
                                 /\ r.match.params = ParamsAlong(p, rt.url)
=============================================================================
