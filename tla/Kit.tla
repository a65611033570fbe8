-------------------------------- MODULE Kit --------------------------------
(* packages/vais-web/packages/kit/src outside its router and its socket: the *)
(* navigator and the hydration of a page (kn, ky), and the decisions of the  *)
(* server and of the build, one input at a time (ka).                        *)
EXTENDS Naturals, Sequences, FiniteSets, SequencesExt

CONSTANTS Urls,       \* URLs of the page's history; those in Routed have a route
          Routed,
          Unresolved, \* what "./a", "../a" or an absolute href is as a path: one of Routed
                      \* if a catch-all route takes any segments, else "null"
          MaxHistory, \* bound: history entries
          Elements, Hydrations, \* elements of one component id, by position, from 1; calls of hydrate
          MaxEvents,  \* bound: events captured
          Words,      \* segments of a URL: "a", "a.a", "axa", "a-a"
          Fields      \* fields of a form schema

\* Of the constants, for the proofs.
KitAssumption == /\ Urls # {} /\ Unresolved \in Routed \cup {"null"} /\ MaxHistory \in Nat \ {0}
                 /\ Elements \subseteq Nat \ {0} /\ IsFiniteSet(Hydrations) /\ MaxEvents \in Nat

VARIABLES kn, ky, ka
kitVars == <<kn, ky, ka>>

----------------------------------------------------------------------------
(* client/navigator.ts, scroll.ts.  traversing: a history.back() or forward()*)
(* of which popstate has not fired.  rendering: onNavigate calls running.    *)
KNInit == kn = [entries |-> <<CHOOSE u \in Urls : TRUE>>, at |-> 1, traversing |-> 0,
                handlers |-> 0, held |-> FALSE, currentRoute |-> "null", rendering |-> <<>>,
                prefetched |-> {}, links |-> <<>>,
                by |-> "path"]  \* history: what was matched last, the path of the URL or such an href

Location(s) == s.entries[s.at]
ResolveRoute(url) == IF url \in Routed THEN url ELSE "null"
\* Broken variant: a URL without a route changes nothing.
HandleNavigationMatched(s, url, scrolls) ==
  IF url \notin Routed THEN s
  ELSE [s EXCEPT !.currentRoute = url, !.rendering = Append(@, [url |-> url, scrolls |-> scrolls])]
HandleNavigation(s, url, scrolls) ==
  [s EXCEPT !.currentRoute = ResolveRoute(url),
            !.rendering = IF url \in Routed THEN Append(@, [url |-> url, scrolls |-> scrolls]) ELSE @]
\* Pushing drops the entries ahead, and a traversal under way.
PushState(s, url, replace) ==
  LET at == IF replace THEN s.at ELSE s.at + 1
  IN [s EXCEPT !.entries = Append(SubSeq(s.entries, 1, at - 1), url)
                             \o (IF replace THEN SubSeq(s.entries, at + 1, Len(s.entries)) ELSE <<>>),
               !.at = at, !.traversing = IF replace THEN @ ELSE 0]
\* interceptLinks lets an href through as it is written: pushState resolves it to
\* the URL, the routes are matched against the string.
Navigate(url, form, replace) ==
  /\ Len(kn.rendering) < MaxHistory /\ (replace \/ kn.at < MaxHistory)
  /\ LET s == PushState([kn EXCEPT !.by = form], url, replace)
     IN kn' = HandleNavigation(s, IF form = "path" THEN url ELSE Unresolved, TRUE)
\* A second start() leaves the handler of the first one in place.
Start == /\ kn.handlers < 2 /\ Len(kn.rendering) < MaxHistory
         /\ LET s == [kn EXCEPT !.handlers = @ + 1, !.held = TRUE, !.by = "path"]
            IN kn' = HandleNavigation(s, Location(s), FALSE)
\* router.back(), forward(), or the browser's buttons.
Traverse(to) == /\ kn.traversing = 0 /\ to \in DOMAIN kn.entries \ {kn.at}
                /\ kn' = [kn EXCEPT !.traversing = to]
PopState ==
  /\ kn.traversing # 0 /\ kn.traversing \in DOMAIN kn.entries /\ Len(kn.rendering) < MaxHistory
  /\ LET s == [kn EXCEPT !.at = kn.traversing, !.traversing = 0]
     IN kn' = IF kn.handlers = 0 THEN s ELSE HandleNavigation([s EXCEPT !.by = "path"], Location(s), FALSE)
\* onNavigate calls end in any order; a failed one does not scroll.
Navigated(i) == /\ i \in DOMAIN kn.rendering
                /\ kn' = [kn EXCEPT !.rendering = RemoveAt(@, i)]
Destroy == kn.held /\ kn' = [kn EXCEPT !.held = FALSE, !.handlers = @ - 1]
PrefetchRoute(url) ==
  /\ url \notin kn.prefetched
  /\ kn' = [kn EXCEPT !.prefetched = @ \cup {url}, !.links = Append(@, url)]
KNNext == \/ Start \/ PopState \/ Destroy
          \/ \E url \in Urls : PrefetchRoute(url) \/ \E f \in {"path", "href"}, r \in BOOLEAN : Navigate(url, f, r)
          \/ \E i \in 1 .. MaxHistory : Traverse(i) \/ Navigated(i)

----------------------------------------------------------------------------
(* hydration/: a marked element keeps its events until it is hydrated.       *)
KYInit == ky = [marked |-> Elements, queue |-> [e \in Elements |-> <<>>], next |-> 1,
                importing |-> [h \in Hydrations |-> 0],
                mounts |-> [e \in Elements |-> 0], delivered |-> [e \in Elements |-> <<>>]]

\* The marked elements come in document order: none of them precedes the first.
FindHydrationTarget == CHOOSE e \in ky.marked : \A d \in ky.marked : e <= d
\* The page's own script captures events of elements that are still marked.
Capture(e) ==
  /\ ky.next <= MaxEvents
  /\ ky' = IF e \in ky.marked THEN [ky EXCEPT !.queue[e] = Append(@, ky.next), !.next = @ + 1]
           ELSE [ky EXCEPT !.delivered[e] = Append(@, ky.next), !.next = @ + 1]
Replay(s, e) == [s EXCEPT !.delivered[e] = @ \o s.queue[e], !.queue[e] = <<>>]
\* hydrate(id): the first marked element with that id, then the import.
Hydrate(h) ==
  /\ ky.importing[h] = 0 /\ ky.marked # {}
  /\ ky' = [ky EXCEPT !.importing[h] = FindHydrationTarget]
HydrateTarget(h) ==
  /\ ky.importing[h] \in Elements
  /\ LET e == ky.importing[h]
     IN ky' = [Replay([ky EXCEPT !.mounts[e] = @ + 1], e)
                 EXCEPT !.marked = @ \ {e}, !.importing[h] = 0]
ComponentFails(h) == ky.importing[h] \in Elements /\ ky' = [ky EXCEPT !.importing[h] = 0]
KYNext == \/ \E e \in Elements : Capture(e)
          \/ \E h \in Hydrations : Hydrate(h) \/ HydrateTarget(h) \/ ComponentFails(h)

----------------------------------------------------------------------------
(* server/: form actions, cookies, load functions and middleware             *)
Origins == {"same", "allowed", "other", "none"}
ActionInputs ==
  [ask : {"action"}, method : {"POST", "GET"}, origin : Origins, referer : Origins, parses : BOOLEAN,
   token : {"right", "wrong", "none"}, raw : {"absent", "", "7", "text"}, json : BOOLEAN,
   result : {"success", "error", "redirect", "throws"}]
ValidateOrigin(a) ==
  IF a.origin # "none" THEN a.origin \in {"same", "allowed"} ELSE a.referer \in {"same", "allowed"}
ValidateCsrfToken(a) == a.token = "right"

Field == [type : {"string", "number", "boolean", "file"}, required : BOOLEAN]
Raws == {"absent", "", "7", "text", "File"}
FieldError(field, raw) ==
  IF raw \in {"absent", ""} /\ field.required THEN TRUE
  ELSE /\ raw # "absent"
       /\ (field.type = "number" /\ raw # "7") \/ (field.type = "file" /\ raw # "File")
ValidateFormData(form, schema) ==
  LET errors == {f \in DOMAIN schema : FieldError(schema[f], form[f])}
  IN [valid |-> errors = {}, errors |-> errors,
      data |-> {f \in DOMAIN schema \ errors : form[f] # "absent"}]

HandleServerAction(a) ==
  LET schema == [f \in {"n"} |-> [type |-> "number", required |-> TRUE]]
  IN CASE a.method # "POST" -> [status |-> 405, ran |-> FALSE]
       [] a.method = "POST" /\ ~ValidateOrigin(a) -> [status |-> 403, ran |-> FALSE]
       [] OTHER ->
            CASE ~a.parses -> [status |-> 400, ran |-> FALSE]
              [] a.parses /\ ~ValidateCsrfToken(a) -> [status |-> 403, ran |-> FALSE]
              [] OTHER ->
                   IF ~ValidateFormData([f \in {"n"} |-> a.raw], schema).valid
                   THEN [status |-> 400, ran |-> FALSE]
                   ELSE [status |-> CASE a.result = "throws" -> 500 [] a.result = "redirect" -> 303
                                      [] a.result = "error" -> 422
                                      [] OTHER -> IF a.json THEN 200 ELSE 303,
                         ran |-> TRUE]
FormInputs == [ask : {"form"}, form : [Fields -> Raws], schema : [Fields -> Field]]

\* A cookie of the request, and what a load function does before it ends.
CookieOps == {[op |-> "set", value |-> "2", path |-> "/"], [op |-> "set", value |-> "3", path |-> "dir"],
              [op |-> "delete", value |-> "", path |-> "/"]}
CookieInputs == [ask : {"cookie"}, sent : {"absent", "1"}, ops : UNION {[1 .. k -> CookieOps] : k \in 0 .. 3},
                 outcome : {"data", "redirect", "throws"}]
ParseCookieHeader(c) == c.sent
CookieGet(c) == IF c.ops = <<>> THEN ParseCookieHeader(c)
                ELSE IF Last(c.ops).op = "delete" THEN "absent" ELSE Last(c.ops).value
\* One header for a name: its last modification.
GetSetCookieHeaders(c) == IF c.ops = <<>> THEN <<>> ELSE <<Last(c.ops)>>
ExecuteLoad(c) == CASE c.outcome = "data" -> "success" [] c.outcome = "redirect" -> "redirect"
                    [] OTHER -> "error"
HandleDataRequest(c) ==
  LET result == ExecuteLoad(c)
  IN [cookies |-> GetSetCookieHeaders(c),
      status |-> CASE result = "redirect" -> 302 [] result = "error" -> 500 [] OTHER -> 200]
\* The cookie jar of the browser: a value for each path.
Jar(c) == LET sent == [p \in {"/", "dir"} |-> IF p = "/" THEN c.sent ELSE "absent"]
          IN FoldLeft(LAMBDA jar, s : [jar EXCEPT ![s.path] = IF s.op = "delete" THEN "absent" ELSE s.value],
                      sent, HandleDataRequest(c).cookies)

MiddlewareInputs == [ask : {"middleware"}, chain : UNION {[1 .. k -> {"next", "response", "throws"}] : k \in 0 .. 3}]
RunMiddlewareChain(chain) ==
  LET stops == {i \in DOMAIN chain : chain[i] # "next"}
      first == CHOOSE i \in stops : \A j \in stops : i <= j
  IN IF stops = {} THEN [ran |-> Len(chain), completed |-> TRUE, status |-> 0]
     ELSE [ran |-> first, completed |-> FALSE, status |-> IF chain[first] = "throws" THEN 500 ELSE 200]

----------------------------------------------------------------------------
(* ssr/: a document is a sequence of pieces; a layout has a slot for its     *)
(* child.  "$&" in a child is replaced by the text that matched.             *)
LayoutHtml(l) == IF l = "bare" THEN <<"bare">> ELSE <<l, "slot", l>>
ReplaceSlot(html, child) ==
  LET at == SelectInSeq(html, LAMBDA x : x = "slot")
      inserted == [i \in DOMAIN child |-> IF child[i] = "$&" THEN "slot" ELSE child[i]]
  IN IF at = 0 THEN html ELSE SubSeq(html, 1, at - 1) \o inserted \o SubSeq(html, at + 1, Len(html))
RenderInputs == [ask : {"render"}, page : {<<>>, <<"p">>, <<"p", "$&">>, <<"slot">>}, state : {"none", "s"},
                 layouts : UNION {[1 .. k -> {"root", "inner", "bare"}] : k \in 0 .. 2},
                 resolved : BOOLEAN, method : {"POST", "GET"}, markers : SUBSET {"$state", ":value"},
                 context : {"none", "client", "server"}]
RenderToString(r) == FoldLeft(LAMBDA body, l : ReplaceSlot(LayoutHtml(l), body), r.page, Reverse(r.layouts))
\* The chunks of the stream after its head.
RenderToStream(r) == FoldRight(LAMBDA l, body : ReplaceSlot(LayoutHtml(l), body), r.layouts, r.page)
SsrService(r) ==
  CASE r.method # "POST" -> [http |-> 404, status |-> 404, html |-> <<>>]
    [] r.method = "POST" /\ ~r.resolved -> [http |-> 200, status |-> 404, html |-> <<"404">>]
    [] OTHER -> [http |-> 200, status |-> 200, html |-> RenderToString(r)]
SsrPost(answer) == IF answer.http = 200 THEN answer.html ELSE <<"throws">>
DetectComponentType(r) ==
  CASE r.context = "client" -> "client"
    [] r.context = "server" -> IF "$state" \in r.markers THEN "conflict" ELSE "server"
    [] OTHER -> IF r.markers # {} THEN "client" ELSE "server"
\* The page as the hydration of markers.ts reads it.
RenderClientComponent(html, id, state) == [vx |-> id, state |-> state, html |-> html]
DeserializeState(state) == IF state = "none" THEN <<>> ELSE <<state>>

----------------------------------------------------------------------------
(* ssg/ and adapters/: the routes of a manifest                              *)
SegmentsOf == [type : {"static"}, value : Words \ {"axa"}] \cup {[type |-> "dynamic", value |-> "id"], [type |-> "catch-all", value |-> "rest"]}
Patterns == {p \in UNION {[1 .. k -> SegmentsOf] : k \in 0 .. 2} :
               \A i \in DOMAIN p : /\ p[i].type = "catch-all" => i = Len(p)
                                 /\ p[i].type = "dynamic" => \A j \in DOMAIN p : p[j] = p[i] => j = i}
RouteDefinition == {r \in [pattern : Patterns, page : BOOLEAN, api : BOOLEAN] : r.page \/ r.api}
HasDynamicSegment(route) == \E i \in DOMAIN route.pattern : route.pattern[i].type # "static"

PrerenderInputs == [ask : {"prerender"}, route : RouteDefinition, script : SUBSET {"#[static]", "load", "$state"},
                    combos : {<<>>, <<"a">>, <<"a", "a-a">>}, expands : BOOLEAN]
\* Broken variant: client state decides before the load function.
DetermineRenderModeClientFirst(route, script) ==
  CASE "#[static]" \in script -> "ssg" [] script = {"$state"} \/ script = {"$state", "load"} -> "csr"
    [] OTHER -> IF HasDynamicSegment(route) THEN "ssr" ELSE "ssg"
DetermineRenderMode(route, script) ==
  CASE "#[static]" \in script -> "ssg"
    [] "#[static]" \notin script /\ "load" \in script -> "ssr"
    [] script = {"$state"} -> "csr"
    [] OTHER -> IF HasDynamicSegment(route) THEN "ssr" ELSE "ssg"
\* A value for each dynamic segment, in order; a segment without one stays.
BuildParams(route, combo) ==
  LET dynamic == SelectSeq(route.pattern, LAMBDA s : s.type # "static")
      given == {i \in DOMAIN dynamic : i <= Len(combo)}
  IN {[name |-> dynamic[i].value, value |-> combo[i]] : i \in given}
BuildUrl(pattern, params) ==
  [i \in DOMAIN pattern |->
     LET mine == {p \in params : pattern[i].type # "static" /\ p.name = pattern[i].value}
     IN IF mine = {} THEN pattern[i].value ELSE (CHOOSE p \in mine : TRUE).value]
UrlsToRender(a) ==
  CASE ~HasDynamicSegment(a.route) -> {BuildUrl(a.route.pattern, {})}
    [] HasDynamicSegment(a.route) /\ a.expands -> {BuildUrl(a.route.pattern, BuildParams(a.route, a.combos))}
    [] OTHER -> {}
\* [skipped, files]: the html of a "csr" page is the empty shell.
Prerender(a) ==
  LET mode == DetermineRenderMode(a.route, IF a.route.page THEN a.script ELSE {})
  IN IF mode = "ssr" THEN [skipped |-> TRUE, files |-> {}]
     ELSE [skipped |-> FALSE, files |-> {[url |-> u, html |-> mode] : u \in UrlsToRender(a)}]
\* The paths alone, without the scripts.
CollectStaticPaths(a) == UrlsToRender(a)

UrlsOf == UNION {[1 .. k -> Words] : k \in 0 .. 2}
ManifestInputs == [ask : {"manifest"}, routes : {<<r, s>> : r \in RouteDefinition, s \in
                     {t \in RouteDefinition : Len(t.pattern) < 2 \/ t.pattern[1].type = "static"}}]
\* The generated servers turn a pattern into a regular expression: a dot of the
\* node server's is not escaped, and a catch-all is one segment everywhere.
SegmentMatches(s, word, escapes) ==
  \/ s.type # "static"
  \/ s.value = word
  \/ ~escapes /\ s.value = "a.a" /\ word = "axa"
RouteMatches(pattern, url, escapes) ==
  Len(pattern) = Len(url) /\ \A i \in DOMAIN url : SegmentMatches(pattern[i], url[i], escapes)
Serves(m, url, escapes) == \E i \in DOMAIN m.routes : RouteMatches(m.routes[i].pattern, url, escapes)
StaticPages(m, where) == {<<where, m.routes[i].pattern>> : i \in {k \in DOMAIN m.routes :
                            m.routes[k].page /\ ~m.routes[k].api /\ ~HasDynamicSegment(m.routes[k])}}

GenerateServerEntry(m, url) == Serves(m, url, FALSE)
GenerateWorkerEntry(m, url) == Serves(m, url, TRUE)
GenerateBunServerEntry(m, url) == Serves(m, url, TRUE)
GenerateDenoServerEntry(m, url) == Serves(m, url, TRUE)
GenerateNetlifyHandler(m, url) == Serves(m, url, TRUE)
GenerateLambdaHandler(m, url) == Serves(m, url, TRUE)
CreateCloudflareAdapter(m) == StaticPages(m, "_assets") \cup {<<"_worker.js", <<>>>>}
\* "/" in a path becomes "-" in the name of a function.
FnName(pattern) == FlattenSeq([i \in DOMAIN pattern |-> IF pattern[i].value = "a-a" THEN <<"a", "a">>
                                 ELSE <<pattern[i].value>>])
NeedsFunction(r) == r.api \/ (r.page /\ HasDynamicSegment(r))
GenerateVercelConfig(m) ==
  {[src |-> m.routes[i].pattern,
    dest |-> IF NeedsFunction(m.routes[i]) THEN <<"functions", FnName(m.routes[i].pattern)>>
             ELSE <<"static", m.routes[i].pattern>>] : i \in DOMAIN m.routes}
CreateVercelAdapter(m) ==
  StaticPages(m, "static") \cup
  {<<"functions", FnName(m.routes[i].pattern)>> : i \in {k \in DOMAIN m.routes : NeedsFunction(m.routes[k])}}
\* Refused as a whole when a route is an API route.
CreateStaticAdapter(m) ==
  IF \E i \in DOMAIN m.routes : m.routes[i].api THEN {}
  ELSE {<<"dist", m.routes[i].pattern>> : i \in {k \in DOMAIN m.routes : m.routes[k].page}}

KAInit == ka \in ActionInputs \cup FormInputs \cup CookieInputs \cup MiddlewareInputs \cup RenderInputs
                  \cup PrerenderInputs \cup ManifestInputs

----------------------------------------------------------------------------
KitTypes ==
  /\ kn.at \in DOMAIN kn.entries /\ Range(kn.entries) \subseteq Urls /\ kn.handlers \in 0 .. 2
  /\ ky.marked \subseteq Elements /\ \A e \in Elements : ky.mounts[e] <= Cardinality(Hydrations)

\* While the router listens, its current route is the route of the address bar
\* whatever is still rendering, but for an href that is no path (link.ts:37): until
\* the next navigation its route is what the string itself matches. No URL is
\* prefetched twice.
RouteIsUrl ==
  /\ kn.handlers > 0 => kn.currentRoute = ResolveRoute(IF kn.by = "path" THEN Location(kn) ELSE Unresolved)
  /\ IsInjective(kn.links)

\* An event captured before hydration reaches the component once and in order,
\* even when two hydrations of it overlap or an import fails first.
EventsReplayed ==
  \A e \in Elements :
    /\ \A i, j \in DOMAIN ky.delivered[e] : i < j => ky.delivered[e][i] < ky.delivered[e][j]
    /\ e \in ky.marked => ky.delivered[e] = <<>> /\ ky.mounts[e] = 0
    /\ e \notin ky.marked => ky.queue[e] = <<>> /\ ky.mounts[e] > 0

\* What the server answers to an input, whatever is wrong with it at once.
ServerDecides ==
  /\ ka.ask = "action" =>
       LET answer == HandleServerAction(ka)
           ours == {"same", "allowed"}
           fine == /\ ka.method = "POST" /\ ka.parses /\ ka.token = "right" /\ ka.raw = "7"
                   /\ ka.origin \in ours \/ (ka.origin = "none" /\ ka.referer \in ours)
       IN /\ answer.ran = fine
          /\ (answer.status = 405) = (ka.method = "GET")
          /\ (answer.status \in {200, 303}) = (fine /\ ka.result \in {"success", "redirect"})
  /\ ka.ask = "form" =>
       LET answer == ValidateFormData(ka.form, ka.schema)
       IN /\ answer.valid => \A f \in Fields : ka.schema[f].required => ka.form[f] \notin {"absent", ""}
          /\ answer.data \cap answer.errors = {}
          /\ \A f \in Fields : ka.schema[f].type \in {"number", "file"} /\ f \in answer.data =>
               ka.form[f] = IF ka.schema[f].type = "number" THEN "7" ELSE "File"
  /\ ka.ask = "middleware" =>
       LET answer == RunMiddlewareChain(ka.chain)
       IN /\ answer.completed = \A i \in DOMAIN ka.chain : ka.chain[i] = "next"
          /\ \A i \in 1 .. answer.ran - 1 : ka.chain[i] = "next"
          /\ (answer.status = 500) = (~answer.completed /\ ka.chain[answer.ran] = "throws")
  /\ ka.ask = "render" => (DetectComponentType(ka) = "conflict") = (ka.context = "server" /\ "$state" \in ka.markers)

\* After the answer of a load function, even a redirect or an error, the browser
\* holds the cookie the function last saw, as long as it set it for every path.
CookiesAgree ==
  (ka.ask = "cookie" /\ \A i \in DOMAIN ka.ops : ka.ops[i].path = "/") => Jar(ka)["/"] = CookieGet(ka)

\* The layouts enclose the page from the first to the last; the three ways to
\* render agree.  Only for a page without "$&" (renderer.ts:48).
Enclosed[layouts \in UNION {[1 .. k -> {"root", "inner", "bare"}] : k \in 0 .. 2},
         page \in {<<>>, <<"p">>, <<"slot">>}] ==
  IF layouts = <<>> THEN page
  ELSE IF layouts[1] = "bare" THEN <<"bare">>
       ELSE <<layouts[1]>> \o Enclosed[Tail(layouts), page] \o <<layouts[1]>>
RendersAgree ==
  ka.ask = "render" =>
    /\ RenderToStream(ka) = RenderToString(ka)
    /\ "$&" \notin Range(ka.page) => RenderToString(ka) = Enclosed[ka.layouts, ka.page]
    /\ ka.method = "POST" /\ ka.resolved => SsrPost(SsrService(ka)) = RenderToString(ka)
    /\ (SsrPost(SsrService(ka)) = <<"throws">>) = (ka.method # "POST")
    /\ DeserializeState(RenderClientComponent(ka.page, "c0", ka.state).state)
         = IF ka.state = "none" THEN <<>> ELSE <<ka.state>>

\* A prerendered file is the page of a URL its route matches, when every
\* segment has a value; a page with server functions is only prerendered when
\* its script says so.
PrerenderRight ==
  ka.ask = "prerender" =>
    LET done == Prerender(ka)
        full == Cardinality({i \in DOMAIN ka.route.pattern : ka.route.pattern[i].type # "static"}) <= Len(ka.combos)
    IN /\ \A f \in done.files : full => RouteMatches(ka.route.pattern, f.url, TRUE)
       /\ ka.route.page /\ "load" \in ka.script /\ done.files # {} => "#[static]" \in ka.script
       /\ {f.url : f \in done.files} \subseteq CollectStaticPaths(ka)
       /\ done.files = {} => done.skipped \/ ~ka.expands

\* The generated servers answer the same URLs, but for a dot in a pattern on
\* node (node.ts:37); every destination of the Vercel routes was built.
AdaptersAgree ==
  ka.ask = "manifest" =>
    /\ \A url \in UrlsOf :
         LET dotted == \E i \in DOMAIN ka.routes : \E k \in DOMAIN ka.routes[i].pattern : ka.routes[i].pattern[k].value = "a.a"
         IN Cardinality({GenerateWorkerEntry(ka, url), GenerateBunServerEntry(ka, url), GenerateDenoServerEntry(ka, url),
                         GenerateNetlifyHandler(ka, url), GenerateLambdaHandler(ka, url)}
                        \cup (IF dotted THEN {} ELSE {GenerateServerEntry(ka, url)})) = 1
    /\ \A r \in GenerateVercelConfig(ka) : r.dest \in CreateVercelAdapter(ka)
    /\ \A f \in CreateCloudflareAdapter(ka) : f[1] = "_assets" =>
         GenerateWorkerEntry(ka, [i \in DOMAIN f[2] |-> f[2][i].value])
    /\ CreateStaticAdapter(ka) # {} =>
         {f[2] : f \in {g \in CreateCloudflareAdapter(ka) : g[1] = "_assets"}}
           = {f[2] : f \in {g \in CreateStaticAdapter(ka) : ~HasDynamicSegment([pattern |-> g[2]])}}
=============================================================================
