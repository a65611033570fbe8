----------------------------- MODULE Workbench ------------------------------
(* What an author works with: the language server (ls), waitFor and the      *)
(* mounted components of the test library (wf, rd), and the plugin container *)
(* with its build, one list of plugins at a time (pq).                       *)
(* packages/vais-web/packages/language-server, testing, plugin.              *)
EXTENDS Integers, Sequences, FiniteSets, SequencesExt

CONSTANTS Uris, MaxSent,     \* bound: messages an editor sends
          Timeout, Interval, MaxLate,  \* bound: ticks a timer may be late
          Mounts, Containers, Throwers, \* Throwers: components whose destroy throws
          MaxAgain      \* bound: unmounts of a component that is gone

VARIABLES ls, wf, rd, pq

----------------------------------------------------------------------------
(* language-server/src/server.ts.  A message is a frame: the header's first  *)
(* unit, its end and the body; units arrive in chunks of any size.  The      *)
(* editor's own view of a document is what it last sent; sent keeps, for     *)
(* each question, the text the editor had then.                              *)
Closed == 0
Message(kind, uri, text) == [kind |-> kind, uri |-> uri, text |-> text]
BodyLength(kind) == IF kind = "change" THEN 2 ELSE 1
Frame(m) ==
  <<[part |-> "header", message |-> m], [part |-> "end", message |-> m]>> \o [i \in 1 .. BodyLength(m.kind) |-> [part |-> "body", message |-> m]]
LSInit == ls = [sent |-> <<>>, wire |-> <<>>, rawBuffer |-> <<>>, view |-> [u \in Uris |-> Closed],
                documents |-> [u \in Uris |-> Closed], published |-> [u \in Uris |-> Closed], answers |-> <<>>,
                handled |-> 0, shutdown |-> FALSE]

\* A question about a document that is not open is answered with nothing, one
\* that makes a provider throw is not answered.
HandleMessage(s, m) ==
  LET n == [s EXCEPT !.handled = @ + 1]
  IN CASE m.kind = "open" -> [n EXCEPT !.documents[m.uri] = m.text, !.published[m.uri] = m.text]
       [] m.kind = "change" -> IF s.documents[m.uri] = Closed THEN n
                               ELSE [n EXCEPT !.documents[m.uri] = m.text, !.published[m.uri] = m.text]
       [] m.kind = "close" -> [n EXCEPT !.documents[m.uri] = Closed]
       [] m.kind = "ask" -> [n EXCEPT !.answers = Append(@, s.documents[m.uri])]
       [] m.kind = "shutdown" -> [n EXCEPT !.shutdown = TRUE, !.answers = Append(@, Closed)]
       [] OTHER -> n
\* Where the body begins, when a whole header is there.
BodyStart(buffer) ==
  LET ends == {i \in DOMAIN buffer : buffer[i].part = "end"}
  IN IF ends = {} THEN 0 ELSE 1 + CHOOSE i \in ends : \A j \in ends : i <= j
RECURSIVE ProcessBuffer(_)
ProcessBuffer(s) ==
  LET start == BodyStart(s.rawBuffer)
      length == BodyLength(s.rawBuffer[1].message.kind)
  IN IF start = 0 THEN s
     ELSE IF start - 1 + length > Len(s.rawBuffer) THEN s
     ELSE ProcessBuffer(HandleMessage([s EXCEPT !.rawBuffer = SubSeq(@, start + length, Len(@))], s.rawBuffer[1].message))
Receive(k) ==
  ls' = ProcessBuffer([ls EXCEPT !.wire = SubSeq(@, k + 1, Len(@)), !.rawBuffer = @ \o SubSeq(ls.wire, 1, k)])
\* The editor: texts are numbered by the message that carries them.
Send(kind, u) ==
  LET m == Message(kind, u, Len(ls.sent) + 1)
  IN /\ kind = "open" => ls.view[u] = Closed
     /\ kind \in {"change", "close"} => ls.view[u] # Closed
     /\ ls' = [ls EXCEPT !.sent = Append(@, [kind |-> kind, uri |-> u, view |-> ls.view[u]]), !.wire = @ \o Frame(m),
                         !.view[u] = CASE kind \in {"open", "change"} -> m.text [] kind = "close" -> Closed [] OTHER -> @]
LSNext ==
  \/ Len(ls.sent) < MaxSent /\ \E u \in Uris, k \in {"open", "change", "close", "ask", "throw", "shutdown"} : Send(k, u)
  \/ \E k \in 1 .. Len(ls.wire) : Receive(k)

----------------------------------------------------------------------------
(* testing/src/wait-for.ts.  holds: the callback would return now; pending:  *)
(* its promise has not settled, in the attempt after the loop if final.      *)
WFInit == \E h \in BOOLEAN :
  wf = [now |-> 0, holds |-> h, outcome |-> "waits", wake |-> 0, late |-> 0, pending |-> FALSE, final |-> FALSE]
\* What is awaited settles: the callback has returned, or thrown.
Settles(s) ==
  CASE s.holds -> [s EXCEPT !.pending = FALSE, !.outcome = "returns"]
    [] ~s.holds /\ s.final -> [s EXCEPT !.pending = FALSE, !.outcome = "throws"]
    [] OTHER -> LET left == IF s.now < Timeout THEN Timeout - s.now ELSE 0
                IN [s EXCEPT !.pending = FALSE, !.wake = s.now + (IF Interval < left THEN Interval ELSE left)]
\* An attempt of the loop, or the last one after it: settled at once, or awaited.
Attempt ==
  LET called == [wf EXCEPT !.final = wf.now >= Timeout]
  IN wf' = Settles(called) \/ wf' = [called EXCEPT !.pending = TRUE]
Awake == wf.outcome = "waits" /\ ~wf.pending /\ wf.wake <= wf.now /\ Attempt
Change(h) == wf.holds # h /\ wf' = [wf EXCEPT !.holds = h]
Elapse ==
  \/ wf.now < wf.wake /\ wf' = [wf EXCEPT !.now = @ + 1]
  \/ wf.now >= wf.wake /\ wf.late < MaxLate /\ wf' = [wf EXCEPT !.now = @ + 1, !.late = @ + 1]
WFNext == /\ wf.outcome = "waits"
          /\ \/ Awake \/ Elapse \/ \E h \in BOOLEAN : Change(h)
             \/ wf.pending /\ wf' = Settles(wf)
\* Timers fire; a promise of the callback may never settle.
WFFairness == WF_wf(Awake) /\ WF_wf(wf.outcome = "waits" /\ Elapse)

----------------------------------------------------------------------------
(* testing/src/render.ts.  A component is mounted in a container; instance   *)
(* is the one cleanup finds there.  again and evicted are history: unmounts  *)
(* of a component that was gone, and components whose container was taken by *)
(* a render into it or by the unmount of one that was there before.          *)
RDInit == rd = [mounted |-> {}, instance |-> [c \in Containers |-> "none"], attached |-> {},
                live |-> {}, destroyed |-> [m \in Mounts |-> 0], threw |-> FALSE, rendered |-> {}, evicted |-> {},
                again |-> [m \in Mounts |-> 0], place |-> [m \in Mounts |-> "none"]]
Evict(s, m, c) == [s EXCEPT !.evicted = @ \cup ({s.instance[c]} \ {"none", m})]
Render(m, c) ==
  /\ m \notin rd.rendered
  /\ rd' = [Evict(rd, m, c) EXCEPT !.mounted = @ \cup {c}, !.instance[c] = m, !.attached = @ \cup {c},
                                   !.live = @ \cup {m}, !.rendered = @ \cup {m}, !.place[m] = c]
\* destroy runs before anything is forgotten; one that throws ends the call.
DestroyIn(s, m) == [s EXCEPT !.destroyed[m] = @ + 1, !.live = @ \ {m}]
\* Nothing remembers that a component was unmounted before.
Unmount(m) ==
  LET c == rd.place[m]
      n == DestroyIn([rd EXCEPT !.again[m] = IF m \in rd.live THEN @ ELSE @ + 1], m)
  IN /\ m \in rd.rendered /\ (m \in rd.live \/ rd.again[m] < MaxAgain)
     /\ rd' = IF m \in Throwers THEN [n EXCEPT !.threw = TRUE]
              ELSE [Evict(n, m, c) EXCEPT !.attached = @ \ {c}, !.mounted = @ \ {c}, !.instance[c] = "none"]
CleanupOne(s, c) ==
  LET m == s.instance[c]
      n == IF m = "none" THEN s ELSE DestroyIn(s, m)
  IN CASE s.threw -> s
       [] ~s.threw /\ m \in Throwers -> [n EXCEPT !.threw = TRUE]
       [] OTHER -> [n EXCEPT !.attached = @ \ {c}]
Cleanup ==
  \E order \in SetToSeqs(rd.mounted) :
    LET n == FoldLeft(CleanupOne, [rd EXCEPT !.threw = FALSE], order)
    IN rd' = IF n.threw THEN n ELSE [n EXCEPT !.mounted = {}, !.instance = [c \in Containers |-> "none"]]
RDNext == Cleanup \/ \E m \in Mounts : Unmount(m) \/ \E c \in Containers : Render(m, c)

----------------------------------------------------------------------------
(* plugin/src.  A plugin has its place in the order and, per hook, what it   *)
(* does: "none" (no hook), "null", "value" or "throws".                      *)
Enforce == {"pre", "normal", "post"}
Ranked(plugins, e) == SelectSeq(plugins, LAMBDA p : p.enforce = e)
SortPlugins(plugins) == Ranked(plugins, "pre") \o Ranked(plugins, "normal") \o Ranked(plugins, "post")
\* The first plugin that answers or throws; the call is over there.
FirstResult(plugins, hook) ==
  LET at == {i \in DOMAIN plugins : plugins[i][hook] \in {"value", "throws"}}
  IN IF at = {} THEN [plugin |-> 0, throws |-> FALSE]
     ELSE LET i == CHOOSE i \in at : \A j \in at : i <= j
          IN [plugin |-> plugins[i].id, throws |-> plugins[i][hook] = "throws"]
\* The code is the plugins that changed it, in turn; map is the last one's.
TransformOne(acc, p) ==
  CASE acc.throws \/ p.transform \in {"none", "null"} -> acc
    [] ~acc.throws /\ p.transform = "throws" -> [acc EXCEPT !.throws = TRUE]
    [] OTHER -> [acc EXCEPT !.code = Append(@, p.id), !.map = IF p.maps THEN p.id ELSE 0]
Transform(plugins) == FoldLeft(TransformOne, [code |-> <<>>, map |-> 0, throws |-> FALSE], plugins)
\* buildEnd of every plugin in turn, until one throws.
BuildEnd(plugins) ==
  LET bad == {i \in DOMAIN plugins : plugins[i].buildEnd = "throws"}
      ran == IF bad = {} THEN plugins ELSE SubSeq(plugins, 1, CHOOSE i \in bad : \A j \in bad : i <= j)
  IN {p.id : p \in {q \in ToSet(ran) : q.buildEnd # "none"}}
\* An entry's error is kept for buildEnd and thrown after it; buildStart's is
\* thrown at once.
RunBuild(plugins, entries) ==
  LET startThrows == \E p \in ToSet(plugins) : p.buildStart = "throws"
      failed == entries > 0 /\ (FirstResult(plugins, "resolveId").throws \/ FirstResult(plugins, "load").throws \/ Transform(plugins).throws)
      ended == BuildEnd(plugins)
      endThrows == \E p \in ToSet(plugins) : p.buildEnd = "throws"
  IN IF startThrows THEN [ended |-> {}, error |-> "start", modules |-> 0]
     ELSE [ended |-> ended, error |-> CASE endThrows -> "end" [] ~endThrows /\ failed -> "entry" [] OTHER -> "none",
           modules |-> IF failed \/ endThrows THEN 0 ELSE entries]
\* configureServer: a hook may leave a function for when all are configured.
ConfigureServer(plugins) == [i \in DOMAIN plugins |-> plugins[i].id] \o
  [i \in DOMAIN SelectSeq(plugins, LAMBDA p : p.later) |-> -SelectSeq(plugins, LAMBDA p : p.later)[i].id]
\* handleHotUpdate: a list replaces the one that was handed on.
HandleHotUpdate(plugins, modules) ==
  FoldLeft(LAMBDA acc, p : IF p.keeps = 0 THEN acc ELSE SelectSeq(acc, LAMBDA m : m <= p.keeps), modules, plugins)

PluginSet(id) ==
  [id : {id}, enforce : Enforce, resolveId : {"null", "value"}, load : {"none", "throws"},
   buildStart : IF id = 1 THEN {"none", "throws"} ELSE {"none"}, transform : {"none", "value", "throws"}, maps : {id = 1}, buildEnd : {"null", "throws"}, later : {id # 2}, keeps : {id - 1}]
PQInit == \E a \in PluginSet(1), b \in PluginSet(2) :
  pq = [ask |-> "plugins", plugins |-> <<a, b, [b EXCEPT !.id = 3, !.later = TRUE, !.keeps = 2, !.buildEnd = "null"]>>]

----------------------------------------------------------------------------
WorkbenchTypes ==
  /\ ls.handled <= Len(ls.sent) /\ \A u \in Uris : ls.documents[u] \in 0 .. MaxSent
  /\ wf.outcome \in {"waits", "returns", "throws"} /\ wf.now <= Timeout + MaxLate
  /\ rd.live \subseteq rd.rendered /\ rd.attached \subseteq Containers

\* However the bytes are cut into chunks, whole messages are handled at once
\* and in order: a question is answered with the text its editor had when it
\* asked, and the findings shown are those of the text that is open
\* (server.ts:239, :132).
AnswersInOrder ==
  LET seen == SubSeq(ls.sent, 1, ls.handled)
      asked == SelectSeq(seen, LAMBDA m : m.kind \in {"ask", "shutdown"})
  IN /\ \A i \in DOMAIN ls.answers : ls.answers[i] = IF asked[i].kind = "ask" THEN asked[i].view ELSE Closed
     /\ Len(ls.answers) = Len(asked)
     /\ BodyStart(ls.rawBuffer) > 0 =>
          Len(ls.rawBuffer) < BodyStart(ls.rawBuffer) - 1 + BodyLength(ls.rawBuffer[1].message.kind)
     /\ \A u \in Uris : ls.documents[u] # Closed => ls.published[u] = ls.documents[u]
     /\ ls.wire = <<>> => ls.rawBuffer = <<>> /\ ls.documents = ls.view

\* waitFor gives up only if a callback called at the deadline or after it did not
\* hold, and returns only what holds (wait-for.ts:52).
WaitForRight ==
  /\ wf.outcome = "throws" => ~wf.holds /\ wf.now >= Timeout
  /\ wf.outcome = "returns" => wf.holds
\* A wait ends if every promise of the callback settles; nothing else bounds it
\* (wait-for.ts:43, 54).
WaitForEnds == []<>(~wf.pending) => ((wf.outcome = "waits") ~> (wf.outcome # "waits"))

\* Unless a destroy throws: a component is destroyed once, and once more for each
\* unmount when it was gone; after cleanup nothing is mounted and, but for those
\* whose container was taken, every component was destroyed (render.ts:76, 120).
CleanedUp ==
  Throwers = {} =>
    /\ \A m \in Mounts : rd.destroyed[m] = (IF m \in rd.rendered \ rd.live THEN 1 ELSE 0) + rd.again[m]
    /\ rd.mounted = {} => rd.live \subseteq rd.evicted /\ rd.attached = {}
    /\ \A m \in rd.live \ rd.evicted : rd.instance[rd.place[m]] = m

\* Plugins keep their order within their place; the first answer is that of
\* the earliest plugin; a failing build ends every plugin that asked for it,
\* unless one of those ends throws; what was left for later comes after every
\* configuration (container.ts:34, build-hooks.ts:37, server-hooks.ts:48).
PluginsRight ==
  LET s == SortPlugins(pq.plugins)
      Rank(p) == CASE p.enforce = "pre" -> 1 [] p.enforce = "normal" -> 2 [] OTHER -> 3
      t == Transform(s)
      r == RunBuild(s, 1)
      configured == ConfigureServer(s)
  IN /\ \A i, j \in DOMAIN s : i < j => Rank(s[i]) < Rank(s[j]) \/ (Rank(s[i]) = Rank(s[j]) /\ s[i].id < s[j].id)
     /\ ToSet(s) = ToSet(pq.plugins)
     /\ ~t.throws => t.code = [i \in DOMAIN SelectSeq(s, LAMBDA p : p.transform = "value") |-> SelectSeq(s, LAMBDA p : p.transform = "value")[i].id]
     /\ (\A p \in ToSet(s) : p.buildEnd # "throws" /\ p.buildStart # "throws") => r.ended = {p.id : p \in ToSet(s)}
     /\ r.error = "none" => r.modules = 1
     /\ \A i, j \in DOMAIN configured : configured[i] < 0 /\ configured[j] > 0 => i > j
     /\ ToSet(HandleHotUpdate(s, <<1, 2, 3>>)) = {m \in 1 .. 3 : \A p \in ToSet(s) : p.keeps = 0 \/ m <= p.keeps}
=============================================================================
