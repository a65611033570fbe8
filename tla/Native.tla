------------------------------- MODULE Native -------------------------------
(* packages/vais-web/packages/native/src: the bridge to the host with the    *)
(* location watches that use it (br), the navigators (nv), the manager of    *)
(* over-the-air updates (ot); and the tree differs, the view mapper, styles  *)
(* and builds, one input at a time (nq).                                     *)
EXTENDS Integers, Sequences, FiniteSets, SequencesExt

CONSTANTS Calls, Watchers,
          MaxMessages,  \* bound: messages queued
          MaxBatchSize,
          Screens, MaxRoutes, \* bound: depth of the stack
          MaxPatch            \* bound: versions

VARIABLES br, nv, ot, nq
nativeVars == <<br, nv, ot, nq>>

----------------------------------------------------------------------------
(* bridge.ts, device/location.ts.  The host is a message handler: it holds   *)
(* the calls it has read, and sends positions between "start" and "stop".    *)
Handlers == {"host", "logger"}
MessageKinds == Calls \cup {"plain", "start", "stop", "echo"}
CreateBridge == [queue |-> <<>>, next |-> 1, handlers |-> {"host"}, received |-> [h \in Handlers |-> <<>>],
                 call |-> [c \in Calls |-> "none"], late |-> {}, held |-> {}, module |-> FALSE, destroyed |-> FALSE,
                 on |-> {}, watching |-> FALSE, shared |-> FALSE, flushing |-> FALSE, nested |-> FALSE]
BRInit == br = CreateBridge

\* To an "echo" the host answers with a message, from its handler: one that fills
\* the queue is read at once, before the rest of the batch.  nested is history.
RECURSIVE SendMessage(_, _)
Handle(s, h, m) ==
  LET n == [s EXCEPT !.received[h] = Append(@, m.n)]
  IN CASE h # "host" -> n
       [] h = "host" /\ m.kind = "start" -> [n EXCEPT !.watching = TRUE]
       [] h = "host" /\ m.kind = "stop" -> [n EXCEPT !.watching = FALSE]
       [] h = "host" /\ m.kind \in Calls -> [n EXCEPT !.held = @ \cup {m.kind}]
       [] h = "host" /\ m.kind = "echo" -> SendMessage(n, "plain")
       [] OTHER -> n
Read(s, m) == FoldLeft(LAMBDA t, h : IF h \in t.handlers THEN Handle(t, h, m) ELSE t, s, <<"host", "logger">>)
ReadBatch(s, batch) ==
  [FoldLeft(Read, [s EXCEPT !.queue = <<>>, !.flushing = TRUE, !.nested = @ \/ s.flushing], batch)
     EXCEPT !.flushing = s.flushing]
\* Broken variant: the batch is taken from its end.
FlushMessagesBackwards(s) == ReadBatch(s, Reverse(s.queue))
FlushMessages(s) == ReadBatch(s, s.queue)
SendMessage(s, kind) ==
  IF s.destroyed THEN s
  ELSE LET n == [s EXCEPT !.queue = Append(@, [n |-> s.next, kind |-> kind]), !.next = @ + 1]
       IN IF Len(n.queue) >= MaxBatchSize THEN FlushMessages(n) ELSE n
\* settled: "resolved" or "rejected", by a module of the page, at once.
CallNative(s, c, settled) ==
  CASE s.destroyed -> [s EXCEPT !.call[c] = "rejected"]
    [] ~s.destroyed /\ s.module -> [s EXCEPT !.call[c] = settled]
    [] OTHER -> SendMessage([s EXCEPT !.call[c] = "pending"], c)
\* late: calls that were answered when they were no longer pending.
Settle(s, c, outcome) == IF s.call[c] = "pending" THEN [s EXCEPT !.call[c] = outcome] ELSE [s EXCEPT !.late = @ \cup {c}]
ResolveCall(s, c) == Settle(s, c, "resolved")
RejectCall(s, c) == Settle(s, c, "rejected")
\* Broken variant: the promise is forgotten.
CallTimesOutSilently(s, c) == [s EXCEPT !.late = @ \cup {c}]
CallTimesOut(s, c) == [s EXCEPT !.call[c] = "rejected"]
WatchPosition(s, w) == [SendMessage(s, "start") EXCEPT !.on = @ \cup {w}]
StopWatching(s, w) == SendMessage([s EXCEPT !.on = @ \ {w}, !.shared = @ \/ s.on # {w}], "stop")
Destroy(s) ==
  [s EXCEPT !.destroyed = TRUE, !.queue = <<>>, !.handlers = {}, !.module = FALSE, !.on = {},
            !.call = [c \in Calls |-> IF s.call[c] = "pending" THEN "rejected" ELSE s.call[c]]]

BRNext ==
  \/ br.next <= MaxMessages /\ \/ \E k \in {"plain", "echo"} : br' = SendMessage(br, k)
                               \/ \E w \in Watchers : \/ w \notin br.on /\ ~br.destroyed /\ br' = WatchPosition(br, w)
                                                      \/ w \in br.on /\ br' = StopWatching(br, w)
                               \/ \E c \in Calls, o \in {"resolved", "rejected"} : br.call[c] = "none" /\ br' = CallNative(br, c, o)
  \/ br.queue # <<>> /\ br' = FlushMessages(br)
  \/ br.handlers # {} /\ br' = [br EXCEPT !.handlers = IF @ = Handlers THEN {"host"} ELSE Handlers]
  \/ ~br.destroyed /\ br' = Destroy(br)
  \/ ~br.destroyed /\ ~br.module /\ br' = [br EXCEPT !.module = TRUE]
  \/ \E c \in Calls : \/ c \in br.held \ br.late /\ (br' = ResolveCall(br, c) \/ br' = RejectCall(br, c))
                      \/ br.call[c] = "pending" /\ br' = CallTimesOut(br, c)
\* Timers fire.
BRFairness == /\ WF_br(br.queue # <<>> /\ br' = FlushMessages(br))
              /\ \A c \in Calls : WF_br(br.call[c] = "pending" /\ br' = CallTimesOut(br, c))

----------------------------------------------------------------------------
(* navigation/: the stack, the tabs and the drawer of one screen set.        *)
First == CHOOSE x \in Screens : TRUE
NVInit == nv = [routes |-> <<First>>, index |-> 0, activeTab |-> First, drawerOpen |-> FALSE, currentScreen |-> First]
Push(screen) == nv' = [nv EXCEPT !.routes = Append(SubSeq(@, 1, nv.index + 1), screen), !.index = @ + 1]
\* Broken variant: the route popped stays.
PopKeeping == nv' = IF nv.index > 0 THEN [nv EXCEPT !.index = @ - 1] ELSE nv
Pop == nv' = IF nv.index > 0 THEN [nv EXCEPT !.index = @ - 1, !.routes = SubSeq(@, 1, nv.index)] ELSE nv
ReplaceRoute(screen) == nv' = [nv EXCEPT !.routes = Append(SubSeq(@, 1, nv.index), screen)]
ResetStack(screen) == nv' = [nv EXCEPT !.routes = <<screen>>, !.index = 0]
SwitchTab(name) == nv' = [nv EXCEPT !.activeTab = name]
ToggleDrawer == nv' = [nv EXCEPT !.drawerOpen = ~@]
SetDrawer(open) == nv' = [nv EXCEPT !.drawerOpen = open]
NavigateDrawer(screen) == nv' = [nv EXCEPT !.currentScreen = screen, !.drawerOpen = FALSE]
NVNext == \/ \E x \in Screens : \/ Len(nv.routes) < MaxRoutes /\ Push(x)
                                \/ ReplaceRoute(x) \/ ResetStack(x) \/ SwitchTab(x) \/ NavigateDrawer(x)
          \/ Pop \/ ToggleDrawer \/ \E o \in BOOLEAN : SetDrawer(o)

----------------------------------------------------------------------------
(* build.ts, createOTAManager.  A version is its patch number, -1 for none;  *)
(* each operation acts after a delay.  ran: the versions that have run.      *)
None == -1
OTInit == ot = [current |-> 0, previous |-> None, applying |-> {}, rolling |-> FALSE, offered |-> None, ran |-> {0}, again |-> FALSE]
CheckForUpdate == ot' = [ot EXCEPT !.offered = ot.current + 1]
\* A bundle whose path names no version is one patch on from what runs then.
StartApply(v) == v \notin ot.applying /\ ot' = [ot EXCEPT !.applying = @ \cup {v}]
ApplyUpdate(v) ==
  LET new == IF v = None THEN ot.current + 1 ELSE v
  IN /\ v \in ot.applying /\ new <= MaxPatch
     /\ ot' = [ot EXCEPT !.applying = @ \ {v}, !.previous = ot.current, !.current = new, !.ran = @ \cup {new},
                         !.again = new = ot.current]
StartRollback == ~ot.rolling /\ ot' = [ot EXCEPT !.rolling = TRUE]
Rollback == /\ ot.rolling
            /\ ot' = IF ot.previous = None THEN [ot EXCEPT !.rolling = FALSE]
                     ELSE [ot EXCEPT !.rolling = FALSE, !.current = ot.previous, !.previous = None, !.again = FALSE]
OTNext == CheckForUpdate \/ StartRollback \/ Rollback \/ \E v \in {None} \cup 1 .. MaxPatch : StartApply(v) \/ ApplyUpdate(v)

----------------------------------------------------------------------------
(* renderer.ts.  A node is [type, prop, children]; texts and null are nodes  *)
(* without children.  A patch is [type, path, element, prop].                *)
Node(type, prop, children) == [type |-> type, prop |-> prop, children |-> children]
NullNode == Node("#null", "-", <<>>)
IsNativeElement(n) == n.type \notin {"#null", "#text"}
ElementAt(children, i) == IF i \in DOMAIN children /\ IsNativeElement(children[i]) THEN children[i] ELSE NullNode
PatchOf(type, path, element, prop) == [type |-> type, path |-> path, element |-> element, prop |-> prop]
Larger(a, b) == IF a > b THEN a ELSE b
RECURSIVE Diff(_, _, _)
Diff(old, new, path) ==
  CASE old = NullNode /\ new = NullNode -> <<>>
    [] old = NullNode /\ new # NullNode -> <<PatchOf("CREATE", path, new, "-")>>
    [] old # NullNode /\ new = NullNode -> <<PatchOf("DELETE", path, NullNode, "-")>>
    [] OTHER ->
         IF old.type # new.type THEN <<PatchOf("REPLACE", path, new, "-")>>
         ELSE (IF old.prop = new.prop THEN <<>> ELSE <<PatchOf("UPDATE", path, NullNode, new.prop)>>)
              \o FlattenSeq([i \in 1 .. Larger(Len(old.children), Len(new.children)) |->
                               Diff(ElementAt(old.children, i), ElementAt(new.children, i), Append(path, i))])
Padded(children, n) == [i \in 1 .. Larger(n, Len(children)) |-> IF i \in DOMAIN children THEN children[i] ELSE NullNode]
RECURSIVE ApplyPatch(_, _, _)
ApplyPatch(n, p, path) ==
  IF path = <<>> THEN CASE p.type \in {"CREATE", "REPLACE"} -> p.element [] p.type = "DELETE" -> NullNode
                        [] p.type = "UPDATE" -> IF n = NullNode THEN n ELSE [n EXCEPT !.prop = p.prop]
  ELSE IF n = NullNode THEN n
       ELSE [n EXCEPT !.children = [Padded(n.children, path[1]) EXCEPT ![path[1]] =
                                      ApplyPatch(ElementAt(n.children, path[1]), p, Tail(path))]]
Patch(tree, patches) == FoldLeft(LAMBDA t, p : ApplyPatch(t, p, p.path), tree, patches)

----------------------------------------------------------------------------
(* view-mapper.ts.  An element is [type, props (the set of their names),     *)
(* children, key], "-" for no key; texts among the children are "#text".     *)
Mapping(nativeType, childrenAllowed) == [nativeType |-> nativeType, childrenAllowed |-> childrenAllowed]
PlatformMappings ==
  [ios |-> [View |-> Mapping("UIView", TRUE), Text |-> Mapping("UILabel", TRUE), Image |-> Mapping("UIImageView", FALSE),
            ScrollView |-> Mapping("UIScrollView", TRUE), FlatList |-> Mapping("UITableView", TRUE),
            TextInput |-> Mapping("UITextField", FALSE), TouchableOpacity |-> Mapping("UIControl", TRUE),
            Button |-> Mapping("UIButton", FALSE), Modal |-> Mapping("UIViewController", TRUE),
            ActivityIndicator |-> Mapping("UIActivityIndicatorView", FALSE), Switch |-> Mapping("UISwitch", FALSE)],
   android |-> [View |-> Mapping("View", TRUE), Text |-> Mapping("TextView", TRUE), Image |-> Mapping("ImageView", FALSE),
                ScrollView |-> Mapping("ScrollView", TRUE), FlatList |-> Mapping("RecyclerView", TRUE),
                TextInput |-> Mapping("EditText", FALSE), TouchableOpacity |-> Mapping("ViewGroup", TRUE),
                Button |-> Mapping("Button", FALSE), Modal |-> Mapping("Dialog", TRUE),
                ActivityIndicator |-> Mapping("ProgressBar", FALSE), Switch |-> Mapping("Switch", FALSE)]]
Fallback == [ios |-> Mapping("UIView", TRUE), android |-> Mapping("ViewGroup", TRUE)]
\* What a prop of a component becomes besides itself.
PropTransforms ==
  [ios |-> {<<"Text", "ellipsizeMode", {"lineBreakMode"}>>, <<"Image", "uri", {"imageURL"}>>, <<"Image", "resource", {"imageResource"}>>,
            <<"ScrollView", "showsScrollIndicator", {"showsVerticalScrollIndicator", "showsHorizontalScrollIndicator"}>>},
   android |-> {<<"Text", "numberOfLines", {"maxLines"}>>, <<"Text", "ellipsizeMode", {"ellipsize"}>>, <<"Image", "uri", {"imageURI"}>>,
                <<"Image", "resource", {"imageResource"}>>, <<"ScrollView", "horizontal", {"nativeType"}>>}]
MapComponent(platform, type, props) ==
  (IF type \in DOMAIN PlatformMappings[platform] THEN PlatformMappings[platform][type] ELSE Fallback[platform])
    @@ [nativeProps |-> props \cup UNION {t[3] : t \in {x \in PropTransforms[platform] : x[1] = type /\ x[2] \in props}}]
RECURSIVE CreateNativeTree(_, _)
CreateNativeTree(platform, e) ==
  LET mapped == MapComponent(platform, e.type, e.props)
      kept   == IF mapped.childrenAllowed THEN SelectSeq(e.children, LAMBDA c : c.type # "#text") ELSE <<>>
  IN [nativeType |-> mapped.nativeType, props |-> mapped.nativeProps, key |-> e.key,
      children |-> [i \in DOMAIN kept |-> CreateNativeTree(platform, kept[i])]]

MapperPatch(type, path) == [type |-> type, path |-> path]
RECURSIVE DiffTrees(_, _, _)
\* Children match by key, the others in order; a map of keys holds the last.
DiffTrees(old, new, path) ==
  IF old.nativeType # new.nativeType THEN <<MapperPatch("REMOVE", path), MapperPatch("ADD", path)>>
  ELSE
    LET all       == DOMAIN old.children
        byKey     == {i \in all : old.children[i].key # "-" /\ \A j \in all : j > i => old.children[j].key # old.children[i].key}
        noKey     == SelectSeq([i \in all |-> i], LAMBDA i : old.children[i].key = "-")
        Nth(i)    == Cardinality({j \in 1 .. i : new.children[j].key = "-"})
        Twice(i)  == \E j \in 1 .. i - 1 : new.children[j].key = new.children[i].key
        \* The old child a new one is matched with, 0 when there is none.
        Match(i)  == IF new.children[i].key = "-" THEN IF Nth(i) <= Len(noKey) THEN noKey[Nth(i)] ELSE 0
                     ELSE LET same == {j \in byKey : old.children[j].key = new.children[i].key}
                          IN IF same = {} \/ Twice(i) THEN 0 ELSE CHOOSE j \in same : TRUE
        ChildPatches(i) ==
          IF Match(i) = 0 THEN <<MapperPatch("ADD", Append(path, i))>>
          ELSE (IF new.children[i].key # "-" /\ Match(i) # i THEN <<MapperPatch("MOVE", Append(path, i))>> ELSE <<>>)
               \o DiffTrees(old.children[Match(i)], new.children[i], Append(path, i))
        matched   == {Match(i) : i \in DOMAIN new.children}
        gone      == SelectSeq([i \in all |-> i], LAMBDA i : i \in (byKey \cup ToSet(noKey)) \ matched)
    IN (IF old.props = new.props THEN <<>> ELSE <<MapperPatch("UPDATE", path)>>)
       \o FlattenSeq([i \in DOMAIN new.children |-> ChildPatches(i)])
       \o [i \in DOMAIN gone |-> MapperPatch("REMOVE", Append(path, gone[i]))]
IncrementalUpdate(old, new) == DiffTrees(old, new, <<>>)

----------------------------------------------------------------------------
(* stylesheet.ts.  A style is a function; "fill" and "card" are registered,  *)
(* "id9" and "false" resolve to nothing.  A list is [array |-> TRUE, items]. *)
RegisterStyle == [fill |-> [top |-> 0], card |-> [top |-> 1, color |-> 1]]
ResolveStyle(s) == IF s \in DOMAIN RegisterStyle THEN RegisterStyle[s] ELSE IF s = "red" THEN [color |-> 2] ELSE <<>>
RECURSIVE Flatten(_)
Flatten(s) == IF s.array THEN FoldLeft(LAMBDA acc, item : Flatten(item) @@ acc, <<>>, s.items) ELSE ResolveStyle(s.style)

(* build.ts: the artifacts of a build and the files of a project.            *)
PlatformsOf(config) == IF config.platform = "both" THEN {"ios", "android"} ELSE {config.platform}
BundleName(platform) == IF platform = "ios" THEN "main.ios.jsbundle" ELSE "index.android.bundle"
CollectAssets == {"assets/images/icon.png", "assets/images/splash.png", "assets/fonts/Inter.ttf"}
GenerateNativeConfigs(platform) ==
  IF platform = "ios" THEN {"ios/Info.plist", "ios/Podfile"} ELSE {"android/app/build.gradle", "android/app/src/main/AndroidManifest.xml"}
CreateNativeBuildConfig(options) == ~options.blank /\ options.platform \in {"ios", "android", "both"}
BuildForPlatform(config) ==
  UNION {{<<"bundle", BundleName(p), p>>}
         \cup (IF config.sourcemap THEN {<<"bundle.map", BundleName(p), p>>} ELSE {})
         \cup ({"asset"} \X CollectAssets \X {p}) \cup ({"config"} \X GenerateNativeConfigs(p) \X {p}) : p \in PlatformsOf(config)}
GenerateNativeProject(platform) ==
  IF platform = "ios" THEN <<"ios/Info.plist", "ios/Podfile">>
  ELSE <<"android/app/build.gradle", "android/app/src/main/AndroidManifest.xml">>

----------------------------------------------------------------------------
Leaves == {Node("View", "-", <<>>), Node("View", "1", <<>>), Node("Text", "-", <<Node("#text", "a", <<>>)>>),
           Node("#text", "a", <<>>), Node("#text", "b", <<>>), NullNode}
ChildLists(S) == {<<>>} \cup {<<a>> : a \in S} \cup {<<a, b>> : a \in S, b \in S}
Trees == {NullNode, Node("Text", "-", <<>>)} \cup {Node("View", p, c) : p \in {"-", "1"}, c \in ChildLists(Leaves)}
DiffInputs == {[ask |-> "diff", old |-> a, new |-> b] : a \in Trees, b \in Trees}
Keyed == {[nativeType |-> t, props |-> p, key |-> k, children |-> <<>>] : t \in {"UIView", "UILabel"}, p \in {{}, {"x"}}, k \in {"-", "k", "m"}}
MapperInputs == {[ask |-> "mapper", old |-> [nativeType |-> "UIView", props |-> {}, key |-> "-", children |-> a],
                  new |-> [nativeType |-> "UIView", props |-> {}, key |-> "-", children |-> b]] :
                   a \in ChildLists(Keyed), b \in {<<x, y>> \in Keyed \X Keyed : x.props = {}} \cup {<<>>}}
Components == DOMAIN PlatformMappings.ios \cup {"Custom"}
MapInputs == {[ask |-> "map", element |->
                 [type |-> t, props |-> p, key |-> "-",
                  children |-> <<[type |-> u, props |-> {}, key |-> "k", children |-> <<>>], [type |-> "#text", props |-> {}, key |-> "-", children |-> <<>>]>>]] :
                t \in Components, u \in Components,
                p \in SUBSET {"numberOfLines", "ellipsizeMode", "uri", "showsScrollIndicator", "horizontal"}}
Styled == {[array |-> FALSE, style |-> s] : s \in {"fill", "card", "red", "id9", "false"}}
StyleInputs == {[ask |-> "style", parts |-> <<a, b, c>>] : a \in Styled, b \in Styled, c \in Styled}
BuildInputs == {[ask |-> "build", platform |-> p, sourcemap |-> m, blank |-> b] : p \in {"ios", "android", "both"}, m \in BOOLEAN, b \in BOOLEAN}
NQInit == \/ nq \in DiffInputs \/ nq \in MapperInputs \/ nq \in MapInputs \/ nq \in StyleInputs \/ nq \in BuildInputs

----------------------------------------------------------------------------
(* Properties                                                                *)
NativeTypes ==
  /\ \A i \in DOMAIN br.queue : br.queue[i].kind \in MessageKinds
  /\ DOMAIN br.call = Calls /\ br.handlers \subseteq Handlers /\ br.on \subseteq Watchers /\ br.watching \in BOOLEAN
  /\ nv.index + 1 = Len(nv.routes) /\ ToSet(nv.routes) \cup {nv.activeTab, nv.currentScreen} \subseteq Screens
  /\ ot.current \in 0 .. MaxPatch /\ ot.previous \in None .. MaxPatch

\* No handler reads a message twice, and each reads them in the order they were
\* sent unless one sent in answer was read inside another batch (bridge.ts:130,
\* 156); a destroyed bridge keeps nobody waiting; while a watcher is on and nothing
\* is queued, the host sends positions, unless one of two watchers was stopped
\* (location.ts:73).
BridgeSound ==
  /\ \A h \in Handlers : LET r == br.received[h]
                         IN IsInjective(r) /\ (~br.nested => \A i \in 1 .. Len(r) - 1 : r[i] < r[i + 1])
  /\ br.destroyed => \A c \in Calls : br.call[c] # "pending"
  /\ br.on # {} /\ br.queue = <<>> /\ ~br.shared => br.watching
\* A call of the host is answered, or times out.
CallSettles == \A c \in Calls : (br.call[c] = "pending") ~> (br.call[c] \in {"resolved", "rejected"})
\* A rollback goes to a version that has run, and leaves the version it was
\* asked to leave unless that one was applied over itself.
RollbackLeaves == ot.previous # None => ot.previous \in ot.ran /\ (ot.previous = ot.current => ot.again)

\* Patching the old tree with the difference gives the elements of the new one,
\* but no text (renderer.ts:169); equal trees differ in nothing.  The view
\* mapper adds and removes as many children as the trees differ by when the
\* keys of the old one are distinct.  The platforms keep the same children.
RECURSIVE WithoutTexts(_)
WithoutTexts(n) ==
  IF ~IsNativeElement(n) THEN NullNode
  ELSE LET last == SelectLastInSeq(n.children, IsNativeElement)
       IN [n EXCEPT !.children = [i \in 1 .. last |-> WithoutTexts(n.children[i])]]
RECURSIVE Shape(_)
Shape(t) == [i \in DOMAIN t.children |-> Shape(t.children[i])]
CountOf(patches, type) == Cardinality({i \in DOMAIN patches : patches[i].type = type /\ Len(patches[i].path) = 1})
TreesAgree ==
  /\ nq.ask = "diff" =>
       /\ WithoutTexts(Patch(nq.old, Diff(nq.old, nq.new, <<>>))) = WithoutTexts(nq.new)
       /\ nq.old = nq.new => Diff(nq.old, nq.new, <<>>) = <<>>
  /\ nq.ask = "mapper" =>
       LET patches == IncrementalUpdate(nq.old, nq.new)
           keys(c) == {i \in DOMAIN c : c[i].key # "-"}
           distinct(c) == \A i, j \in keys(c) : i # j => c[i].key # c[j].key
       IN /\ distinct(nq.old.children) =>
               Len(nq.old.children) + CountOf(patches, "ADD") = Len(nq.new.children) + CountOf(patches, "REMOVE")
          /\ nq.old = nq.new /\ distinct(nq.old.children) => patches = <<>>
  /\ nq.ask = "map" => Shape(CreateNativeTree("ios", nq.element)) = Shape(CreateNativeTree("android", nq.element))
\* Nesting the lists of styles otherwise gives the same style; the project has
\* the files that the build lists.
BuildsAgree ==
  /\ nq.ask = "style" =>
       LET List(items) == [array |-> TRUE, items |-> items]
           p == nq.parts
       IN Flatten(List(<<p[1], List(<<p[2], p[3]>>)>>)) = Flatten(List(<<List(<<p[1], p[2]>>), p[3]>>))
  /\ nq.ask = "build" /\ CreateNativeBuildConfig(nq) =>
       \A p \in PlatformsOf(nq) :
         {a[2] : a \in {x \in BuildForPlatform(nq) : x[1] = "config" /\ x[3] = p}} = ToSet(GenerateNativeProject(p))
=============================================================================
