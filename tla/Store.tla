------------------------------- MODULE Store -------------------------------
(* packages/vais-web/packages/store and runtime: a store with its plugins    *)
(* (st), server-rendered requests over the store registry (sx), and the      *)
(* signals, computed values and effects of the runtime with its microtask    *)
(* queue (rx).                                                               *)
EXTENDS Integers, Sequences, FiniteSets, SequencesExt

CONSTANTS Components,  \* subscribers of the store
          Throwers,    \* those whose callback throws
          Assigned,    \* values that are assigned; 0 is the initial one
          Requests     \* server-side renders

\* A request is named by the user it is for; 0 is none.
ASSUME StoreAssumption == /\ "persist" \notin Components /\ Throwers \subseteq Components
                          /\ Assigned \subseteq Nat /\ Requests \subseteq Nat \ {0}

VARIABLES st, sx, rx
storeVars == <<st, sx, rx>>

----------------------------------------------------------------------------
(* The store: id "s" with two initial properties, and one that a patch or an *)
(* assignment adds.  persist() saves Paths; its subscriber is the first of   *)
(* an instance.                                                              *)
Absent == -1   \* undefined
Keys == {"saved", "other", "added"}
Paths == {"saved", "added"}
Fresh == [k \in Keys |-> IF k = "added" THEN Absent ELSE 0]
Nothing == [k \in Keys |-> Absent]
Instances == {1, 2}
NoStore == [vals |-> Nothing, batching |-> FALSE, subs |-> <<>>]

STInit == st = [inst |-> [i \in Instances |-> NoStore], registry |-> 0, storage |-> Nothing,
                pendingHydration |-> Nothing, devtools |-> 0,
                seen |-> [c \in Components |-> Nothing], of |-> [c \in Components |-> 0]]

Merge(vals, partial) == [k \in Keys |-> IF partial[k] = Absent THEN vals[k] ELSE partial[k]]
Only(k, v) == [Nothing EXCEPT ![k] = v]
PathsOf(vals) == [k \in Keys |-> IF k \in Paths THEN vals[k] ELSE Absent]

\* The callbacks of a notification that are called: a throw ends the loop.
Called(subs) ==
  LET bad == {j \in 1 .. Len(subs) : subs[j] \in Throwers}
  IN IF bad = {} THEN ToSet(subs) ELSE {subs[j] : j \in 1 .. CHOOSE j \in bad : \A o \in bad : j <= o}

NotifySubscribers(s, i) ==
  LET called == Called(s.inst[i].subs) vals == s.inst[i].vals
  IN [s EXCEPT !.seen = [c \in Components |-> IF c \in called THEN vals ELSE s.seen[c]],
               !.storage = IF "persist" \in called THEN PathsOf(vals) ELSE @]

Patch(s, i, partial) ==
  NotifySubscribers([s EXCEPT !.inst[i].vals = Merge(@, partial),
                              !.inst[i].batching = FALSE], i)

\* A patch function that throws after its assignment: nothing clears the flag.
PatchThrows(s, i, partial) ==
  [s EXCEPT !.inst[i].vals = Merge(@, partial), !.inst[i].batching = TRUE]

\* Broken variant: nobody is told of the reset.
ResetSilently(s, i) == [s EXCEPT !.inst[i].vals = Fresh, !.inst[i].batching = FALSE]
ResetStore(s, i) ==
  NotifySubscribers([s EXCEPT !.inst[i].vals = Fresh, !.inst[i].batching = FALSE], i)

\* A property assigned on the proxy.  The signal of a new one is made with the value, so
\* nothing has changed when it is compared: nobody is told.
Assign(s, i, k, v) ==
  LET s1 == [s EXCEPT !.inst[i].vals[k] = v]
  IN IF s.inst[i].batching \/ s.inst[i].vals[k] \in {v, Absent} THEN s1
     ELSE NotifySubscribers(s1, i)

\* The plugins of a new store, in the order they are installed.
SsrHydrationPlugin(s, i) ==
  IF s.pendingHydration = Nothing THEN s
  ELSE Patch([s EXCEPT !.pendingHydration = Nothing], i, s.pendingHydration)
Persist(s, i) ==
  LET s1 == IF s.storage = Nothing THEN s ELSE Patch(s, i, s.storage)
  IN [s1 EXCEPT !.inst[i].subs = Append(@, "persist")]
Devtools(s, i) == [s EXCEPT !.devtools = i]

FreeInstance(s) == {i \in Instances : s.inst[i].vals = Nothing}
UseStore(s) ==
  IF s.registry # 0 THEN s
  ELSE LET i == CHOOSE i \in FreeInstance(s) : TRUE
           s1 == [s EXCEPT !.inst[i] = [NoStore EXCEPT !.vals = Fresh], !.registry = i]
       IN Devtools(Persist(SsrHydrationPlugin(s1, i), i), i)

\* A component that uses the store, until it is destroyed.
Mount(c) ==
  /\ st.of[c] = 0 /\ (st.registry = 0 => FreeInstance(st) # {})
  /\ LET s1 == UseStore(st)
     IN st' = [s1 EXCEPT !.of[c] = s1.registry, !.seen[c] = Nothing,
                         !.inst[s1.registry].subs = Append(@, c)]
Destroy(c) ==
  /\ st.of[c] # 0
  /\ st' = [st EXCEPT !.of[c] = 0, !.seen[c] = Nothing,
                      !.inst[st.of[c]].subs = RemoveFirst(@, c)]
ResetAllStores == /\ st.registry # 0
                  /\ st' = [st EXCEPT !.registry = 0]
\* The page is loaded again, with or without a state rendered by the server.
Reload(state) ==
  /\ st.registry # 0
  /\ st' = [st EXCEPT !.inst = [i \in Instances |-> NoStore], !.registry = 0, !.devtools = 0,
                      !.seen = [c \in Components |-> Nothing], !.of = [c \in Components |-> 0],
                      !.pendingHydration = state]

STNext ==
  \/ \E c \in Components : Mount(c) \/ Destroy(c)
  \/ \E i \in Instances, v \in Assigned : /\ st.inst[i].vals # Nothing
       /\ \/ \E k \in Keys : st' = Assign(st, i, k, v)
          \/ \E k \in Keys : st' = Patch(st, i, Only(k, v))
          \/ st' = PatchThrows(st, i, Only("saved", v))
          \/ st' = ResetStore(st, i)
  \/ ResetAllStores \/ Reload(Nothing) \/ Reload(Only("other", 1))

----------------------------------------------------------------------------
(* Server-side renders: each looks the store up, writes its user into it,    *)
(* awaits its data and looks the store up again to render.                   *)
SXInit == sx = [registry |-> 0, user |-> [r \in Requests |-> 0], pc |-> [r \in Requests |-> "start"],
                rendered |-> [r \in Requests |-> 0], overtaken |-> {}]

Rendering == {r \in Requests : sx.pc[r] = "await"}
RunWithContext(r) ==
  /\ sx.pc[r] = "start"
  /\ sx' = [sx EXCEPT !.registry = r, !.user[r] = r, !.pc[r] = "await",
                      !.overtaken = @ \cup Rendering]
SerializeStores(r) ==
  /\ sx.pc[r] = "await"
  /\ sx' = [sx EXCEPT !.pc[r] = "done", !.rendered[r] = sx.user[sx.registry]]
SXNext == \E r \in Requests : RunWithContext(r) \/ SerializeStores(r)

----------------------------------------------------------------------------
(* Signals a and b, a computed sum of both, an effect that shows the sum and *)
(* reads b only while a is 1, and one that throws while b is 1.              *)
Sources == {"a", "b"}
Effects == {"show", "bad"}
Reads(s, n) == CASE n = "sum" -> {"a", "b"}
                 [] n = "show" -> IF s.val["a"] = 1 THEN {"sum", "a", "b"} ELSE {"sum", "a"}
                 [] n = "bad" -> {"b"}
Wanted(s, n) == [x \in Reads(s, n) |-> s.val[x]]
RXInit == rx = [val |-> [x \in Sources \cup {"sum"} |-> 0], queue |-> <<>>, dropped |-> {},
                subs |-> [a |-> <<"sum", "show">>, b |-> <<"sum", "bad">>, sum |-> <<"show">>],
                seen |-> [show |-> [x \in {"sum", "a"} |-> 0], bad |-> [x \in {"b"} |-> 0]]]

Schedule(queue, n) == IF Contains(queue, n) THEN queue ELSE Append(queue, n)
\* The subscribers of a signal, scheduled one after the other.
ScheduleAll(queue, subs) ==
  LET put[k \in 0 .. Len(subs)] == IF k = 0 THEN queue ELSE Schedule(put[k - 1], subs[k])
  IN put[Len(subs)]
SetSignal(s, x, v) ==
  IF s.val[x] = v THEN s
  ELSE [s EXCEPT !.val[x] = v, !.queue = ScheduleAll(@, s.subs[x])]
Track(s, n) == [s EXCEPT !.subs = [x \in DOMAIN s.subs |->
                  IF x \in Reads(s, n) /\ ~Contains(s.subs[x], n) THEN Append(s.subs[x], n)
                  ELSE s.subs[x]]]
RunSubscriber(s, n) ==
  IF s.failing THEN [s EXCEPT !.dropped = @ \cup {n}]
  ELSE IF n = "sum" THEN SetSignal([Track(s, n) EXCEPT !.dropped = @ \ {n}], n, s.val["a"] + s.val["b"])
  ELSE IF n = "bad" /\ s.val["b"] = 1 THEN [Track(s, n) EXCEPT !.failing = TRUE]
  ELSE [Track(s, n) EXCEPT !.seen[n] = Wanted(s, n), !.dropped = @ \ {n}]

\* The queue is emptied first: what a subscriber schedules runs next time.  One
\* that throws ends the batch; "dropped" is history: who did not run for it and
\* has not run since.
Flush(s) ==
  LET start == [val |-> s.val, queue |-> <<>>, dropped |-> s.dropped, subs |-> s.subs,
                seen |-> s.seen, failing |-> FALSE]
      ran[k \in 0 .. Len(s.queue)] == IF k = 0 THEN start ELSE RunSubscriber(ran[k - 1], s.queue[k])
      end == ran[Len(s.queue)]
  IN [val |-> end.val, queue |-> end.queue, dropped |-> end.dropped, subs |-> end.subs, seen |-> end.seen]

RXNext == \/ \E x \in Sources, v \in {0, 1} : rx' = SetSignal(rx, x, v)
          \/ rx.queue # <<>> /\ rx' = Flush(rx)

----------------------------------------------------------------------------
StoreTypes ==
  /\ st.registry \in Instances \cup {0} /\ st.devtools \in Instances \cup {0}
  /\ \A i \in Instances : ToSet(st.inst[i].subs) \subseteq Components \cup {"persist"}
  /\ \A r \in Requests : sx.pc[r] \in {"start", "await", "done"}
  /\ ToSet(rx.queue) \subseteq Effects \cup {"sum"}

\* A copy of the state that is not behind it, but for a property added since.
UpTo(copy, vals) == \A k \in Keys : copy[k] = vals[k] \/ (k = "added" /\ copy[k] = Absent)

\* A subscriber that was called at all holds the state the store has now, and so does the
\* local storage, but for a property that an assignment added and nobody was told of
\* (store.ts:98). Two things cut a subscriber off: a callback before it in the set that
\* throws, and a patch function that threw, until the next $patch or $reset clears the
\* batching flag it left (store.ts:207).
SubscribersCurrent ==
  \A i \in Instances : ~st.inst[i].batching =>
    /\ \A c \in Called(st.inst[i].subs) \ {"persist"} :
         st.seen[c] = Nothing \/ UpTo(st.seen[c], st.inst[i].vals)
    /\ i = st.registry /\ (\A o \in Instances \ {i} : st.inst[o].vals = Nothing)
         => st.storage = Nothing \/ UpTo(st.storage, PathsOf(st.inst[i].vals))

\* A request renders its own user, unless another one began while it awaited its data
\* (ssr.ts:160): that one has reset the registry for both.
RequestIsolated == \A r \in Requests \ sx.overtaken : sx.rendered[r] \in {0, r}

\* Once the microtasks have run, the computed value and everything the effect
\* shows agree with the signals, but for those that stood behind a subscriber
\* that threw in its batch and have not run since (scheduler.ts:26): nobody
\* schedules them again until a signal they read changes.
EffectsSettle ==
  rx.queue = <<>> => /\ "sum" \in rx.dropped \/ rx.val["sum"] = rx.val["a"] + rx.val["b"]
                     /\ "show" \in rx.dropped \/ rx.seen["show"] = Wanted(rx, "show")
=============================================================================
