---------------------------- MODULE QueryClient ----------------------------
(* packages/vais-web/packages/query: QueryClient (client.ts) and the queries *)
(* that observe it (query.ts), for one query key.                            *)
(*                                                                           *)
(* A step is one macrotask of the JavaScript event loop with the microtasks  *)
(* it starts, so a handler runs to completion; what interleaves is what the  *)
(* code awaits: the answer of the server, the retry delay and the gc timer.  *)
(* Data is the server's version number.  An entry of the cache is an object  *)
(* with an identity: subscribers and timers keep hold of it after it left    *)
(* the cache.  "cleared", "lost" and "overtaken" are history: clear() was    *)
(* called; the key was deleted by somebody who had nothing to do with the    *)
(* entry there; a manual write came while the fetch was under way.           *)
EXTENDS Naturals, FiniteSets

CONSTANTS Queries,     \* query objects; each is created at most once
          Enabled,     \* those whose options.enabled is not false
          MaxVersion,  \* bound: versions the server goes through
          Retry,       \* options.retry
          Caches,      \* staleTime > 0: data is fresh until its age passes it
          CollectsNow, \* gcTime = 0: the entry goes with its last observer
          MayClear,    \* whether the application calls clear()
          Again        \* bound: how often a query is disposed of once more

VARIABLES qc,          \* the client and the query objects
          qcServer     \* the version the server would answer with

qcVars == <<qc, qcServer>>

\* What the theorems ask of the constants.
QueryAssumption ==
  /\ IsFiniteSet(Queries) /\ MaxVersion \in Nat \ {0} /\ {Retry, Again} \subseteq Nat
  /\ {Caches, CollectsNow, MayClear} \subseteq BOOLEAN

Slots == 1 .. (Cardinality(Queries) + 2)
FetchStates == {"none", "asked", "answered", "waiting"}
Statuses == {"idle", "loading", "success", "error"}

NoEntry == [data |-> 0, fresh |-> FALSE, err |-> FALSE, obs |-> {}, timer |-> FALSE]
NoFetch == [st |-> "none", got |-> 0, attempt |-> 0, waiters |-> {}, overtaken |-> FALSE]
NoQuery == [life |-> "none", entry |-> 0, data |-> 0,
            error |-> FALSE, status |-> "idle", isFetching |-> FALSE]

QCInit ==
  /\ qc = [entries |-> [e \in Slots |-> NoEntry], cached |-> 0,
           fetches |-> [f \in Slots |-> NoFetch], inflight |-> 0,
           q |-> [i \in Queries |-> NoQuery], cleared |-> FALSE,
           orphans |-> 0, again |-> 0, lost |-> FALSE]
  /\ qcServer = 1

----------------------------------------------------------------------------
(* The synchronous parts of the client: operators from state to state.       *)

FreeFetch(s) == CHOOSE f \in Slots : s.fetches[f].st = "none"

\* An entry that no one reads any more: not the cache, and no observer.  A query
\* disposed of that still holds it can only start timers, and so can entry 0.
Unreachable(s, e) == e # s.cached /\ s.entries[e].obs = {}
FreeEntry(s) == CHOOSE e \in Slots : Unreachable(s, e)
Forget(s) ==
  LET gone == {e \in Slots : Unreachable(s, e)}
  IN [s EXCEPT !.entries = [e \in Slots |-> IF e \in gone THEN NoEntry ELSE s.entries[e]],
               !.q = [i \in Queries |-> IF s.q[i].entry \in gone
                                         THEN [s.q[i] EXCEPT !.entry = 0] ELSE s.q[i]]]

\* The key is deleted, by the timer or the last observer of entry e.  A timer
\* whose entry leaves the cache goes on, and nothing can cancel it any more.
Collected(s, e) ==
  Forget([s EXCEPT !.cached = 0,
                   !.orphans = @ + IF s.cached # 0 /\ s.entries[s.cached].timer THEN 1 ELSE 0,
                   !.lost = @ \/ s.cached \notin {0, e}])

IsStale(s) == s.cached # 0 => s.entries[s.cached].data = 0 \/ ~s.entries[s.cached].fresh

GetOrCreateEntry(s) ==
  IF s.cached # 0 THEN s
  ELSE LET e == FreeEntry(s)
       IN [s EXCEPT !.cached = e, !.entries[e] = NoEntry]

\* Broken variant: a second caller starts a fetch of its own.
FetchQueryAlone(s, callers) ==
  IF \A f \in Slots : s.fetches[f].st # "none"
  THEN [s EXCEPT !.fetches[s.inflight].waiters = @ \cup callers]
  ELSE LET f == FreeFetch(s)
       IN [s EXCEPT !.inflight = f,
                    !.fetches[f] = [NoFetch EXCEPT !.st = "asked", !.waiters = callers]]
\* A second caller joins the promise in flight; otherwise queryFn is called.
FetchQuery(s, callers) ==
  IF s.inflight # 0
  THEN [s EXCEPT !.fetches[s.inflight].waiters = @ \cup callers]
  ELSE LET f == FreeFetch(s)
       IN [s EXCEPT !.inflight = f,
                    !.fetches[f] = [NoFetch EXCEPT !.st = "asked", !.waiters = callers]]

\* executeFetch of each of the queries "is" that is not already fetching.
ExecuteFetch(s, is) ==
  LET go == {i \in is : ~s.q[i].isFetching}
      started(r) == [r EXCEPT !.isFetching = TRUE,
                              !.status = IF @ \in {"idle", "error"} THEN "loading" ELSE @]
      s1 == [s EXCEPT !.q = [i \in Queries |-> IF i \in go THEN started(s.q[i]) ELSE s.q[i]]]
  IN IF go = {} THEN s ELSE FetchQuery(s1, go)

\* What a query shows after reading the entry that is in the cache now.
SyncFromCache(s, r) ==
  IF s.cached = 0 THEN r
  ELSE LET c == s.entries[s.cached]
       IN IF c.data # 0 THEN [r EXCEPT !.data = c.data, !.error = FALSE, !.status = "success"]
          ELSE IF c.err THEN [r EXCEPT !.error = TRUE, !.status = "error"]
          ELSE r

\* Every observer of entry e syncs and, when the data is stale, fetches.
NotifyObservers(s, e) ==
  LET obs == s.entries[e].obs
      s1 == [s EXCEPT !.q = [i \in Queries |->
                               IF i \in obs THEN SyncFromCache(s, s.q[i]) ELSE s.q[i]]]
  IN IF IsStale(s1) THEN ExecuteFetch(s1, obs \cap Enabled) ELSE s1

\* An existing entry tells its observers; a new one has none.
SetQueryData(s, v) ==
  LET s1 == GetOrCreateEntry(s)
      s2 == [s1 EXCEPT !.entries[s1.cached].data = v,
                       !.entries[s1.cached].fresh = Caches,
                       !.entries[s1.cached].err = FALSE]
  IN IF s.cached # 0 THEN NotifyObservers(s2, s2.cached) ELSE s2

\* The promise of fetch f settles: its waiters continue, and the key leaves
\* the in-flight map whatever promise is there by now.
Shown(r, ok, v) ==
  IF ok THEN [r EXCEPT !.data = v, !.error = FALSE, !.status = "success", !.isFetching = FALSE]
  ELSE [r EXCEPT !.error = TRUE, !.status = "error", !.isFetching = FALSE]
Settle(s, f, ok, v) ==
  [s EXCEPT !.inflight = 0,
            !.fetches[f] = NoFetch,
            !.q = [i \in Queries |-> IF i \in s.fetches[f].waiters THEN Shown(s.q[i], ok, v) ELSE s.q[i]]]

\* History: a manual write (until clear) overtakes the fetches under way.
Overtake(s, yes) ==
  [s EXCEPT !.fetches = [f \in Slots |-> [s.fetches[f] EXCEPT
                           !.overtaken = s.fetches[f].st # "none" /\ yes]]]

----------------------------------------------------------------------------
(* The application                                                           *)

\* Broken variant: the timer of the entry goes on.
CreateQueryKeepingTimer(i) ==
  /\ qc.q[i].life = "none"
  /\ LET s1 == GetOrCreateEntry(qc)
         e == s1.cached
         s2 == [s1 EXCEPT !.entries[e].obs = @ \cup {i},
                          !.q[i] = [NoQuery EXCEPT !.life = "live", !.entry = e]]
     IN qc' = IF i \notin Enabled THEN s2
              ELSE IF IsStale(s2) THEN ExecuteFetch(s2, {i})
              ELSE [s2 EXCEPT !.q[i] = SyncFromCache(s2, @)]
  /\ UNCHANGED qcServer

\* createQuery: subscribing cancels the gc timer; then sync or fetch.
CreateQuery(i) ==
  /\ qc.q[i].life = "none"
  /\ LET s1 == GetOrCreateEntry(qc)
         e == s1.cached
         s2 == [s1 EXCEPT !.entries[e].timer = FALSE,
                          !.entries[e].obs = @ \cup {i},
                          !.q[i] = [NoQuery EXCEPT !.life = "live", !.entry = e]]
     IN qc' = IF i \notin Enabled THEN s2
              ELSE IF IsStale(s2) THEN ExecuteFetch(s2, {i})
              ELSE [s2 EXCEPT !.q[i] = SyncFromCache(s2, @)]
  /\ UNCHANGED qcServer

\* unsubscribe, once the observer is gone: the timer deletes by key, and its handle
\* takes the place of the one that is there (client.ts:231).
Unobserved(s, e) ==
  IF e # 0 /\ s.entries[e].obs # {} THEN s
  ELSE IF CollectsNow THEN Collected(s, e)
  ELSE IF e # 0 /\ e = s.cached
       THEN [s EXCEPT !.orphans = @ + IF s.entries[e].timer THEN 1 ELSE 0,
                      !.entries[e].timer = TRUE]
  ELSE Forget([s EXCEPT !.orphans = @ + 1])

\* dispose, which nothing keeps from being called again (query.ts:164).  What the
\* object showed, and a fetch it waits for, concern nobody any more.
Dispose(i) ==
  /\ \/ qc.q[i].life = "live"
     \/ qc.q[i].life = "disposed" /\ qc.again < Again
  /\ LET e == qc.q[i].entry
         s1 == [qc EXCEPT !.again = IF qc.q[i].life = "live" THEN @ ELSE @ + 1,
                          !.q[i] = [NoQuery EXCEPT !.life = "disposed", !.entry = e],
                          !.entries = [d \in Slots |-> [qc.entries[d] EXCEPT !.obs = @ \ {i}]],
                          !.fetches = [f \in Slots |-> [qc.fetches[f] EXCEPT !.waiters = @ \ {i}]]]
     IN qc' = Unobserved(s1, e)
  /\ UNCHANGED qcServer

GcTimerFires ==
  /\ qc.cached # 0 /\ qc.entries[qc.cached].timer
  /\ qc' = Collected([qc EXCEPT !.entries[qc.cached].timer = FALSE], qc.cached)
  /\ UNCHANGED qcServer

\* A timer whose handle is lost, or whose entry is: it deletes what is there now.
OrphanFires ==
  /\ qc.orphans > 0
  /\ qc' = Collected([qc EXCEPT !.orphans = @ - 1], 0)
  /\ UNCHANGED qcServer

\* The application writes what it just stored on the server, or hydrate()
\* puts in what the server rendered.
SetData ==
  /\ qcServer < MaxVersion
  /\ qcServer' = qcServer + 1
  /\ qc' = SetQueryData(Overtake(qc, ~qc.cleared), qcServer')

Invalidate ==
  /\ qc.cached # 0
  /\ qc' = NotifyObservers(qc, qc.cached)
  /\ UNCHANGED qcServer

Prefetch ==
  /\ IsStale(qc)
  /\ qc' = FetchQuery(qc, {})
  /\ UNCHANGED qcServer

\* refetch(), which ignores staleTime, and the polling interval.
Refetch(i) ==
  /\ qc.q[i].life = "live"
  /\ qc' = ExecuteFetch(qc, {i})
  /\ UNCHANGED qcServer

WindowFocus(i) ==
  /\ i \in Enabled /\ qc.q[i].life = "live"
  /\ IsStale(qc)
  /\ qc' = ExecuteFetch(qc, {i})
  /\ UNCHANGED qcServer

Clear ==
  /\ MayClear /\ ~qc.cleared
  /\ LET s1 == Overtake(qc, FALSE)
         s2 == IF qc.cached = 0 THEN s1 ELSE [s1 EXCEPT !.entries[qc.cached].timer = FALSE]
     IN qc' = Forget([s2 EXCEPT !.cleared = TRUE, !.cached = 0, !.inflight = 0])
  /\ UNCHANGED qcServer

DataAges ==
  /\ qc.cached # 0 /\ qc.entries[qc.cached].fresh
  /\ qc' = [qc EXCEPT !.entries[qc.cached].fresh = FALSE]
  /\ UNCHANGED qcServer

ServerChanges ==
  /\ qcServer < MaxVersion
  /\ qcServer' = qcServer + 1
  /\ UNCHANGED qc

----------------------------------------------------------------------------
(* The fetch loop of fetchQuery                                              *)

ServerAnswers(f) ==
  /\ qc.fetches[f].st = "asked"
  /\ qc' = [qc EXCEPT !.fetches[f].st = "answered", !.fetches[f].got = qcServer]
  /\ UNCHANGED qcServer

AnswerArrives(f) ==
  /\ qc.fetches[f].st = "answered"
  /\ LET v == qc.fetches[f].got
     IN qc' = Settle(SetQueryData(qc, v), f, TRUE, v)
  /\ UNCHANGED qcServer

\* An attempt fails: wait for retryDelay, or after the last one store the
\* error, tell the observers and reject.
AttemptFails(f) ==
  /\ qc.fetches[f].st \in {"asked", "answered"}
  /\ IF qc.fetches[f].attempt < Retry
     THEN qc' = [qc EXCEPT !.fetches[f].st = "waiting", !.fetches[f].attempt = @ + 1]
     ELSE LET s1 == GetOrCreateEntry(qc)
              s2 == NotifyObservers([s1 EXCEPT !.entries[s1.cached].err = TRUE], s1.cached)
          IN qc' = Settle(s2, f, FALSE, 0)
  /\ UNCHANGED qcServer

RetryDelayPasses(f) ==
  /\ qc.fetches[f].st = "waiting"
  /\ qc' = [qc EXCEPT !.fetches[f].st = "asked"]
  /\ UNCHANGED qcServer

QCNext ==
  \/ \E i \in Queries : CreateQuery(i) \/ Dispose(i) \/ Refetch(i) \/ WindowFocus(i)
  \/ SetData \/ Invalidate \/ Prefetch \/ Clear \/ DataAges \/ ServerChanges
  \/ GcTimerFires \/ OrphanFires
  \/ \E f \in Slots : \/ ServerAnswers(f) \/ AnswerArrives(f)
                      \/ AttemptFails(f) \/ RetryDelayPasses(f)

\* A request answers or fails, and timers fire: the runtime owes that much.
QCFairness ==
  \A f \in Slots : WF_qcVars(ServerAnswers(f) \/ AnswerArrives(f) \/ RetryDelayPasses(f))

----------------------------------------------------------------------------
QCTypeOK ==
  /\ qcServer \in 1 .. MaxVersion
  /\ qc.entries \in [Slots -> [data : 0 .. MaxVersion, fresh : BOOLEAN, err : BOOLEAN,
                               obs : SUBSET Queries, timer : BOOLEAN]]
  /\ qc.fetches \in [Slots -> [st : FetchStates, got : 0 .. MaxVersion, attempt : 0 .. Retry,
                               waiters : SUBSET Queries, overtaken : BOOLEAN]]
  /\ qc.q \in [Queries -> [life : {"none", "live", "disposed"}, entry : Slots \cup {0},
                           data : 0 .. MaxVersion, error : BOOLEAN, status : Statuses,
                           isFetching : BOOLEAN]]
  /\ qc.cached \in Slots \cup {0} /\ qc.inflight \in Slots \cup {0}
  /\ qc.orphans \in Nat /\ qc.again \in 0 .. Again /\ {qc.cleared, qc.lost} \subseteq BOOLEAN

\* Until clear() is used, the answers of the server reach the cache in order:
\* data is replaced by an older version only by a fetch that a manual write
\* overtook while it was under way (client.ts:168 shares the fetch).
CachedData(s) == IF s.cached = 0 THEN 0 ELSE s.entries[s.cached].data
DataMonotone ==
  [][ (~qc.cleared /\ qc.cached # 0 /\ qc'.cached = qc.cached /\ CachedData(qc') < CachedData(qc))
        => \E f \in Slots : qc.fetches[f].overtaken /\ qc'.fetches[f].st = "none" ]_qcVars

\* The entry a live query subscribed to is the one in the cache: no timer of that
\* entry and no late dispose of its other observers takes it away.  It stays so until
\* clear() is called, or until a query that was disposed of once more deletes the key:
\* the timer of the first dispose is then out of reach (client.ts:231), and it takes
\* the entry of whoever subscribed in between.
SubscribedKept ==
  ~qc.cleared /\ ~qc.lost =>
    \A i \in Queries : qc.q[i].life = "live" =>
       qc.cached = qc.q[i].entry /\ i \in qc.entries[qc.cached].obs

\* A query that is fetching stops fetching, with data or with an error:
\* no path through join, retry, error or clear leaves isFetching set, which
\* would make executeFetch (query.ts:86) refuse for ever.
FetchEnds == \A i \in Queries : qc.q[i].isFetching ~> ~qc.q[i].isFetching
=============================================================================
