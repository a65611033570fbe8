---------------------------- MODULE BrowserSuite ----------------------------
(* The packages that run in a page, next to each other: query, store,        *)
(* federation and forms.  They share no state, so a behaviour is one of the  *)
(* part it starts as, and the run visits the states of every part.           *)
EXTENDS Integers, Sequences, Federation, Fallback, Store, Forms

VARIABLES part,
          qc, qcServer, kc, iq, mu        \* query
          \* store: st, sx, rx; forms: fm, fq; federation: fl, fd, fh, fs, fb, cb, fv

vars == <<part, qc, qcServer, kc, iq, mu, st, sx, rx, fb, cb, fl, fd, fh, fs, fm, fq, fv>>

Query == INSTANCE Query_proofs
  WITH Queries <- {"a", "b"}, Enabled <- {"a", "b"}, MaxVersion <- 2, Retry <- 1,
       Caches <- TRUE, CollectsNow <- FALSE, MayClear <- FALSE, Again <- 1,
       Mutations <- {"m1", "m2"}, Subscribers <- {"c1", "c2"}, Collects <- TRUE, MayClearCache <- FALSE,
       MinPage <- -1, MaxPage <- 2, PageRetry <- 1, MaxPages <- 4, MaxRuns <- 2,
       Calls <- {"c1", "c2"}, MutationRetry <- 1, Sources <- {"focus"}

Parts == {"query", "cache", "infinite", "mutation", "store", "render", "signals", "fallback",
          "loader", "shared", "host", "sync", "form", "input", "versions"}

Init ==
  /\ part \in Parts
  /\ Query!QCInit /\ Query!KCInit /\ Query!IQInit /\ Query!MUInit
  /\ STInit /\ SXInit /\ RXInit /\ FBInit
  /\ FLInit /\ FDInit /\ FHInit /\ FSInit
  /\ FMInit
  /\ \/ part = "input" /\ FQInit
     \/ part # "input" /\ fq = [ask |-> "none"]
  /\ \/ part = "versions" /\ FVInit
     \/ part # "versions" /\ fv = [ask |-> "none"]

Next ==
  \/ part = "query" /\ Query!QCNext
     /\ UNCHANGED <<part, kc, iq, mu, st, sx, rx, fb, cb, fl, fd, fh, fs, fm, fq, fv>>
  \/ part = "cache" /\ Query!KCNext
     /\ UNCHANGED <<part, qc, qcServer, iq, mu, st, sx, rx, fb, cb, fl, fd, fh, fs, fm, fq, fv>>
  \/ part = "infinite" /\ Query!IQNext
     /\ UNCHANGED <<part, qc, qcServer, kc, mu, st, sx, rx, fb, cb, fl, fd, fh, fs, fm, fq, fv>>
  \/ part = "mutation" /\ Query!MUNext
     /\ UNCHANGED <<part, qc, qcServer, kc, iq, st, sx, rx, fb, cb, fl, fd, fh, fs, fm, fq, fv>>
  \/ part = "store" /\ STNext
     /\ UNCHANGED <<part, qc, qcServer, kc, iq, mu, sx, rx, fb, cb, fl, fd, fh, fs, fm, fq, fv>>
  \/ part = "render" /\ SXNext
     /\ UNCHANGED <<part, qc, qcServer, kc, iq, mu, st, rx, fb, cb, fl, fd, fh, fs, fm, fq, fv>>
  \/ part = "signals" /\ RXNext
     /\ UNCHANGED <<part, qc, qcServer, kc, iq, mu, st, sx, fb, cb, fl, fd, fh, fs, fm, fq, fv>>
  \/ part = "fallback" /\ FBNext
     /\ UNCHANGED <<part, qc, qcServer, kc, iq, mu, st, sx, rx, fl, fd, fh, fs, fm, fq, fv>>
  \/ part = "loader" /\ FLNext
     /\ UNCHANGED <<part, qc, qcServer, kc, iq, mu, st, sx, rx, fb, cb, fm, fq, fv>>
  \/ part = "shared" /\ FDNext
     /\ UNCHANGED <<part, qc, qcServer, kc, iq, mu, st, sx, rx, fb, cb, fm, fq, fv>>
  \/ part = "host" /\ FHNext
     /\ UNCHANGED <<part, qc, qcServer, kc, iq, mu, st, sx, rx, fb, cb, fm, fq, fv>>
  \/ part = "sync" /\ FSNext
     /\ UNCHANGED <<part, qc, qcServer, kc, iq, mu, st, sx, rx, fb, cb, fm, fq, fv>>
  \/ part = "form" /\ FMNext
     /\ UNCHANGED <<part, qc, qcServer, kc, iq, mu, st, sx, rx, fb, cb, fl, fd, fh, fs, fq, fv>>

\* Requests answer or fail, timers fire and an action of the server returns.
Fairness == Query!QCFairness /\ FBFairness /\ FMFairness
Spec == Init /\ [][Next]_vars /\ Fairness

----------------------------------------------------------------------------
BrowserTypes ==
  /\ Query!QCTypeOK /\ Query!KCTypeOK /\ Query!IQTypeOK /\ Query!MUTypeOK
  /\ StoreTypes /\ FBTypeOK /\ FedTypeOK /\ FormTypes

\* The entry a live query subscribed to is the one in the cache, until clear()
\* forgets every entry or a query that was disposed of once more deletes the
\* key: the timer of its first dispose is then out of reach (client.ts:231).
SubscribedKept == Query!SubscribedKept

\* What a consumer has stays: data of the cache goes back to an older version
\* only through a fetch that a manual write overtook, and a shared dependency
\* that answers a range goes on answering it (query/src/client.ts:168,
\* remote.ts:334).
AnswersKept == Query!DataMonotone /\ SharedKept

\* What is under way ends: a query that fetches, a remote module that loads, a
\* form that submits (query.ts:86, fallback.ts:160, form.ts:152).
AsksEnd == Query!FetchEnds /\ LoadSettles /\ SubmitEnds

\* However optimistic mutations overlap, what is left in the cache of a failed
\* one was put back by a later failure that had begun on top of it, so of one that
\* nothing overlapped nothing is left; until clear() or a second unsubscribe, a
\* subscriber was last called with what the cache holds (optimistic.ts:192,
\* cache.ts:353).
CacheCurrent == Query!FailedEffectGone /\ Query!SubscriberCurrent

\* The pages are consecutive whichever fetches overlap, until a page is fetched
\* twice because the end of another fetch lowered its flag or a refetch began
\* under it (infinite.ts:263, 296); a mutation object shows the call that
\* settled last, whichever overlap (mutation.ts:45); a load takes its value
\* from the attempt it waits for, and a closed breaker has not counted to its
\* threshold (fallback.ts:160, 397).
AttemptsOrdered == Query!PagesConsecutive /\ Query!OutcomeShown /\ LateAnswersHarmless

\* Subscribers and storage agree with the state they were told of, a render
\* that no later one overtook has its own state, and effects agree with the
\* signals they read unless a thrower before them ended the batch they were in
\* (store.ts:207, ssr.ts:160, scheduler.ts:26).
StoresSettle == SubscribersCurrent /\ RequestIsolated /\ EffectsSettle

\* After an invalidation the loader serves nothing older than it but what a load
\* under way at it brings, a host is told every outcome once, synchronised
\* stores agree, and so do the three ways to choose a version (remote.ts:521,
\* host.ts, state.ts:249, fallback.ts:262).
RemotesCurrent == /\ FreshAfterInvalidate /\ HostReports /\ StoresAgree
                  /\ part = "versions" => VersionsRight

\* An error of a rule is about the value its field has; a server's error is one
\* an answer to the last submission, or later, named, and in a field that was
\* left about its value unless it was edited before the answer came; and the
\* two ways to validate and the operations on field arrays agree (form.ts:152,
\* validation.ts:199, field-array.ts:84).
FormsHonest == FormHonest /\ (part = "input" => FormsRight)
=============================================================================
