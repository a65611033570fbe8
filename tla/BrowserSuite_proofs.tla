------------------------- MODULE BrowserSuite_proofs -------------------------
(* What the parts of a page prove of themselves, for the page. *)
EXTENDS BrowserSuite, FiniteSetTheorems, SequenceTheorems, Induction

-----------------------------------------------------------------------------
(* Fallback: retries and the breaker *)

LoadState == [pc : {"idle", "waiting", "backoff", "done"}, attempt : Nat, loaders : SUBSET Nat,
              result : {"none", "value", "fallback", "error"}, from : Nat, errors : Nat]

\* Every attempt but the one that waits has failed, and a value is from the last one.
LoadInv ==
  /\ fb \in LoadState /\ fb.from \in 0 .. Retries + 1
  /\ fb.pc # "done" => fb.result = "none"
  /\ fb.pc = "idle" => fb.attempt = 0 /\ fb.errors = 0
  /\ fb.pc = "waiting" => fb.attempt \in 1 .. Retries + 1 /\ fb.errors = fb.attempt - 1
  /\ fb.pc = "backoff" => fb.attempt \in 1 .. Retries /\ fb.errors = fb.attempt
  /\ fb.pc = "done" =>
       /\ fb.attempt \in 1 .. Retries + 1
       /\ \/ fb.result = "value" /\ fb.from = fb.attempt /\ fb.errors = fb.attempt - 1
          \/ fb.result \in {"fallback", "error"} /\ fb.errors = Retries + 1

BreakerState ==
  [state : {"closed", "open", "half-open"}, failures : Nat, due : BOOLEAN,
   calls : [Probes -> {"idle", "refused", "running", "ok", "failed"}],
   opened : {"never", "threshold", "probe"}]
FailedCalls(c) == {p \in Probes : c.calls[p] = "failed"}

\* What is counted failed, and a closed breaker has not counted to its threshold.
BreakerInv ==
  /\ cb \in BreakerState
  /\ cb.failures <= Cardinality(FailedCalls(cb))
  /\ cb.state = "closed" => cb.failures < Threshold

FBInv == LoadInv /\ BreakerInv

\* A load of every attempt that is over fails or goes on.
LEMMA FailedKeeps ==
  ASSUME NEW s \in LoadState, s.pc = "waiting", s.result = "none", s.attempt \in 1 .. Retries + 1,
         s.errors = s.attempt - 1, s.from \in 0 .. Retries + 1, fb' = Failed(s)
  PROVE  LoadInv'
<1>1. Retries \in Nat
  BY FallbackAssumption
<1>2. PICK result \in {"none", "value", "fallback", "error"} :
        result = IF s.attempt > Retries THEN IF HasFallback THEN "fallback" ELSE "error" ELSE s.result
  OBVIOUS
<1>3. PICK pc \in {"done", "backoff"} : pc = IF s.attempt > Retries THEN "done" ELSE "backoff"
  OBVIOUS
<1>4. PICK errors \in Nat : errors = s.errors + 1
  BY DEF LoadState
<1>5. fb' = [s EXCEPT !.errors = errors, !.pc = pc, !.result = result]
  BY <1>2, <1>3, <1>4 DEF Failed, LoadState
<1>6. /\ fb' \in LoadState /\ fb'.errors = errors /\ fb'.pc = pc /\ fb'.result = result
      /\ fb'.attempt = s.attempt /\ fb'.from = s.from
  BY <1>3, <1>5 DEF LoadState
<1>7. CASE s.attempt > Retries
  BY <1>1, <1>2, <1>3, <1>4, <1>6, <1>7 DEF LoadInv
<1>8. CASE ~(s.attempt > Retries)
  BY <1>1, <1>2, <1>3, <1>4, <1>6, <1>8 DEF LoadInv
<1> QED
  BY <1>7, <1>8

LEMMA AttemptKeeps ==
  ASSUME LoadInv, fb.pc \in {"idle", "backoff"}, fb' = StartAttempt(fb) PROVE LoadInv'
<1>1. Retries \in Nat /\ fb \in LoadState
  BY FallbackAssumption DEF LoadInv
<1>2. PICK loaders : loaders = fb.loaders \cup {fb.attempt + 1}
  OBVIOUS
<1>3. loaders \in SUBSET Nat
  BY <1>1, <1>2 DEF LoadState
<1>4. PICK attempt \in Nat : attempt = fb.attempt + 1
  BY <1>1 DEF LoadState
<1>5. fb' = [fb EXCEPT !.pc = "waiting", !.attempt = attempt, !.loaders = loaders]
  BY <1>1, <1>2, <1>4 DEF StartAttempt, LoadState
<1>6. /\ fb' \in LoadState /\ fb'.pc = "waiting" /\ fb'.attempt = attempt
      /\ fb'.errors = fb.errors /\ fb'.result = fb.result /\ fb'.from = fb.from
  BY <1>1, <1>3, <1>5 DEF LoadState
<1>7. fb.attempt \in 0 .. Retries /\ fb.errors = fb.attempt /\ fb.result = "none"
  BY <1>1 DEF LoadInv
<1> QED
  BY <1>1, <1>4, <1>6, <1>7 DEF LoadInv

\* An answer that comes: it counts only for the attempt that is waited for.
LEMMA AnswerKeeps ==
  ASSUME LoadInv, NEW n \in 1 .. Retries + 1, LoaderResolves(n) \/ LoaderRejects(n) PROVE LoadInv'
<1>1. Retries \in Nat /\ fb \in LoadState
  BY FallbackAssumption DEF LoadInv
<1>2. PICK loaders : loaders = fb.loaders \ {n}
  OBVIOUS
<1>3. loaders \in SUBSET Nat
  BY <1>1, <1>2 DEF LoadState
<1>4. PICK s : s = [fb EXCEPT !.loaders = loaders]
  OBVIOUS
<1>5. /\ s \in LoadState /\ s.pc = fb.pc /\ s.attempt = fb.attempt /\ s.result = fb.result
      /\ s.errors = fb.errors /\ s.from = fb.from
  BY <1>1, <1>3, <1>4 DEF LoadState
<1>6. CASE ~(fb.pc = "waiting" /\ n = fb.attempt)
  <2>1. fb' = s
    BY <1>1, <1>2, <1>4, <1>6 DEF LoaderResolves, LoaderRejects, LoadState
  <2> QED
    BY <1>5, <2>1 DEF LoadInv
<1>7. CASE fb.pc = "waiting" /\ n = fb.attempt /\ LoaderResolves(n)
  <2>1. fb' = [fb EXCEPT !.pc = "done", !.result = "value", !.from = n, !.loaders = loaders]
    BY <1>1, <1>2, <1>7 DEF LoaderResolves, LoadState
  <2>3. n \in Nat /\ n \in 0 .. Retries + 1
    BY <1>1
  <2>2. /\ fb' \in LoadState /\ fb'.pc = "done" /\ fb'.result = "value"
        /\ fb'.attempt = fb.attempt /\ fb'.errors = fb.errors /\ fb'.from = n
    BY <1>1, <1>3, <2>1, <2>3 DEF LoadState
  <2> QED
    BY <1>7, <2>2, <2>3 DEF LoadInv
<1>8. CASE fb.pc = "waiting" /\ n = fb.attempt /\ LoaderRejects(n)
  <2>1. fb' = Failed(s)
    BY <1>1, <1>2, <1>4, <1>8 DEF LoaderRejects, LoadState
  <2> QED
    BY <1>5, <1>8, <2>1, FailedKeeps DEF LoadInv
<1> QED
  BY <1>6, <1>7, <1>8

\* resetTimeout passing changes neither the count nor the calls.
LEMMA GetStateKeeps ==
  ASSUME BreakerInv
  PROVE  LET c == GetState(cb)
         IN  /\ c \in BreakerState /\ c.calls = cb.calls /\ c.failures = cb.failures
             /\ c.state = "closed" => c.failures < Threshold
<1> DEFINE c == GetState(cb)
<1>1. cb \in BreakerState
  BY DEF BreakerInv
<1>2. CASE cb.state = "open" /\ cb.due
  <2>1. c = [cb EXCEPT !.state = "half-open", !.due = FALSE]
    BY <1>2 DEF GetState
  <2>2. c \in BreakerState /\ c.calls = cb.calls /\ c.failures = cb.failures /\ c.state = "half-open"
    BY <1>1, <2>1 DEF BreakerState
  <2> QED
    BY <2>2
<1>3. CASE ~(cb.state = "open" /\ cb.due)
  BY <1>1, <1>3 DEF GetState, BreakerInv
<1> QED
  BY <1>2, <1>3

\* A call that ends or starts: who has failed grows by it when it fails.
LEMMA CallEnds ==
  ASSUME NEW c \in BreakerState, NEW d \in BreakerState, NEW p \in Probes,
         NEW o \in {"idle", "refused", "running", "ok", "failed"}, c.calls[p] # "failed",
         d.calls = [c.calls EXCEPT ![p] = o]
  PROVE  /\ Cardinality(FailedCalls(c)) \in Nat /\ Cardinality(FailedCalls(d)) \in Nat
         /\ o # "failed" => Cardinality(FailedCalls(d)) = Cardinality(FailedCalls(c))
         /\ o = "failed" => Cardinality(FailedCalls(d)) = Cardinality(FailedCalls(c)) + 1
<1>1. c.calls \in [Probes -> {"idle", "refused", "running", "ok", "failed"}]
  BY DEF BreakerState
<1>2. d.calls[p] = o /\ \A q \in Probes : q # p => d.calls[q] = c.calls[q]
  BY <1>1
<1>3. FailedCalls(c) \subseteq Probes /\ p \notin FailedCalls(c)
  BY DEF FailedCalls
<1>4. FailedCalls(d) = IF o = "failed" THEN FailedCalls(c) \cup {p} ELSE FailedCalls(c)
  BY <1>2 DEF FailedCalls
<1>5. IsFiniteSet(FailedCalls(c))
  BY <1>3, FallbackAssumption, FS_Subset
<1>6. /\ Cardinality(FailedCalls(c)) \in Nat
      /\ Cardinality(FailedCalls(c) \cup {p}) = Cardinality(FailedCalls(c)) + 1
  BY <1>3, <1>5, FS_CardinalityType, FS_AddElement
<1> QED
  BY <1>4, <1>6

LEMMA CallBreakerKeeps == ASSUME BreakerInv, NEW p \in Probes, CallBreaker(p) PROVE BreakerInv'
<1>1. PICK c : c = GetState(cb)
  OBVIOUS
<1>2. /\ c \in BreakerState /\ c.calls = cb.calls /\ c.failures = cb.failures
      /\ c.state = "closed" => c.failures < Threshold
  BY <1>1, GetStateKeeps
<1>3. PICK o \in {"refused", "running"} : o = IF c.state = "open" THEN "refused" ELSE "running"
  OBVIOUS
<1>4. PICK calls : calls = [c.calls EXCEPT ![p] = o]
  OBVIOUS
<1>5. calls \in [Probes -> {"idle", "refused", "running", "ok", "failed"}] /\ c.calls[p] = "idle"
  BY <1>2, <1>3, <1>4 DEF BreakerState, CallBreaker
<1>6. cb' = [c EXCEPT !.calls = calls]
  BY <1>1, <1>2, <1>3, <1>4 DEF CallBreaker, BreakerState
<1>7. cb' \in BreakerState /\ cb'.calls = calls /\ cb'.failures = c.failures /\ cb'.state = c.state
  BY <1>2, <1>5, <1>6 DEF BreakerState
<1>8. Cardinality(FailedCalls(cb')) = Cardinality(FailedCalls(c))
  BY <1>2, <1>3, <1>4, <1>5, <1>7, CallEnds
<1>9. FailedCalls(c) = FailedCalls(cb)
  BY <1>2 DEF FailedCalls
<1> QED
  BY <1>2, <1>7, <1>8, <1>9 DEF BreakerInv

LEMMA SuccessKeeps == ASSUME BreakerInv, NEW p \in Probes, CallSucceeds(p) PROVE BreakerInv'
<1>1. cb \in BreakerState /\ cb.calls[p] = "running"
  BY DEF BreakerInv, CallSucceeds
<1>2. PICK state : state = IF cb.state = "half-open" THEN "closed" ELSE cb.state
  OBVIOUS
<1>3. PICK calls : calls = [cb.calls EXCEPT ![p] = "ok"]
  OBVIOUS
<1>4. /\ calls \in [Probes -> {"idle", "refused", "running", "ok", "failed"}]
      /\ state \in {"closed", "open", "half-open"}
  BY <1>1, <1>2, <1>3 DEF BreakerState
<1>5. cb' = [cb EXCEPT !.calls = calls, !.failures = 0, !.state = state]
  BY <1>1, <1>2, <1>3 DEF CallSucceeds, BreakerState
<1>6. cb' \in BreakerState /\ cb'.calls = calls /\ cb'.failures = 0
  BY <1>1, <1>4, <1>5 DEF BreakerState
<1>7. Cardinality(FailedCalls(cb')) \in Nat
  BY <1>1, <1>3, <1>6, CallEnds
<1> QED
  BY <1>6, <1>7, FallbackAssumption DEF BreakerInv

LEMMA FailureCounts == ASSUME BreakerInv, NEW p \in Probes, CallFails(p) PROVE BreakerInv'
<1>1. cb \in BreakerState /\ cb.calls[p] = "running" /\ cb.failures \in Nat
  BY DEF BreakerInv, CallFails, BreakerState
<1>2. PICK calls : calls = [cb.calls EXCEPT ![p] = "failed"]
  OBVIOUS
<1>3. calls \in [Probes -> {"idle", "refused", "running", "ok", "failed"}]
  BY <1>1, <1>2 DEF BreakerState
<1>4. PICK failures \in Nat : failures = cb.failures + 1
  BY <1>1
<1>5. PICK c : c = [cb EXCEPT !.calls = calls, !.failures = failures]
  OBVIOUS
<1>6. c \in BreakerState /\ c.calls = calls /\ c.failures = failures /\ c.state = cb.state
  BY <1>1, <1>3, <1>5 DEF BreakerState
<1>7. c = [cb EXCEPT !.calls[p] = "failed", !.failures = @ + 1]
  BY <1>1, <1>2, <1>4, <1>5 DEF BreakerState
<1>8. Cardinality(FailedCalls(c)) = Cardinality(FailedCalls(cb)) + 1
  BY <1>1, <1>2, <1>6, CallEnds
<1>9. Cardinality(FailedCalls(cb)) \in Nat
  BY <1>1, <1>2, <1>6, CallEnds
<1>10. /\ cb' \in BreakerState /\ cb'.calls = c.calls /\ cb'.failures = c.failures
       /\ cb'.state = "closed" => c.failures < Threshold
  <2>1. CASE c.state = "half-open"
    <3>1. cb' = [c EXCEPT !.state = "open", !.due = FALSE, !.opened = "probe"]
      BY <1>7, <2>1 DEF CallFails
    <3> QED
      BY <1>6, <3>1 DEF BreakerState
  <2>2. CASE c.state # "half-open" /\ c.failures >= Threshold
    <3>1. cb' = [c EXCEPT !.state = "open", !.due = FALSE, !.opened = "threshold"]
      BY <1>7, <2>2 DEF CallFails
    <3> QED
      BY <1>6, <3>1 DEF BreakerState
  <2>3. CASE c.state # "half-open" /\ ~(c.failures >= Threshold)
    <3>1. cb' = c
      BY <1>7, <2>3 DEF CallFails
    <3> QED
      BY <1>1, <1>6, <2>3, <3>1, FallbackAssumption
  <2> QED
    BY <2>1, <2>2, <2>3
<1>11. FailedCalls(cb') = FailedCalls(c)
  BY <1>10 DEF FailedCalls
<1> QED
  BY <1>1, <1>4, <1>6, <1>8, <1>9, <1>10, <1>11 DEF BreakerInv

LEMMA DueKeeps == ASSUME BreakerInv, Observe \/ ResetTimeoutPasses PROVE BreakerInv'
<1>1. cb \in BreakerState
  BY DEF BreakerInv
<1>2. CASE Observe
  <2>1. cb' = GetState(cb)
    BY <1>2 DEF Observe
  <2>2. FailedCalls(cb') = FailedCalls(cb)
    BY <2>1, GetStateKeeps DEF FailedCalls
  <2> QED
    BY <2>1, <2>2, GetStateKeeps DEF BreakerInv
<1>3. CASE ResetTimeoutPasses
  <2>1. cb' = [cb EXCEPT !.due = TRUE]
    BY <1>3 DEF ResetTimeoutPasses
  <2>2. cb' \in BreakerState /\ cb'.calls = cb.calls /\ cb'.failures = cb.failures /\ cb'.state = cb.state
    BY <1>1, <2>1 DEF BreakerState
  <2>3. FailedCalls(cb') = FailedCalls(cb)
    BY <2>2 DEF FailedCalls
  <2> QED
    BY <2>2, <2>3 DEF BreakerInv
<1> QED
  BY <1>2, <1>3

LEMMA FallbackStarts == ASSUME FBInit PROVE FBInv
<1>1. LoadInv
  BY FallbackAssumption DEF FBInit, LoadInv, LoadState
<1>2. PICK calls : calls = [p \in Probes |-> "idle"]
  OBVIOUS
<1>3. cb = [state |-> "closed", failures |-> 0, due |-> FALSE, calls |-> calls, opened |-> "never"]
  BY <1>2 DEF FBInit
<1>4. cb \in BreakerState /\ cb.calls = calls /\ cb.failures = 0
  BY <1>2, <1>3 DEF BreakerState
<1>5. FailedCalls(cb) = {}
  BY <1>2, <1>4 DEF FailedCalls
<1>6. Cardinality(FailedCalls(cb)) = 0
  BY <1>5, FS_EmptySet
<1> QED
  BY <1>1, <1>4, <1>6, FallbackAssumption DEF FBInv, BreakerInv

LEMMA FallbackStep == ASSUME FBInv, [FBNext]_fbVars PROVE FBInv'
<1>1. CASE UNCHANGED fbVars
  BY <1>1 DEF fbVars, FBInv, LoadInv, BreakerInv, FailedCalls
<1>2. ASSUME UNCHANGED cb PROVE BreakerInv'
  BY <1>2 DEF FBInv, BreakerInv, FailedCalls
<1>3. ASSUME UNCHANGED fb PROVE LoadInv'
  BY <1>3 DEF FBInv, LoadInv
<1>4. CASE Load
  BY <1>2, <1>4, AttemptKeeps DEF Load, FBInv
<1>5. CASE TimesOut
  <2>1. /\ fb \in LoadState /\ fb.result = "none" /\ fb.attempt \in 1 .. Retries + 1
        /\ fb.errors = fb.attempt - 1 /\ fb.from \in 0 .. Retries + 1
    BY <1>5 DEF TimesOut, FBInv, LoadInv
  <2> QED
    BY <1>2, <1>5, <2>1, FailedKeeps DEF TimesOut, FBInv
<1>6. CASE BackoffEnds
  BY <1>2, <1>6, AttemptKeeps DEF BackoffEnds, FBInv
<1>7. CASE Observe \/ ResetTimeoutPasses
  BY <1>3, <1>7, DueKeeps DEF Observe, ResetTimeoutPasses, FBInv
<1>8. CASE \E n \in 1 .. Retries + 1 : LoaderResolves(n) \/ LoaderRejects(n)
  BY <1>2, <1>8, AnswerKeeps DEF LoaderResolves, LoaderRejects, FBInv
<1>9. CASE \E p \in Probes : CallBreaker(p) \/ CallSucceeds(p) \/ CallFails(p)
  BY <1>3, <1>9, CallBreakerKeeps, SuccessKeeps, FailureCounts
  DEF CallBreaker, CallSucceeds, CallFails, FBInv
<1> QED
  BY <1>1, <1>4, <1>5, <1>6, <1>7, <1>8, <1>9 DEF FBNext

LEMMA FallbackFromInv == ASSUME FBInv PROVE LateAnswersHarmless
<1>1. fb.result # "none" => fb.pc = "done"
  BY DEF FBInv, LoadInv
<1> QED
  BY <1>1 DEF FBInv, LoadInv, BreakerInv, LateAnswersHarmless

-----------------------------------------------------------------------------
(* Federation: what the loader caches, what the host tells, what is shared *)

Deployed == 0 .. MaxDeploy
LoaderCalls == [pc : {"idle", "fetching", "importing", "failed", "done"}, config : Deployed,
                got : Deployed]
LoaderState == [deployed : Deployed, manifest : Deployed, module : Deployed,
                calls : [Loads -> LoaderCalls], floor : Deployed, under : SUBSET Deployed]

\* A version that may be served or brought since the last invalidation.
Fits(s, v) == v >= s.floor \/ v \in s.under

\* What is cached and what loads bring is no older than the last invalidation or was
\* under way at it.
LoaderInv ==
  /\ fl \in LoaderState /\ fl.floor <= fl.deployed
  /\ fl.manifest # NoVersion => Fits(fl, fl.manifest)
  /\ fl.module # NoVersion => Fits(fl, fl.module)
  /\ \A l \in Loads : /\ fl.calls[l].pc = "fetching" => Fits(fl, fl.calls[l].config)
                      /\ fl.calls[l].pc = "importing" => Fits(fl, fl.calls[l].got)

\* A record of the loader with other caches and another call.
WithCaches(s, manifest, module) == [s EXCEPT !.manifest = manifest, !.module = module]
WithLoad(s, calls) == [s EXCEPT !.calls = calls]

LEMMA CachesAre ==
  ASSUME NEW s \in LoaderState, NEW manifest \in Deployed, NEW module \in Deployed
  PROVE  LET r == WithCaches(s, manifest, module)
         IN  /\ r \in LoaderState /\ r.manifest = manifest /\ r.module = module /\ r.under = s.under
             /\ r.calls = s.calls /\ r.floor = s.floor /\ r.deployed = s.deployed
  BY DEF WithCaches, LoaderState

LEMMA LoadIs ==
  ASSUME NEW s \in LoaderState, NEW l \in Loads, NEW new \in LoaderCalls,
         NEW calls, calls = [s.calls EXCEPT ![l] = new]
  PROVE  LET r == WithLoad(s, calls)
         IN  /\ r \in LoaderState /\ r.calls[l] = new
             /\ \A k \in Loads : k # l => r.calls[k] = s.calls[k]
             /\ r.manifest = s.manifest /\ r.module = s.module /\ r.under = s.under
             /\ r.floor = s.floor /\ r.deployed = s.deployed
<1>1. /\ calls \in [Loads -> LoaderCalls] /\ calls[l] = new
      /\ \A k \in Loads : k # l => calls[k] = s.calls[k]
  BY DEF LoaderState
<1>2. PICK r : r = WithLoad(s, calls)
  OBVIOUS
<1>3. /\ r \in LoaderState /\ r.calls = calls
      /\ r.manifest = s.manifest /\ r.module = s.module /\ r.under = s.under
      /\ r.floor = s.floor /\ r.deployed = s.deployed
  BY <1>1, <1>2 DEF WithLoad, LoaderState
<1> QED
  BY <1>1, <1>2, <1>3

LEMMA DeployKeeps == ASSUME LoaderInv, Deploy PROVE LoaderInv'
<1>1. fl \in LoaderState /\ MaxDeploy \in Nat
  BY FederationAssumption DEF LoaderInv, Fits
<1>2. PICK deployed \in Deployed : deployed = fl.deployed + 1
  BY <1>1 DEF Deploy, Deployed, LoaderState
<1>3. fl' = [fl EXCEPT !.deployed = deployed]
  BY <1>1, <1>2 DEF Deploy, LoaderState
<1>4. /\ fl' \in LoaderState /\ fl'.deployed = deployed /\ fl'.calls = fl.calls /\ fl'.floor = fl.floor
      /\ fl'.manifest = fl.manifest /\ fl'.module = fl.module /\ fl'.under = fl.under
  BY <1>1, <1>3 DEF LoaderState
<1>5. fl.floor \in Nat /\ fl.deployed \in Nat
  BY <1>1 DEF LoaderState, Deployed
<1> QED
  BY <1>2, <1>4, <1>5 DEF LoaderInv, Fits

LEMMA InvalidateKeeps == ASSUME LoaderInv, InvalidateRemote PROVE LoaderInv'
<1>1. fl \in LoaderState /\ MaxDeploy \in Nat
  BY FederationAssumption DEF LoaderInv, Fits
<1>2. PICK floor \in Deployed : floor = fl.deployed
  BY <1>1 DEF LoaderState
<1>3. PICK under : under = UnderWay(fl)
  OBVIOUS
<1>4. \A l \in Loads : fl.calls[l].config \in Deployed /\ fl.calls[l].got \in Deployed
  BY <1>1 DEF LoaderState, LoaderCalls
<1>5. under \in SUBSET Deployed
  BY <1>3, <1>4 DEF UnderWay
<1>6. 0 \in Deployed /\ fl.deployed \in Nat
  BY <1>1 DEF LoaderState, Deployed
<1>7. fl' = [fl EXCEPT !.manifest = 0, !.module = 0, !.floor = floor, !.under = under]
  BY <1>2, <1>3 DEF InvalidateRemote, NoVersion
<1>8. /\ fl' \in LoaderState /\ fl'.manifest = 0 /\ fl'.module = 0 /\ fl'.floor = floor
      /\ fl'.under = under /\ fl'.calls = fl.calls /\ fl'.deployed = fl.deployed
  BY <1>1, <1>2, <1>5, <1>6, <1>7 DEF LoaderState
<1>9. \A l \in Loads : /\ fl.calls[l].pc = "fetching" => fl.calls[l].config \in under
                       /\ fl.calls[l].pc = "importing" => fl.calls[l].got \in under
  BY <1>3 DEF UnderWay
<1> QED
  BY <1>2, <1>6, <1>8, <1>9 DEF LoaderInv, NoVersion, Fits

\* A call that takes a manifest: it imports the module or is refused.
LEMMA ManifestTaken ==
  ASSUME NEW s \in LoaderState, NEW l \in Loads, NEW v \in Deployed
  PROVE  LET r == WithManifest(s, l, v)
         IN  /\ r \in LoaderState /\ r.calls[l].pc \in {"failed", "importing"} /\ r.calls[l].got = v
             /\ \A k \in Loads : k # l => r.calls[k] = s.calls[k]
             /\ r.manifest = s.manifest /\ r.module = s.module /\ r.under = s.under
             /\ r.floor = s.floor /\ r.deployed = s.deployed
<1>1. s.calls[l] \in LoaderCalls /\ s.calls \in [Loads -> LoaderCalls]
  BY DEF LoaderState
<1>2. PICK pc \in {"failed", "importing"} : pc = IF v \in Hidden THEN "failed" ELSE "importing"
  OBVIOUS
<1>3. PICK new : new = [s.calls[l] EXCEPT !.pc = pc, !.got = v]
  OBVIOUS
<1>4. new \in LoaderCalls /\ new.pc = pc /\ new.got = v
  BY <1>1, <1>3 DEF LoaderCalls
<1>5. PICK calls : calls = [s.calls EXCEPT ![l] = new]
  OBVIOUS
<1>6. WithManifest(s, l, v) = WithLoad(s, calls)
  BY <1>1, <1>2, <1>3, <1>5 DEF WithManifest, WithLoad, LoaderState
<1>7. PICK r : r = WithLoad(s, calls)
  OBVIOUS
<1>8. /\ r \in LoaderState /\ r.calls[l] = new
      /\ \A k \in Loads : k # l => r.calls[k] = s.calls[k]
      /\ r.manifest = s.manifest /\ r.module = s.module /\ r.under = s.under
      /\ r.floor = s.floor /\ r.deployed = s.deployed
  BY <1>4, <1>5, <1>7, LoadIs
<1> QED
  BY <1>4, <1>6, <1>7, <1>8

LEMMA StartLoadKeeps == ASSUME LoaderInv, NEW l \in Loads, StartLoad(l) PROVE LoaderInv'
<1>1. /\ fl \in LoaderState /\ fl.deployed \in Deployed /\ fl.module \in Deployed
      /\ fl.manifest \in Deployed /\ fl.floor \in Nat /\ fl.deployed \in Nat
  BY DEF LoaderInv, LoaderState, Deployed
<1>2. PICK blank : blank = [NoLoad EXCEPT !.config = fl.deployed]
  OBVIOUS
<1>3. 0 \in Deployed
  BY FederationAssumption DEF Deployed
<1>4. NoLoad \in LoaderCalls /\ NoLoad.pc = "idle"
  BY <1>3 DEF NoLoad, LoaderCalls, NoVersion
<1>5. blank \in LoaderCalls /\ blank.pc = "idle" /\ blank.config = fl.deployed
  BY <1>1, <1>2, <1>4 DEF LoaderCalls
<1>6. PICK calls : calls = [fl.calls EXCEPT ![l] = blank]
  OBVIOUS
<1>7. PICK s : s = WithLoad(fl, calls)
  OBVIOUS
<1>8. /\ s \in LoaderState /\ s.calls[l] = blank
      /\ \A k \in Loads : k # l => s.calls[k] = fl.calls[k]
      /\ s.manifest = fl.manifest /\ s.module = fl.module /\ s.under = fl.under
      /\ s.floor = fl.floor /\ s.deployed = fl.deployed
  BY <1>1, <1>5, <1>6, <1>7, LoadIs
<1>9. s = [fl EXCEPT !.calls[l] = [NoLoad EXCEPT !.config = fl.deployed]]
  BY <1>1, <1>2, <1>6, <1>7 DEF WithLoad, LoaderState
<1>10. s.calls \in [Loads -> LoaderCalls]
  BY <1>8 DEF LoaderState
<1>11. CASE fl.module # NoVersion
  <2>1. PICK new : new = [blank EXCEPT !.pc = "done", !.got = fl.module]
    OBVIOUS
  <2>2. new \in LoaderCalls /\ new.pc = "done"
    BY <1>1, <1>5, <2>1 DEF LoaderCalls
  <2>3. PICK calls2 : calls2 = [s.calls EXCEPT ![l] = new]
    OBVIOUS
  <2>4. fl' = WithLoad(s, calls2)
    <3>1. fl' = [s EXCEPT !.calls[l].pc = "done", !.calls[l].got = fl.module]
      BY <1>9, <1>11 DEF StartLoad
    <3> QED
      BY <1>8, <1>10, <2>1, <2>3, <3>1 DEF WithLoad, LoaderState
  <2>5. /\ fl' \in LoaderState /\ fl'.calls[l] = new
        /\ \A k \in Loads : k # l => fl'.calls[k] = s.calls[k]
        /\ fl'.manifest = s.manifest /\ fl'.module = s.module /\ fl'.under = s.under
        /\ fl'.floor = s.floor /\ fl'.deployed = s.deployed
    BY <1>8, <2>2, <2>3, <2>4, LoadIs
  <2> QED
    BY <1>8, <2>2, <2>5 DEF LoaderInv, Fits
<1>12. CASE fl.module = NoVersion /\ fl.manifest # NoVersion
  <2>1. fl' = WithManifest(s, l, fl.manifest)
    BY <1>9, <1>12 DEF StartLoad
  <2>2. /\ fl' \in LoaderState /\ fl'.calls[l].pc \in {"failed", "importing"}
        /\ fl'.calls[l].got = fl.manifest
        /\ \A k \in Loads : k # l => fl'.calls[k] = s.calls[k]
        /\ fl'.manifest = s.manifest /\ fl'.module = s.module /\ fl'.under = s.under
        /\ fl'.floor = s.floor /\ fl'.deployed = s.deployed
    BY <1>1, <1>8, <2>1, ManifestTaken
  <2> QED
    BY <1>8, <1>12, <2>2 DEF LoaderInv, Fits
<1>13. CASE fl.module = NoVersion /\ fl.manifest = NoVersion
  <2>1. PICK new : new = [blank EXCEPT !.pc = "fetching"]
    OBVIOUS
  <2>2. new \in LoaderCalls /\ new.pc = "fetching" /\ new.config = fl.deployed
    BY <1>5, <2>1 DEF LoaderCalls
  <2>3. PICK calls2 : calls2 = [s.calls EXCEPT ![l] = new]
    OBVIOUS
  <2>4. fl' = WithLoad(s, calls2)
    <3>1. fl' = [s EXCEPT !.calls[l].pc = "fetching"]
      BY <1>9, <1>13 DEF StartLoad
    <3> QED
      BY <1>8, <1>10, <2>1, <2>3, <3>1 DEF WithLoad, LoaderState
  <2>5. /\ fl' \in LoaderState /\ fl'.calls[l] = new
        /\ \A k \in Loads : k # l => fl'.calls[k] = s.calls[k]
        /\ fl'.manifest = s.manifest /\ fl'.module = s.module /\ fl'.under = s.under
        /\ fl'.floor = s.floor /\ fl'.deployed = s.deployed
    BY <1>8, <2>2, <2>3, <2>4, LoadIs
  <2>6. new.config >= fl'.floor
    BY <1>1, <1>8, <2>2, <2>5 DEF LoaderInv, Fits
  <2> QED
    BY <1>8, <2>2, <2>5, <2>6 DEF LoaderInv, Fits
<1> QED
  BY <1>11, <1>12, <1>13

LEMMA ManifestFetchedKeeps == ASSUME LoaderInv, NEW l \in Loads, ManifestFetched(l) PROVE LoaderInv'
<1>1. fl \in LoaderState /\ fl.calls[l] \in LoaderCalls
  BY DEF LoaderInv, LoaderState
<1>2. PICK v \in Deployed : v = fl.calls[l].config
  BY <1>1 DEF LoaderCalls
<1>3. fl.module \in Deployed
  BY <1>1 DEF LoaderState
<1>4. PICK s : s = WithCaches(fl, v, fl.module)
  OBVIOUS
<1>5. /\ s \in LoaderState /\ s.manifest = v /\ s.module = fl.module /\ s.under = fl.under
      /\ s.calls = fl.calls /\ s.floor = fl.floor /\ s.deployed = fl.deployed
  BY <1>1, <1>3, <1>4, CachesAre
<1>6. s = [fl EXCEPT !.manifest = v]
  BY <1>1, <1>4 DEF WithCaches, LoaderState
<1>7. fl' = WithManifest(s, l, v)
  BY <1>2, <1>6 DEF ManifestFetched
<1>8. /\ fl' \in LoaderState /\ fl'.calls[l].pc \in {"failed", "importing"} /\ fl'.calls[l].got = v
      /\ \A k \in Loads : k # l => fl'.calls[k] = fl.calls[k]
      /\ fl'.manifest = v /\ fl'.module = fl.module /\ fl'.under = fl.under
      /\ fl'.floor = fl.floor /\ fl'.deployed = fl.deployed
  BY <1>5, <1>7, ManifestTaken
<1>9. Fits(fl, v)
  BY <1>2 DEF LoaderInv, ManifestFetched
<1> QED
  BY <1>8, <1>9 DEF LoaderInv, Fits

LEMMA ModuleImportedKeeps == ASSUME LoaderInv, NEW l \in Loads, ModuleImported(l) PROVE LoaderInv'
<1>1. fl \in LoaderState /\ fl.calls[l] \in LoaderCalls /\ fl.calls \in [Loads -> LoaderCalls]
  BY DEF LoaderInv, LoaderState
<1>2. PICK v \in Deployed : v = fl.calls[l].got
  BY <1>1 DEF LoaderCalls
<1>3. fl.manifest \in Deployed
  BY <1>1 DEF LoaderState
<1>4. PICK new : new = [fl.calls[l] EXCEPT !.pc = "done"]
  OBVIOUS
<1>5. new \in LoaderCalls /\ new.pc = "done"
  BY <1>1, <1>4 DEF LoaderCalls
<1>6. PICK calls : calls = [fl.calls EXCEPT ![l] = new]
  OBVIOUS
<1>7. PICK s : s = WithLoad(fl, calls)
  OBVIOUS
<1>8. /\ s \in LoaderState /\ s.calls[l] = new
      /\ \A k \in Loads : k # l => s.calls[k] = fl.calls[k]
      /\ s.manifest = fl.manifest /\ s.under = fl.under
      /\ s.floor = fl.floor /\ s.deployed = fl.deployed
  BY <1>1, <1>5, <1>6, <1>7, LoadIs
<1>9. fl' = WithCaches(s, fl.manifest, v)
  <2>1. fl' = [fl EXCEPT !.calls[l].pc = "done", !.module = v]
    BY <1>2 DEF ModuleImported
  <2> QED
    BY <1>1, <1>4, <1>6, <1>7, <2>1 DEF WithCaches, WithLoad, LoaderState, LoaderCalls
<1>10. /\ fl' \in LoaderState /\ fl'.manifest = fl.manifest /\ fl'.module = v /\ fl'.under = fl.under
       /\ fl'.calls = s.calls /\ fl'.floor = fl.floor /\ fl'.deployed = fl.deployed
  BY <1>3, <1>8, <1>9, CachesAre
<1>11. Fits(fl, v)
  BY <1>2 DEF LoaderInv, ModuleImported
<1> QED
  BY <1>5, <1>8, <1>10, <1>11 DEF LoaderInv, Fits

LEMMA LoaderStarts == ASSUME FLInit PROVE LoaderInv
<1>1. 0 \in Deployed /\ 1 \in Deployed
  BY FederationAssumption DEF Deployed
<1>2. NoLoad \in LoaderCalls /\ NoLoad.pc = "idle"
  BY <1>1 DEF NoLoad, LoaderCalls, NoVersion
<1>3. PICK calls : calls = [l \in Loads |-> NoLoad]
  OBVIOUS
<1>4. calls \in [Loads -> LoaderCalls] /\ \A l \in Loads : calls[l].pc = "idle"
  BY <1>2, <1>3
<1>5. fl = [deployed |-> 1, manifest |-> 0, module |-> 0, calls |-> calls, floor |-> 0, under |-> {}]
  BY <1>3 DEF FLInit, NoVersion
<1>6. /\ fl \in LoaderState /\ fl.calls = calls /\ fl.manifest = 0 /\ fl.module = 0
      /\ fl.floor = 0 /\ fl.deployed = 1
  BY <1>1, <1>4, <1>5 DEF LoaderState
<1> QED
  BY <1>4, <1>6 DEF LoaderInv, NoVersion, Fits

LEMMA LoaderStep == ASSUME LoaderInv, [FLNext]_fl PROVE LoaderInv'
<1>1. CASE UNCHANGED fl
  BY <1>1 DEF LoaderInv, Fits
<1>2. CASE FLNext
  BY <1>2, DeployKeeps, InvalidateKeeps, StartLoadKeeps, ManifestFetchedKeeps, ModuleImportedKeeps
  DEF FLNext
<1> QED
  BY <1>1, <1>2

LEMMA LoaderFromInv == ASSUME LoaderInv PROVE FreshAfterInvalidate
<1>1. \A v \in UnderWay(fl) : Fits(fl, v)
  BY DEF LoaderInv, UnderWay
<1> QED
  BY <1>1 DEF LoaderInv, Fits, FreshAfterInvalidate

\* What a host has told of a load, by how far the load has come.
Told(pc) ==
  CASE pc = "idle" -> {<<>>}
    [] pc = "importing" -> {<<"loading">>}
    [] pc = "failed" -> {<<"error">>, <<"loading", "error">>}
    [] OTHER -> {<<>>, <<"loading", "loaded">>}
HostCalls == [pc : {"idle", "importing", "failed", "done"}, config : Deployed, got : Deployed]
Tellings == {<<>>, <<"error">>, <<"loading">>, <<"loading", "loaded">>, <<"loading", "error">>}
HostInv ==
  /\ fh = [registered |-> fh.registered, cache |-> fh.cache, calls |-> fh.calls,
           told |-> fh.told, bus |-> fh.bus]
  /\ fh.registered \in Deployed /\ fh.cache \in Deployed /\ fh.calls \in [Loads -> HostCalls]
  /\ fh.told \in [Loads -> Tellings]
  /\ \A l \in Loads : fh.told[l] \in Told(fh.calls[l].pc)

LEMMA ToldIs ==
  /\ Told("idle") = {<<>>} /\ Told("importing") = {<<"loading">>}
  /\ Told("failed") = {<<"error">>, <<"loading", "error">>}
  /\ Told("done") = {<<>>, <<"loading", "loaded">>}
  BY DEF Told

\* One more word, by what was said before.
LEMMA SaidNext ==
  ASSUME NEW w
  PROVE  Append(<<"loading">>, w) = <<"loading", w>>
<1> DEFINE S == {"loading", w}
           a == Append(<<"loading">>, w)
           b == <<"loading", w>>
<1>1. <<"loading">> \in Seq(S) /\ w \in S
  OBVIOUS
<1>2. a \in Seq(S) /\ Len(a) = 2 /\ a[1] = "loading" /\ a[2] = w
  BY <1>1
<1>3. b \in Seq(S) /\ Len(b) = 2 /\ b[1] = "loading" /\ b[2] = w
  OBVIOUS
<1>4. \A i \in 1 .. Len(a) : a[i] = b[i]
  BY <1>2, <1>3
<1> HIDE DEF a, b, S
<1> QED
  BY <1>2, <1>3, <1>4, SeqEqual DEF a, b

\* A step of one load: what it tells fits where it comes to.
LEMMA HostTells ==
  ASSUME HostInv, NEW l \in Loads, NEW new \in HostCalls, NEW t \in Tellings, t \in Told(new.pc),
         NEW calls, calls = [fh.calls EXCEPT ![l] = new], NEW told, told = [fh.told EXCEPT ![l] = t],
         NEW cache \in Deployed,
         fh' = [fh EXCEPT !.calls = calls, !.told = told, !.cache = cache]
  PROVE  HostInv'
<1>1. /\ fh.calls \in [Loads -> HostCalls] /\ fh.told \in [Loads -> Tellings]
      /\ \A k \in Loads : fh.told[k] \in Told(fh.calls[k].pc)
  BY DEF HostInv
<1>2. /\ calls \in [Loads -> HostCalls] /\ calls[l] = new
      /\ \A k \in Loads : k # l => calls[k] = fh.calls[k]
  BY <1>1
<1>3. /\ told \in [Loads -> Tellings] /\ told[l] = t
      /\ \A k \in Loads : k # l => told[k] = fh.told[k]
  BY <1>1
<1>4. /\ fh' = [registered |-> fh.registered, cache |-> cache, calls |-> calls,
                told |-> told, bus |-> fh.bus]
      /\ fh.registered \in Deployed
  BY DEF HostInv
<1>5. /\ fh' = [registered |-> fh'.registered, cache |-> fh'.cache, calls |-> fh'.calls,
                told |-> fh'.told, bus |-> fh'.bus]
      /\ fh'.registered \in Deployed /\ fh'.cache \in Deployed /\ fh'.calls = calls /\ fh'.told = told
  BY <1>4
<1>6. \A k \in Loads : told[k] \in Told(calls[k].pc)
  BY <1>1, <1>2, <1>3
<1> QED
  BY <1>2, <1>3, <1>5, <1>6 DEF HostInv

LEMMA LoadRemoteKeeps == ASSUME HostInv, NEW l \in Loads, LoadRemote(l) PROVE HostInv'
<1>1. /\ fh.calls[l] \in HostCalls /\ fh.calls[l].pc = "idle" /\ fh.told[l] = <<>>
      /\ fh.calls \in [Loads -> HostCalls] /\ fh.told \in [Loads -> Tellings]
      /\ fh.cache \in Deployed /\ fh.registered \in Deployed
  BY ToldIs DEF HostInv, LoadRemote
<1>2. PICK v, cache : v = fh.registered /\ cache = fh.cache
  OBVIOUS
<1>3. CASE fh.cache # NoVersion
  <2>1. PICK new : new = [fh.calls[l] EXCEPT !.pc = "done", !.got = cache]
    OBVIOUS
  <2>2. new \in HostCalls /\ new.pc = "done"
    BY <1>1, <1>2, <2>1 DEF HostCalls
  <2>3. PICK calls, told, t : /\ calls = [fh.calls EXCEPT ![l] = new]
                              /\ told = [fh.told EXCEPT ![l] = t] /\ t = <<>>
    OBVIOUS
  <2>4. told = fh.told
    BY <1>1, <2>3
  <2>5. fh' = [fh EXCEPT !.calls = calls, !.told = told, !.cache = cache]
    BY <1>2, <1>3, <2>1, <2>3, <2>4 DEF LoadRemote, HostInv
  <2>6. t \in Tellings /\ t \in Told(new.pc)
    BY <2>2, <2>3, ToldIs DEF Tellings
  <2> QED
    BY <1>1, <1>2, <2>2, <2>3, <2>5, <2>6, HostTells
<1>4. CASE fh.cache = NoVersion /\ v = NoVersion
  <2>1. PICK new : new = [fh.calls[l] EXCEPT !.pc = "failed"]
    OBVIOUS
  <2>2. new \in HostCalls /\ new.pc = "failed"
    BY <1>1, <2>1 DEF HostCalls
  <2>3. PICK calls, told, t : /\ calls = [fh.calls EXCEPT ![l] = new]
                              /\ told = [fh.told EXCEPT ![l] = t] /\ t = <<"error">>
    OBVIOUS
  <2>4. fh' = [fh EXCEPT !.calls = calls, !.told = told, !.cache = cache]
    BY <1>2, <1>4, <2>1, <2>3 DEF LoadRemote, HostInv
  <2>5. t \in Tellings /\ t \in Told(new.pc)
    BY <2>2, <2>3, ToldIs DEF Tellings
  <2> QED
    BY <1>1, <1>2, <2>2, <2>3, <2>4, <2>5, HostTells
<1>5. CASE fh.cache = NoVersion /\ v # NoVersion
  <2>1. PICK new : new = [fh.calls[l] EXCEPT !.pc = "importing", !.config = v]
    OBVIOUS
  <2>2. new \in HostCalls /\ new.pc = "importing"
    BY <1>1, <1>2, <2>1 DEF HostCalls
  <2>3. PICK calls, told, t : /\ calls = [fh.calls EXCEPT ![l] = new]
                              /\ told = [fh.told EXCEPT ![l] = t] /\ t = <<"loading">>
    OBVIOUS
  <2>4. fh' = [fh EXCEPT !.calls = calls, !.told = told, !.cache = cache]
    BY <1>2, <1>5, <2>1, <2>3 DEF LoadRemote, HostInv
  <2>5. t \in Tellings /\ t \in Told(new.pc)
    BY <2>2, <2>3, ToldIs DEF Tellings
  <2> QED
    BY <1>1, <1>2, <2>2, <2>3, <2>4, <2>5, HostTells
<1> QED
  BY <1>3, <1>4, <1>5

LEMMA RemoteLoadedKeeps == ASSUME HostInv, NEW l \in Loads, RemoteLoaded(l) PROVE HostInv'
<1>1. /\ fh.calls[l] \in HostCalls /\ fh.calls[l].pc = "importing" /\ fh.told[l] = <<"loading">>
      /\ fh.calls \in [Loads -> HostCalls] /\ fh.told \in [Loads -> Tellings] /\ fh.cache \in Deployed
  BY ToldIs DEF HostInv, RemoteLoaded
<1>2. PICK v \in Deployed : v = fh.calls[l].config
  BY <1>1 DEF HostCalls
<1>3. PICK cache : cache = fh.cache
  OBVIOUS
<1>4. CASE v \in Hidden
  <2>1. PICK new : new = [fh.calls[l] EXCEPT !.pc = "failed"]
    OBVIOUS
  <2>2. new \in HostCalls /\ new.pc = "failed"
    BY <1>1, <2>1 DEF HostCalls
  <2>3. PICK calls, told, t : /\ calls = [fh.calls EXCEPT ![l] = new]
                              /\ told = [fh.told EXCEPT ![l] = t] /\ t = <<"loading", "error">>
    OBVIOUS
  <2>4. Append(fh.told[l], "error") = t
    BY <1>1, <2>3, SaidNext
  <2>5. fh' = [fh EXCEPT !.calls = calls, !.told = told, !.cache = cache]
    BY <1>2, <1>3, <1>4, <2>1, <2>3, <2>4 DEF RemoteLoaded, HostInv
  <2>6. t \in Tellings /\ t \in Told(new.pc)
    BY <2>2, <2>3, ToldIs DEF Tellings
  <2> QED
    BY <1>1, <1>3, <2>2, <2>3, <2>5, <2>6, HostTells
<1>5. CASE v \notin Hidden
  <2>1. PICK new : new = [fh.calls[l] EXCEPT !.pc = "done", !.got = v]
    OBVIOUS
  <2>2. new \in HostCalls /\ new.pc = "done"
    BY <1>1, <2>1 DEF HostCalls
  <2>3. PICK calls, told, t : /\ calls = [fh.calls EXCEPT ![l] = new]
                              /\ told = [fh.told EXCEPT ![l] = t] /\ t = <<"loading", "loaded">>
    OBVIOUS
  <2>4. Append(fh.told[l], "loaded") = t
    BY <1>1, <2>3, SaidNext
  <2>5. fh' = [fh EXCEPT !.calls = calls, !.told = told, !.cache = v]
    BY <1>1, <1>2, <1>5, <2>1, <2>3, <2>4 DEF RemoteLoaded, HostInv
  <2>6. t \in Tellings /\ t \in Told(new.pc)
    BY <2>2, <2>3, ToldIs DEF Tellings
  <2> QED
    BY <1>1, <1>2, <2>2, <2>3, <2>5, <2>6, HostTells
<1> QED
  BY <1>4, <1>5

\* Steps that tell nothing of a load.
LEMMA HostQuiet ==
  ASSUME HostInv, NEW b, NEW n \in Deployed, fh' = [fh EXCEPT !.bus = b, !.registered = n]
  PROVE  HostInv'
<1>1. fh' = [registered |-> n, cache |-> fh.cache, calls |-> fh.calls, told |-> fh.told, bus |-> b]
  BY DEF HostInv
<1>2. /\ fh' = [registered |-> fh'.registered, cache |-> fh'.cache, calls |-> fh'.calls,
                told |-> fh'.told, bus |-> fh'.bus]
      /\ fh'.registered = n /\ fh'.cache = fh.cache /\ fh'.calls = fh.calls /\ fh'.told = fh.told
  BY <1>1
<1> QED
  BY <1>2 DEF HostInv

LEMMA HostStarts == ASSUME FHInit PROVE HostInv
<1>1. NoLoad \in HostCalls /\ NoLoad.pc = "idle" /\ 0 \in Deployed
  BY FederationAssumption DEF NoLoad, HostCalls, NoVersion, Deployed
<1>2. PICK calls, told : calls = [l \in Loads |-> NoLoad] /\ told = [l \in Loads |-> <<>>]
  OBVIOUS
<1>3. /\ calls \in [Loads -> HostCalls] /\ told \in [Loads -> Tellings]
      /\ \A l \in Loads : told[l] \in Told(calls[l].pc)
  BY <1>1, <1>2, ToldIs DEF Tellings
<1>4. fh = [registered |-> 0, cache |-> 0, calls |-> calls, told |-> told, bus |-> <<>>]
  BY <1>2 DEF FHInit, NoVersion
<1>5. /\ fh = [registered |-> fh.registered, cache |-> fh.cache, calls |-> fh.calls,
               told |-> fh.told, bus |-> fh.bus]
      /\ fh.registered = 0 /\ fh.cache = 0 /\ fh.calls = calls /\ fh.told = told
  BY <1>4
<1> QED
  BY <1>1, <1>3, <1>5 DEF HostInv

LEMMA HostStep == ASSUME HostInv, [FHNext]_fh PROVE HostInv'
<1>1. CASE UNCHANGED fh
  BY <1>1 DEF HostInv
<1>2. CASE RegisterRemote
  <2>1. PICK n \in Deployed : n = fh.registered + 1
    BY <1>2, FederationAssumption DEF HostInv, RegisterRemote, Deployed
  <2>2. PICK b : b = fh.bus
    OBVIOUS
  <2>3. fh' = [fh EXCEPT !.bus = b, !.registered = n]
    BY <1>2, <2>1, <2>2 DEF RegisterRemote, HostInv
  <2> QED
    BY <2>3, HostQuiet
<1>3. CASE Emit \/ \E k \in {"on", "once"} : On(k) \/ Off(k)
  <2>1. PICK n \in Deployed : n = fh.registered
    BY DEF HostInv
  <2>2. PICK b : fh' = [fh EXCEPT !.bus = b]
    BY <1>3 DEF Emit, On, Off
  <2>3. fh' = [fh EXCEPT !.bus = b, !.registered = n]
    BY <2>1, <2>2 DEF HostInv
  <2> QED
    BY <2>3, HostQuiet
<1> QED
  BY <1>1, <1>2, <1>3, LoadRemoteKeeps, RemoteLoadedKeeps DEF FHNext

\* Every version of a package is shared once.
Entry == [version : 1 .. MaxDeploy, singleton : BOOLEAN]
SharedInv ==
  /\ fd = [shared |-> fd.shared, container |-> fd.container, scope |-> fd.scope]
  /\ fd.shared \in Seq(Entry)
  /\ \A j, k \in 1 .. Len(fd.shared) : fd.shared[j].version = fd.shared[k].version => j = k

\* The entries keep their place and their version; new ones come after them.
Grows(old, new) ==
  /\ new \in Seq(Entry) /\ Len(old) <= Len(new)
  /\ \A k \in 1 .. Len(old) : new[k].version = old[k].version

LEMMA RegisterGrows ==
  ASSUME SharedInv, NEW v \in 1 .. MaxDeploy, NEW b \in BOOLEAN, Register(v, b)
  PROVE  SharedInv' /\ Grows(fd.shared, fd'.shared)
<1>1. PICK q \in Seq(Entry) : q = fd.shared
  BY DEF SharedInv
<1>2. PICK n \in Nat : n = Len(q) /\ \A k \in 1 .. n : q[k] \in Entry
  BY <1>1
<1>3. PICK entry \in Entry : entry = [version |-> v, singleton |-> b]
  BY DEF Entry
<1>4. entry.version = v
  BY <1>3
<1>5. \A j, k \in 1 .. n : q[j].version = q[k].version => j = k
  BY <1>1, <1>2 DEF SharedInv
<1>6. PICK old : old = {k \in 1 .. n : q[k].version = v}
  OBVIOUS
<1>7. ASSUME NEW r, fd' = [fd EXCEPT !.shared = r]
      PROVE  /\ fd' = [shared |-> fd'.shared, container |-> fd'.container, scope |-> fd'.scope]
             /\ fd'.shared = r
  <2>1. fd' = [shared |-> r, container |-> fd.container, scope |-> fd.scope]
    BY <1>7 DEF SharedInv
  <2> QED
    BY <2>1
<1>8. CASE old = {}
  <2>1. PICK r : r = Append(q, entry)
    OBVIOUS
  <2>2. fd' = [fd EXCEPT !.shared = r]
    BY <1>1, <1>2, <1>3, <1>6, <1>8, <2>1 DEF Register, SharedInv
  <2>3. /\ r \in Seq(Entry) /\ Len(r) = n + 1 /\ r[n + 1] = entry
        /\ \A k \in 1 .. n : r[k] = q[k]
    BY <1>1, <1>2, <1>3, <2>1
  <2>4. \A k \in 1 .. n : q[k].version # v
    BY <1>6, <1>8
  <2>5. ASSUME NEW j \in 1 .. n + 1, NEW k \in 1 .. n + 1, r[j].version = r[k].version PROVE j = k
    <3>1. CASE j \in 1 .. n /\ k \in 1 .. n
      BY <1>5, <2>3, <2>5, <3>1
    <3>2. CASE j = n + 1 /\ k \in 1 .. n
      BY <1>4, <2>3, <2>4, <2>5, <3>2
    <3>3. CASE k = n + 1 /\ j \in 1 .. n
      BY <1>4, <2>3, <2>4, <2>5, <3>3
    <3> QED
      BY <3>1, <3>2, <3>3
  <2>6. Grows(q, r)
    BY <1>2, <2>3 DEF Grows
  <2> QED
    BY <1>1, <1>7, <2>2, <2>3, <2>5, <2>6 DEF SharedInv
<1>9. CASE old # {}
  <2>1. PICK i \in 1 .. n : i = CHOOSE k \in old : TRUE
    BY <1>6, <1>9
  <2>2. q[i].version = v
    BY <1>6, <1>9, <2>1
  <2>3. PICK r : r = [q EXCEPT ![i] = entry]
    OBVIOUS
  <2>4. fd' = [fd EXCEPT !.shared = r]
    BY <1>1, <1>2, <1>3, <1>6, <1>9, <2>1, <2>3 DEF Register, SharedInv
  <2>5. /\ r \in Seq(Entry) /\ Len(r) = n
        /\ \A k \in 1 .. n : r[k] = IF k = i THEN entry ELSE q[k]
    BY <1>1, <1>2, <1>3, <2>1, <2>3, ExceptSeq
  <2>6. \A k \in 1 .. n : r[k].version = q[k].version
    BY <1>4, <2>2, <2>5
  <2>7. Grows(q, r)
    BY <1>2, <2>5, <2>6 DEF Grows
  <2>8. \A j, k \in 1 .. n : r[j].version = r[k].version => j = k
    BY <1>5, <2>6
  <2> QED
    BY <1>1, <1>7, <2>4, <2>5, <2>7, <2>8 DEF SharedInv
<1> QED
  BY <1>8, <1>9

\* The first entry in a range is the first one still, and there is a last one.
LEMMA ResolvedKept ==
  ASSUME NEW old \in Seq(Entry), NEW new, Grows(old, new), NEW range \in SUBSET (1 .. MaxDeploy)
  PROVE  /\ ResolveShared(old, range) \in {NoVersion, ResolveShared(new, range)}
         /\ ResolveLatest(new) = NoVersion => ResolveLatest(old) = NoVersion
<1>1. PICK n \in Nat, m \in Nat : n = Len(old) /\ m = Len(new)
  BY DEF Grows
<1>2. /\ n <= m /\ \A k \in 1 .. n : new[k].version = old[k].version
      /\ DOMAIN old = 1 .. n /\ DOMAIN new = 1 .. m
      /\ \A k \in 1 .. m : new[k] \in Entry
  BY <1>1 DEF Grows
<1>3. PICK fits, suits : /\ fits = {k \in DOMAIN old : old[k].version \in range}
                         /\ suits = {k \in DOMAIN new : new[k].version \in range}
  OBVIOUS
<1>4. fits \subseteq suits /\ fits \subseteq Nat /\ \A k \in suits : k <= n => k \in fits
  BY <1>2, <1>3
<1>5. fits = {} => ResolveShared(old, range) = NoVersion
  BY <1>3 DEF ResolveShared
<1>6. ASSUME fits # {} PROVE ResolveShared(old, range) = ResolveShared(new, range)
  <2>1. PICK i \in fits : \A j \in fits : i <= j
    BY <1>4, <1>6, LeastNat
  <2>2. i \in 1 .. n /\ i \in suits /\ \A j \in suits : i <= j
    BY <1>2, <1>3, <1>4, <2>1
  <2>3. /\ (CHOOSE k \in fits : \A j \in fits : k <= j) = i
        /\ (CHOOSE k \in suits : \A j \in suits : k <= j) = i
    <3>1. \A k \in fits : (\A j \in fits : k <= j) => k = i
      BY <1>2, <1>3, <1>4, <2>1
    <3>2. \A k \in suits : (\A j \in suits : k <= j) => k = i
      BY <1>2, <1>3, <2>2
    <3> QED
      BY <2>1, <2>2, <3>1, <3>2
  <2>4. ResolveShared(old, range) = old[i].version /\ ResolveShared(new, range) = new[i].version
    BY <1>3, <1>4, <1>6, <2>3 DEF ResolveShared
  <2> QED
    BY <1>2, <2>2, <2>4
<1>7. ASSUME ResolveLatest(new) = NoVersion PROVE ResolveLatest(old) = NoVersion
  <2>1. CASE m = 0
    <3>1. n = 0
      BY <1>2, <2>1
    <3>2. old = <<>>
      BY <1>1, <3>1, EmptySeq
    <3> QED
      BY <3>2 DEF ResolveLatest
  <2>2. CASE m # 0
    <3>1. new[m] \in Entry
      BY <1>2, <2>2
    <3>2. new[m].version # NoVersion
      BY <3>1, FederationAssumption DEF Entry, NoVersion
    <3>3. new # <<>> => ResolveLatest(new) = new[m].version
      BY <1>1 DEF ResolveLatest, Last
    <3>4. new = <<>> => m = 0
      BY <1>1
    <3> QED
      BY <1>7, <2>2, <3>2, <3>3, <3>4
  <2> QED
    BY <2>1, <2>2
<1> QED
  BY <1>5, <1>6, <1>7

LEMMA SharedStarts == ASSUME FDInit PROVE SharedInv
<1>1. fd.shared = <<>> /\ fd = [shared |-> fd.shared, container |-> fd.container, scope |-> fd.scope]
  BY DEF FDInit
<1>2. fd.shared \in Seq(Entry) /\ Len(fd.shared) = 0
  BY <1>1
<1> QED
  BY <1>1, <1>2 DEF SharedInv

\* What is answered now goes on being answered.
Answered ==
  /\ \A range \in SUBSET (1 .. MaxDeploy) :
       ResolveShared(fd.shared, range) \in {NoVersion, ResolveShared(fd'.shared, range)}
  /\ ResolveLatest(fd'.shared) = NoVersion => ResolveLatest(fd.shared) = NoVersion

LEMMA SharedStep == ASSUME SharedInv, [FDNext]_fd PROVE SharedInv' /\ [Answered]_fd
<1>1. CASE UNCHANGED fd
  BY <1>1 DEF SharedInv
<1>2. CASE \E v \in 1 .. MaxDeploy, b \in BOOLEAN : Register(v, b)
  <2>1. SharedInv' /\ Grows(fd.shared, fd'.shared)
    BY <1>2, RegisterGrows
  <2>2. fd.shared \in Seq(Entry)
    BY DEF SharedInv
  <2>3. Answered
    BY <2>1, <2>2, ResolvedKept DEF Answered
  <2> QED
    BY <2>1, <2>3
<1>3. CASE ContainerInit \/ ContainerGet
  <2>1. fd'.shared = fd.shared
    BY <1>3 DEF ContainerInit, ContainerGet, SharedInv
  <2>2. fd' = [shared |-> fd'.shared, container |-> fd'.container, scope |-> fd'.scope]
    <3>1. CASE ContainerInit
      <4>1. fd' = [shared |-> fd.shared, container |-> fd.container, scope |-> fd.scope + 1]
        BY <3>1 DEF ContainerInit, SharedInv
      <4> QED
        BY <4>1
    <3>2. CASE ContainerGet
      <4>1. fd' = [shared |-> fd.shared, container |-> fd.scope, scope |-> fd.scope]
        BY <3>2 DEF ContainerGet, SharedInv
      <4> QED
        BY <4>1
    <3> QED
      BY <1>3, <3>1, <3>2
  <2>3. Answered
    BY <2>1 DEF Answered
  <2> QED
    BY <2>1, <2>2, <2>3 DEF SharedInv
<1> QED
  BY <1>1, <1>2, <1>3 DEF FDNext

LEMMA HostFromInv == ASSUME HostInv, SharedInv PROVE HostReports
  BY ToldIs DEF HostInv, HostCalls, SharedInv, HostReports

\* While they are synchronised both stores are as their listeners saw them last, and
\* agree on what was set since.
SyncInv ==
  /\ fs = [at |-> fs.at, prev |-> fs.prev, synced |-> fs.synced, set |-> fs.set]
  /\ fs.at \in [1 .. 2 -> [StateKeys -> Values]] /\ fs.synced \in BOOLEAN /\ fs.set \subseteq StateKeys
  /\ fs.synced => fs.prev = fs.at /\ \A k \in fs.set : fs.at[1][k] = fs.at[2][k]

LEMMA SetStateKeeps ==
  ASSUME SyncInv, NEW i \in 1 .. 2, NEW k \in StateKeys, NEW v \in Values, SetState(i, k, v)
  PROVE  SyncInv'
<1>1. PICK at \in [1 .. 2 -> [StateKeys -> Values]] : at = fs.at
  BY DEF SyncInv
<1>2. PICK j \in 1 .. 2 : j = 3 - i /\ j # i
  OBVIOUS
<1>3. PICK new : new = [at[i] EXCEPT ![k] = v]
  OBVIOUS
<1>4. at[i] \in [StateKeys -> Values] /\ at[j] \in [StateKeys -> Values]
  OBVIOUS
<1>5. new \in [StateKeys -> Values] /\ new[k] = v /\ \A x \in StateKeys : x # k => new[x] = at[i][x]
  BY <1>3, <1>4
<1>6. PICK set : set = IF at[i][k] = v THEN fs.set ELSE fs.set \cup {k}
  OBVIOUS
<1>7. set \subseteq StateKeys
  BY <1>6 DEF SyncInv
<1>8. ASSUME NEW a \in [1 .. 2 -> [StateKeys -> Values]], NEW p, NEW s,
             s = [at |-> a, prev |-> p, synced |-> fs.synced, set |-> fs.set],
             s = Propagate(fs, i, new),
             fs.synced => p = a /\ \A x \in set : a[1][x] = a[2][x]
      PROVE  SyncInv'
  <2>1. fs' = [s EXCEPT !.set = set]
    BY <1>1, <1>3, <1>6, <1>8 DEF SetState
  <2>2. fs' = [at |-> a, prev |-> p, synced |-> fs.synced, set |-> set]
    BY <1>8, <2>1
  <2>3. /\ fs' = [at |-> fs'.at, prev |-> fs'.prev, synced |-> fs'.synced, set |-> fs'.set]
        /\ fs'.at = a /\ fs'.prev = p /\ fs'.synced = fs.synced /\ fs'.set = set
    BY <2>2
  <2> QED
    BY <1>7, <1>8, <2>3 DEF SyncInv
<1> DEFINE ks == Delta(new, fs.prev[i])
           there == Merged(fs.at[j], new, ks)
           back == Delta(there, fs.prev[j])
           here == Merged(new, there, back)
<1>9. PICK alone : alone = [at EXCEPT ![i] = new]
  OBVIOUS
<1>10. alone \in [1 .. 2 -> [StateKeys -> Values]] /\ alone[i] = new /\ alone[j] = at[j]
  BY <1>2, <1>5, <1>9
<1>11. CASE ~fs.synced
  <2>1. Propagate(fs, i, new) = [fs EXCEPT !.at[i] = new]
    BY <1>11 DEF Propagate
  <2>2. [fs EXCEPT !.at[i] = new] = [at |-> alone, prev |-> fs.prev, synced |-> fs.synced, set |-> fs.set]
    BY <1>1, <1>9 DEF SyncInv
  <2> QED
    BY <1>8, <1>10, <1>11, <2>1, <2>2
<1>12. CASE fs.synced /\ at[i][k] = v
  <2>1. new = at[i] /\ fs.prev = at
    BY <1>1, <1>3, <1>4, <1>12 DEF SyncInv
  <2>2. ks = {}
    BY <1>1, <2>1 DEF Delta
  <2>3. Propagate(fs, i, new) = [fs EXCEPT !.at[i] = new]
    BY <2>2 DEF Propagate
  <2>4. alone = at
    BY <1>9, <2>1
  <2>5. [fs EXCEPT !.at[i] = new] = [at |-> at, prev |-> at, synced |-> fs.synced, set |-> fs.set]
    BY <1>1, <1>9, <2>1, <2>4 DEF SyncInv
  <2>6. \A x \in set : at[1][x] = at[2][x]
    BY <1>1, <1>6, <1>12 DEF SyncInv
  <2> QED
    BY <1>8, <2>3, <2>5, <2>6
<1>13. CASE fs.synced /\ at[i][k] # v
  <2>1. fs.prev = at
    BY <1>1, <1>13 DEF SyncInv
  <2>2. ks = {k}
    BY <1>5, <1>13, <2>1 DEF Delta
  <2>3. /\ there \in [StateKeys -> Values] /\ there[k] = v
        /\ \A x \in StateKeys : x # k => there[x] = at[j][x]
    BY <1>1, <1>4, <1>5, <2>2 DEF Merged
  <2>4. back = IF at[j][k] = v THEN {} ELSE {k}
    BY <2>1, <2>3 DEF Delta
  <2>5. here = new
    <3>1. here = [x \in StateKeys |-> IF x \in back THEN there[x] ELSE new[x]]
      BY DEF Merged
    <3>2. \A x \in StateKeys : here[x] = new[x]
      BY <1>5, <2>3, <2>4, <3>1
    <3> QED
      BY <1>5, <3>1, <3>2
  <2>6. PICK a : a = [x \in 1 .. 2 |-> IF x = i THEN new ELSE there]
    OBVIOUS
  <2>7. a \in [1 .. 2 -> [StateKeys -> Values]] /\ a[i] = new /\ a[j] = there
    BY <1>2, <1>5, <2>3, <2>6
  <2>8. \A x \in set : a[1][x] = a[2][x]
    <3>1. SUFFICES ASSUME NEW x \in set PROVE a[i][x] = a[j][x]
      BY <1>2
    <3>2. x \in StateKeys
      BY <1>7
    <3>3. CASE x = k
      BY <1>5, <2>3, <2>7, <3>3
    <3>4. CASE x # k
      <4>1. x \in fs.set
        BY <1>6, <3>4
      <4>2. at[i][x] = at[j][x]
        BY <1>1, <1>2, <1>13, <4>1 DEF SyncInv
      <4> QED
        BY <1>5, <2>3, <2>7, <3>2, <3>4, <4>2
    <3> QED
      BY <3>3, <3>4
  <2>9. Propagate(fs, i, new) = [at |-> a, prev |-> a, synced |-> fs.synced, set |-> fs.set]
    <3> HIDE DEF ks, there, back, here
    <3>1. CASE at[j][k] = v
      <4>1. back = {} /\ ks # {}
        BY <2>2, <2>4, <3>1
      <4>2. Propagate(fs, i, new) = [fs EXCEPT !.at[i] = new, !.prev[i] = new, !.at[j] = there]
        BY <1>2, <1>13, <4>1 DEF Propagate, ks, there, back
      <4>3. at[j] = there
        BY <1>4, <2>3, <3>1
      <4>4. alone = a
        <5>1. \A x \in 1 .. 2 : alone[x] = a[x]
          BY <1>2, <1>10, <2>7, <4>3
        <5> QED
          BY <1>10, <2>7, <5>1
      <4>5. [alone EXCEPT ![j] = there] = a
        BY <1>10, <2>7, <4>4
      <4>6. [fs EXCEPT !.at[i] = new]
            = [at |-> a, prev |-> at, synced |-> fs.synced, set |-> fs.set]
        BY <1>1, <1>9, <2>1, <4>4 DEF SyncInv
      <4>7. [[at |-> a, prev |-> at, synced |-> fs.synced, set |-> fs.set] EXCEPT !.prev[i] = new]
            = [at |-> a, prev |-> a, synced |-> fs.synced, set |-> fs.set]
        BY <1>9, <4>4
      <4>8. [[at |-> a, prev |-> a, synced |-> fs.synced, set |-> fs.set] EXCEPT !.at[j] = there]
            = [at |-> a, prev |-> a, synced |-> fs.synced, set |-> fs.set]
        BY <4>4, <4>5
      <4> QED
        BY <4>2, <4>6, <4>7, <4>8
    <3>2. CASE at[j][k] # v
      <4>1. back # {} /\ ks # {}
        BY <2>2, <2>4, <3>2
      <4>2. Propagate(fs, i, new) = [fs EXCEPT !.at = a, !.prev = a]
        BY <1>2, <1>13, <2>5, <2>6, <4>1 DEF Propagate, ks, there, back, here
      <4> QED
        BY <4>2 DEF SyncInv
    <3> QED
      BY <3>1, <3>2
  <2> QED
    BY <1>8, <2>7, <2>8, <2>9
<1> QED
  BY <1>11, <1>12, <1>13 DEF SyncInv

LEMMA SyncStarts == ASSUME FSInit PROVE SyncInv
<1>1. PICK a : a = [k \in StateKeys |-> CHOOSE v \in Values : TRUE]
  OBVIOUS
<1>2. a \in [StateKeys -> Values]
  BY <1>1, FederationAssumption
<1>3. fs = [at |-> <<a, a>>, prev |-> <<a, a>>, synced |-> FALSE, set |-> {}]
  BY <1>1 DEF FSInit
<1>4. <<a, a>> \in [1 .. 2 -> [StateKeys -> Values]]
  BY <1>2
<1> QED
  BY <1>3, <1>4 DEF SyncInv

LEMMA SyncStep == ASSUME SyncInv, [FSNext]_fs PROVE SyncInv'
<1>1. CASE UNCHANGED fs
  BY <1>1 DEF SyncInv
<1>2. CASE StartSync
  <2>1. fs' = [at |-> fs.at, prev |-> fs.at, synced |-> TRUE, set |-> {}]
    BY <1>2 DEF StartSync, SyncInv
  <2> QED
    BY <2>1 DEF SyncInv
<1>3. CASE StopSync
  <2>1. fs' = [at |-> fs.at, prev |-> fs.prev, synced |-> FALSE, set |-> fs.set]
    BY <1>3 DEF StopSync, SyncInv
  <2> QED
    BY <2>1 DEF SyncInv
<1>4. CASE \E i \in 1 .. 2, k \in StateKeys, v \in Values : SetState(i, k, v)
  BY <1>4, SetStateKeeps
<1> QED
  BY <1>1, <1>2, <1>3, <1>4 DEF FSNext

LEMMA SyncFromInv == ASSUME SyncInv PROVE StoresAgree
  BY DEF SyncInv, StoresAgree

-----------------------------------------------------------------------------
(* Fallback: the version that is chosen *)

Triple == Nat \X Nat \X Nat

LEMMA TripleIs ==
  ASSUME NEW v \in Triple
  PROVE  /\ v[1] \in Nat /\ v[2] \in Nat /\ v[3] \in Nat /\ v = <<v[1], v[2], v[3]>>
         /\ v # Unparseable /\ v # Unset
<1>1. v[1] \in Nat /\ v[2] \in Nat /\ v[3] \in Nat /\ v = <<v[1], v[2], v[3]>>
  BY DEF Triple
<1>2. v # Unparseable
  BY <1>1 DEF Unparseable
<1>3. v # Unset
  BY <1>1 DEF Unset
<1> QED
  BY <1>1, <1>2, <1>3

\* The order of versions, spelt out.
LEMMA NewerIs ==
  ASSUME NEW a \in Triple, NEW b \in Triple
  PROVE  NewerThan(a, b) <=> \/ a[1] > b[1]
                             \/ a[1] = b[1] /\ a[2] > b[2]
                             \/ a[1] = b[1] /\ a[2] = b[2] /\ a[3] > b[3]
<1>1. 1 .. 3 = {1, 2, 3} /\ 1 .. 1 - 1 = {} /\ 1 .. 2 - 1 = {1} /\ 1 .. 3 - 1 = {1, 2}
  OBVIOUS
<1> QED
  BY <1>1 DEF NewerThan

LEMMA NewerOrders ==
  ASSUME NEW a \in Triple, NEW b \in Triple
  PROVE  /\ ~NewerThan(a, a)
         /\ ~(NewerThan(a, b) /\ NewerThan(b, a))
         /\ a = b \/ NewerThan(a, b) \/ NewerThan(b, a)
<1>1. /\ a[1] \in Nat /\ a[2] \in Nat /\ a[3] \in Nat /\ a = <<a[1], a[2], a[3]>>
      /\ b[1] \in Nat /\ b[2] \in Nat /\ b[3] \in Nat /\ b = <<b[1], b[2], b[3]>>
  BY TripleIs
<1> QED
  BY <1>1, NewerIs

LEMMA NewerThrough ==
  ASSUME NEW a \in Triple, NEW b \in Triple, NEW d \in Triple, NewerThan(a, b), ~NewerThan(d, b)
  PROVE  ~NewerThan(d, a)
<1>1. /\ a[1] \in Nat /\ a[2] \in Nat /\ a[3] \in Nat
      /\ b[1] \in Nat /\ b[2] \in Nat /\ b[3] \in Nat
      /\ d[1] \in Nat /\ d[2] \in Nat /\ d[3] \in Nat
  BY TripleIs
<1> QED
  BY <1>1, NewerIs

\* The pass over a list of versions that ResolveVersion makes.
Pass(f, versions, c, m) ==
  f = [k \in 0 .. m |-> IF k = 0 THEN Unparseable ELSE Better(versions[k], f[k - 1], c)]

LEMMA PassExists ==
  ASSUME NEW versions, NEW c, NEW n \in Nat
  PROVE  \E f : Pass(f, versions, c, n)
<1> DEFINE Bad == {m \in Nat : ~\E f : Pass(f, versions, c, m)}
<1>1. SUFFICES ASSUME Bad # {} PROVE FALSE
  OBVIOUS
<1>2. PICK m \in Bad : \A l \in Bad : m <= l
  BY <1>1, LeastNat
<1>3. CASE m = 0
  <2>1. PICK f : f = [k \in 0 .. 0 |-> Unparseable]
    OBVIOUS
  <2>2. f = [k \in 0 .. 0 |-> IF k = 0 THEN Unparseable ELSE Better(versions[k], f[k - 1], c)]
    BY <2>1
  <2> QED
    BY <1>3, <2>2 DEF Pass
<1>4. CASE m # 0
  <2>1. m - 1 \in Nat /\ m - 1 \notin Bad
    BY <1>2, <1>4
  <2>2. PICK f : Pass(f, versions, c, m - 1)
    BY <2>1
  <2>3. \A k \in 0 .. m - 1 : f[k] = IF k = 0 THEN Unparseable ELSE Better(versions[k], f[k - 1], c)
    BY <2>2 DEF Pass
  <2>4. PICK g : g = [k \in 0 .. m |-> IF k = m THEN Better(versions[m], f[m - 1], c) ELSE f[k]]
    OBVIOUS
  <2>5. ASSUME NEW k \in 0 .. m
        PROVE  g[k] = IF k = 0 THEN Unparseable ELSE Better(versions[k], g[k - 1], c)
    <3>1. CASE k = m
      <4>1. g[m] = Better(versions[m], f[m - 1], c) /\ g[m - 1] = f[m - 1]
        BY <1>2, <1>4, <2>1, <2>4
      <4> QED
        BY <1>4, <3>1, <4>1
    <3>2. CASE k # m
      <4>1. k \in 0 .. m - 1 /\ g[k] = f[k] /\ (k # 0 => g[k - 1] = f[k - 1])
        BY <1>2, <1>4, <2>4, <3>2
      <4> QED
        BY <2>3, <4>1
    <3> QED
      BY <3>1, <3>2
  <2>6. g = [k \in 0 .. m |-> IF k = 0 THEN Unparseable ELSE Better(versions[k], g[k - 1], c)]
    BY <2>4, <2>5
  <2> QED
    BY <1>2, <2>6 DEF Pass
<1> QED
  BY <1>3, <1>4

\* What the pass has after k versions is the newest of those that satisfy the constraint.
LEMMA PassRight ==
  ASSUME NEW versions \in Seq(Triple \cup {Unparseable}), NEW c, NEW f, Pass(f, versions, c, Len(versions))
  PROVE  LET best == f[Len(versions)]
             ok == {v \in {versions[k] : k \in 1 .. Len(versions)} : Satisfies(v, c)}
         IN  /\ best = Unparseable <=> ok = {}
             /\ ok # {} => best \in ok /\ \A v \in ok : ~NewerThan(v, best)
<1> DEFINE n == Len(versions)
           Right(k) == /\ f[k] # Unparseable => \E j \in 1 .. k : f[k] = versions[j] /\ Satisfies(versions[j], c)
                       /\ \A j \in 1 .. k : Satisfies(versions[j], c) => f[k] # Unparseable /\ ~NewerThan(versions[j], f[k])
           Bad == {k \in 0 .. n : ~Right(k)}
<1>1. n \in Nat /\ \A k \in 1 .. n : versions[k] \in Triple \cup {Unparseable}
  BY LenProperties, ElementOfSeq
<1>2. \A k \in 0 .. n : f[k] = IF k = 0 THEN Unparseable ELSE Better(versions[k], f[k - 1], c)
  BY <1>1 DEF Pass
<1>3. ASSUME Bad # {} PROVE FALSE
  <2>1. Bad \subseteq Nat
    BY <1>1
  <2>2. PICK m \in Bad : \A l \in Bad : m <= l
    BY <1>3, <2>1, LeastNat
  <2>3. m \in 0 .. n /\ ~Right(m)
    OBVIOUS
  <2>4. m # 0
    BY <1>2, <2>3
  <2>5. m - 1 \in 0 .. n /\ m \in 1 .. n /\ Right(m - 1)
    <3>1. m - 1 \in 0 .. n /\ m \in 1 .. n /\ m - 1 \notin Bad
      BY <1>1, <2>2, <2>3, <2>4
    <3> QED
      BY <3>1
  <2> DEFINE b == f[m - 1]
             v == versions[m]
  <2>6. f[m] = Better(v, b, c)
    BY <1>2, <2>3, <2>4
  <2>7. \A j \in 1 .. m : j \in 1 .. m - 1 \/ j = m
    BY <2>5
  <2>8. \A j \in 1 .. m - 1 : j \in 1 .. m
    BY <2>5
  <2>9. CASE Satisfies(v, c) /\ (b = Unparseable \/ NewerThan(v, b))
    <3>1. f[m] = v /\ v # Unparseable /\ v \in Triple
      BY <1>1, <2>5, <2>6, <2>9 DEF Better, Satisfies
    <3>2. ~NewerThan(v, v)
      BY <3>1, NewerOrders
    <3>3. ASSUME NEW j \in 1 .. m - 1, Satisfies(versions[j], c) PROVE ~NewerThan(versions[j], v)
      <4>1. b # Unparseable /\ ~NewerThan(versions[j], b)
        BY <2>5, <3>3
      <4>2. PICK i \in 1 .. m - 1 : b = versions[i]
        BY <2>5, <4>1
      <4>3. versions[j] \in Triple /\ b \in Triple
        <5>1. i \in 1 .. n /\ j \in 1 .. n
          BY <1>1, <2>5
        <5> QED
          BY <1>1, <3>3, <4>1, <4>2, <5>1 DEF Satisfies
      <4> QED
        BY <2>9, <3>1, <4>1, <4>3, NewerThrough
    <3>4. Right(m)
      BY <2>5, <2>7, <2>9, <3>1, <3>2, <3>3
    <3> QED
      BY <2>3, <3>4
  <2>10. CASE ~(Satisfies(v, c) /\ (b = Unparseable \/ NewerThan(v, b)))
    <3>1. f[m] = b
      BY <2>6, <2>10 DEF Better
    <3>2. Right(m)
      BY <2>5, <2>7, <2>8, <2>10, <3>1
    <3> QED
      BY <2>3, <3>2
  <2> QED
    BY <2>9, <2>10
<1>4. Right(n)
  BY <1>1, <1>3
<1> QED
  BY <1>4 DEF Satisfies

LEMMA ResolveRight ==
  ASSUME NEW versions \in Seq(Triple \cup {Unparseable}), NEW c
  PROVE  LET best == ResolveVersion(versions, c)
             ok == {v \in {versions[k] : k \in 1 .. Len(versions)} : Satisfies(v, c)}
         IN  /\ best = Unparseable <=> ok = {}
             /\ ok # {} => best \in ok /\ \A v \in ok : ~NewerThan(v, best)
<1> DEFINE f == CHOOSE f : Pass(f, versions, c, Len(versions))
<1>1. ResolveVersion(versions, c) = f[Len(versions)]
  BY DEF ResolveVersion, Pass
<1>2. Pass(f, versions, c, Len(versions))
  <2>1. Len(versions) \in Nat
    BY LenProperties
  <2> QED
    BY <2>1, PassExists
<1> HIDE DEF f
<1> QED
  BY <1>1, <1>2, PassRight

\* What VersionsRight says of the inputs.
LEMMA VersionInputs == FVInit => VersionsRight
<1> SUFFICES ASSUME FVInit PROVE VersionsRight
  OBVIOUS
<1> DEFINE c == fv.constraint
           versions == fv.versions
           fits(v) == v # Unparseable /\ IF c.exact # Unset THEN v = c.exact
                                         ELSE c.min # Unparseable /\ c.max # Unparseable
                                              /\ (c.min # Unset => v = c.min \/ NewerThan(v, c.min))
                                              /\ (c.max # Unset => v = c.max \/ NewerThan(c.max, v))
<1>1. VersionTriples \subseteq Triple \cup {Unparseable}
  BY DEF VersionTriples, Triple
<1>2. /\ versions \in {<<>>} \cup {<<a, b>> : a, b \in VersionTriples}
      /\ c.exact \in VersionTriples \cup {Unset} /\ c.min \in VersionTriples \cup {Unset}
      /\ c.max \in VersionTriples \cup {Unset}
  BY DEF FVInit, VersionConstraint
<1> HIDE DEF c, versions
<1>3. versions \in Seq(Triple \cup {Unparseable}) /\ DOMAIN versions = 1 .. Len(versions)
  <2>1. CASE versions = <<>>
    BY <2>1
  <2>2. CASE versions \in {<<a, b>> : a, b \in VersionTriples}
    <3>1. PICK a \in Triple \cup {Unparseable}, b \in Triple \cup {Unparseable} : versions = <<a, b>>
      BY <1>1, <2>2
    <3> QED
      BY <3>1
  <2> QED
    BY <1>2, <2>1, <2>2
<1>4. ASSUME NEW k \in 1 .. Len(versions) PROVE fits(versions[k]) <=> Satisfies(versions[k], c)
  <2>1. versions[k] \in Triple \cup {Unparseable}
    BY <1>3, ElementOfSeq
  <2>2. CASE versions[k] = Unparseable
    BY <2>2 DEF Satisfies
  <2>3. CASE versions[k] \in Triple /\ c.exact = Unset /\ c.min # Unparseable /\ c.max # Unparseable
    <3>1. versions[k] # Unparseable
      BY <2>3, TripleIs
    <3>2. c.min # Unset => (~NewerThan(c.min, versions[k]) <=> versions[k] = c.min \/ NewerThan(versions[k], c.min))
      <4>1. ASSUME c.min # Unset PROVE c.min \in Triple
        BY <1>1, <1>2, <2>3, <4>1
      <4> QED
        BY <2>3, <4>1, NewerOrders
    <3>3. c.max # Unset => (~NewerThan(versions[k], c.max) <=> versions[k] = c.max \/ NewerThan(c.max, versions[k]))
      <4>1. ASSUME c.max # Unset PROVE c.max \in Triple
        BY <1>1, <1>2, <2>3, <4>1
      <4> QED
        BY <2>3, <4>1, NewerOrders
    <3> QED
      BY <2>3, <3>1, <3>2, <3>3 DEF Satisfies
  <2>4. CASE versions[k] \in Triple /\ ~(c.exact = Unset /\ c.min # Unparseable /\ c.max # Unparseable)
    BY <2>4 DEF Satisfies
  <2> QED
    BY <2>1, <2>2, <2>3, <2>4
<1> DEFINE ok == {v \in {versions[k] : k \in DOMAIN versions} : fits(v)}
           chosen == ResolveVersion(versions, c)
<1>5. ok = {v \in {versions[k] : k \in 1 .. Len(versions)} : Satisfies(v, c)}
  BY <1>3, <1>4
<1>6. (chosen = Unparseable) = (ok = {}) /\ (ok # {} => chosen \in ok /\ \A v \in ok : ~NewerThan(v, chosen))
  BY <1>3, <1>5, ResolveRight
<1>7. ASSUME NEW v \in VersionTriples, NEW base \in VersionTriples
      PROVE  /\ SemverSatisfies(v, "^", base) => CheckCompatibility(v, base)
             /\ CheckCompatibility(v, base) => SemverSatisfies(v, "^", base) \/ (v[2] = base[2] /\ v[3] < base[3])
             /\ SemverSatisfies(v, "~", base) => SemverSatisfies(v, "^", base)
  <2>1. CASE v = Unparseable \/ base = Unparseable
    BY <2>1 DEF SemverSatisfies, CheckCompatibility
  <2>2. CASE v # Unparseable /\ base # Unparseable
    <3>1. v \in Triple /\ base \in Triple
      BY <1>1, <2>2
    <3>2. /\ v[1] \in Nat /\ v[2] \in Nat /\ v[3] \in Nat
          /\ base[1] \in Nat /\ base[2] \in Nat /\ base[3] \in Nat
      BY <3>1, TripleIs
    <3>3. SemverSatisfies(v, "^", base) <=> v[1] = base[1] /\ ~NewerThan(base, v)
      BY <2>2 DEF SemverSatisfies
    <3>4. SemverSatisfies(v, "~", base) <=> v[1] = base[1] /\ v[2] = base[2] /\ ~NewerThan(base, v)
      BY <2>2 DEF SemverSatisfies
    <3>5. CheckCompatibility(v, base) <=> v[1] = base[1] /\ v[2] >= base[2]
      BY <2>2 DEF CheckCompatibility
    <3>6. NewerThan(base, v) <=> \/ base[1] > v[1]
                                 \/ base[1] = v[1] /\ base[2] > v[2]
                                 \/ base[1] = v[1] /\ base[2] = v[2] /\ base[3] > v[3]
      BY <3>1, NewerIs
    <3> QED
      BY <3>2, <3>3, <3>4, <3>5, <3>6
  <2> QED
    BY <2>1, <2>2
<1> QED
  BY <1>6, <1>7 DEF VersionsRight, c, versions

-----------------------------------------------------------------------------
(* Forms: validation *)

\* The place a rule is looked up at is one where it fails, or none.
LEMMA FirstFailing ==
  ASSUME NEW rules \in Seq(ValidationRule), NEW v
  PROVE  RunFieldValidation(rules, v) \in ValidationRule \cup {"none"}
<1> DEFINE I == {i \in 1 .. Len(rules) : ~Validates(rules[i], v)}
           at == SelectInSeq(rules, LAMBDA r : ~Validates(r, v))
<1>1. at = IF I # {} THEN Min(I) ELSE 0
  BY DEF SelectInSeq
<1>2. RunFieldValidation(rules, v) = IF at = 0 THEN "none" ELSE rules[at]
  BY DEF RunFieldValidation
<1>3. CASE I = {}
  BY <1>1, <1>2, <1>3
<1>4. CASE I # {}
  <2>1. I \subseteq Nat /\ I \subseteq 1 .. Len(rules)
    BY LenProperties
  <2>2. \E n \in I : \A m \in I : n <= m
    BY <1>4, <2>1, LeastNat
  <2>3. Min(I) \in I
    BY <2>2 DEF Min
  <2>4. at \in 1 .. Len(rules)
    BY <1>1, <1>4, <2>1, <2>3
  <2> QED
    BY <1>2, <2>4, ElementOfSeq
<1> QED
  BY <1>3, <1>4

\* What a field is found wrong with is what its rules say, or that it differs from the other.
LEMMA FieldFound ==
  ASSUME NEW name \in Fields, NEW v
  PROVE  LET found == ValidateField(Schema, name, v)
             own == RunFieldValidation(Schema.rules[name], v)
         IN  /\ found \in ValidationRule \cup {"none", "differs"}
             /\ found \in ValidationRule => own = found
<1>1. Schema.zod = CrossField /\ Schema.crossField = CrossField
      /\ Schema.rules[name] = <<"required", "minLength">>
  BY DEF Schema
<1>2. Schema.rules[name] \in Seq(ValidationRule)
  BY <1>1 DEF ValidationRule
<1>3. PICK own \in ValidationRule \cup {"none"} : own = RunFieldValidation(Schema.rules[name], v)
  BY <1>2, FirstFailing
<1>4. ValidateField(Schema, name, v) \in {own, "differs"}
  BY <1>1, <1>3, FormAssumption DEF ValidateField, SafeParse
<1> QED
  BY <1>3, <1>4 DEF ValidationRule

LEMMA SchemaFound ==
  ASSUME NEW values \in [Fields -> Typed]
  PROVE  /\ ValidateSchema(Schema, values) \in [Fields -> ValidationRule \cup {"none", "differs"}]
         /\ \A name \in Fields : ValidateSchema(Schema, values)[name] \in ValidationRule =>
              RunFieldValidation(Schema.rules[name], values[name]) = ValidateSchema(Schema, values)[name]
<1> DEFINE found == ValidateSchema(Schema, values)
<1>1. Schema.zod = CrossField /\ Schema.crossField = CrossField
      /\ \A name \in Fields : Schema.rules[name] = <<"required", "minLength">>
  BY DEF Schema
<1>2. DOMAIN values = Fields /\ \A name \in Fields : Schema.rules[name] \in Seq(ValidationRule)
  <2>1. <<"required", "minLength">> \in Seq(ValidationRule)
    BY DEF ValidationRule
  <2> QED
    BY <1>1, <2>1
<1>3. PICK own \in [Fields -> ValidationRule \cup {"none"}] :
        \A name \in Fields : own[name] = RunFieldValidation(Schema.rules[name], values[name])
  <2>1. \A name \in Fields : RunFieldValidation(Schema.rules[name], values[name]) \in ValidationRule \cup {"none"}
    BY <1>2, FirstFailing
  <2>2. PICK own : own = [name \in Fields |-> RunFieldValidation(Schema.rules[name], values[name])]
    OBVIOUS
  <2> QED
    BY <2>1, <2>2
<1>4. DOMAIN found = Fields /\ found = [name \in Fields |-> found[name]]
  BY <1>1, <1>2, FormAssumption DEF ValidateSchema, ValidateWithZodSchema, SafeParse
<1>5. \A name \in Fields : found[name] \in {own[name], "differs"}
  BY <1>1, <1>2, <1>3, FormAssumption DEF ValidateSchema, ValidateWithZodSchema, SafeParse
<1> HIDE DEF found
<1> DEFINE T == ValidationRule \cup {"none", "differs"}
<1>a. \A name \in Fields : found[name] \in T
  BY <1>3, <1>5 DEF ValidationRule
<1>6. \A name \in Fields : found[name] \in ValidationRule => found[name] = own[name]
  BY <1>3, <1>5 DEF ValidationRule
<1> HIDE DEF T
<1>7. found \in [Fields -> T]
  <2>1. [name \in Fields |-> found[name]] \in [Fields -> T]
    BY <1>a
  <2> QED
    BY <1>4, <2>1
<1>8. \A name \in Fields : found[name] \in ValidationRule
                           => RunFieldValidation(Schema.rules[name], values[name]) = found[name]
  BY <1>3, <1>6
<1> QED
  BY <1>7, <1>8 DEF found, T

-----------------------------------------------------------------------------
(* Forms: submissions *)

\* An error that a rule raised is shown in a field that was left and is about its value; an
\* error of the server is one that an answer named.
FieldHonest(s, name) ==
  /\ s.errors[name] \in ValidationRule =>
       name \in s.touched /\ RunFieldValidation(Schema.rules[name], s.values[name]) = s.errors[name]
  /\ s.errors[name] = "server" =>
       s.about[name] # "none" /\ (name \in s.touched => s.about[name] \in {s.values[name], "gone"})
Underway(s) == s.isSubmitting => s.running \cap s.submit # {}

FMInv == fm \in FormState /\ Underway(fm) /\ \A name \in Fields : FieldHonest(fm, name)

LEMMA FormFromInv == FMInv => FormHonest
  BY DEF FMInv, Underway, FieldHonest, FormHonest, Snapshot

LEMMA NoErrorsShown ==
  /\ NoErrors \in [Fields -> Messages] /\ NoErrors \in [Fields -> Typed \cup {"none", "gone"}]
  /\ \A name \in Fields : NoErrors[name] = "none"
  /\ "none" \notin ValidationRule /\ "set" \notin ValidationRule /\ "server" \notin ValidationRule
  BY DEF NoErrors, Messages, ValidationRule

LEMMA FormStarts == FMInit => FMInv
<1> SUFFICES ASSUME FMInit PROVE FMInv
  OBVIOUS
<1>1. PICK edited : edited = [c \in Submissions |-> {}]
  OBVIOUS
<1>2. edited \in [Submissions -> SUBSET Fields] /\ DefaultValues \in [Fields -> Typed]
  BY <1>1 DEF DefaultValues, Typed
<1>3. fm = [values |-> DefaultValues, errors |-> NoErrors, touched |-> {}, isSubmitting |-> FALSE,
            running |-> {}, ended |-> {}, submit |-> {}, globalError |-> FALSE,
            edited |-> edited, about |-> NoErrors]
  BY <1>1 DEF FMInit, CreateForm
<1>4. fm \in FormState /\ fm.errors = NoErrors /\ ~fm.isSubmitting
  BY <1>2, <1>3, NoErrorsShown DEF FormState
<1> QED
  BY <1>4, NoErrorsShown DEF FMInv, Underway, FieldHonest

LEMMA ChangedIs ==
  ASSUME NEW s \in FormState, NEW names \in SUBSET Fields
  PROVE  Changed(s, names) \in [Submissions -> SUBSET Fields]
<1>1. s.edited \in [Submissions -> SUBSET Fields]
  BY DEF FormState
<1>2. \A c \in Submissions : (IF c \in s.running THEN s.edited[c] \cup names ELSE {}) \in SUBSET Fields
  BY <1>1
<1> QED
  BY <1>2 DEF Changed

\* One field is checked: what it shows is what a rule finds in the value it has.
LEMMA FieldShown ==
  ASSUME NEW s \in FormState, Underway(s), NEW name \in Fields, name \in s.touched,
         \A other \in Fields \ {name} : FieldHonest(s, other), fm' = ShowField(s, name)
  PROVE  FMInv'
<1>1. s.errors \in [Fields -> Messages] /\ s.about \in [Fields -> Typed \cup {"none", "gone"}]
  BY DEF FormState
<1>2. PICK found : found = ValidateField(Schema, name, s.values[name])
  OBVIOUS
<1>3. found \in ValidationRule \cup {"none", "differs"}
      /\ (found \in ValidationRule => RunFieldValidation(Schema.rules[name], s.values[name]) = found)
  BY <1>2, FieldFound
<1>4. found \in Messages /\ found # "server"
  BY <1>3 DEF Messages, ValidationRule
<1>5. PICK errors, about : errors = [s.errors EXCEPT ![name] = found] /\ about = [s.about EXCEPT ![name] = "none"]
  OBVIOUS
<1>6. errors \in [Fields -> Messages] /\ about \in [Fields -> Typed \cup {"none", "gone"}]
  BY <1>1, <1>4, <1>5
<1>7. /\ errors[name] = found
      /\ \A other \in Fields \ {name} : errors[other] = s.errors[other] /\ about[other] = s.about[other]
  BY <1>1, <1>5
<1>8. fm' = [s EXCEPT !.errors = errors, !.about = about]
  BY <1>2, <1>5 DEF ShowField
<1>9. /\ fm' \in FormState /\ fm'.errors = errors /\ fm'.about = about /\ fm'.values = s.values
      /\ fm'.touched = s.touched /\ fm'.isSubmitting = s.isSubmitting
      /\ fm'.running = s.running /\ fm'.submit = s.submit
  BY <1>6, <1>8 DEF FormState
<1>10. FieldHonest(fm', name)
  BY <1>3, <1>4, <1>7, <1>9 DEF FieldHonest
<1>11. \A other \in Fields \ {name} : FieldHonest(fm', other)
  BY <1>7, <1>9 DEF FieldHonest
<1>12. Underway(fm')
  BY <1>9 DEF Underway
<1> QED
  BY <1>9, <1>10, <1>11, <1>12 DEF FMInv

\* A field is changed as the page writes it.
LEMMA FormChanges ==
  ASSUME FMInv, NEW name \in Fields, NEW v \in Typed, fm' = SetValue(fm, name, v)
  PROVE  FMInv'
<1>1. fm \in FormState /\ fm.values \in [Fields -> Typed]
  BY DEF FMInv, FormState
<1>2. PICK values, edited : values = [fm.values EXCEPT ![name] = v] /\ edited = Changed(fm, {name})
  OBVIOUS
<1>3. /\ values \in [Fields -> Typed] /\ edited \in [Submissions -> SUBSET Fields]
      /\ \A other \in Fields \ {name} : values[other] = fm.values[other]
  BY <1>1, <1>2, ChangedIs
<1>4. PICK n : n = [fm EXCEPT !.values = values, !.edited = edited]
  OBVIOUS
<1>5. /\ n \in FormState /\ n.values = values /\ n.errors = fm.errors /\ n.touched = fm.touched
      /\ n.about = fm.about /\ n.isSubmitting = fm.isSubmitting /\ n.running = fm.running
      /\ n.submit = fm.submit
  BY <1>1, <1>3, <1>4 DEF FormState
<1>6. fm' = IF name \in fm.touched THEN ShowField(n, name) ELSE n
  BY <1>2, <1>4 DEF SetValue, OnChange
<1>7. Underway(n) /\ \A other \in Fields \ {name} : FieldHonest(n, other)
  BY <1>3, <1>5 DEF FMInv, Underway, FieldHonest
<1>8. CASE name \in fm.touched
  BY <1>5, <1>6, <1>7, <1>8, FieldShown
<1>9. CASE name \notin fm.touched
  <2>1. FieldHonest(n, name)
    BY <1>5, <1>9 DEF FMInv, FieldHonest
  <2> QED
    BY <1>5, <1>6, <1>7, <1>9, <2>1 DEF FMInv
<1> QED
  BY <1>8, <1>9

\* Leaving a field checks it.
LEMMA FormLeaves ==
  ASSUME FMInv, NEW name \in Fields, fm' = OnBlur(fm, name)
  PROVE  FMInv'
<1>1. fm \in FormState /\ fm.touched \subseteq Fields
  BY DEF FMInv, FormState
<1>2. PICK touched \in SUBSET Fields : touched = fm.touched \cup {name}
  BY <1>1
<1>3. PICK n : n = [fm EXCEPT !.touched = touched]
  OBVIOUS
<1>4. /\ n \in FormState /\ n.values = fm.values /\ n.errors = fm.errors /\ n.touched = touched
      /\ n.about = fm.about /\ n.isSubmitting = fm.isSubmitting /\ n.running = fm.running
      /\ n.submit = fm.submit
  BY <1>1, <1>3 DEF FormState
<1>5. fm' = ShowField(n, name)
  BY <1>2, <1>3 DEF OnBlur
<1>6. Underway(n) /\ \A other \in Fields \ {name} : FieldHonest(n, other)
  BY <1>2, <1>4 DEF FMInv, Underway, FieldHonest
<1> QED
  BY <1>2, <1>4, <1>5, <1>6, FieldShown

\* A submission of the action starts with no errors.
LEMMA FormSubmits ==
  ASSUME NEW s \in FormState, NEW c \in Submissions,
         s.isSubmitting => (s.running \cup {c}) \cap s.submit # {},
         fm' = SubmitAction(s, c)
  PROVE  FMInv'
<1>1. PICK a : a = [s EXCEPT !.errors = NoErrors, !.about = NoErrors]
  OBVIOUS
<1>2. /\ a \in FormState /\ a.errors = NoErrors /\ a.isSubmitting = s.isSubmitting
      /\ a.running = s.running /\ a.submit = s.submit
  BY <1>1, NoErrorsShown DEF FormState
<1>3. PICK running : running = s.running \cup {c}
  OBVIOUS
<1>4. fm' = [a EXCEPT !.globalError = FALSE, !.running = running]
  BY <1>1, <1>2, <1>3 DEF SubmitAction, ClearErrors
<1>5. running \in SUBSET Submissions
  BY <1>3 DEF FormState
<1>6. /\ fm' \in FormState /\ fm'.errors = NoErrors /\ fm'.isSubmitting = s.isSubmitting
      /\ fm'.running = running /\ fm'.submit = s.submit
  BY <1>2, <1>4, <1>5 DEF FormState
<1> QED
  BY <1>3, <1>6, NoErrorsShown DEF FMInv, Underway, FieldHonest

\* A form is checked before it is sent.
LEMMA FormHandles ==
  ASSUME FMInv, NEW c \in Submissions, fm' = HandleSubmit(fm, c)
  PROVE  FMInv'
<1>1. fm \in FormState /\ fm.values \in [Fields -> Typed]
  BY DEF FMInv, FormState
<1>2. PICK found : found = ValidateSchema(Schema, fm.values)
  OBVIOUS
<1>3. found \in [Fields -> ValidationRule \cup {"none", "differs"}]
      /\ \A name \in Fields : found[name] \in ValidationRule
                               => RunFieldValidation(Schema.rules[name], fm.values[name]) = found[name]
  BY <1>1, <1>2, SchemaFound
<1>4. found \in [Fields -> Messages] /\ \A name \in Fields : found[name] # "server"
  BY <1>3 DEF Messages, ValidationRule
<1>5. PICK checked : checked = [fm EXCEPT !.errors = found, !.about = NoErrors, !.touched = Fields]
  OBVIOUS
<1>6. /\ checked \in FormState /\ checked.errors = found /\ checked.touched = Fields
      /\ checked.values = fm.values /\ checked.isSubmitting = fm.isSubmitting
      /\ checked.running = fm.running /\ checked.submit = fm.submit
  BY <1>1, <1>4, <1>5, NoErrorsShown DEF FormState
<1>7. PICK submit : submit = fm.submit \cup {c}
  OBVIOUS
<1>8. PICK sent : sent = [checked EXCEPT !.isSubmitting = TRUE, !.submit = submit]
  OBVIOUS
<1>9. fm' = checked \/ fm' = SubmitAction(sent, c)
  BY <1>2, <1>5, <1>6, <1>7, <1>8 DEF HandleSubmit
<1>10. CASE fm' = checked
  BY <1>3, <1>4, <1>6, <1>10 DEF FMInv, Underway, FieldHonest
<1>11. CASE fm' = SubmitAction(sent, c)
  <2>1. submit \in SUBSET Submissions
    BY <1>1, <1>7 DEF FormState
  <2>2. sent \in FormState /\ c \in sent.submit
    BY <1>6, <1>7, <1>8, <2>1 DEF FormState
  <2> QED
    BY <1>11, <2>2, FormSubmits
<1> QED
  BY <1>9, <1>10, <1>11

\* The action's answer names the fields it found wrong.
LEMMA FormAnswers ==
  ASSUME FMInv, NEW c \in fm.running, NEW fields \in SUBSET Fields, NEW text \in BOOLEAN,
         fm' = ActionEnds(fm, c, fields, text)
  PROVE  FMInv'
<1>1. fm \in FormState /\ c \in Submissions /\ fm.values \in [Fields -> Typed]
      /\ fm.errors \in [Fields -> Messages] /\ fm.about \in [Fields -> Typed \cup {"none", "gone"}]
      /\ fm.edited \in [Submissions -> SUBSET Fields]
  BY DEF FMInv, FormState
<1>2. PICK errors : errors = [name \in Fields |-> IF name \in fields THEN "server" ELSE fm.errors[name]]
  OBVIOUS
<1>3. PICK about : about = [name \in Fields |-> IF name \notin fields THEN fm.about[name]
                                                ELSE IF name \in fm.edited[c] THEN "gone" ELSE fm.values[name]]
  OBVIOUS
<1>4. errors \in [Fields -> Messages] /\ about \in [Fields -> Typed \cup {"none", "gone"}]
  BY <1>1, <1>2, <1>3 DEF Messages
<1>5. PICK running, ended, globalError :
        running = fm.running \ {c} /\ ended = fm.ended \cup {c} /\ globalError = (fm.globalError \/ text)
  OBVIOUS
<1>6. PICK edited : edited = [fm.edited EXCEPT ![c] = {}]
  OBVIOUS
<1>7. running \in SUBSET Submissions /\ ended \in SUBSET Submissions /\ globalError \in BOOLEAN
      /\ edited \in [Submissions -> SUBSET Fields]
  BY <1>1, <1>5, <1>6 DEF FormState
<1>8. PICK n : n = [fm EXCEPT !.running = running, !.ended = ended, !.globalError = globalError,
                              !.edited = edited, !.about = about]
  OBVIOUS
<1>9. /\ n \in FormState /\ n.errors = fm.errors /\ n.about = about /\ n.values = fm.values
      /\ n.touched = fm.touched /\ n.isSubmitting = fm.isSubmitting /\ n.running = running
      /\ n.submit = fm.submit
  BY <1>1, <1>4, <1>7, <1>8 DEF FormState
<1>10. PICK shown : shown = [n EXCEPT !.errors = errors]
  OBVIOUS
<1>11. ApplyServerErrors(n, fields) = shown
  BY <1>2, <1>9, <1>10 DEF ApplyServerErrors
<1> DEFINE m == [fm EXCEPT !.running = @ \ {c}, !.ended = @ \cup {c}, !.globalError = @ \/ text,
                           !.edited[c] = {},
                           !.about = [name \in Fields |-> IF name \notin fields THEN @[name]
                                                          ELSE IF name \in fm.edited[c] THEN "gone" ELSE fm.values[name]]]
<1>12. m = n
  BY <1>1, <1>3, <1>5, <1>6, <1>8 DEF FormState
<1>18. fm' = IF c \in fm.submit THEN [ApplyServerErrors(m, fields) EXCEPT !.isSubmitting = FALSE]
             ELSE ApplyServerErrors(m, fields)
  BY DEF ActionEnds
<1> HIDE DEF m
<1>13. fm' = IF c \in fm.submit THEN [shown EXCEPT !.isSubmitting = FALSE] ELSE shown
  BY <1>11, <1>12, <1>18
<1>14. shown \in FormState /\ shown.errors = errors /\ shown.about = about /\ shown.values = fm.values
       /\ shown.touched = fm.touched /\ shown.isSubmitting = fm.isSubmitting
       /\ shown.running = running /\ shown.submit = fm.submit
  BY <1>4, <1>9, <1>10 DEF FormState
<1>15. fm' \in FormState /\ fm'.errors = errors /\ fm'.about = about /\ fm'.values = fm.values
       /\ fm'.touched = fm.touched /\ fm'.running = running /\ fm'.submit = fm.submit
       /\ fm'.isSubmitting = IF c \in fm.submit THEN FALSE ELSE fm.isSubmitting
  BY <1>13, <1>14 DEF FormState
<1>16. ASSUME NEW name \in Fields PROVE FieldHonest(fm', name)
  <2>1. CASE name \in fields
    <3>1. errors[name] = "server" /\ about[name] \in {fm.values[name], "gone"}
      BY <1>2, <1>3, <2>1
    <3>2. fm.values[name] # "none"
      BY <1>1 DEF Typed
    <3> QED
      BY <1>15, <3>1, <3>2, NoErrorsShown DEF FieldHonest
  <2>2. CASE name \notin fields
    BY <1>2, <1>3, <1>15, <2>2 DEF FMInv, FieldHonest
  <2> QED
    BY <2>1, <2>2
<1>17. Underway(fm')
  BY <1>5, <1>15 DEF FMInv, Underway
<1> QED
  BY <1>15, <1>16, <1>17 DEF FMInv

LEMMA FormStep == FMInv /\ [FMNext]_fm => FMInv'
<1> SUFFICES ASSUME FMInv, [FMNext]_fm PROVE FMInv'
  OBVIOUS
<1>0. fm \in FormState
  BY DEF FMInv
<1>1. CASE UNCHANGED fm
  BY <1>1 DEF FMInv
<1>2. CASE fm' = Reset(fm)
  <2>1. DefaultValues \in [Fields -> Typed]
    BY DEF DefaultValues, Typed
  <2>2. PICK edited : edited = Changed(fm, Fields)
    OBVIOUS
  <2>3. edited \in [Submissions -> SUBSET Fields]
    BY <1>0, <2>2, ChangedIs
  <2>4. fm' = [fm EXCEPT !.values = DefaultValues, !.errors = NoErrors, !.touched = {}, !.isSubmitting = FALSE,
                         !.about = NoErrors, !.edited = edited]
    BY <1>2, <2>2 DEF Reset
  <2>5. fm' \in FormState /\ fm'.errors = NoErrors /\ ~fm'.isSubmitting
    BY <1>0, <2>1, <2>3, <2>4, NoErrorsShown DEF FormState
  <2> QED
    BY <2>5, NoErrorsShown DEF FMInv, Underway, FieldHonest
<1>3. CASE fm' = ClearErrors(fm)
  <2>1. fm' = [fm EXCEPT !.errors = NoErrors, !.about = NoErrors]
    BY <1>3 DEF ClearErrors
  <2>2. fm' \in FormState /\ fm'.errors = NoErrors /\ fm'.isSubmitting = fm.isSubmitting
        /\ fm'.running = fm.running /\ fm'.submit = fm.submit
    BY <1>0, <2>1, NoErrorsShown DEF FormState
  <2> QED
    BY <2>2, NoErrorsShown DEF FMInv, Underway, FieldHonest
<1>4. ASSUME NEW name \in Fields, fm' = SetError(fm, name, "set") PROVE FMInv'
  <2>1. fm.errors \in [Fields -> Messages] /\ fm.about \in [Fields -> Typed \cup {"none", "gone"}]
        /\ "set" \in Messages /\ "set" # "server"
    BY <1>0 DEF FormState, Messages
  <2>2. PICK errors, about : errors = [fm.errors EXCEPT ![name] = "set"] /\ about = [fm.about EXCEPT ![name] = "none"]
    OBVIOUS
  <2>3. errors \in [Fields -> Messages] /\ about \in [Fields -> Typed \cup {"none", "gone"}]
    BY <2>1, <2>2
  <2>4. errors[name] = "set"
        /\ \A other \in Fields \ {name} : errors[other] = fm.errors[other] /\ about[other] = fm.about[other]
    BY <2>1, <2>2
  <2>5. fm' = [fm EXCEPT !.errors = errors, !.about = about]
    BY <1>4, <2>2 DEF SetError
  <2>6. fm' \in FormState /\ fm'.errors = errors /\ fm'.about = about /\ fm'.values = fm.values
        /\ fm'.touched = fm.touched /\ fm'.isSubmitting = fm.isSubmitting
        /\ fm'.running = fm.running /\ fm'.submit = fm.submit
    BY <1>0, <2>3, <2>5 DEF FormState
  <2>7. \A other \in Fields : FieldHonest(fm', other)
    BY <2>1, <2>4, <2>6, NoErrorsShown DEF FMInv, FieldHonest
  <2> QED
    BY <2>6, <2>7 DEF FMInv, Underway
<1>5. ASSUME NEW c \in Submissions, fm' = SubmitAction(fm, c) PROVE FMInv'
  <2>1. fm.isSubmitting => (fm.running \cup {c}) \cap fm.submit # {}
    BY DEF FMInv, Underway
  <2> QED
    BY <1>0, <1>5, <2>1, FormSubmits
<1> QED
  BY <1>1, <1>2, <1>3, <1>4, <1>5, FormChanges, FormLeaves, FormHandles, FormAnswers DEF FMNext

-----------------------------------------------------------------------------
(* Forms: the operations of field arrays, on any items *)

LEMMA RemoveIs ==
  ASSUME NEW S, NEW s \in Seq(S), NEW i \in 1 .. Len(s)
  PROVE  /\ RemoveAt(s, i) \in Seq(S)
         /\ Len(RemoveAt(s, i)) = Len(s) - 1
         /\ \A k \in 1 .. Len(s) - 1 : RemoveAt(s, i)[k] = IF k < i THEN s[k] ELSE s[k + 1]
<1> DEFINE front == SubSeq(s, 1, i - 1)
           back == SubSeq(s, i + 1, Len(s))
<1>1. Len(s) \in Nat /\ \A k \in 1 .. Len(s) : s[k] \in S
  BY LenProperties, ElementOfSeq
<1>2. front \in Seq(S) /\ Len(front) = i - 1 /\ \A k \in 1 .. i - 1 : front[k] = s[k]
  <2>1. 1 \in Int /\ i - 1 \in Int /\ \A k \in 1 .. i - 1 : s[k] \in S
    BY <1>1
  <2>2. /\ front \in Seq(S) /\ Len(front) = IF 1 <= i - 1 THEN (i - 1) - 1 + 1 ELSE 0
        /\ \A k \in 1 .. (i - 1) - 1 + 1 : front[k] = s[1 + k - 1]
    BY <2>1, SubSeqProperties
  <2> HIDE DEF front
  <2> QED
    BY <1>1, <2>2
<1>3. back \in Seq(S) /\ Len(back) = Len(s) - i /\ \A k \in 1 .. Len(s) - i : back[k] = s[i + k]
  <2>1. i + 1 \in Int /\ Len(s) \in Int /\ \A k \in i + 1 .. Len(s) : s[k] \in S
    BY <1>1
  <2>2. /\ back \in Seq(S) /\ Len(back) = IF i + 1 <= Len(s) THEN Len(s) - (i + 1) + 1 ELSE 0
        /\ \A k \in 1 .. Len(s) - (i + 1) + 1 : back[k] = s[(i + 1) + k - 1]
    BY <2>1, SubSeqProperties
  <2> HIDE DEF back
  <2>3. Len(back) = Len(s) - i
    BY <1>1, <2>2
  <2>4. ASSUME NEW k \in 1 .. Len(s) - i PROVE back[k] = s[i + k]
    <3>1. k \in 1 .. Len(s) - (i + 1) + 1 /\ (i + 1) + k - 1 = i + k
      BY <1>1
    <3> QED
      BY <2>2, <3>1
  <2> QED
    BY <2>2, <2>3, <2>4
<1> HIDE DEF front, back
<1>4. RemoveAt(s, i) = front \o back
  BY DEF RemoveAt, front, back
<1>5. /\ front \o back \in Seq(S)
      /\ Len(front \o back) = Len(front) + Len(back)
      /\ \A k \in 1 .. Len(front) + Len(back) : (front \o back)[k] = IF k <= Len(front) THEN front[k] ELSE back[k - Len(front)]
  BY <1>2, <1>3, ConcatProperties
<1>6. ASSUME NEW k \in 1 .. Len(s) - 1
      PROVE  RemoveAt(s, i)[k] = IF k < i THEN s[k] ELSE s[k + 1]
  <2>1. RemoveAt(s, i)[k] = IF k <= i - 1 THEN front[k] ELSE back[k - (i - 1)]
    BY <1>1, <1>2, <1>3, <1>4, <1>5
  <2>2. CASE k < i
    BY <1>1, <1>2, <2>1, <2>2
  <2>3. CASE ~(k < i)
    <3>1. k - (i - 1) \in 1 .. Len(s) - i /\ i + (k - (i - 1)) = k + 1
      BY <1>1, <2>3
    <3> QED
      BY <1>1, <1>3, <2>1, <2>3, <3>1
  <2> QED
    BY <2>2, <2>3
<1> QED
  BY <1>1, <1>2, <1>3, <1>4, <1>5, <1>6

LEMMA InsertIs ==
  ASSUME NEW S, NEW s \in Seq(S), NEW i \in 1 .. Len(s) + 1, NEW e \in S
  PROVE  /\ InsertAt(s, i, e) \in Seq(S)
         /\ Len(InsertAt(s, i, e)) = Len(s) + 1
         /\ \A k \in 1 .. Len(s) + 1 : /\ k < i => InsertAt(s, i, e)[k] = s[k]
                                       /\ k = i => InsertAt(s, i, e)[k] = e
                                       /\ k > i => InsertAt(s, i, e)[k] = s[k - 1]
<1> DEFINE front == SubSeq(s, 1, i - 1)
           back == SubSeq(s, i, Len(s))
           first == front \o <<e>>
<1>1. Len(s) \in Nat /\ \A k \in 1 .. Len(s) : s[k] \in S
  BY LenProperties, ElementOfSeq
<1>2. front \in Seq(S) /\ Len(front) = i - 1 /\ \A k \in 1 .. i - 1 : front[k] = s[k]
  <2>1. 1 \in Int /\ i - 1 \in Int /\ \A k \in 1 .. i - 1 : s[k] \in S
    BY <1>1
  <2>2. /\ front \in Seq(S) /\ Len(front) = IF 1 <= i - 1 THEN (i - 1) - 1 + 1 ELSE 0
        /\ \A k \in 1 .. (i - 1) - 1 + 1 : front[k] = s[1 + k - 1]
    BY <2>1, SubSeqProperties
  <2> HIDE DEF front
  <2> QED
    BY <1>1, <2>2
<1>3. back \in Seq(S) /\ Len(back) = Len(s) - i + 1 /\ \A k \in 1 .. Len(s) - i + 1 : back[k] = s[i + k - 1]
  <2>1. i \in Int /\ Len(s) \in Int /\ \A k \in i .. Len(s) : s[k] \in S
    BY <1>1
  <2>2. /\ back \in Seq(S) /\ Len(back) = IF i <= Len(s) THEN Len(s) - i + 1 ELSE 0
        /\ \A k \in 1 .. Len(s) - i + 1 : back[k] = s[i + k - 1]
    BY <2>1, SubSeqProperties
  <2> HIDE DEF back
  <2> QED
    BY <1>1, <2>2
<1> HIDE DEF front, back
<1>4. /\ first \in Seq(S) /\ Len(first) = i
      /\ \A k \in 1 .. i : first[k] = IF k < i THEN s[k] ELSE e
  <2>1. <<e>> \in Seq(S) /\ Len(<<e>>) = 1 /\ <<e>>[1] = e
    OBVIOUS
  <2>2. /\ first \in Seq(S)
        /\ Len(first) = Len(front) + Len(<<e>>)
        /\ \A k \in 1 .. Len(front) + Len(<<e>>) : first[k] = IF k <= Len(front) THEN front[k] ELSE <<e>>[k - Len(front)]
    BY <1>2, <2>1, ConcatProperties
  <2>3. \A k \in 1 .. (i - 1) + 1 : first[k] = IF k <= i - 1 THEN front[k] ELSE <<e>>[k - (i - 1)]
    BY <1>2, <2>1, <2>2
  <2>4. Len(first) = i /\ (i - 1) + 1 = i
    BY <1>2, <2>1, <2>2
  <2> HIDE DEF first
  <2>5. ASSUME NEW k \in 1 .. i PROVE first[k] = IF k < i THEN s[k] ELSE e
    <3>1. first[k] = IF k <= i - 1 THEN front[k] ELSE <<e>>[k - (i - 1)]
      BY <2>3, <2>4
    <3>2. CASE k < i
      BY <1>2, <3>1, <3>2
    <3>3. CASE ~(k < i)
      <4>1. k - (i - 1) = 1 /\ ~(k <= i - 1)
        BY <3>3
      <4> QED
        BY <2>1, <3>1, <3>3, <4>1
    <3> QED
      BY <3>2, <3>3
  <2> QED
    BY <2>2, <2>4, <2>5
<1>5. InsertAt(s, i, e) = first \o back
  BY DEF InsertAt, front, back
<1> HIDE DEF first
<1>6. /\ first \o back \in Seq(S)
      /\ Len(first \o back) = Len(first) + Len(back)
      /\ \A k \in 1 .. Len(first) + Len(back) : (first \o back)[k] = IF k <= Len(first) THEN first[k] ELSE back[k - Len(first)]
  BY <1>3, <1>4, ConcatProperties
<1>7. ASSUME NEW k \in 1 .. Len(s) + 1
      PROVE  /\ k < i => InsertAt(s, i, e)[k] = s[k]
             /\ k = i => InsertAt(s, i, e)[k] = e
             /\ k > i => InsertAt(s, i, e)[k] = s[k - 1]
  <2>1. InsertAt(s, i, e)[k] = IF k <= i THEN first[k] ELSE back[k - i]
    BY <1>1, <1>3, <1>4, <1>5, <1>6
  <2>2. CASE k <= i
    BY <1>1, <1>4, <2>1, <2>2
  <2>3. CASE ~(k <= i)
    <3>1. k - i \in 1 .. Len(s) - i + 1 /\ i + (k - i) - 1 = k - 1
      BY <1>1, <2>3
    <3> QED
      BY <1>1, <1>3, <2>1, <2>3, <3>1
  <2> QED
    BY <2>2, <2>3
<1> QED
  BY <1>1, <1>3, <1>4, <1>5, <1>6, <1>7

\* What was put in is taken out again, and the other way round.
LEMMA InsertRemoved ==
  ASSUME NEW S, NEW s \in Seq(S), NEW i \in 1 .. Len(s) + 1, NEW e \in S
  PROVE  RemoveAt(InsertAt(s, i, e), i) = s
<1> DEFINE t == InsertAt(s, i, e)
           r == RemoveAt(t, i)
<1>1. Len(s) \in Nat
  BY LenProperties
<1>2. /\ t \in Seq(S) /\ Len(t) = Len(s) + 1
      /\ \A k \in 1 .. Len(s) + 1 : (k < i => t[k] = s[k]) /\ (k = i => t[k] = e) /\ (k > i => t[k] = s[k - 1])
  BY InsertIs
<1> HIDE DEF t
<1>3. i \in 1 .. Len(t)
  BY <1>2
<1>4. /\ r \in Seq(S) /\ Len(r) = Len(t) - 1
      /\ \A k \in 1 .. Len(t) - 1 : r[k] = IF k < i THEN t[k] ELSE t[k + 1]
  BY <1>2, <1>3, RemoveIs
<1> HIDE DEF r
<1>5. ASSUME NEW k \in 1 .. Len(r) PROVE r[k] = s[k]
  <2>1. k \in 1 .. Len(t) - 1 /\ k \in 1 .. Len(s) + 1 /\ k + 1 \in 1 .. Len(s) + 1 /\ (k + 1) - 1 = k
    BY <1>1, <1>2, <1>4
  <2>2. r[k] = IF k < i THEN t[k] ELSE t[k + 1]
    BY <1>4, <2>1
  <2>3. k < i => t[k] = s[k]
    BY <1>2, <2>1
  <2>4. k >= i => t[k + 1] = s[(k + 1) - 1]
    BY <1>2, <2>1
  <2> QED
    BY <2>1, <2>2, <2>3, <2>4
<1>6. Len(r) = Len(s)
  BY <1>1, <1>2, <1>4
<1>7. r = s
  BY <1>4, <1>5, <1>6, SeqEqual
<1> QED
  BY <1>7 DEF r, t

LEMMA RemovedInserted ==
  ASSUME NEW S, NEW s \in Seq(S), NEW i \in 1 .. Len(s)
  PROVE  InsertAt(RemoveAt(s, i), i, s[i]) = s
<1>0. PICK e \in S : e = s[i]
  BY ElementOfSeq
<1> DEFINE r == RemoveAt(s, i)
           t == InsertAt(r, i, e)
<1>1. Len(s) \in Nat
  BY LenProperties
<1>2. /\ r \in Seq(S) /\ Len(r) = Len(s) - 1
      /\ \A k \in 1 .. Len(s) - 1 : r[k] = IF k < i THEN s[k] ELSE s[k + 1]
  BY RemoveIs
<1> HIDE DEF r
<1>3. i \in 1 .. Len(r) + 1
  BY <1>1, <1>2
<1>4. /\ t \in Seq(S) /\ Len(t) = Len(r) + 1
      /\ \A k \in 1 .. Len(r) + 1 : (k < i => t[k] = r[k]) /\ (k = i => t[k] = e) /\ (k > i => t[k] = r[k - 1])
  BY <1>1, <1>2, <1>3, InsertIs
<1> HIDE DEF t
<1>5. ASSUME NEW k \in 1 .. Len(t) PROVE t[k] = s[k]
  <2>1. k \in 1 .. Len(s) /\ k \in 1 .. Len(r) + 1
    BY <1>1, <1>2, <1>4
  <2>2. (k < i => t[k] = r[k]) /\ (k = i => t[k] = e) /\ (k > i => t[k] = r[k - 1])
    BY <1>4, <2>1
  <2>3. k < i => r[k] = s[k]
    BY <1>1, <1>2, <2>1
  <2>4. ASSUME k > i PROVE r[k - 1] = s[k]
    <3>1. k - 1 \in 1 .. Len(s) - 1 /\ ~(k - 1 < i) /\ (k - 1) + 1 = k
      BY <1>1, <2>1, <2>4
    <3> QED
      BY <1>2, <3>1
  <2> QED
    BY <1>0, <2>1, <2>2, <2>3, <2>4
<1>6. Len(t) = Len(s)
  BY <1>1, <1>2, <1>4
<1>7. t = s
  BY <1>4, <1>5, <1>6, SeqEqual
<1> QED
  BY <1>0, <1>7 DEF r, t

\* What FormsRight says of a field array, of any items and any indices.
LEMMA ArrayRight ==
  ASSUME NEW S, NEW items \in Seq(S), NEW i \in Int, NEW j \in Int
  PROVE  LET in == InRange(items, i) /\ InRange(items, j)
             moved == Move(items, i, j)
         IN /\ in => moved[j + 1] = items[i + 1] /\ RemoveItem(moved, j) = RemoveItem(items, i)
            /\ Move(moved, j, i) = items
            /\ Swap(Swap(items, i, j), j, i) = items
            /\ in /\ j - i \in {-1, 1} => Swap(items, i, j) = moved
<1> DEFINE in == InRange(items, i) /\ InRange(items, j)
           moved == Move(items, i, j)
           swapped == Swap(items, i, j)
<1>1. Len(items) \in Nat /\ \A k \in 1 .. Len(items) : items[k] \in S
  BY LenProperties, ElementOfSeq
<1>2. CASE ~in
  <2>1. moved = items /\ Move(items, j, i) = items /\ swapped = items /\ Swap(items, j, i) = items
    BY <1>2 DEF Move, Swap
  <2> QED
    BY <1>2, <2>1
<1>3. CASE in
  <2>1. i + 1 \in 1 .. Len(items) /\ j + 1 \in 1 .. Len(items) /\ i < Len(items) /\ j < Len(items) /\ i >= 0 /\ j >= 0
    BY <1>1, <1>3 DEF InRange
  <2>2. PICK e \in S : e = items[i + 1]
    BY <1>1, <2>1
  <2>3. PICK d \in S : d = items[j + 1]
    BY <1>1, <2>1
  <2> DEFINE r == RemoveAt(items, i + 1)
             m == InsertAt(r, j + 1, e)
  <2>4. /\ r \in Seq(S) /\ Len(r) = Len(items) - 1
        /\ \A k \in 1 .. Len(items) - 1 : r[k] = IF k < i + 1 THEN items[k] ELSE items[k + 1]
    BY <2>1, RemoveIs
  <2>5. RemoveItem(items, i) = r
    BY <1>3 DEF RemoveItem
  <2> HIDE DEF r
  <2>6. j + 1 \in 1 .. Len(r) + 1 /\ ~(j < 0) /\ ~(j > Len(r))
    BY <1>1, <2>1, <2>4
  <2>7. moved = m
    BY <1>3, <2>2, <2>5, <2>6 DEF Move, Insert
  <2>8. /\ m \in Seq(S) /\ Len(m) = Len(r) + 1
        /\ \A k \in 1 .. Len(r) + 1 : (k < j + 1 => m[k] = r[k]) /\ (k = j + 1 => m[k] = e) /\ (k > j + 1 => m[k] = r[k - 1])
    BY <2>4, <2>6, InsertIs
  <2>9. RemoveAt(m, j + 1) = r
    BY <2>4, <2>6, InsertRemoved
  <2>10. InsertAt(r, i + 1, e) = items
    BY <2>1, <2>2, RemovedInserted DEF r
  <2> HIDE DEF m
  <2>11. Len(m) = Len(items) /\ InRange(m, i) /\ InRange(m, j)
    BY <1>1, <1>3, <2>4, <2>8 DEF InRange
  <2>12. RemoveItem(m, j) = r
    BY <2>9, <2>11 DEF RemoveItem
  <2>13. m[j + 1] = e
    BY <2>6, <2>8
  <2>14. Move(m, j, i) = items
    <3>1. ~(i < 0) /\ ~(i > Len(r))
      BY <1>1, <2>1, <2>4
    <3>2. Insert(r, i, e) = items
      BY <2>10, <3>1 DEF Insert
    <3> QED
      BY <2>11, <2>12, <2>13, <3>2 DEF Move
  <2>15. /\ swapped \in [1 .. Len(items) -> S]
         /\ swapped[i + 1] = d /\ swapped[j + 1] = e
         /\ \A k \in 1 .. Len(items) \ {i + 1, j + 1} : swapped[k] = items[k]
    <3>1. swapped = [items EXCEPT ![i + 1] = d, ![j + 1] = e]
      BY <1>3, <2>2, <2>3 DEF Swap
    <3>2. items \in [1 .. Len(items) -> S]
      BY LenProperties
    <3> HIDE DEF swapped
    <3> QED
      BY <2>1, <2>2, <2>3, <3>1, <3>2
  <2> HIDE DEF swapped
  <2>16. swapped \in Seq(S) /\ Len(swapped) = Len(items)
    BY <1>1, <2>15
  <2>17. Swap(swapped, j, i) = items
    <3>1. InRange(swapped, j) /\ InRange(swapped, i)
      BY <1>3, <2>16 DEF InRange
    <3>2. Swap(swapped, j, i) = [swapped EXCEPT ![j + 1] = d, ![i + 1] = e]
      BY <2>15, <3>1 DEF Swap
    <3>3. items \in [1 .. Len(items) -> S]
      BY LenProperties
    <3>4. [swapped EXCEPT ![j + 1] = d, ![i + 1] = e] = items
      BY <2>1, <2>2, <2>3, <2>15, <3>3
    <3> QED
      BY <3>2, <3>4
  <2>18. ASSUME j - i \in {-1, 1} PROVE swapped = m
    <3>1. ASSUME NEW k \in 1 .. Len(swapped) PROVE swapped[k] = m[k]
      <4>0. k \in 1 .. Len(items) /\ k \in 1 .. Len(r) + 1
        BY <1>1, <2>4, <2>16
      <4>1. CASE k = j + 1
        BY <2>13, <2>15, <4>1
      <4>2. CASE k # j + 1 /\ k = i + 1 /\ j = i + 1
        <5>1. m[k] = r[k] /\ r[k] = items[k + 1]
          BY <1>1, <2>1, <2>4, <2>8, <4>0, <4>2
        <5> QED
          BY <2>3, <2>15, <4>2, <5>1
      <4>3. CASE k # j + 1 /\ k = i + 1 /\ j = i - 1
        <5>1. k - 1 \in 1 .. Len(items) - 1 /\ k - 1 < i + 1 /\ k - 1 = j + 1
          BY <1>1, <2>1, <4>0, <4>3
        <5>2. m[k] = r[k - 1] /\ r[k - 1] = items[k - 1]
          BY <1>1, <2>1, <2>4, <2>8, <4>0, <4>3, <5>1
        <5> QED
          BY <2>3, <2>15, <4>3, <5>1, <5>2
      <4>4. CASE k # j + 1 /\ k # i + 1 /\ k < i + 1
        <5>1. k < j + 1 /\ k \in 1 .. Len(items) - 1
          BY <1>1, <2>1, <2>18, <4>0, <4>4
        <5>2. m[k] = r[k] /\ r[k] = items[k]
          BY <2>4, <2>8, <4>0, <4>4, <5>1
        <5> QED
          BY <2>15, <4>0, <4>4, <5>2
      <4>5. CASE k # j + 1 /\ k # i + 1 /\ k > i + 1
        <5>1. k > j + 1 /\ k - 1 \in 1 .. Len(items) - 1 /\ ~(k - 1 < i + 1) /\ (k - 1) + 1 = k
          BY <1>1, <2>1, <2>18, <4>0, <4>5
        <5>2. m[k] = r[k - 1] /\ r[k - 1] = items[k]
          BY <2>4, <2>8, <4>0, <5>1
        <5> QED
          BY <2>15, <4>0, <4>5, <5>2
      <4> QED
        BY <2>1, <2>18, <4>0, <4>1, <4>2, <4>3, <4>4, <4>5
    <3>2. Len(swapped) = Len(m)
      BY <2>11, <2>16
    <3> QED
      BY <2>8, <2>16, <3>1, <3>2, SeqEqual
  <2> QED
    BY <2>2, <2>5, <2>7, <2>12, <2>13, <2>14, <2>17, <2>18 DEF swapped
<1> QED
  BY <1>2, <1>3

\* What was put between the items can be taken out where it was put.
LEMMA InsertRight ==
  ASSUME NEW S, NEW items \in Seq(S), NEW i \in Nat, NEW e \in S
  PROVE  RemoveItem(Insert(items, i, e), IF i > Len(items) THEN Len(items) ELSE i) = items
<1>1. Len(items) \in Nat
  BY LenProperties
<1> DEFINE at == IF i > Len(items) THEN Len(items) ELSE i
<1>2. at \in Nat /\ at + 1 \in 1 .. Len(items) + 1
  BY <1>1
<1>3. Insert(items, i, e) = InsertAt(items, at + 1, e)
  BY DEF Insert
<1> HIDE DEF at
<1>4. Len(InsertAt(items, at + 1, e)) = Len(items) + 1
  <2>1. PICK p \in 1 .. Len(items) + 1 : p = at + 1
    BY <1>2
  <2>2. InsertAt(items, p, e) \in Seq(S) /\ Len(InsertAt(items, p, e)) = Len(items) + 1
    BY InsertIs
  <2> QED
    BY <2>1, <2>2
<1>5. InRange(InsertAt(items, at + 1, e), at)
  BY <1>1, <1>2, <1>4 DEF InRange
<1>6. RemoveAt(InsertAt(items, at + 1, e), at + 1) = items
  BY <1>2, InsertRemoved
<1>7. RemoveItem(Insert(items, i, e), at) = items
  BY <1>3, <1>5, <1>6 DEF RemoveItem
<1> QED
  BY <1>7 DEF at

\* Items put at both ends are put there one by one.
LEMMA EndsRight ==
  ASSUME NEW S, NEW items \in Seq(S), NEW e \in S, NEW d \in S
  PROVE  Prepend(AppendItems(items, <<e>>), <<d>>) = Insert(Insert(items, Len(items), e), 0, d)
<1>1. Len(items) \in Nat
  BY LenProperties
<1> DEFINE longer == InsertAt(items, Len(items) + 1, e)
           both == InsertAt(longer, 1, d)
           after == items \o <<e>>
           round == <<d>> \o after
<1>5. /\ longer \in Seq(S) /\ Len(longer) = Len(items) + 1
      /\ \A k \in 1 .. Len(items) + 1 : (k < Len(items) + 1 => longer[k] = items[k]) /\ (k = Len(items) + 1 => longer[k] = e)
  <2>1. PICK n \in 1 .. Len(items) + 1 : n = Len(items) + 1
    BY <1>1
  <2>2. /\ InsertAt(items, n, e) \in Seq(S) /\ Len(InsertAt(items, n, e)) = Len(items) + 1
        /\ \A k \in 1 .. Len(items) + 1 : (k < n => InsertAt(items, n, e)[k] = items[k])
                                           /\ (k = n => InsertAt(items, n, e)[k] = e)
    BY InsertIs
  <2> QED
    BY <2>1, <2>2
<1>6. Insert(items, Len(items), e) = longer
  BY <1>1 DEF Insert
<1> HIDE DEF longer
<1>7. /\ both \in Seq(S) /\ Len(both) = Len(longer) + 1
      /\ \A k \in 1 .. Len(longer) + 1 : (k = 1 => both[k] = d) /\ (k > 1 => both[k] = longer[k - 1])
  <2>1. 1 \in 1 .. Len(longer) + 1
    BY <1>1, <1>5
  <2> QED
    BY <1>5, <2>1, InsertIs
<1>8. Insert(longer, 0, d) = both
  BY <1>1, <1>5 DEF Insert
<1> HIDE DEF both
<1>9. /\ after \in Seq(S) /\ Len(after) = Len(items) + 1
      /\ \A k \in 1 .. Len(items) + 1 : after[k] = IF k <= Len(items) THEN items[k] ELSE e
  BY <1>1
<1> HIDE DEF after
<1>10. /\ round \in Seq(S) /\ Len(round) = Len(after) + 1
       /\ \A k \in 1 .. Len(after) + 1 : round[k] = IF k = 1 THEN d ELSE after[k - 1]
  BY <1>1, <1>9
<1> HIDE DEF round
<1>11. ASSUME NEW k \in 1 .. Len(round) PROVE round[k] = both[k]
  <2>1. k \in 1 .. Len(after) + 1 /\ k \in 1 .. Len(longer) + 1
    BY <1>1, <1>5, <1>9, <1>10
  <2>2. CASE k = 1
    BY <1>7, <1>10, <2>1, <2>2
  <2>3. CASE k > 1
    <3>1. k - 1 \in 1 .. Len(items) + 1
      BY <1>1, <1>9, <2>1, <2>3
    <3>2. round[k] = after[k - 1] /\ both[k] = longer[k - 1]
      BY <1>7, <1>10, <2>1, <2>3
    <3>3. after[k - 1] = longer[k - 1]
      BY <1>1, <1>5, <1>9, <3>1
    <3> QED
      BY <3>2, <3>3
  <2> QED
    BY <1>1, <1>9, <2>1, <2>2, <2>3
<1>12. round = both
  <2>1. Len(round) = Len(both)
    BY <1>1, <1>5, <1>7, <1>9, <1>10
  <2> QED
    BY <1>7, <1>10, <1>11, <2>1, SeqEqual
<1>13. Prepend(AppendItems(items, <<e>>), <<d>>) = round
  BY DEF Prepend, AppendItems, round, after
<1> QED
  BY <1>6, <1>8, <1>12, <1>13

\* A field that is left and a form that is sent find the same error in it.
LEMMA ValidationRight ==
  ASSUME NEW input \in ValidationInputs, NEW name \in Fields
  PROVE  ValidateSchema(input.schema, input.values)[name] = ValidateField(input.schema, name, input.values[name])
<1>1. /\ input.schema.zod \in BOOLEAN /\ input.schema.crossField = FALSE
      /\ DOMAIN input.values = Fields
  BY DEF ValidationInputs, Fields
<1> DEFINE own == RunFieldValidation(input.schema.rules[name], input.values[name])
<1>2. ValidateSchema(input.schema, input.values)[name] = own
  BY <1>1 DEF ValidateSchema, ValidateWithZodSchema, SafeParse
<1>3. ValidateField(input.schema, name, input.values[name]) = own
  BY <1>1 DEF ValidateField, SafeParse
<1> QED
  BY <1>2, <1>3

\* What is asked of the inputs is right of each.
LEMMA InputsRight == FQInit => FormsRight
<1> SUFFICES ASSUME FQInit PROVE FormsRight
  OBVIOUS
<1>1. CASE fq \in ValidationInputs
  <2>1. fq.ask = "validate"
    BY <1>1 DEF ValidationInputs
  <2>2. PICK input \in ValidationInputs : input = fq
    BY <1>1
  <2>3. \A name \in Fields : ValidateSchema(input.schema, input.values)[name]
                              = ValidateField(input.schema, name, input.values[name])
    BY ValidationRight
  <2> QED
    BY <2>1, <2>2, <2>3 DEF FormsRight
<1>2. CASE fq \in ArrayInputs
  <2>1. PICK n \in 0 .. 4, i \in -1 .. 5, j \in -1 .. 5 :
          fq = [ask |-> "array", items |-> SubSeq(<<1, 2, 3, 4>>, 1, n), i |-> i, j |-> j]
    BY <1>2 DEF ArrayInputs
  <2>2. fq.ask = "array" /\ fq.i \in Int /\ fq.j \in Int /\ fq.items = SubSeq(<<1, 2, 3, 4>>, 1, n)
    BY <2>1
  <2>3. SubSeq(<<1, 2, 3, 4>>, 1, n) \in Seq(Nat)
    <3>1. 1 \in Int /\ n \in Int /\ \A k \in 1 .. n : <<1, 2, 3, 4>>[k] \in Nat
      OBVIOUS
    <3> QED
      BY <3>1, SubSeqProperties
  <2>4. fq.items \in Seq(Nat) /\ 9 \in Nat /\ 0 \in Nat
    BY <2>2, <2>3
  <2>5. LET in == InRange(fq.items, fq.i) /\ InRange(fq.items, fq.j)
            moved == Move(fq.items, fq.i, fq.j)
        IN /\ in => moved[fq.j + 1] = fq.items[fq.i + 1] /\ RemoveItem(moved, fq.j) = RemoveItem(fq.items, fq.i)
           /\ Move(moved, fq.j, fq.i) = fq.items
           /\ Swap(Swap(fq.items, fq.i, fq.j), fq.j, fq.i) = fq.items
           /\ in /\ fq.j - fq.i \in {-1, 1} => Swap(fq.items, fq.i, fq.j) = moved
    BY <2>2, <2>4, ArrayRight
  <2>6. Prepend(AppendItems(fq.items, <<9>>), <<0>>) = Insert(Insert(fq.items, Len(fq.items), 9), 0, 0)
    BY <2>4, EndsRight
  <2>7. fq.i >= 0 => RemoveItem(Insert(fq.items, fq.i, 9), IF fq.i > Len(fq.items) THEN Len(fq.items) ELSE fq.i)
                       = Replace(<<>>, fq.items)
    <3>1. SUFFICES ASSUME fq.i >= 0
                   PROVE  RemoveItem(Insert(fq.items, fq.i, 9), IF fq.i > Len(fq.items) THEN Len(fq.items) ELSE fq.i) = fq.items
      BY DEF Replace
    <3>2. PICK k \in Nat : k = fq.i
      BY <2>2, <3>1
    <3>3. PICK items \in Seq(Nat) : items = fq.items
      BY <2>4
    <3>4. RemoveItem(Insert(items, k, 9), IF k > Len(items) THEN Len(items) ELSE k) = items
      BY <2>4, InsertRight
    <3> QED
      BY <3>2, <3>3, <3>4
  <2> QED
    BY <2>2, <2>5, <2>6, <2>7 DEF FormsRight
<1> QED
  BY <1>1, <1>2 DEF FQInit

-----------------------------------------------------------------------------
(* Store: renders on the server *)

\* While a request that was not overtaken awaits its data the registry holds its store.
RenderInv ==
  /\ sx \in [registry : Requests \cup {0}, user : [Requests -> Requests \cup {0}],
             pc : [Requests -> {"start", "await", "done"}], rendered : [Requests -> Requests \cup {0}],
             overtaken : SUBSET Requests]
  /\ \A r \in Requests : sx.pc[r] = "await" => /\ sx.user[r] = r /\ sx.registry \in Requests
                                               /\ r \notin sx.overtaken => sx.registry = r
  /\ RequestIsolated

LEMMA RenderStarts == SXInit => RenderInv
  BY DEF SXInit, RenderInv, RequestIsolated

LEMMA RenderStep == RenderInv /\ [SXNext]_sx => RenderInv'
<1> SUFFICES ASSUME RenderInv, [SXNext]_sx PROVE RenderInv'
  OBVIOUS
<1>0. \A r \in Requests : r # 0
  BY StoreAssumption
<1>1. CASE UNCHANGED sx
  BY <1>1 DEF RenderInv, RequestIsolated, Rendering
<1>2. ASSUME NEW r \in Requests, RunWithContext(r) PROVE RenderInv'
  <2> DEFINE overtaken == sx.overtaken \cup Rendering
  <2>1. /\ sx.pc[r] = "start"
        /\ sx' = [registry |-> r, user |-> [sx.user EXCEPT ![r] = r], pc |-> [sx.pc EXCEPT ![r] = "await"],
                  rendered |-> sx.rendered, overtaken |-> overtaken]
    BY <1>2 DEF RunWithContext, RenderInv
  <2>2. overtaken \subseteq Requests /\ sx.overtaken \subseteq overtaken
    BY DEF RenderInv, Rendering
  <2>3. Rendering' = Rendering \cup {r}
    BY <2>1 DEF RenderInv, Rendering
  <2>4. \A q \in Rendering' : q \notin overtaken => q = r
    BY <2>3
  <2> HIDE DEF overtaken
  <2>5. RequestIsolated'
    BY <2>1, <2>2 DEF RenderInv, RequestIsolated
  <2>6. ASSUME NEW q \in Requests, sx'.pc[q] = "await"
        PROVE  sx'.user[q] = q /\ sx'.registry \in Requests
               /\ (q \notin sx'.overtaken => sx'.registry = q)
    <3>1. q \in Rendering'
      BY <2>6 DEF Rendering
    <3>2. sx'.user[q] = q
      BY <2>1, <2>6 DEF RenderInv
    <3> QED
      BY <2>1, <2>3, <2>4, <3>1, <3>2
  <2>7. sx' \in [registry : Requests \cup {0}, user : [Requests -> Requests \cup {0}],
                 pc : [Requests -> {"start", "await", "done"}], rendered : [Requests -> Requests \cup {0}],
                 overtaken : SUBSET Requests]
    BY <2>1, <2>2 DEF RenderInv
  <2> QED
    BY <2>5, <2>6, <2>7 DEF RenderInv
<1>3. ASSUME NEW r \in Requests, SerializeStores(r) PROVE RenderInv'
  <2>1. /\ sx.pc[r] = "await"
        /\ sx' = [registry |-> sx.registry, user |-> sx.user, pc |-> [sx.pc EXCEPT ![r] = "done"],
                  rendered |-> [sx.rendered EXCEPT ![r] = sx.user[sx.registry]], overtaken |-> sx.overtaken]
    BY <1>3 DEF SerializeStores, RenderInv
  <2>2. sx.user[r] = r /\ sx.registry \in Requests /\ (r \notin sx.overtaken => sx.registry = r)
    BY <2>1 DEF RenderInv
  <2>4. RequestIsolated'
    BY <2>1, <2>2 DEF RenderInv, RequestIsolated
  <2>5. \A q \in Requests : sx'.pc[q] = "await" => q # r /\ sx.pc[q] = "await"
    BY <2>1 DEF RenderInv
  <2>7. sx' \in [registry : Requests \cup {0}, user : [Requests -> Requests \cup {0}],
                 pc : [Requests -> {"start", "await", "done"}], rendered : [Requests -> Requests \cup {0}],
                 overtaken : SUBSET Requests]
    BY <2>1, <2>2 DEF RenderInv
  <2> QED
    BY <2>1, <2>4, <2>5, <2>7 DEF RenderInv
<1> QED
  BY <1>1, <1>2, <1>3 DEF SXNext

-----------------------------------------------------------------------------
(* Store: signals and effects *)

Signals == {"a", "b", "sum"}
Runs == {"sum", "show", "bad"}
Shown == UNION {[X -> Int] : X \in SUBSET Signals}
RunState == [val : [Signals -> Int], queue : Seq(Runs), dropped : SUBSET Runs, subs : [Signals -> Seq(Runs)],
             seen : [Effects -> Shown], failing : BOOLEAN]

\* Who read a signal is subscribed to it.
Linked(subs, seen) ==
  /\ Contains(subs["a"], "sum") /\ Contains(subs["b"], "sum")
  /\ Contains(subs["sum"], "show") /\ Contains(subs["a"], "show")
  /\ "b" \in DOMAIN seen["show"] => Contains(subs["b"], "show")
\* What is not current is still to be run.
Current(s, rest) ==
  /\ s.val["sum"] = s.val["a"] + s.val["b"] \/ "sum" \in rest \/ Contains(s.queue, "sum")
  /\ s.seen["show"] = Wanted(s, "show") \/ "show" \in rest \/ Contains(s.queue, "show")
SignalInv ==
  /\ rx \in [val : [Signals -> Int], queue : Seq(Runs), dropped : SUBSET Runs, subs : [Signals -> Seq(Runs)],
             seen : [Effects -> Shown]]
  /\ Linked(rx.subs, rx.seen)
  /\ Current(rx, rx.dropped)

LEMMA SignalStarts == RXInit => SignalInv
<1> SUFFICES ASSUME RXInit PROVE SignalInv
  OBVIOUS
<1>1. Sources \cup {"sum"} = Signals /\ Effects = {"show", "bad"}
  BY DEF Sources, Signals, Effects
<1> DEFINE val == [x \in Sources \cup {"sum"} |-> 0]
           subs == [a |-> <<"sum", "show">>, b |-> <<"sum", "bad">>, sum |-> <<"show">>]
           seen == [show |-> [x \in {"sum", "a"} |-> 0], bad |-> [x \in {"b"} |-> 0]]
<1>2. rx = [val |-> val, queue |-> <<>>, dropped |-> {}, subs |-> subs, seen |-> seen]
  BY DEF RXInit
<1>3. val \in [Signals -> Int] /\ \A x \in Signals : val[x] = 0
  BY <1>1
<1>4. subs \in [Signals -> Seq(Runs)]
  <2>1. <<"sum", "show">> \in Seq(Runs) /\ <<"sum", "bad">> \in Seq(Runs) /\ <<"show">> \in Seq(Runs)
    BY DEF Runs
  <2>2. PICK p \in Seq(Runs), q \in Seq(Runs), r \in Seq(Runs) :
          p = <<"sum", "show">> /\ q = <<"sum", "bad">> /\ r = <<"show">>
    BY <2>1
  <2>3. [a |-> p, b |-> q, sum |-> r] \in [Signals -> Seq(Runs)]
    BY DEF Signals
  <2> QED
    BY <2>2, <2>3
<1>5. seen \in [Effects -> Shown]
  <2>1. [x \in {"sum", "a"} |-> 0] \in [{"sum", "a"} -> Int] /\ [x \in {"b"} |-> 0] \in [{"b"} -> Int]
    OBVIOUS
  <2>2. {"sum", "a"} \in SUBSET Signals /\ {"b"} \in SUBSET Signals
    BY DEF Signals
  <2>3. [x \in {"sum", "a"} |-> 0] \in Shown /\ [x \in {"b"} |-> 0] \in Shown
    BY <2>1, <2>2 DEF Shown
  <2> QED
    BY <1>1, <2>3
<1>6. Linked(subs, seen)
  BY DEF Linked, Contains
<1>7. seen["show"] = Wanted(rx, "show")
  <2>1. Reads(rx, "show") = {"sum", "a"}
    BY <1>2, <1>3 DEF Reads, Signals
  <2> QED
    BY <1>2, <1>3, <2>1 DEF Wanted, Signals
<1> HIDE DEF val, subs, seen
<1>8. Current(rx, {})
  BY <1>2, <1>3, <1>7 DEF Current, Signals
<1> QED
  BY <1>2, <1>3, <1>4, <1>5, <1>6, <1>8 DEF SignalInv

\* The subscribers of a signal are scheduled with what was scheduled before.
Put(f, queue, subs, m) == f = [k \in 0 .. m |-> IF k = 0 THEN queue ELSE Schedule(f[k - 1], subs[k])]

LEMMA PutExists ==
  ASSUME NEW queue, NEW subs, NEW n \in Nat
  PROVE  \E f : Put(f, queue, subs, n)
<1> DEFINE Bad == {m \in Nat : ~\E f : Put(f, queue, subs, m)}
<1>1. SUFFICES ASSUME Bad # {} PROVE FALSE
  OBVIOUS
<1>2. PICK m \in Bad : \A l \in Bad : m <= l
  BY <1>1, LeastNat
<1>3. CASE m = 0
  <2>1. PICK f : f = [k \in 0 .. 0 |-> queue]
    OBVIOUS
  <2>2. f = [k \in 0 .. 0 |-> IF k = 0 THEN queue ELSE Schedule(f[k - 1], subs[k])]
    BY <2>1
  <2> QED
    BY <1>3, <2>2 DEF Put
<1>4. CASE m # 0
  <2>1. m - 1 \in Nat /\ m - 1 \notin Bad
    BY <1>2, <1>4
  <2>2. PICK f : Put(f, queue, subs, m - 1)
    BY <2>1
  <2>3. \A k \in 0 .. m - 1 : f[k] = IF k = 0 THEN queue ELSE Schedule(f[k - 1], subs[k])
    BY <2>2 DEF Put
  <2>4. PICK g : g = [k \in 0 .. m |-> IF k = m THEN Schedule(f[m - 1], subs[m]) ELSE f[k]]
    OBVIOUS
  <2>5. ASSUME NEW k \in 0 .. m
        PROVE  g[k] = IF k = 0 THEN queue ELSE Schedule(g[k - 1], subs[k])
    <3>1. CASE k = m
      <4>1. g[m] = Schedule(f[m - 1], subs[m]) /\ g[m - 1] = f[m - 1]
        BY <1>2, <1>4, <2>1, <2>4
      <4> QED
        BY <1>4, <3>1, <4>1
    <3>2. CASE k # m
      <4>1. k \in 0 .. m - 1 /\ g[k] = f[k] /\ (k # 0 => g[k - 1] = f[k - 1])
        BY <1>2, <1>4, <2>4, <3>2
      <4> QED
        BY <2>3, <4>1
    <3> QED
      BY <3>1, <3>2
  <2>6. g = [k \in 0 .. m |-> IF k = 0 THEN queue ELSE Schedule(g[k - 1], subs[k])]
    BY <2>4, <2>5
  <2> QED
    BY <1>2, <2>6 DEF Put
<1> QED
  BY <1>3, <1>4

LEMMA ScheduleIs ==
  ASSUME NEW queue \in Seq(Runs), NEW n \in Runs
  PROVE  /\ Schedule(queue, n) \in Seq(Runs)
         /\ Contains(Schedule(queue, n), n)
         /\ \A r \in Runs : Contains(queue, r) => Contains(Schedule(queue, n), r)
<1>1. CASE Contains(queue, n)
  BY <1>1 DEF Schedule
<1>2. CASE ~Contains(queue, n)
  <2> DEFINE q == Append(queue, n)
  <2>1. /\ q \in Seq(Runs) /\ Len(q) = Len(queue) + 1 /\ q[Len(queue) + 1] = n
        /\ \A k \in 1 .. Len(queue) : q[k] = queue[k]
    BY AppendProperties
  <2>2. Len(queue) \in Nat
    BY LenProperties
  <2> HIDE DEF q
  <2>3. Contains(q, n) /\ \A r \in Runs : Contains(queue, r) => Contains(q, r)
    BY <2>1, <2>2 DEF Contains
  <2> QED
    BY <1>2, <2>1, <2>3 DEF Schedule, q
<1> QED
  BY <1>1, <1>2

LEMMA ScheduleAllIs ==
  ASSUME NEW queue \in Seq(Runs), NEW subs \in Seq(Runs)
  PROVE  /\ ScheduleAll(queue, subs) \in Seq(Runs)
         /\ \A r \in Runs : Contains(queue, r) \/ Contains(subs, r) => Contains(ScheduleAll(queue, subs), r)
<1> DEFINE n == Len(subs)
           f == CHOOSE f : Put(f, queue, subs, n)
           Right(k) == /\ f[k] \in Seq(Runs)
                       /\ \A r \in Runs : Contains(queue, r) => Contains(f[k], r)
                       /\ \A j \in 1 .. k : Contains(f[k], subs[j])
           Bad == {k \in 0 .. n : ~Right(k)}
<1>1. n \in Nat /\ \A k \in 1 .. n : subs[k] \in Runs
  BY LenProperties, ElementOfSeq
<1>2. ScheduleAll(queue, subs) = f[n]
  BY DEF ScheduleAll, Put
<1>3. Put(f, queue, subs, n)
  BY <1>1, PutExists
<1> HIDE DEF f
<1>4. \A k \in 0 .. n : f[k] = IF k = 0 THEN queue ELSE Schedule(f[k - 1], subs[k])
  BY <1>1, <1>3 DEF Put
<1>5. ASSUME Bad # {} PROVE FALSE
  <2>1. Bad \subseteq Nat
    BY <1>1
  <2>2. PICK m \in Bad : \A l \in Bad : m <= l
    BY <1>5, <2>1, LeastNat
  <2>3. m \in 0 .. n /\ ~Right(m)
    OBVIOUS
  <2>4. m # 0
    <3>1. ASSUME m = 0 PROVE Right(m)
      BY <1>1, <1>4, <3>1
    <3> QED
      BY <2>3, <3>1
  <2>5. m - 1 \in 0 .. n /\ m \in 1 .. n /\ Right(m - 1)
    <3>1. m - 1 \in 0 .. n /\ m \in 1 .. n /\ m - 1 \notin Bad
      BY <1>1, <2>2, <2>3, <2>4
    <3> QED
      BY <3>1
  <2> DEFINE q == f[m - 1]
  <2> DEFINE d == subs[m]
  <2>6. q \in Seq(Runs) /\ d \in Runs /\ f[m] = Schedule(q, d)
    BY <1>1, <1>4, <2>3, <2>4, <2>5
  <2> HIDE DEF q, d
  <2>7. /\ f[m] \in Seq(Runs) /\ Contains(f[m], d)
        /\ \A r \in Runs : Contains(q, r) => Contains(f[m], r)
    BY <2>6, ScheduleIs
  <2>8. \A j \in 1 .. m : j = m \/ (j \in 1 .. m - 1 /\ subs[j] \in Runs)
    BY <1>1, <2>5
  <2>9. Right(m)
    BY <2>5, <2>7, <2>8 DEF q, d
  <2> QED
    BY <2>3, <2>9
<1>6. Right(n)
  BY <1>1, <1>5
<1> QED
  BY <1>2, <1>6 DEF Contains

\* Setting a signal: what was scheduled stays, and who subscribed is scheduled.
SetTo(s, x, v, val, queue) ==
  /\ SetSignal(s, x, v) = IF s.val[x] = v THEN s ELSE [s EXCEPT !.val = val, !.queue = queue]
  /\ val[x] = v /\ \A y \in Signals \ {x} : val[y] = s.val[y]
  /\ \A r \in Runs : Contains(s.queue, r) \/ Contains(s.subs[x], r) => Contains(queue, r)

LEMMA SetSignalIs ==
  ASSUME NEW s, NEW x \in Signals, NEW v \in Int,
         s.val \in [Signals -> Int], s.queue \in Seq(Runs), s.subs \in [Signals -> Seq(Runs)]
  PROVE  \E val \in [Signals -> Int], queue \in Seq(Runs) : SetTo(s, x, v, val, queue)
<1> DEFINE val == [s.val EXCEPT ![x] = v]
           queue == ScheduleAll(s.queue, s.subs[x])
<1>1. SetSignal(s, x, v) = IF s.val[x] = v THEN s ELSE [s EXCEPT !.val = val, !.queue = queue]
  BY DEF SetSignal
<1>2. val \in [Signals -> Int] /\ val[x] = v /\ \A y \in Signals \ {x} : val[y] = s.val[y]
  OBVIOUS
<1>3. queue \in Seq(Runs) /\ \A r \in Runs : Contains(s.queue, r) \/ Contains(s.subs[x], r) => Contains(queue, r)
  BY ScheduleAllIs
<1> HIDE DEF val, queue
<1> QED
  BY <1>1, <1>2, <1>3 DEF SetTo

\* A run subscribes to what it reads.
LEMMA TrackIs ==
  ASSUME NEW s, NEW n \in Runs, s.subs \in [Signals -> Seq(Runs)]
  PROVE  \E subs \in [Signals -> Seq(Runs)] :
           /\ Track(s, n) = [s EXCEPT !.subs = subs]
           /\ \A x \in Signals : /\ \A r \in Runs : Contains(s.subs[x], r) => Contains(subs[x], r)
                                 /\ x \in Reads(s, n) => Contains(subs[x], n)
<1> DEFINE subs == [x \in DOMAIN s.subs |-> IF x \in Reads(s, n) /\ ~Contains(s.subs[x], n) THEN Append(s.subs[x], n)
                                           ELSE s.subs[x]]
<1>1. Track(s, n) = [s EXCEPT !.subs = subs]
  BY DEF Track
<1>2. ASSUME NEW x \in Signals
      PROVE  /\ subs[x] \in Seq(Runs)
             /\ \A r \in Runs : Contains(s.subs[x], r) => Contains(subs[x], r)
             /\ x \in Reads(s, n) => Contains(subs[x], n)
  <2>1. Schedule(s.subs[x], n) = IF ~Contains(s.subs[x], n) THEN Append(s.subs[x], n) ELSE s.subs[x]
    BY DEF Schedule
  <2>2. subs[x] = IF x \in Reads(s, n) THEN Schedule(s.subs[x], n) ELSE s.subs[x]
    BY <2>1
  <2>3. s.subs[x] \in Seq(Runs)
    OBVIOUS
  <2> HIDE DEF subs
  <2> QED
    BY <2>2, <2>3, ScheduleIs
<1>3. subs \in [Signals -> Seq(Runs)]
  BY <1>2
<1> HIDE DEF subs
<1> QED
  BY <1>1, <1>2, <1>3

\* What reads are, and what they depend on.
LEMMA ReadsAre ==
  ASSUME NEW s
  PROVE  /\ Reads(s, "sum") = {"a", "b"}
         /\ Reads(s, "show") = IF s.val["a"] = 1 THEN {"sum", "a", "b"} ELSE {"sum", "a"}
         /\ Reads(s, "bad") = {"b"}
  BY DEF Reads

LEMMA WantedIs ==
  ASSUME NEW s, s.val \in [Signals -> Int], NEW n \in Runs
  PROVE  Wanted(s, n) \in Shown /\ DOMAIN Wanted(s, n) = Reads(s, n)
<1>1. Reads(s, n) \in SUBSET Signals
  BY ReadsAre DEF Runs, Signals
<1>2. Wanted(s, n) = [x \in Reads(s, n) |-> s.val[x]]
  BY DEF Wanted
<1>3. \A x \in Reads(s, n) : s.val[x] \in Int
  BY <1>1
<1>4. Wanted(s, n) \in [Reads(s, n) -> Int]
  BY <1>2, <1>3
<1> QED
  BY <1>1, <1>2, <1>4 DEF Shown

LEMMA WantedSame ==
  ASSUME NEW s, NEW t, \A x \in Reads(s, "show") : s.val[x] = t.val[x]
  PROVE  Wanted(s, "show") = Wanted(t, "show")
<1>1. "a" \in Reads(s, "show")
  BY ReadsAre
<1>2. Reads(s, "show") = Reads(t, "show")
  BY <1>1, ReadsAre
<1> QED
  BY <1>2 DEF Wanted

\* A signal that is set leaves nothing that is not current and not to be run.
LEMMA SetKeepsCurrent ==
  ASSUME NEW s, NEW t, NEW x \in {"a", "b"}, NEW rest,
         s.val \in [Signals -> Int], t.val \in [Signals -> Int],
         \A y \in Signals \ {x} : t.val[y] = s.val[y], t.seen = s.seen, Linked(s.subs, s.seen),
         \A r \in Runs : Contains(s.queue, r) \/ Contains(s.subs[x], r) => Contains(t.queue, r),
         Current(s, rest), s.seen["show"] = Wanted(s, "show") => DOMAIN s.seen["show"] = Reads(s, "show")
  PROVE  Current(t, rest)
<1>1. "sum" \in Runs /\ "show" \in Runs /\ "sum" \in Signals /\ "a" \in Signals /\ "b" \in Signals
  BY DEF Runs, Signals
<1>2. Contains(t.queue, "sum")
  BY <1>1 DEF Linked
<1>3. CASE x = "a"
  BY <1>1, <1>2, <1>3 DEF Linked, Current
<1>4. CASE x = "b" /\ Contains(s.subs["b"], "show")
  BY <1>1, <1>2, <1>4 DEF Current
<1>5. CASE x = "b" /\ ~Contains(s.subs["b"], "show")
  <2>1. CASE s.seen["show"] = Wanted(s, "show")
    <3>1. "b" \notin Reads(s, "show")
      BY <1>5, <2>1 DEF Linked
    <3>2. Reads(s, "show") \subseteq Signals \ {"b"}
      BY <3>1, ReadsAre DEF Signals
    <3>3. Wanted(s, "show") = Wanted(t, "show")
      BY <1>5, <3>2, WantedSame
    <3> QED
      BY <1>2, <2>1, <3>3 DEF Current
  <2>2. CASE s.seen["show"] # Wanted(s, "show")
    BY <1>1, <1>2, <2>2 DEF Current
  <2> QED
    BY <2>1, <2>2
<1> QED
  BY <1>3, <1>4, <1>5

\* What a run of a batch keeps, with the runs that are still to come.
BatchInv(s, rest) ==
  /\ s \in RunState
  /\ Linked(s.subs, s.seen)
  /\ Current(s, rest \cup s.dropped)

LEMMA RunKeeps ==
  ASSUME NEW s, NEW rest, NEW n \in Runs, BatchInv(s, rest \cup {n})
  PROVE  BatchInv(RunSubscriber(s, n), rest)
<1> DEFINE t == RunSubscriber(s, n)
<1>0. /\ s \in RunState /\ s.val \in [Signals -> Int] /\ s.queue \in Seq(Runs) /\ s.subs \in [Signals -> Seq(Runs)]
      /\ s.seen \in [Effects -> Shown] /\ s.dropped \in SUBSET Runs /\ s.failing \in BOOLEAN
  BY DEF BatchInv, RunState
<1>1. PICK subs \in [Signals -> Seq(Runs)] :
        /\ Track(s, n) = [s EXCEPT !.subs = subs]
        /\ \A x \in Signals : /\ \A r \in Runs : Contains(s.subs[x], r) => Contains(subs[x], r)
                              /\ x \in Reads(s, n) => Contains(subs[x], n)
  BY <1>0, TrackIs
<1>2. "sum" \in Runs /\ "show" \in Runs /\ "sum" \in Signals /\ "a" \in Signals /\ "b" \in Signals
      /\ Effects = {"show", "bad"} /\ Runs = {"sum", "show", "bad"}
  BY DEF Runs, Signals, Effects
<1>3. Linked(subs, s.seen)
  BY <1>1, <1>2 DEF BatchInv, Linked
<1>4. CASE s.failing
  <2> DEFINE dropped == s.dropped \cup {n}
  <2>1. t = [val |-> s.val, queue |-> s.queue, dropped |-> dropped, subs |-> s.subs, seen |-> s.seen, failing |-> s.failing]
    BY <1>0, <1>4 DEF RunSubscriber, RunState
  <2>2. dropped \in SUBSET Runs /\ rest \cup dropped = (rest \cup {n}) \cup s.dropped
    BY <1>0
  <2> HIDE DEF t, dropped
  <2>3. t \in RunState
    BY <1>0, <2>1, <2>2 DEF RunState
  <2>4. Wanted(t, "show") = Wanted(s, "show")
    BY <2>1, WantedSame
  <2>5. Current(t, rest \cup dropped)
    BY <2>1, <2>2, <2>4 DEF BatchInv, Current
  <2> QED
    BY <2>1, <2>3, <2>5 DEF BatchInv, Linked, t
<1>5. CASE ~s.failing /\ n = "sum"
  <2> DEFINE d == [Track(s, n) EXCEPT !.dropped = @ \ {n}]
             v == s.val["a"] + s.val["b"]
             dropped == s.dropped \ {n}
  <2>1. d.val = s.val /\ d.queue = s.queue /\ d.subs = subs
        /\ d = [val |-> s.val, queue |-> s.queue, dropped |-> dropped, subs |-> subs, seen |-> s.seen, failing |-> s.failing]
    <3>1. Track(s, n) = [val |-> s.val, queue |-> s.queue, dropped |-> s.dropped, subs |-> subs, seen |-> s.seen,
                         failing |-> s.failing]
      BY <1>0, <1>1 DEF RunState
    <3>2. PICK r : r = Track(s, n)
      OBVIOUS
    <3>3. r.dropped = s.dropped
      BY <3>1, <3>2
    <3>4. PICK left : left = s.dropped \ {n}
      OBVIOUS
    <3>5. d = [r EXCEPT !.dropped = left]
      BY <3>2, <3>3, <3>4
    <3>6. r = [val |-> s.val, queue |-> s.queue, dropped |-> s.dropped, subs |-> subs, seen |-> s.seen,
               failing |-> s.failing]
      BY <3>1, <3>2
    <3> HIDE DEF d
    <3>7. d = [val |-> s.val, queue |-> s.queue, dropped |-> left, subs |-> subs, seen |-> s.seen,
               failing |-> s.failing]
      BY <3>5, <3>6
    <3> QED
      BY <3>4, <3>7
  <2>7. dropped \in SUBSET Runs /\ (rest \cup {n}) \cup s.dropped = (rest \cup dropped) \cup {n}
    BY <1>0
  <2> HIDE DEF dropped
  <2> HIDE DEF d
  <2>2. v \in Int
    BY <1>0, <1>2
  <2> HIDE DEF v
  <2>0. PICK val \in [Signals -> Int], queue \in Seq(Runs) : SetTo(d, "sum", v, val, queue)
    <3>1. d.val \in [Signals -> Int] /\ d.queue \in Seq(Runs) /\ d.subs \in [Signals -> Seq(Runs)]
      BY <1>0, <2>1
    <3> QED
      BY <1>2, <2>2, <3>1, SetSignalIs
  <2>3. /\ SetSignal(d, "sum", v) = IF d.val["sum"] = v THEN d ELSE [d EXCEPT !.val = val, !.queue = queue]
        /\ val["sum"] = v /\ \A y \in Signals \ {"sum"} : val[y] = d.val[y]
        /\ \A r \in Runs : Contains(d.queue, r) \/ Contains(d.subs["sum"], r) => Contains(queue, r)
    BY <2>0 DEF SetTo
  <2>4. t = SetSignal(d, "sum", v)
    BY <1>5 DEF RunSubscriber, d, v
  <2> HIDE DEF t
  <2>5. CASE d.val["sum"] = v
    <3>1. t = d
      BY <2>3, <2>4, <2>5
    <3>2. t \in RunState
      BY <1>0, <2>1, <2>7, <3>1 DEF RunState
    <3>3. Wanted(t, "show") = Wanted(s, "show")
      BY <2>1, <3>1, WantedSame
    <3>4. Current(t, rest \cup dropped)
      BY <1>2, <1>5, <2>1, <2>5, <2>7, <3>1, <3>3 DEF Current, BatchInv, v
    <3> QED
      BY <1>3, <2>1, <3>1, <3>2, <3>4 DEF BatchInv, t
  <2>6. CASE d.val["sum"] # v
    <3>1. t = [val |-> val, queue |-> queue, dropped |-> dropped, subs |-> subs, seen |-> s.seen, failing |-> s.failing]
      <4>1. t = [d EXCEPT !.val = val, !.queue = queue]
        BY <2>3, <2>4, <2>6
      <4>2. d = [val |-> s.val, queue |-> s.queue, dropped |-> dropped, subs |-> subs, seen |-> s.seen, failing |-> s.failing]
        BY <2>1
      <4> QED
        BY <4>1, <4>2
    <3>2. t \in RunState
      BY <1>0, <2>7, <3>1 DEF RunState
    <3>3. t.val["sum"] = t.val["a"] + t.val["b"]
      BY <1>2, <2>1, <2>3, <3>1 DEF v, Signals
    <3>4. Contains(t.queue, "show")
      BY <1>2, <1>3, <2>1, <2>3, <3>1 DEF Linked
    <3>5. Current(t, rest \cup dropped)
      BY <3>3, <3>4 DEF Current
    <3> QED
      BY <1>3, <3>1, <3>2, <3>5 DEF BatchInv, t
  <2> QED
    BY <2>5, <2>6
<1>6. CASE ~s.failing /\ n = "bad" /\ s.val["b"] = 1
  <2>1. t = [val |-> s.val, queue |-> s.queue, dropped |-> s.dropped, subs |-> subs, seen |-> s.seen, failing |-> TRUE]
    BY <1>0, <1>1, <1>6 DEF RunSubscriber, RunState
  <2> HIDE DEF t
  <2>2. t \in RunState
    BY <1>0, <2>1 DEF RunState
  <2>3. Wanted(t, "show") = Wanted(s, "show")
    BY <2>1, WantedSame
  <2>4. Current(t, rest \cup t.dropped)
    BY <1>6, <2>1, <2>3 DEF BatchInv, Current
  <2> QED
    BY <1>3, <2>1, <2>2, <2>4 DEF BatchInv, t
<1>7. CASE ~s.failing /\ n # "sum" /\ ~(n = "bad" /\ s.val["b"] = 1)
  <2> DEFINE w == Wanted(s, n)
             seen == [s.seen EXCEPT ![n] = w]
             dropped == s.dropped \ {n}
  <2>1. t = [val |-> s.val, queue |-> s.queue, dropped |-> dropped, subs |-> subs, seen |-> seen, failing |-> s.failing]
    BY <1>0, <1>1, <1>7 DEF RunSubscriber, RunState
  <2>2. w \in Shown /\ DOMAIN w = Reads(s, n)
    BY <1>0, WantedIs
  <2>3. n \in {"show", "bad"}
    BY <1>2, <1>7
  <2>9. dropped \in SUBSET Runs /\ (rest \cup {n}) \cup s.dropped = (rest \cup dropped) \cup {n}
    BY <1>0
  <2> HIDE DEF t, w, dropped
  <2>4. seen \in [Effects -> Shown] /\ seen[n] = w /\ (n # "show" => seen["show"] = s.seen["show"])
    BY <1>0, <1>2, <2>2, <2>3
  <2> HIDE DEF seen
  <2>5. t \in RunState
    BY <1>0, <2>1, <2>4, <2>9 DEF RunState
  <2>6. Wanted(t, "show") = Wanted(s, "show")
    BY <2>1, WantedSame
  <2>7. Linked(t.subs, t.seen)
    <3>1. "b" \in DOMAIN t.seen["show"] => Contains(subs["b"], "show")
      <4>1. CASE n = "show"
        BY <1>1, <1>2, <2>1, <2>2, <2>4, <4>1
      <4>2. CASE n # "show"
        BY <1>3, <2>1, <2>4, <4>2 DEF Linked
      <4> QED
        BY <4>1, <4>2
    <3> QED
      BY <1>3, <2>1, <3>1 DEF Linked
  <2>8. Current(t, rest \cup dropped)
    <3>1. Current(s, (rest \cup dropped) \cup {n})
      BY <2>9 DEF BatchInv
    <3>2. t.val["sum"] = t.val["a"] + t.val["b"] \/ "sum" \in rest \cup dropped \/ Contains(t.queue, "sum")
      BY <1>7, <2>1, <3>1 DEF Current
    <3>3. t.seen["show"] = Wanted(t, "show") \/ "show" \in rest \cup dropped \/ Contains(t.queue, "show")
      BY <2>1, <2>3, <2>4, <2>6, <3>1 DEF Current, w
    <3> QED
      BY <3>2, <3>3 DEF Current
  <2> QED
    BY <2>1, <2>5, <2>7, <2>8 DEF BatchInv, t
<1> QED
  BY <1>4, <1>5, <1>6, <1>7

\* The subscribers of a batch run one after the other.
Batch(f, start, queue, m) == f = [k \in 0 .. m |-> IF k = 0 THEN start ELSE RunSubscriber(f[k - 1], queue[k])]

LEMMA BatchExists ==
  ASSUME NEW start, NEW queue, NEW n \in Nat
  PROVE  \E f : Batch(f, start, queue, n)
<1> DEFINE Bad == {m \in Nat : ~\E f : Batch(f, start, queue, m)}
<1>1. SUFFICES ASSUME Bad # {} PROVE FALSE
  OBVIOUS
<1>2. PICK m \in Bad : \A l \in Bad : m <= l
  BY <1>1, LeastNat
<1>3. CASE m = 0
  <2>1. PICK f : f = [k \in 0 .. 0 |-> start]
    OBVIOUS
  <2>2. f = [k \in 0 .. 0 |-> IF k = 0 THEN start ELSE RunSubscriber(f[k - 1], queue[k])]
    BY <2>1
  <2> QED
    BY <1>3, <2>2 DEF Batch
<1>4. CASE m # 0
  <2>1. m - 1 \in Nat /\ m - 1 \notin Bad
    BY <1>2, <1>4
  <2>2. PICK f : Batch(f, start, queue, m - 1)
    BY <2>1
  <2>3. \A k \in 0 .. m - 1 : f[k] = IF k = 0 THEN start ELSE RunSubscriber(f[k - 1], queue[k])
    BY <2>2 DEF Batch
  <2>4. PICK g : g = [k \in 0 .. m |-> IF k = m THEN RunSubscriber(f[m - 1], queue[m]) ELSE f[k]]
    OBVIOUS
  <2>5. ASSUME NEW k \in 0 .. m
        PROVE  g[k] = IF k = 0 THEN start ELSE RunSubscriber(g[k - 1], queue[k])
    <3>1. CASE k = m
      <4>1. g[m] = RunSubscriber(f[m - 1], queue[m]) /\ g[m - 1] = f[m - 1]
        BY <1>2, <1>4, <2>1, <2>4
      <4> QED
        BY <1>4, <3>1, <4>1
    <3>2. CASE k # m
      <4>1. k \in 0 .. m - 1 /\ g[k] = f[k] /\ (k # 0 => g[k - 1] = f[k - 1])
        BY <1>2, <1>4, <2>4, <3>2
      <4> QED
        BY <2>3, <4>1
    <3> QED
      BY <3>1, <3>2
  <2>6. g = [k \in 0 .. m |-> IF k = 0 THEN start ELSE RunSubscriber(g[k - 1], queue[k])]
    BY <2>4, <2>5
  <2> QED
    BY <1>2, <2>6 DEF Batch
<1> QED
  BY <1>3, <1>4

\* A batch that has run leaves nothing that is not current and not in the next one.
LEMMA FlushKeeps == ASSUME SignalInv, rx' = Flush(rx) PROVE SignalInv'
<1> DEFINE q == rx.queue
           n == Len(q)
           start == [val |-> rx.val, queue |-> <<>>, dropped |-> rx.dropped, subs |-> rx.subs,
                     seen |-> rx.seen, failing |-> FALSE]
           f == CHOOSE f : Batch(f, start, q, n)
           Rest(k) == {q[j] : j \in k + 1 .. n}
           end == f[n]
<1>1. q \in Seq(Runs) /\ n \in Nat /\ \A k \in 1 .. n : q[k] \in Runs
  <2>1. q \in Seq(Runs)
    BY DEF SignalInv
  <2> QED
    BY <2>1, LenProperties, ElementOfSeq
<1>2. rx' = [val |-> end.val, queue |-> end.queue, dropped |-> end.dropped, subs |-> end.subs, seen |-> end.seen]
  BY DEF Flush, Batch
<1>3. Batch(f, start, q, n)
  BY <1>1, BatchExists
<1> HIDE DEF f
<1>4. f[0] = start /\ \A k \in 1 .. n : k - 1 \in 0 .. n /\ f[k] = RunSubscriber(f[k - 1], q[k])
  <2> HIDE DEF start, q, n
  <2>1. \A k \in 0 .. n : f[k] = IF k = 0 THEN start ELSE RunSubscriber(f[k - 1], q[k])
    BY <1>3 DEF Batch
  <2>2. 0 \in 0 .. n /\ \A k \in 1 .. n : k \in 0 .. n /\ k # 0 /\ k - 1 \in 0 .. n
    BY <1>1
  <2> QED
    BY <2>1, <2>2
<1>5. BatchInv(start, Rest(0))
  <2>1. start \in RunState /\ start.val = rx.val /\ start.seen = rx.seen /\ start.subs = rx.subs /\ start.dropped = rx.dropped
        /\ start.failing = FALSE
    BY DEF SignalInv, RunState
  <2>2. \A r : Contains(q, r) => r \in Rest(0)
    BY <1>1 DEF Contains
  <2>3. Wanted(start, "show") = Wanted(rx, "show")
    BY <2>1, WantedSame
  <2> HIDE DEF start, Rest
  <2>4. Current(start, Rest(0) \cup start.dropped)
    BY <2>1, <2>2, <2>3 DEF SignalInv, Current
  <2> QED
    BY <2>1, <2>4 DEF SignalInv, BatchInv
<1> DEFINE Right(k) == BatchInv(f[k], Rest(k))
           Bad == {k \in 0 .. n : ~Right(k)}
<1> HIDE DEF q, n, start, Right
<1>6. ASSUME Bad # {} PROVE FALSE
  <2>1. Bad \subseteq Nat
    BY <1>1
  <2>2. PICK m \in Bad : \A l \in Bad : m <= l
    BY <1>6, <2>1, LeastNat
  <2>3. m \in 0 .. n /\ ~Right(m)
    OBVIOUS
  <2>4. m # 0
    BY <1>4, <1>5, <2>3 DEF Right
  <2>5. m - 1 \in 0 .. n /\ m \in 1 .. n /\ Right(m - 1)
    <3>1. m - 1 \in 0 .. n /\ m \in 1 .. n /\ m - 1 \notin Bad
      BY <1>1, <2>2, <2>3, <2>4
    <3> QED
      BY <3>1
  <2>6. Rest(m - 1) = Rest(m) \cup {q[m]}
    BY <1>1, <2>5
  <2>7. f[m] = RunSubscriber(f[m - 1], q[m]) /\ q[m] \in Runs
    BY <1>1, <1>4, <2>5
  <2> HIDE DEF Rest
  <2>8. BatchInv(f[m - 1], Rest(m) \cup {q[m]})
    BY <2>5, <2>6 DEF Right
  <2>9. BatchInv(f[m], Rest(m))
    BY <2>7, <2>8, RunKeeps
  <2> QED
    BY <2>3, <2>9 DEF Right
<1>7. BatchInv(end, {})
  <2>1. Right(n)
    BY <1>1, <1>6
  <2>2. Rest(n) = {}
    BY <1>1
  <2> QED
    BY <2>1, <2>2 DEF Right
<1> HIDE DEF end
<1>8. rx'.val = end.val /\ rx'.seen = end.seen /\ rx'.queue = end.queue /\ rx'.subs = end.subs /\ rx'.dropped = end.dropped
  BY <1>2
<1>9. Wanted(rx', "show") = Wanted(end, "show")
  BY <1>8, WantedSame
<1>10. Current(rx, rx.dropped)'
  <2>1. PICK t : t = rx'
    OBVIOUS
  <2>2. Current(t, t.dropped) => Current(rx, rx.dropped)'
    BY <2>1 DEF Current, Wanted, Reads
  <2>3. Current(end, end.dropped)
    BY <1>7 DEF BatchInv
  <2>4. Current(end, end.dropped) => Current(t, t.dropped)
    BY <1>8, <1>9, <2>1 DEF Current
  <2> QED
    BY <2>2, <2>3, <2>4
<1>11. rx' \in [val : [Signals -> Int], queue : Seq(Runs), dropped : SUBSET Runs, subs : [Signals -> Seq(Runs)],
                seen : [Effects -> Shown]]
  BY <1>2, <1>7 DEF BatchInv, RunState
<1> QED
  BY <1>7, <1>8, <1>10, <1>11 DEF SignalInv, BatchInv, Linked

LEMMA SignalStep == SignalInv /\ [RXNext]_rx => SignalInv'
<1> SUFFICES ASSUME SignalInv, [RXNext]_rx PROVE SignalInv'
  OBVIOUS
<1>1. CASE UNCHANGED rx
  BY <1>1 DEF SignalInv, Linked, Current, Wanted, Reads
<1>2. CASE rx' = Flush(rx)
  BY <1>2, FlushKeeps
<1>3. ASSUME NEW x \in Sources, NEW v \in {0, 1}, rx' = SetSignal(rx, x, v) PROVE SignalInv'
  <2>1. CASE rx' = rx
    BY <1>1, <2>1
  <2>2. CASE rx' # rx
    <3>1. x \in {"a", "b"} /\ x \in Signals /\ v \in Int
      BY DEF Sources, Signals
    <3>2. /\ rx.val \in [Signals -> Int] /\ rx.queue \in Seq(Runs) /\ rx.subs \in [Signals -> Seq(Runs)]
          /\ rx.seen \in [Effects -> Shown] /\ rx.dropped \in SUBSET Runs
      BY DEF SignalInv
    <3>3. PICK val \in [Signals -> Int], queue \in Seq(Runs) :
            /\ rx' = [rx EXCEPT !.val = val, !.queue = queue]
            /\ \A y \in Signals \ {x} : val[y] = rx.val[y]
            /\ \A r \in Runs : Contains(rx.queue, r) \/ Contains(rx.subs[x], r) => Contains(queue, r)
      <4>1. PICK val \in [Signals -> Int], queue \in Seq(Runs) : SetTo(rx, x, v, val, queue)
        <5>1. PICK s : s = rx
          OBVIOUS
        <5>2. s.val \in [Signals -> Int] /\ s.queue \in Seq(Runs) /\ s.subs \in [Signals -> Seq(Runs)]
          BY <3>2, <5>1
        <5>3. \E val \in [Signals -> Int], queue \in Seq(Runs) : SetTo(s, x, v, val, queue)
          BY <3>1, <5>2, SetSignalIs
        <5> QED
          BY <5>1, <5>3
      <4>2. rx' = [rx EXCEPT !.val = val, !.queue = queue]
        BY <1>3, <2>2, <4>1 DEF SetTo
      <4> QED
        BY <4>1, <4>2 DEF SetTo
    <3>4. rx' = [val |-> val, queue |-> queue, dropped |-> rx.dropped, subs |-> rx.subs, seen |-> rx.seen]
      BY <3>3 DEF SignalInv
    <3>5. PICK t : t = rx'
      OBVIOUS
    <3>6. rx.seen["show"] = Wanted(rx, "show") => DOMAIN rx.seen["show"] = Reads(rx, "show")
      <4>1. "show" \in Runs
        BY DEF Runs
      <4> QED
        BY <3>2, <4>1, WantedIs
    <3>7. Current(t, rx.dropped)
      <4>1. Linked(rx.subs, rx.seen)
        BY DEF SignalInv
      <4>2. SUFFICES ASSUME Current(rx, rx.dropped) PROVE Current(t, rx.dropped)
        BY DEF SignalInv
      <4>3. /\ t.val \in [Signals -> Int] /\ \A y \in Signals \ {x} : t.val[y] = rx.val[y]
            /\ t.seen = rx.seen
            /\ \A r \in Runs : Contains(rx.queue, r) \/ Contains(rx.subs[x], r) => Contains(t.queue, r)
        BY <3>3, <3>4, <3>5
      <4> QED
        BY <3>1, <3>2, <3>6, <4>1, <4>2, <4>3, SetKeepsCurrent
    <3>8. Current(t, rx.dropped) => Current(rx, rx.dropped)'
      BY <3>4, <3>5 DEF Current, Wanted, Reads
    <3>9. rx' \in [val : [Signals -> Int], queue : Seq(Runs), dropped : SUBSET Runs, subs : [Signals -> Seq(Runs)],
                   seen : [Effects -> Shown]]
      BY <3>2, <3>4
    <3> QED
      BY <3>4, <3>7, <3>8, <3>9 DEF SignalInv, Linked
  <2> QED
    BY <2>1, <2>2
<1> QED
  BY <1>1, <1>2, <1>3 DEF RXNext

LEMMA SignalFromInv == SignalInv => EffectsSettle
<1>1. rx.queue = <<>> => ~Contains(rx.queue, "sum") /\ ~Contains(rx.queue, "show")
  BY DEF Contains
<1> QED
  BY <1>1 DEF SignalInv, Current, EffectsSettle

-----------------------------------------------------------------------------
(* Store: subscribers and storage *)

Data == [Keys -> Int]
Subscribed == Components \cup {"persist"}
InstanceState == [vals : Data, batching : BOOLEAN, subs : Seq(Subscribed)]
StoreState == [inst : [Instances -> InstanceState], registry : Instances \cup {0}, storage : Data,
               pendingHydration : Data, devtools : Instances \cup {0}, seen : [Components -> Data],
               of : [Components -> Instances \cup {0}]]

\* The initial properties are always there.
Whole(vals) == vals["saved"] # Absent /\ vals["other"] # Absent

\* The callback at a place of the list is called: none before it throws.
Reached(subs, j) == \A o \in 1 .. j - 1 : subs[o] \notin Throwers
\* A component is in the list of one instance, once, and after a callback that throws it
\* was never called.
Placed(s, i) ==
  LET subs == s.inst[i].subs
  IN /\ \A j \in 1 .. Len(subs) : subs[j] \in Components =>
          s.of[subs[j]] = i /\ (~Reached(subs, j) => s.seen[subs[j]] = Nothing)
     /\ \A j, k \in 1 .. Len(subs) : subs[j] = subs[k] => j = k
     /\ s.inst[i].vals = Nothing => subs = <<>>
     /\ s.inst[i].vals # Nothing => Whole(s.inst[i].vals)
Shape(s) ==
  /\ s \in StoreState
  /\ \A i \in Instances : Placed(s, i)
  /\ s.storage # Nothing => s.storage["saved"] # Absent
  /\ PathsOf(s.storage) = s.storage
Heard(s, i) ==
  LET subs == s.inst[i].subs
  IN ~s.inst[i].batching => \A j \in 1 .. Len(subs) : subs[j] \in Components /\ Reached(subs, j)
                                                        => s.seen[subs[j]] = Nothing \/ UpTo(s.seen[subs[j]], s.inst[i].vals)
Alone(s, i) == \A o \in Instances \ {i} : s.inst[o].vals = Nothing
Stored(s, i) == ~s.inst[i].batching /\ Alone(s, i) 
                   => s.storage = Nothing \/ UpTo(s.storage, PathsOf(s.inst[i].vals))
Plugged(s, i) == Len(s.inst[i].subs) >= 1 /\ s.inst[i].subs[1] = "persist"

Settled(s) ==
  /\ Shape(s)
  /\ \A i \in Instances : Heard(s, i) /\ (s.inst[i].vals # Nothing => Plugged(s, i))
                          /\ (s.registry = i => s.inst[i].vals # Nothing /\ Stored(s, i))

LEMMA DataIs ==
  /\ Nothing \in Data /\ Fresh \in Data /\ Nothing["saved"] = Absent /\ Whole(Fresh) /\ Absent \in Int
  /\ \A d \in Data : /\ PathsOf(d) \in Data /\ PathsOf(d)["saved"] = d["saved"]
                     /\ PathsOf(PathsOf(d)) = PathsOf(d)
  /\ "saved" \in Keys /\ PathsOf(Nothing) = Nothing
<1>1. /\ Nothing \in Data /\ Fresh \in Data /\ Nothing["saved"] = Absent /\ Whole(Fresh) /\ Absent \in Int
      /\ "saved" \in Keys
  BY DEF Nothing, Fresh, Data, Keys, Absent, Whole
<1>2. ASSUME NEW d \in Data
      PROVE  PathsOf(d) \in Data /\ PathsOf(d)["saved"] = d["saved"]
  BY <1>1 DEF PathsOf, Paths, Data
<1>3. ASSUME NEW d \in Data PROVE PathsOf(PathsOf(d)) = PathsOf(d)
  <2>1. \A k \in Keys : PathsOf(d)[k] = IF k \in Paths THEN d[k] ELSE Absent
    BY DEF PathsOf
  <2>2. PathsOf(PathsOf(d)) = [k \in Keys |-> IF k \in Paths THEN PathsOf(d)[k] ELSE Absent]
    BY DEF PathsOf
  <2>3. PathsOf(d) = [k \in Keys |-> IF k \in Paths THEN d[k] ELSE Absent]
    BY DEF PathsOf
  <2> QED
    BY <2>1, <2>2, <2>3
<1>4. PathsOf(Nothing) = Nothing
  BY DEF PathsOf, Nothing
<1> QED
  BY <1>1, <1>2, <1>3, <1>4

LEMMA MergeIs ==
  ASSUME NEW d \in Data, NEW p \in Data
  PROVE  /\ Merge(d, p) \in Data
         /\ Whole(d) => Whole(Merge(d, p))
         /\ p["saved"] # Absent => UpTo(PathsOf(p), PathsOf(Merge(d, p)))
<1>1. "saved" \in Keys /\ "other" \in Keys /\ Keys = {"saved", "other", "added"}
  BY DEF Keys
<1>2. Merge(d, p) \in Data /\ \A k \in Keys : Merge(d, p)[k] = IF p[k] = Absent THEN d[k] ELSE p[k]
  BY DEF Merge, Data
<1>3. Whole(d) => Whole(Merge(d, p))
  BY <1>1, <1>2 DEF Whole
<1>4. ASSUME p["saved"] # Absent PROVE UpTo(PathsOf(p), PathsOf(Merge(d, p)))
  <2>1. \A w : \A k \in Keys : PathsOf(w)[k] = IF k \in Paths THEN w[k] ELSE Absent
    BY DEF PathsOf
  <2>2. ASSUME NEW k \in Keys, ~(k = "added" /\ PathsOf(p)[k] = Absent)
        PROVE  PathsOf(p)[k] = PathsOf(Merge(d, p))[k]
    <3>1. CASE k \in Paths
      <4>1. p[k] # Absent
        BY <1>4, <2>1, <2>2, <3>1 DEF Paths
      <4> QED
        BY <1>2, <2>1, <3>1, <4>1
    <3>2. CASE k \notin Paths
      BY <2>1, <3>2
    <3> QED
      BY <3>1, <3>2
  <2> QED
    BY <2>2 DEF UpTo
<1> QED
  BY <1>2, <1>3, <1>4

\* Which callbacks of a list are called.
LEMMA CalledIs ==
  ASSUME NEW subs \in Seq(Subscribed)
  PROVE  Called(subs) = {subs[j] : j \in {j \in 1 .. Len(subs) : Reached(subs, j)}}
<1> DEFINE bad == {j \in 1 .. Len(subs) : subs[j] \in Throwers}
<1>1. Len(subs) \in Nat /\ DOMAIN subs = 1 .. Len(subs)
  BY LenProperties
<1>2. CASE bad = {}
  <2>1. Called(subs) = {subs[j] : j \in 1 .. Len(subs)}
    BY <1>1, <1>2 DEF Called, ToSet
  <2>2. \A j \in 1 .. Len(subs) : Reached(subs, j)
    BY <1>1, <1>2 DEF Reached
  <2> QED
    BY <2>1, <2>2
<1>3. CASE bad # {}
  <2> DEFINE first == CHOOSE j \in bad : \A o \in bad : j <= o
  <2>1. bad \subseteq Nat
    BY <1>1
  <2>2. \E j \in bad : \A o \in bad : j <= o
    BY <1>3, <2>1, LeastNat
  <2>3. first \in bad /\ \A o \in bad : first <= o
    BY <2>2
  <2>4. Called(subs) = {subs[j] : j \in 1 .. first}
    BY <1>3 DEF Called
  <2> HIDE DEF first
  <2>5. \A j \in 1 .. Len(subs) : Reached(subs, j) <=> j \in 1 .. first
    <3>1. ASSUME NEW j \in 1 .. Len(subs), j \in 1 .. first PROVE Reached(subs, j)
      <4>1. ASSUME NEW o \in 1 .. j - 1 PROVE subs[o] \notin Throwers
        <5>1. o \in 1 .. Len(subs) /\ o < first
          BY <1>1, <2>3, <3>1
        <5>2. o \notin bad
          BY <2>3, <5>1
        <5> QED
          BY <5>1, <5>2
      <4> QED
        BY <4>1 DEF Reached
    <3>2. ASSUME NEW j \in 1 .. Len(subs), Reached(subs, j), j \notin 1 .. first PROVE FALSE
      <4>1. first \in 1 .. j - 1
        BY <1>1, <2>3, <3>2
      <4> QED
        BY <2>3, <3>2, <4>1 DEF Reached
    <3> QED
      BY <3>1, <3>2
  <2>6. 1 .. first \subseteq 1 .. Len(subs)
    BY <1>1, <2>3
  <2> QED
    BY <2>4, <2>5, <2>6
<1> QED
  BY <1>2, <1>3

\* What is replaced in an instance.
With(s, i, v, b) == [s EXCEPT !.inst = [@ EXCEPT ![i] = [vals |-> v, batching |-> b, subs |-> s.inst[i].subs]]]

LEMMA WithIs ==
  ASSUME NEW s \in StoreState, NEW i \in Instances, NEW v \in Data, NEW b \in BOOLEAN
  PROVE  LET t == With(s, i, v, b)
         IN  /\ t \in StoreState
             /\ t.inst[i] = [vals |-> v, batching |-> b, subs |-> s.inst[i].subs]
             /\ \A o \in Instances \ {i} : t.inst[o] = s.inst[o]
             /\ t.registry = s.registry /\ t.storage = s.storage /\ t.seen = s.seen /\ t.of = s.of
             /\ t.pendingHydration = s.pendingHydration /\ t.devtools = s.devtools
<1> DEFINE new == [vals |-> v, batching |-> b, subs |-> s.inst[i].subs]
           inst == [s.inst EXCEPT ![i] = new]
           t == With(s, i, v, b)
<1>1. new \in InstanceState /\ s.inst \in [Instances -> InstanceState]
  BY DEF StoreState, InstanceState
<1>2. inst \in [Instances -> InstanceState] /\ inst[i] = new /\ \A o \in Instances \ {i} : inst[o] = s.inst[o]
  BY <1>1
<1>3. t = [inst |-> inst, registry |-> s.registry, storage |-> s.storage, pendingHydration |-> s.pendingHydration,
           devtools |-> s.devtools, seen |-> s.seen, of |-> s.of]
  BY DEF With, StoreState
<1> HIDE DEF inst, t
<1>4. t \in StoreState
  BY <1>2, <1>3 DEF StoreState
<1> QED
  BY <1>2, <1>3, <1>4 DEF t

\* The steps of the store that replace values, in this form.
LEMMA ChangesAre ==
  ASSUME NEW s \in StoreState, NEW i \in Instances
  PROVE  /\ \A p \in Data : /\ Patch(s, i, p) = NotifySubscribers(With(s, i, Merge(s.inst[i].vals, p), FALSE), i)
                            /\ PatchThrows(s, i, p) = With(s, i, Merge(s.inst[i].vals, p), TRUE)
         /\ ResetStore(s, i) = NotifySubscribers(With(s, i, Fresh, FALSE), i)
         /\ \A k \in Keys, v \in Int :
              Assign(s, i, k, v) =
                LET n == With(s, i, [s.inst[i].vals EXCEPT ![k] = v], s.inst[i].batching)
                IN IF s.inst[i].batching \/ s.inst[i].vals[k] \in {v, Absent} THEN n ELSE NotifySubscribers(n, i)
<1>1. s.inst[i] \in InstanceState /\ s.inst \in [Instances -> InstanceState]
  BY DEF StoreState
<1>2. ASSUME NEW v
      PROVE  /\ [s EXCEPT !.inst[i].vals = v] = With(s, i, v, s.inst[i].batching)
             /\ \A b : [s EXCEPT !.inst[i].vals = v, !.inst[i].batching = b] = With(s, i, v, b)
  <2> DEFINE n == [s.inst[i] EXCEPT !.vals = v]
             inst == [s.inst EXCEPT ![i] = n]
             t == [s EXCEPT !.inst = inst]
  <2>1. n = [vals |-> v, batching |-> s.inst[i].batching, subs |-> s.inst[i].subs]
    BY <1>1 DEF InstanceState
  <2>2. t = With(s, i, v, s.inst[i].batching)
    BY <2>1 DEF With
  <2> HIDE DEF n
  <2>3. inst[i] = n
    BY <1>1
  <2> HIDE DEF inst
  <2>4. t.inst = inst /\ \A x : [t EXCEPT !.inst = x] = [s EXCEPT !.inst = x]
    BY DEF StoreState
  <2> HIDE DEF t
  <2>5. ASSUME NEW b PROVE [t EXCEPT !.inst[i].batching = b] = With(s, i, v, b)
    <3>1. [n EXCEPT !.batching = b] = [vals |-> v, batching |-> b, subs |-> s.inst[i].subs]
      BY <2>1
    <3>2. [t EXCEPT !.inst[i].batching = b] = [t EXCEPT !.inst = [inst EXCEPT ![i] = [n EXCEPT !.batching = b]]]
      BY <2>3, <2>4
    <3>3. [inst EXCEPT ![i] = [n EXCEPT !.batching = b]] = [s.inst EXCEPT ![i] = [n EXCEPT !.batching = b]]
      BY <1>1 DEF inst
    <3> QED
      BY <2>4, <3>1, <3>2, <3>3 DEF With
  <2>6. [s EXCEPT !.inst[i].vals = v] = t
    BY DEF t, inst, n
  <2>7. ASSUME NEW b PROVE [s EXCEPT !.inst[i].vals = v, !.inst[i].batching = b] = [t EXCEPT !.inst[i].batching = b]
    BY <2>6
  <2> QED
    BY <2>2, <2>5, <2>6, <2>7
<1>4. ASSUME NEW p \in Data
      PROVE  /\ Patch(s, i, p) = NotifySubscribers(With(s, i, Merge(s.inst[i].vals, p), FALSE), i)
             /\ PatchThrows(s, i, p) = With(s, i, Merge(s.inst[i].vals, p), TRUE)
  BY <1>2 DEF Patch, PatchThrows
<1>5. ResetStore(s, i) = NotifySubscribers(With(s, i, Fresh, FALSE), i)
  BY <1>2 DEF ResetStore
<1>6. ASSUME NEW k \in Keys, NEW v \in Int
      PROVE  Assign(s, i, k, v) =
               LET n == With(s, i, [s.inst[i].vals EXCEPT ![k] = v], s.inst[i].batching)
               IN IF s.inst[i].batching \/ s.inst[i].vals[k] \in {v, Absent} THEN n ELSE NotifySubscribers(n, i)
  <2>1. [s EXCEPT !.inst[i].vals[k] = v] = [s EXCEPT !.inst[i].vals = [s.inst[i].vals EXCEPT ![k] = v]]
    BY <1>1 DEF StoreState, InstanceState
  <2> QED
    BY <1>2, <2>1 DEF Assign
<1> QED
  BY <1>4, <1>5, <1>6

LEMMA NotifyIs ==
  ASSUME NEW s \in StoreState, NEW i \in Instances
  PROVE  LET t == NotifySubscribers(s, i)
             called == Called(s.inst[i].subs)
         IN  /\ t \in StoreState
             /\ t.inst = s.inst /\ t.registry = s.registry /\ t.of = s.of
             /\ t.pendingHydration = s.pendingHydration /\ t.devtools = s.devtools
             /\ \A c \in Components : t.seen[c] = IF c \in called THEN s.inst[i].vals ELSE s.seen[c]
             /\ t.storage = IF "persist" \in called THEN PathsOf(s.inst[i].vals) ELSE s.storage
<1> DEFINE t == NotifySubscribers(s, i)
           vals == s.inst[i].vals
           called == Called(s.inst[i].subs)
           seen == [c \in Components |-> IF c \in called THEN vals ELSE s.seen[c]]
           storage == IF "persist" \in called THEN PathsOf(vals) ELSE s.storage
<1>1. vals \in Data /\ s.seen \in [Components -> Data] /\ s.storage \in Data
  BY DEF StoreState, InstanceState
<1>2. t = [s EXCEPT !.seen = seen, !.storage = storage]
  BY DEF NotifySubscribers
<1>3. storage \in Data
  BY <1>1, DataIs
<1>4. seen \in [Components -> Data] /\ \A c \in Components : seen[c] = IF c \in called THEN vals ELSE s.seen[c]
  BY <1>1
<1>5. storage = IF "persist" \in called THEN PathsOf(vals) ELSE s.storage
  OBVIOUS
<1> HIDE DEF t, vals, called, seen, storage
<1>6. t = [inst |-> s.inst, registry |-> s.registry, storage |-> storage, pendingHydration |-> s.pendingHydration,
           devtools |-> s.devtools, seen |-> seen, of |-> s.of]
  BY <1>2 DEF StoreState
<1>7. t \in StoreState
  BY <1>3, <1>4, <1>6 DEF StoreState
<1> QED
  BY <1>4, <1>5, <1>6, <1>7 DEF t, called, vals

\* Values that are replaced are told of, or the flag of a batch is up.
LEMMA ChangeSettles ==
  ASSUME NEW s, Settled(s), NEW i \in Instances, s.inst[i].vals # Nothing, NEW v \in Data, Whole(v)
  PROVE  /\ Settled(With(s, i, v, TRUE))
         /\ Settled(NotifySubscribers(With(s, i, v, FALSE), i))
<1> DEFINE subs == s.inst[i].subs
<1>0. /\ s \in StoreState /\ s.inst[i] \in InstanceState /\ subs \in Seq(Subscribed)
      /\ v # Nothing /\ v["saved"] # Absent
  BY DataIs DEF Settled, Shape, StoreState, InstanceState, Whole
<1>1. \A o \in Instances : Placed(s, o) /\ Heard(s, o) /\ (s.inst[o].vals # Nothing => Plugged(s, o))
                             /\ (s.registry = o => s.inst[o].vals # Nothing /\ Stored(s, o))
  BY DEF Settled, Shape
<1>2. (s.storage # Nothing => s.storage["saved"] # Absent) /\ PathsOf(s.storage) = s.storage
  BY DEF Settled, Shape
<1>3. ASSUME NEW b \in BOOLEAN
      PROVE  LET t == With(s, i, v, b)
             IN  /\ Shape(t)
                 /\ \A o \in Instances \ {i} : Heard(t, o) /\ (t.inst[o].vals # Nothing => Plugged(t, o))
                                                /\ (t.registry = o => t.inst[o].vals # Nothing) /\ ~Alone(t, o)
                 /\ t.inst[i] = [vals |-> v, batching |-> b, subs |-> subs] /\ Plugged(t, i)
                 /\ t.storage = s.storage /\ t.seen = s.seen /\ t.of = s.of
  <2> DEFINE t == With(s, i, v, b)
  <2>1. /\ t \in StoreState
        /\ t.inst[i] = [vals |-> v, batching |-> b, subs |-> subs]
        /\ \A o \in Instances \ {i} : t.inst[o] = s.inst[o]
        /\ t.registry = s.registry /\ t.storage = s.storage /\ t.seen = s.seen /\ t.of = s.of
    BY <1>0, WithIs
  <2> HIDE DEF t
  <2>2. Placed(t, i)
    BY <1>0, <1>1, <2>1 DEF Placed
  <2>3. ASSUME NEW o \in Instances \ {i}
        PROVE  /\ Placed(t, o) /\ Heard(t, o) /\ (t.inst[o].vals # Nothing => Plugged(t, o))
               /\ (t.registry = o => t.inst[o].vals # Nothing) /\ ~Alone(t, o)
    <3>1. Placed(t, o)
      BY <1>1, <2>1 DEF Placed
    <3>2. Heard(t, o)
      BY <1>1, <2>1 DEF Heard
    <3>3. (t.inst[o].vals # Nothing => Plugged(t, o)) /\ (t.registry = o => t.inst[o].vals # Nothing)
      BY <1>1, <2>1 DEF Plugged
    <3>4. ~Alone(t, o)
      BY <1>0, <2>1 DEF Alone
    <3> QED
      BY <3>1, <3>2, <3>3, <3>4
  <2>4. Shape(t)
    BY <1>2, <2>1, <2>2, <2>3 DEF Shape
  <2>5. Plugged(t, i)
    BY <1>1, <2>1 DEF Plugged
  <2> QED
    BY <2>1, <2>3, <2>4, <2>5 DEF t
<1>4. Settled(With(s, i, v, TRUE))
  <2> DEFINE t == With(s, i, v, TRUE)
  <2>1. /\ Shape(t)
        /\ \A o \in Instances \ {i} : Heard(t, o) /\ (t.inst[o].vals # Nothing => Plugged(t, o))
                                       /\ (t.registry = o => t.inst[o].vals # Nothing) /\ ~Alone(t, o)
        /\ t.inst[i] = [vals |-> v, batching |-> TRUE, subs |-> subs] /\ Plugged(t, i)
    BY <1>3
  <2> HIDE DEF t
  <2>2. Heard(t, i) /\ Stored(t, i)
    BY <2>1 DEF Heard, Stored
  <2>3. \A o \in Instances \ {i} : Stored(t, o)
    BY <2>1 DEF Stored
  <2>4. ASSUME NEW o \in Instances
        PROVE  Heard(t, o) /\ (t.inst[o].vals # Nothing => Plugged(t, o)) /\ (t.registry = o => t.inst[o].vals # Nothing /\ Stored(t, o))
    <3>1. CASE o = i
      BY <1>0, <2>1, <2>2, <3>1
    <3>2. CASE o # i
      BY <2>1, <2>3, <3>2
    <3> QED
      BY <3>1, <3>2
  <2>5. Settled(t)
    BY <2>1, <2>4 DEF Settled
  <2> QED
    BY <2>5 DEF t
<1>5. Settled(NotifySubscribers(With(s, i, v, FALSE), i))
  <2> DEFINE t == With(s, i, v, FALSE)
             u == NotifySubscribers(t, i)
             called == Called(subs)
  <2>1. /\ Shape(t)
        /\ \A o \in Instances \ {i} : Heard(t, o) /\ (t.inst[o].vals # Nothing => Plugged(t, o))
                                       /\ (t.registry = o => t.inst[o].vals # Nothing) /\ ~Alone(t, o)
        /\ t.inst[i] = [vals |-> v, batching |-> FALSE, subs |-> subs] /\ Plugged(t, i)
    BY <1>3
  <2> HIDE DEF t
  <2>2. /\ u \in StoreState
        /\ u.inst = t.inst /\ u.registry = t.registry /\ u.of = t.of
        /\ \A c \in Components : u.seen[c] = IF c \in called THEN v ELSE t.seen[c]
        /\ u.storage = IF "persist" \in called THEN PathsOf(v) ELSE t.storage
    BY <2>1, NotifyIs DEF Shape
  <2> HIDE DEF u
  <2>3. called = {subs[j] : j \in {j \in 1 .. Len(subs) : Reached(subs, j)}}
    BY <1>0, CalledIs
  <2> HIDE DEF called
  <2>4. Len(subs) \in Nat /\ 1 \in 1 .. Len(subs) /\ subs[1] = "persist"
    <3>1. Len(subs) \in Nat
      BY <1>0, LenProperties
    <3> QED
      BY <2>1, <3>1 DEF Plugged
  <2>5. "persist" \in called
    <3>1. Reached(subs, 1)
      BY DEF Reached
    <3> QED
      BY <2>3, <2>4, <3>1
  <2>6. \A j \in 1 .. Len(subs) : subs[j] \in called <=> Reached(subs, j)
    <3>1. \A j, k \in 1 .. Len(subs) : subs[j] = subs[k] => j = k
      BY <2>1 DEF Shape, Placed
    <3> QED
      BY <2>3, <3>1
  <2>7. Placed(u, i) /\ Heard(u, i)
    <3>1. Placed(t, i)
      BY <2>1 DEF Shape
    <3>2. Placed(u, i)
      BY <2>1, <2>2, <2>6, <3>1 DEF Placed
    <3>3. Heard(u, i)
      BY <2>1, <2>2, <2>6 DEF Heard, UpTo
    <3> QED
      BY <3>2, <3>3
  <2>8. ASSUME NEW o \in Instances \ {i} PROVE Placed(u, o) /\ Heard(u, o)
    <3>1. Placed(t, o) /\ Placed(t, i) /\ Heard(t, o)
      BY <2>1 DEF Shape
    <3>2. ASSUME NEW j \in 1 .. Len(t.inst[o].subs), t.inst[o].subs[j] \in Components
          PROVE  u.seen[t.inst[o].subs[j]] = t.seen[t.inst[o].subs[j]]
      <4>1. t.of[t.inst[o].subs[j]] = o
        BY <3>1, <3>2 DEF Placed
      <4>2. ASSUME t.inst[o].subs[j] \in called PROVE FALSE
        <5>1. PICK k \in 1 .. Len(subs) : subs[k] = t.inst[o].subs[j]
          BY <2>3, <4>2
        <5>2. t.inst[i].subs = subs
          BY <2>1
        <5>3. t.of[t.inst[i].subs[k]] = i
          BY <3>1, <3>2, <5>1, <5>2 DEF Placed
        <5> QED
          BY <4>1, <5>1, <5>2, <5>3
      <4> QED
        BY <2>2, <3>2, <4>2
    <3>3. Placed(u, o)
      BY <2>2, <3>1, <3>2 DEF Placed
    <3>4. Heard(u, o)
      BY <2>2, <3>1, <3>2 DEF Heard
    <3> QED
      BY <3>3, <3>4
  <2>9. Shape(u)
    <3>1. v \in Data /\ v["saved"] # Absent /\ u.storage = PathsOf(v)
      BY <1>0, <2>2, <2>5
    <3>2. u.storage["saved"] # Absent /\ PathsOf(u.storage) = u.storage
      BY <3>1, DataIs
    <3> QED
      BY <2>2, <2>7, <2>8, <3>2 DEF Shape
  <2>10. Stored(u, i)
    BY <2>1, <2>2, <2>5 DEF Stored, UpTo
  <2>11. \A o \in Instances \ {i} : Stored(u, o) /\ (u.inst[o].vals # Nothing => Plugged(u, o))
    BY <2>1, <2>2 DEF Stored, Alone, Plugged
  <2>12. Plugged(u, i)
    BY <2>1, <2>2 DEF Plugged
  <2>13. ASSUME NEW o \in Instances
         PROVE  Heard(u, o) /\ (u.inst[o].vals # Nothing => Plugged(u, o)) /\ (u.registry = o => u.inst[o].vals # Nothing /\ Stored(u, o))
    <3>1. CASE o = i
      <4>1. u.inst[i].vals # Nothing
        BY <1>0, <2>1, <2>2
      <4> QED
        BY <2>7, <2>10, <2>12, <3>1, <4>1
    <3>2. CASE o # i
      <4>1. u.registry = o => u.inst[o].vals # Nothing
        BY <2>1, <2>2, <3>2
      <4> QED
        BY <2>8, <2>11, <3>2, <4>1
    <3> QED
      BY <3>1, <3>2
  <2>14. Settled(u)
    BY <2>9, <2>13 DEF Settled
  <2> QED
    BY <2>14 DEF t, u
<1> QED
  BY <1>4, <1>5

\* A property that is added is told to nobody, and nobody has another value of it.
LEMMA AddSettles ==
  ASSUME NEW s, Settled(s), NEW i \in Instances, s.inst[i].vals # Nothing, ~s.inst[i].batching,
         s.inst[i].vals["added"] = Absent, NEW w \in Data, Whole(w),
         \A k \in Keys \ {"added"} : w[k] = s.inst[i].vals[k]
  PROVE  Settled(With(s, i, w, FALSE))
<1> DEFINE subs == s.inst[i].subs
           d == s.inst[i].vals
           t == With(s, i, w, FALSE)
<1>1. /\ s \in StoreState /\ subs \in Seq(Subscribed) /\ d \in Data /\ w # Nothing
  BY DataIs DEF Settled, Shape, StoreState, InstanceState, Whole
<1>2. \A o \in Instances : Placed(s, o) /\ Heard(s, o) /\ (s.inst[o].vals # Nothing => Plugged(s, o))
                             /\ (s.registry = o => s.inst[o].vals # Nothing /\ Stored(s, o))
  BY DEF Settled, Shape
<1>3. /\ t \in StoreState
      /\ t.inst[i] = [vals |-> w, batching |-> FALSE, subs |-> subs]
      /\ \A o \in Instances \ {i} : t.inst[o] = s.inst[o]
      /\ t.registry = s.registry /\ t.storage = s.storage /\ t.seen = s.seen /\ t.of = s.of
  <2>1. FALSE \in BOOLEAN
    OBVIOUS
  <2> QED
    BY <1>1, <2>1, WithIs
<1> HIDE DEF t
<1>4. \A copy \in Data : UpTo(copy, d) => UpTo(copy, w)
  BY DEF UpTo
<1>5. \A copy \in Data : UpTo(copy, PathsOf(d)) => UpTo(copy, PathsOf(w))
  <2>1. \A v : \A k \in Keys : PathsOf(v)[k] = IF k \in Paths THEN v[k] ELSE Absent
    BY DEF PathsOf
  <2>2. PathsOf(d)["added"] = Absent /\ \A k \in Keys \ {"added"} : PathsOf(w)[k] = PathsOf(d)[k]
    BY <2>1 DEF Keys
  <2> HIDE DEF d
  <2> QED
    BY <2>2 DEF UpTo
<1>6. Placed(t, i) /\ Heard(t, i) /\ Plugged(t, i)
  <2>1. Placed(t, i)
    BY <1>1, <1>2, <1>3 DEF Placed
  <2>2. ASSUME NEW j \in 1 .. Len(subs), subs[j] \in Components, Reached(subs, j)
        PROVE  t.seen[subs[j]] = Nothing \/ UpTo(t.seen[subs[j]], w)
    <3>1. s.seen[subs[j]] \in Data
      BY <1>1, <2>2 DEF StoreState
    <3>2. s.seen[subs[j]] = Nothing \/ UpTo(s.seen[subs[j]], d)
      BY <1>2, <2>2 DEF Heard
    <3> HIDE DEF d
    <3> QED
      BY <1>3, <1>4, <3>1, <3>2
  <2>3. Heard(t, i)
    BY <1>3, <2>2 DEF Heard
  <2>4. Plugged(t, i)
    BY <1>2, <1>3 DEF Plugged
  <2> QED
    BY <2>1, <2>3, <2>4
<1>7. Stored(s, i) => Stored(t, i)
  <2>1. s.storage \in Data /\ (Alone(t, i) <=> Alone(s, i))
    BY <1>1, <1>3 DEF StoreState, Alone
  <2> QED
    BY <1>3, <1>5, <2>1 DEF Stored
<1>8. ASSUME NEW o \in Instances \ {i}
      PROVE  Placed(t, o) /\ Heard(t, o) /\ (t.inst[o].vals # Nothing => Plugged(t, o))
             /\ (t.registry = o => t.inst[o].vals # Nothing /\ Stored(t, o))
  <2>1. Placed(t, o) /\ Heard(t, o)
    <3>1. Placed(s, o) /\ Heard(s, o) /\ t.inst[o] = s.inst[o] /\ t.seen = s.seen /\ t.of = s.of
      BY <1>2, <1>3
    <3> QED
      BY <3>1 DEF Placed, Heard
  <2>2. t.inst[o].vals # Nothing => Plugged(t, o)
    BY <1>2, <1>3 DEF Plugged
  <2>3. Stored(t, o)
    BY <1>1, <1>3 DEF Stored, Alone
  <2> QED
    BY <1>2, <1>3, <2>1, <2>2, <2>3
<1>9. Shape(t)
  <2>1. \A o \in Instances : Placed(t, o)
    BY <1>6, <1>8
  <2> QED
    BY <1>3, <2>1 DEF Settled, Shape
<1>10. ASSUME NEW o \in Instances
       PROVE  Heard(t, o) /\ (t.inst[o].vals # Nothing => Plugged(t, o))
              /\ (t.registry = o => t.inst[o].vals # Nothing /\ Stored(t, o))
  <2>1. CASE o = i
    BY <1>1, <1>2, <1>3, <1>6, <1>7, <2>1
  <2>2. CASE o # i
    BY <1>8, <2>2
  <2> QED
    BY <2>1, <2>2
<1>11. Settled(t)
  BY <1>9, <1>10 DEF Settled
<1> QED
  BY <1>11 DEF t

LEMMA FirstIs ==
  ASSUME NEW S, NEW s \in Seq(S), NEW e
  PROVE  \/ RemoveFirst(s, e) = s /\ \A i \in 1 .. Len(s) : s[i] # e
         \/ \E i \in 1 .. Len(s) : s[i] = e /\ RemoveFirst(s, e) = RemoveAt(s, i)
<1> DEFINE I == {i \in 1 .. Len(s) : s[i] = e}
<1>1. Len(s) \in Nat
  BY LenProperties
<1>2. CASE I = {}
  BY <1>2 DEF RemoveFirst
<1>3. CASE I # {}
  <2>0. I \subseteq Nat
    BY <1>1
  <2> HIDE DEF I
  <2>1. \E n \in I : \A m \in I : n <= m
    BY <1>3, <2>0, LeastNat
  <2> USE DEF I
  <2>2. Min(I) \in I
    BY <2>1 DEF Min
  <2>3. SelectInSeq(s, LAMBDA v : v = e) = Min(I)
    BY <1>3 DEF SelectInSeq
  <2>4. RemoveFirst(s, e) = RemoveAt(s, Min(I))
    BY <1>3, <2>3 DEF RemoveFirst
  <2> QED
    BY <2>2, <2>4
<1> QED
  BY <1>2, <1>3

\* The steps that replace the values of an instance.
LEMMA ValuesSettle ==
  ASSUME NEW s, Settled(s), NEW i \in Instances, s.inst[i].vals # Nothing, NEW v \in Assigned
  PROVE  /\ \A k \in Keys : Settled(Assign(s, i, k, v)) /\ Settled(Patch(s, i, Only(k, v)))
         /\ Settled(PatchThrows(s, i, Only("saved", v))) /\ Settled(ResetStore(s, i))
<1> DEFINE d == s.inst[i].vals
           b == s.inst[i].batching
<1>1. /\ s \in StoreState /\ d \in Data /\ b \in BOOLEAN /\ Whole(d)
      /\ s.inst[i] = [vals |-> d, batching |-> b, subs |-> s.inst[i].subs] /\ s.inst \in [Instances -> InstanceState]
  BY DEF Settled, Shape, Placed, StoreState, InstanceState
<1>2. v \in Int /\ v # Absent
  BY StoreAssumption DEF Absent
<1>3. \A w \in Data : Whole(w) => /\ Settled(With(s, i, w, TRUE))
                                 /\ Settled(NotifySubscribers(With(s, i, w, FALSE), i))
  BY ChangeSettles
<1>4. ASSUME NEW k \in Keys PROVE Only(k, v) \in Data
  BY <1>2, DataIs DEF Only, Data
<1>a. /\ \A p \in Data : /\ Patch(s, i, p) = NotifySubscribers(With(s, i, Merge(d, p), FALSE), i)
                         /\ PatchThrows(s, i, p) = With(s, i, Merge(d, p), TRUE)
      /\ ResetStore(s, i) = NotifySubscribers(With(s, i, Fresh, FALSE), i)
      /\ \A k \in Keys, w \in Int :
           Assign(s, i, k, w) =
             LET n == With(s, i, [d EXCEPT ![k] = w], b)
             IN IF b \/ d[k] \in {w, Absent} THEN n ELSE NotifySubscribers(n, i)
  <2>1. s \in StoreState
    BY <1>1
  <2> QED
    BY <2>1, ChangesAre, Zenon
<1>5. Settled(ResetStore(s, i))
  <2>1. Fresh \in Data /\ Whole(Fresh)
    BY DataIs
  <2> QED
    BY <1>a, <1>3, <2>1
<1>6. ASSUME NEW p \in Data PROVE Settled(Patch(s, i, p)) /\ Settled(PatchThrows(s, i, p))
  <2>1. Merge(d, p) \in Data /\ Whole(Merge(d, p))
    BY <1>1, MergeIs
  <2> QED
    BY <1>a, <1>3, <2>1
<1>7. ASSUME NEW k \in Keys PROVE Settled(Assign(s, i, k, v))
  <2> DEFINE w == [d EXCEPT ![k] = v]
             n == With(s, i, w, b)
  <2>1. w \in Data /\ Whole(w)
    BY <1>1, <1>2 DEF Data, Whole, Keys
  <2>2. Assign(s, i, k, v) = IF b \/ d[k] \in {v, Absent} THEN n ELSE NotifySubscribers(n, i)
    BY <1>2, <1>a
  <2>3. CASE b
    <3>1. n = With(s, i, w, TRUE)
      BY <1>1, <2>3
    <3> QED
      BY <1>3, <2>1, <2>2, <2>3, <3>1
  <2>4. CASE ~b /\ d[k] = v
    <3>1. w = d
      BY <1>1, <2>4 DEF Data
    <3>2. n = s
      BY <1>1, <3>1 DEF With, StoreState
    <3> QED
      BY <2>2, <2>4, <3>2
  <2>5. CASE ~b /\ d[k] = Absent
    <3>1. n = With(s, i, w, FALSE) /\ d \in Data /\ k = "added"
      BY <1>1, <2>5 DEF Whole, Keys
    <3>2. \A o \in Keys \ {"added"} : w[o] = d[o]
      BY <3>1 DEF Data
    <3> HIDE DEF w, n
    <3>3. Settled(With(s, i, w, FALSE))
      BY <1>1, <2>1, <2>5, <3>1, <3>2, AddSettles
    <3> QED
      BY <2>2, <2>5, <3>1, <3>3
  <2>6. CASE ~b /\ d[k] \notin {v, Absent}
    <3>1. n = With(s, i, w, FALSE)
      BY <1>1, <2>6
    <3> QED
      BY <1>3, <2>1, <2>2, <2>6, <3>1
  <2> QED
    BY <2>3, <2>4, <2>5, <2>6
<1>8. "saved" \in Keys
  BY DEF Keys
<1> QED
  BY <1>4, <1>5, <1>6, <1>7, <1>8

\* An instance that is being created in s, with the callbacks of subs.
Made(s, i, t, subs) ==
  /\ t \in StoreState
  /\ \A o \in Instances \ {i} : t.inst[o] = s.inst[o]
  /\ t.inst[i].batching = FALSE /\ t.inst[i].subs = subs /\ Whole(t.inst[i].vals)
  /\ t.registry = i /\ t.storage = s.storage /\ t.seen = s.seen /\ t.of = s.of

LEMMA PatchMade ==
  ASSUME NEW s, NEW i \in Instances, NEW t, Made(s, i, t, <<>>), NEW p \in Data
  PROVE  /\ Made(s, i, Patch(t, i, p), <<>>)
         /\ p["saved"] # Absent => UpTo(PathsOf(p), PathsOf(Patch(t, i, p).inst[i].vals))
<1> DEFINE d == t.inst[i].vals
<1>1. t \in StoreState /\ d \in Data /\ Whole(d)
  BY DEF Made, StoreState, InstanceState
<1>2. PICK w \in Data : w = Merge(d, p) /\ Whole(w) /\ (p["saved"] # Absent => UpTo(PathsOf(p), PathsOf(w)))
  BY <1>1, MergeIs
<1>a. PICK b \in BOOLEAN : b = FALSE
  OBVIOUS
<1> DEFINE n == With(t, i, w, b)
           u == NotifySubscribers(n, i)
<1>3. Patch(t, i, p) = u
  BY <1>1, <1>2, <1>a, ChangesAre
<1>4. /\ n \in StoreState
      /\ n.inst[i] = [vals |-> w, batching |-> FALSE, subs |-> <<>>]
      /\ \A o \in Instances \ {i} : n.inst[o] = t.inst[o]
      /\ n.registry = t.registry /\ n.storage = t.storage /\ n.seen = t.seen /\ n.of = t.of
  <2>1. /\ n \in StoreState
        /\ n.inst[i] = [vals |-> w, batching |-> b, subs |-> t.inst[i].subs]
        /\ \A o \in Instances \ {i} : n.inst[o] = t.inst[o]
        /\ n.registry = t.registry /\ n.storage = t.storage /\ n.seen = t.seen /\ n.of = t.of
    BY <1>1, WithIs
  <2> HIDE DEF n
  <2> QED
    BY <1>a, <2>1 DEF Made
<1> HIDE DEF n
<1>5. Called(n.inst[i].subs) = {}
  <2>1. n.inst[i].subs \in Seq(Subscribed) /\ Len(n.inst[i].subs) = 0
    BY <1>4
  <2> QED
    BY <2>1, CalledIs
<1>6. /\ u \in StoreState
      /\ u.inst = n.inst /\ u.registry = n.registry /\ u.of = n.of
      /\ \A c \in Components : u.seen[c] = n.seen[c]
      /\ u.storage = n.storage
  BY <1>4, <1>5, NotifyIs
<1> HIDE DEF u
<1>7. u.seen = n.seen
  <2>1. u.seen \in [Components -> Data] /\ n.seen \in [Components -> Data]
    BY <1>4, <1>6 DEF StoreState
  <2> QED
    BY <1>6, <2>1
<1>8. Made(s, i, u, <<>>) /\ u.inst[i].vals = w
  BY <1>2, <1>4, <1>6, <1>7 DEF Made
<1> QED
  BY <1>2, <1>3, <1>8

\* The instance of the registry, created if there is none.
LEMMA UseSettles ==
  ASSUME NEW s, Settled(s), s.registry = 0 => FreeInstance(s) # {}
  PROVE  LET t == UseStore(s)
         IN  Settled(t) /\ t.registry \in Instances /\ t.of = s.of
<1>0. s \in StoreState /\ 0 \notin Instances
  BY DEF Settled, Shape, Instances
<1>1. CASE s.registry # 0
  <2>1. UseStore(s) = s
    BY <1>1 DEF UseStore
  <2> QED
    BY <1>0, <1>1, <2>1 DEF StoreState
<1>2. CASE s.registry = 0
  <2> DEFINE free == CHOOSE i \in FreeInstance(s) : TRUE
  <2>1. free \in Instances /\ s.inst[free].vals = Nothing
    BY <1>2 DEF FreeInstance
  <2>2. PICK i \in Instances : i = free
    BY <2>1
  <2> DEFINE new == [NoStore EXCEPT !.vals = Fresh]
             t1 == [s EXCEPT !.inst[i] = new, !.registry = i]
             t2 == SsrHydrationPlugin(t1, i)
             t3 == IF t2.storage = Nothing THEN t2 ELSE Patch(t2, i, t2.storage)
             t4 == Persist(t2, i)
             t5 == Devtools(t4, i)
  <2>3. UseStore(s) = t5
    BY <1>2, <2>2 DEF UseStore
  <2> HIDE DEF free
  <2>4. Made(s, i, t1, <<>>)
    <3>1. new = [vals |-> Fresh, batching |-> FALSE, subs |-> <<>>]
      BY DEF NoStore
    <3> HIDE DEF new
    <3>2. new \in InstanceState
      <4>1. Fresh \in Data /\ <<>> \in Seq(Subscribed)
        BY DataIs
      <4> QED
        BY <3>1, <4>1 DEF InstanceState
    <3> DEFINE inst == [s.inst EXCEPT ![i] = new]
    <3>3. inst \in [Instances -> InstanceState] /\ inst[i] = new /\ \A o \in Instances \ {i} : inst[o] = s.inst[o]
      BY <1>0, <3>2 DEF StoreState
    <3>4. t1 = [s EXCEPT !.inst = inst, !.registry = i]
      OBVIOUS
    <3> HIDE DEF inst, t1
    <3>5. t1 = [inst |-> inst, registry |-> i, storage |-> s.storage, pendingHydration |-> s.pendingHydration,
                devtools |-> s.devtools, seen |-> s.seen, of |-> s.of]
      BY <1>0, <3>4 DEF StoreState
    <3>6. t1 \in StoreState
      BY <1>0, <3>3, <3>5 DEF StoreState
    <3> QED
      BY <3>1, <3>3, <3>5, <3>6, DataIs DEF Made
  <2> HIDE DEF t1, new
  <2>5. Made(s, i, t2, <<>>)
    <3>1. CASE t1.pendingHydration = Nothing
      BY <2>4, <3>1 DEF SsrHydrationPlugin
    <3>2. CASE t1.pendingHydration # Nothing
      <4> DEFINE r == [t1 EXCEPT !.pendingHydration = Nothing]
      <4>1. Made(s, i, r, <<>>) /\ t1.pendingHydration \in Data
        BY <2>4, DataIs DEF Made, StoreState
      <4>2. t2 = Patch(r, i, t1.pendingHydration)
        BY <3>2 DEF SsrHydrationPlugin
      <4> HIDE DEF r, t2
      <4> QED
        BY <4>1, <4>2, PatchMade
    <3> QED
      BY <3>1, <3>2
  <2> HIDE DEF t2
  <2>6. s.storage \in Data /\ PathsOf(s.storage) = s.storage /\ (s.storage # Nothing => s.storage["saved"] # Absent)
        /\ t2.storage = s.storage
    BY <2>5 DEF Settled, Shape, StoreState, Made
  <2>7. Made(s, i, t3, <<>>) /\ (s.storage # Nothing => UpTo(s.storage, PathsOf(t3.inst[i].vals)))
    BY <2>5, <2>6, PatchMade
  <2>8. t4 = [t3 EXCEPT !.inst[i].subs = Append(@, "persist")]
    BY DEF Persist
  <2> HIDE DEF t3
  <2>9. t5 = [t4 EXCEPT !.devtools = i]
    BY DEF Devtools
  <2> HIDE DEF t4
  <2> DEFINE w == t3.inst[i].vals
  <2>10. /\ Made(s, i, t5, <<"persist">>)
         /\ t5.inst[i].vals = w
    <3>1. t3 \in StoreState /\ w \in Data /\ t3.inst[i] = [vals |-> w, batching |-> FALSE, subs |-> <<>>]
      BY <2>7 DEF Made, StoreState, InstanceState
    <3> DEFINE after == [vals |-> w, batching |-> t3.inst[i].batching, subs |-> <<"persist">>]
               inst == [t3.inst EXCEPT ![i] = after]
    <3>2. after = [t3.inst[i] EXCEPT !.subs = Append(@, "persist")]
      <4>1. Append(<<>>, "persist") = <<"persist">>
        OBVIOUS
      <4>2. \A x : [t3.inst[i] EXCEPT !.subs = x] = [vals |-> w, batching |-> t3.inst[i].batching, subs |-> x]
        BY <3>1 DEF StoreState, InstanceState
      <4>3. t3.inst[i].subs = <<>>
        BY <3>1
      <4> QED
        BY <4>1, <4>2, <4>3
    <3>3. after \in InstanceState
      <4>1. t3.inst[i].batching \in BOOLEAN
        BY <3>1 DEF StoreState, InstanceState
      <4>2. "persist" \in Subscribed
        BY DEF Subscribed
      <4>3. <<"persist">> \in Seq(Subscribed)
        BY <4>2
      <4> QED
        BY <3>1, <4>1, <4>3 DEF InstanceState
    <3>4. t4 = [t3 EXCEPT !.inst = inst]
      BY <2>8, <3>2
    <3>5. inst \in [Instances -> InstanceState] /\ inst[i] = after /\ \A o \in Instances \ {i} : inst[o] = t3.inst[o]
      BY <3>1, <3>3 DEF StoreState
    <3> HIDE DEF inst
    <3>6. t5 = [inst |-> inst, registry |-> t3.registry, storage |-> t3.storage, pendingHydration |-> t3.pendingHydration,
                devtools |-> i, seen |-> t3.seen, of |-> t3.of]
      BY <2>9, <3>1, <3>4 DEF StoreState
    <3> HIDE DEF t5
    <3>7. t5 \in StoreState
      BY <3>1, <3>5, <3>6 DEF StoreState
    <3> QED
      BY <2>7, <3>1, <3>5, <3>6, <3>7 DEF Made
  <2> HIDE DEF t5
  <2>11. w # Nothing /\ Whole(w)
    BY <2>7, DataIs DEF Made, Whole
  <2> HIDE DEF w
  <2>12. Settled(t5)
    <3>1. Placed(t5, i) /\ Heard(t5, i) /\ Plugged(t5, i) /\ Stored(t5, i)
      <4>1. Placed(t5, i) /\ Heard(t5, i) /\ Plugged(t5, i)
        <5> DEFINE subs == t5.inst[i].subs
        <5>1. subs = <<"persist">> /\ t5.inst[i].vals = w
          BY <2>10 DEF Made
        <5>2. Len(subs) = 1 /\ subs[1] = "persist"
          BY <5>1
        <5> HIDE DEF subs
        <5>3. \A j \in 1 .. Len(subs) : j = 1 /\ subs[j] \notin Components
          BY <5>2, StoreAssumption
        <5>4. Placed(t5, i)
          BY <2>11, <5>1, <5>3 DEF Placed, subs
        <5>5. Heard(t5, i)
          BY <5>3 DEF Heard, subs
        <5> QED
          BY <5>2, <5>4, <5>5 DEF Plugged, subs
      <4>2. t5.storage = Nothing \/ UpTo(t5.storage, PathsOf(w))
        BY <2>6, <2>7, <2>10 DEF Made, w
      <4> QED
        BY <2>10, <4>1, <4>2 DEF Stored
    <3>2. ASSUME NEW o \in Instances \ {i}
          PROVE  Placed(t5, o) /\ Heard(t5, o) /\ (t5.inst[o].vals # Nothing => Plugged(t5, o)) /\ t5.registry # o
      <4>1. Placed(s, o) /\ Heard(s, o) /\ (s.inst[o].vals # Nothing => Plugged(s, o))
        BY DEF Settled, Shape
      <4>2. t5.inst[o] = s.inst[o] /\ t5.seen = s.seen /\ t5.of = s.of /\ t5.registry = i
        BY <2>10 DEF Made
      <4> QED
        BY <4>1, <4>2 DEF Placed, Heard, Plugged
    <3>3. Shape(t5)
      <4>1. \A o \in Instances : Placed(t5, o)
        BY <3>1, <3>2
      <4> QED
        BY <2>6, <2>10, <4>1 DEF Shape, Made
    <3>4. t5.inst[i].vals # Nothing
      BY <2>10, <2>11
    <3>5. ASSUME NEW o \in Instances
          PROVE  Heard(t5, o) /\ (t5.inst[o].vals # Nothing => Plugged(t5, o)) /\ (t5.registry = o => t5.inst[o].vals # Nothing /\ Stored(t5, o))
      <4>1. CASE o = i
        BY <3>1, <3>4, <4>1
      <4>2. CASE o # i
        BY <3>2, <4>2
      <4> QED
        BY <4>1, <4>2
    <3> QED
      BY <3>3, <3>5 DEF Settled
  <2> QED
    BY <2>3, <2>10, <2>12 DEF Made
<1> QED
  BY <1>1, <1>2

\* A component that comes or goes: what it holds, where it is, and the list.
Listed(s, c, o, i, subs) ==
  [s EXCEPT !.of[c] = o, !.seen[c] = Nothing, !.inst[i].subs = subs]

ListedRight(s, c, o, i, subs, t) ==
  /\ t \in StoreState
  /\ t.inst[i].vals = s.inst[i].vals /\ t.inst[i].batching = s.inst[i].batching /\ t.inst[i].subs = subs
  /\ \A m \in Instances \ {i} : t.inst[m] = s.inst[m]
  /\ t.registry = s.registry /\ t.storage = s.storage
  /\ t.seen[c] = Nothing /\ t.of[c] = o
  /\ \A d \in Components \ {c} : t.seen[d] = s.seen[d] /\ t.of[d] = s.of[d]

LEMMA ListedIs ==
  ASSUME NEW s \in StoreState, NEW c \in Components, NEW o \in Instances \cup {0}, NEW i \in Instances,
         NEW subs \in Seq(Subscribed)
  PROVE  ListedRight(s, c, o, i, subs, Listed(s, c, o, i, subs))
<1> DEFINE new == [vals |-> s.inst[i].vals, batching |-> s.inst[i].batching, subs |-> subs]
           inst == [s.inst EXCEPT ![i] = new]
           of == [s.of EXCEPT ![c] = o]
           seen == [s.seen EXCEPT ![c] = Nothing]
           t == Listed(s, c, o, i, subs)
<1>1. s.inst[i] \in InstanceState /\ s.inst \in [Instances -> InstanceState]
      /\ s.of \in [Components -> Instances \cup {0}] /\ s.seen \in [Components -> Data]
  BY DEF StoreState
<1>2. new = [s.inst[i] EXCEPT !.subs = subs] /\ new \in InstanceState
  BY <1>1 DEF InstanceState
<1>3. new.vals = s.inst[i].vals /\ new.batching = s.inst[i].batching /\ new.subs = subs
  OBVIOUS
<1> HIDE DEF new
<1>4. inst \in [Instances -> InstanceState] /\ inst[i] = new /\ \A m \in Instances \ {i} : inst[m] = s.inst[m]
  BY <1>1, <1>2
<1>5. of \in [Components -> Instances \cup {0}] /\ of[c] = o /\ \A d \in Components \ {c} : of[d] = s.of[d]
  BY <1>1
<1>6. seen \in [Components -> Data] /\ seen[c] = Nothing /\ \A d \in Components \ {c} : seen[d] = s.seen[d]
  BY <1>1, DataIs
<1>7. t = [s EXCEPT !.of = of, !.seen = seen, !.inst = inst]
  BY <1>2 DEF Listed, StoreState
<1> HIDE DEF inst, of, seen, t
<1>8. t = [inst |-> inst, registry |-> s.registry, storage |-> s.storage, pendingHydration |-> s.pendingHydration,
           devtools |-> s.devtools, seen |-> seen, of |-> of]
  BY <1>7 DEF StoreState
<1>9. t \in StoreState
  BY <1>4, <1>5, <1>6, <1>8 DEF StoreState
<1> QED
  BY <1>3, <1>4, <1>5, <1>6, <1>8, <1>9 DEF t, ListedRight

\* A list of the instance i that keeps to the order of the one it had, of which the
\* component is the only other member.
LEMMA ListSettles ==
  ASSUME NEW s, Settled(s), NEW c \in Components, NEW o \in Instances \cup {0}, NEW i \in Instances,
         NEW subs \in Seq(Subscribed), s.inst[i].vals = Nothing => subs = <<>>,
         s.of[c] \in {0, i},
         \A j \in 1 .. Len(subs) : subs[j] = c => o = i,
         \A j, k \in 1 .. Len(subs) : subs[j] = subs[k] => j = k,
         s.inst[i].vals # Nothing => Len(subs) >= 1 /\ subs[1] = "persist",
         \A j \in 1 .. Len(subs) : subs[j] # c =>
           \E k \in 1 .. Len(s.inst[i].subs) : s.inst[i].subs[k] = subs[j] /\ (Reached(s.inst[i].subs, k) => Reached(subs, j))
  PROVE  Settled(Listed(s, c, o, i, subs))
<1> DEFINE t == Listed(s, c, o, i, subs)
           old == s.inst[i].subs
<1>1. s \in StoreState /\ (s.storage # Nothing => s.storage["saved"] # Absent) /\ PathsOf(s.storage) = s.storage
  BY DEF Settled, Shape
<1>2. \A m \in Instances : /\ Placed(s, m) /\ Heard(s, m) /\ (s.inst[m].vals # Nothing => Plugged(s, m))
                           /\ (s.registry = m => s.inst[m].vals # Nothing /\ Stored(s, m))
  BY DEF Settled, Shape
<1>3. /\ t \in StoreState
      /\ t.inst[i].vals = s.inst[i].vals /\ t.inst[i].batching = s.inst[i].batching /\ t.inst[i].subs = subs
      /\ \A m \in Instances \ {i} : t.inst[m] = s.inst[m]
      /\ t.registry = s.registry /\ t.storage = s.storage
      /\ t.seen[c] = Nothing /\ t.of[c] = o
      /\ \A d \in Components \ {c} : t.seen[d] = s.seen[d] /\ t.of[d] = s.of[d]
  <2>1. ListedRight(s, c, o, i, subs, t)
    BY <1>1, ListedIs
  <2> HIDE DEF t
  <2> QED
    BY <2>1 DEF ListedRight
<1> HIDE DEF t
<1>4. ASSUME NEW j \in 1 .. Len(subs), subs[j] \in Components
      PROVE  /\ t.of[subs[j]] = i
             /\ ~Reached(subs, j) => t.seen[subs[j]] = Nothing
             /\ ~s.inst[i].batching => t.seen[subs[j]] = Nothing \/ UpTo(t.seen[subs[j]], s.inst[i].vals)
  <2>1. CASE subs[j] = c
    BY <1>3, <2>1
  <2>2. CASE subs[j] # c
    <3>1. PICK k \in 1 .. Len(old) : old[k] = subs[j] /\ (Reached(old, k) => Reached(subs, j))
      BY <2>2
    <3>2. s.of[old[k]] = i /\ (~Reached(old, k) => s.seen[old[k]] = Nothing)
      BY <1>2, <1>4, <3>1 DEF Placed
    <3>3. ~s.inst[i].batching /\ Reached(old, k) => s.seen[old[k]] = Nothing \/ UpTo(s.seen[old[k]], s.inst[i].vals)
      BY <1>2, <1>4, <3>1 DEF Heard
    <3> QED
      BY <1>3, <1>4, <2>2, <3>1, <3>2, <3>3
  <2> QED
    BY <2>1, <2>2
<1>5. Placed(t, i) /\ Heard(t, i) /\ (t.inst[i].vals # Nothing => Plugged(t, i))
  <2>1. s.inst[i].vals # Nothing => Whole(s.inst[i].vals)
    BY <1>2 DEF Placed
  <2>2. Placed(t, i)
    BY <1>3, <1>4, <2>1 DEF Placed
  <2>3. Heard(t, i)
    BY <1>3, <1>4 DEF Heard
  <2>4. t.inst[i].vals # Nothing => Plugged(t, i)
    BY <1>3 DEF Plugged
  <2> QED
    BY <2>2, <2>3, <2>4
<1>6. ASSUME NEW m \in Instances \ {i}
      PROVE  Placed(t, m) /\ Heard(t, m) /\ (t.inst[m].vals # Nothing => Plugged(t, m))
  <2>1. Placed(s, m) /\ Heard(s, m) /\ (s.inst[m].vals # Nothing => Plugged(s, m)) /\ t.inst[m] = s.inst[m]
    BY <1>2, <1>3
  <2>2. \A j \in 1 .. Len(s.inst[m].subs) : s.inst[m].subs[j] \in Components => s.inst[m].subs[j] # c
    <3>1. m # 0
      BY DEF Instances
    <3> QED
      BY <2>1, <3>1 DEF Placed
  <2> DEFINE l == s.inst[m].subs
  <2>a. \A j \in 1 .. Len(l) : l[j] \in Components => t.seen[l[j]] = s.seen[l[j]] /\ t.of[l[j]] = s.of[l[j]]
    BY <1>3, <2>2
  <2>3. Placed(t, m)
    BY <2>1, <2>a DEF Placed
  <2>4. Heard(t, m)
    BY <2>1, <2>a DEF Heard
  <2>5. t.inst[m].vals # Nothing => Plugged(t, m)
    BY <2>1 DEF Plugged
  <2> QED
    BY <2>3, <2>4, <2>5
<1>7. Shape(t)
  <2>1. \A m \in Instances : Placed(t, m)
    BY <1>5, <1>6
  <2> QED
    BY <1>1, <1>3, <2>1 DEF Shape
<1>8. ASSUME NEW m \in Instances, t.registry = m PROVE t.inst[m].vals # Nothing /\ Stored(t, m)
  <2>1. s.inst[m].vals # Nothing /\ Stored(s, m)
    BY <1>2, <1>3, <1>8
  <2>2. \A n \in Instances : t.inst[n].vals = s.inst[n].vals /\ t.inst[n].batching = s.inst[n].batching
    BY <1>3
  <2> QED
    BY <1>3, <2>1, <2>2 DEF Stored, Alone
<1>9. Settled(t)
  <2>1. \A m \in Instances : Heard(t, m) /\ (t.inst[m].vals # Nothing => Plugged(t, m))
    BY <1>5, <1>6
  <2> QED
    BY <1>7, <1>8, <2>1 DEF Settled
<1> QED
  BY <1>9 DEF t

LEMMA MountSettles ==
  ASSUME NEW c \in Components, Settled(st), Mount(c)
  PROVE  Settled(st')
<1> DEFINE s == UseStore(st)
<1>1. Settled(s) /\ s.registry \in Instances /\ s.of = st.of
  BY UseSettles DEF Mount
<1>2. st.of[c] = 0 /\ st' = [s EXCEPT !.of[c] = s.registry, !.seen[c] = Nothing, !.inst[s.registry].subs = Append(@, c)]
  BY DEF Mount
<1> HIDE DEF s
<1>3. PICK i \in Instances : i = s.registry
  BY <1>1
<1> DEFINE old == s.inst[i].subs
           subs == Append(old, c)
<1>4. st' = Listed(s, c, i, i, subs)
  BY <1>2, <1>3 DEF Listed
<1>5. s \in StoreState /\ Placed(s, i) /\ s.inst[i].vals # Nothing /\ Plugged(s, i) /\ i # 0
  BY <1>1, <1>3 DEF Settled, Shape, Instances
<1>6. old \in Seq(Subscribed) /\ c \in Subscribed
  BY <1>5 DEF StoreState, InstanceState, Subscribed
<1>7. /\ subs \in Seq(Subscribed) /\ Len(old) \in Nat /\ Len(subs) = Len(old) + 1 /\ subs[Len(old) + 1] = c
      /\ \A j \in 1 .. Len(old) : subs[j] = old[j]
  BY <1>6, AppendProperties, LenProperties
<1>8. \A j \in 1 .. Len(old) : old[j] # c
  BY <1>1, <1>2, <1>5 DEF Placed
<1>9. \A j, k \in 1 .. Len(old) : old[j] = old[k] => j = k
  BY <1>5 DEF Placed
<1>10. Len(old) >= 1 /\ old[1] = "persist"
  BY <1>5 DEF Plugged
<1> HIDE DEF subs
<1>11. \A j, k \in 1 .. Len(subs) : subs[j] = subs[k] => j = k
  <2>1. ASSUME NEW j \in 1 .. Len(subs), NEW k \in 1 .. Len(subs), subs[j] = subs[k] PROVE j = k
    <3>1. (j \in 1 .. Len(old) \/ j = Len(old) + 1) /\ (k \in 1 .. Len(old) \/ k = Len(old) + 1)
      BY <1>7
    <3> QED
      BY <1>7, <1>8, <1>9, <2>1, <3>1
  <2> QED
    BY <2>1
<1>12. ASSUME NEW j \in 1 .. Len(subs), subs[j] # c
       PROVE  \E k \in 1 .. Len(old) : old[k] = subs[j] /\ (Reached(old, k) => Reached(subs, j))
  <2>1. j \in 1 .. Len(old)
    BY <1>7, <1>12
  <2>2. \A m \in 1 .. j - 1 : subs[m] = old[m]
    BY <1>7, <2>1
  <2>3. Reached(old, j) => Reached(subs, j)
    BY <2>2 DEF Reached
  <2> QED
    BY <1>7, <2>1, <2>3
<1>13. Len(subs) >= 1 /\ subs[1] = "persist" /\ s.of[c] \in {0, i} /\ i \in Instances \cup {0}
  BY <1>1, <1>2, <1>7, <1>10
<1>14. Settled(Listed(s, c, i, i, subs))
  BY <1>1, <1>5, <1>7, <1>11, <1>12, <1>13, ListSettles
<1> QED
  BY <1>4, <1>14

LEMMA DestroySettles ==
  ASSUME NEW c \in Components, Settled(st), Destroy(c)
  PROVE  Settled(st')
<1>1. st \in StoreState /\ st.of[c] # 0
  BY DEF Destroy, Settled, Shape
<1>2. PICK i \in Instances : i = st.of[c]
  BY <1>1 DEF StoreState
<1> DEFINE old == st.inst[i].subs
           subs == RemoveFirst(old, c)
<1>3. st' = Listed(st, c, 0, i, subs)
  BY <1>2 DEF Destroy, Listed
<1>4. Placed(st, i) /\ (st.inst[i].vals # Nothing => Plugged(st, i)) /\ i # 0
  BY DEF Settled, Shape, Instances
<1>5. old \in Seq(Subscribed) /\ Len(old) \in Nat
  BY <1>1, LenProperties DEF StoreState, InstanceState
<1>6. PICK p : \/ subs = old /\ \A j \in 1 .. Len(old) : old[j] # c
               \/ p \in 1 .. Len(old) /\ old[p] = c /\ subs = RemoveAt(old, p)
  BY <1>5, FirstIs
<1>7. \A j, k \in 1 .. Len(old) : old[j] = old[k] => j = k
  BY <1>4 DEF Placed
<1> HIDE DEF subs
<1>8. /\ subs \in Seq(Subscribed)
      /\ \A j \in 1 .. Len(subs) : subs[j] # c
      /\ \A j, k \in 1 .. Len(subs) : subs[j] = subs[k] => j = k
      /\ \A j \in 1 .. Len(subs) : \E k \in 1 .. Len(old) : old[k] = subs[j] /\ (Reached(old, k) => Reached(subs, j))
      /\ Len(old) >= 1 /\ old[1] = "persist" => Len(subs) >= 1 /\ subs[1] = "persist"
  <2>1. CASE subs = old /\ \A j \in 1 .. Len(old) : old[j] # c
    BY <1>5, <1>7, <2>1
  <2>2. CASE p \in 1 .. Len(old) /\ old[p] = c /\ subs = RemoveAt(old, p)
    <3>1. /\ subs \in Seq(Subscribed) /\ Len(subs) = Len(old) - 1
          /\ \A k \in 1 .. Len(old) - 1 : subs[k] = IF k < p THEN old[k] ELSE old[k + 1]
      BY <1>5, <2>2, RemoveIs
    <3> DEFINE At(j) == IF j < p THEN j ELSE j + 1
    <3>2. \A j \in 1 .. Len(subs) : At(j) \in 1 .. Len(old) /\ At(j) # p /\ subs[j] = old[At(j)]
      BY <1>5, <2>2, <3>1
    <3>3. \A j, k \in 1 .. Len(subs) : At(j) = At(k) => j = k
      BY <1>5, <2>2, <3>1
    <3>4. ASSUME NEW j \in 1 .. Len(subs), Reached(old, At(j)) PROVE Reached(subs, j)
      <4>1. ASSUME NEW m \in 1 .. j - 1 PROVE subs[m] \notin Throwers
        <5>1. m \in 1 .. Len(subs) /\ At(m) \in 1 .. At(j) - 1
          BY <1>5, <2>2, <3>1
        <5>2. subs[m] = old[At(m)]
          BY <3>2, <5>1
        <5> HIDE DEF At
        <5> QED
          BY <3>4, <5>1, <5>2 DEF Reached
      <4> QED
        BY <4>1 DEF Reached
    <3>5. ASSUME Len(old) >= 1, old[1] = "persist" PROVE Len(subs) >= 1 /\ subs[1] = "persist"
      <4>1. p # 1 /\ 1 \in 1 .. Len(old)
        BY <1>5, <2>2, <3>5, StoreAssumption
      <4> QED
        BY <1>5, <2>2, <3>1, <3>5, <4>1
    <3> HIDE DEF At
    <3>6. \A j \in 1 .. Len(subs) : subs[j] # c
      BY <1>7, <2>2, <3>2
    <3>7. \A j, k \in 1 .. Len(subs) : subs[j] = subs[k] => j = k
      BY <1>7, <3>2, <3>3
    <3>8. \A j \in 1 .. Len(subs) : \E k \in 1 .. Len(old) : old[k] = subs[j] /\ (Reached(old, k) => Reached(subs, j))
      BY <3>2, <3>4
    <3> QED
      BY <3>1, <3>5, <3>6, <3>7, <3>8
  <2> QED
    BY <1>6, <2>1, <2>2
<1>9. st.inst[i].vals = Nothing => subs = <<>>
  <2>1. ASSUME old = <<>> PROVE subs = <<>>
    BY <1>6, <2>1
  <2> QED
    BY <1>4, <2>1 DEF Placed
<1>10. st.inst[i].vals # Nothing => Len(subs) >= 1 /\ subs[1] = "persist"
  BY <1>4, <1>8 DEF Plugged
<1>11. st.of[c] \in {0, i} /\ 0 \in Instances \cup {0}
  BY <1>2
<1>12. Settled(Listed(st, c, 0, i, subs))
  BY <1>8, <1>9, <1>10, <1>11, ListSettles
<1> QED
  BY <1>3, <1>12

LEMMA StoreStarts == STInit => Settled(st)
<1> SUFFICES ASSUME STInit PROVE Settled(st)
  OBVIOUS
<1> DEFINE none == [vals |-> Nothing, batching |-> FALSE, subs |-> <<>>]
<1>1. none = NoStore /\ none \in InstanceState
  <2>1. Nothing \in Data /\ <<>> \in Seq(Subscribed)
    BY DataIs
  <2> QED
    BY <2>1 DEF NoStore, InstanceState
<1> HIDE DEF none
<1>2. st = [inst |-> [i \in Instances |-> none], registry |-> 0, storage |-> Nothing, pendingHydration |-> Nothing,
            devtools |-> 0, seen |-> [c \in Components |-> Nothing], of |-> [c \in Components |-> 0]]
  BY <1>1 DEF STInit
<1>3. st \in StoreState
  BY <1>1, <1>2, DataIs DEF StoreState
<1>4. \A i \in Instances : st.inst[i].vals = Nothing /\ st.inst[i].subs = <<>> /\ st.registry # i
  BY <1>2 DEF none, Instances
<1>5. \A i \in Instances : Placed(st, i) /\ Heard(st, i)
  BY <1>4 DEF Placed, Heard
<1>6. st.storage = Nothing
  BY <1>2
<1>7. Shape(st)
  BY <1>3, <1>5, <1>6, DataIs DEF Shape
<1> QED
  BY <1>4, <1>5, <1>7 DEF Settled

LEMMA ReloadSettles ==
  ASSUME NEW state \in Data, Settled(st), Reload(state)
  PROVE  Settled(st')
<1> DEFINE none == [vals |-> Nothing, batching |-> FALSE, subs |-> <<>>]
<1>1. none = NoStore /\ none \in InstanceState
  <2>1. Nothing \in Data /\ <<>> \in Seq(Subscribed)
    BY DataIs
  <2> QED
    BY <2>1 DEF NoStore, InstanceState
<1> HIDE DEF none
<1>2. st \in StoreState /\ PathsOf(st.storage) = st.storage /\ (st.storage # Nothing => st.storage["saved"] # Absent)
  BY DEF Settled, Shape
<1>3. st' = [inst |-> [i \in Instances |-> none], registry |-> 0, storage |-> st.storage, pendingHydration |-> state,
             devtools |-> 0, seen |-> [c \in Components |-> Nothing], of |-> [c \in Components |-> 0]]
  BY <1>1, <1>2 DEF Reload, StoreState
<1>4. st' \in StoreState
  BY <1>1, <1>2, <1>3, DataIs DEF StoreState
<1>5. \A i \in Instances : st'.inst[i].vals = Nothing /\ st'.inst[i].subs = <<>> /\ st'.registry # i
  BY <1>3 DEF none, Instances
<1>6. \A i \in Instances : Placed(st', i) /\ Heard(st', i)
  BY <1>5 DEF Placed, Heard
<1>7. st'.storage = st.storage
  BY <1>3
<1>8. Shape(st')
  BY <1>2, <1>4, <1>6, <1>7 DEF Shape
<1> QED
  BY <1>5, <1>6, <1>8 DEF Settled

LEMMA RegistryEmpties == Settled(st) /\ ResetAllStores => Settled(st')
<1> SUFFICES ASSUME Settled(st), ResetAllStores PROVE Settled(st')
  OBVIOUS
<1>1. st \in StoreState
  BY DEF Settled, Shape
<1>2. st' = [inst |-> st.inst, registry |-> 0, storage |-> st.storage, pendingHydration |-> st.pendingHydration,
             devtools |-> st.devtools, seen |-> st.seen, of |-> st.of]
  BY <1>1 DEF ResetAllStores, StoreState
<1>3. st' \in StoreState
  BY <1>1, <1>2 DEF StoreState
<1>4. st'.inst = st.inst /\ st'.storage = st.storage /\ st'.seen = st.seen /\ st'.of = st.of /\ st'.registry = 0
  BY <1>2
<1>5. Shape(st')
  BY <1>3, <1>4 DEF Settled, Shape, Placed
<1>6. \A i \in Instances : Heard(st', i) /\ (st'.inst[i].vals # Nothing => Plugged(st', i)) /\ st'.registry # i
  BY <1>4 DEF Settled, Heard, Plugged, Instances
<1> QED
  BY <1>5, <1>6 DEF Settled

LEMMA StoreStep == Settled(st) /\ [STNext]_st => Settled(st')
<1> SUFFICES ASSUME Settled(st), [STNext]_st PROVE Settled(st')
  OBVIOUS
<1>1. ASSUME NEW c \in Components, Mount(c) \/ Destroy(c) PROVE Settled(st')
  BY <1>1, MountSettles, DestroySettles
<1>2. ASSUME NEW i \in Instances, NEW v \in Assigned, st.inst[i].vals # Nothing,
             \/ \E k \in Keys : st' = Assign(st, i, k, v)
             \/ \E k \in Keys : st' = Patch(st, i, Only(k, v))
             \/ st' = PatchThrows(st, i, Only("saved", v))
             \/ st' = ResetStore(st, i)
      PROVE  Settled(st')
  BY <1>2, ValuesSettle
<1>3. CASE ResetAllStores
  BY <1>3, RegistryEmpties
<1>4. CASE Reload(Nothing)
  BY <1>4, ReloadSettles, DataIs
<1>5. CASE Reload(Only("other", 1))
  <2>1. ASSUME NEW k \in Keys, NEW v \in Int PROVE Only(k, v) \in Data
    BY DataIs DEF Only, Data
  <2> QED
    BY <1>5, <2>1, ReloadSettles DEF Keys
<1>6. CASE UNCHANGED st
  BY <1>6
<1> QED
  BY <1>1, <1>2, <1>3, <1>4, <1>5, <1>6 DEF STNext

LEMMA SubscribersFromInv == Settled(st) => SubscribersCurrent
<1> SUFFICES ASSUME Settled(st), NEW i \in Instances, ~st.inst[i].batching
             PROVE  /\ \A c \in Called(st.inst[i].subs) \ {"persist"} : 
                         st.seen[c] = Nothing \/ UpTo(st.seen[c], st.inst[i].vals)
                    /\ i = st.registry /\ (\A o \in Instances \ {i} : st.inst[o].vals = Nothing)
                         => st.storage = Nothing \/ UpTo(st.storage, PathsOf(st.inst[i].vals))
  BY DEF SubscribersCurrent
<1> DEFINE subs == st.inst[i].subs
<1>1. subs \in Seq(Subscribed)
  BY DEF Settled, Shape, StoreState, InstanceState
<1>2. Called(subs) = {subs[j] : j \in {j \in 1 .. Len(subs) : Reached(subs, j)}}
  BY <1>1, CalledIs
<1>3. ASSUME NEW c \in Called(subs) \ {"persist"} PROVE st.seen[c] = Nothing \/ UpTo(st.seen[c], st.inst[i].vals)
  <2>1. PICK j \in 1 .. Len(subs) : Reached(subs, j) /\ subs[j] = c
    BY <1>2, <1>3
  <2>2. c \in Components
    BY <1>1, <1>3, <2>1, ElementOfSeq DEF Subscribed
  <2> QED
    BY <2>1, <2>2 DEF Settled, Heard
<1>4. ASSUME i = st.registry, \A o \in Instances \ {i} : st.inst[o].vals = Nothing
      PROVE  st.storage = Nothing \/ UpTo(st.storage, PathsOf(st.inst[i].vals))
  BY <1>4 DEF Settled, Stored, Alone
<1> QED
  BY <1>3, <1>4

-----------------------------------------------------------------------------
(* The parts of a page *)

LEMMA QueryConstants == Query!QueryAssumption /\ Query!CacheAssumption /\ Query!PagesAssumption
<1>1. Query!IsFiniteSet({"a", "b"}) /\ Query!IsFiniteSet({"c1", "c2"})
  <2>1. Query!IsFiniteSet({"a"}) /\ Query!IsFiniteSet({"c1"})
    BY Query!FS_Singleton
  <2>2. {"a", "b"} = {"a"} \cup {"b"} /\ {"c1", "c2"} = {"c1"} \cup {"c2"}
    OBVIOUS
  <2> QED
    BY <2>1, <2>2, Query!FS_AddElement
<1> QED
  BY <1>1 DEF Query!QueryAssumption, Query!CacheAssumption, Query!PagesAssumption

\* A step of the page is a step of each of its parts or leaves the part alone.
LEMMA PartSteps ==
  ASSUME [Next]_vars
  PROVE  /\ [Query!QCNext]_(Query!qcVars) /\ [Query!KCNext]_kc /\ [Query!IQNext]_iq /\ [Query!MUNext]_mu
         /\ [FBNext]_fbVars /\ [FLNext]_fl /\ [FDNext]_fd /\ [FHNext]_fh /\ [FSNext]_fs
         /\ [FMNext]_fm /\ [STNext]_st /\ [SXNext]_sx /\ [RXNext]_rx /\ UNCHANGED <<part, fq, fv>>
<1>1. CASE Next
  <2>1. /\ [Query!QCNext]_(Query!qcVars) /\ [Query!KCNext]_kc /\ [Query!IQNext]_iq /\ [Query!MUNext]_mu
        /\ [FBNext]_fbVars
    BY <1>1 DEF Next, Query!qcVars, fbVars
  <2>2. [FLNext]_fl /\ [FDNext]_fd /\ [FHNext]_fh /\ [FSNext]_fs
    BY <1>1 DEF Next, FLNext, FDNext, FHNext, FSNext
  <2>3. [FMNext]_fm /\ UNCHANGED <<part, fq, fv>>
    BY <1>1 DEF Next
  <2>4. [STNext]_st /\ [SXNext]_sx /\ [RXNext]_rx
    BY <1>1 DEF Next
  <2> QED
    BY <2>1, <2>2, <2>3, <2>4
<1>2. CASE UNCHANGED vars
  BY <1>2 DEF vars, Query!qcVars, fbVars
<1> QED
  BY <1>1, <1>2

\* The entry a live query subscribed to is the one in the cache, until clear() or the timer
\* of a query disposed of once more takes it away (query/src/client.ts:231).
THEOREM BrowserSubscribed == Spec => []SubscribedKept
<1>1. Init => Query!QCInv
  BY QueryConstants, Query!ClientStarts DEF Init
<1>2. Query!QCInv /\ [Next]_vars => Query!QCInv'
  BY QueryConstants, PartSteps, Query!ClientStep
<1>3. Query!QCInv => SubscribedKept
  BY QueryConstants, Query!ClientFromInv DEF SubscribedKept
<1> QED
  BY <1>1, <1>2, <1>3, PTL DEF Spec

\* What is left in the cache of a failed mutation was put back by a later failure that had
\* begun on top of it, and a subscriber was last called with what the cache holds until
\* clear() or a second unsubscribe (optimistic.ts:192, cache.ts:353).
THEOREM BrowserCacheCurrent == Spec => []CacheCurrent
<1>1. Init => Query!KCInv
  BY QueryConstants, Query!CacheStarts DEF Init
<1>2. Query!KCInv /\ [Next]_vars => Query!KCInv'
  BY QueryConstants, PartSteps, Query!CacheStep
<1>3. Query!KCInv => CacheCurrent
  BY QueryConstants, Query!CacheFromInv DEF CacheCurrent
<1> QED
  BY <1>1, <1>2, <1>3, PTL DEF Spec

\* The pages are consecutive until one is fetched twice under way, a mutation shows the call
\* that settled last, a load has the value of the attempt it waited for and a closed breaker
\* has not counted to its threshold (infinite.ts:296, mutation.ts:45, fallback.ts:397).
THEOREM BrowserAttempts == Spec => []AttemptsOrdered
<1>1. Init => Query!IQInv /\ Query!MUInv /\ FBInv
  BY QueryConstants, Query!PagesStart, Query!MutationStarts, FallbackStarts DEF Init
<1>2. (Query!IQInv /\ Query!MUInv /\ FBInv) /\ [Next]_vars => (Query!IQInv /\ Query!MUInv /\ FBInv)'
  BY QueryConstants, PartSteps, Query!PagesStep, Query!MutationStep, FallbackStep
<1>3. Query!IQInv /\ Query!MUInv /\ FBInv => AttemptsOrdered
  BY Query!OutcomeFromInv, FallbackFromInv
  DEF AttemptsOrdered, Query!IQInv, Query!PagesOK, Query!Consecutive, Query!PagesConsecutive
<1> QED
  BY <1>1, <1>2, <1>3, PTL DEF Spec

\* What a consumer has stays: cached data does not go back, and a shared dependency that
\* answers goes on answering (query/src/client.ts:168, remote.ts:334).
THEOREM BrowserAnswers == Spec => AnswersKept
<1>1. Init => Query!QCInv /\ SharedInv
  BY QueryConstants, Query!ClientStarts, SharedStarts DEF Init
<1>2. (Query!QCInv /\ SharedInv) /\ [Next]_vars
        => (Query!QCInv /\ SharedInv)' /\ [Query!Ordered]_(Query!qcVars) /\ [Answered]_fd
  BY QueryConstants, PartSteps, Query!ClientStep, SharedStep
<1>3. Spec => [][Query!Ordered]_(Query!qcVars) /\ [][Answered]_fd
  BY <1>1, <1>2, PTL DEF Spec
<1> QED
  BY <1>3 DEF AnswersKept, SharedKept, Answered, Query!DataMonotone, Query!Ordered

\* After an invalidation the loader serves nothing older than it but what a load under way at
\* it brings, a host is told every outcome once, synchronised stores agree, and so do the
\* three ways to choose a version (remote.ts:521, host.ts, state.ts:249, fallback.ts:262).
THEOREM BrowserRemotes == Spec => []RemotesCurrent
<1> DEFINE Inv == LoaderInv /\ SharedInv /\ HostInv /\ SyncInv /\ (part = "versions" => VersionsRight)
<1>1. Init => Inv
  BY LoaderStarts, SharedStarts, HostStarts, SyncStarts, VersionInputs DEF Init
<1>2. Inv /\ [Next]_vars => Inv'
  <2>1. ASSUME VersionsRight, UNCHANGED fv PROVE VersionsRight'
    BY <2>1 DEF VersionsRight
  <2> QED
    BY <2>1, PartSteps, LoaderStep, SharedStep, HostStep, SyncStep
<1>3. Inv => RemotesCurrent
  BY LoaderFromInv, HostFromInv, SyncFromInv DEF RemotesCurrent
<1> QED
  BY <1>1, <1>2, <1>3, PTL DEF Spec

\* An error of a rule is about the value its field has, a server's error one that an answer
\* since the last submission named, about the field's value unless it was edited before the
\* answer came; the two ways to validate and the operations on field arrays agree
\* (form.ts:152, validation.ts:199, field-array.ts:84).
THEOREM BrowserForms == Spec => []FormsHonest
<1> DEFINE Inv == FMInv /\ (part = "input" => FormsRight)
<1>1. Init => Inv
  BY FormStarts, InputsRight DEF Init
<1>2. Inv /\ [Next]_vars => Inv'
  <2>1. ASSUME FormsRight, UNCHANGED fq PROVE FormsRight'
    BY <2>1 DEF FormsRight
  <2> QED
    BY <2>1, PartSteps, FormStep
<1>3. Inv => FormsHonest
  BY FormFromInv DEF FormsHonest
<1> QED
  BY <1>1, <1>2, <1>3, PTL DEF Spec

\* Subscribers and the storage agree with the state they were told of, a render that no later
\* one overtook has its own state, and effects agree with the signals they read unless a
\* thrower before them ended the batch they were in (store.ts:95, ssr.ts:160, scheduler.ts:26).
THEOREM BrowserStores == Spec => []StoresSettle
<1> DEFINE Inv == Settled(st) /\ RenderInv /\ SignalInv
<1>1. Init => Inv
  BY StoreStarts, RenderStarts, SignalStarts DEF Init
<1>2. Inv /\ [Next]_vars => Inv'
  BY PartSteps, StoreStep, RenderStep, SignalStep
<1>3. Inv => StoresSettle
  BY SubscribersFromInv, SignalFromInv DEF RenderInv, StoresSettle
<1> QED
  BY <1>1, <1>2, <1>3, PTL DEF Spec

\* What is counted stays within its bounds: attempts and their errors by the retries, failures
\* by the calls made.
LEMMA FallbackTypes == FBInv => FBTypeOK
<1> SUFFICES ASSUME FBInv PROVE FBTypeOK
  OBVIOUS
<1>1. /\ fb.pc \in {"idle", "waiting", "backoff", "done"} /\ fb.attempt \in 0 .. Retries + 1
      /\ fb.errors \in 0 .. Retries + 1 /\ fb.from \in 0 .. Retries + 1
  BY FallbackAssumption DEF FBInv, LoadInv, LoadState
<1>2. cb.state \in {"closed", "open", "half-open"} /\ cb.failures \in Nat
  BY DEF FBInv, BreakerInv, BreakerState
<1>3. FailedCalls(cb) \subseteq Probes
  BY DEF FailedCalls
<1>4. PICK n, m \in Nat : n = Cardinality(Probes) /\ m = Cardinality(FailedCalls(cb)) /\ m <= n
  BY <1>3, FallbackAssumption, FS_Subset, FS_CardinalityType
<1>5. cb.failures <= m
  BY <1>4 DEF FBInv, BreakerInv
<1>6. cb.failures \in 0 .. Cardinality(Probes)
  BY <1>2, <1>4, <1>5
<1> QED
  BY <1>1, <1>2, <1>6 DEF FBTypeOK

LEMMA FederationTypes == LoaderInv /\ HostInv /\ SyncInv => FedTypeOK
  BY DEF LoaderInv, LoaderState, HostInv, SyncInv, FedTypeOK, Deployed

LEMMA StoreKeepsTypes == Settled(st) /\ RenderInv /\ SignalInv => StoreTypes
<1> SUFFICES ASSUME Settled(st), RenderInv, SignalInv PROVE StoreTypes
  OBVIOUS
<1>1. st \in StoreState
  BY DEF Settled, Shape
<1>2. ASSUME NEW i \in Instances PROVE ToSet(st.inst[i].subs) \subseteq Components \cup {"persist"}
  <2>1. PICK subs \in Seq(Subscribed) : subs = st.inst[i].subs
    BY <1>1 DEF StoreState, InstanceState
  <2> QED
    BY <2>1 DEF ToSet, Subscribed
<1>3. ToSet(rx.queue) \subseteq Effects \cup {"sum"}
  <2>1. PICK queue \in Seq(Runs) : queue = rx.queue
    BY DEF SignalInv
  <2>2. Runs = Effects \cup {"sum"}
    BY DEF Runs, Effects
  <2> QED
    BY <2>1, <2>2 DEF ToSet
<1>4. \A r \in Requests : sx.pc[r] \in {"start", "await", "done"}
  BY DEF RenderInv
<1> QED
  BY <1>1, <1>2, <1>3, <1>4 DEF StoreTypes, StoreState

\* Every part keeps to its types and bounds: slots, pages, attempts, failures and versions are
\* never more than the code counts.
THEOREM BrowserTypeCorrect == Spec => []BrowserTypes
<1> DEFINE QueryInv == Query!QCInv /\ Query!KCInv /\ Query!IQInv /\ Query!MUInv
           FedInv == FBInv /\ LoaderInv /\ SharedInv /\ HostInv /\ SyncInv
           PageInv == Settled(st) /\ RenderInv /\ SignalInv /\ FMInv
           Inv == QueryInv /\ FedInv /\ PageInv
<1>1. Init => Inv
  <2> SUFFICES ASSUME Init PROVE Inv
    OBVIOUS
  <2>1. QueryInv
    BY QueryConstants, Query!ClientStarts, Query!CacheStarts, Query!PagesStart, Query!MutationStarts DEF Init
  <2>2. FedInv
    BY FallbackStarts, LoaderStarts, SharedStarts, HostStarts, SyncStarts DEF Init
  <2>3. PageInv
    BY StoreStarts, RenderStarts, SignalStarts, FormStarts DEF Init
  <2> QED
    BY <2>1, <2>2, <2>3
<1>2. Inv /\ [Next]_vars => Inv'
  <2> SUFFICES ASSUME Inv, [Next]_vars PROVE Inv'
    OBVIOUS
  <2>1. QueryInv'
    BY QueryConstants, PartSteps, Query!ClientStep, Query!CacheStep, Query!PagesStep, Query!MutationStep
  <2>2. FedInv'
    BY PartSteps, FallbackStep, LoaderStep, SharedStep, HostStep, SyncStep
  <2>3. PageInv'
    BY PartSteps, StoreStep, RenderStep, SignalStep, FormStep
  <2> QED
    BY <2>1, <2>2, <2>3
<1>3. Inv => BrowserTypes
  <2> SUFFICES ASSUME Inv PROVE BrowserTypes
    OBVIOUS
  <2>1. Query!QCTypeOK /\ Query!KCTypeOK /\ Query!IQTypeOK /\ Query!MUTypeOK
    BY QueryConstants, Query!ClientFromInv, Query!CacheTypes, Query!PagesTypes, Query!MutationTypes
  <2>2. StoreTypes /\ FBTypeOK /\ FedTypeOK /\ FormTypes
    BY FallbackTypes, FederationTypes, StoreKeepsTypes DEF FMInv, FormTypes
  <2> QED
    BY <2>1, <2>2 DEF BrowserTypes
<1> QED
  BY <1>1, <1>2, <1>3, PTL DEF Spec
=============================================================================
