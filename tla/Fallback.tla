------------------------------ MODULE Fallback ------------------------------
(* packages/vais-web/packages/federation, fallback.ts: loadWithFallback, the *)
(* circuit breaker and the version manager; semver also from remote.ts.      *)
(* The loader's promise may settle late or never: a timeout gives up waiting *)
(* for it but cancels nothing.  Versions are triples, Unparseable is what    *)
(* parseSemver returns null for.                                             *)
EXTENDS Naturals, Sequences, FiniteSets

CONSTANTS Retries,    \* options.retries
          HasFallback,\* whether the caller gave a fallback value
          Threshold,  \* breaker: failures that open it
          Probes      \* calls through the breaker, each made at most once

ASSUME FallbackAssumption == Retries \in Nat /\ Threshold \in Nat \ {0} /\ IsFiniteSet(Probes)

VARIABLES fb, cb,
          fv       \* versions to choose from: an input

fbVars == <<fb, cb>>

FBInit ==
  /\ fb = [pc |-> "idle", attempt |-> 0, loaders |-> {}, result |-> "none", from |-> 0, errors |-> 0]
  /\ cb = [state |-> "closed", failures |-> 0, due |-> FALSE,
           calls |-> [p \in Probes |-> "idle"],
           opened |-> "never"]  \* history: what opened the breaker last

----------------------------------------------------------------------------
(* loadWithFallback                                                          *)

StartAttempt(s) == [s EXCEPT !.pc = "waiting", !.attempt = @ + 1,
                             !.loaders = @ \cup {s.attempt + 1}]

Load == fb.pc = "idle" /\ fb' = StartAttempt(fb) /\ UNCHANGED cb

\* Broken variant: one attempt more than asked for.
FailedOnceMore(s) == [s EXCEPT !.errors = @ + 1, !.pc = IF s.attempt > Retries + 1 THEN "done" ELSE "backoff"]
\* Broken variant: the attempts never run out.
FailedForever(s) == [s EXCEPT !.pc = "backoff",
                              !.attempt = IF @ > Retries THEN Retries ELSE @]
\* An attempt is over without a value: back off, or settle.
Failed(s) ==
  [s EXCEPT !.errors = @ + 1,
            !.pc = IF s.attempt > Retries THEN "done" ELSE "backoff",
            !.result = IF s.attempt > Retries
                       THEN IF HasFallback THEN "fallback" ELSE "error" ELSE @]

\* The promise of attempt n settles; only the one being waited for counts.
LoaderResolves(n) ==
  /\ n \in fb.loaders
  /\ fb' = IF fb.pc = "waiting" /\ n = fb.attempt
           THEN [fb EXCEPT !.pc = "done", !.result = "value", !.from = n, !.loaders = @ \ {n}]
           ELSE [fb EXCEPT !.loaders = @ \ {n}]
  /\ UNCHANGED cb

LoaderRejects(n) ==
  /\ n \in fb.loaders
  /\ LET s == [fb EXCEPT !.loaders = @ \ {n}]
     IN fb' = IF fb.pc = "waiting" /\ n = fb.attempt THEN Failed(s) ELSE s
  /\ UNCHANGED cb

TimesOut == fb.pc = "waiting" /\ fb' = Failed(fb) /\ UNCHANGED cb
BackoffEnds == fb.pc = "backoff" /\ fb' = StartAttempt(fb) /\ UNCHANGED cb

----------------------------------------------------------------------------
(* createCircuitBreaker: "due" says that resetTimeout has passed             *)

GetState(c) == IF c.state = "open" /\ c.due
               THEN [c EXCEPT !.state = "half-open", !.due = FALSE] ELSE c

Observe == cb.state = "open" /\ cb.due /\ cb' = GetState(cb) /\ UNCHANGED fb

\* An open breaker throws CircuitOpenError; otherwise fn is called.
CallBreaker(p) ==
  /\ cb.calls[p] = "idle"
  /\ LET c == GetState(cb)
     IN cb' = [c EXCEPT !.calls[p] = IF c.state = "open" THEN "refused" ELSE "running"]
  /\ UNCHANGED fb

CallSucceeds(p) ==
  /\ cb.calls[p] = "running"
  /\ cb' = [cb EXCEPT !.calls[p] = "ok", !.failures = 0,
                      !.state = IF @ = "half-open" THEN "closed" ELSE @]
  /\ UNCHANGED fb

CallFails(p) ==
  /\ cb.calls[p] = "running"
  /\ cb' = LET c == [cb EXCEPT !.calls[p] = "failed", !.failures = @ + 1]
           IN IF c.state = "half-open" THEN [c EXCEPT !.state = "open", !.due = FALSE,
                                                      !.opened = "probe"]
              ELSE IF c.failures >= Threshold
                   THEN [c EXCEPT !.state = "open", !.due = FALSE, !.opened = "threshold"]
              ELSE c
  /\ UNCHANGED fb

ResetTimeoutPasses == cb.state = "open" /\ ~cb.due /\ cb' = [cb EXCEPT !.due = TRUE]
                      /\ UNCHANGED fb

FBNext ==
  \/ Load \/ TimesOut \/ BackoffEnds \/ Observe \/ ResetTimeoutPasses
  \/ \E n \in 1 .. Retries + 1 : LoaderResolves(n) \/ LoaderRejects(n)
  \/ \E p \in Probes : CallBreaker(p) \/ CallSucceeds(p) \/ CallFails(p)

\* Timers fire; nothing is assumed of the loader.
FBFairness == WF_fbVars(TimesOut) /\ WF_fbVars(BackoffEnds)

----------------------------------------------------------------------------
(* Semantic versions                                                         *)
Unparseable == <<>>
Unset == <<0>>

\* compareSemver as an order: at the first difference the larger one wins.
NewerThan(a, b) == \E k \in 1 .. 3 : a[k] > b[k] /\ \A j \in 1 .. k - 1 : a[j] = b[j]

SemverSatisfies(v, op, base) ==
  /\ v # Unparseable /\ base # Unparseable
  /\ CASE op = "^" -> v[1] = base[1] /\ ~NewerThan(base, v)
       [] op = "~" -> v[1] = base[1] /\ v[2] = base[2] /\ ~NewerThan(base, v)
       [] OTHER -> v = base

CheckCompatibility(remote, host) ==
  /\ remote # Unparseable /\ host # Unparseable
  /\ remote[1] = host[1] /\ remote[2] >= host[2]

\* constraint: [exact, min, max], each a version or unset.
Satisfies(v, c) ==
  /\ v # Unparseable
  /\ IF c.exact # Unset THEN v = c.exact
     ELSE /\ Unparseable \notin {c.min, c.max}
          /\ c.min # Unset => ~NewerThan(c.min, v)
          /\ c.max # Unset => ~NewerThan(v, c.max)

\* The reduce over what the filter leaves, in one pass; nothing is left while
\* the best is Unparseable.
Better(v, best, c) == IF Satisfies(v, c) /\ (best = Unparseable \/ NewerThan(v, best)) THEN v ELSE best
ResolveVersion(versions, c) ==
  LET best[k \in 0 .. Len(versions)] == IF k = 0 THEN Unparseable ELSE Better(versions[k], best[k - 1], c)
  IN best[Len(versions)]

VersionTriples == {<<1, 0, 0>>, <<1, 0, 1>>, <<1, 1, 0>>, <<2, 0, 0>>, Unparseable}
VersionConstraint == [exact : VersionTriples \cup {Unset}, min : VersionTriples \cup {Unset},
                      max : VersionTriples \cup {Unset}]
FVInit == fv \in [ask : {"version"}, versions : {<<>>} \cup {<<a, b>> : a, b \in VersionTriples},
                  constraint : VersionConstraint]

----------------------------------------------------------------------------
FBTypeOK == /\ fb.pc \in {"idle", "waiting", "backoff", "done"}
            /\ fb.attempt \in 0 .. Retries + 1 /\ {fb.errors, fb.from} \subseteq 0 .. Retries + 1
            /\ cb.state \in {"closed", "open", "half-open"}
            /\ cb.failures \in 0 .. Cardinality(Probes)

\* A load settles even when the loader never does, by the timeouts alone.
LoadSettles == fb.pc = "waiting" ~> fb.pc = "done"

\* Late answers do not corrupt a load or the breaker: the fallback is used
\* only when every attempt failed, a value only from the attempt waited for,
\* and a closed breaker has counted fewer failures than the threshold
\* whichever calls of an earlier state finish in it (fallback.ts:397-418).
LateAnswersHarmless ==
  /\ fb.result \in {"fallback", "error"} => fb.errors = Retries + 1
  /\ fb.result = "value" => fb.from = fb.attempt /\ fb.errors = fb.attempt - 1
  /\ cb.state = "closed" => cb.failures < Threshold

\* The version chosen is one of the list that satisfies the constraint, and
\* none that satisfies it is newer, whatever the order of the list and however
\* many cannot be parsed; what a caret range accepts is compatible, and what is
\* compatible but outside the range only has an older patch
\* (fallback.ts:219, 262, remote.ts:55).
VersionsRight ==
  LET c == fv.constraint
      chosen == ResolveVersion(fv.versions, c)
      fits(v) == v # Unparseable /\ IF c.exact # Unset THEN v = c.exact
                                    ELSE c.min # Unparseable /\ c.max # Unparseable
                                         /\ (c.min # Unset => v = c.min \/ NewerThan(v, c.min))
                                         /\ (c.max # Unset => v = c.max \/ NewerThan(c.max, v))
      ok == {v \in {fv.versions[k] : k \in DOMAIN fv.versions} : fits(v)}
  IN /\ (chosen = Unparseable) = (ok = {})
     /\ ok # {} => chosen \in ok /\ \A v \in ok : ~NewerThan(v, chosen)
     /\ \A v, base \in VersionTriples :
          /\ SemverSatisfies(v, "^", base) => CheckCompatibility(v, base)
          /\ CheckCompatibility(v, base) => SemverSatisfies(v, "^", base) \/ (v[2] = base[2] /\ v[3] < base[3])
          /\ SemverSatisfies(v, "~", base) => SemverSatisfies(v, "^", base)

\* What fallback.ts:327 says of half-open: "allows a single probe call".
SingleProbe == [][cb.state = "half-open" /\ (\E p \in Probes : cb.calls[p] = "running")
                    => \A p \in Probes : cb.calls[p] = "idle" => cb'.calls[p] # "running"]_cb
=============================================================================
