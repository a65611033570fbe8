------------------------------ MODULE Mutation ------------------------------
(* packages/vais-web/packages/query: createMutation (mutation.ts), several   *)
(* calls of one mutation object, and createAutoRefetch (refetch.ts).         *)
EXTENDS Naturals, FiniteSets

CONSTANTS Calls,          \* mutate(variables), each made at most once
          MutationRetry,  \* options.retry
          Sources         \* refetch triggers the options turn on

VARIABLE mu

Triggers == {"focus", "interval", "reconnect"}
FreshCall == [pc |-> "idle", attempt |-> 0, told |-> {}]

MUInit == mu = [status |-> "idle", data |-> {}, error |-> {},
                call |-> [c \in Calls |-> FreshCall],
                met |-> {},      \* history: pairs of calls of which the second began during the first
                last |-> {},     \* history: the call that settled last, {} after reset
                running |-> FALSE,
                listeners |-> [t \in Triggers |-> 0]]

Running(s) == {c \in Calls : s.call[c].pc \in {"mutating", "asking"}}

\* execute() up to its first await, the one on onMutate.
Mutate(c) ==
  /\ mu.call[c].pc = "idle"
  /\ mu' = [mu EXCEPT !.status = "loading", !.error = {}, !.call[c].pc = "mutating",
                      !.met = @ \cup (Running(mu) \X {c})]

\* onMutate settles, its error ignored; mutationFn is called.
CallMutationFn(c) ==
  /\ mu.call[c].pc = "mutating"
  /\ mu' = [mu EXCEPT !.call[c].pc = "asking"]

\* A result that is not undefined.
MutationFnReturns(c) ==
  /\ mu.call[c].pc = "asking"
  /\ mu' = [mu EXCEPT !.data = {c}, !.status = "success", !.last = {c},
                      !.call[c].pc = "done",
                      !.call[c].told = @ \cup {"success", "settled"}]

\* The attempts are used up, or the function returned undefined: both take
\* the error branch.
MutationFnGivesUp(c) ==
  /\ mu.call[c].pc = "asking"
  /\ mu' = [mu EXCEPT !.error = {c}, !.status = "error", !.last = {c},
                      !.call[c].pc = "done", !.call[c].told = @ \cup {"error", "settled"}]

MutationFnThrows(c) ==
  /\ mu.call[c].pc = "asking" /\ mu.call[c].attempt < MutationRetry
  /\ mu' = [mu EXCEPT !.call[c].attempt = @ + 1]

Reset ==
  /\ mu' = [mu EXCEPT !.status = "idle", !.data = {}, !.error = {}, !.last = {}]

\* createAutoRefetch: start adds one listener per enabled trigger.
Start ==
  /\ ~mu.running
  /\ mu' = [mu EXCEPT !.running = TRUE,
                      !.listeners = [t \in Triggers |-> @[t] + IF t \in Sources THEN 1 ELSE 0]]

\* stop(), and destroy(), which calls it.
Stop ==
  /\ mu.running
  /\ mu' = [mu EXCEPT !.running = FALSE, !.listeners = [t \in Triggers |-> 0]]

MUNext == \/ Reset \/ Start \/ Stop
          \/ \E c \in Calls : \/ Mutate(c) \/ CallMutationFn(c) \/ MutationFnReturns(c)
                              \/ MutationFnGivesUp(c) \/ MutationFnThrows(c)

----------------------------------------------------------------------------
MUTypeOK == /\ mu.status \in {"idle", "loading", "success", "error"}
            /\ mu.data \subseteq Calls /\ mu.error \subseteq Calls

Overlapped(c, d) == <<c, d>> \in mu.met \/ <<d, c>> \in mu.met

\* Whatever calls overlap, the status and the result or the error shown are
\* those of the call that settled last since a reset, an error shown beside a
\* success is that of a call that overlapped it (mutation.ts:45 clears the
\* error when a call begins, not when it succeeds), "loading" is shown only
\* while a call runs, and a call reports success or error, not both, and
\* settled with either.
OutcomeShown ==
  /\ mu.status = "success" => mu.last # {} /\ mu.data = mu.last
                               /\ \A e \in mu.error, c \in mu.last : Overlapped(e, c)
  /\ mu.status = "error" => mu.last # {} /\ mu.error = mu.last
  /\ mu.status = "idle" => mu.last = {}
  /\ mu.status = "loading" => Running(mu) # {}
  /\ \A c \in Calls : mu.call[c].pc = "done" =>
       /\ "settled" \in mu.call[c].told
       /\ Cardinality(mu.call[c].told) = 2
=============================================================================
