---------------------------- MODULE WaitForGraph ----------------------------
(* storage/txn/deadlock.vais: the wait-for graph as it is stored, a map from
   waiter to the list of holders beside the list of waiters, and the depth
   first search that picks a deadlock's victim.  Callers are any transactions
   that wait or end, and a detector that ends the victim. *)
EXTENDS Naturals, Sequences, FiniteSets, SequencesExt, FiniteSetsExt

CONSTANTS
  Txns,       \* bound: the transaction ids in play
  MaxDegree   \* bound: holders one transaction waits for at a time

ASSUME GraphAssumption == Txns \subseteq Nat \ {0} /\ MaxDegree \in Nat

VARIABLES
  edges,      \* waiter -> sequence of holders, for the waiters in the map
  node_list   \* the map's keys, in insertion order

gvars == <<edges, node_list>>

None == 0
Holders(t) == IF t \in DOMAIN edges THEN edges[t] ELSE <<>>

GraphInit == edges = <<>> /\ node_list = <<>>

AddWait(waiter, holder) ==
  /\ Len(Holders(waiter)) < MaxDegree
  /\ ~Contains(Holders(waiter), holder)
  /\ edges' = [t \in DOMAIN edges \cup {waiter} |->
                 IF t = waiter THEN Append(Holders(t), holder) ELSE edges[t]]
  /\ node_list' = IF waiter \in DOMAIN edges THEN node_list
                  ELSE Append(node_list, waiter)

\* Drop the edges out of txn and into it, then the keys left without edges.
Without(txn) == [t \in DOMAIN edges \ {txn} |->
                   SelectSeq(edges[t], LAMBDA h : h # txn)]

\* Broken variant: waiters left without edges stay in the key list.
BadRemoveTxn(txn) ==
  LET rest == Without(txn)
  IN  /\ edges' = [t \in {u \in DOMAIN rest : rest[u] # <<>>} |-> rest[t]]
      /\ node_list' = SelectSeq(node_list, LAMBDA t : t # txn)

RemoveTxn(txn) ==
  LET rest == Without(txn)
      kept == {t \in DOMAIN rest : rest[t] # <<>>}
  IN  /\ edges' = [t \in kept |-> rest[t]]
      /\ node_list' = SelectSeq(node_list, LAMBDA t : t \in kept)

-----------------------------------------------------------------------------
(* has_cycle *)

\* The search threads the visited set and the recursion stack; cycle is the
\* pair it returns, empty while none is found.
Searches == [visited : SUBSET Txns, stack : SUBSET Txns, cycle : SUBSET Txns]
NoSearch == [visited |-> {}, stack |-> {}, cycle |-> {}]

\* A call of the search marks its node; one that finds nothing unmarks the stack.
Enter(node, s) == [s EXCEPT !.visited = @ \cup {node}, !.stack = @ \cup {node}]
Leave(node, s) == IF s.cycle # {} THEN s ELSE [s EXCEPT !.stack = @ \ {node}]

\* The neighbours of node in order, up to the first cycle.
Explore[node \in Txns, neighbors \in Seq(Txns), s \in Searches] ==
  IF neighbors = <<>> \/ s.cycle # {} THEN s
  ELSE LET n == Head(neighbors)
           next == IF n \notin s.visited
                   THEN Leave(n, Explore[n, Holders(n), Enter(n, s)])
                   ELSE IF n \in s.stack THEN [s EXCEPT !.cycle = {node, n}]
                   ELSE s
       IN  Explore[node, Tail(neighbors), next]

Dfs(node, s) == Leave(node, Explore[node, Holders(node), Enter(node, s)])

\* Broken variant: a victim from all that was visited.
BadHasCycleVictim ==
  LET From(s, t) == IF s.cycle # {} \/ t \in s.visited THEN s ELSE Dfs(t, s)
      search == FoldLeft(From, NoSearch, node_list)
  IN  IF search.cycle = {} THEN None ELSE Max(search.visited)

\* From every key in turn that no earlier search has visited; the victim is the
\* larger id of the pair.
HasCycle ==
  LET From(s, t) == IF s.cycle # {} \/ t \in s.visited THEN s ELSE Dfs(t, s)
      found == FoldLeft(From, NoSearch, node_list).cycle
  IN  IF found = {} THEN None ELSE Max(found)

-----------------------------------------------------------------------------
AbortVictim == HasCycle # None /\ RemoveTxn(HasCycle)

GraphNext ==
  \/ \E w, h \in Txns : w # h /\ AddWait(w, h)
  \/ \E t \in Txns : RemoveTxn(t)
  \/ AbortVictim

-----------------------------------------------------------------------------
(* Properties *)

\* The key list and the map agree: no key twice, none without edges.
GraphTypeOK ==
  /\ DOMAIN edges \subseteq Txns
  /\ \A t \in DOMAIN edges :
       /\ edges[t] # <<>> /\ IsInjective(edges[t])
       /\ ToSet(edges[t]) \subseteq Txns \ {t}
  /\ IsInjective(node_list) /\ ToSet(node_list) = DOMAIN edges

\* Waiters that wait for each other only, through members of S.
Closed(S) == S # {} /\ \A t \in S : ToSet(Holders(t)) \cap S # {}

\* The search with one visited set for all starting points misses no deadlock
\* and reports none that is not there.
DetectsExactly == HasCycle # None <=> \E S \in SUBSET Txns : Closed(S)

\* The transactions reachable from t along edges.
Reachable(t) ==
  LET R[n \in 0..Cardinality(Txns)] ==
        IF n = 0 THEN ToSet(Holders(t))
        ELSE R[n - 1] \cup UNION {ToSet(Holders(u)) : u \in R[n - 1]}
  IN  R[Cardinality(Txns)]

\* The transaction the detector ends is itself part of a deadlock, so ending it
\* breaks one: a transaction only waiting behind a cycle is never the victim.
VictimOnCycle == HasCycle # None => HasCycle \in Reachable(HasCycle)
=============================================================================
