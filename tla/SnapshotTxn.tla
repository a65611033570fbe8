----------------------------- MODULE SnapshotTxn -----------------------------
(* What the transaction manager promises: a transaction runs on the set of
   transactions that were committed when it began, and its own outcome is
   decided once, in one step, for everybody. *)
EXTENDS Naturals

CONSTANT Txns

VARIABLES
  phase,   \* "idle", "running", "Committed" or "Aborted"
  snap     \* the transactions whose effects it sees

svars == <<phase, snap>>

Init ==
  /\ phase = [t \in Txns |-> "idle"]
  /\ snap = [t \in Txns |-> {}]

Begin(t) ==
  /\ phase[t] = "idle"
  /\ phase' = [phase EXCEPT ![t] = "running"]
  /\ snap' = [snap EXCEPT ![t] = {u \in Txns : phase[u] = "Committed"}]

Decide(t, outcome) ==
  /\ phase[t] = "running"
  /\ phase' = [phase EXCEPT ![t] = outcome]
  /\ UNCHANGED snap

Next == \E t \in Txns : Begin(t) \/ Decide(t, "Committed") \/ Decide(t, "Aborted")

Spec == Init /\ [][Next]_svars
=============================================================================
