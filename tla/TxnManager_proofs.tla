------------------------- MODULE TxnManager_proofs -------------------------
(* Theorems about TxnManager, for every number of transactions, rows, undo
   entries and statements. *)
EXTENDS TxnManager, Induction

-----------------------------------------------------------------------------
(* Type correctness *)

\* A call in progress that moves on to another step stays a well-formed call.
LEMMA GotoType ==
  ASSUME CallTypeOK, op.kind \in {"commit", "abort"}, NEW pc \in Steps, Goto(pc)
  PROVE  CallTypeOK'
<1>1. op \in Calls
  BY DEF CallTypeOK, Idle
<1> QED
  BY <1>1 DEF Goto, Calls, CallTypeOK

\* A new call on a known transaction is well formed.
LEMMA CallType ==
  ASSUME NEW kind \in {"begin", "commit", "abort"}, NEW t \in TxnIds, NEW pc \in Steps,
         NEW by \in {"owner", "sweeper", "detector"},
         op' = Call(kind, t, pc, by)
  PROVE  CallTypeOK'
  BY DEF Call, Calls, CallTypeOK

\* The transaction of a call in progress is a known one.
LEMMA OpTxn == ASSUME CallTypeOK, op.kind # "none" PROVE op.txn \in TxnIds
  BY DEF CallTypeOK, Idle, Calls

\* What a step leaves alone keeps its type.
LEMMA TypeKept ==
  /\ TableTypeOK /\ UNCHANGED lifecycle => TableTypeOK'
  /\ UndoTypeOK /\ UNCHANGED undoVars => UndoTypeOK'
  /\ WalTypeOK /\ UNCHANGED walVars => WalTypeOK'
  /\ ClientTypeOK /\ UNCHANGED clientVars => ClientTypeOK'
  /\ SharedTypeOK /\ UNCHANGED <<clog, locks, waits, doomed>> => SharedTypeOK'
  /\ CallTypeOK /\ op' \in {op, Idle} => CallTypeOK'
<1>1. TableTypeOK /\ UNCHANGED lifecycle => TableTypeOK'
  BY DEF TableTypeOK, lifecycle
<1>2. UndoTypeOK /\ UNCHANGED undoVars => UndoTypeOK'
  BY DEF UndoTypeOK, undoVars
<1>3. WalTypeOK /\ UNCHANGED walVars => WalTypeOK'
  BY DEF WalTypeOK, walVars
<1>4. ClientTypeOK /\ UNCHANGED clientVars => ClientTypeOK'
  BY DEF ClientTypeOK, clientVars
<1>5. SharedTypeOK /\ UNCHANGED <<clog, locks, waits, doomed>> => SharedTypeOK'
  BY DEF SharedTypeOK
<1>6. CallTypeOK /\ op' \in {op, Idle} => CallTypeOK'
  BY DEF CallTypeOK
<1> QED
  BY <1>1, <1>2, <1>3, <1>4, <1>5, <1>6

LEMMA TypeInit == Init => TypeOK
<1> SUFFICES ASSUME Init PROVE TypeOK
  OBVIOUS
<1>1. TableTypeOK
  BY TxnAssumption DEF Init, TableTypeOK, NoActive, TxnStates, TxnIds
<1>2. UndoTypeOK
  BY TxnAssumption DEF Init, UndoTypeOK, NULL_UNDO_PTR
<1>3. WalTypeOK /\ ClientTypeOK /\ CallTypeOK
  BY TxnAssumption DEF Init, WalTypeOK, ClientTypeOK, CallTypeOK, NoTxn
<1>4. SharedTypeOK
  BY TxnAssumption DEF Init, SharedTypeOK, NoTxn, TxnStatus
<1> QED
  BY <1>1, <1>2, <1>3, <1>4 DEF TypeOK

LEMMA TypeBegin == TypeOK /\ (BeginRegister \/ BeginLog) => TypeOK'
<1> SUFFICES ASSUME TypeOK PROVE BeginRegister \/ BeginLog => TypeOK'
  OBVIOUS
<1> USE DEF TypeOK
<1>1. ASSUME BeginRegister PROVE TypeOK'
  <2>1. nextTxnId \in TxnIds
    BY <1>1, TxnAssumption DEF BeginRegister, TxnIds, NoActive, TableTypeOK
  <2>2. ActiveIds \subseteq TxnIds
    BY DEF ActiveIds
  <2>3. TableTypeOK'
    BY <1>1, <2>1, <2>2, TxnAssumption
    DEF BeginRegister, TableTypeOK, NoActive, TxnIds, TxnStates
  <2>4. SharedTypeOK'
    BY <1>1, <2>1 DEF BeginRegister, SharedTypeOK, TxnStatus
  <2>5. CallTypeOK'
    BY <1>1, <2>1, CallType DEF BeginRegister, Steps
  <2> QED
    BY <1>1, <2>3, <2>4, <2>5, TypeKept DEF BeginRegister
<1>2. ASSUME BeginLog PROVE TypeOK'
  <2>1. op.txn \in TxnIds
    BY <1>2, OpTxn DEF BeginLog, At
  <2>2. WalTypeOK'
    BY <1>2, <2>1 DEF BeginLog, WalTypeOK
  <2>3. ClientTypeOK'
    BY <1>2, <2>1 DEF BeginLog, ClientTypeOK
  <2> QED
    BY <1>2, <2>2, <2>3, TypeKept DEF BeginLog
<1> QED
  BY <1>1, <1>2

LEMMA TypeCommit == TypeOK /\ CommitCall => TypeOK'
<1> SUFFICES ASSUME TypeOK, CommitCall PROVE TypeOK'
  OBVIOUS
<1> USE DEF TypeOK
<1>1. op.kind = "commit" /\ op.txn \in TxnIds
  BY OpTxn DEF CommitCall, CommitLog, CommitWait, CommitClog, CommitFinish, At
<1>2. CASE CommitLog
  <2>1. WalTypeOK'
    BY <1>1, <1>2 DEF CommitLog, WalTypeOK
  <2>2. CallTypeOK'
    BY <1>1, <1>2, GotoType, TypeKept DEF CommitLog, Steps
  <2> QED
    BY <1>2, <2>1, <2>2, TypeKept DEF CommitLog
<1>3. CASE CommitWait
  <2>1. WalTypeOK'
    BY <1>3 DEF CommitWait, WalTypeOK
  <2>2. CallTypeOK'
    BY <1>1, <1>3, GotoType, TypeKept DEF CommitWait, Steps
  <2> QED
    BY <1>3, <2>1, <2>2, TypeKept DEF CommitWait
<1>4. CASE CommitClog
  <2>1. SharedTypeOK'
    BY <1>1, <1>4 DEF CommitClog, SharedTypeOK, TxnStatus
  <2>2. CallTypeOK'
    BY <1>1, <1>4, GotoType DEF CommitClog, Steps
  <2> QED
    BY <1>4, <2>1, <2>2, TypeKept DEF CommitClog
<1>5. CASE CommitFinish
  <2>1. TableTypeOK' /\ ClientTypeOK'
    BY <1>1, <1>5 DEF CommitFinish, TableTypeOK, ClientTypeOK, TxnStates
  <2> QED
    BY <1>5, <2>1, TypeKept DEF CommitFinish
<1> QED
  BY <1>2, <1>3, <1>4, <1>5 DEF CommitCall

LEMMA TypeAbort == TypeOK /\ AbortCall => TypeOK'
<1> SUFFICES ASSUME TypeOK, AbortCall PROVE TypeOK'
  OBVIOUS
<1> USE DEF TypeOK
<1>1. op.kind = "abort" /\ op.txn \in TxnIds
  BY OpTxn DEF AbortCall, AbortRollback, AbortFail, AbortLog, AbortClog, AbortFinish, At
<1>2. CASE AbortRollback
  <2>1. CallTypeOK'
    BY <1>1, <1>2, GotoType DEF AbortRollback, Steps
  <2> QED
    BY <1>2, <2>1, TypeKept DEF AbortRollback
<1>3. CASE AbortFail
  BY <1>3, TypeKept DEF AbortFail
<1>4. CASE AbortLog
  <2>1. WalTypeOK'
    BY <1>1, <1>4 DEF AbortLog, WalTypeOK
  <2>2. CallTypeOK'
    BY <1>1, <1>4, GotoType DEF AbortLog, Steps
  <2> QED
    BY <1>4, <2>1, <2>2, TypeKept DEF AbortLog
<1>5. CASE AbortClog
  <2>1. SharedTypeOK'
    BY <1>1, <1>5 DEF AbortClog, SharedTypeOK, TxnStatus
  <2>2. CallTypeOK'
    BY <1>1, <1>5, GotoType DEF AbortClog, Steps
  <2> QED
    BY <1>5, <2>1, <2>2, TypeKept DEF AbortClog
<1>6. CASE AbortFinish
  <2>1. TableTypeOK' /\ ClientTypeOK'
    BY <1>1, <1>6 DEF AbortFinish, TableTypeOK, ClientTypeOK, TxnStates
  <2> QED
    BY <1>6, <2>1, TypeKept DEF AbortFinish
<1> QED
  BY <1>2, <1>3, <1>4, <1>5, <1>6 DEF AbortCall

LEMMA TypeRelease == TypeOK /\ (ReleaseLocks \/ RemoveFromGraph) => TypeOK'
<1> SUFFICES ASSUME TypeOK PROVE ReleaseLocks \/ RemoveFromGraph => TypeOK'
  OBVIOUS
<1> USE DEF TypeOK
<1>1. ASSUME ReleaseLocks PROVE TypeOK'
  <2>1. SharedTypeOK'
    BY <1>1, TxnAssumption DEF ReleaseLocks, SharedTypeOK, NoTxn
  <2>2. CallTypeOK'
    BY <1>1, GotoType DEF ReleaseLocks, Steps
  <2> QED
    BY <1>1, <2>1, <2>2, TypeKept DEF ReleaseLocks
<1>2. ASSUME RemoveFromGraph PROVE TypeOK'
  <2>1. SharedTypeOK'
    BY <1>2 DEF RemoveFromGraph, SharedTypeOK
  <2>2. CallTypeOK'
    BY <1>2, GotoType DEF RemoveFromGraph, Steps
  <2> QED
    BY <1>2, <2>1, <2>2, TypeKept DEF RemoveFromGraph
<1> QED
  BY <1>1, <1>2

LEMMA TypeAbortStart ==
  ASSUME TypeOK, NEW t \in TxnIds, NEW by \in {"owner", "sweeper", "detector"},
         AbortStart(t, by)
  PROVE  TableTypeOK' /\ UndoTypeOK' /\ WalTypeOK' /\ CallTypeOK'
<1>1. TableTypeOK'
  BY DEF TypeOK, AbortStart, TableTypeOK, TxnStates
<1>2. CallTypeOK'
  BY CallType DEF AbortStart, Steps
<1> QED
  BY <1>1, <1>2, TypeKept DEF TypeOK, AbortStart

LEMMA TypeSession == ASSUME TypeOK, NEW t \in TxnIds, Session(t) PROVE TypeOK'
<1> USE DEF TypeOK
<1>1. CASE CommitStart(t)
  <2>1. TableTypeOK'
    BY <1>1 DEF CommitStart, TableTypeOK, TxnStates
  <2>2. CallTypeOK'
    BY <1>1, CallType DEF CommitStart, Steps
  <2> QED
    BY <1>1, <2>1, <2>2, TypeKept DEF CommitStart
<1>2. CASE OwnerAbort(t)
  <2>1. ClientTypeOK'
    BY <1>2, TxnAssumption DEF OwnerAbort, AbortStart, ClientTypeOK, NoTxn
  <2>2. SharedTypeOK'
    BY <1>2 DEF OwnerAbort, AbortStart, SharedTypeOK
  <2> QED
    BY <1>2, <2>1, <2>2, TypeAbortStart DEF OwnerAbort
<1>3. CASE AdvanceCmdId(t)
  <2>1. TableTypeOK'
    BY <1>3, TxnAssumption DEF AdvanceCmdId, TableTypeOK
  <2> QED
    BY <1>3, <2>1, TypeKept DEF AdvanceCmdId
<1>4. CASE AddWaitEdge(t)
  <2>1. told[t] \in TxnIds
    BY <1>4, TxnAssumption DEF AddWaitEdge, TxnIds, NoTxn, ClientTypeOK
  <2>2. ClientTypeOK' /\ SharedTypeOK'
    BY <1>4, <2>1, TxnAssumption DEF AddWaitEdge, ClientTypeOK, SharedTypeOK, NoTxn
  <2> QED
    BY <1>4, <2>2, TypeKept DEF AddWaitEdge
<1>5. ASSUME NEW r \in Rows, CheckConflictOk(t, r) PROVE TypeOK'
  <2>1. ClientTypeOK'
    BY <1>5 DEF CheckConflictOk, ClientTypeOK
  <2>2. SharedTypeOK'
    BY <1>5, TxnAssumption DEF CheckConflictOk, SharedTypeOK, TxnIds
  <2> QED
    BY <1>5, <2>1, <2>2, TypeKept DEF CheckConflictOk
<1>6. ASSUME NEW r \in Rows, CheckConflictErr(t, r) PROVE TypeOK'
  <2>1. ClientTypeOK'
    BY <1>6 DEF CheckConflictErr, ClientTypeOK, SharedTypeOK
  <2> QED
    BY <1>6, <2>1, TypeKept DEF CheckConflictErr
<1>7. ASSUME NEW body \in UndoBodies, RecordUndo(t, body) PROVE TypeOK'
  <2> DEFINE e == [txn |-> t, prev |-> undoPtr[t], body |-> body]
  <2>1. e \in UndoEntries
    BY DEF UndoEntries, UndoTypeOK
  <2>2. undoLog' = Append(undoLog, e) /\ undoPtr' = [undoPtr EXCEPT ![t] = Len(undoLog) + 1]
    BY <1>7 DEF RecordUndo
  <2> HIDE DEF e
  <2>3. undoLog' \in Seq(UndoEntries) /\ Len(undoLog') = Len(undoLog) + 1
    BY <2>1, <2>2 DEF UndoTypeOK
  <2>4. UndoTypeOK'
    BY <2>2, <2>3 DEF UndoTypeOK
  <2> QED
    BY <1>7, <2>4, TypeKept DEF RecordUndo
<1> QED
  BY <1>1, <1>2, <1>3, <1>4, <1>5, <1>6, <1>7 DEF Session

LEMMA TypeThirdParty == TypeOK /\ ThirdParty => TypeOK'
<1> SUFFICES ASSUME TypeOK, ThirdParty PROVE TypeOK'
  OBVIOUS
<1> USE DEF TypeOK
<1>1. ASSUME NEW k \in TxnIds, SweepFind(k) PROVE TypeOK'
  <2>1. SharedTypeOK'
    BY <1>1 DEF SweepFind, SharedTypeOK, ActiveIds
  <2> QED
    BY <1>1, <2>1, TypeKept DEF SweepFind
<1>2. ASSUME NEW k \in TxnIds, DetectDeadlock(k) PROVE TypeOK'
  <2>1. SharedTypeOK'
    BY <1>2 DEF DetectDeadlock, SharedTypeOK
  <2> QED
    BY <1>2, <2>1, TypeKept DEF DetectDeadlock
<1>3. ASSUME NEW t \in TxnIds, NEW by \in Killers, KillNext(t, by) PROVE TypeOK'
  <2>1. by \in {"owner", "sweeper", "detector"}
    BY TxnAssumption
  <2>2. ClientTypeOK'
    BY <1>3 DEF KillNext, AbortStart, ClientTypeOK
  <2>3. SharedTypeOK'
    BY <1>3 DEF KillNext, AbortStart, SharedTypeOK
  <2> QED
    BY <1>3, <2>1, <2>2, <2>3, TypeAbortStart DEF KillNext
<1> QED
  BY <1>1, <1>2, <1>3 DEF ThirdParty

LEMMA TypeNext == TypeOK /\ [Next]_vars => TypeOK'
<1>1. TypeOK /\ UNCHANGED vars => TypeOK'
  BY TypeKept DEF vars, TypeOK
<1> QED
  BY <1>1, TypeBegin, TypeCommit, TypeAbort, TypeRelease, TypeSession, TypeThirdParty
  DEF Next, CallStep

\* The state of the manager keeps its shape in every run, whatever fails and
\* whoever aborts: in particular the head of every undo chain is an entry of the
\* log, and only logged records are durable.
THEOREM TypeCorrect == Spec => []TypeOK
  BY TypeInit, TypeNext, PTL DEF Spec

-----------------------------------------------------------------------------
(* A committed transaction is durable *)

\* CommitDurable is not inductive: while commit is under way the record it wrote
\* must be in the buffer it waits for, and on disk once the wait has returned.
CommitRecord(t) == <<"COMMIT", t>>
DurableInv ==
  /\ CommitDurable
  /\ At("commit", "sync") => CommitRecord(op.txn) \in logged
  /\ At("commit", "clog") /\ ~Async => CommitRecord(op.txn) \in durable

LEMMA DurableInit == Init => DurableInv
  BY DEF Init, DurableInv, CommitDurable, At, Idle

\* The records on disk stay there.
LEMMA DurableGrows == TypeOK /\ [Next]_vars => durable \subseteq durable' /\ logged \subseteq logged'
<1> SUFFICES ASSUME TypeOK, [Next]_vars
             PROVE  durable \subseteq durable' /\ logged \subseteq logged'
  OBVIOUS
<1>1. durable \subseteq logged
  BY DEF TypeOK, WalTypeOK
<1> USE DEF walVars
<1>2. CASE BeginRegister
  BY <1>2 DEF BeginRegister
<1>3. CASE CallStep
  BY <1>1, <1>3 DEF CallStep, BeginLog, CommitCall, CommitLog, CommitWait, CommitClog,
     CommitFinish, AbortCall, AbortRollback, AbortFail, AbortLog, AbortClog, AbortFinish,
     ReleaseLocks, RemoveFromGraph
<1>4. ASSUME NEW t \in TxnIds, Session(t)
      PROVE  durable \subseteq durable' /\ logged \subseteq logged'
  BY <1>4 DEF Session, CommitStart, OwnerAbort, AbortStart, AdvanceCmdId, AddWaitEdge,
     CheckConflictOk, CheckConflictErr, RecordUndo
<1>5. CASE ThirdParty
  BY <1>5 DEF ThirdParty, SweepFind, DetectDeadlock, KillNext, AbortStart
<1> QED
  BY <1>2, <1>3, <1>4, <1>5 DEF Next, vars

\* A step that writes no CLOG entry and does not move a commit on keeps the invariant.
LEMMA DurableKept ==
  ASSUME TypeOK, [Next]_vars, DurableInv, clog' = clog,
         op' = op \/ ~(At("commit", "sync") \/ At("commit", "clog"))'
  PROVE  DurableInv'
<1>1. durable \subseteq durable' /\ logged \subseteq logged'
  BY DurableGrows
<1>2. CommitDurable'
  BY <1>1 DEF DurableInv, CommitDurable
<1> QED
  BY <1>1, <1>2 DEF DurableInv, At, CommitRecord

LEMMA DurableNext == TypeOK /\ DurableInv /\ [Next]_vars => DurableInv'
<1> SUFFICES ASSUME TypeOK, DurableInv, [Next]_vars PROVE DurableInv'
  OBVIOUS
<1> USE DEF At
<1>1. CASE BeginRegister
  <2>1. CommitDurable'
    BY <1>1, DurableGrows DEF BeginRegister, DurableInv, CommitDurable, TypeOK, SharedTypeOK
  <2> QED
    BY <1>1, <2>1 DEF BeginRegister, DurableInv, Call
<1>2. CASE CallStep
  <2>1. CASE CommitLog
    <3>1. /\ CommitDurable'
          /\ ~(At("commit", "clog")')
          /\ At("commit", "sync")' => CommitRecord(op'.txn) \in logged'
      BY <1>2, <2>1, DurableGrows, OpTxn
      DEF CommitLog, DurableInv, CommitDurable, Goto, CommitRecord, Idle, TypeOK,
          CallTypeOK, Calls
    <3> QED
      BY <3>1 DEF DurableInv
  <2>2. CASE CommitWait
    <3>1. CommitDurable'
      BY <2>2, DurableGrows DEF CommitWait, DurableInv, CommitDurable
    <3>2. CASE op' = Idle
      BY <3>1, <3>2 DEF DurableInv, Idle
    <3>3. CASE Goto("clog") /\ durable' = IF Async THEN durable ELSE logged
      <4>1. op' = [op EXCEPT !.pc = "clog"] /\ op.kind = "commit"
        BY <2>2, <3>3 DEF CommitWait, Goto
      <4>2. op \in Calls
        BY <4>1 DEF TypeOK, CallTypeOK, Idle
      <4>3. op'.pc = "clog" /\ op'.txn = op.txn
        BY <4>1, <4>2 DEF Calls
      <4> QED
        BY <2>2, <3>1, <3>3, <4>3 DEF CommitWait, DurableInv, CommitRecord
    <3> QED
      BY <2>2, <3>2, <3>3 DEF CommitWait
  <2>3. CASE CommitClog
    <3>1. CommitDurable'
      BY <2>3 DEF CommitClog, DurableInv, CommitDurable, CommitRecord, TypeOK,
         SharedTypeOK, walVars
    <3>2. op'.pc = "locks"
      BY <2>3 DEF CommitClog, Goto, TypeOK, CallTypeOK, Idle, Calls
    <3> QED
      BY <3>1, <3>2 DEF DurableInv
  <2>4. CASE AbortClog
    <3>1. CommitDurable'
      BY <2>4 DEF AbortClog, DurableInv, CommitDurable, TypeOK, SharedTypeOK, walVars
    <3>2. op'.pc = "locks"
      BY <2>4 DEF AbortClog, Goto, TypeOK, CallTypeOK, Idle, Calls
    <3> QED
      BY <3>1, <3>2 DEF DurableInv
  <2>5. CASE BeginLog \/ CommitFinish \/ AbortFail \/ AbortFinish
    BY <2>5, DurableKept DEF BeginLog, CommitFinish, AbortFail, AbortFinish, Idle
  <2>6. CASE AbortRollback \/ AbortLog \/ ReleaseLocks \/ RemoveFromGraph
    <3>1. op \in Calls
      BY <2>6 DEF AbortRollback, AbortLog, ReleaseLocks, RemoveFromGraph, TypeOK,
         CallTypeOK, Idle
    <3>2. op'.kind # "commit" \/ op'.pc \in {"graph", "state"}
      BY <2>6, <3>1 DEF AbortRollback, AbortLog, ReleaseLocks, RemoveFromGraph, Goto, Calls
    <3> QED
      BY <2>6, <3>2, DurableKept DEF AbortRollback, AbortLog, ReleaseLocks, RemoveFromGraph
  <2> QED
    BY <1>2, <2>1, <2>2, <2>3, <2>4, <2>5, <2>6 DEF CallStep, CommitCall, AbortCall
<1>3. ASSUME NEW t \in TxnIds, Session(t) PROVE DurableInv'
  <2>1. CASE CommitStart(t) \/ OwnerAbort(t)
    <3>1. clog' = clog /\ \E kind, pc : op' = Call(kind, t, pc, "owner") /\ pc \in {"wal", "undo"}
      BY <2>1 DEF CommitStart, OwnerAbort, AbortStart
    <3>2. op'.pc \in {"wal", "undo"}
      BY <3>1 DEF Call
    <3> QED
      BY <3>1, <3>2, DurableKept
  <2>2. CASE ~(CommitStart(t) \/ OwnerAbort(t))
    <3>1. clog' = clog /\ op' = op
      BY <1>3, <2>2 DEF Session, AdvanceCmdId, AddWaitEdge, CheckConflictOk,
         CheckConflictErr, RecordUndo
    <3> QED
      BY <3>1, DurableKept
  <2> QED
    BY <2>1, <2>2
<1>4. CASE ThirdParty
  <2>1. ASSUME NEW k \in TxnIds, SweepFind(k) \/ DetectDeadlock(k) PROVE DurableInv'
    BY <2>1, DurableKept DEF SweepFind, DetectDeadlock
  <2>2. ASSUME NEW t \in TxnIds, NEW by \in Killers, KillNext(t, by) PROVE DurableInv'
    <3>1. clog' = clog /\ op'.pc = "undo"
      BY <2>2 DEF KillNext, AbortStart, Call
    <3> QED
      BY <3>1, DurableKept
  <2> QED
    BY <1>4, <2>1, <2>2 DEF ThirdParty
<1>5. CASE UNCHANGED vars
  BY <1>5, DurableKept DEF vars
<1> QED
  BY <1>1, <1>2, <1>3, <1>4, <1>5 DEF Next

\* Whatever fails and whoever is aborted, no reader finds a transaction committed
\* in the CLOG whose TXN_COMMIT record a crash could still lose, unless group
\* commit runs in async mode.
THEOREM DurableBeforeVisible == Spec => []CommitDurable
<1>1. Init => TypeOK /\ DurableInv
  BY TypeInit, DurableInit
<1>2. TypeOK /\ DurableInv /\ [Next]_vars => (TypeOK /\ DurableInv)'
  BY TypeNext, DurableNext
<1>3. DurableInv => CommitDurable
  BY DEF DurableInv
<1> QED
  BY <1>1, <1>2, <1>3, PTL DEF Spec

-----------------------------------------------------------------------------
(* A row changes hands after the outcome *)

\* When release_locks is reached, the outcome is in the CLOG.
ReleaseInv ==
  op.kind \in {"commit", "abort"} /\ op.pc = "locks" => clog[op.txn] # "InProgress"

LEMMA ReleaseInit == Init => ReleaseInv
  BY DEF Init, Idle, ReleaseInv

LEMMA ReleaseNext == TypeOK /\ ReleaseInv /\ [Next]_vars => ReleaseInv'
<1> SUFFICES ASSUME TypeOK, ReleaseInv, [Next]_vars PROVE ReleaseInv'
  OBVIOUS
<1>1. CASE BeginRegister
  BY <1>1 DEF BeginRegister, ReleaseInv, Call
<1>2. CASE BeginLog \/ CommitFinish \/ AbortFail \/ AbortFinish
  BY <1>2 DEF BeginLog, CommitFinish, AbortFail, AbortFinish, ReleaseInv, Idle
<1>3. CASE CommitLog \/ CommitWait
  <2>1. op'.pc # "locks"
    BY <1>3 DEF CommitLog, CommitWait, At, Goto, Idle, TypeOK, CallTypeOK, Calls
  <2> QED
    BY <2>1 DEF ReleaseInv
<1>4. CASE CommitClog \/ AbortClog
  <2>1. op.txn \in TxnIds /\ op' = [op EXCEPT !.pc = "locks"] /\ op \in Calls
    BY <1>4, OpTxn DEF CommitClog, AbortClog, At, Goto, TypeOK, CallTypeOK, Idle
  <2>2. op'.txn = op.txn
    BY <2>1 DEF Calls
  <2>3. clog'[op.txn] # "InProgress"
    BY <1>4, <2>1 DEF CommitClog, AbortClog, TypeOK, SharedTypeOK
  <2> QED
    BY <2>2, <2>3 DEF ReleaseInv
<1>5. CASE AbortRollback \/ AbortLog \/ ReleaseLocks \/ RemoveFromGraph
  <2>1. op'.pc # "locks"
    BY <1>5 DEF AbortRollback, AbortLog, ReleaseLocks, RemoveFromGraph, At, Goto,
       TypeOK, CallTypeOK, Idle, Calls
  <2> QED
    BY <2>1 DEF ReleaseInv
<1>6. ASSUME NEW t \in TxnIds, Session(t) PROVE ReleaseInv'
  <2>1. CASE CommitStart(t)
    BY <2>1 DEF CommitStart, Call, ReleaseInv
  <2>2. CASE OwnerAbort(t)
    BY <2>2 DEF OwnerAbort, AbortStart, Call, ReleaseInv
  <2>3. CASE ~(CommitStart(t) \/ OwnerAbort(t))
    BY <1>6, <2>3 DEF Session, AdvanceCmdId, AddWaitEdge, CheckConflictOk,
       CheckConflictErr, RecordUndo, ReleaseInv
  <2> QED
    BY <2>1, <2>2, <2>3
<1>7. CASE ThirdParty
  <2>1. ASSUME NEW k \in TxnIds, SweepFind(k) \/ DetectDeadlock(k) PROVE ReleaseInv'
    BY <2>1 DEF SweepFind, DetectDeadlock, ReleaseInv
  <2>2. ASSUME NEW t \in TxnIds, NEW by \in Killers, KillNext(t, by) PROVE ReleaseInv'
    BY <2>2 DEF KillNext, AbortStart, Call, ReleaseInv
  <2> QED
    BY <1>7, <2>1, <2>2 DEF ThirdParty
<1>8. CASE UNCHANGED vars
  BY <1>8 DEF vars, ReleaseInv
<1> QED
  BY <1>1, <1>2, <1>3, <1>4, <1>5, <1>6, <1>7, <1>8
  DEF Next, CallStep, CommitCall, AbortCall

\* The only steps that take a row from its holder are the holder's release.
LEMMA RowsTaken ==
  ASSUME [Next]_vars, NEW r \in Rows, locks[r] # NoTxn, locks'[r] # locks[r], TypeOK
  PROVE  ReleaseLocks /\ locks[r] = op.txn
<1>1. CASE CallStep
  BY <1>1 DEF CallStep, BeginLog, CommitCall, CommitLog, CommitWait, CommitClog,
     CommitFinish, AbortCall, AbortRollback, AbortFail, AbortLog, AbortClog, AbortFinish,
     ReleaseLocks, RemoveFromGraph
<1>2. ASSUME NEW t \in TxnIds, Session(t) PROVE FALSE
  <2>1. PICK q \in Rows : CheckConflictOk(t, q)
    BY <1>2 DEF Session, CommitStart, OwnerAbort, AbortStart, AdvanceCmdId, AddWaitEdge,
       CheckConflictErr, RecordUndo
  <2>2. locks' = [locks EXCEPT ![q] = t] /\ locks[q] \in {NoTxn, t}
    BY <2>1 DEF CheckConflictOk
  <2> QED
    BY <2>2 DEF TypeOK, SharedTypeOK
<1>3. CASE BeginRegister \/ UNCHANGED vars
  BY <1>3 DEF BeginRegister, vars
<1>4. CASE ThirdParty
  BY <1>4 DEF ThirdParty, SweepFind, DetectDeadlock, KillNext, AbortStart
<1> QED
  BY <1>1, <1>2, <1>3, <1>4 DEF Next

\* Whoever ends a transaction, and wherever a call fails, a row is taken from
\* its holder only when the holder's outcome can be read in the CLOG.
THEOREM DecidedBeforeRelease == Spec => ReleaseAfterOutcome
<1>1. Init => TypeOK /\ ReleaseInv
  BY TypeInit, ReleaseInit
<1>2. TypeOK /\ ReleaseInv /\ [Next]_vars => (TypeOK /\ ReleaseInv)'
  BY TypeNext, ReleaseNext
<1>3. TypeOK /\ ReleaseInv /\ [Next]_vars =>
        [\A r \in Rows : locks[r] # NoTxn /\ locks'[r] # locks[r]
                           => clog[locks[r]] # "InProgress"]_vars
  BY RowsTaken DEF ReleaseLocks, ReleaseInv
<1> QED
  BY <1>1, <1>2, <1>3, PTL DEF Spec, ReleaseAfterOutcome
-----------------------------------------------------------------------------
(* Reachability in the wait-for graph *)

Successors(t) == {e[2] : e \in {d \in waits : d[1] = t}}
StepFrom(S) == {e[2] : e \in {d \in waits : d[1] \in S}}

\* R[n] is what t reaches in at most n + 1 steps.
ReachesUpTo(R, t, m) ==
  R = [n \in 0..m |-> IF n = 0 THEN Successors(t) ELSE R[n - 1] \cup StepFrom(R[n - 1])]

\* The recursive definition of OnCycle defines a function.
LEMMA ReachExists ==
  ASSUME NEW t, NEW m \in Nat
  PROVE  \E R : ReachesUpTo(R, t, m)
<1> DEFINE T == {n \in Nat : ~\E R : ReachesUpTo(R, t, n)}
<1>1. SUFFICES ASSUME T # {} PROVE FALSE
  OBVIOUS
<1>2. PICK n \in T : \A k \in T : n <= k
  BY <1>1, LeastNat
<1>3. n # 0
  <2>1. ReachesUpTo([i \in 0..0 |-> Successors(t)], t, 0)
    BY DEF ReachesUpTo
  <2> QED
    BY <2>1, <1>2
<1>4. n - 1 \in Nat /\ n - 1 \notin T
  BY <1>2, <1>3
<1>5. PICK R : ReachesUpTo(R, t, n - 1)
  BY <1>4
<1> DEFINE Q == [i \in 0..n |-> IF i = n THEN R[n - 1] \cup StepFrom(R[n - 1]) ELSE R[i]]
<1>6. ReachesUpTo(Q, t, n)
  <2>1. \A i \in 0..n : Q[i] = IF i = 0 THEN Successors(t) ELSE Q[i - 1] \cup StepFrom(Q[i - 1])
    <3> SUFFICES ASSUME NEW i \in 0..n
                 PROVE  Q[i] = IF i = 0 THEN Successors(t) ELSE Q[i - 1] \cup StepFrom(Q[i - 1])
      OBVIOUS
    <3>1. \A j \in 0..n - 1 : R[j] = IF j = 0 THEN Successors(t) ELSE R[j - 1] \cup StepFrom(R[j - 1])
      BY <1>5 DEF ReachesUpTo
    <3>2. CASE i = n
      BY <1>3, <1>4, <3>2
    <3>3. CASE i # n
      <4>1. i \in 0..n - 1 /\ (i # 0 => i - 1 \in 0..n /\ i - 1 # n)
        BY <3>3, <1>4
      <4>2. Q[i] = R[i] /\ (i # 0 => Q[i - 1] = R[i - 1])
        BY <3>3, <4>1
      <4>3. R[i] = IF i = 0 THEN Successors(t) ELSE R[i - 1] \cup StepFrom(R[i - 1])
        BY <3>1, <4>1
      <4> HIDE DEF Q
      <4> QED
        BY <4>2, <4>3
    <3> QED
      BY <3>2, <3>3
  <2> QED
    BY <2>1 DEF ReachesUpTo
<1> QED
  BY <1>6, <1>2

Reaches(t) == CHOOSE R : ReachesUpTo(R, t, MaxTxn)

LEMMA ReachesDef == \A t : ReachesUpTo(Reaches(t), t, MaxTxn)
  BY ReachExists, TxnAssumption DEF Reaches

LEMMA OnCycleReaches == \A t : OnCycle(t) <=> t \in Reaches(t)[MaxTxn]
  BY DEF OnCycle, Reaches, ReachesUpTo, Successors, StepFrom

\* What Reaches(t) is, entry by entry.
LEMMA ReachesAt ==
  ASSUME NEW t
  PROVE  /\ Reaches(t)[0] = Successors(t)
         /\ \A n \in 1..MaxTxn : Reaches(t)[n] = Reaches(t)[n - 1] \cup StepFrom(Reaches(t)[n - 1])
<1> DEFINE R == Reaches(t)
<1>1. R = [n \in 0..MaxTxn |-> IF n = 0 THEN Successors(t) ELSE R[n - 1] \cup StepFrom(R[n - 1])]
  BY ReachesDef DEF ReachesUpTo
<1>2. MaxTxn \in Nat
  BY TxnAssumption
<1> HIDE DEF R
<1>3. ASSUME NEW n \in 0..MaxTxn
      PROVE  R[n] = IF n = 0 THEN Successors(t) ELSE R[n - 1] \cup StepFrom(R[n - 1])
  BY <1>1, Zenon
<1>4. R[0] = Successors(t)
  <2>1. 0 \in 0..MaxTxn
    BY <1>2
  <2> QED
    BY <1>3, <2>1, Zenon
<1>5. ASSUME NEW n \in 1..MaxTxn PROVE R[n] = R[n - 1] \cup StepFrom(R[n - 1])
  <2>1. n \in 0..MaxTxn /\ n # 0
    BY <1>2
  <2> QED
    BY <1>3, <2>1
<1> QED
  BY <1>4, <1>5 DEF R

LEMMA ReachesFirst ==
  ASSUME NEW t, NEW n \in 0..MaxTxn
  PROVE  Successors(t) \subseteq Reaches(t)[n]
<1> DEFINE T == {k \in 0..MaxTxn : ~(Successors(t) \subseteq Reaches(t)[k])}
<1>1. SUFFICES ASSUME T # {} PROVE FALSE
  OBVIOUS
<1>2. T \subseteq Nat
  BY TxnAssumption
<1>3. PICK k \in T : \A j \in T : k <= j
  BY <1>1, <1>2, LeastNat
<1>4. k \in 0..MaxTxn /\ ~(Successors(t) \subseteq Reaches(t)[k])
  BY <1>3
<1>5. k # 0
  BY <1>4, ReachesAt
<1>6. k \in 1..MaxTxn /\ k - 1 \in 0..MaxTxn /\ k - 1 \notin T
  BY <1>3, <1>4, <1>5, TxnAssumption
<1> QED
  BY <1>4, <1>6, ReachesAt

Edges == waits \subseteq TxnIds \X TxnIds

LEMMA Edge ==
  ASSUME Edges, NEW S, NEW u
  PROVE  /\ u \in StepFrom(S) <=> \E v \in S : <<v, u>> \in waits
         /\ \A t : u \in Successors(t) <=> <<t, u>> \in waits
<1>1. \A d \in waits : d = <<d[1], d[2]>>
  BY DEF Edges
<1>2. \A v : <<v, u>>[1] = v /\ <<v, u>>[2] = u
  OBVIOUS
<1>3. u \in StepFrom(S) <=> \E v \in S : <<v, u>> \in waits
  BY <1>1, <1>2, Zenon DEF StepFrom
<1>4. ASSUME NEW t PROVE u \in Successors(t) <=> <<t, u>> \in waits
  BY <1>1, <1>2, Zenon DEF Successors
<1> QED
  BY <1>3, <1>4

\* Whatever t reaches, one of its successors reaches in one step less.
LEMMA ReachesThroughSuccessor ==
  ASSUME Edges, NEW t, NEW n \in 0..MaxTxn, NEW u \in Reaches(t)[n]
  PROVE  <<t, u>> \in waits \/ (n > 0 /\ \E h : <<t, h>> \in waits /\ u \in Reaches(h)[n - 1])
<1> DEFINE Via(k, v) == k > 0 /\ \E h : <<t, h>> \in waits /\ v \in Reaches(h)[k - 1]
           T == {k \in 0..MaxTxn : \E v \in Reaches(t)[k] : <<t, v>> \notin waits /\ ~Via(k, v)}
<1>1. SUFFICES ASSUME T # {} PROVE FALSE
  OBVIOUS
<1>2. T \subseteq Nat
  BY TxnAssumption
<1>3. PICK k \in T : \A j \in T : k <= j
  <2> HIDE DEF T
  <2> QED
    BY <1>1, <1>2, LeastNat
<1>4. PICK v \in Reaches(t)[k] : <<t, v>> \notin waits /\ ~Via(k, v)
  BY <1>3
<1>5. k \in 0..MaxTxn /\ k # 0
  BY <1>3, <1>4, ReachesAt, Edge
<1>6. k \in 1..MaxTxn /\ k - 1 \in 0..MaxTxn /\ k - 1 \notin T
  <2> HIDE DEF T
  <2>1. k \in 1..MaxTxn /\ k - 1 \in 0..MaxTxn /\ ~(k <= k - 1)
    BY <1>5, TxnAssumption
  <2> QED
    BY <1>3, <2>1
<1>7. \A w \in Reaches(t)[k - 1] : <<t, w>> \in waits \/ Via(k - 1, w)
  BY <1>6
<1>8. \A h : StepFrom(Reaches(h)[k - 1]) \subseteq Reaches(h)[k]
  BY <1>6, ReachesAt
<1>9. \A h : k - 1 > 0 => /\ Reaches(h)[k - 2] \subseteq Reaches(h)[k - 1]
                          /\ StepFrom(Reaches(h)[k - 2]) \subseteq Reaches(h)[k - 1]
  <2> SUFFICES ASSUME NEW h, k - 1 > 0
               PROVE  /\ Reaches(h)[k - 2] \subseteq Reaches(h)[k - 1]
                      /\ StepFrom(Reaches(h)[k - 2]) \subseteq Reaches(h)[k - 1]
    OBVIOUS
  <2>1. k - 1 \in 1..MaxTxn /\ (k - 1) - 1 = k - 2
    BY <1>6
  <2>2. Reaches(h)[k - 1] = Reaches(h)[(k - 1) - 1] \cup StepFrom(Reaches(h)[(k - 1) - 1])
    BY <2>1, ReachesAt
  <2> QED
    BY <2>1, <2>2
<1>11. Reaches(t)[k] = Reaches(t)[k - 1] \cup StepFrom(Reaches(t)[k - 1])
  BY <1>6, ReachesAt
<1>12. CASE v \in Reaches(t)[k - 1]
  <2>1. Via(k - 1, v)
    BY <1>4, <1>7, <1>12
  <2>2. k - 1 > 0 /\ (k - 1) - 1 = k - 2
    BY <1>6, <2>1
  <2>3. PICK h : <<t, h>> \in waits /\ v \in Reaches(h)[k - 2]
    BY <2>1, <2>2
  <2>4. v \in Reaches(h)[k - 1]
    BY <1>9, <2>2, <2>3
  <2> QED
    BY <1>4, <1>5, <2>3, <2>4
<1>13. ASSUME NEW w \in Reaches(t)[k - 1], <<w, v>> \in waits PROVE FALSE
  <2>1. CASE <<t, w>> \in waits
    <3>1. v \in Successors(w)
      BY <1>13, Edge
    <3>2. v \in Reaches(w)[k - 1]
      BY <1>6, <3>1, ReachesFirst
    <3> QED
      BY <1>4, <1>5, <2>1, <3>2
  <2>2. CASE Via(k - 1, w)
    <3>2. k - 1 > 0 /\ (k - 1) - 1 = k - 2
      BY <1>6, <2>2
    <3>3. PICK h : <<t, h>> \in waits /\ w \in Reaches(h)[k - 2]
      BY <2>2, <3>2
    <3>4. v \in StepFrom(Reaches(h)[k - 2])
      BY <1>13, <3>3, Edge
    <3>5. v \in Reaches(h)[k - 1]
      BY <1>9, <3>2, <3>4
    <3> QED
      BY <1>4, <1>5, <3>3, <3>5
  <2> QED
    BY <1>7, <2>1, <2>2
<1> QED
  BY <1>4, <1>11, <1>12, <1>13, Edge

\* Who is on a cycle waits for somebody on a cycle.
LEMMA CycleGoesOn ==
  ASSUME Edges, NEW t, OnCycle(t)
  PROVE  \E h \in TxnIds : <<t, h>> \in waits /\ OnCycle(h)
<1>1. t \in Reaches(t)[MaxTxn]
  BY OnCycleReaches
<1>2. MaxTxn \in 0..MaxTxn /\ MaxTxn \in 1..MaxTxn
  BY TxnAssumption
<1>3. CASE <<t, t>> \in waits
  BY <1>3 DEF Edges
<1>4. ASSUME NEW h, <<t, h>> \in waits, t \in Reaches(h)[MaxTxn - 1]
      PROVE  h \in TxnIds /\ OnCycle(h)
  <2>1. h \in StepFrom(Reaches(h)[MaxTxn - 1])
    BY <1>4, Edge
  <2>2. h \in Reaches(h)[MaxTxn]
    BY <1>2, <2>1, ReachesAt
  <2> QED
    BY <1>4, <2>2, OnCycleReaches DEF Edges
<1> QED
  BY <1>1, <1>2, <1>3, <1>4, ReachesThroughSuccessor
-----------------------------------------------------------------------------
(* The detector accuses no one wrongly *)

Known(t) == state[t] # "None"
WaitsFor(t, h) == blocked[t] # NoRow /\ locks[blocked[t]] = h

\* Ids are registered before anybody uses them, and a call that ends a
\* transaction has taken it out of the active ones.
KnownInv ==
  /\ \A t \in TxnIds : Known(t) <=> t < nextTxnId
  /\ \A t \in TxnIds : owner[t] = "open" => Known(t)
  /\ op.kind # "none" => Known(op.txn)
  /\ op.kind \in {"commit", "abort"} => state[op.txn] \in {"Committing", "Aborting"}
  /\ \A r \in Rows : locks[r] # NoTxn => Known(locks[r])

\* What a session was told, and reported, is true as long as nobody involved is ending.
ToldInv ==
  \A t \in TxnIds : told[t] # NoTxn =>
    /\ told[t] # t /\ Known(told[t]) /\ Known(t)
    /\ state[t] = "Active" /\ state[told[t]] = "Active" => WaitsFor(t, told[t])
EdgeInv ==
  \A t, h \in TxnIds : <<t, h>> \in waits =>
    /\ t # h /\ Known(t) /\ Known(h)
    /\ state[t] = "Active" /\ state[h] = "Active" => WaitsFor(t, h)

WaitInv == KnownInv /\ ToldInv /\ EdgeInv

LEMMA WaitInit == Init => WaitInv
<1> SUFFICES ASSUME Init PROVE WaitInv
  OBVIOUS
<1>1. KnownInv
  BY DEF Init, KnownInv, Known, Idle, TxnIds, NoTxn
<1> QED
  BY <1>1 DEF Init, WaitInv, ToldInv, EdgeInv

\* A call in progress only moves its own transaction's state; a transaction
\* becomes active once, when it is registered.
LEMMA StatesMove ==
  ASSUME TypeOK, KnownInv, [Next]_vars, NEW t \in TxnIds
  PROVE  /\ Known(t) => Known(t)'
         /\ state'[t] = "Active" => state[t] = "Active" \/ ~Known(t)
<1> USE DEF Known
<1>1. CASE BeginRegister
  <2>1. nextTxnId \in TxnIds
    BY <1>1, TxnAssumption DEF BeginRegister, TxnIds, TypeOK, TableTypeOK, NoActive
  <2>2. ~Known(nextTxnId)
    BY <2>1 DEF KnownInv, TxnIds
  <2> QED
    BY <1>1, <2>1, <2>2 DEF BeginRegister, TypeOK, TableTypeOK
<1>2. CASE CommitFinish \/ AbortFinish
  BY <1>2 DEF CommitFinish, AbortFinish, TypeOK, TableTypeOK
<1>3. ASSUME NEW u \in TxnIds, CommitStart(u) \/ (\E by : AbortStart(u, by))
      PROVE  /\ Known(t) => Known(t)'
             /\ state'[t] = "Active" => state[t] = "Active" \/ ~Known(t)
  BY <1>3 DEF CommitStart, AbortStart, TypeOK, TableTypeOK
<1>4. CASE state' = state
  BY <1>4
<1>5. CASE CallStep
  BY <1>2, <1>4, <1>5 DEF CallStep, BeginLog, CommitCall, CommitLog, CommitWait, CommitClog,
     AbortCall, AbortRollback, AbortFail, AbortLog, AbortClog, ReleaseLocks, RemoveFromGraph,
     lifecycle
<1>6. ASSUME NEW u \in TxnIds, Session(u)
      PROVE  state' = state \/ CommitStart(u) \/ (\E by : AbortStart(u, by))
  BY <1>6 DEF Session, OwnerAbort, AdvanceCmdId, AddWaitEdge,
     CheckConflictOk, CheckConflictErr, RecordUndo, lifecycle
<1>7. CASE ThirdParty
  BY <1>3, <1>4, <1>7 DEF ThirdParty, SweepFind, DetectDeadlock, KillNext, lifecycle
<1> QED
  BY <1>1, <1>3, <1>4, <1>5, <1>6, <1>7 DEF Next, vars, lifecycle

\* A row that is not free has a new holder only when the old one is ending.
LEMMA HoldersMove ==
  ASSUME TypeOK, KnownInv, [Next]_vars, NEW r \in Rows, locks[r] # NoTxn,
         state[locks[r]] = "Active"
  PROVE  locks'[r] = locks[r]
<1>1. SUFFICES ASSUME locks'[r] # locks[r] PROVE FALSE
  OBVIOUS
<1>2. ReleaseLocks /\ locks[r] = op.txn
  BY <1>1, RowsTaken
<1> QED
  BY <1>2 DEF ReleaseLocks, KnownInv

LEMMA KnownNext == TypeOK /\ KnownInv /\ [Next]_vars => KnownInv'
<1> SUFFICES ASSUME TypeOK, KnownInv, [Next]_vars PROVE KnownInv'
  OBVIOUS
<1> DEFINE Same == state' = state /\ nextTxnId' = nextTxnId
           Ids == \A t \in TxnIds : Known(t) <=> t < nextTxnId
           Owners == \A t \in TxnIds : owner[t] = "open" => Known(t)
           CallKnown == op.kind # "none" => Known(op.txn)
           CallEnds == op.kind \in {"commit", "abort"} => state[op.txn] \in {"Committing", "Aborting"}
           Holders == \A r \in Rows : locks[r] # NoTxn => Known(locks[r])
<1>1. Ids /\ Owners /\ CallKnown /\ CallEnds /\ Holders
  BY DEF KnownInv
<1>2. \A t \in TxnIds : Known(t) => Known(t)'
  BY StatesMove
<1>3. /\ op.kind # "none" => op.txn \in TxnIds
      /\ \A r \in Rows : locks[r] # NoTxn => locks[r] \in TxnIds
  BY OpTxn, TxnAssumption DEF TypeOK, SharedTypeOK, TxnIds, NoTxn
<1>4. (Ids /\ Owners /\ CallKnown /\ CallEnds /\ Holders)' => KnownInv'
  BY DEF KnownInv
<1> USE DEF Known
<1>5. CASE BeginRegister
  <2>1. nextTxnId \in TxnIds /\ nextTxnId' = nextTxnId + 1
    BY <1>5, TxnAssumption DEF BeginRegister, TxnIds, TypeOK, TableTypeOK, NoActive
  <2>2. state' = [state EXCEPT ![nextTxnId] = "Active"]
    BY <1>5 DEF BeginRegister
  <2>3. Ids'
    <3> SUFFICES ASSUME NEW t \in TxnIds
                 PROVE  state'[t] # "None" <=> t < nextTxnId'
      OBVIOUS
    <3>1. t \in Int /\ nextTxnId \in Int
      BY <2>1 DEF TxnIds
    <3>2. state'[t] = IF t = nextTxnId THEN "Active" ELSE state[t]
      BY <2>2 DEF TypeOK, TableTypeOK
    <3> QED
      BY <1>1, <2>1, <3>1, <3>2
  <2>4. Owners' /\ Holders'
    BY <1>1, <1>2, <1>3, <1>5 DEF BeginRegister, clientVars
  <2>5. (CallKnown /\ CallEnds)'
    BY <1>5, <2>1, <2>2 DEF BeginRegister, Call, TypeOK, TableTypeOK
  <2> QED
    BY <1>4, <2>3, <2>4, <2>5
<1>6. CASE BeginLog
  <2>1. Same /\ locks' = locks /\ op' = Idle
    BY <1>6 DEF BeginLog, lifecycle
  <2>2. \A t \in TxnIds : owner'[t] = "open" => owner[t] = "open" \/ t = op.txn
    BY <1>6 DEF BeginLog, TypeOK, ClientTypeOK
  <2>3. Owners'
    BY <1>1, <1>6, <2>1, <2>2 DEF BeginLog, At
  <2> QED
    BY <1>1, <1>4, <2>1, <2>3 DEF Idle
<1>7. CASE CommitFinish \/ AbortFinish
  <2>1. nextTxnId' = nextTxnId /\ locks' = locks /\ op' = Idle
    BY <1>7 DEF CommitFinish, AbortFinish
  <2>2. \A t \in TxnIds : owner'[t] = "open" => owner[t] = "open"
    BY <1>7 DEF CommitFinish, AbortFinish, TypeOK, ClientTypeOK
  <2>3. \A t \in TxnIds : Known(t)' <=> Known(t)
    <3>1. op.txn \in TxnIds /\ Known(op.txn)
      BY <1>1, <1>3, <1>7 DEF CommitFinish, AbortFinish, At
    <3> QED
      BY <1>7, <3>1 DEF CommitFinish, AbortFinish, TypeOK, TableTypeOK
  <2> QED
    BY <1>1, <1>3, <1>4, <2>1, <2>2, <2>3 DEF Idle
<1>8. CASE CommitLog \/ CommitWait \/ CommitClog \/ AbortRollback \/ AbortFail \/ AbortLog
           \/ AbortClog \/ ReleaseLocks \/ RemoveFromGraph
  <2>1. Same /\ owner' = owner
    BY <1>8 DEF CommitLog, CommitWait, CommitClog, AbortRollback, AbortFail, AbortLog,
       AbortClog, ReleaseLocks, RemoveFromGraph, lifecycle, clientVars
  <2>2. \A r \in Rows : locks'[r] \in {locks[r], NoTxn}
    BY <1>8 DEF CommitLog, CommitWait, CommitClog, AbortRollback, AbortFail, AbortLog,
       AbortClog, ReleaseLocks, RemoveFromGraph
  <2>3. op.kind \in {"commit", "abort"} /\ op \in Calls
    BY <1>8 DEF CommitLog, CommitWait, CommitClog, AbortRollback, AbortFail, AbortLog,
       AbortClog, ReleaseLocks, RemoveFromGraph, At, TypeOK, CallTypeOK, Idle
  <2>4. op' = Idle \/ \E pc : Goto(pc)
    BY <1>8 DEF CommitLog, CommitWait, CommitClog, AbortRollback, AbortFail, AbortLog,
       AbortClog, ReleaseLocks, RemoveFromGraph
  <2>5. op'.kind = "none" \/ (op'.kind = op.kind /\ op'.txn = op.txn)
    BY <2>3, <2>4 DEF Idle, Goto, Calls
  <2> QED
    BY <1>1, <1>4, <2>1, <2>2, <2>3, <2>5
<1>9. ASSUME NEW t \in TxnIds, CommitStart(t) \/ \E by : AbortStart(t, by)
      PROVE  KnownInv'
  <2>1. nextTxnId' = nextTxnId /\ owner' = owner /\ locks' = locks
    BY <1>9 DEF CommitStart, AbortStart, clientVars
  <2>2. Known(t) /\ state' \in {[state EXCEPT ![t] = "Committing"], [state EXCEPT ![t] = "Aborting"]}
    BY <1>9 DEF CommitStart, AbortStart
  <2>3. op'.kind \in {"commit", "abort"} /\ op'.txn = t
    BY <1>9 DEF CommitStart, AbortStart, Call
  <2>4. state'[t] \in {"Committing", "Aborting"} /\ \A u \in TxnIds : Known(u)' <=> Known(u)
    BY <2>2 DEF TypeOK, TableTypeOK
  <2> QED
    BY <1>1, <1>3, <1>4, <2>1, <2>3, <2>4
<1>10. ASSUME NEW t \in TxnIds, NEW r \in Rows, CheckConflictOk(t, r) PROVE KnownInv'
  <2>1. Same /\ owner' = owner /\ op' = op /\ Known(t)
    BY <1>1, <1>10 DEF CheckConflictOk, SessionFree, lifecycle
  <2>2. \A q \in Rows : locks'[q] \in {locks[q], t}
    BY <1>10 DEF CheckConflictOk, TypeOK, SharedTypeOK
  <2> QED
    BY <1>1, <1>4, <2>1, <2>2
<1>11. CASE Same /\ UNCHANGED <<owner, op, locks>>
  BY <1>1, <1>4, <1>11
<1>12. ASSUME NEW t \in TxnIds, Session(t) PROVE KnownInv'
  BY <1>9, <1>10, <1>11, <1>12 DEF Session, OwnerAbort, AdvanceCmdId, AddWaitEdge,
     CheckConflictErr, RecordUndo, lifecycle, clientVars
<1>13. CASE ThirdParty
  BY <1>9, <1>11, <1>13 DEF ThirdParty, SweepFind, DetectDeadlock, KillNext, lifecycle, clientVars
<1> QED
  BY <1>5, <1>6, <1>7, <1>8, <1>11, <1>12, <1>13
  DEF Next, vars, lifecycle, clientVars, CallStep, CommitCall, AbortCall

\* Who waits for an active holder keeps waiting for it.
LEMMA WaitKept ==
  ASSUME TypeOK, KnownInv, [Next]_vars, NEW t \in TxnIds, NEW h \in TxnIds,
         WaitsFor(t, h), t # h, Known(t), Known(h),
         state'[t] = "Active", state'[h] = "Active"
  PROVE  WaitsFor(t, h)'
<1>1. state[t] = "Active" /\ state[h] = "Active" /\ h # NoTxn
  BY StatesMove DEF TxnIds, NoTxn
<1>2. blocked[t] \in Rows /\ locks[blocked[t]] = h
  BY DEF WaitsFor, TypeOK, ClientTypeOK
<1>3. locks'[blocked[t]] = h
  BY <1>1, <1>2, HoldersMove
<1>4. blocked'[t] = blocked[t]
  <2>1. ASSUME NEW u \in TxnIds, NEW r \in Rows, CheckConflictOk(u, r) \/ CheckConflictErr(u, r)
        PROVE  blocked'[t] = blocked[t]
    <3>1. CASE u # t
      BY <2>1, <3>1 DEF CheckConflictOk, CheckConflictErr, TypeOK, ClientTypeOK
    <3>2. CASE u = t
      <4>1. blocked[t] = r
        BY <1>2, <2>1, <3>2, TxnAssumption DEF CheckConflictOk, CheckConflictErr
      <4> QED
        BY <1>1, <1>2, <2>1, <3>2, <4>1 DEF CheckConflictOk, CheckConflictErr, TypeOK, ClientTypeOK
    <3> QED
      BY <3>1, <3>2
  <2>2. ASSUME NEW u \in TxnIds, OwnerAbort(u) PROVE blocked'[t] = blocked[t]
    <3>1. u # t
      BY <1>1, <2>2 DEF OwnerAbort, AbortStart, TypeOK, TableTypeOK
    <3> QED
      BY <2>2, <3>1 DEF OwnerAbort, TypeOK, ClientTypeOK
  <2>3. ASSUME NEW u \in TxnIds, Session(u) PROVE blocked'[t] = blocked[t]
    BY <2>1, <2>2, <2>3 DEF Session, CommitStart, AdvanceCmdId, AddWaitEdge, RecordUndo, clientVars
  <2>4. CASE CallStep
    BY <2>4 DEF CallStep, BeginLog, CommitCall, CommitLog, CommitWait, CommitClog, CommitFinish,
       AbortCall, AbortRollback, AbortFail, AbortLog, AbortClog, AbortFinish, ReleaseLocks,
       RemoveFromGraph, clientVars
  <2>5. CASE BeginRegister \/ ThirdParty \/ UNCHANGED vars
    BY <2>5 DEF BeginRegister, ThirdParty, SweepFind, DetectDeadlock, KillNext, AbortStart,
       vars, clientVars
  <2> QED
    BY <2>3, <2>4, <2>5 DEF Next
<1> QED
  BY <1>2, <1>3, <1>4, TxnAssumption DEF WaitsFor

\* What a session was told, and not yet reported, it is told again or was told by
\* a check that refused it just now.
LEMMA ToldMoves ==
  ASSUME TypeOK, [Next]_vars, NEW t \in TxnIds, told'[t] # NoTxn
  PROVE  told'[t] = told[t] \/ \E r \in Rows : CheckConflictErr(t, r)
<1>1. ASSUME NEW u \in TxnIds, NEW r \in Rows, CheckConflictErr(u, r), u # t
      PROVE  told'[t] = told[t]
  BY <1>1 DEF CheckConflictErr, TypeOK, ClientTypeOK
<1>2. ASSUME NEW u \in TxnIds, OwnerAbort(u) \/ AddWaitEdge(u) PROVE told'[t] = told[t]
  BY <1>2 DEF OwnerAbort, AddWaitEdge, TypeOK, ClientTypeOK
<1>3. ASSUME NEW u \in TxnIds, Session(u)
      PROVE  told'[t] = told[t] \/ \E r \in Rows : CheckConflictErr(t, r)
  BY <1>1, <1>2, <1>3 DEF Session, CommitStart, AdvanceCmdId, RecordUndo, CheckConflictOk, clientVars
<1>4. CASE CallStep
  BY <1>4 DEF CallStep, BeginLog, CommitCall, CommitLog, CommitWait, CommitClog, CommitFinish,
     AbortCall, AbortRollback, AbortFail, AbortLog, AbortClog, AbortFinish, ReleaseLocks,
     RemoveFromGraph, clientVars
<1>5. CASE BeginRegister \/ ThirdParty \/ UNCHANGED vars
  BY <1>5 DEF BeginRegister, ThirdParty, SweepFind, DetectDeadlock, KillNext, AbortStart,
     vars, clientVars
<1> QED
  BY <1>3, <1>4, <1>5 DEF Next

LEMMA ToldNext == TypeOK /\ WaitInv /\ [Next]_vars => ToldInv'
<1> SUFFICES ASSUME TypeOK, WaitInv, [Next]_vars, NEW t \in TxnIds, (told[t] # NoTxn)'
             PROVE  (/\ told[t] # t /\ Known(told[t]) /\ Known(t)
                     /\ state[t] = "Active" /\ state[told[t]] = "Active" => WaitsFor(t, told[t]))'
  BY DEF ToldInv
<1>1. CASE told'[t] = told[t]
  <2>1. /\ told[t] \in TxnIds /\ told[t] # t /\ Known(told[t]) /\ Known(t)
        /\ state[t] = "Active" /\ state[told[t]] = "Active" => WaitsFor(t, told[t])
    BY <1>1, TxnAssumption DEF WaitInv, ToldInv, TypeOK, ClientTypeOK, TxnIds, NoTxn
  <2>2. \A u \in TxnIds : Known(u) => Known(u)' /\ (state'[u] = "Active" => state[u] = "Active")
    BY StatesMove DEF WaitInv
  <2>3. ASSUME state'[t] = "Active", state'[told[t]] = "Active" PROVE WaitsFor(t, told[t])'
    BY <1>1, <2>1, <2>2, <2>3, WaitKept DEF WaitInv
  <2>4. Known(told[t])' /\ Known(t)'
    BY <1>1, <2>1, <2>2 DEF Known
  <2> QED
    BY <1>1, <2>1, <2>3, <2>4
<1>2. ASSUME NEW r \in Rows, CheckConflictErr(t, r)
      PROVE  (/\ told[t] # t /\ Known(told[t]) /\ Known(t)
              /\ state[t] = "Active" /\ state[told[t]] = "Active" => WaitsFor(t, told[t]))'
  <2>1. /\ told'[t] = locks[r] /\ blocked'[t] = r /\ locks' = locks /\ state' = state
        /\ locks[r] # t /\ locks[r] # NoTxn /\ owner[t] = "open"
    BY <1>2 DEF CheckConflictErr, SessionFree, lifecycle, TypeOK, ClientTypeOK
  <2>2. Known(t) /\ Known(locks[r])
    BY <2>1 DEF WaitInv, KnownInv
  <2> QED
    BY <2>1, <2>2, TxnAssumption DEF Known, WaitsFor
<1> QED
  BY <1>1, <1>2, ToldMoves

\* A new edge is the one the session was told.
LEMMA EdgesMove ==
  ASSUME [Next]_vars, NEW t \in TxnIds, NEW h \in TxnIds, <<t, h>> \in waits'
  PROVE  <<t, h>> \in waits \/ (AddWaitEdge(t) /\ h = told[t])
<1>1. ASSUME NEW u \in TxnIds, AddWaitEdge(u)
      PROVE  <<t, h>> \in waits \/ (AddWaitEdge(t) /\ h = told[t])
  BY <1>1 DEF AddWaitEdge
<1>2. CASE CallStep
  BY <1>2 DEF CallStep, BeginLog, CommitCall, CommitLog, CommitWait, CommitClog, CommitFinish,
     AbortCall, AbortRollback, AbortFail, AbortLog, AbortClog, AbortFinish, ReleaseLocks,
     RemoveFromGraph
<1>3. CASE BeginRegister \/ ThirdParty \/ UNCHANGED vars
  BY <1>3 DEF BeginRegister, ThirdParty, SweepFind, DetectDeadlock, KillNext, AbortStart, vars
<1>4. ASSUME NEW u \in TxnIds, Session(u)
      PROVE  <<t, h>> \in waits \/ (AddWaitEdge(t) /\ h = told[t])
  BY <1>1, <1>4 DEF Session, CommitStart, OwnerAbort, AbortStart, AdvanceCmdId, RecordUndo,
     CheckConflictOk, CheckConflictErr
<1> QED
  BY <1>2, <1>3, <1>4 DEF Next

LEMMA EdgeNext == TypeOK /\ WaitInv /\ [Next]_vars => EdgeInv'
<1> SUFFICES ASSUME TypeOK, WaitInv, [Next]_vars,
                    NEW t \in TxnIds, NEW h \in TxnIds, <<t, h>> \in waits'
             PROVE  (/\ t # h /\ Known(t) /\ Known(h)
                     /\ state[t] = "Active" /\ state[h] = "Active" => WaitsFor(t, h))'
  BY DEF EdgeInv
<1>1. /\ t # h /\ Known(t) /\ Known(h)
      /\ state[t] = "Active" /\ state[h] = "Active" => WaitsFor(t, h)
  BY EdgesMove DEF AddWaitEdge, WaitInv, EdgeInv, ToldInv
<1>2. \A u \in TxnIds : Known(u) => Known(u)' /\ (state'[u] = "Active" => state[u] = "Active")
  BY StatesMove DEF WaitInv
<1> QED
  BY <1>1, <1>2, WaitKept DEF WaitInv

LEMMA WaitSafe == TypeOK /\ WaitInv => RealDeadlock
<1> SUFFICES ASSUME TypeOK, WaitInv, \A t \in Cyclic : state[t] = "Active", NEW t \in Cyclic
             PROVE  blocked[t] # NoRow /\ locks[blocked[t]] \in Cyclic
  BY DEF RealDeadlock
<1>1. t \in TxnIds /\ OnCycle(t)
  BY DEF Cyclic
<1>2. PICK h \in TxnIds : <<t, h>> \in waits /\ OnCycle(h)
  BY <1>1, CycleGoesOn DEF TypeOK, SharedTypeOK, Edges
<1>3. h \in Cyclic
  BY <1>2 DEF Cyclic
<1>4. WaitsFor(t, h)
  BY <1>1, <1>2, <1>3 DEF WaitInv, EdgeInv
<1> QED
  BY <1>3, <1>4 DEF WaitsFor

\* However sessions are refused, told, and abort, and whoever aborts them behind
\* their backs: as long as nobody on a cycle is ending, everyone on it waits for
\* a row that another one on it holds.
THEOREM DetectorAccusesRightly == Spec => []RealDeadlock
<1>1. Init => TypeOK /\ WaitInv
  BY TypeInit, WaitInit
<1>2. TypeOK /\ WaitInv /\ [Next]_vars => (TypeOK /\ WaitInv)'
  BY TypeNext, KnownNext, ToldNext, EdgeNext DEF WaitInv
<1> QED
  BY <1>1, <1>2, WaitSafe, PTL DEF Spec

-----------------------------------------------------------------------------
(* When only sessions end their transactions (Killers = {}), every outcome is
   decided once and every snapshot is fixed: the manager implements SnapshotTxn,
   and no row stays locked by a transaction that is over. *)

\* t's outcome is in the CLOG and the call that put it there has not returned.
Ending(t) ==
  op.kind \in {"commit", "abort"} /\ op.txn = t /\ op.pc \in {"locks", "graph", "state"}

\* t may still be written Committed: it is active, or commit is before set_status.
MayCommit(t) ==
  \/ state[t] = "Active"
  \/ op.kind = "commit" /\ op.txn = t /\ op.pc \in {"wal", "sync", "clog"}

\* Ids are registered in the order they are handed out.
IdsInv ==
  \A t \in TxnIds :
    /\ state[t] # "None" <=> t < nextTxnId
    /\ state[t] = "None" => owner[t] = "absent" /\ clog[t] = "InProgress"

\* The call in progress is its session's own, and its state says which.
CallInv ==
  /\ op.kind = "begin" => state[op.txn] # "None" /\ owner[op.txn] = "absent"
  /\ op.kind \in {"commit", "abort"} => op.by = "owner" /\ owner[op.txn] = "open"
  /\ op.kind = "commit" => state[op.txn] = "Committing"
  /\ op.kind = "abort" => state[op.txn] = "Aborting"

\* An outcome is known to the session, or about to be.
DecidedInv ==
  \A t \in TxnIds :
    /\ clog[t] # "InProgress" => owner[t] = "closed" \/ Ending(t)
    /\ owner[t] = "closed" <=> state[t] \in {"Committed", "Aborted"}

\* Who may still commit is kept out of every later snapshot by name.
SnapInv ==
  \A t, v \in TxnIds : state[v] # "None" /\ t < v /\ MayCommit(t) => t \in snapActive[v]

\* A lock belongs to an open transaction whose call has not yet released it.
LockInv ==
  \A r \in Rows : locks[r] # NoTxn =>
    /\ owner[locks[r]] = "open"
    /\ ~(op.kind \in {"commit", "abort"} /\ op.txn = locks[r] /\ op.pc \in {"graph", "state"})

OutcomeInv == IdsInv /\ CallInv /\ DecidedInv /\ SnapInv /\ LockInv

LEMMA OutcomeInit == Init => OutcomeInv
<1> SUFFICES ASSUME Init PROVE OutcomeInv
  OBVIOUS
<1>1. \A t \in TxnIds : state[t] = "None" /\ owner[t] = "absent" /\ clog[t] = "InProgress"
  BY DEF Init
<1>2. IdsInv
  BY <1>1, TxnAssumption DEF Init, IdsInv, TxnIds
<1>3. CallInv
  BY DEF Init, CallInv, Idle
<1>4. DecidedInv /\ SnapInv /\ LockInv
  BY <1>1 DEF DecidedInv, SnapInv, LockInv, Init
<1> QED
  BY <1>2, <1>3, <1>4 DEF OutcomeInv

\* Without third parties nobody but begin, the call in progress and the sessions acts.
LEMMA NoThirdParty == Killers = {} => ~ThirdParty
  BY DEF ThirdParty, SweepFind, DetectDeadlock

\* Steps beside the call in progress.
LEMMA OutcomeBeside ==
  ASSUME OutcomeInv, UNCHANGED <<nextTxnId, state, snapActive, clog, owner, locks, op>>
  PROVE  OutcomeInv'
<1>1. IdsInv' /\ CallInv'
  BY DEF OutcomeInv, IdsInv, CallInv
<1>2. DecidedInv'
  BY DEF OutcomeInv, DecidedInv, Ending
<1>3. SnapInv'
  BY DEF OutcomeInv, SnapInv, MayCommit
<1>4. LockInv'
  BY DEF OutcomeInv, LockInv
<1> QED
  BY <1>1, <1>2, <1>3, <1>4 DEF OutcomeInv

\* Up to set_status the call in progress only moves on.
LEMMA OutcomeGoto ==
  ASSUME OutcomeInv,
         \/ op.kind = "commit" /\ op.pc \in {"wal", "sync"}
         \/ op.kind = "abort" /\ op.pc \in {"undo", "wal"},
         op'.kind = op.kind, op'.txn = op.txn, op'.by = op.by,
         op'.pc \in {"wal", "sync", "clog"},
         UNCHANGED <<nextTxnId, state, snapActive, clog, owner, locks>>
  PROVE  OutcomeInv'
<1>2. IdsInv' /\ CallInv'
  BY DEF OutcomeInv, IdsInv, CallInv
<1>3. DecidedInv'
  BY DEF OutcomeInv, DecidedInv, Ending
<1>4. SnapInv'
  BY DEF OutcomeInv, SnapInv, MayCommit
<1>5. LockInv'
  BY DEF OutcomeInv, LockInv
<1> QED
  BY <1>2, <1>3, <1>4, <1>5 DEF OutcomeInv

\* A call that returns with an error leaves the transaction undecided.
LEMMA OutcomeReturn ==
  ASSUME OutcomeInv, op' = Idle, op.kind = "begin" \/ ~Ending(op.txn),
         UNCHANGED <<nextTxnId, state, snapActive, clog, owner, locks>>
  PROVE  OutcomeInv'
<1>1. op'.kind = "none"
  BY DEF Idle
<1>2. IdsInv' /\ CallInv' /\ SnapInv' /\ LockInv'
  BY <1>1 DEF OutcomeInv, IdsInv, CallInv, SnapInv, LockInv, MayCommit
<1>3. DecidedInv'
  BY <1>1 DEF OutcomeInv, DecidedInv, Ending
<1> QED
  BY <1>2, <1>3 DEF OutcomeInv

LEMMA OutcomeBegin ==
  ASSUME TypeOK, OutcomeInv, BeginRegister \/ BeginLog PROVE OutcomeInv'
<1>1. CASE BeginRegister
  <2>1. nextTxnId \in TxnIds /\ nextTxnId' = nextTxnId + 1 /\ TxnIds \subseteq Nat
    BY <1>1, TxnAssumption DEF BeginRegister, TxnIds, NoActive, TypeOK, TableTypeOK
  <2>2. /\ op'.kind = "begin" /\ op'.txn = nextTxnId
        /\ op.kind = "none" /\ op = Idle
    BY <1>1 DEF BeginRegister, Call, Idle
  <2>3. /\ state' = [state EXCEPT ![nextTxnId] = "Active"]
        /\ snapActive' = [snapActive EXCEPT ![nextTxnId] = ActiveIds]
        /\ clog' = [clog EXCEPT ![nextTxnId] = "InProgress"]
        /\ owner' = owner /\ locks' = locks
    BY <1>1 DEF BeginRegister, clientVars
  <2>4. /\ state \in [TxnIds -> TxnStates \cup {"None"}]
        /\ snapActive \in [TxnIds -> SUBSET TxnIds] /\ clog \in [TxnIds -> TxnStatus]
    BY DEF TypeOK, TableTypeOK, SharedTypeOK
  <2>5. state[nextTxnId] = "None" /\ owner[nextTxnId] = "absent" /\ clog[nextTxnId] = "InProgress"
    BY <2>1 DEF OutcomeInv, IdsInv
  <2>6. IdsInv'
    BY <2>1, <2>3, <2>4 DEF OutcomeInv, IdsInv
  <2>7. CallInv'
    BY <2>1, <2>2, <2>3, <2>4, <2>5 DEF CallInv
  <2>8. DecidedInv'
    BY <2>1, <2>2, <2>3, <2>4, <2>5 DEF OutcomeInv, DecidedInv, Ending
  <2>9. SnapInv'
    <3> SUFFICES ASSUME NEW t \in TxnIds, NEW v \in TxnIds,
                        state'[v] # "None", t < v, MayCommit(t)'
                 PROVE  t \in snapActive'[v]
      BY DEF SnapInv
    <3>1. state'[t] = "Active"
      BY <2>2 DEF MayCommit
    <3>2. CASE v = nextTxnId
      <4>1. t \in ActiveIds
        BY <2>1, <2>3, <3>1, <3>2, <2>4 DEF ActiveIds
      <4> QED
        BY <2>3, <2>4, <3>2, <4>1
    <3>3. CASE v # nextTxnId
      <4>1. state[v] # "None" /\ v < nextTxnId
        BY <2>3, <2>4, <3>3 DEF OutcomeInv, IdsInv
      <4>2. MayCommit(t)
        BY <2>1, <2>3, <2>4, <3>1, <4>1 DEF MayCommit
      <4> QED
        BY <2>3, <2>4, <3>3, <4>1, <4>2 DEF OutcomeInv, SnapInv
    <3> QED
      BY <3>2, <3>3
  <2>10. LockInv'
    BY <2>2, <2>3 DEF OutcomeInv, LockInv
  <2> QED
    BY <2>6, <2>7, <2>8, <2>9, <2>10 DEF OutcomeInv
<1>2. CASE BeginLog
  <2>1. op.txn \in TxnIds /\ op.kind = "begin" /\ op'.kind = "none"
    BY <1>2, OpTxn DEF BeginLog, At, Idle, TypeOK
  <2>2. /\ UNCHANGED <<nextTxnId, state, snapActive, clog, locks>>
        /\ owner' \in {owner, [owner EXCEPT ![op.txn] = "open"]}
        /\ owner \in [TxnIds -> {"absent", "open", "closed"}]
    BY <1>2 DEF BeginLog, lifecycle, TypeOK, ClientTypeOK
  <2>3. state[op.txn] # "None" /\ owner[op.txn] = "absent"
    BY <2>1 DEF OutcomeInv, CallInv
  <2>4. IdsInv' /\ CallInv'
    BY <2>1, <2>2, <2>3 DEF OutcomeInv, IdsInv, CallInv
  <2>5. DecidedInv'
    BY <2>1, <2>2, <2>3 DEF OutcomeInv, DecidedInv, Ending
  <2>6. SnapInv'
    BY <2>1, <2>2 DEF OutcomeInv, SnapInv, MayCommit
  <2>7. LockInv'
    BY <2>1, <2>2, <2>3, TxnAssumption
    DEF OutcomeInv, LockInv, TypeOK, SharedTypeOK, NoTxn, TxnIds
  <2> QED
    BY <2>4, <2>5, <2>6, <2>7 DEF OutcomeInv
<1> QED
  BY <1>1, <1>2

\* set_status: the outcome is new, and the transaction was still open.
LEMMA OutcomeClog ==
  ASSUME TypeOK, OutcomeInv, CommitClog \/ AbortClog PROVE OutcomeInv'
<1>1. PICK outcome \in {"Committed", "Aborted"} :
        /\ clog' = [clog EXCEPT ![op.txn] = outcome]
        /\ outcome = "Committed" => op.kind = "commit"
  BY DEF CommitClog, AbortClog, At
<1>2. /\ op.kind \in {"commit", "abort"} /\ op.pc = "clog" /\ Goto("locks")
      /\ UNCHANGED <<nextTxnId, state, snapActive, owner, locks>>
  BY DEF CommitClog, AbortClog, At, lifecycle, clientVars
<1>3. /\ op.txn \in TxnIds /\ op' \in Calls /\ op'.pc = "locks"
      /\ op'.kind = op.kind /\ op'.txn = op.txn /\ op'.by = op.by
  BY <1>2 DEF Goto, TypeOK, CallTypeOK, Idle, Calls, Steps
<1>4. clog \in [TxnIds -> TxnStatus]
  BY DEF TypeOK, SharedTypeOK
<1>5. state[op.txn] # "None"
  BY <1>2 DEF OutcomeInv, CallInv
<1>6. IdsInv' /\ CallInv'
  BY <1>1, <1>2, <1>3, <1>4, <1>5 DEF OutcomeInv, IdsInv, CallInv
<1>7. DecidedInv'
  BY <1>1, <1>2, <1>3, <1>4 DEF OutcomeInv, DecidedInv, Ending
<1>8. SnapInv'
  BY <1>2, <1>3 DEF OutcomeInv, SnapInv, MayCommit
<1>9. LockInv'
  BY <1>2, <1>3 DEF OutcomeInv, LockInv
<1> QED
  BY <1>6, <1>7, <1>8, <1>9 DEF OutcomeInv

LEMMA OutcomeRelease ==
  ASSUME TypeOK, OutcomeInv, ReleaseLocks \/ RemoveFromGraph PROVE OutcomeInv'
<1>1. /\ op.kind \in {"commit", "abort"} /\ op.pc \in {"locks", "graph"}
      /\ Goto("graph") \/ Goto("state")
      /\ UNCHANGED <<nextTxnId, state, snapActive, clog, owner>>
  <2>1. CASE ReleaseLocks
    BY <2>1 DEF ReleaseLocks, lifecycle, clientVars
  <2>2. CASE RemoveFromGraph
    BY <2>2 DEF RemoveFromGraph, lifecycle, clientVars
  <2> QED
    BY <2>1, <2>2
<1>2. /\ op.txn \in TxnIds /\ op' \in Calls /\ op'.pc \in {"graph", "state"}
      /\ op'.kind = op.kind /\ op'.txn = op.txn /\ op'.by = op.by
  BY <1>1 DEF Goto, TypeOK, CallTypeOK, Idle, Calls, Steps
<1>3. IdsInv' /\ CallInv'
  BY <1>1, <1>2 DEF OutcomeInv, IdsInv, CallInv
<1>4. DecidedInv'
  BY <1>1, <1>2 DEF OutcomeInv, DecidedInv, Ending
<1>5. SnapInv'
  BY <1>1, <1>2 DEF OutcomeInv, SnapInv, MayCommit
<1>6. LockInv'
  <2>1. CASE ReleaseLocks
    BY <2>1, <1>1, <1>2 DEF ReleaseLocks, OutcomeInv, LockInv
  <2>2. CASE RemoveFromGraph
    BY <2>2, <1>1, <1>2 DEF RemoveFromGraph, OutcomeInv, LockInv
  <2> QED
    BY <2>1, <2>2
<1> QED
  BY <1>3, <1>4, <1>5, <1>6 DEF OutcomeInv

LEMMA OutcomeFinish ==
  ASSUME TypeOK, OutcomeInv, CommitFinish \/ AbortFinish PROVE OutcomeInv'
<1>1. op.kind \in {"commit", "abort"} /\ op.pc = "state" /\ op'.kind = "none"
  BY DEF CommitFinish, AbortFinish, At, Idle
<1>2. op.txn \in TxnIds /\ op.by = "owner"
  BY <1>1, OpTxn DEF TypeOK, OutcomeInv, CallInv
<1>3. PICK final \in {"Committed", "Aborted"} :
        /\ state' = [state EXCEPT ![op.txn] = final]
        /\ owner' = [owner EXCEPT ![op.txn] = "closed"]
        /\ UNCHANGED <<nextTxnId, snapActive, clog, locks>>
  BY <1>2 DEF CommitFinish, AbortFinish
<1>4. /\ state \in [TxnIds -> TxnStates \cup {"None"}]
      /\ owner \in [TxnIds -> {"absent", "open", "closed"}]
      /\ state[op.txn] # "None"
  BY <1>1 DEF TypeOK, TableTypeOK, ClientTypeOK, OutcomeInv, CallInv
<1>5. IdsInv' /\ CallInv'
  BY <1>1, <1>2, <1>3, <1>4 DEF OutcomeInv, IdsInv, CallInv
<1>6. DecidedInv'
  BY <1>1, <1>2, <1>3, <1>4 DEF OutcomeInv, DecidedInv, Ending
<1>7. SnapInv'
  BY <1>1, <1>2, <1>3, <1>4 DEF OutcomeInv, SnapInv, MayCommit
<1>8. LockInv'
  <2>1. \A r \in Rows : locks[r] # NoTxn => locks[r] \in TxnIds /\ locks[r] # op.txn
    BY <1>1, TxnAssumption DEF OutcomeInv, LockInv, TypeOK, SharedTypeOK, TxnIds, NoTxn
  <2> QED
    BY <1>1, <1>3, <1>4, <2>1 DEF OutcomeInv, LockInv
<1> QED
  BY <1>5, <1>6, <1>7, <1>8 DEF OutcomeInv

\* A session's commit or abort starts.
LEMMA OutcomeStart ==
  ASSUME TypeOK, OutcomeInv, NEW t \in TxnIds, CommitStart(t) \/ OwnerAbort(t)
  PROVE  OutcomeInv'
<1>1. PICK start \in {<<"commit", "wal", "Committing">>, <<"abort", "undo", "Aborting">>} :
        /\ op' = Call(start[1], t, start[2], "owner")
        /\ state' = [state EXCEPT ![t] = start[3]]
        /\ start[1] = "commit" => state[t] = "Active"
  BY DEF CommitStart, OwnerAbort, AbortStart
<1>2. /\ op = Idle /\ owner[t] = "open" /\ state[t] # "None"
      /\ UNCHANGED <<nextTxnId, snapActive, clog, owner, locks>>
  BY DEF CommitStart, OwnerAbort, AbortStart, SessionFree, clientVars
<1>3. /\ op'.kind \in {"commit", "abort"} /\ op'.txn = t /\ op'.by = "owner"
      /\ op'.pc \in {"wal", "undo"} /\ op.kind = "none"
      /\ state'[t] = IF op'.kind = "commit" THEN "Committing" ELSE "Aborting"
      /\ op'.kind = "commit" => state[t] = "Active"
  BY <1>1, <1>2 DEF Call, Idle, TypeOK, TableTypeOK
<1>4. \A u \in TxnIds : u # t => state'[u] = state[u]
  BY <1>1 DEF TypeOK, TableTypeOK
<1>5. IdsInv' /\ CallInv'
  BY <1>2, <1>3, <1>4 DEF OutcomeInv, IdsInv, CallInv
<1>6. DecidedInv'
  BY <1>2, <1>3, <1>4 DEF OutcomeInv, DecidedInv, Ending
<1>7. SnapInv'
  BY <1>2, <1>3, <1>4 DEF OutcomeInv, SnapInv, MayCommit
<1>8. LockInv'
  BY <1>2, <1>3 DEF OutcomeInv, LockInv
<1> QED
  BY <1>5, <1>6, <1>7, <1>8 DEF OutcomeInv

\* check_conflict gives a row to an open transaction that is not being ended.
LEMMA OutcomeLock ==
  ASSUME TypeOK, OutcomeInv, NEW t \in TxnIds, NEW r \in Rows, CheckConflictOk(t, r)
  PROVE  OutcomeInv'
<1>1. /\ locks' = [locks EXCEPT ![r] = t] /\ owner[t] = "open"
      /\ UNCHANGED <<nextTxnId, state, snapActive, clog, owner, op>>
      /\ ~(op.txn = t /\ op.by = "owner")
  BY DEF CheckConflictOk, SessionFree, lifecycle
<1>2. IdsInv' /\ CallInv'
  BY <1>1 DEF OutcomeInv, IdsInv, CallInv
<1>3. DecidedInv' /\ SnapInv'
  BY <1>1 DEF OutcomeInv, DecidedInv, SnapInv, Ending, MayCommit
<1>4. LockInv'
  BY <1>1 DEF OutcomeInv, LockInv, CallInv, TypeOK, SharedTypeOK
<1> QED
  BY <1>2, <1>3, <1>4 DEF OutcomeInv

LEMMA OutcomeNext ==
  ASSUME Killers = {}, TypeOK, OutcomeInv, [Next]_vars PROVE OutcomeInv'
<1>1. CASE BeginRegister \/ BeginLog
  BY <1>1, OutcomeBegin
<1>2. CASE CommitLog
  <2>1. CASE op' = Idle
    BY <1>2, <2>1, OutcomeReturn DEF CommitLog, At, lifecycle, clientVars, Ending
  <2>2. CASE Goto("sync")
    <3>1. /\ op.kind = "commit" /\ op.pc = "wal"
          /\ UNCHANGED <<nextTxnId, state, snapActive, clog, owner, locks>>
      BY <1>2 DEF CommitLog, At, lifecycle, clientVars
    <3>2. op'.kind = op.kind /\ op'.txn = op.txn /\ op'.by = op.by /\ op'.pc = "sync"
      BY <2>2, <3>1 DEF Goto, TypeOK, CallTypeOK, Idle, Calls
    <3> QED
      BY <3>1, <3>2, OutcomeGoto
  <2> QED
    BY <1>2, <2>1, <2>2 DEF CommitLog
<1>3. CASE CommitWait
  <2>1. CASE op' = Idle
    BY <1>3, <2>1, OutcomeReturn DEF CommitWait, At, lifecycle, clientVars, Ending
  <2>2. CASE Goto("clog")
    <3>1. /\ op.kind = "commit" /\ op.pc = "sync"
          /\ UNCHANGED <<nextTxnId, state, snapActive, clog, owner, locks>>
      BY <1>3 DEF CommitWait, At, lifecycle, clientVars
    <3>2. op'.kind = op.kind /\ op'.txn = op.txn /\ op'.by = op.by /\ op'.pc = "clog"
      BY <2>2, <3>1 DEF Goto, TypeOK, CallTypeOK, Idle, Calls
    <3> QED
      BY <3>1, <3>2, OutcomeGoto
  <2> QED
    BY <1>3, <2>1, <2>2 DEF CommitWait
<1>4. CASE AbortRollback \/ AbortLog
  <2>1. /\ op.kind = "abort" /\ op.pc \in {"undo", "wal"}
        /\ UNCHANGED <<nextTxnId, state, snapActive, clog, owner, locks>>
    BY <1>4 DEF AbortRollback, AbortLog, At, lifecycle, clientVars
  <2>2. /\ op'.kind = op.kind /\ op'.txn = op.txn /\ op'.by = op.by
        /\ op'.pc \in {"wal", "clog"}
    BY <1>4 DEF AbortRollback, AbortLog, At, Goto, TypeOK, CallTypeOK, Idle, Calls
  <2> QED
    BY <2>1, <2>2, OutcomeGoto
<1>5. CASE AbortFail
  BY <1>5, OutcomeReturn DEF AbortFail, lifecycle, clientVars, Ending
<1>6. CASE CommitClog \/ AbortClog
  BY <1>6, OutcomeClog
<1>7. CASE CommitFinish \/ AbortFinish
  BY <1>7, OutcomeFinish
<1>8. CASE ReleaseLocks \/ RemoveFromGraph
  BY <1>8, OutcomeRelease
<1>9. ASSUME NEW t \in TxnIds, Session(t) PROVE OutcomeInv'
  <2>1. CASE CommitStart(t) \/ OwnerAbort(t)
    BY <2>1, OutcomeStart
  <2>2. ASSUME NEW r \in Rows, CheckConflictOk(t, r) PROVE OutcomeInv'
    BY <2>2, OutcomeLock
  <2>3. ASSUME NEW r \in Rows, CheckConflictErr(t, r) PROVE OutcomeInv'
    BY <2>3, OutcomeBeside DEF CheckConflictErr, lifecycle
  <2>4. CASE AdvanceCmdId(t) \/ AddWaitEdge(t)
    BY <2>4, OutcomeBeside DEF AdvanceCmdId, AddWaitEdge, lifecycle, clientVars
  <2>5. ASSUME NEW body \in UndoBodies, RecordUndo(t, body) PROVE OutcomeInv'
    BY <2>5, OutcomeBeside DEF RecordUndo, lifecycle, clientVars
  <2> QED
    BY <1>9, <2>1, <2>2, <2>3, <2>4, <2>5 DEF Session
<1>10. CASE UNCHANGED vars
  BY <1>10, OutcomeBeside DEF vars, lifecycle, clientVars
<1> QED
  BY <1>1, <1>2, <1>3, <1>4, <1>5, <1>6, <1>7, <1>8, <1>9, <1>10, NoThirdParty
  DEF Next, CallStep, CommitCall, AbortCall

-----------------------------------------------------------------------------
(* Theorems *)

OutcomeSpecInv == TypeOK /\ OutcomeInv

LEMMA OutcomeInvariant == ASSUME Killers = {} PROVE Spec => []OutcomeSpecInv
<1>1. Init => OutcomeSpecInv
  BY TypeInit, OutcomeInit DEF OutcomeSpecInv
<1>2. OutcomeSpecInv /\ [Next]_vars => OutcomeSpecInv'
  BY TypeNext, OutcomeNext DEF OutcomeSpecInv
<1> QED
  BY <1>1, <1>2, PTL DEF Spec

\* When only sessions end their transactions, no row is left locked by one that
\* has ended: nobody else would ever release it.
THEOREM LocksFreed == ASSUME Killers = {} PROVE Spec => []LockHolderUnfinished
<1>1. OutcomeSpecInv => LockHolderUnfinished
  <2> SUFFICES ASSUME TypeOK, OutcomeInv, NEW r \in Rows, locks[r] # NoTxn
               PROVE  state[locks[r]] \notin {"Committed", "Aborted"}
    BY DEF OutcomeSpecInv, LockHolderUnfinished
  <2>1. locks[r] \in TxnIds
    BY TxnAssumption DEF TypeOK, SharedTypeOK, TxnIds, NoTxn
  <2> QED
    BY <2>1 DEF OutcomeInv, LockInv, DecidedInv
<1> QED
  BY <1>1, OutcomeInvariant, PTL

-----------------------------------------------------------------------------
(* Snapshots *)

LEMMA SeenMeans ==
  ASSUME NEW t \in TxnIds
  PROVE  /\ Seen(t) = {u \in TxnIds : u < t /\ u \notin snapActive[t] /\ clog[u] = "Committed"}
         /\ Seen(t)' = {u \in TxnIds : u < t /\ u \notin snapActive'[t] /\ clog'[u] = "Committed"}
  BY DEF Seen, TxnIsCommittedBefore, Snapshot

\* What a step may do to the CLOG, the snapshots and the set of registered ids.
TableKept ==
  /\ clog' = clog /\ snapActive' = snapActive
  /\ \A t \in TxnIds : state'[t] = "None" <=> state[t] = "None"

LEMMA OtherSteps ==
  ASSUME Killers = {}, TypeOK, OutcomeInv, [Next]_vars
  PROVE  BeginRegister \/ CommitClog \/ AbortClog \/ TableKept
<1>1. CASE BeginLog \/ CommitLog \/ CommitWait
  BY <1>1 DEF BeginLog, CommitLog, CommitWait, TableKept, lifecycle
<1>2. CASE AbortRollback \/ AbortFail \/ AbortLog
  BY <1>2 DEF AbortRollback, AbortFail, AbortLog, TableKept, lifecycle
<1>3. CASE CommitFinish \/ AbortFinish
  <2>1. op.kind \in {"commit", "abort"} /\ op.txn \in TxnIds
    BY <1>3, OpTxn DEF CommitFinish, AbortFinish, At, TypeOK
  <2>2. state[op.txn] # "None"
    BY <2>1 DEF OutcomeInv, CallInv
  <2> QED
    BY <1>3, <2>1, <2>2 DEF CommitFinish, AbortFinish, TableKept, TypeOK, TableTypeOK
<1>4. CASE ReleaseLocks \/ RemoveFromGraph
  BY <1>4 DEF ReleaseLocks, RemoveFromGraph, TableKept, lifecycle
<1>5. ASSUME NEW t \in TxnIds, Session(t) PROVE TableKept
  <2>1. CASE CommitStart(t)
    BY <2>1 DEF CommitStart, TableKept, TypeOK, TableTypeOK
  <2>2. CASE OwnerAbort(t)
    BY <2>2 DEF OwnerAbort, AbortStart, TableKept, TypeOK, TableTypeOK
  <2>3. CASE ~(CommitStart(t) \/ OwnerAbort(t))
    BY <1>5, <2>3 DEF Session, AdvanceCmdId, AddWaitEdge, CheckConflictOk,
       CheckConflictErr, RecordUndo, TableKept, lifecycle
  <2> QED
    BY <2>1, <2>2, <2>3
<1>6. CASE UNCHANGED vars
  BY <1>6 DEF vars, lifecycle, TableKept
<1> QED
  BY <1>1, <1>2, <1>3, <1>4, <1>5, <1>6, NoThirdParty
  DEF Next, CallStep, CommitCall, AbortCall

\* set_status decides an open outcome, of a transaction in the table.
LEMMA ClogSteps ==
  ASSUME TypeOK, OutcomeInv, CommitClog \/ AbortClog
  PROVE  /\ op.txn \in TxnIds /\ state[op.txn] # "None" /\ clog[op.txn] = "InProgress"
         /\ snapActive' = snapActive /\ state' = state
         /\ \/ clog' = [clog EXCEPT ![op.txn] = "Committed"] /\ MayCommit(op.txn)
            \/ clog' = [clog EXCEPT ![op.txn] = "Aborted"]
<1>1. op.kind \in {"commit", "abort"} /\ op.pc = "clog" /\ op.txn \in TxnIds
  BY OpTxn DEF CommitClog, AbortClog, At, TypeOK
<1>2. state[op.txn] # "None" /\ owner[op.txn] = "open"
  BY <1>1 DEF OutcomeInv, CallInv
<1>3. clog[op.txn] = "InProgress"
  BY <1>1, <1>2 DEF OutcomeInv, DecidedInv, Ending
<1>4. \/ clog' = [clog EXCEPT ![op.txn] = "Committed"] /\ MayCommit(op.txn)
      \/ clog' = [clog EXCEPT ![op.txn] = "Aborted"]
  BY DEF CommitClog, AbortClog, At, MayCommit
<1> QED
  BY <1>1, <1>2, <1>3, <1>4 DEF CommitClog, AbortClog, lifecycle

\* The view of a registered transaction does not move.
LEMMA SeenKept ==
  ASSUME Killers = {}, TypeOK, OutcomeInv, [Next]_vars,
         NEW t \in TxnIds, state[t] # "None"
  PROVE  Seen(t)' = Seen(t) /\ state'[t] # "None"
<1>1. /\ Seen(t) = {u \in TxnIds : u < t /\ u \notin snapActive[t] /\ clog[u] = "Committed"}
      /\ Seen(t)' = {u \in TxnIds : u < t /\ u \notin snapActive'[t] /\ clog'[u] = "Committed"}
  BY SeenMeans
<1>2. clog \in [TxnIds -> TxnStatus] /\ snapActive \in [TxnIds -> SUBSET TxnIds]
  BY DEF TypeOK, TableTypeOK, SharedTypeOK
<1>3. CASE BeginRegister
  <2>1. nextTxnId \in TxnIds /\ clog[nextTxnId] = "InProgress" /\ state[nextTxnId] = "None"
    BY <1>3, TxnAssumption
    DEF BeginRegister, TxnIds, NoActive, TypeOK, TableTypeOK, OutcomeInv, IdsInv
  <2>2. clog' = clog /\ snapActive'[t] = snapActive[t] /\ state'[t] = state[t]
    BY <1>2, <1>3, <2>1 DEF BeginRegister, TypeOK, TableTypeOK
  <2> QED
    BY <1>1, <2>2
<1>4. CASE CommitClog \/ AbortClog
  <2>1. \A u \in TxnIds : u < t /\ u \notin snapActive[t] =>
          (clog'[u] = "Committed" <=> clog[u] = "Committed")
    BY <1>2, <1>4, ClogSteps DEF OutcomeInv, SnapInv
  <2> QED
    BY <1>1, <1>4, <2>1, ClogSteps
<1>5. CASE TableKept
  BY <1>1, <1>5 DEF TableKept
<1> QED
  BY <1>3, <1>4, <1>5, OtherSteps

\* Snapshot isolation: when only sessions end their transactions, what a
\* transaction sees of the others is settled at begin, although every visibility
\* check reads the CLOG of its own moment.
THEOREM SnapshotStable == ASSUME Killers = {} PROVE Spec => SeenStable
<1>1. OutcomeSpecInv /\ [Next]_vars =>
        [\A t \in TxnIds : state[t] # "None" => Seen(t)' = Seen(t)]_vars
  BY SeenKept DEF OutcomeSpecInv
<1> QED
  BY <1>1, OutcomeInvariant, PTL DEF Spec, SeenStable

-----------------------------------------------------------------------------
(* Refinement *)

LEMMA AbsInit == Init => Abs!Init
<1> SUFFICES ASSUME Init PROVE Abs!Init
  OBVIOUS
<1>1. \A t \in TxnIds : state[t] = "None"
  BY DEF Init
<1> QED
  BY <1>1 DEF Abs!Init, Phase, SeenBy

LEMMA AbsNext ==
  ASSUME Killers = {}, TypeOK, OutcomeInv, [Next]_vars PROVE [Abs!Next]_(Abs!svars)
<1>1. CASE BeginRegister
  <2>1. PICK n \in TxnIds : n = nextTxnId
    BY <1>1, TxnAssumption DEF BeginRegister, TxnIds, NoActive, TypeOK, TableTypeOK
  <2>2. /\ state' = [state EXCEPT ![n] = "Active"] /\ clog' = clog
        /\ clog[n] = "InProgress" /\ state[n] = "None" /\ op = Idle
        /\ snapActive'[n] = ActiveIds
    BY <1>1, <2>1 DEF BeginRegister, TypeOK, TableTypeOK, SharedTypeOK, OutcomeInv, IdsInv
  <2>3. Phase[n] = "idle" /\ Phase' = [Phase EXCEPT ![n] = "running"]
    BY <2>2 DEF Phase, TypeOK, TableTypeOK
  <2>4. Seen(n)' = {u \in TxnIds : Phase[u] = "Committed"}
    <3>1. Seen(n)' = {u \in TxnIds : u < n /\ u \notin snapActive'[n] /\ clog'[u] = "Committed"}
      BY SeenMeans
    <3>2. \A u \in TxnIds : clog[u] = "Committed" =>
             u < n /\ state[u] \notin {"None", "Active"}
      BY <2>1, <2>2 DEF OutcomeInv, IdsInv, DecidedInv, Ending, Idle
    <3>3. \A u \in TxnIds : Phase[u] = "Committed" <=> state[u] # "None" /\ clog[u] = "Committed"
      BY DEF Phase
    <3> QED
      BY <2>2, <3>1, <3>2, <3>3 DEF ActiveIds
  <2>5. SeenBy' = [SeenBy EXCEPT ![n] = {u \in TxnIds : Phase[u] = "Committed"}]
    <3>1. \A t \in TxnIds : t # n => SeenBy'[t] = SeenBy[t]
      BY <2>2, SeenKept DEF SeenBy, TypeOK, TableTypeOK
    <3>2. SeenBy'[n] = Seen(n)'
      BY <2>2 DEF SeenBy, TypeOK, TableTypeOK
    <3> QED
      BY <2>4, <3>1, <3>2 DEF SeenBy
  <2> QED
    BY <2>1, <2>3, <2>5 DEF Abs!Next, Abs!Begin
<1>2. ASSUME ~BeginRegister PROVE SeenBy' = SeenBy
  <2>1. \A t \in TxnIds : state'[t] = "None" <=> state[t] = "None"
    BY <1>2, OtherSteps, ClogSteps DEF TableKept
  <2> QED
    BY <2>1, SeenKept DEF SeenBy
<1>3. CASE ~BeginRegister /\ (CommitClog \/ AbortClog)
  <2>1. PICK t \in TxnIds, outcome \in {"Committed", "Aborted"} :
          /\ clog' = [clog EXCEPT ![t] = outcome] /\ state' = state
          /\ state[t] # "None" /\ clog[t] = "InProgress"
    BY <1>3, ClogSteps
  <2>2. Phase[t] = "running" /\ Phase' = [Phase EXCEPT ![t] = outcome]
    BY <2>1 DEF Phase, TypeOK, SharedTypeOK
  <2>3. UNCHANGED SeenBy
    BY <1>2, <1>3
  <2> QED
    BY <2>2, <2>3 DEF Abs!Next, Abs!Decide
<1>4. CASE ~BeginRegister /\ TableKept
  <2>1. Phase' = Phase
    BY <1>4 DEF TableKept, Phase
  <2> QED
    BY <1>2, <1>4, <2>1 DEF Abs!svars
<1> QED
  BY <1>1, <1>3, <1>4, OtherSteps

\* When only sessions end their transactions, the transaction manager implements
\* SnapshotTxn: each outcome is decided once, in one step, and each snapshot is
\* the set of transactions committed at begin.
THEOREM ImplementsSnapshotTxn == ASSUME Killers = {} PROVE Spec => AbsSpec
<1>1. OutcomeSpecInv /\ [Next]_vars => [Abs!Next]_(Abs!svars)
  BY AbsNext DEF OutcomeSpecInv
<1> QED
  BY <1>1, AbsInit, OutcomeInvariant, PTL DEF Spec, AbsSpec, Abs!Spec
=============================================================================
