----------------------------- MODULE TxnManager -----------------------------
(* The transaction manager of vaisdb (storage/txn/manager.vais) with the parts
   it owns: the active transaction table (att.vais), the commit log
   (clog.vais), the write-lock table (conflict.vais), the wait-for graph
   (deadlock.vais), the undo log (undo.vais) and the control records it sends
   through group commit (wal/group_commit.vais).

   begin, commit and abort hold the manager's mutex from entry to return, so at
   most one of them is in progress; op is that call and how far it has come.
   Every other call runs beside it, and sees each of its steps. *)
EXTENDS Mvcc, Sequences, FiniteSets, TLC

CONSTANTS
  MaxTxn,      \* bound: how many transaction ids begin hands out
  MaxCmd,      \* bound: statements per transaction
  MaxUndo,     \* bound: entries in the undo log
  Rows,        \* lock keys: (file, page, slot) of a tuple
  NoRow,       \* stands for no row
  UndoBodies,  \* what an undo entry may hold (type, slot, old metadata)
  WalFaults,   \* whether WAL calls may return Err
  Async,       \* group commit's sync_mode is Async
  Killers      \* who may abort a transaction that is not theirs

ASSUME TxnAssumption ==
  /\ MaxTxn \in Nat \ {0} /\ MaxCmd \in Nat /\ MaxUndo \in Nat
  /\ NoRow \notin Rows
  /\ WalFaults \in BOOLEAN /\ Async \in BOOLEAN
  /\ Killers \subseteq {"sweeper", "detector"}

TxnIds == 1..MaxTxn
NoTxn == 0
NULL_UNDO_PTR == 0
NoActive == MaxTxn + 1      \* get_min_active_txn's 9999999999999

VARIABLES
  nextTxnId,   \* next_txn_id
  state,       \* ATT states; "None" before register
  snapActive,  \* ATT snap_active_map
  cmdId,       \* ATT snap_cmd_ids
  undoPtr,     \* ATT undo_ptrs
  clog,        \* CLOG status
  locks,       \* ConflictDetector.locks; NoTxn when the key is absent
  waits,       \* WaitForGraph edges <<waiter, holder>>
  undoLog,     \* undo entries, the pointer of an entry is its position
  logged,      \* control records appended to the WAL
  durable,     \* control records that reached the disk
  op,          \* the call that holds the manager's mutex
  owner,       \* the session a transaction id was returned to
  blocked,     \* the row a session waits for, NoRow if none
  told,        \* the holder check_conflict named, until the edge is added
  doomed       \* transactions a killer has picked and not yet aborted

lifecycle == <<nextTxnId, state, snapActive, cmdId>>
undoVars == <<undoPtr, undoLog>>
walVars == <<logged, durable>>
clientVars == <<owner, blocked, told>>
vars == <<lifecycle, undoVars, walVars, clientVars, clog, locks, waits, op, doomed>>

TxnStates == {"Active", "Committing", "Aborting", "Committed", "Aborted"}
Idle == [kind |-> "none", txn |-> NoTxn, pc |-> "done", by |-> "none"]
Call(kind, t, pc, by) == [kind |-> kind, txn |-> t, pc |-> pc, by |-> by]
At(kind, pc) == op.kind = kind /\ op.pc = pc
Goto(pc) == op' = [op EXCEPT !.pc = pc]

Snapshot(t) == [txn_id |-> t, cmd_id |-> cmdId[t], active_txns |-> snapActive[t]]

\* Broken variant: the scan of the table stops one entry short.
BadActiveIds == {t \in TxnIds : state[t] = "Active" /\ t < nextTxnId - 1}
ActiveIds == {t \in TxnIds : state[t] = "Active"}

\* The low water mark the garbage collectors are given.
MinActiveTxn ==
  IF ActiveIds = {} THEN NoActive
  ELSE CHOOSE t \in ActiveIds : \A u \in ActiveIds : t <= u

\* Entries reached from pointer p, newest first.
ReadChain[p \in 0..MaxUndo] ==
  IF p = NULL_UNDO_PTR THEN <<>> ELSE <<undoLog[p]>> \o ReadChain[undoLog[p].prev]

Init ==
  /\ nextTxnId = 1
  /\ state = [t \in TxnIds |-> "None"]
  /\ snapActive = [t \in TxnIds |-> {}]
  /\ cmdId = [t \in TxnIds |-> 0]
  /\ undoPtr = [t \in TxnIds |-> NULL_UNDO_PTR]
  /\ clog = [t \in TxnIds |-> "InProgress"]
  /\ locks = [r \in Rows |-> NoTxn]
  /\ waits = {}
  /\ undoLog = <<>>
  /\ logged = {} /\ durable = {}
  /\ op = Idle
  /\ owner = [t \in TxnIds |-> "absent"]
  /\ blocked = [t \in TxnIds |-> NoRow]
  /\ told = [t \in TxnIds |-> NoTxn]
  /\ doomed = {}

-----------------------------------------------------------------------------
(* begin *)

\* Allocate the id, register it with the ids active now, mark it in progress.
BeginRegister ==
  /\ op = Idle
  /\ nextTxnId <= MaxTxn
  /\ nextTxnId' = nextTxnId + 1
  /\ state' = [state EXCEPT ![nextTxnId] = "Active"]
  /\ snapActive' = [snapActive EXCEPT ![nextTxnId] = ActiveIds]
  /\ clog' = [clog EXCEPT ![nextTxnId] = "InProgress"]
  /\ op' = Call("begin", nextTxnId, "wal", "owner")
  /\ UNCHANGED <<cmdId, undoVars, walVars, clientVars, locks, waits, doomed>>

\* Log TXN_BEGIN and return the id; on Err the entry stays, and nobody has the id.
BeginLog ==
  /\ At("begin", "wal")
  /\ op' = Idle
  /\ \/ /\ logged' = logged \cup {<<"BEGIN", op.txn>>}
        /\ owner' = [owner EXCEPT ![op.txn] = "open"]
     \/ WalFaults /\ UNCHANGED <<logged, owner>>
  /\ UNCHANGED <<lifecycle, undoVars, durable, blocked, told, clog, locks, waits, doomed>>

-----------------------------------------------------------------------------
(* commit *)

\* A session calls commit on the transaction it was given.
SessionFree(t) ==
  /\ owner[t] = "open"
  /\ ~(op.txn = t /\ op.by = "owner")

CommitStart(t) ==
  /\ op = Idle
  /\ SessionFree(t) /\ blocked[t] = NoRow
  /\ state[t] = "Active"
  /\ state' = [state EXCEPT ![t] = "Committing"]
  /\ op' = Call("commit", t, "wal", "owner")
  /\ UNCHANGED <<nextTxnId, snapActive, cmdId, undoVars, walVars, clientVars,
                 clog, locks, waits, doomed>>

\* An Err here and in CommitWait leaves the transaction Committing.
CommitLog ==
  /\ At("commit", "wal")
  /\ \/ logged' = logged \cup {<<"COMMIT", op.txn>>} /\ Goto("sync")
     \/ WalFaults /\ op' = Idle /\ UNCHANGED logged
  /\ UNCHANGED <<lifecycle, undoVars, durable, clientVars, clog, locks, waits, doomed>>

\* Broken variant: goes on without waiting for the disk.
BadCommitWait ==
  /\ At("commit", "sync") /\ Goto("clog")
  /\ UNCHANGED <<lifecycle, undoVars, walVars, clientVars, clog, locks, waits, doomed>>

\* commit_and_wait: the whole buffer is flushed and synced, or not in async
\* mode.  A failed flush may still have reached the disk.
CommitWait ==
  /\ At("commit", "sync")
  /\ \/ Goto("clog") /\ durable' = IF Async THEN durable ELSE logged
     \/ WalFaults /\ ~Async /\ op' = Idle /\ durable' \in {durable, logged}
  /\ UNCHANGED <<lifecycle, undoVars, logged, clientVars, clog, locks, waits, doomed>>

CommitClog ==
  /\ At("commit", "clog")
  /\ clog' = [clog EXCEPT ![op.txn] = "Committed"]
  /\ Goto("locks")
  /\ UNCHANGED <<lifecycle, undoVars, walVars, clientVars, locks, waits, doomed>>

CommitFinish ==
  /\ At("commit", "state")
  /\ state' = [state EXCEPT ![op.txn] = "Committed"]
  /\ owner' = [owner EXCEPT ![op.txn] = "closed"]
  /\ op' = Idle
  /\ UNCHANGED <<nextTxnId, snapActive, cmdId, undoVars, walVars, blocked,
                 told, clog, locks, waits, doomed>>

-----------------------------------------------------------------------------
(* abort *)

\* abort only asks that the entry exists.
AbortStart(t, by) ==
  /\ op = Idle
  /\ state[t] # "None"
  /\ state' = [state EXCEPT ![t] = "Aborting"]
  /\ op' = Call("abort", t, "undo", by)
  /\ UNCHANGED <<nextTxnId, snapActive, cmdId, undoVars, walVars, owner,
                 clog, locks, waits>>

\* A session gives up its own transaction, waiting or not.
OwnerAbort(t) ==
  /\ SessionFree(t)
  /\ AbortStart(t, "owner")
  /\ blocked' = [blocked EXCEPT ![t] = NoRow]
  /\ told' = [told EXCEPT ![t] = NoTxn]
  /\ UNCHANGED doomed

\* perform_rollback follows the undo chain and stops on a foreign entry.  (The
\* code reads the head of the chain on entry; what its session still records
\* under a third party's abort is the transaction's own, so the test is the same.)
OwnChain(t) ==
  LET chain == ReadChain[undoPtr[t]]
  IN  \A i \in DOMAIN chain : chain[i].txn = t

AbortRollback ==
  /\ At("abort", "undo")
  /\ OwnChain(op.txn)
  /\ Goto("wal")
  /\ UNCHANGED <<lifecycle, undoVars, walVars, clientVars, clog, locks, waits, doomed>>

\* Returning Err from the rollback or from the write leaves it Aborting.
AbortFail ==
  /\ op.kind = "abort"
  /\ \/ /\ op.pc = "undo" /\ undoPtr[op.txn] # NULL_UNDO_PTR
        /\ WalFaults \/ ~OwnChain(op.txn)
     \/ op.pc = "wal" /\ WalFaults
  /\ op' = Idle
  /\ UNCHANGED <<lifecycle, undoVars, walVars, clientVars, clog, locks, waits, doomed>>

\* Broken variant: skips set_status.
BadAbortLog ==
  /\ At("abort", "wal")
  /\ logged' = logged \cup {<<"ABORT", op.txn>>}
  /\ Goto("locks")
  /\ UNCHANGED <<lifecycle, undoVars, durable, clientVars, clog, locks, waits, doomed>>

AbortLog ==
  /\ At("abort", "wal")
  /\ logged' = logged \cup {<<"ABORT", op.txn>>}
  /\ Goto("clog")
  /\ UNCHANGED <<lifecycle, undoVars, durable, clientVars, clog, locks, waits, doomed>>

\* Broken variant: forgets the locks.
BadAbortClog ==
  /\ At("abort", "clog")
  /\ clog' = [clog EXCEPT ![op.txn] = "Aborted"]
  /\ Goto("graph")
  /\ UNCHANGED <<lifecycle, undoVars, walVars, clientVars, locks, waits, doomed>>

AbortClog ==
  /\ At("abort", "clog")
  /\ clog' = [clog EXCEPT ![op.txn] = "Aborted"]
  /\ Goto("locks")
  /\ UNCHANGED <<lifecycle, undoVars, walVars, clientVars, locks, waits, doomed>>

\* Only the session that called learns of the abort.
AbortFinish ==
  /\ At("abort", "state")
  /\ state' = [state EXCEPT ![op.txn] = "Aborted"]
  /\ owner' = IF op.by = "owner" THEN [owner EXCEPT ![op.txn] = "closed"] ELSE owner
  /\ op' = Idle
  /\ UNCHANGED <<nextTxnId, snapActive, cmdId, undoVars, walVars, blocked,
                 told, clog, locks, waits, doomed>>

-----------------------------------------------------------------------------
(* The two calls commit and abort share. *)

ReleaseLocks ==
  /\ op.kind \in {"commit", "abort"} /\ op.pc = "locks"
  /\ locks' = [r \in Rows |-> IF locks[r] = op.txn THEN NoTxn ELSE locks[r]]
  /\ Goto("graph")
  /\ UNCHANGED <<lifecycle, undoVars, walVars, clientVars, clog, waits, doomed>>

\* remove_txn drops the edges out of and into the transaction.
RemoveFromGraph ==
  /\ op.kind \in {"commit", "abort"} /\ op.pc = "graph"
  /\ waits' = {e \in waits : e[1] # op.txn /\ e[2] # op.txn}
  /\ Goto("state")
  /\ UNCHANGED <<lifecycle, undoVars, walVars, clientVars, clog, locks, doomed>>

-----------------------------------------------------------------------------
(* What a session calls between begin and its end; none takes the mutex. *)

AdvanceCmdId(t) ==
  /\ SessionFree(t) /\ blocked[t] = NoRow
  /\ cmdId[t] < MaxCmd
  /\ cmdId' = [cmdId EXCEPT ![t] = @ + 1]
  /\ UNCHANGED <<nextTxnId, state, snapActive, undoVars, walVars, clientVars,
                 clog, locks, waits, op, doomed>>

\* check_conflict granted: the first writer takes the row.  It does not look at
\* the transaction's state.
CheckConflictOk(t, r) ==
  /\ SessionFree(t) /\ told[t] = NoTxn
  /\ blocked[t] \in {NoRow, r}
  /\ locks[r] \in {NoTxn, t}
  /\ locks' = [locks EXCEPT ![r] = t]
  /\ blocked' = [blocked EXCEPT ![t] = NoRow]
  /\ UNCHANGED <<lifecycle, undoVars, walVars, owner, told, clog, waits, op, doomed>>

\* Broken variant: the error names the asker.
BadCheckConflictErr(t, r) ==
  /\ SessionFree(t) /\ told[t] = NoTxn
  /\ blocked[t] \in {NoRow, r} /\ locks[r] \notin {NoTxn, t}
  /\ blocked' = [blocked EXCEPT ![t] = r]
  /\ told' = [told EXCEPT ![t] = t]
  /\ UNCHANGED <<lifecycle, undoVars, walVars, owner, clog, locks, waits, op, doomed>>

\* check_conflict refused: the error names the holder, and the session decides
\* to wait and retry.
CheckConflictErr(t, r) ==
  /\ SessionFree(t) /\ told[t] = NoTxn
  /\ blocked[t] \in {NoRow, r}
  /\ locks[r] \notin {NoTxn, t}
  /\ blocked' = [blocked EXCEPT ![t] = r]
  /\ told' = [told EXCEPT ![t] = locks[r]]
  /\ UNCHANGED <<lifecycle, undoVars, walVars, owner, clog, locks, waits, op, doomed>>

\* Broken variant: the edge is not kept.
BadAddWaitEdge(t) ==
  /\ SessionFree(t) /\ told[t] # NoTxn
  /\ told' = [told EXCEPT ![t] = NoTxn]
  /\ UNCHANGED <<lifecycle, undoVars, walVars, owner, blocked, clog, locks, waits, op, doomed>>

\* add_wait_edge: a second call, with the holder it was told of.
AddWaitEdge(t) ==
  /\ SessionFree(t) /\ told[t] # NoTxn
  /\ waits' = waits \cup {<<t, told[t]>>}
  /\ told' = [told EXCEPT ![t] = NoTxn]
  /\ UNCHANGED <<lifecycle, undoVars, walVars, owner, blocked, clog, locks, op, doomed>>

\* Broken variant: the head of the chain is the next free place.
BadRecordUndo(t, body) ==
  /\ SessionFree(t) /\ blocked[t] = NoRow
  /\ Len(undoLog) < MaxUndo
  /\ undoLog' = Append(undoLog, [txn |-> t, prev |-> undoPtr[t], body |-> body])
  /\ undoPtr' = [undoPtr EXCEPT ![t] = Len(undoLog) + 2]
  /\ UNCHANGED <<lifecycle, walVars, clientVars, clog, locks, waits, op, doomed>>

\* record_undo: append the entry, chained to the transaction's last one.
RecordUndo(t, body) ==
  /\ SessionFree(t) /\ blocked[t] = NoRow
  /\ Len(undoLog) < MaxUndo
  /\ undoLog' = Append(undoLog, [txn |-> t, prev |-> undoPtr[t], body |-> body])
  /\ undoPtr' = [undoPtr EXCEPT ![t] = Len(undoLog) + 1]
  /\ UNCHANGED <<lifecycle, walVars, clientVars, clog, locks, waits, op, doomed>>

-----------------------------------------------------------------------------
(* Third parties: a timeout sweep and a deadlock detector pick transactions
   without the mutex, and abort them afterwards. *)

\* find_timed_out_transactions: ids are handed out in start order, so those
\* over the limit are the oldest ones.
SweepFind(k) ==
  /\ "sweeper" \in Killers
  /\ doomed = {}
  /\ doomed' = {<<t, "sweeper">> : t \in {u \in ActiveIds : u <= k}}
  /\ doomed' # {}
  /\ UNCHANGED <<lifecycle, undoVars, walVars, clientVars, clog, locks, waits, op>>

OnCycle(t) ==
  LET Reach[n \in 0..MaxTxn] ==
        IF n = 0 THEN {e[2] : e \in {d \in waits : d[1] = t}}
        ELSE Reach[n - 1] \cup {e[2] : e \in {d \in waits : d[1] \in Reach[n - 1]}}
  IN  t \in Reach[MaxTxn]

\* detect_deadlock names a member of a cycle as the victim.
DetectDeadlock(t) ==
  /\ "detector" \in Killers
  /\ doomed = {}
  /\ OnCycle(t)
  /\ doomed' = {<<t, "detector">>}
  /\ UNCHANGED <<lifecycle, undoVars, walVars, clientVars, clog, locks, waits, op>>

KillNext(t, by) ==
  /\ <<t, by>> \in doomed
  /\ AbortStart(t, by)
  /\ doomed' = doomed \ {<<t, by>>}
  /\ UNCHANGED <<blocked, told>>

-----------------------------------------------------------------------------
CommitCall ==
  CommitLog \/ CommitWait \/ CommitClog \/ CommitFinish
AbortCall ==
  AbortRollback \/ AbortFail \/ AbortLog \/ AbortClog \/ AbortFinish
CallStep == BeginLog \/ CommitCall \/ AbortCall \/ ReleaseLocks \/ RemoveFromGraph

Session(t) ==
  \/ CommitStart(t) \/ OwnerAbort(t) \/ AdvanceCmdId(t) \/ AddWaitEdge(t)
  \/ \E r \in Rows : CheckConflictOk(t, r) \/ CheckConflictErr(t, r)
  \/ \E body \in UndoBodies : RecordUndo(t, body)

ThirdParty ==
  \/ \E k \in TxnIds : SweepFind(k) \/ DetectDeadlock(k)
  \/ \E t \in TxnIds, by \in Killers : KillNext(t, by)

Next == BeginRegister \/ CallStep \/ (\E t \in TxnIds : Session(t)) \/ ThirdParty

Spec == Init /\ [][Next]_vars

\* A call in progress goes on; a session that waits retries and reports its
\* wait; one that can go on ends its transaction, by abort if somebody else
\* ended it; the detector runs, and aborts whom it picked.
RetryOk(t) == \E r \in Rows : blocked[t] = r /\ CheckConflictOk(t, r)
Report(t) ==
  AddWaitEdge(t) \/ \E r \in Rows : blocked[t] = r /\ CheckConflictErr(t, r)
EndOwn(t) == CommitStart(t) \/ (state[t] # "Active" /\ OwnerAbort(t))

Fairness ==
  /\ WF_vars(CallStep)
  /\ \A t \in TxnIds :
       /\ WF_vars(RetryOk(t)) /\ WF_vars(Report(t)) /\ WF_vars(EndOwn(t))
       /\ WF_vars(DetectDeadlock(t))
       /\ \A by \in Killers : WF_vars(KillNext(t, by))

FairSpec == Spec /\ Fairness

-----------------------------------------------------------------------------
(* Properties *)

Steps == {"wal", "sync", "undo", "clog", "locks", "graph", "state"}
Calls == [kind : {"begin", "commit", "abort"}, txn : TxnIds, pc : Steps,
          by : {"owner", "sweeper", "detector"}]
UndoEntries == [txn : TxnIds, prev : Nat, body : UndoBodies]

TableTypeOK ==
  /\ nextTxnId \in 1..NoActive
  /\ state \in [TxnIds -> TxnStates \cup {"None"}]
  /\ snapActive \in [TxnIds -> SUBSET TxnIds]
  /\ cmdId \in [TxnIds -> 0..MaxCmd]
UndoTypeOK ==
  /\ undoLog \in Seq(UndoEntries)
  /\ undoPtr \in [TxnIds -> 0..Len(undoLog)]
WalTypeOK ==
  /\ logged \subseteq {"BEGIN", "COMMIT", "ABORT"} \X TxnIds
  /\ durable \subseteq logged
ClientTypeOK ==
  /\ owner \in [TxnIds -> {"absent", "open", "closed"}]
  /\ blocked \in [TxnIds -> Rows \cup {NoRow}]
  /\ told \in [TxnIds -> 0..MaxTxn]
SharedTypeOK ==
  /\ clog \in [TxnIds -> TxnStatus]
  /\ locks \in [Rows -> 0..MaxTxn]
  /\ waits \subseteq TxnIds \X TxnIds
  /\ doomed \subseteq TxnIds \X Killers
CallTypeOK == op \in {Idle} \cup Calls

\* Every variable keeps its shape (the parallel Vecs of the ATT, the undo log,
\* the WAL, the sessions, the CLOG with locks and graph, the call in progress).
TypeOK ==
  /\ TableTypeOK /\ UndoTypeOK /\ WalTypeOK
  /\ ClientTypeOK /\ SharedTypeOK /\ CallTypeOK

\* No reader ever finds a transaction committed in the CLOG whose TXN_COMMIT
\* record could still be lost: commit's order of write, wait and set_status.
CommitDurable ==
  ~Async => \A t \in TxnIds : clog[t] = "Committed" => <<"COMMIT", t>> \in durable

\* A row is never left locked by a transaction that is over, which nobody would
\* release: commit and abort free the rows before they report the end.
LockHolderUnfinished ==
  \A r \in Rows : locks[r] # NoTxn => state[locks[r]] \notin {"Committed", "Aborted"}

\* The transactions whose effects t's snapshot shows, read in the CLOG now.
Seen(t) == {u \in TxnIds : TxnIsCommittedBefore(u, Snapshot(t), clog)}

\* Snapshot isolation: what a registered transaction sees of the others never
\* changes, although every check reads the CLOG as it is at that moment.
SeenStable == [][\A t \in TxnIds : state[t] # "None" => Seen(t)' = Seen(t)]_vars

\* A row changes hands only after its holder's outcome is in the CLOG, so the
\* next writer never meets versions of a transaction still undecided.
ReleaseAfterOutcome ==
  [][\A r \in Rows : locks[r] # NoTxn /\ locks'[r] # locks[r]
                        => clog[locks[r]] # "InProgress"]_vars

\* The detector accuses no one wrongly: unless a member is already ending,
\* everyone on a cycle waits for a row that another member holds.
Cyclic == {t \in TxnIds : OnCycle(t)}
RealDeadlock ==
  (\A t \in Cyclic : state[t] = "Active") =>
    \A t \in Cyclic : blocked[t] # NoRow /\ locks[blocked[t]] \in Cyclic

\* Under a running detector no session waits for a row for ever: a deadlock is
\* seen, one member is aborted, and the rows it held are freed.
WaitEnds == \A t \in TxnIds : blocked[t] # NoRow ~> blocked[t] = NoRow

\* The abstract view: when a transaction is committed, and what it may see.
Phase == [t \in TxnIds |->
            IF state[t] = "None" THEN "idle"
            ELSE IF clog[t] = "InProgress" THEN "running" ELSE clog[t]]
SeenBy == [t \in TxnIds |-> IF state[t] = "None" THEN {} ELSE Seen(t)]
Abs == INSTANCE SnapshotTxn WITH Txns <- TxnIds, phase <- Phase, snap <- SeenBy
AbsSpec == Abs!Spec
=============================================================================
