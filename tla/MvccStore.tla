------------------------------ MODULE MvccStore ------------------------------
(* Versions of rows on a heap page: changed by the DML executors of
   sql/executor/dml.vais, rolled back by the manager's perform_rollback and
   removed by the garbage collectors, on top of the transaction manager.

   dml.vais stamps and inserts versions without asking the conflict detector
   and without recording undo, and nothing else in the repository calls those
   two operations of the manager.  Guarded = FALSE is the executor as it is;
   Guarded = TRUE is the same executor calling check_conflict and record_undo
   around each change, the use the manager's operations are written for.

   The lock keys (Rows) of the manager are the slots of the page. *)
EXTENDS TxnManager, SequencesExt

CONSTANTS
  LoadedRows,  \* rows that transaction 1 has put on the page
  NewRows,     \* rows that INSERT may add
  MaxSlots,    \* bound: versions ever put on the page
  Kinds,       \* the statements issued: a subset of INSERT, DELETE, UPDATE
  Guarded,     \* whether DML goes through check_conflict and record_undo
  PageFaults,  \* whether WAL and page calls of a statement may return Err
  Collector    \* which collector runs: "none", "hnsw" or "posting"

VARIABLES
  heap,     \* the slots: [row, meta, dead, by]
  stmt,     \* the statement a transaction executes: [kind, row, todo, moved]
  lwm,      \* low water mark a collection was given; NoTxn when none runs
  erased    \* history: the rows each transaction's DELETEs have stamped

storeVars == <<heap, stmt, lwm, erased>>
svars == <<vars, storeVars>>

RowIds == LoadedRows \cup NewRows
GcTag == MaxTxn + 2
NoSlot == 0
NoStmt == [kind |-> "none", row |-> CHOOSE r \in RowIds : TRUE, todo |-> {}, moved |-> NoSlot]
Metas == [create : TxnIds, expire : 0..MaxTxn, cmd : 0..MaxCmd, expire_cmd : 0..MaxCmd]
Bodies == [type : {"INSERT", "DELETE", "UPDATE"}, slot : 1..MaxSlots, old : Metas]

\* What the theorems ask of the constants: only sessions end their transactions,
\* and every change to the page can be recorded.
StoreAssumption ==
  /\ MaxSlots \in Nat /\ Rows = 1..MaxSlots
  /\ IsFiniteSet(LoadedRows) /\ Cardinality(LoadedRows) <= MaxSlots
  /\ LoadedRows \cup NewRows # {}
  /\ Kinds \subseteq {"INSERT", "DELETE", "UPDATE"}
  /\ Guarded \in BOOLEAN /\ PageFaults \in BOOLEAN
  /\ Collector \in {"none", "hnsw", "posting"}
  /\ Killers = {}
  /\ Guarded => Bodies \subseteq UndoBodies

\* by names who marked the slot dead; it is there for the properties only.
Version(row, meta) == [row |-> row, meta |-> meta, dead |-> FALSE, by |-> NoTxn]

Kill(h, s, who) == [h EXCEPT ![s].dead = TRUE, ![s].by = who]
Stamp(h, s, t, cmd) == [h EXCEPT ![s].meta = SetExpired(@, t, cmd)]

LoadedPage == [i \in 1..Cardinality(LoadedRows) |->
                 Version(SetToSeq(LoadedRows)[i], NewInsert(1, 0))]

StoreInit ==
  /\ nextTxnId = 2
  /\ state = [t \in TxnIds |-> IF t = 1 THEN "Committed" ELSE "None"]
  /\ clog = [t \in TxnIds |-> IF t = 1 THEN "Committed" ELSE "InProgress"]
  /\ owner = [t \in TxnIds |-> IF t = 1 THEN "closed" ELSE "absent"]
  /\ logged = {"BEGIN", "COMMIT"} \X {1} /\ durable = logged
  /\ snapActive = [t \in TxnIds |-> {}]
  /\ cmdId = [t \in TxnIds |-> 0]
  /\ undoPtr = [t \in TxnIds |-> NULL_UNDO_PTR] /\ undoLog = <<>>
  /\ locks = [r \in Rows |-> NoTxn] /\ waits = {}
  /\ blocked = [t \in TxnIds |-> NoRow] /\ told = [t \in TxnIds |-> NoTxn]
  /\ op = Idle /\ doomed = {}
  /\ heap = LoadedPage
  /\ stmt = [t \in TxnIds |-> NoStmt]
  /\ lwm = NoTxn
  /\ erased = [t \in TxnIds |-> {}]

-----------------------------------------------------------------------------
(* Reading *)

Sees(snap, s) == ~heap[s].dead /\ IsVisible(heap[s].meta, snap, clog)
Visible(t, s) == Sees(Snapshot(t), s)

\* What a transaction beginning now would take as its snapshot.
FreshSnapshot == [txn_id |-> nextTxnId, cmd_id |-> 0, active_txns |-> ActiveIds]

-----------------------------------------------------------------------------
(* DML *)

Executing(t) == SessionFree(t) /\ stmt[t] # NoStmt
EndStmt(t) == stmt' = [stmt EXCEPT ![t] = NoStmt]

\* advance_cmd_id, then collect the matching rows the snapshot shows.
StartStmt(t, kind, row) ==
  /\ stmt[t] = NoStmt
  /\ AdvanceCmdId(t)
  /\ LET snap == [Snapshot(t) EXCEPT !.cmd_id = @ + 1]
         found == {s \in DOMAIN heap : heap[s].row = row /\ Sees(snap, s)}
     IN  /\ kind # "INSERT" => found # {}
         /\ stmt' = [stmt EXCEPT ![t] = [kind |-> kind, row |-> row, todo |-> found,
                                         moved |-> NoSlot]]
  /\ UNCHANGED <<heap, lwm, erased>>

\* In the guarded use the change is recorded first; dml.vais goes straight to it.
Recorded(t, type, s, old) ==
  IF Guarded
  THEN RecordUndo(t, [type |-> type, slot |-> s, old |-> old])
  ELSE UNCHANGED vars

\* execute_insert: a fresh version at the end of the slot directory.
InsertRow(t) ==
  /\ Executing(t) /\ stmt[t].kind = "INSERT"
  /\ Len(heap) < MaxSlots
  /\ LET v == Version(stmt[t].row, NewInsert(t, cmdId[t]))
     IN  /\ heap' = Append(heap, v)
         /\ Recorded(t, "INSERT", Len(heap) + 1, v.meta)
  /\ EndStmt(t)
  /\ UNCHANGED <<lwm, erased>>

\* check_conflict on a row about to be changed.
LockRow(t, s) ==
  /\ Guarded
  /\ Executing(t) /\ s \in stmt[t].todo
  /\ locks[s] = NoTxn
  /\ CheckConflictOk(t, s)
  /\ UNCHANGED storeVars

\* A conflict, a slot killed meanwhile, or an Err from the WAL or the buffer pool
\* ends the statement. What it has changed stays: an update's old version may be
\* stamped and its new one missing.
StmtFails(t) ==
  /\ Executing(t)
  /\ \/ PageFaults
     \/ /\ stmt[t].moved = NoSlot
        /\ \E s \in stmt[t].todo : heap[s].dead \/ (Guarded /\ locks[s] \notin {NoTxn, t})
  /\ EndStmt(t)
  /\ UNCHANGED <<vars, heap, lwm, erased>>

\* Broken variant: changes the row without holding its lock.
BadChangeable(t, s) == Executing(t) /\ s \in stmt[t].todo /\ ~heap[s].dead

Changeable(t, s) ==
  /\ Executing(t) /\ s \in stmt[t].todo
  /\ ~heap[s].dead
  /\ Guarded => locks[s] = t

RowDone(t, s) ==
  LET left == stmt[t].todo \ {s}
  IN  stmt' = [stmt EXCEPT ![t] = IF left = {} THEN NoStmt ELSE [@ EXCEPT !.todo = left]]

\* execute_delete, one matching row: mark_tuple_expired whatever stamp is there.
DeleteRow(t, s) ==
  /\ Changeable(t, s) /\ stmt[t].kind = "DELETE"
  /\ Recorded(t, "DELETE", s, heap[s].meta)
  /\ heap' = Stamp(heap, s, t, cmdId[t])
  /\ erased' = [erased EXCEPT ![t] = @ \cup {heap[s].row}]
  /\ RowDone(t, s)
  /\ UNCHANGED lwm

\* execute_update, one matching row: expire the old version, then insert the new
\* one, on the page as it has become meanwhile.
UpdateExpire(t, s) ==
  /\ Changeable(t, s) /\ stmt[t].kind = "UPDATE" /\ stmt[t].moved = NoSlot
  /\ Len(heap) < MaxSlots
  /\ Recorded(t, "UPDATE", s, heap[s].meta)
  /\ heap' = Stamp(heap, s, t, cmdId[t])
  /\ stmt' = [stmt EXCEPT ![t].moved = s]
  /\ UNCHANGED <<lwm, erased>>

UpdateInsert(t, s) ==
  /\ Executing(t) /\ stmt[t].moved = s
  /\ Len(heap) < MaxSlots
  /\ heap' = Append(heap, Version(heap[s].row, NewInsert(t, cmdId[t])))
  /\ LET left == stmt[t].todo \ {s}
     IN  stmt' = [stmt EXCEPT ![t] = IF left = {} THEN NoStmt
                                     ELSE [@ EXCEPT !.todo = left, !.moved = NoSlot]]
  /\ UNCHANGED <<vars, lwm, erased>>

-----------------------------------------------------------------------------
(* Rollback *)

\* Broken variant: only insertions are taken back.
BadApplyUndo(acc, e) ==
  IF e.body.type = "INSERT" THEN [acc EXCEPT !.heap = Kill(@, e.body.slot, e.txn)] ELSE acc

\* One undo entry: kill the inserted slot, or put the old metadata back, and for
\* an update kill the last slot of the page.  A dead slot refuses its metadata.
ApplyUndo(acc, e) ==
  LET b == e.body
      restored == [acc.heap EXCEPT ![b.slot].meta = b.old]
      last == Len(acc.heap)
  IN  IF b.type = "INSERT" THEN [acc EXCEPT !.heap = Kill(@, b.slot, e.txn)]
      ELSE IF acc.heap[b.slot].dead THEN [acc EXCEPT !.ok = FALSE]
      ELSE IF b.type = "UPDATE" /\ last > b.slot
           THEN [acc EXCEPT !.heap = Kill(restored, last, e.txn)]
      ELSE [acc EXCEPT !.heap = restored]

\* The entry the rollback has reached, then on to the one before it.
UndoNext(acc) ==
  IF acc.ok /\ acc.at # NULL_UNDO_PTR
  THEN [ApplyUndo(acc, undoLog[acc.at]) EXCEPT !.at = undoLog[acc.at].prev]
  ELSE acc

RolledBack(t) ==
  LET undone[n \in 0..MaxUndo] ==
        IF n = 0 THEN [heap |-> heap, ok |-> TRUE, at |-> undoPtr[t]]
        ELSE UndoNext(undone[n - 1])
  IN  undone[MaxUndo]

\* perform_rollback: newest entry first; on an error what was done stays done
\* and abort returns with the transaction still Aborting.
Rollback ==
  /\ At("abort", "undo")
  /\ heap' = RolledBack(op.txn).heap
  /\ IF RolledBack(op.txn).ok
     THEN AbortRollback
     ELSE op' = Idle /\ UNCHANGED <<lifecycle, undoVars, walVars, clientVars, clog,
                                    locks, waits, doomed>>
  /\ UNCHANGED <<stmt, lwm, erased>>

-----------------------------------------------------------------------------
(* Garbage collection *)

\* Broken variant: does not ask for the expiring transaction's outcome.
BadIsGcReady(meta) == meta.expire # INVALID_TXN_ID /\ meta.expire < lwm

\* is_gc_ready of vector/hnsw/delete.vais.
IsGcReady(meta) ==
  /\ meta.expire # INVALID_TXN_ID
  /\ clog[meta.expire] = "Committed"
  /\ meta.expire < lwm

\* The test of compact_posting_list, which does not ask the commit log.
IsGarbage(meta) == meta.expire # INVALID_TXN_ID /\ meta.expire < lwm

GcStart ==
  /\ Collector # "none" /\ lwm = NoTxn
  /\ lwm' = MinActiveTxn
  /\ UNCHANGED <<vars, heap, stmt, erased>>

GcSlot(s) ==
  /\ lwm # NoTxn
  /\ ~heap[s].dead
  /\ IF Collector = "hnsw" THEN IsGcReady(heap[s].meta) ELSE IsGarbage(heap[s].meta)
  /\ heap' = Kill(heap, s, GcTag)
  /\ UNCHANGED <<vars, stmt, lwm, erased>>

GcEnd == lwm # NoTxn /\ lwm' = NoTxn /\ UNCHANGED <<vars, heap, stmt, erased>>

-----------------------------------------------------------------------------
Lifecycle ==
  /\ \/ BeginRegister \/ BeginLog \/ CommitCall
     \/ AbortLog \/ AbortClog \/ AbortFinish \/ ReleaseLocks \/ RemoveFromGraph
     \/ \E t \in TxnIds : stmt[t] = NoStmt /\ (CommitStart(t) \/ OwnerAbort(t))
  /\ UNCHANGED storeVars

Dml(t) ==
  \/ \E kind \in Kinds, row \in RowIds :
       /\ kind = "INSERT" => row \in NewRows \ {heap[s].row : s \in DOMAIN heap}
       /\ StartStmt(t, kind, row)
  \/ InsertRow(t) \/ StmtFails(t)
  \/ \E s \in DOMAIN heap :
       LockRow(t, s) \/ DeleteRow(t, s)
         \/ UpdateExpire(t, s) \/ UpdateInsert(t, s)

Gc == GcStart \/ GcEnd \/ \E s \in DOMAIN heap : GcSlot(s)

StoreNext == Lifecycle \/ (\E t \in TxnIds : Dml(t)) \/ Rollback \/ Gc

StoreSpec == StoreInit /\ [][StoreNext]_svars

-----------------------------------------------------------------------------
(* Properties *)

\* Slots, statements and the collection in progress keep their shape.
StoreTypeOK ==
  /\ heap \in Seq([row : RowIds, meta : Metas, dead : BOOLEAN, by : 0..GcTag])
  /\ Len(heap) <= MaxSlots
  /\ \A t \in TxnIds : stmt[t].row \in RowIds /\ stmt[t].todo \subseteq DOMAIN heap
  /\ lwm \in 0..NoActive
  /\ erased \in [TxnIds -> SUBSET RowIds]

\* A row is on the page for good once its inserter has committed, unless a
\* committed DELETE took it: whatever aborts, rolls back or collects, the next
\* transaction to begin finds a version of it.
PutByCommitted(row) ==
  row \in LoadedRows \/ \E s \in DOMAIN heap :
                          heap[s].row = row /\ clog[heap[s].meta.create] = "Committed"
RowSurvives ==
  \A row \in RowIds :
    (PutByCommitted(row) /\ \A t \in TxnIds : clog[t] = "Committed" => row \notin erased[t])
      => \E s \in DOMAIN heap : heap[s].row = row /\ Sees(FreshSnapshot, s)

\* Nobody sees a row twice: a version and its successor are never both visible,
\* to a running transaction or to the next one.
OneVersionVisible ==
  \A row \in RowIds :
    \A s1, s2 \in {s \in DOMAIN heap : heap[s].row = row /\ Sees(FreshSnapshot, s)} :
      s1 = s2

\* A stamp of a transaction still undecided is only ever taken back by that
\* transaction's own rollback, never overwritten by somebody else's.
KeepsStamps ==
  \A s \in DOMAIN heap :
    LET e == heap[s].meta.expire
    IN  (e # INVALID_TXN_ID /\ clog[e] = "InProgress" /\ heap'[s].meta.expire # e)
          => op.kind = "abort" /\ op.txn = e

\* Eager undo: when abort has returned, none of the transaction's stamps is left
\* on a live version, whatever changes and page errors came before it.
UndoComplete ==
  \A s \in DOMAIN heap : ~heap[s].dead /\ heap[s].meta.expire # INVALID_TXN_ID
                           => state[heap[s].meta.expire] # "Aborted"

\* Collection never takes a version away from a running transaction that sees it.
GcKeepsVisible ==
  [][\A s \in DOMAIN heap, t \in ActiveIds :
       Visible(t, s) => heap'[s].by # GcTag]_svars
=============================================================================
