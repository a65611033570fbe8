-------------------------- MODULE MvccStore_proofs --------------------------
(* Versions on the heap: no row is lost by the executor as it is, and with
   conflict checks and undo an abort takes back exactly what is its own. *)
EXTENDS MvccStore, TxnManager_proofs, FiniteSetTheorems

Slot == [row : RowIds, meta : Metas, dead : BOOLEAN, by : 0..GcTag]

\* A statement names a row, what it has left to do, and the version it moves.
StmtKinds == {"none", "INSERT", "DELETE", "UPDATE"}
Statements == [kind : StmtKinds, row : RowIds, todo : SUBSET Nat, moved : Nat]
StmtInv ==
  /\ stmt \in [TxnIds -> Statements]
  /\ \A t \in TxnIds :
       /\ stmt[t].moved # NoSlot => stmt[t].kind = "UPDATE"
       /\ stmt[t].moved \in {NoSlot} \cup DOMAIN heap
       /\ stmt[t] # NoStmt => SessionFree(t)

\* Aborted in the table is aborted in the CLOG.
AbortedInv ==
  /\ \A t \in TxnIds : state[t] = "Aborted" => clog[t] = "Aborted"
  /\ op.kind = "abort" /\ op.pc \in {"locks", "graph", "state"} => clog[op.txn] = "Aborted"

StoreInv == TypeOK /\ OutcomeInv /\ StoreTypeOK /\ StmtInv /\ AbortedInv

-----------------------------------------------------------------------------
(* The executor as it is *)

\* What came of the version that e stamped: its row is deleted, or has a later
\* version of e's, or e is about to put one on the page.
Followed(s, e) ==
  \/ heap[s].row \in erased[e]
  \/ \E u \in DOMAIN heap : u > s /\ heap[u].row = heap[s].row /\ heap[u].meta.create = e
  \/ stmt[e].moved = s

FollowedInv ==
  \A s \in DOMAIN heap :
    LET e == heap[s].meta.expire
    IN  e # INVALID_TXN_ID => state[e] # "None" /\ Followed(s, e)

\* Only the collector has killed slots.
DeadInv ==
  \A s \in DOMAIN heap :
    heap[s].dead => heap[s].meta.expire # INVALID_TXN_ID /\ clog[heap[s].meta.expire] = "Committed"

LoadedInv ==
  /\ 1 \in TxnIds /\ clog[1] = "Committed"
  /\ \A row \in LoadedRows : \E s \in DOMAIN heap : heap[s].row = row /\ heap[s].meta.create = 1

NoUndoInv == \A t \in TxnIds : undoPtr[t] = NULL_UNDO_PTR

WiredInv == StoreInv /\ FollowedInv /\ DeadInv /\ LoadedInv /\ NoUndoInv

-----------------------------------------------------------------------------
(* The executor with conflict checks and undo *)

\* Entry i takes back a stamp of e on slot s that was not e's second one.
TakesBack(i, s, e) ==
  LET b == undoLog[i].body
  IN  /\ undoLog[i].txn = e /\ b.type # "INSERT" /\ b.slot = s
      /\ b.old.expire # e

\* Entries are chained to the last one of the same transaction before them.
ChainInv ==
  /\ \A i \in 1..Len(undoLog) :
       LET e == undoLog[i]
       IN  /\ e.body \in Bodies /\ e.body.slot \in DOMAIN heap
           /\ e.prev \in 0..i - 1
           /\ e.prev # NULL_UNDO_PTR => undoLog[e.prev].txn = e.txn
           /\ \A j \in e.prev + 1..i - 1 : undoLog[j].txn # e.txn
  /\ \A t \in TxnIds :
       /\ undoPtr[t] # NULL_UNDO_PTR => undoLog[undoPtr[t]].txn = t
       /\ \A j \in undoPtr[t] + 1..Len(undoLog) : undoLog[j].txn # t
  /\ Len(undoLog) <= MaxUndo

\* An undecided transaction holds the rows it has recorded, and what it will put
\* back is not the stamp of anybody else who may still roll back.
EntryInv ==
  \A i \in 1..Len(undoLog) :
    LET e == undoLog[i].txn
        b == undoLog[i].body
    IN  b.type # "INSERT" /\ clog[e] = "InProgress" =>
          /\ locks[b.slot] = e
          /\ b.old.expire \in {INVALID_TXN_ID, e} \/ clog[b.old.expire] = "Committed"
          /\ b.old.expire = e => \E j \in 1..i - 1 : TakesBack(j, b.slot, e)

\* The abort of e is past its rollback.
RollbackDone(e) == op.kind = "abort" /\ op.txn = e /\ op.pc # "undo"

\* A stamp on a live version is of a committed transaction, or of an undecided one
\* that holds the row and can take it back.
StampInv ==
  \A s \in DOMAIN heap :
    LET e == heap[s].meta.expire
    IN  ~heap[s].dead /\ e # INVALID_TXN_ID =>
          /\ clog[e] # "Aborted" /\ ~RollbackDone(e)
          /\ clog[e] = "InProgress" =>
               locks[s] = e /\ \E i \in 1..Len(undoLog) : TakesBack(i, s, e)

GuardedInv == StoreInv /\ ReleaseInv /\ ChainInv /\ EntryInv /\ StampInv

-----------------------------------------------------------------------------
(* Operations on the page *)

\* Marking a slot dead changes nothing else on the page.
LEMMA KillIs ==
  ASSUME NEW h \in Seq(Slot), NEW s \in DOMAIN h, NEW who \in 0..GcTag
  PROVE  LET k == Kill(h, s, who)
         IN  /\ k \in Seq(Slot) /\ Len(k) = Len(h)
             /\ k[s].dead /\ k[s].by = who
             /\ k[s].row = h[s].row /\ k[s].meta = h[s].meta
             /\ \A u \in DOMAIN h : u # s => k[u] = h[u]
<1> DEFINE k == Kill(h, s, who)
<1>1. h[s] \in Slot
  OBVIOUS
<1>2. [h[s] EXCEPT !.dead = TRUE, !.by = who] \in Slot
  BY <1>1 DEF Slot
<1>3. k = [h EXCEPT ![s] = [h[s] EXCEPT !.dead = TRUE, !.by = who]]
  BY DEF Kill
<1>4. k \in Seq(Slot) /\ Len(k) = Len(h) /\ k[s] = [h[s] EXCEPT !.dead = TRUE, !.by = who]
      /\ \A u \in DOMAIN h : u # s => k[u] = h[u]
  BY <1>2, <1>3
<1>5. /\ [h[s] EXCEPT !.dead = TRUE, !.by = who].dead = TRUE
      /\ [h[s] EXCEPT !.dead = TRUE, !.by = who].by = who
      /\ [h[s] EXCEPT !.dead = TRUE, !.by = who].row = h[s].row
      /\ [h[s] EXCEPT !.dead = TRUE, !.by = who].meta = h[s].meta
  BY <1>1 DEF Slot
<1> QED
  BY <1>4, <1>5

\* Other metadata on one slot.
LEMMA RestoreIs ==
  ASSUME NEW h \in Seq(Slot), NEW s \in DOMAIN h, NEW meta \in Metas
  PROVE  LET k == [h EXCEPT ![s].meta = meta]
         IN  /\ k \in Seq(Slot) /\ Len(k) = Len(h)
             /\ k[s].meta = meta /\ k[s].dead = h[s].dead
             /\ k[s].row = h[s].row /\ k[s].by = h[s].by
             /\ \A u \in DOMAIN h : u # s => k[u] = h[u]
<1> DEFINE k == [h EXCEPT ![s].meta = meta]
<1>1. h[s] \in Slot
  OBVIOUS
<1>2. [h[s] EXCEPT !.meta = meta] \in Slot
  BY <1>1 DEF Slot
<1>3. k = [h EXCEPT ![s] = [h[s] EXCEPT !.meta = meta]]
  OBVIOUS
<1>4. k \in Seq(Slot) /\ Len(k) = Len(h) /\ k[s] = [h[s] EXCEPT !.meta = meta]
      /\ \A u \in DOMAIN h : u # s => k[u] = h[u]
  BY <1>2, <1>3
<1>5. /\ [h[s] EXCEPT !.meta = meta].meta = meta
      /\ [h[s] EXCEPT !.meta = meta].dead = h[s].dead
      /\ [h[s] EXCEPT !.meta = meta].row = h[s].row
      /\ [h[s] EXCEPT !.meta = meta].by = h[s].by
  BY <1>1 DEF Slot
<1> QED
  BY <1>4, <1>5

\* A stamp names who expires the version and leaves its creation alone.
LEMMA StampIs ==
  ASSUME NEW h \in Seq(Slot), NEW s \in DOMAIN h, NEW t \in TxnIds, NEW cmd \in 0..MaxCmd
  PROVE  LET k == Stamp(h, s, t, cmd)
         IN  /\ k \in Seq(Slot) /\ Len(k) = Len(h)
             /\ k[s].meta.expire = t /\ k[s].meta.create = h[s].meta.create
             /\ k[s].dead = h[s].dead /\ k[s].row = h[s].row
             /\ \A u \in DOMAIN h : u # s => k[u] = h[u]
<1> DEFINE meta == SetExpired(h[s].meta, t, cmd)
<1>1. h[s] \in Slot
  OBVIOUS
<1>2. meta \in Metas /\ meta.expire = t /\ meta.create = h[s].meta.create
  <2>1. h[s].meta \in Metas
    BY <1>1 DEF Slot
  <2>2. t \in 0..MaxTxn
    BY TxnAssumption DEF TxnIds
  <2> QED
    BY <2>1, <2>2 DEF Metas, SetExpired
<1>3. Stamp(h, s, t, cmd) = [h EXCEPT ![s].meta = meta]
  BY DEF Stamp
<1> HIDE DEF meta
<1> QED
  BY <1>2, <1>3, RestoreIs

\* A new version at the end of the page.
LEMMA AppendIs ==
  ASSUME NEW h \in Seq(Slot), NEW row \in RowIds, NEW t \in TxnIds, NEW cmd \in 0..MaxCmd
  PROVE  LET k == Append(h, Version(row, NewInsert(t, cmd)))
         IN  /\ k \in Seq(Slot) /\ Len(k) = Len(h) + 1
             /\ k[Len(h) + 1].row = row /\ ~k[Len(h) + 1].dead
             /\ k[Len(h) + 1].meta = NewInsert(t, cmd)
             /\ \A u \in DOMAIN h : k[u] = h[u]
<1> DEFINE v == Version(row, NewInsert(t, cmd))
<1>1. NewInsert(t, cmd) \in Metas
  BY TxnAssumption DEF NewInsert, Metas, INVALID_TXN_ID, TxnIds
<1>2. v \in Slot /\ v.row = row /\ v.dead = FALSE /\ v.meta = NewInsert(t, cmd)
  BY <1>1, TxnAssumption DEF Version, Slot, NoTxn, GcTag, TxnIds
<1> HIDE DEF v
<1>3. /\ Append(h, v) \in Seq(Slot) /\ Len(Append(h, v)) = Len(h) + 1
      /\ Append(h, v)[Len(h) + 1] = v /\ \A u \in DOMAIN h : Append(h, v)[u] = h[u]
  BY <1>2
<1> QED
  BY <1>2, <1>3 DEF v

LEMMA NewInsertIs ==
  ASSUME NEW t \in TxnIds, NEW cmd \in 0..MaxCmd
  PROVE  /\ NewInsert(t, cmd) \in Metas
         /\ NewInsert(t, cmd).create = t /\ NewInsert(t, cmd).expire = INVALID_TXN_ID
  BY TxnAssumption DEF NewInsert, Metas, INVALID_TXN_ID, TxnIds

-----------------------------------------------------------------------------
(* The page as the first transaction left it *)

LEMMA PageLoaded ==
  ASSUME StoreAssumption
  PROVE  /\ LoadedPage \in Seq(Slot) /\ Len(LoadedPage) <= MaxSlots
         /\ \A s \in DOMAIN LoadedPage :
              /\ LoadedPage[s].meta = NewInsert(1, 0) /\ LoadedPage[s].dead = FALSE
         /\ \A row \in LoadedRows : \E s \in DOMAIN LoadedPage : LoadedPage[s].row = row
<1> DEFINE n == Cardinality(LoadedRows)
           rows == SetToSeq(LoadedRows)
           v(row) == Version(row, NewInsert(1, 0))
<1>1. n \in Nat /\ n <= MaxSlots /\ IsFiniteSet(LoadedRows)
      /\ ExistsBijection(1..n, LoadedRows)
  BY FS_CardinalityType DEF StoreAssumption
<1>2. rows \in Injection(1..n, LoadedRows)
  <2>1. \E f \in [1..n -> LoadedRows] : IsInjective(f)
    BY <1>1 DEF ExistsBijection, Bijection, Injection
  <2>2. rows \in [1..n -> LoadedRows] /\ IsInjective(rows)
    BY <2>1, Zenon DEF SetToSeq
  <2> QED
    BY <2>2 DEF Injection
<1>3. rows \in Surjection(1..n, LoadedRows)
  <2>1. Cardinality(1..n) = n
    BY <1>1, FS_Interval
  <2> HIDE DEF rows, n
  <2> QED
    BY <1>1, <1>2, <2>1, FS_Injection DEF n
<1>4. rows \in [1..n -> LoadedRows] /\ \A row \in LoadedRows : \E i \in 1..n : rows[i] = row
  BY <1>3 DEF Surjection
<1>5. LoadedPage = [i \in 1..n |-> v(rows[i])]
  BY DEF LoadedPage
<1>6. ASSUME NEW row \in LoadedRows
      PROVE  v(row) \in Slot /\ v(row).row = row /\ v(row).dead = FALSE
             /\ v(row).meta = NewInsert(1, 0)
  <2>1. NewInsert(1, 0) \in Metas
    BY TxnAssumption, NewInsertIs DEF TxnIds
  <2> QED
    BY <2>1, TxnAssumption DEF Version, Slot, NoTxn, GcTag, RowIds
<1> HIDE DEF v, rows, n
<1>7. \A i \in 1..n : LoadedPage[i] = v(rows[i]) /\ LoadedPage[i] \in Slot
  <2>1. \A i \in 1..n : v(rows[i]) \in Slot
    BY <1>4, <1>6
  <2> QED
    BY <1>5, <2>1
<1>8. LoadedPage \in Seq(Slot) /\ Len(LoadedPage) = n
  <2>1. LoadedPage \in [1..n -> Slot]
    BY <1>5, <1>7
  <2> HIDE DEF LoadedPage
  <2> QED
    BY <1>1, <2>1
<1>9. DOMAIN LoadedPage = 1..n
  BY <1>5
<1>10. \A s \in DOMAIN LoadedPage :
         LoadedPage[s].meta = NewInsert(1, 0) /\ LoadedPage[s].dead = FALSE
  <2> SUFFICES ASSUME NEW s \in 1..n
               PROVE  LoadedPage[s].meta = NewInsert(1, 0) /\ LoadedPage[s].dead = FALSE
    BY <1>9, Zenon
  <2>1. rows[s] \in LoadedRows /\ LoadedPage[s] = v(rows[s])
    BY <1>4, <1>7
  <2> QED
    BY <1>6, <2>1, Zenon
<1>11. ASSUME NEW row \in LoadedRows PROVE \E s \in DOMAIN LoadedPage : LoadedPage[s].row = row
  <2>1. PICK i \in 1..n : rows[i] = row
    BY <1>4
  <2>2. LoadedPage[i].row = row
    BY <1>6, <1>7, <2>1, Zenon
  <2> QED
    BY <1>9, <2>2, Zenon
<1> QED
  BY <1>1, <1>8, <1>10, <1>11

LEMMA NoStmtIs ==
  ASSUME StoreAssumption
  PROVE  /\ NoStmt \in Statements
         /\ NoStmt.moved = NoSlot /\ NoStmt.todo = {} /\ NoStmt.kind = "none"
<1>1. (CHOOSE r \in RowIds : TRUE) \in RowIds
  BY DEF StoreAssumption, RowIds
<1> QED
  BY <1>1 DEF NoStmt, Statements, StmtKinds, NoSlot

LEMMA StoreInitInv == ASSUME StoreAssumption, StoreInit PROVE StoreInv
<1>1. 1 \in TxnIds
  BY TxnAssumption DEF TxnIds
<1>2. TypeOK
  <2>1. TableTypeOK
    BY <1>1, TxnAssumption DEF StoreInit, TableTypeOK, NoActive, TxnStates
  <2>2. UndoTypeOK
    BY TxnAssumption DEF StoreInit, UndoTypeOK, NULL_UNDO_PTR
  <2>3. WalTypeOK /\ ClientTypeOK /\ CallTypeOK
    BY <1>1, TxnAssumption DEF StoreInit, WalTypeOK, ClientTypeOK, CallTypeOK, NoTxn
  <2>4. SharedTypeOK
    BY TxnAssumption DEF StoreInit, SharedTypeOK, NoTxn, TxnStatus
  <2> QED
    BY <2>1, <2>2, <2>3, <2>4 DEF TypeOK
<1>3. \A t \in TxnIds :
        /\ t = 1 => state[t] = "Committed" /\ owner[t] = "closed" /\ clog[t] = "Committed"
        /\ t # 1 => state[t] = "None" /\ owner[t] = "absent" /\ clog[t] = "InProgress"
  BY DEF StoreInit
<1>4. OutcomeInv
  <2>1. IdsInv
    BY <1>1, <1>3, TxnAssumption DEF StoreInit, IdsInv, TxnIds
  <2>2. CallInv
    BY DEF StoreInit, CallInv, Idle
  <2>3. DecidedInv /\ SnapInv /\ LockInv
    BY <1>3 DEF DecidedInv, SnapInv, LockInv, StoreInit, MayCommit, Idle
  <2> QED
    BY <2>1, <2>2, <2>3 DEF OutcomeInv
<1>5. StmtInv
  BY NoStmtIs DEF StmtInv, StoreInit
<1>6. StoreTypeOK
  <2>1. heap \in Seq(Slot) /\ Len(heap) <= MaxSlots
    BY PageLoaded DEF StoreInit
  <2>2. lwm \in 0..NoActive
    BY TxnAssumption DEF StoreInit, NoTxn, NoActive
  <2>3. erased \in [TxnIds -> SUBSET RowIds]
    BY DEF StoreInit
  <2>4. \A t \in TxnIds : stmt[t].row \in RowIds /\ stmt[t].todo \subseteq DOMAIN heap
    BY NoStmtIs DEF StoreInit, Statements
  <2> QED
    BY <2>1, <2>2, <2>3, <2>4 DEF StoreTypeOK, Slot
<1>7. AbortedInv
  BY <1>3 DEF AbortedInv, StoreInit, Idle
<1> QED
  BY <1>2, <1>4, <1>5, <1>6, <1>7 DEF StoreInv

-----------------------------------------------------------------------------
(* What a step does to the manager *)

RollbackFails ==
  /\ At("abort", "undo") /\ op' = Idle
  /\ UNCHANGED <<lifecycle, undoVars, walVars, clientVars, clog, locks, waits, doomed>>

LEMMA HeapIs ==
  ASSUME StoreAssumption, StoreTypeOK
  PROVE  /\ heap \in Seq(Slot) /\ Len(heap) \in Nat /\ Len(heap) <= MaxSlots
         /\ DOMAIN heap = 1..Len(heap) /\ DOMAIN heap \subseteq Rows
         /\ \A s \in DOMAIN heap : heap[s] \in Slot /\ heap[s].meta \in Metas
<1>1. heap \in Seq(Slot) /\ Len(heap) <= MaxSlots /\ MaxSlots \in Nat /\ Rows = 1..MaxSlots
  BY DEF StoreTypeOK, Slot, StoreAssumption
<1>2. \A s \in DOMAIN heap : heap[s] \in Slot
  BY <1>1
<1>3. \A s \in DOMAIN heap : heap[s].meta \in Metas
  BY <1>2 DEF Slot
<1>4. Len(heap) \in Nat /\ DOMAIN heap = 1..Len(heap)
  BY <1>1
<1> QED
  BY <1>1, <1>2, <1>3, <1>4

\* The versions a statement records can be recorded.
LEMMA RecordedStep ==
  ASSUME StoreAssumption, NEW t \in TxnIds, NEW s \in Rows, NEW old \in Metas,
         NEW type \in {"INSERT", "DELETE", "UPDATE"}, Recorded(t, type, s, old)
  PROVE  (Guarded /\ Session(t)) \/ UNCHANGED vars
<1>1. CASE Guarded
  <2> DEFINE body == [type |-> type, slot |-> s, old |-> old]
  <2>1. body \in UndoBodies
    BY <1>1 DEF StoreAssumption, Bodies
  <2>2. RecordUndo(t, body)
    BY <1>1 DEF Recorded
  <2> HIDE DEF body
  <2> QED
    BY <1>1, <2>1, <2>2 DEF Session
<1>2. CASE ~Guarded
  BY <1>2 DEF Recorded
<1> QED
  BY <1>1, <1>2

LEMMA DmlStep ==
  ASSUME StoreAssumption, TypeOK, StoreTypeOK, NEW t \in TxnIds, Dml(t)
  PROVE  Session(t) \/ UNCHANGED vars
<1>1. ASSUME NEW kind, NEW row, StartStmt(t, kind, row) PROVE Session(t)
  BY <1>1 DEF StartStmt, Session
<1>2. CASE InsertRow(t)
  <2>1. Len(heap) + 1 \in Rows /\ NewInsert(t, cmdId[t]) \in Metas
    BY <1>2, HeapIs, NewInsertIs DEF InsertRow, StoreAssumption, TypeOK, TableTypeOK
  <2>2. Version(stmt[t].row, NewInsert(t, cmdId[t])).meta = NewInsert(t, cmdId[t])
    BY DEF Version
  <2> QED
    BY <1>2, <2>1, <2>2, RecordedStep DEF InsertRow
<1>3. CASE StmtFails(t)
  BY <1>3 DEF StmtFails
<1>4. ASSUME NEW s \in DOMAIN heap,
             LockRow(t, s) \/ DeleteRow(t, s) \/ UpdateExpire(t, s) \/ UpdateInsert(t, s)
      PROVE  Session(t) \/ UNCHANGED vars
  <2>1. s \in Rows /\ heap[s].meta \in Metas
    BY HeapIs
  <2>2. CASE LockRow(t, s)
    BY <2>1, <2>2 DEF LockRow, Session
  <2>3. CASE DeleteRow(t, s)
    BY <2>1, <2>3, RecordedStep DEF DeleteRow
  <2>4. CASE UpdateExpire(t, s)
    BY <2>1, <2>4, RecordedStep DEF UpdateExpire
  <2>5. CASE UpdateInsert(t, s)
    BY <2>5 DEF UpdateInsert
  <2> QED
    BY <1>4, <2>2, <2>3, <2>4, <2>5
<1> QED
  BY <1>1, <1>2, <1>3, <1>4 DEF Dml

\* Every step is one of the manager's, or the rollback that gives up.
LEMMA ManagerStep ==
  ASSUME StoreAssumption, TypeOK, StoreTypeOK, [StoreNext]_svars
  PROVE  [Next]_vars \/ RollbackFails
<1>1. CASE Lifecycle
  BY <1>1 DEF Lifecycle, Next, CallStep, AbortCall, Session
<1>2. ASSUME NEW t \in TxnIds, Dml(t) PROVE [Next]_vars
  BY <1>2, DmlStep DEF Next
<1>3. CASE Rollback
  BY <1>3 DEF Rollback, RollbackFails, Next, CallStep, AbortCall
<1>4. CASE Gc
  BY <1>4 DEF Gc, GcStart, GcEnd, GcSlot
<1>5. CASE UNCHANGED svars
  BY <1>5 DEF svars
<1> QED
  BY <1>1, <1>2, <1>3, <1>4, <1>5 DEF StoreNext

-----------------------------------------------------------------------------
(* The manager's invariants under these steps *)

LEMMA ManagerTypes ==
  ASSUME StoreAssumption, TypeOK, OutcomeInv, StoreTypeOK, [StoreNext]_svars
  PROVE  TypeOK' /\ OutcomeInv'
<1>1. CASE [Next]_vars
  BY <1>1, TypeNext, OutcomeNext DEF StoreAssumption
<1>2. CASE RollbackFails
  <2>1. TypeOK'
    BY <1>2, TypeKept DEF RollbackFails, TypeOK
  <2>2. OutcomeInv'
    BY <1>2, OutcomeReturn DEF RollbackFails, At, Ending, lifecycle, clientVars
  <2> QED
    BY <2>1, <2>2
<1> QED
  BY <1>1, <1>2, ManagerStep

\* What is aborted in the table has been aborted in the CLOG.
LEMMA AbortedNext ==
  ASSUME Killers = {}, TypeOK, OutcomeInv, AbortedInv, [Next]_vars \/ RollbackFails
  PROVE  AbortedInv'
<1> USE DEF AbortedInv
<1>1. CASE BeginRegister
  <2>1. nextTxnId \in TxnIds /\ state[nextTxnId] = "None" /\ clog' = clog
    <3>1. nextTxnId \in TxnIds
      BY <1>1, TxnAssumption DEF BeginRegister, TxnIds, NoActive, TypeOK, TableTypeOK
    <3>2. state[nextTxnId] = "None" /\ clog[nextTxnId] = "InProgress"
      BY <3>1, TxnAssumption DEF OutcomeInv, IdsInv, TxnIds
    <3> QED
      BY <1>1, <3>1, <3>2 DEF BeginRegister, TypeOK, SharedTypeOK
  <2>2. op'.kind = "begin"
    BY <1>1 DEF BeginRegister, Call
  <2> QED
    BY <1>1, <2>1, <2>2 DEF BeginRegister, TypeOK, TableTypeOK
<1>2. CASE BeginLog \/ CommitLog \/ CommitWait \/ AbortRollback \/ AbortFail \/ AbortLog \/ RollbackFails
  <2>1. state' = state /\ clog' = clog
    BY <1>2 DEF BeginLog, CommitLog, CommitWait, AbortRollback, AbortFail, AbortLog,
       RollbackFails, lifecycle
  <2>2. op'.pc \notin {"locks", "graph", "state"}
    BY <1>2 DEF BeginLog, CommitLog, CommitWait, AbortRollback, AbortFail, AbortLog,
       RollbackFails, Goto, Idle, At, TypeOK, CallTypeOK, Calls
  <2> QED
    BY <2>1, <2>2
<1>3. CASE CommitClog \/ AbortClog
  <2>1. op.txn \in TxnIds /\ state' = state /\ clog[op.txn] = "InProgress"
    BY <1>3, ClogSteps
  <2>2. op'.txn = op.txn /\ op'.kind = op.kind
    BY <1>3 DEF CommitClog, AbortClog, Goto, At, TypeOK, CallTypeOK, Calls, Idle
  <2>3. clog \in [TxnIds -> TxnStatus]
    BY DEF TypeOK, SharedTypeOK
  <2>4. CASE CommitClog
    BY <2>1, <2>2, <2>3, <2>4 DEF CommitClog, At
  <2>5. CASE AbortClog
    BY <2>1, <2>2, <2>3, <2>5 DEF AbortClog, At
  <2> QED
    BY <1>3, <2>4, <2>5
<1>4. CASE CommitFinish \/ AbortFinish
  <2>1. op.txn \in TxnIds /\ clog' = clog /\ op'.kind = "none"
    BY <1>4, OpTxn DEF CommitFinish, AbortFinish, At, TypeOK, Idle
  <2>2. state \in [TxnIds -> TxnStates \cup {"None"}]
    BY DEF TypeOK, TableTypeOK
  <2>3. CASE CommitFinish
    BY <2>1, <2>2, <2>3 DEF CommitFinish
  <2>4. CASE AbortFinish
    BY <2>1, <2>2, <2>4 DEF AbortFinish, At
  <2> QED
    BY <1>4, <2>3, <2>4
<1>5. CASE ReleaseLocks \/ RemoveFromGraph
  <2>1. /\ op'.txn = op.txn /\ op'.kind = op.kind /\ op.pc \in {"locks", "graph"}
        /\ state' = state /\ clog' = clog
    BY <1>5 DEF ReleaseLocks, RemoveFromGraph, Goto, TypeOK, CallTypeOK, Calls, Idle, lifecycle
  <2> QED
    BY <2>1
<1>6. ASSUME NEW t \in TxnIds, Session(t) PROVE AbortedInv'
  <2>1. CASE CommitStart(t) \/ OwnerAbort(t)
    <3>1. clog' = clog /\ op'.pc \in {"wal", "undo"}
      BY <2>1 DEF CommitStart, OwnerAbort, AbortStart, Call
    <3>2. \A u \in TxnIds : state'[u] = "Aborted" => state[u] = "Aborted"
      BY <2>1 DEF CommitStart, OwnerAbort, AbortStart, TypeOK, TableTypeOK
    <3> QED
      BY <3>1, <3>2
  <2>2. CASE ~(CommitStart(t) \/ OwnerAbort(t))
    BY <1>6, <2>2 DEF Session, AdvanceCmdId, AddWaitEdge, CheckConflictOk,
       CheckConflictErr, RecordUndo, lifecycle
  <2> QED
    BY <2>1, <2>2
<1>7. CASE UNCHANGED vars
  BY <1>7 DEF vars, lifecycle
<1> QED
  BY <1>1, <1>2, <1>3, <1>4, <1>5, <1>6, <1>7, NoThirdParty
  DEF Next, CallStep, CommitCall, AbortCall

-----------------------------------------------------------------------------
(* Statements *)

\* A session that executes has not been answered: its outcome is open.
LEMMA BusyUndecided ==
  ASSUME OutcomeInv, NEW t \in TxnIds, SessionFree(t) PROVE clog[t] = "InProgress"
  BY DEF OutcomeInv, DecidedInv, CallInv, Ending, SessionFree

\* While one session executes, no other begins, ends or is decided by its step.
LEMMA DmlKeeps ==
  ASSUME NEW t \in TxnIds, Dml(t)
  PROVE  /\ UNCHANGED <<nextTxnId, state, snapActive, clog, owner, op, lwm>>
         /\ SessionFree(t)
<1>1. ASSUME NEW kind, NEW row, StartStmt(t, kind, row)
      PROVE  UNCHANGED <<nextTxnId, state, snapActive, clog, owner, op, lwm>> /\ SessionFree(t)
  BY <1>1 DEF StartStmt, AdvanceCmdId, clientVars
<1>2. ASSUME NEW type, NEW s, NEW old, Recorded(t, type, s, old)
      PROVE  UNCHANGED <<nextTxnId, state, snapActive, clog, owner, op>>
  BY <1>2 DEF Recorded, RecordUndo, vars, lifecycle, clientVars
<1>3. CASE InsertRow(t)
  BY <1>2, <1>3 DEF InsertRow, Executing
<1>4. CASE StmtFails(t)
  BY <1>4 DEF StmtFails, Executing, vars, lifecycle, clientVars
<1>5. ASSUME NEW s \in DOMAIN heap,
             LockRow(t, s) \/ DeleteRow(t, s) \/ UpdateExpire(t, s) \/ UpdateInsert(t, s)
      PROVE  UNCHANGED <<nextTxnId, state, snapActive, clog, owner, op, lwm>> /\ SessionFree(t)
  <2>1. CASE LockRow(t, s)
    BY <2>1 DEF LockRow, Executing, CheckConflictOk, lifecycle, storeVars
  <2>2. CASE DeleteRow(t, s)
    BY <1>2, <2>2 DEF DeleteRow, Changeable, Executing
  <2>3. CASE UpdateExpire(t, s)
    BY <1>2, <2>3 DEF UpdateExpire, Changeable, Executing
  <2>4. CASE UpdateInsert(t, s)
    BY <2>4 DEF UpdateInsert, Executing, vars, lifecycle, clientVars
  <2> QED
    BY <1>5, <2>1, <2>2, <2>3, <2>4
<1> QED
  BY <1>1, <1>3, <1>4, <1>5 DEF Dml

\* A session that executes stays free while the manager serves others.
LEMMA LifecycleBusy ==
  ASSUME TypeOK, OutcomeInv, Lifecycle, NEW t \in TxnIds, stmt[t] # NoStmt, SessionFree(t)
  PROVE  SessionFree(t)'
<1> USE DEF SessionFree
<1>1. t \in Nat /\ t # NoTxn /\ owner \in [TxnIds -> {"absent", "open", "closed"}]
  BY TxnAssumption DEF TxnIds, NoTxn, TypeOK, ClientTypeOK
<1>2. CASE BeginRegister
  <2>1. nextTxnId # t
    BY <1>1, TxnAssumption DEF OutcomeInv, IdsInv, TypeOK, TableTypeOK, NoActive, TxnIds
  <2> QED
    BY <1>2, <2>1 DEF BeginRegister, Call, clientVars
<1>3. CASE BeginLog
  BY <1>1, <1>3 DEF BeginLog, Idle
<1>4. CASE CommitLog \/ CommitWait \/ CommitClog \/ AbortLog \/ AbortClog \/ ReleaseLocks
             \/ RemoveFromGraph
  <2>1. owner' = owner
    BY <1>4 DEF CommitLog, CommitWait, CommitClog, AbortLog, AbortClog, ReleaseLocks,
       RemoveFromGraph, clientVars
  <2>2. (op'.txn = op.txn /\ op'.by = op.by) \/ op' = Idle
    BY <1>4 DEF CommitLog, CommitWait, CommitClog, AbortLog, AbortClog, ReleaseLocks,
       RemoveFromGraph, Goto, At, TypeOK, CallTypeOK, Calls, Idle
  <2> QED
    BY <1>1, <2>1, <2>2 DEF Idle
<1>5. CASE CommitFinish \/ AbortFinish
  <2>1. op.txn # t
    BY <1>5 DEF CommitFinish, AbortFinish, At, OutcomeInv, CallInv
  <2> QED
    BY <1>1, <1>5, <2>1 DEF CommitFinish, AbortFinish, Idle
<1>6. ASSUME NEW u \in TxnIds, stmt[u] = NoStmt, CommitStart(u) \/ OwnerAbort(u)
      PROVE  SessionFree(t)'
  BY <1>1, <1>6 DEF CommitStart, OwnerAbort, AbortStart, Call, clientVars
<1> QED
  BY <1>2, <1>3, <1>4, <1>5, <1>6 DEF Lifecycle, CommitCall

LEMMA RowDoneIs ==
  ASSUME StoreAssumption, stmt \in [TxnIds -> Statements], NEW t \in TxnIds, NEW s, RowDone(t, s)
  PROVE  /\ stmt' \in [TxnIds -> Statements]
         /\ \A u \in TxnIds : u # t => stmt'[u] = stmt[u]
         /\ \/ stmt'[t] = NoStmt
            \/ /\ stmt'[t].todo \subseteq stmt[t].todo /\ stmt'[t].moved = stmt[t].moved
               /\ stmt'[t].kind = stmt[t].kind
<1> DEFINE left == stmt[t].todo \ {s}
<1>1. left \in SUBSET Nat /\ stmt[t] \in Statements
  BY DEF Statements
<1>2. /\ [stmt[t] EXCEPT !.todo = left] \in Statements
      /\ [stmt[t] EXCEPT !.todo = left].todo = left
      /\ [stmt[t] EXCEPT !.todo = left].moved = stmt[t].moved
      /\ [stmt[t] EXCEPT !.todo = left].kind = stmt[t].kind
  BY <1>1 DEF Statements
<1>3. stmt' = [stmt EXCEPT ![t] = IF left = {} THEN NoStmt ELSE [stmt[t] EXCEPT !.todo = left]]
  BY DEF RowDone
<1>4. NoStmt \in Statements /\ left \subseteq stmt[t].todo
  BY NoStmtIs
<1> HIDE DEF left
<1>5. stmt'[t] = NoStmt \/ stmt'[t] = [stmt[t] EXCEPT !.todo = left]
  BY <1>3
<1> QED
  BY <1>2, <1>3, <1>4, <1>5

\* What a session's step may do to statements.
StmtMove(t) ==
  /\ stmt' \in [TxnIds -> Statements]
  /\ \A u \in TxnIds : u # t => stmt'[u] = stmt[u]
  /\ stmt'[t].todo \subseteq DOMAIN heap
  /\ stmt'[t].moved \in {NoSlot} \cup DOMAIN heap
  /\ stmt'[t].moved # NoSlot => stmt'[t].kind = "UPDATE"

LEMMA StmtMoves ==
  ASSUME StoreAssumption, TypeOK, StoreTypeOK, StmtInv, NEW t \in TxnIds, Dml(t)
  PROVE  StmtMove(t)
<1>1. /\ stmt \in [TxnIds -> Statements] /\ stmt[t].todo \subseteq DOMAIN heap
      /\ stmt[t].moved \in {NoSlot} \cup DOMAIN heap
      /\ stmt[t].moved # NoSlot => stmt[t].kind = "UPDATE"
      /\ DOMAIN heap \subseteq Nat
  BY HeapIs DEF StmtInv, StoreTypeOK
<1>2. /\ NoStmt \in Statements /\ NoStmt.todo = {} /\ NoStmt.moved = NoSlot
  BY NoStmtIs
<1>3. CASE EndStmt(t)
  <2>1. stmt'[t] = NoStmt /\ stmt' \in [TxnIds -> Statements]
        /\ \A u \in TxnIds : u # t => stmt'[u] = stmt[u]
    BY <1>1, <1>2, <1>3 DEF EndStmt
  <2> QED
    BY <1>2, <2>1 DEF StmtMove
<1>4. ASSUME NEW kind \in Kinds, NEW row \in RowIds, StartStmt(t, kind, row) PROVE StmtMove(t)
  <2>1. PICK found \in SUBSET DOMAIN heap :
          stmt' = [stmt EXCEPT ![t] = [kind |-> kind, row |-> row, todo |-> found,
                                       moved |-> NoSlot]]
    BY <1>4, Zenon DEF StartStmt
  <2> DEFINE new == [kind |-> kind, row |-> row, todo |-> found, moved |-> NoSlot]
  <2>2. new \in Statements /\ new.todo = found /\ new.moved = NoSlot
    BY <1>1 DEF Statements, StmtKinds, NoSlot, StoreAssumption
  <2>3. stmt' = [stmt EXCEPT ![t] = new]
    BY <2>1
  <2> HIDE DEF new
  <2>4. stmt'[t] = new /\ stmt' \in [TxnIds -> Statements]
        /\ \A u \in TxnIds : u # t => stmt'[u] = stmt[u]
    BY <1>1, <2>2, <2>3
  <2> QED
    BY <2>2, <2>4 DEF StmtMove
<1>5. ASSUME NEW s, RowDone(t, s) PROVE StmtMove(t)
  BY <1>1, <1>2, <1>5, RowDoneIs DEF StmtMove
<1>6. ASSUME NEW s \in DOMAIN heap, UpdateExpire(t, s) PROVE StmtMove(t)
  <2>1. /\ stmt' = [stmt EXCEPT ![t] = [stmt[t] EXCEPT !.moved = s]]
        /\ stmt[t].kind = "UPDATE"
    BY <1>6 DEF UpdateExpire
  <2> DEFINE new == [stmt[t] EXCEPT !.moved = s]
  <2>2. new \in Statements /\ new.todo = stmt[t].todo /\ new.moved = s /\ new.kind = stmt[t].kind
    BY <1>1 DEF Statements
  <2> HIDE DEF new
  <2>4. stmt'[t] = new /\ stmt' \in [TxnIds -> Statements]
        /\ \A u \in TxnIds : u # t => stmt'[u] = stmt[u]
    BY <1>1, <2>1, <2>2 DEF new
  <2> QED
    BY <1>1, <2>1, <2>2, <2>4 DEF StmtMove
<1>7. ASSUME NEW s \in DOMAIN heap, UpdateInsert(t, s) PROVE StmtMove(t)
  <2> DEFINE left == stmt[t].todo \ {s}
             new == [stmt[t] EXCEPT !.todo = left, !.moved = NoSlot]
  <2>1. stmt' = [stmt EXCEPT ![t] = IF left = {} THEN NoStmt ELSE new]
    BY <1>7 DEF UpdateInsert
  <2>2. new \in Statements /\ new.todo \subseteq stmt[t].todo /\ new.moved = NoSlot
    <3>1. stmt[t] \in Statements /\ left \in SUBSET Nat
      BY <1>1 DEF Statements
    <3> HIDE DEF left
    <3>2. new \in Statements /\ new.todo = left /\ new.moved = NoSlot
      BY <3>1 DEF Statements, NoSlot
    <3> QED
      BY <3>2 DEF left
  <2> HIDE DEF new, left
  <2>4. (stmt'[t] = new \/ stmt'[t] = NoStmt) /\ stmt' \in [TxnIds -> Statements]
        /\ \A u \in TxnIds : u # t => stmt'[u] = stmt[u]
    BY <1>1, <1>2, <2>1, <2>2
  <2> QED
    BY <1>1, <1>2, <2>2, <2>4 DEF StmtMove
<1>8. CASE UNCHANGED stmt
  BY <1>1, <1>8 DEF StmtMove
<1>9. ASSUME NEW s \in DOMAIN heap,
             LockRow(t, s) \/ DeleteRow(t, s) \/ UpdateExpire(t, s) \/ UpdateInsert(t, s)
      PROVE  StmtMove(t)
  BY <1>5, <1>6, <1>7, <1>8, <1>9 DEF LockRow, DeleteRow, storeVars
<1> QED
  BY <1>3, <1>4, <1>9 DEF Dml, InsertRow, StmtFails

-----------------------------------------------------------------------------
(* Slots *)

\* A session adds a version at the end or stamps a live one.
Adds(t, row) ==
  Len(heap) < MaxSlots /\ heap' = Append(heap, Version(row, NewInsert(t, cmdId[t])))
Stamps(t, s) == ~heap[s].dead /\ heap' = Stamp(heap, s, t, cmdId[t])

LEMMA HeapMoves ==
  ASSUME StoreAssumption, TypeOK, StoreTypeOK, NEW t \in TxnIds, Dml(t)
  PROVE  \/ heap' = heap
         \/ \E row \in RowIds : Adds(t, row)
         \/ \E s \in DOMAIN heap : Stamps(t, s)
<1>1. CASE InsertRow(t)
  <2>1. stmt[t].row \in RowIds
    BY DEF StoreTypeOK
  <2> QED
    BY <1>1, <2>1, Zenon DEF InsertRow, Adds
<1>2. ASSUME NEW s \in DOMAIN heap,
             LockRow(t, s) \/ DeleteRow(t, s) \/ UpdateExpire(t, s) \/ UpdateInsert(t, s)
      PROVE  \/ heap' = heap
             \/ \E row \in RowIds : Adds(t, row)
             \/ Stamps(t, s)
  <2>1. heap[s].row \in RowIds
    BY HeapIs DEF Slot
  <2>2. CASE LockRow(t, s)
    BY <2>2 DEF LockRow, storeVars
  <2>3. CASE DeleteRow(t, s)
    BY <2>3 DEF DeleteRow, Changeable, Stamps
  <2>4. CASE UpdateExpire(t, s)
    BY <2>4 DEF UpdateExpire, Changeable, Stamps
  <2>5. CASE UpdateInsert(t, s)
    BY <2>1, <2>5, Zenon DEF UpdateInsert, Adds
  <2> QED
    BY <1>2, <2>2, <2>3, <2>4, <2>5
<1> QED
  BY <1>1, <1>2, Zenon DEF Dml, StartStmt, StmtFails

LEMMA AddsIs ==
  ASSUME StoreAssumption, TypeOK, StoreTypeOK, NEW t \in TxnIds, NEW row \in RowIds, Adds(t, row)
  PROVE  /\ heap' \in Seq(Slot) /\ Len(heap') = Len(heap) + 1 /\ Len(heap') <= MaxSlots
         /\ heap'[Len(heap) + 1].row = row /\ ~heap'[Len(heap) + 1].dead
         /\ heap'[Len(heap) + 1].meta = NewInsert(t, cmdId[t])
         /\ \A u \in DOMAIN heap : heap'[u] = heap[u]
<1>1. heap \in Seq(Slot) /\ cmdId[t] \in 0..MaxCmd /\ Len(heap) \in Nat
  BY HeapIs DEF TypeOK, TableTypeOK
<1>2. heap' = Append(heap, Version(row, NewInsert(t, cmdId[t]))) /\ Len(heap) + 1 <= MaxSlots
  BY <1>1 DEF Adds, StoreAssumption
<1>5. PICK cmd \in 0..MaxCmd : cmd = cmdId[t]
  BY <1>1
<1> DEFINE page == Append(heap, Version(row, NewInsert(t, cmd)))
<1>3. /\ page \in Seq(Slot) /\ Len(page) = Len(heap) + 1
      /\ page[Len(heap) + 1].row = row /\ ~page[Len(heap) + 1].dead
      /\ page[Len(heap) + 1].meta = NewInsert(t, cmd)
      /\ \A u \in DOMAIN heap : page[u] = heap[u]
  BY <1>1, AppendIs
<1>4. heap' = page
  BY <1>2, <1>5
<1> HIDE DEF page
<1> QED
  BY <1>2, <1>3, <1>4, <1>5

LEMMA StampsIs ==
  ASSUME StoreAssumption, TypeOK, StoreTypeOK, NEW t \in TxnIds, NEW s \in DOMAIN heap, Stamps(t, s)
  PROVE  /\ heap' \in Seq(Slot) /\ Len(heap') = Len(heap)
         /\ heap'[s].meta.expire = t /\ heap'[s].meta.create = heap[s].meta.create
         /\ heap'[s].dead = heap[s].dead /\ heap'[s].row = heap[s].row
         /\ \A u \in DOMAIN heap : u # s => heap'[u] = heap[u]
<1>1. heap \in Seq(Slot) /\ cmdId[t] \in 0..MaxCmd
  BY HeapIs DEF TypeOK, TableTypeOK
<1> QED
  BY <1>1, StampIs DEF Stamps

LEMMA GcSlotIs ==
  ASSUME StoreAssumption, StoreTypeOK, NEW s \in DOMAIN heap, GcSlot(s)
  PROVE  /\ heap' \in Seq(Slot) /\ Len(heap') = Len(heap)
         /\ heap'[s].dead /\ heap'[s].row = heap[s].row /\ heap'[s].meta = heap[s].meta
         /\ \A u \in DOMAIN heap : u # s => heap'[u] = heap[u]
<1>1. heap \in Seq(Slot)
  BY HeapIs
<1>4. PICK who \in 0..GcTag : who = GcTag
  BY TxnAssumption DEF GcTag
<1> DEFINE page == Kill(heap, s, who)
<1>2. /\ page \in Seq(Slot) /\ Len(page) = Len(heap)
      /\ page[s].dead /\ page[s].row = heap[s].row /\ page[s].meta = heap[s].meta
      /\ \A u \in DOMAIN heap : u # s => page[u] = heap[u]
  BY <1>1, KillIs
<1>3. heap' = page
  BY <1>4 DEF GcSlot
<1> HIDE DEF page
<1> QED
  BY <1>2, <1>3

LEMMA MinActiveIs == ASSUME TypeOK PROVE MinActiveTxn \in 0..NoActive
<1>1. NoActive \in Nat /\ ActiveIds \subseteq TxnIds /\ TxnIds \subseteq 0..NoActive
  BY TxnAssumption DEF NoActive, ActiveIds, TxnIds
<1>2. CASE ActiveIds = {}
  BY <1>1, <1>2 DEF MinActiveTxn
<1>3. CASE ActiveIds # {}
  <2>1. ActiveIds \subseteq Nat
    BY <1>1
  <2>2. \E t \in ActiveIds : \A u \in ActiveIds : t <= u
    BY <1>3, <2>1, LeastNat
  <2>3. MinActiveTxn \in ActiveIds
    BY <1>3, <2>2 DEF MinActiveTxn
  <2> QED
    BY <1>1, <2>3
<1> QED
  BY <1>2, <1>3

\* A step of a session, of the manager or of the collector keeps the page in shape.
LEMMA PageTypes ==
  ASSUME StoreAssumption, TypeOK, StoreTypeOK, [StoreNext]_svars,
         Rollback => heap' \in Seq(Slot) /\ Len(heap') = Len(heap)
  PROVE  heap' \in Seq(Slot) /\ Len(heap) <= Len(heap') /\ Len(heap') <= MaxSlots
<1>1. heap \in Seq(Slot) /\ Len(heap) \in Nat /\ Len(heap) <= MaxSlots
  BY HeapIs
<1>2. ASSUME NEW t \in TxnIds, Dml(t)
      PROVE  heap' \in Seq(Slot) /\ Len(heap) <= Len(heap') /\ Len(heap') <= MaxSlots
  <2>1. ASSUME NEW row \in RowIds, Adds(t, row)
        PROVE  heap' \in Seq(Slot) /\ Len(heap') = Len(heap) + 1 /\ Len(heap') <= MaxSlots
    BY <2>1, AddsIs
  <2>2. ASSUME NEW s \in DOMAIN heap, Stamps(t, s)
        PROVE  heap' \in Seq(Slot) /\ Len(heap') = Len(heap)
    BY <2>2, StampsIs
  <2> QED
    BY <1>1, <1>2, <2>1, <2>2, HeapMoves
<1>3. ASSUME NEW s \in DOMAIN heap, GcSlot(s) PROVE heap' \in Seq(Slot) /\ Len(heap') = Len(heap)
  BY <1>3, GcSlotIs
<1>4. CASE Lifecycle \/ GcStart \/ GcEnd \/ UNCHANGED svars
  BY <1>1, <1>4 DEF Lifecycle, GcStart, GcEnd, svars, storeVars
<1> QED
  BY <1>1, <1>2, <1>3, <1>4 DEF StoreNext, Gc

LEMMA StoreTypeNext ==
  ASSUME StoreAssumption, StoreInv, [StoreNext]_svars,
         Rollback => heap' \in Seq(Slot) /\ Len(heap') = Len(heap)
  PROVE  StoreTypeOK' /\ StmtInv'
<1> USE DEF StoreInv
<1>1. /\ heap' \in Seq(Slot) /\ Len(heap') <= MaxSlots
      /\ DOMAIN heap \subseteq DOMAIN heap'
  <2>1. heap' \in Seq(Slot) /\ Len(heap) <= Len(heap') /\ Len(heap') <= MaxSlots
    BY PageTypes
  <2>2. heap \in Seq(Slot)
    BY HeapIs
  <2> QED
    BY <2>1, <2>2
<1>2. /\ stmt \in [TxnIds -> Statements]
      /\ \A t \in TxnIds : stmt[t].todo \subseteq DOMAIN heap
      /\ lwm \in 0..NoActive /\ erased \in [TxnIds -> SUBSET RowIds]
  BY DEF StoreTypeOK, StmtInv
<1>3. ASSUME stmt' \in [TxnIds -> Statements],
             \A t \in TxnIds : stmt'[t].todo \subseteq DOMAIN heap',
             lwm' \in 0..NoActive, erased' \in [TxnIds -> SUBSET RowIds]
      PROVE  StoreTypeOK'
  <2>1. \A t \in TxnIds : stmt'[t].row \in RowIds
    BY <1>3 DEF Statements
  <2> QED
    BY <1>1, <1>3, <2>1 DEF StoreTypeOK, Slot
<1>4. ASSUME NEW t \in TxnIds, Dml(t) PROVE StoreTypeOK' /\ StmtInv'
  <2>1. StmtMove(t) /\ UNCHANGED <<owner, op, lwm>> /\ SessionFree(t)
    BY <1>4, StmtMoves, DmlKeeps
  <2>2. erased' \in [TxnIds -> SUBSET RowIds]
    <3>1. ASSUME NEW s \in DOMAIN heap, DeleteRow(t, s) PROVE erased' \in [TxnIds -> SUBSET RowIds]
      <4>1. heap[s].row \in RowIds
        BY HeapIs DEF Slot
      <4> QED
        BY <1>2, <3>1, <4>1 DEF DeleteRow
    <3>2. CASE UNCHANGED erased
      BY <1>2, <3>2
    <3> QED
      BY <1>4, <3>1, <3>2
      DEF Dml, StartStmt, InsertRow, StmtFails, LockRow, UpdateExpire, UpdateInsert, storeVars
  <2>3. StoreTypeOK'
    <3>1. \A u \in TxnIds : stmt'[u].todo \subseteq DOMAIN heap'
      BY <1>1, <1>2, <2>1 DEF StmtMove
    <3> QED
      BY <1>2, <1>3, <2>1, <2>2, <3>1 DEF StmtMove
  <2>4. StmtInv'
    <3>1. stmt' \in [TxnIds -> Statements]
      BY <2>1 DEF StmtMove
    <3>2. ASSUME NEW u \in TxnIds
          PROVE  /\ stmt'[u].moved # NoSlot => stmt'[u].kind = "UPDATE"
                 /\ stmt'[u].moved \in {NoSlot} \cup DOMAIN heap'
                 /\ (stmt'[u] # NoStmt => SessionFree(u)')
      <4>1. CASE u = t
        BY <1>1, <2>1, <4>1 DEF StmtMove, SessionFree
      <4>2. CASE u # t
        <5>1. stmt'[u] = stmt[u] /\ (SessionFree(u)' <=> SessionFree(u))
          BY <2>1, <4>2 DEF StmtMove, SessionFree
        <5> QED
          BY <1>1, <5>1 DEF StmtInv
      <4> QED
        BY <4>1, <4>2
    <3> QED
      BY <3>1, <3>2 DEF StmtInv
  <2> QED
    BY <2>3, <2>4
<1>5. CASE Lifecycle
  <2>1. UNCHANGED <<heap, stmt, lwm, erased>>
    BY <1>5 DEF Lifecycle, storeVars
  <2>2. StoreTypeOK'
    BY <2>1 DEF StoreTypeOK
  <2>3. \A u \in TxnIds : stmt[u] # NoStmt => SessionFree(u)'
    BY <1>5, LifecycleBusy DEF StmtInv
  <2> QED
    BY <2>1, <2>2, <2>3 DEF StmtInv
<1>6. CASE Rollback
  <2>1. UNCHANGED <<stmt, lwm, erased, owner>>
    BY <1>6 DEF Rollback, AbortRollback, clientVars
  <2>2. (op'.txn = op.txn /\ op'.by = op.by) \/ op' = Idle
    BY <1>6 DEF Rollback, AbortRollback, Goto, At, TypeOK, CallTypeOK, Calls, Idle
  <2>3. StoreTypeOK'
    <3>1. \A u \in TxnIds : stmt'[u].todo \subseteq DOMAIN heap'
      BY <1>1, <1>2, <2>1
    <3> QED
      BY <1>2, <1>3, <2>1, <3>1
  <2>4. \A u \in TxnIds : stmt[u] # NoStmt => SessionFree(u)'
    <3>1. \A u \in TxnIds : u # NoTxn
      BY TxnAssumption DEF TxnIds, NoTxn
    <3> QED
      BY <2>1, <2>2, <3>1 DEF StmtInv, SessionFree, Idle
  <2> QED
    BY <1>1, <1>2, <2>1, <2>3, <2>4 DEF StmtInv
<1>7. CASE Gc \/ UNCHANGED svars
  <2>1. UNCHANGED <<stmt, erased, owner, op>> /\ lwm' \in 0..NoActive
    <3>1. NoTxn \in 0..NoActive
      BY TxnAssumption DEF NoTxn, NoActive
    <3> QED
      BY <1>2, <1>7, <3>1, MinActiveIs
      DEF Gc, GcStart, GcEnd, GcSlot, svars, storeVars, vars, clientVars
  <2>2. StoreTypeOK'
    <3>1. \A u \in TxnIds : stmt'[u].todo \subseteq DOMAIN heap'
      BY <1>1, <1>2, <2>1
    <3> QED
      BY <1>2, <1>3, <2>1, <3>1
  <2>3. StmtInv'
    BY <1>1, <1>2, <2>1 DEF StmtInv, SessionFree
  <2> QED
    BY <2>2, <2>3
<1> QED
  BY <1>4, <1>5, <1>6, <1>7 DEF StoreNext

\* The shared invariant, given what a rollback does to the page.
LEMMA StoreInvNext ==
  ASSUME StoreAssumption, StoreInv, [StoreNext]_svars,
         Rollback => heap' \in Seq(Slot) /\ Len(heap') = Len(heap)
  PROVE  StoreInv'
<1>1. StoreTypeOK' /\ StmtInv'
  BY StoreTypeNext
<1>2. TypeOK' /\ OutcomeInv'
  BY ManagerTypes DEF StoreInv
<1>3. AbortedInv'
  BY ManagerStep, AbortedNext DEF StoreInv, StoreAssumption
<1> QED
  BY <1>1, <1>2, <1>3 DEF StoreInv

\* An outcome that is decided stays, and so does an entry of the table.
LEMMA OutcomesStay ==
  ASSUME StoreAssumption, StoreInv, [StoreNext]_svars, NEW t \in TxnIds
  PROVE  /\ state[t] # "None" => state'[t] # "None"
         /\ clog[t] # "InProgress" => clog'[t] = clog[t]
<1> USE DEF StoreInv, StoreAssumption
<1>1. CASE RollbackFails
  BY <1>1 DEF RollbackFails, lifecycle
<1>2. CASE [Next]_vars
  <2>1. state[t] # "None" => state'[t] # "None"
    BY <1>2, SeenKept
  <2>2. CASE BeginRegister
    <3>1. clog[nextTxnId] = "InProgress"
      BY <2>2, TxnAssumption
      DEF BeginRegister, OutcomeInv, IdsInv, TxnIds, TypeOK, TableTypeOK, NoActive
    <3> QED
      BY <2>1, <2>2, <3>1 DEF BeginRegister, TypeOK, SharedTypeOK
  <2>3. CASE CommitClog \/ AbortClog
    <3>1. clog[op.txn] = "InProgress" /\ \A u \in TxnIds : u # op.txn => clog'[u] = clog[u]
      BY <2>3, ClogSteps DEF TypeOK, SharedTypeOK
    <3> QED
      BY <2>1, <3>1
  <2>4. CASE TableKept
    BY <2>1, <2>4 DEF TableKept
  <2> QED
    BY <1>2, <2>2, <2>3, <2>4, OtherSteps
<1> QED
  BY <1>1, <1>2, ManagerStep

-----------------------------------------------------------------------------
(* Following the undo chain *)

UndoStart(t) == [heap |-> heap, ok |-> TRUE, at |-> undoPtr[t]]

\* U[n] is what the rollback of t has done after n entries.
UndoneUpTo(U, t, m) ==
  U = [n \in 0..m |-> IF n = 0 THEN UndoStart(t) ELSE UndoNext(U[n - 1])]

\* The recursive definition of RolledBack defines a function.
LEMMA UndoneExists ==
  ASSUME NEW t, NEW m \in Nat
  PROVE  \E U : UndoneUpTo(U, t, m)
<1> DEFINE T == {n \in Nat : ~\E U : UndoneUpTo(U, t, n)}
<1>1. SUFFICES ASSUME T # {} PROVE FALSE
  OBVIOUS
<1>2. PICK n \in T : \A k \in T : n <= k
  BY <1>1, LeastNat
<1>3. n # 0
  <2>1. UndoneUpTo([i \in 0..0 |-> UndoStart(t)], t, 0)
    BY DEF UndoneUpTo
  <2> QED
    BY <2>1, <1>2
<1>4. n - 1 \in Nat /\ n - 1 \notin T
  BY <1>2, <1>3
<1>5. PICK U : UndoneUpTo(U, t, n - 1)
  BY <1>4
<1> DEFINE Q == [i \in 0..n |-> IF i = n THEN UndoNext(U[n - 1]) ELSE U[i]]
<1>6. UndoneUpTo(Q, t, n)
  <2>1. \A i \in 0..n : Q[i] = IF i = 0 THEN UndoStart(t) ELSE UndoNext(Q[i - 1])
    <3> SUFFICES ASSUME NEW i \in 0..n
                 PROVE  Q[i] = IF i = 0 THEN UndoStart(t) ELSE UndoNext(Q[i - 1])
      OBVIOUS
    <3>1. \A j \in 0..n - 1 : U[j] = IF j = 0 THEN UndoStart(t) ELSE UndoNext(U[j - 1])
      BY <1>5 DEF UndoneUpTo
    <3>2. CASE i = n
      BY <1>3, <1>4, <3>2
    <3>3. CASE i # n
      <4>1. i \in 0..n - 1 /\ (i # 0 => i - 1 \in 0..n /\ i - 1 # n)
        BY <3>3, <1>4
      <4>2. Q[i] = U[i] /\ (i # 0 => Q[i - 1] = U[i - 1])
        BY <3>3, <4>1
      <4>3. U[i] = IF i = 0 THEN UndoStart(t) ELSE UndoNext(U[i - 1])
        BY <3>1, <4>1
      <4> HIDE DEF Q
      <4> QED
        BY <4>2, <4>3
    <3> QED
      BY <3>2, <3>3
  <2> QED
    BY <2>1 DEF UndoneUpTo
<1> QED
  BY <1>6, <1>2

Undone(t) == CHOOSE U : UndoneUpTo(U, t, MaxUndo)

LEMMA RolledBackIs == \A t : RolledBack(t) = Undone(t)[MaxUndo]
  BY DEF RolledBack, Undone, UndoneUpTo, UndoStart

LEMMA UndoneAt ==
  ASSUME NEW t
  PROVE  /\ Undone(t)[0] = UndoStart(t)
         /\ \A n \in 1..MaxUndo : Undone(t)[n] = UndoNext(Undone(t)[n - 1])
<1> DEFINE U == Undone(t)
<1>1. MaxUndo \in Nat
  BY TxnAssumption
<1>2. UndoneUpTo(U, t, MaxUndo)
  BY <1>1, UndoneExists DEF Undone
<1> HIDE DEF U
<1>3. U = [n \in 0..MaxUndo |-> IF n = 0 THEN UndoStart(t) ELSE UndoNext(U[n - 1])]
  BY <1>2 DEF UndoneUpTo
<1>4. ASSUME NEW n \in 0..MaxUndo
      PROVE  U[n] = IF n = 0 THEN UndoStart(t) ELSE UndoNext(U[n - 1])
  BY <1>3, Zenon
<1>5. U[0] = UndoStart(t)
  <2>1. 0 \in 0..MaxUndo
    BY <1>1
  <2> QED
    BY <1>4, <2>1, Zenon
<1>6. ASSUME NEW n \in 1..MaxUndo PROVE U[n] = UndoNext(U[n - 1])
  <2>1. n \in 0..MaxUndo /\ n # 0
    BY <1>1
  <2> QED
    BY <1>4, <2>1
<1> QED
  BY <1>5, <1>6 DEF U

-----------------------------------------------------------------------------
(* The executor as it is: statements without conflict checks and without undo,
   the HNSW collector, and no page errors. *)

Wired == ~Guarded /\ ~PageFaults /\ Collector = "hnsw"

\* A transaction without undo entries has nothing to take back.
LEMMA NothingUndone ==
  ASSUME NEW t, undoPtr[t] = NULL_UNDO_PTR
  PROVE  RolledBack(t).heap = heap /\ RolledBack(t).ok
<1> DEFINE T == {n \in 0..MaxUndo : Undone(t)[n] # UndoStart(t)}
<1>1. MaxUndo \in Nat
  BY TxnAssumption
<1>2. UndoNext(UndoStart(t)) = UndoStart(t)
  BY DEF UndoNext, UndoStart
<1>3. ASSUME T # {} PROVE FALSE
  <2>0. T \subseteq Nat
    BY <1>1
  <2>1. PICK n \in T : \A k \in T : n <= k
    <3> HIDE DEF T
    <3> QED
      BY <1>3, <2>0, LeastNat
  <2>2. n \in 0..MaxUndo /\ n # 0
    BY <2>1, UndoneAt
  <2>3. n - 1 \in 0..MaxUndo /\ n \in 1..MaxUndo
    BY <1>1, <2>2
  <2>4. Undone(t)[n - 1] = UndoStart(t)
    BY <2>1, <2>2, <2>3
  <2>5. Undone(t)[n] = UndoStart(t)
    BY <1>2, <2>3, <2>4, UndoneAt
  <2> QED
    BY <2>1, <2>5
<1>4. Undone(t)[MaxUndo] = UndoStart(t)
  BY <1>1, <1>3
<1> QED
  BY <1>4, RolledBackIs DEF UndoStart

\* Nothing is ever recorded, so a rollback leaves the page as it is.
LEMMA WiredRollback ==
  ASSUME StoreInv, NoUndoInv, Rollback
  PROVE  heap' = heap /\ AbortRollback
<1>1. op.txn \in TxnIds
  BY OpTxn DEF Rollback, At, StoreInv, TypeOK
<1>2. RolledBack(op.txn).heap = heap /\ RolledBack(op.txn).ok
  BY <1>1, NothingUndone DEF NoUndoInv
<1> QED
  BY <1>2 DEF Rollback

LEMMA NoUndoNext ==
  ASSUME StoreAssumption, Wired, StoreInv, NoUndoInv, [StoreNext]_svars PROVE NoUndoInv'
<1>1. CASE Lifecycle
  BY <1>1 DEF Lifecycle, BeginRegister, BeginLog, CommitCall, CommitLog, CommitWait, CommitClog,
     CommitFinish, AbortLog, AbortClog, AbortFinish, ReleaseLocks, RemoveFromGraph, CommitStart,
     OwnerAbort, AbortStart, undoVars, NoUndoInv
<1>2. ASSUME NEW t \in TxnIds, Dml(t) PROVE NoUndoInv'
  <2>1. ASSUME NEW type, NEW s, NEW old, Recorded(t, type, s, old) PROVE undoPtr' = undoPtr
    BY <2>1 DEF Recorded, Wired, vars, undoVars
  <2> QED
    BY <1>2, <2>1 DEF Dml, StartStmt, AdvanceCmdId, InsertRow, StmtFails, LockRow, Wired,
       DeleteRow, UpdateExpire, UpdateInsert, vars, undoVars, NoUndoInv
<1>3. CASE Rollback
  BY <1>3 DEF Rollback, AbortRollback, undoVars, NoUndoInv
<1>4. CASE Gc \/ UNCHANGED svars
  BY <1>4 DEF Gc, GcStart, GcEnd, GcSlot, svars, vars, undoVars, NoUndoInv
<1> QED
  BY <1>1, <1>2, <1>3, <1>4 DEF StoreNext

LEMMA WiredInit == ASSUME StoreAssumption, StoreInit PROVE WiredInv
<1>1. heap = LoadedPage /\ 1 \in TxnIds /\ clog[1] = "Committed"
  BY TxnAssumption DEF StoreInit, TxnIds
<1>2. \A s \in DOMAIN heap :
         heap[s].meta.create = 1 /\ heap[s].meta.expire = INVALID_TXN_ID /\ ~heap[s].dead
  <2>1. NewInsert(1, 0).create = 1 /\ NewInsert(1, 0).expire = INVALID_TXN_ID
    BY DEF NewInsert
  <2>2. \A s \in DOMAIN heap : heap[s].meta = NewInsert(1, 0) /\ heap[s].dead = FALSE
    BY <1>1, PageLoaded
  <2> QED
    BY <2>1, <2>2
<1>3. FollowedInv /\ DeadInv
  BY <1>2 DEF FollowedInv, DeadInv
<1>4. LoadedInv
  BY <1>1, <1>2, PageLoaded DEF LoadedInv
<1>5. NoUndoInv
  BY DEF NoUndoInv, StoreInit
<1> QED
  BY <1>3, <1>4, <1>5, StoreInitInv DEF WiredInv

\* A step that leaves the page and the statements alone.
LEMMA WiredBeside ==
  ASSUME StoreAssumption, WiredInv, [StoreNext]_svars,
         UNCHANGED <<heap, erased>>, \A t \in TxnIds : stmt[t].moved # NoSlot => stmt'[t] = stmt[t]
  PROVE  FollowedInv' /\ DeadInv' /\ LoadedInv'
<1>1. StoreInv /\ StoreTypeOK
  BY DEF WiredInv, StoreInv
<1>2. \A s \in DOMAIN heap : heap[s].meta.expire # INVALID_TXN_ID => heap[s].meta.expire \in TxnIds
  BY <1>1, HeapIs, TxnAssumption DEF Metas, TxnIds, INVALID_TXN_ID
<1>3. \A s \in DOMAIN heap : s # NoSlot
  BY <1>1, HeapIs DEF NoSlot
<1>4. FollowedInv'
  BY <1>1, <1>2, <1>3, OutcomesStay DEF WiredInv, FollowedInv, Followed
<1>5. DeadInv'
  BY <1>1, <1>2, OutcomesStay DEF WiredInv, DeadInv
<1>6. LoadedInv'
  BY <1>1, OutcomesStay DEF WiredInv, LoadedInv
<1> QED
  BY <1>4, <1>5, <1>6

\* The stamp of a deletion, or of the first half of an update, by t.
LEMMA WiredStamp ==
  ASSUME StoreAssumption, WiredInv, [StoreNext]_svars, NEW t \in TxnIds, NEW s \in DOMAIN heap,
         Stamps(t, s), state'[t] # "None", erased \in [TxnIds -> SUBSET RowIds],
         \/ erased' = [erased EXCEPT ![t] = @ \cup {heap[s].row}]
            /\ \A u \in TxnIds : stmt[u].moved # NoSlot => stmt'[u].moved = stmt[u].moved
         \/ /\ erased' = erased /\ stmt[t].moved = NoSlot /\ stmt'[t].moved = s
            /\ \A u \in TxnIds \ {t} : stmt'[u] = stmt[u]
  PROVE  FollowedInv' /\ DeadInv' /\ LoadedInv'
<1>1. StoreInv /\ StoreTypeOK /\ TypeOK /\ FollowedInv /\ DeadInv /\ LoadedInv
  BY DEF WiredInv, StoreInv
<1>2. \A u \in DOMAIN heap : heap[u].meta.expire # INVALID_TXN_ID => heap[u].meta.expire \in TxnIds
  BY <1>1, HeapIs, TxnAssumption DEF Metas, TxnIds, INVALID_TXN_ID
<1>3. /\ heap' \in Seq(Slot) /\ Len(heap') = Len(heap)
      /\ heap'[s].meta.expire = t /\ heap'[s].meta.create = heap[s].meta.create
      /\ heap'[s].dead = heap[s].dead /\ heap'[s].row = heap[s].row
      /\ \A u \in DOMAIN heap : u # s => heap'[u] = heap[u]
  BY <1>1, StampsIs
<1>4. DOMAIN heap' = DOMAIN heap /\ DOMAIN heap \subseteq Nat \ {NoSlot}
  BY <1>1, <1>3, HeapIs DEF NoSlot
<1>5. \A u \in DOMAIN heap : heap'[u].row = heap[u].row /\ heap'[u].meta.create = heap[u].meta.create
  BY <1>3
<1>6. \A e \in TxnIds : erased[e] \subseteq erased'[e]
  OBVIOUS
<1>7. FollowedInv'
  <2> SUFFICES ASSUME NEW u \in DOMAIN heap, NEW e, e = heap'[u].meta.expire, e # INVALID_TXN_ID
               PROVE  state'[e] # "None" /\ Followed(u, e)'
    BY <1>4 DEF FollowedInv
  <2>1. CASE u = s
    <3>1. heap'[s].row \in erased'[t] \/ stmt'[t].moved = s
      BY <1>3
    <3>2. e = t
      BY <1>3, <2>1
    <3> QED
      BY <2>1, <3>1, <3>2 DEF Followed
  <2>2. CASE u # s
    <3>1. e \in TxnIds /\ heap'[u] = heap[u] /\ state[e] # "None" /\ Followed(u, e)
      BY <1>1, <1>2, <1>3, <2>2 DEF FollowedInv
    <3>2. state'[e] # "None"
      BY <1>1, <3>1, OutcomesStay
    <3>3. stmt[e].moved = u => stmt'[e].moved = u
      BY <1>4, <3>1
    <3>4. Followed(u, e)'
      BY <1>4, <1>5, <1>6, <3>1, <3>3 DEF Followed
    <3> QED
      BY <3>2, <3>4
  <2> QED
    BY <2>1, <2>2
<1>8. DeadInv'
  <2> SUFFICES ASSUME NEW u \in DOMAIN heap, heap'[u].dead
               PROVE  heap'[u].meta.expire # INVALID_TXN_ID /\ clog'[heap'[u].meta.expire] = "Committed"
    BY <1>4 DEF DeadInv
  <2>1. u # s
    BY <1>3 DEF Stamps
  <2>2. heap'[u] = heap[u]
    BY <1>3, <2>1
  <2> QED
    BY <1>1, <1>2, <2>2, OutcomesStay DEF DeadInv
<1>9. LoadedInv'
  BY <1>1, <1>4, <1>5, OutcomesStay DEF LoadedInv
<1> QED
  BY <1>7, <1>8, <1>9

\* A version at the end of the page, which may be the successor t had to add.
LEMMA WiredAdd ==
  ASSUME StoreAssumption, WiredInv, [StoreNext]_svars, NEW t \in TxnIds, NEW row \in RowIds,
         Adds(t, row), erased' = erased,
         stmt[t].moved # NoSlot => row = heap[stmt[t].moved].row,
         \A u \in TxnIds \ {t} : stmt'[u] = stmt[u]
  PROVE  FollowedInv' /\ DeadInv' /\ LoadedInv'
<1>1. StoreInv /\ StoreTypeOK /\ TypeOK /\ FollowedInv /\ DeadInv /\ LoadedInv
  BY DEF WiredInv, StoreInv
<1>2. \A u \in DOMAIN heap : heap[u].meta.expire # INVALID_TXN_ID => heap[u].meta.expire \in TxnIds
  BY <1>1, HeapIs, TxnAssumption DEF Metas, TxnIds, INVALID_TXN_ID
<1> DEFINE new == Len(heap) + 1
<1>3. /\ heap' \in Seq(Slot) /\ Len(heap') = Len(heap) + 1
      /\ heap'[new].row = row /\ ~heap'[new].dead
      /\ heap'[new].meta = NewInsert(t, cmdId[t])
      /\ \A u \in DOMAIN heap : heap'[u] = heap[u]
  BY <1>1, AddsIs
<1>4. /\ DOMAIN heap' = DOMAIN heap \cup {new} /\ \A u \in DOMAIN heap : u \in Nat /\ u # NoSlot /\ new > u
  BY <1>1, <1>3, HeapIs DEF NoSlot
<1>5. heap'[new].meta.create = t /\ heap'[new].meta.expire = INVALID_TXN_ID
  BY <1>1, <1>3, NewInsertIs DEF TypeOK, TableTypeOK
<1> HIDE DEF new
<1>6. FollowedInv'
  <2> SUFFICES ASSUME NEW u \in DOMAIN heap, NEW e, e = heap'[u].meta.expire, e # INVALID_TXN_ID
               PROVE  state'[e] # "None" /\ Followed(u, e)'
    BY <1>4, <1>5 DEF FollowedInv
  <2>1. e \in TxnIds /\ heap'[u] = heap[u] /\ state[e] # "None" /\ Followed(u, e)
    BY <1>1, <1>2, <1>3 DEF FollowedInv
  <2>2. state'[e] # "None"
    BY <1>1, <2>1, OutcomesStay
  <2>3. CASE stmt[e].moved = u
    <3>1. CASE e = t
      <4>1. heap'[new].row = heap'[u].row /\ heap'[new].meta.create = e /\ new > u
        BY <1>3, <1>4, <1>5, <2>1, <2>3, <3>1
      <4> QED
        BY <1>4, <2>2, <4>1 DEF Followed
    <3>2. CASE e # t
      BY <2>2, <2>1, <2>3, <3>2 DEF Followed
    <3> QED
      BY <3>1, <3>2
  <2>4. CASE stmt[e].moved # u
    BY <2>2, <1>3, <1>4, <2>1, <2>4 DEF Followed
  <2> QED
    BY <2>2, <2>3, <2>4
<1>7. DeadInv'
  <2> SUFFICES ASSUME NEW u \in DOMAIN heap, heap'[u].dead
               PROVE  heap'[u].meta.expire # INVALID_TXN_ID /\ clog'[heap'[u].meta.expire] = "Committed"
    BY <1>3, <1>4 DEF DeadInv
  <2>1. heap'[u] = heap[u]
    BY <1>3
  <2> QED
    BY <1>1, <1>2, <2>1, OutcomesStay DEF DeadInv
<1>8. LoadedInv'
  BY <1>1, <1>3, <1>4, OutcomesStay DEF LoadedInv
<1> QED
  BY <1>6, <1>7, <1>8

\* The collector only kills slots whose stamp is of a committed transaction.
LEMMA WiredCollect ==
  ASSUME StoreAssumption, Wired, WiredInv, [StoreNext]_svars, NEW s \in DOMAIN heap, GcSlot(s)
  PROVE  FollowedInv' /\ DeadInv' /\ LoadedInv'
<1>1. StoreInv /\ StoreTypeOK /\ TypeOK /\ FollowedInv /\ DeadInv /\ LoadedInv
  BY DEF WiredInv, StoreInv
<1>2. \A u \in DOMAIN heap : heap[u].meta.expire # INVALID_TXN_ID => heap[u].meta.expire \in TxnIds
  BY <1>1, HeapIs, TxnAssumption DEF Metas, TxnIds, INVALID_TXN_ID
<1>3. /\ heap' \in Seq(Slot) /\ Len(heap') = Len(heap)
      /\ heap'[s].dead /\ heap'[s].row = heap[s].row /\ heap'[s].meta = heap[s].meta
      /\ \A u \in DOMAIN heap : u # s => heap'[u] = heap[u]
  BY <1>1, GcSlotIs
<1>4. DOMAIN heap' = DOMAIN heap
  BY <1>1, <1>3, HeapIs
<1>5. \A u \in DOMAIN heap : heap'[u].row = heap[u].row /\ heap'[u].meta = heap[u].meta
  BY <1>3
<1>6. /\ heap[s].meta.expire # INVALID_TXN_ID /\ clog[heap[s].meta.expire] = "Committed"
      /\ UNCHANGED <<stmt, erased>>
  BY DEF GcSlot, IsGcReady, Wired
<1>7. FollowedInv'
  <2> SUFFICES ASSUME NEW u \in DOMAIN heap, NEW e, e = heap'[u].meta.expire, e # INVALID_TXN_ID
               PROVE  state'[e] # "None" /\ Followed(u, e)'
    BY <1>4 DEF FollowedInv
  <2>1. e \in TxnIds /\ state[e] # "None" /\ Followed(u, e)
    BY <1>1, <1>2, <1>5 DEF FollowedInv
  <2>2. state'[e] # "None"
    BY <1>1, <2>1, OutcomesStay
  <2> QED
    BY <1>4, <1>5, <1>6, <2>1, <2>2 DEF Followed
<1>8. DeadInv'
  <2> SUFFICES ASSUME NEW u \in DOMAIN heap, heap'[u].dead
               PROVE  heap'[u].meta.expire # INVALID_TXN_ID /\ clog'[heap'[u].meta.expire] = "Committed"
    BY <1>4 DEF DeadInv
  <2>1. heap[u].meta.expire # INVALID_TXN_ID /\ clog[heap[u].meta.expire] = "Committed"
    BY <1>1, <1>3, <1>6 DEF DeadInv
  <2> QED
    BY <1>1, <1>2, <1>5, <2>1, OutcomesStay
<1>9. LoadedInv'
  BY <1>1, <1>4, <1>5, OutcomesStay DEF LoadedInv
<1> QED
  BY <1>7, <1>8, <1>9

LEMMA WiredDml ==
  ASSUME StoreAssumption, Wired, WiredInv, [StoreNext]_svars, NEW t \in TxnIds, Dml(t)
  PROVE  FollowedInv' /\ DeadInv' /\ LoadedInv'
<1>1. StoreInv /\ StoreTypeOK /\ TypeOK /\ StmtInv
  BY DEF WiredInv, StoreInv
<1>2. StmtMove(t) /\ UNCHANGED state /\ SessionFree(t)
  BY <1>1, StmtMoves, DmlKeeps
<1>3. state[t] # "None" /\ NoStmt.moved = NoSlot /\ erased \in [TxnIds -> SUBSET RowIds]
  BY <1>1, <1>2, NoStmtIs DEF StoreInv, OutcomeInv, IdsInv, SessionFree, StoreTypeOK
<1>4. \A u \in TxnIds \ {t} : stmt'[u] = stmt[u]
  BY <1>2 DEF StmtMove
<1>5. ASSUME NEW kind, NEW row, StartStmt(t, kind, row) PROVE FollowedInv' /\ DeadInv' /\ LoadedInv'
  <2>1. UNCHANGED <<heap, erased>> /\ stmt[t].moved = NoSlot
    BY <1>3, <1>5 DEF StartStmt
  <2> QED
    BY <1>4, <2>1, WiredBeside
<1>6. CASE InsertRow(t)
  <2>1. Adds(t, stmt[t].row) /\ erased' = erased /\ stmt[t].row \in RowIds
    BY <1>1, <1>6 DEF InsertRow, Adds, StoreTypeOK
  <2>2. stmt[t].moved = NoSlot
    BY <1>1, <1>6 DEF InsertRow, StmtInv
  <2> QED
    BY <1>4, <2>1, <2>2, WiredAdd
<1>7. CASE StmtFails(t)
  <2>1. UNCHANGED <<heap, erased>> /\ stmt[t].moved = NoSlot
    BY <1>7 DEF StmtFails, Wired
  <2> QED
    BY <1>4, <2>1, WiredBeside
<1>8. ASSUME NEW s \in DOMAIN heap, DeleteRow(t, s) PROVE FollowedInv' /\ DeadInv' /\ LoadedInv'
  <2>1. /\ Stamps(t, s) /\ stmt[t].kind = "DELETE"
        /\ erased' = [erased EXCEPT ![t] = @ \cup {heap[s].row}]
    BY <1>8 DEF DeleteRow, Changeable, Stamps
  <2>2. stmt[t].moved = NoSlot
    BY <1>1, <2>1 DEF StmtInv
  <2>3. \A u \in TxnIds : stmt[u].moved # NoSlot => stmt'[u].moved = stmt[u].moved
    BY <1>4, <2>2
  <2> QED
    BY <1>2, <1>3, <2>1, <2>3, WiredStamp
<1>9. ASSUME NEW s \in DOMAIN heap, UpdateExpire(t, s) PROVE FollowedInv' /\ DeadInv' /\ LoadedInv'
  <2>1. /\ Stamps(t, s) /\ stmt[t].moved = NoSlot /\ erased' = erased
        /\ stmt' = [stmt EXCEPT ![t].moved = s]
    BY <1>9 DEF UpdateExpire, Changeable, Stamps
  <2>2. stmt'[t].moved = s
    BY <1>1, <2>1 DEF StmtInv, Statements
  <2> QED
    BY <1>2, <1>3, <1>4, <2>1, <2>2, WiredStamp
<1>10. ASSUME NEW s \in DOMAIN heap, UpdateInsert(t, s) PROVE FollowedInv' /\ DeadInv' /\ LoadedInv'
  <2>1. Adds(t, heap[s].row) /\ erased' = erased /\ stmt[t].moved = s
    BY <1>10 DEF UpdateInsert, Adds
  <2>2. heap[s].row \in RowIds
    BY <1>1, HeapIs DEF Slot
  <2> QED
    BY <1>4, <2>1, <2>2, WiredAdd
<1>11. ~ \E s \in DOMAIN heap : LockRow(t, s)
  BY DEF LockRow, Wired
<1> QED
  BY <1>5, <1>6, <1>7, <1>8, <1>9, <1>10, <1>11 DEF Dml

LEMMA WiredNext ==
  ASSUME StoreAssumption, Wired, WiredInv, [StoreNext]_svars PROVE WiredInv'
<1>1. StoreInv /\ NoUndoInv /\ heap \in Seq(Slot)
  BY HeapIs DEF WiredInv, StoreInv
<1>2. Rollback => heap' = heap /\ UNCHANGED <<stmt, erased>>
  BY <1>1, WiredRollback DEF Rollback
<1>3. StoreInv' /\ NoUndoInv'
  BY <1>1, <1>2, StoreInvNext, NoUndoNext
<1>4. CASE Lifecycle \/ Rollback \/ GcStart \/ GcEnd \/ UNCHANGED svars
  <2>1. UNCHANGED <<heap, stmt, erased>>
    BY <1>2, <1>4 DEF Lifecycle, GcStart, GcEnd, svars, storeVars
  <2> QED
    BY <1>3, <2>1, WiredBeside DEF WiredInv
<1>5. ASSUME NEW s \in DOMAIN heap, GcSlot(s) PROVE WiredInv'
  BY <1>3, <1>5, WiredCollect DEF WiredInv
<1>6. ASSUME NEW t \in TxnIds, Dml(t) PROVE WiredInv'
  BY <1>3, <1>6, WiredDml DEF WiredInv
<1> QED
  BY <1>4, <1>5, <1>6 DEF StoreNext, Gc

-----------------------------------------------------------------------------
(* Rows survive *)

\* The last version of a row that a committed transaction put on the page is
\* visible to whoever begins now, when no committed transaction deleted the row.
LEMMA LastVersionSeen ==
  ASSUME StoreAssumption, WiredInv, NEW row \in RowIds, NEW s \in DOMAIN heap,
         \A t \in TxnIds : clog[t] = "Committed" => row \notin erased[t],
         heap[s].row = row, clog[heap[s].meta.create] = "Committed",
         \A u \in DOMAIN heap :
           heap[u].row = row /\ clog[heap[u].meta.create] = "Committed" => u <= s
  PROVE  Sees(FreshSnapshot, s)
<1>1. StoreInv /\ TypeOK /\ OutcomeInv /\ StoreTypeOK /\ StmtInv /\ FollowedInv /\ DeadInv
  BY DEF WiredInv, StoreInv
<1> DEFINE c == heap[s].meta.create
           e == heap[s].meta.expire
<1>2. c \in TxnIds /\ e \in 0..MaxTxn /\ DOMAIN heap \subseteq Nat \ {NoSlot} /\ s \in Nat
  BY <1>1, HeapIs DEF Metas, NoSlot
<1>3. e # INVALID_TXN_ID => e \in TxnIds /\ state[e] # "None" /\ Followed(s, e)
  BY <1>1, <1>2, TxnAssumption DEF FollowedInv, TxnIds, INVALID_TXN_ID
<1>4. ASSUME e # INVALID_TXN_ID PROVE clog[e] # "Committed"
  <2> SUFFICES ASSUME clog[e] = "Committed" PROVE FALSE
    OBVIOUS
  <2>1. CASE heap[s].row \in erased[e]
    BY <1>3, <1>4, <2>1
  <2>2. CASE \E u \in DOMAIN heap : u > s /\ heap[u].row = heap[s].row /\ heap[u].meta.create = e
    BY <1>2, <2>2
  <2>3. CASE stmt[e].moved = s
    <3>1. stmt[e] # NoStmt
      BY <1>2, <2>3, NoStmtIs
    <3>2. SessionFree(e)
      BY <1>1, <1>3, <1>4, <3>1 DEF StmtInv
    <3> QED
      BY <1>1, <1>3, <1>4, <3>2, BusyUndecided
  <2> QED
    BY <1>3, <1>4, <2>1, <2>2, <2>3 DEF Followed
<1>5. ~heap[s].dead
  BY <1>1, <1>4 DEF DeadInv
<1>6. nextTxnId \in Nat /\ \A t \in TxnIds : state[t] # "None" => t < nextTxnId /\ t # nextTxnId
  BY <1>1, TxnAssumption DEF TypeOK, TableTypeOK, OutcomeInv, IdsInv, TxnIds, NoActive
<1>7. state[c] # "None" /\ c \notin ActiveIds
  <2>1. clog[c] = "Committed"
    OBVIOUS
  <2>2. owner[c] = "closed" \/ Ending(c)
    BY <1>1, <1>2, <2>1 DEF OutcomeInv, DecidedInv
  <2>3. state[c] \in {"Committed", "Aborted", "Committing", "Aborting"}
    BY <1>1, <1>2, <2>2 DEF OutcomeInv, DecidedInv, CallInv, Ending
  <2> QED
    BY <2>3 DEF ActiveIds
<1> DEFINE snap == FreshSnapshot
<1>8. snap.txn_id = nextTxnId /\ snap.active_txns = ActiveIds
  BY DEF FreshSnapshot
<1>9. TxnIsCommittedBefore(c, snap, clog) /\ c # snap.txn_id
  BY <1>2, <1>6, <1>7, <1>8 DEF TxnIsCommittedBefore
<1>10. e # INVALID_TXN_ID => e # snap.txn_id /\ ~TxnIsCommittedBefore(e, snap, clog)
  BY <1>3, <1>4, <1>6, <1>8 DEF TxnIsCommittedBefore
<1> HIDE DEF snap
<1>11. ~IsAbortedFast(c, clog) /\ CreationSeen(heap[s].meta, snap, clog)
  BY <1>9 DEF IsAbortedFast, CreationSeen
<1>12. NotExpired(heap[s].meta, snap, clog)
  BY <1>10 DEF NotExpired, EffectiveExpire, IsAbortedFast, INVALID_TXN_ID
<1> QED
  BY <1>5, <1>11, <1>12 DEF Sees, IsVisible, snap

LEMMA WiredSurvives == ASSUME StoreAssumption, WiredInv PROVE RowSurvives
<1> SUFFICES ASSUME NEW row \in RowIds, PutByCommitted(row),
                    \A t \in TxnIds : clog[t] = "Committed" => row \notin erased[t]
             PROVE  \E s \in DOMAIN heap : heap[s].row = row /\ Sees(FreshSnapshot, s)
  BY DEF RowSurvives
<1> DEFINE T == {s \in DOMAIN heap : heap[s].row = row /\ clog[heap[s].meta.create] = "Committed"}
<1>1. T # {}
  BY DEF PutByCommitted, WiredInv, LoadedInv
<1>2. DOMAIN heap \subseteq Nat /\ Len(heap) \in Nat /\ \A s \in DOMAIN heap : s <= Len(heap)
  BY HeapIs DEF WiredInv, StoreInv
<1>3. T \subseteq Nat /\ \A s \in T : s <= Len(heap)
  BY <1>2
<1>4. \E s \in T : \A u \in T : u <= s
  <2> HIDE DEF T
  <2> QED
    BY <1>1, <1>2, <1>3, HighestNat
<1>5. PICK s \in T : \A u \in T : u <= s
  BY <1>4
<1>6. Sees(FreshSnapshot, s)
  BY <1>5, LastVersionSeen
<1> QED
  BY <1>5, <1>6

\* No row is lost by statements as wired: without conflict checks and without undo,
\* through aborts, repeated stamps and the HNSW collector, every row that a committed
\* transaction put on the page and none deleted is found by the next to begin.
THEOREM RowsAreFound ==
  ASSUME StoreAssumption, Wired PROVE StoreSpec => []RowSurvives
<1>1. StoreInit => WiredInv
  BY WiredInit
<1>2. WiredInv /\ [StoreNext]_svars => WiredInv'
  BY WiredNext
<1>3. WiredInv => RowSurvives
  BY WiredSurvives
<1> QED
  BY <1>1, <1>2, <1>3, PTL DEF StoreSpec

-----------------------------------------------------------------------------
(* The executor with conflict checks and undo: what a rollback does *)

Accs == [heap : Seq(Slot), ok : BOOLEAN, at : Nat]

\* One entry: its slot is dead or has its old metadata back, no dead slot revives,
\* and no other slot's metadata changes.
LEMMA ApplyUndoIs ==
  ASSUME NEW acc \in Accs, NEW e, e.txn \in TxnIds, e.body \in Bodies,
         e.body.slot \in DOMAIN acc.heap
  PROVE  LET r == ApplyUndo(acc, e)
             s == e.body.slot
         IN  /\ r \in Accs /\ Len(r.heap) = Len(acc.heap)
             /\ \A u \in DOMAIN acc.heap :
                  /\ acc.heap[u].dead => r.heap[u].dead
                  /\ u # s => r.heap[u].meta = acc.heap[u].meta
             /\ r.heap[s].meta = acc.heap[s].meta
                  \/ (~acc.heap[s].dead /\ e.body.type # "INSERT" /\ r.heap[s].meta = e.body.old)
             /\ r.ok => acc.ok
             /\ r.ok => r.heap[s].dead \/ (e.body.type # "INSERT" /\ r.heap[s].meta = e.body.old)
<1> DEFINE h == acc.heap
           s == e.body.slot
           restored == [h EXCEPT ![s].meta = e.body.old]
           killed == Kill(h, s, e.txn)
           both == Kill(restored, Len(h), e.txn)
<1>1. h \in Seq(Slot) /\ s \in DOMAIN h /\ Len(h) \in DOMAIN h /\ Len(h) \in Nat
  BY DEF Accs
<1>2. e.body.old \in Metas
  BY DEF Bodies
<1>3. e.txn \in 0..GcTag
  BY TxnAssumption DEF TxnIds, GcTag
<1>4. /\ killed \in Seq(Slot) /\ Len(killed) = Len(h)
      /\ killed[s].dead /\ killed[s].meta = h[s].meta
      /\ \A u \in DOMAIN h : u # s => killed[u] = h[u]
  BY <1>1, <1>3, KillIs
<1>5. /\ restored \in Seq(Slot) /\ Len(restored) = Len(h)
      /\ restored[s].meta = e.body.old /\ restored[s].dead = h[s].dead
      /\ \A u \in DOMAIN h : u # s => restored[u] = h[u]
  BY <1>1, <1>2, RestoreIs
<1> HIDE DEF restored
<1>6. Len(h) \in DOMAIN restored
  BY <1>1, <1>5
<1>7. /\ both \in Seq(Slot) /\ Len(both) = Len(restored)
      /\ both[Len(h)].dead /\ both[Len(h)].meta = restored[Len(h)].meta
      /\ \A u \in DOMAIN restored : u # Len(h) => both[u] = restored[u]
  BY <1>3, <1>5, <1>6, KillIs
<1>8. DOMAIN killed = DOMAIN h /\ DOMAIN restored = DOMAIN h /\ DOMAIN both = DOMAIN h
  BY <1>1, <1>4, <1>5, <1>7
<1> HIDE DEF killed, both
<1> DEFINE r == ApplyUndo(acc, e)
<1>9. CASE e.body.type = "INSERT"
  <2>1. r = [acc EXCEPT !.heap = killed]
    BY <1>9 DEF ApplyUndo, killed
  <2>2. r \in Accs /\ r.heap = killed /\ (r.ok <=> acc.ok)
    BY <1>4, <2>1 DEF Accs
  <2> QED
    BY <1>4, <1>9, <2>2
<1>10. CASE e.body.type # "INSERT" /\ h[s].dead
  <2>1. r = [acc EXCEPT !.ok = FALSE]
    BY <1>10 DEF ApplyUndo
  <2>2. r \in Accs /\ r.heap = h /\ ~r.ok
    BY <2>1 DEF Accs
  <2> QED
    BY <2>2
<1>11. CASE e.body.type # "INSERT" /\ ~h[s].dead /\ e.body.type = "UPDATE" /\ Len(h) > s
  <2>1. r = [acc EXCEPT !.heap = both]
    BY <1>11 DEF ApplyUndo, restored, both
  <2>2. r \in Accs /\ r.heap = both /\ (r.ok <=> acc.ok)
    BY <1>7, <2>1 DEF Accs
  <2>3. \A u \in DOMAIN h : u # s => both[u].meta = h[u].meta
    BY <1>5, <1>7, <1>8
  <2>4. \A u \in DOMAIN h : h[u].dead => both[u].dead
    BY <1>5, <1>7, <1>8
  <2>5. both[s].meta = e.body.old
    BY <1>1, <1>5, <1>7, <1>8
  <2> QED
    BY <1>5, <1>7, <1>11, <2>2, <2>3, <2>4, <2>5
<1>12. CASE e.body.type # "INSERT" /\ ~h[s].dead /\ ~(e.body.type = "UPDATE" /\ Len(h) > s)
  <2>1. r = [acc EXCEPT !.heap = restored]
    BY <1>12 DEF ApplyUndo, restored
  <2>2. r \in Accs /\ r.heap = restored /\ (r.ok <=> acc.ok)
    BY <1>5, <2>1 DEF Accs
  <2> QED
    BY <1>5, <1>12, <2>2
<1> QED
  BY <1>9, <1>10, <1>11, <1>12

\* How far the rollback of t has come with the page: what it changed was t's to
\* change, and what it still has to take back has an entry it will reach.
Restorable(m, t) ==
  m.expire \in {INVALID_TXN_ID, t} \/ clog[m.expire] = "Committed"
UndoneSoFar(acc, t) ==
  /\ acc \in Accs /\ Len(acc.heap) = Len(heap)
  /\ acc.at \in 0..Len(undoLog)
  /\ acc.at # NULL_UNDO_PTR => undoLog[acc.at].txn = t
  /\ \A s \in DOMAIN heap :
       /\ heap[s].dead => acc.heap[s].dead
       /\ \/ acc.heap[s].meta = heap[s].meta
          \/ ~heap[s].dead /\ locks[s] = t /\ Restorable(acc.heap[s].meta, t)
       /\ ~acc.heap[s].dead /\ acc.heap[s].meta.expire = t =>
            /\ locks[s] = t
            /\ \E i \in 1..Len(undoLog) : TakesBack(i, s, t) /\ (acc.ok => i <= acc.at)

LEMMA UndoneFirst ==
  ASSUME StoreAssumption, GuardedInv, NEW t \in TxnIds, clog[t] = "InProgress"
  PROVE  UndoneSoFar(UndoStart(t), t)
<1> DEFINE acc == UndoStart(t)
<1>1. acc.heap = heap /\ acc.ok /\ acc.at = undoPtr[t]
  BY DEF UndoStart
<1>2. undoPtr[t] \in 0..Len(undoLog) /\ Len(undoLog) \in Nat
  BY DEF GuardedInv, StoreInv, TypeOK, UndoTypeOK
<1>3. acc \in Accs
  BY <1>2, HeapIs DEF UndoStart, Accs, GuardedInv, StoreInv
<1>4. undoPtr[t] # NULL_UNDO_PTR => undoLog[undoPtr[t]].txn = t
  BY DEF GuardedInv, ChainInv
<1>5. ASSUME NEW s \in DOMAIN heap, ~heap[s].dead, heap[s].meta.expire = t
      PROVE  locks[s] = t /\ \E i \in 1..Len(undoLog) : TakesBack(i, s, t) /\ i <= undoPtr[t]
  <2>1. t # INVALID_TXN_ID
    BY TxnAssumption DEF TxnIds, INVALID_TXN_ID
  <2>2. locks[s] = t /\ \E i \in 1..Len(undoLog) : TakesBack(i, s, t)
    BY <1>5, <2>1 DEF GuardedInv, StampInv
  <2>3. PICK i \in 1..Len(undoLog) : TakesBack(i, s, t)
    BY <2>2
  <2>4. undoLog[i].txn = t
    BY <2>3 DEF TakesBack
  <2>5. i \notin undoPtr[t] + 1..Len(undoLog)
    BY <2>4 DEF GuardedInv, ChainInv
  <2>6. i <= undoPtr[t]
    BY <1>2, <2>5
  <2> QED
    BY <2>2, <2>3, <2>6
<1> HIDE DEF acc
<1> QED
  BY <1>1, <1>2, <1>3, <1>4, <1>5 DEF UndoneSoFar, acc

LEMMA UndoneStep ==
  ASSUME StoreAssumption, GuardedInv, NEW t \in TxnIds, clog[t] = "InProgress",
         NEW acc, UndoneSoFar(acc, t), acc.ok, acc.at # NULL_UNDO_PTR
  PROVE  /\ UndoneSoFar(UndoNext(acc), t)
         /\ UndoNext(acc).at < acc.at
<1> DEFINE i == acc.at
           e == undoLog[i]
           b == e.body
           s == b.slot
           r == ApplyUndo(acc, e)
           next == UndoNext(acc)
<1>1. /\ acc \in Accs /\ Len(acc.heap) = Len(heap) /\ i \in 1..Len(undoLog) /\ Len(undoLog) \in Nat
      /\ e.txn = t
  BY DEF UndoneSoFar, NULL_UNDO_PTR, GuardedInv, StoreInv, TypeOK, UndoTypeOK
<1>2. DOMAIN acc.heap = DOMAIN heap
  BY <1>1, HeapIs DEF Accs, GuardedInv, StoreInv
<1>3. /\ b \in Bodies /\ s \in DOMAIN heap /\ e.prev \in 0..i - 1
      /\ e.prev # NULL_UNDO_PTR => undoLog[e.prev].txn = t
      /\ \A j \in e.prev + 1..i - 1 : undoLog[j].txn # t
  BY <1>1 DEF GuardedInv, ChainInv
<1>4. b.type # "INSERT" =>
        /\ locks[s] = t /\ Restorable(b.old, t)
        /\ b.old.expire = t => \E j \in 1..i - 1 : TakesBack(j, s, t)
  BY <1>1 DEF GuardedInv, EntryInv, Restorable
<1>5. /\ r \in Accs /\ Len(r.heap) = Len(acc.heap)
      /\ \A u \in DOMAIN acc.heap :
           /\ acc.heap[u].dead => r.heap[u].dead
           /\ u # s => r.heap[u].meta = acc.heap[u].meta
      /\ r.heap[s].meta = acc.heap[s].meta
           \/ (~acc.heap[s].dead /\ b.type # "INSERT" /\ r.heap[s].meta = b.old)
      /\ r.ok => r.heap[s].dead \/ (b.type # "INSERT" /\ r.heap[s].meta = b.old)
  BY <1>1, <1>2, <1>3, ApplyUndoIs
<1>6. next = [r EXCEPT !.at = e.prev]
  BY DEF UndoNext
<1>7. next \in Accs /\ next.heap = r.heap /\ (next.ok <=> r.ok) /\ next.at = e.prev
  <2>1. e.prev \in Nat
    BY <1>1, <1>3
  <2> HIDE DEF e, r, next
  <2> QED
    BY <1>5, <1>6, <2>1 DEF Accs
<1> HIDE DEF r, next
<1>8. ASSUME NEW j \in 1..Len(undoLog), NEW u, TakesBack(j, u, t), j <= i,
             u # s \/ b.type = "INSERT" \/ j # i
      PROVE  j <= e.prev
  <2>1. undoLog[j].txn = t /\ undoLog[j].body.slot = u /\ undoLog[j].body.type # "INSERT"
    BY <1>8 DEF TakesBack
  <2>2. j # i
    BY <1>8, <2>1
  <2>3. j \notin e.prev + 1..i - 1
    BY <1>3, <2>1
  <2> HIDE DEF e
  <2> QED
    BY <1>1, <1>3, <1>8, <2>2, <2>3
<1>9. ASSUME NEW u \in DOMAIN heap, heap[u].dead PROVE next.heap[u].dead
  BY <1>2, <1>5, <1>7, <1>9 DEF UndoneSoFar
<1>10. ASSUME NEW u \in DOMAIN heap
       PROVE  \/ next.heap[u].meta = heap[u].meta
              \/ ~heap[u].dead /\ locks[u] = t /\ Restorable(next.heap[u].meta, t)
  <2>1. CASE next.heap[u].meta = acc.heap[u].meta
    BY <2>1 DEF UndoneSoFar
  <2>2. CASE next.heap[u].meta # acc.heap[u].meta
    <3>1. u = s /\ ~acc.heap[s].dead /\ b.type # "INSERT" /\ next.heap[s].meta = b.old
      BY <1>2, <1>5, <1>7, <2>2
    <3>2. ~heap[s].dead
      BY <1>3, <3>1 DEF UndoneSoFar
    <3> QED
      BY <1>4, <3>1, <3>2
  <2> QED
    BY <2>1, <2>2
<1>11. ASSUME NEW u \in DOMAIN heap, ~next.heap[u].dead, next.heap[u].meta.expire = t
       PROVE  /\ locks[u] = t
              /\ \E j \in 1..Len(undoLog) : TakesBack(j, u, t) /\ (next.ok => j <= next.at)
  <2>1. ~acc.heap[u].dead
    BY <1>2, <1>5, <1>7, <1>11
  <2>2. CASE next.heap[u].meta = acc.heap[u].meta /\ (u # s \/ ~next.ok)
    <3>1. locks[u] = t
      BY <1>11, <2>1, <2>2 DEF UndoneSoFar
    <3>2. PICK j \in 1..Len(undoLog) : TakesBack(j, u, t) /\ j <= i
      BY <1>11, <2>1, <2>2 DEF UndoneSoFar
    <3>3. next.ok => j <= e.prev
      BY <1>8, <2>2, <3>2
    <3> QED
      BY <1>7, <3>1, <3>2, <3>3
  <2>3. CASE ~(next.heap[u].meta = acc.heap[u].meta /\ (u # s \/ ~next.ok))
    <3>1. u = s /\ b.type # "INSERT" /\ next.heap[s].meta = b.old
      BY <1>2, <1>5, <1>7, <1>11, <2>3
    <3>2. PICK j \in 1..i - 1 : TakesBack(j, s, t)
      BY <1>4, <1>11, <3>1
    <3>3. j \in 1..Len(undoLog) /\ j <= i /\ j # i
      BY <1>1
    <3>4. j <= e.prev
      BY <1>8, <3>2, <3>3
    <3> QED
      BY <1>4, <1>7, <3>1, <3>2, <3>3, <3>4
  <2> QED
    BY <2>2, <2>3
<1>12. next.at \in 0..Len(undoLog) /\ next.at < i
       /\ (next.at # NULL_UNDO_PTR => undoLog[next.at].txn = t)
  <2>1. e.prev \in 0..Len(undoLog) /\ e.prev < i
    <3> HIDE DEF e
    <3> QED
      BY <1>1, <1>3
  <2> QED
    BY <1>3, <1>7, <2>1
<1>13. UndoneSoFar(next, t)
  <2> HIDE DEF e, b, s, i
  <2> QED
    BY <1>1, <1>5, <1>7, <1>9, <1>10, <1>11, <1>12 DEF UndoneSoFar
<1> QED
  BY <1>12, <1>13 DEF next

LEMMA UndoneStops ==
  ASSUME NEW acc, ~(acc.ok /\ acc.at # NULL_UNDO_PTR) PROVE UndoNext(acc) = acc
  BY DEF UndoNext

\* The chain is followed to its end, or to the entry that fails.
LEMMA UndoneAll ==
  ASSUME StoreAssumption, GuardedInv, NEW t \in TxnIds, clog[t] = "InProgress"
  PROVE  LET acc == RolledBack(t)
         IN  UndoneSoFar(acc, t) /\ (acc.ok => acc.at = NULL_UNDO_PTR)
<1> DEFINE U == Undone(t)
           Good(n) == /\ UndoneSoFar(U[n], t)
                      /\ U[n].ok /\ U[n].at # NULL_UNDO_PTR => n + U[n].at <= MaxUndo
           T == {n \in 0..MaxUndo : ~Good(n)}
<1>1. MaxUndo \in Nat /\ Len(undoLog) \in Nat /\ Len(undoLog) <= MaxUndo
  BY TxnAssumption DEF GuardedInv, StoreInv, TypeOK, UndoTypeOK, ChainInv
<1>2. U[0] = UndoStart(t) /\ \A n \in 1..MaxUndo : U[n] = UndoNext(U[n - 1])
  BY UndoneAt
<1> HIDE DEF U
<1>3. Good(0)
  <2>1. UndoneSoFar(U[0], t)
    BY <1>2, UndoneFirst
  <2>2. U[0].at \in 0..Len(undoLog)
    BY <2>1 DEF UndoneSoFar
  <2> QED
    BY <1>1, <2>1, <2>2
<1>4. ASSUME T # {} PROVE FALSE
  <2>1. T \subseteq Nat
    BY <1>1
  <2>2. PICK n \in T : \A k \in T : n <= k
    <3> HIDE DEF T
    <3> QED
      BY <1>4, <2>1, LeastNat
  <2>3. n \in 0..MaxUndo /\ ~Good(n)
    BY <2>2
  <2>4. n # 0
    BY <1>3, <2>3
  <2>5. n \in 1..MaxUndo /\ n - 1 \in 0..MaxUndo /\ n \in Nat
    BY <1>1, <2>3, <2>4
  <2>6. n - 1 \notin T
    BY <2>2, <2>5
  <2>7. Good(n - 1)
    BY <2>5, <2>6
  <2>8. U[n] = UndoNext(U[n - 1])
    BY <1>2, <2>5
  <2> DEFINE acc == U[n - 1]
  <2>9. UndoneSoFar(acc, t) /\ (acc.ok /\ acc.at # NULL_UNDO_PTR => (n - 1) + acc.at <= MaxUndo)
    BY <2>7
  <2> HIDE DEF acc, Good
  <2>10. CASE acc.ok /\ acc.at # NULL_UNDO_PTR
    <3>1. UndoneSoFar(U[n], t) /\ U[n].at < acc.at
      BY <2>8, <2>9, <2>10, UndoneStep DEF acc
    <3>2. U[n].at \in Nat /\ acc.at \in Nat
      BY <2>9, <3>1 DEF UndoneSoFar
    <3>3. n + U[n].at <= MaxUndo
      BY <1>1, <2>5, <2>9, <2>10, <3>1, <3>2
    <3> QED
      BY <2>3, <3>1, <3>3 DEF Good
  <2>11. CASE ~(acc.ok /\ acc.at # NULL_UNDO_PTR)
    <3>1. U[n] = acc
      BY <2>8, <2>11, UndoneStops DEF acc
    <3> QED
      BY <2>3, <2>9, <2>11, <3>1 DEF Good
  <2> QED
    BY <2>10, <2>11
<1>5. Good(MaxUndo)
  BY <1>1, <1>4
<1>6. RolledBack(t) = U[MaxUndo]
  BY RolledBackIs DEF U
<1>7. U[MaxUndo].at \in Nat
  BY <1>5 DEF UndoneSoFar
<1>8. U[MaxUndo].ok => U[MaxUndo].at = NULL_UNDO_PTR
  BY <1>1, <1>5, <1>7 DEF NULL_UNDO_PTR
<1> QED
  BY <1>5, <1>6, <1>8

LEMMA RollbackIs ==
  ASSUME StoreAssumption, GuardedInv, Rollback
  PROVE  /\ op.txn \in TxnIds /\ clog[op.txn] = "InProgress"
         /\ UndoneSoFar(RolledBack(op.txn), op.txn)
         /\ RolledBack(op.txn).ok => RolledBack(op.txn).at = NULL_UNDO_PTR
         /\ heap' = RolledBack(op.txn).heap
         /\ heap' \in Seq(Slot) /\ Len(heap') = Len(heap)
         /\ UNCHANGED <<clog, locks, undoLog, undoPtr>>
<1>1. op.txn \in TxnIds /\ op.kind = "abort" /\ op.pc = "undo"
  BY OpTxn DEF Rollback, At, GuardedInv, StoreInv, TypeOK
<1>2. clog[op.txn] = "InProgress"
  BY <1>1 DEF GuardedInv, StoreInv, OutcomeInv, CallInv, DecidedInv, Ending
<1>3. /\ UndoneSoFar(RolledBack(op.txn), op.txn)
      /\ RolledBack(op.txn).ok => RolledBack(op.txn).at = NULL_UNDO_PTR
  BY <1>1, <1>2, UndoneAll
<1>4. heap' = RolledBack(op.txn).heap /\ UNCHANGED <<clog, locks, undoLog, undoPtr>>
  BY DEF Rollback, AbortRollback, undoVars
<1> QED
  BY <1>1, <1>2, <1>3, <1>4 DEF UndoneSoFar, Accs

-----------------------------------------------------------------------------
(* The executor with conflict checks and undo: locks, outcomes and entries *)

\* Every step but a rollback.
Forward == Lifecycle \/ (\E t \in TxnIds : Dml(t)) \/ Gc \/ UNCHANGED svars

\* Nobody reaches the steps after the rollback, or is marked aborted, but by one.
LEMMA AbortSteps ==
  ASSUME StoreAssumption, StoreInv, Forward, NEW e \in TxnIds
  PROVE  /\ RollbackDone(e)' => RollbackDone(e)
         /\ clog'[e] = "Aborted" => clog[e] = "Aborted" \/ RollbackDone(e)
<1> USE DEF RollbackDone
<1>1. CASE (\E t \in TxnIds : Dml(t)) \/ Gc \/ UNCHANGED svars
  BY <1>1, DmlKeeps DEF Gc, GcStart, GcEnd, GcSlot, svars, vars
<1>2. CASE BeginRegister
  <2>1. clog[nextTxnId] = "InProgress" /\ clog \in [TxnIds -> TxnStatus]
    BY <1>2, TxnAssumption
    DEF BeginRegister, StoreInv, OutcomeInv, IdsInv, TxnIds, TypeOK, TableTypeOK, SharedTypeOK, NoActive
  <2> QED
    BY <1>2, <2>1 DEF BeginRegister, Call
<1>3. CASE BeginLog \/ CommitFinish \/ AbortFinish
  BY <1>3 DEF BeginLog, CommitFinish, AbortFinish, Idle
<1>4. CASE CommitLog \/ CommitWait \/ AbortLog \/ ReleaseLocks \/ RemoveFromGraph
  <2>1. clog' = clog
    BY <1>4 DEF CommitLog, CommitWait, AbortLog, ReleaseLocks, RemoveFromGraph
  <2>2. op' = Idle \/ (op'.kind = op.kind /\ op'.txn = op.txn)
    BY <1>4 DEF CommitLog, CommitWait, AbortLog, ReleaseLocks, RemoveFromGraph, Goto, At,
       StoreInv, TypeOK, CallTypeOK, Calls, Idle
  <2>3. op.kind = "abort" => op.pc # "undo"
    BY <1>4 DEF CommitLog, CommitWait, AbortLog, ReleaseLocks, RemoveFromGraph, At
  <2> QED
    BY <2>1, <2>2, <2>3 DEF Idle
<1>5. CASE CommitClog \/ AbortClog
  <2>1. op'.kind = op.kind /\ op'.txn = op.txn /\ clog \in [TxnIds -> TxnStatus]
    BY <1>5 DEF CommitClog, AbortClog, Goto, At, StoreInv, TypeOK, CallTypeOK, Calls, Idle, SharedTypeOK
  <2>2. CASE CommitClog
    BY <2>1, <2>2 DEF CommitClog, At
  <2>3. CASE AbortClog
    BY <2>1, <2>3 DEF AbortClog, At
  <2> QED
    BY <1>5, <2>2, <2>3
<1>6. ASSUME NEW u \in TxnIds, CommitStart(u) \/ OwnerAbort(u)
      PROVE  ~RollbackDone(e)' /\ clog' = clog
  BY <1>6 DEF CommitStart, OwnerAbort, AbortStart, Call
<1> QED
  BY <1>1, <1>2, <1>3, <1>4, <1>5, <1>6 DEF Forward, Lifecycle, CommitCall

LEMMA ReleaseKept ==
  ASSUME StoreAssumption, StoreInv, ReleaseInv, [StoreNext]_svars PROVE ReleaseInv'
<1>1. CASE RollbackFails
  BY <1>1 DEF RollbackFails, ReleaseInv, Idle
<1> QED
  BY <1>1, ManagerStep, ReleaseNext DEF StoreInv

\* Who is undecided keeps its rows.
LEMMA LocksStay ==
  ASSUME StoreAssumption, StoreInv, ReleaseInv, [StoreNext]_svars,
         NEW r \in Rows, NEW e \in TxnIds, locks[r] = e, clog'[e] = "InProgress"
  PROVE  clog[e] = "InProgress" /\ locks'[r] = e
<1>1. clog[e] = "InProgress"
  BY OutcomesStay
<1>2. e # NoTxn
  BY TxnAssumption DEF TxnIds, NoTxn
<1>3. CASE RollbackFails
  BY <1>1, <1>3 DEF RollbackFails
<1>4. CASE [Next]_vars
  <2> SUFFICES ASSUME locks'[r] # e PROVE FALSE
    BY <1>1
  <2>1. ReleaseLocks /\ e = op.txn
    BY <1>2, <1>4, RowsTaken DEF StoreInv
  <2> QED
    BY <1>1, <2>1 DEF ReleaseLocks, ReleaseInv
<1> QED
  BY <1>3, <1>4, ManagerStep DEF StoreInv

\* The undo log only grows.
UndoGrows ==
  /\ Len(undoLog) <= Len(undoLog')
  /\ \A i \in 1..Len(undoLog) : undoLog'[i] = undoLog[i]

\* A live version keeps the stamp it has, with what makes it sound.
LEMMA StampStays ==
  ASSUME StoreAssumption, GuardedInv, [StoreNext]_svars, Forward, UndoGrows,
         NEW s \in DOMAIN heap, ~heap[s].dead,
         NEW e, e = heap[s].meta.expire, e # INVALID_TXN_ID
  PROVE  /\ clog'[e] # "Aborted" /\ ~RollbackDone(e)'
         /\ clog'[e] = "InProgress" =>
              locks'[s] = e /\ \E i \in 1..Len(undoLog') : TakesBack(i, s, e)'
<1>1. StoreInv /\ ReleaseInv
  BY DEF GuardedInv
<1>2. e \in TxnIds /\ s \in Rows
  BY <1>1, HeapIs, TxnAssumption DEF Metas, TxnIds, INVALID_TXN_ID, StoreInv
<1>3. /\ clog[e] # "Aborted" /\ ~RollbackDone(e)
      /\ clog[e] = "InProgress" =>
           locks[s] = e /\ \E i \in 1..Len(undoLog) : TakesBack(i, s, e)
  BY DEF GuardedInv, StampInv
<1>4. clog'[e] # "Aborted" /\ ~RollbackDone(e)'
  BY <1>1, <1>2, <1>3, AbortSteps
<1>5. ASSUME clog'[e] = "InProgress"
      PROVE  locks'[s] = e /\ \E i \in 1..Len(undoLog') : TakesBack(i, s, e)'
  <2>1. clog[e] = "InProgress"
    BY <1>1, <1>2, <1>5, OutcomesStay
  <2>2. locks'[s] = e
    BY <1>1, <1>2, <1>3, <1>5, <2>1, LocksStay
  <2>3. PICK i \in 1..Len(undoLog) : TakesBack(i, s, e)
    BY <1>3, <2>1
  <2>4. Len(undoLog) \in Nat /\ Len(undoLog') \in Nat
    <3>1. TypeOK'
      BY <1>1, ManagerTypes DEF StoreInv
    <3> QED
      BY <1>1, <3>1 DEF StoreInv, TypeOK, UndoTypeOK
  <2>5. i \in 1..Len(undoLog') /\ TakesBack(i, s, e)'
    BY <2>3, <2>4 DEF UndoGrows, TakesBack
  <2> QED
    BY <2>2, <2>5
<1> QED
  BY <1>4, <1>5

\* Entries are as they were while the log is.
LEMMA EntriesKept ==
  ASSUME StoreAssumption, GuardedInv, [StoreNext]_svars, UNCHANGED <<undoLog, undoPtr>>,
         DOMAIN heap \subseteq DOMAIN heap'
  PROVE  ChainInv' /\ EntryInv'
<1>1. StoreInv /\ ReleaseInv /\ ChainInv /\ EntryInv
  BY DEF GuardedInv
<1>2. ChainInv'
  BY <1>1 DEF ChainInv
<1>3. ASSUME NEW i \in 1..Len(undoLog), NEW e, NEW b, e = undoLog[i].txn, b = undoLog[i].body,
             b.type # "INSERT", clog'[e] = "InProgress"
      PROVE  /\ locks'[b.slot] = e
             /\ b.old.expire \in {INVALID_TXN_ID, e} \/ clog'[b.old.expire] = "Committed"
             /\ b.old.expire = e => \E j \in 1..i - 1 : TakesBack(j, b.slot, e)'
  <2>1. e \in TxnIds
    <3>1. undoLog[i] \in UndoEntries
      BY <1>1 DEF StoreInv, TypeOK, UndoTypeOK
    <3>2. undoLog[i].txn \in TxnIds
      BY <3>1 DEF UndoEntries
    <3> QED
      BY <1>3, <3>2
  <2>2. b.slot \in Rows /\ b.old \in Metas
    <3>1. b \in Bodies /\ b.slot \in DOMAIN heap
      BY <1>1, <1>3 DEF ChainInv
    <3> QED
      BY <1>1, <3>1, HeapIs DEF Bodies, StoreInv
  <2>3. clog[e] = "InProgress"
    BY <1>1, <1>3, <2>1, OutcomesStay
  <2>4. /\ locks[b.slot] = e
        /\ b.old.expire \in {INVALID_TXN_ID, e} \/ clog[b.old.expire] = "Committed"
        /\ b.old.expire = e => \E j \in 1..i - 1 : TakesBack(j, b.slot, e)
    BY <1>1, <1>3, <2>3 DEF EntryInv
  <2>5. locks'[b.slot] = e
    <3>1. locks[b.slot] = e
      BY <2>4
    <3> QED
      BY <1>1, <1>3, <2>1, <2>2, <3>1, LocksStay
  <2>6. b.old.expire \notin {INVALID_TXN_ID, e} => clog'[b.old.expire] = "Committed"
    <3>1. b.old.expire # INVALID_TXN_ID => b.old.expire \in TxnIds
      BY <2>2, TxnAssumption DEF Metas, TxnIds, INVALID_TXN_ID
    <3>2. ASSUME NEW x \in TxnIds, clog[x] = "Committed" PROVE clog'[x] = "Committed"
      BY <1>1, <3>2, OutcomesStay
    <3> QED
      BY <2>4, <3>1, <3>2
  <2>7. \A j : TakesBack(j, b.slot, e)' <=> TakesBack(j, b.slot, e)
    BY DEF TakesBack
  <2> QED
    BY <2>4, <2>5, <2>6, <2>7
<1>4. EntryInv'
  BY <1>3 DEF EntryInv
<1> QED
  BY <1>2, <1>4

LEMMA RecordIs ==
  ASSUME TypeOK, NEW t \in TxnIds, NEW body, RecordUndo(t, body)
  PROVE  /\ UndoGrows /\ Len(undoLog) \in Nat /\ Len(undoLog') = Len(undoLog) + 1
         /\ Len(undoLog') <= MaxUndo
         /\ undoLog'[Len(undoLog) + 1].txn = t
         /\ undoLog'[Len(undoLog) + 1].prev = undoPtr[t]
         /\ undoLog'[Len(undoLog) + 1].body = body
         /\ undoPtr'[t] = Len(undoLog) + 1
         /\ \A u \in TxnIds : u # t => undoPtr'[u] = undoPtr[u]
         /\ UNCHANGED <<clog, locks, op>>
<1> DEFINE new == [txn |-> t, prev |-> undoPtr[t], body |-> body]
<1>1. /\ undoLog \in Seq(UndoEntries) /\ undoPtr \in [TxnIds -> 0..Len(undoLog)]
      /\ MaxUndo \in Nat
  BY TxnAssumption DEF TypeOK, UndoTypeOK
<1>2. /\ undoLog' = Append(undoLog, new)
      /\ undoPtr' = [undoPtr EXCEPT ![t] = Len(undoLog) + 1]
      /\ Len(undoLog) < MaxUndo /\ UNCHANGED <<clog, locks, op>>
  BY DEF RecordUndo
<1>3. new.txn = t /\ new.prev = undoPtr[t] /\ new.body = body
  OBVIOUS
<1> HIDE DEF new
<1>4. /\ Len(undoLog') = Len(undoLog) + 1 /\ undoLog'[Len(undoLog) + 1] = new
      /\ \A i \in 1..Len(undoLog) : undoLog'[i] = undoLog[i]
  BY <1>1, <1>2
<1>5. Len(undoLog) \in Nat
  BY <1>1
<1> QED
  BY <1>1, <1>2, <1>3, <1>4, <1>5 DEF UndoGrows

\* What a session may record of a change it makes: its own row, and a stamp that no
\* other undecided transaction has put there.
MayRecord(t, body) ==
  /\ body \in Bodies
  /\ body.type # "INSERT" =>
       /\ locks[body.slot] = t
       /\ body.old.expire \in {INVALID_TXN_ID, t} \/ clog[body.old.expire] = "Committed"
       /\ body.old.expire = t => \E j \in 1..Len(undoLog) : TakesBack(j, body.slot, t)

LEMMA EntriesRecorded ==
  ASSUME StoreAssumption, GuardedInv, NEW t \in TxnIds, NEW body, RecordUndo(t, body),
         MayRecord(t, body), DOMAIN heap \subseteq DOMAIN heap', body.slot \in DOMAIN heap'
  PROVE  ChainInv' /\ EntryInv'
<1> DEFINE n == Len(undoLog)
<1>1. TypeOK /\ ChainInv /\ EntryInv
  BY DEF GuardedInv, StoreInv
<1>2. /\ n \in Nat /\ Len(undoLog') = n + 1 /\ Len(undoLog') <= MaxUndo
      /\ \A i \in 1..n : undoLog'[i] = undoLog[i]
      /\ undoLog'[n + 1].txn = t /\ undoLog'[n + 1].prev = undoPtr[t]
      /\ undoLog'[n + 1].body = body
      /\ undoPtr'[t] = n + 1
      /\ \A u \in TxnIds : u # t => undoPtr'[u] = undoPtr[u]
      /\ UNCHANGED <<clog, locks>>
  BY <1>1, RecordIs DEF UndoGrows
<1>3. \A u \in TxnIds : undoPtr[u] \in 0..n
  BY <1>1 DEF TypeOK, UndoTypeOK
<1> HIDE DEF n
<1>4. \A i \in 1..n + 1 : i \in 1..n \/ i = n + 1
  BY <1>2
<1>5. \A i \in 1..n : \A s, e : TakesBack(i, s, e)' <=> TakesBack(i, s, e)
  BY <1>2 DEF TakesBack
<1>6. ASSUME NEW i \in 1..n + 1
      PROVE  /\ undoLog'[i].body \in Bodies /\ undoLog'[i].body.slot \in DOMAIN heap'
             /\ undoLog'[i].prev \in 0..i - 1
             /\ undoLog'[i].prev # NULL_UNDO_PTR =>
                  undoLog'[undoLog'[i].prev].txn = undoLog'[i].txn
             /\ \A j \in undoLog'[i].prev + 1..i - 1 : undoLog'[j].txn # undoLog'[i].txn
  <2>1. CASE i \in 1..n
    <3> DEFINE e == undoLog[i]
    <3>1. /\ e.body \in Bodies /\ e.body.slot \in DOMAIN heap
          /\ e.prev \in 0..i - 1
          /\ e.prev # NULL_UNDO_PTR => undoLog[e.prev].txn = e.txn
          /\ \A j \in e.prev + 1..i - 1 : undoLog[j].txn # e.txn
      BY <1>1, <2>1 DEF ChainInv, n
    <3>2. undoLog'[i] = e
      BY <1>2, <2>1
    <3>3. PICK p \in 0..i - 1 : p = e.prev
      BY <3>1
    <3> HIDE DEF e
    <3>4. p # NULL_UNDO_PTR => undoLog'[p] = undoLog[p]
      BY <1>2, <2>1 DEF NULL_UNDO_PTR
    <3>5. \A j \in p + 1..i - 1 : undoLog'[j] = undoLog[j]
      BY <1>2, <2>1
    <3> QED
      BY <3>1, <3>2, <3>3, <3>4, <3>5
  <2>2. CASE i = n + 1
    <3>1. PICK p \in 0..n : p = undoPtr[t]
      BY <1>3
    <3>2. /\ p # NULL_UNDO_PTR => undoLog[p].txn = t
          /\ \A j \in p + 1..n : undoLog[j].txn # t
      BY <1>1, <3>1 DEF ChainInv, n
    <3>3. p # NULL_UNDO_PTR => undoLog'[p] = undoLog[p]
      BY <1>2 DEF NULL_UNDO_PTR
    <3>4. \A j \in p + 1..n : undoLog'[j] = undoLog[j]
      BY <1>2
    <3>5. i - 1 = n /\ undoLog'[i].txn = t /\ undoLog'[i].prev = p /\ undoLog'[i].body = body
      BY <1>2, <2>2, <3>1
    <3> QED
      BY <3>2, <3>3, <3>4, <3>5 DEF MayRecord
  <2> QED
    BY <1>4, <2>1, <2>2
<1>7. ASSUME NEW u \in TxnIds
      PROVE  /\ undoPtr'[u] # NULL_UNDO_PTR => undoLog'[undoPtr'[u]].txn = u
             /\ \A j \in undoPtr'[u] + 1..n + 1 : undoLog'[j].txn # u
  <2>1. CASE u = t
    BY <1>2, <2>1
  <2>2. CASE u # t
    <3>1. PICK p \in 0..n : p = undoPtr[u]
      BY <1>3
    <3>2. /\ p # NULL_UNDO_PTR => undoLog[p].txn = u
          /\ \A j \in p + 1..n : undoLog[j].txn # u
      BY <1>1, <3>1 DEF ChainInv, n
    <3>3. undoPtr'[u] = p /\ (p # NULL_UNDO_PTR => undoLog'[p] = undoLog[p])
      BY <1>2, <2>2, <3>1 DEF NULL_UNDO_PTR
    <3>4. ASSUME NEW j \in p + 1..n + 1 PROVE undoLog'[j].txn # u
      <4>1. CASE j = n + 1
        BY <1>2, <2>2, <4>1
      <4>2. CASE j # n + 1
        <5>1. j \in p + 1..n /\ j \in 1..n
          BY <1>2, <4>2
        <5> QED
          BY <1>2, <3>2, <5>1
      <4> QED
        BY <4>1, <4>2
    <3> QED
      BY <3>2, <3>3, <3>4
  <2> QED
    BY <2>1, <2>2
<1>8. ChainInv'
  BY <1>2, <1>6, <1>7 DEF ChainInv
<1>9. ASSUME NEW i \in 1..n + 1, NEW e, NEW b, e = undoLog'[i].txn, b = undoLog'[i].body,
             b.type # "INSERT", clog'[e] = "InProgress"
      PROVE  /\ locks'[b.slot] = e
             /\ b.old.expire \in {INVALID_TXN_ID, e} \/ clog'[b.old.expire] = "Committed"
             /\ b.old.expire = e => \E j \in 1..i - 1 : TakesBack(j, b.slot, e)'
  <2>1. CASE i \in 1..n
    <3>1. e = undoLog[i].txn /\ b = undoLog[i].body
      BY <1>2, <1>9, <2>1
    <3>2. /\ locks[b.slot] = e
          /\ b.old.expire \in {INVALID_TXN_ID, e} \/ clog[b.old.expire] = "Committed"
          /\ b.old.expire = e => \E j \in 1..i - 1 : TakesBack(j, b.slot, e)
      BY <1>1, <1>2, <1>9, <2>1, <3>1 DEF EntryInv, n
    <3>3. \A j \in 1..i - 1 : j \in 1..n
      BY <1>2, <2>1
    <3> QED
      BY <1>2, <1>5, <3>2, <3>3
  <2>2. CASE i = n + 1
    <3>1. e = t /\ b = body /\ i - 1 = n
      BY <1>2, <1>9, <2>2
    <3> QED
      BY <1>2, <1>5, <1>9, <3>1 DEF MayRecord, n
  <2> QED
    BY <1>4, <2>1, <2>2
<1>10. EntryInv'
  BY <1>2, <1>9 DEF EntryInv
<1> QED
  BY <1>8, <1>10

-----------------------------------------------------------------------------
(* The executor with conflict checks and undo: one step of a statement *)

\* A slot that the step has left alone, killed or appended needs no new entry.
LEMMA StampsKept ==
  ASSUME StoreAssumption, GuardedInv, [StoreNext]_svars, Forward, UndoGrows,
         \A s \in DOMAIN heap' :
           \/ heap'[s].dead \/ heap'[s].meta.expire = INVALID_TXN_ID
           \/ s \in DOMAIN heap /\ ~heap[s].dead /\ heap'[s].meta = heap[s].meta
  PROVE  StampInv'
<1> SUFFICES ASSUME NEW s \in DOMAIN heap', NEW e, e = heap'[s].meta.expire,
                    ~heap'[s].dead, e # INVALID_TXN_ID
             PROVE  /\ clog'[e] # "Aborted" /\ ~RollbackDone(e)'
                    /\ clog'[e] = "InProgress" =>
                         locks'[s] = e /\ \E i \in 1..Len(undoLog') : TakesBack(i, s, e)'
  BY DEF StampInv
<1>1. s \in DOMAIN heap /\ ~heap[s].dead /\ e = heap[s].meta.expire
  OBVIOUS
<1> QED
  BY <1>1, StampStays

LEMMA RowsRecorded ==
  ASSUME StoreAssumption, Guarded, GuardedInv, NEW t \in TxnIds, NEW s \in DOMAIN heap,
         Changeable(t, s), NEW type \in {"DELETE", "UPDATE"}
  PROVE  MayRecord(t, [type |-> type, slot |-> s, old |-> heap[s].meta])
<1>1. /\ s \in 1..MaxSlots /\ heap[s].meta \in Metas
      /\ locks[s] = t /\ ~heap[s].dead /\ SessionFree(t)
  BY HeapIs DEF GuardedInv, StoreInv, StoreAssumption, Changeable, Executing
<1> DEFINE body == [type |-> type, slot |-> s, old |-> heap[s].meta]
<1>2. body \in Bodies /\ body.slot = s /\ body.old = heap[s].meta
  BY <1>1 DEF Bodies
<1>3. PICK e : e = heap[s].meta.expire
  OBVIOUS
<1>4. clog[t] = "InProgress" /\ t # INVALID_TXN_ID
  BY <1>1, BusyUndecided, TxnAssumption DEF GuardedInv, StoreInv, TxnIds, INVALID_TXN_ID
<1>5. e # INVALID_TXN_ID =>
        /\ clog[e] # "Aborted"
        /\ clog[e] = "InProgress" => locks[s] = e /\ \E i \in 1..Len(undoLog) : TakesBack(i, s, e)
  BY <1>1, <1>3 DEF GuardedInv, StampInv
<1>6. e # INVALID_TXN_ID => clog[e] \in TxnStatus
  BY <1>1, <1>3, TxnAssumption
  DEF GuardedInv, StoreInv, TypeOK, SharedTypeOK, Metas, TxnIds, INVALID_TXN_ID
<1>7. e \in {INVALID_TXN_ID, t} \/ clog[e] = "Committed"
  BY <1>1, <1>5, <1>6 DEF TxnStatus
<1>8. e = t => \E i \in 1..Len(undoLog) : TakesBack(i, s, t)
  BY <1>4, <1>5
<1> HIDE DEF body
<1> QED
  BY <1>1, <1>2, <1>3, <1>7, <1>8 DEF MayRecord, body

\* The row is changed under its lock, and its entry is there before the stamp.
LEMMA RowStamped ==
  ASSUME StoreAssumption, Guarded, GuardedInv, [StoreNext]_svars,
         NEW t \in TxnIds, Dml(t), NEW s \in DOMAIN heap,
         Changeable(t, s), NEW type \in {"DELETE", "UPDATE"},
         Recorded(t, type, s, heap[s].meta), Stamps(t, s)
  PROVE  ChainInv' /\ EntryInv' /\ StampInv'
<1> DEFINE body == [type |-> type, slot |-> s, old |-> heap[s].meta]
<1>1. TypeOK /\ StoreTypeOK /\ OutcomeInv
  BY DEF GuardedInv, StoreInv
<1>2. RecordUndo(t, body)
  BY DEF Recorded
<1>3. MayRecord(t, body)
  BY RowsRecorded
<1>4. body.slot = s /\ body.old = heap[s].meta /\ body.type = type
  OBVIOUS
<1> HIDE DEF body
<1>5. /\ heap' \in Seq(Slot) /\ Len(heap') = Len(heap)
      /\ heap'[s].meta.expire = t /\ \A u \in DOMAIN heap : u # s => heap'[u] = heap[u]
  BY <1>1, StampsIs
<1>6. heap \in Seq(Slot) /\ DOMAIN heap' = DOMAIN heap
  BY <1>1, <1>5, HeapIs
<1>7. ChainInv' /\ EntryInv'
  BY <1>2, <1>3, <1>4, <1>6, EntriesRecorded
<1>8. /\ UndoGrows /\ Len(undoLog) \in Nat /\ Len(undoLog') = Len(undoLog) + 1
      /\ undoLog'[Len(undoLog) + 1].txn = t
      /\ undoLog'[Len(undoLog) + 1].body = body
      /\ UNCHANGED <<clog, locks, op>>
  BY <1>1, <1>2, RecordIs
<1>9. SessionFree(t) /\ locks[s] = t
  BY DEF Changeable, Executing
<1>10. clog[t] = "InProgress" /\ ~RollbackDone(t)
  BY <1>1, <1>9, BusyUndecided DEF OutcomeInv, CallInv, SessionFree, RollbackDone
<1>11. \E i \in 1..Len(undoLog') : TakesBack(i, s, t)'
  <2>1. CASE heap[s].meta.expire = t
    <3>1. PICK i \in 1..Len(undoLog) : TakesBack(i, s, t)
      BY <1>3, <1>4, <2>1 DEF MayRecord
    <3>2. i \in 1..Len(undoLog') /\ undoLog'[i] = undoLog[i]
      BY <1>8 DEF UndoGrows
    <3> QED
      BY <3>1, <3>2 DEF TakesBack
  <2>2. CASE heap[s].meta.expire # t
    <3>1. PICK i \in 1..Len(undoLog') : i = Len(undoLog) + 1
      BY <1>8
    <3>2. TakesBack(i, s, t)'
      BY <1>4, <1>8, <2>2, <3>1 DEF TakesBack
    <3> QED
      BY <3>2
  <2> QED
    BY <2>1, <2>2
<1>12. StampInv'
  <2> SUFFICES ASSUME NEW u \in DOMAIN heap', NEW e, e = heap'[u].meta.expire,
                      ~heap'[u].dead, e # INVALID_TXN_ID
               PROVE  /\ clog'[e] # "Aborted" /\ ~RollbackDone(e)'
                      /\ clog'[e] = "InProgress" =>
                           locks'[u] = e /\ \E i \in 1..Len(undoLog') : TakesBack(i, u, e)'
    BY DEF StampInv
  <2>1. CASE u = s
    BY <1>5, <1>8, <1>9, <1>10, <1>11, <2>1 DEF RollbackDone
  <2>2. CASE u # s
    <3>1. u \in DOMAIN heap /\ ~heap[u].dead /\ e = heap[u].meta.expire
      BY <1>5, <1>6, <2>2
    <3> QED
      BY <1>8, <3>1, StampStays DEF Forward
  <2> QED
    BY <2>1, <2>2
<1> QED
  BY <1>7, <1>12

LEMMA GuardedDml ==
  ASSUME StoreAssumption, Guarded, GuardedInv, [StoreNext]_svars, NEW t \in TxnIds, Dml(t)
  PROVE  ChainInv' /\ EntryInv' /\ StampInv'
<1>1. TypeOK /\ StoreTypeOK
  BY DEF GuardedInv, StoreInv
<1>2. heap \in Seq(Slot) /\ Forward
  BY <1>1, HeapIs DEF Forward
<1>3. CASE heap' = heap /\ UNCHANGED <<undoLog, undoPtr>>
  <2>1. UndoGrows
    BY <1>1, <1>3 DEF UndoGrows, TypeOK, UndoTypeOK
  <2>2. StampInv'
    <3>1. \A s \in DOMAIN heap' :
            \/ heap'[s].dead \/ heap'[s].meta.expire = INVALID_TXN_ID
            \/ s \in DOMAIN heap /\ ~heap[s].dead /\ heap'[s].meta = heap[s].meta
      BY <1>3
    <3> QED
      BY <1>2, <2>1, <3>1, StampsKept
  <2> QED
    BY <1>3, <2>2, EntriesKept
<1>4. ASSUME NEW row \in RowIds, Adds(t, row), UndoGrows PROVE StampInv' /\ DOMAIN heap' = 1..Len(heap) + 1
  <2>1. /\ heap' \in Seq(Slot) /\ Len(heap') = Len(heap) + 1
        /\ heap'[Len(heap) + 1].meta = NewInsert(t, cmdId[t])
        /\ \A u \in DOMAIN heap : heap'[u] = heap[u]
    BY <1>1, <1>4, AddsIs
  <2>2. NewInsert(t, cmdId[t]).expire = INVALID_TXN_ID
    BY DEF NewInsert
  <2>3. DOMAIN heap' = 1..Len(heap) + 1 /\ DOMAIN heap = 1..Len(heap) /\ Len(heap) \in Nat
    BY <1>2, <2>1
  <2>4. \A s \in DOMAIN heap' :
          \/ heap'[s].dead \/ heap'[s].meta.expire = INVALID_TXN_ID
          \/ s \in DOMAIN heap /\ ~heap[s].dead /\ heap'[s].meta = heap[s].meta
    BY <2>1, <2>2, <2>3
  <2> QED
    BY <1>2, <1>4, <2>3, <2>4, StampsKept
<1>5. DOMAIN heap = 1..Len(heap) /\ Len(heap) \in Nat
  BY <1>2
<1>6. ASSUME NEW kind, NEW row, StartStmt(t, kind, row) PROVE ChainInv' /\ EntryInv' /\ StampInv'
  BY <1>3, <1>6 DEF StartStmt, AdvanceCmdId, undoVars
<1>7. CASE StmtFails(t)
  BY <1>3, <1>7 DEF StmtFails, vars, undoVars
<1>8. CASE InsertRow(t)
  <2> DEFINE body == [type |-> "INSERT", slot |-> Len(heap) + 1,
                      old |-> NewInsert(t, cmdId[t])]
  <2>1. RecordUndo(t, body)
    BY <1>8 DEF InsertRow, Recorded, Version
  <2>2. body.slot = Len(heap) + 1 /\ body.type = "INSERT"
    OBVIOUS
  <2>3. MayRecord(t, body)
    <3>1. Len(heap) + 1 \in 1..MaxSlots /\ NewInsert(t, cmdId[t]) \in Metas
      BY <1>1, <1>5, <1>8, NewInsertIs DEF InsertRow, StoreAssumption, TypeOK, TableTypeOK
    <3> QED
      BY <3>1 DEF MayRecord, Bodies
  <2> HIDE DEF body
  <2>4. Adds(t, stmt[t].row) /\ stmt[t].row \in RowIds
    BY <1>1, <1>8 DEF InsertRow, Adds, StoreTypeOK
  <2>5. UndoGrows
    BY <1>1, <2>1, RecordIs
  <2>6. StampInv' /\ DOMAIN heap' = 1..Len(heap) + 1
    BY <1>4, <2>4, <2>5
  <2>7. DOMAIN heap \subseteq DOMAIN heap' /\ body.slot \in DOMAIN heap'
    BY <1>5, <2>2, <2>6
  <2> QED
    BY <2>1, <2>3, <2>6, <2>7, EntriesRecorded
<1>9. ASSUME NEW s \in DOMAIN heap, LockRow(t, s) PROVE ChainInv' /\ EntryInv' /\ StampInv'
  BY <1>3, <1>9 DEF LockRow, CheckConflictOk, undoVars, storeVars
<1>10. ASSUME NEW s \in DOMAIN heap, DeleteRow(t, s) PROVE ChainInv' /\ EntryInv' /\ StampInv'
  <2>1. Changeable(t, s) /\ Recorded(t, "DELETE", s, heap[s].meta) /\ Stamps(t, s)
    BY <1>10 DEF DeleteRow, Changeable, Stamps
  <2> QED
    BY <2>1, RowStamped
<1>11. ASSUME NEW s \in DOMAIN heap, UpdateExpire(t, s) PROVE ChainInv' /\ EntryInv' /\ StampInv'
  <2>1. Changeable(t, s) /\ Recorded(t, "UPDATE", s, heap[s].meta) /\ Stamps(t, s)
    BY <1>11 DEF UpdateExpire, Changeable, Stamps
  <2> QED
    BY <2>1, RowStamped
<1>12. ASSUME NEW s \in DOMAIN heap, UpdateInsert(t, s) PROVE ChainInv' /\ EntryInv' /\ StampInv'
  <2>1. Adds(t, heap[s].row) /\ UNCHANGED <<undoLog, undoPtr>>
    BY <1>12 DEF UpdateInsert, Adds, vars, undoVars
  <2>2. heap[s].row \in RowIds
    BY <1>1, HeapIs DEF Slot
  <2>3. UndoGrows
    BY <1>1, <2>1 DEF UndoGrows, TypeOK, UndoTypeOK
  <2>4. StampInv' /\ DOMAIN heap' = 1..Len(heap) + 1
    BY <1>4, <2>1, <2>2, <2>3
  <2>5. DOMAIN heap \subseteq DOMAIN heap'
    BY <1>5, <2>4
  <2> QED
    BY <2>1, <2>4, <2>5, EntriesKept
<1> QED
  BY <1>6, <1>7, <1>8, <1>9, <1>10, <1>11, <1>12 DEF Dml

-----------------------------------------------------------------------------
(* The executor with conflict checks and undo: the invariant *)

LEMMA GuardedRollback ==
  ASSUME StoreAssumption, GuardedInv, [StoreNext]_svars, Rollback
  PROVE  ChainInv' /\ EntryInv' /\ StampInv'
<1> DEFINE t == op.txn
           acc == RolledBack(t)
<1>1. /\ t \in TxnIds /\ clog[t] = "InProgress" /\ UndoneSoFar(acc, t)
      /\ acc.ok => acc.at = NULL_UNDO_PTR
      /\ heap' = acc.heap /\ heap' \in Seq(Slot) /\ Len(heap') = Len(heap)
      /\ UNCHANGED <<clog, locks, undoLog, undoPtr>>
  BY RollbackIs
<1>2. heap \in Seq(Slot) /\ DOMAIN heap' = DOMAIN heap /\ Len(undoLog) \in Nat
  BY <1>1, HeapIs DEF GuardedInv, StoreInv, TypeOK, UndoTypeOK
<1>3. ChainInv' /\ EntryInv'
  BY <1>1, <1>2, EntriesKept
<1>4. \/ acc.ok /\ op'.txn = t
      \/ ~acc.ok /\ op'.kind = "none"
  <2>1. op \in Calls
    BY DEF Rollback, At, Idle, GuardedInv, StoreInv, TypeOK, CallTypeOK
  <2>2. acc.ok => op' = [op EXCEPT !.pc = "wal"]
    BY DEF Rollback, AbortRollback, Goto
  <2>3. ~acc.ok => op' = Idle
    BY DEF Rollback
  <2> HIDE DEF acc
  <2> QED
    BY <2>1, <2>2, <2>3 DEF Calls, Idle
<1> HIDE DEF acc, t
<1>5. StampInv'
  <2> SUFFICES ASSUME NEW s \in DOMAIN heap', NEW e, e = heap'[s].meta.expire,
                      ~heap'[s].dead, e # INVALID_TXN_ID
               PROVE  /\ clog'[e] # "Aborted" /\ ~RollbackDone(e)'
                      /\ clog'[e] = "InProgress" =>
                           locks'[s] = e /\ \E i \in 1..Len(undoLog') : TakesBack(i, s, e)'
    BY DEF StampInv
  <2>1. /\ s \in DOMAIN heap /\ ~heap[s].dead
        /\ \/ acc.heap[s].meta = heap[s].meta
           \/ locks[s] = t /\ Restorable(acc.heap[s].meta, t)
        /\ e = t => /\ locks[s] = t
                    /\ \E i \in 1..Len(undoLog) : TakesBack(i, s, t) /\ (acc.ok => i <= acc.at)
    BY <1>1, <1>2 DEF UndoneSoFar
  <2>2. CASE e = t
    <3>1. PICK i \in 1..Len(undoLog) : TakesBack(i, s, t) /\ (acc.ok => i <= acc.at)
      BY <2>1, <2>2
    <3>2. ~acc.ok
      BY <1>1, <1>2, <3>1 DEF NULL_UNDO_PTR
    <3>3. ~RollbackDone(e)'
      BY <1>4, <3>2 DEF RollbackDone
    <3>4. TakesBack(i, s, e)' /\ i \in 1..Len(undoLog')
      BY <1>1, <2>2, <3>1 DEF TakesBack
    <3> QED
      BY <1>1, <2>1, <2>2, <3>3, <3>4
  <2>3. CASE e # t
    <3>1. ~RollbackDone(e)'
      BY <1>4, <2>3 DEF RollbackDone
    <3>2. CASE clog[e] = "Committed"
      BY <1>1, <3>1, <3>2
    <3>3. CASE clog[e] # "Committed"
      <4>1. e = heap[s].meta.expire
        BY <1>1, <2>1, <2>3, <3>3 DEF Restorable
      <4>2. /\ clog[e] # "Aborted"
            /\ clog[e] = "InProgress" =>
                 locks[s] = e /\ \E i \in 1..Len(undoLog) : TakesBack(i, s, e)
        BY <2>1, <4>1 DEF GuardedInv, StampInv
      <4>3. \A i : TakesBack(i, s, e)' <=> TakesBack(i, s, e)
        BY <1>1 DEF TakesBack
      <4> QED
        BY <1>1, <3>1, <4>2, <4>3
    <3> QED
      BY <3>2, <3>3
  <2> QED
    BY <2>2, <2>3
<1> QED
  BY <1>3, <1>5

LEMMA GuardedBeside ==
  ASSUME StoreAssumption, GuardedInv, [StoreNext]_svars, Lifecycle \/ Gc \/ UNCHANGED svars
  PROVE  ChainInv' /\ EntryInv' /\ StampInv'
<1>1. StoreTypeOK /\ Forward /\ Len(undoLog) \in Nat
  BY DEF GuardedInv, StoreInv, Forward, TypeOK, UndoTypeOK
<1>2. UNCHANGED <<undoLog, undoPtr>>
  <2>1. CASE Lifecycle
    BY <2>1 DEF Lifecycle, BeginRegister, BeginLog, CommitCall, CommitLog, CommitWait, CommitClog,
       CommitFinish, AbortLog, AbortClog, AbortFinish, ReleaseLocks, RemoveFromGraph,
       CommitStart, OwnerAbort, AbortStart, undoVars
  <2> QED
    BY <2>1 DEF Gc, GcStart, GcEnd, GcSlot, svars, vars, undoVars
<1>3. UndoGrows
  BY <1>1, <1>2 DEF UndoGrows
<1>4. /\ DOMAIN heap' = DOMAIN heap
      /\ \A s \in DOMAIN heap' : heap'[s].dead \/ heap'[s] = heap[s]
  <2>1. ASSUME NEW s \in DOMAIN heap, GcSlot(s)
        PROVE  /\ DOMAIN heap' = DOMAIN heap
               /\ \A u \in DOMAIN heap' : heap'[u].dead \/ heap'[u] = heap[u]
    <3>1. /\ heap' \in Seq(Slot) /\ Len(heap') = Len(heap) /\ heap'[s].dead
          /\ \A u \in DOMAIN heap : u # s => heap'[u] = heap[u]
      BY <1>1, <2>1, GcSlotIs
    <3>2. heap \in Seq(Slot)
      BY <1>1, HeapIs
    <3> QED
      BY <3>1, <3>2
  <2>2. CASE heap' = heap
    BY <2>2
  <2> QED
    BY <2>1, <2>2 DEF Lifecycle, Gc, GcStart, GcEnd, svars, storeVars
<1>5. StampInv'
  <2>1. \A s \in DOMAIN heap' :
          \/ heap'[s].dead \/ heap'[s].meta.expire = INVALID_TXN_ID
          \/ s \in DOMAIN heap /\ ~heap[s].dead /\ heap'[s].meta = heap[s].meta
    BY <1>4
  <2> QED
    BY <1>1, <1>3, <2>1, StampsKept
<1> QED
  BY <1>2, <1>4, <1>5, EntriesKept

LEMMA GuardedNext ==
  ASSUME StoreAssumption, Guarded, GuardedInv, [StoreNext]_svars PROVE GuardedInv'
<1>1. Rollback => heap' \in Seq(Slot) /\ Len(heap') = Len(heap)
  BY RollbackIs
<1>2. StoreInv' /\ ReleaseInv'
  BY <1>1, StoreInvNext, ReleaseKept DEF GuardedInv
<1>3. ChainInv' /\ EntryInv' /\ StampInv'
  BY GuardedDml, GuardedRollback, GuardedBeside DEF StoreNext
<1> QED
  BY <1>2, <1>3 DEF GuardedInv

LEMMA GuardedInit == ASSUME StoreAssumption, StoreInit PROVE GuardedInv
<1>1. StoreInv
  BY StoreInitInv
<1>2. undoLog = <<>> /\ undoPtr = [t \in TxnIds |-> NULL_UNDO_PTR] /\ op = Idle
  BY DEF StoreInit
<1>3. Len(undoLog) = 0 /\ MaxUndo \in Nat /\ 1..Len(undoLog) = {}
  BY <1>2, TxnAssumption
<1>4. ChainInv /\ EntryInv
  BY <1>2, <1>3 DEF ChainInv, EntryInv, NULL_UNDO_PTR
<1>5. StampInv
  <2>1. heap = LoadedPage
    BY DEF StoreInit
  <2>2. NewInsert(1, 0).expire = INVALID_TXN_ID
    BY DEF NewInsert
  <2> QED
    BY <2>1, <2>2, PageLoaded DEF StampInv
<1>6. ReleaseInv
  BY <1>2 DEF ReleaseInv, Idle
<1> QED
  BY <1>1, <1>4, <1>5, <1>6 DEF GuardedInv

-----------------------------------------------------------------------------
(* What it guarantees *)

LEMMA GuardedUndone == ASSUME StoreAssumption, GuardedInv PROVE UndoComplete
<1> SUFFICES ASSUME NEW s \in DOMAIN heap, ~heap[s].dead, NEW e, e = heap[s].meta.expire,
                    e # INVALID_TXN_ID, state[e] = "Aborted"
             PROVE  FALSE
  BY DEF UndoComplete
<1>1. e \in TxnIds
  BY HeapIs, TxnAssumption DEF GuardedInv, StoreInv, Metas, TxnIds, INVALID_TXN_ID
<1>2. clog[e] = "Aborted"
  BY <1>1 DEF GuardedInv, StoreInv, AbortedInv
<1>3. clog[e] # "Aborted"
  BY DEF GuardedInv, StampInv
<1> QED
  BY <1>2, <1>3

\* A statement that changes a slot holds its row.
LEMMA ChangedUnderLock ==
  ASSUME StoreAssumption, Guarded, TypeOK, StoreTypeOK, NEW t \in TxnIds, Dml(t),
         NEW s \in DOMAIN heap, heap'[s] # heap[s]
  PROVE  ~heap[s].dead /\ locks[s] = t /\ heap'[s].meta.expire = t
<1>1. heap \in Seq(Slot)
  BY HeapIs
<1>2. ASSUME NEW row \in RowIds, Adds(t, row) PROVE FALSE
  BY <1>2, AddsIs
<1>3. ASSUME NEW u \in DOMAIN heap, Stamps(t, u), locks[u] = t
      PROVE  ~heap[s].dead /\ locks[s] = t /\ heap'[s].meta.expire = t
  <2>1. heap'[u].meta.expire = t /\ \A v \in DOMAIN heap : v # u => heap'[v] = heap[v]
    BY <1>3, StampsIs
  <2>2. u = s
    BY <2>1
  <2> QED
    BY <1>3, <2>1, <2>2 DEF Stamps
<1>4. CASE InsertRow(t)
  <2>1. stmt[t].row \in RowIds /\ Adds(t, stmt[t].row)
    BY <1>4 DEF StoreTypeOK, InsertRow, Adds
  <2> QED
    BY <1>2, <2>1
<1>5. ASSUME NEW u \in DOMAIN heap, DeleteRow(t, u) \/ UpdateExpire(t, u)
      PROVE  Stamps(t, u) /\ locks[u] = t
  BY <1>5 DEF DeleteRow, UpdateExpire, Changeable, Stamps
<1>6. ASSUME NEW u \in DOMAIN heap, UpdateInsert(t, u) PROVE FALSE
  <2>1. heap[u].row \in RowIds /\ Adds(t, heap[u].row)
    BY <1>6, HeapIs DEF UpdateInsert, Adds, Slot
  <2> QED
    BY <1>2, <2>1
<1>7. ~ \E u \in DOMAIN heap : LockRow(t, u)
  BY DEF LockRow, storeVars
<1>8. ~StmtFails(t) /\ ~ \E kind \in Kinds, row \in RowIds : StartStmt(t, kind, row)
  BY DEF StmtFails, StartStmt
<1> QED
  BY <1>3, <1>4, <1>5, <1>6, <1>7, <1>8 DEF Dml

LEMMA GuardedKeepsStamps ==
  ASSUME StoreAssumption, Guarded, GuardedInv, [StoreNext]_svars PROVE KeepsStamps
<1> SUFFICES ASSUME NEW s \in DOMAIN heap, NEW e, e = heap[s].meta.expire,
                    e # INVALID_TXN_ID, clog[e] = "InProgress", heap'[s].meta.expire # e
             PROVE  op.kind = "abort" /\ op.txn = e
  BY DEF KeepsStamps
<1>1. TypeOK /\ StoreTypeOK
  BY DEF GuardedInv, StoreInv
<1>2. ~heap[s].dead => locks[s] = e
  BY DEF GuardedInv, StampInv
<1>3. ~Lifecycle /\ ~GcStart /\ ~GcEnd /\ ~UNCHANGED svars
  BY DEF Lifecycle, GcStart, GcEnd, svars, storeVars
<1>4. ~ \E u \in DOMAIN heap : GcSlot(u)
  BY <1>1, GcSlotIs
<1>5. ASSUME NEW t \in TxnIds, Dml(t) PROVE FALSE
  BY <1>1, <1>2, <1>5, ChangedUnderLock
<1>6. ASSUME Rollback PROVE op.kind = "abort" /\ op.txn = e
  <2>1. ~heap[s].dead /\ locks[s] = op.txn
    BY <1>6, RollbackIs DEF UndoneSoFar
  <2> QED
    BY <1>2, <1>6, <2>1 DEF Rollback, At
<1> QED
  BY <1>3, <1>4, <1>5, <1>6 DEF StoreNext, Gc

\* With conflict checks and undo, an abort that has returned has left none of its
\* stamps on a live version, for every page, log and number of transactions.
THEOREM AbortLeavesNothing ==
  ASSUME StoreAssumption, Guarded PROVE StoreSpec => []UndoComplete
<1>1. StoreInit => GuardedInv
  BY GuardedInit
<1>2. GuardedInv /\ [StoreNext]_svars => GuardedInv'
  BY GuardedNext
<1>3. GuardedInv => UndoComplete
  BY GuardedUndone
<1> QED
  BY <1>1, <1>2, <1>3, PTL DEF StoreSpec

\* With them no step overwrites the stamp of an undecided transaction but that
\* transaction's own rollback.
THEOREM StampsAreKept ==
  ASSUME StoreAssumption, Guarded PROVE StoreSpec => [][KeepsStamps]_svars
<1>1. StoreInit => GuardedInv
  BY GuardedInit
<1>2. GuardedInv /\ [StoreNext]_svars => GuardedInv'
  BY GuardedNext
<1>3. GuardedInv /\ [StoreNext]_svars => [KeepsStamps]_svars
  BY GuardedKeepsStamps
<1> QED
  BY <1>1, <1>2, <1>3, PTL DEF StoreSpec
=============================================================================
