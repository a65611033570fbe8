---------------------------- MODULE EngineSuite ----------------------------
(* The storage engine of vaisdb beside its transaction manager: statements as  *)
(* wired and statements that take conflict checks and record undo, on a heap   *)
(* page; the wait-for graph; the window of commit-log pages; the log down to   *)
(* its files; the buffer pool, one call at a time while pages are evicted, and *)
(* with calls that interleave while there is a frame for every page and        *)
(* client; the B+tree. They share nothing, so a behaviour is one of the part   *)
(* it starts as.                                                               *)
EXTENDS WaitForGraph, ClogCache, Wal, Btree

VARIABLES
  part,
  nextTxnId, state, snapActive, cmdId, undoPtr, clog, locks, waits, undoLog, logged,
  durable, op, owner, blocked, told, doomed, heap, stmt, lwm, erased,
  pool, disk, call, ckpt, changes, iofaults

Dml == INSTANCE MvccStore_proofs
  WITH MaxTxn <- 4, MaxCmd <- 1, MaxUndo <- 0, MaxSlots <- 3, Rows <- 1..3, NoRow <- 0,
       UndoBodies <- {}, WalFaults <- FALSE, Async <- FALSE, Killers <- {},
       LoadedRows <- {"a"}, NewRows <- {"b"}, Kinds <- {"INSERT", "DELETE", "UPDATE"},
       Guarded <- FALSE, PageFaults <- FALSE, Collector <- "hnsw"

Store == INSTANCE MvccStore_proofs
  WITH MaxTxn <- 3, MaxCmd <- 2, MaxUndo <- 3, MaxSlots <- 4, Rows <- 1..4, NoRow <- 0,
       UndoBodies <- [type : {"INSERT", "DELETE", "UPDATE"}, slot : 1..4,
                      old : [create : 1..3, expire : 0..3, cmd : 0..2, expire_cmd : 0..2]],
       WalFaults <- FALSE, Async <- FALSE, Killers <- {}, LoadedRows <- {"a"}, NewRows <- {"b"},
       Kinds <- {"INSERT", "DELETE", "UPDATE"}, Guarded <- TRUE, PageFaults <- TRUE,
       Collector <- "none"

Tight == INSTANCE BufferPool_proofs
  WITH Clients <- {1, 2}, Pages <- {"p", "q", "r"}, NoPage <- "none", Capacity <- 2,
       Concurrent <- FALSE, Checkpoints <- TRUE, MaxChanges <- 1, MaxIoFaults <- 1

Roomy == INSTANCE BufferPool_proofs
  WITH Clients <- {1, 2}, Pages <- {"p", "q"}, NoPage <- "none", Capacity <- 4,
       Concurrent <- TRUE, Checkpoints <- FALSE, MaxChanges <- 2, MaxIoFaults <- 1

ASSUME EngineAssumption ==
  /\ Dml!StoreAssumption /\ Store!StoreAssumption
  /\ Tight!Calm /\ Roomy!Calm

svars == <<nextTxnId, state, snapActive, cmdId, undoPtr, clog, locks, waits, undoLog, logged,
           durable, op, owner, blocked, told, doomed, heap, stmt, lwm, erased>>
poolvars == <<pool, disk, call, ckpt, changes, iofaults>>

\* The size of a page matters to the B+tree alone: one size for all the other parts.
EngineInit ==
  /\ GraphInit /\ ClogInit /\ WalInit /\ BtreeInit
  /\ \/ part = "store" /\ Store!StoreInit /\ Tight!PoolInit
     \/ part = "roomy" /\ Dml!StoreInit /\ Roomy!PoolInit
     \/ part \in {"dml", "graph", "clog", "wal", "pool", "index"} /\ Dml!StoreInit /\ Tight!PoolInit
  /\ part # "index" => geometry = (CHOOSE size \in [body : PageBodies, key : KeySizes] : TwoFit(size))

EngineNext ==
  /\ UNCHANGED part
  /\ \/ part = "dml" /\ Dml!StoreNext /\ UNCHANGED <<gvars, cvars, walvars, poolvars, tvars>>
     \/ part = "store" /\ Store!StoreNext /\ UNCHANGED <<gvars, cvars, walvars, poolvars, tvars>>
     \/ part = "graph" /\ GraphNext /\ UNCHANGED <<svars, cvars, walvars, poolvars, tvars>>
     \/ part = "clog" /\ ClogNext /\ UNCHANGED <<svars, gvars, walvars, poolvars, tvars>>
     \/ part = "wal" /\ WalNext /\ UNCHANGED <<svars, gvars, cvars, poolvars, tvars>>
     \/ part = "pool" /\ Tight!PoolNext /\ UNCHANGED <<svars, gvars, cvars, walvars, tvars>>
     \/ part = "roomy" /\ Roomy!PoolNext /\ UNCHANGED <<svars, gvars, cvars, walvars, tvars>>
     \/ part = "index" /\ BtreeNext /\ UNCHANGED <<svars, gvars, cvars, walvars, poolvars>>

EngineSpec == EngineInit /\ [][EngineNext]_<<part, svars, gvars, cvars, walvars, poolvars, tvars>>

\* Each part keeps its shape.
EngineTypes ==
  /\ part = "dml" => Dml!StoreTypeOK
  /\ part = "store" => Store!StoreTypeOK
  /\ part = "graph" => GraphTypeOK
  /\ part = "clog" => ClogTypeOK
  /\ part = "wal" => LogTypeOK
  /\ part = "pool" => Tight!PoolTypeOK
  /\ part = "roomy" => Roomy!PoolTypeOK
  /\ part = "index" => BtreeTypeOK

\* No row that a committed transaction put and none deleted is lost, by statements
\* as wired, aborts and the HNSW collector.
RowsSurvive == part = "dml" => Dml!RowSurvives

\* An abort that has returned has left no trace, whatever page calls failed.
UndoLeavesNothing == part = "store" => Store!UndoComplete

\* A stamp of a transaction in progress is only ever taken off by its own abort.
CleanWrites == [][part = "store" => Store!KeepsStamps]_svars

\* The CLOG answers, inside its window, what was set, whatever neighbours share the byte
\* and however the pages slid, and nothing leaves the window before it must (clog.vais).
WindowKept == part = "clog" => WindowExact /\ WindowFull

\* The structures keep their shape. The detector finds exactly the cycles the waiters made,
\* with a transaction on one as the victim (deadlock.vais: has_cycle). The index has every
\* allocated page in the tree, leaves linked in its order, and every entry counted and met by
\* a cursor, through splits, merges and borrowing, those that fail half way included
\* (insert.vais, delete.vais, cursor.vais). That a key put is found again is another matter:
\* what a written node has of its keys is zeros (KeysFound of Btree is violated).
StructuresExact ==
  /\ part = "graph" => DetectsExactly /\ VictimOnCycle
  /\ part = "index" => TreeWhole /\ EntriesCounted

\* The pool keeps pages apart, loses no change to one, and knows which are dirty.
PagesKept ==
  /\ part = "pool" => Tight!FrameIsOnePage /\ Tight!NoChangeLost /\ Tight!ChangesTracked
  /\ part = "roomy" => Roomy!FrameIsOnePage /\ Roomy!NoChangeLost /\ Roomy!ChangesTracked
=============================================================================
