-------------------------------- MODULE Wal --------------------------------
(* The write-ahead log of vaisdb, from a record to what a restart reads:
   LSN allocation (wal/lsn.vais), the buffer and the segment files
   (wal/writer.vais), group commit with its leader and its time-out
   (wal/group_commit.vais), a crash, and the record iterator and the analysis
   of recovery (recovery/redo.vais).

   A record takes one slot of its segment.  A call of the writer holds the
   writer's mutex throughout and is one step; do_flush makes two such calls, and
   other transactions write between them.  The manager commits one transaction
   at a time; here any number wait together, as group commit is written for. *)
EXTENDS Naturals, Sequences, FiniteSets

CONSTANTS
  Committers,    \* transactions that write and commit
  SegmentSlots,  \* records in a segment
  BufferSlots,   \* records in the buffer
  MaxBatch,      \* pending commits that force a flush
  MaxData,       \* bound: records written between BEGIN and COMMIT, in all
  MaxFaults      \* bound: file operations that fail

ASSUME WalAssumption ==
  /\ Committers \subseteq Nat \ {0} /\ IsFiniteSet(Committers)
  /\ SegmentSlots \in Nat \ {0} /\ BufferSlots \in Nat \ {0} /\ MaxBatch \in Nat \ {0}
  /\ MaxData \in Nat /\ MaxFaults \in Nat

VARIABLES
  writer,   \* the WalWriter and the files it has made
  group,    \* the GroupCommitManager: pending, flushed, and who is in do_flush
  txn,      \* what each transaction's thread is doing, and its commit record's LSN
  power,    \* "up", "crashed", or "closed" by an orderly shutdown
  written   \* history: the records write_record has returned an LSN for

walvars == <<writer, group, txn, power, written>>

NULL_LSN == 0
Nobody == 0
Base == SegmentSlots + 1
EncodeLsn(segment, offset) == segment * Base + offset
LsnSegment(lsn) == lsn \div Base
LsnOffset(lsn) == lsn % Base

\* A segment file: its records, how many of them an fsync covers, the last_lsn of
\* its header, and the one an fsync covers.
Segment(last) == [recs |-> <<>>, safe |-> 0, last |-> last, safeLast |-> last]
Synced(f) == [f EXCEPT !.safe = Len(f.recs), !.safeLast = f.last]

-----------------------------------------------------------------------------
(* The writer.  An operation on it yields the set of its outcomes: the writer  *)
(* it leaves behind, and whether it returned Ok.                               *)

Ok(w) == [w |-> w, ok |-> TRUE]
Failed(w) == [w |-> [w EXCEPT !.faults = @ + 1], ok |-> FALSE]
MayFail(w, ws) == IF w.faults < MaxFaults THEN {Failed(x) : x \in ws} ELSE {}
Then(outcomes, Op(_)) == UNION {IF o.ok THEN Op(o.w) ELSE {o} : o \in outcomes}

Allocate(w) ==
  IF w.offset + 1 > SegmentSlots
  THEN [w EXCEPT !.segment = @ + 1, !.offset = 1]
  ELSE [w EXCEPT !.offset = @ + 1]

\* write_all at the end of the open file, which need not be the segment that the
\* buffered records were allocated in.  One that fails has written nothing.
FlushBuffer(w) ==
  {Ok([w EXCEPT !.files[w.open].recs = @ \o w.buffer, !.buffer = <<>>])}
    \cup (IF w.buffer = <<>> THEN {} ELSE MayFail(w, {w}))

\* One that fails leaves the records to the next.
Fsync(w) == {Ok([w EXCEPT !.files[w.open] = Synced(@)])} \cup MayFail(w, {w})

\* Broken variant: the file that is left is not fsynced.
BadFinalizeCurrentSegment(w) == {Ok([w EXCEPT !.files[w.open].last = w.last])}

\* The header's last_lsn reaches the file here and nowhere else.
FinalizeCurrentSegment(w) ==
  Then({Ok([w EXCEPT !.files[w.open].last = w.last])} \cup MayFail(w, {w}), Fsync)

\* The new header's first_lsn, and with it its last_lsn, is the allocator's position
\* behind the record being written.  A failure may leave a file without a header.
CreateNewSegment(w) ==
  LET last == EncodeLsn(w.segment, w.offset)
      Made(l) == [w EXCEPT !.files = [s \in DOMAIN @ \cup {w.segment} |->
                                        IF s = w.segment THEN Segment(l) ELSE @[s]]]
  IN  {Ok([Made(last) EXCEPT !.open = w.segment, !.last = last])}
        \cup MayFail(w, {w, Made(NULL_LSN)})

NextLsn(w) == EncodeLsn(Allocate(w).segment, Allocate(w).offset - 1)
NeedsNewSegment(w) == Allocate(w).segment # w.segment

\* write_record: nothing of it is undone when a step fails; the LSN stays allocated,
\* and a segment that was not made is not asked for again.
WriteRecord(w, rec) ==
  LET Switch(x) == IF NeedsNewSegment(w)
                   THEN Then(FinalizeCurrentSegment(x), CreateNewSegment) ELSE {Ok(x)}
      MakeRoom(x) == IF Len(x.buffer) < BufferSlots THEN {Ok(x)} ELSE FlushBuffer(x)
      Put(x) == {Ok([x EXCEPT !.buffer = Append(@, rec), !.last = rec.lsn])}
  IN  Then(Then(Switch(Allocate(w)), MakeRoom), Put)

Sync(w) == Then(FlushBuffer(w), Fsync)
CloseWriter(w) == Then(FlushBuffer(w), FinalizeCurrentSegment)

-----------------------------------------------------------------------------
(* Transactions *)

Record(t, kind) == [lsn |-> NextLsn(writer), txn |-> t, kind |-> kind]

WalInit ==
  /\ writer = [segment |-> 1, offset |-> 0, open |-> 1, last |-> EncodeLsn(1, 0),
               buffer |-> <<>>, files |-> [s \in {1} |-> Segment(EncodeLsn(1, 0))], faults |-> 0]
  /\ group = [pending |-> {}, flushed |-> NULL_LSN, leader |-> Nobody]
  /\ txn = [t \in Committers |-> [at |-> "new", lsn |-> NULL_LSN]]
  /\ power = "up"
  /\ written = <<>>

\* t logs a record of the given kind and goes on, or is told Err: BEGIN and COMMIT
\* are over then, a statement may be followed by another.
Log(t, kind, from, to) ==
  LET rec == Record(t, kind)
  IN  /\ power = "up" /\ txn[t].at = from
      /\ \E o \in WriteRecord(writer, rec) :
           /\ writer' = o.w
           /\ written' = IF o.ok THEN Append(written, rec) ELSE written
           /\ txn' = [txn EXCEPT ![t].at = IF o.ok THEN to ELSE IF kind = "DATA" THEN from ELSE "failed",
                                 ![t].lsn = IF kind = "COMMIT" THEN rec.lsn ELSE @]
      /\ UNCHANGED <<group, power>>

LogData(t) ==
  /\ Len(SelectSeq(written, LAMBDA r : r.kind = "DATA")) < MaxData
  /\ Log(t, "DATA", "open", "open")

LockFree == power = "up" /\ group.leader = Nobody

\* commit_and_wait: the commit joins the batch, and flushes a full one or waits.
JoinBatch(t) ==
  /\ LockFree /\ txn[t].at = "logged"
  /\ LET batch == group.pending \cup {t}
         full == Cardinality(batch) >= MaxBatch
     IN  /\ group' = [group EXCEPT !.pending = batch, !.leader = IF full THEN t ELSE Nobody]
         /\ txn' = [txn EXCEPT ![t].at = IF full THEN "flush" ELSE "waiting"]
  /\ UNCHANGED <<writer, power, written>>

\* Awake, by the time-out or by the leader's notify_all.
Wake(t) ==
  /\ LockFree /\ txn[t].at = "waiting"
  /\ IF group.flushed >= txn[t].lsn
     THEN txn' = [txn EXCEPT ![t].at = "acked"] /\ UNCHANGED group
     ELSE /\ txn' = [txn EXCEPT ![t].at = "flush"]
          /\ group' = [group EXCEPT !.leader = t]
  /\ UNCHANGED <<writer, power, written>>

\* do_flush, first call: the buffer goes to the file.
Flush(t) ==
  /\ power = "up" /\ txn[t].at = "flush"
  /\ \E o \in FlushBuffer(writer) :
       /\ writer' = o.w
       /\ txn' = [txn EXCEPT ![t].at = IF o.ok THEN "sync" ELSE "failed"]
       /\ group' = IF o.ok THEN group ELSE [group EXCEPT !.leader = Nobody]
  /\ UNCHANGED <<power, written>>

Highest(lsns) == CHOOSE l \in lsns : \A m \in lsns : m <= l

\* do_flush, second call and what follows a success: the whole batch is durable.
SyncBatch(t) ==
  /\ power = "up" /\ txn[t].at = "sync"
  /\ \E o \in Sync(writer) :
       /\ writer' = o.w
       /\ txn' = [txn EXCEPT ![t].at = IF o.ok THEN "acked" ELSE "failed"]
       /\ group' = IF o.ok
                   THEN [pending |-> {}, leader |-> Nobody,
                         flushed |-> Highest({group.flushed} \cup {txn[p].lsn : p \in group.pending})]
                   ELSE [group EXCEPT !.leader = Nobody]
  /\ UNCHANGED <<power, written>>

-----------------------------------------------------------------------------
(* The end of the process *)

\* An orderly shutdown, with no commit under way.
Close ==
  /\ LockFree /\ \A t \in Committers : txn[t].at \notin {"logged", "waiting"}
  /\ \E o \in CloseWriter(writer) : writer' = o.w /\ power' = IF o.ok THEN "closed" ELSE power
  /\ UNCHANGED <<group, txn, written>>

\* Of what no fsync covers, a crash keeps any prefix of the records and either header.
CutShort(f, n, last) == Synced([f EXCEPT !.recs = SubSeq(@, 1, n), !.last = last])
Survivors(f) == {CutShort(f, n, l) : n \in f.safe..Len(f.recs), l \in {f.last, f.safeLast}}

Crash ==
  /\ power = "up" /\ power' = "crashed"
  /\ LET files == writer.files
     IN  \E left \in [DOMAIN files -> UNION {Survivors(files[s]) : s \in DOMAIN files}] :
           /\ \A s \in DOMAIN files : left[s] \in Survivors(files[s])
           /\ writer' = [writer EXCEPT !.buffer = <<>>, !.files = left]
  /\ UNCHANGED <<group, txn, written>>

WalNext ==
  \/ \E t \in Committers :
       \/ Log(t, "BEGIN", "new", "open") \/ LogData(t) \/ Log(t, "COMMIT", "open", "logged")
       \/ JoinBatch(t) \/ Wake(t) \/ Flush(t) \/ SyncBatch(t)
  \/ Close
  \/ Crash

WalSpec == WalInit /\ [][WalNext]_walvars

-----------------------------------------------------------------------------
(* What a restart reads *)

\* Broken variant: the scan stops at the last record instead of behind it.
BadSegmentRead(f) == SubSeq(f.recs, 1, LsnOffset(f.last))

\* The iterator goes by the header: it stops behind the offset of last_lsn, or where
\* the file ends.
SegmentRead(f) ==
  SubSeq(f.recs, 1, IF LsnOffset(f.last) < Len(f.recs) THEN LsnOffset(f.last) + 1 ELSE Len(f.recs))

\* The records from segment 1 on, up to a segment that has no file.
ReadBack ==
  LET From[s \in 1..writer.segment + 1] ==
        IF s \in DOMAIN writer.files THEN SegmentRead(writer.files[s]) \o From[s + 1] ELSE <<>>
  IN  From[1]

\* recovery_analysis: the transactions it leaves Active, which the undo phase rolls
\* back and logs as aborted.
Losers(log) ==
  LET records == {log[i] : i \in DOMAIN log}
  IN  {r.txn : r \in records} \ {r.txn : r \in {q \in records : q.kind = "COMMIT"}}

-----------------------------------------------------------------------------
(* Properties *)

Entries == [lsn : Nat, txn : Committers, kind : {"BEGIN", "DATA", "COMMIT"}]

\* The open file exists and no header is ahead of the allocator; a leader
\* is a transaction inside do_flush, and there is no other.
LogTypeOK ==
  /\ writer.buffer \in Seq(Entries) /\ Len(writer.buffer) <= BufferSlots
  /\ writer.open \in DOMAIN writer.files
  /\ \A s \in DOMAIN writer.files :
       LET f == writer.files[s]
       IN  f.recs \in Seq(Entries) /\ f.safe \in 0..Len(f.recs)
           /\ {f.safeLast, f.last} \subseteq 0..EncodeLsn(writer.segment, writer.offset)
  /\ {t \in Committers : txn[t].at \in {"flush", "sync"}} = {group.leader} \ {Nobody}
  /\ group.pending \subseteq Committers /\ group.flushed \in Nat
  /\ power \in {"up", "crashed", "closed"}

Strayed == \E s \in DOMAIN writer.files : \E i \in DOMAIN writer.files[s].recs :
             LsnSegment(writer.files[s].recs[i].lsn) # s

OnDisk(t) ==
  \E s \in DOMAIN writer.files : \E i \in 1..writer.files[s].safe :
    writer.files[s].recs[i].txn = t /\ writer.files[s].recs[i].kind = "COMMIT"

\* A commit that was answered Ok has its record under an fsync: whoever led the
\* flush, whatever was written or which segment was begun between its two calls,
\* whichever file operation failed, and after any crash.
AckedOnDisk == \A t \in Committers : txn[t].at = "acked" => OnDisk(t)

\* What is read back is in LSN order and was written; and a log that was closed,
\* in a life without a failure in which no segment began with records in the buffer,
\* is read back whole.
LogReadsBack ==
  LET log == ReadBack
  IN  /\ \A i, j \in DOMAIN log : i < j => log[i].lsn < log[j].lsn
      /\ \A i \in DOMAIN log : \E j \in DOMAIN written : written[j] = log[i]
      /\ power = "closed" /\ writer.faults = 0 /\ ~Strayed => log = written

\* What wal-design says of recovery: only transactions that were not committed are
\* undone.
CommittedNotUndone ==
  power = "crashed" => \A t \in Losers(ReadBack) : txn[t].at # "acked"
=============================================================================
