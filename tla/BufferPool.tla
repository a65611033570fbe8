----------------------------- MODULE BufferPool -----------------------------
(* The buffer pool of vaisdb: fetching and unpinning pages, the clock that
   chooses a victim, the tracker of dirty frames, and the flush a checkpoint asks
   for (storage/buffer/pool.vais, clock.vais, frame.vais, dirty_tracker.vais).

   The page's content is the number of changes made to it.  fetch_page reads a
   page outside the pool's lock, and unpin_page and flush_page take none, so each
   is cut where another thread may come in between; Concurrent says whether one
   does, or whether a call of the pool runs to its return. *)
EXTENDS Naturals, Sequences, FiniteSets

CONSTANTS
  Clients,      \* threads that fetch, change and unpin pages
  Pages,
  NoPage,       \* PageLocation.invalid()
  Capacity,     \* frames
  Concurrent,   \* calls interleave
  Checkpoints,  \* a checkpoint may flush the dirty pages
  MaxChanges,   \* bound: changes to all pages
  MaxIoFaults   \* bound: page reads and writes that fail, and callers that do

\* What the theorems ask of the constants.
PoolAssumption ==
  /\ IsFiniteSet(Clients) /\ IsFiniteSet(Pages) /\ NoPage \notin Pages
  /\ Capacity \in Nat \ {0} /\ {Concurrent, Checkpoints} \subseteq BOOLEAN
  /\ MaxChanges \in Nat /\ MaxIoFaults \in Nat

VARIABLES
  pool,    \* frames, page_table, free_list, the clock's hand, dirty_tracker
  disk,    \* the pages in their files
  call,    \* where each client is: between calls, inside one, or holding a page
  ckpt,    \* flush_all_dirty_pages: the frames left, and the one being written
  changes, \* history: the changes made to each page
  iofaults

poolvars == <<pool, disk, call, ckpt, changes, iofaults>>

Frames == 0..Capacity - 1
NoFrame == Capacity
EmptyFrame == [page |-> NoPage, state |-> "Empty", pin |-> 0, ref |-> FALSE, data |-> 0]
NoCall == [at |-> "idle", page |-> NoPage, frame |-> NoFrame, data |-> 0, changed |-> FALSE]
NoFlush == [on |-> FALSE, todo |-> {}, writing |-> NoFrame]

PoolInit ==
  /\ pool = [frames |-> [f \in Frames |-> EmptyFrame], table |-> [p \in {} |-> NoFrame],
             free |-> [i \in 1..Capacity |-> i - 1], hand |-> 0, dirty |-> {}]
  /\ disk = [p \in Pages |-> 0]
  /\ call = [c \in Clients |-> NoCall]
  /\ ckpt = NoFlush
  /\ changes = [p \in Pages |-> 0]
  /\ iofaults = 0

\* Whether nobody else is in the middle of a call.
Between(c) == call[c].at \in {"idle", "holding", "refused"}
MayRun(others) == Concurrent \/ (~ckpt.on /\ \A c \in others : Between(c))

Fault == iofaults < MaxIoFaults /\ iofaults' = iofaults + 1

-----------------------------------------------------------------------------
(* fetch_page *)

Pin(ps, f) == [ps EXCEPT !.frames[f].pin = @ + 1, !.frames[f].ref = TRUE]
Hold(c, p, f) == call' = [call EXCEPT ![c] = [NoCall EXCEPT !.at = "holding", !.page = p, !.frame = f]]
Reserve(c, p, f) == call' = [call EXCEPT ![c] = [NoCall EXCEPT !.at = "reading", !.page = p, !.frame = f]]

Asks(c, p) == MayRun(Clients \ {c}) /\ call[c].at = "idle" /\ p \in Pages
Misses(c, p) == Asks(c, p) /\ p \notin DOMAIN pool.table

FetchHit(c, p) ==
  /\ Asks(c, p) /\ p \in DOMAIN pool.table
  /\ pool' = Pin(pool, pool.table[p])
  /\ Hold(c, p, pool.table[p])
  /\ UNCHANGED <<disk, ckpt, changes, iofaults>>

TakeFree(c, p) ==
  /\ Misses(c, p) /\ pool.free # <<>>
  /\ pool' = [pool EXCEPT !.free = SubSeq(@, 1, Len(@) - 1)]
  /\ Reserve(c, p, pool.free[Len(pool.free)])
  /\ UNCHANGED <<disk, ckpt, changes, iofaults>>

\* find_victim: one turn of the clock. The frames the hand passes lose their
\* reference bit; it stops behind the first evictable one that had none.
AtHand(k) == (pool.hand + k) % Capacity
Stops == {k \in Frames : pool.frames[AtHand(k)].pin = 0 /\ ~pool.frames[AtHand(k)].ref}
FirstStop == CHOOSE k \in Stops : \A j \in Stops : k <= j
Turned(k) ==
  [pool EXCEPT !.hand = AtHand(k),
               !.frames = [f \in Frames |->
                  IF \E j \in 0..k - 1 : f = AtHand(j) /\ @[f].pin = 0
                  THEN [@[f] EXCEPT !.ref = FALSE] ELSE @[f]]]

WriteBack(f) == disk' = [disk EXCEPT ![pool.frames[f].page] = pool.frames[f].data]

\* get_free_frame with a victim: written back if dirty, then taken off the table.
Evict(c, p) ==
  /\ Misses(c, p) /\ pool.free = <<>> /\ Stops # {}
  /\ LET f == AtHand(FirstStop)
         old == pool.frames[f].page
         turned == Turned(FirstStop + 1)
     IN  /\ IF pool.frames[f].state = "Dirty" THEN WriteBack(f) ELSE UNCHANGED disk
         /\ pool' = [turned EXCEPT
                       !.frames[f] = EmptyFrame,
                       !.table = [q \in DOMAIN @ \ {old} |-> @[q]],
                       !.dirty = IF pool.frames[f].state = "Dirty" THEN @ \ {f} ELSE @]
         /\ Reserve(c, p, f)
  /\ UNCHANGED <<ckpt, changes, iofaults>>

\* The write fails: the victim stays as it was.
EvictFails(c, p) ==
  /\ Misses(c, p) /\ pool.free = <<>> /\ Stops # {}
  /\ pool.frames[AtHand(FirstStop)].state = "Dirty"
  /\ Fault
  /\ pool' = Turned(FirstStop + 1)
  /\ UNCHANGED <<disk, call, ckpt, changes>>

\* No victim in one turn: OutOfMemory.
Refuse(c, p) ==
  /\ Misses(c, p) /\ pool.free = <<>> /\ Stops = {}
  /\ pool' = Turned(Capacity)
  /\ call' = [call EXCEPT ![c].at = "refused"]
  /\ UNCHANGED <<disk, ckpt, changes, iofaults>>

GiveUp(c) ==
  /\ call[c].at = "refused"
  /\ call' = [call EXCEPT ![c] = NoCall]
  /\ UNCHANGED <<pool, disk, ckpt, changes, iofaults>>

\* Outside the lock.
ReadPage(c) ==
  /\ MayRun(Clients \ {c}) /\ call[c].at = "reading"
  /\ call' = [call EXCEPT ![c].at = "loading", ![c].data = disk[call[c].page]]
  /\ UNCHANGED <<pool, disk, ckpt, changes, iofaults>>

\* The frame is then in no list; only the clock finds it again.
ReadFails(c) ==
  /\ MayRun(Clients \ {c}) /\ call[c].at = "reading"
  /\ Fault
  /\ call' = [call EXCEPT ![c] = NoCall]
  /\ UNCHANGED <<pool, disk, ckpt, changes>>

\* Under the lock again: somebody else may have loaded the page.
Joined(c) ==
  LET p == call[c].page
  IN  Pin([pool EXCEPT !.free = Append(@, call[c].frame)], pool.table[p])
Loaded(c) ==
  LET p == call[c].page
      f == call[c].frame
  IN  [pool EXCEPT !.frames[f] = [page |-> p, state |-> "Clean", pin |-> 1, ref |-> TRUE,
                                  data |-> call[c].data],
                   !.table = [q \in DOMAIN @ \cup {p} |-> IF q = p THEN f ELSE @[q]]]

\* Broken variant: loads whatever others did meanwhile.
BadFinishFetch(c) ==
  /\ MayRun(Clients \ {c}) /\ call[c].at = "loading"
  /\ pool' = Loaded(c) /\ Hold(c, call[c].page, call[c].frame)
  /\ UNCHANGED <<disk, ckpt, changes, iofaults>>

FinishFetch(c) ==
  /\ MayRun(Clients \ {c}) /\ call[c].at = "loading"
  /\ IF call[c].page \in DOMAIN pool.table
     THEN pool' = Joined(c) /\ Hold(c, call[c].page, pool.table[call[c].page])
     ELSE pool' = Loaded(c) /\ Hold(c, call[c].page, call[c].frame)
  /\ UNCHANGED <<disk, ckpt, changes, iofaults>>

-----------------------------------------------------------------------------
(* What a client does with a page it holds *)

Holding(c) == MayRun(Clients \ {c}) /\ call[c].at = "holding"

Change(c) ==
  /\ Holding(c)
  /\ changes[call[c].page] < MaxChanges
  /\ changes' = [changes EXCEPT ![call[c].page] = @ + 1]
  /\ pool' = [pool EXCEPT !.frames[call[c].frame].data = @ + 1]
  /\ call' = [call EXCEPT ![c].changed = TRUE]
  /\ UNCHANGED <<disk, ckpt, iofaults>>

\* unpin_page, first half: the pin goes, and the frame may be a victim from now on.
Unpin(c) ==
  /\ Holding(c)
  /\ pool' = [pool EXCEPT !.frames[call[c].frame].pin = IF @ > 0 THEN @ - 1 ELSE 0]
  /\ call' = [call EXCEPT ![c] = IF call[c].changed THEN [@ EXCEPT !.at = "marking"] ELSE NoCall]
  /\ UNCHANGED <<disk, ckpt, changes, iofaults>>

\* Second half, when the caller has changed the page.
MarkDirty(c) ==
  /\ MayRun(Clients \ {c}) /\ call[c].at = "marking"
  /\ pool' = [pool EXCEPT !.frames[call[c].frame].state = "Dirty", !.dirty = @ \cup {call[c].frame}]
  /\ call' = [call EXCEPT ![c] = NoCall]
  /\ UNCHANGED <<disk, ckpt, changes, iofaults>>

\* An error between fetch_page and unpin_page: mark_tuple_expired returns without
\* unpinning when the slot is dead or the page unreadable.
LeavePinned(c) ==
  /\ Holding(c) /\ ~call[c].changed
  /\ Fault
  /\ call' = [call EXCEPT ![c] = NoCall]
  /\ UNCHANGED <<pool, disk, ckpt, changes>>

-----------------------------------------------------------------------------
(* A checkpoint: flush_all_dirty_pages *)

FlushStart ==
  /\ Checkpoints /\ MayRun(Clients) /\ ~ckpt.on
  /\ ckpt' = [NoFlush EXCEPT !.on = TRUE, !.todo = pool.dirty]
  /\ UNCHANGED <<pool, disk, call, changes, iofaults>>

Skip(f) == ckpt' = [ckpt EXCEPT !.todo = @ \ {f}, !.writing = NoFrame]

\* flush_page up to the write, of a frame that is still dirty.
FlushWrite(f) ==
  /\ ckpt.on /\ ckpt.writing = NoFrame /\ f \in ckpt.todo
  /\ IF pool.frames[f].state = "Dirty"
     THEN WriteBack(f) /\ ckpt' = [ckpt EXCEPT !.writing = f]
     ELSE Skip(f) /\ UNCHANGED disk
  /\ UNCHANGED <<pool, call, changes, iofaults>>

FlushFails ==
  /\ ckpt.on /\ ckpt.writing = NoFrame /\ Fault
  /\ ckpt' = NoFlush
  /\ UNCHANGED <<pool, disk, call, changes>>

\* ... and what follows it.
FlushClean(f) ==
  /\ ckpt.on /\ ckpt.writing = f
  /\ pool' = [pool EXCEPT !.frames[f].state = "Clean", !.dirty = @ \ {f}]
  /\ Skip(f)
  /\ UNCHANGED <<disk, call, changes, iofaults>>

FlushDone ==
  /\ ckpt.on /\ ckpt.todo = {}
  /\ ckpt' = NoFlush
  /\ UNCHANGED <<pool, disk, call, changes, iofaults>>

PoolNext ==
  \/ \E c \in Clients :
       \/ \E p \in Pages :
            FetchHit(c, p) \/ TakeFree(c, p) \/ Evict(c, p) \/ EvictFails(c, p) \/ Refuse(c, p)
       \/ GiveUp(c) \/ ReadPage(c) \/ ReadFails(c) \/ FinishFetch(c)
       \/ Change(c) \/ Unpin(c) \/ MarkDirty(c) \/ LeavePinned(c)
  \/ FlushStart \/ FlushFails \/ FlushDone
  \/ \E f \in Frames : FlushWrite(f) \/ FlushClean(f)

PoolSpec == PoolInit /\ [][PoolNext]_poolvars

-----------------------------------------------------------------------------
(* Properties *)

\* Every frame, every entry of the table and every flush keeps its shape.
PoolTypeOK ==
  /\ pool.frames \in [Frames -> [page : Pages \cup {NoPage}, state : {"Empty", "Clean", "Dirty"},
                                 pin : Nat, ref : BOOLEAN, data : Nat]]
  /\ DOMAIN pool.table \subseteq Pages /\ \A p \in DOMAIN pool.table : pool.table[p] \in Frames
  /\ pool.free \in Seq(Frames) /\ pool.hand \in Frames /\ pool.dirty \subseteq Frames
  /\ disk \in [Pages -> Nat] /\ ckpt.todo \subseteq Frames

HeldBy(f) == {c \in Clients : call[c].at = "holding" /\ call[c].frame = f}
Reserved == {call[c].frame : c \in {d \in Clients : call[d].at \in {"reading", "loading"}}}

\* No two pages share a frame, and no frame with a page is free or about to be
\* loaded; a held page is in the frame it was given, pinned as often as it is held.
FrameIsOnePage ==
  /\ \A p \in DOMAIN pool.table : pool.frames[pool.table[p]].page = p
  /\ \A i, j \in DOMAIN pool.free : pool.free[i] = pool.free[j] => i = j
  /\ \A p \in DOMAIN pool.table :
       pool.table[p] \notin Reserved \cup {pool.free[i] : i \in DOMAIN pool.free}
  /\ \A c \in Clients : call[c].at = "holding" =>
       /\ call[c].page \in DOMAIN pool.table /\ pool.table[call[c].page] = call[c].frame
       /\ pool.frames[call[c].frame].pin >= Cardinality(HeldBy(call[c].frame))

\* Whoever fetches a page finds every change anybody made to it: what is in the pool,
\* or else on disk, has them all, whatever was evicted, flushed, read or failed.
NoChangeLost ==
  \A p \in Pages :
    changes[p] = IF p \in DOMAIN pool.table THEN pool.frames[pool.table[p]].data ELSE disk[p]

\* A frame that differs from its page on disk is tracked as dirty, or its changer is
\* still to unpin it: so a checkpoint that returns has written all that was changed.
ChangesTracked ==
  \A p \in DOMAIN pool.table :
    LET f == pool.table[p]
    IN  \/ pool.frames[f].data = disk[p]
        \/ f \in pool.dirty /\ pool.frames[f].state = "Dirty"
        \/ \E c \in Clients : call[c].frame = f /\ call[c].changed

\* What clock.vais says of find_victim: None only if all frames are pinned.
RefusedOnlyWhenPinned ==
  \A c \in Clients : call[c].at = "refused" => \A f \in Frames : pool.frames[f].pin > 0
=============================================================================
