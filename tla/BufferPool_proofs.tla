-------------------------- MODULE BufferPool_proofs --------------------------
(* The buffer pool keeps pages apart and loses no change, when its calls run one
   at a time, or when they interleave and there is a frame for every page and
   every client, and no checkpoint: then nothing is ever evicted. *)
EXTENDS BufferPool, FiniteSetTheorems, Induction, TLAPS

Reserving(c) == call[c].at \in {"reading", "loading"}
Reservers == {c \in Clients : Reserving(c)}

\* Frames enough for every page but the one asked for, every client but the one
\* that asks, and every frame a failed read has lost.
Room == Cardinality(Pages) + Cardinality(Clients) + MaxIoFaults <= Capacity + 1
Calm == PoolAssumption /\ (Concurrent => ~Checkpoints /\ Room)

Frame == [page : Pages \cup {NoPage}, state : {"Empty", "Clean", "Dirty"},
          pin : Nat, ref : BOOLEAN, data : Nat]
Tables == UNION {[P -> Frames] : P \in SUBSET Pages}
PoolRecs == [frames : [Frames -> Frame], table : Tables, free : Seq(Frames),
             hand : Frames, dirty : SUBSET Frames]
CallRecs == [at : {"idle", "refused", "reading", "loading", "holding", "marking"},
             page : Pages \cup {NoPage}, frame : 0..Capacity, data : Nat, changed : BOOLEAN]
FlushRecs == [on : BOOLEAN, todo : SUBSET Frames, writing : 0..Capacity]

ShapeInv ==
  /\ pool \in PoolRecs /\ disk \in [Pages -> Nat] /\ call \in [Clients -> CallRecs]
  /\ ckpt \in FlushRecs /\ changes \in [Pages -> Nat] /\ iofaults \in 0..MaxIoFaults

\* The table and the frames say the same, and what is free is empty.
PlaceInv ==
  /\ \A p \in DOMAIN pool.table : pool.frames[pool.table[p]].page = p
  /\ \A f \in Frames : LET p == pool.frames[f].page
                       IN  p # NoPage => p \in DOMAIN pool.table /\ pool.table[p] = f
  /\ \A i, j \in DOMAIN pool.free : pool.free[i] = pool.free[j] => i = j
  /\ \A i \in DOMAIN pool.free : pool.frames[pool.free[i]].page = NoPage

\* A frame being loaded is empty, on no list and nobody else's; a page held or still
\* to be marked is where it was fetched; what is read of a page is what it still is.
CallsInv ==
  /\ \A c \in Clients : Reserving(c) =>
       /\ call[c].page \in Pages /\ call[c].frame \in Frames
       /\ pool.frames[call[c].frame].page = NoPage
       /\ \A i \in DOMAIN pool.free : pool.free[i] # call[c].frame
       /\ \A d \in Clients : Reserving(d) /\ call[d].frame = call[c].frame => d = c
  /\ \A c \in Clients : call[c].at \in {"holding", "marking"} =>
       call[c].page \in DOMAIN pool.table /\ pool.table[call[c].page] = call[c].frame
  /\ \A c \in Clients : call[c].changed => call[c].at \in {"holding", "marking"}
  /\ \A c \in Clients : call[c].at = "loading" /\ call[c].page \notin DOMAIN pool.table
                          => call[c].data = disk[call[c].page]

PinInv == \A f \in Frames : pool.frames[f].pin >= Cardinality(HeldBy(f))

\* The frame a checkpoint has just written is as it is on disk.
FlushInv ==
  LET f == ckpt.writing
  IN  f # NoFrame /\ pool.frames[f].page # NoPage
        => pool.frames[f].data = disk[pool.frames[f].page]

\* One call at a time, or no checkpoint.
QuietInv ==
  /\ ckpt.on => Checkpoints
  /\ ckpt.writing # NoFrame => ckpt.on
  /\ ~Concurrent => /\ \A c, d \in Clients : ~Between(c) /\ ~Between(d) => c = d
                    /\ ckpt.on => \A c \in Clients : Between(c)

\* Frames that are neither free nor reserved hold a page or were lost by a failed read.
RoomInv ==
  Concurrent => Len(pool.free) + Cardinality(DOMAIN pool.table) + Cardinality(Reservers)
                  + iofaults >= Capacity

PoolInv ==
  /\ ShapeInv /\ PlaceInv /\ CallsInv /\ PinInv /\ FlushInv /\ QuietInv /\ RoomInv
  /\ NoChangeLost /\ ChangesTracked

-----------------------------------------------------------------------------
(* The pool's record *)

LEMMA TableIs ==
  ASSUME NEW T, T \in Tables
  PROVE  DOMAIN T \subseteq Pages /\ \A p \in DOMAIN T : T[p] \in Frames
<1>1. PICK P \in SUBSET Pages : T \in [P -> Frames]
  BY DEF Tables
<1> QED
  BY <1>1

LEMMA IsTable ==
  ASSUME NEW T, NEW P \in SUBSET Pages, T \in [P -> Frames]
  PROVE  T \in Tables
  BY DEF Tables

LEMMA FramesAre ==
  ASSUME Calm
  PROVE  /\ Capacity \in Nat \ {0} /\ Frames = 0..Capacity - 1 /\ NoFrame \notin Frames
         /\ Frames \subseteq 0..Capacity /\ NoFrame \in 0..Capacity /\ NoPage \notin Pages
  BY DEF Calm, PoolAssumption, Frames, NoFrame

LEMMA PoolIs ==
  ASSUME Calm, ShapeInv
  PROVE  /\ pool.frames \in [Frames -> Frame] /\ pool.table \in Tables
         /\ DOMAIN pool.table \subseteq Pages /\ \A p \in DOMAIN pool.table : pool.table[p] \in Frames
         /\ pool.free \in Seq(Frames) /\ pool.hand \in Frames /\ pool.dirty \subseteq Frames
         /\ \A f \in Frames : pool.frames[f] \in Frame /\ pool.frames[f].page \in Pages \cup {NoPage}
                              /\ pool.frames[f].pin \in Nat /\ pool.frames[f].data \in Nat
<1>1. pool \in PoolRecs
  BY DEF ShapeInv
<1>2. /\ pool.frames \in [Frames -> Frame] /\ pool.table \in Tables
      /\ pool.free \in Seq(Frames) /\ pool.hand \in Frames /\ pool.dirty \subseteq Frames
  BY <1>1 DEF PoolRecs
<1>3. \A f \in Frames : pool.frames[f] \in Frame
  BY <1>2
<1>4. \A f \in Frames : pool.frames[f].page \in Pages \cup {NoPage}
                        /\ pool.frames[f].pin \in Nat /\ pool.frames[f].data \in Nat
  BY <1>3 DEF Frame
<1> QED
  BY <1>2, <1>3, <1>4, TableIs

\* One frame is another; all else in the pool is as it was.
SetFrame(ps, f, new) == [ps EXCEPT !.frames[f] = new]

LEMMA SetFrameIs ==
  ASSUME NEW ps \in PoolRecs, NEW f \in Frames, NEW new \in Frame
  PROVE  LET r == SetFrame(ps, f, new)
         IN  /\ r \in PoolRecs /\ r.table = ps.table /\ r.free = ps.free /\ r.hand = ps.hand
             /\ r.dirty = ps.dirty /\ r.frames[f] = new
             /\ \A g \in Frames : g # f => r.frames[g] = ps.frames[g]
<1> DEFINE frames == [ps.frames EXCEPT ![f] = new]
<1>1. ps.frames \in [Frames -> Frame]
  BY DEF PoolRecs
<1>2. /\ frames \in [Frames -> Frame] /\ frames[f] = new
      /\ \A g \in Frames : g # f => frames[g] = ps.frames[g]
  BY <1>1
<1>3. SetFrame(ps, f, new) = [ps EXCEPT !.frames = frames]
  BY DEF SetFrame
<1> HIDE DEF frames
<1> QED
  BY <1>2, <1>3 DEF PoolRecs

LEMMA PinIs ==
  ASSUME NEW ps \in PoolRecs, NEW f \in Frames
  PROVE  LET r == Pin(ps, f)
         IN  /\ r \in PoolRecs /\ r.table = ps.table /\ r.free = ps.free /\ r.hand = ps.hand
             /\ r.dirty = ps.dirty
             /\ r.frames[f].page = ps.frames[f].page /\ r.frames[f].state = ps.frames[f].state
             /\ r.frames[f].data = ps.frames[f].data /\ r.frames[f].pin = ps.frames[f].pin + 1
             /\ \A g \in Frames : g # f => r.frames[g] = ps.frames[g]
<1>1. PICK old \in Frame : old = ps.frames[f]
  BY DEF PoolRecs
<1>2. PICK pin \in Nat : pin = old.pin + 1
  BY DEF Frame
<1> DEFINE new == [old EXCEPT !.pin = pin, !.ref = TRUE]
<1>3. Pin(ps, f) = SetFrame(ps, f, new)
  BY <1>1, <1>2 DEF Pin, SetFrame
<1>4. /\ new \in Frame /\ new.page = old.page /\ new.state = old.state
      /\ new.data = old.data /\ new.pin = pin
  BY DEF Frame
<1> HIDE DEF new
<1> QED
  BY <1>1, <1>2, <1>3, <1>4, SetFrameIs

\* A turn of the clock moves the hand and clears reference bits.
LEMMA TurnedIs ==
  ASSUME Calm, ShapeInv, NEW k \in Nat
  PROVE  LET r == Turned(k)
         IN  /\ r \in PoolRecs /\ r.table = pool.table /\ r.free = pool.free
             /\ r.dirty = pool.dirty
             /\ \A g \in Frames :
                  /\ r.frames[g].page = pool.frames[g].page
                  /\ r.frames[g].state = pool.frames[g].state
                  /\ r.frames[g].data = pool.frames[g].data
                  /\ r.frames[g].pin = pool.frames[g].pin
<1> DEFINE passed(f) == \E j \in 0..k - 1 : f = AtHand(j) /\ pool.frames[f].pin = 0
           new(f) == IF passed(f) THEN [pool.frames[f] EXCEPT !.ref = FALSE] ELSE pool.frames[f]
           frames == [f \in Frames |-> new(f)]
           hand == AtHand(k)
<1>1. pool \in PoolRecs /\ \A f \in Frames : pool.frames[f] \in Frame
  BY PoolIs DEF ShapeInv
<1>2. hand \in Frames
  <2>1. pool.hand \in Nat /\ Capacity \in Nat \ {0}
    BY FramesAre, PoolIs
  <2>2. (pool.hand + k) % Capacity \in 0..Capacity - 1
    BY <2>1
  <2> QED
    BY <2>2 DEF AtHand, Frames
<1>3. ASSUME NEW f \in Frames
      PROVE  /\ new(f) \in Frame /\ new(f).page = pool.frames[f].page
             /\ new(f).state = pool.frames[f].state /\ new(f).data = pool.frames[f].data
             /\ new(f).pin = pool.frames[f].pin
  <2>1. PICK old \in Frame : old = pool.frames[f]
    BY <1>1
  <2>2. LET cleared == [old EXCEPT !.ref = FALSE]
        IN  /\ cleared \in Frame /\ cleared.page = old.page /\ cleared.state = old.state
            /\ cleared.data = old.data /\ cleared.pin = old.pin
    BY DEF Frame
  <2> HIDE DEF passed
  <2> QED
    BY <2>1, <2>2
<1>4. Turned(k) = [pool EXCEPT !.hand = hand, !.frames = frames]
  BY DEF Turned
<1> HIDE DEF new, hand, passed
<1>5. frames \in [Frames -> Frame] /\ \A f \in Frames : frames[f] = new(f)
  BY <1>3
<1> HIDE DEF frames
<1>6. /\ Turned(k) \in PoolRecs /\ Turned(k).table = pool.table /\ Turned(k).free = pool.free
      /\ Turned(k).dirty = pool.dirty /\ Turned(k).frames = frames
  BY <1>1, <1>2, <1>4, <1>5 DEF PoolRecs
<1> QED
  BY <1>3, <1>5, <1>6

-----------------------------------------------------------------------------
(* What a call that moves no page leaves as it was *)

SamePlaces ==
  /\ pool'.table = pool.table /\ pool'.free = pool.free
  /\ \A f \in Frames : pool'.frames[f].page = pool.frames[f].page
SameContents ==
  /\ pool'.dirty = pool.dirty /\ UNCHANGED <<disk, changes>>
  /\ \A f \in Frames : pool'.frames[f].data = pool.frames[f].data
                       /\ pool'.frames[f].state = pool.frames[f].state
OnlyCall(c) == \A d \in Clients : d # c => call'[d] = call[d]

LEMMA PlacesKept ==
  ASSUME Calm, ShapeInv, PlaceInv, SamePlaces PROVE PlaceInv'
<1>1. /\ \A p \in DOMAIN pool.table : pool.table[p] \in Frames
      /\ \A i \in DOMAIN pool.free : pool.free[i] \in Frames
  BY PoolIs
<1> QED
  BY <1>1 DEF PlaceInv, SamePlaces

\* No client's call is in the middle while a checkpoint writes.
LEMMA NoFlushing ==
  ASSUME Calm, ShapeInv, QuietInv, NEW C, MayRun(C) PROVE ~ckpt.on /\ ckpt.writing = NoFrame
  BY DEF Calm, PoolAssumption, QuietInv, MayRun

LEMMA ReserversCount ==
  ASSUME Calm
  PROVE  IsFiniteSet(Reservers) /\ Cardinality(Reservers) \in Nat
         /\ \A f : IsFiniteSet(HeldBy(f)) /\ Cardinality(HeldBy(f)) \in Nat
<1>1. IsFiniteSet(Clients) /\ Reservers \subseteq Clients /\ \A f : HeldBy(f) \subseteq Clients
  BY DEF Calm, PoolAssumption, Reservers, HeldBy
<1> QED
  BY <1>1, FS_Subset, FS_CardinalityType

\* One client more or one less.
LEMMA OneMore ==
  ASSUME NEW A, NEW B, NEW c, IsFiniteSet(A), B \subseteq A \cup {c}
  PROVE  /\ IsFiniteSet(B) /\ Cardinality(B) <= Cardinality(A) + 1
         /\ c \in A \/ c \notin B => Cardinality(B) <= Cardinality(A)
<1>1. IsFiniteSet(A \cup {c})
  BY FS_AddElement
<1>2. IsFiniteSet(B) /\ Cardinality(B) <= Cardinality(A \cup {c})
  BY <1>1, FS_Subset
<1>3. Cardinality(A) \in Nat /\ Cardinality(A \cup {c}) <= Cardinality(A) + 1 /\ Cardinality(B) \in Nat
      /\ Cardinality(A \cup {c}) \in Nat
  <2>1. Cardinality(A) \in Nat
    BY FS_CardinalityType
  <2>2. Cardinality(B) \in Nat /\ Cardinality(A \cup {c}) \in Nat
    BY <1>1, <1>2, FS_CardinalityType
  <2>3. Cardinality(A \cup {c}) = IF c \in A THEN Cardinality(A) ELSE Cardinality(A) + 1
    BY FS_AddElement
  <2> QED
    BY <2>1, <2>2, <2>3
<1>4. c \in A \/ c \notin B => Cardinality(B) <= Cardinality(A)
  <2>1. c \in A \/ c \notin B => B \subseteq A
    OBVIOUS
  <2> QED
    BY <2>1, FS_Subset
<1> QED
  BY <1>2, <1>3, <1>4

LEMMA OneLess ==
  ASSUME NEW A, NEW B, NEW c \in A, IsFiniteSet(A), B \subseteq A \ {c}
  PROVE  Cardinality(B) + 1 <= Cardinality(A)
<1>1. IsFiniteSet(A \ {c}) /\ Cardinality(A \ {c}) = Cardinality(A) - 1
  BY FS_RemoveElement
<1>2. Cardinality(B) <= Cardinality(A \ {c}) /\ IsFiniteSet(B)
  BY <1>1, FS_Subset
<1>3. Cardinality(A) \in Nat /\ Cardinality(B) \in Nat
  BY <1>2, FS_CardinalityType
<1> QED
  BY <1>1, <1>2, <1>3

\* A frame gains at least the pins of who comes, and loses at most those of who goes.
LEMMA PinsMove ==
  ASSUME Calm, ShapeInv, ShapeInv', PinInv, NEW c \in Clients, OnlyCall(c),
         \A f \in Frames :
           /\ c \in HeldBy(f) \/ c \notin HeldBy(f)' => pool'.frames[f].pin >= pool.frames[f].pin
                                           \/ (c \in HeldBy(f) /\ c \notin HeldBy(f)'
                                               /\ pool'.frames[f].pin + 1 >= pool.frames[f].pin)
           /\ c \notin HeldBy(f) /\ c \in HeldBy(f)' => pool'.frames[f].pin >= pool.frames[f].pin + 1
  PROVE  PinInv'
<1> SUFFICES ASSUME NEW f \in Frames PROVE pool'.frames[f].pin >= Cardinality(HeldBy(f)')
  BY DEF PinInv
<1> DEFINE A == HeldBy(f)
<1>1. PICK B : B = HeldBy(f)'
  OBVIOUS
<1>2. IsFiniteSet(A) /\ Cardinality(A) \in Nat /\ pool.frames[f].pin >= Cardinality(A)
  BY ReserversCount DEF PinInv
<1>3. B \subseteq A \cup {c} /\ (c \notin B => B \subseteq A \ {c})
  BY <1>1 DEF HeldBy, OnlyCall
<1>4. pool.frames[f].pin \in Nat
  BY PoolIs
<1>5. pool'.frames[f].pin \in Nat
  <2>1. pool'.frames \in [Frames -> Frame]
    BY DEF ShapeInv, PoolRecs
  <2>2. pool'.frames[f] \in Frame
    BY <2>1
  <2> QED
    BY <2>2 DEF Frame
<1>6. Cardinality(B) \in Nat /\ Cardinality(B) <= Cardinality(A) + 1
      /\ (c \in A \/ c \notin B => Cardinality(B) <= Cardinality(A))
      /\ (c \in A /\ c \notin B => Cardinality(B) + 1 <= Cardinality(A))
  <2> HIDE DEF A
  <2>1. IsFiniteSet(B) /\ Cardinality(B) <= Cardinality(A) + 1
        /\ (c \in A \/ c \notin B => Cardinality(B) <= Cardinality(A))
    BY <1>2, <1>3, OneMore
  <2>2. c \in A /\ c \notin B => Cardinality(B) + 1 <= Cardinality(A)
    BY <1>2, <1>3, OneLess
  <2> QED
    BY <2>1, <2>2, FS_CardinalityType
<1>7. /\ c \in A \/ c \notin B => pool'.frames[f].pin >= pool.frames[f].pin
                                  \/ (c \in A /\ c \notin B
                                      /\ pool'.frames[f].pin + 1 >= pool.frames[f].pin)
      /\ c \notin A /\ c \in B => pool'.frames[f].pin >= pool.frames[f].pin + 1
  BY <1>1
<1> HIDE DEF A
<1>8. pool'.frames[f].pin >= Cardinality(B)
  BY <1>2, <1>4, <1>5, <1>6, <1>7
<1> QED
  BY <1>1, <1>8

LEMMA QuietCall ==
  ASSUME Calm, ShapeInv, QuietInv, NEW c \in Clients, OnlyCall(c), ckpt' = ckpt,
         MayRun(Clients \ {c}) \/ (Between(c) /\ Between(c)')
  PROVE  QuietInv'
<1>1. \A d \in Clients : d # c => (Between(d)' <=> Between(d))
  BY DEF OnlyCall, Between
<1>2. CASE Concurrent
  BY <1>2 DEF QuietInv
<1>3. CASE ~Concurrent /\ MayRun(Clients \ {c})
  <2>1. ~ckpt.on /\ \A d \in Clients \ {c} : Between(d)
    BY <1>3 DEF MayRun
  <2> QED
    BY <1>1, <1>3, <2>1 DEF QuietInv
<1>4. CASE ~Concurrent /\ Between(c) /\ Between(c)'
  BY <1>1, <1>4 DEF QuietInv
<1> QED
  BY <1>2, <1>3, <1>4

\* The same table, with a client that neither reserves a frame nor leaves its page
\* but as its call says.
LEMMA CallsMove ==
  ASSUME Calm, ShapeInv, CallsInv, SamePlaces, disk' = disk, NEW c \in Clients, OnlyCall(c),
         Reserving(c)' => Reserving(c) /\ call'[c].page = call[c].page
                                       /\ call'[c].frame = call[c].frame,
         call'[c].at \in {"holding", "marking"} =>
           call'[c].page \in DOMAIN pool.table /\ pool.table[call'[c].page] = call'[c].frame,
         call'[c].changed => call'[c].at \in {"holding", "marking"},
         call'[c].at = "loading" => call'[c].data = disk[call'[c].page]
  PROVE  CallsInv'
<1>1. \A d \in Clients : Reserving(d)' =>
        Reserving(d) /\ call'[d].page = call[d].page /\ call'[d].frame = call[d].frame
  BY DEF OnlyCall, Reserving
<1>2. \A f \in Frames : pool'.frames[f].page = pool.frames[f].page
  BY DEF SamePlaces
<1>3. pool'.table = pool.table /\ pool'.free = pool.free
  BY DEF SamePlaces
<1>4. ASSUME NEW d \in Clients, Reserving(d)'
      PROVE  /\ call'[d].page \in Pages /\ call'[d].frame \in Frames
             /\ pool'.frames[call'[d].frame].page = NoPage
             /\ \A i \in DOMAIN pool'.free : pool'.free[i] # call'[d].frame
             /\ \A e \in Clients : Reserving(e)' /\ call'[e].frame = call'[d].frame => e = d
  BY <1>1, <1>2, <1>3, <1>4 DEF CallsInv
<1>5. ASSUME NEW d \in Clients, call'[d].at \in {"holding", "marking"}
      PROVE  call'[d].page \in DOMAIN pool'.table /\ pool'.table[call'[d].page] = call'[d].frame
  BY <1>3, <1>5 DEF CallsInv, OnlyCall
<1>6. \A d \in Clients : call'[d].changed => call'[d].at \in {"holding", "marking"}
  BY DEF CallsInv, OnlyCall
<1>7. ASSUME NEW d \in Clients, call'[d].at = "loading", call'[d].page \notin DOMAIN pool'.table
      PROVE  call'[d].data = disk'[call'[d].page]
  BY <1>3, <1>7 DEF CallsInv, OnlyCall
<1> QED
  BY <1>4, <1>5, <1>6, <1>7 DEF CallsInv

LEMMA RoomKept ==
  ASSUME Calm, ShapeInv, ShapeInv', RoomInv, NEW c \in Clients, OnlyCall(c),
         pool'.table = pool.table, pool'.free = pool.free, iofaults' >= iofaults,
         Reserving(c) => Reserving(c)' \/ iofaults' >= iofaults + 1
  PROVE  RoomInv'
<1> SUFFICES ASSUME Concurrent
             PROVE  Len(pool.free) + Cardinality(DOMAIN pool.table) + Cardinality(Reservers')
                      + iofaults' >= Capacity
  BY DEF RoomInv
<1> DEFINE A == Reservers
<1>1. PICK B : B = Reservers'
  OBVIOUS
<1>2. Len(pool.free) + Cardinality(DOMAIN pool.table) + Cardinality(A) + iofaults >= Capacity
  BY DEF RoomInv
<1>3. A \subseteq B \cup {c} /\ B \subseteq Clients
  BY <1>1 DEF Reservers, OnlyCall, Reserving
<1>4. IsFiniteSet(Clients) /\ Capacity \in Nat
  BY DEF Calm, PoolAssumption
<1>5. IsFiniteSet(B)
  BY <1>3, <1>4, FS_Subset
<1>6. IsFiniteSet(A) /\ Cardinality(A) \in Nat
  BY ReserversCount
<1>7. c \in B \/ c \notin A \/ iofaults' >= iofaults + 1
  BY <1>1 DEF Reservers
<1>8. Len(pool.free) \in Nat /\ Cardinality(DOMAIN pool.table) \in Nat
  <2>1. pool.free \in Seq(Frames) /\ DOMAIN pool.table \subseteq Pages /\ IsFiniteSet(Pages)
    BY PoolIs DEF Calm, PoolAssumption
  <2> QED
    BY <2>1, FS_Subset, FS_CardinalityType
<1> HIDE DEF A
<1>9. Cardinality(B) \in Nat
  BY <1>5, FS_CardinalityType
<1>10. /\ Cardinality(A) <= Cardinality(B) + 1
       /\ c \in B \/ c \notin A => Cardinality(A) <= Cardinality(B)
  BY <1>3, <1>5, OneMore
<1>11. iofaults \in Nat /\ iofaults' \in Nat
  BY DEF ShapeInv, Calm, PoolAssumption
<1>12. Len(pool.free) + Cardinality(DOMAIN pool.table) + Cardinality(B) + iofaults' >= Capacity
  BY <1>2, <1>4, <1>6, <1>7, <1>8, <1>9, <1>10, <1>11
<1> QED
  BY <1>1, <1>12

LEMMA ContentsKept ==
  ASSUME Calm, ShapeInv, NoChangeLost, ChangesTracked, SamePlaces, SameContents,
         NEW c \in Clients, OnlyCall(c),
         call[c].changed => call'[c].changed /\ call'[c].frame = call[c].frame
  PROVE  NoChangeLost' /\ ChangesTracked'
<1>1. /\ pool'.table = pool.table /\ \A p \in DOMAIN pool.table : pool.table[p] \in Frames
  BY PoolIs DEF SamePlaces
<1>2. NoChangeLost'
  BY <1>1 DEF NoChangeLost, SameContents
<1>3. ASSUME NEW p \in DOMAIN pool.table, NEW f, f = pool.table[p]
      PROVE  \/ pool'.frames[f].data = disk'[p]
             \/ f \in pool'.dirty /\ pool'.frames[f].state = "Dirty"
             \/ \E d \in Clients : call'[d].frame = f /\ call'[d].changed
  <2>1. f \in Frames
    BY <1>1, <1>3
  <2>2. \/ pool.frames[f].data = disk[p]
        \/ f \in pool.dirty /\ pool.frames[f].state = "Dirty"
        \/ \E d \in Clients : call[d].frame = f /\ call[d].changed
    BY <1>3 DEF ChangesTracked
  <2> QED
    BY <2>1, <2>2 DEF SameContents, OnlyCall
<1>4. ChangesTracked'
  BY <1>1, <1>3 DEF ChangesTracked
<1> QED
  BY <1>2, <1>4

\* All of the invariant but what pages contain, for a call that moves none.
LEMMA CallInPlace ==
  ASSUME Calm, PoolInv, ShapeInv', SamePlaces, disk' = disk, ckpt' = ckpt,
         NEW c \in Clients, OnlyCall(c), iofaults' >= iofaults,
         MayRun(Clients \ {c}) \/ (Between(c) /\ Between(c)' /\ pool' = pool),
         Reserving(c)' => Reserving(c) /\ call'[c].page = call[c].page
                                       /\ call'[c].frame = call[c].frame,
         Reserving(c) => Reserving(c)' \/ iofaults' >= iofaults + 1,
         call'[c].at \in {"holding", "marking"} =>
           call'[c].page \in DOMAIN pool.table /\ pool.table[call'[c].page] = call'[c].frame,
         call'[c].changed => call'[c].at \in {"holding", "marking"},
         call'[c].at = "loading" => call'[c].data = disk[call'[c].page]
  PROVE  PlaceInv' /\ CallsInv' /\ FlushInv' /\ QuietInv' /\ RoomInv'
<1>1. PlaceInv' /\ CallsInv'
  BY PlacesKept, CallsMove DEF PoolInv
<1>2. QuietInv'
  BY QuietCall DEF PoolInv
<1>3. RoomInv'
  BY RoomKept DEF PoolInv, SamePlaces
<1>4. FlushInv'
  <2>1. CASE pool' = pool
    BY <2>1 DEF PoolInv, FlushInv
  <2>2. CASE MayRun(Clients \ {c})
    BY <2>2, NoFlushing DEF PoolInv, FlushInv
  <2> QED
    BY <2>1, <2>2
<1> QED
  BY <1>1, <1>2, <1>3, <1>4

-----------------------------------------------------------------------------
(* Where a client is *)

LEMMA CallIs ==
  ASSUME ShapeInv, NEW c \in Clients
  PROVE  /\ call[c] \in CallRecs /\ call[c].page \in Pages \cup {NoPage}
         /\ call[c].frame \in 0..Capacity /\ call[c].data \in Nat
  BY DEF ShapeInv, CallRecs

LEMMA CallSet ==
  ASSUME ShapeInv, NEW c \in Clients, NEW new \in CallRecs, call' = [call EXCEPT ![c] = new]
  PROVE  call' \in [Clients -> CallRecs] /\ call'[c] = new /\ OnlyCall(c)
  BY DEF ShapeInv, OnlyCall

LEMMA NoCallIs ==
  ASSUME Calm
  PROVE  /\ NoCall \in CallRecs /\ NoCall.at = "idle" /\ ~NoCall.changed
         /\ NoCall.page = NoPage /\ NoCall.frame = NoFrame
  BY FramesAre DEF NoCall, CallRecs

LEMMA AtPage ==
  ASSUME Calm, NEW p \in Pages, NEW f \in Frames, NEW at \in {"holding", "reading"}
  PROVE  LET new == [NoCall EXCEPT !.at = at, !.page = p, !.frame = f]
         IN  /\ new \in CallRecs /\ new.at = at /\ new.page = p /\ new.frame = f /\ ~new.changed
<1>1. NoCall \in CallRecs /\ ~NoCall.changed /\ f \in 0..Capacity
  BY NoCallIs, FramesAre
<1> QED
  BY <1>1 DEF CallRecs

-----------------------------------------------------------------------------
(* Calls that move no page and change none *)

LEMMA FetchHitKeeps ==
  ASSUME Calm, PoolInv, NEW c \in Clients, NEW p \in Pages, FetchHit(c, p) PROVE PoolInv'
<1> USE DEF PoolInv
<1> DEFINE f == pool.table[p]
           new == [NoCall EXCEPT !.at = "holding", !.page = p, !.frame = f]
<1>1. /\ f \in Frames /\ p \in DOMAIN pool.table /\ call[c].at = "idle" /\ MayRun(Clients \ {c})
      /\ pool' = Pin(pool, f) /\ call' = [call EXCEPT ![c] = new]
      /\ UNCHANGED <<disk, ckpt, changes, iofaults>>
  BY PoolIs DEF FetchHit, Asks, Hold
<1>2. new \in CallRecs /\ new.at = "holding" /\ new.page = p /\ new.frame = f /\ ~new.changed
  BY <1>1, AtPage
<1> HIDE DEF new
<1>3. call' \in [Clients -> CallRecs] /\ call'[c] = new /\ OnlyCall(c)
  BY <1>1, <1>2, CallSet
<1>4. /\ pool' \in PoolRecs /\ pool'.table = pool.table /\ pool'.free = pool.free
      /\ pool'.dirty = pool.dirty
      /\ pool'.frames[f].page = pool.frames[f].page /\ pool'.frames[f].state = pool.frames[f].state
      /\ pool'.frames[f].data = pool.frames[f].data /\ pool'.frames[f].pin = pool.frames[f].pin + 1
      /\ \A g \in Frames : g # f => pool'.frames[g] = pool.frames[g]
  BY <1>1, PinIs DEF ShapeInv
<1> HIDE DEF f
<1>5. SamePlaces /\ SameContents
  BY <1>1, <1>4 DEF SamePlaces, SameContents
<1>6. ShapeInv'
  BY <1>1, <1>3, <1>4 DEF ShapeInv
<1>7. ~Reserving(c) /\ ~Reserving(c)' /\ ~call[c].changed /\ iofaults' >= iofaults
  BY <1>1, <1>2, <1>3 DEF Reserving, CallsInv, ShapeInv
<1>8. PlaceInv' /\ CallsInv' /\ FlushInv' /\ QuietInv' /\ RoomInv'
  BY <1>1, <1>2, <1>3, <1>5, <1>6, <1>7, CallInPlace DEF f
<1>9. NoChangeLost' /\ ChangesTracked'
  BY <1>3, <1>5, <1>7, ContentsKept
<1>10. PinInv'
  <2>1. \A g \in Frames : c \notin HeldBy(g) /\ (c \in HeldBy(g)' => g = f)
    BY <1>1, <1>2, <1>3 DEF HeldBy
  <2>2. \A g \in Frames : pool.frames[g].pin \in Nat
    BY PoolIs
  <2>3. \A g \in Frames : /\ pool'.frames[g].pin >= pool.frames[g].pin
                          /\ g = f => pool'.frames[g].pin >= pool.frames[g].pin + 1
    BY <1>4, <2>2
  <2> QED
    BY <1>3, <1>6, <2>1, <2>3, PinsMove
<1> QED
  BY <1>6, <1>8, <1>9, <1>10

\* The clock may turn whoever asks.
LEMMA TurnKeeps ==
  ASSUME Calm, PoolInv, NEW c \in Clients, NEW p \in Pages, NEW k \in Nat, Misses(c, p),
         pool' = Turned(k), UNCHANGED <<disk, ckpt, changes>>, iofaults' \in 0..MaxIoFaults,
         iofaults' >= iofaults,
         call' = call \/ call' = [call EXCEPT ![c].at = "refused"]
  PROVE  PoolInv'
<1> USE DEF PoolInv
<1>1. /\ pool' \in PoolRecs /\ pool'.table = pool.table /\ pool'.free = pool.free
      /\ pool'.dirty = pool.dirty
      /\ \A g \in Frames :
           /\ pool'.frames[g].page = pool.frames[g].page
           /\ pool'.frames[g].state = pool.frames[g].state
           /\ pool'.frames[g].data = pool.frames[g].data
           /\ pool'.frames[g].pin = pool.frames[g].pin
  BY TurnedIs
<1>2. call[c].at = "idle" /\ MayRun(Clients \ {c}) /\ call[c] \in CallRecs
  BY CallIs DEF Misses, Asks
<1>3. /\ call' \in [Clients -> CallRecs] /\ OnlyCall(c)
      /\ call'[c].at \in {"idle", "refused"} /\ call'[c].changed = call[c].changed
      /\ call'[c].frame = call[c].frame
  <2>1. PICK old \in CallRecs : old = call[c]
    BY <1>2
  <2> DEFINE new == [old EXCEPT !.at = "refused"]
  <2>2. new \in CallRecs /\ new.at = "refused" /\ new.changed = old.changed /\ new.frame = old.frame
    BY DEF CallRecs
  <2>3. call' = call \/ call' = [call EXCEPT ![c] = new]
    BY <2>1
  <2> HIDE DEF new
  <2>4. CASE call' = call
    BY <1>2, <2>4 DEF OnlyCall, ShapeInv
  <2>5. CASE call' = [call EXCEPT ![c] = new]
    BY <2>1, <2>2, <2>5, CallSet
  <2> QED
    BY <2>3, <2>4, <2>5
<1>4. SamePlaces /\ SameContents
  BY <1>1 DEF SamePlaces, SameContents
<1>5. ShapeInv'
  BY <1>1, <1>3 DEF ShapeInv
<1>6. ~Reserving(c) /\ ~Reserving(c)' /\ ~call[c].changed
  BY <1>2, <1>3 DEF Reserving, CallsInv
<1>7. PlaceInv' /\ CallsInv' /\ FlushInv' /\ QuietInv' /\ RoomInv'
  <2>1. call'[c].at \notin {"holding", "marking", "loading"}
    BY <1>3
  <2> QED
    BY <1>2, <1>3, <1>4, <1>5, <1>6, <2>1, CallInPlace
<1>8. NoChangeLost' /\ ChangesTracked'
  BY <1>3, <1>4, <1>6, ContentsKept
<1>9. PinInv'
  <2>1. \A g \in Frames : c \notin HeldBy(g) /\ c \notin HeldBy(g)'
    BY <1>2, <1>3 DEF HeldBy
  <2>2. \A g \in Frames : pool'.frames[g].pin >= pool.frames[g].pin
    BY <1>1, PoolIs
  <2> QED
    BY <1>3, <1>5, <2>1, <2>2, PinsMove
<1> QED
  BY <1>5, <1>7, <1>8, <1>9

\* The same pool, and a client that gives up what it held or reads on.
LEMMA SamePoolKeeps ==
  ASSUME Calm, PoolInv, UNCHANGED <<pool, disk, ckpt, changes>>,
         NEW c \in Clients, NEW new \in CallRecs, call' = [call EXCEPT ![c] = new],
         iofaults' \in 0..MaxIoFaults, iofaults' >= iofaults,
         MayRun(Clients \ {c}) \/ (Between(c) /\ Between(c)'),
         new.at \in {"idle", "loading"}, ~new.changed, ~call[c].changed,
         new.at = "loading" =>
           Reserving(c) /\ new.page = call[c].page /\ new.frame = call[c].frame
           /\ new.data = disk[call[c].page],
         Reserving(c) => new.at = "loading" \/ iofaults' >= iofaults + 1
  PROVE  PoolInv'
<1> USE DEF PoolInv
<1>1. call' \in [Clients -> CallRecs] /\ call'[c] = new /\ OnlyCall(c)
  BY CallSet
<1>2. SamePlaces /\ SameContents
  BY DEF SamePlaces, SameContents
<1>3. ShapeInv'
  BY <1>1 DEF ShapeInv
<1>4. Reserving(c)' <=> new.at = "loading"
  BY <1>1 DEF Reserving
<1>5. PlaceInv' /\ CallsInv' /\ FlushInv' /\ QuietInv' /\ RoomInv'
  BY <1>1, <1>2, <1>3, <1>4, CallInPlace
<1>6. NoChangeLost' /\ ChangesTracked'
  BY <1>1, <1>2, ContentsKept
<1>7. PinInv'
  <2>1. \A g \in Frames : c \notin HeldBy(g)'
    BY <1>1 DEF HeldBy
  <2>2. \A g \in Frames : pool'.frames[g].pin >= pool.frames[g].pin
    BY PoolIs
  <2> QED
    BY <1>1, <1>3, <2>1, <2>2, PinsMove
<1> QED
  BY <1>3, <1>5, <1>6, <1>7

LEMMA FaultIs ==
  ASSUME Calm, ShapeInv, Fault PROVE iofaults' \in 0..MaxIoFaults /\ iofaults' = iofaults + 1
                                     /\ iofaults' >= iofaults + 1 /\ iofaults' >= iofaults
<1>1. iofaults \in 0..MaxIoFaults /\ MaxIoFaults \in Nat
  BY DEF ShapeInv, Calm, PoolAssumption
<1> QED
  BY <1>1 DEF Fault

LEMMA GiveUpKeeps ==
  ASSUME Calm, PoolInv, NEW c \in Clients, GiveUp(c) PROVE PoolInv'
<1> USE DEF PoolInv
<1>1. /\ call[c].at = "refused" /\ call' = [call EXCEPT ![c] = NoCall]
      /\ UNCHANGED <<pool, disk, ckpt, changes, iofaults>>
  BY DEF GiveUp
<1>2. NoCall \in CallRecs /\ NoCall.at = "idle" /\ ~NoCall.changed
  BY NoCallIs
<1>3. call'[c].at = "idle"
  BY <1>1, <1>2, CallSet
<1>4. Between(c) /\ Between(c)' /\ ~Reserving(c)
  BY <1>1, <1>3 DEF Between, Reserving
<1>5. ~call[c].changed /\ iofaults' \in 0..MaxIoFaults /\ iofaults' >= iofaults
  BY <1>1 DEF CallsInv, ShapeInv
<1> QED
  BY <1>1, <1>2, <1>4, <1>5, SamePoolKeeps

LEMMA ReadPageKeeps ==
  ASSUME Calm, PoolInv, NEW c \in Clients, ReadPage(c) PROVE PoolInv'
<1> USE DEF PoolInv
<1>1. /\ call[c].at = "reading" /\ MayRun(Clients \ {c})
      /\ call' = [call EXCEPT ![c].at = "loading", ![c].data = disk[call[c].page]]
      /\ UNCHANGED <<pool, disk, ckpt, changes, iofaults>>
  BY DEF ReadPage
<1>2. Reserving(c) /\ call[c].page \in Pages /\ ~call[c].changed
  BY <1>1 DEF CallsInv, Reserving
<1>3. PICK old \in CallRecs : old = call[c]
  BY CallIs
<1>4. PICK n \in Nat : n = disk[call[c].page]
  BY <1>2 DEF ShapeInv
<1> DEFINE new == [old EXCEPT !.at = "loading", !.data = n]
<1>5. call' = [call EXCEPT ![c] = new]
  BY <1>1, <1>3, <1>4
<1>6. /\ new \in CallRecs /\ new.at = "loading" /\ new.page = old.page /\ new.frame = old.frame
      /\ new.data = n /\ new.changed = old.changed
  BY DEF CallRecs
<1> HIDE DEF new
<1>7. iofaults' \in 0..MaxIoFaults /\ iofaults' >= iofaults
  BY <1>1 DEF ShapeInv
<1> QED
  BY <1>1, <1>2, <1>3, <1>4, <1>5, <1>6, <1>7, SamePoolKeeps

LEMMA ReadFailsKeeps ==
  ASSUME Calm, PoolInv, NEW c \in Clients, ReadFails(c) PROVE PoolInv'
<1> USE DEF PoolInv
<1>1. /\ call[c].at = "reading" /\ MayRun(Clients \ {c}) /\ Fault
      /\ call' = [call EXCEPT ![c] = NoCall] /\ UNCHANGED <<pool, disk, ckpt, changes>>
  BY DEF ReadFails
<1>2. NoCall \in CallRecs /\ NoCall.at = "idle" /\ ~NoCall.changed
  BY NoCallIs
<1>3. ~call[c].changed
  BY <1>1 DEF CallsInv
<1> QED
  BY <1>1, <1>2, <1>3, FaultIs, SamePoolKeeps

LEMMA LeavePinnedKeeps ==
  ASSUME Calm, PoolInv, NEW c \in Clients, LeavePinned(c) PROVE PoolInv'
<1> USE DEF PoolInv
<1>1. /\ call[c].at = "holding" /\ MayRun(Clients \ {c}) /\ Fault /\ ~call[c].changed
      /\ call' = [call EXCEPT ![c] = NoCall] /\ UNCHANGED <<pool, disk, ckpt, changes>>
  BY DEF LeavePinned, Holding
<1>2. NoCall \in CallRecs /\ NoCall.at = "idle" /\ ~NoCall.changed
  BY NoCallIs
<1> QED
  BY <1>1, <1>2, FaultIs, SamePoolKeeps

LEMMA UnpinKeeps ==
  ASSUME Calm, PoolInv, NEW c \in Clients, Unpin(c) PROVE PoolInv'
<1> USE DEF PoolInv
<1>1. PICK old \in CallRecs : old = call[c]
  BY CallIs
<1>2. PICK f \in Frames : f = call[c].frame /\ call[c].page \in DOMAIN pool.table
                          /\ pool.table[call[c].page] = f
  BY PoolIs DEF CallsInv, Unpin, Holding
<1>3. PICK was \in Frame : was = pool.frames[f]
  BY PoolIs
<1>4. PICK pin \in Nat : pin = (IF was.pin > 0 THEN was.pin - 1 ELSE 0) /\ pin + 1 >= was.pin
  <2>1. was.pin \in Nat
    BY DEF Frame
  <2> QED
    BY <2>1
<1> DEFINE new == IF old.changed THEN [old EXCEPT !.at = "marking"] ELSE NoCall
           now == [was EXCEPT !.pin = pin]
<1>5. /\ call[c].at = "holding" /\ MayRun(Clients \ {c}) /\ call' = [call EXCEPT ![c] = new]
      /\ UNCHANGED <<disk, ckpt, changes, iofaults>>
  BY <1>1 DEF Unpin, Holding
<1>6. pool' = SetFrame(pool, f, now)
  BY <1>2, <1>3, <1>4 DEF Unpin, SetFrame
<1>7. /\ now \in Frame /\ now.page = was.page /\ now.state = was.state /\ now.data = was.data
      /\ now.pin = pin
  BY DEF Frame
<1>8. /\ new \in CallRecs /\ (new.changed <=> old.changed)
      /\ new.changed => new.at = "marking" /\ new.page = old.page /\ new.frame = old.frame
      /\ new.at \in {"idle", "marking"} /\ (new.at = "marking" => new.changed)
  BY NoCallIs DEF CallRecs
<1> HIDE DEF new, now
<1>9. call' \in [Clients -> CallRecs] /\ call'[c] = new /\ OnlyCall(c)
  BY <1>5, <1>8, CallSet
<1>10. /\ pool' \in PoolRecs /\ pool'.table = pool.table /\ pool'.free = pool.free
       /\ pool'.dirty = pool.dirty /\ pool'.frames[f] = now
       /\ \A g \in Frames : g # f => pool'.frames[g] = pool.frames[g]
  BY <1>6, <1>7, SetFrameIs DEF ShapeInv
<1>11. SamePlaces /\ SameContents
  BY <1>3, <1>5, <1>7, <1>10 DEF SamePlaces, SameContents
<1>12. ShapeInv'
  BY <1>5, <1>9, <1>10 DEF ShapeInv
<1>13. ~Reserving(c) /\ ~Reserving(c)' /\ iofaults' >= iofaults
  BY <1>5, <1>8, <1>9 DEF Reserving, ShapeInv
<1>14. PlaceInv' /\ CallsInv' /\ FlushInv' /\ QuietInv' /\ RoomInv'
  BY <1>1, <1>2, <1>5, <1>8, <1>9, <1>11, <1>12, <1>13, CallInPlace
<1>15. NoChangeLost' /\ ChangesTracked'
  BY <1>1, <1>8, <1>9, <1>11, ContentsKept
<1>16. PinInv'
  <2>1. \A g \in Frames : c \notin HeldBy(g)' /\ (c \in HeldBy(g) <=> g = f)
    BY <1>2, <1>5, <1>8, <1>9 DEF HeldBy
  <2>2. \A g \in Frames : IF g = f THEN pool'.frames[g].pin + 1 >= pool.frames[g].pin
                          ELSE pool'.frames[g].pin >= pool.frames[g].pin
    BY <1>3, <1>4, <1>7, <1>10, PoolIs
  <2> QED
    BY <1>9, <1>12, <2>1, <2>2, PinsMove
<1> QED
  BY <1>12, <1>14, <1>15, <1>16

LEMMA ChangeKeeps ==
  ASSUME Calm, PoolInv, NEW c \in Clients, Change(c) PROVE PoolInv'
<1> USE DEF PoolInv
<1>1. PICK old \in CallRecs : old = call[c]
  BY CallIs
<1>2. PICK p \in Pages, f \in Frames :
        p = call[c].page /\ f = call[c].frame /\ p \in DOMAIN pool.table /\ pool.table[p] = f
  BY PoolIs DEF CallsInv, Change, Holding
<1>3. PICK was \in Frame : was = pool.frames[f]
  BY PoolIs
<1>4. PICK data \in Nat : data = was.data + 1
  BY DEF Frame
<1> DEFINE new == [old EXCEPT !.changed = TRUE]
           now == [was EXCEPT !.data = data]
<1>5. /\ call[c].at = "holding" /\ MayRun(Clients \ {c}) /\ call' = [call EXCEPT ![c] = new]
      /\ UNCHANGED <<disk, ckpt, iofaults>> /\ changes' = [changes EXCEPT ![p] = @ + 1]
  BY <1>1, <1>2 DEF Change, Holding
<1>6. pool' = SetFrame(pool, f, now)
  BY <1>2, <1>3, <1>4 DEF Change, SetFrame
<1>7. /\ now \in Frame /\ now.page = was.page /\ now.pin = was.pin /\ now.data = data
  BY DEF Frame
<1>8. /\ new \in CallRecs /\ new.changed /\ new.at = old.at /\ new.page = old.page
      /\ new.frame = old.frame
  BY DEF CallRecs
<1> HIDE DEF new, now
<1>9. call' \in [Clients -> CallRecs] /\ call'[c] = new /\ OnlyCall(c)
  BY <1>5, <1>8, CallSet
<1>10. /\ pool' \in PoolRecs /\ pool'.table = pool.table /\ pool'.free = pool.free
       /\ pool'.dirty = pool.dirty /\ pool'.frames[f] = now
       /\ \A g \in Frames : g # f => pool'.frames[g] = pool.frames[g]
  BY <1>6, <1>7, SetFrameIs DEF ShapeInv
<1>11. SamePlaces
  BY <1>3, <1>7, <1>10 DEF SamePlaces
<1>12. changes' \in [Pages -> Nat] /\ changes'[p] = changes[p] + 1
       /\ \A q \in Pages : q # p => changes'[q] = changes[q]
  BY <1>5 DEF ShapeInv
<1>13. ShapeInv'
  BY <1>5, <1>9, <1>10, <1>12 DEF ShapeInv
<1>14. ~Reserving(c) /\ ~Reserving(c)' /\ iofaults' >= iofaults
  BY <1>1, <1>5, <1>8, <1>9 DEF Reserving, ShapeInv
<1>15. PlaceInv' /\ CallsInv' /\ FlushInv' /\ QuietInv' /\ RoomInv'
  BY <1>1, <1>2, <1>5, <1>8, <1>9, <1>11, <1>13, <1>14, CallInPlace
<1>16. \A q \in DOMAIN pool.table : pool.table[q] \in Frames /\ (pool.table[q] = f => q = p)
  BY <1>2, PoolIs DEF PlaceInv
<1>17. NoChangeLost'
  <2>1. ASSUME NEW q \in Pages, q \in DOMAIN pool.table
        PROVE  changes'[q] = pool'.frames[pool.table[q]].data
    <3>1. changes[q] = pool.frames[pool.table[q]].data
      BY <2>1 DEF NoChangeLost
    <3> QED
      BY <1>2, <1>3, <1>4, <1>7, <1>10, <1>12, <1>16, <2>1, <3>1
  <2>2. ASSUME NEW q \in Pages, q \notin DOMAIN pool.table
        PROVE  changes'[q] = disk'[q]
    BY <1>2, <1>5, <1>12, <2>2 DEF NoChangeLost
  <2> QED
    BY <1>10, <2>1, <2>2 DEF NoChangeLost
<1>18. ChangesTracked'
  <2>1. ASSUME NEW q \in DOMAIN pool.table, NEW g, g = pool.table[q]
        PROVE  \/ pool'.frames[g].data = disk'[q]
               \/ g \in pool'.dirty /\ pool'.frames[g].state = "Dirty"
               \/ \E d \in Clients : call'[d].frame = g /\ call'[d].changed
    <3>1. CASE g = f
      BY <1>1, <1>2, <1>8, <1>9, <3>1
    <3>2. CASE g # f
      <4>1. g \in Frames
        BY <1>16, <2>1
      <4>2. \/ pool.frames[g].data = disk[q]
            \/ g \in pool.dirty /\ pool.frames[g].state = "Dirty"
            \/ \E d \in Clients : call[d].frame = g /\ call[d].changed
        BY <2>1 DEF ChangesTracked
      <4>3. \A d \in Clients : call[d].changed /\ call[d].frame = g => d # c
        BY <1>2, <3>2
      <4> QED
        BY <1>5, <1>9, <1>10, <3>2, <4>1, <4>2, <4>3 DEF OnlyCall
    <3> QED
      BY <3>1, <3>2
  <2> QED
    BY <1>10, <2>1 DEF ChangesTracked
<1>19. PinInv'
  <2>1. \A g \in Frames : c \in HeldBy(g)' <=> c \in HeldBy(g)
    BY <1>1, <1>8, <1>9 DEF HeldBy
  <2>2. \A g \in Frames : pool'.frames[g].pin >= pool.frames[g].pin
    BY <1>3, <1>7, <1>10, PoolIs
  <2> QED
    BY <1>9, <1>13, <2>1, <2>2, PinsMove
<1> QED
  BY <1>13, <1>15, <1>17, <1>18, <1>19

LEMMA MarkDirtyKeeps ==
  ASSUME Calm, PoolInv, NEW c \in Clients, MarkDirty(c) PROVE PoolInv'
<1> USE DEF PoolInv
<1>1. PICK f \in Frames : f = call[c].frame /\ call[c].page \in DOMAIN pool.table
                          /\ pool.table[call[c].page] = f
  BY PoolIs DEF CallsInv, MarkDirty
<1>2. PICK was \in Frame : was = pool.frames[f]
  BY PoolIs
<1> DEFINE now == [was EXCEPT !.state = "Dirty"]
           set == SetFrame(pool, f, now)
<1>3. /\ call[c].at = "marking" /\ MayRun(Clients \ {c}) /\ call' = [call EXCEPT ![c] = NoCall]
      /\ UNCHANGED <<disk, ckpt, changes, iofaults>>
  BY DEF MarkDirty
<1>4. pool' = [set EXCEPT !.dirty = pool.dirty \cup {f}]
  <2>1. pool \in PoolRecs
    BY DEF ShapeInv
  <2> QED
    BY <1>1, <1>2, <1>3, <2>1 DEF MarkDirty, SetFrame, PoolRecs
<1>5. /\ now \in Frame /\ now.page = was.page /\ now.pin = was.pin /\ now.data = was.data
      /\ now.state = "Dirty"
  BY DEF Frame
<1> HIDE DEF now
<1>6. /\ set \in PoolRecs /\ set.table = pool.table /\ set.free = pool.free
      /\ set.frames[f] = now
      /\ \A g \in Frames : g # f => set.frames[g] = pool.frames[g]
  BY <1>5, SetFrameIs DEF ShapeInv
<1> HIDE DEF set
<1>7. /\ pool' \in PoolRecs /\ pool'.table = pool.table /\ pool'.free = pool.free
      /\ pool'.dirty = pool.dirty \cup {f} /\ pool'.frames[f] = now
      /\ \A g \in Frames : g # f => pool'.frames[g] = pool.frames[g]
  <2>1. pool.dirty \cup {f} \in SUBSET Frames
    BY PoolIs
  <2> QED
    BY <1>4, <1>6, <2>1 DEF PoolRecs
<1>8. NoCall \in CallRecs /\ NoCall.at = "idle" /\ ~NoCall.changed
  BY NoCallIs
<1>9. call' \in [Clients -> CallRecs] /\ call'[c] = NoCall /\ OnlyCall(c)
  BY <1>3, <1>8, CallSet
<1>10. SamePlaces
  BY <1>2, <1>5, <1>7 DEF SamePlaces
<1>11. ShapeInv'
  BY <1>3, <1>7, <1>9 DEF ShapeInv
<1>12. ~Reserving(c) /\ ~Reserving(c)' /\ iofaults' >= iofaults
  BY <1>3, <1>8, <1>9 DEF Reserving, ShapeInv
<1>13. PlaceInv' /\ CallsInv' /\ FlushInv' /\ QuietInv' /\ RoomInv'
  BY <1>3, <1>8, <1>9, <1>10, <1>11, <1>12, CallInPlace
<1>14. \A q \in DOMAIN pool.table : pool.table[q] \in Frames
  BY PoolIs
<1>15. \A g \in Frames : pool'.frames[g].data = pool.frames[g].data
                         /\ pool'.frames[g].pin = pool.frames[g].pin
  BY <1>2, <1>5, <1>7
<1>16. NoChangeLost'
  BY <1>3, <1>7, <1>14, <1>15 DEF NoChangeLost
<1>17. ChangesTracked'
  <2>1. ASSUME NEW q \in DOMAIN pool.table, NEW g, g = pool.table[q]
        PROVE  \/ pool'.frames[g].data = disk'[q]
               \/ g \in pool'.dirty /\ pool'.frames[g].state = "Dirty"
               \/ \E d \in Clients : call'[d].frame = g /\ call'[d].changed
    <3>1. CASE g = f
      BY <1>5, <1>7, <3>1
    <3>2. CASE g # f
      <4>1. g \in Frames
        BY <1>14, <2>1
      <4>2. \/ pool.frames[g].data = disk[q]
            \/ g \in pool.dirty /\ pool.frames[g].state = "Dirty"
            \/ \E d \in Clients : call[d].frame = g /\ call[d].changed
        BY <2>1 DEF ChangesTracked
      <4>3. \A d \in Clients : call[d].changed /\ call[d].frame = g => d # c
        BY <1>1, <3>2
      <4> QED
        BY <1>3, <1>7, <1>9, <3>2, <4>1, <4>2, <4>3 DEF OnlyCall
    <3> QED
      BY <3>1, <3>2
  <2> QED
    BY <1>7, <2>1 DEF ChangesTracked
<1>18. PinInv'
  <2>1. \A g \in Frames : c \notin HeldBy(g)' /\ c \notin HeldBy(g)
    BY <1>3, <1>8, <1>9 DEF HeldBy
  <2>2. \A g \in Frames : pool'.frames[g].pin >= pool.frames[g].pin
    BY <1>15, PoolIs
  <2> QED
    BY <1>9, <1>11, <2>1, <2>2, PinsMove
<1> QED
  BY <1>11, <1>13, <1>16, <1>17, <1>18

-----------------------------------------------------------------------------
(* Calls that take a frame or give one *)

\* Frames and contents as they were, and a client that had changed nothing.
LEMMA SameFramesKeep ==
  ASSUME Calm, ShapeInv, NoChangeLost, ChangesTracked, UNCHANGED <<disk, changes>>,
         pool'.table = pool.table, pool'.dirty = pool.dirty,
         \A f \in Frames : pool'.frames[f].data = pool.frames[f].data
                           /\ pool'.frames[f].state = pool.frames[f].state,
         NEW c \in Clients, OnlyCall(c), ~call[c].changed
  PROVE  NoChangeLost' /\ ChangesTracked'
<1>1. \A p \in DOMAIN pool.table : pool.table[p] \in Frames
  BY PoolIs
<1>2. NoChangeLost'
  BY <1>1 DEF NoChangeLost
<1>3. ASSUME NEW p \in DOMAIN pool.table, NEW f, f = pool.table[p]
      PROVE  \/ pool'.frames[f].data = disk'[p]
             \/ f \in pool'.dirty /\ pool'.frames[f].state = "Dirty"
             \/ \E d \in Clients : call'[d].frame = f /\ call'[d].changed
  <2>1. f \in Frames
    BY <1>1, <1>3
  <2>2. \/ pool.frames[f].data = disk[p]
        \/ f \in pool.dirty /\ pool.frames[f].state = "Dirty"
        \/ \E d \in Clients : call[d].frame = f /\ call[d].changed
    BY <1>3 DEF ChangesTracked
  <2> QED
    BY <2>1, <2>2 DEF OnlyCall
<1>4. ChangesTracked'
  BY <1>3 DEF ChangesTracked
<1> QED
  BY <1>2, <1>4

LEMMA FlushQuiet ==
  ASSUME Calm, ShapeInv, QuietInv, NEW C, MayRun(C), ckpt' = ckpt PROVE FlushInv'
  BY NoFlushing DEF FlushInv

LEMMA CountsAre ==
  ASSUME Calm, ShapeInv
  PROVE  /\ Len(pool.free) \in Nat /\ Cardinality(DOMAIN pool.table) \in Nat
         /\ IsFiniteSet(DOMAIN pool.table) /\ Cardinality(Reservers) \in Nat
         /\ iofaults \in Nat /\ Capacity \in Nat
<1>1. pool.free \in Seq(Frames) /\ DOMAIN pool.table \subseteq Pages /\ IsFiniteSet(Pages)
  BY PoolIs DEF Calm, PoolAssumption
<1>2. IsFiniteSet(DOMAIN pool.table)
  BY <1>1, FS_Subset
<1>3. Cardinality(DOMAIN pool.table) \in Nat
  BY <1>2, FS_CardinalityType
<1>4. iofaults \in Nat /\ Capacity \in Nat
  BY DEF ShapeInv, Calm, PoolAssumption
<1> QED
  BY <1>1, <1>2, <1>3, <1>4, ReserversCount

LEMMA TakeFreeKeeps ==
  ASSUME Calm, PoolInv, NEW c \in Clients, NEW p \in Pages, TakeFree(c, p) PROVE PoolInv'
<1> USE DEF PoolInv
<1>1. pool.free \in Seq(Frames) /\ pool.free # <<>> /\ pool \in PoolRecs
  BY PoolIs DEF TakeFree, ShapeInv
<1>2. PICK n \in Nat \ {0} : n = Len(pool.free)
  BY <1>1
<1>3. PICK f \in Frames : f = pool.free[n]
  BY <1>1, <1>2
<1> DEFINE new == [NoCall EXCEPT !.at = "reading", !.page = p, !.frame = f]
           left == SubSeq(pool.free, 1, n - 1)
<1>4. /\ call[c].at = "idle" /\ MayRun(Clients \ {c}) /\ call' = [call EXCEPT ![c] = new]
      /\ UNCHANGED <<disk, ckpt, changes, iofaults>> /\ pool' = [pool EXCEPT !.free = left]
  BY <1>1, <1>2, <1>3 DEF TakeFree, Misses, Asks, Reserve, PoolRecs
<1>5. /\ left \in Seq(Frames) /\ Len(left) = n - 1 /\ DOMAIN left = 1..n - 1
      /\ \A i \in 1..n - 1 : left[i] = pool.free[i]
  BY <1>1, <1>2
<1>6. new \in CallRecs /\ new.at = "reading" /\ new.page = p /\ new.frame = f /\ ~new.changed
  BY AtPage
<1> HIDE DEF new, left
<1>7. call' \in [Clients -> CallRecs] /\ call'[c] = new /\ OnlyCall(c)
  BY <1>4, <1>6, CallSet
<1>8. /\ pool' \in PoolRecs /\ pool'.table = pool.table /\ pool'.free = left
      /\ pool'.dirty = pool.dirty /\ pool'.frames = pool.frames
  BY <1>1, <1>4, <1>5 DEF PoolRecs
<1>9. ShapeInv'
  BY <1>4, <1>7, <1>8 DEF ShapeInv
<1>10. DOMAIN pool.free = 1..n /\ \A i \in 1..n - 1 : i \in 1..n /\ i # n
  BY <1>1, <1>2
<1>11. PlaceInv'
  BY <1>5, <1>8, <1>10 DEF PlaceInv
<1>12. /\ pool.frames[f].page = NoPage /\ \A i \in 1..n - 1 : pool.free[i] # f
       /\ \A d \in Clients : Reserving(d) => call[d].frame # f
  <2>1. n \in DOMAIN pool.free
    BY <1>2, <1>10
  <2> QED
    BY <1>3, <1>10, <2>1 DEF PlaceInv, CallsInv
<1>13. ~Reserving(c) /\ Reserving(c)' /\ ~call[c].changed
       /\ \A d \in Clients : d # c => (Reserving(d)' <=> Reserving(d))
  BY <1>4, <1>6, <1>7 DEF Reserving, CallsInv, OnlyCall
<1>14. CallsInv'
  <2>1. ASSUME NEW d \in Clients, Reserving(d)'
        PROVE  /\ call'[d].page \in Pages /\ call'[d].frame \in Frames
               /\ pool'.frames[call'[d].frame].page = NoPage
               /\ \A i \in DOMAIN pool'.free : pool'.free[i] # call'[d].frame
               /\ \A e \in Clients : Reserving(e)' /\ call'[e].frame = call'[d].frame => e = d
    <3>1. CASE d = c
      BY <1>5, <1>6, <1>7, <1>8, <1>12, <1>13, <3>1 DEF OnlyCall
    <3>2. CASE d # c
      <4>1. call'[d] = call[d] /\ Reserving(d)
        BY <1>7, <1>13, <2>1, <3>2 DEF OnlyCall
      <4>2. \A e \in Clients : Reserving(e)' /\ call'[e].frame = call'[d].frame => e = d
        BY <1>6, <1>7, <1>12, <1>13, <4>1 DEF OnlyCall, CallsInv
      <4> QED
        BY <1>5, <1>8, <1>10, <4>1, <4>2 DEF CallsInv
    <3> QED
      BY <3>1, <3>2
  <2>2. ASSUME NEW d \in Clients, call'[d].at \in {"holding", "marking"}
        PROVE  call'[d].page \in DOMAIN pool'.table /\ pool'.table[call'[d].page] = call'[d].frame
    BY <1>6, <1>7, <1>8, <2>2 DEF CallsInv, OnlyCall
  <2>3. \A d \in Clients : call'[d].changed => call'[d].at \in {"holding", "marking"}
    BY <1>6, <1>7 DEF CallsInv, OnlyCall
  <2>4. ASSUME NEW d \in Clients, call'[d].at = "loading", call'[d].page \notin DOMAIN pool'.table
        PROVE  call'[d].data = disk'[call'[d].page]
    BY <1>4, <1>6, <1>7, <1>8, <2>4 DEF CallsInv, OnlyCall
  <2> QED
    BY <2>1, <2>2, <2>3, <2>4 DEF CallsInv
<1>15. QuietInv' /\ FlushInv'
  BY <1>4, <1>7, QuietCall, FlushQuiet
<1>16. NoChangeLost' /\ ChangesTracked'
  BY <1>4, <1>7, <1>8, <1>13, SameFramesKeep
<1>17. PinInv'
  <2>1. \A g \in Frames : c \notin HeldBy(g)' /\ c \notin HeldBy(g)
    BY <1>4, <1>6, <1>7 DEF HeldBy
  <2>2. \A g \in Frames : pool'.frames[g].pin >= pool.frames[g].pin
    BY <1>8, PoolIs
  <2> QED
    BY <1>7, <1>9, <2>1, <2>2, PinsMove
<1>18. RoomInv'
  <2> SUFFICES ASSUME Concurrent
               PROVE  Len(pool'.free) + Cardinality(DOMAIN pool'.table) + Cardinality(Reservers')
                        + iofaults' >= Capacity
    BY DEF RoomInv
  <2>1. PICK A : A = Reservers
    OBVIOUS
  <2>2. PICK B : B = Reservers'
    OBVIOUS
  <2>3. c \in B /\ A \subseteq B \ {c} /\ B \subseteq Clients
    BY <1>13, <2>1, <2>2 DEF Reservers
  <2>4. IsFiniteSet(B)
    BY <2>3, FS_Subset DEF Calm, PoolAssumption
  <2>5. Cardinality(A) + 1 <= Cardinality(B)
    BY <2>3, <2>4, OneLess
  <2>6. Cardinality(B) \in Nat
    BY <2>4, FS_CardinalityType
  <2>7. PICK t \in Nat, i \in Nat : t = Cardinality(DOMAIN pool.table) /\ i = iofaults
    BY CountsAre
  <2>8. n + t + Cardinality(A) + i >= Capacity
    BY <1>2, <2>1, <2>7 DEF RoomInv
  <2>9. Cardinality(A) \in Nat /\ Capacity \in Nat
    BY <2>1, CountsAre
  <2>10. (n - 1) + t + Cardinality(B) + i >= Capacity
    BY <2>5, <2>6, <2>8, <2>9
  <2>11. Len(pool'.free) = n - 1 /\ Cardinality(DOMAIN pool'.table) = t /\ iofaults' = i
    BY <1>4, <1>5, <1>8, <2>7
  <2> QED
    BY <2>2, <2>10, <2>11
<1> QED
  BY <1>9, <1>11, <1>14, <1>15, <1>16, <1>17, <1>18

\* One frame more on the free list or in the table, one client fewer that reserves one.
LEMMA RoomGiven ==
  ASSUME Calm, ShapeInv, ShapeInv', RoomInv, NEW c \in Clients, OnlyCall(c),
         Reserving(c), iofaults' = iofaults,
         Len(pool'.free) + Cardinality(DOMAIN pool'.table)
           = Len(pool.free) + Cardinality(DOMAIN pool.table) + 1
  PROVE  RoomInv'
<1> SUFFICES ASSUME Concurrent
             PROVE  Len(pool'.free) + Cardinality(DOMAIN pool'.table) + Cardinality(Reservers')
                      + iofaults' >= Capacity
  BY DEF RoomInv
<1>1. PICK A : A = Reservers
  OBVIOUS
<1>2. PICK B : B = Reservers'
  OBVIOUS
<1>3. A \subseteq B \cup {c} /\ B \subseteq Clients
  BY <1>1, <1>2 DEF Reservers, OnlyCall, Reserving
<1>4. IsFiniteSet(B)
  BY <1>3, FS_Subset DEF Calm, PoolAssumption
<1>5. Cardinality(A) <= Cardinality(B) + 1
  BY <1>3, <1>4, OneMore
<1>6. Cardinality(B) \in Nat
  BY <1>4, FS_CardinalityType
<1>7. PICK l \in Nat, t \in Nat, i \in Nat :
        l = Len(pool.free) /\ t = Cardinality(DOMAIN pool.table) /\ i = iofaults
  BY CountsAre
<1>8. l + t + Cardinality(A) + i >= Capacity
  BY <1>1, <1>7 DEF RoomInv
<1>9. Cardinality(A) \in Nat /\ Capacity \in Nat
  BY <1>1, CountsAre
<1>10. l + t + 1 + Cardinality(B) + i >= Capacity
  BY <1>5, <1>6, <1>8, <1>9
<1>11. Len(pool'.free) + Cardinality(DOMAIN pool'.table) = l + t + 1 /\ iofaults' = i
  BY <1>7
<1> QED
  BY <1>2, <1>10, <1>11

\* Somebody else has loaded the page: the frame goes to the free list.
LEMMA JoinedKeeps ==
  ASSUME Calm, PoolInv, NEW c \in Clients, FinishFetch(c), call[c].page \in DOMAIN pool.table
  PROVE  PoolInv'
<1> USE DEF PoolInv
<1>1. call[c].at = "loading" /\ MayRun(Clients \ {c}) /\ Reserving(c) /\ pool \in PoolRecs
  BY DEF FinishFetch, Reserving, ShapeInv
<1>2. PICK p \in Pages : p = call[c].page /\ p \in DOMAIN pool.table
  BY <1>1 DEF CallsInv
<1>3. PICK f \in Frames : f = pool.table[p]
  BY <1>2, PoolIs
<1>4. PICK g \in Frames : /\ g = call[c].frame /\ pool.frames[g].page = NoPage
                          /\ \A i \in DOMAIN pool.free : pool.free[i] # g
                          /\ \A d \in Clients : Reserving(d) /\ call[d].frame = g => d = c
  BY <1>1 DEF CallsInv
<1> DEFINE new == [NoCall EXCEPT !.at = "holding", !.page = p, !.frame = f]
           longer == Append(pool.free, g)
           given == [pool EXCEPT !.free = longer]
<1>5. /\ call' = [call EXCEPT ![c] = new] /\ pool' = Pin(given, f)
      /\ UNCHANGED <<disk, ckpt, changes, iofaults>>
  <2>1. given = [pool EXCEPT !.free = Append(@, call[c].frame)]
    BY <1>1, <1>4 DEF PoolRecs
  <2> QED
    BY <1>2, <1>3, <2>1 DEF FinishFetch, Joined, Hold
<1>6. PICK n \in Nat : n = Len(pool.free) /\ DOMAIN pool.free = 1..n
  BY PoolIs
<1>7. /\ longer \in Seq(Frames) /\ Len(longer) = n + 1 /\ DOMAIN longer = 1..n + 1
      /\ longer[n + 1] = g /\ \A i \in 1..n : longer[i] = pool.free[i]
  BY <1>6, PoolIs
<1>8. new \in CallRecs /\ new.at = "holding" /\ new.page = p /\ new.frame = f /\ ~new.changed
  BY AtPage
<1> HIDE DEF new, longer
<1>9. /\ given \in PoolRecs /\ given.table = pool.table /\ given.free = longer
      /\ given.dirty = pool.dirty /\ given.frames = pool.frames
  BY <1>1, <1>7 DEF PoolRecs
<1> HIDE DEF given
<1>10. /\ pool' \in PoolRecs /\ pool'.table = pool.table /\ pool'.free = longer
       /\ pool'.dirty = pool.dirty
       /\ pool'.frames[f].page = pool.frames[f].page /\ pool'.frames[f].state = pool.frames[f].state
       /\ pool'.frames[f].data = pool.frames[f].data /\ pool'.frames[f].pin = pool.frames[f].pin + 1
       /\ \A h \in Frames : h # f => pool'.frames[h] = pool.frames[h]
  <2>1. PICK between \in PoolRecs : between = given
    BY <1>9
  <2>2. LET r == Pin(between, f)
        IN  /\ r \in PoolRecs /\ r.table = between.table /\ r.free = between.free
            /\ r.dirty = between.dirty
            /\ r.frames[f].page = between.frames[f].page
            /\ r.frames[f].state = between.frames[f].state
            /\ r.frames[f].data = between.frames[f].data
            /\ r.frames[f].pin = between.frames[f].pin + 1
            /\ \A h \in Frames : h # f => r.frames[h] = between.frames[h]
    BY PinIs
  <2> QED
    BY <1>5, <1>9, <2>1, <2>2
<1>11. call' \in [Clients -> CallRecs] /\ call'[c] = new /\ OnlyCall(c)
  BY <1>5, <1>8, CallSet
<1>12. ShapeInv'
  BY <1>5, <1>10, <1>11 DEF ShapeInv
<1>13. /\ \A q \in DOMAIN pool.table : pool.table[q] \in Frames
       /\ \A i \in 1..n : pool.free[i] \in Frames
       /\ \A h \in Frames : pool'.frames[h].page = pool.frames[h].page
  BY <1>6, <1>10, PoolIs
<1>14. \A i \in 1..n + 1 : i \in 1..n \/ i = n + 1
  BY <1>6
<1>15. PlaceInv'
  <2>1. \A i, j \in 1..n + 1 : longer[i] = longer[j] => i = j
    <3> SUFFICES ASSUME NEW i \in 1..n + 1, NEW j \in 1..n + 1, longer[i] = longer[j] PROVE i = j
      OBVIOUS
    <3>1. CASE i \in 1..n /\ j \in 1..n
      BY <1>6, <1>7, <3>1 DEF PlaceInv
    <3>2. CASE i \in 1..n /\ j = n + 1
      BY <1>4, <1>6, <1>7, <3>2
    <3>3. CASE i = n + 1 /\ j \in 1..n
      BY <1>4, <1>6, <1>7, <3>3
    <3> QED
      BY <1>14, <3>1, <3>2, <3>3
  <2>2. \A i \in 1..n + 1 : longer[i] \in Frames /\ pool.frames[longer[i]].page = NoPage
    BY <1>4, <1>6, <1>7, <1>13, <1>14 DEF PlaceInv
  <2> QED
    BY <1>7, <1>10, <1>13, <2>1, <2>2 DEF PlaceInv
<1>16. ~Reserving(c)' /\ ~call[c].changed
       /\ \A d \in Clients : d # c => (Reserving(d)' <=> Reserving(d))
  BY <1>1, <1>8, <1>11 DEF Reserving, CallsInv, OnlyCall
<1>17. CallsInv'
  <2>1. ASSUME NEW d \in Clients, Reserving(d)'
        PROVE  /\ call'[d].page \in Pages /\ call'[d].frame \in Frames
               /\ pool'.frames[call'[d].frame].page = NoPage
               /\ \A i \in DOMAIN pool'.free : pool'.free[i] # call'[d].frame
               /\ \A e \in Clients : Reserving(e)' /\ call'[e].frame = call'[d].frame => e = d
    <3>1. d # c /\ call'[d] = call[d] /\ Reserving(d)
      BY <1>11, <1>16, <2>1 DEF OnlyCall
    <3>2. \A e \in Clients : Reserving(e)' /\ call'[e].frame = call'[d].frame => e = d
      BY <1>11, <1>16, <3>1 DEF OnlyCall, CallsInv
    <3>3. call[d].frame # g /\ call[d].frame \in Frames /\ call[d].page \in Pages
      BY <1>4, <3>1 DEF CallsInv
    <3>4. \A i \in 1..n + 1 : longer[i] # call[d].frame
      BY <1>6, <1>7, <1>14, <3>1, <3>3 DEF CallsInv
    <3> QED
      BY <1>7, <1>10, <1>13, <3>1, <3>2, <3>3, <3>4 DEF CallsInv
  <2>2. ASSUME NEW d \in Clients, call'[d].at \in {"holding", "marking"}
        PROVE  call'[d].page \in DOMAIN pool'.table /\ pool'.table[call'[d].page] = call'[d].frame
    BY <1>2, <1>3, <1>8, <1>10, <1>11, <2>2 DEF CallsInv, OnlyCall
  <2>3. \A d \in Clients : call'[d].changed => call'[d].at \in {"holding", "marking"}
    BY <1>8, <1>11 DEF CallsInv, OnlyCall
  <2>4. ASSUME NEW d \in Clients, call'[d].at = "loading", call'[d].page \notin DOMAIN pool'.table
        PROVE  call'[d].data = disk'[call'[d].page]
    BY <1>5, <1>8, <1>10, <1>11, <2>4 DEF CallsInv, OnlyCall
  <2> QED
    BY <2>1, <2>2, <2>3, <2>4 DEF CallsInv
<1>18. QuietInv' /\ FlushInv'
  BY <1>1, <1>5, <1>11, QuietCall, FlushQuiet
<1>19. NoChangeLost' /\ ChangesTracked'
  <2>1. \A h \in Frames : pool'.frames[h].data = pool.frames[h].data
                          /\ pool'.frames[h].state = pool.frames[h].state
    BY <1>10
  <2> QED
    BY <1>5, <1>10, <1>11, <1>16, <2>1, SameFramesKeep
<1>20. PinInv'
  <2>1. \A h \in Frames : c \notin HeldBy(h) /\ (c \in HeldBy(h)' => h = f)
    BY <1>1, <1>8, <1>11 DEF HeldBy
  <2>2. \A h \in Frames : pool.frames[h].pin \in Nat
    BY PoolIs
  <2>3. \A h \in Frames : /\ pool'.frames[h].pin >= pool.frames[h].pin
                          /\ h = f => pool'.frames[h].pin >= pool.frames[h].pin + 1
    BY <1>10, <2>2
  <2> QED
    BY <1>11, <1>12, <2>1, <2>3, PinsMove
<1>21. RoomInv'
  <2>1. PICK t \in Nat : t = Cardinality(DOMAIN pool.table)
    BY CountsAre
  <2>2. Len(pool'.free) = n + 1 /\ Cardinality(DOMAIN pool'.table) = t
    BY <1>7, <1>10, <2>1
  <2>3. Len(pool'.free) + Cardinality(DOMAIN pool'.table)
          = Len(pool.free) + Cardinality(DOMAIN pool.table) + 1
    BY <1>6, <2>1, <2>2
  <2> QED
    BY <1>1, <1>5, <1>11, <1>12, <2>3, RoomGiven
<1> QED
  BY <1>12, <1>15, <1>17, <1>18, <1>19, <1>20, <1>21

\* The page comes into the frame reserved for it.
LEMMA LoadedKeeps ==
  ASSUME Calm, PoolInv, NEW c \in Clients, FinishFetch(c), call[c].page \notin DOMAIN pool.table
  PROVE  PoolInv'
<1> USE DEF PoolInv
<1>1. call[c].at = "loading" /\ MayRun(Clients \ {c}) /\ Reserving(c) /\ pool \in PoolRecs
  BY DEF FinishFetch, Reserving, ShapeInv
<1>2. PICK p \in Pages : p = call[c].page /\ p \notin DOMAIN pool.table /\ p # NoPage
  BY <1>1, FramesAre DEF CallsInv
<1>3. PICK g \in Frames : /\ g = call[c].frame /\ pool.frames[g].page = NoPage
                          /\ \A i \in DOMAIN pool.free : pool.free[i] # g
                          /\ \A d \in Clients : Reserving(d) /\ call[d].frame = g => d = c
  BY <1>1 DEF CallsInv
<1>4. PICK data \in Nat : data = call[c].data /\ data = disk[p] /\ data = changes[p]
  BY <1>1, <1>2, CallIs DEF CallsInv, NoChangeLost
<1> DEFINE new == [NoCall EXCEPT !.at = "holding", !.page = p, !.frame = g]
           now == [page |-> p, state |-> "Clean", pin |-> 1, ref |-> TRUE, data |-> data]
           table == [q \in DOMAIN pool.table \cup {p} |-> IF q = p THEN g ELSE pool.table[q]]
           set == SetFrame(pool, g, now)
<1>5. /\ call' = [call EXCEPT ![c] = new] /\ pool' = [set EXCEPT !.table = table]
      /\ UNCHANGED <<disk, ckpt, changes, iofaults>>
  BY <1>1, <1>2, <1>3, <1>4 DEF FinishFetch, Loaded, Hold, SetFrame, PoolRecs
<1>6. now \in Frame /\ now.page = p /\ now.pin = 1 /\ now.data = data
  BY <1>4 DEF Frame
<1>7. /\ DOMAIN table = DOMAIN pool.table \cup {p} /\ table[p] = g
      /\ \A q \in DOMAIN pool.table : table[q] = pool.table[q] /\ pool.table[q] \in Frames
  BY <1>2, PoolIs
<1>8. table \in Tables
  <2>1. DOMAIN pool.table \cup {p} \in SUBSET Pages
    BY PoolIs
  <2>2. table \in [DOMAIN pool.table \cup {p} -> Frames]
    BY PoolIs
  <2> HIDE DEF table
  <2> QED
    BY <2>1, <2>2, IsTable
<1>9. new \in CallRecs /\ new.at = "holding" /\ new.page = p /\ new.frame = g /\ ~new.changed
  BY AtPage
<1> HIDE DEF new, now, table
<1>10. /\ set \in PoolRecs /\ set.free = pool.free /\ set.dirty = pool.dirty
       /\ set.frames[g] = now /\ \A h \in Frames : h # g => set.frames[h] = pool.frames[h]
  BY <1>6, SetFrameIs DEF ShapeInv
<1> HIDE DEF set
<1>11. /\ pool' \in PoolRecs /\ pool'.table = table /\ pool'.free = pool.free
       /\ pool'.dirty = pool.dirty /\ pool'.frames[g] = now
       /\ \A h \in Frames : h # g => pool'.frames[h] = pool.frames[h]
  BY <1>5, <1>8, <1>10 DEF PoolRecs
<1>12. call' \in [Clients -> CallRecs] /\ call'[c] = new /\ OnlyCall(c)
  BY <1>5, <1>9, CallSet
<1>13. ShapeInv'
  BY <1>5, <1>11, <1>12 DEF ShapeInv
<1>14. /\ \A q \in DOMAIN pool.table : pool.table[q] # g /\ q # p
       /\ \A d \in Clients : call[d].at \in {"holding", "marking"} => call[d].frame # g
  <2>1. \A q \in DOMAIN pool.table : pool.table[q] # g /\ q # p
    BY <1>2, <1>3, PoolIs, FramesAre DEF PlaceInv
  <2> QED
    BY <2>1 DEF CallsInv
<1>15. PlaceInv'
  <2>1. \A q \in DOMAIN table : pool'.frames[table[q]].page = q
    BY <1>6, <1>7, <1>11, <1>14 DEF PlaceInv
  <2>2. ASSUME NEW f \in Frames, pool'.frames[f].page # NoPage
        PROVE  pool'.frames[f].page \in DOMAIN table /\ table[pool'.frames[f].page] = f
    BY <1>6, <1>7, <1>11, <2>2 DEF PlaceInv
  <2>3. \A i \in DOMAIN pool.free : pool.free[i] \in Frames
    BY PoolIs
  <2>4. \A i \in DOMAIN pool.free : pool'.frames[pool.free[i]].page = NoPage
    BY <1>3, <1>11, <2>3 DEF PlaceInv
  <2> QED
    BY <1>11, <2>1, <2>2, <2>4 DEF PlaceInv
<1>16. ~Reserving(c)' /\ ~call[c].changed
       /\ \A d \in Clients : d # c => (Reserving(d)' <=> Reserving(d))
  BY <1>1, <1>9, <1>12 DEF Reserving, CallsInv, OnlyCall
<1>17. CallsInv'
  <2>1. ASSUME NEW d \in Clients, Reserving(d)'
        PROVE  /\ call'[d].page \in Pages /\ call'[d].frame \in Frames
               /\ pool'.frames[call'[d].frame].page = NoPage
               /\ \A i \in DOMAIN pool'.free : pool'.free[i] # call'[d].frame
               /\ \A e \in Clients : Reserving(e)' /\ call'[e].frame = call'[d].frame => e = d
    <3>1. d # c /\ call'[d] = call[d] /\ Reserving(d)
      BY <1>12, <1>16, <2>1 DEF OnlyCall
    <3>2. \A e \in Clients : Reserving(e)' /\ call'[e].frame = call'[d].frame => e = d
      BY <1>12, <1>16, <3>1 DEF OnlyCall, CallsInv
    <3>3. call[d].frame # g /\ call[d].frame \in Frames /\ call[d].page \in Pages
      BY <1>3, <3>1 DEF CallsInv
    <3> QED
      BY <1>11, <3>1, <3>2, <3>3 DEF CallsInv
  <2>2. ASSUME NEW d \in Clients, call'[d].at \in {"holding", "marking"}
        PROVE  call'[d].page \in DOMAIN pool'.table /\ pool'.table[call'[d].page] = call'[d].frame
    <3>1. CASE d = c
      BY <1>7, <1>9, <1>11, <1>12, <3>1
    <3>2. CASE d # c
      <4>1. call'[d] = call[d] /\ call[d].page \in DOMAIN pool.table
            /\ pool.table[call[d].page] = call[d].frame
        BY <1>12, <2>2, <3>2 DEF OnlyCall, CallsInv
      <4> QED
        BY <1>7, <1>11, <4>1
    <3> QED
      BY <3>1, <3>2
  <2>3. \A d \in Clients : call'[d].changed => call'[d].at \in {"holding", "marking"}
    BY <1>9, <1>12 DEF CallsInv, OnlyCall
  <2>4. ASSUME NEW d \in Clients, call'[d].at = "loading", call'[d].page \notin DOMAIN pool'.table
        PROVE  call'[d].data = disk'[call'[d].page]
    BY <1>5, <1>7, <1>9, <1>11, <1>12, <2>4 DEF CallsInv, OnlyCall
  <2> QED
    BY <2>1, <2>2, <2>3, <2>4 DEF CallsInv
<1>18. QuietInv' /\ FlushInv'
  BY <1>1, <1>5, <1>12, QuietCall, FlushQuiet
<1>19. NoChangeLost'
  <2>1. ASSUME NEW q \in Pages, q \in DOMAIN table
        PROVE  changes'[q] = pool'.frames[table[q]].data
    BY <1>4, <1>5, <1>6, <1>7, <1>11, <1>14, <2>1 DEF NoChangeLost
  <2>2. ASSUME NEW q \in Pages, q \notin DOMAIN table
        PROVE  changes'[q] = disk'[q]
    BY <1>5, <1>7, <2>2 DEF NoChangeLost
  <2> QED
    BY <1>11, <2>1, <2>2 DEF NoChangeLost
<1>20. ChangesTracked'
  <2>1. ASSUME NEW q \in DOMAIN table, NEW f, f = table[q]
        PROVE  \/ pool'.frames[f].data = disk'[q]
               \/ f \in pool'.dirty /\ pool'.frames[f].state = "Dirty"
               \/ \E d \in Clients : call'[d].frame = f /\ call'[d].changed
    <3>1. CASE q = p
      BY <1>4, <1>5, <1>6, <1>7, <1>11, <2>1, <3>1
    <3>2. CASE q # p
      <4>1. q \in DOMAIN pool.table /\ f = pool.table[q] /\ f \in Frames /\ f # g
        BY <1>7, <1>14, <2>1, <3>2
      <4>2. \/ pool.frames[f].data = disk[q]
            \/ f \in pool.dirty /\ pool.frames[f].state = "Dirty"
            \/ \E d \in Clients : call[d].frame = f /\ call[d].changed
        BY <4>1 DEF ChangesTracked
      <4> QED
        BY <1>5, <1>11, <1>12, <1>16, <4>1, <4>2 DEF OnlyCall
    <3> QED
      BY <3>1, <3>2
  <2> QED
    BY <1>11, <2>1 DEF ChangesTracked
<1>21. PinInv'
  <2>1. ASSUME NEW f \in Frames PROVE pool'.frames[f].pin >= Cardinality(HeldBy(f)')
    <3>1. CASE f = g
      <4>1. HeldBy(f)' = {c}
        BY <1>9, <1>12, <1>14, <3>1 DEF HeldBy, OnlyCall
      <4>2. Cardinality({c}) = 1
        BY FS_Singleton
      <4>3. pool'.frames[f].pin = 1
        BY <1>6, <1>11, <3>1
      <4> QED
        BY <4>1, <4>2, <4>3
    <3>2. CASE f # g
      <4>1. HeldBy(f)' = HeldBy(f)
        BY <1>1, <1>9, <1>12, <3>2 DEF HeldBy, OnlyCall
      <4>2. pool'.frames[f].pin = pool.frames[f].pin
        BY <1>11, <3>2
      <4> QED
        BY <4>1, <4>2 DEF PinInv
    <3> QED
      BY <3>1, <3>2
  <2> QED
    BY <2>1 DEF PinInv
<1>22. RoomInv'
  <2>1. PICK T : T = DOMAIN pool.table
    OBVIOUS
  <2>2. IsFiniteSet(T) /\ Cardinality(T) \in Nat /\ Len(pool.free) \in Nat
    BY <2>1, CountsAre
  <2>3. Cardinality(T \cup {p}) = Cardinality(T) + 1
    BY <1>2, <2>1, <2>2, FS_AddElement
  <2>4. Len(pool'.free) = Len(pool.free) /\ DOMAIN pool'.table = T \cup {p}
    BY <1>7, <1>11, <2>1
  <2>5. Len(pool'.free) + Cardinality(DOMAIN pool'.table)
          = Len(pool.free) + Cardinality(DOMAIN pool.table) + 1
    BY <2>1, <2>2, <2>3, <2>4
  <2> QED
    BY <1>1, <1>5, <1>12, <1>13, <2>5, RoomGiven
<1> QED
  BY <1>13, <1>15, <1>17, <1>18, <1>19, <1>20, <1>21, <1>22

\* Both ways a fetch that missed may end.
LEMMA FinishFetchKeeps ==
  ASSUME Calm, PoolInv, NEW c \in Clients, FinishFetch(c) PROVE PoolInv'
  BY JoinedKeeps, LoadedKeeps

-----------------------------------------------------------------------------
(* A victim *)

\* With a frame for everybody the free list is never empty when a page is missed.
LEMMA NeverFull ==
  ASSUME Calm, PoolInv, NEW c \in Clients, NEW p \in Pages, Misses(c, p), pool.free = <<>>
  PROVE  ~Concurrent
<1> SUFFICES ASSUME Concurrent PROVE FALSE
  OBVIOUS
<1>1. PICK T : T = DOMAIN pool.table
  OBVIOUS
<1>2. PICK A : A = Reservers
  OBVIOUS
<1>3. T \subseteq Pages \ {p} /\ A \subseteq Clients \ {c}
  BY <1>1, <1>2, PoolIs DEF PoolInv, Misses, Asks, Reservers, Reserving
<1>4. IsFiniteSet(Pages) /\ IsFiniteSet(Clients)
  BY DEF Calm, PoolAssumption
<1>5. Cardinality(T) + 1 <= Cardinality(Pages)
  BY <1>3, <1>4, OneLess
<1>6. Cardinality(A) + 1 <= Cardinality(Clients)
  BY <1>3, <1>4, OneLess
<1>7. Cardinality(Pages) \in Nat /\ Cardinality(Clients) \in Nat
  BY <1>4, FS_CardinalityType
<1>8. Cardinality(T) \in Nat /\ Cardinality(A) \in Nat /\ Capacity \in Nat
  BY <1>1, <1>2, CountsAre DEF PoolInv
<1>9. PICK i \in Nat : i = iofaults /\ i <= MaxIoFaults /\ MaxIoFaults \in Nat
  BY DEF PoolInv, ShapeInv, Calm, PoolAssumption
<1>10. Len(pool.free) = 0
  OBVIOUS
<1>11. Cardinality(T) + Cardinality(A) + i >= Capacity
  BY <1>1, <1>2, <1>8, <1>9, <1>10 DEF PoolInv, RoomInv
<1>12. Cardinality(Pages) + Cardinality(Clients) + MaxIoFaults <= Capacity + 1
  BY DEF Calm, Room
<1> QED
  BY <1>5, <1>6, <1>7, <1>8, <1>9, <1>11, <1>12

\* The frame the clock stops at is nobody's.
LEMMA VictimIs ==
  ASSUME Calm, PoolInv, Stops # {}
  PROVE  LET f == AtHand(FirstStop)
         IN  f \in Frames /\ FirstStop \in Nat /\ HeldBy(f) = {}
<1>1. PICK k \in Stops : \A j \in Stops : k <= j
  <2>1. Stops \subseteq Nat
    BY FramesAre DEF Stops
  <2> QED
    BY <2>1, LeastNat
<1>2. FirstStop \in Stops
  BY <1>1 DEF FirstStop
<1>3. FirstStop \in Nat /\ pool.frames[AtHand(FirstStop)].pin = 0
  BY <1>2, FramesAre DEF Stops
<1>4. AtHand(FirstStop) \in Frames
  <2>1. pool.hand + FirstStop \in Nat /\ Capacity \in Nat \ {0}
    BY <1>3, FramesAre, PoolIs DEF PoolInv
  <2>2. (pool.hand + FirstStop) % Capacity \in 0..Capacity - 1
    BY <2>1
  <2> QED
    BY <2>2 DEF AtHand, Frames
<1>5. PICK f \in Frames : f = AtHand(FirstStop)
  BY <1>4
<1>6. Cardinality(HeldBy(f)) = 0
  <2>1. Cardinality(HeldBy(f)) \in Nat
    BY ReserversCount
  <2>2. 0 >= Cardinality(HeldBy(f))
    BY <1>3, <1>5 DEF PoolInv, PinInv
  <2> QED
    BY <2>1, <2>2
<1>7. HeldBy(f) = {}
  <2>1. IsFiniteSet(HeldBy(f))
    BY ReserversCount
  <2> QED
    BY <1>6, <2>1, FS_EmptySet
<1> QED
  BY <1>3, <1>5, <1>7

LEMMA EmptyFrameIs == EmptyFrame \in Frame /\ EmptyFrame.page = NoPage /\ EmptyFrame.pin = 0
  BY DEF EmptyFrame, Frame

LEMMA EvictKeeps ==
  ASSUME Calm, PoolInv, NEW c \in Clients, NEW p \in Pages, Evict(c, p) PROVE PoolInv'
<1> USE DEF PoolInv
<1>1. /\ ~Concurrent /\ call[c].at = "idle" /\ MayRun(Clients \ {c}) /\ p \notin DOMAIN pool.table
      /\ pool.free = <<>> /\ Stops # {} /\ UNCHANGED <<ckpt, changes, iofaults>>
  BY NeverFull DEF Evict, Misses, Asks
<1>2. PICK k \in Nat, f \in Frames : k = FirstStop + 1 /\ f = AtHand(FirstStop) /\ HeldBy(f) = {}
  <2>1. FirstStop \in Nat /\ AtHand(FirstStop) \in Frames /\ HeldBy(AtHand(FirstStop)) = {}
    BY <1>1, VictimIs
  <2>2. FirstStop + 1 \in Nat
    BY <2>1
  <2> QED
    BY <2>1, <2>2
<1>3. PICK turned \in PoolRecs :
        /\ turned = Turned(k) /\ turned.table = pool.table /\ turned.free = pool.free
        /\ turned.dirty = pool.dirty
        /\ \A g \in Frames :
             /\ turned.frames[g].page = pool.frames[g].page
             /\ turned.frames[g].state = pool.frames[g].state
             /\ turned.frames[g].data = pool.frames[g].data
             /\ turned.frames[g].pin = pool.frames[g].pin
  BY TurnedIs
<1>4. PICK old \in Pages \cup {NoPage} : old = pool.frames[f].page
  BY PoolIs
<1>5. PICK data \in Nat, was \in BOOLEAN :
        data = pool.frames[f].data /\ (was <=> pool.frames[f].state = "Dirty")
  BY PoolIs
<1> DEFINE new == [NoCall EXCEPT !.at = "reading", !.page = p, !.frame = f]
           table == [q \in DOMAIN pool.table \ {old} |-> pool.table[q]]
           dirty == IF was THEN pool.dirty \ {f} ELSE pool.dirty
           set == SetFrame(turned, f, EmptyFrame)
<1>6. /\ call' = [call EXCEPT ![c] = new]
      /\ pool' = [set EXCEPT !.table = table, !.dirty = dirty]
      /\ IF was THEN disk' = [disk EXCEPT ![old] = data] ELSE disk' = disk
  <2>1. /\ IF pool.frames[f].state = "Dirty" THEN WriteBack(f) ELSE UNCHANGED disk
        /\ pool' = [turned EXCEPT
                      !.frames[f] = EmptyFrame,
                      !.table = [q \in DOMAIN @ \ {old} |-> @[q]],
                      !.dirty = IF pool.frames[f].state = "Dirty" THEN @ \ {f} ELSE @]
        /\ Reserve(c, p, f)
    BY <1>2, <1>3, <1>4 DEF Evict
  <2>2. pool' = [set EXCEPT !.table = table, !.dirty = dirty]
    BY <1>3, <1>5, <2>1 DEF SetFrame, PoolRecs
  <2>3. IF was THEN disk' = [disk EXCEPT ![old] = data] ELSE disk' = disk
    BY <1>4, <1>5, <2>1 DEF WriteBack
  <2> QED
    BY <2>1, <2>2, <2>3 DEF Reserve
<1>7. /\ DOMAIN table = DOMAIN pool.table \ {old}
      /\ \A q \in DOMAIN table : table[q] = pool.table[q] /\ pool.table[q] \in Frames
  BY PoolIs
<1>8. table \in Tables
  <2>1. DOMAIN pool.table \ {old} \in SUBSET Pages
    BY PoolIs
  <2>2. table \in [DOMAIN pool.table \ {old} -> Frames]
    BY PoolIs
  <2> HIDE DEF table
  <2> QED
    BY <2>1, <2>2, IsTable
<1>9. new \in CallRecs /\ new.at = "reading" /\ new.page = p /\ new.frame = f /\ ~new.changed
  BY AtPage
<1>10. dirty \in SUBSET Frames /\ dirty \subseteq pool.dirty
       /\ \A g \in Frames : g # f => (g \in dirty <=> g \in pool.dirty)
  BY PoolIs
<1> HIDE DEF new, table, dirty
<1>11. /\ set \in PoolRecs /\ set.free = pool.free /\ set.frames[f] = EmptyFrame
       /\ \A h \in Frames : h # f => set.frames[h] = turned.frames[h]
  BY <1>3, SetFrameIs, EmptyFrameIs
<1> HIDE DEF set
<1>12. /\ pool' \in PoolRecs /\ pool'.table = table /\ pool'.free = pool.free
       /\ pool'.dirty = dirty /\ pool'.frames[f] = EmptyFrame
       /\ \A h \in Frames : h # f => /\ pool'.frames[h].page = pool.frames[h].page
                                     /\ pool'.frames[h].state = pool.frames[h].state
                                     /\ pool'.frames[h].data = pool.frames[h].data
                                     /\ pool'.frames[h].pin = pool.frames[h].pin
  <2>1. /\ pool' \in PoolRecs /\ pool'.table = table /\ pool'.free = set.free
        /\ pool'.dirty = dirty /\ pool'.frames = set.frames
    BY <1>6, <1>8, <1>10, <1>11 DEF PoolRecs
  <2> QED
    BY <1>3, <1>11, <2>1
<1>13. call' \in [Clients -> CallRecs] /\ call'[c] = new /\ OnlyCall(c)
  BY <1>6, <1>9, CallSet
<1>14. /\ disk' \in [Pages -> Nat]
       /\ \A q \in Pages : q # old => disk'[q] = disk[q]
       /\ was /\ old \in Pages => disk'[old] = data
       /\ ~was => disk' = disk
  BY <1>6 DEF ShapeInv
<1>15. ShapeInv'
  BY <1>1, <1>12, <1>13, <1>14 DEF ShapeInv
<1>16. /\ \A q \in DOMAIN table : q \in DOMAIN pool.table /\ q # old /\ pool.table[q] # f
       /\ \A q \in DOMAIN pool.table : pool.table[q] = f => q = old
       /\ old # NoPage => old \in DOMAIN pool.table /\ pool.table[old] = f
  BY <1>4, <1>7 DEF PlaceInv
<1>17. \A d \in Clients : d # c => call[d].at \in {"idle", "holding", "refused"}
  BY <1>1 DEF MayRun, Between
<1>18. /\ \A d \in Clients : ~Reserving(d) /\ (Reserving(d)' => d = c) /\ call[d].at # "marking"
       /\ \A d \in Clients : call[d].at = "holding" => call[d].frame # f
       /\ \A d \in Clients : call[d].changed => call[d].at = "holding"
  <2>1. \A d \in Clients : ~Reserving(d) /\ call[d].at # "marking"
    BY <1>1, <1>17 DEF Reserving
  <2>2. \A d \in Clients : Reserving(d)' => d = c
    BY <1>13, <2>1 DEF Reserving, OnlyCall
  <2>3. \A d \in Clients : call[d].at = "holding" => call[d].frame # f
    BY <1>2 DEF HeldBy
  <2> QED
    BY <2>1, <2>2, <2>3 DEF CallsInv
<1>19. PlaceInv'
  <2>1. \A q \in DOMAIN table : pool'.frames[table[q]].page = q
    BY <1>7, <1>12, <1>16 DEF PlaceInv
  <2>2. ASSUME NEW g \in Frames, pool'.frames[g].page # NoPage
        PROVE  pool'.frames[g].page \in DOMAIN table /\ table[pool'.frames[g].page] = g
    <3>1. g # f
      BY <1>12, <2>2, EmptyFrameIs
    <3>2. PICK q : q = pool.frames[g].page
      OBVIOUS
    <3>3. q \in DOMAIN pool.table /\ pool.table[q] = g /\ q # old
      BY <1>12, <1>16, <2>2, <3>1, <3>2 DEF PlaceInv
    <3> QED
      BY <1>7, <1>12, <3>1, <3>2, <3>3
  <2>3. DOMAIN pool'.free = {}
    BY <1>1, <1>12
  <2> QED
    BY <1>12, <2>1, <2>2, <2>3 DEF PlaceInv
<1>20. CallsInv'
  <2>1. ASSUME NEW d \in Clients, Reserving(d)'
        PROVE  /\ call'[d].page \in Pages /\ call'[d].frame \in Frames
               /\ pool'.frames[call'[d].frame].page = NoPage
               /\ \A i \in DOMAIN pool'.free : pool'.free[i] # call'[d].frame
               /\ \A e \in Clients : Reserving(e)' /\ call'[e].frame = call'[d].frame => e = d
    BY <1>1, <1>9, <1>12, <1>13, <1>18, <2>1, EmptyFrameIs
  <2>2. ASSUME NEW d \in Clients, call'[d].at \in {"holding", "marking"}
        PROVE  call'[d].page \in DOMAIN pool'.table /\ pool'.table[call'[d].page] = call'[d].frame
    <3>1. d # c /\ call'[d] = call[d] /\ call[d].at = "holding"
      BY <1>9, <1>13, <1>18, <2>2 DEF OnlyCall
    <3>2. call[d].page \in DOMAIN pool.table /\ pool.table[call[d].page] = call[d].frame
          /\ call[d].frame # f
      BY <1>18, <3>1 DEF CallsInv
    <3>3. call[d].page # old
      BY <1>4, <1>16, <3>2, FramesAre, PoolIs
    <3> QED
      BY <1>7, <1>12, <3>1, <3>2, <3>3
  <2>3. \A d \in Clients : call'[d].changed => call'[d].at \in {"holding", "marking"}
    BY <1>9, <1>13 DEF CallsInv, OnlyCall
  <2>4. \A d \in Clients : call'[d].at # "loading"
    BY <1>9, <1>13, <1>18 DEF OnlyCall, Reserving
  <2> QED
    BY <2>1, <2>2, <2>3, <2>4 DEF CallsInv
<1>21. QuietInv' /\ FlushInv' /\ RoomInv'
  BY <1>1, <1>13, QuietCall, FlushQuiet DEF RoomInv
<1>22. old \in Pages => disk'[old] = changes[old]
  <2> SUFFICES ASSUME old \in Pages PROVE disk'[old] = changes[old]
    OBVIOUS
  <2>1. old \in DOMAIN pool.table /\ pool.table[old] = f /\ data = changes[old]
    BY <1>5, <1>16, FramesAre DEF NoChangeLost
  <2>2. CASE was
    BY <1>14, <2>1, <2>2
  <2>3. CASE ~was
    <3>1. \A d \in Clients : ~(call[d].frame = f /\ call[d].changed)
      BY <1>18
    <3>2. data = disk[old]
      BY <1>5, <2>1, <2>3, <3>1 DEF ChangesTracked
    <3> QED
      BY <1>14, <2>1, <2>3, <3>2
  <2> QED
    BY <2>2, <2>3
<1>23. NoChangeLost'
  <2>1. ASSUME NEW q \in Pages, q \in DOMAIN table
        PROVE  changes'[q] = pool'.frames[table[q]].data
    BY <1>1, <1>7, <1>12, <1>16, <2>1 DEF NoChangeLost
  <2>2. ASSUME NEW q \in Pages, q \notin DOMAIN table
        PROVE  changes'[q] = disk'[q]
    BY <1>1, <1>7, <1>14, <1>22, <2>2 DEF NoChangeLost
  <2> QED
    BY <1>12, <2>1, <2>2 DEF NoChangeLost
<1>24. ChangesTracked'
  <2>1. ASSUME NEW q \in DOMAIN table, NEW g, g = table[q]
        PROVE  \/ pool'.frames[g].data = disk'[q]
               \/ g \in pool'.dirty /\ pool'.frames[g].state = "Dirty"
               \/ \E d \in Clients : call'[d].frame = g /\ call'[d].changed
    <3>1. /\ q \in DOMAIN pool.table /\ g = pool.table[q] /\ g \in Frames /\ g # f /\ q # old
          /\ q \in Pages
      BY <1>7, <1>16, <2>1, PoolIs
    <3>2. \/ pool.frames[g].data = disk[q]
          \/ g \in pool.dirty /\ pool.frames[g].state = "Dirty"
          \/ \E d \in Clients : call[d].frame = g /\ call[d].changed
      BY <3>1 DEF ChangesTracked
    <3>3. \A d \in Clients : call[d].changed => d # c
      BY <1>1, <1>18
    <3> QED
      BY <1>10, <1>12, <1>13, <1>14, <3>1, <3>2, <3>3 DEF OnlyCall
  <2> QED
    BY <1>12, <2>1 DEF ChangesTracked
<1>25. PinInv'
  <2>1. ASSUME NEW g \in Frames PROVE pool'.frames[g].pin >= Cardinality(HeldBy(g)')
    <3>1. HeldBy(g)' = HeldBy(g)
      BY <1>1, <1>9, <1>13 DEF HeldBy, OnlyCall
    <3>2. CASE g = f
      <4>1. HeldBy(g)' = {}
        BY <1>2, <3>1, <3>2
      <4>2. Cardinality(HeldBy(g)') = 0
        BY <4>1, FS_EmptySet
      <4>3. pool'.frames[g].pin = 0
        BY <1>12, <3>2, EmptyFrameIs
      <4> QED
        BY <4>2, <4>3
    <3>3. CASE g # f
      BY <1>12, <3>1, <3>3 DEF PinInv
    <3> QED
      BY <3>2, <3>3
  <2> QED
    BY <2>1 DEF PinInv
<1> QED
  BY <1>15, <1>19, <1>20, <1>21, <1>23, <1>24, <1>25

-----------------------------------------------------------------------------
(* A checkpoint: there is one only where calls run one at a time *)

LEMMA FlushWriteKeeps ==
  ASSUME Calm, PoolInv, NEW f \in Frames, FlushWrite(f) PROVE PoolInv'
<1> USE DEF PoolInv
<1>1. /\ ckpt.on /\ ckpt.writing = NoFrame /\ f \in ckpt.todo /\ ckpt \in FlushRecs
      /\ UNCHANGED <<pool, call, changes, iofaults>>
  BY DEF FlushWrite, ShapeInv
<1>2. ~Concurrent /\ Checkpoints /\ \A c \in Clients : Between(c)
  BY <1>1 DEF QuietInv, Calm, PoolAssumption
<1>3. /\ ckpt' \in FlushRecs /\ ckpt'.on /\ ckpt'.writing \in {f, NoFrame}
      /\ pool.frames[f].state # "Dirty" => ckpt'.writing = NoFrame
  <2>1. f \in 0..Capacity /\ NoFrame \in 0..Capacity
    BY FramesAre
  <2> QED
    BY <1>1, <2>1 DEF FlushWrite, Skip, FlushRecs
<1>4. PICK old \in Pages \cup {NoPage} : old = pool.frames[f].page
  BY PoolIs
<1>5. PICK data \in Nat : data = pool.frames[f].data
  BY PoolIs
<1>6. \/ disk' = [disk EXCEPT ![old] = data]
      \/ disk' = disk /\ ckpt'.writing = NoFrame
  BY <1>1, <1>3, <1>4, <1>5 DEF FlushWrite, WriteBack
<1>7. /\ disk' \in [Pages -> Nat] /\ \A q \in Pages : q # old => disk'[q] = disk[q]
      /\ old \in Pages => disk'[old] \in {disk[old], data}
      /\ ckpt'.writing # NoFrame /\ old \in Pages => disk'[old] = data
  BY <1>6 DEF ShapeInv
<1>8. ShapeInv'
  BY <1>1, <1>3, <1>7 DEF ShapeInv
<1>9. PlaceInv' /\ PinInv' /\ RoomInv'
  BY <1>1, <1>2 DEF PlaceInv, PinInv, RoomInv, HeldBy
<1>10. CallsInv'
  <2>1. \A c \in Clients : call[c].at # "loading"
    BY <1>2 DEF Between
  <2>2. \A c \in Clients : Reserving(c)' <=> Reserving(c)
    BY <1>1 DEF Reserving
  <2> QED
    BY <1>1, <2>1, <2>2 DEF CallsInv
<1>11. QuietInv'
  BY <1>1, <1>2, <1>3 DEF QuietInv, Between
<1>12. FlushInv'
  <2>1. old # NoPage => old \in Pages
    BY <1>4
  <2> QED
    BY <1>1, <1>3, <1>4, <1>5, <1>7, <2>1 DEF FlushInv
<1>13. /\ old \in Pages => old \in DOMAIN pool.table
       /\ \A q \in DOMAIN pool.table : q = old => pool.table[q] = f
  BY <1>4, FramesAre, PoolIs DEF PlaceInv
<1>14. NoChangeLost'
  BY <1>1, <1>7, <1>13 DEF NoChangeLost
<1>15. ChangesTracked'
  <2>1. ASSUME NEW q \in DOMAIN pool.table, NEW g, g = pool.table[q]
        PROVE  \/ pool.frames[g].data = disk'[q]
               \/ g \in pool.dirty /\ pool.frames[g].state = "Dirty"
               \/ \E d \in Clients : call[d].frame = g /\ call[d].changed
    <3>1. q \in Pages
      BY PoolIs
    <3>2. \/ pool.frames[g].data = disk[q]
          \/ g \in pool.dirty /\ pool.frames[g].state = "Dirty"
          \/ \E d \in Clients : call[d].frame = g /\ call[d].changed
      BY <2>1 DEF ChangesTracked
    <3>3. CASE q = old
      BY <1>5, <1>7, <1>13, <2>1, <3>1, <3>2, <3>3
    <3>4. CASE q # old
      BY <1>7, <3>1, <3>2, <3>4
    <3> QED
      BY <3>3, <3>4
  <2> QED
    BY <1>1, <2>1 DEF ChangesTracked
<1> QED
  BY <1>8, <1>9, <1>10, <1>11, <1>12, <1>14, <1>15

LEMMA FlushCleanKeeps ==
  ASSUME Calm, PoolInv, NEW f \in Frames, FlushClean(f) PROVE PoolInv'
<1> USE DEF PoolInv
<1>1. /\ ckpt.on /\ ckpt.writing = f /\ ckpt \in FlushRecs /\ pool \in PoolRecs
      /\ UNCHANGED <<disk, call, changes, iofaults>>
  BY DEF FlushClean, ShapeInv
<1>2. ~Concurrent /\ Checkpoints /\ \A c \in Clients : Between(c)
  BY <1>1 DEF QuietInv, Calm, PoolAssumption
<1>3. ckpt' \in FlushRecs /\ ckpt'.on /\ ckpt'.writing = NoFrame
  BY <1>1, FramesAre DEF FlushClean, Skip, FlushRecs
<1>4. PICK was \in Frame : was = pool.frames[f]
  BY PoolIs
<1> DEFINE now == [was EXCEPT !.state = "Clean"]
           set == SetFrame(pool, f, now)
<1>5. pool' = [set EXCEPT !.dirty = pool.dirty \ {f}]
  BY <1>1, <1>4 DEF FlushClean, SetFrame, PoolRecs
<1>6. now \in Frame /\ now.page = was.page /\ now.pin = was.pin /\ now.data = was.data
  BY DEF Frame
<1> HIDE DEF now
<1>7. /\ set \in PoolRecs /\ set.table = pool.table /\ set.free = pool.free
      /\ set.frames[f] = now
      /\ \A g \in Frames : g # f => set.frames[g] = pool.frames[g]
  BY <1>6, SetFrameIs DEF ShapeInv
<1> HIDE DEF set
<1>8. /\ pool' \in PoolRecs /\ pool'.table = pool.table /\ pool'.free = pool.free
      /\ pool'.dirty = pool.dirty \ {f} /\ pool'.frames[f] = now
      /\ \A g \in Frames : g # f => pool'.frames[g] = pool.frames[g]
  <2>1. pool.dirty \ {f} \in SUBSET Frames
    BY PoolIs
  <2> QED
    BY <1>5, <1>7, <2>1 DEF PoolRecs
<1>9. /\ \A g \in Frames : /\ pool'.frames[g].page = pool.frames[g].page
                           /\ pool'.frames[g].pin = pool.frames[g].pin
                           /\ pool'.frames[g].data = pool.frames[g].data
      /\ \A q \in DOMAIN pool.table : pool.table[q] \in Frames /\ q \in Pages
  BY <1>4, <1>6, <1>8, PoolIs
<1>10. ShapeInv'
  BY <1>1, <1>3, <1>8 DEF ShapeInv
<1>11. SamePlaces
  BY <1>8, <1>9 DEF SamePlaces
<1>12. PlaceInv' /\ RoomInv'
  BY <1>2, <1>11, PlacesKept DEF RoomInv
<1>13. PinInv'
  <2>1. \A g \in Frames : HeldBy(g)' = HeldBy(g)
    BY <1>1 DEF HeldBy
  <2> QED
    BY <1>9, <2>1 DEF PinInv
<1>14. CallsInv'
  <2>1. \A c \in Clients : call[c].at \notin {"loading", "reading"} /\ ~Reserving(c)'
    BY <1>1, <1>2 DEF Between, Reserving
  <2> QED
    BY <1>1, <1>8, <2>1 DEF CallsInv
<1>15. QuietInv' /\ FlushInv'
  BY <1>1, <1>2, <1>3 DEF QuietInv, Between, FlushInv
<1>16. NoChangeLost'
  BY <1>1, <1>8, <1>9 DEF NoChangeLost
<1>17. ChangesTracked'
  <2>1. ASSUME NEW q \in DOMAIN pool.table, NEW g, g = pool.table[q]
        PROVE  \/ pool'.frames[g].data = disk[q]
               \/ g \in pool'.dirty /\ pool'.frames[g].state = "Dirty"
               \/ \E d \in Clients : call[d].frame = g /\ call[d].changed
    <3>1. g \in Frames /\ q \in Pages /\ q # NoPage /\ pool.frames[g].page = q
      BY <1>9, <2>1, FramesAre DEF PlaceInv
    <3>2. \/ pool.frames[g].data = disk[q]
          \/ g \in pool.dirty /\ pool.frames[g].state = "Dirty"
          \/ \E d \in Clients : call[d].frame = g /\ call[d].changed
      BY <2>1 DEF ChangesTracked
    <3>3. CASE g = f
      <4>1. f # NoFrame
        BY FramesAre
      <4>2. pool.frames[f].data = disk[q]
        BY <1>1, <3>1, <3>3, <4>1 DEF FlushInv
      <4> QED
        BY <1>9, <3>1, <3>3, <4>2
    <3>4. CASE g # f
      BY <1>8, <3>1, <3>2, <3>4
    <3> QED
      BY <3>3, <3>4
  <2> QED
    BY <1>1, <1>8, <2>1 DEF ChangesTracked
<1> QED
  BY <1>10, <1>12, <1>13, <1>14, <1>15, <1>16, <1>17

\* A checkpoint that begins, ends or gives up touches nothing else.
LEMMA FlushKeeps ==
  ASSUME Calm, PoolInv, FlushStart \/ FlushFails \/ FlushDone PROVE PoolInv'
<1> USE DEF PoolInv
<1>1. ~Concurrent /\ Checkpoints /\ \A c \in Clients : Between(c)
  <2>1. CASE FlushStart
    BY <2>1 DEF FlushStart, Calm, PoolAssumption, MayRun
  <2>2. CASE ckpt.on
    BY <2>2 DEF QuietInv, Calm, PoolAssumption
  <2> QED
    BY <2>1, <2>2 DEF FlushFails, FlushDone
<1>2. UNCHANGED <<pool, disk, call, changes>>
  BY DEF FlushStart, FlushFails, FlushDone
<1>3. ckpt' \in FlushRecs /\ ckpt'.writing = NoFrame
  <2>1. pool.dirty \in SUBSET Frames /\ NoFrame \in 0..Capacity
    BY PoolIs, FramesAre
  <2>2. NoFlush \in FlushRecs /\ NoFlush.writing = NoFrame
    BY <2>1 DEF NoFlush, FlushRecs
  <2>3. CASE FlushStart
    BY <2>1, <2>2, <2>3 DEF FlushStart, FlushRecs
  <2>4. CASE FlushFails \/ FlushDone
    BY <2>2, <2>4 DEF FlushFails, FlushDone
  <2> QED
    BY <2>3, <2>4
<1>4. iofaults' \in 0..MaxIoFaults
  BY FaultIs DEF FlushStart, FlushFails, FlushDone, ShapeInv
<1>5. ShapeInv'
  BY <1>2, <1>3, <1>4 DEF ShapeInv
<1>6. PlaceInv' /\ PinInv' /\ RoomInv' /\ NoChangeLost' /\ ChangesTracked'
  BY <1>1, <1>2 DEF PlaceInv, PinInv, RoomInv, HeldBy, NoChangeLost, ChangesTracked
<1>7. CallsInv'
  BY <1>2 DEF CallsInv, Reserving
<1>8. QuietInv' /\ FlushInv'
  BY <1>1, <1>2, <1>3 DEF QuietInv, Between, FlushInv
<1> QED
  BY <1>5, <1>6, <1>7, <1>8

-----------------------------------------------------------------------------
(* Every step, and every behaviour *)

LEMMA StutterKeeps ==
  ASSUME PoolInv, UNCHANGED poolvars PROVE PoolInv'
<1> USE DEF PoolInv, poolvars
<1>1. ShapeInv' /\ PlaceInv' /\ FlushInv'
  BY DEF ShapeInv, PlaceInv, FlushInv
<1>2. CallsInv' /\ PinInv' /\ QuietInv'
  BY DEF CallsInv, Reserving, PinInv, HeldBy, QuietInv, Between
<1>3. RoomInv'
  BY DEF RoomInv, Reservers, Reserving
<1>4. NoChangeLost' /\ ChangesTracked'
  BY DEF NoChangeLost, ChangesTracked
<1> QED
  BY <1>1, <1>2, <1>3, <1>4

\* What one step of a client does.
LEMMA ClientKeeps ==
  ASSUME Calm, PoolInv, NEW c \in Clients,
         \/ \E p \in Pages :
              FetchHit(c, p) \/ TakeFree(c, p) \/ Evict(c, p) \/ EvictFails(c, p) \/ Refuse(c, p)
         \/ GiveUp(c) \/ ReadPage(c) \/ ReadFails(c) \/ FinishFetch(c)
         \/ Change(c) \/ Unpin(c) \/ MarkDirty(c) \/ LeavePinned(c)
  PROVE  PoolInv'
<1>1. ASSUME NEW p \in Pages, EvictFails(c, p) PROVE PoolInv'
  <2>1. PICK k \in Nat : k = FirstStop + 1
    <3>1. FirstStop \in Nat
      BY <1>1, VictimIs DEF EvictFails
    <3>2. FirstStop + 1 \in Nat
      BY <3>1
    <3> QED
      BY <3>2
  <2>2. /\ Misses(c, p) /\ Fault /\ pool' = Turned(k) /\ call' = call
        /\ UNCHANGED <<disk, ckpt, changes>>
    BY <1>1, <2>1 DEF EvictFails
  <2> QED
    BY <2>2, FaultIs, TurnKeeps DEF PoolInv
<1>2. ASSUME NEW p \in Pages, Refuse(c, p) PROVE PoolInv'
  <2>1. /\ Misses(c, p) /\ pool' = Turned(Capacity) /\ call' = [call EXCEPT ![c].at = "refused"]
        /\ UNCHANGED <<disk, ckpt, changes, iofaults>>
    BY <1>2 DEF Refuse
  <2>2. Capacity \in Nat /\ iofaults' \in 0..MaxIoFaults /\ iofaults' >= iofaults
    BY <2>1, FramesAre DEF PoolInv, ShapeInv
  <2> QED
    BY <2>1, <2>2, TurnKeeps
<1> QED
  BY <1>1, <1>2, FetchHitKeeps, TakeFreeKeeps, EvictKeeps, GiveUpKeeps, ReadPageKeeps,
     ReadFailsKeeps, FinishFetchKeeps, ChangeKeeps, UnpinKeeps, MarkDirtyKeeps, LeavePinnedKeeps

LEMMA PoolStep ==
  ASSUME Calm, PoolInv, [PoolNext]_poolvars PROVE PoolInv'
<1>1. CASE UNCHANGED poolvars
  BY <1>1, StutterKeeps
<1>2. ASSUME NEW f \in Frames, FlushWrite(f) \/ FlushClean(f) PROVE PoolInv'
  BY <1>2, FlushWriteKeeps, FlushCleanKeeps
<1>3. CASE FlushStart \/ FlushFails \/ FlushDone
  BY <1>3, FlushKeeps
<1>4. ASSUME NEW c \in Clients,
             \/ \E p \in Pages :
                  FetchHit(c, p) \/ TakeFree(c, p) \/ Evict(c, p) \/ EvictFails(c, p)
                  \/ Refuse(c, p)
             \/ GiveUp(c) \/ ReadPage(c) \/ ReadFails(c) \/ FinishFetch(c)
             \/ Change(c) \/ Unpin(c) \/ MarkDirty(c) \/ LeavePinned(c)
      PROVE PoolInv'
  BY <1>4, ClientKeeps
<1> QED
  BY <1>1, <1>2, <1>3, <1>4 DEF PoolNext

LEMMA PoolStarts ==
  ASSUME Calm, PoolInit PROVE PoolInv
<1> DEFINE free == [i \in 1..Capacity |-> i - 1]
           frames == [f \in Frames |-> EmptyFrame]
           table == [p \in {} |-> NoFrame]
<1>1. /\ pool = [frames |-> frames, table |-> table, free |-> free, hand |-> 0, dirty |-> {}]
      /\ disk = [p \in Pages |-> 0] /\ call = [c \in Clients |-> NoCall] /\ ckpt = NoFlush
      /\ changes = [p \in Pages |-> 0] /\ iofaults = 0
  BY DEF PoolInit
<1>2. /\ Capacity \in Nat \ {0} /\ 0 \in Frames /\ Frames = 0..Capacity - 1
      /\ NoFrame \in 0..Capacity
  BY FramesAre
<1>3. /\ free \in Seq(Frames) /\ Len(free) = Capacity /\ DOMAIN free = 1..Capacity
      /\ \A i \in 1..Capacity : free[i] = i - 1 /\ free[i] \in Frames
  <2>1. \A i \in 1..Capacity : i - 1 \in Frames
    BY <1>2
  <2>2. free \in [1..Capacity -> Frames]
    BY <2>1
  <2>3. Capacity \in Nat
    BY <1>2
  <2> QED
    BY <2>1, <2>2, <2>3
<1>4. frames \in [Frames -> Frame] /\ \A f \in Frames : frames[f] = EmptyFrame
  BY EmptyFrameIs
<1>5. table \in Tables /\ DOMAIN table = {}
  <2>1. table \in [{} -> Frames] /\ {} \in SUBSET Pages
    OBVIOUS
  <2> HIDE DEF table
  <2> QED
    BY <2>1, IsTable
<1> HIDE DEF free, frames, table
<1>6. /\ pool \in PoolRecs /\ pool.frames = frames /\ pool.table = table /\ pool.free = free
      /\ pool.dirty = {}
  BY <1>1, <1>2, <1>3, <1>4, <1>5 DEF PoolRecs
<1>7. NoFlush \in FlushRecs /\ ~NoFlush.on /\ NoFlush.writing = NoFrame
  BY <1>2 DEF NoFlush, FlushRecs
<1>8. \A c \in Clients : call[c] = NoCall /\ call[c].at = "idle" /\ ~call[c].changed
  BY <1>1, NoCallIs
<1>9. ShapeInv
  <2>1. call \in [Clients -> CallRecs]
    BY <1>1, NoCallIs
  <2>2. iofaults \in 0..MaxIoFaults
    BY <1>1 DEF Calm, PoolAssumption
  <2>3. disk \in [Pages -> Nat] /\ changes \in [Pages -> Nat]
    BY <1>1
  <2> QED
    BY <1>1, <1>6, <1>7, <2>1, <2>2, <2>3 DEF ShapeInv
<1>10. PlaceInv
  <2>1. \A i, j \in 1..Capacity : free[i] = free[j] => i = j
    BY <1>2, <1>3
  <2> QED
    BY <1>3, <1>4, <1>5, <1>6, <2>1, EmptyFrameIs DEF PlaceInv
<1>11. CallsInv
  BY <1>8 DEF CallsInv, Reserving
<1>12. PinInv
  <2>1. \A f \in Frames : HeldBy(f) = {}
    BY <1>8 DEF HeldBy
  <2>2. \A f \in Frames : Cardinality(HeldBy(f)) = 0
    BY <2>1, FS_EmptySet
  <2> QED
    BY <1>4, <1>6, <2>2, EmptyFrameIs DEF PinInv
<1>13. FlushInv /\ QuietInv
  BY <1>1, <1>7, <1>8 DEF FlushInv, QuietInv, Between
<1>14. RoomInv
  <2>1. Cardinality(DOMAIN pool.table) \in Nat /\ Cardinality(Reservers) \in Nat
    BY <1>9, CountsAre
  <2>2. Len(pool.free) = Capacity /\ Capacity \in Nat
    BY <1>2, <1>3, <1>6
  <2> QED
    BY <1>1, <2>1, <2>2 DEF RoomInv
<1>15. NoChangeLost /\ ChangesTracked
  BY <1>1, <1>5, <1>6 DEF NoChangeLost, ChangesTracked
<1> QED
  BY <1>9, <1>10, <1>11, <1>12, <1>13, <1>14, <1>15 DEF PoolInv

LEMMA PlacesArePages ==
  ASSUME Calm, PoolInv PROVE FrameIsOnePage
<1> USE DEF PoolInv
<1>1. \A p \in DOMAIN pool.table : p \in Pages /\ p # NoPage /\ pool.frames[pool.table[p]].page = p
                                   /\ pool.table[p] \in Frames
  BY PoolIs, FramesAre DEF PlaceInv
<1>2. ASSUME NEW p \in DOMAIN pool.table
      PROVE  pool.table[p] \notin Reserved \cup {pool.free[i] : i \in DOMAIN pool.free}
  <2>1. ASSUME NEW c \in Clients, call[c].at \in {"reading", "loading"}
        PROVE  pool.table[p] # call[c].frame
    BY <1>1, <2>1 DEF CallsInv, Reserving
  <2>2. ASSUME NEW i \in DOMAIN pool.free PROVE pool.table[p] # pool.free[i]
    BY <1>1 DEF PlaceInv
  <2> QED
    BY <2>1, <2>2 DEF Reserved
<1>3. ASSUME NEW c \in Clients, call[c].at = "holding"
      PROVE  /\ call[c].page \in DOMAIN pool.table /\ pool.table[call[c].page] = call[c].frame
             /\ pool.frames[call[c].frame].pin >= Cardinality(HeldBy(call[c].frame))
  <2>1. call[c].page \in DOMAIN pool.table /\ pool.table[call[c].page] = call[c].frame
    BY <1>3 DEF CallsInv
  <2> QED
    BY <1>1, <2>1 DEF PinInv
<1> QED
  BY <1>2, <1>3 DEF FrameIsOnePage, PlaceInv

\* However calls interleave where there is room for all, and however calls, failures
\* and checkpoints follow each other where there is not: no frame serves two pages, no
\* change is lost, and what differs from the disk is known to be dirty
\* (fetch_page, unpin_page, get_free_frame, flush_all_dirty_pages of pool.vais).
THEOREM PoolKept ==
  ASSUME Calm PROVE PoolSpec => [](FrameIsOnePage /\ NoChangeLost /\ ChangesTracked)
<1>1. PoolInit => PoolInv
  BY PoolStarts
<1>2. PoolInv /\ [PoolNext]_poolvars => PoolInv'
  BY PoolStep
<1>3. PoolInv => FrameIsOnePage /\ NoChangeLost /\ ChangesTracked
  BY PlacesArePages DEF PoolInv
<1> QED
  BY <1>1, <1>2, <1>3, PTL DEF PoolSpec
=============================================================================
