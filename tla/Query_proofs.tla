---------------------------- MODULE Query_proofs ----------------------------
(* The cache of the query package keeps its records with its subscribers and
   takes back what a failed mutation wrote unless a later failure put it back;
   the client keeps the entry of a live query and its data in order; the pages
   of an infinite query stay consecutive; a mutation object shows the call that
   settled last. *)
EXTENDS QueryClient, QueryCache, InfiniteQuery, Mutation, FiniteSetTheorems, TLAPS

-----------------------------------------------------------------------------
(* QueryCache: its record, and what is true of it between two calls *)

Data == {Undefined} \cup SUBSET (Mutations \cup {Base})
Record == [data : Data, invalidated : BOOLEAN, gcTimer : BOOLEAN, subs : SUBSET Subscribers]
RecordCalls == [pc : {"idle", "loading", "error", "success"}, snapshot : Data]
Listener == [life : {"none", "live", "gone"}, rec : RSlots \cup {0}, seen : Data]
CacheState ==
  [recs : [RSlots -> Record], stored : RSlots \cup {0}, mut : [Mutations -> RecordCalls],
   sub : [Subscribers -> Listener], cleared : BOOLEAN, lost : BOOLEAN]

Busy(s, r) == s.recs[r].gcTimer \/ s.recs[r].subs # {}

\* Only clear(), which is called once, and a second call of an unsubscribe function
\* leave a record behind that is not stored.
SpareOK(s) ==
  /\ s.lost => ~Collects
  /\ \A r \in RSlots : Busy(s, r) /\ r # s.stored =>
       /\ (s.cleared \/ s.lost) /\ Subscribers # {}
       /\ Collects => \A q \in RSlots : Busy(s, q) /\ q # s.stored => q = r

\* A record's timer runs while nobody listens, and listeners know their record.
ListenersOK(s) ==
  /\ \A r \in RSlots : s.recs[r].gcTimer => s.recs[r].subs = {} /\ Collects
  /\ \A r \in RSlots : \A c \in s.recs[r].subs : s.sub[c].life = "live" /\ s.sub[c].rec = r
  /\ \A c \in Subscribers : s.sub[c].life = "live" =>
       s.sub[c].rec \in RSlots /\ c \in s.recs[s.sub[c].rec].subs

\* Who listens to the stored record has seen what a reader of the key finds.
SeenOK(s) == s.stored # 0 => \A c \in s.recs[s.stored].subs : s.sub[c].seen = Get(s)

\* Until clear(), the record of who has unsubscribed is the one stored, or out of reach.
HeldOK(s) ==
  ~s.cleared => \A c \in Subscribers : s.sub[c].life = "gone" => s.sub[c].rec \in {0, s.stored}

CacheOK(s) ==
  s \in CacheState /\ SpareOK(s) /\ ListenersOK(s) /\ SeenOK(s) /\ HeldOK(s)

\* Another failed call took a snapshot of the effect of m, and put it back.
Brought(s, m) ==
  \E n \in Mutations \ {m} : s.mut[n].pc = "error" /\ m \in s.mut[n].snapshot

\* No snapshot has the effect of its own call or of one not made yet, and what readers
\* see of a failed call another one brought back.
EffectOK(s) ==
  \A m \in Mutations :
    /\ m \notin s.mut[m].snapshot
    /\ s.mut[m].pc = "idle" => m \notin Get(s) /\ \A n \in Mutations : m \notin s.mut[n].snapshot
    /\ s.mut[m].pc = "error" /\ m \in Get(s) => Brought(s, m)

KCInv == CacheOK(kc) /\ EffectOK(kc)

LEMMA SlotsAre ==
  ASSUME CacheAssumption
  PROVE  /\ 0 \notin RSlots /\ RSlots \subseteq Nat /\ {1, 2} \subseteq RSlots
         /\ Subscribers # {} => 3 \in RSlots
<1>1. Cardinality(Subscribers) \in Nat
  BY FS_CardinalityType DEF CacheAssumption
<1>2. Subscribers # {} => Cardinality(Subscribers) # 0
  BY FS_EmptySet DEF CacheAssumption
<1>3. PICK n \in Nat : n = Cardinality(Subscribers)
  BY <1>1
<1>4. RSlots = 1 .. (n + 2) /\ (Subscribers # {} => n # 0)
  BY <1>2, <1>3 DEF RSlots
<1> QED
  BY <1>4

LEMMA StateIs ==
  ASSUME NEW s \in CacheState
  PROVE  /\ s.recs \in [RSlots -> Record] /\ s.stored \in RSlots \cup {0}
         /\ s.mut \in [Mutations -> RecordCalls] /\ s.lost \in BOOLEAN
         /\ s.sub \in [Subscribers -> Listener] /\ s.cleared \in BOOLEAN
         /\ \A r \in RSlots : s.recs[r] \in Record /\ s.recs[r].subs \subseteq Subscribers
                              /\ s.recs[r].data \in Data /\ s.recs[r].gcTimer \in BOOLEAN
                              /\ s.recs[r].invalidated \in BOOLEAN
  BY DEF CacheState, Record

LEMMA UndefinedIs ==
  ASSUME CacheAssumption
  PROVE  /\ Undefined \in Data /\ {Base} \in Data
         /\ \A m \in Mutations : m \notin Undefined /\ m # Base
         /\ \A m \in Mutations, d \in Data : Updater(d, m) \in Data
         /\ \A m, n \in Mutations, d \in Data : m # n /\ m \notin d => m \notin Updater(d, n)
  BY DEF CacheAssumption, Undefined, Base, Data, Updater

\* Some record is free when none is stored.
LEMMA SpareIs ==
  ASSUME CacheAssumption, NEW s \in CacheState, SpareOK(s), ListenersOK(s), s.stored = 0
  PROVE  FreeRecord(s) \in RSlots /\ ~Busy(s, FreeRecord(s))
<1>1. CASE Collects
  <2>1. \E r \in RSlots : ~Busy(s, r)
    BY <1>1, SlotsAre DEF SpareOK
  <2>2. \E r \in RSlots : r # s.stored /\ ~s.recs[r].gcTimer /\ s.recs[r].subs = {}
    BY <2>1, SlotsAre DEF Busy
  <2> QED
    BY <2>2 DEF FreeRecord, Busy
<1>2. CASE ~Collects
  <2> DEFINE held == {s.sub[c].rec : c \in Subscribers}
  <2>1. IsFiniteSet(held) /\ Cardinality(held) <= Cardinality(Subscribers)
    <3> DEFINE rec == [c \in Subscribers |-> s.sub[c].rec]
    <3>1. rec \in [Subscribers -> held]
      OBVIOUS
    <3>2. \A r \in held : \E c \in Subscribers : rec[c] = r
      OBVIOUS
    <3>3. rec \in Surjection(Subscribers, held)
      BY <3>1, <3>2 DEF Surjection
    <3> HIDE DEF held, rec
    <3> QED
      BY <3>3, FS_Surjection DEF CacheAssumption
  <2> HIDE DEF held
  <2>2. PICK n \in Nat : n = Cardinality(Subscribers)
    BY FS_CardinalityType DEF CacheAssumption
  <2>3. IsFiniteSet(RSlots) /\ Cardinality(RSlots) = n + 2
    <3>1. RSlots = 1 .. (n + 2) /\ 1 \in Int /\ n + 2 \in Int
      BY <2>2 DEF RSlots
    <3>2. IsFiniteSet(1 .. (n + 2))
          /\ Cardinality(1 .. (n + 2)) = IF 1 > n + 2 THEN 0 ELSE n + 2 - 1 + 1
      BY <3>1, FS_Interval
    <3> QED
      BY <3>1, <3>2
  <2>4. ~(RSlots \subseteq held)
    <3>1. RSlots \subseteq held => Cardinality(RSlots) <= Cardinality(held)
      BY <2>1, FS_Subset
    <3>2. Cardinality(held) \in Nat
      BY <2>1, FS_CardinalityType
    <3> QED
      BY <2>1, <2>2, <2>3, <3>1, <3>2
  <2>5. PICK r \in RSlots : r \notin held
    BY <2>4
  <2>6. r # s.stored
    BY <2>5, SlotsAre
  <2>7. ~s.recs[r].gcTimer
    BY <1>2 DEF ListenersOK
  <2>8. s.recs[r].subs = {}
    <3>1. ASSUME NEW c \in s.recs[r].subs PROVE FALSE
      <4>1. c \in Subscribers /\ s.sub[c].rec = r
        BY StateIs DEF ListenersOK
      <4> QED
        BY <2>5, <4>1 DEF held
    <3> QED
      BY <3>1
  <2> QED
    BY <2>6, <2>7, <2>8 DEF FreeRecord, Busy
<1> QED
  BY <1>1, <1>2

-----------------------------------------------------------------------------
(* What the operations of the cache do to its record *)

\* The records, the one stored and what listeners know become these.
With(s, recs, stored, sub) == [s EXCEPT !.recs = recs, !.stored = stored, !.sub = sub]

LEMMA WithIs ==
  ASSUME NEW s \in CacheState, NEW recs \in [RSlots -> Record], NEW stored \in RSlots \cup {0},
         NEW sub \in [Subscribers -> Listener]
  PROVE  LET r == With(s, recs, stored, sub)
         IN  /\ r \in CacheState /\ r.recs = recs /\ r.stored = stored /\ r.sub = sub
             /\ r.mut = s.mut /\ r.lost = s.lost /\ r.cleared = s.cleared
  BY DEF With, CacheState

\* Every listener of these is told this value.
Told(s, subs, v) ==
  [c \in Subscribers |-> IF c \in subs THEN [s.sub[c] EXCEPT !.seen = v] ELSE s.sub[c]]

LEMMA ToldIs ==
  ASSUME NEW s \in CacheState, NEW subs, NEW v \in Data
  PROVE  /\ Told(s, subs, v) \in [Subscribers -> Listener]
         /\ \A c \in Subscribers :
              /\ Told(s, subs, v)[c].life = s.sub[c].life /\ Told(s, subs, v)[c].rec = s.sub[c].rec
              /\ Told(s, subs, v)[c].seen = IF c \in subs THEN v ELSE s.sub[c].seen
<1> DEFINE told(c) == [s.sub[c] EXCEPT !.seen = v]
<1>1. ASSUME NEW c \in Subscribers
      PROVE  /\ told(c) \in Listener /\ told(c).life = s.sub[c].life
             /\ told(c).rec = s.sub[c].rec /\ told(c).seen = v
  <2>1. s.sub[c] \in Listener
    BY DEF CacheState
  <2> QED
    BY <2>1 DEF Listener
<1>2. \A c \in Subscribers : s.sub[c] \in Listener
  BY DEF CacheState
<1>3. Told(s, subs, v) = [c \in Subscribers |-> IF c \in subs THEN told(c) ELSE s.sub[c]]
  BY DEF Told
<1> HIDE DEF told
<1> QED
  BY <1>1, <1>2, <1>3

\* One record becomes another.
LEMMA RecordSet ==
  ASSUME NEW s \in CacheState, NEW r \in RSlots, NEW new \in Record
  PROVE  LET recs == [s.recs EXCEPT ![r] = new]
         IN  /\ recs \in [RSlots -> Record] /\ recs[r] = new
             /\ \A q \in RSlots : q # r => recs[q] = s.recs[q]
  BY DEF CacheState

\* set(): the data are there, under the record stored or a fresh one.
LEMMA SetIs ==
  ASSUME CacheAssumption, NEW s \in CacheState, SpareOK(s), ListenersOK(s), NEW d \in Data
  PROVE  LET r == Set(s, d)
             t == r.stored
         IN  /\ r \in CacheState /\ t \in RSlots
             /\ s.stored # 0 => t = s.stored
             /\ s.stored = 0 => ~Busy(s, t)
             /\ r.recs[t].data = d /\ ~r.recs[t].invalidated /\ ~r.recs[t].gcTimer
             /\ r.recs[t].subs = s.recs[t].subs
             /\ \A q \in RSlots : q # t => r.recs[q] = s.recs[q]
             /\ \A c \in Subscribers :
                  /\ r.sub[c].life = s.sub[c].life /\ r.sub[c].rec = s.sub[c].rec
                  /\ r.sub[c].seen = IF c \in s.recs[t].subs THEN d ELSE s.sub[c].seen
             /\ r.mut = s.mut /\ r.lost = s.lost /\ r.cleared = s.cleared
<1> DEFINE t0 == IF s.stored # 0 THEN s.stored ELSE FreeRecord(s)
           subs0 == IF s.stored # 0 THEN s.recs[t0].subs ELSE {}
<1>1. PICK t \in RSlots : t = t0
  BY SpareIs, StateIs
<1>2. /\ s.stored # 0 => t = s.stored
      /\ s.stored = 0 => ~Busy(s, t)
  BY <1>1, SpareIs
<1>3. PICK subs \in SUBSET Subscribers : subs = subs0
  BY <1>1, StateIs
<1>4. subs = s.recs[t].subs
  BY <1>1, <1>2, <1>3 DEF Busy
<1> DEFINE new == [data |-> d, invalidated |-> FALSE, gcTimer |-> FALSE, subs |-> subs]
           recs == [s.recs EXCEPT ![t] = new]
           s1 == [s EXCEPT !.stored = t, !.recs[t] = new]
           sub == Told(s, subs, d)
<1>5. new \in Record /\ new.data = d /\ new.invalidated = FALSE /\ new.gcTimer = FALSE /\ new.subs = subs
  BY DEF Record
<1>6. Set(s, d) = Notify(s1, t)
  BY <1>1, <1>3 DEF Set
<1> HIDE DEF new, t0, subs0
<1>7. recs \in [RSlots -> Record] /\ recs[t] = new /\ \A q \in RSlots : q # t => recs[q] = s.recs[q]
  BY <1>5, RecordSet
<1>8. s1 = [s EXCEPT !.stored = t, !.recs = recs]
  OBVIOUS
<1> HIDE DEF recs
<1>9. s1.recs = recs /\ s1.sub = s.sub /\ s1 \in CacheState
  BY <1>7, <1>8 DEF CacheState
<1>10. ValueOf(s1.recs[t]) = d /\ s1.recs[t].subs = subs
  BY <1>5, <1>7, <1>9 DEF ValueOf
<1> HIDE DEF s1
<1>11. Notify(s1, t) = [s1 EXCEPT !.sub = sub]
  BY <1>9, <1>10 DEF Notify, Told
<1> HIDE DEF sub
<1>12. Notify(s1, t) = With(s, recs, t, sub)
  BY <1>8, <1>11 DEF With, s1
<1>13. /\ sub \in [Subscribers -> Listener]
       /\ \A c \in Subscribers : sub[c].life = s.sub[c].life /\ sub[c].rec = s.sub[c].rec
                                 /\ sub[c].seen = IF c \in subs THEN d ELSE s.sub[c].seen
  BY ToldIs DEF sub
<1>14. LET r == With(s, recs, t, sub)
       IN  /\ r \in CacheState /\ r.recs = recs /\ r.stored = t /\ r.sub = sub
           /\ r.mut = s.mut /\ r.lost = s.lost /\ r.cleared = s.cleared
  BY <1>7, <1>13, WithIs
<1> QED
  BY <1>2, <1>4, <1>5, <1>6, <1>7, <1>12, <1>13, <1>14

\* Who has unsubscribed may lose hold of its record.
Released(s, r) ==
  /\ r.sub \in [Subscribers -> Listener]
  /\ \A c \in Subscribers :
       /\ r.sub[c].life = s.sub[c].life /\ r.sub[c].seen = s.sub[c].seen
       /\ s.sub[c].life # "gone" => r.sub[c].rec = s.sub[c].rec
       /\ s.sub[c].life = "gone" /\ s.sub[c].rec \in {0, s.stored} => r.sub[c].rec \in {0, r.stored}

LEMMA DeletedIs ==
  ASSUME CacheAssumption, NEW s \in CacheState
  PROVE  LET r == Deleted(s)
         IN  /\ r \in CacheState /\ r.stored = 0 /\ r.recs = s.recs /\ Released(s, r)
             /\ r.mut = s.mut /\ r.lost = s.lost /\ r.cleared = s.cleared
             /\ r = With(s, s.recs, 0, r.sub)
<1> DEFINE free(c) == [s.sub[c] EXCEPT !.rec = 0]
           sub == [c \in Subscribers |-> IF s.sub[c].life = "gone" /\ s.sub[c].rec = s.stored
                                         THEN free(c) ELSE s.sub[c]]
<1>1. ASSUME NEW c \in Subscribers
      PROVE  /\ s.sub[c] \in Listener /\ free(c) \in Listener /\ free(c).rec = 0
             /\ free(c).life = s.sub[c].life /\ free(c).seen = s.sub[c].seen
  <2>1. s.sub[c] \in Listener
    BY DEF CacheState
  <2> QED
    BY <2>1 DEF Listener
<1>2. Deleted(s) = [s EXCEPT !.stored = 0, !.sub = sub]
  BY DEF Deleted
<1> HIDE DEF free
<1>3. /\ sub \in [Subscribers -> Listener]
      /\ \A c \in Subscribers :
           /\ sub[c].life = s.sub[c].life /\ sub[c].seen = s.sub[c].seen
           /\ s.sub[c].life # "gone" => sub[c].rec = s.sub[c].rec
           /\ s.sub[c].life = "gone" /\ s.sub[c].rec \in {0, s.stored} => sub[c].rec = 0
  BY <1>1
<1> HIDE DEF sub
<1>4. Deleted(s) = With(s, s.recs, 0, sub)
  BY <1>2 DEF With, CacheState
<1>5. LET r == With(s, s.recs, 0, sub)
      IN  /\ r \in CacheState /\ r.recs = s.recs /\ r.stored = 0 /\ r.sub = sub
          /\ r.mut = s.mut /\ r.lost = s.lost /\ r.cleared = s.cleared
  BY <1>3, WithIs, StateIs
<1> QED
  BY <1>3, <1>4, <1>5 DEF Released

LEMMA ReleasedSelf == ASSUME NEW s \in CacheState PROVE Released(s, s)
  BY StateIs DEF Released

\* Only the timer of a record nobody listens to changes, or the key is deleted.
LEMMA ScheduleIs ==
  ASSUME CacheAssumption, NEW s \in CacheState, NEW t \in RSlots
  PROVE  LET r == ScheduleGc(s, t)
         IN  /\ r \in CacheState
             /\ r.stored = s.stored \/ (r.stored = 0 /\ ~Collects /\ s.recs[t].subs = {})
             /\ r.recs[t].gcTimer => s.recs[t].gcTimer \/ (Collects /\ s.recs[t].subs = {})
             /\ r.recs[t].subs = s.recs[t].subs /\ ValueOf(r.recs[t]) = ValueOf(s.recs[t])
             /\ \A q \in RSlots : q # t => r.recs[q] = s.recs[q]
             /\ Released(s, r) /\ r.mut = s.mut /\ r.lost = s.lost
             /\ r.cleared = s.cleared
<1>1. CASE s.recs[t].subs # {}
  BY <1>1, ReleasedSelf DEF ScheduleGc
<1>2. CASE s.recs[t].subs = {} /\ ~Collects
  <2>1. ScheduleGc(s, t) = Deleted(s)
    BY <1>2 DEF ScheduleGc
  <2> QED
    BY <1>2, <2>1, DeletedIs
<1>3. CASE s.recs[t].subs = {} /\ Collects
  <2>1. PICK old \in Record : old = s.recs[t]
    BY StateIs
  <2> DEFINE new == [old EXCEPT !.gcTimer = TRUE]
             recs == [s.recs EXCEPT ![t] = new]
  <2>2. new \in Record /\ new.subs = old.subs /\ ValueOf(new) = ValueOf(old)
    BY DEF Record, ValueOf
  <2>3. ScheduleGc(s, t) = [s EXCEPT !.recs = recs]
    BY <1>3, <2>1 DEF ScheduleGc
  <2> HIDE DEF new
  <2>4. recs \in [RSlots -> Record] /\ recs[t] = new /\ \A q \in RSlots : q # t => recs[q] = s.recs[q]
    BY <2>2, RecordSet
  <2> HIDE DEF recs
  <2>5. ScheduleGc(s, t) = With(s, recs, s.stored, s.sub)
    BY <2>3 DEF With, CacheState
  <2> DEFINE r == With(s, recs, s.stored, s.sub)
  <2>6. /\ r \in CacheState /\ r.recs = recs /\ r.stored = s.stored /\ r.sub = s.sub
        /\ r.mut = s.mut /\ r.lost = s.lost /\ r.cleared = s.cleared
    BY <2>4, WithIs, StateIs
  <2> HIDE DEF r
  <2> QED
    BY <1>3, <2>1, <2>2, <2>4, <2>5, <2>6, ReleasedSelf DEF r, Released
<1> QED
  BY <1>1, <1>2, <1>3 DEF CacheAssumption

\* invalidate(): a reader of the key finds nothing, and its listeners are told so.
LEMMA InvalidateIs ==
  ASSUME CacheAssumption, NEW s \in CacheState
  PROVE  LET r == CacheInvalidate(s)
             t == s.stored
         IN  /\ r \in CacheState /\ Get(r) = Undefined
             /\ r.stored = t \/ (r.stored = 0 /\ ~Collects /\ s.recs[t].subs = {})
             /\ t # 0 => /\ r.recs[t].subs = s.recs[t].subs
                         /\ r.recs[t].gcTimer =>
                              s.recs[t].gcTimer \/ (Collects /\ s.recs[t].subs = {})
             /\ \A q \in RSlots : q # t => r.recs[q] = s.recs[q]
             /\ \A c \in Subscribers :
                  /\ r.sub[c].life = s.sub[c].life
                  /\ s.sub[c].life # "gone" => r.sub[c].rec = s.sub[c].rec
                  /\ s.sub[c].life = "gone" /\ s.sub[c].rec \in {0, t} => r.sub[c].rec \in {0, r.stored}
                  /\ t # 0 /\ c \in s.recs[t].subs => r.sub[c].seen = Undefined
             /\ r.mut = s.mut /\ r.lost = s.lost /\ r.cleared = s.cleared
<1>1. CASE s.stored = 0
  BY <1>1 DEF CacheInvalidate, Get
<1>2. CASE s.stored # 0
  <2>1. PICK t \in RSlots : t = s.stored
    BY <1>2, StateIs
  <2>2. PICK old \in Record : old = s.recs[t]
    BY StateIs
  <2> DEFINE new == [old EXCEPT !.invalidated = TRUE]
             recs == [s.recs EXCEPT ![t] = new]
             s1 == [s EXCEPT !.recs[t].invalidated = TRUE]
             sub == Told(s, old.subs, Undefined)
             s2 == With(s, recs, t, sub)
  <2>3. /\ new \in Record /\ new.subs = old.subs /\ ValueOf(new) = Undefined
        /\ new.gcTimer = old.gcTimer
    BY DEF Record, ValueOf
  <2>4. s1 = [s EXCEPT !.recs = recs]
    BY <2>2
  <2> HIDE DEF new, s1
  <2>5. recs \in [RSlots -> Record] /\ recs[t] = new /\ \A q \in RSlots : q # t => recs[q] = s.recs[q]
    BY <2>3, RecordSet
  <2> HIDE DEF recs
  <2>6. s1.recs = recs /\ s1.sub = s.sub /\ s1 \in CacheState
    BY <2>4, <2>5 DEF CacheState
  <2>7. ValueOf(s1.recs[t]) = Undefined /\ s1.recs[t].subs = old.subs
    BY <2>3, <2>5, <2>6
  <2>8. Notify(s1, t) = [s1 EXCEPT !.sub = sub]
    BY <2>6, <2>7 DEF Notify, Told
  <2> HIDE DEF sub
  <2>9. Notify(s1, t) = s2
    BY <2>1, <2>4, <2>8 DEF With, CacheState
  <2>10. CacheInvalidate(s) = ScheduleGc(s2, t)
    BY <1>2, <2>1, <2>9 DEF CacheInvalidate, s1
  <2>11. /\ sub \in [Subscribers -> Listener]
         /\ \A c \in Subscribers : /\ sub[c].life = s.sub[c].life /\ sub[c].rec = s.sub[c].rec
                                   /\ c \in old.subs => sub[c].seen = Undefined
    BY ToldIs, UndefinedIs DEF sub
  <2>12. /\ s2 \in CacheState /\ s2.recs = recs /\ s2.stored = t /\ s2.sub = sub
         /\ s2.mut = s.mut /\ s2.lost = s.lost /\ s2.cleared = s.cleared
    BY <2>5, <2>11, WithIs
  <2> HIDE DEF s2
  <2> DEFINE r == ScheduleGc(s2, t)
  <2>13. /\ r \in CacheState
         /\ r.stored = t \/ (r.stored = 0 /\ ~Collects /\ old.subs = {})
         /\ r.recs[t].gcTimer => old.gcTimer \/ (Collects /\ old.subs = {})
         /\ r.recs[t].subs = old.subs /\ ValueOf(r.recs[t]) = Undefined
         /\ \A q \in RSlots : q # t => r.recs[q] = s.recs[q]
         /\ Released(s2, r) /\ r.mut = s.mut /\ r.lost = s.lost
         /\ r.cleared = s.cleared
    BY <2>3, <2>5, <2>12, ScheduleIs
  <2> HIDE DEF r
  <2>14. Get(r) = Undefined
    BY <2>13 DEF Get
  <2> QED
    BY <2>1, <2>2, <2>10, <2>11, <2>12, <2>13, <2>14 DEF r, Released
<1> QED
  BY <1>1, <1>2

-----------------------------------------------------------------------------
(* The operations keep the cache in order *)

\* set() in a cache in order.
LEMMA SetKeeps ==
  ASSUME CacheAssumption, NEW s, CacheOK(s), NEW d \in Data
  PROVE  LET r == Set(s, d)
         IN  /\ CacheOK(r) /\ Get(r) = d
             /\ r.mut = s.mut /\ r.lost = s.lost /\ r.cleared = s.cleared
<1> DEFINE r == Set(s, d)
           t == r.stored
<1>1. s \in CacheState /\ SpareOK(s) /\ ListenersOK(s) /\ SeenOK(s) /\ HeldOK(s)
  BY DEF CacheOK
<1>2. /\ r \in CacheState /\ t \in RSlots
      /\ s.stored # 0 => t = s.stored
      /\ s.stored = 0 => ~Busy(s, t)
      /\ r.recs[t].data = d /\ ~r.recs[t].invalidated /\ ~r.recs[t].gcTimer
      /\ r.recs[t].subs = s.recs[t].subs
      /\ \A q \in RSlots : q # t => r.recs[q] = s.recs[q]
      /\ \A c \in Subscribers :
           /\ r.sub[c].life = s.sub[c].life /\ r.sub[c].rec = s.sub[c].rec
           /\ r.sub[c].seen = IF c \in s.recs[t].subs THEN d ELSE s.sub[c].seen
      /\ r.mut = s.mut /\ r.lost = s.lost /\ r.cleared = s.cleared
  BY <1>1, SetIs
<1>3. \A q \in RSlots : s.recs[q].subs \subseteq Subscribers
  BY <1>1, StateIs
<1> HIDE DEF r
<1>4. Get(r) = d
  BY <1>2, SlotsAre DEF Get, ValueOf
<1>5. SpareOK(r)
  <2>1. \A q \in RSlots : q # t => (Busy(r, q) <=> Busy(s, q))
    BY <1>2 DEF Busy
  <2>2. \A q \in RSlots : q # t /\ Busy(s, q) => q # s.stored
    BY <1>2, SlotsAre
  <2>3. \A q \in RSlots : q # t /\ Busy(r, q) =>
          /\ (s.cleared \/ s.lost) /\ Subscribers # {}
          /\ Collects => \A p \in RSlots : Busy(s, p) /\ p # s.stored => p = q
    BY <1>1, <2>1, <2>2 DEF SpareOK
  <2> QED
    BY <1>1, <1>2, <2>1, <2>2, <2>3 DEF SpareOK
<1>6. ListenersOK(r)
  <2>1. \A q \in RSlots : r.recs[q].subs = s.recs[q].subs /\ (r.recs[q].gcTimer => s.recs[q].gcTimer)
    BY <1>2
  <2> QED
    BY <1>1, <1>2, <1>3, <2>1 DEF ListenersOK
<1>7. SeenOK(r)
  BY <1>2, <1>3, <1>4 DEF SeenOK
<1>8. HeldOK(r)
  BY <1>1, <1>2 DEF HeldOK
<1> QED
  BY <1>2, <1>4, <1>5, <1>6, <1>7, <1>8 DEF CacheOK, r

\* invalidate() in a cache in order.
LEMMA InvalidateKeeps ==
  ASSUME CacheAssumption, NEW s, CacheOK(s)
  PROVE  LET r == CacheInvalidate(s)
         IN  /\ CacheOK(r) /\ Get(r) = Undefined
             /\ r.mut = s.mut /\ r.lost = s.lost /\ r.cleared = s.cleared
<1> DEFINE r == CacheInvalidate(s)
           t == s.stored
<1>1. s \in CacheState /\ SpareOK(s) /\ ListenersOK(s) /\ SeenOK(s) /\ HeldOK(s)
  BY DEF CacheOK
<1>2. /\ r \in CacheState /\ Get(r) = Undefined
      /\ r.stored = t \/ (r.stored = 0 /\ ~Collects /\ s.recs[t].subs = {})
      /\ t # 0 => /\ r.recs[t].subs = s.recs[t].subs
                  /\ r.recs[t].gcTimer => s.recs[t].gcTimer \/ (Collects /\ s.recs[t].subs = {})
      /\ \A q \in RSlots : q # t => r.recs[q] = s.recs[q]
      /\ \A c \in Subscribers :
           /\ r.sub[c].life = s.sub[c].life
           /\ s.sub[c].life # "gone" => r.sub[c].rec = s.sub[c].rec
           /\ s.sub[c].life = "gone" /\ s.sub[c].rec \in {0, t} => r.sub[c].rec \in {0, r.stored}
           /\ t # 0 /\ c \in s.recs[t].subs => r.sub[c].seen = Undefined
      /\ r.mut = s.mut /\ r.lost = s.lost /\ r.cleared = s.cleared
  BY <1>1, InvalidateIs
<1>3. t \in RSlots \cup {0} /\ \A q \in RSlots : s.recs[q].subs \subseteq Subscribers
  BY <1>1, StateIs
<1> HIDE DEF r
<1>4. \A q \in RSlots : r.recs[q].subs = s.recs[q].subs
  BY <1>2, SlotsAre
<1>5. ListenersOK(r)
  <2>1. \A q \in RSlots : r.recs[q].gcTimer => r.recs[q].subs = {} /\ Collects
    <3>1. ASSUME NEW q \in RSlots, r.recs[q].gcTimer
          PROVE  s.recs[q].gcTimer \/ (Collects /\ s.recs[q].subs = {})
      BY <1>2, <3>1, SlotsAre
    <3> QED
      BY <1>1, <1>4, <3>1 DEF ListenersOK
  <2>2. \A c \in Subscribers : /\ r.sub[c].life = s.sub[c].life
                               /\ r.sub[c].life = "live" => r.sub[c].rec = s.sub[c].rec
    BY <1>2
  <2> QED
    BY <1>1, <1>3, <1>4, <2>1, <2>2 DEF ListenersOK
<1>6. SpareOK(r)
  <2>1. \A q \in RSlots : q # t => (Busy(r, q) <=> Busy(s, q))
    BY <1>2 DEF Busy
  <2>2. \A q \in RSlots : q # r.stored /\ Busy(r, q) => q # t /\ Busy(s, q)
    BY <1>2, <1>4, <1>5, <2>1, SlotsAre DEF Busy, ListenersOK
  <2> QED
    BY <1>1, <1>2, <2>2 DEF SpareOK
<1>7. SeenOK(r)
  BY <1>2, <1>3, <1>4 DEF SeenOK
<1>8. HeldOK(r)
  BY <1>1, <1>2 DEF HeldOK
<1> QED
  BY <1>2, <1>5, <1>6, <1>7, <1>8 DEF CacheOK, r

\* What a rollback leaves to a reader is the snapshot, or nothing.
LEMMA RollbackKeeps ==
  ASSUME CacheAssumption, NEW s, CacheOK(s), NEW d \in Data
  PROVE  LET r == Rollback(s, d)
         IN  /\ CacheOK(r) /\ Get(r) = d
             /\ r.mut = s.mut /\ r.lost = s.lost /\ r.cleared = s.cleared
<1>1. CASE d = Undefined
  BY <1>1, InvalidateKeeps DEF Rollback
<1>2. CASE d # Undefined
  BY <1>2, SetKeeps DEF Rollback
<1> QED
  BY <1>1, <1>2

\* A state that differs in calls only.
WithCalls(s, mut) == [s EXCEPT !.mut = mut]

LEMMA CallsApart ==
  ASSUME NEW s, CacheOK(s), NEW mut \in [Mutations -> RecordCalls]
  PROVE  LET r == WithCalls(s, mut)
         IN  CacheOK(r) /\ Get(r) = Get(s) /\ r.mut = mut
<1> DEFINE r == WithCalls(s, mut)
<1>1. s \in CacheState /\ SpareOK(s) /\ ListenersOK(s) /\ SeenOK(s) /\ HeldOK(s)
  BY DEF CacheOK
<1>2. /\ r \in CacheState /\ r.recs = s.recs /\ r.stored = s.stored /\ r.sub = s.sub
      /\ r.cleared = s.cleared /\ r.mut = mut /\ r.lost = s.lost
  BY <1>1 DEF CacheState, WithCalls
<1> HIDE DEF r
<1>3. Get(r) = Get(s) /\ \A q : Busy(r, q) <=> Busy(s, q)
  BY <1>2 DEF Get, Busy
<1>4. SpareOK(r)
  BY <1>1, <1>2, <1>3 DEF SpareOK
<1>5. ListenersOK(r)
  BY <1>1, <1>2 DEF ListenersOK
<1>6. SeenOK(r)
  BY <1>1, <1>2, <1>3 DEF SeenOK
<1>7. HeldOK(r)
  BY <1>1, <1>2 DEF HeldOK
<1> QED
  BY <1>2, <1>3, <1>4, <1>5, <1>6, <1>7 DEF CacheOK, r

\* A step that leaves the calls alone and shows a reader no mutation it had not shown.
LEMMA EffectsKept ==
  ASSUME NEW s, NEW r, EffectOK(s), r.mut = s.mut,
         \A m \in Mutations : m \in Get(r) => m \in Get(s)
  PROVE  EffectOK(r)
<1>1. \A m \in Mutations : Brought(r, m) <=> Brought(s, m)
  BY DEF Brought
<1> QED
  BY <1>1 DEF EffectOK

LEMMA AppSetsKeeps == ASSUME CacheAssumption, KCInv, AppSets PROVE KCInv'
<1>1. /\ CacheOK(kc') /\ Get(kc') = {Base} /\ kc'.mut = kc.mut
  BY SetKeeps, UndefinedIs DEF AppSets, KCInv
<1>2. \A m \in Mutations : m \notin Get(kc')
  BY <1>1, UndefinedIs
<1>3. EffectOK(kc')
  BY <1>1, <1>2, EffectsKept DEF KCInv
<1> QED
  BY <1>1, <1>3 DEF KCInv

LEMMA AppInvalidatesKeeps == ASSUME CacheAssumption, KCInv, AppInvalidates PROVE KCInv'
<1>1. /\ CacheOK(kc') /\ Get(kc') = Undefined /\ kc'.mut = kc.mut
  BY InvalidateKeeps DEF AppInvalidates, KCInv
<1>2. \A m \in Mutations : m \notin Get(kc')
  BY <1>1, UndefinedIs
<1>3. EffectOK(kc')
  BY <1>1, <1>2, EffectsKept DEF KCInv
<1> QED
  BY <1>1, <1>3 DEF KCInv

\* The call m is at another point of its way, with this snapshot.
LEMMA CallSet ==
  ASSUME NEW s \in CacheState, NEW m \in Mutations, NEW new \in RecordCalls
  PROVE  LET mut == [s.mut EXCEPT ![m] = new]
         IN  /\ mut \in [Mutations -> RecordCalls] /\ mut[m] = new
             /\ \A n \in Mutations : n # m => mut[n] = s.mut[n]
  BY DEF CacheState

LEMMA ExecuteKeeps ==
  ASSUME CacheAssumption, KCInv, NEW m \in Mutations, Execute(m) PROVE KCInv'
<1> DEFINE snapshot0 == Get(kc)
<1>1. kc \in CacheState /\ CacheOK(kc) /\ EffectOK(kc)
  BY DEF KCInv, CacheOK
<1>2. snapshot0 \in Data
  BY <1>1, StateIs, UndefinedIs DEF Get, ValueOf
<1>3. PICK snapshot \in Data : snapshot = snapshot0
  BY <1>2
<1>4. PICK data \in Data : data = Updater(snapshot, m)
  BY <1>3, UndefinedIs
<1> DEFINE s1 == Set(kc, data)
<1>5. CacheOK(s1) /\ s1 \in CacheState /\ Get(s1) = data /\ s1.mut = kc.mut
  BY <1>1, SetKeeps DEF CacheOK
<1> DEFINE new == [pc |-> "loading", snapshot |-> snapshot]
           mut == [s1.mut EXCEPT ![m] = new]
<1>6. new \in RecordCalls /\ new.pc = "loading" /\ new.snapshot = snapshot
  BY DEF RecordCalls
<1>7. kc' = [s1 EXCEPT !.mut[m] = new]
  BY <1>3, <1>4 DEF Execute
<1> HIDE DEF new, snapshot0, s1
<1>8. mut \in [Mutations -> RecordCalls] /\ mut[m] = new /\ \A n \in Mutations : n # m => mut[n] = kc.mut[n]
  BY <1>5, <1>6, CallSet
<1>9. kc' = WithCalls(s1, mut)
  BY <1>7 DEF WithCalls
<1> HIDE DEF mut
<1>10. CacheOK(kc') /\ Get(kc') = data /\ kc'.mut = mut
  BY <1>5, <1>8, <1>9, CallsApart
<1>11. kc.mut[m].pc = "idle" /\ m \notin snapshot
  BY <1>1, <1>3 DEF Execute, EffectOK, snapshot0
<1>12. EffectOK(kc')
  <2>1. SUFFICES ASSUME NEW n \in Mutations
                 PROVE  /\ n \notin mut[n].snapshot
                        /\ mut[n].pc = "idle" => n \notin data /\ \A k \in Mutations : n \notin mut[k].snapshot
                        /\ mut[n].pc = "error" /\ n \in data => Brought(kc', n)
    BY <1>10 DEF EffectOK
  <2>2. CASE n = m
    BY <1>6, <1>8, <1>11, <2>2
  <2>3. CASE n # m
    <3>1. mut[n] = kc.mut[n] /\ n \notin kc.mut[n].snapshot
      BY <1>1, <1>8, <2>3 DEF EffectOK
    <3>2. n \in data => n \in Get(kc)
      BY <1>3, <1>4, <2>3, UndefinedIs DEF snapshot0
    <3>3. kc.mut[n].pc = "idle" => n \notin snapshot /\ \A k \in Mutations : n \notin kc.mut[k].snapshot
      BY <1>1, <1>3 DEF EffectOK, snapshot0
    <3>4. kc.mut[n].pc = "idle" => \A k \in Mutations : n \notin mut[k].snapshot
      BY <1>6, <1>8, <3>3
    <3>5. Brought(kc, n) => Brought(kc', n)
      BY <1>8, <1>10, <1>11 DEF Brought
    <3> QED
      BY <1>1, <3>1, <3>2, <3>4, <3>5 DEF EffectOK
  <2> QED
    BY <2>2, <2>3
<1> QED
  BY <1>10, <1>12 DEF KCInv

Ended(s, m, pc) == [s EXCEPT !.mut[m].pc = pc]

\* A call that ends: after a failure a reader finds what its snapshot has.
LEMMA CallEnds ==
  ASSUME CacheAssumption, KCInv, NEW m \in Mutations, kc.mut[m].pc = "loading",
         NEW pc \in {"error", "success"}, NEW s1, CacheOK(s1), s1.mut = kc.mut,
         Get(s1) = Undefined \/ (pc = "error" /\ Get(s1) = kc.mut[m].snapshot),
         kc' = Ended(s1, m, pc)
  PROVE  KCInv'
<1>1. kc \in CacheState /\ EffectOK(kc) /\ s1 \in CacheState
  BY DEF KCInv, CacheOK
<1>2. PICK old \in RecordCalls : old = kc.mut[m]
  BY <1>1, StateIs
<1> DEFINE new == [old EXCEPT !.pc = pc]
           mut == [s1.mut EXCEPT ![m] = new]
<1>3. new \in RecordCalls /\ new.pc = pc /\ new.snapshot = old.snapshot
  BY DEF RecordCalls
<1>4. kc' = [s1 EXCEPT !.mut = mut]
  BY <1>2 DEF Ended
<1> HIDE DEF new
<1>5. mut \in [Mutations -> RecordCalls] /\ mut[m] = new /\ \A n \in Mutations : n # m => mut[n] = kc.mut[n]
  BY <1>1, <1>3, CallSet
<1> HIDE DEF mut
<1>6. CacheOK(kc') /\ Get(kc') = Get(s1) /\ kc'.mut = mut
  BY <1>4, <1>5, CallsApart DEF WithCalls
<1>7. \A n \in Mutations : mut[n].snapshot = kc.mut[n].snapshot
  BY <1>2, <1>3, <1>5
<1>8. EffectOK(kc')
  <2>1. SUFFICES ASSUME NEW n \in Mutations
                 PROVE  /\ n \notin mut[n].snapshot
                        /\ mut[n].pc = "idle" => n \notin Get(s1) /\ \A k \in Mutations : n \notin mut[k].snapshot
                        /\ mut[n].pc = "error" /\ n \in Get(s1) => Brought(kc', n)
    BY <1>6 DEF EffectOK
  <2>2. n \notin Undefined
    BY UndefinedIs
  <2>3. n \notin kc.mut[n].snapshot /\ (kc.mut[n].pc = "idle" => \A k \in Mutations : n \notin kc.mut[k].snapshot)
    BY <1>1 DEF EffectOK
  <2>4. mut[n].pc = "idle" => kc.mut[n].pc = "idle"
    BY <1>3, <1>5
  <2>5. ASSUME n \in Get(s1) PROVE pc = "error" /\ n \in kc.mut[m].snapshot /\ n # m
    BY <2>2, <2>3, <2>5
  <2>6. n \in Get(s1) => Brought(kc', n)
    BY <1>3, <1>5, <1>6, <1>7, <2>5 DEF Brought
  <2> QED
    BY <1>7, <2>3, <2>4, <2>5, <2>6
<1> QED
  BY <1>6, <1>8 DEF KCInv

LEMMA FailsKeeps ==
  ASSUME CacheAssumption, KCInv, NEW m \in Mutations, MutationFails(m) PROVE KCInv'
<1>1. kc \in CacheState /\ CacheOK(kc)
  BY DEF KCInv, CacheOK
<1>2. PICK snapshot \in Data : snapshot = kc.mut[m].snapshot
  <2>1. kc.mut[m] \in RecordCalls
    BY <1>1, StateIs
  <2> QED
    BY <2>1 DEF RecordCalls
<1>3. PICK s1 : s1 = Rollback(kc, snapshot)
  OBVIOUS
<1>4. CacheOK(s1) /\ Get(s1) = snapshot /\ s1.mut = kc.mut
  BY <1>1, <1>3, RollbackKeeps
<1>5. kc' = Ended(s1, m, "error") /\ kc.mut[m].pc = "loading"
  BY <1>2, <1>3 DEF MutationFails, Ended
<1> QED
  BY <1>2, <1>4, <1>5, CallEnds

LEMMA SucceedsKeeps ==
  ASSUME CacheAssumption, KCInv, NEW m \in Mutations, MutationSucceeds(m) PROVE KCInv'
<1>1. PICK s1 : s1 = CacheInvalidate(kc)
  OBVIOUS
<1>2. CacheOK(s1) /\ Get(s1) = Undefined /\ s1.mut = kc.mut
  BY <1>1, InvalidateKeeps DEF KCInv
<1>3. kc' = Ended(s1, m, "success") /\ kc.mut[m].pc = "loading"
  BY <1>1 DEF MutationSucceeds, Ended
<1> QED
  BY <1>2, <1>3, CallEnds

LEMMA SubscribeKeeps ==
  ASSUME CacheAssumption, KCInv, NEW c \in Subscribers, Subscribe(c) PROVE KCInv'
<1>1. kc \in CacheState /\ SpareOK(kc) /\ ListenersOK(kc) /\ SeenOK(kc) /\ EffectOK(kc) /\ HeldOK(kc)
  BY DEF KCInv, CacheOK
<1>2. PICK t \in RSlots : t = IF kc.stored # 0 THEN kc.stored ELSE FreeRecord(kc)
  BY <1>1, SpareIs, StateIs
<1>3. /\ kc.stored # 0 => t = kc.stored
      /\ kc.stored = 0 => ~Busy(kc, t)
  BY <1>1, <1>2, SpareIs
<1>4. PICK old \in Record : old = IF kc.stored # 0 THEN kc.recs[t] ELSE NoRecord
  <2>1. NoRecord \in Record
    BY UndefinedIs DEF NoRecord, Record
  <2> QED
    BY <1>1, <2>1, StateIs
<1>5. old.subs = kc.recs[t].subs /\ old.subs \subseteq Subscribers
  BY <1>1, <1>3, <1>4, StateIs DEF Busy, NoRecord
<1> DEFINE new == [old EXCEPT !.gcTimer = FALSE, !.subs = @ \cup {c}]
           recs == [kc.recs EXCEPT ![t] = new]
           live == [life |-> "live", rec |-> t, seen |-> Get(kc)]
           sub == [kc.sub EXCEPT ![c] = live]
           s1 == IF kc.stored # 0 THEN kc ELSE [kc EXCEPT !.stored = t, !.recs[t] = NoRecord]
<1>6. /\ new \in Record /\ new.subs = old.subs \cup {c} /\ new.gcTimer = FALSE
      /\ ValueOf(new) = ValueOf(old)
  BY <1>5 DEF Record, ValueOf
<1>7. live \in Listener /\ live.life = "live" /\ live.rec = t /\ live.seen = Get(kc)
  <2>1. Get(kc) \in Data
    BY <1>1, StateIs, UndefinedIs DEF Get, ValueOf
  <2> QED
    BY <2>1 DEF Listener
<1>8. kc' = [s1 EXCEPT !.recs[t].gcTimer = FALSE, !.recs[t].subs = @ \cup {c}, !.sub[c] = live]
  BY <1>2 DEF Subscribe
<1>9. /\ s1 \in CacheState /\ s1.stored = t /\ s1.sub = kc.sub /\ s1.recs[t] = old
      /\ \A q \in RSlots : q # t => s1.recs[q] = kc.recs[q]
      /\ s1.mut = kc.mut /\ s1.lost = kc.lost /\ s1.cleared = kc.cleared
  <2>1. CASE kc.stored # 0
    BY <1>1, <1>3, <1>4, <2>1
  <2>2. CASE kc.stored = 0
    <3> DEFINE first == [kc.recs EXCEPT ![t] = NoRecord]
    <3>1. NoRecord \in Record
      BY <1>4, <2>2
    <3>2. first \in [RSlots -> Record] /\ first[t] = NoRecord
          /\ \A q \in RSlots : q # t => first[q] = kc.recs[q]
      BY <1>1, <3>1, RecordSet
    <3>3. s1 = [kc EXCEPT !.stored = t, !.recs = first]
      BY <2>2
    <3> HIDE DEF first, s1
    <3>4. s1 = With(kc, first, t, kc.sub)
      BY <1>1, <3>3 DEF With, CacheState
    <3> QED
      BY <1>1, <1>4, <2>2, <3>2, <3>4, WithIs, StateIs
  <2> QED
    BY <2>1, <2>2
<1> HIDE DEF s1
<1> DEFINE after == [s1.recs EXCEPT ![t] = new]
<1>10. kc' = [s1 EXCEPT !.recs = after, !.sub = sub]
  <2>1. new = [s1.recs[t] EXCEPT !.gcTimer = FALSE, !.subs = @ \cup {c}]
    BY <1>9
  <2> HIDE DEF live
  <2> QED
    BY <1>8, <1>9, <2>1 DEF CacheState
<1> HIDE DEF new, live
<1>11. /\ after \in [RSlots -> Record] /\ after[t] = new
       /\ \A q \in RSlots : q # t => after[q] = kc.recs[q]
  BY <1>6, <1>9, RecordSet
<1>12. /\ sub \in [Subscribers -> Listener] /\ sub[c] = live
       /\ \A d \in Subscribers : d # c => sub[d] = kc.sub[d]
  BY <1>1, <1>7, StateIs
<1> HIDE DEF after, sub
<1>13. kc' = With(s1, after, t, sub)
  BY <1>9, <1>10 DEF With, CacheState
<1>14. /\ kc' \in CacheState /\ kc'.recs = after /\ kc'.stored = t /\ kc'.sub = sub
       /\ kc'.mut = kc.mut /\ kc'.lost = kc.lost /\ kc'.cleared = kc.cleared
  BY <1>9, <1>11, <1>12, <1>13, WithIs
<1>15. Get(kc') = Get(kc)
  <2>1. Get(kc') = ValueOf(old)
    BY <1>6, <1>11, <1>14, SlotsAre DEF Get
  <2>2. ValueOf(old) = Get(kc)
    BY <1>3, <1>4 DEF Get, NoRecord, ValueOf
  <2> QED
    BY <2>1, <2>2
<1>16. /\ kc.sub[c].life = "none"
       /\ \A q \in RSlots : c \notin kc.recs[q].subs
  BY <1>1 DEF Subscribe, ListenersOK
<1>17. SpareOK(kc')
  <2>1. \A q \in RSlots : q # t => (Busy(kc', q) <=> Busy(kc, q))
    BY <1>11, <1>14 DEF Busy
  <2>2. \A q \in RSlots : q # t => q # kc.stored
    BY <1>3, SlotsAre
  <2>3. \A q \in RSlots : Busy(kc, q) /\ q # kc.stored => q # t
    BY <1>3
  <2> QED
    BY <1>1, <1>14, <2>1, <2>2, <2>3 DEF SpareOK
<1>18. ListenersOK(kc')
  <2>1. \A q \in RSlots : after[q].subs = IF q = t THEN kc.recs[t].subs \cup {c} ELSE kc.recs[q].subs
    BY <1>5, <1>6, <1>11
  <2>2. \A q \in RSlots : after[q].gcTimer => after[q].subs = {} /\ Collects
    BY <1>1, <1>6, <1>11 DEF ListenersOK
  <2>3. ASSUME NEW q \in RSlots, NEW d \in after[q].subs
        PROVE  sub[d].life = "live" /\ sub[d].rec = q
    <3>1. CASE d = c
      BY <1>7, <1>12, <1>16, <2>1, <3>1
    <3>2. CASE d # c
      <4>1. d \in kc.recs[q].subs /\ d \in Subscribers
        BY <1>1, <2>1, <3>2, StateIs
      <4> QED
        BY <1>1, <1>12, <3>2, <4>1 DEF ListenersOK
    <3> QED
      BY <3>1, <3>2
  <2>4. ASSUME NEW d \in Subscribers, sub[d].life = "live"
        PROVE  sub[d].rec \in RSlots /\ d \in after[sub[d].rec].subs
    <3>1. CASE d = c
      BY <1>7, <1>12, <2>1, <3>1
    <3>2. CASE d # c
      BY <1>1, <1>12, <2>1, <2>4, <3>2 DEF ListenersOK
    <3> QED
      BY <3>1, <3>2
  <2> QED
    BY <1>14, <2>2, <2>3, <2>4 DEF ListenersOK
<1>19. SeenOK(kc')
  <2>1. ASSUME NEW d \in after[t].subs PROVE sub[d].seen = Get(kc)
    <3>1. CASE d = c
      BY <1>7, <1>12, <3>1
    <3>2. CASE d # c
      <4>1. d \in kc.recs[t].subs /\ d \in Subscribers
        BY <1>1, <1>5, <1>6, <1>11, <3>2, StateIs
      <4>2. kc.stored = t /\ kc.stored # 0
        BY <1>3, <4>1, SlotsAre DEF Busy
      <4> QED
        BY <1>1, <1>12, <3>2, <4>1, <4>2 DEF SeenOK
    <3> QED
      BY <3>1, <3>2
  <2> QED
    BY <1>14, <1>15, <2>1 DEF SeenOK
<1>20. EffectOK(kc')
  BY <1>1, <1>14, <1>15, EffectsKept
<1>21. HeldOK(kc')
  <2>1. ASSUME ~kc.cleared, NEW d \in Subscribers, sub[d].life = "gone" PROVE sub[d].rec \in {0, t}
    <3>1. d # c /\ sub[d] = kc.sub[d]
      BY <1>7, <1>12, <2>1
    <3> QED
      BY <1>1, <1>3, <2>1, <3>1 DEF HeldOK
  <2> QED
    BY <1>14, <2>1 DEF HeldOK
<1> QED
  BY <1>14, <1>17, <1>18, <1>19, <1>20, <1>21 DEF KCInv, CacheOK

LEMMA UnsubscribeKeeps ==
  ASSUME CacheAssumption, KCInv, NEW c \in Subscribers, Unsubscribe(c) PROVE KCInv'
<1>1. kc \in CacheState /\ SpareOK(kc) /\ ListenersOK(kc) /\ SeenOK(kc) /\ EffectOK(kc) /\ HeldOK(kc)
  BY DEF KCInv, CacheOK
<1>2. kc.sub[c].life = "live"
  BY DEF Unsubscribe
<1>3. PICK t \in RSlots : t = kc.sub[c].rec /\ c \in kc.recs[t].subs
  BY <1>1, <1>2 DEF ListenersOK
<1>4. PICK old \in Record : old = kc.recs[t]
  BY <1>1, StateIs
<1> DEFINE new == [old EXCEPT !.subs = @ \ {c}]
           recs == [kc.recs EXCEPT ![t] = new]
           held == IF t = kc.stored THEN t ELSE 0
           gone == [life |-> "gone", rec |-> held, seen |-> Undefined]
           sub == [kc.sub EXCEPT ![c] = gone]
           s1 == [kc EXCEPT !.sub[c] = gone, !.recs[t].subs = @ \ {c}]
           s2 == With(kc, recs, kc.stored, sub)
           r == ScheduleGc(s2, t)
<1>6. /\ new \in Record /\ new.subs = old.subs \ {c} /\ new.gcTimer = old.gcTimer
      /\ ValueOf(new) = ValueOf(old)
  BY DEF Record, ValueOf
<1>7. gone \in Listener /\ gone.life = "gone" /\ gone.rec \in {0, kc.stored}
  BY UndefinedIs DEF Listener
<1>8. kc' = ScheduleGc(s1, t)
  BY <1>3 DEF Unsubscribe
<1>9. s1 = [kc EXCEPT !.recs = recs, !.sub = sub]
  <2>1. new = [kc.recs[t] EXCEPT !.subs = @ \ {c}]
    BY <1>4
  <2> HIDE DEF gone, new
  <2> QED
    BY <2>1
<1> HIDE DEF new, gone, s1
<1>10. /\ recs \in [RSlots -> Record] /\ recs[t] = new
       /\ \A q \in RSlots : q # t => recs[q] = kc.recs[q]
  BY <1>1, <1>6, RecordSet
<1>11. /\ sub \in [Subscribers -> Listener] /\ sub[c] = gone
       /\ \A d \in Subscribers : d # c => sub[d] = kc.sub[d]
  BY <1>1, <1>7, StateIs
<1> HIDE DEF recs, sub
<1>12. s1 = s2
  BY <1>1, <1>9 DEF With, CacheState
<1>13. /\ s2 \in CacheState /\ s2.recs = recs /\ s2.stored = kc.stored /\ s2.sub = sub
       /\ s2.mut = kc.mut /\ s2.lost = kc.lost /\ s2.cleared = kc.cleared
  BY <1>1, <1>10, <1>11, WithIs, StateIs
<1> HIDE DEF s2
<1>14. /\ r \in CacheState
       /\ r.stored = kc.stored \/ (r.stored = 0 /\ ~Collects /\ recs[t].subs = {})
       /\ r.recs[t].gcTimer => recs[t].gcTimer \/ (Collects /\ recs[t].subs = {})
       /\ r.recs[t].subs = recs[t].subs /\ ValueOf(r.recs[t]) = ValueOf(recs[t])
       /\ \A q \in RSlots : q # t => r.recs[q] = recs[q]
       /\ Released(s2, r) /\ r.mut = kc.mut /\ r.lost = kc.lost
       /\ r.cleared = kc.cleared
  BY <1>13, ScheduleIs
<1> HIDE DEF r
<1>23. \A d \in Subscribers : /\ r.sub[d].life = sub[d].life /\ r.sub[d].seen = sub[d].seen
                              /\ sub[d].life # "gone" => r.sub[d].rec = sub[d].rec
  BY <1>13, <1>14 DEF Released
<1>25. \A d \in Subscribers : d # c => /\ r.sub[d].life = kc.sub[d].life
                                       /\ r.sub[d].seen = kc.sub[d].seen
                                       /\ kc.sub[d].life = "live" => r.sub[d].rec = kc.sub[d].rec
  BY <1>11, <1>23
<1>26. r.sub[c].life = "gone"
  BY <1>7, <1>11, <1>23
<1>15. kc' = r
  BY <1>8, <1>12 DEF r
<1>16. /\ r.recs[t].subs = kc.recs[t].subs \ {c}
       /\ ValueOf(r.recs[t]) = ValueOf(kc.recs[t])
       /\ r.recs[t].gcTimer => Collects /\ r.recs[t].subs = {}
       /\ \A q \in RSlots : q # t => r.recs[q] = kc.recs[q]
  <2>1. kc.recs[t].gcTimer => FALSE
    BY <1>1, <1>3 DEF ListenersOK
  <2> QED
    BY <1>4, <1>6, <1>10, <1>14, <2>1
<1>17. r.stored = kc.stored \/ (r.stored = 0 /\ ~Busy(r, t))
  <2>1. r.stored # kc.stored => ~Collects /\ r.recs[t].subs = {} /\ r.stored = 0
    BY <1>14
  <2>2. ~Collects => ~r.recs[t].gcTimer
    BY <1>16
  <2> QED
    BY <2>1, <2>2 DEF Busy
<1>18. Get(r) = Get(kc) \/ Get(r) = Undefined
  BY <1>1, <1>14, <1>16, StateIs DEF Get
<1>19. SpareOK(r)
  <2>1. \A q \in RSlots : Busy(r, q) => Busy(kc, q)
    <3>1. Busy(kc, t)
      BY <1>3 DEF Busy
    <3>2. \A q \in RSlots : q # t => (Busy(r, q) <=> Busy(kc, q))
      BY <1>16 DEF Busy
    <3> QED
      BY <3>1, <3>2
  <2>2. CASE r.stored = kc.stored
    BY <1>1, <1>14, <2>1, <2>2 DEF SpareOK
  <2>3. CASE r.stored # kc.stored
    <3>1. Busy(kc, t)
      BY <1>3 DEF Busy
    <3>2. \A q \in RSlots : Busy(r, q) => q # t /\ Busy(kc, q)
      BY <1>17, <2>1, <2>3
    <3>3. CASE t = kc.stored
      BY <1>1, <1>14, <3>2, <3>3 DEF SpareOK
    <3>4. CASE t # kc.stored
      <4>1. ~Collects /\ (kc.cleared \/ kc.lost) /\ Subscribers # {}
        BY <1>1, <1>14, <2>3, <3>1, <3>4 DEF SpareOK
      <4> QED
        BY <1>1, <1>14, <4>1 DEF SpareOK
    <3> QED
      BY <3>3, <3>4
  <2> QED
    BY <2>2, <2>3
<1>20. ListenersOK(r)
  <2>1. \A q \in RSlots : r.recs[q].gcTimer => r.recs[q].subs = {} /\ Collects
    BY <1>1, <1>16 DEF ListenersOK
  <2>2. ASSUME NEW q \in RSlots, NEW d \in r.recs[q].subs
        PROVE  r.sub[d].life = "live" /\ r.sub[d].rec = q
    <3>1. d \in kc.recs[q].subs /\ d # c /\ d \in Subscribers
      <4>1. q # t => c \notin kc.recs[q].subs
        BY <1>1, <1>3 DEF ListenersOK
      <4> QED
        BY <1>1, <1>16, <2>2, <4>1, StateIs
    <3> QED
      BY <1>1, <1>25, <3>1 DEF ListenersOK
  <2>3. ASSUME NEW d \in Subscribers, r.sub[d].life = "live"
        PROVE  r.sub[d].rec \in RSlots /\ d \in r.recs[r.sub[d].rec].subs
    <3>1. d # c /\ r.sub[d].life = kc.sub[d].life /\ r.sub[d].rec = kc.sub[d].rec
      BY <1>25, <1>26, <2>3
    <3>2. kc.sub[d].rec \in RSlots /\ d \in kc.recs[kc.sub[d].rec].subs
      BY <1>1, <2>3, <3>1 DEF ListenersOK
    <3> QED
      BY <1>16, <3>1, <3>2
  <2> QED
    BY <2>1, <2>2, <2>3 DEF ListenersOK
<1>21. SeenOK(r)
  <2>1. SUFFICES ASSUME r.stored # 0, NEW d \in r.recs[r.stored].subs
                 PROVE  r.sub[d].seen = Get(r)
    BY DEF SeenOK
  <2>2. r.stored = kc.stored /\ kc.stored \in RSlots
    BY <1>1, <1>14, <2>1, StateIs
  <2>3. d \in kc.recs[kc.stored].subs /\ d \in Subscribers /\ d # c
    <3>1. kc.stored # t => c \notin kc.recs[kc.stored].subs
      BY <1>1, <1>3, <2>2 DEF ListenersOK
    <3> QED
      BY <1>1, <1>16, <2>1, <2>2, <3>1, StateIs
  <2>4. Get(r) = Get(kc)
    BY <1>16, <2>1, <2>2 DEF Get
  <2> QED
    BY <1>1, <1>25, <2>1, <2>2, <2>3, <2>4 DEF SeenOK
<1>22. EffectOK(r)
  <2>1. \A m \in Mutations : m \in Get(r) => m \in Get(kc)
    BY <1>18, UndefinedIs
  <2> QED
    BY <1>1, <1>14, <2>1, EffectsKept
<1>24. HeldOK(r)
  <2>1. ASSUME ~kc.cleared, NEW d \in Subscribers, sub[d].life = "gone" PROVE sub[d].rec \in {0, kc.stored}
    BY <1>1, <1>7, <1>11, <2>1 DEF HeldOK
  <2> QED
    BY <1>13, <1>14, <2>1 DEF HeldOK, Released
<1> QED
  BY <1>14, <1>15, <1>19, <1>20, <1>21, <1>22, <1>24 DEF KCInv, CacheOK

\* The second call of an unsubscribe function finds its record stored, or deletes the
\* key, under which somebody may listen.
LEMMA AgainKeeps ==
  ASSUME CacheAssumption, KCInv, NEW c \in Subscribers, UnsubscribeAgain(c) PROVE KCInv'
<1>1. kc \in CacheState /\ SpareOK(kc) /\ ListenersOK(kc) /\ SeenOK(kc) /\ EffectOK(kc) /\ HeldOK(kc)
  BY DEF KCInv, CacheOK
<1>2. \A q \in RSlots : kc.recs[q].subs \subseteq Subscribers
  BY <1>1, StateIs
<1>3. kc.sub[c].life = "gone" /\ ~kc.cleared
  BY DEF UnsubscribeAgain
<1>4. CASE kc.sub[c].rec # 0
  <2>1. PICK t \in RSlots : t = kc.sub[c].rec /\ t = kc.stored
    BY <1>1, <1>3, <1>4, StateIs DEF HeldOK
  <2> DEFINE r == ScheduleGc(kc, t)
  <2>2. kc' = r
    BY <1>4, <2>1 DEF UnsubscribeAgain
  <2>3. /\ r \in CacheState
        /\ r.stored = kc.stored \/ (r.stored = 0 /\ ~Collects /\ kc.recs[t].subs = {})
        /\ r.recs[t].gcTimer => kc.recs[t].gcTimer \/ (Collects /\ kc.recs[t].subs = {})
        /\ r.recs[t].subs = kc.recs[t].subs /\ ValueOf(r.recs[t]) = ValueOf(kc.recs[t])
        /\ \A q \in RSlots : q # t => r.recs[q] = kc.recs[q]
        /\ Released(kc, r) /\ r.mut = kc.mut /\ r.lost = kc.lost
        /\ r.cleared = kc.cleared
    BY <1>1, ScheduleIs
  <2> HIDE DEF r
  <2>4. \A q \in RSlots : r.recs[q].subs = kc.recs[q].subs
    BY <2>3
  <2>5. \A q \in RSlots : r.recs[q].gcTimer => r.recs[q].subs = {} /\ Collects
    BY <1>1, <2>3 DEF ListenersOK
  <2>6. ListenersOK(r)
    BY <1>1, <1>2, <2>3, <2>4, <2>5 DEF ListenersOK, Released
  <2>7. SpareOK(r)
    <3>1. \A q \in RSlots : q # t => (Busy(r, q) <=> Busy(kc, q))
      BY <2>3 DEF Busy
    <3>2. r.stored # kc.stored => ~Busy(r, t)
      BY <2>3, <2>5 DEF Busy
    <3> QED
      BY <1>1, <2>1, <2>3, <3>1, <3>2 DEF SpareOK
  <2>8. Get(r) = IF r.stored = 0 THEN Undefined ELSE Get(kc)
    BY <2>1, <2>3, SlotsAre DEF Get
  <2>9. SeenOK(r)
    BY <1>1, <1>2, <2>1, <2>3, <2>8 DEF SeenOK, Released
  <2>10. EffectOK(r)
    BY <1>1, <2>3, <2>8, UndefinedIs, EffectsKept
  <2>11. HeldOK(r)
    BY <1>1, <2>1, <2>3 DEF HeldOK, Released
  <2> QED
    BY <2>2, <2>3, <2>6, <2>7, <2>9, <2>10, <2>11 DEF KCInv, CacheOK
<1>5. CASE kc.sub[c].rec = 0
  <2> DEFINE s1 == Deleted(kc)
  <2>1. /\ s1 \in CacheState /\ s1.stored = 0 /\ s1.recs = kc.recs /\ Released(kc, s1)
        /\ s1.mut = kc.mut /\ s1.lost = kc.lost /\ s1.cleared = kc.cleared
    BY <1>1, DeletedIs
  <2>2. ~Collects /\ kc' = [s1 EXCEPT !.lost = TRUE]
    BY <1>5 DEF UnsubscribeAgain
  <2> HIDE DEF s1
  <2>3. /\ kc' \in CacheState /\ kc'.stored = 0 /\ kc'.recs = kc.recs /\ kc'.sub = s1.sub
        /\ kc'.mut = kc.mut /\ kc'.lost = TRUE
    BY <2>1, <2>2 DEF CacheState
  <2>4. ListenersOK(kc')
    BY <1>1, <1>2, <2>1, <2>3 DEF ListenersOK, Released
  <2>5. SpareOK(kc')
    <3>1. ASSUME NEW q \in RSlots, Busy(kc', q) PROVE Subscribers # {}
      <4>1. kc.recs[q].subs # {}
        BY <1>1, <2>2, <2>3, <3>1 DEF Busy, ListenersOK
      <4> QED
        BY <1>2, <4>1
    <3> QED
      BY <2>2, <2>3, <3>1 DEF SpareOK
  <2>6. SeenOK(kc') /\ HeldOK(kc') /\ Get(kc') = Undefined
    BY <1>1, <1>3, <2>1, <2>3 DEF SeenOK, HeldOK, Released, Get
  <2>7. EffectOK(kc')
    BY <1>1, <2>3, <2>6, UndefinedIs, EffectsKept
  <2> QED
    BY <2>3, <2>4, <2>5, <2>6, <2>7 DEF KCInv, CacheOK
<1> QED
  BY <1>4, <1>5

LEMMA CollectKeeps ==
  ASSUME CacheAssumption, KCInv, NEW t \in RSlots, CollectRecord(t) PROVE KCInv'
<1>1. kc \in CacheState /\ SpareOK(kc) /\ ListenersOK(kc) /\ EffectOK(kc) /\ HeldOK(kc)
  BY DEF KCInv, CacheOK
<1>2. PICK old \in Record : old = kc.recs[t]
  BY <1>1, StateIs
<1> DEFINE new == [old EXCEPT !.gcTimer = FALSE]
           recs == [kc.recs EXCEPT ![t] = new]
<1>3. new \in Record /\ new.subs = old.subs /\ new.gcTimer = FALSE
  BY DEF Record
<1> HIDE DEF new
<1>4. recs \in [RSlots -> Record] /\ recs[t] = new /\ \A q \in RSlots : q # t => recs[q] = kc.recs[q]
  BY <1>1, <1>3, RecordSet
<1> DEFINE s1 == Deleted(kc)
<1>5. /\ s1 \in CacheState /\ s1.stored = 0 /\ s1.recs = kc.recs /\ Released(kc, s1)
      /\ s1.mut = kc.mut /\ s1.lost = kc.lost /\ s1.cleared = kc.cleared
  BY <1>1, DeletedIs
<1>6. kc' = [s1 EXCEPT !.recs[t].gcTimer = FALSE]
  BY DEF CollectRecord
<1> HIDE DEF s1
<1>15. kc' = [s1 EXCEPT !.recs = recs]
  BY <1>2, <1>5, <1>6 DEF new
<1> HIDE DEF recs
<1>7. /\ kc' \in CacheState /\ kc'.recs = recs /\ kc'.stored = 0 /\ kc'.sub = s1.sub
      /\ kc'.mut = kc.mut /\ kc'.lost = kc.lost /\ kc'.cleared = kc.cleared
  BY <1>4, <1>5, <1>15 DEF CacheState
<1>8. kc.recs[t].gcTimer /\ kc.recs[t].subs = {}
  BY <1>1 DEF CollectRecord, ListenersOK
<1>9. \A q \in RSlots : Busy(kc', q) => q # t /\ Busy(kc, q)
  BY <1>2, <1>3, <1>4, <1>7, <1>8 DEF Busy
<1>10. SpareOK(kc')
  <2>1. Busy(kc, t)
    BY <1>8 DEF Busy
  <2>2. CASE t = kc.stored
    BY <1>1, <1>7, <1>9, <2>2 DEF SpareOK
  <2>3. CASE t # kc.stored
    <3>1. /\ (kc.cleared \/ kc.lost) /\ Subscribers # {} /\ Collects
          /\ \A q \in RSlots : Busy(kc, q) /\ q # kc.stored => q = t
      BY <1>1, <1>8, <2>1, <2>3 DEF SpareOK, ListenersOK
    <3> QED
      BY <1>1, <1>7, <1>9, <3>1 DEF SpareOK
  <2> QED
    BY <2>2, <2>3
<1>11. ListenersOK(kc')
  <2>1. \A q \in RSlots : recs[q].subs = kc.recs[q].subs /\ (recs[q].gcTimer => kc.recs[q].gcTimer)
    BY <1>2, <1>3, <1>4
  <2>2. \A q \in RSlots : kc.recs[q].subs \subseteq Subscribers
    BY <1>1, StateIs
  <2> QED
    BY <1>1, <1>5, <1>7, <2>1, <2>2 DEF ListenersOK, Released
<1>12. SeenOK(kc') /\ Get(kc') = Undefined
  BY <1>7 DEF SeenOK, Get
<1>13. EffectOK(kc')
  <2>1. \A m \in Mutations : m \notin Get(kc')
    BY <1>12, UndefinedIs
  <2> QED
    BY <1>1, <1>7, <2>1, EffectsKept
<1>14. HeldOK(kc')
  BY <1>1, <1>5, <1>7 DEF HeldOK, Released
<1> QED
  BY <1>7, <1>10, <1>11, <1>12, <1>13, <1>14 DEF KCInv, CacheOK

LEMMA ClearKeeps == ASSUME CacheAssumption, KCInv, ClearCache PROVE KCInv'
<1>1. kc \in CacheState /\ SpareOK(kc) /\ ListenersOK(kc) /\ EffectOK(kc) /\ ~kc.cleared
  BY DEF KCInv, CacheOK, ClearCache
<1> DEFINE stopped(r) == [kc.recs[r] EXCEPT !.gcTimer = FALSE]
           recs == [r \in RSlots |-> IF r = kc.stored THEN stopped(r) ELSE kc.recs[r]]
           subs == IF kc.stored # 0 THEN kc.recs[kc.stored].subs ELSE {}
           sub == Told(kc, subs, Undefined)
<1>2. ASSUME NEW r \in RSlots
      PROVE  stopped(r) \in Record /\ stopped(r).subs = kc.recs[r].subs /\ ~stopped(r).gcTimer
  <2>1. PICK old \in Record : old = kc.recs[r]
    BY <1>1, StateIs
  <2>2. LET new == [old EXCEPT !.gcTimer = FALSE]
        IN  new \in Record /\ new.subs = old.subs /\ ~new.gcTimer
    BY DEF Record
  <2> QED
    BY <2>1, <2>2
<1>3. kc'.stored = 0 /\ kc'.cleared = TRUE /\ kc'.recs = recs /\ kc'.sub = sub
      /\ kc' = [kc EXCEPT !.stored = 0, !.cleared = TRUE, !.recs = recs, !.sub = sub]
  BY <1>1 DEF ClearCache, CacheState, Told
<1> HIDE DEF stopped
<1>4. /\ recs \in [RSlots -> Record]
      /\ \A r \in RSlots : /\ recs[r].subs = kc.recs[r].subs
                           /\ r = kc.stored => ~recs[r].gcTimer
                           /\ r # kc.stored => recs[r] = kc.recs[r]
  BY <1>1, <1>2, StateIs
<1>5. /\ sub \in [Subscribers -> Listener]
      /\ \A c \in Subscribers : sub[c].life = kc.sub[c].life /\ sub[c].rec = kc.sub[c].rec
  BY <1>1, ToldIs, UndefinedIs
<1> HIDE DEF recs, sub
<1>6. /\ kc' \in CacheState /\ kc'.mut = kc.mut /\ kc'.lost = kc.lost
  BY <1>1, <1>3, <1>4, <1>5 DEF CacheState
<1>7. \A q \in RSlots : Busy(kc', q) => Subscribers # {} /\ (Collects => q = kc.stored)
  <2>1. ASSUME NEW q \in RSlots, Busy(kc', q) PROVE Subscribers # {} /\ (Collects => q = kc.stored)
    <3>1. Busy(kc, q)
      BY <1>3, <1>4, <2>1 DEF Busy
    <3>2. q # kc.stored => kc.lost /\ ~Collects /\ Subscribers # {}
      BY <1>1, <3>1 DEF SpareOK
    <3>3. q = kc.stored => kc.recs[q].subs # {}
      BY <1>3, <1>4, <2>1 DEF Busy
    <3> QED
      BY <1>1, <3>2, <3>3, StateIs
  <2> QED
    BY <2>1
<1>8. SpareOK(kc')
  BY <1>1, <1>3, <1>6, <1>7 DEF SpareOK
<1>9. ListenersOK(kc')
  <2>1. \A q \in RSlots : recs[q].subs = kc.recs[q].subs /\ (recs[q].gcTimer => kc.recs[q].gcTimer)
    BY <1>4
  <2>2. \A q \in RSlots : kc.recs[q].subs \subseteq Subscribers
    BY <1>1, StateIs
  <2> QED
    BY <1>1, <1>3, <1>5, <2>1, <2>2 DEF ListenersOK
<1>10. SeenOK(kc') /\ Get(kc') = Undefined
  BY <1>3 DEF SeenOK, Get
<1>11. EffectOK(kc')
  <2>1. \A m \in Mutations : m \notin Get(kc')
    BY <1>10, UndefinedIs
  <2> QED
    BY <1>1, <1>6, <2>1, EffectsKept
<1>12. HeldOK(kc')
  BY <1>3 DEF HeldOK
<1> QED
  BY <1>6, <1>8, <1>9, <1>10, <1>11, <1>12 DEF KCInv, CacheOK

LEMMA CacheStarts == ASSUME CacheAssumption, KCInit PROVE KCInv
<1>1. NoRecord \in Record /\ NoRecord.subs = {} /\ ~NoRecord.gcTimer
  BY UndefinedIs DEF NoRecord, Record
<1>2. kc \in CacheState
  BY <1>1, UndefinedIs DEF KCInit, CacheState, RecordCalls, Listener
<1>3. \A r \in RSlots : ~Busy(kc, r) /\ kc.recs[r].subs = {}
  BY <1>1 DEF KCInit, Busy
<1>4. SpareOK(kc) /\ ListenersOK(kc) /\ SeenOK(kc) /\ HeldOK(kc)
  <2>1. \A r \in RSlots : ~kc.recs[r].gcTimer
    BY <1>3 DEF Busy
  <2>2. kc.stored = 0 /\ \A c \in Subscribers : kc.sub[c].life = "none"
    BY DEF KCInit
  <2>3. ~kc.lost
    BY DEF KCInit
  <2> QED
    BY <1>3, <2>1, <2>2, <2>3 DEF SpareOK, ListenersOK, SeenOK, HeldOK
<1>5. EffectOK(kc)
  <2>1. \A m \in Mutations : kc.mut[m].pc = "idle" /\ m \notin Get(kc) /\ kc.mut[m].snapshot = Undefined
    BY UndefinedIs DEF KCInit, Get
  <2> QED
    BY <2>1, UndefinedIs DEF EffectOK
<1> QED
  BY <1>2, <1>4, <1>5 DEF KCInv, CacheOK

LEMMA CacheStep == ASSUME CacheAssumption, KCInv, [KCNext]_kc PROVE KCInv'
<1>1. CASE UNCHANGED kc
  BY <1>1 DEF KCInv, CacheOK, SpareOK, ListenersOK, SeenOK, HeldOK, EffectOK, Brought, Busy, Get
<1>2. CASE KCNext
  BY <1>2, AppSetsKeeps, AppInvalidatesKeeps, ClearKeeps, SubscribeKeeps, UnsubscribeKeeps, AgainKeeps,
     CollectKeeps, ExecuteKeeps, FailsKeeps, SucceedsKeeps DEF KCNext
<1> QED
  BY <1>1, <1>2

LEMMA CacheTypes == KCInv => KCTypeOK
<1> SUFFICES ASSUME KCInv PROVE KCTypeOK
  OBVIOUS
<1>1. kc \in CacheState
  BY DEF KCInv, CacheOK
<1>2. ASSUME NEW r \in RSlots
      PROVE  kc.recs[r].data \subseteq Mutations \cup {Base} \cup Undefined /\ kc.recs[r].subs \subseteq Subscribers
  <2>1. kc.recs[r] \in Record
    BY <1>1 DEF CacheState
  <2> QED
    BY <2>1 DEF Record, Data
<1> QED
  BY <1>1, <1>2 DEF KCTypeOK, CacheState, RecordCalls

LEMMA CacheFromInv == ASSUME CacheAssumption, KCInv PROVE FailedEffectGone /\ SubscriberCurrent
<1>1. kc \in CacheState /\ SpareOK(kc) /\ ListenersOK(kc) /\ SeenOK(kc) /\ EffectOK(kc) /\ HeldOK(kc)
  BY DEF KCInv, CacheOK
<1>2. FailedEffectGone
  BY <1>1 DEF FailedEffectGone, EffectOK, Brought
<1>3. SubscriberCurrent
  <2>1. SUFFICES ASSUME ~kc.cleared, ~kc.lost, NEW c \in Subscribers, kc.sub[c].life = "live"
                 PROVE  kc.stored = kc.sub[c].rec /\ kc.sub[c].seen = Get(kc)
    BY DEF SubscriberCurrent
  <2>2. kc.sub[c].rec \in RSlots /\ c \in kc.recs[kc.sub[c].rec].subs
    BY <1>1, <2>1 DEF ListenersOK
  <2>3. kc.stored = kc.sub[c].rec
    BY <1>1, <2>1, <2>2 DEF SpareOK, Busy
  <2>4. kc.stored # 0
    BY <2>2, <2>3, SlotsAre
  <2> QED
    BY <1>1, <2>2, <2>3, <2>4 DEF SeenOK
<1> QED
  BY <1>2, <1>3

\* What the cache of the query package promises: what a failed mutation wrote is seen
\* again only where another failed one rolled back to a snapshot of it; until clear(), or
\* with gcTime 0 a second call of an unsubscribe function, whoever listens has read or
\* been told what a reader finds.
THEOREM CacheKeepsPromises ==
  ASSUME CacheAssumption
  PROVE  KCInit /\ [][KCNext]_kc => [](FailedEffectGone /\ SubscriberCurrent)
<1>1. KCInit => KCInv
  BY CacheStarts
<1>2. KCInv /\ [KCNext]_kc => KCInv'
  BY CacheStep
<1>3. KCInv => FailedEffectGone /\ SubscriberCurrent
  BY CacheFromInv
<1> QED
  BY <1>1, <1>2, <1>3, PTL

-----------------------------------------------------------------------------
(* QueryClient: its record, and what is true of it between two steps *)

Entry == [data : 0 .. MaxVersion, fresh : BOOLEAN, err : BOOLEAN, obs : SUBSET Queries,
          timer : BOOLEAN]
Fetch == [st : FetchStates, got : 0 .. MaxVersion, attempt : 0 .. Retry,
          waiters : SUBSET Queries, overtaken : BOOLEAN]
Query == [life : {"none", "live", "disposed"}, entry : Slots \cup {0}, data : 0 .. MaxVersion,
          error : BOOLEAN, status : Statuses, isFetching : BOOLEAN]
ClientState ==
  [entries : [Slots -> Entry], cached : Slots \cup {0}, fetches : [Slots -> Fetch],
   inflight : Slots \cup {0}, q : [Queries -> Query], cleared : BOOLEAN,
   orphans : Nat, again : 0 .. Again, lost : BOOLEAN]

Held(s, e) == s.entries[e].obs # {}
Active(s, f) == s.fetches[f].st # "none"

\* Only clear() and a stray timer leave an entry behind that is observed but not cached.
SpareEntries(s) == ~s.cleared /\ ~s.lost => \A e \in Slots : Held(s, e) => e = s.cached

\* Only clear() leaves a fetch under way that is not the one in flight; it is called
\* once, so there is one.
SpareFetches(s) ==
  \A f \in Slots : Active(s, f) /\ f # s.inflight =>
    s.cleared /\ \A g \in Slots : Active(s, g) /\ g # s.inflight => g = f

\* The timer of an entry runs while nobody observes it, and the live queries observe
\* each its own entry.
ObserversOK(s) ==
  /\ \A e \in Slots : s.entries[e].timer => s.entries[e].obs = {}
  /\ \A i \in Queries : s.q[i].life = "live" =>
       s.q[i].entry \in Slots /\ i \in s.entries[s.q[i].entry].obs
  /\ \A e \in Slots : \A i \in s.entries[e].obs : s.q[i].life = "live" /\ s.q[i].entry = e

ClientOK(s) == s \in ClientState /\ SpareEntries(s) /\ SpareFetches(s) /\ ObserversOK(s)

\* Nothing is newer than the server; before clear(), an answer that no manual write
\* overtook is not older than the data it will replace.
DataOK(s, server) ==
  /\ CachedData(s) <= server
  /\ \A f \in Slots : s.fetches[f].got <= server
  /\ ~s.cleared => \A f \in Slots : s.fetches[f].st = "answered" /\ ~s.fetches[f].overtaken
                                      => CachedData(s) <= s.fetches[f].got

QCInv == ClientOK(qc) /\ qcServer \in 1 .. MaxVersion /\ DataOK(qc, qcServer)

LEMMA QSlotsAre ==
  ASSUME QueryAssumption
  PROVE  0 \notin Slots /\ Slots \subseteq Nat /\ {1, 2} \subseteq Slots
<1>1. PICK n \in Nat : n = Cardinality(Queries)
  BY FS_CardinalityType DEF QueryAssumption
<1>2. Slots = 1 .. (n + 2)
  BY <1>1 DEF Slots
<1> QED
  BY <1>2

LEMMA QStateIs ==
  ASSUME NEW s \in ClientState
  PROVE  /\ s.entries \in [Slots -> Entry] /\ s.cached \in Slots \cup {0}
         /\ s.fetches \in [Slots -> Fetch] /\ s.inflight \in Slots \cup {0}
         /\ s.q \in [Queries -> Query] /\ s.cleared \in BOOLEAN /\ s.lost \in BOOLEAN
         /\ s.orphans \in Nat /\ s.again \in 0 .. Again
         /\ \A e \in Slots : s.entries[e] \in Entry /\ s.entries[e].obs \subseteq Queries
                             /\ s.entries[e].data \in 0 .. MaxVersion
                             /\ s.entries[e].timer \in BOOLEAN /\ s.entries[e].fresh \in BOOLEAN
         /\ \A f \in Slots : s.fetches[f] \in Fetch /\ s.fetches[f].waiters \subseteq Queries
                             /\ s.fetches[f].got \in 0 .. MaxVersion
                             /\ s.fetches[f].overtaken \in BOOLEAN
                             /\ s.fetches[f].st \in FetchStates
                             /\ s.fetches[f].attempt \in 0 .. Retry
         /\ \A i \in Queries : s.q[i] \in Query
<1>1. /\ s.entries \in [Slots -> Entry] /\ s.cached \in Slots \cup {0}
      /\ s.fetches \in [Slots -> Fetch] /\ s.inflight \in Slots \cup {0}
      /\ s.q \in [Queries -> Query] /\ s.cleared \in BOOLEAN /\ s.lost \in BOOLEAN
      /\ s.orphans \in Nat /\ s.again \in 0 .. Again
  BY DEF ClientState
<1>2. /\ \A e \in Slots : s.entries[e] \in Entry
      /\ \A f \in Slots : s.fetches[f] \in Fetch
      /\ \A i \in Queries : s.q[i] \in Query
  BY <1>1
<1>3. \A e \in Slots : s.entries[e].obs \subseteq Queries
                       /\ s.entries[e].data \in 0 .. MaxVersion
                       /\ s.entries[e].timer \in BOOLEAN /\ s.entries[e].fresh \in BOOLEAN
  BY <1>2 DEF Entry
<1>4. \A f \in Slots : s.fetches[f].waiters \subseteq Queries
                       /\ s.fetches[f].got \in 0 .. MaxVersion
                       /\ s.fetches[f].overtaken \in BOOLEAN
                       /\ s.fetches[f].st \in FetchStates
                       /\ s.fetches[f].attempt \in 0 .. Retry
  BY <1>2 DEF Fetch
<1> QED
  BY <1>1, <1>2, <1>3, <1>4

LEMMA BlanksAre ==
  ASSUME QueryAssumption
  PROVE  NoEntry \in Entry /\ NoFetch \in Fetch /\ NoQuery \in Query
  BY QSlotsAre DEF QueryAssumption, NoEntry, NoFetch, NoQuery, Entry, Fetch, Query, FetchStates,
     Statuses

\* Some entry is unreachable, for each observed one has a query of its own; and some
\* fetch is free when none is in flight.
LEMMA FreeEntryIs ==
  ASSUME QueryAssumption, NEW s \in ClientState, ObserversOK(s), s.cached = 0
  PROVE  FreeEntry(s) \in Slots /\ ~Held(s, FreeEntry(s))
<1>1. \E e \in Slots : ~Held(s, e)
  <2> SUFFICES ASSUME \A e \in Slots : Held(s, e) PROVE FALSE
    OBVIOUS
  <2> DEFINE own == {s.q[i].entry : i \in Queries}
  <2>1. ASSUME NEW e \in Slots PROVE e \in own
    <3>1. PICK i : i \in s.entries[e].obs
      BY DEF Held
    <3>2. i \in Queries /\ s.q[i].entry = e
      BY <3>1, QStateIs DEF ObserversOK
    <3> QED
      BY <3>2
  <2>2. PICK n \in Nat : n = Cardinality(Queries)
    BY FS_CardinalityType DEF QueryAssumption
  <2>3. Slots = 1 .. (n + 2) /\ IsFiniteSet(Slots) /\ Cardinality(Slots) = n + 2
    <3>1. Slots = 1 .. (n + 2) /\ 1 \in Int /\ n + 2 \in Int
      BY <2>2 DEF Slots
    <3>2. IsFiniteSet(1 .. (n + 2))
          /\ Cardinality(1 .. (n + 2)) = IF 1 > n + 2 THEN 0 ELSE n + 2 - 1 + 1
      BY <3>1, FS_Interval
    <3> QED
      BY <3>1, <3>2
  <2>4. IsFiniteSet(own) /\ Cardinality(own) <= n
    <3> DEFINE entry == [i \in Queries |-> s.q[i].entry]
    <3>1. entry \in [Queries -> own]
      OBVIOUS
    <3>2. \A e \in own : \E i \in Queries : entry[i] = e
      OBVIOUS
    <3>3. entry \in Surjection(Queries, own)
      BY <3>1, <3>2 DEF Surjection
    <3> HIDE DEF own, entry
    <3>4. IsFiniteSet(own) /\ Cardinality(own) <= Cardinality(Queries)
      BY <3>3, FS_Surjection DEF QueryAssumption
    <3> QED
      BY <2>2, <3>4
  <2> HIDE DEF own
  <2>5. Slots \subseteq own
    BY <2>1
  <2>6. Cardinality(Slots) <= Cardinality(own) /\ Cardinality(own) \in Nat
    BY <2>4, <2>5, FS_Subset, FS_CardinalityType
  <2> QED
    BY <2>2, <2>3, <2>4, <2>6
<1>2. \E e \in Slots : Unreachable(s, e)
  BY <1>1, QSlotsAre DEF Held, Unreachable
<1>3. FreeEntry(s) \in Slots /\ Unreachable(s, FreeEntry(s))
  BY <1>2 DEF FreeEntry
<1> QED
  BY <1>3 DEF Held, Unreachable

LEMMA FreeFetchIs ==
  ASSUME QueryAssumption, NEW s \in ClientState, SpareFetches(s), s.inflight = 0
  PROVE  FreeFetch(s) \in Slots /\ ~Active(s, FreeFetch(s))
<1>1. \E f \in Slots : s.fetches[f].st = "none"
  BY QSlotsAre DEF SpareFetches, Active
<1>2. FreeFetch(s) \in Slots /\ s.fetches[FreeFetch(s)].st = "none"
  BY <1>1 DEF FreeFetch
<1> QED
  BY <1>2 DEF Active

-----------------------------------------------------------------------------
(* The parts of the record, changed one at a time *)

WithEntries(s, entries, cached) == [s EXCEPT !.entries = entries, !.cached = cached]
WithFetches(s, fetches, inflight) == [s EXCEPT !.fetches = fetches, !.inflight = inflight]
WithQ(s, q) == [s EXCEPT !.q = q]

LEMMA WithEntriesIs ==
  ASSUME NEW s \in ClientState, NEW entries \in [Slots -> Entry], NEW cached \in Slots \cup {0}
  PROVE  LET r == WithEntries(s, entries, cached)
         IN  /\ r \in ClientState /\ r.entries = entries /\ r.cached = cached
             /\ r.fetches = s.fetches /\ r.inflight = s.inflight /\ r.q = s.q
             /\ r.cleared = s.cleared /\ r.lost = s.lost
  BY DEF WithEntries, ClientState

LEMMA WithFetchesIs ==
  ASSUME NEW s \in ClientState, NEW fetches \in [Slots -> Fetch], NEW inflight \in Slots \cup {0}
  PROVE  LET r == WithFetches(s, fetches, inflight)
         IN  /\ r \in ClientState /\ r.fetches = fetches /\ r.inflight = inflight
             /\ r.entries = s.entries /\ r.cached = s.cached /\ r.q = s.q
             /\ r.cleared = s.cleared /\ r.lost = s.lost
  BY DEF WithFetches, ClientState

LEMMA WithQIs ==
  ASSUME NEW s \in ClientState, NEW q \in [Queries -> Query]
  PROVE  LET r == WithQ(s, q)
         IN  /\ r \in ClientState /\ r.q = q
             /\ r.entries = s.entries /\ r.cached = s.cached /\ r.fetches = s.fetches
             /\ r.inflight = s.inflight /\ r.cleared = s.cleared /\ r.lost = s.lost
  BY DEF WithQ, ClientState

WithTimers(s, orphans, again, lost) ==
  [s EXCEPT !.orphans = orphans, !.again = again, !.lost = lost]

LEMMA WithTimersIs ==
  ASSUME NEW s \in ClientState, NEW orphans \in Nat, NEW again \in 0 .. Again, NEW lost \in BOOLEAN
  PROVE  LET r == WithTimers(s, orphans, again, lost)
         IN  /\ r \in ClientState /\ r.entries = s.entries /\ r.cached = s.cached
             /\ r.fetches = s.fetches /\ r.inflight = s.inflight /\ r.q = s.q
             /\ r.cleared = s.cleared /\ r.lost = lost
             /\ r.orphans = orphans /\ r.again = again
  BY DEF WithTimers, ClientState

LEMMA EntrySet ==
  ASSUME NEW s \in ClientState, NEW e \in Slots, NEW new \in Entry
  PROVE  LET entries == [s.entries EXCEPT ![e] = new]
         IN  /\ entries \in [Slots -> Entry] /\ entries[e] = new
             /\ \A d \in Slots : d # e => entries[d] = s.entries[d]
  BY DEF ClientState

LEMMA FetchSet ==
  ASSUME NEW s \in ClientState, NEW f \in Slots, NEW new \in Fetch
  PROVE  LET fetches == [s.fetches EXCEPT ![f] = new]
         IN  /\ fetches \in [Slots -> Fetch] /\ fetches[f] = new
             /\ \A g \in Slots : g # f => fetches[g] = s.fetches[g]
  BY DEF ClientState

\* What a query shows changes, not what it is.
SameQueries(s, q) ==
  q \in [Queries -> Query] /\ \A i \in Queries : q[i].life = s.q[i].life /\ q[i].entry = s.q[i].entry

\* r is s with other things shown and perhaps more waiters, or a fetch begun.
Alike(r, s) ==
  /\ r \in ClientState /\ r.entries = s.entries /\ r.cached = s.cached /\ r.cleared = s.cleared /\ r.lost = s.lost
  /\ SameQueries(s, r.q)
  /\ \A f \in Slots :
       \/ /\ r.fetches[f].st = s.fetches[f].st /\ r.fetches[f].got = s.fetches[f].got
          /\ r.fetches[f].overtaken = s.fetches[f].overtaken
       \/ /\ ~Active(s, f) /\ s.inflight = 0 /\ r.inflight = f
          /\ r.fetches[f].st = "asked" /\ r.fetches[f].got = 0
  /\ r.inflight = s.inflight \/ (s.inflight = 0 /\ r.inflight \in Slots)

LEMMA AlikeSelf == ASSUME NEW s \in ClientState PROVE Alike(s, s)
  BY DEF Alike, SameQueries, ClientState

LEMMA AlikeOK ==
  ASSUME QueryAssumption, NEW s, ClientOK(s), NEW r, Alike(r, s)
  PROVE  /\ ClientOK(r) /\ CachedData(r) = CachedData(s)
         /\ \A server \in Nat : DataOK(s, server) => DataOK(r, server)
<1>1. s \in ClientState /\ SpareEntries(s) /\ SpareFetches(s) /\ ObserversOK(s)
  BY DEF ClientOK
<1>2. SpareEntries(r)
  BY <1>1 DEF SpareEntries, Held, Alike
<1>3. ObserversOK(r)
  <2>1. ASSUME NEW e \in Slots, NEW i \in r.entries[e].obs PROVE r.q[i].life = "live" /\ r.q[i].entry = e
    <3>1. i \in s.entries[e].obs /\ i \in Queries
      BY <1>1, <2>1, QStateIs DEF Alike
    <3> QED
      BY <1>1, <3>1 DEF ObserversOK, Alike, SameQueries
  <2> QED
    BY <1>1, <2>1 DEF ObserversOK, Alike, SameQueries
<1>4. SpareFetches(r)
  <2>1. \A f \in Slots : Active(r, f) /\ f # r.inflight => Active(s, f) /\ f # s.inflight
    BY QSlotsAre DEF Active, Alike
  <2> QED
    BY <1>1, <2>1 DEF SpareFetches, Alike
<1>5. CachedData(r) = CachedData(s)
  BY DEF CachedData, Alike
<1>6. ASSUME NEW server \in Nat, DataOK(s, server) PROVE DataOK(r, server)
  <2>1. \A f \in Slots : r.fetches[f].got <= server
    BY <1>6 DEF DataOK, Alike
  <2>2. \A f \in Slots : r.fetches[f].st = "answered" /\ ~r.fetches[f].overtaken =>
          /\ s.fetches[f].st = "answered" /\ ~s.fetches[f].overtaken
          /\ r.fetches[f].got = s.fetches[f].got
    BY DEF Alike
  <2> QED
    BY <1>5, <1>6, <2>1, <2>2 DEF DataOK, Alike
<1> QED
  BY <1>2, <1>3, <1>4, <1>5, <1>6 DEF ClientOK, Alike

LEMMA AlikeTrans ==
  ASSUME QueryAssumption, NEW s, NEW r, NEW u, Alike(r, s), Alike(u, r)
  PROVE  Alike(u, s)
<1>1. SameQueries(s, u.q)
  BY DEF Alike, SameQueries
<1>2. u.inflight = s.inflight \/ (s.inflight = 0 /\ u.inflight \in Slots)
  BY QSlotsAre DEF Alike
<1>3. ASSUME NEW f \in Slots
      PROVE  \/ /\ u.fetches[f].st = s.fetches[f].st /\ u.fetches[f].got = s.fetches[f].got
                /\ u.fetches[f].overtaken = s.fetches[f].overtaken
             \/ /\ ~Active(s, f) /\ s.inflight = 0 /\ u.inflight = f
                /\ u.fetches[f].st = "asked" /\ u.fetches[f].got = 0
  BY QSlotsAre DEF Alike, Active
<1> QED
  BY <1>1, <1>2, <1>3 DEF Alike

-----------------------------------------------------------------------------
(* What the operators of the client do to its record *)

LEMMA FetchQueryIs ==
  ASSUME QueryAssumption, NEW s \in ClientState, SpareFetches(s), NEW callers \in SUBSET Queries
  PROVE  Alike(FetchQuery(s, callers), s)
<1> DEFINE r == FetchQuery(s, callers)
<1>1. CASE s.inflight # 0
  <2>1. PICK f \in Slots : f = s.inflight
    BY <1>1, QStateIs
  <2>2. PICK old \in Fetch : old = s.fetches[f]
    BY QStateIs
  <2> DEFINE new == [old EXCEPT !.waiters = @ \cup callers]
             fetches == [s.fetches EXCEPT ![f] = new]
  <2>3. new \in Fetch /\ new.st = old.st /\ new.got = old.got /\ new.overtaken = old.overtaken
    BY DEF Fetch
  <2>4. r = [s EXCEPT !.fetches = fetches]
    BY <1>1, <2>1, <2>2 DEF FetchQuery
  <2> HIDE DEF new, r
  <2>5. fetches \in [Slots -> Fetch] /\ fetches[f] = new
        /\ \A g \in Slots : g # f => fetches[g] = s.fetches[g]
    BY <2>3, FetchSet
  <2> HIDE DEF fetches
  <2>6. r = WithFetches(s, fetches, s.inflight)
    BY <2>4 DEF WithFetches, ClientState
  <2>7. /\ r \in ClientState /\ r.fetches = fetches /\ r.inflight = s.inflight
        /\ r.entries = s.entries /\ r.cached = s.cached /\ r.q = s.q /\ r.cleared = s.cleared /\ r.lost = s.lost
    BY <2>5, <2>6, WithFetchesIs, QStateIs
  <2>8. \A g \in Slots : /\ r.fetches[g].st = s.fetches[g].st /\ r.fetches[g].got = s.fetches[g].got
                         /\ r.fetches[g].overtaken = s.fetches[g].overtaken
    BY <2>2, <2>3, <2>5, <2>7
  <2>9. SameQueries(s, r.q)
    BY <2>7 DEF SameQueries, ClientState
  <2> QED
    BY <2>7, <2>8, <2>9 DEF Alike, r
<1>2. CASE s.inflight = 0
  <2>1. PICK f \in Slots : f = FreeFetch(s) /\ ~Active(s, f)
    BY <1>2, FreeFetchIs
  <2> DEFINE new == [NoFetch EXCEPT !.st = "asked", !.waiters = callers]
             fetches == [s.fetches EXCEPT ![f] = new]
  <2>2. new \in Fetch /\ new.st = "asked" /\ new.got = 0
    BY BlanksAre DEF Fetch, NoFetch, FetchStates
  <2>3. r = [s EXCEPT !.inflight = f, !.fetches = fetches]
    BY <1>2, <2>1 DEF FetchQuery
  <2> HIDE DEF new, r
  <2>4. fetches \in [Slots -> Fetch] /\ fetches[f] = new
        /\ \A g \in Slots : g # f => fetches[g] = s.fetches[g]
    BY <2>2, FetchSet
  <2> HIDE DEF fetches
  <2>5. r = WithFetches(s, fetches, f)
    BY <2>3 DEF WithFetches, ClientState
  <2>6. /\ r \in ClientState /\ r.fetches = fetches /\ r.inflight = f
        /\ r.entries = s.entries /\ r.cached = s.cached /\ r.q = s.q /\ r.cleared = s.cleared /\ r.lost = s.lost
    BY <2>4, <2>5, WithFetchesIs
  <2>7. SameQueries(s, r.q)
    BY <2>6 DEF SameQueries, ClientState
  <2> QED
    BY <1>2, <2>1, <2>2, <2>4, <2>6, <2>7 DEF Alike, r
<1> QED
  BY <1>1, <1>2

LEMMA WithQAlike ==
  ASSUME NEW s \in ClientState, NEW q, SameQueries(s, q)
  PROVE  Alike(WithQ(s, q), s)
<1>1. q \in [Queries -> Query]
  BY DEF SameQueries
<1> DEFINE r == WithQ(s, q)
<1>2. /\ r \in ClientState /\ r.q = q
      /\ r.entries = s.entries /\ r.cached = s.cached /\ r.fetches = s.fetches
      /\ r.inflight = s.inflight /\ r.cleared = s.cleared /\ r.lost = s.lost
  BY <1>1, WithQIs
<1> HIDE DEF r
<1> QED
  BY <1>2 DEF Alike, r

LEMMA ExecuteFetchIs ==
  ASSUME QueryAssumption, NEW s, ClientOK(s), NEW is \in SUBSET Queries
  PROVE  Alike(ExecuteFetch(s, is), s)
<1> DEFINE go == {i \in is : ~s.q[i].isFetching}
           started(r) == [r EXCEPT !.isFetching = TRUE,
                                   !.status = IF @ \in {"idle", "error"} THEN "loading" ELSE @]
           q == [i \in Queries |-> IF i \in go THEN started(s.q[i]) ELSE s.q[i]]
<1>1. s \in ClientState /\ SpareFetches(s)
  BY DEF ClientOK
<1>2. CASE go = {}
  BY <1>1, <1>2, AlikeSelf DEF ExecuteFetch
<1>3. CASE go # {}
  <2>1. ASSUME NEW i \in Queries
        PROVE  /\ started(s.q[i]) \in Query /\ started(s.q[i]).life = s.q[i].life
               /\ started(s.q[i]).entry = s.q[i].entry
    <3>1. PICK old \in Query : old = s.q[i]
      BY <1>1, QStateIs
    <3>2. started(old) \in Query /\ started(old).life = old.life /\ started(old).entry = old.entry
      BY DEF Query, Statuses
    <3> QED
      BY <3>1, <3>2
  <2>2. ExecuteFetch(s, is) = FetchQuery(WithQ(s, q), go)
    BY <1>3 DEF ExecuteFetch, WithQ
  <2> HIDE DEF started
  <2>3. SameQueries(s, q)
    BY <1>1, <2>1, QStateIs DEF SameQueries
  <2> HIDE DEF q
  <2>4. PICK s1 : s1 = WithQ(s, q)
    OBVIOUS
  <2>5. Alike(s1, s)
    BY <1>1, <2>3, <2>4, WithQAlike
  <2>6. ClientOK(s1)
    BY <2>5, AlikeOK
  <2>7. Alike(FetchQuery(s1, go), s1)
    <3>1. s1 \in ClientState /\ SpareFetches(s1)
      BY <2>6 DEF ClientOK
    <3>2. go \in SUBSET Queries
      OBVIOUS
    <3> HIDE DEF go
    <3> QED
      BY <3>1, <3>2, FetchQueryIs
  <2> QED
    BY <2>2, <2>4, <2>5, <2>7, AlikeTrans
<1> QED
  BY <1>2, <1>3

LEMMA SyncIs ==
  ASSUME NEW s \in ClientState, NEW r \in Query
  PROVE  /\ SyncFromCache(s, r) \in Query /\ SyncFromCache(s, r).life = r.life
         /\ SyncFromCache(s, r).entry = r.entry
<1>1. CASE s.cached = 0
  BY <1>1 DEF SyncFromCache
<1>2. CASE s.cached # 0
  <2>1. PICK c \in Entry : c = s.entries[s.cached]
    BY <1>2, QStateIs
  <2> QED
    BY <1>2, <2>1 DEF SyncFromCache, Query, Entry, Statuses
<1> QED
  BY <1>1, <1>2

LEMMA NotifyIs ==
  ASSUME QueryAssumption, NEW s, ClientOK(s), NEW e \in Slots
  PROVE  Alike(NotifyObservers(s, e), s)
<1>1. s \in ClientState /\ s.entries[e].obs \subseteq Queries
  BY QStateIs DEF ClientOK
<1> DEFINE obs == s.entries[e].obs
           q == [i \in Queries |-> IF i \in obs THEN SyncFromCache(s, s.q[i]) ELSE s.q[i]]
<1>2. PICK s1 : s1 = WithQ(s, q)
  OBVIOUS
<1>3. SameQueries(s, q)
  BY <1>1, SyncIs, QStateIs DEF SameQueries
<1>4. NotifyObservers(s, e) = IF IsStale(s1) THEN ExecuteFetch(s1, obs \cap Enabled) ELSE s1
  BY <1>2 DEF NotifyObservers, WithQ
<1> HIDE DEF q
<1>5. Alike(s1, s)
  BY <1>1, <1>2, <1>3, WithQAlike
<1>6. ClientOK(s1)
  BY <1>5, AlikeOK
<1>7. PICK is \in SUBSET Queries : is = obs \cap Enabled
  BY <1>1
<1>8. Alike(ExecuteFetch(s1, is), s1)
  BY <1>6, ExecuteFetchIs
<1>9. Alike(ExecuteFetch(s1, is), s)
  BY <1>5, <1>8, AlikeTrans
<1> HIDE DEF obs
<1> QED
  BY <1>4, <1>5, <1>7, <1>9

\* The entry of the key, which is made when it is not there.
LEMMA EntryThere ==
  ASSUME QueryAssumption, NEW s, ClientOK(s)
  PROVE  LET r == GetOrCreateEntry(s)
         IN  /\ ClientOK(r) /\ r.cached \in Slots
             /\ s.cached # 0 => r = s
             /\ s.cached = 0 => r.entries[r.cached] = NoEntry
             /\ CachedData(r) = CachedData(s)
             /\ r.fetches = s.fetches /\ r.inflight = s.inflight /\ r.q = s.q
             /\ r.cleared = s.cleared /\ r.lost = s.lost
<1>1. s \in ClientState /\ SpareEntries(s) /\ SpareFetches(s) /\ ObserversOK(s)
  BY DEF ClientOK
<1>2. CASE s.cached # 0
  BY <1>1, <1>2, QStateIs DEF GetOrCreateEntry
<1>3. CASE s.cached = 0
  <2>1. PICK e \in Slots : e = FreeEntry(s) /\ ~Held(s, e)
    BY <1>1, <1>3, FreeEntryIs DEF Held
  <2> DEFINE entries == [s.entries EXCEPT ![e] = NoEntry]
             r == GetOrCreateEntry(s)
  <2>2. entries \in [Slots -> Entry] /\ entries[e] = NoEntry
        /\ \A d \in Slots : d # e => entries[d] = s.entries[d]
    BY <1>1, BlanksAre, EntrySet
  <2>3. r = [s EXCEPT !.cached = e, !.entries = entries]
    BY <1>3, <2>1 DEF GetOrCreateEntry
  <2> HIDE DEF entries, r
  <2>4. r = WithEntries(s, entries, e)
    BY <1>1, <2>3 DEF WithEntries, ClientState
  <2>5. /\ r \in ClientState /\ r.entries = entries /\ r.cached = e
        /\ r.fetches = s.fetches /\ r.inflight = s.inflight /\ r.q = s.q
        /\ r.cleared = s.cleared /\ r.lost = s.lost
    BY <1>1, <2>2, <2>4, WithEntriesIs
  <2>6. \A d \in Slots : Held(r, d) => d # e /\ Held(s, d) /\ d # s.cached
    BY <1>3, <2>2, <2>5, QSlotsAre DEF Held, NoEntry
  <2>7. SpareEntries(r)
    BY <1>1, <2>5, <2>6 DEF SpareEntries
  <2>8. SpareFetches(r)
    BY <1>1, <2>5 DEF SpareFetches, Active
  <2>9. ObserversOK(r)
    <3>1. \A i \in Queries : s.q[i].life = "live" => s.q[i].entry # e
      BY <1>1, <2>1 DEF ObserversOK, Held
    <3> QED
      BY <1>1, <2>2, <2>5, <3>1 DEF ObserversOK, NoEntry
  <2>10. CachedData(r) = 0 /\ CachedData(s) = 0
    BY <1>3, <2>2, <2>5, QSlotsAre DEF CachedData, NoEntry
  <2> QED
    BY <1>3, <2>2, <2>5, <2>7, <2>8, <2>9, <2>10 DEF ClientOK, r
<1> QED
  BY <1>2, <1>3

\* The cached entry takes another value; who observes it and its timer stay.
LEMMA EntryChanged ==
  ASSUME QueryAssumption, NEW s, ClientOK(s), s.cached # 0, NEW new \in Entry,
         new.obs = s.entries[s.cached].obs, new.timer = s.entries[s.cached].timer
  PROVE  LET r == WithEntries(s, [s.entries EXCEPT ![s.cached] = new], s.cached)
         IN  /\ ClientOK(r) /\ r.cached = s.cached /\ CachedData(r) = new.data
             /\ r.fetches = s.fetches /\ r.inflight = s.inflight /\ r.q = s.q
             /\ r.cleared = s.cleared /\ r.lost = s.lost
<1>1. s \in ClientState /\ SpareEntries(s) /\ SpareFetches(s) /\ ObserversOK(s)
  BY DEF ClientOK
<1>2. PICK e \in Slots : e = s.cached
  BY <1>1, QStateIs
<1> DEFINE entries == [s.entries EXCEPT ![e] = new]
           r == WithEntries(s, entries, e)
<1>3. entries \in [Slots -> Entry] /\ entries[e] = new
      /\ \A d \in Slots : d # e => entries[d] = s.entries[d]
  BY <1>1, EntrySet
<1> HIDE DEF entries
<1>4. /\ r \in ClientState /\ r.entries = entries /\ r.cached = e
      /\ r.fetches = s.fetches /\ r.inflight = s.inflight /\ r.q = s.q
      /\ r.cleared = s.cleared /\ r.lost = s.lost
  BY <1>1, <1>3, WithEntriesIs
<1> HIDE DEF r
<1>5. \A d \in Slots : r.entries[d].obs = s.entries[d].obs /\ r.entries[d].timer = s.entries[d].timer
  BY <1>2, <1>3, <1>4
<1>6. SpareEntries(r)
  BY <1>1, <1>2, <1>4, <1>5 DEF SpareEntries, Held
<1>7. SpareFetches(r)
  BY <1>1, <1>4 DEF SpareFetches, Active
<1>8. ObserversOK(r)
  BY <1>1, <1>4, <1>5 DEF ObserversOK
<1>9. CachedData(r) = new.data
  BY <1>3, <1>4, QSlotsAre DEF CachedData
<1> QED
  BY <1>2, <1>4, <1>6, <1>7, <1>8, <1>9 DEF ClientOK, r, entries

\* setQueryData: the data are there; fetches under way stay as they are.
LEMMA SetQueryDataIs ==
  ASSUME QueryAssumption, NEW s, ClientOK(s), NEW v \in 0 .. MaxVersion
  PROVE  \E u : /\ ClientOK(u) /\ CachedData(u) = v /\ Alike(SetQueryData(s, v), u)
                /\ u.fetches = s.fetches /\ u.inflight = s.inflight /\ u.q = s.q
                /\ u.cleared = s.cleared /\ u.lost = s.lost
<1>1. PICK s1 : s1 = GetOrCreateEntry(s)
  OBVIOUS
<1>2. /\ ClientOK(s1) /\ s1.cached \in Slots /\ s1 \in ClientState
      /\ s.cached # 0 => s1 = s
      /\ s1.fetches = s.fetches /\ s1.inflight = s.inflight /\ s1.q = s.q
      /\ s1.cleared = s.cleared /\ s1.lost = s.lost
  BY <1>1, EntryThere DEF ClientOK
<1>3. PICK e \in Slots : e = s1.cached
  BY <1>2
<1>4. PICK old \in Entry : old = s1.entries[e]
  BY <1>2, QStateIs
<1> DEFINE new == [old EXCEPT !.data = v, !.fresh = Caches, !.err = FALSE]
           s2 == [s1 EXCEPT !.entries[e].data = v, !.entries[e].fresh = Caches,
                            !.entries[e].err = FALSE]
           u0 == WithEntries(s1, [s1.entries EXCEPT ![e] = new], e)
<1>5. new \in Entry /\ new.obs = old.obs /\ new.timer = old.timer /\ new.data = v
  BY DEF QueryAssumption, Entry
<1>6. s2 = u0
  <2> DEFINE changed == [s1.entries EXCEPT ![e].data = v, ![e].fresh = Caches, ![e].err = FALSE]
  <2>1. s2 = [s1 EXCEPT !.entries = changed]
    BY <1>2 DEF ClientState
  <2>2. changed = [s1.entries EXCEPT ![e] = new]
    BY <1>2, <1>4, QStateIs
  <2> HIDE DEF changed, s2, new
  <2> QED
    BY <1>2, <1>3, <2>1, <2>2 DEF WithEntries, ClientState
<1> HIDE DEF new
<1>7. PICK u : u = u0
  OBVIOUS
<1>8. /\ ClientOK(u) /\ CachedData(u) = v /\ u.cached = e
      /\ u.fetches = s1.fetches /\ u.inflight = s1.inflight /\ u.q = s1.q
      /\ u.cleared = s1.cleared /\ u.lost = s1.lost
  BY <1>2, <1>3, <1>4, <1>5, <1>7, EntryChanged, QSlotsAre
<1>9. SetQueryData(s, v) = IF s.cached # 0 THEN NotifyObservers(s2, s2.cached) ELSE s2
  BY <1>1, <1>3 DEF SetQueryData
<1>10. SetQueryData(s, v) = IF s.cached # 0 THEN NotifyObservers(u, e) ELSE u
  BY <1>6, <1>7, <1>8, <1>9
<1>11. Alike(NotifyObservers(u, e), u) /\ Alike(u, u)
  BY <1>8, NotifyIs, AlikeSelf DEF ClientOK
<1> QED
  BY <1>2, <1>8, <1>10, <1>11

\* Fetches go on, none begins and none ends.
LEMMA FetchesChanged ==
  ASSUME QueryAssumption, NEW s, ClientOK(s), NEW fetches \in [Slots -> Fetch],
         \A f \in Slots : fetches[f].st = "none" <=> s.fetches[f].st = "none"
  PROVE  LET r == WithFetches(s, fetches, s.inflight)
         IN  /\ ClientOK(r) /\ CachedData(r) = CachedData(s) /\ r.fetches = fetches
             /\ r.entries = s.entries /\ r.cached = s.cached /\ r.inflight = s.inflight
             /\ r.q = s.q /\ r.cleared = s.cleared /\ r.lost = s.lost
<1> DEFINE r == WithFetches(s, fetches, s.inflight)
<1>1. s \in ClientState /\ SpareEntries(s) /\ SpareFetches(s) /\ ObserversOK(s)
  BY DEF ClientOK
<1>2. /\ r \in ClientState /\ r.fetches = fetches /\ r.inflight = s.inflight
      /\ r.entries = s.entries /\ r.cached = s.cached /\ r.q = s.q /\ r.cleared = s.cleared /\ r.lost = s.lost
  BY <1>1, WithFetchesIs, QStateIs
<1> HIDE DEF r
<1>3. SpareEntries(r)
  BY <1>1, <1>2 DEF SpareEntries, Held
<1>4. SpareFetches(r)
  BY <1>1, <1>2 DEF SpareFetches, Active
<1>5. ObserversOK(r) /\ CachedData(r) = CachedData(s)
  BY <1>1, <1>2 DEF ObserversOK, CachedData
<1> QED
  BY <1>2, <1>3, <1>4, <1>5 DEF ClientOK, r

\* One entry changes: it is held only if it was, and its live queries observe it.
LEMMA EntryAt ==
  ASSUME QueryAssumption, NEW s, ClientOK(s), NEW e \in Slots, NEW new \in Entry,
         new.timer => new.obs = {},
         new.obs # {} => Held(s, e) \/ e = s.cached,
         \A i \in Queries : s.q[i].life = "live" /\ s.q[i].entry = e <=> i \in new.obs
  PROVE  LET r == WithEntries(s, [s.entries EXCEPT ![e] = new], s.cached)
         IN  /\ ClientOK(r) /\ r.cached = s.cached /\ r.entries[e] = new
             /\ \A d \in Slots : d # e => r.entries[d] = s.entries[d]
             /\ new.data = s.entries[e].data => CachedData(r) = CachedData(s)
             /\ r.fetches = s.fetches /\ r.inflight = s.inflight /\ r.q = s.q
             /\ r.cleared = s.cleared /\ r.lost = s.lost
<1> DEFINE entries == [s.entries EXCEPT ![e] = new]
           r == WithEntries(s, entries, s.cached)
<1>1. s \in ClientState /\ SpareEntries(s) /\ SpareFetches(s) /\ ObserversOK(s)
  BY DEF ClientOK
<1>2. entries \in [Slots -> Entry] /\ entries[e] = new
      /\ \A d \in Slots : d # e => entries[d] = s.entries[d]
  BY <1>1, EntrySet
<1> HIDE DEF entries
<1>3. /\ r \in ClientState /\ r.entries = entries /\ r.cached = s.cached
      /\ r.fetches = s.fetches /\ r.inflight = s.inflight /\ r.q = s.q
      /\ r.cleared = s.cleared /\ r.lost = s.lost
  BY <1>1, <1>2, WithEntriesIs, QStateIs
<1> HIDE DEF r
<1>4. \A d \in Slots : Held(r, d) => Held(s, d) \/ d = s.cached
  BY <1>2, <1>3 DEF Held
<1>5. SpareEntries(r)
  BY <1>1, <1>3, <1>4 DEF SpareEntries
<1>6. SpareFetches(r)
  BY <1>1, <1>3 DEF SpareFetches, Active
<1>7. ObserversOK(r)
  <2>1. \A d \in Slots : r.entries[d].timer => r.entries[d].obs = {}
    BY <1>1, <1>2, <1>3 DEF ObserversOK
  <2>2. ASSUME NEW i \in Queries, s.q[i].life = "live"
        PROVE  s.q[i].entry \in Slots /\ i \in r.entries[s.q[i].entry].obs
    <3>1. s.q[i].entry \in Slots /\ i \in s.entries[s.q[i].entry].obs
      BY <1>1, <2>2 DEF ObserversOK
    <3>2. CASE s.q[i].entry = e
      BY <1>2, <1>3, <2>2, <3>1, <3>2
    <3>3. CASE s.q[i].entry # e
      BY <1>2, <1>3, <3>1, <3>3
    <3> QED
      BY <3>2, <3>3
  <2>3. ASSUME NEW d \in Slots, NEW i \in r.entries[d].obs
        PROVE  s.q[i].life = "live" /\ s.q[i].entry = d
    <3>1. i \in Queries
      BY <1>3, <2>3, QStateIs
    <3>2. CASE d = e
      BY <1>2, <1>3, <2>3, <3>1, <3>2
    <3>3. CASE d # e
      BY <1>1, <1>2, <1>3, <2>3, <3>3 DEF ObserversOK
    <3> QED
      BY <3>2, <3>3
  <2> QED
    BY <1>3, <2>1, <2>2, <2>3 DEF ObserversOK
<1>8. new.data = s.entries[e].data => CachedData(r) = CachedData(s)
  <2>1. new.data = s.entries[e].data => \A d \in Slots : r.entries[d].data = s.entries[d].data
    BY <1>2, <1>3
  <2> QED
    BY <1>1, <1>3, <2>1, QStateIs DEF CachedData
<1> QED
  BY <1>2, <1>3, <1>5, <1>6, <1>7, <1>8 DEF ClientOK, r, entries

\* What nobody reaches is blank; no live query observed it.
LEMMA ForgetIs ==
  ASSUME QueryAssumption, NEW s, ClientOK(s)
  PROVE  LET r == Forget(s)
         IN  /\ ClientOK(r) /\ CachedData(r) = CachedData(s) /\ r.cached = s.cached
             /\ r.fetches = s.fetches /\ r.cleared = s.cleared /\ r.lost = s.lost
<1> DEFINE r == Forget(s)
           gone == {e \in Slots : Unreachable(s, e)}
           entries == [e \in Slots |-> IF e \in gone THEN NoEntry ELSE s.entries[e]]
           q == [i \in Queries |-> IF s.q[i].entry \in gone
                                   THEN [s.q[i] EXCEPT !.entry = 0] ELSE s.q[i]]
<1>1. s \in ClientState /\ SpareEntries(s) /\ SpareFetches(s) /\ ObserversOK(s)
  BY DEF ClientOK
<1>2. entries \in [Slots -> Entry]
  BY <1>1, BlanksAre, QStateIs
<1>3. \A e \in Slots : /\ entries[e].obs = s.entries[e].obs
                       /\ entries[e].timer => s.entries[e].timer
                       /\ e = s.cached => entries[e] = s.entries[e]
  BY <1>1 DEF Unreachable, NoEntry
<1>4. ASSUME NEW i \in Queries
      PROVE  /\ q[i] \in Query /\ q[i].life = s.q[i].life
             /\ s.q[i].life = "live" => q[i].entry = s.q[i].entry
  <2>1. PICK one \in Query : one = s.q[i]
    BY <1>1, QStateIs
  <2>2. LET n == [one EXCEPT !.entry = 0] IN n \in Query /\ n.life = one.life
    BY DEF Query
  <2>3. s.q[i].life = "live" => s.q[i].entry \notin gone
    BY <1>1 DEF ObserversOK, Unreachable
  <2> HIDE DEF gone
  <2> QED
    BY <2>1, <2>2, <2>3
<1>5. r = [s EXCEPT !.entries = entries, !.q = q]
  BY DEF Forget
<1>6. q \in [Queries -> Query]
  BY <1>4
<1> HIDE DEF entries, r, q, gone
<1>7. PICK w : w = WithEntries(s, entries, s.cached)
  OBVIOUS
<1>8. /\ w \in ClientState /\ w.entries = entries /\ w.cached = s.cached
      /\ w.fetches = s.fetches /\ w.inflight = s.inflight /\ w.q = s.q
      /\ w.cleared = s.cleared /\ w.lost = s.lost
  BY <1>1, <1>2, <1>7, WithEntriesIs, QStateIs
<1>9. r = WithQ(w, q)
  BY <1>1, <1>5, <1>7 DEF WithQ, WithEntries, ClientState
<1>10. /\ r \in ClientState /\ r.q = q /\ r.entries = entries /\ r.cached = s.cached
       /\ r.fetches = s.fetches /\ r.inflight = s.inflight
       /\ r.cleared = s.cleared /\ r.lost = s.lost
  BY <1>6, <1>8, <1>9, WithQIs
<1>11. \A d \in Slots : Held(r, d) => Held(s, d)
  BY <1>3, <1>10 DEF Held
<1>12. SpareEntries(r)
  BY <1>1, <1>10, <1>11 DEF SpareEntries
<1>13. SpareFetches(r)
  BY <1>1, <1>10 DEF SpareFetches, Active
<1>14. ObserversOK(r)
  <2>1. \A e \in Slots : r.entries[e].timer => r.entries[e].obs = {}
    BY <1>1, <1>3, <1>10 DEF ObserversOK
  <2>2. \A i \in Queries : r.q[i].life = "live" =>
          r.q[i].entry \in Slots /\ i \in r.entries[r.q[i].entry].obs
    BY <1>1, <1>3, <1>4, <1>10 DEF ObserversOK
  <2>3. ASSUME NEW e \in Slots, NEW i \in r.entries[e].obs
        PROVE  r.q[i].life = "live" /\ r.q[i].entry = e
    <3>1. i \in s.entries[e].obs
      BY <1>3, <1>10, <2>3
    <3>2. i \in Queries /\ s.q[i].life = "live" /\ s.q[i].entry = e
      BY <1>1, <3>1, QStateIs DEF ObserversOK
    <3> QED
      BY <1>4, <1>10, <3>2
  <2> QED
    BY <2>1, <2>2, <2>3 DEF ObserversOK
<1>15. CachedData(r) = CachedData(s)
  BY <1>1, <1>3, <1>10, QStateIs DEF CachedData
<1> QED
  BY <1>10, <1>12, <1>13, <1>14, <1>15 DEF ClientOK, r

\* The key is deleted, by the timer or the last observer of the entry e.
LEMMA CollectedIs ==
  ASSUME QueryAssumption, NEW s, ClientOK(s), NEW e \in Slots \cup {0}, e # 0 => ~Held(s, e),
         NEW r, r = Collected(s, e)
  PROVE  /\ ClientOK(r) /\ CachedData(r) = 0 /\ r.cached = 0
         /\ r.fetches = s.fetches /\ r.cleared = s.cleared
<1>1. s \in ClientState /\ SpareEntries(s) /\ SpareFetches(s) /\ ObserversOK(s)
  BY DEF ClientOK
<1>2. PICK lost \in BOOLEAN : lost <=> s.lost \/ s.cached \notin {0, e}
  OBVIOUS
<1>3. PICK more \in {0, 1} : more = IF s.cached # 0 /\ s.entries[s.cached].timer THEN 1 ELSE 0
  OBVIOUS
<1>4. PICK orphans \in Nat : orphans = s.orphans + more
  BY <1>1, QStateIs
<1>5. lost = (s.lost \/ s.cached \notin {0, e})
  BY <1>1, <1>2, QStateIs
<1>6. PICK w1 : w1 = WithTimers(s, orphans, s.again, lost)
  OBVIOUS
<1>7. /\ w1 \in ClientState /\ w1.entries = s.entries /\ w1.cached = s.cached
      /\ w1.fetches = s.fetches /\ w1.inflight = s.inflight /\ w1.q = s.q
      /\ w1.cleared = s.cleared /\ w1.lost = lost
  <2>1. s.again \in 0 .. Again
    BY <1>1, QStateIs
  <2> QED
    BY <1>1, <1>6, <2>1, WithTimersIs
<1>8. PICK w2 : w2 = WithEntries(w1, w1.entries, 0)
  OBVIOUS
<1>9. /\ w2 \in ClientState /\ w2.entries = s.entries /\ w2.cached = 0
      /\ w2.fetches = s.fetches /\ w2.inflight = s.inflight /\ w2.q = s.q
      /\ w2.cleared = s.cleared /\ w2.lost = lost
  BY <1>7, <1>8, WithEntriesIs, QStateIs
<1>10. r = Forget(w2)
  <2>1. r = Forget([s EXCEPT !.cached = 0, !.orphans = orphans, !.lost = lost])
    BY <1>3, <1>4, <1>5 DEF Collected
  <2>2. [s EXCEPT !.cached = 0, !.orphans = orphans, !.lost = lost] = w2
    BY <1>1, <1>6, <1>8 DEF WithTimers, WithEntries, ClientState
  <2> QED
    BY <2>1, <2>2
<1>11. \A d \in Slots : Held(w2, d) <=> Held(s, d)
  BY <1>9 DEF Held
<1>12. SpareEntries(w2)
  <2> SUFFICES ASSUME ~w2.cleared, ~w2.lost, NEW d \in Slots, Held(w2, d) PROVE FALSE
    BY DEF SpareEntries
  <2>1. Held(s, d) /\ ~s.cleared /\ ~s.lost /\ s.cached \in {0, e}
    BY <1>2, <1>9, <1>11
  <2>2. d = s.cached
    BY <1>1, <2>1 DEF SpareEntries
  <2> QED
    BY <2>1, <2>2, QSlotsAre
<1>13. SpareFetches(w2)
  BY <1>1, <1>9 DEF SpareFetches, Active
<1>14. ObserversOK(w2) /\ CachedData(w2) = 0
  BY <1>1, <1>9 DEF ObserversOK, CachedData
<1>15. ClientOK(w2)
  BY <1>9, <1>12, <1>13, <1>14 DEF ClientOK
<1> QED
  BY <1>9, <1>10, <1>14, <1>15, ForgetIs

\* What unsubscribing does to the entry that was left: nothing, or a timer, or the key goes.
LEMMA UnobservedIs ==
  ASSUME QueryAssumption, NEW s, ClientOK(s), NEW e \in Slots \cup {0}, NEW r, r = Unobserved(s, e)
  PROVE  /\ ClientOK(r) /\ r.fetches = s.fetches /\ r.cleared = s.cleared
         /\ CachedData(r) = CachedData(s) \/ (CachedData(r) = 0 /\ r.cached = 0)
<1>1. s \in ClientState /\ SpareEntries(s) /\ SpareFetches(s) /\ ObserversOK(s)
  BY DEF ClientOK
<1>2. CASE e # 0 /\ Held(s, e)
  BY <1>2 DEF Unobserved, Held
<1>3. CASE ~(e # 0 /\ Held(s, e)) /\ CollectsNow
  <2>1. r = Collected(s, e)
    BY <1>3 DEF Unobserved, Held
  <2> QED
    BY <1>3, <2>1, CollectedIs
<1>4. CASE ~(e # 0 /\ Held(s, e)) /\ ~CollectsNow /\ e # 0 /\ e = s.cached
  <2>1. PICK old \in Entry : old = s.entries[e]
    BY <1>1, <1>4, QStateIs
  <2>2. PICK more \in {0, 1} : more = IF s.entries[e].timer THEN 1 ELSE 0
    OBVIOUS
  <2>3. PICK orphans \in Nat : orphans = s.orphans + more
    BY <1>1, QStateIs
  <2> DEFINE new == [old EXCEPT !.timer = TRUE]
  <2>4. new \in Entry /\ new.obs = old.obs /\ new.data = old.data
    BY DEF Entry
  <2>5. r = [s EXCEPT !.orphans = orphans, !.entries[e].timer = TRUE]
    BY <1>4, <2>2, <2>3 DEF Unobserved, Held
  <2>6. r = [s EXCEPT !.orphans = orphans, !.entries = [s.entries EXCEPT ![e] = new]]
    BY <1>1, <2>1, <2>5 DEF ClientState
  <2> HIDE DEF new
  <2>7. PICK w1 : w1 = WithEntries(s, [s.entries EXCEPT ![e] = new], s.cached)
    OBVIOUS
  <2>8. /\ ClientOK(w1) /\ CachedData(w1) = CachedData(s)
        /\ w1.fetches = s.fetches /\ w1.cleared = s.cleared
    <3>1. old.obs = {}
      BY <1>4, <2>1 DEF Held
    <3>2. \A i \in Queries : ~(s.q[i].life = "live" /\ s.q[i].entry = e)
      BY <1>1, <2>1, <3>1 DEF ObserversOK
    <3> QED
      BY <1>4, <2>1, <2>4, <2>7, <3>1, <3>2, EntryAt
  <2>9. w1 \in ClientState
    BY <2>8 DEF ClientOK
  <2>10. r = WithTimers(w1, orphans, w1.again, w1.lost)
    BY <1>1, <2>6, <2>7 DEF WithTimers, WithEntries, ClientState
  <2>11. /\ r \in ClientState /\ r.entries = w1.entries /\ r.cached = w1.cached
         /\ r.fetches = w1.fetches /\ r.inflight = w1.inflight /\ r.q = w1.q
         /\ r.cleared = w1.cleared /\ r.lost = w1.lost
    <3>1. w1.again \in 0 .. Again /\ w1.lost \in BOOLEAN
      BY <2>9, QStateIs
    <3> QED
      BY <2>9, <2>10, <3>1, WithTimersIs
  <2>12. ClientOK(r) /\ CachedData(r) = CachedData(w1)
    BY <2>8, <2>11 DEF ClientOK, SpareEntries, SpareFetches, ObserversOK, Held, Active, CachedData
  <2> QED
    BY <2>8, <2>11, <2>12
<1>5. CASE ~(e # 0 /\ Held(s, e)) /\ ~CollectsNow /\ ~(e # 0 /\ e = s.cached)
  <2>1. PICK orphans \in Nat : orphans = s.orphans + 1
    BY <1>1, QStateIs
  <2>2. PICK w : w = WithTimers(s, orphans, s.again, s.lost)
    OBVIOUS
  <2>3. w = [s EXCEPT !.orphans = orphans]
    BY <1>1, <2>2 DEF WithTimers, ClientState
  <2>4. r = Forget(w)
    BY <1>5, <2>1, <2>3 DEF Unobserved, Held
  <2>5. /\ w \in ClientState /\ w.entries = s.entries /\ w.cached = s.cached
        /\ w.fetches = s.fetches /\ w.inflight = s.inflight /\ w.q = s.q
        /\ w.cleared = s.cleared /\ w.lost = s.lost
    <3>1. s.again \in 0 .. Again /\ s.lost \in BOOLEAN
      BY <1>1, QStateIs
    <3> QED
      BY <1>1, <2>2, <3>1, WithTimersIs
  <2>6. ClientOK(w) /\ CachedData(w) = CachedData(s)
    BY <1>1, <2>5 DEF ClientOK, SpareEntries, SpareFetches, ObserversOK, Held, Active, CachedData
  <2> QED
    BY <2>4, <2>5, <2>6, ForgetIs
<1> QED
  BY <1>2, <1>3, <1>4, <1>5 DEF QueryAssumption

\* A fetch that settles is over, and its waiters are shown what came of it.
LEMMA SettleIs ==
  ASSUME QueryAssumption, NEW s, ClientOK(s), NEW f \in Slots, Active(s, f),
         NEW ok \in BOOLEAN, NEW v \in 0 .. MaxVersion, NEW r, r = Settle(s, f, ok, v)
  PROVE  /\ ClientOK(r) /\ CachedData(r) = CachedData(s) /\ r.cached = s.cached
         /\ r.cleared = s.cleared /\ r.lost = s.lost /\ r.fetches[f] = NoFetch
         /\ \A g \in Slots : g # f => r.fetches[g] = s.fetches[g]
<1> DEFINE waiters == s.fetches[f].waiters
           fetches == [s.fetches EXCEPT ![f] = NoFetch]
           q == [i \in Queries |-> IF i \in waiters THEN Shown(s.q[i], ok, v) ELSE s.q[i]]
<1>1. s \in ClientState /\ SpareEntries(s) /\ SpareFetches(s) /\ ObserversOK(s)
  BY DEF ClientOK
<1>2. ASSUME NEW i \in Queries
      PROVE  /\ Shown(s.q[i], ok, v) \in Query /\ Shown(s.q[i], ok, v).life = s.q[i].life
             /\ Shown(s.q[i], ok, v).entry = s.q[i].entry
  <2>1. PICK old \in Query : old = s.q[i]
    BY <1>1, QStateIs
  <2>2. Shown(old, ok, v) \in Query /\ Shown(old, ok, v).life = old.life
        /\ Shown(old, ok, v).entry = old.entry
    BY DEF Shown, Query, Statuses
  <2> QED
    BY <2>1, <2>2
<1>3. SameQueries(s, q)
  BY <1>1, <1>2, QStateIs DEF SameQueries
<1>4. fetches \in [Slots -> Fetch] /\ fetches[f] = NoFetch
      /\ \A g \in Slots : g # f => fetches[g] = s.fetches[g]
  BY <1>1, BlanksAre, FetchSet
<1>5. r = [s EXCEPT !.inflight = 0, !.fetches = fetches, !.q = q]
  BY DEF Settle
<1> HIDE DEF q, fetches
<1>6. PICK s1 : s1 = WithFetches(s, fetches, 0)
  OBVIOUS
<1>7. /\ s1 \in ClientState /\ s1.fetches = fetches /\ s1.inflight = 0
      /\ s1.entries = s.entries /\ s1.cached = s.cached /\ s1.q = s.q /\ s1.cleared = s.cleared /\ s1.lost = s.lost
  BY <1>1, <1>4, <1>6, WithFetchesIs
<1>8. r = WithQ(s1, q)
  BY <1>1, <1>5, <1>6 DEF WithQ, WithFetches, ClientState
<1>9. ClientOK(s1)
  <2>1. SpareEntries(s1)
    BY <1>1, <1>7 DEF SpareEntries, Held
  <2>2. ObserversOK(s1)
    BY <1>1, <1>7 DEF ObserversOK
  <2>3. \A g \in Slots : Active(s1, g) => g # f /\ Active(s, g)
    BY <1>4, <1>7 DEF Active, NoFetch
  <2>4. SpareFetches(s1)
    <3>1. CASE f = s.inflight
      BY <1>1, <1>7, <2>3, <3>1 DEF SpareFetches
    <3>2. CASE f # s.inflight
      <4>1. s.cleared /\ \A g \in Slots : Active(s, g) /\ g # s.inflight => g = f
        BY <1>1, <3>2 DEF SpareFetches
      <4>2. \A g \in Slots : Active(s1, g) => g = s.inflight
        BY <2>3, <4>1
      <4> QED
        BY <1>7, <4>1, <4>2 DEF SpareFetches
    <3> QED
      BY <3>1, <3>2
  <2> QED
    BY <1>7, <2>1, <2>2, <2>4 DEF ClientOK
<1>10. SameQueries(s1, q)
  BY <1>3, <1>7 DEF SameQueries
<1>11. Alike(r, s1)
  BY <1>7, <1>8, <1>10, WithQAlike
<1>12. ClientOK(r) /\ CachedData(r) = CachedData(s1)
  BY <1>9, <1>11, AlikeOK
<1>13. CachedData(s1) = CachedData(s)
  BY <1>7 DEF CachedData
<1>14. r.fetches = fetches /\ r.cached = s.cached /\ r.cleared = s.cleared /\ r.lost = s.lost
  <2>1. q \in [Queries -> Query]
    BY <1>3 DEF SameQueries
  <2> QED
    BY <1>7, <1>8, <2>1, WithQIs
<1> QED
  BY <1>4, <1>12, <1>13, <1>14

LEMMA OvertakeIs ==
  ASSUME QueryAssumption, NEW s, ClientOK(s), NEW yes \in BOOLEAN
  PROVE  LET r == Overtake(s, yes)
         IN  /\ ClientOK(r) /\ CachedData(r) = CachedData(s)
             /\ \A f \in Slots : /\ r.fetches[f].st = s.fetches[f].st
                                 /\ r.fetches[f].got = s.fetches[f].got
                                 /\ r.fetches[f].overtaken <=> Active(s, f) /\ yes
             /\ r.entries = s.entries /\ r.cached = s.cached /\ r.inflight = s.inflight
             /\ r.q = s.q /\ r.cleared = s.cleared /\ r.lost = s.lost
<1> DEFINE r == Overtake(s, yes)
           new(f) == [s.fetches[f] EXCEPT !.overtaken = s.fetches[f].st # "none" /\ yes]
           fetches == [f \in Slots |-> new(f)]
<1>1. s \in ClientState
  BY DEF ClientOK
<1>2. ASSUME NEW f \in Slots
      PROVE  /\ new(f) \in Fetch /\ new(f).st = s.fetches[f].st /\ new(f).got = s.fetches[f].got
             /\ new(f).overtaken <=> Active(s, f) /\ yes
  <2>1. PICK old \in Fetch : old = s.fetches[f]
    BY <1>1, QStateIs
  <2>2. PICK b \in BOOLEAN : b <=> old.st # "none" /\ yes
    OBVIOUS
  <2>3. LET n == [old EXCEPT !.overtaken = b]
        IN  n \in Fetch /\ n.st = old.st /\ n.got = old.got /\ n.overtaken = b
    BY DEF Fetch
  <2>4. b = (old.st # "none" /\ yes)
    BY <2>2
  <2> QED
    BY <2>1, <2>2, <2>3, <2>4 DEF Active
<1>3. r = [s EXCEPT !.fetches = fetches]
  BY DEF Overtake
<1> HIDE DEF new, r
<1>4. fetches \in [Slots -> Fetch] /\ \A f \in Slots : fetches[f] = new(f)
  BY <1>2
<1> HIDE DEF fetches
<1>5. r = WithFetches(s, fetches, s.inflight)
  BY <1>1, <1>3 DEF WithFetches, ClientState
<1>6. \A f \in Slots : fetches[f].st = "none" <=> s.fetches[f].st = "none"
  BY <1>2, <1>4
<1>7. /\ ClientOK(r) /\ CachedData(r) = CachedData(s) /\ r.fetches = fetches
      /\ r.entries = s.entries /\ r.cached = s.cached /\ r.inflight = s.inflight
      /\ r.q = s.q /\ r.cleared = s.cleared /\ r.lost = s.lost
  BY <1>4, <1>5, <1>6, FetchesChanged
<1> QED
  BY <1>2, <1>4, <1>7 DEF r

-----------------------------------------------------------------------------
(* The steps of the client *)

\* The step of DataMonotone.
Ordered ==
  (~qc.cleared /\ qc.cached # 0 /\ qc'.cached = qc.cached /\ CachedData(qc') < CachedData(qc))
    => \E f \in Slots : qc.fetches[f].overtaken /\ qc'.fetches[f].st = "none"

\* The answers that wait in r waited in s.
AnswersFrom(r, s) ==
  \A f \in Slots :
    /\ r.fetches[f].got \in {s.fetches[f].got, 0}
    /\ r.fetches[f].st = "answered" /\ ~r.fetches[f].overtaken =>
         /\ s.fetches[f].st = "answered" /\ ~s.fetches[f].overtaken
         /\ r.fetches[f].got = s.fetches[f].got

LEMMA AlikeAnswers == ASSUME NEW s, NEW r, Alike(r, s) PROVE AnswersFrom(r, s)
  BY DEF Alike, AnswersFrom

LEMMA CachedDataIs ==
  ASSUME QueryAssumption, NEW s \in ClientState PROVE CachedData(s) \in 0 .. MaxVersion
  BY QStateIs DEF CachedData, QueryAssumption

\* A step that brings no data and no answer.
LEMMA QuietStep ==
  ASSUME QueryAssumption, QCInv, UNCHANGED qcServer, ClientOK(qc'), qc'.cleared = qc.cleared,
         AnswersFrom(qc', qc),
         CachedData(qc') = CachedData(qc) \/ (CachedData(qc') = 0 /\ qc'.cached # qc.cached)
  PROVE  QCInv' /\ Ordered
<1>1. ClientOK(qc) /\ qc \in ClientState /\ qcServer \in 1 .. MaxVersion /\ DataOK(qc, qcServer)
  BY DEF QCInv, ClientOK
<1>2. PICK old \in 0 .. MaxVersion : old = CachedData(qc)
  BY <1>1, CachedDataIs
<1>3. PICK data \in {old, 0} : data = CachedData(qc')
  BY <1>2
<1>4. \A f \in Slots : qc.fetches[f].got \in Nat /\ qc.fetches[f].got <= qcServer
  BY <1>1, QStateIs DEF DataOK, QueryAssumption
<1>5. old <= qcServer /\ data <= old /\ data <= qcServer /\ 0 <= qcServer
  BY <1>1, <1>2 DEF DataOK, QueryAssumption
<1>6. \A f \in Slots : qc'.fetches[f].got <= qcServer
  <2>1. ASSUME NEW f \in Slots PROVE qc'.fetches[f].got <= qcServer
    <3>1. qc'.fetches[f].got \in {qc.fetches[f].got, 0}
      BY DEF AnswersFrom
    <3> QED
      BY <1>4, <1>5, <3>1
  <2> QED
    BY <2>1
<1>7. ~qc.cleared => \A f \in Slots : qc'.fetches[f].st = "answered" /\ ~qc'.fetches[f].overtaken
                                        => data <= qc'.fetches[f].got
  <2>1. ASSUME ~qc.cleared, NEW f \in Slots, qc'.fetches[f].st = "answered", ~qc'.fetches[f].overtaken
        PROVE  data <= qc'.fetches[f].got
    <3>1. qc.fetches[f].st = "answered" /\ ~qc.fetches[f].overtaken
          /\ qc'.fetches[f].got = qc.fetches[f].got
      BY <2>1 DEF AnswersFrom
    <3>2. old <= qc.fetches[f].got
      BY <1>1, <1>2, <2>1, <3>1 DEF DataOK
    <3> QED
      BY <1>2, <1>4, <1>5, <3>1, <3>2
  <2> QED
    BY <2>1
<1>8. DataOK(qc', qcServer)
  BY <1>3, <1>5, <1>6, <1>7 DEF DataOK
<1>9. QCInv'
  BY <1>1, <1>8 DEF QCInv
<1>10. Ordered
  BY <1>2 DEF Ordered
<1> QED
  BY <1>9, <1>10

LEMMA InvParts ==
  ASSUME QCInv
  PROVE  /\ ClientOK(qc) /\ qc \in ClientState /\ SpareEntries(qc) /\ SpareFetches(qc)
         /\ ObserversOK(qc) /\ qcServer \in 1 .. MaxVersion /\ DataOK(qc, qcServer)
  BY DEF QCInv, ClientOK

\* A step that only lets queries show, or fetch.
LEMMA AlikeStep ==
  ASSUME QueryAssumption, QCInv, UNCHANGED qcServer, Alike(qc', qc)
  PROVE  QCInv' /\ Ordered
<1>1. ClientOK(qc)
  BY InvParts
<1>2. ClientOK(qc') /\ CachedData(qc') = CachedData(qc)
  BY <1>1, AlikeOK
<1>3. AnswersFrom(qc', qc) /\ qc'.cleared = qc.cleared
  BY AlikeAnswers DEF Alike
<1> QED
  BY <1>2, <1>3, QuietStep

LEMMA CreateQueryKeeps ==
  ASSUME QueryAssumption, QCInv, NEW i \in Queries, CreateQuery(i) PROVE QCInv' /\ Ordered
<1>1. ClientOK(qc) /\ qc \in ClientState
  BY InvParts
<1>2. PICK s1 : s1 = GetOrCreateEntry(qc)
  OBVIOUS
<1>3. /\ ClientOK(s1) /\ s1 \in ClientState /\ ObserversOK(s1) /\ s1.cached \in Slots
      /\ CachedData(s1) = CachedData(qc)
      /\ s1.fetches = qc.fetches /\ s1.q = qc.q /\ s1.cleared = qc.cleared /\ s1.lost = qc.lost
  BY <1>1, <1>2, EntryThere DEF ClientOK
<1>4. PICK e \in Slots : e = s1.cached
  BY <1>3
<1>5. PICK old \in Entry : old = s1.entries[e]
  BY <1>3, QStateIs
<1> DEFINE new == [old EXCEPT !.timer = FALSE, !.obs = @ \cup {i}]
           live == [NoQuery EXCEPT !.life = "live", !.entry = e]
           q == [s1.q EXCEPT ![i] = live]
           s2 == [s1 EXCEPT !.entries[e].timer = FALSE, !.entries[e].obs = @ \cup {i}, !.q[i] = live]
           u0 == WithEntries(s1, [s1.entries EXCEPT ![e] = new], s1.cached)
<1>6. new \in Entry /\ new.obs = old.obs \cup {i} /\ ~new.timer /\ new.data = old.data
  BY DEF Entry
<1>7. live \in Query /\ live.life = "live" /\ live.entry = e
  BY BlanksAre DEF NoQuery, Query
<1>8. s2 = [s1 EXCEPT !.entries = [s1.entries EXCEPT ![e] = new], !.q = q]
  <2> DEFINE changed == [s1.entries EXCEPT ![e].timer = FALSE, ![e].obs = @ \cup {i}]
  <2> HIDE DEF live
  <2>1. s2 = [s1 EXCEPT !.entries = changed, !.q = q]
    BY <1>3 DEF ClientState
  <2>2. changed = [s1.entries EXCEPT ![e] = new]
    BY <1>3, <1>5, QStateIs
  <2> QED
    BY <2>1, <2>2
<1>9. qc' \in {s2, ExecuteFetch(s2, {i}), [s2 EXCEPT !.q[i] = SyncFromCache(s2, @)]}
  BY <1>2, <1>4 DEF CreateQuery
<1>10. qc.q[i].life = "none" /\ UNCHANGED qcServer
  BY DEF CreateQuery
<1> HIDE DEF new, live
<1>11. PICK u : u = u0
  OBVIOUS
<1>12. /\ u \in ClientState /\ u.entries[e] = new /\ CachedData(u) = CachedData(s1)
       /\ \A d \in Slots : d # e => u.entries[d] = s1.entries[d]
       /\ u.fetches = s1.fetches /\ u.q = s1.q /\ u.inflight = s1.inflight
       /\ u.cached = s1.cached /\ u.cleared = s1.cleared /\ u.lost = s1.lost
  <2> DEFINE entries == [s1.entries EXCEPT ![e] = new]
  <2>1. /\ entries \in [Slots -> Entry] /\ entries[e] = new
        /\ \A d \in Slots : d # e => entries[d] = s1.entries[d]
    BY <1>3, <1>6, EntrySet
  <2>2. /\ u \in ClientState /\ u.entries[e] = new
        /\ \A d \in Slots : d # e => u.entries[d] = s1.entries[d]
        /\ u.fetches = s1.fetches /\ u.q = s1.q /\ u.inflight = s1.inflight
        /\ u.cached = s1.cached /\ u.cleared = s1.cleared /\ u.lost = s1.lost
    <3>1. s1.cached \in Slots \cup {0} /\ s1 \in ClientState
      BY <1>3
    <3>2. u = WithEntries(s1, entries, s1.cached)
      BY <1>11
    <3> HIDE DEF entries
    <3>3. /\ u \in ClientState /\ u.entries = entries
          /\ u.fetches = s1.fetches /\ u.q = s1.q /\ u.inflight = s1.inflight
          /\ u.cached = s1.cached /\ u.cleared = s1.cleared /\ u.lost = s1.lost
      BY <2>1, <3>1, <3>2, WithEntriesIs
    <3> QED
      BY <2>1, <3>3
  <2>3. CachedData(u) = CachedData(s1)
    BY <1>4, <1>5, <1>6, <2>2 DEF CachedData
  <2> QED
    BY <2>2, <2>3
<1>13. q \in [Queries -> Query] /\ q[i] = live /\ \A j \in Queries : j # i => q[j] = s1.q[j]
  BY <1>3, <1>7, QStateIs
<1> HIDE DEF q, u0
<1>14. PICK w : w = WithQ(u, q)
  OBVIOUS
<1>15. w = s2
  BY <1>3, <1>8, <1>11, <1>14 DEF u0, WithQ, WithEntries, ClientState
<1>16. /\ w \in ClientState /\ w.q = q /\ w.entries = u.entries /\ w.cached = u.cached
       /\ w.fetches = u.fetches /\ w.inflight = u.inflight /\ w.cleared = u.cleared /\ w.lost = u.lost
  BY <1>12, <1>13, <1>14, WithQIs
<1>17. ClientOK(w)
  <2>1. \A d \in Slots : Held(w, d) => d = e \/ Held(s1, d)
    BY <1>12, <1>16 DEF Held
  <2>2. SpareEntries(w) /\ SpareFetches(w)
    BY <1>3, <1>4, <1>12, <1>16, <2>1 DEF ClientOK, SpareEntries, SpareFetches, Active
  <2>3. \A d \in Slots : w.entries[d].timer => w.entries[d].obs = {}
    BY <1>3, <1>6, <1>12, <1>16 DEF ObserversOK
  <2>4. ASSUME NEW j \in Queries, w.q[j].life = "live"
        PROVE  w.q[j].entry \in Slots /\ j \in w.entries[w.q[j].entry].obs
    <3>1. CASE j = i
      BY <1>6, <1>7, <1>12, <1>13, <1>16, <3>1
    <3>2. CASE j # i
      <4>1. w.q[j] = s1.q[j] /\ s1.q[j].entry \in Slots /\ j \in s1.entries[s1.q[j].entry].obs
        BY <1>3, <1>13, <1>16, <2>4, <3>2 DEF ObserversOK
      <4> QED
        BY <1>5, <1>6, <1>12, <1>16, <4>1
    <3> QED
      BY <3>1, <3>2
  <2>5. ASSUME NEW d \in Slots, NEW j \in w.entries[d].obs
        PROVE  w.q[j].life = "live" /\ w.q[j].entry = d
    <3>1. j \in Queries
      BY <1>16, <2>5, QStateIs
    <3>2. CASE j \in s1.entries[d].obs
      <4>1. s1.q[j].life = "live" /\ s1.q[j].entry = d /\ j # i
        BY <1>3, <1>10, <3>2 DEF ObserversOK
      <4> QED
        BY <1>13, <1>16, <3>1, <4>1
    <3>3. CASE j \notin s1.entries[d].obs
      BY <1>5, <1>6, <1>7, <1>12, <1>13, <1>16, <2>5, <3>3
    <3> QED
      BY <3>2, <3>3
  <2> QED
    BY <1>16, <2>2, <2>3, <2>4, <2>5 DEF ClientOK, ObserversOK
<1>18. qc' \in {w, ExecuteFetch(w, {i}), [w EXCEPT !.q[i] = SyncFromCache(w, @)]}
  BY <1>9, <1>15
<1> HIDE DEF s2
<1>19. Alike(qc', w)
  <2>1. CASE qc' = w
    BY <1>16, <2>1, AlikeSelf
  <2>2. CASE qc' = ExecuteFetch(w, {i})
    BY <1>17, <2>2, ExecuteFetchIs
  <2>3. CASE qc' = [w EXCEPT !.q[i] = SyncFromCache(w, @)]
    <3>1. PICK shown \in Query : /\ shown = SyncFromCache(w, w.q[i])
                                 /\ shown.life = w.q[i].life /\ shown.entry = w.q[i].entry
      BY <1>16, QStateIs, SyncIs
    <3> DEFINE p == [w.q EXCEPT ![i] = shown]
    <3>2. qc' = [w EXCEPT !.q = p]
      BY <1>16, <2>3, <3>1 DEF ClientState
    <3>3. SameQueries(w, p)
      BY <1>16, <3>1, QStateIs DEF SameQueries
    <3> HIDE DEF p
    <3>4. qc' = WithQ(w, p)
      BY <3>2 DEF WithQ
    <3> QED
      BY <1>16, <3>3, <3>4, WithQAlike
  <2> QED
    BY <1>18, <2>1, <2>2, <2>3
<1>20. ClientOK(qc') /\ CachedData(qc') = CachedData(w) /\ qc'.cleared = w.cleared
  BY <1>17, <1>19, AlikeOK DEF Alike
<1>21. AnswersFrom(qc', qc)
  BY <1>3, <1>12, <1>16, <1>19, AlikeAnswers DEF AnswersFrom
<1>22. CachedData(w) = CachedData(qc)
  <2>1. CachedData(w) = CachedData(u)
    BY <1>16 DEF CachedData
  <2> QED
    BY <1>3, <1>12, <2>1
<1> QED
  BY <1>3, <1>10, <1>12, <1>16, <1>20, <1>21, <1>22, QuietStep

LEMMA DisposeKeeps ==
  ASSUME QueryAssumption, QCInv, NEW i \in Queries, Dispose(i) PROVE QCInv' /\ Ordered
<1>1. ClientOK(qc) /\ qc \in ClientState /\ SpareEntries(qc) /\ SpareFetches(qc) /\ ObserversOK(qc)
  BY InvParts
<1>2. /\ qc.q[i].life = "live" \/ (qc.q[i].life = "disposed" /\ qc.again < Again)
      /\ UNCHANGED qcServer
  BY DEF Dispose
<1>3. PICK e \in Slots \cup {0} : e = qc.q[i].entry
  BY <1>1, QStateIs DEF Query
<1> DEFINE gone == [NoQuery EXCEPT !.life = "disposed", !.entry = e]
           q == [qc.q EXCEPT ![i] = gone]
           left(f) == [qc.fetches[f] EXCEPT !.waiters = @ \ {i}]
           fetches == [f \in Slots |-> left(f)]
           without(d) == [qc.entries[d] EXCEPT !.obs = @ \ {i}]
           entries == [d \in Slots |-> without(d)]
           s1 == [qc EXCEPT !.again = IF qc.q[i].life = "live" THEN @ ELSE @ + 1,
                            !.q[i] = gone, !.entries = entries, !.fetches = fetches]
<1>4. qc' = Unobserved(s1, e)
  BY <1>3 DEF Dispose
<1>5. gone \in Query /\ gone.life = "disposed"
  BY BlanksAre DEF NoQuery, Query
<1>6. q \in [Queries -> Query] /\ q[i] = gone /\ \A j \in Queries : j # i => q[j] = qc.q[j]
  BY <1>1, <1>5, QStateIs
<1>7. ASSUME NEW f \in Slots
      PROVE  /\ left(f) \in Fetch /\ left(f).st = qc.fetches[f].st /\ left(f).got = qc.fetches[f].got
             /\ left(f).overtaken = qc.fetches[f].overtaken
  <2>1. PICK one \in Fetch : one = qc.fetches[f]
    BY <1>1, QStateIs
  <2>2. LET n == [one EXCEPT !.waiters = @ \ {i}]
        IN  n \in Fetch /\ n.st = one.st /\ n.got = one.got /\ n.overtaken = one.overtaken
    BY DEF Fetch
  <2> QED
    BY <2>1, <2>2
<1>8. ASSUME NEW d \in Slots
      PROVE  /\ without(d) \in Entry /\ without(d).obs = qc.entries[d].obs \ {i}
             /\ without(d).timer = qc.entries[d].timer /\ without(d).data = qc.entries[d].data
  <2>1. PICK one \in Entry : one = qc.entries[d]
    BY <1>1, QStateIs
  <2>2. LET n == [one EXCEPT !.obs = @ \ {i}]
        IN  /\ n \in Entry /\ n.obs = one.obs \ {i} /\ n.timer = one.timer /\ n.data = one.data
    BY DEF Entry
  <2> QED
    BY <2>1, <2>2
<1>9. PICK again \in 0 .. Again : again = IF qc.q[i].life = "live" THEN qc.again ELSE qc.again + 1
  BY <1>1, <1>2, QStateIs DEF QueryAssumption
<1>10. s1 = [qc EXCEPT !.again = again, !.q = q, !.entries = entries, !.fetches = fetches]
  BY <1>1, <1>9 DEF ClientState
<1>11. fetches \in [Slots -> Fetch] /\ \A f \in Slots : fetches[f] = left(f)
  BY <1>7
<1>12. entries \in [Slots -> Entry] /\ \A d \in Slots : entries[d] = without(d)
  BY <1>8
<1> HIDE DEF left, without, gone, q, fetches, entries, s1
\* The parts of the record, one at a time.
<1>13. PICK w1 : w1 = WithTimers(qc, qc.orphans, again, qc.lost)
  OBVIOUS
<1>14. /\ w1 \in ClientState /\ w1.entries = qc.entries /\ w1.cached = qc.cached
       /\ w1.fetches = qc.fetches /\ w1.inflight = qc.inflight /\ w1.q = qc.q
       /\ w1.cleared = qc.cleared /\ w1.lost = qc.lost
  <2>1. qc.orphans \in Nat /\ qc.lost \in BOOLEAN
    BY <1>1, QStateIs
  <2> QED
    BY <1>1, <1>13, <2>1, WithTimersIs
<1>15. PICK w2 : w2 = WithQ(w1, q)
  OBVIOUS
<1>16. /\ w2 \in ClientState /\ w2.q = q /\ w2.entries = qc.entries /\ w2.cached = qc.cached
       /\ w2.fetches = qc.fetches /\ w2.inflight = qc.inflight
       /\ w2.cleared = qc.cleared /\ w2.lost = qc.lost
  BY <1>6, <1>14, <1>15, WithQIs
<1>17. PICK w3 : w3 = WithFetches(w2, fetches, w2.inflight)
  OBVIOUS
<1>18. /\ w3 \in ClientState /\ w3.q = q /\ w3.entries = qc.entries /\ w3.cached = qc.cached
       /\ w3.fetches = fetches /\ w3.inflight = qc.inflight
       /\ w3.cleared = qc.cleared /\ w3.lost = qc.lost
  <2>1. w2.inflight \in Slots \cup {0}
    BY <1>16, QStateIs
  <2> QED
    BY <1>11, <1>16, <1>17, <2>1, WithFetchesIs
<1>19. PICK w4 : w4 = WithEntries(w3, entries, w3.cached)
  OBVIOUS
<1>20. /\ w4 \in ClientState /\ w4.q = q /\ w4.entries = entries /\ w4.cached = qc.cached
       /\ w4.fetches = fetches /\ w4.inflight = qc.inflight
       /\ w4.cleared = qc.cleared /\ w4.lost = qc.lost
  <2>1. w3.cached \in Slots \cup {0}
    BY <1>18, QStateIs
  <2> QED
    BY <1>12, <1>18, <1>19, <2>1, WithEntriesIs
<1>21. w4 = s1
  BY <1>1, <1>10, <1>13, <1>15, <1>17, <1>19
     DEF WithQ, WithFetches, WithEntries, WithTimers, ClientState
<1>22. ClientOK(w4)
  <2>1. \A d \in Slots : Held(w4, d) => Held(qc, d)
    BY <1>8, <1>12, <1>20 DEF Held
  <2>2. SpareEntries(w4)
    BY <1>1, <1>20, <2>1 DEF SpareEntries
  <2>3. SpareFetches(w4)
    BY <1>1, <1>7, <1>11, <1>20 DEF SpareFetches, Active
  <2>4. \A d \in Slots : w4.entries[d].timer => w4.entries[d].obs = {}
    BY <1>1, <1>8, <1>12, <1>20 DEF ObserversOK
  <2>5. ASSUME NEW j \in Queries, w4.q[j].life = "live"
        PROVE  w4.q[j].entry \in Slots /\ j \in w4.entries[w4.q[j].entry].obs
    <3>1. j # i /\ w4.q[j] = qc.q[j]
      BY <1>5, <1>6, <1>20, <2>5
    <3> QED
      BY <1>1, <1>8, <1>12, <1>20, <2>5, <3>1 DEF ObserversOK
  <2>6. ASSUME NEW d \in Slots, NEW j \in w4.entries[d].obs
        PROVE  w4.q[j].life = "live" /\ w4.q[j].entry = d
    <3>1. j # i /\ j \in qc.entries[d].obs /\ j \in Queries
      BY <1>1, <1>8, <1>12, <1>20, <2>6, QStateIs
    <3> QED
      BY <1>1, <1>6, <1>20, <3>1 DEF ObserversOK
  <2> QED
    BY <1>20, <2>2, <2>3, <2>4, <2>5, <2>6 DEF ClientOK, ObserversOK
<1>23. CachedData(w4) = CachedData(qc)
  BY <1>1, <1>8, <1>12, <1>20, QStateIs DEF CachedData
<1>24. /\ ClientOK(qc') /\ qc'.fetches = fetches /\ qc'.cleared = qc.cleared
       /\ CachedData(qc') = CachedData(qc) \/ (CachedData(qc') = 0 /\ qc'.cached = 0)
  BY <1>4, <1>20, <1>21, <1>22, <1>23, UnobservedIs
<1>25. AnswersFrom(qc', qc)
  BY <1>7, <1>11, <1>24 DEF AnswersFrom
<1>26. CachedData(qc') = CachedData(qc) \/ (CachedData(qc') = 0 /\ qc'.cached # qc.cached)
  BY <1>24 DEF CachedData
<1> QED
  BY <1>2, <1>24, <1>25, <1>26, QuietStep

LEMMA TimerKeeps ==
  ASSUME QueryAssumption, QCInv, GcTimerFires PROVE QCInv' /\ Ordered
<1>1. ClientOK(qc) /\ qc \in ClientState /\ ObserversOK(qc)
  BY InvParts
<1>2. PICK e \in Slots : e = qc.cached /\ qc.entries[e].timer
  BY <1>1, QStateIs DEF GcTimerFires
<1>3. UNCHANGED qcServer /\ qc' = Collected([qc EXCEPT !.entries[e].timer = FALSE], e)
  BY <1>2 DEF GcTimerFires
<1>4. PICK old \in Entry : old = qc.entries[e] /\ old.obs = {}
  BY <1>1, <1>2, QStateIs DEF ObserversOK
<1> DEFINE new == [old EXCEPT !.timer = FALSE]
<1>5. new \in Entry /\ new.obs = {} /\ ~new.timer /\ new.data = old.data
  BY <1>4 DEF Entry
<1>6. [qc EXCEPT !.entries[e].timer = FALSE] = [qc EXCEPT !.entries = [qc.entries EXCEPT ![e] = new]]
  BY <1>1, <1>4 DEF ClientState
<1> HIDE DEF new
<1>7. PICK w : w = WithEntries(qc, [qc.entries EXCEPT ![e] = new], qc.cached)
  OBVIOUS
<1>8. /\ ClientOK(w) /\ w.cached = qc.cached /\ w.entries[e] = new
      /\ w.fetches = qc.fetches /\ w.cleared = qc.cleared
  <2>1. \A i \in Queries : ~(qc.q[i].life = "live" /\ qc.q[i].entry = e)
    BY <1>1, <1>4 DEF ObserversOK
  <2> QED
    BY <1>1, <1>5, <1>7, <2>1, EntryAt
<1>9. w = [qc EXCEPT !.entries[e].timer = FALSE]
  BY <1>1, <1>6, <1>7 DEF WithEntries, ClientState
<1>10. ~Held(w, e)
  BY <1>5, <1>8 DEF Held
<1>11. /\ ClientOK(qc') /\ CachedData(qc') = 0 /\ qc'.cached = 0 /\ qc'.fetches = qc.fetches
       /\ qc'.cleared = qc.cleared
  <2>1. qc' = Collected(w, e)
    BY <1>3, <1>9
  <2>2. PICK d \in Slots \cup {0} : d = e
    OBVIOUS
  <2> QED
    BY <1>8, <1>10, <2>1, <2>2, CollectedIs
<1>12. AnswersFrom(qc', qc)
  BY <1>11 DEF AnswersFrom
<1> QED
  BY <1>2, <1>3, <1>11, <1>12, QSlotsAre, QuietStep

LEMMA OrphanKeeps ==
  ASSUME QueryAssumption, QCInv, OrphanFires PROVE QCInv' /\ Ordered
<1>1. /\ ClientOK(qc) /\ qc \in ClientState /\ SpareEntries(qc) /\ SpareFetches(qc)
      /\ ObserversOK(qc)
  BY InvParts
<1>2. PICK orphans \in Nat : orphans = qc.orphans - 1
  BY <1>1, QStateIs DEF OrphanFires
<1>3. UNCHANGED qcServer /\ qc' = Collected([qc EXCEPT !.orphans = orphans], 0)
  BY <1>2 DEF OrphanFires
<1>4. PICK w : w = WithTimers(qc, orphans, qc.again, qc.lost)
  OBVIOUS
<1>5. w = [qc EXCEPT !.orphans = orphans]
  BY <1>1, <1>4 DEF WithTimers, ClientState
<1>6. /\ w \in ClientState /\ w.entries = qc.entries /\ w.cached = qc.cached
      /\ w.fetches = qc.fetches /\ w.inflight = qc.inflight /\ w.q = qc.q
      /\ w.cleared = qc.cleared /\ w.lost = qc.lost
  <2>1. qc.again \in 0 .. Again /\ qc.lost \in BOOLEAN
    BY <1>1, QStateIs
  <2> QED
    BY <1>1, <1>4, <2>1, WithTimersIs
<1>7. ClientOK(w)
  BY <1>1, <1>6 DEF ClientOK, SpareEntries, SpareFetches, ObserversOK, Held, Active
<1>8. /\ ClientOK(qc') /\ CachedData(qc') = 0 /\ qc'.cached = 0 /\ qc'.fetches = qc.fetches
      /\ qc'.cleared = qc.cleared
  <2>1. qc' = Collected(w, 0)
    BY <1>3, <1>5
  <2>2. PICK d \in Slots \cup {0} : d = 0
    OBVIOUS
  <2> QED
    BY <1>6, <1>7, <2>1, <2>2, CollectedIs
<1>9. CachedData(qc') = CachedData(qc) \/ qc'.cached # qc.cached
  BY <1>8 DEF CachedData
<1>10. AnswersFrom(qc', qc)
  BY <1>8 DEF AnswersFrom
<1> QED
  BY <1>3, <1>8, <1>9, <1>10, QuietStep

LEMMA SetDataKeeps ==
  ASSUME QueryAssumption, QCInv, SetData PROVE QCInv' /\ Ordered
<1>1. ClientOK(qc) /\ qc \in ClientState /\ DataOK(qc, qcServer) /\ qcServer \in 1 .. MaxVersion
  BY InvParts
<1>2. PICK server \in 1 .. MaxVersion : server = qcServer' /\ server = qcServer + 1
  BY <1>1 DEF SetData, QueryAssumption
<1>3. PICK yes \in BOOLEAN : yes = ~qc.cleared
  OBVIOUS
<1>4. PICK s : s = Overtake(qc, yes)
  OBVIOUS
<1>5. /\ ClientOK(s) /\ CachedData(s) = CachedData(qc)
      /\ \A f \in Slots : /\ s.fetches[f].st = qc.fetches[f].st
                          /\ s.fetches[f].got = qc.fetches[f].got
                          /\ s.fetches[f].overtaken <=> Active(qc, f) /\ yes
      /\ s.cleared = qc.cleared /\ s.lost = qc.lost
  BY <1>1, <1>4, OvertakeIs
<1>6. qc' = SetQueryData(s, server)
  BY <1>2, <1>3, <1>4 DEF SetData
<1>7. server \in 0 .. MaxVersion
  BY DEF QueryAssumption
<1>8. PICK u : /\ ClientOK(u) /\ CachedData(u) = server /\ Alike(qc', u)
               /\ u.fetches = s.fetches /\ u.cleared = s.cleared /\ u.lost = s.lost
  BY <1>5, <1>6, <1>7, SetQueryDataIs
<1>9. ClientOK(qc') /\ CachedData(qc') = server /\ qc'.cleared = qc.cleared
  BY <1>5, <1>8, AlikeOK DEF Alike
<1>10. AnswersFrom(qc', u)
  BY <1>8, AlikeAnswers
<1>11. \A f \in Slots : qc'.fetches[f].got <= server
  <2>1. ASSUME NEW f \in Slots PROVE qc'.fetches[f].got <= server
    <3>1. qc'.fetches[f].got \in {qc.fetches[f].got, 0}
      BY <1>5, <1>8, <1>10 DEF AnswersFrom
    <3>2. qc.fetches[f].got \in Nat /\ qc.fetches[f].got <= qcServer
      BY <1>1, QStateIs DEF DataOK, QueryAssumption
    <3> QED
      BY <1>1, <1>2, <3>1, <3>2 DEF QueryAssumption
  <2> QED
    BY <2>1
<1>12. ~qc.cleared => \A f \in Slots : qc'.fetches[f].st = "answered" => qc'.fetches[f].overtaken
  <2>1. ASSUME ~qc.cleared, NEW f \in Slots, qc'.fetches[f].st = "answered", ~qc'.fetches[f].overtaken
        PROVE  FALSE
    <3>1. s.fetches[f].st = "answered" /\ ~s.fetches[f].overtaken
      BY <1>8, <1>10, <2>1 DEF AnswersFrom
    <3> QED
      BY <1>3, <1>5, <2>1, <3>1 DEF Active
  <2> QED
    BY <2>1
<1>13. DataOK(qc', server)
  BY <1>9, <1>11, <1>12 DEF DataOK, QueryAssumption
<1>14. Ordered
  <2>1. CachedData(qc) <= qcServer /\ CachedData(qc) \in 0 .. MaxVersion
    BY <1>1, CachedDataIs DEF DataOK
  <2>2. PICK old \in 0 .. MaxVersion : old = CachedData(qc)
    BY <2>1
  <2>3. ~(CachedData(qc') < CachedData(qc))
    BY <1>1, <1>2, <1>9, <2>1, <2>2 DEF QueryAssumption
  <2> QED
    BY <2>3 DEF Ordered
<1> QED
  BY <1>2, <1>9, <1>13, <1>14 DEF QCInv

LEMMA ArrivesKeeps ==
  ASSUME QueryAssumption, QCInv, NEW f \in Slots, AnswerArrives(f) PROVE QCInv' /\ Ordered
<1>1. /\ ClientOK(qc) /\ qc \in ClientState /\ SpareFetches(qc) /\ DataOK(qc, qcServer)
      /\ qcServer \in 1 .. MaxVersion
  BY InvParts
<1>2. PICK v \in 0 .. MaxVersion : v = qc.fetches[f].got
  BY <1>1, QStateIs
<1>3. qc.fetches[f].st = "answered" /\ UNCHANGED qcServer
  BY DEF AnswerArrives
<1>4. PICK s : s = SetQueryData(qc, v)
  OBVIOUS
<1>5. qc' = Settle(s, f, TRUE, v)
  BY <1>2, <1>4 DEF AnswerArrives
<1>6. PICK u : /\ ClientOK(u) /\ CachedData(u) = v /\ Alike(s, u)
               /\ u.fetches = qc.fetches /\ u.cleared = qc.cleared /\ u.lost = qc.lost
  BY <1>1, <1>4, SetQueryDataIs
<1>7. ClientOK(s) /\ CachedData(s) = v /\ s.cleared = qc.cleared /\ s.lost = qc.lost
  BY <1>6, AlikeOK DEF Alike
<1>8. Active(s, f)
  BY <1>3, <1>6 DEF Active, Alike
<1>9. /\ ClientOK(qc') /\ CachedData(qc') = v /\ qc'.cleared = qc.cleared
      /\ qc'.fetches[f] = NoFetch /\ \A g \in Slots : g # f => qc'.fetches[g] = s.fetches[g]
  <2>1. PICK ok \in BOOLEAN : ok = TRUE
    OBVIOUS
  <2>2. PICK r : r = Settle(s, f, ok, v)
    OBVIOUS
  <2>3. /\ ClientOK(r) /\ CachedData(r) = CachedData(s)
        /\ r.cleared = s.cleared /\ r.lost = s.lost /\ r.fetches[f] = NoFetch
        /\ \A g \in Slots : g # f => r.fetches[g] = s.fetches[g]
    BY <1>7, <1>8, <2>2, SettleIs
  <2>4. qc' = r
    BY <1>5, <2>1, <2>2
  <2> QED
    BY <1>7, <2>3, <2>4
<1>10. AnswersFrom(s, u)
  BY <1>6, AlikeAnswers
<1>11. v <= qcServer /\ \A g \in Slots : qc.fetches[g].got <= qcServer
  BY <1>1, <1>2 DEF DataOK
<1>12. \A g \in Slots : qc'.fetches[g].got <= qcServer
  <2>1. ASSUME NEW g \in Slots PROVE qc'.fetches[g].got <= qcServer
    <3>1. qc'.fetches[g].got \in {qc.fetches[g].got, 0}
      BY <1>6, <1>9, <1>10 DEF AnswersFrom, NoFetch
    <3> QED
      BY <1>1, <1>11, <3>1 DEF QueryAssumption
  <2> QED
    BY <2>1
<1>13. ~qc.cleared => \A g \in Slots : qc'.fetches[g].st = "answered" => qc'.fetches[g].overtaken
  <2>1. ASSUME ~qc.cleared, NEW g \in Slots, qc'.fetches[g].st = "answered", ~qc'.fetches[g].overtaken
        PROVE  FALSE
    <3>1. g # f
      BY <1>9, <2>1 DEF NoFetch
    <3>2. qc.fetches[g].st = "answered"
      BY <1>6, <1>9, <1>10, <2>1, <3>1 DEF AnswersFrom
    <3>3. Active(qc, g) /\ Active(qc, f)
      BY <1>3, <3>2 DEF Active
    <3> QED
      BY <1>1, <2>1, <3>1, <3>3 DEF SpareFetches
  <2> QED
    BY <2>1
<1>14. DataOK(qc', qcServer)
  BY <1>9, <1>11, <1>12, <1>13 DEF DataOK
<1>15. Ordered
  <2>1. CASE qc.fetches[f].overtaken
    BY <1>9, <2>1 DEF Ordered, NoFetch
  <2>2. CASE ~qc.fetches[f].overtaken
    <3>1. ~qc.cleared => CachedData(qc) <= v
      BY <1>1, <1>2, <1>3, <2>2 DEF DataOK
    <3>2. PICK old \in 0 .. MaxVersion : old = CachedData(qc)
      BY <1>1, CachedDataIs
    <3>3. ~qc.cleared => ~(CachedData(qc') < CachedData(qc))
      BY <1>9, <3>1, <3>2
    <3> QED
      BY <3>3 DEF Ordered
  <2> QED
    BY <2>1, <2>2
<1> QED
  BY <1>1, <1>3, <1>9, <1>14, <1>15 DEF QCInv

\* One fetch goes on to another state of its way.
LEMMA FetchGoes ==
  ASSUME QueryAssumption, QCInv, NEW f \in Slots, NEW new \in Fetch,
         qc.fetches[f].st # "none", new.st # "none", qc' = [qc EXCEPT !.fetches[f] = new]
  PROVE  /\ ClientOK(qc') /\ CachedData(qc') = CachedData(qc) /\ qc'.cached = qc.cached
         /\ qc'.cleared = qc.cleared /\ qc'.fetches[f] = new
         /\ \A g \in Slots : g # f => qc'.fetches[g] = qc.fetches[g]
<1>1. ClientOK(qc) /\ qc \in ClientState
  BY InvParts
<1> DEFINE fetches == [qc.fetches EXCEPT ![f] = new]
<1>2. fetches \in [Slots -> Fetch] /\ fetches[f] = new
      /\ \A g \in Slots : g # f => fetches[g] = qc.fetches[g]
  BY <1>1, FetchSet
<1>3. qc' = [qc EXCEPT !.fetches = fetches]
  OBVIOUS
<1> HIDE DEF fetches
<1>4. qc' = WithFetches(qc, fetches, qc.inflight)
  BY <1>1, <1>3 DEF WithFetches, ClientState
<1>5. \A g \in Slots : fetches[g].st = "none" <=> qc.fetches[g].st = "none"
  BY <1>2
<1> DEFINE r == WithFetches(qc, fetches, qc.inflight)
<1>6. /\ ClientOK(r) /\ CachedData(r) = CachedData(qc) /\ r.fetches = fetches
      /\ r.cached = qc.cached /\ r.cleared = qc.cleared /\ r.lost = qc.lost
  BY <1>1, <1>2, <1>5, FetchesChanged
<1> HIDE DEF r
<1>7. qc' = r
  BY <1>4 DEF r
<1> QED
  BY <1>2, <1>6, <1>7

LEMMA AnswersKeeps ==
  ASSUME QueryAssumption, QCInv, NEW f \in Slots, ServerAnswers(f) PROVE QCInv' /\ Ordered
<1>1. /\ ClientOK(qc) /\ qc \in ClientState /\ DataOK(qc, qcServer) /\ qcServer \in 1 .. MaxVersion
  BY InvParts
<1>2. PICK old \in Fetch : old = qc.fetches[f]
  BY <1>1, QStateIs
<1>3. PICK v \in 0 .. MaxVersion : v = qcServer
  BY <1>1 DEF QueryAssumption
<1> DEFINE new == [old EXCEPT !.st = "answered", !.got = v]
<1>4. new \in Fetch /\ new.st = "answered" /\ new.got = v
  BY DEF Fetch, FetchStates
<1>5. qc.fetches[f].st = "asked" /\ UNCHANGED qcServer
  BY DEF ServerAnswers
<1>6. qc' = [qc EXCEPT !.fetches[f] = new]
  BY <1>1, <1>2, <1>3 DEF ServerAnswers, ClientState
<1> HIDE DEF new
<1>7. /\ ClientOK(qc') /\ CachedData(qc') = CachedData(qc) /\ qc'.cleared = qc.cleared
      /\ qc'.fetches[f] = new /\ \A g \in Slots : g # f => qc'.fetches[g] = qc.fetches[g]
  BY <1>4, <1>5, <1>6, FetchGoes
<1>8. DataOK(qc', qcServer)
  <2>1. CachedData(qc) <= v /\ v <= v
    BY <1>1, <1>3 DEF DataOK
  <2> QED
    BY <1>1, <1>3, <1>4, <1>7, <2>1 DEF DataOK
<1>9. Ordered
  <2>1. PICK d \in 0 .. MaxVersion : d = CachedData(qc)
    BY <1>1, CachedDataIs
  <2> QED
    BY <1>7, <2>1 DEF Ordered
<1> QED
  BY <1>1, <1>5, <1>7, <1>8, <1>9 DEF QCInv

\* One fetch waits, or asks again.
LEMMA FetchAgain ==
  ASSUME QueryAssumption, QCInv, UNCHANGED qcServer, NEW f \in Slots, NEW new \in Fetch,
         qc.fetches[f].st # "none", new.st \in {"waiting", "asked"},
         new.got = qc.fetches[f].got, qc' = [qc EXCEPT !.fetches[f] = new]
  PROVE  QCInv' /\ Ordered
<1>1. /\ ClientOK(qc') /\ CachedData(qc') = CachedData(qc) /\ qc'.cached = qc.cached
      /\ qc'.cleared = qc.cleared /\ qc'.fetches[f] = new
      /\ \A g \in Slots : g # f => qc'.fetches[g] = qc.fetches[g]
  BY FetchGoes
<1>2. AnswersFrom(qc', qc)
  BY <1>1 DEF AnswersFrom
<1> QED
  BY <1>1, <1>2, QuietStep

LEMMA DelayKeeps ==
  ASSUME QueryAssumption, QCInv, NEW f \in Slots, RetryDelayPasses(f) PROVE QCInv' /\ Ordered
<1>1. qc \in ClientState
  BY InvParts
<1>2. PICK old \in Fetch : old = qc.fetches[f]
  BY <1>1, QStateIs
<1> DEFINE new == [old EXCEPT !.st = "asked"]
<1>3. new \in Fetch /\ new.st = "asked" /\ new.got = old.got
  BY DEF Fetch, FetchStates
<1>4. qc.fetches[f].st = "waiting" /\ UNCHANGED qcServer
  BY DEF RetryDelayPasses
<1>5. qc' = [qc EXCEPT !.fetches[f] = new]
  BY <1>1, <1>2 DEF RetryDelayPasses, ClientState
<1> HIDE DEF new
<1> QED
  BY <1>2, <1>3, <1>4, <1>5, FetchAgain

LEMMA FailsAttemptKeeps ==
  ASSUME QueryAssumption, QCInv, NEW f \in Slots, AttemptFails(f) PROVE QCInv' /\ Ordered
<1>1. ClientOK(qc) /\ qc \in ClientState
  BY InvParts
<1>2. PICK old \in Fetch : old = qc.fetches[f]
  BY <1>1, QStateIs
<1>3. qc.fetches[f].st \in {"asked", "answered"} /\ UNCHANGED qcServer
  BY DEF AttemptFails
<1>4. CASE qc.fetches[f].attempt < Retry
  <2> DEFINE new == [old EXCEPT !.st = "waiting", !.attempt = @ + 1]
  <2>1. old.attempt + 1 \in 0 .. Retry
    BY <1>2, <1>4 DEF Fetch, QueryAssumption
  <2>2. PICK n \in 0 .. Retry : n = old.attempt + 1
    BY <2>1
  <2>3. LET m == [old EXCEPT !.st = "waiting", !.attempt = n]
        IN  m \in Fetch /\ m.st = "waiting" /\ m.got = old.got
    BY DEF Fetch, FetchStates
  <2>4. new \in Fetch /\ new.st = "waiting" /\ new.got = old.got
    BY <2>2, <2>3
  <2>5. qc' = [qc EXCEPT !.fetches[f] = new]
    <3>1. qc' = [qc EXCEPT !.fetches[f].st = "waiting", !.fetches[f].attempt = @ + 1]
      BY <1>4 DEF AttemptFails
    <3> QED
      BY <1>1, <1>2, <3>1 DEF ClientState
  <2> HIDE DEF new
  <2> QED
    BY <1>2, <1>3, <2>4, <2>5, FetchAgain
<1>5. CASE ~(qc.fetches[f].attempt < Retry)
  <2>1. PICK s1 : s1 = GetOrCreateEntry(qc)
    OBVIOUS
  <2>2. /\ ClientOK(s1) /\ s1 \in ClientState /\ s1.cached \in Slots
        /\ qc.cached # 0 => s1 = qc
        /\ CachedData(s1) = CachedData(qc) /\ s1.fetches = qc.fetches
        /\ s1.cleared = qc.cleared /\ s1.lost = qc.lost
    BY <1>1, <2>1, EntryThere DEF ClientOK
  <2>3. PICK e \in Slots : e = s1.cached
    BY <2>2
  <2>4. PICK was \in Entry : was = s1.entries[e]
    BY <2>2, QStateIs
  <2> DEFINE new == [was EXCEPT !.err = TRUE]
             w0 == WithEntries(s1, [s1.entries EXCEPT ![e] = new], e)
  <2>5. new \in Entry /\ new.obs = was.obs /\ new.timer = was.timer /\ new.data = was.data
    BY DEF Entry
  <2>6. [s1 EXCEPT !.entries[e].err = TRUE] = w0
    BY <2>2, <2>3, <2>4 DEF WithEntries, ClientState
  <2> HIDE DEF new
  <2>7. PICK w : w = w0
    OBVIOUS
  <2>8. /\ ClientOK(w) /\ CachedData(w) = new.data /\ w.cached = e
        /\ w.fetches = qc.fetches /\ w.cleared = qc.cleared /\ w.lost = qc.lost
    BY <2>2, <2>3, <2>4, <2>5, <2>7, EntryChanged, QSlotsAre
  <2>9. CachedData(w) = CachedData(qc)
    BY <2>2, <2>3, <2>4, <2>5, <2>8, QSlotsAre DEF CachedData
  <2>10. PICK s2 : s2 = NotifyObservers(w, e)
    OBVIOUS
  <2>11. Alike(s2, w)
    BY <2>8, <2>10, NotifyIs
  <2>12. ClientOK(s2) /\ CachedData(s2) = CachedData(w) /\ s2.cleared = w.cleared /\ s2.lost = w.lost
    BY <2>8, <2>11, AlikeOK DEF Alike
  <2>13. Active(s2, f)
    BY <1>3, <2>8, <2>11 DEF Active, Alike
  <2>14. qc' = Settle(s2, f, FALSE, 0)
    BY <1>5, <2>1, <2>3, <2>6, <2>7, <2>10 DEF AttemptFails
  <2>15. 0 \in 0 .. MaxVersion
    BY DEF QueryAssumption
  <2>16. /\ ClientOK(qc') /\ CachedData(qc') = CachedData(s2) /\ qc'.cleared = s2.cleared
         /\ qc'.fetches[f] = NoFetch /\ \A g \in Slots : g # f => qc'.fetches[g] = s2.fetches[g]
    <3>1. PICK ok \in BOOLEAN : ok = FALSE
      OBVIOUS
    <3>2. PICK v \in 0 .. MaxVersion : v = 0
      BY <2>15
    <3>3. PICK r : r = Settle(s2, f, ok, v)
      OBVIOUS
    <3>4. /\ ClientOK(r) /\ CachedData(r) = CachedData(s2)
          /\ r.cleared = s2.cleared /\ r.lost = s2.lost /\ r.fetches[f] = NoFetch
          /\ \A g \in Slots : g # f => r.fetches[g] = s2.fetches[g]
      BY <2>12, <2>13, <3>3, SettleIs
    <3>5. qc' = r
      BY <2>14, <3>1, <3>2, <3>3
    <3> QED
      BY <3>4, <3>5
  <2>17. AnswersFrom(s2, qc)
    BY <2>8, <2>11, AlikeAnswers DEF AnswersFrom
  <2>18. AnswersFrom(qc', qc)
    BY <2>16, <2>17 DEF AnswersFrom, NoFetch
  <2> QED
    BY <1>3, <2>8, <2>9, <2>12, <2>16, <2>18, QuietStep
<1> QED
  BY <1>4, <1>5

LEMMA ClearKeepsClient ==
  ASSUME QueryAssumption, QCInv, Clear PROVE QCInv' /\ Ordered
<1>1. /\ ClientOK(qc) /\ qc \in ClientState /\ SpareEntries(qc) /\ SpareFetches(qc)
      /\ ObserversOK(qc) /\ DataOK(qc, qcServer) /\ qcServer \in 1 .. MaxVersion
  BY InvParts
<1>2. ~qc.cleared /\ UNCHANGED qcServer
  BY DEF Clear
<1>3. PICK s1 : s1 = Overtake(qc, FALSE)
  OBVIOUS
<1>4. /\ ClientOK(s1) /\ s1 \in ClientState /\ CachedData(s1) = CachedData(qc)
      /\ \A f \in Slots : s1.fetches[f].st = qc.fetches[f].st /\ s1.fetches[f].got = qc.fetches[f].got
      /\ s1.entries = qc.entries /\ s1.cached = qc.cached /\ s1.inflight = qc.inflight
      /\ s1.q = qc.q /\ s1.cleared = qc.cleared /\ s1.lost = qc.lost
  BY <1>1, <1>3, OvertakeIs DEF ClientOK
<1> DEFINE stopped(e) == [s1.entries[e] EXCEPT !.timer = FALSE]
           entries == [e \in Slots |-> IF e = qc.cached THEN stopped(e) ELSE s1.entries[e]]
           s2 == IF qc.cached = 0 THEN s1 ELSE [s1 EXCEPT !.entries[qc.cached].timer = FALSE]
           blank == [s2 EXCEPT !.cleared = TRUE, !.cached = 0, !.inflight = 0]
<1>5. qc' = Forget(blank)
  BY <1>3 DEF Clear
<1>6. ASSUME NEW e \in Slots
      PROVE  stopped(e) \in Entry /\ stopped(e).obs = s1.entries[e].obs /\ stopped(e).timer = FALSE
  <2>1. PICK old \in Entry : old = s1.entries[e]
    BY <1>4, QStateIs
  <2>2. LET new == [old EXCEPT !.timer = FALSE]
        IN  new \in Entry /\ new.obs = old.obs /\ new.timer = FALSE
    BY DEF Entry
  <2> QED
    BY <2>1, <2>2
<1>7. s2 = [s1 EXCEPT !.entries = entries]
  <2>1. CASE qc.cached = 0
    <3>1. entries = s1.entries
      BY <1>4, <2>1, QSlotsAre DEF ClientState
    <3> QED
      BY <1>4, <2>1, <3>1 DEF ClientState
  <2>2. CASE qc.cached # 0
    <3>1. [s1.entries EXCEPT ![qc.cached].timer = FALSE] = entries
      BY <1>4, QStateIs
    <3> QED
      BY <2>2, <3>1
  <2> QED
    BY <2>1, <2>2
<1> HIDE DEF stopped, s2
<1>8. /\ entries \in [Slots -> Entry]
      /\ \A e \in Slots : /\ entries[e].obs = s1.entries[e].obs
                          /\ entries[e].timer => s1.entries[e].timer /\ e # qc.cached
  BY <1>4, <1>6, QStateIs
<1> HIDE DEF entries
<1>9. PICK w : w = blank
  OBVIOUS
<1>10. /\ w \in ClientState /\ w.entries = entries /\ w.cached = 0 /\ w.inflight = 0
       /\ w.fetches = s1.fetches /\ w.q = s1.q /\ w.cleared = TRUE
  BY <1>4, <1>7, <1>8, <1>9 DEF ClientState
<1>11. ClientOK(w)
  <2>2. SpareEntries(w)
    BY <1>10 DEF SpareEntries
  <2>3. \A f \in Slots : Active(w, f) => f = qc.inflight
    BY <1>1, <1>2, <1>4, <1>10 DEF SpareFetches, Active
  <2>4. SpareFetches(w)
    BY <1>10, <2>3 DEF SpareFetches
  <2>5. ObserversOK(w)
    BY <1>1, <1>4, <1>8, <1>10 DEF ObserversOK
  <2> QED
    BY <1>10, <2>2, <2>4, <2>5 DEF ClientOK
<1>12. /\ ClientOK(qc') /\ CachedData(qc') = CachedData(w) /\ qc'.cached = 0
       /\ qc'.fetches = s1.fetches /\ qc'.cleared = TRUE
  BY <1>5, <1>9, <1>10, <1>11, ForgetIs
<1>13. CachedData(qc') = 0
  BY <1>12 DEF CachedData
<1>14. DataOK(qc', qcServer)
  BY <1>1, <1>4, <1>12, <1>13 DEF DataOK
<1>15. Ordered
  BY <1>12 DEF Ordered
<1> QED
  BY <1>1, <1>2, <1>12, <1>14, <1>15 DEF QCInv

LEMMA AgesKeeps ==
  ASSUME QueryAssumption, QCInv, DataAges PROVE QCInv' /\ Ordered
<1>1. ClientOK(qc) /\ qc \in ClientState
  BY InvParts
<1>2. qc.cached # 0 /\ UNCHANGED qcServer
  BY DEF DataAges
<1>3. PICK e \in Slots : e = qc.cached
  BY <1>1, <1>2, QStateIs
<1>4. PICK old \in Entry : old = qc.entries[e]
  BY <1>1, QStateIs
<1> DEFINE new == [old EXCEPT !.fresh = FALSE]
           w0 == WithEntries(qc, [qc.entries EXCEPT ![e] = new], e)
<1>5. new \in Entry /\ new.obs = old.obs /\ new.timer = old.timer /\ new.data = old.data
  BY DEF Entry
<1>6. qc' = w0
  BY <1>1, <1>3, <1>4 DEF DataAges, WithEntries, ClientState
<1> HIDE DEF new
<1>7. /\ ClientOK(w0) /\ CachedData(w0) = new.data /\ w0.fetches = qc.fetches
      /\ w0.cleared = qc.cleared /\ w0.lost = qc.lost
  BY <1>1, <1>2, <1>3, <1>4, <1>5, EntryChanged
<1>8. CachedData(qc) = old.data
  BY <1>2, <1>3, <1>4 DEF CachedData
<1> HIDE DEF w0
<1>9. AnswersFrom(qc', qc)
  BY <1>6, <1>7 DEF AnswersFrom
<1> QED
  BY <1>2, <1>5, <1>6, <1>7, <1>8, <1>9, QuietStep

LEMMA ServerChangesKeeps ==
  ASSUME QueryAssumption, QCInv, ServerChanges PROVE QCInv' /\ Ordered
<1>1. /\ ClientOK(qc) /\ qc \in ClientState /\ DataOK(qc, qcServer) /\ qcServer \in 1 .. MaxVersion
  BY InvParts
<1>2. UNCHANGED qc /\ qcServer' = qcServer + 1 /\ qcServer < MaxVersion
  BY DEF ServerChanges
<1>3. PICK data \in 0 .. MaxVersion : data = CachedData(qc)
  BY <1>1, CachedDataIs
<1>4. \A f \in Slots : qc.fetches[f].got \in Nat /\ qc.fetches[f].got <= qcServer
  BY <1>1, QStateIs DEF DataOK, QueryAssumption
<1>5. data <= qcServer + 1 /\ \A f \in Slots : qc.fetches[f].got <= qcServer + 1
  BY <1>1, <1>3, <1>4 DEF DataOK, QueryAssumption
<1>6. DataOK(qc, qcServer + 1)
  BY <1>1, <1>3, <1>5 DEF DataOK
<1>7. ClientOK(qc') /\ DataOK(qc', qcServer') /\ CachedData(qc') = data
  BY <1>1, <1>2, <1>3, <1>6
<1>8. qcServer' \in 1 .. MaxVersion
  BY <1>1, <1>2 DEF QueryAssumption
<1> QED
  BY <1>3, <1>7, <1>8 DEF QCInv, Ordered

LEMMA CallsKeep ==
  ASSUME QueryAssumption, QCInv PROVE
    /\ Invalidate => QCInv' /\ Ordered
    /\ Prefetch => QCInv' /\ Ordered
    /\ \A i \in Queries : Refetch(i) \/ WindowFocus(i) => QCInv' /\ Ordered
<1>1. ClientOK(qc) /\ qc \in ClientState /\ SpareFetches(qc)
  BY InvParts
<1>2. ASSUME Invalidate PROVE QCInv' /\ Ordered
  <2>1. PICK e \in Slots : e = qc.cached
    BY <1>1, <1>2, QStateIs DEF Invalidate
  <2>2. Alike(qc', qc)
    BY <1>1, <1>2, <2>1, NotifyIs DEF Invalidate
  <2> QED
    BY <1>2, <2>2, AlikeStep DEF Invalidate
<1>3. ASSUME Prefetch PROVE QCInv' /\ Ordered
  <2>1. Alike(qc', qc)
    BY <1>1, <1>3, FetchQueryIs DEF Prefetch
  <2> QED
    BY <1>3, <2>1, AlikeStep DEF Prefetch
<1>4. ASSUME NEW i \in Queries, Refetch(i) \/ WindowFocus(i) PROVE QCInv' /\ Ordered
  <2>1. Alike(qc', qc) /\ UNCHANGED qcServer
    BY <1>1, <1>4, ExecuteFetchIs DEF Refetch, WindowFocus
  <2> QED
    BY <2>1, AlikeStep
<1> QED
  BY <1>2, <1>3, <1>4

LEMMA ClientStarts == ASSUME QueryAssumption, QCInit PROVE QCInv
<1>1. NoEntry \in Entry /\ NoFetch \in Fetch /\ NoQuery \in Query
  BY BlanksAre
<1>2. qc \in ClientState
  <2>1. 0 \in 0 .. Again /\ 0 \in Nat
    BY DEF QueryAssumption
  <2> QED
    BY <1>1, <2>1 DEF QCInit, ClientState
<1>3. /\ \A e \in Slots : ~Held(qc, e) /\ ~qc.entries[e].timer /\ qc.entries[e].obs = {}
      /\ \A f \in Slots : ~Active(qc, f) /\ qc.fetches[f].got = 0 /\ qc.fetches[f].st = "none"
      /\ \A i \in Queries : qc.q[i].life = "none"
      /\ CachedData(qc) = 0 /\ qcServer = 1
  BY DEF QCInit, Held, Active, NoEntry, NoFetch, NoQuery, CachedData
<1>4. ClientOK(qc)
  BY <1>2, <1>3 DEF ClientOK, SpareEntries, SpareFetches, ObserversOK
<1>5. DataOK(qc, qcServer) /\ qcServer \in 1 .. MaxVersion
  BY <1>3 DEF DataOK, QueryAssumption
<1> QED
  BY <1>4, <1>5 DEF QCInv

LEMMA ClientStep == ASSUME QueryAssumption, QCInv, [QCNext]_qcVars PROVE QCInv' /\ [Ordered]_qcVars
<1>1. CASE UNCHANGED qcVars
  <2>1. UNCHANGED <<qc, qcServer>>
    BY <1>1 DEF qcVars
  <2>2. QCInv'
    BY <2>1 DEF QCInv
  <2> QED
    BY <1>1, <2>2
<1>2. CASE QCNext
  <2>1. ASSUME NEW i \in Queries, CreateQuery(i) \/ Dispose(i) \/ Refetch(i) \/ WindowFocus(i)
        PROVE  QCInv' /\ Ordered
    BY <2>1, CreateQueryKeeps, DisposeKeeps, CallsKeep
  <2>2. ASSUME SetData \/ Invalidate \/ Prefetch \/ Clear \/ DataAges \/ ServerChanges
        PROVE  QCInv' /\ Ordered
    BY <2>2, SetDataKeeps, CallsKeep, ClearKeepsClient, AgesKeeps, ServerChangesKeeps
  <2>3. ASSUME GcTimerFires \/ OrphanFires
        PROVE  QCInv' /\ Ordered
    BY <2>3, TimerKeeps, OrphanKeeps
  <2>4. ASSUME NEW f \in Slots,
               ServerAnswers(f) \/ AnswerArrives(f) \/ AttemptFails(f) \/ RetryDelayPasses(f)
        PROVE  QCInv' /\ Ordered
    BY <2>4, AnswersKeeps, ArrivesKeeps, FailsAttemptKeeps, DelayKeeps
  <2> QED
    BY <1>2, <2>1, <2>2, <2>3, <2>4 DEF QCNext
<1> QED
  BY <1>1, <1>2

LEMMA ClientFromInv == ASSUME QueryAssumption, QCInv PROVE QCTypeOK /\ SubscribedKept
<1>1. /\ qc \in ClientState /\ SpareEntries(qc) /\ ObserversOK(qc) /\ qcServer \in 1 .. MaxVersion
  BY InvParts
<1>2. QCTypeOK
  BY <1>1, QStateIs DEF QCTypeOK, Entry, Fetch, Query
<1>3. SubscribedKept
  <2>1. SUFFICES ASSUME ~qc.cleared, ~qc.lost, NEW i \in Queries, qc.q[i].life = "live"
                 PROVE  qc.cached = qc.q[i].entry /\ i \in qc.entries[qc.cached].obs
    BY DEF SubscribedKept
  <2>2. qc.q[i].entry \in Slots /\ i \in qc.entries[qc.q[i].entry].obs
    BY <1>1, <2>1 DEF ObserversOK
  <2>3. qc.cached = qc.q[i].entry
    BY <1>1, <2>1, <2>2 DEF SpareEntries, Held
  <2> QED
    BY <2>2, <2>3
<1> QED
  BY <1>2, <1>3

\* The entry a live query observes is the one in the cache, until clear() is called or a
\* query that was disposed of once more deletes the key of another's entry; there is an
\* entry and a fetch to take whenever one is needed, and values keep their types.
THEOREM ClientKeepsEntries ==
  ASSUME QueryAssumption
  PROVE  QCInit /\ [][QCNext]_qcVars => [](QCTypeOK /\ SubscribedKept)
<1>1. QCInit => QCInv
  BY ClientStarts
<1>2. QCInv /\ [QCNext]_qcVars => QCInv'
  BY ClientStep
<1>3. QCInv => QCTypeOK /\ SubscribedKept
  BY ClientFromInv
<1> QED
  BY <1>1, <1>2, <1>3, PTL

\* Until clear() is used, data of the cache is replaced by older data only by a fetch
\* that a manual write overtook.
THEOREM AnswersInOrder ==
  ASSUME QueryAssumption
  PROVE  QCInit /\ [][QCNext]_qcVars => DataMonotone
<1>1. QCInit => QCInv
  BY ClientStarts
<1>2. QCInv /\ [QCNext]_qcVars => QCInv' /\ [Ordered]_qcVars
  BY ClientStep
<1> QED
  BY <1>1, <1>2, PTL DEF DataMonotone, Ordered

-----------------------------------------------------------------------------
(* InfiniteQuery: one run in each direction at a time *)

PageNumbers == MinPage .. MaxPage
PageRuns == [dir : {"initial", "next", "previous"}, param : PageNumbers, attempt : Nat,
             flagged : BOOLEAN]
PagesState ==
  [pages : Seq(PageNumbers), status : {"idle", "loading", "success", "error"},
   next : PageNumbers \cup {None}, prev : PageNumbers \cup {None}, fetching : BOOLEAN,
   fetchingNext : BOOLEAN, fetchingPrev : BOOLEAN, runs : Seq(PageRuns), doubled : BOOLEAN]

Consecutive(pages) == \A k \in 1 .. Len(pages) - 1 : pages[k + 1] = pages[k] + 1

\* A run adds the page its direction's parameter names, and has its direction's flag
\* up for as long as no other run has ended.
RunFits(s, r) ==
  /\ r.dir = "initial" => s.pages = <<>> /\ Len(s.runs) = 1
  /\ r.dir = "next" => s.pages # <<>> /\ r.param = s.pages[Len(s.pages)] + 1
  /\ r.dir = "previous" => s.pages # <<>> /\ r.param = s.pages[1] - 1
  /\ r.flagged /\ r.dir = "next" => s.fetchingNext
  /\ r.flagged /\ r.dir = "previous" => s.fetchingPrev

RunsFit(s) ==
  /\ \A k \in 1 .. Len(s.runs) : RunFits(s, s.runs[k])
  /\ \A j, k \in 1 .. Len(s.runs) : s.runs[j].dir = s.runs[k].dir => j = k

PagesOK(s) ==
  /\ s \in PagesState /\ Len(s.pages) <= MaxPages
  /\ s.next = NextParam(s.pages) /\ s.prev = PrevParam(s.pages)
  /\ ~s.doubled => Consecutive(s.pages) /\ RunsFit(s)

IQInv == PagesOK(iq)

\* The parameters derived from the pages are pages the server has.
LEMMA DerivedParams ==
  ASSUME PagesAssumption, NEW pages \in Seq(PageNumbers)
  PROVE  /\ NextParam(pages) \in PageNumbers \cup {None} /\ PrevParam(pages) \in PageNumbers \cup {None}
         /\ NextParam(pages) # None =>
              pages # <<>> /\ NextParam(pages) = pages[Len(pages)] + 1 /\ NextParam(pages) \in PageNumbers
         /\ PrevParam(pages) # None =>
              pages # <<>> /\ PrevParam(pages) = pages[1] - 1 /\ PrevParam(pages) \in PageNumbers
<1>1. CASE pages = <<>>
  BY <1>1 DEF NextParam, PrevParam
<1>2. CASE pages # <<>>
  <2>1. pages[1] \in PageNumbers /\ pages[Len(pages)] \in PageNumbers
    BY <1>2
  <2>2. MinPage \in Int /\ MaxPage \in Int
    BY DEF PagesAssumption
  <2>3. NextParam(pages) = None \/ NextParam(pages) = pages[Len(pages)] + 1
    BY DEF NextParam
  <2>4. PrevParam(pages) = None \/ PrevParam(pages) = pages[1] - 1
    BY DEF PrevParam
  <2>5. NextParam(pages) # None => NextParam(pages) \in PageNumbers
    BY <1>2, <2>1, <2>2 DEF NextParam, PageNumbers, None
  <2>6. PrevParam(pages) # None => PrevParam(pages) \in PageNumbers
    BY <1>2, <2>1, <2>2 DEF PrevParam, PageNumbers, None
  <2> QED
    BY <1>2, <2>3, <2>4, <2>5, <2>6
<1> QED
  BY <1>1, <1>2

\* A fetch adds its run at the end.
LEMMA FetchPageAdds ==
  ASSUME PagesAssumption, NEW s \in PagesState, NEW d \in {"initial", "next", "previous"},
         NEW p \in PageNumbers
  PROVE  LET r == FetchPage(s, d, p)
         IN  /\ r \in PagesState
             /\ r.pages = s.pages /\ r.next = s.next /\ r.prev = s.prev
             /\ r.runs = Append(s.runs, Run(d, p))
             /\ r.fetchingNext <=> s.fetchingNext \/ d = "next"
             /\ r.fetchingPrev <=> s.fetchingPrev \/ d = "previous"
             /\ r.doubled <=> s.doubled \/ Doubles(s, d)
<1> DEFINE r == FetchPage(s, d, p)
<1>1. Run(d, p) \in PageRuns
  BY DEF Run, PageRuns
<1>2. Append(s.runs, Run(d, p)) \in Seq(PageRuns)
  BY <1>1 DEF PagesState
<1>3. PICK runs \in Seq(PageRuns) : runs = Append(s.runs, Run(d, p))
  BY <1>2
<1>9. Doubles(s, d) \in BOOLEAN
  BY DEF Doubles
<1>4. r.runs = runs
  BY <1>3 DEF FetchPage, PagesState
<1>5. r \in PagesState
  BY <1>3, <1>9 DEF FetchPage, PagesState
<1>6. r.pages = s.pages /\ r.next = s.next /\ r.prev = s.prev
  BY DEF FetchPage, PagesState
<1>7. /\ r.fetchingNext <=> s.fetchingNext \/ d = "next"
      /\ r.fetchingPrev <=> s.fetchingPrev \/ d = "previous"
  BY DEF FetchPage, PagesState
<1>8. r.doubled <=> s.doubled \/ Doubles(s, d)
  BY DEF FetchPage, PagesState
<1> HIDE DEF r
<1> QED
  BY <1>3, <1>4, <1>5, <1>6, <1>7, <1>8 DEF r

\* A run that starts fits if it is none of those that double another.
LEMMA FetchStarts ==
  ASSUME PagesAssumption, NEW s \in PagesState, NEW d \in {"initial", "next", "previous"},
         NEW p \in PageNumbers, iq' = FetchPage(s, d, p), Len(s.pages) <= MaxPages,
         s.next = NextParam(s.pages), s.prev = PrevParam(s.pages),
         ~s.doubled => Consecutive(s.pages),
         ~s.doubled /\ d # "initial" => RunsFit(s),
         d = "next" => ~s.fetchingNext, d = "previous" => ~s.fetchingPrev,
         d = "initial" => s.pages = <<>>,
         d = "next" => s.pages # <<>> /\ p = s.pages[Len(s.pages)] + 1,
         d = "previous" => s.pages # <<>> /\ p = s.pages[1] - 1
  PROVE  IQInv'
<1>1. PICK r : r = FetchPage(s, d, p)
  OBVIOUS
<1>2. /\ r \in PagesState /\ iq' = r
      /\ r.pages = s.pages /\ r.next = s.next /\ r.prev = s.prev
      /\ r.runs = Append(s.runs, Run(d, p))
      /\ r.fetchingNext <=> s.fetchingNext \/ d = "next"
      /\ r.fetchingPrev <=> s.fetchingPrev \/ d = "previous"
      /\ r.doubled <=> s.doubled \/ Doubles(s, d)
  BY <1>1, FetchPageAdds
<1>3. PICK n \in Nat : n = Len(s.runs)
  BY DEF PagesState
<1>4. /\ Len(r.runs) = n + 1 /\ r.runs[n + 1] = Run(d, p)
      /\ \A k \in 1 .. n : r.runs[k] = s.runs[k] /\ s.runs[k] \in PageRuns
  BY <1>2, <1>3 DEF PagesState
<1>5. Run(d, p).dir = d /\ Run(d, p).param = p
  BY DEF Run
<1>6. ASSUME ~r.doubled PROVE Consecutive(r.pages) /\ RunsFit(r)
  <2>1. ~s.doubled /\ ~Doubles(s, d)
    BY <1>2, <1>6
  <2>2. d = "initial" => n = 0
    <3>1. n # 0 => 1 \in 1 .. n
      OBVIOUS
    <3> QED
      BY <1>3, <2>1, <3>1 DEF Doubles
  <2>3. ASSUME NEW k \in 1 .. n PROVE RunFits(r, s.runs[k]) /\ s.runs[k].dir # d
    <3>1. d # "initial" /\ RunFits(s, s.runs[k])
      BY <1>3, <2>1, <2>2, <2>3 DEF RunsFit
    <3>2. s.runs[k].dir # "initial"
      BY <3>1 DEF RunFits
    <3>3. s.runs[k].dir = d => s.runs[k].flagged
      BY <1>3, <2>1, <2>3 DEF Doubles
    <3>4. s.runs[k].dir # d
      BY <3>1, <3>2, <3>3 DEF RunFits
    <3> QED
      BY <1>2, <3>1, <3>2, <3>4 DEF RunFits
  <2>4. RunFits(r, Run(d, p))
    BY <1>2, <1>4, <1>5, <2>2 DEF RunFits
  <2>5. \A k \in 1 .. n + 1 : RunFits(r, r.runs[k])
    BY <1>4, <2>3, <2>4
  <2>6. ASSUME NEW j \in 1 .. n + 1, NEW k \in 1 .. n + 1, r.runs[j].dir = r.runs[k].dir PROVE j = k
    <3>1. CASE j \in 1 .. n /\ k \in 1 .. n
      <4>1. d # "initial"
        BY <2>2, <3>1
      <4> QED
        BY <1>3, <1>4, <2>1, <2>6, <3>1, <4>1 DEF RunsFit
    <3>2. CASE j = n + 1 \/ k = n + 1
      BY <1>4, <1>5, <2>3, <2>6, <3>2
    <3> QED
      BY <3>1, <3>2
  <2> QED
    BY <1>2, <1>4, <2>1, <2>5, <2>6 DEF RunsFit
<1> QED
  BY <1>2, <1>6 DEF IQInv, PagesOK

LEMMA NextFetchKeeps == ASSUME PagesAssumption, IQInv, FetchNextPage PROVE IQInv'
<1>1. iq \in PagesState /\ iq.next \in PageNumbers /\ iq.next # None
  BY DerivedParams DEF IQInv, PagesOK, FetchNextPage, PagesState
<1>2. iq.pages # <<>> /\ iq.next = iq.pages[Len(iq.pages)] + 1
  BY <1>1, DerivedParams DEF IQInv, PagesOK, PagesState
<1> QED
  BY <1>1, <1>2, FetchStarts DEF IQInv, PagesOK, FetchNextPage

LEMMA PreviousFetchKeeps == ASSUME PagesAssumption, IQInv, FetchPreviousPage PROVE IQInv'
<1>1. iq \in PagesState /\ iq.prev \in PageNumbers /\ iq.prev # None
  BY DerivedParams DEF IQInv, PagesOK, FetchPreviousPage, PagesState
<1>2. iq.pages # <<>> /\ iq.prev = iq.pages[1] - 1
  BY <1>1, DerivedParams DEF IQInv, PagesOK, PagesState
<1> QED
  BY <1>1, <1>2, FetchStarts DEF IQInv, PagesOK, FetchPreviousPage

LEMMA RefetchKeeps == ASSUME PagesAssumption, IQInv, RefetchPages PROVE IQInv'
<1>1. iq \in PagesState
  BY DEF IQInv, PagesOK
<1>2. PICK none, empty : none = None /\ empty = <<>>
  OBVIOUS
<1>3. PICK s : s = [iq EXCEPT !.pages = empty, !.next = none, !.prev = none, !.status = "idle"]
  OBVIOUS
<1>4. empty \in Seq(PageNumbers) /\ none \in PageNumbers \cup {None}
  BY <1>2
<1>5. /\ s \in PagesState /\ s.pages = empty /\ s.next = none /\ s.prev = none
      /\ s.runs = iq.runs /\ (s.doubled <=> iq.doubled)
  BY <1>1, <1>3, <1>4 DEF PagesState
<1>6. /\ s \in PagesState /\ s.pages = <<>> /\ s.next = None /\ s.prev = None
      /\ s.runs = iq.runs /\ (s.doubled <=> iq.doubled)
  BY <1>2, <1>5
<1>7. s.next = NextParam(s.pages) /\ s.prev = PrevParam(s.pages)
  BY <1>6 DEF NextParam, PrevParam
<1>8. 0 \in PageNumbers /\ Len(s.pages) <= MaxPages /\ Consecutive(s.pages)
  BY <1>6 DEF PageNumbers, PagesAssumption, Consecutive
<1>9. iq' = FetchPage(s, "initial", 0)
  BY <1>2, <1>3 DEF RefetchPages
<1> QED
  BY <1>6, <1>7, <1>8, <1>9, FetchStarts

\* Where the runs that stay were.
Was(j, k) == IF j < k THEN j ELSE j + 1

LEMMA Removed ==
  ASSUME NEW S, NEW q \in Seq(S), NEW k \in 1 .. Len(q)
  PROVE  LET r == RemoveAt(q, k)
         IN  /\ r \in Seq(S) /\ Len(r) = Len(q) - 1
             /\ \A j \in 1 .. Len(r) : /\ Was(j, k) \in 1 .. Len(q) /\ Was(j, k) # k
                                       /\ r[j] = q[Was(j, k)]
             /\ \A i, j \in 1 .. Len(r) : Was(i, k) = Was(j, k) => i = j
<1>1. PICK n \in Nat : n = Len(q)
  OBVIOUS
<1>2. PICK a, b : a = SubSeq(q, 1, k - 1) /\ b = SubSeq(q, k + 1, n)
  OBVIOUS
<1>3. k \in 1 .. n
  BY <1>1
<1>4. a \in Seq(S) /\ Len(a) = k - 1 /\ \A j \in 1 .. k - 1 : a[j] = q[j]
  BY <1>1, <1>2, <1>3
<1>5. b \in Seq(S) /\ Len(b) = n - k /\ \A j \in 1 .. n - k : b[j] = q[k + j]
  BY <1>1, <1>2, <1>3
<1>6. RemoveAt(q, k) = a \o b
  BY <1>1, <1>2 DEF RemoveAt
<1>7. PICK r : r = a \o b
  OBVIOUS
<1>8. /\ r \in Seq(S) /\ Len(r) = n - 1
      /\ \A j \in 1 .. k - 1 : r[j] = a[j]
      /\ \A j \in k .. n - 1 : r[j] = b[j - (k - 1)]
  <2>1. PICK m \in Nat : m = k - 1 /\ m = Len(a)
    BY <1>3, <1>4
  <2>2. PICK o \in Nat : o = n - k /\ o = Len(b)
    BY <1>3, <1>5
  <2>3. a \in Seq(S) /\ b \in Seq(S)
    BY <1>4, <1>5
  <2>4. r \in Seq(S) /\ Len(r) = Len(a) + Len(b)
    BY <1>7, <2>3
  <2>5. ASSUME NEW j \in 1 .. m PROVE r[j] = a[j]
    BY <1>7, <2>1, <2>3
  <2>6. ASSUME NEW j \in 1 .. o PROVE r[m + j] = b[j]
    BY <1>7, <2>1, <2>2, <2>3
  <2>7. ASSUME NEW j \in k .. n - 1 PROVE r[j] = b[j - (k - 1)]
    <3>1. PICK i \in 1 .. o : i = j - m
      BY <1>3, <2>1, <2>2, <2>7
    <3>2. j = m + i /\ j - (k - 1) = i
      BY <1>3, <2>1, <2>7, <3>1
    <3> QED
      BY <2>6, <3>2
  <2>8. Len(r) = n - 1
    BY <1>3, <2>1, <2>2, <2>4
  <2>9. \A j \in 1 .. k - 1 : r[j] = a[j]
    BY <2>1, <2>5
  <2>10. \A j \in k .. n - 1 : r[j] = b[j - (k - 1)]
    BY <2>7
  <2> QED
    BY <2>4, <2>8, <2>9, <2>10
<1>9. ASSUME NEW j \in 1 .. n - 1
      PROVE  Was(j, k) \in 1 .. n /\ Was(j, k) # k /\ r[j] = q[Was(j, k)]
  <2>1. CASE j < k
    BY <1>3, <1>4, <1>8, <2>1 DEF Was
  <2>2. CASE ~(j < k)
    <3>1. j \in k .. n - 1 /\ Was(j, k) = j + 1
      BY <1>3, <2>2 DEF Was
    <3>2. j - (k - 1) \in 1 .. n - k /\ k + (j - (k - 1)) = j + 1
      BY <1>3, <3>1
    <3>3. r[j] = q[j + 1]
      BY <1>5, <1>8, <3>1, <3>2
    <3> QED
      BY <1>3, <3>1, <3>3
  <2> QED
    BY <2>1, <2>2
<1>10. \A i, j \in 1 .. n - 1 : Was(i, k) = Was(j, k) => i = j
  BY <1>3 DEF Was
<1> QED
  BY <1>1, <1>6, <1>7, <1>8, <1>9, <1>10

\* The run that ends is taken out, and the flags of the others come down.
LEMMA FinishTakes ==
  ASSUME PagesAssumption, NEW s \in PagesState, NEW k \in 1 .. Len(s.runs)
  PROVE  LET r == Finish(s, k)
         IN  /\ r \in PagesState
             /\ r.pages = s.pages /\ r.next = s.next /\ r.prev = s.prev
             /\ r.doubled <=> s.doubled
             /\ Len(r.runs) = Len(s.runs) - 1
             /\ \A j \in 1 .. Len(r.runs) :
                  /\ Was(j, k) \in 1 .. Len(s.runs) /\ Was(j, k) # k /\ ~r.runs[j].flagged
                  /\ r.runs[j].dir = s.runs[Was(j, k)].dir
                  /\ r.runs[j].param = s.runs[Was(j, k)].param
             /\ \A i, j \in 1 .. Len(r.runs) : Was(i, k) = Was(j, k) => i = j
<1> DEFINE r == Finish(s, k)
<1>1. s.runs \in Seq(PageRuns)
  BY DEF PagesState
<1>2. PICK left : left = RemoveAt(s.runs, k)
  OBVIOUS
<1>3. /\ left \in Seq(PageRuns) /\ Len(left) = Len(s.runs) - 1
      /\ \A j \in 1 .. Len(left) : /\ Was(j, k) \in 1 .. Len(s.runs) /\ Was(j, k) # k
                                   /\ left[j] = s.runs[Was(j, k)]
      /\ \A i, j \in 1 .. Len(left) : Was(i, k) = Was(j, k) => i = j
  BY <1>1, <1>2, Removed
<1>4. PICK n \in Nat : n = Len(left)
  BY <1>3
<1> DEFINE lowered(j) == [left[j] EXCEPT !.flagged = FALSE]
           runs0 == [j \in 1 .. n |-> lowered(j)]
<1>5. ASSUME NEW j \in 1 .. n
      PROVE  /\ lowered(j) \in PageRuns /\ ~lowered(j).flagged
             /\ lowered(j).dir = left[j].dir /\ lowered(j).param = left[j].param
  <2>1. left[j] \in PageRuns
    BY <1>3, <1>4
  <2> QED
    BY <2>1 DEF PageRuns
<1>6. r = [s EXCEPT !.runs = runs0, !.fetching = FALSE, !.fetchingNext = FALSE, !.fetchingPrev = FALSE]
  BY <1>2, <1>4 DEF Finish
<1> HIDE DEF lowered
<1>7. runs0 \in Seq(PageRuns) /\ Len(runs0) = n /\ \A j \in 1 .. n : runs0[j] = lowered(j)
  BY <1>5
<1>8. PICK runs \in Seq(PageRuns) : runs = runs0
  BY <1>7
<1> HIDE DEF runs0
<1>9. /\ r \in PagesState /\ r.pages = s.pages /\ r.next = s.next /\ r.prev = s.prev
      /\ (r.doubled <=> s.doubled) /\ r.runs = runs
  BY <1>6, <1>8 DEF PagesState
<1> HIDE DEF r
<1>10. Len(r.runs) = n /\ \A j \in 1 .. n : r.runs[j] = lowered(j)
  BY <1>7, <1>8, <1>9
<1> QED
  BY <1>3, <1>4, <1>5, <1>9, <1>10 DEF r

\* The runs that stay fit the pages as they are after one has ended.
LEMMA FinishFits ==
  ASSUME PagesAssumption, NEW s \in PagesState, NEW k \in 1 .. Len(s.runs), NEW old \in PagesState,
         RunsFit(old), s.runs = old.runs,
         \/ s.pages = old.pages
         \/ old.runs[k].dir = "previous" /\ s.pages = <<old.runs[k].param>> \o old.pages
         \/ old.runs[k].dir # "previous" /\ s.pages = Append(old.pages, old.runs[k].param)
  PROVE  RunsFit(Finish(s, k))
<1>1. PICK r : r = Finish(s, k)
  OBVIOUS
<1>2. /\ r.pages = s.pages /\ Len(r.runs) = Len(old.runs) - 1
      /\ \A j \in 1 .. Len(r.runs) :
           /\ Was(j, k) \in 1 .. Len(old.runs) /\ Was(j, k) # k /\ ~r.runs[j].flagged
           /\ r.runs[j].dir = old.runs[Was(j, k)].dir
           /\ r.runs[j].param = old.runs[Was(j, k)].param
      /\ \A i, j \in 1 .. Len(r.runs) : Was(i, k) = Was(j, k) => i = j
  <2>1. s.runs = old.runs
    OBVIOUS
  <2> QED
    BY ONLY <1>1, <2>1, FinishTakes, PagesAssumption, s \in PagesState, k \in 1 .. Len(s.runs)
<1>6. old.runs \in Seq(PageRuns)
  BY DEF PagesState
<1>3. PICK n \in Nat : n = Len(old.runs)
  BY <1>6
<1>4. ASSUME NEW j \in 1 .. Len(r.runs) PROVE RunFits(r, r.runs[j])
  <2>1. PICK i \in 1 .. n : i = Was(j, k) /\ i # k
    BY <1>2, <1>3, <1>4
  <2>2. /\ r.runs[j].dir = old.runs[i].dir /\ r.runs[j].param = old.runs[i].param
        /\ ~r.runs[j].flagged
    BY <1>2, <1>4, <2>1
  <2>3. RunFits(old, old.runs[i]) /\ old.runs[i].dir # old.runs[k].dir
    BY <1>3, <2>1 DEF RunsFit
  <2>4. old.runs[i].dir # "initial" /\ old.runs[k].dir # "initial"
    <3>1. RunFits(old, old.runs[k]) /\ n # 1
      BY <1>3, <2>1 DEF RunsFit
    <3> QED
      BY <1>3, <2>3, <3>1 DEF RunFits
  <2>5. PICK q \in Seq(PageNumbers) : q = old.pages
    BY DEF PagesState
  <2>6. old.runs[k] \in PageRuns /\ old.runs[i] \in PageRuns
    BY <1>3, <2>1 DEF PagesState
  <2>7. PICK p \in PageNumbers : p = old.runs[k].param
    BY <2>6 DEF PageRuns
  <2>8. old.runs[i].dir = "next" => /\ s.pages # <<>> /\ q # <<>>
                                    /\ s.pages[Len(s.pages)] = q[Len(q)]
    <3>1. SUFFICES ASSUME old.runs[i].dir = "next"
                   PROVE  s.pages # <<>> /\ q # <<>> /\ s.pages[Len(s.pages)] = q[Len(q)]
      OBVIOUS
    <3>2. q # <<>> /\ (s.pages = q \/ s.pages = <<p>> \o q)
      BY <2>3, <2>4, <2>5, <2>6, <2>7, <3>1 DEF RunFits, PageRuns
    <3>3. PICK t : t = <<p>> \o q
      OBVIOUS
    <3>4. Len(t) = Len(q) + 1 /\ t # <<>> /\ t[Len(t)] = q[Len(q)]
      BY <3>2, <3>3
    <3> QED
      BY <3>2, <3>3, <3>4
  <2>9. old.runs[i].dir = "previous" => s.pages # <<>> /\ q # <<>> /\ s.pages[1] = q[1]
    <3>1. SUFFICES ASSUME old.runs[i].dir = "previous" PROVE s.pages # <<>> /\ q # <<>> /\ s.pages[1] = q[1]
      OBVIOUS
    <3>2. q # <<>> /\ (s.pages = q \/ s.pages = Append(q, p))
      BY <2>3, <2>4, <2>5, <2>6, <2>7, <3>1 DEF RunFits, PageRuns
    <3> QED
      BY <3>2
  <2> QED
    BY <1>2, <2>2, <2>3, <2>4, <2>5, <2>8, <2>9 DEF RunFits
<1>5. ASSUME NEW i \in 1 .. Len(r.runs), NEW j \in 1 .. Len(r.runs), r.runs[i].dir = r.runs[j].dir
      PROVE  i = j
  <2>1. Was(i, k) = Was(j, k)
    BY <1>2, <1>5 DEF RunsFit
  <2> QED
    BY <1>2, <1>5, <2>1
<1> QED
  BY <1>1, <1>4, <1>5 DEF RunsFit

\* Consecutive numbers stay so with the next one after or the one before them.
LEMMA ConsecutiveGrows ==
  ASSUME NEW q \in Seq(Int), NEW p \in Int, Consecutive(q)
  PROVE  /\ q = <<>> \/ p = q[Len(q)] + 1 => Consecutive(Append(q, p))
         /\ q = <<>> \/ p = q[1] - 1 => Consecutive(<<p>> \o q)
<1>1. PICK n \in Nat : n = Len(q)
  OBVIOUS
<1>2. /\ \A k \in 1 .. n : q[k] \in Int
      /\ \A k \in 1 .. n - 1 : q[k + 1] = q[k] + 1
      /\ q = <<>> <=> n = 0
  BY <1>1 DEF Consecutive
<1>3. ASSUME q = <<>> \/ p = q[Len(q)] + 1 PROVE Consecutive(Append(q, p))
  <2>1. PICK r : r = Append(q, p)
    OBVIOUS
  <2>2. Len(r) = n + 1 /\ r[n + 1] = p /\ \A k \in 1 .. n : r[k] = q[k]
    BY <1>1, <2>1
  <2>3. ASSUME NEW k \in 1 .. n PROVE r[k + 1] = r[k] + 1
    BY <1>1, <1>2, <1>3, <2>2
  <2> QED
    BY <2>1, <2>2, <2>3 DEF Consecutive
<1>4. ASSUME q = <<>> \/ p = q[1] - 1 PROVE Consecutive(<<p>> \o q)
  <2>1. PICK r : r = <<p>> \o q
    OBVIOUS
  <2>2. Len(r) = n + 1 /\ r[1] = p /\ \A k \in 1 .. n : r[k + 1] = q[k]
    BY <1>1, <2>1
  <2>3. ASSUME NEW k \in 1 .. n PROVE r[k + 1] = r[k] + 1
    <3>1. CASE k = 1
      BY <1>1, <1>2, <1>4, <2>2, <3>1
    <3>2. CASE k # 1
      <4>1. PICK j \in 1 .. n - 1 : k = j + 1
        BY <3>2
      <4>2. r[j + 1] = q[j] /\ r[(j + 1) + 1] = q[j + 1] /\ q[j + 1] = q[j] + 1
        BY <1>2, <2>2, <4>1
      <4> QED
        BY <4>1, <4>2
    <3> QED
      BY <3>1, <3>2
  <2> QED
    BY <2>1, <2>2, <2>3 DEF Consecutive
<1> QED
  BY <1>3, <1>4

\* A page put where its direction says leaves the pages consecutive.
LEMMA PageFits ==
  ASSUME PagesAssumption, NEW s \in PagesState, NEW r \in PageRuns, RunFits(s, r),
         Consecutive(s.pages)
  PROVE  /\ r.dir = "previous" => Consecutive(<<r.param>> \o s.pages)
         /\ r.dir # "previous" => Consecutive(Append(s.pages, r.param))
<1>1. PICK q \in Seq(Int) : q = s.pages
  BY DEF PagesState, PageNumbers, PagesAssumption
<1>2. PICK p \in Int : p = r.param
  BY DEF PageRuns, PageNumbers, PagesAssumption
<1>3. Consecutive(q)
  BY <1>1
<1>4. r.dir = "previous" => p = q[1] - 1
  BY <1>1, <1>2 DEF RunFits
<1>5. r.dir # "previous" => q = <<>> \/ p = q[Len(q)] + 1
  BY <1>1, <1>2 DEF RunFits, PageRuns
<1> QED
  BY <1>1, <1>2, <1>3, <1>4, <1>5, ConsecutiveGrows

LEMMA ArrivalKeeps ==
  ASSUME PagesAssumption, IQInv, NEW k \in 1 .. Len(iq.runs), PageArrives(k) PROVE IQInv'
<1>1. iq \in PagesState /\ Len(iq.pages) < MaxPages /\ iq.runs \in Seq(PageRuns)
  BY DEF IQInv, PagesOK, PageArrives, PagesState
<1>2. PICK run \in PageRuns : run = iq.runs[k]
  BY <1>1
<1>3. PICK pages : pages = IF run.dir = "previous" THEN <<run.param>> \o iq.pages
                           ELSE Append(iq.pages, run.param)
  OBVIOUS
<1>4. run.param \in PageNumbers /\ iq.pages \in Seq(PageNumbers) /\ MaxPages \in Nat
  BY <1>1 DEF PageRuns, PagesState, PagesAssumption
<1>5. pages \in Seq(PageNumbers) /\ Len(pages) <= MaxPages
  BY <1>1, <1>3, <1>4
<1>6. PICK next, prev : next = NextParam(pages) /\ prev = PrevParam(pages)
  OBVIOUS
<1>7. next \in PageNumbers \cup {None} /\ prev \in PageNumbers \cup {None}
  BY <1>5, <1>6, DerivedParams
<1>8. PICK s0 : s0 = [iq EXCEPT !.pages = pages, !.status = "success"]
  OBVIOUS
<1>9. s0 \in PagesState /\ s0.pages = pages /\ s0.runs = iq.runs /\ (s0.doubled <=> iq.doubled)
  BY <1>1, <1>5, <1>8 DEF PagesState
<1>10. PICK s : s = [s0 EXCEPT !.next = next, !.prev = prev]
  OBVIOUS
<1>11. /\ s \in PagesState /\ s.pages = pages /\ s.runs = iq.runs /\ (s.doubled <=> iq.doubled)
       /\ s.next = next /\ s.prev = prev
  BY <1>7, <1>9, <1>10 DEF PagesState
<1>12. s = UpdateDerivedParams(s0)
  BY <1>6, <1>9, <1>10 DEF UpdateDerivedParams
<1>13. iq' = Finish(s, k)
  BY <1>2, <1>3, <1>8, <1>12 DEF PageArrives
<1>14. PICK r : r = Finish(s, k)
  OBVIOUS
<1>15. /\ r \in PagesState /\ r.pages = pages /\ r.next = next /\ r.prev = prev
       /\ (r.doubled <=> iq.doubled)
  BY <1>11, <1>14, FinishTakes
<1>16. ~r.doubled => Consecutive(r.pages) /\ RunsFit(r)
  <2>1. SUFFICES ASSUME ~r.doubled PROVE Consecutive(r.pages) /\ RunsFit(r)
    OBVIOUS
  <2>2. Consecutive(iq.pages) /\ RunsFit(iq)
    BY <1>15, <2>1 DEF IQInv, PagesOK
  <2>3. RunFits(iq, run)
    BY <1>2, <2>2 DEF RunsFit
  <2>4. Consecutive(pages)
    BY <1>1, <1>2, <1>3, <2>2, <2>3, PageFits
  <2>5. RunsFit(r)
    BY <1>1, <1>2, <1>3, <1>11, <1>14, <2>2, FinishFits
  <2> QED
    BY <1>15, <2>4, <2>5
<1> QED
  BY <1>5, <1>6, <1>13, <1>14, <1>15, <1>16 DEF IQInv, PagesOK

LEMMA FailureKeeps ==
  ASSUME PagesAssumption, IQInv, NEW k \in 1 .. Len(iq.runs), PageFails(k) PROVE IQInv'
<1>1. iq \in PagesState /\ iq.runs \in Seq(PageRuns)
  BY DEF IQInv, PagesOK, PagesState
<1>2. PICK new : new = [iq.runs[k] EXCEPT !.attempt = @ + 1]
  OBVIOUS
<1>3. iq.runs[k] \in PageRuns
  BY <1>1
<1>4. /\ new \in PageRuns /\ new.dir = iq.runs[k].dir /\ new.param = iq.runs[k].param
      /\ (new.flagged <=> iq.runs[k].flagged)
  BY <1>2, <1>3 DEF PageRuns
<1>5. PICK runs : runs = [iq.runs EXCEPT ![k] = new]
  OBVIOUS
<1>6. /\ runs \in Seq(PageRuns) /\ Len(runs) = Len(iq.runs)
      /\ \A j \in 1 .. Len(runs) : /\ runs[j].dir = iq.runs[j].dir /\ runs[j].param = iq.runs[j].param
                                   /\ (runs[j].flagged <=> iq.runs[j].flagged)
  BY <1>1, <1>4, <1>5
<1>7. iq' = [iq EXCEPT !.runs = runs]
  BY <1>1, <1>2, <1>5 DEF PageFails, PagesState
<1>8. PICK r : r = [iq EXCEPT !.runs = runs]
  OBVIOUS
<1>9. /\ r \in PagesState /\ r.runs = runs /\ r.pages = iq.pages /\ r.next = iq.next
      /\ r.prev = iq.prev /\ (r.doubled <=> iq.doubled) /\ (r.fetchingNext <=> iq.fetchingNext)
      /\ (r.fetchingPrev <=> iq.fetchingPrev)
  BY <1>1, <1>6, <1>8 DEF PagesState
<1>10. RunsFit(iq) => RunsFit(r)
  BY <1>6, <1>9 DEF RunsFit, RunFits
<1> QED
  BY <1>7, <1>8, <1>9, <1>10 DEF IQInv, PagesOK

LEMMA GivesUpKeeps ==
  ASSUME PagesAssumption, IQInv, NEW k \in 1 .. Len(iq.runs), PageGivesUp(k) PROVE IQInv'
<1>1. iq \in PagesState
  BY DEF IQInv, PagesOK
<1>2. PICK s : s = [iq EXCEPT !.status = "error"]
  OBVIOUS
<1>3. /\ s \in PagesState /\ s.pages = iq.pages /\ s.runs = iq.runs /\ (s.doubled <=> iq.doubled)
      /\ s.next = iq.next /\ s.prev = iq.prev
  BY <1>1, <1>2 DEF PagesState
<1>4. PICK r : r = Finish(s, k)
  OBVIOUS
<1>5. /\ r \in PagesState /\ r.pages = iq.pages /\ r.next = iq.next /\ r.prev = iq.prev
      /\ (r.doubled <=> iq.doubled)
  BY <1>3, <1>4, FinishTakes
<1>6. iq' = r
  BY <1>2, <1>4 DEF PageGivesUp
<1>7. RunsFit(iq) => RunsFit(r)
  BY <1>1, <1>3, <1>4, FinishFits
<1> QED
  BY <1>5, <1>6, <1>7 DEF IQInv, PagesOK

LEMMA PagesStart == ASSUME PagesAssumption, IQInit PROVE IQInv
<1>1. iq.pages = <<>> /\ iq.runs = <<Run("initial", 0)>> /\ iq.next = None /\ iq.prev = None
  BY DEF IQInit
<1>2. Run("initial", 0) \in PageRuns
  BY DEF Run, PageRuns, PageNumbers, PagesAssumption
<1>3. iq \in PagesState
  <2>1. PICK none, empty, runs : none = None /\ empty = <<>> /\ runs = <<Run("initial", 0)>>
    OBVIOUS
  <2>2. empty \in Seq(PageNumbers) /\ none \in PageNumbers \cup {None} /\ runs \in Seq(PageRuns)
    BY <1>2, <2>1
  <2>3. iq = [pages |-> empty, status |-> "loading", next |-> none, prev |-> none,
              fetching |-> TRUE, fetchingNext |-> FALSE, fetchingPrev |-> FALSE,
              runs |-> runs, doubled |-> FALSE]
    BY <2>1 DEF IQInit
  <2> QED
    BY <2>2, <2>3 DEF PagesState
<1>4. Run("initial", 0).dir = "initial" /\ iq.runs[1] = Run("initial", 0)
  BY <1>1 DEF Run
<1>5. RunsFit(iq) /\ Len(iq.pages) <= MaxPages
  <2>1. Len(iq.runs) = 1 /\ RunFits(iq, iq.runs[1])
    BY <1>1, <1>4 DEF RunFits
  <2>2. \A k \in 1 .. Len(iq.runs) : k = 1
    BY <2>1
  <2>3. Len(iq.pages) <= MaxPages
    BY <1>1 DEF PagesAssumption
  <2> QED
    BY <2>1, <2>2, <2>3 DEF RunsFit
<1>6. Consecutive(iq.pages) /\ iq.next = NextParam(iq.pages) /\ iq.prev = PrevParam(iq.pages)
  BY <1>1 DEF Consecutive, NextParam, PrevParam
<1> QED
  BY <1>3, <1>5, <1>6 DEF IQInv, PagesOK

LEMMA PagesStep == ASSUME PagesAssumption, IQInv, [IQNext]_iq PROVE IQInv'
<1>1. CASE UNCHANGED iq
  BY <1>1 DEF IQInv
<1>2. CASE IQNext
  BY <1>2, NextFetchKeeps, PreviousFetchKeeps, RefetchKeeps, ArrivalKeeps, FailureKeeps,
     GivesUpKeeps DEF IQNext
<1> QED
  BY <1>1, <1>2

LEMMA PagesTypes == IQInv => IQTypeOK
<1> SUFFICES ASSUME IQInv PROVE IQTypeOK
  OBVIOUS
<1>1. PICK pages \in Seq(PageNumbers) : pages = iq.pages
  BY DEF IQInv, PagesOK, PagesState
<1>2. PICK n \in 0 .. MaxPages : n = Len(pages)
  BY <1>1 DEF IQInv, PagesOK
<1>3. pages \in [1 .. n -> PageNumbers]
  BY <1>2
<1> QED
  BY <1>1, <1>2, <1>3 DEF IQTypeOK, IQInv, PagesOK, PagesState, PageNumbers

\* The pages shown are consecutive, whatever number of them the server has, however
\* often a fetch fails and in whichever order a next and a previous one end, until a
\* refetch begins during a fetch or a fetch is made twice because the end of another
\* reset its flag (infinite.ts:263, 296).
THEOREM PagesInOrder ==
  ASSUME PagesAssumption
  PROVE  IQInit /\ [][IQNext]_iq => []PagesConsecutive
<1>1. IQInit => IQInv
  BY PagesStart
<1>2. IQInv /\ [IQNext]_iq => IQInv'
  BY PagesStep
<1>3. IQInv => PagesConsecutive
  BY DEF IQInv, PagesOK, Consecutive, PagesConsecutive
<1> QED
  BY <1>1, <1>2, <1>3, PTL

-----------------------------------------------------------------------------
(* Mutation: what a mutation object shows, whichever of its calls overlap *)

MutationCalls == [pc : {"idle", "mutating", "asking", "done"}, attempt : Nat,
                  told : SUBSET {"success", "error", "settled"}]
MutationState ==
  [status : {"idle", "loading", "success", "error"}, data : SUBSET Calls, error : SUBSET Calls,
   call : [Calls -> MutationCalls], met : SUBSET (Calls \X Calls), last : SUBSET Calls,
   running : BOOLEAN, listeners : [Triggers -> Nat]]

\* A call was told nothing before it settled, and then one outcome.
ToldOnce(c) ==
  /\ c.pc # "done" => c.told = {}
  /\ c.pc = "done" => c.told \in {{"success", "settled"}, {"error", "settled"}}

\* Calls that run together overlapped, and so did one that runs with the one whose error
\* is shown: beginning a call clears the error.
MetInv ==
  /\ \A c, d \in Running(mu) : c # d => Overlapped(c, d)
  /\ \A e \in mu.error, r \in Running(mu) : Overlapped(e, r)

\* What is shown, apart from what each call was told.
ShownInv ==
  /\ mu.status = "success" => mu.last # {} /\ mu.data = mu.last
                               /\ \A e \in mu.error, c \in mu.last : Overlapped(e, c)
  /\ mu.status = "error" => mu.last # {} /\ mu.error = mu.last
  /\ mu.status = "idle" => mu.last = {}
  /\ mu.status = "loading" => Running(mu) # {}

MUInv == mu \in MutationState /\ MetInv /\ ShownInv /\ \A c \in Calls : ToldOnce(mu.call[c])

LEMMA CallReplaced ==
  ASSUME NEW m \in MutationState, NEW c \in Calls, NEW new \in MutationCalls
  PROVE  LET call == [m.call EXCEPT ![c] = new]
         IN  /\ call \in [Calls -> MutationCalls] /\ call[c] = new
             /\ \A d \in Calls : d # c => call[d] = m.call[d]
  BY DEF MutationState

\* Who runs, and who was told what, after a step of one call.
LEMMA CallMoves ==
  ASSUME MUInv, NEW c \in Calls, NEW new \in MutationCalls, ToldOnce(new), new.pc # "idle",
         mu'.call = [mu.call EXCEPT ![c] = new]
  PROVE  /\ Running(mu)' \subseteq Running(mu) \cup {c}
         /\ Running(mu) \subseteq Running(mu)' \cup {c}
         /\ c \in Running(mu)' <=> new.pc # "done"
         /\ \A d \in Calls : ToldOnce(mu'.call[d])
<1>1. mu \in MutationState
  BY DEF MUInv
<1>2. PICK call : call = [mu.call EXCEPT ![c] = new]
  OBVIOUS
<1>3. /\ call[c] = new /\ mu'.call = call
      /\ \A d \in Calls : d # c => call[d] = mu.call[d]
  BY <1>1, <1>2, CallReplaced
<1>4. \A d \in Calls : ToldOnce(mu'.call[d])
  BY <1>3 DEF MUInv
<1>5. \A d \in Calls : d # c => (d \in Running(mu)' <=> d \in Running(mu))
  BY <1>3 DEF Running
<1>6. c \in Running(mu)' <=> new.pc # "done"
  BY <1>3 DEF Running, MutationCalls
<1>7. Running(mu)' \subseteq Calls /\ Running(mu) \subseteq Calls
  BY DEF Running
<1> QED
  BY <1>4, <1>5, <1>6, <1>7

\* The invariant after a step of a call that goes on running and shows nothing.
LEMMA CallRunsOn ==
  ASSUME MUInv, mu' \in MutationState, NEW c \in Running(mu), NEW new \in MutationCalls,
         ToldOnce(new), new.pc \in {"mutating", "asking"},
         mu'.call = [mu.call EXCEPT ![c] = new],
         mu'.met = mu.met, mu'.status = mu.status, mu'.data = mu.data, mu'.error = mu.error,
         mu'.last = mu.last
  PROVE  MUInv'
<1>1. c \in Calls
  BY DEF Running
<1>2. Running(mu)' = Running(mu) /\ \A d \in Calls : ToldOnce(mu'.call[d])
  BY <1>1, CallMoves
<1>3. MetInv'
  BY <1>2 DEF MUInv, MetInv, Overlapped
<1>4. ShownInv'
  BY <1>2 DEF MUInv, ShownInv, Overlapped
<1> QED
  BY <1>2, <1>3, <1>4 DEF MUInv

LEMMA MutateKeeps == ASSUME MUInv, NEW c \in Calls, Mutate(c) PROVE MUInv'
<1>1. mu \in MutationState /\ mu.call[c].pc = "idle" /\ ToldOnce(mu.call[c])
  BY DEF MUInv, Mutate
<1>2. PICK new : new = [mu.call[c] EXCEPT !.pc = "mutating"]
  OBVIOUS
<1>3. mu.call[c] \in MutationCalls
  BY <1>1 DEF MutationState
<1>4. new \in MutationCalls /\ new.pc = "mutating" /\ ToldOnce(new)
  BY <1>1, <1>2, <1>3 DEF MutationCalls, ToldOnce
<1>5. PICK call : call = [mu.call EXCEPT ![c] = new]
  OBVIOUS
<1>6. call \in [Calls -> MutationCalls]
  BY <1>1, <1>4, <1>5, CallReplaced
<1>7. PICK met : met = mu.met \cup (Running(mu) \X {c})
  OBVIOUS
<1>8. met \in SUBSET (Calls \X Calls)
  BY <1>1, <1>7 DEF MutationState, Running
<1>9. mu' = [mu EXCEPT !.status = "loading", !.error = {}, !.call = call, !.met = met]
  BY <1>1, <1>2, <1>5, <1>7 DEF Mutate, MutationState
<1>10. /\ mu' \in MutationState /\ mu'.call = call /\ mu'.error = {} /\ mu'.met = met
       /\ mu'.status = "loading"
  BY <1>1, <1>6, <1>8, <1>9 DEF MutationState
<1>11. /\ Running(mu)' \subseteq Running(mu) \cup {c} /\ c \in Running(mu)'
       /\ \A d \in Calls : ToldOnce(mu'.call[d])
  BY <1>4, <1>5, <1>10, CallMoves
<1>12. ASSUME NEW d \in Running(mu)', NEW e \in Running(mu)', d # e
       PROVE  Overlapped(d, e)'
  <2>1. CASE d \in Running(mu) /\ e \in Running(mu)
    BY <1>7, <1>10, <1>12, <2>1 DEF MUInv, MetInv, Overlapped
  <2>2. CASE d = c
    <3>1. e \in Running(mu)
      BY <1>11, <1>12, <2>2
    <3>2. <<e, c>> \in met
      BY <1>7, <3>1
    <3> QED
      BY <1>10, <2>2, <3>2 DEF Overlapped
  <2>3. CASE e = c
    <3>1. d \in Running(mu)
      BY <1>11, <1>12, <2>3
    <3>2. <<d, c>> \in met
      BY <1>7, <3>1
    <3> QED
      BY <1>10, <2>3, <3>2 DEF Overlapped
  <2> QED
    BY <1>11, <2>1, <2>2, <2>3
<1>13. MetInv'
  BY <1>10, <1>12 DEF MetInv
<1>14. ShownInv'
  BY <1>10, <1>11 DEF ShownInv
<1> QED
  BY <1>10, <1>11, <1>13, <1>14 DEF MUInv

LEMMA CallMutationFnKeeps == ASSUME MUInv, NEW c \in Calls, CallMutationFn(c) PROVE MUInv'
<1>1. mu \in MutationState /\ mu.call[c].pc = "mutating" /\ ToldOnce(mu.call[c])
  BY DEF MUInv, CallMutationFn
<1>2. PICK new : new = [mu.call[c] EXCEPT !.pc = "asking"]
  OBVIOUS
<1>3. mu.call[c] \in MutationCalls
  BY <1>1 DEF MutationState
<1>4. new \in MutationCalls /\ new.pc = "asking" /\ ToldOnce(new)
  BY <1>1, <1>2, <1>3 DEF MutationCalls, ToldOnce
<1>5. PICK call : call = [mu.call EXCEPT ![c] = new]
  OBVIOUS
<1>6. call \in [Calls -> MutationCalls]
  BY <1>1, <1>4, <1>5, CallReplaced
<1>7. mu' = [mu EXCEPT !.call = call]
  BY <1>1, <1>2, <1>5 DEF CallMutationFn, MutationState
<1>8. /\ mu' \in MutationState /\ mu'.call = call /\ mu'.error = mu.error /\ mu'.met = mu.met
      /\ mu'.status = mu.status /\ mu'.data = mu.data /\ mu'.last = mu.last
  BY <1>1, <1>6, <1>7 DEF MutationState
<1>9. c \in Running(mu)
  BY <1>1 DEF Running
<1> QED
  BY <1>4, <1>5, <1>8, <1>9, CallRunsOn

\* The invariant after a call settled: the others that run had overlapped it.
LEMMA SettleKeeps ==
  ASSUME MUInv, mu' \in MutationState, NEW c \in Running(mu), NEW new \in MutationCalls,
         ToldOnce(new), new.pc = "done",
         mu'.call = [mu.call EXCEPT ![c] = new], mu'.met = mu.met, mu'.last = {c},
         \/ mu'.status = "success" /\ mu'.data = {c} /\ mu'.error = mu.error
         \/ mu'.status = "error" /\ mu'.error = {c}
  PROVE  MUInv'
<1>1. c \in Calls
  BY DEF Running
<1>2. /\ Running(mu)' \subseteq Running(mu) /\ c \notin Running(mu)'
      /\ \A d \in Calls : ToldOnce(mu'.call[d])
  BY <1>1, CallMoves
<1>3. \A d, e : Overlapped(d, e)' <=> Overlapped(d, e)
  BY DEF Overlapped
<1>4. \A d \in Running(mu)' : Overlapped(c, d)
  BY <1>2 DEF MUInv, MetInv
<1>5. \A e \in mu.error : Overlapped(e, c)
  BY DEF MUInv, MetInv
<1>6. MetInv'
  BY <1>2, <1>3, <1>4 DEF MUInv, MetInv
<1>7. ShownInv'
  BY <1>3, <1>5 DEF ShownInv
<1> QED
  BY <1>2, <1>6, <1>7 DEF MUInv

LEMMA ReturnKeeps == ASSUME MUInv, NEW c \in Calls, MutationFnReturns(c) PROVE MUInv'
<1>1. mu \in MutationState /\ mu.call[c].pc = "asking" /\ ToldOnce(mu.call[c])
  BY DEF MUInv, MutationFnReturns
<1>2. mu.call[c] \in MutationCalls /\ mu.call[c].told = {}
  BY <1>1 DEF MutationState, ToldOnce
<1>3. PICK told : told = mu.call[c].told \cup {"success", "settled"}
  OBVIOUS
<1>4. told = {"success", "settled"}
  BY <1>2, <1>3
<1>5. PICK new : new = [mu.call[c] EXCEPT !.pc = "done", !.told = told]
  OBVIOUS
<1>6. new \in MutationCalls /\ new.pc = "done" /\ new.told = told
  BY <1>2, <1>4, <1>5 DEF MutationCalls
<1>7. ToldOnce(new)
  BY <1>4, <1>6 DEF ToldOnce
<1>8. PICK call : call = [mu.call EXCEPT ![c] = new]
  OBVIOUS
<1>9. call \in [Calls -> MutationCalls]
  BY <1>1, <1>6, <1>8, CallReplaced
<1>10. mu' = [mu EXCEPT !.data = {c}, !.status = "success", !.last = {c}, !.call = call]
  BY <1>1, <1>3, <1>5, <1>8 DEF MutationFnReturns, MutationState
<1>11. /\ mu' \in MutationState /\ mu'.call = call /\ mu'.error = mu.error /\ mu'.met = mu.met
       /\ mu'.status = "success" /\ mu'.data = {c} /\ mu'.last = {c}
  BY <1>1, <1>9, <1>10 DEF MutationState
<1>12. c \in Running(mu)
  BY <1>1 DEF Running
<1> QED
  BY <1>6, <1>7, <1>8, <1>11, <1>12, SettleKeeps

LEMMA GiveUpKeeps == ASSUME MUInv, NEW c \in Calls, MutationFnGivesUp(c) PROVE MUInv'
<1>1. mu \in MutationState /\ mu.call[c].pc = "asking" /\ ToldOnce(mu.call[c])
  BY DEF MUInv, MutationFnGivesUp
<1>2. mu.call[c] \in MutationCalls /\ mu.call[c].told = {}
  BY <1>1 DEF MutationState, ToldOnce
<1>3. PICK told : told = mu.call[c].told \cup {"error", "settled"}
  OBVIOUS
<1>4. told = {"error", "settled"}
  BY <1>2, <1>3
<1>5. PICK new : new = [mu.call[c] EXCEPT !.pc = "done", !.told = told]
  OBVIOUS
<1>6. new \in MutationCalls /\ new.pc = "done" /\ new.told = told
  BY <1>2, <1>4, <1>5 DEF MutationCalls
<1>7. ToldOnce(new)
  BY <1>4, <1>6 DEF ToldOnce
<1>8. PICK call : call = [mu.call EXCEPT ![c] = new]
  OBVIOUS
<1>9. call \in [Calls -> MutationCalls]
  BY <1>1, <1>6, <1>8, CallReplaced
<1>10. mu' = [mu EXCEPT !.error = {c}, !.status = "error", !.last = {c}, !.call = call]
  BY <1>1, <1>3, <1>5, <1>8 DEF MutationFnGivesUp, MutationState
<1>11. /\ mu' \in MutationState /\ mu'.call = call /\ mu'.met = mu.met
       /\ mu'.status = "error" /\ mu'.error = {c} /\ mu'.last = {c}
  BY <1>1, <1>9, <1>10 DEF MutationState
<1>12. c \in Running(mu)
  BY <1>1 DEF Running
<1> QED
  BY <1>6, <1>7, <1>8, <1>11, <1>12, SettleKeeps

LEMMA ThrowKeeps == ASSUME MUInv, NEW c \in Calls, MutationFnThrows(c) PROVE MUInv'
<1>1. mu \in MutationState /\ mu.call[c].pc = "asking" /\ ToldOnce(mu.call[c])
  BY DEF MUInv, MutationFnThrows
<1>2. PICK new : new = [mu.call[c] EXCEPT !.attempt = @ + 1]
  OBVIOUS
<1>3. mu.call[c] \in MutationCalls
  BY <1>1 DEF MutationState
<1>4. new \in MutationCalls /\ new.pc = "asking" /\ ToldOnce(new)
  BY <1>1, <1>2, <1>3 DEF MutationCalls, ToldOnce
<1>5. PICK call : call = [mu.call EXCEPT ![c] = new]
  OBVIOUS
<1>6. call \in [Calls -> MutationCalls]
  BY <1>1, <1>4, <1>5, CallReplaced
<1>7. mu' = [mu EXCEPT !.call = call]
  BY <1>1, <1>2, <1>5 DEF MutationFnThrows, MutationState
<1>8. /\ mu' \in MutationState /\ mu'.call = call /\ mu'.error = mu.error /\ mu'.met = mu.met
      /\ mu'.status = mu.status /\ mu'.data = mu.data /\ mu'.last = mu.last
  BY <1>1, <1>6, <1>7 DEF MutationState
<1>9. c \in Running(mu)
  BY <1>1 DEF Running
<1> QED
  BY <1>4, <1>5, <1>8, <1>9, CallRunsOn

\* Steps that leave the calls alone: reset, and the triggers of a refetch.
LEMMA QuietKeeps ==
  ASSUME MUInv, mu' \in MutationState, mu'.call = mu.call, mu'.met = mu.met,
         \/ mu'.status = "idle" /\ mu'.error = {} /\ mu'.last = {}
         \/ /\ mu'.status = mu.status /\ mu'.data = mu.data
            /\ mu'.error = mu.error /\ mu'.last = mu.last
  PROVE  MUInv'
<1>1. Running(mu)' = Running(mu) /\ \A d, e : Overlapped(d, e)' <=> Overlapped(d, e)
  BY DEF Running, Overlapped
<1>2. MetInv'
  BY <1>1 DEF MUInv, MetInv
<1>3. ShownInv'
  BY <1>1 DEF MUInv, ShownInv
<1> QED
  BY <1>2, <1>3 DEF MUInv

LEMMA ResetKeeps == ASSUME MUInv, Reset PROVE MUInv'
<1>1. mu \in MutationState
  BY DEF MUInv
<1>2. mu' = [mu EXCEPT !.status = "idle", !.data = {}, !.error = {}, !.last = {}]
  BY DEF Reset
<1>3. /\ mu' \in MutationState /\ mu'.call = mu.call /\ mu'.met = mu.met
      /\ mu'.status = "idle" /\ mu'.error = {} /\ mu'.last = {}
  BY <1>1, <1>2 DEF MutationState
<1> QED
  BY <1>3, QuietKeeps

LEMMA TriggersKeep == ASSUME MUInv, Start \/ Stop PROVE MUInv'
<1>1. mu \in MutationState
  BY DEF MUInv
<1>2. PICK on \in BOOLEAN, listeners \in [Triggers -> Nat] :
        mu' = [mu EXCEPT !.running = on, !.listeners = listeners]
  <2>1. CASE Start
    <3>1. PICK listeners : listeners = [t \in Triggers |-> mu.listeners[t] + IF t \in Sources THEN 1 ELSE 0]
      OBVIOUS
    <3>2. listeners \in [Triggers -> Nat]
      BY <1>1, <3>1 DEF MutationState
    <3>3. mu' = [mu EXCEPT !.running = TRUE, !.listeners = listeners]
      BY <1>1, <2>1, <3>1 DEF Start, MutationState
    <3> QED
      BY <3>2, <3>3
  <2>2. CASE Stop
    <3>1. PICK listeners : listeners = [t \in Triggers |-> 0]
      OBVIOUS
    <3>2. listeners \in [Triggers -> Nat]
      BY <3>1
    <3>3. mu' = [mu EXCEPT !.running = FALSE, !.listeners = listeners]
      BY <2>2, <3>1 DEF Stop
    <3> QED
      BY <3>2, <3>3
  <2> QED
    BY <2>1, <2>2
<1>3. /\ mu' \in MutationState /\ mu'.call = mu.call /\ mu'.last = mu.last /\ mu'.met = mu.met
      /\ mu'.status = mu.status /\ mu'.data = mu.data /\ mu'.error = mu.error
  BY <1>1, <1>2 DEF MutationState
<1> QED
  BY <1>3, QuietKeeps

LEMMA MutationStarts == ASSUME MUInit PROVE MUInv
<1>1. FreshCall \in MutationCalls /\ FreshCall.pc = "idle" /\ FreshCall.told = {}
  BY DEF FreshCall, MutationCalls
<1>2. PICK call, listeners : call = [c \in Calls |-> FreshCall] /\ listeners = [t \in Triggers |-> 0]
  OBVIOUS
<1>3. call \in [Calls -> MutationCalls] /\ listeners \in [Triggers -> Nat]
  BY <1>1, <1>2
<1>4. mu = [status |-> "idle", data |-> {}, error |-> {}, call |-> call, met |-> {},
            last |-> {}, running |-> FALSE, listeners |-> listeners]
  BY <1>2 DEF MUInit
<1>5. /\ mu \in MutationState /\ mu.call = call /\ mu.last = {}
      /\ mu.status = "idle" /\ mu.error = {}
  BY <1>3, <1>4 DEF MutationState
<1>6. \A c \in Calls : mu.call[c].pc = "idle" /\ mu.call[c].told = {}
  BY <1>1, <1>2, <1>5
<1>7. Running(mu) = {}
  BY <1>6 DEF Running
<1> QED
  BY <1>5, <1>6, <1>7 DEF MUInv, MetInv, ShownInv, ToldOnce

LEMMA MutationStep == ASSUME MUInv, [MUNext]_mu PROVE MUInv'
<1>1. CASE UNCHANGED mu
  BY <1>1 DEF MUInv, MetInv, ShownInv, Overlapped, Running, ToldOnce
<1>2. CASE MUNext
  BY <1>2, MutateKeeps, CallMutationFnKeeps, ReturnKeeps, GiveUpKeeps, ThrowKeeps, ResetKeeps,
     TriggersKeep DEF MUNext
<1> QED
  BY <1>1, <1>2

LEMMA MutationTypes == MUInv => MUTypeOK
  BY DEF MUInv, MutationState, MUTypeOK

LEMMA OutcomeFromInv == ASSUME MUInv PROVE OutcomeShown
<1>1. ASSUME NEW c \in Calls, mu.call[c].pc = "done"
      PROVE  "settled" \in mu.call[c].told /\ Cardinality(mu.call[c].told) = 2
  <2>1. PICK o \in {"success", "error"} : mu.call[c].told = {o, "settled"}
    BY <1>1 DEF MUInv, ToldOnce
  <2>2. o # "settled"
    OBVIOUS
  <2>3. IsFiniteSet({"settled"}) /\ Cardinality({"settled"}) = 1
    BY FS_Singleton
  <2>4. Cardinality({"settled"} \cup {o}) = 2
    BY <2>2, <2>3, FS_AddElement
  <2>5. {o, "settled"} = {"settled"} \cup {o}
    OBVIOUS
  <2> QED
    BY <2>1, <2>4, <2>5
<1> QED
  BY <1>1 DEF OutcomeShown, MUInv, ShownInv

\* Whatever calls overlap, the mutation object shows the outcome of the call that settled
\* last since a reset, an error it shows beside a success is that of a call that overlapped
\* the one that succeeded, and every call is told one outcome (mutation.ts:45).
THEOREM OutcomesAreShown == MUInit /\ [][MUNext]_mu => []OutcomeShown
<1>1. MUInit => MUInv
  BY MutationStarts
<1>2. MUInv /\ [MUNext]_mu => MUInv'
  BY MutationStep
<1>3. MUInv => OutcomeShown
  BY OutcomeFromInv
<1> QED
  BY <1>1, <1>2, <1>3, PTL
=============================================================================
