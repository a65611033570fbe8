---------------------------- MODULE QueryCache ----------------------------
(* packages/vais-web/packages/query: QueryCache (cache.ts) and the mutations *)
(* of OptimisticUpdateManager over it (optimistic.ts), for one query key.    *)
(*                                                                           *)
(* The data of the key is the set of mutations whose updater it contains, so *)
(* that a rollback can be told from a lost or a phantom update; Undefined is *)
(* JavaScript's.  A record is an object with an identity, as in QueryClient. *)
EXTENDS Naturals, FiniteSets

CONSTANTS Mutations,    \* calls of execute(), each made at most once
          Subscribers,  \* callbacks; each subscribes at most once
          Collects,     \* gcTime > 0
          MayClearCache \* whether the application calls clear()

VARIABLE kc

\* What the theorems ask of the constants.
CacheAssumption ==
  /\ IsFiniteSet(Subscribers) /\ {Collects, MayClearCache} \subseteq BOOLEAN
  /\ Mutations \cap {"undefined", "base"} = {}

Undefined == {"undefined"}
RSlots == 1 .. (Cardinality(Subscribers) + 2)
NoRecord == [data |-> Undefined, invalidated |-> TRUE, gcTimer |-> FALSE, subs |-> {}]
Base == "base"

KCInit == kc = [recs |-> [r \in RSlots |-> NoRecord], stored |-> 0,
                mut |-> [m \in Mutations |-> [pc |-> "idle", snapshot |-> Undefined]],
                lost |-> FALSE,  \* history: an unsubscribe function called again deleted the key
                sub |-> [c \in Subscribers |-> [life |-> "none", rec |-> 0, seen |-> Undefined]],
                cleared |-> FALSE]

----------------------------------------------------------------------------
ValueOf(record) == IF record.invalidated THEN Undefined ELSE record.data

\* get(): what a reader of the key sees.
Get(s) == IF s.stored = 0 THEN Undefined ELSE ValueOf(s.recs[s.stored])

FreeRecord(s) == CHOOSE r \in RSlots : /\ r # s.stored /\ ~s.recs[r].gcTimer
                                       /\ s.recs[r].subs = {}

Notify(s, r) == [s EXCEPT !.sub = [c \in Subscribers |->
                   IF c \in s.recs[r].subs THEN [s.sub[c] EXCEPT !.seen = ValueOf(s.recs[r])]
                   ELSE s.sub[c]]]

\* set(): stops the gc timer, and nothing starts it again.
Set(s, data) ==
  LET r == IF s.stored # 0 THEN s.stored ELSE FreeRecord(s)
      subs == IF s.stored # 0 THEN s.recs[r].subs ELSE {}
  IN Notify([s EXCEPT !.stored = r,
                      !.recs[r] = [data |-> data, invalidated |-> FALSE,
                                   gcTimer |-> FALSE, subs |-> subs]], r)

\* The key goes, whichever record is under it; nobody who has unsubscribed from
\* that record holds a stored one any more.
Deleted(s) ==
  [s EXCEPT !.stored = 0,
            !.sub = [c \in Subscribers |->
                       IF s.sub[c].life = "gone" /\ s.sub[c].rec = s.stored
                       THEN [s.sub[c] EXCEPT !.rec = 0] ELSE s.sub[c]]]

\* A timer deletes by key too, and a record has one at most.
ScheduleGc(s, r) ==
  IF s.recs[r].subs # {} THEN s
  ELSE IF ~Collects THEN Deleted(s)
  ELSE [s EXCEPT !.recs[r].gcTimer = TRUE]

CacheInvalidate(s) ==
  IF s.stored = 0 THEN s
  ELSE ScheduleGc(Notify([s EXCEPT !.recs[s.stored].invalidated = TRUE], s.stored), s.stored)

\* Broken variant: the optimistic data stays when there was none before.
RollbackInvalidatesOnly(s, snapshot) == IF snapshot = Undefined THEN s ELSE Set(s, snapshot)
Rollback(s, snapshot) ==
  IF snapshot = Undefined THEN CacheInvalidate(s) ELSE Set(s, snapshot)

Updater(snapshot, m) == (IF snapshot = Undefined THEN {} ELSE snapshot) \cup {m}

----------------------------------------------------------------------------
AppSets == kc' = Set(kc, {Base})
AppInvalidates == kc.stored # 0 /\ kc' = CacheInvalidate(kc)

Subscribe(c) ==
  /\ kc.sub[c].life = "none"
  /\ LET r == IF kc.stored # 0 THEN kc.stored ELSE FreeRecord(kc)
         s1 == IF kc.stored # 0 THEN kc ELSE [kc EXCEPT !.stored = r, !.recs[r] = NoRecord]
     IN kc' = [s1 EXCEPT !.recs[r].gcTimer = FALSE, !.recs[r].subs = @ \cup {c},
                         !.sub[c] = [life |-> "live", rec |-> r, seen |-> Get(kc)]]

\* Works on the record captured at subscription time.
Unsubscribe(c) ==
  /\ kc.sub[c].life = "live"
  /\ LET r == kc.sub[c].rec
         gone == [life |-> "gone", rec |-> IF r = kc.stored THEN r ELSE 0, seen |-> Undefined]
         s1 == [kc EXCEPT !.sub[c] = gone, !.recs[r].subs = @ \ {c}]
     IN kc' = ScheduleGc(s1, r)

\* The function subscribe() returned can be called again.  A record that is not
\* stored has had its timer, which scheduleGc finds still set; without one the
\* key goes at once.  After clear() nothing is promised to a subscriber, and the
\* second call is left out.
UnsubscribeAgain(c) ==
  /\ kc.sub[c].life = "gone" /\ ~kc.cleared
  /\ IF kc.sub[c].rec # 0 THEN kc' = ScheduleGc(kc, kc.sub[c].rec)
     ELSE ~Collects /\ kc' = [Deleted(kc) EXCEPT !.lost = TRUE]

CollectRecord(r) ==
  /\ kc.recs[r].gcTimer
  /\ kc' = [Deleted(kc) EXCEPT !.recs[r].gcTimer = FALSE]

ClearCache ==
  /\ MayClearCache /\ ~kc.cleared
  /\ kc' = [kc EXCEPT !.stored = 0, !.cleared = TRUE,
                      !.recs = [r \in RSlots |-> IF r = kc.stored
                                  THEN [kc.recs[r] EXCEPT !.gcTimer = FALSE] ELSE kc.recs[r]],
                      !.sub = [c \in Subscribers |->
                                 IF kc.stored # 0 /\ c \in kc.recs[kc.stored].subs
                                 THEN [kc.sub[c] EXCEPT !.seen = Undefined] ELSE kc.sub[c]]]

\* execute() up to its await: snapshot, then the optimistic write.
Execute(m) ==
  /\ kc.mut[m].pc = "idle"
  /\ LET snapshot == Get(kc)
         s1 == Set(kc, Updater(snapshot, m))
     IN kc' = [s1 EXCEPT !.mut[m] = [pc |-> "loading", snapshot |-> snapshot]]

MutationFails(m) ==
  /\ kc.mut[m].pc = "loading"
  /\ kc' = [Rollback(kc, kc.mut[m].snapshot) EXCEPT !.mut[m].pc = "error"]

MutationSucceeds(m) ==
  /\ kc.mut[m].pc = "loading"
  /\ kc' = [CacheInvalidate(kc) EXCEPT !.mut[m].pc = "success"]

KCNext ==
  \/ AppSets \/ AppInvalidates \/ ClearCache
  \/ \E c \in Subscribers : Subscribe(c) \/ Unsubscribe(c) \/ UnsubscribeAgain(c)
  \/ \E r \in RSlots : CollectRecord(r)
  \/ \E m \in Mutations : Execute(m) \/ MutationFails(m) \/ MutationSucceeds(m)

----------------------------------------------------------------------------
KCTypeOK ==
  /\ kc.stored \in RSlots \cup {0}
  /\ \A r \in RSlots : /\ kc.recs[r].data \subseteq Mutations \cup {Base} \cup Undefined
                       /\ kc.recs[r].subs \subseteq Subscribers
  /\ \A m \in Mutations : kc.mut[m].pc \in {"idle", "loading", "error", "success"}

\* What a failed mutation wrote is in the data readers see only where a second
\* failed one put it back: one that began while the first was in flight and
\* rolled back to the snapshot it had taken of it (optimistic.ts:179, 192).
FailedEffectGone ==
  \A m \in Mutations : kc.mut[m].pc = "error" /\ m \in Get(kc) =>
    \E n \in Mutations \ {m} : kc.mut[n].pc = "error" /\ m \in kc.mut[n].snapshot

\* The record of a subscriber is the one stored under the key, and what the
\* subscriber read when it subscribed, or was last called with, is what get()
\* returns (cache.ts:295, 305, 353): until clear(), or until with gcTime 0 an
\* unsubscribe function called a second time deletes the key.
SubscriberCurrent ==
  ~kc.cleared /\ ~kc.lost => \A c \in Subscribers : kc.sub[c].life = "live" =>
                                /\ kc.stored = kc.sub[c].rec
                                /\ kc.sub[c].seen = Get(kc)
=============================================================================
